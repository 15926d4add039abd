-------------------------- MODULE RemoteLegLemmas --------------------------
(***************************************************************************)
(* The inductive invariant of RemoteLeg, the operators its handlers are    *)
(* built from, and the instructions that are not part of a control message *)
(* or of a running recall.                                                 *)
(*                                                                         *)
(* LegInv is the inductive invariant.  To LegTypeOK and the safety         *)
(* invariants of RemoteLeg it adds RecordBounds, without which the amount  *)
(* an allocation still lacks could be negative, and an admitted transfer   *)
(* could start with amounts it had moved before.                           *)
(***************************************************************************)
EXTENDS RemoteLeg, TLAPS

\* No allocation is credited more than it authorized, and a quarantined record has
\* moved nothing yet (check_allocation_shape, check_recall_shape).
RecordBounds ==
    \A id \in TransferIds :
        /\ transfers[id].attributed_amount <= transfers[id].authorized_amount
        /\ transfers[id].status = "Quarantined" =>
              /\ transfers[id].attributed_amount = 0
              /\ transfers[id].custody_principal_reserved = 0
              /\ transfers[id].strategy_principal_resolved = 0
              /\ transfers[id].assets_withdrawn = 0
              /\ transfers[id].assets_sent = 0
              /\ transfers[id].realized_loss = 0

\* The inductive invariant.
LegInv ==
    /\ LegTypeOK
    /\ RecordBounds
    /\ CustodyIdentity
    /\ TokenConservation
    /\ OneOpenTransfer
    /\ RecallConservation
    /\ PrincipalCeiling
    /\ LedgerBalanced

-----------------------------------------------------------------------------
(* The operators the handlers are built from *)

\* Sums and smaller values of naturals are naturals.
LEMMA NatArithmetic ==
    /\ \A a, b \in Nat : a + b \in Nat
    /\ \A a, b \in Nat : a <= b => b - a \in Nat
    /\ \A a, b \in Nat : MinOf(a, b) \in Nat /\ MinOf(a, b) <= a /\ MinOf(a, b) <= b
    /\ \A a, b \in Nat : SaturatingSub(a, b) \in Nat /\ SaturatingSub(a, b) <= a
  BY SMT DEF MinOf, SaturatingSub

\* The numbers the type invariant gives every handler.
LEMMA PositionFields ==
    ASSUME NEW p \in RemotePosition
    PROVE  /\ p.attributed_principal \in Nat
           /\ p.deployed_principal \in Nat
           /\ p.recalled_custody \in Nat
           /\ p.unattributed_custody \in Nat
           /\ p.cumulative_realized_loss \in Nat
           /\ p.active_transfer_id \in TransferIds \cup {NoTransfer}
           /\ p.active_transfer_kind \in {"None", "Allocate", "Recall"}
           /\ p.active_transfer_status \in {"None", "Pending", "Quarantined"}
           /\ p.active_transfer_sequence \in Nat
           /\ p.latest_completed_transfer_id \in TransferIds \cup {NoTransfer}
  BY DEF RemotePosition

\* The token balances are natural numbers.
LEMMA TokenFields ==
    ASSUME LegTypeOK
    PROVE  /\ tokens.custody \in Nat
           /\ tokens.escrow \in Nat
           /\ tokens.adapter_principal \in Nat
           /\ tokens.arrived \in Nat
  BY DEF LegTypeOK

\* So are the amounts of a record.
LEMMA RecordFields ==
    ASSUME NEW r \in TransferRecord
    PROVE  /\ r.transfer_kind \in TransferKind
           /\ r.status \in TransferStatus
           /\ r.message_sequence \in Nat
           /\ r.authorized_amount \in Nat
           /\ r.attributed_amount \in Nat
           /\ r.requested_recall_amount \in Nat
           /\ r.custody_principal_reserved \in Nat
           /\ r.strategy_principal_resolved \in Nat
           /\ r.assets_withdrawn \in Nat
           /\ r.assets_sent \in Nat
           /\ r.realized_loss \in Nat
  BY DEF TransferRecord

\* reconcile moves the whole surplus of custody into the unattributed bucket and
\* changes nothing else.
LEMMA ReconciledFields ==
    ASSUME LegTypeOK, can_reconcile
    PROVE  /\ reconciled \in RemotePosition
           /\ reconciled.unattributed_custody =
                tokens.custody - position.attributed_principal - position.recalled_custody
           /\ reconciled.attributed_principal = position.attributed_principal
           /\ reconciled.deployed_principal = position.deployed_principal
           /\ reconciled.recalled_custody = position.recalled_custody
           /\ reconciled.cumulative_realized_loss = position.cumulative_realized_loss
           /\ reconciled.active_transfer_id = position.active_transfer_id
           /\ reconciled.active_transfer_kind = position.active_transfer_kind
           /\ reconciled.active_transfer_sequence = position.active_transfer_sequence
           /\ reconciled.active_transfer_status = position.active_transfer_status
<1>0. position \in RemotePosition
  BY DEF LegTypeOK
<1>1. tokens.custody - accounted_custody(position) \in Nat
  BY <1>0, PositionFields, TokenFields DEF can_reconcile, accounted_custody
<1>2. position.unattributed_custody + (tokens.custody - accounted_custody(position)) \in Nat
  BY <1>0, <1>1, PositionFields, NatArithmetic
<1>3. reconciled \in RemotePosition
  BY <1>0, <1>2 DEF RemotePosition, reconciled
<1>4. position.unattributed_custody + (tokens.custody - accounted_custody(position))
        = tokens.custody - position.attributed_principal - position.recalled_custody
  BY <1>0, PositionFields, TokenFields DEF accounted_custody
<1>5. reconciled.unattributed_custody =
        tokens.custody - position.attributed_principal - position.recalled_custody
  BY <1>0, <1>4 DEF reconciled, RemotePosition
<1> QED
  BY <1>0, <1>3, <1>5 DEF reconciled, RemotePosition

\* attribute moves n tokens between two buckets of the position.
LEMMA AttributeFields ==
    ASSUME NEW p \in RemotePosition, NEW n \in Nat, n <= p.unattributed_custody
    PROVE  /\ attribute(p, n) \in RemotePosition
           /\ attribute(p, n).unattributed_custody = p.unattributed_custody - n
           /\ attribute(p, n).attributed_principal = p.attributed_principal + n
           /\ attribute(p, n).deployed_principal = p.deployed_principal
           /\ attribute(p, n).recalled_custody = p.recalled_custody
           /\ attribute(p, n).cumulative_realized_loss = p.cumulative_realized_loss
           /\ attribute(p, n).active_transfer_id = p.active_transfer_id
           /\ attribute(p, n).active_transfer_kind = p.active_transfer_kind
           /\ attribute(p, n).active_transfer_sequence = p.active_transfer_sequence
           /\ attribute(p, n).active_transfer_status = p.active_transfer_status
<1>1. p.unattributed_custody - n \in Nat /\ p.attributed_principal + n \in Nat
  BY PositionFields, NatArithmetic
<1> QED
  BY <1>1 DEF attribute, RemotePosition

\* Opening a cycle names it and moves no principal.
LEMMA OpenTransferFields ==
    ASSUME NEW p \in RemotePosition,
           NEW kind \in {"None", "Allocate", "Recall"},
           NEW id \in TransferIds \cup {NoTransfer},
           NEW seq \in Nat,
           NEW status \in {"None", "Pending", "Quarantined"}
    PROVE  LET q == open_transfer(p, kind, id, seq, status)
           IN  /\ q \in RemotePosition
               /\ q.unattributed_custody = p.unattributed_custody
               /\ q.attributed_principal = p.attributed_principal
               /\ q.deployed_principal = p.deployed_principal
               /\ q.recalled_custody = p.recalled_custody
               /\ q.cumulative_realized_loss = p.cumulative_realized_loss
               /\ q.active_transfer_id = id
               /\ q.active_transfer_kind = kind
               /\ q.active_transfer_sequence = seq
               /\ q.active_transfer_status = status
  BY DEF open_transfer, RemotePosition

\* Closing and completing a cycle leave none open and move no principal.
LEMMA CloseTransferFields ==
    ASSUME NEW p \in RemotePosition
    PROVE  LET q == close_transfer(p)
           IN  /\ q \in RemotePosition
               /\ q.unattributed_custody = p.unattributed_custody
               /\ q.attributed_principal = p.attributed_principal
               /\ q.deployed_principal = p.deployed_principal
               /\ q.recalled_custody = p.recalled_custody
               /\ q.cumulative_realized_loss = p.cumulative_realized_loss
               /\ q.active_transfer_id = NoTransfer
               /\ q.active_transfer_kind = "None"
               /\ q.active_transfer_status = "None"
  BY OpenTransferFields DEF close_transfer

\* complete_transfer only adds the latest completed transfer to that.
LEMMA CompleteTransferFields ==
    ASSUME NEW p \in RemotePosition, NEW id \in TransferIds
    PROVE  LET q == complete_transfer(p, id)
           IN  /\ q \in RemotePosition
               /\ q.unattributed_custody = p.unattributed_custody
               /\ q.attributed_principal = p.attributed_principal
               /\ q.deployed_principal = p.deployed_principal
               /\ q.recalled_custody = p.recalled_custody
               /\ q.cumulative_realized_loss = p.cumulative_realized_loss
               /\ q.active_transfer_id = NoTransfer
               /\ q.active_transfer_kind = "None"
               /\ q.active_transfer_status = "None"
<1>1. complete_transfer(p, id) =
        [close_transfer(p) EXCEPT !.latest_completed_transfer_id = id]
  BY DEF complete_transfer
<1> QED
  BY <1>1, CloseTransferFields DEF RemotePosition

-----------------------------------------------------------------------------
(* Steps that move no principal *)

\* A step that leaves the position, the records, the ledger and the tokens alone
\* keeps the invariant if it keeps the types.
LEMMA FrameInv ==
    ASSUME LegInv, LegTypeOK', UNCHANGED << position, transfers, ledger, tokens >>
    PROVE  LegInv'
<1>1. RecordBounds' /\ CustodyIdentity' /\ TokenConservation' /\ OneOpenTransfer'
  BY DEF LegInv, RecordBounds, CustodyIdentity, TokenConservation, OneOpenTransfer,
         accounted_custody
<1>2. RecallConservation'
  BY DEF LegInv, RecallConservation, recall_settled
<1>3. PrincipalCeiling' /\ LedgerBalanced'
  BY DEF LegInv, PrincipalCeiling, LedgerBalanced, committed_principal,
         accepted_principal, outstanding_allocation
<1> QED
  BY <1>1, <1>2, <1>3 DEF LegInv

\* So does one that only reconciles custody.
LEMMA ReconcileFrame ==
    ASSUME LegInv, LegTypeOK', can_reconcile, position' = reconciled,
           UNCHANGED << transfers, ledger, tokens >>
    PROVE  LegInv'
<1>0. LegTypeOK /\ position \in RemotePosition
  BY DEF LegInv, LegTypeOK
<1>1. RecordBounds' /\ LedgerBalanced'
  BY DEF LegInv, RecordBounds, LedgerBalanced
<1>2. CustodyIdentity'
  BY <1>0, ReconciledFields, PositionFields, TokenFields
     DEF LegInv, CustodyIdentity, accounted_custody
<1>3. TokenConservation'
  BY <1>0, ReconciledFields DEF LegInv, TokenConservation
<1>4. OneOpenTransfer'
  BY <1>0, ReconciledFields DEF LegInv, OneOpenTransfer
<1>5. RecallConservation'
  BY <1>0, ReconciledFields DEF LegInv, RecallConservation, recall_settled
<1>6. PrincipalCeiling'
  BY <1>0, ReconciledFields
     DEF LegInv, PrincipalCeiling, committed_principal, accepted_principal,
         outstanding_allocation
<1> QED
  BY <1>1, <1>2, <1>3, <1>4, <1>5, <1>6 DEF LegInv

\* reconcile_custody keeps the invariant.
LEMMA ReconcileCustodyInv ==
    ASSUME LegInv, reconcile_custody
    PROVE  LegInv'
<1>1. LegTypeOK'
  BY ReconciledFields DEF LegInv, LegTypeOK, reconcile_custody
<1> QED
  BY <1>1, ReconcileFrame DEF reconcile_custody

\* freeze keeps the invariant: it only sets the flag.
LEMMA FreezeInv ==
    ASSUME LegInv, freeze
    PROVE  LegInv'
<1>1. LegTypeOK'
  BY DEF LegInv, LegTypeOK, freeze
<1> QED
  BY <1>1, FrameInv DEF freeze

\* advance_replay_watermark keeps it: it only moves the lane.
LEMMA WatermarkInv ==
    ASSUME LegInv, NEW n \in 1..MaxSequence, advance_replay_watermark(n)
    PROVE  LegInv'
<1>1. LegTypeOK'
  BY ProtocolAssumption DEF LegInv, LegTypeOK, advance_replay_watermark
<1> QED
  BY <1>1, FrameInv DEF advance_replay_watermark

\* close_consumed_message keeps it: it only frees a replay record.
LEMMA CloseRecordInv ==
    ASSUME LegInv, NEW n \in 1..MaxSequence, close_consumed_message(n)
    PROVE  LegInv'
<1>1. LegTypeOK'
  BY DEF LegInv, LegTypeOK, close_consumed_message
<1> QED
  BY <1>1, FrameInv DEF close_consumed_message

\* Appending a message of the protocol keeps the outbound lane typed.
LEMMA AppendOutbound ==
    ASSUME outbound \in Seq(OutboundMessage), NEW m \in OutboundMessage
    PROVE  Append(outbound, m) \in Seq(OutboundMessage)
  OBVIOUS

\* publish_recall_sent keeps it: it only publishes and leaves a marker.
LEMMA PublishRecallSentInv ==
    ASSUME LegInv, NEW id \in TransferIds, publish_recall_sent(id)
    PROVE  LegInv'
<1>0. transfers[id] \in TransferRecord /\ config.config_version \in Versions
  BY DEF LegInv, LegTypeOK
<1>1. outbound' \in Seq(OutboundMessage)
  <2>1. [ type |-> "RecallSent",
          transfer_id |-> id,
          principal_sent |-> transfers[id].requested_recall_amount,
          actual_amount_sent |-> transfers[id].assets_sent,
          realized_loss |-> transfers[id].realized_loss,
          config_version |-> config.config_version ] \in OutboundMessage
    BY <1>0, RecordFields DEF OutboundMessage
  <2> QED
    BY <2>1, AppendOutbound DEF publish_recall_sent, LegInv, LegTypeOK
<1>2. LegTypeOK'
  BY <1>1 DEF LegInv, LegTypeOK, publish_recall_sent
<1> QED
  BY <1>2, FrameInv DEF publish_recall_sent

\* publish_remote_report keeps it: it reconciles and publishes.
LEMMA PublishReportInv ==
    ASSUME LegInv, NEW e \in ReportEpochs, NEW observed_at \in Nat,
           publish_remote_report(e, observed_at)
    PROVE  LegInv'
<1>0. /\ LegTypeOK /\ position \in RemotePosition /\ config.config_version \in Versions
  BY DEF LegInv, LegTypeOK
<1>1. in_flight_attribution \in Nat
  <2>1. position.active_transfer_kind = "Allocate" =>
            position.active_transfer_id \in TransferIds
    BY <1>0, PositionFields DEF LegInv, OneOpenTransfer
  <2> QED
    BY <2>1, RecordFields DEF in_flight_attribution, LegInv, LegTypeOK
<1>2. committed_principal(position) \in Nat
  BY <1>0, PositionFields, NatArithmetic DEF committed_principal, accepted_principal
<1>3. SaturatingSub(committed_principal(position), in_flight_attribution) \in Nat
  BY <1>1, <1>2, NatArithmetic
<1>4. [ type |-> "RemoteReport",
        epoch_id |-> e,
        observed_at |-> observed_at,
        reported_value |-> SaturatingSub(committed_principal(position),
                                         in_flight_attribution),
        realized_loss |-> position.cumulative_realized_loss,
        latest_completed_transfer_id |-> position.latest_completed_transfer_id,
        config_version |-> config.config_version ] \in OutboundMessage
  BY <1>0, <1>3, PositionFields DEF OutboundMessage
<1>5. outbound' \in Seq(OutboundMessage)
  BY <1>4, AppendOutbound DEF publish_remote_report, LegInv, LegTypeOK
<1>6. LegTypeOK'
  BY <1>5, ReconciledFields DEF LegInv, LegTypeOK, publish_remote_report
<1> QED
  BY <1>6, ReconcileFrame DEF publish_remote_report

\* Tokens that arrive are a surplus over the buckets.
LEMMA AssetsArriveInv ==
    ASSUME LegInv, NEW n \in Amounts, assets_arrive(n)
    PROVE  LegInv'
<1>0. n \in Nat /\ LegTypeOK /\ position \in RemotePosition
  BY ProtocolAssumption DEF LegInv, LegTypeOK
<1>1. /\ tokens'.custody = tokens.custody + n
      /\ tokens'.arrived = tokens.arrived + n
      /\ tokens'.escrow = tokens.escrow
      /\ tokens'.adapter_principal = tokens.adapter_principal
      /\ tokens' \in [ custody : Nat, escrow : Nat, adapter_principal : Nat, arrived : Nat ]
  <2>1. tokens.custody + n \in Nat /\ tokens.arrived + n \in Nat
    BY <1>0, TokenFields, NatArithmetic
  <2> QED
    BY <1>0, <2>1 DEF LegTypeOK, assets_arrive
<1>2. LegTypeOK'
  BY <1>1 DEF LegInv, LegTypeOK, assets_arrive
<1>3. CustodyIdentity' /\ TokenConservation'
  BY <1>0, <1>1, PositionFields, TokenFields
     DEF LegInv, CustodyIdentity, TokenConservation, accounted_custody, assets_arrive
<1>4. RecordBounds' /\ OneOpenTransfer' /\ LedgerBalanced'
  BY DEF LegInv, RecordBounds, OneOpenTransfer, LedgerBalanced, assets_arrive
<1>5. RecallConservation'
  BY DEF LegInv, RecallConservation, recall_settled, assets_arrive
<1>6. PrincipalCeiling'
  BY DEF LegInv, PrincipalCeiling, committed_principal, accepted_principal,
         outstanding_allocation, assets_arrive
<1> QED
  BY <1>2, <1>3, <1>4, <1>5, <1>6 DEF LegInv

-----------------------------------------------------------------------------
(* Steps that move principal *)

\* In every reachable state custody covers its buckets: reconcile cannot fail.
LEMMA AlwaysReconciles ==
    ASSUME LegInv
    PROVE  can_reconcile
  BY DEF LegInv, LegTypeOK, RemotePosition, CustodyIdentity, can_reconcile,
         accounted_custody

\* A deployment keeps the invariant: attributed principal becomes deployed, and as
\* many tokens leave custody for the adapter.
LEMMA DeployInv ==
    ASSUME LegInv, NEW amount \in Amounts, NEW receipt,
           deploy_to_strategy(amount, receipt)
    PROVE  LegInv'
<1>0. /\ amount \in Nat /\ LegTypeOK /\ position \in RemotePosition /\ can_reconcile
      /\ amount <= position.attributed_principal
  BY ProtocolAssumption DEF LegInv, LegTypeOK, deploy_to_strategy
<1>a. reconciled \in RemotePosition
  BY <1>0, ReconciledFields
<1>1. /\ position' \in RemotePosition
      /\ position'.attributed_principal = position.attributed_principal - amount
      /\ position'.deployed_principal = position.deployed_principal + amount
      /\ position'.recalled_custody = position.recalled_custody
      /\ position'.unattributed_custody = reconciled.unattributed_custody
      /\ position'.cumulative_realized_loss = position.cumulative_realized_loss
      /\ position'.active_transfer_id = position.active_transfer_id
      /\ position'.active_transfer_kind = position.active_transfer_kind
      /\ position'.active_transfer_sequence = position.active_transfer_sequence
      /\ position'.active_transfer_status = position.active_transfer_status
  <2>1. /\ reconciled.attributed_principal - amount \in Nat
        /\ reconciled.deployed_principal + amount \in Nat
    BY <1>0, ReconciledFields, PositionFields, NatArithmetic
  <2>2. position' = [reconciled EXCEPT !.attributed_principal = @ - amount,
                                       !.deployed_principal = @ + amount]
    BY DEF deploy_to_strategy
  <2> QED
    BY <1>0, <1>a, <2>1, <2>2, ReconciledFields DEF RemotePosition
<1>2. /\ tokens'.custody = tokens.custody - amount
      /\ tokens'.adapter_principal = tokens.adapter_principal + amount
      /\ tokens'.escrow = tokens.escrow
      /\ tokens'.arrived = tokens.arrived
      /\ tokens' \in [ custody : Nat, escrow : Nat, adapter_principal : Nat, arrived : Nat ]
  <2>0. amount <= tokens.custody
    BY <1>0, TokenFields, PositionFields DEF can_reconcile, accounted_custody
  <2>1. tokens.custody - amount \in Nat /\ tokens.adapter_principal + amount \in Nat
    BY <1>0, <2>0, TokenFields, NatArithmetic
  <2> QED
    BY <1>0, <2>1 DEF LegTypeOK, deploy_to_strategy
<1>3. LegTypeOK'
  BY <1>1, <1>2 DEF LegInv, LegTypeOK, deploy_to_strategy
<1>4. CustodyIdentity' /\ TokenConservation'
  BY <1>0, <1>1, <1>2, ReconciledFields, PositionFields, TokenFields
     DEF LegInv, CustodyIdentity, TokenConservation, accounted_custody
<1>5. RecordBounds' /\ LedgerBalanced'
  BY DEF LegInv, RecordBounds, LedgerBalanced, deploy_to_strategy
<1>6. OneOpenTransfer'
  BY <1>1 DEF LegInv, OneOpenTransfer, deploy_to_strategy
<1>7. RecallConservation'
  BY <1>1 DEF LegInv, RecallConservation, recall_settled, deploy_to_strategy
<1>8. PrincipalCeiling'
  <2>1. committed_principal(position)' = committed_principal(position)
    BY <1>0, <1>1, PositionFields DEF committed_principal, accepted_principal
  <2> QED
    BY <1>1, <2>1 DEF LegInv, PrincipalCeiling, outstanding_allocation, deploy_to_strategy
<1> QED
  BY <1>3, <1>4, <1>5, <1>6, <1>7, <1>8 DEF LegInv

\* A step that gives the open allocation id some of the unattributed custody and
\* either keeps it open or ends it.  attribute_allocation and a close share it.
LEMMA AttributedStep ==
    ASSUME LegInv, NEW id \in TransferIds, NEW n \in Nat,
           check_active(id, "Allocate"),
           n <= outstanding_allocation(transfers[id]),
           n <= reconciled.unattributed_custody,
           NEW status \in {"Pending", "Complete", "Closed"},
           status = "Complete" =>
               transfers[id].attributed_amount + n = transfers[id].authorized_amount,
           transfers' = [transfers EXCEPT ![id] =
               [transfers[id] EXCEPT !.attributed_amount = @ + n, !.status = status]],
           position' \in RemotePosition,
           position'.attributed_principal = position.attributed_principal + n,
           position'.unattributed_custody = reconciled.unattributed_custody - n,
           position'.deployed_principal = position.deployed_principal,
           position'.recalled_custody = position.recalled_custody,
           position'.cumulative_realized_loss = position.cumulative_realized_loss,
           IF status = "Pending"
           THEN /\ position'.active_transfer_id = position.active_transfer_id
                /\ position'.active_transfer_kind = position.active_transfer_kind
                /\ position'.active_transfer_sequence = position.active_transfer_sequence
                /\ position'.active_transfer_status = position.active_transfer_status
           ELSE /\ position'.active_transfer_id = NoTransfer
                /\ position'.active_transfer_kind = "None"
                /\ position'.active_transfer_status = "None",
           tokens' = tokens
    PROVE  /\ transfers' \in [TransferIds -> TransferRecord]
           /\ RecordBounds' /\ CustodyIdentity' /\ TokenConservation' /\ OneOpenTransfer'
           /\ RecallConservation' /\ PrincipalCeiling'
<1> DEFINE r == transfers[id]
<1>0. /\ LegTypeOK /\ position \in RemotePosition /\ can_reconcile
      /\ r \in TransferRecord /\ transfers \in [TransferIds -> TransferRecord]
      /\ NoTransfer \notin TransferIds
  BY AlwaysReconciles, ProtocolAssumption DEF LegInv, LegTypeOK
<1>1. /\ r.transfer_kind = "Allocate" /\ r.status = "Pending"
      /\ position.active_transfer_kind = "Allocate" /\ position.active_transfer_id = id
      /\ position.active_transfer_status = "Pending"
      /\ r.message_sequence = position.active_transfer_sequence
  BY DEF check_active, LegInv, OneOpenTransfer
<1>2. r.attributed_amount + n \in Nat /\ r.attributed_amount + n <= r.authorized_amount
  BY <1>0, RecordFields, NatArithmetic DEF outstanding_allocation
<1>3. /\ transfers' \in [TransferIds -> TransferRecord]
      /\ transfers'[id].attributed_amount = r.attributed_amount + n
      /\ transfers'[id].authorized_amount = r.authorized_amount
      /\ transfers'[id].transfer_kind = "Allocate"
      /\ transfers'[id].message_sequence = r.message_sequence
      /\ transfers'[id].status = status
      /\ \A j \in TransferIds : j # id => transfers'[j] = transfers[j]
  <2>1. [r EXCEPT !.attributed_amount = @ + n, !.status = status] \in TransferRecord
    BY <1>0, <1>2 DEF TransferRecord, TransferStatus
  <2> QED
    BY <1>0, <1>1, <2>1 DEF TransferRecord
<1>4. RecordBounds'
  BY <1>2, <1>3 DEF LegInv, RecordBounds
<1>5. CustodyIdentity' /\ TokenConservation'
  BY <1>0, ReconciledFields, PositionFields, TokenFields
     DEF LegInv, CustodyIdentity, TokenConservation, accounted_custody
<1>6. OneOpenTransfer'
  BY <1>0, <1>1, <1>3 DEF LegInv, OneOpenTransfer
<1>7. RecallConservation'
  <2>1. position.recalled_custody = 0
    BY <1>1 DEF LegInv, RecallConservation
  <2>2. \A j \in TransferIds : transfers'[j].transfer_kind = "Recall" =>
            transfers'[j] = transfers[j] /\ transfers[j].status # "Pending"
    BY <1>0, <1>1, <1>3 DEF LegInv, OneOpenTransfer
  <2> QED
    BY ZenonT(60), <2>1, <2>2 DEF LegInv, RecallConservation, recall_settled
<1>8. PrincipalCeiling'
  <2>1. committed_principal(position)' = committed_principal(position) + n
    BY <1>0, PositionFields DEF committed_principal, accepted_principal
  <2>2. committed_principal(position) + outstanding_allocation(r) <= MAX_REMOTE_PRINCIPAL
    BY <1>1 DEF LegInv, PrincipalCeiling
  <2>3. committed_principal(position) \in Nat /\ outstanding_allocation(r) \in Nat
    BY <1>0, PositionFields, RecordFields, NatArithmetic
       DEF committed_principal, accepted_principal, outstanding_allocation, LegInv, RecordBounds
  <2>4. outstanding_allocation(transfers[id])' = outstanding_allocation(r) - n
    BY <1>0, <1>3, RecordFields DEF outstanding_allocation
  <2>5. CASE status = "Pending"
    <3>1. PrincipalCeiling' <=>
            committed_principal(position)' + outstanding_allocation(transfers[id])'
                <= MAX_REMOTE_PRINCIPAL
      BY <1>1, <2>5 DEF PrincipalCeiling, outstanding_allocation
    <3> QED
      BY <2>1, <2>2, <2>3, <2>4, <3>1, LegAssumption
  <2>6. CASE status # "Pending"
    BY <1>0, <2>1, <2>2, <2>3, <2>6, LegAssumption DEF PrincipalCeiling
  <2> QED
    BY <2>5, <2>6
<1> QED
  BY <1>3, <1>4, <1>5, <1>6, <1>7, <1>8

\* attribute_allocation keeps the invariant: a full attribution completes the
\* allocation, a partial one leaves it open for the rest.
LEMMA AttributeAllocationInv ==
    ASSUME LegInv, NEW id \in TransferIds, NEW guardian,
           attribute_allocation(id, guardian)
    PROVE  LegInv'
<1> DEFINE n == MinOf(outstanding_allocation(transfers[id]),
                      reconciled.unattributed_custody)
           r == [transfers[id] EXCEPT !.attributed_amount = @ + n]
           p == attribute(reconciled, n)
<1>0. /\ LegTypeOK /\ position \in RemotePosition /\ can_reconcile
      /\ transfers[id] \in TransferRecord /\ check_active(id, "Allocate")
      /\ transfers[id].status = "Pending"
  BY AlwaysReconciles DEF LegInv, LegTypeOK, attribute_allocation, check_active
<1>1. /\ n \in Nat
      /\ n <= outstanding_allocation(transfers[id])
      /\ n <= reconciled.unattributed_custody
  <2>1. outstanding_allocation(transfers[id]) \in Nat
    BY <1>0, RecordFields, NatArithmetic DEF outstanding_allocation, LegInv, RecordBounds
  <2>2. reconciled.unattributed_custody \in Nat
    BY <1>0, ReconciledFields, PositionFields
  <2> QED
    BY <2>1, <2>2, NatArithmetic
<1>2. p \in RemotePosition
  BY <1>0, <1>1, ReconciledFields, AttributeFields
<1>3. /\ UNCHANGED << ledger, control_lane, consumed, config, outbound, recall_markers, tokens >>
      /\ IF r.attributed_amount = r.authorized_amount
         THEN /\ transfers' = [transfers EXCEPT ![id] = [r EXCEPT !.status = "Complete"]]
              /\ position' = complete_transfer(p, id)
         ELSE /\ transfers' = [transfers EXCEPT ![id] = r]
              /\ position' = p
  BY DEF attribute_allocation
<1>4. LedgerBalanced'
  BY <1>3 DEF LegInv, LedgerBalanced
<1> HIDE DEF n
<1>5. CASE r.attributed_amount = r.authorized_amount
  <2>1. /\ r.attributed_amount = transfers[id].attributed_amount + n
        /\ r.authorized_amount = transfers[id].authorized_amount
        /\ [r EXCEPT !.status = "Complete"] =
             [transfers[id] EXCEPT !.attributed_amount = @ + n, !.status = "Complete"]
    BY <1>0 DEF TransferRecord
  <2>2. position' \in RemotePosition
    BY <1>2, <1>3, <1>5, CompleteTransferFields
  <2>3. /\ position'.attributed_principal = position.attributed_principal + n
        /\ position'.unattributed_custody = reconciled.unattributed_custody - n
        /\ position'.deployed_principal = position.deployed_principal
        /\ position'.recalled_custody = position.recalled_custody
        /\ position'.cumulative_realized_loss = position.cumulative_realized_loss
        /\ position'.active_transfer_id = NoTransfer
        /\ position'.active_transfer_kind = "None"
        /\ position'.active_transfer_status = "None"
    BY <1>0, <1>1, <1>2, <1>3, <1>5, ReconciledFields, AttributeFields, CompleteTransferFields
  <2>4. transfers' = [transfers EXCEPT ![id] =
            [transfers[id] EXCEPT !.attributed_amount = @ + n, !.status = "Complete"]]
    BY <1>3, <1>5, <2>1
  <2>5. /\ transfers' \in [TransferIds -> TransferRecord]
        /\ RecordBounds' /\ CustodyIdentity' /\ TokenConservation' /\ OneOpenTransfer'
        /\ RecallConservation' /\ PrincipalCeiling'
    <3> DEFINE status == "Complete"
    <3>1. status \in {"Pending", "Complete", "Closed"} /\ status # "Pending"
      OBVIOUS
    <3>2. transfers[id].attributed_amount + n = transfers[id].authorized_amount
      BY <1>5, <2>1
    <3> QED
      BY <1>0, <1>1, <1>3, <2>2, <2>3, <2>4, <3>1, <3>2, AttributedStep
  <2> QED
    BY <1>3, <1>4, <2>2, <2>5 DEF LegInv, LegTypeOK
<1>6. CASE r.attributed_amount # r.authorized_amount
  <2>1. r = [transfers[id] EXCEPT !.attributed_amount = @ + n, !.status = "Pending"]
    BY <1>0 DEF TransferRecord
  <2>2. position' = p
    BY <1>3, <1>6
  <2>3. /\ position'.attributed_principal = position.attributed_principal + n
        /\ position'.unattributed_custody = reconciled.unattributed_custody - n
        /\ position'.deployed_principal = position.deployed_principal
        /\ position'.recalled_custody = position.recalled_custody
        /\ position'.cumulative_realized_loss = position.cumulative_realized_loss
        /\ position'.active_transfer_id = position.active_transfer_id
        /\ position'.active_transfer_kind = position.active_transfer_kind
        /\ position'.active_transfer_sequence = position.active_transfer_sequence
        /\ position'.active_transfer_status = position.active_transfer_status
    BY <1>0, <1>1, <1>2, <2>2, ReconciledFields, AttributeFields
  <2>4. transfers' = [transfers EXCEPT ![id] =
            [transfers[id] EXCEPT !.attributed_amount = @ + n, !.status = "Pending"]]
    BY <1>3, <1>6, <2>1
  <2>5. /\ transfers' \in [TransferIds -> TransferRecord]
        /\ RecordBounds' /\ CustodyIdentity' /\ TokenConservation' /\ OneOpenTransfer'
        /\ RecallConservation' /\ PrincipalCeiling'
    BY <1>0, <1>1, <1>2, <1>3, <2>2, <2>3, <2>4, AttributedStep
  <2> QED
    BY <1>2, <1>3, <1>4, <2>2, <2>5 DEF LegInv, LegTypeOK
<1> QED
  BY <1>5, <1>6
=============================================================================
