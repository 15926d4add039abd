-------------------------- MODULE RemoteLegMessages --------------------------
(***************************************************************************)
(* Every control message the leg consumes keeps the inductive invariant.   *)
(***************************************************************************)
EXTENDS RemoteLegLemmas

\* A consumed sequence keeps the lane and the replay records typed.
LEMMA ConsumeTypes ==
    ASSUME LegInv, NEW seq \in 1..MaxSequence, consume(seq)
    PROVE  /\ control_lane' \in [ minimum_acceptable_sequence : Nat,
                                  highest_consumed_sequence : Nat ]
           /\ consumed' \subseteq Nat
  BY ProtocolAssumption DEF LegInv, LegTypeOK, consume

\* The fields a handler reads from a message of its own type.
LEMMA MessageFields ==
    ASSUME NEW m \in ControlMessage
    PROVE  /\ m.type \in {"Allocate", "Recall"} =>
                  m.transfer_id \in TransferIds /\ m.amount \in Nat
           /\ m.type \in {"Admit", "Close", "Recover"} => m.transfer_id \in TransferIds
           /\ m.type = "ConfigUpdate" => m.config_version \in Versions
  BY ProtocolAssumption DEF ControlMessage

\* Closing a record whose attribution is within its amount books the claim once
\* and publishes a settlement of the protocol.
LEMMA SettleClose ==
    ASSUME LegInv, NEW id \in TransferIds, NEW r \in TransferRecord,
           r.attributed_amount <= r.authorized_amount, settle_close(id, r)
    PROVE  /\ ledger' \in TransportLedger
           /\ LedgerBalanced'
           /\ outbound' \in Seq(OutboundMessage)
<1> DEFINE l == record_close(r.authorized_amount, r.attributed_amount, r.message_sequence)
           shortfall == r.authorized_amount - r.attributed_amount
<1>0. /\ r.authorized_amount \in Nat /\ r.attributed_amount \in Nat
      /\ r.message_sequence \in Nat /\ shortfall \in Nat
      /\ config.config_version \in Versions /\ ledger \in TransportLedger
      /\ outbound \in Seq(OutboundMessage)
  BY RecordFields, NatArithmetic DEF LegInv, LegTypeOK
<1>1. /\ ledger.impaired_outstanding \in Nat
      /\ ledger.cumulative_closed_claim \in Nat
      /\ ledger.cumulative_closed_credit \in Nat
      /\ ledger.cumulative_recovered \in Nat
  BY <1>0 DEF TransportLedger
<1>2. /\ ledger.cumulative_closed_claim + r.authorized_amount \in Nat
      /\ ledger.cumulative_closed_credit + r.attributed_amount \in Nat
      /\ ledger.impaired_outstanding + shortfall \in Nat
  BY <1>0, <1>1, NatArithmetic
<1>3. /\ l \in TransportLedger
      /\ l.impaired_outstanding = ledger.impaired_outstanding + shortfall
      /\ l.cumulative_closed_claim = ledger.cumulative_closed_claim + r.authorized_amount
      /\ l.cumulative_closed_credit = ledger.cumulative_closed_credit + r.attributed_amount
      /\ l.cumulative_recovered = ledger.cumulative_recovered
  BY <1>0, <1>2 DEF record_close, TransportLedger
<1>4. ledger' = l
  BY DEF settle_close
<1>5. LedgerBalanced'
  <2> HIDE DEF l
  <2>1. /\ ledger'.impaired_outstanding = ledger.impaired_outstanding + shortfall
        /\ ledger'.cumulative_closed_claim = ledger.cumulative_closed_claim + r.authorized_amount
        /\ ledger'.cumulative_closed_credit = ledger.cumulative_closed_credit + r.attributed_amount
        /\ ledger'.cumulative_recovered = ledger.cumulative_recovered
    BY <1>3, <1>4
  <2>2. LedgerBalanced
    BY DEF LegInv
  <2>3. \A claim, credit, impaired, recovered, z, c \in Nat :
            credit + impaired + recovered = claim =>
                (credit + c) + (impaired + (z - c)) + recovered = claim + z
    OBVIOUS
  <2>4. (ledger.cumulative_closed_credit + r.attributed_amount)
            + (ledger.impaired_outstanding + (r.authorized_amount - r.attributed_amount))
            + ledger.cumulative_recovered
          = ledger.cumulative_closed_claim + r.authorized_amount
    <3>1. r.authorized_amount \in Nat /\ r.attributed_amount \in Nat
      BY <1>0
    <3> QED
      BY <1>1, <2>2, <2>3, <3>1 DEF LedgerBalanced
  <2> QED
    BY <2>1, <2>4 DEF LedgerBalanced
<1>6. outbound' \in Seq(OutboundMessage)
  <2> DEFINE msg == transport_settlement(id, "Closed", r.authorized_amount,
                                         r.attributed_amount, l.impaired_outstanding)
  <2>1. outbound' = Append(outbound, msg)
    BY DEF settle_close
  <2>2. l.impaired_outstanding \in Nat
    BY <1>2, <1>3
  <2> HIDE DEF l
  <2>3. msg \in OutboundMessage
    BY <1>0, <2>2 DEF transport_settlement, OutboundMessage
  <2> QED
    BY <1>0, <2>1, <2>3, AppendOutbound
<1> QED
  BY <1>3, <1>4, <1>5, <1>6

\* Ending the open quarantined allocation, or settling a completed one, changes
\* only statuses: no principal moves.
LEMMA StatusStep ==
    ASSUME LegInv, NEW id \in TransferIds,
           transfers[id].transfer_kind = "Allocate",
           transfers' = [transfers EXCEPT ![id] = [transfers[id] EXCEPT !.status = "Closed"]],
           \/ /\ transfers[id].status = "Quarantined"
              /\ position' = close_transfer(position)
           \/ /\ transfers[id].status = "Complete"
              /\ position' = position,
           tokens' = tokens
    PROVE  /\ transfers' \in [TransferIds -> TransferRecord]
           /\ position' \in RemotePosition
           /\ RecordBounds' /\ CustodyIdentity' /\ TokenConservation' /\ OneOpenTransfer'
           /\ RecallConservation' /\ PrincipalCeiling'
<1>0. /\ LegTypeOK /\ position \in RemotePosition /\ NoTransfer \notin TransferIds
      /\ transfers[id] \in TransferRecord /\ transfers \in [TransferIds -> TransferRecord]
  BY ProtocolAssumption DEF LegInv, LegTypeOK
<1>1. /\ transfers' \in [TransferIds -> TransferRecord]
      /\ transfers'[id].attributed_amount = transfers[id].attributed_amount
      /\ transfers'[id].authorized_amount = transfers[id].authorized_amount
      /\ transfers'[id].transfer_kind = "Allocate"
      /\ transfers'[id].status = "Closed"
      /\ \A j \in TransferIds : j # id => transfers'[j] = transfers[j]
  <2>1. [transfers[id] EXCEPT !.status = "Closed"] \in TransferRecord
    BY <1>0 DEF TransferRecord, TransferStatus
  <2> QED
    BY <1>0, <2>1 DEF TransferRecord
<1>2. /\ position' \in RemotePosition
      /\ position'.attributed_principal = position.attributed_principal
      /\ position'.unattributed_custody = position.unattributed_custody
      /\ position'.deployed_principal = position.deployed_principal
      /\ position'.recalled_custody = position.recalled_custody
      /\ position'.cumulative_realized_loss = position.cumulative_realized_loss
      /\ \/ /\ transfers[id].status = "Quarantined"
            /\ position'.active_transfer_id = NoTransfer
            /\ position'.active_transfer_kind = "None"
            /\ position'.active_transfer_status = "None"
         \/ /\ transfers[id].status = "Complete"
            /\ position' = position
  BY <1>0, CloseTransferFields
<1>3. RecordBounds'
  BY <1>1 DEF LegInv, RecordBounds
<1>4. CustodyIdentity' /\ TokenConservation'
  BY <1>2 DEF LegInv, CustodyIdentity, TokenConservation, accounted_custody
<1>5. OneOpenTransfer'
  BY <1>0, <1>1, <1>2 DEF LegInv, OneOpenTransfer
<1>6. RecallConservation'
  <2>1. \A j \in TransferIds : transfers'[j].transfer_kind = "Recall" =>
            transfers'[j] = transfers[j]
    BY <1>1
  <2>2. transfers[id].status = "Quarantined" =>
            position.active_transfer_kind = "Allocate"
    BY DEF LegInv, OneOpenTransfer
  <2> QED
    BY <1>2, <2>1, <2>2 DEF LegInv, RecallConservation, recall_settled
<1>7. PrincipalCeiling'
  <2>1. committed_principal(position)' = committed_principal(position)
    BY <1>2 DEF committed_principal, accepted_principal
  <2>2. CASE transfers[id].status = "Quarantined"
    <3>1. position.active_transfer_status = "Quarantined"
      BY <2>2 DEF LegInv, OneOpenTransfer
    <3> QED
      BY <1>2, <2>1, <2>2, <3>1 DEF LegInv, PrincipalCeiling
  <2>3. CASE transfers[id].status = "Complete"
    <3>1. position.active_transfer_id # id
      BY <2>3 DEF LegInv, OneOpenTransfer
    <3>2. position.active_transfer_kind = "Allocate" =>
              transfers'[position.active_transfer_id] = transfers[position.active_transfer_id]
      BY <1>0, <1>1, <3>1, PositionFields DEF LegInv, OneOpenTransfer
    <3> QED
      BY <1>2, <2>1, <2>3, <3>2 DEF LegInv, PrincipalCeiling, outstanding_allocation
  <2> QED
    BY <1>2, <2>2, <2>3
<1> QED
  BY <1>1, <1>2, <1>3, <1>4, <1>5, <1>6, <1>7

\* A close keeps the invariant in each of its three cases: a pending allocation
\* that takes what arrived, a quarantined one, and one that had completed.
LEMMA CloseInv ==
    ASSUME LegInv, NEW m \in ControlMessage, NEW seq \in 1..MaxSequence, NEW now, NEW guardian,
           close(m, seq, now, guardian)
    PROVE  LegInv'
<1> DEFINE id == m.transfer_id
           n == MinOf(outstanding_allocation(transfers[id]), reconciled.unattributed_custody)
           r == [transfers[id] EXCEPT !.attributed_amount = @ + n]
<1>0. /\ LegTypeOK /\ position \in RemotePosition /\ can_reconcile
      /\ id \in TransferIds /\ transfers[id] \in TransferRecord
      /\ transfers[id].transfer_kind = "Allocate"
      /\ UNCHANGED << config, recall_markers, tokens >> /\ consume(seq)
  BY AlwaysReconciles, MessageFields DEF LegInv, LegTypeOK, close
<1> HIDE DEF id
<1>1. /\ control_lane' \in [ minimum_acceptable_sequence : Nat,
                             highest_consumed_sequence : Nat ]
      /\ consumed' \subseteq Nat
  BY <1>0, ConsumeTypes
<1>2. SUFFICES /\ transfers' \in [TransferIds -> TransferRecord]
               /\ position' \in RemotePosition
               /\ ledger' \in TransportLedger
               /\ outbound' \in Seq(OutboundMessage)
               /\ RecordBounds' /\ CustodyIdentity' /\ TokenConservation' /\ OneOpenTransfer'
               /\ RecallConservation' /\ PrincipalCeiling' /\ LedgerBalanced'
  BY <1>0, <1>1 DEF LegInv, LegTypeOK
<1>3. CASE /\ transfers[id].status = "Pending"
           /\ holds_allocation(position, id, transfers[id].message_sequence)
           /\ position' = close_transfer(attribute(reconciled, n))
           /\ settle_close(id, r)
  <2>1. check_active(id, "Allocate")
    BY <1>0, <1>3 DEF check_active, holds_allocation
  <2>2. /\ n \in Nat
        /\ n <= outstanding_allocation(transfers[id])
        /\ n <= reconciled.unattributed_custody
    <3>1. outstanding_allocation(transfers[id]) \in Nat
      BY <1>0, RecordFields, NatArithmetic DEF outstanding_allocation, LegInv, RecordBounds
    <3>2. reconciled.unattributed_custody \in Nat
      BY <1>0, ReconciledFields, PositionFields
    <3> QED
      BY <3>1, <3>2, NatArithmetic
  <2> HIDE DEF n
  <2>3. r \in TransferRecord /\ r.attributed_amount <= r.authorized_amount
    <3>1. /\ transfers[id].attributed_amount + n \in Nat
          /\ transfers[id].attributed_amount + n <= transfers[id].authorized_amount
      <4>1. transfers[id].attributed_amount \in Nat /\ transfers[id].authorized_amount \in Nat
        BY <1>0, RecordFields
      <4> QED
        BY <2>2, <4>1 DEF outstanding_allocation
    <3> QED
      BY <1>0, <3>1 DEF TransferRecord
  <2>4. ledger' \in TransportLedger /\ LedgerBalanced' /\ outbound' \in Seq(OutboundMessage)
    BY <1>0, <1>3, <2>3, SettleClose
  <2>5. attribute(reconciled, n) \in RemotePosition
    BY <1>0, <2>2, ReconciledFields, AttributeFields
  <2>6. /\ position' \in RemotePosition
        /\ position'.attributed_principal = position.attributed_principal + n
        /\ position'.unattributed_custody = reconciled.unattributed_custody - n
        /\ position'.deployed_principal = position.deployed_principal
        /\ position'.recalled_custody = position.recalled_custody
        /\ position'.cumulative_realized_loss = position.cumulative_realized_loss
        /\ position'.active_transfer_id = NoTransfer
        /\ position'.active_transfer_kind = "None"
        /\ position'.active_transfer_status = "None"
    BY <1>0, <1>3, <2>2, <2>5, ReconciledFields, AttributeFields, CloseTransferFields
  <2>7. transfers' = [transfers EXCEPT ![id] =
            [transfers[id] EXCEPT !.attributed_amount = @ + n, !.status = "Closed"]]
    <3>1. [r EXCEPT !.status = "Closed"] =
            [transfers[id] EXCEPT !.attributed_amount = @ + n, !.status = "Closed"]
      BY <1>0 DEF TransferRecord
    <3> QED
      BY <1>3, <3>1 DEF settle_close
  <2>8. /\ transfers' \in [TransferIds -> TransferRecord]
        /\ RecordBounds' /\ CustodyIdentity' /\ TokenConservation' /\ OneOpenTransfer'
        /\ RecallConservation' /\ PrincipalCeiling'
    <3> DEFINE status == "Closed"
    <3>1. /\ status \in {"Pending", "Complete", "Closed"}
          /\ status # "Pending" /\ status # "Complete"
      OBVIOUS
    <3> QED
      BY <1>0, <2>1, <2>2, <2>6, <2>7, <3>1, AttributedStep
  <2> QED
    BY <2>4, <2>6, <2>8
<1>4. CASE /\ \/ /\ transfers[id].status = "Quarantined"
                 /\ position' = close_transfer(position)
              \/ /\ transfers[id].status = "Complete"
                 /\ position' = position
           /\ settle_close(id, transfers[id])
  <2>1. transfers[id].attributed_amount <= transfers[id].authorized_amount
    BY <1>0 DEF LegInv, RecordBounds
  <2>2. ledger' \in TransportLedger /\ LedgerBalanced' /\ outbound' \in Seq(OutboundMessage)
    BY <1>0, <1>4, <2>1, SettleClose
  <2>3. transfers' = [transfers EXCEPT ![id] = [transfers[id] EXCEPT !.status = "Closed"]]
    BY <1>4 DEF settle_close
  <2> QED
    BY <1>0, <1>4, <2>2, <2>3, StatusStep
<1> QED
  BY <1>3, <1>4 DEF close, id

\* A recovery keeps the invariant: it credits no more than is unattributed, than
\* is impaired, and than the principal ceiling leaves room for.
LEMMA RecoverInv ==
    ASSUME LegInv, NEW m \in ControlMessage, NEW seq \in 1..MaxSequence, NEW now, NEW guardian,
           recover(m, seq, now, guardian)
    PROVE  LegInv'
<1> DEFINE id == m.transfer_id
           headroom == SaturatingSub(MAX_REMOTE_PRINCIPAL, committed_principal(reconciled))
           pool == MinOf(reconciled.unattributed_custody, ledger.impaired_outstanding)
           n == MinOf(pool, headroom)
           l == [ ledger EXCEPT !.impaired_outstanding = @ - n,
                                !.cumulative_recovered = @ + n ]
<1>0. /\ LegTypeOK /\ position \in RemotePosition /\ can_reconcile /\ reconciled \in RemotePosition
      /\ id \in TransferIds /\ NoTransfer \notin TransferIds
      /\ transfers \in [TransferIds -> TransferRecord] /\ ledger \in TransportLedger
      /\ ledger.impaired_outstanding \in Nat /\ ledger.cumulative_recovered \in Nat
      /\ outbound \in Seq(OutboundMessage) /\ config.config_version \in Versions /\ seq \in Nat
      /\ UNCHANGED << config, recall_markers, tokens >> /\ consume(seq)
      /\ position.active_transfer_kind = "None"
      /\ transfers[id] = NoRecord
  <2>1. LegTypeOK /\ can_reconcile
    BY AlwaysReconciles DEF LegInv
  <2>2. reconciled \in RemotePosition
    BY <2>1, ReconciledFields
  <2>3. id \in TransferIds /\ NoTransfer \notin TransferIds /\ seq \in Nat
    BY MessageFields, ProtocolAssumption DEF recover
  <2>4. ledger.impaired_outstanding \in Nat /\ ledger.cumulative_recovered \in Nat
    BY <2>1 DEF LegTypeOK, TransportLedger
  <2>5. position.active_transfer_kind = "None" /\ transfers[id] = NoRecord
    BY DEF recover, has_active_transfer, check_available
  <2> QED
    BY <2>1, <2>2, <2>3, <2>4, <2>5 DEF LegTypeOK, recover
<1>1. committed_principal(reconciled) = committed_principal(position)
  BY <1>0, ReconciledFields DEF committed_principal, accepted_principal
<1>2. committed_principal(position) \in Nat /\ committed_principal(position) <= MAX_REMOTE_PRINCIPAL
  <2>1. committed_principal(position) \in Nat
    BY <1>0, PositionFields, NatArithmetic DEF committed_principal, accepted_principal
  <2> QED
    BY <1>0, <2>1 DEF LegInv, PrincipalCeiling
<1>3. /\ n \in Nat
      /\ n <= reconciled.unattributed_custody
      /\ n <= ledger.impaired_outstanding
      /\ committed_principal(position) + n <= MAX_REMOTE_PRINCIPAL
  <2>1. reconciled.unattributed_custody \in Nat
    BY <1>0, PositionFields
  <2>2. pool \in Nat /\ pool <= reconciled.unattributed_custody /\ pool <= ledger.impaired_outstanding
    BY <1>0, <2>1, NatArithmetic
  <2>3. headroom \in Nat /\ committed_principal(position) + headroom <= MAX_REMOTE_PRINCIPAL
    BY <1>1, <1>2, LegAssumption DEF SaturatingSub
  <2> HIDE DEF pool, headroom
  <2>4. n \in Nat /\ n <= pool /\ n <= headroom
    BY <2>2, <2>3, NatArithmetic
  <2> HIDE DEF n
  <2> QED
    BY <1>0, <1>2, <2>1, <2>2, <2>3, <2>4, LegAssumption
<1>4. /\ position' = attribute(reconciled, n)
      /\ ledger' = l
      /\ transfers' = [transfers EXCEPT ![id] = new_recovery(seq, n)]
      /\ outbound' = Append(outbound, transport_settlement(id, "Recovered",
             ledger.impaired_outstanding, n, l.impaired_outstanding))
  BY DEF recover
<1> HIDE DEF id, n
<1>5. /\ position' \in RemotePosition
      /\ position'.attributed_principal = position.attributed_principal + n
      /\ position'.unattributed_custody = reconciled.unattributed_custody - n
      /\ position'.deployed_principal = position.deployed_principal
      /\ position'.recalled_custody = position.recalled_custody
      /\ position'.cumulative_realized_loss = position.cumulative_realized_loss
      /\ position'.active_transfer_id = position.active_transfer_id
      /\ position'.active_transfer_kind = "None"
      /\ position'.active_transfer_status = position.active_transfer_status
  BY <1>0, <1>3, <1>4, ReconciledFields, AttributeFields
<1>6. /\ ledger' \in TransportLedger
      /\ ledger'.impaired_outstanding = ledger.impaired_outstanding - n
      /\ ledger'.cumulative_recovered = ledger.cumulative_recovered + n
      /\ ledger'.cumulative_closed_claim = ledger.cumulative_closed_claim
      /\ ledger'.cumulative_closed_credit = ledger.cumulative_closed_credit
  <2>1. ledger.impaired_outstanding - n \in Nat /\ ledger.cumulative_recovered + n \in Nat
    BY <1>0, <1>3, NatArithmetic
  <2> QED
    BY <1>0, <1>4, <2>1 DEF TransportLedger
<1>7. /\ transfers' \in [TransferIds -> TransferRecord]
      /\ transfers'[id].transfer_kind = "Recover"
      /\ transfers'[id].status = "Complete"
      /\ transfers'[id].attributed_amount = n
      /\ transfers'[id].authorized_amount = n
      /\ \A j \in TransferIds : j # id => transfers'[j] = transfers[j]
  <2>1. new_recovery(seq, n) \in TransferRecord
    BY <1>0, <1>3 DEF new_recovery, NoRecord, TransferRecord, TransferKind, TransferStatus
  <2> QED
    BY <1>0, <1>4, <2>1 DEF new_recovery, NoRecord
<1>8. LegTypeOK'
  <2> DEFINE msg == transport_settlement(id, "Recovered", ledger.impaired_outstanding, n,
                                         l.impaired_outstanding)
  <2>1. l.impaired_outstanding \in Nat
    BY <1>4, <1>6 DEF TransportLedger
  <2> HIDE DEF l
  <2>2. msg \in OutboundMessage
    BY <1>0, <1>3, <2>1 DEF transport_settlement, OutboundMessage
  <2>3. outbound' \in Seq(OutboundMessage)
    BY <1>0, <1>4, <2>2, AppendOutbound
  <2> QED
    BY <1>0, <1>5, <1>6, <1>7, <2>3, ConsumeTypes DEF LegTypeOK
<1>9. RecordBounds'
  BY <1>3, <1>7 DEF LegInv, RecordBounds
<1>10. CustodyIdentity' /\ TokenConservation'
  <2>1. accounted_custody(position)' = tokens.custody
    <3>1. /\ reconciled.unattributed_custody =
                tokens.custody - position.attributed_principal - position.recalled_custody
          /\ position.attributed_principal \in Nat /\ position.recalled_custody \in Nat
          /\ tokens.custody \in Nat /\ n \in Nat
      BY <1>0, <1>3, ReconciledFields, PositionFields, TokenFields
    <3> QED
      BY <1>5, <3>1 DEF accounted_custody
  <2> QED
    BY <1>0, <1>5, <2>1, TokenFields DEF LegInv, CustodyIdentity, TokenConservation
<1>11. OneOpenTransfer'
  <2>1. transfers[id].status = "None"
    BY <1>0 DEF NoRecord
  <2> QED
    BY <1>0, <1>5, <1>7, <2>1 DEF LegInv, OneOpenTransfer
<1>12. RecallConservation'
  <2>1. \A j \in TransferIds : transfers'[j].transfer_kind = "Recall" =>
            transfers'[j] = transfers[j]
    BY <1>7
  <2> QED
    BY <1>0, <1>5, <2>1 DEF LegInv, RecallConservation, recall_settled
<1>13. PrincipalCeiling'
  <2>1. committed_principal(position)' = committed_principal(position) + n
    BY <1>0, <1>3, <1>5, PositionFields DEF committed_principal, accepted_principal
  <2> QED
    BY <1>2, <1>3, <1>5, <2>1, LegAssumption DEF PrincipalCeiling
<1>14. LedgerBalanced'
  <2>1. LedgerBalanced
    BY DEF LegInv
  <2>2. ledger.cumulative_closed_credit \in Nat /\ ledger.cumulative_closed_claim \in Nat
    BY <1>0 DEF TransportLedger
  <2>3. ledger.impaired_outstanding \in Nat /\ ledger.cumulative_recovered \in Nat /\ n \in Nat
    BY <1>0, <1>3
  <2> QED
    BY <1>6, <2>1, <2>2, <2>3 DEF LedgerBalanced
<1> QED
  BY <1>8, <1>9, <1>10, <1>11, <1>12, <1>13, <1>14 DEF LegInv

\* A configuration update touches neither the position nor a record.
LEMMA ConfigUpdateInv ==
    ASSUME LegInv, NEW m \in ControlMessage, NEW seq \in 1..MaxSequence, NEW now,
           NEW effective, handle_config_update(m, seq, now, effective)
    PROVE  LegInv'
<1>1. config' \in [ frozen : BOOLEAN, config_version : Versions ]
  BY MessageFields DEF handle_config_update, LegInv, LegTypeOK
<1>2. LegTypeOK'
  BY <1>1, ConsumeTypes DEF handle_config_update, LegInv, LegTypeOK
<1> QED
  BY <1>2, FrameInv DEF handle_config_update

\* Opening the cycle id with record r, when none was open and id had no record,
\* moves no principal: an allocation, or a recall consumed in quarantine.
LEMMA OpenedStep ==
    ASSUME LegInv, NEW id \in TransferIds, NEW kind \in {"Allocate", "Recall"},
           NEW status \in {"Pending", "Quarantined"}, NEW seq \in Nat,
           NEW r \in TransferRecord,
           ~has_active_transfer(position), check_available(id),
           r.transfer_kind = kind, r.status = status, r.message_sequence = seq,
           r.attributed_amount = 0,
           r.custody_principal_reserved = 0, r.strategy_principal_resolved = 0,
           r.assets_withdrawn = 0, r.assets_sent = 0, r.realized_loss = 0,
           kind = "Recall" => status = "Quarantined",
           kind = "Allocate" /\ status = "Pending" =>
               allocation_fits(position, r.authorized_amount),
           transfers' = [transfers EXCEPT ![id] = r],
           position' = open_transfer(position, kind, id, seq, status),
           tokens' = tokens
    PROVE  /\ transfers' \in [TransferIds -> TransferRecord]
           /\ position' \in RemotePosition
           /\ RecordBounds' /\ CustodyIdentity' /\ TokenConservation' /\ OneOpenTransfer'
           /\ RecallConservation' /\ PrincipalCeiling'
<1>0. /\ LegTypeOK /\ position \in RemotePosition /\ NoTransfer \notin TransferIds
      /\ transfers \in [TransferIds -> TransferRecord] /\ id # NoTransfer
      /\ position.active_transfer_kind = "None" /\ position.active_transfer_id = NoTransfer
  BY ProtocolAssumption DEF LegInv, LegTypeOK, has_active_transfer, OneOpenTransfer
<1>1. /\ position' \in RemotePosition
      /\ position'.attributed_principal = position.attributed_principal
      /\ position'.unattributed_custody = position.unattributed_custody
      /\ position'.deployed_principal = position.deployed_principal
      /\ position'.recalled_custody = position.recalled_custody
      /\ position'.cumulative_realized_loss = position.cumulative_realized_loss
      /\ position'.active_transfer_id = id
      /\ position'.active_transfer_kind = kind
      /\ position'.active_transfer_sequence = seq
      /\ position'.active_transfer_status = status
  <2>1. /\ kind \in {"None", "Allocate", "Recall"}
        /\ id \in TransferIds \cup {NoTransfer}
        /\ status \in {"None", "Pending", "Quarantined"}
    OBVIOUS
  <2> QED
    BY <1>0, <2>1 DEF open_transfer, RemotePosition
<1>2. /\ transfers' \in [TransferIds -> TransferRecord]
      /\ transfers'[id] = r
      /\ \A j \in TransferIds : j # id => transfers'[j] = transfers[j]
  BY <1>0
<1>3. RecordBounds'
  BY <1>2, RecordFields DEF LegInv, RecordBounds
<1>4. CustodyIdentity' /\ TokenConservation'
  BY <1>1 DEF LegInv, CustodyIdentity, TokenConservation, accounted_custody
<1>5. OneOpenTransfer'
  BY <1>0, <1>1, <1>2 DEF LegInv, OneOpenTransfer
<1>6. RecallConservation'
  <2>1. position.recalled_custody = 0
    BY <1>0 DEF LegInv, RecallConservation
  <2>2. \A j \in TransferIds : j # id => transfers'[j].status # "Pending"
    BY <1>0, <1>2 DEF LegInv, OneOpenTransfer
  <2> QED
    BY SMTT(30), <1>1, <1>2, <2>1, <2>2, RecordFields DEF LegInv, RecallConservation, recall_settled
<1>7. PrincipalCeiling'
  <2>1. position.recalled_custody = 0
    BY <1>0 DEF LegInv, RecallConservation
  <2>2. /\ committed_principal(position)' = accepted_principal(position)
        /\ committed_principal(position) = accepted_principal(position)
        /\ accepted_principal(position) \in Nat
    BY <1>0, <1>1, <2>1, PositionFields DEF committed_principal, accepted_principal
  <2>3. outstanding_allocation(r) = r.authorized_amount /\ r.authorized_amount \in Nat
    BY RecordFields DEF outstanding_allocation
  <2>4. accepted_principal(position) <= MAX_REMOTE_PRINCIPAL
    BY <1>0, <2>2 DEF LegInv, PrincipalCeiling
  <2>5. PrincipalCeiling' <=>
            committed_principal(position)'
                + (IF kind = "Allocate" /\ status = "Pending"
                   THEN outstanding_allocation(r) ELSE 0) <= MAX_REMOTE_PRINCIPAL
    BY <1>1, <1>2 DEF PrincipalCeiling, outstanding_allocation
  <2> QED
    BY <2>2, <2>3, <2>4, <2>5, LegAssumption DEF allocation_fits
<1> QED
  BY <1>1, <1>2, <1>3, <1>4, <1>5, <1>6, <1>7

\* An allocation keeps the invariant whether it runs or is quarantined.
LEMMA AllocateInv ==
    ASSUME LegInv, NEW m \in ControlMessage, NEW seq \in 1..MaxSequence, NEW now,
           handle_allocate(m, seq, now)
    PROVE  LegInv'
<1> DEFINE id == m.transfer_id
           status == IF is_fresh(now) /\ ~config.frozen /\ allocation_fits(position, m.amount)
                     THEN "Pending" ELSE "Quarantined"
           r == [new_allocation(seq, m.amount) EXCEPT !.status = status]
<1>0. /\ id \in TransferIds /\ m.amount \in Nat /\ seq \in Nat
      /\ ~has_active_transfer(position) /\ check_available(id) /\ consume(seq)
      /\ UNCHANGED << ledger, config, outbound, recall_markers, tokens >>
      /\ transfers' = [transfers EXCEPT ![id] = r]
      /\ position' = open_transfer(position, "Allocate", id, seq, status)
  BY MessageFields, ProtocolAssumption DEF handle_allocate
<1>1. /\ status \in {"Pending", "Quarantined"}
      /\ status = "Pending" => allocation_fits(position, m.amount)
  OBVIOUS
<1> HIDE DEF id, status
<1>2. /\ r \in TransferRecord /\ r.transfer_kind = "Allocate" /\ r.status = status
      /\ r.message_sequence = seq /\ r.attributed_amount = 0
      /\ r.authorized_amount = m.amount
      /\ r.custody_principal_reserved = 0 /\ r.strategy_principal_resolved = 0
      /\ r.assets_withdrawn = 0 /\ r.assets_sent = 0 /\ r.realized_loss = 0
  BY <1>0, <1>1 DEF new_allocation, NoRecord, TransferRecord, TransferKind, TransferStatus
<1> HIDE DEF r
<1>3. /\ transfers' \in [TransferIds -> TransferRecord]
      /\ position' \in RemotePosition
      /\ RecordBounds' /\ CustodyIdentity' /\ TokenConservation' /\ OneOpenTransfer'
      /\ RecallConservation' /\ PrincipalCeiling'
  BY <1>0, <1>1, <1>2, OpenedStep
<1>4. LegTypeOK'
  BY <1>0, <1>3, ConsumeTypes DEF LegInv, LegTypeOK
<1>5. LedgerBalanced'
  BY <1>0 DEF LegInv, LedgerBalanced
<1> QED
  BY <1>3, <1>4, <1>5 DEF LegInv

\* A recall that starts to run moves the attributed principal it can already
\* cover into recalled custody, once: when it arrives fresh, or on admission.
LEMMA ReservedStep ==
    ASSUME LegInv, NEW id \in TransferIds, NEW seq \in Nat, NEW r \in TransferRecord,
           \/ ~has_active_transfer(position) /\ check_available(id)
           \/ /\ transfers[id].status = "Quarantined"
              /\ transfers[id].transfer_kind = "Recall"
              /\ position.active_transfer_id = id,
           r.transfer_kind = "Recall",
           r.message_sequence = seq, r.attributed_amount = 0,
           r.strategy_principal_resolved = 0, r.assets_withdrawn = 0,
           r.assets_sent = 0, r.realized_loss = 0,
           transfers' = [transfers EXCEPT ![id] =
               [reserve_in_record(r, position) EXCEPT !.status = "Pending"]],
           position' \in RemotePosition,
           position'.attributed_principal =
               position.attributed_principal - recall_reservation(r, position),
           position'.recalled_custody =
               position.recalled_custody + recall_reservation(r, position),
           position'.unattributed_custody = position.unattributed_custody,
           position'.deployed_principal = position.deployed_principal,
           position'.cumulative_realized_loss = position.cumulative_realized_loss,
           position'.active_transfer_id = id,
           position'.active_transfer_kind = "Recall",
           position'.active_transfer_sequence = seq,
           position'.active_transfer_status = "Pending",
           tokens' = tokens
    PROVE  /\ transfers' \in [TransferIds -> TransferRecord]
           /\ RecordBounds' /\ CustodyIdentity' /\ TokenConservation' /\ OneOpenTransfer'
           /\ RecallConservation' /\ PrincipalCeiling'
<1> DEFINE n == recall_reservation(r, position)
<1>0. /\ LegTypeOK /\ position \in RemotePosition /\ NoTransfer \notin TransferIds
      /\ transfers \in [TransferIds -> TransferRecord] /\ id # NoTransfer
  BY ProtocolAssumption DEF LegInv, LegTypeOK
<1>1. n \in Nat /\ n <= r.requested_recall_amount /\ n <= position.attributed_principal
  BY <1>0, RecordFields, PositionFields, NatArithmetic DEF recall_reservation
<1>2. /\ position.recalled_custody = 0
      /\ \A j \in TransferIds : j # id => transfers[j].status \notin {"Pending", "Quarantined"}
  <2>1. CASE ~has_active_transfer(position)
    BY <1>0, <2>1 DEF LegInv, RecallConservation, OneOpenTransfer, has_active_transfer
  <2>2. CASE transfers[id].status = "Quarantined" /\ position.active_transfer_id = id
    BY <1>0, <2>2 DEF LegInv, RecallConservation, OneOpenTransfer
  <2> QED
    BY <2>1, <2>2
<1>3. /\ transfers' \in [TransferIds -> TransferRecord]
      /\ transfers'[id].transfer_kind = "Recall"
      /\ transfers'[id].status = "Pending"
      /\ transfers'[id].message_sequence = seq
      /\ transfers'[id].attributed_amount = 0
      /\ transfers'[id].authorized_amount \in Nat
      /\ transfers'[id].requested_recall_amount = r.requested_recall_amount
      /\ transfers'[id].custody_principal_reserved = n
      /\ transfers'[id].strategy_principal_resolved = 0
      /\ transfers'[id].assets_withdrawn = 0
      /\ transfers'[id].assets_sent = 0
      /\ transfers'[id].realized_loss = 0
      /\ \A j \in TransferIds : j # id => transfers'[j] = transfers[j]
  <2> HIDE DEF n
  <2>0. reserve_in_record(r, position) = [r EXCEPT !.custody_principal_reserved = n]
    BY DEF reserve_in_record, n
  <2>1. [[r EXCEPT !.custody_principal_reserved = n] EXCEPT !.status = "Pending"] \in TransferRecord
    BY <1>1 DEF TransferRecord, TransferStatus
  <2> QED
    BY <1>0, <2>0, <2>1 DEF TransferRecord
<1> HIDE DEF n
<1>4. /\ position'.attributed_principal = position.attributed_principal - n
      /\ position'.recalled_custody = n
  BY <1>0, <1>1, <1>2 DEF n
<1>5. RecordBounds'
  BY <1>3 DEF LegInv, RecordBounds
<1>6. CustodyIdentity' /\ TokenConservation'
  <2>1. accounted_custody(position)' = accounted_custody(position)
    BY <1>0, <1>1, <1>2, <1>4, PositionFields DEF accounted_custody
  <2> QED
    BY <2>1 DEF LegInv, CustodyIdentity, TokenConservation
<1>7. OneOpenTransfer'
  BY <1>0, <1>2, <1>3 DEF LegInv, OneOpenTransfer
<1>8. RecallConservation'
  <2>1. \A j \in TransferIds : j # id => transfers'[j] = transfers[j] /\ transfers[j].status # "Pending"
    BY <1>2, <1>3
  <2> QED
    BY <1>1, <1>3, <1>4, <2>1, RecordFields DEF LegInv, RecallConservation, recall_settled
<1>9. PrincipalCeiling'
  <2>1. committed_principal(position)' = committed_principal(position)
    BY <1>0, <1>1, <1>2, <1>4, PositionFields DEF committed_principal, accepted_principal
  <2>2. ~(position.active_transfer_kind = "Allocate")
    BY <1>0 DEF LegInv, OneOpenTransfer, has_active_transfer
  <2> QED
    BY <2>1, <2>2 DEF LegInv, PrincipalCeiling
<1> QED
  BY <1>3, <1>5, <1>6, <1>7, <1>8, <1>9

\* Reserving for a recall moves principal between two buckets of the position.
LEMMA ReserveFields ==
    ASSUME LegTypeOK, NEW r \in TransferRecord
    PROVE  LET q == reserve_in_position(r, position)
               n == recall_reservation(r, position)
           IN  /\ q \in RemotePosition
               /\ q.attributed_principal = position.attributed_principal - n
               /\ q.recalled_custody = position.recalled_custody + n
               /\ q.unattributed_custody = position.unattributed_custody
               /\ q.deployed_principal = position.deployed_principal
               /\ q.cumulative_realized_loss = position.cumulative_realized_loss
               /\ q.active_transfer_id = position.active_transfer_id
               /\ q.active_transfer_kind = position.active_transfer_kind
               /\ q.active_transfer_sequence = position.active_transfer_sequence
               /\ q.active_transfer_status = position.active_transfer_status
<1> DEFINE n == recall_reservation(r, position)
<1>0. position \in RemotePosition
  BY DEF LegTypeOK
<1>1. n \in Nat /\ n <= position.attributed_principal
  BY <1>0, RecordFields, PositionFields, NatArithmetic DEF recall_reservation
<1> HIDE DEF n
<1>2. position.attributed_principal - n \in Nat /\ position.recalled_custody + n \in Nat
  BY <1>0, <1>1, PositionFields, NatArithmetic
<1>3. reserve_in_position(r, position) =
        [position EXCEPT !.attributed_principal = @ - n, !.recalled_custody = @ + n]
  BY DEF reserve_in_position, n
<1> QED
  BY <1>0, <1>2, <1>3 DEF RemotePosition, n

\* A recall keeps the invariant whether it reserves at once or is quarantined.
LEMMA RecallInv ==
    ASSUME LegInv, NEW m \in ControlMessage, NEW seq \in 1..MaxSequence, NEW now,
           NEW guardian, handle_recall(m, seq, now, guardian)
    PROVE  LegInv'
<1> DEFINE id == m.transfer_id
           r == new_recall(seq, m.amount)
           q == reserve_in_position(r, position)
<1>0. /\ id \in TransferIds /\ m.amount \in Nat /\ seq \in Nat /\ LegTypeOK
      /\ ~has_active_transfer(position) /\ check_available(id) /\ consume(seq)
      /\ UNCHANGED << ledger, config, outbound, recall_markers, tokens >>
      /\ \/ /\ transfers' = [transfers EXCEPT ![id] = reserve_in_record(r, position)]
            /\ position' = open_transfer(q, "Recall", id, seq, "Pending")
         \/ /\ transfers' = [transfers EXCEPT ![id] = [r EXCEPT !.status = "Quarantined"]]
            /\ position' = open_transfer(position, "Recall", id, seq, "Quarantined")
  BY MessageFields, ProtocolAssumption DEF handle_recall, LegInv
<1> HIDE DEF id
<1>1. SUFFICES /\ transfers' \in [TransferIds -> TransferRecord]
               /\ position' \in RemotePosition
               /\ RecordBounds' /\ CustodyIdentity' /\ TokenConservation' /\ OneOpenTransfer'
               /\ RecallConservation' /\ PrincipalCeiling'
  BY <1>0, ConsumeTypes DEF LegInv, LegTypeOK, LedgerBalanced
<1>2. /\ r \in TransferRecord /\ r.transfer_kind = "Recall" /\ r.status = "Pending"
      /\ r.message_sequence = seq /\ r.attributed_amount = 0
      /\ r.custody_principal_reserved = 0 /\ r.strategy_principal_resolved = 0
      /\ r.assets_withdrawn = 0 /\ r.assets_sent = 0 /\ r.realized_loss = 0
  BY <1>0 DEF new_recall, NoRecord, TransferRecord, TransferKind, TransferStatus
<1> HIDE DEF r
<1>3. CASE /\ transfers' = [transfers EXCEPT ![id] = reserve_in_record(r, position)]
           /\ position' = open_transfer(q, "Recall", id, seq, "Pending")
  <2>1. reserve_in_record(r, position) =
            [reserve_in_record(r, position) EXCEPT !.status = "Pending"]
    BY <1>2 DEF reserve_in_record, TransferRecord
  <2>2. /\ q \in RemotePosition
        /\ q.attributed_principal =
               position.attributed_principal - recall_reservation(r, position)
        /\ q.recalled_custody = position.recalled_custody + recall_reservation(r, position)
        /\ q.unattributed_custody = position.unattributed_custody
        /\ q.deployed_principal = position.deployed_principal
        /\ q.cumulative_realized_loss = position.cumulative_realized_loss
    BY <1>0, <1>2, ReserveFields
  <2> HIDE DEF q
  <2>3. /\ position' \in RemotePosition
        /\ position'.attributed_principal = q.attributed_principal
        /\ position'.recalled_custody = q.recalled_custody
        /\ position'.unattributed_custody = q.unattributed_custody
        /\ position'.deployed_principal = q.deployed_principal
        /\ position'.cumulative_realized_loss = q.cumulative_realized_loss
        /\ position'.active_transfer_id = id
        /\ position'.active_transfer_kind = "Recall"
        /\ position'.active_transfer_sequence = seq
        /\ position'.active_transfer_status = "Pending"
    BY <1>0, <1>3, <2>2 DEF open_transfer, RemotePosition
  <2>4. transfers' = [transfers EXCEPT ![id] =
            [reserve_in_record(r, position) EXCEPT !.status = "Pending"]]
    BY <1>3, <2>1
  <2>5. /\ position'.attributed_principal =
               position.attributed_principal - recall_reservation(r, position)
        /\ position'.recalled_custody =
               position.recalled_custody + recall_reservation(r, position)
        /\ position'.unattributed_custody = position.unattributed_custody
        /\ position'.deployed_principal = position.deployed_principal
        /\ position'.cumulative_realized_loss = position.cumulative_realized_loss
    BY <2>2, <2>3
  <2>6. /\ id \in TransferIds /\ seq \in Nat /\ tokens' = tokens
        /\ ~has_active_transfer(position) /\ check_available(id)
    BY <1>0
  <2>7. /\ transfers' \in [TransferIds -> TransferRecord]
        /\ RecordBounds' /\ CustodyIdentity' /\ TokenConservation' /\ OneOpenTransfer'
        /\ RecallConservation' /\ PrincipalCeiling'
    BY <1>2, <2>3, <2>4, <2>5, <2>6, ReservedStep
  <2> QED
    BY <2>3, <2>7
<1>4. CASE /\ transfers' = [transfers EXCEPT ![id] = [r EXCEPT !.status = "Quarantined"]]
           /\ position' = open_transfer(position, "Recall", id, seq, "Quarantined")
  <2> DEFINE rq == [r EXCEPT !.status = "Quarantined"]
             kind == "Recall"
             status == "Quarantined"
  <2>1. /\ rq \in TransferRecord /\ rq.transfer_kind = kind /\ rq.status = status
        /\ rq.message_sequence = seq /\ rq.attributed_amount = 0
        /\ rq.custody_principal_reserved = 0 /\ rq.strategy_principal_resolved = 0
        /\ rq.assets_withdrawn = 0 /\ rq.assets_sent = 0 /\ rq.realized_loss = 0
    BY <1>2 DEF TransferRecord, TransferStatus
  <2>2. kind \in {"Allocate", "Recall"} /\ kind # "Allocate" /\ status \in {"Pending", "Quarantined"}
    OBVIOUS
  <2> HIDE DEF rq
  <2>3. transfers' = [transfers EXCEPT ![id] = rq]
    BY <1>4 DEF rq
  <2> QED
    BY <1>0, <1>4, <2>1, <2>2, <2>3, OpenedStep
<1> QED
  BY <1>0, <1>3, <1>4

\* An admission keeps the invariant: a quarantined transfer moved nothing before,
\* so it starts as if it had just arrived; any other admission changes nothing.
LEMMA ResolveInv ==
    ASSUME LegInv, NEW m \in ControlMessage, NEW seq \in 1..MaxSequence, NEW now,
           NEW guardian, handle_resolve(m, seq, now, guardian)
    PROVE  LegInv'
<1> DEFINE id == m.transfer_id
           r == transfers[id]
<1>0. /\ id \in TransferIds /\ LegTypeOK /\ r \in TransferRecord /\ NoTransfer \notin TransferIds
      /\ position \in RemotePosition /\ transfers \in [TransferIds -> TransferRecord]
      /\ consume(seq)
      /\ UNCHANGED << ledger, config, outbound, recall_markers, tokens >>
      /\ \/ /\ holds_quarantined(position, id, m.target_sequence) /\ admissible(r)
            /\ admit(id)
         \/ UNCHANGED << position, transfers >>
  BY MessageFields, ProtocolAssumption DEF handle_resolve, LegInv, LegTypeOK
<1> HIDE DEF id
<1>1. CASE UNCHANGED << position, transfers >>
  <2>1. LegTypeOK'
    BY <1>0, <1>1, ConsumeTypes DEF LegTypeOK
  <2> QED
    BY <1>0, <1>1, <2>1, FrameInv
<1>2. CASE holds_quarantined(position, id, m.target_sequence) /\ admissible(r) /\ admit(id)
  <2>1. SUFFICES /\ transfers' \in [TransferIds -> TransferRecord]
                 /\ position' \in RemotePosition
                 /\ RecordBounds' /\ CustodyIdentity' /\ TokenConservation' /\ OneOpenTransfer'
                 /\ RecallConservation' /\ PrincipalCeiling'
    BY <1>0, ConsumeTypes DEF LegInv, LegTypeOK, LedgerBalanced
  <2>2. /\ position.active_transfer_id = id /\ position.active_transfer_status = "Quarantined"
        /\ r.status = "Quarantined" /\ r.transfer_kind = position.active_transfer_kind
        /\ r.message_sequence = position.active_transfer_sequence
        /\ position.recalled_custody = 0
    BY <1>0, <1>2 DEF holds_quarantined, LegInv, OneOpenTransfer, RecallConservation
  <2>3. /\ r.attributed_amount = 0
        /\ r.custody_principal_reserved = 0 /\ r.strategy_principal_resolved = 0
        /\ r.assets_withdrawn = 0 /\ r.assets_sent = 0 /\ r.realized_loss = 0
    BY <1>0, <2>2 DEF LegInv, RecordBounds
  <2>4. CASE /\ r.transfer_kind = "Allocate"
             /\ transfers' = [transfers EXCEPT ![id].status = "Pending"]
             /\ position' = [position EXCEPT !.active_transfer_status = "Pending"]
    <3>1. /\ transfers' \in [TransferIds -> TransferRecord]
          /\ transfers'[id].transfer_kind = "Allocate"
          /\ transfers'[id].status = "Pending"
          /\ transfers'[id].message_sequence = r.message_sequence
          /\ transfers'[id].authorized_amount = r.authorized_amount
          /\ transfers'[id].attributed_amount = 0
          /\ \A j \in TransferIds : j # id => transfers'[j] = transfers[j]
      <4>1. [transfers[id] EXCEPT !.status = "Pending"] \in TransferRecord
        BY <1>0 DEF TransferRecord, TransferStatus
      <4> QED
        BY <1>0, <2>3, <2>4, <4>1 DEF TransferRecord
    <3>2. /\ position' \in RemotePosition
          /\ position'.attributed_principal = position.attributed_principal
          /\ position'.unattributed_custody = position.unattributed_custody
          /\ position'.deployed_principal = position.deployed_principal
          /\ position'.recalled_custody = position.recalled_custody
          /\ position'.cumulative_realized_loss = position.cumulative_realized_loss
          /\ position'.active_transfer_id = id
          /\ position'.active_transfer_kind = "Allocate"
          /\ position'.active_transfer_sequence = position.active_transfer_sequence
          /\ position'.active_transfer_status = "Pending"
      BY <1>0, <2>2, <2>4 DEF RemotePosition
    <3>3. RecordBounds'
      BY <1>0, <3>1, RecordFields DEF LegInv, RecordBounds
    <3>4. CustodyIdentity' /\ TokenConservation'
      BY <1>0, <3>2 DEF LegInv, CustodyIdentity, TokenConservation, accounted_custody
    <3>5. OneOpenTransfer'
      <4>1. \A j \in TransferIds : j # id => transfers[j].status \notin {"Pending", "Quarantined"}
        BY <2>2 DEF LegInv, OneOpenTransfer
      <4>2. /\ id # NoTransfer
            /\ transfers'[id].message_sequence = position'.active_transfer_sequence
        BY <1>0, <2>2, <3>1, <3>2, ProtocolAssumption
      <4>3. ASSUME NEW j \in TransferIds
            PROVE  /\ (transfers'[j].status \in {"Pending", "Quarantined"})
                         <=> (position'.active_transfer_id = j)
                   /\ position'.active_transfer_id = j =>
                         /\ transfers'[j].transfer_kind = position'.active_transfer_kind
                         /\ transfers'[j].status = position'.active_transfer_status
                         /\ transfers'[j].message_sequence = position'.active_transfer_sequence
        BY <3>1, <3>2, <4>1, <4>2
      <4> QED
        BY <3>2, <4>2, <4>3 DEF OneOpenTransfer
    <3>6. RecallConservation'
      <4>1. \A j \in TransferIds : transfers'[j].transfer_kind = "Recall" =>
                transfers'[j] = transfers[j]
        BY <3>1
      <4> QED
        BY <2>2, <3>2, <4>1 DEF LegInv, RecallConservation, recall_settled
    <3>7. PrincipalCeiling'
      <4>1. /\ committed_principal(position)' = accepted_principal(position)
            /\ accepted_principal(position) \in Nat
        BY <1>0, <2>2, <3>2, PositionFields DEF committed_principal, accepted_principal
      <4>2. accepted_principal(position) + r.authorized_amount <= MAX_REMOTE_PRINCIPAL
        BY <1>2, <2>4 DEF admissible, allocation_fits
      <4>3. transfers'[id].authorized_amount - transfers'[id].attributed_amount
                = r.authorized_amount
        BY <1>0, <3>1, RecordFields
      <4>4. PrincipalCeiling' <=>
                committed_principal(position)'
                    + (transfers'[id].authorized_amount - transfers'[id].attributed_amount)
                        <= MAX_REMOTE_PRINCIPAL
        BY <3>2 DEF PrincipalCeiling, outstanding_allocation
      <4> QED
        BY <4>1, <4>2, <4>3, <4>4
    <3> QED
      BY <3>1, <3>2, <3>3, <3>4, <3>5, <3>6, <3>7
  <2>5. CASE /\ r.transfer_kind = "Recall"
             /\ transfers' = [transfers EXCEPT ![id] =
                    [reserve_in_record(r, position) EXCEPT !.status = "Pending"]]
             /\ position' = [reserve_in_position(r, position) EXCEPT
                                !.active_transfer_status = "Pending"]
    <3> DEFINE q == reserve_in_position(r, position)
    <3>1. /\ q \in RemotePosition
          /\ q.attributed_principal =
                 position.attributed_principal - recall_reservation(r, position)
          /\ q.recalled_custody = position.recalled_custody + recall_reservation(r, position)
          /\ q.unattributed_custody = position.unattributed_custody
          /\ q.deployed_principal = position.deployed_principal
          /\ q.cumulative_realized_loss = position.cumulative_realized_loss
          /\ q.active_transfer_id = id
          /\ q.active_transfer_kind = "Recall"
          /\ q.active_transfer_sequence = position.active_transfer_sequence
      BY <1>0, <2>2, <2>5, ReserveFields
    <3>2. position' = [q EXCEPT !.active_transfer_status = "Pending"]
      BY <2>5
    <3> HIDE DEF q
    <3>3. /\ position' \in RemotePosition
          /\ position'.attributed_principal =
                 position.attributed_principal - recall_reservation(r, position)
          /\ position'.recalled_custody =
                 position.recalled_custody + recall_reservation(r, position)
          /\ position'.unattributed_custody = position.unattributed_custody
          /\ position'.deployed_principal = position.deployed_principal
          /\ position'.cumulative_realized_loss = position.cumulative_realized_loss
          /\ position'.active_transfer_id = id
          /\ position'.active_transfer_kind = "Recall"
          /\ position'.active_transfer_sequence = position.active_transfer_sequence
          /\ position'.active_transfer_status = "Pending"
      BY <3>1, <3>2 DEF RemotePosition
    <3>4. position.active_transfer_sequence \in Nat
      BY <1>0, PositionFields
    <3> HIDE DEF r
    <3> QED
      BY ZenonT(60), <1>0, <2>2, <2>3, <2>5, <3>3, <3>4, ReservedStep DEF r
  <2> QED
    BY <1>2, <2>4, <2>5 DEF admit
<1> QED
  BY <1>0, <1>1, <1>2
=============================================================================
