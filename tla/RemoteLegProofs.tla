-------------------------- MODULE RemoteLegProofs --------------------------
(***************************************************************************)
(* Theorems about RemoteLeg, for every set of transfers, every set of      *)
(* amounts, every ceiling and every sequence of well-formed control        *)
(* messages; RemoteLegLemmas has the inductive invariant.                  *)
(***************************************************************************)
EXTENDS RemoteLegMessages

-----------------------------------------------------------------------------
(* A running recall *)

\* settle_recall on a record and a position that agree with each other and with
\* the token balances keeps the invariant, whether or not the recall completes.
LEMMA SettleRecall ==
    ASSUME LegInv, NEW id \in TransferIds, NEW r \in TransferRecord, NEW p \in RemotePosition,
           check_active(id, "Recall"), settle_recall(id, r, p),
           r.transfer_kind = "Recall", r.status = "Pending",
           r.message_sequence = transfers[id].message_sequence,
           r.authorized_amount = transfers[id].authorized_amount,
           r.attributed_amount = transfers[id].attributed_amount,
           r.custody_principal_reserved + r.strategy_principal_resolved
               <= r.requested_recall_amount,
           r.assets_withdrawn + r.realized_loss = r.strategy_principal_resolved,
           r.custody_principal_reserved + r.assets_withdrawn
               = r.assets_sent + p.recalled_custody,
           p.active_transfer_id = position.active_transfer_id,
           p.active_transfer_kind = position.active_transfer_kind,
           p.active_transfer_sequence = position.active_transfer_sequence,
           p.active_transfer_status = position.active_transfer_status,
           committed_principal(p) <= MAX_REMOTE_PRINCIPAL,
           accounted_custody(p) <= tokens'.custody,
           p.deployed_principal = tokens'.adapter_principal,
           tokens'.arrived = tokens'.custody + tokens'.escrow + tokens'.adapter_principal
                                + p.cumulative_realized_loss
    PROVE  /\ transfers' \in [TransferIds -> TransferRecord]
           /\ position' \in RemotePosition
           /\ RecordBounds' /\ CustodyIdentity' /\ TokenConservation' /\ OneOpenTransfer'
           /\ RecallConservation' /\ PrincipalCeiling'
<1>0. /\ LegTypeOK /\ position \in RemotePosition /\ NoTransfer \notin TransferIds
      /\ transfers \in [TransferIds -> TransferRecord] /\ id # NoTransfer
      /\ position.active_transfer_kind = "Recall" /\ position.active_transfer_id = id
      /\ position.active_transfer_status = "Pending"
  BY ProtocolAssumption DEF LegInv, LegTypeOK, check_active, OneOpenTransfer
<1>1. /\ position' \in RemotePosition
      /\ position'.attributed_principal = p.attributed_principal
      /\ position'.unattributed_custody = p.unattributed_custody
      /\ position'.deployed_principal = p.deployed_principal
      /\ position'.recalled_custody = p.recalled_custody
      /\ position'.cumulative_realized_loss = p.cumulative_realized_loss
  <2>1. position' = p \/ position' = complete_transfer(p, id)
    BY DEF settle_recall
  <2> QED
    BY <2>1, CompleteTransferFields
<1>2. \/ /\ recall_settled(r)
         /\ transfers' = [transfers EXCEPT ![id] = [r EXCEPT !.status = "Complete"]]
         /\ position'.active_transfer_id = NoTransfer
         /\ position'.active_transfer_kind = "None"
         /\ position'.active_transfer_status = "None"
      \/ /\ ~recall_settled(r)
         /\ transfers' = [transfers EXCEPT ![id] = r]
         /\ position' = p
  BY CompleteTransferFields DEF settle_recall
<1>3. /\ transfers' \in [TransferIds -> TransferRecord]
      /\ transfers'[id].transfer_kind = "Recall"
      /\ transfers'[id].status \in {"Pending", "Complete"}
      /\ transfers'[id].status = "Complete" <=> recall_settled(r)
      /\ transfers'[id].message_sequence = r.message_sequence
      /\ transfers'[id].authorized_amount = r.authorized_amount
      /\ transfers'[id].attributed_amount = r.attributed_amount
      /\ transfers'[id].requested_recall_amount = r.requested_recall_amount
      /\ transfers'[id].custody_principal_reserved = r.custody_principal_reserved
      /\ transfers'[id].strategy_principal_resolved = r.strategy_principal_resolved
      /\ transfers'[id].assets_withdrawn = r.assets_withdrawn
      /\ transfers'[id].assets_sent = r.assets_sent
      /\ transfers'[id].realized_loss = r.realized_loss
      /\ \A j \in TransferIds : j # id => transfers'[j] = transfers[j]
  <2>1. [r EXCEPT !.status = "Complete"] \in TransferRecord
    BY DEF TransferRecord, TransferStatus
  <2> QED
    BY <1>0, <1>2, <2>1 DEF TransferRecord
<1>4. RecordBounds'
  BY <1>3 DEF LegInv, RecordBounds
<1>5. CustodyIdentity' /\ TokenConservation'
  BY <1>1 DEF CustodyIdentity, TokenConservation, accounted_custody
<1>6. OneOpenTransfer'
  <2>1. \A j \in TransferIds : j # id => transfers[j].status \notin {"Pending", "Quarantined"}
    BY <1>0 DEF LegInv, OneOpenTransfer
  <2>2. transfers[id].message_sequence = position.active_transfer_sequence
    BY <1>0 DEF LegInv, OneOpenTransfer
  <2> QED
    BY <1>0, <1>2, <1>3, <2>1, <2>2 DEF OneOpenTransfer
<1>7. RecallConservation'
  <2>1. recall_settled(r) => p.recalled_custody = 0
    <3>1. /\ r.requested_recall_amount \in Nat /\ r.custody_principal_reserved \in Nat
          /\ r.strategy_principal_resolved \in Nat /\ r.assets_withdrawn \in Nat
          /\ r.assets_sent \in Nat /\ r.realized_loss \in Nat
          /\ p.recalled_custody \in Nat
      BY RecordFields, PositionFields
    <3>2. r.custody_principal_reserved + (r.assets_withdrawn + r.realized_loss)
              <= r.requested_recall_amount
      OBVIOUS
    <3>3. r.assets_sent + p.recalled_custody + r.realized_loss <= r.requested_recall_amount
      <4>1. r.custody_principal_reserved + (r.assets_withdrawn + r.realized_loss)
              = (r.custody_principal_reserved + r.assets_withdrawn) + r.realized_loss
        BY <3>1
      <4> QED
        BY <3>2, <4>1
    <3> QED
      BY <3>1, <3>3 DEF recall_settled
  <2>2. \A j \in TransferIds : j # id =>
            transfers'[j] = transfers[j] /\ transfers[j].status # "Pending"
    BY <1>0, <1>3 DEF LegInv, OneOpenTransfer
  <2>3. ~recall_settled(r) =>
            /\ position'.active_transfer_kind = "Recall"
            /\ position'.active_transfer_status = "Pending"
    BY <1>0, <1>2
  <2> QED
    BY <1>1, <1>3, <2>1, <2>2, <2>3 DEF LegInv, RecallConservation, recall_settled
<1>8. PrincipalCeiling'
  <2>1. committed_principal(position)' = committed_principal(p)
    BY <1>1 DEF committed_principal, accepted_principal
  <2>2. position'.active_transfer_kind # "Allocate"
    BY <1>0, <1>2
  <2>3. committed_principal(p) \in Nat
    BY PositionFields, NatArithmetic DEF committed_principal, accepted_principal
  <2> QED
    BY <2>1, <2>2, <2>3 DEF PrincipalCeiling
<1> QED
  BY <1>1, <1>3, <1>4, <1>5, <1>6, <1>7, <1>8

\* A withdrawal keeps the invariant: the principal it resolves leaves the adapter,
\* what returns is recalled custody and what does not is a loss.
LEMMA WithdrawInv ==
    ASSUME LegInv, NEW id \in TransferIds, NEW maximum \in Nat, NEW reduction \in Nat,
           NEW returned \in Nat, withdraw_for_recall(id, maximum, reduction, returned)
    PROVE  LegInv'
<1> DEFINE old == transfers[id]
           unresolved == unresolved_recall_principal(old)
           loss == realized_loss_of(reduction, returned)
           r == [ old EXCEPT !.strategy_principal_resolved = @ + reduction,
                             !.assets_withdrawn = @ + returned,
                             !.realized_loss = @ + loss ]
           p == [ reconciled EXCEPT !.deployed_principal = @ - reduction,
                                    !.recalled_custody = @ + returned,
                                    !.cumulative_realized_loss = @ + loss ]
<1>0. /\ LegTypeOK /\ position \in RemotePosition /\ can_reconcile
      /\ old \in TransferRecord /\ check_active(id, "Recall")
      /\ old.transfer_kind = "Recall" /\ old.status = "Pending"
      /\ settle_recall(id, r, p)
      /\ tokens' = [tokens EXCEPT !.custody = @ + returned, !.adapter_principal = @ - reduction]
      /\ UNCHANGED << ledger, control_lane, consumed, config, outbound, recall_markers >>
  BY AlwaysReconciles DEF withdraw_for_recall, LegInv, LegTypeOK, check_active
<1>1. /\ old.requested_recall_amount \in Nat /\ old.custody_principal_reserved \in Nat
      /\ old.strategy_principal_resolved \in Nat /\ old.assets_withdrawn \in Nat
      /\ old.assets_sent \in Nat /\ old.realized_loss \in Nat
      /\ old.custody_principal_reserved + old.strategy_principal_resolved
            <= old.requested_recall_amount
      /\ old.assets_withdrawn + old.realized_loss = old.strategy_principal_resolved
      /\ old.custody_principal_reserved + old.assets_withdrawn
            = old.assets_sent + position.recalled_custody
  BY <1>0, RecordFields DEF LegInv, RecallConservation
<1>2. /\ position.attributed_principal \in Nat /\ position.recalled_custody \in Nat
      /\ position.deployed_principal \in Nat /\ position.cumulative_realized_loss \in Nat
      /\ position.unattributed_custody \in Nat
      /\ tokens.custody \in Nat /\ tokens.escrow \in Nat
      /\ tokens.adapter_principal \in Nat /\ tokens.arrived \in Nat
      /\ position.deployed_principal = tokens.adapter_principal
  BY <1>0, PositionFields, TokenFields DEF LegInv, CustodyIdentity
<1>3. unresolved \in Nat
  BY <1>1 DEF unresolved_recall_principal
<1>4. /\ reduction <= unresolved /\ reduction <= position.deployed_principal
      /\ returned <= reduction
  <2> DEFINE request == MinOf(MinOf(maximum, unresolved), position.deployed_principal)
  <2>1. reduction \in 1..request /\ returned \in 0..reduction
    BY DEF withdraw_for_recall
  <2>2. MinOf(maximum, unresolved) \in Nat /\ MinOf(maximum, unresolved) <= unresolved
    BY <1>3, NatArithmetic
  <2> HIDE DEF unresolved
  <2>3. request \in Nat /\ request <= MinOf(maximum, unresolved)
        /\ request <= position.deployed_principal
    BY <1>2, <2>2, NatArithmetic
  <2> HIDE DEF request
  <2> QED
    BY <1>2, <1>3, <2>1, <2>2, <2>3
<1>5. loss \in Nat /\ returned + loss = reduction
  BY <1>4 DEF realized_loss_of
<1> HIDE DEF loss
<1>6. /\ r \in TransferRecord
      /\ r.transfer_kind = "Recall" /\ r.status = "Pending"
      /\ r.message_sequence = old.message_sequence
      /\ r.authorized_amount = old.authorized_amount
      /\ r.attributed_amount = old.attributed_amount
      /\ r.requested_recall_amount = old.requested_recall_amount
      /\ r.custody_principal_reserved = old.custody_principal_reserved
      /\ r.strategy_principal_resolved = old.strategy_principal_resolved + reduction
      /\ r.assets_withdrawn = old.assets_withdrawn + returned
      /\ r.realized_loss = old.realized_loss + loss
      /\ r.assets_sent = old.assets_sent
  <2>1. /\ old.strategy_principal_resolved + reduction \in Nat
        /\ old.assets_withdrawn + returned \in Nat /\ old.realized_loss + loss \in Nat
    BY <1>1, <1>5, NatArithmetic
  <2> QED
    BY <1>0, <2>1 DEF TransferRecord
<1>7. /\ p \in RemotePosition
      /\ p.attributed_principal = position.attributed_principal
      /\ p.deployed_principal = position.deployed_principal - reduction
      /\ p.recalled_custody = position.recalled_custody + returned
      /\ p.unattributed_custody =
             tokens.custody - position.attributed_principal - position.recalled_custody
      /\ p.cumulative_realized_loss = position.cumulative_realized_loss + loss
      /\ p.active_transfer_id = position.active_transfer_id
      /\ p.active_transfer_kind = position.active_transfer_kind
      /\ p.active_transfer_sequence = position.active_transfer_sequence
      /\ p.active_transfer_status = position.active_transfer_status
  <2>1. /\ position.deployed_principal - reduction \in Nat
        /\ position.recalled_custody + returned \in Nat
        /\ position.cumulative_realized_loss + loss \in Nat
    BY <1>2, <1>4, <1>5, NatArithmetic
  <2>2. reconciled \in RemotePosition
    BY <1>0, ReconciledFields
  <2> QED
    BY <1>0, <2>1, <2>2, ReconciledFields DEF RemotePosition
<1>8. /\ tokens'.custody = tokens.custody + returned
      /\ tokens'.adapter_principal = tokens.adapter_principal - reduction
      /\ tokens'.escrow = tokens.escrow /\ tokens'.arrived = tokens.arrived
      /\ tokens' \in [ custody : Nat, escrow : Nat, adapter_principal : Nat, arrived : Nat ]
  <2>1. tokens.custody + returned \in Nat /\ tokens.adapter_principal - reduction \in Nat
    BY <1>2, <1>4, NatArithmetic
  <2> QED
    BY <1>0, <2>1 DEF LegTypeOK
<1> HIDE DEF r, p, old
<1>9. /\ r.custody_principal_reserved + r.strategy_principal_resolved <= r.requested_recall_amount
      /\ r.assets_withdrawn + r.realized_loss = r.strategy_principal_resolved
      /\ r.custody_principal_reserved + r.assets_withdrawn = r.assets_sent + p.recalled_custody
  <2>1. reduction + old.custody_principal_reserved + old.strategy_principal_resolved
            <= old.requested_recall_amount
    BY <1>1, <1>4 DEF unresolved_recall_principal
  <2>2. r.custody_principal_reserved + r.strategy_principal_resolved <= r.requested_recall_amount
    BY <1>1, <1>6, <2>1
  <2>3. r.assets_withdrawn + r.realized_loss = r.strategy_principal_resolved
    <3>1. (old.assets_withdrawn + returned) + (old.realized_loss + loss)
              = old.strategy_principal_resolved + reduction
      <4>1. old.assets_withdrawn + old.realized_loss = old.strategy_principal_resolved
        BY <1>1
      <4>2. /\ old.assets_withdrawn \in Nat /\ old.realized_loss \in Nat
            /\ old.strategy_principal_resolved \in Nat
        BY <1>1
      <4>3. loss \in Nat /\ returned + loss = reduction
        BY <1>5
      <4>4. (old.assets_withdrawn + returned) + (old.realized_loss + loss)
              = (old.assets_withdrawn + old.realized_loss) + (returned + loss)
        BY <4>2, <4>3
      <4> QED
        BY <4>1, <4>3, <4>4
    <3> QED
      BY <1>6, <3>1
  <2>4. r.custody_principal_reserved + r.assets_withdrawn = r.assets_sent + p.recalled_custody
    BY <1>1, <1>2, <1>6, <1>7
  <2> QED
    BY <2>2, <2>3, <2>4
<1>10. committed_principal(p) <= MAX_REMOTE_PRINCIPAL
  <2>1. committed_principal(position) <= MAX_REMOTE_PRINCIPAL
    <3>1. committed_principal(position) \in Nat /\ position.active_transfer_kind # "Allocate"
      BY <1>0, <1>2, NatArithmetic DEF committed_principal, accepted_principal, check_active
    <3> QED
      BY <3>1 DEF LegInv, PrincipalCeiling
  <2> QED
    BY <1>2, <1>4, <1>7, <2>1, LegAssumption DEF committed_principal, accepted_principal
<1>11. accounted_custody(p) <= tokens'.custody /\ p.deployed_principal = tokens'.adapter_principal
  BY <1>2, <1>7, <1>8 DEF accounted_custody
<1>12. tokens'.arrived = tokens'.custody + tokens'.escrow + tokens'.adapter_principal
                            + p.cumulative_realized_loss
  <2>1. TokenConservation
    BY DEF LegInv
  <2> QED
    BY <1>2, <1>4, <1>5, <1>7, <1>8, <2>1 DEF TokenConservation
<1>13. /\ transfers' \in [TransferIds -> TransferRecord]
       /\ position' \in RemotePosition
       /\ RecordBounds' /\ CustodyIdentity' /\ TokenConservation' /\ OneOpenTransfer'
       /\ RecallConservation' /\ PrincipalCeiling'
  <2>1. /\ r.message_sequence = transfers[id].message_sequence
        /\ r.authorized_amount = transfers[id].authorized_amount
        /\ r.attributed_amount = transfers[id].attributed_amount
    BY <1>6 DEF old
  <2> QED
    BY <1>0, <1>6, <1>7, <1>9, <1>10, <1>11, <1>12, <2>1, SettleRecall
<1>14. LegTypeOK' /\ LedgerBalanced'
  BY <1>0, <1>8, <1>13 DEF LegInv, LegTypeOK, LedgerBalanced
<1> QED
  BY <1>13, <1>14 DEF LegInv

\* Sending keeps the invariant: recalled custody becomes outbound escrow.
LEMMA SendInv ==
    ASSUME LegInv, NEW id \in TransferIds, NEW maximum \in Nat, send_recall_assets(id, maximum)
    PROVE  LegInv'
<1> DEFINE old == transfers[id]
           n == MinOf(maximum, position.recalled_custody)
           r == [old EXCEPT !.assets_sent = @ + n]
           p == [reconciled EXCEPT !.recalled_custody = @ - n]
<1>0. /\ LegTypeOK /\ position \in RemotePosition /\ can_reconcile
      /\ old \in TransferRecord /\ check_active(id, "Recall")
      /\ old.transfer_kind = "Recall" /\ old.status = "Pending"
      /\ settle_recall(id, r, p)
      /\ tokens' = [tokens EXCEPT !.custody = @ - n, !.escrow = @ + n]
      /\ UNCHANGED << ledger, control_lane, consumed, config, outbound, recall_markers >>
  BY AlwaysReconciles DEF send_recall_assets, LegInv, LegTypeOK, check_active
<1>1. /\ position.attributed_principal \in Nat /\ position.recalled_custody \in Nat
      /\ position.deployed_principal \in Nat /\ position.cumulative_realized_loss \in Nat
      /\ position.unattributed_custody \in Nat
      /\ tokens.custody \in Nat /\ tokens.escrow \in Nat
      /\ tokens.adapter_principal \in Nat /\ tokens.arrived \in Nat
      /\ position.deployed_principal = tokens.adapter_principal
  BY <1>0, PositionFields, TokenFields DEF LegInv, CustodyIdentity
<1>2. n \in Nat /\ n <= position.recalled_custody
  BY <1>1, NatArithmetic
<1> HIDE DEF n
<1>3. n <= tokens.custody
  BY <1>0, <1>1, <1>2 DEF can_reconcile, accounted_custody
<1>4. /\ r \in TransferRecord
      /\ r.transfer_kind = "Recall" /\ r.status = "Pending"
      /\ r.message_sequence = old.message_sequence
      /\ r.authorized_amount = old.authorized_amount
      /\ r.attributed_amount = old.attributed_amount
      /\ r.requested_recall_amount = old.requested_recall_amount
      /\ r.custody_principal_reserved = old.custody_principal_reserved
      /\ r.strategy_principal_resolved = old.strategy_principal_resolved
      /\ r.assets_withdrawn = old.assets_withdrawn
      /\ r.realized_loss = old.realized_loss
      /\ r.assets_sent = old.assets_sent + n
  <2>1. old.assets_sent + n \in Nat
    BY <1>0, <1>2, RecordFields, NatArithmetic
  <2> QED
    BY <1>0, <2>1 DEF TransferRecord
<1>5. /\ p \in RemotePosition
      /\ p.attributed_principal = position.attributed_principal
      /\ p.deployed_principal = position.deployed_principal
      /\ p.recalled_custody = position.recalled_custody - n
      /\ p.unattributed_custody =
             tokens.custody - position.attributed_principal - position.recalled_custody
      /\ p.cumulative_realized_loss = position.cumulative_realized_loss
      /\ p.active_transfer_id = position.active_transfer_id
      /\ p.active_transfer_kind = position.active_transfer_kind
      /\ p.active_transfer_sequence = position.active_transfer_sequence
      /\ p.active_transfer_status = position.active_transfer_status
  <2>1. position.recalled_custody - n \in Nat
    BY <1>1, <1>2, NatArithmetic
  <2>2. reconciled \in RemotePosition
    BY <1>0, ReconciledFields
  <2> QED
    BY <1>0, <2>1, <2>2, ReconciledFields DEF RemotePosition
<1>6. /\ tokens'.custody = tokens.custody - n
      /\ tokens'.escrow = tokens.escrow + n
      /\ tokens'.adapter_principal = tokens.adapter_principal /\ tokens'.arrived = tokens.arrived
      /\ tokens' \in [ custody : Nat, escrow : Nat, adapter_principal : Nat, arrived : Nat ]
  <2>1. tokens.custody - n \in Nat /\ tokens.escrow + n \in Nat
    BY <1>1, <1>2, <1>3, NatArithmetic
  <2> QED
    BY <1>0, <2>1 DEF LegTypeOK
<1> HIDE DEF r, p
<1>7. /\ r.custody_principal_reserved + r.strategy_principal_resolved <= r.requested_recall_amount
      /\ r.assets_withdrawn + r.realized_loss = r.strategy_principal_resolved
      /\ r.custody_principal_reserved + r.assets_withdrawn = r.assets_sent + p.recalled_custody
  <2>1. /\ old.custody_principal_reserved + old.strategy_principal_resolved
              <= old.requested_recall_amount
        /\ old.assets_withdrawn + old.realized_loss = old.strategy_principal_resolved
        /\ old.custody_principal_reserved + old.assets_withdrawn
              = old.assets_sent + position.recalled_custody
    BY <1>0 DEF LegInv, RecallConservation
  <2>2. old.assets_sent \in Nat
    BY <1>0, RecordFields
  <2>3. (old.assets_sent + n) + (position.recalled_custody - n)
            = old.assets_sent + position.recalled_custody
    BY <1>1, <1>2, <2>2
  <2> QED
    BY <1>4, <1>5, <2>1, <2>3
<1>8. committed_principal(p) <= MAX_REMOTE_PRINCIPAL
  <2>1. committed_principal(position) <= MAX_REMOTE_PRINCIPAL
    <3>1. committed_principal(position) \in Nat /\ position.active_transfer_kind # "Allocate"
      BY <1>0, <1>1, NatArithmetic DEF committed_principal, accepted_principal, check_active
    <3> QED
      BY <3>1 DEF LegInv, PrincipalCeiling
  <2> QED
    BY <1>1, <1>2, <1>5, <2>1, LegAssumption DEF committed_principal, accepted_principal
<1>9. accounted_custody(p) <= tokens'.custody /\ p.deployed_principal = tokens'.adapter_principal
  BY <1>1, <1>2, <1>5, <1>6 DEF accounted_custody
<1>10. tokens'.arrived = tokens'.custody + tokens'.escrow + tokens'.adapter_principal
                            + p.cumulative_realized_loss
  <2>1. TokenConservation
    BY DEF LegInv
  <2> QED
    BY <1>1, <1>2, <1>5, <1>6, <2>1 DEF TokenConservation
<1>11. /\ transfers' \in [TransferIds -> TransferRecord]
       /\ position' \in RemotePosition
       /\ RecordBounds' /\ CustodyIdentity' /\ TokenConservation' /\ OneOpenTransfer'
       /\ RecallConservation' /\ PrincipalCeiling'
  BY <1>0, <1>4, <1>5, <1>7, <1>8, <1>9, <1>10, SettleRecall
<1>12. LegTypeOK' /\ LedgerBalanced'
  BY <1>0, <1>6, <1>11 DEF LegInv, LegTypeOK, LedgerBalanced
<1> QED
  BY <1>11, <1>12 DEF LegInv

-----------------------------------------------------------------------------
(* The theorems *)

\* A freshly deployed leg holds nothing, owes nothing and has no cycle.
LEMMA InitInv ==
    ASSUME LegInit
    PROVE  LegInv
<1>1. NoRecord \in TransferRecord
  BY DEF NoRecord, TransferRecord, TransferKind, TransferStatus
<1>2. LegTypeOK
  <2>1. position \in RemotePosition
    BY DEF LegInit, RemotePosition
  <2>2. ledger \in TransportLedger
    BY DEF LegInit, TransportLedger
  <2>3. outbound \in Seq(OutboundMessage)
    BY DEF LegInit
  <2> QED
    BY <1>1, <2>1, <2>2, <2>3, ProtocolAssumption DEF LegInit, LegTypeOK
<1>3. RecordBounds /\ OneOpenTransfer
  BY ProtocolAssumption DEF LegInit, RecordBounds, OneOpenTransfer, NoRecord
<1>4. CustodyIdentity /\ TokenConservation /\ LedgerBalanced
  BY DEF LegInit, CustodyIdentity, TokenConservation, LedgerBalanced, accounted_custody
<1>5. RecallConservation
  BY DEF LegInit, RecallConservation, NoRecord
<1>6. PrincipalCeiling
  BY LegAssumption DEF LegInit, PrincipalCeiling, committed_principal, accepted_principal
<1> QED
  BY <1>2, <1>3, <1>4, <1>5, <1>6 DEF LegInv

\* Every instruction of the leg, in any order and with any well-formed message,
\* keeps the invariant.
LEMMA NextInv ==
    ASSUME LegInv, [LegNext]_legVars
    PROVE  LegInv'
<1>0. Amounts \subseteq Nat
  BY ProtocolAssumption
<1>1. ASSUME NEW m \in ControlMessage, NEW seq \in 1..MaxSequence, LegConsumes(m, seq)
      PROVE  LegInv'
  <2>1. PICK now \in Clock, guardian \in GuardianSigns, effective \in BOOLEAN :
            \/ handle_allocate(m, seq, now)
            \/ handle_recall(m, seq, now, guardian)
            \/ handle_resolve(m, seq, now, guardian)
            \/ close(m, seq, now, guardian)
            \/ recover(m, seq, now, guardian)
            \/ handle_config_update(m, seq, now, effective)
    BY <1>1 DEF LegConsumes
  <2> QED
    BY <2>1, AllocateInv, RecallInv, ResolveInv, CloseInv, RecoverInv, ConfigUpdateInv
<1>2. ASSUME NEW id \in TransferIds, NEW guardian \in GuardianSigns,
             attribute_allocation(id, guardian)
      PROVE  LegInv'
  BY <1>2, AttributeAllocationInv
<1>3. ASSUME NEW amount \in Amounts, deploy_to_strategy(amount, CurrentReceipt(amount))
      PROVE  LegInv'
  BY <1>3, DeployInv
<1>4. ASSUME NEW id \in TransferIds, NEW maximum \in Amounts, NEW reduction \in Amounts,
             NEW returned \in 0..reduction,
             withdraw_for_recall(id, maximum, reduction, returned)
      PROVE  LegInv'
  <2>1. maximum \in Nat /\ reduction \in Nat /\ returned \in Nat
    BY <1>0
  <2> QED
    BY <1>4, <2>1, WithdrawInv
<1>5. ASSUME NEW id \in TransferIds, NEW maximum \in Amounts, send_recall_assets(id, maximum)
      PROVE  LegInv'
  BY <1>0, <1>5, SendInv
<1>6. ASSUME LegMoves
      PROVE  LegInv'
  BY <1>2, <1>3, <1>4, <1>5, <1>6, ReconcileCustodyInv, FreezeInv, WatermarkInv,
     CloseRecordInv, PublishRecallSentInv DEF LegMoves
<1>7. ASSUME NEW e \in ReportEpochs, NEW observed_at \in 0..(MaxEpoch + 1),
             publish_remote_report(e, observed_at)
      PROVE  LegInv'
  <2>1. observed_at \in Nat
    BY ProtocolAssumption
  <2> QED
    BY <1>7, <2>1, PublishReportInv
<1>8. CASE UNCHANGED legVars
  <2>1. LegTypeOK'
    BY <1>8 DEF legVars, LegInv, LegTypeOK
  <2> QED
    BY <1>8, <2>1, FrameInv DEF legVars
<1> QED
  BY <1>1, <1>6, <1>7, <1>8, AssetsArriveInv DEF LegNext

\* LegInv holds in every reachable state of the remote leg.
THEOREM LegInvariant == LegSpec => []LegInv
<1>1. LegInit => LegInv
  BY InitInv
<1>2. LegInv /\ [LegNext]_legVars => LegInv'
  BY NextInv
<1> QED
  BY <1>1, <1>2, PTL DEF LegSpec

\* No account of the leg leaves its type: no bucket or counter a handler subtracts
\* from ever goes below zero, so no checked subtraction fails.
THEOREM LegTypesHold == LegSpec => []LegTypeOK
<1>1. LegInv => LegTypeOK
  BY DEF LegInv
<1> QED
  BY <1>1, LegInvariant, PTL

\* The custody account always covers the buckets the position claims, and the
\* adapter holds the deployed principal: reconcile finds no deficit, and
\* check_identity and check_deployed never fail.
THEOREM CustodyCovered == LegSpec => []CustodyIdentity
<1>1. LegInv => CustodyIdentity
  BY DEF LegInv
<1> QED
  BY <1>1, LegInvariant, PTL

\* Every token that reached custody stays there, is deployed, is in the outbound
\* escrow or is a realized loss.
THEOREM TokensConserved == LegSpec => []TokenConservation
<1>1. LegInv => TokenConservation
  BY DEF LegInv
<1> QED
  BY <1>1, LegInvariant, PTL

\* The position and the transfer records always name the same open cycle.
THEOREM CyclesAgree == LegSpec => []OneOpenTransfer
<1>1. LegInv => OneOpenTransfer
  BY DEF LegInv
<1> QED
  BY <1>1, LegInvariant, PTL

\* A recall explains every unit it was asked for, and leaves no recalled custody
\* behind once it is complete.
THEOREM RecallsConserve == LegSpec => []RecallConservation
<1>1. LegInv => RecallConservation
  BY DEF LegInv
<1> QED
  BY <1>1, LegInvariant, PTL

\* Committed principal and what the open allocation may still bring never exceed
\* max_remote_principal.
THEOREM CeilingHolds == LegSpec => []PrincipalCeiling
<1>1. LegInv => PrincipalCeiling
  BY DEF LegInv
<1> QED
  BY <1>1, LegInvariant, PTL

\* check_balanced never fails: a closed claim is credited, impaired or recovered.
THEOREM LedgerStaysBalanced == LegSpec => []LedgerBalanced
<1>1. LegInv => LedgerBalanced
  BY DEF LegInv
<1> QED
  BY <1>1, LegInvariant, PTL
=============================================================================
