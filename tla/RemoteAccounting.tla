-------------------------- MODULE RemoteAccounting --------------------------
(***************************************************************************)
(* The remote coordinator (contracts/solevm-vault/src/RemoteAccounting.sol)*)
(* on top of the vault it is bound to.  It publishes control messages in   *)
(* order, keeps at most one transfer cycle open, and applies the leg's     *)
(* reports, recall notices and settlements in order.                       *)
(*                                                                         *)
(* control[n] is the control message published under sequence n.  Expiry   *)
(* and deadline are chosen by the administrator and checked against a      *)
(* clock, so "expired" is a free parameter and a deadline may have passed  *)
(* at any step.  Here an inbound message is ANY message of the protocol;   *)
(* CrossChain restricts it to what the leg published under that sequence.  *)
(***************************************************************************)
EXTENDS SolEVMVault

CONSTANTS
    MaxInbound,     \* bound: messages consumed from the leg
    MaxReported,    \* bound: largest figure in a message of an arbitrary leg
    MaxLoss         \* bound: largest loss in such a message

ASSUME HubAssumption ==
    /\ MaxInbound \in Nat
    /\ MaxReported \in Nat
    /\ MaxLoss \in Nat

VARIABLES
    cycle,               \* the active cycle
    inbound,             \* the inbound lane: expected sequence, cumulative loss seen
    recallBaseline,      \* accepted value and cumulative loss when the recall began
    lastImpairedSequence,
    usedTransferIds,
    control              \* messages published on the outbound lane, in order

hubVars == << cycle, inbound, recallBaseline, lastImpairedSequence,
              usedTransferIds, control >>
accountingVars == << vaultVars, hubVars >>

Cycle ==
    [ kind : {"None", "Allocate", "Recall", "Recover"},
      id : TransferIds \cup {NoTransfer}, amount : Nat, sequence : Nat,
      closeRequested : BOOLEAN ]

NoCycle == [ kind |-> "None", id |-> NoTransfer, amount |-> 0, sequence |-> 0,
             closeRequested |-> FALSE ]

NoBaseline == [ value |-> 0, loss |-> 0 ]

\* The vault's configVersion is immutable.
configVersion == InitialVersion

HubInit ==
    /\ cycle = NoCycle
    /\ inbound = [expectedSequence |-> 1, cumulativeLoss |-> 0]
    /\ recallBaseline = NoBaseline
    /\ lastImpairedSequence = 0
    /\ usedTransferIds = {}
    /\ control = << >>

-----------------------------------------------------------------------------
(* Publishing *)

publishOutbound(m) ==
    /\ Len(control) < MaxSequence
    /\ control' = Append(control, m)

\* Opens a cycle of its own and publishes its message.
consumeOutbound(id, kind, amount, m) ==
    /\ usedTransferIds' = usedTransferIds \cup {id}
    /\ cycle' = [ kind |-> kind, id |-> id, amount |-> amount,
                  sequence |-> Len(control) + 1, closeRequested |-> FALSE ]
    /\ publishOutbound(m)

\* Mutant: every resolution names the active sequence.
resolveMessageActive(action, id, target) ==
    [ type |-> action, transfer_id |-> id, target_sequence |-> cycle.sequence,
      config_version |-> configVersion ]

resolveMessage(action, id, target) ==
    [ type |-> action, transfer_id |-> id, target_sequence |-> target,
      config_version |-> configVersion ]

\* The idle check precedes the surplus that beginOutbound records.
allocate(id, amount) ==
    /\ vaultStatus = "Active"
    /\ OpenPhase
    /\ cycle.kind = "None"
    /\ id \notin usedTransferIds
    /\ buckets.idleBacking >= amount
    /\ requireNoDeficit
    /\ buckets' = beginOutbound(recordSurplus(buckets), amount)
    /\ asset' = [asset EXCEPT !.vault = @ - amount, !.sink = @ + amount]
    /\ consumeOutbound(id, "Allocate", amount,
           [ type |-> "Allocate", transfer_id |-> id, amount |-> amount,
             config_version |-> configVersion ])
    /\ UNCHANGED << epoch, vaultStatus, requestVars, contributed, inbound,
                    recallBaseline, lastImpairedSequence >>

recall(id, amount) ==
    /\ cycle.kind = "None"
    /\ id \notin usedTransferIds
    /\ amount <= buckets.remotePrincipalCap
    /\ recallBaseline' = [ value |-> buckets.acceptedRemoteValue,
                           loss |-> inbound.cumulativeLoss ]
    /\ buckets' = beginRecall(buckets, amount)
    /\ consumeOutbound(id, "Recall", amount,
           [ type |-> "Recall", transfer_id |-> id, amount |-> amount,
             config_version |-> configVersion ])
    /\ UNCHANGED << epoch, vaultStatus, requestVars, asset, contributed, inbound,
                    lastImpairedSequence >>

admit ==
    /\ cycle.kind \in {"Allocate", "Recall"}
    /\ ~cycle.closeRequested
    /\ cycle.kind = "Allocate" => vaultStatus = "Active"
    /\ publishOutbound(resolveMessage("Admit", cycle.id, cycle.sequence))
    /\ UNCHANGED << vaultVars, cycle, inbound, recallBaseline, lastImpairedSequence,
                    usedTransferIds >>

close ==
    /\ cycle.kind = "Allocate"
    /\ ~cycle.closeRequested
    /\ cycle' = [cycle EXCEPT !.closeRequested = TRUE]
    /\ publishOutbound(resolveMessage("Close", cycle.id, cycle.sequence))
    /\ UNCHANGED << vaultVars, inbound, recallBaseline, lastImpairedSequence,
                    usedTransferIds >>

recover(id) ==
    /\ cycle.kind = "None"
    /\ id \notin usedTransferIds
    /\ buckets.impairedTransport # 0
    /\ consumeOutbound(id, "Recover", 0,
           resolveMessage("Recover", id, lastImpairedSequence))
    /\ UNCHANGED << vaultVars, inbound, recallBaseline, lastImpairedSequence >>

-----------------------------------------------------------------------------
(* Inbound messages *)

\* The envelope rules, expiry apart, and the lane advance of an accepted message.
requireInbound(m, seq) ==
    /\ well_formed_outbound(m)
    /\ seq = inbound.expectedSequence
    /\ m.config_version = configVersion

advanceInbound(loss) ==
    inbound' = [ expectedSequence |-> inbound.expectedSequence + 1,
                 cumulativeLoss |-> loss ]

\* During a recall only the loss realized since it began moves the value.
valueDuringRecall(cumulativeLoss) ==
    SaturatingSub(recallBaseline.value,
                  SaturatingSub(cumulativeLoss, recallBaseline.loss))

\* Mutant: any report may complete the allocation after the price is fixed.
completionKeepsNavUnchecked(reported) == TRUE

completionKeepsNav(reported) ==
    MinOf(reported, buckets.remotePrincipalCap + cycle.amount)
        = buckets.acceptedRemoteValue + cycle.amount

\* Mutant: any report completes the open allocation.
completesAny(m) == cycle.kind = "Allocate"

completes(m) ==
    /\ cycle.kind = "Allocate"
    /\ m.latest_completed_transfer_id = cycle.id

\* Mutant: a report may complete or price an allocation that is being closed.
skippedButClosing(m, expired) ==
    \/ expired
    \/ /\ CutOffPhase
       /\ IF epoch.locked
          THEN ~completes(m) \/ ~completionKeepsNav(m.reported_value)
          ELSE m.epoch_id # epoch.id \/ m.observed_at <= epoch.id

\* Why a report prices nothing: settlement pending, expired, valuation fixed,
\* wrong epoch, stale observation.
skipped(m, expired) ==
    \/ cycle.closeRequested
    \/ expired
    \/ /\ CutOffPhase
       /\ IF epoch.locked
          THEN ~completes(m) \/ ~completionKeepsNav(m.reported_value)
          ELSE m.epoch_id # epoch.id \/ m.observed_at <= epoch.id

completed(m) ==
    IF completes(m) THEN completeAllocation(buckets, cycle.amount, m.reported_value)
    ELSE buckets

\* A report completes the allocation it names; unless the epoch's price is
\* already fixed it then sets the remote value, and fixes the price after cutoff.
applyReport(m) ==
    LET value == IF cycle.kind = "Recall" THEN valueDuringRecall(m.realized_loss)
                 ELSE m.reported_value
        b == IF CutOffPhase /\ epoch.locked THEN completed(m)
             ELSE setAcceptedRemoteValue(completed(m), value)
    IN  /\ buckets' = b
        /\ epoch' = IF CutOffPhase /\ ~epoch.locked THEN lockRemoteValuation(b) ELSE epoch
        /\ cycle' = IF completes(m) THEN NoCycle ELSE cycle

\* A report that cannot be applied still advances the lane.
processRemoteReport(m, seq, expired) ==
    /\ m.type = "RemoteReport"
    /\ requireInbound(m, seq)
    /\ m.realized_loss >= inbound.cumulativeLoss
    /\ advanceInbound(m.realized_loss)
    /\ \/ skipped(m, expired) /\ UNCHANGED << buckets, epoch, cycle >>
       \/ ~skipped(m, expired) /\ applyReport(m)
    /\ UNCHANGED << vaultStatus, requestVars, asset, contributed, recallBaseline,
                    lastImpairedSequence, usedTransferIds, control >>

\* Mutant: the notice settles from what the reports left of the value.
rebaselinedNever == buckets

\* The notice settles from the pre-recall value, so that a loss the reports
\* already deducted is not deducted twice.
rebaselined == setAcceptedRemoteValue(buckets, recallBaseline.value)

processRecallSent(m, seq) ==
    LET settledLoss == recallBaseline.loss + m.realized_loss
    IN  /\ m.type = "RecallSent"
        /\ requireInbound(m, seq)
        /\ cycle.kind = "Recall"
        /\ m.transfer_id = cycle.id
        /\ m.principal_sent <= cycle.amount
        /\ m.actual_amount_sent + m.realized_loss = m.principal_sent
        /\ m.principal_sent <= buckets.remotePrincipalCap
        /\ advanceInbound(IF settledLoss > inbound.cumulativeLoss
                          THEN settledLoss ELSE inbound.cumulativeLoss)
        /\ recallBaseline' = NoBaseline
        /\ cycle' = NoCycle
        /\ buckets' = applyRecallSent(rebaselined, m.principal_sent,
                                      m.actual_amount_sent, m.realized_loss)
        /\ UNCHANGED << epoch, vaultStatus, requestVars, asset, contributed,
                        lastImpairedSequence, usedTransferIds, control >>

processTransportSettlement(m, seq) ==
    LET shortfall == m.claim_amount - m.credited_amount
    IN  /\ m.type = "TransportSettlement"
        /\ requireInbound(m, seq)
        /\ m.transfer_id = cycle.id
        /\ \/ /\ m.kind = "Closed"
              /\ cycle.kind = "Allocate" /\ cycle.closeRequested
              /\ m.claim_amount = cycle.amount
              /\ m.impaired_outstanding = buckets.impairedTransport + shortfall
              /\ lastImpairedSequence' =
                     IF shortfall # 0 THEN cycle.sequence ELSE lastImpairedSequence
              /\ buckets' = closeAllocation(buckets, m.claim_amount, m.credited_amount)
           \/ /\ m.kind = "Recovered"
              /\ cycle.kind = "Recover"
              /\ m.claim_amount = buckets.impairedTransport
              /\ buckets' = recoverImpairment(buckets, m.credited_amount)
              /\ UNCHANGED lastImpairedSequence
        /\ cycle' = NoCycle
        /\ advanceInbound(inbound.cumulativeLoss)
        /\ UNCHANGED << epoch, vaultStatus, requestVars, asset, contributed,
                        recallBaseline, usedTransferIds, control >>

-----------------------------------------------------------------------------
(* Next-state relation *)

Publishes ==
    \/ \E id \in TransferIds, amount \in Amounts : allocate(id, amount)
    \/ \E id \in TransferIds, amount \in Amounts : recall(id, amount)
    \/ admit
    \/ close
    \/ \E id \in TransferIds : recover(id)

HubConsumes(m, seq) ==
    \/ \E expired \in BOOLEAN : processRemoteReport(m, seq, expired)
    \/ processRecallSent(m, seq)
    \/ processTransportSettlement(m, seq)

VaultSteps == (VaultMoves \/ \E n \in Amounts : assetsReceived(n)) /\ UNCHANGED hubVars

\* Messages of a leg that reports anything the codec lets it report.
AnyInbound ==
    { m \in [ type : {"RemoteReport"}, epoch_id : ReportEpochs, observed_at : {MaxEpoch, MaxEpoch + 1},
            reported_value : 0..MaxReported, realized_loss : 0..MaxLoss,
            latest_completed_transfer_id : TransferIds \cup {NoTransfer},
            config_version : Versions ]
          \cup
          [ type : {"RecallSent"}, transfer_id : TransferIds, principal_sent : 0..MaxReported,
            actual_amount_sent : 0..MaxReported, realized_loss : 0..MaxLoss,
            config_version : Versions ]
          \cup
          [ type : {"TransportSettlement"}, transfer_id : TransferIds,
            kind : {"Closed", "Recovered"}, claim_amount : 0..MaxReported,
            credited_amount : 0..MaxReported, impaired_outstanding : 0..MaxReported,
            config_version : Versions ] :
          well_formed_outbound(m) }

AccountingInit == VaultInit /\ HubInit

AccountingNext ==
    \/ VaultSteps
    \/ Publishes
    \/ /\ inbound.expectedSequence <= MaxInbound
       /\ \E m \in AnyInbound : HubConsumes(m, inbound.expectedSequence)

AccountingSpec == AccountingInit /\ [][AccountingNext]_accountingVars

-----------------------------------------------------------------------------
(* Properties *)

\* The vault's and the coordinator's variables keep their types.
AccountingTypeOK ==
    /\ VaultTypeOK
    /\ cycle \in Cycle
    /\ inbound \in [expectedSequence : Nat, cumulativeLoss : Nat]
    /\ recallBaseline \in [value : Nat, loss : Nat]
    /\ lastImpairedSequence \in Nat
    /\ usedTransferIds \subseteq TransferIds
    /\ control \in Seq(ControlMessage)

\* Every contributed unit sits in exactly one place: idle, in transit either way,
\* remote principal, impaired, or recognized as lost.  No report, notice or
\* settlement, honest or not, creates or destroys principal (README: "Financial
\* buckets do not double-count value").
PrincipalConserved ==
    buckets.idleBacking + buckets.outboundInTransit + buckets.remotePrincipalCap
        + buckets.inboundInTransit + buckets.impairedTransport + buckets.recognizedLoss
    = contributed

\* Remote value never exceeds the principal that was sent, so NAV never exceeds
\* what was contributed, whatever the leg reports.
ValueWithinPrincipal ==
    /\ buckets.acceptedRemoteValue <= buckets.remotePrincipalCap
    /\ recallBaseline.value <= buckets.remotePrincipalCap

\* The vault and the coordinator, two contracts with separate state, agree on the
\* open cycle: transit is the open allocation, the pending recall is the open
\* recall and is covered by the cap, and the published message carries it.
CycleMatchesVault ==
    /\ buckets.outboundInTransit = (IF cycle.kind = "Allocate" THEN cycle.amount ELSE 0)
    /\ buckets.pendingRecallPrincipal = (IF cycle.kind = "Recall" THEN cycle.amount ELSE 0)
    /\ buckets.pendingRecallPrincipal <= buckets.remotePrincipalCap
    /\ cycle.closeRequested => cycle.kind = "Allocate"
    /\ cycle.kind # "None" =>
         /\ cycle.id \in usedTransferIds
         /\ cycle.sequence \in DOMAIN control
         /\ control[cycle.sequence].type = cycle.kind
         /\ control[cycle.sequence].transfer_id = cycle.id
    /\ buckets.impairedTransport # 0 => lastImpairedSequence \in DOMAIN control

\* The first epoch has id zero, which no report may carry, so nothing could ever
\* price remote exposure in it: there must be none before epoch one opens.
GenesisEpochUnexposed == epoch.id = 0 => ~hasRemoteExposure(buckets)

\* Once the price of a cut off epoch is fixed, no report moves NAV: it may only
\* complete an allocation that moves the same amount out of transit.
FixedPriceKeepsNav ==
    [][ /\ CutOffPhase /\ epoch.locked
        /\ cycle.kind \in {"None", "Allocate"} /\ ~cycle.closeRequested
        /\ inbound' # inbound
        => managedBacking(buckets') = managedBacking(buckets)
      ]_accountingVars
=============================================================================
