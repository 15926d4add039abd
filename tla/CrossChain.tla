----------------------------- MODULE CrossChain -----------------------------
(***************************************************************************)
(* The whole system: the vault with its coordinator on the EVM, the remote *)
(* leg on Solana, and the two transports between them.                     *)
(*                                                                         *)
(* Messages: each lane is a published sequence that the other side         *)
(* consumes in order, each message fresh or expired, a control message not *)
(* before the leg's clock reaches the time it is stamped with; a relay     *)
(* may deliver a message again or early, but only the next one is accepted *)
(* so nothing else changes a state.  Assets: tokens pushed to the sink     *)
(* reach the leg's custody, and escrowed tokens reach the vault, late, in  *)
(* parts, out of step with the messages, or never.  Tokens are fungible,   *)
(* so what is in flight is the difference of two balances.                 *)
(*                                                                         *)
(* Both sides read one clock: a report is observed after an epoch's cutoff *)
(* time exactly when that time has passed at the vault.                    *)
(***************************************************************************)
EXTENDS Protocol

CONSTANTS
    Controllers, Vault, VIRTUAL_SHARES, MAX_DEPOSIT_REQUESTS_PER_EPOCH,
    MAX_REDEEM_REQUESTS_PER_EPOCH, MaxRequest, MaxReceived, MaxInbound,
    MaxReported, MaxLoss, MAX_REMOTE_PRINCIPAL, WATERMARK_LAG, GuardianSigns, MaxReports, MaxArrivals,
    GenesisAssets     \* what the first epoch finalized

VARIABLES
    buckets, epoch, vaultStatus, settled, deposits, redeems, lists, shares, asset,
    contributed, cycle, inbound, recallBaseline, lastImpairedSequence,
    usedTransferIds, control,
    position, transfers, ledger, control_lane, consumed, config, outbound,
    recall_markers, tokens

Hub == INSTANCE RemoteAccounting

Leg == INSTANCE RemoteLeg

evmVars == << buckets, epoch, vaultStatus, settled, deposits, redeems, lists, shares,
              asset, contributed, cycle, inbound, recallBaseline,
              lastImpairedSequence, usedTransferIds, control >>

solanaVars == << position, transfers, ledger, control_lane, consumed, config, outbound,
                 recall_markers, tokens >>

crossVars == << evmVars, solanaVars >>

-----------------------------------------------------------------------------
\* Epoch zero has finalized GenesisAssets of deposits whose shares are still
\* unclaimed, and epoch one is open: the first state in which there is anything
\* to allocate.
GenesisVault ==
    /\ buckets = [ pendingDepositEscrow |-> 0, idleBacking |-> GenesisAssets,
                   claimReserve |-> 0, unattributedBalance |-> 0,
                   unattributedInbound |-> 0, outboundInTransit |-> 0,
                   acceptedRemoteValue |-> 0, inboundInTransit |-> 0,
                   remotePrincipalCap |-> 0, recognizedLoss |-> 0,
                   impairedTransport |-> 0, pendingRecallPrincipal |-> 0 ]
    /\ epoch = [ open |-> TRUE, phase |-> "Open", id |-> 1, due |-> FALSE,
                 locked |-> FALSE, lockedPricingAssets |-> 0,
                 depositAssets |-> 0, redeemShares |-> 0 ]
    /\ vaultStatus = "Active"
    /\ settled = [e \in 0..MaxEpoch |-> IF e = 0 THEN "Finalized" ELSE "None"]
    /\ deposits = [e \in 0..MaxEpoch |-> [c \in Controllers |-> Hub!NoRequest]]
    /\ redeems = [e \in 0..MaxEpoch |-> [c \in Controllers |-> Hub!NoRequest]]
    /\ lists = [deposit |-> Hub!EmptyList, redeem |-> Hub!EmptyList]
    /\ shares = [a \in Controllers \cup {Vault} |->
                    IF a = Vault THEN GenesisAssets * VIRTUAL_SHARES ELSE 0]
    /\ asset = [vault |-> GenesisAssets, sink |-> 0, received |-> 0]
    /\ contributed = GenesisAssets

CrossInit == GenesisVault /\ Hub!HubInit /\ Leg!LegInit

-----------------------------------------------------------------------------
(* Transports *)

\* A relay hands the leg the next control message.
RelayControl ==
    /\ \E seq \in DOMAIN control : Leg!LegConsumes(control[seq], seq)
    /\ UNCHANGED evmVars

\* A relay hands the coordinator the next message of the leg.
RelayOutbound ==
    /\ \E seq \in DOMAIN outbound : Hub!HubConsumes(outbound[seq], seq)
    /\ UNCHANGED solanaVars

AssetsReachLeg ==
    /\ \E n \in Amounts : /\ tokens.arrived + n <= asset.sink
                          /\ Leg!assets_arrive(n)
    /\ UNCHANGED evmVars

AssetsReachVault ==
    /\ \E n \in Amounts : /\ asset.received + n <= tokens.escrow
                          /\ Hub!assetsReceived(n)
    /\ UNCHANGED << cycle, inbound, recallBaseline, lastImpairedSequence,
                    usedTransferIds, control, solanaVars >>

-----------------------------------------------------------------------------
(* The two sides on their own *)

VaultMoves ==
    /\ Hub!VaultMoves
    /\ UNCHANGED << cycle, inbound, recallBaseline, lastImpairedSequence,
                    usedTransferIds, control, solanaVars >>

CoordinatorPublishes == Hub!Publishes /\ UNCHANGED solanaVars

LegMoves == Leg!LegMoves /\ UNCHANGED evmVars

\* Anyone may publish a report, for any epoch.
LegReports ==
    /\ \E e \in ReportEpochs :
           Leg!publish_remote_report(e, IF epoch.due THEN epoch.id + 1 ELSE epoch.id)
    /\ UNCHANGED evmVars

CrossNext ==
    \/ CoordinatorPublishes
    \/ VaultMoves
    \/ LegMoves
    \/ LegReports
    \/ RelayControl
    \/ RelayOutbound
    \/ AssetsReachLeg
    \/ AssetsReachVault

CrossSpec == CrossInit /\ [][CrossNext]_crossVars

-----------------------------------------------------------------------------
(* Properties *)

\* When the coordinator has no open cycle, neither has the leg, and the two
\* chains agree on everything they keep twice: remote principal, its value, the
\* impairment pool and the allocation it names, and the realized loss.
ChainsAgree ==
    cycle.kind = "None" =>
        /\ ~Leg!has_active_transfer(position)
        /\ buckets.remotePrincipalCap = Leg!accepted_principal(position)
        /\ buckets.acceptedRemoteValue = buckets.remotePrincipalCap
        /\ buckets.impairedTransport = ledger.impaired_outstanding
        /\ buckets.impairedTransport # 0 =>
               lastImpairedSequence = ledger.last_impaired_sequence
        /\ buckets.recognizedLoss = position.cumulative_realized_loss
        /\ inbound.cumulativeLoss = position.cumulative_realized_loss

\* Tokens that came back, or stand for a notice that they will, are attributed to
\* idle backing whatever the order of the notice and the arrivals: no returned
\* token is left unattributed once the recall has settled.
ReturnsAttributed ==
    /\ buckets.unattributedBalance = 0
    /\ cycle.kind # "Recall" => buckets.unattributedInbound = 0
    /\ cycle.kind = "None" =>
         asset.vault - Hub!accountedAssets(buckets) <= buckets.inboundInTransit

\* NAV and impairment together are backed by tokens: in the vault, in custody, in
\* the adapter, or in flight.  Only a loss the recall in progress has realized
\* and not yet settled is missing, so a loss is counted once.
BackedByAssets ==
    LET held == (asset.vault - buckets.pendingDepositEscrow - buckets.claimReserve)
                    + tokens.custody + tokens.adapter_principal
        in_flight == (asset.sink - tokens.arrived) + (tokens.escrow - asset.received)
        claimed == buckets.idleBacking + buckets.outboundInTransit
                    + buckets.remotePrincipalCap + buckets.inboundInTransit
                    + buckets.impairedTransport
    IN  /\ claimed = held + in_flight
                        + (position.cumulative_realized_loss - buckets.recognizedLoss)
        /\ cycle.kind # "Recall" =>
               position.cumulative_realized_loss = buckets.recognizedLoss

\* With the guardian signing on a frozen leg, the next control message is refused
\* only while the leg's clock is behind the published_at the administrator gave
\* it (check_published): from then on, fresh or expired, it can be consumed in
\* every state, and the lane waits for nothing else.
ControlLaneMoves ==
    \A seq \in DOMAIN control :
        seq = control_lane.highest_consumed_sequence + 1 =>
            \A now \in Leg!Clock :
                LET m == control[seq]
                IN  Leg!check_published(now) <=>
                    ENABLED ( \/ Leg!handle_allocate(m, seq, now)
                              \/ Leg!handle_recall(m, seq, now, TRUE)
                              \/ Leg!handle_resolve(m, seq, now, TRUE)
                              \/ Leg!close(m, seq, now, TRUE)
                              \/ Leg!recover(m, seq, now, TRUE) )

\* The next message of the leg can always be consumed, fresh or expired: no
\* notice, settlement or report the leg publishes is refused by the coordinator.
OutboundLaneMoves ==
    \A seq \in DOMAIN outbound :
        seq = inbound.expectedSequence =>
            \A expired \in BOOLEAN :
                LET m == outbound[seq]
                IN  ENABLED ( \/ Hub!processRemoteReport(m, seq, expired)
                              \/ Hub!processRecallSent(m, seq)
                              \/ Hub!processTransportSettlement(m, seq) )

-----------------------------------------------------------------------------
(* Progress.  Relays deliver, the guardian signs, the administrator closes an *)
(* overdue allocation and admits a quarantined recall, and some account keeps *)
(* unwinding the recall at the leg.  A delivery presumes that the leg's clock *)
(* has reached the message's published_at, and an unwinding step that the     *)
(* adapter grants some withdrawal.  Nothing is assumed of the asset           *)
(* transport, of reports, or of when a message is relayed: it may be expired. *)

AdministratorCloses == Hub!close /\ UNCHANGED solanaVars

AdministratorAdmitsRecall ==
    /\ cycle.kind = "Recall"
    /\ position.active_transfer_status = "Quarantined"
    /\ Len(control) = control_lane.highest_consumed_sequence
    /\ Hub!admit
    /\ UNCHANGED solanaVars

LegUnwindsRecall ==
    /\ \E id \in TransferIds, n \in Amounts :
           \/ \E returned \in 0..n : Leg!withdraw_for_recall(id, n, n, returned)
           \/ Leg!send_recall_assets(id, n)
           \/ Leg!publish_recall_sent(id)
    /\ UNCHANGED evmVars

CrossFairSpec ==
    /\ CrossSpec
    /\ WF_crossVars(RelayControl)
    /\ WF_crossVars(RelayOutbound)
    /\ WF_crossVars(AdministratorCloses)
    /\ WF_crossVars(AdministratorAdmitsRecall)
    /\ WF_crossVars(LegUnwindsRecall)

CanPublish == Len(control) < MaxSequence

\* An allocation always ends, by completion or by a settled close, even when its
\* assets never arrive, its message expires or the leg is frozen.  (Or the model
\* has no control message left for the close.)
AllocationEnds ==
    \A id \in TransferIds :
        (cycle.kind = "Allocate" /\ cycle.id = id)
            ~> (cycle.id # id \/ (~CanPublish /\ ~cycle.closeRequested))

\* A recovery always ends, crediting whatever has arrived by then.
RecoveryEnds ==
    \A id \in TransferIds :
        (cycle.kind = "Recover" /\ cycle.id = id) ~> (cycle.id # id)

\* A recall always ends, given that the adapter grants withdrawals and the leg can
\* send and publish, unless every admission the model has room for expired.
RecallEnds ==
    \A id \in TransferIds :
        (cycle.kind = "Recall" /\ cycle.id = id)
            ~> (cycle.id # id \/ (~CanPublish /\ position.active_transfer_status = "Quarantined"))
=============================================================================
