----------------------------- MODULE RemoteLeg -----------------------------
(***************************************************************************)
(* The Solana remote leg (programs/solevm-remote-leg): the program that    *)
(* holds the custody token account, deploys principal into the strategy    *)
(* adapter and executes the vault's ordered control messages.              *)
(*                                                                         *)
(* One action per instruction.  A handler that returns an error changes    *)
(* nothing on Solana, so every require! that precedes the first effect is  *)
(* a conjunct of the action.  The checks a handler repeats on its RESULT   *)
(* (custody::check_identity, custody::check_deployed, check_balanced, the  *)
(* checked_sub of a bucket) are not guards here: the invariants below say  *)
(* that they never fire, and RemoteLegProofs proves it.                    *)
(*                                                                         *)
(* A control message reaches an action as the pair (m, seq).  In this      *)
(* module m is ANY well-formed message, so what is proved of the leg does  *)
(* not depend on the vault being right; CrossChain restricts m to what the *)
(* coordinator published under that sequence.  The hash chain of the lane  *)
(* is abstracted: sharing the previous commitment means sharing the whole  *)
(* prefix, so "the next message of the lane" is all that it leaves.        *)
(***************************************************************************)
EXTENDS Protocol, FiniteSetsExt

CONSTANTS
    MAX_REMOTE_PRINCIPAL,   \* StrategyConfig.max_remote_principal
    WATERMARK_LAG,          \* ReplayLane.mandatory_watermark_lag
    GuardianSigns,          \* {TRUE, FALSE}, or {FALSE} without a guardian
    MaxReports,             \* bound: messages published before the last report
    MaxArrivals             \* bound: tokens that ever reach custody

ASSUME LegAssumption ==
    /\ MAX_REMOTE_PRINCIPAL \in Nat
    /\ WATERMARK_LAG \in Nat
    /\ GuardianSigns \subseteq BOOLEAN
    /\ MaxReports \in Nat
    /\ MaxArrivals \in Nat

VARIABLES
    position,         \* the RemotePosition account
    transfers,        \* the TransferRecord accounts, by transfer id
    ledger,           \* the TransportLedger account
    control_lane,     \* the inbound ReplayLane account
    consumed,         \* sequences that have a ConsumedMessage account
    config,           \* RemoteConfig: frozen, config_version
    outbound,         \* messages published on the outbound lane, in order
    recall_markers,   \* transfers that have a RecallSentMarker account
    tokens            \* token balances: custody, escrow, the adapter's principal

legVars == << position, transfers, ledger, control_lane, consumed, config,
              outbound, recall_markers, tokens >>

-----------------------------------------------------------------------------
(* Accounts *)

TransferKind == {"None", "Allocate", "Recall", "Recover"}

TransferStatus == {"None", "Pending", "Complete", "Quarantined", "Closed"}

RemotePosition ==
    [ attributed_principal : Nat,
      deployed_principal : Nat,
      recalled_custody : Nat,
      unattributed_custody : Nat,
      cumulative_realized_loss : Nat,
      active_transfer_id : TransferIds \cup {NoTransfer},
      active_transfer_kind : {"None", "Allocate", "Recall"},
      active_transfer_sequence : Nat,
      active_transfer_status : {"None", "Pending", "Quarantined"},
      latest_completed_transfer_id : TransferIds \cup {NoTransfer} ]

TransferRecord ==
    [ transfer_kind : TransferKind,
      status : TransferStatus,
      message_sequence : Nat,
      authorized_amount : Nat,
      attributed_amount : Nat,
      requested_recall_amount : Nat,
      custody_principal_reserved : Nat,
      strategy_principal_resolved : Nat,
      assets_withdrawn : Nat,
      assets_sent : Nat,
      realized_loss : Nat ]

TransportLedger ==
    [ exists : BOOLEAN,
      impaired_outstanding : Nat,
      cumulative_closed_claim : Nat,
      cumulative_closed_credit : Nat,
      cumulative_recovered : Nat,
      last_impaired_sequence : Nat ]

NoRecord ==
    [ transfer_kind |-> "None", status |-> "None", message_sequence |-> 0,
      authorized_amount |-> 0, attributed_amount |-> 0,
      requested_recall_amount |-> 0, custody_principal_reserved |-> 0,
      strategy_principal_resolved |-> 0, assets_withdrawn |-> 0,
      assets_sent |-> 0, realized_loss |-> 0 ]

new_allocation(seq, amount) ==
    [ NoRecord EXCEPT !.transfer_kind = "Allocate", !.status = "Pending",
                      !.message_sequence = seq, !.authorized_amount = amount ]

new_recall(seq, amount) ==
    [ NoRecord EXCEPT !.transfer_kind = "Recall", !.status = "Pending",
                      !.message_sequence = seq, !.requested_recall_amount = amount ]

\* Mutant: the recovery's record does not keep what it credited.
new_recovery_uncredited(seq, credited) ==
    [ NoRecord EXCEPT !.transfer_kind = "Recover", !.status = "Complete",
                      !.message_sequence = seq ]

new_recovery(seq, credited) ==
    [ NoRecord EXCEPT !.transfer_kind = "Recover", !.status = "Complete",
                      !.message_sequence = seq, !.authorized_amount = credited,
                      !.attributed_amount = credited ]

\* records::check_available: the record's address holds no account yet.
check_available(id) == transfers[id] = NoRecord

-----------------------------------------------------------------------------
(* RemotePosition and TransferRecord methods *)

has_active_transfer(p) == p.active_transfer_kind # "None"

accounted_custody(p) ==
    p.attributed_principal + p.recalled_custody + p.unattributed_custody

accepted_principal(p) == p.attributed_principal + p.deployed_principal

committed_principal(p) == accepted_principal(p) + p.recalled_custody

\* Mutant: the new amount is left out of the ceiling check.
allocation_fits_without_amount(p, amount) == accepted_principal(p) <= MAX_REMOTE_PRINCIPAL

allocation_fits(p, amount) ==
    accepted_principal(p) + amount <= MAX_REMOTE_PRINCIPAL

open_transfer(p, kind, id, seq, status) ==
    [ p EXCEPT !.active_transfer_kind = kind, !.active_transfer_id = id,
               !.active_transfer_sequence = seq, !.active_transfer_status = status ]

close_transfer(p) == open_transfer(p, "None", NoTransfer, 0, "None")

\* Mutant: a completed transfer stays the open one.
complete_transfer_left_open(p, id) == [ p EXCEPT !.latest_completed_transfer_id = id ]

complete_transfer(p, id) ==
    [ close_transfer(p) EXCEPT !.latest_completed_transfer_id = id ]

holds_quarantined(p, id, seq) ==
    /\ has_active_transfer(p)
    /\ p.active_transfer_status = "Quarantined"
    /\ p.active_transfer_id = id
    /\ p.active_transfer_sequence = seq

holds_allocation(p, id, seq) ==
    /\ p.active_transfer_kind = "Allocate"
    /\ p.active_transfer_id = id
    /\ p.active_transfer_sequence = seq

check_active(id, kind) ==
    /\ transfers[id].transfer_kind = kind
    /\ transfers[id].status = "Pending"
    /\ position.active_transfer_kind = kind
    /\ position.active_transfer_id = id

outstanding_allocation(r) == r.authorized_amount - r.attributed_amount

unresolved_recall_principal(r) ==
    r.requested_recall_amount
        - (r.custody_principal_reserved + r.strategy_principal_resolved)

\* Mutant: reserves the request without the limit of what is attributed.
recall_reservation_unlimited(r, p) == r.requested_recall_amount

\* The attributed custody a recall can already cover.
recall_reservation(r, p) ==
    MinOf(r.requested_recall_amount, p.attributed_principal)

\* Mutant: the record does not keep what it reserved.
reserve_in_record_dropped(r, p) == r

reserve_in_record(r, p) ==
    [ r EXCEPT !.custody_principal_reserved = recall_reservation(r, p) ]

reserve_in_position(r, p) ==
    [ p EXCEPT !.attributed_principal = @ - recall_reservation(r, p),
               !.recalled_custody = @ + recall_reservation(r, p) ]

\* Mutant: a loss does not count towards the recall.
recall_settled_without_loss(r) == r.assets_sent = r.requested_recall_amount

recall_settled(r) == r.assets_sent + r.realized_loss = r.requested_recall_amount

\* settle_recall completes record r and position p together, or neither.
settle_recall(id, r, p) ==
    IF recall_settled(r)
    THEN /\ transfers' = [transfers EXCEPT ![id] = [r EXCEPT !.status = "Complete"]]
         /\ position' = complete_transfer(p, id)
    ELSE /\ transfers' = [transfers EXCEPT ![id] = r]
         /\ position' = p

-----------------------------------------------------------------------------
(* custody.rs: a surplus becomes unattributed, a deficit is an error. *)

can_reconcile == tokens.custody >= accounted_custody(position)

reconciled ==
    [ position EXCEPT !.unattributed_custody =
                          @ + (tokens.custody - accounted_custody(position)) ]

\* Mutant: credits principal and leaves it unattributed as well.
attribute_twice(p, n) == [ p EXCEPT !.attributed_principal = @ + n ]

\* Moves n unattributed tokens of position p into attributed principal.
attribute(p, n) ==
    [ p EXCEPT !.unattributed_custody = @ - n, !.attributed_principal = @ + n ]

check_deployed == tokens.adapter_principal = position.deployed_principal

-----------------------------------------------------------------------------
(* message.rs and records.rs: the ordered control lane *)

\* What the leg's clock says of one message.  The codec orders published_at and
\* expires_at, so a message not yet published has not expired either.
Clock == {"Unpublished", "Fresh", "Expired"}

check_published(now) == now # "Unpublished"

is_fresh(now) == now # "Expired"

\* Every rule on the envelope but expiry, and a free ConsumedMessage address.  A
\* message stamped ahead of the leg's clock is refused, and the lane waits.
validate_inbound(m, seq, now) ==
    /\ check_published(now)
    /\ seq = control_lane.highest_consumed_sequence + 1
    /\ seq >= control_lane.minimum_acceptable_sequence
    /\ seq \notin consumed
    /\ well_formed(m, seq)

\* The consumed record and the lane advance every handler ends with.
consume(seq) ==
    /\ control_lane' = [control_lane EXCEPT !.highest_consumed_sequence = seq]
    /\ consumed' = consumed \cup {seq}

\* Mutant: a frozen leg does not ask for the guardian.
cosigned_never_asked(guardian) == TRUE

cosigned(guardian) == ~config.frozen \/ guardian

LegInit ==
    /\ position =
         [ attributed_principal |-> 0, deployed_principal |-> 0,
           recalled_custody |-> 0, unattributed_custody |-> 0,
           cumulative_realized_loss |-> 0,
           active_transfer_id |-> NoTransfer, active_transfer_kind |-> "None",
           active_transfer_sequence |-> 0, active_transfer_status |-> "None",
           latest_completed_transfer_id |-> NoTransfer ]
    /\ transfers = [id \in TransferIds |-> NoRecord]
    /\ ledger =
         [ exists |-> FALSE, impaired_outstanding |-> 0,
           cumulative_closed_claim |-> 0, cumulative_closed_credit |-> 0,
           cumulative_recovered |-> 0, last_impaired_sequence |-> 0 ]
    /\ control_lane =
         [ minimum_acceptable_sequence |-> 1, highest_consumed_sequence |-> 0 ]
    /\ consumed = {}
    /\ config = [ frozen |-> FALSE, config_version |-> InitialVersion ]
    /\ outbound = << >>
    /\ recall_markers = {}
    /\ tokens =
         [ custody |-> 0, escrow |-> 0, adapter_principal |-> 0, arrived |-> 0 ]

-----------------------------------------------------------------------------
(* Control messages *)

\* An expired, frozen-out or oversized allocation is consumed in quarantine.
handle_allocate(m, seq, now) ==
    LET id == m.transfer_id
        status == IF is_fresh(now) /\ ~config.frozen /\ allocation_fits(position, m.amount)
                  THEN "Pending" ELSE "Quarantined"
    IN  /\ m.type = "Allocate"
        /\ validate_inbound(m, seq, now)
        /\ m.config_version = config.config_version
        /\ check_available(id)
        /\ ~has_active_transfer(position)
        /\ transfers' = [transfers EXCEPT ![id] =
                [new_allocation(seq, m.amount) EXCEPT !.status = status]]
        /\ position' = open_transfer(position, "Allocate", id, seq, status)
        /\ consume(seq)
        /\ UNCHANGED << ledger, config, outbound, recall_markers, tokens >>

\* A fresh recall reserves the custody it can already take; an expired one is
\* consumed in quarantine and reserves nothing.
handle_recall(m, seq, now, guardian) ==
    LET id == m.transfer_id
        r == new_recall(seq, m.amount)
    IN  /\ m.type = "Recall"
        /\ cosigned(guardian)
        /\ validate_inbound(m, seq, now)
        /\ m.config_version = config.config_version
        /\ check_available(id)
        /\ ~has_active_transfer(position)
        /\ \/ /\ is_fresh(now)
              /\ accepted_principal(position) >= m.amount
              /\ transfers' = [transfers EXCEPT ![id] = reserve_in_record(r, position)]
              /\ position' = open_transfer(reserve_in_position(r, position),
                                           "Recall", id, seq, "Pending")
           \/ /\ ~is_fresh(now)
              /\ transfers' = [transfers EXCEPT ![id] =
                                  [r EXCEPT !.status = "Quarantined"]]
              /\ position' = open_transfer(position, "Recall", id, seq, "Quarantined")
        /\ consume(seq)
        /\ UNCHANGED << ledger, config, outbound, recall_markers, tokens >>

\* Lets the quarantined transfer id run on its original terms.
admit(id) ==
    LET r == transfers[id]
    IN  \/ /\ r.transfer_kind = "Allocate"
           /\ transfers' = [transfers EXCEPT ![id].status = "Pending"]
           /\ position' = [position EXCEPT !.active_transfer_status = "Pending"]
        \/ /\ r.transfer_kind = "Recall"
           /\ transfers' = [transfers EXCEPT ![id] =
                  [reserve_in_record(r, position) EXCEPT !.status = "Pending"]]
           /\ position' = [reserve_in_position(r, position) EXCEPT
                              !.active_transfer_status = "Pending"]

\* The original terms of a quarantined transfer hold again.
admissible(r) ==
    \/ r.transfer_kind = "Allocate" /\ allocation_fits(position, r.authorized_amount)
    \/ /\ r.transfer_kind = "Recall"
       /\ accepted_principal(position) >= r.requested_recall_amount

\* process_resolve: an admission is consumed whatever it finds; it takes effect
\* only when it is fresh, names the quarantined cycle and the terms still hold.
handle_resolve(m, seq, now, guardian) ==
    LET id == m.transfer_id
        held == holds_quarantined(position, id, m.target_sequence)
        takes_effect == is_fresh(now) /\ held /\ admissible(transfers[id])
    IN  /\ m.type = "Admit"
        /\ validate_inbound(m, seq, now)
        /\ m.config_version = config.config_version
        /\ \/ /\ takes_effect
              /\ cosigned(guardian)
              /\ admit(id)
           \/ /\ ~takes_effect
              /\ UNCHANGED << position, transfers >>
        /\ consume(seq)
        /\ UNCHANGED << ledger, config, outbound, recall_markers, tokens >>

\* What process_settlement publishes in the same instruction.
transport_settlement(id, kind, claim, credited, impaired) ==
    [ type |-> "TransportSettlement", transfer_id |-> id, kind |-> kind,
      claim_amount |-> claim, credited_amount |-> credited,
      impaired_outstanding |-> impaired, config_version |-> config.config_version ]

\* Mutant: the whole claim is impaired, the credited part included.
record_close_whole_claim(claim, credited, seq) ==
    [ ledger EXCEPT
        !.exists = TRUE,
        !.cumulative_closed_claim = @ + claim,
        !.cumulative_closed_credit = @ + credited,
        !.impaired_outstanding = @ + claim,
        !.last_impaired_sequence = IF claim > credited THEN seq ELSE @ ]

record_close(claim, credited, seq) ==
    [ ledger EXCEPT
        !.exists = TRUE,
        !.cumulative_closed_claim = @ + claim,
        !.cumulative_closed_credit = @ + credited,
        !.impaired_outstanding = @ + (claim - credited),
        !.last_impaired_sequence = IF claim > credited THEN seq ELSE @ ]

\* Closes record r (after its last attribution) and publishes the settlement.
settle_close(id, r) ==
    LET l == record_close(r.authorized_amount, r.attributed_amount, r.message_sequence)
    IN  /\ transfers' = [transfers EXCEPT ![id] = [r EXCEPT !.status = "Closed"]]
        /\ ledger' = l
        /\ outbound' = Append(outbound, transport_settlement(id, "Closed",
               r.authorized_amount, r.attributed_amount, l.impaired_outstanding))

\* process_settlement, Close: a pending allocation takes what already arrived,
\* a quarantined one takes nothing, a completed one settles in full.
close(m, seq, now, guardian) ==
    LET id == m.transfer_id
        r == transfers[id]
        held == holds_allocation(position, id, r.message_sequence)
        attributed_now == MinOf(outstanding_allocation(r), reconciled.unattributed_custody)
    IN  /\ m.type = "Close"
        /\ validate_inbound(m, seq, now)
        /\ m.config_version = config.config_version
        /\ cosigned(guardian)
        /\ r.transfer_kind = "Allocate"
        /\ r.message_sequence = m.target_sequence
        /\ \/ /\ r.status = "Pending"
              /\ held /\ position.active_transfer_status = "Pending"
              /\ can_reconcile
              /\ position' = close_transfer(attribute(reconciled, attributed_now))
              /\ settle_close(id, [r EXCEPT !.attributed_amount = @ + attributed_now])
           \/ /\ r.status = "Quarantined"
              /\ held /\ position.active_transfer_status = "Quarantined"
              /\ r.attributed_amount = 0
              /\ position' = close_transfer(position)
              /\ settle_close(id, r)
           \/ /\ r.status = "Complete"
              /\ ~has_active_transfer(position)
              /\ position.latest_completed_transfer_id = id
              /\ r.attributed_amount = r.authorized_amount
              /\ position' = position
              /\ settle_close(id, r)
        /\ consume(seq)
        /\ UNCHANGED << config, recall_markers, tokens >>

\* process_settlement, Recover: credits unattributed custody against the
\* pooled impairment, within the pool and within the principal ceiling.
recover(m, seq, now, guardian) ==
    LET id == m.transfer_id
        headroom == SaturatingSub(MAX_REMOTE_PRINCIPAL, committed_principal(reconciled))
        credited == MinOf(MinOf(reconciled.unattributed_custody,
                                ledger.impaired_outstanding), headroom)
        l == [ ledger EXCEPT !.impaired_outstanding = @ - credited,
                             !.cumulative_recovered = @ + credited ]
    IN  /\ m.type = "Recover"
        /\ validate_inbound(m, seq, now)
        /\ m.config_version = config.config_version
        /\ cosigned(guardian)
        /\ ledger.exists
        /\ ledger.impaired_outstanding > 0
        /\ m.target_sequence = ledger.last_impaired_sequence
        /\ ~has_active_transfer(position)
        /\ check_available(id)
        /\ can_reconcile
        /\ position' = attribute(reconciled, credited)
        /\ ledger' = l
        /\ transfers' = [transfers EXCEPT ![id] = new_recovery(seq, credited)]
        /\ outbound' = Append(outbound, transport_settlement(id, "Recovered",
               ledger.impaired_outstanding, credited, l.impaired_outstanding))
        /\ consume(seq)
        /\ UNCHANGED << config, recall_markers, tokens >>

\* The risk limits themselves bind nothing in the leg, so only the version is
\* kept; RiskConfig::check_parameters repeats rules the codec has applied to every
\* well-formed update.  effective: the clock has reached the update's
\* effective_timestamp, which the codec puts no earlier than its publication and
\* relates in no way to its expiry.  An expired update is consumed without effect.
handle_config_update(m, seq, now, effective) ==
    /\ m.type = "ConfigUpdate"
    /\ ~config.frozen
    /\ validate_inbound(m, seq, now)
    /\ \/ /\ is_fresh(now)
          /\ m.previous_config_version = config.config_version
          /\ m.config_version > config.config_version
          /\ effective
          /\ config' = [config EXCEPT !.config_version = m.config_version]
       \/ /\ ~is_fresh(now)
          /\ UNCHANGED config
    /\ consume(seq)
    /\ UNCHANGED << position, transfers, ledger, outbound, recall_markers, tokens >>

-----------------------------------------------------------------------------
(* Unordered instructions.  Anyone may call the ones without a guardian or *)
(* an administrator; an account they take is the parameter id.             *)

attribute_allocation(id, guardian) ==
    LET attributed_now == MinOf(outstanding_allocation(transfers[id]),
                                reconciled.unattributed_custody)
        r == [transfers[id] EXCEPT !.attributed_amount = @ + attributed_now]
        p == attribute(reconciled, attributed_now)
    IN  /\ cosigned(guardian)
        /\ check_active(id, "Allocate")
        /\ can_reconcile
        /\ attributed_now # 0
        /\ IF r.attributed_amount = r.authorized_amount
           THEN /\ transfers' = [transfers EXCEPT ![id] = [r EXCEPT !.status = "Complete"]]
                /\ position' = complete_transfer(p, id)
           ELSE /\ transfers' = [transfers EXCEPT ![id] = r]
                /\ position' = p
        /\ UNCHANGED << ledger, control_lane, consumed, config, outbound,
                        recall_markers, tokens >>

\* The receipt the authorization verifier spent just before names exactly this
\* amount and the deployment context read here.
authorized(receipt, amount) ==
    /\ receipt.amount = amount
    /\ receipt.config_version = config.config_version
    /\ receipt.deployed_principal = position.deployed_principal

deploy_to_strategy(amount, receipt) ==
    /\ ~config.frozen
    /\ can_reconcile
    /\ amount # 0
    /\ amount <= position.attributed_principal
    /\ check_deployed
    /\ authorized(receipt, amount)
    /\ position' = [reconciled EXCEPT !.attributed_principal = @ - amount,
                                      !.deployed_principal = @ + amount]
    /\ tokens' = [tokens EXCEPT !.custody = @ - amount,
                                !.adapter_principal = @ + amount]
    /\ UNCHANGED << transfers, ledger, control_lane, consumed, config, outbound,
                    recall_markers >>

\* Mutant: the loss of a withdrawal is not recorded.
realized_loss_dropped(reduction, returned) == 0

\* The part of a principal reduction that did not come back.
realized_loss_of(reduction, returned) == reduction - returned

\* The adapter answers a request with any reduction within it and returns at
\* most the reduction; the difference is the realized loss.
withdraw_for_recall(id, maximum, reduction, returned) ==
    LET request == MinOf(MinOf(maximum, unresolved_recall_principal(transfers[id])),
                         position.deployed_principal)
        loss == realized_loss_of(reduction, returned)
        r == [ transfers[id] EXCEPT !.strategy_principal_resolved = @ + reduction,
                                    !.assets_withdrawn = @ + returned,
                                    !.realized_loss = @ + loss ]
        p == [ reconciled EXCEPT !.deployed_principal = @ - reduction,
                                 !.recalled_custody = @ + returned,
                                 !.cumulative_realized_loss = @ + loss ]
    IN  /\ check_active(id, "Recall")
        /\ can_reconcile
        /\ check_deployed
        /\ reduction \in 1..request
        /\ returned \in 0..reduction
        /\ settle_recall(id, r, p)
        /\ tokens' = [tokens EXCEPT !.custody = @ + returned,
                                    !.adapter_principal = @ - reduction]
        /\ UNCHANGED << ledger, control_lane, consumed, config, outbound,
                        recall_markers >>

send_recall_assets(id, maximum) ==
    LET amount == MinOf(maximum, position.recalled_custody)
        r == [transfers[id] EXCEPT !.assets_sent = @ + amount]
        p == [reconciled EXCEPT !.recalled_custody = @ - amount]
    IN  /\ check_active(id, "Recall")
        /\ can_reconcile
        /\ amount # 0
        /\ settle_recall(id, r, p)
        /\ tokens' = [tokens EXCEPT !.custody = @ - amount, !.escrow = @ + amount]
        /\ UNCHANGED << ledger, control_lane, consumed, config, outbound,
                        recall_markers >>

reconcile_custody ==
    /\ can_reconcile
    /\ position' = reconciled
    /\ UNCHANGED << transfers, ledger, control_lane, consumed, config, outbound,
                    recall_markers, tokens >>

freeze ==
    /\ ~config.frozen
    /\ config' = [config EXCEPT !.frozen = TRUE]
    /\ UNCHANGED << position, transfers, ledger, control_lane, consumed, outbound,
                    recall_markers, tokens >>

\* Mutant: the watermark ignores the open transfer.
check_obligation_skipped(new_minimum) == TRUE

\* The watermark may reach the open transfer's sequence but never pass it.
check_obligation(new_minimum) ==
    has_active_transfer(position) => position.active_transfer_sequence >= new_minimum

advance_replay_watermark(new_minimum) ==
    /\ new_minimum > control_lane.minimum_acceptable_sequence
    /\ control_lane.highest_consumed_sequence >= new_minimum + WATERMARK_LAG
    /\ check_obligation(new_minimum)
    /\ control_lane' = [control_lane EXCEPT !.minimum_acceptable_sequence = new_minimum]
    /\ UNCHANGED << position, transfers, ledger, consumed, config, outbound,
                    recall_markers, tokens >>

close_consumed_message(seq) ==
    /\ seq \in consumed
    /\ control_lane.minimum_acceptable_sequence > seq
    /\ consumed' = consumed \ {seq}
    /\ UNCHANGED << position, transfers, ledger, control_lane, config, outbound,
                    recall_markers, tokens >>

\* Attribution the open allocation received but has not settled.
in_flight_attribution ==
    IF position.active_transfer_kind = "Allocate"
    THEN transfers[position.active_transfer_id].attributed_amount
    ELSE 0

publish_remote_report(epoch, observed_at) ==
    /\ Len(outbound) < MaxReports
    /\ can_reconcile
    /\ check_deployed
    /\ position' = reconciled
    /\ outbound' = Append(outbound,
         [ type |-> "RemoteReport",
           epoch_id |-> epoch,
           observed_at |-> observed_at,
           reported_value |-> SaturatingSub(committed_principal(position),
                                            in_flight_attribution),
           realized_loss |-> position.cumulative_realized_loss,
           latest_completed_transfer_id |-> position.latest_completed_transfer_id,
           config_version |-> config.config_version ])
    /\ UNCHANGED << transfers, ledger, control_lane, consumed, config,
                    recall_markers, tokens >>

\* Mutant: the marker of an earlier notice is not looked at.
check_unpublished_skipped(id) == TRUE

check_unpublished(id) == id \notin recall_markers

publish_recall_sent(id) ==
    LET r == transfers[id]
    IN  /\ r.transfer_kind = "Recall"
        /\ r.status = "Complete"
        /\ recall_settled(r)
        /\ check_unpublished(id)
        /\ recall_markers' = recall_markers \cup {id}
        /\ outbound' = Append(outbound,
             [ type |-> "RecallSent",
               transfer_id |-> id,
               principal_sent |-> r.requested_recall_amount,
               actual_amount_sent |-> r.assets_sent,
               realized_loss |-> r.realized_loss,
               config_version |-> config.config_version ])
        /\ UNCHANGED << position, transfers, ledger, control_lane, consumed, config,
                        tokens >>

\* The asset transport, or anyone else, moves n tokens into custody.
assets_arrive(n) ==
    /\ tokens.arrived + n <= MaxArrivals
    /\ tokens' = [tokens EXCEPT !.custody = @ + n, !.arrived = @ + n]
    /\ UNCHANGED << position, transfers, ledger, control_lane, consumed, config,
                    outbound, recall_markers >>

-----------------------------------------------------------------------------
(* Next-state relation *)

\* The transport verifier submits m as sequence seq of the control lane.  (Every
\* handler validates; saying so here first spares TLC the messages none accepts.)
LegConsumes(m, seq) ==
    \E now \in Clock :
        /\ validate_inbound(m, seq, now)
        /\ \E guardian \in GuardianSigns :
               \/ handle_allocate(m, seq, now)
               \/ handle_recall(m, seq, now, guardian)
               \/ handle_resolve(m, seq, now, guardian)
               \/ close(m, seq, now, guardian)
               \/ recover(m, seq, now, guardian)
               \/ \E effective \in BOOLEAN : handle_config_update(m, seq, now, effective)

\* The receipt a deployment of this amount would have to present now.
CurrentReceipt(amount) ==
    [ amount |-> amount, config_version |-> config.config_version,
      deployed_principal |-> position.deployed_principal ]

LegMoves ==
    \/ \E id \in TransferIds, guardian \in GuardianSigns :
           attribute_allocation(id, guardian)
    \/ \E amount \in Amounts : deploy_to_strategy(amount, CurrentReceipt(amount))
    \/ \E id \in TransferIds, maximum, reduction \in Amounts :
           \E returned \in 0..reduction :
               withdraw_for_recall(id, maximum, reduction, returned)
    \/ \E id \in TransferIds, maximum \in Amounts : send_recall_assets(id, maximum)
    \/ reconcile_custody
    \/ freeze
    \/ \E n \in 1..MaxSequence : advance_replay_watermark(n)
    \/ \E n \in 1..MaxSequence : close_consumed_message(n)
    \/ \E id \in TransferIds : publish_recall_sent(id)

LegNext ==
    \/ \E m \in ControlMessage, seq \in 1..MaxSequence : LegConsumes(m, seq)
    \/ LegMoves
    \/ \E epoch \in ReportEpochs, observed_at \in 0..(MaxEpoch + 1) :
           publish_remote_report(epoch, observed_at)
    \/ \E n \in Amounts : assets_arrive(n)

LegSpec == LegInit /\ [][LegNext]_legVars

-----------------------------------------------------------------------------
(* Properties *)

\* Every account keeps its type; in particular no bucket of the position or of
\* a record ever goes below zero, so no checked_sub of a handler fails.
LegTypeOK ==
    /\ position \in RemotePosition
    /\ transfers \in [TransferIds -> TransferRecord]
    /\ ledger \in TransportLedger
    /\ control_lane \in [ minimum_acceptable_sequence : Nat,
                          highest_consumed_sequence : Nat ]
    /\ consumed \subseteq Nat
    /\ config \in [ frozen : BOOLEAN, config_version : Versions ]
    /\ outbound \in Seq(OutboundMessage)
    /\ recall_markers \subseteq TransferIds
    /\ tokens \in [ custody : Nat, escrow : Nat, adapter_principal : Nat, arrived : Nat ]

\* The buckets never claim more than the custody account holds, and the leg and
\* the adapter agree on the deployed principal: reconcile never finds a deficit
\* and check_identity and check_deployed never fail (custody.rs).
CustodyIdentity ==
    /\ accounted_custody(position) <= tokens.custody
    /\ position.deployed_principal = tokens.adapter_principal

\* Every token that ever reached custody is still there, deployed, sent to the
\* outbound escrow, or a realized loss, whatever the order of the calls.
TokenConservation ==
    tokens.arrived = tokens.custody + tokens.escrow + tokens.adapter_principal
                        + position.cumulative_realized_loss

\* The record that is pending or quarantined is the one the position names, with
\* the same kind, sequence and status, and there is none when it names none: the
\* two accounts a cycle lives in never disagree (check_active, check_quarantined).
OneOpenTransfer ==
    /\ (position.active_transfer_kind = "None") <=> (position.active_transfer_id = NoTransfer)
    /\ position.active_transfer_kind = "None" => position.active_transfer_status = "None"
    /\ \A id \in TransferIds :
         /\ (transfers[id].status \in {"Pending", "Quarantined"})
                <=> (position.active_transfer_id = id)
         /\ position.active_transfer_id = id =>
                /\ transfers[id].transfer_kind = position.active_transfer_kind
                /\ transfers[id].status = position.active_transfer_status
                /\ transfers[id].message_sequence = position.active_transfer_sequence

\* A recall explains every unit it asked for: what it withdrew or lost is what it
\* resolved, what it holds is the recalled custody, and once complete the assets
\* sent plus the loss are the request and no recalled custody is left behind.
RecallConservation ==
    /\ \A id \in TransferIds :
         LET r == transfers[id]
         IN  r.transfer_kind = "Recall" =>
               /\ r.custody_principal_reserved + r.strategy_principal_resolved
                     <= r.requested_recall_amount
               /\ r.assets_withdrawn + r.realized_loss = r.strategy_principal_resolved
               /\ r.status = "Complete" => recall_settled(r)
               /\ r.status = "Pending" =>
                     r.custody_principal_reserved + r.assets_withdrawn
                        = r.assets_sent + position.recalled_custody
    /\ ~(position.active_transfer_kind = "Recall"
            /\ position.active_transfer_status = "Pending")
         => position.recalled_custody = 0

\* Principal held, owed back, or still to be attributed to the open allocation
\* never exceeds max_remote_principal, although the ceiling is checked only when
\* an allocation arrives or is admitted and when a recovery is credited.
PrincipalCeiling ==
    committed_principal(position)
        + (IF position.active_transfer_kind = "Allocate"
                /\ position.active_transfer_status = "Pending"
           THEN outstanding_allocation(transfers[position.active_transfer_id])
           ELSE 0)
    <= MAX_REMOTE_PRINCIPAL

\* Every closed claim is credited, still impaired or recovered, exactly once
\* (TransportLedger::check_balanced never fails).
LedgerBalanced ==
    ledger.cumulative_closed_credit + ledger.impaired_outstanding
        + ledger.cumulative_recovered = ledger.cumulative_closed_claim

\* Terminal messages are published once per transfer: no transfer has two
\* settlements, two recall notices, or one of each on the outbound lane.
SettledOnce ==
    \A i, j \in DOMAIN outbound :
        /\ outbound[i].type # "RemoteReport"
        /\ outbound[j].type # "RemoteReport"
        /\ outbound[i].transfer_id = outbound[j].transfer_id
        => i = j

\* The replay record of every sequence from the watermark on, and that of the
\* open transfer, are still there: closing records frees only sequences that the
\* lane rejects by number (watermark.rs, close_record.rs).
ReplayCovered ==
    /\ control_lane.minimum_acceptable_sequence \in 1..(control_lane.highest_consumed_sequence + 1)
    /\ control_lane.minimum_acceptable_sequence..control_lane.highest_consumed_sequence
          \subseteq consumed
    /\ consumed \subseteq 1..control_lane.highest_consumed_sequence
    /\ has_active_transfer(position) => position.active_transfer_sequence \in consumed

SumOver(ids, field(_)) == MapThenSumSet(LAMBDA id : field(transfers[id]), ids)

OfStatus(status) == {id \in TransferIds : transfers[id].status = status}

\* The cumulative counters are the sums of the records behind them: principal
\* credited by allocations and recoveries is held, sent or lost; the ledger's
\* claims, the escrow and the loss are those of the records, each counted once.
BooksMatchRecords ==
    /\ SumOver(TransferIds, LAMBDA r : r.attributed_amount)
         = committed_principal(position) + tokens.escrow
              + position.cumulative_realized_loss
    /\ SumOver(TransferIds, LAMBDA r : r.assets_sent) = tokens.escrow
    /\ SumOver(TransferIds, LAMBDA r : r.realized_loss)
         = position.cumulative_realized_loss
    /\ SumOver(OfStatus("Closed"), LAMBDA r : r.authorized_amount)
         = ledger.cumulative_closed_claim

\* While the leg is frozen and the guardian does not sign, no principal is
\* accepted or deployed, nothing settles and no transfer starts to run; a recall
\* that was already running may still unwind (freeze.rs and the co-signed paths).
FrozenWithoutGuardian ==
    [][ config.frozen /\ TRUE \notin GuardianSigns =>
          /\ position'.attributed_principal <= position.attributed_principal
          /\ position'.deployed_principal <= position.deployed_principal
          /\ ledger' = ledger
          /\ position'.active_transfer_status = "Pending" =>
                /\ position.active_transfer_status = "Pending"
                /\ position'.active_transfer_id = position.active_transfer_id
      ]_legVars
=============================================================================
