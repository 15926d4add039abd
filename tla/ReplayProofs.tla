---------------------------- MODULE ReplayProofs ----------------------------
(***************************************************************************)
(* The replay protection of the remote leg's control lane, for every lag   *)
(* of the watermark: ReplayCovered is an invariant of RemoteLeg.           *)
(*                                                                         *)
(* It is not inductive alone.  Closing a replay record asks only that the  *)
(* watermark has passed it, so the open transfer keeps its record because  *)
(* the watermark never passes the open transfer: the second conjunct of    *)
(* ReplayInv, which check_obligation maintains.                            *)
(***************************************************************************)
EXTENDS RemoteLegProofs

\* The watermark has not passed the open transfer (watermark.rs, check_obligation).
WatermarkBehind ==
    has_active_transfer(position) =>
        control_lane.minimum_acceptable_sequence <= position.active_transfer_sequence

\* The inductive invariant of the lane.
ReplayInv == ReplayCovered /\ WatermarkBehind

\* The open cycle of the next state is none or the one of this state.
KeepsOrEnds ==
    \/ ~has_active_transfer(position')
    \/ /\ has_active_transfer(position)
       /\ position'.active_transfer_sequence = position.active_transfer_sequence

-----------------------------------------------------------------------------

\* The two counters of the lane are natural numbers.
LEMMA LaneFields ==
    ASSUME LegInv
    PROVE  /\ control_lane.minimum_acceptable_sequence \in Nat
           /\ control_lane.highest_consumed_sequence \in Nat
           /\ position.active_transfer_sequence \in Nat
  BY PositionFields DEF LegInv, LegTypeOK

\* A step that opens no cycle and leaves the lane and its records alone keeps
\* the replay protection.
LEMMA LaneFrame ==
    ASSUME ReplayInv, KeepsOrEnds, UNCHANGED << control_lane, consumed >>
    PROVE  ReplayInv'
  BY DEF ReplayInv, ReplayCovered, WatermarkBehind, KeepsOrEnds, has_active_transfer

\* Consuming the next sequence keeps it, whether the message opens a cycle under
\* that sequence or opens none.
LEMMA ConsumeReplay ==
    ASSUME LegInv, ReplayInv, NEW seq \in Nat, seq = control_lane.highest_consumed_sequence + 1,
           consume(seq),
           KeepsOrEnds \/ position'.active_transfer_sequence = seq
    PROVE  ReplayInv'
<1> DEFINE low == control_lane.minimum_acceptable_sequence
           high == control_lane.highest_consumed_sequence
<1>0. low \in Nat /\ high \in Nat /\ seq = high + 1
  BY LaneFields
<1>1. /\ control_lane'.minimum_acceptable_sequence = low
      /\ control_lane'.highest_consumed_sequence = seq
      /\ consumed' = consumed \cup {seq}
  BY DEF consume, LegInv, LegTypeOK
<1>2. low \in 1..(high + 1) /\ low..high \subseteq consumed /\ consumed \subseteq 1..high
  BY DEF ReplayInv, ReplayCovered
<1> HIDE DEF low, high
<1>3. low \in 1..(seq + 1) /\ low..seq \subseteq consumed' /\ consumed' \subseteq 1..seq
  BY <1>0, <1>1, <1>2
<1>4. has_active_transfer(position)' =>
          /\ position'.active_transfer_sequence \in consumed'
          /\ low <= position'.active_transfer_sequence
  <2>1. CASE position'.active_transfer_sequence = seq
    BY <1>0, <1>1, <1>2, <2>1
  <2>2. CASE KeepsOrEnds
    BY <1>1, <2>2 DEF ReplayInv, ReplayCovered, WatermarkBehind, KeepsOrEnds, low,
                      has_active_transfer
  <2> QED
    BY <2>1, <2>2
<1> QED
  BY <1>1, <1>3, <1>4 DEF ReplayInv, ReplayCovered, WatermarkBehind

\* The watermark stops at the open transfer and below the consumed sequences.
LEMMA WatermarkReplay ==
    ASSUME LegInv, ReplayInv, NEW n \in 1..MaxSequence, advance_replay_watermark(n)
    PROVE  ReplayInv'
<1> DEFINE low == control_lane.minimum_acceptable_sequence
           high == control_lane.highest_consumed_sequence
<1>0. low \in Nat /\ high \in Nat /\ n \in Nat /\ n >= 1 /\ low < n /\ n <= high
  BY LaneFields, LegAssumption, ProtocolAssumption DEF advance_replay_watermark
<1>1. /\ control_lane'.minimum_acceptable_sequence = n
      /\ control_lane'.highest_consumed_sequence = high
      /\ consumed' = consumed /\ position' = position
  BY DEF advance_replay_watermark, LegInv, LegTypeOK
<1>2. low..high \subseteq consumed /\ consumed \subseteq 1..high
  BY DEF ReplayInv, ReplayCovered
<1>3. has_active_transfer(position) =>
          /\ position.active_transfer_sequence \in consumed
          /\ n <= position.active_transfer_sequence
  BY <1>0, LaneFields DEF ReplayInv, ReplayCovered, advance_replay_watermark, check_obligation
<1> HIDE DEF low, high
<1>4. n \in 1..(high + 1) /\ n..high \subseteq consumed
  BY <1>0, <1>2
<1> QED
  BY <1>1, <1>2, <1>3, <1>4 DEF ReplayInv, ReplayCovered, WatermarkBehind, has_active_transfer

\* A replay record that may be closed lies below the watermark.
LEMMA CloseRecordReplay ==
    ASSUME LegInv, ReplayInv, NEW n \in 1..MaxSequence, close_consumed_message(n)
    PROVE  ReplayInv'
<1> DEFINE low == control_lane.minimum_acceptable_sequence
           high == control_lane.highest_consumed_sequence
<1>0. /\ low \in Nat /\ high \in Nat /\ n \in Nat /\ n < low
      /\ position.active_transfer_sequence \in Nat
  BY LaneFields, ProtocolAssumption DEF close_consumed_message
<1>1. consumed' = consumed \ {n} /\ UNCHANGED << control_lane, position >>
  BY DEF close_consumed_message
<1>2. low..high \subseteq consumed /\ consumed \subseteq 1..high /\ low \in 1..(high + 1)
  BY DEF ReplayInv, ReplayCovered
<1>3. has_active_transfer(position) =>
          position.active_transfer_sequence \in consumed /\ low <= position.active_transfer_sequence
  BY DEF ReplayInv, ReplayCovered, WatermarkBehind
<1> HIDE DEF low, high
<1>4. low..high \subseteq consumed'
  BY <1>0, <1>1, <1>2
<1>5. has_active_transfer(position) => position.active_transfer_sequence \in consumed'
  BY <1>0, <1>1, <1>3
<1> QED
  BY <1>1, <1>2, <1>3, <1>4, <1>5
     DEF ReplayInv, ReplayCovered, WatermarkBehind, has_active_transfer, low, high

-----------------------------------------------------------------------------

\* The steps outside the lane open no cycle: each keeps the open one or ends it.
LEMMA MovesKeepOrEnd ==
    ASSUME LegInv,
           \/ \E id \in TransferIds, guardian \in GuardianSigns :
                  attribute_allocation(id, guardian)
           \/ \E amount \in Amounts : deploy_to_strategy(amount, CurrentReceipt(amount))
           \/ \E id \in TransferIds, maximum, reduction \in Amounts :
                  \E returned \in 0..reduction :
                      withdraw_for_recall(id, maximum, reduction, returned)
           \/ \E id \in TransferIds, maximum \in Amounts : send_recall_assets(id, maximum)
           \/ reconcile_custody
           \/ position' = reconciled
           \/ UNCHANGED position
    PROVE  KeepsOrEnds
<1>0. /\ position \in RemotePosition /\ can_reconcile /\ LegTypeOK /\ reconciled \in RemotePosition
      /\ reconciled.active_transfer_kind = position.active_transfer_kind
      /\ reconciled.active_transfer_sequence = position.active_transfer_sequence
  <2>1. LegTypeOK /\ can_reconcile /\ position \in RemotePosition
    BY AlwaysReconciles DEF LegInv, LegTypeOK
  <2> QED
    BY <2>1, ReconciledFields
<1>1. ASSUME NEW p \in RemotePosition, NEW id \in TransferIds,
             position' = p \/ position' = complete_transfer(p, id),
             p.active_transfer_kind = position.active_transfer_kind,
             p.active_transfer_sequence = position.active_transfer_sequence
      PROVE  KeepsOrEnds
  BY <1>1, CompleteTransferFields DEF KeepsOrEnds, has_active_transfer
<1>2. ASSUME NEW id \in TransferIds, NEW guardian \in GuardianSigns,
             attribute_allocation(id, guardian)
      PROVE  KeepsOrEnds
  <2> DEFINE n == MinOf(outstanding_allocation(transfers[id]), reconciled.unattributed_custody)
             p == attribute(reconciled, n)
  <2>1. position' = p \/ position' = complete_transfer(p, id)
    BY <1>2 DEF attribute_allocation
  <2>2. n \in Nat /\ n <= reconciled.unattributed_custody
    <3>1. outstanding_allocation(transfers[id]) \in Nat
      BY RecordFields, NatArithmetic
         DEF outstanding_allocation, LegInv, RecordBounds, LegTypeOK
    <3> QED
      BY <1>0, <3>1, PositionFields, NatArithmetic
  <2> HIDE DEF n
  <2>3. /\ p \in RemotePosition
        /\ p.active_transfer_kind = position.active_transfer_kind
        /\ p.active_transfer_sequence = position.active_transfer_sequence
    BY <1>0, <2>2, AttributeFields
  <2> QED
    BY <1>1, <2>1, <2>3
<1>3. ASSUME NEW amount \in Amounts, deploy_to_strategy(amount, CurrentReceipt(amount))
      PROVE  KeepsOrEnds
  BY <1>0, <1>3 DEF deploy_to_strategy, KeepsOrEnds, has_active_transfer, RemotePosition
<1>4. ASSUME NEW id \in TransferIds, NEW r, NEW p, settle_recall(id, r, p), DOMAIN p = DOMAIN reconciled,
             p.active_transfer_kind = position.active_transfer_kind,
             p.active_transfer_sequence = position.active_transfer_sequence
      PROVE  KeepsOrEnds
  <2>1. position' = p \/ position' = complete_transfer(p, id)
    BY <1>4 DEF settle_recall
  <2>2. position' = complete_transfer(p, id) => position'.active_transfer_kind = "None"
    BY <1>0, <1>4 DEF complete_transfer, close_transfer, open_transfer, RemotePosition
  <2> QED
    BY <1>4, <2>1, <2>2 DEF KeepsOrEnds, has_active_transfer
<1>5. ASSUME NEW id \in TransferIds, NEW maximum \in Amounts, NEW reduction \in Amounts,
             NEW returned \in 0..reduction,
             withdraw_for_recall(id, maximum, reduction, returned)
      PROVE  KeepsOrEnds
  <2> DEFINE loss == realized_loss_of(reduction, returned)
             r == [ transfers[id] EXCEPT !.strategy_principal_resolved = @ + reduction,
                                         !.assets_withdrawn = @ + returned,
                                         !.realized_loss = @ + loss ]
             p == [ reconciled EXCEPT !.deployed_principal = @ - reduction,
                                      !.recalled_custody = @ + returned,
                                      !.cumulative_realized_loss = @ + loss ]
  <2>1. settle_recall(id, r, p)
    BY <1>5 DEF withdraw_for_recall
  <2>2. /\ DOMAIN p = DOMAIN reconciled
        /\ p.active_transfer_kind = position.active_transfer_kind
        /\ p.active_transfer_sequence = position.active_transfer_sequence
    BY <1>0 DEF RemotePosition
  <2> HIDE DEF r, p
  <2> QED
    BY <1>4, <2>1, <2>2
<1>6. ASSUME NEW id \in TransferIds, NEW maximum \in Amounts, send_recall_assets(id, maximum)
      PROVE  KeepsOrEnds
  <2> DEFINE n == MinOf(maximum, position.recalled_custody)
             r == [transfers[id] EXCEPT !.assets_sent = @ + n]
             p == [reconciled EXCEPT !.recalled_custody = @ - n]
  <2>1. settle_recall(id, r, p)
    BY <1>6 DEF send_recall_assets
  <2>2. /\ DOMAIN p = DOMAIN reconciled
        /\ p.active_transfer_kind = position.active_transfer_kind
        /\ p.active_transfer_sequence = position.active_transfer_sequence
    BY <1>0 DEF RemotePosition
  <2> HIDE DEF r, p
  <2> QED
    BY <1>4, <2>1, <2>2
<1>7. CASE reconcile_custody \/ position' = reconciled \/ UNCHANGED position
  BY <1>0, <1>7 DEF reconcile_custody, KeepsOrEnds, has_active_transfer
<1> QED
  BY <1>2, <1>3, <1>5, <1>6, <1>7

\* A control message opens a cycle under its own sequence or opens none.
LEMMA MessagesOpenTheirOwn ==
    ASSUME LegInv, NEW m \in ControlMessage, NEW seq \in 1..MaxSequence, LegConsumes(m, seq)
    PROVE  /\ seq = control_lane.highest_consumed_sequence + 1 /\ consume(seq)
           /\ KeepsOrEnds \/ position'.active_transfer_sequence = seq
<1>0. /\ position \in RemotePosition /\ can_reconcile /\ LegTypeOK /\ reconciled \in RemotePosition
      /\ reconciled.active_transfer_kind = position.active_transfer_kind
      /\ reconciled.active_transfer_sequence = position.active_transfer_sequence
  <2>1. LegTypeOK /\ can_reconcile /\ position \in RemotePosition
    BY AlwaysReconciles DEF LegInv, LegTypeOK
  <2> QED
    BY <2>1, ReconciledFields
<1>1. PICK now \in Clock, guardian \in GuardianSigns, effective \in BOOLEAN :
          \/ handle_allocate(m, seq, now)
          \/ handle_recall(m, seq, now, guardian)
          \/ handle_resolve(m, seq, now, guardian)
          \/ close(m, seq, now, guardian)
          \/ recover(m, seq, now, guardian)
          \/ handle_config_update(m, seq, now, effective)
  BY DEF LegConsumes
<1>2. seq = control_lane.highest_consumed_sequence + 1 /\ consume(seq)
  BY <1>1 DEF handle_allocate, handle_recall, handle_resolve, close, recover,
              handle_config_update, validate_inbound
<1>3. ASSUME NEW p, NEW kind, NEW id, NEW status,
             DOMAIN p = DOMAIN position, position' = open_transfer(p, kind, id, seq, status)
      PROVE  position'.active_transfer_sequence = seq
  BY <1>0, <1>3 DEF open_transfer, RemotePosition
<1>4. CASE handle_allocate(m, seq, now)
  BY <1>2, <1>3, <1>4 DEF handle_allocate
<1>5. CASE handle_recall(m, seq, now, guardian)
  <2>1. DOMAIN reserve_in_position(new_recall(seq, m.amount), position) = DOMAIN position
    BY <1>0 DEF reserve_in_position, RemotePosition
  <2> QED
    BY <1>2, <1>3, <1>5, <2>1 DEF handle_recall
<1>6. CASE handle_resolve(m, seq, now, guardian)
  <2>1. CASE admit(m.transfer_id)
    <3>1. /\ position'.active_transfer_sequence = position.active_transfer_sequence
          /\ position'.active_transfer_kind = position.active_transfer_kind
      BY <1>0, <2>1 DEF admit, reserve_in_position, RemotePosition
    <3> QED
      BY <1>2, <3>1 DEF KeepsOrEnds, has_active_transfer
  <2>2. CASE UNCHANGED position
    BY <1>2, <2>2 DEF KeepsOrEnds, has_active_transfer
  <2> QED
    BY <1>6, <2>1, <2>2 DEF handle_resolve
<1>7. CASE close(m, seq, now, guardian)
  <2>1. \/ \E p : DOMAIN p = DOMAIN position /\ position' = close_transfer(p)
        \/ position' = position
    <3>1. \A n : DOMAIN attribute(reconciled, n) = DOMAIN position
      BY <1>0 DEF attribute, RemotePosition
    <3> QED
      BY <1>7, <3>1 DEF close
  <2>2. ASSUME NEW p, DOMAIN p = DOMAIN position, position' = close_transfer(p)
        PROVE  position'.active_transfer_kind = "None"
    BY <1>0, <2>2 DEF close_transfer, open_transfer, RemotePosition
  <2> QED
    BY <1>2, <2>1, <2>2 DEF KeepsOrEnds, has_active_transfer
<1>8. CASE recover(m, seq, now, guardian)
  <2>1. \A n : attribute(reconciled, n).active_transfer_kind = position.active_transfer_kind
    BY <1>0 DEF attribute, RemotePosition
  <2> QED
    BY <1>2, <1>8, <2>1 DEF recover, KeepsOrEnds, has_active_transfer
<1>9. CASE handle_config_update(m, seq, now, effective)
  BY <1>2, <1>9 DEF handle_config_update, KeepsOrEnds, has_active_transfer
<1> QED
  BY <1>1, <1>4, <1>5, <1>6, <1>7, <1>8, <1>9

\* Every step of the leg keeps the replay protection.
LEMMA NextReplay ==
    ASSUME LegInv, ReplayInv, [LegNext]_legVars
    PROVE  ReplayInv'
<1>1. ASSUME NEW m \in ControlMessage, NEW seq \in 1..MaxSequence, LegConsumes(m, seq)
      PROVE  ReplayInv'
  <2>1. seq \in Nat
    BY ProtocolAssumption
  <2> QED
    BY <1>1, <2>1, MessagesOpenTheirOwn, ConsumeReplay
<1>2. CASE LegMoves
  <2>1. CASE \E n \in 1..MaxSequence : advance_replay_watermark(n)
    BY <2>1, WatermarkReplay
  <2>2. CASE \E n \in 1..MaxSequence : close_consumed_message(n)
    BY <2>2, CloseRecordReplay
  <2>3. CASE freeze \/ \E id \in TransferIds : publish_recall_sent(id)
    BY <2>3, LaneFrame DEF freeze, publish_recall_sent, KeepsOrEnds
  <2>4. ASSUME ~(\E n \in 1..MaxSequence : advance_replay_watermark(n)),
               ~(\E n \in 1..MaxSequence : close_consumed_message(n)),
               ~(freeze \/ \E id \in TransferIds : publish_recall_sent(id))
        PROVE  ReplayInv'
    <3>1. UNCHANGED << control_lane, consumed >>
      BY <1>2, <2>4 DEF LegMoves, attribute_allocation, deploy_to_strategy,
                        withdraw_for_recall, send_recall_assets, reconcile_custody
    <3>2. KeepsOrEnds
      BY <1>2, <2>4, MovesKeepOrEnd DEF LegMoves
    <3> QED
      BY <3>1, <3>2, LaneFrame
  <2> QED
    BY <2>1, <2>2, <2>3, <2>4
<1>3. ASSUME NEW e \in ReportEpochs, NEW observed_at, publish_remote_report(e, observed_at)
      PROVE  ReplayInv'
  BY <1>3, MovesKeepOrEnd, LaneFrame DEF publish_remote_report
<1>4. ASSUME NEW n \in Amounts, assets_arrive(n)
      PROVE  ReplayInv'
  BY <1>4, MovesKeepOrEnd, LaneFrame DEF assets_arrive
<1>5. CASE UNCHANGED legVars
  BY <1>5, MovesKeepOrEnd, LaneFrame DEF legVars
<1> QED
  BY <1>1, <1>2, <1>3, <1>4, <1>5 DEF LegNext

\* Closing replay records never reopens the lane: every sequence the watermark
\* still accepts, and that of the open transfer, has its record.
THEOREM ReplayAlwaysCovered == LegSpec => []ReplayCovered
<1>1. LegInit => ReplayInv
  BY DEF LegInit, ReplayInv, ReplayCovered, WatermarkBehind, has_active_transfer
<1>2. LegInv /\ ReplayInv /\ [LegNext]_legVars => ReplayInv'
  BY NextReplay
<1>3. ReplayInv => ReplayCovered
  BY DEF ReplayInv
<1> QED
  BY <1>1, <1>2, <1>3, LegInvariant, PTL DEF LegSpec
=============================================================================
