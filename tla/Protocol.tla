------------------------------ MODULE Protocol ------------------------------
(***************************************************************************)
(* The messages the two chains exchange (crates/protocol-types and its     *)
(* Solidity mirror, libraries/ProtocolCodec.sol).  Bytes, hashes and the   *)
(* envelope identities are abstracted: a message is the record of the      *)
(* fields some handler decides on.  The minimum amounts, the deadline and  *)
(* the source balance are only stored by their receiver, and the risk      *)
(* limits of a ConfigUpdate bind nothing in the leg.                       *)
(***************************************************************************)
EXTENDS Naturals, Sequences

CONSTANTS
    TransferIds,      \* ids the administrator may name a cycle with
    NoTransfer,       \* the zero transfer id
    Amounts,          \* amounts a message or a call may carry
    MaxEpoch,         \* bound: the last epoch that is opened or reported
    Versions,         \* configuration versions
    InitialVersion,   \* the version both sides are deployed with
    MaxSequence       \* bound: control messages published

ASSUME ProtocolAssumption ==
    /\ NoTransfer \notin TransferIds
    /\ Amounts \subseteq Nat \ {0}
    /\ MaxEpoch \in Nat
    /\ Versions \subseteq Nat
    /\ InitialVersion \in Versions
    /\ MaxSequence \in Nat

MinOf(a, b) == IF a <= b THEN a ELSE b

SaturatingSub(a, b) == IF a >= b THEN a - b ELSE 0

\* Epoch ids a report may carry: the codec rejects epoch zero.
ReportEpochs == 1..MaxEpoch

\* Vault to leg.
ControlMessage ==
    [ type : {"Allocate", "Recall"}, transfer_id : TransferIds, amount : Amounts,
      config_version : Versions ]
    \cup
    [ type : {"Admit", "Close", "Recover"}, transfer_id : TransferIds,
      target_sequence : 1..MaxSequence, config_version : Versions ]
    \cup
    [ type : {"ConfigUpdate"}, config_version : Versions,
      previous_config_version : Versions ]

\* What the codec requires of a control body beyond the types above.
well_formed(m, seq) ==
    /\ m.type \in {"Admit", "Close", "Recover"} => m.target_sequence < seq
    /\ m.type = "ConfigUpdate" => m.config_version > m.previous_config_version

\* Leg to vault.  observed_at counts the epoch cutoff times that had passed on
\* the clock of the leg, so "observedAt >= cutoffAt of epoch e" is observed_at > e.
OutboundMessage ==
    [ type : {"RemoteReport"}, epoch_id : ReportEpochs, observed_at : Nat,
      reported_value : Nat, realized_loss : Nat,
      latest_completed_transfer_id : TransferIds \cup {NoTransfer},
      config_version : Versions ]
    \cup
    [ type : {"RecallSent"}, transfer_id : TransferIds, principal_sent : Nat,
      actual_amount_sent : Nat, realized_loss : Nat, config_version : Versions ]
    \cup
    [ type : {"TransportSettlement"}, transfer_id : TransferIds,
      kind : {"Closed", "Recovered"}, claim_amount : Nat, credited_amount : Nat,
      impaired_outstanding : Nat, config_version : Versions ]

\* The codec's rules for the bodies the leg publishes, on decoding.
well_formed_outbound(m) ==
    /\ m.type = "RecallSent" => /\ m.principal_sent # 0
                                /\ m.realized_loss <= m.principal_sent
    /\ m.type = "TransportSettlement" =>
         /\ m.claim_amount # 0
         /\ m.credited_amount <= m.claim_amount
         /\ m.kind = "Closed" =>
                m.impaired_outstanding >= m.claim_amount - m.credited_amount
         /\ m.kind = "Recovered" =>
                m.impaired_outstanding = m.claim_amount - m.credited_amount
=============================================================================
