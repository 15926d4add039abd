# Formal model of the Solana–EVM cross-chain vault

TLA+ specifications of the vault, its remote coordinator and the Solana remote
leg, checked with TLC on small instances, and TLAPS proofs of the remote leg's
safety invariants for every instance.

## 1. The system

The EVM holds the canonical accounting; Solana holds part of the assets.

| Part | Source | State | Operations |
|---|---|---|---|
| Vault | `contracts/solevm-vault/src/SolEVMVault.sol`, `libraries/VaultMath.sol` | asset buckets, epoch slot, requests and priced claims, controller lists, shares, status | request, cancel, cutoff, finalize, open, abort, claim, refund, pause, unpause, freeze, reconcile, and the coordinator's calls |
| Coordinator | `contracts/solevm-vault/src/RemoteAccounting.sol` | the open cycle, both lanes' counters, recall baseline, used ids | allocate, recall, admit, close, recover; process report, recall notice, settlement |
| Remote leg | `programs/solevm-remote-leg/src` | position, transfer records, transport ledger, replay lane and consumed records, outbound lane, recall markers, frozen flag | process allocate, recall, resolve, settlement, config update; attribute, deploy, withdraw, send, reconcile, freeze, watermark, close record, publish report, publish recall notice |
| Messages | `crates/protocol-types`, `libraries/ProtocolCodec.sol` | — | body rules, header rules |
| Authorization verifier | `programs/authorization-verifier` | policies, approvals, receipts | consume, administer |
| Reference model, simulator, differential generator | `crates/accounting-model`, `crates/xchain-sim`, `crates/evm-differential` | a second model of the vault and of the transports, for tests | — |
| Drivers and test strategy | `programs/solevm-remote-leg/{devnet,e2e,test-strategy}` | — | scripts, a test adapter |

**Interaction.** Two ordered message lanes (control: coordinator to leg;
outbound: leg to coordinator) and two asset paths that know nothing of the
messages. At most one cycle is open: an *allocation* (assets leave the vault,
arrive at the leg, are attributed, and are reported complete, or the cycle is
closed and the shortfall becomes *impairment*), a *recall* (the leg withdraws,
possibly at a loss, sends, and announces RecallSent), or a *recovery* (late
assets are credited against the pooled impairment).

**What is hard.** Messages and assets are not synchronized; messages expire and
are then quarantined or skipped but still consumed, because a lane must never
stop; a close can race a completion; reports price a moving position; a leg can
freeze at any point; replay records are deleted behind a watermark; the vault
and the coordinator keep the same cycle twice; claims are rounded one by one.
`PROJECT.json` lists these hazards with their source lines and the properties
that would catch each going wrong.

## 2. Modules

| Module | Models | Notes |
|---|---|---|
| `Protocol` | the fields of each message that some handler decides on, and the codec's body rules | bytes, hashes and identities are abstracted |
| `RemoteLeg` | the Solana program; one action per instruction | an account is a record; a rejected instruction changes nothing, so each error is a conjunct |
| `SolEVMVault` | the vault; one action per external function | the coordinator's calls are operators from buckets to buckets |
| `RemoteAccounting` | the coordinator, extending the vault | a transaction applies the vault operators in the order of the calls |
| `CrossChain` | coordinator + vault, leg, relays and asset transports | INSTANCEs the two sides |
| `RemoteLegLemmas`, `RemoteLegMessages`, `RemoteLegProofs`, `ReplayProofs` | theorems about `RemoteLeg` | each extends the one before |
| `MC*` | model values and symmetry for TLC | |

Conventions:

- Names are those of the source. Each action is a whole handler, including the
  reconciliation it starts with and the lane advance it ends with. In the leg
  `reconciled` is the position after `custody::reconcile`; in the vault
  `recordSurplus` is `_recordSurplus`.
- Time is abstracted to what a handler compares. For a control message the leg's
  clock (`Clock`) is before `published_at`, up to `expires_at`, or past it; a
  report is `expired` or not; both are free choices at each delivery. The
  administrator passes any `published_at` to the coordinator, and
  `check_published` refuses a message stamped ahead of the leg's clock, so the
  control lane can wait for a time. `effective` is whether the clock has reached a
  configuration update's `effective_timestamp`. The leg stamps its own messages
  with its clock and the coordinator does not compare that time. `epoch.due` says that the cutoff time has passed; a report's `observed_at`
  counts the cutoffs that had passed at the leg.
- Signatures: `guardian` is whether the guardian co-signs; calls reserved to the
  administrator are not distinguished from other calls.
- The strategy adapter answers a withdrawal with any principal reduction and any
  return that the leg's balance checks accept, and changes its principal only when
  asked. That `deployed_principal` equals the adapter's principal (the second part
  of `CustodyIdentity`) rests on this: it says that the leg's handlers keep the two
  in step, not that every adapter does.
- `RiskConfig::check_parameters` repeats rules the codec applies to every
  configuration update, so for a well-formed message it never fails and is not a
  guard.
- The deadline of a cycle is a free choice too: `close` may happen at any time
  after the allocation.
- Operators whose comment begins with "Mutant:" are deliberately wrong variants
  of the next definition. No specification uses them; they document which
  mistake each property detects.
- `contributed` and `tokens.arrived` / `asset.received` are history variables.

`VaultSpec` is the vault before its first allocation. `AccountingSpec` adds the
coordinator facing a leg that may publish *any* message the codec accepts: what
it shows does not depend on Solana behaving. `LegSpec` is the leg facing *any*
well-formed control messages in lane order. `CrossSpec` connects the real sides.

## 3. What is checked

| Run | Properties | Instance |
|---|---|---|
| `leg` | types, `CustodyIdentity`, `TokenConservation`, `OneOpenTransfer`, `RecallConservation`, `PrincipalCeiling`, `LedgerBalanced`, `SettledOnce`, `ReplayCovered`, `BooksMatchRecords` | 3 transfers, amounts 1–2, ceiling 2, 4 control messages, 3 arriving tokens, watermark lag 1 |
| `leg_frozen` | `FrozenWithoutGuardian` | 2 transfers, 2 configuration versions, a guardian that never signs |
| `vault` | types, `NoDeficit`, `EscrowMatchesRequests`, `ClaimsCovered`, `SlotsMatchLists`, `RoundingFavoursVault` | 2 controllers, 2 epochs, deposits up to 2, 1 unasked token, `VIRTUAL_SHARES` = 2 |
| `vault_rounding` | `RoundingFavoursVault` | 1 controller, 3 epochs, deposits up to 2, `VIRTUAL_SHARES` = 2 |
| `vault_live` | `FrozenFundsExit` | 2 controllers, 1 unit each |
| `accounting` | types, `NoDeficit`, `PrincipalConserved`, `ValueWithinPrincipal`, `CycleMatchesVault`, `GenesisEpochUnexposed`, `FixedPriceKeepsNav`, `RoundingFavoursVault` | 1 controller, 2 epochs, 2 transfers, 3 control and 2 inbound messages |
| `cross` | `ChainsAgree`, `ReturnsAttributed`, `BackedByAssets`, `ControlLaneMoves`, `OutboundLaneMoves` | 2 cycles of 1–2 units, 3 control messages, a report as the leg's first message |
| `cross_reports` | `ChainsAgree`, `OutboundLaneMoves` | 2 cycles of 1–2 units, reports as the first and second message of the leg, no returned assets |
| `cross_live` | `AllocationEnds`, `RecoveryEnds`, `RecallEnds` | 2 cycles of 1 unit |

Every run passes. `cross` and `cross_reports` divide one question: the first has
returned assets, the second a further report, which can fall inside a recall and
deduct a partial loss that the recall's notice must not deduct again. What the
properties say:

- **Leg.** The buckets never claim more than custody holds; every token that
  came in is held, deployed, sent or lost; position and records agree on the one
  open transfer; each recall explains each unit it asked for; principal never
  passes the ceiling although that is checked only at three points; closed claims
  are credited, impaired or recovered once; every transfer has at most one
  terminal message; no acceptable sequence loses its replay record; the
  cumulative counters are the sums of the records.
- **Frozen leg.** Without the guardian nothing is accepted, deployed or settled
  and no transfer starts to run, while a running recall may unwind.
- **Vault.** Buckets never exceed the balance; the escrow bucket and the epoch
  totals are the live requests; reserve and vault-held shares cover every claim,
  so the `InvariantViolation` check of `finalizeEpoch`, which is not a guard in
  the model, is never needed; swap-and-pop keeps lists and slots in step;
  settling an epoch never lowers the share price; after a freeze every request
  gets out.
- **Coordinator.** Against any leg: principal is conserved over all buckets,
  value stays within principal, vault and coordinator agree on the cycle, epoch
  zero has no remote exposure, and once an epoch's price is fixed a report
  cannot move NAV, and settling an epoch on the fixed price dilutes nobody.
- **Both chains.** Between cycles the chains agree on principal, value,
  impairment and loss; returned tokens are attributed in whatever order notice
  and tokens come; NAV plus impairment is backed by tokens somewhere; the next
  message of each lane can be consumed in every state, fresh or expired. A control
  message waits only for the leg's clock to reach its `published_at` and, on a
  frozen leg, for the guardian.

**Bounds.** Four control messages at the leg allow allocate, close, recover and
a further cycle, or a quarantine, an expired admission, an admission and a
recall; amount 2 allows partial arrival, partial attribution, partial withdrawal
and partial loss; ceiling 2 makes the ceiling bind. Two epochs let claims of the
first remain open while the second is priced, and `VIRTUAL_SHARES` = 2 makes
rounding visible. With two epochs only redemptions round: a deposit rounds once an
earlier redemption has left dust, which takes the third epoch of
`vault_rounding`. The price is fixed by a report only where there is a
coordinator, so settling on a fixed price is checked in `accounting`. In `cross` two cycles allow allocate-then-recall,
allocate-close-recover and a quarantined allocation that is admitted. It starts
after epoch zero has finalized its deposits, the first state in which there is
something to allocate, and has no user requests: those are covered by `vault`
and `accounting`. A report after a recall's notice would be the leg's third
message and is not in `cross_reports`; it finds the chains agreeing on the
cumulative loss (`ChainsAgree`), which is what the coordinator compares.
MaxArrivals, MaxReceived, MaxReports, MaxSequence, MaxInbound,
MaxRequest, MaxReported and MaxLoss are bounds of the model and stand for nothing
in the code. `accounting` uses amounts of 2 with reported figures 0–2 and losses
0–1, so that a cycle can complete, fall short or lose in part.

**Symmetry** is used for transfer ids and controllers in the safety runs only.
No action orders them; the controller lists are permuted with the controllers.

**Deadlock** checking is on in every run.

**Fairness.** `vault_live`: the administrator or guardian aborts a frozen epoch
and owners collect; both calls stay enabled until made. `cross_live`: relays
deliver the next message of each lane, the guardian co-signs, the administrator
closes an overdue allocation and re-admits a quarantined recall, and some account
calls the permissionless withdraw, send and publish instructions. Delivery of a
control message presumes that the leg's clock reaches its `published_at`; a
message stamped far in the future delays everything behind it until then. No
fairness is assumed of the asset transport, of reports, or of the freshness of a
delivered message. The conclusions allow for the bound on control messages: an allocation
may stay open when the model has no message left for its close, and a recall may
stay quarantined when every admission the model has room for has expired. The
second is part of the repository's known "stuck recall" risk (`README.md`,
"Unresolved release risks"): without a relayed fresh admission, a recall has no
other end. The other causes named there are excluded by assumption: the guardian
signs, and the leg can finish withdrawing, sending and reporting, because the
adapter always grants some withdrawal (with any return, nothing included) and
sends and publications succeed. An adapter that refuses every withdrawal leaves a
recall open; `RecallEnds` says nothing about it. `cross_live` has amounts of one
unit: a close or recovery there credits all or nothing and a withdrawal is whole;
partial credits and withdrawals are in the safety runs.

## 4. What is proved

`RemoteLegLemmas` (the invariant and the unrelated instructions),
`RemoteLegMessages` (control messages) and `RemoteLegProofs` (recalls in progress
and the theorems) prove, for every set of transfers, amounts and versions and
every ceiling, lag and bound that satisfy `ProtocolAssumption` and
`LegAssumption` (types of the constants, and amounts are positive):

| Theorem | Statement |
|---|---|
| `LegInvariant` | `LegSpec => []LegInv` |
| `LegTypesHold` | `LegSpec => []LegTypeOK` |
| `CustodyCovered` | `LegSpec => []CustodyIdentity` |
| `TokensConserved` | `LegSpec => []TokenConservation` |
| `CyclesAgree` | `LegSpec => []OneOpenTransfer` |
| `RecallsConserve` | `LegSpec => []RecallConservation` |
| `CeilingHolds` | `LegSpec => []PrincipalCeiling` |
| `LedgerStaysBalanced` | `LegSpec => []LedgerBalanced` |
| `ReplayAlwaysCovered` (`ReplayProofs`) | `LegSpec => []ReplayCovered` |

*Argument.* `LegInv` is the conjunction of the six invariants, the type
invariant and `RecordBounds`. None of them is inductive alone. That subtractions
stay natural (types) needs the amounts of a recall to be bounded by its request
(`RecallConservation`) and the position to have what the record claims
(`OneOpenTransfer`). That an attribution respects the ceiling needs
`PrincipalCeiling` to count the part of the open allocation that has not arrived.
That an admitted transfer starts clean needs `RecordBounds`: a quarantined record
has moved nothing. There is one lemma per instruction (`AllocateInv`,
`RecallInv`, `ResolveInv`, `CloseInv`, `RecoverInv`, `ConfigUpdateInv`,
`AttributeAllocationInv`, `DeployInv`, `WithdrawInv`, `SendInv`, ...); they share
lemmas for the steps handlers have in common: attribution, opening a cycle,
reserving custody, settling a recall, closing.

`ReplayCovered` needs one more fact, `WatermarkBehind`: the watermark never
passes the open transfer, which is what `check_obligation` maintains. With it,
deleting a record below the watermark cannot delete the open transfer's.

*Only model-checked:* `SettledOnce` and `FrozenWithoutGuardian` (planned),
`BooksMatchRecords`, `EscrowMatchesRequests` and `ClaimsCovered` (sums over sets,
which need induction over data), everything about the vault, the coordinator and
the composition, the two lane properties (ENABLED), and all liveness.

## 5. Not modelled

- Byte layout, hashes, commitments, account addresses, rent, events; integer
  widths (amounts are naturals; u128 to u64 narrowing is listed as a hazard).
- `bindRemoteAccounting`, the one-time initializers (their result is the initial
  state) and ERC-20 transfers of shares between holders.
- Minimum request sizes, and the fields a receiver only stores (minimum
  amounts, expected source balance, risk limits).
- The authorization verifier: the leg's comparison of the receipt is modelled,
  the receipt always being the one for the current deployment context.
- The reference model, the simulator, the differential generator, the drivers
  and the test adapter.

## 6. Plan

Done, in this order: `Protocol`, `RemoteLeg`, `SolEVMVault`, `RemoteAccounting`,
`CrossChain`, the leg's proofs. Next:

1. `AuthorizationVerifier`: approvals, expiry, single use and receipts, composed
   with `deploy_to_strategy`, so that an approval can be stale when used.
2. An abstract ledger (backing, remote principal, impairment, loss, moved by
   abstract allocate, complete, close, recover and recall steps) that
   `AccountingSpec` implements under a refinement mapping; and the accounting
   crate's transition system as the abstract specification of the vault.
3. `CrossChain` with user requests and a second epoch; conditional progress of
   epoch finalization, including the wait while a close is pending.
4. The simulator's transports and fault schedule (`crates/xchain-sim`) and the
   test adapter's withdrawal outcomes, as refinements of the free choices the
   present modules make; the codec's bodies one operator each, and the lanes'
   initializers.
5. Proofs: `PrincipalConserved`, `ValueWithinPrincipal`, `CycleMatchesVault` and
   `NoDeficit` for the coordinator; `SettledOnce` and `FrozenWithoutGuardian` for
   the leg; the refinement of item 2.
