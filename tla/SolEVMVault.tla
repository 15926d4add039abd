---------------------------- MODULE SolEVMVault ----------------------------
(***************************************************************************)
(* The EVM vault (contracts/solevm-vault/src/SolEVMVault.sol): asset       *)
(* buckets, the epoch lifecycle with deposit and redemption requests, and  *)
(* the functions its remote coordinator calls.                             *)
(*                                                                         *)
(* One action per external function.  A revert changes nothing, so every   *)
(* revert condition is a conjunct.  The functions that only the bound      *)
(* coordinator may call are operators from buckets to buckets:             *)
(* RemoteAccounting composes them into its own transactions.  VaultSpec is *)
(* the vault before its first allocation.                                  *)
(*                                                                         *)
(* The one result check is not a guard: finalizeEpoch reverts when the     *)
(* claims it priced exceed what it mints or reserves.  ClaimsCovered says  *)
(* that this never happens.                                                *)
(***************************************************************************)
EXTENDS Protocol, FiniteSetsExt

CONSTANTS
    Controllers,                       \* accounts that deposit and redeem
    Vault,                             \* the vault's own address
    VIRTUAL_SHARES,                    \* 10^12 in VaultMath
    MAX_DEPOSIT_REQUESTS_PER_EPOCH,
    MAX_REDEEM_REQUESTS_PER_EPOCH,
    MaxRequest,                        \* bound: assets in one deposit request
    MaxReceived                        \* bound: tokens that reach the vault unasked

ASSUME VaultAssumption ==
    /\ Vault \notin Controllers
    /\ VIRTUAL_SHARES \in Nat \ {0}
    /\ MAX_DEPOSIT_REQUESTS_PER_EPOCH \in Nat
    /\ MAX_REDEEM_REQUESTS_PER_EPOCH \in Nat
    /\ MaxRequest \in Nat
    /\ MaxReceived \in Nat

VARIABLES
    buckets,        \* the accounting buckets and the pending recall
    epoch,          \* the epoch slot and the price locked for it
    vaultStatus,
    settled,        \* the outcome of each epoch
    deposits,       \* per epoch and controller: request and priced claim
    redeems,
    lists,          \* the current epoch's controller arrays and slot maps
    shares,         \* ERC20 share balances
    asset,          \* tokens: held by the vault, sent to the sink, received unasked
    contributed     \* history: assets finalized into backing, net of redemptions

requestVars == << settled, deposits, redeems, lists, shares >>
vaultVars == << buckets, epoch, vaultStatus, requestVars, asset, contributed >>

EpochIds == 0..MaxEpoch

Buckets ==
    [ pendingDepositEscrow : Nat, idleBacking : Nat, claimReserve : Nat,
      unattributedBalance : Nat, unattributedInbound : Nat,
      outboundInTransit : Nat, acceptedRemoteValue : Nat, inboundInTransit : Nat,
      remotePrincipalCap : Nat, recognizedLoss : Nat, impairedTransport : Nat,
      pendingRecallPrincipal : Nat ]

\* due: the cutoff time of the epoch has passed.  Every epoch id is used once,
\* so the valuation lock of the current id is all that is ever read.
Epoch ==
    [ open : BOOLEAN, phase : {"Open", "CutOff"}, id : EpochIds, due : BOOLEAN,
      locked : BOOLEAN, lockedPricingAssets : Nat,
      depositAssets : Nat, redeemShares : Nat ]

Request == [ amount : Nat, cancelled : BOOLEAN, settled : BOOLEAN, claim : Nat ]

NoRequest == [ amount |-> 0, cancelled |-> FALSE, settled |-> FALSE, claim |-> 0 ]

\* One controller array with its 1-based slot map.
EmptyList == [ list |-> << >>, slot |-> [c \in Controllers |-> 0] ]

totalSupply == MapThenSumSet(LAMBDA a : shares[a], Controllers \cup {Vault})

-----------------------------------------------------------------------------
(* VaultMath.sol, with VIRTUAL_ASSETS = 1: both conversions round down *)

\* Mutant: deposits round up.
assetsToSharesRoundedUp(assets, totalAssets, supply) ==
    (assets * (supply + VIRTUAL_SHARES) + totalAssets) \div (totalAssets + 1)

assetsToShares(assets, totalAssets, supply) ==
    (assets * (supply + VIRTUAL_SHARES)) \div (totalAssets + 1)

\* Mutant: redemptions round up.
sharesToAssetsRoundedUp(n, totalAssets, supply) ==
    (n * (totalAssets + 1) + supply + VIRTUAL_SHARES - 1) \div (supply + VIRTUAL_SHARES)

sharesToAssets(n, totalAssets, supply) ==
    (n * (totalAssets + 1)) \div (supply + VIRTUAL_SHARES)

-----------------------------------------------------------------------------
(* Views and the surplus rule *)

managedBacking(b) ==
    b.idleBacking + b.outboundInTransit + b.acceptedRemoteValue + b.inboundInTransit

accountedAssets(b) ==
    b.pendingDepositEscrow + b.idleBacking + b.claimReserve
        + b.unattributedBalance + b.unattributedInbound

hasRemoteExposure(b) ==
    \/ b.outboundInTransit # 0
    \/ b.acceptedRemoteValue # 0
    \/ b.inboundInTransit # 0
    \/ b.remotePrincipalCap # 0
    \/ b.pendingRecallPrincipal # 0

requireNoDeficit == asset.vault >= accountedAssets(buckets)

\* Mutant: tokens nobody asked for become idle backing.
recordSurplusAsIdle(b) == [ b EXCEPT !.idleBacking = @ + (asset.vault - accountedAssets(b)) ]

\* A surplus settles inbound transit first; the rest is unattributed, to the
\* recall while one is pending.
recordSurplus(b) ==
    LET surplus == asset.vault - accountedAssets(b)
        attributed == MinOf(surplus, b.inboundInTransit)
        remaining == surplus - attributed
        recalling == b.pendingRecallPrincipal # 0
    IN  [ b EXCEPT !.idleBacking = @ + attributed,
                   !.inboundInTransit = @ - attributed,
                   !.unattributedInbound = IF recalling THEN @ + remaining ELSE @,
                   !.unattributedBalance = IF recalling THEN @ ELSE @ + remaining ]

OpenPhase == epoch.open /\ epoch.phase = "Open"

CutOffPhase == epoch.open /\ epoch.phase = "CutOff"

-----------------------------------------------------------------------------
(* The coordinator's calls, as operators on the buckets *)

\* Mutant: the amount stays idle as well.
beginOutboundKeepsIdle(b, amount) == [ b EXCEPT !.outboundInTransit = @ + amount ]

beginOutbound(b, amount) ==
    [ b EXCEPT !.idleBacking = @ - amount, !.outboundInTransit = @ + amount ]

\* Mutant: the reported value is not capped.
setAcceptedRemoteValueUncapped(b, reported) == [ b EXCEPT !.acceptedRemoteValue = reported ]

setAcceptedRemoteValue(b, reported) ==
    [ b EXCEPT !.acceptedRemoteValue = MinOf(reported, b.remotePrincipalCap) ]

completeAllocation(b, amount, reported) ==
    setAcceptedRemoteValue(
        [ b EXCEPT !.outboundInTransit = @ - amount, !.remotePrincipalCap = @ + amount ],
        reported)

\* Mutant: the shortfall is not impaired.
closeAllocationForgetsShortfall(b, claim, credited) ==
    [ b EXCEPT !.outboundInTransit = @ - claim,
               !.remotePrincipalCap = @ + credited,
               !.acceptedRemoteValue = @ + credited ]

closeAllocation(b, claim, credited) ==
    [ b EXCEPT !.outboundInTransit = @ - claim,
               !.remotePrincipalCap = @ + credited,
               !.acceptedRemoteValue = @ + credited,
               !.impairedTransport = @ + (claim - credited) ]

recoverImpairment(b, amount) ==
    [ b EXCEPT !.impairedTransport = @ - amount,
               !.remotePrincipalCap = @ + amount,
               !.acceptedRemoteValue = @ + amount ]

beginRecall(b, amount) == [ b EXCEPT !.pendingRecallPrincipal = amount ]

\* Mutant: the decrease of the accepted value is not limited to that value.
applyRecallSentUnlimited(b, principal, actual, loss) ==
    [ b EXCEPT !.acceptedRemoteValue = @ - principal,
               !.remotePrincipalCap = @ - principal,
               !.recognizedLoss = @ + loss,
               !.inboundInTransit = @ + actual,
               !.pendingRecallPrincipal = 0 ]

\* Mutant: the recall stays pending in the vault, and assets observed before the
\* notice stay unattributed.
applyRecallSentLeftPending(b, principal, actual, loss) ==
    [ b EXCEPT !.acceptedRemoteValue = @ - MinOf(@, principal),
               !.remotePrincipalCap = @ - principal,
               !.recognizedLoss = @ + loss,
               !.inboundInTransit = @ + actual ]

\* Assets that came back before the notice are attributed at once.
applyRecallSent(b, principal, actual, loss) ==
    LET fromUnattributed == MinOf(actual, b.unattributedInbound)
    IN  [ b EXCEPT !.acceptedRemoteValue = @ - MinOf(@, principal),
                   !.remotePrincipalCap = @ - principal,
                   !.recognizedLoss = @ + loss,
                   !.unattributedInbound = @ - fromUnattributed,
                   !.idleBacking = @ + fromUnattributed,
                   !.inboundInTransit = @ + (actual - fromUnattributed),
                   !.pendingRecallPrincipal = 0 ]

lockRemoteValuation(b) ==
    [ epoch EXCEPT !.locked = TRUE, !.lockedPricingAssets = managedBacking(b) ]

-----------------------------------------------------------------------------
(* Requests *)

addController(l, c) ==
    IF l.slot[c] # 0
    THEN l
    ELSE [ list |-> Append(l.list, c),
           slot |-> [l.slot EXCEPT ![c] = Len(l.list) + 1] ]

\* Mutant: the slot of the entry that moved is not updated.
removeControllerStaleSlot(l, c) ==
    LET at == l.slot[c]
        last == Len(l.list)
    IN  [ list |-> SubSeq([l.list EXCEPT ![at] = l.list[last]], 1, last - 1),
          slot |-> [l.slot EXCEPT ![c] = 0] ]

\* The last entry moves into the freed slot, then the array is popped.
removeController(l, c) ==
    LET at == l.slot[c]
        last == Len(l.list)
        moved == l.list[last]
    IN  [ list |-> SubSeq([l.list EXCEPT ![at] = moved], 1, last - 1),
          slot |-> [l.slot EXCEPT ![moved] = at, ![c] = 0] ]

\* Mutant: the cancelled request keeps its amount.
cancelledRequestKept(r) == [r EXCEPT !.cancelled = TRUE]

cancelledRequest(r) == [r EXCEPT !.amount = 0, !.cancelled = TRUE]

\* Mutant: the bucket keeps what was paid back.
releaseEscrowForgotten(b, assets) == b

\* Escrow that leaves for its owner, by cancellation or refund.
releaseEscrow(b, assets) == [b EXCEPT !.pendingDepositEscrow = @ - assets]

requestDeposit(c, assets) ==
    LET r == deposits[epoch.id][c]
    IN  /\ vaultStatus = "Active"
        /\ OpenPhase
        /\ r.amount + assets <= MaxRequest
        /\ requireNoDeficit
        /\ ~r.settled
        /\ \/ lists.deposit.slot[c] # 0
           \/ Len(lists.deposit.list) # MAX_DEPOSIT_REQUESTS_PER_EPOCH
        /\ lists' = [lists EXCEPT !.deposit = addController(@, c)]
        /\ deposits' = [deposits EXCEPT ![epoch.id][c] =
               [r EXCEPT !.amount = @ + assets, !.cancelled = FALSE]]
        /\ buckets' = [buckets EXCEPT !.pendingDepositEscrow = @ + assets]
        /\ epoch' = [epoch EXCEPT !.depositAssets = @ + assets]
        /\ asset' = [asset EXCEPT !.vault = @ + assets]
        /\ UNCHANGED << vaultStatus, settled, redeems, shares, contributed >>

cancelDepositRequest(c) ==
    LET r == deposits[epoch.id][c]
    IN  /\ vaultStatus # "Frozen"
        /\ OpenPhase
        /\ ~r.settled
        /\ r.amount # 0
        /\ deposits' = [deposits EXCEPT ![epoch.id][c] = cancelledRequest(r)]
        /\ buckets' = releaseEscrow(buckets, r.amount)
        /\ epoch' = [epoch EXCEPT !.depositAssets = @ - r.amount]
        /\ lists' = [lists EXCEPT !.deposit = removeController(@, c)]
        /\ asset' = [asset EXCEPT !.vault = @ - r.amount]
        /\ UNCHANGED << vaultStatus, settled, redeems, shares, contributed >>

\* Escrowed shares stay in the supply until the epoch settles.
requestRedeem(c, n) ==
    LET r == redeems[epoch.id][c]
    IN  /\ vaultStatus = "Active"
        /\ OpenPhase
        /\ n # 0
        /\ shares[c] >= n
        /\ requireNoDeficit
        /\ ~r.settled
        /\ \/ lists.redeem.slot[c] # 0
           \/ Len(lists.redeem.list) # MAX_REDEEM_REQUESTS_PER_EPOCH
        /\ lists' = [lists EXCEPT !.redeem = addController(@, c)]
        /\ redeems' = [redeems EXCEPT ![epoch.id][c] =
               [r EXCEPT !.amount = @ + n, !.cancelled = FALSE]]
        /\ epoch' = [epoch EXCEPT !.redeemShares = @ + n]
        /\ shares' = [shares EXCEPT ![c] = @ - n, ![Vault] = @ + n]
        /\ UNCHANGED << buckets, vaultStatus, settled, deposits, asset, contributed >>

cancelRedeemRequest(c) ==
    LET r == redeems[epoch.id][c]
    IN  /\ vaultStatus # "Frozen"
        /\ OpenPhase
        /\ ~r.settled
        /\ r.amount # 0
        /\ redeems' = [redeems EXCEPT ![epoch.id][c] = cancelledRequest(r)]
        /\ epoch' = [epoch EXCEPT !.redeemShares = @ - r.amount]
        /\ lists' = [lists EXCEPT !.redeem = removeController(@, c)]
        /\ shares' = [shares EXCEPT ![c] = @ + r.amount, ![Vault] = @ - r.amount]
        /\ UNCHANGED << buckets, vaultStatus, settled, deposits, asset, contributed >>

-----------------------------------------------------------------------------
(* Epoch lifecycle *)

timeReachesCutoff ==
    /\ epoch.open
    /\ ~epoch.due
    /\ epoch' = [epoch EXCEPT !.due = TRUE]
    /\ UNCHANGED << buckets, vaultStatus, requestVars, asset, contributed >>

cutoffEpoch ==
    /\ vaultStatus = "Active"
    /\ OpenPhase
    /\ epoch.due
    /\ epoch' = [epoch EXCEPT !.phase = "CutOff"]
    /\ UNCHANGED << buckets, vaultStatus, requestVars, asset, contributed >>

closeEpochSlot == [epoch EXCEPT !.open = FALSE, !.depositAssets = 0, !.redeemShares = 0]

listed(c, l) == \E i \in DOMAIN l.list : l.list[i] = c

\* The requests of an epoch, with the claims of the listed controllers priced.
priceDepositClaims(requests, totalAssets, supply) ==
    [c \in Controllers |->
        IF listed(c, lists.deposit)
        THEN [requests[c] EXCEPT !.claim = assetsToShares(requests[c].amount, totalAssets, supply)]
        ELSE requests[c]]

priceRedeemClaims(requests, totalAssets, supply) ==
    [c \in Controllers |->
        IF listed(c, lists.redeem)
        THEN [requests[c] EXCEPT !.claim = sharesToAssets(requests[c].amount, totalAssets, supply)]
        ELSE requests[c]]

\* Mutant: the epoch settles on what is idle although a valuation was fixed.
pricingAssetsIdle(b) == b.idleBacking

pricingAssets(b) == IF epoch.locked THEN epoch.lockedPricingAssets ELSE b.idleBacking

\* Redemptions draw on the liquidity that existed before this epoch's deposits.
finalizeEpoch ==
    LET b == recordSurplus(buckets)
        totalAssets == pricingAssets(b)
        supply == totalSupply
        mintedShares == assetsToShares(epoch.depositAssets, totalAssets, supply)
        redeemAssets == sharesToAssets(epoch.redeemShares, totalAssets, supply)
    IN  /\ vaultStatus = "Active"
        /\ CutOffPhase
        /\ settled[epoch.id] = "None"
        /\ requireNoDeficit
        /\ ~epoch.locked => ~hasRemoteExposure(b)
        /\ redeemAssets <= b.idleBacking
        /\ deposits' = [deposits EXCEPT ![epoch.id] =
               priceDepositClaims(@, totalAssets, supply)]
        /\ redeems' = [redeems EXCEPT ![epoch.id] =
               priceRedeemClaims(@, totalAssets, supply)]
        /\ settled' = [settled EXCEPT ![epoch.id] = "Finalized"]
        /\ buckets' = [b EXCEPT !.idleBacking = @ - redeemAssets + epoch.depositAssets,
                                !.pendingDepositEscrow = @ - epoch.depositAssets,
                                !.claimReserve = @ + redeemAssets]
        /\ shares' = [shares EXCEPT ![Vault] = @ - epoch.redeemShares + mintedShares]
        /\ epoch' = closeEpochSlot
        /\ contributed' = contributed - redeemAssets + epoch.depositAssets
        /\ UNCHANGED << vaultStatus, lists, asset >>

openNextEpoch ==
    /\ vaultStatus = "Active"
    /\ ~epoch.open
    /\ epoch.due
    /\ epoch.id < MaxEpoch
    /\ epoch' = [ open |-> TRUE, phase |-> "Open", id |-> epoch.id + 1, due |-> FALSE,
                  locked |-> FALSE, lockedPricingAssets |-> 0,
                  depositAssets |-> 0, redeemShares |-> 0 ]
    /\ lists' = [deposit |-> EmptyList, redeem |-> EmptyList]
    /\ UNCHANGED << buckets, vaultStatus, settled, deposits, redeems, shares, asset,
                    contributed >>

\* Mutant: an epoch that was cut off can no longer be aborted.
abortableOpenOnly == OpenPhase

\* An unsettled epoch may be abandoned in either phase.
abortable == epoch.open

abortEpoch ==
    /\ vaultStatus = "Frozen"
    /\ abortable
    /\ settled[epoch.id] = "None"
    /\ settled' = [settled EXCEPT ![epoch.id] = "Aborted"]
    /\ epoch' = closeEpochSlot
    /\ UNCHANGED << buckets, vaultStatus, deposits, redeems, lists, shares, asset,
                    contributed >>

-----------------------------------------------------------------------------
(* Claims and refunds, open in every status *)

\* Mutant: a consumed claim can be consumed again.
unconsumedForever(r) == ~r.cancelled /\ r.amount # 0

unconsumed(r) == ~r.cancelled /\ ~r.settled /\ r.amount # 0

claimDeposit(e, c) ==
    LET r == deposits[e][c]
    IN  /\ settled[e] = "Finalized"
        /\ unconsumed(r)
        /\ deposits' = [deposits EXCEPT ![e][c].settled = TRUE]
        /\ shares' = [shares EXCEPT ![Vault] = @ - r.claim, ![c] = @ + r.claim]
        /\ UNCHANGED << buckets, epoch, vaultStatus, settled, redeems, lists, asset,
                        contributed >>

claimRedeem(e, c) ==
    LET r == redeems[e][c]
    IN  /\ settled[e] = "Finalized"
        /\ unconsumed(r)
        /\ redeems' = [redeems EXCEPT ![e][c].settled = TRUE]
        /\ buckets' = [buckets EXCEPT !.claimReserve = @ - r.claim]
        /\ asset' = [asset EXCEPT !.vault = @ - r.claim]
        /\ UNCHANGED << epoch, vaultStatus, settled, deposits, lists, shares,
                        contributed >>

refundDeposit(e, c) ==
    LET r == deposits[e][c]
    IN  /\ settled[e] = "Aborted"
        /\ unconsumed(r)
        /\ deposits' = [deposits EXCEPT ![e][c].settled = TRUE]
        /\ buckets' = releaseEscrow(buckets, r.amount)
        /\ asset' = [asset EXCEPT !.vault = @ - r.amount]
        /\ UNCHANGED << epoch, vaultStatus, settled, redeems, lists, shares,
                        contributed >>

refundRedeem(e, c) ==
    LET r == redeems[e][c]
    IN  /\ settled[e] = "Aborted"
        /\ unconsumed(r)
        /\ redeems' = [redeems EXCEPT ![e][c].settled = TRUE]
        /\ shares' = [shares EXCEPT ![Vault] = @ - r.amount, ![c] = @ + r.amount]
        /\ UNCHANGED << buckets, epoch, vaultStatus, settled, deposits, lists, asset,
                        contributed >>

-----------------------------------------------------------------------------
(* Emergency controls and reconciliation *)

setStatus(from, to) ==
    /\ vaultStatus \in from
    /\ vaultStatus' = to
    /\ UNCHANGED << buckets, epoch, requestVars, asset, contributed >>

pause == setStatus({"Active"}, "Paused")

unpause == setStatus({"Paused"}, "Active")

freeze == setStatus({"Active", "Paused"}, "Frozen")

\* reconcile and observeInbound.
reconcile ==
    /\ requireNoDeficit
    /\ buckets' = recordSurplus(buckets)
    /\ UNCHANGED << epoch, vaultStatus, requestVars, asset, contributed >>

\* The asset transport, or anyone else, transfers n tokens to the vault.
assetsReceived(n) ==
    /\ asset.received + n <= MaxReceived
    /\ asset' = [asset EXCEPT !.vault = @ + n, !.received = @ + n]
    /\ UNCHANGED << buckets, epoch, vaultStatus, requestVars, contributed >>

-----------------------------------------------------------------------------
VaultInit ==
    /\ buckets = [ pendingDepositEscrow |-> 0, idleBacking |-> 0, claimReserve |-> 0,
                   unattributedBalance |-> 0, unattributedInbound |-> 0,
                   outboundInTransit |-> 0, acceptedRemoteValue |-> 0,
                   inboundInTransit |-> 0, remotePrincipalCap |-> 0,
                   recognizedLoss |-> 0, impairedTransport |-> 0,
                   pendingRecallPrincipal |-> 0 ]
    /\ epoch = [ open |-> TRUE, phase |-> "Open", id |-> 0, due |-> FALSE,
                 locked |-> FALSE, lockedPricingAssets |-> 0,
                 depositAssets |-> 0, redeemShares |-> 0 ]
    /\ vaultStatus = "Active"
    /\ settled = [e \in EpochIds |-> "None"]
    /\ deposits = [e \in EpochIds |-> [c \in Controllers |-> NoRequest]]
    /\ redeems = [e \in EpochIds |-> [c \in Controllers |-> NoRequest]]
    /\ lists = [deposit |-> EmptyList, redeem |-> EmptyList]
    /\ shares = [a \in Controllers \cup {Vault} |-> 0]
    /\ asset = [vault |-> 0, sink |-> 0, received |-> 0]
    /\ contributed = 0

\* What anyone but the coordinator may do to the vault.
VaultMoves ==
    \/ \E c \in Controllers, assets \in Amounts : requestDeposit(c, assets)
    \/ \E c \in Controllers : cancelDepositRequest(c)
    \/ \E c \in Controllers : \E n \in 1..shares[c] : requestRedeem(c, n)
    \/ \E c \in Controllers : cancelRedeemRequest(c)
    \/ timeReachesCutoff
    \/ cutoffEpoch
    \/ finalizeEpoch
    \/ openNextEpoch
    \/ abortEpoch
    \/ \E e \in EpochIds, c \in Controllers :
           \/ claimDeposit(e, c)
           \/ claimRedeem(e, c)
           \/ refundDeposit(e, c)
           \/ refundRedeem(e, c)
    \/ pause
    \/ unpause
    \/ freeze
    \/ reconcile

VaultNext ==
    \/ VaultMoves
    \/ \E n \in Amounts : assetsReceived(n)

VaultSpec == VaultInit /\ [][VaultNext]_vaultVars
-----------------------------------------------------------------------------
(* Properties *)

\* Every variable keeps its type; no bucket, balance or claim falls below zero,
\* so no checked subtraction of the contract reverts.
VaultTypeOK ==
    /\ buckets \in Buckets
    /\ epoch \in Epoch
    /\ vaultStatus \in {"Active", "Paused", "Frozen"}
    /\ settled \in [EpochIds -> {"None", "Finalized", "Aborted"}]
    /\ deposits \in [EpochIds -> [Controllers -> Request]]
    /\ redeems \in [EpochIds -> [Controllers -> Request]]
    /\ shares \in [Controllers \cup {Vault} -> Nat]
    /\ asset \in [vault : Nat, sink : Nat, received : Nat]
    /\ contributed \in Nat

\* The buckets never claim more tokens than the vault holds, so AccountingDeficit
\* is never raised.
NoDeficit == accountedAssets(buckets) <= asset.vault

SumRequests(requests, value(_)) ==
    MapThenSumSet(LAMBDA c : value(requests[c]), Controllers)

SumEpochs(value(_)) == MapThenSumSet(value, EpochIds)

\* What the requests of an epoch still hold in escrow, and what its claims owe.
Escrowed(e, requests) ==
    IF settled[e] = "Finalized" THEN 0
    ELSE SumRequests(requests[e], LAMBDA r : IF r.settled THEN 0 ELSE r.amount)

Owed(e, requests) ==
    IF settled[e] # "Finalized" THEN 0
    ELSE SumRequests(requests[e], LAMBDA r : IF r.settled THEN 0 ELSE r.claim)

\* The escrow bucket and the epoch totals are exactly the live requests: nothing
\* a controller paid in is forgotten by a cancellation, a finalization, an abort
\* or a refund, and finalizeEpoch prices the totals its controllers requested.
EscrowMatchesRequests ==
    /\ buckets.pendingDepositEscrow = SumEpochs(LAMBDA e : Escrowed(e, deposits))
    /\ epoch.open =>
         /\ epoch.depositAssets = SumRequests(deposits[epoch.id], LAMBDA r : r.amount)
         /\ epoch.redeemShares = SumRequests(redeems[epoch.id], LAMBDA r : r.amount)

\* Everything owed can be paid: the reserve covers every unclaimed redemption and
\* the vault's own shares cover every unclaimed deposit and every escrowed
\* redemption, the rounding dust of each epoch included (_priceDepositClaims,
\* _priceRedeemClaims and the InvariantViolation check of finalizeEpoch).
ClaimsCovered ==
    /\ SumEpochs(LAMBDA e : Owed(e, redeems)) <= buckets.claimReserve
    /\ SumEpochs(LAMBDA e : Owed(e, deposits) + Escrowed(e, redeems)) <= shares[Vault]

ListMatches(l, requests) ==
    \A c \in Controllers :
        /\ l.slot[c] # 0 <=> requests[c].amount # 0
        /\ l.slot[c] # 0 => l.slot[c] \in DOMAIN l.list /\ l.list[l.slot[c]] = c
        /\ {i \in DOMAIN l.list : l.list[i] = c} \subseteq {l.slot[c]}

\* The controller arrays hold each live request once, at the slot the slot map
\* names, after any sequence of requests and swap-and-pop cancellations.
SlotsMatchLists ==
    epoch.open => /\ ListMatches(lists.deposit, deposits[epoch.id])
                  /\ ListMatches(lists.redeem, redeems[epoch.id])

\* Settling an epoch never lowers the price per share of those who stay: with
\* the virtual offsets, (assets + 1) / (supply + VIRTUAL_SHARES) at the pricing
\* basis does not fall (VaultMath: rounding always favours the vault).
RoundingFavoursVault ==
    [][ LET supply == totalSupply
            assets == IF epoch.locked THEN epoch.lockedPricingAssets
                      ELSE recordSurplus(buckets).idleBacking
        IN  settled' # settled =>
              (assets + (contributed' - contributed) + 1) * (supply + VIRTUAL_SHARES)
                 >= (assets + 1) * (totalSupply' + VIRTUAL_SHARES)
      ]_vaultVars

\* The administrator or the guardian aborts a frozen epoch, and owners collect.
VaultFairSpec ==
    /\ VaultSpec
    /\ WF_vaultVars(abortEpoch)
    /\ \A e \in EpochIds, c \in Controllers :
         /\ WF_vaultVars(claimDeposit(e, c) \/ refundDeposit(e, c))
         /\ WF_vaultVars(claimRedeem(e, c) \/ refundRedeem(e, c))

collected(r) == r.amount # 0 => r.settled

\* After a freeze every owner gets their request out: the shares or assets it was
\* priced at, or a refund, whichever point of the epoch the freeze hit (freeze:
\* "Claims, abort, refunds ... remain").
FrozenFundsExit ==
    vaultStatus = "Frozen" ~>
        \A e \in EpochIds, c \in Controllers :
            collected(deposits[e][c]) /\ collected(redeems[e][c])
=============================================================================
