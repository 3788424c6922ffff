----------------------------- MODULE Allocation -----------------------------
(***************************************************************************)
(* Awarding the players of one closed-bid round                            *)
(* (src/mpg/mercato/allocation.py, `allocate`).                            *)
(*                                                                         *)
(* The function is modelled as the loop it is: one step per player, in     *)
(* ascending player id, each step reading the running budgets the previous *)
(* steps left behind.  The seeded draw between equal leading bids is a     *)
(* nondeterministic choice.  Journal entries are left out.                 *)
(***************************************************************************)
EXTENDS Integers, FiniteSets, FiniteSetsExt

CONSTANTS
  Participant,  \* participant ids; numbers, because ties are ordered by id
  Player        \* player ids; numbers, because players are walked by id

ASSUME IdsAssumption ==
  /\ Participant \subseteq Nat
  /\ Player \subseteq Nat
  /\ IsFiniteSet(Player)

VARIABLES
  offers,       \* the bids handed to allocate
  budgets,      \* the budgets handed to allocate: one per *open* participant
  remaining,    \* result.budgets, the copy that is debited
  pending,      \* players that drew a bid and are still to be walked
  allocations   \* result.allocations; an allocation is the bid it satisfies

allocVars == <<offers, budgets, remaining, pending, allocations>>

\* A BidInput.  The table refuses an amount under 1 (ck_bid_amount_positive).
Offer == [by: Participant, on: Player, amount: Nat \ {0}]

\* uq_bid_round_part_player: one bid per participant and player in a round.
OneOfferEach(S) ==
  \A b, c \in S : b.by = c.by /\ b.on = c.on => b = c

-----------------------------------------------------------------------------

\* What the bids of S come to.
Total(S) == SumFunction([b \in S |-> b.amount])

On(S, pl) == {b \in S : b.on = pl}

\* A slip: sorted by amount instead of -amount.
Trailing(S) == {b \in S : \A c \in S : b.amount <= c.amount}

\* The bids tied on the largest amount of S.
Leading(S) == {b \in S : \A c \in S : c.amount <= b.amount}

\* result.budgets.get(participant, 0)
Remaining(p) == IF p \in DOMAIN remaining THEN remaining[p] ELSE 0

\* A slip: tested against the budget handed in, not the running one.
CanPayUndebited(b) == b.by \in DOMAIN budgets /\ budgets[b.by] >= b.amount

CanPay(b) == Remaining(b.by) >= b.amount

\* b comes before c in the list sorted by (-amount, participant_id).
Ahead(b, c) == b.amount > c.amount \/ (b.amount = c.amount /\ b.by <= c.by)

\* The drawn leader takes the player if the budget allows; otherwise the list
\* is walked down and the first candidate that can still pay takes it.
Takes(b, drawn, S) ==
  /\ CanPay(b)
  /\ \/ b = drawn
     \/ ~CanPay(drawn) /\ \A c \in S : CanPay(c) => Ahead(b, c)

\* Slips: no break once the player is awarded, no debit, losers debited too.
AwardToAll(pl) ==
  /\ allocations' = allocations \cup {b \in On(offers, pl) : CanPay(b)}
  /\ UNCHANGED remaining

AwardForFree(pl) ==
  \E drawn \in Leading(On(offers, pl)), b \in On(offers, pl) :
    /\ Takes(b, drawn, On(offers, pl))
    /\ allocations' = allocations \cup {b}
    /\ UNCHANGED remaining

AwardChargingLosers(pl) ==
  \E drawn \in Leading(On(offers, pl)), b \in On(offers, pl) :
    /\ Takes(b, drawn, On(offers, pl))
    /\ allocations' = allocations \cup {b}
    /\ remaining' = [p \in DOMAIN remaining |->
                       IF \E c \in On(offers, pl) : c.by = p /\ CanPay(c)
                       THEN remaining[p] - b.amount ELSE remaining[p]]

Award(pl) ==
  \E drawn \in Leading(On(offers, pl)), b \in On(offers, pl) :
    /\ Takes(b, drawn, On(offers, pl))
    /\ allocations' = allocations \cup {b}
    /\ remaining' = [remaining EXCEPT ![b.by] = @ - b.amount]

NextPlayer(pl) ==
  /\ pl \in pending
  /\ \A other \in pending : pl <= other
  /\ pending' = pending \ {pl}
  /\ UNCHANGED <<offers, budgets>>

\* One turn of the loop over sorted(by_player): the player finds a taker, ...
AwardPlayer(pl) ==
  /\ NextPlayer(pl)
  /\ \E b \in On(offers, pl) : CanPay(b)
  /\ Award(pl)

\* ... or every candidate was refused with an "insufficient_budget" entry.
LeaveUnsold(pl) ==
  /\ NextPlayer(pl)
  /\ \A b \in On(offers, pl) : ~CanPay(b)
  /\ UNCHANGED <<remaining, allocations>>

Walk == \E pl \in Player : AwardPlayer(pl) \/ LeaveUnsold(pl)

\* The call allocate(S, money): nothing is awarded yet.
Call(S, money) ==
  /\ offers' = S
  /\ budgets' = money
  /\ remaining' = money
  /\ pending' = {b.on : b \in S}
  /\ allocations' = {}

AllocInit ==
  /\ offers \in SUBSET Offer
  /\ OneOfferEach(offers)
  /\ \E open \in SUBSET Participant : budgets \in [open -> Nat]
  /\ remaining = budgets
  /\ pending = {b.on : b \in offers}
  /\ allocations = {}

AllocSpec == AllocInit /\ [][Walk]_allocVars

-----------------------------------------------------------------------------
(* Properties *)

\* Every running budget stays a natural number: `allocate` never overdraws,
\* whatever the bids and the budgets it is given.
AllocTypeOK ==
  /\ offers \subseteq Offer
  /\ DOMAIN budgets \subseteq Participant
  /\ budgets \in [DOMAIN budgets -> Nat]
  /\ remaining \in [DOMAIN budgets -> Nat]
  /\ pending \subseteq {b.on : b \in offers}
  /\ allocations \subseteq offers

\* A player is awarded to one bidder, and only once it has been walked.
OneTaker ==
  /\ \A a, b \in allocations : a.on = b.on => a = b
  /\ \A a \in allocations : a.on \notin pending

\* A refused bid was beaten by one at least as high, or its author could not
\* pay it: nobody is passed over for a lower bid.
NobodyPassedOver ==
  \A b \in offers :
    b.on \in pending \/ ~CanPay(b)
      \/ \E a \in allocations : a.on = b.on /\ a.amount >= b.amount

\* What left a budget is exactly what its owner's allocations cost: a losing
\* bid costs nothing.
DebitedExactly ==
  \A p \in DOMAIN budgets :
    budgets[p] - remaining[p] = Total({a \in allocations : a.by = p})

\* The cap of place_bid, as it reaches this function: every bidder is among
\* the budgets and bids for no more than its budget in all.
CapHeld ==
  \A b \in offers :
    /\ b.by \in DOMAIN budgets
    /\ Total({c \in offers : c.by = b.by}) <= budgets[b.by]

\* The docstring of `allocate`: under the cap the guard rail stays idle, so
\* every walked player went to one of its leading bids.
CapMakesLeaderWin ==
  CapHeld =>
    \A b \in offers :
      b.on \in pending
        \/ \E a \in allocations : a.on = b.on /\ a.amount >= b.amount

=============================================================================
