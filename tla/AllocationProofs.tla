-------------------------- MODULE AllocationProofs --------------------------
(***************************************************************************)
(* What `allocate` guarantees for every set of bids and every budgets.     *)
(***************************************************************************)
EXTENDS Allocation, Sums

\* Only a bidder that is among the budgets can pay: the others hold 0, and an
\* offer is at least 1.
LEMMA PayerIsOpen ==
  ASSUME AllocTypeOK, NEW b \in offers, CanPay(b)
  PROVE  /\ b.by \in DOMAIN remaining
         /\ b.amount \in Nat \ {0}
         /\ remaining[b.by] \in Nat
         /\ remaining[b.by] >= b.amount
<1>1. b \in Offer
  BY DEF AllocTypeOK
<1>2. b.by \in DOMAIN remaining
  BY <1>1 DEF CanPay, Remaining, Offer
<1>3. QED
  BY <1>1, <1>2 DEF CanPay, Remaining, Offer, AllocTypeOK

\* A step of the loop, with the award spelled out: either nobody could pay for
\* the player, or one bid on it that its author could pay was taken, and no
\* bid that could be paid was higher.
LEMMA WalkStep ==
  ASSUME AllocTypeOK, Walk
  PROVE  \E pl \in pending :
           /\ pending' = pending \ {pl}
           /\ UNCHANGED <<offers, budgets>>
           /\ \/ /\ UNCHANGED <<remaining, allocations>>
                 /\ \A b \in On(offers, pl) : ~CanPay(b)
              \/ \E b \in On(offers, pl) :
                   /\ CanPay(b)
                   /\ \A c \in On(offers, pl) : CanPay(c) => c.amount <= b.amount
                   /\ allocations' = allocations \cup {b}
                   /\ remaining' = [remaining EXCEPT ![b.by] = @ - b.amount]
<1>1. PICK pl \in Player : AwardPlayer(pl) \/ LeaveUnsold(pl)
  BY DEF Walk
<1>2. /\ pl \in pending
      /\ pending' = pending \ {pl}
      /\ UNCHANGED <<offers, budgets>>
  BY <1>1 DEF AwardPlayer, LeaveUnsold, NextPlayer
<1>3. CASE LeaveUnsold(pl)
  BY <1>2, <1>3 DEF LeaveUnsold
<1>4. CASE AwardPlayer(pl)
  <2>1. PICK drawn \in Leading(On(offers, pl)), b \in On(offers, pl) :
          /\ Takes(b, drawn, On(offers, pl))
          /\ allocations' = allocations \cup {b}
          /\ remaining' = [remaining EXCEPT ![b.by] = @ - b.amount]
    BY <1>4 DEF AwardPlayer, Award
  <2>2. CanPay(b)
    BY <2>1 DEF Takes
  <2>3. ASSUME NEW c \in On(offers, pl), CanPay(c)
        PROVE  c.amount <= b.amount
    <3>1. b.amount \in Nat /\ c.amount \in Nat
      BY DEF On, AllocTypeOK, Offer
    <3>2. CASE b = drawn
      BY <3>2 DEF Leading
    <3>3. CASE \A d \in On(offers, pl) : CanPay(d) => Ahead(b, d)
      BY <2>3, <3>1, <3>3 DEF Ahead
    <3>4. QED
      BY <2>1, <3>2, <3>3 DEF Takes
  <2>4. QED
    BY <1>2, <2>1, <2>2, <2>3
<1>5. QED
  BY <1>1, <1>3, <1>4

\* Before the first turn nothing is spent and nothing awarded.
LEMMA InitType == AllocInit => AllocTypeOK
  BY DEF AllocInit, AllocTypeOK

\* A turn of the loop debits a budget that covers the bid.
LEMMA WalkType == AllocTypeOK /\ [Walk]_allocVars => AllocTypeOK'
<1> SUFFICES ASSUME AllocTypeOK, Walk
             PROVE  AllocTypeOK'
  BY DEF AllocTypeOK, allocVars
<1>1. PICK pl \in pending :
           /\ pending' = pending \ {pl}
           /\ UNCHANGED <<offers, budgets>>
           /\ \/ /\ UNCHANGED <<remaining, allocations>>
                 /\ \A b \in On(offers, pl) : ~CanPay(b)
              \/ \E b \in On(offers, pl) :
                   /\ CanPay(b)
                   /\ \A c \in On(offers, pl) : CanPay(c) => c.amount <= b.amount
                   /\ allocations' = allocations \cup {b}
                   /\ remaining' = [remaining EXCEPT ![b.by] = @ - b.amount]
  BY WalkStep
<1>2. CASE UNCHANGED <<remaining, allocations>>
  BY <1>1, <1>2 DEF AllocTypeOK
<1>3. ASSUME NEW b \in On(offers, pl), CanPay(b),
             allocations' = allocations \cup {b},
             remaining' = [remaining EXCEPT ![b.by] = @ - b.amount]
      PROVE  AllocTypeOK'
  <2>1. b \in offers
    BY DEF On
  <2>2. remaining[b.by] - b.amount \in Nat
    BY <1>3, <2>1, PayerIsOpen
  <2>3. remaining' \in [DOMAIN budgets -> Nat]
    BY <1>3, <2>2 DEF AllocTypeOK
  <2>4. QED
    BY <1>1, <1>3, <2>1, <2>3 DEF AllocTypeOK
<1>4. QED
  BY <1>1, <1>2, <1>3

\* `allocate` never overdraws: the running budgets stay natural numbers, for
\* any bids (within the cap or not) and any budgets.
THEOREM NeverOverdrawn == AllocSpec => []AllocTypeOK
  BY InitType, WalkType, PTL DEF AllocSpec

\* A turn awards a player that nobody was awarded before.
LEMMA WalkOneTaker ==
  AllocTypeOK /\ OneTaker /\ [Walk]_allocVars => OneTaker'
<1> SUFFICES ASSUME AllocTypeOK, OneTaker, Walk
             PROVE  OneTaker'
  BY DEF OneTaker, allocVars
<1>1. PICK pl \in pending :
           /\ pending' = pending \ {pl}
           /\ \/ UNCHANGED allocations
              \/ \E b \in On(offers, pl) : allocations' = allocations \cup {b}
  BY WalkStep
<1>2. \A a \in allocations : a.on # pl
  BY DEF OneTaker
<1>3. \A a \in allocations' : a \in allocations \/ a.on = pl
  BY <1>1 DEF On
<1>4. \A a \in allocations' : a.on \notin pending'
  BY <1>1, <1>3 DEF OneTaker
<1>5. \A a, b \in allocations' : a.on = b.on => a = b
  BY <1>1, <1>2 DEF OneTaker, On
<1>6. QED
  BY <1>4, <1>5 DEF OneTaker

\* A player has at most one taker, and none before its turn.
THEOREM OneTakerHolds == AllocSpec => []OneTaker
<1>1. AllocInit => OneTaker
  BY DEF AllocInit, OneTaker
<1>2. QED
  BY <1>1, NeverOverdrawn, WalkOneTaker, PTL DEF AllocSpec

\* A bid refused because it could not be paid still cannot: budgets only go
\* down.
LEMMA WalkNobodyPassedOver ==
  AllocTypeOK /\ NobodyPassedOver /\ [Walk]_allocVars => NobodyPassedOver'
<1> SUFFICES ASSUME AllocTypeOK, NobodyPassedOver, Walk
             PROVE  NobodyPassedOver'
  BY DEF NobodyPassedOver, allocVars, CanPay, Remaining
<1>1. PICK pl \in pending :
           /\ pending' = pending \ {pl}
           /\ UNCHANGED <<offers, budgets>>
           /\ \/ /\ UNCHANGED <<remaining, allocations>>
                 /\ \A b \in On(offers, pl) : ~CanPay(b)
              \/ \E b \in On(offers, pl) :
                   /\ CanPay(b)
                   /\ \A c \in On(offers, pl) : CanPay(c) => c.amount <= b.amount
                   /\ allocations' = allocations \cup {b}
                   /\ remaining' = [remaining EXCEPT ![b.by] = @ - b.amount]
  BY WalkStep
<1>2. CASE /\ UNCHANGED <<remaining, allocations>>
           /\ \A b \in On(offers, pl) : ~CanPay(b)
  BY <1>1, <1>2 DEF NobodyPassedOver, CanPay, Remaining, On
<1>3. ASSUME NEW b \in On(offers, pl),
             CanPay(b),
             \A c \in On(offers, pl) : CanPay(c) => c.amount <= b.amount,
             allocations' = allocations \cup {b},
             remaining' = [remaining EXCEPT ![b.by] = @ - b.amount]
      PROVE  NobodyPassedOver'
  <2>1. b \in offers /\ b.on = pl
    BY DEF On
  \* A budget only goes down, so a bid that could not be paid still cannot.
  <2>2. ASSUME NEW c \in offers, ~CanPay(c)
        PROVE  ~CanPay(c)'
    <3>1. c.amount \in Nat /\ c.by \in Participant
      BY DEF AllocTypeOK, Offer
    <3>2. CASE c.by = b.by
      BY <1>3, <2>1, <2>2, <3>1, <3>2, PayerIsOpen
         DEF CanPay, Remaining, AllocTypeOK
    <3>3. CASE c.by # b.by
      BY <1>3, <2>2, <3>3 DEF CanPay, Remaining, AllocTypeOK
    <3>4. QED
      BY <3>2, <3>3
  <2>3. ASSUME NEW c \in offers
        PROVE  \/ c.on \in pending' \/ ~CanPay(c)'
               \/ \E a \in allocations' : a.on = c.on /\ a.amount >= c.amount
    <3>1. c.amount \in Nat /\ b.amount \in Nat
      BY <2>1 DEF AllocTypeOK, Offer
    <3>2. CASE c.on = pl
      <4>1. CASE CanPay(c)
        BY <1>3, <2>1, <3>1, <3>2, <4>1 DEF On
      <4>2. CASE ~CanPay(c)
        BY <2>2, <4>2
      <4>3. QED
        BY <4>1, <4>2
    <3>3. CASE c.on # pl
      BY <1>1, <1>3, <2>2, <3>3 DEF NobodyPassedOver
    <3>4. QED
      BY <3>2, <3>3
  <2>4. QED
    BY <1>1, <2>3 DEF NobodyPassedOver, CanPay
<1>4. QED
  BY <1>1, <1>2, <1>3

\* Whoever lost a player lost it to a bid at least as high, or could not pay.
THEOREM NobodyPassedOverHolds == AllocSpec => []NobodyPassedOver
<1>1. AllocInit => NobodyPassedOver
  BY DEF AllocInit, NobodyPassedOver
<1>2. QED
  BY <1>1, NeverOverdrawn, WalkNobodyPassedOver, PTL DEF AllocSpec

-----------------------------------------------------------------------------
(* What bids come to *)

\* One more bid adds its amount.
LEMMA TotalAdd ==
  ASSUME NEW S, IsFiniteSet(S), NEW b, b \notin S,
         \A a \in S \cup {b} : a.amount \in Int
  PROVE  Total(S \cup {b}) = Total(S) + b.amount
<1> DEFINE f == [a \in S \cup {b} |-> a.amount]
           g == [a \in S |-> a.amount]
<1>1. /\ f[b] = b.amount
      /\ \A a \in S \cup {b} : f[a] \in Int
      /\ DOMAIN f = S \cup {b} /\ DOMAIN g = S /\ \A a \in S : f[a] = g[a]
  OBVIOUS
<1>2. Total(S) = SumFunction(g) /\ Total(S \cup {b}) = SumFunction(f)
  BY DEF Total
<1> HIDE DEF f, g
<1>3. /\ SumFunction(g) = SumFunctionOnSet(f, S)
      /\ SumFunction(f) = SumFunctionOnSet(f, S \cup {b})
  BY <1>1, SumFunctionIs
<1>4. SumFunctionOnSet(f, S \cup {b}) = SumFunctionOnSet(f, S) + f[b]
  BY <1>1, SumAdd
<1>5. QED
  BY <1>1, <1>2, <1>3, <1>4

\* Fewer bids do not come to more.
LEMMA TotalGrows ==
  ASSUME NEW S, IsFiniteSet(S), \A a \in S : a.amount \in Nat,
         NEW R, R \subseteq S
  PROVE  Total(R) \in Nat /\ Total(S) \in Nat /\ Total(R) <= Total(S)
<1> DEFINE f == [a \in S |-> a.amount]
           g == [a \in R |-> a.amount]
<1>1. /\ \A a \in S : f[a] \in Nat
      /\ DOMAIN f = S /\ DOMAIN g = R /\ \A a \in R : f[a] = g[a]
  OBVIOUS
<1>2. Total(S) = SumFunction(f) /\ Total(R) = SumFunction(g)
  BY DEF Total
<1> HIDE DEF f, g
<1>3. /\ SumFunction(g) = SumFunctionOnSet(f, R)
      /\ SumFunction(f) = SumFunctionOnSet(f, S)
  BY <1>1, SumFunctionIs
<1>4. IsFiniteSet(R) /\ \A a \in R : f[a] \in Nat
  BY <1>1, FS_Subset
<1>5. QED
  BY <1>1, <1>2, <1>3, <1>4, SumGrows

\* No bids come to nothing.
LEMMA TotalEmpty == Total({}) = 0
<1> DEFINE g == [a \in {} |-> a.amount]
<1>1. DOMAIN g = {} /\ Total({}) = SumFunction(g)
  BY DEF Total
<1> HIDE DEF g
<1>2. SumFunction(g) = SumFunctionOnSet(g, {})
  BY <1>1, SumFunctionIs, Zenon
<1>3. QED
  BY <1>1, <1>2, SumEmpty

-----------------------------------------------------------------------------
(* Who pays what *)

\* What p was awarded so far.
Won(p) == {a \in allocations : a.by = p}

\* A participant wins finitely many players, for whole amounts.
LEMMA WonFinite ==
  ASSUME AllocTypeOK, OneTaker, NEW p
  PROVE  IsFiniteSet(Won(p)) /\ \A a \in Won(p) : a.amount \in Nat
<1> DEFINE tag == [a \in Won(p) |-> a.on]
<1>1. Won(p) \subseteq Offer
  BY DEF Won, AllocTypeOK
<1>2. \A a \in Won(p) : tag[a] \in Player
  BY <1>1 DEF Offer
<1>3. \A a, c \in Won(p) : tag[a] = tag[c] => a = c
  BY DEF Won, OneTaker
<1> HIDE DEF tag
<1>4. IsFiniteSet(Won(p))
  BY <1>2, <1>3, IdsAssumption, TaggedFinite
<1>5. QED
  BY <1>1, <1>4 DEF Offer

\* A sale moves its price from the budget to the sum of what was won.
LEMMA WalkDebits ==
  AllocTypeOK /\ OneTaker /\ DebitedExactly /\ [Walk]_allocVars => DebitedExactly'
<1> SUFFICES ASSUME AllocTypeOK, OneTaker, DebitedExactly, Walk
             PROVE  DebitedExactly'
  BY DEF DebitedExactly, allocVars
<1>1. PICK pl \in pending :
           /\ pending' = pending \ {pl}
           /\ UNCHANGED <<offers, budgets>>
           /\ \/ UNCHANGED <<remaining, allocations>>
              \/ \E b \in On(offers, pl) :
                   /\ CanPay(b)
                   /\ allocations' = allocations \cup {b}
                   /\ remaining' = [remaining EXCEPT ![b.by] = @ - b.amount]
  BY WalkStep
<1>2. CASE UNCHANGED <<remaining, allocations>>
  BY <1>1, <1>2 DEF DebitedExactly
<1>3. ASSUME NEW b \in On(offers, pl), CanPay(b),
             allocations' = allocations \cup {b},
             remaining' = [remaining EXCEPT ![b.by] = @ - b.amount],
             NEW p \in DOMAIN budgets
      PROVE  budgets[p] - remaining'[p] = Total({a \in allocations' : a.by = p})
  <2>1. b \in offers /\ b.on = pl /\ b \notin allocations
    BY DEF On, OneTaker
  <2>2. b.by \in DOMAIN remaining /\ b.amount \in Nat
    BY <1>3, <2>1, PayerIsOpen
  <2>3. /\ DOMAIN remaining = DOMAIN budgets
        /\ budgets[p] \in Nat /\ remaining[p] \in Nat
    BY DEF AllocTypeOK
  <2>4. budgets[p] - remaining[p] = Total(Won(p))
    BY DEF DebitedExactly, Won
  <2>5. CASE p = b.by
    <3>1. {a \in allocations' : a.by = p} = Won(p) \cup {b}
      BY <1>3, <2>5 DEF Won
    <3>2. b \notin Won(p) /\ \A a \in Won(p) \cup {b} : a.amount \in Int
      <4>1. \A a \in Won(p) : a.amount \in Nat
        BY WonFinite
      <4>2. b \notin Won(p)
        BY <2>1 DEF Won
      <4>3. QED
        BY <2>2, <4>1, <4>2
    <3>3. Total(Won(p) \cup {b}) = Total(Won(p)) + b.amount
      BY <3>2, WonFinite, TotalAdd
    <3>4. remaining'[p] = remaining[p] - b.amount
      BY <1>3, <2>2, <2>5
    <3>5. Total({a \in allocations' : a.by = p}) = Total(Won(p)) + b.amount
      BY <3>1, <3>3, Zenon
    <3>6. QED
      BY <2>2, <2>3, <2>4, <3>4, <3>5
  <2>6. CASE p # b.by
    <3>1. {a \in allocations' : a.by = p} = Won(p)
      BY <1>3, <2>6 DEF Won
    <3>2. Total({a \in allocations' : a.by = p}) = Total(Won(p))
      BY <3>1, Zenon
    <3>3. remaining'[p] = remaining[p]
      BY <1>3, <2>3, <2>6
    <3>4. QED
      BY <2>4, <3>2, <3>3
  <2>7. QED
    BY <2>5, <2>6
<1>4. QED
  BY <1>1, <1>2, <1>3 DEF DebitedExactly

\* Nobody has won anything yet, and nothing has been debited.
LEMMA InitDebits == AllocInit => DebitedExactly
<1> SUFFICES ASSUME AllocInit, NEW p \in DOMAIN budgets
             PROVE  budgets[p] - remaining[p]
                      = Total({a \in allocations : a.by = p})
  BY DEF DebitedExactly
<1>1. {a \in allocations : a.by = p} = {}
  BY DEF AllocInit
<1>2. Total({a \in allocations : a.by = p}) = 0
  BY <1>1, TotalEmpty, Zenon
<1>3. budgets[p] \in Nat /\ remaining[p] = budgets[p]
  BY DEF AllocInit
<1>4. QED
  BY <1>2, <1>3

\* What left a budget is exactly what its owner was awarded: a losing bid is
\* free of charge, and a winning one is charged once.
THEOREM DebitedExactlyHolds == AllocSpec => []DebitedExactly
  BY InitDebits, NeverOverdrawn, OneTakerHolds, WalkDebits, PTL DEF AllocSpec

\* Under the cap a pending bid can be paid, whatever its author won before it.
LEMMA CapLeavesEnough ==
  ASSUME AllocTypeOK, OneTaker, DebitedExactly, OneOfferEach(offers), CapHeld,
         NEW b \in offers, b.on \in pending
  PROVE  CanPay(b)
<1> DEFINE mine == {c \in offers : c.by = b.by}
           tag == [c \in mine |-> c.on]
<1>1. b \in Offer /\ mine \subseteq Offer /\ b \in mine
  BY DEF AllocTypeOK
<1>2. IsFiniteSet(mine)
  <2>1. \A c \in mine : tag[c] \in Player
    BY <1>1 DEF Offer
  <2>2. \A c, d \in mine : tag[c] = tag[d] => c = d
    BY DEF OneOfferEach
  <2> HIDE DEF tag, mine
  <2>3. QED
    BY <2>1, <2>2, IdsAssumption, TaggedFinite
<1>3. b.by \in DOMAIN budgets /\ Total(mine) <= budgets[b.by]
  BY DEF CapHeld
<1>4. budgets[b.by] - remaining[b.by] = Total(Won(b.by))
  BY <1>3 DEF DebitedExactly, Won
<1>5. b \notin Won(b.by) /\ Won(b.by) \cup {b} \subseteq mine
  BY DEF Won, OneTaker, AllocTypeOK
<1>6. \A c \in mine : c.amount \in Nat
  BY <1>1 DEF Offer
<1>7. b.amount \in Nat
  BY <1>1 DEF Offer
<1> HIDE DEF mine
<1>8. Total(Won(b.by) \cup {b}) = Total(Won(b.by)) + b.amount
  <2>1. \A c \in Won(b.by) \cup {b} : c.amount \in Int
    BY <1>5, <1>6
  <2>2. QED
    BY <1>5, <2>1, WonFinite, TotalAdd
<1>9. Total(Won(b.by) \cup {b}) <= Total(mine) /\ Total(mine) \in Nat
  BY <1>2, <1>5, <1>6, TotalGrows
<1>10. Total(Won(b.by)) \in Nat
  BY WonFinite, TotalGrows
<1>11. remaining[b.by] \in Nat /\ budgets[b.by] \in Nat /\ b.by \in DOMAIN remaining
  BY <1>3 DEF AllocTypeOK
<1>12. remaining[b.by] >= b.amount
  BY <1>3, <1>4, <1>7, <1>8, <1>9, <1>10, <1>11
<1>13. QED
  BY <1>11, <1>12 DEF CanPay, Remaining

\* While the cap holds the leading bid can be paid, so it is the one that wins.
LEMMA WalkLeaderWins ==
  ASSUME AllocTypeOK, OneTaker, DebitedExactly, OneOfferEach(offers),
         CapMakesLeaderWin, [Walk]_allocVars
  PROVE  CapMakesLeaderWin' /\ OneOfferEach(offers)'
<1>1. CASE UNCHANGED allocVars
  BY <1>1 DEF allocVars, CapMakesLeaderWin, CapHeld, OneOfferEach
<1>2. CASE Walk
  <2>1. PICK pl \in pending :
             /\ pending' = pending \ {pl}
             /\ UNCHANGED <<offers, budgets>>
             /\ \/ /\ UNCHANGED <<remaining, allocations>>
                   /\ \A b \in On(offers, pl) : ~CanPay(b)
                \/ \E b \in On(offers, pl) :
                     /\ \A c \in On(offers, pl) : CanPay(c) => c.amount <= b.amount
                     /\ allocations' = allocations \cup {b}
    BY <1>2, WalkStep
  <2>2. OneOfferEach(offers)' /\ (CapHeld' => CapHeld)
    BY <2>1 DEF CapHeld, OneOfferEach
  <2>3. ASSUME CapHeld, NEW b \in offers
        PROVE  \/ b.on \in pending'
               \/ \E a \in allocations' : a.on = b.on /\ a.amount >= b.amount
    <3>1. CASE b.on = pl
      <4>1. b \in On(offers, pl) /\ CanPay(b)
        BY <2>1, <2>3, <3>1, CapLeavesEnough DEF On
      <4>2. PICK a \in On(offers, pl) :
              b.amount <= a.amount /\ allocations' = allocations \cup {a}
        BY <2>1, <4>1
      <4>3. a.on = b.on /\ a.amount \in Nat /\ b.amount \in Nat
        BY <3>1 DEF On, AllocTypeOK, Offer
      <4>4. QED
        BY <4>2, <4>3
    <3>2. CASE b.on # pl
      BY <2>1, <2>3, <3>2 DEF CapMakesLeaderWin
    <3>3. QED
      BY <3>1, <3>2
  <2>4. QED
    BY <2>1, <2>2, <2>3 DEF CapMakesLeaderWin
<1>3. QED
  BY <1>1, <1>2

\* The docstring of `allocate`: if nobody bids for more than its budget in all,
\* the guard rail stays idle and every player goes to one of its highest bids.
THEOREM CapMakesLeaderWinHolds == AllocSpec => []CapMakesLeaderWin
<1>1. AllocInit => OneOfferEach(offers) /\ CapMakesLeaderWin
  BY DEF AllocInit, CapMakesLeaderWin
<1>2. AllocTypeOK /\ OneTaker /\ DebitedExactly /\ OneOfferEach(offers)
        /\ CapMakesLeaderWin /\ [Walk]_allocVars
        => CapMakesLeaderWin' /\ OneOfferEach(offers)'
  BY WalkLeaderWins
<1>3. QED
  BY <1>1, <1>2, NeverOverdrawn, OneTakerHolds, DebitedExactlyHolds, PTL
     DEF AllocSpec

=============================================================================
