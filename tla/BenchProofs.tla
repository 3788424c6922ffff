---------------------------- MODULE BenchProofs -----------------------------
(***************************************************************************)
(* What a sheet of bids costs, for every catalogue, quota and budget: the  *)
(* proofs of SheetAccepted and ReserveKept, for the random bids, the       *)
(* baseline's and a model's.  A sheet grows by one bid at a time; what is  *)
(* proved of each is that the money left after it still buys the players   *)
(* that are still missing, one coin each.  Then what an agent makes of its *)
(* squad: the proof of LineupAccepted, from the players in a row that a    *)
(* lineup is and the places they fill, line by line.                       *)
(***************************************************************************)
EXTENDS Bench, Sums

\* A third of the quotas fits in the bids of a round: 18 players and 6 bids in
\* the program.  The random generator and the baseline aim at that third.
ShortTargets == SumFunctionOnSet(Quota, Lines) <= 3 * MaxBids

\* The players of line l a sheet bids on, and what it costs.
Bought(s, l) == Cardinality({i \in DOMAIN s : LineOf(s[i].player) = l})
Cost(s) == SumFunction([i \in DOMAIN s |-> s[i].amount])

Bids == [player : Players, amount : Nat]

-----------------------------------------------------------------------------
(* Numbers *)

\* The larger and the smaller of two integers.
LEMMA MaxOfTwo ==
  ASSUME NEW a \in Int, NEW b \in Int
  PROVE  Max({a, b}) = IF a >= b THEN a ELSE b
<1> DEFINE m == IF a >= b THEN a ELSE b
<1>1. m \in {a, b} /\ \A y \in {a, b} : m >= y
  OBVIOUS
<1>2. \A x \in {a, b} : (\A y \in {a, b} : x >= y) => x = m
  OBVIOUS
<1> HIDE DEF m
<1>3. Max({a, b}) = m
  BY <1>1, <1>2 DEF Max
<1>4. QED
  BY <1>3 DEF m

\* The smaller of two integers.
LEMMA MinOfTwo ==
  ASSUME NEW a \in Int, NEW b \in Int
  PROVE  Min({a, b}) = IF a <= b THEN a ELSE b
<1> DEFINE m == IF a <= b THEN a ELSE b
<1>1. m \in {a, b} /\ \A y \in {a, b} : m <= y
  OBVIOUS
<1>2. \A x \in {a, b} : (\A y \in {a, b} : x <= y) => x = m
  OBVIOUS
<1> HIDE DEF m
<1>3. Min({a, b}) = m
  BY <1>1, <1>2 DEF Min
<1>4. QED
  BY <1>3 DEF m

\* One more element, the larger set being named.
LEMMA SumWith ==
  ASSUME NEW f, NEW S, IsFiniteSet(S), NEW x, x \notin S, NEW T, T = S \cup {x},
         \A y \in T : f[y] \in Int
  PROVE  /\ IsFiniteSet(T)
         /\ SumFunctionOnSet(f, T) = SumFunctionOnSet(f, S) + f[x]
  BY SumAdd, FS_AddElement

\* A sum over the four lines is the sum of its four terms.
LEMMA FourLines ==
  ASSUME NEW f, \A l \in Lines : f[l] \in Int
  PROVE  SumFunctionOnSet(f, Lines) = f[1] + f[2] + f[3] + f[4]
<1>0. Lines = {1, 2, 3, 4}
  BY DEF Lines, G, D, M, A
<1>1. \A l \in {1, 2, 3, 4} : f[l] \in Int
  BY <1>0
<1>2. IsFiniteSet({}) /\ SumFunctionOnSet(f, {}) = 0
  BY FS_EmptySet, SumEmpty
<1>3. IsFiniteSet({1}) /\ SumFunctionOnSet(f, {1}) = SumFunctionOnSet(f, {}) + f[1]
  <2>1. {1} = {} \cup {1} /\ 1 \notin {} /\ \A y \in {1} : f[y] \in Int
    BY <1>1
  <2>2. QED
    BY <1>2, <2>1, SumWith
<1>4. IsFiniteSet({1, 2}) /\ SumFunctionOnSet(f, {1, 2}) = SumFunctionOnSet(f, {1}) + f[2]
  <2>1. {1, 2} = {1} \cup {2} /\ 2 \notin {1} /\ \A y \in {1, 2} : f[y] \in Int
    BY <1>1
  <2>2. QED
    BY <1>3, <2>1, SumWith
<1>5. /\ IsFiniteSet({1, 2, 3})
      /\ SumFunctionOnSet(f, {1, 2, 3}) = SumFunctionOnSet(f, {1, 2}) + f[3]
  <2>1. {1, 2, 3} = {1, 2} \cup {3} /\ 3 \notin {1, 2} /\ \A y \in {1, 2, 3} : f[y] \in Int
    BY <1>1
  <2>2. QED
    BY <1>4, <2>1, SumWith
<1>6. SumFunctionOnSet(f, {1, 2, 3, 4}) = SumFunctionOnSet(f, {1, 2, 3}) + f[4]
  <2>1. {1, 2, 3, 4} = {1, 2, 3} \cup {4} /\ 4 \notin {1, 2, 3}
    OBVIOUS
  <2>2. QED
    BY <1>1, <1>5, <2>1, SumWith
<1>7. f[1] \in Int /\ f[2] \in Int /\ f[3] \in Int /\ f[4] \in Int
  BY <1>1
<1>8. QED
  BY <1>0, <1>2, <1>3, <1>4, <1>5, <1>6, <1>7

\* The same for a function of the lines.
LEMMA SumOfLines ==
  ASSUME NEW f, DOMAIN f = Lines, \A l \in Lines : f[l] \in Int
  PROVE  SumFunction(f) = f[1] + f[2] + f[3] + f[4]
  BY FourLines DEF SumFunction

-----------------------------------------------------------------------------
(* A sheet and one more bid *)

\* What is on a sheet, place by place, when a bid is added.
LEMMA Appended ==
  ASSUME NEW s \in Seq(Bids), NEW b \in Bids
  PROVE  /\ Append(s, b) \in Seq(Bids)
         /\ Len(s) \in Nat /\ DOMAIN s = 1..Len(s)
         /\ Len(Append(s, b)) = Len(s) + 1
         /\ DOMAIN Append(s, b) = DOMAIN s \cup {Len(s) + 1}
         /\ Len(s) + 1 \notin DOMAIN s
         /\ Append(s, b)[Len(s) + 1] = b
         /\ \A i \in DOMAIN s : Append(s, b)[i] = s[i] /\ s[i] \in Bids
<1>1. 1..(Len(s) + 1) = 1..Len(s) \cup {Len(s) + 1}
  OBVIOUS
<1>2. QED
  BY <1>1

\* The places of a sheet, and what is on them.
LEMMA Places ==
  ASSUME NEW s \in Seq(Bids)
  PROVE  /\ DOMAIN s = 1..Len(s) /\ Len(s) \in Nat
         /\ IsFiniteSet(DOMAIN s) /\ Cardinality(DOMAIN s) = Len(s)
         /\ \A i \in DOMAIN s : s[i].player \in Players /\ s[i].amount \in Nat
<1>1. DOMAIN s = 1..Len(s) /\ Len(s) \in Nat
  OBVIOUS
<1>2. IsFiniteSet(DOMAIN s) /\ Cardinality(DOMAIN s) = Len(s)
  BY <1>1, FS_Interval
<1>3. \A i \in DOMAIN s : s[i] \in Bids
  OBVIOUS
<1>4. QED
  BY <1>1, <1>2, <1>3 DEF Bids

\* Every sheet costs a natural number, any part of it no more than the whole.
LEMMA CostIsNat ==
  ASSUME NEW s \in Seq(Bids)
  PROVE  /\ Cost(s) \in Nat
         /\ \A w \in SUBSET DOMAIN s :
              /\ SumFunctionOnSet([i \in DOMAIN s |-> s[i].amount], w) \in Nat
              /\ SumFunctionOnSet([i \in DOMAIN s |-> s[i].amount], w) <= Cost(s)
<1> DEFINE f == [i \in DOMAIN s |-> s[i].amount]
<1>1. IsFiniteSet(DOMAIN s)
  BY FS_Interval
<1>2. \A i \in DOMAIN s : f[i] \in Nat
  BY Places
<1>3. Cost(s) = SumFunctionOnSet(f, DOMAIN s)
  BY DEF Cost, SumFunction
<1> HIDE DEF f
<1>4. /\ SumFunctionOnSet(f, DOMAIN s) \in Nat
      /\ \A w \in SUBSET DOMAIN s : SumFunctionOnSet(f, w) <= SumFunctionOnSet(f, DOMAIN s)
  BY <1>1, <1>2, SumGrows
<1>5. ASSUME NEW w \in SUBSET DOMAIN s
      PROVE  SumFunctionOnSet(f, w) \in Nat
  <2>1. IsFiniteSet(w) /\ \A i \in w : f[i] \in Nat
    BY <1>1, <1>2, FS_Subset
  <2>2. QED
    BY <2>1, SumGrows
<1>6. QED
  BY <1>3, <1>4, <1>5 DEF f

\* A bid adds its amount to the cost of the sheet.
LEMMA CostOfAppend ==
  ASSUME NEW s \in Seq(Bids), NEW b \in Bids
  PROVE  Cost(Append(s, b)) = Cost(s) + b.amount
<1> DEFINE t == Append(s, b)
           f == [i \in DOMAIN s |-> s[i].amount]
           g == [i \in DOMAIN t |-> t[i].amount]
           n == Len(s) + 1
<1>1. /\ DOMAIN t = DOMAIN s \cup {n} /\ n \notin DOMAIN s /\ t[n] = b
      /\ \A i \in DOMAIN s : t[i] = s[i] /\ s[i] \in Bids
  BY Appended
<1>2. \A i \in DOMAIN s \cup {n} : g[i] \in Int
  BY <1>1 DEF Bids
<1>3. \A i \in DOMAIN s : g[i] = f[i]
  BY <1>1
<1>4. g[n] = b.amount
  BY <1>1
<1>5. Cost(t) = SumFunctionOnSet(g, DOMAIN s \cup {n})
  BY <1>1 DEF Cost, SumFunction
<1>6. Cost(s) = SumFunctionOnSet(f, DOMAIN s)
  BY DEF Cost, SumFunction
<1>7. IsFiniteSet(DOMAIN s)
  BY FS_Interval
<1> HIDE DEF f, g, n, t
<1>8. SumFunctionOnSet(g, DOMAIN s \cup {n}) = SumFunctionOnSet(g, DOMAIN s) + g[n]
  BY <1>1, <1>2, <1>7, SumAdd
<1>9. SumFunctionOnSet(g, DOMAIN s) = SumFunctionOnSet(f, DOMAIN s)
  BY <1>3, SumSame
<1>10. QED
  BY <1>4, <1>5, <1>6, <1>8, <1>9 DEF t

\* It counts once, on the line of its player.
LEMMA BoughtOfAppend ==
  ASSUME NEW s \in Seq(Bids), NEW b \in Bids, NEW l
  PROVE  /\ Bought(s, l) \in Nat
         /\ Bought(Append(s, b), l) = Bought(s, l) + (IF LineOf(b.player) = l THEN 1 ELSE 0)
<1> DEFINE t == Append(s, b)
           n == Len(s) + 1
           on == {i \in DOMAIN s : LineOf(s[i].player) = l}
           after == {i \in DOMAIN t : LineOf(t[i].player) = l}
<1>1. /\ DOMAIN t = DOMAIN s \cup {n} /\ n \notin DOMAIN s /\ t[n] = b
      /\ \A i \in DOMAIN s : t[i] = s[i]
  BY Appended
<1>2. IsFiniteSet(on) /\ n \notin on
  BY <1>1, FS_Interval, FS_Subset
<1>3. after = IF LineOf(b.player) = l THEN on \cup {n} ELSE on
  BY <1>1
<1>4. Bought(s, l) = Cardinality(on) /\ Bought(t, l) = Cardinality(after)
  BY DEF Bought
<1> HIDE DEF on, after, n
<1>5. Cardinality(on) \in Nat /\ Cardinality(on \cup {n}) = Cardinality(on) + 1
  BY <1>2, FS_CardinalityType, FS_AddElement
<1>6. QED
  BY <1>3, <1>4, <1>5

\* The size of two sets without a common element.
LEMMA DisjointUnion ==
  ASSUME NEW S, IsFiniteSet(S), NEW T, IsFiniteSet(T), S \cap T = {}
  PROVE  /\ IsFiniteSet(S \cup T)
         /\ Cardinality(S \cup T) = Cardinality(S) + Cardinality(T)
<1>1. Cardinality(S) \in Nat /\ Cardinality(T) \in Nat /\ Cardinality(S \cap T) = 0
  BY FS_CardinalityType, FS_EmptySet
<1>2. /\ IsFiniteSet(S \cup T)
      /\ Cardinality(S \cup T) = Cardinality(S) + Cardinality(T) - Cardinality(S \cap T)
  BY FS_Union
<1>3. QED
  BY <1>1, <1>2

\* Every bid of a sheet is on one of the four lines.
LEMMA BoughtInAll ==
  ASSUME NEW s \in Seq(Bids)
  PROVE  /\ \A l \in Lines : Bought(s, l) \in Nat
         /\ Len(s) = Bought(s, 1) + Bought(s, 2) + Bought(s, 3) + Bought(s, 4)
<1> DEFINE on(l) == {i \in DOMAIN s : LineOf(s[i].player) = l}
<1>1. \A l : IsFiniteSet(on(l)) /\ Bought(s, l) = Cardinality(on(l)) /\ Bought(s, l) \in Nat
  BY Places, FS_Subset, FS_CardinalityType DEF Bought
<1>2. \A i \in DOMAIN s : LineOf(s[i].player) \in {1, 2, 3, 4}
  BY Places, BidsAssumption DEF LineOf, Lines, G, D, M, A
<1>3. DOMAIN s = (on(1) \cup on(2)) \cup (on(3) \cup on(4))
  BY <1>2
<1>4. /\ on(1) \cap on(2) = {} /\ on(3) \cap on(4) = {}
      /\ (on(1) \cup on(2)) \cap (on(3) \cup on(4)) = {}
  OBVIOUS
<1> HIDE DEF on
<1>5. /\ IsFiniteSet(on(1) \cup on(2))
      /\ Cardinality(on(1) \cup on(2)) = Cardinality(on(1)) + Cardinality(on(2))
  BY <1>1, <1>4, DisjointUnion
<1>6. /\ IsFiniteSet(on(3) \cup on(4))
      /\ Cardinality(on(3) \cup on(4)) = Cardinality(on(3)) + Cardinality(on(4))
  BY <1>1, <1>4, DisjointUnion
<1>7. Cardinality((on(1) \cup on(2)) \cup (on(3) \cup on(4)))
        = Cardinality(on(1) \cup on(2)) + Cardinality(on(3) \cup on(4))
  BY <1>4, <1>5, <1>6, DisjointUnion
<1>8. Cardinality(DOMAIN s) = Len(s)
  BY Places
<1>9. QED
  BY <1>1, <1>3, <1>5, <1>6, <1>7, <1>8

-----------------------------------------------------------------------------
(* What is missing *)

\* The players missing on each line and in all, in a finite squad.
LEMMA MissingIs ==
  ASSUME IsFiniteSet(squad)
  PROVE  /\ Deficit(squad) \in [Lines -> Nat]
         /\ \A l \in Lines : Deficit(squad)[l] <= Quota[l]
         /\ Missing \in Nat
         /\ Missing = Deficit(squad)[1] + Deficit(squad)[2] + Deficit(squad)[3]
                        + Deficit(squad)[4]
<1> DEFINE d == Deficit(squad)
<1>1. ASSUME NEW l \in Lines
      PROVE  d[l] \in Nat /\ d[l] <= Quota[l]
  <2>1. Held(squad, l) \in Nat
    BY FS_Subset, FS_CardinalityType DEF Held
  <2>2. Quota[l] \in Nat
    BY BidsAssumption
  <2>3. Max({0, Quota[l] - Held(squad, l)})
          = IF 0 >= Quota[l] - Held(squad, l) THEN 0 ELSE Quota[l] - Held(squad, l)
    BY <2>1, <2>2, MaxOfTwo
  <2>4. d[l] = Max({0, Quota[l] - Held(squad, l)})
    BY DEF Deficit
  <2>5. QED
    BY <2>1, <2>2, <2>3, <2>4
<1>2. DOMAIN d = Lines /\ d = [l \in Lines |-> d[l]]
  BY DEF Deficit
<1>3. Missing = SumFunction(d)
  BY DEF Missing
<1> HIDE DEF d
<1>4. SumFunction(d) = d[1] + d[2] + d[3] + d[4]
  BY <1>1, <1>2, SumOfLines
<1>5. d \in [Lines -> Nat]
  BY <1>1, <1>2
<1>6. d[1] \in Nat /\ d[2] \in Nat /\ d[3] \in Nat /\ d[4] \in Nat
  BY <1>1 DEF Lines, G, D, M, A
<1>7. QED
  BY <1>1, <1>3, <1>4, <1>5, <1>6 DEF d

\* The target of a sheet fits in its bids.
LEMMA ThirdFits ==
  ASSUME IsFiniteSet(squad)
  PROVE  Third \in Nat /\ (ShortTargets => Third <= MaxBids)
<1> DEFINE d == Deficit(squad)
<1>1. /\ \A l \in Lines : d[l] \in Nat /\ d[l] <= Quota[l] /\ Quota[l] \in Nat
      /\ Missing \in Nat /\ Missing = d[1] + d[2] + d[3] + d[4]
  BY MissingIs, BidsAssumption
<1> HIDE DEF d
<1>2. SumFunctionOnSet(Quota, Lines) = Quota[1] + Quota[2] + Quota[3] + Quota[4]
  BY <1>1, FourLines
<1>3. Missing <= SumFunctionOnSet(Quota, Lines)
  BY <1>1, <1>2 DEF Lines, G, D, M, A
<1>4. SumFunctionOnSet(Quota, Lines) \in Nat
  BY <1>1, <1>2 DEF Lines, G, D, M, A
<1>5. (Missing + 2) \div 3 \in Nat
  BY <1>1
<1>6. Third = IF 1 >= (Missing + 2) \div 3 THEN 1 ELSE (Missing + 2) \div 3
  BY <1>5, MaxOfTwo DEF Third
<1>7. MaxBids \in Nat \ {0}
  BY BidsAssumption
<1>8. ASSUME ShortTargets PROVE (Missing + 2) \div 3 <= MaxBids
  BY <1>1, <1>3, <1>4, <1>7, <1>8 DEF ShortTargets
<1>9. QED
  BY <1>5, <1>6, <1>7, <1>8

\* The sum of four differences is the difference of the sums.
LEMMA SumOfDifferences ==
  ASSUME NEW d, NEW b, \A l \in {1, 2, 3, 4} : d[l] \in Int /\ b[l] \in Int
  PROVE  (d[1] - b[1]) + (d[2] - b[2]) + (d[3] - b[3]) + (d[4] - b[4])
           = (d[1] + d[2] + d[3] + d[4]) - (b[1] + b[2] + b[3] + b[4])
<1>1. /\ d[1] \in Int /\ d[2] \in Int /\ d[3] \in Int /\ d[4] \in Int
      /\ b[1] \in Int /\ b[2] \in Int /\ b[3] \in Int /\ b[4] \in Int
  OBVIOUS
<1>2. QED
  BY <1>1

\* As long as no line is bid for more often than it needs, what a sheet leaves
\* to be bought is what is missing less its bids.
LEMMA LackingIs ==
  ASSUME IsFiniteSet(squad), sheet \in Seq(Bids),
         \A l \in Lines : Bought(sheet, l) <= Deficit(squad)[l]
  PROVE  StillLacking = Missing - Len(sheet)
<1> DEFINE d == Deficit(squad)
           b == [l \in Lines |-> Bought(sheet, l)]
           f == [l \in Lines |-> Max({0, d[l] - b[l]})]
<1>1. StillLacking = SumFunction(f)
  <2>1. f = [l \in Lines |-> Max({0, d[l] - Bought(sheet, l)})]
    OBVIOUS
  <2>2. QED
    BY <2>1 DEF StillLacking, Bought
<1>2. /\ \A l \in Lines : d[l] \in Nat
      /\ Missing = d[1] + d[2] + d[3] + d[4]
  BY MissingIs
<1>3. /\ \A l \in Lines : b[l] \in Nat /\ b[l] <= d[l]
      /\ Len(sheet) = b[1] + b[2] + b[3] + b[4]
  BY BoughtInAll DEF Lines, G, D, M, A
<1> HIDE DEF d, b
<1>4. \A l \in Lines : Max({0, d[l] - b[l]}) = d[l] - b[l]
  BY <1>2, <1>3, MaxOfTwo
<1>5. DOMAIN f = Lines /\ \A l \in Lines : f[l] = d[l] - b[l] /\ f[l] \in Int
  <2>1. DOMAIN f = Lines
    OBVIOUS
  <2>2. ASSUME NEW l \in Lines PROVE f[l] = d[l] - b[l] /\ f[l] \in Int
    <3>1. f[l] = d[l] - b[l]
      BY <1>4
    <3>2. d[l] \in Nat /\ b[l] \in Nat
      BY <1>2, <1>3
    <3>3. QED
      BY <3>1, <3>2
  <2>3. QED
    BY <2>1, <2>2
<1> HIDE DEF f
<1>6. SumFunction(f) = f[1] + f[2] + f[3] + f[4]
  BY <1>5, SumOfLines
<1>7. 1 \in Lines /\ 2 \in Lines /\ 3 \in Lines /\ 4 \in Lines
  BY DEF Lines, G, D, M, A
<1>8. /\ f[1] = d[1] - b[1] /\ f[2] = d[2] - b[2] /\ f[3] = d[3] - b[3]
      /\ f[4] = d[4] - b[4]
  BY <1>5, <1>7
<1>9. /\ b[1] \in Nat /\ b[2] \in Nat /\ b[3] \in Nat /\ b[4] \in Nat
      /\ d[1] \in Nat /\ d[2] \in Nat /\ d[3] \in Nat /\ d[4] \in Nat
  BY <1>2, <1>3, <1>7
<1>10. StillLacking = (d[1] - b[1]) + (d[2] - b[2]) + (d[3] - b[3]) + (d[4] - b[4])
  BY <1>1, <1>6, <1>8
<1>11. Missing = d[1] + d[2] + d[3] + d[4] /\ Len(sheet) = b[1] + b[2] + b[3] + b[4]
  BY <1>2, <1>3
<1>12. \A l \in {1, 2, 3, 4} : d[l] \in Int /\ b[l] \in Int
  BY <1>9
<1> HIDE DEF d, b
<1>13. QED
  BY <1>10, <1>11, <1>12, SumOfDifferences

-----------------------------------------------------------------------------
(* The inductive invariant *)

\* One agent at work, on what there is to bid for and to bid with.  The squad
\* is only known to be finite while the mercato lasts: the draft is not bounded.
Agent ==
  /\ author \in {"nobody", "random", "heuristic", "model"}
  /\ stage # "mercato" => author = "nobody"
  /\ stage = "mercato" => IsFiniteSet(squad)
  /\ author = "nobody" => sheet = <<>>
  /\ budget \in Nat /\ round \in Nat \ {0} /\ turns \in Nat
  /\ asked \in [Lines -> Nat]
  /\ free \subseteq Players

\* The sheet is accepted, and leaves a coin for every player still missing.
Payable ==
  /\ sheet \in Seq(Bids)
  /\ \A i \in DOMAIN sheet : /\ sheet[i].player \in free
                             /\ sheet[i].amount >= Quotation[sheet[i].player]
                             /\ Bid(sheet[i].player) = {i}
  /\ Cost(sheet) <= budget
  /\ sheet # <<>> => Cost(sheet) + Max({0, Missing - Len(sheet)}) <= budget

\* The random generator and the baseline never bid past what a line needs.
Aimed ==
  author \in {"random", "heuristic"} =>
    \A l \in Lines : Bought(sheet, l) + asked[l] <= Deficit(squad)[l]

SafeSheet == Agent /\ Payable /\ Aimed

\* The sheet never holds more bids than a round takes, if the targets are short.
Short ==
  /\ author \in {"random", "heuristic"} => Len(sheet) + turns <= MaxBids
  /\ Len(sheet) <= MaxBids

\* Both invariants give the properties.
LEMMA SafeSheetGives ==
  ASSUME SafeSheet
  PROVE  ReserveKept /\ (Short => SheetAccepted)
<1>1. Committed = Cost(sheet)
  BY DEF Committed, Offered, Cost
<1>2. ASSUME sheet # <<>>
      PROVE  Committed + (IF author = "model" THEN Max({0, Missing - Len(sheet)})
                          ELSE StillLacking) * FLOOR_PRICE <= budget
  <2>1. author \in {"random", "heuristic", "model"} /\ IsFiniteSet(squad)
    BY <1>2 DEF SafeSheet, Agent
  <2>2. /\ Cost(sheet) \in Nat /\ Len(sheet) \in Nat /\ Missing \in Nat /\ budget \in Nat
        /\ Cost(sheet) + Max({0, Missing - Len(sheet)}) <= budget
    BY <1>2, <2>1, CostIsNat, MissingIs DEF SafeSheet, Payable, Agent
  <2>3. Max({0, Missing - Len(sheet)})
          = IF 0 >= Missing - Len(sheet) THEN 0 ELSE Missing - Len(sheet)
    BY <2>2, MaxOfTwo
  <2>4. CASE author = "model"
    BY <1>1, <2>2, <2>3, <2>4 DEF FLOOR_PRICE
  <2>5. CASE author \in {"random", "heuristic"}
    <3>1. \A l \in Lines : Bought(sheet, l) <= Deficit(squad)[l]
      <4>1. \A l \in Lines : /\ Bought(sheet, l) + asked[l] <= Deficit(squad)[l]
                             /\ asked[l] \in Nat
        BY <2>5 DEF SafeSheet, Aimed, Agent
      <4>2. \A l \in Lines : Bought(sheet, l) \in Nat /\ Deficit(squad)[l] \in Nat
        BY <2>1, BoughtInAll, MissingIs DEF SafeSheet, Payable
      <4>3. QED
        BY <4>1, <4>2
    <3>2. StillLacking = Missing - Len(sheet)
      BY <2>1, <3>1, LackingIs DEF SafeSheet, Payable
    <3>3. author # "model"
      BY <2>5
    <3>4. QED
      BY <1>1, <2>2, <2>3, <3>2, <3>3 DEF FLOOR_PRICE
  <2>6. QED
    BY <2>1, <2>4, <2>5
<1>3. ReserveKept
  BY <1>2 DEF ReserveKept
<1>4. ASSUME Short PROVE SheetAccepted
  BY <1>1, <1>4 DEF Short, SheetAccepted, SafeSheet, Payable
<1>5. QED
  BY <1>3, <1>4

-----------------------------------------------------------------------------
(* The steps *)

\* What the properties say of an empty sheet.
LEMMA EmptySheet ==
  /\ <<>> \in Seq(Bids) /\ Cost(<<>>) = 0 /\ Len(<<>>) = 0
  /\ \A l : Bought(<<>>, l) = 0
<1> DEFINE f == [i \in DOMAIN <<>> |-> <<>>[i].amount]
<1>1. DOMAIN <<>> = {} /\ <<>> \in Seq(Bids) /\ Len(<<>>) = 0
  OBVIOUS
<1>2. DOMAIN f = {}
  BY <1>1
<1>3. Cost(<<>>) = SumFunctionOnSet(f, DOMAIN f)
  BY DEF Cost, SumFunction
<1> HIDE DEF f
<1>4. Cost(<<>>) = 0
  BY <1>2, <1>3, SumEmpty
<1>5. ASSUME NEW l PROVE Bought(<<>>, l) = 0
  <2>1. {i \in DOMAIN <<>> : LineOf(<<>>[i].player) = l} = {}
    BY <1>1
  <2>2. QED
    BY <2>1, FS_EmptySet DEF Bought
<1>6. QED
  BY <1>1, <1>4, <1>5

\* An empty sheet costs nothing and counts for no line.
LEMMA InitSafe ==
  ASSUME Init PROVE SafeSheet /\ Short
<1> USE EmptySheet DEF Init, BidInit
<1>1. Agent
  BY BidsAssumption, FS_EmptySet DEF Agent
<1>2. Payable
  <2>1. sheet \in Seq(Bids) /\ DOMAIN sheet = {}
    OBVIOUS
  <2>2. Cost(sheet) = 0 /\ budget \in Nat
    BY BidsAssumption
  <2>3. QED
    BY <2>1, <2>2 DEF Payable
<1>3. Aimed
  BY DEF Aimed
<1>4. MaxBids \in Nat
  BY BidsAssumption
<1>5. Short
  BY <1>4 DEF Short
<1>6. QED
  BY <1>1, <1>2, <1>3, <1>5 DEF SafeSheet

\* An author sits down: the sheet is empty and the whole deficit is asked for.
LEMMA OpenStep ==
  ASSUME SafeSheet, stage = "mercato", UNCHANGED stage,
         NEW who \in {"random", "heuristic", "model"}, NEW n \in Nat, Open(who, n),
         ShortTargets /\ who # "model" => n <= MaxBids
  PROVE  SafeSheet' /\ (ShortTargets /\ Short => Short')
<1> USE EmptySheet
<1>1. /\ author' = who /\ sheet' = <<>> /\ asked' = Deficit(squad) /\ turns' = n
      /\ UNCHANGED <<round, budget, squad, free>>
  BY DEF Open
<1>2. IsFiniteSet(squad)
  BY DEF SafeSheet, Agent
<1>3. Deficit(squad)' = Deficit(squad)
  BY <1>1 DEF Deficit, Held
<1>4. Deficit(squad) \in [Lines -> Nat]
  BY <1>2, MissingIs
<1>5. Agent'
  BY <1>1, <1>2, <1>4 DEF SafeSheet, Agent
<1>6. Payable'
  <2>1. Cost(sheet)' = 0 /\ budget' \in Nat /\ DOMAIN sheet' = {} /\ sheet' \in Seq(Bids)
    BY <1>1 DEF SafeSheet, Agent
  <2>2. QED
    BY <1>1, <2>1 DEF Payable
<1>7. Aimed'
  <2>1. ASSUME NEW l \in Lines
        PROVE  Bought(sheet', l) + asked'[l] <= Deficit(squad)[l]
    BY <1>1, <1>4
  <2>2. QED
    BY <1>3, <2>1 DEF Aimed, Bought
<1>8. MaxBids \in Nat
  BY BidsAssumption
<1>9. Short => (ShortTargets => Short')
  BY <1>1, <1>8 DEF Short
<1>10. QED
  BY <1>5, <1>6, <1>7, <1>9 DEF SafeSheet

\* A bid on a free player that is not on the sheet, at no less than his
\* quotation, which leaves a coin for every player still missing.
LEMMA PlaceStep ==
  ASSUME SafeSheet, stage = "mercato", UNCHANGED stage, turns > 0,
         author \in {"random", "heuristic", "model"},
         NEW p \in free, Bid(p) = {}, NEW x \in Nat, x >= Quotation[p], Place(p, x),
         Cost(sheet) + x + Max({0, Missing - Len(sheet) - 1}) <= budget,
         author # "model" => asked[LineOf(p)] > 0,
         author = "model" => Len(sheet) < MaxBids
  PROVE  SafeSheet' /\ (ShortTargets /\ Short => Short')
<1> DEFINE b == [player |-> p, amount |-> x]
           n == Len(sheet) + 1
<1>1. /\ sheet' = Append(sheet, b) /\ turns' = turns - 1
      /\ asked' = [asked EXCEPT ![LineOf(p)] = Max({0, @ - 1})]
      /\ UNCHANGED <<author, round, budget, squad, free>>
  BY DEF Place
<1>2. /\ IsFiniteSet(squad) /\ budget \in Nat /\ turns \in Nat /\ round \in Nat \ {0}
      /\ asked \in [Lines -> Nat] /\ free \subseteq Players /\ sheet \in Seq(Bids)
  BY DEF SafeSheet, Agent, Payable
<1>3. p \in Players /\ LineOf(p) \in Lines /\ b \in Bids
  BY <1>2, BidsAssumption DEF LineOf, Bids
<1>4. /\ sheet' \in Seq(Bids) /\ Len(sheet) \in Nat /\ Len(sheet') = n
      /\ DOMAIN sheet' = DOMAIN sheet \cup {n} /\ n \notin DOMAIN sheet
      /\ sheet'[n] = b /\ \A i \in DOMAIN sheet : sheet'[i] = sheet[i]
  BY <1>1, <1>2, <1>3, Appended
<1>5. Cost(sheet') = Cost(sheet) + x /\ Cost(sheet) \in Nat
  BY <1>1, <1>2, <1>3, CostOfAppend, CostIsNat
<1>6. Missing \in Nat /\ Missing' = Missing /\ Deficit(squad)' = Deficit(squad)
  BY <1>1, <1>2, MissingIs DEF Missing, Deficit, Held
<1>7. asked' \in [Lines -> Nat]
  <2>1. asked[LineOf(p)] \in Nat
    BY <1>2, <1>3
  <2>2. Max({0, asked[LineOf(p)] - 1}) \in Nat
    BY <2>1, MaxOfTwo
  <2>3. QED
    BY <1>1, <1>2, <2>2
<1>8. Agent'
  <2>1. turns' \in Nat
    BY <1>1, <1>2
  <2>2. QED
    BY <1>1, <1>2, <1>7, <2>1 DEF SafeSheet, Agent
<1>9. Payable'
  <2>1. ASSUME NEW i \in DOMAIN sheet'
        PROVE  /\ sheet'[i].player \in free'
               /\ sheet'[i].amount >= Quotation[sheet'[i].player]
               /\ {j \in DOMAIN sheet' : sheet'[j].player = sheet'[i].player} = {i}
    <3>1. \A j \in DOMAIN sheet : sheet[j].player # p
      BY DEF Bid
    <3>2. CASE i = n
      <4>1. sheet'[i] = b
        BY <1>4, <3>2
      <4>2. {j \in DOMAIN sheet' : sheet'[j].player = p} = {i}
        BY <1>4, <3>1, <3>2
      <4>3. QED
        BY <1>1, <1>3, <4>1, <4>2
    <3>3. CASE i \in DOMAIN sheet
      <4>1. /\ sheet[i].player \in free /\ sheet[i].amount >= Quotation[sheet[i].player]
            /\ {j \in DOMAIN sheet : sheet[j].player = sheet[i].player} = {i}
        BY <3>3 DEF SafeSheet, Payable, Bid
      <4>2. sheet'[i] = sheet[i] /\ sheet[i].player # p
        BY <1>4, <3>1, <3>3
      <4>3. {j \in DOMAIN sheet' : sheet'[j].player = sheet'[i].player} = {i}
        BY <1>4, <3>3, <4>1, <4>2
      <4>4. QED
        BY <1>1, <4>1, <4>2, <4>3
    <3>4. QED
      BY <1>4, <3>2, <3>3
  <2>2. Max({0, Missing - Len(sheet) - 1}) \in Nat
    BY <1>4, <1>6, MaxOfTwo
  <2>3. Missing' - Len(sheet') = Missing - Len(sheet) - 1
    BY <1>4, <1>6
  <2>4. Max({0, Missing' - Len(sheet')}) = Max({0, Missing - Len(sheet) - 1})
    BY <2>3, Zenon
  <2>5. Cost(sheet) + x + Max({0, Missing - Len(sheet) - 1}) <= budget
    OBVIOUS
  <2>6. /\ Cost(sheet') <= budget'
        /\ Cost(sheet') + Max({0, Missing' - Len(sheet')}) <= budget'
    BY <1>1, <1>2, <1>5, <2>2, <2>4, <2>5
  <2>7. Cost(sheet)' = Cost(sheet')
    BY DEF Cost
  <2>8. QED
    BY <1>4, <2>1, <2>6, <2>7 DEF Payable, Bid
<1>10. Aimed'
  <2>1. SUFFICES ASSUME author \in {"random", "heuristic"}, NEW l \in Lines
                 PROVE  Bought(sheet', l) + asked'[l] <= Deficit(squad)[l]
    BY <1>1, <1>6 DEF Aimed, Bought
  <2>2. Bought(sheet, l) + asked[l] <= Deficit(squad)[l]
    BY <2>1 DEF SafeSheet, Aimed
  <2>3. /\ Bought(sheet, l) \in Nat
        /\ Bought(sheet', l) = Bought(sheet, l) + (IF LineOf(p) = l THEN 1 ELSE 0)
    BY <1>1, <1>2, <1>3, BoughtOfAppend
  <2>4. asked[l] \in Nat /\ Deficit(squad)[l] \in Nat /\ asked[LineOf(p)] > 0
    BY <1>2, <2>1, MissingIs
  <2>5. CASE LineOf(p) = l
    <3>1. asked'[l] = asked[l] - 1
      BY <1>1, <1>2, <2>4, <2>5, MaxOfTwo
    <3>2. QED
      BY <2>2, <2>3, <2>4, <2>5, <3>1
  <2>6. CASE LineOf(p) # l
    <3>1. asked'[l] = asked[l]
      BY <1>1, <1>2, <2>6
    <3>2. QED
      BY <2>2, <2>3, <2>4, <2>6, <3>1
  <2>7. QED
    BY <2>5, <2>6
<1>11. MaxBids \in Nat
  BY BidsAssumption
<1>12. Short => (ShortTargets => Short')
  BY <1>1, <1>2, <1>4, <1>11 DEF Short
<1>13. QED
  BY <1>8, <1>9, <1>10, <1>12 DEF SafeSheet

\* A line given up is not asked for again; a name that is dropped uses a turn.
LEMMA SkipStep ==
  ASSUME SafeSheet, stage = "mercato", UNCHANGED stage, turns > 0,
         turns' = turns - 1, UNCHANGED <<author, round, budget, squad, free, sheet>>,
         \/ UNCHANGED asked
         \/ \E l \in Lines : asked' = [asked EXCEPT ![l] = 0]
  PROVE  SafeSheet' /\ (ShortTargets /\ Short => Short')
<1>1. /\ IsFiniteSet(squad) /\ turns \in Nat /\ asked \in [Lines -> Nat]
      /\ sheet \in Seq(Bids)
  BY DEF SafeSheet, Agent, Payable
<1>2. /\ asked' \in [Lines -> Nat]
      /\ \A l \in Lines : asked'[l] <= asked[l]
  BY <1>1
<1>3. Missing' = Missing /\ Deficit(squad)' = Deficit(squad)
  BY DEF Missing, Deficit, Held
<1>4. Agent'
  BY <1>1, <1>2 DEF SafeSheet, Agent
<1>5. Payable'
  BY <1>3 DEF SafeSheet, Payable, Bid
<1>6. Aimed'
  <2>1. SUFFICES ASSUME author \in {"random", "heuristic"}, NEW l \in Lines
                 PROVE  Bought(sheet, l) + asked'[l] <= Deficit(squad)[l]
    BY <1>3 DEF Aimed, Bought
  <2>2. /\ Bought(sheet, l) + asked[l] <= Deficit(squad)[l]
        /\ Bought(sheet, l) \in Nat /\ asked[l] \in Nat /\ asked'[l] \in Nat
        /\ asked'[l] <= asked[l] /\ Deficit(squad)[l] \in Nat
    BY <1>1, <1>2, <2>1, BoughtInAll, MissingIs DEF SafeSheet, Aimed
  <2>3. QED
    BY <2>2
<1>7. Len(sheet) \in Nat /\ MaxBids \in Nat
  BY <1>1, BidsAssumption
<1>8. Short => (ShortTargets => Short')
  BY <1>1, <1>7 DEF Short
<1>9. QED
  BY <1>4, <1>5, <1>6, <1>8 DEF SafeSheet

\* An author who still asks for a line is short of a player.
LEMMA AskedIsMissing ==
  ASSUME SafeSheet, stage = "mercato", author \in {"random", "heuristic"},
         NEW l \in Lines, asked[l] > 0
  PROVE  Len(sheet) < Missing
<1> DEFINE d == Deficit(squad)
           b == [k \in Lines |-> Bought(sheet, k)]
<1>1. IsFiniteSet(squad) /\ sheet \in Seq(Bids) /\ asked \in [Lines -> Nat]
  BY DEF SafeSheet, Agent, Payable
<1>2. \A k \in Lines : b[k] + asked[k] <= d[k]
  BY DEF SafeSheet, Aimed
<1>3. 1 \in Lines /\ 2 \in Lines /\ 3 \in Lines /\ 4 \in Lines
  BY DEF Lines, G, D, M, A
<1>4. Len(sheet) = b[1] + b[2] + b[3] + b[4] /\ \A k \in Lines : b[k] \in Nat
  BY <1>1, <1>3, BoughtInAll
<1>5. Missing = d[1] + d[2] + d[3] + d[4] /\ \A k \in Lines : d[k] \in Nat
  BY <1>1, MissingIs
<1> HIDE DEF d, b
<1>6. \A k \in Lines : d[k] - b[k] \in Nat /\ (k = l => d[k] - b[k] > 0)
  <2>1. ASSUME NEW k \in Lines PROVE d[k] - b[k] \in Nat /\ (k = l => d[k] - b[k] > 0)
    <3>1. b[k] \in Nat /\ d[k] \in Nat /\ asked[k] \in Nat /\ b[k] + asked[k] <= d[k]
      BY <1>1, <1>2, <1>4, <1>5
    <3>2. QED
      BY <3>1
  <2>2. QED
    BY <2>1
<1>7. /\ d[1] - b[1] \in Nat /\ d[2] - b[2] \in Nat /\ d[3] - b[3] \in Nat
      /\ d[4] - b[4] \in Nat
      /\ \/ d[1] - b[1] > 0 \/ d[2] - b[2] > 0
         \/ d[3] - b[3] > 0 \/ d[4] - b[4] > 0
  BY <1>3, <1>6 DEF Lines, G, D, M, A
<1>8. (d[1] - b[1]) + (d[2] - b[2]) + (d[3] - b[3]) + (d[4] - b[4]) > 0
  BY <1>7
<1>9. \A k \in {1, 2, 3, 4} : d[k] \in Int /\ b[k] \in Int
  BY <1>3, <1>4, <1>5
<1>10. (d[1] + d[2] + d[3] + d[4]) - (b[1] + b[2] + b[3] + b[4]) > 0
  BY <1>8, <1>9, SumOfDifferences
<1>11. Missing \in Nat /\ Len(sheet) \in Nat
  BY <1>1, MissingIs, Places
<1>12. Missing - Len(sheet) > 0
  BY <1>4, <1>5, <1>10
<1>13. QED
  BY <1>11, <1>12

\* What a bid may cost is an integer, never more than what the reserve leaves.
LEMMA Ceilings ==
  ASSUME SafeSheet, stage = "mercato"
  PROVE  /\ RandomCeiling \in Int
         /\ RandomCeiling <= budget - Cost(sheet) - (Missing - Len(sheet) - 1)
         /\ HeuristicCeiling \in Int
         /\ HeuristicCeiling <= budget - Cost(sheet) - Max({0, Missing - Len(sheet) - 1})
<1> DEFINE m == Max({0, Missing - Len(sheet) - 1})
           r == Max({1, BaseRounds - round + 1})
<1>1. /\ budget \in Nat /\ Cost(sheet) \in Nat /\ Missing \in Nat /\ Len(sheet) \in Nat
      /\ round \in Nat /\ BaseRounds \in Nat
  BY CostIsNat, MissingIs, Places, BidsAssumption DEF SafeSheet, Agent, Payable
<1>2. m \in Nat /\ r \in Nat /\ r > 0
  BY <1>1, MaxOfTwo
<1> HIDE DEF m, r
<1>3. budget \div r \in Int
  BY <1>1, <1>2
<1>4. Committed = Cost(sheet) /\ Envelope \in Int
  BY <1>3 DEF Committed, Offered, Cost, Envelope, r
<1>5. /\ Envelope - Committed \in Int
      /\ budget - Committed - (Missing - Len(sheet) - 1) * FLOOR_PRICE \in Int
      /\ budget - Committed - (Missing - Len(sheet) - 1) * FLOOR_PRICE
           = budget - Cost(sheet) - (Missing - Len(sheet) - 1)
      /\ budget - Committed - m \in Int
  BY <1>1, <1>2, <1>4 DEF FLOOR_PRICE
<1>6. RandomCeiling \in Int
      /\ RandomCeiling <= budget - Committed - (Missing - Len(sheet) - 1) * FLOOR_PRICE
  BY <1>5, MinOfTwo DEF RandomCeiling
<1>7. HeuristicCeiling = Min({Envelope - Committed, budget - Committed - m})
  BY DEF HeuristicCeiling, m
<1>8. HeuristicCeiling \in Int /\ HeuristicCeiling <= budget - Committed - m
  BY <1>5, <1>7, MinOfTwo
<1>9. QED
  BY <1>4, <1>5, <1>6, <1>8 DEF m

\* What an author offers is between the quotation and its ceiling.
LEMMA AmountIsBetween ==
  ASSUME NEW q \in Nat, NEW c \in Int, q <= c, NEW x \in Int
  PROVE  /\ Max({q, Min({c, x})}) \in q..c
         /\ Min({c, Max({q, x})}) \in q..c
<1>1. Min({c, x}) \in Int /\ Min({c, x}) <= c
  BY MinOfTwo
<1>2. Max({q, x}) \in Int /\ Max({q, x}) >= q
  BY MaxOfTwo
<1>3. Max({q, Min({c, x})}) = IF q >= Min({c, x}) THEN q ELSE Min({c, x})
  BY <1>1, MaxOfTwo
<1>4. Min({c, Max({q, x})}) = IF c <= Max({q, x}) THEN c ELSE Max({q, x})
  BY <1>2, MinOfTwo
<1>5. QED
  BY <1>1, <1>2, <1>3, <1>4

\* A premium over a quotation, rounded or not, is an integer.
LEMMA PremiumIsInt ==
  ASSUME NEW q \in Nat, NEW percent \in Nat
  PROVE  Premium(q, percent) \in Int
<1>1. q * (100 + percent) \in Nat
  OBVIOUS
<1> DEFINE n == q * (100 + percent)
<1> HIDE DEF n
<1>2. n \div 100 \in Nat
  BY <1>1 DEF n
<1>3. Premium(q, percent) \in {n \div 100, n \div 100 + 1}
  BY DEF Premium, n
<1>4. QED
  BY <1>2, <1>3

\* The random generator keeps the reserve, and bids for places that are free.
LEMMA RandomBidStep ==
  ASSUME SafeSheet, stage = "mercato", UNCHANGED stage, RandomBid
  PROVE  SafeSheet' /\ (ShortTargets /\ Short => Short')
<1>1. author = "random" /\ turns > 0
  BY DEF RandomBid
<1>2. PICK l \in Worst : \E p \in ShortlistOf(Affordable(l, RandomCeiling)) :
        \E x \in Quotation[p]..Premium(Quotation[p], 20) :
          Place(p, Max({Quotation[p], Min({RandomCeiling, x})}))
  BY DEF RandomBid
<1>3. PICK p \in ShortlistOf(Affordable(l, RandomCeiling)) :
        \E x \in Quotation[p]..Premium(Quotation[p], 20) :
          Place(p, Max({Quotation[p], Min({RandomCeiling, x})}))
  BY <1>2
<1>4. PICK x \in Quotation[p]..Premium(Quotation[p], 20) :
        Place(p, Max({Quotation[p], Min({RandomCeiling, x})}))
  BY <1>3
<1> DEFINE a == Max({Quotation[p], Min({RandomCeiling, x})})
           m == Max({0, Missing - Len(sheet) - 1})
<1>5. l \in Lines /\ asked[l] > 0
  BY DEF Worst
<1>6. /\ p \in free /\ LineOf(p) = l /\ Bid(p) = {} /\ Quotation[p] <= RandomCeiling
  BY DEF ShortlistOf, Affordable
<1>7. p \in Players /\ Quotation[p] \in Nat
  BY <1>6, BidsAssumption DEF SafeSheet, Agent
<1>8. /\ RandomCeiling \in Int
      /\ RandomCeiling <= budget - Cost(sheet) - (Missing - Len(sheet) - 1)
  BY Ceilings
<1>9. /\ budget \in Nat /\ Cost(sheet) \in Nat /\ Missing \in Nat /\ Len(sheet) \in Nat
      /\ Len(sheet) < Missing
  BY <1>1, <1>5, AskedIsMissing, CostIsNat, MissingIs, Places DEF SafeSheet, Agent, Payable
<1>10. x \in Int
  BY <1>7, PremiumIsInt
<1>11. a \in Quotation[p]..RandomCeiling
  BY <1>6, <1>7, <1>8, <1>10, AmountIsBetween
<1>12. m = Missing - Len(sheet) - 1
  BY <1>9, MaxOfTwo
<1>13. Place(p, a)
  BY <1>4
<1> HIDE DEF a, m
<1>14. a \in Nat /\ a >= Quotation[p] /\ Cost(sheet) + a + m <= budget
  BY <1>7, <1>8, <1>9, <1>11, <1>12
<1>15. QED
  BY <1>1, <1>5, <1>6, <1>13, <1>14, PlaceStep DEF m

\* So does the baseline, with its premiums.
LEMMA HeuristicBidStep ==
  ASSUME SafeSheet, stage = "mercato", UNCHANGED stage, HeuristicBid
  PROVE  SafeSheet' /\ (ShortTargets /\ Short => Short')
<1>1. author = "heuristic" /\ turns > 0
  BY DEF HeuristicBid
<1>2. PICK l \in FirstWorst : \E p \in Affordable(l, HeuristicCeiling) :
        Place(p, Min({HeuristicCeiling, Max({Quotation[p], Premium(Quotation[p], 15)})}))
  BY DEF HeuristicBid
<1>3. PICK p \in Affordable(l, HeuristicCeiling) :
        Place(p, Min({HeuristicCeiling, Max({Quotation[p], Premium(Quotation[p], 15)})}))
  BY <1>2
<1> DEFINE a == Min({HeuristicCeiling, Max({Quotation[p], Premium(Quotation[p], 15)})})
           m == Max({0, Missing - Len(sheet) - 1})
<1>5. l \in Lines /\ asked[l] > 0
  BY DEF FirstWorst, Worst
<1>6. p \in free /\ LineOf(p) = l /\ Bid(p) = {} /\ Quotation[p] <= HeuristicCeiling
  BY DEF Affordable
<1>7. p \in Players /\ Quotation[p] \in Nat
  BY <1>6, BidsAssumption DEF SafeSheet, Agent
<1>8. HeuristicCeiling \in Int /\ HeuristicCeiling <= budget - Cost(sheet) - m
  BY Ceilings
<1>9. /\ budget \in Nat /\ Cost(sheet) \in Nat /\ Missing \in Nat /\ Len(sheet) \in Nat
  BY CostIsNat, MissingIs, Places DEF SafeSheet, Agent, Payable
<1>10. Premium(Quotation[p], 15) \in Int /\ m \in Nat
  <2>1. Premium(Quotation[p], 15) \in Int
    BY <1>7, 15 \in Nat, PremiumIsInt
  <2>2. Missing - Len(sheet) - 1 \in Int
    BY <1>9
  <2>3. m \in Nat
    BY <2>2, MaxOfTwo
  <2>4. QED
    BY <2>1, <2>3
<1>11. a \in Quotation[p]..HeuristicCeiling
  BY <1>6, <1>7, <1>8, <1>10, AmountIsBetween
<1>12. Place(p, a)
  BY <1>3
<1> HIDE DEF a, m
<1>13. a \in Nat /\ a >= Quotation[p] /\ Cost(sheet) + a + m <= budget
  BY <1>7, <1>8, <1>9, <1>10, <1>11
<1>14. QED
  BY <1>1, <1>5, <1>6, <1>12, <1>13, PlaceStep DEF m

\* So does what is left of a model's answer once it is clamped.
LEMMA ModelBidStep ==
  ASSUME SafeSheet, stage = "mercato", UNCHANGED stage, ModelBid
  PROVE  SafeSheet' /\ (ShortTargets /\ Short => Short')
<1>1. author = "model" /\ turns > 0
  BY DEF ModelBid
<1>2. PICK p \in Players, x \in Amounts :
        \/ Keeps(p, x) /\ Place(p, Max({x, Quotation[p]}))
        \/ ~Keeps(p, x) /\ turns' = turns - 1
             /\ UNCHANGED <<author, round, budget, squad, free, sheet, asked>>
  BY DEF ModelBid
<1>3. CASE ~Keeps(p, x)
  BY <1>1, <1>2, <1>3, SkipStep
<1>4. CASE Keeps(p, x)
  <2> DEFINE a == Max({x, Quotation[p]})
             m == Max({0, Missing - Len(sheet) - 1})
  <2>1. /\ Len(sheet) < MaxBids /\ p \in free /\ Bid(p) = {}
        /\ Committed + a + m <= budget
    BY <1>4 DEF Keeps
  <2>2. Quotation[p] \in Nat /\ x \in Int
    BY BidsAssumption
  <2>3. a \in Nat /\ a >= Quotation[p]
    BY <2>2, MaxOfTwo
  <2>4. Committed = Cost(sheet)
    BY DEF Committed, Offered, Cost
  <2>5. Place(p, a)
    BY <1>2, <1>4
  <2> HIDE DEF a
  <2>6. QED
    BY <1>1, <2>1, <2>3, <2>4, <2>5, PlaceStep
<1>5. QED
  BY <1>3, <1>4

\* The round is resolved: what was won is paid, and the sheet is empty again.
LEMMA SettleStep ==
  ASSUME SafeSheet, stage = "mercato", UNCHANGED stage, Settle
  PROVE  SafeSheet' /\ (ShortTargets /\ Short => Short')
<1> USE EmptySheet
<1>1. /\ author' = "nobody" /\ sheet' = <<>> /\ turns' = 0
      /\ asked' = [l \in Lines |-> 0] /\ round' = round + 1
  BY DEF Settle, BackToNobody
<1>2. PICK won \in SUBSET DOMAIN sheet :
        LET bought == {sheet[i].player : i \in won}
        IN /\ budget' = budget - SumFunctionOnSet(Offered, won)
           /\ squad' = squad \cup bought
           /\ free' \in SUBSET (free \ bought)
  BY DEF Settle
<1>3. /\ sheet \in Seq(Bids) /\ IsFiniteSet(squad) /\ budget \in Nat /\ round \in Nat \ {0}
      /\ free \subseteq Players /\ Cost(sheet) <= budget
  BY DEF SafeSheet, Agent, Payable
<1>4. budget' \in Nat
  <2>1. /\ SumFunctionOnSet(Offered, won) \in Nat
        /\ SumFunctionOnSet(Offered, won) <= Cost(sheet) /\ Cost(sheet) \in Nat
    BY <1>3, CostIsNat DEF Offered
  <2>2. QED
    BY <1>2, <1>3, <2>1
<1>5. IsFiniteSet(squad')
  <2> DEFINE f == [i \in won |-> sheet[i].player]
             bought == {sheet[i].player : i \in won}
  <2>1. IsFiniteSet(won)
    BY <1>3, Places, FS_Subset
  <2>2. bought = {f[i] : i \in won}
    OBVIOUS
  <2>3. squad' = squad \cup bought
    BY <1>2
  <2> HIDE DEF f
  <2>4. IsFiniteSet({f[i] : i \in won})
    BY <2>1, ImageFinite
  <2>5. QED
    BY <1>3, <2>2, <2>3, <2>4, FS_Union
<1>6. free' \subseteq Players
  BY <1>2, <1>3
<1>7. Agent'
  BY <1>1, <1>3, <1>4, <1>5, <1>6 DEF Agent
<1>8. Payable'
  <2>1. Cost(sheet)' = 0 /\ DOMAIN sheet' = {} /\ sheet' \in Seq(Bids)
    BY <1>1
  <2>2. QED
    BY <1>1, <1>4, <2>1 DEF Payable
<1>9. MaxBids \in Nat
  BY BidsAssumption
<1>10. QED
  BY <1>1, <1>7, <1>8, <1>9 DEF SafeSheet, Aimed, Short

\* A step of the mercato.
LEMMA BidNextStep ==
  ASSUME SafeSheet, stage = "mercato", UNCHANGED stage, BidNext
  PROVE  SafeSheet' /\ (ShortTargets /\ Short => Short')
<1>1. /\ IsFiniteSet(squad) /\ MaxBids \in Nat /\ Answers \in Nat
      /\ asked \in [Lines -> Nat]
  BY BidsAssumption DEF SafeSheet, Agent
<1>2. Third \in Nat /\ (ShortTargets => Third <= MaxBids)
  BY <1>1, ThirdFits
<1>3. Min({MaxBids, Third}) \in Nat /\ Min({MaxBids, Third}) <= MaxBids
  BY <1>1, <1>2, MinOfTwo
<1>4. CASE StartRandom
  BY <1>2, <1>4, OpenStep DEF StartRandom
<1>5. CASE StartHeuristic
  BY <1>3, <1>5, OpenStep DEF StartHeuristic
<1>6. CASE StartModel
  BY <1>1, <1>6, OpenStep DEF StartModel
<1>7. CASE FallBack
  BY <1>3, <1>7, OpenStep DEF FallBack
<1>8. CASE RandomBid
  BY <1>8, RandomBidStep
<1>9. CASE HeuristicBid
  BY <1>9, HeuristicBidStep
<1>10. CASE ModelBid
  BY <1>10, ModelBidStep
<1>11. CASE RandomGivesUp
  <2>1. PICK l \in Worst : GiveUp(l)
    BY <1>11 DEF RandomGivesUp
  <2>2. l \in Lines /\ turns > 0
    BY <1>11 DEF Worst, RandomGivesUp
  <2>3. QED
    BY <2>1, <2>2, SkipStep DEF GiveUp
<1>12. CASE HeuristicGivesUp
  <2>1. PICK l \in FirstWorst : GiveUp(l)
    BY <1>12 DEF HeuristicGivesUp
  <2>2. l \in Lines /\ turns > 0
    BY <1>12 DEF FirstWorst, Worst, HeuristicGivesUp
  <2>3. QED
    BY <2>1, <2>2, SkipStep DEF GiveUp
<1>13. CASE Settle
  BY <1>13, SettleStep
<1>14. CASE PassRound
  <2>1. /\ round' = round + 1 /\ author = "nobody"
        /\ UNCHANGED <<author, budget, squad, free, sheet, asked, turns>>
    BY <1>14 DEF PassRound
  <2>2. Missing' = Missing /\ round \in Nat \ {0}
    BY <2>1 DEF Missing, Deficit, Held, SafeSheet, Agent
  <2>3. Agent'
    BY <2>1, <2>2 DEF SafeSheet, Agent
  <2>4. Payable'
    BY <2>1, <2>2 DEF SafeSheet, Payable, Bid
  <2>5. Aimed' /\ (Short => Short')
    BY <2>1 DEF Aimed, Short
  <2>6. QED
    BY <2>3, <2>4, <2>5 DEF SafeSheet
<1>15. QED
  BY <1>4, <1>5, <1>6, <1>7, <1>8, <1>9, <1>10, <1>11, <1>12, <1>13, <1>14 DEF BidNext

\* After it nobody bids, whatever becomes of the squad.
LEMMA LaterStep ==
  ASSUME SafeSheet, stage # "mercato" \/ author = "nobody", stage' # "mercato",
         UNCHANGED <<author, round, sheet, asked, turns>>,
         budget' \in Nat, free' \subseteq Players
  PROVE  SafeSheet' /\ (ShortTargets /\ Short => Short')
<1> USE EmptySheet
<1>1. author = "nobody" /\ sheet = <<>>
  BY DEF SafeSheet, Agent
<1>2. Agent'
  BY <1>1 DEF SafeSheet, Agent
<1>3. Cost(sheet)' = 0 /\ DOMAIN sheet' = {} /\ sheet' \in Seq(Bids)
  BY <1>1
<1>4. Payable'
  BY <1>1, <1>3 DEF Payable
<1>5. QED
  BY <1>1, <1>2, <1>4 DEF SafeSheet, Aimed, Short

\* Every step of an agent, the market and the draft keeps the sheet safe.
LEMMA NextSafe ==
  ASSUME SafeSheet, [Next]_vars
  PROVE  SafeSheet' /\ (ShortTargets /\ Short => Short')
<1>1. CASE UNCHANGED vars
  <2>1. UNCHANGED bidVars /\ UNCHANGED stage
    BY <1>1 DEF vars, pickVars
  <2>2. Missing' = Missing /\ Deficit(squad)' = Deficit(squad)
    BY <2>1 DEF bidVars, Missing, Deficit, Held
  <2>3. QED
    BY <2>1, <2>2 DEF SafeSheet, Agent, Payable, Aimed, Short, Bid, bidVars
<1>2. CASE MercatoTurn
  BY <1>2, BidNextStep DEF MercatoTurn, pickVars
<1>3. CASE CloseMercato
  <2>1. /\ author = "nobody" /\ stage' = "asked" /\ budget' = 0 /\ free' = {}
        /\ UNCHANGED <<author, round, sheet, asked, turns>>
    BY <1>3 DEF CloseMercato
  <2>2. QED
    BY <2>1, LaterStep
<1>4. ASSUME stage # "mercato", stage' # "mercato", UNCHANGED bidVars
      PROVE  SafeSheet' /\ (ShortTargets /\ Short => Short')
  BY <1>4, LaterStep DEF bidVars, SafeSheet, Agent
<1>5. CASE AnswerFormation
  BY <1>4, <1>5 DEF AnswerFormation
<1>6. CASE NameStarter
  BY <1>4, <1>6 DEF NameStarter
<1>7. CASE FillStarters
  BY <1>4, <1>7 DEF FillStarters
<1>8. CASE NameSubstitute
  BY <1>4, <1>8 DEF NameSubstitute
<1>9. ASSUME NEW starters, NEW substitutes, NEW f, Save(starters, substitutes, f)
      PROVE  stage' # "mercato"
  BY <1>9 DEF Save
<1>10. CASE HandIn
  BY <1>4, <1>9, <1>10 DEF HandIn
<1>11. CASE PickBaseline
  <2>1. stage = "asked" /\ UNCHANGED bidVars
    BY <1>11 DEF PickBaseline
  <2>2. stage' # "mercato"
    BY <1>9, <1>11 DEF PickBaseline
  <2>3. QED
    BY <1>4, <2>1, <2>2
<1>12. QED
  BY <1>1, <1>2, <1>3, <1>5, <1>6, <1>7, <1>8, <1>10, <1>11 DEF Next

-----------------------------------------------------------------------------
(* Lineups: players in a row *)

\* A sequence of the elements of a set, each of them once.
Row(s, S) == s \in Seq(S) /\ IsInjective(s) /\ ToSet(s) = S

\* The row of the empty set, and what a row has at its places.
LEMMA RowPlaces ==
  ASSUME NEW S, NEW s, Row(s, S)
  PROVE  /\ DOMAIN s = 1..Len(s) /\ Len(s) \in Nat
         /\ \A i \in DOMAIN s : s[i] \in S
         /\ \A x \in S : \E i \in DOMAIN s : s[i] = x
         /\ \A i, j \in DOMAIN s : s[i] = s[j] => i = j
  BY DEF Row, ToSet, IsInjective

\* What of a row is chosen by a condition on its elements, counted.
LEMMA RowCounts ==
  ASSUME NEW S, IsFiniteSet(S), NEW s, Row(s, S), NEW T, T \subseteq S
  PROVE  /\ Cardinality({i \in DOMAIN s : s[i] \in T}) = Cardinality(T)
         /\ Len(s) = Cardinality(S)
<1>0. \A n \in Nat : Cardinality(1..n) = n
  BY FS_Interval
<1> USE RowPlaces
<1>1. ASSUME NEW R, R \subseteq S
      PROVE  Cardinality({i \in DOMAIN s : s[i] \in R}) = Cardinality(R)
  <2> DEFINE I == {i \in DOMAIN s : s[i] \in R}
             f == [i \in I |-> s[i]]
  <2>1. f \in [I -> R]
    OBVIOUS
  <2>2. \A i, j \in I : f[i] = f[j] => i = j
    OBVIOUS
  <2>3. \A x \in R : \E i \in I : f[i] = x
    BY <1>1
  <2>4. IsFiniteSet(I)
    BY FS_Interval, FS_Subset
  <2> HIDE DEF f, I
  <2>5. f \in Bijection(I, R)
    BY <2>1, <2>2, <2>3 DEF Bijection, Injection, Surjection, IsInjective
  <2>6. ExistsBijection(I, R)
    BY <2>5 DEF ExistsBijection
  <2>7. Cardinality(R) = Cardinality(I)
    BY <2>4, <2>6, FS_Bijection
  <2>8. QED
    BY <2>7 DEF I
<1>2. {i \in DOMAIN s : s[i] \in S} = 1..Len(s) /\ Len(s) \in Nat
  OBVIOUS
<1>3. Cardinality(1..Len(s)) = Len(s)
  BY <1>0, <1>2
<1>4. QED
  BY <1>1, <1>2, <1>3

\* SetToSeq puts a finite set in a row.
LEMMA SetToSeqIsRow ==
  ASSUME NEW S, IsFiniteSet(S)
  PROVE  Row(SetToSeq(S), S) /\ Len(SetToSeq(S)) = Cardinality(S)
<1> DEFINE n == Cardinality(S)
           q == SetToSeq(S)
<1>1. n \in Nat /\ ExistsBijection(1..n, S)
  BY FS_CardinalityType
<1>2. PICK f \in Bijection(1..n, S) : TRUE
  BY <1>1 DEF ExistsBijection
<1>3. f \in [1..n -> S] /\ IsInjective(f)
  BY <1>2 DEF Bijection, Injection, IsInjective
<1>4. q \in [1..n -> S] /\ IsInjective(q)
  BY <1>3 DEF SetToSeq
<1> HIDE DEF q
<1>5. q \in Seq(S) /\ Len(q) = n
  BY <1>1, <1>4
<1>6. q \in Injection(1..n, S)
  BY <1>4 DEF Injection, IsInjective
<1>7. IsFiniteSet(1..n) /\ Cardinality(1..n) = n
  BY <1>1, FS_Interval
<1>8. q \in Surjection(1..n, S)
  BY <1>6, <1>7, FS_Injection
<1>9. ToSet(q) = S
  BY <1>4, <1>8 DEF Surjection, ToSet
<1>10. QED
  BY <1>4, <1>5, <1>9 DEF Row, q

\* Two rows without a common element make one.
LEMMA RowsJoin ==
  ASSUME NEW S, NEW T, S \cap T = {}, NEW s, NEW t, Row(s, S), Row(t, T)
  PROVE  Row(s \o t, S \cup T) /\ Len(s \o t) = Len(s) + Len(t)
<1>1. s \in Seq(S \cup T) /\ t \in Seq(S \cup T)
  BY DEF Row
<1>2. /\ s \o t \in Seq(S \cup T) /\ Len(s \o t) = Len(s) + Len(t)
      /\ DOMAIN (s \o t) = 1..(Len(s) + Len(t))
      /\ \A i \in 1..(Len(s) + Len(t)) :
           (s \o t)[i] = IF i <= Len(s) THEN s[i] ELSE t[i - Len(s)]
  BY <1>1
<1>3. IsInjective(s \o t)
  BY <1>2, RowPlaces DEF IsInjective
<1>4. ASSUME NEW x \in S \cup T PROVE \E i \in DOMAIN (s \o t) : (s \o t)[i] = x
  <2>1. CASE x \in S
    <3>1. PICK i \in DOMAIN s : s[i] = x
      BY <2>1, RowPlaces
    <3>2. QED
      BY <1>2, <3>1, RowPlaces
  <2>2. CASE x \in T
    <3>1. PICK i \in DOMAIN t : t[i] = x
      BY <2>2, RowPlaces
    <3>2. i + Len(s) \in DOMAIN (s \o t) /\ (s \o t)[i + Len(s)] = x
      BY <1>2, <3>1, RowPlaces
    <3>3. QED
      BY <3>2
  <2>3. QED
    BY <2>1, <2>2
<1>5. ToSet(s \o t) = S \cup T
  <2>1. \A i \in DOMAIN (s \o t) : (s \o t)[i] \in S \cup T
    BY <1>2
  <2>2. QED
    BY <1>4, <2>1 DEF ToSet
<1>6. QED
  BY <1>2, <1>3, <1>5 DEF Row

\* The players of a finite set, line by line.
LEMMA ByLine ==
  ASSUME NEW S, S \subseteq Players
  PROVE  /\ IsFiniteSet(S) /\ Cardinality(S) \in Nat
         /\ S = (OnLine(S, G) \cup OnLine(S, D)) \cup (OnLine(S, M) \cup OnLine(S, A))
         /\ \A l \in Lines : IsFiniteSet(OnLine(S, l)) /\ Cardinality(OnLine(S, l)) \in Nat
         /\ Cardinality(S) = Cardinality(OnLine(S, G)) + Cardinality(OnLine(S, D))
                               + Cardinality(OnLine(S, M)) + Cardinality(OnLine(S, A))
<1> DEFINE on(l) == OnLine(S, l)
<1>1. IsFiniteSet(S)
  BY BidsAssumption, FS_Subset
<1>2. \A l : IsFiniteSet(on(l)) /\ Cardinality(on(l)) \in Nat
  BY <1>1, FS_Subset, FS_CardinalityType DEF OnLine
<1>3. S = (on(G) \cup on(D)) \cup (on(M) \cup on(A))
  BY BidsAssumption DEF OnLine, LineOf, Lines
<1>4. /\ on(G) \cap on(D) = {} /\ on(M) \cap on(A) = {}
      /\ (on(G) \cup on(D)) \cap (on(M) \cup on(A)) = {}
  BY DEF OnLine, G, D, M, A
<1> HIDE DEF on
<1>5. /\ IsFiniteSet(on(G) \cup on(D))
      /\ Cardinality(on(G) \cup on(D)) = Cardinality(on(G)) + Cardinality(on(D))
  BY <1>2, <1>4, DisjointUnion
<1>6. /\ IsFiniteSet(on(M) \cup on(A))
      /\ Cardinality(on(M) \cup on(A)) = Cardinality(on(M)) + Cardinality(on(A))
  BY <1>2, <1>4, DisjointUnion
<1>7. Cardinality(S) = Cardinality(on(G) \cup on(D)) + Cardinality(on(M) \cup on(A))
  BY <1>3, <1>4, <1>5, <1>6, DisjointUnion
<1>8. Cardinality(S) = Cardinality(on(G)) + Cardinality(on(D)) + Cardinality(on(M)) + Cardinality(on(A))
  BY <1>2, <1>5, <1>6, <1>7
<1>9. QED
  BY <1>1, <1>2, <1>3, <1>8, FS_CardinalityType DEF on

\* A side laid out is a row.
LEMMA LaidOutIsRow ==
  ASSUME NEW S, S \subseteq Players
  PROVE  Row(LaidOut(S), S) /\ Len(LaidOut(S)) = Cardinality(S)
<1> DEFINE on(l) == OnLine(S, l)
           q(l) == SetToSeq(OnLine(S, l))
<1>1. \A l \in Lines : Row(q(l), on(l)) /\ Len(q(l)) = Cardinality(on(l))
  BY ByLine, SetToSeqIsRow
<1>2. \A k, l : k # l => on(k) \cap on(l) = {}
  BY DEF OnLine
<1>3. G \in Lines /\ D \in Lines /\ M \in Lines /\ A \in Lines
      /\ G # D /\ G # M /\ G # A /\ D # M /\ D # A /\ M # A
  BY DEF Lines, G, D, M, A
<1>4. LaidOut(S) = q(G) \o q(D) \o q(M) \o q(A)
  BY DEF LaidOut
<1> HIDE DEF on, q
<1>5. Row(q(G) \o q(D), on(G) \cup on(D))
  BY <1>1, <1>2, <1>3, RowsJoin
<1>6. (on(G) \cup on(D)) \cap on(M) = {} /\ (on(G) \cup on(D) \cup on(M)) \cap on(A) = {}
  BY <1>2, <1>3
<1>7. Row(q(G) \o q(D) \o q(M), on(G) \cup on(D) \cup on(M))
  BY <1>1, <1>3, <1>5, <1>6, RowsJoin
<1>8. Row(q(G) \o q(D) \o q(M) \o q(A), on(G) \cup on(D) \cup on(M) \cup on(A))
  BY <1>1, <1>3, <1>6, <1>7, RowsJoin
<1>9. on(G) \cup on(D) \cup on(M) \cup on(A) = S
  BY ByLine DEF on
<1>10. Row(LaidOut(S), S)
  BY <1>4, <1>8, <1>9
<1>11. QED
  BY <1>10, ByLine, RowCounts

\* A line occurs in two sequences together as often as in the one and the other.
LEMMA CountJoins ==
  ASSUME NEW s \in Seq(Nat), NEW t \in Seq(Nat), NEW l
  PROVE  /\ s \o t \in Seq(Nat)
         /\ Count(l, s) \in Nat /\ Count(l, t) \in Nat
         /\ Count(l, s \o t) = Count(l, s) + Count(l, t)
<1> DEFINE q == s \o t
           I == {i \in DOMAIN s : s[i] = l}
           J == {j \in DOMAIN t : t[j] = l}
           K == {k \in DOMAIN q : q[k] = l}
           shift == [j \in J |-> Len(s) + j]
           R == {k \in K : k > Len(s)}
<1>1. /\ Len(s) \in Nat /\ Len(t) \in Nat /\ DOMAIN s = 1..Len(s) /\ DOMAIN t = 1..Len(t)
      /\ q \in Seq(Nat) /\ DOMAIN q = 1..(Len(s) + Len(t))
      /\ \A i \in 1..Len(s) : q[i] = s[i]
      /\ \A j \in 1..Len(t) : q[Len(s) + j] = t[j]
  <2>1. /\ q \in Seq(Nat) /\ Len(s) \in Nat /\ Len(t) \in Nat
        /\ DOMAIN s = 1..Len(s) /\ DOMAIN t = 1..Len(t)
        /\ DOMAIN q = 1..(Len(s) + Len(t))
        /\ \A i \in 1..(Len(s) + Len(t)) : q[i] = IF i <= Len(s) THEN s[i] ELSE t[i - Len(s)]
    OBVIOUS
  <2> HIDE DEF q
  <2>2. ASSUME NEW j \in 1..Len(t)
        PROVE  q[Len(s) + j] = t[j]
    <3>1. Len(s) + j \in 1..(Len(s) + Len(t)) /\ ~(Len(s) + j <= Len(s)) /\ (Len(s) + j) - Len(s) = j
      BY <2>1
    <3>2. QED
      BY <2>1, <3>1
  <2>3. \A i \in 1..Len(s) : q[i] = s[i]
    BY <2>1
  <2>4. QED
    BY <2>1, <2>2, <2>3
<1> HIDE DEF q
<1>2. IsFiniteSet(I) /\ IsFiniteSet(J)
  <2>1. IsFiniteSet(DOMAIN s) /\ IsFiniteSet(DOMAIN t)
    BY <1>1, FS_Interval
  <2>2. I \subseteq DOMAIN s /\ J \subseteq DOMAIN t
    OBVIOUS
  <2> HIDE DEF I, J
  <2>3. QED
    BY <2>1, <2>2, FS_Subset
<1>3. K = I \cup R /\ I \cap R = {}
  BY <1>1
<1>4. shift \in [J -> R] /\ \A i, j \in J : shift[i] = shift[j] => i = j
  <2>1. ASSUME NEW j \in J PROVE shift[j] = Len(s) + j /\ shift[j] \in R /\ j \in Nat
    BY <1>1
  <2>2. QED
    BY <1>1, <2>1
<1>5. ASSUME NEW k \in R PROVE \E j \in J : shift[j] = k
  <2>1. k - Len(s) \in 1..Len(t) /\ Len(s) + (k - Len(s)) = k
    BY <1>1
  <2>2. k - Len(s) \in J
    BY <1>1, <2>1
  <2>3. QED
    BY <2>1, <2>2
<1> HIDE DEF I, J, K, R, shift
<1>6. shift \in Bijection(J, R)
  BY <1>4, <1>5 DEF Bijection, Injection, Surjection, IsInjective
<1>7. IsFiniteSet(R) /\ Cardinality(R) = Cardinality(J)
  BY <1>2, <1>6, FS_Bijection DEF ExistsBijection
<1>8. Cardinality(K) = Cardinality(I) + Cardinality(J)
  BY <1>2, <1>3, <1>7, DisjointUnion
<1>9. Count(l, s) = Cardinality(I) /\ Count(l, t) = Cardinality(J) /\ Count(l, q) = Cardinality(K)
  BY DEF Count, I, J, K
<1>10. QED
  BY <1>1, <1>2, <1>8, <1>9, FS_CardinalityType DEF q

\* A line repeated n times occurs n times, and no other does.
LEMMA CountTimes ==
  ASSUME NEW k \in Nat, NEW n \in Nat, NEW l
  PROVE  /\ Times(k, n) \in Seq(Nat)
         /\ Count(l, Times(k, n)) = IF l = k THEN n ELSE 0
<1>1. \A m \in Nat : Cardinality(1..m) = m
  BY FS_Interval
<1>2. Times(k, n) \in Seq(Nat) /\ DOMAIN Times(k, n) = 1..n /\ \A i \in 1..n : Times(k, n)[i] = k
  BY DEF Times
<1>3. {i \in DOMAIN Times(k, n) : Times(k, n)[i] = l} = IF l = k THEN 1..n ELSE {}
  BY <1>2
<1>4. QED
  BY <1>1, <1>2, <1>3, FS_EmptySet DEF Count

\* How many of each line a formation asks for: one goalkeeper, eleven in all.
LEMMA NeededInAll ==
  ASSUME NEW f \in Formations
  PROVE  /\ \A l \in Lines : Needed(f, l) \in Nat
         /\ Needed(f, G) = 1 /\ Starters \in Nat
         /\ Needed(f, G) + Needed(f, D) + Needed(f, M) + Needed(f, A) = Starters
<1> DEFINE x == f[1]
           y == f[2]
           z == f[3]
           ds == Times(D, x)
           ms == Times(M, y)
           as == Times(A, z)
           one(k, l, n) == IF l = k THEN n ELSE 0
<1>1. x \in Nat /\ y \in Nat /\ z \in Nat /\ 1 + x + y + z = Starters
  BY FormationsAssumption
<1>2. slots_of(f) = ((<<G>> \o ds) \o ms) \o as
  BY DEF slots_of
<1> HIDE DEF x, y, z
<1>3. G \in Nat /\ D \in Nat /\ M \in Nat /\ A \in Nat
      /\ G # D /\ G # M /\ G # A /\ D # M /\ D # A /\ M # A
  BY DEF G, D, M, A
<1>4. <<G>> \in Seq(Nat) /\ \A l : Count(l, <<G>>) = one(G, l, 1)
  <2>1. <<G>> = Times(G, 1)
    BY DEF Times
  <2>2. QED
    BY <1>3, <2>1, CountTimes
<1>5. /\ ds \in Seq(Nat) /\ \A l : Count(l, ds) = one(D, l, x)
      /\ ms \in Seq(Nat) /\ \A l : Count(l, ms) = one(M, l, y)
      /\ as \in Seq(Nat) /\ \A l : Count(l, as) = one(A, l, z)
  BY <1>1, <1>3, CountTimes
<1> HIDE DEF ds, ms, as
<1>6. /\ <<G>> \o ds \in Seq(Nat)
      /\ \A l : Count(l, <<G>> \o ds) = Count(l, <<G>>) + Count(l, ds)
  BY <1>4, <1>5, CountJoins
<1>7. /\ (<<G>> \o ds) \o ms \in Seq(Nat)
      /\ \A l : Count(l, (<<G>> \o ds) \o ms) = Count(l, <<G>> \o ds) + Count(l, ms)
  BY <1>5, <1>6, CountJoins
<1>8. ASSUME NEW l PROVE Needed(f, l) = Count(l, (<<G>> \o ds) \o ms) + Count(l, as)
  <2>1. Needed(f, l) = Count(l, ((<<G>> \o ds) \o ms) \o as)
    BY <1>2 DEF Needed
  <2>2. QED
    BY <1>5, <1>7, <2>1, CountJoins
<1>9. ASSUME NEW l
      PROVE  Needed(f, l) = one(G, l, 1) + one(D, l, x) + one(M, l, y) + one(A, l, z)
  <2>1. Count(l, <<G>> \o ds) = one(G, l, 1) + one(D, l, x)
    BY <1>4, <1>5, <1>6
  <2>2. Count(l, (<<G>> \o ds) \o ms) = one(G, l, 1) + one(D, l, x) + one(M, l, y)
    BY <1>5, <1>7, <2>1
  <2>3. QED
    BY <1>5, <1>8, <2>2
<1>10. Needed(f, G) = 1 /\ Needed(f, D) = x /\ Needed(f, M) = y /\ Needed(f, A) = z
  BY <1>1, <1>3, <1>9
<1>11. QED
  BY <1>1, <1>10 DEF Lines

-----------------------------------------------------------------------------
(* What the game accepts *)

\* A side that fills its formation and a full bench with a goalkeeper, all of
\* the squad and none of them twice.
LEMMA Accepted ==
  ASSUME squad \subseteq Players, NEW f \in Formations \ BonusOnly, NEW P, P \subseteq squad,
         \A l \in Lines : Cardinality(OnLine(P, l)) = Needed(f, l),
         NEW B, B \subseteq squad \ P, NEW b, Row(b, B), Len(b) = BenchSize, HasKeeper(b)
  PROVE  validate_lineup(squad, f, LaidOut(P), b, <<>>, FALSE, UltraOf)
<1> DEFINE s == LaidOut(P)
<1>1. Row(s, P) /\ Len(s) = Cardinality(P) /\ P \subseteq Players
  BY LaidOutIsRow
<1> HIDE DEF s
<1>2. Len(s) = Starters
  <2>1. G \in Lines /\ D \in Lines /\ M \in Lines /\ A \in Lines
    BY DEF Lines
  <2>2. QED
    BY <1>1, <2>1, ByLine, NeededInAll
<1>3. Row(s \o b, P \cup B)
  <2>1. P \cap B = {}
    OBVIOUS
  <2>2. QED
    BY <1>1, <2>1, RowsJoin
<1>4. IsInjective(s \o b) /\ ToSet(s \o b) \subseteq squad
  BY <1>3 DEF Row
<1>5. is_legal(f, FALSE)
  BY DEF is_legal
<1>6. ASSUME NEW l \in Lines
      PROVE  Count(l, [i \in DOMAIN s |-> line_of(UltraOf[s[i]])]) = Count(l, slots_of(f))
  <2>1. IsFiniteSet(P) /\ OnLine(P, l) \subseteq P
    BY <1>1, ByLine DEF OnLine
  <2>2. Cardinality({i \in DOMAIN s : s[i] \in OnLine(P, l)}) = Cardinality(OnLine(P, l))
    BY <1>1, <2>1, RowCounts
  <2>3. {i \in DOMAIN s : s[i] \in OnLine(P, l)}
          = {i \in DOMAIN [j \in DOMAIN s |-> line_of(UltraOf[s[j]])] :
               [j \in DOMAIN s |-> line_of(UltraOf[s[j]])][i] = l}
    BY <1>1, RowPlaces DEF OnLine, LineOf
  <2>4. QED
    BY <2>2, <2>3 DEF Count, Needed
<1>7. BenchKeeper(s, b, UltraOf)
  BY DEF HasKeeper, BenchKeeper, LineOf
<1>8. TacticalRulesOK(<<>>, s, b, UltraOf)
  BY FormationsAssumption DEF TacticalRulesOK
<1>9. QED
  BY <1>2, <1>4, <1>5, <1>6, <1>7, <1>8 DEF validate_lineup, s

\* What is left of a row that is cut.
LEMMA RowCut ==
  ASSUME NEW S, NEW s, Row(s, S), NEW m \in Nat, m <= Len(s)
  PROVE  LET c == SubSeq(s, 1, m)
         IN /\ Row(c, ToSet(c)) /\ ToSet(c) \subseteq S /\ Len(c) = m
            /\ \A i \in 1..m : c[i] = s[i]
<1> DEFINE c == SubSeq(s, 1, m)
<1>1. s \in Seq(S) /\ Len(s) \in Nat /\ DOMAIN s = 1..Len(s)
  BY DEF Row
<1>2. c \in Seq(S) /\ Len(c) = m /\ DOMAIN c = 1..m /\ \A i \in 1..m : c[i] = s[i]
  BY <1>1
<1> HIDE DEF c
<1>3. \A i \in DOMAIN c : c[i] \in S /\ i \in DOMAIN s
  BY <1>1, <1>2
<1>4. IsInjective(c)
  BY <1>2, <1>3 DEF Row, IsInjective
<1>5. ToSet(c) \subseteq S /\ \A i \in DOMAIN c : c[i] \in ToSet(c)
  BY <1>3 DEF ToSet
<1>6. c \in Seq(ToSet(c))
  BY <1>2, <1>5
<1>7. QED
  BY <1>2, <1>4, <1>5, <1>6 DEF Row, c

-----------------------------------------------------------------------------
(* The lineup of an agent *)

\* The starters fill the formation as far as the squad goes, and the bench that
\* was named is of the rest of it.
Repaired ==
  /\ formation \in Formations \ BonusOnly /\ picked \subseteq squad
  /\ \A l \in Lines : Cardinality(OnLine(picked, l)) =
                        Min({Needed(formation, l), Cardinality(OnLine(squad, l))})
  /\ bench \in Seq(squad \ picked) /\ IsInjective(bench)

\* What is known of a lineup while it is put together: the answer keeps to the
\* squad, and names no more starters of a line than the formation has.
Prepared ==
  /\ squad \subseteq Players
  /\ stage \in {"mercato", "asked", "bench", "saved", "refused"}
  /\ stage = "mercato" => picked = {} /\ bench = <<>> /\ formation = Fallback
  /\ stage = "asked" =>
       /\ formation \in Formations \ BonusOnly /\ picked \subseteq squad /\ bench = <<>>
       /\ \A l \in Lines : Cardinality(OnLine(picked, l)) <= Needed(formation, l)
  /\ stage = "bench" => Repaired
  /\ LineupAccepted

\* A squad that fills every formation fills the one that is asked for.
LEMMA FieldsFormation ==
  ASSUME squad \subseteq Players, NEW f \in Formations \ BonusOnly, Fieldable, NEW l \in Lines
  PROVE  /\ Needed(f, l) \in Nat /\ Cardinality(OnLine(squad, l)) \in Nat
         /\ Min({Needed(f, l), Cardinality(OnLine(squad, l))}) = Needed(f, l)
         /\ l = G => Cardinality(OnLine(squad, l)) > Needed(f, l)
<1>1. Needed(f, l) \in Nat /\ Cardinality(OnLine(squad, l)) \in Nat
  BY NeededInAll, ByLine
<1>2. Cardinality(OnLine(squad, l)) >= Needed(f, l) + (IF l = G THEN 1 ELSE 0)
  BY DEF Fieldable
<1>3. Cardinality(OnLine(squad, l)) >= Needed(f, l)
  BY <1>1, <1>2
<1>4. Min({Needed(f, l), Cardinality(OnLine(squad, l))}) = Needed(f, l)
  BY <1>1, <1>3, MinOfTwo
<1>5. QED
  BY <1>1, <1>2, <1>4

\* What is left of a finite set without a part of it.
LEMMA Remainder ==
  ASSUME NEW S, IsFiniteSet(S), NEW T, T \subseteq S
  PROVE  /\ IsFiniteSet(S \ T) /\ Cardinality(S) \in Nat /\ Cardinality(T) \in Nat
         /\ Cardinality(S \ T) = Cardinality(S) - Cardinality(T)
<1>1. IsFiniteSet(T) /\ IsFiniteSet(S \ T)
  BY FS_Subset
<1>2. S = T \cup (S \ T) /\ T \cap (S \ T) = {}
  OBVIOUS
<1>3. Cardinality(S) = Cardinality(T) + Cardinality(S \ T)
  BY <1>1, <1>2, DisjointUnion
<1>4. QED
  BY <1>1, <1>3, FS_CardinalityType

\* A bench that is repaired is full if the squad is large enough, and has a
\* goalkeeper unless the one it names is beyond its size.
LEMMA BenchRepaired ==
  ASSUME squad \subseteq Players, Repaired, Fieldable,
         Cardinality(squad) >= Starters + BenchSize,
         NEW b \in Benches(bench, squad \ (picked \cup ToSet(bench)))
  PROVE  /\ Cardinality(picked) = Starters
         /\ Row(b, ToSet(b)) /\ ToSet(b) \subseteq squad \ picked /\ Len(b) = BenchSize
         /\ \/ HasKeeper(b)
            \/ KeeperBeyondBench /\ Cardinality(squad) > Starters + BenchSize
<1> DEFINE others == squad \ picked
           rest == squad \ (picked \cup ToSet(bench))
<1>1. /\ formation \in Formations \ BonusOnly /\ picked \subseteq squad
      /\ \A l \in Lines : Cardinality(OnLine(picked, l)) = Needed(formation, l)
      /\ bench \in Seq(others) /\ IsInjective(bench)
  BY FieldsFormation DEF Repaired
<1>2. G \in Lines /\ D \in Lines /\ M \in Lines /\ A \in Lines
  BY DEF Lines
<1>3. Cardinality(picked) = Starters
  <2>1. picked \subseteq Players
    BY <1>1
  <2>2. QED
    BY <1>1, <1>2, <2>1, ByLine, NeededInAll
<1>4. /\ IsFiniteSet(squad) /\ IsFiniteSet(others) /\ Cardinality(squad) \in Nat
      /\ Cardinality(others) = Cardinality(squad) - Starters
      /\ Starters \in Nat /\ BenchSize \in Nat /\ Cardinality(others) \in Nat
  BY <1>1, <1>3, ByLine, Remainder, FormationsAssumption, FS_CardinalityType
<1>5. BenchSize > 0
  <2>1. \A l \in Lines : BenchShape[l] \in Nat
    BY BenchAssumption
  <2>2. DOMAIN BenchShape = Lines
    BY BenchAssumption
  <2>3. BenchSize = BenchShape[1] + BenchShape[2] + BenchShape[3] + BenchShape[4]
    BY <2>1, <2>2, SumOfLines, BenchAssumption
  <2>4. BenchShape[1] > 0
    BY BenchAssumption DEF G
  <2>5. QED
    BY <1>2, <2>1, <2>3, <2>4 DEF G, D, M, A
<1>6. Row(bench, ToSet(bench)) /\ ToSet(bench) \subseteq others
  BY <1>1 DEF Row, ToSet
<1>7. PICK c \in KeeperFirst(bench, rest) :
        \E s \in {x \in SUBSET (rest \ ToSet(c)) :
                    Cardinality(x) = Min({Max({0, BenchSize - Len(c)}),
                                          Cardinality(rest \ ToSet(c))})} :
          b = SubSeq(c \o SetToSeq(s), 1,
                     Min({BenchSize,
                          Len(c) + Min({Max({0, BenchSize - Len(c)}),
                                        Cardinality(rest \ ToSet(c))})}))
  BY DEF Benches
<1>8. /\ Row(c, ToSet(c)) /\ ToSet(c) \subseteq others /\ ToSet(bench) \subseteq ToSet(c)
      /\ \/ c = bench /\ HasKeeper(bench)
         \/ LineOf(c[1]) = G /\ Len(c) > 0
  <2>1. CASE HasKeeper(bench)
    BY <1>6, <1>7, <2>1 DEF KeeperFirst
  <2>2. CASE ~HasKeeper(bench)
    <3>1. OnLine(rest, G) # {}
      <4>1. Cardinality(OnLine(squad, G)) # Cardinality(OnLine(picked, G))
        <5>1. /\ Cardinality(OnLine(squad, G)) \in Nat /\ Needed(formation, G) \in Nat
              /\ Cardinality(OnLine(squad, G)) > Needed(formation, G)
          BY <1>1, <1>2, FieldsFormation
        <5>2. QED
          BY <1>1, <1>2, <5>1
      <4>2. PICK x \in OnLine(squad, G) : x \notin OnLine(picked, G)
        BY <1>1, <4>1 DEF OnLine
      <4>3. x \notin ToSet(bench)
        BY <2>2, <4>2 DEF HasKeeper, ToSet, OnLine
      <4>4. x \in OnLine(rest, G)
        BY <4>2, <4>3 DEF OnLine
      <4>5. QED
        BY <4>4
    <3>2. PICK k \in OnLine(rest, G) : c = <<k>> \o bench
      BY <1>7, <2>2, <3>1 DEF KeeperFirst
    <3>3. Row(<<k>>, {k}) /\ {k} \cap ToSet(bench) = {} /\ k \in others /\ LineOf(k) = G
      BY <3>2 DEF Row, IsInjective, ToSet, OnLine
    <3>4. Row(c, {k} \cup ToSet(bench)) /\ Len(c) = Len(<<k>>) + Len(bench)
      BY <1>6, <3>2, <3>3, RowsJoin
    <3>5. ToSet(c) = {k} \cup ToSet(bench)
      BY <3>4 DEF Row
    <3>6. c[1] = k /\ Len(c) > 0
      BY <1>1, <3>2, <3>4
    <3>7. QED
      BY <1>6, <3>3, <3>4, <3>5, <3>6
  <2>3. QED
    BY <2>1, <2>2
<1> DEFINE left == rest \ ToSet(c)
           n == Min({Max({0, BenchSize - Len(c)}), Cardinality(left)})
<1>9. PICK s \in SUBSET left :
        Cardinality(s) = n /\ b = SubSeq(c \o SetToSeq(s), 1, Min({BenchSize, Len(c) + n}))
  BY <1>7
<1>10. /\ IsFiniteSet(ToSet(c)) /\ Len(c) = Cardinality(ToSet(c)) /\ Len(c) \in Nat
       /\ IsFiniteSet(left) /\ Cardinality(left) = Cardinality(others) - Len(c)
       /\ Cardinality(left) \in Nat
  <2>1. IsFiniteSet(ToSet(c)) /\ Cardinality(ToSet(c)) \in Nat
    BY <1>4, <1>8, FS_Subset, FS_CardinalityType
  <2>2. Len(c) = Cardinality(ToSet(c))
    BY <1>8, <2>1, RowCounts
  <2>3. left = others \ ToSet(c)
    BY <1>8
  <2>4. QED
    BY <1>4, <1>8, <2>1, <2>2, <2>3, Remainder, FS_CardinalityType
<1>11. n \in Nat /\ Len(c) + n >= BenchSize
  <2>1. BenchSize - Len(c) \in Int /\ Cardinality(left) >= BenchSize - Len(c)
    BY <1>4, <1>10
  <2>2. Max({0, BenchSize - Len(c)}) = IF 0 >= BenchSize - Len(c) THEN 0 ELSE BenchSize - Len(c)
    BY <2>1, MaxOfTwo
  <2>3. Max({0, BenchSize - Len(c)}) \in Nat /\ Max({0, BenchSize - Len(c)}) >= BenchSize - Len(c)
    BY <1>4, <1>10, <2>2
  <2> DEFINE w == Max({0, BenchSize - Len(c)})
             r == Cardinality(left)
  <2>4. w \in Nat /\ w >= BenchSize - Len(c) /\ n = Min({w, r}) /\ r \in Nat
    BY <1>10, <2>3
  <2>5. r >= BenchSize - Len(c) /\ Len(c) \in Nat
    BY <1>10, <2>1
  <2> HIDE DEF n, left, w, r
  <2>6. n = IF w <= r THEN w ELSE r
    BY <2>4, MinOfTwo
  <2>7. QED
    BY <1>4, <2>4, <2>5, <2>6
<1> HIDE DEF n, left
<1>12. Min({BenchSize, Len(c) + n}) = BenchSize
  BY <1>4, <1>10, <1>11, MinOfTwo
<1> DEFINE q == c \o SetToSeq(s)
<1>13. Row(q, ToSet(c) \cup s) /\ Len(q) = Len(c) + n
  <2>1. IsFiniteSet(s)
    BY <1>10, FS_Subset
  <2>2. Row(SetToSeq(s), s) /\ Len(SetToSeq(s)) = n
    BY <1>9, <2>1, SetToSeqIsRow
  <2>3. ToSet(c) \cap s = {}
    BY <1>9 DEF left
  <2>4. QED
    BY <1>8, <2>2, <2>3, RowsJoin
<1>14. \A i \in 1..Len(c) : q[i] = c[i]
  BY <1>8, <1>13, RowPlaces, SetToSeqIsRow, <1>10, <1>9, FS_Subset DEF Row
<1> HIDE DEF q
<1>15. b = SubSeq(q, 1, BenchSize)
  BY <1>9, <1>12 DEF q
<1>16. /\ Row(b, ToSet(b)) /\ ToSet(b) \subseteq ToSet(c) \cup s /\ Len(b) = BenchSize
       /\ \A i \in 1..BenchSize : b[i] = q[i]
  BY <1>4, <1>11, <1>13, <1>15, RowCut
<1>17. ToSet(b) \subseteq others
  BY <1>8, <1>9, <1>16 DEF left
<1>18. DOMAIN b = 1..BenchSize
  BY <1>16 DEF Row
<1>19. CASE LineOf(c[1]) = G /\ Len(c) > 0
  <2>1. 1 \in DOMAIN b /\ b[1] = c[1]
    BY <1>4, <1>5, <1>10, <1>14, <1>16, <1>18, <1>19
  <2>2. HasKeeper(b)
    BY <1>19, <2>1 DEF HasKeeper
  <2>3. QED
    BY <1>3, <1>16, <1>17, <2>2
<1>20. CASE c = bench /\ HasKeeper(bench)
  <2>1. CASE KeeperBeyondBench
    <3>1. PICK i \in DOMAIN bench : LineOf(bench[i]) = G
      BY <1>20 DEF HasKeeper
    <3>2. i > BenchSize /\ i <= Len(bench) /\ i \in Nat
      BY <1>1, <2>1, <3>1 DEF KeeperBeyondBench
    <3>3. Len(c) > BenchSize
      BY <1>4, <1>10, <1>20, <3>2
    <3>4. Cardinality(squad) > Starters + BenchSize
      BY <1>4, <1>10, <3>3
    <3>5. QED
      BY <1>3, <1>16, <1>17, <2>1, <3>4
  <2>2. CASE ~KeeperBeyondBench
    <3>1. PICK i \in DOMAIN bench : LineOf(bench[i]) = G /\ ~(i > BenchSize)
      BY <1>20, <2>2 DEF KeeperBeyondBench
    <3>2. i \in 1..Len(c) /\ i \in 1..BenchSize
      BY <1>1, <1>4, <1>20, <3>1
    <3>3. b[i] = bench[i]
      BY <1>14, <1>16, <1>20, <3>2
    <3>4. HasKeeper(b)
      BY <1>18, <3>1, <3>2, <3>3 DEF HasKeeper
    <3>5. QED
      BY <1>3, <1>16, <1>17, <3>4
  <2>3. QED
    BY <2>1, <2>2
<1>21. QED
  BY <1>8, <1>19, <1>20

\* The baseline's own lineup: full in every line that is not short.
BaselineSides(P, B) ==
  /\ P \subseteq squad /\ B \subseteq squad \ P
  /\ \A l \in Lines : Cardinality(OnLine(P, l)) = Needed(Fallback, l)
  /\ \/ Len(LaidOut(B)) = BenchSize /\ HasKeeper(LaidOut(B))
     \/ /\ Len(LaidOut(B)) < BenchSize
        /\ \E l \in Lines :
             Cardinality(OnLine(squad, l)) < Needed(Fallback, l) + BenchShape[l]

LEMMA BaselineLaidOut ==
  ASSUME squad \subseteq Players, Fieldable,
         NEW g \in Take(squad, G, Needed(Fallback, G)),
         NEW d \in Take(squad, D, Needed(Fallback, D)),
         NEW m \in Take(squad, M, Needed(Fallback, M)),
         NEW a \in Take(squad, A, Needed(Fallback, A)),
         NEW P, P = g \cup d \cup m \cup a,
         NEW bg \in Take(squad \ P, G, BenchShape[G]),
         NEW bd \in Take(squad \ P, D, BenchShape[D]),
         NEW bm \in Take(squad \ P, M, BenchShape[M]),
         NEW ba \in Take(squad \ P, A, BenchShape[A]),
         NEW B, B = bg \cup bd \cup bm \cup ba
  PROVE  BaselineSides(P, B)
<1> USE FormationsAssumption
<1>1. Fallback \in Formations \ BonusOnly /\ \A l \in Lines : BenchShape[l] \in Nat
  BY BenchAssumption
<1>2. G # D /\ G # M /\ G # A /\ D # M /\ D # A /\ M # A
      /\ Lines = {G, D, M, A}
  BY DEF Lines, G, D, M, A
<1>3. /\ P \subseteq squad
      /\ OnLine(P, G) = g /\ OnLine(P, D) = d /\ OnLine(P, M) = m /\ OnLine(P, A) = a
  BY <1>2 DEF Take, OnLine
<1>4. /\ B \subseteq squad \ P
      /\ OnLine(B, G) = bg /\ OnLine(B, D) = bd /\ OnLine(B, M) = bm /\ OnLine(B, A) = ba
  BY <1>2 DEF Take, OnLine
<1> DEFINE held(l) == Cardinality(OnLine(squad, l))
           rest(l) == Cardinality(OnLine(squad \ P, l))
<1>5. \A l \in Lines : Cardinality(OnLine(P, l)) = Min({Needed(Fallback, l), held(l)})
  BY <1>2, <1>3 DEF Take
<1>6. \A l \in Lines : Cardinality(OnLine(P, l)) = Needed(Fallback, l)
  BY <1>1, <1>5, FieldsFormation
<1>7. \A l \in Lines : Cardinality(OnLine(B, l)) = Min({BenchShape[l], rest(l)})
  BY <1>2, <1>4 DEF Take
<1>8. ASSUME NEW l \in Lines
      PROVE  /\ rest(l) \in Nat /\ held(l) \in Nat /\ Needed(Fallback, l) \in Nat
             /\ rest(l) = held(l) - Needed(Fallback, l)
  <2>1. OnLine(squad \ P, l) = OnLine(squad, l) \ OnLine(P, l) /\ OnLine(P, l) \subseteq OnLine(squad, l)
    BY <1>3 DEF OnLine
  <2>2. IsFiniteSet(OnLine(squad, l)) /\ held(l) \in Nat
    BY ByLine
  <2> DEFINE S == OnLine(squad, l)
             T == OnLine(P, l)
  <2> HIDE DEF S, T
  <2>3. IsFiniteSet(S) /\ T \subseteq S
    BY <2>1, <2>2 DEF S, T
  <2>4. IsFiniteSet(S \ T) /\ Cardinality(S \ T) = Cardinality(S) - Cardinality(T)
    BY <2>3, Remainder
  <2>5. /\ IsFiniteSet(OnLine(squad \ P, l))
        /\ rest(l) = held(l) - Cardinality(OnLine(P, l))
    BY <2>1, <2>4 DEF S, T
  <2>6. QED
    BY <1>1, <1>6, <2>2, <2>5, FS_CardinalityType, NeededInAll
<1>9. B \subseteq Players /\ Row(LaidOut(B), B) /\ Len(LaidOut(B)) = Cardinality(B)
  BY <1>4, LaidOutIsRow
<1> DEFINE on(l) == Cardinality(OnLine(B, l))
<1>10. /\ Len(LaidOut(B)) = on(G) + on(D) + on(M) + on(A)
       /\ \A l \in Lines : on(l) \in Nat
  BY <1>9, ByLine
<1>11. BenchSize = BenchShape[G] + BenchShape[D] + BenchShape[M] + BenchShape[A]
  <2>1. DOMAIN BenchShape = Lines /\ SumFunction(BenchShape) = BenchSize
    BY BenchAssumption
  <2>2. QED
    BY <1>1, <2>1, SumOfLines DEF G, D, M, A
<1>12. ASSUME NEW l \in Lines
       PROVE  on(l) = IF BenchShape[l] <= rest(l) THEN BenchShape[l] ELSE rest(l)
  <2> DEFINE x == BenchShape[l]
             y == rest(l)
  <2>1. x \in Nat /\ y \in Nat /\ on(l) = Min({x, y})
    BY <1>1, <1>7, <1>8
  <2> HIDE DEF x, y
  <2>2. Min({x, y}) = IF x <= y THEN x ELSE y
    BY <2>1, MinOfTwo
  <2>3. QED
    BY <2>1, <2>2 DEF x, y
<1>13. G \in Lines /\ D \in Lines /\ M \in Lines /\ A \in Lines
  BY <1>2
<1> HIDE DEF on, rest, held
<1>14. CASE \A l \in Lines : BenchShape[l] <= rest(l)
  <2>1. \A l \in Lines : on(l) = BenchShape[l]
    BY <1>12, <1>14
  <2>2. Len(LaidOut(B)) = BenchSize
    BY <1>10, <1>11, <1>13, <2>1
  <2>3. on(G) # 0
    BY <1>13, <2>1, BenchAssumption
  <2>4. OnLine(B, G) # {}
    BY <2>3, FS_EmptySet DEF on
  <2>5. PICK p \in B : LineOf(p) = G
    BY <2>4 DEF OnLine
  <2>6. HasKeeper(LaidOut(B))
    <3>1. PICK i \in DOMAIN LaidOut(B) : LaidOut(B)[i] = p
      BY <1>9, <2>5 DEF Row, ToSet
    <3>2. QED
      BY <2>5, <3>1 DEF HasKeeper
  <2>7. QED
    BY <1>3, <1>4, <1>6, <2>2, <2>6 DEF BaselineSides
<1>15. CASE \E l \in Lines : ~(BenchShape[l] <= rest(l))
  <2>1. PICK l \in Lines : ~(BenchShape[l] <= rest(l))
    BY <1>15
  <2>2. on(l) < BenchShape[l] /\ held(l) < Needed(Fallback, l) + BenchShape[l]
    BY <1>1, <1>8, <1>12, <2>1
  <2>3. \A k \in Lines : on(k) <= BenchShape[k] /\ on(k) \in Nat /\ BenchShape[k] \in Nat
    <3>1. ASSUME NEW k \in Lines
          PROVE  on(k) <= BenchShape[k] /\ on(k) \in Nat /\ BenchShape[k] \in Nat
      <4>1. on(k) \in Nat /\ BenchShape[k] \in Nat /\ rest(k) \in Nat
        BY <1>1, <1>8, <1>10
      <4>2. on(k) = IF BenchShape[k] <= rest(k) THEN BenchShape[k] ELSE rest(k)
        BY <1>12
      <4>3. QED
        BY <4>1, <4>2
    <3>2. QED
      BY <3>1
  <2>4. l \in {G, D, M, A}
    BY <1>2
  <2> DEFINE x == BenchShape
  <2>5. Len(LaidOut(B)) < BenchSize
    <3>1. /\ on(G) <= x[G] /\ on(D) <= x[D] /\ on(M) <= x[M] /\ on(A) <= x[A]
          /\ on(G) \in Nat /\ on(D) \in Nat /\ on(M) \in Nat /\ on(A) \in Nat
          /\ x[G] \in Nat /\ x[D] \in Nat /\ x[M] \in Nat /\ x[A] \in Nat
      BY <1>13, <2>3
    <3>2. on(G) < x[G] \/ on(D) < x[D] \/ on(M) < x[M] \/ on(A) < x[A]
      BY <2>2, <2>4
    <3>3. on(G) + on(D) + on(M) + on(A) < x[G] + x[D] + x[M] + x[A]
      BY <3>1, <3>2
    <3>4. QED
      BY <1>10, <1>11, <3>3
  <2>6. QED
    BY <1>3, <1>4, <1>6, <2>2, <2>5 DEF held, BaselineSides
<1>16. QED
  BY <1>14, <1>15

\* The mercato buys players of the pool only.
LEMMA SquadOfPool ==
  ASSUME SafeSheet, squad \subseteq Players, BidNext
  PROVE  squad' \subseteq Players
<1>1. CASE Settle
  <2>1. PICK won \in SUBSET DOMAIN sheet : squad' = squad \cup {sheet[i].player : i \in won}
    BY <1>1 DEF Settle
  <2>2. \A i \in DOMAIN sheet : sheet[i].player \in Players
    BY Places DEF SafeSheet, Payable
  <2>3. QED
    BY <2>1, <2>2
<1>2. CASE ~Settle
  <2>1. squad' = squad
    BY <1>2 DEF BidNext, StartRandom, StartHeuristic, StartModel, FallBack, Open, RandomBid,
                HeuristicBid, ModelBid, Place, RandomGivesUp, HeuristicGivesUp, GiveUp, PassRound
  <2>2. QED
    BY <2>1
<1>3. QED
  BY <1>1, <1>2

\* Handing in: what is refused has a reason.
LEMMA HandInAccepted ==
  ASSUME Prepared, HandIn
  PROVE  Prepared'
<1>1. stage = "bench" /\ UNCHANGED <<formation, picked, bench, squad>>
  BY DEF HandIn, bidVars
<1>2. PICK b \in Benches(bench, squad \ (picked \cup ToSet(bench))) :
        Save(LaidOut(picked), b, formation)
  BY DEF HandIn
<1>3. squad \subseteq Players /\ Repaired
  BY <1>1 DEF Prepared
<1>4. stage' \in {"saved", "refused"}
  BY <1>2 DEF Save
<1>5. ASSUME stage' = "refused", Fieldable, Cardinality(squad) >= Starters + BenchSize
      PROVE  KeeperBeyondBench /\ Cardinality(squad) > Starters + BenchSize
  <2>1. ~validate_lineup(squad, formation, LaidOut(picked), b, <<>>, FALSE, UltraOf)
    BY <1>2, <1>5 DEF Save
  <2>2. /\ Row(b, ToSet(b)) /\ ToSet(b) \subseteq squad \ picked /\ Len(b) = BenchSize
        /\ \/ HasKeeper(b)
           \/ KeeperBeyondBench /\ Cardinality(squad) > Starters + BenchSize
    BY <1>3, <1>5, BenchRepaired
  <2>3. /\ formation \in Formations \ BonusOnly /\ picked \subseteq squad
        /\ \A l \in Lines : Cardinality(OnLine(picked, l)) = Needed(formation, l)
    BY <1>3, <1>5, FieldsFormation DEF Repaired
  <2>4. HasKeeper(b) => validate_lineup(squad, formation, LaidOut(picked), b, <<>>, FALSE, UltraOf)
    BY <1>3, <2>2, <2>3, Accepted
  <2>5. QED
    BY <2>1, <2>2, <2>4
<1>6. Fieldable' = Fieldable /\ KeeperBeyondBench' = KeeperBeyondBench
  BY <1>1 DEF Fieldable, KeeperBeyondBench, HasKeeper
<1>7. Cardinality(squad) \in Nat /\ Starters + BenchSize \in Nat
  BY <1>3, ByLine, FormationsAssumption, NeededInAll DEF Repaired
<1>8. LineupAccepted'
  BY <1>1, <1>5, <1>6, <1>7 DEF LineupAccepted
<1>9. QED
  BY <1>1, <1>3, <1>4, <1>8 DEF Prepared

\* The baseline's lineup: what is refused has a reason.
LEMMA BaselineAccepted ==
  ASSUME Prepared, PickBaseline
  PROVE  Prepared'
<1>1. stage = "asked" /\ formation' = Fallback /\ UNCHANGED squad
  BY DEF PickBaseline, bidVars
<1>2. PICK g \in Take(squad, G, Needed(Fallback, G)), d \in Take(squad, D, Needed(Fallback, D)),
           m \in Take(squad, M, Needed(Fallback, M)), a \in Take(squad, A, Needed(Fallback, A)) :
        /\ picked' = g \cup d \cup m \cup a
        /\ \E bg \in Take(squad \ (g \cup d \cup m \cup a), G, BenchShape[G]),
              bd \in Take(squad \ (g \cup d \cup m \cup a), D, BenchShape[D]),
              bm \in Take(squad \ (g \cup d \cup m \cup a), M, BenchShape[M]),
              ba \in Take(squad \ (g \cup d \cup m \cup a), A, BenchShape[A]) :
             /\ bench' = LaidOut(bg \cup bd \cup bm \cup ba)
             /\ Save(LaidOut(g \cup d \cup m \cup a), LaidOut(bg \cup bd \cup bm \cup ba), Fallback)
  BY Zenon DEF PickBaseline
<1> DEFINE P == g \cup d \cup m \cup a
<1>3. PICK bg \in Take(squad \ P, G, BenchShape[G]), bd \in Take(squad \ P, D, BenchShape[D]),
           bm \in Take(squad \ P, M, BenchShape[M]), ba \in Take(squad \ P, A, BenchShape[A]) :
        Save(LaidOut(P), LaidOut(bg \cup bd \cup bm \cup ba), Fallback)
  BY <1>2
<1> DEFINE B == bg \cup bd \cup bm \cup ba
<1>4. squad \subseteq Players
  BY DEF Prepared
<1>5. stage' \in {"saved", "refused"} /\ lineup'.bench = LaidOut(B)
  BY <1>3 DEF Save
<1>6. ASSUME stage' = "refused", Fieldable
      PROVE  /\ Len(lineup'.bench) < BenchSize
             /\ \E l \in Lines : Cardinality(OnLine(squad, l))
                                   < Needed(Fallback, l) + BenchShape[l]
  <2> DEFINE wide == /\ P \subseteq squad /\ B \subseteq squad \ P
                     /\ \A l \in Lines : Cardinality(OnLine(P, l)) = Needed(Fallback, l)
             full == Len(LaidOut(B)) = BenchSize /\ HasKeeper(LaidOut(B))
             short == /\ Len(LaidOut(B)) < BenchSize
                      /\ \E l \in Lines : Cardinality(OnLine(squad, l))
                                            < Needed(Fallback, l) + BenchShape[l]
  <2>1. wide /\ (full \/ short)
    <3>1. P = g \cup d \cup m \cup a /\ B = bg \cup bd \cup bm \cup ba
      OBVIOUS
    <3>2. /\ g \in Take(squad, G, Needed(Fallback, G)) /\ d \in Take(squad, D, Needed(Fallback, D))
          /\ m \in Take(squad, M, Needed(Fallback, M)) /\ a \in Take(squad, A, Needed(Fallback, A))
      BY <1>2
    <3>3. /\ bg \in Take(squad \ P, G, BenchShape[G]) /\ bd \in Take(squad \ P, D, BenchShape[D])
          /\ bm \in Take(squad \ P, M, BenchShape[M]) /\ ba \in Take(squad \ P, A, BenchShape[A])
      BY <1>3
    <3> HIDE DEF P, B
    <3>4. BaselineSides(P, B)
      BY <1>4, <1>6, <3>1, <3>2, <3>3, BaselineLaidOut
    <3>5. QED
      BY <3>4 DEF BaselineSides
  <2>2. ~validate_lineup(squad, Fallback, LaidOut(P), LaidOut(B), <<>>, FALSE, UltraOf)
    BY <1>3, <1>6 DEF Save
  <2> HIDE DEF P, B
  <2>3. ASSUME wide, full
        PROVE  validate_lineup(squad, Fallback, LaidOut(P), LaidOut(B), <<>>, FALSE, UltraOf)
    <3>1. Row(LaidOut(B), B)
      BY <1>4, <2>3, LaidOutIsRow
    <3>2. Fallback \in Formations \ BonusOnly
      BY BenchAssumption
    <3>3. QED
      BY <1>4, <2>3, <3>1, <3>2, Accepted
  <2>4. short
    BY <2>1, <2>2, <2>3
  <2>5. QED
    BY <1>5, <2>4 DEF B
<1>7. LineupAccepted'
  <2>1. Fieldable' = Fieldable
    BY <1>1 DEF Fieldable
  <2>2. QED
    BY <1>1, <1>6, <2>1 DEF LineupAccepted, ShapeUnfilled
<1>8. QED
  BY <1>1, <1>4, <1>5, <1>7 DEF Prepared

\* A name that is kept takes a place that was free on its line.
LEMMA NameStarterPrepared ==
  ASSUME Prepared, NameStarter
  PROVE  Prepared'
<1>1. /\ stage = "asked" /\ UNCHANGED <<stage, formation, bench, squad>>
  BY DEF NameStarter, bidVars
<1>2. PICK p \in Players : KeepsStarter(p) /\ picked' = picked \cup {p}
  BY DEF NameStarter
<1>3. /\ squad \subseteq Players /\ formation \in Formations \ BonusOnly
      /\ picked \subseteq squad /\ bench = <<>>
      /\ \A l \in Lines : Cardinality(OnLine(picked, l)) <= Needed(formation, l)
  BY <1>1 DEF Prepared
<1>4. p \in squad \ picked /\ Cardinality(OnLine(picked, LineOf(p))) < Needed(formation, LineOf(p))
  BY <1>2 DEF KeepsStarter
<1>5. ASSUME NEW l \in Lines
      PROVE  Cardinality(OnLine(picked', l)) <= Needed(formation, l)
  <2>1. /\ IsFiniteSet(OnLine(picked, l)) /\ Cardinality(OnLine(picked, l)) \in Nat
        /\ Needed(formation, l) \in Nat
    BY <1>3, ByLine, NeededInAll
  <2>2. OnLine(picked', l) = IF LineOf(p) = l THEN OnLine(picked, l) \cup {p} ELSE OnLine(picked, l)
    BY <1>2 DEF OnLine
  <2>3. CASE LineOf(p) = l
    <3>1. p \notin OnLine(picked, l)
      BY <1>4 DEF OnLine
    <3>2. Cardinality(OnLine(picked, l) \cup {p}) = Cardinality(OnLine(picked, l)) + 1
      BY <2>1, <3>1, FS_AddElement
    <3>3. QED
      BY <1>4, <2>1, <2>2, <2>3, <3>2
  <2>4. CASE LineOf(p) # l
    BY <1>3, <2>2, <2>4
  <2>5. QED
    BY <2>3, <2>4
<1>6. picked' \subseteq squad
  BY <1>2, <1>3, <1>4
<1>7. QED
  BY <1>1, <1>3, <1>5, <1>6 DEF Prepared, LineupAccepted

\* The places left empty are filled as far as the squad goes.
LEMMA FillStartersRepairs ==
  ASSUME Prepared, FillStarters
  PROVE  Prepared'
<1>1. stage = "asked" /\ stage' = "bench" /\ UNCHANGED <<formation, bench, squad>>
  BY DEF FillStarters, bidVars
<1>2. PICK filling \in SUBSET (squad \ picked) :
        /\ \A l \in Lines :
             Cardinality(OnLine(filling, l)) =
               Min({Max({0, Needed(formation, l) - Cardinality(OnLine(picked, l))}),
                    Cardinality(OnLine(squad \ picked, l))})
        /\ picked' = picked \cup filling
  BY DEF FillStarters
<1>3. /\ squad \subseteq Players /\ formation \in Formations \ BonusOnly
      /\ picked \subseteq squad /\ bench = <<>>
      /\ \A l \in Lines : Cardinality(OnLine(picked, l)) <= Needed(formation, l)
  BY <1>1 DEF Prepared
<1>4. ASSUME NEW l \in Lines
      PROVE  Cardinality(OnLine(picked', l)) =
               Min({Needed(formation, l), Cardinality(OnLine(squad, l))})
  <2> DEFINE S == OnLine(squad, l)
             T == OnLine(picked, l)
             F == OnLine(filling, l)
             s == Cardinality(S)
             t == Cardinality(T)
             n == Needed(formation, l)
             w == Max({0, n - t})
             r == Cardinality(S \ T)
  <2>1. /\ IsFiniteSet(S) /\ IsFiniteSet(T) /\ IsFiniteSet(F)
        /\ s \in Nat /\ t \in Nat /\ n \in Nat /\ t <= n
    <3>1. filling \subseteq Players /\ picked \subseteq Players
      BY <1>3
    <3>2. QED
      BY <1>3, <3>1, ByLine, NeededInAll
  <2>2. T \subseteq S /\ OnLine(squad \ picked, l) = S \ T /\ OnLine(picked', l) = T \cup F /\ T \cap F = {}
    BY <1>2, <1>3 DEF OnLine
  <2>3. Cardinality(F) = Min({w, r})
    BY <1>2, <2>2
  <2> HIDE DEF S, T, F
  <2>4. r = s - t /\ r \in Nat
    BY <2>1, <2>2, Remainder, FS_CardinalityType
  <2>5. Cardinality(OnLine(picked', l)) = t + Cardinality(F)
    BY <2>1, <2>2, DisjointUnion
  <2> HIDE DEF s, t, n, r
  <2>6. w = n - t
    <3>1. n - t \in Int /\ n - t >= 0
      BY <2>1
    <3>2. w = IF 0 >= n - t THEN 0 ELSE n - t
      BY <3>1, MaxOfTwo
    <3>3. QED
      BY <3>1, <3>2
  <2> HIDE DEF w
  <2>7. Cardinality(F) = IF w <= r THEN w ELSE r
    BY <2>1, <2>3, <2>4, <2>6, MinOfTwo
  <2>8. Min({n, s}) = IF n <= s THEN n ELSE s
    BY <2>1, MinOfTwo
  <2>9. Cardinality(OnLine(picked', l)) = Min({n, s})
    BY <2>1, <2>4, <2>5, <2>6, <2>7, <2>8
  <2>10. QED
    BY <2>9 DEF n, s, S
<1>5. bench \in Seq(squad \ picked') /\ IsInjective(bench) /\ picked' \subseteq squad
  BY <1>2, <1>3 DEF IsInjective
<1>6. Repaired'
  BY <1>1, <1>3, <1>4, <1>5 DEF Repaired
<1>7. QED
  BY <1>1, <1>3, <1>6 DEF Prepared, LineupAccepted

\* Every step keeps the lineup in preparation as it should be.
LEMMA NextPrepared ==
  ASSUME SafeSheet, Prepared, [Next]_vars
  PROVE  Prepared'
<1>1. CASE UNCHANGED vars
  BY <1>1 DEF vars, bidVars, pickVars, Prepared, Repaired, LineupAccepted, Fieldable,
              KeeperBeyondBench, HasKeeper, ShapeUnfilled
<1>2. CASE MercatoTurn
  <2>1. stage = "mercato" /\ BidNext /\ UNCHANGED pickVars
    BY <1>2 DEF MercatoTurn
  <2>2. squad' \subseteq Players
    BY <2>1, SquadOfPool DEF Prepared
  <2>3. QED
    BY <2>1, <2>2 DEF pickVars, Prepared, LineupAccepted
<1>3. CASE CloseMercato
  <2>1. /\ stage = "mercato" /\ stage' = "asked" /\ UNCHANGED <<formation, picked, bench>>
    BY <1>3 DEF CloseMercato
  <2>2. PICK drafted \in SUBSET free : squad' = squad \cup drafted
    BY <1>3 DEF CloseMercato
  <2>3. squad' \subseteq Players
    BY <2>2 DEF Prepared, SafeSheet, Agent
  <2>4. picked = {} /\ bench = <<>> /\ formation = Fallback /\ Fallback \in Formations \ BonusOnly
    BY <2>1, BenchAssumption DEF Prepared
  <2>5. \A l \in Lines : Cardinality(OnLine({}, l)) <= Needed(Fallback, l)
    <3>1. \A l : OnLine({}, l) = {}
      BY DEF OnLine
    <3>2. Cardinality({}) = 0
      BY FS_EmptySet
    <3>3. \A l \in Lines : Needed(Fallback, l) \in Nat
      BY <2>4, NeededInAll
    <3>4. QED
      BY <3>1, <3>2, <3>3
  <2>6. QED
    BY <2>1, <2>3, <2>4, <2>5 DEF Prepared, LineupAccepted
<1>4. CASE AnswerFormation
  <2>1. /\ stage = "asked" /\ picked = {} /\ formation' \in Formations \ BonusOnly
        /\ UNCHANGED <<stage, picked, bench, squad>>
    BY <1>4 DEF AnswerFormation, bidVars
  <2>2. \A l \in Lines : Cardinality(OnLine(picked, l)) <= Needed(formation', l)
    <3>1. \A l : OnLine(picked, l) = {}
      BY <2>1 DEF OnLine
    <3>2. QED
      BY <2>1, <3>1, FS_EmptySet, NeededInAll
  <2>3. QED
    BY <2>1, <2>2 DEF Prepared, LineupAccepted
<1>5. CASE NameStarter
  BY <1>5, NameStarterPrepared
<1>6. CASE FillStarters
  BY <1>6, FillStartersRepairs
<1>7. CASE NameSubstitute
  <2>1. stage = "bench" /\ UNCHANGED <<stage, formation, picked, squad>>
    BY <1>7 DEF NameSubstitute, bidVars
  <2>2. PICK p \in squad \ (picked \cup ToSet(bench)) : bench' = Append(bench, p)
    BY <1>7 DEF NameSubstitute
  <2>3. Repaired /\ squad \subseteq Players
    BY <2>1 DEF Prepared
  <2>4. bench' \in Seq(squad \ picked) /\ IsInjective(bench')
    <3>1. bench \in Seq(squad \ picked) /\ IsInjective(bench) /\ p \in squad \ picked
      BY <2>2, <2>3 DEF Repaired
    <3>2. \A i \in DOMAIN bench : bench[i] # p
      BY <2>2 DEF ToSet
    <3>3. bench' \in Seq(squad \ picked)
      BY <2>2, <3>1
    <3>4. /\ DOMAIN bench' = 1..(Len(bench) + 1) /\ DOMAIN bench = 1..Len(bench)
          /\ Len(bench) \in Nat
          /\ \A i \in 1..(Len(bench) + 1) :
               bench'[i] = IF i <= Len(bench) THEN bench[i] ELSE p
      BY <2>2, <3>1
    <3>5. QED
      BY <3>1, <3>2, <3>3, <3>4 DEF IsInjective
  <2>5. QED
    BY <2>1, <2>3, <2>4 DEF Prepared, Repaired, LineupAccepted
<1>8. CASE HandIn
  BY <1>8, HandInAccepted
<1>9. CASE PickBaseline
  BY <1>9, BaselineAccepted
<1>10. QED
  BY <1>1, <1>2, <1>3, <1>4, <1>5, <1>6, <1>7, <1>8, <1>9 DEF Next

-----------------------------------------------------------------------------
(* The theorems *)

\* The inductive invariant of the sheets.
LEMMA SheetsAreSafe == Spec => []SafeSheet
<1>1. Init => SafeSheet
  BY InitSafe
<1>2. SafeSheet /\ [Next]_vars => SafeSheet'
  BY NextSafe
<1>3. QED
  BY <1>1, <1>2, PTL DEF Spec

\* Whatever the author, the squad, the catalogue and the budget: if every bid of
\* a sheet wins, what is left of the money still buys every player the squad
\* then lacks, one coin each (random_bids.py:5-6).
THEOREM ReserveIsKept == Spec => []ReserveKept
<1>1. SafeSheet => ReserveKept
  BY SafeSheetGives
<1>2. QED
  BY <1>1, SheetsAreSafe, PTL

\* The sheet that is handed in is accepted as it is: free players, nobody twice,
\* no amount under the quotation, all of it payable, and, as long as a third of
\* the quotas fits in a round's bids, no more of them than a round takes
\* (bench/runner.py:177).
THEOREM SheetIsAccepted ==
  ASSUME ShortTargets PROVE Spec => []SheetAccepted
<1>1. Init => SafeSheet /\ Short
  BY InitSafe
<1>2. SafeSheet /\ Short /\ [Next]_vars => SafeSheet' /\ Short'
  BY NextSafe
<1>3. SafeSheet /\ Short => SheetAccepted
  BY SafeSheetGives
<1>4. QED
  BY <1>1, <1>2, <1>3, PTL DEF Spec

\* Whatever the catalogue, the mercato and the answers: a squad that fills every
\* formation and the bench hands in a lineup the game accepts, unless the model
\* names its goalkeeper beyond the size of the bench or the baseline is short on
\* one line for its own bench (validation.py:3-6, agents.py:95).
THEOREM LineupIsAccepted == Spec => []LineupAccepted
<1>1. Init => Prepared
  BY BenchAssumption DEF Init, BidInit, Prepared, LineupAccepted
<1>2. SafeSheet /\ Prepared /\ [Next]_vars => Prepared'
  BY NextPrepared
<1>3. Prepared => LineupAccepted
  BY DEF Prepared
<1>4. QED
  BY <1>1, <1>2, <1>3, SheetsAreSafe, PTL DEF Spec

=============================================================================
