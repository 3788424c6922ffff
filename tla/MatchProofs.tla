---------------------------- MODULE MatchProofs -----------------------------
(***************************************************************************)
(* What the engine guarantees for every pair of legal team sheets, every   *)
(* pair of bonuses and every setting of its flags: who ends up on the      *)
(* field, what the ground may change, what nothing can take away, and that *)
(* a rating revised upwards never costs its side.                          *)
(*                                                                         *)
(* The engine goes through rules, changes, seats, lines and kinds of goals *)
(* one after the other.  Each of these walks is a recursive function on    *)
(* the number of steps made; what is true before the first step and kept   *)
(* by every step is true at the end.                                       *)
(***************************************************************************)
EXTENDS Match, Sums, SequenceTheorems

-----------------------------------------------------------------------------
(* Walks *)

\* The minimum of a nonempty set of natural numbers is one of them.
LEMMA MinIsIn ==
  ASSUME NEW T, T \subseteq Nat, T # {}
  PROVE  Min(T) \in T
<1>1. \E m \in T : \A y \in T : m <= y
  BY Least
<1>2. QED
  BY <1>1 DEF Min

\* What holds at the start and is kept by every step holds at the end.
LEMMA StaysIn ==
  ASSUME NEW n \in Nat, NEW B, NEW c, c[0] \in B,
         \A k \in 1..n : c[k - 1] \in B => c[k] \in B
  PROVE  \A k \in 0..n : c[k] \in B
<1> DEFINE T == {k \in 0..n : c[k] \notin B}
<1> SUFFICES ASSUME T # {} PROVE FALSE
  OBVIOUS
<1>1. PICK m \in T : \A y \in T : m <= y
  <2>1. T \subseteq Nat
    OBVIOUS
  <2> HIDE DEF T
  <2>2. QED
    BY <2>1, Least
<1>2. m \in 1..n /\ m - 1 \in 0..n /\ m - 1 < m
  BY <1>1
<1>3. m - 1 \notin T
  BY <1>1, <1>2
<1>4. QED
  BY <1>1, <1>2, <1>3

\* g starts at base and makes n steps of F, all in B.
Walks(g, n, B, base, F) ==
  /\ g \in [0..n -> B] /\ g[0] = base
  /\ \A k \in 1..n : g[k] = F[<<g[k - 1], k>>]

\* Every walk through a set exists.
LEMMA WalkExists ==
  ASSUME NEW n \in Nat, NEW B, NEW base \in B, NEW F \in [B \X (1..n) -> B]
  PROVE  \E g : Walks(g, n, B, base, F)
<1> DEFINE Walk(k, g) == Walks(g, k, B, base, F)
           T == {k \in 0..n : \A g : ~Walk(k, g)}
<1> SUFFICES ASSUME T # {} PROVE FALSE
  OBVIOUS
<1>1. PICK m \in T : \A y \in T : m <= y
  <2>1. T \subseteq Nat
    OBVIOUS
  <2> HIDE DEF T
  <2>2. QED
    BY <2>1, Least
<1>2. m # 0
  <2>1. Walk(0, [i \in 0..0 |-> base])
    BY DEF Walks
  <2>2. QED
    BY <1>1, <2>1
<1>3. m \in 1..n /\ m - 1 \in 0..n /\ m - 1 < m
  BY <1>1, <1>2
<1>4. PICK g : Walk(m - 1, g)
  <2>1. m - 1 \notin T
    BY <1>1, <1>3
  <2> HIDE DEF Walk
  <2>2. QED
    BY <1>3, <2>1
<1>5. /\ g \in [0..(m - 1) -> B] /\ g[0] = base
      /\ \A i \in 1..(m - 1) : g[i] = F[<<g[i - 1], i>>]
  BY <1>4 DEF Walks
<1>6. m - 1 \in 0..(m - 1) /\ g[m - 1] \in B /\ F[<<g[m - 1], m>>] \in B
  BY <1>3, <1>5
<1> DEFINE top == F[<<g[m - 1], m>>]
<1>7. top \in B
  BY <1>6
<1>8. \A i \in 1..(m - 1) : g[i] = F[<<g[i - 1], i>>]
  BY <1>5
<1> DEFINE step(i, x) == F[<<x, i>>]
           h == [i \in 0..m |-> IF i = m THEN top ELSE g[i]]
<1>9. h \in [0..m -> B] /\ h[0] = base /\ \A i \in 1..(m - 1) : h[i] = g[i]
  <2>1. \A i \in 0..m : i # m => i \in 0..(m - 1)
    BY <1>3
  <2> HIDE DEF top
  <2>2. QED
    BY <1>3, <1>5, <1>7, <2>1
<1>10. \A i \in 1..m : h[i] = step(i, h[i - 1])
  <2>1. h[m] = top /\ h[m - 1] = g[m - 1] /\ top = step(m, g[m - 1])
    BY <1>3
  <2>2. \A i \in 1..(m - 1) : h[i - 1] = g[i - 1]
    BY <1>3
  <2>3. \A i \in 1..(m - 1) : g[i] = step(i, g[i - 1])
    BY <1>8
  <2>4. \A i \in 1..m : i = m \/ i \in 1..(m - 1)
    BY <1>3
  <2> HIDE DEF step, h, top
  <2>5. QED
    BY <1>9, <2>1, <2>2, <2>3, <2>4
<1>11. Walk(m, h)
  <2> HIDE DEF h
  <2>1. QED
    BY <1>9, <1>10 DEF Walks
<1>12. QED
  BY <1>1, <1>11

\* The smaller of two integers.
LEMMA MinOfTwo ==
  ASSUME NEW a \in Int, NEW b \in Int
  PROVE  Min({a, b}) = IF a <= b THEN a ELSE b
<1> DEFINE m == IF a <= b THEN a ELSE b
<1>1. m \in {a, b} /\ \A y \in {a, b} : m <= y
  OBVIOUS
<1>2. \A x \in {a, b} : (\A y \in {a, b} : x <= y) => x = m
  OBVIOUS
<1> HIDE DEF m
<1>3. Min({a, b}) = m
  BY <1>1, <1>2 DEF Min
<1>4. QED
  BY <1>3 DEF m

-----------------------------------------------------------------------------
(* Cancelled goals *)

Kinds == {"real", "own_goal", "mpg"}
Tally == [real : Nat, own_goal : Nat, mpg : Nat]
Left == [goals : Tally, left : Nat]

\* No more goals of any kind in one tally than in the other, and no less left
\* to cancel.
Below(acc, than) ==
  /\ \A kind \in Kinds : acc.goals[kind] <= than.goals[kind]
  /\ acc.left >= than.left

\* One kind: what is left of it, and of the right to cancel.
LEMMA KindCancelled ==
  ASSUME NEW acc \in Left, NEW kind \in Kinds
  PROVE  LET n == IF acc.left <= acc.goals[kind] THEN acc.left ELSE acc.goals[kind]
             next == CancelKind(acc, kind)
         IN /\ next \in Left
            /\ next.left = acc.left - n
            /\ \A other \in Kinds : next.goals[other] =
                 IF other = kind THEN acc.goals[kind] - n ELSE acc.goals[other]
<1> DEFINE n == IF acc.left <= acc.goals[kind] THEN acc.left ELSE acc.goals[kind]
<1>1. acc.left \in Nat /\ acc.goals[kind] \in Nat /\ acc.goals \in Tally
  BY DEF Left, Tally, Kinds
<1>2. Min({acc.left, acc.goals[kind]}) = n
  BY <1>1, MinOfTwo
<1>3. CancelKind(acc, kind) =
        [goals |-> [acc.goals EXCEPT ![kind] = @ - n], left |-> acc.left - n]
  BY <1>2 DEF CancelKind
<1>4. n \in Nat /\ acc.left - n \in Nat /\ acc.goals[kind] - n \in Nat
  BY <1>1
<1> HIDE DEF n
<1>5. [acc.goals EXCEPT ![kind] = @ - n] \in Tally
  BY <1>1, <1>4 DEF Tally, Kinds
<1>6. \A other \in Kinds : [acc.goals EXCEPT ![kind] = @ - n][other] =
                 IF other = kind THEN acc.goals[kind] - n ELSE acc.goals[other]
  BY <1>1 DEF Tally, Kinds
<1>7. QED
  BY <1>3, <1>4, <1>5, <1>6 DEF Left, n

\* More goals and less to cancel leave more goals.
LEMMA KindKeepsOrder ==
  ASSUME NEW a \in Left, NEW b \in Left, Below(a, b), NEW kind \in Kinds
  PROVE  Below(CancelKind(a, kind), CancelKind(b, kind))
<1>1. /\ a.left \in Nat /\ a.goals[kind] \in Nat
      /\ b.left \in Nat /\ b.goals[kind] \in Nat
  BY DEF Left, Tally, Kinds
<1>2. a.left >= b.left /\ a.goals[kind] <= b.goals[kind]
  BY DEF Below
<1>3. CancelKind(a, kind).left >= CancelKind(b, kind).left
  BY <1>1, <1>2, KindCancelled
<1>4. ASSUME NEW other \in Kinds
      PROVE  CancelKind(a, kind).goals[other] <= CancelKind(b, kind).goals[other]
  <2>1. CASE other = kind
    BY <1>1, <1>2, <2>1, KindCancelled
  <2>2. CASE other # kind
    <3>1. a.goals[other] <= b.goals[other]
      BY DEF Below
    <3>2. QED
      BY <2>2, <3>1, KindCancelled
  <2>3. QED
    BY <2>1, <2>2
<1>5. QED
  BY <1>3, <1>4 DEF Below

\* The walk through the kinds, step by step.
LEMMA CancelWalks ==
  ASSUME NEW goals \in Tally, NEW kinds \in Seq(Kinds), NEW n \in Nat
  PROVE  \E walk \in [0..Len(kinds) -> Left] :
           /\ walk[0] = [goals |-> goals, left |-> n]
           /\ \A i \in 1..Len(kinds) : walk[i] = CancelKind(walk[i - 1], kinds[i])
           /\ Cancel(goals, kinds, n) = walk[Len(kinds)].goals
<1> DEFINE base == [goals |-> goals, left |-> n]
           F == [x \in Left \X (1..Len(kinds)) |-> CancelKind(x[1], kinds[x[2]])]
           walks(g) == g = [i \in 0..Len(kinds) |->
                              IF i = 0 THEN [goals |-> goals, left |-> n]
                              ELSE CancelKind(g[i - 1], kinds[i])]
           after == CHOOSE g : walks(g)
<1>1. Len(kinds) \in Nat /\ base \in Left /\ \A i \in 1..Len(kinds) : kinds[i] \in Kinds
  BY DEF Left
<1>2. \A x \in Left, i \in 1..Len(kinds) : F[<<x, i>>] = CancelKind(x, kinds[i])
  OBVIOUS
<1>3. F \in [Left \X (1..Len(kinds)) -> Left]
  <2>1. \A x \in Left, i \in 1..Len(kinds) : CancelKind(x, kinds[i]) \in Left
    BY <1>1, KindCancelled
  <2>2. QED
    BY <2>1
<1> HIDE DEF F
<1>4. PICK g \in [0..Len(kinds) -> Left] :
        g[0] = base /\ \A i \in 1..Len(kinds) : g[i] = F[<<g[i - 1], i>>]
  <2> HIDE DEF base, walks, after
  <2>1. \E g : Walks(g, Len(kinds), Left, base, F)
    BY <1>1, <1>3, WalkExists
  <2>2. QED
    BY <2>1 DEF Walks
<1>5. \A i \in 1..Len(kinds) : i - 1 \in 0..Len(kinds) /\ g[i - 1] \in Left
  BY <1>1
<1>6. \A i \in 1..Len(kinds) : g[i] = CancelKind(g[i - 1], kinds[i])
  BY <1>2, <1>4, <1>5
<1>7. walks(g)
  <2>1. \A i \in 0..Len(kinds) : i = 0 \/ i \in 1..Len(kinds)
    BY <1>1
  <2>2. QED
    BY <1>4, <1>6, <2>1
<1>8. walks(after)
  BY <1>7
<1>9. Cancel(goals, kinds, n) = after[Len(kinds)].goals
  BY DEF Cancel
<1> HIDE DEF after
<1>10. /\ DOMAIN after = 0..Len(kinds) /\ after[0] = base
       /\ \A i \in 1..Len(kinds) : after[i] = CancelKind(after[i - 1], kinds[i])
  BY <1>1, <1>8
<1> HIDE DEF walks, base
<1>11. \A i \in 0..Len(kinds) : after[i] \in Left
  <2>1. \A i \in 1..Len(kinds) : after[i - 1] \in Left => after[i] \in Left
    BY <1>1, <1>10, KindCancelled
  <2>2. QED
    BY <1>1, <1>10, <2>1, StaysIn
<1>12. after \in [0..Len(kinds) -> Left]
  BY <1>8, <1>11 DEF walks
<1>13. QED
  BY <1>9, <1>10, <1>12 DEF base

\* Cancelling leaves no kind negative, and more goals leave more goals.
LEMMA CancelKeepsOrder ==
  ASSUME NEW goals \in Tally, NEW more \in Tally, NEW kinds \in Seq(Kinds), NEW n \in Nat,
         \A kind \in Kinds : goals[kind] <= more[kind]
  PROVE  /\ Cancel(goals, kinds, n) \in Tally /\ Cancel(more, kinds, n) \in Tally
         /\ \A kind \in Kinds : Cancel(goals, kinds, n)[kind] <= Cancel(more, kinds, n)[kind]
<1> DEFINE last == Len(kinds)
<1>1. last \in Nat /\ \A i \in 1..last : kinds[i] \in Kinds
  OBVIOUS
<1>2. PICK a \in [0..last -> Left] :
        /\ a[0] = [goals |-> goals, left |-> n]
        /\ \A i \in 1..last : a[i] = CancelKind(a[i - 1], kinds[i])
        /\ Cancel(goals, kinds, n) = a[last].goals
  BY CancelWalks
<1>3. PICK b \in [0..last -> Left] :
        /\ b[0] = [goals |-> more, left |-> n]
        /\ \A i \in 1..last : b[i] = CancelKind(b[i - 1], kinds[i])
        /\ Cancel(more, kinds, n) = b[last].goals
  BY CancelWalks
<1> HIDE DEF last
<1> DEFINE B == {p \in Left \X Left : Below(p[1], p[2])}
           c == [i \in 0..last |-> <<a[i], b[i]>>]
<1>4. \A i \in 1..last : i - 1 \in 0..last /\ i \in 0..last
  BY <1>1
<1>5. Below(a[0], b[0])
  BY <1>2, <1>3 DEF Below
<1>6. ASSUME NEW i \in 1..last, Below(a[i - 1], b[i - 1])
      PROVE  Below(a[i], b[i])
  <2>1. a[i - 1] \in Left /\ b[i - 1] \in Left
    BY <1>4
  <2>2. Below(CancelKind(a[i - 1], kinds[i]), CancelKind(b[i - 1], kinds[i]))
    BY <1>1, <1>6, <2>1, KindKeepsOrder
  <2>3. QED
    BY <1>2, <1>3, <2>2
<1>7. \A i \in 0..last : c[i] \in B
  <2>1. c[0] \in B
    BY <1>1, <1>5
  <2>2. ASSUME NEW i \in 1..last, c[i - 1] \in B
        PROVE  c[i] \in B
    <3>1. c[i - 1] = <<a[i - 1], b[i - 1]>> /\ c[i] = <<a[i], b[i]>>
      BY <1>4
    <3>2. Below(a[i - 1], b[i - 1])
      BY <2>2, <3>1
    <3>3. Below(a[i], b[i]) /\ a[i] \in Left /\ b[i] \in Left
      BY <1>4, <1>6, <3>2
    <3>4. QED
      BY <3>1, <3>3
  <2> HIDE DEF c, B
  <2>3. QED
    BY <1>1, <2>1, <2>2, StaysIn
<1>8. last \in 0..last /\ c[last] = <<a[last], b[last]>>
  BY <1>1
<1>9. a[last] \in Left /\ b[last] \in Left /\ Below(a[last], b[last])
  BY <1>7, <1>8
<1>10. QED
  BY <1>2, <1>3, <1>9 DEF Below, Left

\* More goals of every kind are more goals in all.
LEMMA TallyAdds ==
  ASSUME NEW goals \in Tally, NEW more \in Tally,
         \A kind \in Kinds : goals[kind] <= more[kind]
  PROVE  AllGoals(goals) \in Nat /\ AllGoals(more) \in Nat
         /\ AllGoals(goals) <= AllGoals(more)
<1>1. /\ goals.real <= more.real /\ goals.own_goal <= more.own_goal /\ goals.mpg <= more.mpg
      /\ goals.real \in Nat /\ goals.own_goal \in Nat /\ goals.mpg \in Nat
      /\ more.real \in Nat /\ more.own_goal \in Nat /\ more.mpg \in Nat
  BY DEF Tally, Kinds
<1>2. QED
  BY <1>1 DEF AllGoals

\* Scores: what is left of the goals, and the punishment on top of it.
LEMMA PunishmentIsANumber ==
  ASSUME NEW xi, IsFiniteSet(DOMAIN xi)
  PROVE  Rotaldos(xi) \in Nat /\ rotaldo_own_goals(xi) \in Nat
<1>1. IsFiniteSet({i \in DOMAIN xi : xi[i].rotaldo})
  BY FS_Subset
<1>2. Rotaldos(xi) \in Nat
  BY <1>1, FS_CardinalityType DEF Rotaldos
<1>3. QED
  BY <1>2, EngineAssumption DEF rotaldo_own_goals

\* More goals never make a lower score, and no score is below the punishment.
LEMMA ScoreKeepsOrder ==
  ASSUME NEW xi, NEW opponentXI, IsFiniteSet(DOMAIN opponentXI), NEW opponent,
         NEW goals \in Tally, NEW more \in Tally,
         \A kind \in Kinds : goals[kind] <= more[kind]
  PROVE  /\ SideScore(xi, opponentXI, goals, opponent) \in Nat
         /\ SideScore(xi, opponentXI, goals, opponent) >= rotaldo_own_goals(opponentXI)
         /\ SideScore(xi, opponentXI, goals, opponent)
              <= SideScore(xi, opponentXI, more, opponent)
<1> DEFINE saves == IF Flags.mpg_save_can_cancel_own_goal
                    THEN <<"own_goal", "real">> ELSE <<"real">>
           valises == IF Flags.valise_can_cancel_real_own_goal
                      THEN <<"real", "own_goal", "mpg">> ELSE <<"real", "mpg">>
           n == Flags.goals_cancelled_per_valise
           saved(g) == IF ~SaveArmed(opponentXI) THEN g ELSE Cancel(g, saves, 1)
           left(g) == IF ~opponent.valise THEN saved(g) ELSE Cancel(saved(g), valises, n)
           Ordered(a, b) == /\ a \in Tally /\ b \in Tally
                            /\ \A kind \in Kinds : a[kind] <= b[kind]
<1>1. saves \in Seq(Kinds) /\ valises \in Seq(Kinds) /\ n \in Nat /\ 1 \in Nat
  <2>1. /\ <<"own_goal", "real">> \in Seq(Kinds) /\ <<"real">> \in Seq(Kinds)
        /\ <<"real", "mpg">> \in Seq(Kinds)
    BY DEF Kinds
  <2>2. <<"real", "own_goal", "mpg">> \in Seq(Kinds)
    BY DEF Kinds
  <2>3. n \in Nat
    BY EngineAssumption
  <2>4. QED
    BY <2>1, <2>2, <2>3
<1>2. \A g : SideScore(xi, opponentXI, g, opponent)
               = AllGoals(left(g)) + rotaldo_own_goals(opponentXI)
  BY DEF SideScore
<1> HIDE DEF saves, valises, n
<1>3. Ordered(saved(goals), saved(more))
  BY <1>1, CancelKeepsOrder
<1> HIDE DEF saved
<1>4. Ordered(left(goals), left(more))
  BY <1>1, <1>3, CancelKeepsOrder
<1> HIDE DEF left
<1>5. /\ AllGoals(left(goals)) \in Nat /\ AllGoals(left(more)) \in Nat
      /\ AllGoals(left(goals)) <= AllGoals(left(more))
  BY <1>4, TallyAdds
<1>6. rotaldo_own_goals(opponentXI) \in Nat
  BY PunishmentIsANumber
<1>7. QED
  BY <1>2, <1>5, <1>6
-----------------------------------------------------------------------------
(* Duels *)

\* The duels of one player, line by line.
Duels(g, lines, base, defending, winsTies) ==
  g = [n \in 0..Len(lines) |->
         IF n = 0 THEN base ELSE Duel(g[n - 1], LineAverage(defending, lines[n]), winsTies)]

Attack(scorer) == [passed |-> TRUE, current |-> scorer.rating, first |-> TRUE]

\* The walk through the lines exists, for every attack and every defence.
LEMMA DuelsExist ==
  ASSUME NEW lines, Len(lines) \in Nat, NEW base, NEW defending, NEW winsTies
  PROVE  \E g : Duels(g, lines, base, defending, winsTies)
<1> DEFINE step(x, n) == Duel(x, LineAverage(defending, lines[n]), winsTies)
           Walk(k, g) == g = [n \in 0..k |-> IF n = 0 THEN base ELSE step(g[n - 1], n)]
           T == {k \in 0..Len(lines) : \A g : ~Walk(k, g)}
<1> SUFFICES ASSUME T # {} PROVE FALSE
  <2>1. \E g : Walk(Len(lines), g)
    OBVIOUS
  <2>2. QED
    BY <2>1 DEF Duels
<1> HIDE DEF step
<1>1. PICK m \in T : \A y \in T : m <= y
  <2>1. T \subseteq Nat
    OBVIOUS
  <2> HIDE DEF T
  <2>2. QED
    BY <2>1, Least
<1>2. m # 0
  <2>1. Walk(0, [n \in 0..0 |-> base])
    OBVIOUS
  <2>2. QED
    BY <1>1, <2>1
<1>3. m \in 1..Len(lines) /\ m - 1 \in 0..Len(lines) /\ m - 1 < m
  BY <1>1, <1>2
<1>4. PICK g : Walk(m - 1, g)
  <2>1. m - 1 \notin T
    BY <1>1, <1>3
  <2> HIDE DEF Walk
  <2>2. QED
    BY <1>3, <2>1
<1> DEFINE h == [n \in 0..m |-> IF n = m THEN step(g[m - 1], m) ELSE g[n]]
<1>5. \A n \in 0..m : n = m \/ n \in 0..(m - 1)
  BY <1>3
<1>6. ASSUME NEW n \in 0..m PROVE h[n] = IF n = 0 THEN base ELSE step(h[n - 1], n)
  <2>1. CASE n = m
    <3>1. h[n] = step(g[m - 1], m) /\ h[n - 1] = g[m - 1] /\ n # 0
      BY <1>3, <2>1
    <3>2. step(h[n - 1], n) = step(g[m - 1], m)
      BY <2>1, <3>1
    <3>3. QED
      BY <3>1, <3>2
  <2>2. CASE n # m
    <3>1. h[n] = g[n] /\ n \in 0..(m - 1)
      BY <1>5, <2>2
    <3>2. g[n] = IF n = 0 THEN base ELSE step(g[n - 1], n)
      BY <1>4, <3>1
    <3>3. n # 0 => h[n - 1] = g[n - 1]
      BY <1>3, <3>1
    <3>4. QED
      BY <3>1, <3>2, <3>3
  <2>3. QED
    BY <2>1, <2>2
<1>7. Walk(m, h)
  <2>1. h = [n \in 0..m |-> h[n]]
    OBVIOUS
  <2> HIDE DEF h
  <2>2. QED
    BY <1>6, <2>1
<1>8. QED
  BY <1>1, <1>7

\* A scorer crosses a sequence of lines.
LEMMA GauntletLength ==
  ASSUME NEW l PROVE l \in {D, M, A} => Gauntlet(l) \in Seq(Lines)
<1>1. /\ <<D, G>> \in Seq(Lines) /\ <<M, D, G>> \in Seq(Lines) /\ <<A, M, D, G>> \in Seq(Lines)
  BY DEF G, D, M, A, Lines
<1>2. QED
  BY <1>1 DEF Gauntlet, G, D, M, A

\* A scorer crosses the lines his duels take him through.
LEMMA CrossesAsDuels ==
  ASSUME NEW scorer, scorer.line \in {D, M, A}, NEW defending, NEW winsTies
  PROVE  \E g : /\ Duels(g, Gauntlet(scorer.line), Attack(scorer), defending, winsTies)
                /\ Crosses(scorer, defending, winsTies) = g[Len(Gauntlet(scorer.line))].passed
<1> DEFINE lines == Gauntlet(scorer.line)
           g == CHOOSE h : Duels(h, lines, Attack(scorer), defending, winsTies)
<1>1. Len(lines) \in Nat
  BY GauntletLength
<1>2. Duels(g, lines, Attack(scorer), defending, winsTies)
  BY <1>1, DuelsExist
<1>3. Crosses(scorer, defending, winsTies) = g[Len(lines)].passed
  BY DEF Crosses, Duels, Attack
<1>4. QED
  BY <1>2, <1>3

\* Whether a duel at equal value is won by the visitors and by the hosts, between two
\* teams that are not told apart otherwise.
TiesAway == WinsTies(FALSE, FALSE)
TiesHome == WinsTies(TRUE, FALSE)

\* Who crosses every line though he loses the ties crosses them if he wins them.
LEMMA TiesHelpToCross ==
  ASSUME NEW scorer, scorer.line \in {D, M, A}, NEW defending,
         Crosses(scorer, defending, TiesAway)
  PROVE  Crosses(scorer, defending, TiesHome)
<1> DEFINE loses == TiesAway
           wins == TiesHome
<1>0. ~loses /\ wins
  BY DEF TiesAway, TiesHome, WinsTies
<1> HIDE DEF loses, wins
<1> SUFFICES ASSUME Crosses(scorer, defending, loses)
             PROVE  Crosses(scorer, defending, wins)
  BY DEF loses, wins
<1> DEFINE lines == Gauntlet(scorer.line)
           last == Len(lines)
           avg(n) == LineAverage(defending, lines[n])
<1>1. last \in Nat
  BY GauntletLength
<1> DEFINE Run(g, w) == /\ Duels(g, lines, Attack(scorer), defending, w)
                        /\ Crosses(scorer, defending, w) = g[last].passed
<1>2. ASSUME NEW w PROVE \E g : Run(g, w)
  BY CrossesAsDuels
<1> HIDE DEF Run
<1>3. PICK f, t : Run(f, loses) /\ Run(t, wins)
  BY <1>2, Zenon
<1>4. /\ f[0] = Attack(scorer) /\ t[0] = Attack(scorer)
      /\ \A n \in 1..last : /\ f[n] = Duel(f[n - 1], avg(n), loses)
                            /\ t[n] = Duel(t[n - 1], avg(n), wins)
  <2>1. 0 \in 0..last /\ \A n \in 1..last : n \in 0..last /\ n # 0
    BY <1>1
  <2>2. /\ Duels(f, lines, Attack(scorer), defending, loses)
        /\ Duels(t, lines, Attack(scorer), defending, wins)
    BY <1>3 DEF Run
  <2> HIDE DEF lines
  <2>3. QED
    BY <2>1, <2>2 DEF Duels
<1> HIDE DEF avg
<1>5. \A n \in 1..last : n - 1 \in 0..last /\ n \in 0..last
  BY <1>1
<1> HIDE DEF last
<1>6. ASSUME NEW n \in 1..last, f[n - 1].passed => t[n - 1] = f[n - 1], f[n].passed
      PROVE  t[n] = f[n]
  <2> DEFINE x == f[n - 1]
             won == [passed |-> TRUE,
                     current |-> x.current - (IF x.first THEN 2 ELSE 1), first |-> FALSE]
  <2>1. x.passed
    BY <1>4, <1>6 DEF Duel
  <2>2. t[n - 1] = x
    BY <1>6, <2>1
  <2>3. f[n] = Duel(x, avg(n), loses) /\ t[n] = Duel(x, avg(n), wins)
    BY <1>4, <2>2
  <2> HIDE DEF x
  <2>4. CASE avg(n).n = 0
    BY <2>3, <2>4 DEF Duel
  <2>5. CASE avg(n).n # 0
    <3>1. x.current * avg(n).n > avg(n).sum
      BY <1>0, <1>6, <2>1, <2>3, <2>5 DEF Duel
    <3>2. Duel(x, avg(n), loses) = won /\ Duel(x, avg(n), wins) = won
      BY <2>1, <2>5, <3>1 DEF Duel
    <3>3. QED
      BY <2>3, <3>2
  <2>6. QED
    BY <2>4, <2>5
<1> DEFINE T == {n \in 0..last : f[n].passed /\ t[n] # f[n]}
<1>7. T = {}
  <2>1. SUFFICES ASSUME T # {} PROVE FALSE
    OBVIOUS
  <2>2. PICK n \in T : \A y \in T : n <= y
    <3>1. T \subseteq Nat
      BY <1>1
    <3> HIDE DEF T
    <3>2. QED
      BY <2>1, <3>1, Least
  <2>3. n \in 1..last /\ n - 1 \in 0..last /\ n - 1 < n
    BY <1>1, <1>4, <2>2
  <2>4. n - 1 \notin T
    BY <1>1, <2>2, <2>3
  <2>5. QED
    BY <1>6, <2>2, <2>3, <2>4
<1>8. last \in 0..last
  BY <1>1
<1>9. f[last].passed => t[last].passed
  BY <1>7, <1>8
<1>10. QED
  BY <1>3, <1>9, Zenon DEF Run
-----------------------------------------------------------------------------
(* Team sheets and slots *)

\* The squad a sheet draws on.
Squad(sheet) == ToSet(all_players(sheet))

\* What a legal sheet gives the proofs: entries by their ids, on distinct
\* lists.
LEMMA SheetFacts ==
  ASSUME NEW sheet, LegalSheet(sheet)
  PROVE  /\ sheet.starters \in Seq(Entries) /\ sheet.bench \in Seq(Entries)
         /\ sheet.formation \in Formations /\ sheet.formation # NoFormation
         /\ Squad(sheet) \subseteq Entries
         /\ \A i \in DOMAIN sheet.starters : sheet.starters[i] \in Squad(sheet)
         /\ \A i \in DOMAIN sheet.bench : sheet.bench[i] \in Squad(sheet)
         /\ \A e, f \in Squad(sheet) : e.id = f.id => e = f
         /\ \A e \in Squad(sheet) : e.id \in Nat \ {0} /\ line_of(e.ultra) \in Lines
         /\ \A i, j \in DOMAIN sheet.starters :
              sheet.starters[i].id = sheet.starters[j].id => i = j
<1> DEFINE s == sheet.starters
           b == sheet.bench
           all == all_players(sheet)
<1>1. /\ s \in Seq(Entries) /\ b \in Seq(Entries)
      /\ sheet.formation \in Formations /\ sheet.formation # NoFormation
  BY DEF LegalSheet, TeamSheets
<1>2. /\ \A e \in ToSet(all) : line_of(e.ultra) \in Lines
      /\ \A i, j \in DOMAIN all : all[i].id = all[j].id => i = j
  BY DEF LegalSheet
<1>3. all = s \o b
  BY DEF all_players
<1> HIDE DEF s, b, all
<1>4. /\ all \in Seq(Entries) /\ Len(all) = Len(s) + Len(b)
      /\ \A i \in 1..(Len(s) + Len(b)) : all[i] = IF i <= Len(s) THEN s[i] ELSE b[i - Len(s)]
      /\ DOMAIN s = 1..Len(s) /\ DOMAIN b = 1..Len(b) /\ DOMAIN all = 1..Len(all)
      /\ Len(s) \in Nat /\ Len(b) \in Nat
  BY <1>1, <1>3
<1>5. ToSet(all) = {all[i] : i \in DOMAIN all} /\ \A i \in DOMAIN all : all[i] \in Entries
  BY <1>4 DEF ToSet
<1>6. \A i \in DOMAIN s : i \in DOMAIN all /\ all[i] = s[i]
  BY <1>4
<1>7. \A i \in DOMAIN b : Len(s) + i \in DOMAIN all /\ all[Len(s) + i] = b[i]
  BY <1>4
<1>8. \A i \in DOMAIN s : s[i] \in ToSet(all)
  BY <1>5, <1>6
<1>9. \A i \in DOMAIN b : b[i] \in ToSet(all)
  BY <1>5, <1>7
<1>10. \A e, f \in ToSet(all) : e.id = f.id => e = f
  BY <1>2, <1>5
<1>11. \A e \in ToSet(all) : e \in Entries /\ e.id \in Nat \ {0}
  BY <1>5 DEF Entries
<1>12. \A i, j \in DOMAIN s : s[i].id = s[j].id => i = j
  BY <1>2, <1>6
<1>13. QED
  BY <1>1, <1>2, <1>8, <1>9, <1>10, <1>11, <1>12 DEF Squad, s, b, all

\* A formation has as many slots as there are starters.
LEMMA SlotFacts ==
  ASSUME NEW f \in Formations
  PROVE  slots_of(f) \in Seq(Lines) /\ Len(slots_of(f)) = Starters /\ Starters \in Nat
<1>1. f[1] \in Nat /\ f[2] \in Nat /\ f[3] \in Nat /\ 1 + f[1] + f[2] + f[3] = Starters
  BY FormationsAssumption
<1>2. ASSUME NEW l \in Lines, NEW n \in Nat
      PROVE  Times(l, n) \in Seq(Lines) /\ Len(Times(l, n)) = n
  BY DEF Times
<1>3. G \in Lines /\ D \in Lines /\ M \in Lines /\ A \in Lines
  BY DEF Lines
<1> DEFINE d == f[1]
           m == f[2]
           a == f[3]
           ds == Times(D, d)
           ms == Times(M, m)
           as == Times(A, a)
           gs == <<G>>
<1>5. slots_of(f) = ((gs \o ds) \o ms) \o as
  BY DEF slots_of
<1>6. gs \in Seq(Lines) /\ Len(gs) = 1
  BY <1>3
<1>7. d \in Nat /\ m \in Nat /\ a \in Nat /\ 1 + d + m + a = Starters
  BY <1>1
<1> HIDE DEF d, m, a, gs
<1>8. /\ ds \in Seq(Lines) /\ Len(ds) = d /\ ms \in Seq(Lines) /\ Len(ms) = m
      /\ as \in Seq(Lines) /\ Len(as) = a
  BY <1>2, <1>3, <1>7
<1> HIDE DEF ds, ms, as
<1>9. gs \o ds \in Seq(Lines) /\ Len(gs \o ds) = 1 + d /\ 1 + d \in Nat
  <2>1. gs \o ds \in Seq(Lines) /\ Len(gs \o ds) = Len(gs) + Len(ds)
    BY <1>6, <1>8, ConcatProperties
  <2>2. QED
    BY <1>6, <1>7, <1>8, <2>1
<1>10. /\ (gs \o ds) \o ms \in Seq(Lines) /\ Len((gs \o ds) \o ms) = (1 + d) + m
       /\ (1 + d) + m \in Nat
  <2> DEFINE s == gs \o ds
             i == 1 + d
  <2> HIDE DEF s, i
  <2>1. s \o ms \in Seq(Lines) /\ Len(s \o ms) = i + m
    BY <1>7, <1>8, <1>9, ConcatProperties DEF s, i
  <2>2. QED
    BY <1>7, <2>1 DEF s, i
<1>11. slots_of(f) \in Seq(Lines) /\ Len(slots_of(f)) = ((1 + d) + m) + a
  <2> DEFINE s == (gs \o ds) \o ms
             i == (1 + d) + m
  <2>1. s \in Seq(Lines) /\ Len(s) = i /\ i \in Nat
    BY <1>10
  <2> HIDE DEF s, i
  <2>2. s \o as \in Seq(Lines) /\ Len(s \o as) = i + a
    BY <1>7, <1>8, <2>1, ConcatProperties
  <2>3. QED
    BY <1>5, <2>2 DEF s, i
<1>12. QED
  BY <1>7, <1>11

\* Within a line the places are numbered from one, each number once.
LEMMA OccurrencesCount ==
  ASSUME NEW n \in Nat, NEW s, DOMAIN s = 1..n, NEW v
  PROVE  /\ \A i, j \in 1..n : s[i] = s[j] /\ Occurrence(s, i) = Occurrence(s, j) => i = j
         /\ \A i \in 1..n : s[i] = v => Occurrence(s, i) \in 1..Count(v, s)
         /\ \A k \in 1..Count(v, s) : \E i \in 1..n : s[i] = v /\ Occurrence(s, i) = k
<1> DEFINE upto(i) == {j \in 1..i : s[j] = s[i]}
           every == {i \in 1..n : s[i] = v}
           c == Cardinality(every)
<1>1. \A i \in 1..n : IsFiniteSet(upto(i)) /\ Occurrence(s, i) = Cardinality(upto(i))
                      /\ Occurrence(s, i) \in Nat
  <2>1. ASSUME NEW i \in 1..n PROVE IsFiniteSet(upto(i))
    <3>1. IsFiniteSet(1..i) /\ upto(i) \subseteq 1..i
      BY FS_Interval
    <3>2. QED
      BY <3>1, FS_Subset
  <2>2. QED
    BY <2>1, FS_CardinalityType DEF Occurrence
<1>2. IsFiniteSet(every) /\ c \in Nat /\ Count(v, s) = c
  <2>1. IsFiniteSet(1..n) /\ every \subseteq 1..n
    BY FS_Interval
  <2>2. QED
    BY <2>1, FS_Subset, FS_CardinalityType DEF Count
<1>3. ASSUME NEW i \in 1..n, NEW j \in 1..n, s[i] = s[j], i < j
      PROVE  Occurrence(s, i) < Occurrence(s, j)
  <2>1. upto(i) \subseteq upto(j) /\ j \in upto(j) /\ j \notin upto(i)
    BY <1>3
  <2> HIDE DEF upto
  <2>2. Cardinality(upto(i)) <= Cardinality(upto(j))
        /\ (Cardinality(upto(i)) = Cardinality(upto(j)) => upto(i) = upto(j))
    BY <1>1, <2>1, FS_Subset
  <2>3. QED
    BY <1>1, <2>1, <2>2
<1>4. \A i, j \in 1..n : s[i] = s[j] /\ Occurrence(s, i) = Occurrence(s, j) => i = j
  <2> SUFFICES ASSUME NEW i \in 1..n, NEW j \in 1..n, s[i] = s[j],
                      Occurrence(s, i) = Occurrence(s, j), i # j
               PROVE  FALSE
    OBVIOUS
  <2>1. i < j \/ j < i
    OBVIOUS
  <2>2. Occurrence(s, i) \in Nat
    BY <1>1
  <2> HIDE DEF upto
  <2>3. QED
    BY <1>3, <2>1, <2>2
<1>5. ASSUME NEW i \in 1..n, s[i] = v
      PROVE  Occurrence(s, i) \in 1..c
  <2>1. upto(i) \subseteq every /\ i \in upto(i)
    BY <1>5
  <2> HIDE DEF upto, every
  <2>2. Cardinality(upto(i)) <= c /\ Cardinality(upto(i)) # 0
    BY <1>1, <1>2, <2>1, FS_Subset, FS_EmptySet DEF c
  <2> HIDE DEF c
  <2>3. QED
    BY <1>1, <1>2, <2>2
<1> DEFINE number == [i \in every |-> Occurrence(s, i)]
           image == {number[i] : i \in every}
<1>6. number \in Injection(every, image) /\ number \in Surjection(every, image)
  BY <1>4 DEF Injection, Surjection, IsInjective
<1>7. image \subseteq 1..c
  BY <1>5
<1>8. IsFiniteSet(1..c) /\ Cardinality(1..c) = c
  BY <1>2, FS_Interval
<1>9. Cardinality(image) = c
  <2>1. number \in Bijection(every, image)
    BY <1>6 DEF Bijection
  <2> HIDE DEF number, every, image
  <2>2. QED
    BY <1>2, <2>1, FS_Bijection DEF ExistsBijection, c
<1>10. image = 1..c
  <2> HIDE DEF image, c
  <2>1. QED
    BY <1>7, <1>8, <1>9, FS_Subset
<1>11. ASSUME NEW k \in 1..c PROVE \E i \in 1..n : s[i] = v /\ Occurrence(s, i) = k
  BY <1>10
<1>12. QED
  BY <1>2, <1>4, <1>5, <1>11

\* The seats of an XI: every slot is taken, by a player of the squad who may be
\* there, and nobody sits twice.
Chair(sheet) == [slot : Lines, player : Squad(sheet), penalty : Int]

Arranged(sheet, seats) ==
  /\ seats \in [1..Starters -> Chair(sheet)]
  /\ \A i \in 1..Starters : Compatible(line_of(seats[i].player.ultra), seats[i].slot)
  /\ \A i, j \in 1..Starters : seats[i].player = seats[j].player => i = j

\* The lines of the starters, and the starter of a place in the formation.
LinesOf(sheet) == [k \in DOMAIN sheet.starters |-> line_of(sheet.starters[k].ultra)]

Takers(slots, lines, i) ==
  {k \in DOMAIN lines : lines[k] = slots[i] /\ Occurrence(lines, k) = Occurrence(slots, i)}

Taker(slots, lines, i) == CHOOSE k \in Takers(slots, lines, i) : TRUE

\* A legal lineup leaves no slot empty and nobody over.
LEMMA SeatedInOrder ==
  ASSUME NEW sheet, LegalSheet(sheet)
  PROVE  LET slots == SlotLines(sheet)
             lines == LinesOf(sheet)
         IN /\ Starters \in Nat /\ DOMAIN slots = 1..Starters
            /\ \A i \in 1..Starters : slots[i] \in Lines
            /\ SeatStarters(sheet) = [i \in 1..Starters |->
                 Seat(slots[i], sheet.starters[Taker(slots, lines, i)])]
            /\ \A i \in 1..Starters :
                 /\ Taker(slots, lines, i) \in DOMAIN sheet.starters
                 /\ lines[Taker(slots, lines, i)] = slots[i]
                 /\ Occurrence(lines, Taker(slots, lines, i)) = Occurrence(slots, i)
<1> DEFINE slots == SlotLines(sheet)
           lines == LinesOf(sheet)
           taker(i) == Takers(slots, lines, i)
           seated(i) == Seat(slots[i], IF taker(i) = {} THEN Nobody
                                       ELSE sheet.starters[CHOOSE k \in taker(i) : TRUE])
           over == DOMAIN lines \ UNION {taker(i) : i \in DOMAIN slots}
           leftover(n) == CHOOSE k \in over : Cardinality({j \in over : j <= k}) = n
           xi == [i \in DOMAIN slots |-> seated(i)]
           rest == [n \in 1..Cardinality(over) |->
                      Seat(lines[leftover(n)], sheet.starters[leftover(n)])]
           N == Len(sheet.starters)
<1>1. SeatStarters(sheet) = xi \o rest
  BY DEF SeatStarters, LinesOf, Takers
<1>2. slots \in Seq(Lines) /\ Len(slots) = Starters /\ Starters \in Nat
  <2>1. slots = slots_of(sheet.formation)
    BY SheetFacts DEF SlotLines
  <2>2. QED
    BY <2>1, SheetFacts, SlotFacts
<1>3. N \in Nat /\ DOMAIN lines = 1..N /\ DOMAIN sheet.starters = 1..N
  BY SheetFacts DEF LinesOf
<1>4. \A k \in 1..N : lines[k] \in Lines
  BY <1>3, SheetFacts DEF LinesOf
<1>5. \A l \in Lines : Count(l, lines) = Count(l, slots)
  BY SheetFacts DEF LegalSheet, SlotLines, LinesOf
<1>6. DOMAIN slots = 1..Starters /\ \A i \in 1..Starters : slots[i] \in Lines
  BY <1>2
<1> HIDE DEF slots, lines, N
<1>7. ASSUME NEW i \in 1..Starters
      PROVE  taker(i) # {}
  <2>1. Occurrence(slots, i) \in 1..Count(slots[i], lines)
    BY <1>2, <1>5, <1>6, OccurrencesCount
  <2>2. \E k \in 1..N : lines[k] = slots[i] /\ Occurrence(lines, k) = Occurrence(slots, i)
    BY <1>3, <2>1, OccurrencesCount
  <2>3. QED
    BY <1>3, <2>2 DEF Takers
<1>8. ASSUME NEW k \in 1..N
      PROVE  \E i \in 1..Starters : k \in taker(i)
  <2> DEFINE l == lines[k]
  <2>1. l \in Lines /\ lines[k] = l /\ Count(l, lines) = Count(l, slots)
    BY <1>4, <1>5
  <2> HIDE DEF l
  <2>2. Occurrence(lines, k) \in 1..Count(l, lines)
    BY <1>3, <2>1, OccurrencesCount
  <2>3. \E i \in 1..Starters : slots[i] = l /\ Occurrence(slots, i) = Occurrence(lines, k)
    BY <1>2, <1>6, <2>1, <2>2, OccurrencesCount
  <2>4. QED
    BY <1>3, <2>1, <2>3 DEF Takers
<1>9. over = {}
  BY <1>3, <1>6, <1>8
<1>10. rest = <<>>
  <2>1. Cardinality(over) = 0
    BY <1>9, FS_EmptySet
  <2> HIDE DEF over, leftover
  <2>2. DOMAIN rest = {}
    BY <2>1
  <2>3. rest \in Seq({}) /\ Len(rest) = 0
    BY <2>1
  <2>4. QED
    BY <2>3, EmptySeq
<1>11. ASSUME NEW i \in 1..Starters
       PROVE  /\ Taker(slots, lines, i) \in taker(i)
              /\ xi[i] = Seat(slots[i], sheet.starters[Taker(slots, lines, i)])
  BY <1>6, <1>7 DEF Taker
<1>12. \A i \in 1..Starters :
         /\ Taker(slots, lines, i) \in DOMAIN sheet.starters
         /\ lines[Taker(slots, lines, i)] = slots[i]
         /\ Occurrence(lines, Taker(slots, lines, i)) = Occurrence(slots, i)
  BY <1>3, <1>11 DEF Takers
<1>13. xi = [i \in 1..Starters |-> Seat(slots[i], sheet.starters[Taker(slots, lines, i)])]
  <2>1. xi = [i \in 1..Starters |-> xi[i]]
    BY <1>6
  <2> HIDE DEF xi
  <2>2. QED
    BY <1>11, <2>1
<1>14. SeatStarters(sheet) = xi
  <2> DEFINE C == {xi[i] : i \in 1..Starters}
  <2>1. xi \in [1..Starters -> C]
    BY <1>6
  <2> HIDE DEF xi, C, rest
  <2>2. xi \in Seq(C)
    BY <1>2, <2>1
  <2>3. QED
    BY <1>1, <1>10, <2>2, ConcatEmptySeq
<1>15. QED
  BY <1>2, <1>6, <1>12, <1>13, <1>14 DEF slots, lines

\* So every starter has a seat of his line.
LEMMA Seating ==
  ASSUME NEW sheet, LegalSheet(sheet)
  PROVE  Arranged(sheet, SeatStarters(sheet)) /\ Starters \in Nat
<1> DEFINE slots == SlotLines(sheet)
           lines == LinesOf(sheet)
           who(i) == Taker(slots, lines, i)
           xi == SeatStarters(sheet)
<1>1. /\ Starters \in Nat /\ DOMAIN slots = 1..Starters
      /\ \A i \in 1..Starters : slots[i] \in Lines
      /\ xi = [i \in 1..Starters |-> Seat(slots[i], sheet.starters[who(i)])]
      /\ \A i \in 1..Starters : /\ who(i) \in DOMAIN sheet.starters
                                /\ lines[who(i)] = slots[i]
                                /\ Occurrence(lines, who(i)) = Occurrence(slots, i)
  BY SeatedInOrder
<1>2. \A k \in DOMAIN sheet.starters : /\ lines[k] = line_of(sheet.starters[k].ultra)
                                       /\ sheet.starters[k] \in Squad(sheet)
  BY SheetFacts DEF LinesOf
<1> HIDE DEF slots, lines, who, xi
<1>3. \A i \in 1..Starters :
        xi[i] = [slot |-> slots[i], player |-> sheet.starters[who(i)], penalty |-> 0]
  BY <1>1 DEF Seat
<1>4. ASSUME NEW i \in 1..Starters
      PROVE  /\ xi[i] \in Chair(sheet)
             /\ xi[i].player = sheet.starters[who(i)] /\ xi[i].slot = slots[i]
  <2> DEFINE e == sheet.starters[who(i)]
  <2>1. xi[i] = [slot |-> slots[i], player |-> e, penalty |-> 0]
    BY <1>3
  <2>2. slots[i] \in Lines /\ e \in Squad(sheet)
    BY <1>1, <1>2
  <2> HIDE DEF e
  <2>3. xi[i] \in Chair(sheet) /\ xi[i].player = e /\ xi[i].slot = slots[i]
    BY <2>1, <2>2 DEF Chair
  <2>4. QED
    BY <2>3 DEF e
<1>5. xi \in [1..Starters -> Chair(sheet)]
  BY <1>1, <1>4
<1>6. \A i \in 1..Starters : Compatible(line_of(xi[i].player.ultra), xi[i].slot)
  BY <1>1, <1>2, <1>4 DEF Compatible
<1>7. ASSUME NEW i \in 1..Starters, NEW j \in 1..Starters, xi[i].player = xi[j].player
      PROVE  i = j
  <2>1. /\ who(i) \in DOMAIN sheet.starters /\ who(j) \in DOMAIN sheet.starters
        /\ sheet.starters[who(i)].id = sheet.starters[who(j)].id
    BY <1>1, <1>4, <1>7
  <2>2. who(i) = who(j)
    <3> DEFINE m == who(i)
               n == who(j)
    <3>1. m \in DOMAIN sheet.starters /\ n \in DOMAIN sheet.starters
      BY <2>1
    <3> HIDE DEF m, n
    <3>2. sheet.starters[m].id = sheet.starters[n].id => m = n
      BY <3>1, SheetFacts
    <3>3. QED
      BY <2>1, <3>2 DEF m, n
  <2>3. slots[i] = slots[j] /\ Occurrence(slots, i) = Occurrence(slots, j)
    BY <1>1, <2>2
  <2>4. QED
    BY <1>1, <2>3, OccurrencesCount
<1>8. QED
  BY <1>1, <1>5, <1>6, <1>7 DEF Arranged, xi

\* Who is used is seated or, in live mode, is an outfield player who went off.
Accounted(sheet, acc) ==
  /\ Arranged(sheet, acc.seats)
  /\ \A i \in 1..Starters : acc.seats[i].player.id \in acc.used
  /\ \A e \in Squad(sheet) : e.id \in acc.used /\ (sheet.live_mode => line_of(e.ultra) = G)
       => \E i \in 1..Starters : acc.seats[i].player = e

\* One seat changes hands: e, not used so far, takes seat i.
Seats(sheet, acc, next, i, e) ==
  /\ i \in 1..Starters /\ next.seats \in [1..Starters -> Chair(sheet)]
  /\ next.seats[i].player = e /\ next.seats[i].slot = acc.seats[i].slot
  /\ \A j \in 1..Starters : j # i => next.seats[j] = acc.seats[j]

Replaces(sheet, acc, next, i, e) ==
  /\ e \in Squad(sheet) /\ e.id \notin acc.used
  /\ Compatible(line_of(e.ultra), acc.seats[i].slot)
  /\ next.used \subseteq acc.used \cup {e.id}
  /\ (acc.used \cup {e.id}) \ {acc.seats[i].player.id} \subseteq next.used
  /\ \/ acc.seats[i].player.id \notin next.used
     \/ sheet.live_mode /\ line_of(acc.seats[i].player.ultra) # G

\* A replacement that respects its seat keeps everybody accounted for.
LEMMA Replacement ==
  ASSUME NEW sheet, LegalSheet(sheet), NEW acc, Accounted(sheet, acc),
         NEW next, NEW i, NEW e, Seats(sheet, acc, next, i, e),
         Replaces(sheet, acc, next, i, e)
  PROVE  Accounted(sheet, next)
<1> USE DEF Seats, Replaces
<1> DEFINE old == acc.seats[i].player
<1>1. /\ \A j \in 1..Starters : /\ acc.seats[j].player \in Squad(sheet)
                                /\ acc.seats[j].player.id \in acc.used
      /\ \A j, k \in 1..Starters : acc.seats[j].player = acc.seats[k].player => j = k
  BY DEF Accounted, Arranged, Chair
<1>2. \A f, g \in Squad(sheet) : f.id = g.id => f = g
  BY SheetFacts
<1>3. \A j \in 1..Starters : j # i => next.seats[j].player # e
  BY <1>1
<1>4. ASSUME NEW j \in 1..Starters, NEW k \in 1..Starters,
             next.seats[j].player = next.seats[k].player
      PROVE  j = k
  BY <1>1, <1>3, <1>4
<1>5. ASSUME NEW j \in 1..Starters
      PROVE  Compatible(line_of(next.seats[j].player.ultra), next.seats[j].slot)
  <2>1. CASE j = i
    BY <2>1
  <2>2. CASE j # i
    BY <2>2 DEF Accounted, Arranged
  <2>3. QED
    BY <2>1, <2>2
<1>6. ASSUME NEW j \in 1..Starters
      PROVE  next.seats[j].player.id \in next.used
  <2>1. CASE j = i
    <3>1. e.id # old.id
      BY <1>1
    <3>2. QED
      BY <2>1, <3>1
  <2>2. CASE j # i
    <3>1. acc.seats[j].player.id # old.id
      BY <1>1, <1>2, <2>2
    <3>2. QED
      BY <1>1, <2>2, <3>1
  <2>3. QED
    BY <2>1, <2>2
<1>7. ASSUME NEW f \in Squad(sheet), f.id \in next.used, sheet.live_mode => line_of(f.ultra) = G
      PROVE  \E j \in 1..Starters : next.seats[j].player = f
  <2>1. CASE f.id = e.id
    BY <1>2, <2>1
  <2>2. CASE f.id # e.id
    <3>1. f.id \in acc.used
      BY <1>7, <2>2
    <3>2. PICK j \in 1..Starters : acc.seats[j].player = f
      BY <1>7, <3>1 DEF Accounted
    <3>3. j # i
      BY <1>7, <3>2
    <3>4. QED
      BY <3>2, <3>3
  <2>3. QED
    BY <2>1, <2>2
<1>8. QED
  BY <1>4, <1>5, <1>6, <1>7 DEF Accounted, Arranged

\* Writing a player into a seat writes that seat only.
LEMMA SeatTaken ==
  ASSUME NEW sheet, NEW acc, Arranged(sheet, acc.seats), NEW i \in 1..Starters,
         NEW e \in Squad(sheet), NEW next,
         next.seats = [acc.seats EXCEPT ![i].player = e]
  PROVE  Seats(sheet, acc, next, i, e)
<1>1. acc.seats \in [1..Starters -> Chair(sheet)]
  BY DEF Arranged
<1>2. acc.seats[i] \in Chair(sheet)
  BY <1>1
<1> DEFINE chair == [acc.seats[i] EXCEPT !.player = e]
<1>3. chair \in Chair(sheet) /\ chair.player = e /\ chair.slot = acc.seats[i].slot
  BY <1>2 DEF Chair
<1>4. next.seats = [acc.seats EXCEPT ![i] = chair]
  OBVIOUS
<1> HIDE DEF chair
<1>5. QED
  BY <1>1, <1>3, <1>4 DEF Seats

\* The first seat of a player is a seat of his.
LEMMA SeatIsHis ==
  ASSUME NEW sheet, NEW seats, Arranged(sheet, seats), NEW p, NEW i \in SeatOf(seats, p)
  PROVE  i \in 1..Starters /\ seats[i].player.id = p
<1> DEFINE his == {j \in DOMAIN seats : seats[j].player.id = p}
<1>1. DOMAIN seats = 1..Starters
  BY DEF Arranged
<1>2. his # {} /\ i = Min(his)
  BY DEF SeatOf
<1>3. his \subseteq Nat
  BY <1>1
<1>4. \E m \in his : \A y \in his : m <= y
  <2> HIDE DEF his
  <2>1. QED
    BY <1>2, <1>3, Least
<1>5. Min(his) \in his
  BY <1>4 DEF Min
<1>6. QED
  BY <1>1, <1>2, <1>5

\* A tactical rule keeps the accounts.
LEMMA RuleKeepsAccounts ==
  ASSUME NEW sheet, LegalSheet(sheet), NEW acc, Accounted(sheet, acc),
         NEW rule, NEW ratings
  PROVE  Accounted(sheet, ApplyRule(sheet, ratings, acc, rule))
<1> DEFINE found == TacticalChange(acc.seats, acc.used, sheet, rule, ratings)
           change == CHOOSE x \in found : TRUE
           next == ApplyRule(sheet, ratings, acc, rule)
<1> SUFFICES ASSUME ~(acc.applied >= MaxTactical \/ found = {})
             PROVE  Accounted(sheet, next)
  BY DEF ApplyRule
<1>1. change \in found
  OBVIOUS
<1>2. next = [seats |-> [acc.seats EXCEPT ![change[1]].player = change[2]],
              used |-> (acc.used \cup {rule.sub}) \ {rule.starter},
              applied |-> acc.applied + 1]
  BY DEF ApplyRule
<1> HIDE DEF change
<1> DEFINE i == change[1]
           e == change[2]
<1>3. /\ i \in SeatOf(acc.seats, rule.starter) /\ e \in ById(sheet.bench, rule.sub)
      /\ e.id \notin acc.used
      /\ Compatible(line_of(e.ultra), acc.seats[i].slot)
  BY <1>1 DEF TacticalChange
<1>4. i \in 1..Starters /\ acc.seats[i].player.id = rule.starter
  BY <1>3, SeatIsHis DEF Accounted
<1>5. e \in Squad(sheet) /\ e.id = rule.sub
  BY <1>3, SheetFacts DEF ById, ToSet
<1>6. /\ next.seats = [acc.seats EXCEPT ![i].player = e]
      /\ next.used = (acc.used \cup {e.id}) \ {acc.seats[i].player.id}
  BY <1>2, <1>4, <1>5
<1> HIDE DEF found, next, i, e
<1>7. Seats(sheet, acc, next, i, e)
  BY <1>4, <1>5, <1>6, SeatTaken DEF Accounted
<1>8. Replaces(sheet, acc, next, i, e)
  BY <1>3, <1>5, <1>6 DEF Replaces
<1>9. QED
  BY <1>7, <1>8, Replacement

\* So does a live change: whoever goes off is no goalkeeper.
LEMMA ChangeKeepsAccounts ==
  ASSUME NEW sheet, LegalSheet(sheet), sheet.live_mode, NEW acc, Accounted(sheet, acc),
         NEW rule
  PROVE  Accounted(sheet, ApplyChange(sheet, acc, rule))
<1> DEFINE found == LiveChange(acc.seats, acc.used, acc.changed, sheet, rule)
           change == CHOOSE x \in found : TRUE
           next == ApplyChange(sheet, acc, rule)
<1> SUFFICES ASSUME found # {} PROVE Accounted(sheet, next)
  BY DEF ApplyChange
<1>1. change \in found
  OBVIOUS
<1>2. next = [seats |-> [acc.seats EXCEPT ![change[1]].player = change[2]],
              used |-> acc.used \cup {rule.sub},
              changed |-> acc.changed \cup {rule.starter}]
  BY DEF ApplyChange
<1> HIDE DEF change
<1> DEFINE i == change[1]
           e == change[2]
<1>3. /\ i \in SeatOf(acc.seats, rule.starter) /\ e \in ById(all_players(sheet), rule.sub)
      /\ acc.seats[i].slot # G /\ e.id \notin acc.used
      /\ line_of(e.ultra) = line_of(acc.seats[i].player.ultra)
  BY <1>1 DEF LiveChange
<1>4. i \in 1..Starters
  BY <1>3, SeatIsHis DEF Accounted
<1>5. e \in Squad(sheet) /\ e.id = rule.sub
  BY <1>3 DEF ById, Squad
<1>6. next.seats = [acc.seats EXCEPT ![i].player = e] /\ next.used = acc.used \cup {e.id}
  BY <1>2, <1>5
<1> HIDE DEF found, next, i, e
<1>7. Seats(sheet, acc, next, i, e)
  BY <1>4, <1>5, <1>6, SeatTaken DEF Accounted
<1>8. line_of(acc.seats[i].player.ultra) # G
  BY <1>3, <1>4 DEF Accounted, Arranged, Compatible
<1>9. Compatible(line_of(e.ultra), acc.seats[i].slot)
  BY <1>3, <1>8 DEF Compatible
<1>10. Replaces(sheet, acc, next, i, e)
  BY <1>3, <1>5, <1>6, <1>8, <1>9 DEF Replaces
<1>11. QED
  BY <1>7, <1>10, Replacement

\* Whoever is chosen may fill the slot, and somebody is chosen if anybody may.
LEMMA BenchChoice ==
  ASSUME NEW slot \in Lines, NEW occupant, NEW bench, NEW used, DOMAIN bench \subseteq Nat,
         \A k \in DOMAIN bench : line_of(bench[k].ultra) \in Lines
  PROVE  /\ \A x \in mandatory_sub(slot, occupant, bench, used) :
              \E k \in Eligible(bench, used, slot) : x[1] = bench[k] /\ x[2] \in Int
         /\ mandatory_sub(slot, occupant, bench, used) = {}
              => Eligible(bench, used, slot) = {}
<1> DEFINE all == Eligible(bench, used, slot)
           distance(i) == line_distance(line_of(bench[i].ultra), slot)
           same == {i \in all : occupant # Nobody /\ bench[i].ultra = occupant.ultra}
           line == {i \in all : line_of(bench[i].ultra) = slot}
           lower == {i \in all : line_of(bench[i].ultra) > slot}
           others == IF Flags.mandatory_sub_direction = "lower" /\ lower # {}
                     THEN lower ELSE all
           nearest == {i \in others : \A j \in others :
                         distance(i) < distance(j) \/ (distance(i) = distance(j) /\ i <= j)}
           chosen == mandatory_sub(slot, occupant, bench, used)
<1>1. chosen = IF same # {} THEN {<<bench[Min(same)], 0>>}
               ELSE IF line # {} THEN {<<bench[Min(line)], 0>>}
               ELSE {<<bench[i], -2 * distance(i)>> : i \in nearest}
  BY DEF mandatory_sub
<1>2. all \subseteq DOMAIN bench
  BY DEF Eligible
<1>3. \A i \in all : distance(i) \in Nat
  BY <1>2 DEF line_distance, Lines, G, D, M, A
<1>4. same \subseteq all /\ line \subseteq all /\ others \subseteq all /\ nearest \subseteq all
  OBVIOUS
<1>5. same # {} => Min(same) \in same
  <2>1. same \subseteq Nat
    BY <1>2
  <2> HIDE DEF same
  <2>2. QED
    BY <2>1, MinIsIn
<1>6. line # {} => Min(line) \in line
  <2>1. line \subseteq Nat
    BY <1>2
  <2> HIDE DEF line
  <2>2. QED
    BY <2>1, MinIsIn
<1>7. all # {} => others # {}
  OBVIOUS
<1>8. ASSUME others # {} PROVE nearest # {}
  <2> HIDE DEF distance, others
  <2> DEFINE ds == {distance(i) : i \in others}
  <2>1. ds \subseteq Nat /\ ds # {}
    BY <1>3, <1>4, <1>8
  <2>2. PICK d \in ds : \A y \in ds : d <= y
    <3> HIDE DEF ds
    <3>1. QED
      BY <2>1, Least
  <2> DEFINE js == {i \in others : distance(i) = d}
  <2>3. js \subseteq Nat /\ js # {}
    BY <1>2, <1>4, <2>2
  <2>4. PICK i \in js : \A y \in js : i <= y
    <3> HIDE DEF js
    <3>1. QED
      BY <2>3, Least
  <2>5. i \in others /\ distance(i) = d
    BY <2>4
  <2>6. ASSUME NEW j \in others
        PROVE  distance(i) < distance(j) \/ (distance(i) = distance(j) /\ i <= j)
    <3>1. d <= distance(j) /\ d \in Nat /\ distance(j) \in Nat
      BY <1>3, <1>4, <2>1, <2>2
    <3>2. distance(j) = d => i <= j
      BY <2>4
    <3>3. QED
      BY <2>5, <3>1, <3>2
  <2>7. QED
    BY <2>5, <2>6
<1> HIDE DEF all, same, line, others, nearest, chosen
<1>9. ASSUME NEW x \in chosen
      PROVE  \E k \in all : x[1] = bench[k] /\ x[2] \in Int
  <2>1. CASE same # {}
    BY <1>1, <1>4, <1>5, <2>1
  <2>2. CASE same = {} /\ line # {}
    BY <1>1, <1>4, <1>6, <2>2
  <2>3. CASE same = {} /\ line = {}
    <3>1. PICK k \in nearest : x = <<bench[k], -2 * distance(k)>>
      BY <1>1, <2>3
    <3>2. k \in all /\ distance(k) \in Nat
      BY <1>3, <1>4
    <3> HIDE DEF distance
    <3>3. QED
      BY <3>1, <3>2
  <2>4. QED
    BY <2>1, <2>2, <2>3
<1>10. ASSUME chosen = {} PROVE all = {}
  <2>1. same = {} /\ line = {}
    BY <1>1, <1>10
  <2>2. nearest = {}
    BY <1>1, <1>10, <2>1
  <2>3. QED
    BY <1>7, <1>8, <2>2
<1>11. QED
  BY <1>9, <1>10 DEF all, chosen

\* Nobody who may fill one of the first n slots, still open, is left unused.
Exhausted(sheet, acc, n) ==
  \A i \in 1..n :
    ~Played(acc.seats[i].player) /\ (sheet.live_mode => acc.seats[i].slot = G)
      => \A k \in DOMAIN sheet.bench :
           /\ Played(sheet.bench[k]) /\ ~sheet.bench[k].neutralised
           /\ Compatible(line_of(sheet.bench[k].ultra), acc.seats[i].slot)
           => sheet.bench[k].id \in acc.used

\* Filling the next seat keeps the accounts and leaves the seats before it as they are.
LEMMA FillingKeepsAccounts ==
  ASSUME NEW sheet, LegalSheet(sheet), NEW acc, Accounted(sheet, acc),
         NEW n \in 1..Starters, Starters \in Nat
  PROVE  /\ Accounted(sheet, FillSeat(sheet, acc, n))
         /\ Exhausted(sheet, acc, n - 1) => Exhausted(sheet, FillSeat(sheet, acc, n), n)
<1> DEFINE seat == acc.seats[n]
           found == mandatory_sub(seat.slot, seat.player, sheet.bench, acc.used)
           sub == CHOOSE x \in found : TRUE
           next == FillSeat(sheet, acc, n)
           skip == Played(seat.player) \/ (sheet.live_mode /\ seat.slot # G) \/ found = {}
<1>1. /\ acc.seats \in [1..Starters -> Chair(sheet)]
      /\ \A i \in 1..Starters : /\ acc.seats[i].player \in Squad(sheet)
                                /\ acc.seats[i].slot \in Lines
  BY DEF Accounted, Arranged, Chair
<1>2. /\ DOMAIN sheet.bench \subseteq Nat
      /\ \A k \in DOMAIN sheet.bench : /\ line_of(sheet.bench[k].ultra) \in Lines
                                       /\ sheet.bench[k] \in Squad(sheet)
  BY SheetFacts
<1>3. /\ \A x \in found : \E k \in Eligible(sheet.bench, acc.used, seat.slot) :
           x[1] = sheet.bench[k] /\ x[2] \in Int
      /\ found = {} => Eligible(sheet.bench, acc.used, seat.slot) = {}
  BY <1>1, <1>2, BenchChoice
<1>4. next = IF skip THEN acc
             ELSE [seats |-> [acc.seats EXCEPT
                                ![n] = [seat EXCEPT !.player = sub[1], !.penalty = sub[2]]],
                   used |-> (acc.used \cup {sub[1].id}) \ {seat.player.id}]
  BY DEF FillSeat
<1>5. \A i \in 1..n : i = n \/ i \in 1..(n - 1)
  OBVIOUS
<1>6. CASE skip
  <2>1. next = acc
    BY <1>4, <1>6
  <2>2. ASSUME ~Played(seat.player), sheet.live_mode => seat.slot = G,
               NEW k \in DOMAIN sheet.bench,
               Played(sheet.bench[k]), ~sheet.bench[k].neutralised,
               Compatible(line_of(sheet.bench[k].ultra), seat.slot)
        PROVE  sheet.bench[k].id \in acc.used
    <3>1. Eligible(sheet.bench, acc.used, seat.slot) = {}
      BY <1>3, <1>6, <2>2
    <3>2. QED
      BY <2>2, <3>1 DEF Eligible
  <2> HIDE DEF next, skip, found
  <2>3. Exhausted(sheet, acc, n - 1) => Exhausted(sheet, acc, n)
    BY <1>5, <2>2 DEF Exhausted
  <2>4. QED
    BY <2>1, <2>3 DEF next
<1>7. CASE ~skip
  <2>1. sub \in found
    BY <1>7
  <2>2. PICK k \in Eligible(sheet.bench, acc.used, seat.slot) :
          sub[1] = sheet.bench[k] /\ sub[2] \in Int
    BY <1>3, <2>1
  <2>3. ~Played(seat.player)
    BY <1>7
  <2>4. /\ next.seats = [acc.seats EXCEPT
                           ![n] = [seat EXCEPT !.player = sub[1], !.penalty = sub[2]]]
        /\ next.used = (acc.used \cup {sub[1].id}) \ {seat.player.id}
    BY <1>4, <1>7
  <2> HIDE DEF found, sub, next, skip
  <2> DEFINE e == sub[1]
  <2>5. /\ e \in Squad(sheet) /\ e.id \notin acc.used /\ Played(e)
        /\ Compatible(line_of(e.ultra), seat.slot)
    BY <1>2, <2>2 DEF Eligible
  <2> HIDE DEF e
  <2>6. Seats(sheet, acc, next, n, e)
    <3> DEFINE chair == [seat EXCEPT !.player = sub[1], !.penalty = sub[2]]
    <3>1. seat \in Chair(sheet)
      BY <1>1
    <3>2. chair \in Chair(sheet) /\ chair.player = e /\ chair.slot = seat.slot
      BY <2>2, <2>5, <3>1 DEF Chair, e
    <3>3. next.seats = [acc.seats EXCEPT ![n] = chair]
      BY <2>4
    <3> HIDE DEF chair
    <3>4. QED
      BY <1>1, <3>2, <3>3 DEF Seats
  <2>7. Replaces(sheet, acc, next, n, e)
    BY <2>4, <2>5 DEF Replaces, e
  <2>8. Accounted(sheet, next)
    BY <2>6, <2>7, Replacement
  <2>9. ASSUME Exhausted(sheet, acc, n - 1),
               NEW i \in 1..n, ~Played(next.seats[i].player),
               sheet.live_mode => next.seats[i].slot = G,
               NEW j \in DOMAIN sheet.bench,
               Played(sheet.bench[j]), ~sheet.bench[j].neutralised,
               Compatible(line_of(sheet.bench[j].ultra), next.seats[i].slot)
        PROVE  sheet.bench[j].id \in next.used
    <3>1. i \in 1..(n - 1) /\ i # n /\ i \in 1..Starters
      BY <1>5, <2>5, <2>6, <2>9 DEF Seats
    <3>2. next.seats[i] = acc.seats[i]
      BY <2>6, <3>1 DEF Seats
    <3>3. sheet.bench[j].id \in acc.used
      BY <2>9, <3>1, <3>2 DEF Exhausted
    <3>4. sheet.bench[j].id # seat.player.id
      BY <1>1, <1>2, <2>3, <2>9, SheetFacts
    <3>5. QED
      BY <2>4, <3>3, <3>4
  <2>10. QED
    BY <2>8, <2>9 DEF Exhausted, next
<1>8. QED
  BY <1>6, <1>7

\* The manager's changes, one rule after the other.
LEMMA TacticalKeepsAccounts ==
  ASSUME NEW sheet, LegalSheet(sheet), NEW start, Accounted(sheet, start),
         start.used \subseteq Nat, NEW ratings
  PROVE  /\ Accounted(sheet, Tactical(sheet, start, ratings))
         /\ Tactical(sheet, start, ratings).used \subseteq Nat
<1> DEFINE rules == sheet.tactical
           last == Len(rules)
           base == [seats |-> start.seats, used |-> start.used, applied |-> 0]
           B == {acc \in [seats : [1..Starters -> Chair(sheet)], used : SUBSET Nat,
                          applied : Nat] : Accounted(sheet, acc)}
           step(x, k) == ApplyRule(sheet, ratings, x, rules[k])
           F == [x \in B \X (1..last) |-> step(x[1], x[2])]
           walks(g) == g = [n \in 0..Len(rules) |->
                              IF n = 0
                              THEN [seats |-> start.seats, used |-> start.used, applied |-> 0]
                              ELSE ApplyRule(sheet, ratings, g[n - 1], rules[n])]
           after == CHOOSE g : walks(g)
<1>1. last \in Nat
  BY DEF LegalSheet, TeamSheets
<1>2. Tactical(sheet, start, ratings) = after[last]
  BY DEF Tactical
<1>3. base \in B
  <2>1. start.seats \in [1..Starters -> Chair(sheet)]
    BY DEF Accounted, Arranged
  <2>2. Accounted(sheet, base)
    BY DEF Accounted
  <2>3. QED
    BY <2>1, <2>2
<1>4. ASSUME NEW x \in B, NEW k \in 1..last PROVE step(x, k) \in B
  <2>1. /\ x \in [seats : [1..Starters -> Chair(sheet)], used : SUBSET Nat, applied : Nat]
        /\ Accounted(sheet, x)
    OBVIOUS
  <2>2. Accounted(sheet, step(x, k))
    BY <2>1, RuleKeepsAccounts
  <2>3. step(x, k).seats \in [1..Starters -> Chair(sheet)]
    BY <2>2 DEF Accounted, Arranged
  <2> DEFINE next == step(x, k)
             found == TacticalChange(x.seats, x.used, sheet, rules[k], ratings)
  <2>4. next \in [seats : [1..Starters -> Chair(sheet)], used : SUBSET Nat, applied : Nat]
    <3>1. CASE x.applied >= MaxTactical \/ found = {}
      BY <2>1, <3>1 DEF ApplyRule
    <3>2. CASE ~(x.applied >= MaxTactical \/ found = {})
      <4> DEFINE change == CHOOSE y \in found : TRUE
      <4>1. change \in found
        BY <3>2
      <4>2. next = [seats |-> [x.seats EXCEPT ![change[1]].player = change[2]],
                    used |-> (x.used \cup {rules[k].sub}) \ {rules[k].starter},
                    applied |-> x.applied + 1]
        BY <3>2 DEF ApplyRule
      <4> HIDE DEF change, found, next
      <4>3. change[2] \in ById(sheet.bench, rules[k].sub)
        BY <4>1 DEF TacticalChange, found
      <4>4. rules[k].sub \in Nat
        BY <4>3, SheetFacts DEF ById, ToSet
      <4>5. next.seats \in [1..Starters -> Chair(sheet)]
        BY <2>3 DEF next
      <4>6. QED
        BY <2>1, <4>2, <4>4, <4>5
    <3>3. QED
      BY <3>1, <3>2
  <2>5. QED
    BY <2>2, <2>4
<1> HIDE DEF B
<1>5. F \in [B \X (1..last) -> B]
  <2> HIDE DEF step, last
  <2>1. QED
    BY <1>4
<1>6. PICK g : Walks(g, last, B, base, F)
  <2> HIDE DEF base, F, last, walks, after
  <2>1. QED
    BY <1>1, <1>3, <1>5, WalkExists
<1>7. /\ g \in [0..last -> B] /\ g[0] = base
      /\ \A k \in 1..last : g[k] = F[<<g[k - 1], k>>]
  <2> HIDE DEF base, F, last, walks, after
  <2>1. QED
    BY <1>6 DEF Walks
<1>8. \A k \in 1..last : k - 1 \in 0..last /\ g[k - 1] \in B
  BY <1>1, <1>7
<1>9. \A k \in 1..last : g[k] = step(g[k - 1], k)
  <2> HIDE DEF step, last
  <2>1. QED
    BY <1>7, <1>8
<1>10. walks(g)
  <2>1. \A k \in 0..last : k = 0 \/ k \in 1..last
    BY <1>1
  <2>2. \A k \in 0..last : g[k] = IF k = 0 THEN base ELSE step(g[k - 1], k)
    BY <1>7, <1>9, <2>1
  <2>3. g = [k \in 0..last |-> IF k = 0 THEN base ELSE step(g[k - 1], k)]
    <3> HIDE DEF step, base, last
    <3>1. QED
      BY <1>7, <2>2
  <2>4. QED
    BY <2>3
<1>11. walks(after)
  BY <1>10
<1> HIDE DEF after
<1>12. after[0] = base /\ \A k \in 1..last : after[k] = step(after[k - 1], k)
  <2>1. after = [k \in 0..last |-> IF k = 0 THEN base ELSE step(after[k - 1], k)]
    BY <1>11
  <2> HIDE DEF step, base, last
  <2>2. QED
    BY <1>1, <2>1
<1>13. \A k \in 0..last : after[k] \in B
  <2> HIDE DEF step, base, last
  <2>1. \A k \in 1..last : after[k - 1] \in B => after[k] \in B
    BY <1>4, <1>12
  <2>2. QED
    BY <1>1, <1>3, <1>12, <2>1, StaysIn
<1>14. after[last] \in B
  BY <1>1, <1>13
<1>15. QED
  BY <1>2, <1>14 DEF B

\* The live changes that count, in their order.
LiveOrder(rules) == SortSeq([i \in DOMAIN rules |-> i], LAMBDA i, j :
                      rules[i].order < rules[j].order
                        \/ (rules[i].order = rules[j].order /\ i < j))

LiveCount(rules, tonton) == IF tonton THEN Min({TontonCap, Len(rules)}) ELSE Len(rules)

\* Change after change everybody is accounted for.
LEMMA LiveWalks ==
  ASSUME NEW sheet, LegalSheet(sheet), sheet.live_mode, NEW start, Accounted(sheet, start),
         start.used \subseteq Nat, NEW tonton
  PROVE  LET n == LiveCount(sheet.live_subs, tonton)
         IN /\ n \in Nat
            /\ \E g : /\ g[0] = [seats |-> start.seats, used |-> start.used, changed |-> {}]
                      /\ \A k \in 1..n : g[k] = ApplyChange(sheet, g[k - 1],
                           sheet.live_subs[LiveOrder(sheet.live_subs)[k]])
                      /\ \A k \in 0..n : Accounted(sheet, g[k]) /\ g[k].used \subseteq Nat
                      /\ Live(sheet, start, tonton) = g[n]
<1> DEFINE rules == sheet.live_subs
           ordered == LiveOrder(rules)
           last == LiveCount(rules, tonton)
           base == [seats |-> start.seats, used |-> start.used, changed |-> {}]
           B == {acc \in [seats : [1..Starters -> Chair(sheet)], used : SUBSET Nat,
                          changed : SUBSET Nat] : Accounted(sheet, acc)}
           step(x, k) == ApplyChange(sheet, x, rules[ordered[k]])
           F == [x \in B \X (1..last) |-> step(x[1], x[2])]
           walks(g) == g = [n \in 0..last |->
                              IF n = 0
                              THEN [seats |-> start.seats, used |-> start.used, changed |-> {}]
                              ELSE ApplyChange(sheet, g[n - 1], rules[ordered[n]])]
           after == CHOOSE g : walks(g)
<1>1. last \in Nat
  <2>1. Len(rules) \in Nat /\ TontonCap \in Nat
    BY EngineAssumption DEF LegalSheet, TeamSheets
  <2>2. Min({TontonCap, Len(rules)}) \in Nat
    <3>1. TontonCap \in Int /\ Len(rules) \in Int
      BY <2>1
    <3> DEFINE l == Len(rules)
    <3>2. l \in Int /\ l \in Nat
      BY <2>1
    <3> HIDE DEF rules, ordered, l
    <3>3. Min({TontonCap, l}) = IF TontonCap <= l THEN TontonCap ELSE l
      BY <3>1, <3>2, MinOfTwo
    <3>4. QED
      BY <2>1, <3>2, <3>3 DEF l
  <2> HIDE DEF rules
  <2>3. QED
    BY <2>1, <2>2 DEF LiveCount
<1>2. Live(sheet, start, tonton) = after[last]
  BY DEF Live, LiveOrder, LiveCount
<1> HIDE DEF ordered, last
<1>3. base \in B
  <2>1. start.seats \in [1..Starters -> Chair(sheet)]
    BY DEF Accounted, Arranged
  <2>2. Accounted(sheet, base)
    BY DEF Accounted
  <2>3. QED
    BY <2>1, <2>2
<1>4. ASSUME NEW x \in B, NEW k \in 1..last PROVE step(x, k) \in B
  <2> DEFINE rule == rules[ordered[k]]
             found == LiveChange(x.seats, x.used, x.changed, sheet, rule)
             change == CHOOSE y \in found : TRUE
             next == step(x, k)
  <2>1. /\ x \in [seats : [1..Starters -> Chair(sheet)], used : SUBSET Nat,
                   changed : SUBSET Nat]
        /\ Accounted(sheet, x)
    OBVIOUS
  <2> HIDE DEF last
  <2>2. Accounted(sheet, next)
    BY <2>1, ChangeKeepsAccounts
  <2>3. next.seats \in [1..Starters -> Chair(sheet)]
    BY <2>2 DEF Accounted, Arranged
  <2>4. next \in [seats : [1..Starters -> Chair(sheet)], used : SUBSET Nat,
                  changed : SUBSET Nat]
    <3>1. CASE found = {}
      BY <2>1, <3>1 DEF ApplyChange
    <3>2. CASE found # {}
      <4>1. change \in found
        BY <3>2
      <4>2. next = [seats |-> [x.seats EXCEPT ![change[1]].player = change[2]],
                    used |-> x.used \cup {rule.sub},
                    changed |-> x.changed \cup {rule.starter}]
        BY <3>2 DEF ApplyChange
      <4> HIDE DEF change, found, next, rule
      <4>3. /\ change[1] \in SeatOf(x.seats, rule.starter)
            /\ change[2] \in ById(all_players(sheet), rule.sub)
        BY <4>1 DEF LiveChange, found
      <4>4. rule.sub \in Nat
        BY <4>3, SheetFacts DEF ById, Squad
      <4>5. rule.starter \in Nat
        <5>1. change[1] \in 1..Starters /\ x.seats[change[1]].player.id = rule.starter
          BY <2>1, <4>3, SeatIsHis DEF Accounted
        <5>2. x.seats[change[1]].player \in Squad(sheet)
          BY <2>1, <5>1 DEF Chair
        <5>3. QED
          BY <5>1, <5>2, SheetFacts
      <4>6. next.seats \in [1..Starters -> Chair(sheet)]
        BY <2>3 DEF next
      <4>7. QED
        BY <2>1, <4>2, <4>4, <4>5, <4>6
    <3>3. QED
      BY <3>1, <3>2
  <2>5. QED
    BY <2>2, <2>4
<1> HIDE DEF B
<1>5. F \in [B \X (1..last) -> B]
  <2> HIDE DEF step, last
  <2>1. QED
    BY <1>4
<1>6. PICK g : Walks(g, last, B, base, F)
  <2> HIDE DEF base, F, last, walks, after
  <2>1. QED
    BY <1>1, <1>3, <1>5, WalkExists
<1>7. /\ g \in [0..last -> B] /\ g[0] = base
      /\ \A k \in 1..last : g[k] = F[<<g[k - 1], k>>]
  <2> HIDE DEF base, F, last, walks, after
  <2>1. QED
    BY <1>6 DEF Walks
<1>8. \A k \in 1..last : k - 1 \in 0..last /\ g[k - 1] \in B
  <2> HIDE DEF last
  <2>1. QED
    BY <1>1, <1>7
<1>9. \A k \in 1..last : g[k] = step(g[k - 1], k)
  <2> HIDE DEF step, last
  <2>1. QED
    BY <1>7, <1>8
<1>10. walks(g)
  <2>1. \A k \in 0..last : k = 0 \/ k \in 1..last
    <3> HIDE DEF last
    <3>1. QED
      BY <1>1
  <2>2. g = [k \in 0..last |-> IF k = 0 THEN base ELSE step(g[k - 1], k)]
    <3> HIDE DEF step, base, last
    <3>1. QED
      BY <1>7, <1>9, <2>1
  <2>3. QED
    BY <2>2
<1>11. walks(after)
  BY <1>10
<1> HIDE DEF after
<1>12. after[0] = base /\ \A k \in 1..last : after[k] = step(after[k - 1], k)
  <2>1. after = [k \in 0..last |-> IF k = 0 THEN base ELSE step(after[k - 1], k)]
    BY <1>11
  <2> HIDE DEF step, base, last
  <2>2. QED
    BY <1>1, <2>1
<1>13. \A k \in 0..last : after[k] \in B
  <2> HIDE DEF step, base, last
  <2>1. \A k \in 1..last : after[k - 1] \in B => after[k] \in B
    BY <1>4, <1>12
  <2>2. QED
    BY <1>1, <1>3, <1>12, <2>1, StaysIn
<1>14. /\ after[0] = [seats |-> start.seats, used |-> start.used, changed |-> {}]
       /\ \A k \in 1..last : after[k] = ApplyChange(sheet, after[k - 1], rules[ordered[k]])
       /\ \A k \in 0..last : Accounted(sheet, after[k]) /\ after[k].used \subseteq Nat
       /\ Live(sheet, start, tonton) = after[last]
  BY <1>2, <1>12, <1>13 DEF B
<1> HIDE DEF step, base, F, walks
<1>15. QED
  BY <1>1, <1>14, Zenon DEF last, rules, ordered

\* At the end of the live changes too.
LEMMA LiveKeepsAccounts ==
  ASSUME NEW sheet, LegalSheet(sheet), sheet.live_mode, NEW start, Accounted(sheet, start),
         start.used \subseteq Nat, NEW tonton
  PROVE  /\ Accounted(sheet, Live(sheet, start, tonton))
         /\ Live(sheet, start, tonton).used \subseteq Nat
<1> DEFINE n == LiveCount(sheet.live_subs, tonton)
<1>1. n \in Nat
  BY LiveWalks
<1>2. PICK g : /\ \A k \in 0..n : Accounted(sheet, g[k]) /\ g[k].used \subseteq Nat
               /\ Live(sheet, start, tonton) = g[n]
  BY LiveWalks
<1> HIDE DEF n
<1>3. n \in 0..n
  BY <1>1
<1>4. QED
  BY <1>2, <1>3

\* The bench, one seat after the other.
LEMMA MandatoryWalks ==
  ASSUME NEW sheet, LegalSheet(sheet), Starters \in Nat, NEW start, Accounted(sheet, start),
         start.used \subseteq Nat
  PROVE  \E g : /\ g[0] = [seats |-> start.seats, used |-> start.used]
                /\ \A k \in 1..Starters : g[k] = FillSeat(sheet, g[k - 1], k)
                /\ \A k \in 0..Starters : Accounted(sheet, g[k])
                /\ Mandatory(sheet, start) = g[Starters]
<1> DEFINE seats == start.seats
           last == Len(start.seats)
           base == [seats |-> start.seats, used |-> start.used]
           B == {acc \in [seats : [1..Starters -> Chair(sheet)], used : SUBSET Nat] :
                    Accounted(sheet, acc)}
           step(x, k) == FillSeat(sheet, x, k)
           F == [x \in B \X (1..last) |-> step(x[1], x[2])]
           walks(g) == g = [n \in 0..Len(start.seats) |->
                              IF n = 0 THEN [seats |-> start.seats, used |-> start.used]
                              ELSE FillSeat(sheet, g[n - 1], n)]
           after == CHOOSE g : walks(g)
<1>1. last \in Nat /\ last = Starters
  <2>1. seats \in [1..Starters -> Chair(sheet)]
    BY DEF Accounted, Arranged
  <2>2. seats \in Seq(Chair(sheet)) /\ Len(seats) = Starters
    BY <2>1
  <2>3. QED
    BY <2>2
<1>2. Mandatory(sheet, start) = after[last]
  BY DEF Mandatory
<1>3. base \in B
  <2>1. start.seats \in [1..Starters -> Chair(sheet)]
    BY DEF Accounted, Arranged
  <2>2. Accounted(sheet, base)
    BY DEF Accounted
  <2>3. QED
    BY <2>1, <2>2
<1>4. ASSUME NEW x \in B, NEW k \in 1..last
      PROVE  step(x, k) \in B
  <2> DEFINE seat == x.seats[k]
             found == mandatory_sub(seat.slot, seat.player, sheet.bench, x.used)
             sub == CHOOSE y \in found : TRUE
             next == step(x, k)
             skip == Played(seat.player) \/ (sheet.live_mode /\ seat.slot # G) \/ found = {}
  <2>1. /\ x \in [seats : [1..Starters -> Chair(sheet)], used : SUBSET Nat]
        /\ Accounted(sheet, x)
    OBVIOUS
  <2>2. k \in 1..Starters
    BY <1>1
  <2> HIDE DEF last
  <2>3. Accounted(sheet, next)
    BY <2>1, <2>2, FillingKeepsAccounts
  <2>4. next.seats \in [1..Starters -> Chair(sheet)]
    BY <2>3 DEF Accounted, Arranged
  <2>5. next \in [seats : [1..Starters -> Chair(sheet)], used : SUBSET Nat]
    <3>1. CASE skip
      BY <2>1, <3>1 DEF FillSeat
    <3>2. CASE ~skip
      <4>1. sub \in found
        BY <3>2
      <4>2. next = [seats |-> [x.seats EXCEPT
                                 ![k] = [seat EXCEPT !.player = sub[1], !.penalty = sub[2]]],
                    used |-> (x.used \cup {sub[1].id}) \ {seat.player.id}]
        BY <3>2 DEF FillSeat
      <4>3. seat.slot \in Lines
        BY <2>1, <2>2 DEF Chair
      <4> HIDE DEF sub, next, skip
      <4>4. \E j \in Eligible(sheet.bench, x.used, seat.slot) : sub[1] = sheet.bench[j]
        <5>1. /\ DOMAIN sheet.bench \subseteq Nat
              /\ \A j \in DOMAIN sheet.bench : line_of(sheet.bench[j].ultra) \in Lines
          BY SheetFacts
        <5>2. QED
          BY <4>1, <4>3, <5>1, BenchChoice
      <4> HIDE DEF found, seat
      <4>5. sub[1].id \in Nat
        BY <4>4, SheetFacts DEF Eligible
      <4>6. next.seats \in [1..Starters -> Chair(sheet)]
        BY <2>4 DEF next
      <4>7. QED
        BY <2>1, <4>2, <4>5, <4>6
    <3>3. QED
      BY <3>1, <3>2
  <2>6. QED
    BY <2>3, <2>5
<1> HIDE DEF B
<1>5. F \in [B \X (1..last) -> B]
  <2> HIDE DEF step, last
  <2>1. QED
    BY <1>4
<1>6. PICK g : Walks(g, last, B, base, F)
  <2> HIDE DEF base, F, last, walks, after
  <2>1. QED
    BY <1>1, <1>3, <1>5, WalkExists
<1>7. /\ g \in [0..last -> B] /\ g[0] = base
      /\ \A k \in 1..last : g[k] = F[<<g[k - 1], k>>]
  <2> HIDE DEF base, F, last, walks, after
  <2>1. QED
    BY <1>6 DEF Walks
<1>8. \A k \in 1..last : k - 1 \in 0..last /\ g[k - 1] \in B
  <2> HIDE DEF last
  <2>1. QED
    BY <1>1, <1>7
<1>9. \A k \in 1..last : g[k] = step(g[k - 1], k)
  <2> HIDE DEF step, last
  <2>1. QED
    BY <1>7, <1>8
<1>10. walks(g)
  <2>1. \A k \in 0..last : k = 0 \/ k \in 1..last
    <3> HIDE DEF last
    <3>1. QED
      BY <1>1
  <2>2. g = [k \in 0..last |-> IF k = 0 THEN base ELSE step(g[k - 1], k)]
    <3> HIDE DEF step, base, last
    <3>1. QED
      BY <1>7, <1>9, <2>1
  <2>3. QED
    BY <2>2
<1>11. walks(after)
  BY <1>10
<1> HIDE DEF after
<1>12. after[0] = base /\ \A k \in 1..last : after[k] = step(after[k - 1], k)
  <2>1. after = [k \in 0..last |-> IF k = 0 THEN base ELSE step(after[k - 1], k)]
    BY <1>11
  <2> HIDE DEF step, base, last
  <2>2. QED
    BY <1>1, <2>1
<1>13. \A k \in 0..last : after[k] \in B
  <2> HIDE DEF step, base, last
  <2>1. \A k \in 1..last : after[k - 1] \in B => after[k] \in B
    BY <1>4, <1>12
  <2>2. QED
    BY <1>1, <1>3, <1>12, <2>1, StaysIn
<1>14. QED
  BY <1>1, <1>2, <1>12, <1>13 DEF B

\* Once every seat was filled nobody who may help is left on the bench.
LEMMA MandatoryKeepsAccounts ==
  ASSUME NEW sheet, LegalSheet(sheet), Starters \in Nat, NEW start, Accounted(sheet, start),
         start.used \subseteq Nat
  PROVE  LET end == Mandatory(sheet, start)
         IN Accounted(sheet, end) /\ Exhausted(sheet, end, Starters)
<1>1. PICK g : /\ g[0] = [seats |-> start.seats, used |-> start.used]
               /\ \A k \in 1..Starters : g[k] = FillSeat(sheet, g[k - 1], k)
               /\ \A k \in 0..Starters : Accounted(sheet, g[k])
               /\ Mandatory(sheet, start) = g[Starters]
  BY MandatoryWalks
<1> DEFINE B == {0}
           c == [k \in 0..Starters |-> IF Exhausted(sheet, g[k], k) THEN 0 ELSE 1]
<1>2. c[0] \in B
  BY DEF Exhausted
<1>3. ASSUME NEW k \in 1..Starters, c[k - 1] \in B PROVE c[k] \in B
  <2>1. k - 1 \in 0..Starters /\ k \in 0..Starters
    OBVIOUS
  <2>2. Exhausted(sheet, g[k - 1], k - 1)
    BY <1>3, <2>1
  <2>3. Exhausted(sheet, FillSeat(sheet, g[k - 1], k), k)
    BY <1>1, <2>1, <2>2, FillingKeepsAccounts
  <2>4. QED
    BY <1>1, <2>1, <2>3
<1>4. \A k \in 0..Starters : c[k] \in B
  <2> HIDE DEF c, B
  <2>1. QED
    BY <1>2, <1>3, StaysIn
<1>5. Starters \in 0..Starters
  OBVIOUS
<1>6. QED
  BY <1>1, <1>4, <1>5

-----------------------------------------------------------------------------
(* The final XI *)

\* xi is what the seats of acc become.
Becomes(acc, xi) ==
  /\ DOMAIN xi = 1..Starters
  /\ \A i \in 1..Starters :
       LET e == acc.seats[i].player
       IN /\ Played(e) => /\ xi[i].id = e.id /\ xi[i].rotaldo = FALSE
                          /\ xi[i].goals = effective_goals(e) /\ xi[i].own = effective_own(e)
                          /\ xi[i].line \in {acc.seats[i].slot, line_of(e.ultra)}
          /\ ~Played(e) => xi[i] = Rotaldo(acc.seats[i].slot)

\* acc is where all the substitutions of a sheet may end.
Settled(sheet, acc) ==
  Starters \in Nat /\ Accounted(sheet, acc) /\ Exhausted(sheet, acc, Starters)

\* At the kickoff the seats hold the starters and nobody has been used.
LEMMA KickoffAccounts ==
  ASSUME NEW sheet, LegalSheet(sheet)
  PROVE  LET start == Kickoff(SeatStarters(sheet))
         IN Accounted(sheet, start) /\ start.used \subseteq Nat
<1> DEFINE seats == SeatStarters(sheet)
           start == Kickoff(seats)
<1>1. Arranged(sheet, seats)
  BY Seating
<1>2. start.seats = seats /\ start.used = {seats[i].player.id : i \in DOMAIN seats} \ {0}
  BY DEF Kickoff
<1> HIDE DEF seats, start
<1>3. DOMAIN seats = 1..Starters /\ \A i \in 1..Starters : seats[i].player \in Squad(sheet)
  BY <1>1 DEF Arranged, Chair
<1>4. \A i \in 1..Starters : seats[i].player.id \in Nat \ {0}
  BY <1>3, SheetFacts
<1>5. start.used = {seats[i].player.id : i \in 1..Starters}
  BY <1>2, <1>3, <1>4
<1>6. \A e \in Squad(sheet) : e.id \in start.used => \E i \in 1..Starters : seats[i].player = e
  BY <1>3, <1>5, SheetFacts
<1>7. Accounted(sheet, start)
  BY <1>1, <1>2, <1>5, <1>6 DEF Accounted
<1>8. QED
  BY <1>4, <1>5, <1>7 DEF start, seats

\* The optional changes keep everybody accounted for.
LEMMA ChangesAccounted ==
  ASSUME NEW sheet, LegalSheet(sheet), NEW start, Accounted(sheet, start),
         start.used \subseteq Nat, NEW ratings, NEW tonton
  PROVE  LET changed == Changed(sheet, start, ratings, tonton)
         IN Accounted(sheet, changed) /\ changed.used \subseteq Nat
<1>1. CASE sheet.live_mode
  BY <1>1, LiveKeepsAccounts DEF Changed
<1>2. CASE ~sheet.live_mode /\ tonton
  BY <1>2 DEF Changed
<1>3. CASE ~sheet.live_mode /\ ~tonton
  BY <1>3, TacticalKeepsAccounts DEF Changed
<1>4. QED
  BY <1>1, <1>2, <1>3

\* The three kinds of substitution end in seats that are all accounted for.
LEMMA SubstitutionsSettle ==
  ASSUME NEW sheet, LegalSheet(sheet), NEW ratings, NEW tonton
  PROVE  \E acc : Settled(sheet, acc) /\ FinalSeats(sheet, ratings, tonton) = acc.seats
<1> DEFINE start == Kickoff(SeatStarters(sheet))
           changed == Changed(sheet, start, ratings, tonton)
<1>1. Accounted(sheet, start) /\ start.used \subseteq Nat /\ Starters \in Nat
  BY KickoffAccounts, Seating
<1> HIDE DEF start
<1>2. Accounted(sheet, changed) /\ changed.used \subseteq Nat
  <2>1. CASE sheet.live_mode
    BY <1>1, <2>1, LiveKeepsAccounts DEF Changed
  <2>2. CASE ~sheet.live_mode /\ tonton
    BY <1>1, <2>2 DEF Changed
  <2>3. CASE ~sheet.live_mode /\ ~tonton
    BY <1>1, <2>3, TacticalKeepsAccounts DEF Changed
  <2>4. QED
    BY <2>1, <2>2, <2>3
<1> HIDE DEF changed
<1>3. Settled(sheet, Mandatory(sheet, changed))
  BY <1>1, <1>2, MandatoryKeepsAccounts DEF Settled
<1>4. QED
  BY <1>3 DEF FinalSeats, changed, start

\* The XI of a side is what its settled seats become.
LEMMA SideSettles ==
  ASSUME NEW sheet, LegalSheet(sheet), NEW own, NEW opponent
  PROVE  \E acc : Settled(sheet, acc) /\ Becomes(acc, BuildSide(sheet, own, opponent))
<1> DEFINE ratings == SquadRatings(sheet)
           adjusted == apply_bonuses(ratings, StarterLines(sheet), own, opponent, FALSE)
           seats == FinalSeats(sheet, adjusted, opponent.tonton_pat)
           xi == BuildSide(sheet, own, opponent)
<1>1. PICK acc : Settled(sheet, acc) /\ seats = acc.seats
  BY SubstitutionsSettle
<1>2. xi = FinalXI(seats, ratings, own, opponent)
  BY DEF BuildSide
<1>3. DOMAIN seats = 1..Starters
  BY <1>1 DEF Settled, Accounted, Arranged
<1> HIDE DEF seats, ratings, xi
<1>4. DOMAIN xi = 1..Starters
  BY <1>2, <1>3 DEF FinalXI
<1>5. ASSUME NEW i \in 1..Starters, Played(seats[i].player)
      PROVE  /\ xi[i].id = seats[i].player.id /\ xi[i].rotaldo = FALSE
             /\ xi[i].goals = effective_goals(seats[i].player)
             /\ xi[i].own = effective_own(seats[i].player)
             /\ xi[i].line \in {seats[i].slot, line_of(seats[i].player.ultra)}
  BY <1>2, <1>3, <1>5 DEF FinalXI
<1>6. ASSUME NEW i \in 1..Starters, ~Played(seats[i].player)
      PROVE  xi[i] = Rotaldo(seats[i].slot)
  BY <1>2, <1>3, <1>6 DEF FinalXI
<1>7. Becomes(acc, xi)
  BY <1>1, <1>4, <1>5, <1>6 DEF Becomes
<1>8. QED
  BY <1>1, <1>7 DEF xi

\* Its goals can be counted, and everybody is in a line.
Counted(xi) ==
  /\ IsFiniteSet(DOMAIN xi)
  /\ \A i \in DOMAIN xi : xi[i].line \in Lines /\ xi[i].goals \in Nat /\ xi[i].own \in Nat

\* The goals of an XI are natural numbers, and its players are on lines.
LEMMA XICounted ==
  ASSUME NEW sheet, LegalSheet(sheet), NEW own, NEW opponent
  PROVE  Counted(BuildSide(sheet, own, opponent))
<1> DEFINE xi == BuildSide(sheet, own, opponent)
<1>1. PICK acc : Settled(sheet, acc) /\ Becomes(acc, xi)
  BY SideSettles
<1> HIDE DEF xi
<1>2. DOMAIN xi = 1..Starters /\ Starters \in Nat
  BY <1>1 DEF Settled, Becomes
<1>3. ASSUME NEW i \in 1..Starters
      PROVE  xi[i].line \in Lines /\ xi[i].goals \in Nat /\ xi[i].own \in Nat
  <2> DEFINE e == acc.seats[i].player
  <2>1. e \in Entries /\ line_of(e.ultra) \in Lines /\ acc.seats[i].slot \in Lines
    BY <1>1, SheetFacts DEF Settled, Accounted, Arranged, Chair
  <2>2. effective_goals(e) \in Nat /\ effective_own(e) \in Nat
    BY <2>1 DEF effective_goals, effective_own, Entries
  <2>3. CASE Played(e)
    BY <1>1, <2>1, <2>2, <2>3 DEF Becomes
  <2>4. CASE ~Played(e)
    <3>1. xi[i] = Rotaldo(acc.seats[i].slot)
      BY <1>1, <2>4 DEF Becomes
    <3>2. QED
      BY <2>1, <3>1 DEF Rotaldo
  <2>5. QED
    BY <2>3, <2>4
<1>4. IsFiniteSet(DOMAIN xi)
  BY <1>2, FS_Interval
<1>5. QED
  BY <1>2, <1>3, <1>4 DEF Counted, xi

\* Goals are counted, and more virtual goals never make any kind fewer.
LEMMA GoalsCounted ==
  ASSUME NEW xi, Counted(xi), NEW opponentXI, Counted(opponentXI), NEW n \in Nat
  PROVE  /\ Goals(xi, opponentXI, n) \in Tally
         /\ \A m \in Nat : n <= m =>
              \A kind \in Kinds : Goals(xi, opponentXI, n)[kind] <= Goals(xi, opponentXI, m)[kind]
<1>1. ASSUME NEW x, Counted(x), NEW f \in {"goals", "own"}
      PROVE  Sum(x, f) \in Nat
  <2> DEFINE h == [i \in DOMAIN x |-> x[i][f]]
  <2>1. Sum(x, f) = SumFunctionOnSet(h, DOMAIN x)
    BY DEF Sum, SumFunction
  <2>2. IsFiniteSet(DOMAIN x) /\ \A i \in DOMAIN x : h[i] \in Nat
    BY <1>1 DEF Counted
  <2> HIDE DEF h
  <2>3. QED
    BY <2>1, <2>2, SumGrows
<1>2. Sum(xi, "goals") \in Nat /\ Sum(opponentXI, "own") \in Nat
  BY <1>1
<1>3. QED
  BY <1>2 DEF Goals, Tally, Kinds
-----------------------------------------------------------------------------
(* The invariant of the fixture *)

Sound ==
  /\ stage \in {"sheets", "bonuses", "kickoff", "played"} /\ ties \in BOOLEAN
  /\ LegalSheet(home) /\ LegalSheet(away)
  /\ stage # "sheets" => LegalBonuses(home.bonuses) /\ LegalBonuses(away.bonuses)
  /\ stage = "played" => result = resolve_match(home, away, ties)

\* Posing a legal bonus leaves a legal sheet.
LEMMA PosedSheet ==
  ASSUME NEW sheet, LegalSheet(sheet), NEW b, LegalBonuses(b)
  PROVE  LegalSheet([sheet EXCEPT !.bonuses = b]) /\ [sheet EXCEPT !.bonuses = b].bonuses = b
<1> DEFINE s == [sheet EXCEPT !.bonuses = b]
<1>1. sheet \in TeamSheets /\ b \in Bonuses
  BY DEF LegalSheet, LegalBonuses
<1>2. s \in TeamSheets /\ s.bonuses = b
  BY <1>1 DEF TeamSheets
<1>3. s.starters = sheet.starters /\ s.bench = sheet.bench /\ s.formation = sheet.formation
  BY <1>1 DEF TeamSheets
<1> HIDE DEF s
<1>4. all_players(s) = all_players(sheet)
  BY <1>3 DEF all_players
<1>5. LegalSheet(s)
  BY <1>2, <1>3, <1>4 DEF LegalSheet
<1>6. QED
  BY <1>2, <1>5 DEF s

\* The sheets chosen at the beginning are legal.
LEMMA InitSound == Init => Sound
  BY MatchAssumption DEF Init, Sound

\* Posing bonuses and reading the context keep them legal; resolving gives the
\* result.
LEMMA NextSound == Sound /\ [Next]_vars => Sound'
<1> SUFFICES ASSUME Sound, [Next]_vars PROVE Sound'
  OBVIOUS
<1>1. CASE PoseBonuses
  <2>1. PICK pair \in BonusPairs : /\ home' = [home EXCEPT !.bonuses = pair[1]]
                                   /\ away' = [away EXCEPT !.bonuses = pair[2]]
    BY <1>1 DEF PoseBonuses
  <2>2. LegalBonuses(pair[1]) /\ LegalBonuses(pair[2])
    BY MatchAssumption
  <2>3. /\ LegalSheet(home') /\ home'.bonuses = pair[1]
        /\ LegalSheet(away') /\ away'.bonuses = pair[2]
    BY <2>1, <2>2, PosedSheet DEF Sound
  <2>4. QED
    BY <1>1, <2>2, <2>3 DEF PoseBonuses, Sound
<1>2. CASE ReadContext
  <2>1. ties' \in BOOLEAN
    BY <1>2 DEF ReadContext
  <2>2. QED
    BY <1>2, <2>1 DEF ReadContext, Sound
<1>3. CASE Resolve
  BY <1>3 DEF Resolve, Sound
<1>4. CASE UNCHANGED vars
  BY <1>4 DEF vars, Sound
<1>5. QED
  BY <1>1, <1>2, <1>3, <1>4 DEF Next

\* Every reachable state has legal sheets, legal bonuses and, once the fixture is
\* played, the result the engine gives them.
THEOREM FixtureSound == Spec => []Sound
<1>1. QED
  BY InitSound, NextSound, PTL DEF Spec

\* Both sides of the result were built from the sheets.
LEMMA SidesBuilt ==
  ASSUME Sound, stage = "played"
  PROVE  \A s \in Sides :
           /\ LegalSheet(s.sheet)
           /\ \E acc : Settled(s.sheet, acc) /\ Becomes(acc, s.xi)
<1> DEFINE b == resolve_mirrors(home.bonuses, away.bonuses)
<1>1. LegalSheet(home) /\ LegalSheet(away) /\ result = resolve_match(home, away, ties)
  BY DEF Sound
<1>2. /\ result.home_xi = BuildSide(home, b.home, b.away)
      /\ result.away_xi = BuildSide(away, b.away, b.home)
  BY <1>1 DEF resolve_match, MatchResult
<1>3. \E acc : Settled(home, acc) /\ Becomes(acc, result.home_xi)
  BY <1>1, <1>2, SideSettles
<1>4. \E acc : Settled(away, acc) /\ Becomes(acc, result.away_xi)
  BY <1>1, <1>2, SideSettles
<1>5. QED
  BY <1>1, <1>3, <1>4 DEF Sides

\* Who was fielded in place i.
LEMMA FieldedIsSeated ==
  ASSUME NEW sheet, LegalSheet(sheet), NEW acc, Settled(sheet, acc), NEW xi, Becomes(acc, xi)
  PROVE  \A i \in 1..Starters :
           /\ acc.seats[i].player \in Squad(sheet) /\ acc.seats[i].slot \in Lines
           /\ i \in Fielded(xi) <=> Played(acc.seats[i].player)
           /\ i \in Fielded(xi) => /\ xi[i].id = acc.seats[i].player.id
                                   /\ Entry(sheet, xi[i].id) = acc.seats[i].player
<1> TAKE i \in 1..Starters
<1> DEFINE e == acc.seats[i].player
<1>1. e \in Squad(sheet) /\ acc.seats[i].slot \in Lines
  BY DEF Settled, Accounted, Arranged, Chair
<1>2. Played(e) => xi[i].id = e.id /\ xi[i].rotaldo = FALSE
  BY DEF Becomes
<1>3. ~Played(e) => xi[i].rotaldo = TRUE
  BY DEF Becomes, Rotaldo
<1>4. i \in Fielded(xi) <=> Played(e)
  BY <1>2, <1>3 DEF Fielded, Becomes
<1>5. Entry(sheet, e.id) = e
  BY <1>1, SheetFacts DEF Entry, Squad
<1>6. QED
  BY <1>1, <1>2, <1>4, <1>5

\* Only goalkeepers keep goal, and they do nothing else.
LEMMA WatertightWhenPlayed == Sound => GoalkeeperWatertight
<1> SUFFICES ASSUME Sound, stage = "played", NEW s \in Sides, NEW i \in Fielded(s.xi)
             PROVE  (line_of(Entry(s.sheet, s.xi[i].id).ultra) = G) = (s.xi[i].line = G)
  BY DEF GoalkeeperWatertight
<1>1. PICK acc : Settled(s.sheet, acc) /\ Becomes(acc, s.xi)
  BY SidesBuilt
<1>2. LegalSheet(s.sheet) /\ i \in 1..Starters
  BY <1>1, SidesBuilt DEF Fielded, Becomes
<1> DEFINE e == acc.seats[i].player
<1>3. Entry(s.sheet, s.xi[i].id) = e /\ Played(e)
  BY <1>1, <1>2, FieldedIsSeated
<1>4. s.xi[i].line \in {acc.seats[i].slot, line_of(e.ultra)}
  BY <1>1, <1>2, <1>3 DEF Becomes
<1>5. Compatible(line_of(e.ultra), acc.seats[i].slot)
  BY <1>1, <1>2 DEF Settled, Accounted, Arranged
<1> HIDE DEF e
<1>6. QED
  BY <1>3, <1>4, <1>5 DEF Compatible

\* The XI is complete, nobody is there twice and nobody who was not rated.
LEMMA OnceWhenPlayed == Sound => NobodyPlaysTwice
<1> SUFFICES ASSUME Sound, stage = "played", NEW s \in Sides
             PROVE  /\ Len(s.xi) = Starters
                    /\ \A i, j \in Fielded(s.xi) : s.xi[i].id = s.xi[j].id => i = j
                    /\ \A i \in Fielded(s.xi) : Played(Entry(s.sheet, s.xi[i].id))
  BY DEF NobodyPlaysTwice
<1>1. PICK acc : Settled(s.sheet, acc) /\ Becomes(acc, s.xi)
  BY SidesBuilt
<1>2. LegalSheet(s.sheet) /\ DOMAIN s.xi = 1..Starters /\ Starters \in Nat
  BY <1>1, SidesBuilt DEF Becomes, Settled
<1>3. Len(s.xi) = Starters
  BY <1>2
<1>4. \A i \in Fielded(s.xi) : i \in 1..Starters
  BY <1>2 DEF Fielded
<1>5. ASSUME NEW i \in Fielded(s.xi), NEW j \in Fielded(s.xi), s.xi[i].id = s.xi[j].id
      PROVE  i = j
  <2>1. acc.seats[i].player = acc.seats[j].player
    BY <1>1, <1>2, <1>4, <1>5, FieldedIsSeated
  <2>2. QED
    BY <1>1, <1>4, <2>1 DEF Settled, Accounted, Arranged
<1>6. \A i \in Fielded(s.xi) : Played(Entry(s.sheet, s.xi[i].id))
  BY <1>1, <1>2, <1>4, FieldedIsSeated
<1>7. QED
  BY <1>3, <1>5, <1>6

\* A phantom stands in for nobody on the bench.
LEMMA LastResortWhenPlayed == Sound => RotaldoIsLastResort
<1> SUFFICES ASSUME Sound, stage = "played", NEW s \in Sides,
                    NEW i \in DOMAIN s.xi \ Fielded(s.xi),
                    ~(s.sheet.live_mode /\ s.xi[i].line # G),
                    NEW e \in ToSet(s.sheet.bench), Played(e), ~e.neutralised,
                    Compatible(line_of(e.ultra), s.xi[i].line)
             PROVE  \E j \in DOMAIN s.xi : s.xi[j].id = e.id
  BY DEF RotaldoIsLastResort
<1>1. PICK acc : Settled(s.sheet, acc) /\ Becomes(acc, s.xi)
  BY SidesBuilt
<1>2. LegalSheet(s.sheet) /\ DOMAIN s.xi = 1..Starters /\ i \in 1..Starters /\ Starters \in Nat
  BY <1>1, SidesBuilt DEF Becomes, Settled
<1>3. ~Played(acc.seats[i].player)
  BY <1>1, <1>2, FieldedIsSeated
<1>4. s.xi[i].line = acc.seats[i].slot
  <2>1. s.xi[i] = Rotaldo(acc.seats[i].slot)
    BY <1>1, <1>2, <1>3 DEF Becomes
  <2>2. QED
    BY <2>1 DEF Rotaldo
<1>5. PICK k \in DOMAIN s.sheet.bench : e = s.sheet.bench[k]
  BY DEF ToSet
<1>6. e.id \in acc.used
  BY <1>1, <1>2, <1>3, <1>4, <1>5 DEF Settled, Exhausted
<1>7. e \in Squad(s.sheet)
  BY <1>2, <1>5, SheetFacts
<1>8. s.sheet.live_mode => line_of(e.ultra) = G
  BY <1>4 DEF Compatible
<1>9. PICK j \in 1..Starters : acc.seats[j].player = e
  BY <1>1, <1>6, <1>7, <1>8 DEF Settled, Accounted
<1>10. s.xi[j].id = e.id
  BY <1>1, <1>9 DEF Becomes
<1>11. QED
  BY <1>2, <1>10

\* Invariant 4.1.1 of the engine, for every lineup, bench, rule and live change:
\* only goalkeepers keep goal and goalkeepers do nothing else.
THEOREM GoalkeepersAreWatertight == Spec => []GoalkeeperWatertight
<1>1. QED
  BY FixtureSound, WatertightWhenPlayed, PTL

\* The three kinds of substitution together leave a complete XI in which nobody
\* plays twice and everybody was rated.
THEOREM NobodyEverPlaysTwice == Spec => []NobodyPlaysTwice
<1>1. QED
  BY FixtureSound, OnceWhenPlayed, PTL

\* A phantom player stands in only when the bench has nobody left for the slot.
THEOREM RotaldoComesLast == Spec => []RotaldoIsLastResort
<1>1. QED
  BY FixtureSound, LastResortWhenPlayed, PTL

-----------------------------------------------------------------------------
(* The ground *)

\* Whatever is stolen from whom, naming the sides the other way round exchanges
\* the outcome: two Miroirs find nothing to steal.
LEMMA MirrorsExchange ==
  ASSUME NEW h, LegalBonuses(h), NEW a, LegalBonuses(a)
  PROVE  /\ resolve_mirrors(a, h).home = resolve_mirrors(h, a).away
         /\ resolve_mirrors(a, h).away = resolve_mirrors(h, a).home
<1> DEFINE steals == Flags.mirror_steals_limited_bonus
<1>1. CASE ~(steals /\ h.mirror /\ a.mirror)
  <2>1. CASE ~steals
    BY <2>1 DEF resolve_mirrors
  <2>2. CASE steals /\ ~h.mirror
    BY <2>2 DEF resolve_mirrors
  <2>3. CASE steals /\ h.mirror /\ ~a.mirror
    BY <2>3 DEF resolve_mirrors
  <2>4. QED
    BY <1>1, <2>1, <2>2, <2>3
<1>2. CASE steals /\ h.mirror /\ a.mirror
  <2>1. ASSUME NEW b, LegalBonuses(b), b.mirror
        PROVE  StealablePosed(b) = {} /\ ~b.formation_424
    <3>1. b["mirror"] # NoBonuses["mirror"]
      BY <2>1 DEF NoBonuses
    <3>2. \A f \in Stealable \cup {"formation_424"} : b[f] = NoBonuses[f]
      BY <2>1, <3>1 DEF LegalBonuses, Stealable
    <3>3. b["formation_424"] = FALSE
      BY <3>2 DEF NoBonuses
    <3>4. QED
      BY <3>2, <3>3 DEF StealablePosed
  <2>2. /\ StealablePosed(h) = {} /\ ~h.formation_424
        /\ StealablePosed(a) = {} /\ ~a.formation_424
    BY <1>2, <2>1
  <2> DEFINE left(b) == [f \in DOMAIN b |-> IF f = "mirror" THEN FALSE ELSE b[f]]
  <2>3. ASSUME NEW b \in Bonuses, NEW o, StealablePosed(o) = {}, ~o.formation_424
        PROVE  Robbed(b, o) = b /\ Thief(b, o) = left(b)
    <3>1. Robbed(b, o) = [f \in DOMAIN b |-> b[f]]
      BY <2>3 DEF Robbed
    <3>2. b = [f \in DOMAIN b |-> b[f]]
      BY DEF Bonuses
    <3>3. b["defense"] = b.defense /\ b.defense \in BOOLEAN
      BY DEF Bonuses
    <3>4. \A f \in DOMAIN b :
            (CASE f = "mirror" -> FALSE
              [] f = "defense" -> b.defense \/ o.formation_424
              [] f \in StealablePosed(o) -> o[f]
              [] OTHER -> b[f]) = IF f = "mirror" THEN FALSE ELSE b[f]
      BY <2>3, <3>3
    <3>5. QED
      BY <3>1, <3>2, <3>4 DEF Thief
  <2>4. h \in Bonuses /\ a \in Bonuses
    BY DEF LegalBonuses
  <2>5. /\ Robbed(a, a) = a /\ Robbed(h, h) = h
        /\ Thief(h, a) = left(h) /\ Thief(a, h) = left(a)
    BY <2>2, <2>3, <2>4
  <2>6. ASSUME NEW b \in Bonuses, NEW o, StealablePosed(o) = {}
        PROVE  Robbed(left(b), o) = left(b)
    <3>1. Robbed(left(b), o) = [f \in DOMAIN left(b) |-> left(b)[f]]
      BY <2>6 DEF Robbed
    <3>2. QED
      BY <3>1
  <2>7. Robbed(left(h), h) = left(h) /\ Robbed(left(a), a) = left(a)
    BY <2>2, <2>4, <2>6
  <2> HIDE DEF left
  <2>8. resolve_mirrors(h, a) = [home |-> left(h), away |-> left(a)]
    BY <1>2, <2>5, <2>7 DEF resolve_mirrors
  <2>9. resolve_mirrors(a, h) = [home |-> left(a), away |-> left(h)]
    BY <1>2, <2>5, <2>7 DEF resolve_mirrors
  <2>10. QED
    BY <2>8, <2>9
<1>3. QED
  BY <1>1, <1>2

\* On the other ground the same two elevens meet.
LEMMA OtherGround ==
  ASSUME Sound, stage = "played", NEW attackerWins
  PROVE  \E hxi, axi, b :
           /\ Counted(hxi) /\ Counted(axi)
           /\ resolve_match(home, away, attackerWins) = MatchResult(hxi, axi, b, attackerWins)
           /\ resolve_match(away, home, attackerWins)
                = MatchResult(axi, hxi, [home |-> b.away, away |-> b.home], attackerWins)
<1> DEFINE b == resolve_mirrors(home.bonuses, away.bonuses)
           c == resolve_mirrors(away.bonuses, home.bonuses)
           hxi == BuildSide(home, b.home, b.away)
           axi == BuildSide(away, b.away, b.home)
<1>1. LegalSheet(home) /\ LegalSheet(away)
      /\ LegalBonuses(home.bonuses) /\ LegalBonuses(away.bonuses)
  BY DEF Sound
<1>2. Counted(hxi) /\ Counted(axi)
  BY <1>1, XICounted
<1>3. c.home = b.away /\ c.away = b.home
  BY <1>1, MirrorsExchange
<1>4. resolve_match(home, away, attackerWins) = MatchResult(hxi, axi, b, attackerWins)
  BY DEF resolve_match
<1>5. resolve_match(away, home, attackerWins) = MatchResult(axi, hxi, c, attackerWins)
  <2>1. resolve_match(away, home, attackerWins)
          = MatchResult(BuildSide(away, c.home, c.away), BuildSide(home, c.away, c.home),
                        c, attackerWins)
    BY DEF resolve_match
  <2> HIDE DEF b, c
  <2>2. QED
    BY <1>3, <2>1
<1>6. MatchResult(axi, hxi, c, attackerWins)
        = MatchResult(axi, hxi, [home |-> b.away, away |-> b.home], attackerWins)
  <2> HIDE DEF b, c, hxi, axi
  <2>1. QED
    BY <1>3 DEF MatchResult
<1>7. QED
  BY <1>2, <1>4, <1>5, <1>6

\* Virtual goals are as many as their scorers.
LEMMA VirtualGoalsCounted ==
  ASSUME NEW xi, Counted(xi), NEW opponentXI, NEW atHome, NEW attackerWins
  PROVE  mpg_goals(xi, opponentXI, atHome, attackerWins) \in Nat
<1> DEFINE scorers == {i \in DOMAIN xi :
                         /\ xi[i].line # G /\ xi[i].goals = 0
                         /\ xi[i].rating >= MPG_GOAL_FLOOR
                         /\ Crosses(xi[i], opponentXI, WinsTies(atHome, attackerWins))}
<1>1. mpg_goals(xi, opponentXI, atHome, attackerWins) = Cardinality(scorers)
  BY DEF mpg_goals
<1>2. IsFiniteSet(scorers)
  <2>1. scorers \subseteq DOMAIN xi
    OBVIOUS
  <2> HIDE DEF scorers
  <2>2. QED
    BY <2>1, FS_Subset DEF Counted
<1> HIDE DEF scorers
<1>3. QED
  BY <1>1, <1>2, FS_CardinalityType

\* Winning the tied duels never takes a virtual goal away.
LEMMA HomeScoresNoLess ==
  ASSUME NEW xi, Counted(xi), NEW opponentXI
  PROVE  mpg_goals(xi, opponentXI, FALSE, FALSE) <= mpg_goals(xi, opponentXI, TRUE, FALSE)
<1> DEFINE may(i) == xi[i].line # G /\ xi[i].goals = 0 /\ xi[i].rating >= MPG_GOAL_FLOOR
           scorers(w) == {i \in DOMAIN xi : may(i) /\ Crosses(xi[i], opponentXI, w)}
<1>2. /\ mpg_goals(xi, opponentXI, FALSE, FALSE) = Cardinality(scorers(TiesAway))
      /\ mpg_goals(xi, opponentXI, TRUE, FALSE) = Cardinality(scorers(TiesHome))
  BY DEF mpg_goals, TiesAway, TiesHome
<1>3. scorers(TiesAway) \subseteq scorers(TiesHome)
  <2>1. ASSUME NEW i \in DOMAIN xi, may(i), Crosses(xi[i], opponentXI, TiesAway)
        PROVE  Crosses(xi[i], opponentXI, TiesHome)
    <3>1. xi[i].line \in {D, M, A}
      BY <2>1 DEF Counted, Lines
    <3>2. QED
      BY <2>1, <3>1, TiesHelpToCross
  <2>2. QED
    BY <2>1
<1>4. IsFiniteSet(scorers(TiesHome))
  <2>1. scorers(TiesHome) \subseteq DOMAIN xi
    OBVIOUS
  <2> HIDE DEF scorers
  <2>2. QED
    BY <2>1, FS_Subset DEF Counted
<1> HIDE DEF scorers
<1>5. QED
  BY <1>2, <1>3, <1>4, FS_Subset

\* On neutral rules nothing the engine computes looks at the ground.
LEMMA SymmetricWhenPlayed == Sound => TieRuleSymmetric
<1> SUFFICES ASSUME Sound, stage = "played", ties
             PROVE  Exchanged(resolve_match(away, home, TRUE)) = result
  BY DEF TieRuleSymmetric
<1>1. ties = TRUE /\ result = resolve_match(home, away, ties)
  BY DEF Sound
<1>2. result = resolve_match(home, away, TRUE)
  BY <1>1
<1>3. PICK hxi, axi, b :
        /\ resolve_match(home, away, TRUE) = MatchResult(hxi, axi, b, TRUE)
        /\ resolve_match(away, home, TRUE)
             = MatchResult(axi, hxi, [home |-> b.away, away |-> b.home], TRUE)
  BY OtherGround
<1>4. ASSUME NEW x, NEW y PROVE mpg_goals(x, y, TRUE, TRUE) = mpg_goals(x, y, FALSE, TRUE)
  <2>1. WinsTies(TRUE, TRUE) = WinsTies(FALSE, TRUE)
    BY DEF WinsTies
  <2>2. QED
    BY <2>1, Zenon DEF mpg_goals
<1> DEFINE r == MatchResult(hxi, axi, b, TRUE)
           c == [home |-> b.away, away |-> b.home]
           s == MatchResult(axi, hxi, c, TRUE)
<1>6. r.home = s.away
  <2>1. r.home = SideScore(hxi, axi, Goals(hxi, axi, mpg_goals(hxi, axi, TRUE, TRUE)), b.away)
    BY DEF MatchResult
  <2>2. s.away = SideScore(hxi, axi, Goals(hxi, axi, mpg_goals(hxi, axi, FALSE, TRUE)), b.away)
    BY DEF MatchResult
  <2>3. QED
    BY <1>4, <2>1, <2>2, Zenon
<1>7. r.away = s.home
  <2>1. s.home = SideScore(axi, hxi, Goals(axi, hxi, mpg_goals(axi, hxi, TRUE, TRUE)), b.home)
    BY DEF MatchResult
  <2>2. r.away = SideScore(axi, hxi, Goals(axi, hxi, mpg_goals(axi, hxi, FALSE, TRUE)), b.home)
    BY DEF MatchResult
  <2>3. QED
    BY <1>4, <2>1, <2>2, Zenon
<1>8. /\ r.home_xi = s.away_xi /\ r.away_xi = s.home_xi
      /\ r.home_paid = s.away_paid /\ r.away_paid = s.home_paid
  BY DEF MatchResult
<1>9. Exchanged(s) = [home |-> r.home, away |-> r.away, home_xi |-> r.home_xi,
                      away_xi |-> r.away_xi, home_paid |-> r.home_paid,
                      away_paid |-> r.away_paid]
  BY <1>6, <1>7, <1>8 DEF Exchanged
<1>10. Exchanged(s) = r
  <2>1. r = [home |-> r.home, away |-> r.away, home_xi |-> r.home_xi, away_xi |-> r.away_xi,
             home_paid |-> r.home_paid, away_paid |-> r.away_paid]
    BY DEF MatchResult
  <2>2. QED
    BY <1>9, <2>1
<1>11. QED
  BY <1>2, <1>3, <1>10

\* With return legs the ground only decides ties, in favour of the hosts.
LEMMA AdvantageWhenPlayed == Sound => HomeAdvantage
<1> SUFFICES ASSUME Sound, stage = "played", ~ties
             PROVE  NoWorse(result, Exchanged(resolve_match(away, home, FALSE)))
  BY DEF HomeAdvantage
<1>1. ties = FALSE /\ result = resolve_match(home, away, ties)
  BY DEF Sound
<1>2. result = resolve_match(home, away, FALSE)
  BY <1>1
<1>3. PICK hxi, axi, b :
        /\ Counted(hxi) /\ Counted(axi)
        /\ resolve_match(home, away, FALSE) = MatchResult(hxi, axi, b, FALSE)
        /\ resolve_match(away, home, FALSE)
             = MatchResult(axi, hxi, [home |-> b.away, away |-> b.home], FALSE)
  BY OtherGround

\* The score of x against y, with the ground and without it.
<1>4. ASSUME NEW x, Counted(x), NEW y, Counted(y), NEW o
      PROVE  SideScore(x, y, Goals(x, y, mpg_goals(x, y, FALSE, FALSE)), o)
               <= SideScore(x, y, Goals(x, y, mpg_goals(x, y, TRUE, FALSE)), o)
  <2> DEFINE without == mpg_goals(x, y, FALSE, FALSE)
             with == mpg_goals(x, y, TRUE, FALSE)
  <2>1. without \in Nat /\ with \in Nat /\ without <= with
    BY <1>4, VirtualGoalsCounted, HomeScoresNoLess
  <2> HIDE DEF without, with
  <2>2. /\ Goals(x, y, without) \in Tally /\ Goals(x, y, with) \in Tally
        /\ \A kind \in Kinds : Goals(x, y, without)[kind] <= Goals(x, y, with)[kind]
    BY <1>4, <2>1, GoalsCounted
  <2>3. SideScore(x, y, Goals(x, y, without), o) <= SideScore(x, y, Goals(x, y, with), o)
    BY <1>4, <2>2, ScoreKeepsOrder DEF Counted
  <2>4. QED
    BY <2>3 DEF without, with
<1> DEFINE r == MatchResult(hxi, axi, b, FALSE)
           c == [home |-> b.away, away |-> b.home]
           s == MatchResult(axi, hxi, c, FALSE)
<1>6. s.away <= r.home
  <2>1. s.away = SideScore(hxi, axi, Goals(hxi, axi, mpg_goals(hxi, axi, FALSE, FALSE)), b.away)
    BY DEF MatchResult
  <2>2. r.home = SideScore(hxi, axi, Goals(hxi, axi, mpg_goals(hxi, axi, TRUE, FALSE)), b.away)
    BY DEF MatchResult
  <2>3. QED
    BY <1>3, <1>4, <2>1, <2>2
<1>7. r.away <= s.home
  <2>1. s.home = SideScore(axi, hxi, Goals(axi, hxi, mpg_goals(axi, hxi, TRUE, FALSE)), b.home)
    BY DEF MatchResult
  <2>2. r.away = SideScore(axi, hxi, Goals(axi, hxi, mpg_goals(axi, hxi, FALSE, FALSE)), b.home)
    BY DEF MatchResult
  <2>3. QED
    BY <1>3, <1>4, <2>1, <2>2
<1>8. Exchanged(s).home = s.away /\ Exchanged(s).away = s.home
  BY DEF Exchanged
<1>9. NoWorse(r, Exchanged(s))
  <2> HIDE DEF r, s
  <2>1. QED
    BY <1>6, <1>7, <1>8 DEF NoWorse
<1>10. QED
  BY <1>2, <1>3, <1>9

\* A score starts from the own goals of the phantoms and nothing is taken from
\* it.
LEMMA PunishedWhenPlayed == Sound => PunishmentStands
<1> SUFFICES ASSUME Sound, stage = "played"
             PROVE  /\ result.home >= rotaldo_own_goals(result.away_xi)
                    /\ result.away >= rotaldo_own_goals(result.home_xi)
  BY DEF PunishmentStands, rotaldo_own_goals
<1>1. result = resolve_match(home, away, ties)
  BY DEF Sound
<1>2. PICK hxi, axi, b : /\ Counted(hxi) /\ Counted(axi)
                         /\ result = MatchResult(hxi, axi, b, ties)
  BY <1>1, OtherGround
<1>3. ASSUME NEW x, Counted(x), NEW y, Counted(y), NEW o, NEW atHome
      PROVE  SideScore(x, y, Goals(x, y, mpg_goals(x, y, atHome, ties)), o)
               >= rotaldo_own_goals(y)
  <2> DEFINE n == mpg_goals(x, y, atHome, ties)
  <2>1. n \in Nat
    BY <1>3, VirtualGoalsCounted
  <2> HIDE DEF n
  <2>2. /\ Goals(x, y, n) \in Tally
        /\ \A kind \in Kinds : Goals(x, y, n)[kind] <= Goals(x, y, n)[kind]
    BY <1>3, <2>1, GoalsCounted
  <2>3. QED
    BY <1>3, <2>2, ScoreKeepsOrder DEF Counted, n
<1>4. /\ result.home = SideScore(hxi, axi, Goals(hxi, axi, mpg_goals(hxi, axi, TRUE, ties)), b.away)
      /\ result.away = SideScore(axi, hxi, Goals(axi, hxi, mpg_goals(axi, hxi, FALSE, ties)), b.home)
      /\ result.home_xi = hxi /\ result.away_xi = axi
  BY <1>2 DEF MatchResult
<1>5. /\ result.home >= rotaldo_own_goals(axi)
      /\ result.away >= rotaldo_own_goals(hxi)
  BY <1>2, <1>3, <1>4, Zenon
<1>6. QED
  BY <1>4, <1>5

\* Without return legs or in a play-off the ground does not matter: played on the
\* other one, the same sheets give the same result, Miroirs and Valises included.
THEOREM GroundDoesNotMatter == Spec => []TieRuleSymmetric
<1>1. QED
  BY FixtureSound, SymmetricWhenPlayed, PTL

\* With return legs a side never does worse at home, nor its opponent better.
THEOREM HomeIsNoWorse == Spec => []HomeAdvantage
<1>1. QED
  BY FixtureSound, AdvantageWhenPlayed, PTL

\* Invariant 4.1.3 of the engine: no save and no Valise, stolen or not, takes away
\* the own goals conceded through phantom players.
THEOREM PunishmentIsFinal == Spec => []PunishmentStands
<1>1. QED
  BY FixtureSound, PunishedWhenPlayed, PTL

-----------------------------------------------------------------------------
(* A better eleven *)

\* Everybody has a number for a rating.
Graded(xi) == IsFiniteSet(DOMAIN xi) /\ \A i \in DOMAIN xi : xi[i].rating \in Nat

\* The same eleven but for ratings that are no lower.
Stronger(y, x) ==
  /\ DOMAIN y = DOMAIN x /\ DOMAIN x \subseteq Nat
  /\ \A i \in DOMAIN x :
       /\ y[i].rating >= x[i].rating
       /\ y[i].line = x[i].line /\ y[i].rotaldo = x[i].rotaldo
       /\ y[i].goals = x[i].goals /\ y[i].own = x[i].own

\* Every line of e is on average as high as that of d.
AsHigh(e, d) ==
  \A l \in Lines :
    /\ LineAverage(e, l).n = LineAverage(d, l).n /\ LineAverage(d, l).n \in Nat
    /\ LineAverage(d, l).sum \in Int /\ LineAverage(e, l).sum \in Int
    /\ LineAverage(d, l).sum <= LineAverage(e, l).sum

\* Better ratings make better lines.
LEMMA StrongerIsAsHigh ==
  ASSUME NEW x, NEW y, Graded(x), Graded(y), Stronger(y, x)
  PROVE  AsHigh(y, x)
<1> SUFFICES ASSUME NEW l \in Lines
             PROVE  /\ LineAverage(y, l).n = LineAverage(x, l).n /\ LineAverage(x, l).n \in Nat
                    /\ LineAverage(x, l).sum \in Int /\ LineAverage(y, l).sum \in Int
                    /\ LineAverage(x, l).sum <= LineAverage(y, l).sum
  BY DEF AsHigh
<1> DEFINE who(z) == IF l = G /\ InLine(z, G) # {} THEN {Min(InLine(z, G))} ELSE InLine(z, l)
           f == [i \in DOMAIN x |-> x[i].rating]
           h == [i \in DOMAIN y |-> y[i].rating]
           w == who(x)
<1>1. \A k : InLine(y, k) = InLine(x, k)
  BY DEF Stronger, InLine
<1>2. who(y) = w
  BY <1>1
<1>3. w \subseteq DOMAIN x
  <2>1. InLine(x, G) \subseteq DOMAIN x /\ InLine(x, l) \subseteq DOMAIN x
    BY DEF InLine
  <2>2. InLine(x, G) # {} => Min(InLine(x, G)) \in InLine(x, G)
    BY <2>1, MinIsIn DEF Stronger
  <2>3. QED
    BY <2>1, <2>2
<1>4. IsFiniteSet(w) /\ Cardinality(w) \in Nat
  <2> HIDE DEF w
  <2>1. QED
    BY <1>3, FS_Subset, FS_CardinalityType DEF Graded
<1>5. \A i \in w : f[i] \in Int /\ h[i] \in Int /\ f[i] <= h[i]
  <2> HIDE DEF w
  <2>1. QED
    BY <1>3 DEF Graded, Stronger
<1>6. /\ LineAverage(x, l) = [sum |-> SumFunctionOnSet(f, w), n |-> Cardinality(w)]
      /\ LineAverage(y, l) = [sum |-> SumFunctionOnSet(h, w), n |-> Cardinality(w)]
  <2>1. LineAverage(x, l) = [sum |-> SumFunctionOnSet(f, who(x)), n |-> Cardinality(who(x))]
    BY DEF LineAverage
  <2>2. LineAverage(y, l) = [sum |-> SumFunctionOnSet(h, who(y)), n |-> Cardinality(who(y))]
    BY DEF LineAverage
  <2>3. QED
    BY <1>2, <2>1, <2>2
<1> HIDE DEF w, f, h
<1>7. /\ SumFunctionOnSet(f, w) \in Int /\ SumFunctionOnSet(h, w) \in Int
      /\ SumFunctionOnSet(f, w) <= SumFunctionOnSet(h, w)
  BY <1>4, <1>5, SumIsInt, SumRises
<1>8. QED
  BY <1>4, <1>6, <1>7

\* The duel of t is no harder than the duel of f.
Ahead(t, f) ==
  /\ t.current \in Int /\ f.current \in Int
  /\ f.passed => t.passed /\ t.current >= f.current /\ t.first = f.first

\* A better scorer stays ahead in every duel against defenders no better.
LEMMA DuelKeepsAhead ==
  ASSUME NEW t, NEW f, Ahead(t, f), NEW a, NEW b, NEW w,
         a.n = b.n, b.n \in Nat, a.sum \in Int, b.sum \in Int, a.sum <= b.sum
  PROVE  Ahead(Duel(t, a, w), Duel(f, b, w))
<1> DEFINE d == Duel(t, a, w)
           e == Duel(f, b, w)
           cost(z) == IF z.first THEN 2 ELSE 1
<1>1. /\ d = IF ~t.passed \/ a.n = 0 THEN t
             ELSE [passed |-> \/ t.current * a.n > a.sum
                              \/ t.current * a.n = a.sum /\ w,
                   current |-> t.current - cost(t), first |-> FALSE]
      /\ e = IF ~f.passed \/ b.n = 0 THEN f
             ELSE [passed |-> \/ f.current * b.n > b.sum
                              \/ f.current * b.n = b.sum /\ w,
                   current |-> f.current - cost(f), first |-> FALSE]
  BY DEF Duel
<1>2. t.current \in Int /\ f.current \in Int /\ cost(t) \in {1, 2} /\ cost(f) \in {1, 2}
  BY DEF Ahead
<1>3. d.current \in Int /\ e.current \in Int
  <2> HIDE DEF cost
  <2>1. t.current - cost(t) \in Int /\ f.current - cost(f) \in Int
    BY <1>2
  <2>2. QED
    BY <1>1, <1>2, <2>1
<1>4. ASSUME e.passed
      PROVE  d.passed /\ d.current >= e.current /\ d.first = e.first
  <2>1. f.passed /\ t.passed /\ t.current >= f.current /\ t.first = f.first
    BY <1>1, <1>4 DEF Ahead
  <2>2. CASE b.n = 0
    BY <1>1, <2>1, <2>2
  <2>3. CASE b.n # 0
    <3> DEFINE p == t.current * a.n
               q == f.current * b.n
    <3>1. p \in Int /\ q \in Int /\ p >= q
      <4> DEFINE k == t.current - f.current
      <4>1. k \in Nat /\ t.current = f.current + k
        BY <1>2, <2>1
      <4> HIDE DEF k
      <4>2. k * b.n \in Nat /\ f.current * b.n \in Int
        BY <1>2, <4>1
      <4>3. t.current * b.n = f.current * b.n + k * b.n
        BY <1>2, <4>1
      <4>4. QED
        BY <4>2, <4>3
    <3>2. q > b.sum \/ (q = b.sum /\ w)
      BY <1>1, <1>4, <2>1, <2>3
    <3>3. d = [passed |-> p > a.sum \/ (p = a.sum /\ w),
               current |-> t.current - cost(t), first |-> FALSE]
      BY <1>1, <2>1, <2>3
    <3>4. e.current = f.current - cost(f) /\ e.first = FALSE
      BY <1>1, <2>1, <2>3
    <3>5. cost(t) = cost(f)
      BY <2>1
    <3> HIDE DEF p, q, d, e, cost
    <3>6. p > a.sum \/ (p = a.sum /\ w)
      <4>1. CASE q > b.sum
        BY <3>1, <4>1
      <4>2. CASE q = b.sum /\ w
        BY <3>1, <4>2
      <4>3. QED
        BY <3>2, <4>1, <4>2
    <3>7. t.current - cost(t) >= f.current - cost(f)
      BY <1>2, <2>1, <3>5
    <3>8. QED
      BY <3>3, <3>4, <3>6, <3>7
  <2>4. QED
    BY <2>2, <2>3
<1>5. QED
  BY <1>3, <1>4 DEF Ahead

\* A better scorer crosses lines that are no better.
LEMMA BetterCrosses ==
  ASSUME NEW s, NEW t, s.line \in {D, M, A}, t.line = s.line,
         s.rating \in Int, t.rating \in Int, t.rating >= s.rating,
         NEW d, NEW e, AsHigh(d, e), NEW w, Crosses(s, d, w)
  PROVE  Crosses(t, e, w)
<1> DEFINE lines == Gauntlet(s.line)
           last == Len(lines)
<1>1. lines \in Seq(Lines) /\ last \in Nat /\ DOMAIN lines = 1..last
  <2>1. lines \in Seq(Lines)
    BY GauntletLength
  <2> HIDE DEF lines
  <2>2. QED
    BY <2>1
<1> DEFINE Run(g, z, y) == /\ Duels(g, lines, Attack(z), y, w)
                           /\ Crosses(z, y, w) = g[last].passed
<1>2. ASSUME NEW z, z.line = s.line, NEW y PROVE \E g : Run(g, z, y)
  <2>1. /\ z.line \in {D, M, A} /\ lines = Gauntlet(z.line) /\ last = Len(Gauntlet(z.line))
    BY <1>2
  <2>2. \E g : /\ Duels(g, Gauntlet(z.line), Attack(z), y, w)
               /\ Crosses(z, y, w) = g[Len(Gauntlet(z.line))].passed
    BY <2>1, CrossesAsDuels
  <2> HIDE DEF lines, last
  <2>3. QED
    BY <2>1, <2>2
<1>3. PICK f, g : Run(f, s, d) /\ Run(g, t, e)
  <2> HIDE DEF Run
  <2>1. (\E f : Run(f, s, d)) /\ (\E g : Run(g, t, e))
    BY <1>2
  <2>2. QED
    BY <2>1
<1> HIDE DEF lines, last
<1>4. /\ f[0] = Attack(s) /\ g[0] = Attack(t)
      /\ \A n \in 1..last : /\ f[n] = Duel(f[n - 1], LineAverage(d, lines[n]), w)
                            /\ g[n] = Duel(g[n - 1], LineAverage(e, lines[n]), w)
  <2>1. 0 \in 0..last /\ \A n \in 1..last : n \in 0..last /\ n # 0
    BY <1>1
  <2>2. QED
    BY <1>3, <2>1 DEF Duels, last
<1> DEFINE B == {0}
           c == [n \in 0..last |-> IF Ahead(g[n], f[n]) THEN 0 ELSE 1]
<1>5. c[0] \in B
  <2>1. Ahead(Attack(t), Attack(s))
    BY DEF Ahead, Attack
  <2>2. QED
    BY <1>1, <1>4, <2>1
<1>6. ASSUME NEW n \in 1..last, c[n - 1] \in B
      PROVE  c[n] \in B
  <2>1. n - 1 \in 0..last /\ n \in 0..last
    BY <1>1
  <2>2. Ahead(g[n - 1], f[n - 1])
    BY <1>6, <2>1
  <2>3. lines[n] \in Lines
    BY <1>1
  <2> DEFINE a == LineAverage(e, lines[n])
             b == LineAverage(d, lines[n])
  <2>4. a.n = b.n /\ b.n \in Nat /\ a.sum \in Int /\ b.sum \in Int /\ a.sum <= b.sum
    BY <2>3 DEF AsHigh
  <2> HIDE DEF a, b
  <2>5. Ahead(Duel(g[n - 1], a, w), Duel(f[n - 1], b, w))
    BY <2>2, <2>4, DuelKeepsAhead
  <2>6. Ahead(g[n], f[n])
    BY <1>4, <2>5 DEF a, b
  <2>7. QED
    BY <2>1, <2>6
<1>7. Ahead(g[last], f[last])
  <2>1. \A n \in 0..last : c[n] \in B
    <3> HIDE DEF c, B
    <3>1. QED
      BY <1>1, <1>5, <1>6, StaysIn
  <2>2. last \in 0..last
    BY <1>1
  <2>3. QED
    BY <2>1, <2>2
<1>8. QED
  BY <1>3, <1>7 DEF Ahead

\* Numbered xi: what is known of every final XI.
LEMMA MoreScorers ==
  ASSUME NEW x, NEW y, Counted(x), Graded(x), Graded(y), Stronger(y, x),
         NEW d, NEW e, AsHigh(d, e), NEW atHome, NEW attackerWins
  PROVE  mpg_goals(x, d, atHome, attackerWins) <= mpg_goals(y, e, atHome, attackerWins)
<1> DEFINE w == WinsTies(atHome, attackerWins)
           scorers(z, v) == {i \in DOMAIN z : /\ z[i].line # G /\ z[i].goals = 0
                                              /\ z[i].rating >= MPG_GOAL_FLOOR
                                              /\ Crosses(z[i], v, w)}
<1>1. /\ mpg_goals(x, d, atHome, attackerWins) = Cardinality(scorers(x, d))
      /\ mpg_goals(y, e, atHome, attackerWins) = Cardinality(scorers(y, e))
  BY DEF mpg_goals
<1> HIDE DEF w
<1>2. scorers(x, d) \subseteq scorers(y, e)
  <2>1. SUFFICES ASSUME NEW i \in scorers(x, d) PROVE i \in scorers(y, e)
    OBVIOUS
  <2>2. /\ i \in DOMAIN x /\ x[i].line # G /\ x[i].goals = 0
        /\ x[i].rating >= MPG_GOAL_FLOOR /\ Crosses(x[i], d, w)
    BY <2>1
  <2>3. /\ i \in DOMAIN y /\ y[i].line = x[i].line /\ y[i].goals = 0
        /\ y[i].rating >= x[i].rating /\ x[i].rating \in Nat /\ y[i].rating \in Nat
    BY <2>2 DEF Stronger, Graded
  <2>4. x[i].line \in {D, M, A}
    BY <2>2 DEF Counted, Lines
  <2>5. Crosses(y[i], e, w)
    BY <2>2, <2>3, <2>4, BetterCrosses
  <2>6. y[i].rating >= MPG_GOAL_FLOOR /\ y[i].line # G
    BY <2>2, <2>3 DEF MPG_GOAL_FLOOR
  <2>7. QED
    BY <2>3, <2>5, <2>6
<1>3. IsFiniteSet(scorers(y, e))
  <2>1. scorers(y, e) \subseteq DOMAIN y /\ IsFiniteSet(DOMAIN y)
    BY DEF Graded
  <2> HIDE DEF scorers
  <2>2. QED
    BY <2>1, FS_Subset
<1> HIDE DEF scorers
<1>4. QED
  BY <1>1, <1>2, <1>3, FS_Subset

\* What is cancelled is not there any more.
LEMMA CancelTakes ==
  ASSUME NEW goals \in Tally, NEW kinds \in Seq(Kinds), NEW n \in Nat
  PROVE  \A kind \in Kinds : Cancel(goals, kinds, n)[kind] <= goals[kind]
<1> DEFINE last == Len(kinds)
           B == {acc \in Left : \A kind \in Kinds : acc.goals[kind] <= goals[kind]}
<1>1. last \in Nat /\ \A i \in 1..last : kinds[i] \in Kinds
  OBVIOUS
<1>2. PICK walk \in [0..last -> Left] :
        /\ walk[0] = [goals |-> goals, left |-> n]
        /\ \A i \in 1..last : walk[i] = CancelKind(walk[i - 1], kinds[i])
        /\ Cancel(goals, kinds, n) = walk[last].goals
  BY CancelWalks
<1> HIDE DEF last
<1>3. \A kind \in Kinds : goals[kind] \in Nat
  BY DEF Tally, Kinds
<1>4. walk[0] \in B
  <2>1. walk[0] \in Left
    BY <1>1
  <2>2. QED
    BY <1>2, <1>3, <2>1
<1>5. ASSUME NEW i \in 1..last, walk[i - 1] \in B
      PROVE  walk[i] \in B
  <2> DEFINE acc == walk[i - 1]
             k == kinds[i]
  <2>1. acc \in Left /\ k \in Kinds /\ walk[i] = CancelKind(acc, k)
        /\ \A kind \in Kinds : acc.goals[kind] <= goals[kind]
    BY <1>1, <1>2, <1>5
  <2> HIDE DEF acc, k
  <2>2. acc.left \in Nat /\ \A kind \in Kinds : acc.goals[kind] \in Nat
    BY <2>1 DEF Left, Tally, Kinds
  <2>3. CancelKind(acc, k) \in Left
    BY <2>1, KindCancelled
  <2>4. ASSUME NEW kind \in Kinds
        PROVE  CancelKind(acc, k).goals[kind] <= goals[kind]
    <3>1. CancelKind(acc, k).goals[kind] <= acc.goals[kind]
      <4>1. CASE kind = k
        BY <2>1, <2>2, <4>1, KindCancelled
      <4>2. CASE kind # k
        BY <2>1, <2>2, <4>2, KindCancelled
      <4>3. QED
        BY <4>1, <4>2
    <3>2. acc.goals[kind] <= goals[kind] /\ CancelKind(acc, k).goals[kind] \in Nat
      BY <2>1, <2>3 DEF Left, Tally, Kinds
    <3>3. QED
      BY <1>3, <2>2, <3>1, <3>2
  <2>5. QED
    BY <2>1, <2>3, <2>4
<1>6. walk[last] \in B
  <2>1. \A i \in 0..last : walk[i] \in B
    <3> HIDE DEF B
    <3>1. QED
      BY <1>1, <1>4, <1>5, StaysIn
  <2>2. QED
    BY <1>1, <2>1
<1>7. QED
  BY <1>2, <1>6

\* Against a better eleven no more goals make no more points: its save is armed
\* at least as soon, its phantoms are as many.
LEMMA StrongerConcedes ==
  ASSUME NEW z, NEW x, NEW y, Graded(x), Graded(y), Stronger(y, x), NEW o,
         NEW goals \in Tally, NEW more \in Tally,
         \A kind \in Kinds : goals[kind] <= more[kind]
  PROVE  SideScore(z, y, goals, o) <= SideScore(z, x, more, o)
<1> DEFINE saves == IF Flags.mpg_save_can_cancel_own_goal
                    THEN <<"own_goal", "real">> ELSE <<"real">>
           valises == IF Flags.valise_can_cancel_real_own_goal
                      THEN <<"real", "own_goal", "mpg">> ELSE <<"real", "mpg">>
           n == Flags.goals_cancelled_per_valise
           saved(g, xi) == IF ~SaveArmed(xi) THEN g ELSE Cancel(g, saves, 1)
           left(g, xi) == IF ~o.valise THEN saved(g, xi) ELSE Cancel(saved(g, xi), valises, n)
           Ordered(a, b) == /\ a \in Tally /\ b \in Tally
                            /\ \A kind \in Kinds : a[kind] <= b[kind]
<1>1. saves \in Seq(Kinds) /\ valises \in Seq(Kinds) /\ n \in Nat /\ 1 \in Nat
  <2>1. /\ <<"own_goal", "real">> \in Seq(Kinds) /\ <<"real">> \in Seq(Kinds)
        /\ <<"real", "mpg">> \in Seq(Kinds)
    BY DEF Kinds
  <2>2. <<"real", "own_goal", "mpg">> \in Seq(Kinds)
    BY DEF Kinds
  <2>3. n \in Nat
    BY EngineAssumption
  <2>4. QED
    BY <2>1, <2>2, <2>3
<1>2. \A g, xi : SideScore(z, xi, g, o) = AllGoals(left(g, xi)) + rotaldo_own_goals(xi)
  BY DEF SideScore
<1> HIDE DEF saves, valises, n
<1>3. SaveArmed(x) => SaveArmed(y)
  <2>1. InLine(y, G) = InLine(x, G)
    BY DEF Stronger, InLine
  <2> DEFINE i == Min(InLine(x, G))
  <2>2. InLine(x, G) # {} => i \in DOMAIN x
    <3>1. InLine(x, G) \subseteq DOMAIN x /\ InLine(x, G) \subseteq Nat
      BY DEF Stronger, InLine
    <3>2. InLine(x, G) # {} => i \in InLine(x, G)
      BY <3>1, MinIsIn
    <3>3. QED
      BY <3>1, <3>2
  <2> HIDE DEF i
  <2>3. i \in DOMAIN x => /\ x[i].rating \in Nat /\ y[i].rating \in Nat
                          /\ y[i].rating >= x[i].rating
    BY DEF Stronger, Graded
  <2>4. /\ SaveArmed(x) <=> InLine(x, G) # {} /\ x[i].rating >= MPG_SAVE_THRESHOLD
        /\ SaveArmed(y) <=> InLine(x, G) # {} /\ y[i].rating >= MPG_SAVE_THRESHOLD
    BY <2>1 DEF SaveArmed, i
  <2>5. QED
    BY <2>2, <2>3, <2>4 DEF MPG_SAVE_THRESHOLD
<1>4. Ordered(saved(goals, y), saved(more, x))
  <2>1. CASE SaveArmed(x)
    BY <1>1, <1>3, <2>1, CancelKeepsOrder
  <2>2. CASE ~SaveArmed(x) /\ ~SaveArmed(y)
    BY <2>2
  <2>3. CASE ~SaveArmed(x) /\ SaveArmed(y)
    <3> DEFINE c == Cancel(goals, saves, 1)
    <3>1. c \in Tally
      BY <1>1, CancelKeepsOrder
    <3>2. \A kind \in Kinds : c[kind] <= goals[kind]
      BY <1>1, CancelTakes
    <3> HIDE DEF c
    <3>3. \A kind \in Kinds : c[kind] \in Nat /\ goals[kind] \in Nat /\ more[kind] \in Nat
      BY <3>1 DEF Tally, Kinds
    <3>4. \A kind \in Kinds : c[kind] <= more[kind]
      BY <3>2, <3>3
    <3>5. saved(goals, y) = c /\ saved(more, x) = more
      BY <2>3 DEF c
    <3> HIDE DEF saved
    <3>6. QED
      BY <3>1, <3>4, <3>5
  <2>4. QED
    BY <2>1, <2>2, <2>3
<1> HIDE DEF saved
<1>5. Ordered(left(goals, y), left(more, x))
  BY <1>1, <1>4, CancelKeepsOrder
<1> HIDE DEF left
<1>6. /\ AllGoals(left(goals, y)) \in Nat /\ AllGoals(left(more, x)) \in Nat
      /\ AllGoals(left(goals, y)) <= AllGoals(left(more, x))
  BY <1>5, TallyAdds
<1>7. rotaldo_own_goals(x) \in Nat /\ rotaldo_own_goals(y) = rotaldo_own_goals(x)
  <2>1. {i \in DOMAIN y : y[i].rotaldo} = {i \in DOMAIN x : x[i].rotaldo}
    BY DEF Stronger
  <2>2. rotaldo_own_goals(y) = rotaldo_own_goals(x)
    BY <2>1 DEF rotaldo_own_goals, Rotaldos
  <2>3. rotaldo_own_goals(x) \in Nat
    BY PunishmentIsANumber DEF Graded
  <2>4. QED
    BY <2>2, <2>3
<1>8. QED
  BY <1>2, <1>6, <1>7

\* What one side scores against another.
Score(x, z, atHome, t, o) == SideScore(x, z, Goals(x, z, mpg_goals(x, z, atHome, t)), o)

\* The goals the players really scored, and those against their own side, do
\* not depend on the ratings.
LEMMA GoalsAlike ==
  ASSUME NEW x, NEW y, Counted(x), Stronger(y, x)
  PROVE  /\ Counted(y) /\ Sum(y, "goals") = Sum(x, "goals") /\ Sum(y, "own") = Sum(x, "own")
<1>1. Counted(y)
  BY DEF Counted, Stronger
<1>2. ASSUME NEW f \in {"goals", "own"} PROVE Sum(y, f) = Sum(x, f)
  <2> DEFINE g == [i \in DOMAIN x |-> x[i][f]]
             h == [i \in DOMAIN y |-> y[i][f]]
  <2>1. g = h
    BY DEF Stronger
  <2>2. Sum(x, f) = SumFunction(g) /\ Sum(y, f) = SumFunction(h)
    BY DEF Sum
  <2> HIDE DEF g, h
  <2>3. QED
    BY <2>1, <2>2
<1>3. QED
  BY <1>1, <1>2

\* A better eleven scores no less and concedes no more.
LEMMA StrongerScores ==
  ASSUME NEW x, NEW y, NEW z, Counted(x), Counted(z), Graded(x), Graded(y), Graded(z),
         Stronger(y, x), DOMAIN z \subseteq Nat, NEW atHome, NEW t, NEW o
  PROVE  /\ Score(x, z, atHome, t, o) <= Score(y, z, atHome, t, o)
         /\ Score(z, y, atHome, t, o) <= Score(z, x, atHome, t, o)
<1>1. /\ Counted(y) /\ Sum(y, "goals") = Sum(x, "goals") /\ Sum(y, "own") = Sum(x, "own")
  BY GoalsAlike
<1>2. Stronger(z, z)
  BY DEF Stronger, Graded
<1>3. AsHigh(z, z) /\ AsHigh(y, x)
  BY <1>2, StrongerIsAsHigh
<1> DEFINE m == mpg_goals(x, z, atHome, t)
           n == mpg_goals(y, z, atHome, t)
           u == mpg_goals(z, y, atHome, t)
           v == mpg_goals(z, x, atHome, t)
<1>4. m <= n /\ u <= v
  BY <1>2, <1>3, MoreScorers
<1>5. m \in Nat /\ n \in Nat /\ u \in Nat /\ v \in Nat
  BY <1>1, VirtualGoalsCounted
<1> HIDE DEF m, n, u, v
<1>6. Goals(y, z, n) = Goals(x, z, n)
  BY <1>1 DEF Goals
<1>7. Goals(z, y, u) = Goals(z, x, u)
  BY <1>1 DEF Goals
<1>8. /\ Goals(x, z, m) \in Tally /\ Goals(x, z, n) \in Tally
      /\ \A kind \in Kinds : Goals(x, z, m)[kind] <= Goals(x, z, n)[kind]
  BY <1>4, <1>5, GoalsCounted
<1>9. /\ Goals(z, x, u) \in Tally /\ Goals(z, x, v) \in Tally
      /\ \A kind \in Kinds : Goals(z, x, u)[kind] <= Goals(z, x, v)[kind]
  BY <1>4, <1>5, GoalsCounted
<1>10. SideScore(x, z, Goals(x, z, m), o) <= SideScore(x, z, Goals(x, z, n), o)
  BY <1>8, ScoreKeepsOrder DEF Counted
<1>11. SideScore(x, z, Goals(x, z, n), o) = SideScore(y, z, Goals(y, z, n), o)
  BY <1>6 DEF SideScore
<1>12. SideScore(z, y, Goals(z, y, u), o) <= SideScore(z, x, Goals(z, x, v), o)
  BY <1>7, <1>9, StrongerConcedes
<1>13. QED
  BY <1>10, <1>11, <1>12 DEF Score, m, n, u, v

\* At home or away.
LEMMA StrongerResult ==
  ASSUME NEW x, NEW y, NEW z, Counted(x), Counted(z), Graded(x), Graded(y), Graded(z),
         Stronger(y, x), DOMAIN z \subseteq Nat, NEW b, NEW t
  PROVE  /\ NoWorse(MatchResult(y, z, b, t), MatchResult(x, z, b, t))
         /\ NoWorse(MatchResult(z, x, b, t), MatchResult(z, y, b, t))
<1>1. ASSUME NEW h, NEW a
      PROVE  /\ MatchResult(h, a, b, t).home = Score(h, a, TRUE, t, b.away)
             /\ MatchResult(h, a, b, t).away = Score(a, h, FALSE, t, b.home)
  BY DEF MatchResult, Score
<1>2. /\ Score(x, z, TRUE, t, b.away) <= Score(y, z, TRUE, t, b.away)
      /\ Score(z, y, FALSE, t, b.home) <= Score(z, x, FALSE, t, b.home)
      /\ Score(x, z, FALSE, t, b.home) <= Score(y, z, FALSE, t, b.home)
      /\ Score(z, y, TRUE, t, b.away) <= Score(z, x, TRUE, t, b.away)
  BY StrongerScores
<1>3. QED
  BY <1>1, <1>2 DEF NoWorse

-----------------------------------------------------------------------------
(* A rating revised upwards *)

\* It is the rating of somebody who played.
Revised(sheet, p) == LegalSheet(sheet) /\ p \in Rated(sheet)

\* Nothing else about a player changes.
Alike(f, e) ==
  /\ f.id = e.id /\ f.ultra = e.ultra /\ f.started = e.started
  /\ f.neutralised = e.neutralised
  /\ Played(f) = Played(e)
  /\ effective_goals(f) = effective_goals(e) /\ effective_own(f) = effective_own(e)
  /\ effective_rating(e) \in Nat /\ effective_rating(f) \in Nat
  /\ effective_rating(f) >= effective_rating(e)

\* A lifted player is alike, and his rating is no lower.
LEMMA LiftedAlike ==
  ASSUME NEW e \in Entries, NEW p, e.id = p => e.rating # 0
  PROVE  Lifted(e, p) \in Entries /\ Alike(Lifted(e, p), e)
<1>1. /\ e.rating \in {0} \cup RATING_MIN..RATING_MAX /\ e.neutralised \in BOOLEAN
      /\ e.goals \in Nat /\ e.own \in Nat
  BY DEF Entries
<1>2. CASE e.id # p
  <2>1. Lifted(e, p) = e
    BY <1>2 DEF Lifted
  <2>2. effective_rating(e) \in Nat
    BY <1>1 DEF effective_rating, NEUTRAL_RATING, RATING_MIN, RATING_MAX
  <2> HIDE DEF Entries
  <2>3. QED
    BY <2>1, <2>2 DEF Alike
<1>3. CASE e.id = p
  <2> DEFINE r == Min({RATING_MAX, e.rating + 1})
             f == [e EXCEPT !.rating = r]
  <2>1. e.rating \in RATING_MIN..RATING_MAX /\ e.rating # 0
    BY <1>1, <1>3
  <2>2. r \in RATING_MIN..RATING_MAX /\ r >= e.rating /\ r # 0
    <3>1. RATING_MAX \in Int /\ e.rating + 1 \in Int
      BY <2>1 DEF RATING_MAX, RATING_MIN
    <3>2. r = IF RATING_MAX <= e.rating + 1 THEN RATING_MAX ELSE e.rating + 1
      BY <3>1, MinOfTwo
    <3> HIDE DEF r
    <3>3. QED
      BY <2>1, <3>2 DEF RATING_MAX, RATING_MIN
  <2>3. Lifted(e, p) = f
    BY <1>3 DEF Lifted
  <2> HIDE DEF r
  <2>4. f \in Entries
    BY <2>2 DEF Entries
  <2>5. /\ f.id = e.id /\ f.ultra = e.ultra /\ f.started = e.started
        /\ f.neutralised = e.neutralised /\ f.goals = e.goals /\ f.own = e.own
        /\ f.rating = r
    BY DEF Entries
  <2> HIDE DEF f
  <2>6. Played(f) = Played(e)
    BY <2>1, <2>2, <2>5 DEF Played
  <2>7. /\ effective_goals(f) = effective_goals(e) /\ effective_own(f) = effective_own(e)
    BY <2>5 DEF effective_goals, effective_own
  <2>8. /\ effective_rating(e) \in Nat /\ effective_rating(f) \in Nat
        /\ effective_rating(f) >= effective_rating(e)
    BY <2>1, <2>2, <2>5 DEF effective_rating, NEUTRAL_RATING, RATING_MIN, RATING_MAX
  <2>9. QED
    BY <2>3, <2>4, <2>5, <2>6, <2>7, <2>8 DEF Alike
<1>4. QED
  BY <1>2, <1>3

\* Everybody of the squad, and whoever stands in the same place.
LEMMA SquadLifted ==
  ASSUME NEW sheet, NEW p, Revised(sheet, p)
  PROVE  \A e \in Squad(sheet) : Lifted(e, p) \in Entries /\ Alike(Lifted(e, p), e)
<1> TAKE e \in Squad(sheet)
<1>1. LegalSheet(sheet) /\ p \in Rated(sheet)
  BY DEF Revised
<1>2. PICK f \in Squad(sheet) : f.id = p /\ f.rating # 0
  BY <1>1 DEF Rated, Squad
<1>3. e.id = p => e = f
  BY <1>1, <1>2, SheetFacts
<1>4. e \in Entries
  BY <1>1, SheetFacts
<1>5. QED
  BY <1>2, <1>3, <1>4, LiftedAlike

\* s is the sheet with everybody lifted, player by player.
IsRaised(s, sheet, p) ==
  /\ LegalSheet(sheet) /\ LegalSheet(s)
  /\ s.formation = sheet.formation /\ s.bonuses = sheet.bonuses
  /\ s.tactical = sheet.tactical
  /\ s.live_mode = sheet.live_mode /\ s.live_subs = sheet.live_subs
  /\ DOMAIN s.starters = DOMAIN sheet.starters
  /\ \A i \in DOMAIN sheet.starters : s.starters[i] = Lifted(sheet.starters[i], p)
  /\ DOMAIN s.bench = DOMAIN sheet.bench
  /\ \A i \in DOMAIN sheet.bench : s.bench[i] = Lifted(sheet.bench[i], p)
  /\ DOMAIN all_players(s) = DOMAIN all_players(sheet)
  /\ \A i \in DOMAIN all_players(sheet) :
       all_players(s)[i] = Lifted(all_players(sheet)[i], p)

\* The raised sheet is.
LEMMA RaisedSheet ==
  ASSUME NEW sheet, NEW p, Revised(sheet, p)
  PROVE  IsRaised(Raised(sheet, p), sheet, p)
<1> DEFINE s == Raised(sheet, p)
           up(q) == [i \in DOMAIN q |-> Lifted(q[i], p)]
           a == sheet.starters
           b == sheet.bench
<1>1. LegalSheet(sheet) /\ sheet \in TeamSheets
  BY DEF Revised, LegalSheet
<1>2. s = [sheet EXCEPT !.starters = up(a), !.bench = up(b)]
  BY DEF Raised
<1>3. a \in Seq(Entries) /\ b \in Seq(Entries)
  BY <1>1, SheetFacts
<1>4. \A e \in Squad(sheet) : Lifted(e, p) \in Entries /\ Alike(Lifted(e, p), e)
  BY SquadLifted
<1>5. /\ \A i \in DOMAIN a : a[i] \in Squad(sheet)
      /\ \A i \in DOMAIN b : b[i] \in Squad(sheet)
  BY <1>1, SheetFacts
<1>6. /\ up(a) \in Seq(Entries) /\ DOMAIN up(a) = DOMAIN a /\ Len(up(a)) = Len(a)
      /\ up(b) \in Seq(Entries) /\ DOMAIN up(b) = DOMAIN b /\ Len(up(b)) = Len(b)
  <2> HIDE DEF a, b
  <2>1. Len(a) \in Nat /\ DOMAIN a = 1..Len(a) /\ Len(b) \in Nat /\ DOMAIN b = 1..Len(b)
    BY <1>3
  <2>2. /\ \A i \in 1..Len(a) : Lifted(a[i], p) \in Entries
        /\ \A i \in 1..Len(b) : Lifted(b[i], p) \in Entries
    BY <1>4, <1>5, <2>1
  <2>3. QED
    BY <2>1, <2>2
<1>7. /\ s \in TeamSheets /\ s.starters = up(a) /\ s.bench = up(b)
      /\ s.formation = sheet.formation /\ s.bonuses = sheet.bonuses
      /\ s.tactical = sheet.tactical
      /\ s.live_mode = sheet.live_mode /\ s.live_subs = sheet.live_subs
  <2> HIDE DEF s, up
  <2>1. QED
    BY <1>1, <1>2, <1>6 DEF TeamSheets
<1>8. all_players(s) = up(all_players(sheet))
  <2>1. all_players(s) = up(a) \o up(b) /\ all_players(sheet) = a \o b
    BY <1>7 DEF all_players
  <2> HIDE DEF s, a, b
  <2>2. up(a) \o up(b) = up(a \o b)
    <3>1. Len(a) \in Nat /\ DOMAIN a = 1..Len(a) /\ Len(b) \in Nat /\ DOMAIN b = 1..Len(b)
      BY <1>3
    <3>2. /\ DOMAIN (a \o b) = 1..(Len(a) + Len(b))
          /\ \A i \in 1..(Len(a) + Len(b)) :
               (a \o b)[i] = IF i <= Len(a) THEN a[i] ELSE b[i - Len(a)]
      BY <1>3
    <3> DEFINE c == up(a)
               d == up(b)
               cd == c \o d
               ab == a \o b
    <3>3. /\ c \in Seq(Entries) /\ d \in Seq(Entries) /\ Len(c) = Len(a) /\ Len(d) = Len(b)
          /\ \A i \in DOMAIN a : c[i] = Lifted(a[i], p)
          /\ \A i \in DOMAIN b : d[i] = Lifted(b[i], p)
      BY <1>6
    <3> HIDE DEF c, d
    <3>4. /\ cd \in Seq(Entries) /\ DOMAIN cd = 1..(Len(a) + Len(b))
          /\ \A i \in 1..(Len(a) + Len(b)) :
               cd[i] = IF i <= Len(a) THEN c[i] ELSE d[i - Len(a)]
      <4>1. c \in Seq(Entries) /\ d \in Seq(Entries)
        BY <3>3
      <4>2. /\ cd \in Seq(Entries) /\ Len(cd) = Len(c) + Len(d)
            /\ \A i \in 1..(Len(c) + Len(d)) :
                 cd[i] = IF i <= Len(c) THEN c[i] ELSE d[i - Len(c)]
        BY <4>1, ConcatProperties
      <4>3. Len(c) = Len(a) /\ Len(d) = Len(b)
        BY <3>3
      <4> HIDE DEF cd
      <4>4. DOMAIN cd = 1..Len(cd)
        BY <4>2
      <4>5. QED
        BY <4>2, <4>3, <4>4
    <3> HIDE DEF cd
    <3>5. ASSUME NEW i \in 1..(Len(a) + Len(b))
          PROVE  cd[i] = Lifted((a \o b)[i], p)
      <4>1. CASE i <= Len(a)
        <5>1. i \in DOMAIN a
          BY <3>1, <4>1
        <5>2. QED
          BY <3>2, <3>3, <3>4, <4>1, <5>1
      <4>2. CASE ~(i <= Len(a))
        <5>1. i - Len(a) \in DOMAIN b
          BY <3>1, <4>2
        <5>2. QED
          BY <3>2, <3>3, <3>4, <4>2, <5>1
      <4>3. QED
        BY <4>1, <4>2
    <3>6. cd = [i \in DOMAIN cd |-> cd[i]]
      BY <3>4
    <3>7. up(ab) = cd
      <4>1. DOMAIN cd = DOMAIN ab
        BY <3>2, <3>4
      <4>2. \A i \in DOMAIN cd : cd[i] = Lifted(ab[i], p)
        BY <3>4, <3>5
      <4> HIDE DEF ab
      <4>3. QED
        BY <3>6, <4>1, <4>2
    <3>8. QED
      BY <3>7 DEF c, d, cd
  <2>3. QED
    BY <2>1, <2>2
<1>9. LegalSheet(s)
  <2> DEFINE all == all_players(sheet)
  <2>1. \A i \in DOMAIN all : all[i] \in Squad(sheet) /\ Alike(Lifted(all[i], p), all[i])
    BY <1>4 DEF Squad, ToSet
  <2>2. DOMAIN all_players(s) = DOMAIN all
        /\ \A i \in DOMAIN all : all_players(s)[i] = Lifted(all[i], p)
    BY <1>8
  <2>3. \A i \in DOMAIN all : /\ all_players(s)[i].id = all[i].id
                              /\ all_players(s)[i].ultra = all[i].ultra
    BY <2>1, <2>2 DEF Alike
  <2> HIDE DEF s
  <2>4. \A e \in ToSet(all_players(s)) : line_of(e.ultra) \in Lines
    <3>1. \A i \in DOMAIN all : line_of(all[i].ultra) \in Lines
      BY <1>1 DEF LegalSheet, ToSet
    <3>2. QED
      BY <2>2, <2>3, <3>1 DEF ToSet
  <2>5. \A i, j \in DOMAIN all_players(s) :
          all_players(s)[i].id = all_players(s)[j].id => i = j
    <3>1. \A i, j \in DOMAIN all : all[i].id = all[j].id => i = j
      BY <1>1 DEF LegalSheet
    <3> HIDE DEF all
    <3>2. QED
      BY <2>2, <2>3, <3>1
  <2>6. [i \in DOMAIN s.starters |-> line_of(s.starters[i].ultra)]
          = [i \in DOMAIN a |-> line_of(a[i].ultra)]
    <3>1. \A i \in DOMAIN a : Lifted(a[i], p).ultra = a[i].ultra
      BY <1>4, <1>5 DEF Alike
    <3>2. DOMAIN s.starters = DOMAIN a /\ \A i \in DOMAIN a : s.starters[i] = Lifted(a[i], p)
      BY <1>7
    <3> HIDE DEF a
    <3>3. QED
      BY <3>1, <3>2
  <2>7. QED
    BY <1>1, <1>7, <2>4, <2>5, <2>6 DEF LegalSheet
<1>10. /\ DOMAIN all_players(s) = DOMAIN all_players(sheet)
       /\ \A i \in DOMAIN all_players(sheet) :
            all_players(s)[i] = Lifted(all_players(sheet)[i], p)
  BY <1>8
<1>11. /\ DOMAIN s.starters = DOMAIN sheet.starters
       /\ \A i \in DOMAIN sheet.starters : s.starters[i] = Lifted(sheet.starters[i], p)
       /\ DOMAIN s.bench = DOMAIN sheet.bench
       /\ \A i \in DOMAIN sheet.bench : s.bench[i] = Lifted(sheet.bench[i], p)
  BY <1>7
<1> HIDE DEF s, up, a, b
<1>12. IsRaised(s, sheet, p)
  BY <1>1, <1>7, <1>9, <1>10, <1>11 DEF IsRaised
<1>13. QED
  BY <1>12 DEF s

-----------------------------------------------------------------------------
(* The seats of a raised sheet *)

\* The same seats, the player raised wherever he sits.
LiftSeats(seats, p) == [i \in DOMAIN seats |-> [seats[i] EXCEPT !.player = Lifted(@, p)]]

\* Where the substitutions of the raised sheet stand when those of the sheet
\* stand at acc.
Twin(t, acc, p) == t.used = acc.used /\ t.seats = LiftSeats(acc.seats, p)

\* t are those seats, seat by seat.
AreLifted(t, seats, p) ==
  /\ DOMAIN t = 1..Starters
  /\ \A i \in 1..Starters :
       /\ t[i] = [slot |-> seats[i].slot, player |-> Lifted(seats[i].player, p),
                  penalty |-> seats[i].penalty]
       /\ t[i].slot = seats[i].slot /\ t[i].penalty = seats[i].penalty
       /\ t[i].player = Lifted(seats[i].player, p)
       /\ Alike(t[i].player, seats[i].player)

\* The lifted seats are the seats, each with its player lifted.
LEMMA LiftedSeats ==
  ASSUME NEW sheet, NEW p, Revised(sheet, p),
         NEW seats, seats \in [1..Starters -> Chair(sheet)]
  PROVE  AreLifted(LiftSeats(seats, p), seats, p)
<1> DEFINE t == LiftSeats(seats, p)
<1>1. DOMAIN t = 1..Starters
  BY DEF LiftSeats
<1>2. ASSUME NEW i \in 1..Starters
      PROVE  /\ t[i] = [slot |-> seats[i].slot, player |-> Lifted(seats[i].player, p),
                        penalty |-> seats[i].penalty]
             /\ Alike(Lifted(seats[i].player, p), seats[i].player)
  <2> DEFINE c == seats[i]
             e == c.player
  <2>1. c \in Chair(sheet) /\ e \in Squad(sheet)
    BY DEF Chair
  <2>2. Alike(Lifted(e, p), e)
    BY <2>1, SquadLifted
  <2>3. t[i] = [c EXCEPT !.player = Lifted(e, p)]
    BY DEF LiftSeats
  <2> HIDE DEF c, t
  <2>4. t[i] = [slot |-> c.slot, player |-> Lifted(e, p), penalty |-> c.penalty]
    BY <2>1, <2>3 DEF Chair
  <2>5. QED
    BY <2>2, <2>4 DEF c, t
<1> HIDE DEF t
<1>3. ASSUME NEW i \in 1..Starters
      PROVE  /\ t[i].slot = seats[i].slot /\ t[i].penalty = seats[i].penalty
             /\ t[i].player = Lifted(seats[i].player, p)
  <2> DEFINE e == Lifted(seats[i].player, p)
             l == seats[i].slot
             n == seats[i].penalty
             c == t[i]
  <2>1. c = [slot |-> l, player |-> e, penalty |-> n]
    BY <1>2
  <2> HIDE DEF e, l, n, c
  <2>2. c.slot = l /\ c.penalty = n /\ c.player = e
    BY <2>1
  <2>3. QED
    BY <2>2 DEF e, l, n, c
<1>4. QED
  BY <1>1, <1>2, <1>3 DEF t, AreLifted

\* Seats with the same slots, players raised and penalties are the lifted ones.
Relabelled(u, seats, p) ==
  /\ DOMAIN u = 1..Starters /\ u = [i \in DOMAIN u |-> u[i]]
  /\ \A i \in 1..Starters :
       u[i] = [slot |-> seats[i].slot, player |-> Lifted(seats[i].player, p),
               penalty |-> seats[i].penalty]

\* Relabelled seats are the lifted ones.
LEMMA LiftsTo ==
  ASSUME NEW sheet, NEW p, Revised(sheet, p),
         NEW seats, seats \in [1..Starters -> Chair(sheet)],
         NEW u, Relabelled(u, seats, p)
  PROVE  u = LiftSeats(seats, p)
<1> DEFINE t == LiftSeats(seats, p)
<1>1. t = [i \in DOMAIN t |-> t[i]]
  BY DEF LiftSeats
<1>2. AreLifted(t, seats, p)
  BY LiftedSeats
<1> HIDE DEF t
<1>3. /\ DOMAIN t = 1..Starters /\ DOMAIN u = 1..Starters /\ u = [i \in DOMAIN u |-> u[i]]
      /\ \A i \in 1..Starters : t[i] = u[i]
  BY <1>2 DEF AreLifted, Relabelled
<1>4. QED
  BY <1>1, <1>3 DEF t

\* At the kickoff.
LEMMA KickoffTwin ==
  ASSUME NEW sheet, NEW p, Revised(sheet, p)
  PROVE  Twin(Kickoff(SeatStarters(Raised(sheet, p))), Kickoff(SeatStarters(sheet)), p)
<1> DEFINE s == Raised(sheet, p)
           slots == SlotLines(sheet)
           lines == LinesOf(sheet)
           who(i) == Taker(slots, lines, i)
           seats == SeatStarters(sheet)
           u == SeatStarters(s)
<1>0. IsRaised(s, sheet, p)
  BY RaisedSheet
<1> HIDE DEF s
<1>1. /\ LegalSheet(sheet) /\ LegalSheet(s) /\ s.formation = sheet.formation
      /\ DOMAIN s.starters = DOMAIN sheet.starters
      /\ \A i \in DOMAIN sheet.starters : s.starters[i] = Lifted(sheet.starters[i], p)
  BY <1>0 DEF IsRaised
<1>2. SlotLines(s) = slots
  BY <1>1, SheetFacts DEF SlotLines
<1>3. LinesOf(s) = lines
  <2>1. \A k \in DOMAIN sheet.starters :
          Lifted(sheet.starters[k], p).ultra = sheet.starters[k].ultra
    BY <1>1, SheetFacts, SquadLifted DEF Alike
  <2>2. QED
    BY <1>1, <2>1 DEF LinesOf
<1>4. /\ seats = [i \in 1..Starters |-> Seat(slots[i], sheet.starters[who(i)])]
      /\ \A i \in 1..Starters : who(i) \in DOMAIN sheet.starters
  BY <1>1, SeatedInOrder
<1>5. u = [i \in 1..Starters |-> Seat(slots[i], s.starters[who(i)])]
  <2>1. u = [i \in 1..Starters |->
               Seat(SlotLines(s)[i], s.starters[Taker(SlotLines(s), LinesOf(s), i)])]
    BY <1>1, SeatedInOrder
  <2> HIDE DEF s, slots, lines
  <2>2. QED
    BY <1>2, <1>3, <2>1
<1>6. seats \in [1..Starters -> Chair(sheet)] /\ Starters \in Nat
  BY <1>1, Seating DEF Arranged
<1> HIDE DEF s, slots, lines, who, seats, u
<1>7. ASSUME NEW i \in 1..Starters
      PROVE  u[i] = [slot |-> seats[i].slot, player |-> Lifted(seats[i].player, p),
                     penalty |-> seats[i].penalty]
  <2> DEFINE e == sheet.starters[who(i)]
  <2>1. s.starters[who(i)] = Lifted(e, p)
    BY <1>1, <1>4
  <2>2. seats[i] = Seat(slots[i], e) /\ u[i] = Seat(slots[i], Lifted(e, p))
    BY <1>4, <1>5, <2>1
  <2> HIDE DEF e
  <2>3. seats[i] = [slot |-> slots[i], player |-> e, penalty |-> 0]
        /\ u[i] = [slot |-> slots[i], player |-> Lifted(e, p), penalty |-> 0]
    BY <2>2 DEF Seat
  <2>4. QED
    BY <2>3
<1>8. u = LiftSeats(seats, p)
  <2>1. DOMAIN u = 1..Starters /\ u = [i \in DOMAIN u |-> u[i]]
    BY <1>5
  <2>2. Relabelled(u, seats, p)
    BY <1>7, <2>1 DEF Relabelled
  <2>3. QED
    BY <1>6, <2>2, LiftsTo
<1>9. {u[i].player.id : i \in DOMAIN u} = {seats[i].player.id : i \in DOMAIN seats}
  <2>1. DOMAIN u = 1..Starters /\ DOMAIN seats = 1..Starters
    BY <1>4, <1>5
  <2>2. \A i \in 1..Starters : Alike(u[i].player, seats[i].player)
    BY <1>6, <1>8, LiftedSeats DEF AreLifted
  <2>3. \A i \in 1..Starters : u[i].player.id = seats[i].player.id
    BY <2>2 DEF Alike
  <2>4. QED
    BY <2>1, <2>3
<1>10. QED
  BY <1>8, <1>9 DEF Twin, Kickoff, u, seats, s

\* The bench has one candidate at most for a slot.
LEMMA ChoiceIsOne ==
  ASSUME NEW slot \in Lines, NEW occupant, NEW bench, NEW used, DOMAIN bench \subseteq Nat,
         \A k \in DOMAIN bench : line_of(bench[k].ultra) \in Lines
  PROVE  \A x, y \in mandatory_sub(slot, occupant, bench, used) : x = y
<1> DEFINE all == Eligible(bench, used, slot)
           distance(i) == line_distance(line_of(bench[i].ultra), slot)
           same == {i \in all : occupant # Nobody /\ bench[i].ultra = occupant.ultra}
           line == {i \in all : line_of(bench[i].ultra) = slot}
           lower == {i \in all : line_of(bench[i].ultra) > slot}
           others == IF Flags.mandatory_sub_direction = "lower" /\ lower # {}
                     THEN lower ELSE all
           nearest == {i \in others : \A j \in others :
                         distance(i) < distance(j) \/ (distance(i) = distance(j) /\ i <= j)}
<1>1. mandatory_sub(slot, occupant, bench, used)
        = IF same # {} THEN {<<bench[Min(same)], 0>>}
          ELSE IF line # {} THEN {<<bench[Min(line)], 0>>}
          ELSE {<<bench[i], -2 * distance(i)>> : i \in nearest}
  BY DEF mandatory_sub
<1>2. all \subseteq DOMAIN bench
  BY DEF Eligible
<1>3. \A i \in all : distance(i) \in Nat
  BY <1>2 DEF line_distance, Lines, G, D, M, A
<1>4. others \subseteq all
  OBVIOUS
<1>5. \A i, j \in nearest : i = j
  <2> SUFFICES ASSUME NEW i \in nearest, NEW j \in nearest PROVE i = j
    OBVIOUS
  <2>1. /\ i \in Nat /\ j \in Nat /\ distance(i) \in Nat /\ distance(j) \in Nat
    BY <1>2, <1>3, <1>4
  <2>2. /\ distance(i) < distance(j) \/ (distance(i) = distance(j) /\ i <= j)
        /\ distance(j) < distance(i) \/ (distance(j) = distance(i) /\ j <= i)
    OBVIOUS
  <2> HIDE DEF distance, nearest
  <2>3. QED
    BY <2>1, <2>2
<1> HIDE DEF same, line, nearest, distance
<1>6. QED
  BY <1>1, <1>5

\* Candidates, raised.
LiftChoice(choice, p) == {<<Lifted(x[1], p), x[2]>> : x \in choice}

\* The raised bench has the same candidate for a slot, raised.
LEMMA ChoiceTwin ==
  ASSUME NEW p, NEW slot, NEW used, NEW o, NEW f, o # Nobody, f # Nobody, f.ultra = o.ultra,
         NEW b, NEW c, DOMAIN b \subseteq Nat, DOMAIN c = DOMAIN b,
         \A k \in DOMAIN b : c[k] = Lifted(b[k], p) /\ Alike(c[k], b[k])
  PROVE  mandatory_sub(slot, f, c, used)
           = LiftChoice(mandatory_sub(slot, o, b, used), p)
<1> DEFINE all(z) == Eligible(z, used, slot)
           distance(z, i) == line_distance(line_of(z[i].ultra), slot)
           same(z, q) == {i \in all(z) : q # Nobody /\ z[i].ultra = q.ultra}
           line(z) == {i \in all(z) : line_of(z[i].ultra) = slot}
           lower(z) == {i \in all(z) : line_of(z[i].ultra) > slot}
           others(z) == IF Flags.mandatory_sub_direction = "lower" /\ lower(z) # {}
                        THEN lower(z) ELSE all(z)
           nearest(z) == {i \in others(z) : \A j \in others(z) :
                            \/ distance(z, i) < distance(z, j)
                            \/ distance(z, i) = distance(z, j) /\ i <= j}
           pick(z, q) == IF same(z, q) # {} THEN {<<z[Min(same(z, q))], 0>>}
                         ELSE IF line(z) # {} THEN {<<z[Min(line(z))], 0>>}
                         ELSE {<<z[i], -2 * distance(z, i)>> : i \in nearest(z)}
<1>1. mandatory_sub(slot, f, c, used) = pick(c, f) /\ mandatory_sub(slot, o, b, used) = pick(b, o)
  BY DEF mandatory_sub
<1>2. \A k \in DOMAIN b : /\ c[k].id = b[k].id /\ c[k].ultra = b[k].ultra
                          /\ c[k].neutralised = b[k].neutralised /\ Played(c[k]) = Played(b[k])
  BY DEF Alike
<1>3. all(c) = all(b) /\ all(b) \subseteq DOMAIN b
  BY <1>2 DEF Eligible
<1>4. \A i \in all(b) : c[i].ultra = b[i].ultra /\ distance(c, i) = distance(b, i)
  BY <1>2, <1>3
<1> HIDE DEF all, distance
<1>5. same(c, f) = same(b, o) /\ line(c) = line(b) /\ lower(c) = lower(b)
  BY <1>3, <1>4
<1>6. others(c) = others(b) /\ others(b) \subseteq all(b)
  BY <1>3, <1>5
<1> HIDE DEF others
<1>7. nearest(c) = nearest(b) /\ nearest(b) \subseteq all(b)
  BY <1>4, <1>6
<1>8. same(b, o) # {} => Min(same(b, o)) \in DOMAIN b
  <2>1. same(b, o) \subseteq DOMAIN b /\ same(b, o) \subseteq Nat
    BY <1>3
  <2> HIDE DEF same
  <2>2. QED
    BY <2>1, MinIsIn
<1>9. line(b) # {} => Min(line(b)) \in DOMAIN b
  <2>1. line(b) \subseteq DOMAIN b /\ line(b) \subseteq Nat
    BY <1>3
  <2> HIDE DEF line
  <2>2. QED
    BY <2>1, MinIsIn
<1> HIDE DEF same, line, nearest
<1>10. CASE same(b, o) # {}
  <2> DEFINE i == Min(same(b, o))
  <2>1. pick(c, f) = {<<c[i], 0>>} /\ pick(b, o) = {<<b[i], 0>>}
    BY <1>5, <1>10
  <2>2. c[i] = Lifted(b[i], p)
    BY <1>8, <1>10
  <2> HIDE DEF i, pick
  <2>3. QED
    BY <1>1, <2>1, <2>2 DEF LiftChoice
<1>11. CASE same(b, o) = {} /\ line(b) # {}
  <2> DEFINE i == Min(line(b))
  <2>1. pick(c, f) = {<<c[i], 0>>} /\ pick(b, o) = {<<b[i], 0>>}
    BY <1>5, <1>11
  <2>2. c[i] = Lifted(b[i], p)
    BY <1>9, <1>11
  <2> HIDE DEF i, pick
  <2>3. QED
    BY <1>1, <2>1, <2>2 DEF LiftChoice
<1>12. CASE same(b, o) = {} /\ line(b) = {}
  <2> DEFINE N == nearest(b)
  <2>1. /\ pick(c, f) = {<<c[i], -2 * distance(c, i)>> : i \in N}
        /\ pick(b, o) = {<<b[i], -2 * distance(b, i)>> : i \in N}
    BY <1>5, <1>7, <1>12
  <2>2. \A i \in N : c[i] = Lifted(b[i], p) /\ distance(c, i) = distance(b, i)
    BY <1>3, <1>4, <1>7
  <2> HIDE DEF N, pick
  <2>3. pick(c, f) = {<<Lifted(b[i], p), -2 * distance(b, i)>> : i \in N}
    BY <2>1, <2>2
  <2>4. LiftChoice(pick(b, o), p)
          = {<<Lifted(b[i], p), -2 * distance(b, i)>> : i \in N}
    <3> DEFINE cost(i) == -2 * distance(b, i)
               X == pick(b, o)
    <3>1. X = {<<b[i], cost(i)>> : i \in N}
      BY <2>1
    <3> HIDE DEF cost, X
    <3>2. LiftChoice(X, p) \subseteq {<<Lifted(b[i], p), cost(i)>> : i \in N}
      <4>1. ASSUME NEW x \in X
            PROVE  \E i \in N : <<Lifted(x[1], p), x[2]>> = <<Lifted(b[i], p), cost(i)>>
        <5>1. PICK i \in N : x = <<b[i], cost(i)>>
          BY <3>1
        <5>2. x[1] = b[i] /\ x[2] = cost(i)
          BY <5>1
        <5>3. QED
          BY <5>2
      <4>2. QED
        BY <4>1 DEF LiftChoice
    <3>3. {<<Lifted(b[i], p), cost(i)>> : i \in N} \subseteq LiftChoice(X, p)
      <4>1. ASSUME NEW i \in N
            PROVE  \E x \in X : <<Lifted(x[1], p), x[2]>> = <<Lifted(b[i], p), cost(i)>>
        <5> DEFINE x == <<b[i], cost(i)>>
        <5>1. x \in X /\ x[1] = b[i] /\ x[2] = cost(i)
          BY <3>1
        <5> HIDE DEF x
        <5>2. <<Lifted(x[1], p), x[2]>> = <<Lifted(b[i], p), cost(i)>>
          BY <5>1
        <5>3. QED
          BY <5>1, <5>2
      <4>2. QED
        BY <4>1 DEF LiftChoice
    <3>4. QED
      BY <3>2, <3>3 DEF cost, X
  <2>5. QED
    BY <1>1, <2>3, <2>4
<1>13. QED
  BY <1>10, <1>11, <1>12

\* Two fields of a seat rewritten.
Reseat(r, g, m) == [r EXCEPT !.player = g, !.penalty = m]

\* What the fields of such a seat are.
LEMMA Reseated ==
  ASSUME NEW l, NEW f, NEW k, NEW g, NEW m, NEW r,
         r = [slot |-> l, player |-> f, penalty |-> k]
  PROVE  Reseat(r, g, m) = [slot |-> l, player |-> g, penalty |-> m]
<1> DEFINE q == [r EXCEPT !.player = g]
<1>1. q = [slot |-> l, player |-> g, penalty |-> k]
  OBVIOUS
<1>2. [r EXCEPT !.player = g, !.penalty = m] = [q EXCEPT !.penalty = m]
  OBVIOUS
<1> HIDE DEF q
<1>3. [q EXCEPT !.penalty = m] = [slot |-> l, player |-> g, penalty |-> m]
  BY <1>1
<1>4. QED
  BY <1>2, <1>3 DEF Reseat

\* The same seat is filled, by the same player.
LEMMA FillTwin ==
  ASSUME NEW sheet, NEW p, Revised(sheet, p), NEW acc, Accounted(sheet, acc),
         Starters \in Nat, NEW t, Twin(t, acc, p), NEW n \in 1..Starters
  PROVE  Twin(FillSeat(Raised(sheet, p), t, n), FillSeat(sheet, acc, n), p)
<1> DEFINE s == Raised(sheet, p)
<1>1. IsRaised(s, sheet, p)
  BY RaisedSheet
<1> HIDE DEF s
<1>2. /\ LegalSheet(sheet) /\ s.live_mode = sheet.live_mode
      /\ DOMAIN s.bench = DOMAIN sheet.bench
      /\ \A i \in DOMAIN sheet.bench : s.bench[i] = Lifted(sheet.bench[i], p)
  BY <1>1 DEF IsRaised
<1>3. /\ DOMAIN sheet.bench \subseteq Nat
      /\ \A k \in DOMAIN sheet.bench : /\ line_of(sheet.bench[k].ultra) \in Lines
                                       /\ sheet.bench[k] \in Squad(sheet)
                                       /\ Alike(s.bench[k], sheet.bench[k])
  BY <1>2, SheetFacts, SquadLifted
<1> DEFINE a == acc.seats
           u == t.seats
           seat == a[n]
           chair == u[n]
           o == seat.player
           f == chair.player
           found == mandatory_sub(seat.slot, o, sheet.bench, acc.used)
           lifted == mandatory_sub(chair.slot, f, s.bench, t.used)
           sub == CHOOSE x \in found : TRUE
           subt == CHOOSE x \in lifted : TRUE
           next == FillSeat(sheet, acc, n)
           nextt == FillSeat(s, t, n)
<1>4. /\ a \in [1..Starters -> Chair(sheet)] /\ AreLifted(u, a, p) /\ u = LiftSeats(a, p)
      /\ t.used = acc.used
  BY LiftedSeats DEF Twin, Accounted, Arranged
<1>5. seat \in Chair(sheet) /\ seat.slot \in Lines /\ o \in Squad(sheet)
  BY <1>4 DEF Chair
<1>6. /\ chair = [slot |-> seat.slot, player |-> f, penalty |-> seat.penalty]
      /\ chair.slot = seat.slot /\ f = Lifted(o, p) /\ Alike(f, o)
  BY <1>4 DEF AreLifted
<1>7. Played(f) = Played(o) /\ f.ultra = o.ultra /\ f.id = o.id /\ o # Nobody /\ f # Nobody
  <2>1. o.id # 0
    BY <1>2, <1>5, SheetFacts
  <2>2. Played(f) = Played(o) /\ f.ultra = o.ultra /\ f.id = o.id
    BY <1>6 DEF Alike
  <2> HIDE DEF o, f
  <2>3. QED
    BY <2>1, <2>2 DEF Nobody
<1>8. lifted = LiftChoice(found, p)
  <2>1. \A k \in DOMAIN sheet.bench : /\ s.bench[k] = Lifted(sheet.bench[k], p)
                                      /\ Alike(s.bench[k], sheet.bench[k])
    BY <1>2, <1>3
  <2> HIDE DEF seat, o, f, chair
  <2>2. QED
    BY <1>2, <1>3, <1>4, <1>6, <1>7, <2>1, ChoiceTwin
<1>9. /\ next = IF Played(o) \/ (sheet.live_mode /\ seat.slot # G) \/ found = {} THEN acc
                ELSE [seats |-> [a EXCEPT
                                   ![n] = [seat EXCEPT !.player = sub[1], !.penalty = sub[2]]],
                      used |-> (acc.used \cup {sub[1].id}) \ {o.id}]
      /\ nextt = IF Played(f) \/ (s.live_mode /\ chair.slot # G) \/ lifted = {} THEN t
                 ELSE [seats |-> [u EXCEPT
                                   ![n] = [chair EXCEPT !.player = subt[1], !.penalty = subt[2]]],
                       used |-> (t.used \cup {subt[1].id}) \ {f.id}]
  BY DEF FillSeat
<1>10. Accounted(sheet, next)
  BY <1>2, FillingKeepsAccounts
<1>11. next.seats \in [1..Starters -> Chair(sheet)]
  BY <1>10 DEF Accounted, Arranged
<1>12. \A x \in found : x[1] \in Squad(sheet) /\ Alike(Lifted(x[1], p), x[1])
  <2>1. \A x \in found : \E k \in Eligible(sheet.bench, acc.used, seat.slot) : x[1] = sheet.bench[k]
    BY <1>3, <1>5, BenchChoice
  <2>2. \A x \in found : x[1] \in Squad(sheet)
    BY <1>3, <2>1 DEF Eligible
  <2>3. QED
    BY <2>2, SquadLifted
<1>13. \A x, y \in found : x = y
  BY <1>3, <1>5, ChoiceIsOne
<1> HIDE DEF a, u, seat, chair, o, f, found, lifted, sub, subt, next, nextt
<1>14. CASE Played(o) \/ (sheet.live_mode /\ seat.slot # G) \/ found = {}
  <2>1. lifted = {} <=> found = {}
    BY <1>8 DEF LiftChoice
  <2>2. next = acc /\ nextt = t
    BY <1>2, <1>6, <1>7, <1>9, <1>14, <2>1
  <2>3. QED
    BY <2>2 DEF next, nextt, s
<1>15. CASE ~(Played(o) \/ (sheet.live_mode /\ seat.slot # G) \/ found = {})
  <2> DEFINE e == sub[1]
             m == sub[2]
             g == Lifted(e, p)
  <2>1. sub \in found /\ lifted = {<<g, m>>}
    <3>1. sub \in found
      BY <1>15 DEF sub
    <3>2. found = {sub}
      BY <1>13, <3>1
    <3>3. QED
      BY <1>8, <3>1, <3>2 DEF LiftChoice
  <2>2. subt = <<g, m>> /\ subt[1] = g /\ subt[2] = m
    BY <2>1 DEF subt
  <2>3. e \in Squad(sheet) /\ g.id = e.id
    BY <1>12, <2>1 DEF Alike
  <2> HIDE DEF e, m, g
  <2> DEFINE c == [seat EXCEPT !.player = e, !.penalty = m]
             d == [chair EXCEPT !.player = g, !.penalty = m]
  <2>4. /\ next.seats = [a EXCEPT ![n] = c] /\ next.used = (acc.used \cup {e.id}) \ {o.id}
        /\ nextt.seats = [u EXCEPT ![n] = d] /\ nextt.used = (t.used \cup {g.id}) \ {f.id}
    <3>1. next = [seats |-> [a EXCEPT ![n] = c], used |-> (acc.used \cup {e.id}) \ {o.id}]
      BY <1>9, <1>15 DEF e, m
    <3>2. nextt = [seats |-> [u EXCEPT ![n] = d], used |-> (t.used \cup {g.id}) \ {f.id}]
      <4>1. lifted # {}
        BY <2>1
      <4>2. QED
        BY <1>2, <1>6, <1>7, <1>9, <1>15, <2>2, <4>1
    <3> HIDE DEF c, d
    <3>3. QED
      BY <3>1, <3>2
  <2>5. nextt.used = next.used
    BY <1>4, <1>7, <2>3, <2>4
  <2>6. c = [slot |-> seat.slot, player |-> e, penalty |-> m]
        /\ d = [slot |-> seat.slot, player |-> g, penalty |-> m]
    <3>1. chair = [slot |-> seat.slot, player |-> f, penalty |-> seat.penalty]
      BY <1>6
    <3>2. seat = [slot |-> seat.slot, player |-> o, penalty |-> seat.penalty]
      BY <1>5 DEF Chair, o
    <3> HIDE DEF c, d
    <3>3. c = [slot |-> seat.slot, player |-> e, penalty |-> m]
      <4>1. c = Reseat(seat, e, m)
        BY DEF c, Reseat
      <4>2. QED
        BY <3>2, <4>1, Reseated
    <3>4. d = [slot |-> seat.slot, player |-> g, penalty |-> m]
      <4>1. d = Reseat(chair, g, m)
        BY DEF d, Reseat
      <4>2. QED
        BY <3>1, <4>1, Reseated
    <3>5. QED
      BY <3>3, <3>4
  <2>7. c.slot = seat.slot /\ c.player = e /\ c.penalty = m
    BY <2>6
  <2> HIDE DEF c, d
  <2>8. Relabelled(nextt.seats, next.seats, p)
    <3> DEFINE v == nextt.seats
               w == next.seats
    <3>1. DOMAIN a = 1..Starters /\ DOMAIN u = 1..Starters
      BY <1>4 DEF AreLifted
    <3>2. v = [u EXCEPT ![n] = d] /\ w = [a EXCEPT ![n] = c]
      BY <2>4
    <3> HIDE DEF v, w
    <3>3. /\ DOMAIN v = 1..Starters /\ v = [i \in DOMAIN v |-> v[i]]
          /\ v[n] = d /\ w[n] = c
          /\ \A i \in 1..Starters : i # n => v[i] = u[i] /\ w[i] = a[i]
      BY <3>1, <3>2
    <3>4. ASSUME NEW i \in 1..Starters
          PROVE  v[i] = [slot |-> w[i].slot, player |-> Lifted(w[i].player, p),
                         penalty |-> w[i].penalty]
      <4>1. CASE i = n
        BY <2>6, <2>7, <3>3, <4>1 DEF g
      <4>2. CASE i # n
        BY <1>4, <3>3, <4>2 DEF AreLifted
      <4>3. QED
        BY <4>1, <4>2
    <3>5. Relabelled(v, w, p)
      BY <3>3, <3>4 DEF Relabelled
    <3>6. QED
      BY <3>5 DEF v, w
  <2>9. nextt.seats = LiftSeats(next.seats, p)
    BY <1>11, <2>8, LiftsTo
  <2>10. QED
    BY <2>5, <2>9 DEF Twin, next, nextt, s
<1>16. QED
  BY <1>14, <1>15

\* A raised player sits where he sat.
LEMMA SeatOfTwin ==
  ASSUME NEW a, NEW u, DOMAIN a = 1..Starters, DOMAIN u = 1..Starters,
         \A i \in 1..Starters : u[i].player.id = a[i].player.id, NEW q
  PROVE  SeatOf(u, q) = SeatOf(a, q) /\ \A i, j \in SeatOf(a, q) : i = j
<1> DEFINE his(z) == {i \in DOMAIN z : z[i].player.id = q}
<1>1. his(u) = his(a)
  OBVIOUS
<1>2. \A z : SeatOf(z, q) = IF his(z) = {} THEN {} ELSE {Min(his(z))}
  BY DEF SeatOf
<1> HIDE DEF his
<1>3. SeatOf(u, q) = SeatOf(a, q)
  BY <1>1, <1>2
<1>4. \A i, j \in SeatOf(a, q) : i = j
  BY <1>2
<1>5. QED
  BY <1>3, <1>4

\* The squad of the raised sheet is the squad, raised.
LEMMA ByIdTwin ==
  ASSUME NEW sheet, NEW p, Revised(sheet, p), NEW s, IsRaised(s, sheet, p), NEW q
  PROVE  /\ \A e \in ById(all_players(sheet), q) :
              /\ e \in Squad(sheet) /\ Lifted(e, p) \in ById(all_players(s), q)
         /\ \A f \in ById(all_players(s), q) :
              \E e \in ById(all_players(sheet), q) : f = Lifted(e, p)
         /\ \A e, f \in ById(all_players(sheet), q) : e = f
<1> DEFINE all == all_players(sheet)
           raised == all_players(s)
<1>1. /\ DOMAIN raised = DOMAIN all /\ \A i \in DOMAIN all : raised[i] = Lifted(all[i], p)
      /\ LegalSheet(sheet)
  BY DEF IsRaised
<1>2. \A i \in DOMAIN all : all[i] \in Squad(sheet) /\ Lifted(all[i], p).id = all[i].id
  <2>1. \A i \in DOMAIN all : all[i] \in Squad(sheet)
    BY DEF Squad, ToSet
  <2> HIDE DEF all
  <2>2. QED
    BY <2>1, SquadLifted DEF Alike
<1>3. \A e, f \in ById(all, q) : e = f
  BY <1>1, SheetFacts DEF ById, Squad
<1> HIDE DEF all, raised
<1>4. ASSUME NEW e \in ById(all, q)
      PROVE  e \in Squad(sheet) /\ Lifted(e, p) \in ById(raised, q)
  <2>1. PICK i \in DOMAIN all : e = all[i] /\ e.id = q
    BY DEF ById, ToSet
  <2>2. raised[i] = Lifted(e, p) /\ raised[i].id = q /\ i \in DOMAIN raised
    BY <1>1, <1>2, <2>1
  <2>3. QED
    BY <1>2, <2>1, <2>2 DEF ById, ToSet
<1>5. ASSUME NEW f \in ById(raised, q)
      PROVE  \E e \in ById(all, q) : f = Lifted(e, p)
  <2>1. PICK i \in DOMAIN raised : f = raised[i] /\ f.id = q
    BY DEF ById, ToSet
  <2>2. f = Lifted(all[i], p) /\ all[i].id = q /\ i \in DOMAIN all
    BY <1>1, <1>2, <2>1
  <2>3. all[i] \in ById(all, q)
    BY <2>2 DEF ById, ToSet
  <2>4. QED
    BY <2>2, <2>3
<1>6. QED
  BY <1>3, <1>4, <1>5 DEF all, raised

\* The same live change is made.
LEMMA ChangeTwin ==
  ASSUME NEW sheet, NEW p, Revised(sheet, p), sheet.live_mode,
         NEW acc, Accounted(sheet, acc),
         NEW t, Twin(t, acc, p), t.changed = acc.changed, NEW rule
  PROVE  LET next == ApplyChange(sheet, acc, rule)
             nextt == ApplyChange(Raised(sheet, p), t, rule)
         IN Twin(nextt, next, p) /\ nextt.changed = next.changed
<1> DEFINE s == Raised(sheet, p)
<1>1. IsRaised(s, sheet, p)
  BY RaisedSheet
<1> HIDE DEF s
<1>2. LegalSheet(sheet)
  BY <1>1 DEF IsRaised
<1> DEFINE a == acc.seats
           u == t.seats
           found == LiveChange(a, acc.used, acc.changed, sheet, rule)
           lifted == LiveChange(u, t.used, t.changed, s, rule)
           sub == CHOOSE x \in found : TRUE
           subt == CHOOSE x \in lifted : TRUE
           next == ApplyChange(sheet, acc, rule)
           nextt == ApplyChange(s, t, rule)
<1>3. /\ a \in [1..Starters -> Chair(sheet)] /\ AreLifted(u, a, p) /\ u = LiftSeats(a, p)
      /\ t.used = acc.used /\ t.changed = acc.changed
  BY LiftedSeats DEF Twin, Accounted, Arranged
<1>4. /\ DOMAIN a = 1..Starters /\ DOMAIN u = 1..Starters
      /\ \A i \in 1..Starters : /\ u[i].slot = a[i].slot
                                /\ u[i].player.id = a[i].player.id
                                /\ u[i].player.ultra = a[i].player.ultra
  BY <1>3 DEF AreLifted, Alike
<1>5. /\ SeatOf(u, rule.starter) = SeatOf(a, rule.starter)
      /\ \A i, j \in SeatOf(a, rule.starter) : i = j
      /\ \A i \in SeatOf(a, rule.starter) : i \in 1..Starters
  <2>1. \A i \in SeatOf(a, rule.starter) : i \in 1..Starters
    BY SeatIsHis DEF Accounted
  <2> HIDE DEF a, u
  <2>2. \A i \in 1..Starters : u[i].player.id = a[i].player.id
    BY <1>4
  <2>3. /\ SeatOf(u, rule.starter) = SeatOf(a, rule.starter)
        /\ \A i, j \in SeatOf(a, rule.starter) : i = j
    <3> DEFINE q == rule.starter
    <3> HIDE DEF q
    <3>1. DOMAIN a = 1..Starters /\ DOMAIN u = 1..Starters
      BY <1>4
    <3>2. SeatOf(u, q) = SeatOf(a, q) /\ \A i, j \in SeatOf(a, q) : i = j
      BY <2>2, <3>1, SeatOfTwin, Zenon
    <3>3. QED
      BY <3>2 DEF q
  <2>4. QED
    BY <2>1, <2>3
<1>6. /\ next = IF found = {} THEN acc
                ELSE [seats |-> [a EXCEPT ![sub[1]].player = sub[2]],
                      used |-> acc.used \cup {rule.sub},
                      changed |-> acc.changed \cup {rule.starter}]
      /\ nextt = IF lifted = {} THEN t
                 ELSE [seats |-> [u EXCEPT ![subt[1]].player = subt[2]],
                       used |-> t.used \cup {rule.sub},
                       changed |-> t.changed \cup {rule.starter}]
  BY DEF ApplyChange
<1>7. next.seats \in [1..Starters -> Chair(sheet)]
  BY <1>2, ChangeKeepsAccounts DEF Accounted, Arranged
<1> DEFINE may(z, who, i, e) == /\ rule.starter \notin acc.changed
                                /\ z[i].slot # G /\ e.id \notin acc.used
                                /\ ~e.started /\ ~e.neutralised
                                /\ line_of(e.ultra) = line_of(z[i].player.ultra)
           mine == ById(all_players(sheet), rule.sub)
           theirs == ById(all_players(s), rule.sub)
           seat == SeatOf(a, rule.starter)
<1>8. /\ found = {x \in seat \X mine : may(a, mine, x[1], x[2])}
      /\ lifted = {x \in seat \X theirs : may(u, theirs, x[1], x[2])}
  BY <1>3, <1>5 DEF LiveChange
<1>9. /\ \A e \in mine : Lifted(e, p) \in theirs /\ e \in Squad(sheet)
      /\ \A f \in theirs : \E e \in mine : f = Lifted(e, p)
      /\ \A e, f \in mine : e = f
  BY <1>1, ByIdTwin
<1>10. \A e \in mine : Alike(Lifted(e, p), e)
  BY <1>9, SquadLifted
<1> HIDE DEF a, u, found, lifted, sub, subt, next, nextt, mine, theirs, seat
<1>11. \A i \in seat, e \in mine : may(a, mine, i, e) <=> may(u, theirs, i, Lifted(e, p))
  BY <1>4, <1>5, <1>10 DEF Alike, seat
<1> HIDE DEF may
<1>12. CASE found = {}
  <2>1. lifted = {}
    <3> SUFFICES ASSUME NEW x \in lifted PROVE FALSE
      OBVIOUS
    <3>1. x[1] \in seat /\ x[2] \in theirs /\ may(u, theirs, x[1], x[2])
      BY <1>8
    <3>2. PICK e \in mine : x[2] = Lifted(e, p)
      BY <1>9, <3>1
    <3>3. may(a, mine, x[1], e)
      BY <1>11, <3>1, <3>2
    <3>4. <<x[1], e>> \in found
      BY <1>8, <3>1, <3>3
    <3>5. QED
      BY <1>12, <3>4
  <2>2. next = acc /\ nextt = t
    BY <1>6, <1>12, <2>1
  <2>3. QED
    BY <2>2 DEF next, nextt, s
<1>13. CASE found # {}
  <2> DEFINE i == sub[1]
             e == sub[2]
             g == Lifted(e, p)
  <2>1. sub \in found
    BY <1>13 DEF sub
  <2>2. i \in seat /\ e \in mine /\ may(a, mine, i, e)
    BY <1>8, <2>1
  <2> HIDE DEF i, e
  <2>3. <<i, g>> \in lifted
    BY <1>8, <1>9, <1>11, <2>2
  <2>4. ASSUME NEW x \in lifted PROVE x = <<i, g>>
    <3>1. x[1] \in seat /\ x[2] \in theirs /\ x = <<x[1], x[2]>>
      BY <1>8
    <3>2. x[1] = i
      BY <1>5, <2>2, <3>1 DEF seat
    <3>3. x[2] = g
      BY <1>9, <2>2, <3>1
    <3>4. QED
      BY <3>1, <3>2, <3>3
  <2>5. subt = <<i, g>> /\ lifted # {}
    BY <2>3, <2>4 DEF subt
  <2>6. subt[1] = i /\ subt[2] = g
    BY <2>5
  <2>7. i \in 1..Starters
    BY <1>5, <2>2 DEF seat
  <2> HIDE DEF g
  <2>8. /\ next = [seats |-> [a EXCEPT ![i].player = e],
                   used |-> acc.used \cup {rule.sub},
                   changed |-> acc.changed \cup {rule.starter}]
        /\ nextt = [seats |-> [u EXCEPT ![i].player = g],
                    used |-> t.used \cup {rule.sub},
                    changed |-> t.changed \cup {rule.starter}]
    BY <1>6, <1>13, <2>5, <2>6 DEF i, e
  <2>9. /\ nextt.used = next.used /\ nextt.changed = next.changed
        /\ next.seats = [a EXCEPT ![i].player = e] /\ nextt.seats = [u EXCEPT ![i].player = g]
    BY <1>3, <2>8
  <2> DEFINE c == [a[i] EXCEPT !.player = e]
             d == [u[i] EXCEPT !.player = g]
             l == a[i].slot
             m == a[i].penalty
  <2>10. c = [slot |-> l, player |-> e, penalty |-> m]
         /\ d = [slot |-> l, player |-> g, penalty |-> m]
    <3> DEFINE r == a[i]
               q == u[i]
               o == a[i].player
               f == u[i].player
    <3>1. r = [slot |-> l, player |-> o, penalty |-> m]
      BY <1>3, <2>7 DEF Chair
    <3>2. q = [slot |-> l, player |-> f, penalty |-> m]
      BY <1>3, <2>7 DEF AreLifted
    <3> HIDE DEF r, q, o, f, l, m
    <3>3. [r EXCEPT !.player = e] = [slot |-> l, player |-> e, penalty |-> m]
      BY <3>1
    <3>4. [q EXCEPT !.player = g] = [slot |-> l, player |-> g, penalty |-> m]
      BY <3>2
    <3>5. QED
      BY <3>3, <3>4 DEF r, q
  <2> DEFINE v == nextt.seats
             w == next.seats
  <2>11. v = [u EXCEPT ![i] = d] /\ w = [a EXCEPT ![i] = c]
    BY <2>9
  <2> HIDE DEF c, d, v, w, l, m
  <2>12. c.slot = l /\ c.player = e /\ c.penalty = m
    BY <2>10
  <2>13. /\ DOMAIN v = 1..Starters /\ v = [j \in DOMAIN v |-> v[j]]
         /\ v[i] = d /\ w[i] = c
         /\ \A j \in 1..Starters : j # i => v[j] = u[j] /\ w[j] = a[j]
    BY <1>4, <2>7, <2>11
  <2>14. ASSUME NEW j \in 1..Starters
         PROVE  v[j] = [slot |-> w[j].slot, player |-> Lifted(w[j].player, p),
                        penalty |-> w[j].penalty]
    <3>1. CASE j = i
      BY <2>10, <2>12, <2>13, <3>1 DEF g
    <3>2. CASE j # i
      <4>1. u[j] = [slot |-> a[j].slot, player |-> Lifted(a[j].player, p),
                    penalty |-> a[j].penalty]
        BY <1>3 DEF AreLifted
      <4>2. QED
        BY <2>13, <3>2, <4>1
    <3>3. QED
      BY <3>1, <3>2
  <2>15. Relabelled(v, w, p)
    BY <2>13, <2>14 DEF Relabelled
  <2>16. v = LiftSeats(w, p)
    BY <1>7, <2>15, LiftsTo DEF w
  <2>17. QED
    BY <2>9, <2>16 DEF Twin, next, nextt, s, v, w
<1>14. QED
  BY <1>12, <1>13

\* The live changes of the raised sheet go the same way.
LEMMA LiveTwin ==
  ASSUME NEW sheet, NEW p, Revised(sheet, p), sheet.live_mode,
         NEW start, Accounted(sheet, start), start.used \subseteq Nat,
         NEW t, Accounted(Raised(sheet, p), t), Twin(t, start, p), NEW tonton
  PROVE  Twin(Live(Raised(sheet, p), t, tonton), Live(sheet, start, tonton), p)
<1> DEFINE s == Raised(sheet, p)
           rules == sheet.live_subs
           n == LiveCount(rules, tonton)
           rule(k) == rules[LiveOrder(rules)[k]]
<1>1. /\ LegalSheet(sheet) /\ LegalSheet(s) /\ s.live_mode /\ s.live_subs = rules
      /\ t.used \subseteq Nat
  BY RaisedSheet DEF IsRaised, Twin
<1>2. n \in Nat
  BY <1>1, LiveWalks
<1>3. PICK g : /\ g[0] = [seats |-> start.seats, used |-> start.used, changed |-> {}]
               /\ \A k \in 1..n : g[k] = ApplyChange(sheet, g[k - 1], rule(k))
               /\ \A k \in 0..n : Accounted(sheet, g[k]) /\ g[k].used \subseteq Nat
               /\ Live(sheet, start, tonton) = g[n]
  BY <1>1, LiveWalks
<1>4. PICK h : /\ h[0] = [seats |-> t.seats, used |-> t.used, changed |-> {}]
               /\ \A k \in 1..n : h[k] = ApplyChange(s, h[k - 1], rule(k))
               /\ \A k \in 0..n : Accounted(s, h[k]) /\ h[k].used \subseteq Nat
               /\ Live(s, t, tonton) = h[n]
  <2> HIDE DEF s
  <2>1. Accounted(s, t)
    BY DEF s
  <2>2. \E h : /\ h[0] = [seats |-> t.seats, used |-> t.used, changed |-> {}]
               /\ \A k \in 1..LiveCount(s.live_subs, tonton) : h[k] = ApplyChange(s, h[k - 1],
                    s.live_subs[LiveOrder(s.live_subs)[k]])
               /\ \A k \in 0..LiveCount(s.live_subs, tonton) :
                    Accounted(s, h[k]) /\ h[k].used \subseteq Nat
               /\ Live(s, t, tonton) = h[LiveCount(s.live_subs, tonton)]
    BY <1>1, <2>1, LiveWalks
  <2>3. QED
    BY <1>1, <2>2
<1> HIDE DEF s, rules, n, rule
<1> DEFINE B == {0}
           c == [k \in 0..n |-> IF Twin(h[k], g[k], p) /\ h[k].changed = g[k].changed
                                THEN 0 ELSE 1]
<1>5. c[0] \in B
  <2>1. /\ g[0].seats = start.seats /\ g[0].used = start.used /\ g[0].changed = {}
        /\ h[0].seats = t.seats /\ h[0].used = t.used /\ h[0].changed = {}
    BY <1>3, <1>4
  <2>2. Twin(h[0], g[0], p) /\ h[0].changed = g[0].changed
    BY <2>1 DEF Twin
  <2>3. QED
    BY <1>2, <2>2
<1>6. ASSUME NEW k \in 1..n, c[k - 1] \in B PROVE c[k] \in B
  <2>1. k - 1 \in 0..n /\ k \in 0..n
    BY <1>2
  <2> DEFINE x == g[k - 1]
             y == h[k - 1]
             r == rule(k)
  <2>2. /\ Twin(y, x, p) /\ y.changed = x.changed /\ Accounted(sheet, x)
        /\ g[k] = ApplyChange(sheet, x, r) /\ h[k] = ApplyChange(s, y, r)
    BY <1>3, <1>4, <1>6, <2>1
  <2> HIDE DEF x, y, r, c
  <2>3. Twin(h[k], g[k], p) /\ h[k].changed = g[k].changed
    BY <2>2, ChangeTwin DEF s
  <2>4. QED
    BY <2>1, <2>3 DEF c
<1>7. \A k \in 0..n : c[k] \in B
  <2> HIDE DEF c, B
  <2>1. QED
    BY <1>2, <1>5, <1>6, StaysIn
<1>8. Twin(h[n], g[n], p)
  <2>1. n \in 0..n
    BY <1>2
  <2>2. QED
    BY <1>7, <2>1
<1>9. QED
  BY <1>3, <1>4, <1>8 DEF s

\* The bench fills the same seats.
LEMMA MandatoryTwin ==
  ASSUME NEW sheet, NEW p, Revised(sheet, p), Starters \in Nat,
         NEW start, Accounted(sheet, start), start.used \subseteq Nat,
         NEW t, Accounted(Raised(sheet, p), t), Twin(t, start, p)
  PROVE  Twin(Mandatory(Raised(sheet, p), t), Mandatory(sheet, start), p)
<1> DEFINE s == Raised(sheet, p)
           n == Starters
<1>1. LegalSheet(sheet) /\ LegalSheet(s) /\ t.used \subseteq Nat
  BY RaisedSheet DEF IsRaised, Twin
<1>2. PICK g : /\ g[0] = [seats |-> start.seats, used |-> start.used]
               /\ \A k \in 1..n : g[k] = FillSeat(sheet, g[k - 1], k)
               /\ \A k \in 0..n : Accounted(sheet, g[k])
               /\ Mandatory(sheet, start) = g[n]
  BY <1>1, MandatoryWalks
<1>3. PICK h : /\ h[0] = [seats |-> t.seats, used |-> t.used]
               /\ \A k \in 1..n : h[k] = FillSeat(s, h[k - 1], k)
               /\ \A k \in 0..n : Accounted(s, h[k])
               /\ Mandatory(s, t) = h[n]
  <2> HIDE DEF s
  <2>1. Accounted(s, t)
    BY DEF s
  <2>2. QED
    BY <1>1, <2>1, MandatoryWalks
<1> HIDE DEF s
<1> DEFINE B == {0}
           c == [k \in 0..n |-> IF Twin(h[k], g[k], p) THEN 0 ELSE 1]
<1>4. c[0] \in B
  BY <1>2, <1>3 DEF Twin
<1>5. ASSUME NEW k \in 1..n, c[k - 1] \in B PROVE c[k] \in B
  <2>1. k - 1 \in 0..n /\ k \in 0..n
    OBVIOUS
  <2> DEFINE x == g[k - 1]
             y == h[k - 1]
  <2>2. /\ Twin(y, x, p) /\ Accounted(sheet, x)
        /\ g[k] = FillSeat(sheet, x, k) /\ h[k] = FillSeat(s, y, k)
    BY <1>2, <1>3, <1>5, <2>1
  <2> HIDE DEF x, y, c
  <2>3. Twin(h[k], g[k], p)
    BY <2>2, FillTwin DEF s
  <2>4. QED
    BY <2>1, <2>3 DEF c
<1>6. \A k \in 0..n : c[k] \in B
  <2> HIDE DEF c, B
  <2>1. QED
    BY <1>4, <1>5, StaysIn
<1>7. n \in 0..n
  OBVIOUS
<1>8. Twin(h[n], g[n], p)
  BY <1>6, <1>7
<1>9. QED
  BY <1>2, <1>3, <1>8 DEF s

\* Without rules nobody comes on.
LEMMA NoTactics ==
  ASSUME NEW sheet, sheet.tactical = <<>>, NEW start, NEW ratings
  PROVE  Tactical(sheet, start, ratings)
           = [seats |-> start.seats, used |-> start.used, applied |-> 0]
<1> DEFINE rules == sheet.tactical
           base == [seats |-> start.seats, used |-> start.used, applied |-> 0]
           walks(g) == g = [n \in 0..Len(rules) |->
                              IF n = 0
                              THEN [seats |-> start.seats, used |-> start.used, applied |-> 0]
                              ELSE ApplyRule(sheet, ratings, g[n - 1], rules[n])]
           after == CHOOSE g : walks(g)
<1>1. Len(rules) = 0
  OBVIOUS
<1>2. Tactical(sheet, start, ratings) = after[Len(rules)]
  BY DEF Tactical
<1> DEFINE only == [n \in 0..Len(rules) |-> base]
<1>3. walks(only)
  BY <1>1
<1>4. walks(after)
  BY <1>3
<1> HIDE DEF after
<1>5. after[0] = base
  BY <1>1, <1>4
<1>6. QED
  BY <1>1, <1>2, <1>5

\* Without tactical rules a rating changes nothing in who plays where.
LEMMA FinalSeatsTwin ==
  ASSUME NEW sheet, NEW p, Revised(sheet, p), sheet.tactical = <<>>,
         NEW ratings, NEW adjusted, NEW tonton
  PROVE  FinalSeats(Raised(sheet, p), adjusted, tonton)
           = LiftSeats(FinalSeats(sheet, ratings, tonton), p)
<1> DEFINE s == Raised(sheet, p)
           start == Kickoff(SeatStarters(sheet))
           t == Kickoff(SeatStarters(s))
           changed == Changed(sheet, start, ratings, tonton)
           changedt == Changed(s, t, adjusted, tonton)
<1>1. /\ LegalSheet(sheet) /\ LegalSheet(s) /\ s.live_mode = sheet.live_mode
      /\ s.tactical = <<>>
  BY RaisedSheet DEF IsRaised
<1>2. /\ Accounted(sheet, start) /\ start.used \subseteq Nat
      /\ Accounted(s, t) /\ t.used \subseteq Nat /\ Starters \in Nat
  BY <1>1, KickoffAccounts, Seating
<1>3. Twin(t, start, p)
  BY KickoffTwin
<1> HIDE DEF start, t
<1>4. /\ Accounted(sheet, changed) /\ changed.used \subseteq Nat
      /\ Accounted(s, changedt) /\ changedt.used \subseteq Nat
  <2> HIDE DEF s
  <2>1. QED
    BY <1>1, <1>2, ChangesAccounted
<1>5. Twin(changedt, changed, p)
  <2>1. CASE sheet.live_mode
    <3>1. changed = Live(sheet, start, tonton) /\ changedt = Live(s, t, tonton)
      BY <1>1, <2>1 DEF Changed
    <3> HIDE DEF changed, changedt
    <3>2. Twin(Live(Raised(sheet, p), t, tonton), Live(sheet, start, tonton), p)
      BY <1>2, <1>3, <2>1, LiveTwin
    <3>3. QED
      BY <3>1, <3>2
  <2>2. CASE ~sheet.live_mode /\ tonton
    BY <1>1, <1>3, <2>2 DEF Changed
  <2>3. CASE ~sheet.live_mode /\ ~tonton
    <3>1. /\ changed = Tactical(sheet, start, ratings)
          /\ changedt = Tactical(s, t, adjusted)
      BY <1>1, <2>3 DEF Changed
    <3> HIDE DEF s, changed, changedt
    <3>2. /\ changed.seats = start.seats /\ changed.used = start.used
          /\ changedt.seats = t.seats /\ changedt.used = t.used
      BY <1>1, <3>1, NoTactics
    <3>3. QED
      BY <1>3, <3>2 DEF Twin
  <2>4. QED
    BY <2>1, <2>2, <2>3
<1> HIDE DEF changed, changedt
<1>6. Twin(Mandatory(s, changedt), Mandatory(sheet, changed), p)
  BY <1>2, <1>4, <1>5, MandatoryTwin
<1>7. QED
  BY <1>6 DEF Twin, FinalSeats, changed, changedt, start, t

-----------------------------------------------------------------------------
(* Ratings and bonuses *)

\* A rating stays between its bounds, and in order.
LEMMA ClampedRating ==
  ASSUME NEW v \in Int, NEW w \in Int, v <= w
  PROVE  clamp_rating(v) \in Nat /\ clamp_rating(w) \in Nat /\ clamp_rating(v) <= clamp_rating(w)
<1> DEFINE c(z) == IF z < 2 THEN 2 ELSE IF z > 20 THEN 20 ELSE z
<1>1. ASSUME NEW z \in Int PROVE clamp_rating(z) = c(z)
  <2> DEFINE m == IF z < 2 THEN 2 ELSE z
  <2>1. Max({2, z}) = m
    <3>1. m \in {2, z} /\ \A y \in {2, z} : m >= y
      OBVIOUS
    <3>2. \A x \in {2, z} : (\A y \in {2, z} : x >= y) => x = m
      OBVIOUS
    <3> HIDE DEF m
    <3>3. QED
      BY <3>1, <3>2 DEF Max
  <2>2. m \in Int
    OBVIOUS
  <2> HIDE DEF m
  <2>3. clamp_rating(z) = IF 20 <= m THEN 20 ELSE m
    BY <2>1, <2>2, MinOfTwo DEF clamp_rating, RATING_MIN, RATING_MAX
  <2>4. QED
    BY <2>3 DEF m
<1>2. c(v) \in Nat /\ c(w) \in Nat /\ c(v) <= c(w)
  OBVIOUS
<1>3. QED
  BY <1>1, <1>2

\* The bonuses keep the order of the ratings.
LEMMA BonusesKeepOrder ==
  ASSUME NEW r, NEW q, NEW lines, DOMAIN q = DOMAIN r,
         \A p \in DOMAIN r : r[p] \in Int /\ q[p] \in Int /\ r[p] <= q[p],
         NEW own, NEW opponent, NEW cheatCode, NEW p \in DOMAIN r
  PROVE  /\ apply_bonuses(r, lines, own, opponent, cheatCode)[p] \in Nat
         /\ apply_bonuses(q, lines, own, opponent, cheatCode)[p] \in Nat
         /\ apply_bonuses(r, lines, own, opponent, cheatCode)[p]
              <= apply_bonuses(q, lines, own, opponent, cheatCode)[p]
<1> DEFINE inLine(x, l) == x \in DOMAIN lines /\ lines[x] = l
           defenders(z) == {x \in DOMAIN z : inLine(x, D)}
           n(z) == Cardinality(defenders(z))
           a(z) == IF p \in defenders(z) THEN DefenseBonus(own, n(z)) ELSE 0
           b == IF own.zahia THEN 1 ELSE 0
           c == IF own.mcdo = p THEN 2 ELSE 0
           d == IF own.captain = p /\ own.mcdo # p /\ ~inLine(p, G) THEN 1 ELSE 0
           e == IF opponent.suarez /\ inLine(p, G) THEN 2 ELSE 0
           f == IF cheatCode /\ opponent.cheat_code /\ p \in DOMAIN lines /\ ~inLine(p, G)
                THEN 1 ELSE 0
           delta(z) == a(z) + b + c + d - e - f
<1>1. /\ apply_bonuses(r, lines, own, opponent, cheatCode)[p] = clamp_rating(r[p] + delta(r))
      /\ apply_bonuses(q, lines, own, opponent, cheatCode)[p] = clamp_rating(q[p] + delta(q))
  BY DEF apply_bonuses
<1>2. a(q) = a(r)
  OBVIOUS
<1>3. a(r) \in Int
  BY EngineAssumption DEF DefenseBonus
<1>4. b \in Int /\ c \in Int /\ d \in Int /\ e \in Int /\ f \in Int
  OBVIOUS
<1> DEFINE x == delta(r)
<1> HIDE DEF a, b, c, d, e, f
<1>5. delta(q) = x /\ x \in Int
  BY <1>2, <1>3, <1>4
<1> HIDE DEF delta, x
<1>6. r[p] + x \in Int /\ q[p] + x \in Int /\ r[p] + x <= q[p] + x
  BY <1>5
<1>7. QED
  BY <1>1, <1>5, <1>6, ClampedRating DEF x

\* The rating of a squad player who was rated.
LEMMA SquadRating ==
  ASSUME NEW sheet, LegalSheet(sheet), NEW e \in Squad(sheet), Played(e)
  PROVE  SquadRatings(sheet)[e.id] = effective_rating(e)
<1> DEFINE rated == {f \in ToSet(all_players(sheet)) : Played(f)}
<1>1. e \in rated /\ e.id \in {f.id : f \in rated}
  BY DEF Squad
<1>2. \A f \in rated : f.id = e.id => f = e
  BY SheetFacts DEF Squad
<1> DEFINE x == CHOOSE f \in rated : f.id = e.id
<1>3. x = e
  BY <1>1, <1>2
<1>4. SquadRatings(sheet)[e.id] = effective_rating(x)
  BY <1>1 DEF SquadRatings
<1>5. QED
  BY <1>3, <1>4

-----------------------------------------------------------------------------
(* The eleven of a raised sheet *)

\* The parts of FinalXI.
SeatLine(seats, i) ==
  IF Flags.out_of_position_line = "slot" \/ ~Played(seats[i].player)
  THEN seats[i].slot ELSE line_of(seats[i].player.ultra)

RealSeats(seats) == {i \in DOMAIN seats : Played(seats[i].player)}

RealIds(seats) == {seats[i].player.id : i \in RealSeats(seats)}

HisSeat(seats, p) == CHOOSE i \in RealSeats(seats) : seats[i].player.id = p

SeatRatings(seats, ratings) ==
  [p \in RealIds(seats) |-> ratings[p] + seats[HisSeat(seats, p)].penalty]

SeatLines(seats) == [p \in RealIds(seats) |-> SeatLine(seats, HisSeat(seats, p))]

FinalRatings(seats, ratings, own, opponent) ==
  apply_bonuses(SeatRatings(seats, ratings), SeatLines(seats), own, opponent, TRUE)

\* Who played keeps his seat with his final rating, a phantom player takes the
\* other ones.
LEMMA FinalParts ==
  ASSUME NEW seats, NEW ratings, NEW own, NEW opponent
  PROVE  LET xi == FinalXI(seats, ratings, own, opponent)
         IN /\ DOMAIN xi = DOMAIN seats
            /\ \A i \in DOMAIN seats :
                 xi[i] = IF i \in RealSeats(seats)
                         THEN [line |-> SeatLine(seats, i), id |-> seats[i].player.id,
                               rating |-> FinalRatings(seats, ratings, own, opponent)
                                            [seats[i].player.id],
                               goals |-> effective_goals(seats[i].player),
                               own |-> effective_own(seats[i].player), rotaldo |-> FALSE]
                         ELSE Rotaldo(seats[i].slot)
<1> DEFINE line(i) == IF Flags.out_of_position_line = "slot" \/ ~Played(seats[i].player)
                      THEN seats[i].slot ELSE line_of(seats[i].player.ultra)
           real == {i \in DOMAIN seats : Played(seats[i].player)}
           at == [p \in {seats[i].player.id : i \in real} |->
                    CHOOSE i \in real : seats[i].player.id = p]
           final == apply_bonuses([p \in DOMAIN at |-> ratings[p] + seats[at[p]].penalty],
                                  [p \in DOMAIN at |-> line(at[p])], own, opponent, TRUE)
           slot(i) ==
             LET e == seats[i].player
             IN IF i \in real
                THEN [line |-> line(i), id |-> e.id, rating |-> final[e.id],
                      goals |-> effective_goals(e), own |-> effective_own(e),
                      rotaldo |-> FALSE]
                ELSE Rotaldo(seats[i].slot)
<1>1. FinalXI(seats, ratings, own, opponent) = [i \in DOMAIN seats |-> slot(i)]
  BY DEF FinalXI
<1>2. real = RealSeats(seats) /\ \A i : line(i) = SeatLine(seats, i)
  BY DEF RealSeats, SeatLine
<1>3. DOMAIN at = RealIds(seats) /\ \A p \in RealIds(seats) : at[p] = HisSeat(seats, p)
  BY DEF RealIds, RealSeats, HisSeat
<1> HIDE DEF real, line, at
<1>4. [p \in DOMAIN at |-> ratings[p] + seats[at[p]].penalty] = SeatRatings(seats, ratings)
  BY <1>3 DEF SeatRatings
<1>5. [p \in DOMAIN at |-> line(at[p])] = SeatLines(seats)
  BY <1>2, <1>3 DEF SeatLines
<1>6. final = FinalRatings(seats, ratings, own, opponent)
  BY <1>4, <1>5 DEF FinalRatings
<1> HIDE DEF final
<1>7. QED
  BY <1>1, <1>2, <1>6

\* Who did not play is a phantom player in the end.
LEMMA FinalRotaldo ==
  ASSUME NEW seats, NEW ratings, NEW own, NEW opponent,
         NEW i \in DOMAIN seats, i \notin RealSeats(seats)
  PROVE  FinalXI(seats, ratings, own, opponent)[i] = Rotaldo(seats[i].slot)
<1> DEFINE z(j) == [line |-> SeatLine(seats, j), id |-> seats[j].player.id,
                    rating |-> FinalRatings(seats, ratings, own, opponent)[seats[j].player.id],
                    goals |-> effective_goals(seats[j].player),
                    own |-> effective_own(seats[j].player), rotaldo |-> FALSE]
<1>1. \A j \in DOMAIN seats :
        FinalXI(seats, ratings, own, opponent)[j]
          = IF j \in RealSeats(seats) THEN z(j) ELSE Rotaldo(seats[j].slot)
  BY FinalParts
<1> HIDE DEF z
<1>2. QED
  BY <1>1

\* Everybody in the eleven plays with his rating and his penalty.
LEMMA SeatRatingIs ==
  ASSUME NEW sheet, LegalSheet(sheet), NEW seats, Arranged(sheet, seats),
         NEW x \in RealIds(seats)
  PROVE  LET i == HisSeat(seats, x)
         IN /\ i \in 1..Starters /\ Played(seats[i].player)
            /\ seats[i].player.id = x /\ seats[i].player \in Squad(sheet)
            /\ effective_rating(seats[i].player) \in Nat /\ seats[i].penalty \in Int
            /\ SeatRatings(seats, SquadRatings(sheet))[x]
                 = effective_rating(seats[i].player) + seats[i].penalty
<1> DEFINE i == HisSeat(seats, x)
           e == seats[i].player
<1>1. i \in RealSeats(seats) /\ seats[i].player.id = x
  <2>1. \E j \in RealSeats(seats) : seats[j].player.id = x
    BY DEF RealIds
  <2>2. QED
    BY <2>1 DEF HisSeat
<1> HIDE DEF i
<1>2. i \in 1..Starters /\ Played(e)
  BY <1>1 DEF RealSeats, Arranged
<1>3. seats[i] \in Chair(sheet)
  BY <1>2 DEF Arranged
<1>4. e \in Squad(sheet) /\ seats[i].penalty \in Int
  BY <1>3 DEF Chair
<1>5. SeatRatings(seats, SquadRatings(sheet))[x] = SquadRatings(sheet)[x] + seats[i].penalty
  BY DEF SeatRatings, i
<1> HIDE DEF e
<1>6. SquadRatings(sheet)[x] = effective_rating(e)
  <2>1. e.id = x
    BY <1>1 DEF e
  <2>2. SquadRatings(sheet)[e.id] = effective_rating(e)
    BY <1>2, <1>4, SquadRating
  <2>3. QED
    BY <2>1, <2>2
<1>7. effective_rating(e) \in Nat
  <2>1. e \in Entries
    BY <1>4, SheetFacts
  <2>2. QED
    BY <2>1 DEF Entries, effective_rating, NEUTRAL_RATING, RATING_MIN, RATING_MAX
<1>8. QED
  BY <1>1, <1>2, <1>4, <1>5, <1>6, <1>7 DEF e, i

\* The seats of a side, as the substitutions leave them.
SideSeats(sheet, own, opponent) ==
  FinalSeats(sheet, apply_bonuses(SquadRatings(sheet), StarterLines(sheet), own, opponent, FALSE),
             opponent.tonton_pat)

\* They are a complete eleven, and the side built is made of them.
LEMMA SideSeatsArranged ==
  ASSUME NEW sheet, LegalSheet(sheet), NEW own, NEW opponent
  PROVE  /\ Starters \in Nat /\ Arranged(sheet, SideSeats(sheet, own, opponent))
         /\ BuildSide(sheet, own, opponent)
              = FinalXI(SideSeats(sheet, own, opponent), SquadRatings(sheet), own, opponent)
<1>1. PICK acc : Settled(sheet, acc) /\ SideSeats(sheet, own, opponent) = acc.seats
  BY SubstitutionsSettle DEF SideSeats
<1>2. BuildSide(sheet, own, opponent)
        = FinalXI(SideSeats(sheet, own, opponent), SquadRatings(sheet), own, opponent)
  BY DEF BuildSide, SideSeats
<1>3. QED
  BY <1>1, <1>2 DEF Settled, Accounted

\* The ratings of an eleven are numbers.
LEMMA SideGraded ==
  ASSUME NEW sheet, LegalSheet(sheet), NEW own, NEW opponent
  PROVE  LET xi == BuildSide(sheet, own, opponent) IN Graded(xi) /\ DOMAIN xi \subseteq Nat
<1> DEFINE seats == SideSeats(sheet, own, opponent)
           ratings == SquadRatings(sheet)
           xi == BuildSide(sheet, own, opponent)
           r == SeatRatings(seats, ratings)
<1>1. Starters \in Nat /\ Arranged(sheet, seats) /\ xi = FinalXI(seats, ratings, own, opponent)
  BY SideSeatsArranged
<1> HIDE DEF seats, xi
<1>2. DOMAIN seats = 1..Starters
  BY <1>1 DEF Arranged
<1>3. DOMAIN r = RealIds(seats) /\ \A x \in RealIds(seats) : r[x] \in Int
  <2>1. DOMAIN r = RealIds(seats)
    BY DEF SeatRatings
  <2>2. ASSUME NEW x \in RealIds(seats) PROVE r[x] \in Int
    <3> DEFINE i == HisSeat(seats, x)
               m == effective_rating(seats[i].player)
               k == seats[i].penalty
    <3>1. m \in Nat /\ k \in Int /\ r[x] = m + k
      BY <1>1, SeatRatingIs
    <3> HIDE DEF m, k, r
    <3>2. QED
      BY <3>1
  <2>3. QED
    BY <2>1, <2>2
<1>4. ASSUME NEW x \in RealIds(seats)
      PROVE  FinalRatings(seats, ratings, own, opponent)[x] \in Nat
  <2> HIDE DEF r
  <2>1. \A y \in DOMAIN r : r[y] \in Int /\ r[y] \in Int /\ r[y] <= r[y]
    BY <1>3
  <2>2. apply_bonuses(r, SeatLines(seats), own, opponent, TRUE)[x] \in Nat
    BY <1>3, <2>1, BonusesKeepOrder
  <2>3. QED
    BY <2>2 DEF FinalRatings, r
<1> HIDE DEF r, ratings
<1>5. DOMAIN xi = 1..Starters
  BY <1>1, <1>2, FinalParts
<1>6. ASSUME NEW i \in 1..Starters PROVE xi[i].rating \in Nat
  <2> DEFINE e == seats[i].player
  <2>1. CASE i \in RealSeats(seats)
    <3>1. xi[i] = [line |-> SeatLine(seats, i), id |-> e.id,
                   rating |-> FinalRatings(seats, ratings, own, opponent)[e.id],
                   goals |-> effective_goals(e), own |-> effective_own(e), rotaldo |-> FALSE]
      BY <1>1, <1>2, <2>1, FinalParts
    <3>2. e.id \in RealIds(seats)
      BY <2>1 DEF RealIds
    <3> HIDE DEF e
    <3>3. QED
      BY <1>4, <3>1, <3>2
  <2>2. CASE i \notin RealSeats(seats)
    <3>1. xi[i] = Rotaldo(seats[i].slot)
      BY <1>1, <1>2, <2>2, FinalRotaldo
    <3>2. QED
      BY <3>1 DEF Rotaldo, ROTALDO_RATING
  <2>3. QED
    BY <2>1, <2>2
<1>7. QED
  BY <1>1, <1>5, <1>6, FS_Interval DEF Graded, xi

\* The raised sheet fields a stronger eleven.
LEMMA RaisedSide ==
  ASSUME NEW sheet, NEW p, Revised(sheet, p), sheet.tactical = <<>>, NEW own, NEW opponent
  PROVE  Stronger(BuildSide(Raised(sheet, p), own, opponent), BuildSide(sheet, own, opponent))
<1> DEFINE s == Raised(sheet, p)
           a == SideSeats(sheet, own, opponent)
           u == SideSeats(s, own, opponent)
           x == BuildSide(sheet, own, opponent)
           y == BuildSide(s, own, opponent)
           r == SeatRatings(a, SquadRatings(sheet))
           q == SeatRatings(u, SquadRatings(s))
<1>1. LegalSheet(sheet) /\ LegalSheet(s)
  BY RaisedSheet DEF IsRaised
<1>2. u = LiftSeats(a, p)
  <2> DEFINE r1 == apply_bonuses(SquadRatings(sheet), StarterLines(sheet), own, opponent, FALSE)
             r2 == apply_bonuses(SquadRatings(s), StarterLines(s), own, opponent, FALSE)
  <2>1. a = FinalSeats(sheet, r1, opponent.tonton_pat)
    BY DEF SideSeats
  <2>2. u = FinalSeats(s, r2, opponent.tonton_pat)
    BY DEF SideSeats
  <2> HIDE DEF a, u, r1, r2
  <2>3. FinalSeats(s, r2, opponent.tonton_pat)
          = LiftSeats(FinalSeats(sheet, r1, opponent.tonton_pat), p)
    BY FinalSeatsTwin
  <2>4. QED
    BY <2>1, <2>2, <2>3
<1> HIDE DEF s, a, u, x, y
<1>3. /\ Starters \in Nat
      /\ Arranged(sheet, a) /\ x = FinalXI(a, SquadRatings(sheet), own, opponent)
      /\ Arranged(s, u) /\ y = FinalXI(u, SquadRatings(s), own, opponent)
  BY <1>1, SideSeatsArranged DEF a, u, x, y
<1>4. DOMAIN a = 1..Starters /\ DOMAIN u = 1..Starters
  BY <1>3 DEF Arranged
<1>5. \A i \in 1..Starters : /\ u[i].slot = a[i].slot /\ u[i].penalty = a[i].penalty
                             /\ Alike(u[i].player, a[i].player)
  <2>1. a \in [1..Starters -> Chair(sheet)]
    BY <1>3 DEF Arranged
  <2>2. AreLifted(u, a, p)
    BY <1>2, <2>1, LiftedSeats
  <2>3. QED
    BY <1>4, <2>2 DEF AreLifted
<1>6. \A i \in 1..Starters :
        /\ u[i].player.id = a[i].player.id /\ u[i].player.ultra = a[i].player.ultra
        /\ Played(u[i].player) = Played(a[i].player)
        /\ effective_goals(u[i].player) = effective_goals(a[i].player)
        /\ effective_own(u[i].player) = effective_own(a[i].player)
        /\ effective_rating(a[i].player) \in Nat /\ effective_rating(u[i].player) \in Nat
        /\ effective_rating(u[i].player) >= effective_rating(a[i].player)
  BY <1>5 DEF Alike
<1>7. RealSeats(u) = RealSeats(a) /\ RealSeats(a) \subseteq 1..Starters
  BY <1>4, <1>6 DEF RealSeats
<1>8. RealIds(u) = RealIds(a)
  BY <1>6, <1>7 DEF RealIds
<1>9. \A z : HisSeat(u, z) = HisSeat(a, z)
  <2> TAKE z
  <2>1. \A i \in RealSeats(a) : (u[i].player.id = z) <=> (a[i].player.id = z)
    BY <1>6, <1>7
  <2>2. QED
    BY <1>7, <2>1 DEF HisSeat
<1>10. \A i \in 1..Starters : SeatLine(u, i) = SeatLine(a, i)
  BY <1>5, <1>6 DEF SeatLine
<1>11. SeatLines(u) = SeatLines(a)
  <2>1. \A z \in RealIds(a) : HisSeat(a, z) \in 1..Starters
    BY <1>1, <1>3, SeatRatingIs
  <2>2. \A z \in RealIds(a) : SeatLine(u, HisSeat(u, z)) = SeatLine(a, HisSeat(a, z))
    BY <1>9, <1>10, <2>1
  <2>3. QED
    BY <1>8, <2>2 DEF SeatLines
<1>12. /\ DOMAIN q = RealIds(a) /\ DOMAIN r = RealIds(a)
       /\ \A z \in RealIds(a) : r[z] \in Int /\ q[z] \in Int /\ r[z] <= q[z]
  <2>1. DOMAIN q = RealIds(a) /\ DOMAIN r = RealIds(a)
    BY <1>8 DEF SeatRatings
  <2>2. ASSUME NEW z \in RealIds(a) PROVE r[z] \in Int /\ q[z] \in Int /\ r[z] <= q[z]
    <3> DEFINE i == HisSeat(a, z)
               m == effective_rating(a[i].player)
               k == a[i].penalty
               n == effective_rating(u[i].player)
    <3>1. i \in 1..Starters /\ m \in Nat /\ k \in Int /\ r[z] = m + k
      BY <1>1, <1>3, SeatRatingIs
    <3>2. q[z] = n + k
      <4>1. z \in RealIds(u) /\ HisSeat(u, z) = i
        BY <1>8, <1>9
      <4>2. q[z] = effective_rating(u[HisSeat(u, z)].player) + u[HisSeat(u, z)].penalty
        BY <1>1, <1>3, <4>1, SeatRatingIs
      <4> HIDE DEF i, q
      <4>3. QED
        BY <1>5, <3>1, <4>1, <4>2
    <3>3. n \in Nat /\ m <= n
      BY <1>6, <3>1
    <3> HIDE DEF m, n, k, r, q
    <3>4. QED
      BY <3>1, <3>2, <3>3
  <2>3. QED
    BY <2>1, <2>2
<1>13. ASSUME NEW z \in RealIds(a)
       PROVE  FinalRatings(a, SquadRatings(sheet), own, opponent)[z]
                <= FinalRatings(u, SquadRatings(s), own, opponent)[z]
  <2> HIDE DEF r, q
  <2>1. apply_bonuses(r, SeatLines(a), own, opponent, TRUE)[z]
          <= apply_bonuses(q, SeatLines(a), own, opponent, TRUE)[z]
    BY <1>12, BonusesKeepOrder
  <2>2. QED
    BY <1>11, <2>1 DEF FinalRatings, r, q
<1>14. DOMAIN x = 1..Starters /\ DOMAIN y = 1..Starters
  BY <1>3, <1>4, FinalParts
<1>15. Graded(x) /\ Graded(y)
  BY <1>1, SideGraded DEF x, y
<1>16. ASSUME NEW i \in 1..Starters
       PROVE  /\ y[i].rating >= x[i].rating
              /\ y[i].line = x[i].line /\ y[i].rotaldo = x[i].rotaldo
              /\ y[i].goals = x[i].goals /\ y[i].own = x[i].own
  <2> DEFINE e == a[i].player
             f == u[i].player
             h == FinalRatings(a, SquadRatings(sheet), own, opponent)[e.id]
             g == FinalRatings(u, SquadRatings(s), own, opponent)[f.id]
             l == SeatLine(a, i)
  <2>1. CASE i \in RealSeats(a)
    <3>1. x[i] = [line |-> l, id |-> e.id, rating |-> h, goals |-> effective_goals(e),
                  own |-> effective_own(e), rotaldo |-> FALSE]
      BY <1>3, <1>4, <2>1, FinalParts
    <3>2. y[i] = [line |-> SeatLine(u, i), id |-> f.id, rating |-> g,
                  goals |-> effective_goals(f), own |-> effective_own(f), rotaldo |-> FALSE]
      BY <1>3, <1>4, <1>7, <2>1, FinalParts
    <3>3. e.id \in RealIds(a) /\ f.id = e.id
      BY <1>6, <2>1 DEF RealIds
    <3>4. h <= g
      BY <1>13, <3>3
    <3>5. /\ SeatLine(u, i) = l /\ effective_goals(f) = effective_goals(e)
          /\ effective_own(f) = effective_own(e)
      BY <1>6, <1>10
    <3>6. x[i].rating \in Nat /\ y[i].rating \in Nat
      BY <1>14, <1>15 DEF Graded
    <3> HIDE DEF e, f, g, h, l
    <3>7. x[i].rating = h /\ y[i].rating = g
      BY <3>1, <3>2
    <3>8. y[i].rating >= x[i].rating
      BY <3>4, <3>6, <3>7
    <3>9. QED
      BY <3>1, <3>2, <3>5, <3>8
  <2>2. CASE i \notin RealSeats(a)
    <3>1. x[i] = Rotaldo(a[i].slot) /\ y[i] = Rotaldo(u[i].slot)
      BY <1>3, <1>4, <1>7, <2>2, FinalRotaldo
    <3>2. x[i] = y[i]
      BY <1>5, <3>1
    <3>3. x[i].rating \in Nat
      BY <1>14, <1>15 DEF Graded
    <3>4. QED
      BY <3>2, <3>3
  <2>3. QED
    BY <2>1, <2>2
<1>17. Stronger(y, x)
  BY <1>3, <1>14, <1>16 DEF Stronger
<1>18. QED
  BY <1>17 DEF x, y, s

-----------------------------------------------------------------------------
(* A better rating *)

\* A better rating makes no worse result.
LEMMA BetterWhenPlayed == Sound => BetterRatingNeverHurts
<1> SUFFICES ASSUME Sound, stage = "played"
             PROVE  /\ home.tactical = <<>> => \A p \in Rated(home) :
                         NoWorse(resolve_match(Raised(home, p), away, ties), result)
                    /\ away.tactical = <<>> => \A p \in Rated(away) :
                         NoWorse(result, resolve_match(home, Raised(away, p), ties))
  BY DEF BetterRatingNeverHurts
<1> DEFINE b == resolve_mirrors(home.bonuses, away.bonuses)
           x == BuildSide(home, b.home, b.away)
           z == BuildSide(away, b.away, b.home)
<1>1. LegalSheet(home) /\ LegalSheet(away) /\ result = resolve_match(home, away, ties)
  BY DEF Sound
<1>2. /\ Counted(x) /\ Counted(z) /\ Graded(x) /\ Graded(z)
      /\ DOMAIN x \subseteq Nat /\ DOMAIN z \subseteq Nat
  BY <1>1, XICounted, SideGraded
<1>3. result = MatchResult(x, z, b, ties)
  BY <1>1 DEF resolve_match
<1>4. ASSUME home.tactical = <<>>, NEW p \in Rated(home)
      PROVE  NoWorse(resolve_match(Raised(home, p), away, ties), result)
  <2> DEFINE s == Raised(home, p)
             y == BuildSide(s, b.home, b.away)
  <2>1. Revised(home, p)
    BY <1>1, <1>4 DEF Revised
  <2>2. LegalSheet(s) /\ s.bonuses = home.bonuses
    BY <2>1, RaisedSheet DEF IsRaised
  <2>3. Stronger(y, x) /\ Graded(y)
    BY <1>4, <2>1, <2>2, RaisedSide, SideGraded
  <2>4. resolve_match(s, away, ties) = MatchResult(y, z, b, ties)
    <3> HIDE DEF s
    <3>1. QED
      BY <2>2 DEF resolve_match
  <2> HIDE DEF b, x, y, z, s
  <2>5. NoWorse(MatchResult(y, z, b, ties), MatchResult(x, z, b, ties))
    BY <1>2, <2>3, StrongerResult
  <2>6. QED
    BY <1>3, <2>4, <2>5 DEF s
<1>5. ASSUME away.tactical = <<>>, NEW p \in Rated(away)
      PROVE  NoWorse(result, resolve_match(home, Raised(away, p), ties))
  <2> DEFINE s == Raised(away, p)
             y == BuildSide(s, b.away, b.home)
  <2>1. Revised(away, p)
    BY <1>1, <1>5 DEF Revised
  <2>2. LegalSheet(s) /\ s.bonuses = away.bonuses
    BY <2>1, RaisedSheet DEF IsRaised
  <2>3. Stronger(y, z) /\ Graded(y)
    BY <1>5, <2>1, <2>2, RaisedSide, SideGraded
  <2>4. resolve_match(home, s, ties) = MatchResult(x, y, b, ties)
    <3> HIDE DEF s
    <3>1. QED
      BY <2>2 DEF resolve_match
  <2> HIDE DEF b, x, y, z, s
  <2>5. NoWorse(MatchResult(x, z, b, ties), MatchResult(x, y, b, ties))
    BY <1>2, <2>3, StrongerResult
  <2>6. QED
    BY <1>3, <2>4, <2>5 DEF s
<1>6. QED
  BY <1>4, <1>5

\* A rating revised upwards never costs its side.
THEOREM BetterRatingIsNoWorse == Spec => []BetterRatingNeverHurts
<1>1. QED
  BY FixtureSound, BetterWhenPlayed, PTL

=============================================================================
