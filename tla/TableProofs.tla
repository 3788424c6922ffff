---------------------------- MODULE TableProofs -----------------------------
(***************************************************************************)
(* The calendar of a league of any even size, and its table: what a result *)
(* does to the ranks of those who played it and of the others.             *)
(***************************************************************************)
EXTENDS Table, Sums, SequenceTheorems

-----------------------------------------------------------------------------
(* The circle *)

\* A number just beside 0..(m - 1) is brought back by adding m.
LEMMA Turn ==
  ASSUME NEW m \in Nat \ {0}, NEW a \in Int, -m < a, a < m
  PROVE  a % m = IF a >= 0 THEN a ELSE a + m
<1> DEFINE q == a \div m
           r == a % m
<1>1. q \in Int /\ r \in Int /\ 0 <= r /\ r < m /\ a = m * q + r
  OBVIOUS
<1> HIDE DEF q, r
<1>2. m * q < m /\ m * q > -2 * m
  BY <1>1
<1>3. q < 1
  <2>1. ASSUME q >= 1 PROVE m * q >= m
    BY <1>1, <2>1
  <2>2. QED
    BY <1>1, <1>2, <2>1
<1>4. q > -2
  <2>1. ASSUME q <= -2 PROVE m * q <= -2 * m
    BY <1>1, <2>1
  <2>2. QED
    BY <1>1, <1>2, <2>1
<1>5. q = 0 \/ q = -1
  BY <1>1, <1>3, <1>4
<1>6. QED
  <2>1. CASE q = 0
    BY <1>1, <2>1 DEF r
  <2>2. CASE q = -1
    <3>1. m * q = -m
      BY <2>2
    <3>2. QED
      BY <1>1, <3>1 DEF r
  <2>3. QED
    BY <1>5, <2>1, <2>2

\* Who is at the k-th place of a circle of n in week w, from 0, and where p is.
At(n, w, k) ==
  IF k = 1 THEN 1 ELSE IF k - w >= 2 THEN k - w ELSE k - w + (n - 1)
Place(n, w, p) ==
  IF p = 1 THEN 1 ELSE IF p + w <= n THEN p + w ELSE p + w - (n - 1)

\* The circle has everybody at one place.
LEMMA PlacesAndPeople ==
  ASSUME NEW n \in Nat, n >= 2, NEW w \in 0..(n - 2), NEW x \in 1..n
  PROVE  /\ At(n, w, x) \in 1..n /\ Place(n, w, x) \in 1..n
         /\ At(n, w, Place(n, w, x)) = x /\ Place(n, w, At(n, w, x)) = x
  BY DEF At, Place

\* Turning by w seats moves everybody but the first.
LEMMA CircleTurned ==
  ASSUME NEW n \in Nat, n >= 2, NEW w \in 0..(n - 2), NEW k \in 1..n
  PROVE  LET ids == [i \in 1..n |-> i] IN Len(ids) = n /\ Circle(ids, w)[k] = At(n, w, k)
<1> DEFINE ids == [i \in 1..n |-> i]
           m == n - 1
           a == k - 2 - w
<1>1. ids \in Seq(1..n) /\ Len(ids) = n /\ DOMAIN ids = 1..n
  OBVIOUS
<1>2. CASE k = 1
  BY <1>1, <1>2 DEF Circle, At
<1>3. CASE k # 1
  <2>1. m \in Nat \ {0} /\ a \in Int /\ -m < a /\ a < m
    BY <1>3
  <2>2. a % m = IF a >= 0 THEN a ELSE a + m
    <3> HIDE DEF m, a
    <3>1. QED
      BY <2>1, Turn
  <2>3. 2 + (a % m) = At(n, w, k)
    BY <2>1, <2>2, <1>3 DEF At
  <2>4. At(n, w, k) \in 1..n
    BY PlacesAndPeople
  <2>5. Circle(ids, w)[k] = ids[2 + (a % m)]
    BY <1>1, <1>3 DEF Circle
  <2>6. QED
    BY <1>1, <2>3, <2>4, <2>5
<1>4. QED
  BY <1>2, <1>3

\* The k-th pair of a week: the k-th place against the k-th from the end, on
\* grounds that alternate.
PairAt(n, w, k) ==
  IF (w + k - 1) % 2 = 0 THEN <<At(n, w, k), At(n, w, n + 1 - k)>>
                         ELSE <<At(n, w, n + 1 - k), At(n, w, k)>>

LEMMA RoundRobin ==
  ASSUME NEW half \in Nat, half >= 1, NEW n, n = 2 * half
  PROVE  round_robin([i \in 1..n |-> i])
           = [week \in 1..(n - 1) |-> [k \in 1..half |-> PairAt(n, week - 1, k)]]
<1> DEFINE ids == [i \in 1..n |-> i]
<1>1. n \in Nat /\ n >= 2 /\ n \div 2 = half
  OBVIOUS
<1>2. Len(ids) = n
  BY <1>1
<1>3. ASSUME NEW week \in 1..(n - 1), NEW k \in 1..half
      PROVE  Pair(Circle(ids, week - 1), week - 1, k) = PairAt(n, week - 1, k)
  <2> DEFINE w == week - 1
             c == Circle(ids, w)
  <2>1. w \in 0..(n - 2) /\ k \in 1..n /\ n + 1 - k \in 1..n
    BY <1>1
  <2>2. c[k] = At(n, w, k) /\ c[n + 1 - k] = At(n, w, n + 1 - k)
    BY <1>1, <2>1, CircleTurned
  <2>3. Len(c) = n
    BY <1>1, <1>2 DEF Circle
  <2> HIDE DEF c, w
  <2>4. Pair(c, w, k) = PairAt(n, w, k)
    BY <2>2, <2>3 DEF Pair, PairAt
  <2>5. QED
    BY <2>4 DEF c, w
<1> HIDE DEF ids
<1>4. round_robin(ids) = [week \in 1..(n - 1) |->
                            [k \in 1..half |-> Pair(Circle(ids, week - 1), week - 1, k)]]
  BY <1>1, <1>2 DEF round_robin
<1>5. QED
  BY <1>3, <1>4 DEF ids

\* Two who face each other sit at places that mirror one another.
Faces(n, w, p, q) == Place(n, w, p) + Place(n, w, q) = n + 1

\* There is one week in which two participants face each other.
LEMMA OneMeeting ==
  ASSUME NEW half \in Nat, half >= 1, NEW n, n = 2 * half,
         NEW p \in 1..n, NEW q \in 1..n, p # q
  PROVE  /\ \E w \in 0..(n - 2) : Faces(n, w, p, q)
         /\ \A w, v \in 0..(n - 2) : Faces(n, w, p, q) /\ Faces(n, v, p, q) => w = v
<1>1. n \in Nat /\ n >= 2
  OBVIOUS
<1>2. \A w, v \in 0..(n - 2) : Faces(n, w, p, q) /\ Faces(n, v, p, q) => w = v
  BY <1>1 DEF Faces, Place
<1>3. CASE p = 1
  <2>1. n - q \in 0..(n - 2) /\ Faces(n, n - q, p, q)
    BY <1>1, <1>3 DEF Faces, Place
  <2>2. QED
    BY <1>2, <2>1
<1>4. CASE q = 1
  <2>1. n - p \in 0..(n - 2) /\ Faces(n, n - p, p, q)
    BY <1>1, <1>4 DEF Faces, Place
  <2>2. QED
    BY <1>2, <2>1
<1>5. CASE p # 1 /\ q # 1
  <2>1. PICK h \in Nat : p + q = 2 * h \/ p + q = 2 * h + 1
    <3>1. (p + q) \div 2 \in Nat
      OBVIOUS
    <3>2. QED
      BY <3>1
  <2>2. CASE p + q = 2 * h
    <3>1. n - h \in 0..(n - 2) /\ Faces(n, n - h, p, q)
      BY <1>1, <1>5, <2>2 DEF Faces, Place
    <3>2. QED
      BY <1>2, <3>1
  <2>3. CASE p + q = 2 * h + 1 /\ h <= half
    <3>1. half - h \in 0..(n - 2) /\ Faces(n, half - h, p, q)
      BY <1>1, <1>5, <2>3 DEF Faces, Place
    <3>2. QED
      BY <1>2, <3>1
  <2>4. CASE p + q = 2 * h + 1 /\ h > half
    <3> DEFINE w == 3 * half - 1 - h
    <3>1. w \in 0..(n - 2) /\ Faces(n, w, p, q)
      BY <1>1, <1>5, <2>4 DEF Faces, Place
    <3>2. QED
      BY <1>2, <3>1
  <2>5. QED
    BY <2>1, <2>2, <2>3, <2>4
<1>6. QED
  BY <1>3, <1>4, <1>5

\* Where a participant plays in a week: at which pair, and against whom.
Spot(n, half, w, p) ==
  IF Place(n, w, p) <= half THEN Place(n, w, p) ELSE n + 1 - Place(n, w, p)

\* The k-th pair of a week has p in it just when k is his spot.
AloneAt(n, half, w, p, spot) ==
  /\ spot \in 1..half
  /\ \A k \in 1..half : (p \in {PairAt(n, w, k)[1], PairAt(n, w, k)[2]}) <=> (k = spot)

\* Everybody is in one pair of every week.
LEMMA OnePair ==
  ASSUME NEW half \in Nat, half >= 1, NEW n, n = 2 * half,
         NEW w \in 0..(n - 2), NEW p \in 1..n
  PROVE  AloneAt(n, half, w, p, Spot(n, half, w, p))
<1>1. n \in Nat /\ n >= 2
  OBVIOUS
<1>2. Place(n, w, p) \in 1..n /\ At(n, w, Place(n, w, p)) = p
  BY <1>1, PlacesAndPeople
<1>3. Spot(n, half, w, p) \in 1..half
  BY <1>2 DEF Spot
<1>4. ASSUME NEW k \in 1..half
      PROVE  (p \in {PairAt(n, w, k)[1], PairAt(n, w, k)[2]})
               <=> (k = Spot(n, half, w, p))
  <2>1. k \in 1..n /\ n + 1 - k \in 1..n
    OBVIOUS
  <2>2. Place(n, w, At(n, w, k)) = k /\ Place(n, w, At(n, w, n + 1 - k)) = n + 1 - k
    BY <1>1, <2>1, PlacesAndPeople
  <2>3. {PairAt(n, w, k)[1], PairAt(n, w, k)[2]} = {At(n, w, k), At(n, w, n + 1 - k)}
    BY DEF PairAt
  <2>4. p = At(n, w, k) <=> Place(n, w, p) = k
    BY <1>2, <2>2
  <2>5. p = At(n, w, n + 1 - k) <=> Place(n, w, p) = n + 1 - k
    BY <1>2, <2>2
  <2>6. k = Spot(n, half, w, p) <=> Place(n, w, p) = k \/ Place(n, w, p) = n + 1 - k
    BY <1>2, <2>1 DEF Spot
  <2>7. QED
    BY <2>3, <2>4, <2>5, <2>6
<1>5. QED
  BY <1>3, <1>4 DEF AloneAt

\* A pair of a week are two who face each other, each of them once.
LEMMA PairsFace ==
  ASSUME NEW half \in Nat, half >= 1, NEW n, n = 2 * half,
         NEW w \in 0..(n - 2), NEW p \in 1..n, NEW q \in 1..n, p # q
  PROVE  /\ \A k \in 1..half : PairAt(n, w, k) = <<p, q>> => Faces(n, w, p, q)
         /\ Faces(n, w, p, q) =>
              \E k \in 1..half : PairAt(n, w, k) = <<p, q>> \/ PairAt(n, w, k) = <<q, p>>
<1>1. n \in Nat /\ n >= 2
  OBVIOUS
<1>2. ASSUME NEW k \in 1..half, PairAt(n, w, k) = <<p, q>> PROVE Faces(n, w, p, q)
  <2>1. k \in 1..n /\ n + 1 - k \in 1..n
    OBVIOUS
  <2>2. Place(n, w, At(n, w, k)) = k /\ Place(n, w, At(n, w, n + 1 - k)) = n + 1 - k
    BY <1>1, <2>1, PlacesAndPeople
  <2>3. \/ p = At(n, w, k) /\ q = At(n, w, n + 1 - k)
        \/ q = At(n, w, k) /\ p = At(n, w, n + 1 - k)
    BY <1>2 DEF PairAt
  <2>4. \/ Place(n, w, p) = k /\ Place(n, w, q) = n + 1 - k
        \/ Place(n, w, q) = k /\ Place(n, w, p) = n + 1 - k
    BY <2>2, <2>3, Zenon
  <2>5. QED
    BY <1>1, <2>1, <2>4 DEF Faces
<1>3. ASSUME Faces(n, w, p, q)
      PROVE  \E k \in 1..half : PairAt(n, w, k) = <<p, q>> \/ PairAt(n, w, k) = <<q, p>>
  <2> DEFINE a == Place(n, w, p)
             b == Place(n, w, q)
  <2>1. a \in 1..n /\ b \in 1..n /\ At(n, w, a) = p /\ At(n, w, b) = q
    BY <1>1, PlacesAndPeople
  <2>2. a + b = n + 1
    BY <1>3 DEF Faces
  <2> HIDE DEF a, b
  <2>3. CASE a <= half
    <3>1. b = n + 1 - a /\ a \in 1..half
      BY <2>1, <2>2, <2>3
    <3>2. PairAt(n, w, a) = <<p, q>> \/ PairAt(n, w, a) = <<q, p>>
      BY <2>1, <3>1 DEF PairAt
    <3>3. QED
      BY <3>1, <3>2
  <2>4. CASE a > half
    <3>1. a = n + 1 - b /\ b \in 1..half
      BY <2>1, <2>2, <2>4
    <3>2. PairAt(n, w, b) = <<p, q>> \/ PairAt(n, w, b) = <<q, p>>
      BY <2>1, <3>1 DEF PairAt
    <3>3. QED
      BY <3>1, <3>2
  <2>5. QED
    BY <2>1, <2>3, <2>4
<1>4. QED
  BY <1>2, <1>3

-----------------------------------------------------------------------------
(* The calendar *)

\* The weeks are those of the round robin, followed, with return legs, by the
\* same weeks on the other grounds.
LEMMA WeeksAre ==
  ASSUME NEW half \in Nat, half >= 1, Size = 2 * half, ReturnLegs \in BOOLEAN
  PROVE  /\ Len(Weeks) = (IF ReturnLegs THEN 2 ELSE 1) * (Size - 1)
         /\ DOMAIN Weeks = 1..Len(Weeks)
         /\ \A w \in 1..(Size - 1) :
              Weeks[w] = [k \in 1..half |-> PairAt(Size, w - 1, k)]
         /\ ReturnLegs => \A w \in 1..(Size - 1) :
              Weeks[Size - 1 + w] = [k \in 1..half |->
                <<PairAt(Size, w - 1, k)[2], PairAt(Size, w - 1, k)[1]>>]
<1> DEFINE ids == [i \in 1..Size |-> i]
           first == round_robin(ids)
           mirrored(week) == [k \in DOMAIN week |-> <<week[k][2], week[k][1]>>]
           second == [w \in DOMAIN first |-> mirrored(first[w])]
           n == Size
<1>1. n \in Nat /\ n >= 2
  OBVIOUS
<1>2. first = [week \in 1..(n - 1) |-> [k \in 1..half |-> PairAt(n, week - 1, k)]]
  <2> HIDE DEF n
  <2>1. n = 2 * half
    BY DEF n
  <2>2. round_robin([i \in 1..n |-> i])
          = [week \in 1..(n - 1) |-> [k \in 1..half |-> PairAt(n, week - 1, k)]]
    BY <2>1, RoundRobin
  <2>3. QED
    BY <2>2 DEF n
<1>3. Weeks = IF ~ReturnLegs THEN first ELSE first \o second
  BY DEF Weeks, Members, full_calendar
<1> HIDE DEF first
<1>4. DOMAIN first = 1..(n - 1) /\ Len(first) = n - 1 /\ first \in Seq(ToSet(first))
  <2> HIDE DEF n
  <2>1. DOMAIN first = 1..(n - 1)
    BY <1>2
  <2>2. \A w \in DOMAIN first : first[w] \in ToSet(first)
    BY DEF ToSet
  <2>3. first = [w \in 1..(n - 1) |-> first[w]] /\ n - 1 \in Nat
    BY <1>1, <1>2
  <2>4. QED
    BY <2>1, <2>2, <2>3
<1>5. second \in Seq(ToSet(second)) /\ Len(second) = n - 1 /\ DOMAIN second = 1..(n - 1)
  <2> HIDE DEF n
  <2>1. DOMAIN second = 1..(n - 1)
    BY <1>4
  <2>2. \A w \in DOMAIN second : second[w] \in ToSet(second)
    BY DEF ToSet
  <2> HIDE DEF mirrored
  <2>3. second = [w \in 1..(n - 1) |-> second[w]] /\ n - 1 \in Nat
    BY <1>1, <1>4
  <2> HIDE DEF second
  <2>4. QED
    BY <2>1, <2>2, <2>3
<1>6. \A w \in 1..(n - 1) :
        second[w] = [k \in 1..half |-> <<PairAt(n, w - 1, k)[2], PairAt(n, w - 1, k)[1]>>]
  BY <1>2, <1>4
<1> HIDE DEF second, n
<1>7. CASE ReturnLegs
  <2>1. Weeks = first \o second
    BY <1>3, <1>7
  <2> DEFINE S == ToSet(first) \cup ToSet(second)
  <2>2. first \in Seq(S) /\ second \in Seq(S)
    BY <1>4, <1>5
  <2> HIDE DEF S
  <2>3. /\ first \o second \in Seq(S) /\ Len(first \o second) = Len(first) + Len(second)
        /\ \A i \in 1..(Len(first) + Len(second)) :
             (first \o second)[i] = IF i <= Len(first) THEN first[i]
                                    ELSE second[i - Len(first)]
    BY <2>2, ConcatProperties
  <2>4. DOMAIN Weeks = 1..Len(Weeks) /\ Len(Weeks) = (n - 1) + (n - 1)
    BY <1>4, <1>5, <2>1, <2>3
  <2>5. ASSUME NEW w \in 1..(n - 1)
        PROVE  Weeks[w] = first[w] /\ Weeks[n - 1 + w] = second[w]
    <3>1. /\ w \in 1..((n - 1) + (n - 1)) /\ n - 1 + w \in 1..((n - 1) + (n - 1))
          /\ w <= n - 1 /\ ~(n - 1 + w <= n - 1) /\ (n - 1 + w) - (n - 1) = w
      BY <1>1
    <3>2. QED
      BY <1>4, <1>5, <2>1, <2>3, <3>1
  <2>6. Len(Weeks) = (IF ReturnLegs THEN 2 ELSE 1) * (Size - 1)
    BY <1>1, <1>7, <2>4 DEF n
  <2>7. /\ \A w \in 1..(n - 1) : Weeks[w] = [k \in 1..half |-> PairAt(n, w - 1, k)]
        /\ \A w \in 1..(n - 1) :
             Weeks[n - 1 + w]
               = [k \in 1..half |-> <<PairAt(n, w - 1, k)[2], PairAt(n, w - 1, k)[1]>>]
    BY <1>2, <1>6, <2>5
  <2>8. QED
    BY <2>4, <2>6, <2>7 DEF n
<1>8. CASE ~ReturnLegs
  BY <1>1, <1>2, <1>3, <1>4, <1>8 DEF n
<1>9. QED
  BY <1>7, <1>8

\* What a fixture is: a pair of some week, or one turned round.
LEMMA FixturesAre ==
  ASSUME NEW half \in Nat, half >= 1, Size = 2 * half, ReturnLegs \in BOOLEAN, NEW x
  PROVE  x \in Fixtures <=>
           \E w \in 1..(Size - 1), k \in 1..half :
             \/ x = PairAt(Size, w - 1, k)
             \/ ReturnLegs /\ x = <<PairAt(Size, w - 1, k)[2], PairAt(Size, w - 1, k)[1]>>
<1> DEFINE n == Size
           pair(w, k) == PairAt(n, w - 1, k)
           turned(w, k) == <<pair(w, k)[2], pair(w, k)[1]>>
<1>1. /\ Len(Weeks) = (IF ReturnLegs THEN 2 ELSE 1) * (n - 1) /\ DOMAIN Weeks = 1..Len(Weeks)
      /\ \A w \in 1..(n - 1) : Weeks[w] = [k \in 1..half |-> pair(w, k)]
      /\ ReturnLegs =>
           \A w \in 1..(n - 1) : Weeks[n - 1 + w] = [k \in 1..half |-> turned(w, k)]
  BY WeeksAre
<1>2. n \in Nat /\ n >= 2
  OBVIOUS
<1> HIDE DEF n, pair, turned
<1>3. x \in Fixtures <=> \E v \in DOMAIN Weeks : \E k \in DOMAIN Weeks[v] : x = Weeks[v][k]
  BY DEF Fixtures, ToSet
<1>4. ASSUME NEW v \in DOMAIN Weeks, NEW k \in DOMAIN Weeks[v], x = Weeks[v][k]
      PROVE  \E w \in 1..(n - 1), j \in 1..half :
               x = pair(w, j) \/ (ReturnLegs /\ x = turned(w, j))
  <2>1. CASE v \in 1..(n - 1)
    <3>1. Weeks[v] = [i \in 1..half |-> pair(v, i)]
      BY <1>1, <2>1
    <3>2. k \in 1..half /\ x = pair(v, k)
      BY <1>4, <3>1
    <3>3. QED
      BY <2>1, <3>2
  <2>2. CASE v \notin 1..(n - 1)
    <3>1. /\ ReturnLegs /\ v - (n - 1) \in 1..(n - 1) /\ n - 1 + (v - (n - 1)) = v
      BY <1>1, <1>2, <1>4, <2>2
    <3>2. Weeks[v] = [j \in 1..half |-> turned(v - (n - 1), j)]
      BY <1>1, <3>1
    <3>3. QED
      BY <1>4, <3>1, <3>2
  <2>3. QED
    BY <2>1, <2>2
<1>5. ASSUME NEW w \in 1..(n - 1), NEW j \in 1..half
      PROVE  /\ x = pair(w, j) => x \in Fixtures
             /\ ReturnLegs /\ x = turned(w, j) => x \in Fixtures
  <2>1. w \in DOMAIN Weeks /\ (ReturnLegs => n - 1 + w \in DOMAIN Weeks)
    BY <1>1, <1>2
  <2>2. Weeks[w] = [k \in 1..half |-> pair(w, k)]
    BY <1>1
  <2>3. ReturnLegs => Weeks[n - 1 + w] = [k \in 1..half |-> turned(w, k)]
    BY <1>1
  <2>4. QED
    BY <1>3, <2>1, <2>2, <2>3
<1>6. x \in Fixtures <=> \E w \in 1..(n - 1), k \in 1..half :
                           x = pair(w, k) \/ (ReturnLegs /\ x = turned(w, k))
  BY <1>3, <1>4, <1>5
<1>7. QED
  BY <1>6 DEF n, pair, turned

\* Two participants have one fixture, on one ground; with return legs, one on each.
LEMMA EverybodyMeets ==
  ASSUME NEW half \in Nat, half >= 1, Size = 2 * half, ReturnLegs \in BOOLEAN,
         NEW p \in 1..Size, NEW q \in 1..Size, p # q
  PROVE  IF ReturnLegs THEN <<p, q>> \in Fixtures
         ELSE (<<p, q>> \in Fixtures) # (<<q, p>> \in Fixtures)
<1> DEFINE n == Size
           Given(x, w, k) == x = PairAt(n, w - 1, k)
           Drawn(x) == \E w \in 1..(n - 1), k \in 1..half : Given(x, w, k)
<1>1. n = 2 * half /\ n \in Nat /\ n >= 2
  OBVIOUS
<1>2. /\ <<p, q>> \in Fixtures <=> Drawn(<<p, q>>) \/ (ReturnLegs /\ Drawn(<<q, p>>))
      /\ <<q, p>> \in Fixtures <=> Drawn(<<q, p>>) \/ (ReturnLegs /\ Drawn(<<p, q>>))
  <2>1. ASSUME NEW w \in 1..(n - 1), NEW k \in 1..half
        PROVE  /\ <<p, q>> = <<PairAt(n, w - 1, k)[2], PairAt(n, w - 1, k)[1]>>
                    <=> Given(<<q, p>>, w, k)
               /\ <<q, p>> = <<PairAt(n, w - 1, k)[2], PairAt(n, w - 1, k)[1]>>
                    <=> Given(<<p, q>>, w, k)
    BY DEF PairAt
  <2>2. ASSUME NEW x
        PROVE  x \in Fixtures <=>
                 \E w \in 1..(n - 1), k \in 1..half :
                   \/ Given(x, w, k)
                   \/ ReturnLegs /\ x = <<PairAt(n, w - 1, k)[2], PairAt(n, w - 1, k)[1]>>
    BY FixturesAre
  <2> HIDE DEF Given, n
  <2>3. QED
    BY <2>1, <2>2
<1> HIDE DEF n
<1>3. Drawn(<<p, q>>) \/ Drawn(<<q, p>>)
  <2>1. PICK w \in 0..(n - 2) : Faces(n, w, p, q)
    <3>1. p \in 1..n /\ q \in 1..n
      BY DEF n
    <3>2. QED
      BY <1>1, <3>1, OneMeeting
  <2>2. PICK k \in 1..half : PairAt(n, w, k) = <<p, q>> \/ PairAt(n, w, k) = <<q, p>>
    <3>1. p \in 1..n /\ q \in 1..n
      BY DEF n
    <3>2. QED
      BY <1>1, <2>1, <3>1, PairsFace
  <2>3. w + 1 \in 1..(n - 1) /\ (w + 1) - 1 = w
    BY <1>1
  <2>4. QED
    BY <2>2, <2>3
<1>4. ~(Drawn(<<p, q>>) /\ Drawn(<<q, p>>))
  <2>1. SUFFICES ASSUME Drawn(<<p, q>>), Drawn(<<q, p>>) PROVE FALSE
    OBVIOUS
  <2>2. PICK w \in 1..(n - 1), k \in 1..half : <<p, q>> = PairAt(n, w - 1, k)
    BY <2>1
  <2>3. PICK v \in 1..(n - 1), j \in 1..half : <<q, p>> = PairAt(n, v - 1, j)
    BY <2>1
  <2>4. p \in 1..n /\ q \in 1..n /\ w - 1 \in 0..(n - 2) /\ v - 1 \in 0..(n - 2)
    BY <1>1 DEF n
  <2>5. Faces(n, w - 1, p, q) /\ Faces(n, v - 1, q, p)
    BY <1>1, <2>2, <2>3, <2>4, PairsFace
  <2>6. Faces(n, v - 1, p, q)
    <3>1. Place(n, v - 1, p) \in 1..n /\ Place(n, v - 1, q) \in 1..n
      BY <1>1, <2>4, PlacesAndPeople
    <3>2. QED
      BY <2>5, <3>1 DEF Faces
  <2>7. w - 1 = v - 1
    BY <1>1, <2>4, <2>5, <2>6, OneMeeting
  <2>8. k = Spot(n, half, w - 1, p) /\ j = Spot(n, half, w - 1, p)
    <3>1. p \in {PairAt(n, w - 1, k)[1], PairAt(n, w - 1, k)[2]}
      BY <2>2
    <3>2. p \in {PairAt(n, w - 1, j)[1], PairAt(n, w - 1, j)[2]}
      BY <2>3, <2>7
    <3>3. AloneAt(n, half, w - 1, p, Spot(n, half, w - 1, p))
      BY <1>1, <2>4, OnePair
    <3>4. QED
      BY <3>1, <3>2, <3>3 DEF AloneAt
  <2>9. QED
    BY <2>2, <2>3, <2>7, <2>8
<1>5. QED
  BY <1>2, <1>3, <1>4

\* Everybody plays once a week.
LEMMA OncePerWeek ==
  ASSUME NEW half \in Nat, half >= 1, Size = 2 * half, ReturnLegs \in BOOLEAN,
         NEW w \in DOMAIN Weeks, NEW p \in 1..Size
  PROVE  \E one \in DOMAIN Weeks[w] : \A k \in DOMAIN Weeks[w] :
           (p \in {Weeks[w][k][1], Weeks[w][k][2]}) = (k = one)
<1> DEFINE n == Size
           pair(v, k) == PairAt(n, v - 1, k)
<1>1. /\ Len(Weeks) = (IF ReturnLegs THEN 2 ELSE 1) * (n - 1) /\ DOMAIN Weeks = 1..Len(Weeks)
      /\ \A v \in 1..(n - 1) : Weeks[v] = [k \in 1..half |-> pair(v, k)]
      /\ ReturnLegs =>
           \A v \in 1..(n - 1) :
             Weeks[n - 1 + v] = [k \in 1..half |-> <<pair(v, k)[2], pair(v, k)[1]>>]
  BY WeeksAre
<1>2. n \in Nat /\ n >= 2 /\ n = 2 * half /\ p \in 1..n
  OBVIOUS
<1> HIDE DEF n, pair
<1>3. PICK v \in 1..(n - 1) :
        /\ DOMAIN Weeks[w] = 1..half
        /\ \A k \in 1..half : \/ Weeks[w][k] = pair(v, k)
                              \/ Weeks[w][k] = <<pair(v, k)[2], pair(v, k)[1]>>
  <2>1. CASE w \in 1..(n - 1)
    <3>1. Weeks[w] = [k \in 1..half |-> pair(w, k)]
      BY <1>1, <2>1
    <3>2. QED
      BY <2>1, <3>1
  <2>2. CASE w \notin 1..(n - 1)
    <3>1. /\ ReturnLegs /\ w - (n - 1) \in 1..(n - 1) /\ n - 1 + (w - (n - 1)) = w
      BY <1>1, <1>2, <2>2
    <3> DEFINE v == w - (n - 1)
    <3>2. Weeks[w] = [k \in 1..half |-> <<pair(v, k)[2], pair(v, k)[1]>>]
      BY <1>1, <3>1
    <3>3. QED
      BY <3>1, <3>2
  <2>3. QED
    BY <2>1, <2>2
<1> DEFINE one == Spot(n, half, v - 1, p)
<1>4. AloneAt(n, half, v - 1, p, one)
  <2>1. v - 1 \in 0..(n - 2)
    BY <1>2
  <2>2. QED
    BY <1>2, <2>1, OnePair
<1> HIDE DEF one
<1>5. ASSUME NEW k \in 1..half
      PROVE  (p \in {Weeks[w][k][1], Weeks[w][k][2]}) = (k = one)
  <2>1. {Weeks[w][k][1], Weeks[w][k][2]} = {PairAt(n, v - 1, k)[1], PairAt(n, v - 1, k)[2]}
    BY <1>3 DEF pair
  <2>2. QED
    BY <1>4, <2>1 DEF AloneAt
<1>6. QED
  BY <1>3, <1>4, <1>5 DEF AloneAt

\* A league has an even number of members.
LEMMA EvenSize ==
  ASSUME league \in Leagues
  PROVE  /\ ReturnLegs \in BOOLEAN
         /\ \E half \in Nat : half >= 1 /\ Size = 2 * half
<1>1. Size \in Nat \ {0} /\ Size % 2 = 0 /\ ReturnLegs \in BOOLEAN
  BY TableAssumption DEF TableAssumption, Size, ReturnLegs
<1>2. Size \div 2 \in Nat /\ Size \div 2 >= 1 /\ Size = 2 * (Size \div 2)
  BY <1>1
<1>3. QED
  BY <1>1, <1>2

LEMMA CalendarOfLeague ==
  ASSUME league \in Leagues
  PROVE  CalendarIsRoundRobin
<1>1. ReturnLegs \in BOOLEAN
  BY EvenSize
<1>2. PICK half \in Nat : half >= 1 /\ Size = 2 * half
  BY EvenSize
<1>3. \A w \in DOMAIN Weeks : \A p \in Members :
       \E one \in DOMAIN Weeks[w] : \A k \in DOMAIN Weeks[w] :
         (p \in {Weeks[w][k][1], Weeks[w][k][2]}) = (k = one)
  BY <1>1, <1>2, OncePerWeek DEF Members
<1>4. Len(Weeks) = (IF ReturnLegs THEN 2 ELSE 1) * (Size - 1)
  BY <1>1, <1>2, WeeksAre
<1>5. \A p, q \in Members : p # q =>
       IF ReturnLegs THEN <<p, q>> \in Fixtures
                     ELSE (<<p, q>> \in Fixtures) # (<<q, p>> \in Fixtures)
  BY <1>1, <1>2, EverybodyMeets DEF Members
<1>6. QED
  BY <1>3, <1>4, <1>5 DEF CalendarIsRoundRobin

\* For every even number of members: everybody plays exactly once a week, and
\* meets every other once, or with return legs once on each ground.
THEOREM CalendarIsComplete == Spec => []CalendarIsRoundRobin
<1>1. Init => league \in Leagues
  BY DEF Init
<1>2. league \in Leagues /\ [Next]_vars => (league \in Leagues)'
  BY DEF Next, Resolve, vars
<1>3. QED
  BY <1>1, <1>2, CalendarOfLeague, PTL DEF Spec

-----------------------------------------------------------------------------
(* The table *)

\* Tuples of integers compared from the left are in order.
LEMMA TuplesOrdered ==
  ASSUME NEW n \in Nat, NEW a \in [1..n -> Int], NEW b \in [1..n -> Int], NEW c \in [1..n -> Int]
  PROVE  /\ ~Exceeds(a, a)
         /\ Exceeds(a, b) /\ Exceeds(b, c) => Exceeds(a, c)
         /\ Exceeds(a, b) => ~Exceeds(b, a)
         /\ a = b \/ Exceeds(a, b) \/ Exceeds(b, a)
<1>1. ~Exceeds(a, a)
  BY DEF Exceeds
<1>2. ASSUME Exceeds(a, b), Exceeds(b, c) PROVE Exceeds(a, c)
  <2>1. PICK i \in 1..n : a[i] > b[i] /\ \A j \in 1..(i - 1) : a[j] = b[j]
    BY <1>2 DEF Exceeds
  <2>2. PICK k \in 1..n : b[k] > c[k] /\ \A j \in 1..(k - 1) : b[j] = c[j]
    BY <1>2 DEF Exceeds
  <2>3. CASE i <= k
    <3>1. a[i] > c[i] /\ \A j \in 1..(i - 1) : a[j] = c[j]
      BY <2>1, <2>2, <2>3
    <3>2. QED
      BY <3>1 DEF Exceeds
  <2>4. CASE k < i
    <3>1. a[k] > c[k] /\ \A j \in 1..(k - 1) : a[j] = c[j]
      BY <2>1, <2>2, <2>4
    <3>2. QED
      BY <3>1 DEF Exceeds
  <2>5. QED
    BY <2>3, <2>4
<1>3. ASSUME Exceeds(a, b), Exceeds(b, a) PROVE FALSE
  <2>1. PICK i \in 1..n : a[i] > b[i] /\ \A j \in 1..(i - 1) : a[j] = b[j]
    BY <1>3 DEF Exceeds
  <2>2. PICK k \in 1..n : b[k] > a[k] /\ \A j \in 1..(k - 1) : b[j] = a[j]
    BY <1>3 DEF Exceeds
  <2>3. i < k \/ k < i \/ i = k
    OBVIOUS
  <2>4. QED
    BY <2>1, <2>2, <2>3
<1>4. ASSUME a # b PROVE Exceeds(a, b) \/ Exceeds(b, a)
  <2> DEFINE T == {i \in 1..n : a[i] # b[i]}
  <2>1. T # {} /\ T \subseteq Nat
    <3>1. ASSUME \A i \in 1..n : a[i] = b[i] PROVE a = b
      BY <3>1
    <3>2. \E i \in 1..n : a[i] # b[i]
      BY <1>4, <3>1
    <3>3. PICK i \in 1..n : a[i] # b[i]
      BY <3>2
    <3>4. i \in T
      BY <3>3
    <3>5. T \subseteq Nat
      OBVIOUS
    <3>6. QED
      BY <3>4, <3>5
  <2>2. PICK i \in T : \A j \in T : i <= j
    <3> HIDE DEF T
    <3>1. QED
      BY <2>1, Least
  <2>3. \A j \in 1..(i - 1) : a[j] = b[j]
    BY <2>2
  <2>4. a[i] > b[i] \/ b[i] > a[i]
    BY <2>2
  <2>5. QED
    BY <2>2, <2>3, <2>4 DEF Exceeds
<1>5. QED
  BY <1>1, <1>2, <1>3, <1>4

\* Fixtures are played between two members, with a score.
AreResults(S) ==
  /\ IsFiniteSet(S)
  /\ \A r \in S : r.home # r.away /\ r.scored \in Nat /\ r.conceded \in Nat

Tabled == league \in Leagues /\ AreResults(results)

\* What a row adds up to are integers.
LEMMA RowsAreInt ==
  ASSUME NEW S, AreResults(S), NEW p
  PROVE  /\ Row(S, p).points \in Int /\ Row(S, p).difference \in Int
         /\ Row(S, p).scored \in Int /\ Row(S, p).away \in Int
<1> DEFINE side(r) == Side(r, p)
           a == [r \in S |-> Points(side(r).scored, side(r).conceded)]
           b == [r \in S |-> side(r).scored - side(r).conceded]
           c == [r \in S |-> side(r).scored]
           d == [r \in S |-> side(r).away]
<1>1. \A r \in S : side(r).scored \in Nat /\ side(r).conceded \in Nat /\ side(r).away \in Nat
  BY DEF AreResults, Side
<1> HIDE DEF side
<1>2. \A r \in S : a[r] \in Int /\ b[r] \in Int /\ c[r] \in Int /\ d[r] \in Int
  BY <1>1 DEF Points
<1>3. DOMAIN a = S /\ DOMAIN b = S /\ DOMAIN c = S /\ DOMAIN d = S
  OBVIOUS
<1>4. /\ Row(S, p).points = SumFunction(a) /\ Row(S, p).difference = SumFunction(b)
      /\ Row(S, p).scored = SumFunction(c) /\ Row(S, p).away = SumFunction(d)
  BY DEF Row, side
<1> HIDE DEF a, b, c, d
<1>5. IsFiniteSet(S)
  BY DEF AreResults
<1>6. /\ SumFunction(a) \in Int /\ SumFunction(b) \in Int
      /\ SumFunction(c) \in Int /\ SumFunction(d) \in Int
  BY <1>2, <1>3, <1>5, SumIsInt DEF SumFunction
<1>7. QED
  BY <1>4, <1>6

\* The key of the last three tie-breaks and of the ids.
TieOf(S, p) == TieBreak(Level(Members, S, p), S, p, ReturnLegs)

\* Who is above whom: by the table, or level in it and by the tie-breaks.
Above(S, p) ==
  {q \in Members : \/ Exceeds(Overall(S, q), Overall(S, p))
                   \/ Overall(S, q) = Overall(S, p) /\ Exceeds(TieOf(S, q), TieOf(S, p))}

\* The keys are tuples of integers, and no two participants have the same.
LEMMA KeysAreTuples ==
  ASSUME NEW S, AreResults(S), NEW p \in Members, Members \subseteq Int
  PROVE  /\ Overall(S, p) \in [1..3 -> Int]
         /\ TieOf(S, p) \in [1..4 -> Int] /\ TieOf(S, p)[4] = -p
<1>1. AreResults(Played(S, p))
  BY FS_Subset DEF Played, AreResults
<1>2. Overall(S, p) \in [1..3 -> Int]
  BY <1>1, RowsAreInt DEF Overall
<1> DEFINE group == Level(Members, S, p)
           met == {r \in Played(S, p) : Side(r, p).against \in group}
           away == Row(Played(S, p), p).away
           mini == Row(met, p)
<1>3. AreResults(met)
  BY <1>1, FS_Subset DEF AreResults
<1>4. away \in Int /\ mini.points \in Int /\ mini.difference \in Int
  <2> HIDE DEF met
  <2>1. QED
    BY <1>1, <1>3, RowsAreInt
<1>5. TieOf(S, p) = <<mini.points, mini.difference, IF ReturnLegs THEN away ELSE 0, -p>>
  BY DEF TieOf, TieBreak, MiniLeague
<1> HIDE DEF mini, away
<1>6. QED
  BY <1>2, <1>4, <1>5

\* A rank counts those above.
LEMMA RankCounts ==
  ASSUME NEW S, AreResults(S), NEW p \in Members, Members \subseteq Int, IsFiniteSet(Members)
  PROVE  Rank(Members, S, ReturnLegs, p) = 1 + Cardinality(Above(S, p))
<1> DEFINE overall == [q \in Members |-> Overall(S, q)]
           group == {q \in Members : overall[q] = overall[p]}
           tie == [q \in group |-> TieBreak(group, S, q, ReturnLegs)]
           better == {q \in Members : Exceeds(overall[q], overall[p])}
           preferred == {q \in group : Exceeds(tie[q], tie[p])}
<1>1. Rank(Members, S, ReturnLegs, p) = 1 + Cardinality(better) + Cardinality(preferred)
  BY DEF Rank
<1>2. ASSUME NEW q \in group PROVE Level(Members, S, q) = group
  BY <1>2 DEF Level
<1>3. \A q \in group : tie[q] = TieOf(S, q)
  BY <1>2, Zenon DEF TieOf
<1>4. p \in group
  OBVIOUS
<1>5. preferred = {q \in Members : /\ Overall(S, q) = Overall(S, p)
                                   /\ Exceeds(TieOf(S, q), TieOf(S, p))}
  <2> HIDE DEF tie
  <2>1. QED
    BY <1>3, <1>4
<1>6. better = {q \in Members : Exceeds(Overall(S, q), Overall(S, p))}
  OBVIOUS
<1> HIDE DEF better, preferred
<1>7. better \cap preferred = {}
  <2>1. \A q \in Members : Overall(S, q) \in [1..3 -> Int]
    BY KeysAreTuples
  <2>2. \A q \in Members : Overall(S, q) = Overall(S, p) => ~Exceeds(Overall(S, q), Overall(S, p))
    BY <2>1, TuplesOrdered
  <2>3. QED
    BY <1>5, <1>6, <2>2
<1>8. Above(S, p) = better \cup preferred
  BY <1>5, <1>6 DEF Above
<1>9. better \subseteq Members /\ preferred \subseteq Members
  BY <1>5, <1>6
<1>10. /\ IsFiniteSet(better) /\ IsFiniteSet(preferred)
       /\ Cardinality(better) \in Nat /\ Cardinality(preferred) \in Nat
  BY <1>9, FS_Subset, FS_CardinalityType
<1>11. Cardinality(better \cup preferred) = Cardinality(better) + Cardinality(preferred)
  <2>1. Cardinality({}) = 0
    BY FS_EmptySet
  <2>2. Cardinality(better \cup preferred)
          = Cardinality(better) + Cardinality(preferred) - Cardinality({})
    BY <1>7, <1>10, FS_Union
  <2>3. QED
    BY <1>10, <2>1, <2>2
<1>12. QED
  BY <1>1, <1>8, <1>10, <1>11

\* Being above is a total order.
LEMMA AboveOrders ==
  ASSUME NEW S, AreResults(S), Members \subseteq Int,
         NEW p \in Members, NEW q \in Members
  PROVE  /\ Above(S, p) \subseteq Members /\ p \notin Above(S, p)
         /\ q \in Above(S, p) => Above(S, q) \subseteq Above(S, p)
         /\ p = q \/ q \in Above(S, p) \/ p \in Above(S, q)
<1> DEFINE o(x) == Overall(S, x)
           t(x) == TieOf(S, x)
<1>1. \A x \in Members : o(x) \in [1..3 -> Int] /\ t(x) \in [1..4 -> Int] /\ t(x)[4] = -x
  BY KeysAreTuples
<1>2. \A x \in Members : \A y :
        y \in Above(S, x) <=>
          y \in Members /\ (Exceeds(o(y), o(x)) \/ (o(y) = o(x) /\ Exceeds(t(y), t(x))))
  BY DEF Above
<1> HIDE DEF o, t
<1>3. /\ \A x \in Members : ~Exceeds(o(x), o(x)) /\ ~Exceeds(t(x), t(x))
      /\ \A x, y, z \in Members :
           /\ Exceeds(o(x), o(y)) /\ Exceeds(o(y), o(z)) => Exceeds(o(x), o(z))
           /\ Exceeds(t(x), t(y)) /\ Exceeds(t(y), t(z)) => Exceeds(t(x), t(z))
      /\ \A x, y \in Members :
           /\ o(x) = o(y) \/ Exceeds(o(x), o(y)) \/ Exceeds(o(y), o(x))
           /\ t(x) = t(y) \/ Exceeds(t(x), t(y)) \/ Exceeds(t(y), t(x))
  <2>1. 3 \in Nat /\ 4 \in Nat
    OBVIOUS
  <2>2. QED
    BY <1>1, <2>1, TuplesOrdered
<1>4. \A x, y \in Members : t(x) = t(y) => x = y
  BY <1>1
<1>5. Above(S, p) \subseteq Members /\ p \notin Above(S, p)
  BY <1>2, <1>3
<1>6. ASSUME q \in Above(S, p), NEW z \in Above(S, q) PROVE z \in Above(S, p)
  <2>1. z \in Members
    BY <1>2, <1>6
  <2>2. /\ Exceeds(o(q), o(p)) \/ (o(q) = o(p) /\ Exceeds(t(q), t(p)))
        /\ Exceeds(o(z), o(q)) \/ (o(z) = o(q) /\ Exceeds(t(z), t(q)))
    BY <1>2, <1>6
  <2>3. Exceeds(o(z), o(p)) \/ (o(z) = o(p) /\ Exceeds(t(z), t(p)))
    BY <1>3, <2>1, <2>2
  <2>4. QED
    BY <1>2, <2>1, <2>3
<1>7. p = q \/ q \in Above(S, p) \/ p \in Above(S, q)
  BY <1>2, <1>3, <1>4
<1>8. QED
  BY <1>5, <1>6, <1>7

-----------------------------------------------------------------------------
(* Results arriving *)

LEMMA MembersAre ==
  ASSUME league \in Leagues
  PROVE  /\ Size \in Nat /\ Members \subseteq Int
         /\ IsFiniteSet(Members) /\ Cardinality(Members) = Size
<1>1. Size \in Nat \ {0}
  BY TableAssumption DEF TableAssumption, Size
<1>2. IsFiniteSet(1..Size) /\ Cardinality(1..Size) = Size
  BY <1>1, FS_Interval
<1>3. QED
  BY <1>1, <1>2 DEF Members

LEMMA TabledInit == Init => Tabled
  BY FS_EmptySet DEF Init, Tabled, AreResults

\* A fixture is played by two different members.
LEMMA FixturesOppose ==
  ASSUME league \in Leagues, NEW p, NEW q, <<p, q>> \in Fixtures
  PROVE  p # q
<1>1. ReturnLegs \in BOOLEAN
  BY EvenSize
<1>2. PICK half \in Nat : half >= 1 /\ Size = 2 * half
  BY EvenSize
<1>3. PICK w \in 1..(Size - 1), k \in 1..half :
        \/ <<p, q>> = PairAt(Size, w - 1, k)
        \/ <<p, q>> = <<PairAt(Size, w - 1, k)[2], PairAt(Size, w - 1, k)[1]>>
  BY <1>1, <1>2, FixturesAre
<1> DEFINE n == Size
           a == At(n, w - 1, k)
           b == At(n, w - 1, n + 1 - k)
<1>4. {p, q} = {a, b}
  BY <1>3 DEF PairAt
<1>5. a # b
  <2>1. n \in Nat /\ n >= 2 /\ w - 1 \in 0..(n - 2) /\ k \in 1..n /\ n + 1 - k \in 1..n
        /\ k # n + 1 - k
    BY <1>2
  <2> HIDE DEF n
  <2>2. Place(n, w - 1, a) = k /\ Place(n, w - 1, b) = n + 1 - k
    BY <2>1, PlacesAndPeople
  <2>3. QED
    BY <2>1, <2>2
<1> HIDE DEF a, b
<1>6. QED
  BY <1>4, <1>5

\* A fixture that is resolved adds one result, of a fixture that had none.
LEMMA ResolveAdds ==
  ASSUME Tabled, NEW home, NEW away, Resolve(home, away)
  PROVE  /\ home # away
         /\ \E r : /\ results' = results \cup {r} /\ r \notin results
                   /\ r.home = home /\ r.away = away
                   /\ r.scored \in Nat /\ r.conceded \in Nat
<1>1. home # away
  BY FixturesOppose DEF Tabled, Resolve
<1>2. PICK s \in Scores, c \in Scores :
        results' = results \cup {[home |-> home, away |-> away, scored |-> s, conceded |-> c]}
  BY DEF Resolve
<1> DEFINE r == [home |-> home, away |-> away, scored |-> s, conceded |-> c]
<1>3. /\ r.home = home /\ r.away = away /\ r.scored \in Nat /\ r.conceded \in Nat
  BY TableAssumption DEF TableAssumption
<1>4. r \notin results
  BY <1>3 DEF Resolve
<1>5. QED
  BY <1>1, <1>2, <1>3, <1>4

LEMMA TabledStep == Tabled /\ [Next]_vars => Tabled'
<1>1. SUFFICES ASSUME Tabled, [Next]_vars PROVE Tabled'
  OBVIOUS
<1>2. ASSUME NEW home, NEW away, Resolve(home, away) PROVE Tabled'
  <2>1. PICK r : /\ results' = results \cup {r} /\ home # away
                 /\ r.home = home /\ r.away = away
                 /\ r.scored \in Nat /\ r.conceded \in Nat
    BY <1>1, <1>2, ResolveAdds
  <2>2. IsFiniteSet(results')
    BY <1>1, <2>1, FS_AddElement DEF Tabled, AreResults
  <2>3. QED
    BY <1>1, <1>2, <2>1, <2>2 DEF Tabled, AreResults, Resolve
<1>3. QED
  BY <1>1, <1>2 DEF Next, vars, Tabled

-----------------------------------------------------------------------------
(* Places *)

\* Who is above somebody has a better rank.
LEMMA AboveRanksBetter ==
  ASSUME league \in Leagues, NEW S, AreResults(S), NEW p \in Members, NEW q \in Members,
         p \in Above(S, q)
  PROVE  RankOf(S, p) < RankOf(S, q)
<1>1. Members \subseteq Int /\ IsFiniteSet(Members)
  BY MembersAre
<1>2. /\ Above(S, p) \subseteq Members /\ Above(S, q) \subseteq Members
      /\ p \notin Above(S, p) /\ Above(S, p) \subseteq Above(S, q)
  BY <1>1, AboveOrders
<1>3. /\ IsFiniteSet(Above(S, p)) /\ IsFiniteSet(Above(S, q))
      /\ Cardinality(Above(S, p)) \in Nat /\ Cardinality(Above(S, q)) \in Nat
  BY <1>1, <1>2, FS_Subset, FS_CardinalityType
<1>4. /\ Cardinality(Above(S, p) \cup {p}) = Cardinality(Above(S, p)) + 1
      /\ Above(S, p) \cup {p} \subseteq Above(S, q)
  BY <1>2, <1>3, FS_AddElement
<1>5. Cardinality(Above(S, p) \cup {p}) <= Cardinality(Above(S, q))
  BY <1>3, <1>4, FS_Subset
<1>6. /\ RankOf(S, p) = 1 + Cardinality(Above(S, p))
      /\ RankOf(S, q) = 1 + Cardinality(Above(S, q))
  BY <1>1, RankCounts DEF RankOf
<1>7. QED
  BY <1>3, <1>4, <1>5, <1>6

\* What two participants played against each other is what the mini-league of
\* the two counts.
LEMMA MiniLeagueOfTwo ==
  ASSUME NEW S, AreResults(S), NEW p, NEW q, p # q
  PROVE  {r \in Played(S, p) : Side(r, p).against \in {p, q}} = Played(S, p) \cap Played(S, q)
<1>1. ASSUME NEW r \in S, p \in {r.home, r.away}
      PROVE  Side(r, p).against \in {p, q} <=> q \in {r.home, r.away}
  BY <1>1 DEF Side, AreResults
<1>2. QED
  BY <1>1 DEF Played

LEMMA HeadToHeadInTable == Tabled => HeadToHeadDecides
<1> SUFFICES ASSUME Tabled, NEW p \in Members, NEW q \in Members, p # q,
                    Level(Members, results, p) = {p, q},
                    Row(Played(results, p) \cap Played(results, q), p).points
                      > Row(Played(results, q) \cap Played(results, p), q).points
             PROVE  RankOf(results, p) < RankOf(results, q)
  BY DEF HeadToHeadDecides
<1>1. AreResults(results) /\ Members \subseteq Int
  BY MembersAre DEF Tabled
<1>2. Overall(results, p) = Overall(results, q) /\ Level(Members, results, q) = {p, q}
  BY DEF Level
<1>3. /\ TieOf(results, p)[1] = Row(Played(results, p) \cap Played(results, q), p).points
      /\ TieOf(results, q)[1] = Row(Played(results, q) \cap Played(results, p), q).points
  <2> DEFINE met(x) == {r \in Played(results, x) : Side(r, x).against \in {p, q}}
  <2>1. /\ TieOf(results, p)[1] = Row(met(p), p).points
        /\ TieOf(results, q)[1] = Row(met(q), q).points
    BY <1>2 DEF TieOf, TieBreak, MiniLeague
  <2>2. met(p) = Played(results, p) \cap Played(results, q)
    BY <1>1, MiniLeagueOfTwo
  <2>3. met(q) = Played(results, q) \cap Played(results, p)
    <3>1. {p, q} = {q, p}
      OBVIOUS
    <3>2. {r \in Played(results, q) : Side(r, q).against \in {q, p}}
            = Played(results, q) \cap Played(results, p)
      BY <1>1, MiniLeagueOfTwo
    <3>3. QED
      BY <3>1, <3>2, Zenon
  <2> HIDE DEF met
  <2>4. QED
    BY <2>1, <2>2, <2>3
<1>4. Exceeds(TieOf(results, p), TieOf(results, q))
  <2>1. TieOf(results, p) \in [1..4 -> Int]
    BY <1>1, KeysAreTuples
  <2>2. TieOf(results, p)[1] > TieOf(results, q)[1]
    BY <1>3
  <2>3. 1 \in DOMAIN TieOf(results, p) /\ 1..(1 - 1) = {}
    BY <2>1
  <2>4. QED
    BY <2>2, <2>3 DEF Exceeds
<1>5. p \in Above(results, q)
  BY <1>2, <1>4 DEF Above
<1>6. QED
  BY <1>1, <1>5, AboveRanksBetter DEF Tabled

\* Two who are level with each other and with nobody else: whoever took more
\* points off the other is above.
THEOREM HeadToHeadHolds == Spec => []HeadToHeadDecides
<1>1. QED
  BY TabledInit, TabledStep, HeadToHeadInTable, PTL DEF Spec

\* One result more adds its points and its goals to a row.
LEMMA RowAdds ==
  ASSUME NEW S, NEW r, r \notin S, AreResults(S \cup {r}), NEW p
  PROVE  /\ Row(S \cup {r}, p).points
              = Row(S, p).points + Points(Side(r, p).scored, Side(r, p).conceded)
         /\ Row(S \cup {r}, p).difference
              = Row(S, p).difference + (Side(r, p).scored - Side(r, p).conceded)
<1> DEFINE T == S \cup {r}
           side(x) == Side(x, p)
           a(R) == [x \in R |-> Points(side(x).scored, side(x).conceded)]
           b(R) == [x \in R |-> side(x).scored - side(x).conceded]
<1>1. \A x \in T : side(x).scored \in Nat /\ side(x).conceded \in Nat
  BY DEF AreResults, Side
<1> HIDE DEF side
<1>2. \A x \in T : a(T)[x] \in Int /\ b(T)[x] \in Int
  BY <1>1 DEF Points
<1>3. IsFiniteSet(S)
  BY FS_Subset DEF AreResults
<1>4. /\ SumFunctionOnSet(a(T), T) = SumFunctionOnSet(a(T), S) + a(T)[r]
      /\ SumFunctionOnSet(b(T), T) = SumFunctionOnSet(b(T), S) + b(T)[r]
  <2> DEFINE f == a(T)
             g == b(T)
  <2>1. \A x \in S \cup {r} : f[x] \in Int /\ g[x] \in Int
    BY <1>2
  <2> HIDE DEF f, g
  <2>2. /\ SumFunctionOnSet(f, S \cup {r}) = SumFunctionOnSet(f, S) + f[r]
        /\ SumFunctionOnSet(g, S \cup {r}) = SumFunctionOnSet(g, S) + g[r]
    BY <1>3, <2>1, SumAdd
  <2>3. QED
    BY <2>2 DEF f, g
<1>5. /\ SumFunctionOnSet(a(T), S) = SumFunctionOnSet(a(S), S)
      /\ SumFunctionOnSet(b(T), S) = SumFunctionOnSet(b(S), S)
  <2> DEFINE f == a(T)
             g == b(T)
             h == a(S)
             k == b(S)
  <2>1. \A x \in S : f[x] = h[x] /\ g[x] = k[x]
    OBVIOUS
  <2> HIDE DEF f, g, h, k
  <2>2. SumFunctionOnSet(f, S) = SumFunctionOnSet(h, S) /\ SumFunctionOnSet(g, S) = SumFunctionOnSet(k, S)
    BY <2>1, SumSame
  <2>3. QED
    BY <2>2 DEF f, g, h, k
<1>6. ASSUME NEW R
      PROVE  /\ Row(R, p).points = SumFunctionOnSet(a(R), R)
             /\ Row(R, p).difference = SumFunctionOnSet(b(R), R)
  <2>1. /\ Row(R, p).points = SumFunction(a(R)) /\ Row(R, p).difference = SumFunction(b(R))
    BY DEF Row, side
  <2>2. DOMAIN a(R) = R /\ DOMAIN b(R) = R
    OBVIOUS
  <2> HIDE DEF a, b
  <2>3. QED
    BY <2>1, <2>2 DEF SumFunction
<1>7. /\ a(T)[r] = Points(Side(r, p).scored, Side(r, p).conceded)
      /\ b(T)[r] = Side(r, p).scored - Side(r, p).conceded
  BY DEF side
<1> HIDE DEF a, b
<1>8. QED
  BY <1>4, <1>5, <1>6, <1>7

\* A result concerns those who played it: the one it makes better comes to exceed
\* what he was, and the one it makes worse what he becomes.
LEMMA ResultMoves ==
  ASSUME NEW S, NEW r, r \notin S, AreResults(S \cup {r}), NEW p
  PROVE  LET T == S \cup {r}
             mine == Side(r, p)
         IN /\ p \notin {r.home, r.away} => Overall(T, p) = Overall(S, p)
            /\ p \in {r.home, r.away} /\ mine.scored > mine.conceded
                 => Exceeds(Overall(T, p), Overall(S, p))
            /\ p \in {r.home, r.away} /\ mine.scored < mine.conceded
                 => Exceeds(Overall(S, p), Overall(T, p))
<1> DEFINE T == S \cup {r}
           mine == Side(r, p)
           now == Row(Played(T, p), p)
           before == Row(Played(S, p), p)
<1>1. CASE p \notin {r.home, r.away}
  <2>1. Played(T, p) = Played(S, p)
    BY <1>1 DEF Played
  <2>2. QED
    BY <1>1, <2>1 DEF Overall
<1>2. CASE p \in {r.home, r.away}
  <2>1. Played(T, p) = Played(S, p) \cup {r} /\ r \notin Played(S, p)
    BY <1>2 DEF Played
  <2>2. AreResults(Played(S, p)) /\ AreResults(Played(S, p) \cup {r})
    BY <2>1, FS_Subset DEF Played, AreResults
  <2>3. /\ now.points = before.points + Points(mine.scored, mine.conceded)
        /\ now.difference = before.difference + (mine.scored - mine.conceded)
    <3> DEFINE R == Played(S, p)
    <3>1. r \notin R /\ AreResults(R \cup {r}) /\ Played(T, p) = R \cup {r}
      BY <2>1, <2>2
    <3> HIDE DEF R, T
    <3>2. /\ Row(R \cup {r}, p).points
               = Row(R, p).points + Points(Side(r, p).scored, Side(r, p).conceded)
          /\ Row(R \cup {r}, p).difference
               = Row(R, p).difference + (Side(r, p).scored - Side(r, p).conceded)
      BY <3>1, RowAdds
    <3>3. Row(Played(T, p), p) = Row(R \cup {r}, p)
      BY <3>1, Zenon
    <3>4. QED
      BY <3>2, <3>3 DEF R
  <2>4. /\ before.points \in Int /\ before.difference \in Int
        /\ now.points \in Int /\ now.difference \in Int
    BY <2>1, <2>2, RowsAreInt
  <2>5. mine.scored \in Nat /\ mine.conceded \in Nat
    BY DEF AreResults, Side
  <2>6. /\ Overall(T, p) = <<now.points, now.difference, now.scored>>
        /\ Overall(S, p) = <<before.points, before.difference, before.scored>>
    BY DEF Overall
  <2> HIDE DEF now, before, mine
  <2> DEFINE new == Overall(T, p)
             old == Overall(S, p)
  <2>7. /\ DOMAIN new = 1..3 /\ DOMAIN old = 1..3
        /\ new[1] = now.points /\ new[2] = now.difference
        /\ old[1] = before.points /\ old[2] = before.difference
    BY <2>6
  <2> HIDE DEF new, old, T
  <2>8. 1 \in 1..3 /\ 2 \in 1..3 /\ 1..(1 - 1) = {} /\ 1..(2 - 1) = {1}
    OBVIOUS
  <2>9. ASSUME mine.scored > mine.conceded PROVE Exceeds(new, old)
    <3>1. new[1] > old[1]
      BY <2>3, <2>4, <2>5, <2>7, <2>9 DEF Points
    <3>2. QED
      BY <2>7, <2>8, <3>1 DEF Exceeds
  <2>10. ASSUME mine.scored < mine.conceded PROVE Exceeds(old, new)
    <3>1. old[1] = new[1]
      BY <2>3, <2>4, <2>5, <2>7, <2>10 DEF Points
    <3>2. old[2] > new[2]
      BY <2>3, <2>4, <2>5, <2>7, <2>10
    <3>3. QED
      BY <2>7, <2>8, <3>1, <3>2 DEF Exceeds
  <2>11. QED
    BY <1>2, <2>9, <2>10 DEF new, old, T, mine
<1>3. QED
  BY <1>1, <1>2

\* Whoever a result makes better has nobody new above him, and whoever it makes
\* worse still has everybody above who was.
LEMMA WinnerRises ==
  ASSUME league \in Leagues, NEW S, NEW r, r \notin S, AreResults(S), AreResults(S \cup {r}),
         NEW winner \in Members, NEW loser \in Members, winner # loser,
         {r.home, r.away} = {winner, loser},
         Side(r, winner).scored > Side(r, winner).conceded,
         Side(r, loser).scored < Side(r, loser).conceded
  PROVE  /\ RankOf(S \cup {r}, winner) <= RankOf(S, winner)
         /\ RankOf(S \cup {r}, loser) >= RankOf(S, loser)
<1> DEFINE T == S \cup {r}
           o(x) == Overall(S, x)
           n(x) == Overall(T, x)
<1>1. Members \subseteq Int /\ IsFiniteSet(Members)
  BY MembersAre
<1>2. /\ Exceeds(n(winner), o(winner)) /\ Exceeds(o(loser), n(loser))
      /\ \A x \in Members \ {winner, loser} : n(x) = o(x)
  BY ResultMoves
<1>3. \A x \in Members : o(x) \in [1..3 -> Int] /\ n(x) \in [1..3 -> Int]
  BY <1>1, KeysAreTuples
<1>4. /\ \A x \in Members : \A y :
           y \in Above(S, x) => y \in Members /\ (Exceeds(o(y), o(x)) \/ o(y) = o(x))
      /\ \A x \in Members : \A y :
           y \in Above(T, x) => y \in Members /\ (Exceeds(n(y), n(x)) \/ n(y) = n(x))
      /\ \A x, y \in Members : Exceeds(o(y), o(x)) => y \in Above(S, x)
      /\ \A x, y \in Members : Exceeds(n(y), n(x)) => y \in Above(T, x)
  BY DEF Above
<1> HIDE DEF o, n, T
<1>5. \A a, b, c \in [1..3 -> Int] : Exceeds(a, b) /\ Exceeds(b, c) => Exceeds(a, c)
  <2>1. 3 \in Nat
    OBVIOUS
  <2>2. QED
    BY <2>1, TuplesOrdered
<1>6. winner \notin Above(T, winner) /\ loser \notin Above(S, loser)
  BY <1>1, AboveOrders DEF T
<1>7. Above(T, winner) \subseteq Above(S, winner)
  <2>1. SUFFICES ASSUME NEW q \in Above(T, winner) PROVE q \in Above(S, winner)
    OBVIOUS
  <2>2. q \in Members /\ q # winner
    BY <1>4, <1>6
  <2>3. Exceeds(n(q), n(winner)) \/ n(q) = n(winner)
    BY <1>4, <2>1
  <2>4. Exceeds(n(q), o(winner))
    BY <1>2, <1>3, <1>5, <2>2, <2>3
  <2>5. Exceeds(o(q), o(winner))
    <3>1. CASE q = loser
      BY <1>2, <1>3, <1>5, <2>4, <3>1
    <3>2. CASE q # loser
      BY <1>2, <2>2, <2>4, <3>2
    <3>3. QED
      BY <3>1, <3>2
  <2>6. QED
    BY <1>4, <2>2, <2>5
<1>8. Above(S, loser) \subseteq Above(T, loser)
  <2>1. SUFFICES ASSUME NEW q \in Above(S, loser) PROVE q \in Above(T, loser)
    OBVIOUS
  <2>2. q \in Members /\ q # loser
    BY <1>4, <1>6
  <2>3. Exceeds(o(q), o(loser)) \/ o(q) = o(loser)
    BY <1>4, <2>1
  <2>4. Exceeds(o(q), n(loser))
    BY <1>2, <1>3, <1>5, <2>2, <2>3
  <2>5. Exceeds(n(q), n(loser))
    <3>1. CASE q = winner
      BY <1>2, <1>3, <1>5, <2>4, <3>1
    <3>2. CASE q # winner
      BY <1>2, <2>2, <2>4, <3>2
    <3>3. QED
      BY <3>1, <3>2
  <2>6. QED
    BY <1>4, <2>2, <2>5
<1>9. /\ Above(S, winner) \subseteq Members /\ Above(T, loser) \subseteq Members
      /\ Above(T, winner) \subseteq Members /\ Above(S, loser) \subseteq Members
  BY <1>4
<1>10. /\ Cardinality(Above(T, winner)) <= Cardinality(Above(S, winner))
       /\ Cardinality(Above(S, loser)) <= Cardinality(Above(T, loser))
       /\ Cardinality(Above(T, winner)) \in Nat /\ Cardinality(Above(S, winner)) \in Nat
       /\ Cardinality(Above(T, loser)) \in Nat /\ Cardinality(Above(S, loser)) \in Nat
  BY <1>1, <1>7, <1>8, <1>9, FS_Subset, FS_CardinalityType
<1>11. /\ RankOf(T, winner) = 1 + Cardinality(Above(T, winner))
       /\ RankOf(S, winner) = 1 + Cardinality(Above(S, winner))
       /\ RankOf(T, loser) = 1 + Cardinality(Above(T, loser))
       /\ RankOf(S, loser) = 1 + Cardinality(Above(S, loser))
  BY <1>1, RankCounts DEF RankOf, T
<1>12. QED
  BY <1>10, <1>11 DEF T

\* Winning a fixture never costs a place, and losing one never wins any, however
\* the groups of level participants are rearranged.
THEOREM WinnerKeepsPlace == Spec => WinnerNeverDrops
<1> DEFINE winner(r) == IF r.scored > r.conceded THEN r.home ELSE r.away
           loser(r) == IF winner(r) = r.home THEN r.away ELSE r.home
           Fair(r) == r.scored # r.conceded =>
                        /\ RankOf(results', winner(r)) <= RankOf(results, winner(r))
                        /\ RankOf(results', loser(r)) >= RankOf(results, loser(r))
<1>1. ASSUME Tabled, NEW home \in Members, NEW away \in Members, Resolve(home, away),
             NEW r \in results' \ results
      PROVE  Fair(r)
  <2>1. PICK x : /\ results' = results \cup {x} /\ x \notin results
                 /\ home # away /\ x.home = home /\ x.away = away
                 /\ x.scored \in Nat /\ x.conceded \in Nat
    BY <1>1, ResolveAdds
  <2>2. r = x
    BY <1>1, <2>1
  <2>3. AreResults(results) /\ AreResults(results \cup {r}) /\ league \in Leagues
    BY <1>1, <2>1, <2>2, FS_AddElement DEF Tabled, AreResults
  <2>4. SUFFICES ASSUME r.scored # r.conceded
                 PROVE  /\ RankOf(results \cup {r}, winner(r)) <= RankOf(results, winner(r))
                        /\ RankOf(results \cup {r}, loser(r)) >= RankOf(results, loser(r))
    BY <2>1, <2>2
  <2>5. /\ winner(r) \in Members /\ loser(r) \in Members /\ winner(r) # loser(r)
        /\ {r.home, r.away} = {winner(r), loser(r)}
    BY <1>1, <2>1, <2>2
  <2>6. /\ Side(r, winner(r)).scored > Side(r, winner(r)).conceded
        /\ Side(r, loser(r)).scored < Side(r, loser(r)).conceded
    BY <2>1, <2>2, <2>4 DEF Side
  <2> HIDE DEF winner, loser
  <2>7. QED
    BY <2>1, <2>2, <2>3, <2>5, <2>6, WinnerRises
<1>2. Tabled /\ [Next]_vars => [\A r \in results' \ results : Fair(r)]_results
  BY <1>1 DEF Next, vars
<1>3. QED
  BY <1>2, TabledInit, TabledStep, PTL DEF Spec, WinnerNeverDrops

\* A better rank is being above.
LEMMA RanksBelow ==
  ASSUME league \in Leagues, NEW S, AreResults(S), NEW p \in Members, NEW q \in Members, p # q
  PROVE  RankOf(S, p) < RankOf(S, q) <=> p \in Above(S, q)
<1>1. Members \subseteq Int /\ IsFiniteSet(Members)
  BY MembersAre
<1>2. \A x \in Members : RankOf(S, x) \in Int
  <2>1. \A x \in Members : Above(S, x) \subseteq Members
    BY DEF Above
  <2>2. \A x \in Members : Cardinality(Above(S, x)) \in Nat
    BY <1>1, <2>1, FS_Subset, FS_CardinalityType
  <2>3. \A x \in Members : RankOf(S, x) = 1 + Cardinality(Above(S, x))
    BY <1>1, RankCounts DEF RankOf
  <2>4. QED
    BY <2>2, <2>3
<1>3. p \in Above(S, q) \/ q \in Above(S, p)
  BY <1>1, AboveOrders
<1>4. /\ p \in Above(S, q) => RankOf(S, p) < RankOf(S, q)
      /\ q \in Above(S, p) => RankOf(S, q) < RankOf(S, p)
  BY AboveRanksBetter
<1>5. QED
  BY <1>2, <1>3, <1>4

\* Being level is having the same totals.
LEMMA LevelIs ==
  ASSUME NEW S, NEW p, NEW q
  PROVE  SameTotals(S, p, q) <=> Overall(S, p) = Overall(S, q)
<1> DEFINE a == Row(Played(S, p), p)
           b == Row(Played(S, q), q)
<1>1. SameTotals(S, p, q) <=>
        a.points = b.points /\ a.difference = b.difference /\ a.scored = b.scored
  BY DEF SameTotals
<1>2. /\ Overall(S, p) = <<a.points, a.difference, a.scored>>
      /\ Overall(S, q) = <<b.points, b.difference, b.scored>>
  BY DEF Overall
<1> HIDE DEF a, b
<1>3. QED
  BY <1>1, <1>2

\* The tie-breaks of who did not play it change only with those he is level with.
LEMMA TieStays ==
  ASSUME NEW S, NEW r, NEW p, p \notin {r.home, r.away},
         Level(Members, S \cup {r}, p) = Level(Members, S, p)
  PROVE  TieOf(S \cup {r}, p) = TieOf(S, p)
<1>1. Played(S \cup {r}, p) = Played(S, p)
  BY DEF Played
<1>2. QED
  BY <1>1 DEF TieOf, TieBreak, MiniLeague

\* Unless those who played join or leave whom he is level with.
LEMMA LevelStays ==
  ASSUME NEW S, NEW r, r \notin S, AreResults(S \cup {r}),
         NEW p \in Members, p \notin {r.home, r.away},
         \A x \in {r.home, r.away} : SameTotals(S, x, p) <=> SameTotals(S \cup {r}, x, p)
  PROVE  Level(Members, S \cup {r}, p) = Level(Members, S, p)
<1>1. \A x : x \notin {r.home, r.away} => Overall(S \cup {r}, x) = Overall(S, x)
  BY ResultMoves
<1>2. \A x \in {r.home, r.away} :
        Overall(S, x) = Overall(S, p) <=> Overall(S \cup {r}, x) = Overall(S \cup {r}, p)
  BY LevelIs
<1>3. \A x \in Members :
        Overall(S \cup {r}, x) = Overall(S \cup {r}, p) <=> Overall(S, x) = Overall(S, p)
  BY <1>1, <1>2
<1>4. QED
  BY <1>3 DEF Level

\* Two who did not play a fixture are turned round only when they are level, and
\* somebody who played it joins them or leaves them.
LEMMA OthersStay ==
  ASSUME league \in Leagues, NEW S, NEW r, r \notin S, AreResults(S), AreResults(S \cup {r}),
         NEW p \in Members \ {r.home, r.away}, NEW q \in Members \ {r.home, r.away}, p # q,
         ~ /\ SameTotals(S, p, q)
           /\ \E x \in {r.home, r.away} : ~(SameTotals(S, x, p) <=> SameTotals(S \cup {r}, x, p))
  PROVE  RankOf(S, p) < RankOf(S, q) <=> RankOf(S \cup {r}, p) < RankOf(S \cup {r}, q)
<1> DEFINE T == S \cup {r}
<1>1. Overall(T, p) = Overall(S, p) /\ Overall(T, q) = Overall(S, q)
  BY ResultMoves
<1>2. CASE ~SameTotals(S, p, q)
  <2>1. Overall(S, p) # Overall(S, q)
    BY <1>2, LevelIs
  <2>2. p \in Above(S, q) <=> p \in Above(T, q)
    BY <1>1, <2>1 DEF Above
  <2>3. QED
    BY <2>2, RanksBelow
<1>3. CASE SameTotals(S, p, q)
  <2>1. Overall(S, p) = Overall(S, q)
    BY <1>3, LevelIs
  <2>2. \A x \in {r.home, r.away} : SameTotals(S, x, p) <=> SameTotals(T, x, p)
    BY <1>3
  <2>3. \A x \in {r.home, r.away} : SameTotals(S, x, q) <=> SameTotals(T, x, q)
    BY <1>1, <2>1, <2>2, LevelIs
  <2>4. Level(Members, T, p) = Level(Members, S, p) /\ Level(Members, T, q) = Level(Members, S, q)
    BY <2>2, <2>3, LevelStays
  <2>5. TieOf(T, p) = TieOf(S, p) /\ TieOf(T, q) = TieOf(S, q)
    BY <2>4, TieStays
  <2>6. p \in Above(S, q) <=> p \in Above(T, q)
    BY <1>1, <2>5 DEF Above
  <2>7. QED
    BY <2>6, RanksBelow
<1>4. QED
  BY <1>2, <1>3

\* A fixture turns round two who did not play it only when they are level and
\* one of those who did joins their group or leaves it, in a league of any size,
\* with any scores.
THEOREM OthersStayInOrder == Spec => OthersKeepTheirOrder
<1> DEFINE Kept(r) == \A p, q \in Members \ {r.home, r.away} :
                        p < q =>
                          \/ Ahead(results, p, q) <=> Ahead(results', p, q)
                          \/ /\ SameTotals(results, p, q)
                             /\ \E x \in {r.home, r.away} :
                                  ~(SameTotals(results, x, p) <=> SameTotals(results', x, p))
<1>1. ASSUME Tabled, NEW home \in Members, NEW away \in Members, Resolve(home, away),
             NEW r \in results' \ results
      PROVE  Kept(r)
  <2>1. PICK x : /\ results' = results \cup {x} /\ x \notin results
                 /\ home # away /\ x.home = home /\ x.away = away
                 /\ x.scored \in Nat /\ x.conceded \in Nat
    BY <1>1, ResolveAdds
  <2>2. r = x /\ results' = results \cup {r} /\ r \notin results
    BY <1>1, <2>1
  <2>3. AreResults(results) /\ AreResults(results \cup {r}) /\ league \in Leagues
    BY <1>1, <2>1, <2>2, FS_AddElement DEF Tabled, AreResults
  <2>4. SUFFICES ASSUME NEW p \in Members \ {r.home, r.away}, NEW q \in Members \ {r.home, r.away},
                        p < q,
                        ~ /\ SameTotals(results, p, q)
                          /\ \E y \in {r.home, r.away} :
                               ~(SameTotals(results, y, p) <=> SameTotals(results', y, p))
                 PROVE  Ahead(results, p, q) <=> Ahead(results', p, q)
    OBVIOUS
  <2>5. p # q
    BY <2>3, <2>4, MembersAre
  <2>6. ~ /\ SameTotals(results, p, q)
          /\ \E y \in {r.home, r.away} :
               ~(SameTotals(results, y, p) <=> SameTotals(results \cup {r}, y, p))
    BY <2>2, <2>4
  <2>7. Ahead(results, p, q) <=> Ahead(results \cup {r}, p, q)
    BY <2>2, <2>3, <2>5, <2>6, OthersStay DEF Ahead
  <2>8. QED
    BY <2>2, <2>7 DEF Ahead
<1>2. Tabled /\ [Next]_vars => [\A r \in results' \ results : Kept(r)]_results
  BY <1>1 DEF Next, vars
<1>3. QED
  BY <1>2, TabledInit, TabledStep, PTL DEF Spec, OthersKeepTheirOrder

=============================================================================
