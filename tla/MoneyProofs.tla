---------------------------- MODULE MoneyProofs ----------------------------
(***************************************************************************)
(* The money and the rounds of a mercato: what every participant has left  *)
(* and what its squad cost always make up the budget it started with,      *)
(* nothing that was settled is undone, and so the whole mercato implements *)
(* Market.  The last two theorems name the concurrency they need: the cap  *)
(* on the bids of a round holds as long as a participant does not send two *)
(* bids at once, and the round is resolved with the last validation as     *)
(* long as the validate and close requests come one after the other.       *)
(***************************************************************************)
EXTENDS MercatoProofs

-----------------------------------------------------------------------------
(* What rows cost *)

\* Rows on different players are finitely many.
LEMMA RowsFinite ==
  ASSUME NEW rows, \A x \in rows : x.on \in Player,
         \A x, y \in rows : x.on = y.on => x = y
  PROVE  IsFiniteSet(rows)
<1> DEFINE tag == [x \in rows |-> x.on]
<1>1. /\ \A x \in rows : tag[x] \in Player
      /\ \A x, y \in rows : tag[x] = tag[y] => x = y
  OBVIOUS
<1> HIDE DEF tag
<1>2. QED
  BY <1>1, IdsAssumption, TaggedFinite

\* More rows cost what they cost by themselves.
LEMMA SpentMore ==
  ASSUME NEW p, NEW rows, NEW more, IsFiniteSet(rows), IsFiniteSet(more),
         rows \cap more = {}, \A x \in rows \cup more : x.price \in Nat
  PROVE  /\ Spent(p, rows) \in Nat /\ Spent(p, more) \in Nat
         /\ Spent(p, rows \cup more) = Spent(p, rows) + Spent(p, more)
<1> DEFINE S == {y \in rows : y.by = p}
           R == {y \in more : y.by = p}
           U == {y \in rows \cup more : y.by = p}
           f == [x \in S |-> x.price]
           g == [x \in R |-> x.price]
           h == [x \in U |-> x.price]
<1>1. U = S \cup R /\ S \cap R = {} /\ S \subseteq rows /\ R \subseteq more
  OBVIOUS
<1>2. IsFiniteSet(S) /\ IsFiniteSet(R)
  BY <1>1, FS_Subset
<1>3. /\ DOMAIN f = S /\ DOMAIN g = R /\ DOMAIN h = U
      /\ \A x \in S : h[x] = f[x] /\ h[x] \in Nat
      /\ \A x \in R : h[x] = g[x] /\ h[x] \in Nat
  OBVIOUS
<1>4. /\ Spent(p, rows) = SumFunction(f) /\ Spent(p, more) = SumFunction(g)
      /\ Spent(p, rows \cup more) = SumFunction(h)
  BY DEF Spent
<1> HIDE DEF S, R, U, f, g, h
<1>5. /\ SumFunction(f) = SumFunctionOnSet(h, S)
      /\ SumFunction(g) = SumFunctionOnSet(h, R)
      /\ SumFunction(h) = SumFunctionOnSet(h, U)
  BY <1>3, SumFunctionIs
<1>6. SumFunctionOnSet(h, U) = SumFunctionOnSet(h, S) + SumFunctionOnSet(h, R)
  <2>1. \A x \in S \cup R : h[x] \in Int
    BY <1>3
  <2>2. SumFunctionOnSet(h, S \cup R)
          = SumFunctionOnSet(h, S) + SumFunctionOnSet(h, R)
    BY <1>1, <1>2, <2>1, SumUnion
  <2>3. QED
    BY <1>1, <2>2, Zenon
<1>7. SumFunctionOnSet(h, S) \in Nat /\ SumFunctionOnSet(h, R) \in Nat
  BY <1>2, <1>3, SumGrows
<1>8. QED
  BY <1>4, <1>5, <1>6, <1>7

\* Who owns nothing has paid nothing.
LEMMA SpentNothing ==
  ASSUME NEW p, NEW rows, \A x \in rows : x.by # p
  PROVE  Spent(p, rows) = 0
<1> DEFINE f == [x \in {y \in rows : y.by = p} |-> x.price]
<1>1. DOMAIN f = {} /\ Spent(p, rows) = SumFunction(f)
  BY DEF Spent
<1> HIDE DEF f
<1>2. SumFunction(f) = SumFunctionOnSet(f, {})
  BY <1>1, SumFunctionIs, Zenon
<1>3. QED
  BY <1>1, <1>2, SumEmpty

\* One row costs its price to its owner and nothing to the others.
LEMMA SpentOne ==
  ASSUME NEW p, NEW x, x.price \in Nat
  PROVE  Spent(p, {x}) = IF x.by = p THEN x.price ELSE 0
<1>1. CASE x.by # p
  <2>1. Spent(p, {x}) = 0
    BY <1>1, SpentNothing
  <2>2. QED
    BY <1>1, <2>1
<1>2. CASE x.by = p
  <2> DEFINE S == {y \in {x} : y.by = p}
             f == [y \in S |-> y.price]
  <2>1. S = {x} /\ DOMAIN f = S /\ f[x] = x.price /\ Spent(p, {x}) = SumFunction(f)
    BY <1>2 DEF Spent
  <2> HIDE DEF S, f
  <2>2. SumFunction(f) = SumFunctionOnSet(f, {x})
    BY <2>1, SumFunctionIs, Zenon
  <2>3. SumFunctionOnSet(f, {} \cup {x}) = SumFunctionOnSet(f, {}) + f[x]
    <3>1. IsFiniteSet({}) /\ x \notin {} /\ \A y \in {} \cup {x} : f[y] \in Int
      BY <2>1, FS_EmptySet
    <3>2. QED
      BY <3>1, SumAdd
  <2>4. {} \cup {x} = {x}
    OBVIOUS
  <2>5. SumFunctionOnSet(f, {x}) = SumFunctionOnSet(f, {}) + f[x]
    BY <2>3, <2>4, Zenon
  <2>6. QED
    BY <1>2, <2>1, <2>2, <2>5, SumEmpty
<1>3. QED
  BY <1>1, <1>2

\* The rows that a resolution adds.
AwardRow(a) == [by |-> a.by, on |-> a.on, price |-> a.amount, draft |-> FALSE]
AwardRows == {AwardRow(a) : a \in allocations}

\* They cost what the winning bids come to.
LEMMA SpentOnAwards ==
  ASSUME AllocTypeOK, OneTaker, NEW p
  PROVE  Spent(p, AwardRows) = Total(Won(p))
<1> DEFINE W == Won(p)
           S == {y \in AwardRows : y.by = p}
           h == [a \in W |-> AwardRow(a)]
           f == [a \in W |-> a.amount]
           g == [x \in S |-> x.price]
<1>1. S = {h[a] : a \in W}
  <2>1. \A a : AwardRow(a).by = a.by
    BY DEF AwardRow
  <2>2. \A x \in S : \E a \in W : x = h[a]
    BY <2>1 DEF AwardRows, Won
  <2>3. \A a \in W : h[a] \in S
    BY <2>1 DEF AwardRows, Won
  <2>4. QED
    BY <2>2, <2>3
<1>2. \A a \in W : g[h[a]] = f[a]
  BY <1>1 DEF AwardRow
<1>3. \A a, b \in W : h[a] = h[b] => a = b
  BY DEF AwardRow, Won, OneTaker
<1>4. IsFiniteSet(W) /\ \A a \in W : f[a] \in Int
  BY WonFinite
<1>5. /\ DOMAIN f = W /\ DOMAIN g = S
      /\ Spent(p, AwardRows) = SumFunction(g) /\ Total(W) = SumFunction(f)
  BY DEF Spent, Total
<1> HIDE DEF W, S, h, f, g
<1>6. SumFunctionOnSet(g, {h[a] : a \in W}) = SumFunctionOnSet(f, W)
  BY <1>2, <1>3, <1>4, SumRenamed
<1>7. SumFunctionOnSet(g, S) = SumFunctionOnSet(f, W)
  BY <1>1, <1>6, Zenon
<1>8. SumFunction(g) = SumFunctionOnSet(g, S) /\ SumFunction(f) = SumFunctionOnSet(f, W)
  BY <1>5, SumFunctionIs
<1>9. QED
  BY <1>5, <1>7, <1>8 DEF W

-----------------------------------------------------------------------------
(* Money is conserved *)

\* The inductive invariant behind MoneyConserved and SettledStands.  A
\* resolution works on the budgets as they are, because nothing else moves
\* money while it runs, and a draft only adds rows and takes their price.
MoneySafe ==
  /\ MoneyConserved
  /\ status = "created" =>
       /\ phase = "idle" /\ roster = {}
       /\ budget = [p \in Participant |-> MercatoBudget]
  /\ phase = "award" =>
       DebitedExactly /\ \A p \in DOMAIN budgets : budgets[p] = budget[p]
  /\ phase = "draft" =>
       /\ roster \subseteq txRoster
       /\ \A p \in Participant :
            /\ txBudget[p] <= budget[p]
            /\ txBudget[p] + Spent(p, txRoster) = MercatoBudget

\* What a resolution writes back: more rows, less money, in equal measure.
LEMMA SettledConserves ==
  ASSUME SoundMercato, MoneySafe, phase = "award"
  PROVE  /\ roster \subseteq SettledRoster
         /\ \A p \in Participant :
              /\ SettledBudget[p] <= budget[p]
              /\ SettledBudget[p] + Spent(p, SettledRoster) = MercatoBudget
<1>1. TypeOK /\ AllocTypeOK /\ OneTaker /\ DebitedExactly
  BY DEF SoundMercato, TypeOK, TransactionOK, AwardsAreNew, MoneySafe
<1>2. SettledRoster = roster \cup AwardRows
  BY DEF SettledRoster, AwardRows, AwardRow
<1>3. SettledRoster \subseteq Row
  BY <1>1, SettledType
<1>4. roster \cap AwardRows = {}
  <2>1. CASE status = "running"
    BY <2>1 DEF SoundMercato, AwardsAreNew, AwardRows
  <2>2. CASE status = "mercato"
    <3>1. \A a \in allocations : a.on \notin Owned(roster)
      BY <1>1, <2>2 DEF SoundMercato, AwardsAreNew, AllocTypeOK
    <3>2. QED
      BY <3>1 DEF Owned, AwardRows, AwardRow
  <2>3. QED
    BY <1>1, <2>1, <2>2 DEF MoneySafe, TypeOK, TablesOK
<1>5. IsFiniteSet(roster) /\ IsFiniteSet(AwardRows)
  <2>1. \A x, y \in SettledRoster : x.on = y.on => x = y
    BY SettledUnique
  <2>2. \A x \in SettledRoster : x.on \in Player
    BY <1>3 DEF Row
  <2>3. IsFiniteSet(SettledRoster)
    BY <2>1, <2>2, RowsFinite
  <2>4. QED
    BY <1>2, <2>3, FS_Subset
<1>6. ASSUME NEW p \in Participant
      PROVE  /\ SettledBudget[p] <= budget[p]
             /\ SettledBudget[p] + Spent(p, SettledRoster) = MercatoBudget
  <2>1. \A x \in roster \cup AwardRows : x.price \in Nat
    BY <1>2, <1>3 DEF Row
  <2>2. /\ Spent(p, roster) \in Nat /\ Spent(p, AwardRows) \in Nat
        /\ Spent(p, roster \cup AwardRows) = Spent(p, roster) + Spent(p, AwardRows)
    BY <1>4, <1>5, <2>1, SpentMore
  <2>3. Spent(p, SettledRoster) = Spent(p, roster) + Spent(p, AwardRows)
    BY <1>2, <2>2, Zenon
  <2>4. Spent(p, AwardRows) = Total(Won(p))
    BY <1>1, SpentOnAwards
  <2>5. budget[p] + Spent(p, roster) = MercatoBudget /\ budget[p] \in Nat
    BY <1>1 DEF MoneySafe, MoneyConserved, TypeOK, TablesOK
  <2>6. CASE p \in DOMAIN remaining
    <3>1. p \in DOMAIN budgets /\ remaining[p] \in Nat
      BY <1>1, <2>6 DEF AllocTypeOK
    <3>2. budget[p] - remaining[p] = Total(Won(p))
      BY <1>1, <3>1 DEF MoneySafe, DebitedExactly, Won
    <3>3. SettledBudget[p] = remaining[p]
      BY <2>6 DEF SettledBudget
    <3>4. QED
      BY <2>2, <2>3, <2>4, <2>5, <3>1, <3>2, <3>3
  <2>7. CASE p \notin DOMAIN remaining
    <3>1. \A x \in AwardRows : x.by # p
      <4>1. \A a \in allocations : a.by # p
        BY <1>1, <2>7 DEF SoundMercato, AwardsAreNew, AllocTypeOK
      <4>2. QED
        BY <4>1 DEF AwardRows, AwardRow
    <3>2. Spent(p, AwardRows) = 0
      BY <3>1, SpentNothing
    <3>3. SettledBudget[p] = budget[p]
      BY <2>7 DEF SettledBudget
    <3>4. QED
      BY <2>2, <2>3, <2>5, <3>2, <3>3
  <2>8. QED
    BY <2>6, <2>7
<1>7. QED
  BY <1>2, <1>6

\* A step that leaves the tables the money is in, and the transaction, alone.
LEMMA MoneyUntouched ==
  ASSUME MoneySafe, UNCHANGED <<status, roster, budget, phase, allocVars, txRoster,
                                txBudget>>
  PROVE  MoneySafe'
  BY DEF MoneySafe, MoneyConserved, DebitedExactly, allocVars

\* In the beginning everybody has the starting budget.
LEMMA MoneyInit == Init => MoneySafe
<1> SUFFICES ASSUME Init PROVE MoneySafe
  OBVIOUS
<1>1. ASSUME NEW p \in Participant
      PROVE  budget[p] + Spent(p, roster) = MercatoBudget
  <2>1. Spent(p, roster) = 0
    BY SpentNothing DEF Init
  <2>2. QED
    BY <2>1, SettingsAssumption DEF Init, SettingsAssumption
<1>2. QED
  BY <1>1 DEF Init, MoneySafe, MoneyConserved

\* A resolution reads the budgets it is going to debit.
LEMMA MoneyStartResolve ==
  ASSUME SoundMercato, MoneySafe, NEW S \in SUBSET Participant,
         NEW r \in DOMAIN rounds, StartResolve(S, r)
  PROVE  MoneySafe'
<1> DEFINE open == Open(ClosedWith(S), budget)
<1>1. TypeOK /\ r \in Nat
  BY RoundsAreSeq DEF SoundMercato
<1>2. /\ phase' = "award" /\ allocations' = {}
      /\ UNCHANGED <<tables, request, aborts>> /\ TransactionOK'
  BY <1>1, StartResolveStep
<1>3. status # "created"
  BY DEF SoundMercato, KnownRounds
<1>4. budgets' = [p \in open |-> budget[p]] /\ remaining' = budgets'
  BY DEF StartResolve, Call
<1>5. DebitedExactly'
  <2>1. ASSUME NEW p \in DOMAIN budgets'
        PROVE  budgets'[p] - remaining'[p] = Total({a \in allocations' : a.by = p})
    <3>1. {a \in allocations' : a.by = p} = {}
      BY <1>2
    <3>2. Total({a \in allocations' : a.by = p}) = 0
      BY <3>1, TotalEmpty, Zenon
    <3>3. budgets'[p] \in Nat
      BY <1>2 DEF TransactionOK, AllocTypeOK
    <3>4. QED
      BY <1>4, <3>2, <3>3
  <2>2. QED
    BY <2>1 DEF DebitedExactly
<1>6. QED
  BY <1>2, <1>3, <1>4, <1>5 DEF MoneySafe, MoneyConserved, tables

\* The draft takes what it charges, and only for a player that is still free.
LEMMA MoneyDraftStep ==
  ASSUME SoundMercato, MoneySafe, DraftStep
  PROVE  MoneySafe'
<1>1. /\ phase = "draft" /\ phase' = "draft"
      /\ UNCHANGED <<status, roster, budget>>
  BY DEF DraftStep, tables
<1>2. /\ txBudget \in [Participant -> Nat] /\ budget \in [Participant -> Nat]
      /\ txRoster \subseteq Row
  BY <1>1 DEF SoundMercato, TypeOK, TransactionOK, TablesOK
<1>3. PICK q \in Participant, pl \in Player :
        /\ Drafts(txRoster, txBudget, q, pl)
        /\ txRoster' = txRoster \cup {DraftRow(txBudget, q, pl)}
        /\ txBudget' = [txBudget EXCEPT ![q] = @ - DraftPrice(txBudget, q, pl)]
  BY DEF DraftStep
<1> DEFINE row == DraftRow(txBudget, q, pl)
           cost == DraftPrice(txBudget, q, pl)
<1>4. /\ cost \in Nat /\ cost <= txBudget[q] /\ row \in Row
      /\ row.by = q /\ row.on = pl /\ row.price = cost
  BY <1>2, DraftType DEF DraftRow
<1>5. row \notin txRoster
  BY <1>3, <1>4 DEF Drafts, Cheapest, Free, Owned
<1>6. IsFiniteSet(txRoster) /\ IsFiniteSet({row})
  <2>1. \A x \in txRoster : x.on \in Player
    BY <1>2 DEF Row
  <2>2. \A x, y \in txRoster : x.on = y.on => x = y
    BY <1>1 DEF SoundMercato, DraftIsUnique
  <2>3. QED
    BY <2>1, <2>2, RowsFinite, FS_Singleton
<1>7. \A x \in txRoster \cup {row} : x.price \in Nat
  BY <1>2, <1>4 DEF Row
<1>8. txRoster' = txRoster \cup {row}
  BY <1>3
<1>9. txBudget' = [txBudget EXCEPT ![q] = @ - cost]
  BY <1>3
<1> HIDE DEF row, cost
<1>10. ASSUME NEW p \in Participant
       PROVE  /\ txBudget'[p] <= budget[p]
              /\ txBudget'[p] + Spent(p, txRoster') = MercatoBudget
  <2>1. /\ Spent(p, txRoster) \in Nat
        /\ Spent(p, txRoster \cup {row}) = Spent(p, txRoster) + Spent(p, {row})
    <3>1. txRoster \cap {row} = {}
      BY <1>5
    <3>2. QED
      BY <1>6, <1>7, <3>1, SpentMore
  <2>2. Spent(p, {row}) = IF q = p THEN cost ELSE 0
    BY <1>4, SpentOne
  <2>3. Spent(p, txRoster') = Spent(p, txRoster) + Spent(p, {row})
    BY <1>8, <2>1, Zenon
  <2>4. /\ txBudget[p] \in Nat /\ budget[p] \in Nat
        /\ txBudget[p] <= budget[p]
        /\ txBudget[p] + Spent(p, txRoster) = MercatoBudget
    BY <1>1, <1>2 DEF MoneySafe
  <2>5. CASE q = p
    <3>1. txBudget'[p] = txBudget[p] - cost
      BY <1>2, <1>9, <2>5
    <3>2. QED
      BY <1>4, <2>1, <2>2, <2>3, <2>4, <2>5, <3>1
  <2>6. CASE q # p
    <3>1. txBudget'[p] = txBudget[p]
      BY <1>2, <1>9, <2>6
    <3>2. QED
      BY <2>1, <2>2, <2>3, <2>4, <2>6, <3>1
  <2>7. QED
    BY <2>5, <2>6
<1>11. roster \subseteq txRoster
  BY <1>1 DEF MoneySafe
<1>12. QED
  BY <1>1, <1>8, <1>10, <1>11 DEF MoneySafe, MoneyConserved

\* The steps of a running transaction.
LEMMA MoneyTransactionStep ==
  ASSUME SoundMercato, MoneySafe, TransactionStep
  PROVE  MoneySafe'
<1>1. AllocTypeOK /\ (phase = "award" => OneTaker) /\ TypeOK
  BY DEF SoundMercato, TypeOK, TransactionOK, AwardsAreNew
<1>2. phase = "award" => status # "created"
  BY DEF MoneySafe
<1>3. CASE AwardStep
  <2>1. /\ DebitedExactly' /\ UNCHANGED <<offers, budgets>>
    BY <1>1, <1>3, WalkDebits, WalkStep DEF AwardStep, MoneySafe
  <2>2. QED
    BY <1>3, <2>1 DEF AwardStep, MoneySafe, MoneyConserved, tables
<1>4. CASE ContinueMercato
  <2>1. /\ phase = "award" /\ phase' = "idle"
        /\ roster' = SettledRoster /\ budget' = SettledBudget /\ status' = status
    BY <1>4 DEF ContinueMercato, EndTransaction
  <2>2. QED
    BY <1>2, <2>1, SettledConserves DEF MoneySafe, MoneyConserved
<1>5. CASE StartClosing
  <2>1. /\ phase = "award" /\ phase' = "draft" /\ UNCHANGED <<status, roster, budget>>
        /\ txRoster' = SettledRoster /\ txBudget' = SettledBudget
    BY <1>5 DEF StartClosing, tables
  <2>2. QED
    BY <1>2, <2>1, SettledConserves DEF MoneySafe, MoneyConserved
<1>6. CASE FinishClosing
  <2>1. /\ phase = "draft" /\ phase' = "idle" /\ status' = "running"
        /\ roster' = txRoster /\ budget' = txBudget
    BY <1>6 DEF FinishClosing, EndTransaction
  <2>2. QED
    BY <2>1 DEF MoneySafe, MoneyConserved
<1>7. CASE WithdrawalFails
  BY <1>7 DEF WithdrawalFails, Rollback, EndTransaction, tables, MoneySafe,
              MoneyConserved
<1>8. QED
  BY <1>3, <1>4, <1>5, <1>6, <1>7, MoneyDraftStep DEF TransactionStep

\* Every step conserves the money, in the tables and in the transaction in
\* flight.
LEMMA MoneyStep == SoundMercato /\ MoneySafe /\ [Next]_vars => MoneySafe'
<1> SUFFICES ASSUME SoundMercato, MoneySafe, [Next]_vars PROVE MoneySafe'
  OBVIOUS
<1>1. TypeOK
  BY DEF SoundMercato
<1>2. CASE OpenMercato
  <2>1. /\ status = "created" /\ status' = "mercato" /\ budget' = budget
        /\ UNCHANGED <<roster, phase>>
    BY <1>2 DEF OpenMercato, MoneySafe, txVars
  <2>2. phase = "idle"
    BY <2>1 DEF MoneySafe
  <2>3. QED
    BY <2>1, <2>2 DEF MoneySafe, MoneyConserved
<1>3. CASE BidStep
  BY <1>3, MoneyUntouched DEF BidStep, PlaceBid, CancelBid, PlaceTwoBids, txVars
<1>4. CASE RequestStep
  <2>1. PICK p \in Participant :
          \/ BeginValidate(p) \/ BeginClose(p) \/ CommitRequest(p)
          \/ RequestResolves(p) \/ RequestIsVictim(p)
    BY <1>4 DEF RequestStep
  <2>2. CASE RequestResolves(p)
    <3>1. request[p].round \in DOMAIN rounds
      BY <1>1, <2>2, RoundsAreSeq DEF RequestResolves, SoundMercato, KnownRounds
    <3>2. QED
      BY <2>2, <3>1, MoneyStartResolve DEF RequestResolves
  <2>3. CASE BeginValidate(p) \/ BeginClose(p) \/ CommitRequest(p) \/ RequestIsVictim(p)
    BY <2>3, MoneyUntouched
       DEF BeginValidate, BeginClose, CommitRequest, RequestIsVictim, tables, txVars
  <2>4. QED
    BY <2>1, <2>2, <2>3
<1>5. CASE DeadlineResolves \/ ForceResolve
  <2>1. PICK r \in DOMAIN rounds : StartResolve({}, r)
    BY <1>1, <1>5, RoundsAreSeq DEF DeadlineResolves, ForceResolve
  <2>2. {} \in SUBSET Participant
    OBVIOUS
  <2>3. QED
    BY <2>1, <2>2, MoneyStartResolve
<1>6. CASE SchedulerCloses
  <2>1. budget \in [Participant -> Nat]
    BY <1>1 DEF TypeOK, TablesOK
  <2>2. QED
    BY <1>6, <2>1 DEF SchedulerCloses, MoneySafe, MoneyConserved, tables
<1>7. CASE Abort
  BY <1>7 DEF Abort, Rollback, EndTransaction, tables, MoneySafe, MoneyConserved
<1>8. CASE IngestStep \/ Tick
  BY <1>8, MoneyUntouched DEF IngestStep, PlayerListed, PlayerGone, Tick, txVars
<1>9. CASE UNCHANGED vars
  BY <1>9, MoneyUntouched DEF vars, tables, txVars
<1>10. QED
  BY <1>2, <1>3, <1>4, <1>5, <1>6, <1>7, <1>8, <1>9, MoneyTransactionStep DEF Next

THEOREM MoneyIsSafe == Spec => []MoneySafe
  BY MoneyInit, MoneyStep, MercatoIsSound, PTL DEF Spec

\* What a participant has left and what its squad cost make up the budget it
\* started with, at every moment, whatever fails and is tried again.
THEOREM MoneyConservedHolds == Spec => []MoneyConserved
<1>1. MoneySafe => MoneyConserved
  BY DEF MoneySafe
<1>2. QED
  BY <1>1, MoneyIsSafe, PTL

-----------------------------------------------------------------------------
(* Nothing is undone, and Market is implemented *)

\* The four kinds of steps, as the rest of the league sees them.
LEMMA CommittedStep ==
  ASSUME SoundMercato, MoneySafe, [Next]_vars
  PROVE  \/ OpenMercato
         \/ ContinueMercato
         \/ FinishClosing
         \/ UNCHANGED <<status, rounds, roster, budget>>
<1>1. CASE BidStep
  BY <1>1 DEF BidStep, PlaceBid, CancelBid, PlaceTwoBids
<1>2. CASE RequestStep
  BY <1>2 DEF RequestStep, BeginValidate, BeginClose, CommitRequest,
              RequestResolves, StartResolve, RequestIsVictim, tables
<1>3. CASE DeadlineResolves \/ ForceResolve \/ SchedulerCloses
  BY <1>3 DEF DeadlineResolves, ForceResolve, StartResolve, SchedulerCloses, tables
<1>4. CASE AwardStep \/ WithdrawalFails \/ StartClosing \/ DraftStep \/ Abort
  BY <1>4 DEF AwardStep, WithdrawalFails, StartClosing, DraftStep, Abort, Rollback,
              tables
<1>5. CASE IngestStep \/ Tick
  BY <1>5 DEF IngestStep, PlayerListed, PlayerGone, Tick
<1>6. CASE UNCHANGED vars
  BY <1>6 DEF vars, tables
<1>7. QED
  BY <1>1, <1>2, <1>3, <1>4, <1>5, <1>6 DEF Next, TransactionStep

\* What SettledStands says of a step.
Stands ==
  /\ roster \subseteq roster'
  /\ \A p \in Participant : budget'[p] <= budget[p]
  /\ \A r \in DOMAIN rounds : r \in DOMAIN rounds' /\
       (rounds[r].resolved => rounds'[r].resolved)

\* No step takes a player back, raises a budget or reopens a round.
LEMMA StandsStep == SoundMercato /\ MoneySafe /\ [Next]_vars => Stands
<1> SUFFICES ASSUME SoundMercato, MoneySafe, [Next]_vars PROVE Stands
  OBVIOUS
<1>1. TypeOK /\ TypeOK' /\ budget \in [Participant -> Nat]
  BY MercatoStepType DEF SoundMercato, TypeOK, TablesOK
<1>2. CASE OpenMercato
  <2>1. DOMAIN rounds = {}
    BY <1>2 DEF OpenMercato, SoundMercato, KnownRounds
  <2>2. roster' = roster /\ budget' = budget
    BY <1>2 DEF OpenMercato, MoneySafe
  <2>3. QED
    BY <1>1, <2>1, <2>2 DEF Stands
<1>3. CASE ContinueMercato
  <2>1. /\ phase = "award" /\ roster' = SettledRoster /\ budget' = SettledBudget
        /\ rounds' = Append(Resolved(txRound),
                            [deadline |-> now + NextRoundDays, resolved |-> FALSE])
    BY <1>3 DEF ContinueMercato
  <2>2. /\ Resolved(txRound) \in Seq(Round) /\ Len(Resolved(txRound)) = Len(rounds)
        /\ \A k \in DOMAIN rounds : rounds[k].resolved => Resolved(txRound)[k].resolved
    BY <1>1, ResolvedType DEF TypeOK, TransactionOK
  <2>3. /\ rounds' \in Seq(Round) /\ Len(rounds') = Len(rounds) + 1
        /\ \A k \in 1..Len(rounds) : rounds'[k] = Resolved(txRound)[k]
    <3>1. [deadline |-> now + NextRoundDays, resolved |-> FALSE] \in Round
      BY <1>1, SettingsAssumption DEF SettingsAssumption, Round, TypeOK, TablesOK
    <3>2. QED
      BY <2>1, <2>2, <3>1, AppendProperties
  <2>4. DOMAIN rounds = 1..Len(rounds) /\ DOMAIN rounds' = 1..Len(rounds')
          /\ Len(rounds) \in Nat
    BY <1>1, <2>3, RoundsAreSeq, LenProperties
  <2>5. \A r \in DOMAIN rounds : r \in DOMAIN rounds' /\
          (rounds[r].resolved => rounds'[r].resolved)
    BY <2>2, <2>3, <2>4
  <2>6. QED
    BY <2>1, <2>5, SettledConserves DEF Stands
<1>4. CASE FinishClosing
  <2>1. /\ phase = "draft" /\ roster' = txRoster /\ budget' = txBudget
        /\ rounds' = Resolved(txRound)
    BY <1>4 DEF FinishClosing
  <2>2. DOMAIN rounds' = DOMAIN rounds
    BY <2>1 DEF Resolved
  <2>3. \A k \in DOMAIN rounds : rounds[k].resolved => rounds'[k].resolved
    BY <1>1, <2>1, ResolvedType DEF TypeOK, TransactionOK
  <2>4. QED
    BY <2>1, <2>2, <2>3 DEF Stands, MoneySafe
<1>5. CASE UNCHANGED <<status, rounds, roster, budget>>
  BY <1>1, <1>5 DEF Stands
<1>6. QED
  BY <1>2, <1>3, <1>4, <1>5, CommittedStep

\* Squads only grow, budgets only shrink, a resolved round stays resolved and
\* none is ever removed: no failure or retry undoes what was settled.
THEOREM SettledStandsHolds == Spec => SettledStands
<1>1. SoundMercato /\ MoneySafe /\ [Next]_vars => [Stands]_vars
  BY StandsStep
<1>2. Spec => [][Stands]_vars
  BY <1>1, MercatoIsSound, MoneyIsSafe, PTL DEF Spec
<1>3. QED
  BY <1>2 DEF SettledStands, Stands

\* A roster row as Market sees it: a sale.
AsSale(x) == [by |-> x.by, on |-> x.on, price |-> x.price]
Sales(rows) == {AsSale(x) : x \in rows}

\* The new sales are those of the new rows.
LEMMA NewSales ==
  ASSUME NEW rows, NEW more, rows \subseteq more,
         \A x, y \in more : x.on = y.on => x = y
  PROVE  Sales(more) \ Sales(rows) = Sales(more \ rows)
<1>1. \A x, y \in more : AsSale(x) = AsSale(y) => x = y
  BY DEF AsSale
<1>2. \A s \in Sales(more) \ Sales(rows) : s \in Sales(more \ rows)
  BY DEF Sales
<1>3. \A s \in Sales(more \ rows) : s \in Sales(more) /\ s \notin Sales(rows)
  BY <1>1 DEF Sales
<1>4. QED
  BY <1>2, <1>3

\* Market adds up as Mercato does.
LEMMA SameSum == ASSUME NEW f PROVE Promise!SumFunction(f) = SumFunction(f)
  BY DEF Promise!SumFunction, Promise!SumFunctionOnSet, Promise!FoldFunctionOnSet,
         Promise!MapThenFoldSet, SumFunction, SumFunctionOnSet, FoldFunctionOnSet,
         MapThenFoldSet

\* What Market has p pay is what the rows cost.
LEMMA PaidIsSpent ==
  ASSUME NEW p, NEW rows, IsFiniteSet(rows), \A x \in rows : x.price \in Nat,
         \A x, y \in rows : x.on = y.on => x = y
  PROVE  Promise!Paid(p, Sales(rows)) = Spent(p, rows)
<1> DEFINE W == {x \in rows : x.by = p}
           S == {s \in Sales(rows) : s.by = p}
           h == [x \in W |-> AsSale(x)]
           f == [x \in W |-> x.price]
           g == [s \in S |-> s.price]
<1>1. S = {h[x] : x \in W}
  <2>1. \A x : AsSale(x).by = x.by
    BY DEF AsSale
  <2>2. \A s \in S : \E x \in W : s = h[x]
    BY <2>1 DEF Sales
  <2>3. \A x \in W : h[x] \in S
    BY <2>1 DEF Sales
  <2>4. QED
    BY <2>2, <2>3
<1>2. \A x \in W : g[h[x]] = f[x]
  BY <1>1 DEF AsSale
<1>3. \A x, y \in W : h[x] = h[y] => x = y
  BY DEF AsSale
<1>4. IsFiniteSet(W) /\ \A x \in W : f[x] \in Int
  BY FS_Subset
<1>5. /\ DOMAIN f = W /\ DOMAIN g = S
      /\ Promise!Paid(p, Sales(rows)) = SumFunction(g)
      /\ Spent(p, rows) = SumFunction(f)
  BY SameSum DEF Spent, Promise!Paid
<1> HIDE DEF W, S, h, f, g
<1>6. SumFunctionOnSet(g, {h[x] : x \in W}) = SumFunctionOnSet(f, W)
  BY <1>2, <1>3, <1>4, SumRenamed
<1>7. SumFunctionOnSet(g, S) = SumFunctionOnSet(f, W)
  BY <1>1, <1>6, Zenon
<1>8. SumFunction(g) = SumFunctionOnSet(g, S) /\ SumFunction(f) = SumFunctionOnSet(f, W)
  BY <1>5, SumFunctionIs
<1>9. QED
  BY <1>5, <1>7, <1>8

\* Rows added in equal measure with the money taken are a batch of sales.
LEMMA NewRowsAreSold ==
  ASSUME SoundMercato, SoundMercato', MoneySafe, MoneySafe', roster \subseteq roster'
  PROVE  Promise!Sell(Sales(roster') \ Sales(roster))
<1> DEFINE new == roster' \ roster
           sales == Sales(roster') \ Sales(roster)
<1>1. /\ roster' \subseteq Row /\ budget' \in [Participant -> Nat]
      /\ budget \in [Participant -> Nat]
      /\ \A x, y \in roster' : x.on = y.on => x = y
  BY DEF SoundMercato, TypeOK, TablesOK, UniqueOwner
<1>2. sales = Sales(new)
  BY <1>1, NewSales
<1>3. IsFiniteSet(roster) /\ IsFiniteSet(new)
  <2>1. \A x \in roster' : x.on \in Player
    BY <1>1 DEF Row
  <2>2. IsFiniteSet(roster')
    BY <1>1, <2>1, RowsFinite
  <2>3. QED
    BY <2>2, FS_Subset
<1>4. \A s \in sales : \E x \in new : s = AsSale(x)
  BY <1>2 DEF Sales
<1>5. sales \subseteq Promise!Sale
  BY <1>1, <1>4 DEF AsSale, Promise!Sale, Row
<1>6. \A s, t \in sales : s.on = t.on => s = t
  BY <1>1, <1>4 DEF AsSale
<1>7. \A s \in sales, t \in Sales(roster) : s.on # t.on
  BY <1>1, <1>4 DEF AsSale, Sales
<1>8. Sales(roster') = Sales(roster) \cup sales
  BY DEF Sales
<1>9. ASSUME NEW p \in Participant
      PROVE  budget'[p] = budget[p] - Promise!Paid(p, sales)
  <2>1. \A x \in roster \cup new : x.price \in Nat
    BY <1>1 DEF Row
  <2>2. roster \cap new = {} /\ roster' = roster \cup new
    OBVIOUS
  <2>3. /\ Spent(p, roster) \in Nat /\ Spent(p, new) \in Nat
        /\ Spent(p, roster \cup new) = Spent(p, roster) + Spent(p, new)
    BY <1>3, <2>1, <2>2, SpentMore
  <2>4. Spent(p, roster') = Spent(p, roster) + Spent(p, new)
    BY <2>2, <2>3, Zenon
  <2>5. budget[p] + Spent(p, roster) = MercatoBudget
    BY DEF MoneySafe, MoneyConserved
  <2>6. budget'[p] + Spent(p, roster') = MercatoBudget
    BY DEF MoneySafe, MoneyConserved
  <2>7. Promise!Paid(p, Sales(new)) = Spent(p, new)
    BY <1>1, <1>3, <2>1, PaidIsSpent
  <2>8. Promise!Paid(p, sales) = Spent(p, new)
    BY <1>2, <2>7, Zenon
  <2>9. budget[p] \in Nat /\ budget'[p] \in Nat
    BY <1>1
  <2> HIDE DEF new, sales
  <2>10. QED
    BY <2>3, <2>4, <2>5, <2>6, <2>8, <2>9
<1>10. \A p \in Participant : budget'[p] >= 0
  BY <1>1
<1>11. budget' = [p \in Participant |-> budget[p] - Promise!Paid(p, sales)]
  BY <1>1, <1>9
<1>12. QED
  BY <1>5, <1>6, <1>7, <1>8, <1>10, <1>11 DEF Promise!Sell, Sales, AsSale

\* An empty league is an empty market.
LEMMA MarketInitially == Init => Promise!MarketInit
  BY DEF Init, Promise!MarketInit

\* Every step of the mercato opens the market, settles a batch of sales or is
\* invisible to it.
LEMMA MarketStep ==
  ASSUME SoundMercato, SoundMercato', MoneySafe, MoneySafe', [Next]_vars
  PROVE  [Promise!OpenMarket \/ Promise!Settle]_(Promise!marketVars)
<1>1. CASE OpenMercato
  <2>1. /\ status = "created" /\ status' = "mercato" /\ roster' = roster
        /\ budget' = budget
    BY <1>1 DEF OpenMercato, MoneySafe
  <2>2. QED
    BY <2>1 DEF Promise!OpenMarket
<1>2. CASE ContinueMercato \/ FinishClosing
  <2>1. /\ status # "created" /\ status' \in {status, "running"}
        /\ roster \subseteq roster'
    BY <1>2, StandsStep DEF ContinueMercato, FinishClosing, MoneySafe, Stands
  <2>2. Promise!Sell(Sales(roster') \ Sales(roster))
    BY <2>1, NewRowsAreSold
  <2>3. QED
    BY <2>1, <2>2 DEF Promise!Settle, Sales, AsSale
<1>3. CASE UNCHANGED <<status, rounds, roster, budget>>
  BY <1>3 DEF Promise!marketVars
<1>4. QED
  BY <1>1, <1>2, <1>3, CommittedStep

\* Mercato implements Market: seen from outside, players change hands once, from
\* nobody to a participant that pays what is taken from its purse.
THEOREM MercatoKeepsPromise == Spec => KeepsMarketPromise
<1>1. SoundMercato /\ SoundMercato' /\ MoneySafe /\ MoneySafe' /\ [Next]_vars
        => [Promise!OpenMarket \/ Promise!Settle]_(Promise!marketVars)
  BY MarketStep
<1>2. QED
  BY <1>1, MarketInitially, MercatoIsSound, MoneyIsSafe, PTL
     DEF Spec, KeepsMarketPromise, Promise!MarketSpec

-----------------------------------------------------------------------------
(* The closing draft *)

\* A league that is running is open to no award: a resolution that still runs
\* on it writes back the tables it found.
LEMMA LateResolutionIsIdle ==
  ASSUME SoundMercato, phase = "award", status = "running"
  PROVE  SettledRoster = roster /\ SettledBudget = budget
<1>1. /\ DOMAIN budgets = {} /\ allocations = {} /\ DOMAIN remaining = {}
      /\ budget \in [Participant -> Nat]
  BY DEF SoundMercato, AwardsAreNew, TypeOK, TransactionOK, AllocTypeOK, TablesOK
<1>2. QED
  BY <1>1 DEF SettledRoster, SettledBudget

\* What ClosingCompletesSquads says of a step.
Completes ==
  status' = "running" =>
    \A p \in Participant, l \in Line :
      Deficit(roster', p, l) > 0 => \A pl \in Free(roster') : LineOf[pl] # l

\* The step that closes the mercato has drafted whoever could be drafted.
LEMMA ClosingStep ==
  ASSUME SoundMercato, MoneySafe, [Next]_vars
  PROVE  [Completes]_<<status, roster>>
<1>1. CASE OpenMercato
  BY <1>1 DEF OpenMercato, Completes
<1>2. CASE ContinueMercato
  BY <1>2, LateResolutionIsIdle DEF ContinueMercato, Completes
<1>3. CASE FinishClosing
  BY <1>3 DEF FinishClosing, Drafted, Short, Completes
<1>4. CASE UNCHANGED <<status, rounds, roster, budget>>
  BY <1>4
<1>5. QED
  BY <1>1, <1>2, <1>3, <1>4, CommittedStep

\* When the league starts, a squad is short on a line only if not one player of
\* that line is left, however the catalogue changed meanwhile.
THEOREM ClosingCompletesSquadsHolds == Spec => ClosingCompletesSquads
<1>1. SoundMercato /\ MoneySafe /\ [Next]_vars => [Completes]_<<status, roster>>
  BY ClosingStep
<1>2. Spec => [][Completes]_<<status, roster>>
  BY <1>1, MercatoIsSound, MoneyIsSafe, PTL DEF Spec
<1>3. QED
  BY <1>2 DEF ClosingCompletesSquads, Completes

\* A league that is running has nothing left to draft, and a transaction that
\* still works on it sees the tables as they are.
ClosedForGood ==
  status = "running" =>
    /\ Drafted(roster, budget)
    /\ phase = "draft" => txRoster = roster /\ txBudget = budget

\* With a catalogue that does not change, a running league stays without
\* anything to draft.
LEMMA ClosedForGoodStep ==
  ASSUME Unsettled = {}, SoundMercato, MoneySafe, ClosedForGood, [Next]_vars
  PROVE  ClosedForGood'
<1>1. CASE OpenMercato
  BY <1>1 DEF OpenMercato, ClosedForGood
<1>2. CASE BidStep
  BY <1>2 DEF BidStep, PlaceBid, CancelBid, PlaceTwoBids, txVars, ClosedForGood,
              Drafted, Short, Free
<1>3. CASE RequestStep
  BY <1>3 DEF RequestStep, BeginValidate, BeginClose, CommitRequest,
              RequestResolves, StartResolve, RequestIsVictim, tables, txVars,
              ClosedForGood, Drafted, Short, Free
<1>4. CASE DeadlineResolves \/ ForceResolve \/ SchedulerCloses
  BY <1>4 DEF DeadlineResolves, ForceResolve, StartResolve, SchedulerCloses, tables,
              ClosedForGood, Drafted, Short, Free
<1>5. CASE AwardStep
  BY <1>5 DEF AwardStep, tables, ClosedForGood, Drafted, Short, Free
<1>6. CASE ContinueMercato
  <2>1. phase = "award" /\ phase' = "idle" /\ UNCHANGED <<status, quoted, departed>>
        /\ roster' = SettledRoster /\ budget' = SettledBudget
    BY <1>6 DEF ContinueMercato, EndTransaction
  <2>2. QED
    BY <2>1, LateResolutionIsIdle DEF ClosedForGood, Drafted, Short, Free
<1>7. CASE StartClosing
  <2>1. /\ phase = "award" /\ UNCHANGED tables
        /\ txRoster' = SettledRoster /\ txBudget' = SettledBudget
    BY <1>7 DEF StartClosing
  <2>2. QED
    BY <2>1, LateResolutionIsIdle DEF ClosedForGood, Drafted, Short, Free, tables
<1>8. CASE DraftStep
  <2>1. status # "running"
    BY <1>8 DEF DraftStep, ClosedForGood, Drafts, FirstShort, Drafted, Short, Free
  <2>2. QED
    BY <1>8, <2>1 DEF DraftStep, tables, ClosedForGood
<1>9. CASE FinishClosing
  BY <1>9 DEF FinishClosing, EndTransaction, ClosedForGood, Drafted, Short, Free
<1>10. CASE Abort \/ WithdrawalFails
  BY <1>10 DEF Abort, WithdrawalFails, Rollback, EndTransaction, tables,
               ClosedForGood, Drafted, Short, Free
<1>11. CASE IngestStep
  BY <1>11 DEF IngestStep, PlayerListed, PlayerGone
<1>12. CASE Tick
  BY <1>12 DEF Tick, txVars, ClosedForGood, Drafted, Short, Free
<1>13. CASE UNCHANGED vars
  BY <1>13 DEF vars, tables, txVars, ClosedForGood, Drafted, Short, Free
<1>14. QED
  BY <1>1, <1>2, <1>3, <1>4, <1>5, <1>6, <1>7, <1>8, <1>9, <1>10, <1>11, <1>12,
     <1>13 DEF Next, TransactionStep

\* What SecondClosingChangesNothing says of a step.
NothingMoves == status = "running" => UNCHANGED <<roster, budget>>

\* And so a second closing writes nothing.
LEMMA SecondClosingStep ==
  ASSUME SoundMercato, MoneySafe, ClosedForGood, [Next]_vars
  PROVE  NothingMoves
<1>1. CASE OpenMercato
  BY <1>1 DEF OpenMercato, NothingMoves
<1>2. CASE ContinueMercato
  BY <1>2, LateResolutionIsIdle DEF ContinueMercato, NothingMoves
<1>3. CASE FinishClosing
  BY <1>3 DEF FinishClosing, ClosedForGood, NothingMoves
<1>4. QED
  BY <1>1, <1>2, <1>3, CommittedStep DEF NothingMoves

\* With a catalogue that does not change, the round a closing leaves behind is
\* resolved, and the mercato closed again, without moving a player or any money.
THEOREM SecondClosingHolds ==
  Unsettled = {} => (Spec => SecondClosingChangesNothing)
<1> SUFFICES ASSUME Unsettled = {} PROVE Spec => SecondClosingChangesNothing
  OBVIOUS
<1>1. Init => ClosedForGood
  BY DEF Init, ClosedForGood
<1>2. SoundMercato /\ MoneySafe /\ ClosedForGood /\ [Next]_vars => ClosedForGood'
  BY ClosedForGoodStep
<1>3. SoundMercato /\ MoneySafe /\ ClosedForGood /\ [Next]_vars
        => [NothingMoves]_<<status, roster, budget>>
  BY SecondClosingStep
<1>4. Spec => [][NothingMoves]_<<status, roster, budget>>
  BY <1>1, <1>2, <1>3, MercatoIsSound, MoneyIsSafe, PTL DEF Spec
<1>5. QED
  BY <1>4 DEF SecondClosingChangesNothing, NothingMoves

-----------------------------------------------------------------------------
(* The cap *)

\* One bid per participant and player in a round (uq_bid_round_part_player).
OneBidEach ==
  \A b, c \in bids : b.round = c.round /\ b.by = c.by /\ b.on = c.on => b = c

\* The inductive invariant behind BidsWithinBudget.
Capped == OneBidEach /\ BidsWithinBudget

\* The bids of one participant in one round are finitely many.
LEMMA BidsFinite ==
  ASSUME TypeOK, OneBidEach, NEW p, NEW r
  PROVE  IsFiniteSet(BidsOf(p, r)) /\ \A b \in BidsOf(p, r) : b.amount \in Nat
<1> DEFINE tag == [b \in BidsOf(p, r) |-> b.on]
<1>1. BidsOf(p, r) \subseteq Bid
  BY DEF BidsOf, RoundBids, TypeOK, TablesOK
<1>2. \A b \in BidsOf(p, r) : tag[b] \in Player
  BY <1>1 DEF Bid
<1>3. \A b, c \in BidsOf(p, r) : tag[b] = tag[c] => b = c
  BY DEF BidsOf, RoundBids, OneBidEach
<1> HIDE DEF tag
<1>4. IsFiniteSet(BidsOf(p, r))
  BY <1>2, <1>3, IdsAssumption, TaggedFinite
<1>5. QED
  BY <1>1, <1>4 DEF Bid

\* A bid that place_bid accepts fits within the budget with the others.
LEMMA CappedPlaceBid ==
  ASSUME TypeOK, KnownRounds, Capped, NEW o \in Intents, PlaceBid(o)
  PROVE  Capped'
<1>1. PICK s \in 1..Len(rounds) : Acceptable(o, s) /\ bids' = bids \cup {AsBid(o, s)}
  BY DEF PlaceBid
<1> DEFINE new == AsBid(o, s)
<1>2. UNCHANGED <<status, rounds, budget>>
  BY DEF PlaceBid
<1>3. /\ new.round = s /\ new.by = o.by /\ new.on = o.on /\ new.amount = o.amount
      /\ o.amount \in Nat
  BY SettingsAssumption DEF SettingsAssumption, AsBid, Offer
<1>4. \A b \in bids : ~(b.round = s /\ b.by = o.by /\ b.on = o.on)
  BY <1>1 DEF Acceptable, BidsOf, RoundBids
<1>5. bids' = bids \cup {new}
  BY <1>1
<1> HIDE DEF new
<1>6. OneBidEach'
  BY <1>3, <1>4, <1>5 DEF Capped, OneBidEach
<1>7. ASSUME NEW p \in Participant, NEW r \in DOMAIN rounds,
             status = "mercato", ~rounds[r].resolved
      PROVE  Total(BidsOf(p, r)') <= budget[p]
  <2>1. Total(BidsOf(p, r)) <= budget[p]
    BY <1>7 DEF Capped, BidsWithinBudget
  <2>2. CASE p = o.by /\ r = s
    <3>1. BidsOf(p, r)' = BidsOf(p, r) \cup {new}
      BY <1>3, <1>5, <2>2 DEF BidsOf, RoundBids
    <3>2. /\ new \notin BidsOf(p, r)
          /\ \A b \in BidsOf(p, r) \cup {new} : b.amount \in Int
      <4>1. new \notin BidsOf(p, r)
        BY <1>3, <1>4 DEF BidsOf, RoundBids
      <4>2. QED
        BY <1>3, <4>1, BidsFinite DEF Capped
    <3>3. Total(BidsOf(p, r) \cup {new}) = Total(BidsOf(p, r)) + new.amount
      BY <3>2, BidsFinite, TotalAdd DEF Capped
    <3>4. Total(BidsOf(p, r)') = Total(BidsOf(p, r)) + new.amount
      BY <3>1, <3>3, Zenon
    <3>5. Total(BidsOf(p, r)) + o.amount <= budget[p]
      BY <1>1, <2>2 DEF Acceptable
    <3>6. QED
      BY <1>3, <3>4, <3>5
  <2>3. CASE ~(p = o.by /\ r = s)
    <3>1. BidsOf(p, r)' = BidsOf(p, r)
      BY <1>3, <1>5, <2>3 DEF BidsOf, RoundBids
    <3>2. QED
      BY <2>1, <3>1, Zenon
  <2>4. QED
    BY <2>2, <2>3
<1>8. QED
  BY <1>2, <1>6, <1>7 DEF Capped, BidsWithinBudget

\* Fewer bids are still within the budget.
LEMMA CappedFewer ==
  ASSUME TypeOK, Capped, bids' \subseteq bids, UNCHANGED <<status, rounds, budget>>
  PROVE  Capped'
<1>1. OneBidEach'
  BY DEF Capped, OneBidEach
<1>2. ASSUME NEW p \in Participant, NEW r \in DOMAIN rounds,
             status = "mercato", ~rounds[r].resolved
      PROVE  Total(BidsOf(p, r)') <= budget[p]
  <2>1. Total(BidsOf(p, r)) <= budget[p]
    BY <1>2 DEF Capped, BidsWithinBudget
  <2>2. BidsOf(p, r)' \subseteq BidsOf(p, r)
    BY DEF BidsOf, RoundBids
  <2>3. /\ Total(BidsOf(p, r)') \in Nat /\ Total(BidsOf(p, r)) \in Nat
        /\ Total(BidsOf(p, r)') <= Total(BidsOf(p, r))
    BY <2>2, BidsFinite, TotalGrows DEF Capped
  <2>4. budget[p] \in Nat
    BY DEF TypeOK, TablesOK
  <2>5. QED
    BY <2>1, <2>3, <2>4
<1>3. QED
  BY <1>1, <1>2 DEF Capped, BidsWithinBudget

\* Without a bid there is nothing to exceed a budget with.
LEMMA CappedNoBids ==
  ASSUME TypeOK', bids' = {}
  PROVE  Capped'
<1>1. OneBidEach'
  BY DEF OneBidEach
<1>2. ASSUME NEW p \in Participant, NEW r
      PROVE  Total(BidsOf(p, r)') <= budget'[p]
  <2>1. BidsOf(p, r)' = {}
    BY DEF BidsOf, RoundBids
  <2>2. Total(BidsOf(p, r)') = 0
    BY <2>1, TotalEmpty, Zenon
  <2>3. budget'[p] \in Nat
    BY DEF TypeOK, TablesOK
  <2>4. QED
    BY <2>2, <2>3
<1>3. QED
  BY <1>1, <1>2 DEF Capped, BidsWithinBudget

\* A bid is checked against the very bids it joins, when it is sent alone.
LEMMA CappedStep ==
  ASSUME ~DoubleSubmit, SoundMercato, Capped, [Next]_vars
  PROVE  Capped'
<1>1. TypeOK /\ TypeOK' /\ KnownRounds
  BY MercatoStepType DEF SoundMercato
<1>2. CASE OpenMercato
  <2>1. bids' = {}
    BY <1>2 DEF OpenMercato, SoundMercato, KnownRounds
  <2>2. QED
    BY <1>1, <2>1, CappedNoBids
<1>3. CASE BidStep
  <2>1. CASE \E o \in Intents : PlaceBid(o)
    BY <1>1, <2>1, CappedPlaceBid
  <2>2. CASE \E o \in Intents : CancelBid(o.by, o.on)
    BY <1>1, <2>2, CappedFewer DEF CancelBid
  <2>3. QED
    BY <1>3, <2>1, <2>2 DEF BidStep, PlaceTwoBids
<1>4. CASE RequestStep
  BY <1>1, <1>4, CappedFewer
     DEF RequestStep, BeginValidate, BeginClose, CommitRequest, RequestResolves,
         StartResolve, RequestIsVictim, tables
<1>5. CASE DeadlineResolves \/ ForceResolve \/ SchedulerCloses
  BY <1>1, <1>5, CappedFewer
     DEF DeadlineResolves, ForceResolve, StartResolve, SchedulerCloses, tables
<1>6. CASE ContinueMercato
  <2>1. \A k \in DOMAIN rounds : ~rounds[k].resolved => k = txRound
    BY <1>6 DEF ContinueMercato, SoundMercato, AwardsAreNew, OneOpenRound
  <2>2. bids' = {}
    BY <1>6, <2>1 DEF ContinueMercato, SoundMercato, KnownRounds
  <2>3. QED
    BY <1>1, <2>2, CappedNoBids
<1>7. CASE FinishClosing
  BY <1>7 DEF FinishClosing, Capped, OneBidEach, BidsWithinBudget
<1>8. CASE AwardStep \/ WithdrawalFails \/ StartClosing \/ DraftStep \/ Abort
  BY <1>1, <1>8, CappedFewer
     DEF AwardStep, WithdrawalFails, StartClosing, DraftStep, Abort, Rollback, tables
<1>9. CASE IngestStep \/ Tick \/ UNCHANGED vars
  BY <1>1, <1>9, CappedFewer
     DEF IngestStep, PlayerListed, PlayerGone, Tick, vars, tables
<1>10. QED
  BY <1>2, <1>3, <1>4, <1>5, <1>6, <1>7, <1>8, <1>9 DEF Next, TransactionStep

\* validate_bid: the bids of a round together never exceed the budget, even as
\* bids come and go while a round is being resolved, unless one participant has
\* two bids checked at the same time.
THEOREM BidsWithinBudgetHolds == ~DoubleSubmit => (Spec => []BidsWithinBudget)
<1> SUFFICES ASSUME ~DoubleSubmit PROVE Spec => []BidsWithinBudget
  OBVIOUS
<1>1. Init => Capped
  BY DEF Init, Capped, OneBidEach, BidsWithinBudget
<1>2. SoundMercato /\ Capped /\ [Next]_vars => Capped'
  BY CappedStep
<1>3. Capped => BidsWithinBudget
  BY DEF Capped
<1>4. QED
  BY <1>1, <1>2, <1>3, MercatoIsSound, PTL DEF Spec

-----------------------------------------------------------------------------
(* The last validation *)

\* Somebody who is open has not validated, or nobody is open.
Lacking(r, done, shut) ==
  Open(shut, budget) # {} => \E p \in Open(shut, budget) : <<r, p>> \notin done

OneRequest ==
  \A p, q \in Participant :
    request[p].kind # "none" /\ request[q].kind # "none" => p = q

\* Validations are about rounds that exist.
KnownValidations ==
  /\ \A v \in validations : v[1] \in 1..Len(rounds)
  /\ \A p \in Participant : request[p].kind = "validate" => request[p].round # 0

\* The open round still lacks a validation in the tables, and will when the
\* request in flight has committed, unless that request is to resolve it.
OpenRoundLacks ==
  status = "mercato" =>
    \A r \in DOMAIN rounds : ~rounds[r].resolved =>
      /\ Lacking(r, validations, closed)
      /\ \A p \in Participant :
           request[p].kind # "none" /\ ~(request[p].trigger /\ request[p].round = r)
             => Lacking(r, ValidationsWith({p}), ClosedWith({p}))

\* The inductive invariant behind ValidatedMeansResolved.
Awaited == OneRequest /\ KnownValidations /\ OpenRoundLacks

\* A request that ends, or a step that is not about validations at all.
LEMMA AwaitedStill ==
  ASSUME Awaited, UNCHANGED <<status, rounds, budget, closed, validations>>,
         \A p \in Participant : request'[p] \in {request[p], NoRequest}
  PROVE  Awaited'
<1>1. OneRequest' /\ KnownValidations'
  BY DEF Awaited, OneRequest, KnownValidations, NoRequest
<1>2. ASSUME NEW p \in Participant, request'[p].kind # "none"
      PROVE  /\ request'[p] = request[p]
             /\ ValidationsWith({p})' = ValidationsWith({p})
             /\ ClosedWith({p})' = ClosedWith({p})
  <2>1. request'[p] = request[p]
    BY <1>2 DEF NoRequest
  <2>2. QED
    BY <2>1 DEF ValidationsWith, ClosedWith
<1>3. OpenRoundLacks'
  BY <1>2 DEF Awaited, OpenRoundLacks, Lacking
<1>4. QED
  BY <1>1, <1>3 DEF Awaited

\* The open round is the current one.
LEMMA CurrentIsOpen ==
  ASSUME SoundMercato, NEW r \in DOMAIN rounds, ~rounds[r].resolved
  PROVE  IsCurrent(r) /\ \A s : IsCurrent(s) => s = r
<1>1. TypeOK
  BY DEF SoundMercato
<1>2. \A k \in DOMAIN rounds : ~rounds[k].resolved => k = Len(rounds)
  BY DEF SoundMercato, OneOpenRound
<1>3. r = Len(rounds) /\ DOMAIN rounds = 1..Len(rounds) /\ Len(rounds) \in Nat
  BY <1>1, <1>2, RoundsAreSeq
<1>4. QED
  BY <1>2, <1>3 DEF IsCurrent

\* Requests begin one at a time.
LEMMA BeginAlone ==
  ASSUME MaxInFlight <= 1, OneRequest, NEW p \in Participant, MayBegin(p)
  PROVE  \A q \in Participant : request[q].kind = "none"
<1> DEFINE S == {q \in Participant : request[q].kind # "none"}
<1> SUFFICES ASSUME NEW q \in S PROVE FALSE
  OBVIOUS
<1>1. S = {q}
  BY DEF OneRequest
<1>2. Cardinality(S) = 1
  BY <1>1, FS_Singleton
<1>3. Cardinality(S) < MaxInFlight
  BY DEF MayBegin
<1>4. QED
  BY <1>2, <1>3, SettingsAssumption DEF SettingsAssumption

\* A validation that completes the round is the one that triggers its
\* resolution.
LEMMA AwaitedBeginValidate ==
  ASSUME MaxInFlight <= 1, SoundMercato, Awaited, NEW p \in Participant,
         BeginValidate(p)
  PROVE  Awaited'
<1>1. TypeOK /\ request \in [Participant -> [kind: {"none", "validate", "close"},
                                           round: Nat, trigger: BOOLEAN]]
  BY DEF SoundMercato, TypeOK, RequestsOK
<1>2. PICK s \in 1..Len(rounds) :
        /\ MayBegin(p) /\ IsCurrent(s)
        /\ request' = [request EXCEPT ![p] =
             [kind |-> "validate", round |-> s,
              trigger |-> EveryoneValidated(s, validations \cup {<<s, p>>}, closed)]]
        /\ UNCHANGED tables
  BY DEF BeginValidate
<1>3. \A q \in Participant : request[q].kind = "none"
  BY <1>2, BeginAlone DEF Awaited
<1>4. /\ request'[p].kind = "validate" /\ request'[p].round = s
      /\ request'[p].trigger <=>
           EveryoneValidated(s, validations \cup {<<s, p>>}, closed)
      /\ \A q \in Participant \ {p} : request'[q].kind = "none"
  BY <1>1, <1>2, <1>3
<1>5. OneRequest' /\ KnownValidations'
  BY <1>1, <1>2, <1>4, RoundsAreSeq
     DEF Awaited, OneRequest, KnownValidations, tables
<1>6. ValidationsWith({p})' = validations \cup {<<s, p>>} /\ ClosedWith({p})' = closed
  BY <1>2, <1>4 DEF ValidationsWith, ClosedWith, tables, IsCurrent
<1>7. ASSUME NEW r \in DOMAIN rounds, status = "mercato", ~rounds[r].resolved,
             NEW q \in Participant, request'[q].kind # "none",
             ~(request'[q].trigger /\ request'[q].round = r)
      PROVE  Lacking(r, ValidationsWith({q})', ClosedWith({q})')
  <2>1. q = p /\ r = s
    BY <1>2, <1>4, <1>7, CurrentIsOpen
  <2>2. ~EveryoneValidated(s, validations \cup {<<s, p>>}, closed)
    BY <1>4, <1>7, <2>1
  <2>3. QED
    BY <1>6, <2>1, <2>2 DEF Lacking, EveryoneValidated
<1>8. OpenRoundLacks'
  BY <1>2, <1>7 DEF Awaited, OpenRoundLacks, Lacking, tables
<1>9. QED
  BY <1>5, <1>8 DEF Awaited

\* So is a close that does.
LEMMA AwaitedBeginClose ==
  ASSUME MaxInFlight <= 1, SoundMercato, Awaited, NEW p \in Participant,
         BeginClose(p)
  PROVE  Awaited'
<1>1. TypeOK /\ request \in [Participant -> [kind: {"none", "validate", "close"},
                                           round: Nat, trigger: BOOLEAN]]
  BY DEF SoundMercato, TypeOK, RequestsOK
<1>2. /\ MayBegin(p) /\ UNCHANGED tables
      /\ \E s, all :
           /\ request' = [request EXCEPT ![p] =
                            [kind |-> "close", round |-> s, trigger |-> all]]
           /\ \/ IsCurrent(s) /\ all = EveryoneValidated(s, validations, closed \cup {p})
              \/ \A r \in 1..Len(rounds) : ~IsCurrent(r)
  BY DEF BeginClose
<1>3. PICK s, all :
        /\ request' = [request EXCEPT ![p] =
                         [kind |-> "close", round |-> s, trigger |-> all]]
        /\ \/ IsCurrent(s) /\ all = EveryoneValidated(s, validations, closed \cup {p})
           \/ \A r \in 1..Len(rounds) : ~IsCurrent(r)
  BY <1>2
<1>4. \A q \in Participant : request[q].kind = "none"
  BY <1>2, BeginAlone DEF Awaited
<1>5. /\ request'[p] = [kind |-> "close", round |-> s, trigger |-> all]
      /\ \A q \in Participant \ {p} : request'[q].kind = "none"
  BY <1>1, <1>3, <1>4
<1>6. OneRequest' /\ KnownValidations'
  BY <1>2, <1>5 DEF Awaited, OneRequest, KnownValidations, tables
<1>7. ValidationsWith({p})' = validations /\ ClosedWith({p})' = closed \cup {p}
  BY <1>2, <1>5 DEF ValidationsWith, ClosedWith, tables
<1>8. ASSUME NEW r \in DOMAIN rounds, status = "mercato", ~rounds[r].resolved,
             NEW q \in Participant, request'[q].kind # "none",
             ~(request'[q].trigger /\ request'[q].round = r)
      PROVE  Lacking(r, ValidationsWith({q})', ClosedWith({q})')
  <2>1. q = p
    BY <1>5, <1>8
  <2>2. IsCurrent(r) /\ r \in 1..Len(rounds)
    BY <1>1, <1>8, CurrentIsOpen, RoundsAreSeq
  <2>3. r = s /\ all = EveryoneValidated(s, validations, closed \cup {p})
    BY <1>3, <1>8, <2>2, CurrentIsOpen
  <2>4. ~EveryoneValidated(r, validations, closed \cup {p})
    BY <1>5, <1>8, <2>1, <2>3
  <2>5. QED
    BY <1>7, <2>1, <2>4 DEF Lacking, EveryoneValidated
<1>9. OpenRoundLacks'
  BY <1>2, <1>8 DEF Awaited, OpenRoundLacks, Lacking, tables
<1>10. QED
  BY <1>6, <1>9 DEF Awaited

\* A request that commits without resolving was not the last one.
LEMMA AwaitedCommit ==
  ASSUME SoundMercato, Awaited, NEW p \in Participant, CommitRequest(p)
  PROVE  Awaited'
<1>1. TypeOK /\ request \in [Participant -> [kind: {"none", "validate", "close"},
                                           round: Nat, trigger: BOOLEAN]]
  BY DEF SoundMercato, TypeOK, RequestsOK
<1>2. /\ request[p].kind # "none"
      /\ request[p].trigger => rounds[request[p].round].resolved
      /\ validations' = ValidationsWith({p}) /\ closed' = ClosedWith({p})
      /\ request' = [request EXCEPT ![p] = NoRequest]
      /\ UNCHANGED <<status, rounds, budget>>
  BY DEF CommitRequest
<1>3. \A q \in Participant : request'[q].kind = "none"
  BY <1>1, <1>2 DEF Awaited, OneRequest, NoRequest
<1>4. \A v \in validations' : v[1] \in 1..Len(rounds)
  BY <1>1, <1>2, RoundsAreSeq
     DEF Awaited, KnownValidations, ValidationsWith, SoundMercato, KnownRounds
<1>5. OneRequest' /\ KnownValidations'
  BY <1>2, <1>3, <1>4 DEF OneRequest, KnownValidations
<1>6. OpenRoundLacks'
  BY <1>2, <1>3 DEF Awaited, OpenRoundLacks, Lacking
<1>7. QED
  BY <1>5, <1>6 DEF Awaited

\* Nobody has validated a round that is only just created.
LEMMA AwaitedNewRound ==
  ASSUME TypeOK', OneRequest', KnownValidations', NEW n \in Nat,
         \A v \in validations' : v[1] \in 1..n,
         \A p \in Participant : request'[p].round \in 0..n,
         \A r \in DOMAIN rounds' : ~rounds'[r].resolved => r = n + 1
  PROVE  Awaited'
<1>1. ASSUME NEW p \in Participant
      PROVE  \A q \in Participant : <<n + 1, q>> \notin ValidationsWith({p})'
  BY DEF ValidationsWith
<1>2. \A q \in Participant : <<n + 1, q>> \notin validations'
  OBVIOUS
<1>3. OpenRoundLacks'
  BY <1>1, <1>2 DEF OpenRoundLacks, Lacking, Open
<1>4. QED
  BY <1>3 DEF Awaited

\* Every step leaves the open round lacking somebody or about to be resolved.
LEMMA AwaitedStep ==
  ASSUME MaxInFlight <= 1, SoundMercato, Awaited, [Next]_vars
  PROVE  Awaited'
<1>1. TypeOK /\ TypeOK' /\ SoundMercato'
  BY MercatoStepType, SoundStep DEF SoundMercato
<1>2. /\ request \in [Participant -> [kind: {"none", "validate", "close"},
                                     round: Nat, trigger: BOOLEAN]]
      /\ holder \subseteq Participant
  BY <1>1 DEF TypeOK, RequestsOK, TransactionOK
<1>3. CASE OpenMercato
  <2>1. rounds = <<>> /\ Len(rounds) = 0 /\ DOMAIN rounds' = {1} /\ Len(rounds') = 1
        /\ UNCHANGED <<validations, request>>
    BY <1>3 DEF OpenMercato, SoundMercato, KnownRounds
  <2>2. OneRequest' /\ KnownValidations' /\ validations' = {}
    BY <2>1 DEF Awaited, OneRequest, KnownValidations
  <2>3. \A p \in Participant : request'[p].round \in 0..0
    BY <2>1 DEF SoundMercato, KnownRounds
  <2>4. QED
    BY <1>1, <2>1, <2>2, <2>3, AwaitedNewRound
<1>4. CASE RequestStep
  <2>1. PICK p \in Participant :
          \/ BeginValidate(p) \/ BeginClose(p) \/ CommitRequest(p)
          \/ RequestResolves(p) \/ RequestIsVictim(p)
    BY <1>4 DEF RequestStep
  <2>2. CASE RequestResolves(p) \/ RequestIsVictim(p)
    <3>1. /\ UNCHANGED tables
          /\ request' = request \/ request' = [request EXCEPT ![p] = NoRequest]
      BY <2>2 DEF RequestResolves, StartResolve, RequestIsVictim
    <3>2. \A q \in Participant : request'[q] \in {request[q], NoRequest}
      BY <1>2, <3>1
    <3>3. QED
      BY <3>1, <3>2, AwaitedStill DEF tables
  <2>3. QED
    BY <2>1, <2>2, AwaitedBeginValidate, AwaitedBeginClose, AwaitedCommit
<1>5. CASE ContinueMercato
  <2>1. /\ phase = "award" /\ CommitHolder
        /\ rounds' = Append(Resolved(txRound),
                            [deadline |-> now + NextRoundDays, resolved |-> FALSE])
    BY <1>5 DEF ContinueMercato
  <2>2. /\ txRound \in DOMAIN rounds /\ Len(rounds) \in Nat
        /\ DOMAIN rounds = 1..Len(rounds)
        /\ \A k \in DOMAIN rounds : ~rounds[k].resolved => k = txRound
    BY <1>1, <2>1, RoundsAreSeq DEF SoundMercato, AwardsAreNew, OneOpenRound
  <2>3. Len(rounds') = Len(rounds) + 1
    <3>1. /\ Resolved(txRound) \in Seq(Round)
          /\ Len(Resolved(txRound)) = Len(rounds)
      BY <1>1, ResolvedType DEF TypeOK, TransactionOK
    <3>2. [deadline |-> now + NextRoundDays, resolved |-> FALSE] \in Round
      BY <1>1, SettingsAssumption DEF SettingsAssumption, Round, TypeOK, TablesOK
    <3>3. QED
      BY <2>1, <3>1, <3>2, AppendProperties
  <2>4. \A r \in DOMAIN rounds' : ~rounds'[r].resolved => r = Len(rounds) + 1
    BY <1>1, <2>3 DEF SoundMercato, OneOpenRound
  <2>5. \A p \in Participant : request'[p] \in {request[p], NoRequest}
    BY <2>1 DEF CommitHolder
  <2>6. \A v \in validations' : v[1] \in 1..Len(rounds)
    BY <1>2, <2>1, <2>2
       DEF CommitHolder, ValidationsWith, Awaited, KnownValidations, SoundMercato,
           KnownRounds
  <2>7. \A p \in Participant : request'[p].round \in 0..Len(rounds)
    BY <2>2, <2>5 DEF SoundMercato, KnownRounds, NoRequest
  <2>8. OneRequest' /\ KnownValidations'
    BY <2>2, <2>3, <2>5, <2>6 DEF Awaited, OneRequest, KnownValidations, NoRequest
  <2>9. QED
    BY <1>1, <2>2, <2>4, <2>6, <2>7, <2>8, AwaitedNewRound
<1>6. CASE FinishClosing
  <2>1. /\ status' = "running" /\ CommitHolder /\ rounds' = Resolved(txRound)
    BY <1>6 DEF FinishClosing
  <2>2. /\ Len(rounds') = Len(rounds) /\ Len(rounds) \in Nat
        /\ DOMAIN rounds = 1..Len(rounds)
    BY <1>1, <2>1, ResolvedType, RoundsAreSeq DEF TypeOK, TransactionOK
  <2>3. \A p \in Participant : request'[p] \in {request[p], NoRequest}
    BY <2>1 DEF CommitHolder
  <2>4. \A v \in validations' : v[1] \in 1..Len(rounds)
    BY <1>2, <2>1, <2>2
       DEF CommitHolder, ValidationsWith, Awaited, KnownValidations, SoundMercato,
           KnownRounds
  <2>5. OneRequest' /\ KnownValidations'
    BY <2>2, <2>3, <2>4 DEF Awaited, OneRequest, KnownValidations, NoRequest
  <2>6. QED
    BY <2>1, <2>5 DEF Awaited, OpenRoundLacks
<1>7. CASE Abort \/ WithdrawalFails
  <2>1. /\ UNCHANGED tables
        /\ \A p \in Participant : request'[p] \in {request[p], NoRequest}
    BY <1>7 DEF Abort, WithdrawalFails, Rollback
  <2>2. QED
    BY <2>1, AwaitedStill DEF tables
<1>8. CASE BidStep
  BY <1>8, AwaitedStill DEF BidStep, PlaceBid, CancelBid, PlaceTwoBids
<1>9. CASE DeadlineResolves \/ ForceResolve \/ SchedulerCloses
  BY <1>9, AwaitedStill
     DEF DeadlineResolves, ForceResolve, StartResolve, SchedulerCloses, tables
<1>10. CASE AwardStep \/ StartClosing \/ DraftStep
  BY <1>10, AwaitedStill DEF AwardStep, StartClosing, DraftStep, tables
<1>11. CASE IngestStep \/ Tick \/ UNCHANGED vars
  BY <1>11, AwaitedStill DEF IngestStep, PlayerListed, PlayerGone, Tick, vars, tables
<1>12. QED
  BY <1>3, <1>4, <1>5, <1>6, <1>7, <1>8, <1>9, <1>10, <1>11 DEF Next, TransactionStep

\* POST validate: "if everyone still open has validated, it resolves at once".
\* It does, when validate and close requests come one after the other, however
\* they interleave with the deadline job, the bids and the failures.
THEOREM ValidatedMeansResolvedHolds ==
  MaxInFlight <= 1 => (Spec => []ValidatedMeansResolved)
<1> SUFFICES ASSUME MaxInFlight <= 1 PROVE Spec => []ValidatedMeansResolved
  OBVIOUS
<1>1. Init => Awaited
  BY DEF Init, Awaited, OneRequest, KnownValidations, OpenRoundLacks, NoRequest
<1>2. SoundMercato /\ Awaited /\ [Next]_vars => Awaited'
  BY AwaitedStep
<1>3. Awaited => ValidatedMeansResolved
  BY DEF Awaited, OpenRoundLacks, Lacking, ValidatedMeansResolved
<1>4. QED
  BY <1>1, <1>2, <1>3, MercatoIsSound, PTL DEF Spec

=============================================================================
