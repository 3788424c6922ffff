--------------------------- MODULE MercatoProofs ---------------------------
(***************************************************************************)
(* Nobody is overdrawn and a player has one owner: for any number of       *)
(* participants and players, any catalogue, quota and timetable, and any   *)
(* interleaving of the requests, the deadline job and their failures.      *)
(***************************************************************************)
EXTENDS Mercato, AllocationProofs, SequenceTheorems

-----------------------------------------------------------------------------
(* Types *)

\* The empty league of the beginning is well formed.
LEMMA MercatoInitType == Init => TypeOK
  BY CatalogueAssumption, SettingsAssumption
     DEF CatalogueAssumption, SettingsAssumption, Init, TypeOK, TablesOK, RequestsOK, TransactionOK, AllocTypeOK,
         NoRequest, NoMoney

\* Every random bid is an offer.
LEMMA RandomOffers ==
  ASSUME quoted \subseteq Player,
         NEW r \in Nat, NEW late \in SUBSET Participant,
         NEW random \in RandomBidSets(r, late)
  PROVE  \A o \in random : o \in Offer /\ o.on \in Free(roster)
<1>1. ASSUME NEW p \in late, NEW S \in RandomChoices(p, r), NEW o \in S
      PROVE  o \in Offer /\ o.on \in Free(roster)
  <2>1. S = {} \/ S \subseteq [by: {p}, on: Free(roster), amount: 1..MercatoBudget]
    BY DEF RandomChoices
  <2>2. o \in [by: {p}, on: Player, amount: Nat \ {0}] /\ o.on \in Free(roster)
    BY <2>1, SettingsAssumption DEF SettingsAssumption, Free
  <2>3. QED
    BY <2>2 DEF Offer
<1>2. QED
  BY <1>1 DEF RandomBidSets

\* A transaction that ends leaves an empty workspace.
LEMMA EndTransactionType ==
  ASSUME EndTransaction
  PROVE  TransactionOK'
  BY DEF EndTransaction, TransactionOK, AllocTypeOK, NoMoney

\* A resolution starts with the bids of its round and random bids on free
\* players, with the budgets of the participants that are open.
LEMMA StartResolveStep ==
  ASSUME TypeOK, NEW S \in SUBSET Participant, NEW r \in Nat, StartResolve(S, r)
  PROVE  /\ phase = "idle" /\ ~rounds[r].resolved
         /\ phase' = "award" /\ holder' = S /\ txRound' = r
         /\ allocations' = {}
         /\ DOMAIN budgets' = Open(ClosedWith(S), budget)
         /\ \A o \in offers' :
              \/ \E b \in bids : b.round = r /\ o.on = b.on
              \/ o.on \in Free(roster)
         /\ UNCHANGED <<tables, request, aborts>>
         /\ TransactionOK'
<1> DEFINE open == Open(ClosedWith(S), budget)
           late == {p \in open : <<r, p>> \notin ValidationsWith(S)}
<1>1. PICK random \in RandomBidSets(r, late) :
        /\ generated' = random
        /\ Call({AsOffer(b) : b \in RoundBids(r)} \cup random,
                [p \in open |-> budget[p]])
  BY DEF StartResolve
<1>2. /\ phase = "idle" /\ ~rounds[r].resolved
      /\ phase' = "award" /\ holder' = S /\ txRound' = r
      /\ UNCHANGED <<tables, request, txRoster, txBudget, aborts>>
  BY DEF StartResolve
<1>3. open \subseteq Participant /\ late \subseteq Participant
  BY DEF Open
<1>4. \A o \in random : o \in Offer /\ o.on \in Free(roster)
  BY <1>3, RandomOffers DEF TypeOK, TablesOK
<1>5. \A b \in RoundBids(r) : AsOffer(b) \in Offer /\ b \in bids /\ b.round = r
  BY DEF RoundBids, AsOffer, TypeOK, TablesOK, Bid, Offer
<1>6. offers' = {AsOffer(b) : b \in RoundBids(r)} \cup random
  BY <1>1 DEF Call
<1>7. [p \in open |-> budget[p]] \in [open -> Nat]
  BY <1>3 DEF TypeOK, TablesOK
<1>8. AllocTypeOK'
  <2>1. offers' \subseteq Offer
    BY <1>4, <1>5, <1>6
  <2>2. budgets' = [p \in open |-> budget[p]] /\ remaining' = budgets'
    BY <1>1 DEF Call
  <2>3. pending' = {b.on : b \in offers'} /\ allocations' = {}
    BY <1>1, <1>6 DEF Call
  <2>4. QED
    BY <1>3, <1>7, <2>1, <2>2, <2>3 DEF AllocTypeOK
<1>9. TransactionOK'
  BY <1>1, <1>2, <1>4, <1>8 DEF TypeOK, TransactionOK
<1>10. \A o \in offers' :
         \/ \E b \in bids : b.round = r /\ o.on = b.on
         \/ o.on \in Free(roster)
  BY <1>4, <1>5, <1>6 DEF AsOffer
<1>11. DOMAIN budgets' = open /\ allocations' = {}
  BY <1>1 DEF Call
<1>12. QED
  BY <1>2, <1>9, <1>10, <1>11

\* What a resolution writes back is well typed.
LEMMA SettledType ==
  ASSUME TypeOK
  PROVE  SettledBudget \in [Participant -> Nat] /\ SettledRoster \subseteq Row
<1>1. SettledBudget \in [Participant -> Nat]
  BY DEF SettledBudget, TypeOK, TablesOK, TransactionOK, AllocTypeOK
<1>2. ASSUME NEW a \in allocations
      PROVE  [by |-> a.by, on |-> a.on, price |-> a.amount, draft |-> FALSE] \in Row
  BY DEF TypeOK, TransactionOK, AllocTypeOK, Offer, Row
<1>3. SettledRoster \subseteq Row
  BY <1>2 DEF SettledRoster, TypeOK, TablesOK
<1>4. QED
  BY <1>1, <1>3

\* The rounds are a sequence of rounds.
LEMMA RoundsAreSeq ==
  ASSUME TypeOK
  PROVE  /\ Len(rounds) \in Nat
         /\ DOMAIN rounds = 1..Len(rounds)
         /\ rounds \in [1..Len(rounds) -> Round]
  BY LenProperties DEF TypeOK, TablesOK

\* Setting resolved_at on a round leaves the other rounds as they are.
LEMMA ResolvedType ==
  ASSUME TypeOK, NEW r \in Nat
  PROVE  /\ Resolved(r) \in Seq(Round)
         /\ Len(Resolved(r)) = Len(rounds)
         /\ \A k \in DOMAIN rounds :
              Resolved(r)[k].resolved <=> k = r \/ rounds[k].resolved
<1>1. ASSUME NEW k \in DOMAIN rounds
      PROVE  /\ Resolved(r)[k] \in Round
             /\ Resolved(r)[k].resolved <=> k = r \/ rounds[k].resolved
  <2>1. rounds[k] \in Round
    BY RoundsAreSeq
  <2>2. /\ [rounds[k] EXCEPT !.resolved = TRUE] \in Round
        /\ [rounds[k] EXCEPT !.resolved = TRUE].resolved
    BY <2>1 DEF Round
  <2>3. QED
    BY <2>1, <2>2 DEF Resolved
<1>2. Resolved(r) \in [1..Len(rounds) -> Round]
  BY <1>1, RoundsAreSeq DEF Resolved
<1>3. Resolved(r) \in Seq(Round)
  BY <1>2, RoundsAreSeq, SeqDef
<1>4. Len(Resolved(r)) = Len(rounds)
  BY <1>2, <1>3, RoundsAreSeq, LenProperties
<1>5. QED
  BY <1>1, <1>3, <1>4

\* An intent sent in a round is a bid of that round.
LEMMA AsBidType ==
  ASSUME TypeOK, NEW o \in Intents, NEW r \in 1..Len(rounds)
  PROVE  AsBid(o, r) \in Bid /\ AsBid(o, r).round = r /\ AsBid(o, r).on = o.on
  BY RoundsAreSeq, SettingsAssumption DEF SettingsAssumption, AsBid, Bid, Offer

\* What a request writes to the flags and the validations is well formed.
LEMMA RequestType ==
  ASSUME TypeOK, NEW S \in SUBSET Participant
  PROVE  /\ ClosedWith(S) \subseteq Participant
         /\ ValidationsWith(S) \subseteq Nat \X Participant
  BY DEF ClosedWith, ValidationsWith, TypeOK, TablesOK, RequestsOK

\* So is what the request that triggered a resolution writes with it.
LEMMA CommitHolderType ==
  ASSUME TypeOK, CommitHolder, UNCHANGED aborts
  PROVE  validations' \subseteq Nat \X Participant /\ RequestsOK'
<1>1. validations' \subseteq Nat \X Participant
  BY RequestType DEF CommitHolder, TypeOK, TransactionOK
<1>2. request' \in [Participant -> [kind: {"none", "validate", "close"},
                                  round: Nat, trigger: BOOLEAN]]
  BY DEF CommitHolder, TypeOK, RequestsOK, NoRequest
<1>3. QED
  BY <1>1, <1>2 DEF RequestsOK, TypeOK

\* The next row of the draft and its price, which is at most the budget.
LEMMA DraftType ==
  ASSUME NEW money \in [Participant -> Nat], NEW p \in Participant,
         NEW pl \in Player
  PROVE  /\ DraftPrice(money, p, pl) \in Nat
         /\ DraftPrice(money, p, pl) <= money[p]
         /\ DraftRow(money, p, pl) \in Row
  BY CatalogueAssumption DEF CatalogueAssumption, DraftPrice, DraftRow, Row

\* Bidding and withdrawing keep the tables well formed.
LEMMA BidStepType == TypeOK /\ BidStep => TypeOK'
<1> SUFFICES ASSUME TypeOK, BidStep PROVE TypeOK'
  OBVIOUS
<1>1. /\ bids' \subseteq Bid
      /\ UNCHANGED <<status, now, rounds, validations, roster, budget, closed,
                     quoted, departed, request, txVars, aborts>>
  <2>1. CASE \E o \in Intents : PlaceBid(o)
    BY <2>1, AsBidType DEF PlaceBid, TypeOK, TablesOK
  <2>2. CASE \E o \in Intents : CancelBid(o.by, o.on)
    BY <2>2 DEF CancelBid, TypeOK, TablesOK
  <2>3. CASE \E o, other \in Intents : PlaceTwoBids(o, other)
    BY <2>3, AsBidType DEF PlaceTwoBids, TypeOK, TablesOK
  <2>4. QED
    BY <2>1, <2>2, <2>3 DEF BidStep
<1>2. QED
  BY <1>1 DEF TypeOK, TablesOK, RequestsOK, TransactionOK, AllocTypeOK, txVars,
              allocVars

\* What a close request remembers while it waits.
LEMMA BeginCloseStep ==
  ASSUME TypeOK, NEW p \in Participant, BeginClose(p)
  PROVE  \E r \in 0..Len(rounds), all \in BOOLEAN :
           /\ all => r # 0
           /\ request' = [request EXCEPT ![p] =
                            [kind |-> "close", round |-> r, trigger |-> all]]
<1>1. CASE request' = [request EXCEPT ![p] =
                         [kind |-> "close", round |-> 0, trigger |-> FALSE]]
  <2>1. 0 \in 0..Len(rounds) /\ FALSE \in BOOLEAN
    BY RoundsAreSeq
  <2>2. QED
    BY <1>1, <2>1
<1>2. CASE \E r \in 1..Len(rounds) :
             request' = [request EXCEPT ![p] =
               [kind |-> "close", round |-> r,
                trigger |-> EveryoneValidated(r, validations, closed \cup {p})]]
  <2>1. PICK r \in 1..Len(rounds) :
          request' = [request EXCEPT ![p] =
            [kind |-> "close", round |-> r,
             trigger |-> EveryoneValidated(r, validations, closed \cup {p})]]
    BY <1>2
  <2>2. /\ r \in 0..Len(rounds) /\ r # 0
        /\ EveryoneValidated(r, validations, closed \cup {p}) \in BOOLEAN
    BY RoundsAreSeq DEF EveryoneValidated
  <2>3. QED
    BY <2>1, <2>2
<1>3. QED
  BY <1>1, <1>2 DEF BeginClose

\* Validating and closing keep the tables well formed.
LEMMA RequestStepType == TypeOK /\ RequestStep => TypeOK'
<1> SUFFICES ASSUME TypeOK, NEW p \in Participant,
                    \/ BeginValidate(p) \/ BeginClose(p) \/ CommitRequest(p)
                    \/ RequestResolves(p) \/ RequestIsVictim(p)
             PROVE TypeOK'
  BY DEF RequestStep
<1>1. NoRequest \in [kind: {"none", "validate", "close"}, round: Nat, trigger: BOOLEAN]
  BY DEF NoRequest
<1>2. CASE BeginValidate(p)
  <2>1. PICK r \in 1..Len(rounds), all \in BOOLEAN :
          request' = [request EXCEPT ![p] =
                        [kind |-> "validate", round |-> r, trigger |-> all]]
    BY <1>2 DEF BeginValidate, EveryoneValidated
  <2>2. RequestsOK' 
    BY <1>2, <2>1, RoundsAreSeq DEF BeginValidate, TypeOK, RequestsOK
  <2>3. QED
    BY <1>2, <2>2 DEF BeginValidate, TypeOK, TablesOK, TransactionOK, AllocTypeOK,
                      tables, txVars, allocVars
<1>3. CASE BeginClose(p)
  <2>1. PICK r \in 0..Len(rounds), all \in BOOLEAN :
          request' = [request EXCEPT ![p] =
                        [kind |-> "close", round |-> r, trigger |-> all]]
    BY <1>3, BeginCloseStep
  <2>2. RequestsOK'
    BY <1>3, <2>1, RoundsAreSeq DEF BeginClose, TypeOK, RequestsOK
  <2>3. QED
    BY <1>3, <2>2 DEF BeginClose, TypeOK, TablesOK, TransactionOK, AllocTypeOK,
                      tables, txVars, allocVars
<1>4. CASE CommitRequest(p)
  <2>1. RequestsOK'
    BY <1>1, <1>4 DEF CommitRequest, TypeOK, RequestsOK
  <2>2. TablesOK'
    BY <1>4, RequestType DEF CommitRequest, TypeOK, TablesOK
  <2>3. QED
    BY <1>4, <2>1, <2>2 DEF CommitRequest, TypeOK, TransactionOK, AllocTypeOK,
                            txVars, allocVars
<1>5. CASE RequestResolves(p)
  <2>1. request[p].round \in Nat
    BY DEF TypeOK, RequestsOK
  <2>2. TransactionOK' /\ UNCHANGED <<tables, request, aborts>>
    BY <1>5, <2>1, StartResolveStep DEF RequestResolves
  <2>3. QED
    BY <2>2 DEF TypeOK, TablesOK, RequestsOK, tables
<1>6. CASE RequestIsVictim(p)
  <2>1. RequestsOK'
    BY <1>1, <1>6 DEF RequestIsVictim, TypeOK, RequestsOK
  <2>2. QED
    BY <1>6, <2>1 DEF RequestIsVictim, TypeOK, TablesOK, TransactionOK, AllocTypeOK,
                      tables, txVars, allocVars
<1>7. QED
  BY <1>2, <1>3, <1>4, <1>5, <1>6

\* Resolving, drafting and failing keep every budget a natural number.
LEMMA TransactionStepType == TypeOK /\ TransactionStep => TypeOK'
<1> SUFFICES ASSUME TypeOK, TransactionStep PROVE TypeOK'
  OBVIOUS
<1>1. CASE AwardStep
  <2>1. AllocTypeOK'
    BY <1>1, WalkType DEF AwardStep, TypeOK, TransactionOK
  <2>2. QED
    BY <1>1, <2>1 DEF AwardStep, TypeOK, TablesOK, RequestsOK, TransactionOK, tables
<1>2. CASE ContinueMercato
  <2>1. TransactionOK'
    BY <1>2, EndTransactionType DEF ContinueMercato
  <2>2. RequestsOK' /\ validations' \subseteq Nat \X Participant
    BY <1>2, CommitHolderType DEF ContinueMercato
  <2>3. rounds' \in Seq(Round)
    <3>1. [deadline |-> now + NextRoundDays, resolved |-> FALSE] \in Round
      BY SettingsAssumption DEF SettingsAssumption, Round, TypeOK, TablesOK
    <3>2. Resolved(txRound) \in Seq(Round)
      BY ResolvedType DEF TypeOK, TransactionOK
    <3>3. QED
      BY <1>2, <3>1, <3>2, AppendProperties DEF ContinueMercato
  <2>4. TablesOK'
    BY <1>2, <2>2, <2>3, SettledType, RequestType
       DEF ContinueMercato, TypeOK, TablesOK, TransactionOK
  <2>5. QED
    BY <2>1, <2>2, <2>4 DEF TypeOK
<1>3. CASE WithdrawalFails
  BY <1>3, EndTransactionType
     DEF WithdrawalFails, Rollback, TypeOK, TablesOK, RequestsOK, tables, NoRequest
<1>4. CASE StartClosing
  BY <1>4, SettledType DEF StartClosing, TypeOK, TablesOK, RequestsOK,
     TransactionOK, AllocTypeOK, tables, allocVars
<1>5. CASE DraftStep
  <2>1. txBudget \in [Participant -> Nat]
    BY <1>5 DEF DraftStep, TypeOK, TransactionOK
  <2>2. PICK p \in Participant, pl \in Player :
          /\ txRoster' = txRoster \cup {DraftRow(txBudget, p, pl)}
          /\ txBudget' = [txBudget EXCEPT ![p] = @ - DraftPrice(txBudget, p, pl)]
    BY <1>5 DEF DraftStep
  <2>3. txBudget[p] - DraftPrice(txBudget, p, pl) \in Nat
    BY <2>1, DraftType
  <2>4. txBudget' \in [Participant -> Nat] /\ txRoster' \subseteq Row
    BY <2>1, <2>2, <2>3, DraftType DEF TypeOK, TransactionOK
  <2>5. QED
    BY <1>5, <2>4 DEF DraftStep, TypeOK, TablesOK, RequestsOK, TransactionOK,
                      AllocTypeOK, tables, allocVars
<1>6. CASE FinishClosing
  <2>1. TransactionOK'
    BY <1>6, EndTransactionType DEF FinishClosing
  <2>2. RequestsOK' /\ validations' \subseteq Nat \X Participant
    BY <1>6, CommitHolderType DEF FinishClosing
  <2>3. rounds' \in Seq(Round)
    BY <1>6, ResolvedType DEF FinishClosing, TypeOK, TransactionOK
  <2>4. TablesOK'
    BY <1>6, <2>2, <2>3 DEF FinishClosing, FlagsAllSet, TypeOK, TablesOK,
                            TransactionOK
  <2>5. QED
    BY <2>1, <2>2, <2>4 DEF TypeOK
<1>7. QED
  BY <1>1, <1>2, <1>3, <1>4, <1>5, <1>6 DEF TransactionStep

\* Every step keeps the tables well formed.
LEMMA MercatoStepType == TypeOK /\ [Next]_vars => TypeOK'
<1> SUFFICES ASSUME TypeOK, [Next]_vars PROVE TypeOK'
  OBVIOUS
<1>1. CASE OpenMercato
  <2>1. [deadline |-> FirstRoundDays, resolved |-> FALSE] \in Round
    BY SettingsAssumption DEF SettingsAssumption, Round
  <2>2. rounds' \in Seq(Round)
    BY <1>1, <2>1 DEF OpenMercato
  <2>3. QED
    BY <1>1, <2>2, SettingsAssumption
       DEF SettingsAssumption, OpenMercato, TypeOK, TablesOK, RequestsOK,
           TransactionOK, AllocTypeOK, txVars, allocVars
<1>2. CASE BidStep
  BY <1>2, BidStepType
<1>3. CASE RequestStep
  BY <1>3, RequestStepType
<1>4. CASE DeadlineResolves \/ ForceResolve
  <2>1. PICK r \in 1..Len(rounds) : StartResolve({}, r)
    BY <1>4 DEF DeadlineResolves, ForceResolve
  <2>2. r \in Nat /\ {} \in SUBSET Participant
    BY RoundsAreSeq
  <2>3. TransactionOK' /\ UNCHANGED <<tables, request, aborts>>
    BY <2>1, <2>2, StartResolveStep
  <2>4. QED
    BY <2>3 DEF TypeOK, TablesOK, RequestsOK, tables
<1>5. CASE SchedulerCloses
  BY <1>5 DEF SchedulerCloses, TypeOK, TablesOK, RequestsOK, TransactionOK,
              AllocTypeOK, tables, allocVars
<1>6. CASE TransactionStep
  BY <1>6, TransactionStepType
<1>7. CASE Abort
  <2>1. TransactionOK'
    BY <1>7, EndTransactionType DEF Abort, Rollback
  <2>2. RequestsOK'
    BY <1>7 DEF Abort, Rollback, TypeOK, RequestsOK, NoRequest
  <2>3. QED
    BY <1>7, <2>1, <2>2 DEF Abort, Rollback, TypeOK, TablesOK, tables
<1>8. CASE IngestStep
  BY <1>8 DEF IngestStep, PlayerListed, PlayerGone, TypeOK, TablesOK, RequestsOK,
              TransactionOK, AllocTypeOK, txVars, allocVars
<1>9. CASE Tick
  BY <1>9 DEF Tick, TypeOK, TablesOK, RequestsOK, TransactionOK, AllocTypeOK,
              txVars, allocVars
<1>10. CASE UNCHANGED vars
  BY <1>10 DEF vars, tables, TypeOK, TablesOK, RequestsOK, TransactionOK,
               AllocTypeOK, txVars, allocVars
<1>11. QED
  BY <1>1, <1>2, <1>3, <1>4, <1>5, <1>6, <1>7, <1>8, <1>9, <1>10 DEF Next

\* Nobody is ever overdrawn, and the tables and the running transaction stay
\* well formed, whatever interleaves and whatever fails.
THEOREM MercatoNeverOverdrawn == Spec => []TypeOK
  BY MercatoInitType, MercatoStepType, PTL DEF Spec

-----------------------------------------------------------------------------
(* One owner *)

\* The rows of a settled round name each player once: an award is of a player
\* that nobody owns, and a league that is running has nobody to award to.
LEMMA SettledUnique ==
  ASSUME SoundMercato, phase = "award"
  PROVE  \A x, y \in SettledRoster : x.on = y.on => x = y
<1>1. allocations \subseteq offers
  BY DEF SoundMercato, TypeOK, TransactionOK, AllocTypeOK
<1>2. CASE status = "running"
  <2>1. allocations = {}
    BY <1>2 DEF SoundMercato, AwardsAreNew
  <2>2. SettledRoster = roster
    BY <2>1 DEF SettledRoster
  <2>3. QED
    BY <2>2 DEF SoundMercato, UniqueOwner
<1>3. CASE status = "mercato"
  <2>1. \A a \in allocations, x \in roster : a.on # x.on
    BY <1>1, <1>3 DEF SoundMercato, AwardsAreNew, Owned
  <2>2. \A a, c \in allocations : a.on = c.on => a = c
    BY DEF SoundMercato, AwardsAreNew, OneTaker
  <2>3. \A x \in SettledRoster : x \in roster \/ \E a \in allocations :
          x = [by |-> a.by, on |-> a.on, price |-> a.amount, draft |-> FALSE]
    BY DEF SettledRoster
  <2>4. ASSUME NEW x \in SettledRoster, NEW y \in SettledRoster, x.on = y.on
        PROVE  x = y
    <3>1. CASE x \in roster /\ y \in roster
      BY <2>4, <3>1 DEF SoundMercato, UniqueOwner
    <3>2. CASE x \in roster /\ y \notin roster
      BY <2>1, <2>3, <2>4, <3>2
    <3>3. CASE x \notin roster /\ y \in roster
      BY <2>1, <2>3, <2>4, <3>3
    <3>4. CASE x \notin roster /\ y \notin roster
      <4>1. PICK a \in allocations :
              x = [by |-> a.by, on |-> a.on, price |-> a.amount, draft |-> FALSE]
        BY <2>3, <3>4
      <4>2. PICK c \in allocations :
              y = [by |-> c.by, on |-> c.on, price |-> c.amount, draft |-> FALSE]
        BY <2>3, <3>4
      <4>3. a = c
        BY <2>2, <2>4, <4>1, <4>2
      <4>4. QED
        BY <4>1, <4>2, <4>3
    <3>5. QED
      BY <3>1, <3>2, <3>3, <3>4
  <2>5. QED
    BY <2>4
<1>4. status # "created"
  BY DEF SoundMercato, AwardsAreNew, KnownRounds
<1>5. QED
  BY <1>2, <1>3, <1>4 DEF SoundMercato, TypeOK, TablesOK

\* Nothing is owned, bid or awarded in the beginning.
LEMMA SoundInit == Init => SoundMercato
  BY MercatoInitType DEF Init, SoundMercato, UniqueOwner, OneOpenRound,
     RunningMeansClosed, KnownRounds, LiveBidsAreFree, AwardsAreNew,
     DraftIsUnique, NoRequest

\* An opening starts from an empty roster.
LEMMA SoundOpenMercato == SoundMercato /\ OpenMercato => SoundMercato'
<1> SUFFICES ASSUME SoundMercato, OpenMercato PROVE SoundMercato'
  OBVIOUS
<1>1. TypeOK'
  BY MercatoStepType DEF SoundMercato, Next
<1>2. rounds = <<>> /\ bids = {} /\ phase # "award"
  BY DEF OpenMercato, SoundMercato, KnownRounds, AwardsAreNew
<1>3. Len(rounds') = 1 /\ DOMAIN rounds' = {1} /\ ~rounds'[1].resolved
  BY DEF OpenMercato
<1>4. OneOpenRound' /\ KnownRounds'
  <2>1. \A p \in Participant : request[p].round = 0
    BY <1>2 DEF SoundMercato, KnownRounds
  <2>2. QED
    BY <1>2, <1>3, <2>1 DEF OpenMercato, OneOpenRound, KnownRounds, SoundMercato
<1>5. QED
  BY <1>1, <1>2, <1>4 DEF OpenMercato, SoundMercato, UniqueOwner,
     RunningMeansClosed, LiveBidsAreFree, AwardsAreNew, DraftIsUnique, txVars

\* A new bid is about the current round and on a player nobody owns.
LEMMA SoundBidStep == SoundMercato /\ BidStep => SoundMercato'
<1> SUFFICES ASSUME SoundMercato, BidStep PROVE SoundMercato'
  OBVIOUS
<1>1. TypeOK'
  BY BidStepType DEF SoundMercato
<1>2. TypeOK
  BY DEF SoundMercato
<1>3. /\ UNCHANGED <<status, rounds, roster, closed, request, txVars>>
      /\ \A b \in bids' : b \notin bids =>
           /\ b.round \in DOMAIN rounds /\ ~rounds[b.round].resolved
           /\ b.on \notin Owned(roster)
  <2>1. ASSUME NEW o \in Intents, PlaceBid(o)
        PROVE <1>3
    BY <1>2, <2>1, AsBidType, RoundsAreSeq DEF PlaceBid, BidRound, IsCurrent, Acceptable
  <2>2. CASE \E o \in Intents : CancelBid(o.by, o.on)
    BY <2>2 DEF CancelBid
  <2>3. ASSUME NEW o \in Intents, NEW other \in Intents, PlaceTwoBids(o, other)
        PROVE <1>3
    BY <1>2, <2>3, AsBidType, RoundsAreSeq
       DEF PlaceTwoBids, BidRound, IsCurrent, Acceptable
  <2>4. QED
    BY <2>1, <2>2, <2>3 DEF BidStep
<1>4. KnownRounds' /\ LiveBidsAreFree'
  BY <1>3 DEF SoundMercato, KnownRounds, LiveBidsAreFree
<1>5. QED
  BY <1>1, <1>3, <1>4 DEF SoundMercato, UniqueOwner, OneOpenRound,
     RunningMeansClosed, AwardsAreNew, DraftIsUnique, OneTaker, txVars, allocVars

\* The players a resolution may award are free: its bids are live, and the
\* random ones are on free players.
LEMMA SoundStartResolve ==
  ASSUME SoundMercato, NEW S \in SUBSET Participant, NEW r \in DOMAIN rounds,
         StartResolve(S, r)
  PROVE  SoundMercato'
<1>1. TypeOK /\ r \in Nat
  BY RoundsAreSeq DEF SoundMercato
<1>2. /\ ~rounds[r].resolved
      /\ phase' = "award" /\ txRound' = r /\ allocations' = {}
      /\ DOMAIN budgets' = Open(ClosedWith(S), budget)
      /\ \A o \in offers' :
              \/ \E b \in bids : b.round = r /\ o.on = b.on
              \/ o.on \in Free(roster)
      /\ UNCHANGED <<tables, request, aborts>>
      /\ TransactionOK'
  BY <1>1, StartResolveStep
<1>3. TypeOK'
  BY <1>1, <1>2 DEF TypeOK, TablesOK, RequestsOK, tables
<1>4. status = "running" => DOMAIN budgets' = {}
  BY <1>2 DEF SoundMercato, RunningMeansClosed, ClosedWith, Open
<1>5. status = "mercato" => \A o \in offers' : o.on \notin Owned(roster)
  BY <1>2 DEF SoundMercato, LiveBidsAreFree, Free
<1>6. AwardsAreNew'
  BY <1>2, <1>4, <1>5 DEF AwardsAreNew, OneTaker, tables, Owned
<1>7. QED
  BY <1>2, <1>3, <1>6 DEF SoundMercato, UniqueOwner, OneOpenRound, KnownRounds,
     RunningMeansClosed, LiveBidsAreFree, DraftIsUnique, tables, Owned

\* A validation or a close moves no player and no bid.
LEMMA SoundRequestStep == SoundMercato /\ RequestStep => SoundMercato'
<1> SUFFICES ASSUME SoundMercato, NEW p \in Participant,
                    \/ BeginValidate(p) \/ BeginClose(p) \/ CommitRequest(p)
                    \/ RequestResolves(p) \/ RequestIsVictim(p)
             PROVE SoundMercato'
  BY DEF RequestStep
<1>1. TypeOK /\ TypeOK'
  BY RequestStepType DEF SoundMercato, RequestStep
<1>2. CASE BeginValidate(p) \/ BeginClose(p)
  <2>1. /\ \E r \in 0..Len(rounds), all \in BOOLEAN, k \in {"validate", "close"} :
             /\ all => r # 0
             /\ request' = [request EXCEPT ![p] =
                              [kind |-> k, round |-> r, trigger |-> all]]
        /\ UNCHANGED <<tables, txVars>>
    <3>1. CASE BeginClose(p)
      BY <1>1, <3>1, BeginCloseStep DEF BeginClose
    <3>2. CASE BeginValidate(p)
      <4>1. PICK r \in 1..Len(rounds), all \in BOOLEAN :
              request' = [request EXCEPT ![p] =
                            [kind |-> "validate", round |-> r, trigger |-> all]]
        BY <3>2 DEF BeginValidate, EveryoneValidated
      <4>2. r \in 0..Len(rounds) /\ r # 0
        BY <1>1, RoundsAreSeq
      <4>3. QED
        BY <3>2, <4>1, <4>2 DEF BeginValidate
    <3>3. QED
      BY <1>2, <3>1, <3>2
  <2>2. KnownRounds'
    BY <1>1, <2>1 DEF SoundMercato, KnownRounds, tables, TypeOK, RequestsOK
  <2>3. QED
    BY <1>1, <2>1, <2>2 DEF SoundMercato, UniqueOwner, OneOpenRound,
       RunningMeansClosed, LiveBidsAreFree, AwardsAreNew, DraftIsUnique, OneTaker,
       tables, txVars, allocVars, Owned
<1>3. CASE CommitRequest(p)
  <2>1. closed \subseteq closed' /\ closed' \subseteq Participant
    BY <1>1, <1>3, RequestType DEF CommitRequest, ClosedWith
  <2>2. KnownRounds'
    BY <1>1, <1>3, RoundsAreSeq
       DEF SoundMercato, KnownRounds, CommitRequest, TypeOK, RequestsOK, NoRequest
  <2>3. QED
    BY <1>1, <1>3, <2>1, <2>2 DEF CommitRequest, SoundMercato, UniqueOwner,
       OneOpenRound, RunningMeansClosed, LiveBidsAreFree, AwardsAreNew,
       DraftIsUnique, OneTaker, txVars, allocVars, Owned
<1>4. CASE RequestResolves(p)
  <2>1. request[p].round \in DOMAIN rounds
    BY <1>1, <1>4, RoundsAreSeq DEF RequestResolves, SoundMercato, KnownRounds
  <2>2. QED
    BY <1>4, <2>1, SoundStartResolve DEF RequestResolves
<1>5. CASE RequestIsVictim(p)
  <2>1. KnownRounds'
    BY <1>1, <1>5, RoundsAreSeq DEF SoundMercato, KnownRounds, RequestIsVictim,
       TypeOK, RequestsOK, NoRequest, tables
  <2>2. QED
    BY <1>1, <1>5, <2>1 DEF RequestIsVictim, SoundMercato, UniqueOwner,
       OneOpenRound, RunningMeansClosed, LiveBidsAreFree, AwardsAreNew,
       DraftIsUnique, OneTaker, tables, txVars, allocVars, Owned
<1>6. QED
  BY <1>2, <1>3, <1>4, <1>5

\* A step of allocate's loop keeps the awards to one taker, among the open.
LEMMA SoundAwardStep == SoundMercato /\ AwardStep => SoundMercato'
<1> SUFFICES ASSUME SoundMercato, AwardStep PROVE SoundMercato'
  OBVIOUS
<1>1. TypeOK' /\ AllocTypeOK
  BY MercatoStepType DEF SoundMercato, Next, TransactionStep, TypeOK, TransactionOK
<1>2. OneTaker'
  BY <1>1, WalkOneTaker DEF AwardStep, SoundMercato, AwardsAreNew
<1>3. UNCHANGED <<offers, budgets>>
  BY <1>1, WalkStep DEF AwardStep
<1>4. \A a \in allocations' : a.by \in DOMAIN budgets
  <2>1. ASSUME NEW a \in allocations', a \notin allocations
        PROVE  a.by \in DOMAIN budgets
    <3>1. a \in offers /\ CanPay(a)
      BY <1>1, <2>1, WalkStep DEF AwardStep, On
    <3>2. QED
      BY <1>1, <3>1, PayerIsOpen DEF AllocTypeOK
  <2>2. QED
    BY <2>1 DEF AwardStep, SoundMercato, AwardsAreNew
<1>5. AwardsAreNew'
  BY <1>2, <1>3, <1>4 DEF AwardStep, SoundMercato, AwardsAreNew, tables, Owned
<1>6. QED
  BY <1>1, <1>5 DEF AwardStep, SoundMercato, UniqueOwner, OneOpenRound, KnownRounds,
     RunningMeansClosed, LiveBidsAreFree, DraftIsUnique, tables, Owned

\* The round that is resolved is the only one that was not: the next is open.
LEMMA SoundContinueMercato == SoundMercato /\ ContinueMercato => SoundMercato'
<1> SUFFICES ASSUME SoundMercato, ContinueMercato PROVE SoundMercato'
  OBVIOUS
<1> DEFINE next == [deadline |-> now + NextRoundDays, resolved |-> FALSE]
<1>1. TypeOK /\ TypeOK'
  BY MercatoStepType DEF SoundMercato, Next, TransactionStep
<1>2. /\ txRound \in 1..Len(rounds) /\ Len(rounds) \in Nat
      /\ \A k \in DOMAIN rounds : ~rounds[k].resolved => k = txRound
  BY <1>1, RoundsAreSeq
     DEF ContinueMercato, SoundMercato, AwardsAreNew, OneOpenRound
<1>3. /\ Resolved(txRound) \in Seq(Round)
      /\ Len(Resolved(txRound)) = Len(rounds)
      /\ \A k \in 1..Len(rounds) : Resolved(txRound)[k].resolved
  BY <1>1, <1>2, ResolvedType, RoundsAreSeq DEF TypeOK, TransactionOK
<1>4. /\ Len(rounds') = Len(rounds) + 1
      /\ \A k \in 1..Len(rounds) : rounds'[k].resolved
      /\ rounds'[Len(rounds) + 1] = next
      /\ DOMAIN rounds' = 1..(Len(rounds) + 1)
  <2>1. next \in Round
    BY <1>1, SettingsAssumption DEF SettingsAssumption, Round, TypeOK, TablesOK
  <2>2. rounds' = Append(Resolved(txRound), next)
    BY DEF ContinueMercato
  <2>3. rounds' \in Seq(Round)
    BY <1>1 DEF TypeOK, TablesOK
  <2>4. QED
    BY <1>3, <2>1, <2>2, <2>3, AppendProperties, LenProperties
<1>5. OneOpenRound'
  BY <1>2, <1>4 DEF OneOpenRound
<1>6. bids' = {}
  BY <1>2 DEF ContinueMercato, SoundMercato, KnownRounds
<1>7. UniqueOwner'
  BY SettledUnique DEF ContinueMercato, UniqueOwner
<1>8. RunningMeansClosed'
  BY <1>1 DEF ContinueMercato, SoundMercato, RunningMeansClosed, ClosedWith, TypeOK, TablesOK
<1>9. KnownRounds'
  <2>1. status # "created"
    BY <1>2 DEF SoundMercato, KnownRounds
  <2>2. \A p \in Participant : request'[p] \in {request[p], NoRequest}
    BY DEF ContinueMercato, CommitHolder
  <2>3. ASSUME NEW p \in Participant
        PROVE  /\ request'[p].round \in 0..Len(rounds')
               /\ request'[p].trigger => request'[p].round # 0
    BY <1>2, <1>4, <2>2 DEF SoundMercato, KnownRounds, NoRequest
  <2>4. QED
    BY <1>6, <2>1, <2>3 DEF KnownRounds, ContinueMercato
<1>10. phase' = "idle" /\ LiveBidsAreFree'
  BY <1>6 DEF ContinueMercato, EndTransaction, LiveBidsAreFree
<1>11. QED
  BY <1>1, <1>5, <1>7, <1>8, <1>9, <1>10
     DEF SoundMercato, AwardsAreNew, DraftIsUnique

\* A closing writes rows for players that had no owner.
LEMMA SoundFinishClosing == SoundMercato /\ FinishClosing => SoundMercato'
<1> SUFFICES ASSUME SoundMercato, FinishClosing PROVE SoundMercato'
  OBVIOUS
<1>1. TypeOK /\ TypeOK'
  BY MercatoStepType DEF SoundMercato, Next, TransactionStep
<1>2. /\ Len(rounds') = Len(rounds) /\ DOMAIN rounds' = DOMAIN rounds
      /\ \A k \in DOMAIN rounds :
           rounds'[k].resolved <=> k = txRound \/ rounds[k].resolved
  <2>1. rounds' \in Seq(Round) /\ txRound \in Nat /\ rounds' = Resolved(txRound)
    BY <1>1 DEF TypeOK, TablesOK, TransactionOK, FinishClosing
  <2>2. QED
    BY <1>1, <2>1, ResolvedType, RoundsAreSeq, LenProperties
<1>3. status' = "running" /\ closed' = Participant /\ phase' = "idle"
  BY DEF FinishClosing, FlagsAllSet, EndTransaction
<1>4. UniqueOwner'
  BY DEF FinishClosing, UniqueOwner, SoundMercato, DraftIsUnique
<1>5. OneOpenRound'
  BY <1>2, <1>3 DEF OneOpenRound, SoundMercato
<1>6. KnownRounds'
  <2>1. \A p \in Participant : request'[p] \in {request[p], NoRequest}
    BY DEF FinishClosing, CommitHolder
  <2>2. \A b \in bids' : b.round \in DOMAIN rounds' /\ ~rounds'[b.round].resolved
    BY <1>2 DEF FinishClosing, SoundMercato, KnownRounds
  <2>3. ASSUME NEW p \in Participant
        PROVE  /\ request'[p].round \in 0..Len(rounds')
               /\ request'[p].trigger => request'[p].round # 0
    BY <1>1, <1>2, <2>1, RoundsAreSeq DEF SoundMercato, KnownRounds, NoRequest
  <2>4. QED
    BY <1>3, <2>2, <2>3 DEF KnownRounds
<1>7. QED
  BY <1>1, <1>3, <1>4, <1>5, <1>6 DEF SoundMercato, RunningMeansClosed,
     LiveBidsAreFree, AwardsAreNew, DraftIsUnique

\* The draft only hands out players that nobody owns.
LEMMA SoundDraftStep == SoundMercato /\ DraftStep => SoundMercato'
<1> SUFFICES ASSUME SoundMercato, DraftStep PROVE SoundMercato'
  OBVIOUS
<1>1. TypeOK'
  BY MercatoStepType DEF SoundMercato, Next, TransactionStep
<1>2. PICK p \in Participant, pl \in Player :
        /\ Drafts(txRoster, txBudget, p, pl)
        /\ txRoster' = txRoster \cup {DraftRow(txBudget, p, pl)}
  BY DEF DraftStep
<1>3. \A x \in txRoster : x.on # pl
  BY <1>2 DEF Drafts, Cheapest, Free, Owned
<1>4. DraftIsUnique'
  <2>1. \A x, y \in txRoster : x.on = y.on => x = y
    BY DEF DraftStep, SoundMercato, DraftIsUnique
  <2>2. DraftRow(txBudget, p, pl).on = pl
    BY DEF DraftRow
  <2>3. \A x, y \in txRoster' : x.on = y.on => x = y
    BY <1>2, <1>3, <2>1, <2>2
  <2>4. QED
    BY <2>3 DEF DraftIsUnique
<1>5. QED
  BY <1>1, <1>4 DEF DraftStep, SoundMercato, UniqueOwner, OneOpenRound, KnownRounds,
     RunningMeansClosed, LiveBidsAreFree, AwardsAreNew, tables, Owned

\* Starting the draft or dropping a transaction changes no table.
LEMMA SoundRollback ==
  ASSUME SoundMercato, Rollback, TypeOK'
  PROVE  SoundMercato'
<1>1. phase' = "idle" /\ UNCHANGED tables
  BY DEF Rollback, EndTransaction
<1>2. \A p \in Participant : request'[p] \in {request[p], NoRequest}
  BY DEF Rollback
<1>3. KnownRounds'
  BY <1>1, <1>2, RoundsAreSeq DEF SoundMercato, KnownRounds, NoRequest, tables
<1>4. QED
  BY <1>1, <1>3 DEF SoundMercato, UniqueOwner, OneOpenRound, RunningMeansClosed,
     LiveBidsAreFree, AwardsAreNew, DraftIsUnique, tables, Owned

\* Whatever the transaction in flight does, what it may award is owned by
\* nobody.
LEMMA SoundTransactionStep == SoundMercato /\ TransactionStep => SoundMercato'
<1> SUFFICES ASSUME SoundMercato, TransactionStep PROVE SoundMercato'
  OBVIOUS
<1>1. TypeOK'
  BY MercatoStepType DEF SoundMercato, Next
<1>2. CASE WithdrawalFails
  BY <1>1, <1>2, SoundRollback DEF WithdrawalFails
<1>3. CASE StartClosing
  BY <1>1, <1>3, SettledUnique DEF StartClosing, SoundMercato, UniqueOwner,
     OneOpenRound, KnownRounds, RunningMeansClosed, LiveBidsAreFree, AwardsAreNew,
     DraftIsUnique, tables, Owned
<1>4. QED
  BY <1>2, <1>3, SoundAwardStep, SoundContinueMercato, SoundDraftStep,
     SoundFinishClosing DEF TransactionStep

\* Every step keeps the mercato sound.
LEMMA SoundStep == SoundMercato /\ [Next]_vars => SoundMercato'
<1> SUFFICES ASSUME SoundMercato, [Next]_vars PROVE SoundMercato'
  OBVIOUS
<1>1. TypeOK /\ TypeOK'
  BY MercatoStepType DEF SoundMercato
<1>2. CASE DeadlineResolves \/ ForceResolve
  <2>1. PICK r \in DOMAIN rounds : StartResolve({}, r)
    BY <1>1, <1>2, RoundsAreSeq DEF DeadlineResolves, ForceResolve
  <2>2. {} \in SUBSET Participant
    OBVIOUS
  <2>3. QED
    BY <2>1, <2>2, SoundStartResolve
<1>3. CASE SchedulerCloses
  BY <1>1, <1>3 DEF SchedulerCloses, SoundMercato, UniqueOwner, OneOpenRound,
     KnownRounds, RunningMeansClosed, LiveBidsAreFree, AwardsAreNew,
     DraftIsUnique, tables, Owned
<1>4. CASE Abort
  BY <1>1, <1>4, SoundRollback DEF Abort
<1>5. CASE IngestStep \/ Tick
  BY <1>1, <1>5 DEF IngestStep, PlayerListed, PlayerGone, Tick, SoundMercato,
     UniqueOwner, OneOpenRound, KnownRounds, RunningMeansClosed, LiveBidsAreFree,
     AwardsAreNew, DraftIsUnique, OneTaker, txVars, allocVars, Owned
<1>6. CASE UNCHANGED vars
  BY <1>1, <1>6 DEF vars, SoundMercato, UniqueOwner, OneOpenRound, KnownRounds,
     RunningMeansClosed, LiveBidsAreFree, AwardsAreNew, DraftIsUnique, OneTaker,
     tables, txVars, allocVars, Owned
<1>7. QED
  BY <1>2, <1>3, <1>4, <1>5, <1>6, SoundOpenMercato, SoundBidStep,
     SoundRequestStep, SoundTransactionStep DEF Next

\* The inductive invariant: from a bid to the roster row it becomes, nothing
\* that runs in between can have the player owned twice.
THEOREM MercatoIsSound == Spec => []SoundMercato
  BY SoundInit, SoundStep, PTL DEF Spec

\* A player has one owner in a league.
THEOREM UniqueOwnerHolds == Spec => []UniqueOwner
<1>1. SoundMercato => UniqueOwner
  BY DEF SoundMercato
<1>2. QED
  BY <1>1, MercatoIsSound, PTL

\* An open mercato has one round to bid on, its last one.
THEOREM OneOpenRoundHolds == Spec => []OneOpenRound
<1>1. SoundMercato => OneOpenRound
  BY DEF SoundMercato
<1>2. QED
  BY <1>1, MercatoIsSound, PTL

=============================================================================
