------------------------------ MODULE Mercato ------------------------------
(***************************************************************************)
(* The closed-bid mercato of one league: src/mpg/mercato/service.py, the   *)
(* HTTP handlers of src/mpg/api/routers/mercato.py (and the same screens   *)
(* of src/mpg/web/routes.py) and the deadline job of src/mpg/scheduler.py. *)
(*                                                                         *)
(* The variables below status..departed are the committed tables, as other *)
(* transactions read them under READ COMMITTED.  A resolution or a close   *)
(* is one transaction: it works on its own copy (phase, holder, tx...,     *)
(* and the variables of Allocation) while the other requests keep running, *)
(* and copies its result into the tables when it commits.  A validate or   *)
(* close request is two steps, what it reads and when it commits, because  *)
(* another request may commit in between.                                  *)
(*                                                                         *)
(* Rows nothing reads again are not kept: the bids and the validations of  *)
(* a resolved round.                                                       *)
(*                                                                         *)
(* At most one resolving or closing transaction runs at a time.  For two   *)
(* resolutions that is the lock on the league row; the scheduler's own     *)
(* close takes no lock, and what that costs is the subject of CloseRace.   *)
(***************************************************************************)
EXTENDS Allocation, Sequences

CONSTANTS
  Line,            \* lines of play; numbers, because they are sorted
  LineOf,          \* the line of each player
  Quotation,       \* the quotation of each player
  Quota,           \* MERCATO_POSITION_QUOTA
  MercatoBudget,   \* MERCATO_BUDGET
  BaseRounds,      \* MERCATO_BASE_ROUNDS
  FirstRoundDays,  \* FIRST_ROUND_HOURS, in days
  NextRoundDays,   \* NEXT_ROUND_HOURS, in days
  AutoCloseDays,   \* the 7 days of mercato_should_close
  Unsettled,       \* players that ingestion lists or drops meanwhile
  \* Bounds of the model checker, and the concurrency it explores.
  Intents,         \* the bids the participants may send, as Offers
  MaxRound,        \* from this round on, only the scheduler resolves
  MaxTime,         \* the clock stops here
  MaxInFlight,     \* validate and close requests open at once
  MaxAborts,       \* transactions that fail
  DoubleSubmit,    \* may one participant send two bids at the same time?
  BidDuring        \* may bids come and go while a transaction runs?

ASSUME CatalogueAssumption ==
  /\ Line \subseteq Nat
  /\ LineOf \in [Player -> Line]
  /\ Quotation \in [Player -> Nat \ {0}]
  /\ Quota \in [Line -> Nat]
  /\ Unsettled \subseteq Player

ASSUME SettingsAssumption ==
  /\ MercatoBudget \in Nat /\ BaseRounds \in Nat
  /\ FirstRoundDays \in Nat /\ NextRoundDays \in Nat /\ AutoCloseDays \in Nat
  /\ Intents \subseteq Offer
  /\ MaxRound \in Nat /\ MaxTime \in Nat
  /\ MaxInFlight \in Nat /\ MaxAborts \in Nat
  /\ DoubleSubmit \in BOOLEAN /\ BidDuring \in BOOLEAN

VARIABLES
  status,       \* league.status
  now,          \* days since league.mercato_opens_at
  rounds,       \* mercato_round, by number: deadline_at, resolved_at
  bids,         \* bid, the rows of the rounds to resolve
  validations,  \* round_validation: pairs <<round, participant>>
  roster,       \* roster: who owns whom, bought_price, from_draft
  budget,       \* participant.budget
  closed,       \* participants with mercato_closed
  quoted,       \* players with a quotation
  departed,     \* players with left_championship
  request,      \* each participant's validate or close request in flight
  phase,        \* the running transaction: idle, award or draft
  holder,       \* the participant whose request runs it, if one does
  txRound,      \* the round it resolves; 0 for the scheduler's own close
  generated,    \* the random bids it has added
  txRoster,     \* roster as it sees it, while it drafts
  txBudget,     \* participant.budget as it sees it, while it drafts
  aborts        \* transactions failed so far

tables == <<status, now, rounds, bids, validations, roster, budget, closed,
            quoted, departed>>
txVars == <<phase, holder, txRound, generated, txRoster, txBudget, allocVars>>
vars == <<tables, request, txVars, aborts>>

NoRequest == [kind |-> "none", round |-> 0, trigger |-> FALSE]
NoMoney == [p \in {} |-> 0]

Round == [deadline: Nat, resolved: BOOLEAN]
Bid == [round: Nat \ {0}, by: Participant, on: Player, amount: Nat \ {0}]
Row == [by: Participant, on: Player, price: Nat, draft: BOOLEAN]

-----------------------------------------------------------------------------
(* Reading the tables *)

RoundBids(r) == {b \in bids : b.round = r}
BidsOf(p, r) == {b \in RoundBids(r) : b.by = p}

\* owned_player_ids, over any copy of the roster.
Owned(rows) == {x.on : x \in rows}

\* A slip: owned players are offered again.
FreeOrOwned(rows) == quoted \ departed

\* free_players, over any copy of the roster.
Free(rows) == (quoted \ departed) \ Owned(rows)

\* current_round: the lowest round that is not resolved.
IsCurrent(r) ==
  /\ r \in 1..Len(rounds)
  /\ ~rounds[r].resolved
  /\ \A k \in 1..(r - 1) : rounds[k].resolved

\* open_participants: budget left and mercato not closed by hand.
Open(shut, money) == {p \in Participant \ shut : money[p] > 0}

\* quota_deficit, for one line of one squad.
Deficit(rows, p, l) ==
  LET have == Cardinality({x \in rows : x.by = p /\ LineOf[x.on] = l})
  IN IF have < Quota[l] THEN Quota[l] - have ELSE 0

MissingSlots(rows, p) ==
  SumFunction([l \in Line |-> Deficit(rows, p, l)])

-----------------------------------------------------------------------------
(* Bids *)

\* Slips in place_bid: the owner is not looked up; the other bids of the round
\* are not added up.
AcceptableIfOwned(o, r) ==
  /\ o.on \in quoted
  /\ \A b \in BidsOf(o.by, r) : b.on # o.on
  /\ o.amount >= Quotation[o.on]
  /\ Total(BidsOf(o.by, r)) + o.amount <= budget[o.by]

AcceptableAlone(o, r) ==
  /\ o.on \in quoted
  /\ \A b \in BidsOf(o.by, r) : b.on # o.on
  /\ o.on \notin Owned(roster)
  /\ o.amount >= Quotation[o.on]
  /\ o.amount <= budget[o.by]

\* place_bid with validate_bid.
Acceptable(o, r) ==
  /\ o.on \in quoted
  /\ \A b \in BidsOf(o.by, r) : b.on # o.on
  /\ o.on \notin Owned(roster)
  /\ o.amount >= Quotation[o.on]
  /\ Total(BidsOf(o.by, r)) + o.amount <= budget[o.by]
  \* The unique index makes a bid wait for, and lose to, a random bid of the
  \* same participant on the same player in an uncommitted resolution.
  /\ \A g \in generated : ~(g.by = o.by /\ g.on = o.on)

\* A bid request reads and writes the current round; it takes no lock.
BidRound(r) == IsCurrent(r) /\ (phase = "idle" \/ BidDuring)

AsOffer(b) == [by |-> b.by, on |-> b.on, amount |-> b.amount]
AsBid(o, r) == [round |-> r, by |-> o.by, on |-> o.on, amount |-> o.amount]

PlaceBid(o) ==
  \E r \in 1..Len(rounds) :
    /\ BidRound(r)
    /\ Acceptable(o, r)
    /\ bids' = bids \cup {AsBid(o, r)}
    /\ UNCHANGED <<status, now, rounds, validations, roster, budget, closed,
                   quoted, departed, request, txVars, aborts>>

\* Two bids of one participant sent at the same time: each is checked before
\* the other one commits.
PlaceTwoBids(o, other) ==
  \E r \in 1..Len(rounds) :
    /\ DoubleSubmit
    /\ o.by = other.by /\ o.on # other.on
    /\ BidRound(r)
    /\ Acceptable(o, r) /\ Acceptable(other, r)
    /\ bids' = bids \cup {AsBid(o, r), AsBid(other, r)}
    /\ UNCHANGED <<status, now, rounds, validations, roster, budget, closed,
                   quoted, departed, request, txVars, aborts>>

\* The row of a bid whose won is written and not yet committed is locked.
CancelBid(p, pl) ==
  \E r \in 1..Len(rounds) : \E b \in BidsOf(p, r) :
    /\ BidRound(r)
    /\ b.on = pl
    /\ ~(phase = "draft" /\ txRound = r /\ AsOffer(b) \in offers)
    /\ bids' = bids \ {b}
    /\ UNCHANGED <<status, now, rounds, validations, roster, budget, closed,
                   quoted, departed, request, txVars, aborts>>

-----------------------------------------------------------------------------
(* Validate and close requests *)

\* What a transaction run for the requests of S adds to the tables it reads.
ClosedWith(S) == closed \cup {p \in S : request[p].kind = "close"}
ValidationsWith(S) ==
  validations \cup
    {<<request[p].round, p>> : p \in {q \in S : /\ request[q].kind = "validate"
                                              /\ ~rounds[request[q].round].resolved}}

\* A slip: those who closed their mercato are waited for.
EveryoneAtAllValidated(r, done, shut) ==
  \A p \in Participant : <<r, p>> \in done

\* everyone_validated
EveryoneValidated(r, done, shut) ==
  \A p \in Open(shut, budget) : <<r, p>> \in done

MayBegin(p) ==
  /\ request[p].kind = "none"
  /\ Cardinality({q \in Participant : request[q].kind # "none"}) < MaxInFlight

\* POST validate: the row is inserted and everyone_validated is read; the row
\* shows to the others when the request commits.
BeginValidate(p) ==
  \E r \in 1..Len(rounds) :
    LET all == EveryoneValidated(r, validations \cup {<<r, p>>}, closed)
    IN /\ MayBegin(p)
       /\ IsCurrent(r)
       /\ all => r < MaxRound
       /\ request' = [request EXCEPT ![p] =
                        [kind |-> "validate", round |-> r, trigger |-> all]]
       /\ UNCHANGED <<tables, txVars, aborts>>

\* POST close: the flag is flushed, which locks the participant's row.  The
\* flush waits if the running transaction has already written that row.
BeginClose(p) ==
  /\ MayBegin(p)
  /\ ~(phase = "draft" /\ txBudget[p] # budget[p])
  /\ \/ \E r \in 1..Len(rounds) :
          LET all == EveryoneValidated(r, validations, closed \cup {p})
          IN /\ IsCurrent(r)
             /\ all => r < MaxRound
             /\ request' = [request EXCEPT ![p] =
                              [kind |-> "close", round |-> r, trigger |-> all]]
     \/ /\ \A r \in 1..Len(rounds) : ~IsCurrent(r)
        /\ request' = [request EXCEPT ![p] =
                         [kind |-> "close", round |-> 0, trigger |-> FALSE]]
  /\ UNCHANGED <<tables, txVars, aborts>>

\* The request commits without resolving: it was not the last one, or it
\* waited for the league lock and found its round resolved.
CommitRequest(p) ==
  /\ request[p].kind # "none"
  /\ p \notin holder
  /\ \/ ~request[p].trigger
     \/ /\ request[p].trigger /\ phase = "idle"
        /\ rounds[request[p].round].resolved
  /\ validations' = ValidationsWith({p})
  /\ closed' = ClosedWith({p})
  /\ request' = [request EXCEPT ![p] = NoRequest]
  /\ UNCHANGED <<status, now, rounds, bids, roster, budget, quoted, departed,
                 txVars, aborts>>

-----------------------------------------------------------------------------
(* Random bids *)

\* The bids generate_random_bids may return for p in round r, as its contract:
\* at most a third of the missing slots, only on short lines, within the
\* round's share of the money left, a premium of at most 20 %, and one unit
\* kept back for every slot still missing.  RandomBids models the generator.
RandomChoices(p, r) ==
  LET slots == MissingSlots(roster, p)
      money == budget[p] - Total(BidsOf(p, r))
      roundsLeft == Max({1, BaseRounds - r + 1})
      within == {o \in [by: {p}, on: Free(roster), amount: 1..MercatoBudget] :
                   /\ \A b \in BidsOf(p, r) : b.on # o.on
                   /\ Quotation[o.on] <= o.amount
                   /\ o.amount <= (12 * Quotation[o.on] + 5) \div 10}
  IN IF slots = 0 \/ money < 1 THEN {{}}
     ELSE {S \in SUBSET within :
             /\ OneOfferEach(S)
             /\ Cardinality(S) <= Max({1, (slots + 2) \div 3})
             /\ \A l \in Line :
                  Cardinality({o \in S : LineOf[o.on] = l})
                    <= Deficit(roster, p, l)
             /\ Total(S) <= money \div roundsLeft
             /\ S # {} => Total(S) + (slots - Cardinality(S)) <= money}

\* One choice for each participant that did not validate in time.
RandomBidSets(r, late) ==
  LET choices == {f \in [late -> UNION {RandomChoices(p, r) : p \in late}] :
                    \A p \in late : f[p] \in RandomChoices(p, r)}
  IN {UNION {f[p] : p \in late} : f \in choices}

-----------------------------------------------------------------------------
(* resolve_round *)

\* From the lock to the call of allocate.  S is the request that runs the
\* resolution, if one does; the budgets handed over are the open participants'.
StartResolve(S, r) ==
  LET open == Open(ClosedWith(S), budget)
      late == {p \in open : <<r, p>> \notin ValidationsWith(S)}
  IN /\ phase = "idle"
     /\ ~rounds[r].resolved
     /\ \E random \in RandomBidSets(r, late) :
          /\ generated' = random
          /\ Call({AsOffer(b) : b \in RoundBids(r)} \cup random,
                  [p \in open |-> budget[p]])
     /\ phase' = "award"
     /\ holder' = S
     /\ txRound' = r
     /\ UNCHANGED <<tables, request, txRoster, txBudget, aborts>>

\* The last validation, or the last close, resolves at once.
RequestResolves(p) ==
  /\ request[p].kind # "none" /\ request[p].trigger
  /\ StartResolve({p}, request[p].round)

\* A slip: only the leagues whose mercato is open are looked at.
DeadlineResolvesOpen ==
  \E r \in 1..Len(rounds) :
    /\ status = "mercato"
    /\ rounds[r].deadline <= now
    /\ StartResolve({}, r)

\* run_mercato_deadlines, first loop: whatever the status of the league.
DeadlineResolves ==
  \E r \in 1..Len(rounds) :
    /\ rounds[r].deadline <= now
    /\ StartResolve({}, r)

\* POST rounds/{id}/resolve by the admin, or the resolve-round command.
ForceResolve ==
  \E r \in 1..Len(rounds) : r < MaxRound /\ StartResolve({}, r)

\* allocate's loop, on the transaction's own variables.
AwardStep ==
  /\ phase = "award"
  /\ Walk
  /\ UNCHANGED <<tables, request, phase, holder, txRound, generated, txRoster,
                 txBudget, aborts>>

\* A slip: the running budgets are not copied back.
NothingDebited == budget

\* Budgets are only debited once every player has been walked.
SettledBudget ==
  [p \in Participant |-> IF p \in DOMAIN remaining THEN remaining[p]
                                                   ELSE budget[p]]
SettledRoster ==
  roster \cup {[by |-> a.by, on |-> a.on, price |-> a.amount, draft |-> FALSE] :
                 a \in allocations}

\* Writing won on a bid that was withdrawn since it was read matches no row,
\* which fails the flush and with it the whole transaction.
NoneWithdrawn ==
  offers \ generated \subseteq {AsOffer(b) : b \in RoundBids(txRound)}

\* A slip: the mercato never times out.
ShouldCloseUntimed(money, shut, open, r) ==
  \/ \A p \in Participant : money[p] <= 0
  \/ shut = Participant
  \/ r >= BaseRounds /\ open = {}

\* mercato_should_close.  shut is what the session's objects say, open is the
\* query of open_participants.
ShouldClose(money, shut, open, r) ==
  \/ \A p \in Participant : money[p] <= 0
  \/ shut = Participant
  \/ now >= AutoCloseDays
  \/ r >= BaseRounds /\ open = {}

\* In a resolution, a participant that was open when it started still counts
\* as open: its object was loaded then and is not refreshed.
ResolutionCloses ==
  ShouldClose(SettledBudget, ClosedWith(holder) \ DOMAIN budgets,
              Open(ClosedWith(holder), SettledBudget), txRound)

\* A close request holds the lock of the participant row it has updated.
HoldsRow(p) == request[p].kind = "close" /\ p \notin closed

\* The transaction's updates of these rows wait for the requests holding them.
RowsFree(S) == \A p \in S \ holder : ~HoldsRow(p)

EndTransaction ==
  /\ phase' = "idle"
  /\ holder' = {}
  /\ txRound' = 0
  /\ generated' = {}
  /\ txRoster' = {}
  /\ txBudget' = NoMoney
  /\ offers' = {} /\ pending' = {} /\ allocations' = {}
  /\ budgets' = NoMoney /\ remaining' = NoMoney

\* The request that ran the transaction commits with it.
CommitHolder ==
  /\ validations' = {v \in ValidationsWith(holder) : v[1] # txRound}
  /\ request' = [p \in Participant |->
                   IF p \in holder THEN NoRequest ELSE request[p]]

\* A slip: resolved_at is not written.
RoundsUntouched(r) == rounds

\* rounds with resolved_at set on r (on none for r = 0).
Resolved(r) ==
  [k \in DOMAIN rounds |->
     IF k = r THEN [rounds[k] EXCEPT !.resolved = TRUE] ELSE rounds[k]]

\* The mercato goes on: the round is resolved and the next one created.
ContinueMercato ==
  /\ phase = "award" /\ pending = {}
  /\ NoneWithdrawn
  /\ ~ResolutionCloses
  /\ RowsFree({p \in Participant : SettledBudget[p] # budget[p]})
  /\ rounds' = Append(Resolved(txRound),
                      [deadline |-> now + NextRoundDays, resolved |-> FALSE])
  /\ bids' = {b \in bids : b.round # txRound}
  /\ roster' = SettledRoster
  /\ budget' = SettledBudget
  /\ closed' = ClosedWith(holder)
  /\ CommitHolder
  /\ EndTransaction
  /\ UNCHANGED <<status, now, quoted, departed, aborts>>

\* The mercato closes: close_mercato starts in the same transaction.
StartClosing ==
  /\ phase = "award" /\ pending = {}
  /\ NoneWithdrawn
  /\ ResolutionCloses
  /\ phase' = "draft"
  /\ txRoster' = SettledRoster
  /\ txBudget' = SettledBudget
  /\ UNCHANGED <<tables, request, holder, txRound, generated, allocVars, aborts>>

-----------------------------------------------------------------------------
(* close_mercato *)

\* run_mercato_deadlines, second loop: closes without resolving the round.
SchedulerCloses ==
  /\ phase = "idle" /\ status = "mercato"
  /\ \E r \in 1..Len(rounds) :
       IsCurrent(r) /\ ShouldClose(budget, closed, Open(closed, budget), r)
  /\ phase' = "draft"
  /\ txRoster' = roster
  /\ txBudget' = budget
  /\ UNCHANGED <<tables, request, holder, txRound, generated, allocVars, aborts>>

\* draft_missing_players gives p a free player of line l, rows being the
\* roster and money the budgets as the closing transaction sees them.
\* A slip: nothing is handed over free of charge.
ShortAndPaying(rows, money, p, l) ==
  /\ Deficit(rows, p, l) > 0 /\ money[p] > 0
  /\ \E pl \in Free(rows) : LineOf[pl] = l

Short(rows, money, p, l) ==
  /\ Deficit(rows, p, l) > 0
  /\ \E pl \in Free(rows) : LineOf[pl] = l

\* The loops over participants, by id, then over lines.
FirstShort(rows, money, p, l) ==
  /\ Short(rows, money, p, l)
  /\ \A q \in Participant, m \in Line :
       Short(rows, money, q, m) => p < q \/ (p = q /\ l <= m)

\* Cheapest first, then by id.
Cheapest(rows, pl, l) ==
  /\ pl \in Free(rows) /\ LineOf[pl] = l
  /\ \A other \in Free(rows) : LineOf[other] = l =>
       \/ Quotation[pl] < Quotation[other]
       \/ Quotation[pl] = Quotation[other] /\ pl <= other

\* A slip: the quotation is charged in full.
DraftPriceFull(money, p, pl) == Quotation[pl]

DraftPrice(money, p, pl) ==
  IF money[p] < Quotation[pl] THEN money[p] ELSE Quotation[pl]

\* A turn of its inner loop: p is handed pl.
Drafts(rows, money, p, pl) ==
  \E l \in Line : FirstShort(rows, money, p, l) /\ Cheapest(rows, pl, l)

DraftRow(money, p, pl) ==
  [by |-> p, on |-> pl, price |-> DraftPrice(money, p, pl), draft |-> TRUE]

Drafted(rows, money) ==
  \A p \in Participant, l \in Line : ~Short(rows, money, p, l)

DraftStep ==
  /\ phase = "draft"
  /\ \E p \in Participant, pl \in Player :
       /\ Drafts(txRoster, txBudget, p, pl)
       /\ txRoster' = txRoster \cup {DraftRow(txBudget, p, pl)}
       /\ txBudget' = [txBudget EXCEPT ![p] = @ - DraftPrice(txBudget, p, pl)]
  /\ UNCHANGED <<tables, request, phase, holder, txRound, generated, allocVars,
                 aborts>>

\* A slip: only the league's status is changed.
FlagsUntouched == closed

\* Every mercato_closed flag is set.
FlagsAllSet == Participant

FinishClosing ==
  /\ phase = "draft"
  /\ Drafted(txRoster, txBudget)
  /\ RowsFree(Participant)
  /\ status' = "running"
  /\ rounds' = Resolved(txRound)
  /\ bids' = {b \in bids : b.round # txRound}
  /\ roster' = txRoster
  /\ budget' = txBudget
  /\ closed' = FlagsAllSet
  /\ CommitHolder
  /\ EndTransaction
  /\ UNCHANGED <<now, quoted, departed, aborts>>

-----------------------------------------------------------------------------
(* Failures *)

\* Nothing of the transaction remains, nor of the request that ran it.
Rollback ==
  /\ request' = [p \in Participant |->
                   IF p \in holder THEN NoRequest ELSE request[p]]
  /\ EndTransaction
  /\ UNCHANGED tables

\* Lost connection, restart, deadlock victim.
Abort ==
  /\ phase # "idle"
  /\ aborts < MaxAborts
  /\ aborts' = aborts + 1
  /\ Rollback

WithdrawalFails ==
  /\ phase = "award" /\ pending = {}
  /\ ~NoneWithdrawn
  /\ Rollback
  /\ UNCHANGED aborts

\* The transaction waits for a row whose holder waits for the league lock:
\* the database ends the deadlock by failing one of them, here the request.
RequestIsVictim(p) ==
  /\ phase # "idle"
  /\ p \notin holder
  /\ HoldsRow(p) /\ request[p].trigger
  /\ request' = [request EXCEPT ![p] = NoRequest]
  /\ UNCHANGED <<tables, txVars, aborts>>

-----------------------------------------------------------------------------
(* Opening, ingestion, time *)

\* A slip: the route does not look at the league's status.
OpenMercatoAgain ==
  /\ status' = "mercato"
  /\ budget' = [p \in Participant |-> MercatoBudget]
  /\ rounds' = <<[deadline |-> FirstRoundDays, resolved |-> FALSE]>>
  /\ UNCHANGED <<now, bids, validations, roster, closed, quoted, departed,
                 request, txVars, aborts>>

OpenMercato ==
  /\ status = "created"
  /\ status' = "mercato"
  /\ budget' = [p \in Participant |-> MercatoBudget]
  /\ rounds' = <<[deadline |-> FirstRoundDays, resolved |-> FALSE]>>
  /\ UNCHANGED <<now, bids, validations, roster, closed, quoted, departed,
                 request, txVars, aborts>>

\* Ingestion lists a player, or finds it gone from the championship.
PlayerListed(pl) ==
  /\ phase = "idle" /\ pl \in Unsettled
  /\ quoted' = quoted \cup {pl}
  /\ departed' = departed \ {pl}
  /\ UNCHANGED <<status, now, rounds, bids, validations, roster, budget, closed,
                 request, txVars, aborts>>

PlayerGone(pl) ==
  /\ phase = "idle" /\ pl \in Unsettled \cap quoted
  /\ departed' = departed \cup {pl}
  /\ UNCHANGED <<status, now, rounds, bids, validations, roster, budget, closed,
                 quoted, request, txVars, aborts>>

\* Resolutions take no measurable time: the clock moves between them.
Tick ==
  /\ phase = "idle" /\ status # "created"
  /\ now < MaxTime
  /\ now' = now + 1
  /\ UNCHANGED <<status, rounds, bids, validations, roster, budget, closed,
                 quoted, departed, request, txVars, aborts>>

-----------------------------------------------------------------------------

\* A league whose participants have joined (join_league grants the budget).
Init ==
  /\ status = "created" /\ now = 0 /\ rounds = <<>>
  /\ bids = {} /\ validations = {} /\ roster = {}
  /\ budget = [p \in Participant |-> MercatoBudget]
  /\ closed = {}
  /\ quoted = Player \ Unsettled /\ departed = {}
  /\ request = [p \in Participant |-> NoRequest]
  /\ phase = "idle" /\ holder = {} /\ txRound = 0 /\ generated = {}
  /\ txRoster = {} /\ txBudget = NoMoney
  /\ offers = {} /\ pending = {} /\ allocations = {}
  /\ budgets = NoMoney /\ remaining = NoMoney
  /\ aborts = 0

BidStep ==
  \/ \E o \in Intents : PlaceBid(o) \/ CancelBid(o.by, o.on)
  \/ \E o, other \in Intents : PlaceTwoBids(o, other)

RequestStep ==
  \E p \in Participant :
    \/ BeginValidate(p)
    \/ BeginClose(p)
    \/ CommitRequest(p)
    \/ RequestResolves(p)
    \/ RequestIsVictim(p)

TransactionStep ==
  AwardStep \/ ContinueMercato \/ WithdrawalFails
    \/ StartClosing \/ DraftStep \/ FinishClosing

IngestStep == \E pl \in Player : PlayerListed(pl) \/ PlayerGone(pl)

Next ==
  \/ OpenMercato \/ BidStep \/ RequestStep
  \/ DeadlineResolves \/ ForceResolve \/ SchedulerCloses
  \/ TransactionStep \/ Abort \/ IngestStep \/ Tick

Spec == Init /\ [][Next]_vars

-----------------------------------------------------------------------------
(* Fairness *)

\* The scheduler's two loops run every minute and each of their units commits
\* or is tried again; a request that has begun ends; a transaction proceeds.
\* Writing back is strongly fair: a transaction waiting for a row is first in
\* that row's queue when the request holding it ends.  Nothing obliges the
\* participants or the admin to act.
Fairness ==
  /\ WF_vars(Tick)
  /\ WF_vars(DeadlineResolves)
  /\ WF_vars(SchedulerCloses)
  /\ WF_vars(AwardStep \/ WithdrawalFails \/ StartClosing \/ DraftStep)
  /\ SF_vars(ContinueMercato \/ FinishClosing)
  /\ \A p \in Participant :
       WF_vars(CommitRequest(p)) /\ WF_vars(RequestIsVictim(p))

FairSpec == Spec /\ Fairness

-----------------------------------------------------------------------------
(* Properties *)

TablesOK ==
  /\ status \in {"created", "mercato", "running"}
  /\ now \in Nat
  /\ rounds \in Seq(Round)
  /\ bids \subseteq Bid
  /\ validations \subseteq Nat \X Participant
  /\ roster \subseteq Row
  /\ budget \in [Participant -> Nat]
  /\ closed \subseteq Participant
  /\ quoted \subseteq Player /\ departed \subseteq Player

RequestsOK ==
  /\ request \in [Participant -> [kind: {"none", "validate", "close"},
                                  round: Nat, trigger: BOOLEAN]]
  /\ aborts \in Nat

TransactionOK ==
  /\ phase \in {"idle", "award", "draft"}
  /\ holder \subseteq Participant
  /\ txRound \in Nat
  /\ generated \subseteq Offer
  /\ txRoster \subseteq Row
  /\ txBudget \in [(IF phase = "draft" THEN Participant ELSE {}) -> Nat]
  /\ AllocTypeOK

\* Types; every budget is a natural number, so nobody is ever overdrawn.
TypeOK == TablesOK /\ RequestsOK /\ TransactionOK

\* models.py, Roster: one owner per player per league.  The table does not
\* enforce it; place_bid, the league lock and the draft have to.
UniqueOwner == \A x, y \in roster : x.on = y.on => x = y

\* What the squad of p cost, over any copy of the roster.
Spent(p, rows) ==
  SumFunction([x \in {y \in rows : y.by = p} |-> x.price])

\* What a participant has left and what its squad cost make the 500 it
\* started with: nothing is debited twice, refunded or lost.
MoneyConserved ==
  \A p \in Participant :
    budget[p] + Spent(p, roster) = MercatoBudget

\* An open mercato always has exactly one round to bid on, the last one; a
\* league that is running keeps at most the round its closing left behind.
OneOpenRound ==
  LET unresolved == {r \in DOMAIN rounds : ~rounds[r].resolved}
  IN /\ unresolved \subseteq {Len(rounds)}
     /\ status = "mercato" => unresolved # {}

\* validate_bid: the bids of a round together never exceed the budget.
BidsWithinBudget ==
  status = "mercato" =>
    \A r \in DOMAIN rounds, p \in Participant :
      ~rounds[r].resolved => Total(BidsOf(p, r)) <= budget[p]

\* POST validate: "if everyone still open has validated, it resolves at once".
\* With nothing in flight, an open round lacks somebody's validation.
ValidatedMeansResolved ==
  \A r \in DOMAIN rounds :
    /\ status = "mercato" /\ phase = "idle"
    /\ \A p \in Participant : request[p].kind = "none"
    /\ ~rounds[r].resolved
    /\ Open(closed, budget) # {}
    => \E p \in Open(closed, budget) : <<r, p>> \notin validations

\* The docstring of allocate: as long as the cap held, no bidder is passed
\* over for a lower bid because it cannot pay.
CappedLeaderWins ==
  phase = "award" /\ BidsWithinBudget =>
    \A b \in offers :
      b.on \in pending
        \/ \E a \in allocations : a.on = b.on /\ a.amount >= b.amount

\* Nothing that was settled is undone: squads only grow, budgets only shrink,
\* a resolved round stays resolved, a round is never removed.
SettledStands ==
  [][/\ roster \subseteq roster'
     /\ \A p \in Participant : budget'[p] <= budget[p]
     /\ \A r \in DOMAIN rounds : r \in DOMAIN rounds' /\
          (rounds[r].resolved => rounds'[r].resolved)]_vars

\* close_mercato: when the league starts, a squad is short on a line only if
\* not one player of that line was left.
ClosingCompletesSquads ==
  [][status' = "running" =>
       \A p \in Participant, l \in Line :
         Deficit(roster', p, l) > 0 =>
           \A pl \in Free(roster') : LineOf[pl] # l]_<<status, roster>>

\* The round a closing leaves behind is resolved later, on a league that is
\* running, and the mercato closed a second time: with an unchanged catalogue
\* neither moves a player or any money.
SecondClosingChangesNothing ==
  [][status = "running" => UNCHANGED <<roster, budget>>]_<<status, roster, budget>>

\* The inductive invariant behind UniqueOwner, in parts.  A league that is
\* running has only closed participants: none is open to a late resolution.
RunningMeansClosed == status = "running" => closed = Participant

\* Bids and requests are about rounds that exist, bids about one unresolved.
KnownRounds ==
  /\ status = "created" => rounds = <<>>
  /\ \A b \in bids : b.round \in DOMAIN rounds /\ ~rounds[b.round].resolved
  /\ \A p \in Participant :
       /\ request[p].round \in 0..Len(rounds)
       /\ request[p].trigger => request[p].round # 0

\* While the mercato is open, no bid is on an owned player.
LiveBidsAreFree ==
  status = "mercato" => \A b \in bids : b.on \notin Owned(roster)

\* What a resolution may award is owned by nobody, or nobody is open to it.
AwardsAreNew ==
  phase = "award" =>
    /\ txRound \in DOMAIN rounds /\ ~rounds[txRound].resolved
    /\ OneTaker
    /\ \A a \in allocations : a.by \in DOMAIN budgets
    /\ status = "running" => DOMAIN budgets = {}
    /\ status = "mercato" => \A o \in offers : o.on \notin Owned(roster)

DraftIsUnique ==
  phase = "draft" => \A x, y \in txRoster : x.on = y.on => x = y

\* Everything UniqueOwner rests on: who may be awarded what, from the bid to
\* the roster row, across all the steps that run in between.
SoundMercato ==
  /\ TypeOK /\ UniqueOwner /\ OneOpenRound
  /\ RunningMeansClosed /\ KnownRounds /\ LiveBidsAreFree
  /\ AwardsAreNew /\ DraftIsUnique

\* Mercato implements Market.
Promise == INSTANCE Market WITH
  Purse <- MercatoBudget, stage <- status, purse <- budget,
  owns <- {[by |-> x.by, on |-> x.on, price |-> x.price] : x \in roster}

KeepsMarketPromise == Promise!MarketSpec

\* The scheduler ends every mercato it finds open, whatever the participants do.
MercatoEnds == (status = "mercato") ~> (status = "running")

\* A round past its deadline is resolved, whatever the league's status.
DueRoundResolved ==
  \A r \in 1..(MaxRound + MaxTime + 1) :
    (r \in DOMAIN rounds /\ rounds[r].deadline <= now)
      ~> (r \in DOMAIN rounds /\ rounds[r].resolved)

=============================================================================
