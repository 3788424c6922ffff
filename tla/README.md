# Verification of mpg-ia-bench

`mpg` is a fantasy-football game server: leagues of two to ten participants buy
real players in a closed-bid *mercato*, field lineups week after week, and are
scored from the ratings of real matches. It is a FastAPI application over
PostgreSQL (one READ COMMITTED transaction per request), with one background
scheduler. This directory holds TLA+ models of its core, the TLC runs that
check them and proofs of what matters most.

Source paths below are relative to `src/mpg/` of the repository.

## 1. Inventory

| Component | State it keeps | Operations | What makes it correct |
|---|---|---|---|
| Mercato (`mercato/service.py`, `rules.py`, `api/routers/mercato.py`, `web/routes.py`) | `league.status`, `mercato_round`, `bid`, `round_validation`, `roster`, `participant.budget`, `participant.mercato_closed` | bid, withdraw, validate, close, resolve, draft, open | one owner per player, no budget below zero, money conserved, a round resolved once, a mercato that ends |
| Award (`mercato/allocation.py`) | none (a pure loop) | `allocate` | the best payable bid wins, debits are exact |
| Random bids (`mercato/random_bids.py`) | none | `generate_random_bids` | stays within the money, keeps the reserve |
| Scheduler (`scheduler.py`) | none | deadline job, closing job, ingestion job | one league's failure does not hold back another |
| Leagues (`services/leagues.py`, its routes) | `league`, `participant`, `league_match` | create, join, generate fixtures, open | one complete calendar, no duplicate member, a size that overlapping joins overrun by a bounded number |
| Calendar (`services/calendar.py`) | none | round robin, return legs | everybody plays once a week and meets everybody |
| Lineups (`services/lineups.py`) | `lineup`, `lineup_slot`, `tactical_sub`, `bonus_usage` | save a lineup, pose a bonus | what the engine is handed is always legal; quotas hold up to what overlaps |
| Game weeks (`services/matchday.py`) | the results in `league_match`, `participant.budget` | resolve a week, replay a fixture | a published result stands, a Valise is paid with its result |
| Ingestion (`ingest/jobs.py`) | `player`, `real_match`, `performance`, `needs_recompute` flags | refresh a championship | a revised rating flags the fixtures it changes |
| Engine (`engine/`) | none | bonuses, substitutions, virtual goals, save, result | pure algorithms in an order of rules: goal line, nobody twice, no rule undoes another |
| Standings (`services/standings.py`) | none | table and tie-breaks | a victory never costs a place, and a result leaves the others in their order unless it changes who is level with them |
| Benchmark (`bench/`) | none beside the tables | a baseline or a language model bids and picks a lineup | answers clamped and repaired into what the rules accept |
| Presentation, command line, security, demo data | none | templates, parsing, passwords | not protocol: left out |

How they interact. Requests and the scheduler share only the database. A
request is one transaction (`db/session.py`), so two requests interleave at
their reads and their commit. `resolve_round` locks the league's row; bids,
withdrawals, validations, closes and the scheduler's own close do not. The last
validation, the last close, the deadline job and the admin's button all call
`resolve_round`, which calls `allocate`, and may call `close_mercato`, which
drafts the missing players.

Past the mercato the same holds: joins, lineups, bonuses, resolutions and
replays of game weeks and the ingestion job meet on the league's tables without
any lock; unique keys are the only thing that stands between two of them.
`resolve_game_week` reads lineups, bonuses and ratings, hands them to the engine
(which touches no table) and writes the result; the ingestion looks up which
results a changed rating concerns and flags them. The benchmark's agents call
the same services as the users.

What is hard: two resolutions at once; bids that come and go during one; the
last two validators that do not see each other; the scheduler's close without a
lock; transactions that fail and are tried again; a round left behind by a
closing and resolved later; joins, saves and bonuses whose checks read what
another request is about to change; ratings that are revised under a published
result; an engine whose rules meet on the same bench, the same list of goals and
the same ties.
`PROJECT.json` lists every hazard at its line with the properties that cover it.

## 2. Modules

| Module | Models |
|---|---|
| `Allocation` | `allocate`: one step per player, on running budgets |
| `Mercato` (extends `Allocation`) | the whole life of one league's mercato, with every request, the deadline job, failures, ingestion and time |
| `Market` | the promise a mercato keeps; `Mercato` implements it (`Promise`) |
| `CloseRace` (extends `Mercato`) | the scheduler's close as a second transaction beside a resolution |
| `Squads` | lines, formations and `validate_lineup`, shared by what follows |
| `Bids` (extends `Squads`) | a sheet of bids filled by the random generator, the baseline or a clamped model answer, round after round |
| `Bench` (extends `Bids`) | an agent of the benchmark from its first bid to the lineup it hands in |
| `Engine` (extends `Squads`) | the resolution of a match as operators: no state |
| `Match` (extends `Engine`) | one fixture, for every choice of sheets, bonuses and settings |
| `Calendar`, `Standings` | the round robin and the table as operators |
| `Table` (extends both) | results arriving in any order |
| `Sessions` | a request as a transaction of two steps |
| `Leagues` (extends `Sessions`, `Calendar`) | joining, fixtures, opening |
| `Lineups` (extends `Leagues`, `Squads`) | saving lineups, posing bonuses |
| `GameWeek` (extends `Lineups`, `Engine`) | resolving, replaying, ingesting ratings |
| `Season` (extends `GameWeek`) | all of it on one league, with its properties |
| `MC...` | TLC instances |
| `Sums` | lemmas on sums over finite sets, on least numbers and on ranks, for the proofs |
| `AllocationProofs`, `MercatoProofs`, `MoneyProofs` | theorems about the award, the mercato and `Market` |
| `SeasonProofs` | theorems about `Season` |
| `BenchProofs` | theorems about the sheets of bids and the lineups |
| `MatchProofs` | theorems about the engine, through `Match` |
| `TableProofs` | theorems about the calendar and the table |

A definition introduced by "A slip" models no code: it is the mistake against
which a property has been tried.

### Allocation
`offers` and `budgets` are the arguments, `remaining` and `allocations` the
result, `pending` the players the loop has still to walk. `AwardPlayer` is a
turn of the loop that sells the player, `LeaveUnsold` one in which every
candidate was refused. Players and participants are numbers, because the code
walks and sorts them by id. The seeded draw between equal leading bids is a
free choice; the journal is left out.

### Mercato
The tables are variables (`status` to `departed`). A resolution or a closing is
one transaction with a private workspace (`phase`, `holder`, `txRound`,
`generated`, `txRoster`, `txBudget` and the variables of `Allocation`): other
requests keep committing while it runs, and its result reaches the tables when
it commits.

| Action | Code |
|---|---|
| `PlaceBid`, `PlaceTwoBids`, `CancelBid` | `place_bid` with `validate_bid`, `cancel_bid` |
| `BeginValidate`, `BeginClose`, `CommitRequest` | the validate and close requests: what they read, and their commit |
| `RequestResolves`, `DeadlineResolves`, `ForceResolve` (`StartResolve`) | `resolve_round` from the lock to the call of `allocate` |
| `AwardStep` | a turn of `allocate` |
| `ContinueMercato` | debits, rosters, `resolved_at`, `create_next_round`, commit |
| `StartClosing`, `DraftStep`, `FinishClosing` | `close_mercato` inside the resolution |
| `SchedulerCloses` | the scheduler's own close, which resolves no round |
| `WithdrawalFails` | writing `won` on a row that was withdrawn: SQLAlchemy fails the flush |
| `Abort`, `RequestIsVictim` | a failed transaction; a deadlock victim |
| `OpenMercato`, `PlayerListed`, `PlayerGone`, `Tick` | opening, ingestion, the clock (in days) |

Points of the code that the model keeps because properties depend on them: the
deadline job looks for due rounds whatever the status of the league; a
resolution decides whether to close with the `mercato_closed` flags it read at
its start (`ResolutionCloses`); a bid is checked without a lock; a close
request keeps its participant's row locked while it waits for the league; the
random bids of an uncommitted resolution make a bid of the same participant on
the same player fail. `mercato_auto_close = False` is an `AutoCloseDays` beyond
`MaxTime`.

Abstractions: the bids and validations of a resolved round are dropped (nothing
reads them again; a bid that is committed during the resolution of its round is
lost with them, as it is in the code, where its `won` stays NULL for ever);
random bids are any bids that satisfy the contract of the generator; a
resolution reads its tables in one step; ids, seeds and texts are left out.
In `Mercato` at most one resolving or closing transaction runs at a time. For
two resolutions that is what the lock on the league row gives; for the
scheduler's close it is a simplification that `CloseRace` drops.

### Market
The abstract specification: `stage`, `owns` and `purse`, and two actions. A
`Settle` sells a batch of unowned players, each to one buyer who pays for it
from a purse that stays at least zero. `KeepsMarketPromise` checks that every
step of `Mercato` is one of its steps or a stutter, with the tables as the
refinement mapping: bids, rounds, requests and workspaces are invisible.

### CloseRace
The closer has its own copy of what it read (`readRows`, `readMoney`) and of
what it added (`newRows`, `ownMoney`).

| Action | Code |
|---|---|
| `CloseDecides` | `mercato_should_close` says yes |
| `CloseTurn` | `draft_missing_players` goes on to the next participant and reads the roster again; the budgets are read once, with the participants |
| `CloseDrafts` | a player handed to the participant whose turn it is |
| `CloseRefused` | the unique key refuses a player this very participant was awarded meanwhile |
| `CloseCommits` | the end of `close_mercato` and the commit |
| `CloseIsVictim` | a deadlock victim |

It waits for the league lock only when it writes `league.status`, at the very
end; debits lock participant rows, and a new roster row its key, so the two
transactions may also deadlock, and one of them then fails. A resolution that
commits between two turns is seen by the second; one that commits during a turn
is not.

### Squads, Engine and Match
Ratings are in half points, so that every rating is a natural number; the
averages of the virtual goals are compared as fractions, never rounded. Players
carry their ultra position, whose tens are the line. `Engine` follows
`resolver.py` from the mirrors to the score:

| Operator | Code |
|---|---|
| `resolve_match` | `resolve_match`: bonuses, XI, duels, save, Valise, own goals |
| the mirrors and the bonuses of a side | `bonuses.py` |
| tactical, live and mandatory substitutions, phantom players | `substitutions.py` |
| duels, averages, virtual goals | `mpg_goals.py`, `lines.py` |

The engine's loops (rules, live changes, seats, lines, kinds of goals) are
recursive functions on the number of steps made, one named operator per step
(`ApplyRule`, `ApplyChange`, `FillSeat`, `Duel`, `CancelKind`).

`Match` chooses the sheets (`Init`), the bonuses (`PoseBonuses`) and the league's
settings (`ReadContext`), then resolves (`Resolve`). `MatchAssumption` says what
the sheets are: legal lineups with a formation (`LegalSheet`) and at most one
limited bonus a side (`LegalBonuses`). Poses that overlap can break the latter
(`BonusOverrunBounded`); with two Miroirs and other bonuses besides, the order
of the sides would then matter. Left out: what only the
report shows. The instance includes live changes and neutralised players, which
the engine handles although no table brings them about today.

### Calendar, Standings and Table
`round_robin` is a function of the members in the order of their ids. `Rank` is
the position `as_table` gives a participant, by the three criteria of `Overall`
and then, inside its group, by `TieBreak`. `Table` lets any fixture be resolved
next, since the admin resolves the week he names.

### Bids and Bench
`author` says who fills the sheet: the random generator (its draws are free
choices inside its envelope), the baseline, or a model whose answer is any bids,
legal or not, through `clamp_bids`. Between two rounds the market awards any
part of the sheet, and the rivals win any of the other free players (`Settle`). `Mercato` uses the contract
of the generator (`RandomChoices`) where `Bids` has its loop. `Bench` goes on
with the draft (`CloseMercato`: the participants served before this one may have
emptied a line), the lineup a model names player by player
(`NameStarter`, `NameSubstitute`), its repair (`FillStarters`, `HandIn`) and the
baseline's own lineup (`PickBaseline`).

### Season and its modules
A request is what it read and decided (`Begin...`) and its commit (`Commit...`),
with other requests committing in between. A commit that breaks a unique key
leaves nothing. A join has a step more, because the id it is given when its row is
flushed (`FlushJoin`, `ids`) orders the calendar, and others see the participant
only at its commit (`members`): the later of two joins may have the lower id.

| Action | Code |
|---|---|
| `BeginJoin`, `FlushJoin`, `JoinRefused`, `CommitJoin` | `join_league`: its checks, its flush, the unique key, the commit |
| `BeginGenerate`, `BeginOpenScreen`, `BeginOpen`, `CommitLay` | `generate_fixtures` and the two ways of opening a league |
| `MercatoCloses` | the end of the mercato, as the league sees it |
| `BeginSave`, `CommitSave` | `save_lineup` |
| `BeginPose`, `CommitPose` | `pose_bonus` |
| `BeginResolve`, `BeginReplay`, `CommitResults` | `resolve_game_week`, `resolve_league_match` with `force` |
| `BeginRefresh`, `CommitRefresh`, `RefreshFails` | `ingest_pool` for a week's ratings |

What the model keeps because properties depend on it:

* A save replaces the rows it has read. If another save of the same lineup
  commits first (`Overtake`), its deletions hit rows that are gone and the new
  rows stay: both lineups' rows would be merged if they had no player in common.
* SQLAlchemy writes the columns that changed (`Written`), so two resolutions of
  one fixture may leave a mixture; the budget is written as read plus five.
* A missing lineup makes a week raise. The API rolls everything back; the screen
  suppresses the error and commits the fixtures that came before
  (`BeginResolve`).
* A first rating flags nothing; a changed one flags the resolved fixtures whose
  lineups, as they are stored then, list the player.

Abstractions: of a report only the performances it was computed from are kept;
the squads the mercato leaves are constants; no ingestion sets `is_advanced`,
`is_postponed` or `own_goals`, so nobody is neutralised in a season.

## 3. Runs

| Run | Instance | Shows |
|---|---|---|
| `allocation` | 3 participants, 2 players, bids 1..2, budgets 1..3 or closed: all 160 000 states | the five properties of the award loop |
| `mercato_serial` | 2 participants, 3 players, quota 2, budget 3, 2 rounds by request and more by deadline, 1 request in flight | the properties of a whole mercato, the inductive invariant, the refinement of `Market` |
| `mercato_overlap` | 2 participants, 2 players, 2 requests in flight, bids during resolutions, double bids, 1 failure | that ownership and money survive every overlap |
| `mercato_liveness` | 2 participants, 2 players, 1 failure, a player that is listed and leaves | `MercatoEnds`, `DueRoundResolved` |
| `mercato_write_skew` | as serial, 2 requests in flight | violation of the validate route's docstring |
| `mercato_guard_rail` | as serial | violation of the docstring of `allocate` |
| `close_race` | `CloseRace`, 2 participants, 2 players | violation of "one owner per player per league" |
| `match` | 144 home sheets, 8 visitors' sheets, 6 pairs of bonuses, both settings | who is on the field, and what a score must not depend on |
| `table` | calendars of 2 to 10, results of leagues of 2 to 6 | the calendar; a table in which winning never costs a place and the others keep their order |
| `bench` | 4 starters, 2 substitutes, 8 players, quotas of 7, 2 rounds, budgets 6 and 9 | the sheets of bids can be paid and keep the reserve; the lineup is accepted |
| `season` | 2 requests at once, 4 users, leagues of 2 and 4, 4 requests and 2 refreshes | what checks made before a commit guarantee after it |
| `stale_result` | the same with 1 request at a time | violation of "a rating that changes under an already-resolved fixture flags it" |

Bounds. Two participants suffice for a race, a tie and a write skew; three are
used where a third bidder matters (`allocation`). Three players and a quota of
two leave one squad short, so the draft hands out a player free of charge and
also runs out of players. A budget of 3 is spent whole by one bid. `MaxRound`
bounds the rounds resolved on request: from that round on only the scheduler
resolves, so the number of rounds is bounded by `MaxTime`. `MaxInFlight`,
`MaxAborts`, `DoubleSubmit` and `BidDuring` say how much concurrency a run
explores; `Intents` are the bids that may be sent. Deadlock checking is off in
the mercato runs because a league that is running, with the clock stopped,
really may have nothing left to do; in `allocation` it is on and shows that the
loop never stops half way.

In the new runs: five starters (`match`), four (`bench`) and three (`season`)
instead of eleven leave one or two players on a line, where every rule on
substitutions and quotas already has its boundary; two shapes, one of them
behind the 4-2-4 bonus. `match` has ratings at the floor of 5, at the save's
threshold, on ties and just beside them (all from 1 to 10, as
`engine/models.py:27` has it), scorers, own goals, absentees and a postponed
match. `Leagues` in `MCTable` carry the number of results each league
goes up to (`MaxResults`): five of a league of four, enough for a cycle of three
victories and one more result to break it; larger leagues are there for the
calendar. `Scores` are 0 and 1, since only the comparison, the sum and the
difference count. `Answers`, `Named` bound a model's answer, one more than fits.
In `bench` a squad may have one more player than a lineup takes, and the
baseline's bench wants a second forward that no shape without a bonus needs: a
squad then fills every shape and not that bench.
In `season`, requests of the season begin once those of the beginnings are over
and no more than `MaxRequests` do (`Bounded`); `Volatile` bounds the refreshes,
`PlayedWeeks` the weeks that have been played. Two of the four users have no
squad, so a league of four only shows joins, fixtures and opening; it takes
four for a calendar in which two of them have committed in the other order than
that of their ids. The two sessions are
symmetric: they are compared for equality only. Deadlock checking is off, since
a match that is played, a lineup that is handed in and a season out of requests
really stop.

What the properties of the new runs say beyond the types: only goalkeepers keep
goal, whoever replaced whom, and nobody plays twice; a phantom player comes on
when the bench has really nobody; on neutral rules the ground does not matter,
and otherwise home is never worse; what a phantom costs cannot be cancelled; a
rating revised upwards never hurts its side (not claimed with a tactical rule,
which keeps the better player on). Fixtures are one calendar and never two
merged, in the order of the ids of all who had joined, not of those with the
lowest ids; a lineup that reaches the engine is legal under the bonuses posed;
quotas are overrun by no more than what overlaps; the places of two who did not
play change only if they are level and someone comes level with them, or leaves
them; a published result changes
only through a replay or a resolution begun before it was published.

What the properties of `mercato_serial` say beyond the types: a player has one
owner; budgets and prices always add up to the initial budget; one round is
open; the cap holds in every round (only as long as a participant does not send
two bids at once: `mercato_overlap` leaves it out for that reason); nothing
settled is undone; the closing leaves nobody short while a player of that line
is free; the second closing that follows a scheduler's close moves nothing as
long as the catalogue has not changed.

Fairness (`Fairness` in `Mercato`): the clock advances; the two loops of the
deadline job run every minute, and what fails is tried again at the next tick;
a transaction that has begun proceeds; a request in flight commits or is the
victim of a deadlock. Writing back is strongly fair, because a transaction that
waits for a row is first in that row's queue when its holder ends. Nothing is
assumed of participants and admin, who may never act.

## 4. Findings

1. **Two last validations** (`mercato_write_skew`): the round stays open until
   its deadline although everybody still open has validated. It is resolved
   then (`DueRoundResolved`), so time is lost and nothing else.
2. **Bid, then close** (`mercato_guard_rail`): a participant that closes its
   mercato keeps its bids in the round but not its budget in `allocate`, so a
   leading bid within the cap is refused and the player goes to a lower one.
3. **Scheduler close without the lock** (`close_race`): a player ends up with
   two owners. No constraint of the schema covers two participants.
4. **Rating revised after the lineup was** (`stale_result`): `save_lineup`
   accepts a lineup for a week that is resolved, and the flags go by the stored
   lineups. A player left out afterwards is still counted in the published
   result, but a revision of his rating flags nothing.

Observed while modelling, without a run of their own:

* Joins that overlap outgrow the league's size (`CalendarHolds` bounds by how
  many); bonuses that overlap overrun a quota (`BonusOverrunBounded`).
* A participant without a lineup makes the game week raise at every attempt.
  `inherit_lineup` (`services/lineups.py:194`), which would carry last week's
  over, has no caller; neither has `flag_for_recompute`. `record_live_sub` is out
  of reach because nothing sets `league.live_mode`.
* `repair_lineup` adds a goalkeeper to the bench before it cuts the bench to
  size, and counts one that the cut then drops; the lineup is refused
  (`LineupAccepted` states the exception).
* The baseline picks its bench as one goalkeeper and two of each other line
  (`bench/agents.py:121-127`), with nobody of another line for one that is
  short, and its lineup is not repaired. With a squad that fills every shape and
  has enough players in all, the lineup may be refused (`ShapeUnfilled` in
  `LineupAccepted`). After a whole mercato the quotas leave nobody short
  (`BenchAssumption`), unless the market runs out of players of a line.
* `clamp_bids` counts a bid on a line that is already full as a filled place, so
  a model's sheet keeps a smaller reserve than the generator's (`ReserveKept`).
* A replay pays a Valise again, and a concurrent write of the same budget is
  lost. `_performance_index` does not look at the season.

## 5. Proofs

Proved with TLAPS for every value of the constants: every number of
participants, players, sessions, weeks and fixtures, every catalogue, timetable,
squad and sheet, and none of the bounds of the runs. The only assumptions are
the named `ASSUME`s, which TLC evaluates on every instance, and the hypotheses
named below. What holds of a whole loop or sum is proved by looking at a
smallest set, or a first step, at which it would fail (`Smallest`, `Least` in
`Sums`).

### Award (`AllocationProofs`)

`NeverOverdrawn`, `OneTakerHolds` and `DebitedExactlyHolds` are inductive one
after the other; `NobodyPassedOverHolds` needs that budgets only go down, so that
a bid that could not be paid still cannot; `CapMakesLeaderWinHolds` that what was
debited is what was won, so that under the cap every pending bid can be paid.

### Mercato (`MercatoProofs`, `MoneyProofs`)

* `MercatoNeverOverdrawn`: `TypeOK`, in which every budget is a natural number.
* `UniqueOwnerHolds` and `OneOpenRoundHolds`, from `MercatoIsSound`. Ownership is
  not inductive: the award relies on bids that were checked long before, on a
  roster that has grown since. `SoundMercato` adds what carries the argument:
  `LiveBidsAreFree` (no bid of an open mercato is on an owned player),
  `AwardsAreNew` (nothing a running resolution may award is owned),
  `DraftIsUnique`, `KnownRounds` (bids belong to the one unresolved round), and
  `RunningMeansClosed`, without which the round a scheduler's close leaves behind
  could sell, on a running league, a player that the draft has handed out.
* `MoneyConservedHolds`, from `MoneyIsSafe`: the sum holds in the tables and in
  the workspace of the transaction in flight, which is consistent with what it
  read.
* `SettledStandsHolds`, and `MercatoKeepsPromise`: `Mercato` implements `Market`,
  step by step.
* `ClosingCompletesSquadsHolds`; `SecondClosingHolds`, for a catalogue that does
  not change (`Unsettled = {}`), as in the run.
* `BidsWithinBudgetHolds`, as long as nobody has two bids checked at once
  (`~DoubleSubmit`, which `mercato_overlap` shows to be needed). Inductive
  together with `OneBidEach`.
* `ValidatedMeansResolvedHolds`, for requests one at a time (`MaxInFlight <= 1`;
  `mercato_write_skew` is the counterexample otherwise). `Awaited` says that the
  open round lacks a validation, in the tables and after the request in flight,
  unless that request is to resolve it.

The theorems are about `Mercato`, where a closing never overlaps a resolution;
`close_race` shows that without that ownership fails.

### Season (`SeasonProofs`)

The properties are about the tables, the inductive invariants about the tables
and the requests in flight together: a commit then moves something from the one
to the other.

* `CalendarStands`, from `Roster` (members and joins in flight outgrow the league
  by no more than the sessions, and every one of them that is flushed has an id of
  its own) and `Fixtured` (the rows are one calendar, since a second one breaks the
  unique keys of the first). The calendar is one of the first members to commit,
  laid in the order of their ids, which never changes afterwards (`OrderStays`),
  although an id between them may be committed later.
* `BonusOverrunHolds`, from `Posed`: what is posed and what is about to be
  together keep within the limit and the other sessions.
* `PublishedResultsStand`, from `Recorded`: a request remembers each fixture as
  it read it, and its writes differ from that only where it saw the fixture
  unresolved or replays it.
* `SheetsStayLegal`, from `Sheeted`: what is stored, and what a save is about to
  store, is legal now, since bonuses are only ever added. It assumes
  `SmallSquads`: nobody has a squad that fills two lineups (36 players). The code
  caps no squad, and with such a squad two overlapping saves without a player in
  common would leave both lineups' rows behind.

### Sheets of bids (`BenchProofs`)

`ReserveIsKept` and `SheetIsAccepted`, from `SafeSheet` (the sheet is payable and
aims at missing places). That a sheet has no more bids than a round takes needs
`ShortTargets`: a third of the quotas fits in them. In the program that is 18
players and six bids.

`LineupIsAccepted`, from `Prepared`: the starters named so far are of the squad
and leave no line overfull, those filled in leave no line short, the bench is of
the squad without them and names nobody twice. The lineup handed in is then
counted line by line: the starters laid out by line are the slots of the shape,
and the bench of a squad that is large enough is filled, with a goalkeeper in
first place or named early enough to survive the cut. The theorem assumes a
finite catalogue (`BidsAssumption`) and that the baseline's bench has a
goalkeeper and is as long as the bench (`BenchAssumption`).

### Engine (`MatchProofs`)

`Sound` is the invariant of the fixture: legal sheets, legal bonuses, the
engine's result. The work is in the walks. `Accounted` holds of the seats
before and after every replacement, of any of the three kinds: every seat keeps
to its side of the goal line, everybody seated counts as used, and whoever is
used is seated (in live mode, the goalkeepers only);
`Exhausted` says that an empty seat is one for which the bench had nobody left.
From there:

* `GoalkeepersAreWatertight`, `NobodyEverPlaysTwice`, `RotaldoComesLast`;
* `GroundDoesNotMatter`: naming the sides the other way round exchanges every
  intermediate value, the two Miroirs included;
* `HomeIsNoWorse`: winning ties never loses a duel, hence no virtual goal, and
  saves and Valises take no more from a longer list than what it has more;
* `PunishmentIsFinal`: own goals of phantoms are added after all that is taken;
* `BetterRatingIsNoWorse`, about two whole resolutions. Without tactical rules
  nothing that chooses who plays reads a rating, so the walks over the sheet and
  over the raised one are twins: after every live change and every seat filled
  the same players sit in the same places, one of them raised (`LiftSeats`,
  `FinalSeatsTwin`). From there the ratings keep their order: through the
  bonuses and their bounds (`BonusesKeepOrder`), the average of every line
  (`StrongerIsAsHigh`), every duel of a scorer, whoever attacks
  (`BetterCrosses`), and the save, which a better goalkeeper arms at least as
  soon (`StrongerConcedes`). What is cancelled of a list of goals is no more than
  it has more than a shorter one, so the score keeps the order too.

### Calendar and table (`TableProofs`)

* `CalendarIsComplete`: the circle moves a participant to place `p + w`, modulo
  one less than the size; that number is odd, so exactly one week makes two
  participants face each other.
* `HeadToHeadHolds` and `WinnerKeepsPlace` compare keys: a result raises the
  winner's and lowers the loser's, and leaves the others'. `OthersStayInOrder` then
  has only the ties to look at: as long as neither of those who played joins or
  leaves a group, its mini-league and its last tie-breaks are what they were.

### Not proved

* Liveness (`MercatoEnds`, `DueRoundResolved`): fairness and ENABLED are out of
  the prover's reach, so TLC alone checks them.
* That the recursive walks of `Engine` and `Standings` compute, input by input,
  what the code's loops compute: induction over data is out of reach too. What
  the theorems say of a walk is what every step keeps.

Every other property of a passing run is stated by a theorem.

## 6. Plan

1. `Scheduler`: several leagues and championships, one of them failing at every
   tick, for the one hazard that nothing covers yet (`scheduler.py:33`).
2. Weeks with several fixtures that have squads, so that a partly resolved week
   and its repetition meet in one run.

Not planned: presentation, wording, HTTP parsing, passwords, migrations and the
language-model drivers and reports of the benchmark, which are input and output;
demo data. `partly` in `PROJECT.json` marks components of which some operation
is such, or has no caller, or is in the list above.
