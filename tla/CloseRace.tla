----------------------------- MODULE CloseRace -----------------------------
(***************************************************************************)
(* The scheduler's own close (src/mpg/scheduler.py, second loop of         *)
(* run_mercato_deadlines) beside a resolution run by a request.            *)
(*                                                                         *)
(* resolve_round locks the league row; the scheduler's close calls         *)
(* close_mercato without that lock.  It reads and drafts freely, and only  *)
(* waits for the lock when it writes league.status at the very end.  Here  *)
(* it is a second transaction with a workspace of its own, where Mercato   *)
(* lets at most one of the two run.  The participants are topped up in     *)
(* turn, and the roster is read again at the start of each turn: a         *)
(* resolution that commits between two turns is seen by the second.        *)
(***************************************************************************)
EXTENDS Mercato

VARIABLES
  closing,    \* is the scheduler's close running?
  turn,       \* the participant it is topping up; 0, none yet
  readMoney,  \* participant.budget as it read it
  readRows,   \* the roster as it read it at the start of the turn
  newRows,    \* the roster rows it has added
  ownMoney    \* participant.budget as it has changed it

closeVars == <<closing, turn, readMoney, readRows, newRows, ownMoney>>
raceVars == <<vars, closeVars>>

-----------------------------------------------------------------------------

\* The rows the close sees: what it read and what it has flushed.
CloseSees == readRows \cup newRows

\* Nothing more to hand over to this participant.
ToppedUp(p) == \A l \in Line : ~Short(CloseSees, ownMoney, p, l)

\* mercato_should_close says yes.
CloseDecides ==
  /\ ~closing /\ status = "mercato"
  /\ \E r \in 1..Len(rounds) :
       IsCurrent(r) /\ ShouldClose(budget, closed, Open(closed, budget), r)
  /\ closing' = TRUE
  /\ UNCHANGED <<vars, turn, readMoney, readRows, newRows, ownMoney>>

\* The next participant by id: what is owned, free and missing is read again.
\* The participants themselves are selected once, before the first of them.
CloseTurn ==
  /\ closing
  /\ turn # 0 => ToppedUp(turn)
  /\ \E p \in Participant :
       /\ turn < p /\ \A q \in Participant : turn < q => p <= q
       /\ turn' = p
  /\ readRows' = roster
  /\ readMoney' = IF turn = 0 THEN budget ELSE readMoney
  /\ ownMoney' = IF turn = 0 THEN budget ELSE ownMoney
  /\ UNCHANGED <<vars, closing, newRows>>

\* A debit is flushed and locks the participant's row.
Debited(p) == closing /\ turn # 0 /\ ownMoney[p] # readMoney[p]

\* A participant row the running resolution has flushed and not committed.
WrittenByResolution(p) == phase = "draft" /\ txBudget[p] # budget[p]

\* A free player of the first line that lacks one, the cheapest.
HandedNext(pl) ==
  \E l \in Line :
    /\ Short(CloseSees, ownMoney, turn, l)
    /\ \A m \in Line : Short(CloseSees, ownMoney, turn, m) => l <= m
    /\ Cheapest(CloseSees, pl, l)

\* uq_roster_participant_player: one row for a participant and a player, not
\* one for a player.
Keyed(rows, p, pl) == \E x \in rows : x.by = p /\ x.on = pl

\* Inserting the row waits for a resolution that has flushed the same key.
CloseDrafts ==
  /\ closing /\ turn # 0
  /\ \E pl \in Player :
       LET price == DraftPrice(ownMoney, turn, pl)
       IN /\ HandedNext(pl)
          /\ ~Keyed(roster \cup txRoster, turn, pl)
          /\ price > 0 => ~HoldsRow(turn) /\ ~WrittenByResolution(turn)
          /\ newRows' = newRows \cup {DraftRow(ownMoney, turn, pl)}
          /\ ownMoney' = [ownMoney EXCEPT ![turn] = @ - price]
  /\ UNCHANGED <<vars, closing, turn, readMoney, readRows>>

CloseEnds ==
  /\ closing' = FALSE /\ turn' = 0
  /\ readMoney' = NoMoney /\ ownMoney' = NoMoney
  /\ readRows' = {} /\ newRows' = {}

\* Writing league.status waits for the resolution that locked the league row.
\* Only the columns that changed are written.
CloseCommits ==
  /\ closing /\ phase = "idle"
  /\ turn # 0 /\ ToppedUp(turn) /\ \A p \in Participant : p <= turn
  /\ RowsFree(Participant)
  /\ status' = "running"
  /\ roster' = roster \cup newRows
  /\ budget' = [p \in Participant |->
                  IF Debited(p) THEN ownMoney[p] ELSE budget[p]]
  /\ closed' = Participant
  /\ CloseEnds
  /\ UNCHANGED <<now, rounds, bids, validations, quoted, departed, request,
                 txVars, aborts>>

\* The participant was awarded that very player since the turn began: the key
\* refuses the row and the close is rolled back.
CloseRefused ==
  /\ closing /\ turn # 0
  /\ \E pl \in Player : HandedNext(pl) /\ Keyed(roster, turn, pl)
  /\ CloseEnds
  /\ UNCHANGED vars

\* The resolution's rows wait for those of the close under the same key.
NoSameKey(rows) == \A x \in newRows : ~Keyed(rows, x.by, x.on)

\* The close waits for the league lock, or a row, while the resolution waits for
\* a row it has written: the database fails one of the two (Abort is the other
\* outcome).
CloseIsVictim ==
  /\ closing /\ phase # "idle"
  /\ \/ \E p \in Participant : Debited(p)
     \/ ~NoSameKey(SettledRoster)
     \/ phase = "draft" /\ \E x \in newRows : Drafts(txRoster, txBudget, x.by, x.on)
  /\ CloseEnds
  /\ UNCHANGED vars

\* The resolution's updates wait for the rows the close has debited; closing,
\* it updates every row.
ResolutionStep ==
  \/ AwardStep \/ WithdrawalFails
  \/ DraftStep /\ NoSameKey(txRoster')
  \/ /\ \A p \in Participant : Debited(p) => SettledBudget[p] = budget[p]
     /\ NoSameKey(SettledRoster)
     /\ ContinueMercato \/ StartClosing
  \/ /\ \A p \in Participant : ~Debited(p)
     /\ FinishClosing

\* The deadline loop and the close loop are one job: they never overlap.
RaceStep ==
  \/ OpenMercato \/ BidStep \/ RequestStep \/ ForceResolve
  \/ ~closing /\ DeadlineResolves
  \/ ResolutionStep \/ Abort \/ Tick

RaceInit ==
  /\ Init
  /\ closing = FALSE /\ turn = 0
  /\ readMoney = NoMoney /\ ownMoney = NoMoney
  /\ readRows = {} /\ newRows = {}

RaceNext ==
  \/ RaceStep /\ UNCHANGED closeVars
  \/ CloseDecides \/ CloseTurn \/ CloseDrafts \/ CloseCommits
  \/ CloseRefused \/ CloseIsVictim

RaceSpec == RaceInit /\ [][RaceNext]_raceVars

=============================================================================
