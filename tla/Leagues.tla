------------------------------- MODULE Leagues ------------------------------
(***************************************************************************)
(* A league from its creation to its season: src/mpg/services/leagues.py   *)
(* with the routes that call it.  The rows of league_match are the         *)
(* sequence fixtures; the season fills in their results (GameWeek).  A     *)
(* participant has its id when its row is flushed, and is seen by others   *)
(* when it is committed: who flushes first may commit last.                *)
(* What the mercato does to the squads is Mercato's subject: here it only  *)
(* comes to its end.                                                       *)
(***************************************************************************)
EXTENDS Sessions, Calendar, FiniteSets, SequencesExt

CONSTANTS
  Users,         \* who may join; the creator is one of them
  Creator,
  SquadOf,       \* the squad the mercato leaves each user with, if it completes it
  Sizes,         \* the sizes a league is created with, of LEAGUE_SIZES
  ReturnLegs,    \* league.return_legs
  FirstGameWeek  \* league.first_game_week

ASSUME LeaguesAssumption ==
  /\ Creator \in Users
  /\ Sizes \subseteq {2, 4, 6, 8, 10}
  /\ ReturnLegs \in BOOLEAN /\ FirstGameWeek \in Nat \ {0}

VARIABLES
  size,      \* league.size
  status,    \* league.status: created, mercato, running
  members,   \* the participants, in the order their joins were committed
  ids,       \* the users whose row was flushed, in the order of participant.id
  fixtures   \* the rows of league_match, in the order of theirs

leagueVars == <<size, status, members, ids, fixtures>>

\* No result yet, and nothing to flag.
Unplayed == [resolved |-> FALSE, home |-> 0, away |-> 0, flagged |-> FALSE, report |-> <<>>]

Row(week, pair) == [week |-> week, home |-> pair[1], away |-> pair[2], result |-> Unplayed]

\* participant.id, and participants by order_by(Participant.id).
Id(u) == CHOOSE k \in DOMAIN ids : ids[k] = u

by_id(list) ==
  LET before == [u \in ToSet(list) |-> {v \in ToSet(list) : Id(v) < Id(u)}]
  IN [k \in DOMAIN list |-> CHOOSE u \in ToSet(list) : Cardinality(before[u]) = k - 1]

\* The rows generate_fixtures adds for these participants.
FixtureList(order) ==
  LET weeks == full_calendar(order, ReturnLegs)
      matches == Len(order) \div 2
      row(w, k) == Row(FirstGameWeek + w, weeks[w + 1][k + 1])
  IN [i \in 1..(Len(weeks) * matches) |-> row((i - 1) \div matches, (i - 1) % matches)]

\* A slip: the table has no such key.
NoKey(rows) == FALSE

\* The unique key of league_match: one home match a week.
KeyTaken(rows) ==
  \E i \in DOMAIN rows, j \in DOMAIN fixtures :
    rows[i].week = fixtures[j].week /\ rows[i].home = fixtures[j].home

-----------------------------------------------------------------------------

\* create_league: the creator joins in the same transaction.
LeagueInit ==
  /\ size \in Sizes
  /\ status = "created"
  /\ members = <<Creator>> /\ ids = <<Creator>>
  /\ fixtures = <<>>

Join(u, flushed) == [kind |-> "join", user |-> u, flushed |-> flushed]

BeginJoin(s, u) ==
  /\ status = "created"
  /\ Len(members) < size
  /\ u \notin ToSet(members)
  /\ Begin(s, Join(u, FALSE))
  /\ UNCHANGED <<handled, leagueVars>>

\* The row is inserted and has its id; the unique key makes it wait for another
\* transaction that has inserted the same user.
FlushJoin(s) ==
  /\ request[s].kind = "join" /\ ~request[s].flushed
  /\ request[s].user \notin ToSet(ids)
  /\ ids' = Append(ids, request[s].user)
  /\ request' = [request EXCEPT ![s] = Join(@.user, TRUE)]
  /\ UNCHANGED <<handled, size, status, members, fixtures>>

\* The unique key refuses the same user a second time.
JoinRefused(s) ==
  /\ request[s].kind = "join" /\ ~request[s].flushed
  /\ request[s].user \in ToSet(members)
  /\ End(s)
  /\ UNCHANGED leagueVars

CommitJoin(s) ==
  /\ request[s].kind = "join" /\ request[s].flushed
  /\ members' = Append(members, request[s].user)
  /\ End(s)
  /\ UNCHANGED <<size, status, ids, fixtures>>

\* generate_fixtures returns the rows there are, refuses a lone participant, and
\* round_robin an odd number of them.
BeginGenerate(s) ==
  /\ fixtures = <<>> /\ Len(members) >= 2 /\ Schedulable(members)
  /\ Begin(s, [kind |-> "lay", rows |-> FixtureList(by_id(members)), opens |-> FALSE])
  /\ UNCHANGED <<handled, leagueVars>>

\* open_mercato and the fixtures in one transaction, from the screen.
BeginOpenScreen(s) ==
  /\ status = "created"
  /\ Len(members) >= 2
  /\ fixtures = <<>> => Schedulable(members)
  /\ Begin(s, [kind |-> "lay", opens |-> TRUE,
               rows |-> IF fixtures = <<>> THEN FixtureList(by_id(members)) ELSE <<>>])
  /\ UNCHANGED <<handled, leagueVars>>

\* open_mercato alone, from the API.
BeginOpen(s) ==
  /\ status = "created"
  /\ Begin(s, [kind |-> "lay", rows |-> <<>>, opens |-> TRUE])
  /\ UNCHANGED <<handled, leagueVars>>

\* A second first round, or a home match twice, breaks a unique key.
CommitLay(s) ==
  /\ request[s].kind = "lay"
  /\ LET r == request[s]
         fails == KeyTaken(r.rows) \/ (r.opens /\ status # "created")
     IN /\ fixtures' = IF fails THEN fixtures ELSE fixtures \o r.rows
        /\ status' = IF r.opens /\ ~fails THEN "mercato" ELSE status
  /\ End(s)
  /\ UNCHANGED <<size, members, ids>>

\* The last round was resolved and the squads completed.
MercatoCloses ==
  /\ status = "mercato" /\ status' = "running"
  /\ \A i \in DOMAIN members : SquadOf[members[i]] # {}
  /\ UNCHANGED <<size, members, ids, fixtures, sessionVars>>

LeagueNext ==
  \/ \E s \in Sessions :
       \/ \E u \in Users : BeginJoin(s, u)
       \/ FlushJoin(s) \/ JoinRefused(s) \/ CommitJoin(s)
       \/ BeginGenerate(s) \/ BeginOpenScreen(s) \/ BeginOpen(s)
       \/ CommitLay(s)
  \/ MercatoCloses

\* Bound: a season's requests begin once the league is running with fixtures and
\* no request of its beginnings is in flight.
Bounded ==
  /\ status = "running" /\ fixtures # <<>>
  /\ Busy("join") \cup Busy("lay") = {}
  /\ handled < MaxRequests /\ handled' = handled + 1

=============================================================================
