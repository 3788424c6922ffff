------------------------------ MODULE GameWeek ------------------------------
(***************************************************************************)
(* Game weeks: src/mpg/services/matchday.py between the tables and the     *)
(* engine, and the ratings src/mpg/ingest/jobs.py brings in, which may     *)
(* change after a result was published.                                    *)
(*                                                                         *)
(* A resolution reads the tables once and writes a fixture's row when it   *)
(* commits; SQLAlchemy writes only the columns whose value it changed.  Of *)
(* the report the model keeps the performances it was computed from.       *)
(***************************************************************************)
EXTENDS Lineups, Engine

CONSTANTS
  Refreshes,  \* what the provider may serve: for a week, player to performance
  PlayedWeeks, \* bound: the weeks whose matches are over
  Volatile    \* bound: how many refreshes a season sees

ASSUME GameWeekAssumption == Volatile \in Nat /\ PlayedWeeks \subseteq Weeks

VARIABLES
  performance,  \* week to player to his row of performance, [rating, goals]
  refreshes,    \* refreshes begun
  credit        \* what the Valise has added to participant.budget

weekVars == <<performance, refreshes, credit>>

\* The player's match is not over: no row.  A row with rating 0 is one of a
\* match he did not play in.
NoRow == [rating |-> -1, goals |-> 0]

VALISE_COMPENSATION == 5

-----------------------------------------------------------------------------
(* From the tables to the engine *)

\* build_team_sheet's entry.  No ingestion sets is_advanced, is_postponed or
\* own_goals, so that nobody is neutralised.
Entry(p, w) ==
  LET row == performance[w][p]
  IN [id |-> p, ultra |-> UltraOf[p], rating |-> Max({row.rating, 0}),
      goals |-> row.goals, own |-> 0, started |-> row # NoRow, neutralised |-> FALSE]

\* One row of bonus_usage: the last target posed stands.
LoadBonus(b, posedOne) ==
  CASE posedOne.type = "mcdo" -> [b EXCEPT !.mcdo = posedOne.target]
    [] posedOne.type = "captain" -> [b EXCEPT !.captain = posedOne.target]
    [] OTHER -> [b EXCEPT ![posedOne.type] = TRUE]

load_bonuses(u, w) == FoldLeft(LoadBonus, NoBonuses, posed[<<u, w>>])

build_team_sheet(u, w) ==
  LET lineup == lineups[<<u, w>>]
      entries(role) == LET ps == InRole(lineup, role) IN [i \in DOMAIN ps |-> Entry(ps[i], w)]
  IN [starters |-> entries("starter"), bench |-> entries("bench"),
      formation |-> lineup.formation, bonuses |-> load_bonuses(u, w),
      tactical |-> lineup.rules, live_mode |-> lineup.live, live_subs |-> <<>>]

Listed(u, w) == {x.player : x \in lineups[<<u, w>>].slots}

\* What is published of a match, and the budgets its Valises leave.
Published(row, r) ==
  LET used == Listed(row.home, row.week) \cup Listed(row.away, row.week)
  IN [result |-> [resolved |-> TRUE, home |-> r.home, away |-> r.away, flagged |-> FALSE,
                  report |-> [p \in used |-> performance[row.week][p]]],
      before |-> row.result,
      credit |-> [u \in (IF r.home_paid THEN {row.home} ELSE {})
                          \cup (IF r.away_paid THEN {row.away} ELSE {}) |->
                    credit[u] + VALISE_COMPENSATION]]

\* What resolve_league_match computes for a row.
Outcome(row) ==
  Published(row, resolve_match(build_team_sheet(row.home, row.week),
                               build_team_sheet(row.away, row.week), ~ReturnLegs))

\* build_team_sheet raises without a lineup.
Ready(row) == NoLineup \notin {lineups[<<row.home, row.week>>], lineups[<<row.away, row.week>>]}

-----------------------------------------------------------------------------
(* Resolutions *)

\* A slip: whether the fixture was resolved is not looked at.
AllOf(w) == {i \in DOMAIN fixtures : fixtures[i].week = w}

\* The rows resolve_game_week selects.
Due(w) == {i \in DOMAIN fixtures : fixtures[i].week = w /\ ~fixtures[i].result.resolved}

\* A missing lineup raises.  The API's request then fails as a whole; the screen
\* suppresses the error and commits the fixtures that came before.
BeginResolve(s, w) ==
  /\ Bounded
  /\ Due(w) # {}
  /\ LET ready == {i \in Due(w) : Ready(fixtures[i])}
     IN \E rows \in IF ready = Due(w) THEN {ready} ELSE SUBSET ready \ {{}} :
          Begin(s, [kind |-> "resolve", outcome |-> [i \in rows |-> Outcome(fixtures[i])]])
  /\ UNCHANGED <<leagueVars, lineupVars, weekVars>>

\* force: also a fixture that was never resolved.
BeginReplay(s, i) ==
  /\ Bounded
  /\ Ready(fixtures[i])
  /\ Begin(s, [kind |-> "replay", outcome |-> [j \in {i} |-> Outcome(fixtures[j])]])
  /\ UNCHANGED <<leagueVars, lineupVars, weekVars>>

\* The columns that differ from what was read are written.
Written(now, before, new) ==
  [new EXCEPT !.home = IF new.home # before.home \/ ~before.resolved THEN @ ELSE now.home,
              !.away = IF new.away # before.away \/ ~before.resolved THEN @ ELSE now.away,
              !.flagged = ~before.flagged /\ now.flagged]

\* The budgets are written as read, plus the compensation.
CommitResults(s) ==
  /\ request[s].kind \in {"resolve", "replay"}
  /\ LET o == request[s].outcome
         paid == [u \in Users |-> {i \in DOMAIN o : u \in DOMAIN o[i].credit}]
     IN /\ fixtures' =
             [i \in DOMAIN fixtures |->
                IF i \in DOMAIN o
                THEN [fixtures[i] EXCEPT !.result = Written(@, o[i].before, o[i].result)]
                ELSE fixtures[i]]
        /\ credit' = [u \in Users |->
                        IF paid[u] = {} THEN credit[u]
                        ELSE o[CHOOSE i \in paid[u] : TRUE].credit[u]]
  /\ End(s)
  /\ UNCHANGED <<size, status, members, ids, lineupVars, performance, refreshes>>

-----------------------------------------------------------------------------
(* Ingestion *)

\* _flag_affected_fixtures; a flag that is up is not written again.
Affected(players, w) ==
  {i \in DOMAIN fixtures :
     /\ fixtures[i].week = w /\ fixtures[i].result.resolved /\ ~fixtures[i].result.flagged
     /\ (Listed(fixtures[i].home, w) \cup Listed(fixtures[i].away, w)) \cap players # {}}

\* ingest_pool, of the ratings of a week: one refresh at a time, in one long
\* transaction; a first rating flags nothing.
BeginRefresh(s, w) ==
  /\ status = "running" /\ fixtures # <<>> /\ w \in PlayedWeeks /\ Busy("refresh") = {} /\ refreshes < Volatile
  /\ \E served \in Refreshes :
       LET changed == {p \in DOMAIN served :
                         NoRow \notin {performance[w][p], served[p]} /\ performance[w][p] # served[p]}
           rows == [p \in DOMAIN served |->
                      IF served[p] = NoRow THEN performance[w][p] ELSE served[p]]
       IN /\ rows # performance[w]
          /\ Begin(s, [kind |-> "refresh", week |-> w, rows |-> rows,
                       flags |-> Affected(changed, w)])
  /\ refreshes' = refreshes + 1
  /\ UNCHANGED <<handled, leagueVars, lineupVars, performance, credit>>

CommitRefresh(s) ==
  /\ request[s].kind = "refresh"
  /\ performance' = [performance EXCEPT ![request[s].week] = request[s].rows]
  /\ fixtures' = [i \in DOMAIN fixtures |->
                    IF i \in request[s].flags
                    THEN [fixtures[i] EXCEPT !.result.flagged = TRUE] ELSE fixtures[i]]
  /\ End(s)
  /\ UNCHANGED <<size, status, members, ids, lineupVars, refreshes, credit>>

\* A refresh that fails leaves nothing: the next tick is another one.
RefreshFails(s) ==
  /\ request[s].kind = "refresh"
  /\ End(s)
  /\ UNCHANGED <<leagueVars, lineupVars, weekVars>>

WeekInit ==
  /\ performance = [w \in Weeks |-> [p \in DOMAIN UltraOf |-> NoRow]]
  /\ refreshes = 0
  /\ credit = [u \in Users |-> 0]

WeekNext ==
  \E s \in Sessions :
    \/ \E w \in Weeks : BeginResolve(s, w) \/ BeginRefresh(s, w)
    \/ \E i \in DOMAIN fixtures : fixtures[i].week \in Weeks /\ BeginReplay(s, i)
    \/ CommitResults(s) \/ CommitRefresh(s) \/ RefreshFails(s)

=============================================================================
