------------------------------- MODULE Season -------------------------------
(***************************************************************************)
(* A league's life: participants join, the fixtures are laid out, then     *)
(* managers, the admin and the ingestion work on the same tables, at most  *)
(* Sessions of them at once.                                               *)
(***************************************************************************)
EXTENDS GameWeek

vars == <<sessionVars, leagueVars, lineupVars, weekVars>>

Init == SessionInit /\ LeagueInit /\ LineupInit /\ WeekInit

Next ==
  \/ LeagueNext /\ UNCHANGED <<lineupVars, weekVars>>
  \/ LineupNext /\ UNCHANGED weekVars
  \/ WeekNext

Spec == Init /\ [][Next]_vars

-----------------------------------------------------------------------------
(* Properties *)

\* The rows as they were laid out.
Plain(rows) == [i \in DOMAIN rows |-> [rows[i] EXCEPT !.result = Unplayed]]

\* However many requests generate the fixtures at once, and whoever joins in the
\* meantime, they are one complete calendar, in the order of the ids, of all those
\* whose joins were committed at some point, never two calendars merged; someone
\* with a lower id may have committed later.  And the league outgrows its size by
\* no more than the other joins that were in flight (leagues.py:68).
CalendarHolds ==
  /\ fixtures # <<>> =>
       \E n \in 2..Len(members) : \E order \in [1..n -> ToSet(SubSeq(members, 1, n))] :
         /\ \A i, j \in 1..n : i < j => Id(order[i]) < Id(order[j])
         /\ Plain(fixtures) = FixtureList(order)
  /\ IsInjective(members)
  /\ Len(members) < size + Cardinality(Sessions)

\* What the engine is handed is always a legal lineup, under the bonuses posed
\* for its week, even if the same lineup is saved twice at the same moment: a
\* late save fails or replaces a lineup as a whole (lineups.py:120).  This
\* takes squads too small for two lineups without a common player (in the run, and
\* as SmallSquads in the proof).  The code caps no squad: of two such saves at the
\* same moment neither breaks the key, and both would be merged.
SheetsAreLegal ==
  \A u \in Users, w \in Weeks :
    lineups[<<u, w>>] # NoLineup =>
      validate_lineup(owned_ids(u), lineups[<<u, w>>].formation,
                      InRole(lineups[<<u, w>>], "starter"), InRole(lineups[<<u, w>>], "bench"),
                      lineups[<<u, w>>].rules, "formation_424" \in Types(u, w), UltraOf)

\* The bonuses of a week that count for its limit.
Limited(u, w) == {i \in DOMAIN posed[<<u, w>>] : posed[<<u, w>>][i].type \notin UNLIMITED}

\* lineups.py:248: bonuses posed at the same moment overrun a quota, or the one
\* bonus of a week, by no more than the other requests in flight, over a whole
\* season.
BonusOverrunBounded ==
  LET spare == Cardinality(Sessions) - 1
  IN \A u \in Users :
       /\ \A w \in Weeks : Cardinality(Limited(u, w)) <= 1 + spare
       /\ \A b \in Poses[u] : b.type \notin UNLIMITED /\ bonus_usage_count(u, b.type) > 0 =>
            bonus_usage_count(u, b.type) <= BonusQuota[b.type][size] + spare

Score(i) == <<fixtures[i].result.home, fixtures[i].result.away, fixtures[i].result.report>>

\* jobs.py:8-9, matchday.py:201: once a result is published, neither a rating,
\* a lineup, a bonus nor a later resolution of its week changes it or pays its
\* Valise again.  Only a replay does, or a resolution that had read the fixture
\* before it was published.
PublishedStands ==
  [][\A i \in DOMAIN fixtures :
       fixtures[i].result.resolved /\ (Score(i) # Score(i)' \/ credit' # credit) =>
         \E s \in Sessions :
           /\ request[s].kind \in {"resolve", "replay"} /\ request'[s] = Idle
           /\ i \in DOMAIN request[s].outcome =>
                request[s].kind = "replay" \/ ~request[s].outcome[i].before.resolved
           /\ Score(i) # Score(i)' => i \in DOMAIN request[s].outcome]_vars

\* jobs.py:8-9: a published result computed from a rating that has changed since
\* is flagged.
StaleIsFlagged ==
  \A i \in DOMAIN fixtures :
    LET r == fixtures[i].result
    IN r.resolved /\ ~r.flagged =>
         \A p \in DOMAIN r.report :
           r.report[p] # NoRow => r.report[p] = performance[fixtures[i].week][p]

=============================================================================
