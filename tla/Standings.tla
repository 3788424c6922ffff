----------------------------- MODULE Standings -----------------------------
(***************************************************************************)
(* The table of a league and its tie-breaks:                               *)
(* src/mpg/services/standings.py.  A result is [home, away, scored,        *)
(* conceded], scored being the home side's goals; a league plays each      *)
(* fixture once, so its resolved fixtures are a set of results.            *)
(***************************************************************************)
EXTENDS Integers, FiniteSets, SequencesExt

\* POINTS_WIN, POINTS_DRAW, POINTS_LOSS
Points(scored, conceded) ==
  CASE scored > conceded -> 3
    [] scored = conceded -> 1
    [] scored < conceded -> 0

\* A slip: the visitors are given the score as it is printed.
SideAsPrinted(r, p) ==
  [against |-> IF r.home = p THEN r.away ELSE r.home, scored |-> r.scored,
   conceded |-> r.conceded, away |-> 0]

\* _record: a participant's side of a result.
Side(r, p) ==
  IF r.home = p
  THEN [against |-> r.away, scored |-> r.scored, conceded |-> r.conceded, away |-> 0]
  ELSE [against |-> r.home, scored |-> r.conceded, conceded |-> r.scored,
        away |-> r.conceded]

Played(results, p) == {r \in results : p \in {r.home, r.away}}

\* What a row says of the fixtures of S: points, difference, goals, away goals.
Row(S, p) ==
  [points |-> SumFunction([r \in S |-> Points(Side(r, p).scored, Side(r, p).conceded)]),
   difference |-> SumFunction([r \in S |-> Side(r, p).scored - Side(r, p).conceded]),
   scored |-> SumFunction([r \in S |-> Side(r, p).scored]),
   away |-> SumFunction([r \in S |-> Side(r, p).away])]

\* Tuples, compared from the left.
Exceeds(a, b) ==
  \E i \in DOMAIN a : a[i] > b[i] /\ \A j \in 1..(i - 1) : a[j] = b[j]

\* A slip: those on as many points are level.
OverallByPoints(results, p) == <<Row(Played(results, p), p).points>>

\* sort_key of standings
Overall(results, p) ==
  LET row == Row(Played(results, p), p) IN <<row.points, row.difference, row.scored>>

\* The participants level with p before the last three tie-breaks.
Level(members, results, p) ==
  {q \in members : Overall(results, q) = Overall(results, p)}

\* A slip: the mini-league counts the fixtures against everybody.
MiniLeagueOfAll(group, results, p) == Row(Played(results, p), p)

\* mini_league: the fixtures inside a group of level participants.
MiniLeague(group, results, p) ==
  Row({r \in Played(results, p) : Side(r, p).against \in group}, p)

\* key of _break_tie; ids break what is still level.
TieBreak(group, results, p, returnLegs) ==
  LET mini == MiniLeague(group, results, p)
      away == Row(Played(results, p), p).away
  IN <<mini.points, mini.difference, IF returnLegs THEN away ELSE 0, -p>>

\* The rank as_table gives a participant: below those who have a better key,
\* and below those of his own group whom the last three tie-breaks prefer.
Rank(members, results, returnLegs, p) ==
  LET overall == [q \in members |-> Overall(results, q)]
      group == {q \in members : overall[q] = overall[p]}
      tie == [q \in group |-> TieBreak(group, results, q, returnLegs)]
  IN 1 + Cardinality({q \in members : Exceeds(overall[q], overall[p])})
       + Cardinality({q \in group : Exceeds(tie[q], tie[p])})

=============================================================================
