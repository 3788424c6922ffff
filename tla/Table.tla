------------------------------- MODULE Table -------------------------------
(***************************************************************************)
(* A league's season seen from its table: the calendar is laid out, then   *)
(* its fixtures are resolved one by one, in any order, since the admin     *)
(* resolves whichever game week he asks for, with any score.               *)
(***************************************************************************)
EXTENDS Calendar, Standings

CONSTANTS
  Leagues,   \* the leagues looked at: triples <<size, return legs, results>>
  Scores     \* bound: the goals a side may score

ASSUME TableAssumption ==
  /\ \A l \in Leagues : /\ l[1] \in Nat \ {0} /\ l[1] % 2 = 0
                        /\ l[2] \in BOOLEAN /\ l[3] \in Nat
  /\ Scores \subseteq Nat

VARIABLES league, results

vars == <<league, results>>

Size == league[1]
ReturnLegs == league[2]
MaxResults == league[3]  \* bound: the number of fixtures resolved
Members == 1..Size

Weeks == full_calendar([i \in Members |-> i], ReturnLegs)
Fixtures == UNION {ToSet(Weeks[w]) : w \in DOMAIN Weeks}

Init == league \in Leagues /\ results = {}

\* One fixture is resolved, with the score of its match.
Resolve(home, away) ==
  /\ Cardinality(results) < MaxResults
  /\ <<home, away>> \in Fixtures
  /\ \A r \in results : <<r.home, r.away>> # <<home, away>>
  /\ \E s, c \in Scores :
       results' = results \cup {[home |-> home, away |-> away, scored |-> s,
                                 conceded |-> c]}
  /\ UNCHANGED league

Next == \E home, away \in Members : Resolve(home, away)

Spec == Init /\ [][Next]_vars

-----------------------------------------------------------------------------
(* Properties *)

\* round_robin, full_calendar: everybody plays exactly once every week, and
\* meets every other once; with return legs, once on each ground.
CalendarIsRoundRobin ==
  /\ \A w \in DOMAIN Weeks : \A p \in Members :
       \E one \in DOMAIN Weeks[w] : \A k \in DOMAIN Weeks[w] :
         (p \in {Weeks[w][k][1], Weeks[w][k][2]}) = (k = one)
  /\ Len(Weeks) = (IF ReturnLegs THEN 2 ELSE 1) * (Size - 1)
  /\ \A p, q \in Members : p # q =>
       IF ReturnLegs THEN <<p, q>> \in Fixtures
                     ELSE (<<p, q>> \in Fixtures) # (<<q, p>> \in Fixtures)

RankOf(S, p) == Rank(Members, S, ReturnLegs, p)

\* Winning a fixture never costs a place, nor does losing one win any, however
\* it rearranges the groups of level participants.
WinnerNeverDrops ==
  [][\A r \in results' \ results :
       LET winner == IF r.scored > r.conceded THEN r.home ELSE r.away
           loser == IF winner = r.home THEN r.away ELSE r.home
       IN r.scored # r.conceded =>
            /\ RankOf(results', winner) <= RankOf(results, winner)
            /\ RankOf(results', loser) >= RankOf(results, loser)]_results

Ahead(S, p, q) == RankOf(S, p) < RankOf(S, q)

\* As many points, the same difference and as many goals.
SameTotals(S, p, q) ==
  \A total \in {"points", "difference", "scored"} :
    Row(Played(S, p), p)[total] = Row(Played(S, q), q)[total]

\* A fixture turns round two participants who did not play it only when they are
\* level with each other, and one of those who did joins them or leaves them: the
\* fixtures against him then start or stop counting in _break_tie.
OthersKeepTheirOrder ==
  [][\A r \in results' \ results : \A p, q \in Members \ {r.home, r.away} :
       p < q =>
         \/ Ahead(results, p, q) <=> Ahead(results', p, q)
         \/ /\ SameTotals(results, p, q)
            /\ \E x \in {r.home, r.away} :
                 ~(SameTotals(results, x, p) <=> SameTotals(results', x, p))]_results

\* Two participants level on points, difference and goals, and level with
\* nobody else: the one who took more points off the other is above.
HeadToHeadDecides ==
  LET taken(p, q) ==
        Row(Played(results, p) \cap Played(results, q), p).points
  IN \A p, q \in Members :
       p # q /\ Level(Members, results, p) = {p, q} /\ taken(p, q) > taken(q, p)
         => RankOf(results, p) < RankOf(results, q)

=============================================================================
