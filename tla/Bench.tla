-------------------------------- MODULE Bench -------------------------------
(***************************************************************************)
(* One agent of the benchmark, from its first bid to the lineup it hands   *)
(* in: src/mpg/bench/runner.py around the agents' two turns.  The sheets   *)
(* of bids are those of Bids.  A lineup is what the baseline picks, or     *)
(* what repair_lineup makes of a model's answer, one answered name at a    *)
(* time; names that are not in the squad, named twice or one too many on   *)
(* their line change nothing.  Averages and availability, which rank equal *)
(* players, leave the choice free.                                         *)
(***************************************************************************)
EXTENDS Bids

CONSTANTS
  Fallback,   \* the formation fallen back on, 4-4-2
  BenchShape, \* the baseline's bench: how many of each line
  Named       \* bound: usable substitutes a model names

ASSUME BenchAssumption ==
  /\ Fallback \in Formations \ BonusOnly
  /\ BenchShape \in [Lines -> Nat] /\ BenchShape[G] > 0
  /\ SumFunction(BenchShape) = BenchSize
  /\ \A l \in Lines :
       Quota[l] >= BenchShape[l] + Count(l, slots_of(Fallback))

VARIABLES
  stage,      \* mercato, asked, bench, saved, refused
  formation,  \* of the lineup
  picked,     \* the starters, a set: their order inside a line is left out
  bench,      \* the substitutes as answered
  lineup      \* what save_lineup was given: starters, bench, captain

pickVars == <<stage, formation, picked, bench, lineup>>

vars == <<bidVars, pickVars>>

NoLineup == [starters |-> <<>>, bench |-> <<>>, captain |-> 0]

OnLine(s, l) == {p \in s : LineOf(p) = l}

Needed(f, l) == Count(l, slots_of(f))

\* Starters in slot order, goalkeeper first.
LaidOut(s) ==
  SetToSeq(OnLine(s, G)) \o SetToSeq(OnLine(s, D))
    \o SetToSeq(OnLine(s, M)) \o SetToSeq(OnLine(s, A))

-----------------------------------------------------------------------------

Init ==
  /\ BidInit
  /\ stage = "mercato"
  /\ formation = Fallback
  /\ picked = {} /\ bench = <<>> /\ lineup = NoLineup

MercatoTurn == stage = "mercato" /\ BidNext /\ UNCHANGED pickVars

\* close_mercato tops the squads up in turn: those served before may empty a
\* line, and this one is topped up as far as the rest of the pool goes.  What is
\* left of the market is of no use to the lineups.
CloseMercato ==
  /\ stage = "mercato" /\ author = "nobody" /\ round > BaseRounds
  /\ \E pool \in SUBSET free : \E drafted \in SUBSET pool :
       /\ \A l \in Lines :
            Cardinality(OnLine(drafted, l)) =
              Min({Deficit(squad)[l], Cardinality(OnLine(pool, l))})
       /\ squad' = squad \cup drafted
  /\ stage' = "asked"
  /\ budget' = 0 /\ free' = {}
  /\ UNCHANGED <<author, round, sheet, asked, turns, formation, picked, bench, lineup>>

\* The formation answered, or the one fallen back on.
AnswerFormation ==
  /\ stage = "asked" /\ picked = {}
  /\ formation' \in Formations \ BonusOnly
  /\ UNCHANGED <<stage, picked, bench, lineup, bidVars>>

\* A starter's name is kept while his line has a place.
KeepsStarter(p) ==
  /\ p \in squad \ picked
  /\ Cardinality(OnLine(picked, LineOf(p))) < Needed(formation, LineOf(p))

NameStarter ==
  /\ stage = "asked"
  /\ \E p \in Players : KeepsStarter(p) /\ picked' = picked \cup {p}
  /\ UNCHANGED <<stage, formation, bench, lineup, bidVars>>

\* The places left empty go to the best of what remains on the line.
FillStarters ==
  /\ stage = "asked"
  /\ \E filling \in SUBSET (squad \ picked) :
       /\ \A l \in Lines :
            Cardinality(OnLine(filling, l)) =
              Min({Max({0, Needed(formation, l) - Cardinality(OnLine(picked, l))}),
                   Cardinality(OnLine(squad \ picked, l))})
       /\ picked' = picked \cup filling
  /\ stage' = "bench"
  /\ UNCHANGED <<formation, bench, lineup, bidVars>>

NameSubstitute ==
  /\ stage = "bench" /\ Len(bench) < Named
  /\ \E p \in squad \ (picked \cup ToSet(bench)) : bench' = Append(bench, p)
  /\ UNCHANGED <<stage, formation, picked, lineup, bidVars>>

HasKeeper(s) == \E i \in DOMAIN s : LineOf(s[i]) = G

\* A slip: the goalkeeper added to the bench goes last.
KeeperLast(named, rest) ==
  IF HasKeeper(named) \/ OnLine(rest, G) = {} THEN {named}
  ELSE {Append(named, k) : k \in OnLine(rest, G)}

\* A bench without a goalkeeper gets one, in first place.
KeeperFirst(named, rest) ==
  IF HasKeeper(named) \/ OnLine(rest, G) = {} THEN {named}
  ELSE {<<k>> \o named : k \in OnLine(rest, G)}

\* Then it is filled and cut to size.
Benches(named, rest) ==
  UNION {LET left == rest \ ToSet(b)
             n == Min({Max({0, BenchSize - Len(b)}), Cardinality(left)})
         IN {SubSeq(b \o SetToSeq(s), 1, Min({BenchSize, Len(b) + n})) :
               s \in {x \in SUBSET left : Cardinality(x) = n}} :
         b \in KeeperFirst(named, rest)}

\* save_lineup; a refusal is caught and leaves the agent without a lineup.
Save(starters, substitutes, f) ==
  /\ stage' = IF validate_lineup(squad, f, starters, substitutes, <<>>, FALSE, UltraOf)
              THEN "saved" ELSE "refused"
  /\ \E c \in {0} \cup {p \in ToSet(starters) : LineOf(p) # G} :
       lineup' = [starters |-> starters, bench |-> substitutes,
                  captain |-> IF stage' = "saved" THEN c ELSE 0]

HandIn ==
  /\ stage = "bench"
  /\ \E substitutes \in Benches(bench, squad \ (picked \cup ToSet(bench))) :
       Save(LaidOut(picked), substitutes, formation)
  /\ UNCHANGED <<formation, picked, bench, bidVars>>

\* HeuristicAgent.pick, the baseline's and the one a broken answer falls back on.
Take(s, l, n) ==
  {x \in SUBSET OnLine(s, l) : Cardinality(x) = Min({n, Cardinality(OnLine(s, l))})}

PickBaseline ==
  /\ stage = "asked" /\ picked = {}
  /\ formation' = Fallback
  /\ \E g \in Take(squad, G, Needed(Fallback, G)), d \in Take(squad, D, Needed(Fallback, D)),
        m \in Take(squad, M, Needed(Fallback, M)), a \in Take(squad, A, Needed(Fallback, A)) :
       LET starters == g \cup d \cup m \cup a
           rest == squad \ starters
       IN /\ picked' = starters
          /\ \E bg \in Take(rest, G, BenchShape[G]), bd \in Take(rest, D, BenchShape[D]),
                bm \in Take(rest, M, BenchShape[M]), ba \in Take(rest, A, BenchShape[A]) :
               /\ bench' = LaidOut(bg \cup bd \cup bm \cup ba)
               /\ Save(LaidOut(starters), LaidOut(bg \cup bd \cup bm \cup ba), Fallback)
  /\ UNCHANGED bidVars

Next ==
  \/ MercatoTurn \/ CloseMercato
  \/ AnswerFormation \/ NameStarter \/ FillStarters \/ NameSubstitute \/ HandIn
  \/ PickBaseline

Spec == Init /\ [][Next]_vars

-----------------------------------------------------------------------------
(* Properties *)

\* More substitutes named than the bench holds, no goalkeeper among the first.
KeeperBeyondBench ==
  HasKeeper(bench) /\ \A i \in DOMAIN bench : LineOf(bench[i]) = G => i > BenchSize

\* The baseline's bench has a shape of its own: nobody of another line comes on
\* it for a line that is short, and it is handed in as it is.
ShapeUnfilled ==
  /\ Len(lineup.bench) < BenchSize
  /\ \E l \in Lines :
       Cardinality(OnLine(squad, l)) < Needed(Fallback, l) + BenchShape[l]

Fieldable ==
  \A f \in Formations \ BonusOnly : \A l \in Lines :
    Cardinality(OnLine(squad, l)) >= Needed(f, l) + (IF l = G THEN 1 ELSE 0)

\* validation.py:3-6: whatever was answered, and whatever the mercato left, a
\* squad that fills every shape and the bench hands in a lineup the game takes.
\* The exceptions are a bench that names its goalkeeper too late, which needs a
\* squad larger than the lineup (the cut to size drops him again), and the
\* baseline's bench for a squad that is large enough but short on one line.
LineupAccepted ==
  stage = "refused" =>
    \/ ~Fieldable \/ Cardinality(squad) < Starters + BenchSize
    \/ Cardinality(squad) > Starters + BenchSize /\ KeeperBeyondBench
    \/ ShapeUnfilled

=============================================================================
