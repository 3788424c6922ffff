------------------------------- MODULE Squads -------------------------------
(***************************************************************************)
(* Lines of play, formations and what makes a lineup legal:                *)
(* src/mpg/engine/lines.py, src/mpg/engine/formations.py and the           *)
(* validation of src/mpg/services/lineups.py.                              *)
(*                                                                         *)
(* An ultra position is the code the program uses: 10 for a goalkeeper,    *)
(* 20 and 21 for defenders, 30 and 31 for midfielders, 40 for forwards.  A *)
(* formation is the triple its name spells: "4-4-2" is <<4, 4, 2>>.        *)
(* Nobody is the absence of a player.                                      *)
(***************************************************************************)
EXTENDS Integers, Sequences, FiniteSets, SequencesExt, FiniteSetsExt

CONSTANTS
  Formations,   \* FORMATIONS, the bonus-only ones included
  BonusOnly,    \* BONUS_ONLY_FORMATIONS
  Starters,     \* STARTERS
  BenchSize,    \* BENCH_SIZE
  MaxTactical   \* MAX_TACTICAL_SUBS

ASSUME FormationsAssumption ==
  /\ BonusOnly \subseteq Formations
  /\ \A f \in Formations :
       f \in Nat \X Nat \X Nat /\ 1 + f[1] + f[2] + f[3] = Starters
  /\ BenchSize \in Nat /\ MaxTactical \in Nat

\* LINE_ORDER, from the goalkeeper up the pitch.
G == 1
D == 2
M == 3
A == 4
Lines == {G, D, M, A}

line_of(ultra) == ultra \div 10

line_distance(a, b) == IF a < b THEN b - a ELSE a - b

\* Invariant 4.1.1 of the engine: the goalkeeper's slot is watertight.
Compatible(candidate, slot) == (candidate = G) = (slot = G)

-----------------------------------------------------------------------------
(* Formations *)

NoFormation == <<>>

Times(line, n) == [i \in 1..n |-> line]

slots_of(f) == <<G>> \o Times(D, f[1]) \o Times(M, f[2]) \o Times(A, f[3])

is_legal(f, bonus424) == f \in Formations /\ (f \in BonusOnly => bonus424)

\* How often line l occurs in a sequence of lines, as a Counter says it.
Count(l, lines) == Cardinality({i \in DOMAIN lines : lines[i] = l})

-----------------------------------------------------------------------------
(* Lineups *)

\* At least one goalkeeper among the substitutes.
BenchKeeper(starters, bench, ultraOf) ==
  \E i \in DOMAIN bench : line_of(ultraOf[bench[i]]) = G

\* The tactical rules, triples [starter, sub, threshold]; one substitute per rule.
TacticalRulesOK(rules, starters, bench, ultraOf) ==
  /\ Len(rules) <= MaxTactical
  /\ \A i \in DOMAIN rules :
       /\ rules[i].starter \in ToSet(starters) /\ rules[i].sub \in ToSet(bench)
       /\ G \notin {line_of(ultraOf[rules[i].starter]), line_of(ultraOf[rules[i].sub])}
  /\ \A i, j \in DOMAIN rules : rules[i].sub = rules[j].sub => i = j

\* validate_lineup, of sequences of players, for a squad whose ultra positions
\* are ultraOf.
validate_lineup(owned, formation, starters, bench, rules, bonus424, ultraOf) ==
  /\ Len(starters) = Starters /\ Len(bench) = BenchSize
  /\ IsInjective(starters \o bench)
  /\ ToSet(starters \o bench) \subseteq owned
  /\ is_legal(formation, bonus424)
  /\ \A l \in Lines :
       Count(l, [i \in DOMAIN starters |-> line_of(ultraOf[starters[i]])])
         = Count(l, slots_of(formation))
  /\ BenchKeeper(starters, bench, ultraOf)
  /\ TacticalRulesOK(rules, starters, bench, ultraOf)

=============================================================================
