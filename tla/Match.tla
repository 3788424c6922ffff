------------------------------- MODULE Match -------------------------------
(***************************************************************************)
(* One fixture, from the two team sheets the managers handed in to its     *)
(* result: what src/mpg/engine/resolver.py must guarantee whatever they    *)
(* contain.  The sheets are legal ones (Squads), the bonuses those one     *)
(* participant may pose for one game week.  They are chosen in steps, then *)
(* the fixture is resolved.                                                *)
(***************************************************************************)
EXTENDS Engine

CONSTANTS
  HomeSheets, AwaySheets,  \* team sheets without bonuses
  BonusPairs               \* pairs <<home's bonuses, away's bonuses>>

\* The official ratings go from 1 to 10.
Entries == [id : Nat \ {0}, ultra : Nat, rating : {0} \cup RATING_MIN..RATING_MAX,
            goals : Nat, own : Nat, started : BOOLEAN, neutralised : BOOLEAN]

Bonuses == [defense : BOOLEAN, zahia : BOOLEAN, mcdo : Nat, captain : Nat,
            valise : BOOLEAN, suarez : BOOLEAN, mirror : BOOLEAN,
            cheat_code : BOOLEAN, tonton_pat : BOOLEAN, formation_424 : BOOLEAN]

TeamSheets ==
  [starters : Seq(Entries), bench : Seq(Entries), formation : Formations,
   bonuses : Bonuses, tactical : Seq([starter : Nat, sub : Nat, threshold : Nat]),
   live_mode : BOOLEAN, live_subs : Seq([starter : Nat, sub : Nat, order : Nat])]

\* What save_lineup lets through: known lines, nobody twice, a starter per slot.
LegalSheet(sheet) ==
  /\ sheet \in TeamSheets /\ sheet.formation # NoFormation
  /\ \A e \in ToSet(all_players(sheet)) : line_of(e.ultra) \in Lines
  /\ \A i, j \in DOMAIN all_players(sheet) :
       all_players(sheet)[i].id = all_players(sheet)[j].id => i = j
  /\ \A l \in Lines :
       Count(l, [i \in DOMAIN sheet.starters |-> line_of(sheet.starters[i].ultra)])
         = Count(l, slots_of(sheet.formation))

\* One bonus a week, Defense and Capitaine aside.
LegalBonuses(b) ==
  /\ b \in Bonuses
  /\ \A f, g \in Stealable \cup {"mirror", "formation_424"} :
       b[f] # NoBonuses[f] /\ b[g] # NoBonuses[g] => f = g

ASSUME MatchAssumption ==
  /\ \A sheet \in HomeSheets \cup AwaySheets : LegalSheet(sheet)
  /\ \A pair \in BonusPairs : LegalBonuses(pair[1]) /\ LegalBonuses(pair[2])

VARIABLES
  stage,    \* sheets, bonuses, kickoff, played
  home,     \* the home side's team sheet
  away,     \* the visitors'
  ties,     \* MatchContext.attacker_wins_ties
  result    \* the MatchResult

vars == <<stage, home, away, ties, result>>

NoResult == [home |-> 0, away |-> 0, home_xi |-> <<>>, away_xi |-> <<>>,
             home_paid |-> FALSE, away_paid |-> FALSE]

Init ==
  /\ stage = "sheets"
  /\ home \in HomeSheets /\ away \in AwaySheets
  /\ ties = FALSE
  /\ result = NoResult

PoseBonuses ==
  /\ stage = "sheets"
  /\ stage' = "bonuses"
  /\ \E pair \in BonusPairs :
       /\ home' = [home EXCEPT !.bonuses = pair[1]]
       /\ away' = [away EXCEPT !.bonuses = pair[2]]
  /\ UNCHANGED <<ties, result>>

\* return_legs and playoff decide who wins a tied duel.
ReadContext ==
  /\ stage = "bonuses"
  /\ stage' = "kickoff"
  /\ \E legs, playoff \in BOOLEAN : ties' = (~legs \/ playoff)
  /\ UNCHANGED <<home, away, result>>

Resolve ==
  /\ stage = "kickoff"
  /\ stage' = "played"
  /\ result' = resolve_match(home, away, ties)
  /\ UNCHANGED <<home, away, ties>>

Next == PoseBonuses \/ ReadContext \/ Resolve

Spec == Init /\ [][Next]_vars

-----------------------------------------------------------------------------
(* Properties *)

Sides == {[sheet |-> home, xi |-> result.home_xi, opponent |-> away],
          [sheet |-> away, xi |-> result.away_xi, opponent |-> home]}

Entry(sheet, p) == CHOOSE e \in ToSet(all_players(sheet)) : e.id = p

Fielded(xi) == {i \in DOMAIN xi : ~xi[i].rotaldo}

\* Invariant 4.1.1 of the engine: whatever replaced whom, tactically, live or
\* because he did not play, only goalkeepers keep goal and they do nothing else.
GoalkeeperWatertight ==
  stage = "played" =>
    \A s \in Sides : \A i \in Fielded(s.xi) :
      (line_of(Entry(s.sheet, s.xi[i].id).ultra) = G) = (s.xi[i].line = G)

\* The three kinds of substitution together keep the XI complete, field nobody
\* twice, and field nobody who was not rated.
NobodyPlaysTwice ==
  stage = "played" =>
    \A s \in Sides :
      /\ Len(s.xi) = Starters
      /\ \A i, j \in Fielded(s.xi) : s.xi[i].id = s.xi[j].id => i = j
      /\ \A i \in Fielded(s.xi) : Played(Entry(s.sheet, s.xi[i].id))

\* mandatory_sub: a phantom player costs the side a share of an own goal, so he
\* stands in only when the bench holds nobody who played and may take the slot.
\* In live mode the bench covers for the goalkeeper alone.
RotaldoIsLastResort ==
  stage = "played" =>
    \A s \in Sides : \A i \in DOMAIN s.xi \ Fielded(s.xi) :
      \/ s.sheet.live_mode /\ s.xi[i].line # G
      \/ \A e \in ToSet(s.sheet.bench) :
           /\ Played(e) /\ ~e.neutralised
           /\ Compatible(line_of(e.ultra), s.xi[i].line)
           => \E j \in DOMAIN s.xi : s.xi[j].id = e.id

\* A result as the other ground's home side sees it.
Exchanged(r) ==
  [home |-> r.away, away |-> r.home, home_xi |-> r.away_xi, away_xi |-> r.home_xi,
   home_paid |-> r.away_paid, away_paid |-> r.home_paid]

\* The home side scores no less in r, and its opponent no more.
NoWorse(r, than) == r.home >= than.home /\ r.away <= than.away

\* attacker_wins_ties: without return legs, or in a play-off, the ground does
\* not matter, the Miroirs and the Valises included.
TieRuleSymmetric ==
  stage = "played" /\ ties =>
    Exchanged(resolve_match(away, home, TRUE)) = result

\* Golden rule 1: with return legs a side never does worse at home, nor its
\* opponent better, than with the same sheets on the other ground.
HomeAdvantage ==
  stage = "played" /\ ~ties =>
    NoWorse(result, Exchanged(resolve_match(away, home, FALSE)))

\* Invariant 4.1.3 of the engine: neither the save nor a Valise, nor a stolen
\* one, takes away the own goals conceded through phantom players.
PunishmentStands ==
  stage = "played" =>
    /\ result.home >= Rotaldos(result.away_xi) \div RotaldoPerOwnGoal
    /\ result.away >= Rotaldos(result.home_xi) \div RotaldoPerOwnGoal

\* The sheet after the official rating of one of its players is revised upwards.
Lifted(e, p) ==
  IF e.id = p THEN [e EXCEPT !.rating = Min({RATING_MAX, @ + 1})] ELSE e

Raised(sheet, p) ==
  [sheet EXCEPT !.starters = [i \in DOMAIN @ |-> Lifted(@[i], p)],
                !.bench = [i \in DOMAIN @ |-> Lifted(@[i], p)]]

Rated(sheet) ==
  {e.id : e \in {x \in ToSet(all_players(sheet)) : x.rating # 0}}

\* A rating revised upwards never costs its side: it neither lowers its score
\* nor raises the opponent's, through all the duels, averages and the save.
\* With a tactical rule it may (the better player stays on), so not there.
BetterRatingNeverHurts ==
  stage = "played" =>
    /\ home.tactical = <<>> => \A p \in Rated(home) :
         NoWorse(resolve_match(Raised(home, p), away, ties), result)
    /\ away.tactical = <<>> => \A p \in Rated(away) :
         NoWorse(result, resolve_match(home, Raised(away, p), ties))

=============================================================================
