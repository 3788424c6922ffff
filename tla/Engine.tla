------------------------------- MODULE Engine -------------------------------
(***************************************************************************)
(* The resolution of one fixture: src/mpg/engine/, a pure function of two  *)
(* team sheets.                                                            *)
(*                                                                         *)
(* Ratings are counted in half points, the step of the official ratings    *)
(* and of every bonus, so that they are integers.  A player entry has id   *)
(* (never 0), ultra, rating (0 when there is none: the player did not      *)
(* play), goals, own (own goals), started (his match has kicked off) and   *)
(* neutralised (it was brought forward or postponed).  A team sheet has    *)
(* starters and bench (sequences of entries), formation (NoFormation when  *)
(* none was stored), bonuses, tactical (sequence of [starter, sub,         *)
(* threshold]), live_mode and live_subs (sequence of [starter, sub,        *)
(* order]).  What only the report shows is left out.                       *)
(***************************************************************************)
EXTENDS Squads

CONSTANTS
  Flags,             \* EngineFlags, as a record
  DefenseDelta,      \* the Defense bonus by number of defenders: 4 :> 1 @@ 5 :> 2
  RotaldoPerOwnGoal, \* ROTALDO_PER_OWN_GOAL
  TontonCap          \* TONTON_PAT_LIVE_CAP

ASSUME EngineAssumption ==
  /\ Flags.mandatory_sub_direction \in {"nearest", "lower"}
  /\ Flags.out_of_position_line \in {"slot", "player"}
  /\ Flags.goals_cancelled_per_valise \in Nat
  /\ {Flags.mpg_save_can_cancel_own_goal, Flags.valise_can_cancel_real_own_goal,
      Flags.mirror_steals_limited_bonus} \subseteq BOOLEAN
  /\ \A n \in DOMAIN DefenseDelta : DefenseDelta[n] \in Nat
  /\ RotaldoPerOwnGoal \in Nat \ {0} /\ TontonCap \in Nat

\* The ratings the rules name, in half points.
RATING_MIN == 2
RATING_MAX == 20
ROTALDO_RATING == 5
NEUTRAL_RATING == 10
MPG_GOAL_FLOOR == 10
MPG_SAVE_THRESHOLD == 16

clamp_rating(value) == Min({RATING_MAX, Max({RATING_MIN, value})})

-----------------------------------------------------------------------------
(* Entries *)

Nobody == [id |-> 0, ultra |-> 0, rating |-> 0, goals |-> 0, own |-> 0,
           started |-> FALSE, neutralised |-> FALSE]

\* has_effectively_played
Played(e) == e.neutralised \/ e.rating # 0

effective_rating(e) == IF e.neutralised THEN NEUTRAL_RATING ELSE e.rating
effective_goals(e) == IF e.neutralised THEN 0 ELSE e.goals
effective_own(e) == IF e.neutralised THEN 0 ELSE e.own

all_players(sheet) == sheet.starters \o sheet.bench

\* _squad_ratings: of every squad player who has a rating.
SquadRatings(sheet) ==
  LET rated == {e \in ToSet(all_players(sheet)) : Played(e)}
  IN [p \in {e.id : e \in rated} |->
        effective_rating(CHOOSE e \in rated : e.id = p)]

\* _starter_lines
StarterLines(sheet) ==
  [p \in {e.id : e \in ToSet(sheet.starters)} |->
     line_of((CHOOSE e \in ToSet(sheet.starters) : e.id = p).ultra)]

-----------------------------------------------------------------------------
(* Bonuses *)

NoBonuses ==
  [defense |-> FALSE, zahia |-> FALSE, mcdo |-> 0, captain |-> 0,
   valise |-> FALSE, suarez |-> FALSE, mirror |-> FALSE, cheat_code |-> FALSE,
   tonton_pat |-> FALSE, formation_424 |-> FALSE]

\* The limited bonuses a Miroir takes away; a 424 leaves its shape behind.
Stealable == {"mcdo", "valise", "suarez", "zahia", "cheat_code", "tonton_pat"}

\* limited_posed, of what can be stolen.
StealablePosed(b) == {f \in Stealable : b[f] # NoBonuses[f]}

\* steal, on the side of the thief, who has spent its own Miroir ...
Thief(thief, before) ==
  [f \in DOMAIN thief |->
     CASE f = "mirror" -> FALSE
       [] f = "defense" -> thief.defense \/ before.formation_424
       [] f \in StealablePosed(before) -> before[f]
       [] OTHER -> thief[f]]

\* ... and on the side of its victim.
Robbed(victim, before) ==
  [f \in DOMAIN victim |->
     IF f \in StealablePosed(before) THEN NoBonuses[f] ELSE victim[f]]

\* Both Miroirs are read against the state before either.
resolve_mirrors(home, away) ==
  LET steals == Flags.mirror_steals_limited_bonus
      h1 == IF steals /\ home.mirror THEN Thief(home, away) ELSE home
      a1 == IF steals /\ home.mirror THEN Robbed(away, away) ELSE away
  IN IF steals /\ away.mirror
     THEN [home |-> Robbed(h1, home), away |-> Thief(a1, home)]
     ELSE [home |-> h1, away |-> a1]

\* What own's bonuses add to a defender, given how many of them there are.
DefenseBonus(own, n) ==
  IF own.defense /\ n \in DOMAIN DefenseDelta THEN DefenseDelta[n] ELSE 0

\* apply_bonuses: ratings and lines are functions of the player; a player of
\* ratings who is in no line takes the bonuses that look at no line.
apply_bonuses(ratings, lines, own, opponent, cheatCode) ==
  LET inLine(p, l) == p \in DOMAIN lines /\ lines[p] = l
      keeper(p) == inLine(p, G)
      defenders == {p \in DOMAIN ratings : inLine(p, D)}
      delta(p) ==
        (IF p \in defenders THEN DefenseBonus(own, Cardinality(defenders)) ELSE 0)
        + (IF own.zahia THEN 1 ELSE 0)
        + (IF own.mcdo = p THEN 2 ELSE 0)
        + (IF own.captain = p /\ own.mcdo # p /\ ~keeper(p) THEN 1 ELSE 0)
        - (IF opponent.suarez /\ keeper(p) THEN 2 ELSE 0)
        - (IF cheatCode /\ opponent.cheat_code /\ p \in DOMAIN lines /\ ~keeper(p)
             THEN 1 ELSE 0)
  IN [p \in DOMAIN ratings |-> clamp_rating(ratings[p] + delta(p))]

-----------------------------------------------------------------------------
(* Seats: the slots of the XI, who sits there, and the penalty he plays with *)

Seat(slot, e) == [slot |-> slot, player |-> e, penalty |-> 0]

\* _slot_lines: the slots of a formation are in line order, an inferred one's too.
SlotLines(sheet) ==
  IF sheet.formation # NoFormation THEN slots_of(sheet.formation)
  ELSE SortSeq([i \in DOMAIN sheet.starters |-> line_of(sheet.starters[i].ultra)],
               LAMBDA a, b : a < b)

\* The how-manieth of its line a place of a sequence of lines is.
Occurrence(lines, i) == Cardinality({j \in 1..i : lines[j] = lines[i]})

\* _seat_starters: the n-th slot of a line goes to its n-th starter; a starter
\* his line has no slot for is seated outside the formation.
SeatStarters(sheet) ==
  LET slots == SlotLines(sheet)
      lines == [k \in DOMAIN sheet.starters |-> line_of(sheet.starters[k].ultra)]
      taker(i) == {k \in DOMAIN lines : /\ lines[k] = slots[i]
                                        /\ Occurrence(lines, k) = Occurrence(slots, i)}
      seated(i) == Seat(slots[i], IF taker(i) = {} THEN Nobody
                                  ELSE sheet.starters[CHOOSE k \in taker(i) : TRUE])
      over == DOMAIN lines \ UNION {taker(i) : i \in DOMAIN slots}
      leftover(n) == CHOOSE k \in over : Cardinality({j \in over : j <= k}) = n
  IN [i \in DOMAIN slots |-> seated(i)]
       \o [n \in 1..Cardinality(over) |->
             Seat(lines[leftover(n)], sheet.starters[leftover(n)])]

\* The first seat of a player, as a set: empty if he has none.
SeatOf(seats, p) ==
  LET his == {i \in DOMAIN seats : seats[i].player.id = p}
  IN IF his = {} THEN {} ELSE {Min(his)}

ById(entries, p) == {e \in ToSet(entries) : e.id = p}

-----------------------------------------------------------------------------
(* Tactical substitutions *)

\* A slip: a substitute who already came on may come on again.
ComesOnAgain(seats, used, sheet, rule, ratings) ==
  {x \in SeatOf(seats, rule.starter) \X ById(sheet.bench, rule.sub) :
     LET i == x[1]
         e == x[2]
     IN /\ seats[i].slot # G /\ line_of(seats[i].player.ultra) # G
        /\ Played(e) /\ ~e.neutralised
        /\ Compatible(line_of(e.ultra), seats[i].slot)
        /\ Played(seats[i].player) => ratings[rule.starter] < rule.threshold}

\* The seat and the substitute of a rule that applies; none if it does not.
TacticalChange(seats, used, sheet, rule, ratings) ==
  {x \in SeatOf(seats, rule.starter) \X ById(sheet.bench, rule.sub) :
     LET i == x[1]
         e == x[2]
     IN /\ seats[i].slot # G /\ line_of(seats[i].player.ultra) # G
        /\ e.id \notin used
        /\ Played(e) /\ ~e.neutralised
        /\ Compatible(line_of(e.ultra), seats[i].slot)
        /\ Played(seats[i].player) => ratings[rule.starter] < rule.threshold}

ApplyRule(sheet, ratings, acc, rule) ==
  LET found == TacticalChange(acc.seats, acc.used, sheet, rule, ratings)
      change == CHOOSE x \in found : TRUE
  IN IF acc.applied >= MaxTactical \/ found = {} THEN acc
     ELSE [seats |-> [acc.seats EXCEPT ![change[1]].player = change[2]],
           used |-> (acc.used \cup {rule.sub}) \ {rule.starter},
           applied |-> acc.applied + 1]

\* The rules one after the other: after[n] is what the first n have left.
Tactical(sheet, start, ratings) ==
  LET rules == sheet.tactical
      after[n \in 0..Len(rules)] ==
        IF n = 0 THEN [seats |-> start.seats, used |-> start.used, applied |-> 0]
        ELSE ApplyRule(sheet, ratings, after[n - 1], rules[n])
  IN after[Len(rules)]

-----------------------------------------------------------------------------
(* Live changes *)

LiveChange(seats, used, changed, sheet, rule) ==
  {x \in SeatOf(seats, rule.starter) \X ById(all_players(sheet), rule.sub) :
     LET i == x[1]
         e == x[2]
     IN /\ rule.starter \notin changed
        /\ seats[i].slot # G
        /\ e.id \notin used
        /\ ~e.started /\ ~e.neutralised
        /\ line_of(e.ultra) = line_of(seats[i].player.ultra)}

\* The starter who goes off stays used.
ApplyChange(sheet, acc, rule) ==
  LET found == LiveChange(acc.seats, acc.used, acc.changed, sheet, rule)
      change == CHOOSE x \in found : TRUE
  IN IF found = {} THEN acc
     ELSE [seats |-> [acc.seats EXCEPT ![change[1]].player = change[2]],
           used |-> acc.used \cup {rule.sub},
           changed |-> acc.changed \cup {rule.starter}]

\* In the order the manager made them; a Tonton Pat' lets the first ones through.
Live(sheet, start, tonton) ==
  LET rules == sheet.live_subs
      ordered == SortSeq([i \in DOMAIN rules |-> i], LAMBDA i, j :
                   rules[i].order < rules[j].order
                     \/ (rules[i].order = rules[j].order /\ i < j))
      counted == IF tonton THEN Min({TontonCap, Len(rules)}) ELSE Len(rules)
      after[n \in 0..counted] ==
        IF n = 0 THEN [seats |-> start.seats, used |-> start.used, changed |-> {}]
        ELSE ApplyChange(sheet, after[n - 1], rules[ordered[n]])
  IN after[counted]

-----------------------------------------------------------------------------
(* Mandatory substitutions *)

\* A slip: whoever played may fill the hole, goalkeeper or not.
EligibleAnywhere(bench, used, slot) ==
  {i \in DOMAIN bench :
     bench[i].id \notin used /\ Played(bench[i]) /\ ~bench[i].neutralised}

\* The places of the bench whose player may fill a slot.
Eligible(bench, used, slot) ==
  {i \in DOMAIN bench :
     /\ bench[i].id \notin used
     /\ Played(bench[i]) /\ ~bench[i].neutralised
     /\ Compatible(line_of(bench[i].ultra), slot)}

\* A slip: nobody comes on out of position.
SameLineOnly(slot, occupant, bench, used) ==
  LET line == {i \in Eligible(bench, used, slot) : line_of(bench[i].ultra) = slot}
  IN IF line = {} THEN {} ELSE {<<bench[Min(line)], 0>>}

\* mandatory_sub: the substitute and his penalty, as a set of at most one pair:
\* the same ultra position, else the same line, else the nearest line.
mandatory_sub(slot, occupant, bench, used) ==
  LET all == Eligible(bench, used, slot)
      distance(i) == line_distance(line_of(bench[i].ultra), slot)
      same == {i \in all : occupant # Nobody /\ bench[i].ultra = occupant.ultra}
      line == {i \in all : line_of(bench[i].ultra) = slot}
      lower == {i \in all : line_of(bench[i].ultra) > slot}
      others == IF Flags.mandatory_sub_direction = "lower" /\ lower # {}
                THEN lower ELSE all
      nearest == {i \in others : \A j \in others :
                    distance(i) < distance(j) \/ (distance(i) = distance(j) /\ i <= j)}
  IN CASE same # {} -> {<<bench[Min(same)], 0>>}
       [] same = {} /\ line # {} -> {<<bench[Min(line)], 0>>}
       [] OTHER -> {<<bench[i], -2 * distance(i)>> : i \in nearest}

\* The i-th seat: filled if its occupant did not play and the bench can.
FillSeat(sheet, acc, i) ==
  LET seat == acc.seats[i]
      found == mandatory_sub(seat.slot, seat.player, sheet.bench, acc.used)
      sub == CHOOSE x \in found : TRUE
  IN IF Played(seat.player) \/ (sheet.live_mode /\ seat.slot # G) \/ found = {} THEN acc
     ELSE [seats |-> [acc.seats EXCEPT
                        ![i] = [seat EXCEPT !.player = sub[1], !.penalty = sub[2]]],
           used |-> (acc.used \cup {sub[1].id}) \ {seat.player.id}]

Mandatory(sheet, start) ==
  LET after[n \in 0..Len(start.seats)] ==
        IF n = 0 THEN [seats |-> start.seats, used |-> start.used]
        ELSE FillSeat(sheet, after[n - 1], n)
  IN after[Len(start.seats)]

-----------------------------------------------------------------------------
(* The final XI *)

Rotaldo(slot) ==
  [line |-> slot, id |-> 0, rating |-> ROTALDO_RATING, goals |-> 0, own |-> 0,
   rotaldo |-> TRUE]

\* The starters are used before anything else happens.
Kickoff(seats) ==
  [seats |-> seats, used |-> {seats[i].player.id : i \in DOMAIN seats} \ {0}]

\* The optional changes of the manager, live or by rule; a Tonton Pat' suspends
\* the rules.
Changed(sheet, start, ratings, tonton) ==
  CASE sheet.live_mode -> Live(sheet, start, tonton)
    [] ~sheet.live_mode /\ tonton -> start
    [] OTHER -> Tactical(sheet, start, ratings)

\* build_final_xi up to the Rotaldos: the seats once every rule was applied.
FinalSeats(sheet, ratings, tonton) ==
  Mandatory(sheet, Changed(sheet, Kickoff(SeatStarters(sheet)), ratings, tonton)).seats

\* The bonuses are read a second time on the final XI, with the Cheat Code; a
\* Rotaldo takes none.
FinalXI(seats, ratings, own, opponent) ==
  LET line(i) == IF Flags.out_of_position_line = "slot" \/ ~Played(seats[i].player)
                 THEN seats[i].slot ELSE line_of(seats[i].player.ultra)
      real == {i \in DOMAIN seats : Played(seats[i].player)}
      at == [p \in {seats[i].player.id : i \in real} |->
               CHOOSE i \in real : seats[i].player.id = p]
      final == apply_bonuses([p \in DOMAIN at |-> ratings[p] + seats[at[p]].penalty],
                             [p \in DOMAIN at |-> line(at[p])], own, opponent, TRUE)
      slot(i) ==
        LET e == seats[i].player
        IN IF i \in real
           THEN [line |-> line(i), id |-> e.id, rating |-> final[e.id],
                 goals |-> effective_goals(e), own |-> effective_own(e),
                 rotaldo |-> FALSE]
           ELSE Rotaldo(seats[i].slot)
  IN [i \in DOMAIN seats |-> slot(i)]

\* _build_side
BuildSide(sheet, own, opponent) ==
  LET ratings == SquadRatings(sheet)
      adjusted == apply_bonuses(ratings, StarterLines(sheet), own, opponent, FALSE)
  IN FinalXI(FinalSeats(sheet, adjusted, opponent.tonton_pat), ratings, own, opponent)

Rotaldos(xi) == Cardinality({i \in DOMAIN xi : xi[i].rotaldo})

rotaldo_own_goals(xi) == Rotaldos(xi) \div RotaldoPerOwnGoal

-----------------------------------------------------------------------------
(* Virtual goals *)

\* GAUNTLET
Gauntlet(l) ==
  CASE l = D -> <<A, M, D, G>>
    [] l = M -> <<M, D, G>>
    [] l = A -> <<D, G>>

InLine(xi, l) == {i \in DOMAIN xi : xi[i].line = l}

\* line_averages, as the sum and the number it is divided by: the first
\* goalkeeper's rating, the mean of the other lines; n = 0 for an empty line.
LineAverage(xi, l) ==
  LET who == IF l = G /\ InLine(xi, G) # {} THEN {Min(InLine(xi, G))} ELSE InLine(xi, l)
  IN [sum |-> SumFunctionOnSet([i \in DOMAIN xi |-> xi[i].rating], who),
      n |-> Cardinality(who)]

\* A slip: a tied duel always goes to the home side.
HomeWinsTies(home, attackerWins) == home

\* A slip: the sides are mixed up.
VisitorWinsTies(home, attackerWins) == ~home \/ attackerWins

\* Golden rule 1 and its exception.
WinsTies(home, attackerWins) == home \/ attackerWins

\* One line of the gauntlet: an empty one is crossed without a duel, and the
\* first duel won costs two half points, the others one.
Duel(acc, avg, winsTies) ==
  IF ~acc.passed \/ avg.n = 0 THEN acc
  ELSE [passed |-> \/ acc.current * avg.n > avg.sum
                   \/ acc.current * avg.n = avg.sum /\ winsTies,
        current |-> acc.current - (IF acc.first THEN 2 ELSE 1),
        first |-> FALSE]

\* Does a player of the attacking side cross every line?
Crosses(scorer, defending, winsTies) ==
  LET lines == Gauntlet(scorer.line)
      after[n \in 0..Len(lines)] ==
        IF n = 0 THEN [passed |-> TRUE, current |-> scorer.rating, first |-> TRUE]
        ELSE Duel(after[n - 1], LineAverage(defending, lines[n]), winsTies)
  IN after[Len(lines)].passed

\* mpg_goals, the number of them.
mpg_goals(attacking, defending, home, attackerWins) ==
  Cardinality({i \in DOMAIN attacking :
    /\ attacking[i].line # G
    /\ attacking[i].goals = 0
    /\ attacking[i].rating >= MPG_GOAL_FLOOR
    /\ Crosses(attacking[i], defending, WinsTies(home, attackerWins))})

-----------------------------------------------------------------------------
(* Cancelled goals and the score *)

Sum(xi, f) == SumFunction([i \in DOMAIN xi |-> xi[i][f]])

\* _real_goal_events and the virtual goals, counted by kind.
Goals(xi, opponentXI, virtual) ==
  [real |-> Sum(xi, "goals"), own_goal |-> Sum(opponentXI, "own"), mpg |-> virtual]

\* One kind of goal: as many as there are, as long as some may be cancelled.
CancelKind(acc, kind) ==
  LET n == Min({acc.left, acc.goals[kind]})
  IN [goals |-> [acc.goals EXCEPT ![kind] = @ - n], left |-> acc.left - n]

\* _cancel: up to n goals, kind after kind; what is left.  Which scorer loses
\* his goal, D before M before A, does not change the count.
Cancel(goals, kinds, n) ==
  LET after[i \in 0..Len(kinds)] ==
        IF i = 0 THEN [goals |-> goals, left |-> n]
        ELSE CancelKind(after[i - 1], kinds[i])
  IN after[Len(kinds)].goals

AllGoals(goals) == goals.real + goals.own_goal + goals.mpg

\* A keeper's real-life rating and bonuses arm the save.
SaveArmed(xi) ==
  LET keepers == InLine(xi, G)
  IN keepers # {} /\ xi[Min(keepers)].rating >= MPG_SAVE_THRESHOLD

\* A slip: the phantom players' own goals are in the Valise's pool.
PunishedPool(xi, opponentXI, goals, opponent) ==
  LET pool == [goals EXCEPT !.own_goal = @ + rotaldo_own_goals(opponentXI)]
      left == Cancel(pool, <<"real", "own_goal", "mpg">>,
                     IF opponent.valise THEN Flags.goals_cancelled_per_valise ELSE 0)
  IN AllGoals(left)

\* A slip: a side's own keeper arms the save against it.
SaveByOwnKeeper(xi, opponentXI, goals, opponent) ==
  AllGoals(IF SaveArmed(xi) THEN Cancel(goals, <<"real">>, 1) ELSE goals)
    + rotaldo_own_goals(opponentXI)

\* One side's score: the save first, then the Valise, then the punishment of
\* the opponent's phantom players, which nothing cancels.
SideScore(xi, opponentXI, goals, opponent) ==
  LET saved == IF ~SaveArmed(opponentXI) THEN goals
               ELSE Cancel(goals, IF Flags.mpg_save_can_cancel_own_goal
                                  THEN <<"own_goal", "real">> ELSE <<"real">>, 1)
      left == IF ~opponent.valise THEN saved
              ELSE Cancel(saved, IF Flags.valise_can_cancel_real_own_goal
                                 THEN <<"real", "own_goal", "mpg">> ELSE <<"real", "mpg">>,
                          Flags.goals_cancelled_per_valise)
  IN AllGoals(left) + rotaldo_own_goals(opponentXI)

\* Both scores, both final XIs, and who is owed a Valise's compensation.
MatchResult(hxi, axi, b, attackerWins) ==
  LET hgoals == Goals(hxi, axi, mpg_goals(hxi, axi, TRUE, attackerWins))
      agoals == Goals(axi, hxi, mpg_goals(axi, hxi, FALSE, attackerWins))
  IN [home |-> SideScore(hxi, axi, hgoals, b.away),
      away |-> SideScore(axi, hxi, agoals, b.home),
      home_xi |-> hxi, away_xi |-> axi,
      home_paid |-> b.away.valise, away_paid |-> b.home.valise]

resolve_match(home, away, attackerWins) ==
  LET b == resolve_mirrors(home.bonuses, away.bonuses)
  IN MatchResult(BuildSide(home, b.home, b.away), BuildSide(away, b.away, b.home),
                 b, attackerWins)

=============================================================================
