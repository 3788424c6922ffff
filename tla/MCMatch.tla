------------------------------- MODULE MCMatch ------------------------------
(***************************************************************************)
(* TLC instance of Match: five starters and three substitutes a side, two  *)
(* shapes, the second one reached by the 424 bonus only.  Ids 1 to 8 are   *)
(* the home squad, 11 to 18 the visitors'.                                 *)
(***************************************************************************)
EXTENDS Match

MCFormations == {<<2, 1, 1>>, <<1, 1, 2>>}
MCBonusOnly == {<<1, 1, 2>>}
MCFlags ==
  [mandatory_sub_direction |-> "nearest", out_of_position_line |-> "slot",
   mpg_save_can_cancel_own_goal |-> TRUE, valise_can_cancel_real_own_goal |-> TRUE,
   goals_cancelled_per_valise |-> 1, mirror_steals_limited_bonus |-> TRUE]
MCDefenseDelta == 1 :> 1 @@ 2 :> 2

Player(id, ultra, rating, goals, own) ==
  [id |-> id, ultra |-> ultra, rating |-> rating, goals |-> goals, own |-> own,
   started |-> rating # 0, neutralised |-> FALSE]

\* His match was postponed: he counts as having played.
Postponed(id, ultra) ==
  [id |-> id, ultra |-> ultra, rating |-> 0, goals |-> 0, own |-> 0,
   started |-> FALSE, neutralised |-> TRUE]

Sheet(starters, bench, tactical, live, changes) ==
  [starters |-> starters, bench |-> bench, formation |-> <<2, 1, 1>>,
   bonuses |-> NoBonuses, tactical |-> tactical, live_mode |-> live,
   live_subs |-> changes]

\* Ratings that hit the floor of 5, the save's 8, ties and near misses; a scorer,
\* an own goal; 0 is a player who did not play.
HomeXI ==
  {<<Player(1, 10, k, 0, 0), Player(2, 20, d, 0, IF d = 12 THEN 1 ELSE 0),
     Player(3, 21, 10, 0, 0), Player(4, 30, m, IF m = 12 THEN 1 ELSE 0, 0),
     Player(5, 40, f, 0, 0)>> : k \in {0, 16}, d \in {0, 12}, m \in {0, 12}, f \in {0, 13}}

HomeBench ==
  {<<Player(6, 21, 12, 0, 0), Player(7, 10, 14, 0, 0), Player(8, 40, 11, 0, 0)>>,
   <<Player(6, 31, 0, 0, 0), Player(7, 10, 14, 0, 0), Postponed(8, 40)>>,
   <<Player(6, 20, 11, 1, 0), Player(7, 10, 0, 0, 0), Player(8, 20, 14, 0, 0)>>}

Rule == <<[starter |-> 5, sub |-> 8, threshold |-> 14],
          [starter |-> 4, sub |-> 8, threshold |-> 10]>>
\* Substitute 6 has yet to play; the second change would bring him on again.
Changes == <<[starter |-> 4, sub |-> 6, order |-> 0], [starter |-> 5, sub |-> 8, order |-> 1]>>

MCHomeSheets ==
  {Sheet(xi, bench, rules, FALSE, <<>>) :
     xi \in HomeXI, bench \in HomeBench, rules \in {<<>>, Rule}}
    \cup {Sheet(xi, bench, <<>>, TRUE, Changes) : xi \in HomeXI, bench \in HomeBench}

AwayXI ==
  {<<Player(11, 10, k, 0, 0), Player(12, 20, 11, 0, 0), Player(13, 20, d, 0, 0),
     Player(14, 30, 10, 0, 0), Player(15, 40, f, IF f = 0 THEN 0 ELSE 1, 0)>> :
     k \in {10, 16}, d \in {0, 10}, f \in {0, 13}}

AwayBench ==
  <<Player(16, 30, 0, 0, 0), Player(17, 10, 12, 0, 0), Player(18, 21, 0, 0, 0)>>

MCAwaySheets == {Sheet(xi, AwayBench, <<>>, FALSE, <<>>) : xi \in AwayXI}

With(f, v) == [NoBonuses EXCEPT ![f] = v]

MCBonusPairs ==
  {<<NoBonuses, NoBonuses>>,
   <<With("valise", TRUE), With("mirror", TRUE)>>,
   <<[With("suarez", TRUE) EXCEPT !.defense = TRUE], With("valise", TRUE)>>,
   <<[With("mcdo", 5) EXCEPT !.captain = 3], With("cheat_code", TRUE)>>,
   <<With("mirror", TRUE), With("formation_424", TRUE)>>,
   <<With("zahia", TRUE), [With("tonton_pat", TRUE) EXCEPT !.defense = TRUE]>>}

=============================================================================
