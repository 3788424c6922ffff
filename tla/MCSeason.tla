------------------------------- MODULE MCSeason -----------------------------
(***************************************************************************)
(* TLC instance of Season: two sessions, four users of whom two have a     *)
(* squad, leagues of two and of four, three starters and one substitute.   *)
(***************************************************************************)
EXTENDS Season

MCFormations == {<<1, 1, 0>>, <<1, 0, 1>>}
MCBonusOnly == {<<1, 0, 1>>}
MCFlags ==
  [mandatory_sub_direction |-> "nearest", out_of_position_line |-> "slot",
   mpg_save_can_cancel_own_goal |-> TRUE, valise_can_cancel_real_own_goal |-> TRUE,
   goals_cancelled_per_valise |-> 1, mirror_steals_limited_bonus |-> TRUE]
MCDefenseDelta == 1 :> 1

MCSquadOf == (1 :> 11..16) @@ (2 :> 21..24) @@ (3 :> {}) @@ (4 :> {})
MCUltraOf ==
  11 :> 10 @@ 12 :> 10 @@ 13 :> 20 @@ 14 :> 30 @@ 15 :> 40 @@ 16 :> 31
    @@ 21 :> 10 @@ 22 :> 10 @@ 23 :> 21 @@ 24 :> 30

Sheet(formation, starters, bench) ==
  [formation |-> formation, starters |-> starters, bench |-> bench, rules |-> <<>>,
   live |-> FALSE]

\* The second needs the bonus; the third has no goalkeeper to bring on.
MCSheets ==
  1 :> {Sheet(<<1, 1, 0>>, <<11, 13, 14>>, <<12>>), Sheet(<<1, 0, 1>>, <<12, 13, 15>>, <<11>>),
        Sheet(<<1, 1, 0>>, <<11, 13, 14>>, <<16>>)}
    @@ 2 :> {Sheet(<<1, 1, 0>>, <<21, 23, 24>>, <<22>>)}
    @@ 3 :> {} @@ 4 :> {}

\* One midfielder or the other.
MCOtherSheets ==
  [MCSheets EXCEPT ![1] = {Sheet(<<1, 1, 0>>, <<11, 13, 14>>, <<12>>),
                           Sheet(<<1, 1, 0>>, <<11, 13, 16>>, <<12>>)}]

MCPoses ==
  1 :> {[type |-> "valise", target |-> 0], [type |-> "formation_424", target |-> 0]}
    @@ 2 :> {[type |-> "captain", target |-> 23]} @@ 3 :> {} @@ 4 :> {}
MCBonusQuota == [valise |-> 2 :> 0 @@ 4 :> 1, formation_424 |-> 2 :> 0 @@ 4 :> 1]

Rated(r, g) == [rating |-> r, goals |-> g]

\* One player's match ends later than the others'; then a rating is revised.
First ==
  [p \in DOMAIN MCUltraOf |->
     CASE p = 14 -> Rated(13, 1) [] p = 16 -> NoRow [] p = 23 -> Rated(0, 0)
       [] OTHER -> Rated(11, 0)]
Revised == [First EXCEPT ![14] = Rated(9, 0), ![16] = Rated(12, 0)]
MCRefreshes == {First, Revised}

Permutation == Permutations(Sessions)

=============================================================================
