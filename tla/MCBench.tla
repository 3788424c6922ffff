------------------------------- MODULE MCBench ------------------------------
(***************************************************************************)
(* TLC instance of Bench: four starters, two substitutes, two rounds,     *)
(* eight players of which the quotas ask for seven.  The baseline's bench  *)
(* wants a second forward, whom no shape needs without the 424 bonus.      *)
(***************************************************************************)
EXTENDS Bench

MCFormations == {<<1, 1, 1>>, <<2, 1, 0>>, <<1, 0, 2>>}
MCBonusOnly == {<<1, 0, 2>>}
MCFallback == <<1, 1, 1>>
MCPlayers == 1..8
MCUltraOf == <<10, 10, 20, 21, 20, 30, 40, 41>>
MCQuotation == <<1, 2, 1, 3, 2, 2, 1, 1>>
MCQuota == <<2, 2, 1, 2>>
MCBenchShape == <<1, 0, 0, 1>>

=============================================================================
