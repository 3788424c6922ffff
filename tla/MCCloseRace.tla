---------------------------- MODULE MCCloseRace ----------------------------
(***************************************************************************)
(* TLC instance of CloseRace: two participants that both lack the one line *)
(* of play, two players, one bid that may be sent.                         *)
(***************************************************************************)
EXTENDS CloseRace

MCLineOf == [pl \in Player |-> 1]
MCQuotation == [pl \in Player |-> 1]
MCQuota == [l \in Line |-> 1]
MCIntents == {[by |-> 2, on |-> 1, amount |-> 1]}

=============================================================================
