------------------------------ MODULE MCTable ------------------------------
(***************************************************************************)
(* TLC instance of Table: every size of league the program knows for the   *)
(* calendar, two and four participants for the table.                      *)
(***************************************************************************)
EXTENDS Table

MCLeagues ==
  {<<2, TRUE, 2>>, <<2, FALSE, 1>>, <<4, FALSE, 5>>, <<4, TRUE, 1>>,
   <<6, FALSE, 1>>, <<6, TRUE, 0>>, <<8, FALSE, 0>>, <<8, TRUE, 0>>,
   <<10, FALSE, 0>>, <<10, TRUE, 0>>}

=============================================================================
