----------------------------- MODULE MCMercato -----------------------------
(***************************************************************************)
(* TLC instances of Mercato: two participants, two or three players, the   *)
(* third quoted higher.  With two lines, player 2 is on one that nobody is *)
(* short on: the generator and the draft leave him to the bids.            *)
(***************************************************************************)
EXTENDS Mercato

MCLineOf == [pl \in Player |-> IF pl = 2 /\ 2 \in Line THEN 2 ELSE 1]
MCQuotation == [pl \in Player |-> IF pl = 3 THEN 2 ELSE 1]
MCQuota == [l \in Line |-> IF l = 1 THEN 1 ELSE 0]
MCQuota2 == [l \in Line |-> 2]

\* A tie, and bids that spend a budget of 3 on one player each.
MCIntents ==
  {[by |-> 1, on |-> 1, amount |-> 3], [by |-> 1, on |-> 2, amount |-> 1],
   [by |-> 2, on |-> 1, amount |-> 3], [by |-> 2, on |-> 2, amount |-> 3]}

\* Sent together, the bids of participant 1 exceed a budget of 2.
MCFewIntents ==
  {[by |-> 1, on |-> 1, amount |-> 2], [by |-> 1, on |-> 2, amount |-> 1],
   [by |-> 2, on |-> 1, amount |-> 1]}

MCOneIntent == {[by |-> 1, on |-> 1, amount |-> 1]}

=============================================================================
