---------------------------- MODULE MCAllocation ----------------------------
(***************************************************************************)
(* TLC instance of Allocation: every set of bids and every set of open     *)
(* budgets over a few participants, players and amounts.                   *)
(***************************************************************************)
EXTENDS Allocation

CONSTANTS MaxAmount, MaxBudget

MCInit ==
  /\ \E amount \in [Participant -> [Player -> 0..MaxAmount]] :
       offers = {b \in [by: Participant, on: Player, amount: 1..MaxAmount] :
                   amount[b.by][b.on] = b.amount}
  /\ \E open \in SUBSET Participant : budgets \in [open -> 1..MaxBudget]
  /\ remaining = budgets
  /\ pending = {b.on : b \in offers}
  /\ allocations = {}

\* The loop ends when every player has been walked; stopping anywhere else is
\* reported as a deadlock.
Return == pending = {} /\ UNCHANGED allocVars

\* Every state of MCInit is one of AllocInit.
MCSpec == MCInit /\ [][Walk \/ Return]_allocVars

=============================================================================
