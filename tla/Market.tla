------------------------------- MODULE Market -------------------------------
(***************************************************************************)
(* What a mercato promises, whatever its rounds, locks and schedules:      *)
(* players change hands once, from nobody to a participant that pays for   *)
(* them out of a purse that never goes negative.  Mercato implements it.   *)
(***************************************************************************)
EXTENDS Integers, FiniteSetsExt

CONSTANTS Participant, Player, Purse

VARIABLES
  stage,  \* created, mercato or running
  owns,   \* records [by, on, price]
  purse   \* money left to each participant

marketVars == <<stage, owns, purse>>

Sale == [by: Participant, on: Player, price: Nat]

MarketInit ==
  /\ stage = "created"
  /\ owns = {}
  /\ purse = [p \in Participant |-> Purse]

OpenMarket ==
  /\ stage = "created"
  /\ stage' = "mercato"
  /\ UNCHANGED <<owns, purse>>

Paid(p, sales) ==
  SumFunction([s \in {x \in sales : x.by = p} |-> s.price])

\* A batch of sales: of players nobody owned, each to one buyer, each paid.
Sell(sales) ==
  /\ sales \subseteq Sale
  /\ \A s, t \in sales : s.on = t.on => s = t
  /\ \A s \in sales, t \in owns : s.on # t.on
  /\ owns' = owns \cup sales
  /\ purse' = [p \in Participant |-> purse[p] - Paid(p, sales)]
  /\ \A p \in Participant : purse'[p] >= 0

\* A round, or the draft that ends the mercato.
Settle ==
  /\ stage # "created"
  /\ stage' \in {stage, "running"}
  /\ Sell(owns' \ owns)

MarketSpec == MarketInit /\ [][OpenMarket \/ Settle]_marketVars

=============================================================================
