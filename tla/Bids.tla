-------------------------------- MODULE Bids --------------------------------
(***************************************************************************)
(* How a sheet of bids is filled, bid after bid, by the three authors the  *)
(* program has: the random bids of a participant who never validated       *)
(* (src/mpg/mercato/random_bids.py), the benchmark's baseline and a        *)
(* language model whose answer is clamped (src/mpg/bench/agents.py,        *)
(* src/mpg/bench/validation.py).  Rounds follow each other: what is won is *)
(* paid and the participant bids again with what is left.                  *)
(*                                                                         *)
(* Players are numbers, in the order of their ids.  How the market awards  *)
(* the players and how the draft completes a squad are modelled by what    *)
(* they may leave a participant with; Mercato has the detail.              *)
(***************************************************************************)
EXTENDS Squads

CONSTANTS
  Players,    \* the eligible pool
  UltraOf,    \* their ultra positions
  Quotation,  \* their quotations
  Quota,      \* MERCATO_POSITION_QUOTA, by line
  MaxBids,    \* MAX_BIDS_PER_ROUND
  Shortlist,  \* SHORTLIST
  BaseRounds, \* MERCATO_BASE_ROUNDS
  Budgets,    \* the budgets at the start
  Amounts,    \* the amounts a model may answer
  Answers     \* bound: bids in a model's answer

ASSUME BidsAssumption ==
  /\ Players \subseteq Nat /\ IsFiniteSet(Players)
  /\ \A p \in Players : line_of(UltraOf[p]) \in Lines /\ Quotation[p] \in Nat \ {0}
  /\ \A l \in Lines : Quota[l] \in Nat
  /\ {MaxBids, Shortlist, BaseRounds, Answers} \subseteq Nat \ {0}
  /\ Budgets \subseteq Nat /\ Amounts \subseteq Int

VARIABLES
  author,   \* who fills the sheet: random, heuristic, model, nobody
  round,    \* round.number
  budget,   \* participant.budget
  squad,    \* his players
  free,     \* the players nobody owns
  sheet,    \* the bids so far, [player, amount]
  asked,    \* deficit: how many players of each line are still bid for
  turns     \* turns of the author's loop that are left

bidVars == <<author, round, budget, squad, free, sheet, asked, turns>>

LineOf(p) == line_of(UltraOf[p])

FLOOR_PRICE == 1

Held(s, l) == Cardinality({p \in s : LineOf(p) = l})

\* quota_deficit
Deficit(s) == [l \in Lines |-> Max({0, Quota[l] - Held(s, l)})]

Missing == SumFunction(Deficit(squad))

Offered == [i \in DOMAIN sheet |-> sheet[i].amount]

Committed == SumFunction(Offered)

Bid(p) == {i \in DOMAIN sheet : sheet[i].player = p}

Envelope == budget \div Max({1, BaseRounds - round + 1})

Third == Max({1, (Missing + 2) \div 3})

\* round(q * (100 + percent) / 100), to the even integer at a tie.
Premium(q, percent) ==
  LET n == q * (100 + percent)
      low == n \div 100
  IN IF n % 100 > 50 \/ (n % 100 = 50 /\ low % 2 = 1) THEN low + 1 ELSE low

Place(p, amount) ==
  /\ sheet' = Append(sheet, [player |-> p, amount |-> amount])
  /\ turns' = turns - 1
  /\ asked' = [asked EXCEPT ![LineOf(p)] = Max({0, @ - 1})]
  /\ UNCHANGED <<author, round, budget, squad, free>>

\* Nothing affordable on that line: it is not asked for again this round.
GiveUp(l) ==
  /\ asked' = [asked EXCEPT ![l] = 0]
  /\ turns' = turns - 1
  /\ UNCHANGED <<author, round, budget, squad, free, sheet>>

Open(who, n) ==
  /\ author' = who
  /\ sheet' = <<>>
  /\ asked' = Deficit(squad)
  /\ turns' = n
  /\ UNCHANGED <<round, budget, squad, free>>

Worst == {l \in Lines : asked[l] > 0 /\ \A m \in Lines : asked[m] <= asked[l]}

-----------------------------------------------------------------------------
(* Random bids *)

StartRandom ==
  /\ author = "nobody" /\ round <= BaseRounds
  /\ Missing > 0 /\ budget >= FLOOR_PRICE
  /\ Open("random", Third)

\* A slip: nothing is kept for the rest of the squad.
NoReserve == Min({Envelope - Committed, budget - Committed})

\* What a random bid may cost: the envelope of the round, and what completing
\* the squad at the floor price leaves.
RandomCeiling ==
  Min({Envelope - Committed,
       budget - Committed - (Missing - Len(sheet) - 1) * FLOOR_PRICE})

Affordable(l, ceiling) ==
  {p \in free : LineOf(p) = l /\ Bid(p) = {} /\ Quotation[p] <= ceiling}

\* The best-quoted ones, ties in the order of the ids.
ShortlistOf(s) ==
  {p \in s : Cardinality({q \in s : \/ Quotation[q] > Quotation[p]
                                    \/ Quotation[q] = Quotation[p] /\ q < p}) < Shortlist}

RandomBid ==
  /\ author = "random" /\ turns > 0 /\ RandomCeiling >= FLOOR_PRICE
  /\ \E l \in Worst : \E p \in ShortlistOf(Affordable(l, RandomCeiling)) :
       \E x \in Quotation[p]..Premium(Quotation[p], 20) :
         Place(p, Max({Quotation[p], Min({RandomCeiling, x})}))

RandomGivesUp ==
  /\ author = "random" /\ turns > 0 /\ RandomCeiling >= FLOOR_PRICE
  /\ \E l \in Worst : Affordable(l, RandomCeiling) = {} /\ GiveUp(l)

RandomDone ==
  author = "random" /\ (turns = 0 \/ Worst = {} \/ RandomCeiling < FLOOR_PRICE)

-----------------------------------------------------------------------------
(* The baseline *)

StartHeuristic ==
  /\ author = "nobody" /\ round <= BaseRounds
  /\ Missing > 0 /\ budget > 0
  /\ Open("heuristic", Min({MaxBids, Third}))

HeuristicCeiling ==
  Min({Envelope - Committed, budget - Committed - Max({0, Missing - Len(sheet) - 1})})

\* Ties between lines go to the first of their letters: A, D, G, M.
Alphabetical == [l \in Lines |-> CASE l = A -> 1 [] l = D -> 2 [] l = G -> 3 [] l = M -> 4]

FirstWorst == {l \in Worst : \A m \in Worst : Alphabetical[l] <= Alphabetical[m]}

\* Availability comes first in its order: any affordable player may lead it.
HeuristicBid ==
  /\ author = "heuristic" /\ turns > 0
  /\ \E l \in FirstWorst : \E p \in Affordable(l, HeuristicCeiling) :
       Place(p, Min({HeuristicCeiling, Max({Quotation[p], Premium(Quotation[p], 15)})}))

HeuristicGivesUp ==
  /\ author = "heuristic" /\ turns > 0
  /\ \E l \in FirstWorst : Affordable(l, HeuristicCeiling) = {} /\ GiveUp(l)

HeuristicDone == author = "heuristic" /\ (turns = 0 \/ Worst = {})

-----------------------------------------------------------------------------
(* A model's answer, clamped *)

StartModel ==
  /\ author = "nobody" /\ round <= BaseRounds
  /\ Missing > 0 /\ budget > 0
  /\ Open("model", Answers)

\* A slip: the budget is checked before the amount is raised.
FitsUnraised(p, x) ==
  /\ Len(sheet) < MaxBids
  /\ p \in free /\ Bid(p) = {}
  /\ Committed + x + Max({0, Missing - Len(sheet) - 1}) <= budget

\* The answered bids clamp_bids keeps.
Keeps(p, x) ==
  /\ Len(sheet) < MaxBids
  /\ p \in free /\ Bid(p) = {}
  /\ Committed + Max({x, Quotation[p]}) + Max({0, Missing - Len(sheet) - 1}) <= budget

\* One bid of the answer: kept, its amount raised to the quotation, or dropped.
ModelBid ==
  /\ author = "model" /\ turns > 0
  /\ \E p \in Players, x \in Amounts :
       \/ Keeps(p, x) /\ Place(p, Max({x, Quotation[p]}))
       \/ ~Keeps(p, x) /\ turns' = turns - 1
            /\ UNCHANGED <<author, round, budget, squad, free, sheet, asked>>

\* Nothing usable, no answer or an answer that does not parse: the baseline bids.
FallBack ==
  /\ author = "model" /\ sheet = <<>>
  /\ Open("heuristic", Min({MaxBids, Third}))

ModelDone == author = "model" /\ sheet # <<>>

-----------------------------------------------------------------------------
(* The round is resolved, and the mercato closed *)

Done == RandomDone \/ HeuristicDone \/ ModelDone

BackToNobody == author' = "nobody" /\ sheet' = <<>> /\ turns' = 0
                  /\ asked' = [l \in Lines |-> 0]

\* The bids that win are paid; the rivals win any of the other players.
Settle ==
  /\ Done
  /\ \E won \in SUBSET DOMAIN sheet :
       LET bought == {sheet[i].player : i \in won}
       IN /\ budget' = budget - SumFunctionOnSet(Offered, won)
          /\ squad' = squad \cup bought
          /\ free' \in SUBSET (free \ bought)
  /\ round' = round + 1
  /\ BackToNobody

\* A round without a sheet: nothing to buy, or nothing to buy with.
PassRound ==
  /\ author = "nobody" /\ round <= BaseRounds
  /\ Missing = 0 \/ budget = 0
  /\ round' = round + 1
  /\ UNCHANGED <<author, budget, squad, free, sheet, asked, turns>>

BidInit ==
  /\ author = "nobody" /\ sheet = <<>> /\ turns = 0
  /\ asked = [l \in Lines |-> 0]
  /\ round = 1
  /\ budget \in Budgets
  /\ squad = {} /\ free = Players

BidNext ==
  \/ StartRandom \/ RandomBid \/ RandomGivesUp
  \/ StartHeuristic \/ HeuristicBid \/ HeuristicGivesUp
  \/ StartModel \/ ModelBid \/ FallBack
  \/ Settle \/ PassRound

-----------------------------------------------------------------------------
(* Properties *)

\* What the squad still lacks, line by line, if every bid of the sheet wins.
StillLacking ==
  LET bought(l) == Cardinality({i \in DOMAIN sheet : LineOf(sheet[i].player) = l})
  IN SumFunction([l \in Lines |-> Max({0, Deficit(squad)[l] - bought(l)})])

\* random_bids.py:5-6 and the comments of the other two: whatever wins, the
\* rest of the squad can still be bought at the floor price.  A model may bid on
\* lines it needs nobody in, and clamp_bids counts such a bid as a place
\* filled: its reserve is only kept for the number of players.
ReserveKept ==
  sheet # <<>> =>
    Committed + (IF author = "model" THEN Max({0, Missing - Len(sheet)})
                 ELSE StillLacking) * FLOOR_PRICE <= budget

\* bench/runner.py:177: the round accepts the sheet as it is, every bid on a
\* free player, no player twice, none under its quotation, all payable at once.
SheetAccepted ==
  /\ \A i \in DOMAIN sheet : /\ sheet[i].player \in free
                             /\ sheet[i].amount >= Quotation[sheet[i].player]
                             /\ Bid(sheet[i].player) = {i}
  /\ Committed <= budget
  /\ Len(sheet) <= MaxBids

=============================================================================
