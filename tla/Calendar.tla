------------------------------ MODULE Calendar ------------------------------
(***************************************************************************)
(* The fixture list of a league: src/mpg/services/calendar.py, pure        *)
(* functions of the participants in the order of their ids.                *)
(***************************************************************************)
EXTENDS Integers, Sequences

\* A slip: the circle does not turn.
Standing(ids, w) == ids

\* The circle in week w, from 0: the first id is held fixed, the rest rotate.
Circle(ids, w) ==
  [k \in DOMAIN ids |->
     IF k = 1 THEN ids[1] ELSE ids[2 + ((k - 2 - w) % (Len(ids) - 1))]]

\* Its k-th against its k-th from the end; the ground alternates.
Pair(order, w, k) ==
  LET one == order[k]
      other == order[Len(order) + 1 - k]
  IN IF (w + k - 1) % 2 = 0 THEN <<one, other>> ELSE <<other, one>>

\* round_robin refuses an odd number of participants.
Schedulable(ids) == Len(ids) % 2 = 0

\* The weeks, each a sequence of pairs <<home, away>>.
round_robin(ids) ==
  [week \in 1..(Len(ids) - 1) |->
     [k \in 1..(Len(ids) \div 2) |-> Pair(Circle(ids, week - 1), week - 1, k)]]

\* full_calendar: the return leg is the first one mirrored.
full_calendar(ids, returnLegs) ==
  LET first == round_robin(ids)
      mirrored(week) == [k \in DOMAIN week |-> <<week[k][2], week[k][1]>>]
  IN IF ~returnLegs THEN first
     ELSE first \o [w \in DOMAIN first |-> mirrored(first[w])]

=============================================================================
