------------------------------ MODULE Sessions ------------------------------
(***************************************************************************)
(* Requests as database transactions: src/mpg/db/session.py.  A request    *)
(* reads, computes and writes in one READ COMMITTED transaction.  It is    *)
(* two steps here: what it read and decided (Begin), and its commit.       *)
(* Others commit in between.  One that is refused, or whose commit breaks  *)
(* a unique key, leaves nothing behind.                                    *)
(***************************************************************************)
EXTENDS Naturals, FiniteSets

CONSTANTS
  Sessions,    \* the requests that can be in flight at once
  MaxRequests  \* bound: requests of a season

ASSUME SessionsAssumption == IsFiniteSet(Sessions)

VARIABLES
  request,  \* what each session is doing
  handled   \* how many of the bounded requests were begun

sessionVars == <<request, handled>>

Idle == [kind |-> "idle"]

Busy(kind) == {s \in Sessions : request[s].kind = kind}

Begin(s, r) ==
  /\ request[s] = Idle
  /\ request' = [request EXCEPT ![s] = r]

End(s) == request' = [request EXCEPT ![s] = Idle] /\ handled' = handled

SessionInit == request = [s \in Sessions |-> Idle] /\ handled = 0

=============================================================================
