---------------------------- MODULE SeasonProofs ----------------------------
(***************************************************************************)
(* What the requests of a season cannot do to each other.  Every invariant *)
(* says of the tables and of the requests in flight together what the      *)
(* property says of the tables alone: a commit then only moves a row from  *)
(* the one to the other.                                                   *)
(***************************************************************************)
EXTENDS Season, Sums, SequenceTheorems

\* What is known of a lineup being saved.
IsSave(r) == DOMAIN r = {"kind", "user", "week", "sheet", "created", "overtaken"}

\* Every session has a request, if only an idle one.
Served ==
  /\ request = [s \in Sessions |-> request[s]]
  /\ \A s \in Sessions : request[s].kind = "save" => IsSave(request[s])

\* What a request that begins does to the sessions.
LEMMA BeginStep ==
  ASSUME Served, NEW s \in Sessions, NEW r, Begin(s, r), r.kind = "save" => IsSave(r)
  PROVE  /\ Served' /\ request[s] = Idle /\ request'[s] = r
         /\ \A t \in Sessions \ {s} : request'[t] = request[t]
  BY DEF Served, Begin

\* What one that ends does.
LEMMA EndStep ==
  ASSUME Served, NEW s \in Sessions, End(s)
  PROVE  /\ Served' /\ request'[s] = Idle
         /\ \A t \in Sessions \ {s} : request'[t] = request[t]
  BY DEF Served, End, Idle

\* A save that was overtaken writes what it would have written.
LEMMA OvertakenSave ==
  ASSUME NEW r, IsSave(r)
  PROVE  LET x == [r EXCEPT !.overtaken = TRUE]
         IN /\ IsSave(x) /\ x.kind = r.kind /\ x.overtaken
            /\ x.user = r.user /\ x.week = r.week /\ x.sheet = r.sheet
  BY DEF IsSave

\* A save that commits overtakes others, and they stay the saves they were.
LEMMA CommitSaveStep ==
  ASSUME Served, NEW s \in Sessions, CommitSave(s)
  PROVE  /\ Served' /\ request'[s] = Idle
         /\ \A t \in Sessions \ {s} :
              \/ request'[t] = request[t]
              \/ /\ request[t].kind = "save" /\ request[t].user = request[s].user
                 /\ request[t].week = request[s].week
                 /\ request'[t] = [request[t] EXCEPT !.overtaken = TRUE]
                 /\ request'[t].kind = "save" /\ request'[t].overtaken
                 /\ request'[t].user = request[t].user /\ request'[t].week = request[t].week
                 /\ request'[t].sheet = request[t].sheet
<1>1. /\ request' = [t \in Sessions |-> request'[t]] /\ request'[s] = Idle
      /\ \A t \in Sessions \ {s} :
           \/ request'[t] = request[t]
           \/ /\ request[t].kind = "save" /\ request[t].user = request[s].user
              /\ request[t].week = request[s].week
              /\ request'[t] = [request[t] EXCEPT !.overtaken = TRUE]
  BY DEF Served, CommitSave, Overtake
<1>2. \A t \in Sessions : request[t].kind = "save" => IsSave(request[t])
  BY DEF Served
<1>3. \A t \in Sessions \ {s} :
        /\ request'[t].kind = "save" => IsSave(request'[t])
        /\ \/ request'[t] = request[t]
           \/ /\ request[t].kind = "save" /\ request[t].user = request[s].user
              /\ request[t].week = request[s].week
              /\ request'[t] = [request[t] EXCEPT !.overtaken = TRUE]
              /\ request'[t].kind = "save" /\ request'[t].overtaken
              /\ request'[t].user = request[t].user /\ request'[t].week = request[t].week
              /\ request'[t].sheet = request[t].sheet
  <2> SUFFICES ASSUME NEW t \in Sessions \ {s}, request'[t] # request[t]
               PROVE  LET x == [request[t] EXCEPT !.overtaken = TRUE]
                      IN /\ request[t].kind = "save" /\ request[t].user = request[s].user
                         /\ request[t].week = request[s].week
                         /\ request'[t] = x /\ IsSave(x) /\ x.kind = "save" /\ x.overtaken
                         /\ x.user = request[t].user /\ x.week = request[t].week
                         /\ x.sheet = request[t].sheet
    BY <1>2
  <2>1. QED
    BY <1>1, <1>2, OvertakenSave
<1>4. QED
  BY <1>1, <1>3 DEF Served, Idle

-----------------------------------------------------------------------------
(* Who is a member *)

\* The requests to join in flight.
Joining == {s \in Sessions : request[s].kind = "join"}

\* The rows of a joining user: one flushed has its id, and nobody else's.
Flushed ==
  /\ \A s \in Joining : request[s].flushed => request[s].user \in ToSet(ids) \ ToSet(members)
  /\ \A s, t \in Joining :
       request[s].flushed /\ request[t].flushed /\ s # t => request[s].user # request[t].user

\* Every member has an id of its own, the creator the first.
Numbered ==
  /\ ids \in Seq(Users) /\ ids # <<>> /\ IsInjective(ids)
  /\ members \in Seq(Users) /\ members # <<>> /\ IsInjective(members)
  /\ ids[1] = Creator /\ members[1] = Creator
  /\ ToSet(members) \subseteq ToSet(ids)

\* A request to join was let in while there was a place, which others in flight
\* may take: the members and the requests together outgrow the league by no more
\* than the requests there can be.
Roster ==
  /\ Served
  /\ size \in Sizes
  /\ Numbered
  /\ Flushed
  /\ Len(members) + Cardinality(Joining) <= size + Cardinality(Sessions) - 1
  /\ \A s \in Joining : request[s].user \in Users

\* Sets of sessions are finite, and no larger than that of all of them.
LEMMA SessionSets ==
  ASSUME NEW S, S \subseteq Sessions
  PROVE  IsFiniteSet(S) /\ Cardinality(S) \in Nat /\ Cardinality(S) <= Cardinality(Sessions)
         /\ Cardinality(Sessions) \in Nat
  BY SessionsAssumption, FS_Subset, FS_CardinalityType DEF SessionsAssumption

\* A league begins with its creator.
LEMMA RosterInit == Init => Roster
<1> SUFFICES ASSUME Init PROVE Roster
  OBVIOUS
<1>1. /\ Served /\ size \in Sizes /\ members = <<Creator>> /\ ids = <<Creator>>
      /\ Joining = {}
  BY DEF Init, SessionInit, LeagueInit, Served, Joining, Idle
<1>2. Cardinality({}) = 0 /\ Cardinality(Sessions) \in Nat /\ size \in Nat /\ size >= 2
  BY <1>1, SessionSets, FS_EmptySet, LeaguesAssumption DEF LeaguesAssumption
<1>3. /\ <<Creator>> \in Seq(Users) /\ Len(<<Creator>>) = 1 /\ <<Creator>> # <<>>
      /\ IsInjective(<<Creator>>) /\ <<Creator>>[1] = Creator
  BY LeaguesAssumption DEF LeaguesAssumption, IsInjective
<1>4. Numbered /\ Flushed
  BY <1>1, <1>3 DEF Numbered, Flushed
<1>5. QED
  BY <1>1, <1>2, <1>3, <1>4 DEF Roster

\* A step that leaves the members and the requests to join alone.
LEMMA RosterUntouched ==
  ASSUME Roster, Served', UNCHANGED <<size, members, ids>>,
         \A s \in Sessions : \/ request'[s] = request[s]
                              \/ /\ request[s].kind # "join"
                                 /\ request'[s].kind # "join"
  PROVE  Roster'
<1>1. Joining' = Joining /\ \A s \in Joining : request'[s] = request[s]
  BY DEF Joining
<1>2. QED
  BY <1>1 DEF Roster, Numbered, Flushed

\* Beginning a request that neither joins nor saves leaves the members alone.
LEMMA RosterBegin ==
  ASSUME Roster, NEW s \in Sessions, NEW r, Begin(s, r), r.kind \notin {"join", "save"},
         UNCHANGED <<size, members, ids>>
  PROVE  Roster'
<1>1. /\ Served' /\ request[s].kind # "join" /\ request'[s].kind # "join"
      /\ \A t \in Sessions \ {s} : request'[t] = request[t]
  BY BeginStep DEF Roster, Idle
<1>2. QED
  BY <1>1, RosterUntouched

\* So does the end of a request that is not a join.
LEMMA RosterEnd ==
  ASSUME Roster, NEW s \in Sessions, End(s), request[s].kind # "join",
         UNCHANGED <<size, members, ids>>
  PROVE  Roster'
<1>1. /\ Served' /\ request'[s].kind # "join"
      /\ \A t \in Sessions \ {s} : request'[t] = request[t]
  BY EndStep DEF Roster, Idle
<1>2. QED
  BY <1>1, RosterUntouched

\* A join begins with a league that is not full, as it sees it.
LEMMA RosterBeginJoin ==
  ASSUME Roster, NEW s \in Sessions, NEW u \in Users, BeginJoin(s, u)
  PROVE  Roster'
<1>1. /\ Served' /\ request[s].kind # "join" /\ request'[s].kind = "join"
      /\ request'[s].user = u /\ ~request'[s].flushed
      /\ \A t \in Sessions \ {s} : request'[t] = request[t]
      /\ UNCHANGED <<size, members, ids>> /\ Len(members) < size
  BY BeginStep DEF Roster, BeginJoin, Join, Idle, leagueVars
<1>2. Joining' = Joining \cup {s} /\ s \notin Joining
  BY <1>1 DEF Joining
<1>3. Cardinality(Joining') <= Cardinality(Sessions) /\ Cardinality(Joining') \in Nat
      /\ Cardinality(Sessions) \in Nat
  BY SessionSets DEF Joining
<1>4. Len(members) \in Nat /\ size \in Nat
  BY LeaguesAssumption DEF LeaguesAssumption, Roster, Numbered
<1>5. \A t \in Joining' : request'[t].user \in Users
  BY <1>1, <1>2 DEF Roster, Joining
<1>6. \A t \in Joining' : request'[t].flushed => t \in Joining /\ request'[t] = request[t]
  BY <1>1, <1>2 DEF Joining
<1>7. Numbered' /\ Flushed'
  BY <1>1, <1>6 DEF Roster, Numbered, Flushed
<1>8. QED
  BY <1>1, <1>3, <1>4, <1>5, <1>7 DEF Roster

\* A sequence without repetition takes one more.
LEMMA AppendsNew ==
  ASSUME NEW S, NEW list \in Seq(S), IsInjective(list), NEW u \in S, u \notin ToSet(list)
  PROVE  LET new == Append(list, u)
         IN /\ new \in Seq(S) /\ new # <<>> /\ IsInjective(new)
            /\ Len(new) = Len(list) + 1 /\ new[Len(list) + 1] = u
            /\ \A i \in 1..Len(list) : new[i] = list[i]
            /\ ToSet(new) = ToSet(list) \cup {u}
<1>1. \A i \in 1..Len(list) : list[i] # u
  BY DEF ToSet
<1>2. QED
  BY <1>1 DEF ToSet, IsInjective

\* A join whose row is flushed stays the join of its user.
LEMMA FlushStep ==
  ASSUME Served, NEW s \in Sessions, FlushJoin(s)
  PROVE  /\ Served' /\ request'[s].kind = "join" /\ request'[s].user = request[s].user
         /\ request'[s].flushed
         /\ \A t \in Sessions \ {s} : request'[t] = request[t]
<1> DEFINE u == request[s].user
<1>1. Join(u, TRUE).kind = "join" /\ Join(u, TRUE).user = u /\ Join(u, TRUE).flushed
  BY DEF Join
<1>2. request = [t \in Sessions |-> request[t]]
  BY DEF Served
<1>3. request' = [request EXCEPT ![s] = Join(u, TRUE)]
  BY DEF FlushJoin
<1> HIDE DEF u
<1>4. /\ request' = [t \in Sessions |-> request'[t]] /\ request'[s] = Join(u, TRUE)
      /\ \A t \in Sessions \ {s} : request'[t] = request[t]
  BY <1>2, <1>3
<1>5. Served'
  BY <1>1, <1>4 DEF Served
<1>6. QED
  BY <1>1, <1>4, <1>5 DEF u

\* A row that is flushed takes the next id, and no other.
LEMMA RosterFlushJoin ==
  ASSUME Roster, NEW s \in Sessions, FlushJoin(s)
  PROVE  Roster'
<1> DEFINE u == request[s].user
<1>1. /\ s \in Joining /\ u \in Users /\ u \notin ToSet(ids) /\ ids' = Append(ids, u)
      /\ UNCHANGED <<size, members>>
  BY DEF FlushJoin, Roster, Joining
<1>2. /\ Served' /\ request'[s].kind = "join" /\ request'[s].user = u
      /\ \A t \in Sessions \ {s} : request'[t] = request[t]
  BY FlushStep DEF Roster
<1>3. Joining' = Joining
  <2>1. request[s].kind = "join" /\ request'[s].kind = "join"
    BY <1>1, <1>2 DEF Joining
  <2>2. \A t \in Sessions : request'[t].kind = "join" <=> request[t].kind = "join"
    BY <1>2, <2>1
  <2>3. QED
    BY <2>2 DEF Joining
<1>4. Served'
  BY <1>2
<1>5. Numbered' /\ ToSet(ids') = ToSet(ids) \cup {u}
  <2>1. ids \in Seq(Users) /\ IsInjective(ids) /\ ids # <<>>
    BY DEF Roster, Numbered
  <2>2. /\ ids' \in Seq(Users) /\ ids' # <<>> /\ IsInjective(ids')
        /\ ids'[1] = ids[1] /\ ToSet(ids') = ToSet(ids) \cup {u}
    BY <1>1, <2>1, AppendsNew
  <2>3. QED
    BY <1>1, <2>2 DEF Roster, Numbered
<1>6. Flushed'
  <2>1. u \notin ToSet(members)
    BY <1>1 DEF Roster, Numbered
  <2>2. \A t \in Joining \ {s} : request[t].flushed => request[t].user # u
    BY <1>1 DEF Roster, Flushed
  <2> HIDE DEF u
  <2>3. QED
    BY <1>1, <1>2, <1>3, <1>5, <2>1, <2>2 DEF Roster, Flushed, Joining
<1>7. \A t \in Joining' : request'[t].user \in Users
  BY <1>1, <1>2, <1>3 DEF Roster, Joining
<1>8. QED
  BY <1>1, <1>3, <1>4, <1>5, <1>6, <1>7 DEF Roster

\* A join that ends, and adds its user or nobody, is one join less in flight.
LEMMA RosterJoinEnds ==
  ASSUME Roster, NEW s \in Joining, End(s), UNCHANGED <<size, ids>>,
         \/ members' = members
         \/ request[s].flushed /\ members' = Append(members, request[s].user)
  PROVE  Roster'
<1> DEFINE u == request[s].user
<1>1. /\ Served' /\ request'[s] = Idle /\ request[s].kind = "join" /\ s \in Sessions
      /\ \A t \in Sessions \ {s} : request'[t] = request[t]
  BY EndStep DEF Roster, Joining
<1>2. Joining' = Joining \ {s}
  BY <1>1 DEF Joining, Idle
<1>3. /\ IsFiniteSet(Joining) /\ Cardinality(Joining) \in Nat
      /\ Cardinality(Joining') = Cardinality(Joining) - 1
  BY <1>2, SessionSets, FS_RemoveElement DEF Joining
<1>4. \A t \in Joining' : /\ t \in Joining /\ t # s /\ request'[t] = request[t]
  BY <1>1, <1>2 DEF Joining
<1>5. Numbered' /\ Flushed' /\ Len(members') <= Len(members) + 1
  <2>1. CASE members' = members
    <3>1. Len(members) \in Nat
      BY DEF Roster, Numbered
    <3>2. QED
      BY <1>4, <2>1, <3>1 DEF Roster, Numbered, Flushed
  <2>2. CASE request[s].flushed /\ members' = Append(members, u)
    <3>1. u \in Users /\ u \in ToSet(ids) /\ u \notin ToSet(members)
      BY <2>2 DEF Roster, Flushed
    <3>2. members \in Seq(Users) /\ IsInjective(members) /\ members # <<>>
      BY DEF Roster, Numbered
    <3> HIDE DEF u
    <3>3. /\ members' \in Seq(Users) /\ members' # <<>> /\ IsInjective(members')
          /\ members'[1] = members[1] /\ ToSet(members') = ToSet(members) \cup {u}
          /\ Len(members') <= Len(members) + 1
      BY <2>2, <3>1, <3>2, AppendsNew
    <3>4. Numbered'
      BY <3>1, <3>3 DEF Roster, Numbered
    <3>5. \A t \in Joining' : request'[t].flushed => request'[t].user # u
      BY <1>4, <2>2 DEF Roster, Flushed, u
    <3>6. Flushed'
      BY <1>4, <3>3, <3>5 DEF Roster, Flushed
    <3>7. QED
      BY <3>3, <3>4, <3>6
  <2>3. QED
    BY <2>1, <2>2
<1>6. Cardinality(Sessions) \in Nat /\ size \in Nat /\ Len(members) \in Nat /\ Len(members') \in Nat
  BY <1>5, SessionSets, LeaguesAssumption DEF LeaguesAssumption, Roster, Numbered
<1>7. \A t \in Joining' : request'[t].user \in Users
  BY <1>4 DEF Roster
<1>8. QED
  BY <1>1, <1>3, <1>5, <1>6, <1>7 DEF Roster

\* Every request about the league keeps its members in order.
LEMMA RosterLeague == Roster /\ LeagueNext => Roster'
<1> SUFFICES ASSUME Roster, LeagueNext PROVE Roster'
  OBVIOUS
<1>1. ASSUME NEW s \in Sessions, NEW u \in Users, BeginJoin(s, u) PROVE Roster'
  BY <1>1, RosterBeginJoin
<1>2. ASSUME NEW s \in Sessions, FlushJoin(s) \/ JoinRefused(s) \/ CommitJoin(s)
      PROVE  Roster'
  BY <1>2, RosterFlushJoin, RosterJoinEnds DEF JoinRefused, CommitJoin, Joining, leagueVars
<1>3. ASSUME NEW s \in Sessions, BeginGenerate(s) \/ BeginOpenScreen(s) \/ BeginOpen(s)
      PROVE  Roster'
  <2>1. PICK r : Begin(s, r) /\ r.kind = "lay"
    BY <1>3 DEF BeginGenerate, BeginOpenScreen, BeginOpen
  <2>2. UNCHANGED <<size, members, ids>>
    BY <1>3 DEF BeginGenerate, BeginOpenScreen, BeginOpen, leagueVars
  <2>3. QED
    BY <2>1, <2>2, RosterBegin
<1>4. ASSUME NEW s \in Sessions, CommitLay(s) PROVE Roster'
  BY <1>4, RosterEnd DEF CommitLay
<1>5. CASE MercatoCloses
  <2>1. UNCHANGED <<size, members, ids, request>>
    BY <1>5 DEF MercatoCloses, sessionVars
  <2>2. Served'
    BY <2>1 DEF Roster, Served
  <2>3. QED
    BY <2>1, <2>2, RosterUntouched
<1>6. QED
  BY <1>1, <1>2, <1>3, <1>4, <1>5 DEF LeagueNext

-----------------------------------------------------------------------------
(* The requests of a season *)

\* What managers, admin and ingestion do leaves the league's beginnings alone.
LEMMA SeasonStep ==
  ASSUME Served, LineupNext \/ WeekNext
  PROVE  /\ Served' /\ UNCHANGED <<size, status, members, ids>>
         /\ \A s \in Sessions :
              \/ request'[s] = request[s]
              \/ {request[s].kind, request'[s].kind} \cap {"join", "lay"} = {}
<1> DEFINE Kept ==
      /\ Served' /\ UNCHANGED <<size, status, members, ids>>
      /\ \A s \in Sessions :
           \/ request'[s] = request[s]
           \/ {request[s].kind, request'[s].kind} \cap {"join", "lay"} = {}
<1>1. ASSUME NEW s \in Sessions, NEW r, Begin(s, r), r.kind \notin {"join", "lay"},
             r.kind = "save" => IsSave(r), UNCHANGED <<size, status, members, ids>>
      PROVE  Kept
  BY <1>1, BeginStep DEF Idle
<1>2. ASSUME NEW s \in Sessions, End(s), request[s].kind \notin {"join", "lay"},
             UNCHANGED <<size, status, members, ids>>
      PROVE  Kept
  BY <1>2, EndStep DEF Idle
<1>3. ASSUME NEW s \in Sessions, CommitSave(s)
      PROVE  Kept
  <2>1. UNCHANGED <<size, status, members, ids>> /\ request[s].kind = "save"
    BY <1>3 DEF CommitSave, leagueVars
  <2>2. \A t \in Sessions \ {s} :
          \/ request'[t] = request[t]
          \/ request[t].kind = "save" /\ request'[t].kind = "save"
    BY <1>3, CommitSaveStep
  <2>3. QED
    BY <2>1, <2>2, <1>3, CommitSaveStep DEF Idle
<1>4. CASE LineupNext
  <2>1. ASSUME NEW s \in Sessions, NEW u, NEW w, NEW sheet, BeginSave(s, u, w, sheet)
        PROVE  Kept
    <3>1. PICK r : Begin(s, r) /\ r.kind = "save" /\ IsSave(r)
      BY <2>1 DEF BeginSave, IsSave
    <3>2. QED
      BY <1>1, <2>1, <3>1 DEF BeginSave, leagueVars
  <2>2. ASSUME NEW s \in Sessions, NEW u, NEW w, NEW b, BeginPose(s, u, w, b)
        PROVE  Kept
    BY <1>1, <2>2 DEF BeginPose, leagueVars
  <2>3. ASSUME NEW s \in Sessions, CommitPose(s)
        PROVE  Kept
    BY <1>2, <2>3 DEF CommitPose, leagueVars
  <2>4. QED
    BY <1>3, <1>4, <2>1, <2>2, <2>3 DEF LineupNext
<1>5. CASE WeekNext
  <2>1. ASSUME NEW s \in Sessions, NEW w, BeginResolve(s, w)
        PROVE  Kept
    <3>1. PICK o : Begin(s, [kind |-> "resolve", outcome |-> o])
      BY <2>1 DEF BeginResolve
    <3>2. QED
      BY <1>1, <2>1, <3>1 DEF BeginResolve, leagueVars
  <2>2. ASSUME NEW s \in Sessions, NEW i, BeginReplay(s, i)
        PROVE  Kept
    <3>1. PICK o : Begin(s, [kind |-> "replay", outcome |-> o])
      BY <2>2 DEF BeginReplay
    <3>2. QED
      BY <1>1, <2>2, <3>1 DEF BeginReplay, leagueVars
  <2>3. ASSUME NEW s \in Sessions, NEW w, BeginRefresh(s, w)
        PROVE  Kept
    <3>1. PICK r : Begin(s, r) /\ r.kind = "refresh"
      BY <2>3 DEF BeginRefresh
    <3>2. QED
      BY <1>1, <2>3, <3>1 DEF BeginRefresh, leagueVars
  <2>4. ASSUME NEW s \in Sessions, CommitResults(s) \/ CommitRefresh(s) \/ RefreshFails(s)
        PROVE  Kept
    BY <1>2, <2>4 DEF CommitResults, CommitRefresh, RefreshFails, leagueVars
  <2>5. QED
    BY <1>5, <2>1, <2>2, <2>3, <2>4 DEF WeekNext
<1>6. QED
  BY <1>4, <1>5

\* Every step of a season does.
LEMMA RosterStep == Roster /\ [Next]_vars => Roster'
<1> SUFFICES ASSUME Roster, [Next]_vars PROVE Roster'
  OBVIOUS
<1>1. CASE LineupNext \/ WeekNext
  BY <1>1, SeasonStep, RosterUntouched DEF Roster
<1>2. CASE UNCHANGED vars
  <2>1. UNCHANGED <<size, members, ids, request>>
    BY <1>2 DEF vars, sessionVars, leagueVars
  <2>2. Served'
    BY <2>1 DEF Roster, Served
  <2>3. QED
    BY <2>1, <2>2, RosterUntouched
<1>3. QED
  BY <1>1, <1>2, RosterLeague DEF Next

-----------------------------------------------------------------------------
(* The order of the ids *)

\* Where u comes in the order, and a list of users in that order.
Place(order, u) == CHOOSE k \in DOMAIN order : order[k] = u

Before(order, list) ==
  [u \in ToSet(list) |-> {v \in ToSet(list) : Place(order, v) < Place(order, u)}]

Ranked(before, list) ==
  [k \in DOMAIN list |-> CHOOSE u \in ToSet(list) : Cardinality(before[u]) = k - 1]

InOrder(order, list) == Ranked(Before(order, list), list)

\* What by_id says of the ids there are.
LEMMA SortedByIds == ASSUME NEW list PROVE by_id(list) = InOrder(ids, list)
  BY DEF by_id, InOrder, Before, Ranked, Id, Place

\* Users in an order have places, each his own.
LEMMA Places ==
  ASSUME NEW S, NEW order \in Seq(S), IsInjective(order)
  PROVE  /\ \A k \in DOMAIN order : Place(order, order[k]) = k
         /\ \A u \in ToSet(order) : /\ Place(order, u) \in DOMAIN order
                                    /\ order[Place(order, u)] = u
         /\ DOMAIN order = 1..Len(order) /\ Len(order) \in Nat
<1>1. \A u \in ToSet(order) : /\ Place(order, u) \in DOMAIN order
                              /\ order[Place(order, u)] = u
  BY DEF Place, ToSet
<1>2. \A k \in DOMAIN order : order[k] \in ToSet(order)
  BY DEF ToSet
<1>3. QED
  BY <1>1, <1>2 DEF IsInjective

\* A newcomer comes last and moves nobody.
LEMMA OrderStays ==
  ASSUME NEW S, NEW order \in Seq(S), IsInjective(order), NEW u \in S, u \notin ToSet(order),
         NEW list, ToSet(list) \subseteq ToSet(order)
  PROVE  InOrder(Append(order, u), list) = InOrder(order, list)
<1> DEFINE new == Append(order, u)
<1>1. /\ new \in Seq(S) /\ IsInjective(new)
      /\ Len(new) = Len(order) + 1 /\ \A i \in 1..Len(order) : new[i] = order[i]
  BY AppendsNew
<1> HIDE DEF new
<1>2. ASSUME NEW v \in ToSet(list) PROVE Place(new, v) = Place(order, v)
  <2>1. v \in ToSet(order)
    OBVIOUS
  <2>2. PICK k \in 1..Len(order) : order[k] = v
    BY <2>1, Places
  <2>3. k \in DOMAIN new /\ new[k] = v
    BY <1>1, <2>2
  <2>4. QED
    BY <1>1, <2>2, <2>3, Places
<1>3. Before(new, list) = Before(order, list)
  BY <1>2 DEF Before
<1>4. QED
  BY <1>3 DEF InOrder, new

\* A sequence without repetition has as many elements as it is long.
LEMMA ListSize ==
  ASSUME NEW S, NEW list \in Seq(S), IsInjective(list)
  PROVE  IsFiniteSet(ToSet(list)) /\ Cardinality(ToSet(list)) = Len(list)
<1> DEFINE n == Len(list)
<1>1. n \in Nat /\ DOMAIN list = 1..n /\ list \in [1..n -> ToSet(list)]
  BY DEF ToSet
<1>2. IsFiniteSet(1..n) /\ Cardinality(1..n) = n
  BY <1>1, FS_Interval
<1> HIDE DEF n
<1>3. list \in Injection(1..n, ToSet(list)) /\ list \in Surjection(1..n, ToSet(list))
  BY <1>1 DEF Injection, Surjection, IsInjective, ToSet
<1>4. QED
  BY <1>2, <1>3, FS_Surjection DEF n

\* In the order of their places everybody is listed, and the first is first.
LEMMA Listing ==
  ASSUME NEW S, NEW order \in Seq(S), IsInjective(order), NEW list \in Seq(S), IsInjective(list),
         ToSet(list) \subseteq ToSet(order)
  PROVE  LET sorted == InOrder(order, list)
         IN /\ sorted \in [1..Len(list) -> ToSet(list)]
            /\ \A i, j \in 1..Len(list) :
                 i < j => Place(order, sorted[i]) < Place(order, sorted[j])
            /\ list # <<>> /\ order[1] = list[1] => sorted[1] = list[1]
<1> DEFINE L == ToSet(list)
           n == Len(list)
           before == Before(order, list)
           sorted == InOrder(order, list)
<1>1. IsFiniteSet(L) /\ Cardinality(L) = n /\ n \in Nat /\ DOMAIN list = 1..n
  BY ListSize
<1>2. \A u, v \in L : /\ Place(order, u) \in Nat
                      /\ Place(order, u) = Place(order, v) => u = v
  BY Places
<1> HIDE DEF L, n
<1>3. TotallyOrdered(L, before)
  BY <1>2 DEF TotallyOrdered, Before, L
<1> HIDE DEF before
<1>4. \A i \in 1..n : \E u : {v \in L : 1 + Cardinality(before[v]) = i} = {u}
  <2>1. RankedOnce(L, before)
    BY <1>1, <1>3, OneAtEachRank
  <2>2. QED
    BY <1>1, <2>1 DEF RankedOnce
<1>5. \A u \in L : IsFiniteSet(before[u]) /\ Cardinality(before[u]) \in Nat
  <2>1. \A u \in L : before[u] \subseteq L
    BY <1>3 DEF TotallyOrdered
  <2>2. QED
    BY <1>1, <2>1, FS_Subset, FS_CardinalityType
<1>6. ASSUME NEW i \in 1..n
      PROVE  sorted[i] \in L /\ Cardinality(before[sorted[i]]) = i - 1
  <2>1. sorted[i] = CHOOSE u \in L : Cardinality(before[u]) = i - 1
    BY <1>1 DEF InOrder, Ranked, L, before
  <2> HIDE DEF sorted
  <2>2. \E u \in L : Cardinality(before[u]) = i - 1
    <3>1. PICK u : {v \in L : 1 + Cardinality(before[v]) = i} = {u}
      BY <1>4
    <3>2. u \in L /\ 1 + Cardinality(before[u]) = i
      BY <3>1
    <3>3. QED
      BY <1>5, <3>2
  <2>3. QED
    BY <2>1, <2>2
<1>7. sorted \in [1..n -> L]
  <2>1. sorted = [i \in DOMAIN sorted |-> sorted[i]] /\ DOMAIN sorted = 1..n
    BY <1>1 DEF InOrder, Ranked
  <2> HIDE DEF sorted
  <2>2. QED
    BY <1>6, <2>1
<1>8. ASSUME NEW i \in 1..n, NEW j \in 1..n, i < j
      PROVE  Place(order, sorted[i]) < Place(order, sorted[j])
  <2> DEFINE u == sorted[i]
             v == sorted[j]
  <2>1. /\ u \in L /\ Cardinality(before[u]) = i - 1
        /\ v \in L /\ Cardinality(before[v]) = j - 1
    BY <1>6
  <2> HIDE DEF u, v, sorted
  <2>2. ~(Place(order, v) <= Place(order, u))
    <3> SUFFICES ASSUME Place(order, v) <= Place(order, u) PROVE FALSE
      OBVIOUS
    <3>1. before[v] \subseteq before[u]
      BY <1>2, <2>1 DEF before, Before, L
    <3>2. Cardinality(before[v]) <= Cardinality(before[u])
      BY <1>5, <2>1, <3>1, FS_Subset
    <3>3. j - 1 <= i - 1
      BY <2>1, <3>2
    <3>4. QED
      BY <3>3, <1>1, <1>8
  <2>3. QED
    BY <1>2, <2>1, <2>2 DEF u, v
<1>9. ASSUME list # <<>>, order[1] = list[1]
      PROVE  sorted[1] = list[1]
  <2>1. 1 \in 1..n /\ list[1] \in L
    <3>1. Len(list) # 0
      BY <1>9
    <3>2. 1 \in 1..n
      BY <1>1, <3>1 DEF n
    <3>3. QED
      BY <1>1, <3>2 DEF L, ToSet
  <2>2. sorted[1] \in L /\ Cardinality(before[sorted[1]]) = 0
    <3> HIDE DEF sorted
    <3>1. sorted[1] \in L /\ Cardinality(before[sorted[1]]) = 1 - 1
      BY <1>6, <2>1 DEF sorted
    <3>2. QED
      BY <3>1
  <2> HIDE DEF sorted
  <2>3. before[sorted[1]] = {}
    BY <1>5, <2>2, FS_EmptySet
  <2>4. ~(Place(order, list[1]) < Place(order, sorted[1]))
    BY <2>1, <2>2, <2>3 DEF before, Before, L
  <2>5. 1 \in DOMAIN order
    BY <2>1, Places DEF L, ToSet
  <2>6. Place(order, list[1]) = 1
    BY <1>9, <2>5, Places
  <2>7. Place(order, sorted[1]) = 1
    BY <2>2, <2>4, <2>6, Places DEF L
  <2>8. QED
    BY <1>2, <2>1, <2>2, <2>6, <2>7
<1>10. QED
  BY <1>7, <1>8, <1>9 DEF L, n

-----------------------------------------------------------------------------
(* The fixtures *)

\* The rows for the first participants, some two of them at least.
Laid(rows) == \E n \in 2..Len(members) : rows = FixtureList(by_id(SubSeq(members, 1, n)))

\* The fixtures, and those a request in flight is about to lay out, are a
\* calendar of the first participants.
Fixtured ==
  /\ fixtures # <<>> => Laid(Plain(fixtures))
  /\ \A s \in Sessions : request[s].kind = "lay" =>
       request[s].rows = <<>> \/ Laid(request[s].rows)

\* The first row of a calendar: the first participant at home, in the first week.
LEMMA FirstRow ==
  ASSUME NEW S, NEW order \in Seq(S), Len(order) >= 2
  PROVE  LET rows == FixtureList(order)
         IN /\ \E m \in Nat \ {0} : DOMAIN rows = 1..m
            /\ rows[1].week = FirstGameWeek /\ rows[1].home = order[1]
            /\ Plain(rows) = rows
<1> DEFINE weeks == full_calendar(order, ReturnLegs)
           first == round_robin(order)
           matches == Len(order) \div 2
           last == Len(order) - 1
           row(w, k) == Row(FirstGameWeek + w, weeks[w + 1][k + 1])
           rows == FixtureList(order)
<1>1. /\ Len(order) \in Nat /\ matches \in Nat \ {0} /\ last \in Nat \ {0}
      /\ (1 - 1) \div matches = 0 /\ (1 - 1) % matches = 0
  <2>1. \A m \in Nat \ {0} : (1 - 1) \div m = 0 /\ (1 - 1) % m = 0
    OBVIOUS
  <2>2. \A n \in Nat : n >= 2 => n \div 2 \in Nat \ {0} /\ n - 1 \in Nat \ {0}
    OBVIOUS
  <2> HIDE DEF matches, last
  <2>3. Len(order) \in Nat
    OBVIOUS
  <2>4. matches \in Nat \ {0} /\ last \in Nat \ {0}
    BY <2>2, <2>3 DEF matches, last
  <2>5. QED
    BY <2>1, <2>3, <2>4
<1>2. /\ first = [w \in 1..last |-> first[w]]
      /\ first[1][1] = Pair(Circle(order, 0), 0, 1)
  BY <1>1 DEF round_robin
<1>3. Pair(Circle(order, 0), 0, 1)[1] = order[1]
  <2>1. Circle(order, 0)[1] = order[1]
    BY <1>1 DEF Circle
  <2>2. (0 + 1 - 1) % 2 = 0
    OBVIOUS
  <2>3. QED
    BY <2>1, <2>2 DEF Pair
<1>4. weeks = IF ReturnLegs THEN first \o [w \in DOMAIN first |-> [k \in DOMAIN first[w] |-> <<first[w][k][2], first[w][k][1]>>]]
              ELSE first
  BY DEF full_calendar
<1>5. Len(weeks) \in Nat \ {0} /\ weeks[1] = first[1]
  <2> HIDE DEF first, last
  <2> DEFINE mirror == [w \in 1..last |-> [k \in DOMAIN first[w] |-> <<first[w][k][2], first[w][k][1]>>]]
             all == {first[w] : w \in 1..last} \cup {mirror[w] : w \in 1..last}
  <2>1. \A w \in 1..last : first[w] \in all /\ mirror[w] \in all
    OBVIOUS
  <2>2. mirror = [w \in 1..last |-> mirror[w]]
    OBVIOUS
  <2>3. DOMAIN first = 1..last
    BY <1>2
  <2>4. weeks = IF ReturnLegs THEN first \o mirror ELSE first
    BY <1>4, <2>3
  <2> HIDE DEF mirror, all, weeks
  <2>5. first \in [1..last -> all] /\ mirror \in [1..last -> all]
    BY <1>2, <2>1, <2>2
  <2>6. first \in Seq(all) /\ mirror \in Seq(all) /\ Len(first) = last
    BY <1>1, <2>5, SeqDef, LenProperties
  <2>7. QED
    BY <1>1, <2>4, <2>6
<1>6. rows = [i \in 1..(Len(weeks) * matches) |->
                row((i - 1) \div matches, (i - 1) % matches)]
  BY DEF FixtureList
<1>7. Len(weeks) * matches \in Nat \ {0}
  BY <1>1, <1>5
<1>8. rows[1] = row(0, 0)
  <2> HIDE DEF weeks, matches, row, rows
  <2>1. 1 \in 1..(Len(weeks) * matches)
    BY <1>7
  <2>2. rows[1] = row((1 - 1) \div matches, (1 - 1) % matches)
    BY <1>6, <2>1
  <2>3. QED
    BY <1>1, <2>2
<1>9. row(0, 0) = Row(FirstGameWeek, first[1][1])
  BY <1>5, LeaguesAssumption DEF LeaguesAssumption
<1>10. rows[1].week = FirstGameWeek /\ rows[1].home = order[1]
  BY <1>2, <1>3, <1>8, <1>9 DEF Row
<1>11. Plain(rows) = rows
  <2>1. \A w, k : [row(w, k) EXCEPT !.result = Unplayed] = row(w, k)
    BY DEF Row
  <2> HIDE DEF weeks, matches, row, rows
  <2>2. \A i \in DOMAIN rows : [rows[i] EXCEPT !.result = Unplayed] = rows[i]
    BY <1>6, <2>1
  <2>3. QED
    BY <1>6, <2>2 DEF Plain
<1>12. \E m \in Nat \ {0} : DOMAIN rows = 1..m
  <2> HIDE DEF weeks, matches, row, rows
  <2>1. QED
    BY <1>6, <1>7
<1>13. QED
  BY <1>10, <1>11, <1>12

\* There are no fixtures in the beginning.
LEMMA FixturedInit == Init => Fixtured
  BY DEF Init, SessionInit, LeagueInit, Fixtured, Idle

\* One joins at a time, and is given an id at a time.
Enrols ==
  /\ members' = members \/ \E u \in Users : members' = Append(members, u)
  /\ ids' = ids \/ \E u \in Users \ ToSet(ids) : ids' = Append(ids, u)

\* The first members, and their ids.
LEMMA FirstMembers ==
  ASSUME Numbered, NEW n \in 1..Len(members)
  PROVE  LET list == SubSeq(members, 1, n)
         IN /\ list \in Seq(Users) /\ Len(list) = n /\ IsInjective(list)
            /\ list # <<>> /\ ids[1] = list[1] /\ list[1] = members[1]
            /\ ToSet(list) \subseteq ToSet(ids)
<1> DEFINE list == SubSeq(members, 1, n)
<1>1. members \in Seq(Users) /\ n \in Nat /\ n >= 1 /\ n <= Len(members) /\ Len(members) \in Nat
  BY DEF Numbered
<1>2. /\ list \in Seq(Users) /\ Len(list) = n
      /\ \A i \in 1..n : list[i] = members[i]
  BY <1>1
<1> HIDE DEF list
<1>3. DOMAIN list = 1..n /\ 1..n \subseteq DOMAIN members /\ 1 \in 1..n
  BY <1>1, <1>2
<1>4. ToSet(list) \subseteq ToSet(members)
  BY <1>2, <1>3 DEF ToSet
<1>5. QED
  BY <1>1, <1>2, <1>3, <1>4 DEF Numbered, IsInjective, list

\* Members only join at the end and keep their ids, so that the first of them
\* stay the first, and stay in the same order.
LEMMA LaidStays ==
  ASSUME Roster, NEW rows, Laid(rows), Enrols
  PROVE  Laid(rows)'
<1>1. PICK n \in 2..Len(members) : rows = FixtureList(by_id(SubSeq(members, 1, n)))
  BY DEF Laid
<1> DEFINE list == SubSeq(members, 1, n)
<1>2. n \in 2..Len(members') /\ SubSeq(members', 1, n) = list
  <2>1. members \in Seq(Users)
    BY DEF Roster, Numbered
  <2>2. CASE members' = members
    BY <2>2
  <2>3. ASSUME NEW u \in Users, members' = Append(members, u)
        PROVE  n \in 2..Len(members') /\ SubSeq(members', 1, n) = list
    BY <2>1, <2>3
  <2>4. QED
    BY <2>2, <2>3 DEF Enrols
<1>3. /\ list \in Seq(Users) /\ ToSet(list) \subseteq ToSet(ids)
      /\ ids \in Seq(Users) /\ IsInjective(ids)
  BY FirstMembers DEF Roster, Numbered
<1> HIDE DEF list
<1>4. InOrder(ids', list) = InOrder(ids, list)
  <2>1. CASE ids' = ids
    BY <2>1
  <2>2. ASSUME NEW u \in Users \ ToSet(ids), ids' = Append(ids, u)
        PROVE  InOrder(ids', list) = InOrder(ids, list)
    <3>1. InOrder(Append(ids, u), list) = InOrder(ids, list)
      BY <1>3, OrderStays
    <3>2. QED
      BY <2>2, <3>1
  <2>3. QED
    BY <2>1, <2>2 DEF Enrols
<1>5. by_id(list)' = by_id(list)
  <2>1. list' = list
    BY <1>2 DEF list
  <2>2. QED
    BY <1>4, <2>1 DEF by_id, InOrder, Before, Ranked, Id, Place
<1>6. rows = FixtureList(by_id(list))'
  <2>1. rows = FixtureList(by_id(list))
    BY <1>1 DEF list
  <2>2. QED
    BY <1>5, <2>1 DEF FixtureList
<1>7. QED
  BY <1>2, <1>6 DEF Laid, list

\* A step that changes no fixture but its result, and no request that lays them.
LEMMA FixturedUntouched ==
  ASSUME Roster, Fixtured, Enrols,
         \/ fixtures' = fixtures
         \/ Plain(fixtures)' = Plain(fixtures) /\ (fixtures' = <<>> <=> fixtures = <<>>),
         \A s \in Sessions : \/ request'[s] = request[s]
                             \/ request'[s].kind # "lay"
  PROVE  Fixtured'
<1>1. fixtures' # <<>> => fixtures # <<>> /\ Plain(fixtures)' = Plain(fixtures)
  BY DEF Plain
<1>2. fixtures' # <<>> => Laid(Plain(fixtures))'
  BY <1>1, LaidStays DEF Fixtured
<1>3. ASSUME NEW s \in Sessions, request'[s].kind = "lay"
      PROVE  (request[s].rows = <<>> \/ Laid(request[s].rows))'
  <2> DEFINE rows == request[s].rows
  <2>1. request'[s] = request[s]
    BY <1>3
  <2>2. (rows = <<>> \/ Laid(rows)) /\ rows' = rows
    BY <1>3, <2>1 DEF Fixtured
  <2> HIDE DEF rows
  <2>3. Laid(rows) => Laid(rows)'
    <3>1. PICK r : r = rows
      OBVIOUS
    <3>2. Laid(r) => Laid(r)'
      BY LaidStays
    <3>3. QED
      BY <2>2, <3>1, <3>2 DEF Laid
  <2>4. QED
    BY <2>2, <2>3 DEF rows
<1>4. QED
  BY <1>2, <1>3 DEF Fixtured

\* The rows a request reads the members for.
LEMMA AllLaid ==
  ASSUME Roster, Len(members) >= 2
  PROVE  Laid(FixtureList(by_id(members)))
<1>1. SubSeq(members, 1, Len(members)) = members /\ Len(members) \in 2..Len(members)
  BY SubSeqFull DEF Roster, Numbered
<1>2. QED
  BY <1>1 DEF Laid

\* A calendar for the same league shares its first row with any other.
LEMMA LaidFirst ==
  ASSUME Roster, NEW rows, Laid(rows)
  PROVE  /\ \E m \in Nat \ {0} : DOMAIN rows = 1..m
         /\ rows[1].week = FirstGameWeek /\ rows[1].home = members[1]
         /\ Plain(rows) = rows
<1>1. PICK n \in 2..Len(members) : rows = FixtureList(by_id(SubSeq(members, 1, n)))
  BY DEF Laid
<1> DEFINE list == SubSeq(members, 1, n)
<1>2. /\ n \in Nat /\ n >= 2 /\ n \in 1..Len(members)
  BY DEF Roster, Numbered
<1>3. /\ list \in Seq(Users) /\ Len(list) = n /\ IsInjective(list)
      /\ list # <<>> /\ ids[1] = list[1] /\ list[1] = members[1]
      /\ ToSet(list) \subseteq ToSet(ids) /\ ids \in Seq(Users) /\ IsInjective(ids)
  BY <1>2, FirstMembers DEF Roster, Numbered
<1> HIDE DEF list
<1>4. by_id(list) \in [1..n -> ToSet(list)] /\ by_id(list)[1] = members[1]
  BY <1>3, Listing, SortedByIds
<1>5. by_id(list) \in Seq(ToSet(list)) /\ Len(by_id(list)) = n
  BY <1>2, <1>4, SeqDef, LenProperties
<1>6. QED
  BY <1>1, <1>2, <1>4, <1>5, FirstRow DEF list

\* The fixtures there are: a sequence, with the first row of every calendar.
LEMMA FixturesFirst ==
  ASSUME Roster, Fixtured, fixtures # <<>>
  PROVE  /\ \E m \in Nat \ {0} : DOMAIN fixtures = 1..m
         /\ fixtures[1].week = FirstGameWeek /\ fixtures[1].home = members[1]
<1>1. /\ \E m \in Nat \ {0} : DOMAIN Plain(fixtures) = 1..m
      /\ Plain(fixtures)[1].week = FirstGameWeek /\ Plain(fixtures)[1].home = members[1]
  BY LaidFirst DEF Fixtured
<1>2. DOMAIN Plain(fixtures) = DOMAIN fixtures /\ 1 \in DOMAIN fixtures
  BY <1>1 DEF Plain
<1>3. Plain(fixtures)[1] = [fixtures[1] EXCEPT !.result = Unplayed]
  BY <1>2 DEF Plain
<1>4. QED
  BY <1>1, <1>2, <1>3

\* Rows are laid out once: two calendars share a key.
LEMMA LaidOnce ==
  ASSUME Roster, Fixtured, NEW s \in Sessions, CommitLay(s)
  PROVE  fixtures' = fixtures \/ (fixtures = <<>> /\ Laid(fixtures'))
<1> DEFINE rows == request[s].rows
<1>1. \/ fixtures' = fixtures
      \/ ~KeyTaken(rows) /\ fixtures' = fixtures \o rows
  BY DEF CommitLay
<1>2. rows = <<>> \/ Laid(rows)
  BY DEF Fixtured, CommitLay
<1> HIDE DEF rows
<1>3. CASE ~KeyTaken(rows) /\ fixtures' = fixtures \o rows
  <2>1. CASE fixtures = <<>> /\ Laid(rows)
    <3>1. fixtures' = rows
      BY <1>3, <2>1, LaidFirst
    <3>2. QED
      BY <2>1, <3>1
  <2>2. CASE fixtures = <<>> /\ rows = <<>>
    BY <1>3, <2>2
  <2>3. CASE fixtures # <<>> /\ Laid(rows)
    <3>1. 1 \in DOMAIN rows /\ 1 \in DOMAIN fixtures
          /\ rows[1].week = fixtures[1].week /\ rows[1].home = fixtures[1].home
      BY <2>3, LaidFirst, FixturesFirst
    <3>2. QED
      BY <1>3, <3>1 DEF KeyTaken
  <2>4. CASE fixtures # <<>> /\ rows = <<>>
    <3>1. fixtures \o <<>> = fixtures
      BY <2>4, FixturesFirst
    <3>2. QED
      BY <1>3, <2>4, <3>1
  <2>5. QED
    BY <1>2, <2>1, <2>2, <2>3, <2>4
<1>4. QED
  BY <1>1, <1>3

\* Rows are laid once: a second calendar breaks the first one's unique keys.
LEMMA FixturedCommitLay ==
  ASSUME Roster, Fixtured, NEW s \in Sessions, CommitLay(s)
  PROVE  Fixtured'
<1>1. /\ request'[s] = Idle /\ request[s].kind = "lay" /\ UNCHANGED <<members, ids>>
      /\ \A t \in Sessions \ {s} : request'[t] = request[t]
  BY EndStep DEF Roster, CommitLay
<1>2. \A t \in Sessions : request'[t] = request[t] \/ request'[t].kind # "lay"
  BY <1>1 DEF Idle
<1>3. CASE fixtures' = fixtures
  BY <1>1, <1>2, <1>3, FixturedUntouched DEF Enrols
<1>4. CASE fixtures = <<>> /\ Laid(fixtures')
  <2>1. PICK rows : rows = fixtures'
    OBVIOUS
  <2>2. Laid(rows) /\ Plain(rows) = rows
    BY <1>4, <2>1, LaidFirst
  <2>3. Laid(Plain(fixtures))'
    <3>1. Laid(rows)'
      BY <1>1, <2>2, LaidStays DEF Enrols
    <3>2. QED
      BY <2>1, <2>2, <3>1 DEF Plain
  <2>4. \A r : Laid(r) => Laid(r)'
    BY <1>1, LaidStays DEF Enrols
  <2>5. QED
    BY <1>1, <1>2, <2>3, <2>4 DEF Fixtured
<1>5. QED
  BY <1>3, <1>4, LaidOnce

\* Every request about the league keeps the calendar whole.
LEMMA FixturedLeague ==
  ASSUME Roster, Fixtured, LeagueNext
  PROVE  Fixtured'
<1>1. ASSUME NEW s \in Sessions, NEW u \in Users, BeginJoin(s, u) PROVE Fixtured'
  <2>1. /\ \A t \in Sessions : request'[t] = request[t] \/ request'[t].kind # "lay"
        /\ UNCHANGED <<members, ids, fixtures>>
    BY <1>1, BeginStep DEF Roster, BeginJoin, Join, leagueVars
  <2>2. QED
    BY <2>1, FixturedUntouched DEF Enrols
<1>2. ASSUME NEW s \in Sessions, FlushJoin(s) \/ JoinRefused(s) \/ CommitJoin(s)
      PROVE  Fixtured'
  <2>1. /\ \A t \in Sessions : request'[t] = request[t] \/ request'[t].kind # "lay"
        /\ fixtures' = fixtures /\ request[s].user \in Users
    <3>1. CASE FlushJoin(s)
      <4>1. request[s].user \in Users /\ fixtures' = fixtures
        BY <3>1 DEF FlushJoin, Roster, Joining
      <4>2. QED
        BY <3>1, <4>1, FlushStep DEF Roster
    <3>2. CASE JoinRefused(s) \/ CommitJoin(s)
      BY <3>2, EndStep DEF Roster, Joining, JoinRefused, CommitJoin, Idle, leagueVars
    <3>3. QED
      BY <1>2, <3>1, <3>2
  <2>2. Enrols
    BY <1>2, <2>1 DEF Enrols, FlushJoin, JoinRefused, CommitJoin, leagueVars
  <2>3. QED
    BY <2>1, <2>2, FixturedUntouched
<1>3. ASSUME NEW s \in Sessions, BeginGenerate(s) \/ BeginOpenScreen(s) \/ BeginOpen(s)
      PROVE  Fixtured'
  <2>1. PICK r : /\ Begin(s, r) /\ r.kind = "lay"
                 /\ \/ r.rows = <<>>
                    \/ r.rows = FixtureList(by_id(members)) /\ Len(members) >= 2
    BY <1>3 DEF BeginGenerate, BeginOpenScreen, BeginOpen
  <2>2. UNCHANGED <<fixtures, members, ids>>
    BY <1>3 DEF BeginGenerate, BeginOpenScreen, BeginOpen, leagueVars
  <2>3. request'[s] = r /\ \A t \in Sessions \ {s} : request'[t] = request[t]
    BY <2>1, BeginStep DEF Roster
  <2>4. r.rows = <<>> \/ Laid(r.rows)
    BY <2>1, AllLaid
  <2>5. \A rows : Laid(rows) => Laid(rows)'
    BY <2>2, LaidStays DEF Enrols
  <2>6. fixtures' # <<>> => Laid(Plain(fixtures))'
    <3>1. Plain(fixtures)' = Plain(fixtures)
      BY <2>2 DEF Plain
    <3>2. QED
      BY <2>2, <2>5, <3>1 DEF Fixtured, Laid
  <2>7. QED
    BY <2>3, <2>4, <2>5, <2>6 DEF Fixtured
<1>4. ASSUME NEW s \in Sessions, CommitLay(s) PROVE Fixtured'
  BY <1>4, FixturedCommitLay
<1>5. CASE MercatoCloses
  BY <1>5, FixturedUntouched DEF MercatoCloses, sessionVars, Enrols
<1>6. QED
  BY <1>1, <1>2, <1>3, <1>4, <1>5 DEF LeagueNext

\* Results and flags change nothing else of a row.
LEMMA ResultsOnly ==
  ASSUME LineupNext \/ WeekNext
  PROVE  \/ fixtures' = fixtures
         \/ /\ DOMAIN fixtures' = DOMAIN fixtures
            /\ fixtures' = [i \in DOMAIN fixtures |-> fixtures'[i]]
            /\ \A i \in DOMAIN fixtures :
                 \/ fixtures'[i] = fixtures[i]
                 \/ \E x : fixtures'[i] = [fixtures[i] EXCEPT !.result = x]
<1>1. CASE LineupNext
  BY <1>1 DEF LineupNext, BeginSave, BeginPose, CommitSave, CommitPose, leagueVars
<1>2. ASSUME NEW s \in Sessions, CommitResults(s)
      PROVE  /\ DOMAIN fixtures' = DOMAIN fixtures
             /\ fixtures' = [i \in DOMAIN fixtures |-> fixtures'[i]]
             /\ \A i \in DOMAIN fixtures :
                 \/ fixtures'[i] = fixtures[i]
                 \/ \E x : fixtures'[i] = [fixtures[i] EXCEPT !.result = x]
  BY <1>2 DEF CommitResults
<1>3. ASSUME NEW s \in Sessions, CommitRefresh(s)
      PROVE  /\ DOMAIN fixtures' = DOMAIN fixtures
             /\ fixtures' = [i \in DOMAIN fixtures |-> fixtures'[i]]
             /\ \A i \in DOMAIN fixtures :
                 \/ fixtures'[i] = fixtures[i]
                 \/ \E x : fixtures'[i] = [fixtures[i] EXCEPT !.result = x]
  BY <1>3 DEF CommitRefresh
<1>4. CASE WeekNext
  BY <1>2, <1>3, <1>4 DEF WeekNext, BeginResolve, BeginReplay, BeginRefresh, RefreshFails, leagueVars
<1>5. QED
  BY <1>1, <1>4

\* Every step of a season does.
LEMMA FixturedStep == Roster /\ Fixtured /\ [Next]_vars => Fixtured'
<1> SUFFICES ASSUME Roster, Fixtured, [Next]_vars PROVE Fixtured'
  OBVIOUS
<1>1. CASE LineupNext \/ WeekNext
  <2>1. \/ fixtures' = fixtures
        \/ Plain(fixtures)' = Plain(fixtures) /\ (fixtures' = <<>> <=> fixtures = <<>>)
    <3>1. CASE fixtures' = fixtures
      BY <3>1
    <3>2. CASE /\ DOMAIN fixtures' = DOMAIN fixtures
               /\ fixtures' = [i \in DOMAIN fixtures |-> fixtures'[i]]
               /\ \A i \in DOMAIN fixtures :
                    \/ fixtures'[i] = fixtures[i]
                    \/ \E x : fixtures'[i] = [fixtures[i] EXCEPT !.result = x]
      <4>1. ASSUME NEW i \in DOMAIN fixtures
            PROVE  [fixtures'[i] EXCEPT !.result = Unplayed]
                     = [fixtures[i] EXCEPT !.result = Unplayed]
        BY <3>2
      <4>2. Plain(fixtures)' = Plain(fixtures)
        BY <3>2, <4>1 DEF Plain
      <4>3. fixtures' = <<>> <=> fixtures = <<>>
        BY <3>2, FixturesFirst
      <4>4. QED
        BY <4>2, <4>3
    <3>3. QED
      BY <1>1, <3>1, <3>2, ResultsOnly
  <2>2. /\ UNCHANGED <<members, ids>>
        /\ \A s \in Sessions : \/ request'[s] = request[s]
                               \/ request'[s].kind # "lay"
    BY <1>1, SeasonStep DEF Roster
  <2>3. QED
    BY <2>1, <2>2, FixturedUntouched DEF Enrols
<1>2. CASE UNCHANGED vars
  BY <1>2, FixturedUntouched DEF vars, sessionVars, leagueVars, Enrols
<1>3. QED
  BY <1>1, <1>2, FixturedLeague DEF Next

\* leagues.py:68 and the unique keys: the fixtures are one calendar of all those
\* whose joins had been committed, in the order of their ids, whoever commits
\* after with a lower one; and the league outgrows its size by less than the
\* requests in flight, for any size, any number of users and of requests.
THEOREM CalendarStands == Spec => []CalendarHolds
<1>1. Roster /\ Fixtured => CalendarHolds
  <2> SUFFICES ASSUME Roster, Fixtured PROVE CalendarHolds
    OBVIOUS
  <2>1. /\ Cardinality(Joining) \in Nat /\ Cardinality(Sessions) \in Nat
        /\ Len(members) \in Nat /\ size \in Nat
    BY SessionSets, LeaguesAssumption DEF LeaguesAssumption, Roster, Numbered, Joining
  <2>2. ASSUME fixtures # <<>>
        PROVE  \E n \in 2..Len(members) :
                 \E order \in [1..n -> ToSet(SubSeq(members, 1, n))] :
                   /\ \A i, j \in 1..n : i < j => Id(order[i]) < Id(order[j])
                   /\ Plain(fixtures) = FixtureList(order)
    <3>1. PICK n \in 2..Len(members) :
            Plain(fixtures) = FixtureList(by_id(SubSeq(members, 1, n)))
      BY <2>2 DEF Fixtured, Laid
    <3> DEFINE list == SubSeq(members, 1, n)
    <3>2. /\ list \in Seq(Users) /\ Len(list) = n /\ IsInjective(list)
          /\ ToSet(list) \subseteq ToSet(ids) /\ ids \in Seq(Users) /\ IsInjective(ids)
      BY <2>1, FirstMembers DEF Roster, Numbered
    <3> HIDE DEF list
    <3>3. /\ by_id(list) \in [1..n -> ToSet(list)]
          /\ \A i, j \in 1..n : i < j => Place(ids, by_id(list)[i]) < Place(ids, by_id(list)[j])
      BY <3>2, Listing, SortedByIds
    <3>4. \A u : Id(u) = Place(ids, u)
      BY DEF Id, Place
    <3>5. QED
      BY <3>1, <3>3, <3>4 DEF list
  <2>3. IsInjective(members) /\ Len(members) < size + Cardinality(Sessions)
    BY <2>1 DEF Roster, Numbered
  <2>4. QED
    BY <2>2, <2>3 DEF CalendarHolds
<1>2. QED
  BY <1>1, RosterInit, RosterStep, FixturedInit, FixturedStep, PTL DEF Spec

-----------------------------------------------------------------------------
(* The bonuses *)

\* Joining and laying out fixtures are requests of their own.
LEMMA LeagueRequests ==
  ASSUME Served, LeagueNext
  PROVE  /\ Served' /\ size' = size
         /\ \A s \in Sessions :
              \/ request'[s] = request[s]
              \/ {request[s].kind, request'[s].kind} \subseteq {"idle", "join", "lay"}
<1> DEFINE Kept ==
      /\ Served' /\ size' = size
      /\ \A s \in Sessions :
           \/ request'[s] = request[s]
           \/ {request[s].kind, request'[s].kind} \subseteq {"idle", "join", "lay"}
<1>1. ASSUME NEW s \in Sessions, NEW r, Begin(s, r), r.kind \in {"join", "lay"}, size' = size
      PROVE  Kept
  BY <1>1, BeginStep DEF Idle
<1>2. ASSUME NEW s \in Sessions, End(s), request[s].kind \in {"join", "lay"}, size' = size
      PROVE  Kept
  BY <1>2, EndStep DEF Idle
<1>3. ASSUME NEW s \in Sessions, NEW u, BeginJoin(s, u) PROVE Kept
  BY <1>1, <1>3 DEF BeginJoin, Join, leagueVars
<1>4. ASSUME NEW s \in Sessions, BeginGenerate(s) \/ BeginOpenScreen(s) \/ BeginOpen(s)
      PROVE  Kept
  <2>1. PICK r : Begin(s, r) /\ r.kind = "lay"
    BY <1>4 DEF BeginGenerate, BeginOpenScreen, BeginOpen
  <2>2. QED
    BY <1>1, <1>4, <2>1 DEF BeginGenerate, BeginOpenScreen, BeginOpen, leagueVars
<1>5. ASSUME NEW s \in Sessions, FlushJoin(s) PROVE Kept
  <2>1. request[s].kind = "join" /\ size' = size
    BY <1>5 DEF FlushJoin
  <2>2. QED
    BY <1>5, <2>1, FlushStep
<1>6. ASSUME NEW s \in Sessions, JoinRefused(s) \/ CommitJoin(s) \/ CommitLay(s) PROVE Kept
  BY <1>2, <1>6 DEF JoinRefused, CommitJoin, CommitLay, leagueVars
<1>7. CASE MercatoCloses
  BY <1>7 DEF MercatoCloses, sessionVars, Served
<1>8. QED
  BY <1>3, <1>4, <1>5, <1>6, <1>7 DEF LeagueNext

\* So are resolving a week and refreshing its ratings.
LEMMA WeekRequests ==
  ASSUME Served, WeekNext
  PROVE  /\ Served' /\ UNCHANGED <<size, status, members, ids, lineups, posed>>
         /\ \A s \in Sessions :
              \/ request'[s] = request[s]
              \/ {request[s].kind, request'[s].kind}
                   \subseteq {"idle", "resolve", "replay", "refresh"}
<1> DEFINE Kept ==
      /\ Served' /\ UNCHANGED <<size, status, members, ids, lineups, posed>>
      /\ \A s \in Sessions :
           \/ request'[s] = request[s]
           \/ {request[s].kind, request'[s].kind}
                \subseteq {"idle", "resolve", "replay", "refresh"}
<1>1. ASSUME NEW s \in Sessions, NEW r, Begin(s, r),
             r.kind \in {"resolve", "replay", "refresh"},
             UNCHANGED <<size, status, members, ids, lineups, posed>>
      PROVE  Kept
  BY <1>1, BeginStep DEF Idle
<1>2. ASSUME NEW s \in Sessions, CommitResults(s) \/ CommitRefresh(s) \/ RefreshFails(s)
      PROVE  Kept
  <2>1. /\ End(s) /\ request[s].kind \in {"resolve", "replay", "refresh"}
        /\ UNCHANGED <<size, status, members, ids, lineups, posed>>
    BY <1>2 DEF CommitResults, CommitRefresh, RefreshFails, leagueVars, lineupVars
  <2>2. QED
    BY <2>1, EndStep DEF Idle
<1>3. ASSUME NEW s \in Sessions, NEW w, BeginResolve(s, w)
      PROVE  Kept
  <2>1. PICK o : Begin(s, [kind |-> "resolve", outcome |-> o])
    BY <1>3 DEF BeginResolve
  <2>2. QED
    BY <1>1, <1>3, <2>1 DEF BeginResolve, leagueVars, lineupVars
<1>4. ASSUME NEW s \in Sessions, NEW i, BeginReplay(s, i)
      PROVE  Kept
  <2>1. PICK o : Begin(s, [kind |-> "replay", outcome |-> o])
    BY <1>4 DEF BeginReplay
  <2>2. QED
    BY <1>1, <1>4, <2>1 DEF BeginReplay, leagueVars, lineupVars
<1>5. ASSUME NEW s \in Sessions, NEW w, BeginRefresh(s, w)
      PROVE  Kept
  <2>1. PICK r : Begin(s, r) /\ r.kind = "refresh"
    BY <1>5 DEF BeginRefresh
  <2>2. QED
    BY <1>1, <1>5, <2>1 DEF BeginRefresh, leagueVars, lineupVars
<1>6. QED
  BY <1>2, <1>3, <1>4, <1>5 DEF WeekNext

Bonuses == UNION {Poses[u] : u \in Users}

\* The bonuses of a user being posed: for a week, those that count for its
\* limit; over the season, those of a type.
PosingIn(u, w) ==
  {s \in Sessions : /\ request[s].kind = "pose" /\ request[s].user = u
                    /\ request[s].week = w /\ request[s].bonus.type \notin UNLIMITED}
PosingOf(u, type) ==
  {s \in Sessions : /\ request[s].kind = "pose" /\ request[s].user = u
                    /\ request[s].bonus.type = type}

\* Where the bonuses of a type are posed.
UsesOf(u, type) == {x \in Uses(u) : posed[<<u, x[1]>>][x[2]].type = type}

PosedShape ==
  /\ posed = [x \in Users \X Weeks |-> posed[x]]
  /\ \A x \in Users \X Weeks : posed[x] \in Seq(Bonuses)
  /\ \A u \in Users : IsFiniteSet(Uses(u))
  /\ \A s \in Sessions : request[s].kind = "pose" =>
       /\ request[s].user \in Users /\ request[s].week \in Weeks
       /\ request[s].bonus \in Poses[request[s].user]

\* Those posed and those being posed together overrun the limits by no more than
\* the requests there can be.
WithinWeek ==
  \A u \in Users, w \in Weeks :
    Cardinality(Limited(u, w)) + Cardinality(PosingIn(u, w)) <= Cardinality(Sessions)

WithinSeason ==
  \A u \in Users : \A b \in Poses[u] :
    LET n == Cardinality(UsesOf(u, b.type)) + Cardinality(PosingOf(u, b.type))
    IN b.type \notin UNLIMITED /\ n > 0 =>
         n <= BonusQuota[b.type][size] + Cardinality(Sessions) - 1

Posed == PosedShape /\ WithinWeek /\ WithinSeason

\* A week and a place among its bonuses.
IsPlace(u, z) == \E y \in Weeks : \E i \in DOMAIN posed[<<u, y>>] : z = <<y, i>>

UsesArePlaces == \A u, z : z \in Uses(u) <=> IsPlace(u, z)

\* A use of a bonus is its user, week and type.
LEMMA InUses == UsesArePlaces
<1> SUFFICES ASSUME NEW u, NEW z
             PROVE  z \in Uses(u) <=> IsPlace(u, z)
  BY DEF UsesArePlaces
<1>1. z \in Uses(u) <=>
        \E y \in Weeks : z \in {<<y, i>> : i \in DOMAIN posed[<<u, y>>]}
  BY Zenon DEF Uses
<1>2. QED
  BY <1>1 DEF IsPlace

\* The limited bonuses of a week are finitely many.
LEMMA LimitedFinite ==
  ASSUME PosedShape, NEW u \in Users, NEW w \in Weeks
  PROVE  IsFiniteSet(Limited(u, w)) /\ Cardinality(Limited(u, w)) \in Nat
<1>1. posed[<<u, w>>] \in Seq(Bonuses)
  BY DEF PosedShape
<1>2. Limited(u, w) \subseteq 1..Len(posed[<<u, w>>]) /\ Len(posed[<<u, w>>]) \in Nat
  BY <1>1 DEF Limited
<1>3. IsFiniteSet(1..Len(posed[<<u, w>>]))
  BY <1>2, FS_Interval
<1>4. QED
  BY <1>2, <1>3, FS_Subset, FS_CardinalityType

\* So are the uses of a bonus in a season.
LEMMA UsesFinite ==
  ASSUME PosedShape, NEW u \in Users, NEW type
  PROVE  IsFiniteSet(UsesOf(u, type)) /\ Cardinality(UsesOf(u, type)) \in Nat
  BY FS_Subset, FS_CardinalityType DEF PosedShape, UsesOf

\* No bonus is posed in the beginning.
LEMMA PosedInit == Init => Posed
<1> SUFFICES ASSUME Init PROVE Posed
  OBVIOUS
<1>1. /\ posed = [x \in Users \X Weeks |-> <<>>]
      /\ \A s \in Sessions : request[s].kind # "pose"
  BY DEF Init, SessionInit, LineupInit, Idle
<1>2. \A u \in Users, w \in Weeks : Limited(u, w) = {} /\ PosingIn(u, w) = {}
  BY <1>1 DEF Limited, PosingIn
<1>3. \A u \in Users : Uses(u) = {}
  <2>1. \A u \in Users : \A w \in Weeks : posed[<<u, w>>] = <<>>
    BY <1>1
  <2>2. DOMAIN <<>> = {}
    OBVIOUS
  <2>3. QED
    BY <2>1, <2>2, InUses, Zenon DEF UsesArePlaces, IsPlace
<1>4. \A u \in Users : \A t : UsesOf(u, t) = {} /\ PosingOf(u, t) = {}
  BY <1>1, <1>3 DEF UsesOf, PosingOf
<1>5. Cardinality({}) = 0 /\ IsFiniteSet({}) /\ Cardinality(Sessions) \in Nat
  BY FS_EmptySet, SessionSets
<1>6. PosedShape
  <2>1. <<>> \in Seq(Bonuses)
    OBVIOUS
  <2>2. \A x \in Users \X Weeks : posed[x] = <<>>
    BY <1>1
  <2>3. posed = [x \in Users \X Weeks |-> posed[x]]
    BY <1>1
  <2>4. QED
    BY <1>1, <1>3, <1>5, <2>1, <2>2, <2>3, Zenon DEF PosedShape
<1>7. WithinWeek
  BY <1>2, <1>5 DEF WithinWeek
<1>8. WithinSeason
  BY <1>4, <1>5 DEF WithinSeason
<1>9. QED
  BY <1>6, <1>7, <1>8 DEF Posed

\* A step that poses nothing overruns nothing.
LEMMA PosedUntouched ==
  ASSUME Posed, UNCHANGED <<size, posed>>,
         \A s \in Sessions : \/ request'[s] = request[s]
                             \/ {request[s].kind, request'[s].kind} \cap {"pose"} = {}
  PROVE  Posed'
<1>1. \A u, w : PosingIn(u, w)' = PosingIn(u, w) /\ Limited(u, w)' = Limited(u, w)
  BY DEF PosingIn, Limited
<1>2. \A u, t : PosingOf(u, t)' = PosingOf(u, t)
  BY DEF PosingOf
<1>3. \A u, t : UsesOf(u, t)' = UsesOf(u, t) /\ Uses(u)' = Uses(u)
  BY DEF UsesOf, Uses
<1>4. PosedShape'
  BY <1>3 DEF Posed, PosedShape
<1>5. WithinWeek'
  BY <1>1 DEF Posed, WithinWeek
<1>6. WithinSeason'
  BY <1>2, <1>3 DEF Posed, WithinSeason
<1>7. QED
  BY <1>4, <1>5, <1>6 DEF Posed

\* Posing begins within the limits, as the request sees them.
LEMMA PosedBegin ==
  ASSUME Roster, Posed, NEW s \in Sessions, NEW u \in Users, NEW w \in Weeks,
         NEW b \in Poses[u], BeginPose(s, u, w, b)
  PROVE  Posed'
<1> DEFINE r == [kind |-> "pose", user |-> u, week |-> w, bonus |-> b]
<1>1. /\ request[s] = Idle /\ request'[s] = r
      /\ \A t \in Sessions \ {s} : request'[t] = request[t]
      /\ UNCHANGED <<size, posed>>
  BY BeginStep DEF Roster, BeginPose, leagueVars, lineupVars
<1>2. /\ r.kind = "pose" /\ r.user = u /\ r.week = w /\ r.bonus = b
      /\ Idle.kind # "pose"
  BY DEF Idle
<1>3. b.type \notin UNLIMITED => QuotaLeft(u, w, b.type)
  BY DEF BeginPose
<1> HIDE DEF r
<1>4. \A x, y : /\ Limited(x, y)' = Limited(x, y)
                /\ x # u \/ y # w \/ b.type \in UNLIMITED => PosingIn(x, y)' = PosingIn(x, y)
  BY <1>1, <1>2 DEF Limited, PosingIn
<1>5. \A x, y : /\ UsesOf(x, y)' = UsesOf(x, y) /\ Uses(x)' = Uses(x)
                /\ x # u \/ y # b.type => PosingOf(x, y)' = PosingOf(x, y)
  BY <1>1, <1>2 DEF UsesOf, Uses, PosingOf
<1>6. PosedShape'
  BY <1>1, <1>2, <1>5 DEF Posed, PosedShape
<1>7. ASSUME b.type \notin UNLIMITED
      PROVE  Cardinality(Limited(u, w)') + Cardinality(PosingIn(u, w)') <= Cardinality(Sessions)
  <2>1. Limited(u, w) = {}
    BY <1>3, <1>7 DEF QuotaLeft, Types, Limited
  <2>2. /\ Cardinality(PosingIn(u, w)') <= Cardinality(Sessions)
        /\ Cardinality(PosingIn(u, w)') \in Nat /\ Cardinality(Sessions) \in Nat
    BY SessionSets DEF PosingIn
  <2>3. Cardinality(Limited(u, w)') = 0
    BY <1>4, <2>1, FS_EmptySet
  <2>4. QED
    BY <2>2, <2>3
<1>8. WithinWeek'
  BY <1>4, <1>7 DEF Posed, WithinWeek
<1>9. ASSUME b.type \notin UNLIMITED
      PROVE  Cardinality(UsesOf(u, b.type)') + Cardinality(PosingOf(u, b.type)')
               <= BonusQuota[b.type][size] + Cardinality(Sessions) - 1
  <2>1. Cardinality(UsesOf(u, b.type)) < BonusQuota[b.type][size]
    BY <1>3, <1>9 DEF QuotaLeft, bonus_usage_count, UsesOf
  <2>2. /\ Cardinality(PosingOf(u, b.type)') <= Cardinality(Sessions)
        /\ Cardinality(PosingOf(u, b.type)') \in Nat /\ Cardinality(Sessions) \in Nat
    BY SessionSets DEF PosingOf
  <2>3. Cardinality(UsesOf(u, b.type)) \in Nat /\ BonusQuota[b.type][size] \in Nat
    BY <1>9, UsesFinite, LineupsAssumption DEF LineupsAssumption, Posed, Roster
  <2>4. UsesOf(u, b.type)' = UsesOf(u, b.type)
    BY <1>5
  <2>5. QED
    BY <2>1, <2>2, <2>3, <2>4
<1>10. WithinSeason'
  <2> SUFFICES ASSUME NEW x \in Users, NEW c \in Poses[x], c.type \notin UNLIMITED,
                      Cardinality(UsesOf(x, c.type)') + Cardinality(PosingOf(x, c.type)') > 0
               PROVE  Cardinality(UsesOf(x, c.type)') + Cardinality(PosingOf(x, c.type)')
                        <= BonusQuota[c.type][size] + Cardinality(Sessions) - 1
    BY <1>1 DEF WithinSeason
  <2>1. CASE x = u /\ c.type = b.type
    BY <1>9, <2>1
  <2>2. CASE ~(x = u /\ c.type = b.type)
    BY <1>5, <2>2 DEF Posed, WithinSeason
  <2>3. QED
    BY <2>1, <2>2
<1>11. QED
  BY <1>6, <1>8, <1>10 DEF Posed

\* A bonus posed is one more use and one request less in flight.
LEMMA PosedCommit ==
  ASSUME Roster, Posed, NEW s \in Sessions, CommitPose(s)
  PROVE  Posed'
<1>1. /\ request[s].kind = "pose" /\ request'[s] = Idle /\ Idle.kind # "pose"
      /\ \A t \in Sessions \ {s} : request'[t] = request[t]
      /\ size' = size
  BY EndStep DEF Roster, CommitPose, leagueVars, Idle
<1>2. PICK u \in Users, w \in Weeks, b \in Bonuses :
        request[s].user = u /\ request[s].week = w /\ request[s].bonus = b
  BY <1>1 DEF Posed, PosedShape, Bonuses
<1>3. posed' = [posed EXCEPT ![<<u, w>>] = Append(posed[<<u, w>>], b)]
  BY <1>2 DEF CommitPose
<1>4. PICK n : n = Len(posed[<<u, w>>]) + 1
  OBVIOUS
<1>5. /\ posed[<<u, w>>] \in Seq(Bonuses) /\ n \in Nat \ {0}
      /\ DOMAIN posed[<<u, w>>] = 1..(n - 1)
  BY <1>4 DEF Posed, PosedShape
<1>6. /\ Append(posed[<<u, w>>], b) \in Seq(Bonuses)
      /\ DOMAIN Append(posed[<<u, w>>], b) = 1..n
      /\ Append(posed[<<u, w>>], b)[n] = b
      /\ \A i \in 1..(n - 1) : Append(posed[<<u, w>>], b)[i] = posed[<<u, w>>][i]
  BY <1>4, <1>5
<1>7. /\ posed'[<<u, w>>] = Append(posed[<<u, w>>], b)
      /\ \A x \in Users, y \in Weeks : x # u \/ y # w => posed'[<<x, y>>] = posed[<<x, y>>]
  BY <1>2, <1>3 DEF Posed, PosedShape
<1>8. /\ DOMAIN posed'[<<u, w>>] = (DOMAIN posed[<<u, w>>]) \cup {n}
      /\ n \notin DOMAIN posed[<<u, w>>] /\ posed'[<<u, w>>][n] = b
      /\ \A i \in DOMAIN posed[<<u, w>>] : posed'[<<u, w>>][i] = posed[<<u, w>>][i]
  <2>1. 1..n = 1..(n - 1) \cup {n} /\ n \notin 1..(n - 1)
    BY <1>5
  <2>2. QED
    BY <1>5, <1>6, <1>7, <2>1, Zenon
<1>9. /\ Uses(u)' = Uses(u) \cup {<<w, n>>} /\ <<w, n>> \notin Uses(u)
      /\ \A x \in Users : x # u => Uses(x)' = Uses(x)
  <2>1. UsesArePlaces /\ UsesArePlaces'
    BY InUses, PTL
  <2>2. \A x, z : (z \in Uses(x) <=> IsPlace(x, z)) /\ (z \in Uses(x)' <=> IsPlace(x, z)')
    BY <2>1 DEF UsesArePlaces
  <2>3. ASSUME NEW z
        PROVE  z \in Uses(u)' => z \in Uses(u) \cup {<<w, n>>}
    <3> SUFFICES ASSUME z \in Uses(u)' PROVE z \in Uses(u) \/ z = <<w, n>>
      OBVIOUS
    <3>1. PICK y \in Weeks : \E i \in DOMAIN posed'[<<u, y>>] : z = <<y, i>>
      BY <2>2 DEF IsPlace
    <3>2. PICK i \in DOMAIN posed'[<<u, y>>] : z = <<y, i>>
      BY <3>1
    <3>3. CASE y = w /\ i = n
      BY <3>2, <3>3
    <3>4. CASE ~(y = w /\ i = n)
      <4>1. i \in DOMAIN posed[<<u, y>>]
        BY <1>7, <1>8, <3>4
      <4>2. QED
        BY <2>2, <3>2, <4>1 DEF IsPlace
    <3>5. QED
      BY <3>3, <3>4
  <2>4. ASSUME NEW z \in Uses(u)
        PROVE  z \in Uses(u)'
    <3>1. PICK y \in Weeks : \E i \in DOMAIN posed[<<u, y>>] : z = <<y, i>>
      <4>1. IsPlace(u, z)
        BY <2>2
      <4>2. QED
        BY <4>1 DEF IsPlace
    <3>2. PICK i \in DOMAIN posed[<<u, y>>] : z = <<y, i>>
      BY <3>1
    <3>3. i \in DOMAIN posed'[<<u, y>>]
      BY <1>7, <1>8
    <3>4. QED
      BY <2>2, <3>2, <3>3 DEF IsPlace
  <2>5. <<w, n>> \in Uses(u)'
    BY <1>8, <2>2 DEF IsPlace
  <2>6. ASSUME <<w, n>> \in Uses(u)
        PROVE  FALSE
    <3>1. PICK y \in Weeks : \E i \in DOMAIN posed[<<u, y>>] : <<w, n>> = <<y, i>>
      BY <2>2, <2>6 DEF IsPlace
    <3>2. PICK i \in DOMAIN posed[<<u, y>>] : <<w, n>> = <<y, i>>
      BY <3>1
    <3>3. y = w /\ i = n
      BY <3>2
    <3>4. QED
      BY <1>8, <3>3
  <2>7. ASSUME NEW x \in Users, x # u
        PROVE  Uses(x)' = Uses(x)
    <3>1. \A y \in Weeks : posed'[<<x, y>>] = posed[<<x, y>>]
      BY <1>7, <2>7
    <3>2. \A z : IsPlace(x, z)' <=> IsPlace(x, z)
      BY <3>1 DEF IsPlace
    <3>3. QED
      BY <2>2, <3>2
  <2>8. QED
    BY <2>3, <2>4, <2>5, <2>6, <2>7
<1>10. PosedShape'
  <2>1. posed' = [x \in Users \X Weeks |-> posed'[x]]
    BY <1>3 DEF Posed, PosedShape
  <2>2. \A x \in Users \X Weeks : posed'[x] \in Seq(Bonuses)
    BY <1>3, <1>6 DEF Posed, PosedShape
  <2>3. \A x \in Users : IsFiniteSet(Uses(x)')
    BY <1>9, FS_AddElement DEF Posed, PosedShape
  <2>4. \A t \in Sessions : request'[t].kind = "pose" => t # s /\ request'[t] = request[t]
    BY <1>1
  <2>5. QED
    BY <2>1, <2>2, <2>3, <2>4 DEF Posed, PosedShape
<1>11. WithinWeek'
  <2> SUFFICES ASSUME NEW x \in Users, NEW y \in Weeks
               PROVE  Cardinality(Limited(x, y)') + Cardinality(PosingIn(x, y)')
                        <= Cardinality(Sessions)
    BY DEF WithinWeek
  <2>1. Cardinality(Limited(x, y)) + Cardinality(PosingIn(x, y)) <= Cardinality(Sessions)
    BY DEF Posed, WithinWeek
  <2>2. CASE x = u /\ y = w /\ b.type \notin UNLIMITED
    <3>1. Limited(u, w)' = Limited(u, w) \cup {n} /\ n \notin Limited(u, w)
      BY <1>8, <2>2 DEF Limited
    <3>2. PosingIn(u, w)' = PosingIn(u, w) \ {s} /\ s \in PosingIn(u, w)
      BY <1>1, <1>2, <2>2 DEF PosingIn
    <3>3. /\ IsFiniteSet(Limited(u, w)) /\ Cardinality(Limited(u, w)) \in Nat
          /\ IsFiniteSet(PosingIn(u, w)) /\ Cardinality(PosingIn(u, w)) \in Nat
          /\ Cardinality(Sessions) \in Nat
      BY LimitedFinite, SessionSets DEF PosingIn, Posed
    <3>4. /\ Cardinality(Limited(u, w)') = Cardinality(Limited(u, w)) + 1
          /\ Cardinality(PosingIn(u, w)') = Cardinality(PosingIn(u, w)) - 1
      <4>1. /\ Cardinality(Limited(u, w) \cup {n}) = Cardinality(Limited(u, w)) + 1
            /\ Cardinality(PosingIn(u, w) \ {s}) = Cardinality(PosingIn(u, w)) - 1
        BY <3>1, <3>2, <3>3, FS_AddElement, FS_RemoveElement
      <4>2. QED
        BY <3>1, <3>2, <4>1, Zenon
    <3>5. QED
      BY <2>1, <2>2, <3>3, <3>4
  <2>3. CASE x = u /\ y = w /\ b.type \in UNLIMITED
    <3>1. Limited(u, w)' = Limited(u, w) /\ PosingIn(u, w)' = PosingIn(u, w)
      BY <1>1, <1>2, <1>8, <2>3 DEF Limited, PosingIn
    <3>2. QED
      BY <2>1, <2>3, <3>1
  <2>4. CASE ~(x = u /\ y = w)
    <3>1. Limited(x, y)' = Limited(x, y) /\ PosingIn(x, y)' = PosingIn(x, y)
      BY <1>1, <1>2, <1>7, <2>4 DEF Limited, PosingIn
    <3>2. QED
      BY <2>1, <3>1
  <2>5. QED
    BY <2>2, <2>3, <2>4
<1>12. WithinSeason'
  <2> SUFFICES ASSUME NEW x \in Users, NEW c \in Poses[x], c.type \notin UNLIMITED,
                      Cardinality(UsesOf(x, c.type)') + Cardinality(PosingOf(x, c.type)') > 0
               PROVE  Cardinality(UsesOf(x, c.type)') + Cardinality(PosingOf(x, c.type)')
                        <= BonusQuota[c.type][size] + Cardinality(Sessions) - 1
    BY <1>1 DEF WithinSeason
  <2>1. Cardinality(UsesOf(x, c.type)) + Cardinality(PosingOf(x, c.type)) > 0 =>
          Cardinality(UsesOf(x, c.type)) + Cardinality(PosingOf(x, c.type))
            <= BonusQuota[c.type][size] + Cardinality(Sessions) - 1
    BY DEF Posed, WithinSeason
  <2>2. ASSUME NEW z \in Uses(x)
        PROVE  posed'[<<x, z[1]>>][z[2]] = posed[<<x, z[1]>>][z[2]]
    <3>1. PICK y \in Weeks : \E i \in DOMAIN posed[<<x, y>>] : z = <<y, i>>
      BY InUses DEF UsesArePlaces, IsPlace
    <3> PICK i \in DOMAIN posed[<<x, y>>] : z = <<y, i>>
      BY <3>1
    <3>2. z[1] = y /\ z[2] = i
      OBVIOUS
    <3>3. posed'[<<x, y>>][i] = posed[<<x, y>>][i]
      BY <1>7, <1>8
    <3>4. QED
      BY <3>2, <3>3
  <2>3. CASE x = u /\ c.type = b.type
    <3>1. /\ UsesOf(u, b.type)' = UsesOf(u, b.type) \cup {<<w, n>>}
          /\ <<w, n>> \notin UsesOf(u, b.type)
      BY <1>8, <1>9, <2>2, <2>3 DEF UsesOf
    <3>2. PosingOf(u, b.type)' = PosingOf(u, b.type) \ {s} /\ s \in PosingOf(u, b.type)
      BY <1>1, <1>2 DEF PosingOf
    <3>3. /\ IsFiniteSet(UsesOf(u, b.type)) /\ Cardinality(UsesOf(u, b.type)) \in Nat
          /\ IsFiniteSet(PosingOf(u, b.type)) /\ Cardinality(PosingOf(u, b.type)) \in Nat
      BY UsesFinite, SessionSets DEF PosingOf, Posed
    <3>4. /\ Cardinality(UsesOf(u, b.type)') = Cardinality(UsesOf(u, b.type)) + 1
          /\ Cardinality(PosingOf(u, b.type)') = Cardinality(PosingOf(u, b.type)) - 1
      <4>1. /\ Cardinality(UsesOf(u, b.type) \cup {<<w, n>>}) = Cardinality(UsesOf(u, b.type)) + 1
            /\ Cardinality(PosingOf(u, b.type) \ {s}) = Cardinality(PosingOf(u, b.type)) - 1
        BY <3>1, <3>2, <3>3, FS_AddElement, FS_RemoveElement
      <4>2. QED
        BY <3>1, <3>2, <4>1, Zenon
    <3>5. Cardinality(UsesOf(u, b.type)') + Cardinality(PosingOf(u, b.type)')
            = Cardinality(UsesOf(u, b.type)) + Cardinality(PosingOf(u, b.type))
      BY <3>3, <3>4
    <3>6. QED
      BY <2>1, <2>3, <3>5
  <2>4. CASE x = u /\ c.type # b.type
    <3>1. UsesOf(x, c.type)' = UsesOf(x, c.type)
      BY <1>8, <1>9, <2>2, <2>4 DEF UsesOf
    <3>2. PosingOf(x, c.type)' = PosingOf(x, c.type)
      BY <1>1, <1>2, <2>4 DEF PosingOf
    <3>3. QED
      BY <2>1, <3>1, <3>2
  <2>5. CASE x # u
    <3>1. UsesOf(x, c.type)' = UsesOf(x, c.type)
      BY <1>9, <2>2, <2>5 DEF UsesOf
    <3>2. PosingOf(x, c.type)' = PosingOf(x, c.type)
      BY <1>1, <1>2, <2>5 DEF PosingOf
    <3>3. QED
      BY <2>1, <3>1, <3>2
  <2>6. QED
    BY <2>3, <2>4, <2>5
<1>13. QED
  BY <1>10, <1>11, <1>12 DEF Posed

\* Every step overruns the limits by no more than what is in flight.
LEMMA PosedStep == Roster /\ Posed /\ [Next]_vars => Posed'
<1> SUFFICES ASSUME Roster, Posed, [Next]_vars PROVE Posed'
  OBVIOUS
<1>1. CASE LeagueNext /\ UNCHANGED <<lineupVars, weekVars>>
  BY <1>1, LeagueRequests, PosedUntouched DEF Roster, lineupVars
<1>2. CASE LineupNext
  <2>1. ASSUME NEW s \in Sessions, NEW u, NEW w, NEW sheet, BeginSave(s, u, w, sheet)
        PROVE  Posed'
    <3>1. PICK r : Begin(s, r) /\ r.kind = "save" /\ IsSave(r)
      BY <2>1 DEF BeginSave, IsSave
    <3>2. UNCHANGED <<size, posed>>
      BY <2>1 DEF BeginSave, leagueVars, lineupVars
    <3>3. \A t \in Sessions : \/ request'[t] = request[t]
                              \/ {request[t].kind, request'[t].kind} \cap {"pose"} = {}
      BY <3>1, BeginStep DEF Roster, Idle
    <3>4. QED
      BY <3>2, <3>3, PosedUntouched
  <2>2. ASSUME NEW s \in Sessions, CommitSave(s)
        PROVE  Posed'
    <3>1. UNCHANGED <<size, posed>> /\ request[s].kind = "save"
      BY <2>2 DEF CommitSave, leagueVars
    <3>2. \A t \in Sessions : \/ request'[t] = request[t]
                              \/ {request[t].kind, request'[t].kind} \cap {"pose"} = {}
      BY <2>2, <3>1, CommitSaveStep DEF Roster, Idle
    <3>3. QED
      BY <3>1, <3>2, PosedUntouched
  <2>3. ASSUME NEW s \in Sessions, NEW u \in ToSet(members), NEW w \in Weeks,
               NEW b \in Poses[u], BeginPose(s, u, w, b)
        PROVE  Posed'
    <3>1. u \in Users
      BY DEF Roster, Numbered, ToSet
    <3>2. QED
      BY <2>3, <3>1, PosedBegin
  <2>4. ASSUME NEW s \in Sessions, CommitPose(s)
        PROVE  Posed'
    BY <2>4, PosedCommit
  <2>5. QED
    BY <1>2, <2>1, <2>2, <2>3, <2>4 DEF LineupNext
<1>3. CASE WeekNext
  BY <1>3, WeekRequests, PosedUntouched DEF Roster
<1>4. CASE UNCHANGED vars
  BY <1>4, PosedUntouched DEF vars, sessionVars, leagueVars, lineupVars
<1>5. QED
  BY <1>1, <1>2, <1>3, <1>4 DEF Next

\* pose_bonus: checking a quota and posing are not one step, yet requests that
\* pose at once overrun the limit of a week, or the quota of a season, by no more
\* than the others in flight, however many weeks and bonuses there are.
THEOREM BonusOverrunHolds == Spec => []BonusOverrunBounded
<1>1. Roster /\ Posed => BonusOverrunBounded
  <2> SUFFICES ASSUME Roster, Posed PROVE BonusOverrunBounded
    OBVIOUS
  <2>1. Cardinality(Sessions) \in Nat
    BY SessionSets
  <2>2. ASSUME NEW u \in Users, NEW w \in Weeks
        PROVE  Cardinality(Limited(u, w)) <= 1 + (Cardinality(Sessions) - 1)
    <3>1. Cardinality(PosingIn(u, w)) \in Nat /\ Cardinality(Limited(u, w)) \in Nat
      BY SessionSets, LimitedFinite DEF PosingIn, Posed
    <3>2. QED
      BY <2>1, <3>1 DEF Posed, WithinWeek
  <2>3. ASSUME NEW u \in Users, NEW b \in Poses[u], b.type \notin UNLIMITED,
               bonus_usage_count(u, b.type) > 0
        PROVE  bonus_usage_count(u, b.type)
                 <= BonusQuota[b.type][size] + (Cardinality(Sessions) - 1)
    <3>1. Cardinality(PosingOf(u, b.type)) \in Nat /\ Cardinality(UsesOf(u, b.type)) \in Nat
      BY SessionSets, UsesFinite DEF PosingOf, Posed
    <3>2. bonus_usage_count(u, b.type) = Cardinality(UsesOf(u, b.type))
      BY DEF bonus_usage_count, UsesOf
    <3>3. Cardinality(UsesOf(u, b.type)) + Cardinality(PosingOf(u, b.type))
            <= BonusQuota[b.type][size] + Cardinality(Sessions) - 1
      BY <2>3, <3>1, <3>2 DEF Posed, WithinSeason
    <3>4. BonusQuota[b.type][size] \in Nat
      BY <2>3, LineupsAssumption DEF LineupsAssumption, Roster
    <3>5. QED
      BY <2>1, <3>1, <3>2, <3>3, <3>4
  <2>4. QED
    BY <2>2, <2>3 DEF BonusOverrunBounded
<1>2. QED
  BY <1>1, RosterInit, RosterStep, PosedInit, PosedStep, PTL DEF Spec

-----------------------------------------------------------------------------
(* The results *)

\* Saving a lineup and posing a bonus are requests of their own too.
LEMMA LineupRequests ==
  ASSUME Served, LineupNext
  PROVE  /\ Served' /\ fixtures' = fixtures
         /\ \A s \in Sessions :
              \/ request'[s] = request[s]
              \/ {request[s].kind, request'[s].kind} \subseteq {"idle", "save", "pose"}
<1> DEFINE Kept ==
      /\ Served' /\ fixtures' = fixtures
      /\ \A s \in Sessions :
           \/ request'[s] = request[s]
           \/ {request[s].kind, request'[s].kind} \subseteq {"idle", "save", "pose"}
<1>1. ASSUME NEW s \in Sessions, NEW u, NEW w, NEW sheet, BeginSave(s, u, w, sheet)
      PROVE  Kept
  <2>1. PICK r : Begin(s, r) /\ r.kind = "save" /\ IsSave(r)
    BY <1>1 DEF BeginSave, IsSave
  <2>2. QED
    BY <1>1, <2>1, BeginStep DEF BeginSave, leagueVars, Idle
<1>2. ASSUME NEW s \in Sessions, NEW u, NEW w, NEW b, BeginPose(s, u, w, b)
      PROVE  Kept
  BY <1>2, BeginStep DEF BeginPose, leagueVars, Idle
<1>3. ASSUME NEW s \in Sessions, CommitPose(s)
      PROVE  Kept
  BY <1>3, EndStep DEF CommitPose, leagueVars, Idle
<1>4. ASSUME NEW s \in Sessions, CommitSave(s)
      PROVE  Kept
  <2>1. fixtures' = fixtures /\ request[s].kind = "save"
    BY <1>4 DEF CommitSave, leagueVars
  <2>2. \A t \in Sessions \ {s} :
          \/ request'[t] = request[t]
          \/ request[t].kind = "save" /\ request'[t].kind = "save"
    BY <1>4, CommitSaveStep
  <2>3. QED
    BY <2>1, <2>2, <1>4, CommitSaveStep DEF Idle
<1>5. QED
  BY <1>1, <1>2, <1>3, <1>4 DEF LineupNext

IsResult(r) == DOMAIN r = DOMAIN Unplayed

\* The rows and the results about to be written are what they should be, and a
\* resolution in flight is about fixtures that it read without a result.
Recorded ==
  /\ \A i \in DOMAIN fixtures :
       "result" \in DOMAIN fixtures[i] /\ IsResult(fixtures[i].result)
  /\ \A s \in Sessions : request[s].kind \in {"resolve", "replay"} =>
       \A i \in DOMAIN request[s].outcome :
         /\ IsResult(request[s].outcome[i].result)
         /\ request[s].kind = "resolve" => ~request[s].outcome[i].before.resolved

\* Nothing is published in the beginning.
LEMMA RecordedInit == Init => Recorded
  BY DEF Init, SessionInit, LeagueInit, Recorded, Idle

\* A step that leaves the results alone, whatever it says of resolutions.
LEMMA RecordedUntouched ==
  ASSUME Recorded, fixtures' = fixtures,
         \A s \in Sessions : \/ request'[s] = request[s]
                             \/ request'[s].kind \notin {"resolve", "replay"}
  PROVE  Recorded'
<1>1. \A i \in DOMAIN fixtures' :
        "result" \in DOMAIN fixtures'[i] /\ IsResult(fixtures'[i].result)
  BY DEF Recorded
<1>2. ASSUME NEW s \in Sessions, request'[s].kind \in {"resolve", "replay"}
      PROVE  \A i \in DOMAIN request'[s].outcome :
               /\ IsResult(request'[s].outcome[i].result)
               /\ request'[s].kind = "resolve" => ~request'[s].outcome[i].before.resolved
  BY <1>2 DEF Recorded
<1>3. QED
  BY <1>1, <1>2 DEF Recorded, IsResult

\* Rows that are laid have not been played.
LEMMA LaidRows ==
  ASSUME Roster, NEW rows, Laid(rows), NEW i \in DOMAIN rows
  PROVE  "result" \in DOMAIN rows[i] /\ rows[i].result = Unplayed
<1>1. /\ Plain(rows) = rows /\ \E order : rows = FixtureList(order)
  BY LaidFirst DEF Laid
<1>2. PICK order : rows = FixtureList(order)
  BY <1>1
<1>3. PICK w, p : rows[i] = Row(w, p)
  BY <1>2 DEF FixtureList
<1>4. QED
  BY <1>3 DEF Row

\* What the engine hands back is a result, beside the one it was read over.
LEMMA PublishedShape ==
  ASSUME NEW row, NEW r
  PROVE  IsResult(Published(row, r).result) /\ Published(row, r).before = row.result
  BY DEF Published, IsResult, Unplayed

\* What reaches the row, column by column, is a result.
LEMMA WrittenShape ==
  ASSUME NEW now, NEW before, NEW new, IsResult(new)
  PROVE  IsResult(Written(now, before, new))
  BY DEF Written, IsResult

\* Laying a calendar publishes nothing.
LEMMA RecordedLeague ==
  ASSUME Roster, Fixtured, Recorded, LeagueNext
  PROVE  Recorded'
<1>1. \A s \in Sessions : request'[s] = request[s]
                          \/ request'[s].kind \notin {"resolve", "replay"}
  BY LeagueRequests DEF Roster
<1>2. CASE fixtures' = fixtures
  BY <1>1, <1>2, RecordedUntouched
<1>3. CASE fixtures' # fixtures
  <2>1. PICK s \in Sessions : CommitLay(s)
    BY <1>3 DEF LeagueNext, BeginJoin, FlushJoin, JoinRefused, CommitJoin,
                      BeginGenerate, BeginOpenScreen,
                BeginOpen, MercatoCloses, leagueVars
  <2>2. Laid(fixtures')
    BY <1>3, <2>1, LaidOnce
  <2>3. \A i \in DOMAIN fixtures' :
          "result" \in DOMAIN fixtures'[i] /\ IsResult(fixtures'[i].result)
    <3>1. PICK rows : rows = fixtures'
      OBVIOUS
    <3>2. \A i \in DOMAIN rows : "result" \in DOMAIN rows[i] /\ rows[i].result = Unplayed
      BY <2>2, <3>1, LaidRows
    <3>3. QED
      BY <3>1, <3>2 DEF IsResult
  <2>4. QED
    BY <1>1, <2>3 DEF Recorded, IsResult
<1>4. QED
  BY <1>2, <1>3

\* A resolution remembers every fixture of its week as it read it.
LEMMA RecordedBeginResolve ==
  ASSUME Roster, Recorded, NEW s \in Sessions, NEW w, BeginResolve(s, w)
  PROVE  Recorded'
<1>1. PICK rows \in SUBSET Due(w) :
        Begin(s, [kind |-> "resolve", outcome |-> [i \in rows |-> Outcome(fixtures[i])]])
  BY DEF BeginResolve
<1> DEFINE o == [i \in rows |-> Outcome(fixtures[i])]
<1>2. /\ request'[s].kind = "resolve" /\ request'[s].outcome = o
      /\ \A t \in Sessions \ {s} : request'[t] = request[t]
  BY <1>1, BeginStep DEF Roster
<1>3. ASSUME NEW i \in DOMAIN o
      PROVE  IsResult(o[i].result) /\ ~o[i].before.resolved
  <2>1. i \in Due(w) /\ o[i] = Outcome(fixtures[i])
    OBVIOUS
  <2>2. IsResult(Outcome(fixtures[i]).result)
        /\ Outcome(fixtures[i]).before = fixtures[i].result
    BY PublishedShape DEF Outcome
  <2>3. ~fixtures[i].result.resolved
    BY <2>1 DEF Due
  <2>4. QED
    BY <2>1, <2>2, <2>3
<1> HIDE DEF o
<1>4. fixtures' = fixtures
  BY DEF BeginResolve, leagueVars
<1>5. ASSUME NEW t \in Sessions, request'[t].kind \in {"resolve", "replay"}
      PROVE  \A i \in DOMAIN request'[t].outcome :
               /\ IsResult(request'[t].outcome[i].result)
               /\ request'[t].kind = "resolve" => ~request'[t].outcome[i].before.resolved
  <2>1. CASE t = s
    BY <1>2, <1>3, <2>1
  <2>2. CASE t # s
    BY <1>2, <1>5, <2>2 DEF Recorded
  <2>3. QED
    BY <2>1, <2>2
<1>6. QED
  BY <1>4, <1>5 DEF Recorded, IsResult

\* So does a replay of its one fixture.
LEMMA RecordedBeginReplay ==
  ASSUME Roster, Recorded, NEW s \in Sessions, NEW i, BeginReplay(s, i)
  PROVE  Recorded'
<1>1. Begin(s, [kind |-> "replay", outcome |-> [j \in {i} |-> Outcome(fixtures[j])]])
  BY DEF BeginReplay
<1> DEFINE o == [j \in {i} |-> Outcome(fixtures[j])]
<1>2. /\ request'[s].kind = "replay" /\ request'[s].outcome = o
      /\ \A t \in Sessions \ {s} : request'[t] = request[t]
  BY <1>1, BeginStep DEF Roster
<1>3. DOMAIN o = {i} /\ o[i] = Outcome(fixtures[i])
  OBVIOUS
<1> HIDE DEF o
<1>4. \A j \in DOMAIN o : IsResult(o[j].result)
  BY <1>3, PublishedShape DEF Outcome
<1>5. fixtures' = fixtures
  BY DEF BeginReplay, leagueVars
<1>6. ASSUME NEW t \in Sessions, request'[t].kind \in {"resolve", "replay"}
      PROVE  \A j \in DOMAIN request'[t].outcome :
               /\ IsResult(request'[t].outcome[j].result)
               /\ request'[t].kind = "resolve" => ~request'[t].outcome[j].before.resolved
  <2>1. CASE t = s
    BY <1>2, <1>4, <2>1
  <2>2. CASE t # s
    BY <1>2, <1>6, <2>2 DEF Recorded
  <2>3. QED
    BY <2>1, <2>2
<1>7. QED
  BY <1>5, <1>6 DEF Recorded, IsResult

\* Committing results keeps every row a result.
LEMMA RecordedCommitResults ==
  ASSUME Roster, Recorded, NEW s \in Sessions, CommitResults(s)
  PROVE  Recorded'
<1>1. /\ request'[s] = Idle /\ request[s].kind \in {"resolve", "replay"}
      /\ \A t \in Sessions \ {s} : request'[t] = request[t]
  BY EndStep DEF Roster, CommitResults
<1> DEFINE o == request[s].outcome
<1>2. fixtures' =
        [i \in DOMAIN fixtures |->
           IF i \in DOMAIN o
           THEN [fixtures[i] EXCEPT !.result = Written(fixtures[i].result, o[i].before, o[i].result)]
           ELSE fixtures[i]]
  BY DEF CommitResults
<1>3. \A i \in DOMAIN o : IsResult(o[i].result)
  BY <1>1 DEF Recorded
<1> HIDE DEF o
<1>4. ASSUME NEW i \in DOMAIN fixtures
      PROVE  "result" \in DOMAIN fixtures'[i] /\ IsResult(fixtures'[i].result)
  <2>1. "result" \in DOMAIN fixtures[i] /\ IsResult(fixtures[i].result)
    BY DEF Recorded
  <2>2. CASE i \notin DOMAIN o
    BY <1>2, <2>1, <2>2
  <2>3. CASE i \in DOMAIN o
    <3> DEFINE x == Written(fixtures[i].result, o[i].before, o[i].result)
    <3>1. fixtures'[i] = [fixtures[i] EXCEPT !.result = x] /\ IsResult(x)
      BY <1>2, <1>3, <2>3, WrittenShape
    <3> HIDE DEF x
    <3>2. QED
      BY <2>1, <3>1
  <2>4. QED
    BY <2>2, <2>3
<1>5. ASSUME NEW t \in Sessions, request'[t].kind \in {"resolve", "replay"}
      PROVE  t # s /\ request'[t] = request[t]
  BY <1>1, <1>5 DEF Idle
<1>6. DOMAIN fixtures' = DOMAIN fixtures
  BY <1>2
<1>7. QED
  BY <1>4, <1>5, <1>6 DEF Recorded, IsResult

\* A refresh raises flags: the published score and report stay.
LEMMA FlagOnly ==
  ASSUME NEW row, "result" \in DOMAIN row, IsResult(row.result)
  PROVE  LET x == [row EXCEPT !.result.flagged = TRUE]
         IN /\ "result" \in DOMAIN x /\ IsResult(x.result)
            /\ x.result.home = row.result.home /\ x.result.away = row.result.away
            /\ x.result.report = row.result.report
<1>1. DOMAIN row.result = {"resolved", "home", "away", "flagged", "report"}
  BY DEF IsResult, Unplayed
<1>2. QED
  BY <1>1 DEF IsResult, Unplayed

\* A refresh raises flags and touches no score.
LEMMA RefreshStep ==
  ASSUME Recorded, NEW s \in Sessions, CommitRefresh(s)
  PROVE  /\ DOMAIN fixtures' = DOMAIN fixtures
         /\ \A i \in DOMAIN fixtures :
              /\ "result" \in DOMAIN fixtures'[i] /\ IsResult(fixtures'[i].result)
              /\ Score(i)' = Score(i)
<1>1. fixtures' = [i \in DOMAIN fixtures |->
                     IF i \in request[s].flags
                     THEN [fixtures[i] EXCEPT !.result.flagged = TRUE] ELSE fixtures[i]]
  BY DEF CommitRefresh
<1>2. ASSUME NEW i \in DOMAIN fixtures
      PROVE  /\ "result" \in DOMAIN fixtures'[i] /\ IsResult(fixtures'[i].result)
             /\ Score(i)' = Score(i)
  <2>1. "result" \in DOMAIN fixtures[i] /\ IsResult(fixtures[i].result)
    BY DEF Recorded
  <2>2. CASE i \notin request[s].flags
    BY <1>1, <2>1, <2>2 DEF Score
  <2>3. CASE i \in request[s].flags
    <3>1. fixtures'[i] = [fixtures[i] EXCEPT !.result.flagged = TRUE]
      BY <1>1, <2>3
    <3>2. /\ "result" \in DOMAIN fixtures'[i] /\ IsResult(fixtures'[i].result)
          /\ fixtures'[i].result.home = fixtures[i].result.home
          /\ fixtures'[i].result.away = fixtures[i].result.away
          /\ fixtures'[i].result.report = fixtures[i].result.report
      BY <2>1, <3>1, FlagOnly
    <3>3. QED
      BY <3>2 DEF Score
  <2>4. QED
    BY <2>2, <2>3
<1>3. QED
  BY <1>1, <1>2

\* Every step of a season keeps every row a result.
LEMMA RecordedStep == Roster /\ Fixtured /\ Recorded /\ [Next]_vars => Recorded'
<1> SUFFICES ASSUME Roster, Fixtured, Recorded, [Next]_vars PROVE Recorded'
  OBVIOUS
<1>1. CASE LineupNext
  <2>1. /\ fixtures' = fixtures
        /\ \A s \in Sessions : request'[s] = request[s]
                               \/ request'[s].kind \notin {"resolve", "replay"}
    BY <1>1, LineupRequests DEF Roster
  <2>2. QED
    BY <2>1, RecordedUntouched
<1>2. CASE WeekNext
  <2>1. ASSUME NEW s \in Sessions, NEW w, BeginRefresh(s, w)
        PROVE  Recorded'
    <3>1. PICK r : Begin(s, r) /\ r.kind = "refresh"
      BY <2>1 DEF BeginRefresh
    <3>2. /\ fixtures' = fixtures
          /\ \A t \in Sessions : request'[t] = request[t]
                                 \/ request'[t].kind \notin {"resolve", "replay"}
      BY <2>1, <3>1, BeginStep DEF Roster, BeginRefresh, leagueVars
    <3>3. QED
      BY <3>2, RecordedUntouched
  <2>2. ASSUME NEW s \in Sessions, RefreshFails(s)
        PROVE  Recorded'
    <3>1. /\ fixtures' = fixtures
          /\ \A t \in Sessions : request'[t] = request[t]
                                 \/ request'[t].kind \notin {"resolve", "replay"}
      BY <2>2, EndStep DEF Roster, RefreshFails, leagueVars, Idle
    <3>2. QED
      BY <3>1, RecordedUntouched
  <2>3. ASSUME NEW s \in Sessions, CommitRefresh(s)
        PROVE  Recorded'
    <3>1. \A t \in Sessions : request'[t] = request[t]
                              \/ request'[t].kind \notin {"resolve", "replay"}
      BY <2>3, EndStep DEF Roster, CommitRefresh, Idle
    <3>2. QED
      BY <2>3, <3>1, RefreshStep DEF Recorded, IsResult
  <2>4. QED
    BY <1>2, <2>1, <2>2, <2>3, RecordedBeginResolve, RecordedBeginReplay,
       RecordedCommitResults DEF WeekNext
<1>3. CASE UNCHANGED vars
  BY <1>3, RecordedUntouched DEF vars, sessionVars, leagueVars
<1>4. QED
  BY <1>1, <1>2, <1>3, RecordedLeague DEF Next

\* What a step does to the result of fixture i unless it is a commit of results.
Kept(i) == Score(i)' = Score(i) /\ credit' = credit

\* Only a resolution or a replay that commits changes a score.
LEMMA OnlyResultsPublish ==
  ASSUME Roster, Fixtured, Recorded, [Next]_vars, NEW i \in DOMAIN fixtures
  PROVE  Kept(i) \/ \E s \in Sessions : CommitResults(s)
<1>1. CASE LeagueNext /\ UNCHANGED <<lineupVars, weekVars>>
  <2>1. fixtures' = fixtures
    <3>1. CASE \E s \in Sessions : CommitLay(s)
      BY <3>1, LaidOnce
    <3>2. CASE ~\E s \in Sessions : CommitLay(s)
      BY <1>1, <3>2 DEF LeagueNext, BeginJoin, FlushJoin, JoinRefused, CommitJoin,
                      BeginGenerate,
                        BeginOpenScreen, BeginOpen, MercatoCloses, leagueVars
    <3>3. QED
      BY <3>1, <3>2
  <2>2. QED
    BY <1>1, <2>1 DEF Kept, Score, weekVars
<1>2. CASE LineupNext /\ UNCHANGED weekVars
  BY <1>2, LineupRequests DEF Kept, Score, weekVars, Roster
<1>3. CASE WeekNext
  <2>1. ASSUME NEW s \in Sessions, CommitRefresh(s)
        PROVE  Kept(i)
    BY <2>1, RefreshStep DEF CommitRefresh, Kept
  <2>2. ASSUME NEW s \in Sessions, NEW x,
               BeginResolve(s, x) \/ BeginRefresh(s, x) \/ BeginReplay(s, x) \/ RefreshFails(s)
        PROVE  Kept(i)
    BY <2>2 DEF BeginResolve, BeginRefresh, BeginReplay, RefreshFails, leagueVars,
                weekVars, Kept, Score
  <2>3. QED
    BY <1>3, <2>1, <2>2 DEF WeekNext
<1>4. CASE UNCHANGED vars
  BY <1>4 DEF vars, leagueVars, weekVars, Kept, Score
<1>5. QED
  BY <1>1, <1>2, <1>3, <1>4 DEF Next

\* jobs.py:8-9, matchday.py:201: no number of requests, in whatever order they
\* interleave, changes a published result or pays its Valise again, but a replay
\* or a resolution that read the fixture before it was published.
THEOREM PublishedResultsStand == Spec => PublishedStands
<1> DEFINE
      Disturbed(i) == fixtures[i].result.resolved /\ (Score(i) # Score(i)' \/ credit' # credit)
      Author(s, i) ==
        /\ request[s].kind \in {"resolve", "replay"} /\ request'[s] = Idle
        /\ i \in DOMAIN request[s].outcome =>
             request[s].kind = "replay" \/ ~request[s].outcome[i].before.resolved
        /\ Score(i) # Score(i)' => i \in DOMAIN request[s].outcome
<1>1. ASSUME Roster, Fixtured, Recorded, [Next]_vars,
             NEW i \in DOMAIN fixtures, Disturbed(i)
      PROVE  \E s \in Sessions : Author(s, i)
  <2>1. PICK s \in Sessions : CommitResults(s)
    BY <1>1, OnlyResultsPublish DEF Kept
  <2>2. request[s].kind \in {"resolve", "replay"} /\ request'[s] = Idle
    BY <1>1, <2>1, EndStep DEF CommitResults, Roster
  <2>3. i \in DOMAIN request[s].outcome =>
          request[s].kind = "replay" \/ ~request[s].outcome[i].before.resolved
    BY <1>1, <2>2 DEF Recorded
  <2>4. i \notin DOMAIN request[s].outcome => fixtures'[i] = fixtures[i]
    BY <2>1 DEF CommitResults
  <2>5. Score(i) # Score(i)' => i \in DOMAIN request[s].outcome
    BY <2>4 DEF Score
  <2>6. QED
    BY <2>2, <2>3, <2>5
<1>2. Roster /\ Fixtured /\ Recorded /\ [Next]_vars =>
        \A i \in DOMAIN fixtures : Disturbed(i) => \E s \in Sessions : Author(s, i)
  BY <1>1
<1>3. Roster /\ Fixtured /\ Recorded /\ [Next]_vars =>
        [\A i \in DOMAIN fixtures : Disturbed(i) => \E s \in Sessions : Author(s, i)]_vars
  BY <1>2
<1>4. Roster /\ Fixtured /\ Recorded /\ [Next]_vars => (Roster /\ Fixtured /\ Recorded)'
  BY RosterStep, FixturedStep, RecordedStep
<1>5. Init => Roster /\ Fixtured /\ Recorded
  BY RosterInit, FixturedInit, RecordedInit
<1>6. QED
  BY <1>3, <1>4, <1>5, PTL DEF Spec, PublishedStands

-----------------------------------------------------------------------------
(* Lineups: they are legal when they are saved, and stay so.  Two saves of one
   lineup that overlap could leave the rows of both behind; they cannot as long
   as no squad is large enough for two lineups without a player in common. *)


\* No squad fills two lineups: fewer than 36 players, for eleven starters and
\* seven substitutes.
SmallSquads ==
  \A u \in Users :
    /\ IsFiniteSet(SquadOf[u])
    /\ Cardinality(SquadOf[u]) < 2 * (Starters + BenchSize)

-----------------------------------------------------------------------------
(* Reading back the players of a role *)

\* How many numbers an interval has.
LEMMA IntervalSize ==
  ASSUME NEW a \in Int, NEW b \in Int, a <= b + 1
  PROVE  IsFiniteSet(a..b) /\ Cardinality(a..b) = b + 1 - a
<1>1. IsFiniteSet(a..b) /\ Cardinality(a..b) = IF a > b THEN 0 ELSE b - a + 1
  BY FS_Interval
<1>2. QED
  BY <1>1

\* A strictly increasing list of n numbers among the first n leaves none out.
LEMMA RanksAreOrders ==
  ASSUME NEW n \in Nat, NEW f \in [1..n -> 1..n],
         \A i, j \in 1..n : i < j => f[i] < f[j],
         NEW i \in 1..n
  PROVE  f[i] = i
<1>1. PICK c \in 1..n : c = f[i]
  OBVIOUS
<1>2. /\ \A j \in 1..n : f[j] \in 1..n /\ (j < i => f[j] < c) /\ (j > i => f[j] > c)
      /\ \A j, k \in 1..n : f[j] = f[k] => j = k
  <2>1. ASSUME NEW j \in 1..n, NEW k \in 1..n, f[j] = f[k]
        PROVE  j = k
    <3>1. j < k \/ k < j \/ j = k
      OBVIOUS
    <3>2. f[j] \in Int /\ f[k] \in Int
      OBVIOUS
    <3>3. QED
      BY <2>1, <3>1, <3>2
  <2>2. QED
    BY <1>1, <2>1
<1>3. i <= c
  <2> DEFINE g == [j \in 1..(i - 1) |-> f[j]]
  <2>1. g \in Injection(1..(i - 1), 1..(c - 1))
    <3>1. \A j \in 1..(i - 1) : j \in 1..n /\ j < i
      OBVIOUS
    <3>2. \A j \in 1..(i - 1) : f[j] \in 1..(c - 1)
      BY <1>2, <3>1
    <3>3. \A j, k \in 1..(i - 1) : f[j] = f[k] => j = k
      BY <1>2, <3>1
    <3>4. QED
      BY <3>2, <3>3 DEF Injection, IsInjective
  <2>2. /\ IsFiniteSet(1..(c - 1)) /\ Cardinality(1..(c - 1)) = c - 1
        /\ Cardinality(1..(i - 1)) = i - 1
    <3>1. /\ 1 \in Int /\ c - 1 \in Int /\ i - 1 \in Int
          /\ 1 <= (c - 1) + 1 /\ 1 <= (i - 1) + 1
          /\ (c - 1) + 1 - 1 = c - 1 /\ (i - 1) + 1 - 1 = i - 1
      OBVIOUS
    <3>2. /\ IsFiniteSet(1..(c - 1)) /\ Cardinality(1..(c - 1)) = (c - 1) + 1 - 1
      BY <3>1, IntervalSize
    <3>3. Cardinality(1..(i - 1)) = (i - 1) + 1 - 1
      BY <3>1, IntervalSize
    <3>4. QED
      BY <3>1, <3>2, <3>3
  <2> HIDE DEF g
  <2>3. Cardinality(1..(i - 1)) <= Cardinality(1..(c - 1))
    BY <2>1, <2>2, FS_Injection
  <2>4. QED
    BY <2>2, <2>3
<1>4. c <= i
  <2> DEFINE g == [j \in (i + 1)..n |-> f[j]]
  <2>1. g \in Injection((i + 1)..n, (c + 1)..n)
    <3>1. \A j \in (i + 1)..n : j \in 1..n /\ j > i
      OBVIOUS
    <3>2. ASSUME NEW j \in (i + 1)..n
          PROVE  f[j] \in (c + 1)..n
      <4>1. f[j] \in 1..n /\ f[j] > c
        BY <1>2, <3>1
      <4>2. QED
        BY <4>1
    <3>3. \A j, k \in (i + 1)..n : f[j] = f[k] => j = k
      BY <1>2, <3>1
    <3>4. QED
      BY <3>2, <3>3 DEF Injection, IsInjective
  <2>2. /\ IsFiniteSet((c + 1)..n) /\ Cardinality((c + 1)..n) = n - c
        /\ Cardinality((i + 1)..n) = n - i
    <3>1. c + 1 \in Int /\ i + 1 \in Int /\ n \in Int /\ c <= n /\ i <= n
      OBVIOUS
    <3>2. /\ IsFiniteSet((c + 1)..n)
          /\ Cardinality((c + 1)..n) = IF c + 1 > n THEN 0 ELSE n - (c + 1) + 1
          /\ Cardinality((i + 1)..n) = IF i + 1 > n THEN 0 ELSE n - (i + 1) + 1
      BY <3>1, FS_Interval
    <3>3. QED
      BY <3>1, <3>2
  <2> HIDE DEF g
  <2>3. Cardinality((i + 1)..n) <= Cardinality((c + 1)..n)
    BY <2>1, <2>2, FS_Injection
  <2>4. QED
    BY <2>2, <2>3
<1>5. QED
  BY <1>1, <1>3, <1>4

\* The rows of a list of players, one per place.
LEMMA SlotsInOrder ==
  ASSUME NEW S, NEW players \in Seq(S), NEW role,
         NEW q \in SetToSeqs(Slots(players, role)),
         \A i, j \in DOMAIN q : i < j => q[i].order <= q[j].order
  PROVE  [i \in DOMAIN q |-> q[i].player] = players
<1> DEFINE n == Len(players)
           rows == Slots(players, role)
           row(i) == [player |-> players[i], role |-> role, order |-> i]
<1>1. n \in Nat /\ DOMAIN players = 1..n /\ players = [i \in 1..n |-> players[i]]
  OBVIOUS
<1>2. /\ \A i \in 1..n : row(i).order = i /\ row(i).player = players[i]
      /\ rows = {row(i) : i \in 1..n}
  BY <1>1 DEF Slots
<1>3. IsFiniteSet(rows) /\ Cardinality(rows) = n
  <2> DEFINE f == [i \in 1..n |-> row(i)]
  <2>1. f \in Surjection(1..n, rows) /\ f \in Injection(1..n, rows)
    BY <1>2 DEF Surjection, Injection, IsInjective
  <2> HIDE DEF f, rows, n
  <2>2. IsFiniteSet(1..n) /\ Cardinality(1..n) = n
    <3>1. 1 \in Int /\ n \in Int /\ 1 <= n + 1 /\ n + 1 - 1 = n
      BY <1>1
    <3>2. IsFiniteSet(1..n) /\ Cardinality(1..n) = n + 1 - 1
      BY <3>1, IntervalSize
    <3>3. QED
      BY <3>1, <3>2
  <2>3. QED
    BY <2>1, <2>2, FS_Surjection
<1>4. /\ q \in [1..n -> rows] /\ DOMAIN q = 1..n
      /\ \A i, j \in 1..n : i # j => q[i] # q[j]
  <2> HIDE DEF rows, n
  <2>1. q \in [1..Cardinality(rows) -> rows]
        /\ \A i, j \in 1..Cardinality(rows) : i # j => q[i] # q[j]
    BY DEF SetToSeqs, rows
  <2>2. QED
    BY <1>3, <2>1
<1> HIDE DEF rows, row, n
<1>5. \A i \in 1..n : q[i].order \in 1..n /\ q[i] = row(q[i].order)
  BY <1>2, <1>4
<1>6. \A i, j \in 1..n : i < j => q[i].order < q[j].order
  BY <1>1, <1>4, <1>5
<1>7. \A i \in 1..n : q[i].order = i
  <2> DEFINE f == [i \in 1..n |-> q[i].order]
  <2>1. f \in [1..n -> 1..n] /\ \A i, j \in 1..n : i < j => f[i] < f[j]
    BY <1>5, <1>6
  <2> HIDE DEF f
  <2>2. \A i \in 1..n : f[i] = i
    BY <1>1, <2>1, RanksAreOrders
  <2>3. QED
    BY <2>2 DEF f
<1>8. \A i \in 1..n : q[i].player = players[i]
  BY <1>2, <1>5, <1>7
<1>9. QED
  BY <1>1, <1>4, <1>8

\* The slots of a sheet can be read back in their order.
LEMMA SlotsAsRows ==
  ASSUME NEW S, NEW players \in Seq(S), NEW role
  PROVE  \E q \in SetToSeqs(Slots(players, role)) :
           \A i, j \in DOMAIN q : i < j => q[i].order <= q[j].order
<1> DEFINE n == Len(players)
           rows == Slots(players, role)
           q == [i \in 1..n |-> [player |-> players[i], role |-> role, order |-> i]]
<1>1. n \in Nat /\ DOMAIN players = 1..n
  OBVIOUS
<1>2. \A i \in 1..n : q[i].order = i /\ q[i] \in rows
  BY <1>1 DEF Slots
<1>3. \A x \in rows : \E i \in 1..n : x = q[i]
  BY <1>1 DEF Slots
<1>4. q \in Surjection(1..n, rows) /\ q \in Injection(1..n, rows)
  BY <1>2, <1>3 DEF Surjection, Injection, IsInjective
<1>5. DOMAIN q = 1..n
  OBVIOUS
<1> HIDE DEF q, rows, n
<1>6. IsFiniteSet(1..n) /\ Cardinality(1..n) = n
  <2>1. 1 \in Int /\ n \in Int /\ 1 <= n + 1 /\ n + 1 - 1 = n
    BY <1>1
  <2>2. IsFiniteSet(1..n) /\ Cardinality(1..n) = n + 1 - 1
    BY <2>1, IntervalSize
  <2>3. QED
    BY <2>1, <2>2
<1>7. Cardinality(rows) = n
  BY <1>4, <1>6, FS_Surjection
<1>8. q \in SetToSeqs(rows)
  <2>1. q \in [1..n -> rows] /\ \A i, j \in 1..n : i # j => q[i] # q[j]
    BY <1>2, <1>4, <1>5 DEF Injection, IsInjective
  <2>2. QED
    BY <1>7, <2>1 DEF SetToSeqs
<1>9. \A i, j \in DOMAIN q : i < j => q[i].order <= q[j].order
  BY <1>1, <1>2, <1>5
<1>10. QED
  BY <1>8, <1>9 DEF rows

\* InRole gives back the list that was saved.
LEMMA InRoleReads ==
  ASSUME NEW S, NEW players \in Seq(S), NEW role, NEW lineup,
         {x \in lineup.slots : x.role = role} = Slots(players, role)
  PROVE  InRole(lineup, role) = players
<1> DEFINE read == {x \in lineup.slots : x.role = role}
           saved == Slots(players, role)
           sorted(q) == \A i, j \in DOMAIN q : i < j => q[i].order <= q[j].order
           it(rows) == CHOOSE q \in SetToSeqs(rows) : sorted(q)
<1>1. InRole(lineup, role) = [i \in DOMAIN it(read) |-> it(read)[i].player]
  BY DEF InRole
<1>2. it(saved) \in SetToSeqs(saved) /\ sorted(it(saved))
  BY SlotsAsRows
<1>3. read = saved
  OBVIOUS
<1> HIDE DEF it, read
<1>4. InRole(lineup, role) = [i \in DOMAIN it(saved) |-> it(saved)[i].player]
  BY <1>1, <1>3
<1>5. QED
  BY <1>2, <1>4, SlotsInOrder

-----------------------------------------------------------------------------
(* Legal lineups *)

Legal(u, w, sheet) ==
  validate_lineup(owned_ids(u), sheet.formation, sheet.starters, sheet.bench, sheet.rules,
                  "formation_424" \in Types(u, w), UltraOf)

SlotsOf(sheet) == Slots(sheet.starters, "starter") \cup Slots(sheet.bench, "bench")

\* The row of a lineup that was saved alone.
AsSaved(sheet) ==
  [formation |-> sheet.formation, slots |-> SlotsOf(sheet), rules |-> sheet.rules,
   live |-> sheet.live]

\* The lists of a sheet are sequences of what is on them.
LEMMA SheetLists ==
  ASSUME NEW u \in Users, NEW sheet \in Sheets[u]
  PROVE  /\ sheet.starters \in Seq(ToSet(sheet.starters))
         /\ sheet.bench \in Seq(ToSet(sheet.bench))
         /\ sheet.rules \in Seq(ToSet(sheet.rules))
  BY LineupsAssumption DEF LineupsAssumption

\* One list after the other.
OneAfter(c, a, b, S) ==
  /\ c \in [1..(Len(a) + Len(b)) -> S]
  /\ \A i \in 1..Len(a) : c[i] = a[i]
  /\ \A i \in 1..Len(b) : c[Len(a) + i] = b[i]

\* Two lists one after the other.
LEMMA Joined ==
  ASSUME NEW S, NEW a \in Seq(S), NEW b \in Seq(S)
  PROVE  OneAfter(a \o b, a, b, S)
<1>1. PICK m \in Nat, n \in Nat : m = Len(a) /\ n = Len(b)
  BY LenProperties
<1>2. PICK c \in Seq(S) : c = a \o b /\ Len(c) = m + n
  BY <1>1, ConcatProperties
<1>3. c \in [1..(m + n) -> S]
  BY <1>2, LenProperties
<1>4. \A i \in 1..(m + n) : c[i] = IF i <= m THEN a[i] ELSE b[i - m]
  BY <1>1, <1>2, ConcatProperties
<1>5. \A i \in 1..m : i \in 1..(m + n) /\ i <= m
  OBVIOUS
<1>6. \A i \in 1..n : m + i \in 1..(m + n) /\ ~(m + i <= m) /\ (m + i) - m = i
  OBVIOUS
<1>7. (\A i \in 1..m : c[i] = a[i]) /\ (\A i \in 1..n : c[m + i] = b[i])
  BY <1>4, <1>5, <1>6
<1>8. OneAfter(c, a, b, S)
  BY <1>1, <1>3, <1>7 DEF OneAfter
<1>9. QED
  BY <1>2, <1>8

\* The players of a legal lineup, as many as it has places.
LEMMA LegalPlayers ==
  ASSUME NEW u \in Users, NEW w, NEW sheet \in Sheets[u], Legal(u, w, sheet)
  PROVE  LET players == ToSet(sheet.starters \o sheet.bench)
         IN /\ players \subseteq SquadOf[u] /\ players # {}
            /\ status = "running" /\ u \in ToSet(members)
            /\ IsFiniteSet(players) /\ Cardinality(players) = Starters + BenchSize
            /\ Starters + BenchSize \in Nat
            /\ \A p \in players : \E x \in SlotsOf(sheet) : x.player = p
<1> DEFINE both == sheet.starters \o sheet.bench
           players == ToSet(both)
           n == Starters + BenchSize
           all == ToSet(sheet.starters) \cup ToSet(sheet.bench)
<1>1. /\ Len(sheet.starters) = Starters /\ Len(sheet.bench) = BenchSize
      /\ IsInjective(both) /\ players \subseteq owned_ids(u)
      /\ BenchKeeper(sheet.starters, sheet.bench, UltraOf)
  BY DEF Legal, validate_lineup
<1>2. sheet.starters \in Seq(all) /\ sheet.bench \in Seq(all)
  <2>1. /\ sheet.starters \in Seq(ToSet(sheet.starters))
        /\ sheet.bench \in Seq(ToSet(sheet.bench))
    BY SheetLists
  <2>2. QED
    BY <2>1
<1>3. /\ Starters \in Nat /\ BenchSize \in Nat /\ n \in Nat
      /\ DOMAIN sheet.starters = 1..Starters /\ DOMAIN sheet.bench = 1..BenchSize
  BY <1>1, <1>2
<1>4. /\ DOMAIN both = 1..n
      /\ \A i \in 1..Starters : both[i] = sheet.starters[i]
      /\ \A i \in 1..BenchSize : both[Starters + i] = sheet.bench[i]
      /\ both = [i \in 1..n |-> both[i]]
  <2>1. OneAfter(both, sheet.starters, sheet.bench, all)
    BY <1>2, Joined
  <2> HIDE DEF both, all
  <2>2. QED
    BY <1>1, <2>1 DEF OneAfter
<1>5. \A p \in players : \/ \E i \in 1..Starters : p = sheet.starters[i]
                         \/ \E i \in 1..BenchSize : p = sheet.bench[i]
  <2> SUFFICES ASSUME NEW p \in players
               PROVE  \/ \E i \in 1..Starters : p = sheet.starters[i]
                      \/ \E i \in 1..BenchSize : p = sheet.bench[i]
    OBVIOUS
  <2>1. PICK i \in 1..n : p = both[i]
    BY <1>4 DEF ToSet
  <2>2. CASE i <= Starters
    <3>1. i \in 1..Starters
      BY <1>3, <2>2
    <3>2. QED
      BY <1>4, <2>1, <3>1
  <2>3. CASE i > Starters
    <3>1. PICK j \in 1..BenchSize : i = Starters + j
      <4>1. i - Starters \in 1..BenchSize /\ i = Starters + (i - Starters)
        BY <1>3, <2>3
      <4>2. QED
        BY <4>1
    <3>2. QED
      BY <1>4, <2>1, <3>1
  <2>4. QED
    BY <1>3, <2>2, <2>3
<1>6. \A p \in players : \E x \in SlotsOf(sheet) : x.player = p
  <2> SUFFICES ASSUME NEW p \in players PROVE \E x \in SlotsOf(sheet) : x.player = p
    OBVIOUS
  <2> DEFINE row(list, role, i) == [player |-> list[i], role |-> role, order |-> i]
  <2>1. /\ \A i \in 1..Starters : row(sheet.starters, "starter", i) \in SlotsOf(sheet)
        /\ \A i \in 1..BenchSize : row(sheet.bench, "bench", i) \in SlotsOf(sheet)
    BY <1>3 DEF SlotsOf, Slots
  <2>2. \A list, role, i : row(list, role, i).player = list[i]
    OBVIOUS
  <2> HIDE DEF row
  <2>3. QED
    BY <1>5, <2>1, <2>2
<1>7. players # {}
  <2>1. PICK j \in 1..BenchSize : TRUE
    BY <1>1, <1>3 DEF BenchKeeper
  <2>2. Starters + j \in 1..n
    BY <1>3
  <2>3. QED
    BY <1>4, <2>2 DEF ToSet
<1>8. IsFiniteSet(players) /\ Cardinality(players) = n
  <2> HIDE DEF n
  <2>1. both \in Surjection(1..n, players) /\ both \in Injection(1..n, players)
    <3> HIDE DEF both
    <3>1. QED
      BY <1>1, <1>4 DEF Surjection, Injection, IsInjective, ToSet
  <2>2. IsFiniteSet(1..n) /\ Cardinality(1..n) = n
    <3>1. 1 \in Int /\ n \in Int /\ 1 <= n + 1 /\ n + 1 - 1 = n
      BY <1>3
    <3>2. IsFiniteSet(1..n) /\ Cardinality(1..n) = n + 1 - 1
      BY <3>1, IntervalSize
    <3>3. QED
      BY <3>1, <3>2
  <2> HIDE DEF both, players
  <2>3. QED
    BY <2>1, <2>2, FS_Surjection
<1>9. owned_ids(u) # {}
  BY <1>1, <1>7
<1>10. status = "running" /\ u \in ToSet(members) /\ players \subseteq SquadOf[u]
  BY <1>1, <1>9 DEF owned_ids
<1>11. QED
  BY <1>3, <1>6, <1>7, <1>8, <1>10

\* Two legal lineups of a user have a player in common, and their rows a key.
LEMMA LineupsMeet ==
  ASSUME SmallSquads, NEW u \in Users, NEW w, NEW a \in Sheets[u], NEW b \in Sheets[u],
         Legal(u, w, a), Legal(u, w, b)
  PROVE  SlotTaken(SlotsOf(a), SlotsOf(b))
<1> DEFINE A0 == ToSet(a.starters \o a.bench)
           B0 == ToSet(b.starters \o b.bench)
<1>1. /\ A0 \subseteq SquadOf[u] /\ Cardinality(A0) = Starters + BenchSize
      /\ Starters + BenchSize \in Nat
      /\ \A p \in A0 : \E x \in SlotsOf(a) : x.player = p
  BY LegalPlayers
<1>2. /\ B0 \subseteq SquadOf[u] /\ Cardinality(B0) = Starters + BenchSize
      /\ \A p \in B0 : \E x \in SlotsOf(b) : x.player = p
  BY LegalPlayers
<1> HIDE DEF A0, B0
<1>3. /\ IsFiniteSet(SquadOf[u]) /\ Cardinality(SquadOf[u]) \in Nat
      /\ Cardinality(A0) + Cardinality(B0) > Cardinality(SquadOf[u])
  <2>1. /\ IsFiniteSet(SquadOf[u]) /\ Cardinality(SquadOf[u]) \in Nat
        /\ Cardinality(SquadOf[u]) < 2 * (Starters + BenchSize)
    BY FS_CardinalityType DEF SmallSquads
  <2>2. PICK k : k = Starters + BenchSize
    OBVIOUS
  <2>3. QED
    BY <1>1, <1>2, <2>1, <2>2
<1>4. PICK p : p \in A0 /\ p \in B0
  BY <1>1, <1>2, <1>3, FS_MajoritiesIntersect
<1>5. QED
  BY <1>1, <1>2, <1>4 DEF SlotTaken

\* What makes a lineup legal is never taken back: the season does not stop, no
\* participant leaves, no bonus is withdrawn.
Grows ==
  /\ status = "running" => status' = "running"
  /\ ToSet(members) \subseteq ToSet(members')
  /\ \A u \in Users, w \in Weeks : Types(u, w) \subseteq Types(u, w)'

\* A sheet that is legal stays legal as bonuses are added.
LEMMA LegalStays ==
  ASSUME Grows, NEW u \in Users, NEW w \in Weeks, NEW sheet \in Sheets[u],
         Legal(u, w, sheet)
  PROVE  Legal(u, w, sheet)'
<1> DEFINE OK(owned, bonus) ==
      validate_lineup(owned, sheet.formation, sheet.starters, sheet.bench, sheet.rules,
                      bonus, UltraOf)
<1>1. owned_ids(u)' = owned_ids(u)
  BY LegalPlayers DEF Grows, owned_ids
<1>2. \A owned, bonus : OK(owned, bonus) => OK(owned, TRUE)
  BY DEF validate_lineup, is_legal
<1>3. OK(owned_ids(u), "formation_424" \in Types(u, w))
  BY DEF Legal
<1>4. "formation_424" \in Types(u, w) => "formation_424" \in Types(u, w)'
  BY DEF Grows
<1> HIDE DEF OK
<1>5. \/ ("formation_424" \in Types(u, w)') = TRUE
      \/ ("formation_424" \in Types(u, w)') = ("formation_424" \in Types(u, w))
  BY <1>4
<1>6. OK(owned_ids(u)', "formation_424" \in Types(u, w)')
  BY <1>1, <1>2, <1>3, <1>5
<1>7. QED
  BY <1>6 DEF OK, Legal

\* Bonuses posed are only ever added to.
LEMMA GrowsStep ==
  ASSUME Roster, Posed, [Next]_vars
  PROVE  Grows
<1>1. CASE posed' = posed
  <2>1. \A u \in Users, w \in Weeks : Types(u, w)' = Types(u, w)
    BY <1>1 DEF Types
  <2>2. status = "running" => status' = "running"
    <3>1. CASE LeagueNext
      BY <3>1 DEF LeagueNext, BeginJoin, FlushJoin, JoinRefused, CommitJoin,
                      BeginGenerate, BeginOpenScreen,
                  BeginOpen, CommitLay, MercatoCloses, leagueVars
    <3>2. CASE LineupNext \/ WeekNext
      BY <3>2, SeasonStep DEF Roster
    <3>3. CASE UNCHANGED vars
      BY <3>3 DEF vars, leagueVars
    <3>4. QED
      BY <3>1, <3>2, <3>3 DEF Next
  <2>3. ToSet(members) \subseteq ToSet(members')
    <3>1. members' = members \/ \E u : members' = Append(members, u)
      <4>1. CASE LeagueNext
        BY <4>1 DEF LeagueNext, BeginJoin, FlushJoin, JoinRefused, CommitJoin,
                      BeginGenerate, BeginOpenScreen,
                    BeginOpen, CommitLay, MercatoCloses, leagueVars
      <4>2. CASE LineupNext \/ WeekNext
        BY <4>2, SeasonStep DEF Roster
      <4>3. CASE UNCHANGED vars
        BY <4>3 DEF vars, leagueVars
      <4>4. QED
        BY <4>1, <4>2, <4>3 DEF Next
    <3>2. ASSUME NEW u, members' = Append(members, u)
          PROVE  ToSet(members) \subseteq ToSet(members')
      <4>1. members \in Seq(Users)
        BY DEF Roster, Numbered
      <4>2. /\ DOMAIN members \subseteq DOMAIN Append(members, u)
            /\ \A i \in DOMAIN members : Append(members, u)[i] = members[i]
        BY <4>1
      <4>3. QED
        BY <3>2, <4>2 DEF ToSet
    <3>3. QED
      BY <3>1, <3>2
  <2>4. QED
    BY <2>1, <2>2, <2>3 DEF Grows
<1>2. CASE posed' # posed
  <2>1. PICK s \in Sessions : CommitPose(s)
    <3>1. ~(LeagueNext /\ UNCHANGED <<lineupVars, weekVars>>) /\ ~UNCHANGED vars
      BY <1>2 DEF lineupVars, vars
    <3>2. ~WeekNext
      BY <1>2, WeekRequests DEF Roster
    <3>3. LineupNext
      BY <3>1, <3>2 DEF Next
    <3>4. QED
      BY <1>2, <3>3 DEF LineupNext, BeginSave, BeginPose, CommitSave, lineupVars
  <2>2. UNCHANGED <<status, members>>
    BY <2>1 DEF CommitPose, leagueVars
  <2>3. ASSUME NEW u \in Users, NEW w \in Weeks
        PROVE  Types(u, w) \subseteq Types(u, w)'
    <3>1. posed[<<u, w>>] \in Seq(Bonuses)
      BY DEF Posed, PosedShape
    <3>2. \/ posed'[<<u, w>>] = posed[<<u, w>>]
          \/ \E b : posed'[<<u, w>>] = Append(posed[<<u, w>>], b)
      BY <2>1 DEF CommitPose, Posed, PosedShape
    <3>3. ASSUME NEW b, posed'[<<u, w>>] = Append(posed[<<u, w>>], b)
          PROVE  Types(u, w) \subseteq Types(u, w)'
      <4>1. /\ DOMAIN posed[<<u, w>>] \subseteq DOMAIN Append(posed[<<u, w>>], b)
            /\ \A i \in DOMAIN posed[<<u, w>>] :
                 Append(posed[<<u, w>>], b)[i] = posed[<<u, w>>][i]
        BY <3>1
      <4>2. QED
        BY <3>3, <4>1 DEF Types
    <3>4. QED
      BY <3>2, <3>3 DEF Types
  <2>4. QED
    BY <2>2, <2>3 DEF Grows
<1>3. QED
  BY <1>1, <1>2

-----------------------------------------------------------------------------
(* The lineups in the tables *)

Saved(u, w) ==
  \E sheet \in Sheets[u] : Legal(u, w, sheet) /\ lineups[<<u, w>>] = AsSaved(sheet)

SaveOK(r) ==
  /\ r.user \in Users /\ r.week \in Weeks /\ r.sheet \in Sheets[r.user]
  /\ Legal(r.user, r.week, r.sheet)
  /\ r.overtaken => lineups[<<r.user, r.week>>] # NoLineup

\* A lineup in the tables is one that was validated, and a save that is overtaken
\* finds one there.
Sheeted ==
  /\ lineups = [x \in Users \X Weeks |-> lineups[x]]
  /\ \A u \in Users, w \in Weeks : lineups[<<u, w>>] # NoLineup => Saved(u, w)
  /\ \A s \in Sessions : request[s].kind = "save" => SaveOK(request[s])

\* No lineup is stored in the beginning.
LEMMA SheetedInit == Init => Sheeted
<1> SUFFICES ASSUME Init PROVE Sheeted
  OBVIOUS
<1>1. lineups = [x \in Users \X Weeks |-> NoLineup]
  BY DEF Init, LineupInit
<1>2. \A s \in Sessions : request[s].kind # "save"
  BY DEF Init, SessionInit, Idle
<1>3. \A u \in Users, w \in Weeks : lineups[<<u, w>>] = NoLineup
  BY <1>1
<1>4. lineups = [x \in Users \X Weeks |-> lineups[x]]
  BY <1>1
<1>5. QED
  BY <1>2, <1>3, <1>4 DEF Sheeted

\* What a save is about to write stays legal while it waits.
LEMMA SaveOKStays ==
  ASSUME Grows, NEW r, SaveOK(r), lineups' = lineups
  PROVE  SaveOK(r)'
<1>0. PICK u \in Users, w \in Weeks : r.user = u /\ r.week = w
  BY DEF SaveOK
<1>1. PICK sheet \in Sheets[u] :
        /\ r.user = u /\ r.week = w /\ r.sheet = sheet /\ Legal(u, w, sheet)
  BY <1>0 DEF SaveOK
<1>2. Legal(u, w, sheet)'
  BY <1>1, LegalStays
<1>3. QED
  BY <1>1, <1>2 DEF SaveOK

\* So does what is stored.
LEMMA SavedStays ==
  ASSUME Grows, NEW u \in Users, NEW w \in Weeks, Saved(u, w),
         lineups'[<<u, w>>] = lineups[<<u, w>>]
  PROVE  Saved(u, w)'
<1>1. PICK sheet \in Sheets[u] : Legal(u, w, sheet) /\ lineups[<<u, w>>] = AsSaved(sheet)
  BY DEF Saved
<1>2. Legal(u, w, sheet)'
  BY <1>1, LegalStays
<1>3. QED
  BY <1>1, <1>2 DEF Saved

\* A step that saves nothing and begins no save.
LEMMA SheetedUntouched ==
  ASSUME Grows, Sheeted, lineups' = lineups,
         \A s \in Sessions : request'[s] = request[s] \/ request'[s].kind # "save"
  PROVE  Sheeted'
<1>1. \A u \in Users, w \in Weeks : lineups'[<<u, w>>] # NoLineup => Saved(u, w)'
  BY SavedStays DEF Sheeted
<1>2. ASSUME NEW s \in Sessions, request'[s].kind = "save"
      PROVE  SaveOK(request[s])'
  <2>1. PICK r : r = request[s]
    OBVIOUS
  <2>2. r = request'[s] /\ SaveOK(r)
    BY <1>2, <2>1 DEF Sheeted
  <2>3. SaveOK(r)'
    BY <2>2, SaveOKStays
  <2>4. QED
    BY <2>2, <2>3 DEF SaveOK
<1>3. QED
  BY <1>1, <1>2 DEF Sheeted

\* A save begins with a sheet it has found legal.
LEMMA SheetedBegin ==
  ASSUME Roster, Grows, Sheeted, NEW s \in Sessions, NEW u \in Users, NEW w \in Weeks,
         NEW sheet \in Sheets[u], BeginSave(s, u, w, sheet)
  PROVE  Sheeted'
<1> DEFINE r == [kind |-> "save", user |-> u, week |-> w, sheet |-> sheet,
                 created |-> lineups[<<u, w>>] = NoLineup, overtaken |-> FALSE]
<1>1. Begin(s, r) /\ Legal(u, w, sheet) /\ lineups' = lineups
  BY DEF BeginSave, Legal, lineupVars
<1>2. IsSave(r)
  BY DEF IsSave
<1>3. r.user = u /\ r.week = w /\ r.sheet = sheet /\ ~r.overtaken /\ r.kind = "save"
  OBVIOUS
<1> HIDE DEF r
<1>4. request'[s] = r /\ \A t \in Sessions \ {s} : request'[t] = request[t]
  BY <1>1, <1>2, BeginStep DEF Roster
<1>5. SaveOK(r)
  BY <1>1, <1>3 DEF SaveOK
<1>6. \A x \in Users, y \in Weeks : lineups'[<<x, y>>] # NoLineup => Saved(x, y)'
  BY <1>1, SavedStays DEF Sheeted
<1>7. ASSUME NEW t \in Sessions, request'[t].kind = "save"
      PROVE  SaveOK(request[t])'
  <2>1. PICK x : x = request'[t]
    OBVIOUS
  <2>2. SaveOK(x)
    BY <1>4, <1>5, <1>7, <2>1 DEF Sheeted
  <2>3. SaveOK(x)'
    BY <1>1, <2>2, SaveOKStays
  <2>4. QED
    BY <2>1, <2>3 DEF SaveOK
<1>8. QED
  BY <1>1, <1>6, <1>7 DEF Sheeted

\* A save that commits: it fails, or the lineup it leaves is its own alone.
LEMMA SaveAlone ==
  ASSUME SmallSquads, Sheeted, NEW s \in Sessions, CommitSave(s)
  PROVE  \/ lineups' = lineups /\ request' = [request EXCEPT ![s] = Idle]
         \/ lineups' = [lineups EXCEPT ![<<request[s].user, request[s].week>>] =
                          AsSaved(request[s].sheet)]
<1> SUFFICES ASSUME ~(lineups' = lineups /\ request' = [request EXCEPT ![s] = Idle])
             PROVE  lineups' = [lineups EXCEPT ![<<request[s].user, request[s].week>>] =
                                  AsSaved(request[s].sheet)]
  OBVIOUS
<1> DEFINE r == request[s]
<1>0. PICK u \in Users, w \in Weeks : r.user = u /\ r.week = w
  BY DEF CommitSave, Sheeted, SaveOK
<1>1. PICK sheet \in Sheets[u] :
        r.user = u /\ r.week = w /\ r.sheet = sheet /\ Legal(u, w, sheet)
  BY <1>0 DEF CommitSave, Sheeted, SaveOK
<1>2. r.overtaken => lineups[<<u, w>>] # NoLineup
  BY <1>1 DEF CommitSave, Sheeted, SaveOK
<1> DEFINE now == lineups[<<u, w>>]
           kept == IF r.overtaken THEN now.slots ELSE {}
<1>3. /\ ~SlotTaken(SlotsOf(sheet), kept)
      /\ lineups' = [lineups EXCEPT ![<<u, w>>] =
                       [formation |-> sheet.formation, slots |-> SlotsOf(sheet) \cup kept,
                        rules |-> (IF r.overtaken THEN now.rules ELSE <<>>) \o sheet.rules,
                        live |-> sheet.live]]
  BY <1>1 DEF CommitSave, SlotsOf
<1>4. ASSUME r.overtaken PROVE FALSE
  <2>1. PICK other \in Sheets[u] : Legal(u, w, other) /\ now = AsSaved(other)
    BY <1>2, <1>4 DEF Sheeted, Saved
  <2>2. kept = SlotsOf(other)
    BY <1>4, <2>1 DEF AsSaved
  <2>3. QED
    BY <1>1, <1>3, <2>1, <2>2, LineupsMeet
<1>5. <<>> \o sheet.rules = sheet.rules
  <2>1. sheet.rules \in Seq(ToSet(sheet.rules))
    BY SheetLists
  <2>2. QED
    BY <2>1, ConcatEmptySeq
<1>6. QED
  BY <1>1, <1>3, <1>4, <1>5 DEF AsSaved

\* A legal sheet is not an empty lineup.
LEMMA LegalIsALineup ==
  ASSUME NEW u \in Users, NEW w, NEW sheet \in Sheets[u], Legal(u, w, sheet)
  PROVE  AsSaved(sheet) # NoLineup
<1>1. SlotsOf(sheet) # {}
  BY LegalPlayers
<1>2. AsSaved(sheet).slots = SlotsOf(sheet) /\ NoLineup.slots = {}
  BY DEF AsSaved, NoLineup
<1>3. QED
  BY <1>1, <1>2

\* A save that commits replaces the rows it read, or breaks the key of a player
\* it shares with them.
LEMMA SheetedCommit ==
  ASSUME SmallSquads, Roster, Grows, Sheeted, NEW s \in Sessions, CommitSave(s)
  PROVE  Sheeted'
<1>1. CASE lineups' = lineups /\ request' = [request EXCEPT ![s] = Idle]
  <2>1. \A t \in Sessions : request'[t] = request[t] \/ request'[t].kind # "save"
    BY <1>1 DEF Roster, Served, Idle
  <2>2. QED
    BY <1>1, <2>1, SheetedUntouched
<1>2. CASE lineups' = [lineups EXCEPT ![<<request[s].user, request[s].week>>] =
                         AsSaved(request[s].sheet)]
  <2>1. PICK u \in Users, w \in Weeks : request[s].user = u /\ request[s].week = w
    BY DEF CommitSave, Sheeted, SaveOK
  <2>2. PICK sheet \in Sheets[u] : request[s].sheet = sheet /\ Legal(u, w, sheet)
    BY <2>1 DEF CommitSave, Sheeted, SaveOK
  <2>3. lineups' = [lineups EXCEPT ![<<u, w>>] = AsSaved(sheet)]
    BY <1>2, <2>1, <2>2
  <2>4. /\ lineups' = [x \in Users \X Weeks |-> lineups'[x]]
        /\ lineups'[<<u, w>>] = AsSaved(sheet)
        /\ \A x \in Users, y \in Weeks : x # u \/ y # w =>
             lineups'[<<x, y>>] = lineups[<<x, y>>]
    BY <2>3 DEF Sheeted
  <2>5. Saved(u, w)' /\ lineups'[<<u, w>>] # NoLineup
    <3>1. Legal(u, w, sheet)'
      BY <2>2, LegalStays
    <3>2. QED
      BY <2>2, <2>4, <3>1, LegalIsALineup DEF Saved
  <2>6. ASSUME NEW x \in Users, NEW y \in Weeks, lineups'[<<x, y>>] # NoLineup
        PROVE  Saved(x, y)'
    <3>1. CASE x = u /\ y = w
      BY <2>5, <3>1
    <3>2. CASE x # u \/ y # w
      <4>1. lineups'[<<x, y>>] = lineups[<<x, y>>]
        BY <2>4, <3>2
      <4>2. Saved(x, y)
        BY <2>6, <4>1 DEF Sheeted
      <4>3. QED
        BY <4>1, <4>2, SavedStays
    <3>3. QED
      BY <3>1, <3>2
  <2>7. ASSUME NEW t \in Sessions, request'[t].kind = "save"
        PROVE  SaveOK(request[t])'
    <3>1. PICK r : r = request'[t]
      OBVIOUS
    <3>2. /\ request[t].kind = "save"
          /\ r.user = request[t].user /\ r.week = request[t].week
          /\ r.sheet = request[t].sheet
          /\ r.overtaken => \/ request[t].overtaken
                            \/ r.user = u /\ r.week = w
      <4>1. t # s
        BY <2>7, CommitSaveStep DEF Roster, Idle
      <4>2. CASE r = request[t]
        BY <2>7, <3>1, <4>2
      <4>3. CASE r # request[t]
        <5>1. Served
          BY DEF Roster
        <5>2. \/ request'[t] = request[t]
              \/ /\ request[t].kind = "save" /\ request[t].user = request[s].user
                 /\ request[t].week = request[s].week
                 /\ request'[t].user = request[t].user /\ request'[t].week = request[t].week
                 /\ request'[t].sheet = request[t].sheet
          BY <4>1, <5>1, CommitSaveStep
        <5>3. QED
          BY <2>1, <3>1, <4>3, <5>2
      <4>4. QED
        BY <4>2, <4>3
    <3>3. PICK x \in Users, y \in Weeks : r.user = x /\ r.week = y
      BY <3>2 DEF Sheeted, SaveOK
    <3>4. PICK other \in Sheets[x] : r.sheet = other /\ Legal(x, y, other)
      BY <3>2, <3>3 DEF Sheeted, SaveOK
    <3>5. Legal(x, y, other)'
      BY <3>4, LegalStays
    <3>6. r.overtaken => lineups'[<<x, y>>] # NoLineup
      <4>1. CASE x = u /\ y = w
        BY <2>5, <4>1
      <4>2. CASE x # u \/ y # w
        <5>1. r.overtaken => request[t].overtaken
          BY <3>2, <3>3, <4>2
        <5>2. request[t].overtaken => lineups[<<x, y>>] # NoLineup
          BY <3>2, <3>3 DEF Sheeted, SaveOK
        <5>3. QED
          BY <2>4, <4>2, <5>1, <5>2
      <4>3. QED
        BY <4>1, <4>2
    <3>7. SaveOK(r)'
      BY <3>3, <3>4, <3>5, <3>6 DEF SaveOK
    <3>8. QED
      BY <3>1, <3>7 DEF SaveOK
  <2>8. QED
    BY <2>4, <2>6, <2>7 DEF Sheeted
<1>3. QED
  BY <1>1, <1>2, SaveAlone

\* Every step keeps one legal lineup in the tables.
LEMMA SheetedStep ==
  SmallSquads /\ Roster /\ Posed /\ Sheeted /\ [Next]_vars => Sheeted'
<1> SUFFICES ASSUME SmallSquads, Roster, Posed, Sheeted, [Next]_vars PROVE Sheeted'
  OBVIOUS
<1>1. Grows
  BY GrowsStep
<1>2. CASE LeagueNext /\ UNCHANGED <<lineupVars, weekVars>>
  <2>1. /\ lineups' = lineups
        /\ \A s \in Sessions : request'[s] = request[s] \/ request'[s].kind # "save"
    BY <1>2, LeagueRequests DEF Roster, lineupVars
  <2>2. QED
    BY <1>1, <2>1, SheetedUntouched
<1>3. CASE LineupNext
  <2>1. ASSUME NEW s \in Sessions, NEW u \in ToSet(members), NEW w \in Weeks,
               NEW sheet \in Sheets[u], BeginSave(s, u, w, sheet)
        PROVE  Sheeted'
    <3>1. u \in Users
      BY DEF Roster, Numbered, ToSet
    <3>2. QED
      BY <1>1, <2>1, <3>1, SheetedBegin
  <2>2. ASSUME NEW s \in Sessions, NEW u, NEW w, NEW b, BeginPose(s, u, w, b)
        PROVE  Sheeted'
    <3>1. /\ lineups' = lineups
          /\ \A t \in Sessions : request'[t] = request[t] \/ request'[t].kind # "save"
      BY <2>2, BeginStep DEF Roster, BeginPose, lineupVars
    <3>2. QED
      BY <1>1, <3>1, SheetedUntouched
  <2>3. ASSUME NEW s \in Sessions, CommitPose(s)
        PROVE  Sheeted'
    <3>1. /\ lineups' = lineups
          /\ \A t \in Sessions : request'[t] = request[t] \/ request'[t].kind # "save"
      BY <2>3, EndStep DEF Roster, CommitPose, Idle
    <3>2. QED
      BY <1>1, <3>1, SheetedUntouched
  <2>4. QED
    BY <1>1, <1>3, <2>1, <2>2, <2>3, SheetedCommit DEF LineupNext
<1>4. CASE WeekNext
  BY <1>1, <1>4, WeekRequests, SheetedUntouched DEF Roster
<1>5. CASE UNCHANGED vars
  BY <1>1, <1>5, SheetedUntouched DEF vars, sessionVars, lineupVars
<1>6. QED
  BY <1>2, <1>3, <1>4, <1>5 DEF Next

\* lineups.py:120: whatever saves of one lineup overlap, and whoever joins or
\* poses bonuses meanwhile, what is in the tables is one legal lineup, as long as
\* a squad is too small for two.
THEOREM SheetsStayLegal ==
  ASSUME SmallSquads
  PROVE  Spec => []SheetsAreLegal
<1>1. Roster /\ Sheeted => SheetsAreLegal
  <2> SUFFICES ASSUME Roster, Sheeted, NEW u \in Users, NEW w \in Weeks,
                      lineups[<<u, w>>] # NoLineup
               PROVE  validate_lineup(owned_ids(u), lineups[<<u, w>>].formation,
                        InRole(lineups[<<u, w>>], "starter"),
                        InRole(lineups[<<u, w>>], "bench"), lineups[<<u, w>>].rules,
                        "formation_424" \in Types(u, w), UltraOf)
    BY DEF SheetsAreLegal
  <2>1. PICK sheet \in Sheets[u] : Legal(u, w, sheet) /\ lineups[<<u, w>>] = AsSaved(sheet)
    BY DEF Sheeted, Saved
  <2>2. /\ AsSaved(sheet).formation = sheet.formation
        /\ AsSaved(sheet).rules = sheet.rules /\ AsSaved(sheet).slots = SlotsOf(sheet)
    BY DEF AsSaved
  <2>3. /\ {x \in SlotsOf(sheet) : x.role = "starter"} = Slots(sheet.starters, "starter")
        /\ {x \in SlotsOf(sheet) : x.role = "bench"} = Slots(sheet.bench, "bench")
    BY DEF SlotsOf, Slots
  <2>4. /\ InRole(AsSaved(sheet), "starter") = sheet.starters
        /\ InRole(AsSaved(sheet), "bench") = sheet.bench
    <3>1. PICK lineup : lineup = AsSaved(sheet)
      OBVIOUS
    <3>2. /\ {x \in lineup.slots : x.role = "starter"} = Slots(sheet.starters, "starter")
          /\ {x \in lineup.slots : x.role = "bench"} = Slots(sheet.bench, "bench")
      BY <2>2, <2>3, <3>1
    <3>3. InRole(lineup, "starter") = sheet.starters
      BY <3>2, SheetLists, InRoleReads
    <3>4. InRole(lineup, "bench") = sheet.bench
      BY <3>2, SheetLists, InRoleReads
    <3>5. QED
      BY <3>1, <3>3, <3>4
  <2>5. QED
    BY <2>1, <2>2, <2>4 DEF Legal
<1>2. Roster /\ Posed /\ Sheeted /\ [Next]_vars => (Roster /\ Posed /\ Sheeted)'
  BY RosterStep, PosedStep, SheetedStep
<1>3. Init => Roster /\ Posed /\ Sheeted
  BY RosterInit, PosedInit, SheetedInit
<1>4. QED
  BY <1>1, <1>2, <1>3, PTL DEF Spec

=============================================================================
