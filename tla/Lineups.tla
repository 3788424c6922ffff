------------------------------- MODULE Lineups ------------------------------
(***************************************************************************)
(* Lineups and bonuses: src/mpg/services/lineups.py with the routes that   *)
(* call it.  A lineup's rows are its formation, its slots [player, role,   *)
(* order] and its tactical rules [starter, sub, threshold].  Nothing in    *)
(* the program switches a league to live mode, so that record_live_sub's   *)
(* route refuses every change; a lineup alone may ask for it.              *)
(***************************************************************************)
EXTENDS Leagues, Squads

CONSTANTS
  UltraOf,     \* ultra positions of the players
  Sheets,      \* the lineups a user may send, of any quality
  Poses,       \* the bonuses he may try to pose, [type, target]
  BonusQuota,  \* BONUS_QUOTAS: type and size to quota
  Weeks        \* the game weeks the users act on

UNLIMITED == {"defense", "captain"}

ASSUME LineupsAssumption ==
  /\ \A u \in Users : \A sheet \in Sheets[u] :
       \A list \in {sheet.starters, sheet.bench, sheet.rules} : list \in Seq(ToSet(list))
  /\ \A u, v \in Users : u # v => SquadOf[u] \cap SquadOf[v] = {}
  /\ \A u \in Users : \A b \in Poses[u] : b.type \in UNLIMITED \/ \A n \in Sizes : BonusQuota[b.type][n] \in Nat

VARIABLES
  lineups,  \* the lineup of a user for a week
  posed     \* his bonuses for a week, in the order they were posed

lineupVars == <<lineups, posed>>

NoLineup == [formation |-> NoFormation, slots |-> {}, rules |-> <<>>, live |-> FALSE]

\* owned_ids
owned_ids(u) == IF status = "running" /\ u \in ToSet(members) THEN SquadOf[u] ELSE {}

Types(u, w) == {posed[<<u, w>>][i].type : i \in DOMAIN posed[<<u, w>>]}

Slots(players, role) ==
  {[player |-> players[i], role |-> role, order |-> i] : i \in DOMAIN players}

\* The players of a role, in their order.
InRole(lineup, role) ==
  LET rows == {x \in lineup.slots : x.role = role}
      sorted == CHOOSE q \in SetToSeqs(rows) :
                  \A i, j \in DOMAIN q : i < j => q[i].order <= q[j].order
  IN [i \in DOMAIN sorted |-> sorted[i].player]

-----------------------------------------------------------------------------
(* save_lineup *)

\* Validated with the bonuses read; the rows it will replace are those it read.
BeginSave(s, u, w, sheet) ==
  /\ Bounded
  /\ validate_lineup(owned_ids(u), sheet.formation, sheet.starters, sheet.bench,
                     sheet.rules, "formation_424" \in Types(u, w), UltraOf)
  /\ Begin(s, [kind |-> "save", user |-> u, week |-> w, sheet |-> sheet,
               created |-> lineups[<<u, w>>] = NoLineup, overtaken |-> FALSE])
  /\ UNCHANGED <<leagueVars, lineupVars>>

\* The other saves of the same lineup in flight: what they read is now replaced.
Overtake(s, r) ==
  [t \in Sessions |->
     IF t # s /\ request[t].kind = "save" /\ request[t].user = r.user /\ request[t].week = r.week
     THEN [request[t] EXCEPT !.overtaken = TRUE] ELSE request[t]]

\* A slip: a player may be listed twice in a lineup.
NoSlotKey(slots, kept) == FALSE

\* The unique key of lineup_slot: a player once per lineup.
SlotTaken(slots, kept) == \E x \in slots, y \in kept : x.player = y.player

\* A lineup created meanwhile, or a player still listed, breaks a unique key.
\* An overtaken save deletes rows that are gone and leaves those it never read:
\* it commits only if the two lineups have no player in common.
CommitSave(s) ==
  /\ request[s].kind = "save"
  /\ LET r == request[s]
         slots == Slots(r.sheet.starters, "starter") \cup Slots(r.sheet.bench, "bench")
         now == lineups[<<r.user, r.week>>]
         kept == IF r.overtaken THEN now.slots ELSE {}
         fails == (r.created /\ r.overtaken) \/ SlotTaken(slots, kept)
     IN /\ lineups' =
             IF fails THEN lineups
             ELSE [lineups EXCEPT ![<<r.user, r.week>>] =
                     [formation |-> r.sheet.formation, slots |-> slots \cup kept,
                      rules |-> (IF r.overtaken THEN now.rules ELSE <<>>) \o r.sheet.rules,
                      live |-> r.sheet.live]]
        /\ request' = [(IF fails THEN request ELSE Overtake(s, r)) EXCEPT ![s] = Idle]
  /\ UNCHANGED <<handled, leagueVars, posed>>

-----------------------------------------------------------------------------
(* pose_bonus *)

\* Where a user's bonuses are: the week, and the place among those of the week.
Uses(u) == UNION {{<<w, i>> : i \in DOMAIN posed[<<u, w>>]} : w \in Weeks}

\* bonus_usage_count
bonus_usage_count(u, type) ==
  Cardinality({x \in Uses(u) : posed[<<u, x[1]>>][x[2]].type = type})

\* A slip: the season's quota is not looked at.
QuotaIgnored(u, w, type) == BonusQuota[type][size] > 0 /\ Types(u, w) \subseteq UNLIMITED

\* The quota of the season, and one bonus a week, the unlimited ones aside.
QuotaLeft(u, w, type) ==
  /\ bonus_usage_count(u, type) < BonusQuota[type][size]
  /\ Types(u, w) \subseteq UNLIMITED

TargetOK(u, b) ==
  /\ b.type \in {"mcdo", "captain"} => b.target \in owned_ids(u)
  /\ b.type = "captain" => line_of(UltraOf[b.target]) # G

BeginPose(s, u, w, b) ==
  /\ Bounded
  /\ b.type \notin Types(u, w)
  /\ b.type \notin UNLIMITED => QuotaLeft(u, w, b.type)
  /\ TargetOK(u, b)
  /\ Begin(s, [kind |-> "pose", user |-> u, week |-> w, bonus |-> b])
  /\ UNCHANGED <<leagueVars, lineupVars>>

\* bonus_usage has no unique key.
CommitPose(s) ==
  /\ request[s].kind = "pose"
  /\ posed' = [posed EXCEPT ![<<request[s].user, request[s].week>>] =
                 Append(@, request[s].bonus)]
  /\ End(s)
  /\ UNCHANGED <<leagueVars, lineups>>

LineupInit ==
  /\ lineups = [x \in Users \X Weeks |-> NoLineup]
  /\ posed = [x \in Users \X Weeks |-> <<>>]

LineupNext ==
  \E s \in Sessions :
    \/ \E u \in ToSet(members), w \in Weeks :
         \/ \E sheet \in Sheets[u] : BeginSave(s, u, w, sheet)
         \/ \E b \in Poses[u] : BeginPose(s, u, w, b)
    \/ CommitSave(s) \/ CommitPose(s)

=============================================================================
