---------------------------- MODULE GroupSession ----------------------------
(***************************************************************************)
(* The groups of ONE campaign of type GROUP:                               *)
(* apps/campaigns/services/group.py.                                       *)
(*                                                                         *)
(* Joining and leaving read the group FOR UPDATE together with its         *)
(* campaign (select_related joins it in, so the database locks both rows,  *)
(* the group first); confirming locks the campaign and then the group.     *)
(* The database breaks the cycle these two orders can close by failing one *)
(* of the transactions.  Starting a group locks nothing.                   *)
(*                                                                         *)
(* Of the vouchers the groups earn (rewards.py, CampaignVoucher) this      *)
(* module keeps what max_rewards depends on: a manager may cancel one, a   *)
(* CANCELLED one is not counted, and the stale save of present_voucher     *)
(* may make it EXPIRED, and counted, again.                                *)
(***************************************************************************)
EXTENDS Naturals, FiniteSets

CONSTANTS
    Txn,              \* request handlers
    Group,            \* rows that may ever be created (BOUND)
    Customer,
    Size,             \* rule.required_group_size
    MaxRewards,
    MaxParticipants,
    MaxRequests,      \* BOUND: requests that may ever start
    None

ASSUME SizeAssumption == Size \in Nat /\ Size >= 2      \* _assert_publishable
ASSUME CapAssumption == MaxRewards \in Nat
ASSUME NobodyAssumption == None \notin Txn \cup Group \cup Customer

VARIABLES
    group,         \* Group rows: [status, leader, member]
    overdue,       \* groups past expires_at
    campaign,      \* Campaign.status
    participants,  \* customers with a CampaignParticipant row
    rewarded,      \* history: vouchers issued for a group
    revoked,       \* history: groups whose voucher a manager cancelled
    cancelled,     \* groups whose voucher is CANCELLED
    holder,        \* holder of each row lock
    stage,         \* "idle", "begun", "locked"
    request,       \* [op, group, customer, late]
    seen,          \* what was read under the locks: the group, the vouchers issued
    started

vouchers == <<rewarded, revoked, cancelled>>
tables == <<group, overdue, campaign, participants, vouchers>>
vars == <<tables, holder, stage, request, seen, started>>

Lockable == Group \cup {"campaign"}
Status == {"forming", "full", "completed", "expired", "cancelled"}
Absent == [status |-> "none", leader |-> None, member |-> [c \in Customer |-> "none"]]
GroupRow == [status : Status, leader : Customer,
             member : [Customer -> {"none", "joined", "checked_in", "left"}]]

TypeOK ==
    /\ group \in [Group -> GroupRow \cup {Absent}]
    /\ overdue \subseteq Group
    /\ campaign \in {"active", "paused", "ended"}
    /\ participants \subseteq Customer
    /\ rewarded \in [Group -> Nat]
    /\ revoked \subseteq Group
    /\ cancelled \subseteq revoked
    /\ holder \in [Lockable -> Txn \cup {None}]
    /\ stage \in [Txn -> {"idle", "begun", "locked"}]
    /\ request \in [Txn -> [op : {"start", "join", "leave", "confirm"}, group : Group \cup {None},
                            customer : Customer \cup {None}, late : BOOLEAN] \cup {None}]
    /\ seen \in [Txn -> [row : GroupRow, issued : Nat] \cup {None}]
    /\ started \in Nat

Init ==
    /\ group = [g \in Group |-> Absent]
    /\ overdue = {}
    /\ campaign = "active"
    /\ participants = {}
    /\ rewarded = [g \in Group |-> 0]
    /\ revoked = {}
    /\ cancelled = {}
    /\ holder = [r \in Lockable |-> None]
    /\ stage = [t \in Txn |-> "idle"]
    /\ request = [t \in Txn |-> None]
    /\ seen = [t \in Txn |-> None]
    /\ started = 0

Created == {g \in Group : group[g] # Absent}
Rows(row) == {c \in Customer : row.member[c] # "none"}
Present(row) == {c \in Customer : row.member[c] \in {"joined", "checked_in"}}
Rewarded == {g \in Group : rewarded[g] > 0}

\* check_reward_limit counts the vouchers of the campaign that are not CANCELLED.
IssuedSoFar == Cardinality(Rewarded \ cancelled)

-----------------------------------------------------------------------------

Begin(t, r) ==
    /\ stage[t] = "idle"
    /\ started < MaxRequests
    /\ started' = started + 1
    /\ stage' = [stage EXCEPT ![t] = "begun"]
    /\ request' = [request EXCEPT ![t] = r]
    /\ UNCHANGED <<tables, holder, seen>>

\* Mutant: a transaction that is never closed.
Release_KeepLocks(t) ==
    /\ stage' = [stage EXCEPT ![t] = "idle"]
    /\ request' = [request EXCEPT ![t] = None]
    /\ seen' = [seen EXCEPT ![t] = None]
    /\ UNCHANGED <<holder, started>>

\* Commit or rollback: every row lock is released.
Release(t) ==
    /\ holder' = [r \in Lockable |-> IF holder[r] = t THEN None ELSE holder[r]]
    /\ stage' = [stage EXCEPT ![t] = "idle"]
    /\ request' = [request EXCEPT ![t] = None]
    /\ seen' = [seen EXCEPT ![t] = None]
    /\ UNCHANGED started

\* start_group_session looks for an open group of this leader; one that exists
\* is returned (nothing to model), otherwise a new one is on its way.  BOUND: no
\* more sessions are started than there are rows in Group.
Starting == {t \in Txn : stage[t] # "idle" /\ request[t].op = "start"}

StartBegin(t, c) ==
    /\ campaign = "active"
    /\ Cardinality(Starting) < Cardinality(Group \ Created)
    /\ \A g \in Created : group[g].leader = c => group[g].status \notin {"forming", "full"}
    /\ Begin(t, [op |-> "start", group |-> None, customer |-> c, late |-> FALSE])

\* The leader is enrolled in the campaign, which may be full, and is the first
\* member, CHECKED_IN.
StartCommit(t) ==
    LET c == request[t].customer IN
    /\ stage[t] = "begun" /\ request[t].op = "start"
    /\ c \in participants \/ Cardinality(participants) < MaxParticipants
    /\ \E g \in Group \ Created :
         group' = [group EXCEPT ![g] =
            [status |-> "forming", leader |-> c,
             member |-> [Absent.member EXCEPT ![c] = "checked_in"]]]
    /\ participants' = participants \cup {c}
    /\ Release(t)
    /\ UNCHANGED <<overdue, campaign, vouchers>>

JoinBegin(t, g, c) ==
    g \in Created /\ Begin(t, [op |-> "join", group |-> g, customer |-> c, late |-> FALSE])

LeaveBegin(t, g, c) ==
    g \in Created /\ Begin(t, [op |-> "leave", group |-> g, customer |-> c, late |-> FALSE])

\* confirm_group_visit reads the clock before it waits for any lock.
ConfirmBegin(t, g) ==
    /\ g \in Created
    /\ Begin(t, [op |-> "confirm", group |-> g, customer |-> None, late |-> g \in overdue])

\* The rows a request locks, first and second.
LockOrder(r) == IF r.op = "confirm" THEN <<"campaign", r.group>> ELSE <<r.group, "campaign">>

\* Mutant: the first row is read without select_for_update.
LockFirst_NoWait(t) ==
    /\ stage[t] = "begun" /\ request[t].op # "start"
    /\ holder[LockOrder(request[t])[1]] # t
    /\ holder' = [holder EXCEPT ![LockOrder(request[t])[1]] = t]
    /\ UNCHANGED <<tables, stage, request, seen, started>>

LockFirst(t) ==
    /\ stage[t] = "begun" /\ request[t].op # "start"
    /\ holder[LockOrder(request[t])[1]] = None
    /\ holder' = [holder EXCEPT ![LockOrder(request[t])[1]] = t]
    /\ UNCHANGED <<tables, stage, request, seen, started>>

\* Mutant: no row is locked at all.
LockSecond_NoLock(t) ==
    /\ stage[t] = "begun" /\ request[t].op # "start"
    /\ stage' = [stage EXCEPT ![t] = "locked"]
    /\ seen' = [seen EXCEPT ![t] = [row |-> group[request[t].group], issued |-> IssuedSoFar]]
    /\ UNCHANGED <<tables, holder, request, started>>

\* With both rows locked the handler reads the group, its members and, to
\* confirm, the number of vouchers issued.
LockSecond(t) ==
    /\ stage[t] = "begun" /\ request[t].op # "start"
    /\ holder[LockOrder(request[t])[1]] = t
    /\ holder[LockOrder(request[t])[2]] = None
    /\ holder' = [holder EXCEPT ![LockOrder(request[t])[2]] = t]
    /\ stage' = [stage EXCEPT ![t] = "locked"]
    /\ seen' = [seen EXCEPT ![t] = [row |-> group[request[t].group], issued |-> IssuedSoFar]]
    /\ UNCHANGED <<tables, request, started>>

-----------------------------------------------------------------------------
(* What the three handlers decide on what they read. *)

\* join_group_session: a member who already has a row is given it back.
Joinable(t) ==
    LET r == request[t]  row == seen[t].row IN
    /\ r.op = "join"
    /\ r.customer \notin Rows(row)
    /\ row.status = "forming"
    /\ Cardinality(Rows(row)) < Size

JoinCommit(t) ==
    LET r == request[t]  row == seen[t].row  c == r.customer IN
    /\ stage[t] = "locked" /\ Joinable(t)
    /\ group' = [group EXCEPT
         ![r.group].member[c] = "joined",
         ![r.group].status = IF Cardinality(Rows(row)) + 1 >= Size THEN "full" ELSE @]
    /\ Release(t)
    /\ UNCHANGED <<overdue, campaign, participants, vouchers>>

\* leave_group_session
Leavable(t) ==
    LET r == request[t]  row == seen[t].row IN
    /\ r.op = "leave"
    /\ r.customer \in Rows(row)
    /\ row.status \in (IF r.customer = row.leader THEN {"forming"} ELSE {"forming", "full"})

LeaveCommit(t) ==
    LET r == request[t]  row == seen[t].row  c == r.customer IN
    /\ stage[t] = "locked" /\ Leavable(t)
    /\ \/ /\ c = row.leader
          /\ group' = [group EXCEPT
               ![r.group].status = "cancelled",
               ![r.group].member = [d \in Customer |->
                   IF @[d] \in {"joined", "checked_in"} THEN "left" ELSE @[d]]]
       \/ /\ c # row.leader
          /\ group' = [group EXCEPT ![r.group].status = "forming", ![r.group].member[c] = "left"]
    /\ Release(t)
    /\ UNCHANGED <<overdue, campaign, participants, vouchers>>

\* Mutant: the size is compared with one member too few.
Confirmable_Short(t) ==
    LET r == request[t]  row == seen[t].row IN
    /\ r.op = "confirm"
    /\ row.status \in {"forming", "full"}
    /\ ~ r.late
    /\ Cardinality(Rows(row)) >= Size - 1
    /\ seen[t].issued < MaxRewards

\* confirm_group_visit: the member rows are counted whatever their status, and
\* the campaign's own status is not looked at.
Confirmable(t) ==
    LET r == request[t]  row == seen[t].row IN
    /\ r.op = "confirm"
    /\ row.status \in {"forming", "full"}
    /\ ~ r.late
    /\ Cardinality(Rows(row)) >= Size
    /\ seen[t].issued < MaxRewards

ConfirmCommit(t) ==
    LET r == request[t]  row == seen[t].row IN
    /\ stage[t] = "locked" /\ Confirmable(t)
    /\ group' = [group EXCEPT
         ![r.group].status = "completed",
         ![r.group].member = [d \in Customer |->
             IF row.member[d] = "joined" THEN "checked_in" ELSE @[d]]]
    /\ rewarded' = [rewarded EXCEPT ![r.group] = @ + 1]
    /\ Release(t)
    /\ UNCHANGED <<overdue, campaign, participants, revoked, cancelled>>

\* Any other answer: an existing row, an error, or the EXPIRED a late confirm
\* writes and rolls back.
Refuse(t) ==
    /\ \/ stage[t] = "locked" /\ ~ Joinable(t) /\ ~ Leavable(t) /\ ~ Confirmable(t)
       \/ stage[t] = "begun" /\ request[t].op = "start" /\ request[t].customer \notin participants
            /\ Cardinality(participants) >= MaxParticipants
    /\ Release(t)
    /\ UNCHANGED tables

\* Two transactions that wait for each other: the database fails one of them.
DeadlockVictim(t) ==
    /\ stage[t] = "begun" /\ request[t].op # "start"
    /\ holder[LockOrder(request[t])[1]] = t
    /\ \E u \in Txn \ {t} :
         /\ holder[LockOrder(request[t])[2]] = u
         /\ stage[u] = "begun"
         /\ holder[LockOrder(request[u])[1]] = u
         /\ holder[LockOrder(request[u])[2]] = t
    /\ Release(t)
    /\ UNCHANGED tables

-----------------------------------------------------------------------------
(* The clock, the hourly task and the owner. *)

BecomeOverdue(g) ==
    /\ g \in Created \ overdue
    /\ overdue' = overdue \cup {g}
    /\ UNCHANGED <<group, campaign, participants, vouchers, holder, stage, request, seen, started>>

\* Mutant: the status filter is missing.
ExpireOldGroups_NoStatus ==
    LET late == Created \cap overdue IN
    /\ late # {} /\ \A g \in late : holder[g] = None
    /\ group' = [g \in Group |-> IF g \in late THEN [group[g] EXCEPT !.status = "expired"]
                                               ELSE group[g]]
    /\ UNCHANGED <<overdue, campaign, participants, vouchers, holder, stage, request, seen, started>>

\* expire_old_groups waits for the row locks it meets.
ExpireOldGroups ==
    LET late == {g \in Created \cap overdue : group[g].status \in {"forming", "full"}} IN
    /\ late # {} /\ \A g \in late : holder[g] = None
    /\ group' = [g \in Group |-> IF g \in late THEN [group[g] EXCEPT !.status = "expired"]
                                               ELSE group[g]]
    /\ UNCHANGED <<overdue, campaign, participants, vouchers, holder, stage, request, seen, started>>

SetCampaign(s) ==
    /\ holder["campaign"] = None
    /\ campaign # s
    /\ campaign' = s
    /\ UNCHANGED <<group, overdue, participants, vouchers, holder, stage, request, seen, started>>

-----------------------------------------------------------------------------
(* The vouchers: neither step takes a lock a group's handler takes. *)

\* cancel_voucher, while the voucher is ACTIVE; a voucher is cancelled once.
CancelVoucher(g) ==
    /\ rewarded[g] > 0 /\ g \notin revoked
    /\ revoked' = revoked \cup {g}
    /\ cancelled' = cancelled \cup {g}
    /\ UNCHANGED <<group, overdue, campaign, participants, rewarded, holder, stage, request, seen, started>>

\* present_voucher read the voucher as ACTIVE before it was cancelled, finds it
\* overdue and saves EXPIRED over CANCELLED.
PresentVoucher(g) ==
    /\ g \in cancelled
    /\ cancelled' = cancelled \ {g}
    /\ UNCHANGED <<group, overdue, campaign, participants, rewarded, revoked, holder, stage, request, seen, started>>

Next ==
    \/ \E t \in Txn :
        \/ \E c \in Customer :
             \/ StartBegin(t, c)
             \/ \E g \in Group : JoinBegin(t, g, c) \/ LeaveBegin(t, g, c)
        \/ \E g \in Group : ConfirmBegin(t, g)
        \/ LockFirst(t) \/ LockSecond(t)
        \/ StartCommit(t) \/ JoinCommit(t) \/ LeaveCommit(t) \/ ConfirmCommit(t)
        \/ Refuse(t) \/ DeadlockVictim(t)
    \/ \E g \in Group : BecomeOverdue(g) \/ CancelVoucher(g) \/ PresentVoucher(g)
    \/ ExpireOldGroups
    \/ \E s \in {"active", "paused", "ended"} : SetCampaign(s)

Spec == Init /\ [][Next]_vars

\* Row locks are granted in the end, handlers run to their end, and the
\* database looks for deadlocks.
FairSpec ==
    /\ Spec
    /\ \A t \in Txn :
        /\ SF_vars(LockFirst(t)) /\ SF_vars(LockSecond(t))
        /\ WF_vars(StartCommit(t) \/ JoinCommit(t) \/ LeaveCommit(t) \/ ConfirmCommit(t)
                     \/ Refuse(t))
        /\ WF_vars(DeadlockVictim(t))

-----------------------------------------------------------------------------
(* Properties. *)

\* However many confirms race, a group earns its leader one voucher, and only a
\* COMPLETED group has earned it (confirm_group_visit).
OneVoucherPerGroup ==
    \A g \in Group : rewarded[g] = IF group[g].status = "completed" THEN 1 ELSE 0

\* The groups of a campaign never earn more vouchers than max_rewards, those a
\* manager cancelled apart: the cap is counted under the campaign lock, though each
\* confirm locks another group and vouchers are cancelled and expire without it.
\* A place freed that way may be filled before the stale save of present_voucher
\* makes the cancelled voucher EXPIRED, so that check_reward_limit counts too many.
GroupRewardCap == Cardinality(Rewarded \ revoked) <= MaxRewards

\* Two joins cannot both take the last seat, and no sequence of joins and leaves
\* seats more people than the group has places (join_group_session); every row is
\* well-typed.
SeatsNotOversold ==
    /\ TypeOK
    /\ \A g \in Created : Cardinality(Present(group[g])) <= Size

\* A completed, expired or cancelled group stays what it is, with its members.
SettledForGood ==
    [][\A g \in Created : group[g].status \in {"completed", "expired", "cancelled"}
          => group'[g] = group[g]]_vars

\* Every request is answered, though joins and confirms lock the same two rows
\* in opposite orders.
GroupRequestsEnd == \A t \in Txn : stage[t] # "idle" ~> stage[t] = "idle"

\* A member who leaves a full group frees a seat that can be filled again.
FreedSlotCanBeFilled ==
    \A g \in Created : group[g].status = "forming" => Cardinality(Rows(group[g])) < Size

\* A confirmed group has its required size, unless one of its members had left:
\* confirm_group_visit counts the row of a member who left.
ConfirmedAtFullSize ==
    \A g \in Created :
        group[g].status = "completed" /\ Rows(group[g]) = Present(group[g])
            => Cardinality(Present(group[g])) >= Size

\* No visit counts while the campaign is paused or after it has ended.  Refuted:
\* confirm_group_visit does not look at the status of the campaign.
NoRewardWhilePaused == [][rewarded' # rewarded => campaign = "active"]_vars
=============================================================================
