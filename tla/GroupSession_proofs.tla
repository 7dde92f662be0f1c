------------------------ MODULE GroupSession_proofs ------------------------
(***************************************************************************)
(* Theorems about the groups of a campaign, for any number of customers,   *)
(* handlers and groups, and any size of a group.                           *)
(*                                                                         *)
(* Shape says what the two row locks give to the handler that holds them,  *)
(* whichever of the two it took first; the invariants rest on it.          *)
(***************************************************************************)
EXTENDS GroupSession, FiniteSetTheorems, TLAPS

-----------------------------------------------------------------------------
(* Requests and locks. *)

\* A request names a customer and a group that exists, as its operation needs.
RequestInv ==
    \A t \in Txn : stage[t] # "idle" =>
        LET r == request[t] IN
        /\ r.op # "confirm" => r.customer \in Customer
        /\ r.op # "start" => r.group \in Created

\* The groups whose vouchers count for good: nobody cancelled them.
Counted == Rewarded \ revoked

\* A handler that has read holds the group and the campaign; what it read of the
\* group is still so, and it saw every voucher that counts for good: vouchers may
\* be cancelled and expire under it, but none is issued.
LockInv ==
    \A t \in Txn : stage[t] = "locked" =>
        LET g == request[t].group IN
        /\ request[t].op # "start"
        /\ holder["campaign"] = t /\ holder[g] = t
        /\ seen[t] \in [row : GroupRow, issued : Nat]
        /\ seen[t].row = group[g]
        /\ Cardinality(Counted) <= seen[t].issued

Shape ==
    /\ TypeOK
    /\ RequestInv
    /\ LockInv
    /\ IsFiniteSet(Rewarded)

\* SeatsNotOversold is not inductive: a member who left keeps the row, and it is
\* the rows that a join counts.
SeatInv ==
    \A g \in Created :
        /\ IsFiniteSet(Rows(group[g]))
        /\ Cardinality(Rows(group[g])) <= Size
        /\ group[g].status = "completed" => Cardinality(Rows(group[g])) >= Size

\* Adding one element makes a finite set larger by one at most.
LEMMA OneMore ==
    ASSUME NEW S, NEW x, IsFiniteSet(S)
    PROVE  /\ IsFiniteSet(S \cup {x})
           /\ Cardinality(S) \in Nat /\ Cardinality(S \cup {x}) \in Nat
           /\ Cardinality(S \cup {x}) <= Cardinality(S) + 1
<1>1. IsFiniteSet(S \cup {x})
  BY FS_AddElement
<1>2. Cardinality(S) \in Nat /\ Cardinality(S \cup {x}) \in Nat
  BY <1>1, FS_CardinalityType
<1>3. Cardinality(S \cup {x}) = IF x \in S THEN Cardinality(S) ELSE Cardinality(S) + 1
  BY FS_AddElement
<1> QED BY <1>1, <1>2, <1>3

\* The campaign's lock lets one handler at a time act on what it read.
LEMMA Alone ==
    ASSUME LockInv, NEW t \in Txn, NEW u \in Txn, stage[t] = "locked", stage[u] = "locked"
    PROVE  t = u
BY DEF LockInv

\* A group that exists is a row; one that does not is none.
LEMMA CreatedAreRows ==
    ASSUME TypeOK
    PROVE  \A g \in Group : g \in Created <=> group[g] \in GroupRow
BY DEF TypeOK, Created, GroupRow, Status, Absent

\* What a handler that commits does to its group, in terms of the row as it still is.
Commit(t) == JoinCommit(t) \/ LeaveCommit(t) \/ ConfirmCommit(t)

LEMMA CommitsOnItsGroup ==
    ASSUME Shape, NEW t \in Txn, Commit(t), NEW g, g = request[t].group
    PROVE  /\ g \in Created /\ group[g] \in GroupRow
           /\ holder["campaign"] = t /\ holder[g] = t
           /\ seen[t].row = group[g]
           /\ seen[t].issued \in Nat /\ Cardinality(Counted) <= seen[t].issued
           /\ group[g].status \in {"forming", "full"}
           /\ request[t].op # "confirm" => request[t].customer \in Customer
           /\ group' = [group EXCEPT ![g] = group'[g]]
           /\ group'[g] \in GroupRow
           /\ UNCHANGED <<overdue, campaign, participants>>
           /\ Release(t)
<1> USE DEF Shape
<1>1. stage[t] = "locked" /\ Release(t) /\ UNCHANGED <<overdue, campaign, participants>>
  BY DEF Commit, JoinCommit, LeaveCommit, ConfirmCommit
<1>2. /\ g \in Created
      /\ holder["campaign"] = t /\ holder[g] = t
      /\ seen[t].row = group[g]
      /\ seen[t].issued \in Nat /\ Cardinality(Counted) <= seen[t].issued
      /\ request[t].op # "confirm" => request[t].customer \in Customer
  BY <1>1 DEF LockInv, RequestInv
<1>3. g \in Group /\ group[g] \in GroupRow
  BY <1>2, CreatedAreRows DEF Created
<1>4. group[g].status \in {"forming", "full"}
  BY <1>2, <1>3 DEF Commit, JoinCommit, LeaveCommit, ConfirmCommit, Joinable, Leavable, Confirmable
<1>5. group' = [group EXCEPT ![g] = group'[g]] /\ group'[g] \in GroupRow
  <2>1. CASE JoinCommit(t)
    BY <1>2, <1>3, <2>1 DEF JoinCommit, Joinable, TypeOK, GroupRow, Status
  <2>2. CASE LeaveCommit(t)
    BY <1>2, <1>3, <2>2 DEF LeaveCommit, Leavable, TypeOK, GroupRow, Status
  <2>3. CASE ConfirmCommit(t)
    BY <1>2, <1>3, <2>3 DEF ConfirmCommit, TypeOK, GroupRow, Status
  <2> QED BY <2>1, <2>2, <2>3 DEF Commit
<1> QED BY <1>1, <1>2, <1>3, <1>4, <1>5

\* A group that starts was not there.
LEMMA StartsNewGroup ==
    ASSUME Shape, NEW t \in Txn, StartCommit(t)
    PROVE  \E g \in Group \ Created, c \in Customer :
             /\ c = request[t].customer
             /\ group'[g] = [status |-> "forming", leader |-> c,
                             member |-> [Absent.member EXCEPT ![c] = "checked_in"]]
             /\ group'[g] \in GroupRow
             /\ group' = [group EXCEPT ![g] = group'[g]]
             /\ \A h \in Group : h # g => group'[h] = group[h]
<1>1. request[t].customer \in Customer
  BY DEF StartCommit, Shape, RequestInv
<1>2. PICK g \in Group \ Created :
         group' = [group EXCEPT ![g] =
            [status |-> "forming", leader |-> request[t].customer,
             member |-> [Absent.member EXCEPT ![request[t].customer] = "checked_in"]]]
  BY DEF StartCommit
<1>3. [Absent.member EXCEPT ![request[t].customer] = "checked_in"]
         \in [Customer -> {"none", "joined", "checked_in", "left"}]
  BY <1>1 DEF Absent
<1> QED BY <1>1, <1>2, <1>3 DEF Shape, TypeOK, GroupRow, Status

\* The hourly task closes groups nobody holds.
LEMMA ExpiresFreeGroups ==
    ASSUME TypeOK, ExpireOldGroups
    PROVE  /\ group' \in [Group -> GroupRow \cup {Absent}]
           /\ \A g \in Group :
                \/ group'[g] = group[g]
                \/ /\ group[g] \in GroupRow /\ holder[g] = None
                   /\ group[g].status \in {"forming", "full"}
                   /\ group'[g] = [group[g] EXCEPT !.status = "expired"]
                   /\ group'[g] \in GroupRow
<1>1. ASSUME NEW g \in Group
      PROVE  \/ group'[g] = group[g]
             \/ /\ group[g] \in GroupRow /\ holder[g] = None
                /\ group[g].status \in {"forming", "full"}
                /\ group'[g] = [group[g] EXCEPT !.status = "expired"]
                /\ group'[g] \in GroupRow
  BY <1>1, CreatedAreRows DEF ExpireOldGroups, Created, GroupRow, Status, Absent
<1>2. DOMAIN group' = Group /\ group' = [g \in Group |-> group'[g]]
  BY DEF ExpireOldGroups
<1>3. \A g \in Group : group'[g] \in GroupRow \cup {Absent}
  BY <1>1 DEF TypeOK
<1> QED BY <1>1, <1>2, <1>3

-----------------------------------------------------------------------------
(* Shape is kept. *)

\* Which groups exist and have earned only grows, and a commit earns for its own.
LEMMA RewardsCommitted ==
    ASSUME Shape, [Next]_vars
    PROVE  \/ rewarded' = rewarded
           \/ \E t \in Txn, g \in Created :
                /\ g = request[t].group
                /\ ConfirmCommit(t)
                /\ rewarded' = [rewarded EXCEPT ![g] = @ + 1]
<1>1. ASSUME NEW t \in Txn, ConfirmCommit(t)
      PROVE  request[t].group \in Created
             /\ rewarded' = [rewarded EXCEPT ![request[t].group] = @ + 1]
  BY <1>1, CommitsOnItsGroup DEF ConfirmCommit, Commit
<1>2. CASE \A t \in Txn : ~ ConfirmCommit(t)
  BY <1>2 DEF Next, vars, tables, vouchers, Begin, StartBegin, StartCommit, JoinBegin,
              LeaveBegin, ConfirmBegin, LockFirst, LockSecond, JoinCommit, LeaveCommit, Refuse,
              DeadlockVictim, BecomeOverdue, ExpireOldGroups, SetCampaign, CancelVoucher,
              PresentVoucher
<1> QED BY <1>1, <1>2

\* A manager only ever adds to the vouchers that were revoked.
LEMMA Revocations ==
    ASSUME TypeOK, [Next]_vars
    PROVE  revoked \subseteq revoked' /\ revoked' \subseteq Group /\ cancelled' \subseteq revoked'
<1>1. ASSUME NEW g \in Group, CancelVoucher(g) \/ PresentVoucher(g)
      PROVE  revoked \subseteq revoked' /\ revoked' \subseteq Group /\ cancelled' \subseteq revoked'
  BY <1>1 DEF CancelVoucher, PresentVoucher, TypeOK
<1>2. CASE \A g \in Group : ~ CancelVoucher(g) /\ ~ PresentVoucher(g)
  <2>1. UNCHANGED <<revoked, cancelled>>
    BY <1>2 DEF Next, vars, tables, vouchers, Begin, StartBegin, StartCommit, JoinBegin,
                LeaveBegin, ConfirmBegin, LockFirst, LockSecond, JoinCommit, LeaveCommit,
                ConfirmCommit, Refuse, DeadlockVictim, BecomeOverdue, ExpireOldGroups,
                SetCampaign
  <2> QED BY <2>1 DEF TypeOK
<1> QED BY <1>1, <1>2

LEMMA RewardedStaysFinite ==
    ASSUME Shape, [Next]_vars
    PROVE  /\ IsFiniteSet(Rewarded') /\ rewarded' \in [Group -> Nat]
           /\ rewarded' # rewarded =>
                \E g \in Created : Rewarded' = Rewarded \cup {g}
<1>1. CASE rewarded' = rewarded
  BY <1>1 DEF Shape, Rewarded, TypeOK
<1>2. CASE \E t \in Txn, g \in Created : rewarded' = [rewarded EXCEPT ![g] = @ + 1]
  <2>1. PICK g \in Created : rewarded' = [rewarded EXCEPT ![g] = @ + 1]
    BY <1>2
  <2>2. g \in Group /\ rewarded \in [Group -> Nat]
    BY DEF Created, Shape, TypeOK
  <2>3. Rewarded' = Rewarded \cup {g} /\ rewarded' \in [Group -> Nat]
    BY <2>1, <2>2 DEF Rewarded
  <2> QED BY <2>3, FS_AddElement DEF Shape
<1> QED BY <1>1, <1>2, RewardsCommitted

\* A step that issues no voucher leaves no more that count for good.
LEMMA CountedStays ==
    ASSUME Shape, [Next]_vars
    PROVE  /\ IsFiniteSet(Counted) /\ IsFiniteSet(Counted')
           /\ Cardinality(Counted) \in Nat /\ Cardinality(Counted') \in Nat
           /\ rewarded' = rewarded => Cardinality(Counted') <= Cardinality(Counted)
           /\ rewarded' # rewarded => Cardinality(Counted') <= Cardinality(Counted) + 1
<1>1. IsFiniteSet(Counted) /\ IsFiniteSet(Counted')
  <2>1. Counted \subseteq Rewarded /\ Counted' \subseteq Rewarded'
    BY DEF Counted
  <2> QED BY <2>1, RewardedStaysFinite, FS_Subset DEF Shape
<1>2. Cardinality(Counted) \in Nat /\ Cardinality(Counted') \in Nat
  BY <1>1, FS_CardinalityType
<1>3. revoked \subseteq revoked'
  BY Revocations DEF Shape
<1>4. CASE rewarded' = rewarded
  <2>1. Counted' \subseteq Counted
    BY <1>3, <1>4 DEF Counted, Rewarded
  <2> QED BY <1>1, <1>2, <1>4, <2>1, FS_Subset
<1>5. CASE rewarded' # rewarded
  <2>1. PICK g \in Created : Rewarded' = Rewarded \cup {g}
    BY <1>5, RewardedStaysFinite
  <2>2. Counted' \subseteq Counted \cup {g}
    BY <1>3, <2>1 DEF Counted
  <2>3. /\ IsFiniteSet(Counted \cup {g})
        /\ Cardinality(Counted \cup {g}) \in Nat
        /\ Cardinality(Counted \cup {g}) <= Cardinality(Counted) + 1
    BY <1>1, OneMore
  <2>4. Cardinality(Counted') <= Cardinality(Counted \cup {g})
    BY <2>2, <2>3, FS_Subset
  <2> QED BY <1>1, <1>2, <1>5, <2>3, <2>4
<1> QED BY <1>1, <1>2, <1>4, <1>5

\* What check_reward_limit counts is at least what counts for good.
LEMMA IssuedCountsAll ==
    ASSUME Shape
    PROVE  IssuedSoFar \in Nat /\ Cardinality(Counted) <= IssuedSoFar
<1>1. Counted \subseteq Rewarded \ cancelled /\ Rewarded \ cancelled \subseteq Rewarded
  BY DEF Counted, Shape, TypeOK
<1>2. IsFiniteSet(Rewarded \ cancelled)
  BY <1>1, FS_Subset DEF Shape
<1> QED BY <1>1, <1>2, FS_Subset, FS_CardinalityType DEF IssuedSoFar

\* The rows: those that exist stay, and a row that somebody holds is changed by
\* its holder only.
LEMMA RowsChange ==
    ASSUME Shape, [Next]_vars
    PROVE  /\ group' \in [Group -> GroupRow \cup {Absent}]
           /\ Created \subseteq Created'
           /\ \A g \in Group : group'[g] # group[g] =>
                \/ \E t \in Txn : StartCommit(t) /\ g \notin Created
                \/ \E t \in Txn : Commit(t) /\ g = request[t].group
                \/ ExpireOldGroups /\ holder[g] = None
<1> USE DEF Shape
<1>a. /\ group \in [Group -> GroupRow \cup {Absent}]
      /\ Absent \notin GroupRow
  BY DEF TypeOK, Absent, GroupRow, Status
<1>1. ASSUME NEW g \in Group, group' = [group EXCEPT ![g] = group'[g]], group'[g] \in GroupRow
      PROVE  /\ group' \in [Group -> GroupRow \cup {Absent}]
             /\ Created \subseteq Created'
             /\ \A h \in Group : h # g => group'[h] = group[h]
  BY <1>1, <1>a DEF Created
<1>2. ASSUME NEW t \in Txn, StartCommit(t)
      PROVE  /\ group' \in [Group -> GroupRow \cup {Absent}]
             /\ Created \subseteq Created'
             /\ \A g \in Group : group'[g] # group[g] => g \notin Created
  BY <1>1, <1>2, StartsNewGroup
<1>3. ASSUME NEW t \in Txn, Commit(t)
      PROVE  /\ group' \in [Group -> GroupRow \cup {Absent}]
             /\ Created \subseteq Created'
             /\ \A g \in Group : group'[g] # group[g] => g = request[t].group
  BY <1>1, <1>3, CommitsOnItsGroup DEF Created
<1>4. CASE ExpireOldGroups
  BY <1>a, <1>4, ExpiresFreeGroups DEF Created
<1>5. CASE UNCHANGED group
  BY <1>5, <1>a DEF Created
<1>6. ~ UNCHANGED group => \/ \E t \in Txn : StartCommit(t) \/ Commit(t)
                           \/ ExpireOldGroups
  BY DEF Next, vars, tables, Begin, StartBegin, JoinBegin, LeaveBegin, ConfirmBegin,
         LockFirst, LockSecond, Refuse, DeadlockVictim, BecomeOverdue, SetCampaign, Commit,
         CancelVoucher, PresentVoucher
<1> QED BY <1>2, <1>3, <1>4, <1>5, <1>6

\* What a request says and holds.
LEMMA ReleaseForgets ==
    ASSUME TypeOK, NEW t \in Txn, Release(t)
    PROVE  /\ stage'[t] = "idle" /\ stage' \in [Txn -> {"idle", "begun", "locked"}]
           /\ holder' \in [Lockable -> Txn \cup {None}]
           /\ request' \in [Txn -> [op : {"start", "join", "leave", "confirm"},
                                    group : Group \cup {None}, customer : Customer \cup {None},
                                    late : BOOLEAN] \cup {None}]
           /\ seen' \in [Txn -> [row : GroupRow, issued : Nat] \cup {None}]
           /\ started' \in Nat
           /\ \A u \in Txn : u # t => /\ stage'[u] = stage[u] /\ request'[u] = request[u]
                                      /\ seen'[u] = seen[u]
           /\ \A u \in Txn, r \in Lockable : u # t /\ holder[r] = u => holder'[r] = u
BY NobodyAssumption DEF TypeOK, Release

\* Handlers that begin, lock, commit and roll back leave the state well-typed.
LEMMA TypeStep == Shape /\ [Next]_vars => TypeOK'
<1> SUFFICES ASSUME Shape, [Next]_vars PROVE TypeOK'
  OBVIOUS
<1> DEFINE Requests == [op : {"start", "join", "leave", "confirm"}, group : Group \cup {None},
                        customer : Customer \cup {None}, late : BOOLEAN]
<1> USE DEF Shape
<1>1. /\ group' \in [Group -> GroupRow \cup {Absent}] /\ rewarded' \in [Group -> Nat]
      /\ revoked' \subseteq Group /\ cancelled' \subseteq revoked'
  BY RowsChange, RewardedStaysFinite, Revocations
<1>2. ASSUME NEW t \in Txn, NEW r \in Requests, Begin(t, r) PROVE TypeOK'
  BY <1>1, <1>2 DEF Begin, tables, TypeOK
<1>3. ASSUME NEW t \in Txn, NEW c \in Customer, StartBegin(t, c) PROVE TypeOK'
  <2>1. Begin(t, [op |-> "start", group |-> None, customer |-> c, late |-> FALSE])
    BY <1>3 DEF StartBegin
  <2> QED BY <1>2, <2>1
<1>4. ASSUME NEW t \in Txn, NEW g \in Group, NEW c \in Customer,
             JoinBegin(t, g, c) \/ LeaveBegin(t, g, c)
      PROVE  TypeOK'
  <2>1. PICK o \in {"join", "leave"} :
           Begin(t, [op |-> o, group |-> g, customer |-> c, late |-> FALSE])
    BY <1>4 DEF JoinBegin, LeaveBegin
  <2>2. [op |-> o, group |-> g, customer |-> c, late |-> FALSE] \in Requests
    OBVIOUS
  <2> QED BY <1>2, <2>1, <2>2
<1>5. ASSUME NEW t \in Txn, NEW g \in Group, ConfirmBegin(t, g) PROVE TypeOK'
  <2>1. Begin(t, [op |-> "confirm", group |-> g, customer |-> None, late |-> g \in overdue])
    BY <1>5 DEF ConfirmBegin
  <2>2. [op |-> "confirm", group |-> g, customer |-> None, late |-> g \in overdue] \in Requests
    <3>1. (g \in overdue) \in BOOLEAN
      OBVIOUS
    <3> QED BY <3>1, Zenon
  <2> QED BY <1>2, <2>1, <2>2
<1>6. ASSUME NEW t \in Txn, LockFirst(t) PROVE TypeOK'
  BY <1>1, <1>6 DEF LockFirst, tables, TypeOK
<1>7. ASSUME NEW t \in Txn, LockSecond(t) PROVE TypeOK'
  <2>1. group[request[t].group] \in GroupRow /\ IssuedSoFar \in Nat
    BY <1>7, CreatedAreRows, IssuedCountsAll DEF LockSecond, RequestInv, Created
  <2> QED BY <1>1, <1>7, <2>1 DEF LockSecond, tables, TypeOK
<1>8. ASSUME NEW t \in Txn, Release(t), UNCHANGED <<overdue, campaign>>,
             participants' \subseteq Customer
      PROVE  TypeOK'
  BY <1>1, <1>8, ReleaseForgets DEF TypeOK
<1>9. ASSUME NEW t \in Txn, Commit(t) PROVE TypeOK'
  <2>1. Release(t) /\ UNCHANGED <<overdue, campaign, participants>>
    BY <1>9, CommitsOnItsGroup
  <2> QED BY <1>8, <2>1 DEF TypeOK
<1>10. ASSUME NEW t \in Txn, Refuse(t) \/ DeadlockVictim(t) PROVE TypeOK'
  BY <1>8, <1>10 DEF Refuse, DeadlockVictim, tables, TypeOK
<1>11. ASSUME NEW t \in Txn, StartCommit(t) PROVE TypeOK'
  BY <1>8, <1>11 DEF StartCommit, TypeOK, RequestInv
<1>12. ASSUME NEW g \in Group, BecomeOverdue(g) PROVE TypeOK'
  BY <1>1, <1>12 DEF BecomeOverdue, TypeOK
<1>13. CASE ExpireOldGroups
  BY <1>1, <1>13 DEF ExpireOldGroups, TypeOK
<1>14. ASSUME NEW s \in {"active", "paused", "ended"}, SetCampaign(s) PROVE TypeOK'
  BY <1>1, <1>14 DEF SetCampaign, TypeOK
<1>15. CASE UNCHANGED vars
  BY <1>1, <1>15 DEF vars, tables, TypeOK
<1>16. ASSUME NEW g \in Group, CancelVoucher(g) \/ PresentVoucher(g) PROVE TypeOK'
  BY <1>1, <1>16 DEF CancelVoucher, PresentVoucher, TypeOK
<1> QED BY <1>3, <1>4, <1>5, <1>6, <1>7, <1>9, <1>10, <1>11, <1>12, <1>13, <1>14, <1>15, <1>16
        DEF Next, Commit

\* Requests keep naming a customer and a group that exists.
LEMMA RequestStep == Shape /\ [Next]_vars => RequestInv'
<1> SUFFICES ASSUME Shape, [Next]_vars, NEW t \in Txn, stage'[t] # "idle"
             PROVE  LET r == request'[t] IN
                    /\ r.op # "confirm" => r.customer \in Customer
                    /\ r.op # "start" => r.group \in Created'
  BY DEF RequestInv
<1> USE DEF Shape
<1>1. Created \subseteq Created'
  BY RowsChange
<1>2. CASE stage[t] # "idle" /\ request'[t] = request[t]
  BY <1>1, <1>2 DEF RequestInv
<1>3. ASSUME NEW c \in Customer, StartBegin(t, c)
      PROVE  request'[t].op = "start" /\ request'[t].customer = c
  BY <1>3 DEF StartBegin, Begin, TypeOK
<1>4. ASSUME NEW c \in Customer, NEW g \in Group, JoinBegin(t, g, c)
      PROVE  /\ g \in Created
             /\ request'[t].op = "join" /\ request'[t].group = g /\ request'[t].customer = c
  BY <1>4 DEF JoinBegin, Begin, TypeOK
<1>5. ASSUME NEW c \in Customer, NEW g \in Group, LeaveBegin(t, g, c)
      PROVE  /\ g \in Created
             /\ request'[t].op = "leave" /\ request'[t].group = g /\ request'[t].customer = c
  BY <1>5 DEF LeaveBegin, Begin, TypeOK
<1>6. ASSUME NEW g \in Group, ConfirmBegin(t, g)
      PROVE  /\ g \in Created
             /\ request'[t].op = "confirm" /\ request'[t].group = g
  BY <1>6 DEF ConfirmBegin, Begin, TypeOK
<1>7. CASE /\ \A c \in Customer : ~ StartBegin(t, c)
           /\ \A g \in Group : ~ ConfirmBegin(t, g)
           /\ \A c \in Customer, g \in Group : ~ JoinBegin(t, g, c) /\ ~ LeaveBegin(t, g, c)
  <2>1. ASSUME NEW u \in Txn, Release(u) PROVE stage[t] # "idle" /\ request'[t] = request[t]
    BY <2>1, ReleaseForgets
  <2>2. ASSUME NEW u \in Txn, NEW r, Begin(u, r), u # t
        PROVE  stage[t] # "idle" /\ request'[t] = request[t]
    BY <2>2 DEF Begin, TypeOK
  <2>3. ASSUME NEW u \in Txn, LockFirst(u) \/ LockSecond(u)
        PROVE  stage[t] # "idle" /\ request'[t] = request[t]
    BY <2>3 DEF LockFirst, LockSecond, TypeOK
  <2>4. CASE UNCHANGED <<stage, request>>
    BY <1>2, <2>4
  <2>5. CASE ~ UNCHANGED <<stage, request>>
    <3>1. PICK u \in Txn : \/ LockFirst(u) \/ LockSecond(u)
                           \/ Release(u)
                           \/ u # t /\ \E r : Begin(u, r)
      BY <1>7, <2>5 DEF Next, vars, StartBegin, JoinBegin, LeaveBegin, ConfirmBegin, StartCommit,
                  JoinCommit, LeaveCommit, ConfirmCommit, Refuse, DeadlockVictim,
                  BecomeOverdue, ExpireOldGroups, SetCampaign, CancelVoucher, PresentVoucher
    <3> QED BY <1>2, <2>1, <2>2, <2>3, <3>1
  <2> QED BY <2>4, <2>5
<1>8. CASE \E c \in Customer : StartBegin(t, c)
  BY <1>3, <1>8
<1>9. CASE \E c \in Customer, g \in Group : JoinBegin(t, g, c)
  BY <1>1, <1>4, <1>9 DEF Created
<1>10. CASE \E c \in Customer, g \in Group : LeaveBegin(t, g, c)
  BY <1>1, <1>5, <1>10 DEF Created
<1>11. CASE \E g \in Group : ConfirmBegin(t, g)
  BY <1>1, <1>6, <1>11 DEF Created
<1> QED BY <1>7, <1>8, <1>9, <1>10, <1>11

\* A handler that has read its rows keeps them locked until it commits or rolls
\* back; it has just locked the second of them, or had locked both before.
LEMMA LockedBefore ==
    ASSUME Shape, [Next]_vars, NEW t \in Txn, stage'[t] = "locked"
    PROVE  \/ /\ stage[t] = "locked" /\ ~ Release(t)
              /\ request'[t] = request[t] /\ seen'[t] = seen[t]
              /\ \A r \in Lockable : holder[r] = t => holder'[r] = t
           \/ LockSecond(t)
<1> USE DEF Shape
<1>1. ASSUME NEW u \in Txn, Release(u)
      PROVE  u # t /\ stage[t] = "locked" /\ request'[t] = request[t] /\ seen'[t] = seen[t]
             /\ \A r \in Lockable : holder[r] = t => holder'[r] = t
  BY <1>1, ReleaseForgets
<1>2. ASSUME NEW u \in Txn, LockFirst(u) \/ (LockSecond(u) /\ u # t)
      PROVE  stage[t] = "locked" /\ request'[t] = request[t] /\ seen'[t] = seen[t]
             /\ \A r \in Lockable : holder[r] = t => holder'[r] = t
  BY <1>2, NobodyAssumption DEF LockFirst, LockSecond, TypeOK
<1>3. ASSUME NEW u \in Txn, NEW r, Begin(u, r)
      PROVE  stage[t] = "locked" /\ request'[t] = request[t] /\ seen'[t] = seen[t]
             /\ \A k \in Lockable : holder[k] = t => holder'[k] = t
  BY <1>3 DEF Begin, TypeOK
<1>4. CASE UNCHANGED <<stage, request, seen, holder>>
  BY <1>1, <1>4
<1>5. CASE ~ UNCHANGED <<stage, request, seen, holder>>
  <2>1. PICK u \in Txn : \/ LockFirst(u) \/ LockSecond(u) \/ Release(u)
                         \/ \E r : Begin(u, r)
    BY <1>5 DEF Next, vars, StartBegin, JoinBegin, LeaveBegin, ConfirmBegin, StartCommit,
                JoinCommit, LeaveCommit, ConfirmCommit, Refuse, DeadlockVictim,
                BecomeOverdue, ExpireOldGroups, SetCampaign, CancelVoucher, PresentVoucher
  <2> QED BY <1>1, <1>2, <1>3, <2>1
<1> QED BY <1>4, <1>5

\* Whichever of its two rows a handler locked first, nobody changes its group, its
\* members or the number of vouchers while it holds both.
LEMMA LockStep == Shape /\ [Next]_vars => LockInv'
<1> SUFFICES ASSUME Shape, [Next]_vars PROVE LockInv'
  OBVIOUS
<1> USE DEF Shape
<1>1. ASSUME NEW t \in Txn, stage'[t] = "locked", ~ LockSecond(t), NEW g, g = request'[t].group
      PROVE  /\ request'[t].op # "start"
             /\ holder'["campaign"] = t /\ holder'[g] = t
             /\ seen'[t] \in [row : GroupRow, issued : Nat]
             /\ seen'[t].row = group'[g]
             /\ Cardinality(Counted') <= seen'[t].issued
  <2>1. /\ stage[t] = "locked" /\ ~ Release(t)
        /\ request'[t] = request[t] /\ seen'[t] = seen[t]
        /\ \A r \in Lockable : holder[r] = t => holder'[r] = t
    BY <1>1, LockedBefore
  <2>2. /\ request[t].op # "start" /\ g = request[t].group /\ g \in Created /\ g \in Group
        /\ holder["campaign"] = t /\ holder[g] = t
        /\ seen[t] \in [row : GroupRow, issued : Nat]
        /\ seen[t].row = group[g] /\ Cardinality(Counted) <= seen[t].issued
    BY <1>1, <2>1 DEF LockInv, RequestInv, Created
  <2>3. \A u \in Txn : ~ Commit(u)
    <3>1. ASSUME NEW u \in Txn, Commit(u) PROVE stage[u] = "locked" /\ Release(u)
      BY <3>1 DEF Commit, JoinCommit, LeaveCommit, ConfirmCommit
    <3> QED BY <2>1, <3>1, Alone
  <2>4. group'[g] = group[g]
    BY <2>2, <2>3, RowsChange, NobodyAssumption
  <2>5. rewarded' = rewarded
    BY <2>3, RewardsCommitted DEF Commit
  <2>6. Cardinality(Counted') <= seen[t].issued
    <3>1. seen[t].issued \in Nat
      BY <2>2
    <3> QED BY <2>2, <2>5, <3>1, CountedStays
  <2> QED BY <2>1, <2>2, <2>4, <2>6 DEF Lockable
<1>2. ASSUME NEW t \in Txn, LockSecond(t), NEW g, g = request'[t].group
      PROVE  /\ request'[t].op # "start"
             /\ holder'["campaign"] = t /\ holder'[g] = t
             /\ seen'[t] \in [row : GroupRow, issued : Nat]
             /\ seen'[t].row = group'[g]
             /\ Cardinality(Counted') <= seen'[t].issued
  <2>1. request' = request /\ request[t].op # "start" /\ g \in Created /\ g \in Group
    BY <1>2 DEF LockSecond, RequestInv, Created
  <2>2. holder'["campaign"] = t /\ holder'[g] = t
    BY <1>2, <2>1, NobodyAssumption DEF LockSecond, LockOrder, TypeOK, Lockable
  <2>3. group' = group /\ Cardinality(Counted') = Cardinality(Counted)
    BY <1>2 DEF LockSecond, tables, vouchers, Counted, Rewarded
  <2>4. seen'[t] = [row |-> group[g], issued |-> IssuedSoFar]
    BY <1>2, <2>1 DEF LockSecond, TypeOK
  <2>5. group[g] \in GroupRow /\ IssuedSoFar \in Nat /\ Cardinality(Counted) <= IssuedSoFar
    BY <2>1, CreatedAreRows, IssuedCountsAll
  <2> QED BY <2>1, <2>2, <2>3, <2>4, <2>5
<1> QED BY <1>1, <1>2 DEF LockInv

\* Shape holds of every reachable state.
LEMMA ShapeStays == Spec => []Shape
<1>1. ASSUME Init PROVE Shape
  <2>1. TypeOK
    BY <1>1, NobodyAssumption DEF Init, TypeOK
  <2>2. RequestInv /\ LockInv
    BY <1>1 DEF Init, RequestInv, LockInv
  <2>3. Rewarded = {}
    BY <1>1 DEF Init, Rewarded
  <2> QED BY <2>1, <2>2, <2>3, FS_EmptySet DEF Shape
<1>2. Shape /\ [Next]_vars => Shape'
  BY TypeStep, RequestStep, LockStep, RewardedStaysFinite DEF Shape
<1> QED BY <1>1, <1>2, PTL DEF Spec

-----------------------------------------------------------------------------
(* What is settled, and what it earned. *)

\* A group that is neither FORMING nor FULL does not change.
LEMMA SettledStays ==
    ASSUME Shape, [Next]_vars, NEW g \in Created, group[g].status \notin {"forming", "full"}
    PROVE  group'[g] = group[g]
<1>1. ASSUME NEW t \in Txn, Commit(t) PROVE g # request[t].group
  BY <1>1, CommitsOnItsGroup
<1>2. ASSUME ExpireOldGroups PROVE group'[g] = group[g]
  BY <1>2 DEF ExpireOldGroups, Created
<1> QED BY <1>1, <1>2, RowsChange DEF Created

\* However joins, leaves, confirms and the hourly task overlap, a completed,
\* expired or cancelled group stays what it is, with its members.
THEOREM SettledGroupsStay == Spec => SettledForGood
<1>1. Shape /\ [Next]_vars =>
        [\A g \in Created : group[g].status \in {"completed", "expired", "cancelled"}
            => group'[g] = group[g]]_vars
  BY SettledStays
<1> QED BY <1>1, ShapeStays, PTL DEF Spec, SettledForGood

\* However many confirms race, a group earns one voucher, when it is completed.
THEOREM GroupsEarnOnce == Spec => []OneVoucherPerGroup
<1>1. Init => OneVoucherPerGroup
  BY DEF Init, OneVoucherPerGroup, Absent
<1>2. Shape /\ OneVoucherPerGroup /\ [Next]_vars => OneVoucherPerGroup'
  <2> SUFFICES ASSUME Shape, OneVoucherPerGroup, [Next]_vars, NEW g \in Group
               PROVE  rewarded'[g] = IF group'[g].status = "completed" THEN 1 ELSE 0
    BY DEF OneVoucherPerGroup
  <2>1. rewarded[g] = (IF group[g].status = "completed" THEN 1 ELSE 0) /\ rewarded \in [Group -> Nat]
    BY DEF OneVoucherPerGroup, Shape, TypeOK
  <2>2. ASSUME NEW t \in Txn, ConfirmCommit(t), g = request[t].group
        PROVE  rewarded'[g] = 1 /\ group'[g].status = "completed"
    <3>1. group[g] \in GroupRow /\ group[g].status # "completed"
      BY <2>2, CommitsOnItsGroup DEF Commit
    <3>2. group'[g].status = "completed" /\ rewarded'[g] = rewarded[g] + 1
      BY <2>1, <2>2, <3>1 DEF ConfirmCommit, Shape, TypeOK, GroupRow
    <3> QED BY <2>1, <3>1, <3>2
  <2>3. ASSUME NEW t \in Txn, JoinCommit(t) \/ LeaveCommit(t), g = request[t].group
        PROVE  rewarded'[g] = rewarded[g] /\ group'[g].status # "completed"
               /\ group[g].status # "completed"
    <3>1. group[g] \in GroupRow /\ group[g].status \in {"forming", "full"}
      BY <2>3, CommitsOnItsGroup DEF Commit
    <3> QED BY <2>3, <3>1 DEF JoinCommit, LeaveCommit, Shape, TypeOK, GroupRow, vouchers
  <2>4. ASSUME NEW t \in Txn, StartCommit(t), group'[g] # group[g]
        PROVE  rewarded'[g] = rewarded[g] /\ group'[g].status # "completed"
               /\ group[g].status # "completed"
    <3>1. group[g].status = "none" /\ group'[g].status = "forming"
      <4>1. PICK h \in Group \ Created, c \in Customer :
               /\ group'[h] = [status |-> "forming", leader |-> c,
                               member |-> [Absent.member EXCEPT ![c] = "checked_in"]]
               /\ \A k \in Group : k # h => group'[k] = group[k]
        BY <2>4, StartsNewGroup
      <4> QED BY <2>4, <4>1 DEF Created, Absent
    <3> QED BY <2>4, <3>1 DEF StartCommit, vouchers
  <2>5. CASE ExpireOldGroups
    <3>1. \/ group'[g] = group[g]
          \/ group[g].status # "completed" /\ group'[g].status # "completed"
      BY <2>5, ExpiresFreeGroups DEF Shape, GroupRow
    <3>2. rewarded' = rewarded
      BY <2>5 DEF ExpireOldGroups, vouchers
    <3> QED BY <2>1, <3>1, <3>2
  <2>6. CASE group'[g] = group[g] /\ ~ \E t \in Txn : ConfirmCommit(t) /\ g = request[t].group
    BY <2>1, <2>6, RewardsCommitted
  <2> QED BY <2>1, <2>2, <2>3, <2>4, <2>5, <2>6, RowsChange DEF Commit
<1> QED BY <1>1, <1>2, ShapeStays, PTL DEF Spec

\* The campaign lock serialises the confirms of all groups: together they never
\* earn more vouchers than max_rewards, those a manager cancelled apart.
THEOREM GroupRewardsCapped == Spec => []GroupRewardCap
<1>1. Init => GroupRewardCap
  <2> SUFFICES ASSUME Init PROVE GroupRewardCap
    OBVIOUS
  <2>1. Rewarded \ revoked = {}
    BY DEF Init, Rewarded
  <2> QED BY <2>1, FS_EmptySet, CapAssumption DEF GroupRewardCap
<1>2. Shape /\ GroupRewardCap /\ [Next]_vars => GroupRewardCap'
  <2> SUFFICES ASSUME Shape, GroupRewardCap, [Next]_vars PROVE Cardinality(Counted') <= MaxRewards
    BY DEF GroupRewardCap, Counted
  <2>1. Cardinality(Counted) <= MaxRewards
    BY DEF GroupRewardCap, Counted
  <2>2. CASE rewarded' = rewarded
    BY <2>1, <2>2, CountedStays, CapAssumption
  <2>3. CASE rewarded' # rewarded
    <3>1. PICK t \in Txn : ConfirmCommit(t)
      BY <2>3, RewardsCommitted
    <3>2. seen[t].issued < MaxRewards
      BY <3>1 DEF ConfirmCommit, Confirmable
    <3>3. seen[t].issued \in Nat /\ Cardinality(Counted) <= seen[t].issued
      BY <3>1, CommitsOnItsGroup DEF Commit
    <3> QED BY <2>3, <3>2, <3>3, CountedStays, CapAssumption
  <2> QED BY <2>2, <2>3
<1> QED BY <1>1, <1>2, ShapeStays, PTL DEF Spec

-----------------------------------------------------------------------------
(* Seats. *)

\* What a handler does to the rows of its group's members: a join adds one, if
\* there was room; nothing removes one.
LEMMA MembersChange ==
    ASSUME Shape, [Next]_vars, NEW g \in Created
    PROVE  \/ /\ Rows(group'[g]) = Rows(group[g])
              /\ group'[g].status = "completed" =>
                    \/ group[g].status = "completed"
                    \/ Cardinality(Rows(group[g])) >= Size
           \/ /\ \E c \in Customer : Rows(group'[g]) = Rows(group[g]) \cup {c}
              /\ Cardinality(Rows(group[g])) < Size
              /\ group'[g].status # "completed"
<1> USE DEF Shape
<1>1. group[g] \in GroupRow /\ g \in Group
  BY CreatedAreRows DEF Created
<1>2. ASSUME NEW t \in Txn, JoinCommit(t), g = request[t].group
      PROVE  /\ \E c \in Customer : Rows(group'[g]) = Rows(group[g]) \cup {c}
             /\ Cardinality(Rows(group[g])) < Size
             /\ group'[g].status # "completed"
  <2>1. PICK c \in Customer : c = request[t].customer
    BY <1>2, CommitsOnItsGroup DEF Commit, JoinCommit, Joinable
  <2>2. seen[t].row = group[g]
    BY <1>2, CommitsOnItsGroup DEF Commit
  <2>3. group'[g].member = [group[g].member EXCEPT ![c] = "joined"]
        /\ group'[g].status # "completed" /\ Cardinality(Rows(group[g])) < Size
    BY <1>1, <1>2, <2>1, <2>2 DEF JoinCommit, Joinable, TypeOK, GroupRow
  <2>4. Rows(group'[g]) = Rows(group[g]) \cup {c}
    BY <1>1, <2>3 DEF Rows, GroupRow
  <2> QED BY <2>3, <2>4
<1>3. ASSUME NEW t \in Txn, LeaveCommit(t), g = request[t].group
      PROVE  Rows(group'[g]) = Rows(group[g]) /\ group'[g].status # "completed"
  <2>1. PICK c \in Customer : c = request[t].customer
    BY <1>3, CommitsOnItsGroup DEF Commit, LeaveCommit, Leavable
  <2>2. seen[t].row = group[g]
    BY <1>3, CommitsOnItsGroup DEF Commit
  <2>3. c \in Rows(group[g])
    BY <1>3, <2>1, <2>2 DEF LeaveCommit, Leavable
  <2>4. /\ group'[g].status # "completed"
        /\ \/ group'[g].member = [group[g].member EXCEPT ![c] = "left"]
           \/ group'[g].member = [d \in Customer |->
                IF group[g].member[d] \in {"joined", "checked_in"} THEN "left"
                                                                   ELSE group[g].member[d]]
    BY <1>1, <1>3, <2>1 DEF LeaveCommit, TypeOK, GroupRow
  <2> QED BY <1>1, <2>3, <2>4 DEF Rows, GroupRow
<1>4. ASSUME NEW t \in Txn, ConfirmCommit(t), g = request[t].group
      PROVE  Rows(group'[g]) = Rows(group[g]) /\ Cardinality(Rows(group[g])) >= Size
  <2>1. seen[t].row = group[g]
    BY <1>4, CommitsOnItsGroup DEF Commit
  <2>2. group'[g].member = [d \in Customer |->
            IF group[g].member[d] = "joined" THEN "checked_in" ELSE group[g].member[d]]
    BY <1>1, <1>4, <2>1 DEF ConfirmCommit, TypeOK, GroupRow
  <2>3. Rows(group'[g]) = Rows(group[g])
    BY <1>1, <2>2 DEF Rows, GroupRow
  <2> QED BY <1>4, <2>1, <2>3 DEF ConfirmCommit, Confirmable
<1>5. ASSUME ExpireOldGroups
      PROVE  /\ Rows(group'[g]) = Rows(group[g])
             /\ group'[g].status = "completed" => group[g].status = "completed"
  BY <1>1, <1>5, ExpiresFreeGroups DEF Rows, GroupRow
<1> QED BY <1>1, <1>2, <1>3, <1>4, <1>5, RowsChange DEF Commit

\* SeatInv is inductive: rows are counted under the lock before one is added, and a
\* group that starts has its leader's row alone.
LEMMA SeatStep == Shape /\ SeatInv /\ [Next]_vars => SeatInv'
<1> SUFFICES ASSUME Shape, SeatInv, [Next]_vars, NEW g \in Created'
             PROVE  /\ IsFiniteSet(Rows(group'[g]))
                    /\ Cardinality(Rows(group'[g])) <= Size
                    /\ group'[g].status = "completed" => Cardinality(Rows(group'[g])) >= Size
  BY DEF SeatInv
<1>1. CASE g \in Created
  <2>1. /\ IsFiniteSet(Rows(group[g])) /\ Cardinality(Rows(group[g])) \in Nat
        /\ Cardinality(Rows(group[g])) <= Size
        /\ group[g].status = "completed" => Cardinality(Rows(group[g])) >= Size
    BY <1>1, FS_CardinalityType DEF SeatInv
  <2>2. CASE /\ \E c \in Customer : Rows(group'[g]) = Rows(group[g]) \cup {c}
             /\ Cardinality(Rows(group[g])) < Size
             /\ group'[g].status # "completed"
    <3>1. IsFiniteSet(Rows(group'[g]))
          /\ Cardinality(Rows(group'[g])) <= Cardinality(Rows(group[g])) + 1
      <4>1. PICK c \in Customer : Rows(group'[g]) = Rows(group[g]) \cup {c}
        BY <2>2
      <4>2. /\ IsFiniteSet(Rows(group[g]) \cup {c})
            /\ Cardinality(Rows(group[g]) \cup {c}) <= Cardinality(Rows(group[g])) + 1
        BY <2>1, OneMore
      <4> QED BY <4>1, <4>2
    <3>2. Cardinality(Rows(group'[g])) \in Nat
      BY <3>1, FS_CardinalityType
    <3> QED BY <2>1, <2>2, <3>1, <3>2, SizeAssumption
  <2> QED BY <1>1, <2>1, <2>2, MembersChange
<1>2. CASE g \notin Created
  <2>1. g \in Group /\ group'[g] # group[g]
    BY <1>2 DEF Created
  <2>2. \A t \in Txn : Commit(t) => g # request[t].group
    BY <1>2, CommitsOnItsGroup
  <2>3. ~ ExpireOldGroups
    BY <1>2, <2>1 DEF ExpireOldGroups
  <2>4. PICK t \in Txn : StartCommit(t)
    BY <2>1, <2>2, <2>3, RowsChange
  <2>5. PICK c \in Customer : group'[g] = [status |-> "forming", leader |-> c,
                             member |-> [Absent.member EXCEPT ![c] = "checked_in"]]
    <3>1. PICK h \in Group \ Created, c \in Customer :
             /\ group'[h] = [status |-> "forming", leader |-> c,
                             member |-> [Absent.member EXCEPT ![c] = "checked_in"]]
             /\ \A k \in Group : k # h => group'[k] = group[k]
      BY <2>4, StartsNewGroup
    <3> QED BY <2>1, <3>1
  <2>6. Rows(group'[g]) = {c}
    BY <2>5 DEF Rows, Absent
  <2>7. IsFiniteSet({c}) /\ Cardinality({c}) = 1
    BY FS_Singleton
  <2> QED BY <2>5, <2>6, <2>7, SizeAssumption
<1> QED BY <1>1, <1>2

LEMMA SeatsStay == Spec => []SeatInv
<1>1. Init => SeatInv
  BY DEF Init, SeatInv, Created
<1> QED BY <1>1, ShapeStays, SeatStep, PTL DEF Spec

\* However joins and leaves race for the last seat, no more people sit in a group
\* than it has places; and every table stays well-typed.
THEOREM SeatsLimited == Spec => []SeatsNotOversold
<1>1. Shape /\ SeatInv => SeatsNotOversold
  <2> SUFFICES ASSUME Shape, SeatInv, NEW g \in Created
               PROVE  Cardinality(Present(group[g])) <= Size
    BY DEF SeatsNotOversold, Shape
  <2>1. Present(group[g]) \subseteq Rows(group[g])
    BY DEF Present, Rows
  <2>2. /\ Cardinality(Present(group[g])) <= Cardinality(Rows(group[g]))
        /\ Cardinality(Present(group[g])) \in Nat /\ Cardinality(Rows(group[g])) \in Nat
        /\ Cardinality(Rows(group[g])) <= Size
    BY <2>1, FS_Subset, FS_CardinalityType DEF SeatInv
  <2> QED BY <2>2, SizeAssumption
<1> QED BY <1>1, ShapeStays, SeatsStay, PTL

\* A confirmed group none of whose members had left has its required size.
THEOREM ConfirmedGroupsFull == Spec => []ConfirmedAtFullSize
<1>1. SeatInv => ConfirmedAtFullSize
  BY DEF SeatInv, ConfirmedAtFullSize
<1> QED BY <1>1, SeatsStay, PTL
=============================================================================
