---------------------------- MODULE CampaignVisit ----------------------------
(***************************************************************************)
(* Joining, progressing and completing ONE campaign:                       *)
(* apps/campaigns/services/progress.py and eligibility.py, composed with   *)
(* the campaign's vouchers (CampaignVoucher).                              *)
(*                                                                         *)
(* A verified visit runs in one transaction that holds the campaign row:   *)
(* it takes the lock, reads the participant row FOR UPDATE, evaluates the  *)
(* eligibility pipeline, and commits the visit and perhaps a voucher.      *)
(* Joining takes no lock.  A social proof is a visit of a campaign that    *)
(* asks for one (terms.required = 1, terms.autoJoin = TRUE).               *)
(***************************************************************************)
EXTENDS CampaignVoucher, Integers

CONSTANTS
    Txn,            \* handlers of verified visits
    Terms,          \* terms a campaign may be published with
    MaxDay,         \* BOUND: days that pass
    MaxVisits       \* BOUND: visit requests that may ever start

TermsRow == [limit : {"once", "repeatable"}, required : Nat \ {0}, maxRewards : Nat,
             maxParticipants : Nat, perDay : Nat, autoJoin : BOOLEAN]
ASSUME TermsAssumption == Terms \subseteq TermsRow
ASSUME NoHolder == None \notin Txn
ASSUME CalendarAssumption == MaxDay \in Nat

VARIABLES
    terms,      \* frozen when the campaign is published
    status,     \* Campaign.status of the published campaign
    progress,   \* CampaignParticipant.progress_count
    cycle,      \* CampaignParticipant.completion_cycle
    actions,    \* COUNTED CampaignAction rows: how many per customer and day
    joining,    \* customers whose join request has passed its checks
    lock,       \* holder of the campaign row
    stage,      \* "idle", "begun", "locked" (rows read), "checked" (eligible)
    request,    \* the visit: its customer and the day its clock was read
    seen,       \* the participant row read under the lock
    today,
    started

vouchers == <<voucher, clock, warned, queue, presenting, handed, nudged, revoked>>
visits == <<lock, stage, request, seen, started>>
campaignVars == <<vouchers, participant, terms, status, progress, cycle, actions, joining, visits, today>>

Day == 0 .. MaxDay

CampaignTypeOK ==
    /\ TypeOK
    /\ terms \in Terms
    /\ status \in {"active", "paused", "ended"}
    /\ progress \in [Customer -> Nat]
    /\ cycle \in [Customer -> Nat]
    /\ actions \in [Customer -> [Day -> Nat]]
    /\ joining \subseteq Customer
    /\ lock \in Txn \cup {None}
    /\ stage \in [Txn -> {"idle", "begun", "locked", "checked"}]
    /\ request \in [Txn -> [customer : Customer, day : Day] \cup {None}]
    /\ seen \in [Txn -> [status : ParticipantStatus, progress : Nat] \cup {None}]
    /\ today \in Day
    /\ started \in Nat

CampaignInit ==
    /\ NoVouchers
    /\ participant = [c \in Customer |-> "none"]
    /\ terms \in Terms
    /\ status = "active"
    /\ progress = [c \in Customer |-> 0]
    /\ cycle = [c \in Customer |-> 0]
    /\ actions = [c \in Customer |-> [d \in Day |-> 0]]
    /\ joining = {}
    /\ lock = None
    /\ stage = [t \in Txn |-> "idle"]
    /\ request = [t \in Txn |-> None]
    /\ seen = [t \in Txn |-> None]
    /\ today = 0
    /\ started = 0

Participants == {c \in Customer : participant[c] # "none"}

\* check_participant_limit
RoomForOneMore == Cardinality(Participants) < terms.maxParticipants

-----------------------------------------------------------------------------
(* join_campaign_with_wallet: the checks read the tables without a lock; the *)
(* unique constraint refuses a second row for the same customer.             *)

JoinRead(c) ==
    /\ status = "active"
    /\ c \notin Participants \cup joining
    /\ RoomForOneMore
    /\ joining' = joining \cup {c}
    /\ UNCHANGED <<vouchers, participant, terms, status, progress, cycle, actions, visits, today>>

\* Mutant: update_or_create instead of create.
JoinCreate_Reset(c) ==
    /\ c \in joining
    /\ joining' = joining \ {c}
    /\ participant' = [participant EXCEPT ![c] = "joined"]
    /\ progress' = [progress EXCEPT ![c] = 0]
    /\ cycle' = [cycle EXCEPT ![c] = 0]
    /\ UNCHANGED <<vouchers, terms, status, actions, visits, today>>

JoinCreate(c) ==
    /\ c \in joining
    /\ joining' = joining \ {c}
    /\ participant' = [participant EXCEPT ![c] = IF @ = "none" THEN "joined" ELSE @]
    /\ UNCHANGED <<vouchers, terms, status, progress, cycle, actions, visits, today>>

-----------------------------------------------------------------------------
(* record_campaign_action, complete_campaign, confirm_social_proof. *)

\* The clock is read before the transaction begins.
VisitBegin(t, c) ==
    /\ stage[t] = "idle"
    /\ started < MaxVisits
    /\ started' = started + 1
    /\ stage' = [stage EXCEPT ![t] = "begun"]
    /\ request' = [request EXCEPT ![t] = [customer |-> c, day |-> today]]
    /\ UNCHANGED <<vouchers, participant, terms, status, progress, cycle, actions, joining,
                   lock, seen, today>>

\* Mutant: the rows are read without a lock.
VisitLock_NoLock(t) ==
    LET c == request[t].customer IN
    /\ stage[t] = "begun"
    /\ lock' = t
    /\ stage' = [stage EXCEPT ![t] = "locked"]
    /\ seen' = [seen EXCEPT ![t] = [status |-> participant[c], progress |-> progress[c]]]
    /\ UNCHANGED <<vouchers, participant, terms, status, progress, cycle, actions, joining,
                   request, started, today>>

\* _lock_campaign, then the participant row FOR UPDATE.
VisitLock(t) ==
    LET c == request[t].customer IN
    /\ stage[t] = "begun"
    /\ lock = None
    /\ lock' = t
    /\ stage' = [stage EXCEPT ![t] = "locked"]
    /\ seen' = [seen EXCEPT ![t] = [status |-> participant[c], progress |-> progress[c]]]
    /\ UNCHANGED <<vouchers, participant, terms, status, progress, cycle, actions, joining,
                   request, started, today>>

\* COUNTED actions since the start of the visit's day.
CountedSince(c, d) ==
    LET Sum[e \in Day] == IF e < d THEN 0
                          ELSE actions[c][e] + (IF e = 0 THEN 0 ELSE Sum[e - 1])
    IN  Sum[MaxDay]

\* check_customer_eligibility on the row that was read.
MayStillEarn(row) == terms.limit = "repeatable" \/ row.status \notin {"completed", "redeemed"}

\* auto_join_customer where there is no row, then the eligibility pipeline: the
\* campaign, the customer, the day, the reward cap.  A visit that completes
\* counts the cap once more, last before it writes: this is that moment.
VisitCheck(t) ==
    LET c == request[t].customer IN
    /\ stage[t] = "locked"
    /\ participant[c] # "none" \/ (terms.autoJoin /\ RoomForOneMore)
    /\ status = "active"
    /\ MayStillEarn(seen[t])
    /\ CountedSince(c, request[t].day) < terms.perDay
    /\ Cardinality(Consumed) < terms.maxRewards
    /\ stage' = [stage EXCEPT ![t] = "checked"]
    /\ UNCHANGED <<vouchers, participant, terms, status, progress, cycle, actions, joining,
                   lock, request, seen, started, today>>

Release(t) ==
    /\ lock' = IF lock = t THEN None ELSE lock
    /\ stage' = [stage EXCEPT ![t] = "idle"]
    /\ request' = [request EXCEPT ![t] = None]
    /\ seen' = [seen EXCEPT ![t] = None]
    /\ UNCHANGED started

\* The visit counts; it may complete a cycle, whose voucher is issued in the
\* same transaction.
VisitCommit(t) ==
    LET c == request[t].customer
        count == seen[t].progress + 1
        full == count >= terms.required
        next == IF seen[t].status \in {"none", "joined"} THEN "in_progress" ELSE seen[t].status
    IN
    /\ stage[t] = "checked"
    /\ actions' = [actions EXCEPT ![c][request[t].day] = @ + 1]
    /\ \/ /\ ~ full
          /\ progress' = [progress EXCEPT ![c] = count]
          /\ participant' = [participant EXCEPT ![c] = next]
          /\ UNCHANGED <<vouchers, cycle>>
       \/ /\ full /\ terms.limit = "once"
          /\ \E v \in Voucher : Issue(v, c, "completed")
          /\ progress' = [progress EXCEPT ![c] = count]
          /\ UNCHANGED cycle
       \/ /\ full /\ terms.limit = "repeatable"
          /\ \E v \in Voucher : Issue(v, c, "in_progress")
          /\ progress' = [progress EXCEPT ![c] = 0]
          /\ cycle' = [cycle EXCEPT ![c] = @ + 1]
    /\ Release(t)
    /\ UNCHANGED <<terms, status, joining, today>>

\* Any refusal (not eligible, cap reached, outside the time window, too soon
\* after the last visit) or failure rolls the whole visit back.
VisitRollback(t) ==
    /\ stage[t] # "idle"
    /\ Release(t)
    /\ UNCHANGED <<vouchers, participant, terms, status, progress, cycle, actions, joining, today>>

-----------------------------------------------------------------------------
(* The rest of the system. *)

\* redeem_reward_voucher waits for the participant row while a visit holds it.
RedeemVoucher(v) ==
    /\ \A t \in Txn : stage[t] \in {"locked", "checked"} => request[t].customer # voucher[v].owner
    /\ Redeem(v)
    /\ UNCHANGED <<terms, status, progress, cycle, actions, joining, visits, today>>

VoucherStep ==
    /\ Circulate
    /\ UNCHANGED <<terms, status, progress, cycle, actions, joining, visits, today>>

\* The owner and the lifecycle task write the status column, and wait for the
\* row lock; a stale handler may write any of them (see CampaignLifecycle).
SetStatus(s) ==
    /\ lock = None
    /\ status # s
    /\ status' = s
    /\ UNCHANGED <<vouchers, participant, terms, progress, cycle, actions, joining, visits, today>>

NextDay ==
    /\ today < MaxDay
    /\ today' = today + 1
    /\ UNCHANGED <<vouchers, participant, terms, status, progress, cycle, actions, joining, visits>>

CampaignNext ==
    \/ \E c \in Customer : JoinRead(c) \/ JoinCreate(c)
    \/ \E t \in Txn : \/ \E c \in Customer : VisitBegin(t, c)
                      \/ VisitLock(t) \/ VisitCheck(t) \/ VisitCommit(t) \/ VisitRollback(t)
    \/ \E v \in Voucher : RedeemVoucher(v)
    \/ VoucherStep
    \/ \E s \in {"active", "paused", "ended"} : SetStatus(s)
    \/ NextDay

CampaignSpec == CampaignInit /\ [][CampaignNext]_campaignVars

-----------------------------------------------------------------------------
(* Properties. *)

Owned(c) == {v \in Issued : voucher[v].owner = c}
VisitsOf(c) == CountedSince(c, 0)

\* Every counted visit is on the participant row: in the running cycle or in a
\* completed one.  No visit is lost or counted twice, whatever visits, joins and
\* redemptions run at once (record_campaign_action); every row is well-typed.
VisitsAddUp ==
    /\ CampaignTypeOK
    /\ \A c \in Customer :
           VisitsOf(c) = progress[c] + cycle[c] * terms.required

\* A campaign never issues more vouchers than max_rewards, those a manager
\* revoked apart: final-slot completions are serialised (complete_campaign).
RewardCap == Cardinality(Issued \ revoked) <= terms.maxRewards

\* However many visits and joins race, a ONCE campaign rewards a customer once,
\* and a repeatable one once for every completed cycle.
VoucherPerCycle ==
    \A c \in Customer :
        IF terms.limit = "once" THEN Cardinality(Owned(c)) <= 1
                                ELSE Cardinality(Owned(c)) = cycle[c]

\* No customer has more visits counted on one day than the rule allows, though
\* a visit's clock is read before it waits for the lock (check_daily_limit).
DailyCap == \A c \in Customer, d \in Day : actions[c][d] <= terms.perDay

\* The campaign never has more participants than max_participants.  Refuted: two
\* joins are counted before either row exists.
ParticipantCap == Cardinality(Participants) <= terms.maxParticipants
=============================================================================
