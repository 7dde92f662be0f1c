--------------------------- MODULE CampaignVoucher ---------------------------
(***************************************************************************)
(* The reward vouchers of ONE campaign: apps/campaigns/services/rewards.py *)
(* and the Celery tasks that expire vouchers and warn their owners.        *)
(*                                                                         *)
(* Redemption, cancellation and item choice re-read the voucher under its  *)
(* row lock, so each is one step.  The "present" screen is the exception:  *)
(* it reads the voucher without a lock and may save it later.              *)
(***************************************************************************)
EXTENDS Naturals, FiniteSets

CONSTANTS
    Voucher,    \* rows that may ever be issued (BOUND)
    Customer,
    Item,       \* catalog items of the campaign's business
    Selection,  \* reward.item_selection: "customer", or "fixed" for the others
    None

ASSUME SelectionAssumption == Selection \in {"customer", "fixed"}
ASSUME NullAssumption == None \notin Customer \cup Item

VARIABLES
    voucher,      \* CampaignRewardVoucher rows: [status, owner, item]
    participant,  \* status of each customer's CampaignParticipant row
    clock,        \* where the time stands against each expires_at
    warned,       \* vouchers with expiry_warned_at set
    queue,        \* notify_voucher_expiring tasks on the broker
    presenting,   \* vouchers a "present" request has read as ACTIVE
    handed,       \* history: times the reward of a voucher was handed over
    nudged,       \* history: times the owner was warned of the expiry
    revoked       \* history: vouchers a manager cancelled

vars == <<voucher, participant, clock, warned, queue, presenting, handed, nudged, revoked>>

Unissued == [status |-> "none", owner |-> None, item |-> None]
Row == [status : {"active", "redeemed", "expired", "cancelled"}, owner : Customer,
        item : Item \cup {None}]
ParticipantStatus == {"none", "joined", "in_progress", "completed", "redeemed"}

TypeOK ==
    /\ voucher \in [Voucher -> Row \cup {Unissued}]
    /\ participant \in [Customer -> ParticipantStatus]
    /\ clock \in [Voucher -> {"early", "soon", "over"}]
    /\ warned \subseteq Voucher
    /\ queue \subseteq Voucher
    /\ presenting \subseteq Voucher
    /\ handed \in [Voucher -> Nat]
    /\ nudged \in [Voucher -> Nat]
    /\ revoked \subseteq Voucher

NoVouchers ==
    /\ voucher = [v \in Voucher |-> Unissued]
    /\ clock = [v \in Voucher |-> "early"]
    /\ warned = {}
    /\ queue = {}
    /\ presenting = {}
    /\ handed = [v \in Voucher |-> 0]
    /\ nudged = [v \in Voucher |-> 0]
    /\ revoked = {}

Init == NoVouchers /\ participant = [c \in Customer |-> "joined"]

Having(status) == {v \in Voucher : voucher[v].status = status}
Issued == Voucher \ Having("none")
Overdue == {v \in Voucher : clock[v] = "over"}

\* check_reward_limit: what counts against max_rewards.
Consumed == Issued \ Having("cancelled")

-----------------------------------------------------------------------------
(* issue_reward_voucher, called by the completion paths, which leave the     *)
(* participant row in status s.                                              *)

Issue(v, c, s) ==
    /\ v \in Having("none")
    /\ \E i \in IF Selection = "fixed" THEN Item \cup {None} ELSE {None} :
         voucher' = [voucher EXCEPT ![v] =
             [status |-> "active", owner |-> c, item |-> i]]
    /\ participant' = [participant EXCEPT ![c] = s]
    /\ UNCHANGED <<clock, warned, queue, presenting, handed, nudged, revoked>>

\* select_voucher_item: an ACTIVE voucher of a customer-choice reward.  The
\* choice may be changed, and expires_at is not looked at.
SelectItem(v, i) ==
    /\ v \in Having("active")
    /\ Selection = "customer"
    /\ voucher' = [voucher EXCEPT ![v].item = i]
    /\ UNCHANGED <<participant, clock, warned, queue, presenting, handed, nudged, revoked>>

\* Mutant: the status is not checked again under the lock.
Redeem_NoStatus(v) ==
    /\ v \in Issued \ Overdue
    /\ voucher' = [voucher EXCEPT ![v].status = "redeemed"]
    /\ participant' = [participant EXCEPT ![voucher[v].owner] = "redeemed"]
    /\ handed' = [handed EXCEPT ![v] = IF @ < 2 THEN @ + 1 ELSE @]
    /\ UNCHANGED <<clock, warned, queue, presenting, nudged, revoked>>

\* redeem_reward_voucher, the success branch.  The participant row of the owner
\* follows, whatever it says by now.
Redeem(v) ==
    /\ v \in Having("active") \ Overdue
    /\ voucher' = [voucher EXCEPT ![v].status = "redeemed"]
    /\ participant' = [participant EXCEPT ![voucher[v].owner] = "redeemed"]
    /\ handed' = [handed EXCEPT ![v] = @ + 1]
    /\ UNCHANGED <<clock, warned, queue, presenting, nudged, revoked>>

\* redeem_reward_voucher on an overdue voucher: the EXPIRED it writes commits,
\* because the refusal is raised after the atomic block.
RedeemLate(v) ==
    /\ v \in Having("active") \cap Overdue
    /\ voucher' = [voucher EXCEPT ![v].status = "expired"]
    /\ UNCHANGED <<participant, clock, warned, queue, presenting, handed, nudged, revoked>>

\* cancel_voucher by a manager, under the row lock; expires_at is not looked at.
Cancel(v) ==
    /\ v \in Having("active")
    /\ voucher' = [voucher EXCEPT ![v].status = "cancelled"]
    /\ revoked' = revoked \cup {v}
    /\ UNCHANGED <<participant, clock, warned, queue, presenting, handed, nudged>>

\* Mutant: the comparison with expires_at is the wrong way round.
ExpireVouchers_Early ==
    LET late == Having("active") \ Overdue IN
    /\ late # {}
    /\ voucher' = [v \in Voucher |-> IF v \in late THEN [voucher[v] EXCEPT !.status = "expired"]
                                                   ELSE voucher[v]]
    /\ UNCHANGED <<participant, clock, warned, queue, presenting, handed, nudged, revoked>>

\* expire_vouchers: one UPDATE, run hourly.
ExpireVouchers ==
    LET late == Having("active") \cap Overdue IN
    /\ late # {}
    /\ voucher' = [v \in Voucher |-> IF v \in late THEN [voucher[v] EXCEPT !.status = "expired"]
                                                   ELSE voucher[v]]
    /\ UNCHANGED <<participant, clock, warned, queue, presenting, handed, nudged, revoked>>

-----------------------------------------------------------------------------
(* present_voucher: reads the row, then the clock, and saves EXPIRED over    *)
(* whatever the row holds by then.                                           *)

PresentRead(v) ==
    /\ v \in Having("active") \ presenting
    /\ presenting' = presenting \cup {v}
    /\ UNCHANGED <<voucher, participant, clock, warned, queue, handed, nudged, revoked>>

PresentShow(v) ==
    /\ v \in presenting \ Overdue
    /\ presenting' = presenting \ {v}
    /\ UNCHANGED <<voucher, participant, clock, warned, queue, handed, nudged, revoked>>

PresentExpire(v) ==
    /\ v \in presenting \cap Overdue
    /\ presenting' = presenting \ {v}
    /\ voucher' = [voucher EXCEPT ![v].status = "expired"]
    /\ UNCHANGED <<participant, clock, warned, queue, handed, nudged, revoked>>

-----------------------------------------------------------------------------
(* notify_vouchers_expiring_soon claims under row locks (skip_locked: any    *)
(* locked row may be missed) and fans out one task per voucher after the     *)
(* commit; a worker that dies in between loses the task.                     *)

\* Mutant: expiry_warned_at is not stamped with the claim.
ClaimToWarn_NoStamp(S) ==
    /\ S # {}
    /\ S \subseteq {v \in Having("active") \ warned : clock[v] = "soon"}
    /\ \A v \in S : nudged[v] < 2
    /\ queue' = queue \cup S
    /\ UNCHANGED <<voucher, participant, clock, warned, presenting, handed, nudged, revoked>>

ClaimToWarn(S) ==
    /\ S # {}
    /\ S \subseteq {v \in Having("active") \ warned : clock[v] = "soon"}
    /\ warned' = warned \cup S
    /\ queue' = queue \cup S
    /\ UNCHANGED <<voucher, participant, clock, presenting, handed, nudged, revoked>>

Nudge(v) ==
    /\ v \in queue
    /\ queue' = queue \ {v}
    /\ nudged' = [nudged EXCEPT ![v] = @ + 1]
    /\ UNCHANGED <<voucher, participant, clock, warned, presenting, handed, revoked>>

LoseTask(v) ==
    /\ v \in queue
    /\ queue' = queue \ {v}
    /\ UNCHANGED <<voucher, participant, clock, warned, presenting, handed, nudged, revoked>>

\* Time passes: into the warning window, then past expires_at.
Tick(v) ==
    /\ v \in Issued \ Overdue
    /\ clock' = [clock EXCEPT ![v] = IF @ = "early" THEN "soon" ELSE "over"]
    /\ UNCHANGED <<voucher, participant, warned, queue, presenting, handed, nudged, revoked>>

\* What may happen to an issued voucher without touching its participant row.
Circulate ==
    \/ \E v \in Voucher :
        \/ \E i \in Item : SelectItem(v, i)
        \/ RedeemLate(v) \/ Cancel(v)
        \/ PresentRead(v) \/ PresentShow(v) \/ PresentExpire(v)
        \/ Tick(v)
    \/ ExpireVouchers

Warn ==
    \/ \E S \in SUBSET Voucher : ClaimToWarn(S)
    \/ \E v \in Voucher : Nudge(v) \/ LoseTask(v)

Next ==
    \/ Circulate
    \/ Warn
    \/ \E v \in Voucher : Redeem(v)
    \/ \E v \in Voucher, c \in Customer, s \in {"completed", "in_progress"} : Issue(v, c, s)

Spec == Init /\ [][Next]_vars

\* Celery beat runs the expiry task for ever.
FairSpec == Spec /\ WF_vars(ExpireVouchers)

-----------------------------------------------------------------------------
(* Properties. *)

\* Whatever requests, managers, tasks and clocks do, a campaign voucher keeps
\* the promise of VoucherPromise: its reward is handed over at most once, and
\* once redeemed, expired or cancelled it is never ACTIVE again.
P == INSTANCE VoucherPromise WITH
        live <- Having("active"),
        spent <- Issued \ Having("active"),
        honoured <- handed
Promise == P!Spec

\* The owner is warned at most once that a voucher is about to expire
\* (expiry_warned_at, claim_vouchers_to_warn).
WarnedAtMostOnce == \A v \in Voucher : nudged[v] <= 1

\* The wallet reflects what happened to a voucher: one that was handed over
\* reads REDEEMED, one that a manager revoked reads CANCELLED.  The stale save of
\* present_voucher is the one exception, and only makes it EXPIRED once overdue.
\* Every row stays well-typed.
WalletReflectsReality ==
    /\ TypeOK
    /\ \A v \in Voucher :
           LET Shown == {voucher[v].status} \ (IF v \in Overdue THEN {"expired"} ELSE {}) IN
           /\ handed[v] > 0 => Shown \subseteq {"redeemed"}
           /\ v \in revoked => Shown \subseteq {"cancelled"}

\* An overdue voucher does not stay ACTIVE, even if nobody touches it.
OverdueLeaves ==
    \A v \in Voucher :
        voucher[v].status = "active" /\ clock[v] = "over" ~> voucher[v].status # "active"
=============================================================================
