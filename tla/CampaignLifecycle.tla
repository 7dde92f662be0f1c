-------------------------- MODULE CampaignLifecycle --------------------------
(***************************************************************************)
(* The status machine of ONE campaign: apps/campaigns/services/campaign.py *)
(* (edit, publish, pause, resume, end, cancel), the lifecycle task that    *)
(* moves it by the clock, and the "ending soon" claim.                     *)
(*                                                                         *)
(* The owner's requests load the campaign without a lock, decide on what   *)
(* they loaded, and save: the transitions save the status column, an edit  *)
(* saves every column.  The tasks are single UPDATE statements.            *)
(***************************************************************************)
EXTENDS Naturals

CONSTANTS
    Handler,        \* request handlers of the owner
    Terms,          \* what an edit may leave in the row: [start, end, complete]
    MaxRequests,    \* BOUND: requests that may ever start
    MaxClock,       \* BOUND: the clock
    Warning,        \* CAMPAIGN_ENDING_WARNING_HOURS
    Null

\* complete: a reward, the rule the campaign's type needs, max_rewards >= 1.
TermsRow == [start : Nat \cup {Null}, end : Nat \cup {Null}, complete : BOOLEAN]
ASSUME TermsAreRows == Terms \subseteq TermsRow
ASSUME NullIsNoNumber == Null \notin Nat

VARIABLES
    campaign,    \* the row: [status, terms, warned]
    request,     \* of each handler: the operation and the row it loaded
    started,
    clock,
    published,   \* history: publish_campaign succeeded
    slips        \* history: "stale", a request was saved over a row that had
                 \* changed since its load; "late", an edit of a SCHEDULED row

vars == <<campaign, request, started, clock, published, slips>>

Status == {"draft", "scheduled", "active", "paused", "ended", "cancelled"}
Row == [status : Status, terms : Terms, warned : BOOLEAN]
Transitions == {"pause", "resume", "end", "cancel"}
Operation == Transitions \cup {"publish", "edit"}

TypeOK ==
    /\ campaign \in Row
    /\ request \in [Handler -> [op : Operation, row : Row] \cup {Null}]
    /\ started \in Nat
    /\ clock \in Nat
    /\ published \in BOOLEAN
    /\ slips \subseteq {"stale", "late"}

Init ==
    /\ campaign \in [status : {"draft"}, terms : Terms, warned : {FALSE}]
    /\ request = [h \in Handler |-> Null]
    /\ started = 0
    /\ clock = 0
    /\ published = FALSE
    /\ slips = {}

-----------------------------------------------------------------------------
(* The owner's requests. *)

Load(h, op) ==
    /\ request[h] = Null
    /\ started < MaxRequests
    /\ started' = started + 1
    /\ request' = [request EXCEPT ![h] = [op |-> op, row |-> campaign]]
    /\ UNCHANGED <<campaign, clock, published, slips>>

Answer(h) ==
    /\ request' = [request EXCEPT ![h] = Null]
    /\ UNCHANGED <<started, clock>>

\* The request is saved: was the row it loaded still the row?
Saves(h) ==
    /\ Answer(h)
    /\ slips' = slips \cup (IF request[h].row # campaign THEN {"stale"} ELSE {})
                     \cup (IF request[h].op = "edit" /\ request[h].row.status = "scheduled"
                           THEN {"late"} ELSE {})

\* _assert_publishable
Publishable(terms) ==
    /\ terms.complete
    /\ Null \notin {terms.start, terms.end} => terms.end > terms.start

\* Mutant: a draft is published as it is.
Publish_NoGate(h) ==
    LET loaded == request[h].row
        future == loaded.terms.start # Null /\ loaded.terms.start > clock IN
    /\ request[h] # Null /\ request[h].op = "publish"
    /\ loaded.status = "draft"
    /\ campaign' = [campaign EXCEPT !.status = IF future THEN "scheduled" ELSE "active"]
    /\ published' = TRUE
    /\ Saves(h)

\* publish_campaign decides on the terms it loaded, and saves the status alone.
Publish(h) ==
    LET loaded == request[h].row
        future == loaded.terms.start # Null /\ loaded.terms.start > clock IN
    /\ request[h] # Null /\ request[h].op = "publish"
    /\ loaded.status = "draft"
    /\ Publishable(loaded.terms)
    /\ campaign' = [campaign EXCEPT !.status = IF future THEN "scheduled" ELSE "active"]
    /\ published' = TRUE
    /\ Saves(h)

\* Mutant: a draft can be ended.
AllowedFrom_Drafts(op) ==
    CASE op = "pause"  -> {"active"}
      [] op = "resume" -> {"paused"}
      [] op = "end"    -> {"draft", "active", "paused", "scheduled"}
      [] op = "cancel" -> {"draft", "scheduled", "active", "paused"}

\* _transition: allowed_from and new_status of pause, resume, end and cancel.
AllowedFrom(op) ==
    CASE op = "pause"  -> {"active"}
      [] op = "resume" -> {"paused"}
      [] op = "end"    -> {"active", "paused", "scheduled"}
      [] op = "cancel" -> {"draft", "scheduled", "active", "paused"}
NewStatus(op) ==
    CASE op = "pause" -> "paused"
      [] op = "resume" -> "active"
      [] op = "end" -> "ended"
      [] op = "cancel" -> "cancelled"

Transition(h) ==
    /\ request[h] # Null /\ request[h].op \in Transitions
    /\ request[h].row.status \in AllowedFrom(request[h].op)
    /\ campaign' = [campaign EXCEPT !.status = NewStatus(request[h].op)]
    /\ Saves(h)
    /\ UNCHANGED published

\* update_campaign: every column of the loaded object is saved.
Edit(h, terms) ==
    /\ request[h] # Null /\ request[h].op = "edit"
    /\ request[h].row.status \in {"draft", "scheduled"}
    /\ campaign' = [request[h].row EXCEPT !.terms = terms]
    /\ Saves(h)
    /\ UNCHANGED published

\* The loaded status or terms forbid the operation, or the request fails.
Drop(h) ==
    /\ request[h] # Null
    /\ Answer(h)
    /\ UNCHANGED <<campaign, published, slips>>

-----------------------------------------------------------------------------
(* The tasks.  A NULL date passes no comparison. *)

HasStarted == campaign.terms.start # Null /\ campaign.terms.start <= clock
HasEnded == campaign.terms.end # Null /\ campaign.terms.end <= clock

\* Mutants: paused campaigns are not ended; an open end does not pass the filter.
RunLifecycle_NotPaused ==
    /\ \/ /\ campaign.status = "scheduled" /\ HasStarted /\ ~ HasEnded
          /\ campaign' = [campaign EXCEPT !.status = "active"]
       \/ /\ campaign.status \in {"active", "scheduled"} /\ HasEnded
          /\ campaign' = [campaign EXCEPT !.status = "ended"]
    /\ UNCHANGED <<request, started, clock, published, slips>>
RunLifecycle_OpenEnd ==
    /\ \/ /\ campaign.status = "scheduled" /\ HasStarted
          /\ campaign.terms.end # Null /\ ~ HasEnded
          /\ campaign' = [campaign EXCEPT !.status = "active"]
       \/ /\ campaign.status \in {"active", "paused", "scheduled"} /\ HasEnded
          /\ campaign' = [campaign EXCEPT !.status = "ended"]
    /\ UNCHANGED <<request, started, clock, published, slips>>

\* run_lifecycle_transitions: two UPDATEs of which one finds the campaign.
RunLifecycle ==
    /\ \/ /\ campaign.status = "scheduled" /\ HasStarted /\ ~ HasEnded
          /\ campaign' = [campaign EXCEPT !.status = "active"]
       \/ /\ campaign.status \in {"active", "paused", "scheduled"} /\ HasEnded
          /\ campaign' = [campaign EXCEPT !.status = "ended"]
    /\ UNCHANGED <<request, started, clock, published, slips>>

\* claim_campaigns_to_warn_ending, and the fan-out to the participants.
ClaimToWarn ==
    /\ campaign.status = "active" /\ ~ campaign.warned
    /\ campaign.terms.end # Null
    /\ clock < campaign.terms.end /\ campaign.terms.end <= clock + Warning
    /\ campaign' = [campaign EXCEPT !.warned = TRUE]
    /\ UNCHANGED <<request, started, clock, published, slips>>

Tick ==
    /\ clock < MaxClock
    /\ clock' = clock + 1
    /\ UNCHANGED <<campaign, request, started, published, slips>>

Next ==
    \/ \E h \in Handler :
        \/ \E op \in Operation : Load(h, op)
        \/ Publish(h) \/ Transition(h) \/ Drop(h)
        \/ \E terms \in Terms : Edit(h, terms)
    \/ RunLifecycle
    \/ ClaimToWarn
    \/ Tick

Spec == Init /\ [][Next]_vars

\* Celery beat runs the lifecycle task every quarter of an hour; time passes.
FairSpec == Spec /\ WF_vars(RunLifecycle) /\ WF_vars(Tick)

-----------------------------------------------------------------------------
(* Properties. *)

\* No interleaving of edits, transitions and tasks puts a campaign in front of
\* customers that was never published (publish_campaign is the only gate).
OnlyPublishedRuns ==
    campaign.status \in {"scheduled", "active", "paused", "ended"} => published

\* What runs passed the publish gate, unless it was edited after that: an edit of
\* a SCHEDULED campaign is not checked again.
RunsComplete == campaign.status = "active" /\ slips = {} => Publishable(campaign.terms)

\* A campaign whose end_at has passed is ended by the task, whoever else writes
\* its status meanwhile (run_lifecycle_transitions).
Lingering == campaign.status \in {"active", "paused", "scheduled"} /\ HasEnded
OverdueEnds == Lingering ~> ~ Lingering

\* A scheduled campaign whose start_at has passed does not stay scheduled.
Due == campaign.status = "scheduled" /\ HasStarted
DueStarts == Due ~> ~ Due

\* A campaign that has ended, or was cancelled, is over.  Refuted: a pause that
\* loaded an ACTIVE campaign saves its status after the task ended it.
EndedStaysEnded ==
    [][campaign.status \in {"ended", "cancelled"}
          => campaign'.status = campaign.status]_vars
=============================================================================
