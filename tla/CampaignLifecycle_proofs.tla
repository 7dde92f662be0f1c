---------------------- MODULE CampaignLifecycle_proofs ----------------------
(* Theorems about the campaign's status machine, for any number of owner    *)
(* requests, any terms and any clock.                                       *)
EXTENDS CampaignLifecycle, TLAPS

Public == {"scheduled", "active", "paused", "ended"}

\* OnlyPublishedRuns is not inductive: a request decides on, or saves, the row it
\* loaded, so what every request loaded must have been published too.
PublishedInv ==
    /\ campaign.status \in Public => published
    /\ \A h \in Handler : request[h] # Null /\ request[h].row.status \in Public => published

\* A handler that answers leaves the others' requests as they were.
LEMMA AnswerForgets ==
    ASSUME TypeOK, NEW h \in Handler, Answer(h)
    PROVE  \A k \in Handler : request'[k] # Null => request'[k] = request[k]
BY DEF TypeOK, Answer

\* Types are kept: in particular whatever a stale handler saves is a legal row.
LEMMA TypeStep == TypeOK /\ [Next]_vars => TypeOK'
<1> SUFFICES ASSUME TypeOK, [Next]_vars PROVE TypeOK'
  OBVIOUS
<1>1. ASSUME NEW h \in Handler, NEW op \in Operation, Load(h, op) PROVE TypeOK'
  BY <1>1 DEF Load, TypeOK
<1>2. ASSUME NEW h \in Handler, Publish(h) PROVE TypeOK'
  <2>1. campaign' \in Row
    BY <1>2 DEF Publish, TypeOK, Row, Status
  <2> QED BY <1>2, <2>1 DEF Publish, Saves, Answer, TypeOK
<1>3. ASSUME NEW h \in Handler, Transition(h) PROVE TypeOK'
  <2>1. NewStatus(request[h].op) \in Status
    BY <1>3 DEF Transition, Transitions, NewStatus, Status
  <2>2. campaign' \in Row
    BY <1>3, <2>1 DEF Transition, TypeOK, Row
  <2> QED BY <1>3, <2>2 DEF Transition, Saves, Answer, TypeOK
<1>4. ASSUME NEW h \in Handler, NEW terms \in Terms, Edit(h, terms) PROVE TypeOK'
  <2>1. campaign' \in Row
    BY <1>4 DEF Edit, TypeOK, Row
  <2> QED BY <1>4, <2>1 DEF Edit, Saves, Answer, TypeOK
<1>5. ASSUME NEW h \in Handler, Drop(h) PROVE TypeOK'
  BY <1>5 DEF Drop, Answer, TypeOK
<1>6. CASE RunLifecycle
  <2>1. campaign' \in Row
    BY <1>6 DEF RunLifecycle, TypeOK, Row, Status
  <2> QED BY <1>6, <2>1 DEF RunLifecycle, TypeOK
<1>7. CASE ClaimToWarn
  <2>1. campaign' \in Row
    BY <1>7 DEF ClaimToWarn, TypeOK, Row
  <2> QED BY <1>7, <2>1 DEF ClaimToWarn, TypeOK
<1>8. CASE Tick
  BY <1>8 DEF Tick, TypeOK
<1>9. CASE UNCHANGED vars
  BY <1>9 DEF vars, TypeOK
<1> QED BY <1>1, <1>2, <1>3, <1>4, <1>5, <1>6, <1>7, <1>8, <1>9 DEF Next

\* The tables and requests of the lifecycle stay well-typed: a transition names a
\* status that exists, and a stale edit saves terms an edit may leave.
THEOREM TypeCorrect == Spec => []TypeOK
<1>1. ASSUME Init PROVE TypeOK
  <2>1. campaign \in Row
    BY <1>1 DEF Init, Row, Status
  <2>2. request \in [Handler -> [op : Operation, row : Row] \cup {Null}]
    BY <1>1 DEF Init
  <2> QED BY <1>1, <2>1, <2>2 DEF Init, TypeOK
<1> QED BY <1>1, TypeStep, PTL DEF Spec

\* Publishing is remembered for ever, so a request that saves an older row, or
\* decides on one, cannot bring an unpublished campaign before customers.
LEMMA PublishedStep == TypeOK /\ PublishedInv /\ [Next]_vars => PublishedInv'
<1> SUFFICES ASSUME TypeOK, PublishedInv, [Next]_vars PROVE PublishedInv'
  OBVIOUS
<1>1. ASSUME NEW h \in Handler, NEW op \in Operation, Load(h, op) PROVE PublishedInv'
  BY <1>1 DEF Load, TypeOK, PublishedInv
<1>2. ASSUME NEW h \in Handler, Publish(h) PROVE PublishedInv'
  BY <1>2 DEF Publish, PublishedInv
<1>3. ASSUME NEW h \in Handler, Transition(h) PROVE PublishedInv'
  <2>1. \A k \in Handler : request'[k] # Null => request'[k] = request[k]
    BY <1>3, AnswerForgets DEF Transition, Saves
  <2>2. NewStatus(request[h].op) \in Public => request[h].row.status \in Public
    BY <1>3 DEF Transition, Transitions, NewStatus, AllowedFrom, Public
  <2>3. campaign'.status = NewStatus(request[h].op) /\ published' = published
    BY <1>3 DEF Transition, TypeOK, Row
  <2> QED BY <1>3, <2>1, <2>2, <2>3 DEF Transition, PublishedInv
<1>4. ASSUME NEW h \in Handler, NEW terms \in Terms, Edit(h, terms) PROVE PublishedInv'
  <2>1. \A k \in Handler : request'[k] # Null => request'[k] = request[k]
    BY <1>4, AnswerForgets DEF Edit, Saves
  <2>2. campaign'.status = request[h].row.status /\ published' = published
    BY <1>4 DEF Edit, TypeOK, Row
  <2> QED BY <1>4, <2>1, <2>2 DEF Edit, PublishedInv
<1>5. ASSUME NEW h \in Handler, Drop(h) PROVE PublishedInv'
  BY <1>5, AnswerForgets DEF Drop, PublishedInv
<1>6. CASE RunLifecycle
  <2>1. campaign.status \in Public /\ request' = request /\ published' = published
    BY <1>6 DEF RunLifecycle, Public
  <2> QED BY <2>1 DEF PublishedInv
<1>7. CASE ClaimToWarn
  <2>1. campaign'.status = campaign.status /\ request' = request /\ published' = published
    BY <1>7 DEF ClaimToWarn, TypeOK, Row
  <2> QED BY <2>1 DEF PublishedInv
<1>8. CASE Tick \/ UNCHANGED vars
  BY <1>8 DEF Tick, vars, PublishedInv
<1> QED BY <1>1, <1>2, <1>3, <1>4, <1>5, <1>6, <1>7, <1>8 DEF Next

\* However edits, transitions and tasks overlap, a campaign that is scheduled,
\* active, paused or ended was published: publish_campaign is the only gate.
THEOREM PublishedRuns == Spec => []OnlyPublishedRuns
<1>1. Init => PublishedInv
  BY DEF Init, PublishedInv, Public
<1>2. PublishedInv => OnlyPublishedRuns
  BY DEF PublishedInv, OnlyPublishedRuns, Public
<1> QED BY <1>1, <1>2, TypeCorrect, PublishedStep, PTL DEF Spec
-----------------------------------------------------------------------------
(* The publish gate. *)

\* RunsComplete is not inductive: what is SCHEDULED or PAUSED becomes ACTIVE
\* without passing the gate again, so it must have passed it too.
Gated == {"scheduled", "active", "paused"}
GateInv == campaign.status \in Gated /\ slips = {} => Publishable(campaign.terms)

\* A request that is saved without a slip was decided on the row it is saved over,
\* and no edit of a SCHEDULED row.
LEMMA SavedOnTime ==
    ASSUME NEW h \in Handler, Saves(h), slips' = {}
    PROVE  /\ slips = {}
           /\ request[h].row = campaign
           /\ request[h].op = "edit" => campaign.status # "scheduled"
<1>1. slips = {} /\ request[h].row = campaign
  BY DEF Saves
<1> QED BY <1>1 DEF Saves

\* GateInv is inductive: the gate stands before DRAFT rows only, and nothing but a
\* slip changes the terms of a row behind it.
LEMMA GateStep == TypeOK /\ GateInv /\ [Next]_vars => GateInv'
<1> SUFFICES ASSUME TypeOK, GateInv, [Next]_vars, campaign'.status \in Gated, slips' = {}
             PROVE  Publishable(campaign.terms)'
  BY DEF GateInv
<1> USE DEF Gated
<1>1. ASSUME NEW h \in Handler, Publish(h) PROVE Publishable(campaign.terms)'
  <2>1. Publishable(campaign.terms)
    BY <1>1, SavedOnTime DEF Publish
  <2>2. campaign'.terms = campaign.terms
    BY <1>1 DEF Publish, TypeOK, Row
  <2> QED BY <2>1, <2>2 DEF Publishable
<1>2. ASSUME NEW h \in Handler, Transition(h) PROVE Publishable(campaign.terms)'
  <2>1. slips = {} /\ request[h].row = campaign
    BY <1>2, SavedOnTime DEF Transition
  <2>2. campaign'.status = NewStatus(request[h].op) /\ campaign'.terms = campaign.terms
    BY <1>2 DEF Transition, TypeOK, Row
  <2>3. campaign.status \in Gated
    BY <1>2, <2>1, <2>2 DEF Transition, Transitions, NewStatus, AllowedFrom
  <2> QED BY <2>1, <2>2, <2>3 DEF GateInv, Publishable
<1>3. ASSUME NEW h \in Handler, NEW terms \in Terms, Edit(h, terms)
      PROVE  FALSE
  <2>1. request[h].row = campaign /\ campaign.status # "scheduled"
    BY <1>3, SavedOnTime DEF Edit
  <2>2. campaign'.status = campaign.status
    BY <1>3, <2>1 DEF Edit, TypeOK, Row
  <2> QED BY <1>3, <2>1, <2>2 DEF Edit
<1>4. ASSUME NEW h \in Handler, Drop(h) PROVE Publishable(campaign.terms)'
  BY <1>4 DEF Drop, GateInv, Publishable
<1>5. ASSUME NEW h \in Handler, NEW op \in Operation, Load(h, op)
      PROVE  Publishable(campaign.terms)'
  BY <1>5 DEF Load, GateInv, Publishable
<1>6. CASE RunLifecycle \/ ClaimToWarn
  <2>1. campaign.status \in Gated /\ campaign'.terms = campaign.terms /\ slips = {}
    BY <1>6 DEF RunLifecycle, ClaimToWarn, TypeOK, Row
  <2> QED BY <2>1 DEF GateInv, Publishable
<1>7. CASE Tick \/ UNCHANGED vars
  BY <1>7 DEF Tick, vars, GateInv, Publishable
<1> QED BY <1>1, <1>2, <1>3, <1>4, <1>5, <1>6, <1>7 DEF Next

\* As long as no request was saved over a row that changed under it, and no
\* SCHEDULED campaign was edited, every campaign that runs has passed the publish
\* gate with the terms it runs on: the gate is needed only once.
THEOREM CompleteRuns == Spec => []RunsComplete
<1>1. Init => GateInv
  BY DEF Init, GateInv, Gated
<1>2. GateInv => RunsComplete
  BY DEF GateInv, RunsComplete, Gated
<1> QED BY <1>1, <1>2, TypeCorrect, GateStep, PTL DEF Spec
=============================================================================
