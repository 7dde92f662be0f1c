------------------------ MODULE CampaignVisit_proofs ------------------------
(***************************************************************************)
(* Theorems about the vouchers of a campaign (Spec) and about the campaign *)
(* whose visits, joins and redemptions move them (CampaignSpec), for any   *)
(* number of customers, handlers, vouchers and days, and any terms.        *)
(*                                                                         *)
(* The layers: sums of counts over the days; Shape, which is what the lock *)
(* on the campaign row gives to the visit that holds it; on top of Shape,  *)
(* one inductive invariant per property; the promise, kept by the vouchers *)
(* alone and by the whole campaign; and what the wallet shows.             *)
(***************************************************************************)
EXTENDS CampaignVisit, FiniteSetTheorems, WellFoundedInduction, TLAPS

-----------------------------------------------------------------------------
(* Sums over the days. *)

\* A set of days that holds the first one, and the day after each of its days,
\* holds them all.
LEMMA DayInduction ==
    ASSUME NEW S, 0 \in S, \A e \in Day : e # 0 /\ e - 1 \in S => e \in S
    PROVE  Day \subseteq S
<1> DEFINE R == OpToRel(<, Nat)
           T == Day \ S
<1>1. SUFFICES ASSUME T # {} PROVE FALSE
  OBVIOUS
<1>2. T \subseteq Nat
  BY CalendarAssumption DEF Day
<1>3. PICK e \in T : \A y \in T : ~ (<<y, e>> \in R)
  <2> HIDE DEF T, R
  <2>1. IsWellFoundedOn(R, Nat)
    BY NatLessThanWellFounded DEF R
  <2> QED BY <1>1, <1>2, <2>1, WFMin
<1>4. \A y \in T : ~ (y < e)
  BY <1>2, <1>3 DEF OpToRel
<1>5. e # 0 /\ e - 1 \in Day
  BY CalendarAssumption DEF Day
<1>6. e - 1 \notin T
  BY <1>2, <1>4, <1>5
<1> QED BY <1>5, <1>6

\* The counts of the days from d on, added up day by day: the recursive function
\* inside CountedSince.
Total(counts, d) ==
    CHOOSE f : f = [e \in Day |-> IF e < d THEN 0
                          ELSE counts[e] + (IF e = 0 THEN 0 ELSE f[e - 1])]

Counts == [Day -> Nat]

\* The recursion has a solution: it is built one day after the other.
LEMMA TotalExists ==
    ASSUME NEW counts \in Counts, NEW d \in Day
    PROVE  Total(counts, d) = [e \in Day |-> IF e < d THEN 0 ELSE
               counts[e] + (IF e = 0 THEN 0 ELSE Total(counts, d)[e - 1])]
<1> DEFINE
      Solves(f, n) == f = [e \in 0 .. n |-> IF e < d THEN 0
                              ELSE counts[e] + (IF e = 0 THEN 0 ELSE f[e - 1])]
      S == {n \in Day : \E f : Solves(f, n)}
<1>1. 0 \in S
  <2> DEFINE f == [e \in 0 .. 0 |-> IF e < d THEN 0 ELSE counts[e] + 0]
  <2>1. \A e \in 0 .. 0 : e = 0
    OBVIOUS
  <2>2. f = [e \in 0 .. 0 |-> IF e < d THEN 0 ELSE counts[e] + (IF e = 0 THEN 0 ELSE f[e - 1])]
    BY <2>1
  <2>3. Solves(f, 0)
    BY <2>2
  <2> HIDE DEF f, Solves
  <2> QED BY <2>3, CalendarAssumption DEF Day
<1>2. ASSUME NEW n \in Day, n # 0, n - 1 \in S PROVE n \in S
  <2>1. PICK f : Solves(f, n - 1)
    BY <1>2
  <2> DEFINE g == [e \in 0 .. n |-> IF e = n THEN IF n < d THEN 0 ELSE counts[n] + f[n - 1]
                                    ELSE f[e]]
  <2>2. n \in Nat \ {0} /\ 0 .. (n - 1) = (0 .. n) \ {n}
    BY <1>2, CalendarAssumption DEF Day
  <2>3. ASSUME NEW e \in 0 .. n
        PROVE  g[e] = IF e < d THEN 0 ELSE counts[e] + (IF e = 0 THEN 0 ELSE g[e - 1])
    <3>1. CASE e = n
      BY <3>1, <2>2
    <3>2. CASE e # n
      <4>1. e \in 0 .. (n - 1) /\ (e # 0 => e - 1 \in (0 .. n) \ {n})
        BY <3>2, <2>2
      <4> QED BY <4>1, <2>1, <3>2
    <3> QED BY <3>1, <3>2
  <2>4. Solves(g, n)
    BY <2>3
  <2> QED BY <2>4
<1>3. MaxDay \in S
  <2> HIDE DEF S
  <2> QED BY <1>1, <1>2, DayInduction, CalendarAssumption DEF Day
<1>4. \E f : Solves(f, MaxDay)
  BY <1>3
<1> QED BY <1>4 DEF Total, Day

LEMMA CountedIsTotal ==
    ASSUME NEW c \in Customer, NEW d \in Day
    PROVE  CountedSince(c, d) = Total(actions[c], d)[MaxDay]
BY DEF CountedSince, Total

\* What is counted by the end of day e, in the steps the proofs below take.
LEMMA TotalStep ==
    ASSUME NEW counts \in Counts, NEW d \in Day, NEW e \in Day
    PROVE  Total(counts, d)[e] = IF e < d THEN 0 ELSE
               counts[e] + (IF e = 0 THEN 0 ELSE Total(counts, d)[e - 1])
BY TotalExists

\* Totals are numbers.
LEMMA TotalType ==
    ASSUME NEW counts \in Counts, NEW d \in Day
    PROVE  \A e \in Day : Total(counts, d)[e] \in Nat
<1> DEFINE S == {e \in Day : Total(counts, d)[e] \in Nat}
<1>1. ASSUME NEW e \in Day, e = 0 \/ e - 1 \in S PROVE e \in S
  BY <1>1, TotalStep DEF Counts
<1>2. 0 \in Day
  BY CalendarAssumption DEF Day
<1>3. Day \subseteq S
  <2> HIDE DEF S
  <2> QED BY <1>1, <1>2, DayInduction
<1> QED BY <1>3

\* The total from day d on is no less than the count of a single day from d on.
LEMMA TotalCovers ==
    ASSUME NEW counts \in Counts, NEW d \in Day
    PROVE  \A e \in Day : d <= e => counts[d] <= Total(counts, d)[e]
<1> DEFINE S == {e \in Day : d <= e => counts[d] <= Total(counts, d)[e]}
<1>1. ASSUME NEW e \in Day, e = 0 \/ e - 1 \in S PROVE e \in S
  <2>1. Day \subseteq Nat /\ (e # 0 => e - 1 \in Day)
    BY CalendarAssumption DEF Day
  <2>2. e # 0 => Total(counts, d)[e - 1] \in Nat
    BY <2>1, TotalType
  <2>3. counts[d] \in Nat /\ counts[e] \in Nat
    BY DEF Counts
  <2>4. CASE e = d
    BY <2>1, <2>2, <2>3, <2>4, TotalStep
  <2>5. CASE d < e
    BY <1>1, <2>1, <2>2, <2>3, <2>5, TotalStep
  <2>6. CASE e < d
    BY <2>1, <2>6
  <2> QED BY <2>1, <2>4, <2>5, <2>6
<1>2. 0 \in Day
  BY CalendarAssumption DEF Day
<1>3. Day \subseteq S
  <2> HIDE DEF S
  <2> QED BY <1>1, <1>2, DayInduction
<1> QED BY <1>3

\* One more visit on one day adds one to what is counted from the first day on.
LEMMA TotalGrows ==
    ASSUME NEW counts \in Counts, NEW x \in Day
    PROVE  \A e \in Day : Total([counts EXCEPT ![x] = @ + 1], 0)[e]
                          = Total(counts, 0)[e] + IF x <= e THEN 1 ELSE 0
<1> DEFINE more == [counts EXCEPT ![x] = @ + 1]
           S == {e \in Day : Total(more, 0)[e] = Total(counts, 0)[e] + IF x <= e THEN 1 ELSE 0}
<1>0. more \in Counts /\ 0 \in Day /\ Day \subseteq Nat
  BY CalendarAssumption DEF Counts, Day
<1>1. ASSUME NEW e \in Day, e = 0 \/ e - 1 \in S PROVE e \in S
  <2>1. e # 0 => e - 1 \in Day
    BY CalendarAssumption DEF Day
  <2>2. /\ Total(more, 0)[e] = more[e] + (IF e = 0 THEN 0 ELSE Total(more, 0)[e - 1])
        /\ Total(counts, 0)[e] = counts[e] + (IF e = 0 THEN 0 ELSE Total(counts, 0)[e - 1])
    <3>1. e \in Nat /\ ~ (e < 0)
      BY <1>0
    <3> HIDE DEF more, S
    <3> QED BY <1>0, <3>1, TotalStep
  <2>3. e # 0 => Total(counts, 0)[e - 1] \in Nat
    BY <1>0, <2>1, TotalType
  <2>4. counts[e] \in Nat /\ more[e] = counts[e] + IF x = e THEN 1 ELSE 0
    BY DEF Counts
  <2>5. e # 0 => Total(more, 0)[e - 1] = Total(counts, 0)[e - 1] + IF x <= e - 1 THEN 1 ELSE 0
    BY <1>1
  <2> HIDE DEF more
  <2>6. Total(more, 0)[e] = Total(counts, 0)[e] + IF x <= e THEN 1 ELSE 0
    <3>1. CASE e = 0
      BY <1>0, <2>2, <2>4, <3>1
    <3>2. CASE e # 0
      BY <1>0, <2>1, <2>2, <2>3, <2>4, <2>5, <3>2
    <3> QED BY <3>1, <3>2
  <2> QED BY <2>6
<1>3. Day \subseteq S
  <2> HIDE DEF S
  <2> QED BY <1>0, <1>1, DayInduction
<1> QED BY <1>3

\* Before the first visit nothing is counted.
LEMMA TotalOfNone == Total([d \in Day |-> 0], 0)[MaxDay] = 0
<1> DEFINE none == [d \in Day |-> 0]
           S == {e \in Day : Total(none, 0)[e] = 0}
<1>0. none \in Counts /\ 0 \in Day /\ MaxDay \in Day
  BY CalendarAssumption DEF Counts, Day
<1>1. ASSUME NEW e \in Day, e = 0 \/ e - 1 \in S PROVE e \in S
  BY <1>0, <1>1, TotalStep
<1>3. Day \subseteq S
  <2> HIDE DEF S
  <2> QED BY <1>0, <1>1, DayInduction
<1> QED BY <1>0, <1>3

-----------------------------------------------------------------------------
(* The inductive invariants. *)

\* What the voucher table adds to its types: rows are presented after they are
\* issued, and the cancelled ones were revoked.
VoucherInv ==
    /\ presenting \subseteq Issued
    /\ IsFiniteSet(Issued)
    /\ Having("cancelled") \subseteq revoked

\* The visit that has read its rows holds the campaign, and what it read is still
\* so: only the join of its customer may have come in between.
Held(t) == stage[t] \in {"locked", "checked"}
LockInv ==
    \A t \in Txn :
        /\ stage[t] # "idle" => request[t] \in [customer : Customer, day : Day]
        /\ Held(t) =>
             LET c == request[t].customer IN
             /\ lock = t
             /\ seen[t] \in [status : ParticipantStatus, progress : Nat]
             /\ seen[t].progress = progress[c]
             /\ \/ seen[t].status = participant[c]
                \/ seen[t].status = "none" /\ participant[c] = "joined"
        /\ stage[t] = "checked" => MayStillEarn(seen[t])

\* RewardCap is not inductive: a visit that was checked has room for its voucher.
CapInv ==
    /\ RewardCap
    /\ \A t \in Txn : stage[t] = "checked" => Cardinality(Issued \ revoked) < terms.maxRewards

\* DailyCap is not inductive: a visit that was checked has room on its own day.
DayInv ==
    /\ DailyCap
    /\ \A t \in Txn : stage[t] = "checked" =>
           actions[request[t].customer][request[t].day] < terms.perDay

\* VoucherPerCycle is not inductive: who was rewarded by a ONCE campaign reads
\* COMPLETED or REDEEMED for ever, and so is not eligible.
CycleInv ==
    /\ VoucherPerCycle
    /\ terms.limit = "once" => \A c \in Customer :
           Owned(c) # {} => participant[c] \in {"completed", "redeemed"}

\* VisitsAddUp is not inductive: a repeatable cycle is reset when it is full, never
\* beyond.
CountInv ==
    \A c \in Customer :
        /\ VisitsOf(c) = progress[c] + cycle[c] * terms.required
        /\ terms.limit = "repeatable" => progress[c] < terms.required
-----------------------------------------------------------------------------
(* What a step does to the vouchers. *)

\* A step that issues nothing: rows keep their owners, and only revoked vouchers
\* become CANCELLED.
Kept ==
    /\ TypeOK'
    /\ presenting' \subseteq Issued'
    /\ Issued' = Issued
    /\ revoked \subseteq revoked'
    /\ Having("cancelled")' \subseteq Having("cancelled") \cup revoked'
    /\ \A v \in Voucher : voucher'[v].owner = voucher[v].owner

\* What circulates, expires or is presented late was issued, and stays issued.
LEMMA CirculateKeeps ==
    ASSUME TypeOK, presenting \subseteq Issued, Circulate
    PROVE  Kept /\ participant' = participant
<1> USE DEF TypeOK, Row, Unissued, Issued, Having, Kept
<1>1. ASSUME NEW v \in Voucher, NEW i \in Item, SelectItem(v, i)
      PROVE  Kept /\ participant' = participant
  BY <1>1 DEF SelectItem
<1>2. ASSUME NEW v \in Voucher, RedeemLate(v) PROVE Kept /\ participant' = participant
  BY <1>2 DEF RedeemLate
<1>3. ASSUME NEW v \in Voucher, Cancel(v) PROVE Kept /\ participant' = participant
  BY <1>3 DEF Cancel
<1>4. ASSUME NEW v \in Voucher, PresentRead(v) \/ PresentShow(v) \/ Tick(v)
      PROVE  Kept /\ participant' = participant
  BY <1>4 DEF PresentRead, PresentShow, Tick
<1>5. ASSUME NEW v \in Voucher, PresentExpire(v) PROVE Kept /\ participant' = participant
  BY <1>5 DEF PresentExpire
<1>6. CASE ExpireVouchers
  BY <1>6 DEF ExpireVouchers
<1> QED BY <1>1, <1>2, <1>3, <1>4, <1>5, <1>6 DEF Circulate

\* A redemption changes the row of the owner, to REDEEMED.
LEMMA RedeemKeeps ==
    ASSUME TypeOK, presenting \subseteq Issued, NEW v \in Voucher, Redeem(v)
    PROVE  /\ Kept
           /\ voucher[v].owner \in Customer
           /\ participant' = [participant EXCEPT ![voucher[v].owner] = "redeemed"]
<1>1. voucher[v].owner \in Customer
  BY DEF Redeem, TypeOK, Row, Unissued, Having
<1>2. TypeOK'
  BY <1>1 DEF Redeem, TypeOK, Row, Unissued, Having, ParticipantStatus
<1> QED BY <1>1, <1>2 DEF Redeem, TypeOK, Row, Unissued, Issued, Having, Kept

\* A voucher is issued to one customer, and to nobody else.
LEMMA IssueAdds ==
    ASSUME TypeOK, presenting \subseteq Issued, NEW v \in Voucher, NEW c \in Customer,
           NEW s \in ParticipantStatus, Issue(v, c, s)
    PROVE  /\ TypeOK'
           /\ presenting' \subseteq Issued'
           /\ v \notin Issued
           /\ Issued' = Issued \cup {v}
           /\ revoked' = revoked
           /\ Having("cancelled")' = Having("cancelled")
           /\ Owned(c)' = Owned(c) \cup {v}
           /\ \A d \in Customer : d # c => Owned(d)' = Owned(d)
           /\ participant' = [participant EXCEPT ![c] = s]
<1> USE DEF Issue, TypeOK, Row, Unissued, Issued, Having
<1>1. TypeOK'
  OBVIOUS
<1>2. voucher'[v].status = "active" /\ voucher'[v].owner = c
  OBVIOUS
<1>3. \A w \in Voucher : w # v => voucher'[w] = voucher[w]
  OBVIOUS
<1> QED BY <1>1, <1>2, <1>3 DEF Owned

-----------------------------------------------------------------------------
(* Types, rows and locks are kept. *)

Shape == CampaignTypeOK /\ VoucherInv /\ LockInv

\* Only one visit at a time has read its rows.
LEMMA Alone ==
    ASSUME LockInv, NEW t \in Txn, NEW u \in Txn, Held(t), Held(u)
    PROVE  t = u
BY DEF LockInv

\* What a visit that commits does, in the terms of the rows as they still are.
LEMMA Committed ==
    ASSUME Shape, NEW t \in Txn, VisitCommit(t), NEW c, c = request[t].customer
    PROVE  /\ c \in Customer /\ request[t].day \in Day
           /\ lock = t
           /\ MayStillEarn(seen[t])
           /\ seen[t].status \in ParticipantStatus
           /\ seen[t].status = participant[c] \/ participant[c] = "joined"
           /\ actions' = [actions EXCEPT ![c][request[t].day] = @ + 1]
           /\ terms' = terms
           /\ \/ /\ progress[c] + 1 < terms.required
                 /\ progress' = [progress EXCEPT ![c] = @ + 1]
                 /\ \E s \in ParticipantStatus :
                       /\ participant' = [participant EXCEPT ![c] = s]
                 /\ UNCHANGED <<vouchers, cycle>>
              \/ /\ progress[c] + 1 >= terms.required /\ terms.limit = "once"
                 /\ \E v \in Voucher : Issue(v, c, "completed")
                 /\ progress' = [progress EXCEPT ![c] = @ + 1]
                 /\ UNCHANGED cycle
              \/ /\ progress[c] + 1 >= terms.required /\ terms.limit = "repeatable"
                 /\ \E v \in Voucher : Issue(v, c, "in_progress")
                 /\ progress' = [progress EXCEPT ![c] = 0]
                 /\ cycle' = [cycle EXCEPT ![c] = @ + 1]
<1>1. /\ c \in Customer /\ request[t].day \in Day
      /\ lock = t
      /\ MayStillEarn(seen[t])
      /\ seen[t] \in [status : ParticipantStatus, progress : Nat]
      /\ seen[t].progress = progress[c]
      /\ seen[t].status = participant[c] \/ participant[c] = "joined"
  BY DEF Shape, LockInv, VisitCommit, Held
<1>2. progress[c] \in Nat /\ terms.required \in Nat
  BY <1>1, TermsAssumption DEF Shape, CampaignTypeOK, TermsRow
<1> DEFINE next == IF seen[t].status \in {"none", "joined"} THEN "in_progress" ELSE seen[t].status
<1>3. next \in ParticipantStatus
  BY <1>1 DEF ParticipantStatus
<1>4. ~ (progress[c] + 1 >= terms.required) => progress[c] + 1 < terms.required
  BY <1>2
<1> QED BY <1>1, <1>3, <1>4 DEF VisitCommit

\* The voucher table stays in order, and every table typed.
LEMMA TypeStep == Shape /\ [CampaignNext]_campaignVars => CampaignTypeOK' /\ VoucherInv'
<1> SUFFICES ASSUME Shape, [CampaignNext]_campaignVars PROVE CampaignTypeOK' /\ VoucherInv'
  OBVIOUS
<1> USE DEF Shape
<1>a. terms.limit \in {"once", "repeatable"} /\ terms.required \in Nat
  BY TermsAssumption DEF CampaignTypeOK, TermsRow
<1>b. ASSUME Kept PROVE VoucherInv'
  BY <1>b DEF Kept, VoucherInv
<1>c. ASSUME UNCHANGED vouchers PROVE VoucherInv'
  BY <1>c DEF vouchers, VoucherInv, Issued, Having
<1>d. ASSUME UNCHANGED vouchers, participant' \in [Customer -> ParticipantStatus]
      PROVE  TypeOK'
  BY <1>d DEF CampaignTypeOK, TypeOK, vouchers
<1>1. ASSUME NEW c \in Customer, JoinRead(c) PROVE CampaignTypeOK' /\ VoucherInv'
  <2>1. TypeOK'
    BY <1>1, <1>d DEF JoinRead, CampaignTypeOK, TypeOK
  <2> QED BY <1>1, <1>c, <2>1 DEF JoinRead, visits, CampaignTypeOK
<1>2. ASSUME NEW c \in Customer, JoinCreate(c) PROVE CampaignTypeOK' /\ VoucherInv'
  <2>1. TypeOK'
    BY <1>2, <1>d DEF JoinCreate, CampaignTypeOK, TypeOK, ParticipantStatus
  <2> QED BY <1>2, <1>c, <2>1 DEF JoinCreate, visits, CampaignTypeOK
<1>3. ASSUME NEW t \in Txn, NEW c \in Customer, VisitBegin(t, c) PROVE CampaignTypeOK' /\ VoucherInv'
  <2>1. TypeOK'
    BY <1>3, <1>d DEF VisitBegin, CampaignTypeOK, TypeOK
  <2> QED BY <1>3, <1>c, <2>1 DEF VisitBegin, CampaignTypeOK
<1>4. ASSUME NEW t \in Txn, VisitLock(t) PROVE CampaignTypeOK' /\ VoucherInv'
  <2>1. TypeOK'
    BY <1>4, <1>d DEF VisitLock, CampaignTypeOK, TypeOK
  <2>2. [status |-> participant[request[t].customer], progress |-> progress[request[t].customer]]
           \in [status : ParticipantStatus, progress : Nat]
    BY <1>4 DEF VisitLock, LockInv, CampaignTypeOK, TypeOK
  <2> QED BY <1>4, <1>c, <2>1, <2>2 DEF VisitLock, CampaignTypeOK
<1>5. ASSUME NEW t \in Txn, VisitCheck(t) PROVE CampaignTypeOK' /\ VoucherInv'
  <2>1. TypeOK'
    BY <1>5, <1>d DEF VisitCheck, CampaignTypeOK, TypeOK
  <2> QED BY <1>5, <1>c, <2>1 DEF VisitCheck, CampaignTypeOK
<1>6. ASSUME NEW t \in Txn, Release(t)
      PROVE  /\ lock' \in Txn \cup {None}
             /\ stage' \in [Txn -> {"idle", "begun", "locked", "checked"}]
             /\ request' \in [Txn -> [customer : Customer, day : Day] \cup {None}]
             /\ seen' \in [Txn -> [status : ParticipantStatus, progress : Nat] \cup {None}]
             /\ started' \in Nat
  BY <1>6 DEF Release, CampaignTypeOK
<1>7. ASSUME NEW t \in Txn, VisitCommit(t) PROVE CampaignTypeOK' /\ VoucherInv'
  <2> DEFINE c == request[t].customer
  <2>0. c \in Customer /\ request[t].day \in Day
    BY <1>7, Committed
  <2>1. actions' \in [Customer -> [Day -> Nat]] /\ progress' \in [Customer -> Nat]
        /\ cycle' \in [Customer -> Nat]
    <3>1. actions' = [actions EXCEPT ![c][request[t].day] = @ + 1]
      BY <1>7 DEF VisitCommit
    <3>2. actions' \in [Customer -> [Day -> Nat]]
      BY <2>0, <3>1 DEF CampaignTypeOK
    <3>3. \/ progress' = [progress EXCEPT ![c] = @ + 1]
          \/ progress' = [progress EXCEPT ![c] = 0]
      BY <1>7, Committed
    <3>4. cycle' = cycle \/ cycle' = [cycle EXCEPT ![c] = @ + 1]
      BY <1>7 DEF VisitCommit
    <3>5. progress' \in [Customer -> Nat]
      <4>1. progress[c] + 1 \in Nat
        BY <2>0 DEF CampaignTypeOK
      <4> QED BY <2>0, <3>3, <4>1 DEF CampaignTypeOK
    <3>6. cycle' \in [Customer -> Nat]
      BY <2>0, <3>4 DEF CampaignTypeOK
    <3> QED BY <3>2, <3>5, <3>6
  <2>2. TypeOK' /\ VoucherInv'
    <3>1. ASSUME NEW v \in Voucher, NEW s \in {"completed", "in_progress"}, Issue(v, c, s)
          PROVE  TypeOK' /\ VoucherInv'
      BY <2>0, <3>1, IssueAdds, FS_AddElement DEF CampaignTypeOK, VoucherInv, ParticipantStatus
    <3>2. ASSUME UNCHANGED vouchers,
                 NEW s \in ParticipantStatus, participant' = [participant EXCEPT ![c] = s]
          PROVE  TypeOK' /\ VoucherInv'
      BY <2>0, <3>2, <1>c, <1>d DEF CampaignTypeOK, TypeOK
    <3> QED BY <1>7, Committed, <3>1, <3>2
  <2>3. Release(t) /\ UNCHANGED <<terms, status, joining, today>>
    BY <1>7 DEF VisitCommit
  <2> QED BY <1>6, <2>1, <2>2, <2>3 DEF CampaignTypeOK
<1>8. ASSUME NEW t \in Txn, VisitRollback(t) PROVE CampaignTypeOK' /\ VoucherInv'
  <2>1. TypeOK'
    BY <1>8, <1>d DEF VisitRollback, CampaignTypeOK, TypeOK
  <2> QED BY <1>6, <1>8, <1>c, <2>1 DEF VisitRollback, CampaignTypeOK
<1>9. ASSUME NEW v \in Voucher, RedeemVoucher(v) PROVE CampaignTypeOK' /\ VoucherInv'
  <2>1. TypeOK' /\ VoucherInv'
    BY <1>9, <1>b, RedeemKeeps DEF RedeemVoucher, CampaignTypeOK, VoucherInv, Kept
  <2> QED BY <1>9, <2>1 DEF RedeemVoucher, visits, CampaignTypeOK
<1>10. CASE VoucherStep
  <2>1. TypeOK' /\ VoucherInv'
    BY <1>10, <1>b, CirculateKeeps DEF VoucherStep, CampaignTypeOK, VoucherInv, Kept
  <2> QED BY <1>10, <2>1 DEF VoucherStep, visits, CampaignTypeOK
<1>11. ASSUME NEW s \in {"active", "paused", "ended"}, SetStatus(s) PROVE CampaignTypeOK' /\ VoucherInv'
  <2>1. TypeOK'
    BY <1>11, <1>d DEF SetStatus, CampaignTypeOK, TypeOK
  <2> QED BY <1>11, <1>c, <2>1 DEF SetStatus, visits, CampaignTypeOK
<1>12. CASE NextDay
  <2>1. TypeOK'
    BY <1>12, <1>d DEF NextDay, CampaignTypeOK, TypeOK
  <2> QED BY <1>12, <1>c, <2>1, CalendarAssumption DEF NextDay, visits, CampaignTypeOK, Day
<1>13. CASE UNCHANGED campaignVars
  <2>1. TypeOK'
    BY <1>13, <1>d DEF campaignVars, CampaignTypeOK, TypeOK
  <2> QED BY <1>13, <1>c, <2>1 DEF campaignVars, visits, CampaignTypeOK
<1> QED BY <1>1, <1>2, <1>3, <1>4, <1>5, <1>7, <1>8, <1>9, <1>10, <1>11, <1>12, <1>13 DEF CampaignNext

\* A step that leaves the visits, the progress and the rows of their customers
\* alone, up to a join, leaves what they read true.
LEMMA LockKept ==
    ASSUME LockInv, UNCHANGED <<visits, progress, terms>>,
           \A t \in Txn : Held(t) =>
               LET c == request[t].customer IN
               \/ participant'[c] = participant[c]
               \/ participant[c] = "none" /\ participant'[c] = "joined"
    PROVE  LockInv'
BY DEF LockInv, Held, visits, MayStillEarn

\* Whoever holds the campaign is the only one whose reads matter.
LEMMA LockStep == Shape /\ [CampaignNext]_campaignVars => LockInv'
<1> SUFFICES ASSUME Shape, [CampaignNext]_campaignVars PROVE LockInv'
  OBVIOUS
<1> USE DEF Shape
<1>1. ASSUME NEW c \in Customer, JoinRead(c) PROVE LockInv'
  BY <1>1, LockKept DEF JoinRead
<1>2. ASSUME NEW c \in Customer, JoinCreate(c) PROVE LockInv'
  <2>1. \A d \in Customer : \/ participant'[d] = participant[d]
                            \/ participant[d] = "none" /\ participant'[d] = "joined"
    BY <1>2 DEF JoinCreate, CampaignTypeOK, TypeOK
  <2>2. \A t \in Txn : Held(t) => request[t].customer \in Customer
    BY DEF LockInv, Held
  <2> QED BY <1>2, <2>1, <2>2, LockKept DEF JoinCreate
<1>3. ASSUME NEW t \in Txn, NEW c \in Customer, VisitBegin(t, c) PROVE LockInv'
  <2>1. request'[t] \in [customer : Customer, day : Day] /\ stage'[t] = "begun"
    BY <1>3 DEF VisitBegin, CampaignTypeOK
  <2>2. \A u \in Txn : u # t => request'[u] = request[u] /\ stage'[u] = stage[u]
    BY <1>3 DEF VisitBegin, CampaignTypeOK
  <2> QED BY <1>3, <2>1, <2>2 DEF VisitBegin, LockInv, Held, MayStillEarn
<1>4. ASSUME NEW t \in Txn, VisitLock(t) PROVE LockInv'
  <2> DEFINE c == request[t].customer
  <2>1. request[t] \in [customer : Customer, day : Day]
    BY <1>4 DEF VisitLock, LockInv
  <2>2. \A u \in Txn : ~ Held(u)
    BY <1>4, NoHolder DEF VisitLock, LockInv
  <2>3. seen'[t] = [status |-> participant[c], progress |-> progress[c]] /\ stage'[t] = "locked"
    BY <1>4 DEF VisitLock, CampaignTypeOK
  <2>4. participant[c] \in ParticipantStatus /\ progress[c] \in Nat
    BY <2>1 DEF CampaignTypeOK, TypeOK
  <2>5. \A u \in Txn : u # t => stage'[u] = stage[u]
    BY <1>4 DEF VisitLock, CampaignTypeOK
  <2> QED BY <1>4, <2>1, <2>2, <2>3, <2>4, <2>5 DEF VisitLock, LockInv, Held
<1>5. ASSUME NEW t \in Txn, VisitCheck(t) PROVE LockInv'
  <2>1. stage'[t] = "checked" /\ stage[t] = "locked" /\ MayStillEarn(seen[t])
    BY <1>5 DEF VisitCheck, CampaignTypeOK
  <2>2. \A u \in Txn : u # t => stage'[u] = stage[u]
    BY <1>5 DEF VisitCheck, CampaignTypeOK
  <2> QED BY <1>5, <2>1, <2>2 DEF VisitCheck, LockInv, Held, MayStillEarn
<1>6. ASSUME NEW t \in Txn, Release(t)
      PROVE  /\ stage'[t] = "idle"
             /\ \A u \in Txn : u # t => /\ stage'[u] = stage[u] /\ request'[u] = request[u]
                                        /\ seen'[u] = seen[u] /\ (lock = u => lock' = u)
  BY <1>6, NoHolder DEF Release, CampaignTypeOK
<1>7. ASSUME NEW t \in Txn, VisitCommit(t) PROVE LockInv'
  <2>1. \A u \in Txn : u # t => ~ Held(u)
    BY <1>7, Alone DEF VisitCommit, Held
  <2>2. Release(t)
    BY <1>7 DEF VisitCommit
  <2> QED BY <2>1, <2>2, <1>6 DEF LockInv, Held
<1>8. ASSUME NEW t \in Txn, VisitRollback(t) PROVE LockInv'
  <2>1. Release(t)
    BY <1>8 DEF VisitRollback
  <2> QED BY <1>8, <2>1, <1>6 DEF VisitRollback, LockInv, Held, MayStillEarn
<1>9. ASSUME NEW v \in Voucher, RedeemVoucher(v) PROVE LockInv'
  <2>1. participant' = [participant EXCEPT ![voucher[v].owner] = "redeemed"]
    BY <1>9, RedeemKeeps DEF RedeemVoucher, CampaignTypeOK, VoucherInv
  <2>2. \A t \in Txn : Held(t) => participant'[request[t].customer] = participant[request[t].customer]
    BY <1>9, <2>1 DEF RedeemVoucher, Held, CampaignTypeOK, TypeOK, LockInv
  <2> QED BY <1>9, <2>2, LockKept DEF RedeemVoucher
<1>10. CASE VoucherStep
  BY <1>10, CirculateKeeps, LockKept DEF VoucherStep, CampaignTypeOK, VoucherInv
<1>11. ASSUME NEW s \in {"active", "paused", "ended"}, SetStatus(s) PROVE LockInv'
  BY <1>11, LockKept DEF SetStatus
<1>12. CASE NextDay
  BY <1>12, LockKept DEF NextDay
<1>13. CASE UNCHANGED campaignVars
  BY <1>13, LockKept DEF campaignVars
<1> QED BY <1>1, <1>2, <1>3, <1>4, <1>5, <1>7, <1>8, <1>9, <1>10, <1>11, <1>12, <1>13 DEF CampaignNext

\* Shape holds of every reachable state.
LEMMA ShapeStays == CampaignSpec => []Shape
<1>1. ASSUME CampaignInit PROVE Shape
  <2>1. TypeOK
    BY <1>1 DEF CampaignInit, NoVouchers, TypeOK, ParticipantStatus
  <2>2. CampaignTypeOK
    BY <1>1, <2>1, CalendarAssumption DEF CampaignInit, CampaignTypeOK, Day
  <2>3. Issued = {} /\ Having("cancelled") = {}
    BY <1>1 DEF CampaignInit, NoVouchers, Issued, Having, Unissued
  <2>4. VoucherInv
    BY <1>1, <2>3, FS_EmptySet DEF CampaignInit, NoVouchers, VoucherInv
  <2>5. LockInv
    BY <1>1 DEF CampaignInit, LockInv, Held
  <2> QED BY <2>2, <2>4, <2>5 DEF Shape
<1>2. Shape /\ [CampaignNext]_campaignVars => Shape'
  BY TypeStep, LockStep DEF Shape
<1> QED BY <1>1, <1>2, PTL DEF CampaignSpec

\* Every other step leaves the counts and the issued vouchers alone.
LEMMA Quiet ==
    ASSUME Shape, [CampaignNext]_campaignVars, \A t \in Txn : ~ VisitCommit(t)
    PROVE  /\ UNCHANGED <<terms, progress, cycle, actions>>
           /\ Issued' = Issued
           /\ revoked \subseteq revoked'
           /\ \A c \in Customer : Owned(c)' = Owned(c)
<1> USE DEF Shape, CampaignTypeOK, VoucherInv
<1>1. ASSUME UNCHANGED vouchers
      PROVE  /\ Issued' = Issued /\ revoked \subseteq revoked'
             /\ \A c \in Customer : Owned(c)' = Owned(c)
  BY <1>1 DEF vouchers, Issued, Having, Owned
<1>2. ASSUME Kept
      PROVE  /\ Issued' = Issued /\ revoked \subseteq revoked'
             /\ \A c \in Customer : Owned(c)' = Owned(c)
  BY <1>2 DEF Kept, Owned, Issued
<1>3. CASE VoucherStep
  BY <1>2, <1>3, CirculateKeeps DEF VoucherStep
<1>4. ASSUME NEW v \in Voucher, RedeemVoucher(v)
      PROVE  Kept /\ UNCHANGED <<terms, progress, cycle, actions>>
  BY <1>4, RedeemKeeps DEF RedeemVoucher
<1>5. CASE ~ VoucherStep /\ \A v \in Voucher : ~ RedeemVoucher(v)
  <2>1. UNCHANGED <<vouchers, terms, progress, cycle, actions>>
    BY <1>5 DEF CampaignNext, campaignVars, JoinRead, JoinCreate, VisitBegin, VisitLock, VisitCheck,
                VisitRollback, SetStatus, NextDay
  <2> QED BY <1>1, <2>1
<1> QED BY <1>2, <1>3, <1>4, <1>5

\* A visit that is checked was checked before the step, or is checked by it.
LEMMA CheckedBefore ==
    ASSUME Shape, [CampaignNext]_campaignVars, NEW t \in Txn, stage'[t] = "checked"
    PROVE  /\ request'[t] = request[t]
           /\ stage[t] = "checked" \/ VisitCheck(t)
           /\ \A u \in Txn : ~ VisitCommit(u)
<1> USE DEF Shape, CampaignTypeOK
<1>1. ASSUME NEW u \in Txn, Release(u)
      PROVE  u # t /\ request'[t] = request[t] /\ stage[t] = "checked"
  BY <1>1 DEF Release
<1>2. ASSUME NEW u \in Txn, VisitCommit(u) PROVE FALSE
  <2>1. u # t /\ stage[t] = "checked"
    BY <1>1, <1>2 DEF VisitCommit
  <2> QED BY <1>2, <2>1, Alone DEF VisitCommit, Held
<1>3. ASSUME NEW u \in Txn, VisitRollback(u)
      PROVE  request'[t] = request[t] /\ stage[t] = "checked"
  BY <1>1, <1>3 DEF VisitRollback
<1>4. ASSUME NEW u \in Txn, \/ \E c \in Customer : VisitBegin(u, c)
                            \/ VisitLock(u) \/ VisitCheck(u)
      PROVE  request'[t] = request[t] /\ (stage[t] = "checked" \/ VisitCheck(t))
  BY <1>4 DEF VisitBegin, VisitLock, VisitCheck
<1>5. CASE UNCHANGED visits
  BY <1>5, <1>2 DEF visits
<1>6. CASE ~ UNCHANGED visits
  <2>1. PICK u \in Txn : \/ \E c \in Customer : VisitBegin(u, c)
                         \/ VisitLock(u) \/ VisitCheck(u) \/ VisitCommit(u) \/ VisitRollback(u)
    BY <1>6 DEF CampaignNext, campaignVars, JoinRead, JoinCreate, RedeemVoucher, VoucherStep, SetStatus, NextDay
  <2> QED BY <1>2, <1>3, <1>4, <2>1
<1> QED BY <1>5, <1>6

-----------------------------------------------------------------------------
(* The cap on rewards. *)

\* Only the holder of the campaign issues, and it has counted under the lock;
\* what others do to vouchers meanwhile only lowers the count.
LEMMA CapStep == Shape /\ CapInv /\ [CampaignNext]_campaignVars => CapInv'
<1> SUFFICES ASSUME Shape, CapInv, [CampaignNext]_campaignVars PROVE CapInv'
  OBVIOUS
<1> DEFINE Count == Cardinality(Issued \ revoked)
<1>1. /\ IsFiniteSet(Issued) /\ IsFiniteSet(Issued \ revoked) /\ Count \in Nat
      /\ terms.maxRewards \in Nat
  BY FS_Subset, FS_CardinalityType, TermsAssumption
     DEF Shape, VoucherInv, CampaignTypeOK, TermsRow
<1>2. ASSUME NEW t \in Txn, VisitCommit(t) PROVE CapInv'
  <2>1. Count < terms.maxRewards
    BY <1>2 DEF VisitCommit, CapInv
  <2>2. \/ Issued' \ revoked' = Issued \ revoked
        \/ \E v \in Voucher : Issued' \ revoked' \subseteq (Issued \ revoked) \cup {v}
    <3> DEFINE c == request[t].customer
    <3>1. c \in Customer
      BY <1>2, Committed
    <3>2. ASSUME NEW v \in Voucher, NEW s \in ParticipantStatus, Issue(v, c, s)
          PROVE  Issued' \ revoked' \subseteq (Issued \ revoked) \cup {v}
      BY <3>1, <3>2, IssueAdds DEF Shape, CampaignTypeOK, VoucherInv
    <3>3. CASE UNCHANGED vouchers
      BY <3>3 DEF vouchers, Issued, Having
    <3> QED BY <1>2, <3>2, <3>3, Committed DEF ParticipantStatus
  <2>3. Count' <= Count + 1
    <3>1. ASSUME NEW v \in Voucher, Issued' \ revoked' \subseteq (Issued \ revoked) \cup {v}
          PROVE  Count' <= Count + 1
      <4>1. /\ IsFiniteSet((Issued \ revoked) \cup {v})
            /\ Cardinality((Issued \ revoked) \cup {v}) <= Count + 1
        BY <1>1, FS_AddElement
      <4>2. Count' <= Cardinality((Issued \ revoked) \cup {v})
        BY <3>1, <4>1, FS_Subset
      <4>3. Count' \in Nat /\ Cardinality((Issued \ revoked) \cup {v}) \in Nat
        BY <3>1, <4>1, FS_Subset, FS_CardinalityType
      <4> QED BY <1>1, <4>1, <4>2, <4>3
    <3>2. ASSUME Issued' \ revoked' = Issued \ revoked PROVE Count' <= Count + 1
      <4>1. Count' = Count
        BY <3>2
      <4> QED BY <1>1, <4>1
    <3> HIDE DEF Count
    <3> QED BY <2>2, <3>1, <3>2
  <2>4. \A u \in Txn : stage'[u] # "checked"
    BY <1>2, CheckedBefore
  <2>5. Count' \in Nat
    <3>1. IsFiniteSet(Issued')
      BY TypeStep DEF VoucherInv
    <3> QED BY <3>1, FS_Subset, FS_CardinalityType
  <2> QED BY <1>1, <1>2, <2>1, <2>3, <2>4, <2>5, Committed DEF CapInv, RewardCap
<1>3. CASE \A t \in Txn : ~ VisitCommit(t)
  <2>1. Issued' \ revoked' \subseteq Issued \ revoked /\ terms' = terms
    BY <1>3, Quiet
  <2>2. Count' <= Count /\ Count' \in Nat
    BY <1>1, <2>1, FS_Subset, FS_CardinalityType
  <2>3. ASSUME NEW t \in Txn, stage'[t] = "checked" PROVE Count < terms.maxRewards
    <3>1. CASE stage[t] = "checked"
      BY <3>1 DEF CapInv
    <3>2. CASE VisitCheck(t)
      <4>1. /\ Issued \ revoked \subseteq Consumed
            /\ Consumed \subseteq Issued
        BY DEF Shape, VoucherInv, Consumed
      <4>2. /\ IsFiniteSet(Consumed) /\ Cardinality(Consumed) \in Nat
            /\ Count <= Cardinality(Consumed)
        BY <1>1, <4>1, FS_Subset, FS_CardinalityType
      <4> QED BY <1>1, <3>2, <4>2 DEF VisitCheck
    <3> QED BY <2>3, <3>1, <3>2, CheckedBefore
  <2> QED BY <1>1, <2>1, <2>2, <2>3 DEF CapInv, RewardCap
<1> QED BY <1>2, <1>3

\* However many completions, redemptions, revocations and stale requests overlap,
\* a campaign never issues more vouchers than max_rewards, the revoked apart.
THEOREM RewardsCapped == CampaignSpec => []RewardCap
<1>1. CampaignInit => CapInv
  <2> SUFFICES ASSUME CampaignInit PROVE CapInv
    OBVIOUS
  <2>1. Issued \ revoked = {} /\ \A t \in Txn : stage[t] = "idle"
    BY DEF CampaignInit, NoVouchers, Issued, Having, Unissued
  <2>2. terms.maxRewards \in Nat
    BY TermsAssumption DEF CampaignInit, TermsRow
  <2> QED BY <2>1, <2>2, FS_EmptySet DEF CapInv, RewardCap
<1>2. CapInv => RewardCap
  BY DEF CapInv
<1> QED BY <1>1, <1>2, ShapeStays, CapStep, PTL DEF CampaignSpec

-----------------------------------------------------------------------------
(* The cap on a day. *)

\* A visit counts on the day its clock was read, and it has counted the visits of
\* that day and of all later ones under the lock.
LEMMA DayStep == Shape /\ DayInv /\ [CampaignNext]_campaignVars => DayInv'
<1> SUFFICES ASSUME Shape, DayInv, [CampaignNext]_campaignVars PROVE DayInv'
  OBVIOUS
<1>1. actions \in [Customer -> Counts] /\ terms.perDay \in Nat
  BY TermsAssumption DEF Shape, CampaignTypeOK, TermsRow, Counts
<1>2. ASSUME NEW t \in Txn, VisitCommit(t) PROVE DayInv'
  <2> DEFINE c == request[t].customer  d == request[t].day
  <2>1. c \in Customer /\ d \in Day /\ terms' = terms
        /\ actions' = [actions EXCEPT ![c][d] = @ + 1]
    BY <1>2, Committed
  <2>2. actions[c][d] < terms.perDay
    BY <1>2 DEF VisitCommit, DayInv
  <2>3. \A u \in Txn : stage'[u] # "checked"
    BY <1>2, CheckedBefore
  <2>4. ASSUME NEW b \in Customer, NEW e \in Day PROVE actions'[b][e] <= terms.perDay
    BY <1>1, <2>1, <2>2 DEF DayInv, DailyCap, Counts
  <2> QED BY <2>1, <2>3, <2>4 DEF DayInv, DailyCap
<1>3. CASE \A t \in Txn : ~ VisitCommit(t)
  <2>1. actions' = actions /\ terms' = terms
    BY <1>3, Quiet
  <2>2. ASSUME NEW t \in Txn, VisitCheck(t)
        PROVE  actions[request[t].customer][request[t].day] < terms.perDay
    <3> DEFINE c == request[t].customer  d == request[t].day
    <3>1. c \in Customer /\ d \in Day /\ CountedSince(c, d) < terms.perDay
      BY <2>2 DEF VisitCheck, Shape, LockInv
    <3>2. MaxDay \in Day /\ d <= MaxDay /\ d \in Nat /\ actions[c] \in Counts
      BY <1>1, <3>1, CalendarAssumption DEF Day
    <3>3. actions[c][d] <= CountedSince(c, d) /\ CountedSince(c, d) \in Nat
      BY <3>1, <3>2, CountedIsTotal, TotalCovers, TotalType
    <3>4. actions[c][d] \in Nat
      BY <3>1, <3>2 DEF Counts
    <3> QED BY <1>1, <3>1, <3>3, <3>4
  <2> QED BY <2>1, <2>2, CheckedBefore DEF DayInv, DailyCap
<1> QED BY <1>2, <1>3

\* No customer has more visits counted on a day than the rule allows, however long
\* a visit waited between its clock and the lock.
THEOREM DaysCapped == CampaignSpec => []DailyCap
<1>1. CampaignInit => DayInv
  BY TermsAssumption DEF CampaignInit, DayInv, DailyCap, TermsRow
<1>2. DayInv => DailyCap
  BY DEF DayInv
<1> QED BY <1>1, <1>2, ShapeStays, DayStep, PTL DEF CampaignSpec

-----------------------------------------------------------------------------
(* One voucher per cycle. *)

\* A reward marks its customer's row in the same step, under the lock that the
\* next visit of the customer needs before it reads the row.
LEMMA CycleStep == Shape /\ CycleInv /\ [CampaignNext]_campaignVars => CycleInv'
<1> SUFFICES ASSUME Shape, CycleInv, [CampaignNext]_campaignVars PROVE CycleInv'
  OBVIOUS
<1>1. /\ terms.limit \in {"once", "repeatable"}
      /\ participant \in [Customer -> ParticipantStatus]
      /\ cycle \in [Customer -> Nat]
      /\ \A c \in Customer : IsFiniteSet(Owned(c))
  BY FS_Subset, TermsAssumption DEF Shape, CampaignTypeOK, TermsRow, TypeOK, VoucherInv, Owned
<1>2. ASSUME NEW t \in Txn, VisitCommit(t) PROVE CycleInv'
  <2>0. PICK c \in Customer : c = request[t].customer
    BY <1>2, Committed
  <2>1. terms' = terms
    BY <1>2, Committed
  <2>2. terms.limit = "once" => Owned(c) = {}
    <3>1. terms.limit = "once" => participant[c] \notin {"completed", "redeemed"}
      BY <1>2, <2>0, Committed DEF MayStillEarn
    <3> QED BY <2>1, <3>1 DEF CycleInv
  <2>3. ASSUME UNCHANGED <<vouchers, cycle>>,
               NEW s \in ParticipantStatus, participant' = [participant EXCEPT ![c] = s]
        PROVE  CycleInv'
    <3>1. \A d \in Customer : Owned(d)' = Owned(d)
      BY <2>3 DEF vouchers, Owned, Issued, Having
    <3> QED BY <1>1, <2>1, <2>2, <2>3, <3>1 DEF CycleInv, VoucherPerCycle
  <2>4. ASSUME NEW v \in Voucher, NEW s \in ParticipantStatus, Issue(v, c, s),
               \/ terms.limit = "once" /\ s = "completed" /\ UNCHANGED cycle
               \/ terms.limit = "repeatable" /\ cycle' = [cycle EXCEPT ![c] = @ + 1]
        PROVE  CycleInv'
    <3>1. /\ v \notin Owned(c) /\ Owned(c)' = Owned(c) \cup {v}
          /\ \A d \in Customer : d # c => Owned(d)' = Owned(d)
          /\ participant' = [participant EXCEPT ![c] = s]
      BY <2>1, <2>4, IssueAdds DEF Shape, CampaignTypeOK, VoucherInv, Owned
    <3>2. Cardinality(Owned(c)') = Cardinality(Owned(c)) + 1
      BY <1>1, <2>1, <3>1, FS_AddElement
    <3>3. CASE terms.limit = "once"
      <4>1. Cardinality(Owned(c)') = 1
        BY <2>2, <3>2, <3>3, FS_EmptySet
      <4> QED BY <1>1, <2>1, <2>4, <3>1, <3>3, <4>1 DEF CycleInv, VoucherPerCycle
    <3>4. CASE terms.limit = "repeatable"
      <4>1. \A d \in Customer : Cardinality(Owned(d)') = cycle'[d]
        BY <1>1, <2>1, <2>4, <3>1, <3>2, <3>4 DEF CycleInv, VoucherPerCycle
      <4> QED BY <2>1, <3>4, <4>1 DEF CycleInv, VoucherPerCycle
    <3> QED BY <1>1, <3>3, <3>4
  <2> QED BY <1>2, <2>0, <2>3, <2>4, Committed DEF ParticipantStatus
<1>3. CASE \A t \in Txn : ~ VisitCommit(t)
  <2>1. UNCHANGED <<terms, cycle>> /\ \A c \in Customer : Owned(c)' = Owned(c)
    BY <1>3, Quiet
  <2>2. ASSUME NEW c \in Customer, participant[c] \in {"completed", "redeemed"}
        PROVE  participant'[c] \in {"completed", "redeemed"}
    <3>1. ASSUME NEW d \in Customer, JoinCreate(d) PROVE participant'[c] = participant[c]
      BY <1>1, <2>2, <3>1 DEF JoinCreate
    <3>2. ASSUME NEW v \in Voucher, RedeemVoucher(v)
          PROVE  participant'[c] \in {"completed", "redeemed"}
      BY <1>1, <2>2, <3>2, RedeemKeeps DEF RedeemVoucher, Shape, CampaignTypeOK, VoucherInv
    <3>3. CASE VoucherStep
      BY <2>2, <3>3, CirculateKeeps DEF VoucherStep, Shape, CampaignTypeOK, VoucherInv
    <3>4. CASE /\ ~ VoucherStep
               /\ \A d \in Customer : ~ JoinCreate(d)
               /\ \A v \in Voucher : ~ RedeemVoucher(v)
      <4>1. participant' = participant
        BY <1>3, <3>4 DEF CampaignNext, campaignVars, JoinRead, VisitBegin, VisitLock, VisitCheck,
                          VisitRollback, SetStatus, NextDay
      <4> QED BY <2>2, <4>1
    <3> QED BY <2>2, <3>1, <3>2, <3>3, <3>4
  <2> QED BY <2>1, <2>2 DEF CycleInv, VoucherPerCycle
<1> QED BY <1>2, <1>3

\* However many visits, joins and redemptions race, a ONCE campaign rewards a
\* customer at most once, and a repeatable one exactly once per completed cycle.
THEOREM CyclesRewardedOnce == CampaignSpec => []VoucherPerCycle
<1>1. CampaignInit => CycleInv
  <2> SUFFICES ASSUME CampaignInit PROVE CycleInv
    OBVIOUS
  <2>1. \A c \in Customer : Owned(c) = {} /\ cycle[c] = 0
    BY DEF CampaignInit, NoVouchers, Owned, Issued, Having, Unissued
  <2> QED BY <2>1, FS_EmptySet DEF CycleInv, VoucherPerCycle
<1>2. CycleInv => VoucherPerCycle
  BY DEF CycleInv
<1> QED BY <1>1, <1>2, ShapeStays, CycleStep, PTL DEF CampaignSpec

-----------------------------------------------------------------------------
(* No visit is lost. *)

\* The visit and the progress it makes are committed together; a full cycle is
\* reset in the step that counts it.
LEMMA CountStep == Shape /\ CountInv /\ [CampaignNext]_campaignVars => CountInv'
<1> SUFFICES ASSUME Shape, CountInv, [CampaignNext]_campaignVars PROVE CountInv'
  OBVIOUS
<1>1. /\ terms.limit \in {"once", "repeatable"} /\ terms.required \in Nat \ {0}
      /\ actions \in [Customer -> Counts]
      /\ progress \in [Customer -> Nat] /\ cycle \in [Customer -> Nat]
  BY TermsAssumption DEF Shape, CampaignTypeOK, TermsRow, Counts
<1>2. ASSUME NEW c \in Customer PROVE VisitsOf(c) = Total(actions[c], 0)[MaxDay]
  BY CountedIsTotal, CalendarAssumption DEF VisitsOf, Day
<1>2p. ASSUME NEW c \in Customer PROVE VisitsOf(c)' = Total(actions'[c], 0)[MaxDay]
  BY DEF VisitsOf, CountedSince, Total
<1>3. ASSUME NEW t \in Txn, VisitCommit(t) PROVE CountInv'
  <2>0. PICK c \in Customer, d \in Day : c = request[t].customer /\ d = request[t].day
    BY <1>3, Committed
  <2>1. terms' = terms /\ actions' = [actions EXCEPT ![c][d] = @ + 1]
    BY <1>3, <2>0, Committed
  <2>2. VisitsOf(c)' = VisitsOf(c) + 1
    <3>1. actions'[c] = [actions[c] EXCEPT ![d] = @ + 1] /\ actions[c] \in Counts
      BY <1>1, <2>1
    <3>2. MaxDay \in Day /\ d <= MaxDay
      BY <2>1, CalendarAssumption DEF Day
    <3> QED BY <1>2, <1>2p, <2>1, <3>1, <3>2, TotalGrows
  <2>3. \A b \in Customer : b # c => VisitsOf(b)' = VisitsOf(b)
    BY <1>1, <1>2, <1>2p, <2>1
  <2>4. CASE progress' = [progress EXCEPT ![c] = @ + 1] /\ cycle' = cycle
             /\ (terms.limit = "repeatable" => progress[c] + 1 < terms.required)
    <3>1. VisitsOf(c)' = progress'[c] + cycle'[c] * terms.required
      <4>1. cycle[c] * terms.required \in Nat /\ progress[c] \in Nat
        BY <1>1, <2>1
      <4>2. VisitsOf(c) = progress[c] + cycle[c] * terms.required
        BY <2>1 DEF CountInv
      <4> QED BY <1>1, <2>1, <2>2, <2>4, <4>1, <4>2
    <3> QED BY <1>1, <2>1, <2>3, <2>4, <3>1 DEF CountInv
  <2>5. CASE /\ progress[c] + 1 >= terms.required /\ terms.limit = "repeatable"
             /\ progress' = [progress EXCEPT ![c] = 0]
             /\ cycle' = [cycle EXCEPT ![c] = @ + 1]
    <3>1. VisitsOf(c)' = progress'[c] + cycle'[c] * terms.required
      <4>1. progress[c] + 1 = terms.required
        <5>1. progress[c] < terms.required
          BY <2>5 DEF CountInv
        <5>2. progress[c] \in Nat
          BY <1>1
        <5> QED BY <1>1, <2>5, <5>1, <5>2
      <4>2. VisitsOf(c) = progress[c] + cycle[c] * terms.required
        BY <2>1 DEF CountInv
      <4>3. (cycle[c] + 1) * terms.required = cycle[c] * terms.required + terms.required
        BY <1>1, <2>1
      <4>4. cycle[c] * terms.required \in Nat /\ progress[c] \in Nat
        BY <1>1, <2>1
      <4>5. progress'[c] = 0 /\ cycle'[c] = cycle[c] + 1
        BY <1>1, <2>1, <2>5
      <4> QED BY <1>1, <2>2, <4>1, <4>2, <4>3, <4>4, <4>5
    <3> QED BY <1>1, <2>1, <2>3, <2>5, <3>1 DEF CountInv
  <2> QED BY <1>1, <1>3, <2>0, <2>4, <2>5, Committed
<1>4. CASE \A t \in Txn : ~ VisitCommit(t)
  <2>1. UNCHANGED <<terms, progress, cycle, actions>>
    BY <1>4, Quiet
  <2> QED BY <1>2, <1>2p, <2>1 DEF CountInv
<1> QED BY <1>3, <1>4

\* However visits, joins and redemptions overlap, the counted visits of a customer
\* are those of the running cycle and of the completed ones; and every table stays
\* well-typed.
THEOREM NoVisitLost == CampaignSpec => []VisitsAddUp
<1>1. CampaignInit => CountInv
  <2> SUFFICES ASSUME CampaignInit, NEW c \in Customer
               PROVE  /\ VisitsOf(c) = progress[c] + cycle[c] * terms.required
                      /\ terms.limit = "repeatable" => progress[c] < terms.required
    BY DEF CountInv
  <2>1. terms.required \in Nat \ {0} /\ progress[c] = 0 /\ cycle[c] = 0
        /\ actions[c] = [d \in Day |-> 0]
    BY TermsAssumption DEF CampaignInit, TermsRow
  <2>2. VisitsOf(c) = Total(actions[c], 0)[MaxDay]
    BY CountedIsTotal, CalendarAssumption DEF VisitsOf, Day
  <2>3. VisitsOf(c) = 0
    BY <2>1, <2>2, TotalOfNone
  <2> QED BY <2>1, <2>3
<1>2. Shape /\ CountInv => VisitsAddUp
  BY DEF Shape, CountInv, VisitsAddUp
<1> QED BY <1>1, <1>2, ShapeStays, CountStep, PTL DEF CampaignSpec
-----------------------------------------------------------------------------
(* The promise. *)

Live == Having("active")
Spent == Issued \ Live

\* A step that moves no voucher is a stutter of the promise; one that only moves
\* live vouchers among the spent lets them lapse.
LEMMA PromiseMoves ==
    ASSUME handed' = handed, NEW S, S \subseteq Live, Live' = Live \ S, Spent' = Spent \cup S
    PROVE  [P!Next]_P!vars
<1>1. CASE S = {}
  BY <1>1 DEF P!vars, Live, Spent
<1>2. CASE S # {}
  <2>1. S \in SUBSET Voucher
    BY DEF Live, Having
  <2>2. P!Lapse(S)
    BY <1>2 DEF P!Lapse, Live, Spent
  <2> QED BY <2>1, <2>2 DEF P!Next
<1> QED BY <1>1, <1>2

\* Each step on a voucher is a step of the promise or a stutter.  "Present" saves
\* EXPIRED over what it once read, which was issued.
LEMMA CirculatePromises ==
    ASSUME TypeOK, presenting \subseteq Issued, Circulate
    PROVE  [P!Next]_P!vars
<1> USE DEF TypeOK, Row, Unissued, Issued, Having, Live, Spent
<1>1. ASSUME NEW v \in Voucher, \/ \E i \in Item : SelectItem(v, i)
                                \/ PresentRead(v) \/ PresentShow(v) \/ Tick(v)
      PROVE  handed' = handed /\ Live' = Live \ {} /\ Spent' = Spent \cup {}
  BY <1>1 DEF SelectItem, PresentRead, PresentShow, Tick
<1>2. ASSUME NEW v \in Voucher, RedeemLate(v) \/ Cancel(v)
      PROVE  v \in Live /\ handed' = handed /\ Live' = Live \ {v} /\ Spent' = Spent \cup {v}
  BY <1>2 DEF RedeemLate, Cancel
<1>3. ASSUME NEW v \in Voucher, PresentExpire(v), NEW S, S = {v} \cap Live
      PROVE  handed' = handed /\ Live' = Live \ S /\ Spent' = Spent \cup S
  BY <1>3 DEF PresentExpire
<1>4. ASSUME ExpireVouchers, NEW S, S = Live \cap Overdue
      PROVE  handed' = handed /\ Live' = Live \ S /\ Spent' = Spent \cup S
  BY <1>4 DEF ExpireVouchers
<1>5. PICK S : S \subseteq Live /\ handed' = handed /\ Live' = Live \ S /\ Spent' = Spent \cup S
  <2> HIDE DEF Live, Spent
  <2>1. ASSUME NEW v \in Voucher, PresentExpire(v)
        PROVE  \E S : S \subseteq Live /\ handed' = handed /\ Live' = Live \ S
                      /\ Spent' = Spent \cup S
    <3> WITNESS {v} \cap Live
    <3> QED BY <2>1, <1>3
  <2>2. ASSUME ExpireVouchers
        PROVE  \E S : S \subseteq Live /\ handed' = handed /\ Live' = Live \ S
                      /\ Spent' = Spent \cup S
    <3> WITNESS Live \cap Overdue
    <3> QED BY <2>2, <1>4
  <2>3. ASSUME NEW v \in Voucher, RedeemLate(v) \/ Cancel(v)
        PROVE  \E S : S \subseteq Live /\ handed' = handed /\ Live' = Live \ S
                      /\ Spent' = Spent \cup S
    <3> WITNESS {v}
    <3> QED BY <2>3, <1>2
  <2>4. ASSUME NEW v \in Voucher, \/ \E i \in Item : SelectItem(v, i)
                                  \/ PresentRead(v) \/ PresentShow(v) \/ Tick(v)
        PROVE  \E S : S \subseteq Live /\ handed' = handed /\ Live' = Live \ S
                      /\ Spent' = Spent \cup S
    <3> WITNESS {}
    <3> QED BY <2>4, <1>1
  <2> QED BY <2>1, <2>2, <2>3, <2>4 DEF Circulate
<1> HIDE DEF Live, Spent
<1> QED BY <1>5, PromiseMoves

\* Issuing brings one voucher to life; a redemption honours one.
LEMMA IssuePromises ==
    ASSUME TypeOK, NEW v \in Voucher, NEW c \in Customer, NEW s, Issue(v, c, s)
    PROVE  P!Next
<1>1. v \notin Live \cup Spent /\ Live' = Live \cup {v} /\ Spent' = Spent /\ handed' = handed
  BY DEF Issue, TypeOK, Row, Unissued, Issued, Having, Live, Spent
<1>2. P!Issue({v})
  BY <1>1 DEF P!Issue, Live, Spent
<1> QED BY <1>2 DEF P!Next

LEMMA RedeemPromises ==
    ASSUME TypeOK, NEW v \in Voucher, Redeem(v)
    PROVE  P!Next
<1>1. /\ v \in Live /\ Live' = Live \ {v} /\ Spent' = Spent \cup {v}
      /\ handed' = [handed EXCEPT ![v] = @ + 1]
  BY DEF Redeem, TypeOK, Row, Unissued, Issued, Having, Live, Spent
<1>2. P!Honour(v)
  BY <1>1 DEF P!Honour, Live, Spent
<1> QED BY <1>2 DEF P!Next

\* Visits issue inside their transaction and redemptions wait for it; every step of
\* the composed campaign is a step of the promise or a stutter.
LEMMA VisitPromises == Shape /\ [CampaignNext]_campaignVars => [P!Next]_P!vars
<1> SUFFICES ASSUME Shape, [CampaignNext]_campaignVars PROVE [P!Next]_P!vars
  OBVIOUS
<1> USE DEF Shape, CampaignTypeOK, VoucherInv
<1>1. ASSUME UNCHANGED vouchers PROVE [P!Next]_P!vars
  BY <1>1 DEF vouchers, P!vars, Issued, Having
<1>4. CASE VoucherStep
  BY <1>4, CirculatePromises DEF VoucherStep
<1>5. CASE \E v \in Voucher : RedeemVoucher(v)
  BY <1>5, RedeemPromises DEF RedeemVoucher
<1>6. ASSUME NEW t \in Txn, VisitCommit(t) PROVE [P!Next]_P!vars
  <2>1. request[t].customer \in Customer
    BY <1>6, Committed
  <2>2. UNCHANGED vouchers \/ \E v \in Voucher, s \in ParticipantStatus :
                                  Issue(v, request[t].customer, s)
    BY <1>6, Committed DEF ParticipantStatus
  <2> QED BY <1>1, <2>1, <2>2, IssuePromises
<1>7. CASE /\ ~ VoucherStep /\ \A v \in Voucher : ~ RedeemVoucher(v)
           /\ \A t \in Txn : ~ VisitCommit(t)
  <2>1. UNCHANGED vouchers
    BY <1>7 DEF CampaignNext, campaignVars, JoinRead, JoinCreate, VisitBegin, VisitLock, VisitCheck,
                VisitRollback, SetStatus, NextDay
  <2> QED BY <1>1, <2>1
<1> QED BY <1>4, <1>5, <1>6, <1>7

\* Visits, joins, redemptions and stale requests together implement VoucherPromise
\* for the vouchers of the campaign, for any number of tills and customers.
THEOREM CampaignKeepsPromise == CampaignSpec => Promise
<1>1. CampaignInit => P!Init
  BY DEF CampaignInit, NoVouchers, P!Init, Having, Issued, Unissued
<1> QED BY <1>1, ShapeStays, VisitPromises, PTL DEF CampaignSpec, Promise, P!Spec

-----------------------------------------------------------------------------
(* What the wallet shows. *)

\* Once handed over or revoked, a voucher shows it, unless the stale save of a
\* "present" request made it EXPIRED after its time.
Shows(v, s) == voucher[v].status = s \/ (voucher[v].status = "expired" /\ v \in Overdue)

WalletInv ==
    /\ TypeOK
    /\ presenting \subseteq Issued
    /\ \A v \in Voucher : /\ handed[v] > 0 => Shows(v, "redeemed")
                          /\ v \in revoked => Shows(v, "cancelled")

\* A step that leaves the row, the histories and the clock of a voucher alone
\* leaves what it shows alone.
LEMMA ShownStays ==
    ASSUME WalletInv, NEW v \in Voucher,
           voucher'[v] = voucher[v], clock'[v] = clock[v], handed'[v] = handed[v],
           v \in revoked' => v \in revoked
    PROVE  /\ handed'[v] > 0 => Shows(v, "redeemed")'
           /\ v \in revoked' => Shows(v, "cancelled")'
BY DEF WalletInv, Shows, Overdue

\* WalletInv is inductive: only an ACTIVE voucher is redeemed or revoked, and an
\* ACTIVE one was neither before.
LEMMA WalletStep == WalletInv /\ [Next]_vars => WalletInv'
<1> SUFFICES ASSUME WalletInv, [Next]_vars PROVE WalletInv'
  OBVIOUS
<1> USE DEF Row, Unissued, Having, Issued
<1>1. ASSUME NEW v \in Voucher, NEW c \in Customer, NEW s \in {"completed", "in_progress"},
             Issue(v, c, s)
      PROVE  WalletInv'
  <2>1. TypeOK'
    BY <1>1, SelectionAssumption DEF Issue, WalletInv, TypeOK, ParticipantStatus
  <2>2. handed[v] = 0 /\ v \notin revoked
    BY <1>1 DEF Issue, WalletInv, TypeOK, Shows
  <2>3. \A w \in Voucher : w # v => voucher'[w] = voucher[w]
    BY <1>1 DEF Issue, WalletInv, TypeOK
  <2>4. presenting' \subseteq Issued'
    BY <1>1, SelectionAssumption DEF Issue, WalletInv, TypeOK
  <2> QED BY <1>1, <2>1, <2>2, <2>3, <2>4, ShownStays DEF Issue, WalletInv
<1>2. ASSUME NEW v \in Voucher, NEW i \in Item, SelectItem(v, i) PROVE WalletInv'
  <2>1. TypeOK' /\ presenting' \subseteq Issued'
    BY <1>2 DEF SelectItem, WalletInv, TypeOK
  <2>2. \A w \in Voucher : voucher'[w].status = voucher[w].status
    BY <1>2 DEF SelectItem, WalletInv, TypeOK
  <2> QED BY <1>2, <2>1, <2>2 DEF SelectItem, WalletInv, Shows, Overdue
<1>3. ASSUME NEW v \in Voucher, Redeem(v) PROVE WalletInv'
  <2>1. voucher[v].owner \in Customer /\ v \notin revoked
    BY <1>3 DEF Redeem, WalletInv, TypeOK, Shows
  <2>2. TypeOK' /\ presenting' \subseteq Issued' /\ voucher'[v].status = "redeemed"
    BY <1>3, <2>1 DEF Redeem, WalletInv, TypeOK, ParticipantStatus
  <2>3. \A w \in Voucher : w # v => voucher'[w] = voucher[w] /\ handed'[w] = handed[w]
    BY <1>3 DEF Redeem, WalletInv, TypeOK
  <2> QED BY <1>3, <2>1, <2>2, <2>3, ShownStays DEF Redeem, WalletInv, Shows
<1>4. ASSUME NEW v \in Voucher, RedeemLate(v) PROVE WalletInv'
  <2>1. TypeOK' /\ presenting' \subseteq Issued' /\ voucher'[v].status = "expired"
    BY <1>4 DEF RedeemLate, WalletInv, TypeOK
  <2>2. \A w \in Voucher : w # v => voucher'[w] = voucher[w]
    BY <1>4 DEF RedeemLate, WalletInv, TypeOK
  <2> QED BY <1>4, <2>1, <2>2, ShownStays DEF RedeemLate, WalletInv, Shows, Overdue
<1>5. ASSUME NEW v \in Voucher, Cancel(v) PROVE WalletInv'
  <2>1. TypeOK' /\ presenting' \subseteq Issued' /\ voucher'[v].status = "cancelled"
    BY <1>5 DEF Cancel, WalletInv, TypeOK
  <2>2. \A w \in Voucher : w # v => voucher'[w] = voucher[w]
    BY <1>5 DEF Cancel, WalletInv, TypeOK
  <2>3. ~ handed[v] > 0
    BY <1>5 DEF Cancel, WalletInv, Shows
  <2> QED BY <1>5, <2>1, <2>2, <2>3, ShownStays DEF Cancel, WalletInv, Shows
<1>6. ASSUME ExpireVouchers PROVE WalletInv'
  <2>1. TypeOK' /\ presenting' \subseteq Issued'
    BY <1>6 DEF ExpireVouchers, WalletInv, TypeOK
  <2>2. ASSUME NEW v \in Voucher
        PROVE  \/ voucher'[v] = voucher[v]
               \/ voucher'[v].status = "expired" /\ v \in Overdue
    BY <1>6 DEF ExpireVouchers, WalletInv, TypeOK
  <2> QED BY <1>6, <2>1, <2>2, ShownStays DEF ExpireVouchers, WalletInv, Shows, Overdue
<1>7. ASSUME NEW v \in Voucher, PresentRead(v) \/ PresentShow(v) PROVE WalletInv'
  <2>1. TypeOK' /\ presenting' \subseteq Issued'
    BY <1>7 DEF PresentRead, PresentShow, WalletInv, TypeOK
  <2> QED BY <1>7, <2>1 DEF PresentRead, PresentShow, WalletInv, Shows, Overdue
<1>8. ASSUME NEW v \in Voucher, PresentExpire(v) PROVE WalletInv'
  <2>1. TypeOK' /\ presenting' \subseteq Issued' /\ voucher'[v].status = "expired"
    BY <1>8 DEF PresentExpire, WalletInv, TypeOK
  <2>2. \A w \in Voucher : w # v => voucher'[w] = voucher[w]
    BY <1>8 DEF PresentExpire, WalletInv, TypeOK
  <2> QED BY <1>8, <2>1, <2>2, ShownStays DEF PresentExpire, WalletInv, Shows, Overdue
<1>9. ASSUME Warn PROVE WalletInv'
  <2>1. TypeOK' /\ presenting' \subseteq Issued'
    BY <1>9 DEF Warn, ClaimToWarn, Nudge, LoseTask, WalletInv, TypeOK
  <2> QED BY <1>9, <2>1 DEF Warn, ClaimToWarn, Nudge, LoseTask, WalletInv, Shows, Overdue
<1>10. ASSUME NEW v \in Voucher, Tick(v) PROVE WalletInv'
  <2>1. TypeOK' /\ presenting' \subseteq Issued' /\ Overdue \subseteq Overdue'
    BY <1>10 DEF Tick, WalletInv, TypeOK, Overdue
  <2> QED BY <1>10, <2>1 DEF Tick, WalletInv, Shows
<1>11. CASE UNCHANGED vars
  BY <1>11 DEF vars, WalletInv, TypeOK, Shows, Overdue
<1> QED BY <1>1, <1>2, <1>3, <1>4, <1>5, <1>6, <1>7, <1>8, <1>9, <1>10, <1>11
        DEF Next, Circulate

\* WalletInv holds of every reachable state.
LEMMA WalletHolds == Spec => []WalletInv
<1>1. Init => WalletInv
  BY DEF Init, NoVouchers, WalletInv, TypeOK, Issued, Having, Row, Unissued, ParticipantStatus
<1> QED BY <1>1, WalletStep, PTL DEF Spec

\* Whatever redemptions, cancellations, expiries and stale "present" requests
\* overlap, a handed-over voucher reads REDEEMED and a revoked one CANCELLED, or
\* EXPIRED once it is overdue; and every row stays well-typed.
THEOREM WalletTrue == Spec => []WalletReflectsReality
<1>1. WalletInv => WalletReflectsReality
  BY DEF WalletInv, WalletReflectsReality, Shows
<1> QED BY <1>1, WalletHolds, PTL

-----------------------------------------------------------------------------
(* The vouchers alone: any customer may be issued one at any time. *)

\* Whatever requests, managers, tasks and clocks do to any number of campaign
\* vouchers, each is honoured at most once and never revives: every step of the
\* detailed specification is a step of VoucherPromise or a stutter.
THEOREM KeepsPromise == Spec => Promise
<1>1. Init => P!Init
  BY DEF Init, NoVouchers, P!Init, Having, Issued, Unissued
<1>2. WalletInv /\ [Next]_vars => [P!Next]_P!vars
  <2> SUFFICES ASSUME WalletInv, [Next]_vars PROVE [P!Next]_P!vars
    OBVIOUS
  <2> USE DEF WalletInv
  <2>1. CASE \E v \in Voucher, c \in Customer, s \in {"completed", "in_progress"} :
                Issue(v, c, s)
    BY <2>1, IssuePromises
  <2>2. CASE \E v \in Voucher : Redeem(v)
    BY <2>2, RedeemPromises
  <2>3. CASE Circulate
    BY <2>3, CirculatePromises
  <2>4. CASE Warn \/ UNCHANGED vars
    BY <2>4 DEF Warn, ClaimToWarn, Nudge, LoseTask, vars, P!vars, Issued, Having
  <2> QED BY <2>1, <2>2, <2>3, <2>4 DEF Next
<1> QED BY <1>1, <1>2, WalletHolds, PTL DEF Spec, Promise, P!Spec

\* PromiseInv is inductive for the abstract steps, whatever the vouchers are.
LEMMA PromiseInductive == P!Spec => []P!PromiseInv
<1>1. P!Init => P!PromiseInv
  BY DEF P!Init, P!PromiseInv, P!TypeOK
<1>2. P!PromiseInv /\ [P!Next]_P!vars => P!PromiseInv'
  <2> SUFFICES ASSUME P!PromiseInv, [P!Next]_P!vars PROVE P!PromiseInv'
    OBVIOUS
  <2>1. CASE \E S \in SUBSET Voucher : P!Issue(S)
    BY <2>1 DEF P!Issue, P!PromiseInv, P!TypeOK
  <2>2. CASE \E S \in SUBSET Voucher : P!Lapse(S)
    BY <2>2 DEF P!Lapse, P!PromiseInv, P!TypeOK
  <2>3. CASE \E v \in Voucher : P!Honour(v)
    BY <2>3 DEF P!Honour, P!PromiseInv, P!TypeOK
  <2>4. CASE UNCHANGED P!vars
    BY <2>4 DEF P!vars, P!PromiseInv, P!TypeOK
  <2> QED BY <2>1, <2>2, <2>3, <2>4 DEF P!Next
<1> QED BY <1>1, <1>2, PTL DEF P!Spec

\* The reward of a campaign voucher is handed over at most once, whatever the
\* number of vouchers and the order of the steps.
THEOREM HonouredAtMostOnce == Spec => []P!HonouredOnce
<1>1. P!PromiseInv => P!HonouredOnce
  BY DEF P!PromiseInv, P!HonouredOnce
<1> QED BY <1>1, KeepsPromise, PromiseInductive, PTL DEF Promise

\* No step brings a spent campaign voucher back to life.
THEOREM SpentStaysSpent == Spec => P!SpentForGood
<1> DEFINE StaySpent == Spent \subseteq Spent' /\ Spent' \cap Live' = {}
<1>1. P!PromiseInv /\ [P!Next]_P!vars => [StaySpent]_P!vars
  <2> SUFFICES ASSUME P!PromiseInv, P!Next PROVE StaySpent
    OBVIOUS
  <2> QED BY DEF P!Next, P!Issue, P!Honour, P!Lapse, P!PromiseInv, Live, Spent
<1> QED BY <1>1, KeepsPromise, PromiseInductive, PTL DEF Promise, P!Spec, P!SpentForGood, Live, Spent
-----------------------------------------------------------------------------
(* The warning. *)

\* A task stands for a claim that was stamped and not yet answered.
WarnInv ==
    /\ TypeOK
    /\ \A v \in Voucher :
           /\ v \in queue => nudged[v] = 0
           /\ v \in queue \/ nudged[v] > 0 => v \in warned
           /\ nudged[v] <= 1

\* However claims, lost tasks and everything that moves a voucher overlap, its
\* owner is warned at most once: a claim is stamped with the task it queues.
THEOREM WarnedOnce == Spec => []WarnedAtMostOnce
<1>1. Init => WarnInv
  BY DEF Init, NoVouchers, WarnInv, TypeOK, Issued, Having, Row, Unissued, ParticipantStatus
<1>2. WarnInv /\ WalletInv /\ [Next]_vars => WarnInv'
  <2> SUFFICES ASSUME WarnInv, WalletInv, [Next]_vars PROVE WarnInv'
    OBVIOUS
  <2>1. TypeOK'
    BY WalletStep DEF WalletInv
  <2>2. CASE Warn
    <3>1. ASSUME NEW S \in SUBSET Voucher, ClaimToWarn(S) PROVE WarnInv'
      BY <3>1, <2>1 DEF ClaimToWarn, WarnInv, TypeOK
    <3>2. ASSUME NEW v \in Voucher, Nudge(v) PROVE WarnInv'
      BY <3>2, <2>1 DEF Nudge, WarnInv, TypeOK
    <3>3. ASSUME NEW v \in Voucher, LoseTask(v) PROVE WarnInv'
      BY <3>3, <2>1 DEF LoseTask, WarnInv, TypeOK
    <3> QED BY <2>2, <3>1, <3>2, <3>3 DEF Warn
  <2>3. CASE ~ Warn
    <3>1. UNCHANGED <<warned, queue, nudged>>
      BY <2>3 DEF Next, vars, Circulate, Issue, SelectItem, Redeem, RedeemLate, Cancel,
                  ExpireVouchers, PresentRead, PresentShow, PresentExpire, Tick
    <3> QED BY <2>1, <3>1 DEF WarnInv
  <2> QED BY <2>2, <2>3
<1>3. WarnInv => WarnedAtMostOnce
  BY DEF WarnInv, WarnedAtMostOnce
<1> QED BY <1>1, <1>2, <1>3, WalletHolds, PTL DEF Spec
=============================================================================
