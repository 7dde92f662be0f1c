------------------------------ MODULE WebPage ------------------------------
(***************************************************************************)
(* What the owner's and the customer's pages have in common: a mounted     *)
(* page with its local state, the rows of the server it works on, the      *)
(* cached answers of its queries, and its mutations under way.             *)
(*                                                                         *)
(* A mutation is sent, served by its handler and answered; a handler that  *)
(* saves a row it loaded earlier is served in two steps.  An answer may be *)
(* lost before or after the handler ran.  The hook's own callbacks always  *)
(* run; a component's callbacks run only while it is mounted and has not   *)
(* sent the same mutation again.                                           *)
(***************************************************************************)
EXTENDS Naturals, Sequences, FiniteSets

CONSTANTS
    CallIds,   \* bound: mutations under way at one time
    None

ASSUME WebPageAssumption == IsFiniteSet(CallIds) /\ CallIds # {}
ASSUME NothingIsNoNumber == None \notin Nat

VARIABLES
    page,   \* the page that is mounted
    ui,     \* its local state
    srv,    \* the server's rows it works on, and what is remembered of them
    seen,   \* its queries: the cached answer and the fetch under way
    calls   \* its mutations under way

pageVars == <<page, ui, srv, seen, calls>>

NoCall == [op |-> "none", at |-> "gone", arg |-> None, phase |-> "sent", row |-> None]

NoCalls == [i \in CallIds |-> NoCall]

-----------------------------------------------------------------------------
(* Mutations *)

Unused == {i \in CallIds : calls[i] = NoCall}

IsBusy(op, at) == \E i \in CallIds : calls[i].op = op /\ calls[i].at = at
AnyBusy(ops, at) == \E op \in ops : IsBusy(op, at)
Quiet == calls = NoCalls

\* The component `at` sends a mutation; it follows only its last call of each.
Called(i, op, at, arg, cs) ==
    [j \in CallIds |->
        IF j = i THEN [NoCall EXCEPT !.op = op, !.at = at, !.arg = arg]
        ELSE IF cs[j].op = op /\ cs[j].at = at THEN [cs[j] EXCEPT !.at = "gone"]
        ELSE cs[j]]

Call(op, at, arg) == \E i \in Unused : calls' = Called(i, op, at, arg, calls)

\* These components are unmounted: their callbacks will not run.
Gone(ats) == [i \in CallIds |-> IF calls[i].at \in ats THEN [calls[i] EXCEPT !.at = "gone"] ELSE calls[i]]

Here(i) == calls[i].at # "gone"

Dropped(i) == [calls EXCEPT ![i] = NoCall]

\* The handler of call i runs: it leaves the rows s and answers.
ServedWith(i, s, answer) ==
    /\ calls[i].phase \in {"sent", "row"}
    /\ srv' = s
    /\ calls' = [calls EXCEPT ![i].phase = "ok", ![i].row = answer]
    /\ UNCHANGED <<page, ui, seen>>

\* The page does not use what it answers.
Served(i, s) == ServedWith(i, s, None)

\* The handler has loaded what it will save.
Loaded(i, row) ==
    /\ calls[i].phase = "sent"
    /\ calls' = [calls EXCEPT ![i].phase = "row", ![i].row = row]
    /\ UNCHANGED <<page, ui, srv, seen>>

-----------------------------------------------------------------------------
(* Queries *)

Cached(v) == [data |-> v, stale |-> FALSE, fetch |-> "no", got |-> None, bad |-> FALSE, missed |-> FALSE]
Fetching(v) == [Cached(v) EXCEPT !.stale = TRUE, !.fetch = "sent"]

\* Invalidated queries are stale.  Those in use are fetched again at once, and a
\* fetch under way is given up; of one that is not in use the fetch under way
\* goes on, and will end as fresh, whenever it was read: `missed` remembers it.
Invalidated(keys, inUse, queries) ==
    [k \in DOMAIN queries |->
        IF k \notin keys THEN queries[k]
        ELSE IF k \in inUse THEN [queries[k] EXCEPT !.stale = TRUE, !.fetch = "sent", !.got = None]
        ELSE [queries[k] EXCEPT !.stale = TRUE, !.missed = @ \/ queries[k].fetch = "read"]]

\* A component that uses the query mounts.
Used(k, queries) ==
    IF queries[k].stale /\ queries[k].fetch = "no" THEN [queries EXCEPT ![k].fetch = "sent"] ELSE queries

\* A mutation's answer is written into the cache; a fetch under way goes on.
WrittenTo(k, v, queries) == [queries EXCEPT ![k].data = v, ![k].stale = FALSE, ![k].bad = FALSE]

FetchRead(k, view) ==
    /\ seen[k].fetch = "sent"
    /\ seen' = [seen EXCEPT ![k].fetch = "read", ![k].got = view, ![k].missed = FALSE]
    /\ UNCHANGED <<page, ui, srv, calls>>

\* Queries that answers of mutations are written into, in the order they come:
\* nothing is said of how current they are.
WrittenKeys == {"me", "notices", "session", "voucher"}

\* The rows have changed and nothing refreshes the queries: `missed` remembers it
\* until a fetch reads again.
MissedBy(queries) ==
    [k \in DOMAIN queries |-> IF k \in WrittenKeys THEN queries[k] ELSE [queries[k] EXCEPT !.missed = TRUE]]

\* An answer is lost, perhaps after its handler ran.
Missed(i) == IF calls[i].phase = "ok" THEN MissedBy(seen) ELSE seen

Arrived(k) == [seen EXCEPT ![k] = [Cached(seen[k].got) EXCEPT !.missed = seen[k].missed]]

\* The data of a failed fetch stays in the cache.
FetchFailed(k) == [seen EXCEPT ![k].fetch = "no", ![k].got = None, ![k].bad = TRUE]

Calm == \A k \in DOMAIN seen : seen[k].fetch = "no"

Ui(new) == ui' = new /\ UNCHANGED <<page, srv, seen, calls>>
SendOnly(op, at, arg) == Call(op, at, arg) /\ UNCHANGED <<page, ui, srv, seen>>

=============================================================================
