----------------------------- MODULE LoyaltyCard -----------------------------
(***************************************************************************)
(* The durable loyalty cards of ONE program: apps/loyalty (services        *)
(* earning.py, redemption.py, program.py and the customer wallet view).    *)
(*                                                                         *)
(* A request handler (Txn) serves a staff award or a customer's points     *)
(* redemption in three steps, which is how the code runs them: the view    *)
(* reads the program row without a lock, the service takes the membership  *)
(* row FOR UPDATE and reads it, and the transaction commits what it        *)
(* computed from those two reads.  Everything else (owner edits, till      *)
(* redemptions, the wallet view, the clock) interleaves with those steps.  *)
(***************************************************************************)
EXTENDS Integers, FiniteSets

CONSTANTS
    Txn,            \* request handlers that award or redeem points
    Member,         \* memberships (unique per customer) of the program
    Config,         \* configurations the owner may save
    Quantity,       \* item quantities a staff member may enter
    PointsEarned,   \* point amounts a bill or a visit may be worth
    PointsAsked,    \* point amounts a customer may ask to redeem
    MaxRequests,    \* BOUND: requests that may ever start
    NoCap,          \* max_banked = NULL
    None            \* no lock holder, no request, no row read

ConfigRow == [type : {"points", "stamp", "visit"}, required : Nat \ {0},
              maxBanked : Nat \cup {NoCap}, minRedeem : Nat]

ASSUME ConfigAssumption == Config \subseteq ConfigRow
ASSUME AmountAssumption ==
    /\ Quantity \subseteq 1 .. 30         \* MAX_AWARD_QUANTITY
    /\ PointsEarned \subseteq Nat
    /\ PointsAsked \subseteq Nat
ASSUME NoneAssumption == None \notin Txn

VARIABLES
    program,    \* the LoyaltyProgram row: [status, conf]
    draft,      \* the program object a PATCH has read and not yet saved
    card,       \* LoyaltyMembership rows
    wallet,     \* LoyaltyVoucher rows of a membership, by order of issue
    ledger,     \* running sums of the membership's LoyaltyTransaction rows
    spent,      \* history: stamps and visits that completed cycles consumed
    lock,       \* holder of each membership's row lock
    stage,      \* "idle", "begun" (program read), "locked" (row read)
    request,    \* what a handler was asked and the program config it read
    seen,       \* what a handler read under the row lock
    started     \* requests started so far

requests == <<lock, stage, request, seen, started>>
vars == <<program, draft, card, wallet, ledger, spent, requests>>

Status == {"active", "paused", "archived"}
ProgramRow == [status : Status, conf : Config]
CardRow == [stamps : Nat, visits : Nat, points : Nat, cycle : Nat]
Wallet == [issued : Nat, active : SUBSET Nat, redeemed : SUBSET Nat,
           expired : SUBSET Nat, overdue : SUBSET Nat]
LedgerSums == [points : Int, stamps : Nat, visits : Nat, redeems : Nat]
Spent == [stamps : Nat, visits : Nat]
Request == [op : {"award", "redeem"}, member : Member, conf : Config, n : Nat]
Seen == [row : CardRow, banked : Nat]

TypeOK ==
    /\ program \in ProgramRow
    /\ draft \in ProgramRow \cup {None}
    /\ card \in [Member -> CardRow]
    /\ wallet \in [Member -> Wallet]
    /\ ledger \in [Member -> LedgerSums]
    /\ spent \in [Member -> Spent]
    /\ lock \in [Member -> Txn \cup {None}]
    /\ stage \in [Txn -> {"idle", "begun", "locked"}]
    /\ request \in [Txn -> Request \cup {None}]
    /\ seen \in [Txn -> Seen \cup {None}]
    /\ started \in Nat
    /\ \A t \in Txn : /\ stage[t] # "idle" => request[t] \in Request
                      /\ stage[t] = "locked" => seen[t] \in Seen

Init ==
    /\ program \in [status : {"active"}, conf : Config]
    /\ draft = None
    /\ card = [m \in Member |-> [stamps |-> 0, visits |-> 0, points |-> 0, cycle |-> 0]]
    /\ wallet = [m \in Member |-> [issued |-> 0, active |-> {}, redeemed |-> {},
                                   expired |-> {}, overdue |-> {}]]
    /\ ledger = [m \in Member |-> [points |-> 0, stamps |-> 0, visits |-> 0, redeems |-> 0]]
    /\ spent = [m \in Member |-> [stamps |-> 0, visits |-> 0]]
    /\ lock = [m \in Member |-> None]
    /\ stage = [t \in Txn |-> "idle"]
    /\ request = [t \in Txn |-> None]
    /\ seen = [t \in Txn |-> None]
    /\ started = 0

-----------------------------------------------------------------------------
(* The three steps of a request. *)

Start(t, r) ==
    /\ stage[t] = "idle"
    /\ started < MaxRequests
    /\ stage' = [stage EXCEPT ![t] = "begun"]
    /\ request' = [request EXCEPT ![t] = r]
    /\ started' = started + 1
    /\ UNCHANGED <<program, draft, card, wallet, ledger, spent, lock, seen>>

\* The view loads the program; award() tests that object, never the row again.
AwardBegin(t, m, q) ==
    /\ program.status = "active"
    /\ q > 1 => program.conf.type = "stamp"
    /\ Start(t, [op |-> "award", member |-> m, conf |-> program.conf, n |-> q])

\* get_object_or_404(..., status=ACTIVE), then redeem_points' own preconditions.
RedeemBegin(t, m, p) ==
    /\ program.status = "active"
    /\ program.conf.type = "points"
    /\ p > 0 /\ p >= program.conf.minRedeem
    /\ Start(t, [op |-> "redeem", member |-> m, conf |-> program.conf, n |-> p])

\* Mutant: a plain get() of the membership.
LockMembership_NoLock(t) ==
    LET m == request[t].member IN
    /\ stage[t] = "begun"
    /\ lock' = [lock EXCEPT ![m] = t]
    /\ stage' = [stage EXCEPT ![t] = "locked"]
    /\ seen' = [seen EXCEPT ![t] = [row |-> card[m],
                                    banked |-> Cardinality(wallet[m].active)]]
    /\ UNCHANGED <<program, draft, card, wallet, ledger, spent, request, started>>

\* select_for_update() on the membership, and the voucher count award() takes
\* under that lock.
LockMembership(t) ==
    LET m == request[t].member IN
    /\ stage[t] = "begun"
    /\ lock[m] = None
    /\ lock' = [lock EXCEPT ![m] = t]
    /\ stage' = [stage EXCEPT ![t] = "locked"]
    /\ seen' = [seen EXCEPT ![t] = [row |-> card[m],
                                    banked |-> Cardinality(wallet[m].active)]]
    /\ UNCHANGED <<program, draft, card, wallet, ledger, spent, request, started>>

\* Mutant: a transaction that is never closed.
Release_KeepLock(t) ==
    /\ stage' = [stage EXCEPT ![t] = "idle"]
    /\ request' = [request EXCEPT ![t] = None]
    /\ seen' = [seen EXCEPT ![t] = None]
    /\ UNCHANGED <<lock, started>>

\* Commit or rollback: the row lock is released, the handler is free.
Release(t) ==
    /\ lock' = [m \in Member |-> IF lock[m] = t THEN None ELSE lock[m]]
    /\ stage' = [stage EXCEPT ![t] = "idle"]
    /\ request' = [request EXCEPT ![t] = None]
    /\ seen' = [seen EXCEPT ![t] = None]
    /\ UNCHANGED started

\* mint_voucher, n times: the next n vouchers of the membership become ACTIVE.
Mint(w, n) ==
    [w EXCEPT !.issued = @ + n, !.active = @ \cup ((w.issued + 1) .. (w.issued + n))]

\* The while loop of award() ends after exactly n cycles: every cycle had its
\* stamps and a free place in the bank, and there is no stamp or no place left.
LoopEnds(n, stamps, conf, banked) ==
    /\ n * conf.required <= stamps
    /\ n > 0 /\ conf.maxBanked # NoCap => banked + n <= conf.maxBanked
    /\ stamps >= (n + 1) * conf.required
          => conf.maxBanked # NoCap /\ banked + n >= conf.maxBanked

AwardStamps(t) ==
    LET r == request[t]  m == r.member
        stamps == seen[t].row.stamps + r.n IN
    /\ r.conf.type = "stamp"
    /\ \E n \in 0 .. stamps :
        /\ LoopEnds(n, stamps, r.conf, seen[t].banked)
        /\ card' = [card EXCEPT ![m] =
             [seen[t].row EXCEPT !.stamps = stamps - n * r.conf.required,
                                 !.cycle = @ + n]]
        /\ wallet' = [wallet EXCEPT ![m] = Mint(@, n)]
        /\ ledger' = [ledger EXCEPT ![m].stamps = @ + r.n]
        /\ spent' = [spent EXCEPT ![m].stamps = @ + n * r.conf.required]

AwardVisit(t) ==
    LET r == request[t]  m == r.member
        visits == seen[t].row.visits + 1
        full == visits >= r.conf.required IN
    /\ r.conf.type = "visit"
    /\ card' = [card EXCEPT ![m] =
         IF full THEN [seen[t].row EXCEPT !.visits = visits - r.conf.required,
                                          !.cycle = @ + 1]
                 ELSE [seen[t].row EXCEPT !.visits = visits]]
    /\ wallet' = [wallet EXCEPT ![m] = Mint(@, IF full THEN 1 ELSE 0)]
    /\ ledger' = [ledger EXCEPT ![m].visits = @ + 1]
    /\ spent' = [spent EXCEPT ![m].visits = @ + (IF full THEN r.conf.required ELSE 0)]

\* p is what the visit, the bill or the customer's tier is worth.
AwardPoints(t) ==
    LET r == request[t]  m == r.member IN
    /\ r.conf.type = "points"
    /\ \E p \in PointsEarned :
        /\ card' = [card EXCEPT ![m] =
             [seen[t].row EXCEPT !.visits = @ + 1, !.points = @ + p]]
        /\ ledger' = [ledger EXCEPT ![m].points = @ + p, ![m].visits = @ + 1]
    /\ UNCHANGED <<wallet, spent>>

AwardCommit(t) ==
    /\ stage[t] = "locked" /\ request[t].op = "award"
    /\ AwardStamps(t) \/ AwardVisit(t) \/ AwardPoints(t)
    /\ Release(t)
    /\ UNCHANGED <<program, draft>>

\* Mutant: the balance is not looked at under the lock.
RedeemCommit_NoBalance(t) ==
    LET m == request[t].member  p == request[t].n IN
    /\ stage[t] = "locked" /\ request[t].op = "redeem"
    /\ card' = [card EXCEPT ![m].points = seen[t].row.points - p]
    /\ wallet' = [wallet EXCEPT ![m] = Mint(@, 1)]
    /\ ledger' = [ledger EXCEPT ![m].points = @ - p, ![m].redeems = @ + 1]
    /\ Release(t)
    /\ UNCHANGED <<program, draft, spent>>

\* redeem_points saves points_balance only (update_fields), mints one cashback
\* voucher and appends the REDEEM row.
RedeemCommit(t) ==
    LET m == request[t].member  p == request[t].n IN
    /\ stage[t] = "locked" /\ request[t].op = "redeem"
    /\ seen[t].row.points >= p
    /\ card' = [card EXCEPT ![m].points = seen[t].row.points - p]
    /\ wallet' = [wallet EXCEPT ![m] = Mint(@, 1)]
    /\ ledger' = [ledger EXCEPT ![m].points = @ - p, ![m].redeems = @ + 1]
    /\ Release(t)
    /\ UNCHANGED <<program, draft, spent>>

\* INSUFFICIENT_POINTS, raised under the lock.
RedeemRefuse(t) ==
    /\ stage[t] = "locked" /\ request[t].op = "redeem"
    /\ seen[t].row.points < request[t].n
    /\ Release(t)
    /\ UNCHANGED <<program, draft, card, wallet, ledger, spent>>

\* A missing bill, a database error or the death of the worker:
\* transaction.atomic rolls everything back.
Rollback(t) ==
    /\ stage[t] # "idle"
    /\ Release(t)
    /\ UNCHANGED <<program, draft, card, wallet, ledger, spent>>

-----------------------------------------------------------------------------
(* Vouchers leave the bank at the till, or through the wallet view. *)

\* redeem_voucher, whole under the voucher's row lock.  An overdue voucher is
\* refused, and the EXPIRED it is given is rolled back with the refusal.
RedeemVoucher(m, k) ==
    /\ k \in wallet[m].active \ wallet[m].overdue
    /\ wallet' = [wallet EXCEPT ![m].active = @ \ {k}, ![m].redeemed = @ \cup {k}]
    /\ UNCHANGED <<program, draft, card, ledger, spent, requests>>

\* The clock passes expires_at.
BecomeOverdue(m, k) ==
    /\ k \in wallet[m].active \ wallet[m].overdue
    /\ wallet' = [wallet EXCEPT ![m].overdue = @ \cup {k}]
    /\ UNCHANGED <<program, draft, card, ledger, spent, requests>>

\* CustomerVouchersView.get: the only place that expires loyalty vouchers.
WalletView(m) ==
    LET late == wallet[m].active \cap wallet[m].overdue IN
    /\ late # {}
    /\ wallet' = [wallet EXCEPT ![m].active = @ \ late, ![m].expired = @ \cup late]
    /\ UNCHANGED <<program, draft, card, ledger, spent, requests>>

-----------------------------------------------------------------------------
(* The owner. pause, activate and archive write the status column alone; a   *)
(* PATCH reads the row, and later saves every column of it.                  *)

SetStatus(s) ==
    /\ program' = [program EXCEPT !.status = s]
    /\ UNCHANGED <<draft, card, wallet, ledger, spent, requests>>

Pause == SetStatus("paused")
Activate == SetStatus("active")
Archive == SetStatus("archived")

UpdateRead ==
    /\ draft = None
    /\ draft' = program
    /\ UNCHANGED <<program, card, wallet, ledger, spent, requests>>

UpdateSave(c) ==
    /\ draft # None
    /\ program' = [draft EXCEPT !.conf = c]
    /\ draft' = None
    /\ UNCHANGED <<card, wallet, ledger, spent, requests>>

Next ==
    \/ \E t \in Txn :
        \/ \E m \in Member : \/ \E q \in Quantity : AwardBegin(t, m, q)
                             \/ \E p \in PointsAsked : RedeemBegin(t, m, p)
        \/ LockMembership(t)
        \/ AwardCommit(t)
        \/ RedeemCommit(t)
        \/ RedeemRefuse(t)
        \/ Rollback(t)
    \/ \E m \in Member : \/ WalletView(m)
                         \/ \E k \in wallet[m].active :
                                RedeemVoucher(m, k) \/ BecomeOverdue(m, k)
    \/ Pause \/ Activate \/ Archive \/ UpdateRead
    \/ \E c \in Config : UpdateSave(c)

Spec == Init /\ [][Next]_vars

\* The database grants a row lock to a waiter eventually, and a handler that
\* holds one goes on to commit or to refuse (it may also die: Rollback).
FairSpec ==
    /\ Spec
    /\ \A t \in Txn : /\ SF_vars(LockMembership(t))
                      /\ WF_vars(AwardCommit(t) \/ RedeemCommit(t) \/ RedeemRefuse(t))

-----------------------------------------------------------------------------
(* Properties. *)

\* The balance, the stamps and the visits on a card are what its append-only
\* ledger says it earned, less what was redeemed or what completed cycles
\* consumed: no award and no redemption is lost or counted twice, whatever
\* requests run at once on the same membership (earning.award, redeem_points).
CardMatchesLedger ==
    \A m \in Member :
        /\ card[m].points = ledger[m].points
        /\ card[m].stamps + spent[m].stamps = ledger[m].stamps
        /\ card[m].visits + spent[m].visits = ledger[m].visits

\* A voucher exists for every completed cycle and every REDEEM ledger row, and
\* for nothing else (mint_voucher's callers).
VoucherPerCycle ==
    \A m \in Member : wallet[m].issued = card[m].cycle + ledger[m].redeems

\* Step t commits the award of a stamp program.
StampAwarded(t) ==
    /\ stage[t] = "locked" /\ request[t].op = "award"
    /\ request[t].conf.type = "stamp"
    /\ ledger' # ledger /\ stage'[t] = "idle"

\* A stamp award that mints leaves no more ACTIVE vouchers on the membership
\* than the max_banked it was given, though the count it relies on was taken
\* when the lock was, and vouchers come and go meanwhile (award's while loop).
BankCapRespected ==
    [][\A t \in Txn : StampAwarded(t) =>
          LET m == request[t].member  cap == request[t].conf.maxBanked IN
          cap # NoCap /\ wallet'[m].issued > wallet[m].issued
              => Cardinality(wallet'[m].active) <= cap]_vars

\* No stamp or visit card the owner may set up asks for less than c does.
Cheapest(c) ==
    \A d \in Config : d.type # "points" => c.required <= d.required

\* Nobody has more vouchers than the stamps and visits of the ledger pay for, at
\* the lowest required_count the owner may set and beside those still on the card;
\* cashback vouchers are paid in points.  Awards race, and the owner retypes and
\* reprices the program between the read an award decides on and its commit.
VouchersEarned ==
    \A m \in Member, c \in Config :
        Cheapest(c) =>
            (wallet[m].issued - ledger[m].redeems) * c.required + card[m].stamps + card[m].visits
                <= ledger[m].stamps + ledger[m].visits

\* Every request is answered: no handler waits for a membership for ever, none
\* finds itself unable to commit.
RequestsEnd == \A t \in Txn : stage[t] # "idle" ~> stage[t] = "idle"
=============================================================================
