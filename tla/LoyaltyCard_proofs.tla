------------------------- MODULE LoyaltyCard_proofs -------------------------
(***************************************************************************)
(* Proofs about LoyaltyCard for any number of handlers, memberships and    *)
(* configurations.  The row lock is what everything rests on: LockInv says *)
(* that what a handler read under the lock is still what the row holds     *)
(* when the handler commits.                                               *)
(***************************************************************************)
EXTENDS LoyaltyCard, FiniteSetTheorems, TLAPS

\* A handler past the lock holds the row it asked for, and that row has not
\* changed since it was read.
LockInv ==
    \A t \in Txn : stage[t] = "locked" =>
        /\ lock[request[t].member] = t
        /\ seen[t].row = card[request[t].member]

\* The bank can be counted.
FiniteBanks == \A m \in Member : IsFiniteSet(wallet[m].active)

-----------------------------------------------------------------------------
(* Typing. *)

\* What the loop takes from the card is a natural number of stamps.
LEMMA LoopLeavesNat ==
    ASSUME NEW conf \in ConfigRow, NEW stamps \in Nat, NEW banked \in Nat,
           NEW n \in Nat, LoopEnds(n, stamps, conf, banked)
    PROVE  /\ n * conf.required \in Nat
           /\ stamps - n * conf.required \in Nat
  <1>1. conf.required \in Nat
    BY DEF ConfigRow
  <1>2. n * conf.required \in Nat
    BY <1>1
  <1>. QED
    BY <1>2 DEF LoopEnds

\* A minted wallet is a wallet.
LEMMA MintType ==
    ASSUME NEW w \in Wallet, NEW n \in Nat
    PROVE  Mint(w, n) \in Wallet
  <1>1. (w.issued + 1) .. (w.issued + n) \subseteq Nat
    BY DEF Wallet
  <1>2. w.issued + n \in Nat
    BY DEF Wallet
  <1>3. w.active \cup ((w.issued + 1) .. (w.issued + n)) \in SUBSET Nat
    BY <1>1 DEF Wallet
  <1>. QED
    BY <1>2, <1>3 DEF Mint, Wallet

\* The locks, stages and requests a commit or a rollback leaves are well-typed.
LEMMA ReleaseType ==
    ASSUME TypeOK, NEW t \in Txn, Release(t)
    PROVE  /\ lock' \in [Member -> Txn \cup {None}]
           /\ stage' \in [Txn -> {"idle", "begun", "locked"}]
           /\ request' \in [Txn -> Request \cup {None}]
           /\ seen' \in [Txn -> Seen \cup {None}]
           /\ started' \in Nat
           /\ \A u \in Txn : /\ stage'[u] # "idle" => request'[u] \in Request
                             /\ stage'[u] = "locked" => seen'[u] \in Seen
  BY DEF TypeOK, Release


\* The ways a commit rewrites a card all give a card.
LEMMA RowType ==
    ASSUME NEW row \in CardRow, NEW x \in Nat, NEW n \in Nat
    PROVE  /\ [row EXCEPT !.stamps = x, !.cycle = @ + n] \in CardRow
           /\ [row EXCEPT !.visits = x, !.cycle = @ + n] \in CardRow
           /\ [row EXCEPT !.visits = x] \in CardRow
           /\ [row EXCEPT !.visits = @ + 1, !.points = @ + x] \in CardRow
  <1>1. /\ row.cycle + n \in Nat /\ row.visits + 1 \in Nat /\ row.points + x \in Nat
        /\ row.stamps \in Nat /\ row.visits \in Nat /\ row.points \in Nat
        /\ row.cycle \in Nat
        /\ row = [stamps |-> row.stamps, visits |-> row.visits,
                  points |-> row.points, cycle |-> row.cycle]
    BY DEF CardRow
  <1>2. [row EXCEPT !.stamps = x, !.cycle = @ + n] \in CardRow
    BY <1>1 DEF CardRow
  <1>3. [row EXCEPT !.visits = x, !.cycle = @ + n] \in CardRow
    BY <1>1 DEF CardRow
  <1>4. [row EXCEPT !.visits = x] \in CardRow
    BY <1>1 DEF CardRow
  <1>5. [row EXCEPT !.visits = @ + 1, !.points = @ + x] \in CardRow
    BY <1>1 DEF CardRow
  <1>. QED
    BY <1>2, <1>3, <1>4, <1>5

\* A step that only rewrites a wallet, into a wallet, keeps the types.
LEMMA WalletType ==
    ASSUME TypeOK, NEW m \in Member, NEW w \in Wallet,
           wallet' = [wallet EXCEPT ![m] = w],
           UNCHANGED <<program, draft, card, ledger, spent, requests>>
    PROVE  TypeOK'
  BY DEF TypeOK, requests

\* Every step keeps the tables and the handlers well-typed.
LEMMA TypeStep == TypeOK /\ FiniteBanks /\ [Next]_vars => TypeOK'
  <1>. SUFFICES ASSUME TypeOK, FiniteBanks, [Next]_vars PROVE TypeOK'
    OBVIOUS
  <1>1. ASSUME NEW t \in Txn, NEW r \in Request, Start(t, r) PROVE TypeOK'
    BY <1>1 DEF Start, TypeOK
  <1>2. ASSUME NEW t \in Txn, NEW m \in Member, NEW q \in Quantity,
               AwardBegin(t, m, q)
        PROVE TypeOK'
    <2>1. q \in Nat /\ program.conf \in Config
      BY AmountAssumption DEF TypeOK, ProgramRow
    <2>2. [op |-> "award", member |-> m, conf |-> program.conf, n |-> q] \in Request
      BY <2>1 DEF Request
    <2>. QED
      BY <1>1, <1>2, <2>2 DEF AwardBegin
  <1>3. ASSUME NEW t \in Txn, NEW m \in Member, NEW p \in PointsAsked,
               RedeemBegin(t, m, p)
        PROVE TypeOK'
    <2>1. p \in Nat /\ program.conf \in Config
      BY AmountAssumption DEF TypeOK, ProgramRow
    <2>2. [op |-> "redeem", member |-> m, conf |-> program.conf, n |-> p] \in Request
      BY <2>1 DEF Request
    <2>. QED
      BY <1>1, <1>3, <2>2 DEF RedeemBegin
  <1>4. ASSUME NEW t \in Txn, LockMembership(t) PROVE TypeOK'
    <2>. DEFINE m == request[t].member
                s == [row |-> card[m], banked |-> Cardinality(wallet[m].active)]
    <2>1. m \in Member
      BY <1>4 DEF LockMembership, TypeOK, Request
    <2>2. s \in Seen
      BY <2>1, FS_CardinalityType DEF TypeOK, Seen, FiniteBanks
    <2>. QED
      BY <1>4, <2>1, <2>2 DEF LockMembership, TypeOK
  <1>5. ASSUME NEW t \in Txn, AwardCommit(t) PROVE TypeOK'
    <2>. DEFINE r == request[t]
                m == r.member
    <2>1. /\ m \in Member /\ r.n \in Nat /\ r.conf \in ConfigRow
          /\ seen[t].row \in CardRow /\ seen[t].banked \in Nat
      BY <1>5, ConfigAssumption DEF AwardCommit, TypeOK, Request, Seen
    <2>2. ASSUME AwardStamps(t)
          PROVE  /\ card' \in [Member -> CardRow] /\ wallet' \in [Member -> Wallet]
                 /\ ledger' \in [Member -> LedgerSums] /\ spent' \in [Member -> Spent]
      <3>. DEFINE stamps == seen[t].row.stamps + r.n
      <3>1. stamps \in Nat
        BY <2>1 DEF CardRow
      <3>2. PICK n \in 0 .. stamps :
               /\ LoopEnds(n, stamps, r.conf, seen[t].banked)
               /\ card' = [card EXCEPT ![m] =
                    [seen[t].row EXCEPT !.stamps = stamps - n * r.conf.required,
                                        !.cycle = @ + n]]
               /\ wallet' = [wallet EXCEPT ![m] = Mint(@, n)]
               /\ ledger' = [ledger EXCEPT ![m].stamps = @ + r.n]
               /\ spent' = [spent EXCEPT ![m].stamps = @ + n * r.conf.required]
        BY <2>2 DEF AwardStamps
      <3>3. n \in Nat /\ n * r.conf.required \in Nat /\ stamps - n * r.conf.required \in Nat
        BY <2>1, <3>1, <3>2, LoopLeavesNat
      <3>. DEFINE used == n * r.conf.required
                  left == stamps - used
      <3>4. used \in Nat /\ left \in Nat
        BY <3>3
      <3>. HIDE DEF used, left, stamps
      <3>5. [seen[t].row EXCEPT !.stamps = left, !.cycle = @ + n] \in CardRow
        BY <2>1, <3>3, <3>4, RowType
      <3>6. card' \in [Member -> CardRow]
        BY <2>1, <3>2, <3>5 DEF TypeOK, left, used
      <3>7. wallet' \in [Member -> Wallet]
        BY <2>1, <3>2, <3>3, MintType DEF TypeOK
      <3>8. ledger' \in [Member -> LedgerSums]
        BY <2>1, <3>2 DEF TypeOK, LedgerSums
      <3>9. spent' = [spent EXCEPT ![m].stamps = @ + used]
        BY <3>2 DEF used
      <3>10. spent' \in [Member -> Spent]
        BY <2>1, <3>4, <3>9 DEF TypeOK, Spent
      <3>. QED
        BY <3>6, <3>7, <3>8, <3>10
    <2>3. ASSUME AwardVisit(t)
          PROVE  /\ card' \in [Member -> CardRow] /\ wallet' \in [Member -> Wallet]
                 /\ ledger' \in [Member -> LedgerSums] /\ spent' \in [Member -> Spent]
      <3>. DEFINE visits == seen[t].row.visits + 1
                  full == visits >= r.conf.required
      <3>1. visits \in Nat /\ r.conf.required \in Nat
        BY <2>1 DEF CardRow, ConfigRow
      <3>2. (IF full THEN [seen[t].row EXCEPT !.visits = visits - r.conf.required,
                                              !.cycle = @ + 1]
                     ELSE [seen[t].row EXCEPT !.visits = visits]) \in CardRow
      <4>1. full => visits - r.conf.required \in Nat
        BY <3>1
      <4>. QED
        BY <2>1, <3>1, <4>1, RowType
      <3>3. card' \in [Member -> CardRow]
        BY <2>1, <2>3, <3>2 DEF AwardVisit, TypeOK
      <3>4. (IF full THEN 1 ELSE 0) \in Nat
        OBVIOUS
      <3>5. wallet' \in [Member -> Wallet]
        BY <2>1, <2>3, <3>4, MintType DEF AwardVisit, TypeOK
      <3>6. ledger' \in [Member -> LedgerSums]
        BY <2>1, <2>3 DEF AwardVisit, TypeOK, LedgerSums
      <3>7. spent' \in [Member -> Spent]
        BY <2>1, <2>3, <3>1 DEF AwardVisit, TypeOK, Spent
      <3>. QED
        BY <3>3, <3>5, <3>6, <3>7
    <2>4. ASSUME AwardPoints(t)
          PROVE  /\ card' \in [Member -> CardRow] /\ wallet' \in [Member -> Wallet]
                 /\ ledger' \in [Member -> LedgerSums] /\ spent' \in [Member -> Spent]
      <3>1. PICK p \in PointsEarned :
               /\ card' = [card EXCEPT ![m] =
                    [seen[t].row EXCEPT !.visits = @ + 1, !.points = @ + p]]
               /\ ledger' = [ledger EXCEPT ![m].points = @ + p, ![m].visits = @ + 1]
        BY <2>4 DEF AwardPoints
      <3>2. p \in Nat
        BY AmountAssumption
      <3>3. [seen[t].row EXCEPT !.visits = @ + 1, !.points = @ + p] \in CardRow
        BY <2>1, <3>2, RowType
      <3>4. card' \in [Member -> CardRow]
        BY <2>1, <3>1, <3>3 DEF TypeOK
      <3>5. ledger' \in [Member -> LedgerSums]
        BY <2>1, <3>1, <3>2 DEF TypeOK, LedgerSums
      <3>. QED
        BY <2>4, <3>4, <3>5 DEF AwardPoints, TypeOK
    <2>. QED
      BY <1>5, <2>2, <2>3, <2>4, ReleaseType DEF AwardCommit, TypeOK
  <1>6. ASSUME NEW t \in Txn, RedeemCommit(t) PROVE TypeOK'
    <2>. DEFINE m == request[t].member
                p == request[t].n
    <2>1. m \in Member /\ p \in Nat /\ seen[t].row \in CardRow
      BY <1>6 DEF RedeemCommit, TypeOK, Request, Seen
    <2>2. seen[t].row.points - p \in Nat
      BY <1>6, <2>1 DEF RedeemCommit, CardRow
    <2>3. card' \in [Member -> CardRow]
      BY <1>6, <2>1, <2>2 DEF RedeemCommit, TypeOK, CardRow
    <2>4. wallet' \in [Member -> Wallet]
      BY <1>6, <2>1, MintType DEF RedeemCommit, TypeOK
    <2>5. ledger' \in [Member -> LedgerSums]
      BY <1>6, <2>1 DEF RedeemCommit, TypeOK, LedgerSums
    <2>. QED
      BY <1>6, <2>3, <2>4, <2>5, ReleaseType DEF RedeemCommit, TypeOK
  <1>7. ASSUME NEW t \in Txn, RedeemRefuse(t) \/ Rollback(t) PROVE TypeOK'
    BY <1>7, ReleaseType DEF RedeemRefuse, Rollback, TypeOK
  <1>8. ASSUME NEW m \in Member, NEW k \in wallet[m].active, RedeemVoucher(m, k)
        PROVE TypeOK'
    <2>1. wallet[m] \in Wallet
      BY DEF TypeOK
    <2>. DEFINE w == [wallet[m] EXCEPT !.active = @ \ {k}, !.redeemed = @ \cup {k}]
    <2>2. w \in Wallet
      BY <2>1 DEF Wallet
    <2>3. wallet' = [wallet EXCEPT ![m] = w]
      BY <1>8, <2>1 DEF RedeemVoucher, TypeOK, Wallet
    <2>. QED
      BY <1>8, <2>2, <2>3, WalletType DEF RedeemVoucher
  <1>9. ASSUME NEW m \in Member, NEW k \in wallet[m].active, BecomeOverdue(m, k)
        PROVE TypeOK'
    <2>1. wallet[m] \in Wallet
      BY DEF TypeOK
    <2>. DEFINE w == [wallet[m] EXCEPT !.overdue = @ \cup {k}]
    <2>2. w \in Wallet
      BY <2>1 DEF Wallet
    <2>3. wallet' = [wallet EXCEPT ![m] = w]
      BY <1>9, <2>1 DEF BecomeOverdue, TypeOK, Wallet
    <2>. QED
      BY <1>9, <2>2, <2>3, WalletType DEF BecomeOverdue
  <1>10. ASSUME NEW m \in Member, WalletView(m) PROVE TypeOK'
    <2>1. wallet[m] \in Wallet
      BY DEF TypeOK
    <2>. DEFINE late == wallet[m].active \cap wallet[m].overdue
                w == [wallet[m] EXCEPT !.active = @ \ late, !.expired = @ \cup late]
    <2>2. w \in Wallet
      BY <2>1 DEF Wallet
    <2>3. wallet' = [wallet EXCEPT ![m] = w]
      BY <1>10, <2>1 DEF WalletView, TypeOK, Wallet
    <2>. QED
      BY <1>10, <2>2, <2>3, WalletType DEF WalletView
  <1>11. CASE Pause \/ Activate \/ Archive
    BY <1>11 DEF Pause, Activate, Archive, SetStatus, TypeOK, requests, ProgramRow, Status
  <1>12. CASE UpdateRead
    BY <1>12 DEF UpdateRead, TypeOK, requests
  <1>13. ASSUME NEW c \in Config, UpdateSave(c) PROVE TypeOK'
    BY <1>13 DEF UpdateSave, TypeOK, requests, ProgramRow
  <1>14. CASE UNCHANGED vars
    BY <1>14 DEF vars, requests, TypeOK
  <1>. QED
    BY <1>2, <1>3, <1>4, <1>5, <1>6, <1>7, <1>8, <1>9, <1>10, <1>11, <1>12, <1>13, <1>14
       DEF Next

\* Minting adds at most n vouchers to a finite bank.
LEMMA MintBank ==
    ASSUME NEW w \in Wallet, NEW n \in Nat, IsFiniteSet(w.active)
    PROVE  /\ IsFiniteSet(Mint(w, n).active)
           /\ Cardinality(Mint(w, n).active) <= Cardinality(w.active) + n
  <1>. DEFINE fresh == (w.issued + 1) .. (w.issued + n)
  <1>1. Mint(w, n).active = w.active \cup fresh
    BY DEF Mint, Wallet
  <1>2. w.issued \in Nat
    BY DEF Wallet
  <1>3. IsFiniteSet(fresh) /\ Cardinality(fresh) = n
    <2>. DEFINE a == w.issued + 1
                b == w.issued + n
    <2>1. a \in Int /\ b \in Int /\ (IF a > b THEN 0 ELSE b - a + 1) = n
      BY <1>2
    <2>2. /\ IsFiniteSet(a .. b)
          /\ Cardinality(a .. b) = IF a > b THEN 0 ELSE b - a + 1
      <3>. HIDE DEF a, b
      <3>. QED
        BY <2>1, FS_Interval
    <2>. QED
      BY <2>1, <2>2
  <1>. HIDE DEF fresh
  <1>4. IsFiniteSet(w.active \cup fresh)
    BY <1>3, FS_Union
  <1>5. Cardinality(w.active \cup fresh)
          = Cardinality(w.active) + Cardinality(fresh) - Cardinality(w.active \cap fresh)
    BY <1>3, FS_Union
  <1>6. IsFiniteSet(w.active \cap fresh)
    BY FS_Subset
  <1>7. /\ Cardinality(w.active) \in Nat /\ Cardinality(w.active \cap fresh) \in Nat
    BY <1>6, FS_CardinalityType
  <1>. QED
    BY <1>1, <1>3, <1>4, <1>5, <1>7

\* What a commit does to the wallets: it mints n vouchers on the membership of
\* the request, or it leaves them alone.
LEMMA CommitMints ==
    ASSUME TypeOK, NEW t \in Txn, AwardCommit(t) \/ RedeemCommit(t)
    PROVE  /\ stage[t] = "locked"
           /\ request[t].member \in Member
           /\ \E n \in Nat :
                wallet' = [wallet EXCEPT ![request[t].member] = Mint(@, n)]
  <1>1. stage[t] = "locked"
    BY DEF AwardCommit, RedeemCommit
  <1>2. request[t] \in Request /\ seen[t] \in Seen
    BY <1>1 DEF TypeOK
  <1>3. /\ request[t].member \in Member /\ request[t].n \in Nat
        /\ seen[t].row.stamps \in Nat
    BY <1>2 DEF Request, Seen, CardRow
  <1>. DEFINE m == request[t].member
              Minted(n) == wallet' = [wallet EXCEPT ![m] = Mint(@, n)]
  <1>4. CASE RedeemCommit(t)
    <2>1. Minted(1)
      BY <1>4 DEF RedeemCommit
    <2>. QED
      BY <1>1, <1>3, <2>1
  <1>5. CASE AwardCommit(t)
    <2>1. ASSUME AwardStamps(t) PROVE \E n \in Nat : Minted(n)
      <3>1. \E n \in 0 .. (seen[t].row.stamps + request[t].n) : Minted(n)
        BY <2>1 DEF AwardStamps
      <3>2. 0 .. (seen[t].row.stamps + request[t].n) \subseteq Nat
        BY <1>3
      <3>. HIDE DEF Minted
      <3>. QED
        BY <3>1, <3>2
    <2>2. ASSUME AwardVisit(t) PROVE \E n \in Nat : Minted(n)
      BY <2>2 DEF AwardVisit
    <2>3. ASSUME AwardPoints(t) PROVE \E n \in Nat : Minted(n)
      <3>1. ASSUME NEW w \in Wallet PROVE Mint(w, 0) = w
        <4>1. w.issued + 0 = w.issued /\ (w.issued + 1) .. (w.issued + 0) = {}
          BY DEF Wallet
        <4>. QED
          BY <4>1 DEF Mint, Wallet
      <3>2. Minted(0)
        BY <1>3, <2>3, <3>1 DEF AwardPoints, TypeOK
      <3>. QED
        BY <3>2
    <2>. QED
      BY <1>1, <1>3, <1>5, <2>1, <2>2, <2>3 DEF AwardCommit
  <1>. QED
    BY <1>4, <1>5

\* Between commits the bank only shrinks.
LEMMA BankShrinks ==
    ASSUME TypeOK, [Next]_vars,
           \A t \in Txn : ~ AwardCommit(t) /\ ~ RedeemCommit(t)
    PROVE  \A m \in Member : wallet'[m].active \subseteq wallet[m].active
  <1>1. ASSUME NEW m \in Member, NEW k \in wallet[m].active,
               RedeemVoucher(m, k) \/ BecomeOverdue(m, k)
        PROVE  \A u \in Member : wallet'[u].active \subseteq wallet[u].active
    <2>1. wallet \in [Member -> Wallet]
      BY DEF TypeOK
    <2>. QED
      BY <1>1, <2>1 DEF RedeemVoucher, BecomeOverdue, Wallet
  <1>2. ASSUME NEW m \in Member, WalletView(m)
        PROVE  \A u \in Member : wallet'[u].active \subseteq wallet[u].active
    <2>1. wallet \in [Member -> Wallet]
      BY DEF TypeOK
    <2>. QED
      BY <1>2, <2>1 DEF WalletView, Wallet
  <1>3. ASSUME UNCHANGED wallet
        PROVE  \A u \in Member : wallet'[u].active \subseteq wallet[u].active
    BY <1>3
  <1>. QED
    BY <1>1, <1>2, <1>3
       DEF Next, vars, AwardBegin, RedeemBegin, Start, LockMembership, RedeemRefuse,
           Rollback, Pause, Activate, Archive, SetStatus, UpdateRead, UpdateSave

\* Every step keeps the bank of each membership finite.
LEMMA FiniteStep == TypeOK /\ FiniteBanks /\ [Next]_vars => FiniteBanks'
  <1>. SUFFICES ASSUME TypeOK, FiniteBanks, [Next]_vars PROVE FiniteBanks'
    OBVIOUS
  <1>1. ASSUME NEW t \in Txn, AwardCommit(t) \/ RedeemCommit(t)
        PROVE  FiniteBanks'
    <2>1. PICK n \in Nat : wallet' = [wallet EXCEPT ![request[t].member] = Mint(@, n)]
      BY <1>1, CommitMints
    <2>. QED
      BY <2>1, MintBank DEF FiniteBanks, TypeOK
  <1>2. ASSUME \A t \in Txn : ~ AwardCommit(t) /\ ~ RedeemCommit(t)
        PROVE  FiniteBanks'
    BY <1>2, BankShrinks, FS_Subset DEF FiniteBanks
  <1>. QED
    BY <1>1, <1>2

\* A new program, without cards or vouchers, is well-typed and its banks are empty.
LEMMA InitTyped == Init => TypeOK /\ FiniteBanks
  <1>. SUFFICES ASSUME Init PROVE TypeOK /\ FiniteBanks
    OBVIOUS
  <1>1. TypeOK
    BY DEF Init, TypeOK, ProgramRow, Status, CardRow, Wallet, LedgerSums, Spent
  <1>2. FiniteBanks
    BY FS_EmptySet DEF Init, FiniteBanks
  <1>. QED
    BY <1>1, <1>2

\* Every table of the program keeps its columns in their domains: balances,
\* stamps and visits never go below zero, whatever requests run at once.
THEOREM TypeCorrect == Spec => []TypeOK
  <1>1. Spec => [](TypeOK /\ FiniteBanks)
    BY InitTyped, TypeStep, FiniteStep, PTL DEF Spec
  <1>. QED
    BY <1>1, PTL

-----------------------------------------------------------------------------
(* The row lock. *)

\* A commit rewrites the tables of the membership of its request only.
LEMMA CommitIsLocal ==
    ASSUME TypeOK, NEW t \in Txn, AwardCommit(t) \/ RedeemCommit(t),
           NEW u \in Member, u # request[t].member
    PROVE  card'[u] = card[u] /\ wallet'[u] = wallet[u]
           /\ ledger'[u] = ledger[u] /\ spent'[u] = spent[u]
  <1>. USE DEF TypeOK
  <1>1. CASE RedeemCommit(t)
    BY <1>1 DEF RedeemCommit
  <1>2. CASE AwardCommit(t) /\ AwardStamps(t)
    BY <1>2 DEF AwardStamps, AwardCommit
  <1>3. CASE AwardCommit(t) /\ AwardVisit(t)
    BY <1>3 DEF AwardVisit, AwardCommit
  <1>4. CASE AwardCommit(t) /\ AwardPoints(t)
    BY <1>4 DEF AwardPoints, AwardCommit
  <1>. QED
    BY <1>1, <1>2, <1>3, <1>4 DEF AwardCommit

\* Every step keeps what a handler read under a row lock equal to the row.
LEMMA LockStep == TypeOK /\ LockInv /\ [Next]_vars => LockInv'
  <1>. SUFFICES ASSUME TypeOK, LockInv, [Next]_vars,
                       NEW u \in Txn, stage'[u] = "locked"
                PROVE  /\ lock'[request'[u].member] = u
                       /\ seen'[u].row = card'[request'[u].member]
    BY DEF LockInv
  <1>1. ASSUME NEW t \in Txn, NEW r \in Request, Start(t, r)
        PROVE  /\ lock'[request'[u].member] = u
               /\ seen'[u].row = card'[request'[u].member]
    BY <1>1 DEF Start, LockInv, TypeOK
  <1>2. ASSUME NEW t \in Txn, LockMembership(t)
        PROVE  /\ lock'[request'[u].member] = u
               /\ seen'[u].row = card'[request'[u].member]
    <2>. DEFINE m == request[t].member
    <2>1. m \in Member
      BY <1>2 DEF LockMembership, TypeOK, Request
    <2>2. CASE u = t
      BY <1>2, <2>1, <2>2 DEF LockMembership, TypeOK
    <2>3. CASE u # t
      <3>1. stage[u] = "locked" /\ seen'[u] = seen[u] /\ request' = request /\ card' = card
        BY <1>2, <2>3 DEF LockMembership, TypeOK
      <3>2. lock[request[u].member] = u /\ lock[m] = None /\ lock' = [lock EXCEPT ![m] = t]
        BY <1>2, <3>1 DEF LockMembership, LockInv
      <3>3. request[u].member # m
        BY <3>2, NoneAssumption
      <3>. QED
        BY <3>1, <3>2, <3>3 DEF LockInv, TypeOK
    <2>. QED
      BY <2>2, <2>3
  <1>3. ASSUME NEW t \in Txn, Release(t), card' = card
        PROVE  /\ lock'[request'[u].member] = u
               /\ seen'[u].row = card'[request'[u].member]
    BY <1>3, NoneAssumption DEF Release, LockInv, TypeOK, Request
  <1>4. ASSUME NEW t \in Txn, AwardCommit(t) \/ RedeemCommit(t)
        PROVE  /\ lock'[request'[u].member] = u
               /\ seen'[u].row = card'[request'[u].member]
    <2>1. stage[t] = "locked" /\ Release(t)
      BY <1>4 DEF AwardCommit, RedeemCommit
    <2>2. u # t /\ stage[u] = "locked" /\ request'[u] = request[u] /\ seen'[u] = seen[u]
      BY <2>1 DEF Release, TypeOK
    <2>3. /\ lock[request[u].member] = u /\ lock[request[t].member] = t
          /\ request[u].member \in Member
      BY <2>1, <2>2 DEF LockInv, TypeOK, Request
    <2>4. card'[request[u].member] = card[request[u].member]
      BY <1>4, <2>2, <2>3, CommitIsLocal
    <2>5. lock'[request[u].member] = u
      BY <2>1, <2>2, <2>3 DEF Release
    <2>. QED
      BY <2>2, <2>4, <2>5 DEF LockInv
  <1>5. ASSUME UNCHANGED <<requests, card>>
        PROVE  /\ lock'[request'[u].member] = u
               /\ seen'[u].row = card'[request'[u].member]
    BY <1>5 DEF LockInv, requests
  <1>6. ASSUME NEW t \in Txn, NEW m \in Member, NEW q \in Quantity, AwardBegin(t, m, q)
        PROVE  \E r \in Request : Start(t, r)
    <2>1. q \in Nat /\ program.conf \in Config
      BY AmountAssumption DEF TypeOK, ProgramRow
    <2>. QED
      BY <1>6, <2>1 DEF AwardBegin, Request
  <1>7. ASSUME NEW t \in Txn, NEW m \in Member, NEW p \in PointsAsked, RedeemBegin(t, m, p)
        PROVE  \E r \in Request : Start(t, r)
    <2>1. p \in Nat /\ program.conf \in Config
      BY AmountAssumption DEF TypeOK, ProgramRow
    <2>. QED
      BY <1>7, <2>1 DEF RedeemBegin, Request
  <1>. QED
    BY <1>1, <1>2, <1>3, <1>4, <1>5, <1>6, <1>7
       DEF Next, vars, RedeemRefuse, Rollback, RedeemVoucher, BecomeOverdue, WalletView,
           Pause, Activate, Archive, SetStatus, UpdateRead, UpdateSave

\* At first no handler holds a row lock.
LEMMA InitLocked == Init => LockInv
  BY DEF Init, LockInv

-----------------------------------------------------------------------------
(* The card and its ledger. *)

\* One membership balances.
Balanced(m) ==
    /\ card[m].points = ledger[m].points
    /\ card[m].stamps + spent[m].stamps = ledger[m].stamps
    /\ card[m].visits + spent[m].visits = ledger[m].visits
    /\ wallet[m].issued = card[m].cycle + ledger[m].redeems

BooksInv == \A m \in Member : Balanced(m)

\* A commit of t leaves the membership of t balanced: it adds to the row it
\* read, which is the row that is there.
LEMMA CommitBalances ==
    ASSUME TypeOK, LockInv, BooksInv, NEW t \in Txn, AwardCommit(t) \/ RedeemCommit(t),
           NEW m \in Member, m = request[t].member
    PROVE  Balanced(m)'
  <1>. DEFINE r == request[t]
              row == seen[t].row
  <1>1. stage[t] = "locked"
    BY DEF AwardCommit, RedeemCommit
  <1>2. r \in Request /\ seen[t] \in Seen
    BY <1>1 DEF TypeOK
  <1>3. /\ r.n \in Nat /\ r.conf \in ConfigRow
        /\ seen[t].banked \in Nat /\ row = card[m] /\ Balanced(m)
    BY <1>1, <1>2, ConfigAssumption DEF LockInv, BooksInv, Request, Seen
  <1>4. /\ card[m] \in CardRow /\ wallet[m] \in Wallet
        /\ ledger[m] \in LedgerSums /\ spent[m] \in Spent
    BY DEF TypeOK
  <1>5. /\ row.points \in Int /\ row.stamps \in Int /\ row.visits \in Int /\ row.cycle \in Int
        /\ wallet[m].issued \in Int /\ spent[m].stamps \in Int /\ spent[m].visits \in Int
        /\ ledger[m].points \in Int /\ ledger[m].stamps \in Int
        /\ ledger[m].visits \in Int /\ ledger[m].redeems \in Int
    BY <1>3, <1>4 DEF CardRow, Wallet, LedgerSums, Spent
  <1>6. \A n \in Nat : Mint(wallet[m], n).issued = wallet[m].issued + n
    BY <1>4 DEF Mint, Wallet
  <1>7. CASE RedeemCommit(t)
    <2>1. /\ card'[m] = [card[m] EXCEPT !.points = row.points - r.n]
          /\ wallet'[m] = Mint(wallet[m], 1)
          /\ ledger'[m] = [ledger[m] EXCEPT !.points = @ - r.n, !.redeems = @ + 1]
          /\ spent'[m] = spent[m]
      BY <1>3, <1>7 DEF RedeemCommit, TypeOK
    <2>2. /\ card'[m].points = row.points - r.n /\ card'[m].stamps = row.stamps
          /\ card'[m].visits = row.visits /\ card'[m].cycle = row.cycle
      BY <1>3, <1>4, <2>1 DEF CardRow
    <2>3. /\ ledger'[m].points = ledger[m].points - r.n
          /\ ledger'[m].stamps = ledger[m].stamps /\ ledger'[m].visits = ledger[m].visits
          /\ ledger'[m].redeems = ledger[m].redeems + 1
      BY <1>4, <2>1 DEF LedgerSums
    <2>4. wallet'[m].issued = wallet[m].issued + 1
      BY <1>6, <2>1
    <2>. QED
      BY <1>3, <1>5, <2>1, <2>2, <2>3, <2>4 DEF Balanced
  <1>8. CASE AwardCommit(t)
    <2>1. ASSUME AwardStamps(t) PROVE Balanced(m)'
      <3>. DEFINE stamps == row.stamps + r.n
      <3>1. PICK n \in 0 .. stamps :
               /\ LoopEnds(n, stamps, r.conf, seen[t].banked)
               /\ card' = [card EXCEPT ![m] =
                    [row EXCEPT !.stamps = stamps - n * r.conf.required,
                                !.cycle = @ + n]]
               /\ wallet' = [wallet EXCEPT ![m] = Mint(@, n)]
               /\ ledger' = [ledger EXCEPT ![m].stamps = @ + r.n]
               /\ spent' = [spent EXCEPT ![m].stamps = @ + n * r.conf.required]
        BY <2>1 DEF AwardStamps
      <3>2. stamps \in Nat
        BY <1>3, <1>4 DEF CardRow
      <3>3. n \in Nat /\ n * r.conf.required \in Nat
        BY <1>3, <3>1, <3>2, LoopLeavesNat
      <3>. DEFINE used == n * r.conf.required
      <3>4. /\ card'[m] = [row EXCEPT !.stamps = stamps - used, !.cycle = @ + n]
            /\ wallet'[m] = Mint(wallet[m], n)
            /\ ledger'[m] = [ledger[m] EXCEPT !.stamps = @ + r.n]
            /\ spent'[m] = [spent[m] EXCEPT !.stamps = @ + used]
        BY <3>1 DEF TypeOK
      <3>5. used \in Nat
        BY <3>3
      <3>. HIDE DEF used
      <3>6. /\ card'[m].points = row.points /\ card'[m].stamps = stamps - used
            /\ card'[m].visits = row.visits /\ card'[m].cycle = row.cycle + n
        BY <1>3, <1>4, <3>4 DEF CardRow
      <3>7. /\ ledger'[m].points = ledger[m].points
            /\ ledger'[m].stamps = ledger[m].stamps + r.n
            /\ ledger'[m].visits = ledger[m].visits
            /\ ledger'[m].redeems = ledger[m].redeems
        BY <1>4, <3>4 DEF LedgerSums
      <3>8. /\ spent'[m].stamps = spent[m].stamps + used
            /\ spent'[m].visits = spent[m].visits
        BY <1>4, <3>4 DEF Spent
      <3>9. wallet'[m].issued = wallet[m].issued + n
        BY <1>6, <3>3, <3>4
      <3>. QED
        BY <1>3, <1>5, <3>3, <3>5, <3>6, <3>7, <3>8, <3>9 DEF Balanced
    <2>2. ASSUME AwardVisit(t) PROVE Balanced(m)'
      <3>. DEFINE visits == row.visits + 1
                  full == visits >= r.conf.required
                  used == IF full THEN r.conf.required ELSE 0
                  done == IF full THEN 1 ELSE 0
      <3>1. /\ card'[m] = IF full THEN [row EXCEPT !.visits = visits - r.conf.required,
                                                   !.cycle = @ + 1]
                                  ELSE [row EXCEPT !.visits = visits]
            /\ wallet'[m] = Mint(wallet[m], done)
            /\ ledger'[m] = [ledger[m] EXCEPT !.visits = @ + 1]
            /\ spent'[m] = [spent[m] EXCEPT !.visits = @ + used]
        BY <2>2 DEF AwardVisit, TypeOK
      <3>2. r.conf.required \in Nat /\ used \in Nat /\ done \in Nat
        BY <1>3 DEF ConfigRow
      <3>3. /\ card'[m].points = row.points /\ card'[m].stamps = row.stamps
            /\ card'[m].visits = visits - used /\ card'[m].cycle = row.cycle + done
        <4>1. CASE full
          BY <1>3, <1>4, <3>1, <4>1 DEF CardRow
        <4>2. CASE ~ full
          BY <1>3, <1>4, <3>1, <4>2 DEF CardRow
        <4>. QED
          BY <4>1, <4>2
      <3>4. /\ ledger'[m].points = ledger[m].points
            /\ ledger'[m].stamps = ledger[m].stamps
            /\ ledger'[m].visits = ledger[m].visits + 1
            /\ ledger'[m].redeems = ledger[m].redeems
        BY <1>4, <3>1 DEF LedgerSums
      <3>. HIDE DEF used, done
      <3>5. /\ spent'[m].stamps = spent[m].stamps
            /\ spent'[m].visits = spent[m].visits + used
        BY <1>4, <3>1 DEF Spent
      <3>6. wallet'[m].issued = wallet[m].issued + done
        BY <1>6, <3>1, <3>2
      <3>. QED
        BY <1>3, <1>5, <3>2, <3>3, <3>4, <3>5, <3>6 DEF Balanced
    <2>3. ASSUME AwardPoints(t) PROVE Balanced(m)'
      <3>1. PICK p \in PointsEarned :
               /\ card' = [card EXCEPT ![m] =
                    [row EXCEPT !.visits = @ + 1, !.points = @ + p]]
               /\ ledger' = [ledger EXCEPT ![m].points = @ + p, ![m].visits = @ + 1]
        BY <2>3 DEF AwardPoints
      <3>2. p \in Nat
        BY AmountAssumption
      <3>3. /\ card'[m] = [row EXCEPT !.visits = @ + 1, !.points = @ + p]
            /\ ledger'[m] = [ledger[m] EXCEPT !.points = @ + p, !.visits = @ + 1]
            /\ wallet'[m] = wallet[m] /\ spent'[m] = spent[m]
        BY <2>3, <3>1 DEF TypeOK, AwardPoints
      <3>4. /\ card'[m].points = row.points + p /\ card'[m].stamps = row.stamps
            /\ card'[m].visits = row.visits + 1 /\ card'[m].cycle = row.cycle
        BY <1>3, <1>4, <3>3 DEF CardRow
      <3>5. /\ ledger'[m].points = ledger[m].points + p
            /\ ledger'[m].stamps = ledger[m].stamps
            /\ ledger'[m].visits = ledger[m].visits + 1
            /\ ledger'[m].redeems = ledger[m].redeems
        BY <1>4, <3>3 DEF LedgerSums
      <3>6. /\ wallet'[m].issued = wallet[m].issued /\ spent'[m].stamps = spent[m].stamps
            /\ spent'[m].visits = spent[m].visits
        BY <3>3
      <3>. QED
        BY <1>3, <1>5, <3>2, <3>4, <3>5, <3>6 DEF Balanced
    <2>. QED
      BY <1>8, <2>1, <2>2, <2>3 DEF AwardCommit
  <1>. QED
    BY <1>7, <1>8

\* Every step keeps the books of every membership balanced.
LEMMA BooksStep == TypeOK /\ LockInv /\ BooksInv /\ [Next]_vars => BooksInv'
  <1>. SUFFICES ASSUME TypeOK, LockInv, BooksInv, [Next]_vars, NEW u \in Member
                PROVE  Balanced(u)'
    BY DEF BooksInv
  <1>1. ASSUME NEW t \in Txn, AwardCommit(t) \/ RedeemCommit(t)
        PROVE  Balanced(u)'
    <2>1. CASE u = request[t].member
      BY <1>1, <2>1, CommitBalances
    <2>2. CASE u # request[t].member
      BY <1>1, <2>2, CommitIsLocal DEF BooksInv, Balanced
    <2>. QED
      BY <2>1, <2>2
  <1>2. ASSUME UNCHANGED <<card, ledger, spent>>, wallet'[u].issued = wallet[u].issued
        PROVE  Balanced(u)'
    BY <1>2 DEF BooksInv, Balanced
  <1>3. ASSUME NEW m \in Member, NEW k \in wallet[m].active,
               RedeemVoucher(m, k) \/ BecomeOverdue(m, k)
        PROVE  Balanced(u)'
    <2>1. wallet'[u].issued = wallet[u].issued
      <3>1. wallet \in [Member -> Wallet]
        BY DEF TypeOK
      <3>2. CASE RedeemVoucher(m, k)
        BY <3>1, <3>2 DEF RedeemVoucher, Wallet
      <3>3. CASE BecomeOverdue(m, k)
        BY <3>1, <3>3 DEF BecomeOverdue, Wallet
      <3>. QED
        BY <1>3, <3>2, <3>3
    <2>. QED
      BY <1>2, <1>3, <2>1 DEF RedeemVoucher, BecomeOverdue
  <1>4. ASSUME NEW m \in Member, WalletView(m)
        PROVE  Balanced(u)'
    <2>1. wallet'[u].issued = wallet[u].issued
      BY <1>4 DEF WalletView, TypeOK, Wallet
    <2>. QED
      BY <1>2, <1>4, <2>1 DEF WalletView
  <1>. QED
    BY <1>1, <1>2, <1>3, <1>4
       DEF Next, vars, AwardBegin, RedeemBegin, Start, LockMembership, RedeemRefuse,
           Rollback, Pause, Activate, Archive, SetStatus, UpdateRead, UpdateSave

\* The books of a card that earned nothing are balanced.
LEMMA InitBooks == Init => BooksInv
  BY DEF Init, BooksInv, Balanced

IInv == TypeOK /\ FiniteBanks /\ LockInv /\ BooksInv

\* The types, the locks and the books hold together in every reachable state.
LEMMA Inductive == Spec => []IInv
  <1>1. Init => IInv
    BY InitTyped, InitLocked, InitBooks DEF IInv
  <1>2. IInv /\ [Next]_vars => IInv'
    BY TypeStep, FiniteStep, LockStep, BooksStep DEF IInv
  <1>. QED
    BY <1>1, <1>2, PTL DEF Spec

\* No award and no points redemption is lost or counted twice: the card is
\* always what its append-only ledger says, less what completed cycles and
\* redemptions consumed (earning.award, redemption.redeem_points).
THEOREM CardsBalance == Spec => []CardMatchesLedger
  <1>1. IInv => CardMatchesLedger
    BY DEF IInv, BooksInv, Balanced, CardMatchesLedger
  <1>. QED
    BY <1>1, Inductive, PTL

\* Every voucher stands for one completed cycle or one REDEEM ledger row.
THEOREM VouchersBacked == Spec => []VoucherPerCycle
  <1>1. IInv => VoucherPerCycle
    BY DEF IInv, BooksInv, Balanced, VoucherPerCycle
  <1>. QED
    BY <1>1, Inductive, PTL

-----------------------------------------------------------------------------
(* The bank of vouchers. *)

\* Vouchers may leave the bank under a handler that counted it; none comes in.
BankInv ==
    \A t \in Txn : stage[t] = "locked" =>
        Cardinality(wallet[request[t].member].active) <= seen[t].banked

\* Every step keeps the count a handler took under the lock an upper bound of the bank.
LEMMA BankStep == IInv /\ BankInv /\ [Next]_vars => BankInv'
  <1>. SUFFICES ASSUME IInv, BankInv, [Next]_vars,
                       NEW u \in Txn, stage'[u] = "locked"
                PROVE  Cardinality(wallet'[request'[u].member].active) <= seen'[u].banked
    BY DEF BankInv
  <1>. USE DEF IInv
  <1>1. ASSUME NEW t \in Txn, AwardCommit(t) \/ RedeemCommit(t)
        PROVE  Cardinality(wallet'[request'[u].member].active) <= seen'[u].banked
    <2>1. stage[t] = "locked" /\ Release(t)
      BY <1>1 DEF AwardCommit, RedeemCommit
    <2>2. u # t /\ stage[u] = "locked" /\ request'[u] = request[u] /\ seen'[u] = seen[u]
      BY <2>1 DEF Release, TypeOK
    <2>3. /\ lock[request[u].member] = u /\ lock[request[t].member] = t
          /\ request[u].member \in Member
      BY <2>1, <2>2 DEF LockInv, TypeOK, Request
    <2>4. wallet'[request[u].member] = wallet[request[u].member]
      BY <1>1, <2>2, <2>3, CommitIsLocal
    <2>. QED
      BY <2>2, <2>4 DEF BankInv
  <1>2. ASSUME UNCHANGED wallet, NEW t \in Txn, LockMembership(t)
        PROVE  Cardinality(wallet'[request'[u].member].active) <= seen'[u].banked
    <2>1. CASE u = t
      <3>1. /\ request' = request
            /\ seen'[u].banked = Cardinality(wallet[request[u].member].active)
        BY <1>2, <2>1 DEF LockMembership, TypeOK
      <3>2. /\ request[u].member \in Member
        BY <1>2, <2>1 DEF LockMembership, TypeOK, Request
      <3>3. Cardinality(wallet[request[u].member].active) \in Nat
        BY <3>2, FS_CardinalityType DEF FiniteBanks
      <3>. QED
        BY <1>2, <3>1, <3>3
    <2>2. CASE u # t
      BY <1>2, <2>2 DEF LockMembership, TypeOK, BankInv
    <2>. QED
      BY <2>1, <2>2
  <1>3. ASSUME stage[u] = "locked", request'[u] = request[u], seen'[u] = seen[u],
               \A t \in Txn : ~ AwardCommit(t) /\ ~ RedeemCommit(t)
        PROVE  Cardinality(wallet'[request'[u].member].active) <= seen'[u].banked
    <2>. DEFINE m == request[u].member
    <2>1. m \in Member /\ seen[u].banked \in Nat
      BY <1>3 DEF TypeOK, Request, Seen
    <2>2. wallet'[m].active \subseteq wallet[m].active /\ IsFiniteSet(wallet[m].active)
      BY <1>3, <2>1, BankShrinks DEF FiniteBanks
    <2>3. /\ Cardinality(wallet'[m].active) <= Cardinality(wallet[m].active)
          /\ Cardinality(wallet'[m].active) \in Nat /\ Cardinality(wallet[m].active) \in Nat
      BY <2>2, FS_Subset, FS_CardinalityType
    <2>4. Cardinality(wallet[m].active) <= seen[u].banked
      BY <1>3 DEF BankInv
    <2>. QED
      BY <1>3, <2>1, <2>3, <2>4
  <1>4. ASSUME NEW t \in Txn, LockMembership(t) PROVE UNCHANGED wallet
    BY <1>4 DEF LockMembership
  <1>5. ASSUME \A t \in Txn : ~ LockMembership(t) /\ ~ AwardCommit(t) /\ ~ RedeemCommit(t)
        PROVE  stage[u] = "locked" /\ request'[u] = request[u] /\ seen'[u] = seen[u]
    <2>1. ASSUME NEW t \in Txn, NEW r, Start(t, r)
          PROVE  stage[u] = "locked" /\ request'[u] = request[u] /\ seen'[u] = seen[u]
      BY <2>1 DEF Start, TypeOK
    <2>2. ASSUME NEW t \in Txn, Release(t)
          PROVE  stage[u] = "locked" /\ request'[u] = request[u] /\ seen'[u] = seen[u]
      BY <2>2 DEF Release, TypeOK
    <2>. QED
      BY <1>5, <2>1, <2>2
         DEF Next, vars, requests, AwardBegin, RedeemBegin, RedeemRefuse, Rollback,
             RedeemVoucher, BecomeOverdue, WalletView, Pause, Activate, Archive,
             SetStatus, UpdateRead, UpdateSave
  <1>. QED
    BY <1>1, <1>2, <1>3, <1>4, <1>5

\* At first no handler has counted any bank.
LEMMA InitBank == Init => BankInv
  BY DEF Init, BankInv

\* The bound on the bank holds in every reachable state.
LEMMA BankInductive == Spec => [](IInv /\ BankInv)
  <1>1. Init => BankInv
    BY InitBank
  <1>2. IInv /\ BankInv /\ [Next]_vars => BankInv'
    BY BankStep
  <1>. QED
    BY <1>1, <1>2, Inductive, PTL DEF Spec

\* The step that answers a stamp award is that award's own commit.
LEMMA AwardedIsCommit ==
    ASSUME TypeOK, [Next]_vars, NEW t \in Txn, StampAwarded(t)
    PROVE  /\ AwardStamps(t) /\ stage[t] = "locked"
           /\ request[t].member \in Member /\ request[t].n \in Nat
           /\ request[t].conf \in ConfigRow /\ seen[t].banked \in Nat
           /\ seen[t].row \in CardRow
  <1>1. stage[t] = "locked" /\ request[t].op = "award" /\ request[t].conf.type = "stamp"
        /\ ledger' # ledger /\ stage'[t] = "idle"
    BY DEF StampAwarded
  <1>2. PICK u \in Txn : AwardCommit(u) \/ RedeemCommit(u)
    BY <1>1 DEF Next, vars, AwardBegin, RedeemBegin, Start, LockMembership, RedeemRefuse,
                Rollback, RedeemVoucher, BecomeOverdue, WalletView, Pause, Activate,
                Archive, SetStatus, UpdateRead, UpdateSave
  <1>3. Release(u)
    BY <1>2 DEF AwardCommit, RedeemCommit
  <1>4. u = t
    BY <1>1, <1>3 DEF Release, TypeOK
  <1>5. AwardCommit(t)
    BY <1>1, <1>2, <1>4 DEF RedeemCommit
  <1>6. AwardStamps(t)
    BY <1>1, <1>5 DEF AwardCommit, AwardVisit, AwardPoints
  <1>7. request[t] \in Request /\ seen[t] \in Seen
    BY <1>1 DEF TypeOK
  <1>. QED
    BY <1>1, <1>6, <1>7, ConfigAssumption DEF Request, Seen

\* A stamp award that mints never leaves more ACTIVE vouchers on a card than
\* the max_banked of the program it read (the while loop of earning.award).
THEOREM BankCap == Spec => BankCapRespected
  <1>1. ASSUME IInv, BankInv, [Next]_vars, NEW t \in Txn, StampAwarded(t),
               request[t].conf.maxBanked # NoCap,
               wallet'[request[t].member].issued > wallet[request[t].member].issued
        PROVE  Cardinality(wallet'[request[t].member].active) <= request[t].conf.maxBanked
    <2>. DEFINE r == request[t]
                m == request[t].member
                w == wallet[m]
                stamps == seen[t].row.stamps + r.n
    <2>1. TypeOK /\ FiniteBanks
      BY <1>1 DEF IInv
    <2>2. /\ AwardStamps(t) /\ stage[t] = "locked" /\ m \in Member
          /\ r.conf \in ConfigRow /\ seen[t].banked \in Nat
      BY <1>1, <2>1, AwardedIsCommit
    <2>3. /\ seen[t].row \in CardRow /\ r.n \in Nat
      BY <1>1, <2>1, AwardedIsCommit
    <2>4. stamps \in Nat
      BY <2>3 DEF CardRow
    <2>5. PICK n \in 0 .. stamps : /\ LoopEnds(n, stamps, r.conf, seen[t].banked)
                                   /\ wallet' = [wallet EXCEPT ![m] = Mint(@, n)]
      BY <2>2 DEF AwardStamps
    <2>6. /\ n \in Nat /\ w \in Wallet /\ IsFiniteSet(w.active)
          /\ wallet'[m] = Mint(w, n)
      BY <2>1, <2>2, <2>4, <2>5 DEF TypeOK, FiniteBanks
    <2>7. Mint(w, n).issued = w.issued + n /\ w.issued \in Nat
      BY <2>6 DEF Mint, Wallet
    <2>8. n > 0
      BY <1>1, <2>6, <2>7
    <2>9. r.conf.maxBanked \in Nat /\ seen[t].banked + n <= r.conf.maxBanked
      BY <1>1, <2>2, <2>5, <2>8 DEF LoopEnds, ConfigRow
    <2>10. Cardinality(w.active) <= seen[t].banked
      BY <1>1, <2>2 DEF BankInv
    <2>11. /\ Cardinality(Mint(w, n).active) <= Cardinality(w.active) + n
           /\ Cardinality(Mint(w, n).active) \in Nat /\ Cardinality(w.active) \in Nat
      BY <2>6, MintBank, FS_CardinalityType
    <2>. QED
      BY <2>2, <2>6, <2>9, <2>10, <2>11
  <1>2. IInv /\ BankInv /\ [Next]_vars =>
          [\A t \in Txn : StampAwarded(t) =>
             LET m == request[t].member  cap == request[t].conf.maxBanked IN
             cap # NoCap /\ wallet'[m].issued > wallet[m].issued
                 => Cardinality(wallet'[m].active) <= cap]_vars
    BY <1>1
  <1>. QED
    BY <1>2, BankInductive, PTL DEF Spec, BankCapRespected

-----------------------------------------------------------------------------
(* The price of a voucher. *)

\* Every completed cycle consumed what the cheapest card asks for at least.
PriceInv ==
    \A m \in Member, c \in Config :
        Cheapest(c) => card[m].cycle * c.required <= spent[m].stamps + spent[m].visits

\* Cycles that cost more than k each keep the average above k.
LEMMA CyclesPay ==
    ASSUME NEW a \in Nat, NEW s \in Nat, NEW n \in Nat, NEW k \in Nat, NEW q \in Nat,
           a * k <= s, k <= q
    PROVE  (a + n) * k <= s + n * q
  <1>1. \A x, y, z \in Int : (x + y) * z = x * z + y * z
    OBVIOUS
  <1>2. (a + n) * k = a * k + n * k
    BY <1>1
  <1>3. PICK d \in Nat : q = k + d
    <2>1. q - k \in Nat /\ q = k + (q - k)
      OBVIOUS
    <2>. QED
      BY <2>1
  <1>4. n * q = n * k + n * d
    <2>1. \A x, y, z \in Int : x * (y + z) = x * y + x * z
      OBVIOUS
    <2>. QED
      BY <1>3, <2>1
  <1>5. n * d \in Nat /\ n * k \in Nat /\ a * k \in Nat
    OBVIOUS
  <1>. QED
    BY <1>2, <1>4, <1>5

\* The cycles a commit completes, and what it takes off the card for them.
LEMMA CommitPays ==
    ASSUME TypeOK, LockInv, NEW t \in Txn, AwardCommit(t) \/ RedeemCommit(t),
           NEW m \in Member, m = request[t].member
    PROVE  \E n \in Nat, c \in Config :
              /\ c.type # "points"  \/ n = 0
              /\ card'[m].cycle = card[m].cycle + n
              /\ spent'[m].stamps + spent'[m].visits
                    = spent[m].stamps + spent[m].visits + n * c.required
  <1>. DEFINE r == request[t]
              row == seen[t].row
              q == r.conf.required
  <1>1. stage[t] = "locked"
    BY DEF AwardCommit, RedeemCommit
  <1>2. r \in Request /\ seen[t] \in Seen
    BY <1>1 DEF TypeOK
  <1>3. /\ r.n \in Nat /\ r.conf \in Config /\ r.conf \in ConfigRow
        /\ seen[t].banked \in Nat /\ row = card[m]
    BY <1>1, <1>2, ConfigAssumption DEF LockInv, Request, Seen
  <1>4. card[m] \in CardRow /\ spent[m] \in Spent /\ q \in Nat
    BY <1>3 DEF TypeOK, ConfigRow
  <1>. DEFINE Pays(n) == /\ card'[m].cycle = card[m].cycle + n
                         /\ spent'[m].stamps + spent'[m].visits
                               = spent[m].stamps + spent[m].visits + n * q
  <1>5. CASE RedeemCommit(t) \/ AwardPoints(t)
    <2>1. card'[m].cycle = card[m].cycle /\ spent'[m] = spent[m]
      <3>1. CASE RedeemCommit(t)
        BY <1>3, <1>4, <3>1 DEF RedeemCommit, TypeOK, CardRow
      <3>2. CASE AwardPoints(t)
        <4>1. PICK p \in PointsEarned :
                 card' = [card EXCEPT ![m] = [row EXCEPT !.visits = @ + 1, !.points = @ + p]]
          BY <3>2 DEF AwardPoints
        <4>. QED
          BY <1>3, <1>4, <3>2, <4>1 DEF AwardPoints, TypeOK, CardRow
      <3>. QED
        BY <1>5, <3>1, <3>2
    <2>2. 0 * q = 0 /\ 0 \in Nat
      BY <1>4
    <2>3. Pays(0)
      BY <1>4, <2>1, <2>2 DEF CardRow, Spent
    <2>. QED
      BY <1>3, <2>2, <2>3
  <1>6. CASE AwardStamps(t)
    <2>. DEFINE stamps == row.stamps + r.n
    <2>1. PICK n \in 0 .. stamps :
             /\ LoopEnds(n, stamps, r.conf, seen[t].banked)
             /\ card' = [card EXCEPT ![m] =
                  [row EXCEPT !.stamps = stamps - n * q, !.cycle = @ + n]]
             /\ spent' = [spent EXCEPT ![m].stamps = @ + n * q]
      BY <1>6 DEF AwardStamps
    <2>2. n \in Nat /\ n * q \in Nat
      <3>1. stamps \in Nat
        BY <1>3, <1>4 DEF CardRow
      <3>. QED
        BY <1>3, <2>1, <3>1, LoopLeavesNat
    <2>. DEFINE used == n * q
    <2>3. /\ card'[m] = [row EXCEPT !.stamps = stamps - used, !.cycle = @ + n]
          /\ spent'[m] = [spent[m] EXCEPT !.stamps = @ + used]
          /\ used \in Nat
      BY <2>1, <2>2 DEF TypeOK
    <2>4. Pays(n)
      <3>. HIDE DEF used
      <3>1. /\ card'[m].cycle = card[m].cycle + n
            /\ spent'[m].stamps + spent'[m].visits = spent[m].stamps + spent[m].visits + used
        BY <1>3, <1>4, <2>2, <2>3 DEF CardRow, Spent
      <3>. QED
        BY <3>1 DEF used
    <2>5. r.conf.type # "points"
      BY <1>6 DEF AwardStamps
    <2>. QED
      BY <1>3, <2>2, <2>4, <2>5
  <1>7. CASE AwardVisit(t)
    <2>1. r.conf.type # "points" /\ 1 * q = q /\ 0 * q = 0
      BY <1>4, <1>7 DEF AwardVisit
    <2>2. CASE row.visits + 1 >= q
      <3>1. Pays(1)
        BY <1>3, <1>4, <1>7, <2>1, <2>2 DEF AwardVisit, TypeOK, CardRow, Spent
      <3>. QED
        BY <1>3, <2>1, <3>1
    <2>3. CASE ~ (row.visits + 1 >= q)
      <3>1. Pays(0)
        BY <1>3, <1>4, <1>7, <2>1, <2>3 DEF AwardVisit, TypeOK, CardRow, Spent
      <3>. QED
        BY <1>3, <2>1, <3>1
    <2>. QED
      BY <2>2, <2>3
  <1>. QED
    BY <1>5, <1>6, <1>7 DEF AwardCommit

\* Every step keeps what completed cycles consumed above the cheapest price.
LEMMA PriceStep == TypeOK /\ LockInv /\ PriceInv /\ [Next]_vars => PriceInv'
  <1>. SUFFICES ASSUME TypeOK, LockInv, PriceInv, [Next]_vars,
                       NEW m \in Member, NEW c \in Config, Cheapest(c)
                PROVE  card'[m].cycle * c.required <= spent'[m].stamps + spent'[m].visits
    BY DEF PriceInv, Cheapest
  <1>1. card[m].cycle * c.required <= spent[m].stamps + spent[m].visits
    BY DEF PriceInv
  <1>2. CASE card'[m] = card[m] /\ spent'[m] = spent[m]
    BY <1>1, <1>2
  <1>3. ASSUME NEW t \in Txn, AwardCommit(t) \/ RedeemCommit(t), m = request[t].member
        PROVE  card'[m].cycle * c.required <= spent'[m].stamps + spent'[m].visits
    <2>1. PICK n \in Nat, d \in Config :
             /\ d.type # "points"  \/ n = 0
             /\ card'[m].cycle = card[m].cycle + n
             /\ spent'[m].stamps + spent'[m].visits
                   = spent[m].stamps + spent[m].visits + n * d.required
      BY <1>3, CommitPays
    <2>2. /\ card[m].cycle \in Nat /\ spent[m].stamps + spent[m].visits \in Nat
          /\ c.required \in Nat /\ d.required \in Nat
      BY ConfigAssumption DEF TypeOK, CardRow, Spent, ConfigRow
    <2>3. CASE n = 0
      <3>1. card'[m].cycle = card[m].cycle /\ n * d.required = 0
        BY <2>1, <2>2, <2>3
      <3>. QED
        BY <1>1, <2>1, <2>2, <3>1
    <2>4. CASE d.type # "points"
      <3>1. c.required <= d.required
        BY <2>4 DEF Cheapest
      <3>2. (card[m].cycle + n) * c.required <= spent[m].stamps + spent[m].visits + n * d.required
        BY <1>1, <2>2, <3>1, CyclesPay
      <3>. QED
        BY <2>1, <3>2
    <2>. QED
      BY <2>1, <2>3, <2>4
  <1>4. ASSUME NEW t \in Txn, AwardCommit(t) \/ RedeemCommit(t), m # request[t].member
        PROVE  card'[m] = card[m] /\ spent'[m] = spent[m]
    BY <1>4, CommitIsLocal
  <1>5. CASE \A t \in Txn : ~ AwardCommit(t) /\ ~ RedeemCommit(t)
    <2>1. UNCHANGED <<card, spent>>
      BY <1>5 DEF Next, vars, requests, AwardBegin, RedeemBegin, Start, LockMembership,
                  RedeemRefuse, Rollback, RedeemVoucher, BecomeOverdue, WalletView, Pause,
                  Activate, Archive, SetStatus, UpdateRead, UpdateSave
    <2>. QED
      BY <1>2, <2>1
  <1>. QED
    BY <1>2, <1>3, <1>4, <1>5

\* Whatever awards overlap, and however the owner retypes and reprices the program
\* between the read an award decides on and its commit, the stamps and visits of the
\* ledger pay for every voucher at the lowest required_count the owner may set.
THEOREM EveryVoucherEarned == Spec => []VouchersEarned
  <1>1. Init => PriceInv
    <2>. SUFFICES ASSUME Init, NEW m \in Member, NEW c \in Config
                  PROVE  card[m].cycle * c.required <= spent[m].stamps + spent[m].visits
      BY DEF PriceInv
    <2>1. card[m].cycle = 0 /\ spent[m].stamps = 0 /\ spent[m].visits = 0
      BY DEF Init
    <2>2. c.required \in Nat
      BY ConfigAssumption DEF ConfigRow
    <2>. QED
      BY <2>1, <2>2
  <1>2. IInv /\ PriceInv /\ [Next]_vars => PriceInv'
    BY PriceStep DEF IInv
  <1>3. IInv /\ PriceInv => VouchersEarned
    <2>. SUFFICES ASSUME IInv, PriceInv, NEW m \in Member, NEW c \in Config, Cheapest(c)
                  PROVE  (wallet[m].issued - ledger[m].redeems) * c.required
                            + card[m].stamps + card[m].visits
                            <= ledger[m].stamps + ledger[m].visits
      BY DEF VouchersEarned
    <2>. DEFINE cost == card[m].cycle * c.required
    <2>1. /\ card[m].stamps \in Nat /\ card[m].visits \in Nat /\ card[m].cycle \in Nat
          /\ spent[m].stamps \in Nat /\ spent[m].visits \in Nat
          /\ wallet[m].issued \in Nat /\ ledger[m].redeems \in Nat /\ c.required \in Nat
      BY ConfigAssumption DEF IInv, TypeOK, CardRow, Spent, Wallet, LedgerSums, ConfigRow
    <2>2. /\ card[m].stamps + spent[m].stamps = ledger[m].stamps
          /\ card[m].visits + spent[m].visits = ledger[m].visits
          /\ wallet[m].issued - ledger[m].redeems = card[m].cycle
      BY <2>1 DEF IInv, BooksInv, Balanced
    <2>3. cost \in Nat /\ cost <= spent[m].stamps + spent[m].visits
      BY <2>1 DEF PriceInv
    <2>4. (wallet[m].issued - ledger[m].redeems) * c.required = cost
      BY <2>2
    <2>. HIDE DEF cost
    <2>. QED
      BY <2>1, <2>2, <2>3, <2>4
  <1>. QED
    BY <1>1, <1>2, <1>3, Inductive, PTL DEF Spec

=============================================================================
