------------------------- MODULE CreditLedgerProofs -------------------------
(***************************************************************************)
(* Proofs about CreditLedger for every value of its constants.  Type       *)
(* correctness holds under both isolation levels; that an order is         *)
(* released once, that a final order never changes, that holds are backed, *)
(* credits conserved and every order explained by its ledger entries, and  *)
(* the refinement of CreditSettlement need snapshot isolation.             *)
(***************************************************************************)
EXTENDS CreditLedger, FiniteSetTheorems, TLAPS

USE LedgerAssumption

\* Prices and usages are natural numbers.
LEMMA AmountsAreNat == Amount \subseteq Nat
  BY DEF Amount

\* Moving credits keeps the accounts typed.
LEMMA MoveIsTyped ==
  ASSUME TypeOK, NEW u \in User, NEW da \in Int, NEW dr \in Int,
         MoveCredits(u, da, dr), reserved[u] + dr \in Nat
  PROVE  /\ available' \in [User -> Int]
         /\ reserved' \in [User -> Nat]
  BY DEF MoveCredits, TypeOK

\* An entry keeps the totals of an order typed.
LEMMA AddIsTyped ==
  ASSUME NEW totals \in Totals, NEW da \in Int, NEW dr \in Int
  PROVE  Add(totals, da, dr) \in Totals
  BY DEF Add, Totals

LEMMA EntryIsTyped ==
  ASSUME TypeOK, NEW o \in Order, NEW da \in Int, NEW dr \in Int, PostEntry(o, da, dr)
  PROVE  posted' \in [Order -> Totals]
<1>1. Add(posted[o], da, dr) \in Totals
  BY AddIsTyped DEF TypeOK
<1> QED
  BY <1>1 DEF PostEntry, TypeOK

\* What one number has over another.
LEMMA ExcessIsTyped ==
  ASSUME NEW a \in Nat, NEW b \in Nat
  PROVE  Excess(a, b) \in Nat /\ -Excess(a, b) \in Int /\ Excess(a, b) - Excess(b, a) = a - b
  BY DEF Excess

\* The two entries of a usage settlement move the totals by what the account
\* moves by.
LEMMA UsageIsOneMove ==
  ASSUME NEW o \in Order, posted[o] \in Totals, NEW hold \in Nat, NEW actual \in Nat,
         PostUsage(o, hold, actual)
  PROVE  PostEntry(o, hold - actual, -hold)
<1> DEFINE back == Excess(hold, actual)
           supplement == Excess(actual, hold)
<1>1. back \in Nat /\ supplement \in Nat /\ back - supplement = hold - actual
  BY ExcessIsTyped
<1>2. posted' = [posted EXCEPT ![o] = Add(Add(posted[o], -supplement, -hold), back, 0)]
  BY DEF PostUsage
<1> HIDE DEF back, supplement
<1>3. posted[o].available \in Int /\ posted[o].reserved \in Int
  BY DEF Totals
<1>4. Add(Add(posted[o], -supplement, -hold), back, 0) = Add(posted[o], hold - actual, -hold)
  <2>1. \A a \in Int : (a + -supplement) + back = a + (hold - actual)
    BY <1>1
  <2>2. \A a \in Int : (a + -hold) + 0 = a + -hold
    OBVIOUS
  <2> QED
    BY <1>3, <2>1, <2>2 DEF Add
<1> QED
  BY <1>2, <1>4 DEF PostEntry

-----------------------------------------------------------------------------
(* The writes that all releases share.                                     *)

\* A release to a final status at an actual price, with the entries that say
\* so: the account gets back what the hold has over the price, if any is due.
Ends(c, to, actual) ==
    LET hold == call[c].seen.hold
        due == IF to = "settled" THEN actual ELSE 0
    IN  /\ call[c] # Idle
        /\ Release(c, to, actual, hold - due)
        /\ PostEntry(call[c].order, hold - due, -hold)

Released(c) == \E to \in FinalStatus, actual \in Amount : Ends(c, to, actual)

\* A settlement at a fixed price, a settlement by usage and a refund are all
\* releases of a typed amount.
LEMMA ReleaseForms ==
  ASSUME TypeOK, NEW c \in Call,
         \/ SettleFixed(c)
         \/ \E actual \in Usage : SettleByUsage(c, actual)
         \/ Refund(c)
  PROVE  Released(c)
<1>1. call[c] # Idle
  BY DEF SettleFixed, SettleByUsage, Refund, Idle
<1> DEFINE o == call[c].order
           hold == call[c].seen.hold
<1>2. /\ o \in Order /\ hold \in Amount /\ hold \in Nat
      /\ order[o].actual \in Amount
      /\ posted[o] \in Totals
  <2>1. o \in Order /\ call[c].seen \in OrderRow
    BY <1>1 DEF TypeOK, CallRow
  <2>2. order[o] \in OrderRow /\ posted[o] \in Totals
    BY <2>1 DEF TypeOK
  <2>3. hold \in Amount /\ order[o].actual \in Amount
    BY <2>1, <2>2 DEF OrderRow
  <2> QED
    BY <2>1, <2>2, <2>3, AmountsAreNat
<1>3. "settled" \in FinalStatus /\ "refunded" \in FinalStatus
  BY DEF FinalStatus
<1>4. CASE SettleFixed(c)
  <2>1. Release(c, "settled", hold, 0) /\ PostEntry(o, 0, -hold)
    BY <1>4 DEF SettleFixed
  <2>2. hold - hold = 0
    BY <1>2
  <2>3. Ends(c, "settled", hold)
    BY <1>1, <2>1, <2>2 DEF Ends
  <2> QED
    BY <1>2, <1>3, <2>3 DEF Released
<1>5. CASE \E actual \in Usage : SettleByUsage(c, actual)
  <2>1. PICK actual \in Usage : SettleByUsage(c, actual)
    BY <1>5
  <2>2. actual \in Amount /\ actual \in Nat
    BY DEF Amount
  <2>3. /\ Release(c, "settled", actual, Excess(hold, actual) - Excess(actual, hold))
        /\ PostUsage(o, hold, actual)
    BY <2>1 DEF SettleByUsage
  <2>4. Excess(hold, actual) - Excess(actual, hold) = hold - actual
    BY <1>2, <2>2, ExcessIsTyped
  <2> HIDE DEF o, hold
  <2>5. Release(c, "settled", actual, hold - actual) /\ PostEntry(o, hold - actual, -hold)
    BY <1>2, <2>2, <2>3, <2>4, UsageIsOneMove
  <2>6. Ends(c, "settled", actual)
    BY <1>1, <2>5 DEF Ends, o, hold
  <2> QED
    BY <1>3, <2>2, <2>6 DEF Released
<1>6. CASE Refund(c)
  <2>1. Release(c, "refunded", order[o].actual, hold) /\ PostEntry(o, hold, -hold)
    BY <1>6 DEF Refund
  <2>2. hold - 0 = hold
    BY <1>2
  <2>3. Ends(c, "refunded", order[o].actual)
    BY <1>1, <2>1, <2>2 DEF Ends
  <2> QED
    BY <1>2, <1>3, <2>3 DEF Released
<1> QED
  BY <1>4, <1>5, <1>6

-----------------------------------------------------------------------------
\* Every state of every execution is well typed; the reserved balance of an
\* account never becomes negative.
THEOREM TypeCorrect == Spec => []TypeOK
<1>1. Init => TypeOK
  BY AmountsAreNat DEF Init, TypeOK, OrderRow, Status, Amount, Totals
<1>2. TypeOK /\ [Next]_vars => TypeOK'
  <2> SUFFICES ASSUME TypeOK, [Next]_vars PROVE TypeOK'
    OBVIOUS
  <2> USE AmountsAreNat
  <2>0. \A c \in Call : Outdate(c) \in {Idle} \cup CallRow
    <3> SUFFICES ASSUME NEW c \in Call, call[c] # Idle
                 PROVE  [call[c] EXCEPT !.stale = TRUE] \in CallRow
      BY DEF Outdate
    <3>1. call[c] \in CallRow
      BY DEF TypeOK
    <3> QED
      BY <3>1 DEF CallRow
  <2>1. Commit => call' \in [Call -> {Idle} \cup CallRow]
    BY <2>0 DEF Commit
  <2>2. ASSUME NEW c \in Call, CommitOf(c)
        PROVE  call' \in [Call -> {Idle} \cup CallRow]
    BY <2>0, <2>2 DEF CommitOf
  <2>3. ASSUME NEW u \in User, NEW n \in Int, Deposit(u, n), usedKeys' \subseteq GrantKey \cup RedeemCode
        PROVE  TypeOK'
    BY <2>1, <2>3 DEF Deposit, TypeOK
  <2>4. ASSUME NEW u \in User, NEW key \in GrantKey, GrantCreditsOnce(u, key)
        PROVE  TypeOK'
    BY <2>3, <2>4 DEF GrantCreditsOnce, TypeOK
  <2>5. ASSUME NEW u \in User, NEW code \in RedeemCode, RedeemCredits(u, code)
        PROVE  TypeOK'
    BY <2>3, <2>5 DEF RedeemCredits, TypeOK
  <2>6. ASSUME NEW u \in User, NEW n \in Adjustment, AdjustCredits(u, n)
        PROVE  TypeOK'
    BY <2>3, <2>6 DEF AdjustCredits, TypeOK
  <2>7. ASSUME NEW code \in RedeemCode, DisableRedeemCode(code)
        PROVE  TypeOK'
    BY <2>1, <2>7 DEF DisableRedeemCode, TypeOK
  <2>8. ASSUME NEW o \in Order, NEW amount \in Price, ReserveBillingOrder(o, amount)
        PROVE  TypeOK'
    <3>1. amount \in Nat /\ amount \in Amount /\ reserved[OwnerOf[o]] + amount \in Nat
      BY DEF TypeOK, Amount
    <3>2. order' \in [Order -> OrderRow]
      BY <2>8, <3>1 DEF ReserveBillingOrder, TypeOK, OrderRow, Status, OpenStatus, Amount
    <3>3. /\ available' \in [User -> Int]
          /\ reserved' \in [User -> Nat]
          /\ posted' \in [Order -> Totals]
      BY <2>8, <3>1, MoveIsTyped, EntryIsTyped DEF ReserveBillingOrder
    <3> QED
      BY <2>1, <2>8, <3>2, <3>3 DEF ReserveBillingOrder, TypeOK
  <2>9. ASSUME NEW o \in Order, NEW amount \in Price, RepriceReservation(o, amount)
        PROVE  TypeOK'
    <3>1. order[o].hold \in Nat /\ amount \in Nat /\ amount \in Amount
      BY DEF TypeOK, OrderRow, Amount
    <3> DEFINE delta == amount - order[o].hold
    <3>2. /\ OwnerOf[o] \in User /\ delta \in Int /\ -delta \in Int
          /\ reserved[OwnerOf[o]] + delta \in Nat
      BY <2>9, <3>1 DEF RepriceReservation, TypeOK
    <3>3. order' \in [Order -> OrderRow]
      BY <2>9, <3>1 DEF RepriceReservation, TypeOK, OrderRow
    <3>4. /\ available' \in [User -> Int]
          /\ reserved' \in [User -> Nat]
          /\ posted' \in [Order -> Totals]
      <4>1. MoveCredits(OwnerOf[o], -delta, delta) /\ PostEntry(o, -delta, delta)
        BY <2>9 DEF RepriceReservation
      <4> HIDE DEF delta
      <4> QED
        BY <3>2, <4>1, MoveIsTyped, EntryIsTyped
    <3> QED
      BY <2>1, <2>9, <3>3, <3>4 DEF RepriceReservation, TypeOK
  <2>10. ASSUME NEW o \in Order, MarkBillingRunning(o) \/ MarkBillingUncertain(o)
         PROVE  TypeOK'
    <3>1. PICK to \in {"running", "uncertain"} :
            /\ order' = [order EXCEPT ![o].status = to] /\ Commit
            /\ UNCHANGED <<available, reserved, deposited, posted, releases, usedKeys>>
      BY <2>10 DEF MarkBillingRunning, MarkBillingUncertain, SetStatus
    <3>2. order' \in [Order -> OrderRow]
      BY <3>1 DEF TypeOK, OrderRow, Status, OpenStatus
    <3> QED
      BY <2>1, <3>1, <3>2 DEF TypeOK
  <2>11. ASSUME NEW c \in Call, NEW o \in Order, NEW op \in {"settle", "refund"}, BeginRelease(c, o, op)
         PROVE  TypeOK'
    BY <2>11 DEF BeginRelease, TypeOK, CallRow
  <2>12. ASSUME NEW c \in Call, NEW to \in FinalStatus, NEW actual \in Amount, Ends(c, to, actual)
         PROVE  TypeOK'
    <3> DEFINE o == call[c].order
               hold == call[c].seen.hold
               move == hold - (IF to = "settled" THEN actual ELSE 0)
               back == -hold
    <3>1. call[c] \in CallRow /\ actual \in Nat
      BY <2>12 DEF Ends, TypeOK
    <3>2. o \in Order /\ hold \in Nat
      BY <3>1 DEF CallRow, OrderRow
    <3>3. Release(c, to, actual, move) /\ PostEntry(o, move, back)
      BY <2>12 DEF Ends
    <3>4. /\ OwnerOf[o] \in User /\ move \in Int /\ back \in Int
          /\ reserved[OwnerOf[o]] + back \in Nat
      BY <3>1, <3>2, <3>3 DEF Release, CanRelease, TypeOK
    <3>5. order' \in [Order -> OrderRow]
      BY <3>2, <3>3 DEF Release, TypeOK, OrderRow, Status
    <3>6. MoveCredits(OwnerOf[o], move, back)
      BY <3>3 DEF Release
    <3>7. /\ releases' \in [Order -> Nat] /\ CommitOf(c)
          /\ UNCHANGED <<deposited, usedKeys>>
      BY <3>2, <3>3 DEF Release, TypeOK
    <3> HIDE DEF o, hold, move, back
    <3>8. /\ available' \in [User -> Int]
          /\ reserved' \in [User -> Nat]
          /\ posted' \in [Order -> Totals]
      BY <3>2, <3>3, <3>4, <3>6, MoveIsTyped, EntryIsTyped
    <3> QED
      BY <2>2, <3>5, <3>7, <3>8 DEF TypeOK
  <2>13. ASSUME NEW c \in Call,
                \/ SettleFixed(c)
                \/ \E actual \in Usage : SettleByUsage(c, actual)
                \/ Refund(c)
         PROVE  TypeOK'
    BY <2>12, <2>13, ReleaseForms DEF Released
  <2>14. ASSUME NEW c \in Call, ReleaseFails(c)
         PROVE  TypeOK'
    BY <2>14 DEF ReleaseFails, TypeOK
  <2>15. ASSUME NEW c \in Call, NEW actual \in Usage, SettleFailsWithUsage(c, actual)
         PROVE  TypeOK'
    <3>1. call[c].order \in Order /\ actual \in Amount
      BY <2>15 DEF SettleFailsWithUsage, TypeOK, CallRow, Idle, Amount
    <3>2. order' \in [Order -> OrderRow]
      BY <2>15, <3>1 DEF SettleFailsWithUsage, TypeOK, OrderRow
    <3> QED
      BY <2>2, <2>15, <3>2 DEF SettleFailsWithUsage, TypeOK
  <2>16. CASE UNCHANGED vars
    BY <2>16 DEF vars, TypeOK
  <2> QED
    BY <2>4, <2>5, <2>6, <2>7, <2>8, <2>9, <2>10, <2>11, <2>13, <2>14, <2>15, <2>16 DEF Next
<1> QED
  BY <1>1, <1>2, PTL DEF Spec

-----------------------------------------------------------------------------
(* Under snapshot isolation.                                               *)

\* Under snapshot isolation a release that can still commit has read the
\* order as it is, and open: nothing it decides on is out of date.
ReadsAreCurrent ==
    \A c \in Call :
        call[c] # Idle /\ ~call[c].stale
          => /\ call[c].seen = order[call[c].order]
             /\ call[c].seen.status \in OpenStatus

\* The inductive invariant: with it, a release never meets a final order.
SnapshotInv == TypeOK /\ ReadsAreCurrent /\ ReleasedOnce

\* After a commit every transaction that has read is outdated: no read that
\* still counts as current can disagree with its order.
LEMMA CommitKeepsReadsCurrent ==
  ASSUME TypeOK, Commit \/ \E c \in Call : CommitOf(c)
  PROVE  ReadsAreCurrent'
<1> SUFFICES ASSUME NEW c \in Call, call'[c] # Idle
             PROVE  call'[c].stale
  BY DEF ReadsAreCurrent
<1>1. call'[c] = Outdate(c)
  BY DEF Commit, CommitOf
<1>2. call[c] \in CallRow /\ call'[c] = [call[c] EXCEPT !.stale = TRUE]
  BY <1>1 DEF Outdate, TypeOK
<1> QED
  BY <1>2 DEF CallRow

\* A release that goes ahead ends an order that is open.
LEMMA ReleasesAnOpenOrder ==
  ASSUME Isolation = "snapshot", SnapshotInv, NEW c \in Call, call[c] # Idle, CanRelease(c)
  PROVE  /\ call[c].order \in Order
         /\ call[c].seen = order[call[c].order]
         /\ order[call[c].order].status \in OpenStatus
<1>1. call[c] \in CallRow
  BY DEF SnapshotInv, TypeOK
<1> QED
  BY <1>1 DEF SnapshotInv, ReadsAreCurrent, CanRelease, CallRow

\* The steps of the ledger as the order table sees them: a commit that leaves
\* it alone, a change of an order that is not final to one that is not final,
\* a release, the read of a release, and a rollback.
Elsewhere == UNCHANGED <<order, releases>> /\ Commit

Changed(o, row) ==
    /\ order[o].status \notin FinalStatus /\ row.status \notin FinalStatus
    /\ order' = [order EXCEPT ![o] = row]
    /\ UNCHANGED releases
    /\ Commit \/ \E c \in Call : CommitOf(c)

\* Every step leaves the orders alone, releases one, or changes one order
\* that is open.
LEMMA StepForms ==
  ASSUME TypeOK, Next
  PROVE  \/ Elsewhere
         \/ \E o \in Order, row \in OrderRow : Changed(o, row)
         \/ \E c \in Call : Released(c)
         \/ \E c \in Call, o \in Order, op \in {"settle", "refund"} : BeginRelease(c, o, op)
         \/ \E c \in Call : ReleaseFails(c)
<1>1. ASSUME NEW u \in User,
             \/ \E key \in GrantKey : GrantCreditsOnce(u, key)
             \/ \E code \in RedeemCode : RedeemCredits(u, code)
             \/ \E n \in Adjustment : AdjustCredits(u, n)
      PROVE  Elsewhere
  BY <1>1 DEF GrantCreditsOnce, RedeemCredits, AdjustCredits, Deposit, Elsewhere
<1>2. ASSUME NEW code \in RedeemCode, DisableRedeemCode(code)
      PROVE  Elsewhere
  BY <1>2 DEF DisableRedeemCode, Elsewhere
<1>3. ASSUME NEW o \in Order, NEW amount \in Price, ReserveBillingOrder(o, amount)
      PROVE  \E row \in OrderRow : Changed(o, row)
  <2> DEFINE row == [status |-> "reserved", hold |-> amount, actual |-> 0]
  <2>1. row \in OrderRow /\ row.status \notin FinalStatus
    BY DEF OrderRow, Status, OpenStatus, FinalStatus, Amount
  <2>2. order' = [order EXCEPT ![o] = row] /\ order[o].status \notin FinalStatus
    BY <1>3 DEF ReserveBillingOrder, FinalStatus
  <2> QED
    BY <1>3, <2>1, <2>2 DEF ReserveBillingOrder, Changed
<1>4. ASSUME NEW o \in Order, NEW amount \in Price, RepriceReservation(o, amount)
      PROVE  \E row \in OrderRow : Changed(o, row)
  <2> DEFINE row == [order[o] EXCEPT !.hold = amount]
  <2>1. row \in OrderRow /\ row.status = order[o].status
    BY DEF TypeOK, OrderRow, Amount
  <2>2. order' = [order EXCEPT ![o] = row] /\ order[o].status \notin FinalStatus
    BY <1>4 DEF RepriceReservation, FinalStatus
  <2> HIDE DEF row
  <2> QED
    BY <1>4, <2>1, <2>2 DEF RepriceReservation, Changed
<1>5. ASSUME NEW o \in Order, MarkBillingRunning(o) \/ MarkBillingUncertain(o)
      PROVE  \E row \in OrderRow : Changed(o, row)
  <2>1. PICK to \in OpenStatus :
          /\ order[o].status \notin FinalStatus
          /\ order' = [order EXCEPT ![o].status = to]
    BY <1>5 DEF MarkBillingRunning, MarkBillingUncertain, SetStatus, OpenStatus, FinalStatus
  <2> DEFINE row == [order[o] EXCEPT !.status = to]
  <2>2. row \in OrderRow /\ row.status = to
    BY DEF TypeOK, OrderRow, Status
  <2>3. order' = [order EXCEPT ![o] = row] /\ to \notin FinalStatus
    BY <2>1 DEF OpenStatus, FinalStatus
  <2>4. UNCHANGED releases /\ Commit
    BY <1>5 DEF MarkBillingRunning, MarkBillingUncertain, SetStatus
  <2> HIDE DEF row
  <2> QED
    BY <2>1, <2>2, <2>3, <2>4 DEF Changed
<1>6. ASSUME NEW c \in Call, NEW actual \in Usage, SettleFailsWithUsage(c, actual)
      PROVE  \E o \in Order, row \in OrderRow : Changed(o, row)
  <2> DEFINE o == call[c].order
             row == [order[o] EXCEPT !.actual = actual]
  <2>1. o \in Order
    BY <1>6 DEF SettleFailsWithUsage, TypeOK, CallRow, Idle
  <2>2. row \in OrderRow /\ row.status = order[o].status
    BY <2>1 DEF TypeOK, OrderRow, Amount
  <2>3. order' = [order EXCEPT ![o] = row] /\ order[o].status \notin FinalStatus
    BY <1>6 DEF SettleFailsWithUsage
  <2>4. UNCHANGED releases /\ CommitOf(c)
    BY <1>6 DEF SettleFailsWithUsage
  <2> HIDE DEF o, row
  <2> QED
    BY <2>1, <2>2, <2>3, <2>4 DEF Changed
<1> QED
  BY <1>1, <1>2, <1>3, <1>4, <1>5, <1>6, ReleaseForms DEF Next

\* Each step keeps reads current and release counts right.
LEMMA SnapshotStep ==
  ASSUME Isolation = "snapshot", SnapshotInv, Next
  PROVE  /\ ReadsAreCurrent'
         /\ ReleasedOnce'
         /\ \A o \in Order : order[o].status \in FinalStatus => order'[o] = order[o]
<1> USE DEF SnapshotInv
<1>1. CASE Elsewhere
  BY <1>1, CommitKeepsReadsCurrent DEF Elsewhere, ReleasedOnce
<1>2. ASSUME NEW o \in Order, NEW row \in OrderRow, Changed(o, row)
      PROVE  /\ ReadsAreCurrent'
             /\ ReleasedOnce'
             /\ \A p \in Order : order[p].status \in FinalStatus => order'[p] = order[p]
  BY <1>2, CommitKeepsReadsCurrent DEF Changed, ReleasedOnce, TypeOK
<1>3. ASSUME NEW c \in Call, Released(c)
      PROVE  /\ ReadsAreCurrent'
             /\ ReleasedOnce'
             /\ \A p \in Order : order[p].status \in FinalStatus => order'[p] = order[p]
  <2>1. PICK to \in FinalStatus, actual \in Amount :
             \E d : call[c] # Idle /\ Release(c, to, actual, d)
    BY <1>3 DEF Released, Ends
  <2> DEFINE o == call[c].order
  <2>2. o \in Order /\ order[o].status \notin FinalStatus /\ releases[o] = 0
    BY <2>1, ReleasesAnOpenOrder DEF Release, OpenStatus, FinalStatus, ReleasedOnce
  <2>3. /\ order' = [order EXCEPT ![o].status = to, ![o].actual = actual]
        /\ releases' = [releases EXCEPT ![o] = @ + 1]
        /\ CommitOf(c)
    BY <2>1 DEF Release
  <2>4. order'[o].status = to /\ releases'[o] = 1
    BY <2>2, <2>3 DEF TypeOK, OrderRow
  <2>5. \A p \in Order \ {o} : order'[p] = order[p] /\ releases'[p] = releases[p]
    BY <2>2, <2>3 DEF TypeOK
  <2>6. ReadsAreCurrent'
    BY <2>3, CommitKeepsReadsCurrent
  <2> HIDE DEF o
  <2> QED
    BY <2>2, <2>4, <2>5, <2>6 DEF ReleasedOnce
<1>4. ASSUME NEW c \in Call, NEW o \in Order, NEW op \in {"settle", "refund"}, BeginRelease(c, o, op)
      PROVE  /\ ReadsAreCurrent'
             /\ ReleasedOnce'
             /\ \A p \in Order : order[p].status \in FinalStatus => order'[p] = order[p]
  BY <1>4 DEF BeginRelease, ReadsAreCurrent, ReleasedOnce, TypeOK
<1>5. ASSUME NEW c \in Call, ReleaseFails(c)
      PROVE  /\ ReadsAreCurrent'
             /\ ReleasedOnce'
             /\ \A p \in Order : order[p].status \in FinalStatus => order'[p] = order[p]
  BY <1>5 DEF ReleaseFails, ReadsAreCurrent, ReleasedOnce, TypeOK
<1> QED
  BY <1>1, <1>2, <1>3, <1>4, <1>5, StepForms

\* SQLite: SnapshotInv holds in every state.
LEMMA SnapshotInvariant == Isolation = "snapshot" => (Spec => []SnapshotInv)
<1> SUFFICES ASSUME Isolation = "snapshot" PROVE Spec => []SnapshotInv
  OBVIOUS
<1>1. Init => ReadsAreCurrent /\ ReleasedOnce
  BY DEF Init, ReadsAreCurrent, ReleasedOnce, FinalStatus
<1>2. TypeOK /\ TypeOK' /\ ReadsAreCurrent /\ ReleasedOnce /\ [Next]_vars
        => ReadsAreCurrent' /\ ReleasedOnce'
  <2>1. UNCHANGED vars /\ ReadsAreCurrent /\ ReleasedOnce => ReadsAreCurrent' /\ ReleasedOnce'
    BY DEF vars, ReadsAreCurrent, ReleasedOnce
  <2> QED
    BY <2>1, SnapshotStep DEF SnapshotInv
<1> QED
  BY <1>1, <1>2, TypeCorrect, PTL DEF Spec, SnapshotInv

\* SQLite: however many workers, reconcilers and administrators settle or
\* refund an order at once, it gets one releasing ledger entry.
THEOREM OrderReleasedOnce == Isolation = "snapshot" => (Spec => []ReleasedOnce)
<1>1. SnapshotInv => ReleasedOnce
  BY DEF SnapshotInv
<1> QED
  BY <1>1, SnapshotInvariant, PTL

\* SQLite: no later transaction rewrites a settled or refunded order.
THEOREM FinalOrdersStay == Isolation = "snapshot" => (Spec => FinalIsFinal)
<1> SUFFICES ASSUME Isolation = "snapshot" PROVE Spec => FinalIsFinal
  OBVIOUS
<1>1. SnapshotInv /\ [Next]_vars
        => [\A o \in Order : order[o].status \in FinalStatus => order'[o] = order[o]]_vars
  BY SnapshotStep
<1> QED
  BY <1>1, SnapshotInvariant, PTL DEF Spec, FinalIsFinal

-----------------------------------------------------------------------------
(* Sums over finite sets.  SumFunctionOnSet chooses a function that adds   *)
(* up an element at a time: that there is one, and that the order of the   *)
(* elements does not matter, is proved by least counterexamples.           *)

\* A nonempty set of natural numbers has a least element.
LEMMA LeastNumber ==
  ASSUME NEW N, N \subseteq Nat, N # {}
  PROVE  \E n \in N : \A m \in N : n <= m
<1>1. \E n \in N : \A m \in N : ~(<<m, n>> \in OpToRel(<, Nat))
  BY NatLessThanWellFounded, WFMin
<1>2. ASSUME NEW m \in Nat, NEW n \in Nat, ~(<<m, n>> \in OpToRel(<, Nat))
      PROVE  n <= m
  BY <1>2 DEF OpToRel
<1> QED
  BY <1>1, <1>2

\* A nonempty family of subsets of a finite set has a smallest member.
LEMMA SmallestSubset ==
  ASSUME NEW S, IsFiniteSet(S), NEW X, X \subseteq SUBSET S, X # {}
  PROVE  \E T \in X : \A R \in X : R \subseteq T => R = T
<1>1. SUBSET S = FiniteSubsetsOf(S)
  BY FS_FiniteSubsetsOfFinite
<1>2. \E T \in X : \A R \in X : ~(<<R, T>> \in StrictSubsetOrdering(S))
  BY <1>1, FS_StrictSubsetOrderingWellFounded, WFMin
<1>3. \A R, T \in SUBSET S : R \subseteq T /\ R # T => <<R, T>> \in StrictSubsetOrdering(S)
  BY DEF StrictSubsetOrdering
<1> QED
  BY <1>2, <1>3

Pick(T) == CHOOSE x \in T : TRUE

\* What one more element adds to a sum.
SumStep(total, f, T) == IF T = {} THEN 0 ELSE f[Pick(T)] + total[T \ {Pick(T)}]

\* total[T] is the sum of f over T, for every subset T of S.
IsTotal(total, f, S) == total = [T \in SUBSET S |-> SumStep(total, f, T)]

LEMMA SumIsChosen ==
  ASSUME NEW f, NEW S
  PROVE  SumFunctionOnSet(f, S) = (CHOOSE total : IsTotal(total, f, S))[S]
  BY Zenon DEF SumFunctionOnSet, FoldFunctionOnSet, MapThenFoldSet, IsTotal, SumStep, Pick

\* The sums exist: those over sets of at most n elements for every n.
LEMMA TotalExists ==
  ASSUME NEW f, NEW S, IsFiniteSet(S)
  PROVE  \E total : IsTotal(total, f, S)
<1> DEFINE UpTo(g, n) == \A T \in SUBSET S : Cardinality(T) <= n => g[T] = SumStep(g, f, T)
<1>1. ASSUME NEW T \in SUBSET S
      PROVE  /\ Cardinality(T) \in Nat /\ Cardinality(T) <= Cardinality(S)
             /\ T # {} => Pick(T) \in T
             /\ T # {} => Cardinality(T \ {Pick(T)}) = Cardinality(T) - 1
             /\ T = {} <=> Cardinality(T) = 0
  <2>1. IsFiniteSet(T) /\ Cardinality(T) \in Nat /\ Cardinality(T) <= Cardinality(S)
    BY FS_Subset, FS_CardinalityType
  <2>2. T # {} => Pick(T) \in T
    BY DEF Pick
  <2> QED
    BY <2>1, <2>2, FS_RemoveElement, FS_EmptySet
<1>2. \A n \in Nat : \E g : UpTo(g, n)
  <2> DEFINE N == {n \in Nat : ~\E g : UpTo(g, n)}
  <2> SUFFICES ASSUME N # {} PROVE FALSE
    OBVIOUS
  <2>1. PICK n \in N : \A m \in N : n <= m
    BY LeastNumber
  <2>2. n \in Nat /\ ~\E g : UpTo(g, n)
    BY <2>1
  <2>3. CASE n = 0
    <3> DEFINE zero == [T \in SUBSET S |-> 0]
    <3>1. ASSUME NEW T \in SUBSET S, Cardinality(T) <= n
          PROVE  zero[T] = SumStep(zero, f, T)
      <4>1. Cardinality(T) \in Nat /\ (T = {} <=> Cardinality(T) = 0)
        BY <1>1
      <4>2. T = {}
        BY <2>3, <3>1, <4>1
      <4> QED
        BY <4>2 DEF SumStep
    <3> HIDE DEF zero
    <3>2. UpTo(zero, n)
      BY <3>1
    <3> QED
      BY <2>2, <3>2
  <2>4. CASE n # 0
    <3>1. n - 1 \in Nat /\ n - 1 \notin N
      BY <2>1, <2>2, <2>4
    <3>2. PICK g : UpTo(g, n - 1)
      BY <3>1
    <3> DEFINE h == [T \in SUBSET S |-> SumStep(g, f, T)]
    <3>3. ASSUME NEW T \in SUBSET S, Cardinality(T) <= n
          PROVE  h[T] = SumStep(h, f, T)
      <4>1. CASE T = {}
        BY <4>1 DEF SumStep
      <4>2. CASE T # {}
        <5> DEFINE R == T \ {Pick(T)}
        <5>1. R \in SUBSET S /\ Cardinality(R) <= n - 1
          BY <1>1, <2>2, <3>3, <4>2
        <5>2. h[R] = SumStep(g, f, R) /\ g[R] = SumStep(g, f, R)
          BY <3>2, <5>1
        <5>3. h[T] = f[Pick(T)] + g[R]
          BY <4>2 DEF SumStep
        <5> HIDE DEF h
        <5> QED
          BY <4>2, <5>2, <5>3 DEF SumStep
      <4> QED
        BY <4>1, <4>2
    <3> HIDE DEF h
    <3>4. UpTo(h, n)
      BY <3>3
    <3> QED
      BY <2>2, <3>4
  <2> QED
    BY <2>3, <2>4
<1>3. Cardinality(S) \in Nat
  BY <1>1
<1>4. PICK g : UpTo(g, Cardinality(S))
  BY <1>2, <1>3
<1> DEFINE total == [T \in SUBSET S |-> g[T]]
<1>5. ASSUME NEW T \in SUBSET S PROVE total[T] = SumStep(total, f, T)
  <2>1. g[T] = SumStep(g, f, T)
    BY <1>1, <1>4
  <2> QED
    BY <2>1 DEF SumStep
<1>6. IsTotal(total, f, S)
  <2> HIDE DEF total
  <2>1. total = [T \in SUBSET S |-> total[T]]
    BY DEF total
  <2> QED
    BY <1>5, <2>1 DEF IsTotal
<1> QED
  BY <1>6

Summable(f, S) == IsFiniteSet(S) /\ \A x \in S : f[x] \in Int

\* A sum is an integer, and any of its elements may be taken out first.
LEMMA TotalRemoves ==
  ASSUME NEW f, NEW S, Summable(f, S), NEW total, IsTotal(total, f, S)
  PROVE  \A T \in SUBSET S :
           /\ total[T] \in Int
           /\ \A x \in T : total[T] = f[x] + total[T \ {x}]
<1>1. ASSUME NEW T \in SUBSET S
      PROVE  /\ T = {} => total[T] = 0
             /\ T # {} => Pick(T) \in T /\ total[T] = f[Pick(T)] + total[T \ {Pick(T)}]
  <2>1. total[T] = SumStep(total, f, T)
    BY DEF IsTotal
  <2> QED
    BY <2>1 DEF SumStep, Pick
<1> DEFINE Good(T) == /\ total[T] \in Int
                      /\ \A x \in T : total[T] = f[x] + total[T \ {x}]
           X == {T \in SUBSET S : ~Good(T)}
<1> SUFFICES ASSUME X # {} PROVE FALSE
  OBVIOUS
<1>2. PICK T \in X : \A R \in X : R \subseteq T => R = T
  <2>1. X \subseteq SUBSET S /\ IsFiniteSet(S)
    BY DEF Summable
  <2> HIDE DEF X
  <2> QED
    BY <2>1, SmallestSubset
<1>3. T \in SUBSET S /\ ~Good(T)
  BY <1>2
<1>4. \A R \in SUBSET S : R \subseteq T /\ R # T => Good(R)
  BY <1>2
<1> HIDE DEF X
<1>5. T # {}
  <2> SUFFICES ASSUME T = {} PROVE Good(T)
    BY <1>3
  <2>1. total[T] = 0
    BY <1>1, <1>3
  <2> QED
    BY <2>1
<1> DEFINE c == Pick(T)
<1>6. c \in T /\ total[T] = f[c] + total[T \ {c}] /\ f[c] \in Int
  BY <1>1, <1>3, <1>5 DEF Summable
<1> HIDE DEF c
<1>7. total[T \ {c}] \in Int
  <2>1. Good(T \ {c})
    BY <1>3, <1>4, <1>6
  <2> QED
    BY <2>1
<1>8. ASSUME NEW x \in T PROVE total[T] = f[x] + total[T \ {x}]
  <2>1. CASE x = c
    BY <1>6, <2>1
  <2>2. CASE x # c
    <3>1. Good(T \ {c}) /\ Good(T \ {x})
      BY <1>3, <1>4, <1>6
    <3>2. total[T \ {c}] = f[x] + total[(T \ {c}) \ {x}]
      BY <2>2, <3>1
    <3>3. total[T \ {x}] = f[c] + total[(T \ {x}) \ {c}]
      BY <1>6, <2>2, <3>1
    <3>4. (T \ {c}) \ {x} = (T \ {x}) \ {c} /\ (T \ {c}) \ {x} \in SUBSET S
      BY <1>3
    <3>5. Good((T \ {c}) \ {x}) /\ f[x] \in Int
      BY <1>3, <1>4, <1>6, <3>4 DEF Summable
    <3> DEFINE rest == total[(T \ {c}) \ {x}]
    <3>6. rest \in Int /\ total[T \ {c}] = f[x] + rest /\ total[T \ {x}] = f[c] + rest
      BY <3>2, <3>3, <3>4, <3>5
    <3> HIDE DEF rest, Good
    <3> QED
      BY <1>6, <3>5, <3>6
  <2> QED
    BY <2>1, <2>2
<1>9. total[T] \in Int
  BY <1>6, <1>7
<1>10. Good(T)
  BY <1>8, <1>9
<1> QED
  BY <1>3, <1>10

\* Functions that agree on T have the same sum over T.
LEMMA TotalsAgree ==
  ASSUME NEW f, NEW h, NEW S, Summable(f, S), Summable(h, S),
         NEW F, IsTotal(F, f, S), NEW H, IsTotal(H, h, S)
  PROVE  \A T \in SUBSET S : (\A x \in T : f[x] = h[x]) => F[T] = H[T]
<1> DEFINE X == {T \in SUBSET S : (\A x \in T : f[x] = h[x]) /\ F[T] # H[T]}
<1> SUFFICES ASSUME X # {} PROVE FALSE
  OBVIOUS
<1>1. PICK T \in X : \A R \in X : R \subseteq T => R = T
  <2>1. X \subseteq SUBSET S /\ IsFiniteSet(S)
    BY DEF Summable
  <2> HIDE DEF X
  <2> QED
    BY <2>1, SmallestSubset
<1>2. T \in SUBSET S /\ (\A x \in T : f[x] = h[x]) /\ F[T] # H[T]
  BY <1>1
<1>3. T # {}
  BY <1>2 DEF IsTotal, SumStep
<1>4. PICK x \in T : TRUE
  BY <1>3
<1>5. T \ {x} \in SUBSET S /\ F[T \ {x}] = H[T \ {x}]
  BY <1>1, <1>2, <1>4
<1>6. F[T] = f[x] + F[T \ {x}] /\ H[T] = h[x] + H[T \ {x}]
  BY <1>2, TotalRemoves
<1> QED
  BY <1>2, <1>5, <1>6

\* The sum is one of the totals.
LEMMA SumIsTotal ==
  ASSUME NEW f, NEW S, IsFiniteSet(S)
  PROVE  \E total : IsTotal(total, f, S) /\ SumFunctionOnSet(f, S) = total[S]
<1>1. IsTotal(CHOOSE total : IsTotal(total, f, S), f, S)
  BY TotalExists
<1> QED
  BY <1>1, SumIsChosen

\* When one element of the set gets another value, the sum moves by the
\* difference; what happens outside the set does not matter.
LEMMA SumMoves ==
  ASSUME NEW f, NEW h, NEW S, Summable(f, S), Summable(h, S),
         NEW x, \A y \in S \ {x} : h[y] = f[y]
  PROVE  SumFunctionOnSet(h, S) = SumFunctionOnSet(f, S) + (IF x \in S THEN h[x] - f[x] ELSE 0)
<1>1. PICK F : IsTotal(F, f, S) /\ SumFunctionOnSet(f, S) = F[S]
  BY SumIsTotal DEF Summable
<1>2. PICK H : IsTotal(H, h, S) /\ SumFunctionOnSet(h, S) = H[S]
  BY SumIsTotal DEF Summable
<1>3. F[S] \in Int
  BY <1>1, TotalRemoves
<1>4. CASE x \notin S
  <2>1. F[S] = H[S]
    BY <1>1, <1>2, <1>4, TotalsAgree
  <2> QED
    BY <1>1, <1>2, <1>3, <1>4, <2>1
<1>5. CASE x \in S
  <2>1. F[S] = f[x] + F[S \ {x}] /\ F[S \ {x}] \in Int
    BY <1>1, <1>5, TotalRemoves
  <2>2. H[S] = h[x] + H[S \ {x}]
    BY <1>2, <1>5, TotalRemoves
  <2>3. F[S \ {x}] = H[S \ {x}]
    BY <1>1, <1>2, TotalsAgree
  <2>4. f[x] \in Int /\ h[x] \in Int
    BY <1>5 DEF Summable
  <2> QED
    BY <1>1, <1>2, <1>5, <2>1, <2>2, <2>3, <2>4
<1> QED
  BY <1>4, <1>5

\* A sum of integers is an integer; a sum of zeros is zero.
LEMMA SumIsInt ==
  ASSUME NEW f, NEW S, Summable(f, S)
  PROVE  /\ SumFunctionOnSet(f, S) \in Int
         /\ (\A x \in S : f[x] = 0) => SumFunctionOnSet(f, S) = 0
<1>1. PICK F : IsTotal(F, f, S) /\ SumFunctionOnSet(f, S) = F[S]
  BY SumIsTotal DEF Summable
<1>2. SumFunctionOnSet(f, S) \in Int
  BY <1>1, TotalRemoves
<1>3. ASSUME \A x \in S : f[x] = 0 PROVE F[S] = 0
  <2> DEFINE X == {T \in SUBSET S : F[T] # 0}
  <2> SUFFICES ASSUME X # {} PROVE FALSE
    OBVIOUS
  <2>1. PICK T \in X : \A R \in X : R \subseteq T => R = T
    <3>1. X \subseteq SUBSET S /\ IsFiniteSet(S)
      BY DEF Summable
    <3> HIDE DEF X
    <3> QED
      BY <3>1, SmallestSubset
  <2>2. T \in SUBSET S /\ F[T] # 0
    BY <2>1
  <2>3. T # {}
    BY <1>1, <2>2 DEF IsTotal, SumStep
  <2>4. PICK x \in T : TRUE
    BY <2>3
  <2>5. T \ {x} \in SUBSET S /\ F[T \ {x}] = 0
    BY <2>1, <2>2, <2>4
  <2>6. F[T] = f[x] + F[T \ {x}]
    BY <1>1, <2>2, <2>4, TotalRemoves
  <2> QED
    BY <1>3, <2>2, <2>5, <2>6
<1> QED
  BY <1>1, <1>2, <1>3

-----------------------------------------------------------------------------
(* The balances and the order table.                                       *)

\* Holds and payments are numbers, and a user has finitely many orders.
LEMMA RowsAreSummable ==
  ASSUME NEW rows \in [Order -> OrderRow], NEW u \in User
  PROVE  /\ Summable([o \in Order |-> HeldOf(rows[o])], OrdersOf(u))
         /\ Summable([o \in Order |-> PaidOf(rows[o])], OrdersOf(u))
<1>1. IsFiniteSet(OrdersOf(u))
  BY OrdersAreFinite, FS_Subset DEF OrdersOf
<1>2. ASSUME NEW o \in OrdersOf(u) PROVE o \in Order /\ HeldOf(rows[o]) \in Int /\ PaidOf(rows[o]) \in Int
  <2>1. o \in Order
    BY DEF OrdersOf
  <2>2. rows[o].hold \in Nat /\ rows[o].actual \in Nat
    BY <2>1, AmountsAreNat DEF OrderRow
  <2> QED
    BY <2>1, <2>2 DEF HeldOf, PaidOf
<1> QED
  BY <1>1, <1>2 DEF Summable

\* The books: what accounts reserve, what came of the deposits, and what the
\* ledger entries of the orders say.
Books == HoldsAreBacked /\ CreditsConserved /\ EntriesExplainOrders

\* The entries still explain the orders when one order row changes and an
\* entry is posted for what the change is worth.
LEMMA EntriesMove ==
  ASSUME TypeOK, EntriesExplainOrders,
         NEW o \in Order, NEW row, order' = [order EXCEPT ![o] = row],
         NEW da \in Int, NEW dr \in Int, PostEntry(o, da, dr),
         HeldOf(order[o]) + dr = HeldOf(row),
         PaidOf(row) = PaidOf(order[o]) - (da + dr)
  PROVE  EntriesExplainOrders'
<1> SUFFICES ASSUME NEW p \in Order
             PROVE  /\ posted'[p].reserved = HeldOf(order'[p])
                    /\ posted'[p].available = -(HeldOf(order'[p]) + PaidOf(order'[p]))
  BY DEF EntriesExplainOrders, HeldOf, PaidOf
<1>1. /\ posted[p].reserved = HeldOf(order[p])
      /\ posted[p].available = -(HeldOf(order[p]) + PaidOf(order[p]))
  BY DEF EntriesExplainOrders
<1>2. CASE p # o
  <2>1. posted'[p] = posted[p] /\ order'[p] = order[p]
    BY <1>2 DEF PostEntry, TypeOK
  <2> QED
    BY <1>1, <2>1
<1>3. CASE p = o
  <2>1. order'[p] = row /\ posted'[p] = Add(posted[p], da, dr)
    BY <1>3 DEF PostEntry, TypeOK
  <2>2. posted'[p].reserved = posted[p].reserved + dr /\ posted'[p].available = posted[p].available + da
    BY <2>1 DEF Add
  <2>3. order[p].hold \in Nat /\ order[p].actual \in Nat
    BY AmountsAreNat DEF TypeOK, OrderRow
  <2> DEFINE hold == HeldOf(order[p])
             pay == PaidOf(order[p])
  <2>4. hold \in Int /\ pay \in Int
    BY <2>3 DEF HeldOf, PaidOf
  <2>5. hold + dr = HeldOf(row) /\ PaidOf(row) = pay - (da + dr)
    BY <1>3
  <2>6. posted[p].reserved = hold /\ posted[p].available = -(hold + pay)
    BY <1>1
  <2> HIDE DEF hold, pay
  <2>7. -(hold + pay) + da = -((hold + dr) + (pay - (da + dr)))
    BY <2>4
  <2> QED
    BY <2>1, <2>2, <2>5, <2>6, <2>7
<1> QED
  BY <1>2, <1>3

\* And when no order changes what it holds or has cost and nothing is posted.
LEMMA EntriesStay ==
  ASSUME EntriesExplainOrders, UNCHANGED <<posted, HeldMap, PaidMap>>
  PROVE  EntriesExplainOrders'
<1> SUFFICES ASSUME NEW p \in Order
             PROVE  /\ posted'[p].reserved = HeldOf(order'[p])
                    /\ posted'[p].available = -(HeldOf(order'[p]) + PaidOf(order'[p]))
  BY DEF EntriesExplainOrders, HeldOf, PaidOf
<1>1. /\ HeldMap[p] = HeldOf(order[p]) /\ PaidMap[p] = PaidOf(order[p])
      /\ HeldMap'[p] = HeldOf(order'[p]) /\ PaidMap'[p] = PaidOf(order'[p])
  BY DEF HeldMap, PaidMap, HeldOf, PaidOf
<1>2. HeldOf(order'[p]) = HeldOf(order[p]) /\ PaidOf(order'[p]) = PaidOf(order[p])
  BY <1>1
<1> QED
  BY <1>2 DEF EntriesExplainOrders

\* The books are kept by a step that changes one order row and moves the
\* owner's credits by what the change is worth.
LEMMA BooksMove ==
  ASSUME TypeOK, TypeOK', Books,
         NEW o \in Order, NEW row, order' = [order EXCEPT ![o] = row],
         NEW da \in Int, NEW dr \in Int, MoveCredits(OwnerOf[o], da, dr), UNCHANGED deposited,
         PostEntry(o, da, dr),
         HeldOf(order[o]) + dr = HeldOf(row),
         PaidOf(row) = PaidOf(order[o]) - (da + dr)
  PROVE  Books'
<1> USE DEF Books
<1>0. EntriesExplainOrders'
  BY EntriesMove
<1> SUFFICES ASSUME NEW u \in User
             PROVE  /\ reserved'[u] = SumFunctionOnSet(HeldMap', OrdersOf(u))
                    /\ available'[u] + reserved'[u] + SumFunctionOnSet(PaidMap', OrdersOf(u))
                         = deposited'[u]
  BY <1>0 DEF HoldsAreBacked, CreditsConserved, OrdersOf
<1> DEFINE S == OrdersOf(u)
           mine == o \in S
           held == SumFunctionOnSet(HeldMap, S)
           paid == SumFunctionOnSet(PaidMap, S)
<1>1. mine <=> OwnerOf[o] = u
  BY DEF OrdersOf
<1>2. /\ \A p \in S \ {o} : HeldMap'[p] = HeldMap[p] /\ PaidMap'[p] = PaidMap[p]
      /\ HeldMap[o] = HeldOf(order[o]) /\ HeldMap'[o] = HeldOf(row)
      /\ PaidMap[o] = PaidOf(order[o]) /\ PaidMap'[o] = PaidOf(row)
  <2>1. order'[o] = row /\ \A p \in Order \ {o} : order'[p] = order[p]
    BY DEF TypeOK
  <2>2. \A p \in Order : HeldMap[p] = HeldOf(order[p]) /\ PaidMap[p] = PaidOf(order[p])
    BY DEF HeldMap, PaidMap
  <2>3. \A p \in Order : HeldMap'[p] = HeldOf(order'[p]) /\ PaidMap'[p] = PaidOf(order'[p])
    BY DEF HeldMap, PaidMap, HeldOf, PaidOf
  <2> QED
    BY <2>1, <2>2, <2>3 DEF OrdersOf
<1>3. /\ Summable(HeldMap, S) /\ Summable(PaidMap, S)
      /\ Summable(HeldMap', S) /\ Summable(PaidMap', S)
  <2>1. order \in [Order -> OrderRow] /\ order' \in [Order -> OrderRow]
    BY DEF TypeOK
  <2>2. /\ HeldMap' = [p \in Order |-> HeldOf(order'[p])]
        /\ PaidMap' = [p \in Order |-> PaidOf(order'[p])]
    BY DEF HeldMap, PaidMap, HeldOf, PaidOf
  <2> QED
    BY <2>1, <2>2, RowsAreSummable DEF HeldMap, PaidMap
<1> HIDE DEF S
<1>4. /\ SumFunctionOnSet(HeldMap', S) = held + (IF mine THEN HeldMap'[o] - HeldMap[o] ELSE 0)
      /\ SumFunctionOnSet(PaidMap', S) = paid + (IF mine THEN PaidMap'[o] - PaidMap[o] ELSE 0)
  BY <1>2, <1>3, SumMoves
<1>5. held \in Int /\ paid \in Int
  BY <1>3, SumIsInt
<1>6. reserved[u] = held /\ available[u] + held + paid = deposited[u]
  BY DEF HoldsAreBacked, CreditsConserved, S
<1>7. /\ available[u] \in Int /\ deposited[u] \in Int
      /\ HeldOf(order[o]) \in Int /\ PaidOf(order[o]) \in Int
  <2>1. order[o].hold \in Nat /\ order[o].actual \in Nat
    BY AmountsAreNat DEF TypeOK, OrderRow
  <2> QED
    BY <2>1 DEF TypeOK, HeldOf, PaidOf
<1>8. /\ available'[u] = available[u] + (IF mine THEN da ELSE 0)
      /\ reserved'[u] = reserved[u] + (IF mine THEN dr ELSE 0)
      /\ deposited'[u] = deposited[u]
  BY <1>1, <1>5, <1>6, <1>7 DEF MoveCredits, TypeOK
<1> DEFINE hold == HeldOf(order[o])
           pay == PaidOf(order[o])
<1>9. /\ SumFunctionOnSet(HeldMap', S) = held + (IF mine THEN (hold + dr) - hold ELSE 0)
      /\ SumFunctionOnSet(PaidMap', S) = paid + (IF mine THEN (pay - (da + dr)) - pay ELSE 0)
  BY <1>2, <1>4
<1>10. hold \in Int /\ pay \in Int
  BY <1>7
<1> HIDE DEF held, paid, hold, pay, mine
<1>11. /\ reserved'[u] = SumFunctionOnSet(HeldMap', S)
       /\ available'[u] + reserved'[u] + SumFunctionOnSet(PaidMap', S) = deposited'[u]
  <2>1. CASE mine
    BY <1>5, <1>6, <1>7, <1>8, <1>9, <1>10, <2>1
  <2>2. CASE ~mine
    BY <1>5, <1>6, <1>7, <1>8, <1>9, <1>10, <2>2
  <2> QED
    BY <2>1, <2>2
<1> QED
  BY <1>11 DEF S

\* Free credits move by what is deposited.
DepositsAreFree ==
    \A u \in User : available'[u] - available[u] = deposited'[u] - deposited[u]

\* The books are kept by a step that leaves holds and payments as they are
\* and moves free credits by what it deposits.
LEMMA BooksStay ==
  ASSUME TypeOK, Books,
         UNCHANGED <<reserved, posted, HeldMap, PaidMap>>,
         DepositsAreFree,
         available' \in [User -> Int], deposited' \in [User -> Int]
  PROVE  Books'
<1> USE DEF Books
<1>0. EntriesExplainOrders'
  BY EntriesStay
<1> SUFFICES ASSUME NEW u \in User
             PROVE  /\ reserved'[u] = SumFunctionOnSet(HeldMap', OrdersOf(u))
                    /\ available'[u] + reserved'[u] + SumFunctionOnSet(PaidMap', OrdersOf(u))
                         = deposited'[u]
  BY <1>0 DEF HoldsAreBacked, CreditsConserved, OrdersOf
<1> DEFINE paid == SumFunctionOnSet(PaidMap, OrdersOf(u))
<1>1. paid \in Int
  <2>1. order \in [Order -> OrderRow]
    BY DEF TypeOK
  <2> QED
    BY <2>1, RowsAreSummable, SumIsInt DEF PaidMap
<1>2. /\ reserved[u] = SumFunctionOnSet(HeldMap, OrdersOf(u))
      /\ available[u] + reserved[u] + paid = deposited[u]
  BY DEF HoldsAreBacked, CreditsConserved
<1>3. /\ available[u] \in Int /\ available'[u] \in Int /\ reserved[u] \in Int
      /\ deposited[u] \in Int /\ deposited'[u] \in Int
  BY DEF TypeOK
<1> DEFINE free == available[u]
           freeNext == available'[u]
           in == deposited[u]
           inNext == deposited'[u]
           kept == reserved[u]
<1>4. freeNext - free = inNext - in /\ free + kept + paid = in
  BY <1>2 DEF DepositsAreFree
<1>5. free \in Int /\ freeNext \in Int /\ in \in Int /\ inNext \in Int /\ kept \in Int
  BY <1>3
<1> HIDE DEF paid, free, freeNext, in, inNext, kept, Books
<1>6. freeNext + kept + paid = inNext
  BY <1>1, <1>4, <1>5
<1> QED
  BY <1>2, <1>6 DEF paid, freeNext, inNext, kept

\* A change of a row that neither its hold nor its payment shows, such as a
\* status among the open ones, leaves the books alone.
LEMMA BooksIgnore ==
  ASSUME TypeOK, NEW o \in Order, NEW row, order' = [order EXCEPT ![o] = row],
         HeldOf(row) = HeldOf(order[o]), PaidOf(row) = PaidOf(order[o])
  PROVE  UNCHANGED <<HeldMap, PaidMap>>
<1>1. /\ HeldMap' = [p \in Order |-> HeldOf(order'[p])]
      /\ PaidMap' = [p \in Order |-> PaidOf(order'[p])]
  BY DEF HeldMap, PaidMap, HeldOf, PaidOf
<1>2. \A p \in Order : /\ HeldOf(order'[p]) = HeldOf(order[p])
                       /\ PaidOf(order'[p]) = PaidOf(order[p])
  <2>1. order'[o] = row /\ \A p \in Order \ {o} : order'[p] = order[p]
    BY DEF TypeOK
  <2> QED
    BY <2>1
<1> QED
  BY <1>1, <1>2 DEF HeldMap, PaidMap

\* Under snapshot isolation every step keeps the books.
LEMMA BooksStep ==
  ASSUME Isolation = "snapshot", SnapshotInv, TypeOK', Books, [Next]_vars
  PROVE  Books'
<1> USE DEF SnapshotInv
<1>1. ASSUME UNCHANGED <<available, reserved, deposited, posted, HeldMap, PaidMap>>
      PROVE  Books'
  <2>1. DepositsAreFree
    BY <1>1 DEF DepositsAreFree, TypeOK
  <2> QED
    BY <1>1, <2>1, BooksStay DEF TypeOK
<1>2. ASSUME UNCHANGED <<available, reserved, deposited, posted, order>>
      PROVE  Books'
  BY <1>1, <1>2 DEF HeldMap, PaidMap, HeldOf, PaidOf
<1>3. ASSUME NEW u \in User, NEW n \in Int, Deposit(u, n)
      PROVE  Books'
  <2>1. UNCHANGED <<reserved, posted, HeldMap, PaidMap>>
    BY <1>3 DEF Deposit, HeldMap, PaidMap, HeldOf, PaidOf
  <2>2. DepositsAreFree
    BY <1>3 DEF DepositsAreFree, Deposit, TypeOK
  <2> QED
    BY <2>1, <2>2, BooksStay DEF TypeOK
<1>4. ASSUME NEW u \in User,
             \/ \E key \in GrantKey : GrantCreditsOnce(u, key)
             \/ \E code \in RedeemCode : RedeemCredits(u, code)
             \/ \E n \in Adjustment : AdjustCredits(u, n)
      PROVE  Books'
  BY <1>3, <1>4 DEF GrantCreditsOnce, RedeemCredits, AdjustCredits
<1>5. ASSUME NEW code \in RedeemCode, DisableRedeemCode(code)
      PROVE  Books'
  BY <1>2, <1>5 DEF DisableRedeemCode
<1>6. ASSUME NEW o \in Order, NEW amount \in Price, ReserveBillingOrder(o, amount)
      PROVE  Books'
  <2> DEFINE row == [status |-> "reserved", hold |-> amount, actual |-> 0]
  <2>1. /\ HeldOf(row) = amount /\ PaidOf(row) = 0
        /\ HeldOf(order[o]) = 0 /\ PaidOf(order[o]) = 0
    BY <1>6 DEF ReserveBillingOrder, HeldOf, PaidOf, OpenStatus
  <2>2. /\ order' = [order EXCEPT ![o] = row] /\ MoveCredits(OwnerOf[o], -amount, amount)
        /\ UNCHANGED deposited /\ PostEntry(o, -amount, amount)
    BY <1>6 DEF ReserveBillingOrder
  <2>3. amount \in Int /\ -amount \in Int /\ 0 + amount = amount /\ 0 = 0 - (-amount + amount)
    OBVIOUS
  <2> HIDE DEF row
  <2> QED
    BY <2>1, <2>2, <2>3, BooksMove
<1>7. ASSUME NEW o \in Order, NEW amount \in Price, RepriceReservation(o, amount)
      PROVE  Books'
  <2> DEFINE row == [order[o] EXCEPT !.hold = amount]
             delta == amount - order[o].hold
             back == -delta
  <2>1. order[o] \in OrderRow /\ row.status = order[o].status /\ row.hold = amount
    BY DEF TypeOK, OrderRow
  <2>2. /\ HeldOf(row) = amount /\ PaidOf(row) = 0
        /\ HeldOf(order[o]) = order[o].hold /\ PaidOf(order[o]) = 0
    BY <1>7, <2>1 DEF RepriceReservation, HeldOf, PaidOf, OpenStatus
  <2>3. order[o].hold \in Nat
    BY <2>1, AmountsAreNat DEF OrderRow
  <2>4. /\ delta \in Int /\ back \in Int /\ HeldOf(order[o]) + delta = HeldOf(row)
        /\ PaidOf(row) = PaidOf(order[o]) - (back + delta)
    <3>1. \A a, h \in Int : h + (a - h) = a /\ 0 = 0 - (-(a - h) + (a - h))
      OBVIOUS
    <3>2. amount \in Int /\ order[o].hold \in Int /\ delta \in Int /\ back \in Int
      BY <2>3
    <3> QED
      BY <2>2, <3>1, <3>2
  <2>5. /\ order' = [order EXCEPT ![o] = row] /\ MoveCredits(OwnerOf[o], back, delta)
        /\ UNCHANGED deposited /\ PostEntry(o, back, delta)
    BY <1>7 DEF RepriceReservation
  <2> HIDE DEF row, delta, back
  <2> QED
    BY <2>4, <2>5, BooksMove
<1>8. ASSUME NEW o \in Order, MarkBillingRunning(o) \/ MarkBillingUncertain(o)
      PROVE  Books'
  <2>1. PICK to \in OpenStatus :
          /\ order[o].status \in OpenStatus
          /\ order' = [order EXCEPT ![o].status = to]
          /\ UNCHANGED <<available, reserved, deposited, posted>>
    BY <1>8 DEF MarkBillingRunning, MarkBillingUncertain, SetStatus, OpenStatus
  <2> DEFINE row == [order[o] EXCEPT !.status = to]
  <2>2. row.status = to /\ row.hold = order[o].hold
    BY DEF TypeOK, OrderRow
  <2>3. order' = [order EXCEPT ![o] = row]
    BY <2>1
  <2> HIDE DEF row
  <2>4. HeldOf(row) = HeldOf(order[o]) /\ PaidOf(row) = PaidOf(order[o])
    BY <2>1, <2>2 DEF HeldOf, PaidOf, OpenStatus
  <2>5. UNCHANGED <<HeldMap, PaidMap>>
    BY <2>3, <2>4, BooksIgnore
  <2> QED
    BY <1>1, <2>1, <2>5
<1>9. ASSUME NEW c \in Call, NEW o \in Order, NEW op \in {"settle", "refund"}, BeginRelease(c, o, op)
      PROVE  Books'
  BY <1>2, <1>9 DEF BeginRelease
<1>10. ASSUME NEW c \in Call, NEW to \in FinalStatus, NEW actual \in Amount, Ends(c, to, actual)
       PROVE  Books'
  <2> DEFINE o == call[c].order
             row == [order[o] EXCEPT !.status = to, !.actual = actual]
             hold == order[o].hold
             d == hold - (IF to = "settled" THEN actual ELSE 0)
             back == -hold
  <2>1. /\ o \in Order /\ call[c].seen = order[o] /\ order[o].status \in OpenStatus
        /\ Release(c, to, actual, d) /\ PostEntry(o, d, back)
    BY <1>10, ReleasesAnOpenOrder DEF Ends, Release
  <2>2. order[o] \in OrderRow /\ row.status = to /\ row.actual = actual
    BY <2>1 DEF TypeOK, OrderRow
  <2>3. /\ order' = [order EXCEPT ![o] = row] /\ MoveCredits(OwnerOf[o], d, back)
        /\ UNCHANGED deposited
    BY <2>1 DEF Release, TypeOK
  <2>4. hold \in Nat /\ actual \in Nat /\ back \in Int /\ d \in Int
    BY <2>2, AmountsAreNat DEF OrderRow
  <2> HIDE DEF row
  <2>5. /\ HeldOf(row) = 0 /\ HeldOf(order[o]) = hold
        /\ PaidOf(row) = (IF to = "settled" THEN actual ELSE 0) /\ PaidOf(order[o]) = 0
    BY <2>1, <2>2 DEF HeldOf, PaidOf, OpenStatus, FinalStatus
  <2>6. HeldOf(order[o]) + back = HeldOf(row) /\ PaidOf(row) = PaidOf(order[o]) - (d + back)
    BY <2>4, <2>5
  <2> HIDE DEF o, hold, back, d
  <2> QED
    BY <2>1, <2>3, <2>4, <2>6, BooksMove
<1>11. ASSUME NEW c \in Call,
              \/ SettleFixed(c)
              \/ \E actual \in Usage : SettleByUsage(c, actual)
              \/ Refund(c)
       PROVE  Books'
  BY <1>10, <1>11, ReleaseForms DEF Released
<1>12. ASSUME NEW c \in Call, ReleaseFails(c)
       PROVE  Books'
  BY <1>2, <1>12 DEF ReleaseFails
<1>13. ASSUME NEW c \in Call, NEW actual \in Usage, SettleFailsWithUsage(c, actual)
       PROVE  Books'
  <2> DEFINE o == call[c].order
             row == [order[o] EXCEPT !.actual = actual]
  <2>1. o \in Order
    BY <1>13 DEF SettleFailsWithUsage, TypeOK, CallRow, Idle
  <2>2. /\ row.status = order[o].status /\ row.hold = order[o].hold
        /\ order[o].status \notin FinalStatus
    BY <1>13, <2>1 DEF TypeOK, OrderRow, SettleFailsWithUsage
  <2>3. order' = [order EXCEPT ![o] = row] /\ UNCHANGED <<available, reserved, deposited, posted>>
    BY <1>13 DEF SettleFailsWithUsage
  <2> HIDE DEF o, row
  <2>4. HeldOf(row) = HeldOf(order[o]) /\ PaidOf(row) = PaidOf(order[o])
    BY <2>2 DEF HeldOf, PaidOf, FinalStatus
  <2>5. UNCHANGED <<HeldMap, PaidMap>>
    BY <2>1, <2>3, <2>4, BooksIgnore
  <2> QED
    BY <1>1, <2>3, <2>5
<1>14. CASE UNCHANGED vars
  BY <1>2, <1>14 DEF vars
<1> QED
  BY <1>4, <1>5, <1>6, <1>7, <1>8, <1>9, <1>11, <1>12, <1>13, <1>14 DEF Next

\* In the first state nothing is held, paid or deposited.
LEMMA BooksInit == Init => Books
<1> SUFFICES ASSUME Init, NEW u \in User
             PROVE  /\ reserved[u] = SumFunctionOnSet(HeldMap, OrdersOf(u))
                    /\ available[u] + reserved[u] + SumFunctionOnSet(PaidMap, OrdersOf(u))
                         = deposited[u]
  <2>1. ASSUME Init PROVE EntriesExplainOrders
    BY <2>1 DEF Init, EntriesExplainOrders, HeldOf, PaidOf, OpenStatus
  <2> QED
    BY <2>1 DEF Books, HoldsAreBacked, CreditsConserved
<1>1. \A o \in OrdersOf(u) : HeldMap[o] = 0 /\ PaidMap[o] = 0
  BY DEF Init, HeldMap, PaidMap, HeldOf, PaidOf, OpenStatus, OrdersOf
<1>2. IsFiniteSet(OrdersOf(u))
  BY OrdersAreFinite, FS_Subset DEF OrdersOf
<1>3. SumFunctionOnSet(HeldMap, OrdersOf(u)) = 0 /\ SumFunctionOnSet(PaidMap, OrdersOf(u)) = 0
  BY <1>1, <1>2, SumIsInt DEF Summable
<1> QED
  BY <1>3 DEF Init

\* SQLite: the books balance in every state, in the invariant SnapshotInv.
LEMMA BooksInvariant == Isolation = "snapshot" => (Spec => []Books)
<1> SUFFICES ASSUME Isolation = "snapshot" PROVE Spec => []Books
  OBVIOUS
<1>1. SnapshotInv /\ TypeOK' /\ Books /\ [Next]_vars => Books'
  BY BooksStep
<1> QED
  BY <1>1, BooksInit, SnapshotInvariant, TypeCorrect, PTL DEF Spec

\* SQLite: the reserved balance of an account is at all times what its open
\* orders hold; no release, however late its read, eats into another order's
\* credits.
THEOREM HoldsStayBacked == Isolation = "snapshot" => (Spec => []HoldsAreBacked)
  BY BooksInvariant, PTL DEF Books

\* SQLite: every credit deposited is free, held by an open order or paid for
\* a settled one, at all times.
THEOREM CreditsStayConserved == Isolation = "snapshot" => (Spec => []CreditsConserved)
  BY BooksInvariant, PTL DEF Books

\* SQLite: at all times the ledger entries of an order add up to what its
\* row holds and has cost, however the hold was repriced and whichever of the
\* racing transactions ended the order.
THEOREM EntriesStayExplained == Isolation = "snapshot" => (Spec => []EntriesExplainOrders)
  BY BooksInvariant, PTL DEF Books

-----------------------------------------------------------------------------
(* Refinement of CreditSettlement.                                         *)

\* How the outcome of an order follows from its status.
LEMMA OutcomeForms ==
  ASSUME NEW row
  PROVE  /\ row.status = "none" => OutcomeOf(row) = "absent"
         /\ row.status \in OpenStatus => OutcomeOf(row) = "open"
         /\ row.status = "settled" => OutcomeOf(row) = "consumed"
         /\ row.status = "refunded" => OutcomeOf(row) = "returned"
  BY DEF OutcomeOf, OpenStatus

\* A step that rewrites one order row changes the mapping in that order only.
LEMMA MappingMoves ==
  ASSUME TypeOK, NEW o \in Order, NEW row, order' = [order EXCEPT ![o] = row]
  PROVE  /\ HeldMap' = [HeldMap EXCEPT ![o] = HeldOf(row)]
         /\ OutcomeMap' = [OutcomeMap EXCEPT ![o] = OutcomeOf(row)]
<1>1. /\ order'[o] = row
      /\ \A p \in Order \ {o} : order'[p] = order[p]
  BY DEF TypeOK
<1>2. /\ HeldMap' = [p \in Order |-> HeldOf(order'[p])]
      /\ OutcomeMap' = [p \in Order |-> OutcomeOf(order'[p])]
  BY DEF HeldMap, OutcomeMap, HeldOf, OutcomeOf
<1>3. /\ [HeldMap EXCEPT ![o] = HeldOf(row)] = [p \in Order |-> HeldOf(order'[p])]
      /\ [OutcomeMap EXCEPT ![o] = OutcomeOf(row)] = [p \in Order |-> OutcomeOf(order'[p])]
  BY <1>1 DEF HeldMap, OutcomeMap
<1> QED
  BY <1>2, <1>3

\* A step that leaves the orders alone leaves their abstract view alone.
LEMMA MappingStays == UNCHANGED order => UNCHANGED <<HeldMap, OutcomeMap>>
  BY DEF HeldMap, OutcomeMap, HeldOf, OutcomeOf


\* Initial states map to initial states.
LEMMA SettlementInit == Init => Settlement!SInit
<1> SUFFICES ASSUME Init PROVE Settlement!SInit
  OBVIOUS
<1>1. \A o \in Order : HeldOf(order[o]) = 0 /\ OutcomeOf(order[o]) = "absent"
  BY DEF Init, HeldOf, OutcomeOf, OpenStatus
<1>2. HeldMap = [o \in Order |-> 0] /\ OutcomeMap = [o \in Order |-> "absent"]
  BY <1>1 DEF HeldMap, OutcomeMap
<1> QED
  BY <1>2 DEF Init, Settlement!SInit

\* A deposit is a transfer of CreditSettlement.
LEMMA RefinesTransfer ==
  ASSUME NEW u \in User, NEW n \in Adjustment \cup {DepositUnit}, Deposit(u, n),
         n < 0 => available[u] + n >= 0
  PROVE  Settlement!SNext
<1>1. HeldMap' = HeldMap /\ OutcomeMap' = OutcomeMap
  BY MappingStays DEF Deposit
<1>2. Settlement!Transfer(u, n)
  BY <1>1 DEF Deposit, Settlement!Transfer
<1> QED
  BY <1>2 DEF Settlement!SNext

\* A reservation is a hold of CreditSettlement.
LEMMA RefinesHold ==
  ASSUME TypeOK, NEW o \in Order, NEW amount \in Price, ReserveBillingOrder(o, amount)
  PROVE  Settlement!SNext
<1> DEFINE row == [status |-> "reserved", hold |-> amount, actual |-> 0]
<1>1. HeldOf(row) = amount /\ OutcomeOf(row) = "open"
  BY OutcomeForms DEF HeldOf, OpenStatus
<1>2. OutcomeMap[o] = "absent"
  BY OutcomeForms DEF ReserveBillingOrder, OutcomeMap
<1>3. order' = [order EXCEPT ![o] = row]
  BY DEF ReserveBillingOrder
<1>4. available' = [available EXCEPT ![OwnerOf[o]] = @ - amount]
  BY DEF ReserveBillingOrder, MoveCredits, TypeOK
<1> HIDE DEF row
<1>5. /\ HeldMap' = [HeldMap EXCEPT ![o] = amount]
      /\ OutcomeMap' = [OutcomeMap EXCEPT ![o] = "open"]
  BY <1>1, <1>3, MappingMoves
<1>6. Settlement!Hold(o, amount)
  BY <1>2, <1>4, <1>5 DEF ReserveBillingOrder, Settlement!Hold
<1> QED
  BY <1>6 DEF Settlement!SNext, Amount

\* Repricing a reservation is CreditSettlement's repricing.
LEMMA RefinesReprice ==
  ASSUME TypeOK, NEW o \in Order, NEW amount \in Price, RepriceReservation(o, amount)
  PROVE  Settlement!SNext
<1> DEFINE row == [order[o] EXCEPT !.hold = amount]
<1>1. order[o] \in OrderRow /\ row.status = order[o].status /\ row.hold = amount
  BY DEF TypeOK, OrderRow
<1>2. order[o].status \in OpenStatus /\ order' = [order EXCEPT ![o] = row]
  BY DEF RepriceReservation, OpenStatus
<1>3. order[o].hold \in Nat /\ amount \in Nat /\ OwnerOf[o] \in User
  BY <1>1, AmountsAreNat DEF OrderRow
<1>4. /\ available' = [available EXCEPT ![OwnerOf[o]] = @ + order[o].hold - amount]
      /\ amount > order[o].hold => available[OwnerOf[o]] >= amount - order[o].hold
  <2> DEFINE free == available[OwnerOf[o]]
             hold == order[o].hold
  <2>1. free \in Int /\ hold \in Nat
    BY <1>3 DEF TypeOK
  <2>2. available' = [available EXCEPT ![OwnerOf[o]] = free + -(amount - hold)]
    BY DEF RepriceReservation, MoveCredits
  <2>3. amount - hold > 0 => free >= amount - hold
    BY DEF RepriceReservation
  <2> HIDE DEF free, hold
  <2>4. free + -(amount - hold) = free + hold - amount
    BY <1>3, <2>1
  <2>5. amount > hold => free >= amount - hold
    BY <1>3, <2>1, <2>3
  <2> QED
    BY <2>2, <2>4, <2>5 DEF free, hold
<1> HIDE DEF row
<1>5. /\ HeldOf(row) = amount /\ OutcomeOf(row) = "open"
      /\ HeldMap[o] = order[o].hold /\ OutcomeMap[o] = "open"
  BY <1>1, <1>2, OutcomeForms DEF HeldOf, HeldMap, OutcomeMap
<1>6. /\ HeldMap' = [HeldMap EXCEPT ![o] = amount]
      /\ OutcomeMap' = [OutcomeMap EXCEPT ![o] = "open"]
  BY <1>2, <1>5, MappingMoves
<1>7. [OutcomeMap EXCEPT ![o] = OutcomeMap[o]] = OutcomeMap
  BY DEF OutcomeMap
<1>8. Settlement!Reprice(o, amount)
  BY <1>4, <1>5, <1>6, <1>7 DEF Settlement!Reprice
<1> QED
  BY <1>8 DEF Settlement!SNext, Amount

\* A change of status within the open ones, or of an open order's actual
\* amount, is not visible to CreditSettlement.
LEMMA RefinesStutter ==
  ASSUME TypeOK, NEW o \in Order, NEW row,
         order' = [order EXCEPT ![o] = row], UNCHANGED available,
         HeldOf(row) = HeldOf(order[o]), OutcomeOf(row) = OutcomeOf(order[o])
  PROVE  UNCHANGED <<available, HeldMap, OutcomeMap>>
<1>1. /\ [HeldMap EXCEPT ![o] = HeldOf(order[o])] = HeldMap
      /\ [OutcomeMap EXCEPT ![o] = OutcomeOf(order[o])] = OutcomeMap
  BY DEF HeldMap, OutcomeMap
<1> QED
  BY <1>1, MappingMoves

\* A release under snapshot isolation ends the one order it read.
LEMMA RefinesRelease ==
  ASSUME Isolation = "snapshot", SnapshotInv, NEW c \in Call, call[c] # Idle,
         NEW to \in FinalStatus, NEW actual \in Amount, NEW d \in Int,
         Release(c, to, actual, d)
  PROVE  LET o == call[c].order IN
         /\ o \in Order /\ OwnerOf[o] \in User
         /\ HeldMap[o] = call[c].seen.hold /\ HeldMap[o] \in Nat
         /\ OutcomeMap[o] = "open"
         /\ available' = [available EXCEPT ![OwnerOf[o]] = @ + d]
         /\ HeldMap' = [HeldMap EXCEPT ![o] = 0]
         /\ OutcomeMap' = [OutcomeMap EXCEPT ![o] = IF to = "settled" THEN "consumed" ELSE "returned"]
<1> DEFINE o == call[c].order
           row == [order[o] EXCEPT !.status = to, !.actual = actual]
<1>1. o \in Order /\ call[c].seen = order[o] /\ order[o].status \in OpenStatus
  BY ReleasesAnOpenOrder DEF Release
<1>2. order[o] \in OrderRow /\ row.status = to
  BY <1>1 DEF SnapshotInv, TypeOK, OrderRow
<1>3. order' = [order EXCEPT ![o] = row]
  BY <1>1 DEF Release, SnapshotInv, TypeOK
<1>4. available' = [available EXCEPT ![OwnerOf[o]] = @ + d]
  BY DEF Release, MoveCredits
<1> HIDE DEF row
<1>5. HeldMap[o] = order[o].hold /\ OutcomeMap[o] = "open"
  BY <1>1, OutcomeForms DEF HeldOf, HeldMap, OutcomeMap
<1>6. HeldOf(row) = 0 /\ OutcomeOf(row) = (IF to = "settled" THEN "consumed" ELSE "returned")
  BY <1>2, OutcomeForms DEF HeldOf, FinalStatus, OpenStatus
<1>7. order[o].hold \in Nat
  BY <1>2, AmountsAreNat DEF OrderRow
<1>8. /\ HeldMap' = [HeldMap EXCEPT ![o] = 0]
      /\ OutcomeMap' = [OutcomeMap EXCEPT ![o] = IF to = "settled" THEN "consumed" ELSE "returned"]
  <2> HIDE DEF o
  <2>1. /\ HeldMap' = [HeldMap EXCEPT ![o] = HeldOf(row)]
        /\ OutcomeMap' = [OutcomeMap EXCEPT ![o] = OutcomeOf(row)]
    BY <1>1, <1>3, MappingMoves DEF SnapshotInv
  <2> QED
    BY <1>6, <2>1
<1> HIDE DEF o
<1>9. OwnerOf[o] \in User /\ HeldMap[o] = call[c].seen.hold /\ HeldMap[o] \in Nat
  BY <1>1, <1>5, <1>7
<1> QED
  BY <1>1, <1>4, <1>5, <1>8, <1>9 DEF o

\* A settlement consumes the hold, a refund returns it.
LEMMA RefinesEnd ==
  ASSUME Isolation = "snapshot", SnapshotInv, NEW c \in Call, Released(c)
  PROVE  Settlement!SNext
<1>1. PICK to \in FinalStatus, actual \in Amount : Ends(c, to, actual)
  BY DEF Released
<1> DEFINE o == call[c].order
           hold == call[c].seen.hold
           d == hold - (IF to = "settled" THEN actual ELSE 0)
<1>2. call[c] # Idle /\ Release(c, to, actual, d) /\ actual \in Nat
  BY <1>1, AmountsAreNat DEF Ends
<1>3. hold \in Nat
  <2>1. call[c].seen \in OrderRow
    BY <1>2 DEF SnapshotInv, TypeOK, CallRow
  <2> QED
    BY <2>1, AmountsAreNat DEF OrderRow
<1>4. d \in Int
  BY <1>2, <1>3
<1>5. d = hold - (IF to = "settled" THEN actual ELSE 0)
  OBVIOUS
<1> HIDE DEF d
<1>6. /\ o \in Order /\ OwnerOf[o] \in User
      /\ HeldMap[o] = hold
      /\ OutcomeMap[o] = "open"
      /\ available' = [available EXCEPT ![OwnerOf[o]] = @ + d]
      /\ HeldMap' = [HeldMap EXCEPT ![o] = 0]
      /\ OutcomeMap' = [OutcomeMap EXCEPT ![o] = IF to = "settled" THEN "consumed" ELSE "returned"]
  BY <1>2, <1>4, RefinesRelease
<1> HIDE DEF o, hold
<1>7. available[OwnerOf[o]] \in Int
  BY <1>6 DEF SnapshotInv, TypeOK
<1>8. CASE to = "settled"
  <2>1. available[OwnerOf[o]] + d = available[OwnerOf[o]] + HeldMap[o] - actual
    BY <1>2, <1>3, <1>5, <1>6, <1>7, <1>8
  <2>2. Settlement!Consume(o, actual)
    BY <1>6, <1>8, <2>1 DEF Settlement!Consume
  <2> QED
    BY <1>6, <2>2 DEF Settlement!SNext
<1>9. CASE to = "refunded"
  <2>1. d = HeldMap[o]
    BY <1>3, <1>5, <1>6, <1>9
  <2>2. Settlement!Return(o)
    BY <1>6, <1>9, <2>1 DEF Settlement!Return
  <2> QED
    BY <1>6, <2>2 DEF Settlement!SNext
<1> QED
  BY <1>8, <1>9 DEF FinalStatus

\* Every step maps to a step of CreditSettlement or to a stutter.
LEMMA RefinesStep ==
  ASSUME Isolation = "snapshot", SnapshotInv, [Next]_vars
  PROVE  [Settlement!SNext]_<<available, HeldMap, OutcomeMap>>
<1> USE DEF SnapshotInv
<1>1. ASSUME NEW u \in User,
             \/ \E key \in GrantKey : GrantCreditsOnce(u, key)
             \/ \E code \in RedeemCode : RedeemCredits(u, code)
             \/ \E n \in Adjustment : AdjustCredits(u, n)
      PROVE  Settlement!SNext
  <2>1. PICK n \in Adjustment \cup {DepositUnit} :
          Deposit(u, n) /\ (n < 0 => available[u] + n >= 0)
    BY <1>1 DEF GrantCreditsOnce, RedeemCredits, AdjustCredits
  <2> QED
    BY <2>1, RefinesTransfer
<1>2. ASSUME NEW code \in RedeemCode, DisableRedeemCode(code)
      PROVE  UNCHANGED <<available, HeldMap, OutcomeMap>>
  BY <1>2, MappingStays DEF DisableRedeemCode
<1>3. ASSUME NEW o \in Order, NEW amount \in Price,
             ReserveBillingOrder(o, amount) \/ RepriceReservation(o, amount)
      PROVE  Settlement!SNext
  BY <1>3, RefinesHold, RefinesReprice
<1>4. ASSUME NEW o \in Order, MarkBillingRunning(o) \/ MarkBillingUncertain(o)
      PROVE  UNCHANGED <<available, HeldMap, OutcomeMap>>
  <2>1. PICK to \in OpenStatus :
          /\ order[o].status \in OpenStatus
          /\ order' = [order EXCEPT ![o].status = to]
          /\ UNCHANGED available
    BY <1>4 DEF MarkBillingRunning, MarkBillingUncertain, SetStatus, OpenStatus
  <2> DEFINE row == [order[o] EXCEPT !.status = to]
  <2>2. row.status = to /\ row.hold = order[o].hold
    BY DEF TypeOK, OrderRow
  <2>3. order' = [order EXCEPT ![o] = row]
    BY <2>1
  <2> HIDE DEF row
  <2>4. HeldOf(row) = HeldOf(order[o]) /\ OutcomeOf(row) = OutcomeOf(order[o])
    BY <2>1, <2>2, OutcomeForms DEF HeldOf
  <2> QED
    BY <2>1, <2>3, <2>4, RefinesStutter
<1>5. ASSUME NEW c \in Call, NEW o \in Order, NEW op \in {"settle", "refund"}, BeginRelease(c, o, op)
      PROVE  UNCHANGED <<available, HeldMap, OutcomeMap>>
  BY <1>5, MappingStays DEF BeginRelease
<1>6. ASSUME NEW c \in Call,
             \/ SettleFixed(c)
             \/ \E actual \in Usage : SettleByUsage(c, actual)
             \/ Refund(c)
      PROVE  Settlement!SNext
  BY <1>6, ReleaseForms, RefinesEnd
<1>7. ASSUME NEW c \in Call, ReleaseFails(c)
      PROVE  UNCHANGED <<available, HeldMap, OutcomeMap>>
  BY <1>7, MappingStays DEF ReleaseFails
<1>8. ASSUME NEW c \in Call, NEW actual \in Usage, SettleFailsWithUsage(c, actual)
      PROVE  UNCHANGED <<available, HeldMap, OutcomeMap>>
  <2> DEFINE o == call[c].order
             row == [order[o] EXCEPT !.actual = actual]
  <2>1. o \in Order
    BY <1>8 DEF SettleFailsWithUsage, TypeOK, CallRow, Idle
  <2>2. row.status = order[o].status /\ row.hold = order[o].hold
        /\ order[o].status \in Status \ FinalStatus
    BY <1>8, <2>1 DEF TypeOK, OrderRow, SettleFailsWithUsage
  <2>3. order' = [order EXCEPT ![o] = row] /\ UNCHANGED available
    BY <1>8 DEF SettleFailsWithUsage
  <2> HIDE DEF o, row
  <2>4. HeldOf(row) = HeldOf(order[o]) /\ OutcomeOf(row) = OutcomeOf(order[o])
    BY <2>2, OutcomeForms DEF HeldOf, Status
  <2> QED
    BY <2>1, <2>3, <2>4, RefinesStutter
<1>9. CASE UNCHANGED vars
  BY <1>9, MappingStays DEF vars
<1> QED
  BY <1>1, <1>2, <1>3, <1>4, <1>5, <1>6, <1>7, <1>8, <1>9 DEF Next

\* SQLite: every behaviour of the tables and transactions is, seen through
\* free credits, holds and outcomes, a behaviour of CreditSettlement.
THEOREM LedgerImplementsSettlement == Isolation = "snapshot" => (Spec => ImplementsSettlement)
<1> SUFFICES ASSUME Isolation = "snapshot" PROVE Spec => ImplementsSettlement
  OBVIOUS
<1>1. SnapshotInv /\ [Next]_vars => [Settlement!SNext]_<<available, HeldMap, OutcomeMap>>
  BY RefinesStep
<1> QED
  BY <1>1, SettlementInit, SnapshotInvariant, PTL
     DEF Spec, ImplementsSettlement, Settlement!SSpec, Settlement!svars
=============================================================================
