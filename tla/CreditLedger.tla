---------------------------- MODULE CreditLedger ----------------------------
(***************************************************************************)
(* Credit accounts, billing orders and the credit ledger of the backend    *)
(* (src/backend/internal/repository/finance.go).  Every repository method  *)
(* is one database transaction.  Those that write with a conditional       *)
(* UPDATE before they decide are one step.  SettleBillingOrder and         *)
(* RefundBillingOrder first SELECT the order without a lock and act on     *)
(* what they read, so each is two steps: BeginRelease reads, Settle or     *)
(* Refund writes and commits.  What may happen in between depends on the   *)
(* database the deployment uses (src/backend/internal/database):           *)
(*   "snapshot"       SQLite in WAL mode: a transaction that has read and  *)
(*                    then writes fails if anything was committed since;   *)
(*   "readCommitted"  PostgreSQL: the write waits for the row and then     *)
(*                    goes ahead on the order read before.                 *)
(***************************************************************************)
EXTENDS Integers, FiniteSetsExt

CONSTANTS
    User,         \* credit account owners
    Order,        \* billing orders
    OwnerOf,      \* OwnerOf[o]: the user order o bills
    TokenOrder,   \* the orders billed by token usage
    Call,         \* concurrent settle and refund transactions
    Price,        \* amounts an order may be priced at
    Usage,        \* amounts the reported token usage may come to
    GrantKey,     \* reference keys of one-off grants
    RedeemCode,   \* redeem codes
    Adjustment,   \* amounts an administrator may add or take away
    DepositUnit,  \* amount of a grant and of a redeem code
    MaxDeposit,   \* bound: deposits of a user in a model
    Isolation     \* "snapshot" or "readCommitted"

ASSUME LedgerAssumption ==
    /\ OwnerOf \in [Order -> User]
    /\ TokenOrder \subseteq Order
    /\ Price \subseteq Nat /\ Usage \subseteq Nat
    /\ Adjustment \subseteq Int /\ DepositUnit \in Nat /\ MaxDeposit \in Nat
    /\ Isolation \in {"snapshot", "readCommitted"}

\* A table of the database has finitely many rows.
ASSUME OrdersAreFinite == IsFiniteSet(Order)

VARIABLES
    available,  \* available[u]: credit_accounts.available_microcredits
    reserved,   \* reserved[u]: credit_accounts.reserved_microcredits
    order,      \* order[o]: the billing_orders row
    deposited,  \* deposited[u]: total of u's credit_ledger_entries without an order
    posted,     \* posted[o]: delta column totals of o's credit_ledger_entries
    releases,   \* releases[o]: the consume and refund entries that ended o
    usedKeys,   \* grant keys credited and redeem codes redeemed or disabled
    call        \* call[c]: a settle or refund transaction

vars == <<available, reserved, order, deposited, posted, releases, usedKeys, call>>

OpenStatus == {"reserved", "running", "uncertain"}
FinalStatus == {"settled", "refunded"}
Status == {"none"} \cup OpenStatus \cup FinalStatus

\* hold stands for amount_microcredits and reserved_amount_microcredits,
\* which every writer sets together.
Amount == Price \cup Usage \cup {0}
OrderRow == [status : Status, hold : Amount, actual : Amount]

Totals == [available : Int, reserved : Int]

\* A transaction that has read its order; stale: something was committed since.
Idle == [op |-> "idle"]
CallRow == [op : {"settle", "refund"}, order : Order, seen : OrderRow, stale : BOOLEAN]

TypeOK ==
    /\ available \in [User -> Int]
    /\ reserved \in [User -> Nat]
    /\ order \in [Order -> OrderRow]
    /\ deposited \in [User -> Int]
    /\ posted \in [Order -> Totals]
    /\ releases \in [Order -> Nat]
    /\ usedKeys \subseteq GrantKey \cup RedeemCode
    /\ call \in [Call -> {Idle} \cup CallRow]

Init ==
    /\ available = [u \in User |-> 0]
    /\ reserved = [u \in User |-> 0]
    /\ order = [o \in Order |-> [status |-> "none", hold |-> 0, actual |-> 0]]
    /\ deposited = [u \in User |-> 0]
    /\ posted = [o \in Order |-> [available |-> 0, reserved |-> 0]]
    /\ releases = [o \in Order |-> 0]
    /\ usedKeys = {}
    /\ call = [c \in Call |-> Idle]

-----------------------------------------------------------------------------
(* Building blocks of the transactions.                                    *)

\* The UPDATE of an account.
MoveCredits(u, dAvailable, dReserved) ==
    /\ available' = [available EXCEPT ![u] = @ + dAvailable]
    /\ reserved' = [reserved EXCEPT ![u] = @ + dReserved]

\* The delta totals of an order after one more ledger entry.
Add(totals, dAvailable, dReserved) ==
    [available |-> totals.available + dAvailable, reserved |-> totals.reserved + dReserved]

\* The INSERT of an order's ledger entry, with the deltas it is given.
PostEntry(o, dAvailable, dReserved) ==
    posted' = [posted EXCEPT ![o] = Add(@, dAvailable, dReserved)]

\* A commit outdates the snapshot of every other transaction that has read.
Outdate(c) == IF call[c] = Idle THEN Idle ELSE [call[c] EXCEPT !.stale = TRUE]

Commit == call' = [c \in Call |-> Outdate(c)]

CommitOf(me) == call' = [c \in Call |-> IF c = me THEN Idle ELSE Outdate(c)]

\* Credits that come from outside any order.
Deposit(u, n) ==
    /\ deposited[u] + n \in -MaxDeposit .. MaxDeposit
    /\ available' = [available EXCEPT ![u] = @ + n]
    /\ deposited' = [deposited EXCEPT ![u] = @ + n]
    /\ UNCHANGED <<reserved, order, posted, releases>>
    /\ Commit

-----------------------------------------------------------------------------
(* Transactions that decide with a conditional write.                      *)

GrantCreditsOnce(u, key) ==
    /\ key \notin usedKeys
    /\ usedKeys' = usedKeys \cup {key}
    /\ Deposit(u, DepositUnit)

RedeemCredits(u, code) ==
    /\ code \notin usedKeys
    /\ usedKeys' = usedKeys \cup {code}
    /\ Deposit(u, DepositUnit)

DisableRedeemCode(code) ==
    /\ code \notin usedKeys
    /\ usedKeys' = usedKeys \cup {code}
    /\ Commit
    /\ UNCHANGED <<available, reserved, order, deposited, posted, releases>>

AdjustCredits(u, n) ==
    /\ n < 0 => available[u] + n >= 0
    /\ Deposit(u, n)
    /\ UNCHANGED usedKeys

\* Mutant of ReserveBillingOrder: the balance is not checked.
ReserveUnchecked(o, amount) ==
    /\ order[o].status = "none"
    /\ MoveCredits(OwnerOf[o], -amount, amount)
    /\ PostEntry(o, -amount, amount)
    /\ order' = [order EXCEPT ![o] = [status |-> "reserved", hold |-> amount, actual |-> 0]]
    /\ Commit
    /\ UNCHANGED <<deposited, releases, usedKeys>>

ReserveBillingOrder(o, amount) ==
    /\ order[o].status = "none"
    /\ available[OwnerOf[o]] >= amount
    /\ MoveCredits(OwnerOf[o], -amount, amount)
    /\ PostEntry(o, -amount, amount)
    /\ order' = [order EXCEPT ![o] = [status |-> "reserved", hold |-> amount, actual |-> 0]]
    /\ Commit
    /\ UNCHANGED <<deposited, releases, usedKeys>>

\* Mutant of RepriceReservation: the order keeps the difference as its hold.
RepriceToDelta(o, amount) ==
    LET delta == amount - order[o].hold IN
    /\ order[o].status \in {"reserved", "running"}
    /\ delta > 0 => available[OwnerOf[o]] >= delta
    /\ MoveCredits(OwnerOf[o], -delta, delta)
    /\ PostEntry(o, -delta, delta)
    /\ order' = [order EXCEPT ![o].hold = delta]
    /\ Commit
    /\ UNCHANGED <<deposited, releases, usedKeys>>

\* SwitchTaskLogicalRoute: the backup route has another price.
RepriceReservation(o, amount) ==
    LET delta == amount - order[o].hold IN
    /\ order[o].status \in {"reserved", "running"}
    /\ amount > 0
    /\ delta > 0 => available[OwnerOf[o]] >= delta
    /\ delta < 0 => reserved[OwnerOf[o]] >= -delta
    /\ MoveCredits(OwnerOf[o], -delta, delta)
    /\ PostEntry(o, -delta, delta)
    /\ order' = [order EXCEPT ![o].hold = amount]
    /\ Commit
    /\ UNCHANGED <<deposited, releases, usedKeys>>

SetStatus(o, from, to) ==
    /\ order[o].status \in from
    /\ order' = [order EXCEPT ![o].status = to]
    /\ Commit
    /\ UNCHANGED <<available, reserved, deposited, posted, releases, usedKeys>>

MarkBillingRunning(o) == SetStatus(o, {"reserved"}, "running")

\* Mutant of MarkBillingUncertain: any order may be sent to review.
MarkUncertainAlways(o) == SetStatus(o, OpenStatus \cup FinalStatus, "uncertain")

MarkBillingUncertain(o) == SetStatus(o, {"reserved", "running"}, "uncertain")

-----------------------------------------------------------------------------
(* SettleBillingOrder and RefundBillingOrder.                              *)

\* The unlocked SELECT.  A call that reads a final order returns at once.
BeginRelease(c, o, op) ==
    /\ call[c] = Idle
    /\ order[o].status \in OpenStatus
    /\ call' = [call EXCEPT ![c] = [op |-> op, order |-> o, seen |-> order[o], stale |-> FALSE]]
    /\ UNCHANGED <<available, reserved, order, deposited, posted, releases, usedKeys>>

\* Mutant of CanRelease: no isolation between two releases.
CanReleaseUnisolated(c) == reserved[OwnerOf[call[c].order]] >= call[c].seen.hold

\* The account update goes ahead: the database still allows the write and the
\* account holds what the order row read before says it holds.
CanRelease(c) ==
    /\ Isolation = "snapshot" => ~call[c].stale
    /\ reserved[OwnerOf[call[c].order]] >= call[c].seen.hold

\* What all releases write: the account, the order row by primary key, the
\* commit.  The ledger entries differ and are with each of them.
Release(c, to, actual, dAvailable) ==
    LET o == call[c].order IN
    /\ CanRelease(c)
    /\ MoveCredits(OwnerOf[o], dAvailable, -call[c].seen.hold)
    /\ order' = [order EXCEPT ![o].status = to, ![o].actual = actual]
    /\ releases' = [releases EXCEPT ![o] = @ + 1]
    /\ CommitOf(c)
    /\ UNCHANGED <<deposited, usedKeys>>

SettleFixed(c) ==
    LET hold == call[c].seen.hold IN
    /\ call[c].op = "settle"
    /\ call[c].order \notin TokenOrder
    /\ Release(c, "settled", hold, 0)
    /\ PostEntry(call[c].order, 0, -hold)

Excess(a, b) == IF a > b THEN a - b ELSE 0

\* Mutant of PostUsage: what is left of the hold gets no refund entry.
PostUsageWithoutRefund(o, hold, actual) ==
    PostEntry(o, -Excess(actual, hold), -hold)

\* A usage settlement posts a consume entry, which frees the hold and takes
\* what it lacks, and a refund entry for what is left of it.
PostUsage(o, hold, actual) ==
    LET consumed == Add(posted[o], -Excess(actual, hold), -hold) IN
    posted' = [posted EXCEPT ![o] = Add(consumed, Excess(hold, actual), 0)]

\* Mutant of SettleByUsage: the supplement is not taken.
SettleWithoutSupplement(c, actual) ==
    LET hold == call[c].seen.hold IN
    /\ call[c].op = "settle"
    /\ call[c].order \in TokenOrder
    /\ Release(c, "settled", actual, Excess(hold, actual))
    /\ PostUsage(call[c].order, hold, actual)

\* A hold above the actual price is given back, one below it is topped up
\* from the available balance, whatever that balance is.
SettleByUsage(c, actual) ==
    LET hold == call[c].seen.hold IN
    /\ call[c].op = "settle"
    /\ call[c].order \in TokenOrder
    /\ Release(c, "settled", actual, Excess(hold, actual) - Excess(actual, hold))
    /\ PostUsage(call[c].order, hold, actual)

Refund(c) ==
    LET hold == call[c].seen.hold IN
    /\ call[c].op = "refund"
    /\ Release(c, "refunded", order[call[c].order].actual, hold)
    /\ PostEntry(call[c].order, hold, -hold)

\* The write was refused or the usage is unknown: the transaction rolls back.
ReleaseFails(c) ==
    /\ call[c] # Idle
    /\ \/ ~CanRelease(c)
       \/ call[c].op = "settle" /\ call[c].order \in TokenOrder
    /\ call' = [call EXCEPT ![c] = Idle]
    /\ UNCHANGED <<available, reserved, order, deposited, posted, releases, usedKeys>>

\* As ReleaseFails, but the usage was known: it is kept on an open order.
SettleFailsWithUsage(c, actual) ==
    /\ call[c].op = "settle"
    /\ call[c].order \in TokenOrder
    /\ ~CanRelease(c)
    /\ order[call[c].order].status \notin FinalStatus
    /\ order' = [order EXCEPT ![call[c].order].actual = actual]
    /\ CommitOf(c)
    /\ UNCHANGED <<available, reserved, deposited, posted, releases, usedKeys>>

-----------------------------------------------------------------------------
Next ==
    \/ \E u \in User :
        \/ \E key \in GrantKey : GrantCreditsOnce(u, key)
        \/ \E code \in RedeemCode : RedeemCredits(u, code)
        \/ \E n \in Adjustment : AdjustCredits(u, n)
    \/ \E code \in RedeemCode : DisableRedeemCode(code)
    \/ \E o \in Order :
        \/ \E amount \in Price : ReserveBillingOrder(o, amount)
        \/ \E amount \in Price : RepriceReservation(o, amount)
        \/ MarkBillingRunning(o)
        \/ MarkBillingUncertain(o)
        \/ \E c \in Call, op \in {"settle", "refund"} : BeginRelease(c, o, op)
    \/ \E c \in Call :
        \/ SettleFixed(c)
        \/ \E actual \in Usage : SettleByUsage(c, actual)
        \/ Refund(c)
        \/ ReleaseFails(c)
        \/ \E actual \in Usage : SettleFailsWithUsage(c, actual)

Spec == Init /\ [][Next]_vars

-----------------------------------------------------------------------------
(* Properties.                                                             *)

\* What an order row holds of the account and what it has cost it.
HeldOf(row) == IF row.status \in OpenStatus THEN row.hold ELSE 0
PaidOf(row) == IF row.status = "settled" THEN row.actual ELSE 0

HeldMap == [o \in Order |-> HeldOf(order[o])]
PaidMap == [o \in Order |-> PaidOf(order[o])]

OrdersOf(u) == {o \in Order : OwnerOf[o] = u}

\* The reserved balance of an account is the sum of the holds of its open
\* orders: no release may eat into the credits frozen for another order
\* (the balance SettleBillingOrder and RefundBillingOrder write to).
HoldsAreBacked ==
    \A u \in User : reserved[u] = SumFunctionOnSet(HeldMap, OrdersOf(u))

\* Credits are neither lost nor made: what a user has, free or frozen, and
\* what the settled orders cost add up to what was deposited.
CreditsConserved ==
    \A u \in User :
        available[u] + reserved[u] + SumFunctionOnSet(PaidMap, OrdersOf(u))
        = deposited[u]

\* The ledger entries of an order add up to its row: the reserved deltas to
\* what it still holds, the available deltas to what it holds and has cost.
\* The entries of a release carry the hold its transaction read (finance.go:
\* SettleBillingOrder, RefundBillingOrder), those before it what was reserved
\* and repriced; a release on an outdated read, or a second one, leaves a
\* statement that no longer explains the order.
EntriesExplainOrders ==
    \A o \in Order :
        /\ posted[o].reserved = HeldOf(order[o])
        /\ posted[o].available = -(HeldOf(order[o]) + PaidOf(order[o]))

\* An order is consumed or refunded once: exactly one releasing ledger entry
\* once it is final, and none before.
ReleasedOnce ==
    \A o \in Order : releases[o] = IF order[o].status \in FinalStatus THEN 1 ELSE 0

\* A settled or refunded order never changes again, whichever worker,
\* reconciler or administrator still holds a row it read earlier.
FinalIsFinal ==
    [][\A o \in Order : order[o].status \in FinalStatus => order'[o] = order[o]]_vars

\* What an order row is to CreditSettlement.
OutcomeOf(row) ==
    CASE row.status = "none" -> "absent"
      [] row.status \in OpenStatus -> "open"
      [] row.status = "settled" -> "consumed"
      [] row.status = "refunded" -> "returned"

OutcomeMap == [o \in Order |-> OutcomeOf(order[o])]

Settlement == INSTANCE CreditSettlement WITH
    Movement <- Adjustment \cup {DepositUnit},
    free <- available,
    held <- HeldMap,
    outcome <- OutcomeMap

\* The transactions of the ledger implement the one-step promises of
\* CreditSettlement: each order is held, repriced and ended exactly once.
ImplementsSettlement == Settlement!SSpec
=============================================================================
