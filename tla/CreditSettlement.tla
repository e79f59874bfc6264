-------------------------- MODULE CreditSettlement --------------------------
(***************************************************************************)
(* What the credit system promises, without its tables or transactions.    *)
(* A user has free credits; an order puts a hold on some of them, the hold *)
(* may be repriced while the order is open, and it ends exactly once: it   *)
(* is consumed (the user pays the actual price, which may differ from the  *)
(* hold) or it is returned in full.                                        *)
(***************************************************************************)
EXTENDS Integers

CONSTANTS
    User,      \* credit account owners
    Order,     \* billing orders
    OwnerOf,   \* OwnerOf[o]: the user order o bills
    Movement,  \* amounts that may enter (or, negative, leave) an account
    Amount     \* amounts an order may be priced at

VARIABLES
    free,      \* free[u]: credits u can still spend
    held,      \* held[o]: credits blocked for o, 0 when o is not open
    outcome    \* outcome[o]: where order o is in its life

svars == <<free, held, outcome>>

Outcome == {"absent", "open", "consumed", "returned"}

SInit ==
    /\ free = [u \in User |-> 0]
    /\ held = [o \in Order |-> 0]
    /\ outcome = [o \in Order |-> "absent"]

\* Credits enter or leave outside any order; a withdrawal never overdraws.
Transfer(u, n) ==
    /\ n < 0 => free[u] + n >= 0
    /\ free' = [free EXCEPT ![u] = @ + n]
    /\ UNCHANGED <<held, outcome>>

Hold(o, n) ==
    /\ outcome[o] = "absent"
    /\ free[OwnerOf[o]] >= n
    /\ free' = [free EXCEPT ![OwnerOf[o]] = @ - n]
    /\ held' = [held EXCEPT ![o] = n]
    /\ outcome' = [outcome EXCEPT ![o] = "open"]

Reprice(o, n) ==
    /\ outcome[o] = "open"
    /\ n > held[o] => free[OwnerOf[o]] >= n - held[o]
    /\ free' = [free EXCEPT ![OwnerOf[o]] = @ + held[o] - n]
    /\ held' = [held EXCEPT ![o] = n]
    /\ UNCHANGED outcome

\* The order is paid: the user gets the hold back less the actual price.
Consume(o, actual) ==
    /\ outcome[o] = "open"
    /\ free' = [free EXCEPT ![OwnerOf[o]] = @ + held[o] - actual]
    /\ held' = [held EXCEPT ![o] = 0]
    /\ outcome' = [outcome EXCEPT ![o] = "consumed"]

Return(o) ==
    /\ outcome[o] = "open"
    /\ free' = [free EXCEPT ![OwnerOf[o]] = @ + held[o]]
    /\ held' = [held EXCEPT ![o] = 0]
    /\ outcome' = [outcome EXCEPT ![o] = "returned"]

SNext ==
    \/ \E u \in User, n \in Movement : Transfer(u, n)
    \/ \E o \in Order :
        \/ \E n \in Amount : Hold(o, n) \/ Reprice(o, n) \/ Consume(o, n)
        \/ Return(o)

SSpec == SInit /\ [][SNext]_svars
=============================================================================
