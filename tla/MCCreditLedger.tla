--------------------------- MODULE MCCreditLedger ---------------------------
(***************************************************************************)
(* Small instances of CreditLedger: one account shared by two or three     *)
(* orders, two releases in flight.                                         *)
(***************************************************************************)
EXTENDS CreditLedger, TLC

CONSTANTS u1, o1, o2, c1, c2

OneOwner == [o \in {o1, o2} |-> u1]
Withdrawal == {-1}
CallSymmetry == Permutations({c1, c2})
=============================================================================
