---------------------------- MODULE MCMoneyPath -----------------------------
(***************************************************************************)
(* Instances of MoneyPath for TLC: two accounts of two owners, the first   *)
(* of which pays and is read.                                              *)
(***************************************************************************)
EXTENDS MoneyPath, TLC

CONSTANTS a, b, alice, bob

MCAccounts == {a, b}
MCUsers    == {alice, bob}
MCOwner    == (a :> alice) @@ (b :> bob)

Money(op, from, to, amount) ==
    [op |-> op, user |-> alice, from |-> from, to |-> to, amount |-> amount,
     limit |-> 0]
View(op) == [op |-> op, user |-> alice, from |-> a, to |-> a, amount |-> 1,
             limit |-> 1]

(* A deposit and a transfer that needs it, and a statement of one row.     *)
PathCommands ==
    {Money("deposit", a, a, 2), Money("transfer", a, b, 2), View("statement")}

AllCalls == Deliveries \cup Readers

Symmetry == Permutations(Requests)
=============================================================================
