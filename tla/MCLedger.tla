------------------------------ MODULE MCLedger ------------------------------
(***************************************************************************)
(* Instances of Ledger for TLC: two accounts of two owners, an id that no  *)
(* account has, amounts that meet (2 = 1 + 1) so that the comparison of    *)
(* balance and amount is taken on both sides and at equality.              *)
(***************************************************************************)
EXTENDS Ledger, TLC

CONSTANTS a, b, ghost, alice, bob

MCAccounts   == {a, b}
MCAccountIds == {a, b, ghost}
MCUsers      == {alice, bob}
MCOwner      == (a :> alice) @@ (b :> bob)

Money(op, user, from, to, amount) ==
    [op |-> op, user |-> user, from |-> from, to |-> to, amount |-> amount,
     limit |-> 0]

Deposit(n)  == Money("deposit", alice, a, a, n)
Withdraw(n) == Money("withdraw", alice, a, a, n)
Pay(n)      == Money("transfer", alice, a, b, n)
Refund(n)   == Money("transfer", bob, b, a, n)
View(op, n) == [op |-> op, user |-> alice, from |-> a, to |-> a, amount |-> 1,
                limit |-> n]

(* The commands that move money when all goes well.                        *)
MovingCommands == {Deposit(2), Withdraw(1), Withdraw(2), Pay(2), Refund(1)}

(* Those and every way to be refused by the service.                       *)
AllCommands ==
    MovingCommands \cup
    {Money("withdraw", bob, a, a, 1),      \* not the owner
     Money("deposit", alice, ghost, ghost, 1),
     Money("transfer", alice, a, ghost, 1),
     Money("transfer", alice, a, a, 1),    \* to itself
     View("balance", 0), View("statement", 0)}

(* Debits of an account that cannot all be covered.                        *)
RaceCommands == {Deposit(2), Withdraw(2), Pay(2)}

Symmetry == Permutations(Tasks)
=============================================================================
