------------------------------ MODULE Commands ------------------------------
(***************************************************************************)
(* The vocabulary of the money path: the commands that handlers publish    *)
(* (bank_domain/src/commands.rs and the two read requests), the postings   *)
(* each command asks the ledger to make, and the results that a call of    *)
(* TransactionsService can return.                                         *)
(*                                                                         *)
(* Account numbers are UNIQUE (migration 002), so the number that names    *)
(* the destination of a transfer is represented by the account id that     *)
(* carries it; ids outside Accounts stand for ids and numbers that no row  *)
(* of the table accounts has.                                              *)
(***************************************************************************)
EXTENDS Integers, Sequences, FiniteSets, ServiceErrors

CONSTANTS
    Users,       \* user ids
    AccountIds,  \* account ids (and numbers) that a command may name
    Accounts,    \* those that exist in the table accounts
    Owner,       \* accounts.user_id, never updated by the program
    Commands     \* the commands the environment may issue

MoneyOps == {"deposit", "withdraw", "transfer"}
ReadOps  == {"balance", "statement"}

(* Amounts are the cents that Amount::new let through: at least 1.         *)
Command == [op     : MoneyOps \cup ReadOps,
            user   : Users,
            from   : AccountIds,
            to     : AccountIds,      \* equals from unless op = "transfer"
            amount : Nat \ {0},       \* ignored by the read operations
            limit  : Int]             \* used by "statement" only

ASSUME CommandsAssumption ==
    /\ Accounts \subseteq AccountIds
    /\ Owner \in [Accounts -> Users]
    /\ Commands \subseteq Command

TransactionType == {"DEPOSIT", "WITHDRAWAL", "TRANSFER_IN", "TRANSFER_OUT"}

BusinessErrors == {"AccountNotFound", "UnauthorizedAccountAccess",
                   "AccountNotActive", "SelfTransferNotAllowed",
                   "InsufficientFunds"}

(* "Crashed" is the absence of a result: the process died with the call.   *)
Results == BusinessErrors \cup {"None", "Ok", "DatabaseError", "Crashed"}

-----------------------------------------------------------------------------
Posting(account, amount, type) ==
    [account |-> account, amount |-> amount, type |-> type]

(* Mutant: withdraw posts the amount without its minus sign.               *)
PostingsUnsigned(c) ==
    CASE c.op = "deposit"  -> <<Posting(c.from, c.amount, "DEPOSIT")>>
      [] c.op = "withdraw" -> <<Posting(c.from, c.amount, "WITHDRAWAL")>>
      [] c.op = "transfer" -> <<Posting(c.from, -c.amount, "TRANSFER_OUT"),
                                Posting(c.to, c.amount, "TRANSFER_IN")>>
      [] OTHER             -> <<>>

(* The rows that the repository function of a command inserts, in the      *)
(* order in which it inserts them.                                         *)
Postings(c) ==
    CASE c.op = "deposit"  -> <<Posting(c.from, c.amount, "DEPOSIT")>>
      [] c.op = "withdraw" -> <<Posting(c.from, -c.amount, "WITHDRAWAL")>>
      [] c.op = "transfer" -> <<Posting(c.from, -c.amount, "TRANSFER_OUT"),
                                Posting(c.to, c.amount, "TRANSFER_IN")>>
      [] OTHER             -> <<>>

(* Mutant: a transfer commits after its debit.                             *)
LegsDebitOnly(c) == IF c.op \in MoneyOps THEN 1 ELSE 0

(* How many inserts a command takes before its commit.                     *)
Legs(c) == Len(Postings(c))

(* The operations that check the balance of the source account first.      *)
Debits(c) == c.op \in {"withdraw", "transfer"}

(* What a command adds to the sum of all accounts.                         *)
External(c) ==
    CASE c.op = "deposit"  -> c.amount
      [] c.op = "withdraw" -> -c.amount
      [] OTHER             -> 0
=============================================================================
