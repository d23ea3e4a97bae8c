----------------------------- MODULE MoneyPath ------------------------------
(***************************************************************************)
(* Ledger and Delivery together: the whole path of a deposit, withdrawal   *)
(* or transfer, from the HTTP handler to the rows of the ledger and back,  *)
(* and the read handlers beside it.                                        *)
(*                                                                         *)
(* Each delivery of a request is a call of TransactionsService of its own, *)
(* made by the worker task of that delivery, all with the same command.    *)
(* Delivery takes such a call for one step; here it is the SQL statements  *)
(* of Ledger, one by one, and what Delivery knows of it (whether its       *)
(* effect is committed, what it told its task) is read off the ledger.     *)
(* The process that a crash takes down is one.                             *)
(*                                                                         *)
(* Commands that the worker refuses without a call (an amount or a payload *)
(* that is not valid) and create_account are left to Delivery.             *)
(***************************************************************************)
EXTENDS Ledger

CONSTANTS
    Requests,    \* the commands that are published, by correlation id
    Readers,     \* the calls of the read handlers
    MaxDeliver,  \* max_deliver of the consumers, 5 in the code
    MaxCrashes,  \* bound on the number of crashes of the process
    Freezable    \* the accounts whose status is changed from outside

Attempts == 1..MaxDeliver

Deliveries == Requests \X Attempts

ASSUME MoneyPathAssumption ==
    /\ MaxDeliver \in Nat \ {0}
    /\ MaxCrashes \in Nat
    /\ Tasks = Deliveries \cup Readers
    /\ Deliveries \intersect Readers = {}
    /\ Freezable \subseteq Accounts

VARIABLES http, inbox, stream, delivered, attempt, expired, crashes  \* as in Delivery

deliveryVars == <<http, inbox, stream, delivered, attempt, expired, crashes>>
pathVars     == <<vars, deliveryVars>>

(* Mutant: every error that is not a refusal is taken for a success.       *)
ToldOptimistic(r) ==
    CASE r \in {"Ok", "DatabaseError"} -> "ok"
      [] r \in {"None", "Crashed"}     -> "none"
      [] OTHER                         -> r

(* What the worker makes of the result of the call.  A call that has not   *)
(* returned, or never will, has told it nothing.                           *)
Told(r) ==
    CASE r = "Ok"                  -> "ok"
      [] r \in {"None", "Crashed"} -> "none"
      [] OTHER                     -> r

(* What Delivery knows of the service: the operation of each request, what *)
(* it may refuse it with, what each call told its task and which calls are *)
(* committed.                                                              *)
Refusals == [op \in MoneyOps \cup {"create_account"} |-> ServiceRefusals(op)]
Kind     == [r \in Requests |-> cmd[<<r, 1>>].op]
Outcome  == [r \in Requests |-> [n \in Attempts |-> Told(result[<<r, n>>])]]
Applied  == [r \in Requests |-> {n \in Attempts : txn[<<r, n>>] = "committed"}]

D == INSTANCE Delivery WITH
    kind <- Kind, outcome <- Outcome, applied <- Applied

PathInit ==
    /\ Init
    /\ \A r \in Requests, n \in Attempts :
          /\ cmd[<<r, n>>].op \in MoneyOps
          /\ cmd[<<r, n>>] = cmd[<<r, 1>>]
    /\ \A q \in Readers : cmd[q].op \in ReadOps
    /\ D!Init

-----------------------------------------------------------------------------
(* Mutant: the worker does not await the call before it replies.           *)
ServeUnawaited(r, n) ==
    /\ attempt[r][n] = "running"
    /\ Step(<<r, n>>)
    /\ attempt' = [attempt EXCEPT ![r][n] =
                     IF pc'[<<r, n>>] \in {"commit", "done"} THEN "replying" ELSE @]
    /\ UNCHANGED <<http, inbox, stream, delivered, expired, crashes>>

(* The worker task of a delivery executes the next statement of its call,  *)
(* and replies once the call has returned.                                 *)
Serve(r, n) ==
    /\ attempt[r][n] = "running"
    /\ Step(<<r, n>>)
    /\ attempt' = [attempt EXCEPT ![r][n] =
                     IF result'[<<r, n>>] = "None" THEN @ ELSE "replying"]
    /\ UNCHANGED <<http, inbox, stream, delivered, expired, crashes>>

Query(q) == Step(q) /\ UNCHANGED deliveryVars

Freeze(x) == SetStatus(x) /\ UNCHANGED deliveryVars

(* The steps of Delivery that execute no statement.                        *)
Carry(r) ==
    /\ UNCHANGED vars
    /\ \/ D!Publish(r)
       \/ D!PublishFails(r)
       \/ D!TakeReply(r)
       \/ D!Timeout(r)
       \/ D!Deliver(r)
       \/ D!AckWaitExpires(r)
       \/ \E n \in Attempts : D!Reply(r, n) \/ D!Acknowledge(r, n)

(* The process dies with its handlers, its worker tasks and whatever calls *)
(* they have under way.                                                    *)
Restart ==
    /\ crashes < MaxCrashes
    /\ crashes' = crashes + 1
    /\ \/ Crash
       \/ /\ \A t \in Tasks : pc[t] \in {"lookup", "done"}
          /\ UNCHANGED vars
    /\ http'  = [r \in Requests |-> IF http[r] = "waiting" THEN "gone" ELSE http[r]]
    /\ inbox' = [r \in Requests |-> "none"]
    /\ attempt' = [r \in Requests |-> [n \in Attempts |->
                     IF attempt[r][n] = "none" THEN "none" ELSE "over"]]
    /\ UNCHANGED <<stream, delivered, expired>>

PathNext ==
    \/ \E r \in Requests : Carry(r) \/ \E n \in Attempts : Serve(r, n)
    \/ \E q \in Readers : Query(q)
    \/ \E x \in Freezable : Freeze(x)
    \/ Restart

PathSpec == PathInit /\ [][PathNext]_pathVars

-----------------------------------------------------------------------------
(* What holds.                                                             *)

(* The path implements Delivery: however its SQL statements interleave,    *)
(* fail and crash, a call is one step of Delivery, in which it is          *)
(* performed, refused, or fails with or without an effect.                 *)
ImplementsDelivery == D!Spec

(* Row i is the k-th posting of the n-th delivery of r, for good.          *)
Posted(i, r, n, k) == i \in Committed /\ Records(i, <<r, n>>, k)

(* What a client is told is true of the ledger.  After 201 every posting   *)
(* of the command is there, all made by one delivery; a refusal is the     *)
(* answer of a delivery that left no row.  So from the commit to the       *)
(* answer of the service and on to the reply there is no gap, whatever was *)
(* lost, repeated, late or failed.  (Another delivery of a refused command *)
(* may have performed it.)                                                 *)
ClientsToldTrue ==
    \A r \in Requests :
        /\ http[r] = "created" =>
              \E n \in Attempts : \A k \in 1..Legs(cmd[<<r, n>>]) :
                  \E i \in DOMAIN rows : Posted(i, r, n, k)
        /\ http[r] \in BusinessErrors =>
              \E n \in Attempts : /\ result[<<r, n>>] = http[r]
                                  /\ RowsOf(<<r, n>>) \intersect Committed = {}

(* Row i is in what q is given, or q is given as many rows as it may, all  *)
(* newer.                                                                  *)
Shown(i, q) ==
    \/ i \in snap'[q]
    \/ /\ cmd[q].op = "statement"
       /\ Cardinality(snap'[q]) = Clamp(cmd[q].limit)
       /\ \A j \in snap'[q] : rows[j].id > rows[i].id

SeesCreated(q, r) ==
    (pc[q] = "read" /\ pc'[q] = "done" /\ result'[q] = "Ok" /\ http[r] = "created")
    => \E n \in Attempts : \A k \in 1..Legs(cmd[<<r, n>>]) :
          Postings(cmd[<<r, n>>])[k].account = cmd[q].from =>
              \E i \in DOMAIN rows : Posted(i, r, n, k) /\ Shown(i, q)

(* A client reads its own writes: a balance or a statement that is read    *)
(* after a 201 shows what the command posted on the account, although the  *)
(* write went through the stream and the read did not.                     *)
ReadsOwnWrites == [][\A q \in Readers, r \in Requests : SeesCreated(q, r)]_pathVars
=============================================================================
