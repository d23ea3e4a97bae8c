------------------------------ MODULE Delivery ------------------------------
(***************************************************************************)
(* The path of a write command: HTTP handler -> JetStream -> worker ->     *)
(* service -> reply -> HTTP handler.  deposit, withdraw, transfer and      *)
(* create_account have the same handler and the same worker loop, but for  *)
(* the errors that they know.                                              *)
(*                                                                         *)
(* The handler subscribes to an inbox, publishes the command without       *)
(* waiting for the stream to store it, and waits at most 5 s for a reply.  *)
(* The worker spawns a task per delivered message, which calls the         *)
(* service, publishes the reply and then acknowledges; a transient error   *)
(* is answered with NAK.  JetStream delivers a message again when it is    *)
(* NAKed or not acknowledged within 30 s, at most MaxDeliver times in all. *)
(*                                                                         *)
(* The service is what LedgerContract says: it performs the command in one *)
(* step or does not, and after a database error its caller does not know   *)
(* which.  Nothing on the way remembers the correlation id of a command,   *)
(* so every delivery performs it anew.                                     *)
(***************************************************************************)
EXTENDS Integers, FiniteSets, ServiceErrors

CONSTANTS
    Requests,    \* the commands, by correlation id
    Refusals,    \* Refusals[op]: the refusals of that service to consider
    MaxDeliver,  \* max_deliver of the consumers, 5 in the code
    MaxCrashes   \* bound on the number of crashes of the process

Ops == {"deposit", "withdraw", "transfer", "create_account"}

ASSUME RefusalsAssumption ==
    \A op \in Ops : Refusals[op] \subseteq ServiceRefusals(op)

ASSUME DeliveryAssumption ==
    /\ MaxDeliver \in Nat \ {0}
    /\ MaxCrashes \in Nat

VARIABLES
    kind,       \* kind[r]: what the message of r is like, never changed
    http,       \* http[r]: where the handler of r stands, or what it answered
    inbox,      \* inbox[r]: the first reply in the inbox it subscribed
    stream,     \* stream[r]: the message of r in the consumer
    delivered,  \* delivered[r]: how often it has been delivered
    attempt,    \* attempt[r][n]: the worker task of the n-th delivery
    outcome,    \* outcome[r][n]: what the service told that task
    applied,    \* applied[r]: the deliveries whose effect was committed
    expired,    \* expired[r]: the deliveries that were not acknowledged in time
    crashes     \* how often the process has crashed

vars == <<kind, http, inbox, stream, delivered, attempt, outcome, applied, expired, crashes>>

Attempts == 1..MaxDeliver

(* A command, one whose amount Amount::new refuses, and a payload that     *)
(* does not parse, which no handler sends.                                 *)
Kinds == Ops \cup {"badamount", "malformed"}

(* The variants of TransactionError and AccountError.                      *)
Errors == {"InsufficientFunds", "InvalidAmount", "AccountNotFound",
           "AccountNotActive", "SelfTransferNotAllowed",
           "UnauthorizedAccountAccess", "NotFound", "InvalidInput",
           "DatabaseError"}

Outcomes == Errors \cup {"ok"}

(* What the worker takes for worth another try.                            *)
Transient(o) == o = "DatabaseError"

(* What a handler answers without a reply: DatabaseErrors of its own.      *)
NoReply == {"PublishFailed", "TimedOut"}

TypeOK ==
    /\ kind      \in [Requests -> Kinds]
    /\ http      \in [Requests -> {"idle", "waiting", "gone", "created"}
                                    \cup Errors \cup NoReply]
    /\ inbox     \in [Requests -> Outcomes \cup {"none"}]
    /\ stream    \in [Requests -> {"absent", "ready", "inflight", "acked",
                                   "exhausted"}]
    /\ delivered \in [Requests -> 0..MaxDeliver]
    /\ attempt   \in [Requests -> [Attempts -> {"none", "running", "replying",
                                                "acking", "over"}]]
    /\ outcome   \in [Requests -> [Attempts -> Outcomes \cup {"none"}]]
    /\ applied   \in [Requests -> SUBSET Attempts]
    /\ expired   \in [Requests -> SUBSET Attempts]
    /\ crashes   \in 0..MaxCrashes

Init ==
    /\ kind      \in [Requests -> Kinds]
    /\ http      = [r \in Requests |-> "idle"]
    /\ inbox     = [r \in Requests |-> "none"]
    /\ stream    = [r \in Requests |-> "absent"]
    /\ delivered = [r \in Requests |-> 0]
    /\ attempt   = [r \in Requests |-> [n \in Attempts |-> "none"]]
    /\ outcome   = [r \in Requests |-> [n \in Attempts |-> "none"]]
    /\ applied   = [r \in Requests |-> {}]
    /\ expired   = [r \in Requests |-> {}]
    /\ crashes   = 0

-----------------------------------------------------------------------------
(* The HTTP handler.                                                       *)

(* Amount::new refuses the amount: 400, nothing is published.              *)
RefuseRequest(r) ==
    /\ http[r] = "idle"
    /\ kind[r] = "badamount"
    /\ http' = [http EXCEPT ![r] = "InvalidAmount"]
    /\ UNCHANGED <<kind, inbox, stream, delivered, attempt, outcome, applied, expired, crashes>>

(* Subscribe, publish, wait.  publish() returns when the client library    *)
(* has the message; the stream may still never store it.                   *)
Publish(r) ==
    /\ http[r] = "idle"
    /\ kind[r] \in Ops
    /\ http' = [http EXCEPT ![r] = "waiting"]
    /\ \/ stream' = [stream EXCEPT ![r] = "ready"]
       \/ UNCHANGED stream
    /\ UNCHANGED <<kind, inbox, delivered, attempt, outcome, applied, expired, crashes>>

(* Subscribing, serialising or publishing fails: 500.                      *)
PublishFails(r) ==
    /\ http[r] = "idle"
    /\ kind[r] \in Ops
    /\ http' = [http EXCEPT ![r] = "PublishFailed"]
    /\ UNCHANGED <<kind, inbox, stream, delivered, attempt, outcome, applied, expired, crashes>>

(* Mutant: a transfer is answered by the mapping of the other two.         *)
NamedAsMoney(op) ==
    CASE op \in {"deposit", "withdraw", "transfer"} ->
             {"InsufficientFunds", "AccountNotActive", "AccountNotFound",
              "UnauthorizedAccountAccess"}
      [] op = "create_account" -> {"NotFound", "InvalidInput"}

(* The errors whose name the handler looks for in the text of the reply.   *)
Named(op) ==
    CASE op \in {"deposit", "withdraw"} ->
             {"InsufficientFunds", "AccountNotActive", "AccountNotFound",
              "UnauthorizedAccountAccess"}
      [] op = "transfer" ->
             {"InsufficientFunds", "AccountNotActive", "AccountNotFound",
              "UnauthorizedAccountAccess", "SelfTransferNotAllowed"}
      [] op = "create_account" -> {"NotFound", "InvalidInput"}

(* 201, an error that has been recognised, or a DatabaseError.             *)
Answer(op, o) == CASE o = "ok"                        -> "created"
                   [] o # "ok" /\ o \in Named(op)    -> o
                   [] o # "ok" /\ o \notin Named(op) -> "DatabaseError"

StatusCode(answer) ==
    CASE answer = "created"                        -> 201
      [] answer \in {"InsufficientFunds", "InvalidAmount", "AccountNotActive",
                     "SelfTransferNotAllowed", "InvalidInput"} -> 400
      [] answer = "UnauthorizedAccountAccess"      -> 403
      [] answer \in {"AccountNotFound", "NotFound"} -> 404
      [] answer \in {"DatabaseError"} \cup NoReply -> 500

(* The first reply decides.                                                *)
TakeReply(r) ==
    /\ http[r] = "waiting"
    /\ inbox[r] # "none"
    /\ http'  = [http EXCEPT ![r] = Answer(kind[r], inbox[r])]
    /\ inbox' = [inbox EXCEPT ![r] = "none"]
    /\ UNCHANGED <<kind, stream, delivered, attempt, outcome, applied, expired, crashes>>

(* No reply within 5 s: 500; the command stays where it is.                *)
Timeout(r) ==
    /\ http[r] = "waiting"
    /\ inbox[r] = "none"
    /\ http' = [http EXCEPT ![r] = "TimedOut"]
    /\ UNCHANGED <<kind, inbox, stream, delivered, attempt, outcome, applied, expired, crashes>>

(* Other programs with access to NATS publish into the stream as well; no  *)
(* handler would publish these.                                            *)
PublishDirect(r) ==
    /\ kind[r] \notin Ops
    /\ stream[r] = "absent"
    /\ stream' = [stream EXCEPT ![r] = "ready"]
    /\ UNCHANGED <<kind, http, inbox, delivered, attempt, outcome, applied, expired, crashes>>

-----------------------------------------------------------------------------
(* JetStream.                                                              *)

Deliver(r) ==
    /\ stream[r] = "ready"
    /\ stream'    = [stream EXCEPT ![r] = "inflight"]
    /\ delivered' = [delivered EXCEPT ![r] = @ + 1]
    /\ attempt'   = [attempt EXCEPT ![r][delivered[r] + 1] = "running"]
    /\ UNCHANGED <<kind, http, inbox, outcome, applied, expired, crashes>>

(* Mutant: max_deliver not set, the consumer never gives up.               *)
RedeliverableAlways(r) == "ready"

(* The message goes back to the consumer, unless that was its last chance. *)
Redeliverable(r) == IF delivered[r] < MaxDeliver THEN "ready" ELSE "exhausted"

(* Mutant: a consumer that is not durable forgets what a dead process had. *)
AckWaitExpiresWhileAlive(r) ==
    /\ stream[r] = "inflight"
    /\ http[r] # "waiting"
    /\ \E n \in Attempts : attempt[r][n] \in {"running", "replying", "acking"}
    /\ stream'  = [stream EXCEPT ![r] = Redeliverable(r)]
    /\ expired' = [expired EXCEPT ![r] = @ \cup {delivered[r]}]
    /\ UNCHANGED <<kind, http, inbox, delivered, attempt, outcome, applied, crashes>>

(* 30 s without an acknowledgement, because the process is gone, the       *)
(* acknowledgement was lost or the task is still at work.  A handler waits *)
(* 5 s at most, so it is no longer waiting by then.                        *)
AckWaitExpires(r) ==
    /\ stream[r] = "inflight"
    /\ http[r] # "waiting"
    /\ stream'  = [stream EXCEPT ![r] = Redeliverable(r)]
    /\ expired' = [expired EXCEPT ![r] = @ \cup {delivered[r]}]
    /\ UNCHANGED <<kind, http, inbox, delivered, attempt, outcome, applied, crashes>>

-----------------------------------------------------------------------------
(* The worker task of one delivery.                                        *)

Ends(r, n, o) ==
    /\ outcome' = [outcome EXCEPT ![r][n] = o]
    /\ attempt' = [attempt EXCEPT ![r][n] = "replying"]

(* The payload does not parse.  The error reply goes to the reply subject  *)
(* of the message (no inbox is known), and the message is terminated.      *)
TerminateMalformed(r, n) ==
    /\ attempt[r][n] = "running"
    /\ kind[r] = "malformed"
    /\ attempt' = [attempt EXCEPT ![r][n] = "over"]
    /\ \/ stream' = [stream EXCEPT ![r] = "acked"]
       \/ UNCHANGED stream
    /\ UNCHANGED <<kind, http, inbox, delivered, outcome, applied, expired, crashes>>

(* Amount::new refuses the amount, without a call.                         *)
RefuseAmount(r, n) ==
    /\ attempt[r][n] = "running"
    /\ kind[r] = "badamount"
    /\ Ends(r, n, "InvalidAmount")
    /\ UNCHANGED <<kind, http, inbox, stream, delivered, applied, expired, crashes>>

(* Mutant: an ambiguous failure is taken for a success.                    *)
CallServiceOptimistic(r, n) ==
    /\ attempt[r][n] = "running"
    /\ kind[r] \in Ops
    /\ Ends(r, n, "ok")
    /\ \/ applied' = [applied EXCEPT ![r] = @ \cup {n}]
       \/ UNCHANGED applied
    /\ UNCHANGED <<kind, http, inbox, stream, delivered, expired, crashes>>

(* The service performs the command, refuses it, or fails with or without  *)
(* having performed it.                                                    *)
CallService(r, n) ==
    /\ attempt[r][n] = "running"
    /\ kind[r] \in Ops
    /\ \/ /\ Ends(r, n, "ok")
          /\ applied' = [applied EXCEPT ![r] = @ \cup {n}]
       \/ /\ \E e \in Refusals[kind[r]] : Ends(r, n, e)
          /\ UNCHANGED applied
       \/ /\ Ends(r, n, "DatabaseError")
          /\ \/ applied' = [applied EXCEPT ![r] = @ \cup {n}]
             \/ UNCHANGED applied
    /\ UNCHANGED <<kind, http, inbox, stream, delivered, expired, crashes>>

(* Mutant: whatever the service said, the worker replies with success.     *)
ReplyAlwaysOk(r, n) ==
    /\ attempt[r][n] = "replying"
    /\ attempt' = [attempt EXCEPT ![r][n] = "acking"]
    /\ \/ /\ http[r] = "waiting"
          /\ inbox' = [inbox EXCEPT ![r] = IF @ = "none" THEN "ok" ELSE @]
       \/ UNCHANGED inbox
    /\ UNCHANGED <<kind, http, stream, delivered, outcome, applied, expired, crashes>>

(* The reply is published before the acknowledgement.  It reaches the      *)
(* inbox while the handler is subscribed; errors of publish are logged.    *)
Reply(r, n) ==
    /\ attempt[r][n] = "replying"
    /\ attempt' = [attempt EXCEPT ![r][n] = "acking"]
    /\ \/ /\ http[r] = "waiting"
          /\ inbox' = [inbox EXCEPT ![r] = IF @ = "none" THEN outcome[r][n] ELSE @]
       \/ UNCHANGED inbox
    /\ UNCHANGED <<kind, http, stream, delivered, outcome, applied, expired, crashes>>

(* Mutant: a transient error is acknowledged as well.                      *)
AcknowledgeAlways(r, n) ==
    /\ attempt[r][n] = "acking"
    /\ attempt' = [attempt EXCEPT ![r][n] = "over"]
    /\ stream'  = [stream EXCEPT ![r] = IF @ = "exhausted" THEN @ ELSE "acked"]
    /\ UNCHANGED <<kind, http, inbox, delivered, outcome, applied, expired, crashes>>

(* Mutant: every outcome is answered with NAK.                             *)
AcknowledgeNever(r, n) ==
    /\ attempt[r][n] = "acking"
    /\ attempt' = [attempt EXCEPT ![r][n] = "over"]
    /\ stream'  = [stream EXCEPT ![r] =
                     IF @ = "inflight" THEN Redeliverable(r) ELSE @]
    /\ UNCHANGED <<kind, http, inbox, delivered, outcome, applied, expired, crashes>>

(* ack, or NAK after a transient error; the result of either is ignored.   *)
(* An acknowledgement settles the message even when a later delivery is    *)
(* already under way; a NAK of a message no longer in flight does nothing. *)
Acknowledge(r, n) ==
    /\ attempt[r][n] = "acking"
    /\ attempt' = [attempt EXCEPT ![r][n] = "over"]
    /\ \/ /\ Transient(outcome[r][n])
          /\ stream' = [stream EXCEPT ![r] =
                          IF @ = "inflight" THEN Redeliverable(r) ELSE @]
       \/ /\ ~Transient(outcome[r][n])
          /\ stream' = [stream EXCEPT ![r] =
                          IF @ = "exhausted" THEN @ ELSE "acked"]
       \/ UNCHANGED stream
    /\ UNCHANGED <<kind, http, inbox, delivered, outcome, applied, expired, crashes>>

-----------------------------------------------------------------------------
(* The process, which runs the handlers and the workers, dies and is       *)
(* restarted.  A call of the service that was under way may or may not     *)
(* have committed (the deliveries in landed).                              *)
Crash ==
    /\ crashes < MaxCrashes
    /\ crashes' = crashes + 1
    /\ http'  = [r \in Requests |-> IF http[r] = "waiting" THEN "gone" ELSE http[r]]
    /\ inbox' = [r \in Requests |-> "none"]
    /\ attempt' = [r \in Requests |-> [n \in Attempts |->
                     IF attempt[r][n] = "none" THEN "none" ELSE "over"]]
    /\ \E landed \in [Requests -> SUBSET Attempts] :
          /\ \A r \in Requests : \A n \in landed[r] :
                attempt[r][n] = "running" /\ kind[r] \in Ops
          /\ applied' = [r \in Requests |-> applied[r] \cup landed[r]]
    /\ UNCHANGED <<kind, stream, delivered, outcome, expired>>

Handler(r) == RefuseRequest(r) \/ Publish(r) \/ PublishFails(r)
                \/ TakeReply(r) \/ Timeout(r)

Task(r, n) == TerminateMalformed(r, n) \/ RefuseAmount(r, n)
                \/ CallService(r, n) \/ Reply(r, n) \/ Acknowledge(r, n)

Next ==
    \/ \E r \in Requests : \/ Handler(r)
                           \/ PublishDirect(r)
                           \/ Deliver(r)
                           \/ AckWaitExpires(r)
                           \/ \E n \in Attempts : Task(r, n)
    \/ Crash

Spec == Init /\ [][Next]_vars

(* The consumer delivers what is ready, timers fire, a spawned task and a  *)
(* waiting handler go on for as long as the process lives.  Nobody is      *)
(* obliged to send a request, to fail or to crash.                         *)
FairSpec ==
    /\ Spec
    /\ \A r \in Requests :
          /\ WF_vars(TakeReply(r) \/ Timeout(r))
          /\ WF_vars(Deliver(r))
          /\ WF_vars(AckWaitExpires(r))
          /\ \A n \in Attempts : WF_vars(Task(r, n))

-----------------------------------------------------------------------------
(* What holds.                                                             *)

(* Nothing is acknowledged unprocessed: a message that the consumer has    *)
(* settled was garbage, or some delivery of it was performed or refused    *)
(* for a business reason; and it is given up only after MaxDeliver         *)
(* deliveries.  In particular a transient error, a lost acknowledgement or *)
(* a crash before the acknowledgement never settles it.                    *)
NothingSettledUnprocessed ==
    \A r \in Requests :
        /\ stream[r] = "acked" =>
              \/ kind[r] = "malformed"
              \/ \E n \in Attempts : /\ outcome[r][n] # "none"
                                     /\ ~Transient(outcome[r][n])
        /\ stream[r] = "exhausted" => delivered[r] = MaxDeliver

(* A client that is told 201 has been served: the command was performed by *)
(* a delivery that reported success, whatever was lost, repeated or late   *)
(* on the way of the reply.                                                *)
CreatedMeansApplied ==
    \A r \in Requests : http[r] = "created" =>
        \E n \in applied[r] : outcome[r][n] = "ok"

(* A client is answered with what some delivery of its command ended with: *)
(* a refusal reaches it under its own name and status, never as the 500 of *)
(* a database that failed, and a failure never as a refusal.               *)
AnswersAreOutcomes ==
    \A r \in Requests :
        kind[r] \in Ops /\ http[r] \in Errors =>
            \E n \in Attempts : outcome[r][n] = http[r]

(* Why these hold: the bookkeeping of the deliveries, as an inductive      *)
(* invariant.  A task exists for the deliveries made so far, has an        *)
(* outcome from the moment it replies and keeps it, and said ok only of    *)
(* what was committed; so did every reply that a handler may take.         *)
Served(r) == \E n \in applied[r] : outcome[r][n] = "ok"

DeliveryCounts(r) ==
    /\ stream[r] = "absent" => delivered[r] = 0
    /\ stream[r] = "ready"  => delivered[r] < MaxDeliver
    /\ stream[r] = "inflight" => delivered[r] > 0
    /\ http[r] = "idle" /\ kind[r] \in Ops => stream[r] = "absent"
    /\ http[r] = "waiting" => kind[r] \in Ops
    /\ \A n \in Attempts : n > delivered[r] => attempt[r][n] = "none"

OutcomesKept(r) ==
    \A n \in Attempts :
        /\ attempt[r][n] \in {"none", "running"} => outcome[r][n] = "none"
        /\ attempt[r][n] \in {"replying", "acking"} => outcome[r][n] # "none"
        /\ outcome[r][n] = "ok" => n \in applied[r]

RepliesTrue(r) == inbox[r] = "ok" \/ http[r] = "created" => Served(r)

(* The inductive invariant: what keeps a delivery of a message from being  *)
(* confused with another one, in every request.                            *)
DeliveryInv ==
    \A r \in Requests : DeliveryCounts(r) /\ OutcomesKept(r) /\ RepliesTrue(r)

(* Every stored command is settled or given up in the end, through any     *)
(* number of lost acknowledgements and a crash.                            *)
EventuallySettled ==
    \A r \in Requests :
        stream[r] = "ready" ~> stream[r] \in {"acked", "exhausted"}

(* An answer of 400, 403 or 404.                                           *)
Refused(r) == http[r] \notin {"idle", "waiting", "gone"}
                /\ StatusCode(http[r]) \in 400..499

(* What entitles the consumer to another delivery after the n-th: its task *)
(* did not acknowledge in time, being slow, dead or unheard, or a task so  *)
(* far has reported a database error, which leaves open what was done.     *)
Unsure(r, n) == n \in expired[r] \/ \E k \in 1..n : Transient(outcome[r][k])

(* A command is performed again only while it is unsure whether it was: no *)
(* two deliveries have an effect unless every delivery from the first of   *)
(* them on was unsure, and no refused command is performed without one.    *)
(* So with no database error, a command whose tasks acknowledge within     *)
(* ack_wait is performed at most once, and never if refused, however late  *)
(* its handler gives up.                                                   *)
RepeatedOnlyWhenUnsure ==
    \A r \in Requests :
        /\ \A n, m \in applied[r] : \A k \in n..(m - 1) : Unsure(r, k)
        /\ Refused(r) /\ applied[r] # {} => \E n \in Attempts : Unsure(r, n)

-----------------------------------------------------------------------------
(* What the repository says and the code does not do.                      *)

(* worker.rs:38-39 "ACK + reply with error (no point retrying - the answer *)
(* won't change)": a request answered with a business error is not         *)
(* performed.  But the reply goes out first, and an acknowledgement that   *)
(* is lost brings the command back when the answer may have changed.       *)
RejectedMeansUnapplied ==
    \A r \in Requests : Refused(r) => applied[r] = {}
=============================================================================
