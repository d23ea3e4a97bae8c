--------------------------- MODULE DeliveryProofs ---------------------------
(***************************************************************************)
(* Proofs about Delivery for any number of requests, deliveries and        *)
(* crashes.                                                                *)
(***************************************************************************)
EXTENDS Delivery, TLAPS

-----------------------------------------------------------------------------
(* Type correctness.                                                       *)

(* Each service refuses with errors that have a name in the protocol, and  *)
(* none of them is the one that is tried again.                            *)
LEMMA RefusalTypes ==
    ASSUME NEW op \in Ops, NEW e \in Refusals[op]
    PROVE  e \in Errors /\ e \in Named(op) /\ e # "ok" /\ e # "none" /\ ~Transient(e)
BY RefusalsAssumption DEF Ops, ServiceRefusals, LookupErrors, Errors, Named, Transient

(* The handler answers what the worker was told, ok as 201.                *)
LEMMA AnswerTells ==
    ASSUME NEW op \in Ops, NEW o \in Refusals[op] \cup {"ok", "DatabaseError"}
    PROVE  Answer(op, o) = IF o = "ok" THEN "created" ELSE o
BY RefusalTypes DEF Answer, Ops, Named

(* Every answer is one of the protocol, and 201 only for ok.               *)
LEMMA AnswerTypes ==
    ASSUME NEW op \in Ops, NEW o \in Outcomes
    PROVE  Answer(op, o) \in Errors \cup {"created"} /\ (Answer(op, o) = "created" => o = "ok")
BY DEF Answer, Outcomes, Errors

(* Every variable keeps its type; a message is delivered only while the    *)
(* consumer has a delivery of it left, so the tasks stay in their range.   *)
LEMMA DeliveryTypes ==
    ASSUME TypeOK, DeliveryInv, [Next]_vars
    PROVE  TypeOK'
<1> USE DeliveryAssumption DEF TypeOK, Attempts
<1>a. "DatabaseError" \in Outcomes /\ "InvalidAmount" \in Outcomes /\ "ok" \in Outcomes
        /\ "InvalidAmount" \in Errors
  BY DEF Outcomes, Errors
<1>1. ASSUME NEW r \in Requests, Handler(r)
      PROVE  TypeOK'
  <2>1. CASE RefuseRequest(r)
    BY <1>a, <2>1 DEF RefuseRequest
  <2>2. CASE Publish(r)
    BY <2>2 DEF Publish
  <2>3. CASE PublishFails(r)
    BY <2>3 DEF PublishFails, NoReply
  <2>4. CASE TakeReply(r)
    <3>1. kind[r] \in Ops
      BY <2>4 DEF TakeReply, DeliveryInv, DeliveryCounts
    <3>2. Answer(kind[r], inbox[r]) \in Errors \cup {"created"}
      BY <2>4, <3>1, AnswerTypes DEF TakeReply
    <3> QED
      BY <2>4, <3>2 DEF TakeReply
  <2>5. CASE Timeout(r)
    BY <2>5 DEF Timeout, NoReply
  <2> QED
    BY <1>1, <2>1, <2>2, <2>3, <2>4, <2>5 DEF Handler
<1>2. ASSUME NEW r \in Requests, PublishDirect(r)
      PROVE  TypeOK'
  BY <1>2 DEF PublishDirect
<1>3. ASSUME NEW r \in Requests, Deliver(r)
      PROVE  TypeOK'
  <2>1. delivered[r] + 1 \in 1..MaxDeliver
    BY <1>3 DEF Deliver, DeliveryInv, DeliveryCounts
  <2>2. attempt' \in [Requests -> [Attempts -> {"none", "running", "replying",
                                                "acking", "over"}]]
    BY <1>3 DEF Deliver
  <2> QED
    BY <1>3, <2>1, <2>2 DEF Deliver
<1>4. ASSUME NEW r \in Requests, AckWaitExpires(r)
      PROVE  TypeOK'
  <2>1. delivered[r] \in 1..MaxDeliver
    BY <1>4 DEF AckWaitExpires, DeliveryInv, DeliveryCounts
  <2>2. expired' \in [Requests -> SUBSET (1..MaxDeliver)]
    BY <1>4, <2>1 DEF AckWaitExpires
  <2> QED
    BY <1>4, <2>2 DEF AckWaitExpires, Redeliverable
<1>5. ASSUME NEW r \in Requests, NEW n \in Attempts, Task(r, n)
      PROVE  TypeOK'
  <2>1. CASE TerminateMalformed(r, n)
    BY <1>5, <2>1 DEF TerminateMalformed
  <2>2. CASE RefuseAmount(r, n)
    BY <1>5, <1>a, <2>2 DEF RefuseAmount, Ends
  <2>3. CASE CallService(r, n)
    <3>1. PICK o \in Outcomes : Ends(r, n, o)
      BY <1>a, <2>3, RefusalTypes DEF CallService, Outcomes
    <3>2. outcome' \in [Requests -> [Attempts -> Outcomes \cup {"none"}]]
      BY <3>1 DEF Ends
    <3>3. attempt' \in [Requests -> [Attempts -> {"none", "running", "replying",
                                                  "acking", "over"}]]
      BY <3>1 DEF Ends
    <3>4. applied' \in [Requests -> SUBSET Attempts]
      BY <2>3 DEF CallService
    <3> QED
      BY <2>3, <3>2, <3>3, <3>4 DEF CallService
  <2>4. CASE Reply(r, n)
    <3>1. inbox' \in [Requests -> Outcomes \cup {"none"}]
      <4>1. inbox[r] \in Outcomes \cup {"none"} /\ outcome[r][n] \in Outcomes \cup {"none"}
        BY <1>5
      <4> QED
        BY <2>4, <4>1 DEF Reply
    <3>2. attempt' \in [Requests -> [Attempts -> {"none", "running", "replying",
                                                  "acking", "over"}]]
      BY <2>4 DEF Reply
    <3> QED
      BY <2>4, <3>1, <3>2 DEF Reply
  <2>5. CASE Acknowledge(r, n)
    BY <1>5, <2>5 DEF Acknowledge, Redeliverable
  <2> QED
    BY <1>5, <2>1, <2>2, <2>3, <2>4, <2>5 DEF Task
<1>6. CASE Crash
  BY <1>6 DEF Crash
<1>7. CASE UNCHANGED vars
  BY <1>7 DEF vars
<1> QED
  BY <1>1, <1>2, <1>3, <1>4, <1>5, <1>6, <1>7 DEF Next

-----------------------------------------------------------------------------
(* The bookkeeping of the deliveries.                                      *)

(* An action on one request leaves the bookkeeping of the others alone.    *)
LEMMA OtherRequests ==
    ASSUME NEW q \in Requests,
           DeliveryCounts(q), OutcomesKept(q), RepliesTrue(q),
           kind'[q] = kind[q], http'[q] = http[q], inbox'[q] = inbox[q],
           stream'[q] = stream[q], delivered'[q] = delivered[q],
           attempt'[q] = attempt[q], outcome'[q] = outcome[q],
           applied'[q] = applied[q]
    PROVE  DeliveryCounts(q)' /\ OutcomesKept(q)' /\ RepliesTrue(q)'
  BY DEF DeliveryCounts, OutcomesKept, RepliesTrue, Served, Attempts

(* The steps of the handler keep the bookkeeping of its request.           *)
LEMMA HandlerKeepsBooks ==
    ASSUME TypeOK, DeliveryInv, NEW r \in Requests, Handler(r) \/ PublishDirect(r)
    PROVE  DeliveryInv'
<1> USE DeliveryAssumption DEF TypeOK, Attempts
<1>1. SUFFICES ASSUME NEW q \in Requests
               PROVE  DeliveryCounts(q)' /\ OutcomesKept(q)' /\ RepliesTrue(q)'
  BY DEF DeliveryInv
<1>2. DeliveryCounts(q) /\ OutcomesKept(q) /\ RepliesTrue(q)
  BY DEF DeliveryInv
<1>3. CASE RefuseRequest(r)
  BY <1>2, <1>3 DEF RefuseRequest, DeliveryCounts, OutcomesKept, RepliesTrue, Served
<1>4. CASE Publish(r)
  BY <1>2, <1>4 DEF Publish, DeliveryCounts, OutcomesKept, RepliesTrue, Served
<1>5. CASE PublishFails(r)
  BY <1>2, <1>5 DEF PublishFails, DeliveryCounts, OutcomesKept, RepliesTrue, Served
<1>6. CASE TakeReply(r)
  <2>1. kind[r] \in Ops /\ inbox[r] \in Outcomes
    BY <1>6 DEF TakeReply, DeliveryInv, DeliveryCounts
  <2>2. Answer(kind[r], inbox[r]) = "created" => inbox[r] = "ok"
    BY <2>1, AnswerTypes
  <2>3. Answer(kind[r], inbox[r]) \notin {"idle", "waiting"}
    BY <2>1, AnswerTypes DEF Errors
  <2> QED
    BY <1>2, <1>6, <2>2, <2>3
    DEF TakeReply, DeliveryCounts, OutcomesKept, RepliesTrue, Served
<1>7. CASE Timeout(r)
  BY <1>2, <1>7 DEF Timeout, DeliveryCounts, OutcomesKept, RepliesTrue, Served
<1>8. CASE PublishDirect(r)
  BY <1>2, <1>8 DEF PublishDirect, DeliveryCounts, OutcomesKept, RepliesTrue, Served
<1> QED
  BY <1>3, <1>4, <1>5, <1>6, <1>7, <1>8 DEF Handler

(* The steps of the consumer keep it: a delivery gets a task of its own,   *)
(* and a message goes back only while a delivery is left.                  *)
LEMMA ConsumerKeepsBooks ==
    ASSUME TypeOK, DeliveryInv, NEW r \in Requests, Deliver(r) \/ AckWaitExpires(r)
    PROVE  DeliveryInv'
<1> USE DeliveryAssumption DEF TypeOK, Attempts
<1>1. SUFFICES ASSUME NEW q \in Requests
               PROVE  DeliveryCounts(q)' /\ OutcomesKept(q)' /\ RepliesTrue(q)'
  BY DEF DeliveryInv
<1>2. DeliveryCounts(q) /\ OutcomesKept(q) /\ RepliesTrue(q)
  BY DEF DeliveryInv
<1>3. CASE Deliver(r)
  <2>1. CASE q = r
    <3>1. delivered[r] < MaxDeliver /\ stream[r] = "ready"
      BY <1>2, <1>3, <2>1 DEF Deliver, DeliveryCounts
    <3>2. \A n \in Attempts : attempt'[r][n] =
              IF n = delivered[r] + 1 THEN "running" ELSE attempt[r][n]
      BY <1>3 DEF Deliver
    <3>3. stream'[r] = "inflight" /\ delivered'[r] = delivered[r] + 1
      BY <1>3 DEF Deliver
    <3>4. attempt[r][delivered[r] + 1] = "none"
      BY <1>2, <2>1, <3>1 DEF DeliveryCounts
    <3>5. DeliveryCounts(q)'
      BY <1>2, <1>3, <2>1, <3>1, <3>2, <3>3 DEF Deliver, DeliveryCounts
    <3>6. OutcomesKept(q)'
      BY <1>2, <1>3, <2>1, <3>2, <3>4 DEF Deliver, OutcomesKept
    <3>7. RepliesTrue(q)'
      BY <1>2, <1>3 DEF Deliver, RepliesTrue, Served
    <3> QED
      BY <3>5, <3>6, <3>7
  <2>2. CASE q # r
    BY <1>2, <1>3, <2>2, OtherRequests DEF Deliver
  <2> QED
    BY <2>1, <2>2
<1>4. CASE AckWaitExpires(r)
  BY <1>2, <1>4 DEF AckWaitExpires, Redeliverable, DeliveryCounts, OutcomesKept,
                    RepliesTrue, Served
<1> QED
  BY <1>3, <1>4

(* The steps of a task keep it: a task has an outcome from its call on, it *)
(* says ok only of what it committed, and replies with what it was told.   *)
LEMMA TaskKeepsBooks ==
    ASSUME TypeOK, DeliveryInv, NEW r \in Requests, NEW n \in Attempts, Task(r, n)
    PROVE  DeliveryInv'
<1> USE DeliveryAssumption DEF TypeOK, Attempts
<1>1. SUFFICES ASSUME NEW q \in Requests
               PROVE  DeliveryCounts(q)' /\ OutcomesKept(q)' /\ RepliesTrue(q)'
  BY DEF DeliveryInv
<1>2. DeliveryCounts(q) /\ OutcomesKept(q) /\ RepliesTrue(q)
  BY DEF DeliveryInv
<1>3. n <= delivered[r] /\ stream[r] # "absent"
  <2>1. attempt[r][n] # "none"
    BY DEF Task, TerminateMalformed, RefuseAmount, CallService, Reply, Acknowledge
  <2>2. DeliveryCounts(r)
    BY DEF DeliveryInv
  <2> QED
    BY <2>1, <2>2 DEF DeliveryCounts
<1>4. CASE q # r
  BY <1>2, <1>4, OtherRequests
  DEF Task, TerminateMalformed, RefuseAmount, CallService, Ends, Reply, Acknowledge
<1>5. CASE q = r /\ TerminateMalformed(r, n)
  BY <1>2, <1>3, <1>5
  DEF TerminateMalformed, DeliveryCounts, OutcomesKept, RepliesTrue, Served
<1>6. CASE q = r /\ \/ RefuseAmount(r, n)
                    \/ CallService(r, n)
  <2>1. PICK o \in Outcomes : Ends(r, n, o) /\ (o = "ok" => n \in applied'[r])
    <3>1. CASE RefuseAmount(r, n)
      BY <3>1 DEF RefuseAmount, Outcomes, Errors
    <3>2. CASE CallService(r, n)
      <4>1. {"ok", "DatabaseError"} \subseteq Outcomes
        BY DEF Outcomes, Errors
      <4>2. \A e \in Refusals[kind[r]] : e \in Outcomes /\ e # "ok"
        BY <3>2, RefusalTypes DEF CallService, Outcomes
      <4> QED
        BY <3>2, <4>1, <4>2 DEF CallService
    <3> QED
      BY <1>6, <3>1, <3>2
  <2>2. /\ attempt[r][n] = "running"
        /\ kind'[r] = kind[r] /\ http'[r] = http[r] /\ inbox'[r] = inbox[r]
        /\ stream'[r] = stream[r] /\ delivered'[r] = delivered[r]
        /\ applied[r] \subseteq applied'[r]
    BY <1>6 DEF RefuseAmount, CallService
  <2>3. \A m \in Attempts :
           /\ attempt'[r][m] = IF m = n THEN "replying" ELSE attempt[r][m]
           /\ outcome'[r][m] = IF m = n THEN o ELSE outcome[r][m]
    BY <2>1 DEF Ends
  <2>4. outcome[r][n] = "none"
    BY <1>2, <1>6, <2>2 DEF OutcomesKept
  <2>5. DeliveryCounts(q)'
    BY <1>2, <1>3, <1>6, <2>2, <2>3 DEF DeliveryCounts
  <2>6. OutcomesKept(q)'
    <3>1. SUFFICES ASSUME NEW m \in Attempts
                   PROVE  /\ attempt'[r][m] \in {"none", "running"} => outcome'[r][m] = "none"
                          /\ attempt'[r][m] \in {"replying", "acking"} => outcome'[r][m] # "none"
                          /\ outcome'[r][m] = "ok" => m \in applied'[r]
      BY <1>6 DEF OutcomesKept
    <3>2. CASE m = n
      BY <2>1, <2>3, <3>2 DEF Outcomes, Errors
    <3>3. CASE m # n
      BY <1>2, <1>6, <2>2, <2>3, <3>3 DEF OutcomesKept
    <3> QED
      BY <3>2, <3>3
  <2>7. Served(r) => Served(r)'
    <3>1. SUFFICES ASSUME NEW m \in applied[r], outcome[r][m] = "ok"
                   PROVE  m \in applied'[r] /\ outcome'[r][m] = "ok"
      BY DEF Served
    <3>2. m \in Attempts /\ m # n
      BY <2>4, <3>1
    <3> QED
      BY <2>2, <2>3, <3>1, <3>2
  <2> QED
    BY <1>2, <1>6, <2>2, <2>5, <2>6, <2>7 DEF RepliesTrue
<1>7. CASE q = r /\ Reply(r, n)
  <2>1. inbox'[r] = "ok" => inbox[r] = "ok" \/ outcome[r][n] = "ok"
    BY <1>7 DEF Reply
  <2>2. outcome[r][n] = "ok" => Served(r)
    BY <1>2, <1>7 DEF OutcomesKept, Served
  <2> QED
    BY <1>2, <1>3, <1>7, <2>1, <2>2
    DEF Reply, DeliveryCounts, OutcomesKept, RepliesTrue, Served
<1>8. CASE q = r /\ Acknowledge(r, n)
  BY <1>2, <1>3, <1>8
  DEF Acknowledge, Redeliverable, DeliveryCounts, OutcomesKept, RepliesTrue, Served
<1> QED
  BY <1>4, <1>5, <1>6, <1>7, <1>8 DEF Task

(* A crash keeps it: it ends the tasks, empties the inboxes and may add    *)
(* effects, but takes nothing back.                                        *)
LEMMA CrashKeepsBooks ==
    ASSUME TypeOK, DeliveryInv, Crash
    PROVE  DeliveryInv'
<1> USE DeliveryAssumption DEF TypeOK, Attempts
<1>1. SUFFICES ASSUME NEW q \in Requests
               PROVE  DeliveryCounts(q)' /\ OutcomesKept(q)' /\ RepliesTrue(q)'
  BY DEF DeliveryInv
<1>2. DeliveryCounts(q) /\ OutcomesKept(q) /\ RepliesTrue(q)
  BY DEF DeliveryInv
<1>3. /\ inbox'[q] = "none"
      /\ http'[q] = IF http[q] = "waiting" THEN "gone" ELSE http[q]
      /\ \A n \in Attempts : attempt'[q][n] =
              IF attempt[q][n] = "none" THEN "none" ELSE "over"
      /\ kind' = kind /\ stream' = stream /\ delivered' = delivered
      /\ outcome' = outcome
  BY DEF Crash
<1>4. applied[q] \subseteq applied'[q]
  BY DEF Crash
<1>5. DeliveryCounts(q)'
  BY <1>2, <1>3 DEF DeliveryCounts
<1>6. OutcomesKept(q)'
  BY <1>2, <1>3, <1>4 DEF OutcomesKept
<1>7. RepliesTrue(q)'
  BY <1>2, <1>3, <1>4 DEF RepliesTrue, Served
<1> QED
  BY <1>5, <1>6, <1>7

(* Every step keeps the types and the bookkeeping.                         *)
LEMMA DeliveryStep ==
    ASSUME TypeOK, DeliveryInv, [Next]_vars
    PROVE  TypeOK' /\ DeliveryInv'
<1>1. TypeOK'
  BY DeliveryTypes
<1>2. DeliveryInv'
  <2>1. CASE Next
    BY <2>1, HandlerKeepsBooks, ConsumerKeepsBooks, TaskKeepsBooks, CrashKeepsBooks
    DEF Next
  <2>2. CASE UNCHANGED vars
    <3>1. SUFFICES ASSUME NEW q \in Requests
                   PROVE  DeliveryCounts(q)' /\ OutcomesKept(q)' /\ RepliesTrue(q)'
      BY DEF DeliveryInv
    <3> QED
      BY <2>2, OtherRequests DEF vars, DeliveryInv
  <2> QED
    BY <2>1, <2>2
<1> QED
  BY <1>1, <1>2

(* It holds at the start, when nothing has been published.                 *)
LEMMA DeliveryInit ==
    ASSUME Init
    PROVE  TypeOK /\ DeliveryInv
  BY DeliveryAssumption
  DEF Init, TypeOK, DeliveryInv, DeliveryCounts, OutcomesKept, RepliesTrue, Served,
      Attempts, Kinds, Ops

(* Every message and delivery has its type, and the bookkeeping holds, in  *)
(* every reachable state.                                                  *)
THEOREM DeliveryTheorem == Spec => [](TypeOK /\ DeliveryInv)
<1>1. Init => TypeOK /\ DeliveryInv
  BY DeliveryInit
<1>2. TypeOK /\ DeliveryInv /\ [Next]_vars => (TypeOK /\ DeliveryInv)'
  BY DeliveryStep
<1> QED
  BY <1>1, <1>2, PTL DEF Spec

(* Every variable keeps its type: in particular no message has more        *)
(* deliveries than the consumer grants it.                                 *)
THEOREM DeliveryTypeTheorem == Spec => []TypeOK
BY DeliveryTheorem, PTL

-----------------------------------------------------------------------------
(* What the bookkeeping is for.                                            *)

(* A client that is told 201 has been served by a delivery that performed  *)
(* the command, whatever was lost, repeated or late on the way.            *)
THEOREM CreatedTheorem == Spec => []CreatedMeansApplied
<1>1. DeliveryInv => CreatedMeansApplied
  BY DEF DeliveryInv, RepliesTrue, Served, CreatedMeansApplied
<1> QED
  BY <1>1, DeliveryTheorem, PTL

(* The outcomes after which the worker acknowledges.                       *)
Settling(o) == o # "none" /\ ~Transient(o)

(* Only garbage, a performed or a refused command is acknowledged, and     *)
(* only a message out of deliveries is given up: a step keeps that.        *)
LEMMA SettledStep ==
    ASSUME TypeOK, DeliveryInv, NothingSettledUnprocessed, [Next]_vars
    PROVE  NothingSettledUnprocessed'
<1> USE DeliveryAssumption DEF TypeOK, Attempts, Settling
<1>1. SUFFICES ASSUME NEW q \in Requests
               PROVE  /\ stream'[q] = "acked" =>
                            \/ kind'[q] = "malformed"
                            \/ \E n \in Attempts : Settling(outcome'[q][n])
                      /\ stream'[q] = "exhausted" => delivered'[q] = MaxDeliver
  BY DEF NothingSettledUnprocessed
<1>2. /\ stream[q] = "acked" =>
            \/ kind[q] = "malformed"
            \/ \E n \in Attempts : Settling(outcome[q][n])
      /\ stream[q] = "exhausted" => delivered[q] = MaxDeliver
  BY DEF NothingSettledUnprocessed
<1>3. ASSUME NEW r \in Requests, Handler(r) \/ PublishDirect(r)
      PROVE  kind' = kind /\ outcome' = outcome /\ delivered' = delivered
             /\ stream'[q] \in {stream[q], "ready"}
  BY <1>3 DEF Handler, RefuseRequest, Publish, PublishFails, TakeReply, Timeout,
              PublishDirect
<1>4. ASSUME NEW r \in Requests, Deliver(r)
      PROVE  kind' = kind /\ outcome' = outcome
             /\ (stream'[q] = "inflight"
                   \/ (stream'[q] = stream[q] /\ delivered'[q] = delivered[q]))
  <2>1. /\ kind' = kind /\ outcome' = outcome
        /\ stream' = [stream EXCEPT ![r] = "inflight"]
        /\ delivered' = [delivered EXCEPT ![r] = @ + 1]
    BY <1>4 DEF Deliver
  <2>2. CASE q = r
    BY <2>1, <2>2
  <2>3. CASE q # r
    BY <2>1, <2>3
  <2> QED
    BY <2>2, <2>3
<1>5. ASSUME NEW r \in Requests, AckWaitExpires(r)
      PROVE  kind' = kind /\ outcome' = outcome /\ delivered' = delivered
             /\ \/ stream'[q] \in {stream[q], "ready"}
                \/ stream'[q] = "exhausted" /\ delivered[q] = MaxDeliver
  BY <1>5 DEF AckWaitExpires, Redeliverable
<1>6. ASSUME NEW r \in Requests, NEW n \in Attempts, Task(r, n)
      PROVE  /\ stream'[q] = "acked" =>
                   \/ kind'[q] = "malformed"
                   \/ \E m \in Attempts : Settling(outcome'[q][m])
             /\ stream'[q] = "exhausted" => delivered'[q] = MaxDeliver
  <2>1. CASE TerminateMalformed(r, n)
    BY <1>2, <2>1 DEF TerminateMalformed
  <2>2. CASE RefuseAmount(r, n) \/ CallService(r, n)
    <3>1. stream' = stream /\ kind' = kind /\ delivered' = delivered
      BY <2>2 DEF RefuseAmount, CallService
    <3>2. PICK o : Ends(r, n, o)
      BY <2>2 DEF RefuseAmount, CallService
    <3>3. outcome[r][n] = "none"
      BY <1>6, <2>2 DEF RefuseAmount, CallService, DeliveryInv, OutcomesKept
    <3>4. \A m \in Attempts : outcome[q][m] # "none" => outcome'[q][m] = outcome[q][m]
      BY <3>2, <3>3, <1>6 DEF Ends
    <3> QED
      BY <1>2, <3>1, <3>4
  <2>3. CASE Reply(r, n)
    BY <1>2, <2>3 DEF Reply
  <2>4. CASE Acknowledge(r, n)
    <3>1. outcome[r][n] # "none" /\ UNCHANGED <<kind, outcome, delivered>>
      BY <1>6, <2>4 DEF Acknowledge, DeliveryInv, OutcomesKept
    <3>2. CASE stream'[q] = stream[q]
      BY <1>2, <3>1, <3>2
    <3>3. CASE stream'[q] # stream[q]
      <4>1. q = r
        BY <2>4, <3>3 DEF Acknowledge
      <4>2. \/ stream'[q] = Redeliverable(r)
            \/ stream'[q] = "acked" /\ ~Transient(outcome[r][n])
        BY <2>4, <3>3, <4>1 DEF Acknowledge
      <4> QED
        BY <3>1, <4>1, <4>2 DEF Redeliverable
    <3> QED
      BY <3>2, <3>3
  <2> QED
    BY <1>6, <2>1, <2>2, <2>3, <2>4 DEF Task
<1>7. CASE Crash \/ UNCHANGED vars
  BY <1>2, <1>7 DEF Crash, vars
<1> QED
  BY <1>2, <1>3, <1>4, <1>5, <1>6, <1>7 DEF Next

(* Nothing is acknowledged unprocessed, and nothing is given up early,     *)
(* through any number of crashes, lost acknowledgements and redeliveries.  *)
THEOREM NothingSettledTheorem == Spec => []NothingSettledUnprocessed
<1>1. Init => NothingSettledUnprocessed
  BY DEF Init, NothingSettledUnprocessed
<1>2. /\ TypeOK /\ DeliveryInv /\ NothingSettledUnprocessed /\ [Next]_vars
      => NothingSettledUnprocessed'
  BY SettledStep
<1> QED
  BY <1>1, <1>2, DeliveryTheorem, PTL DEF Spec

-----------------------------------------------------------------------------
(* What clients are told.                                                  *)

(* A task ends with what its service may say, the reply in an inbox is the *)
(* outcome of a task of its command, and so is the answer to the client.   *)
Told(r) ==
    /\ kind[r] \in Ops => \A n \in Attempts :
          outcome[r][n] \in Refusals[kind[r]] \cup {"ok", "DatabaseError", "none"}
    /\ inbox[r] # "none" => \E n \in Attempts : outcome[r][n] = inbox[r]
    /\ kind[r] \in Ops /\ http[r] \in Errors =>
          \E n \in Attempts : outcome[r][n] = http[r]

(* That, of every message: the inductive invariant of the answers.         *)
AnswersInv == \A r \in Requests : Told(r)

(* A step keeps that.                                                      *)
LEMMA AnswersStep ==
    ASSUME TypeOK, DeliveryInv, AnswersInv, [Next]_vars
    PROVE  AnswersInv'
<1> USE DeliveryAssumption DEF TypeOK, Attempts
<1>1. SUFFICES ASSUME NEW q \in Requests
               PROVE  Told(q)'
  BY DEF AnswersInv
<1>2. Told(q)
  BY DEF AnswersInv
<1>3. ASSUME NEW r \in Requests, Handler(r) \/ PublishDirect(r)
      PROVE  Told(q)'
  <2>1. CASE RefuseRequest(r)
    <3>1. q # r \/ kind'[q] \notin Ops
      BY <2>1 DEF RefuseRequest, Ops
    <3> QED
      BY <1>2, <2>1, <3>1 DEF RefuseRequest, Told
  <2>2. CASE Publish(r) \/ PublishFails(r) \/ Timeout(r)
    <3>1. http'[q] \in {http[q], "waiting"} \cup NoReply
      BY <2>2 DEF Publish, PublishFails, Timeout, NoReply
    <3>2. http'[q] \in Errors => http'[q] = http[q]
      BY <3>1 DEF Errors, NoReply
    <3> QED
      BY <1>2, <2>2, <3>2 DEF Publish, PublishFails, Timeout, Told
  <2>3. CASE TakeReply(r)
    <3>1. CASE q # r
      BY <1>2, <2>3, <3>1 DEF TakeReply, Told
    <3>2. CASE q = r
      <4>1. kind[q] \in Ops /\ inbox[q] # "none"
        BY <2>3, <3>2 DEF TakeReply, DeliveryInv, DeliveryCounts
      <4>2. inbox[q] \in Refusals[kind[q]] \cup {"ok", "DatabaseError"}
        BY <1>2, <4>1 DEF Told
      <4>3. http'[q] = IF inbox[q] = "ok" THEN "created" ELSE inbox[q]
        BY <2>3, <3>2, <4>1, <4>2, AnswerTells DEF TakeReply
      <4>4. "created" \notin Errors
        BY DEF Errors
      <4> QED
        BY <1>2, <2>3, <3>2, <4>1, <4>3, <4>4 DEF TakeReply, Told
    <3> QED
      BY <3>1, <3>2
  <2>4. CASE PublishDirect(r)
    BY <1>2, <2>4 DEF PublishDirect, Told
  <2> QED
    BY <1>3, <2>1, <2>2, <2>3, <2>4 DEF Handler
<1>4. ASSUME NEW r \in Requests, Deliver(r) \/ AckWaitExpires(r)
      PROVE  Told(q)'
  BY <1>2, <1>4 DEF Deliver, AckWaitExpires, Told
<1>5. ASSUME NEW r \in Requests, NEW n \in Attempts, Task(r, n)
      PROVE  Told(q)'
  <2>1. CASE RefuseAmount(r, n) \/ CallService(r, n)
    <3>1. PICK o : /\ Ends(r, n, o)
                   /\ kind[r] \in Ops => o \in Refusals[kind[r]] \cup {"ok", "DatabaseError"}
      BY <2>1 DEF RefuseAmount, CallService, Ops
    <3>2. attempt[r][n] = "running" /\ UNCHANGED <<kind, http, inbox>>
      BY <2>1 DEF RefuseAmount, CallService
    <3>3. outcome[r][n] = "none"
      BY <3>2 DEF DeliveryInv, OutcomesKept
    <3>4. \A m \in Attempts : outcome'[q][m] =
              IF q = r /\ m = n THEN o ELSE outcome[q][m]
      BY <3>1 DEF Ends
    <3>5. \A m \in Attempts : outcome[q][m] # "none" => outcome'[q][m] = outcome[q][m]
      BY <3>3, <3>4
    <3>6. "none" \notin Errors
      BY DEF Errors
    <3>7. kind[q] \in Ops => \A m \in Attempts :
              outcome'[q][m] \in Refusals[kind[q]] \cup {"ok", "DatabaseError", "none"}
      BY <1>2, <3>1, <3>4 DEF Told
    <3>8. ASSUME NEW answer, answer # "none", NEW m \in Attempts,
                 outcome[q][m] = answer
          PROVE  \E k \in Attempts : outcome'[q][k] = answer
      BY <3>5, <3>8
    <3> QED
      BY <1>2, <3>2, <3>6, <3>7, <3>8 DEF Told
  <2>2. CASE Reply(r, n)
    BY <1>2, <2>2 DEF Reply, Told
  <2>3. CASE TerminateMalformed(r, n) \/ Acknowledge(r, n)
    BY <1>2, <2>3 DEF TerminateMalformed, Acknowledge, Told
  <2> QED
    BY <1>5, <2>1, <2>2, <2>3 DEF Task
<1>6. CASE Crash
  <2>1. "gone" \notin Errors
    BY DEF Errors
  <2> QED
    BY <1>2, <1>6, <2>1 DEF Crash, Told
<1>7. CASE UNCHANGED vars
  BY <1>2, <1>7 DEF vars, Told
<1> QED
  BY <1>3, <1>4, <1>5, <1>6, <1>7 DEF Next

(* It holds at the start, when there is no answer.                         *)
LEMMA AnswersInit ==
    ASSUME Init
    PROVE  AnswersInv
BY DEF Init, AnswersInv, Told, Errors

(* It holds in every reachable state.                                      *)
LEMMA AnswersAlways == Spec => []AnswersInv
<1>1. Init => AnswersInv
  BY AnswersInit
<1>2. TypeOK /\ DeliveryInv /\ AnswersInv /\ [Next]_vars => AnswersInv'
  BY AnswersStep
<1> QED
  BY <1>1, <1>2, DeliveryTheorem, PTL DEF Spec

(* A client is told what a delivery of its command ended with: refusals    *)
(* keep their name through the reply, and no failure becomes a refusal.    *)
THEOREM AnswersTheorem == Spec => []AnswersAreOutcomes
<1>1. AnswersInv => AnswersAreOutcomes
  BY DEF AnswersInv, Told, AnswersAreOutcomes
<1> QED
  BY <1>1, AnswersAlways, PTL

-----------------------------------------------------------------------------
(* Repeated deliveries.                                                    *)

(* Each delivery but the last was unsure, and so was the last one if the   *)
(* consumer has taken the message back.                                    *)
Reasons(r) ==
    \A n \in Attempts :
        \/ n < delivered[r]
        \/ n = delivered[r] /\ stream[r] \in {"ready", "exhausted"}
        => Unsure(r, n)

(* What was committed was called by a task that has gone on since, and     *)
(* which was not told a refusal.                                           *)
Effects(r) ==
    \A n \in applied[r] :
        /\ attempt[r][n] \notin {"none", "running"}
        /\ kind[r] \in Ops
        /\ outcome[r][n] \in {"ok", "DatabaseError", "none"}

(* That, of every message: the inductive invariant of the repetitions.     *)
RepeatInv == \A r \in Requests : Reasons(r) /\ Effects(r)

(* A reason stays one: what has expired and what a task has said remain.   *)
LEMMA UnsureStays ==
    ASSUME TypeOK, NEW q \in Requests, NEW n \in Attempts, Unsure(q, n),
           expired[q] \subseteq expired'[q],
           \A k \in Attempts : outcome[q][k] # "none" => outcome'[q][k] = outcome[q][k]
    PROVE  Unsure(q, n)'
BY DeliveryAssumption DEF Unsure, Transient, Attempts

(* A step keeps what a task has said.                                      *)
LEMMA OutcomesStay ==
    ASSUME TypeOK, DeliveryInv, Next, NEW q \in Requests, NEW k \in Attempts,
           outcome[q][k] # "none"
    PROVE  outcome'[q][k] = outcome[q][k]
<1>1. CASE outcome' = outcome
  BY <1>1
<1>2. ASSUME NEW r \in Requests, NEW n \in Attempts, NEW o, Ends(r, n, o),
             attempt[r][n] = "running"
      PROVE  outcome'[q][k] = outcome[q][k]
  BY <1>2 DEF Ends, TypeOK, DeliveryInv, OutcomesKept
<1> QED
  BY <1>1, <1>2
  DEF Next, Handler, RefuseRequest, Publish, PublishFails, TakeReply, Timeout,
      PublishDirect, Deliver, AckWaitExpires, Task, TerminateMalformed,
      RefuseAmount, CallService, Reply, Acknowledge, Crash

(* A step keeps the reasons: a message goes back to the consumer only with *)
(* one for its last delivery.                                              *)
LEMMA ReasonsStep ==
    ASSUME TypeOK, DeliveryInv, RepeatInv, Next, NEW q \in Requests
    PROVE  Reasons(q)'
<1> USE DeliveryAssumption DEF TypeOK, Attempts
<1>1. Reasons(q)
  BY DEF RepeatInv
<1>2. expired[q] \subseteq expired'[q]
  <2>1. CASE expired' = expired
    BY <2>1
  <2>2. ASSUME NEW r \in Requests, AckWaitExpires(r)
        PROVE  expired[q] \subseteq expired'[q]
    BY <2>2 DEF AckWaitExpires
  <2> QED
    BY <2>1, <2>2
    DEF Next, Handler, RefuseRequest, Publish, PublishFails, TakeReply, Timeout,
        PublishDirect, Deliver, Task, TerminateMalformed, RefuseAmount,
        CallService, Reply, Acknowledge, Crash
<1>3. \A n \in Attempts : Unsure(q, n) => Unsure(q, n)'
  BY <1>2, OutcomesStay, UnsureStays
<1>4. CASE delivered'[q] = delivered[q] /\ stream'[q] \in {stream[q], "acked"}
  BY <1>1, <1>3, <1>4 DEF Reasons
<1>5. CASE delivered[q] = 0 /\ delivered'[q] = 0
  BY <1>5 DEF Reasons
<1>6. CASE Deliver(q)
  <2>1. delivered'[q] = delivered[q] + 1 /\ stream[q] = "ready" /\ stream'[q] = "inflight"
    BY <1>6 DEF Deliver
  <2> QED
    BY <1>1, <1>3, <2>1 DEF Reasons
<1>7. CASE AckWaitExpires(q)
  <2>1. delivered'[q] = delivered[q] /\ expired'[q] = expired[q] \cup {delivered[q]}
    BY <1>7 DEF AckWaitExpires
  <2>2. \A n \in Attempts : n = delivered[q] => Unsure(q, n)'
    BY <2>1 DEF Unsure
  <2> QED
    BY <1>1, <1>3, <2>1, <2>2 DEF Reasons
<1>8. ASSUME NEW n \in Attempts, Acknowledge(q, n), Transient(outcome[q][n])
      PROVE  Reasons(q)'
  <2>1. delivered'[q] = delivered[q] /\ outcome' = outcome
    BY <1>8 DEF Acknowledge
  <2>2. n <= delivered[q]
    <3>1. attempt[q][n] = "acking"
      BY <1>8 DEF Acknowledge
    <3>2. DeliveryCounts(q)
      BY DEF DeliveryInv
    <3> QED
      BY <3>1, <3>2 DEF DeliveryCounts
  <2>3. \A k \in Attempts : k = delivered[q] => Unsure(q, k)'
    BY <1>8, <2>1, <2>2 DEF Unsure, Transient
  <2> QED
    BY <1>1, <1>3, <2>1, <2>3 DEF Reasons
<1>9. ASSUME NEW r \in Requests, r # q,
             \/ Handler(r) \/ PublishDirect(r) \/ Deliver(r) \/ AckWaitExpires(r)
             \/ \E n \in Attempts : Task(r, n)
      PROVE  delivered'[q] = delivered[q] /\ stream'[q] = stream[q]
  BY <1>9
  DEF Handler, RefuseRequest, Publish, PublishFails, TakeReply, Timeout,
      PublishDirect, Deliver, AckWaitExpires, Task, TerminateMalformed,
      RefuseAmount, CallService, Reply, Acknowledge
<1>10. CASE Handler(q) \/ PublishDirect(q)
  <2>1. CASE Publish(q) \/ PublishDirect(q)
    BY <1>5, <2>1 DEF Publish, PublishDirect, DeliveryInv, DeliveryCounts
  <2> QED
    BY <1>4, <1>10, <2>1
    DEF Handler, RefuseRequest, PublishFails, TakeReply, Timeout
<1>11. ASSUME NEW n \in Attempts, Task(q, n)
       PROVE  Reasons(q)'
  <2>1. CASE Acknowledge(q, n) /\ ~Transient(outcome[q][n])
    BY <1>4, <2>1 DEF Acknowledge
  <2> QED
    BY <1>4, <1>8, <1>11, <2>1
    DEF Task, TerminateMalformed, RefuseAmount, CallService, Reply
<1>12. CASE Crash
  BY <1>4, <1>12 DEF Crash
<1> QED
  BY <1>4, <1>6, <1>7, <1>9, <1>10, <1>11, <1>12 DEF Next

(* A step keeps the effects: a commit and what the task is told of it are  *)
(* one step, and a crash ends the tasks whose effect it leaves behind.     *)
LEMMA EffectsStep ==
    ASSUME TypeOK, DeliveryInv, RepeatInv, Next, NEW q \in Requests
    PROVE  Effects(q)'
<1> USE DeliveryAssumption DEF TypeOK, Attempts
<1>1. Effects(q)
  BY DEF RepeatInv
<1>2. kind' = kind
  BY DEF Next, Handler, RefuseRequest, Publish, PublishFails, TakeReply, Timeout,
         PublishDirect, Deliver, AckWaitExpires, Task, TerminateMalformed,
         RefuseAmount, CallService, Reply, Acknowledge, Crash
<1>3. ASSUME UNCHANGED <<attempt, outcome, applied>>
      PROVE  Effects(q)'
  BY <1>1, <1>2, <1>3 DEF Effects
<1>4. ASSUME NEW r \in Requests, Deliver(r)
      PROVE  Effects(q)'
  <2>1. applied' = applied /\ outcome' = outcome
    BY <1>4 DEF Deliver
  <2>2. attempt[r][delivered[r] + 1] = "none" \/ delivered[r] + 1 \notin Attempts
    BY <1>4 DEF DeliveryInv, DeliveryCounts
  <2>3. \A n \in Attempts : attempt[q][n] # "none" => attempt'[q][n] = attempt[q][n]
    BY <1>4, <2>2 DEF Deliver
  <2> QED
    BY <1>1, <1>2, <2>1, <2>3 DEF Effects
<1>5. ASSUME NEW r \in Requests, NEW n \in Attempts, Task(r, n)
      PROVE  Effects(q)'
  <2>1. CASE RefuseAmount(r, n) \/ CallService(r, n)
    <3>1. PICK o : /\ Ends(r, n, o)
                   /\ \/ applied' = applied
                      \/ /\ o \in {"ok", "DatabaseError"} /\ kind[r] \in Ops
                         /\ applied' = [applied EXCEPT ![r] = @ \cup {n}]
      BY <2>1 DEF RefuseAmount, CallService
    <3>2. attempt[r][n] = "running"
      BY <2>1 DEF RefuseAmount, CallService
    <3>3. SUFFICES ASSUME NEW m \in applied'[q]
                   PROVE  /\ attempt'[q][m] \notin {"none", "running"}
                          /\ kind'[q] \in Ops
                          /\ outcome'[q][m] \in {"ok", "DatabaseError", "none"}
      BY DEF Effects
    <3>4. m \in Attempts /\ (m \in applied[q] \/ (q = r /\ m = n))
      <4>1. applied[q] \subseteq Attempts
        OBVIOUS
      <4>2. \/ applied'[q] = applied[q]
            \/ q = r /\ applied'[q] = applied[q] \cup {n}
        BY <3>1
      <4>3. m \in applied[q] \/ (q = r /\ m = n)
        BY <3>3, <4>2
      <4> QED
        BY <1>5, <4>1, <4>3
    <3>5. CASE q = r /\ m = n
      <4>1. n \notin applied[r]
        BY <1>1, <3>2, <3>5 DEF Effects
      <4>2. o \in {"ok", "DatabaseError"} /\ kind[r] \in Ops
        BY <3>1, <3>3, <3>5, <4>1
      <4>3. attempt'[q][m] = "replying" /\ outcome'[q][m] = o
        BY <3>1, <3>5 DEF Ends
      <4> QED
        BY <1>2, <3>5, <4>2, <4>3
    <3>6. CASE ~(q = r /\ m = n)
      <4>1. attempt'[q][m] = attempt[q][m] /\ outcome'[q][m] = outcome[q][m]
        BY <3>1, <3>4, <3>6 DEF Ends
      <4> QED
        BY <1>1, <1>2, <3>4, <3>6, <4>1 DEF Effects
    <3> QED
      BY <3>5, <3>6
  <2>2. CASE TerminateMalformed(r, n) \/ Reply(r, n) \/ Acknowledge(r, n)
    <3>1. applied' = applied /\ outcome' = outcome
      BY <2>2 DEF TerminateMalformed, Reply, Acknowledge
    <3>2. \A m \in Attempts : attempt'[q][m] \in {attempt[q][m], "acking", "over"}
      <4>1. CASE attempt' = [attempt EXCEPT ![r][n] = "over"]
        BY <4>1
      <4>2. CASE attempt' = [attempt EXCEPT ![r][n] = "acking"]
        BY <4>2
      <4> QED
        BY <2>2, <4>1, <4>2 DEF TerminateMalformed, Reply, Acknowledge
    <3> QED
      BY <1>1, <1>2, <3>1, <3>2 DEF Effects
  <2> QED
    BY <1>5, <2>1, <2>2 DEF Task
<1>6. CASE Crash
  <2>1. SUFFICES ASSUME NEW m \in applied'[q]
                 PROVE  /\ attempt'[q][m] \notin {"none", "running"}
                        /\ kind'[q] \in Ops
                        /\ outcome'[q][m] \in {"ok", "DatabaseError", "none"}
    BY DEF Effects
  <2>2. \/ m \in applied[q]
        \/ m \in Attempts /\ attempt[q][m] = "running" /\ kind[q] \in Ops
    BY <1>6 DEF Crash
  <2>3. m \in Attempts
    BY <2>2
  <2>4. attempt'[q][m] = (IF attempt[q][m] = "none" THEN "none" ELSE "over")
        /\ outcome' = outcome
    BY <1>6, <2>3 DEF Crash
  <2>5. CASE m \in applied[q]
    BY <1>1, <1>2, <2>4, <2>5 DEF Effects
  <2>6. CASE attempt[q][m] = "running" /\ kind[q] \in Ops
    <3>1. outcome[q][m] = "none"
      BY <2>3, <2>6 DEF DeliveryInv, OutcomesKept
    <3> QED
      BY <1>2, <2>4, <2>6, <3>1
  <2> QED
    BY <2>2, <2>5, <2>6
<1> QED
  BY <1>3, <1>4, <1>5, <1>6
  DEF Next, Handler, RefuseRequest, Publish, PublishFails, TakeReply, Timeout,
      PublishDirect, AckWaitExpires

(* Two effects are two deliveries, and a refusal and an effect are two     *)
(* deliveries: all but the last of them were unsure.                       *)
LEMMA RepeatedFromBooks ==
    ASSUME TypeOK, DeliveryInv, AnswersInv, RepeatInv
    PROVE  RepeatedOnlyWhenUnsure
<1> USE DeliveryAssumption DEF TypeOK, Attempts
<1>1. SUFFICES ASSUME NEW r \in Requests
               PROVE  /\ \A n, m \in applied[r] : \A k \in n..(m - 1) : Unsure(r, k)
                      /\ Refused(r) /\ applied[r] # {} => \E n \in Attempts : Unsure(r, n)
  BY DEF RepeatedOnlyWhenUnsure
<1>2. \A m \in Attempts : attempt[r][m] # "none" => m <= delivered[r]
  BY DEF DeliveryInv, DeliveryCounts
<1>3. \A m \in applied[r] : m \in Attempts /\ m <= delivered[r]
  BY <1>2 DEF RepeatInv, Effects
<1>4. \A k \in Attempts : k < delivered[r] => Unsure(r, k)
  BY DEF RepeatInv, Reasons
<1>5. ASSUME NEW n \in applied[r], NEW m \in applied[r], NEW k \in n..(m - 1)
      PROVE  Unsure(r, k)
  <2>1. k \in Attempts /\ k < delivered[r]
    BY <1>3, <1>5
  <2> QED
    BY <1>4, <2>1
<1>6. ASSUME Refused(r), NEW m \in applied[r]
      PROVE  \E n \in Attempts : Unsure(r, n)
  <2>1. kind[r] \in Ops /\ outcome[r][m] \in {"ok", "DatabaseError", "none"}
    BY DEF RepeatInv, Effects
  <2>2. http[r] \in Errors /\ http[r] \notin {"ok", "DatabaseError", "none"}
    <3>1. http[r] \in Errors
      BY <1>6 DEF Refused, StatusCode, NoReply
    <3>2. http[r] # "DatabaseError"
      BY <1>6 DEF Refused, StatusCode
    <3> QED
      BY <3>1, <3>2 DEF Errors
  <2>3. PICK n \in Attempts : outcome[r][n] = http[r]
    BY <2>1, <2>2 DEF AnswersInv, Told
  <2>4. n # m /\ n <= delivered[r] /\ m <= delivered[r] /\ m \in Attempts
    BY <1>2, <1>3, <2>1, <2>2, <2>3 DEF DeliveryInv, OutcomesKept
  <2>5. n < delivered[r] \/ m < delivered[r]
    BY <2>4
  <2> QED
    BY <1>4, <2>4, <2>5
<1> QED
  BY <1>5, <1>6

(* A command is performed again only while it is unsure whether it was,    *)
(* through any number of deliveries, crashes and lost acknowledgements:    *)
(* two deliveries have an effect only if each from the first of them on    *)
(* expired or came after a database error, and a refused command is never  *)
(* performed unless some delivery did.                                     *)
THEOREM RepeatedTheorem == Spec => []RepeatedOnlyWhenUnsure
<1>1. Init => RepeatInv
  BY DEF Init, RepeatInv, Reasons, Effects, Attempts
<1>2. TypeOK /\ DeliveryInv /\ RepeatInv /\ [Next]_vars => RepeatInv'
  <2>1. ASSUME TypeOK, DeliveryInv, RepeatInv, Next
        PROVE  RepeatInv'
    <3>1. \A q \in Requests : Reasons(q)' /\ Effects(q)'
      BY <2>1, ReasonsStep, EffectsStep
    <3> QED
      BY <3>1 DEF RepeatInv
  <2>2. RepeatInv /\ UNCHANGED vars => RepeatInv'
    BY DEF vars, RepeatInv, Reasons, Effects, Unsure
  <2> QED
    BY <2>1, <2>2
<1> QED
  BY <1>1, <1>2, RepeatedFromBooks, DeliveryTheorem, AnswersAlways, PTL DEF Spec
=============================================================================
