-------------------------- MODULE MoneyPathProofs ---------------------------
(***************************************************************************)
(* Proofs about the whole path of a command, for any requests, readers,    *)
(* deliveries and crashes: it implements Ledger and Delivery both, so that *)
(* their theorems hold of it, and together they say what a client may      *)
(* believe of the ledger.                                                  *)
(***************************************************************************)
EXTENDS MoneyPath, StatementProofs

(* The theorems about Delivery, for the Delivery that the path implements. *)
P == INSTANCE DeliveryProofs WITH
    kind <- Kind, outcome <- Outcome, applied <- Applied

-----------------------------------------------------------------------------
(* The path implements Ledger.                                             *)

(* The deliveries of a request are calls.                                  *)
LEMMA DeliveriesAreCalls ==
    ASSUME NEW r \in Requests, NEW n \in Attempts
    PROVE  <<r, n>> \in Tasks /\ <<r, n>> \notin Readers
  BY MoneyPathAssumption DEF Deliveries

(* Every step of the path is a step of the service or leaves it alone.     *)
LEMMA PathStepsLedger ==
    ASSUME [PathNext]_pathVars
    PROVE  [Next]_vars
<1>1. ASSUME NEW r \in Requests, NEW n \in Attempts, Serve(r, n)
      PROVE  Next
  BY <1>1, DeliveriesAreCalls DEF Serve, Next
<1>2. ASSUME NEW q \in Readers, Query(q)
      PROVE  Next
  BY <1>2, MoneyPathAssumption DEF Query, Next
<1>3. ASSUME NEW x \in Freezable, Freeze(x)
      PROVE  Next
  BY <1>3, MoneyPathAssumption DEF Freeze, Next
<1>4. CASE Restart
  BY <1>4 DEF Restart, Next
<1>5. ASSUME NEW r \in Requests, Carry(r)
      PROVE  UNCHANGED vars
  BY <1>5 DEF Carry
<1>6. CASE UNCHANGED pathVars
  BY <1>6 DEF pathVars
<1> QED
  BY <1>1, <1>2, <1>3, <1>4, <1>5, <1>6 DEF PathNext

(* The path is Ledger with its calls made by deliveries and readers, so    *)
(* every theorem about Ledger is one about the path.                       *)
THEOREM LedgerImplemented == PathSpec => Spec
<1>1. PathInit => Init
  BY DEF PathInit
<1> QED
  BY <1>1, PathStepsLedger, PTL DEF PathSpec, Spec

-----------------------------------------------------------------------------
(* What ties the two together.                                             *)

(* The deliveries of a request execute its command, a call that is under   *)
(* way belongs to a task that is running, and the tasks are all there.     *)
PathInv ==
    /\ attempt \in [Requests -> [Attempts -> {"none", "running", "replying",
                                              "acking", "over"}]]
    /\ \A r \in Requests, n \in Attempts :
          /\ cmd[<<r, n>>].op \in MoneyOps
          /\ cmd[<<r, n>>] = cmd[<<r, 1>>]
          /\ pc[<<r, n>>] \notin {"lookup", "done"} => attempt[r][n] = "running"
    /\ \A q \in Readers : cmd[q].op \in ReadOps

LEMMA PathInvInit == PathInit => PathInv
<1> SUFFICES ASSUME PathInit PROVE PathInv
  OBVIOUS
<1>1. attempt = [r \in Requests |-> [n \in Attempts |-> "none"]]
  BY DEF PathInit, D!Init, D!Attempts, Attempts
<1>2. \A r \in Requests, n \in Attempts : pc[<<r, n>>] = "lookup"
  BY DeliveriesAreCalls DEF PathInit, Init
<1> QED
  BY <1>1, <1>2 DEF PathInit, PathInv

(* A step of one call leaves the others where they are.                    *)
LEMMA StepFrame ==
    ASSUME TypeOK, NEW t \in Tasks, Step(t), NEW u \in Tasks, u # t
    PROVE  pc'[u] = pc[u] /\ txn'[u] = txn[u] /\ result'[u] = result[u]
  BY DEF TypeOK, Step, LookupRefused, Lookup, ResolveRefused, Resolve,
         CheckBalance, BeginInsert, ReadHash, PassGuard, StoreRow, InsertRefused, Commit,
         CommitFails, Read, StatementFails, Goto, Reject, Finish

(* A task moves on by a delivery, by its reply, or by its acknowledgement. *)
LEMMA CarryFrame ==
    ASSUME NEW r \in Requests, Carry(r)
    PROVE  \/ attempt' = attempt
           \/ attempt' = [attempt EXCEPT ![r][delivered[r] + 1] = "running"]
           \/ \E n \in Attempts :
                 \/ /\ attempt[r][n] = "replying"
                    /\ attempt' = [attempt EXCEPT ![r][n] = "acking"]
                 \/ /\ attempt[r][n] = "acking"
                    /\ attempt' = [attempt EXCEPT ![r][n] = "over"]
  BY DEF Carry, D!Publish, D!PublishFails, D!TakeReply, D!Timeout, D!Deliver,
         D!AckWaitExpires, D!Reply, D!Acknowledge

(* No step of the path unties them.                                        *)
LEMMA PathInvStep ==
    ASSUME TypeOK, LedgerInv, PathInv, [PathNext]_pathVars
    PROVE  PathInv'
<1> DEFINE Stages == {"none", "running", "replying", "acking", "over"}
<1>1. [Next]_vars /\ cmd' = cmd
  BY PathStepsLedger, CommandsFixed
<1>2. SUFFICES /\ attempt' \in [Requests -> [Attempts -> Stages]]
               /\ \A r \in Requests, n \in Attempts :
                     pc'[<<r, n>>] \notin {"lookup", "done"}
                        => attempt'[r][n] = "running"
  BY <1>1 DEF PathInv
<1>3. ASSUME NEW r \in Requests, NEW n \in Attempts, Serve(r, n)
      PROVE  /\ attempt' \in [Requests -> [Attempts -> Stages]]
             /\ \A s \in Requests, m \in Attempts :
                   pc'[<<s, m>>] \notin {"lookup", "done"}
                      => attempt'[s][m] = "running"
  <2>1. /\ attempt[r][n] = "running"
        /\ attempt' = [attempt EXCEPT ![r][n] =
                         IF result'[<<r, n>>] = "None" THEN @ ELSE "replying"]
    BY <1>3 DEF Serve
  <2>2. pc'[<<r, n>>] # "done" => result'[<<r, n>>] = "None"
    <3>1. LedgerInv'
      BY <1>1, InvStep
    <3> QED
      BY <3>1, DeliveriesAreCalls DEF LedgerInv, CallAnswered, Answered
  <2>3. ASSUME NEW s \in Requests, NEW m \in Attempts, <<s, m>> # <<r, n>>
        PROVE  pc'[<<s, m>>] = pc[<<s, m>>]
    BY <1>3, <2>3, DeliveriesAreCalls, StepFrame DEF Serve
  <2>4. attempt' \in [Requests -> [Attempts -> Stages]]
    BY <2>1 DEF PathInv
  <2>5. ASSUME NEW s \in Requests, NEW m \in Attempts,
               pc'[<<s, m>>] \notin {"lookup", "done"}
        PROVE  attempt'[s][m] = "running"
    <3>1. CASE <<s, m>> = <<r, n>>
      <4>1. attempt' = attempt
        BY <2>1, <2>2, <2>5, <3>1 DEF PathInv
      <4> QED
        BY <2>1, <3>1, <4>1
    <3>2. CASE <<s, m>> # <<r, n>>
      <4>1. attempt[s][m] = "running"
        BY <2>3, <2>5, <3>2 DEF PathInv
      <4>2. s # r \/ m # n
        BY <3>2
      <4>3. attempt'[s][m] = attempt[s][m]
        BY <2>1, <4>2 DEF PathInv
      <4> QED
        BY <4>1, <4>3
    <3> QED
      BY <3>1, <3>2
  <2> QED
    BY <2>4, <2>5
<1>4. ASSUME NEW q \in Readers, Query(q)
      PROVE  /\ attempt' = attempt
             /\ \A s \in Requests, m \in Attempts : pc'[<<s, m>>] = pc[<<s, m>>]
  <2>1. ASSUME NEW s \in Requests, NEW m \in Attempts
        PROVE  pc'[<<s, m>>] = pc[<<s, m>>]
    <3>1. <<s, m>> \in Tasks /\ <<s, m>> # q /\ q \in Tasks
      BY DeliveriesAreCalls, MoneyPathAssumption
    <3> QED
      BY <1>4, <3>1, StepFrame DEF Query
  <2> QED
    BY <1>4, <2>1 DEF Query, deliveryVars
<1>5. ASSUME NEW r \in Requests, Carry(r)
      PROVE  /\ attempt' \in [Requests -> [Attempts -> Stages]]
             /\ pc' = pc
             /\ \A s \in Requests, m \in Attempts :
                   attempt[s][m] = "running" => attempt'[s][m] = "running"
  <2>1. pc' = pc
    BY <1>5 DEF Carry, vars
  <2> QED
    BY <1>5, <2>1, CarryFrame DEF PathInv
<1>6. CASE Restart
  <2>1. attempt' = [r \in Requests |-> [n \in Attempts |->
                       IF attempt[r][n] = "none" THEN "none" ELSE "over"]]
    BY <1>6 DEF Restart
  <2>2. \A s \in Requests, m \in Attempts : pc'[<<s, m>>] \in {"lookup", "done"}
    BY <1>6, DeliveriesAreCalls DEF Restart, Crash, vars
  <2> QED
    BY <2>1, <2>2
<1>7. CASE UNCHANGED pathVars \/ \E x \in Freezable : Freeze(x)
  <2>1. attempt' = attempt /\ pc' = pc
    BY <1>7 DEF pathVars, deliveryVars, vars, Freeze, SetStatus, taskVars
  <2> QED
    BY <2>1 DEF PathInv
<1>8. \A r \in Requests, n \in Attempts :
         pc[<<r, n>>] \notin {"lookup", "done"} => attempt[r][n] = "running"
  BY DEF PathInv
<1>9. attempt \in [Requests -> [Attempts -> Stages]]
  BY DEF PathInv
<1> HIDE DEF Stages
<1>10. CASE \E q \in Readers : Query(q)
  BY <1>4, <1>8, <1>9, <1>10
<1>11. CASE \E r \in Requests : Carry(r)
  BY <1>5, <1>8, <1>11
<1> QED
  BY <1>3, <1>6, <1>7, <1>10, <1>11 DEF PathNext

(* Everything that is known of a state of the path.                        *)
THEOREM PathInductive ==
    PathSpec => [](TypeOK /\ LedgerInv /\ BooksInv /\ PathInv)
<1>1. TypeOK /\ LedgerInv /\ PathInv /\ [PathNext]_pathVars => PathInv'
  BY PathInvStep
<1>2. PathSpec => [](TypeOK /\ LedgerInv /\ BooksInv)
  BY LedgerImplemented, BooksKept, PTL
<1> QED
  BY <1>1, <1>2, PathInvInit, PTL DEF PathSpec

-----------------------------------------------------------------------------
(* The path implements Delivery.                                           *)

(* A result of one call is an outcome of its delivery and of no other.     *)
LEMMA OutcomeFollows ==
    ASSUME NEW r \in Requests, NEW n \in Attempts, TypeOK, NEW x,
           result' = [result EXCEPT ![<<r, n>>] = x]
    PROVE  Outcome' = [Outcome EXCEPT ![r][n] = Told(x)]
<1>1. ASSUME NEW s \in Requests, NEW m \in Attempts
      PROVE  Told(result'[<<s, m>>]) = IF s = r /\ m = n THEN Told(x)
                                       ELSE Told(result[<<s, m>>])
  BY DeliveriesAreCalls DEF TypeOK
<1> QED
  BY <1>1 DEF Outcome

(* So is its effect.                                                       *)
LEMMA AppliedFollows ==
    ASSUME NEW r \in Requests, NEW n \in Attempts
    PROVE  /\ Performed' = Performed \cup {<<r, n>>} =>
                 Applied' = [Applied EXCEPT ![r] = @ \cup {n}]
           /\ Performed' = Performed => Applied' = Applied
<1>1. Applied = [s \in Requests |-> {m \in Attempts : <<s, m>> \in Performed}]
  BY DeliveriesAreCalls DEF Applied, Performed
<1>2. Applied' = [s \in Requests |-> {m \in Attempts : <<s, m>> \in Performed'}]
  BY DeliveriesAreCalls DEF Applied, Performed
<1>3. ASSUME Performed' = Performed \cup {<<r, n>>}, NEW s \in Requests
      PROVE  {m \in Attempts : <<s, m>> \in Performed'} =
                IF s = r THEN {m \in Attempts : <<s, m>> \in Performed} \cup {n}
                         ELSE {m \in Attempts : <<s, m>> \in Performed}
  BY <1>3
<1> QED
  BY <1>1, <1>2, <1>3

(* What the service promises is what Delivery takes a call for: once it    *)
(* has returned it was one step of CallService, and until then nothing.    *)
LEMMA ServeMaps ==
    ASSUME TypeOK, LedgerInv, PathInv, cmd' = cmd,
           NEW r \in Requests, NEW n \in Attempts, Serve(r, n)
    PROVE  D!CallService(r, n) \/ UNCHANGED D!vars
<1> DEFINE t == <<r, n>>
<1>1. /\ t \in Tasks /\ Step(t)
      /\ attempt[r][n] = "running"
      /\ attempt' = [attempt EXCEPT ![r][n] =
                       IF result'[t] = "None" THEN @ ELSE "replying"]
      /\ UNCHANGED <<http, inbox, stream, delivered, expired, crashes>>
  BY DeliveriesAreCalls DEF Serve
<1>2. /\ cmd[t].op \in MoneyOps /\ cmd[t].op = Kind[r] /\ Kind' = Kind
  BY DEF PathInv, Kind
<1>3. /\ Kind[r] \in D!Ops
      /\ Refusals[Kind[r]] = ServiceRefusals(cmd[t].op)
  BY <1>2 DEF D!Ops, Refusals, MoneyOps
<1>4. ASSUME NEW x, Contract!Answer(t, x), x # "None"
      PROVE  /\ Outcome' = [Outcome EXCEPT ![r][n] = Told(x)]
             /\ attempt' = [attempt EXCEPT ![r][n] = "replying"]
  <2>1. result' = [result EXCEPT ![t] = x]
    BY <1>4 DEF Contract!Answer
  <2>2. result'[t] = x
    BY <1>1, <2>1 DEF TypeOK
  <2>3. Outcome' = [Outcome EXCEPT ![r][n] = Told(x)]
    BY <2>1, OutcomeFollows
  <2>4. attempt' = [attempt EXCEPT ![r][n] = "replying"]
    BY <1>1, <1>4, <2>2
  <2> QED
    BY <2>3, <2>4
<1>5. ASSUME Contract!Perform({t})
      PROVE  Applied' = [Applied EXCEPT ![r] = @ \cup {n}]
  BY <1>5, AppliedFollows DEF Contract!Perform, Performed
<1>6. Performed' = Performed => Applied' = Applied
  BY AppliedFollows
<1>7. CASE Contract!Succeed(t)
  <2>1. Contract!Perform({t}) /\ Contract!Answer(t, "Ok")
    BY <1>2, <1>7, SameWords DEF Contract!Succeed, MoneyOps, ReadOps
  <2>2. Told("Ok") = "ok"
    BY DEF Told
  <2> QED
    BY <1>1, <1>2, <1>3, <1>4, <1>5, <2>1, <2>2 DEF D!CallService, D!Ends
<1>8. CASE Contract!Refuse(t)
  <2>1. PICK e \in ServiceRefusals(cmd[t].op) : Contract!Answer(t, e)
    BY <1>2, <1>8, SameWords DEF Contract!Refuse
  <2>2. e \in BusinessErrors /\ Told(e) = e /\ e # "None"
    BY <1>2, <2>1, RefusalsOf DEF BusinessErrors, Told
  <2>3. Performed' = Performed
    BY <1>8 DEF Contract!Refuse, Performed
  <2> QED
    BY <1>1, <1>2, <1>3, <1>4, <1>6, <2>1, <2>2, <2>3 DEF D!CallService, D!Ends
<1>9. CASE Contract!Fail(t)
  <2>1. /\ Contract!Answer(t, "DatabaseError")
        /\ Contract!Perform({t}) \/ Performed' = Performed
    BY <1>9 DEF Contract!Fail, Performed
  <2>2. Told("DatabaseError") = "DatabaseError"
    BY DEF Told
  <2> QED
    BY <1>1, <1>2, <1>3, <1>4, <1>5, <1>6, <2>1, <2>2 DEF D!CallService, D!Ends
<1>10. CASE UNCHANGED <<cmd, Performed, result>>
  <2>1. result[t] = "None"
    BY <1>1 DEF LedgerInv, CallAnswered, Answered, Step, LookupRefused, Lookup,
                ResolveRefused, Resolve, CheckBalance, BeginInsert, ReadHash, PassGuard, StoreRow,
                InsertRefused, Commit, CommitFails, Read, StatementFails
  <2>2. attempt' = attempt
    BY <1>1, <1>10, <2>1 DEF PathInv
  <2>3. Outcome' = Outcome
    BY <1>10 DEF Outcome
  <2> QED
    BY <1>1, <1>2, <1>6, <1>10, <2>2, <2>3 DEF D!vars
<1> QED
  BY <1>1, <1>7, <1>8, <1>9, <1>10, StepMaps

(* A read is nothing to Delivery.                                          *)
LEMMA QueryMaps ==
    ASSUME TypeOK, cmd' = cmd, NEW q \in Readers, Query(q)
    PROVE  UNCHANGED D!vars
<1>1. q \in Tasks /\ Step(q)
  BY MoneyPathAssumption DEF Query
<1>2. ASSUME NEW r \in Requests, NEW n \in Attempts
      PROVE  result'[<<r, n>>] = result[<<r, n>>] /\ txn'[<<r, n>>] = txn[<<r, n>>]
  <2>1. <<r, n>> \in Tasks /\ <<r, n>> # q
    BY DeliveriesAreCalls
  <2> QED
    BY <1>1, <2>1, StepFrame
<1>3. Kind' = Kind /\ Outcome' = Outcome /\ Applied' = Applied
  BY <1>2 DEF Kind, Outcome, Applied
<1> QED
  BY <1>3 DEF Query, deliveryVars, D!vars

(* A step that leaves the calls alone is one of Delivery or nothing to it. *)
LEMMA CarryMaps ==
    ASSUME NEW r \in Requests, Carry(r)
    PROVE  D!Next
<1>1. D!Attempts = Attempts
  BY DEF D!Attempts, Attempts
<1> QED
  BY <1>1 DEF Carry, D!Next, D!Handler, D!Task

(* A crash of the process is a crash of Delivery: a call that was under    *)
(* way has told its task nothing, and landed if its commit had arrived.    *)
LEMMA RestartMaps ==
    ASSUME TypeOK, LedgerInv, PathInv, Restart
    PROVE  D!Crash
<1> USE DEF TypeOK
<1> DEFINE Landed(r) == {n \in Attempts : /\ txn[<<r, n>>] # "committed"
                                          /\ txn'[<<r, n>>] = "committed"}
<1>1. ASSUME NEW r \in Requests, NEW n \in Attempts
      PROVE  /\ Told(result'[<<r, n>>]) = Told(result[<<r, n>>])
             /\ txn[<<r, n>>] = "committed" => txn'[<<r, n>>] = "committed"
             /\ n \in Landed(r) => attempt[r][n] = "running" /\ Kind[r] \in D!Ops
  <2> DEFINE t == <<r, n>>
  <2>1. t \in Tasks /\ Progress(t) /\ Answered(t)
    BY DeliveriesAreCalls DEF LedgerInv, CallProgress, CallAnswered
  <2>2. CASE UNCHANGED vars
    BY <2>2 DEF vars
  <2>3. CASE Crash /\ pc[t] \in {"lookup", "done"}
    <3>1. txn'[t] = txn[t] /\ result'[t] = result[t]
      BY <2>1, <2>3 DEF Crash
    <3> QED
      BY <3>1
  <2>4. CASE Crash /\ pc[t] \notin {"lookup", "done"}
    <3>1. result[t] = "None" /\ result'[t] = "Crashed"
      BY <2>1, <2>4 DEF Answered, Crash
    <3>2. txn[t] # "committed"
      BY <2>1, <2>4 DEF Progress
    <3>3. attempt[r][n] = "running" /\ Kind[r] \in D!Ops
      BY <2>4 DEF PathInv, Kind, MoneyOps, D!Ops
    <3> QED
      BY <3>1, <3>2, <3>3 DEF Told
  <2> QED
    BY <2>2, <2>3, <2>4 DEF Restart
<1>2. Outcome' = Outcome
  BY <1>1 DEF Outcome
<1>3. Kind' = Kind
  BY DEF Restart, Crash, vars, Kind
<1>4. Applied' = [r \in Requests |-> Applied[r] \cup [s \in Requests |-> Landed(s)][r]]
  BY <1>1 DEF Applied
<1>5. /\ [s \in Requests |-> Landed(s)] \in [Requests -> SUBSET D!Attempts]
      /\ \A r \in Requests : \A n \in [s \in Requests |-> Landed(s)][r] :
            attempt[r][n] = "running" /\ Kind[r] \in D!Ops
  BY <1>1 DEF D!Attempts, Attempts
<1>6. attempt' = [r \in Requests |-> [n \in D!Attempts |->
                     IF attempt[r][n] = "none" THEN "none" ELSE "over"]]
  BY DEF Restart, D!Attempts, Attempts
<1> HIDE DEF Landed
<1> QED
  BY <1>2, <1>3, <1>4, <1>5, <1>6 DEF Restart, D!Crash

(* Every step of the path is a step of Delivery or nothing to it.          *)
LEMMA PathStepsDelivery ==
    ASSUME TypeOK, LedgerInv, PathInv, [PathNext]_pathVars
    PROVE  [D!Next]_D!vars
<1>1. cmd' = cmd
  BY PathStepsLedger, CommandsFixed
<1>2. ASSUME NEW r \in Requests, NEW n \in Attempts, Serve(r, n)
      PROVE  [D!Next]_D!vars
  <2>1. n \in D!Attempts
    BY DEF D!Attempts, Attempts
  <2> QED
    BY <1>1, <1>2, <2>1, ServeMaps DEF D!Next, D!Task
<1>3. CASE UNCHANGED pathVars \/ \E x \in Freezable : Freeze(x)
  <2>1. UNCHANGED <<deliveryVars, cmd, txn, result>>
    BY <1>3 DEF pathVars, vars, Freeze, SetStatus, taskVars
  <2> QED
    BY <2>1 DEF deliveryVars, D!vars, Kind, Outcome, Applied
<1>4. CASE Restart
  BY <1>4, RestartMaps DEF D!Next
<1> QED
  BY <1>1, <1>2, <1>3, <1>4, CarryMaps, QueryMaps DEF PathNext

(* However the statements of the calls interleave, fail and crash, the     *)
(* path does what Delivery says, which takes each call for one step.       *)
THEOREM DeliveryImplemented == PathSpec => ImplementsDelivery
<1>1. PathInit => D!Init
  BY DEF PathInit
<1>2. TypeOK /\ LedgerInv /\ PathInv /\ [PathNext]_pathVars => [D!Next]_D!vars
  BY PathStepsDelivery
<1> QED
  BY <1>1, <1>2, PathInductive, PTL DEF PathSpec, ImplementsDelivery, D!Spec

-----------------------------------------------------------------------------
(* So the theorems about Delivery hold of the path.                        *)

(* The words of Delivery are the same in both instances of it.             *)
LEMMA SameDeliveryWords ==
    /\ D!Ops = P!Ops /\ D!Kinds = P!Kinds /\ D!Attempts = P!Attempts
    /\ \A o : D!Transient(o) <=> P!Transient(o)
    /\ \A r : D!Redeliverable(r) = P!Redeliverable(r)
    /\ \A op, o : D!Answer(op, o) = P!Answer(op, o)
  BY DEF D!Ops, P!Ops, D!Kinds, P!Kinds, D!Attempts, P!Attempts, D!Transient,
         P!Transient, D!Redeliverable, P!Redeliverable, D!Answer, P!Answer,
         D!Named, P!Named

LEMMA SameDeliveryInit == D!Init => P!Init
  BY SameDeliveryWords DEF D!Init, P!Init

(* The handler of a request.                                               *)
LEMMA SameHandler ==
    ASSUME NEW r, D!Handler(r) \/ D!PublishDirect(r)
    PROVE  P!Handler(r) \/ P!PublishDirect(r)
<1>1. D!TakeReply(r) => P!TakeReply(r)
  BY SameDeliveryWords DEF D!TakeReply, P!TakeReply
<1> QED
  BY <1>1, SameDeliveryWords
  DEF D!Handler, P!Handler, D!RefuseRequest, P!RefuseRequest, D!Publish,
      P!Publish, D!PublishFails, P!PublishFails, D!Timeout, P!Timeout,
      D!PublishDirect, P!PublishDirect

(* The consumer.                                                           *)
LEMMA SameConsumer ==
    ASSUME NEW r
    PROVE  /\ D!Deliver(r) => P!Deliver(r)
           /\ D!AckWaitExpires(r) => P!AckWaitExpires(r)
  BY SameDeliveryWords DEF D!Deliver, P!Deliver, D!AckWaitExpires, P!AckWaitExpires

(* The worker task of a delivery.                                          *)
LEMMA SameTask ==
    ASSUME NEW r, NEW n, D!Task(r, n)
    PROVE  P!Task(r, n)
<1>1. D!TerminateMalformed(r, n) => P!TerminateMalformed(r, n)
  BY DEF D!TerminateMalformed, P!TerminateMalformed
<1>2. D!RefuseAmount(r, n) => P!RefuseAmount(r, n)
  BY DEF D!RefuseAmount, P!RefuseAmount, D!Ends, P!Ends
<1>3. D!CallService(r, n) => P!CallService(r, n)
  BY SameDeliveryWords DEF D!CallService, P!CallService, D!Ends, P!Ends
<1>4. D!Reply(r, n) => P!Reply(r, n)
  BY DEF D!Reply, P!Reply
<1>5. D!Acknowledge(r, n) => P!Acknowledge(r, n)
  BY SameDeliveryWords DEF D!Acknowledge, P!Acknowledge
<1> QED
  BY <1>1, <1>2, <1>3, <1>4, <1>5 DEF D!Task, P!Task

LEMMA SameDeliveryStep ==
    ASSUME [D!Next]_D!vars
    PROVE  [P!Next]_P!vars
<1>1. D!Crash => P!Crash
  BY SameDeliveryWords DEF D!Crash, P!Crash
<1>2. D!Next => P!Next
  BY <1>1, SameDeliveryWords, SameHandler, SameConsumer, SameTask
  DEF D!Next, P!Next
<1> QED
  BY <1>2 DEF D!vars, P!vars

THEOREM PathDelivers == PathSpec => P!Spec
<1>1. [D!Next]_D!vars => [P!Next]_P!vars
  BY SameDeliveryStep
<1> QED
  BY <1>1, DeliveryImplemented, SameDeliveryInit, PTL
  DEF ImplementsDelivery, D!Spec, P!Spec

(* What those theorems assume of the constants is true of the path.        *)
LEMMA PathConstants ==
    /\ \A op \in P!Ops : Refusals[op] \subseteq P!ServiceRefusals(op)
    /\ MaxDeliver \in Nat \ {0} /\ MaxCrashes \in Nat
<1>1. \A op \in P!Ops : Refusals[op] = P!ServiceRefusals(op)
  BY DEF Refusals, P!Ops, MoneyOps, ServiceRefusals, P!ServiceRefusals,
         LookupErrors, P!LookupErrors
<1> QED
  BY <1>1, MoneyPathAssumption

(* What a task was told is what the call returned.                         *)
LEMMA ToldBack ==
    ASSUME NEW x \in Results
    PROVE  /\ Told(x) = "ok" => x = "Ok"
           /\ Told(x) \in BusinessErrors => x = Told(x)
<1>1. "ok" \notin Results /\ {"ok", "none"} \intersect BusinessErrors = {}
  BY DEF Results, BusinessErrors
<1> QED
  BY <1>1 DEF Told

-----------------------------------------------------------------------------
(* What a client may believe.                                              *)

(* A command that its call has answered with Ok is in the ledger.          *)
LEMMA OkIsPosted ==
    ASSUME TypeOK, LedgerInv, PathInv, NEW r \in Requests, NEW n \in Attempts,
           result[<<r, n>>] = "Ok", NEW k \in 1..Legs(cmd[<<r, n>>])
    PROVE  \E i \in DOMAIN rows : Posted(i, r, n, k)
<1>1. ServicePromise
  BY InvPromise
<1>2. <<r, n>> \in Tasks /\ cmd[<<r, n>>].op \in MoneyOps
  BY DeliveriesAreCalls DEF PathInv
<1>3. PICK i \in Committed : Records(i, <<r, n>>, k)
  BY <1>1, <1>2 DEF ServicePromise
<1> QED
  BY <1>3 DEF Committed, Posted

(* What was true of the outcomes is true of the ledger.                    *)
LEMMA ToldTrueHere ==
    ASSUME TypeOK, LedgerInv, PathInv, P!CreatedMeansApplied, P!AnswersAreOutcomes
    PROVE  ClientsToldTrue
<1>1. P!Attempts = Attempts
  BY DEF P!Attempts, Attempts
<1>2. ASSUME NEW r \in Requests, NEW n \in Attempts
      PROVE  /\ Outcome[r][n] = Told(result[<<r, n>>])
             /\ <<r, n>> \in Tasks /\ result[<<r, n>>] \in Results
  BY DeliveriesAreCalls DEF Outcome, TypeOK
<1>3. ASSUME NEW r \in Requests, http[r] = "created"
      PROVE  \E n \in Attempts : \A k \in 1..Legs(cmd[<<r, n>>]) :
                \E i \in DOMAIN rows : Posted(i, r, n, k)
  <2>1. PICK n \in Applied[r] : Outcome[r][n] = "ok"
    BY <1>3 DEF P!CreatedMeansApplied
  <2>2. n \in Attempts
    BY <2>1 DEF Applied
  <2>3. result[<<r, n>>] = "Ok"
    BY <1>2, <2>1, <2>2, ToldBack
  <2> QED
    BY <2>2, <2>3, OkIsPosted
<1>4. ASSUME NEW r \in Requests, http[r] \in BusinessErrors
      PROVE  \E n \in Attempts : /\ result[<<r, n>>] = http[r]
                                 /\ RowsOf(<<r, n>>) \intersect Committed = {}
  <2>1. Kind[r] \in P!Ops
    <3>1. cmd[<<r, 1>>].op \in MoneyOps
      BY MoneyPathAssumption DEF PathInv, Attempts
    <3> QED
      BY <3>1 DEF Kind, MoneyOps, P!Ops
  <2>2. http[r] \in P!Errors
    BY <1>4 DEF BusinessErrors, P!Errors
  <2>3. PICK n \in Attempts : Outcome[r][n] = http[r]
    BY <1>1, <2>1, <2>2 DEF P!AnswersAreOutcomes
  <2>4. result[<<r, n>>] = http[r]
    BY <1>2, <1>4, <2>3, ToldBack
  <2>5. ServicePromise
    BY InvPromise
  <2>6. RowsOf(<<r, n>>) \intersect Committed = {}
    BY <1>2, <1>4, <2>4, <2>5 DEF ServicePromise, BusinessErrors
  <2> QED
    BY <2>4, <2>6
<1> QED
  BY <1>3, <1>4 DEF ClientsToldTrue

(* What Delivery promises its clients, of this Delivery.                   *)
THEOREM PathAnswers ==
    PathSpec => [](P!CreatedMeansApplied /\ P!AnswersAreOutcomes)
<1>1. P!Spec => []P!CreatedMeansApplied
  BY P!CreatedTheorem, PathConstants
<1>2. P!Spec => []P!AnswersAreOutcomes
  BY P!AnswersTheorem, PathConstants
<1> QED
  BY <1>1, <1>2, PathDelivers, PTL

(* After 201 every posting of the command is committed, all of them of one *)
(* delivery, and a refusal is the answer of a delivery that left no row in *)
(* the ledger: through every interleaving of the statements of any calls,  *)
(* failed statements and commits, lost and repeated messages, timeouts and *)
(* crashes.                                                                *)
THEOREM ToldTrue == PathSpec => []ClientsToldTrue
<1>1. /\ TypeOK /\ LedgerInv /\ PathInv
      /\ P!CreatedMeansApplied /\ P!AnswersAreOutcomes
      => ClientsToldTrue
  BY ToldTrueHere
<1> QED
  BY <1>1, PathInductive, PathAnswers, PTL

(* A read that runs after a 201 shows the command on its account.          *)
LEMMA SeesCreatedStep ==
    ASSUME TypeOK, LedgerInv, BooksInv, PathInv, P!CreatedMeansApplied,
           [PathNext]_pathVars, NEW q \in Readers, NEW r \in Requests
    PROVE  SeesCreated(q, r)
<1> SUFFICES ASSUME pc[q] = "read", pc'[q] = "done", result'[q] = "Ok",
                    http[r] = "created"
             PROVE  \E n \in Attempts : \A k \in 1..Legs(cmd[<<r, n>>]) :
                       Postings(cmd[<<r, n>>])[k].account = cmd[q].from =>
                          \E i \in DOMAIN rows : Posted(i, r, n, k) /\ Shown(i, q)
  BY DEF SeesCreated
<1>1. PICK n \in Applied[r] : Outcome[r][n] = "ok"
  BY DEF P!CreatedMeansApplied
<1>2. n \in Attempts /\ <<r, n>> \in Tasks
  BY <1>1, DeliveriesAreCalls DEF Applied
<1>3. result[<<r, n>>] = "Ok"
  <2>1. Outcome[r][n] = Told(result[<<r, n>>]) /\ result[<<r, n>>] \in Results
    BY <1>2 DEF Outcome, TypeOK
  <2> QED
    BY <1>1, <2>1, ToldBack
<1>4. SeesAcknowledged(q, <<r, n>>)
  BY <1>2, PathStepsLedger, MoneyPathAssumption, QuerySees
<1>5. ASSUME NEW k \in 1..Legs(cmd[<<r, n>>]),
             Postings(cmd[<<r, n>>])[k].account = cmd[q].from
      PROVE  \E i \in DOMAIN rows : Posted(i, r, n, k) /\ Shown(i, q)
  <2>1. PICK i \in DOMAIN rows : Posted(i, r, n, k)
    BY <1>2, <1>3, OkIsPosted
  <2>2. i \in OnAccount(RowsOf(<<r, n>>), cmd[q].from)
    BY <1>5, <2>1 DEF Posted, Records, OnAccount, RowsOf
  <2>3. Shown(i, q)
    BY <1>3, <1>4, <2>2 DEF SeesAcknowledged, Shown
  <2> QED
    BY <2>1, <2>3
<1> QED
  BY <1>2, <1>5

(* A client reads its own writes, although the write goes through the      *)
(* stream, a worker and another connection than the read.                  *)
THEOREM OwnWritesRead == PathSpec => ReadsOwnWrites
<1>1. TypeOK /\ LedgerInv /\ BooksInv /\ PathInv /\ P!CreatedMeansApplied
      /\ [PathNext]_pathVars
      => [\A q \in Readers, r \in Requests : SeesCreated(q, r)]_pathVars
  BY SeesCreatedStep
<1> QED
  BY <1>1, PathInductive, PathAnswers, PTL DEF PathSpec, ReadsOwnWrites
=============================================================================
