------------------------- MODULE RegistrationProofs -------------------------
(***************************************************************************)
(* Proofs about Conversions for every form, and about Registration for any *)
(* number of requests, deliveries and account numbers, with failures and   *)
(* crashes at any statement.                                               *)
(***************************************************************************)
EXTENDS Registration, TLAPS

-----------------------------------------------------------------------------
(* What is accepted can be read back.                                      *)

(* A text with a character in it has a byte in it.                         *)
LEMMA NameHasBytes ==
    ASSUME NEW s \in Text, s.chars > 0
    PROVE  s.bytes > 0
BY DEF Text

(* Trimming takes the blanks off both lengths.                             *)
LEMMA TrimmedFields ==
    ASSUME NEW s \in [chars : Int, bytes : Int, pad : Int, holds : SUBSET Classes]
    PROVE  Trimmed(s) = [chars |-> s.chars - s.pad, bytes |-> s.bytes - s.pad,
                         pad |-> 0, holds |-> s.holds]
<1>1. PICK x \in Int, y \in Int, z \in Int :
        x = s.chars - s.pad /\ y = s.bytes - s.pad /\ z = 0
  OBVIOUS
<1> DEFINE e == [s EXCEPT !.chars = x, !.bytes = y, !.pad = z]
<1>2. Trimmed(s) = e
  BY <1>1 DEF Trimmed
<1>3. e \in [chars : Int, bytes : Int, pad : Int, holds : SUBSET Classes]
  OBVIOUS
<1>4. e.chars = x /\ e.bytes = y /\ e.pad = z /\ e.holds = s.holds
  OBVIOUS
<1> HIDE DEF e
<1>5. e = [chars |-> e.chars, bytes |-> e.bytes, pad |-> e.pad, holds |-> e.holds]
  BY <1>3
<1> QED
  BY <1>1, <1>2, <1>4, <1>5

(* Trimming a text a second time changes nothing, and so does checking it  *)
(* again as an address.                                                    *)
LEMMA TrimmedTwice ==
    ASSUME NEW s \in Text
    PROVE  /\ Trimmed(Trimmed(s)) = Trimmed(s)
           /\ EmailOk(s) => EmailOk(Trimmed(s)) /\ Trimmed(s).bytes > 0
<1> DEFINE e == Trimmed(s)
<1>1. /\ s \in [chars : Int, bytes : Int, pad : Int, holds : SUBSET Classes]
      /\ s.chars \in Nat /\ s.bytes \in Nat /\ s.pad \in Nat /\ s.chars <= s.bytes
  BY DEF Text
<1>2. e = [chars |-> s.chars - s.pad, bytes |-> s.bytes - s.pad, pad |-> 0, holds |-> s.holds]
  BY <1>1, TrimmedFields
<1>3. e \in [chars : Int, bytes : Int, pad : Int, holds : SUBSET Classes] /\ e.pad = 0
  BY <1>1, <1>2
<1>4. e.chars > 0 => e.bytes > 0
  BY <1>1, <1>2
<1> HIDE DEF e
<1>5. Trimmed(e) = [chars |-> e.chars, bytes |-> e.bytes, pad |-> e.pad, holds |-> e.holds]
  BY <1>3, TrimmedFields
<1>6. Trimmed(e) = e
  BY <1>3, <1>5
<1>7. EmailOk(s) => e.chars > 0 /\ "at" \in e.holds /\ e.bytes <= 200
  BY DEF EmailOk, e
<1>8. EmailOk(s) => EmailOk(e) /\ e.bytes > 0
  BY <1>4, <1>6, <1>7 DEF EmailOk
<1> QED
  BY <1>6, <1>8 DEF e

(* Every form that the validation accepts and the table stores passes the  *)
(* checks that are made again when its row is read, and comes back as it   *)
(* was: no accepted middle name or address is empty, which the table would *)
(* take for none.                                                          *)
THEOREM AcceptedReadsBack ==
    ASSUME NEW form \in UserForm, Accepted(form)
    PROVE  /\ Readable(Stored(NewUser(form)))
           /\ ReadBack(Stored(NewUser(form))) = NewUser(form)
<1> DEFINE r == NewUser(form)
<1>1. /\ form.middle \subseteq Text /\ form.email \subseteq Text
  BY DEF UserForm, Optional
<1>2. /\ r.first = form.first /\ r.last = form.last /\ r.middle = form.middle
      /\ r.email = {Trimmed(s) : s \in form.email}
      /\ r = [first |-> r.first, middle |-> r.middle, last |-> r.last,
              user_name |-> r.user_name, email |-> r.email]
  BY DEF NewUser
<1>3. \A s \in r.middle : s.bytes > 0
  BY <1>1, <1>2, NameHasBytes DEF Accepted, NamesOk, NameOk
<1>4. \A s \in r.email : s.bytes > 0 /\ EmailOk(s) /\ Trimmed(s) = s
  BY <1>1, <1>2, TrimmedTwice DEF Accepted
<1>5. Stored(r) = r
  <2>1. {s \in r.middle : s.bytes > 0} = r.middle
    BY <1>3
  <2>2. {s \in r.email : s.bytes > 0} = r.email
    BY <1>4
  <2> HIDE DEF r
  <2> QED
    BY <1>2, <2>1, <2>2 DEF Stored
<1>6. Readable(r)
  BY <1>2, <1>4 DEF Accepted, NamesOk, Readable
<1>7. ReadBack(r) = r
  <2>1. {Trimmed(s) : s \in r.email} = r.email
    BY <1>4
  <2> HIDE DEF r
  <2> QED
    BY <1>2, <2>1 DEF ReadBack
<1> QED
  BY <1>5, <1>6, <1>7

-----------------------------------------------------------------------------
(* The inductive invariant.                                                *)

(* What the statement that a run is about to execute says of its row, its  *)
(* key and its answer, and of what has been checked before it.             *)
RunInv(c, n) ==
    /\ n > delivered[c] => pc[c][n] = "none"
    /\ pc[c][n] \in {"none", "find", "insert"} => row[c][n] = "none"
    /\ pc[c][n] = "commit" <=> row[c][n] = "open"
    /\ row[c][n] # "none" => key[c][n] # NoKey
    /\ answer[c][n] # "none" => pc[c][n] = "over"
    /\ answer[c][n] = "ok" => row[c][n] = "committed"
    /\ answer[c][n] \in {"NotFound", "InvalidInput"} => row[c][n] = "none"
    /\ pc[c][n] = "find" => IsAccount(c)
    /\ (~IsAccount(c) /\ (pc[c][n] \in {"insert", "commit"} \/ row[c][n] # "none"))
       => Accepted(Input[request[c].input].form)
    /\ (IsAccount(c) /\ (pc[c][n] \in {"insert", "commit"} \/ row[c][n] # "none"))
       => Found(c)

(* A run that cannot open an account any more, or that the consumer had    *)
(* lost track of, or came after one that it had.                           *)
Passed(c, n) ==
    \/ pc[c][n] = "over" /\ row[c][n] = "none"
    \/ \E k \in unsure[c] : k <= n

(* A message is delivered again only when its earlier runs have passed.    *)
QueueInv(c) ==
    /\ queue[c] = "ready" => delivered[c] < MaxDeliver
    /\ queue[c] # "ready" => delivered[c] > 0
    /\ ~IsAccount(c) => delivered[c] <= 1 /\ (queue[c] = "ready" => delivered[c] = 0)
    /\ IsAccount(c) => \A n \in Runs :
          n < delivered[c] \/ (n = delivered[c] /\ queue[c] = "ready") => Passed(c, n)

RegistrationInv == \A c \in Requests : QueueInv(c) /\ \A n \in Runs : RunInv(c, n)

-----------------------------------------------------------------------------
(* The steps of a run.                                                     *)

Steps == {"none", "find", "insert", "commit", "over"}

Answers == {"none", "ok", "NotFound", "InvalidInput", "DatabaseError"}

(* A step of the n-th run of c touches the rest of the state in its place  *)
(* only, forgets no run that the consumer lost, and is not made by a run   *)
(* that has ended.                                                         *)
OnlyRun(c, n) ==
    /\ UNCHANGED <<request, delivered>>
    /\ pc[c][n] \in {"find", "insert", "commit"}
    /\ \A d \in Requests : \A m \in Runs : d # c \/ m # n =>
          /\ pc'[d][m] = pc[d][m] /\ key'[d][m] = key[d][m]
          /\ row'[d][m] = row[d][m] /\ answer'[d][m] = answer[d][m]
    /\ \A d \in Requests : d # c => queue'[d] = queue[d] /\ unsure'[d] = unsure[d]
    /\ unsure[c] \subseteq unsure'[c]
    /\ row[c][n] # "committed"

(* A command is tried again only after a run that left nothing or is       *)
(* unsure.                                                                 *)
QueueMoves(c, n) ==
    /\ IsAccount(c) /\ queue'[c] = "ready" =>
          \/ queue[c] = "ready"
          \/ /\ delivered[c] < MaxDeliver
             /\ (pc'[c][n] = "over" /\ row'[c][n] = "none") \/ n \in unsure'[c]
    /\ ~IsAccount(c) => queue'[c] = "acked" \/ UNCHANGED queue

(* The parts of a request, by what it asks for.                            *)
LEMMA RequestTypes ==
    ASSUME TypeOK, NEW c \in Requests
    PROVE  /\ ~IsAccount(c) => request[c].input \in DOMAIN Input
           /\ IsAccount(c) => request[c].user \in Requests \cup {Resident, Nobody}
           /\ request[c].op \in {"create_user", "create_account"}
BY DEF TypeOK, Request, IsAccount

(* A run that returns is over with its answer.  Only DatabaseError makes   *)
(* the worker ask for another delivery.                                    *)
LEMMA ReturnEnds ==
    ASSUME TypeOK, NEW c \in Requests, NEW n \in Runs, NEW result \in Answers,
           Return(c, n, result)
    PROVE  /\ pc' \in [Requests -> [Runs -> Steps]]
           /\ answer' \in [Requests -> [Runs -> Answers]]
           /\ queue' \in [Requests -> {"ready", "inflight", "acked", "exhausted"}]
           /\ pc'[c][n] = "over" /\ answer'[c][n] = result
           /\ \A d \in Requests : \A m \in Runs : d # c \/ m # n =>
                 pc'[d][m] = pc[d][m] /\ answer'[d][m] = answer[d][m]
           /\ \A d \in Requests : d # c => queue'[d] = queue[d]
           /\ ~IsAccount(c) => queue'[c] = "acked"
           /\ IsAccount(c) /\ queue'[c] = "ready" =>
                 \/ queue[c] = "ready"
                 \/ result = "DatabaseError" /\ delivered[c] < MaxDeliver
<1> USE DEF TypeOK, Steps, Answers
<1>1. /\ pc' = [pc EXCEPT ![c][n] = "over"]
      /\ answer' = [answer EXCEPT ![c][n] = result]
  BY DEF Return
<1>2. PICK q \in After(c, result) : queue' = [queue EXCEPT ![c] = q]
  BY DEF Return
<1>3. /\ q \in {"ready", "inflight", "acked", "exhausted"}
      /\ ~IsAccount(c) => q = "acked"
      /\ IsAccount(c) /\ q = "ready" =>
            queue[c] = "ready" \/ (result = "DatabaseError" /\ delivered[c] < MaxDeliver)
  <2>1. CASE ~IsAccount(c)
    BY <1>2, <2>1 DEF After
  <2>2. CASE IsAccount(c) /\ q = queue[c]
    BY <2>2
  <2>3. CASE IsAccount(c) /\ result = "DatabaseError" /\ q = Nak(c)
    BY <2>3 DEF Nak, Redeliverable
  <2>4. CASE IsAccount(c) /\ result # "DatabaseError" /\ q = Ack(c)
    BY <2>4 DEF Ack
  <2> QED
    BY <1>2, <2>1, <2>2, <2>3, <2>4 DEF After
<1>4. /\ pc' \in [Requests -> [Runs -> Steps]]
      /\ pc'[c][n] = "over"
      /\ \A d \in Requests : \A m \in Runs : d # c \/ m # n => pc'[d][m] = pc[d][m]
  BY <1>1
<1>5. /\ answer' \in [Requests -> [Runs -> Answers]]
      /\ answer'[c][n] = result
      /\ \A d \in Requests : \A m \in Runs : d # c \/ m # n => answer'[d][m] = answer[d][m]
  BY <1>1
<1>6. /\ queue' \in [Requests -> {"ready", "inflight", "acked", "exhausted"}]
      /\ queue'[c] = q
      /\ \A d \in Requests : d # c => queue'[d] = queue[d]
  BY <1>2, <1>3
<1> QED
  BY <1>3, <1>4, <1>5, <1>6

(* A run that goes on is at its next step, and answers nothing yet.        *)
LEMMA GotoNext ==
    ASSUME TypeOK, NEW c \in Requests, NEW n \in Runs, NEW step \in Steps,
           Goto(c, n, step)
    PROVE  /\ pc' \in [Requests -> [Runs -> Steps]]
           /\ pc'[c][n] = step
           /\ \A d \in Requests : \A m \in Runs : d # c \/ m # n => pc'[d][m] = pc[d][m]
           /\ queue' = queue /\ answer' = answer
BY DEF Goto, TypeOK, Steps

(* Every statement of a run is a step of that run alone, and moves its     *)
(* command only as the consumer allows.                                    *)
LEMMA RunSteps ==
    ASSUME TypeOK, RegistrationInv, NEW c \in Requests, NEW n \in Runs,
           Run(c, n) \/ Fails(c, n)
    PROVE  TypeOK' /\ OnlyRun(c, n) /\ QueueMoves(c, n)
<1> USE RegistrationAssumption DEF TypeOK
<1>1. RunInv(c, n)
  BY DEF RegistrationInv
<1>2. CASE FindUser(c, n)
  <2>1. CASE Goto(c, n, "insert")
    <3>1. "insert" \in Steps
      BY DEF Steps
    <3> QED
      BY <1>1, <1>2, <2>1, <3>1, GotoNext
      DEF FindUser, OnlyRun, QueueMoves, RunInv, Steps
  <2>2. CASE Return(c, n, "NotFound")
    <3>1. "NotFound" \in Answers
      BY DEF Answers
    <3> QED
      BY <1>1, <1>2, <2>2, <3>1, ReturnEnds
      DEF FindUser, OnlyRun, QueueMoves, RunInv, Steps, Answers
  <2> QED
    BY <1>2, <2>1, <2>2 DEF FindUser
<1>3. CASE DrawKey(c, n)
  <2>1. /\ seq' \in 0..LastSeq
        /\ key' \in [Requests -> [Runs -> Keys \cup {NoKey}]]
        /\ \A d \in Requests : \A m \in Runs : d # c \/ m # n => key'[d][m] = key[d][m]
    <3>1. IsAccount(c) => seq + 1 \in 1..LastSeq /\ NumberOf[seq + 1] \in Keys
      BY <1>3 DEF DrawKey, Keys
    <3>2. ~IsAccount(c) => Input[request[c].input].name \in Keys
      BY RequestTypes DEF Keys
    <3>3. PICK k \in Keys : key' = [key EXCEPT ![c][n] = k]
      BY <1>3, <3>1, <3>2, Zenon DEF DrawKey
    <3>4. seq' \in 0..LastSeq
      BY <1>3, <3>1 DEF DrawKey
    <3> QED
      BY <3>3, <3>4
  <2> QED
    BY <1>1, <1>3, <2>1 DEF DrawKey, OnlyRun, QueueMoves, RunInv
<1>4. CASE InsertRow(c, n)
  <2>1. "commit" \in Steps
    BY DEF Steps
  <2>2. /\ row' \in [Requests -> [Runs -> {"none", "open", "committed"}]]
        /\ \A d \in Requests : \A m \in Runs : d # c \/ m # n => row'[d][m] = row[d][m]
    BY <1>4 DEF InsertRow
  <2> QED
    BY <1>1, <1>4, <2>1, <2>2, GotoNext DEF InsertRow, OnlyRun, QueueMoves, RunInv, Steps
<1>9. CASE LookupFails(c, n)
  <2>1. "NotFound" \in Answers
    BY DEF Answers
  <2> QED
    BY <1>1, <1>9, <2>1, ReturnEnds
    DEF LookupFails, OnlyRun, QueueMoves, RunInv, Steps, Answers
<1>5. CASE InsertRefused(c, n) \/ InsertFails(c, n)
  <2>1. "DatabaseError" \in Answers
    BY DEF Answers
  <2>2. /\ key' \in [Requests -> [Runs -> Keys \cup {NoKey}]]
        /\ \A d \in Requests : \A m \in Runs : d # c \/ m # n => key'[d][m] = key[d][m]
    <3>1. key' = [key EXCEPT ![c][n] = NoKey]
      BY <1>5 DEF InsertRefused, InsertFails
    <3> QED
      BY <3>1
  <2>3. Return(c, n, "DatabaseError") /\ pc[c][n] = "insert"
        /\ UNCHANGED <<request, delivered, row, unsure, seq>>
    BY <1>5 DEF InsertRefused, InsertFails
  <2> HIDE RegistrationAssumption
  <2>4. row[c][n] = "none"
    BY <1>1, <2>3 DEF RunInv
  <2> QED
    BY <2>1, <2>2, <2>3, <2>4, ReturnEnds
    DEF OnlyRun, QueueMoves, Steps, Answers
<1>6. CASE Commit(c, n)
  <2>1. IsAccount(c) => /\ KnownTypeCode(AccountTypeCode(TypeAsked[c]))
                        /\ KnownStatusCode("ACTIVE")
    BY DEF AccountType, AccountTypeCode, KnownTypeCode, KnownStatusCode
  <2>2. Return(c, n, "ok") /\ "ok" \in Answers
    BY <1>6, <2>1 DEF Commit, Answers
  <2>3. /\ row' \in [Requests -> [Runs -> {"none", "open", "committed"}]]
        /\ row'[c][n] = "committed"
        /\ \A d \in Requests : \A m \in Runs : d # c \/ m # n => row'[d][m] = row[d][m]
    BY <1>6 DEF Commit
  <2>4. pc[c][n] = "commit" /\ UNCHANGED <<request, delivered, key, unsure, seq>>
    BY <1>6 DEF Commit
  <2>5. row[c][n] = "open"
    BY <1>1, <2>4 DEF RunInv
  <2> QED
    BY <2>2, <2>3, <2>4, <2>5, ReturnEnds DEF OnlyRun, QueueMoves, Steps, Answers
<1>7. CASE CommitFails(c, n)
  <2>1. Return(c, n, "DatabaseError") /\ "DatabaseError" \in Answers
    BY <1>7 DEF CommitFails, Answers
  <2>2. /\ row' \in [Requests -> [Runs -> {"none", "open", "committed"}]]
        /\ row'[c][n] = "none"
        /\ \A d \in Requests : \A m \in Runs : d # c \/ m # n => row'[d][m] = row[d][m]
    BY <1>7 DEF CommitFails
  <2>3. /\ key' \in [Requests -> [Runs -> Keys \cup {NoKey}]]
        /\ \A d \in Requests : \A m \in Runs : d # c \/ m # n => key'[d][m] = key[d][m]
    BY <1>7 DEF CommitFails
  <2>4. pc[c][n] = "commit" /\ UNCHANGED <<request, delivered, unsure, seq>>
    BY <1>7 DEF CommitFails
  <2>5. row[c][n] = "open"
    BY <1>1, <2>4 DEF RunInv
  <2> QED
    BY <2>1, <2>2, <2>3, <2>4, <2>5, ReturnEnds
    DEF OnlyRun, QueueMoves, Steps, Answers
<1>8. CASE CommitUnreported(c, n)
  <2>1. Return(c, n, "DatabaseError") /\ "DatabaseError" \in Answers
    BY <1>8 DEF CommitUnreported, Answers
  <2>2. /\ row' \in [Requests -> [Runs -> {"none", "open", "committed"}]]
        /\ row'[c][n] = "committed"
        /\ \A d \in Requests : \A m \in Runs : d # c \/ m # n => row'[d][m] = row[d][m]
    BY <1>8 DEF CommitUnreported
  <2>3. /\ unsure' \in [Requests -> SUBSET Runs]
        /\ unsure[c] \subseteq unsure'[c] /\ n \in unsure'[c]
        /\ \A d \in Requests : d # c => unsure'[d] = unsure[d]
    BY <1>8 DEF CommitUnreported, Unsure
  <2>4. pc[c][n] = "commit" /\ UNCHANGED <<request, delivered, key, seq>>
    BY <1>8 DEF CommitUnreported
  <2>5. row[c][n] = "open"
    BY <1>1, <2>4 DEF RunInv
  <2> QED
    BY <2>1, <2>2, <2>3, <2>4, <2>5, ReturnEnds
    DEF OnlyRun, QueueMoves, Steps, Answers
<1> QED
  BY <1>2, <1>3, <1>4, <1>5, <1>6, <1>7, <1>8, <1>9 DEF Run, Fails

-----------------------------------------------------------------------------
(* The invariant is inductive.                                             *)

(* A user who is registered stays so while committed rows stay.            *)
LEMMA RegisteredStays ==
    ASSUME request' = request,
           \A d \in Requests : \A m \in Runs :
              row[d][m] = "committed" => row'[d][m] = "committed",
           NEW u \in Requests, Registered(u)
    PROVE  Registered(u)'
<1>1. PICK m \in Runs : row'[u][m] = "committed"
  BY DEF Registered
<1>2. UserRow(u)' = UserRow(u) /\ IsAccount(u)' = IsAccount(u)
  BY DEF UserRow, IsAccount
<1> QED
  BY <1>1, <1>2 DEF Registered

(* A run whose state does not change keeps its invariant.                  *)
LEMMA RunKept ==
    ASSUME NEW d \in Requests, NEW m \in Runs, RunInv(d, m),
           request' = request,
           \A u \in Requests : Registered(u) => Registered(u)',
           delivered[d] \in Nat, delivered'[d] \in Nat, delivered'[d] >= delivered[d],
           pc'[d][m] = pc[d][m], key'[d][m] = key[d][m],
           row'[d][m] = row[d][m], answer'[d][m] = answer[d][m]
    PROVE  RunInv(d, m)'
<1>1. IsAccount(d)' = IsAccount(d)
  BY DEF IsAccount
<1>2. m > delivered'[d] => m > delivered[d]
  BY DEF Runs
<1>3. Found(d) => Found(d)'
  BY DEF Found
<1> QED
  BY <1>1, <1>2, <1>3 DEF RunInv

(* A run stays passed while its row does not change after its end, and the *)
(* consumer forgets no run that it lost.                                   *)
LEMMA PassedStays ==
    ASSUME NEW d \in Requests, NEW m \in Runs, Passed(d, m),
           pc[d][m] = "over" => pc'[d][m] = "over" /\ row'[d][m] = row[d][m],
           unsure[d] \subseteq unsure'[d]
    PROVE  Passed(d, m)'
BY DEF Passed

(* A run that takes a step keeps its own invariant.                        *)
LEMMA RunKeepsItself ==
    ASSUME TypeOK, RegistrationInv, NEW c \in Requests, NEW n \in Runs,
           Run(c, n) \/ Fails(c, n), TypeOK', OnlyRun(c, n),
           \A u \in Requests : Registered(u) => Registered(u)'
    PROVE  RunInv(c, n)'
<1> USE DEF TypeOK
<1>1. RunInv(c, n) /\ n <= delivered[c]
  <2>1. RunInv(c, n) /\ pc[c][n] # "none"
    BY DEF RegistrationInv, OnlyRun
  <2>2. ~(n > delivered[c])
    BY <2>1 DEF RunInv
  <2> QED
    BY <2>1, <2>2 DEF Runs
<1>2. /\ IsAccount(c)' = IsAccount(c) /\ request' = request /\ delivered' = delivered
      /\ ~(n > delivered'[c])
      /\ Found(c) => Found(c)'
  BY <1>1 DEF IsAccount, OnlyRun, Runs, Found
<1>3. CASE FindUser(c, n)
  <2>1. pc[c][n] = "find" /\ UNCHANGED <<key, row>>
    BY <1>3 DEF FindUser
  <2>2. CASE Return(c, n, "NotFound")
    <3>1. pc'[c][n] = "over" /\ answer'[c][n] = "NotFound"
      BY <2>2, ReturnEnds DEF Answers
    <3> QED
      BY <1>1, <1>2, <2>1, <3>1 DEF RunInv
  <2>3. CASE ~Return(c, n, "NotFound")
    <3>1. Found(c) /\ Goto(c, n, "insert")
      BY <1>3, <2>3 DEF FindUser
    <3>2. pc'[c][n] = "insert" /\ answer' = answer
      BY <3>1, GotoNext DEF Steps
    <3>3. Found(c)'
      BY <1>2, <3>1
    <3> QED
      BY <1>1, <1>2, <2>1, <3>2, <3>3 DEF RunInv
  <2> QED
    BY <2>2, <2>3
<1>10. CASE LookupFails(c, n)
  <2>1. pc[c][n] = "find" /\ UNCHANGED <<key, row>> /\ Return(c, n, "NotFound")
    BY <1>10 DEF LookupFails
  <2>2. pc'[c][n] = "over" /\ answer'[c][n] = "NotFound"
    BY <2>1, ReturnEnds DEF Answers
  <2> QED
    BY <1>1, <1>2, <2>1, <2>2 DEF RunInv
<1>4. CASE DrawKey(c, n)
  BY <1>1, <1>2, <1>4 DEF DrawKey, RunInv
<1>5. CASE InsertRow(c, n)
  <2>1. /\ pc[c][n] = "insert" /\ key[c][n] # NoKey /\ key' = key
        /\ row'[c][n] = "open" /\ Goto(c, n, "commit")
    BY <1>5 DEF InsertRow
  <2>2. pc'[c][n] = "commit" /\ answer' = answer
    BY <2>1, GotoNext DEF Steps
  <2> QED
    BY <1>1, <1>2, <2>1, <2>2 DEF RunInv
<1>6. CASE InsertRefused(c, n) \/ InsertFails(c, n)
  <2>1. pc[c][n] = "insert" /\ row' = row /\ Return(c, n, "DatabaseError")
    BY <1>6 DEF InsertRefused, InsertFails
  <2>2. pc'[c][n] = "over" /\ answer'[c][n] = "DatabaseError"
    BY <2>1, ReturnEnds DEF Answers
  <2> QED
    BY <1>1, <1>2, <2>1, <2>2 DEF RunInv
<1>7. CASE Commit(c, n)
  <2>1. IsAccount(c) => /\ KnownTypeCode(AccountTypeCode(TypeAsked[c]))
                        /\ KnownStatusCode("ACTIVE")
    BY RegistrationAssumption
    DEF AccountType, AccountTypeCode, KnownTypeCode, KnownStatusCode
  <2>2. /\ pc[c][n] = "commit" /\ row'[c][n] = "committed" /\ key' = key
        /\ Return(c, n, "ok")
    BY <1>7, <2>1 DEF Commit
  <2>3. pc'[c][n] = "over" /\ answer'[c][n] = "ok"
    BY <2>2, ReturnEnds DEF Answers
  <2> QED
    BY <1>1, <1>2, <2>2, <2>3 DEF RunInv
<1>8. CASE CommitFails(c, n)
  <2>1. pc[c][n] = "commit" /\ row'[c][n] = "none" /\ Return(c, n, "DatabaseError")
    BY <1>8 DEF CommitFails
  <2>2. pc'[c][n] = "over" /\ answer'[c][n] = "DatabaseError"
    BY <2>1, ReturnEnds DEF Answers
  <2> QED
    BY <1>1, <1>2, <2>1, <2>2 DEF RunInv
<1>9. CASE CommitUnreported(c, n)
  <2>1. /\ pc[c][n] = "commit" /\ row'[c][n] = "committed" /\ key' = key
        /\ Return(c, n, "DatabaseError")
    BY <1>9 DEF CommitUnreported
  <2>2. pc'[c][n] = "over" /\ answer'[c][n] = "DatabaseError"
    BY <2>1, ReturnEnds DEF Answers
  <2> QED
    BY <1>1, <1>2, <2>1, <2>2 DEF RunInv
<1> QED
  BY <1>3, <1>4, <1>5, <1>6, <1>7, <1>8, <1>9, <1>10 DEF Run, Fails

(* A step of a run keeps what is known of every message.                   *)
LEMMA RunKeepsQueue ==
    ASSUME TypeOK, RegistrationInv, NEW c \in Requests, NEW n \in Runs,
           OnlyRun(c, n), QueueMoves(c, n), NEW d \in Requests
    PROVE  QueueInv(d)'
<1> USE DEF TypeOK
<1>1. /\ IsAccount(d)' = IsAccount(d) /\ request' = request /\ delivered' = delivered
      /\ delivered[d] \in Nat
  BY DEF IsAccount, OnlyRun
<1>2. QueueInv(d) /\ \A m \in Runs : RunInv(d, m)
  BY DEF RegistrationInv
<1>3. \A m \in Runs : Passed(d, m) => Passed(d, m)'
  <2> TAKE m \in Runs
  <2>1. /\ pc[d][m] = "over" => pc'[d][m] = "over" /\ row'[d][m] = row[d][m]
        /\ unsure[d] \subseteq unsure'[d]
    BY DEF OnlyRun
  <2> QED
    BY <2>1, PassedStays
<1>5. CASE d # c
  <2>1. queue'[d] = queue[d]
    BY <1>5 DEF OnlyRun
  <2> QED
    BY <1>1, <1>2, <1>3, <2>1 DEF QueueInv
<1>6. CASE d = c
  <2>1. pc[c][n] \notin {"none", "over"} /\ n <= delivered[c] /\ n \in Nat
    BY <1>2, <1>6 DEF OnlyRun, RunInv, Runs
  <2>2. delivered[c] > 0
    BY <1>1, <1>6, <2>1 DEF Runs
  <2>3. ASSUME ~IsAccount(c)
        PROVE  delivered[c] <= 1 /\ queue'[c] # "ready"
    BY <1>1, <1>2, <1>6, <2>2, <2>3 DEF QueueInv, QueueMoves
  <2>4. ASSUME IsAccount(c), queue'[c] = "ready"
        PROVE  /\ delivered[c] < MaxDeliver
               /\ \A m \in Runs : m = delivered[c] => Passed(c, m)'
    <3>1. CASE queue[c] = "ready"
      BY <1>2, <1>3, <1>6, <2>4, <3>1 DEF QueueInv
    <3>2. CASE queue[c] # "ready"
      <4>1. /\ delivered[c] < MaxDeliver
            /\ (pc'[c][n] = "over" /\ row'[c][n] = "none") \/ n \in unsure'[c]
        BY <2>4, <3>2 DEF QueueMoves
      <4> SUFFICES ASSUME NEW m \in Runs, m = delivered[c]
                   PROVE  Passed(c, m)'
        BY <4>1
      <4>2. CASE n \in unsure'[c]
        BY <2>1, <4>2 DEF Passed
      <4>3. CASE pc'[c][n] = "over" /\ row'[c][n] = "none" /\ n = m
        BY <4>3 DEF Passed
      <4>4. CASE n # m
        <5>1. n < delivered[c]
          BY <1>1, <1>6, <2>1, <4>4 DEF Runs
        <5>2. Passed(c, n)
          BY <1>2, <1>6, <2>4, <5>1 DEF QueueInv
        <5>3. PICK k \in unsure[c] : k <= n
          BY <2>1, <5>2 DEF Passed
        <5>4. k \in unsure'[c] /\ k <= m
          BY <5>1, <5>3, <1>1, <1>6 DEF OnlyRun, Runs
        <5> QED
          BY <5>4 DEF Passed
      <4> QED
        BY <4>1, <4>2, <4>3, <4>4
    <3> QED
      BY <3>1, <3>2
  <2>6. IsAccount(c) => \A m \in Runs : m < delivered[c] => Passed(c, m)'
    BY <1>2, <1>3, <1>6 DEF QueueInv
  <2>7. ~IsAccount(c) => delivered[c] <= 1 /\ queue'[c] # "ready"
    BY <2>3
  <2>8. /\ queue'[c] = "ready" => delivered[c] < MaxDeliver
        /\ IsAccount(c) /\ queue'[c] = "ready" =>
              \A m \in Runs : m = delivered[c] => Passed(c, m)'
    BY <2>4, <2>7
  <2> QED
    BY <1>1, <1>6, <2>2, <2>6, <2>7, <2>8 DEF QueueInv
<1> QED
  BY <1>5, <1>6

(* The start of a run.                                                     *)
LEMMA StartKeeps ==
    ASSUME TypeOK, RegistrationInv, NEW c \in Requests, CreateUser(c) \/ Deliver(c)
    PROVE  TypeOK' /\ RegistrationInv'
<1> USE RegistrationAssumption DEF TypeOK
<1> DEFINE n == delivered[c] + 1
<1>1. /\ queue[c] = "ready"
      /\ delivered' = [delivered EXCEPT ![c] = @ + 1]
      /\ UNCHANGED <<request, key, row, unsure, seq>>
  BY DEF CreateUser, Deliver
<1>2. /\ n \in Runs /\ n \in 1..MaxDeliver /\ delivered[c] \in Nat
      /\ ~IsAccount(c) => delivered[c] = 0
  BY <1>1 DEF RegistrationInv, QueueInv, Runs
<1>3. /\ delivered' \in [Requests -> 0..MaxDeliver] /\ delivered'[c] = n
      /\ \A d \in Requests : d # c => delivered'[d] = delivered[d]
  BY <1>1, <1>2
<1>4. RunInv(c, n) /\ pc[c][n] = "none" /\ row[c][n] = "none" /\ answer[c][n] = "none"
  <2>1. RunInv(c, n) /\ n > delivered[c]
    BY <1>2 DEF RegistrationInv
  <2> QED
    BY <1>2, <2>1 DEF RunInv, Answers
<1> HIDE DEF n
<1>5. /\ pc' \in [Requests -> [Runs -> Steps]]
      /\ answer' \in [Requests -> [Runs -> Answers]]
      /\ queue' \in [Requests -> {"ready", "inflight", "acked", "exhausted"}]
      /\ \A d \in Requests : \A m \in Runs : d # c \/ m # n =>
            pc'[d][m] = pc[d][m] /\ answer'[d][m] = answer[d][m]
      /\ \A d \in Requests : d # c => queue'[d] = queue[d]
      /\ IsAccount(c) => queue'[c] = "inflight" /\ pc'[c][n] = "find"
                         /\ answer'[c][n] = "none"
      /\ ~IsAccount(c) =>
            /\ queue'[c] \in {"inflight", "acked"}
            /\ \/ /\ pc'[c][n] = "insert" /\ answer'[c][n] = "none"
                  /\ Accepted(Input[request[c].input].form)
               \/ pc'[c][n] = "over" /\ answer'[c][n] = "InvalidInput"
  <2>1. ASSUME NEW step \in Steps, Starts(c, step)
        PROVE  /\ pc' \in [Requests -> [Runs -> Steps]]
               /\ pc'[c][n] = step /\ answer' = answer
               /\ \A d \in Requests : \A m \in Runs : d # c \/ m # n => pc'[d][m] = pc[d][m]
               /\ queue' \in [Requests -> {"ready", "inflight", "acked", "exhausted"}]
               /\ queue'[c] = "inflight"
               /\ \A d \in Requests : d # c => queue'[d] = queue[d]
    <3>1. /\ queue' = [queue EXCEPT ![c] = "inflight"]
          /\ pc' = [pc EXCEPT ![c][n] = step] /\ answer' = answer
      BY <2>1 DEF Starts, n
    <3>2. pc \in [Requests -> [Runs -> Steps]]
      BY DEF Steps
    <3> QED
      BY <1>2, <3>1, <3>2
  <2>2. CASE CreateUser(c)
    <3>1. ~IsAccount(c)
      BY <2>2 DEF CreateUser
    <3>2. CASE Starts(c, "insert") /\ Accepted(Input[request[c].input].form)
      BY <1>2, <1>4, <2>1, <3>1, <3>2 DEF Steps, Answers
    <3>3. CASE Return(c, n, "InvalidInput")
      BY <1>2, <3>1, <3>3, ReturnEnds DEF Answers
    <3> QED
      BY <2>2, <3>2, <3>3 DEF CreateUser, n
  <2>3. CASE Deliver(c)
    <3>1. IsAccount(c) /\ Starts(c, "find")
      BY <2>3 DEF Deliver
    <3> QED
      BY <1>2, <1>4, <2>1, <3>1 DEF Steps, Answers
  <2> QED
    BY <2>2, <2>3
<1>6. TypeOK'
  BY <1>1, <1>3, <1>5 DEF Steps, Answers
<1>7. /\ \A d \in Requests : IsAccount(d)' = IsAccount(d)
      /\ \A u \in Requests : Registered(u) => Registered(u)'
  BY <1>1, RegisteredStays DEF IsAccount
<1>8. ASSUME NEW d \in Requests, NEW m \in Runs
      PROVE  RunInv(d, m)'
  <2>1. CASE d # c \/ m # n
    <3>1. RunInv(d, m) /\ delivered'[d] >= delivered[d] /\ delivered[d] \in Nat
            /\ delivered'[d] \in Nat
      <4>1. RunInv(d, m)
        BY DEF RegistrationInv
      <4>2. delivered[d] \in Nat /\ delivered'[d] \in Nat
        BY <1>3
      <4>3. delivered'[d] >= delivered[d]
        <5>1. n >= delivered[c]
          BY <1>2 DEF n
        <5>2. d # c => delivered'[d] = delivered[d]
          BY <1>3
        <5> QED
          BY <1>3, <4>2, <5>1, <5>2
      <4> QED
        BY <4>1, <4>2, <4>3
    <3> QED
      BY <1>1, <1>5, <1>7, <2>1, <3>1, RunKept
  <2>2. CASE d = c /\ m = n
    <3>1. ~(n > delivered'[c])
      BY <1>2, <1>3
    <3> QED
      BY <1>1, <1>4, <1>5, <1>7, <2>2, <3>1 DEF RunInv
  <2> QED
    BY <2>1, <2>2
<1>9. ASSUME NEW d \in Requests
      PROVE  QueueInv(d)'
  <2>1. QueueInv(d) /\ \A m \in Runs : RunInv(d, m)
    BY DEF RegistrationInv
  <2>2. \A m \in Runs : Passed(d, m) => Passed(d, m)'
    <3> TAKE m \in Runs
    <3>1. /\ pc[d][m] = "over" => pc'[d][m] = "over" /\ row'[d][m] = row[d][m]
          /\ unsure[d] \subseteq unsure'[d]
      BY <1>1, <1>4, <1>5
    <3> QED
      BY <3>1, PassedStays
  <2>3. CASE d # c
    <3>1. queue'[d] = queue[d] /\ delivered'[d] = delivered[d] /\ row' = row
      BY <1>1, <1>3, <1>5, <2>3
    <3> QED
      BY <1>7, <2>1, <2>2, <3>1 DEF QueueInv
  <2>4. CASE d = c
    <3>1. IsAccount(c) => \A m \in Runs : m < n => Passed(c, m)'
      <4> SUFFICES ASSUME IsAccount(c), NEW m \in Runs, m < n
                   PROVE  Passed(c, m)
        BY <2>2, <2>4
      <4>1. m < delivered[c] \/ m = delivered[c]
        BY <1>2 DEF n, Runs
      <4> QED
        BY <1>1, <2>1, <2>4, <4>1 DEF QueueInv
    <3>2. n > 0 /\ (~IsAccount(c) => n <= 1)
      BY <1>2 DEF n
    <3> QED
      BY <1>3, <1>5, <1>7, <2>4, <3>1, <3>2 DEF QueueInv
  <2> QED
    BY <2>3, <2>4
<1> QED
  BY <1>6, <1>8, <1>9 DEF RegistrationInv

(* ack_wait: the delivery under way becomes unsure, so it has passed.      *)
LEMMA ExpireKeeps ==
    ASSUME TypeOK, RegistrationInv, NEW c \in Requests, Expire(c)
    PROVE  TypeOK' /\ RegistrationInv'
<1> USE RegistrationAssumption DEF TypeOK
<1>1. /\ IsAccount(c) /\ queue[c] = "inflight"
      /\ queue' = [queue EXCEPT ![c] = Redeliverable(c)]
      /\ unsure' = [unsure EXCEPT ![c] = @ \cup {delivered[c]}]
      /\ UNCHANGED <<request, delivered, pc, key, row, answer, seq>>
  BY DEF Expire, Unsure
<1>2. delivered[c] \in Runs
  <2>1. delivered[c] > 0
    BY <1>1 DEF RegistrationInv, QueueInv
  <2> QED
    BY <2>1 DEF Runs
<1>3. /\ Redeliverable(c) \in {"ready", "exhausted"}
      /\ Redeliverable(c) = "ready" => delivered[c] < MaxDeliver
  BY DEF Redeliverable
<1>4. TypeOK'
  BY <1>1, <1>2, <1>3
<1>5. /\ \A d \in Requests : IsAccount(d)' = IsAccount(d)
      /\ \A u \in Requests : Registered(u) => Registered(u)'
  BY <1>1, RegisteredStays DEF IsAccount
<1>6. ASSUME NEW d \in Requests, NEW m \in Runs
      PROVE  RunInv(d, m)'
  <2>1. RunInv(d, m) /\ delivered[d] \in Nat
    BY DEF RegistrationInv
  <2> QED
    BY <1>1, <1>5, <2>1, RunKept
<1>7. ASSUME NEW d \in Requests
      PROVE  QueueInv(d)'
  <2>1. QueueInv(d) /\ unsure[d] \subseteq unsure'[d]
    BY <1>1 DEF RegistrationInv
  <2>2. \A m \in Runs : Passed(d, m) => Passed(d, m)'
    BY <1>1, <2>1, PassedStays
  <2>3. CASE d # c
    BY <1>1, <1>5, <2>1, <2>2, <2>3 DEF QueueInv
  <2>4. CASE d = c
    <3>1. \A m \in Runs : m = delivered[c] => Passed(c, m)'
      BY <1>1, <1>2 DEF Passed, Runs
    <3>2. queue'[c] = Redeliverable(c)
      BY <1>1
    <3> QED
      BY <1>1, <1>2, <1>3, <1>5, <2>1, <2>2, <2>4, <3>1, <3>2 DEF QueueInv, Runs
  <2> QED
    BY <2>3, <2>4
<1> QED
  BY <1>4, <1>6, <1>7 DEF RegistrationInv

(* A crash ends every run, and leaves a row of those only whose commit was *)
(* on its way.                                                             *)
LEMMA CrashKeeps ==
    ASSUME TypeOK, RegistrationInv, Crash
    PROVE  TypeOK' /\ RegistrationInv'
<1> USE RegistrationAssumption DEF TypeOK
<1>1. \A d \in Requests : \A m \in Runs : RunInv(d, m)
  BY DEF RegistrationInv
<1>2. /\ pc' \in [Requests -> [Runs -> Steps]]
      /\ \A d \in Requests : \A m \in Runs :
            pc'[d][m] = IF pc[d][m] = "none" THEN "none" ELSE "over"
  BY DEF Crash, Steps
<1>3. /\ queue' \in [Requests -> {"ready", "inflight", "acked", "exhausted"}]
      /\ \A d \in Requests :
            queue'[d] = IF ~IsAccount(d) /\ queue[d] = "inflight" THEN "acked" ELSE queue[d]
  BY DEF Crash
<1>4. /\ row' \in [Requests -> [Runs -> {"none", "open", "committed"}]]
      /\ \A d \in Requests : \A m \in Runs :
            /\ row'[d][m] # "open"
            /\ row[d][m] # "open" => row'[d][m] = row[d][m]
  <2>1. PICK landed \in [Requests -> SUBSET Runs] :
          /\ \A d \in Requests : \A m \in landed[d] : row[d][m] = "open"
          /\ row' = [d \in Requests |-> [m \in Runs |->
                       IF m \in landed[d] THEN "committed"
                       ELSE IF row[d][m] = "open" THEN "none" ELSE row[d][m]]]
    BY DEF Crash
  <2> QED
    BY <2>1
<1>5. /\ key' \in [Requests -> [Runs -> Keys \cup {NoKey}]]
      /\ \A d \in Requests : \A m \in Runs :
            row'[d][m] # "none" => key'[d][m] = key[d][m]
  BY DEF Crash
<1>6. UNCHANGED <<request, delivered, answer, unsure, seq>>
  BY DEF Crash
<1>7. TypeOK'
  BY <1>2, <1>3, <1>4, <1>5, <1>6 DEF Steps
<1>8. /\ \A d \in Requests : IsAccount(d)' = IsAccount(d)
      /\ \A u \in Requests : Registered(u) => Registered(u)'
  BY <1>4, <1>6, RegisteredStays DEF IsAccount
<1>9. ASSUME NEW d \in Requests, NEW m \in Runs
      PROVE  RunInv(d, m)'
  <2>1. row'[d][m] # "none" => row[d][m] # "none"
    BY <1>4
  <2>2. Found(d) => Found(d)'
    BY <1>6, <1>8 DEF Found
  <2> QED
    BY <1>1, <1>2, <1>4, <1>5, <1>6, <1>8, <2>1, <2>2 DEF RunInv
<1>10. ASSUME NEW d \in Requests
       PROVE  QueueInv(d)'
  <2>1. QueueInv(d)
    BY DEF RegistrationInv
  <2>2. \A m \in Runs : Passed(d, m) => Passed(d, m)'
    <3> TAKE m \in Runs
    <3>1. pc[d][m] = "over" => pc'[d][m] = "over" /\ row'[d][m] = row[d][m]
      BY <1>1, <1>2, <1>4 DEF RunInv
    <3> QED
      BY <1>6, <3>1, PassedStays
  <2> QED
    BY <1>3, <1>6, <1>8, <2>1, <2>2 DEF QueueInv
<1> QED
  BY <1>7, <1>9, <1>10 DEF RegistrationInv

(* Before the first request nothing has run.                               *)
LEMMA RegistrationInit ==
    ASSUME Init
    PROVE  TypeOK /\ RegistrationInv
<1> USE RegistrationAssumption DEF Init, ForAllRuns
<1>1. TypeOK
  BY DEF TypeOK
<1>2. ASSUME NEW c \in Requests
      PROVE  QueueInv(c) /\ \A n \in Runs : RunInv(c, n)
  BY DEF QueueInv, RunInv, Runs
<1> QED
  BY <1>1, <1>2 DEF RegistrationInv

(* Every step keeps the types and the invariant.                           *)
LEMMA RegistrationStep ==
    ASSUME TypeOK, RegistrationInv, [Next]_vars
    PROVE  TypeOK' /\ RegistrationInv'
<1>1. ASSUME NEW c \in Requests, NEW n \in Runs, Run(c, n) \/ Fails(c, n)
      PROVE  TypeOK' /\ RegistrationInv'
  <2>1. TypeOK' /\ OnlyRun(c, n) /\ QueueMoves(c, n)
    BY <1>1, RunSteps
  <2>2. \A u \in Requests : Registered(u) => Registered(u)'
    <3>1. /\ request' = request
          /\ \A d \in Requests : \A m \in Runs :
                row[d][m] = "committed" => row'[d][m] = "committed"
      BY <2>1 DEF OnlyRun
    <3> QED
      BY <3>1, RegisteredStays
  <2>3. ASSUME NEW d \in Requests, NEW m \in Runs
        PROVE  RunInv(d, m)'
    <3>1. CASE d = c /\ m = n
      BY <1>1, <2>1, <2>2, <3>1, RunKeepsItself
    <3>2. CASE d # c \/ m # n
      <4>1. RunInv(d, m) /\ delivered[d] \in Nat /\ delivered' = delivered
        BY <2>1 DEF RegistrationInv, OnlyRun, TypeOK
      <4>2. /\ pc'[d][m] = pc[d][m] /\ key'[d][m] = key[d][m]
            /\ row'[d][m] = row[d][m] /\ answer'[d][m] = answer[d][m]
            /\ request' = request
        BY <2>1, <3>2 DEF OnlyRun
      <4> QED
        BY <2>2, <4>1, <4>2, RunKept
    <3> QED
      BY <3>1, <3>2
  <2>4. \A d \in Requests : QueueInv(d)'
    BY <2>1, RunKeepsQueue
  <2> QED
    BY <2>1, <2>3, <2>4 DEF RegistrationInv
<1>2. CASE UNCHANGED vars
  <2>1. UNCHANGED <<request, queue, delivered, pc, key, row, answer, unsure, seq>>
    BY <1>2 DEF vars
  <2> QED
    BY <2>1 DEF TypeOK, RegistrationInv, QueueInv, RunInv, Passed, Found,
                IsAccount, Registered, UserRow
<1> QED
  BY <1>1, <1>2, StartKeeps, ExpireKeeps, CrashKeeps DEF Next

(* The invariant holds in every state, whatever fails or dies.             *)
THEOREM RegistrationInductive == Spec => [](TypeOK /\ RegistrationInv)
<1>1. Init => TypeOK /\ RegistrationInv
  BY RegistrationInit
<1>2. TypeOK /\ RegistrationInv /\ [Next]_vars => TypeOK' /\ RegistrationInv'
  BY RegistrationStep
<1> QED
  BY <1>1, <1>2, PTL DEF Spec

-----------------------------------------------------------------------------
(* The properties of the runs.                                             *)

(* Every variable keeps its type; a command is never started more often    *)
(* than the consumer allows.                                               *)
THEOREM RegistrationTypeCorrect == Spec => []TypeOK
BY RegistrationInductive, PTL

(* create_user and create_account answer ok only for a row that is there   *)
(* for good, and NotFound and InvalidInput only without one.               *)
THEOREM AnswersTrueTheorem == Spec => []AnswersTrue
<1>1. RegistrationInv => AnswersTrue
  BY DEF RegistrationInv, RunInv, AnswersTrue
<1> QED
  BY <1>1, RegistrationInductive, PTL

(* Every user in the table passes the checks of find_by_user_name.         *)
THEOREM RegisteredReadsBackTheorem == Spec => []RegisteredReadsBack
<1>1. TypeOK /\ RegistrationInv => RegisteredReadsBack
  <2> SUFFICES ASSUME TypeOK, RegistrationInv, NEW c \in Requests, ~IsAccount(c),
                      NEW n \in Runs, row[c][n] = "committed"
               PROVE  /\ Readable(UserRow(c))
                      /\ ReadBack(UserRow(c)) = NewUser(Input[request[c].input].form)
    BY DEF RegisteredReadsBack
  <2>1. Accepted(Input[request[c].input].form)
    BY DEF RegistrationInv, RunInv
  <2>2. Input[request[c].input].form \in UserForm
    BY RequestTypes, RegistrationAssumption
  <2> QED
    BY <2>1, <2>2, AcceptedReadsBack DEF UserRow
<1> QED
  BY <1>1, RegistrationInductive, PTL

(* Every account, and every row about to be inserted, has its user in the  *)
(* table: the foreign key refuses no INSERT, and InsertRow need not look   *)
(* at it.                                                                  *)
LEMMA ForeignKeyHolds ==
    Spec => [](\A c \in Requests : \A n \in Runs :
                 (IsAccount(c) /\ (pc[c][n] \in {"insert", "commit"} \/ row[c][n] # "none"))
                 => Found(c))
<1>1. RegistrationInv => (\A c \in Requests : \A n \in Runs :
                 (IsAccount(c) /\ (pc[c][n] \in {"insert", "commit"} \/ row[c][n] # "none"))
                 => Found(c))
  BY DEF RegistrationInv, RunInv
<1> QED
  BY <1>1, RegistrationInductive, PTL

(* A second account needs an earlier run that the consumer lost.           *)
THEOREM DuplicateTheorem == Spec => []DuplicateOnlyWhenUnsure
<1>1. TypeOK /\ RegistrationInv => DuplicateOnlyWhenUnsure
  <2> SUFFICES ASSUME TypeOK, RegistrationInv, NEW c \in Requests,
                      NEW n \in Runs, NEW m \in Runs, m < n,
                      row[c][m] = "committed", row[c][n] = "committed"
               PROVE  \E k \in unsure[c] : k <= m
    BY DEF DuplicateOnlyWhenUnsure
  <2>1. RunInv(c, n) /\ QueueInv(c) /\ delivered[c] \in Nat
    BY DEF RegistrationInv, TypeOK
  <2>2. m < delivered[c] /\ delivered[c] > 1
    BY <2>1 DEF RunInv, Runs
  <2>3. Passed(c, m)
    BY <2>1, <2>2 DEF QueueInv
  <2> QED
    BY <2>3 DEF Passed
<1> QED
  BY <1>1, RegistrationInductive, PTL
=============================================================================
