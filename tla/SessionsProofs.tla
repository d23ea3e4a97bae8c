--------------------------- MODULE SessionsProofs ---------------------------
(***************************************************************************)
(* Proofs about Sessions for any number of calls and users, any limits and *)
(* any faults.                                                             *)
(***************************************************************************)
EXTENDS Sessions, TLAPS

-----------------------------------------------------------------------------
(* The two checks of a session.                                            *)

(* SessionPolicy::validate, which is not called, accepts what the query of *)
(* verify_and_rotate_token accepts: the windows agree at their limits.     *)
THEOREM PolicyAgrees ==
    ASSUME TypeOK, NEW s \in Sessions
    PROVE  Fresh(rows[s]) <=> Validate(rows[s]) = "Ok"
BY SessionsAssumption DEF TypeOK, Sessions, Row, Fresh, Validate

-----------------------------------------------------------------------------
(* The inductive invariant.                                                *)

(* What the statement that a call is about to execute says of the call.    *)
CallInv(t) ==
    /\ pc[t] = "idle"   => op[t] = "none" /\ presented[t] = NoRow
    /\ pc[t] \in {"idle", "select"} => target[t] = NoRow
    /\ pc[t] = "insert" => op[t] = "login"
    /\ pc[t] \in {"select", "rotate"} => op[t] = "refresh"
    /\ pc[t] = "revoke" => op[t] = "logout"
    /\ pc[t] = "commit" => op[t] # "none"
    /\ pc[t] # "done"   => result[t] = "None"
    /\ pc[t] \in {"insert", "commit"} /\ op[t] = "login" => user[t] \in Users
    /\ op[t] \in {"refresh", "logout"} => presented[t] \in Issued

(* The session of t is the one of the token it was given, and of its user. *)
Owns(t) ==
    /\ target[t] \in Sessions
    /\ user[t] = rows[target[t]].user
    /\ op[t] = "refresh" => target[presented[t]] = target[t]

(* A call that returns tokens, or is about to, has the lock of a session,  *)
(* or has selected or made one of its own.                                 *)
TokenInv(t) ==
    /\ op[t] = "login" /\ pc[t] = "commit" => lock[t] = t
    /\ op[t] = "refresh" /\ pc[t] = "commit" => lock[target[t]] = t
    /\ op[t] = "refresh" /\ pc[t] \in {"rotate", "commit"} => Owns(t)
    /\ t \in Issued => Owns(t)

(* A row is locked by the call that will end its transaction next, and the *)
(* draft is that row but for what the call is there to change.             *)
LockInv(s) ==
    lock[s] # NoRow =>
        LET t == lock[s] IN
        /\ pc[t] = "commit" /\ target[t] = s /\ draft[s] \in Row
        /\ op[t] = "login" =>
              /\ s = t /\ rows[s] = NoRow
              /\ draft[s].user = user[t] /\ draft[s].hash = t
        /\ op[t] # "login" =>
              /\ rows[s] # NoRow
              /\ draft[s].user = rows[s].user
        /\ op[t] = "refresh" =>
              draft[s].hash = t /\ draft[s].revoked = rows[s].revoked
        /\ op[t] = "logout" =>
              /\ draft[s].hash = rows[s].hash /\ draft[s].used = rows[s].used
              /\ draft[s].revoked

(* A row is the session of a login that has ended, and its hash the one of *)
(* a token that was generated for this session by a call that has ended.   *)
RowInv(s) ==
    rows[s] # NoRow =>
        /\ op[s] = "login" /\ pc[s] = "done"
        /\ rows[s].user = user[s]
        /\ target[rows[s].hash] = s
        /\ op[rows[s].hash] \in {"login", "refresh"}
        /\ pc[rows[s].hash] = "done"

(* A token that a refresh or a logout has consumed: no row has its hash,   *)
(* or that row is revoked, or about to be by a logout that has its lock.   *)
SpentInv(t) ==
    /\ op[t] = "refresh" /\ t \in Issued => rows[target[t]].hash # presented[t]
    /\ op[t] = "logout" /\ pc[t] = "commit" =>
          \A s \in Sessions : rows[s].hash = presented[t] => lock[s] = t
    /\ op[t] = "logout" /\ result[t] = "Ok" =>
          \A s \in Sessions : rows[s].hash = presented[t] => rows[s].revoked

(* A refresh that ended, perhaps with its rotation committed, took token t. *)
Consumed(s, t) ==
    \E u \in Calls : /\ op[u] = "refresh" /\ target[u] = s /\ presented[u] = t
                    /\ result[u] \in {"Ok", "GenerationError", "Crashed"}

(* Unless two refreshes of it raced, the tokens of a session form a chain: *)
(* a rotation takes the latest one, and every other one was taken by a     *)
(* refresh that has ended.                                                 *)
ChainInv(t) ==
    /\ op[t] = "refresh" /\ pc[t] \in {"rotate", "commit"} =>
          rows[target[t]].hash = presented[t] \/ Raced(target[t])
    /\ t \in Issued /\ rows[target[t]].hash # t =>
          Raced(target[t]) \/ Consumed(target[t], t)

SessionsInv ==
    \A t \in Calls : CallInv(t) /\ TokenInv(t) /\ LockInv(t) /\ RowInv(t) /\ SpentInv(t)

ChainsInv == \A t \in Calls : ChainInv(t)

-----------------------------------------------------------------------------
(* Steps by which calls end.                                               *)

(* The calls in E end, those in D with their transaction durable.          *)
Ends(E, D) ==
    /\ E \subseteq Calls /\ D \subseteq E
    /\ \A t \in E : pc[t] \notin {"idle", "done"}
    /\ \A t \in D : pc[t] = "commit"
    /\ \A t \in Calls :
          /\ pc'[t] = IF t \in E THEN "done" ELSE pc[t]
          /\ t \notin E => result'[t] = result[t]
          /\ t \in E /\ result'[t] = "Ok" => t \in D
          /\ t \in E => result'[t] \in {"Ok", "GenerationError", "Crashed"}
    /\ \A s \in Calls :
          /\ rows'[s]  = IF lock[s] \in D THEN draft[s] ELSE rows[s]
          /\ lock'[s]  = IF lock[s] \in E THEN NoRow ELSE lock[s]
          /\ draft'[s] = IF lock[s] \in E THEN NoRow ELSE draft[s]
    /\ UNCHANGED <<op, presented, target, user>>

(* What that does to a row: it appears with the token of its login, or it  *)
(* gets the token of a refresh, or is revoked, or stays as it is.          *)
LEMMA EndsRows ==
    ASSUME TypeOK, SessionsInv, NEW E, NEW D, Ends(E, D), NEW s \in Calls
    PROVE  \/ rows'[s] = rows[s] /\ lock[s] \notin D
           \/ /\ lock[s] = s /\ s \in D /\ op[s] = "login"
              /\ rows[s] = NoRow /\ rows'[s] \in Row /\ target[s] = s
              /\ rows'[s].user = user[s] /\ rows'[s].hash = s
           \/ /\ lock[s] \in D /\ op[lock[s]] = "refresh" /\ target[lock[s]] = s
              /\ rows[s] # NoRow /\ rows'[s] \in Row
              /\ rows'[s].user = rows[s].user /\ rows'[s].hash = lock[s]
              /\ rows'[s].revoked = rows[s].revoked
           \/ /\ lock[s] \in D /\ op[lock[s]] = "logout"
              /\ rows[s] # NoRow /\ rows'[s] \in Row
              /\ rows'[s].user = rows[s].user /\ rows'[s].hash = rows[s].hash
              /\ rows'[s].used = rows[s].used /\ rows'[s].revoked
<1>1. CASE lock[s] \notin D
  BY <1>1 DEF Ends
<1>2. CASE lock[s] \in D
  <2>1. lock[s] \in Calls /\ lock[s] # NoRow /\ rows'[s] = draft[s]
    BY <1>2, SessionsAssumption DEF Ends
  <2>2. op[lock[s]] \in {"login", "refresh", "logout"}
    BY <2>1 DEF TypeOK, SessionsInv, LockInv, CallInv
  <2> QED
    BY <1>2, <2>1, <2>2 DEF SessionsInv, LockInv
<1> QED
  BY <1>1, <1>2

(* Sessions stay with their user, and a call that had tokens keeps them.   *)
LEMMA EndsKeep ==
    ASSUME TypeOK, SessionsInv, NEW E, NEW D, Ends(E, D)
    PROVE  /\ \A s \in Sessions : rows'[s] # NoRow /\ rows'[s].user = rows[s].user
           /\ \A t \in Calls : t \in Issued' <=>
                  \/ t \in Issued
                  \/ /\ t \in D /\ t \in E /\ pc[t] = "commit"
                     /\ op[t] \in {"login", "refresh"} /\ result'[t] = "Ok"
           /\ \A t \in Issued : pc[t] = "done" /\ t \in Calls /\ t \notin E
<1>1. \A s \in Sessions : rows'[s] # NoRow /\ rows'[s].user = rows[s].user
  BY EndsRows, SessionsAssumption DEF Sessions
<1>2. \A t \in Issued : pc[t] = "done" /\ t \in Calls /\ t \notin E
  BY DEF Issued, SessionsInv, CallInv, Ends
<1>3. \A t \in Calls : t \in E => result[t] = "None"
  BY DEF SessionsInv, CallInv, Ends
<1>4. ASSUME NEW t \in Calls
      PROVE  t \in Issued' <=>
                  \/ t \in Issued
                  \/ /\ t \in D /\ t \in E /\ pc[t] = "commit"
                     /\ op[t] \in {"login", "refresh"} /\ result'[t] = "Ok"
  <2>1. t \in Issued' <=> op[t] \in {"login", "refresh"} /\ result'[t] = "Ok"
    BY DEF Issued, Ends
  <2>2. CASE t \in E
    BY <1>3, <2>1, <2>2 DEF Issued, Ends
  <2>3. CASE t \notin E
    BY <2>1, <2>3 DEF Issued, Ends
  <2> QED
    BY <2>2, <2>3
<1> QED
  BY <1>1, <1>2, <1>4

(* Ending calls keeps what is known of the calls.                          *)
LEMMA EndsCalls ==
    ASSUME TypeOK, SessionsInv, NEW E, NEW D, Ends(E, D), NEW t \in Calls
    PROVE  CallInv(t)' /\ TokenInv(t)'
<1>1. CallInv(t) /\ TokenInv(t)
  BY DEF SessionsInv
<1>2. CallInv(t)'
  <2>1. \A u \in Issued : u \in Issued'
    BY EndsKeep DEF Issued
  <2> QED
    BY <1>1, <2>1 DEF CallInv, Ends
<1>3. Owns(t) => Owns(t)'
  <2>1. \A s \in Sessions : s \in Sessions' /\ rows'[s].user = rows[s].user
    BY EndsKeep DEF Sessions
  <2> QED
    BY <2>1 DEF Owns, Ends
<1>4. pc'[t] # "done" => t \notin E /\ pc'[t] = pc[t]
  BY DEF Ends
<1>5. ASSUME t \notin Issued, t \in Issued'
      PROVE  Owns(t)'
  <2>1. t \in D /\ pc[t] = "commit" /\ op[t] \in {"login", "refresh"}
    BY <1>5, EndsKeep DEF Ends
  <2>2. CASE op[t] = "login"
    <3>1. lock[t] = t
      BY <1>1, <2>1, <2>2 DEF TokenInv
    <3>2. t # NoRow
      BY SessionsAssumption
    <3>3. rows'[t] \in Row /\ rows'[t].user = user[t] /\ target[t] = t
      BY <2>1, <2>2, <3>1, EndsRows
    <3> QED
      BY <2>2, <3>3, SessionsAssumption DEF Owns, Sessions, Ends
  <2>3. CASE op[t] = "refresh"
    BY <1>1, <1>3, <2>1, <2>3 DEF TokenInv
  <2> QED
    BY <2>1, <2>2, <2>3
<1>6. TokenInv(t)'
  <2>1. t \in Issued' => Owns(t)'
    BY <1>1, <1>3, <1>5 DEF TokenInv
  <2>2. \A s \in Calls : lock[s] = t /\ t \notin E => lock'[s] = t
    BY DEF Ends
  <2>3. op' = op /\ target' = target
    BY DEF Ends
  <2>4. op[t] = "login" /\ pc'[t] = "commit" => lock'[t] = t
    BY <1>1, <1>4, <2>2 DEF TokenInv
  <2>5. op[t] = "refresh" /\ pc'[t] = "commit" => lock'[target[t]] = t
    BY <1>1, <1>4, <2>2 DEF TokenInv, Owns, Sessions
  <2>6. op[t] = "refresh" /\ pc'[t] \in {"rotate", "commit"} => Owns(t)'
    BY <1>1, <1>3, <1>4 DEF TokenInv
  <2> QED
    BY <2>1, <2>3, <2>4, <2>5, <2>6 DEF TokenInv
<1> QED
  BY <1>2, <1>6

(* It keeps what is known of the rows and their locks.                     *)
LEMMA EndsRowsKept ==
    ASSUME TypeOK, SessionsInv, NEW E, NEW D, Ends(E, D), NEW s \in Calls
    PROVE  LockInv(s)' /\ RowInv(s)'
<1>1. LockInv(s) /\ RowInv(s)
  BY DEF SessionsInv
<1>2. LockInv(s)'
  <2> SUFFICES ASSUME lock'[s] # NoRow
               PROVE  LockInv(s)'
    BY DEF LockInv
  <2>1. /\ lock[s] \notin E /\ lock'[s] = lock[s] /\ draft'[s] = draft[s]
        /\ rows'[s] = rows[s]
    BY DEF Ends
  <2>2. lock[s] \in Calls
    BY <2>1 DEF TypeOK
  <2>3. pc'[lock[s]] = pc[lock[s]]
    BY <2>1, <2>2 DEF Ends
  <2> QED
    BY <1>1, <2>1, <2>2, <2>3 DEF LockInv, Ends
<1>3. RowInv(s)'
  <2>1. \A t \in Calls : pc[t] = "done" \/ t \in E => pc'[t] = "done"
    BY DEF Ends
  <2>2. op' = op /\ target' = target /\ user' = user /\ D \subseteq E
    BY DEF Ends
  <2>3. rows[s] # NoRow => rows[s].hash \in Calls
    BY DEF TypeOK, Row
  <2>4. \A t \in D : t \in E /\ t \in Calls
    BY DEF Ends
  <2> QED
    BY <1>1, <2>1, <2>2, <2>3, <2>4, EndsRows DEF RowInv
<1> QED
  BY <1>2, <1>3

(* It gives no row the hash of a token that has been consumed.             *)
LEMMA EndsSpent ==
    ASSUME TypeOK, SessionsInv, NEW E, NEW D, Ends(E, D), NEW t \in Calls
    PROVE  SpentInv(t)'
<1>1. CallInv(t) /\ TokenInv(t) /\ SpentInv(t)
  BY DEF SessionsInv
<1>2. op' = op /\ target' = target /\ presented' = presented
  BY DEF Ends
<1>3. \A u \in D : op[t] \in {"refresh", "logout"} => u # presented[t]
  <2>1. op[t] \in {"refresh", "logout"} => pc[presented[t]] = "done"
    BY <1>1 DEF CallInv, Issued, SessionsInv
  <2> QED
    BY <2>1 DEF Ends
<1>4. ASSUME NEW s \in Sessions', op[t] \in {"refresh", "logout"},
             rows'[s].hash = presented[t]
      PROVE  /\ s \in Sessions /\ rows[s].hash = presented[t]
             /\ rows[s].revoked => rows'[s].revoked
             /\ lock[s] \in D => rows'[s].revoked
  BY <1>3, <1>4, EndsRows DEF Sessions
<1>5. op[t] = "refresh" /\ t \in Issued' => rows'[target[t]].hash # presented[t]
  <2> SUFFICES ASSUME op[t] = "refresh", t \in Issued',
                      rows'[target[t]].hash = presented[t]
               PROVE  FALSE
    OBVIOUS
  <2>1. Owns(t)' /\ Owns(t)
    <3>1. Owns(t)'
      BY EndsCalls DEF TokenInv
    <3>2. t \in Issued \/ pc[t] = "commit"
      BY EndsKeep DEF Ends
    <3> QED
      BY <1>1, <3>1, <3>2 DEF TokenInv
  <2>2. target[t] \in Sessions' /\ target[t] \in Calls
    BY <1>2, <2>1 DEF Owns, Sessions
  <2>3. rows[target[t]].hash = presented[t]
    BY <1>4, <2>2
  <2>4. t \notin Issued
    BY <1>1, <2>3 DEF SpentInv
  <2>5. t \in D /\ lock[target[t]] = t
    <3>1. t \in D /\ pc[t] = "commit"
      BY <2>4, EndsKeep
    <3> QED
      BY <1>1, <3>1 DEF TokenInv
  <2>6. rows'[target[t]].hash = t
    BY <2>2, <2>5, EndsRows DEF Sessions
  <2> QED
    BY <1>3, <2>5, <2>6
<1>6. op[t] = "logout" /\ pc'[t] = "commit" =>
          \A s \in Sessions' : rows'[s].hash = presented[t] => lock'[s] = t
  <2> SUFFICES ASSUME op[t] = "logout", pc'[t] = "commit", NEW s \in Sessions',
                      rows'[s].hash = presented[t]
               PROVE  lock'[s] = t
    OBVIOUS
  <2>1. pc[t] = "commit" /\ t \notin E
    BY DEF Ends
  <2>2. lock[s] = t
    BY <1>1, <1>4, <2>1 DEF SpentInv
  <2> QED
    BY <2>1, <2>2 DEF Ends, Sessions
<1>7. op[t] = "logout" /\ result'[t] = "Ok" =>
          \A s \in Sessions' : rows'[s].hash = presented[t] => rows'[s].revoked
  <2> SUFFICES ASSUME op[t] = "logout", result'[t] = "Ok", NEW s \in Sessions',
                      rows'[s].hash = presented[t]
               PROVE  rows'[s].revoked
    OBVIOUS
  <2>1. CASE t \in E
    <3>1. t \in D /\ pc[t] = "commit"
      BY <2>1 DEF Ends
    <3>2. lock[s] = t
      BY <1>1, <1>4, <3>1 DEF SpentInv
    <3> QED
      BY <1>4, <3>1, <3>2
  <2>2. CASE t \notin E
    BY <1>1, <1>4, <2>2 DEF SpentInv, Ends
  <2> QED
    BY <2>1, <2>2
<1> QED
  BY <1>2, <1>5, <1>6, <1>7 DEF SpentInv

(* And it moves the hash of a row only from a token to the one of the call *)
(* it was given to, unless two refreshes of that session raced.            *)
LEMMA EndsChain ==
    ASSUME TypeOK, SessionsInv, ChainsInv, NEW E, NEW D, Ends(E, D)
    PROVE  ChainsInv'
<1>1. presented' = presented /\ op' = op /\ target' = target
  BY DEF Ends
<1>2. \A s : Raced(s) => Raced(s)'
  BY <1>1 DEF Raced
<1>3. ASSUME NEW s, NEW t, Consumed(s, t)
      PROVE  Consumed(s, t)'
  <2>1. PICK u \in Calls : /\ op[u] = "refresh" /\ target[u] = s /\ presented[u] = t
                          /\ result[u] \in {"Ok", "GenerationError", "Crashed"}
    BY <1>3 DEF Consumed
  <2>2. result'[u] \in {"Ok", "GenerationError", "Crashed"}
    BY <2>1 DEF Ends
  <2> QED
    BY <1>1, <2>1, <2>2 DEF Consumed
<1> SUFFICES ASSUME NEW t \in Calls
             PROVE  ChainInv(t)'
  BY DEF ChainsInv
<1>4. ChainInv(t) /\ TokenInv(t) /\ CallInv(t)
  BY DEF ChainsInv, SessionsInv
<1>5. PICK q : q = target[t]
  OBVIOUS
<1>6. ASSUME NEW s \in Sessions, rows'[s].hash # rows[s].hash
      PROVE  /\ lock[s] \in D /\ lock[s] \in Calls
             /\ op[lock[s]] = "refresh" /\ target[lock[s]] = s
             /\ rows'[s].hash = lock[s]
             /\ rows[s].hash = presented[lock[s]] \/ Raced(s)
             /\ result'[lock[s]] \in {"Ok", "GenerationError", "Crashed"}
  <2>1. /\ lock[s] \in D /\ op[lock[s]] = "refresh" /\ target[lock[s]] = s
        /\ rows'[s].hash = lock[s]
    BY <1>6, EndsRows DEF Sessions
  <2>2. lock[s] \in Calls /\ lock[s] \in E /\ pc[lock[s]] = "commit"
    BY <2>1 DEF Ends
  <2>3. result'[lock[s]] \in {"Ok", "GenerationError", "Crashed"}
    BY <2>2 DEF Ends
  <2> QED
    BY <2>1, <2>2, <2>3 DEF ChainsInv, ChainInv
<1>7. op[t] = "refresh" /\ pc'[t] \in {"rotate", "commit"} =>
          rows'[q].hash = presented[t] \/ Raced(q)
  <2> SUFFICES ASSUME op[t] = "refresh", pc'[t] \in {"rotate", "commit"},
                      rows'[q].hash # presented[t], ~Raced(q)
               PROVE  FALSE
    OBVIOUS
  <2>1. pc[t] \in {"rotate", "commit"} /\ t \notin E
    BY DEF Ends
  <2>2. rows[q].hash = presented[t] /\ q \in Sessions
    BY <1>4, <1>5, <2>1 DEF ChainInv, TokenInv, Owns
  <2>3. /\ presented[lock[q]] = presented[t]
        /\ op[lock[q]] = "refresh" /\ target[lock[q]] = q
        /\ lock[q] \in D /\ lock[q] \in Calls
    BY <1>6, <2>2
  <2>4. lock[q] # t
    BY <2>1, <2>3 DEF Ends
  <2> QED
    BY <1>5, <2>3, <2>4 DEF Raced
<1>8. t \in Issued' /\ rows'[q].hash # t => Raced(q) \/ Consumed(q, t)'
  <2> SUFFICES ASSUME t \in Issued', rows'[q].hash # t, ~Raced(q)
               PROVE  Consumed(q, t)'
    OBVIOUS
  <2>1. CASE t \in Issued
    <3>1. q \in Sessions
      BY <1>4, <1>5, <2>1 DEF TokenInv, Owns
    <3>2. CASE rows[q].hash # t
      BY <1>3, <1>4, <1>5, <2>1, <3>2 DEF ChainInv
    <3>3. CASE rows[q].hash = t
      <4>1. /\ lock[q] \in Calls /\ op[lock[q]] = "refresh"
            /\ target[lock[q]] = q /\ presented[lock[q]] = t
            /\ result'[lock[q]] \in {"Ok", "GenerationError", "Crashed"}
        BY <1>6, <3>1, <3>3
      <4> QED
        BY <1>1, <4>1 DEF Consumed
    <3> QED
      BY <3>2, <3>3
  <2>2. CASE t \notin Issued
    <3>1. t \in D /\ op[t] \in {"login", "refresh"} /\ pc[t] = "commit"
      BY <2>2, EndsKeep
    <3>2. CASE op[t] = "login"
      <4>1. lock[t] = t
        BY <1>4, <3>1, <3>2 DEF TokenInv
      <4>2. rows'[t].hash = t /\ q = t
        BY <1>5, <3>1, <3>2, <4>1, EndsRows
      <4> QED
        BY <4>2
    <3>3. CASE op[t] = "refresh"
      <4>1. lock[q] = t /\ q \in Sessions
        BY <1>4, <1>5, <3>1, <3>3 DEF TokenInv, Owns
      <4>2. rows'[q].hash = t
        BY <3>1, <3>3, <4>1, EndsRows DEF Sessions
      <4> QED
        BY <4>2
    <3> QED
      BY <3>1, <3>2, <3>3
  <2> QED
    BY <2>1, <2>2
<1> QED
  <2>1. pc'[t] \in {"rotate", "commit"} /\ op[t] = "refresh" =>
            rows'[q].hash = presented[t] \/ Raced(q)'
    BY <1>2, <1>7
  <2>2. t \in Issued' /\ rows'[q].hash # t => Raced(q)' \/ Consumed(q, t)'
    BY <1>2, <1>8
  <2> QED
    BY <1>1, <1>5, <2>1, <2>2 DEF ChainInv, Raced, Consumed

-----------------------------------------------------------------------------
(* Steps within a call.                                                    *)

(* t executes a statement, which takes at most the lock of a row that      *)
(* nobody holds, commits nothing and returns no tokens.                    *)
Works(t) ==
    /\ rows' = rows
    /\ pc[t] \notin {"commit", "done"}
    /\ result'[t] # "Ok"
    /\ op[t] = "refresh" /\ target[t] # NoRow =>
          op'[t] = op[t] /\ target'[t] = target[t] /\ presented'[t] = presented[t]
    /\ \A u \in Calls : u # t =>
          /\ op'[u] = op[u] /\ presented'[u] = presented[u] /\ pc'[u] = pc[u]
          /\ target'[u] = target[u] /\ user'[u] = user[u] /\ result'[u] = result[u]
    /\ \A s \in Calls :
          \/ lock'[s] = lock[s] /\ draft'[s] = draft[s]
          \/ lock'[s] = t /\ lock[s] = NoRow

(* Its step leaves the other calls, and what they have locked, alone.      *)
LEMMA WorksKeep ==
    ASSUME TypeOK, SessionsInv, NEW t \in Calls, Works(t)
    PROVE  /\ Issued' = Issued /\ t \notin Issued
           /\ \A s \in Calls : lock[s] # t
           /\ \A u \in Issued : u # t /\ pc[u] = "done" /\ u \in Calls
<1>1. CallInv(t)
  BY DEF SessionsInv
<1>2. t \notin Issued /\ t \notin Issued'
  BY <1>1 DEF CallInv, Issued, Works
<1>3. \A u \in Calls : u # t => (u \in Issued <=> u \in Issued')
  BY DEF Issued, Works
<1>4. Issued \subseteq Calls /\ Issued' \subseteq Calls
  BY DEF Issued
<1>5. Issued' = Issued
  BY <1>2, <1>3, <1>4
<1>6. \A s \in Calls : lock[s] # t
  BY SessionsAssumption DEF SessionsInv, LockInv, Works
<1>7. \A u \in Issued : u # t /\ pc[u] = "done" /\ u \in Calls
  BY <1>2, <1>4 DEF SessionsInv, CallInv, Issued
<1> QED
  BY <1>2, <1>5, <1>6, <1>7

(* The invariant of the other calls is kept, and that of every row and of  *)
(* every lock but the one that it may have taken.                          *)
LEMMA WorksOthers ==
    ASSUME TypeOK, SessionsInv, NEW t \in Calls, Works(t), NEW u \in Calls
    PROVE  /\ RowInv(u)'
           /\ lock'[u] # t => LockInv(u)'
           /\ u # t => CallInv(u)' /\ TokenInv(u)' /\ SpentInv(u)'
<1>1. CallInv(u) /\ TokenInv(u) /\ LockInv(u) /\ RowInv(u) /\ SpentInv(u)
  BY DEF SessionsInv
<1>2. rows' = rows /\ Sessions' = Sessions
  BY DEF Works, Sessions
<1>3. RowInv(u)'
  <2>1. CASE rows[u] = NoRow
    BY <1>2, <2>1 DEF RowInv
  <2>2. CASE rows[u] # NoRow
    <3>1. rows[u].hash \in Calls
      BY <2>2 DEF TypeOK, Row
    <3>2. u # t /\ rows[u].hash # t
      BY <1>1, <2>2 DEF RowInv, Works
    <3> QED
      BY <1>1, <1>2, <2>2, <3>1, <3>2 DEF RowInv, Works
  <2> QED
    BY <2>1, <2>2
<1>4. ASSUME lock'[u] # t
      PROVE  LockInv(u)'
  <2>1. lock'[u] = lock[u] /\ draft'[u] = draft[u] /\ lock[u] # t
    BY <1>4, WorksKeep DEF Works
  <2>2. CASE lock[u] = NoRow
    BY <2>1, <2>2 DEF LockInv
  <2>3. CASE lock[u] # NoRow
    <3>1. lock[u] \in Calls
      BY <2>3 DEF TypeOK
    <3> QED
      BY <1>1, <1>2, <2>1, <2>3, <3>1 DEF LockInv, Works
  <2> QED
    BY <2>2, <2>3
<1>5. ASSUME u # t
      PROVE  CallInv(u)' /\ TokenInv(u)' /\ SpentInv(u)'
  <2>1. /\ op'[u] = op[u] /\ presented'[u] = presented[u] /\ pc'[u] = pc[u]
        /\ target'[u] = target[u] /\ user'[u] = user[u] /\ result'[u] = result[u]
    BY <1>5 DEF Works
  <2>2. CallInv(u)'
    BY <1>1, <2>1, WorksKeep DEF CallInv
  <2>3. \A s \in Calls : lock[s] = u => lock'[s] = u
    BY SessionsAssumption DEF Works
  <2>4. Owns(u) /\ op[u] = "refresh" => target'[presented[u]] = target[presented[u]]
    BY <1>1, WorksKeep DEF CallInv, Works
  <2>5. Owns(u) => Owns(u)'
    BY <1>2, <2>1, <2>4 DEF Owns
  <2>6. TokenInv(u)'
    <3>1. u \in Issued' => Owns(u)'
      BY <1>1, <2>5, WorksKeep DEF TokenInv
    <3>2. op[u] = "refresh" /\ pc[u] = "commit" => lock'[target[u]] = u
      BY <1>1, <2>3 DEF TokenInv, Owns, Sessions
    <3> QED
      BY <1>1, <2>1, <2>3, <2>5, <3>1, <3>2 DEF TokenInv
  <2>7. SpentInv(u)'
    <3>1. \A s \in Sessions : lock[s] = u => lock'[s] = u
      BY <2>3 DEF Sessions
    <3> QED
      BY <1>1, <1>2, <2>1, <3>1, WorksKeep DEF SpentInv
  <2> QED
    BY <2>2, <2>6, <2>7
<1> QED
  BY <1>3, <1>4, <1>5

(* A race that has been stays one, and so does what has been consumed.     *)
LEMMA WorksHistory ==
    ASSUME TypeOK, SessionsInv, NEW t \in Calls, Works(t)
    PROVE  /\ \A s \in Calls : Raced(s) => Raced(s)'
           /\ \A s \in Calls : \A u \in Calls : Consumed(s, u) => Consumed(s, u)'
<1>1. ASSUME NEW u \in Calls, op[u] = "refresh", target[u] \in Calls
      PROVE  op'[u] = op[u] /\ target'[u] = target[u] /\ presented'[u] = presented[u]
  BY <1>1, SessionsAssumption DEF Works
<1>2. ASSUME NEW s \in Calls, Raced(s)
      PROVE  Raced(s)'
  BY <1>1, <1>2 DEF Raced
<1>3. ASSUME NEW s \in Calls, NEW w \in Calls, Consumed(s, w)
      PROVE  Consumed(s, w)'
  <2>1. PICK u \in Calls : /\ op[u] = "refresh" /\ target[u] = s /\ presented[u] = w
                          /\ result[u] \in {"Ok", "GenerationError", "Crashed"}
    BY <1>3 DEF Consumed
  <2>2. u # t
    BY <2>1 DEF Works, SessionsInv, CallInv
  <2>3. result'[u] = result[u]
    BY <2>2 DEF Works
  <2> QED
    BY <1>1, <2>1, <2>3 DEF Consumed
<1> QED
  BY <1>2, <1>3

(* So is the chain of the tokens, if the session of t fits its token.      *)
LEMMA WorksChain ==
    ASSUME TypeOK, SessionsInv, ChainsInv, NEW t \in Calls, Works(t),
           op'[t] = "refresh" /\ pc'[t] \in {"rotate", "commit"} =>
               rows[target'[t]].hash = presented'[t] \/ Raced(target[t])'
    PROVE  ChainsInv'
<1> SUFFICES ASSUME NEW u \in Calls
             PROVE  ChainInv(u)'
  BY DEF ChainsInv
<1>1. ChainInv(u) /\ rows' = rows
  BY DEF ChainsInv, Works
<1>2. CASE u = t
  BY <1>1, <1>2, WorksKeep DEF ChainInv
<1>3. CASE u # t
  <2>1. /\ op'[u] = op[u] /\ presented'[u] = presented[u] /\ pc'[u] = pc[u]
        /\ target'[u] = target[u] /\ Issued' = Issued
    BY <1>3, WorksKeep DEF Works
  <2>2. ASSUME (op[u] = "refresh" /\ pc[u] \in {"rotate", "commit"}) \/ u \in Issued
        PROVE  target[u] \in Calls
    BY <2>2 DEF SessionsInv, TokenInv, Owns, Sessions
  <2> QED
    BY <1>1, <2>1, <2>2, WorksHistory DEF ChainInv
<1> QED
  BY <1>2, <1>3

-----------------------------------------------------------------------------
(* The calls, step by step.                                                *)

(* Every variable keeps its type.                                          *)
LEMMA SessionsTypes ==
    ASSUME TypeOK, SessionsInv, [Next]_vars
    PROVE  TypeOK'
<1> USE SessionsAssumption DEF TypeOK
<1>1. ASSUME NEW t \in Calls, Login(t)
      PROVE  TypeOK'
  BY <1>1 DEF Login, Generate, Goto, Return
<1>2. ASSUME NEW t \in Calls, NEW h \in Issued, Refresh(t, h) \/ Logout(t, h)
      PROVE  TypeOK'
  <2>1. h \in Calls
    BY DEF Issued
  <2> QED
    BY <1>2, <2>1 DEF Refresh, Logout, Present, Goto
<1>3. ASSUME NEW t \in Calls, Step(t)
      PROVE  TypeOK'
  <2>1. CASE InsertSession(t)
    <3>1. NewRow(t) \in Row
      BY <2>1 DEF InsertSession, NewRow, Row, SessionsInv, CallInv
    <3> QED
      BY <2>1, <3>1 DEF InsertSession, Change, Goto
  <2>2. CASE SelectSession(t)
    <3>1. \A s \in WithHash(presented[t]) : s \in Calls /\ rows[s].user \in Users
      BY DEF WithHash, Sessions, Row
    <3>2. CASE target' = target /\ user' = user
      BY <2>2, <3>2 DEF SelectSession, Return, Goto
    <3>3. CASE \E s \in WithHash(presented[t]) : Found(t, s) /\ Goto(t, "rotate")
      BY <2>2, <3>1, <3>3 DEF SelectSession, Found, Goto
    <3> QED
      BY <2>2, <3>2, <3>3 DEF SelectSession
  <2>3. CASE RotateHash(t)
    <3>1. target[t] \in Calls /\ rows[target[t]] \in Row
      BY <2>3 DEF RotateHash, SessionsInv, CallInv, TokenInv, Owns, Sessions
    <3>2. [rows[target[t]] EXCEPT !.hash = t, !.used = now] \in Row
      BY <3>1 DEF Row
    <3> QED
      BY <2>3, <3>1, <3>2 DEF RotateHash, Change, Goto
  <2>4. CASE Revoke(t)
    <3>1. \A s \in WithHash(presented[t]) :
              s \in Calls /\ [rows[s] EXCEPT !.revoked = TRUE] \in Row
      <4>1. ASSUME NEW row \in Row
            PROVE  [row EXCEPT !.revoked = TRUE] \in Row
        BY DEF Row
      <4>2. \A s \in WithHash(presented[t]) : s \in Calls /\ rows[s] \in Row
        BY DEF WithHash, Sessions
      <4> QED
        BY <4>1, <4>2
    <3>2. CASE UNCHANGED <<target, draft, lock>>
      BY <2>4, <3>2 DEF Revoke, Goto
    <3>3. CASE \E s \in WithHash(presented[t]) :
                   Change(t, s, [rows[s] EXCEPT !.revoked = TRUE])
      <4>1. PICK s \in WithHash(presented[t]) :
                Change(t, s, [rows[s] EXCEPT !.revoked = TRUE])
        BY <3>3
      <4>2. s \in Calls /\ [rows[s] EXCEPT !.revoked = TRUE] \in Row
        BY <3>1
      <4>3. target' \in [Calls -> Calls \cup {NoRow}] /\ lock' \in [Calls -> Calls \cup {NoRow}]
            /\ draft' \in [Calls -> Row \cup {NoRow}]
        BY <4>1, <4>2 DEF Change
      <4> QED
        BY <2>4, <4>3 DEF Revoke, Goto
    <3> QED
      BY <2>4, <3>2, <3>3 DEF Revoke
  <2>5. CASE Commit(t)
    <3>1. \A s \in Calls : lock[s] = t => draft[s] \in Row
      BY DEF SessionsInv, LockInv
    <3> QED
      BY <2>5, <3>1 DEF Commit, Return, EndTransactions, Generate
  <2> QED
    BY <1>3, <2>1, <2>2, <2>3, <2>4, <2>5 DEF Step
<1>4. ASSUME NEW t \in Calls, CommitFails(t)
      PROVE  TypeOK'
  BY <1>4 DEF CommitFails, Return, EndTransactions
<1>5. ASSUME NEW t \in Calls, StatementFails(t)
      PROVE  TypeOK'
  BY <1>5 DEF StatementFails, Return
<1>6. CASE Crash
  BY <1>6 DEF Crash, EndTransactions
<1>7. CASE Tick
  BY <1>7 DEF Tick, callVars
<1>8. CASE UNCHANGED vars
  BY <1>8 DEF vars
<1> QED
  BY <1>1, <1>2, <1>3, <1>4, <1>5, <1>6, <1>7, <1>8 DEF Next

(* A step within a call keeps the invariant, if it keeps it of the call    *)
(* and of the lock that it takes.                                          *)
LEMMA WorksInv ==
    ASSUME TypeOK, SessionsInv, ChainsInv, NEW t \in Calls, Works(t),
           CallInv(t)', TokenInv(t)', SpentInv(t)',
           \A s \in Calls : lock'[s] = t => LockInv(s)',
           op'[t] = "refresh" /\ pc'[t] \in {"rotate", "commit"} =>
               rows[target'[t]].hash = presented'[t] \/ Raced(target[t])'
    PROVE  SessionsInv' /\ ChainsInv'
<1>1. ChainsInv'
  BY WorksChain
<1>2. SUFFICES ASSUME NEW u \in Calls
               PROVE  CallInv(u)' /\ TokenInv(u)' /\ LockInv(u)' /\ RowInv(u)' /\ SpentInv(u)'
  BY <1>1 DEF SessionsInv
<1> QED
  BY WorksOthers

(* Login begins: it has looked the user up and has no lock yet.            *)
LEMMA LoginStep ==
    ASSUME TypeOK, SessionsInv, ChainsInv, NEW t \in Calls, Login(t)
    PROVE  SessionsInv' /\ ChainsInv'
<1> USE DEF TypeOK
<1>1. Works(t)
  BY DEF Login, Goto, Return, Works, SessionsInv, CallInv
<1>2. op'[t] = "login" /\ pc'[t] \in {"insert", "done"} /\ t \notin Issued'
  BY <1>1, WorksKeep DEF Login, Goto, Return
<1>3. \A s \in Calls : lock'[s] # t
  BY <1>1, WorksKeep DEF Login
<1>4. CallInv(t)'
  BY DEF Login, Goto, Return, CallInv, SessionsInv
<1>5. TokenInv(t)' /\ SpentInv(t)'
  BY <1>2 DEF TokenInv, SpentInv
<1> QED
  BY <1>1, <1>2, <1>3, <1>4, <1>5, WorksInv

(* A refresh or a logout begins, with a token that was issued.             *)
LEMMA PresentStep ==
    ASSUME TypeOK, SessionsInv, ChainsInv, NEW t \in Calls, NEW h \in Issued,
           Refresh(t, h) \/ Logout(t, h)
    PROVE  SessionsInv' /\ ChainsInv'
<1> USE DEF TypeOK
<1>1. Works(t)
  BY DEF Refresh, Logout, Present, Goto, Works, SessionsInv, CallInv
<1>2. Issued' = Issued /\ t \notin Issued /\ \A s \in Calls : lock'[s] # t
  BY <1>1, WorksKeep DEF Refresh, Logout, Present
<1>3. /\ <<op'[t], pc'[t]>> \in {<<"refresh", "select">>, <<"logout", "revoke">>}
      /\ presented'[t] = h /\ result'[t] = "None" /\ target'[t] = NoRow
  <2>1. CASE Refresh(t, h)
    BY <2>1 DEF Refresh, Present, Goto, SessionsInv, CallInv
  <2>2. CASE Logout(t, h)
    BY <2>2 DEF Logout, Present, Goto, SessionsInv, CallInv
  <2> QED
    BY <2>1, <2>2
<1>4. CallInv(t)'
  BY <1>2, <1>3 DEF CallInv
<1>5. TokenInv(t)' /\ SpentInv(t)'
  BY <1>2, <1>3 DEF TokenInv, SpentInv
<1> QED
  BY <1>1, <1>2, <1>3, <1>4, <1>5, WorksInv

(* A statement fails, or the SELECT finds nothing: the call ends without a *)
(* lock.                                                                   *)
LEMMA RefusedStep ==
    ASSUME TypeOK, SessionsInv, ChainsInv, NEW t \in Calls, NEW r,
           pc[t] \in {"insert", "select", "rotate", "revoke"}, Return(t, r), r # "Ok",
           r # "None", UNCHANGED <<op, presented, target, user, rows, draft, lock>>
    PROVE  SessionsInv' /\ ChainsInv'
<1> USE DEF TypeOK
<1>1. Works(t)
  BY DEF Return, Works
<1>2. Issued' = Issued /\ t \notin Issued /\ \A s \in Calls : lock'[s] # t
  BY <1>1, WorksKeep
<1>3. pc'[t] = "done" /\ result'[t] # "Ok"
  BY DEF Return
<1>4. CallInv(t)'
  BY <1>2, <1>3 DEF CallInv, SessionsInv
<1>5. TokenInv(t)' /\ SpentInv(t)'
  BY <1>2, <1>3 DEF TokenInv, SpentInv
<1> QED
  BY <1>1, <1>2, <1>3, <1>4, <1>5, WorksInv

(* The SELECT finds the session: the token it was given is the one of that *)
(* session, for now.                                                       *)
LEMMA FoundStep ==
    ASSUME TypeOK, SessionsInv, ChainsInv, NEW t \in Calls, NEW s \in WithHash(presented[t]),
           pc[t] = "select", Found(t, s), Goto(t, "rotate"),
           UNCHANGED <<op, presented, rows, draft, lock>>
    PROVE  SessionsInv' /\ ChainsInv'
<1> USE DEF TypeOK
<1>1. op[t] = "refresh" /\ presented[t] \in Issued /\ result[t] = "None"
      /\ target[t] = NoRow
  BY DEF SessionsInv, CallInv
<1>2. Works(t)
  BY <1>1 DEF Goto, Found, Works
<1>3. Issued' = Issued /\ t \notin Issued /\ \A q \in Calls : lock'[q] # t
  BY <1>2, WorksKeep
<1>4. /\ pc'[t] = "rotate" /\ target'[t] = s /\ user'[t] = rows[s].user
      /\ s \in Sessions /\ s \in Calls /\ rows[s].hash = presented[t]
  BY DEF Goto, Found, WithHash, Sessions
<1>5. CallInv(t)'
  BY <1>1, <1>3, <1>4 DEF CallInv, Goto
<1>6. target'[presented[t]] = s
  <2>1. target[presented[t]] = s
    BY <1>4 DEF SessionsInv, RowInv, Sessions
  <2> QED
    BY <1>1, <1>2, <2>1, WorksKeep DEF Works
<1>7. Owns(t)'
  BY <1>4, <1>6 DEF Owns, Sessions
<1>8. TokenInv(t)' /\ SpentInv(t)'
  BY <1>1, <1>3, <1>4, <1>7 DEF TokenInv, SpentInv
<1> QED
  BY <1>2, <1>3, <1>4, <1>5, <1>8, WorksInv

(* The INSERT locks the new row, with the token of the login.              *)
LEMMA InsertStep ==
    ASSUME TypeOK, SessionsInv, ChainsInv, NEW t \in Calls, InsertSession(t)
    PROVE  SessionsInv' /\ ChainsInv'
<1> USE DEF TypeOK
<1>1. op[t] = "login" /\ user[t] \in Users /\ result[t] = "None" /\ pc[t] = "insert"
  BY DEF InsertSession, SessionsInv, CallInv
<1>2. Works(t)
  BY <1>1 DEF InsertSession, Change, Goto, Works
<1>3. Issued' = Issued /\ t \notin Issued /\ \A q \in Calls : lock[q] # t
  BY <1>2, WorksKeep
<1>4. /\ pc'[t] = "commit" /\ target'[t] = t /\ lock'[t] = t /\ draft'[t] = NewRow(t)
      /\ \A s \in Calls : lock'[s] = t => s = t
  BY <1>3 DEF InsertSession, Change, Goto
<1>5. CallInv(t)'
  BY <1>1, <1>3, <1>4 DEF CallInv, InsertSession, Goto
<1>6. TokenInv(t)' /\ SpentInv(t)'
  BY <1>1, <1>3, <1>4 DEF TokenInv, SpentInv, InsertSession
<1>7. LockInv(t)'
  <2>1. rows[t] = NoRow
    BY <1>1 DEF SessionsInv, RowInv
  <2>2. NewRow(t) \in Row /\ NewRow(t).user = user[t] /\ NewRow(t).hash = t
    BY <1>1, SessionsAssumption DEF NewRow, Row
  <2> QED
    BY <1>1, <1>4, <2>1, <2>2 DEF LockInv, InsertSession
<1> QED
  BY <1>1, <1>2, <1>4, <1>5, <1>6, <1>7, WorksInv DEF InsertSession

(* The UPDATE of a rotation locks the row that the SELECT found.           *)
LEMMA RotateStep ==
    ASSUME TypeOK, SessionsInv, ChainsInv, NEW t \in Calls, RotateHash(t)
    PROVE  SessionsInv' /\ ChainsInv'
<1> USE DEF TypeOK
<1> DEFINE s == target[t]
<1>1. op[t] = "refresh" /\ Owns(t) /\ result[t] = "None" /\ pc[t] = "rotate"
      /\ presented[t] \in Issued
  BY DEF RotateHash, SessionsInv, CallInv, TokenInv
<1>2. s \in Calls /\ rows[s] \in Row /\ rows[s] # NoRow
  BY <1>1 DEF Owns, Sessions
<1>3. Works(t)
  BY <1>1 DEF RotateHash, Change, Goto, Works
<1>4. Issued' = Issued /\ t \notin Issued /\ \A q \in Calls : lock[q] # t
  BY <1>3, WorksKeep
<1>5. /\ pc'[t] = "commit" /\ target' = target /\ lock'[s] = t
      /\ draft'[s] = [rows[s] EXCEPT !.hash = t, !.used = now]
      /\ \A q \in Calls : lock'[q] = t => q = s
  BY <1>2, <1>4 DEF RotateHash, Change, Goto
<1>6. CallInv(t)'
  BY <1>1, <1>4, <1>5 DEF CallInv, RotateHash, Goto
<1>7. Owns(t)'
  BY <1>1, <1>5 DEF Owns, RotateHash, Sessions
<1>8. TokenInv(t)' /\ SpentInv(t)'
  BY <1>1, <1>4, <1>5, <1>7 DEF TokenInv, SpentInv, RotateHash
<1>9. LockInv(s)'
  <2>1. /\ draft'[s] \in Row /\ draft'[s].user = rows[s].user
        /\ draft'[s].hash = t /\ draft'[s].revoked = rows[s].revoked
    BY <1>2, <1>5 DEF Row
  <2> QED
    BY <1>1, <1>2, <1>5, <2>1 DEF LockInv, RotateHash
<1>10. rows[s].hash = presented[t] \/ Raced(target[t])'
  <2>1. PICK q : q = s
    OBVIOUS
  <2>2. rows[s].hash = presented[t] \/ Raced(q)
    BY <1>1, <2>1 DEF ChainsInv, ChainInv
  <2>3. Raced(q) => Raced(q)'
    BY <1>2, <1>3, <2>1, WorksHistory
  <2> QED
    BY <1>5, <2>1, <2>2, <2>3 DEF Raced
<1> QED
  BY <1>1, <1>3, <1>5, <1>6, <1>8, <1>9, <1>10, WorksInv DEF RotateHash

(* The UPDATE of a revocation locks the row with the hash, if there is one. *)
LEMMA RevokeStep ==
    ASSUME TypeOK, SessionsInv, ChainsInv, NEW t \in Calls, Revoke(t)
    PROVE  SessionsInv' /\ ChainsInv'
<1> USE DEF TypeOK
<1>1. op[t] = "logout" /\ result[t] = "None" /\ pc[t] = "revoke"
      /\ presented[t] \in Issued
  BY DEF Revoke, SessionsInv, CallInv
<1>2. Works(t)
  BY <1>1 DEF Revoke, Change, Goto, Works
<1>3. Issued' = Issued /\ t \notin Issued /\ \A q \in Calls : lock[q] # t
  BY <1>2, WorksKeep
<1>4. pc'[t] = "commit" /\ UNCHANGED <<op, presented, user, rows, result>>
  BY DEF Revoke, Goto
<1>5. CallInv(t)'
  BY <1>1, <1>3, <1>4 DEF CallInv
<1>6. TokenInv(t)'
  BY <1>1, <1>3, <1>4 DEF TokenInv
<1>7. ASSUME NEW s \in WithHash(presented[t]),
             Change(t, s, [rows[s] EXCEPT !.revoked = TRUE])
      PROVE  /\ lock'[s] = t
             /\ \A q \in Calls : lock'[q] = t => q = s
             /\ LockInv(s)'
             /\ \A q \in Sessions : rows[q].hash = presented[t] => q = s
  <2>1. s \in Calls /\ rows[s] # NoRow /\ rows[s] \in Row /\ rows[s].hash = presented[t]
    BY DEF WithHash, Sessions
  <2>2. /\ lock'[s] = t /\ target'[t] = s
        /\ draft'[s] = [rows[s] EXCEPT !.revoked = TRUE]
        /\ \A q \in Calls : lock'[q] = t => q = s
    BY <1>3, <1>7, <2>1 DEF Change
  <2>3. /\ draft'[s] \in Row /\ draft'[s].user = rows[s].user
        /\ draft'[s].hash = rows[s].hash /\ draft'[s].used = rows[s].used
        /\ draft'[s].revoked
    BY <2>1, <2>2 DEF Row
  <2>4. LockInv(s)'
    BY <1>1, <1>4, <2>1, <2>2, <2>3 DEF LockInv
  <2>5. \A q \in Sessions : rows[q].hash = presented[t] => q = s
    BY <2>1 DEF SessionsInv, RowInv, Sessions
  <2> QED
    BY <2>2, <2>4, <2>5
<1>8. /\ \A q \in Calls : lock'[q] = t => LockInv(q)'
      /\ \A q \in Sessions : rows[q].hash = presented[t] => lock'[q] = t
  <2>1. CASE WithHash(presented[t]) = {} /\ lock' = lock
    BY <1>3, <2>1 DEF WithHash
  <2>2. CASE \E s \in WithHash(presented[t]) :
                 Change(t, s, [rows[s] EXCEPT !.revoked = TRUE])
    BY <1>7, <2>2
  <2> QED
    BY <2>1, <2>2 DEF Revoke
<1>9. SpentInv(t)'
  BY <1>1, <1>4, <1>8 DEF SpentInv, Sessions
<1> QED
  BY <1>1, <1>2, <1>4, <1>5, <1>6, <1>8, <1>9, WorksInv

(* A step in which calls end keeps the invariant.                          *)
LEMMA EndsInv ==
    ASSUME TypeOK, SessionsInv, ChainsInv, NEW E, NEW D, Ends(E, D)
    PROVE  SessionsInv' /\ ChainsInv'
BY EndsCalls, EndsRowsKept, EndsSpent, EndsChain DEF SessionsInv

(* So every step keeps it.                                                 *)
LEMMA SessionsStep ==
    ASSUME TypeOK, SessionsInv, ChainsInv, [Next]_vars
    PROVE  SessionsInv' /\ ChainsInv'
<1>1. ASSUME NEW t \in Calls, Login(t)
      PROVE  SessionsInv' /\ ChainsInv'
  BY <1>1, LoginStep
<1>2. ASSUME NEW t \in Calls, NEW h \in Issued, Refresh(t, h) \/ Logout(t, h)
      PROVE  SessionsInv' /\ ChainsInv'
  BY <1>2, PresentStep
<1>3. ASSUME NEW t \in Calls, SelectSession(t)
      PROVE  SessionsInv' /\ ChainsInv'
  <2>1. /\ pc[t] = "select" /\ pc[t] \in {"insert", "select", "rotate", "revoke"}
        /\ UNCHANGED <<op, presented, rows, draft, lock>>
    BY <1>3 DEF SelectSession
  <2>2. CASE \E s \in WithHash(presented[t]) : Found(t, s) /\ Goto(t, "rotate")
    BY <2>1, <2>2, FoundStep
  <2>3. CASE Return(t, "InvalidRefreshToken") /\ UNCHANGED <<target, user>>
    BY <2>1, <2>3, RefusedStep
  <2> QED
    BY <1>3, <2>2, <2>3 DEF SelectSession
<1>4. ASSUME NEW t \in Calls, StatementFails(t)
      PROVE  SessionsInv' /\ ChainsInv'
  <2> DEFINE r == IF pc[t] = "select" THEN "InvalidRefreshToken" ELSE "GenerationError"
  <2>1. /\ pc[t] \in {"insert", "select", "rotate", "revoke"}
        /\ Return(t, r) /\ r # "Ok" /\ r # "None"
        /\ UNCHANGED <<op, presented, target, user, rows, draft, lock>>
    BY <1>4 DEF StatementFails
  <2> QED
    BY <2>1, RefusedStep
<1>5. ASSUME NEW t \in Calls, Commit(t)
      PROVE  SessionsInv' /\ ChainsInv'
  <2>1. Ends({t}, {t})
    BY <1>5 DEF Commit, Return, EndTransactions, Ends, TypeOK
  <2> QED
    BY <2>1, EndsInv
<1>6. ASSUME NEW t \in Calls, CommitFails(t)
      PROVE  SessionsInv' /\ ChainsInv'
  <2>1. CASE EndTransactions({t}, {t})
    <3>1. Ends({t}, {t})
      BY <1>6, <2>1 DEF CommitFails, Return, EndTransactions, Ends, TypeOK
    <3> QED
      BY <3>1, EndsInv
  <2>2. CASE EndTransactions({t}, {})
    <3>1. Ends({t}, {})
      BY <1>6, <2>2 DEF CommitFails, Return, EndTransactions, Ends, TypeOK
    <3> QED
      BY <3>1, EndsInv
  <2> QED
    BY <1>6, <2>1, <2>2 DEF CommitFails
<1>7. CASE Crash
  <2> DEFINE E == {t \in Calls : pc[t] \notin {"idle", "done"}}
  <2>1. PICK D \in SUBSET {t \in E : pc[t] = "commit"} : EndTransactions(E, D)
    BY <1>7 DEF Crash
  <2>2. Ends(E, D)
    BY <1>7, <2>1 DEF Crash, EndTransactions, Ends, TypeOK
  <2> QED
    BY <2>2, EndsInv
<1>8. CASE Tick \/ UNCHANGED vars
  <2>1. UNCHANGED <<op, presented, pc, target, user, result, rows, draft, lock>>
    BY <1>8 DEF Tick, callVars, vars
  <2> QED
    BY <2>1
    DEF SessionsInv, ChainsInv, CallInv, TokenInv, LockInv, RowInv, SpentInv, ChainInv,
        Owns, Raced, Consumed, Issued, Sessions
<1> QED
  BY <1>1, <1>2, <1>3, <1>4, <1>5, <1>6, <1>7, <1>8, InsertStep, RotateStep, RevokeStep
  DEF Next, Step

(* It holds at the start, when nobody has logged in.                       *)
LEMMA SessionsInit ==
    ASSUME Init
    PROVE  TypeOK /\ SessionsInv /\ ChainsInv
BY SessionsAssumption
DEF Init, TypeOK, SessionsInv, ChainsInv, CallInv, TokenInv, LockInv, RowInv, SpentInv,
    ChainInv, Issued, Sessions

-----------------------------------------------------------------------------
(* What it is for.                                                         *)

(* Types, locks, rows and chains of tokens are as the invariant says in    *)
(* every reachable state.                                                  *)
THEOREM SessionsInductive == Spec => [](TypeOK /\ SessionsInv /\ ChainsInv)
<1>1. Init => TypeOK /\ SessionsInv /\ ChainsInv
  BY SessionsInit
<1>2. TypeOK /\ SessionsInv /\ ChainsInv /\ [Next]_vars
      => (TypeOK /\ SessionsInv /\ ChainsInv)'
  BY SessionsTypes, SessionsStep
<1> QED
  BY <1>1, <1>2, PTL DEF Spec

(* Every variable keeps its type.                                          *)
THEOREM SessionsTypeCorrect == Spec => []TypeOK
BY SessionsInductive, PTL

(* An access token acts for the user who logged in when its session was    *)
(* opened, for any number of users and races.                              *)
THEOREM ActsForOwnerTheorem == Spec => []ActsForOwner
<1>1. TypeOK /\ SessionsInv => ActsForOwner
  <2> SUFFICES ASSUME TypeOK, SessionsInv, NEW t \in Calls, AuthUser(t) # NoRow
               PROVE  /\ AuthUser(t) = user[target[t]]
                      /\ op[t] = "refresh" => AuthUser(t) = user[presented[t]]
    BY DEF ActsForOwner
  <2>1. t \in Issued /\ AuthUser(t) = user[t]
    BY DEF AuthUser
  <2>2. Owns(t) /\ user[t] = user[target[t]]
    BY <2>1 DEF SessionsInv, TokenInv, Owns, RowInv, Sessions
  <2>3. ASSUME op[t] = "refresh"
        PROVE  user[presented[t]] = user[t]
    <3>1. presented[t] \in Issued /\ presented[t] \in Calls
      BY <2>3 DEF SessionsInv, CallInv, Issued
    <3>2. Owns(presented[t])
      BY <3>1 DEF SessionsInv, TokenInv
    <3> QED
      BY <2>2, <2>3, <3>2 DEF Owns
  <2> QED
    BY <2>1, <2>2, <2>3
<1> QED
  BY <1>1, SessionsInductive, PTL

(* A client is locked out of a session that it did not end only when two   *)
(* refreshes of that session were let in by one token, or a refresh with   *)
(* its own latest token ended without telling it the successor: for any    *)
(* number of calls and sessions that race, fail at any statement and die.  *)
THEOREM LockedOutTheorem == Spec => []LockedOutOnlyByRaceOrLoss
<1>1. ChainsInv => LockedOutOnlyByRaceOrLoss
  <2> SUFFICES ASSUME ChainsInv, NEW s \in Sessions, NEW t \in Calls,
                      Answered(t, s), rows[s].hash # t, ~Raced(s),
                      \A u \in Calls :
                          op[u] = "refresh" /\ presented[u] = t => result[u] # "Ok"
               PROVE  LostAnswer(s, t)
    BY DEF LockedOutOnlyByRaceOrLoss
  <2>1. Consumed(s, t)
    BY DEF ChainsInv, ChainInv, Answered
  <2> QED
    BY <2>1 DEF Consumed, LostAnswer
<1> QED
  BY <1>1, SessionsInductive, PTL

(* A token that a completed refresh consumed, or that a completed logout   *)
(* was given, is never accepted again.                                     *)
THEOREM SpentTokenTheorem == Spec => SpentTokenIsDead
<1>1. ASSUME TypeOK, SessionsInv, [Next]_vars, NEW t \in Calls, NEW u \in Calls,
             Accepted(t), op[u] \in {"refresh", "logout"}, result[u] = "Ok",
             presented[u] = presented[t]
      PROVE  FALSE
  <2>1. \E s \in WithHash(presented[t]) : Valid(s)
    <3>1. SelectSession(t)
      <4> USE <1>1 DEF Accepted, TypeOK
      <4>1. ASSUME NEW v \in Calls, Login(v)
            PROVE  FALSE
        BY <4>1 DEF Login, Goto, Return
      <4>2. ASSUME NEW v \in Calls, NEW h \in Issued, Refresh(v, h) \/ Logout(v, h)
            PROVE  FALSE
        BY <4>2 DEF Refresh, Logout, Present, Goto
      <4>3. ASSUME NEW v \in Calls, \/ InsertSession(v) \/ RotateHash(v) \/ Revoke(v)
                                    \/ Commit(v) \/ CommitFails(v) \/ StatementFails(v)
            PROVE  FALSE
        BY <4>3 DEF InsertSession, RotateHash, Revoke, Commit, CommitFails,
                    StatementFails, Goto, Return
      <4>4. ASSUME NEW v \in Calls, SelectSession(v)
            PROVE  v = t
        BY <4>4 DEF SelectSession, Goto, Return
      <4>5. CASE Crash
        BY <4>5 DEF Crash
      <4>6. CASE Tick \/ UNCHANGED vars
        BY <4>6 DEF Tick, callVars, vars
      <4> QED
        BY <4>1, <4>2, <4>3, <4>4, <4>5, <4>6 DEF Next, Step
    <3>2. ~Return(t, "InvalidRefreshToken")
      BY <1>1 DEF Accepted, Return, TypeOK
    <3> QED
      BY <3>1, <3>2 DEF SelectSession
  <2>2. PICK s \in WithHash(presented[t]) : Valid(s)
    BY <2>1
  <2>3. s \in Sessions /\ rows[s].hash = presented[u] /\ ~rows[s].revoked
    BY <1>1, <2>2 DEF WithHash, Valid
  <2>4. CASE op[u] = "logout"
    BY <1>1, <2>3, <2>4 DEF SessionsInv, SpentInv
  <2>5. CASE op[u] = "refresh"
    <3>1. u \in Issued
      BY <1>1, <2>5 DEF Issued
    <3>2. Owns(u) /\ rows[target[u]].hash # presented[u]
      BY <1>1, <2>5, <3>1 DEF SessionsInv, TokenInv, SpentInv
    <3>3. target[presented[u]] = s
      BY <1>1, <2>3 DEF SessionsInv, RowInv, Sessions
    <3> QED
      BY <2>3, <2>5, <3>2, <3>3 DEF Owns
  <2> QED
    BY <1>1, <2>4, <2>5
<1>2. TypeOK /\ SessionsInv /\ [Next]_vars =>
        [\A t, u \in Calls :
            (/\ Accepted(t)
             /\ op[u] \in {"refresh", "logout"}
             /\ result[u] = "Ok")
            => presented[u] # presented[t]]_vars
  BY <1>1
<1> QED
  BY <1>2, SessionsInductive, PTL DEF Spec, SpentTokenIsDead

(* The rows change only when calls end, and access tokens only with them   *)
(* and when a user logs in.                                                *)
LEMMA EndsOrQuiet ==
    ASSUME TypeOK, SessionsInv, [Next]_vars
    PROVE  \/ rows' = rows /\ Issued' = Issued /\ \A t \in Issued : exp'[t] = exp[t]
           \/ \E E, D \in SUBSET Calls : Ends(E, D) /\ \A t \in Issued : exp'[t] = exp[t]
<1> USE SessionsAssumption DEF TypeOK
<1>1. \A t \in Issued : t \in Calls /\ pc[t] = "done"
  BY DEF Issued, SessionsInv, CallInv
<1>2. \A t \in Issued : exp'[t] = exp[t]
  <2>1. ASSUME NEW v \in Calls, exp' \in {exp, [exp EXCEPT ![v] = now + AccessLife]},
               pc[v] # "done"
        PROVE  \A t \in Issued : exp'[t] = exp[t]
    BY <1>1, <2>1
  <2> QED
    BY <1>1, <2>1
    DEF Next, Login, Refresh, Logout, Present, Step, InsertSession, SelectSession,
        RotateHash, Revoke, Commit, CommitFails, StatementFails, Crash, Tick, callVars,
        vars, Generate
<1>3. ASSUME rows' = rows, \A t \in Calls : result'[t] = "Ok" <=> result[t] = "Ok",
             \A t \in Calls : op'[t] # op[t] => result[t] # "Ok"
      PROVE  Issued' = Issued
  BY <1>3 DEF Issued
<1>4. ASSUME NEW v \in Calls,
             \/ Login(v) \/ InsertSession(v) \/ SelectSession(v) \/ RotateHash(v)
             \/ Revoke(v) \/ StatementFails(v)
             \/ \E h \in Issued : Refresh(v, h) \/ Logout(v, h)
      PROVE  rows' = rows /\ Issued' = Issued
  <2>1. result[v] = "None" /\ rows' = rows
    BY <1>4 DEF Login, InsertSession, SelectSession, RotateHash, Revoke, StatementFails,
                Refresh, Logout, Present, SessionsInv, CallInv
  <2>2. \A t \in Calls : t # v => result'[t] = result[t] /\ op'[t] = op[t]
    BY <1>4 DEF Login, InsertSession, SelectSession, RotateHash, Revoke, StatementFails,
                Refresh, Logout, Present, Goto, Return
  <2>3. result'[v] # "Ok"
    BY <1>4, <2>1 DEF Login, InsertSession, SelectSession, RotateHash, Revoke,
                      StatementFails, Refresh, Logout, Present, Goto, Return
  <2> QED
    BY <1>3, <2>1, <2>2, <2>3
<1>5. ASSUME NEW v \in Calls, Commit(v) \/ CommitFails(v)
      PROVE  \E E, D \in SUBSET Calls : Ends(E, D)
  <2>1. CASE EndTransactions({v}, {v})
    <3>1. Ends({v}, {v})
      BY <1>5, <2>1 DEF Commit, CommitFails, Return, EndTransactions, Ends
    <3> QED
      BY <3>1
  <2>2. CASE CommitFails(v) /\ EndTransactions({v}, {})
    <3>1. Ends({v}, {})
      BY <2>2 DEF CommitFails, Return, EndTransactions, Ends
    <3> QED
      BY <3>1
  <2> QED
    BY <1>5, <2>1, <2>2 DEF Commit, CommitFails
<1>6. CASE Crash
  <2> DEFINE E == {t \in Calls : pc[t] \notin {"idle", "done"}}
  <2>1. PICK D \in SUBSET {t \in E : pc[t] = "commit"} : EndTransactions(E, D)
    BY <1>6 DEF Crash
  <2>2. Ends(E, D) /\ D \in SUBSET Calls
    BY <1>6, <2>1 DEF Crash, EndTransactions, Ends
  <2> QED
    BY <1>2, <2>2
<1>7. CASE Tick \/ UNCHANGED vars
  BY <1>2, <1>7 DEF Tick, callVars, vars, Issued
<1> QED
  BY <1>2, <1>4, <1>5, <1>6, <1>7 DEF Next, Step

(* A session that is over stays over: nothing rotates, uses or restores    *)
(* it, and no access token is generated for it.                            *)
THEOREM SessionEndsTheorem == Spec => SessionEndsForGood
<1>1. ASSUME TypeOK, SessionsInv, TypeOK', [Next]_vars,
             NEW s \in Sessions, ~Valid(s), ~Rotating(s)
      PROVE  /\ ~Valid(s)' /\ ~Rotating(s)'
             /\ rows'[s].hash = rows[s].hash
             /\ rows'[s].used = rows[s].used
             /\ \A t \in Calls : Answered(t, s)' => Answered(t, s) /\ exp'[t] = exp[t]
  <2> USE <1>1, SessionsAssumption DEF TypeOK
  <2>1. s \in Calls /\ rows[s] \in Row /\ rows[s] # NoRow
    BY DEF Sessions
  <2>2. now \in Nat /\ now' \in Nat /\ now <= now'
    <3>1. now' = now \/ now' = now + 1
      BY DEF Next, Login, Refresh, Logout, Present, Step, InsertSession, SelectSession,
             RotateHash, Revoke, Commit, CommitFails, StatementFails, Crash, Tick, vars
    <3> QED
      BY <3>1
  <2>3. rows'[s] = rows[s] => ~Valid(s)'
    BY <2>1, <2>2 DEF Valid, Fresh, Row
  <2>4. ASSUME NEW t \in Calls, op[t] = "refresh", target[t] = s,
               pc[t] \in {"rotate", "commit"}
        PROVE  FALSE
    BY <2>4 DEF Rotating
  <2>5. ASSUME NEW t \in Calls, pc[t] = "commit", op[t] \in {"login", "refresh"},
               target[t] = s
        PROVE  FALSE
    <3>1. CASE op[t] = "login"
      BY <2>1, <2>5, <3>1 DEF SessionsInv, TokenInv, LockInv
    <3> QED
      BY <2>4, <2>5, <3>1
  <2>6. /\ rows'[s] = rows[s] \/ rows'[s].revoked
        /\ rows'[s].hash = rows[s].hash /\ rows'[s].used = rows[s].used
    <3>1. CASE rows' = rows
      BY <3>1
    <3>2. ASSUME NEW E, NEW D, Ends(E, D)
          PROVE  /\ rows'[s] = rows[s] \/ rows'[s].revoked
                 /\ rows'[s].hash = rows[s].hash /\ rows'[s].used = rows[s].used
      <4>1. lock[s] \in D => pc[lock[s]] = "commit" /\ lock[s] \in Calls
        BY <3>2 DEF Ends
      <4> QED
        BY <2>1, <2>5, <3>2, <4>1, EndsRows
    <3> QED
      BY <3>1, <3>2, EndsOrQuiet
  <2>7. ~Valid(s)'
    BY <2>3, <2>6 DEF Valid
  <2>8. ASSUME NEW t \in Calls, op'[t] = "refresh", target'[t] = s,
               pc'[t] \in {"rotate", "commit"}
        PROVE  FALSE
    <3> USE <2>8
    <3>1. ASSUME NEW v \in Calls, Login(v)
          PROVE  FALSE
      BY <2>4, <3>1 DEF Login, Goto, Return
    <3>2. ASSUME NEW v \in Calls, NEW h \in Issued, Refresh(v, h) \/ Logout(v, h)
          PROVE  FALSE
      BY <2>4, <3>2 DEF Refresh, Logout, Present, Goto
    <3>3. ASSUME NEW v \in Calls, InsertSession(v) \/ RotateHash(v) \/ Revoke(v)
          PROVE  FALSE
      <4>1. CASE v = t
        <5>1. CASE RotateHash(v)
          BY <2>4, <4>1, <5>1 DEF RotateHash, Change, SessionsInv, CallInv
        <5>2. CASE InsertSession(v) \/ Revoke(v)
          BY <4>1, <5>2 DEF InsertSession, Revoke, SessionsInv, CallInv
        <5> QED
          BY <3>3, <5>1, <5>2
      <4>2. CASE v # t
        BY <2>4, <3>3, <4>2 DEF InsertSession, RotateHash, Revoke, Change, Goto
      <4> QED
        BY <4>1, <4>2
    <3>4. ASSUME NEW v \in Calls, SelectSession(v)
          PROVE  FALSE
      <4>1. CASE v = t
        BY <3>4, <4>1 DEF SelectSession, Found, Return
      <4>2. CASE v # t
        BY <2>4, <3>4, <4>2 DEF SelectSession, Found, Goto, Return
      <4> QED
        BY <4>1, <4>2
    <3>5. ASSUME NEW v \in Calls, Commit(v) \/ CommitFails(v) \/ StatementFails(v)
          PROVE  FALSE
      BY <2>4, <3>5 DEF Commit, CommitFails, StatementFails, Return
    <3>6. CASE Crash
      BY <2>4, <3>6 DEF Crash
    <3>7. CASE Tick \/ UNCHANGED vars
      BY <2>4, <3>7 DEF Tick, callVars, vars
    <3> QED
      BY <3>1, <3>2, <3>3, <3>4, <3>5, <3>6, <3>7 DEF Next, Step
  <2>9. ASSUME NEW t \in Calls, Answered(t, s)'
        PROVE  Answered(t, s) /\ exp'[t] = exp[t]
    <3>1. t \in Issued' /\ target'[t] = s
      BY <2>9 DEF Answered
    <3>2. t \in Issued => Answered(t, s) /\ exp'[t] = exp[t]
      <4>1. ASSUME t \in Issued
            PROVE  target'[t] = target[t]
        <5>1. pc[t] = "done"
          BY <4>1 DEF Issued, SessionsInv, CallInv
        <5>3. ASSUME NEW v \in Calls, Step(v)
              PROVE  target'[t] = target[t]
          <6>1. v # t
            BY <5>1, <5>3 DEF Step, InsertSession, SelectSession, RotateHash, Revoke, Commit
          <6>2. CASE InsertSession(v) \/ RotateHash(v) \/ Revoke(v)
            BY <6>1, <6>2 DEF InsertSession, RotateHash, Revoke, Change
          <6>3. CASE SelectSession(v)
            BY <6>1, <6>3 DEF SelectSession, Found
          <6>4. CASE Commit(v)
            BY <6>4 DEF Commit
          <6> QED
            BY <5>3, <6>2, <6>3, <6>4 DEF Step
        <5>4. CASE target' = target
          BY <5>4
        <5> QED
          BY <5>3, <5>4
          DEF Next, Login, Refresh, Logout, Present, CommitFails, StatementFails, Crash,
              Tick, callVars, vars
      <4> QED
        BY <3>1, <4>1, EndsOrQuiet DEF Answered
    <3>3. ASSUME NEW E, NEW D, Ends(E, D)
          PROVE  t \in Issued
      <4>1. target[t] = s
        BY <3>1, <3>3 DEF Ends
      <4> QED
        BY <2>5, <3>1, <3>3, <4>1, EndsKeep
    <3> QED
      BY <3>1, <3>2, <3>3, EndsOrQuiet
  <2> QED
    BY <2>6, <2>7, <2>8, <2>9 DEF Rotating
<1>2. TypeOK /\ SessionsInv /\ TypeOK' /\ [Next]_vars =>
        [\A s \in Sessions : (~Valid(s) /\ ~Rotating(s)) =>
             /\ ~Valid(s)'
             /\ ~Rotating(s)'
             /\ rows'[s].hash = rows[s].hash
             /\ rows'[s].used = rows[s].used
             /\ \A t \in Calls : Answered(t, s)' => Answered(t, s) /\ exp'[t] = exp[t]]_vars
  BY <1>1
<1> QED
  BY <1>2, SessionsInductive, PTL DEF Spec, SessionEndsForGood
=============================================================================
