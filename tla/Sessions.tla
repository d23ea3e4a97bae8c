------------------------------ MODULE Sessions ------------------------------
(***************************************************************************)
(* AuthService and RefreshTokensRepository over the table refresh_tokens:  *)
(* login, refresh (rotation of the refresh token) and logout.              *)
(*                                                                         *)
(* Every call runs in the task of its HTTP request and executes its SQL    *)
(* statements one by one; statements of different calls interleave.  A     *)
(* query reads what is committed.  An UPDATE locks the row until its       *)
(* transaction ends, waits while another transaction holds it, and then    *)
(* takes the row as it finds it: rotation finds it by token_id, revocation *)
(* by token_hash.                                                          *)
(*                                                                         *)
(* A refresh token is 64 random characters, so no two calls generate the   *)
(* same one: it is represented by the call that generated it, and so is    *)
(* its hash.  A session (a row, one per login) is represented by the call  *)
(* of login that inserted it.  The clocks of the database and of the       *)
(* program are the counter now.                                            *)
(*                                                                         *)
(* An access token is signed, so clients cannot make one: it is            *)
(* represented by the call that generated it, its claims are the user and  *)
(* the expiry of that call.                                                *)
(***************************************************************************)
EXTENDS Integers, FiniteSets

CONSTANTS
    Calls,            \* the calls of login, refresh and logout
    Users,            \* the users who log in
    AccessLife,       \* access_token_duration_secs, 15 minutes in the code
    InactivityLimit,  \* 3 days in the code
    HardCap,          \* 30 days in the code
    MaxNow,           \* bound on the clock
    Faulty,           \* the calls that may fail
    NoRow             \* no row, and no call

Row == [user : Users, hash : Calls, created : 0..MaxNow, used : 0..MaxNow,
        revoked : BOOLEAN]

ASSUME SessionsAssumption ==
    /\ NoRow \notin Calls
    /\ NoRow \notin Row
    /\ InactivityLimit \in Nat
    /\ HardCap \in Nat
    /\ AccessLife \in Nat
    /\ NoRow \notin Users
    /\ MaxNow \in Nat
    /\ Faulty \subseteq Calls

VARIABLES
    now,        \* the clock of the database
    op,         \* op[t]: what the call is
    presented,  \* presented[t]: the refresh token in its request
    pc,         \* pc[t]: the statement it is about to execute
    target,     \* target[t]: the session it inserts, rotates or revokes
    user,       \* user[t]: who logged in, or whose session the SELECT found
    exp,        \* exp[t]: when the access token it generated expires
    result,     \* result[t]: what it returned
    rows,       \* rows[s]: the committed row of a session
    draft,      \* draft[s]: the row as the lock holder has changed it
    lock        \* lock[s]: the call whose transaction holds the row

callVars == <<op, presented, pc, target, user, exp, result>>
vars == <<now, op, presented, pc, target, user, exp, result, rows, draft, lock>>

TypeOK ==
    /\ now       \in 0..MaxNow
    /\ op        \in [Calls -> {"none", "login", "refresh", "logout"}]
    /\ presented \in [Calls -> Calls \cup {NoRow}]
    /\ pc        \in [Calls -> {"idle", "insert", "select", "rotate", "revoke",
                                "commit", "done"}]
    /\ target    \in [Calls -> Calls \cup {NoRow}]
    /\ user      \in [Calls -> Users \cup {NoRow}]
    /\ exp       \in [Calls -> 0..(MaxNow + AccessLife)]
    /\ result    \in [Calls -> {"None", "Ok", "InvalidRefreshToken",
                                "InvalidCredentials", "GenerationError",
                                "Crashed"}]
    /\ rows      \in [Calls -> Row \cup {NoRow}]
    /\ draft     \in [Calls -> Row \cup {NoRow}]
    /\ lock      \in [Calls -> Calls \cup {NoRow}]

Init ==
    /\ now       = 0
    /\ op        = [t \in Calls |-> "none"]
    /\ presented = [t \in Calls |-> NoRow]
    /\ pc        = [t \in Calls |-> "idle"]
    /\ target    = [t \in Calls |-> NoRow]
    /\ user      = [t \in Calls |-> NoRow]
    /\ exp       = [t \in Calls |-> 0]
    /\ result    = [t \in Calls |-> "None"]
    /\ rows      = [t \in Calls |-> NoRow]
    /\ draft     = [t \in Calls |-> NoRow]
    /\ lock      = [t \in Calls |-> NoRow]

-----------------------------------------------------------------------------
Sessions == {s \in Calls : rows[s] # NoRow}

(* The rows a WHERE token_hash = ... finds: at most one, the column is     *)
(* UNIQUE.                                                                 *)
WithHash(h) == {s \in Sessions : rows[s].hash = h}

(* The windows of the query: used within the last 3 days, created within   *)
(* the last 30.                                                            *)
Fresh(row) ==
    /\ row.used    >= now - InactivityLimit
    /\ row.created >= now - HardCap

(* SessionPolicy::validate, which states the same windows and is not       *)
(* called: Fresh is the check that is made (PolicyAgrees in SessionsProofs). *)
Validate(row) ==
    IF \/ now - row.used    > InactivityLimit
       \/ now - row.created > HardCap
    THEN "SessionExpired" ELSE "Ok"

(* Mutant: is_revoked is not asked for.                                    *)
ValidThoughRevoked(s) == Fresh(rows[s])

Valid(s) == ~rows[s].revoked /\ Fresh(rows[s])

(* The refresh tokens that a client has received.                          *)
Issued == {t \in Calls : op[t] \in {"login", "refresh"} /\ result[t] = "Ok"}

(* t locks the row of s and changes it to r.                               *)
Change(t, s, r) ==
    /\ lock[s] = NoRow
    /\ lock'   = [lock EXCEPT ![s] = t]
    /\ draft'  = [draft EXCEPT ![s] = r]
    /\ target' = [target EXCEPT ![t] = s]

Goto(t, step) ==
    /\ pc' = [pc EXCEPT ![t] = step]
    /\ UNCHANGED result

Return(t, r) ==
    /\ pc'     = [pc EXCEPT ![t] = "done"]
    /\ result' = [result EXCEPT ![t] = r]

(* The transactions of the calls in D become durable, those of the others  *)
(* in E are rolled back, and all their locks are released.                 *)
EndTransactions(E, D) ==
    /\ rows'  = [s \in Calls |-> IF lock[s] \in D THEN draft[s] ELSE rows[s]]
    /\ draft' = [s \in Calls |-> IF lock[s] \in E THEN NoRow ELSE draft[s]]
    /\ lock'  = [s \in Calls |-> IF lock[s] \in E THEN NoRow ELSE lock[s]]

-----------------------------------------------------------------------------
(* The calls.  Clients present refresh tokens they have received.          *)

(* AccessToken::generate.                                                  *)
Generate(t) == exp' = [exp EXCEPT ![t] = now + AccessLife]

(* find_by_user_name and the password check, which read users only, and    *)
(* the access token, generated before the session is inserted.             *)
Login(t) ==
    /\ pc[t] = "idle"
    /\ op' = [op EXCEPT ![t] = "login"]
    /\ \/ /\ \E u \in Users : user' = [user EXCEPT ![t] = u]
          /\ Generate(t)
          /\ Goto(t, "insert")
       \/ /\ Return(t, "InvalidCredentials")
          /\ UNCHANGED <<user, exp>>
    /\ UNCHANGED <<now, presented, target, rows, draft, lock>>

Present(t, h, o, step) ==
    /\ pc[t] = "idle"
    /\ op' = [op EXCEPT ![t] = o]
    /\ presented' = [presented EXCEPT ![t] = h]
    /\ Goto(t, step)
    /\ UNCHANGED <<now, target, user, exp, rows, draft, lock>>

Refresh(t, h) == Present(t, h, "refresh", "select")
Logout(t, h)  == Present(t, h, "logout", "revoke")

(* What create_token inserts, with the defaults of the table.              *)
NewRow(t) == [user |-> user[t], hash |-> t, created |-> now, used |-> now,
              revoked |-> FALSE]

(* create_token: the INSERT.                                               *)
InsertSession(t) ==
    /\ pc[t] = "insert"
    /\ Change(t, t, NewRow(t))
    /\ Goto(t, "commit")
    /\ UNCHANGED <<now, op, presented, user, exp, rows>>

(* The query returns token_id and user_id.                                 *)
Found(t, s) ==
    /\ target' = [target EXCEPT ![t] = s]
    /\ user'   = [user EXCEPT ![t] = rows[s].user]

(* Mutant: the query asks for the hash only.                               *)
SelectAnySession(t) ==
    /\ pc[t] = "select"
    /\ \E s \in WithHash(presented[t]) : Found(t, s)
    /\ Goto(t, "rotate")
    /\ UNCHANGED <<now, op, presented, exp, rows, draft, lock>>

(* Mutant: the query tells SessionExpired from InvalidRefreshToken.        *)
SelectSessionOrExpired(t) ==
    /\ pc[t] = "select"
    /\ \A s \in WithHash(presented[t]) : ~Fresh(rows[s])
    /\ Return(t, "SessionExpired")
    /\ UNCHANGED <<now, op, presented, target, user, exp, rows, draft, lock>>

(* Mutant: any session that is valid is taken.                             *)
SelectByValidity(t) ==
    /\ pc[t] = "select"
    /\ \E s \in {s \in Sessions : Valid(s)} : Found(t, s)
    /\ Goto(t, "rotate")
    /\ UNCHANGED <<now, op, presented, exp, rows, draft, lock>>

(* verify_and_rotate_token: the SELECT, which takes no lock.               *)
SelectSession(t) ==
    /\ pc[t] = "select"
    /\ LET found == {s \in WithHash(presented[t]) : Valid(s)} IN
       \/ \E s \in found : Found(t, s) /\ Goto(t, "rotate")
       \/ /\ found = {}
          /\ Return(t, "InvalidRefreshToken")
          /\ UNCHANGED <<target, user>>
    /\ UNCHANGED <<now, op, presented, exp, rows, draft, lock>>

(* Mutant: last_used_at is updated, the hash is not.                       *)
RotateNothing(t) ==
    /\ pc[t] = "rotate"
    /\ Change(t, target[t], [rows[target[t]] EXCEPT !.used = now])
    /\ Goto(t, "commit")
    /\ UNCHANGED <<now, op, presented, user, exp, rows>>

(* verify_and_rotate_token: the UPDATE of the row that the SELECT found.   *)
RotateHash(t) ==
    /\ pc[t] = "rotate"
    /\ LET s == target[t] IN
       Change(t, s, [rows[s] EXCEPT !.hash = t, !.used = now])
    /\ Goto(t, "commit")
    /\ UNCHANGED <<now, op, presented, user, exp, rows>>

(* revoke_token: the UPDATE of the row with the hash, if there is one.     *)
Revoke(t) ==
    /\ pc[t] = "revoke"
    /\ LET found == WithHash(presented[t]) IN
       \/ \E s \in found : Change(t, s, [rows[s] EXCEPT !.revoked = TRUE])
       \/ found = {} /\ UNCHANGED <<target, draft, lock>>
    /\ Goto(t, "commit")
    /\ UNCHANGED <<now, op, presented, user, exp, rows>>

(* A refresh generates its access token when the rotation is committed.    *)
Commit(t) ==
    /\ pc[t] = "commit"
    /\ Return(t, "Ok")
    /\ EndTransactions({t}, {t})
    /\ \/ op[t] = "refresh" /\ Generate(t)
       \/ op[t] # "refresh" /\ UNCHANGED exp
    /\ UNCHANGED <<now, op, presented, target, user>>

(* Mutant: the connection goes back with its transaction open.             *)
CommitFailsLocked(t) ==
    /\ pc[t] = "commit"
    /\ t \in Faulty
    /\ Return(t, "GenerationError")
    /\ UNCHANGED <<now, op, presented, target, user, exp, rows, draft, lock>>

(* Mutant: the result of commit() is dropped.                              *)
CommitFailsSilently(t) ==
    /\ pc[t] = "commit"
    /\ t \in Faulty
    /\ Return(t, "Ok")
    /\ EndTransactions({t}, {}) \/ EndTransactions({t}, {t})
    /\ UNCHANGED <<now, op, presented, target, user, exp>>

(* commit() fails, and the transaction may be durable all the same; so it  *)
(* is when generating the access token fails after the rotation.           *)
CommitFails(t) ==
    /\ pc[t] = "commit"
    /\ t \in Faulty
    /\ Return(t, "GenerationError")
    /\ EndTransactions({t}, {}) \/ EndTransactions({t}, {t})
    /\ UNCHANGED <<now, op, presented, target, user, exp>>

(* A statement or the pool fails.  The SELECT reports any error as an      *)
(* invalid token.                                                          *)
StatementFails(t) ==
    /\ pc[t] \in {"insert", "select", "rotate", "revoke"}
    /\ t \in Faulty
    /\ Return(t, IF pc[t] = "select" THEN "InvalidRefreshToken"
                                     ELSE "GenerationError")
    /\ UNCHANGED <<now, op, presented, target, user, exp, rows, draft, lock>>

(* The process dies; a COMMIT that was on its way may have arrived.        *)
Crash ==
    LET running == {t \in Calls : pc[t] \notin {"idle", "done"}} IN
    /\ Faulty # {}
    /\ running # {}
    /\ pc'     = [t \in Calls |-> IF t \in running THEN "done" ELSE pc[t]]
    /\ result' = [t \in Calls |-> IF t \in running THEN "Crashed" ELSE result[t]]
    /\ \E landed \in SUBSET {t \in running : pc[t] = "commit"} :
          EndTransactions(running, landed)
    /\ UNCHANGED <<now, op, presented, target, user, exp>>

Tick ==
    /\ now < MaxNow
    /\ now' = now + 1
    /\ UNCHANGED <<callVars, rows, draft, lock>>

Step(t) ==
    \/ InsertSession(t) \/ SelectSession(t) \/ RotateHash(t) \/ Revoke(t)
    \/ Commit(t)

Next ==
    \/ \E t \in Calls : \/ Login(t)
                        \/ \E h \in Issued : Refresh(t, h) \/ Logout(t, h)
                        \/ Step(t) \/ CommitFails(t) \/ StatementFails(t)
    \/ Crash
    \/ Tick

Spec == Init /\ [][Next]_vars

(* A call that has begun runs on; it cannot count on a failure to end it.  *)
(* Weak fairness is enough: the calls are finitely many, so the row that   *)
(* one waits for is free in the end and stays free.                        *)
FairSpec == Spec /\ \A t \in Calls : WF_vars(Step(t))

-----------------------------------------------------------------------------
(* What holds.                                                             *)

(* The step in which the SELECT of a refresh accepts its token.            *)
Accepted(t) == pc[t] = "select" /\ pc'[t] = "rotate"

(* A refresh token works once, races aside: when a refresh has returned    *)
(* Ok, no later query accepts the token that it consumed, and when a       *)
(* logout has returned Ok, no later query accepts the token it was given,  *)
(* whatever rotations and revocations overlapped, failed or crashed.       *)
SpentTokenIsDead ==
    [][\A t, u \in Calls :
         (/\ Accepted(t)
          /\ op[u] \in {"refresh", "logout"}
          /\ result[u] = "Ok")
         => presented[u] # presented[t]]_vars

(* The extractor AuthUser: the user that a request with the access token   *)
(* of t acts for, or NoRow if the token has expired.                       *)
AuthUser(t) == IF t \in Issued /\ exp[t] >= now THEN user[t] ELSE NoRow

(* An access token acts for the user who logged in when the session was    *)
(* opened, through every rotation and race: a refresh hands out the rights *)
(* of the token that it was given, and a session belongs to its login.     *)
ActsForOwner ==
    \A t \in Calls :
        AuthUser(t) # NoRow =>
            /\ AuthUser(t) = user[target[t]]
            /\ op[t] = "refresh" => AuthUser(t) = user[presented[t]]

(* A refresh whose SELECT has accepted the session and that has not ended. *)
Rotating(s) ==
    \E t \in Calls : /\ op[t] = "refresh"
                     /\ target[t] = s
                     /\ pc[t] \in {"rotate", "commit"}

(* t was answered with the tokens of session s.                            *)
Answered(t, s) == t \in Issued /\ target[t] = s

(* A session that has been revoked, or has left one of its two windows,    *)
(* is over: unless a rotation had selected it before, it is never rotated  *)
(* or used again, it is never restored, and no access token is generated   *)
(* for it, so that the last one expires AccessLife later.                  *)
SessionEndsForGood ==
    [][\A s \in Sessions : (~Valid(s) /\ ~Rotating(s)) =>
          /\ ~Valid(s)'
          /\ ~Rotating(s)'
          /\ rows'[s].hash = rows[s].hash
          /\ rows'[s].used = rows[s].used
          /\ \A t \in Calls : Answered(t, s)' => Answered(t, s) /\ exp'[t] = exp[t]]_vars

(* Two refreshes were let into session s by one and the same token.        *)
Raced(s) ==
    \E u, v \in Calls : /\ u # v
                        /\ op[u] = "refresh" /\ op[v] = "refresh"
                        /\ target[u] = s /\ target[v] = s
                        /\ presented[u] = presented[v]

(* A refresh was let into session s by token t and ended without tokens    *)
(* for its client, who cannot tell whether t has been consumed.            *)
LostAnswer(s, t) ==
    \E u \in Calls : /\ op[u] = "refresh" /\ target[u] = s
                    /\ presented[u] = t
                    /\ result[u] \in {"GenerationError", "Crashed"}

(* A client is locked out of a session that it did not end only by a race  *)
(* or a failure in that session: if the row has left the hash of a token t *)
(* that was returned for it, and no refresh has returned a successor of t, *)
(* then either two refreshes of this very session presented one token (the *)
(* later rotation overwrites the hash of the earlier one), or a refresh    *)
(* that presented t failed after its rotation was, perhaps, committed.     *)
LockedOutOnlyByRaceOrLoss ==
    \A s \in Sessions, t \in Calls :
        (/\ Answered(t, s)
         /\ rows[s].hash # t
         /\ \A u \in Calls : op[u] = "refresh" /\ presented[u] = t => result[u] # "Ok")
        => Raced(s) \/ LostAnswer(s, t)

(* Every call that has begun returns: no transaction that waits for a row  *)
(* waits for ever, and a failing one leaves no lock behind.                *)
CallsReturn ==
    \A t \in Calls : (pc[t] \notin {"idle", "done"}) ~> (pc[t] = "done")
=============================================================================
