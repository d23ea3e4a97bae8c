------------------------------- MODULE Ledger -------------------------------
(***************************************************************************)
(* TransactionsService and TransactionsRepository over the Oracle tables   *)
(* accounts and transactions, with the two BEFORE INSERT triggers.         *)
(*                                                                         *)
(* A task is one call of a TransactionsService method: the worker spawns   *)
(* one tokio task per delivered message, a read handler runs one per       *)
(* request, and the blocking part of each holds a pool connection of its   *)
(* own.  The steps of a task are its SQL statements, those of the triggers *)
(* of an INSERT included; statements of different tasks interleave freely. *)
(* The database runs at READ COMMITTED: a statement sees the rows          *)
(* committed when it starts and the rows of its own transaction.  No       *)
(* statement of the code takes a row lock (there is no SELECT ... FOR      *)
(* UPDATE), so no step waits, and nothing keeps what a trigger has read    *)
(* true until its row is stored.  No FOLLOWS orders the two triggers: they *)
(* run in either order.                                                    *)
(*                                                                         *)
(* The table transactions is the sequence rows, in the order in which the  *)
(* rows were stored.  A row belongs to the transaction of its task, and    *)
(* txn says whether that transaction is open, committed or rolled back;    *)
(* rows of a rolled back transaction stay in the sequence, invisible to    *)
(* every statement.  A hash is represented by what it is a hash of: the    *)
(* previous hash (NULL is the empty sequence) followed by the account, the *)
(* amount and the type of the row.  Neither id nor time goes into it, so   *)
(* different rows may have the same hash.                                  *)
(***************************************************************************)
EXTENDS Commands, Functions

CONSTANTS
    Tasks,       \* calls of the service
    FaultTasks   \* the tasks whose statements and commits may fail

ASSUME LedgerAssumption == FaultTasks \subseteq Tasks

VARIABLES
    cmd,     \* cmd[t]: the arguments of the call
    pc,      \* pc[t]: the statement the call is about to execute
    leg,     \* leg[t]: which of Postings(cmd[t]) it inserts next
    drawn,   \* drawn[t]: the transaction_id its INSERT has drawn
    head,    \* head[t]: the hash its chain trigger has read (v_prev_hash)
    snap,    \* snap[t]: the rows its last balance or statement query read
    txn,     \* txn[t]: the state of its database transaction
    result,  \* result[t]: what the call returned
    rows,    \* the table transactions
    nextId,  \* the identity sequence of transaction_id
    active   \* the accounts whose status is 'ACTIVE'

taskVars == <<cmd, pc, leg, drawn, head, snap, txn, result>>
vars == <<cmd, pc, leg, drawn, head, snap, txn, result, rows, nextId, active>>

(* SHA-256 taken to be free of collisions: a hash is its chain of postings. *)
Hash == Seq([account : Accounts, amount : Int, type : TransactionType])

Row == [id : Nat, task : Tasks, account : Accounts, amount : Int,
        type : TransactionType, prev : Hash]

(* While an INSERT is under way: "insert" before its triggers, "guarded"   *)
(* and "chained" after the first of them, "store" after both.              *)
Inserting == {"insert", "guarded", "chained", "store"}

Steps == {"lookup", "resolve", "check", "begin", "commit", "read", "done"}
            \cup Inserting

TypeOK ==
    /\ cmd    \in [Tasks -> Commands]
    /\ pc     \in [Tasks -> Steps]
    /\ leg    \in [Tasks -> 1..3]
    /\ drawn  \in [Tasks -> Nat]
    /\ head   \in [Tasks -> Hash]
    /\ snap   \in [Tasks -> SUBSET Nat]
    /\ txn    \in [Tasks -> {"open", "committed", "rolledback"}]
    /\ result \in [Tasks -> Results]
    /\ rows   \in Seq(Row)
    /\ nextId \in Nat \ {0}
    /\ active \subseteq Accounts

Init ==
    /\ cmd    \in [Tasks -> Commands]
    /\ pc     = [t \in Tasks |-> "lookup"]
    /\ leg    = [t \in Tasks |-> 1]
    /\ drawn  = [t \in Tasks |-> 0]
    /\ head   = [t \in Tasks |-> <<>>]
    /\ snap   = [t \in Tasks |-> {}]
    /\ txn    = [t \in Tasks |-> "open"]
    /\ result = [t \in Tasks |-> "None"]
    /\ rows   = <<>>
    /\ nextId = 1
    /\ active = Accounts

-----------------------------------------------------------------------------
(* What a query sees.                                                      *)

Committed == {i \in DOMAIN rows : txn[rows[i].task] = "committed"}

RowsOf(t) == {i \in DOMAIN rows : rows[i].task = t}

Visible(t) == Committed \cup (IF txn[t] = "open" THEN RowsOf(t) ELSE {})

OnAccount(S, a) == {i \in S : rows[i].account = a}

(* SELECT NVL(SUM(amount_cents), 0).                                       *)
Balance(S) == SumFunctionOnSet([i \in DOMAIN rows |-> rows[i].amount], S)

(* Mutant: ORDER BY without DESC.                                          *)
Oldest(S, n) ==
    {i \in S : Cardinality({j \in S : rows[j].id < rows[i].id}) < n}

(* ORDER BY transaction_id DESC FETCH FIRST n ROWS ONLY.                   *)
Newest(S, n) ==
    {i \in S : Cardinality({j \in S : rows[j].id > rows[i].id}) < n}

(* limit.clamp(1, 100).                                                    *)
Clamp(limit) == IF limit < 1 THEN 1 ELSE IF limit > 100 THEN 100 ELSE limit

(* current_hash of row i.                                                  *)
CurrentHash(i) ==
    Append(rows[i].prev, Posting(rows[i].account, rows[i].amount, rows[i].type))

(* The hash of the row of S with the largest transaction_id, or NULL when  *)
(* there is none.                                                          *)
LatestHash(S) ==
    IF S = {} THEN {<<>>}
    ELSE {CurrentHash(i) : i \in {i \in S : \A j \in S : rows[j].id <= rows[i].id}}

-----------------------------------------------------------------------------
(* How a step of a task ends.                                              *)

Goto(t, step) ==
    /\ pc' = [pc EXCEPT ![t] = step]
    /\ UNCHANGED <<txn, result>>

(* The call returns r, its transaction ending as x.                        *)
Finish(t, r, x) ==
    /\ pc'     = [pc EXCEPT ![t] = "done"]
    /\ result' = [result EXCEPT ![t] = r]
    /\ txn'    = [txn EXCEPT ![t] = x]

Reject(t, error) == Finish(t, error, "rolledback")

-----------------------------------------------------------------------------
(* The steps of a call.                                                    *)

(* find_account_by_id(from), the ownership check, and, except for the      *)
(* reads, the status check.                                                *)
LookupRefused(t) ==
    /\ pc[t] = "lookup"
    /\ LET c == cmd[t] IN
       \/ /\ c.from \notin Accounts
          /\ Reject(t, "AccountNotFound")
       \/ /\ c.from \in Accounts
          /\ Owner[c.from] # c.user
          /\ Reject(t, "UnauthorizedAccountAccess")
       \/ /\ c.from \in Accounts
          /\ Owner[c.from] = c.user
          /\ c.op \in MoneyOps
          /\ c.from \notin active
          /\ Reject(t, "AccountNotActive")
    /\ UNCHANGED <<cmd, leg, drawn, head, snap, rows, nextId, active>>

(* Mutant: the check of the owner forgotten (deposits and withdrawals).    *)
LookupAnyOwner(t) ==
    /\ pc[t] = "lookup"
    /\ cmd[t].from \in active
    /\ cmd[t].op \in {"deposit", "withdraw"}
    /\ Goto(t, IF cmd[t].op = "withdraw" THEN "check" ELSE "begin")
    /\ UNCHANGED <<cmd, leg, drawn, head, snap, rows, nextId, active>>

Lookup(t) ==
    /\ pc[t] = "lookup"
    /\ cmd[t].from \in Accounts
    /\ Owner[cmd[t].from] = cmd[t].user
    /\ cmd[t].op \in MoneyOps => cmd[t].from \in active
    /\ \/ cmd[t].op = "deposit"   /\ Goto(t, "begin")
       \/ cmd[t].op = "withdraw"  /\ Goto(t, "check")
       \/ cmd[t].op = "transfer"  /\ Goto(t, "resolve")
       \/ cmd[t].op \in ReadOps   /\ Goto(t, "read")
    /\ UNCHANGED <<cmd, leg, drawn, head, snap, rows, nextId, active>>

(* A transfer resolves its destination: find_account_by_number(to), the    *)
(* status check, and only then the check that it is another account.       *)
ResolveRefused(t) ==
    /\ pc[t] = "resolve"
    /\ \/ /\ cmd[t].to \notin Accounts
          /\ Reject(t, "AccountNotFound")
       \/ /\ cmd[t].to \in Accounts
          /\ cmd[t].to \notin active
          /\ Reject(t, "AccountNotActive")
       \/ /\ cmd[t].to \in active
          /\ cmd[t].to = cmd[t].from
          /\ Reject(t, "SelfTransferNotAllowed")
    /\ UNCHANGED <<cmd, leg, drawn, head, snap, rows, nextId, active>>

Resolve(t) ==
    /\ pc[t] = "resolve"
    /\ cmd[t].to \in active
    /\ cmd[t].to # cmd[t].from
    /\ Goto(t, "check")
    /\ UNCHANGED <<cmd, leg, drawn, head, snap, rows, nextId, active>>

(* Mutant: any positive balance will do.                                   *)
CheckBalanceNotEmpty(t) ==
    /\ pc[t] = "check"
    /\ snap' = [snap EXCEPT ![t] = OnAccount(Visible(t), cmd[t].from)]
    /\ IF Balance(snap'[t]) <= 0
       THEN Reject(t, "InsufficientFunds")
       ELSE Goto(t, "begin")
    /\ UNCHANGED <<cmd, leg, drawn, head, rows, nextId, active>>

(* withdraw and transfer compare the balance they read with the amount.    *)
CheckBalance(t) ==
    /\ pc[t] = "check"
    /\ snap' = [snap EXCEPT ![t] = OnAccount(Visible(t), cmd[t].from)]
    /\ IF Balance(snap'[t]) < cmd[t].amount
       THEN Reject(t, "InsufficientFunds")
       ELSE Goto(t, "begin")
    /\ UNCHANGED <<cmd, leg, drawn, head, rows, nextId, active>>

(* Mutant: the id is counted from the rows, not drawn from the sequence.   *)
BeginInsertCounting(t) ==
    /\ pc[t] = "begin"
    /\ drawn'  = [drawn EXCEPT ![t] = Len(rows) + 1]
    /\ nextId' = nextId + 1
    /\ Goto(t, "insert")
    /\ UNCHANGED <<cmd, leg, head, snap, rows, active>>

(* The INSERT draws its transaction_id before its triggers run.            *)
BeginInsert(t) ==
    /\ pc[t] = "begin"
    /\ drawn'  = [drawn EXCEPT ![t] = nextId]
    /\ nextId' = nextId + 1
    /\ Goto(t, "insert")
    /\ UNCHANGED <<cmd, leg, head, snap, rows, active>>

(* The posting the call is about to insert.                                *)
Due(t) == Postings(cmd[t])[leg[t]]

(* Mutant: the trigger's query without its WHERE account_id.               *)
ReadHashAnyAccount(t) ==
    /\ pc[t] \in {"insert", "guarded"}
    /\ \E h \in LatestHash(Visible(t)) : head' = [head EXCEPT ![t] = h]
    /\ Goto(t, IF pc[t] = "guarded" THEN "store" ELSE "chained")
    /\ UNCHANGED <<cmd, leg, drawn, snap, rows, nextId, active>>

(* The hash chain trigger reads the hash of the latest visible row of the  *)
(* account.                                                                *)
ReadHash(t) ==
    /\ pc[t] \in {"insert", "guarded"}
    /\ \E h \in LatestHash(OnAccount(Visible(t), Due(t).account)) :
          head' = [head EXCEPT ![t] = h]
    /\ Goto(t, IF pc[t] = "guarded" THEN "store" ELSE "chained")
    /\ UNCHANGED <<cmd, leg, drawn, snap, rows, nextId, active>>

(* Mutant: without the status guard trigger.                               *)
PassGuardAlways(t) ==
    /\ pc[t] \in {"insert", "chained"}
    /\ Goto(t, IF pc[t] = "chained" THEN "store" ELSE "guarded")
    /\ UNCHANGED <<cmd, leg, drawn, head, snap, rows, nextId, active>>

(* The status guard reads the status of the account and lets the row pass. *)
PassGuard(t) ==
    /\ pc[t] \in {"insert", "chained"}
    /\ Due(t).account \in active
    /\ Goto(t, IF pc[t] = "chained" THEN "store" ELSE "guarded")
    /\ UNCHANGED <<cmd, leg, drawn, head, snap, rows, nextId, active>>

(* The row is stored, whatever the status and the latest row have become   *)
(* since the triggers read them.  After the last posting comes the commit. *)
StoreRow(t) ==
    /\ pc[t] = "store"
    /\ rows' = Append(rows, [id      |-> drawn[t],
                             task    |-> t,
                             account |-> Due(t).account,
                             amount  |-> Due(t).amount,
                             type    |-> Due(t).type,
                             prev    |-> head[t]])
    /\ head' = [head EXCEPT ![t] = <<>>]
    /\ leg'  = [leg EXCEPT ![t] = @ + 1]
    /\ Goto(t, IF leg[t] = Legs(cmd[t]) THEN "commit" ELSE "begin")
    /\ UNCHANGED <<cmd, drawn, snap, nextId, active>>

(* Mutant: the error of the trigger is returned as it came.                *)
InsertRefusedRaw(t) ==
    /\ pc[t] \in {"insert", "chained"}
    /\ Due(t).account \notin active
    /\ Reject(t, "ORA-20001")
    /\ UNCHANGED <<cmd, leg, drawn, head, snap, rows, nextId, active>>

(* Mutant: the error of the second insert leaves the first one committed.  *)
InsertRefusedKept(t) ==
    /\ pc[t] \in {"insert", "chained"}
    /\ Due(t).account \notin active
    /\ Finish(t, "AccountNotActive", IF leg[t] = 1 THEN "rolledback" ELSE "committed")
    /\ UNCHANGED <<cmd, leg, drawn, head, snap, rows, nextId, active>>

(* The status guard raises ORA-20001; the caller rolls back.  deposit and  *)
(* withdraw return the typed error, transfer wraps it ("Debit failed",     *)
(* "Credit failed") in a DatabaseError.                                    *)
InsertRefused(t) ==
    /\ pc[t] \in {"insert", "chained"}
    /\ Due(t).account \notin active
    /\ Reject(t, IF cmd[t].op = "transfer" THEN "DatabaseError"
                                           ELSE "AccountNotActive")
    /\ UNCHANGED <<cmd, leg, drawn, head, snap, rows, nextId, active>>

(* Mutant: success is returned without a commit.                           *)
CommitForgotten(t) ==
    /\ pc[t] = "commit"
    /\ Finish(t, "Ok", "rolledback")
    /\ UNCHANGED <<cmd, leg, drawn, head, snap, rows, nextId, active>>

Commit(t) ==
    /\ pc[t] = "commit"
    /\ Finish(t, "Ok", "committed")
    /\ UNCHANGED <<cmd, leg, drawn, head, snap, rows, nextId, active>>

(* Mutant: the error of commit() is ignored.                               *)
CommitFailsSilently(t) ==
    /\ pc[t] = "commit"
    /\ t \in FaultTasks
    /\ \E x \in {"committed", "rolledback"} : Finish(t, "Ok", x)
    /\ UNCHANGED <<cmd, leg, drawn, head, snap, rows, nextId, active>>

(* commit() returns an error.  The transaction may nevertheless be         *)
(* durable, its acknowledgement lost with the connection.  transfer rolls  *)
(* back explicitly; deposit and withdraw leave that to the release of the  *)
(* connection.                                                             *)
CommitFails(t) ==
    /\ pc[t] = "commit"
    /\ t \in FaultTasks
    /\ \E x \in {"committed", "rolledback"} : Finish(t, "DatabaseError", x)
    /\ UNCHANGED <<cmd, leg, drawn, head, snap, rows, nextId, active>>

(* get_balance and get_statement.                                          *)
Read(t) ==
    /\ pc[t] = "read"
    /\ LET seen == OnAccount(Visible(t), cmd[t].from) IN
       snap' = [snap EXCEPT ![t] = IF cmd[t].op = "statement"
                                   THEN Newest(seen, Clamp(cmd[t].limit))
                                   ELSE seen]
    /\ Finish(t, "Ok", "rolledback")
    /\ UNCHANGED <<cmd, leg, drawn, head, rows, nextId, active>>

(* Mutant: the transaction is committed on the way out (auto-commit).      *)
StatementFailsAutoCommit(t) ==
    /\ pc[t] \notin {"commit", "done"}
    /\ t \in FaultTasks
    /\ Finish(t, "DatabaseError", "committed")
    /\ UNCHANGED <<cmd, leg, drawn, head, snap, rows, nextId, active>>

(* Acquiring a connection, a statement or the parsing of its rows fails:   *)
(* every path returns DatabaseError with the transaction rolled back.      *)
StatementFails(t) ==
    /\ pc[t] \notin {"commit", "done"}
    /\ t \in FaultTasks
    /\ Reject(t, "DatabaseError")
    /\ UNCHANGED <<cmd, leg, drawn, head, snap, rows, nextId, active>>

Step(t) ==
    \/ LookupRefused(t)  \/ Lookup(t)
    \/ ResolveRefused(t) \/ Resolve(t)
    \/ CheckBalance(t)
    \/ BeginInsert(t)    \/ ReadHash(t) \/ PassGuard(t) \/ StoreRow(t)
    \/ InsertRefused(t)
    \/ Commit(t)         \/ CommitFails(t)
    \/ Read(t)
    \/ StatementFails(t)

-----------------------------------------------------------------------------
(* The environment.                                                        *)

(* The status of an account is changed by SQL from outside the program.    *)
SetStatus(a) ==
    /\ active' = IF a \in active THEN active \ {a} ELSE active \cup {a}
    /\ UNCHANGED <<taskVars, rows, nextId>>

(* The process dies: every call under way ends without a result and the    *)
(* database rolls its transaction back, unless the commit it had just sent *)
(* reached the database (the calls in landed).                             *)
Crash ==
    LET running == {t \in Tasks : pc[t] \notin {"lookup", "done"}} IN
    /\ running # {}
    /\ \E landed \in SUBSET {t \in running : pc[t] = "commit"} :
          txn' = [t \in Tasks |-> IF t \in landed THEN "committed"
                                 ELSE IF t \in running THEN "rolledback"
                                 ELSE txn[t]]
    /\ pc'     = [t \in Tasks |-> IF t \in running THEN "done" ELSE pc[t]]
    /\ result' = [t \in Tasks |-> IF t \in running THEN "Crashed" ELSE result[t]]
    /\ UNCHANGED <<cmd, leg, drawn, head, snap, rows, nextId, active>>

Next ==
    \/ \E t \in Tasks : Step(t)
    \/ \E a \in Accounts : SetStatus(a)
    \/ Crash

Spec == Init /\ [][Next]_vars

-----------------------------------------------------------------------------
(* What holds.                                                             *)

(* Two rows of one call, of opposite amounts on two accounts.              *)
Mirrors(i, j) ==
    /\ rows[i].task = rows[j].task
    /\ rows[i].amount = -rows[j].amount
    /\ rows[i].account # rows[j].account

(* A transfer is in the ledger with both of its rows or not at all: every  *)
(* committed TRANSFER_OUT has a committed TRANSFER_IN of the same call for *)
(* the opposite amount on another account, and conversely, whichever of    *)
(* the two inserts or the commit fails.                                    *)
TransferAtomic ==
    /\ \A i \in Committed : rows[i].type = "TRANSFER_OUT" =>
          \E j \in Committed : rows[j].type = "TRANSFER_IN" /\ Mirrors(i, j)
    /\ \A i \in Committed : rows[i].type = "TRANSFER_IN" =>
          \E j \in Committed : rows[j].type = "TRANSFER_OUT" /\ Mirrors(i, j)

(* Money leaves an account only by a call its owner made: the ownership    *)
(* check of the service guards every debit that reaches the ledger.        *)
DebitsAreOwned ==
    \A i \in Committed : rows[i].amount < 0 =>
        cmd[rows[i].task].user = Owner[rows[i].account]

(* The hash chain leads back into the ledger: previous_hash is NULL or the *)
(* current_hash of a row of the same account that was stored earlier and   *)
(* is committed, although other rows are stored, committed and rolled back *)
(* after the trigger has read it.  (A hash need not belong to one row      *)
(* only, and the chain is not the linear one the comments describe.)       *)
ChainIsGrounded ==
    \A i \in DOMAIN rows : rows[i].prev # <<>> =>
        \E j \in OnAccount(Committed, rows[i].account) :
            j < i /\ rows[i].prev = CurrentHash(j)

DebitRows(a) == {i \in OnAccount(Committed, a) : rows[i].amount < 0}

(* The balance check is sound up to write skew: an account is overdrawn    *)
(* only if two debits of it committed of which neither saw the other in    *)
(* the balance it read.  In particular debits that do not overlap never    *)
(* overdraw.                                                               *)
OverdraftOnlyByWriteSkew ==
    \A a \in Accounts : Balance(OnAccount(Committed, a)) < 0 =>
        \E i, j \in DebitRows(a) :
            /\ i # j
            /\ i \notin snap[rows[j].task]
            /\ j \notin snap[rows[i].task]

(* The step of t, when it is a query, sees the rows of the call u that had *)
(* returned Ok, or gives as many rows as it may, all newer than those.     *)
SeesAcknowledged(t, u) ==
    (/\ pc[t] \in {"check", "read"}
     /\ snap'[t] # snap[t] \/ result'[t] \in {"Ok", "InsufficientFunds"}
     /\ pc'[t] # pc[t]
     /\ result[u] = "Ok")
    => \A i \in OnAccount(RowsOf(u), cmd[t].from) :
          \/ i \in snap'[t]
          \/ /\ cmd[t].op = "statement"
             /\ Cardinality(snap'[t]) = Clamp(cmd[t].limit)
             /\ \A j \in snap'[t] : rows[j].id > rows[i].id

(* A query that runs after a call has returned Ok sees the rows of that    *)
(* call: a balance check, a get_balance, or a get_statement, which may     *)
(* drop them only in favour of newer rows.                                 *)
AcknowledgedIsVisible == [][\A t, u \in Tasks : SeesAcknowledged(t, u)]_vars

Pending(a) == {i \in OnAccount(DOMAIN rows, a) : txn[rows[i].task] = "open"}

(* The calls with an INSERT under way that has passed the guard.           *)
PastGuard(a) ==
    {t \in Tasks : pc[t] \in {"guarded", "store"} /\ Due(t).account = a}

FrozenUnchanged(a) ==
    (Pending(a) = {} /\ PastGuard(a) = {} /\ a \notin active /\ a \notin active')
    => /\ Pending(a)' = {}
       /\ PastGuard(a)' = {}
       /\ OnAccount(Committed, a)' = OnAccount(Committed, a)

(* A change of status takes effect on all but the calls it met halfway:    *)
(* once an account is not ACTIVE, no call has an uncommitted row on it and *)
(* no INSERT on it is past the guard's query, its ledger stays as it is    *)
(* and neither appears for as long as the account is not ACTIVE, even for  *)
(* the calls whose status check in the service passed earlier.             *)
FreezeTakesEffect == [][\A a \in Accounts : FrozenUnchanged(a)]_vars

-----------------------------------------------------------------------------
(* Why it holds: the bookkeeping of a call, as an inductive invariant.     *)

(* Where a call stands determines what it has inserted so far and what it  *)
(* has checked.                                                            *)
Progress(t) ==
    /\ pc[t] \in {"lookup", "resolve", "check", "read"} => leg[t] = 1
    /\ pc[t] = "resolve" => cmd[t].op = "transfer"
    /\ pc[t] = "check" => Debits(cmd[t])
    /\ pc[t] \in {"begin"} \cup Inserting => leg[t] <= Legs(cmd[t])
    /\ pc[t] = "commit" => leg[t] = Legs(cmd[t]) + 1
    /\ pc[t] \in {"begin", "commit"} \cup Inserting => cmd[t].op \in MoneyOps
    /\ pc[t] \in {"guarded", "store"} => Due(t).account \in Accounts
    /\ leg[t] <= Legs(cmd[t]) + 1
    /\ pc[t] # "done" <=> txn[t] = "open"
    /\ txn[t] = "committed" => leg[t] = Legs(cmd[t]) + 1

CallProgress == \A t \in Tasks : Progress(t)

(* A call that went past its checks, or has inserted a row, was made by    *)
(* the owner of its source account, and a transfer has two accounts.       *)
Checked(t) ==
    /\ (pc[t] \notin {"lookup", "done"} \/ leg[t] > 1) =>
          /\ cmd[t].from \in Accounts
          /\ cmd[t].user = Owner[cmd[t].from]
    /\ (pc[t] \in {"check", "begin", "commit"} \cup Inserting \/ leg[t] > 1) =>
          (cmd[t].op = "transfer" => cmd[t].to # cmd[t].from)

CallChecked == \A t \in Tasks : Checked(t)

(* What a call has returned is an answer of its operation, and says how    *)
(* its transaction ended.                                                  *)
Answered(t) ==
    /\ pc[t] = "read" => cmd[t].op \in ReadOps
    /\ pc[t] # "done" => result[t] = "None"
    /\ result[t] \in ServiceRefusals(cmd[t].op)
                        \cup {"None", "Ok", "DatabaseError", "Crashed"}
    /\ result[t] = "Ok" /\ cmd[t].op \in MoneyOps => txn[t] = "committed"
    /\ result[t] \in BusinessErrors => txn[t] = "rolledback"

CallAnswered == \A t \in Tasks : Answered(t)

(* The rows of a call are its postings below leg, each recorded.           *)
Records(i, t, k) ==
    /\ rows[i].task    = t
    /\ rows[i].account = Postings(cmd[t])[k].account
    /\ rows[i].amount  = Postings(cmd[t])[k].amount
    /\ rows[i].type    = Postings(cmd[t])[k].type

RowsArePostings ==
    /\ \A i \in DOMAIN rows :
          \E k \in 1..(leg[rows[i].task] - 1) : Records(i, rows[i].task, k)
    /\ \A t \in Tasks : \A k \in 1..(leg[t] - 1) :
          \E i \in DOMAIN rows : Records(i, t, k)

(* The hash a chain trigger has read is NULL or that of a committed row.   *)
HeadsGrounded ==
    \A t \in Tasks : pc[t] \in {"chained", "store"} /\ head[t] # <<>> =>
        \E j \in OnAccount(Committed, Due(t).account) : head[t] = CurrentHash(j)

(* The inductive invariant: every call has inserted, checked, recorded and *)
(* answered what its program counter says, and the chain is grounded.      *)
LedgerInv ==
    /\ CallProgress /\ CallChecked /\ CallAnswered /\ RowsArePostings
    /\ HeadsGrounded /\ ChainIsGrounded

(* No posting of a call is in the table twice: its rows differ in type.    *)
RowsOnce ==
    \A i, j \in DOMAIN rows :
        (rows[i].task = rows[j].task /\ rows[i].type = rows[j].type) => i = j

(* The identity sequence gives every row an id of its own, also when the   *)
(* rows are stored in another order than their ids were drawn in.          *)
IdsFresh ==
    /\ \A i \in DOMAIN rows : rows[i].id < nextId
    /\ \A i, j \in DOMAIN rows : rows[i].id = rows[j].id => i = j
    /\ \A t \in Tasks : pc[t] \in Inserting =>
          /\ drawn[t] < nextId
          /\ \A i \in DOMAIN rows : rows[i].id # drawn[t]
          /\ \A u \in Tasks : pc[u] \in Inserting /\ drawn[u] = drawn[t] => u = t

(* A debit past its balance check has read committed rows of its account   *)
(* that cover the amount, all of them stored before its own.               *)
FundsSeen(t) ==
    (Debits(cmd[t]) /\ (pc[t] \in {"begin", "commit"} \cup Inserting \/ leg[t] > 1))
    => /\ snap[t] \subseteq OnAccount(Committed, cmd[t].from)
       /\ Balance(snap[t]) >= cmd[t].amount
       /\ \A i \in snap[t], j \in RowsOf(t) : i < j

(* The books: what the sums over the ledger rest on, inductive together    *)
(* with LedgerInv.                                                         *)
BooksInv ==
    /\ RowsOnce
    /\ IdsFresh
    /\ \A t \in Tasks : FundsSeen(t)
    /\ \A t \in Tasks : txn[t] = "committed" => cmd[t].op \in MoneyOps

(* What the workers rely on, and Delivery assumes: a call refuses only     *)
(* with the business errors of its operation, and its answer is true.  A   *)
(* money operation that returned Ok has every one of its postings in the   *)
(* ledger; one that was refused, even after its first insert, has none.    *)
ServicePromise ==
    \A t \in Tasks : result[t] # "None" =>
        /\ result[t] \in ServiceRefusals(cmd[t].op)
                            \cup {"Ok", "DatabaseError", "Crashed"}
        /\ result[t] = "Ok" /\ cmd[t].op \in MoneyOps =>
              \A k \in 1..Legs(cmd[t]) : \E i \in Committed : Records(i, t, k)
        /\ result[t] \in BusinessErrors => RowsOf(t) \intersect Committed = {}

-----------------------------------------------------------------------------
(* The service implements its contract: whatever the interleaving of the   *)
(* SQL statements, the failures and the crashes, its calls look like the   *)
(* single steps of LedgerContract, in which a call is performed when its   *)
(* transaction commits.                                                    *)
Contract == INSTANCE LedgerContract WITH
    request   <- cmd,
    performed <- {t \in Tasks : txn[t] = "committed"},
    reply     <- result

ImplementsContract == Contract!Spec

(* Transfers create and destroy no money: the sum over the whole ledger is *)
(* what the committed deposits brought in less what the committed          *)
(* withdrawals took out, and the balance that the committed rows of an     *)
(* account add up to is the one of the contract, whatever the              *)
(* interleaving, the failed commits and the crashes.                       *)
MoneyConserved ==
    /\ Balance(Committed) =
          SumFunctionOnSet([t \in Tasks |-> External(cmd[t])],
                           {t \in Tasks : txn[t] = "committed"})
    /\ \A x \in Accounts :
          Balance(OnAccount(Committed, x)) = Contract!BalanceOf(x)

-----------------------------------------------------------------------------
(* What the repository says and the code does not do.                      *)

(* test_banking_flow.rs:351 "must return InsufficientFunds when balance is *)
(* too low": no account is ever overdrawn.                                 *)
NoOverdraft ==
    \A a \in Accounts : Balance(OnAccount(Committed, a)) >= 0

(* 003_transactions.sql:8 "hash of the PRIOR transaction row (NULL for the *)
(* first one)": no two rows of an account have the same previous_hash.     *)
ChainIsLinear ==
    \A i, j \in Committed :
        (rows[i].account = rows[j].account /\ rows[i].prev = rows[j].prev)
        => i = j

(* test_banking_flow.rs:730 "blocks transactions on non-ACTIVE accounts":  *)
(* no transaction is committed on an account that is not ACTIVE.           *)
NoCommitOnInactive ==
    [][\A i \in DOMAIN rows :
         (i \notin Committed /\ i \in Committed') => rows[i].account \in active]_vars

(* worker.rs:38-41 tells business errors (acknowledged) from transient     *)
(* database errors (retried) by the error: a call none of whose statements *)
(* fails does not return a DatabaseError.                                  *)
DatabaseErrorIsTransient ==
    \A t \in Tasks : result[t] = "DatabaseError" => t \in FaultTasks
=============================================================================
