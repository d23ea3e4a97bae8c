# TLA+ models of Rc-Bank

Specifications, model-checking configurations and proofs for the bank in this
repository: an HTTP server (axum) that publishes commands to NATS JetStream,
worker tasks that execute them against Oracle, and two triggers that chain and
guard the rows of the ledger.  Paths below are relative to `src/`.

## 1. The system

| part | code | state | operations |
|---|---|---|---|
| write handlers | `crates/bank_api/src/handlers/transactions.rs`, `accounts.rs` | one inbox subscription per request | deposit, withdraw, transfer, create_account: validate, publish, wait 5 s for a reply |
| read handlers | the same | none | get_balance, get_statement call the service directly |
| streams, consumers | `nats.rs`, `worker.rs` `make_pull_consumer` | stored messages, delivery counts | store, deliver, ack, NAK, terminate, ack_wait 30 s, max_deliver 5 |
| workers | `worker.rs` | one spawned task per delivery | parse, check the amount, call the service, reply, acknowledge |
| TransactionsService | `services/transactions_service.rs` | none | deposit, withdraw, transfer, get_balance, get_statement |
| TransactionsRepository | `crates/bank_db/src/transactions_repo.rs` | a pool connection per call | the SQL statements and transactions of those |
| tables and triggers | `database/migrations` | accounts, transactions, refresh_tokens, users | status guard (007), hash chain (006) |
| AuthService, RefreshTokensRepository | `services/auth_service.rs`, `refresh_tokens_repo.rs` | refresh_tokens | login, refresh (rotation), logout |
| AccountsService/Repository, UsersService/Repository | `services/`, `bank_db` | accounts, users | create_account, create_user |
| domain types | `crates/bank_domain` | none | Amount, Status, SessionPolicy, tokens, validation |

A write request travels handler -> stream -> worker task -> service ->
repository -> Oracle, and its reply comes back through the inbox; the handler
and the worker share nothing else, and no part remembers a correlation id.
Calls of the service run concurrently, each blocking part on a connection of
its own, at READ COMMITTED and without `SELECT ... FOR UPDATE`.

What is hard in this code: the gap between a check (balance, status, session)
and the write it justifies; what the hash chain trigger sees of concurrent
inserts; a transfer of two inserts that may fail at either or at the commit;
commits whose acknowledgement is lost; delivery at least once with replies
before acknowledgements; handlers that give up while the command goes on;
rotation of a refresh token against another rotation or a logout; rows that are
validated in one unit, stored in another and validated again when they are read.
The list, each at its line, is `hazards` in `PROJECT.json`.

## 2. The modules

| module | models | checked by | proved in |
|---|---|---|---|
| `ServiceErrors` | the business errors of each operation, where Ledger and Delivery meet | | |
| `Commands` | commands, postings and results shared by the two below | | |
| `LedgerContract` | what the money service promises: one atomic step per call | (abstract) | |
| `Ledger` | service and repository over the tables, statement by statement | `MCLedger` | `LedgerProofs`, `BooksProofs`, `StatementProofs` |
| `Delivery` | handler, stream, worker, reply and acknowledgement of a command | `MCDelivery` | `DeliveryProofs` |
| `MoneyPath` | Ledger and Delivery together: from the handler to the rows and back, and reads beside it | `MCMoneyPath` | `MoneyPathProofs` |
| `Sessions` | login, refresh, logout over refresh_tokens, with row locks; access tokens | `MCSessions` | `SessionsProofs` |
| `Conversions` | validation of a new user, what the columns keep of it, what is read back; account codes | `MCRegistration` | `RegistrationProofs` |
| `Registration` | create_user, and create_account under the deliveries of its worker | `MCRegistration` | `RegistrationProofs` |

`SetInduction` holds facts about finite sets, sums and orders that the proofs of
Ledger need.

A definition whose comment begins with "Mutant:" is no part of a model.  It is a
plausible wrong version of the definition that follows it; substituting it makes
the property that `mutants` in `PROJECT.json` names fail.

### Ledger

A task is one call of a `TransactionsService` method.  `pc[t]` is the SQL
statement it is about to execute:

    lookup   find_account_by_id, ownership and status check   LookupRefused, Lookup
    resolve  find_account_by_number, status, not itself       ResolveRefused, Resolve
    check    query_balance_cents and the comparison           CheckBalance
    begin    the INSERT draws its transaction_id              BeginInsert
    insert   the SELECTs of both triggers, in either order    ReadHash, PassGuard, InsertRefused
    store    the row                                          StoreRow
    commit   conn.commit()                                    Commit, CommitFails
    read     get_balance, get_statement                       Read

Any statement of a task in `FaultTasks` may fail (`StatementFails`, and
`CommitFails` with an outcome that the caller does not know), the process may
die (`Crash`), and the status of an account is changed by SQL from outside the
program (`SetStatus`).  `rows` is the table transactions in the order of storing,
with rows of open and rolled back transactions in it; `Committed` and `Visible`
say who sees what.

An INSERT is four steps.  Oracle draws the identity before the BEFORE INSERT
triggers read the table, so two inserts may be stored out of the order of their
identities.  The triggers are two SELECTs without a lock, of the latest hash
(006:12-19) and of the status (007:9-11), each with a step of its own; no
`FOLLOWS` orders them, so they run in either order (`guarded` and `chained` are
the places between them).  Then the row is stored, whatever other calls and
`SetStatus` have done since.

The hash of a row is taken over the previous hash, the account, the amount and the
type (006:28-36), and over neither the identity nor the time.  So it is represented by
exactly that: a hash is the sequence of the postings of its chain, SHA-256 taken
as free of collisions.  Different rows may have one hash: after a fork by two
equal deposits both rows do, and a row may have that of one that was rolled
back.  `ChainIsGrounded` is therefore about hashes, not rows: `previous_hash` is
NULL or the `current_hash` of some committed row of the account stored earlier.

`LedgerContract` is the abstract bank: a call is performed in one step or not at
all, at most once, for the owner of its source account, and its answer is true
(`Ok`: performed; a business error, one of those of its operation: not;
DatabaseError or a crash: unknown).  `Contract` takes a call for performed when
its transaction is committed, and `ImplementsContract` states the refinement.
`BalanceOf` is the balance that follows from the calls performed;
`MoneyConserved` compares it with the one that the rows add up to.

Two invariants keep the books of a call.  `LedgerInv` ties its rows, its checks
and its answer to its program counter; `BooksInv` says what sums over the rows
rest on: no posting is stored twice (`RowsOnce`), identities are never drawn twice
although rows are stored out of their order (`IdsFresh`), and a debit that is past
its check has read committed rows of its account that cover it (`FundsSeen`).

### Delivery

For each request `r`: its `kind` (one of the four operations, a command whose
amount is refused, a payload that does not parse), where its handler stands or
what it answered (`http`), the first reply in its inbox, its message in the
consumer (`stream`), how often it was delivered, and for each delivery `n` the
worker task (`attempt`), what the service told it (`outcome`) and whether its
effect was committed (`applied`).  `expired` is history: the deliveries that were
not acknowledged within `ack_wait`, because the task was slow, dead or not heard.

The service is what `LedgerContract` promises, one step with an answer.  What
Delivery assumes of the money operations, Ledger guarantees, in the same words: the
refusals of an operation are `ServiceRefusals(op)` in both, and `ServicePromise` says that a
call of Ledger refuses with nothing else, has all of its postings in the ledger
after `Ok` and none after a refusal.  The one error that crosses the line under
another name, AccountNotActive of the trigger wrapped by `transfer`, is a
DatabaseError there (`LedgerWrappedError`) and one of the faults here.  MoneyPath has
both in one state, and its proofs need no such assumption.

An error reaches the handler as text.  `Named(op)` are the names that the handler
of an operation looks for; `Answer` turns any other error into a DatabaseError,
and `StatusCode` is the status that is sent.  `AnswersAreOutcomes` says that no
name is missed: a refusal reaches its client under its own name and status.

Nothing recognises a correlation id, so a command that is delivered twice may be
performed twice.  `RepeatedOnlyWhenUnsure` says exactly when: each delivery from the
first that performed it on had expired, or a task had reported a database error,
after which nobody knows what was committed.  Late handlers, lost replies and
overlapping acks and NAKs repeat nothing.

Time is order: a handler may time out at any moment without a reply, and
`ack_wait` (30 s) expires only when the handler (5 s) is no longer waiting.

### MoneyPath

MoneyPath extends Ledger and instantiates Delivery over it.  Each delivery of a
request is a call of its own, `<<r, n>>`, with the command of the request; the
calls of the read handlers are `Readers`.  Of Delivery's variables, `http`, `inbox`,
`stream`, `delivered`, `attempt`, `expired` and `crashes` are its own here too; the other three are
read off the ledger: the operation of a request (`Kind`), what a call told its
task (`Outcome`: nothing until it has returned, nor after a crash) and which
deliveries are committed (`Applied`).

    Serve(r, n)   the task of a delivery executes the next statement of its call,
                  and has its reply ready when the call has returned
    Query(q)      a read handler executes the next statement of its own
    Carry(r)      a step of Delivery without a statement: publish, deliver, reply,
                  acknowledge, time out, expire
    Freeze(x)     the status of an account is changed from outside
    Restart       the process dies with handlers, tasks and calls alike

`ImplementsDelivery` is `Delivery!Spec` under that mapping: the many statements of a
call, with their failures, are one `CallService` step, and the crash that takes
handlers and tasks is the crash that ends their transactions.
`ClientsToldTrue` and `ReadsOwnWrites` are about both halves at once: what stands in the
HTTP response against what is committed, and what a read returns after a 201.
create_account, and commands that are refused without a call, stay with Delivery.

### Sessions

Every call executes its SQL one statement per step.  Tokens, their hashes and
sessions are named by the call that created them (64 random characters: no two
calls generate the same token).  `rows` is what is committed, `draft` and `lock`
the row as the transaction that holds its lock has changed it.  A rotation finds
its row by `token_id`, as the SELECT before it saw it; a revocation finds it by
`token_hash`, after waiting for the lock.  The clock is a counter.

An access token is the call that generated it: its user is `user[t]`, its expiry
`exp[t]`, and `AuthUser(t)` is what the extractor makes of it.  A login generates
it before its session is inserted, a refresh after the rotation is committed.
`ActsForOwner` follows the user from the password through every rotation;
`SessionEndsForGood` bounds what is left of a session that was revoked or has
left a window.  `LockedOutOnlyByRaceOrLoss` says how the client of a live session can
be left with a token that opens nothing: two refreshes of that session raced with one
token, or the refresh that presented its token never brought the answer back, its
commit having failed or the access token not having been generated
(`auth_service.rs:83`).  `Fresh` is the pair of windows as the SQL draws them, `Validate`
as `SessionPolicy::validate` does, which the program does not call; the theorem
`PolicyAgrees` says that they agree.

### Conversions and Registration

Conversions knows a text by its lengths in characters and bytes, the blanks
around it and its classes of characters: what `Name`, `Password` and `Email`
look at.  `Accepted` is the validation of a form, `FitsUsers` what columns that
count bytes take (`''` is NULL), and `Readable` and `ReadBack` what
`find_by_user_id` and `find_by_user_name` do with the row, which validate it again.

create_user and create_account insert one row under a UNIQUE key.  A run is one
call of the service: the only one of a create_user, one per delivery of an
account command.  `pc[c][n]` is its statement (`find`, `insert`, `commit`),
`key` and `row` its row, `answer` what it returned.  An INSERT that meets the key
in an open transaction waits for its end; when the account number sequence is
exhausted, or a value does not fit its column, it is refused.  An account command
may name a user whose registration is in progress.  `Return` is the end of a run
with the decision of the worker (`After`); Delivery has that part in detail, so
replies are left out here.  `unsure` is history: the runs whose row may have been
committed without the consumer learning of it.

The row is committed before it is read back (`accounts_repo.rs:53-55`), so an error
there leads to another delivery and a second account; `DuplicateOnlyWhenUnsure` says
exactly when.  The service turns every error of the lookup into NotFound
(`accounts_service.rs:26`), which `LookupFails` keeps apart from a user who is not
there.  The worker acknowledges either, so a database error there loses the command,
against its own comment: that is the run `RegistrationLookup`.

## 3. The runs

| run | bounds | distinct states | asks |
|---|---|---|---|
| `LedgerFaults` | 3 calls of any operation, 2 accounts, amounts 1 and 2, every statement may fail, crashes, status changes | 509 784 | chain, ownership, overdrafts, atomic transfers, conservation, visibility, freezing, the promise to the workers, refinement, the inductive invariants |
| `LedgerOverdraft` | 3 calls | violated | no overdraft |
| `LedgerFork` | 2 calls | violated | linear hash chain |
| `LedgerFrozenCommit` | 2 calls | violated | no commit on a frozen account |
| `LedgerWrappedError` | 2 calls | violated | DatabaseError means transient |
| `DeliveryFaults` | 1 message of each kind in turn, every refusal, 3 deliveries, 2 crashes | 1 015 887 | settled only when processed, 201 means performed, answers are outcomes, repeated only when unsure, everything stored settles |
| `DeliveryRejected` | 1 message, 2 deliveries | violated | a business error is final |
| `MoneyPath` | 2 requests and 1 read: a deposit, a transfer that needs it, a statement of one row; every statement of the requests may fail, 1 delivery, 1 crash, status changes of the destination | 1 158 880 | clients are told the truth, read their own writes, the path implements Delivery |
| `Sessions` | 4 calls, 2 users, clock 0..3, windows of 1 and 2, access tokens of 1 | 435 904 | owners, spent tokens, ended sessions |
| `SessionsFaults` | 4 calls of 1 user that may fail at every statement or crash, one time | 130 881 | spent tokens under faults, how a session is lost, every call returns |
| `RegistrationFaults` | 2 requests of any kind, 1 name with 3 forms, 3 numbers of the sequence of which 2 collide, 2 deliveries, failures and crashes | 194 172 | true answers, users read back, duplicated accounts, every run ends |
| `RegistrationLookup` | the same | violated | database errors are retried |

Why the bounds are enough.  Every race in Ledger is between two calls over a
balance that a third call has made.  Two accounts are source and destination;
amounts 1 and 2 meet every comparison below, at and above equality.  Requests
of Delivery share only the process, which a crash takes from all of them, so
one suffices, its kind chosen in Init; three deliveries give a first, a middle
and a last one (`MaxDeliver` is 5 in the code), and the states beyond two
crashes repeat.  MoneyPath multiplies both state spaces: two requests are what
it takes for a transfer to be performed, and a statement of one row is the
limit at which newer rows displace older ones.  There is one delivery of each;
what a second one may do is checked in Delivery, and in the path it is a call
beside the others, as the second request is.  Keys of Registration are
contended by two at a time, and a second delivery is the one that duplicates;
of the three forms one is at the limits of the checks, one is refused by the
validation (an empty middle name), and one is accepted and refused by a column
(100 characters of 300 bytes).  Two account commands of two deliveries meet
both a collision and the end of the sequence.  Four calls of Sessions hold a
login, two racing rotations and a logout, or two sessions of two users; a clock
of 3 outlives both windows.  Calls are interchangeable, so `LedgerFaults`,
`MoneyPath` and `Sessions` use symmetry; the liveness runs do not.
`CHECK_DEADLOCK FALSE` everywhere: a call or request is made once, and when all
have ended nothing is left to do.

### What does not hold

Six runs show a disagreement between the repository's own words and its code.

- `LedgerOverdraft`: `transactions_repo.rs:141` reads the balance, line 147
  inserts the debit.  Two withdrawals of the whole balance both pass the check.
  `OverdraftOnlyByWriteSkew` says this is the only way: one of any two debits
  that overdraw an account must have missed the other.
- `LedgerFork`: two concurrent inserts copy the same `previous_hash`.
  `ChainIsGrounded` says what is left of the chain.
- `LedgerFrozenCommit`: the guard trigger takes no lock on the account.
  `FreezeTakesEffect` says what is left: once the account is not ACTIVE, only
  calls with an uncommitted row on it, or with an INSERT already past the guard's
  SELECT, get through.
- `LedgerWrappedError`: `transfer` wraps the trigger's refusal in a
  DatabaseError, so the worker has the refused transfer delivered again.
- `DeliveryRejected`: a reply goes out before its acknowledgement; when that is
  lost, the command is delivered again after its client was told that it was
  rejected, and may then succeed.  In the trace a deposit is refused because the
  account is not active, and its status has changed when it comes again.
- `RegistrationLookup`: `worker.rs:40-41` says that transient database errors are
  answered with NAK and delivered again.  One in the lookup of create_account
  becomes NotFound and is acknowledged: the user exists, the account never will.

## 4. Fairness

Safety is checked without fairness.  `Delivery!FairSpec` assumes that a waiting
handler ends (its timer fires), that the consumer delivers a message that is
ready and fires the expiry of an unacknowledged one, and that a spawned worker
task goes on while the process lives; nothing obliges a client to send or a
fault to happen.  `Sessions!FairSpec` assumes weak fairness of the steps of each
call (`Step`): tokio runs every request task.  Failures and crashes are not
among them, so no call may count on one to end.  A call that waits for a row lock is disabled
meanwhile; weak fairness is enough as calls are finitely many and each ends,
so that the row is free in the end.  With an unending stream of calls on
one row it would take Oracle's queue of waiters.  `Registration!FairSpec` is the
same for the runs, which wait for the UNIQUE key of another one.

## 5. The proofs

Each module of proofs follows one argument: an invariant that is inductive,
initially true and kept by every action of `Next`, one step of the proof per
action; the properties follow from it.

`LedgerProofs` proves for any sets of calls, accounts, owners and commands, any
set of calls that fail, and any number of crashes and status changes:

- `TypeCorrect`: the type invariant, with `CallProgress`.
- `Inductive`: the invariant `LedgerInv`, which is inductive relative to the types.
- `ChainCorrect`, `AtomicTransfers`, `OwnedDebits`, `FreezeEffective`,
  `PromiseKept`: the properties `ChainIsGrounded`, `TransferAtomic`,
  `DebitsAreOwned`, `FreezeTakesEffect` and `ServicePromise` of the runs.
- `ContractImplemented`: the refinement, `Spec => ImplementsContract`.

Assumed are only `CommandsAssumption` and `LedgerAssumption`: the accounts that
exist have owners, and commands are well-formed with amounts of at least 1.

`TransferAtomic` is not inductive: it speaks of committed rows only, and a commit
must find both of them.  `RowsArePostings` keeps the record for every row, of
open and ended calls alike: the rows of a call are its postings below `leg`, and
`CallProgress` ties `leg` to `pc` and `txn`, so a committed call has them all.
`CallChecked` says that whoever is past the checks, or has a row, is the owner of
the source, and that a transfer has two accounts; that is why the second insert
of a transfer never takes the hash of the first, which is not committed, for its
predecessor (`PredecessorCommitted`).  `HeadsGrounded` carries what a trigger has read
over the steps of others to the row that is stored with it: committed rows stay.  `CallAnswered` ties the answer of a call to the end of its transaction.
Each lemma about steps goes through the actions of `Next`; frames
(`TableFrame`, `TxnFinal`, `CallFrame`) treat those that touch nothing.  For the
refinement, `StepMaps` sends each step of a call to `Succeed`, `Refuse` or `Fail`
of the contract or to a stutter, and `CrashMaps` a crash to a crash.

`SetInduction` is what the sums need.  The induction theorems of the library take
an operator, so the property is given as a set here: `SubsetInduction` is an
induction over the subsets of a finite set, from `WFMin` and the well-foundedness
of the strict subset order.  From it follow the laws of `SumFunctionOnSet` (the
sum of a set with one element more, of a union, of a function that is zero or not
negative), `SumByGroup` (a sum by parts), and `TopSize`: of a finite set ordered by
keys without repetition, the first n are n, or all.

`BooksProofs` proves for all the same constants:

- `BooksKept`: the invariant `BooksInv`, inductive together with `LedgerInv`.
- `MoneyIsConserved`: `MoneyConserved`.  By `RowsOnce` and `RowsArePostings` the rows of
  a committed call are its postings, one to one, so the sum over the rows is by
  groups the sum over the committed calls of what they post; a transfer posts
  zero in all.
- `OverdraftTakesWriteSkew`: `OverdraftOnlyByWriteSkew`.  Were any two
  committed debits of an account ordered by what they had read, the one stored
  last would have read all others, for whoever is read is stored earlier.
  `FundsSeen` says that what it read covered it, and what it did not read are
  credits; so the account is not overdrawn.

`StatementProofs` proves `AcknowledgedSeen`: `AcknowledgedIsVisible`.  A query sees the
rows of an acknowledged call, as those are committed; for a statement, either the row is among
the newest n, or by `TopSize` there are n newer ones, since `IdsFresh` excludes ties.

`DeliveryProofs` proves for any number of requests, deliveries (`MaxDeliver`) and
crashes, from `DeliveryAssumption`, and from `RefusalsAssumption` (a service
refuses with its own errors, the ones that `PromiseKept` is about) where answers
are concerned:

- `DeliveryTypeTheorem` and `DeliveryTheorem`: the types, and the inductive
  invariant `DeliveryInv`.
- `CreatedTheorem`, `NothingSettledTheorem`, `AnswersTheorem`, `RepeatedTheorem`:
  the properties `CreatedMeansApplied`, `NothingSettledUnprocessed`,
  `AnswersAreOutcomes` and `RepeatedOnlyWhenUnsure`, with every fault.

`CreatedMeansApplied` speaks of what a handler answered, and to be inductive needs
the way the answer came: the reply in the inbox (`RepliesTrue`), the outcome of
the task that sent it (`OutcomesKept`), and that no later delivery overwrites
that outcome (`DeliveryCounts`: a delivery gets a task that has not been used).
The same counts keep the tasks within `MaxDeliver`.  `AnswersInv` says the same
of refusals: the text in an inbox is the outcome of some task.  `RepeatInv` adds
that whenever the consumer may deliver again, or has done so, the earlier
deliveries were unsure (`Reasons`), and that a delivery with an effect has a task
that called and was not refused (`Effects`).

`MoneyPathProofs` proves for any requests, readers, deliveries and crashes, and any
set of calls that fail, from `MoneyPathAssumption` (the calls are the deliveries and
the readers) and the assumptions of Ledger:

- `LedgerImplemented`: `PathSpec => Spec`, so each theorem about Ledger holds of the
  path.
- `PathInductive`: `PathInv`, which ties the halves together: the deliveries of a
  request execute its command, and a call under way belongs to a task that is
  running.
- `DeliveryImplemented`: the refinement, `PathSpec => ImplementsDelivery`.
  `ServeMaps` rests on `StepMaps`: what the contract of the service takes for one step is
  one `CallService`, the rest are stutters.  `RestartMaps` names the calls that landed.
- `ToldTrue` and `OwnWritesRead`: `ClientsToldTrue` and `ReadsOwnWrites`.

The last two compose the others.  That the path implements Delivery brings in
`CreatedTheorem` and `AnswersTheorem`, with their assumption on refusals proved
(`PathConstants`): a 201 goes back to a delivery that was told ok, a refusal to one
that was refused.  That it implements Ledger brings in `ServicePromise`: that
delivery has all of its postings committed, or none; and `SeesAcknowledged`: a later
read shows them.  The theorems of Delivery are taken from an instance of
`DeliveryProofs`; the lemmas `Same...` say that it is the Delivery of the model.

`SessionsProofs` proves for any number of calls and users, any windows and
clock, and any set of calls that fail, from `SessionsAssumption`:

- `SessionsTypeCorrect` and `SessionsInductive`: the types, and the invariants
  `SessionsInv` and `ChainsInv`.
- `ActsForOwnerTheorem`, `LockedOutTheorem`, `SpentTokenTheorem`,
  `SessionEndsTheorem`: the safety properties of both runs.
- `PolicyAgrees`: `SessionPolicy::validate` and the WHERE clause decide alike.

The invariant is about locks first: whoever holds the lock of a row stands before
its commit, and the draft differs from the row in what the call is there to
change (`LockInv`).  So when transactions end, in a commit or a crash, a row gets
the hash of a call that has ended and was for this session (`RowInv`), and with it
tokens keep their session and user (`TokenInv`), consumed hashes do not return
(`SpentInv`), and, until two refreshes of it race with one token, the tokens of a
session are a chain that every rotation extends at its end (`ChainInv`).  The lemmas `Ends...`
treat the ends of transactions once for commit, failed commit and crash, the
lemmas `Works...` the steps within a call.

`RegistrationProofs` proves for any requests, forms, deliveries and account
numbers, colliding ones included, from `RegistrationAssumption`:

- `AcceptedReadsBack`: each form that passes the validation is, once stored,
  readable, and read back as it was accepted.
- `RegistrationTypeCorrect` and `RegistrationInductive`: the types and the
  invariant `RegistrationInv`.
- `AnswersTrueTheorem`, `RegisteredReadsBackTheorem`, `DuplicateTheorem`: the
  safety properties of the run.
- `ForeignKeyHolds`, a lemma about the model itself: a row is inserted only for a user
  who is in the table, so that `InsertRow` may leave out the foreign key.

`DuplicateOnlyWhenUnsure` compares two committed rows of one command.  To be
inductive it needs to hold before the second is committed, already when the
message becomes ready for another delivery: `QueueInv` says that all earlier runs
have then `Passed`, that is ended without a row or after the consumer lost track
of one.  `RunInv` ties row, key and answer of a run to its statement, and keeps
what was checked before it (the validation, the owner).

Every safety property of the passing runs is proved, action properties and
refinements included.  Only model-checked is liveness under fairness
(`EventuallySettled`, `CallsReturn`, `EveryRunEnds`), which the
prover does not support.

## 6. Abstractions

- `spawn_blocking` and connection pooling: a statement is atomic, calls
  interleave between statements.  Acquiring a connection may fail, and no call
  holds one while it acquires another, so the limit of 10 only delays.
- After a failed commit, `deposit` and `withdraw` return without rollback; the
  pool is taken to roll back a connection that is released.
- The checks of the transactions table (sign by type) hold for all postings and
  never fire.  Balances are integers without bound: `NUMBER` in Oracle, and a sum
  that does not fit `i64` fails when it is read (`StatementFails`).
- `Amount::new` is whether it accepts: `badamount` in Delivery, amounts of at
  least 1 in Commands.  Its limit of 10^11 cents keeps `-amount` and the
  comparison with a balance far from the ends of `i64`.
- Parsing of result rows, wording of errors, logging, device_info,
  correlation ids in payloads: left out but for the failure they may cause and,
  in Delivery, the names that are looked for in the text.
- A NAK's delay of 2 s is order only.
- The blanks that `trim` removes are taken to be ASCII; inside a text there may be
  others (`blank`), which a name may contain.  A password is stored as a
  hash that always fits its column.
- The signature of an access token cannot be forged, and its expiry is compared
  without leeway, as `auth.rs` sets it.  `AccessLife` and the windows of Sessions
  are a few ticks: only their order against the clock matters.
- The program deletes no user, so the foreign key of an account holds once its
  user was found (`ForeignKeyHolds`).
- In Sessions the commit of a refresh and the access token generated after it are one
  step, `Commit`.  Nothing of the session is read or written between them; that the
  process dies or the generation fails there is in `CommitFails` and `Crash`, whose
  transactions may be durable although the call has no answer.
- `EventuallySettled` is about commands that the stream has stored.  One that is
  published and never stored is answered by the timeout (`CreatedMeansApplied`).
- `LastSeq` and `MaxNow` stand for the end of a sequence and of time; the proofs
  hold for all values of them.

## 7. Not modelled

- create_account and its deliveries in one state with the ledger: MoneyPath has
  the three money operations, Registration the account command with the
  decisions of its worker.
- More than one delivery per request in MoneyPath, for TLC: with two requests the
  product is out of its reach.  The theorems of `MoneyPathProofs` are for any number.
- The width of `Cents` and the limit of `Amount::new` (see above).
- `Transactions::calculate_hash`: no code but its own test calls it; the hashes
  in the table are made by the trigger.
- The connection pool (an external library), password hashing and signatures
  (cryptography), the wording of JSON bodies, start-up and configuration.
