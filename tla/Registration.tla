---------------------------- MODULE Registration ----------------------------
(***************************************************************************)
(* create_user and create_account, statement by statement.                 *)
(*                                                                         *)
(* Both insert one row under a UNIQUE key, commit, and only then read what *)
(* the INSERT returned; an error there is reported although the row stays. *)
(* The key of a user is the name in the request.  The key of an account is *)
(* its number, a truncated hash of the next value of a sequence, drawn     *)
(* anew by every INSERT.  create_account first looks the user up, who may  *)
(* be another one's registration in progress.                              *)
(*                                                                         *)
(* create_user runs once, in the HTTP handler.  create_account runs once   *)
(* per delivery of its command, and the worker decides by the error        *)
(* whether there is another one; deliveries of one command may overlap.    *)
(* Of Delivery only that decision is kept, a reply here is taken as sent.  *)
(***************************************************************************)
EXTENDS Conversions

CONSTANTS
    Requests,    \* the calls of create_user, and the account commands
    Input,       \* what a client may fill in: Input[i].name is the user name,
                 \* Input[i].form the body of the request
    Resident,    \* the user of a row that was there before
    Nobody,      \* a user who does not exist
    TypeAsked,   \* the account type in each account command
    LastSeq,     \* the last value of account_number_seq, 10^28 - 1
    Numbers,     \* the account numbers
    NumberOf,    \* the account number of each value of account_number_seq
    MaxDeliver,  \* max_deliver of the consumer, 5 in the code
    NoKey        \* no key

ASSUME RegistrationAssumption ==
    /\ MaxDeliver \in Nat \ {0}
    /\ LastSeq \in Nat
    /\ NumberOf \in [1..LastSeq -> Numbers]
    /\ NoKey \notin Numbers
    /\ \A i \in DOMAIN Input : Input[i].form \in UserForm /\ Input[i].name # NoKey
    /\ \A i, j \in DOMAIN Input : Input[i].name = Input[j].name
                                   => Input[i].form.user_name = Input[j].form.user_name
    /\ TypeAsked \in [Requests -> AccountType]
    /\ Resident # Nobody /\ {Resident, Nobody} \cap Requests = {}

VARIABLES
    request,    \* request[c]: what c asks for, never changed
    queue,      \* queue[c]: the command in the consumer, or the HTTP request
    delivered,  \* delivered[c]: how often it has been started
    pc,         \* pc[c][n]: the statement its n-th run is about to execute
    key,        \* key[c][n]: the UNIQUE key of the row of that run
    row,        \* row[c][n]: that row in the table
    answer,     \* answer[c][n]: what the service returned
    unsure,     \* unsure[c]: the runs whose end the consumer never learned
    seq         \* the value of account_number_seq drawn last

vars == <<request, queue, delivered, pc, key, row, answer, unsure, seq>>

Runs == 1..MaxDeliver

(* A registration, or the account command of an authenticated user or of   *)
(* whoever else publishes to the stream, with the id of any user.          *)
Request ==
    [op : {"create_user"}, input : DOMAIN Input]
        \cup [op : {"create_account"}, user : Requests \cup {Resident, Nobody}]

IsAccount(c) == request[c].op = "create_account"

Keys == {Input[i].name : i \in DOMAIN Input} \cup Numbers

TypeOK ==
    /\ request   \in [Requests -> Request]
    /\ queue     \in [Requests -> {"ready", "inflight", "acked", "exhausted"}]
    /\ delivered \in [Requests -> 0..MaxDeliver]
    /\ pc        \in [Requests -> [Runs -> {"none", "find", "insert", "commit",
                                            "over"}]]
    /\ key       \in [Requests -> [Runs -> Keys \cup {NoKey}]]
    /\ row       \in [Requests -> [Runs -> {"none", "open", "committed"}]]
    /\ answer    \in [Requests -> [Runs -> {"none", "ok", "NotFound",
                                            "InvalidInput", "DatabaseError"}]]
    /\ unsure    \in [Requests -> SUBSET Runs]
    /\ seq       \in 0..LastSeq

(* The row that a registration inserts.                                    *)
UserRow(c) == Stored(NewUser(Input[request[c].input].form))

ForAllRuns(x) == [c \in Requests |-> [n \in Runs |-> x]]

Init ==
    /\ request   \in [Requests -> Request]
    /\ \A c \in Requests : IsAccount(c) /\ request[c].user \in Requests
                           => ~IsAccount(request[c].user)
    /\ queue     = [c \in Requests |-> "ready"]
    /\ delivered = [c \in Requests |-> 0]
    /\ pc        = ForAllRuns("none")
    /\ key       = ForAllRuns(NoKey)
    /\ row       = ForAllRuns("none")
    /\ answer    = ForAllRuns("none")
    /\ unsure    = [c \in Requests |-> {}]
    /\ seq       = 0

-----------------------------------------------------------------------------
Goto(c, n, step) ==
    /\ pc' = [pc EXCEPT ![c][n] = step]
    /\ UNCHANGED <<queue, answer>>

(* Mutant: max_deliver not set.                                            *)
RedeliverableAlways(c) == "ready"

Redeliverable(c) == IF delivered[c] < MaxDeliver THEN "ready" ELSE "exhausted"

Nak(c) == IF queue[c] = "inflight" THEN Redeliverable(c) ELSE queue[c]

Ack(c) == IF queue[c] = "exhausted" THEN "exhausted" ELSE "acked"

(* Mutant: every answer is followed by NAK.                                *)
AfterNaked(c, result) == IF IsAccount(c) THEN {Nak(c), queue[c]} ELSE {"acked"}

(* What becomes of the command.  Nobody repeats create_user.  The worker   *)
(* answers DatabaseError with NAK and everything else with an ack; either  *)
(* may be lost, and then the consumer waits until the delivery expires.    *)
After(c, result) ==
    IF ~IsAccount(c) THEN {"acked"}
    ELSE {queue[c], IF result = "DatabaseError" THEN Nak(c) ELSE Ack(c)}

(* The run ends: reply, and ack or NAK.                                    *)
Return(c, n, result) ==
    /\ pc'     = [pc EXCEPT ![c][n] = "over"]
    /\ answer' = [answer EXCEPT ![c][n] = result]
    /\ \E q \in After(c, result) : queue' = [queue EXCEPT ![c] = q]

(* The run ended in a way that only the database knows.                    *)
Unsure(c, n) == unsure' = [unsure EXCEPT ![c] = @ \cup {n}]

(* The rows of other runs, committed or not, that hold the key k.          *)
Holders(c, n, k) ==
    {dm \in Requests \X Runs :
        /\ dm # <<c, n>>
        /\ request[dm[1]].op = request[c].op
        /\ row[dm[1]][dm[2]] # "none"
        /\ key[dm[1]][dm[2]] = k}

Taken(c, n, k) == \E dm \in Holders(c, n, k) : row[dm[1]][dm[2]] = "committed"

-----------------------------------------------------------------------------
Starts(c, step) ==
    /\ queue' = [queue EXCEPT ![c] = "inflight"]
    /\ pc'    = [pc EXCEPT ![c][delivered[c] + 1] = step]
    /\ UNCHANGED answer

(* The handler calls create_user, which validates its input first.         *)
CreateUser(c) ==
    /\ queue[c] = "ready"
    /\ ~IsAccount(c)
    /\ delivered' = [delivered EXCEPT ![c] = @ + 1]
    /\ LET accepted == Accepted(Input[request[c].input].form) IN
       \/ accepted  /\ Starts(c, "insert")
       \/ ~accepted /\ Return(c, delivered[c] + 1, "InvalidInput")
    /\ UNCHANGED <<request, key, row, unsure, seq>>

(* The consumer delivers the command to a task, which calls create_account. *)
Deliver(c) ==
    /\ queue[c] = "ready"
    /\ IsAccount(c)
    /\ delivered' = [delivered EXCEPT ![c] = @ + 1]
    /\ Starts(c, "find")
    /\ UNCHANGED <<request, key, row, unsure, seq>>

(* The row of the registration d can be found and read back.               *)
Registered(d) ==
    /\ ~IsAccount(d)
    /\ \E n \in Runs : row[d][n] = "committed"
    /\ Readable(UserRow(d))

(* The user of the command is in the table and can be read.                *)
Found(c) ==
    \/ request[c].user = Resident
    \/ request[c].user \in Requests /\ Registered(request[c].user)

(* find_by_user_id sees what is committed.                                 *)
FindUser(c, n) ==
    /\ pc[c][n] = "find"
    /\ \/ Found(c)  /\ Goto(c, n, "insert")
       \/ ~Found(c) /\ Return(c, n, "NotFound")
    /\ UNCHANGED <<request, delivered, key, row, unsure, seq>>

(* find_by_user_id fails, at a connection, in the SELECT or over the row:  *)
(* create_account drops the error and answers NotFound.                    *)
LookupFails(c, n) ==
    /\ pc[c][n] = "find"
    /\ Return(c, n, "NotFound")
    /\ UNCHANGED <<request, delivered, key, row, unsure, seq>>

(* The INSERT evaluates the key of its row.  NEXTVAL is not rolled back,   *)
(* and after the last value it fails (InsertRefused).                      *)
DrawKey(c, n) ==
    /\ pc[c][n] = "insert"
    /\ key[c][n] = NoKey
    /\ \/ /\ IsAccount(c)
          /\ seq < LastSeq
          /\ seq' = seq + 1
          /\ key' = [key EXCEPT ![c][n] = NumberOf[seq + 1]]
       \/ /\ ~IsAccount(c)
          /\ key' = [key EXCEPT ![c][n] = Input[request[c].input].name]
          /\ UNCHANGED seq
    /\ UNCHANGED <<request, queue, delivered, pc, row, answer, unsure>>

(* What the columns and CHECK constraints take.                            *)
RowFits(c) ==
    \/ IsAccount(c)  /\ FitsAccounts(AccountTypeCode(TypeAsked[c]))
    \/ ~IsAccount(c) /\ FitsUsers(UserRow(c))

(* While an open transaction holds the key, the INSERT waits for its end.  *)
(* The foreign key refuses no row, since FindUser came before and the      *)
(* program deletes no user (ForeignKeyHolds of RegistrationProofs).        *)
InsertRow(c, n) ==
    /\ pc[c][n] = "insert"
    /\ key[c][n] # NoKey
    /\ RowFits(c)
    /\ Holders(c, n, key[c][n]) = {}
    /\ row' = [row EXCEPT ![c][n] = "open"]
    /\ Goto(c, n, "commit")
    /\ UNCHANGED <<request, delivered, key, unsure, seq>>

(* The INSERT fails: there is no next number, a value does not fit, the    *)
(* key is taken, there is no connection, or the database has trouble.  It  *)
(* is DatabaseError all the same.                                          *)
InsertRefused(c, n) ==
    /\ pc[c][n] = "insert"
    /\ \/ key[c][n] # NoKey /\ (~RowFits(c) \/ Taken(c, n, key[c][n]))
       \/ key[c][n] = NoKey /\ IsAccount(c) /\ seq = LastSeq
    /\ key' = [key EXCEPT ![c][n] = NoKey]
    /\ Return(c, n, "DatabaseError")
    /\ UNCHANGED <<request, delivered, row, unsure, seq>>

InsertFails(c, n) ==
    /\ pc[c][n] = "insert"
    /\ key' = [key EXCEPT ![c][n] = NoKey]
    /\ Return(c, n, "DatabaseError")
    /\ UNCHANGED <<request, delivered, row, unsure, seq>>

(* The row is committed, and then what the INSERT returned is parsed: an   *)
(* account has come back with its type and status.                         *)
Commit(c, n) ==
    /\ pc[c][n] = "commit"
    /\ row' = [row EXCEPT ![c][n] = "committed"]
    /\ LET parsed == IsAccount(c) => /\ KnownTypeCode(AccountTypeCode(TypeAsked[c]))
                                     /\ KnownStatusCode("ACTIVE")
       IN Return(c, n, IF parsed THEN "ok" ELSE "InvalidInput")
    /\ UNCHANGED <<request, delivered, key, unsure, seq>>

(* Mutant: a commit that fails is taken for one that succeeds.             *)
CommitFailsSilently(c, n) ==
    /\ pc[c][n] = "commit"
    /\ row' = [row EXCEPT ![c][n] = "none"]
    /\ key' = [key EXCEPT ![c][n] = NoKey]
    /\ Return(c, n, "ok")
    /\ UNCHANGED <<request, delivered, unsure, seq>>

(* Mutant: the connection is kept with its transaction open.               *)
CommitFailsOpen(c, n) ==
    /\ pc[c][n] = "commit"
    /\ Return(c, n, "DatabaseError")
    /\ UNCHANGED <<request, delivered, key, row, unsure, seq>>

(* commit() fails and the row is rolled back.                              *)
CommitFails(c, n) ==
    /\ pc[c][n] = "commit"
    /\ row' = [row EXCEPT ![c][n] = "none"]
    /\ key' = [key EXCEPT ![c][n] = NoKey]
    /\ Return(c, n, "DatabaseError")
    /\ UNCHANGED <<request, delivered, unsure, seq>>

(* commit() fails although the row is durable, or reading what the INSERT  *)
(* returned fails, which happens after the commit only.                    *)
CommitUnreported(c, n) ==
    /\ pc[c][n] = "commit"
    /\ row' = [row EXCEPT ![c][n] = "committed"]
    /\ Unsure(c, n)
    /\ Return(c, n, "DatabaseError")
    /\ UNCHANGED <<request, delivered, key, seq>>

-----------------------------------------------------------------------------
(* ack_wait: the delivery under way is at work, or lost.                   *)
Expire(c) ==
    /\ IsAccount(c)
    /\ queue[c] = "inflight"
    /\ queue' = [queue EXCEPT ![c] = Redeliverable(c)]
    /\ Unsure(c, delivered[c])
    /\ UNCHANGED <<request, delivered, pc, key, row, answer, seq>>

(* The process dies, and the runs with it.  Oracle rolls back what is open *)
(* but for the commits on their way that arrive (landed).  A delivery is   *)
(* left to expire; an HTTP request is gone.                                *)
Crash ==
    /\ \E c \in Requests : \E n \in Runs : pc[c][n] \notin {"none", "over"}
    /\ pc' = [c \in Requests |-> [n \in Runs |->
                IF pc[c][n] = "none" THEN "none" ELSE "over"]]
    /\ queue' = [c \in Requests |->
                   IF ~IsAccount(c) /\ queue[c] = "inflight" THEN "acked"
                                                            ELSE queue[c]]
    /\ \E landed \in [Requests -> SUBSET Runs] :
          /\ \A c \in Requests : \A n \in landed[c] : row[c][n] = "open"
          /\ row' = [c \in Requests |-> [n \in Runs |->
                       IF n \in landed[c]       THEN "committed"
                       ELSE IF row[c][n] = "open" THEN "none"
                       ELSE row[c][n]]]
    /\ key' = [c \in Requests |-> [n \in Runs |->
                 IF row'[c][n] = "none" THEN NoKey ELSE key[c][n]]]
    /\ UNCHANGED <<request, delivered, answer, unsure, seq>>

Run(c, n) ==
    \/ FindUser(c, n) \/ DrawKey(c, n)
    \/ InsertRow(c, n) \/ InsertRefused(c, n)
    \/ Commit(c, n)

Fails(c, n) ==
    \/ LookupFails(c, n) \/ InsertFails(c, n)
    \/ CommitFails(c, n) \/ CommitUnreported(c, n)

Next ==
    \/ \E c \in Requests : \/ CreateUser(c) \/ Deliver(c) \/ Expire(c)
                           \/ \E n \in Runs : Run(c, n) \/ Fails(c, n)
    \/ Crash

Spec == Init /\ [][Next]_vars

(* A run goes on while the process lives; it cannot count on a failure to  *)
(* end it.                                                                 *)
FairSpec == Spec /\ \A c \in Requests : \A n \in Runs : WF_vars(Run(c, n))

-----------------------------------------------------------------------------
(* What holds.                                                             *)

(* The answer of a run is true: ok means that its own row is there for     *)
(* good, NotFound and InvalidInput that it left nothing.                   *)
AnswersTrue ==
    \A c \in Requests : \A n \in Runs :
        /\ answer[c][n] = "ok" => row[c][n] = "committed"
        /\ answer[c][n] \in {"NotFound", "InvalidInput"} => row[c][n] = "none"

(* A user who is in the table can log in and open accounts: the checks     *)
(* that are made again on every read pass, and give what was accepted.     *)
RegisteredReadsBack ==
    \A c \in Requests :
        (~IsAccount(c) /\ \E n \in Runs : row[c][n] = "committed") =>
            /\ Readable(UserRow(c))
            /\ ReadBack(UserRow(c)) = NewUser(Input[request[c].input].form)

(* A command opens a second account only after the consumer had lost track *)
(* of an earlier run of it.  A collision of account numbers, a refused     *)
(* insert or a failed lookup never duplicates an account.                  *)
DuplicateOnlyWhenUnsure ==
    \A c \in Requests : \A n, m \in Runs :
        /\ m < n
        /\ row[c][m] = "committed" /\ row[c][n] = "committed"
        => \E k \in unsure[c] : k <= m

(* Every run ends, those that wait for the key of another one included.    *)
EveryRunEnds ==
    \A c \in Requests : \A n \in Runs : pc[c][n] # "none" ~> pc[c][n] = "over"

-----------------------------------------------------------------------------
(* What a comment in the source promises, and the code does not keep.      *)

(* Errors of the database are answered with NAK, and the command comes     *)
(* again (is_transient_error): the command of a user who is in the table   *)
(* is not settled before it has an account.                                *)
DatabaseErrorsRetried ==
    \A c \in Requests :
        IsAccount(c) /\ request[c].user = Resident /\ queue[c] = "acked"
        => \E n \in Runs : row[c][n] = "committed"
=============================================================================
