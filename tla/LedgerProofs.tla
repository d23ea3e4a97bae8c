---------------------------- MODULE LedgerProofs ----------------------------
(***************************************************************************)
(* Proofs about Ledger for any number of calls, accounts, users and        *)
(* amounts.                                                                *)
(***************************************************************************)
EXTENDS Ledger, TLAPS

-----------------------------------------------------------------------------
(* The postings of a command: at most two, each well-formed, and each      *)
(* determined by the operation.                                            *)

(* The fields of a command have the types the service relies on.           *)
LEMMA CommandFields ==
    ASSUME NEW c \in Commands
    PROVE  /\ c \in Command
           /\ c.op \in MoneyOps \cup ReadOps
           /\ c.from \in AccountIds /\ c.to \in AccountIds
           /\ c.amount \in Nat \ {0}
  BY CommandsAssumption DEF Command

(* What each operation posts, one implication per operation.               *)
LEMMA PostingsByOp ==
    ASSUME NEW c \in Commands
    PROVE  /\ c.op = "deposit" =>
                Postings(c) = <<Posting(c.from, c.amount, "DEPOSIT")>>
           /\ c.op = "withdraw" =>
                Postings(c) = <<Posting(c.from, -c.amount, "WITHDRAWAL")>>
           /\ c.op = "transfer" =>
                Postings(c) = <<Posting(c.from, -c.amount, "TRANSFER_OUT"),
                                Posting(c.to, c.amount, "TRANSFER_IN")>>
           /\ c.op \in ReadOps => Postings(c) = <<>>
  BY CommandFields DEF Postings, MoneyOps, ReadOps

(* Only money operations post, and they post once or twice.                *)
LEMMA PostingsLen ==
    ASSUME NEW c \in Commands
    PROVE  /\ Legs(c) \in 0..2
           /\ c.op \in {"deposit", "withdraw"} => Legs(c) = 1
           /\ c.op = "transfer" => Legs(c) = 2
           /\ c.op \in ReadOps => Legs(c) = 0
  BY CommandFields, PostingsByOp DEF MoneyOps, ReadOps, Legs

(* Which posting the k-th of a command is, by its operation.               *)
LEMMA PostingsAre ==
    ASSUME NEW c \in Commands, NEW k \in 1..Legs(c)
    PROVE  /\ c.op \in MoneyOps
           /\ c.op = "deposit" =>
                k = 1 /\ Postings(c)[k] = Posting(c.from, c.amount, "DEPOSIT")
           /\ c.op = "withdraw" =>
                k = 1 /\ Postings(c)[k] = Posting(c.from, -c.amount, "WITHDRAWAL")
           /\ c.op = "transfer" =>
                \/ k = 1 /\ Postings(c)[k] = Posting(c.from, -c.amount, "TRANSFER_OUT")
                \/ k = 2 /\ Postings(c)[k] = Posting(c.to, c.amount, "TRANSFER_IN")
<1>1. c.op \in MoneyOps \cup ReadOps
  BY CommandFields
<1>2. c.op \notin ReadOps
  BY PostingsLen
<1>3. CASE c.op = "deposit"
  <2>0. Legs(c) = 1
    BY <1>3, PostingsLen
  <2>1. k = 1
    BY <2>0
  <2> QED
    BY <1>3, <2>1, PostingsByOp DEF MoneyOps
<1>4. CASE c.op = "withdraw"
  <2>0. Legs(c) = 1
    BY <1>4, PostingsLen
  <2>1. k = 1
    BY <2>0
  <2> QED
    BY <1>4, <2>1, PostingsByOp DEF MoneyOps
<1>5. CASE c.op = "transfer"
  <2>0. Legs(c) = 2
    BY <1>5, PostingsLen
  <2>1. k = 1 \/ k = 2
    BY <2>0
  <2> QED
    BY <1>5, <2>1, PostingsByOp DEF MoneyOps
<1> QED
  BY <1>1, <1>2, <1>3, <1>4, <1>5 DEF MoneyOps

(* A posting names an account id, a nonzero amount and a type.             *)
LEMMA PostingTyped ==
    ASSUME NEW c \in Commands, NEW k \in 1..Legs(c)
    PROVE  /\ Postings(c)[k].amount \in Int
           /\ Postings(c)[k].type \in TransactionType
           /\ Postings(c)[k].account \in {c.from, c.to}
           /\ Postings(c)[k].amount < 0 => Postings(c)[k].account = c.from
<1>1. c.amount \in Nat \ {0}
  BY CommandFields
<1>2. c.op \in MoneyOps
  BY PostingsAre
<1>3. \/ Postings(c)[k] = Posting(c.from, c.amount, "DEPOSIT")
      \/ Postings(c)[k] = Posting(c.from, -c.amount, "WITHDRAWAL")
      \/ Postings(c)[k] = Posting(c.from, -c.amount, "TRANSFER_OUT")
      \/ Postings(c)[k] = Posting(c.to, c.amount, "TRANSFER_IN")
  BY <1>2, PostingsAre DEF MoneyOps
<1> QED
  BY <1>1, <1>3 DEF Posting, TransactionType

(* The two postings of a transfer mirror each other, and only a transfer   *)
(* has postings of the transfer types.                                     *)
LEMMA TransferPostings ==
    ASSUME NEW c \in Commands, NEW k \in 1..Legs(c),
           Postings(c)[k].type \in {"TRANSFER_OUT", "TRANSFER_IN"}
    PROVE  /\ c.op = "transfer"
           /\ Legs(c) = 2
           /\ k = IF Postings(c)[k].type = "TRANSFER_OUT" THEN 1 ELSE 2
           /\ Postings(c)[1] = Posting(c.from, -c.amount, "TRANSFER_OUT")
           /\ Postings(c)[2] = Posting(c.to, c.amount, "TRANSFER_IN")
<1>0. \/ c.op = "transfer"
      \/ Postings(c)[k] = Posting(c.from, c.amount, "DEPOSIT")
      \/ Postings(c)[k] = Posting(c.from, -c.amount, "WITHDRAWAL")
  BY PostingsAre DEF MoneyOps
<1>1. c.op = "transfer"
  BY <1>0 DEF Posting
<1>2. Legs(c) = 2
  BY <1>1, PostingsLen
<1>3. Postings(c) = <<Posting(c.from, -c.amount, "TRANSFER_OUT"),
                      Posting(c.to, c.amount, "TRANSFER_IN")>>
  BY <1>1, PostingsByOp
<1>4. k = 1 \/ k = 2
  BY <1>2
<1> QED
  BY <1>1, <1>2, <1>3, <1>4 DEF Posting

-----------------------------------------------------------------------------
(* How the table and the transactions change.                              *)

(* Appending a row leaves the others where they are.                       *)
LEMMA AppendRow ==
    ASSUME NEW r \in Row, rows \in Seq(Row), rows' = Append(rows, r)
    PROVE  /\ rows' \in Seq(Row)
           /\ DOMAIN rows = 1..Len(rows)
           /\ DOMAIN rows' = DOMAIN rows \cup {Len(rows) + 1}
           /\ Len(rows) + 1 \notin DOMAIN rows
           /\ rows'[Len(rows) + 1] = r
           /\ \A i \in DOMAIN rows : rows'[i] = rows[i]
  OBVIOUS

(* A stored row has the fields of a row.                                   *)
LEMMA RowFields ==
    ASSUME rows \in Seq(Row), NEW i \in DOMAIN rows
    PROVE  /\ rows[i] \in Row
           /\ rows[i].task \in Tasks /\ rows[i].account \in Accounts
           /\ rows[i].amount \in Int /\ rows[i].type \in TransactionType
           /\ rows[i].prev \in Hash
<1>1. i \in 1..Len(rows)
  OBVIOUS
<1>2. rows[i] \in Row
  BY <1>1
<1> QED
  BY <1>2 DEF Row

(* What the chain trigger reads is a hash.                                 *)
LEMMA LatestHashTyped ==
    ASSUME rows \in Seq(Row), NEW S, S \subseteq DOMAIN rows
    PROVE  LatestHash(S) \subseteq Hash
<1>1. ASSUME NEW i \in S
      PROVE  CurrentHash(i) \in Hash
  <2>1. /\ rows[i].prev \in Hash /\ rows[i].account \in Accounts
        /\ rows[i].amount \in Int /\ rows[i].type \in TransactionType
    BY RowFields
  <2> QED
    BY <2>1 DEF CurrentHash, Posting, Hash
<1>2. <<>> \in Hash
  BY DEF Hash
<1> QED
  BY <1>1, <1>2 DEF LatestHash

(* What storing a row does.                                                *)
LEMMA StoredRow ==
    ASSUME TypeOK, CallProgress, NEW t \in Tasks, StoreRow(t)
    PROVE  LET p == Postings(cmd[t])[leg[t]]
           IN  /\ leg[t] \in 1..Legs(cmd[t])
               /\ leg' = [leg EXCEPT ![t] = leg[t] + 1]
               /\ cmd' = cmd /\ txn' = txn
               /\ rows' \in Seq(Row)
               /\ DOMAIN rows = 1..Len(rows)
               /\ DOMAIN rows' = DOMAIN rows \cup {Len(rows) + 1}
               /\ \A i \in DOMAIN rows : rows'[i] = rows[i]
               /\ rows'[Len(rows) + 1] =
                    [id |-> drawn[t], task |-> t, account |-> p.account,
                     amount |-> p.amount, type |-> p.type, prev |-> head[t]]
<1> USE DEF TypeOK
<1> DEFINE p == Postings(cmd[t])[leg[t]]
           row == [id |-> drawn[t], task |-> t, account |-> p.account,
                   amount |-> p.amount, type |-> p.type, prev |-> head[t]]
<1>0. Progress(t) /\ pc[t] = "store"
  BY DEF StoreRow, CallProgress
<1>1. leg[t] \in 1..Legs(cmd[t])
  <2>1. leg[t] \in 1..3 /\ Legs(cmd[t]) \in 0..2
    BY PostingsLen
  <2>2. leg[t] <= Legs(cmd[t])
    BY <1>0 DEF Progress, Inserting
  <2> QED
    BY <2>1, <2>2
<1>2. p.account \in Accounts /\ p.amount \in Int /\ p.type \in TransactionType
  BY <1>0, <1>1, PostingTyped DEF Progress, Due
<1>3. rows' = Append(rows, row)
  BY DEF StoreRow, Due
<1>4. row \in Row
  BY <1>2 DEF Row
<1>5. /\ rows' \in Seq(Row)
      /\ DOMAIN rows = 1..Len(rows)
      /\ DOMAIN rows' = DOMAIN rows \cup {Len(rows) + 1}
      /\ \A i \in DOMAIN rows : rows'[i] = rows[i]
      /\ rows'[Len(rows) + 1] = row
  BY <1>3, <1>4, AppendRow
<1>6. cmd' = cmd /\ txn' = txn /\ leg' = [leg EXCEPT ![t] = leg[t] + 1]
  BY DEF StoreRow, Goto
<1> QED
  BY <1>1, <1>5, <1>6

(* What every step does to the variables that are not the subject of the   *)
(* step: a command never changes.                                          *)
LEMMA CommandsFixed ==
    ASSUME [Next]_vars
    PROVE  cmd' = cmd
  BY DEF Next, vars, Step, LookupRefused, Lookup, ResolveRefused, Resolve,
         CheckBalance, BeginInsert, ReadHash, PassGuard, StoreRow, InsertRefused, Commit,
         CommitFails, Read, StatementFails, SetStatus, Crash, taskVars

-----------------------------------------------------------------------------
(* Types, and what the program counter says about the postings made.       *)

(* Every task starts well-typed, before its lookup.                        *)
LEMMA TypeInit == Init => TypeOK /\ CallProgress
<1> SUFFICES ASSUME Init
             PROVE  TypeOK /\ CallProgress
  OBVIOUS
<1>1. TypeOK
  BY DEF Init, TypeOK, Steps, Results, Hash
<1>2. \A t \in Tasks : Legs(cmd[t]) \in 0..2
  BY <1>1, PostingsLen DEF TypeOK
<1>3. CallProgress
  BY <1>2 DEF Init, CallProgress, Progress, Inserting
<1> QED
  BY <1>1, <1>3

(* No statement, failure, status change or crash disturbs the types.       *)
LEMMA TypeStep ==
    ASSUME TypeOK, CallProgress, [Next]_vars
    PROVE  TypeOK' /\ CallProgress'
<1> USE DEF TypeOK, Inserting, Due
<1>1. ASSUME NEW t \in Tasks
      PROVE  /\ cmd[t] \in Commands
             /\ Legs(cmd[t]) \in 0..2
             /\ cmd[t].op \in {"deposit", "withdraw"} => Legs(cmd[t]) = 1
             /\ cmd[t].op = "transfer" => Legs(cmd[t]) = 2
             /\ cmd[t].op \in ReadOps => Legs(cmd[t]) = 0
  BY PostingsLen
<1>2. ASSUME NEW t \in Tasks, LookupRefused(t)
      PROVE  TypeOK' /\ CallProgress'
  <2>1. TypeOK'
    BY <1>2 DEF LookupRefused, Reject, Finish, Steps, Results, BusinessErrors
  <2>2. Progress(t)'
    BY <1>2, <1>1 DEF LookupRefused, Reject, Finish, CallProgress, Progress
  <2>3. \A u \in Tasks \ {t} : Progress(u)'
    BY <1>2 DEF LookupRefused, Reject, Finish, CallProgress, Progress
  <2> QED
    BY <2>1, <2>2, <2>3 DEF CallProgress
<1>3. ASSUME NEW t \in Tasks, Lookup(t)
      PROVE  TypeOK' /\ CallProgress'
  <2>1. TypeOK'
    BY <1>3 DEF Lookup, Goto, Steps
  <2>2. Progress(t)'
    BY <1>3, <1>1 DEF Lookup, Goto, CallProgress, Progress, MoneyOps, ReadOps,
                      Debits
  <2>3. \A u \in Tasks \ {t} : Progress(u)'
    BY <1>3 DEF Lookup, Goto, CallProgress, Progress
  <2>4. CallProgress'
    BY <2>2, <2>3 DEF CallProgress
  <2> QED
    BY <2>1, <2>4
<1>4. ASSUME NEW t \in Tasks, ResolveRefused(t)
      PROVE  TypeOK' /\ CallProgress'
  <2>1. TypeOK'
    BY <1>4 DEF ResolveRefused, Reject, Finish, Steps, Results, BusinessErrors
  <2>2. CallProgress'
    BY <1>4, <1>1 DEF ResolveRefused, Reject, Finish, CallProgress, Progress
  <2> QED
    BY <2>1, <2>2
<1>5. ASSUME NEW t \in Tasks, Resolve(t)
      PROVE  TypeOK' /\ CallProgress'
  <2>1. TypeOK'
    BY <1>5 DEF Resolve, Goto, Steps
  <2>2. CallProgress'
    BY <1>5, <1>1 DEF Resolve, Goto, CallProgress, Progress, Debits
  <2> QED
    BY <2>1, <2>2
<1>6. ASSUME NEW t \in Tasks, CheckBalance(t)
      PROVE  TypeOK' /\ CallProgress'
  <2>1. OnAccount(Visible(t), cmd[t].from) \subseteq Nat
    BY DEF OnAccount, Visible, Committed, RowsOf
  <2>2. TypeOK'
    BY <1>6, <2>1 DEF CheckBalance, Goto, Reject, Finish, Steps, Results,
                      BusinessErrors
  <2>3. Progress(t)'
    BY <1>6, <1>1 DEF CheckBalance, Goto, Reject, Finish, CallProgress,
                      Progress, Debits, MoneyOps
  <2>4. \A u \in Tasks \ {t} : Progress(u)'
    BY <1>6 DEF CheckBalance, Goto, Reject, Finish, CallProgress, Progress
  <2> QED
    BY <2>2, <2>3, <2>4 DEF CallProgress
<1>7. ASSUME NEW t \in Tasks, BeginInsert(t)
      PROVE  TypeOK' /\ CallProgress'
  <2>1. TypeOK'
    BY <1>7 DEF BeginInsert, Goto, Steps
  <2>2. CallProgress'
    BY <1>7, <1>1 DEF BeginInsert, Goto, CallProgress, Progress
  <2> QED
    BY <2>1, <2>2
<1>8. ASSUME NEW t \in Tasks, StoreRow(t)
      PROVE  TypeOK' /\ CallProgress'
  <2>1. /\ leg[t] \in 1..Legs(cmd[t])
        /\ leg[t] + 1 \in 1..3
    <3>1. Progress(t) /\ pc[t] = "store"
      BY <1>8 DEF StoreRow, CallProgress
    <3>2. leg[t] \in 1..3 /\ Legs(cmd[t]) \in 0..2
      BY <1>1
    <3>3. leg[t] <= Legs(cmd[t])
      BY <3>1 DEF Progress
    <3> QED
      BY <3>2, <3>3
  <2>2. rows' \in Seq(Row)
    BY <1>8, StoredRow
  <2>5. head' \in [Tasks -> Hash]
    <3>1. head' = [head EXCEPT ![t] = <<>>] /\ <<>> \in Hash
      BY <1>8 DEF StoreRow, Hash
    <3> QED
      BY <3>1
  <2>3. TypeOK'
    BY <1>8, <1>1, <2>1, <2>2, <2>5 DEF StoreRow, Goto, Steps
  <2>4. CallProgress'
    BY <1>8, <1>1, <2>1 DEF StoreRow, Goto, CallProgress, Progress
  <2> QED
    BY <2>3, <2>4
<1>17. ASSUME NEW t \in Tasks, ReadHash(t)
       PROVE  TypeOK' /\ CallProgress'
  <2>1. OnAccount(Visible(t), Due(t).account) \subseteq DOMAIN rows
    BY DEF OnAccount, Visible, Committed, RowsOf
  <2>2. LatestHash(OnAccount(Visible(t), Due(t).account)) \subseteq Hash
    BY <2>1, LatestHashTyped
  <2>3. TypeOK'
    BY <1>17, <2>2 DEF ReadHash, Goto, Steps
  <2>4. CallProgress'
    BY <1>17, <1>1 DEF ReadHash, Goto, CallProgress, Progress
  <2> QED
    BY <2>3, <2>4
<1>18. ASSUME NEW t \in Tasks, PassGuard(t)
       PROVE  TypeOK' /\ CallProgress'
  <2>1. TypeOK'
    BY <1>18 DEF PassGuard, Goto, Steps
  <2>2. CallProgress'
    BY <1>18, <1>1 DEF PassGuard, Goto, CallProgress, Progress
  <2> QED
    BY <2>1, <2>2
<1>9. ASSUME NEW t \in Tasks, InsertRefused(t)
      PROVE  TypeOK' /\ CallProgress'
  <2>1. TypeOK'
    BY <1>9 DEF InsertRefused, Reject, Finish, Steps, Results, BusinessErrors
  <2>2. CallProgress'
    BY <1>9, <1>1 DEF InsertRefused, Reject, Finish, CallProgress, Progress
  <2> QED
    BY <2>1, <2>2
<1>10. ASSUME NEW t \in Tasks, Commit(t)
       PROVE  TypeOK' /\ CallProgress'
  <2>1. TypeOK'
    BY <1>10 DEF Commit, Finish, Steps, Results
  <2>2. CallProgress'
    BY <1>10, <1>1 DEF Commit, Finish, CallProgress, Progress
  <2> QED
    BY <2>1, <2>2
<1>11. ASSUME NEW t \in Tasks, CommitFails(t)
       PROVE  TypeOK' /\ CallProgress'
  <2>1. TypeOK'
    BY <1>11 DEF CommitFails, Finish, Steps, Results
  <2>2. CallProgress'
    BY <1>11, <1>1 DEF CommitFails, Finish, CallProgress, Progress
  <2> QED
    BY <2>1, <2>2
<1>12. ASSUME NEW t \in Tasks, Read(t)
       PROVE  TypeOK' /\ CallProgress'
  <2>1. /\ OnAccount(Visible(t), cmd[t].from) \subseteq Nat
        /\ \A n : Newest(OnAccount(Visible(t), cmd[t].from), n) \subseteq Nat
    BY DEF OnAccount, Visible, Committed, RowsOf, Newest
  <2>2. TypeOK'
    BY <1>12, <2>1 DEF Read, Finish, Steps, Results
  <2>3. CallProgress'
    BY <1>12, <1>1 DEF Read, Finish, CallProgress, Progress
  <2> QED
    BY <2>2, <2>3
<1>13. ASSUME NEW t \in Tasks, StatementFails(t)
       PROVE  TypeOK' /\ CallProgress'
  <2>1. TypeOK'
    BY <1>13 DEF StatementFails, Reject, Finish, Steps, Results
  <2>2. CallProgress'
    BY <1>13, <1>1 DEF StatementFails, Reject, Finish, CallProgress, Progress
  <2> QED
    BY <2>1, <2>2
<1>14. ASSUME NEW x \in Accounts, SetStatus(x)
       PROVE  TypeOK' /\ CallProgress'
  <2>1. TypeOK'
    BY <1>14 DEF SetStatus, taskVars
  <2>2. CallProgress'
    BY <1>14 DEF SetStatus, taskVars, CallProgress, Progress
  <2> QED
    BY <2>1, <2>2
<1>15. ASSUME Crash
       PROVE  TypeOK' /\ CallProgress'
  <2>1. PICK landed \in SUBSET {t \in Tasks : pc[t] \notin {"lookup", "done"}
                                            /\ pc[t] = "commit"} :
           txn' = [t \in Tasks |->
                     IF t \in landed THEN "committed"
                     ELSE IF pc[t] \notin {"lookup", "done"} THEN "rolledback"
                     ELSE txn[t]]
    BY <1>15 DEF Crash
  <2>2. TypeOK'
    BY <1>15, <2>1 DEF Crash, Steps, Results
  <2>3. CallProgress'
    BY <1>15, <1>1, <2>1 DEF Crash, CallProgress, Progress
  <2> QED
    BY <2>2, <2>3
<1>16. CASE UNCHANGED vars
  BY <1>16 DEF vars, CallProgress, Progress
<1> QED
  BY <1>2, <1>3, <1>4, <1>5, <1>6, <1>7, <1>8, <1>9, <1>10, <1>11, <1>12,
     <1>13, <1>14, <1>15, <1>16, <1>17, <1>18 DEF Next, Step

(* Every variable of Ledger keeps its type, and a call has inserted what   *)
(* its program counter says.                                               *)
THEOREM TypeCorrect == Spec => [](TypeOK /\ CallProgress)
  BY TypeInit, TypeStep, PTL DEF Spec

-----------------------------------------------------------------------------
(* Frames: which steps touch the table, a transaction, a call.             *)

(* Only StoreRow stores a row, and only then does a call move to its next *)
(* posting.                                                                *)
LEMMA TableFrame ==
    ASSUME [Next]_vars
    PROVE  UNCHANGED <<rows, leg>> \/ \E t \in Tasks : StoreRow(t)
  BY DEF Next, vars, Step, LookupRefused, Lookup, ResolveRefused, Resolve,
         CheckBalance, BeginInsert, ReadHash, PassGuard, InsertRefused, Commit,
         CommitFails, Read,
         StatementFails, SetStatus, Crash, taskVars

(* A transaction that has ended stays as it ended.                         *)
LEMMA TxnFinal ==
    ASSUME TypeOK, CallProgress, [Next]_vars, NEW u \in Tasks, txn[u] # "open"
    PROVE  txn'[u] = txn[u]
<1> USE DEF TypeOK
<1>1. pc[u] = "done"
  BY DEF CallProgress, Progress
<1>2. ASSUME NEW t \in Tasks, Step(t)
      PROVE  txn'[u] = txn[u]
  <2>1. ASSUME NEW e, Reject(t, e), pc[t] # "done"
        PROVE  txn'[u] = txn[u]
    BY <1>1, <2>1 DEF Reject, Finish
  <2>2. ASSUME NEW e, NEW x, Finish(t, e, x), pc[t] # "done"
        PROVE  txn'[u] = txn[u]
    BY <1>1, <2>2 DEF Finish
  <2> QED
    BY <1>2, <2>1, <2>2
       DEF Step, LookupRefused, Lookup, ResolveRefused, Resolve, CheckBalance,
           BeginInsert, ReadHash, PassGuard, StoreRow, InsertRefused, Commit, CommitFails, Read,
           StatementFails, Goto
<1>3. ASSUME NEW x \in Accounts, SetStatus(x)
      PROVE  txn'[u] = txn[u]
  BY <1>3 DEF SetStatus, taskVars
<1>4. ASSUME Crash
      PROVE  txn'[u] = txn[u]
  BY <1>1, <1>4 DEF Crash
<1> QED
  BY <1>2, <1>3, <1>4 DEF Next, vars

(* A call stays where it is, ends, or goes forward by one of its own       *)
(* steps.                                                                  *)
LEMMA CallFrame ==
    ASSUME TypeOK, [Next]_vars, NEW u \in Tasks
    PROVE  \/ leg'[u] = leg[u] /\ pc'[u] \in {pc[u], "done"}
           \/ Lookup(u) \/ Resolve(u) \/ CheckBalance(u) \/ BeginInsert(u)
           \/ ReadHash(u) \/ PassGuard(u) \/ StoreRow(u)
<1> USE DEF TypeOK
<1>1. ASSUME NEW t \in Tasks, Step(t), u = t
      PROVE  \/ leg'[u] = leg[u] /\ pc'[u] \in {pc[u], "done"}
             \/ Lookup(u) \/ Resolve(u) \/ CheckBalance(u) \/ BeginInsert(u)
             \/ ReadHash(u) \/ PassGuard(u) \/ StoreRow(u)
  BY <1>1 DEF Step, LookupRefused, ResolveRefused, InsertRefused, Commit,
              CommitFails, Read, StatementFails, Reject, Finish
<1>2. ASSUME NEW t \in Tasks, Step(t), u # t
      PROVE  leg'[u] = leg[u] /\ pc'[u] = pc[u]
  BY <1>2 DEF Step, LookupRefused, Lookup, ResolveRefused, Resolve,
              CheckBalance, BeginInsert, ReadHash, PassGuard, StoreRow, InsertRefused, Commit,
              CommitFails, Read, StatementFails, Goto, Reject, Finish
<1>3. ASSUME NEW x \in Accounts, SetStatus(x)
      PROVE  leg'[u] = leg[u] /\ pc'[u] = pc[u]
  BY <1>3 DEF SetStatus, taskVars
<1>4. ASSUME Crash
      PROVE  leg'[u] = leg[u] /\ pc'[u] \in {pc[u], "done"}
  BY <1>4 DEF Crash
<1> QED
  BY <1>1, <1>2, <1>3, <1>4 DEF Next, vars

-----------------------------------------------------------------------------
(* The checks a call has passed.                                           *)

(* No step lets a call past its checks unchecked.                          *)
LEMMA CheckedStep ==
    ASSUME TypeOK, CallProgress, CallChecked, [Next]_vars
    PROVE  CallChecked'
<1> SUFFICES ASSUME NEW u \in Tasks
             PROVE  Checked(u)'
  BY DEF CallChecked
<1> USE DEF TypeOK, Inserting
<1>1. Checked(u) /\ Progress(u) /\ cmd'[u] = cmd[u]
  BY CommandsFixed DEF CallChecked, CallProgress
<1>2. cmd[u].op \in MoneyOps \cup ReadOps
  BY CommandFields
<1>3. CASE leg'[u] = leg[u] /\ pc'[u] \in {pc[u], "done"}
  BY <1>1, <1>3 DEF Checked
<1>4. CASE Lookup(u)
  BY <1>1, <1>2, <1>4 DEF Lookup, Goto, Checked, Progress, ReadOps
<1>5. CASE Resolve(u)
  BY <1>1, <1>5 DEF Resolve, Goto, Checked
<1>6. CASE CheckBalance(u)
  BY <1>1, <1>6 DEF CheckBalance, Goto, Reject, Finish, Checked
<1>7. CASE BeginInsert(u)
  BY <1>1, <1>7 DEF BeginInsert, Goto, Checked
<1>8. CASE ReadHash(u) \/ PassGuard(u)
  BY <1>1, <1>8 DEF ReadHash, PassGuard, Goto, Checked
<1>9. CASE StoreRow(u)
  BY <1>1, <1>9 DEF StoreRow, Goto, Checked
<1> QED
  BY <1>3, <1>4, <1>5, <1>6, <1>7, <1>8, <1>9, CallFrame

-----------------------------------------------------------------------------
(* The answers of a call.                                                  *)

(* Each operation may be refused for what its own statements check.        *)
LEMMA RefusalsOf ==
    ASSUME NEW op \in MoneyOps \cup ReadOps
    PROVE  /\ LookupErrors \subseteq ServiceRefusals(op)
           /\ op \in MoneyOps => "AccountNotActive" \in ServiceRefusals(op)
           /\ op \in {"withdraw", "transfer"} =>
                 "InsufficientFunds" \in ServiceRefusals(op)
           /\ op = "transfer" => "SelfTransferNotAllowed" \in ServiceRefusals(op)
           /\ ServiceRefusals(op) \subseteq BusinessErrors
  BY DEF MoneyOps, ReadOps, ServiceRefusals, LookupErrors, BusinessErrors

(* A call that ends with a refusal of its operation, rolled back, or with  *)
(* a database error, is answered truly.                                    *)
LEMMA RejectAnswers ==
    ASSUME TypeOK, NEW t \in Tasks, cmd' = cmd, NEW e,
           e \in ServiceRefusals(cmd[t].op) \cup {"DatabaseError"},
           Reject(t, e)
    PROVE  Answered(t)'
<1> USE DEF TypeOK
<1>1. pc'[t] = "done" /\ result'[t] = e /\ txn'[t] = "rolledback"
  BY DEF Reject, Finish
<1>2. cmd[t].op \in MoneyOps \cup ReadOps
  BY CommandFields
<1>3. e # "Ok"
  BY <1>2, RefusalsOf DEF BusinessErrors
<1> QED
  BY <1>1, <1>3 DEF Answered

(* No step gives a call an answer that is not true of it.                  *)
LEMMA AnsweredStep ==
    ASSUME TypeOK, CallProgress, CallAnswered, [Next]_vars
    PROVE  CallAnswered'
<1> SUFFICES ASSUME NEW u \in Tasks
             PROVE  Answered(u)'
  BY DEF CallAnswered
<1> USE DEF TypeOK
<1>1. Answered(u) /\ Progress(u) /\ cmd' = cmd
  BY CommandsFixed DEF CallAnswered, CallProgress
<1>2. cmd[u].op \in MoneyOps \cup ReadOps
  BY CommandFields
<1>3. ASSUME pc'[u] = pc[u], result'[u] = result[u], txn'[u] = txn[u]
      PROVE  Answered(u)'
  BY <1>1, <1>3 DEF Answered
<1>4. ASSUME NEW step \in Steps \ {"done"}, Goto(u, step), pc[u] # "done",
             step = "read" => cmd[u].op \in ReadOps
      PROVE  Answered(u)'
  BY <1>1, <1>4 DEF Answered, Goto
<1>5. ASSUME Step(u)
      PROVE  Answered(u)'
  <2>1. CASE LookupRefused(u)
    <3>1. PICK e \in {"AccountNotFound", "UnauthorizedAccountAccess",
                       "AccountNotActive"} :
             /\ Reject(u, e)
             /\ e = "AccountNotActive" => cmd[u].op \in MoneyOps
      BY <2>1 DEF LookupRefused
    <3>2. e \in ServiceRefusals(cmd[u].op)
      BY <1>2, <3>1, RefusalsOf DEF LookupErrors
    <3> QED
      BY <1>1, <3>1, <3>2, RejectAnswers
  <2>2. CASE Lookup(u)
    BY <1>2, <1>4, <2>2 DEF Lookup, Steps, MoneyOps, ReadOps
  <2>3. CASE ResolveRefused(u)
    <3>1. cmd[u].op = "transfer"
      BY <1>1, <2>3 DEF ResolveRefused, Progress
    <3>2. PICK e \in {"AccountNotFound", "AccountNotActive",
                       "SelfTransferNotAllowed"} : Reject(u, e)
      BY <2>3 DEF ResolveRefused
    <3>3. e \in ServiceRefusals(cmd[u].op)
      BY <1>2, <3>1, <3>2, RefusalsOf DEF LookupErrors, MoneyOps
    <3> QED
      BY <1>1, <3>2, <3>3, RejectAnswers
  <2>4. CASE Resolve(u)
    BY <1>4, <2>4 DEF Resolve, Steps
  <2>5. CASE CheckBalance(u)
    <3>1. Reject(u, "InsufficientFunds") \/ Goto(u, "begin")
      BY <2>5 DEF CheckBalance
    <3>2. "InsufficientFunds" \in ServiceRefusals(cmd[u].op) /\ pc[u] # "done"
      BY <1>1, <1>2, <2>5, RefusalsOf DEF CheckBalance, Progress, Debits
    <3> QED
      BY <1>1, <1>4, <3>1, <3>2, RejectAnswers DEF Steps
  <2>6. CASE BeginInsert(u)
    BY <1>4, <2>6 DEF BeginInsert, Steps, Inserting
  <2>7. CASE ReadHash(u) \/ PassGuard(u) \/ StoreRow(u)
    BY <1>4, <2>7 DEF ReadHash, PassGuard, StoreRow, Steps, Inserting
  <2>8. CASE InsertRefused(u)
    <3>1. PICK e \in {"DatabaseError", "AccountNotActive"} : Reject(u, e)
      BY <2>8 DEF InsertRefused
    <3>2. e \in ServiceRefusals(cmd[u].op) \cup {"DatabaseError"}
      BY <1>1, <1>2, <2>8, <3>1, RefusalsOf
         DEF InsertRefused, Progress, Inserting
    <3> QED
      BY <1>1, <3>1, <3>2, RejectAnswers
  <2>9. CASE Commit(u)
    BY <1>1, <2>9 DEF Commit, Finish, Answered, BusinessErrors
  <2>10. CASE CommitFails(u)
    BY <1>1, <2>10 DEF CommitFails, Finish, Answered, BusinessErrors
  <2>11. CASE Read(u)
    <3>1. Finish(u, "Ok", "rolledback") /\ cmd[u].op \notin MoneyOps
      BY <1>1, <2>11 DEF Read, Answered, MoneyOps, ReadOps
    <3> QED
      BY <1>1, <3>1 DEF Finish, Answered, BusinessErrors
  <2>12. CASE StatementFails(u)
    BY <1>1, <2>12, RejectAnswers DEF StatementFails
  <2> QED
    BY <1>5, <2>1, <2>2, <2>3, <2>4, <2>5, <2>6, <2>7, <2>8, <2>9, <2>10,
       <2>11, <2>12 DEF Step
<1>6. ASSUME NEW t \in Tasks, Step(t), t # u
      PROVE  Answered(u)'
  <2>1. pc'[u] = pc[u] /\ result'[u] = result[u] /\ txn'[u] = txn[u]
    BY <1>6 DEF Step, LookupRefused, Lookup, ResolveRefused, Resolve,
                CheckBalance, BeginInsert, ReadHash, PassGuard, StoreRow, InsertRefused,
                Commit, CommitFails, Read, StatementFails, Goto, Reject, Finish
  <2> QED
    BY <1>3, <2>1
<1>7. ASSUME NEW x \in Accounts, SetStatus(x)
      PROVE  Answered(u)'
  BY <1>3, <1>7 DEF SetStatus, taskVars
<1>8. ASSUME Crash
      PROVE  Answered(u)'
  <2>1. CASE pc'[u] = pc[u] /\ result'[u] = result[u] /\ txn'[u] = txn[u]
    BY <1>3, <2>1
  <2>2. CASE pc'[u] = "done" /\ result'[u] = "Crashed"
    BY <1>1, <2>2 DEF Answered, BusinessErrors
  <2> QED
    BY <1>8, <2>1, <2>2 DEF Crash
<1> QED
  BY <1>3, <1>5, <1>6, <1>7, <1>8 DEF Next, vars

-----------------------------------------------------------------------------
(* The rows of a call are its postings, and the chain is grounded.         *)

(* A row that stays records the same posting.                              *)
LEMMA RecordsStay ==
    ASSUME cmd' = cmd, NEW i, NEW u, NEW k, rows'[i] = rows[i]
    PROVE  Records(i, u, k)' <=> Records(i, u, k)
  BY DEF Records

(* No step disturbs the record of what the calls have inserted.            *)
LEMMA PostingsStep ==
    ASSUME TypeOK, CallProgress, RowsArePostings, [Next]_vars
    PROVE  RowsArePostings'
<1> USE DEF TypeOK
<1>1. CASE UNCHANGED <<rows, leg>>
  <2>1. cmd' = cmd /\ rows' = rows /\ leg' = leg
    BY <1>1, CommandsFixed
  <2>2. \A i, u, k : Records(i, u, k)' <=> Records(i, u, k)
    BY <2>1, RecordsStay
  <2> QED
    BY <2>1, <2>2 DEF RowsArePostings
<1>2. ASSUME NEW t \in Tasks, StoreRow(t)
      PROVE  RowsArePostings'
  <2>0. PICK n, l : n = Len(rows) + 1 /\ l = leg[t]
    OBVIOUS
  <2> DEFINE p == Postings(cmd[t])[l]
  <2>1. /\ l \in 1..Legs(cmd[t])
        /\ leg' = [leg EXCEPT ![t] = l + 1]
        /\ cmd' = cmd
        /\ DOMAIN rows' = DOMAIN rows \cup {n}
        /\ \A i \in DOMAIN rows : rows'[i] = rows[i]
        /\ rows'[n] = [id |-> drawn[t], task |-> t, account |-> p.account,
                       amount |-> p.amount, type |-> p.type, prev |-> head[t]]
    BY <1>2, <2>0, StoredRow
  <2>2. ASSUME NEW i \in DOMAIN rows'
        PROVE  \E k \in 1..(leg'[rows'[i].task] - 1) :
                  Records(i, rows[i].task, k)'
    <3>1. CASE i \in DOMAIN rows
      <4>1. rows'[i] = rows[i] /\ rows[i].task \in Tasks
        BY <2>1, <3>1, RowFields
      <4>2. PICK k \in 1..(leg[rows[i].task] - 1) : Records(i, rows[i].task, k)
        BY <3>1 DEF RowsArePostings
      <4>3. leg'[rows[i].task] \in {leg[rows[i].task], leg[rows[i].task] + 1}
        BY <2>0, <2>1, <4>1
      <4>4. leg[rows[i].task] \in 1..3
        BY <4>1
      <4>5. k \in 1..(leg'[rows[i].task] - 1)
        BY <4>2, <4>3, <4>4
      <4> QED
        BY <2>1, <4>1, <4>2, <4>5, RecordsStay
    <3>2. CASE i = n
      <4>1. l \in 1..(leg'[t] - 1)
        BY <2>1
      <4>2. rows'[i].task = t
        BY <2>1, <3>2
      <4>3. Records(n, t, l)'
        BY <2>1 DEF Records
      <4> QED
        BY <3>2, <4>1, <4>2, <4>3
    <3> QED
      BY <2>1, <3>1, <3>2
  <2>3. ASSUME NEW u \in Tasks, NEW k \in 1..(leg'[u] - 1)
        PROVE  \E i \in DOMAIN rows' : Records(i, u, k)'
    <3>1. CASE k \in 1..(leg[u] - 1)
      <4>1. PICK i \in DOMAIN rows : Records(i, u, k)
        BY <3>1 DEF RowsArePostings
      <4> QED
        BY <2>1, <4>1, RecordsStay
    <3>2. CASE k \notin 1..(leg[u] - 1)
      <4>1. u = t /\ k = l
        BY <2>0, <2>1, <3>2
      <4>2. Records(n, t, l)'
        BY <2>1 DEF Records
      <4> QED
        BY <2>1, <4>1, <4>2
    <3> QED
      BY <3>1, <3>2
  <2> QED
    BY <2>2, <2>3 DEF RowsArePostings
<1> QED
  BY <1>1, <1>2, TableFrame

(* What is committed stays committed.                                      *)
LEMMA CommittedGrows ==
    ASSUME TypeOK, CallProgress, [Next]_vars, NEW i \in Committed
    PROVE  i \in Committed' /\ rows'[i] = rows[i]
<1> USE DEF TypeOK
<1>1. i \in DOMAIN rows /\ txn[rows[i].task] = "committed" /\ rows[i].task \in Tasks
  BY RowFields DEF Committed
<1>2. i \in DOMAIN rows' /\ rows'[i] = rows[i]
  <2>1. CASE UNCHANGED <<rows, leg>>
    BY <1>1, <2>1
  <2>2. ASSUME NEW t \in Tasks, StoreRow(t)
        PROVE  i \in DOMAIN rows' /\ rows'[i] = rows[i]
    BY <1>1, <2>2, StoredRow
  <2> QED
    BY <2>1, <2>2, TableFrame
<1>3. txn'[rows[i].task] = "committed"
  BY <1>1, TxnFinal
<1> QED
  BY <1>2, <1>3 DEF Committed

(* A call never reads a row of its own when it looks for the predecessor   *)
(* of the next: its two rows are on different accounts.                    *)
LEMMA PredecessorCommitted ==
    ASSUME TypeOK, LedgerInv, NEW t \in Tasks, leg[t] \in 1..Legs(cmd[t]),
           NEW i \in OnAccount(Visible(t), Postings(cmd[t])[leg[t]].account)
    PROVE  i \in Committed
<1> USE DEF TypeOK
<1>1. i \in DOMAIN rows /\ rows[i].account = Postings(cmd[t])[leg[t]].account
  BY DEF OnAccount, Visible, Committed, RowsOf
<1>2. SUFFICES ASSUME rows[i].task = t
               PROVE  FALSE
  BY DEF OnAccount, Visible, RowsOf
<1>3. PICK k \in 1..(leg[t] - 1) : Records(i, t, k)
  BY <1>1, <1>2 DEF LedgerInv, RowsArePostings
<1>4. cmd[t] \in Commands /\ leg[t] \in 1..3 /\ Legs(cmd[t]) \in 0..2
  BY PostingsLen
<1>5. k = 1 /\ leg[t] = 2 /\ Legs(cmd[t]) = 2
  BY <1>3, <1>4
<1>6. cmd[t].op = "transfer"
  <2>1. cmd[t].op \in MoneyOps \cup ReadOps
    BY <1>4, CommandFields
  <2> QED
    BY <1>4, <1>5, <2>1, PostingsLen DEF MoneyOps
<1>7. cmd[t].to # cmd[t].from
  BY <1>5, <1>6 DEF LedgerInv, CallChecked, Checked
<1>8. /\ Postings(cmd[t])[1].account = cmd[t].from
      /\ Postings(cmd[t])[2].account = cmd[t].to
  BY <1>4, <1>6, PostingsByOp DEF Posting
<1> QED
  BY <1>1, <1>3, <1>5, <1>7, <1>8 DEF Records

(* The hash that a chain trigger reads is NULL or that of a committed row  *)
(* of the account.                                                         *)
LEMMA HashRead ==
    ASSUME TypeOK, LedgerInv, NEW t \in Tasks, ReadHash(t)
    PROVE  head'[t] # <<>> =>
              \E j \in OnAccount(Committed, Due(t).account) :
                  head'[t] = CurrentHash(j)
<1> USE DEF TypeOK
<1>1. leg[t] \in 1..Legs(cmd[t])
  <2>1. Progress(t) /\ pc[t] \in Inserting
    BY DEF ReadHash, Inserting, LedgerInv, CallProgress
  <2>2. leg[t] \in 1..3 /\ Legs(cmd[t]) \in 0..2
    BY PostingsLen
  <2>3. leg[t] <= Legs(cmd[t])
    BY <2>1 DEF Progress
  <2> QED
    BY <2>2, <2>3
<1> DEFINE S == OnAccount(Visible(t), Due(t).account)
<1>2. head'[t] \in LatestHash(S)
  BY DEF ReadHash
<1>3. CASE S = {}
  BY <1>2, <1>3 DEF LatestHash
<1>4. CASE S # {}
  <2>1. PICK j \in S : head'[t] = CurrentHash(j)
    BY <1>2, <1>4 DEF LatestHash
  <2>2. j \in Committed /\ rows[j].account = Due(t).account
    BY <1>1, PredecessorCommitted DEF Due, OnAccount
  <2> QED
    BY <2>1, <2>2 DEF OnAccount
<1> QED
  BY <1>3, <1>4

(* A call keeps the hash it has read until it stores its row.              *)
LEMMA HeadFrame ==
    ASSUME TypeOK, [Next]_vars, NEW u \in Tasks,
           pc'[u] \in {"chained", "store"}
    PROVE  /\ leg'[u] = leg[u]
           /\ \/ ReadHash(u)
              \/ pc[u] \in {"chained", "store"} /\ head'[u] = head[u]
<1> USE DEF TypeOK
<1>1. ASSUME NEW t \in Tasks, Step(t), u # t
      PROVE  leg'[u] = leg[u] /\ pc'[u] = pc[u] /\ head'[u] = head[u]
  BY <1>1 DEF Step, LookupRefused, Lookup, ResolveRefused, Resolve,
              CheckBalance, BeginInsert, ReadHash, PassGuard, StoreRow,
              InsertRefused, Commit, CommitFails, Read, StatementFails, Goto,
              Reject, Finish
<1>2. CASE Step(u)
  BY <1>2 DEF Step, LookupRefused, Lookup, ResolveRefused, Resolve,
              CheckBalance, BeginInsert, ReadHash, PassGuard, StoreRow,
              InsertRefused, Commit, CommitFails, Read, StatementFails, Goto,
              Reject, Finish
<1>3. ASSUME NEW x \in Accounts, SetStatus(x)
      PROVE  leg'[u] = leg[u] /\ pc'[u] = pc[u] /\ head'[u] = head[u]
  BY <1>3 DEF SetStatus, taskVars
<1>4. CASE Crash
  BY <1>4 DEF Crash
<1> QED
  BY <1>1, <1>2, <1>3, <1>4 DEF Next, vars

(* No step takes away the row whose hash a trigger has read.               *)
LEMMA HeadsStep ==
    ASSUME TypeOK, LedgerInv, [Next]_vars
    PROVE  HeadsGrounded'
<1> USE DEF TypeOK
<1>1. CallProgress /\ HeadsGrounded /\ cmd' = cmd
  BY CommandsFixed DEF LedgerInv
<1> SUFFICES ASSUME NEW u \in Tasks, pc'[u] \in {"chained", "store"},
                    head'[u] # <<>>
             PROVE  \E j \in OnAccount(Committed, Due(u).account)' :
                        head'[u] = CurrentHash(j)'
  BY DEF HeadsGrounded
<1>2. PICK j \in OnAccount(Committed, Due(u).account) : head'[u] = CurrentHash(j)
  BY <1>1, HeadFrame, HashRead DEF HeadsGrounded
<1>3. j \in Committed' /\ rows'[j] = rows[j]
  BY <1>1, CommittedGrows DEF OnAccount
<1>4. Due(u)' = Due(u)
  BY <1>1, HeadFrame DEF Due
<1>5. CurrentHash(j)' = CurrentHash(j)
  BY <1>3 DEF CurrentHash
<1>6. j \in OnAccount(Committed, Due(u).account)'
  BY <1>2, <1>3, <1>4 DEF OnAccount
<1> QED
  BY <1>2, <1>5, <1>6

(* Every step keeps the hash chain grounded in the committed rows.         *)
LEMMA ChainStep ==
    ASSUME TypeOK, LedgerInv, [Next]_vars
    PROVE  ChainIsGrounded'
<1> USE DEF TypeOK
<1>1. CallProgress /\ ChainIsGrounded /\ HeadsGrounded
  BY DEF LedgerInv
<1>2. \A j \in Committed : j \in Committed' /\ rows'[j] = rows[j]
  BY <1>1, CommittedGrows
<1>3. ASSUME NEW h, NEW x, NEW j \in OnAccount(Committed, x), h = CurrentHash(j)
      PROVE  j \in OnAccount(Committed, x)' /\ h = CurrentHash(j)'
  BY <1>2, <1>3 DEF OnAccount, CurrentHash
<1>4. ASSUME NEW i \in DOMAIN rows, rows'[i] = rows[i], rows'[i].prev # <<>>
      PROVE  \E j \in OnAccount(Committed, rows[i].account)' :
                 j < i /\ rows'[i].prev = CurrentHash(j)'
  <2>1. PICK j \in OnAccount(Committed, rows[i].account) :
           j < i /\ rows[i].prev = CurrentHash(j)
    BY <1>1, <1>4 DEF ChainIsGrounded
  <2> QED
    BY <1>3, <1>4, <2>1
<1>5. CASE UNCHANGED <<rows, leg>>
  BY <1>4, <1>5 DEF ChainIsGrounded
<1>6. ASSUME NEW t \in Tasks, StoreRow(t)
      PROVE  ChainIsGrounded'
  <2> DEFINE p == Postings(cmd[t])[leg[t]]
  <2>0. PICK n, a : n = Len(rows) + 1 /\ a = p.account
    OBVIOUS
  <2>1. /\ DOMAIN rows = 1..Len(rows)
        /\ DOMAIN rows' = DOMAIN rows \cup {n}
        /\ \A i \in DOMAIN rows : rows'[i] = rows[i]
        /\ rows'[n] = [id |-> drawn[t], task |-> t, account |-> p.account,
                       amount |-> p.amount, type |-> p.type, prev |-> head[t]]
    BY <1>1, <1>6, <2>0, StoredRow
  <2>4. rows'[n].prev = head[t] /\ rows'[n].account = a
    BY <2>0, <2>1
  <2>2. ASSUME head[t] # <<>>
        PROVE  \E j \in OnAccount(Committed, a)' :
                   j < n /\ head[t] = CurrentHash(j)'
    <3>1. PICK j \in OnAccount(Committed, a) : head[t] = CurrentHash(j)
      BY <1>1, <1>6, <2>0, <2>2 DEF HeadsGrounded, StoreRow, Due
    <3>2. j \in 1..Len(rows)
      BY <2>1 DEF OnAccount, Committed
    <3> QED
      BY <1>3, <2>0, <3>1, <3>2
  <2>3. ASSUME NEW i \in DOMAIN rows', rows'[i].prev # <<>>
        PROVE  \E j \in OnAccount(Committed, rows[i].account)' :
                   j < i /\ rows'[i].prev = CurrentHash(j)'
    <3>1. CASE i \in DOMAIN rows
      BY <1>4, <2>1, <2>3, <3>1
    <3>2. CASE i = n
      <4>1. OnAccount(Committed, rows[i].account)' = OnAccount(Committed, a)'
        BY <2>4, <3>2
      <4> QED
        BY <2>2, <2>3, <2>4, <3>2, <4>1
    <3> QED
      BY <2>1, <3>1, <3>2
  <2> QED
    BY <2>3 DEF ChainIsGrounded
<1> QED
  BY <1>5, <1>6, TableFrame

-----------------------------------------------------------------------------
(* The inductive invariant and what follows from it.                       *)

(* The empty ledger satisfies the inductive invariant.                     *)
LEMMA InvInit == Init => LedgerInv
<1> SUFFICES ASSUME Init
             PROVE  LedgerInv
  OBVIOUS
<1>1. CallProgress
  BY TypeInit
<1>2. CallChecked
  BY DEF Init, CallChecked, Checked, Inserting
<1>3. RowsArePostings
  BY DEF Init, RowsArePostings
<1>4. HeadsGrounded
  BY DEF Init, HeadsGrounded
<1>6. ChainIsGrounded
  <2>1. DOMAIN rows = {}
    BY DEF Init
  <2> QED
    BY <2>1 DEF ChainIsGrounded
<1>5. CallAnswered
  BY DEF Init, CallAnswered, Answered, BusinessErrors
<1> QED
  BY <1>1, <1>2, <1>3, <1>4, <1>5, <1>6 DEF LedgerInv

(* Every step of the service preserves the inductive invariant.            *)
LEMMA InvStep ==
    ASSUME TypeOK, LedgerInv, [Next]_vars
    PROVE  LedgerInv'
<1>1. CallProgress'
  BY TypeStep DEF LedgerInv
<1>2. CallChecked'
  BY CheckedStep DEF LedgerInv
<1>3. RowsArePostings'
  BY PostingsStep DEF LedgerInv
<1>4. HeadsGrounded' /\ ChainIsGrounded'
  BY HeadsStep, ChainStep
<1>5. CallAnswered'
  BY AnsweredStep DEF LedgerInv
<1> QED
  BY <1>1, <1>2, <1>3, <1>4, <1>5 DEF LedgerInv

(* The bookkeeping of the calls is an invariant for any number of calls.   *)
THEOREM Inductive == Spec => [](TypeOK /\ LedgerInv)
<1>1. Init => TypeOK /\ LedgerInv
  BY TypeInit, InvInit
<1>2. TypeOK /\ LedgerInv /\ [Next]_vars => TypeOK' /\ LedgerInv'
  <2> SUFFICES ASSUME TypeOK, LedgerInv, [Next]_vars
               PROVE  TypeOK' /\ LedgerInv'
    OBVIOUS
  <2>1. TypeOK'
    BY TypeStep DEF LedgerInv
  <2> QED
    BY <2>1, InvStep
<1> QED
  BY <1>1, <1>2, PTL DEF Spec

(* The previous_hash of every row is the current_hash of an earlier,       *)
(* committed row of the same account, whatever is committed or rolled back *)
(* between the trigger's query and the storing of the row.                 *)
THEOREM ChainCorrect == Spec => []ChainIsGrounded
<1>1. LedgerInv => ChainIsGrounded
  BY DEF LedgerInv
<1> QED
  BY <1>1, Inductive, PTL

(* A transfer is committed with both of its rows or with neither.          *)
LEMMA InvAtomic == TypeOK /\ LedgerInv => TransferAtomic
<1> SUFFICES ASSUME TypeOK, LedgerInv
             PROVE  TransferAtomic
  OBVIOUS
<1> USE DEF TypeOK
<1>1. ASSUME NEW i \in Committed,
             rows[i].type \in {"TRANSFER_OUT", "TRANSFER_IN"}
      PROVE  \E j \in Committed :
                /\ rows[j].type = IF rows[i].type = "TRANSFER_OUT"
                                  THEN "TRANSFER_IN" ELSE "TRANSFER_OUT"
                /\ Mirrors(i, j)
  <2>1. i \in DOMAIN rows
    BY DEF Committed
  <2>2. PICK t \in Tasks : rows[i].task = t /\ txn[t] = "committed"
    BY <2>1, RowFields DEF Committed
  <2>3. PICK k \in 1..(leg[t] - 1) : Records(i, t, k)
    BY <2>1, <2>2 DEF LedgerInv, RowsArePostings
  <2>4. cmd[t] \in Commands /\ leg[t] = Legs(cmd[t]) + 1 /\ Legs(cmd[t]) \in 0..2
    BY <2>2, PostingsLen DEF LedgerInv, CallProgress, Progress
  <2>5. k \in 1..Legs(cmd[t])
    BY <2>3, <2>4
  <2>6. Postings(cmd[t])[k].type = rows[i].type
    BY <2>3 DEF Records
  <2>7. /\ cmd[t].op = "transfer"
        /\ Legs(cmd[t]) = 2
        /\ k = IF rows[i].type = "TRANSFER_OUT" THEN 1 ELSE 2
        /\ Postings(cmd[t])[1] = Posting(cmd[t].from, -cmd[t].amount, "TRANSFER_OUT")
        /\ Postings(cmd[t])[2] = Posting(cmd[t].to, cmd[t].amount, "TRANSFER_IN")
    BY <1>1, <2>4, <2>5, <2>6, TransferPostings
  <2>8. cmd[t].to # cmd[t].from /\ cmd[t].amount \in Nat \ {0}
    BY <2>4, <2>7, CommandFields DEF LedgerInv, CallChecked, Checked
  <2>9. PICK m \in 1..2 : m # k
    BY <2>7
  <2>10. PICK j \in DOMAIN rows : Records(j, t, m)
    <3>1. m \in 1..(leg[t] - 1)
      BY <2>4, <2>7, <2>9
    <3> QED
      BY <3>1 DEF LedgerInv, RowsArePostings
  <2>11. j \in Committed
    BY <2>2, <2>10 DEF Committed, Records
  <2>12. CASE rows[i].type = "TRANSFER_OUT"
    <3>1. k = 1 /\ m = 2
      BY <2>7, <2>9, <2>12
    <3>2. /\ rows[j].type = "TRANSFER_IN" /\ rows[j].task = t
          /\ rows[j].account = cmd[t].to /\ rows[j].amount = cmd[t].amount
      BY <2>7, <2>10, <3>1 DEF Records, Posting
    <3>3. rows[i].account = cmd[t].from /\ rows[i].amount = -cmd[t].amount
      BY <2>3, <2>7, <3>1 DEF Records, Posting
    <3> QED
      BY <2>2, <2>8, <2>11, <2>12, <3>2, <3>3 DEF Mirrors
  <2>13. CASE rows[i].type = "TRANSFER_IN"
    <3>1. k = 2 /\ m = 1
      BY <2>7, <2>9, <2>13
    <3>2. /\ rows[j].type = "TRANSFER_OUT" /\ rows[j].task = t
          /\ rows[j].account = cmd[t].from /\ rows[j].amount = -cmd[t].amount
      BY <2>7, <2>10, <3>1 DEF Records, Posting
    <3>3. rows[i].account = cmd[t].to /\ rows[i].amount = cmd[t].amount
      BY <2>3, <2>7, <3>1 DEF Records, Posting
    <3>4. rows[i].amount = -rows[j].amount
      BY <2>8, <3>2, <3>3
    <3> QED
      BY <2>2, <2>8, <2>11, <2>13, <3>2, <3>3, <3>4 DEF Mirrors
  <2> QED
    BY <1>1, <2>12, <2>13
<1> QED
  BY <1>1 DEF TransferAtomic

(* A transfer is in the ledger with both of its rows or not at all, for    *)
(* any number of accounts and calls, failures and crashes included: the    *)
(* two inserts of transactions_repo.rs share one commit.                   *)
THEOREM AtomicTransfers == Spec => []TransferAtomic
  BY Inductive, InvAtomic, PTL

(* Only calls of its owner take money out of an account.                   *)
LEMMA InvOwned == TypeOK /\ LedgerInv => DebitsAreOwned
<1> SUFFICES ASSUME TypeOK, LedgerInv, NEW i \in Committed, rows[i].amount < 0
             PROVE  cmd[rows[i].task].user = Owner[rows[i].account]
  BY DEF DebitsAreOwned
<1> USE DEF TypeOK
<1>1. i \in DOMAIN rows
  BY DEF Committed
<1>2. PICK t \in Tasks : rows[i].task = t
  BY <1>1, RowFields
<1>3. PICK k \in 1..(leg[t] - 1) : Records(i, t, k)
  BY <1>1, <1>2 DEF LedgerInv, RowsArePostings
<1>4. /\ cmd[t] \in Commands /\ leg[t] \in 1..3 /\ Legs(cmd[t]) \in 0..2
      /\ leg[t] <= Legs(cmd[t]) + 1
  BY PostingsLen DEF LedgerInv, CallProgress, Progress
<1>5. k \in 1..Legs(cmd[t]) /\ leg[t] > 1
  BY <1>3, <1>4
<1>6. rows[i].account = cmd[t].from
  BY <1>3, <1>4, <1>5, PostingTyped DEF Records
<1>7. cmd[t].user = Owner[cmd[t].from]
  BY <1>5 DEF LedgerInv, CallChecked, Checked
<1> QED
  BY <1>2, <1>6, <1>7

(* Whatever is interleaved, only the owner of an account takes money out of *)
(* it: a debit in the ledger passed the ownership check of the service.    *)
THEOREM OwnedDebits == Spec => []DebitsAreOwned
  BY Inductive, InvOwned, PTL

(* The answer of a call says what became of its postings.                  *)
LEMMA InvPromise == TypeOK /\ LedgerInv => ServicePromise
<1> SUFFICES ASSUME TypeOK, LedgerInv, NEW t \in Tasks, result[t] # "None"
             PROVE  /\ result[t] \in ServiceRefusals(cmd[t].op)
                                        \cup {"Ok", "DatabaseError", "Crashed"}
                    /\ result[t] = "Ok" /\ cmd[t].op \in MoneyOps =>
                          \A k \in 1..Legs(cmd[t]) :
                             \E i \in Committed : Records(i, t, k)
                    /\ result[t] \in BusinessErrors =>
                          RowsOf(t) \intersect Committed = {}
  BY DEF ServicePromise
<1> USE DEF TypeOK
<1>1. Answered(t) /\ Progress(t)
  BY DEF LedgerInv, CallAnswered, CallProgress
<1>2. ASSUME result[t] = "Ok", cmd[t].op \in MoneyOps,
             NEW k \in 1..Legs(cmd[t])
      PROVE  \E i \in Committed : Records(i, t, k)
  <2>1. txn[t] = "committed" /\ leg[t] = Legs(cmd[t]) + 1
    BY <1>1, <1>2 DEF Answered, Progress
  <2>2. Legs(cmd[t]) \in 0..2
    BY PostingsLen
  <2>3. k \in 1..(leg[t] - 1)
    BY <2>1, <2>2
  <2>4. PICK i \in DOMAIN rows : Records(i, t, k)
    BY <2>3 DEF LedgerInv, RowsArePostings
  <2>5. i \in Committed
    BY <2>1, <2>4 DEF Committed, Records
  <2> QED
    BY <2>4, <2>5
<1>3. ASSUME result[t] \in BusinessErrors
      PROVE  RowsOf(t) \intersect Committed = {}
  BY <1>1, <1>3 DEF Answered, RowsOf, Committed
<1> QED
  BY <1>1, <1>2, <1>3 DEF Answered

(* A call refuses only with the business errors of its operation, and what *)
(* it says is so: after Ok all of its postings are in the ledger, after a  *)
(* refusal none is.  Delivery takes this for granted of the service that   *)
(* its workers call.                                                       *)
THEOREM PromiseKept == Spec => []ServicePromise
  BY Inductive, InvPromise, PTL

-----------------------------------------------------------------------------
(* The service implements its contract.                                    *)

(* The calls that have been performed, as the contract sees them.          *)
Performed == {t \in Tasks : txn[t] = "committed"}

(* The contract has the words of the service.                              *)
LEMMA SameWords ==
    /\ Contract!MoneyOps = MoneyOps
    /\ Contract!ReadOps = ReadOps
    /\ \A o \in MoneyOps \cup ReadOps :
          Contract!ServiceRefusals(o) = ServiceRefusals(o)
  BY DEF MoneyOps, Contract!MoneyOps, ReadOps, Contract!ReadOps,
         ServiceRefusals, Contract!ServiceRefusals,
         LookupErrors, Contract!LookupErrors

(* A call that is about to commit may be performed.                        *)
LEMMA MayPerform ==
    ASSUME TypeOK, LedgerInv, NEW t \in Tasks, pc[t] = "commit"
    PROVE  /\ t \notin Performed
           /\ cmd[t].op \in MoneyOps
           /\ cmd[t].from \in Accounts
           /\ cmd[t].user = Owner[cmd[t].from]
  BY DEF LedgerInv, CallProgress, Progress, CallChecked, Checked, Performed

(* A call that returns e, its transaction rolled back, is answered         *)
(* without having been performed.                                          *)
LEMMA RejectMaps ==
    ASSUME TypeOK, LedgerInv, NEW t \in Tasks, pc[t] # "done", NEW e,
           Reject(t, e)
    PROVE  /\ Performed' = Performed
           /\ result[t] = "None"
           /\ result' = [result EXCEPT ![t] = e]
<1> USE DEF TypeOK
<1>1. result[t] = "None" /\ txn[t] # "committed"
  BY DEF LedgerInv, CallAnswered, Answered, CallProgress, Progress
<1> QED
  BY <1>1 DEF Reject, Finish, Performed

(* Each step of a call is a step of the contract, or changes nothing that  *)
(* the contract speaks of.                                                 *)
LEMMA StepMaps ==
    ASSUME TypeOK, LedgerInv, NEW t \in Tasks, Step(t), cmd' = cmd
    PROVE  \/ Contract!Succeed(t) \/ Contract!Refuse(t) \/ Contract!Fail(t)
           \/ UNCHANGED <<cmd, Performed, result>>
<1> USE DEF TypeOK
<1>1. /\ cmd[t].op \in MoneyOps \cup ReadOps
      /\ Answered(t) /\ Progress(t)
  BY CommandFields DEF LedgerInv, CallAnswered, CallProgress
<1>2. ASSUME NEW e \in ServiceRefusals(cmd[t].op), Reject(t, e), pc[t] # "done"
      PROVE  Contract!Refuse(t)
  BY <1>1, <1>2, RejectMaps, SameWords DEF Performed, Contract!Refuse, Contract!Answer
<1>3. ASSUME Reject(t, "DatabaseError"), pc[t] # "done"
      PROVE  Contract!Fail(t)
  BY <1>3, RejectMaps DEF Performed, Contract!Fail, Contract!Answer
<1>4. ASSUME NEW step, Goto(t, step)
      PROVE  UNCHANGED <<cmd, Performed, result>>
  BY <1>4 DEF Goto, Performed
<1>5. CASE LookupRefused(t)
  <2>1. PICK e \in {"AccountNotFound", "UnauthorizedAccountAccess",
                     "AccountNotActive"} :
           /\ Reject(t, e)
           /\ e = "AccountNotActive" => cmd[t].op \in MoneyOps
    BY <1>5 DEF LookupRefused
  <2>2. e \in ServiceRefusals(cmd[t].op) /\ pc[t] # "done"
    BY <1>1, <1>5, <2>1, RefusalsOf DEF LookupErrors, LookupRefused
  <2> QED
    BY <1>2, <2>1, <2>2
<1>6. CASE ResolveRefused(t)
  <2>1. cmd[t].op = "transfer" /\ pc[t] # "done"
    BY <1>1, <1>6 DEF ResolveRefused, Progress
  <2>2. PICK e \in {"AccountNotFound", "AccountNotActive",
                     "SelfTransferNotAllowed"} : Reject(t, e)
    BY <1>6 DEF ResolveRefused
  <2>3. e \in ServiceRefusals(cmd[t].op)
    BY <1>1, <2>1, <2>2, RefusalsOf DEF LookupErrors, MoneyOps
  <2> QED
    BY <1>2, <2>1, <2>2, <2>3
<1>7. CASE CheckBalance(t)
  <2>1. Reject(t, "InsufficientFunds") \/ Goto(t, "begin")
    BY <1>7 DEF CheckBalance
  <2>2. "InsufficientFunds" \in ServiceRefusals(cmd[t].op) /\ pc[t] # "done"
    BY <1>1, <1>7, RefusalsOf DEF CheckBalance, Progress, Debits
  <2> QED
    BY <1>2, <1>4, <2>1, <2>2
<1>8. CASE InsertRefused(t)
  <2>1. /\ pc[t] # "done" /\ cmd[t].op \in MoneyOps
        /\ Reject(t, "DatabaseError") \/ Reject(t, "AccountNotActive")
    BY <1>1, <1>8 DEF InsertRefused, Progress, Inserting
  <2>2. "AccountNotActive" \in ServiceRefusals(cmd[t].op)
    BY <1>1, <2>1, RefusalsOf
  <2> QED
    BY <1>2, <1>3, <2>1, <2>2
<1>9. ASSUME pc[t] = "commit", NEW e, Finish(t, e, "committed")
      PROVE  /\ Contract!Perform({t})
             /\ Contract!Answer(t, e)
             /\ cmd[t].op \in MoneyOps
  <2>1. /\ t \notin Performed
        /\ cmd[t].op \in MoneyOps
        /\ cmd[t].from \in Accounts
        /\ cmd[t].user = Owner[cmd[t].from]
    BY <1>9, MayPerform
  <2>2. Performed' = Performed \cup {t}
    BY <1>9 DEF Finish, Performed
  <2>3. Contract!Perform({t})
    BY <2>1, <2>2, SameWords DEF Performed, Contract!Perform
  <2>4. Contract!Answer(t, e)
    BY <1>1, <1>9 DEF Answered, Finish, Contract!Answer
  <2> QED
    BY <2>1, <2>3, <2>4
<1>10. CASE Commit(t)
  BY <1>9, <1>10, SameWords DEF Commit, Contract!Succeed
<1>11. CASE CommitFails(t)
  <2>1. CASE Finish(t, "DatabaseError", "committed")
    BY <1>9, <1>11, <2>1 DEF CommitFails, Contract!Fail
  <2>2. CASE Finish(t, "DatabaseError", "rolledback")
    BY <1>3, <1>11, <2>2 DEF CommitFails, Reject
  <2> QED
    BY <1>11, <2>1, <2>2 DEF CommitFails
<1>12. CASE Read(t)
  <2>1. pc[t] # "done" /\ Reject(t, "Ok") /\ cmd[t].op \in ReadOps
    BY <1>1, <1>12 DEF Read, Reject, Answered
  <2> QED
    BY <2>1, RejectMaps, SameWords DEF Performed, Contract!Succeed, Contract!Answer
<1>13. CASE StatementFails(t)
  BY <1>3, <1>13 DEF StatementFails
<1>14. CASE \/ Lookup(t) \/ Resolve(t) \/ BeginInsert(t)
            \/ ReadHash(t) \/ PassGuard(t) \/ StoreRow(t)
  BY <1>4, <1>14 DEF Lookup, Resolve, BeginInsert, ReadHash, PassGuard, StoreRow
<1> QED
  BY <1>5, <1>6, <1>7, <1>8, <1>10, <1>11, <1>12, <1>13, <1>14 DEF Step

(* A crash of the process is a crash of the contract: the calls under way  *)
(* are not answered, and those whose commit had arrived are performed.     *)
LEMMA CrashMaps ==
    ASSUME TypeOK, LedgerInv, Crash
    PROVE  Contract!Crash
<1> USE DEF TypeOK
<1> DEFINE running == {t \in Tasks : pc[t] \notin {"lookup", "done"}}
<1>1. \A t \in running : result[t] = "None" /\ t \notin Performed
  BY DEF LedgerInv, CallAnswered, Answered, CallProgress, Progress, Performed
<1>2. PICK landed \in SUBSET {t \in running : pc[t] = "commit"} :
         txn' = [t \in Tasks |-> IF t \in landed THEN "committed"
                                ELSE IF t \in running THEN "rolledback"
                                ELSE txn[t]]
  BY DEF Crash
<1>3. /\ result' = [t \in Tasks |-> IF t \in running THEN "Crashed" ELSE result[t]]
      /\ cmd' = cmd
  BY DEF Crash
<1>4. Performed' = Performed \cup landed
  BY <1>1, <1>2 DEF Performed
<1>5. \A t \in landed : /\ t \notin Performed
                        /\ cmd[t].op \in MoneyOps
                        /\ cmd[t].from \in Accounts
                        /\ cmd[t].user = Owner[cmd[t].from]
  BY <1>2, MayPerform
<1>6. Contract!Perform(landed)
  BY <1>4, <1>5, SameWords DEF Performed, Contract!Perform
<1>7. running \in SUBSET {t \in Tasks : result[t] = "None"} /\ landed \in SUBSET running
  BY <1>1, <1>2
<1> QED
  BY <1>3, <1>6, <1>7 DEF Contract!Crash

(* The SQL of the service, with every interleaving, failure and crash,     *)
(* implements the bank that performs each call in one step, at most once,  *)
(* for the owner of the account, and answers truly.                        *)
THEOREM ContractImplemented == Spec => ImplementsContract
<1>1. Init => Contract!Init
  BY DEF Init, Contract!Init
<1>2. TypeOK /\ LedgerInv /\ [Next]_vars => [Contract!Next]_(Contract!vars)
  <2> SUFFICES ASSUME TypeOK, LedgerInv, [Next]_vars
               PROVE  Contract!Next \/ UNCHANGED <<cmd, Performed, result>>
    BY DEF Contract!vars, Performed
  <2>1. ASSUME NEW t \in Tasks, Step(t)
        PROVE  Contract!Next \/ UNCHANGED <<cmd, Performed, result>>
    BY <2>1, CommandsFixed, StepMaps DEF Contract!Next
  <2>2. CASE Crash
    BY <2>2, CrashMaps DEF Contract!Next
  <2>3. CASE UNCHANGED vars \/ \E x \in Accounts : SetStatus(x)
    BY <2>3 DEF vars, SetStatus, taskVars, Performed
  <2> QED
    BY <2>1, <2>2, <2>3 DEF Next
<1> QED
  BY <1>1, <1>2, Inductive, PTL DEF Spec, ImplementsContract, Contract!Spec

-----------------------------------------------------------------------------
(* A change of status takes effect.                                        *)

(* No step takes an INSERT past the guard of an account that is not        *)
(* ACTIVE.                                                                 *)
LEMMA GuardStep ==
    ASSUME TypeOK, [Next]_vars, NEW x \in Accounts, PastGuard(x) = {},
           x \notin active
    PROVE  PastGuard(x)' = {}
<1> SUFFICES ASSUME NEW u \in Tasks, pc'[u] \in {"guarded", "store"},
                    Due(u)'.account = x
             PROVE  FALSE
  BY DEF PastGuard
<1> USE DEF TypeOK
<1>1. ASSUME pc[u] \in {"guarded", "store"}, leg'[u] = leg[u]
      PROVE  FALSE
  BY <1>1, CommandsFixed DEF PastGuard, Due
<1>2. CASE leg'[u] = leg[u] /\ pc'[u] \in {pc[u], "done"}
  BY <1>1, <1>2
<1>3. CASE ReadHash(u)
  BY <1>1, <1>3 DEF ReadHash, Goto
<1>4. CASE PassGuard(u)
  BY <1>4 DEF PassGuard, Due
<1>5. CASE Lookup(u) \/ Resolve(u) \/ CheckBalance(u) \/ BeginInsert(u) \/ StoreRow(u)
  BY <1>5 DEF Lookup, Resolve, CheckBalance, BeginInsert, StoreRow, Goto,
              Reject, Finish
<1> QED
  BY <1>2, <1>3, <1>4, <1>5, CallFrame

(* No step adds a row to an account that is not ACTIVE, or commits one, if *)
(* none was pending and no INSERT was past the guard.                      *)
LEMMA FrozenStep ==
    ASSUME TypeOK, LedgerInv, [Next]_vars, NEW x \in Accounts,
           Pending(x) = {}, PastGuard(x) = {}, x \notin active
    PROVE  /\ Pending(x)' = {}
           /\ PastGuard(x)' = {}
           /\ OnAccount(Committed, x)' = OnAccount(Committed, x)
<1>1. CallProgress /\ rows \in Seq(Row)
  BY DEF LedgerInv, TypeOK
<1>2. ASSUME NEW i \in DOMAIN rows, rows[i].account = x
      PROVE  txn[rows[i].task] # "open" /\ txn'[rows[i].task] = txn[rows[i].task]
  <2>1. txn[rows[i].task] # "open"
    BY <1>2 DEF Pending, OnAccount
  <2> QED
    BY <1>1, <1>2, <2>1, RowFields, TxnFinal
<1>3. /\ DOMAIN rows \subseteq DOMAIN rows'
      /\ \A i \in DOMAIN rows : rows'[i] = rows[i]
      /\ \A i \in DOMAIN rows' \ DOMAIN rows : rows'[i].account # x
  <2>1. CASE UNCHANGED <<rows, leg>>
    BY <2>1
  <2>2. ASSUME NEW t \in Tasks, StoreRow(t)
        PROVE  /\ DOMAIN rows \subseteq DOMAIN rows'
               /\ \A i \in DOMAIN rows : rows'[i] = rows[i]
               /\ \A i \in DOMAIN rows' \ DOMAIN rows : rows'[i].account # x
    <3> DEFINE p == Postings(cmd[t])[leg[t]]
    <3>1. p.account # x
      BY <2>2 DEF StoreRow, PastGuard, Due
    <3>2. /\ DOMAIN rows' = DOMAIN rows \cup {Len(rows) + 1}
          /\ \A i \in DOMAIN rows : rows'[i] = rows[i]
          /\ rows'[Len(rows) + 1] =
               [id |-> drawn[t], task |-> t, account |-> p.account,
                amount |-> p.amount, type |-> p.type, prev |-> head[t]]
      BY <1>1, <2>2, StoredRow
    <3> QED
      BY <3>1, <3>2
  <2> QED
    BY <2>1, <2>2, TableFrame
<1>4. Pending(x)' = {}
  BY <1>2, <1>3 DEF Pending, OnAccount
<1>5. OnAccount(Committed, x)' = OnAccount(Committed, x)
  BY <1>2, <1>3 DEF Committed, OnAccount
<1> QED
  BY <1>4, <1>5, GuardStep

(* While an account is not ACTIVE, no call has an uncommitted row on it    *)
(* and no INSERT on it is past the guard's query, its ledger does not      *)
(* change.                                                                 *)
THEOREM FreezeEffective == Spec => FreezeTakesEffect
<1>1. TypeOK /\ LedgerInv /\ [Next]_vars =>
        \A a \in Accounts : FrozenUnchanged(a)
  BY FrozenStep DEF FrozenUnchanged
<1>2. TypeOK /\ LedgerInv /\ [Next]_vars =>
        [\A a \in Accounts : FrozenUnchanged(a)]_vars
  BY <1>1
<1> QED
  BY <1>2, Inductive, PTL DEF Spec, FreezeTakesEffect

=============================================================================
