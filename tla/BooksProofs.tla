---------------------------- MODULE BooksProofs -----------------------------
(***************************************************************************)
(* Proofs about the sums over the ledger, for any number of calls,         *)
(* accounts, users and amounts: BooksInv is inductive together with        *)
(* LedgerInv, money is conserved, and an overdraft takes a write skew.     *)
(***************************************************************************)
EXTENDS LedgerProofs, SetInduction

-----------------------------------------------------------------------------
(* Which steps touch the ids, the snapshots and the ends of transactions.  *)

(* Ids are drawn by BeginInsert, stored by StoreRow,  and no other step    *)
(* comes to hold one.                                                      *)
LEMMA IdsFrame ==
    ASSUME TypeOK, [Next]_vars
    PROVE  \/ /\ UNCHANGED <<rows, nextId, drawn>>
              /\ \A u \in Tasks : pc'[u] \in Inserting => pc[u] \in Inserting
           \/ \E t \in Tasks : BeginInsert(t) \/ StoreRow(t)
<1> USE DEF TypeOK, Inserting
<1>1. ASSUME NEW t \in Tasks, Step(t), ~ BeginInsert(t), ~ StoreRow(t)
      PROVE  /\ UNCHANGED <<rows, nextId, drawn>>
             /\ \A u \in Tasks : pc'[u] \in Inserting => pc[u] \in Inserting
  <2>1. CASE LookupRefused(t) \/ ResolveRefused(t) \/ CheckBalance(t)
             \/ InsertRefused(t) \/ Commit(t) \/ CommitFails(t)
             \/ Read(t) \/ StatementFails(t)
    BY <2>1 DEF LookupRefused, ResolveRefused, CheckBalance, InsertRefused,
                Commit, CommitFails, Read, StatementFails, Reject, Finish, Goto
  <2>2. CASE Lookup(t) \/ Resolve(t) \/ ReadHash(t) \/ PassGuard(t)
    BY <2>2 DEF Lookup, Resolve, ReadHash, PassGuard, Goto
  <2> QED
    BY <1>1, <2>1, <2>2 DEF Step
<1>2. ASSUME NEW x \in Accounts, SetStatus(x)
      PROVE  UNCHANGED <<rows, nextId, drawn, pc>>
  BY <1>2 DEF SetStatus, taskVars
<1>3. ASSUME Crash
      PROVE  /\ UNCHANGED <<rows, nextId, drawn>>
             /\ \A u \in Tasks : pc'[u] \in Inserting => pc[u] \in Inserting
  BY <1>3 DEF Crash
<1> QED
  BY <1>1, <1>2, <1>3 DEF Next, vars

(* What a debit has read is replaced by its balance check only, and it     *)
(* passes that check in no other way.                                      *)
LEMMA SnapFrame ==
    ASSUME TypeOK, CallAnswered, [Next]_vars, NEW u \in Tasks, Debits(cmd[u])
    PROVE  \/ CheckBalance(u)
           \/ /\ snap'[u] = snap[u]
              /\ (pc'[u] \in {"begin", "commit"} \cup Inserting \/ leg'[u] > 1)
                 => (pc[u] \in {"begin", "commit"} \cup Inserting \/ leg[u] > 1)
<1> USE DEF TypeOK, Inserting
<1>1. ASSUME NEW t \in Tasks, Step(t), t # u
      PROVE  snap'[u] = snap[u] /\ pc'[u] = pc[u] /\ leg'[u] = leg[u]
  BY <1>1 DEF Step, LookupRefused, Lookup, ResolveRefused, Resolve,
              CheckBalance, BeginInsert, ReadHash, PassGuard, StoreRow, InsertRefused,
              Commit, CommitFails, Read, StatementFails, Goto, Reject, Finish
<1>2. CASE Step(u) /\ ~ CheckBalance(u)
  <2>1. ~ Read(u)
    BY DEF Read, CallAnswered, Answered, Debits, ReadOps
  <2>2. snap' = snap
    BY <1>2, <2>1
       DEF Step, LookupRefused, Lookup, ResolveRefused, Resolve, BeginInsert,
           ReadHash, PassGuard, StoreRow, InsertRefused, Commit, CommitFails,
           StatementFails
  <2>3. CASE Lookup(u) \/ Resolve(u)
    BY <2>2, <2>3 DEF Lookup, Resolve, Goto, Debits, ReadOps
  <2>4. CASE BeginInsert(u) \/ ReadHash(u) \/ PassGuard(u) \/ StoreRow(u)
    BY <2>2, <2>4 DEF BeginInsert, ReadHash, PassGuard, StoreRow, Goto
  <2>5. CASE LookupRefused(u) \/ ResolveRefused(u) \/ InsertRefused(u)
             \/ Commit(u) \/ CommitFails(u) \/ StatementFails(u)
    BY <2>2, <2>5 DEF LookupRefused, ResolveRefused, InsertRefused, Commit,
                      CommitFails, StatementFails, Reject, Finish
  <2> QED
    BY <1>2, <2>1, <2>3, <2>4, <2>5 DEF Step
<1>3. ASSUME NEW x \in Accounts, SetStatus(x)
      PROVE  UNCHANGED <<snap, pc, leg>>
  BY <1>3 DEF SetStatus, taskVars
<1>4. ASSUME Crash
      PROVE  /\ snap' = snap /\ leg' = leg
             /\ pc'[u] \in {pc[u], "done"}
  BY <1>4 DEF Crash
<1> QED
  BY <1>1, <1>2, <1>3, <1>4 DEF Next, vars

(* A transaction commits from the commit of its call only.                 *)
LEMMA CommitFrame ==
    ASSUME TypeOK, [Next]_vars, NEW u \in Tasks, txn'[u] = "committed"
    PROVE  txn[u] = "committed" \/ pc[u] = "commit"
<1> USE DEF TypeOK
<1>1. ASSUME NEW t \in Tasks, Step(t)
      PROVE  txn[u] = "committed" \/ pc[u] = "commit"
  BY <1>1 DEF Step, LookupRefused, Lookup, ResolveRefused, Resolve,
              CheckBalance, BeginInsert, ReadHash, PassGuard, StoreRow, InsertRefused,
              Commit, CommitFails, Read, StatementFails, Goto, Reject, Finish
<1>2. ASSUME NEW x \in Accounts, SetStatus(x)
      PROVE  txn' = txn
  BY <1>2 DEF SetStatus, taskVars
<1>3. ASSUME Crash
      PROVE  txn[u] = "committed" \/ pc[u] = "commit"
  BY <1>3 DEF Crash
<1> QED
  BY <1>1, <1>2, <1>3 DEF Next, vars

-----------------------------------------------------------------------------
(* Each posting is stored once.                                            *)

(* The postings of a command differ in type.                               *)
LEMMA PostingTypesDiffer ==
    ASSUME NEW c \in Commands, NEW k \in 1..Legs(c), NEW l \in 1..Legs(c),
           Postings(c)[k].type = Postings(c)[l].type
    PROVE  k = l
<1>1. c.op \in MoneyOps
  BY PostingsAre
<1>2. CASE c.op = "transfer"
  <2>1. \/ k = 1 /\ Postings(c)[k].type = "TRANSFER_OUT"
        \/ k = 2 /\ Postings(c)[k].type = "TRANSFER_IN"
    <3>1. \/ k = 1 /\ Postings(c)[k] = Posting(c.from, -c.amount, "TRANSFER_OUT")
          \/ k = 2 /\ Postings(c)[k] = Posting(c.to, c.amount, "TRANSFER_IN")
      BY <1>2, PostingsAre
    <3> QED
      BY <3>1 DEF Posting
  <2>2. \/ l = 1 /\ Postings(c)[l].type = "TRANSFER_OUT"
        \/ l = 2 /\ Postings(c)[l].type = "TRANSFER_IN"
    <3>1. \/ l = 1 /\ Postings(c)[l] = Posting(c.from, -c.amount, "TRANSFER_OUT")
          \/ l = 2 /\ Postings(c)[l] = Posting(c.to, c.amount, "TRANSFER_IN")
      BY <1>2, PostingsAre
    <3> QED
      BY <3>1 DEF Posting
  <2> QED
    BY <2>1, <2>2
<1>3. CASE c.op = "deposit" \/ c.op = "withdraw"
  BY <1>3, PostingsAre
<1> QED
  BY <1>1, <1>2, <1>3 DEF MoneyOps

(* The posting a call inserts next is not one it has in the table.         *)
LEMMA RowsOnceStep ==
    ASSUME TypeOK, LedgerInv, RowsOnce, [Next]_vars
    PROVE  RowsOnce'
<1> USE DEF TypeOK
<1>0. CallProgress /\ RowsArePostings
  BY DEF LedgerInv
<1>1. CASE UNCHANGED <<rows, leg>>
  BY <1>1 DEF RowsOnce
<1>2. ASSUME NEW t \in Tasks, StoreRow(t)
      PROVE  RowsOnce'
  <2>0. PICK n : n = Len(rows) + 1
    OBVIOUS
  <2> DEFINE p == Postings(cmd[t])[leg[t]]
  <2>1. /\ leg[t] \in 1..Legs(cmd[t])
        /\ DOMAIN rows' = DOMAIN rows \cup {n}
        /\ \A i \in DOMAIN rows : rows'[i] = rows[i]
        /\ rows'[n] = [id |-> drawn[t], task |-> t, account |-> p.account,
                       amount |-> p.amount, type |-> p.type, prev |-> head[t]]
    BY <1>0, <1>2, <2>0, StoredRow
  <2>2. ASSUME NEW i \in DOMAIN rows, rows[i].task = t
        PROVE  rows[i].type # p.type
    <3>1. PICK k \in 1..(leg[t] - 1) : Records(i, t, k)
      BY <1>0, <2>2 DEF RowsArePostings
    <3>2. leg[t] \in 1..3 /\ Legs(cmd[t]) \in 0..2
      BY PostingsLen
    <3>3. k \in 1..Legs(cmd[t]) /\ k # leg[t]
      BY <2>1, <3>2
    <3> QED
      BY <2>1, <3>1, <3>3, PostingTypesDiffer DEF Records
  <2>3. rows'[n].task = t /\ rows'[n].type = p.type
    BY <2>1
  <2>4. ASSUME NEW i \in DOMAIN rows', NEW j \in DOMAIN rows',
               rows'[i].task = rows'[j].task, rows'[i].type = rows'[j].type
        PROVE  i = j
    <3>1. CASE i \in DOMAIN rows /\ j \in DOMAIN rows
      BY <2>1, <2>4, <3>1 DEF RowsOnce
    <3>2. CASE i = n /\ j \in DOMAIN rows
      BY <2>1, <2>2, <2>3, <2>4, <3>2
    <3>3. CASE i \in DOMAIN rows /\ j = n
      BY <2>1, <2>2, <2>3, <2>4, <3>3
    <3> QED
      BY <2>1, <3>1, <3>2, <3>3
  <2> QED
    BY <2>4 DEF RowsOnce
<1> QED
  BY <1>1, <1>2, TableFrame

-----------------------------------------------------------------------------
(* Each row has an id of its own.                                          *)

(* No step gives an id away twice.                                         *)
LEMMA IdsStep ==
    ASSUME TypeOK, LedgerInv, IdsFresh, [Next]_vars
    PROVE  IdsFresh'
<1> USE DEF TypeOK, Inserting
<1>0. CallProgress
  BY DEF LedgerInv
<1>1. CASE /\ UNCHANGED <<rows, nextId, drawn>>
           /\ \A u \in Tasks : pc'[u] \in Inserting => pc[u] \in Inserting
  BY <1>1 DEF IdsFresh
<1>2. ASSUME NEW t \in Tasks, BeginInsert(t)
      PROVE  IdsFresh'
  <2>1. /\ rows' = rows /\ nextId' = nextId + 1
        /\ drawn' = [drawn EXCEPT ![t] = nextId]
        /\ pc' = [pc EXCEPT ![t] = "insert"]
    BY <1>2 DEF BeginInsert, Goto
  <2>2. \A i \in DOMAIN rows : rows[i].id \in Nat
    BY RowFields DEF Row
  <2> QED
    BY <2>1, <2>2 DEF IdsFresh
<1>3. ASSUME NEW t \in Tasks, StoreRow(t)
      PROVE  IdsFresh'
  <2>0. PICK n : n = Len(rows) + 1
    OBVIOUS
  <2> DEFINE p == Postings(cmd[t])[leg[t]]
  <2>1. /\ DOMAIN rows' = DOMAIN rows \cup {n}
        /\ \A i \in DOMAIN rows : rows'[i] = rows[i]
        /\ rows'[n] = [id |-> drawn[t], task |-> t, account |-> p.account,
                       amount |-> p.amount, type |-> p.type, prev |-> head[t]]
    BY <1>0, <1>3, <2>0, StoredRow
  <2>2. /\ nextId' = nextId /\ drawn' = drawn
        /\ pc[t] = "store"
        /\ \A u \in Tasks : pc'[u] \in Inserting => pc[u] \in Inserting /\ u # t
    BY <1>3 DEF StoreRow, Goto
  <2>3. rows'[n].id = drawn[t]
    BY <2>1
  <2>4. \A i \in DOMAIN rows' : rows'[i].id < nextId'
    BY <2>1, <2>2, <2>3 DEF IdsFresh
  <2>5. \A i, j \in DOMAIN rows' : rows'[i].id = rows'[j].id => i = j
    BY <2>1, <2>2, <2>3 DEF IdsFresh
  <2>6. ASSUME NEW u \in Tasks, pc'[u] \in Inserting
        PROVE  /\ drawn'[u] < nextId'
               /\ \A i \in DOMAIN rows' : rows'[i].id # drawn'[u]
               /\ \A v \in Tasks :
                     pc'[v] \in Inserting /\ drawn'[v] = drawn'[u] => v = u
    BY <2>1, <2>2, <2>3, <2>6 DEF IdsFresh
  <2> QED
    BY <2>4, <2>5, <2>6 DEF IdsFresh
<1> QED
  BY <1>1, <1>2, <1>3, IdsFrame

-----------------------------------------------------------------------------
(* A debit past its check has seen the money.                              *)

(* Rows are never taken out of the table or changed.                       *)
LEMMA RowsGrow ==
    ASSUME TypeOK, CallProgress, [Next]_vars
    PROVE  /\ DOMAIN rows = 1..Len(rows)
           /\ DOMAIN rows' \in {DOMAIN rows, DOMAIN rows \cup {Len(rows) + 1}}
           /\ \A i \in DOMAIN rows : rows'[i] = rows[i]
<1> USE DEF TypeOK
<1>1. CASE UNCHANGED <<rows, leg>>
  BY <1>1
<1>2. ASSUME NEW t \in Tasks, StoreRow(t)
      PROVE  /\ DOMAIN rows = 1..Len(rows)
             /\ DOMAIN rows' = DOMAIN rows \cup {Len(rows) + 1}
             /\ \A i \in DOMAIN rows : rows'[i] = rows[i]
  BY <1>2, StoredRow
<1> QED
  BY <1>1, <1>2, TableFrame

(* The rows of the table are finitely many, with amounts that add up.      *)
LEMMA RowsFinite ==
    ASSUME rows \in Seq(Row), NEW S, S \subseteq DOMAIN rows
    PROVE  /\ IsFiniteSet(S)
           /\ S \subseteq Nat
           /\ \A i \in S : [j \in DOMAIN rows |-> rows[j].amount][i] \in Int
<1>1. DOMAIN rows = 1..Len(rows) /\ IsFiniteSet(1..Len(rows))
  BY FS_Interval
<1>2. IsFiniteSet(S)
  BY <1>1, FS_Subset
<1> QED
  BY <1>1, <1>2, RowFields

(* A balance is an integer.                                                *)
LEMMA BalanceInt ==
    ASSUME rows \in Seq(Row), NEW S, S \subseteq DOMAIN rows
    PROVE  Balance(S) \in Int
  BY RowsFinite, SumInt DEF Balance

(* The balance of rows already stored stays what it is.                 *)
LEMMA BalanceStays ==
    ASSUME TypeOK, CallProgress, [Next]_vars, NEW S, S \subseteq DOMAIN rows
    PROVE  SumFunctionOnSet([i \in DOMAIN rows' |-> rows'[i].amount], S) =
              SumFunctionOnSet([i \in DOMAIN rows |-> rows[i].amount], S)
<1>1. IsFiniteSet(S)
  BY RowsFinite DEF TypeOK
<1>2. \A i \in S : [j \in DOMAIN rows' |-> rows'[j].amount][i] =
                    [j \in DOMAIN rows |-> rows[j].amount][i]
  BY RowsGrow
<1> QED
  BY <1>1, <1>2, SumCongruent

(* No step takes from a debit the money its check has seen.                *)
LEMMA FundsStep ==
    ASSUME TypeOK, LedgerInv, NEW u \in Tasks, FundsSeen(u), [Next]_vars
    PROVE  FundsSeen(u)'
<1> USE DEF TypeOK
<1>0. CallProgress /\ CallAnswered /\ RowsArePostings /\ cmd' = cmd
  BY CommandsFixed DEF LedgerInv
<1>1. SUFFICES ASSUME Debits(cmd[u]),
                      pc'[u] \in {"begin", "commit"} \cup Inserting \/ leg'[u] > 1
               PROVE  /\ snap'[u] \subseteq OnAccount(Committed, cmd[u].from)'
                      /\ Balance(snap[u])' >= cmd[u].amount
                      /\ \A i \in snap'[u], j \in RowsOf(u)' : i < j
  BY <1>0 DEF FundsSeen, Debits
<1>2. CASE /\ snap'[u] = snap[u]
           /\ pc[u] \in {"begin", "commit"} \cup Inserting \/ leg[u] > 1
  <2>1. /\ snap[u] \subseteq OnAccount(Committed, cmd[u].from)
        /\ Balance(snap[u]) >= cmd[u].amount
        /\ \A i \in snap[u], j \in RowsOf(u) : i < j
    BY <1>1, <1>2 DEF FundsSeen
  <2>2. snap[u] \subseteq DOMAIN rows
    BY <2>1 DEF OnAccount, Committed
  <2>3. snap'[u] \subseteq OnAccount(Committed, cmd[u].from)'
    BY <1>0, <1>2, <2>1, CommittedGrows DEF OnAccount
  <2>4. Balance(snap[u])' = Balance(snap[u])
    BY <1>0, <1>2, <2>2, BalanceStays DEF Balance
  <2>5. ASSUME NEW i \in snap[u], NEW j \in RowsOf(u)'
        PROVE  i < j
    <3>1. j \in RowsOf(u) \/ j = Len(rows) + 1
      BY <1>0, RowsGrow DEF RowsOf
    <3>2. i \in 1..Len(rows)
      BY <1>0, <2>2, RowsGrow
    <3> QED
      BY <2>1, <3>1, <3>2
  <2> QED
    BY <1>2, <2>1, <2>3, <2>4, <2>5
<1>3. CASE CheckBalance(u)
  <2>1. /\ snap' = [snap EXCEPT ![u] = OnAccount(Visible(u), cmd[u].from)]
        /\ pc[u] = "check" /\ leg[u] = 1
        /\ rows' = rows /\ leg' = leg
    BY <1>0, <1>3 DEF CheckBalance, CallProgress, Progress
  <2>2. RowsOf(u) = {}
    BY <1>0, <2>1 DEF RowsOf, RowsArePostings
  <2>3. snap'[u] = OnAccount(Committed, cmd[u].from)
    BY <2>1, <2>2 DEF Visible, OnAccount
  <2>4. ~ Balance(snap'[u]) < cmd[u].amount /\ txn' = txn
    BY <1>1, <1>3, <2>1 DEF CheckBalance, Reject, Finish, Goto, Inserting
  <2>5. Balance(snap'[u]) \in Int /\ cmd[u].amount \in Int
    <3>1. snap'[u] \subseteq DOMAIN rows
      BY <2>3 DEF OnAccount, Committed
    <3> QED
      BY <3>1, BalanceInt, CommandFields
  <2>6. Balance(snap[u])' >= cmd[u].amount
    BY <2>1, <2>4, <2>5 DEF Balance
  <2>7. OnAccount(Committed, cmd[u].from)' = OnAccount(Committed, cmd[u].from)
    BY <1>0, <2>1, <2>4 DEF OnAccount, Committed
  <2>8. RowsOf(u)' = {}
    BY <2>1, <2>2 DEF RowsOf
  <2> QED
    BY <2>3, <2>6, <2>7, <2>8
<1> QED
  BY <1>0, <1>1, <1>2, <1>3, SnapFrame

-----------------------------------------------------------------------------
(* The invariant of the books.                                             *)

(* Before the first call there are no books.                               *)
LEMMA BooksInit == Init => BooksInv
  BY DEF Init, BooksInv, RowsOnce, IdsFresh, FundsSeen, Inserting

(* No step falsifies the books.                                            *)
LEMMA BooksStep ==
    ASSUME TypeOK, LedgerInv, BooksInv, [Next]_vars
    PROVE  BooksInv'
<1>1. RowsOnce'
  BY RowsOnceStep DEF BooksInv
<1>2. IdsFresh'
  BY IdsStep DEF BooksInv
<1>3. \A t \in Tasks : FundsSeen(t)'
  BY FundsStep DEF BooksInv
<1>4. \A t \in Tasks : txn'[t] = "committed" => cmd'[t].op \in MoneyOps
  BY CommitFrame, CommandsFixed
     DEF BooksInv, LedgerInv, CallProgress, Progress
<1> QED
  BY <1>1, <1>2, <1>3, <1>4 DEF BooksInv

(* The books are kept: every posting is in the table once, under an id of  *)
(* its own, and a debit past its check has seen money that covers it, for  *)
(* any number of calls, whatever the interleaving, failures and crashes.   *)
THEOREM BooksKept == Spec => [](TypeOK /\ LedgerInv /\ BooksInv)
<1>1. TypeOK /\ LedgerInv /\ BooksInv /\ [Next]_vars => BooksInv'
  BY BooksStep
<1> QED
  BY <1>1, BooksInit, Inductive, PTL DEF Spec

-----------------------------------------------------------------------------
(* What a command posts, as a sum.                                         *)

(* The amount of each posting of c, by its position.                       *)
Amounts(c) == [k \in DOMAIN Postings(c) |-> Postings(c)[k].amount]

(* The postings of a command are its legs.                                 *)
LEMMA PostingsDomain ==
    ASSUME NEW c \in Commands
    PROVE  DOMAIN Postings(c) = 1..Legs(c) /\ IsFiniteSet(1..Legs(c))
<1>1. DOMAIN Postings(c) = 1..Len(Postings(c))
  <2>1. c.op \in {"deposit", "withdraw", "transfer"} \cup ReadOps
    BY CommandFields DEF MoneyOps
  <2> QED
    BY <2>1, PostingsByOp
<1>2. Legs(c) \in Int
  BY PostingsLen
<1> QED
  BY <1>1, <1>2, FS_Interval DEF Legs

(* The amounts posted add up to what the command brings in or takes out:   *)
(* a transfer posts nothing on balance.                                    *)
LEMMA ExternalIsSum ==
    ASSUME NEW c \in Commands
    PROVE  SumFunctionOnSet(Amounts(c), 1..Legs(c)) = External(c)
<1>1. c.amount \in Int /\ c.op \in MoneyOps \cup ReadOps
  BY CommandFields
<1>2. DOMAIN Postings(c) = 1..Legs(c)
  BY PostingsDomain
<1>3. CASE c.op \in {"deposit", "withdraw"}
  <2>1. Legs(c) = 1 /\ 1..Legs(c) = {1}
    BY <1>3, PostingsLen
  <2>2. Postings(c)[1].amount = External(c) /\ External(c) \in Int
    <3>1. CASE c.op = "deposit"
      BY <1>1, <3>1, PostingsByOp DEF External, Posting
    <3>2. CASE c.op = "withdraw"
      BY <1>1, <3>2, PostingsByOp DEF External, Posting
    <3> QED
      BY <1>3, <3>1, <3>2
  <2>3. Amounts(c)[1] = External(c)
    BY <1>2, <2>1, <2>2 DEF Amounts
  <2> QED
    BY <2>1, <2>2, <2>3, SumSingle
<1>4. CASE c.op = "transfer"
  <2>1. Legs(c) = 2 /\ 1..Legs(c) = {1, 2}
    BY <1>4, PostingsLen
  <2>2. /\ Postings(c)[1].amount = -c.amount
        /\ Postings(c)[2].amount = c.amount
    BY <1>1, <1>4, PostingsByOp DEF Posting
  <2>3. Amounts(c)[1] = -c.amount /\ Amounts(c)[2] = c.amount
    BY <1>2, <2>1, <2>2 DEF Amounts
  <2>4. SumFunctionOnSet(Amounts(c), {1, 2}) = Amounts(c)[1] + Amounts(c)[2]
    <3>1. Amounts(c)[1] \in Int /\ Amounts(c)[2] \in Int /\ 1 # 2
      BY <1>1, <2>3
    <3> QED
      BY <3>1, SumPair, Zenon
  <2>5. External(c) = 0
    BY <1>4 DEF External
  <2> QED
    BY <1>1, <2>1, <2>3, <2>4, <2>5
<1>5. CASE c.op \in ReadOps
  <2>1. 1..Legs(c) = {}
    BY <1>5, PostingsLen
  <2>2. External(c) = 0
    BY <1>5 DEF External, ReadOps
  <2> QED
    BY <2>1, <2>2, SumEmpty
<1> QED
  BY <1>1, <1>3, <1>4, <1>5 DEF MoneyOps

(* The contract adds up the same postings with the same sum.               *)
LEMMA SameSums ==
    /\ \A c : Contract!Postings(c) = Postings(c)
    /\ \A f, S : Contract!SumFunctionOnSet(f, S) = SumFunctionOnSet(f, S)
<1>1. \A c : Contract!Postings(c) = Postings(c)
  BY DEF Postings, Contract!Postings, Posting, Contract!Posting
<1>2. \A f, S : Contract!SumFunctionOnSet(f, S) = SumFunctionOnSet(f, S)
  BY DEF SumFunctionOnSet, FoldFunctionOnSet, MapThenFoldSet,
         Contract!SumFunctionOnSet, Contract!FoldFunctionOnSet,
         Contract!MapThenFoldSet
<1> QED
  BY <1>1, <1>2

(* What the contract says a balance is, in the words of the ledger.        *)
LEMMA ContractBalance ==
    ASSUME NEW x
    PROVE  /\ Contract!BalanceOf(x) =
                 SumFunctionOnSet([t \in Tasks |-> Contract!PostedOn(cmd[t], x)],
                                  Performed)
           /\ \A c : Contract!PostedOn(c, x) =
                 SumFunctionOnSet(Amounts(c),
                    {k \in DOMAIN Postings(c) : Postings(c)[k].account = x})
<1>1. Contract!BalanceOf(x) =
         SumFunctionOnSet([t \in Tasks |-> Contract!PostedOn(cmd[t], x)],
                          Performed)
  BY SameSums DEF Contract!BalanceOf, Performed
<1>2. \A c : Contract!PostedOn(c, x) =
         SumFunctionOnSet(Amounts(c),
            {k \in DOMAIN Postings(c) : Postings(c)[k].account = x})
  BY SameSums DEF Contract!PostedOn, Amounts
<1> QED
  BY <1>1, <1>2

-----------------------------------------------------------------------------
(* Money is conserved.                                                     *)

(* The rows of a performed call are its postings, one to one.              *)
LEMMA RowsArePerformed ==
    ASSUME TypeOK, LedgerInv, BooksInv, NEW t \in Performed
    PROVE  \E g : /\ \A i \in RowsOf(t) :
                        g[i] \in 1..Legs(cmd[t]) /\ Records(i, t, g[i])
                  /\ \A i, j \in RowsOf(t) : g[i] = g[j] => i = j
                  /\ \A k \in 1..Legs(cmd[t]) : \E i \in RowsOf(t) : g[i] = k
<1> USE DEF TypeOK
<1> DEFINE L == 1..Legs(cmd[t])
           g == [i \in RowsOf(t) |-> CHOOSE k \in L : Records(i, t, k)]
<1>1. t \in Tasks /\ cmd[t] \in Commands /\ leg[t] = Legs(cmd[t]) + 1
  BY DEF Performed, LedgerInv, CallProgress, Progress
<1>2. Legs(cmd[t]) \in 0..2 /\ 1..(leg[t] - 1) = L
  BY <1>1, PostingsLen
<1>3. ASSUME NEW i \in RowsOf(t)
      PROVE  g[i] \in L /\ Records(i, t, g[i])
  <2>1. \E k \in L : Records(i, t, k)
    BY <1>2 DEF LedgerInv, RowsArePostings, RowsOf
  <2> QED
    BY <2>1
<1>4. ASSUME NEW i \in RowsOf(t), NEW j \in RowsOf(t), g[i] = g[j]
      PROVE  i = j
  <2>1. rows[i].type = rows[j].type
    BY <1>3, <1>4 DEF Records
  <2> QED
    BY <2>1 DEF BooksInv, RowsOnce, RowsOf
<1>5. ASSUME NEW k \in L
      PROVE  \E i \in RowsOf(t) : g[i] = k
  <2>1. PICK i \in DOMAIN rows : Records(i, t, k)
    BY <1>1, <1>2 DEF LedgerInv, RowsArePostings
  <2>2. i \in RowsOf(t)
    BY <2>1 DEF RowsOf, Records
  <2>3. Postings(cmd[t])[g[i]].type = Postings(cmd[t])[k].type
    BY <1>3, <2>1, <2>2 DEF Records
  <2>4. g[i] \in L
    BY <1>3, <2>2
  <2> HIDE DEF g
  <2> QED
    BY <1>1, <2>2, <2>3, <2>4, PostingTypesDiffer
<1> HIDE DEF g
<1> QED
  BY <1>3, <1>4, <1>5

(* So they add up to what the command posts, on all accounts and on each.  *)
LEMMA CallSums ==
    ASSUME TypeOK, LedgerInv, BooksInv, NEW t \in Performed
    PROVE  /\ Balance(RowsOf(t)) = External(cmd[t])
           /\ \A x : Balance(OnAccount(RowsOf(t), x)) =
                        Contract!PostedOn(cmd[t], x)
<1> USE DEF TypeOK
<1>1. PICK g : /\ \A i \in RowsOf(t) :
                     g[i] \in 1..Legs(cmd[t]) /\ Records(i, t, g[i])
               /\ \A i, j \in RowsOf(t) : g[i] = g[j] => i = j
               /\ \A k \in 1..Legs(cmd[t]) : \E i \in RowsOf(t) : g[i] = k
  BY RowsArePerformed
<1>2. /\ cmd[t] \in Commands
      /\ DOMAIN Postings(cmd[t]) = 1..Legs(cmd[t])
      /\ IsFiniteSet(1..Legs(cmd[t]))
  BY PostingsDomain DEF Performed
<1> DEFINE f == [j \in DOMAIN rows |-> rows[j].amount]
<1>3. ASSUME NEW S \in SUBSET RowsOf(t), NEW K \in SUBSET (1..Legs(cmd[t])),
             \A i \in RowsOf(t) : i \in S <=> g[i] \in K
      PROVE  SumFunctionOnSet(f, S) = SumFunctionOnSet(Amounts(cmd[t]), K)
  <2>1. IsFiniteSet(S) /\ \A i \in S : f[i] \in Int
    <3>1. S \subseteq DOMAIN rows
      BY DEF RowsOf
    <3> QED
      BY <3>1, RowsFinite
  <2>2. IsFiniteSet(K)
    BY <1>2, FS_Subset
  <2>3. Renames(g, S, K)
    BY <1>1, <1>3 DEF Renames
  <2>4. \A i \in S : Amounts(cmd[t])[g[i]] = f[i]
    BY <1>1, <1>2 DEF Amounts, Records, RowsOf
  <2>5. SUFFICES ASSUME NEW fun, fun = f, NEW h, h = Amounts(cmd[t])
                 PROVE  SumFunctionOnSet(fun, S) = SumFunctionOnSet(h, K)
    OBVIOUS
  <2>6. (\A i \in S : fun[i] \in Int) /\ (\A i \in S : h[g[i]] = fun[i])
    BY <2>1, <2>4, <2>5
  <2> HIDE DEF f, TypeOK
  <2> QED
    BY <2>1, <2>2, <2>3, <2>6, SumRenamed
<1>4. Balance(RowsOf(t)) = External(cmd[t])
  <2>1. SumFunctionOnSet(f, RowsOf(t)) =
           SumFunctionOnSet(Amounts(cmd[t]), 1..Legs(cmd[t]))
    BY <1>1, <1>3
  <2> QED
    BY <1>2, <2>1, ExternalIsSum DEF Balance
<1>5. ASSUME NEW x
      PROVE  Balance(OnAccount(RowsOf(t), x)) = Contract!PostedOn(cmd[t], x)
  <2> DEFINE K == {k \in DOMAIN Postings(cmd[t]) :
                     Postings(cmd[t])[k].account = x}
  <2>1. K \in SUBSET (1..Legs(cmd[t])) /\ OnAccount(RowsOf(t), x) \in SUBSET RowsOf(t)
    BY <1>2 DEF OnAccount
  <2>2. \A i \in RowsOf(t) : i \in OnAccount(RowsOf(t), x) <=> g[i] \in K
    BY <1>1, <1>2 DEF OnAccount, Records
  <2>3. SumFunctionOnSet(f, OnAccount(RowsOf(t), x)) =
           SumFunctionOnSet(Amounts(cmd[t]), K)
    BY <1>3, <2>1, <2>2
  <2> QED
    BY <2>3, ContractBalance DEF Balance
<1> QED
  BY <1>4, <1>5

(* The committed rows are those of the performed calls, of which there are *)
(* finitely many.                                                          *)
LEMMA PerformedFinite ==
    ASSUME TypeOK, LedgerInv, BooksInv
    PROVE  /\ IsFiniteSet(Performed)
           /\ IsFiniteSet(Committed)
           /\ \A i \in Committed : rows[i].task \in Performed
<1> USE DEF TypeOK
<1>1. IsFiniteSet(Committed)
  BY RowsFinite DEF Committed
<1>2. \A i \in Committed : rows[i].task \in Performed
  BY RowFields DEF Committed, Performed
<1> DEFINE f == [i \in Committed |-> rows[i].task]
<1>3. \A t \in Performed : \E i \in Committed : f[i] = t
  <2> TAKE t \in Performed
  <2>1. /\ t \in Tasks /\ txn[t] = "committed" /\ cmd[t] \in Commands
        /\ leg[t] = Legs(cmd[t]) + 1 /\ cmd[t].op \in MoneyOps
    BY DEF Performed, LedgerInv, CallProgress, Progress, BooksInv
  <2>2. Legs(cmd[t]) \in 1..2 /\ 1 \in 1..(leg[t] - 1)
    BY <2>1, PostingsLen DEF MoneyOps
  <2>3. PICK i \in DOMAIN rows : Records(i, t, 1)
    BY <2>1, <2>2 DEF LedgerInv, RowsArePostings
  <2>4. i \in Committed /\ rows[i].task = t
    BY <2>1, <2>3 DEF Records, Committed
  <2> QED
    BY <2>4
<1>4. f \in Surjection(Committed, Performed)
  BY <1>2, <1>3 DEF Surjection
<1> QED
  BY <1>1, <1>2, <1>4, FS_Surjection

(* Rows of performed calls add up call by call.                            *)
LEMMA SumByCall ==
    ASSUME TypeOK, LedgerInv, BooksInv,
           NEW S, S \subseteq Committed,
           NEW h, \A t \in Performed : h[t] = Balance(S \cap RowsOf(t))
    PROVE  Balance(S) = SumFunctionOnSet(h, Performed)
<1> USE DEF TypeOK
<1>1. SUFFICES ASSUME NEW f, f = [j \in DOMAIN rows |-> rows[j].amount]
               PROVE  SumFunctionOnSet(f, S) = SumFunctionOnSet(h, Performed)
  BY DEF Balance
<1> DEFINE part == [t \in Performed |-> S \cap RowsOf(t)]
<1>2. IsFiniteSet(Performed) /\ IsFiniteSet(S) /\ \A i \in S : f[i] \in Int
  <2>1. S \subseteq DOMAIN rows
    BY DEF Committed
  <2> QED
    BY <1>1, <2>1, RowsFinite, PerformedFinite
<1>3. Divides(part, Performed, S)
  BY PerformedFinite DEF RowsOf, Committed, Divides
<1>4. \A t \in Performed : h[t] = SumFunctionOnSet(f, part[t])
  BY <1>1 DEF Balance
<1> HIDE DEF part, TypeOK
<1> QED
  BY <1>2, <1>3, <1>4, SumByGroup

(* The ledger adds up to what the calls performed have posted.             *)
LEMMA InvMoney == TypeOK /\ LedgerInv /\ BooksInv => MoneyConserved
<1> SUFFICES ASSUME TypeOK, LedgerInv, BooksInv PROVE MoneyConserved
  OBVIOUS
<1> USE DEF TypeOK
<1>0. \A t \in Performed : t \in Tasks /\ RowsOf(t) \subseteq Committed
  BY DEF Performed, RowsOf, Committed
<1>1. Balance(Committed) =
         SumFunctionOnSet([t \in Tasks |-> External(cmd[t])], Performed)
  <2> DEFINE h == [t \in Tasks |-> External(cmd[t])]
  <2>1. ASSUME NEW t \in Performed
        PROVE  h[t] = Balance(Committed \cap RowsOf(t))
    <3>1. Committed \cap RowsOf(t) = RowsOf(t)
      BY <1>0
    <3> QED
      BY <1>0, <3>1, CallSums
  <2> HIDE DEF h
  <2>2. Balance(Committed) = SumFunctionOnSet(h, Performed)
    BY <2>1, SumByCall
  <2> QED
    BY <2>2 DEF h
<1>2. ASSUME NEW x \in Accounts
      PROVE  Balance(OnAccount(Committed, x)) = Contract!BalanceOf(x)
  <2> DEFINE h == [t \in Tasks |-> Contract!PostedOn(cmd[t], x)]
             S == OnAccount(Committed, x)
  <2>1. ASSUME NEW t \in Performed
        PROVE  h[t] = Balance(S \cap RowsOf(t))
    <3>1. S \cap RowsOf(t) = OnAccount(RowsOf(t), x)
      BY <1>0 DEF OnAccount
    <3> QED
      BY <1>0, <3>1, CallSums
  <2>2. S \subseteq Committed
    BY DEF OnAccount
  <2>3. Balance(S) = SumFunctionOnSet(h, Performed)
    <3> HIDE DEF h, S
    <3> QED
      BY <2>1, <2>2, SumByCall
  <2> QED
    BY <2>3, ContractBalance
<1> QED
  BY <1>1, <1>2 DEF MoneyConserved, Performed

(* No money is created or destroyed: whatever is interleaved, fails or     *)
(* crashes, the ledger adds up to the committed deposits less the          *)
(* committed withdrawals, and each account to what the contract says.      *)
THEOREM MoneyIsConserved == Spec => []MoneyConserved
  BY BooksKept, InvMoney, PTL

-----------------------------------------------------------------------------
(* Overdrafts.                                                             *)

(* A committed debit has read committed rows of its account that cover it, *)
(* all of them stored before it.                                           *)
LEMMA DebitWasCovered ==
    ASSUME TypeOK, LedgerInv, BooksInv, NEW a, NEW j \in DebitRows(a)
    PROVE  /\ snap[rows[j].task] \subseteq OnAccount(Committed, a)
           /\ Balance(snap[rows[j].task]) + rows[j].amount >= 0
           /\ \A i \in snap[rows[j].task] : i < j
<1> USE DEF TypeOK
<1>1. /\ j \in Committed /\ j \in DOMAIN rows
      /\ rows[j].account = a /\ rows[j].amount < 0
  BY DEF DebitRows, OnAccount, Committed
<1>2. PICK t \in Tasks : rows[j].task = t
  BY <1>1, RowFields
<1>3. PICK k \in 1..(leg[t] - 1) : Records(j, t, k)
  BY <1>1, <1>2 DEF LedgerInv, RowsArePostings
<1>4. /\ cmd[t] \in Commands /\ leg[t] \in 1..3 /\ Legs(cmd[t]) \in 0..2
      /\ leg[t] <= Legs(cmd[t]) + 1
  BY PostingsLen DEF LedgerInv, CallProgress, Progress
<1>5. k \in 1..Legs(cmd[t]) /\ leg[t] > 1
  BY <1>3, <1>4
<1>6. /\ Debits(cmd[t]) /\ rows[j].account = cmd[t].from
      /\ rows[j].amount = -cmd[t].amount
  <2>1. cmd[t].op \in MoneyOps /\ cmd[t].amount \in Nat
    BY <1>4, <1>5, PostingsAre, CommandFields
  <2>2. Postings(cmd[t])[k].amount < 0
    BY <1>1, <1>3 DEF Records
  <2>3. \/ cmd[t].op = "deposit"
           /\ Postings(cmd[t])[k] = Posting(cmd[t].from, cmd[t].amount, "DEPOSIT")
        \/ cmd[t].op = "withdraw"
           /\ Postings(cmd[t])[k] = Posting(cmd[t].from, -cmd[t].amount, "WITHDRAWAL")
        \/ cmd[t].op = "transfer"
           /\ Postings(cmd[t])[k] = Posting(cmd[t].from, -cmd[t].amount, "TRANSFER_OUT")
        \/ cmd[t].op = "transfer"
           /\ Postings(cmd[t])[k] = Posting(cmd[t].to, cmd[t].amount, "TRANSFER_IN")
    BY <1>4, <1>5, <2>1, PostingsAre DEF MoneyOps
  <2>4. /\ Debits(cmd[t])
        /\ Postings(cmd[t])[k].account = cmd[t].from
        /\ Postings(cmd[t])[k].amount = -cmd[t].amount
    BY <2>1, <2>2, <2>3 DEF Posting, Debits
  <2> QED
    BY <1>3, <2>4 DEF Records
<1>7. /\ snap[t] \subseteq OnAccount(Committed, cmd[t].from)
      /\ Balance(snap[t]) >= cmd[t].amount
      /\ \A i \in snap[t], n \in RowsOf(t) : i < n
  BY <1>5, <1>6 DEF BooksInv, FundsSeen
<1>8. j \in RowsOf(t)
  BY <1>1, <1>2 DEF RowsOf
<1>9. Balance(snap[t]) \in Int /\ cmd[t].amount \in Int
  <2>1. snap[t] \subseteq DOMAIN rows
    BY <1>7 DEF OnAccount, Committed
  <2> QED
    BY <1>4, <2>1, BalanceInt, CommandFields
<1> QED
  BY <1>1, <1>2, <1>6, <1>7, <1>8, <1>9

(* When every two debits of an account are ordered by what they read, the  *)
(* last of them has read all others, and the credits only add to that.     *)
LEMMA InvOverdraft == TypeOK /\ LedgerInv /\ BooksInv => OverdraftOnlyByWriteSkew
<1> SUFFICES ASSUME TypeOK, LedgerInv, BooksInv, NEW a \in Accounts,
                    Balance(OnAccount(Committed, a)) < 0,
                    \A i, j \in DebitRows(a) : i # j =>
                       i \in snap[rows[j].task] \/ j \in snap[rows[i].task]
             PROVE  FALSE
  BY DEF OverdraftOnlyByWriteSkew
<1> DEFINE A == OnAccount(Committed, a)
           f == [i \in DOMAIN rows |-> rows[i].amount]
<1>1. /\ A \subseteq DOMAIN rows /\ IsFiniteSet(A) /\ A \subseteq Nat
      /\ \A i \in A : f[i] = rows[i].amount /\ f[i] \in Int
      /\ DebitRows(a) = {i \in A : f[i] < 0}
  <2>1. A \subseteq DOMAIN rows
    BY DEF OnAccount, Committed
  <2>2. IsFiniteSet(A) /\ A \subseteq Nat /\ \A i \in A : f[i] \in Int
    BY <2>1, RowsFinite DEF TypeOK
  <2> QED
    BY <2>1, <2>2 DEF DebitRows
<1> SUFFICES Balance(A) >= 0
  <2>1. Balance(A) \in Int
    <3> HIDE DEF A
    <3> QED
      BY <1>1, BalanceInt DEF TypeOK
  <2> QED
    BY <2>1
<1>2. CASE DebitRows(a) = {}
  <2>1. \A i \in A : f[i] \in Nat
    BY <1>1, <1>2
  <2>2. SumFunctionOnSet(f, A) \in Nat
    <3> HIDE DEF f, A
    <3> QED
      BY <1>1, <2>1, SumNat
  <2> QED
    BY <2>2 DEF Balance
<1>3. CASE DebitRows(a) # {}
  <2>1. PICK j \in DebitRows(a) : \A i \in DebitRows(a) : i <= j
    <3> DEFINE D == DebitRows(a)
               id == [i \in D |-> i]
    <3>0. D \subseteq A
      BY <1>1
    <3>1. IsFiniteSet(D) /\ \A i \in D : id[i] = i /\ id[i] \in Int
      <4> HIDE DEF A, D
      <4> QED
        BY <1>1, <3>0, FS_Subset
    <3>2. \E m \in D : \A i \in D : id[i] <= id[m]
      <4> HIDE DEF D, id
      <4> QED
        BY <1>3, <3>1, Largest DEF D
    <3> QED
      BY <3>1, <3>2
  <2> DEFINE seen == snap[rows[j].task]
             late == (A \ seen) \ {j}
  <2>2. /\ seen \subseteq A
        /\ Balance(seen) + rows[j].amount >= 0
        /\ \A i \in seen : i < j
    BY DebitWasCovered
  <2>3. j \in A /\ j \notin seen
    BY <1>1, <2>2
  <2>4. \A i \in late : f[i] \in Nat
    <3> SUFFICES ASSUME NEW i \in late, f[i] < 0 PROVE FALSE
      BY <1>1
    <3>1. i \in DebitRows(a) /\ i # j /\ i \notin seen
      BY <1>1
    <3>2. j \in snap[rows[i].task]
      BY <3>1
    <3>3. j < i
      BY <3>1, <3>2, DebitWasCovered
    <3> QED
      BY <1>1, <2>1, <3>1, <3>3
  <2>5. /\ IsFiniteSet(seen) /\ IsFiniteSet(late) /\ IsFiniteSet(seen \cup {j})
        /\ A = (seen \cup {j}) \cup late
    BY <1>1, <2>2, <2>3, FS_Subset
  <2>6. SumFunctionOnSet(f, A) =
           SumFunctionOnSet(f, seen \cup {j}) + SumFunctionOnSet(f, late)
    <3>1. (seen \cup {j}) \cap late = {}
      OBVIOUS
    <3> SUFFICES ASSUME NEW B, B = seen \cup {j}, NEW C, C = late, NEW g, g = f
                 PROVE  SumFunctionOnSet(g, B \cup C) =
                           SumFunctionOnSet(g, B) + SumFunctionOnSet(g, C)
      BY <2>5
    <3>2. \A i \in B \cup C : g[i] \in Int
      BY <1>1, <2>2, <2>3
    <3> QED
      BY <2>5, <3>1, <3>2, SumDisjoint
  <2>7. SumFunctionOnSet(f, seen \cup {j}) = f[j] + SumFunctionOnSet(f, seen)
    <3>1. \A i \in seen \cup {j} : f[i] \in Int
      BY <1>1, <2>2, <2>3
    <3> HIDE DEF f, seen
    <3> QED
      BY <2>3, <2>5, <3>1, SumAdd
  <2>8. SumFunctionOnSet(f, late) \in Nat
    <3> HIDE DEF f, late
    <3> QED
      BY <2>4, <2>5, SumNat
  <2>9. SumFunctionOnSet(f, seen) \in Int
    <3>1. \A i \in seen : f[i] \in Int
      BY <1>1, <2>2
    <3> HIDE DEF f, seen
    <3> QED
      BY <2>5, <3>1, SumInt
  <2>10. SumFunctionOnSet(f, seen) + f[j] >= 0 /\ f[j] \in Int
    BY <1>1, <2>2, <2>3 DEF Balance
  <2>11. SumFunctionOnSet(f, A) >= 0
    <3> HIDE DEF f, seen, late, A
    <3> QED
      BY <2>6, <2>7, <2>8, <2>9, <2>10
  <2> QED
    BY <2>11 DEF Balance
<1> QED
  BY <1>2, <1>3

(* The balance check is sound up to write skew, for any number of calls    *)
(* and accounts: an overdrawn account has two committed debits of which    *)
(* neither saw the other.                                                  *)
THEOREM OverdraftTakesWriteSkew == Spec => []OverdraftOnlyByWriteSkew
  BY BooksKept, InvOverdraft, PTL
=============================================================================
