-------------------------- MODULE StatementProofs ---------------------------
(***************************************************************************)
(* Proofs about the queries of the ledger: a balance or a statement shows  *)
(* the rows of every call that had returned Ok when the query ran.         *)
(***************************************************************************)
EXTENDS BooksProofs

-----------------------------------------------------------------------------
(* ORDER BY transaction_id DESC FETCH FIRST n ROWS ONLY.                   *)

(* The transaction_id of each row, by its position.                        *)
Ids == [i \in DOMAIN rows |-> rows[i].id]

(* A statement has at least one row and at most a hundred.                 *)
LEMMA ClampRange ==
    ASSUME NEW limit \in Int
    PROVE  Clamp(limit) \in 1..100
  BY DEF Clamp

(* The newest rows of a set are the first ones in the order of their ids.  *)
LEMMA NewestIsTop ==
    ASSUME NEW S, S \subseteq DOMAIN rows, NEW n
    PROVE  Newest(S, n) = Top(Ids, S, n)
<1>1. ASSUME NEW i \in S
      PROVE  {j \in S : rows[j].id > rows[i].id} = Above(Ids, S, i)
  BY DEF Ids, Above
<1> QED
  BY <1>1 DEF Newest, Top

(* Every row has an id, and no two rows have the same.                     *)
LEMMA IdsOrder ==
    ASSUME rows \in Seq(Row), IdsFresh, NEW S, S \subseteq DOMAIN rows
    PROVE  /\ \A i \in S : Ids[i] \in Int
           /\ \A i, j \in S : Ids[i] = Ids[j] => i = j
<1>1. \A i \in DOMAIN rows : rows[i].id \in Int
  BY RowFields DEF Row
<1> QED
  BY <1>1 DEF Ids, IdsFresh

(* A row is among the newest n, or there are n rows newer than it.         *)
LEMMA NewestOrNewer ==
    ASSUME rows \in Seq(Row), IdsFresh, NEW S, S \subseteq DOMAIN rows,
           NEW n \in Nat, NEW i \in S
    PROVE  \/ i \in Newest(S, n)
           \/ /\ Cardinality(Newest(S, n)) = n
              /\ \A j \in Newest(S, n) : rows[j].id > rows[i].id
<1> SUFFICES ASSUME i \notin Newest(S, n)
             PROVE  /\ Cardinality(Newest(S, n)) = n
                    /\ \A j \in Newest(S, n) : rows[j].id > rows[i].id
  OBVIOUS
<1>1. IsFiniteSet(S)
  BY RowsFinite
<1>2. i \notin Top(Ids, S, n)
  BY NewestIsTop
<1>3. n < Cardinality(S) /\ \A j \in Top(Ids, S, n) : Ids[j] > Ids[i]
  BY <1>1, <1>2, IdsOrder, TopAbove
<1>4. Cardinality(Top(Ids, S, n)) = n
  <2>1. n <= Cardinality(S)
    BY <1>1, <1>3, FS_CardinalityType
  <2> QED
    BY <1>1, <2>1, IdsOrder, TopSize
<1>5. Newest(S, n) \subseteq DOMAIN rows
  BY DEF Newest
<1> QED
  BY <1>3, <1>4, <1>5, NewestIsTop DEF Ids

-----------------------------------------------------------------------------
(* What a query of a call sees.                                            *)

(* A query that gets an answer is a balance check or a read: a statement   *)
(* that fails, or a crash, leaves no answer and no new snapshot.           *)
LEMMA QueryStep ==
    ASSUME TypeOK, [Next]_vars, NEW t \in Tasks, pc[t] \in {"check", "read"},
           pc'[t] # pc[t],
           snap'[t] # snap[t] \/ result'[t] \in {"Ok", "InsufficientFunds"}
    PROVE  CheckBalance(t) \/ Read(t)
<1> USE DEF TypeOK
<1>1. ASSUME NEW u \in Tasks, Step(u), u # t
      PROVE  pc'[t] = pc[t]
  BY <1>1 DEF Step, LookupRefused, Lookup, ResolveRefused, Resolve,
              CheckBalance, BeginInsert, ReadHash, PassGuard, StoreRow, InsertRefused,
              Commit, CommitFails, Read, StatementFails, Goto, Reject, Finish
<1>2. ~ StatementFails(t)
  BY DEF StatementFails, Reject, Finish
<1>3. CASE Step(t)
  BY <1>2, <1>3 DEF Step, LookupRefused, Lookup, ResolveRefused, Resolve,
                    BeginInsert, ReadHash, PassGuard, StoreRow, InsertRefused, Commit, CommitFails
<1>4. ASSUME NEW x \in Accounts, SetStatus(x)
      PROVE  FALSE
  BY <1>4 DEF SetStatus, taskVars
<1>5. ~ Crash
  BY DEF Crash
<1> QED
  BY <1>1, <1>3, <1>4, <1>5 DEF Next, vars

(* The rows of a call that returned Ok are committed.                      *)
LEMMA AcknowledgedCommitted ==
    ASSUME TypeOK, LedgerInv, NEW u \in Tasks, result[u] = "Ok"
    PROVE  RowsOf(u) \subseteq Committed
<1>1. Progress(u) /\ Answered(u) /\ cmd[u].op \in MoneyOps \cup ReadOps
  BY CommandFields DEF TypeOK, LedgerInv, CallProgress, CallAnswered
<1>2. CASE cmd[u].op \in MoneyOps
  BY <1>1, <1>2 DEF Answered, RowsOf, Committed
<1>3. CASE cmd[u].op \in ReadOps
  <2>1. leg[u] <= 1 /\ leg[u] \in 1..3
    <3>1. Legs(cmd[u]) = 0
      BY <1>3, PostingsLen DEF TypeOK
    <3> QED
      BY <1>1, <3>1 DEF Progress, TypeOK
  <2>2. RowsOf(u) = {}
    BY <2>1 DEF LedgerInv, RowsArePostings, RowsOf
  <2> QED
    BY <2>2
<1> QED
  BY <1>1, <1>2, <1>3

(* No step of a query misses the rows of a call that had returned Ok.      *)
LEMMA QuerySees ==
    ASSUME TypeOK, LedgerInv, BooksInv, [Next]_vars,
           NEW t \in Tasks, NEW u \in Tasks
    PROVE  SeesAcknowledged(t, u)
<1> SUFFICES ASSUME pc[t] \in {"check", "read"}, pc'[t] # pc[t],
                    snap'[t] # snap[t] \/ result'[t] \in {"Ok", "InsufficientFunds"},
                    result[u] = "Ok",
                    NEW i \in OnAccount(RowsOf(u), cmd[t].from)
             PROVE  \/ i \in snap'[t]
                    \/ /\ cmd[t].op = "statement"
                       /\ Cardinality(snap'[t]) = Clamp(cmd[t].limit)
                       /\ \A j \in snap'[t] : rows[j].id > rows[i].id
  BY DEF SeesAcknowledged
<1> DEFINE seen == OnAccount(Visible(t), cmd[t].from)
<1>1. i \in seen /\ seen \subseteq DOMAIN rows
  BY AcknowledgedCommitted DEF OnAccount, Visible, Committed, RowsOf
<1>2. CASE snap'[t] = seen
  BY <1>1, <1>2
<1>3. CASE cmd[t].op = "statement" /\ snap'[t] = Newest(seen, Clamp(cmd[t].limit))
  <2>1. Clamp(cmd[t].limit) \in Nat
    <3>1. cmd[t].limit \in Int
      BY CommandFields DEF TypeOK, Command
    <3>2. Clamp(cmd[t].limit) \in 1..100
      BY <3>1, ClampRange
    <3> QED
      BY <3>2
  <2>2. rows \in Seq(Row) /\ IdsFresh
    BY DEF TypeOK, BooksInv
  <2> QED
    BY <1>1, <1>3, <2>1, <2>2, NewestOrNewer
<1>4. \/ snap'[t] = seen
      \/ cmd[t].op = "statement" /\ snap'[t] = Newest(seen, Clamp(cmd[t].limit))
  <2>1. CheckBalance(t) \/ Read(t)
    BY QueryStep
  <2>2. DOMAIN snap = Tasks
    BY DEF TypeOK
  <2>3. CASE CheckBalance(t)
    BY <2>2, <2>3 DEF CheckBalance
  <2>4. CASE Read(t)
    BY <2>2, <2>4 DEF Read
  <2> QED
    BY <2>1, <2>3, <2>4
<1> QED
  BY <1>2, <1>3, <1>4

(* A balance check, a get_balance or a get_statement that runs after a     *)
(* call has returned Ok shows the rows of that call, for any number of     *)
(* calls and whatever the limit of the statement: it leaves one of them    *)
(* out only when it is full of newer rows.                                 *)
THEOREM AcknowledgedSeen == Spec => AcknowledgedIsVisible
<1>1. TypeOK /\ LedgerInv /\ BooksInv /\ [Next]_vars =>
        \A t, u \in Tasks : SeesAcknowledged(t, u)
  BY QuerySees
<1>2. TypeOK /\ LedgerInv /\ BooksInv /\ [Next]_vars =>
        [\A t, u \in Tasks : SeesAcknowledged(t, u)]_vars
  BY <1>1
<1> QED
  BY <1>2, BooksKept, PTL DEF Spec, AcknowledgedIsVisible
=============================================================================
