--------------------------- MODULE LedgerContract ---------------------------
(***************************************************************************)
(* What TransactionsService promises its callers, without SQL: a bank that *)
(* performs a call in one step, at most once, all of its postings or none, *)
(* for the owner of the source account only, and that answers truthfully:  *)
(* after "Ok" the call was performed, after a business error of its        *)
(* operation it was not, and after a database error or a crash it may or   *)
(* may not have been.                                                      *)
(* It promises nothing about overdrafts: the code does not keep them out.  *)
(***************************************************************************)
EXTENDS Commands, Functions

CONSTANT Tasks

VARIABLES
    request,    \* the command of each call
    performed,  \* the money operations whose effect is in the ledger
    reply       \* what each call has returned

vars == <<request, performed, reply>>

Init ==
    /\ request   \in [Tasks -> Commands]
    /\ performed = {}
    /\ reply     = [t \in Tasks |-> "None"]

(* The calls in S take effect.                                             *)
Perform(S) ==
    /\ S \intersect performed = {}
    /\ \A t \in S : /\ request[t].op \in MoneyOps
                    /\ request[t].from \in Accounts
                    /\ request[t].user = Owner[request[t].from]
    /\ performed' = performed \cup S

Answer(t, r) ==
    /\ reply[t] = "None"
    /\ reply' = [reply EXCEPT ![t] = r]

Succeed(t) ==
    /\ \/ request[t].op \in MoneyOps /\ Perform({t})
       \/ request[t].op \in ReadOps  /\ UNCHANGED performed
    /\ Answer(t, "Ok")
    /\ UNCHANGED request

Refuse(t) ==
    /\ \E e \in ServiceRefusals(request[t].op) : Answer(t, e)
    /\ UNCHANGED <<request, performed>>

Fail(t) ==
    /\ Perform({t}) \/ UNCHANGED performed
    /\ Answer(t, "DatabaseError")
    /\ UNCHANGED request

Crash ==
    \E S \in SUBSET {t \in Tasks : reply[t] = "None"} :
        /\ \E landed \in SUBSET S : Perform(landed)
        /\ reply' = [t \in Tasks |-> IF t \in S THEN "Crashed" ELSE reply[t]]
        /\ UNCHANGED request

Next ==
    \/ \E t \in Tasks : Succeed(t) \/ Refuse(t) \/ Fail(t)
    \/ Crash

Spec == Init /\ [][Next]_vars

-----------------------------------------------------------------------------
(* What command c adds to account x: the amounts it posts on it.           *)
PostedOn(c, x) ==
    SumFunctionOnSet([k \in DOMAIN Postings(c) |-> Postings(c)[k].amount],
                     {k \in DOMAIN Postings(c) : Postings(c)[k].account = x})

(* What the balance of account x is: all that the calls performed so far   *)
(* have posted on it.                                                      *)
BalanceOf(x) ==
    SumFunctionOnSet([t \in Tasks |-> PostedOn(request[t], x)], performed)
=============================================================================
