----------------------------- MODULE MCDelivery -----------------------------
(***************************************************************************)
(* Instances of Delivery for TLC.  Requests share nothing but the process  *)
(* that a crash takes down, so few are enough.                             *)
(***************************************************************************)
EXTENDS Delivery

AllRefusals == [op \in Ops |-> ServiceRefusals(op)]

(* One refusal of each service, and one that is known to a transfer only.  *)
FewRefusals == [op \in Ops |->
                  CASE op = "transfer" -> {"SelfTransferNotAllowed"}
                    [] op = "withdraw" -> {"InsufficientFunds"}
                    [] op = "deposit"  -> {"AccountNotActive"}
                    [] op = "create_account" -> {"NotFound"}]
=============================================================================
