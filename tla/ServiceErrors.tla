---------------------------- MODULE ServiceErrors ----------------------------
(***************************************************************************)
(* Where the two halves of the money path meet: the business errors with   *)
(* which a call of a service may refuse an operation.  Ledger and its      *)
(* contract guarantee that the service refuses with nothing else; Delivery *)
(* assumes it.                                                             *)
(***************************************************************************)

(* The source account does not exist, or is not the caller's.              *)
LookupErrors == {"AccountNotFound", "UnauthorizedAccountAccess"}

ServiceRefusals(op) ==
    CASE op = "deposit"  -> LookupErrors \cup {"AccountNotActive"}
      [] op = "withdraw" -> LookupErrors \cup {"AccountNotActive",
                                               "InsufficientFunds"}
      [] op = "transfer" -> LookupErrors \cup {"AccountNotActive",
                                               "InsufficientFunds",
                                               "SelfTransferNotAllowed"}
      [] op \in {"balance", "statement"} -> LookupErrors
      [] op = "create_account"           -> {"NotFound"}
=============================================================================
