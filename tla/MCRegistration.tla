--------------------------- MODULE MCRegistration ---------------------------
(***************************************************************************)
(* Instances of Registration for TLC.                                      *)
(***************************************************************************)
EXTENDS Registration, TLC

CONSTANTS alice, c1, c2

(* The first two values of the sequence collide, the next ones do not.     *)
CollidingNumbers == [s \in 1..LastSeq |-> IF s <= 2 THEN 1 ELSE s]

Word(n, pad, classes) == [chars |-> n, bytes |-> n, pad |-> pad, holds |-> classes]

(* With one white space of three bytes.                                    *)
Spaced == [chars |-> 48, bytes |-> 50, pad |-> 0, holds |-> {"lower", "blank"}]

(* One character short of, or at, the limits of the checks.                *)
Plain ==
    [first |-> Word(1, 0, {"upper"}), middle |-> {Spaced},
     last |-> Word(100, 0, {"upper", "lower", "quote"}),
     user_name |-> Word(5, 0, {"lower"}),
     password |-> Word(12, 0, {"upper", "lower", "digit", "dash"}),
     email |-> {Word(200, 2, {"lower", "at"})}]

(* A middle name "", which the table would take for none.                  *)
Unnamed == [Plain EXCEPT !.middle = {Word(0, 0, {})}]

OneOfEach == c1 :> "Savings" @@ c2 :> "Checking"

(* 100 characters are not 100 bytes.                                       *)
Wide == [Plain EXCEPT !.first = [chars |-> 100, bytes |-> 300, pad |-> 0,
                                 holds |-> {"letter"}]]

(* Three clients who ask for one user name.                                *)
OneName == [i \in {"plain", "unnamed", "wide"} |->
              [name |-> alice,
               form |-> CASE i = "plain"   -> Plain
                          [] i = "unnamed" -> Unnamed
                          [] i = "wide"    -> Wide]]
=============================================================================
