---------------------------- MODULE Conversions ----------------------------
(***************************************************************************)
(* What the program accepts from a client who registers, what the tables   *)
(* users and accounts keep of it, and what is read back from a row.        *)
(*                                                                         *)
(* A text is known by its length in characters and in bytes, the blanks    *)
(* around it, and the classes of characters between those.  An optional    *)
(* text is the set of it, or {} for None.                                  *)
(***************************************************************************)
EXTENDS Integers

(* "letter" is a letter or digit and "blank" a white space beyond ASCII,   *)
(* "special" one of !#$%^&*()_=+[]{}|;:,.<>? , "symbol" any other          *)
(* character of ASCII, "emoji" any other character beyond it.              *)
Classes == {"upper", "lower", "digit", "letter", "space", "blank", "dash",
            "quote", "at", "special", "symbol", "emoji"}

BeyondAscii == {"letter", "blank", "emoji"}

InNames == {"upper", "lower", "digit", "letter", "space", "blank", "dash", "quote"}

(* The blanks around a text are ASCII, and count in both of its lengths.   *)
Text ==
    {s \in [chars : Nat, bytes : Nat, pad : Nat, holds : SUBSET Classes] :
        /\ s.pad <= s.chars /\ s.chars <= s.bytes
        /\ s.holds = {} <=> s.chars = s.pad
        /\ s.holds \cap BeyondAscii = {} => s.chars = s.bytes}

Optional(S) == {o \in SUBSET S : \A s, t \in o : s = t}

(* The body of POST /users.                                                *)
UserForm == [first : Text, middle : Optional(Text), last : Text,
             user_name : Text, password : Text, email : Optional(Text)]

-----------------------------------------------------------------------------
(* Validation.                                                             *)

Trimmed(s) == [s EXCEPT !.chars = s.chars - s.pad,
                        !.bytes = s.bytes - s.pad,
                        !.pad   = 0]

EmailOk(s) ==
    LET e == Trimmed(s) IN
    /\ e.chars > 0
    /\ "at" \in e.holds
    /\ e.bytes <= 200

(* Mutant: an empty name passes.                                           *)
NameOkOrEmpty(s) ==
    /\ s.chars <= 100
    /\ s.holds \subseteq InNames

NameOk(s) ==
    /\ s.chars > 0
    /\ s.chars <= 100
    /\ s.holds \subseteq InNames

PasswordOk(s) ==
    /\ s.chars >= 12
    /\ s.chars <= 128
    /\ {"upper", "lower", "digit"} \subseteq s.holds
    /\ s.holds \cap {"at", "dash", "special"} # {}
    /\ s.holds \cap BeyondAscii = {}

NamesOk(u) == NameOk(u.first) /\ NameOk(u.last) /\ \A s \in u.middle : NameOk(s)

(* The user name is not looked at.                                         *)
Accepted(u) == NamesOk(u) /\ PasswordOk(u.password) /\ \A s \in u.email : EmailOk(s)

(* What is handed to the table, the password as a hash that always fits.   *)
NewUser(u) == [first |-> u.first, middle |-> u.middle, last |-> u.last,
               user_name |-> u.user_name,
               email |-> {Trimmed(s) : s \in u.email}]

-----------------------------------------------------------------------------
(* The table users.  VARCHAR2(n) takes n bytes, and '' is NULL.            *)

FitsUsers(r) ==
    /\ r.first.bytes     \in 1..100
    /\ r.last.bytes      \in 1..100
    /\ r.user_name.bytes \in 1..50
    /\ \A s \in r.middle : s.bytes <= 50
    /\ \A s \in r.email  : s.bytes <= 200

Stored(r) == [r EXCEPT !.middle = {s \in r.middle : s.bytes > 0},
                       !.email  = {s \in r.email  : s.bytes > 0}]

(* find_by_user_name and find_by_user_id validate names and address again. *)
Readable(r) == NamesOk(r) /\ \A s \in r.email : EmailOk(s)

ReadBack(r) == [r EXCEPT !.email = {Trimmed(s) : s \in r.email}]

-----------------------------------------------------------------------------
(* The table accounts.                                                     *)

AccountType == {"Savings", "Checking"}

AccountTypeCode(t) == CASE t = "Savings"  -> "SAVINGS"
                        [] t = "Checking" -> "CHECKING"

(* The CHECK constraint on account_type.                                   *)
FitsAccounts(code) == code \in {"SAVINGS", "CHECKING"}

KnownTypeCode(code) == code \in {"SAVINGS", "CHECKING"}

KnownStatusCode(code) == code \in {"ACTIVE", "FROZEN", "CLOSED", "SUSPENDED"}
=============================================================================
