---------------------------- MODULE Registration ----------------------------
(***************************************************************************)
(* People register: a form is validated, its password hashed, and the user *)
(* with the person's fields inserted.  Registrations run concurrently, and *)
(* the unique keys of the table are all that keeps them apart.             *)
(*                                                                         *)
(* A CPF is a sequence of characters.  Of the other fields only matters    *)
(* whether the schemas accept them: a form says which they do not.         *)
(***************************************************************************)
EXTENDS Naturals, FiniteSets, Sequences, SequencesExt

CONSTANTS
    Requests,
    Names, Emails,
    CpfInputs,  \* what is typed for a CPF
    CpfLength,  \* digits of a CPF: 11
    Groups,     \* digits between its separators: 3, 3, 3 and 2
    Wrongs,     \* sets of other fields that a form may have wrong
    None

UserFields == {"username", "password", "systemRole"}
PersonFields == {"cpf", "birthDate", "firstName", "surname", "email", "gender"}

Digits == {"0", "1", "2"}
Letters == Digits \cup {".", "-", " ", "e"}

ASSUME RegistrationAssumption ==
    /\ CpfInputs \subseteq Seq(Letters) /\ CpfLength \in Nat \ {0}
    /\ Groups \in Seq(Nat) /\ Len(Groups) = 4
    /\ Groups[1] + Groups[2] + Groups[3] + Groups[4] = CpfLength
    /\ Wrongs \subseteq SUBSET ((UserFields \cup PersonFields) \ {"cpf"})

VARIABLES
    users, \* rows of the table
    req    \* req[r]: the form and how far it is

vars == <<users, req>>

Form == [username : Names, email : Emails, cpf : CpfInputs, wrong : Wrongs]

User == [username : Names, email : Emails, cpf : Seq(Digits)]

Request == [pc : {"idle", "hash", "insert", "registered", "refused", "failed"},
            form : Form \cup {None},
            errors : SUBSET (UserFields \cup PersonFields)]  \* what the answer names

TypeOK ==
    /\ users \subseteq User
    /\ req \in [Requests -> Request]

Init ==
    /\ users = {}
    /\ req = [r \in Requests |-> [pc |-> "idle", form |-> None, errors |-> {}]]

-----------------------------------------------------------------------------
(***************************************************************************)
(* CPF.                                                                    *)
(***************************************************************************)
\* Kept(s, letter)[n]: the first n characters but for that letter
Kept(s, letter) ==
    LET kept[n \in 0 .. Len(s)] ==
            IF n = 0 THEN <<>>
            ELSE IF s[n] = letter THEN kept[n - 1] ELSE Append(kept[n - 1], s[n])
    IN  kept

Without(s, letter) == Kept(s, letter)[Len(s)]

Trimmed(s) ==
    LET shown == {i \in DOMAIN s : s[i] # " "}
    IN  IF shown = {} THEN <<>> ELSE SubSeq(s, Min(shown), Max(shown))

AllDigits(s) == s # <<>> /\ \A i \in DOMAIN s : s[i] \in Digits

Unsigned(s) == IF s # <<>> /\ Head(s) = "-" THEN Tail(s) ELSE s

\* Number(s) is a number: a decimal literal, perhaps with an exponent, or nothing
IsNumber(s) ==
    LET u == Unsigned(s)
    IN  \/ s = <<>> \/ AllDigits(u)
        \/ \E i \in DOMAIN u :
            /\ u[i] = "e" /\ AllDigits(SubSeq(u, 1, i - 1))
            /\ AllDigits(Unsigned(SubSeq(u, i + 1, Len(u))))

\* Mutant: the first dot alone is left out.
FirstDotOut(input) ==
    LET trimmed == Trimmed(RemoveFirst(RemoveFirst(input, "."), "-"))
    IN  IsNumber(trimmed) /\ Len(trimmed) = CpfLength

\* all dots, but the first dash alone, are left out
ValidCpf(input) ==
    LET trimmed == Trimmed(RemoveFirst(Without(input, "."), "-"))
    IN  IsNumber(trimmed) /\ Len(trimmed) = CpfLength

\* the digits: Uint8Array.from makes 0 of what is none
Cpf(input) ==
    LET bare == Without(Without(input, "."), "-")
    IN  [i \in DOMAIN bare |-> IF bare[i] \in Digits THEN bare[i] ELSE "0"]

\* toString
Formatted(cpf) ==
    LET Slice(from, n) == SubSeq(cpf, from + 1, from + n)
    IN  Slice(0, Groups[1]) \o <<".">> \o Slice(Groups[1], Groups[2]) \o <<".">>
        \o Slice(Groups[1] + Groups[2], Groups[3]) \o <<"-">>
        \o Slice(Groups[1] + Groups[2] + Groups[3], Groups[4])

-----------------------------------------------------------------------------
(***************************************************************************)
(* Validation.  Errors are keyed by field.                                 *)
(***************************************************************************)
UserErrors(form) == form.wrong \cap UserFields

PersonErrors(form) ==
    (form.wrong \cap PersonFields) \cup (IF ValidCpf(form.cpf) THEN {} ELSE {"cpf"})

\* ValidationErrors.merge
Merged(errors, others) == errors \cup others

Submit(r) ==
    /\ req[r].pc = "idle"
    /\ \E form \in Form :
        LET errors == Merged(UserErrors(form), PersonErrors(form))
        IN  req' = [req EXCEPT ![r] = [pc |-> IF errors = {} THEN "hash" ELSE "refused",
                                       form |-> form, errors |-> errors]]
    /\ UNCHANGED users

-----------------------------------------------------------------------------
Hash(r) ==
    /\ req[r].pc = "hash"
    /\ req' = [req EXCEPT ![r].pc = "insert"]
    /\ UNCHANGED users

\* the controller passes no role on, whatever the form says: all are plain users
PersonOf(form) == [username |-> form.username, email |-> form.email, cpf |-> Cpf(form.cpf)]

\* Mutant: the username alone is unique.
SameName(u, v) == u.username = v.username

\* unique keys of the table
Conflicts(u, v) == u.username = v.username \/ u.email = v.email

CreatePerson(r) ==
    /\ req[r].pc = "insert"
    /\ LET person == PersonOf(req[r].form)
           fits == /\ Len(person.cpf) <= CpfLength        \* varchar(11)
                   /\ \A u \in users : ~Conflicts(person, u)
       IN  /\ users' = IF fits THEN users \cup {person} ELSE users
           /\ req' = [req EXCEPT ![r].pc = IF fits THEN "registered" ELSE "failed"]

StoreFails(r) ==
    /\ req[r].pc = "insert"
    /\ req' = [req EXCEPT ![r].pc = "failed"]
    /\ UNCHANGED users

Next == \E r \in Requests : Submit(r) \/ Hash(r) \/ CreatePerson(r) \/ StoreFails(r)

Spec == Init /\ [][Next]_vars

-----------------------------------------------------------------------------
(***************************************************************************)
(* Whoever was told that the registration succeeded has the one account of *)
(* that username and of that email, also when others registered in the     *)
(* meantime (people.repository.ts, the unique keys of the users table).    *)
(***************************************************************************)
AccountsAreTheirs ==
    \A r \in Requests : req[r].pc = "registered" =>
        /\ Cardinality({u \in users : u.username = req[r].form.username}) = 1
        /\ {u \in users : u.email = req[r].form.email} = {PersonOf(req[r].form)}

(***************************************************************************)
(* A CPF typed with digits, dots and at most one dash is stored with these *)
(* digits, and what it is shown as parses to the same CPF (cpf.ts).        *)
(***************************************************************************)
CpfIsKept ==
    \A r \in Requests :
        LET input == req[r].form.cpf
            digits == Without(Without(input, "."), "-")
        IN  (req[r].pc = "registered" /\ AllDigits(digits)
             /\ \A i, j \in DOMAIN input : input[i] = "-" /\ input[j] = "-" => i = j)
            => /\ \E u \in users : u.cpf = digits /\ u.username = req[r].form.username
               /\ ValidCpf(Formatted(digits)) /\ Cpf(Formatted(digits)) = digits
=============================================================================
