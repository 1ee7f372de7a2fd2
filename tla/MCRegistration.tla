--------------------------- MODULE MCRegistration ---------------------------
(***************************************************************************)
(* A CPF of four digits, written 1.2.1-2.                                  *)
(***************************************************************************)
EXTENDS Registration, TLC

Symmetry == Permutations(Requests) \cup Permutations(Names) \cup Permutations(Emails)

MCGroups == <<1, 1, 1, 1>>

\* without and with separators, with some of them or too many, too short, a number,
\* and one that is too long for its column
MCCpfs ==
    {<<"1", "2", "1", "2">>, <<"1", ".", "2", ".", "1", "-", "2">>,
     <<"1", "2", "-", "1", "2">>, <<"1", "-", "2", "-", "1", "2">>, <<"1", "2">>,
     <<"1", "2", "e", "2">>, <<" ", "1", "2", "1", "2">>}

MCWrongs == {{}, {"password"}, {"surname", "systemRole"}}
=============================================================================
