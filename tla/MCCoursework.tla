---------------------------- MODULE MCCoursework ----------------------------
(***************************************************************************)
(* Two instructors and a student; course 1, assignment 1, deployment 1 and *)
(* link 1 are the ones named.                                              *)
(***************************************************************************)
EXTENDS Coursework, TLC

CONSTANTS ana, bob, eva, tool

Named == [kind |-> "course", user |-> ana, student |-> eva, tool |-> tool, id |-> 1,
          score |-> 1, max |-> 1, due |-> TRUE]

\* one job of each kind, grades that are not due, and an assignment whose deadline passed
MCJobs ==
    {[Named EXCEPT !.kind = kind] :
        kind \in {"course", "assignment", "external", "grade", "show",
                  "deploy", "undeploy", "unlink"}}
    \cup {[Named EXCEPT !.kind = "grade", !.user = bob],
          [Named EXCEPT !.kind = "grade", !.student = bob],
          [Named EXCEPT !.kind = "grade", !.score = 2],
          [Named EXCEPT !.kind = "assignment", !.due = FALSE]}

MCEnrolled == {<<eva, 1>>}
MCInstructors == {ana, bob}

Symmetry == Permutations(Requests)
=============================================================================
