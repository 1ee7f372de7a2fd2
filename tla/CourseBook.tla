---------------------------- MODULE CourseBook ----------------------------
(***************************************************************************)
(* What courses and assignments promise: a course, a local assignment and  *)
(* an external one each come at once or not at all, an external assignment *)
(* is of a tool deployed at that moment, and its deployment stays as long  *)
(* as the assignment does.  Coursework implements it.                      *)
(***************************************************************************)
EXTENDS FiniteSets

CONSTANTS Ids, Instructors, Tools, None

VARIABLES
    courses,  \* courses[c]: the instructor of course c
    work,     \* work[a]: the course of assignment a and, if it is external, its deployment
    deployed  \* deployed[d]: the tool of deployment d

book == <<courses, work, deployed>>

Init ==
    /\ courses = [c \in Ids |-> None]
    /\ work = [a \in Ids |-> None]
    /\ deployed = [d \in Ids |-> None]

AddCourse(c, instructor) ==
    /\ courses[c] = None
    /\ courses' = [courses EXCEPT ![c] = instructor]
    /\ UNCHANGED <<work, deployed>>

Assign(a, c, d) ==
    /\ work[a] = None /\ courses[c] # None
    /\ work' = [work EXCEPT ![a] = [course |-> c, deployment |-> d]]
    /\ UNCHANGED <<courses, deployed>>

AddLocal(a, c) == Assign(a, c, None)

AddExternal(a, c, d) == deployed[d] # None /\ Assign(a, c, d)

Deploy(d, tool) ==
    /\ deployed[d] = None
    /\ deployed' = [deployed EXCEPT ![d] = tool]
    /\ UNCHANGED <<courses, work>>

Undeploy(d) ==
    /\ deployed[d] # None
    /\ \A a \in Ids : work[a] # None => work[a].deployment # d
    /\ deployed' = [deployed EXCEPT ![d] = None]
    /\ UNCHANGED <<courses, work>>

Change ==
    \E i \in Ids :
        \/ \E p \in Instructors : AddCourse(i, p)
        \/ \E c \in Ids : AddLocal(i, c) \/ \E d \in Ids : AddExternal(i, c, d)
        \/ \E t \in Tools : Deploy(i, t)
        \/ Undeploy(i)

\* every step changes the book
Next == book' # book /\ Change

Spec == Init /\ [][Next]_book

=============================================================================
