---------------------------- MODULE Coursework ----------------------------
(***************************************************************************)
(* Courses, assignments, external LTI assignments and grades in Postgres.  *)
(* A request is a chain of awaits.  A course with its context, and an      *)
(* external assignment with its resource link, are written in a            *)
(* transaction (READ COMMITTED), which holds a connection of the pool from *)
(* its begin to its end.  A repository that asks the transaction manager   *)
(* runs in the transaction of its caller; the others take a connection of  *)
(* the pool for each statement, also when they are called inside one.      *)
(*                                                                         *)
(* db is what is committed; writes[r] is what the transaction of r has     *)
(* written so far, seen by r alone, and None where it has written nothing. *)
(* A new id is a random UUID: the least unused one stands for it.          *)
(***************************************************************************)
EXTENDS Integers, FiniteSets

CONSTANTS
    Requests,     \* concurrent callers
    Transactors,  \* those of them that may open a transaction
    Jobs,         \* what they may ask for
    People, Tools,
    Instructors,  \* the people with the role that teaches
    Enrolled,     \* <<student, course>>: rows of enrollments, which no operation writes
    PoolSizes,    \* how many connections the pool may have; pg's default is 10
    MaxSmallInt,
    Ids,          \* bound: the ids of each table
    None

Tables == {"course", "context", "deployment", "link", "assignment", "external"}
Keys == Tables \X Ids

Job == [kind : {"course", "assignment", "external", "grade", "show",
                "deploy", "undeploy", "unlink"},
        user : People, student : People, tool : Tools,
        id : Ids,                     \* the row the job names
        score : Int, max : Int,
        due : BOOLEAN]                \* whether the deadline, if any, is still to come

Row(table) ==
    CASE table = "course" -> [instructor : People]
      [] table = "context" -> [context : Ids]
      [] table = "deployment" -> [tool : Tools]
      [] table = "link" -> [deployment : Ids, context : Ids]
      [] table = "assignment" -> [course : Ids, kind : {"local", "external_lti"}, max : Int]
      [] table = "external" -> [link : Ids]

ASSUME CourseworkAssumption ==
    /\ Jobs \subseteq Job /\ Transactors \subseteq Requests
    /\ Instructors \subseteq People /\ Enrolled \subseteq People \X Ids
    /\ PoolSizes \subseteq Nat \ {0} /\ Ids \subseteq Nat \ {0} /\ MaxSmallInt \in Nat
    /\ IsFiniteSet(Requests) /\ None \notin People \cup Tools \cup Ids
    /\ \A table \in Tables : None \notin Row(table)

VARIABLES
    db,     \* db[<<t, i>>]: the committed row of table t with id i
    grades, \* the rows of grades
    req,    \* req[r]: the job r is at and how far it is
    writes, \* writes[r]: the uncommitted rows of r
    poolSize \* the pool has no more connections than that, from the start of the program on

vars == <<db, grades, req, writes, poolSize>>

Grade == [student : People, assignment : Ids, course : Ids, score : Int, max : Int,
          by : People]                \* history: who graded

Request ==
    [pc : {"idle", "find", "locate", "begin", "gather", "course", "context", "assignment",
           "link", "external", "commit", "grade", "deploy", "delete", "lock", "show",
           "ok", "refused", "failed"},
     job : Jobs \cup {None},
     todo : SUBSET {"deployment", "context", "course", "instructor", "student", "assignment"},
     found : BOOLEAN,                 \* whether every lookup so far found something
     dep : Ids \cup {None}, new : Ids \cup {None}, link : Ids \cup {None},
     tx : BOOLEAN]

Fresh == [pc |-> "idle", job |-> None, todo |-> {}, found |-> TRUE,
          dep |-> None, new |-> None, link |-> None, tx |-> FALSE]

NoWrites == [k \in Keys |-> None]

Only(key, row) == [k \in Keys |-> IF k = key THEN row ELSE None]

Over(rows, below) == [k \in Keys |-> IF rows[k] # None THEN rows[k] ELSE below[k]]

TypeOK ==
    /\ DOMAIN db = Keys /\ \A k \in Keys : db[k] \in Row(k[1]) \cup {None}
    /\ grades \subseteq Grade
    /\ req \in [Requests -> Request]
    /\ DOMAIN writes = Requests
    /\ \A r \in Requests :
        /\ DOMAIN writes[r] = Keys /\ \A k \in Keys : writes[r][k] \in Row(k[1]) \cup {None}
        /\ writes[r] # NoWrites => req[r].tx
    /\ poolSize \in PoolSizes

Init ==
    /\ db = [k \in Keys |-> None]
    /\ grades = {}
    /\ req = [r \in Requests |-> Fresh]
    /\ writes = [r \in Requests |-> NoWrites]
    /\ poolSize \in PoolSizes

-----------------------------------------------------------------------------
(***************************************************************************)
(* Connections, transactions and statements.                               *)
(***************************************************************************)
Connected == {r \in Requests : req[r].tx \/ req[r].pc = "lock"}

HasFreeConnection == Cardinality(Connected) < poolSize

\* Mutant: resource links are written through the pool.
AllButLinks(table) == table \notin {"link", "deployment"}

\* the repositories that ask the transaction manager
JoinsTransaction(table) == table # "deployment"

InTx(r, table) == req[r].tx /\ JoinsTransaction(table)

MayQuery(r, table) == InTx(r, table) \/ HasFreeConnection

\* what a statement of r sees
View(r) == Over(writes[r], db)

\* the rows a row refers to by foreign keys
References(k, row) ==
    CASE k[1] = "link" -> {<<"deployment", row.deployment>>, <<"context", row.context>>}
      [] k[1] = "assignment" -> {<<"course", row.course>>}
      [] k[1] = "external" -> {<<"assignment", k[2]>>, <<"link", row.link>>}
      [] OTHER -> {}

\* Mutant: deleting a row does not heed who refers to it.
ReferredByNone(keys) == {}

\* rows of external assignments that refer to a link among keys
Restricting(keys) ==
    {k \in Keys : k[1] = "external" /\ db[k] # None /\ References(k, db[k]) \cap keys # {}}

\* an inserted row keeps the rows it refers to locked until its transaction ends
Locked(k) ==
    \E r \in Requests, w \in Keys : writes[r][w] # None /\ k \in References(w, writes[r][w])

UsedIds(table) ==
    {i \in Ids : \/ db[<<table, i>>] # None
                 \/ \E r \in Requests : writes[r][<<table, i>>] # None
                 \/ table = "deployment" /\ \E r \in Requests : req[r].dep = i}

FreshId(table) ==
    {i \in Ids \ UsedIds(table) : \A j \in Ids \ UsedIds(table) : i <= j}

\* of an answered request only the answer is kept
Ended(pc) == [Fresh EXCEPT !.pc = pc]

\* whatever throws in a transaction rolls it back
Abort(r, pc) ==
    /\ req' = [req EXCEPT ![r] = Ended(pc)]
    /\ writes' = [writes EXCEPT ![r] = NoWrites]
    /\ UNCHANGED <<db, grades>>

Advance(r, to) == req' = [req EXCEPT ![r] = to] /\ UNCHANGED <<db, grades, writes>>

\* rows go to the transaction or, through the pool, are committed at once
Write(r, table, rows, to) ==
    /\ MayQuery(r, table)
    /\ IF \A k \in Keys : rows[k] # None => \A j \in References(k, rows[k]) : View(r)[j] # None
       THEN /\ req' = [req EXCEPT ![r] = to]
            /\ IF InTx(r, table)
               THEN writes' = [writes EXCEPT ![r] = Over(rows, @)] /\ db' = db
               ELSE db' = Over(rows, db) /\ writes' = writes
            /\ UNCHANGED grades
       ELSE Abort(r, "failed")

-----------------------------------------------------------------------------
(***************************************************************************)
(* What a job needs and where it goes.                                     *)
(***************************************************************************)
Answered == {"idle", "ok", "refused", "failed"}

Gathers(kind) ==
    CASE kind = "course" -> {"instructor"}
      [] kind = "grade" -> {"instructor", "student", "assignment"}
      [] OTHER -> {"course", "instructor"}

FirstStep(kind) ==
    CASE kind = "course" -> "begin"
      [] kind \in {"assignment", "grade"} -> "gather"
      [] kind = "external" -> "find"
      [] kind \in {"undeploy", "unlink"} -> "delete"
      [] OTHER -> kind

Creates(kind) ==
    CASE kind = "external" -> {"assignment", "link"}
      [] kind = "deploy" -> {"deployment"}
      [] OTHER -> {kind} \cap Tables

\* bound: there is an id for every row that the requests are about to insert
HasRoom(kind) ==
    \A t \in Creates(kind) :
        Cardinality(UsedIds(t)) + Cardinality({r \in Requests :
            req[r].pc \notin Answered /\ t \in Creates(req[r].job.kind)}) < Cardinality(Ids)

Receive(r) ==
    /\ req[r].pc \in Answered
    /\ \E job \in Jobs :
        /\ HasRoom(job.kind)
        /\ job.kind \in {"course", "external"} => r \in Transactors
        /\ Advance(r, [Fresh EXCEPT !.pc = FirstStep(job.kind), !.job = job,
                                    !.todo = Gathers(job.kind)])

\* the course a job is about
CourseOf(r) ==
    IF req[r].job.kind = "grade"
    THEN db[<<"assignment", req[r].job.id>>].course ELSE req[r].job.id

\* an external assignment is made in the name of the course's instructor
InstructorOf(r) ==
    IF req[r].job.kind = "external"
    THEN db[<<"course", req[r].job.id>>].instructor ELSE req[r].job.user

InstructorIsAuthorized(instructor, course) ==
    db[<<"course", course>>] # None /\ db[<<"course", course>>].instructor = instructor

ValidAssignment(job) == job.due /\ job.max <= MaxSmallInt /\ job.max > 0

\* Mutant: a score has no upper bound.
ScoreIsPositive(score, max) == score >= 0

CheckScore(score, max) == score >= 0 /\ score <= max

-----------------------------------------------------------------------------
(***************************************************************************)
(* An external assignment: course, then deployment and context side by     *)
(* side, then the transaction.                                             *)
(***************************************************************************)
FindCourseById(r) ==
    /\ req[r].pc = "find" /\ HasFreeConnection
    /\ IF db[<<"course", req[r].job.id>>] # None
       THEN Advance(r, [req[r] EXCEPT !.pc = "locate", !.todo = {"deployment", "context"}])
       ELSE Abort(r, "refused")

\* every deployment the program makes is global: any of the tool's may be the first row
FindToolDeployment(r) ==
    /\ req[r].pc = "locate" /\ "deployment" \in req[r].todo /\ HasFreeConnection
    /\ LET fits == {d \in Ids : db[<<"deployment", d>>] = [tool |-> req[r].job.tool]}
       IN  \E d \in IF fits = {} THEN {None} ELSE fits :
            Advance(r, [req[r] EXCEPT !.todo = @ \ {"deployment"}, !.dep = d])

\* the context of a course is made from the course
FindContext(r) ==
    /\ req[r].pc = "locate" /\ "context" \in req[r].todo /\ HasFreeConnection
    /\ Advance(r, [req[r] EXCEPT !.todo = @ \ {"context"},
                                 !.found = @ /\ db[<<"course", req[r].job.id>>] # None])

Located(r) ==
    /\ req[r].pc = "locate" /\ req[r].todo = {}
    /\ IF req[r].found /\ req[r].dep # None
       THEN Advance(r, [req[r] EXCEPT !.pc = "begin", !.todo = Gathers("external")])
       ELSE Abort(r, "refused")

Begin(r) ==
    /\ req[r].pc = "begin" /\ HasFreeConnection
    /\ Advance(r, [req[r] EXCEPT !.pc = "gather", !.tx = TRUE])

\* people are looked up through the pool, also inside of a transaction
GatherInstructor(r) ==
    /\ req[r].pc = "gather" /\ "instructor" \in req[r].todo /\ HasFreeConnection
    /\ Advance(r, [req[r] EXCEPT !.todo = @ \ {"instructor"},
                                 !.found = @ /\ InstructorOf(r) \in Instructors])

GatherStudent(r) ==
    /\ req[r].pc = "gather" /\ "student" \in req[r].todo /\ HasFreeConnection
    /\ Advance(r, [req[r] EXCEPT !.todo = @ \ {"student"}])

GatherCourse(r) ==
    /\ req[r].pc = "gather" /\ "course" \in req[r].todo /\ MayQuery(r, "course")
    /\ Advance(r, [req[r] EXCEPT !.todo = @ \ {"course"},
                                 !.found = @ /\ View(r)[<<"course", req[r].job.id>>] # None])

GatherAssignment(r) ==
    /\ req[r].pc = "gather" /\ "assignment" \in req[r].todo /\ HasFreeConnection
    /\ Advance(r, [req[r] EXCEPT !.todo = @ \ {"assignment"},
                                 !.found = @ /\ db[<<"assignment", req[r].job.id>>] # None])

Gathered(r) ==
    /\ req[r].pc = "gather" /\ req[r].todo = {}
    /\ LET kind == req[r].job.kind
           goes == \/ kind = "course"
                   \/ /\ kind \in {"assignment", "external"}
                      /\ InstructorIsAuthorized(InstructorOf(r), CourseOf(r))
                      /\ ValidAssignment(req[r].job)
                   \/ kind = "grade"
       IN  IF req[r].found /\ goes
           THEN Advance(r, [req[r] EXCEPT !.pc =
                    CASE kind = "external" -> "assignment" [] OTHER -> kind])
           ELSE Abort(r, "refused")

-----------------------------------------------------------------------------
(***************************************************************************)
(* Writes.                                                                 *)
(***************************************************************************)
SaveCourse(r) ==
    /\ req[r].pc = "course"
    /\ \E c \in FreshId("course") :
        Write(r, "course", Only(<<"course", c>>, [instructor |-> req[r].job.user]),
              [req[r] EXCEPT !.pc = "context", !.new = c])

\* Mutant: a course gets no context.
SaveNoContext(r) ==
    /\ req[r].pc = "context"
    /\ Advance(r, [req[r] EXCEPT !.pc = "commit"])

SaveContext(r) ==
    /\ req[r].pc = "context"
    /\ Write(r, "context", Only(<<"context", req[r].new>>, [context |-> req[r].new]),
             [req[r] EXCEPT !.pc = "commit"])

\* the mapper stores every assignment as a local one
SaveAssignment(r) ==
    /\ req[r].pc = "assignment"
    /\ \E a \in FreshId("assignment") :
        Write(r, "assignment",
              Only(<<"assignment", a>>, [course |-> req[r].job.id, kind |-> "local",
                                         max |-> req[r].job.max]),
              IF req[r].tx THEN [req[r] EXCEPT !.pc = "link", !.new = a] ELSE Ended("ok"))

SaveLink(r) ==
    /\ req[r].pc = "link"
    /\ \E l \in FreshId("link") :
        Write(r, "link",
              Only(<<"link", l>>, [deployment |-> req[r].dep, context |-> req[r].job.id]),
              [req[r] EXCEPT !.pc = "external", !.link = l])

\* Mutant: the kind of the assignment stays.
TupleAlone(r) == Only(<<"external", req[r].new>>, [link |-> req[r].link])

\* the row of lti_assignments and the new kind, in a nested transaction
ExternalRows(r) ==
    LET a == <<"assignment", req[r].new>>
    IN  Over(Only(<<"external", req[r].new>>, [link |-> req[r].link]),
             Only(a, [View(r)[a] EXCEPT !.kind = "external_lti"]))

MakeAssignmentExternal(r) ==
    /\ req[r].pc = "external"
    /\ Write(r, "external", ExternalRows(r), [req[r] EXCEPT !.pc = "commit"])

Commit(r) ==
    /\ req[r].pc = "commit"
    /\ db' = View(r)
    /\ req' = [req EXCEPT ![r] = Ended("ok")]
    /\ writes' = [writes EXCEPT ![r] = NoWrites]
    /\ UNCHANGED grades

\* the course, which does not change, is read, the policy asked and the grade
\* inserted; a second one for a student and an assignment breaks the primary key
SaveGrade(r) ==
    /\ req[r].pc = "grade" /\ HasFreeConnection
    /\ LET job == req[r].job
           asg == db[<<"assignment", job.id>>]
           grade == [student |-> job.student, assignment |-> job.id, course |-> asg.course,
                     score |-> job.score, max |-> asg.max, by |-> job.user]
           again == \E g \in grades : g.student = job.student /\ g.assignment = job.id
       IN  IF ~InstructorIsAuthorized(job.user, CourseOf(r)) \/ ~CheckScore(job.score, asg.max)
           THEN Abort(r, "refused")
           ELSE IF again \/ <<job.student, asg.course>> \notin Enrolled
           THEN Abort(r, "failed")
           ELSE /\ grades' = grades \cup {grade}
                /\ req' = [req EXCEPT ![r] = Ended("ok")]
                /\ UNCHANGED <<db, writes>>

Deploy(r) ==
    /\ req[r].pc = "deploy"
    /\ \E d \in FreshId("deployment") :
        Write(r, "deployment", Only(<<"deployment", d>>, [tool |-> req[r].job.tool]), Ended("ok"))

\* the links of a deployment go with it; an external assignment forbids it
Cascade(r) ==
    IF req[r].job.kind = "unlink" THEN {<<"link", req[r].job.id>>}
    ELSE LET d == <<"deployment", req[r].job.id>>
         IN  {d} \cup {k \in Keys : k[1] = "link" /\ db[k] # None /\ d \in References(k, db[k])}

SendDelete(r) ==
    /\ req[r].pc = "delete" /\ HasFreeConnection
    /\ Advance(r, [req[r] EXCEPT !.pc = "lock"])

\* a delete waits for the locks on its rows, with its connection
Delete(r) ==
    /\ req[r].pc = "lock"
    /\ \A k \in Cascade(r) : ~Locked(k)
    /\ IF Restricting(Cascade(r)) # {} THEN Abort(r, "failed")
       ELSE /\ db' = [k \in Keys |-> IF k \in Cascade(r) THEN None ELSE db[k]]
            /\ req' = [req EXCEPT ![r] = Ended("ok")]
            /\ UNCHANGED <<grades, writes>>

Show(r) ==
    /\ req[r].pc = "show" /\ HasFreeConnection
    /\ IF db[<<"external", req[r].job.id>>] # None
       THEN Advance(r, Ended("ok")) ELSE Abort(r, "refused")

\* a statement fails; of a commit the answer may be lost and not the effect
StoreFails(r) ==
    /\ req[r].pc \notin Answered
    /\ req[r].pc \in {"locate", "gather"} => Cardinality(req[r].todo) = 1
    /\ \/ Abort(r, "failed")
       \/ /\ req[r].pc = "commit"
          /\ db' = View(r)
          /\ req' = [req EXCEPT ![r] = Ended("failed")]
          /\ writes' = [writes EXCEPT ![r] = NoWrites]
          /\ UNCHANGED grades

Step(r) ==
    \/ FindCourseById(r) \/ FindToolDeployment(r) \/ FindContext(r) \/ Located(r)
    \/ Begin(r)
    \/ GatherInstructor(r) \/ GatherStudent(r) \/ GatherCourse(r) \/ GatherAssignment(r)
    \/ Gathered(r)
    \/ SaveCourse(r) \/ SaveContext(r) \/ SaveAssignment(r) \/ SaveLink(r)
    \/ MakeAssignmentExternal(r) \/ Commit(r)
    \/ SaveGrade(r) \/ Deploy(r) \/ SendDelete(r) \/ Delete(r) \/ Show(r)

Next ==
    /\ \E r \in Requests : Receive(r) \/ Step(r) \/ StoreFails(r)
    /\ UNCHANGED poolSize

Spec == Init /\ [][Next]_vars

-----------------------------------------------------------------------------
(***************************************************************************)
(* Properties.                                                             *)
(***************************************************************************)
\* An assignment is external exactly if it has a row in lti_assignments; its
\* resource link is then there, in the context of the assignment's course and
\* in a deployment that is there (persistAssignmentAndResourceLinkAtomically).
ExternalHasLink ==
    \A a \in Ids :
        LET asg == db[<<"assignment", a>>]
            ext == db[<<"external", a>>]
        IN  /\ ext # None <=> asg # None /\ asg.kind = "external_lti"
            /\ ext # None =>
                LET link == db[<<"link", ext.link>>]
                IN  /\ link # None /\ link.context = asg.course
                    /\ db[<<"context", asg.course>>] # None
                    /\ db[<<"deployment", link.deployment>>] # None

\* A course has its context, so that an external assignment can be made in it,
\* and there is no context without a course (storeCourse).
CoursesHaveContexts == \A c \in Ids : db[<<"course", c>>] # None <=> db[<<"context", c>>] # None

\* Of the links made for external assignments none is ever stored without its
\* assignment: nothing of a creation that failed half way stays.
NoStrayLinks ==
    \A l \in Ids : db[<<"link", l>>] # None =>
        \E a \in Ids : db[<<"external", a>>] # None /\ db[<<"external", a>>].link = l

\* A grade is one of its student for its assignment, within the assignment's
\* maximum, of a student of the course and given by the course's instructor
\* (GradeAnAssignmentService and the keys of grades).
GradesAreDue ==
    \A g \in grades :
        LET asg == db[<<"assignment", g.assignment>>]
        IN  /\ g.course = asg.course /\ g.max = asg.max /\ g.score \in 0..asg.max
            /\ <<g.student, g.course>> \in Enrolled
            /\ g.by = db[<<"course", g.course>>].instructor
            /\ \A h \in grades :
                h.student = g.student /\ h.assignment = g.assignment => h = g

DeploymentOf(a) ==
    IF db[<<"external", a>>] = None THEN None
    ELSE LET link == db[<<"link", db[<<"external", a>>].link>>]
         IN  IF link = None THEN None ELSE link.deployment

\* The book of what is committed.
Courses == [c \in Ids |-> IF db[<<"course", c>>] = None THEN None
                          ELSE db[<<"course", c>>].instructor]

Work == [a \in Ids |-> IF db[<<"assignment", a>>] = None THEN None
                       ELSE [course |-> db[<<"assignment", a>>].course,
                             deployment |-> DeploymentOf(a)]]

Deployed == [d \in Ids |-> IF db[<<"deployment", d>>] = None THEN None
                           ELSE db[<<"deployment", d>>].tool]

\* What is committed changes as CourseBook says, one whole creation at a time.
Book == INSTANCE CourseBook WITH courses <- Courses, work <- Work, deployed <- Deployed

ImplementsBook == Book!Spec

\* the next statement of r goes through the pool
NeedsConnection(r) ==
    \/ req[r].pc \in {"find", "begin", "grade", "deploy", "delete", "show"}
    \/ /\ req[r].pc \in {"locate", "gather"} /\ req[r].todo # {}
       /\ ~("course" \in req[r].todo /\ InTx(r, "course"))
    \/ req[r].pc \in Tables /\ ~InTx(r, req[r].pc)

\* what a request may have to wait for: a connection, or the rows it deletes
Waits(r) ==
    \/ NeedsConnection(r) /\ ~HasFreeConnection
    \/ req[r].pc = "lock" /\ \E k \in Cascade(r) : Locked(k)

UnderWay == {r \in Requests : req[r].pc \notin Answered}

EveryoneWaits == UnderWay # {} /\ \A r \in UnderWay : Waits(r)

\* every connection is held by a transaction that is about to take one more from the pool
LookupsHoldThePool ==
    /\ ~HasFreeConnection
    /\ \A r \in Connected : req[r].tx /\ req[r].pc = "gather" /\ req[r].todo = {"instructor"}

OnlyLookupsBringToAHalt == EveryoneWaits => LookupsHoldThePool

\* The requests come to a halt in one way alone: transactions hold all connections of the
\* pool, and each awaits one more to look the instructor up (runInTransaction with
\* findInstructorById).  Locks of rows, rows that were left behind and failed transactions
\* bring nobody to a halt, and whoever need not wait can go on; a failing statement is no
\* way out.
OnlyThePoolRunsOut ==
    /\ OnlyLookupsBringToAHalt
    /\ \A r \in UnderWay : ~Waits(r) => ENABLED Step(r)
=============================================================================
