------------------------- MODULE CourseworkProofs -------------------------
(***************************************************************************)
(* The invariants of Coursework, and that it implements CourseBook.  What  *)
(* an open transaction has written is a function of how far its request    *)
(* is, so that the inductive invariant speaks of requests and of what is   *)
(* committed.  It is stated for a request q and a database d, which keeps  *)
(* the lemmas about single rows free of primes.                            *)
(***************************************************************************)
EXTENDS Coursework, FiniteSetTheorems, TLAPS

Phases(kind) ==
    CASE kind = "course" -> {"begin", "gather", "course", "context", "commit"}
      [] kind = "external" -> {"find", "locate", "begin", "gather", "assignment", "link",
                               "external", "commit"}
      [] kind = "assignment" -> {"gather", "assignment"}
      [] kind = "grade" -> {"gather", "grade"}
      [] kind = "deploy" -> {"deploy"}
      [] kind = "show" -> {"show"}
      [] kind \in {"undeploy", "unlink"} -> {"delete", "lock"}

\* what a request has written so far
PendingRow(q, k) ==
    IF q.pc \in Answered THEN None
    ELSE IF q.job.kind = "course" THEN
        IF k = <<"course", q.new>> /\ q.pc \in {"context", "commit"}
        THEN [instructor |-> q.job.user]
        ELSE IF k = <<"context", q.new>> /\ q.pc = "commit" THEN [context |-> q.new]
        ELSE None
    ELSE IF q.job.kind = "external" THEN
        IF k = <<"assignment", q.new>> /\ q.pc \in {"link", "external"}
        THEN [course |-> q.job.id, kind |-> "local", max |-> q.job.max]
        ELSE IF k = <<"assignment", q.new>> /\ q.pc = "commit"
        THEN [course |-> q.job.id, kind |-> "external_lti", max |-> q.job.max]
        ELSE IF k = <<"link", q.link>> /\ q.pc \in {"external", "commit"}
        THEN [deployment |-> q.dep, context |-> q.job.id]
        ELSE IF k = <<"external", q.new>> /\ q.pc = "commit" THEN [link |-> q.link]
        ELSE None
    ELSE None

Pending(q) == [k \in Keys |-> PendingRow(q, k)]

\* a request that is under way is where its kind may be, and knows what it needs there
RequestOK(q) ==
    q.pc \notin Answered =>
        /\ q.job \in Jobs /\ q.pc \in Phases(q.job.kind)
        /\ q.tx = (q.job.kind \in {"course", "external"} /\ q.pc \notin {"find", "locate", "begin"})
        /\ q.pc \in {"context", "link", "external", "commit"} => q.new \in Ids
        /\ q.job.kind = "external" /\ q.pc \in {"external", "commit"} => q.link \in Ids
        /\ q.job.kind = "external" /\ q.pc \notin {"find", "locate"} => q.dep \in Ids
        /\ q.job.kind = "course" /\ q.pc = "begin" => "instructor" \in q.todo
        /\ /\ q.job.kind = "course" /\ q.pc # "begin"
           /\ q.pc = "gather" => q.found /\ "instructor" \notin q.todo
           => q.job.user \in Instructors
        /\ q.job.kind = "grade" /\ q.pc = "grade" => q.found /\ "assignment" \notin q.todo

\* what it has found committed is still there
Sees(q, d) ==
    q.pc \notin Answered =>
        /\ q.job.kind = "grade" /\ q.found /\ "assignment" \notin q.todo
            => d[<<"assignment", q.job.id>>] # None
        /\ q.job.kind = "external" /\ q.pc \in {"link", "external", "commit"}
            => d[<<"course", q.job.id>>] # None
        /\ q.job.kind = "external" /\ q.pc \in {"external", "commit"}
            => d[<<"deployment", q.dep>>] # None

Typed(d) == d = [k \in Keys |-> d[k]] /\ \A k \in Keys : d[k] \in Row(k[1]) \cup {None}

ContextsWhole(d) ==
    \A c \in Ids : /\ d[<<"course", c>>] # None => d[<<"context", c>>] # None
                   /\ d[<<"context", c>>] # None => d[<<"course", c>>] # None

AssignmentsWhole(d) ==
    \A a \in Ids : d[<<"assignment", a>>] # None =>
        d[<<"course", d[<<"assignment", a>>].course>>] # None

KindsWhole(d) ==
    \A a \in Ids :
        /\ d[<<"external", a>>] # None =>
            d[<<"assignment", a>>] # None /\ d[<<"assignment", a>>].kind = "external_lti"
        /\ d[<<"assignment", a>>] # None /\ d[<<"external", a>>] = None =>
            d[<<"assignment", a>>].kind = "local"

ExternalWhole(d) ==
    \A a, l \in Ids : d[<<"external", a>>] # None /\ d[<<"external", a>>].link = l =>
        /\ d[<<"link", l>>] # None
        /\ d[<<"link", l>>].context = d[<<"assignment", a>>].course

LinksWhole(d) ==
    \A l \in Ids : d[<<"link", l>>] # None =>
        /\ d[<<"deployment", d[<<"link", l>>].deployment>>] # None
        /\ \E a \in Ids : d[<<"external", a>>] # None /\ d[<<"external", a>>].link = l

Whole(d) ==
    /\ ContextsWhole(d) /\ AssignmentsWhole(d) /\ KindsWhole(d)
    /\ ExternalWhole(d) /\ LinksWhole(d)

Due(gs, d) ==
    \A g \in gs :
        /\ g \in Grade /\ d[<<"assignment", g.assignment>>] # None
        /\ g.course = d[<<"assignment", g.assignment>>].course
        /\ g.max = d[<<"assignment", g.assignment>>].max
        /\ g.score >= 0 /\ g.score <= g.max
        /\ <<g.student, g.course>> \in Enrolled
        /\ g.by = d[<<"course", g.course>>].instructor
        /\ \A h \in gs : h.student = g.student /\ h.assignment = g.assignment => h = g

\* the rows written by open transactions are new, and each of one transaction
FreshInv ==
    \A r \in Requests, k \in Keys : PendingRow(req[r], k) # None =>
        db[k] = None /\ \A s \in Requests \ {r} : PendingRow(req[s], k) = None

RequestsInv == \A r \in Requests : RequestOK(req[r]) /\ Sees(req[r], db)

CourseworkInv ==
    /\ req \in [Requests -> Request] /\ writes = [r \in Requests |-> Pending(req[r])]
    /\ Typed(db) /\ Whole(db) /\ Due(grades, db)
    /\ RequestsInv /\ FreshInv

-----------------------------------------------------------------------------
(***************************************************************************)
(* Keys and rows.                                                          *)
(***************************************************************************)
LEMMA KeysAre ==
    /\ \A t \in Tables, i \in Ids : <<t, i>> \in Keys
    /\ \A k \in Keys : k[1] \in Tables /\ k[2] \in Ids /\ k = <<k[1], k[2]>>
BY DEF Keys

LEMMA RowsAre ==
    ASSUME NEW d, Typed(d), NEW i \in Ids
    PROVE  /\ d[<<"course", i>>] # None => d[<<"course", i>>] \in [instructor : People]
           /\ d[<<"context", i>>] # None => d[<<"context", i>>] \in [context : Ids]
           /\ d[<<"deployment", i>>] # None => d[<<"deployment", i>>] \in [tool : Tools]
           /\ d[<<"link", i>>] # None =>
                d[<<"link", i>>] \in [deployment : Ids, context : Ids]
           /\ d[<<"assignment", i>>] # None =>
                d[<<"assignment", i>>] \in
                    [course : Ids, kind : {"local", "external_lti"}, max : Int]
           /\ d[<<"external", i>>] # None => d[<<"external", i>>] \in [link : Ids]
<1> USE DEF Tables
<1>1. \A t \in Tables : d[<<t, i>>] \in Row(t) \cup {None}
  <2> SUFFICES ASSUME NEW t \in Tables PROVE d[<<t, i>>] \in Row(t) \cup {None}
    OBVIOUS
  <2>1. <<t, i>> \in Keys /\ <<t, i>>[1] = t
    BY KeysAre
  <2> QED  BY <2>1 DEF Typed
<1>2. /\ Row("course") = [instructor : People] /\ Row("context") = [context : Ids]
      /\ Row("deployment") = [tool : Tools] /\ Row("external") = [link : Ids]
      /\ Row("link") = [deployment : Ids, context : Ids]
      /\ Row("assignment") = [course : Ids, kind : {"local", "external_lti"}, max : Int]
  BY DEF Row
<1> QED  BY <1>1, <1>2

LEMMA RowsFit ==
    /\ \A p \in People : [instructor |-> p] \in Row("course")
    /\ \A i \in Ids : [context |-> i] \in Row("context") /\ [link |-> i] \in Row("external")
    /\ \A t \in Tools : [tool |-> t] \in Row("deployment")
    /\ \A i, j \in Ids : [deployment |-> i, context |-> j] \in Row("link")
    /\ \A i \in Ids, kind \in {"local", "external_lti"}, max \in Int :
        [course |-> i, kind |-> kind, max |-> max] \in Row("assignment")
    /\ \A t \in Tables : None \notin Row(t)
BY CourseworkAssumption DEF Row

LEMMA PendingTyped ==
    ASSUME NEW q \in Request, RequestOK(q), NEW k \in Keys
    PROVE  PendingRow(q, k) \in Row(k[1]) \cup {None}
<1>0. CASE q.pc \in Answered
  BY <1>0 DEF PendingRow
<1>1. CASE q.pc \notin Answered
  <2>1. /\ q.job.kind \in {"course", "assignment", "external", "grade", "show",
                           "deploy", "undeploy", "unlink"}
        /\ q.job.user \in People /\ q.job.id \in Ids /\ q.job.max \in Int
    BY <1>1, CourseworkAssumption DEF RequestOK, Job
  <2>2. CASE q.job.kind = "course"
    <3>1. q.pc \in {"context", "commit"} => q.new \in Ids
      BY <1>1 DEF RequestOK
    <3>2. CASE k = <<"course", q.new>>
      BY <1>1, <2>1, <2>2, <3>1, <3>2, RowsFit DEF PendingRow
    <3>3. CASE k # <<"course", q.new>> /\ k = <<"context", q.new>>
      BY <1>1, <2>1, <2>2, <3>1, <3>3, RowsFit DEF PendingRow
    <3> QED  BY <1>1, <2>2, <3>2, <3>3 DEF PendingRow
  <2>3. CASE q.job.kind = "external"
    <3>1. /\ q.pc \in {"link", "external", "commit"} => q.new \in Ids /\ q.dep \in Ids
          /\ q.pc \in {"external", "commit"} => q.link \in Ids
      BY <1>1, <2>3 DEF RequestOK
    <3>2. CASE k = <<"assignment", q.new>>
      BY <1>1, <2>1, <2>3, <3>1, <3>2, RowsFit DEF PendingRow
    <3>3. CASE k = <<"link", q.link>>
      BY <1>1, <2>1, <2>3, <3>1, <3>3, RowsFit DEF PendingRow
    <3>4. CASE k = <<"external", q.new>>
      BY <1>1, <2>1, <2>3, <3>1, <3>4, RowsFit DEF PendingRow
    <3> QED  BY <1>1, <2>3, <3>2, <3>3, <3>4 DEF PendingRow
  <2> QED  BY <2>2, <2>3 DEF PendingRow
<1> QED  BY <1>0, <1>1

-----------------------------------------------------------------------------
(***************************************************************************)
(* What a creation or a removal leaves of a whole database is whole.       *)
(***************************************************************************)
\* Two databases have the same rows of a table.
SameRows(d, e, table) == \A i \in Ids : e[<<table, i>>] = d[<<table, i>>]

\* but for one of them
SameBut(d, e, table, j) == \A i \in Ids : i # j => e[<<table, i>>] = d[<<table, i>>]

LEMMA RefersToIds ==
    ASSUME NEW d, Typed(d), NEW i \in Ids
    PROVE  /\ d[<<"assignment", i>>] # None => d[<<"assignment", i>>].course \in Ids
           /\ d[<<"link", i>>] # None => d[<<"link", i>>].deployment \in Ids
           /\ d[<<"external", i>>] # None => d[<<"external", i>>].link \in Ids
BY RowsAre

LEMMA CourseAdded ==
    ASSUME NEW d, NEW e, Typed(d), Whole(d), NEW j \in Ids,
           e[<<"course", j>>] # None, e[<<"context", j>>] # None,
           SameBut(d, e, "course", j), SameBut(d, e, "context", j),
           SameRows(d, e, "assignment"), SameRows(d, e, "external"),
           SameRows(d, e, "link"), SameRows(d, e, "deployment")
    PROVE  Whole(e)
<1>1. ContextsWhole(e)
  <2> SUFFICES ASSUME NEW m \in Ids
               PROVE  /\ e[<<"course", m>>] # None => e[<<"context", m>>] # None
                      /\ e[<<"context", m>>] # None => e[<<"course", m>>] # None
    BY DEF ContextsWhole
  <2> QED  BY DEF Whole, ContextsWhole, SameBut
<1>2. AssignmentsWhole(e)
  <2> SUFFICES ASSUME NEW m \in Ids, e[<<"assignment", m>>] # None
               PROVE  e[<<"course", e[<<"assignment", m>>].course>>] # None
    BY DEF AssignmentsWhole
  <2>1. e[<<"assignment", m>>] = d[<<"assignment", m>>]
    BY DEF SameRows
  <2>2. PICK n \in Ids : n = d[<<"assignment", m>>].course
    BY <2>1, RefersToIds
  <2>3. d[<<"course", n>>] # None
    BY <2>1, <2>2 DEF Whole, AssignmentsWhole
  <2> QED  BY <2>1, <2>2, <2>3 DEF SameBut
<1>3. KindsWhole(e)
  <2> SUFFICES ASSUME NEW m \in Ids
               PROVE  /\ e[<<"external", m>>] # None => /\ e[<<"assignment", m>>] # None
                                                        /\ e[<<"assignment", m>>].kind = "external_lti"
                      /\ e[<<"assignment", m>>] # None /\ e[<<"external", m>>] = None
                            => e[<<"assignment", m>>].kind = "local"
    BY DEF KindsWhole
  <2> QED  BY DEF Whole, KindsWhole, SameRows
<1>4. ExternalWhole(e)
  <2> SUFFICES ASSUME NEW m \in Ids, NEW p \in Ids, e[<<"external", m>>] # None,
                      e[<<"external", m>>].link = p
               PROVE  e[<<"link", p>>] # None
                      /\ e[<<"link", p>>].context = e[<<"assignment", m>>].course
    BY DEF ExternalWhole
  <2> QED  BY DEF Whole, ExternalWhole, SameRows
<1>5. LinksWhole(e)
  <2> SUFFICES ASSUME NEW m \in Ids, e[<<"link", m>>] # None
               PROVE  /\ e[<<"deployment", e[<<"link", m>>].deployment>>] # None
                      /\ \E n \in Ids : e[<<"external", n>>] # None
                                        /\ e[<<"external", n>>].link = m
    BY DEF LinksWhole
  <2>1. e[<<"link", m>>] = d[<<"link", m>>]
    BY DEF SameRows
  <2>2. PICK p \in Ids : p = d[<<"link", m>>].deployment
    BY <2>1, RefersToIds
  <2> QED  BY <2>1, <2>2 DEF Whole, LinksWhole, SameRows
<1> QED  BY <1>1, <1>2, <1>3, <1>4, <1>5 DEF Whole

LEMMA LocalAdded ==
    ASSUME NEW d, NEW e, Typed(d), Whole(d), NEW j \in Ids, NEW n \in Ids,
           d[<<"assignment", j>>] = None, e[<<"assignment", j>>] # None,
           e[<<"assignment", j>>].kind = "local", e[<<"assignment", j>>].course = n,
           d[<<"course", n>>] # None, SameBut(d, e, "assignment", j),
           SameRows(d, e, "course"), SameRows(d, e, "context"), SameRows(d, e, "external"),
           SameRows(d, e, "link"), SameRows(d, e, "deployment")
    PROVE  Whole(e)
<1>1. ContextsWhole(e)
  <2> SUFFICES ASSUME NEW m \in Ids
               PROVE  /\ e[<<"course", m>>] # None => e[<<"context", m>>] # None
                      /\ e[<<"context", m>>] # None => e[<<"course", m>>] # None
    BY DEF ContextsWhole
  <2> QED  BY DEF Whole, ContextsWhole, SameRows
<1>2. AssignmentsWhole(e)
  <2> SUFFICES ASSUME NEW m \in Ids, e[<<"assignment", m>>] # None
               PROVE  e[<<"course", e[<<"assignment", m>>].course>>] # None
    BY DEF AssignmentsWhole
  <2>1. CASE m = j
    BY <2>1 DEF SameRows
  <2>2. CASE m # j
    <3>1. e[<<"assignment", m>>] = d[<<"assignment", m>>]
      BY <2>2 DEF SameBut
    <3>2. PICK p \in Ids : p = d[<<"assignment", m>>].course
      BY <3>1, RefersToIds
    <3>3. d[<<"course", p>>] # None
      BY <3>1, <3>2 DEF Whole, AssignmentsWhole
    <3> QED  BY <3>1, <3>2, <3>3 DEF SameRows
  <2> QED  BY <2>1, <2>2
<1>3. KindsWhole(e)
  <2> SUFFICES ASSUME NEW m \in Ids
               PROVE  /\ e[<<"external", m>>] # None => /\ e[<<"assignment", m>>] # None
                                                        /\ e[<<"assignment", m>>].kind = "external_lti"
                      /\ e[<<"assignment", m>>] # None /\ e[<<"external", m>>] = None
                            => e[<<"assignment", m>>].kind = "local"
    BY DEF KindsWhole
  <2> QED  BY DEF Whole, KindsWhole, SameRows, SameBut
<1>4. ExternalWhole(e)
  <2> SUFFICES ASSUME NEW m \in Ids, NEW p \in Ids, e[<<"external", m>>] # None,
                      e[<<"external", m>>].link = p
               PROVE  e[<<"link", p>>] # None
                      /\ e[<<"link", p>>].context = e[<<"assignment", m>>].course
    BY DEF ExternalWhole
  <2> QED  BY DEF Whole, ExternalWhole, KindsWhole, SameRows, SameBut
<1>5. LinksWhole(e)
  <2> SUFFICES ASSUME NEW m \in Ids, e[<<"link", m>>] # None
               PROVE  /\ e[<<"deployment", e[<<"link", m>>].deployment>>] # None
                      /\ \E p \in Ids : e[<<"external", p>>] # None
                                        /\ e[<<"external", p>>].link = m
    BY DEF LinksWhole
  <2>1. e[<<"link", m>>] = d[<<"link", m>>]
    BY DEF SameRows
  <2>2. PICK p \in Ids : p = d[<<"link", m>>].deployment
    BY <2>1, RefersToIds
  <2> QED  BY <2>1, <2>2 DEF Whole, LinksWhole, SameRows
<1> QED  BY <1>1, <1>2, <1>3, <1>4, <1>5 DEF Whole

LEMMA ExternalAdded ==
    ASSUME NEW d, NEW e, Typed(d), Whole(d),
           NEW j \in Ids, NEW n \in Ids, NEW y \in Ids, NEW z \in Ids,
           d[<<"assignment", j>>] = None, d[<<"link", y>>] = None,
           d[<<"course", n>>] # None, d[<<"deployment", z>>] # None,
           e[<<"assignment", j>>] # None, e[<<"assignment", j>>].course = n,
           e[<<"assignment", j>>].kind = "external_lti",
           e[<<"link", y>>] # None, e[<<"link", y>>].deployment = z,
           e[<<"link", y>>].context = n,
           e[<<"external", j>>] # None, e[<<"external", j>>].link = y,
           SameBut(d, e, "assignment", j), SameBut(d, e, "external", j),
           SameBut(d, e, "link", y),
           SameRows(d, e, "course"), SameRows(d, e, "context"), SameRows(d, e, "deployment")
    PROVE  Whole(e)
<1>1. ContextsWhole(e)
  <2> SUFFICES ASSUME NEW m \in Ids
               PROVE  /\ e[<<"course", m>>] # None => e[<<"context", m>>] # None
                      /\ e[<<"context", m>>] # None => e[<<"course", m>>] # None
    BY DEF ContextsWhole
  <2> QED  BY DEF Whole, ContextsWhole, SameRows
<1>2. AssignmentsWhole(e)
  <2> SUFFICES ASSUME NEW m \in Ids, e[<<"assignment", m>>] # None
               PROVE  e[<<"course", e[<<"assignment", m>>].course>>] # None
    BY DEF AssignmentsWhole
  <2>1. CASE m = j
    BY <2>1 DEF SameRows
  <2>2. CASE m # j
    <3>1. e[<<"assignment", m>>] = d[<<"assignment", m>>]
      BY <2>2 DEF SameBut
    <3>2. PICK p \in Ids : p = d[<<"assignment", m>>].course
      BY <3>1, RefersToIds
    <3>3. d[<<"course", p>>] # None
      BY <3>1, <3>2 DEF Whole, AssignmentsWhole
    <3> QED  BY <3>1, <3>2, <3>3 DEF SameRows
  <2> QED  BY <2>1, <2>2
<1>3. KindsWhole(e)
  <2> SUFFICES ASSUME NEW m \in Ids
               PROVE  /\ e[<<"external", m>>] # None => /\ e[<<"assignment", m>>] # None
                                                        /\ e[<<"assignment", m>>].kind = "external_lti"
                      /\ e[<<"assignment", m>>] # None /\ e[<<"external", m>>] = None
                            => e[<<"assignment", m>>].kind = "local"
    BY DEF KindsWhole
  <2>1. CASE m = j
    BY <2>1
  <2>2. CASE m # j
    BY <2>2 DEF Whole, KindsWhole, SameBut
  <2> QED  BY <2>1, <2>2
<1>4. d[<<"external", j>>] = None
  BY DEF Whole, KindsWhole
<1>5. ExternalWhole(e)
  <2> SUFFICES ASSUME NEW m \in Ids, NEW p \in Ids, e[<<"external", m>>] # None,
                      e[<<"external", m>>].link = p
               PROVE  e[<<"link", p>>] # None
                      /\ e[<<"link", p>>].context = e[<<"assignment", m>>].course
    BY DEF ExternalWhole
  <2>1. CASE m = j
    BY <2>1
  <2>2. CASE m # j
    <3>1. e[<<"external", m>>] = d[<<"external", m>>]
          /\ e[<<"assignment", m>>] = d[<<"assignment", m>>]
      BY <2>2 DEF SameBut
    <3>2. d[<<"link", p>>] # None /\ d[<<"link", p>>].context = d[<<"assignment", m>>].course
      BY <3>1 DEF Whole, ExternalWhole
    <3> QED  BY <3>1, <3>2 DEF SameBut
  <2> QED  BY <2>1, <2>2
<1>6. LinksWhole(e)
  <2> SUFFICES ASSUME NEW m \in Ids, e[<<"link", m>>] # None
               PROVE  /\ e[<<"deployment", e[<<"link", m>>].deployment>>] # None
                      /\ \E p \in Ids : e[<<"external", p>>] # None
                                        /\ e[<<"external", p>>].link = m
    BY DEF LinksWhole
  <2>1. CASE m = y
    BY <2>1 DEF SameRows
  <2>2. CASE m # y
    <3>1. e[<<"link", m>>] = d[<<"link", m>>]
      BY <2>2 DEF SameBut
    <3>2. PICK p \in Ids : p = d[<<"link", m>>].deployment
      BY <3>1, RefersToIds
    <3>3. d[<<"deployment", p>>] # None
      BY <3>1, <3>2 DEF Whole, LinksWhole
    <3>4. PICK q \in Ids : d[<<"external", q>>] # None /\ d[<<"external", q>>].link = m
      BY <3>1 DEF Whole, LinksWhole
    <3>5. e[<<"external", q>>] = d[<<"external", q>>]
      BY <1>4, <3>4 DEF SameBut
    <3> QED  BY <3>1, <3>2, <3>3, <3>4, <3>5 DEF SameRows
  <2> QED  BY <2>1, <2>2
<1> QED  BY <1>1, <1>2, <1>3, <1>5, <1>6 DEF Whole

\* deployments come, and go if no link refers to them; no link goes, as there is none
\* without its external assignment
LEMMA DeploymentsChange ==
    ASSUME NEW d, NEW e, Typed(d), Whole(d),
           SameRows(d, e, "assignment"), SameRows(d, e, "external"), SameRows(d, e, "link"),
           SameRows(d, e, "course"), SameRows(d, e, "context"),
           \A m, p \in Ids : d[<<"link", m>>] # None /\ d[<<"link", m>>].deployment = p
                             /\ d[<<"deployment", p>>] # None
               => e[<<"deployment", p>>] # None
    PROVE  Whole(e)
<1>1. ContextsWhole(e)
  <2> SUFFICES ASSUME NEW m \in Ids
               PROVE  /\ e[<<"course", m>>] # None => e[<<"context", m>>] # None
                      /\ e[<<"context", m>>] # None => e[<<"course", m>>] # None
    BY DEF ContextsWhole
  <2> QED  BY DEF Whole, ContextsWhole, SameRows
<1>2. AssignmentsWhole(e)
  <2> SUFFICES ASSUME NEW m \in Ids, e[<<"assignment", m>>] # None
               PROVE  e[<<"course", e[<<"assignment", m>>].course>>] # None
    BY DEF AssignmentsWhole
  <2>1. e[<<"assignment", m>>] = d[<<"assignment", m>>]
    BY DEF SameRows
  <2>2. PICK n \in Ids : n = d[<<"assignment", m>>].course
    BY <2>1, RefersToIds
  <2>3. d[<<"course", n>>] # None
    BY <2>1, <2>2 DEF Whole, AssignmentsWhole
  <2> QED  BY <2>1, <2>2, <2>3 DEF SameRows
<1>3. KindsWhole(e)
  <2> SUFFICES ASSUME NEW m \in Ids
               PROVE  /\ e[<<"external", m>>] # None => /\ e[<<"assignment", m>>] # None
                                                        /\ e[<<"assignment", m>>].kind = "external_lti"
                      /\ e[<<"assignment", m>>] # None /\ e[<<"external", m>>] = None
                            => e[<<"assignment", m>>].kind = "local"
    BY DEF KindsWhole
  <2> QED  BY DEF Whole, KindsWhole, SameRows
<1>4. ExternalWhole(e)
  <2> SUFFICES ASSUME NEW m \in Ids, NEW p \in Ids, e[<<"external", m>>] # None,
                      e[<<"external", m>>].link = p
               PROVE  e[<<"link", p>>] # None
                      /\ e[<<"link", p>>].context = e[<<"assignment", m>>].course
    BY DEF ExternalWhole
  <2> QED  BY DEF Whole, ExternalWhole, SameRows
<1>5. LinksWhole(e)
  <2> SUFFICES ASSUME NEW m \in Ids, e[<<"link", m>>] # None
               PROVE  /\ e[<<"deployment", e[<<"link", m>>].deployment>>] # None
                      /\ \E n \in Ids : e[<<"external", n>>] # None
                                        /\ e[<<"external", n>>].link = m
    BY DEF LinksWhole
  <2>1. e[<<"link", m>>] = d[<<"link", m>>]
    BY DEF SameRows
  <2>2. PICK p \in Ids : p = d[<<"link", m>>].deployment
    BY <2>1, RefersToIds
  <2>3. d[<<"deployment", p>>] # None
    BY <2>1, <2>2 DEF Whole, LinksWhole
  <2> QED  BY <2>1, <2>2, <2>3 DEF Whole, LinksWhole, SameRows
<1> QED  BY <1>1, <1>2, <1>3, <1>4, <1>5 DEF Whole

LEMMA GradesStayDue ==
    ASSUME NEW d, NEW e, NEW gs, Due(gs, d), AssignmentsWhole(d),
           \A i \in Ids : d[<<"assignment", i>>] # None =>
               e[<<"assignment", i>>] = d[<<"assignment", i>>],
           \A i \in Ids : d[<<"course", i>>] # None => e[<<"course", i>>] = d[<<"course", i>>]
    PROVE  Due(gs, e)
<1> SUFFICES ASSUME NEW g \in gs
             PROVE  /\ g \in Grade /\ e[<<"assignment", g.assignment>>] # None
                    /\ g.course = e[<<"assignment", g.assignment>>].course
                    /\ g.max = e[<<"assignment", g.assignment>>].max
                    /\ g.score >= 0 /\ g.score <= g.max
                    /\ <<g.student, g.course>> \in Enrolled
                    /\ g.by = e[<<"course", g.course>>].instructor
                    /\ \A h \in gs :
                        h.student = g.student /\ h.assignment = g.assignment => h = g
  BY DEF Due
<1>1. g \in Grade
  BY DEF Due
<1>2. g.assignment \in Ids /\ g.course \in Ids
  BY <1>1 DEF Grade
<1>3. d[<<"assignment", g.assignment>>] # None
      /\ g.course = d[<<"assignment", g.assignment>>].course
  BY DEF Due
<1>4. d[<<"course", g.course>>] # None
  BY <1>2, <1>3 DEF AssignmentsWhole
<1>5. e[<<"assignment", g.assignment>>] = d[<<"assignment", g.assignment>>]
      /\ e[<<"course", g.course>>] = d[<<"course", g.course>>]
  BY <1>2, <1>3, <1>4
<1> QED  BY <1>1, <1>3, <1>5 DEF Due

-----------------------------------------------------------------------------
(***************************************************************************)
(* One request moves, whatever it does: the others keep what they see and  *)
(* what they have written.                                                 *)
(***************************************************************************)
LEMMA Moves ==
    ASSUME CourseworkInv, NEW r \in Requests, NEW q \in Request, RequestOK(q), Sees(q, db'),
           req' = [req EXCEPT ![r] = q], writes' = [writes EXCEPT ![r] = Pending(q)],
           Typed(db'), Whole(db'), Due(grades', db'),
           \A i \in Ids :
             /\ db[<<"assignment", i>>] # None => db'[<<"assignment", i>>] # None
             /\ db[<<"course", i>>] # None => db'[<<"course", i>>] # None
             /\ db[<<"deployment", i>>] # None /\ Locked(<<"deployment", i>>)
                    => db'[<<"deployment", i>>] # None,
           \A k \in Keys : PendingRow(q, k) # None =>
               db'[k] = None /\ \A s \in Requests \ {r} : PendingRow(req[s], k) = None,
           \A k \in Keys, s \in Requests \ {r} : PendingRow(req[s], k) # None => db'[k] = None
    PROVE  CourseworkInv'
<1>0. req \in [Requests -> Request]
  BY DEF CourseworkInv
<1>1. req'[r] = q /\ \A s \in Requests : s # r => req'[s] = req[s]
  BY <1>0
<1>2. req' \in [Requests -> Request]
  BY <1>0
<1>3. writes' = [s \in Requests |-> Pending(req'[s])]
  BY <1>1 DEF CourseworkInv
<1>4. ASSUME NEW s \in Requests, s # r
      PROVE  Sees(req[s], db')
  <2>0. req[s] \in Request /\ RequestOK(req[s]) /\ Sees(req[s], db)
    BY <1>0 DEF CourseworkInv, RequestsInv
  <2>1. CASE req[s].pc \in Answered
    BY <2>1 DEF Sees
  <2>2. CASE req[s].pc \notin Answered
    <3>1. req[s].job \in Jobs /\ req[s].job.id \in Ids
      BY <2>0, <2>2, CourseworkAssumption DEF RequestOK, Job
    <3>2. ASSUME req[s].job.kind = "external", req[s].pc \in {"external", "commit"}
          PROVE  db'[<<"deployment", req[s].dep>>] # None
      <4>1. req[s].dep \in Ids /\ req[s].link \in Ids /\ req[s].new \in Ids
        BY <2>0, <2>2, <3>2 DEF RequestOK
      <4>2. db[<<"deployment", req[s].dep>>] # None
        BY <2>0, <2>2, <3>2 DEF Sees
      <4> DEFINE w == <<"link", req[s].link>>
      <4>3. w \in Keys /\ w[1] = "link"
        BY <4>1, KeysAre DEF Tables
      <4>4. PendingRow(req[s], w) = [deployment |-> req[s].dep, context |-> req[s].job.id]
        BY <2>2, <3>2 DEF PendingRow
      <4>5. writes[s][w] = PendingRow(req[s], w)
        BY <4>3 DEF CourseworkInv, Pending
      <4>6. writes[s][w] # None
        BY <3>1, <4>1, <4>4, <4>5, RowsFit DEF Tables
      <4>7. <<"deployment", req[s].dep>> \in References(w, writes[s][w])
        BY <4>3, <4>4, <4>5 DEF References
      <4>8. Locked(<<"deployment", req[s].dep>>)
        BY <4>3, <4>6, <4>7 DEF Locked
      <4> QED  BY <4>1, <4>2, <4>8
    <3> QED  BY <2>0, <3>1, <3>2 DEF Sees
  <2> QED  BY <2>1, <2>2
<1>5. \A s \in Requests : RequestOK(req'[s]) /\ Sees(req'[s], db')
  BY <1>1, <1>4 DEF CourseworkInv, RequestsInv
<1>6. ASSUME NEW s \in Requests, NEW k \in Keys, PendingRow(req'[s], k) # None
      PROVE  db'[k] = None /\ \A t \in Requests \ {s} : PendingRow(req'[t], k) = None
  <2>1. CASE s = r
    BY <1>1, <1>6, <2>1
  <2>2. CASE s # r
    <3>1. PendingRow(req[s], k) # None
      BY <1>1, <1>6, <2>2
    <3>2. db'[k] = None
      BY <2>2, <3>1
    <3>3. ASSUME NEW t \in Requests \ {s} PROVE PendingRow(req'[t], k) = None
      <4>1. CASE t = r
        BY <1>1, <2>2, <3>1, <4>1
      <4>2. CASE t # r
        BY <1>1, <3>1, <4>2 DEF CourseworkInv, FreshInv
      <4> QED  BY <4>1, <4>2
    <3> QED  BY <3>2, <3>3
  <2> QED  BY <2>1, <2>2
<1> QED  BY <1>2, <1>3, <1>5, <1>6 DEF CourseworkInv, RequestsInv, FreshInv

\* a request that goes on and writes nothing
LEMMA GoesOn ==
    ASSUME CourseworkInv, NEW r \in Requests, NEW q \in Request, RequestOK(q), Sees(q, db),
           req' = [req EXCEPT ![r] = q], UNCHANGED <<db, grades, writes>>,
           \A k \in Keys : PendingRow(q, k) = PendingRow(req[r], k)
    PROVE  CourseworkInv'
<1>1. Pending(q) = Pending(req[r])
  BY DEF Pending
<1>2. writes' = [writes EXCEPT ![r] = Pending(q)]
  BY <1>1 DEF CourseworkInv
<1>3. /\ Typed(db') /\ Whole(db') /\ Due(grades', db') /\ Sees(q, db')
  BY DEF CourseworkInv
<1>4. \A k \in Keys : PendingRow(q, k) # None =>
        db'[k] = None /\ \A s \in Requests \ {r} : PendingRow(req[s], k) = None
  BY DEF CourseworkInv, FreshInv
<1>5. \A k \in Keys, s \in Requests \ {r} : PendingRow(req[s], k) # None => db'[k] = None
  BY DEF CourseworkInv, FreshInv
<1> QED  BY <1>2, <1>3, <1>4, <1>5, Moves

LEMMA Ends ==
    ASSUME CourseworkInv, NEW r \in Requests, NEW pc \in Answered, Abort(r, pc)
    PROVE  CourseworkInv'
<1> DEFINE q == Ended(pc)
<1>1. q \in Request /\ q.pc = pc
  BY DEF Ended, Fresh, Request, Answered
<1>2. RequestOK(q) /\ \A k \in Keys : PendingRow(q, k) = None
  BY <1>1 DEF RequestOK, PendingRow
<1>3. Pending(q) = NoWrites
  BY <1>2 DEF Pending, NoWrites
<1>4. Sees(q, db')
  BY <1>1 DEF Sees
<1>5. /\ req' = [req EXCEPT ![r] = q] /\ writes' = [writes EXCEPT ![r] = Pending(q)]
      /\ UNCHANGED <<db, grades>>
  BY <1>3 DEF Abort
<1>6. Typed(db') /\ Whole(db') /\ Due(grades', db')
  BY <1>5 DEF CourseworkInv
<1>7. \A k \in Keys, s \in Requests \ {r} : PendingRow(req[s], k) # None => db'[k] = None
  BY <1>5 DEF CourseworkInv, FreshInv
<1> HIDE DEF q
<1> QED  BY <1>1, <1>2, <1>4, <1>5, <1>6, <1>7, Moves

-----------------------------------------------------------------------------
(***************************************************************************)
(* The steps that only read.                                               *)
(***************************************************************************)
LEMMA Active ==
    ASSUME CourseworkInv, NEW r \in Requests, req[r].pc \notin Answered
    PROVE  /\ req[r] \in Request /\ RequestOK(req[r]) /\ Sees(req[r], db)
           /\ req[r].job \in Jobs /\ req[r].job \in Job
           /\ req[r].job.user \in People /\ req[r].job.id \in Ids
           /\ req[r].pc \in Phases(req[r].job.kind)
<1>1. req[r] \in Request /\ RequestOK(req[r]) /\ Sees(req[r], db)
  BY DEF CourseworkInv, RequestsInv
<1>2. req[r].job \in Jobs /\ req[r].pc \in Phases(req[r].job.kind)
  BY <1>1 DEF RequestOK
<1> QED  BY <1>1, <1>2, CourseworkAssumption DEF Job

\* a read that changes where a request is, what it still has to look up and what it found
LEMMA Reads ==
    ASSUME CourseworkInv, NEW r \in Requests, req[r].pc \notin Answered, NEW q \in Request,
           Advance(r, q), q.job = req[r].job, q.pc \in Phases(q.job.kind),
           q.pc \in {"locate", "begin", "gather", "lock"}, q.new = req[r].new,
           q.link = req[r].link,
           q.tx = (q.job.kind \in {"course", "external"} /\ q.pc = "gather"),
           q.pc = "lock" => q.job.kind \in {"undeploy", "unlink"},
           req[r].pc \in {"find", "locate", "begin", "gather", "delete"},
           q.job.kind = "external" /\ q.pc # "locate" => q.dep \in Ids,
           q.job.kind = "course" => q.pc = "gather",
           q.job.kind = "course" /\ q.found /\ "instructor" \notin q.todo
                => q.job.user \in Instructors,
           q.job.kind = "grade" /\ q.found /\ "assignment" \notin q.todo
                => db[<<"assignment", q.job.id>>] # None
    PROVE  CourseworkInv'
<1>1. RequestOK(q)
  <2>1. q.job \in Jobs
    BY Active
  <2>2. q.job.kind = "external" /\ q.pc \notin {"find", "locate"} => q.dep \in Ids
    OBVIOUS
  <2>3. q.tx = (q.job.kind \in {"course", "external"}
                /\ q.pc \notin {"find", "locate", "begin"})
    OBVIOUS
  <2>4. /\ q.job.kind = "course" => q.pc # "begin"
        /\ q.job.kind = "course" /\ (q.pc = "gather" => q.found /\ "instructor" \notin q.todo)
            => q.job.user \in Instructors
    OBVIOUS
  <2> QED  BY <2>1, <2>2, <2>3, <2>4 DEF RequestOK
<1>2. Sees(q, db)
  BY DEF Sees
<1>3. \A k \in Keys : PendingRow(q, k) = PendingRow(req[r], k)
  BY DEF PendingRow
<1>4. req' = [req EXCEPT ![r] = q] /\ UNCHANGED <<db, grades, writes>>
  BY DEF Advance
<1> QED  BY <1>1, <1>2, <1>3, <1>4, GoesOn

LEMMA KindsAre ==
    ASSUME NEW job \in Job
    PROVE  /\ job.kind \in {"course", "assignment", "external", "grade", "show",
                            "deploy", "undeploy", "unlink"}
           /\ Gathers(job.kind) \subseteq {"course", "instructor", "student", "assignment"}
           /\ job.kind = "course" => Gathers(job.kind) = {"instructor"}
           /\ job.kind = "grade" => Gathers(job.kind) = {"instructor", "student", "assignment"}
           /\ FirstStep(job.kind) \in Phases(job.kind)
           /\ FirstStep(job.kind) \in {"begin", "gather", "find", "delete", "deploy", "show"}
           /\ job.kind = "external" => FirstStep(job.kind) = "find"
           /\ job.kind = "course" => FirstStep(job.kind) = "begin"
BY DEF Job, Gathers, FirstStep, Phases

LEMMA ReceiveStep ==
    ASSUME CourseworkInv, NEW r \in Requests, Receive(r)
    PROVE  CourseworkInv'
<1>1. PICK job \in Jobs :
        Advance(r, [Fresh EXCEPT !.pc = FirstStep(job.kind), !.job = job,
                                 !.todo = Gathers(job.kind)])
  BY DEF Receive
<1>2. job \in Job
  BY CourseworkAssumption
<1>3. /\ job.kind \in {"course", "assignment", "external", "grade", "show",
                       "deploy", "undeploy", "unlink"}
      /\ Gathers(job.kind) \in SUBSET {"course", "instructor", "student", "assignment"}
      /\ job.kind = "course" => Gathers(job.kind) = {"instructor"}
      /\ job.kind = "grade" => Gathers(job.kind) = {"instructor", "student", "assignment"}
      /\ FirstStep(job.kind) \in Phases(job.kind)
      /\ FirstStep(job.kind) \in {"begin", "gather", "find", "delete", "deploy", "show"}
      /\ job.kind = "external" => FirstStep(job.kind) = "find"
      /\ job.kind = "course" => FirstStep(job.kind) = "begin"
  BY <1>2, KindsAre
<1>4. PICK q : q = [Fresh EXCEPT !.pc = FirstStep(job.kind), !.job = job,
                                 !.todo = Gathers(job.kind)]
  OBVIOUS
<1>5. req' = [req EXCEPT ![r] = q] /\ UNCHANGED <<db, grades, writes>>
  BY <1>1, <1>4 DEF Advance
<1>6. /\ q \in Request /\ q.pc = FirstStep(job.kind) /\ q.job = job
      /\ q.todo = Gathers(job.kind) /\ q.tx = FALSE /\ q.found = TRUE
  <2> DEFINE pc == FirstStep(job.kind)
             todo == Gathers(job.kind)
  <2>1. /\ pc \in {"begin", "gather", "find", "delete", "deploy", "show"}
        /\ todo \in SUBSET {"course", "instructor", "student", "assignment"}
        /\ q = [Fresh EXCEPT !.pc = pc, !.job = job, !.todo = todo]
    BY <1>3, <1>4
  <2> HIDE DEF pc, todo
  <2>2. q \in Request /\ q.pc = pc /\ q.job = job /\ q.todo = todo
        /\ q.tx = FALSE /\ q.found = TRUE
    <3>1. Fresh \in Request /\ Fresh.tx = FALSE /\ Fresh.found = TRUE
      BY DEF Fresh, Request
    <3> QED  BY <2>1, <3>1 DEF Request
  <2> QED  BY <2>2 DEF pc, todo
<1>7. RequestOK(q)
  BY <1>3, <1>6, ZenonT(40) DEF RequestOK
<1>8. Sees(q, db)
  BY <1>3, <1>6 DEF Sees
<1>9. \A k \in Keys : PendingRow(q, k) = PendingRow(req[r], k)
  BY <1>3, <1>6 DEF PendingRow, Receive
<1> QED  BY <1>5, <1>6, <1>7, <1>8, <1>9, GoesOn

LEMMA LookupStep ==
    ASSUME CourseworkInv, NEW r \in Requests,
           \/ FindCourseById(r) \/ FindToolDeployment(r) \/ FindContext(r) \/ Located(r)
           \/ Begin(r) \/ SendDelete(r)
    PROVE  CourseworkInv'
<1>0. /\ req[r].pc \notin Answered
      /\ req[r] \in Request /\ RequestOK(req[r]) /\ req[r].job \in Job
      /\ req[r].pc \in Phases(req[r].job.kind)
  <2>1. req[r].pc \notin Answered
    BY DEF FindCourseById, FindToolDeployment, FindContext, Located, Begin, SendDelete, Answered
  <2> QED  BY <2>1, Active
<1>1. req[r].job.kind \in {"course", "assignment", "external", "grade", "show",
                          "deploy", "undeploy", "unlink"}
  BY <1>0, KindsAre
<1>2. CASE \E pc \in Answered : Abort(r, pc)
  BY <1>2, Ends
<1>3. CASE FindCourseById(r) /\ ~ \E pc \in Answered : Abort(r, pc)
  <2> DEFINE q == [req[r] EXCEPT !.pc = "locate", !.todo = {"deployment", "context"}]
  <2>1. Advance(r, q) /\ req[r].pc = "find"
    BY <1>3 DEF FindCourseById, Answered
  <2>2. req[r].job.kind = "external" /\ req[r].tx = FALSE
    BY <1>0, <1>1, <2>1 DEF Phases, RequestOK, Answered
  <2>3. /\ q \in Request /\ q.job = req[r].job /\ q.pc = "locate" /\ q.new = req[r].new
        /\ q.link = req[r].link /\ q.tx = req[r].tx
    BY <1>0 DEF Request
  <2>4. q.pc \in Phases(q.job.kind)
    BY <2>2, <2>3 DEF Phases
  <2> HIDE DEF q
  <2> QED  BY <1>0, <2>1, <2>2, <2>3, <2>4, Reads
<1>4. CASE FindToolDeployment(r)
  <2>1. PICK d \in Ids \cup {None} :
            Advance(r, [req[r] EXCEPT !.todo = @ \ {"deployment"}, !.dep = d])
    BY <1>4 DEF FindToolDeployment
  <2> DEFINE q == [req[r] EXCEPT !.todo = @ \ {"deployment"}, !.dep = d]
  <2>2. Advance(r, q) /\ req[r].pc = "locate"
    BY <1>4, <2>1 DEF FindToolDeployment
  <2>3. req[r].job.kind = "external" /\ req[r].tx = FALSE
    BY <1>0, <1>1, <2>2 DEF Phases, RequestOK, Answered
  <2>4. /\ q \in Request /\ q.job = req[r].job /\ q.pc = "locate" /\ q.new = req[r].new
        /\ q.link = req[r].link /\ q.tx = req[r].tx
    BY <1>0, <2>2 DEF Request
  <2> HIDE DEF q
  <2> QED  BY <1>0, <2>2, <2>3, <2>4, Reads
<1>5. CASE FindContext(r)
  <2> DEFINE q == [req[r] EXCEPT !.todo = @ \ {"context"},
                     !.found = @ /\ db[<<"course", req[r].job.id>>] # None]
  <2>2. Advance(r, q) /\ req[r].pc = "locate"
    BY <1>5 DEF FindContext
  <2>3. req[r].job.kind = "external" /\ req[r].tx = FALSE
    BY <1>0, <1>1, <2>2 DEF Phases, RequestOK, Answered
  <2>4. /\ q \in Request /\ q.job = req[r].job /\ q.pc = "locate" /\ q.new = req[r].new
        /\ q.link = req[r].link /\ q.tx = req[r].tx
    BY <1>0, <2>2, ZenonT(40) DEF Request
  <2> HIDE DEF q
  <2> QED  BY <1>0, <2>2, <2>3, <2>4, Reads
<1>6. CASE Located(r) /\ ~ \E pc \in Answered : Abort(r, pc)
  <2> DEFINE q == [req[r] EXCEPT !.pc = "begin", !.todo = Gathers("external")]
  <2>1. Advance(r, q) /\ req[r].pc = "locate" /\ req[r].dep # None
    BY <1>6 DEF Located, Answered
  <2>2. req[r].job.kind = "external" /\ req[r].tx = FALSE
    BY <1>0, <1>1, <2>1 DEF Phases, RequestOK, Answered
  <2>3. /\ q \in Request /\ q.job = req[r].job /\ q.pc = "begin" /\ q.new = req[r].new
        /\ q.link = req[r].link /\ q.tx = req[r].tx /\ q.dep \in Ids
    BY <1>0, <2>1 DEF Request, Gathers
  <2>4. q.pc \in Phases(q.job.kind)
    BY <2>2, <2>3 DEF Phases
  <2> HIDE DEF q
  <2> QED  BY <1>0, <2>1, <2>2, <2>3, <2>4, Reads
<1>7. CASE Begin(r)
  <2> DEFINE q == [req[r] EXCEPT !.pc = "gather", !.tx = TRUE]
  <2>1. Advance(r, q) /\ req[r].pc = "begin"
    BY <1>7 DEF Begin
  <2>2. req[r].job.kind \in {"course", "external"}
        /\ (req[r].job.kind = "external" => req[r].dep \in Ids)
    BY <1>0, <1>1, <2>1 DEF Phases, RequestOK, Answered
  <2>3. /\ q \in Request /\ q.job = req[r].job /\ q.pc = "gather" /\ q.new = req[r].new
        /\ q.link = req[r].link /\ q.tx = TRUE /\ q.dep = req[r].dep /\ q.todo = req[r].todo
    BY <1>0 DEF Request
  <2>4. q.pc \in Phases(q.job.kind)
    BY <2>2, <2>3 DEF Phases
  <2>5. req[r].job.kind = "course" => "instructor" \in req[r].todo
    BY <1>0, <2>1 DEF RequestOK, Answered
  <2> HIDE DEF q
  <2> QED  BY <1>0, <2>1, <2>2, <2>3, <2>4, <2>5, Reads
<1>8. CASE SendDelete(r)
  <2> DEFINE q == [req[r] EXCEPT !.pc = "lock"]
  <2>1. Advance(r, q) /\ req[r].pc = "delete"
    BY <1>8 DEF SendDelete
  <2>2. req[r].job.kind \in {"undeploy", "unlink"} /\ req[r].tx = FALSE
    BY <1>0, <1>1, <2>1 DEF Phases, RequestOK, Answered
  <2>3. /\ q \in Request /\ q.job = req[r].job /\ q.pc = "lock" /\ q.new = req[r].new
        /\ q.link = req[r].link /\ q.tx = req[r].tx
    BY <1>0 DEF Request
  <2>4. q.pc \in Phases(q.job.kind)
    BY <2>2, <2>3 DEF Phases
  <2> HIDE DEF q
  <2> QED  BY <1>0, <2>1, <2>2, <2>3, <2>4, Reads
<1> QED  BY <1>2, <1>3, <1>4, <1>5, <1>6, <1>7, <1>8

LEMMA GatherStep ==
    ASSUME CourseworkInv, NEW r \in Requests,
           \/ GatherInstructor(r) \/ GatherStudent(r) \/ GatherCourse(r) \/ GatherAssignment(r)
    PROVE  CourseworkInv'
<1>0. req[r].pc = "gather"
  BY DEF GatherInstructor, GatherStudent, GatherCourse, GatherAssignment
<1>1. /\ req[r] \in Request /\ RequestOK(req[r]) /\ Sees(req[r], db) /\ req[r].job \in Job
      /\ req[r].pc \in Phases(req[r].job.kind)
  BY <1>0, Active DEF Answered
<1>2. /\ req[r].tx = (req[r].job.kind \in {"course", "external"})
      /\ req[r].job.kind = "external" => req[r].dep \in Ids
      /\ req[r].job.kind = "course" /\ req[r].found /\ "instructor" \notin req[r].todo
            => req[r].job.user \in Instructors
      /\ req[r].job.kind = "grade" /\ req[r].found /\ "assignment" \notin req[r].todo
            => db[<<"assignment", req[r].job.id>>] # None
  BY <1>0, <1>1 DEF RequestOK, Sees, Answered
<1>3. ASSUME NEW x \in {"instructor", "student", "course", "assignment"},
             NEW ok \in BOOLEAN, NEW q,
             q = [req[r] EXCEPT !.todo = @ \ {x}, !.found = @ /\ ok],
             Advance(r, q),
             x = "instructor" /\ req[r].job.kind = "course" /\ ok
                => req[r].job.user \in Instructors,
             x = "assignment" /\ req[r].job.kind = "grade" /\ ok
                => db[<<"assignment", req[r].job.id>>] # None
      PROVE  CourseworkInv'
  <2>1. /\ q \in Request /\ q.job = req[r].job /\ q.pc = "gather" /\ q.new = req[r].new
        /\ q.link = req[r].link /\ q.tx = req[r].tx /\ q.dep = req[r].dep
        /\ q.todo = req[r].todo \ {x} /\ (q.found => req[r].found /\ ok)
    BY <1>0, <1>1, <1>3 DEF Request
  <2>2. q.job.kind = "course" /\ q.found /\ "instructor" \notin q.todo
            => q.job.user \in Instructors
    BY <1>2, <1>3, <2>1
  <2>3. q.job.kind = "grade" /\ q.found /\ "assignment" \notin q.todo
            => db[<<"assignment", q.job.id>>] # None
    BY <1>2, <1>3, <2>1
  <2>4. req[r].pc \notin Answered /\ q.pc \in Phases(q.job.kind)
    BY <1>0, <1>1, <2>1 DEF Answered
  <2>5. q.tx = (q.job.kind \in {"course", "external"} /\ q.pc = "gather")
    BY <1>2, <2>1
  <2> QED  BY <1>0, <1>2, <1>3, <2>1, <2>2, <2>3, <2>4, <2>5, Reads, ZenonT(40)
<1>4. CASE GatherInstructor(r)
  <2>1. Advance(r, [req[r] EXCEPT !.todo = @ \ {"instructor"},
                                  !.found = @ /\ InstructorOf(r) \in Instructors])
    BY <1>4 DEF GatherInstructor
  <2>2. req[r].job.kind = "course" /\ InstructorOf(r) \in Instructors
            => req[r].job.user \in Instructors
    BY DEF InstructorOf
  <2> DEFINE ok == InstructorOf(r) \in Instructors
  <2>3. ok \in BOOLEAN /\ Advance(r, [req[r] EXCEPT !.todo = @ \ {"instructor"}, !.found = @ /\ ok])
        /\ (req[r].job.kind = "course" /\ ok => req[r].job.user \in Instructors)
    BY <2>1, <2>2
  <2> HIDE DEF ok
  <2> QED  BY <2>3, <1>3
<1>5. CASE GatherStudent(r)
  <2>1. Advance(r, [req[r] EXCEPT !.todo = @ \ {"student"}])
    BY <1>5 DEF GatherStudent
  <2>2. PICK q : q = [req[r] EXCEPT !.todo = @ \ {"student"}]
    OBVIOUS
  <2>3. /\ q \in Request /\ q.job = req[r].job /\ q.pc = "gather" /\ q.new = req[r].new
        /\ q.link = req[r].link /\ q.tx = req[r].tx /\ q.dep = req[r].dep
        /\ q.todo = req[r].todo \ {"student"} /\ q.found = req[r].found
    BY <1>0, <1>1, <2>2 DEF Request
  <2>4. req[r].pc \notin Answered /\ q.pc \in Phases(q.job.kind)
    BY <1>0, <1>1, <2>3 DEF Answered
  <2>5. q.tx = (q.job.kind \in {"course", "external"} /\ q.pc = "gather")
    BY <1>2, <2>3
  <2>6. /\ q.job.kind = "course" /\ q.found /\ "instructor" \notin q.todo
            => q.job.user \in Instructors
        /\ q.job.kind = "grade" /\ q.found /\ "assignment" \notin q.todo
            => db[<<"assignment", q.job.id>>] # None
    BY <1>2, <2>3
  <2> QED  BY <1>0, <1>2, <2>1, <2>2, <2>3, <2>4, <2>5, <2>6, Reads
<1>6. CASE GatherCourse(r)
  <2> DEFINE ok == View(r)[<<"course", req[r].job.id>>] # None
  <2>1. ok \in BOOLEAN /\ Advance(r, [req[r] EXCEPT !.todo = @ \ {"course"}, !.found = @ /\ ok])
    BY <1>6 DEF GatherCourse
  <2> HIDE DEF ok
  <2> QED  BY <2>1, <1>3
<1>7. CASE GatherAssignment(r)
  <2> DEFINE ok == db[<<"assignment", req[r].job.id>>] # None
  <2>1. ok \in BOOLEAN
        /\ Advance(r, [req[r] EXCEPT !.todo = @ \ {"assignment"}, !.found = @ /\ ok])
    BY <1>7 DEF GatherAssignment
  <2>2. ok => db[<<"assignment", req[r].job.id>>] # None
    OBVIOUS
  <2> HIDE DEF ok
  <2> QED  BY <2>1, <2>2, <1>3
<1> QED  BY <1>4, <1>5, <1>6, <1>7

LEMMA GatheredStep ==
    ASSUME CourseworkInv, NEW r \in Requests, Gathered(r)
    PROVE  CourseworkInv'
<1>0. req[r].pc = "gather" /\ req[r].todo = {}
  BY DEF Gathered
<1>1. /\ req[r] \in Request /\ RequestOK(req[r]) /\ Sees(req[r], db) /\ req[r].job \in Job
      /\ req[r].job \in Jobs /\ req[r].pc \in Phases(req[r].job.kind)
  BY <1>0, Active DEF Answered
<1>2. CASE Abort(r, "refused")
  BY <1>2, Ends DEF Answered
<1>3. CASE ~Abort(r, "refused")
  <2>1. PICK pc \in {"course", "assignment", "grade"} :
            /\ Advance(r, [req[r] EXCEPT !.pc = pc]) /\ req[r].found
            /\ \/ pc = "course" /\ req[r].job.kind = "course"
               \/ pc = "assignment" /\ req[r].job.kind \in {"assignment", "external"}
               \/ pc = "grade" /\ req[r].job.kind = "grade"
    BY <1>3 DEF Gathered
  <2>2. PICK q : q = [req[r] EXCEPT !.pc = pc]
    OBVIOUS
  <2>3. /\ q \in Request /\ q.job = req[r].job /\ q.pc = pc /\ q.new = req[r].new
        /\ q.link = req[r].link /\ q.tx = req[r].tx /\ q.dep = req[r].dep
        /\ q.todo = req[r].todo /\ q.found = req[r].found
    BY <1>1, <2>1, <2>2 DEF Request
  <2>4. q.job \in Jobs /\ q.pc \in Phases(q.job.kind)
    BY <1>1, <2>1, <2>3 DEF Phases
  <2>5. /\ q.tx = (q.job.kind \in {"course", "external"})
        /\ q.job.kind = "external" => q.dep \in Ids
        /\ q.job.kind = "course" => q.job.user \in Instructors
    BY <1>0, <1>1, <2>1, <2>3 DEF RequestOK, Answered
  <2>6. RequestOK(q)
    BY <1>0, <2>1, <2>3, <2>4, <2>5 DEF RequestOK
  <2>7. Sees(q, db)
    BY <1>0, <1>1, <2>1, <2>3 DEF Sees, Answered
  <2>8. \A k \in Keys : PendingRow(q, k) = PendingRow(req[r], k)
    BY <1>0, <2>1, <2>3 DEF PendingRow
  <2>9. req' = [req EXCEPT ![r] = q] /\ UNCHANGED <<db, grades, writes>>
    BY <2>1, <2>2 DEF Advance
  <2> QED  BY <2>3, <2>6, <2>7, <2>8, <2>9, GoesOn
<1> QED  BY <1>2, <1>3

-----------------------------------------------------------------------------
(***************************************************************************)
(* The steps that write in a transaction.                                  *)
(***************************************************************************)
LEMMA FreshIds ==
    ASSUME CourseworkInv, NEW t \in Tables, NEW i \in FreshId(t)
    PROVE  /\ i \in Ids /\ <<t, i>> \in Keys /\ db[<<t, i>>] = None
           /\ \A s \in Requests : PendingRow(req[s], <<t, i>>) = None
<1>1. i \in Ids /\ i \notin UsedIds(t)
  BY DEF FreshId
<1>2. db[<<t, i>>] = None /\ \A s \in Requests : writes[s][<<t, i>>] = None
  BY <1>1 DEF UsedIds
<1>3. <<t, i>> \in Keys
  BY <1>1, KeysAre
<1>4. \A s \in Requests : writes[s][<<t, i>>] = PendingRow(req[s], <<t, i>>)
  BY <1>3 DEF CourseworkInv, Pending
<1> QED  BY <1>1, <1>2, <1>3, <1>4

\* r becomes q and writes rows, new ones, in its transaction
WritesRows(r, q, rows) ==
    /\ req' = [req EXCEPT ![r] = q] /\ UNCHANGED <<db, grades>>
    /\ writes' = [writes EXCEPT ![r] = Over(rows, writes[r])]
    /\ \A k \in Keys : rows[k] # None =>
         /\ PendingRow(q, k) = rows[k] /\ db[k] = None
         /\ \A s \in Requests \ {r} : PendingRow(req[s], k) = None
    /\ \A k \in Keys : rows[k] = None => PendingRow(q, k) = PendingRow(req[r], k)

LEMMA WritesInTx ==
    ASSUME CourseworkInv, NEW r \in Requests, NEW q \in Request, RequestOK(q), Sees(q, db),
           NEW rows, WritesRows(r, q, rows)
    PROVE  CourseworkInv'
<1>1. writes[r] = Pending(req[r])
  BY DEF CourseworkInv
<1>2. \A k \in Keys : Over(rows, writes[r])[k] = PendingRow(q, k)
  BY <1>1 DEF Over, Pending, WritesRows
<1>3. Over(rows, writes[r]) = Pending(q)
  BY <1>2 DEF Over, Pending
<1>4. Typed(db') /\ Whole(db') /\ Due(grades', db') /\ Sees(q, db')
  BY DEF CourseworkInv, WritesRows
<1>5. \A k \in Keys : PendingRow(q, k) # None =>
        db'[k] = None /\ \A s \in Requests \ {r} : PendingRow(req[s], k) = None
  BY DEF CourseworkInv, FreshInv, WritesRows
<1>6. \A k \in Keys, s \in Requests \ {r} : PendingRow(req[s], k) # None => db'[k] = None
  BY DEF CourseworkInv, FreshInv, WritesRows
<1>7. /\ req' = [req EXCEPT ![r] = q] /\ UNCHANGED <<db, grades>>
      /\ writes' = [writes EXCEPT ![r] = Pending(q)]
  BY <1>3 DEF WritesRows
<1> QED  BY <1>4, <1>5, <1>6, <1>7, Moves

LEMMA SaveCourseStep ==
    ASSUME CourseworkInv, NEW r \in Requests, SaveCourse(r)
    PROVE  CourseworkInv'
<1>0. req[r].pc = "course"
  BY DEF SaveCourse
<1>1. /\ req[r] \in Request /\ RequestOK(req[r]) /\ req[r].job \in Job
      /\ req[r].job \in Jobs /\ req[r].pc \in Phases(req[r].job.kind)
      /\ req[r].job.user \in People
  BY <1>0, Active DEF Answered
<1>2. req[r].job.kind = "course" /\ req[r].tx /\ req[r].job.user \in Instructors
  <2>1. req[r].job.kind = "course"
    BY <1>0, <1>1, KindsAre DEF Phases
  <2> QED  BY <1>0, <1>1, <2>1 DEF RequestOK, Answered
<1>3. CASE Abort(r, "failed")
  BY <1>3, Ends DEF Answered
<1>4. CASE ~Abort(r, "failed")
  <2> DEFINE row == [instructor |-> req[r].job.user]
  <2>1. PICK c \in FreshId("course") :
            Write(r, "course", Only(<<"course", c>>, row), [req[r] EXCEPT !.pc = "context", !.new = c])
    BY DEF SaveCourse
  <2>2. c \in Ids /\ <<"course", c>> \in Keys /\ db[<<"course", c>>] = None
        /\ \A s \in Requests : PendingRow(req[s], <<"course", c>>) = None
    BY FreshIds DEF Tables
  <2>3. PICK q : q = [req[r] EXCEPT !.pc = "context", !.new = c]
    OBVIOUS
  <2>4. InTx(r, "course")
    BY <1>2 DEF InTx, JoinsTransaction
  <2>5. /\ req' = [req EXCEPT ![r] = q] /\ UNCHANGED <<db, grades>>
        /\ writes' = [writes EXCEPT ![r] = Over(Only(<<"course", c>>, row), writes[r])]
    BY <1>4, <2>1, <2>3, <2>4 DEF Write, CourseworkInv
  <2>6. /\ q \in Request /\ q.job = req[r].job /\ q.pc = "context" /\ q.new = c
        /\ q.link = req[r].link /\ q.tx = req[r].tx /\ q.dep = req[r].dep
        /\ q.todo = req[r].todo /\ q.found = req[r].found
    BY <1>1, <2>2, <2>3, ZenonT(40) DEF Request
  <2>7. RequestOK(q)
    BY <1>1, <1>2, <2>2, <2>6 DEF RequestOK, Phases
  <2>8. Sees(q, db)
    BY <1>2, <2>6 DEF Sees
  <2>9. row # None
    BY <1>1, RowsFit DEF Tables
  <2>10. PendingRow(q, <<"course", c>>) = row
    BY <1>2, <2>6 DEF PendingRow, Answered
  <2>11. \A k \in Keys : k # <<"course", c>> => PendingRow(q, k) = PendingRow(req[r], k)
    BY <1>0, <1>2, <2>6 DEF PendingRow, Answered
  <2> HIDE DEF row
  <2>12. PICK rows : rows = Only(<<"course", c>>, row)
    OBVIOUS
  <2>13. \A k \in Keys : rows[k] = IF k = <<"course", c>> THEN row ELSE None
    BY <2>12 DEF Only
  <2>14. \A k \in Keys : rows[k] # None => k = <<"course", c>>
    BY <2>13
  <2>15. \A k \in Keys : rows[k] = None => k # <<"course", c>>
    BY <2>9, <2>13
  <2>16. WritesRows(r, q, rows)
    BY <2>2, <2>5, <2>10, <2>11, <2>12, <2>13, <2>14, <2>15 DEF WritesRows
  <2> QED  BY <2>6, <2>7, <2>8, <2>16, WritesInTx
<1> QED  BY <1>3, <1>4

LEMMA SaveContextStep ==
    ASSUME CourseworkInv, NEW r \in Requests, SaveContext(r)
    PROVE  CourseworkInv'
<1>0. req[r].pc = "context"
  BY DEF SaveContext
<1>1. /\ req[r] \in Request /\ RequestOK(req[r]) /\ req[r].job \in Job
      /\ req[r].job \in Jobs /\ req[r].pc \in Phases(req[r].job.kind)
      /\ req[r].job.user \in People
  BY <1>0, Active DEF Answered
<1>2. /\ req[r].job.kind = "course" /\ req[r].tx /\ req[r].job.user \in Instructors
      /\ req[r].new \in Ids
  <2>1. req[r].job.kind = "course"
    BY <1>0, <1>1, KindsAre DEF Phases
  <2> QED  BY <1>0, <1>1, <2>1 DEF RequestOK, Answered
<1>3. CASE Abort(r, "failed")
  BY <1>3, Ends DEF Answered
<1>4. CASE ~Abort(r, "failed")
  <2> DEFINE c == req[r].new
             row == [context |-> req[r].new]
  <2>1. Write(r, "context", Only(<<"context", c>>, row), [req[r] EXCEPT !.pc = "commit"])
    BY DEF SaveContext
  <2>2. c \in Ids /\ <<"course", c>> \in Keys /\ <<"context", c>> \in Keys
    BY <1>2, KeysAre DEF Tables
  <2>3. PICK q : q = [req[r] EXCEPT !.pc = "commit"]
    OBVIOUS
  <2>4. InTx(r, "context")
    BY <1>2 DEF InTx, JoinsTransaction
  <2>5. /\ req' = [req EXCEPT ![r] = q] /\ UNCHANGED <<db, grades>>
        /\ writes' = [writes EXCEPT ![r] = Over(Only(<<"context", c>>, row), writes[r])]
    BY <1>4, <2>1, <2>3, <2>4 DEF Write, CourseworkInv
  <2>6. /\ q \in Request /\ q.job = req[r].job /\ q.pc = "commit" /\ q.new = c
        /\ q.link = req[r].link /\ q.tx = req[r].tx /\ q.dep = req[r].dep
        /\ q.todo = req[r].todo /\ q.found = req[r].found
    BY <1>1, <2>3 DEF Request
  <2>7. RequestOK(q)
    BY <1>1, <1>2, <2>6 DEF RequestOK, Phases
  <2>8. Sees(q, db)
    BY <1>2, <2>6 DEF Sees
  <2>9. row # None
    BY <1>2, RowsFit DEF Tables
  <2>10. PendingRow(q, <<"context", c>>) = row
    BY <1>2, <2>6 DEF PendingRow, Answered
  <2>11. \A k \in Keys : k # <<"context", c>> => PendingRow(q, k) = PendingRow(req[r], k)
    BY <1>0, <1>2, <2>6 DEF PendingRow, Answered
  <2>12. PendingRow(req[r], <<"course", c>>) # None
    <3>1. PendingRow(req[r], <<"course", c>>) = [instructor |-> req[r].job.user]
      BY <1>0, <1>2 DEF PendingRow, Answered
    <3> QED  BY <1>1, <3>1, RowsFit DEF Tables
  <2>13. db[<<"context", c>>] = None
    <3>1. db[<<"course", c>>] = None
      BY <2>2, <2>12 DEF CourseworkInv, FreshInv
    <3> QED  BY <2>2, <3>1 DEF CourseworkInv, Whole, ContextsWhole
  <2>14. ASSUME NEW s \in Requests \ {r} PROVE PendingRow(req[s], <<"context", c>>) = None
    <3>1. PendingRow(req[s], <<"course", c>>) = None
      BY <2>2, <2>12 DEF CourseworkInv, FreshInv
    <3>2. SUFFICES ASSUME PendingRow(req[s], <<"context", c>>) # None PROVE FALSE
      OBVIOUS
    <3>3. /\ req[s].pc = "commit" /\ req[s].job.kind = "course" /\ req[s].new = c
      BY <3>2 DEF PendingRow
    <3>4. PendingRow(req[s], <<"course", c>>) = [instructor |-> req[s].job.user]
      BY <3>3 DEF PendingRow, Answered
    <3>5. req[s].job.user \in People
      BY <3>3, Active DEF Answered
    <3> QED  BY <3>1, <3>4, <3>5, RowsFit DEF Tables
  <2> HIDE DEF row, c
  <2>15. PICK rows : rows = Only(<<"context", c>>, row)
    OBVIOUS
  <2>16. \A k \in Keys : rows[k] = IF k = <<"context", c>> THEN row ELSE None
    BY <2>15 DEF Only
  <2>17. \A k \in Keys : rows[k] # None => k = <<"context", c>>
    BY <2>16
  <2>18. \A k \in Keys : rows[k] = None => k # <<"context", c>>
    BY <2>9, <2>16
  <2>19. WritesRows(r, q, rows)
    BY <2>5, <2>10, <2>11, <2>13, <2>14, <2>15, <2>16, <2>17, <2>18 DEF WritesRows
  <2> QED  BY <2>6, <2>7, <2>8, <2>19, WritesInTx
<1> QED  BY <1>3, <1>4

LEMMA SaveLinkStep ==
    ASSUME CourseworkInv, NEW r \in Requests, SaveLink(r)
    PROVE  CourseworkInv'
<1>0. req[r].pc = "link"
  BY DEF SaveLink
<1>1. /\ req[r] \in Request /\ RequestOK(req[r]) /\ Sees(req[r], db) /\ req[r].job \in Job
      /\ req[r].job \in Jobs /\ req[r].pc \in Phases(req[r].job.kind) /\ req[r].job.id \in Ids
  BY <1>0, Active DEF Answered
<1>2. /\ req[r].job.kind = "external" /\ req[r].tx /\ req[r].dep \in Ids /\ req[r].new \in Ids
      /\ db[<<"course", req[r].job.id>>] # None
  <2>1. req[r].job.kind = "external"
    BY <1>0, <1>1, KindsAre DEF Phases
  <2> QED  BY <1>0, <1>1, <2>1 DEF RequestOK, Sees, Answered
<1>3. CASE Abort(r, "failed")
  BY <1>3, Ends DEF Answered
<1>4. CASE ~Abort(r, "failed")
  <2> DEFINE row == [deployment |-> req[r].dep, context |-> req[r].job.id]
  <2>1. PICK l \in FreshId("link") :
            Write(r, "link", Only(<<"link", l>>, row), [req[r] EXCEPT !.pc = "external", !.link = l])
    BY DEF SaveLink
  <2>2. l \in Ids /\ <<"link", l>> \in Keys /\ db[<<"link", l>>] = None
        /\ \A s \in Requests : PendingRow(req[s], <<"link", l>>) = None
    BY FreshIds DEF Tables
  <2>3. PICK q : q = [req[r] EXCEPT !.pc = "external", !.link = l]
    OBVIOUS
  <2>4. InTx(r, "link")
    BY <1>2 DEF InTx, JoinsTransaction
  <2>5. PICK rows : rows = Only(<<"link", l>>, row)
    OBVIOUS
  <2>6. /\ req' = [req EXCEPT ![r] = q] /\ UNCHANGED <<db, grades>>
        /\ writes' = [writes EXCEPT ![r] = Over(rows, writes[r])]
        /\ \A k \in Keys : rows[k] # None => \A j \in References(k, rows[k]) : View(r)[j] # None
    BY <1>4, <2>1, <2>3, <2>4, <2>5 DEF Write, CourseworkInv
  <2>7. /\ q \in Request /\ q.job = req[r].job /\ q.pc = "external" /\ q.new = req[r].new
        /\ q.link = l /\ q.tx = req[r].tx /\ q.dep = req[r].dep
        /\ q.todo = req[r].todo /\ q.found = req[r].found
    BY <1>1, <2>2, <2>3, ZenonT(40) DEF Request
  <2>8. RequestOK(q)
    BY <1>1, <1>2, <2>2, <2>7 DEF RequestOK, Phases
  <2>9. row # None
    BY <1>1, <1>2, RowsFit DEF Tables
  <2>10. PendingRow(q, <<"link", l>>) = row
    BY <1>2, <2>7 DEF PendingRow, Answered
  <2>11. \A k \in Keys : k # <<"link", l>> => PendingRow(q, k) = PendingRow(req[r], k)
    BY <1>0, <1>2, <2>7 DEF PendingRow, Answered
  <2>12. db[<<"deployment", req[r].dep>>] # None
    <3> DEFINE d == <<"deployment", req[r].dep>>
               w == <<"link", l>>
    <3>1. rows[w] = row
      BY <2>2, <2>5 DEF Only
    <3>2. d \in References(w, rows[w])
      BY <3>1 DEF References
    <3>3. View(r)[d] # None
      BY <2>2, <2>6, <2>9, <3>1, <3>2
    <3>4. d \in Keys
      BY <1>2, KeysAre DEF Tables
    <3>5. writes[r][d] = None
      BY <3>4 DEF CourseworkInv, Pending, PendingRow
    <3> QED  BY <3>3, <3>4, <3>5 DEF View, Over
  <2>13. Sees(q, db)
    BY <1>2, <2>7, <2>12 DEF Sees
  <2> HIDE DEF row
  <2>14. \A k \in Keys : rows[k] = IF k = <<"link", l>> THEN row ELSE None
    BY <2>5 DEF Only
  <2>15. \A k \in Keys : rows[k] # None => k = <<"link", l>>
    BY <2>14
  <2>16. \A k \in Keys : rows[k] = None => k # <<"link", l>>
    BY <2>9, <2>14
  <2>17. WritesRows(r, q, rows)
    BY <2>2, <2>6, <2>10, <2>11, <2>14, <2>15, <2>16 DEF WritesRows
  <2> QED  BY <2>7, <2>8, <2>13, <2>17, WritesInTx
<1> QED  BY <1>3, <1>4

LEMMA MakeExternalStep ==
    ASSUME CourseworkInv, NEW r \in Requests, MakeAssignmentExternal(r)
    PROVE  CourseworkInv'
<1>0. req[r].pc = "external"
  BY DEF MakeAssignmentExternal
<1>1. /\ req[r] \in Request /\ RequestOK(req[r]) /\ Sees(req[r], db) /\ req[r].job \in Job
      /\ req[r].job \in Jobs /\ req[r].pc \in Phases(req[r].job.kind) /\ req[r].job.id \in Ids
      /\ req[r].job.max \in Int
  BY <1>0, Active DEF Answered, Job
<1>2. /\ req[r].job.kind = "external" /\ req[r].tx /\ req[r].dep \in Ids /\ req[r].new \in Ids
      /\ req[r].link \in Ids
  <2>1. req[r].job.kind = "external"
    BY <1>0, <1>1, KindsAre DEF Phases
  <2> QED  BY <1>0, <1>1, <2>1 DEF RequestOK, Answered
<1>3. CASE Abort(r, "failed")
  BY <1>3, Ends DEF Answered
<1>4. CASE ~Abort(r, "failed")
  <2> DEFINE a == <<"assignment", req[r].new>>
             x == <<"external", req[r].new>>
             local == [course |-> req[r].job.id, kind |-> "local", max |-> req[r].job.max]
             row == [course |-> req[r].job.id, kind |-> "external_lti", max |-> req[r].job.max]
             tuple == [link |-> req[r].link]
  <2>1. a \in Keys /\ x \in Keys /\ a # x
    BY <1>2, KeysAre DEF Tables
  <2>2. local # None /\ row # None /\ tuple # None
    BY <1>1, <1>2, RowsFit DEF Tables
  <2>3. PendingRow(req[r], a) = local
    BY <1>0, <1>2 DEF PendingRow, Answered
  <2>4. View(r)[a] = local
    <3>1. writes[r][a] = local
      BY <2>1, <2>3 DEF CourseworkInv, Pending
    <3> QED  BY <2>1, <2>2, <3>1 DEF View, Over
  <2>5. [View(r)[a] EXCEPT !.kind = "external_lti"] = row
    BY <2>4
  <2>6. PICK rows : rows = ExternalRows(r)
    OBVIOUS
  <2>7. rows = Over(Only(x, tuple), Only(a, row))
    BY <2>5, <2>6 DEF ExternalRows
  <2>8. PICK q : q = [req[r] EXCEPT !.pc = "commit"]
    OBVIOUS
  <2>9. InTx(r, "external")
    BY <1>2 DEF InTx, JoinsTransaction
  <2>10. Write(r, "external", rows, q)
    BY <2>6, <2>8 DEF MakeAssignmentExternal
  <2>11. /\ req' = [req EXCEPT ![r] = q] /\ UNCHANGED <<db, grades>>
         /\ writes' = [writes EXCEPT ![r] = Over(rows, writes[r])]
    BY <1>4, <2>9, <2>10 DEF Write, CourseworkInv
  <2>12. /\ q \in Request /\ q.job = req[r].job /\ q.pc = "commit" /\ q.new = req[r].new
         /\ q.link = req[r].link /\ q.tx = req[r].tx /\ q.dep = req[r].dep
         /\ q.todo = req[r].todo /\ q.found = req[r].found
    BY <1>1, <2>8 DEF Request
  <2>13. RequestOK(q)
    BY <1>1, <1>2, <2>12 DEF RequestOK, Phases
  <2>14. Sees(q, db)
    BY <1>0, <1>1, <1>2, <2>12 DEF Sees, Answered
  <2>15. PendingRow(q, a) = row /\ PendingRow(q, x) = tuple
    BY <1>2, <2>12 DEF PendingRow, Answered
  <2>16. \A k \in Keys : k # a /\ k # x => PendingRow(q, k) = PendingRow(req[r], k)
    BY <1>0, <1>2, <2>12 DEF PendingRow, Answered
  <2>17. db[a] = None /\ \A s \in Requests \ {r} : PendingRow(req[s], a) = None
    BY <2>1, <2>2, <2>3 DEF CourseworkInv, FreshInv
  <2>18. db[x] = None
    BY <1>2, <2>17 DEF CourseworkInv, Whole, KindsWhole
  <2>19. ASSUME NEW s \in Requests \ {r} PROVE PendingRow(req[s], x) = None
    <3> SUFFICES ASSUME PendingRow(req[s], x) # None PROVE FALSE
      OBVIOUS
    <3>1. req[s].pc = "commit" /\ req[s].job.kind = "external" /\ req[s].new = req[r].new
      BY DEF PendingRow
    <3>2. PendingRow(req[s], a) = [course |-> req[s].job.id, kind |-> "external_lti",
                                   max |-> req[s].job.max]
      BY <3>1 DEF PendingRow, Answered
    <3>3. req[s].job.id \in Ids /\ req[s].job.max \in Int
      BY <3>1, Active DEF Answered, Job
    <3> QED  BY <2>17, <3>2, <3>3, RowsFit DEF Tables
  <2> HIDE DEF a, x, row, tuple, local
  <2>20. \A k \in Keys : rows[k] = IF k = x THEN tuple ELSE IF k = a THEN row ELSE None
    BY <2>2, <2>7 DEF Over, Only
  <2>21. \A k \in Keys : rows[k] # None => k = a \/ k = x
    BY <2>20
  <2>22. \A k \in Keys : rows[k] = None => k # a /\ k # x
    BY <2>2, <2>20
  <2>23. WritesRows(r, q, rows)
    BY <2>1, <2>11, <2>15, <2>16, <2>17, <2>18, <2>19, <2>20, <2>21, <2>22 DEF WritesRows
  <2> QED  BY <2>12, <2>13, <2>14, <2>23, WritesInTx
<1> QED  BY <1>3, <1>4

\* an assignment that no transaction creates is committed at once
LEMMA AssignedRows ==
    ASSUME CourseworkInv, NEW r \in Requests, SaveAssignment(r), ~Abort(r, "failed"), ~req[r].tx
    PROVE  \E a, n \in Ids :
             /\ req' = [req EXCEPT ![r] = Ended("ok")] /\ UNCHANGED <<writes, grades>>
             /\ req[r].pc = "assignment"
             /\ db[<<"assignment", a>>] = None /\ db[<<"course", n>>] # None
             /\ db'[<<"assignment", a>>] # None /\ db'[<<"assignment", a>>].course = n
             /\ db'[<<"assignment", a>>].kind = "local"
             /\ \A k \in Keys : k # <<"assignment", a>> => db'[k] = db[k]
             /\ \A s \in Requests : PendingRow(req[s], <<"assignment", a>>) = None
             /\ Typed(db')
<1>0. req[r].pc = "assignment"
  BY DEF SaveAssignment
<1>1. req[r].job.id \in Ids /\ req[r].job.max \in Int
  BY <1>0, Active DEF Answered, Job
<1> DEFINE row == [course |-> req[r].job.id, kind |-> "local", max |-> req[r].job.max]
           n == req[r].job.id
<1>2. PICK a \in FreshId("assignment") :
        Write(r, "assignment", Only(<<"assignment", a>>, row), Ended("ok"))
  BY DEF SaveAssignment
<1>3. a \in Ids /\ <<"assignment", a>> \in Keys /\ db[<<"assignment", a>>] = None
      /\ \A s \in Requests : PendingRow(req[s], <<"assignment", a>>) = None
  BY FreshIds DEF Tables
<1>4. PICK rows : rows = Only(<<"assignment", a>>, row)
  OBVIOUS
<1>5. Write(r, "assignment", rows, Ended("ok")) /\ ~InTx(r, "assignment")
  BY <1>2, <1>4 DEF InTx
<1>6. /\ req' = [req EXCEPT ![r] = Ended("ok")] /\ UNCHANGED <<writes, grades>>
      /\ db' = Over(rows, db)
  BY <1>5 DEF Write
<1>7. row # None /\ row \in Row("assignment") /\ row.course = n /\ row.kind = "local"
      /\ n \in Ids
  BY <1>1, RowsFit DEF Tables
<1>8. db[<<"course", n>>] # None
  <2> DEFINE w == <<"assignment", a>>
             c == <<"course", n>>
  <2>1. rows[w] = row
    BY <1>3, <1>4 DEF Only
  <2>2. c \in References(w, rows[w])
    BY <2>1 DEF References
  <2>3. \A k \in Keys : rows[k] # None => \A j \in References(k, rows[k]) : View(r)[j] # None
    BY <1>5 DEF Write
  <2>4. View(r)[c] # None /\ c \in Keys
    BY <1>3, <1>7, <2>1, <2>2, <2>3, KeysAre DEF Tables
  <2>5. PendingRow(req[r], c) = None
    BY <1>0 DEF PendingRow
  <2>6. writes[r][c] = None
    BY <2>4, <2>5 DEF CourseworkInv, Pending
  <2> QED  BY <2>4, <2>6 DEF View, Over
<1> HIDE DEF row, n
<1>9. \A k \in Keys : rows[k] = IF k = <<"assignment", a>> THEN row ELSE None
  BY <1>4 DEF Only
<1>10. /\ db'[<<"assignment", a>>] = row
       /\ \A k \in Keys : k # <<"assignment", a>> => db'[k] = db[k]
  BY <1>3, <1>6, <1>7, <1>9 DEF Over
<1>11. Typed(db')
  <2>1. \A k \in Keys : db[k] \in Row(k[1]) \cup {None}
    BY DEF CourseworkInv, Typed
  <2>2. \A k \in Keys : db'[k] \in Row(k[1]) \cup {None}
    BY <1>7, <1>10, <2>1
  <2>3. db' = [k \in Keys |-> db'[k]]
    BY <1>6 DEF Over
  <2> QED  BY <2>2, <2>3 DEF Typed
<1> QED  BY <1>0, <1>3, <1>6, <1>7, <1>8, <1>10, <1>11


-----------------------------------------------------------------------------
(***************************************************************************)
(* The steps that change what is committed.                                *)
(***************************************************************************)
LEMMA ViewIs ==
    ASSUME CourseworkInv, NEW r \in Requests
    PROVE  /\ \A k \in Keys : View(r)[k] = IF PendingRow(req[r], k) # None
                                           THEN PendingRow(req[r], k) ELSE db[k]
           /\ Typed(View(r))
<1>1. \A k \in Keys : writes[r][k] = PendingRow(req[r], k)
  BY DEF CourseworkInv, Pending
<1>2. \A k \in Keys : View(r)[k] = IF PendingRow(req[r], k) # None
                                   THEN PendingRow(req[r], k) ELSE db[k]
  BY <1>1 DEF View, Over
<1>3. \A k \in Keys : PendingRow(req[r], k) \in Row(k[1]) \cup {None}
  BY PendingTyped DEF CourseworkInv, RequestsInv
<1>4. \A k \in Keys : View(r)[k] \in Row(k[1]) \cup {None}
  BY <1>2, <1>3 DEF CourseworkInv, Typed
<1>5. View(r) = [k \in Keys |-> View(r)[k]]
  BY DEF View, Over
<1> QED  BY <1>2, <1>4, <1>5 DEF Typed

LEMMA CommittedCourse ==
    ASSUME CourseworkInv, NEW r \in Requests, req[r].pc = "commit", req[r].job.kind = "course",
           NEW e, e = View(r), NEW c, c = req[r].new
    PROVE  /\ c \in Ids /\ req[r].job.user \in Instructors
           /\ db[<<"course", c>>] = None
           /\ e[<<"course", c>>] = [instructor |-> req[r].job.user]
           /\ e[<<"course", c>>] # None /\ e[<<"context", c>>] # None
           /\ SameBut(db, e, "course", c) /\ SameBut(db, e, "context", c)
           /\ SameRows(db, e, "assignment") /\ SameRows(db, e, "external")
           /\ SameRows(db, e, "link") /\ SameRows(db, e, "deployment")
<1>1. /\ RequestOK(req[r]) /\ req[r].job.user \in People
  BY Active DEF Answered
<1>2. c \in Ids /\ req[r].job.user \in Instructors
  BY <1>1 DEF RequestOK, Answered
<1>3. /\ PendingRow(req[r], <<"course", c>>) = [instructor |-> req[r].job.user]
      /\ PendingRow(req[r], <<"context", c>>) = [context |-> c]
      /\ \A k \in Keys : k # <<"course", c>> /\ k # <<"context", c>> => PendingRow(req[r], k) = None
  BY DEF PendingRow, Answered
<1>4. PendingRow(req[r], <<"course", c>>) # None /\ PendingRow(req[r], <<"context", c>>) # None
  BY <1>1, <1>2, <1>3, RowsFit DEF Tables
<1>5. <<"course", c>> \in Keys /\ <<"context", c>> \in Keys
  BY <1>2, KeysAre DEF Tables
<1>6. db[<<"course", c>>] = None
  BY <1>4, <1>5 DEF CourseworkInv, FreshInv
<1>7. /\ e[<<"course", c>>] = [instructor |-> req[r].job.user]
      /\ e[<<"course", c>>] # None /\ e[<<"context", c>>] # None
      /\ \A k \in Keys : k # <<"course", c>> /\ k # <<"context", c>> => e[k] = db[k]
  BY <1>3, <1>4, <1>5, ViewIs
<1> QED  BY <1>2, <1>6, <1>7, KeysAre DEF SameBut, SameRows, Tables

LEMMA CommittedExternal ==
    ASSUME CourseworkInv, NEW r \in Requests, req[r].pc = "commit",
           req[r].job.kind = "external", NEW e, e = View(r),
           NEW a, a = req[r].new, NEW l, l = req[r].link, NEW z, z = req[r].dep,
           NEW n, n = req[r].job.id
    PROVE  /\ a \in Ids /\ l \in Ids /\ z \in Ids /\ n \in Ids
           /\ db[<<"assignment", a>>] = None /\ db[<<"link", l>>] = None
           /\ db[<<"course", n>>] # None /\ db[<<"deployment", z>>] # None
           /\ e[<<"assignment", a>>] # None /\ e[<<"assignment", a>>].course = n
           /\ e[<<"assignment", a>>].kind = "external_lti"
           /\ e[<<"link", l>>] # None /\ e[<<"link", l>>].deployment = z
           /\ e[<<"link", l>>].context = n
           /\ e[<<"external", a>>] # None /\ e[<<"external", a>>].link = l
           /\ SameBut(db, e, "assignment", a) /\ SameBut(db, e, "external", a)
           /\ SameBut(db, e, "link", l)
           /\ SameRows(db, e, "course") /\ SameRows(db, e, "context")
           /\ SameRows(db, e, "deployment")
<1>1. /\ RequestOK(req[r]) /\ Sees(req[r], db) /\ n \in Ids
      /\ req[r].job.max \in Int
  BY Active DEF Answered, Job
<1>2. a \in Ids /\ l \in Ids /\ z \in Ids
      /\ db[<<"course", n>>] # None /\ db[<<"deployment", z>>] # None
  BY <1>1 DEF RequestOK, Sees, Answered
<1> DEFINE asg == [course |-> n, kind |-> "external_lti", max |-> req[r].job.max]
           lnk == [deployment |-> z, context |-> n]
           ext == [link |-> l]
<1>3. /\ PendingRow(req[r], <<"assignment", a>>) = asg
      /\ PendingRow(req[r], <<"link", l>>) = lnk
      /\ PendingRow(req[r], <<"external", a>>) = ext
      /\ \A k \in Keys : k # <<"assignment", a>> /\ k # <<"link", l>> /\ k # <<"external", a>>
            => PendingRow(req[r], k) = None
  BY DEF PendingRow, Answered
<1>4. asg # None /\ lnk # None /\ ext # None
  BY <1>1, <1>2, RowsFit DEF Tables
<1>5. <<"assignment", a>> \in Keys /\ <<"link", l>> \in Keys /\ <<"external", a>> \in Keys
  BY <1>2, KeysAre DEF Tables
<1>6. /\ asg.course = n /\ asg.kind = "external_lti" /\ lnk.deployment = z /\ lnk.context = n
      /\ ext.link = l
  OBVIOUS
<1> HIDE DEF asg, lnk, ext
<1>7. db[<<"assignment", a>>] = None /\ db[<<"link", l>>] = None
  BY <1>3, <1>4, <1>5 DEF CourseworkInv, FreshInv
<1>8. /\ e[<<"assignment", a>>] = asg /\ e[<<"link", l>>] = lnk /\ e[<<"external", a>>] = ext
      /\ \A k \in Keys : k # <<"assignment", a>> /\ k # <<"link", l>> /\ k # <<"external", a>>
            => e[k] = db[k]
  BY <1>3, <1>4, <1>5, ViewIs
<1>9. /\ SameBut(db, e, "assignment", a) /\ SameBut(db, e, "external", a)
      /\ SameBut(db, e, "link", l)
      /\ SameRows(db, e, "course") /\ SameRows(db, e, "context")
      /\ SameRows(db, e, "deployment")
  BY <1>8, KeysAre DEF SameBut, SameRows, Tables
<1> QED  BY <1>1, <1>2, <1>4, <1>6, <1>7, <1>8, <1>9

\* an answered request after the database has changed
LEMMA Answers ==
    ASSUME CourseworkInv, NEW r \in Requests, NEW pc \in Answered,
           req' = [req EXCEPT ![r] = Ended(pc)], writes' = [writes EXCEPT ![r] = NoWrites],
           Typed(db'), Whole(db'), Due(grades', db'),
           \A i \in Ids :
             /\ db[<<"assignment", i>>] # None => db'[<<"assignment", i>>] # None
             /\ db[<<"course", i>>] # None => db'[<<"course", i>>] # None
             /\ db[<<"deployment", i>>] # None /\ Locked(<<"deployment", i>>)
                    => db'[<<"deployment", i>>] # None,
           \A k \in Keys, s \in Requests \ {r} : PendingRow(req[s], k) # None => db'[k] = None
    PROVE  CourseworkInv'
<1>1. PICK q : q = Ended(pc)
  OBVIOUS
<1>2. q \in Request /\ q.pc = pc
  BY <1>1 DEF Ended, Fresh, Request, Answered
<1>3. RequestOK(q) /\ Sees(q, db') /\ \A k \in Keys : PendingRow(q, k) = None
  BY <1>2 DEF RequestOK, Sees, PendingRow
<1>4. Pending(q) = NoWrites
  BY <1>3 DEF Pending, NoWrites
<1>5. req' = [req EXCEPT ![r] = q] /\ writes' = [writes EXCEPT ![r] = Pending(q)]
  BY <1>1, <1>4
<1> QED  BY <1>2, <1>3, <1>5, Moves

LEMMA SaveAssignmentStep ==
    ASSUME CourseworkInv, NEW r \in Requests, SaveAssignment(r)
    PROVE  CourseworkInv'
<1>0. req[r].pc = "assignment"
  BY DEF SaveAssignment
<1>1. /\ req[r] \in Request /\ RequestOK(req[r]) /\ Sees(req[r], db) /\ req[r].job \in Job
      /\ req[r].job \in Jobs /\ req[r].pc \in Phases(req[r].job.kind) /\ req[r].job.id \in Ids
      /\ req[r].job.max \in Int
  BY <1>0, Active DEF Answered, Job
<1>2. /\ req[r].job.kind \in {"assignment", "external"}
      /\ req[r].tx = (req[r].job.kind = "external")
      /\ req[r].job.kind = "external" => req[r].dep \in Ids
  <2>1. req[r].job.kind \in {"assignment", "external"}
    BY <1>0, <1>1, KindsAre DEF Phases
  <2> QED  BY <1>0, <1>1, <2>1 DEF RequestOK, Answered
<1>3. CASE Abort(r, "failed")
  BY <1>3, Ends DEF Answered
<1>4. CASE ~Abort(r, "failed") /\ req[r].tx
  <2> DEFINE row == [course |-> req[r].job.id, kind |-> "local", max |-> req[r].job.max]
             n == req[r].job.id
  <2>1. PICK a \in FreshId("assignment") :
            Write(r, "assignment", Only(<<"assignment", a>>, row),
                  IF req[r].tx THEN [req[r] EXCEPT !.pc = "link", !.new = a] ELSE Ended("ok"))
    BY DEF SaveAssignment
  <2>2. a \in Ids /\ <<"assignment", a>> \in Keys /\ db[<<"assignment", a>>] = None
        /\ \A s \in Requests : PendingRow(req[s], <<"assignment", a>>) = None
    BY FreshIds DEF Tables
  <2>3. PICK rows : rows = Only(<<"assignment", a>>, row)
    OBVIOUS
  <2>4. PICK q : q = IF req[r].tx THEN [req[r] EXCEPT !.pc = "link", !.new = a] ELSE Ended("ok")
    OBVIOUS
  <2>5. Write(r, "assignment", rows, q)
    BY <2>1, <2>3, <2>4
  <2>6. row # None /\ row \in Row("assignment")
    BY <1>1, RowsFit DEF Tables
  <2>7. n \in Ids /\ row.course = n /\ row.kind = "local"
    BY <1>1
  <2>8. db[<<"course", n>>] # None
    <3> DEFINE w == <<"assignment", a>>
               c == <<"course", n>>
    <3>1. rows[w] = row
      BY <2>2, <2>3 DEF Only
    <3>2. c \in References(w, rows[w])
      BY <3>1 DEF References
    <3>3. \A k \in Keys : rows[k] # None => \A j \in References(k, rows[k]) : View(r)[j] # None
      BY <1>4, <2>5 DEF Write
    <3>4. View(r)[c] # None /\ c \in Keys
      BY <2>2, <2>6, <2>7, <3>1, <3>2, <3>3, KeysAre DEF Tables
    <3>5. PendingRow(req[r], c) = None
      BY <1>0 DEF PendingRow
    <3>6. writes[r][c] = None
      BY <3>4, <3>5 DEF CourseworkInv, Pending
    <3> QED  BY <3>4, <3>6 DEF View, Over
  <2> HIDE DEF row, n
  <2>9. \A k \in Keys : rows[k] = IF k = <<"assignment", a>> THEN row ELSE None
    BY <2>3 DEF Only
  <2>10. \A k \in Keys : rows[k] # None => k = <<"assignment", a>>
    BY <2>9
  <2>11. \A k \in Keys : rows[k] = None => k # <<"assignment", a>>
    BY <2>6, <2>9
  <2>12. \A k \in Keys : PendingRow(req[r], k) = None
    BY <1>0 DEF PendingRow
  <2>13. q = [req[r] EXCEPT !.pc = "link", !.new = a] /\ req[r].job.kind = "external"
    BY <1>2, <1>4, <2>4
  <2>14. InTx(r, "assignment")
    BY <1>4 DEF InTx, JoinsTransaction
  <2>15. /\ req' = [req EXCEPT ![r] = q] /\ UNCHANGED <<db, grades>>
        /\ writes' = [writes EXCEPT ![r] = Over(rows, writes[r])]
    BY <1>4, <2>5, <2>14 DEF Write, CourseworkInv
  <2>16. /\ q \in Request /\ q.job = req[r].job /\ q.pc = "link" /\ q.new = a
        /\ q.link = req[r].link /\ q.tx = req[r].tx /\ q.dep = req[r].dep
        /\ q.todo = req[r].todo /\ q.found = req[r].found
    BY <1>1, <2>2, <2>13, ZenonT(40) DEF Request
  <2>17. RequestOK(q)
    BY <1>1, <1>2, <2>2, <2>13, <2>16 DEF RequestOK, Phases
  <2>18. Sees(q, db)
    BY <2>8, <2>13, <2>16 DEF Sees, n
  <2>19. PendingRow(q, <<"assignment", a>>) = row
    BY <2>13, <2>16 DEF PendingRow, Answered, row
  <2>20. \A k \in Keys : k # <<"assignment", a>> => PendingRow(q, k) = None
    BY <2>13, <2>16 DEF PendingRow, Answered
  <2>21. WritesRows(r, q, rows)
    BY <2>2, <2>9, <2>10, <2>11, <2>12, <2>15, <2>19, <2>20 DEF WritesRows
  <2> QED  BY <2>16, <2>17, <2>18, <2>21, WritesInTx
<1>5. CASE ~Abort(r, "failed") /\ ~req[r].tx
  <2>1. PICK a, n \in Ids :
             /\ req' = [req EXCEPT ![r] = Ended("ok")] /\ UNCHANGED <<writes, grades>>
             /\ db[<<"assignment", a>>] = None /\ db[<<"course", n>>] # None
             /\ db'[<<"assignment", a>>] # None /\ db'[<<"assignment", a>>].course = n
             /\ db'[<<"assignment", a>>].kind = "local"
             /\ \A k \in Keys : k # <<"assignment", a>> => db'[k] = db[k]
             /\ \A s \in Requests : PendingRow(req[s], <<"assignment", a>>) = None
             /\ Typed(db')
    BY <1>5, AssignedRows
  <2>2. /\ SameBut(db, db', "assignment", a) /\ SameRows(db, db', "course")
        /\ SameRows(db, db', "context") /\ SameRows(db, db', "external")
        /\ SameRows(db, db', "link") /\ SameRows(db, db', "deployment")
    BY <2>1, KeysAre DEF SameBut, SameRows, Tables
  <2>3. Typed(db) /\ Whole(db) /\ Due(grades, db) /\ AssignmentsWhole(db)
    BY DEF CourseworkInv, Whole
  <2>4. Whole(db')
    BY <2>1, <2>2, <2>3, LocalAdded
  <2>5. Due(grades', db')
    <3>1. /\ \A i \in Ids : db[<<"assignment", i>>] # None =>
                    db'[<<"assignment", i>>] = db[<<"assignment", i>>]
          /\ \A i \in Ids : db[<<"course", i>>] # None =>
                    db'[<<"course", i>>] = db[<<"course", i>>]
      BY <2>1, <2>2 DEF SameBut, SameRows
    <3>2. Due(grades, db')
      BY <2>3, <3>1, GradesStayDue
    <3> QED  BY <2>1, <3>2
  <2>6. \A i \in Ids :
          /\ db[<<"assignment", i>>] # None => db'[<<"assignment", i>>] # None
          /\ db[<<"course", i>>] # None => db'[<<"course", i>>] # None
          /\ db[<<"deployment", i>>] # None /\ Locked(<<"deployment", i>>)
                => db'[<<"deployment", i>>] # None
    BY <2>1, <2>2 DEF SameRows, SameBut
  <2>7. \A k \in Keys, s \in Requests \ {r} : PendingRow(req[s], k) # None => db'[k] = None
    <3> SUFFICES ASSUME NEW k \in Keys, NEW s \in Requests \ {r}, PendingRow(req[s], k) # None
                 PROVE  db'[k] = None
      OBVIOUS
    <3>1. db[k] = None
      BY DEF CourseworkInv, FreshInv
    <3> QED  BY <2>1, <3>1
  <2>8. writes' = [writes EXCEPT ![r] = NoWrites]
    <3>1. \A k \in Keys : PendingRow(req[r], k) = None
      BY <1>0 DEF PendingRow
    <3>2. writes[r] = NoWrites
      BY <3>1 DEF CourseworkInv, Pending, NoWrites
    <3> QED  BY <2>1, <3>2 DEF CourseworkInv
  <2> QED  BY <2>1, <2>4, <2>5, <2>6, <2>7, <2>8, Answers DEF Answered
<1> QED  BY <1>3, <1>4, <1>5

LEMMA CommitStep ==
    ASSUME CourseworkInv, NEW r \in Requests, NEW pc \in Answered, req[r].pc = "commit",
           db' = View(r), UNCHANGED grades, req' = [req EXCEPT ![r] = Ended(pc)],
           writes' = [writes EXCEPT ![r] = NoWrites]
    PROVE  CourseworkInv'
<1>1. req[r].job.kind \in {"course", "external"}
  <2>1. req[r].job \in Job /\ req[r].pc \in Phases(req[r].job.kind)
    BY Active DEF Answered
  <2> QED  BY <2>1, KindsAre DEF Phases
<1>2. Typed(db) /\ Whole(db) /\ Due(grades, db) /\ AssignmentsWhole(db)
  BY DEF CourseworkInv, Whole
<1>3. Typed(db')
  BY ViewIs
<1>4. \A k \in Keys, s \in Requests \ {r} : PendingRow(req[s], k) # None => db'[k] = None
  <2> SUFFICES ASSUME NEW k \in Keys, NEW s \in Requests \ {r}, PendingRow(req[s], k) # None
               PROVE  db'[k] = None
    OBVIOUS
  <2>1. db[k] = None /\ PendingRow(req[r], k) = None
    BY DEF CourseworkInv, FreshInv
  <2> QED  BY <2>1, ViewIs
<1>5. CASE req[r].job.kind = "course"
  <2>1. PICK c : c = req[r].new
    OBVIOUS
  <2>2. /\ c \in Ids /\ db[<<"course", c>>] = None
        /\ db'[<<"course", c>>] # None /\ db'[<<"context", c>>] # None
        /\ SameBut(db, db', "course", c) /\ SameBut(db, db', "context", c)
        /\ SameRows(db, db', "assignment") /\ SameRows(db, db', "external")
        /\ SameRows(db, db', "link") /\ SameRows(db, db', "deployment")
    BY <1>5, <2>1, CommittedCourse, ZenonT(40)
  <2>3. Whole(db')
    BY <1>2, <2>2, CourseAdded
  <2>4. Due(grades, db')
    <3>1. /\ \A i \in Ids : db[<<"assignment", i>>] # None =>
                    db'[<<"assignment", i>>] = db[<<"assignment", i>>]
          /\ \A i \in Ids : db[<<"course", i>>] # None =>
                    db'[<<"course", i>>] = db[<<"course", i>>]
      BY <2>2 DEF SameBut, SameRows
    <3> QED  BY <1>2, <3>1, GradesStayDue
  <2>5. \A i \in Ids :
          /\ db[<<"assignment", i>>] # None => db'[<<"assignment", i>>] # None
          /\ db[<<"course", i>>] # None => db'[<<"course", i>>] # None
          /\ db[<<"deployment", i>>] # None /\ Locked(<<"deployment", i>>)
                => db'[<<"deployment", i>>] # None
    BY <2>2 DEF SameBut, SameRows
  <2>6. Due(grades', db')
    BY <2>4
  <2> QED  BY <1>3, <1>4, <2>3, <2>5, <2>6, Answers
<1>6. CASE req[r].job.kind = "external"
  <2>1. PICK a, l, z, n : a = req[r].new /\ l = req[r].link /\ z = req[r].dep
                          /\ n = req[r].job.id
    OBVIOUS
  <2>2. /\ a \in Ids /\ l \in Ids /\ z \in Ids /\ n \in Ids
        /\ db[<<"assignment", a>>] = None /\ db[<<"link", l>>] = None
        /\ db[<<"course", n>>] # None /\ db[<<"deployment", z>>] # None
        /\ db'[<<"assignment", a>>] # None /\ db'[<<"assignment", a>>].course = n
        /\ db'[<<"assignment", a>>].kind = "external_lti"
        /\ db'[<<"link", l>>] # None /\ db'[<<"link", l>>].deployment = z
        /\ db'[<<"link", l>>].context = n
        /\ db'[<<"external", a>>] # None /\ db'[<<"external", a>>].link = l
        /\ SameBut(db, db', "assignment", a) /\ SameBut(db, db', "external", a)
        /\ SameBut(db, db', "link", l)
        /\ SameRows(db, db', "course") /\ SameRows(db, db', "context")
        /\ SameRows(db, db', "deployment")
    BY <1>6, <2>1, CommittedExternal
  <2>3. Whole(db')
    BY <1>2, <2>2, ExternalAdded
  <2>4. Due(grades, db')
    <3>1. /\ \A i \in Ids : db[<<"assignment", i>>] # None =>
                    db'[<<"assignment", i>>] = db[<<"assignment", i>>]
          /\ \A i \in Ids : db[<<"course", i>>] # None =>
                    db'[<<"course", i>>] = db[<<"course", i>>]
      BY <2>2 DEF SameBut, SameRows
    <3> QED  BY <1>2, <3>1, GradesStayDue
  <2>5. \A i \in Ids :
          /\ db[<<"assignment", i>>] # None => db'[<<"assignment", i>>] # None
          /\ db[<<"course", i>>] # None => db'[<<"course", i>>] # None
          /\ db[<<"deployment", i>>] # None /\ Locked(<<"deployment", i>>)
                => db'[<<"deployment", i>>] # None
    BY <2>2, ZenonT(40) DEF SameBut, SameRows
  <2>6. Due(grades', db')
    BY <2>4
  <2> QED  BY <1>3, <1>4, <2>3, <2>5, <2>6, Answers
<1> QED  BY <1>1, <1>5, <1>6

LEMMA DeployedRows ==
    ASSUME CourseworkInv, NEW r \in Requests, Deploy(r), ~Abort(r, "failed")
    PROVE  \E z \in Ids :
             /\ req' = [req EXCEPT ![r] = Ended("ok")] /\ UNCHANGED <<writes, grades>>
             /\ req[r].job.tool \in Tools /\ req[r].pc = "deploy"
             /\ db[<<"deployment", z>>] = None /\ db'[<<"deployment", z>>] # None
             /\ db'[<<"deployment", z>>] = [tool |-> req[r].job.tool]
             /\ \A k \in Keys : k # <<"deployment", z>> => db'[k] = db[k]
             /\ Typed(db')
<1>0. req[r].pc = "deploy"
  BY DEF Deploy
<1>1. req[r].job.tool \in Tools
  BY <1>0, Active DEF Answered, Job
<1> DEFINE row == [tool |-> req[r].job.tool]
<1>2. PICK z \in FreshId("deployment") :
        Write(r, "deployment", Only(<<"deployment", z>>, row), Ended("ok"))
  BY DEF Deploy
<1>3. z \in Ids /\ <<"deployment", z>> \in Keys /\ db[<<"deployment", z>>] = None
  BY FreshIds DEF Tables
<1>4. ~InTx(r, "deployment")
  BY DEF InTx, JoinsTransaction
<1>5. PICK rows : rows = Only(<<"deployment", z>>, row)
  OBVIOUS
<1>6. /\ req' = [req EXCEPT ![r] = Ended("ok")] /\ UNCHANGED <<writes, grades>>
      /\ db' = Over(rows, db)
  BY <1>2, <1>4, <1>5 DEF Write
<1>7. row # None /\ row \in Row("deployment")
  BY <1>1, RowsFit DEF Tables
<1> HIDE DEF row
<1>8. \A k \in Keys : rows[k] = IF k = <<"deployment", z>> THEN row ELSE None
  BY <1>5 DEF Only
<1>9. /\ db'[<<"deployment", z>>] = row
      /\ \A k \in Keys : k # <<"deployment", z>> => db'[k] = db[k]
  BY <1>3, <1>6, <1>7, <1>8 DEF Over
<1>10. Typed(db')
  <2>1. \A k \in Keys : db[k] \in Row(k[1]) \cup {None}
    BY DEF CourseworkInv, Typed
  <2>2. \A k \in Keys : db'[k] \in Row(k[1]) \cup {None}
    BY <1>7, <1>9, <2>1
  <2>3. db' = [k \in Keys |-> db'[k]]
    BY <1>6 DEF Over
  <2> QED  BY <2>2, <2>3 DEF Typed
<1> QED  BY <1>0, <1>1, <1>3, <1>6, <1>7, <1>9, <1>10 DEF row

LEMMA DeployStep ==
    ASSUME CourseworkInv, NEW r \in Requests, Deploy(r)
    PROVE  CourseworkInv'
<1>1. CASE Abort(r, "failed")
  BY <1>1, Ends DEF Answered
<1>2. CASE ~Abort(r, "failed")
  <2>1. PICK z \in Ids :
             /\ req' = [req EXCEPT ![r] = Ended("ok")] /\ UNCHANGED <<writes, grades>>
             /\ req[r].pc = "deploy"
             /\ db[<<"deployment", z>>] = None /\ db'[<<"deployment", z>>] # None
             /\ \A k \in Keys : k # <<"deployment", z>> => db'[k] = db[k]
             /\ Typed(db')
    BY <1>2, DeployedRows
  <2>2. /\ SameRows(db, db', "assignment") /\ SameRows(db, db', "external")
        /\ SameRows(db, db', "link") /\ SameRows(db, db', "course")
        /\ SameRows(db, db', "context") /\ SameBut(db, db', "deployment", z)
    BY <2>1, KeysAre DEF SameRows, SameBut, Tables
  <2>3. Typed(db) /\ Whole(db) /\ Due(grades, db) /\ AssignmentsWhole(db)
    BY DEF CourseworkInv, Whole
  <2>4. \A m, p \in Ids : db[<<"link", m>>] # None /\ db[<<"link", m>>].deployment = p
                          /\ db[<<"deployment", p>>] # None
               => db'[<<"deployment", p>>] # None
    BY <2>1, <2>2 DEF SameBut
  <2>5. Whole(db')
    BY <2>2, <2>3, <2>4, DeploymentsChange
  <2>6. Due(grades', db')
    <3>1. /\ \A i \in Ids : db[<<"assignment", i>>] # None =>
                    db'[<<"assignment", i>>] = db[<<"assignment", i>>]
          /\ \A i \in Ids : db[<<"course", i>>] # None =>
                    db'[<<"course", i>>] = db[<<"course", i>>]
      BY <2>2 DEF SameRows
    <3>2. Due(grades, db')
      BY <2>3, <3>1, GradesStayDue
    <3> QED  BY <2>1, <3>2
  <2>7. \A i \in Ids :
          /\ db[<<"assignment", i>>] # None => db'[<<"assignment", i>>] # None
          /\ db[<<"course", i>>] # None => db'[<<"course", i>>] # None
          /\ db[<<"deployment", i>>] # None /\ Locked(<<"deployment", i>>)
                => db'[<<"deployment", i>>] # None
    BY <2>1, <2>2 DEF SameRows, SameBut
  <2>8. \A k \in Keys, s \in Requests \ {r} : PendingRow(req[s], k) # None => db'[k] = None
    <3>1. \A s \in Requests : PendingRow(req[s], <<"deployment", z>>) = None
      BY DEF PendingRow
    <3> QED  BY <2>1, <3>1 DEF CourseworkInv, FreshInv
  <2>9. writes' = [writes EXCEPT ![r] = NoWrites]
    <3>1. writes[r] = NoWrites
      BY <2>1 DEF CourseworkInv, Pending, PendingRow, NoWrites, Phases, RequestsInv, RequestOK,
                  Answered
    <3> QED  BY <2>1, <3>1 DEF CourseworkInv
  <2> QED  BY <2>1, <2>5, <2>6, <2>7, <2>8, <2>9, Answers DEF Answered
<1> QED  BY <1>1, <1>2

LEMMA DeletedRows ==
    ASSUME CourseworkInv, NEW r \in Requests, Delete(r), ~Abort(r, "failed")
    PROVE  /\ req' = [req EXCEPT ![r] = Ended("ok")] /\ UNCHANGED <<writes, grades>>
           /\ req[r].pc = "lock" /\ req[r].job.id \in Ids
           /\ Typed(db')
           /\ SameRows(db, db', "assignment") /\ SameRows(db, db', "external")
           /\ SameRows(db, db', "link") /\ SameRows(db, db', "course")
           /\ SameRows(db, db', "context")
           /\ \A p \in Ids : db'[<<"deployment", p>>] =
                IF <<"deployment", p>> \in Cascade(r) THEN None ELSE db[<<"deployment", p>>]
           /\ \A p \in Ids : <<"deployment", p>> \in Cascade(r) =>
                p = req[r].job.id
                /\ \A m \in Ids : db[<<"link", m>>] # None => db[<<"link", m>>].deployment # p
           /\ \A k \in Cascade(r) : ~Locked(k)
<1>0. /\ req[r].pc = "lock" /\ \A k \in Cascade(r) : ~Locked(k)
      /\ Restricting(Cascade(r)) = {}
      /\ db' = [k \in Keys |-> IF k \in Cascade(r) THEN None ELSE db[k]]
      /\ req' = [req EXCEPT ![r] = Ended("ok")] /\ UNCHANGED <<grades, writes>>
  BY DEF Delete
<1>1. req[r].job \in Job /\ req[r].job.id \in Ids
      /\ Typed(db) /\ Whole(db)
  BY <1>0, Active DEF Answered, CourseworkInv
<1>2. \A k \in Cascade(r) : k \in Keys /\ k[1] \in {"deployment", "link"}
  BY <1>1, KeysAre DEF Cascade, Tables
<1>3. \A t \in {"course", "context", "assignment", "external"}, i \in Ids :
        <<t, i>> \in Keys /\ db'[<<t, i>>] = db[<<t, i>>]
  <2> SUFFICES ASSUME NEW t \in {"course", "context", "assignment", "external"}, NEW i \in Ids
               PROVE  <<t, i>> \in Keys /\ db'[<<t, i>>] = db[<<t, i>>]
    OBVIOUS
  <2>1. <<t, i>> \in Keys /\ <<t, i>>[1] = t
    BY KeysAre DEF Tables
  <2>2. <<t, i>> \notin Cascade(r)
    BY <1>2, <2>1
  <2> QED  BY <1>0, <2>1, <2>2
<1>4. ASSUME NEW m \in Ids, <<"link", m>> \in Cascade(r)
      PROVE  db[<<"link", m>>] = None
  <2> SUFFICES ASSUME db[<<"link", m>>] # None PROVE FALSE
    OBVIOUS
  <2>1. PICK a \in Ids : db[<<"external", a>>] # None /\ db[<<"external", a>>].link = m
    BY <1>1 DEF Whole, LinksWhole
  <2> DEFINE x == <<"external", a>>
  <2>2. x \in Keys /\ x[1] = "external"
    BY <1>3
  <2>3. <<"link", m>> \in References(x, db[x])
    BY <2>1, <2>2 DEF References
  <2>4. x \in Restricting(Cascade(r))
    BY <1>4, <2>1, <2>2, <2>3 DEF Restricting
  <2> QED  BY <1>0, <2>4
<1>5. \A m \in Ids : db'[<<"link", m>>] = db[<<"link", m>>]
  <2> SUFFICES ASSUME NEW m \in Ids PROVE db'[<<"link", m>>] = db[<<"link", m>>]
    OBVIOUS
  <2>1. <<"link", m>> \in Keys
    BY KeysAre DEF Tables
  <2> QED  BY <1>0, <1>4, <2>1
<1>6. \A p \in Ids : db'[<<"deployment", p>>] =
                IF <<"deployment", p>> \in Cascade(r) THEN None ELSE db[<<"deployment", p>>]
  BY <1>0, KeysAre DEF Tables
<1>7. ASSUME NEW p \in Ids, <<"deployment", p>> \in Cascade(r)
      PROVE  p = req[r].job.id
             /\ \A m \in Ids : db[<<"link", m>>] # None => db[<<"link", m>>].deployment # p
  <2>1. req[r].job.kind # "unlink"
    BY <1>7 DEF Cascade
  <2> DEFINE d == <<"deployment", req[r].job.id>>
  <2>2. Cascade(r) = {d} \cup {k \in Keys : k[1] = "link" /\ db[k] # None /\ d \in References(k, db[k])}
    BY <2>1 DEF Cascade
  <2>3. p = req[r].job.id
    BY <1>7, <2>2
  <2>4. ASSUME NEW m \in Ids, db[<<"link", m>>] # None, db[<<"link", m>>].deployment = p
        PROVE  FALSE
    <3> DEFINE k == <<"link", m>>
    <3>1. k \in Keys /\ k[1] = "link"
      BY KeysAre DEF Tables
    <3>2. d \in References(k, db[k])
      BY <2>3, <2>4, <3>1 DEF References
    <3>3. k \in Cascade(r)
      BY <2>2, <2>4, <3>1, <3>2
    <3> QED  BY <1>4, <2>4, <3>3
  <2> QED  BY <2>3, <2>4
<1>8. Typed(db')
  <2>1. \A k \in Keys : db'[k] \in Row(k[1]) \cup {None}
    BY <1>0, <1>1 DEF Typed
  <2> QED  BY <1>0, <2>1 DEF Typed
<1>9. /\ SameRows(db, db', "assignment") /\ SameRows(db, db', "external")
      /\ SameRows(db, db', "link") /\ SameRows(db, db', "course")
      /\ SameRows(db, db', "context")
  BY <1>3, <1>5 DEF SameRows
<1> QED  BY <1>0, <1>1, <1>6, <1>7, <1>8, <1>9

LEMMA DeleteStep ==
    ASSUME CourseworkInv, NEW r \in Requests, Delete(r)
    PROVE  CourseworkInv'
<1>1. CASE Abort(r, "failed")
  BY <1>1, Ends DEF Answered
<1>2. CASE ~Abort(r, "failed")
  <2>1. /\ req' = [req EXCEPT ![r] = Ended("ok")] /\ UNCHANGED <<writes, grades>>
        /\ req[r].pc = "lock" /\ Typed(db')
        /\ SameRows(db, db', "assignment") /\ SameRows(db, db', "external")
        /\ SameRows(db, db', "link") /\ SameRows(db, db', "course")
        /\ SameRows(db, db', "context")
        /\ \A p \in Ids : db'[<<"deployment", p>>] =
              IF <<"deployment", p>> \in Cascade(r) THEN None ELSE db[<<"deployment", p>>]
        /\ \A p \in Ids : <<"deployment", p>> \in Cascade(r) =>
              \A m \in Ids : db[<<"link", m>>] # None => db[<<"link", m>>].deployment # p
        /\ \A k \in Cascade(r) : ~Locked(k)
    BY <1>2, DeletedRows
  <2>3. Typed(db) /\ Whole(db) /\ Due(grades, db) /\ AssignmentsWhole(db)
    BY DEF CourseworkInv, Whole
  <2>4. \A m, p \in Ids : db[<<"link", m>>] # None /\ db[<<"link", m>>].deployment = p
                          /\ db[<<"deployment", p>>] # None
               => db'[<<"deployment", p>>] # None
    BY <2>1
  <2>5. Whole(db')
    BY <2>1, <2>3, <2>4, DeploymentsChange
  <2>6. Due(grades', db')
    <3>1. /\ \A i \in Ids : db[<<"assignment", i>>] # None =>
                    db'[<<"assignment", i>>] = db[<<"assignment", i>>]
          /\ \A i \in Ids : db[<<"course", i>>] # None =>
                    db'[<<"course", i>>] = db[<<"course", i>>]
      BY <2>1 DEF SameRows
    <3>2. Due(grades, db')
      BY <2>3, <3>1, GradesStayDue
    <3> QED  BY <2>1, <3>2
  <2>7. \A i \in Ids :
          /\ db[<<"assignment", i>>] # None => db'[<<"assignment", i>>] # None
          /\ db[<<"course", i>>] # None => db'[<<"course", i>>] # None
          /\ db[<<"deployment", i>>] # None /\ Locked(<<"deployment", i>>)
                => db'[<<"deployment", i>>] # None
    BY <2>1 DEF SameRows
  <2>8. \A k \in Keys, s \in Requests \ {r} : PendingRow(req[s], k) # None => db'[k] = None
    <3> SUFFICES ASSUME NEW k \in Keys, NEW s \in Requests \ {r}, PendingRow(req[s], k) # None
                 PROVE  db'[k] = None
      OBVIOUS
    <3>1. db[k] = None
      BY DEF CourseworkInv, FreshInv
    <3>2. PICK t \in Tables, i \in Ids : k = <<t, i>>
      BY KeysAre
    <3> QED  BY <2>1, <3>1, <3>2 DEF SameRows, Tables
  <2>9. writes' = [writes EXCEPT ![r] = NoWrites]
    <3>1. \A k \in Keys : PendingRow(req[r], k) = None
      BY <2>1 DEF PendingRow
    <3>2. writes[r] = NoWrites
      BY <3>1 DEF CourseworkInv, Pending, NoWrites
    <3> QED  BY <2>1, <3>2 DEF CourseworkInv
  <2> QED  BY <2>1, <2>5, <2>6, <2>7, <2>8, <2>9, Answers DEF Answered
<1> QED  BY <1>1, <1>2

LEMMA GradeStep ==
    ASSUME CourseworkInv, NEW r \in Requests, SaveGrade(r)
    PROVE  CourseworkInv'
<1>0. req[r].pc = "grade"
  BY DEF SaveGrade
<1>1. CASE Abort(r, "failed") \/ Abort(r, "refused")
  BY <1>1, Ends, SMTT(40) DEF Answered
<1>2. CASE ~Abort(r, "failed") /\ ~Abort(r, "refused")
  <2> DEFINE job == req[r].job
             asg == db[<<"assignment", job.id>>]
             grade == [student |-> job.student, assignment |-> job.id, course |-> asg.course,
                       score |-> job.score, max |-> asg.max, by |-> job.user]
  <2>1. /\ InstructorIsAuthorized(job.user, CourseOf(r)) /\ CheckScore(job.score, asg.max)
        /\ ~ \E g \in grades : g.student = job.student /\ g.assignment = job.id
        /\ <<job.student, asg.course>> \in Enrolled
        /\ grades' = grades \cup {grade}
        /\ req' = [req EXCEPT ![r] = Ended("ok")] /\ UNCHANGED <<db, writes>>
    BY <1>2 DEF SaveGrade
  <2>2. /\ job \in Job /\ job.id \in Ids /\ job.kind = "grade" /\ req[r].pc \in Phases(job.kind)
        /\ RequestOK(req[r]) /\ Sees(req[r], db)
    <3>1. job \in Job /\ req[r].pc \in Phases(job.kind) /\ job.id \in Ids
          /\ RequestOK(req[r]) /\ Sees(req[r], db)
      BY <1>0, Active DEF Answered
    <3>2. job.kind = "grade"
      BY <1>0, <3>1, KindsAre DEF Phases
    <3> QED  BY <3>1, <3>2
  <2>3. asg # None
    BY <1>0, <2>2 DEF RequestOK, Sees, Answered
  <2>4. Typed(db) /\ Whole(db) /\ Due(grades, db)
    BY DEF CourseworkInv
  <2>5. asg.course \in Ids /\ asg.max \in Int
    <3>1. asg \in [course : Ids, kind : {"local", "external_lti"}, max : Int]
      BY <2>2, <2>3, <2>4, RowsAre
    <3> QED  BY <3>1
  <2>6. CourseOf(r) = asg.course
    BY <2>2 DEF CourseOf
  <2>7. job.score \in Int /\ job.student \in People /\ job.user \in People
    BY <2>2 DEF Job
  <2>8. grade \in Grade
    BY <2>2, <2>5, <2>7 DEF Grade
  <2>9. job.user = db[<<"course", asg.course>>].instructor
    BY <2>1, <2>6 DEF InstructorIsAuthorized
  <2>10. job.score >= 0 /\ job.score <= asg.max
    BY <2>1 DEF CheckScore
  <2>11. PICK g0 : g0 = grade
    OBVIOUS
  <2>12. /\ g0 \in Grade /\ g0.student = job.student /\ g0.assignment = job.id
         /\ g0.course = asg.course /\ g0.score = job.score /\ g0.max = asg.max
         /\ g0.by = job.user
    BY <2>8, <2>11
  <2>13. grades' = grades \cup {g0}
    BY <2>1, <2>11
  <2>14. Due(grades \cup {g0}, db)
    <3> SUFFICES ASSUME NEW g \in grades \cup {g0}
                 PROVE  /\ g \in Grade /\ db[<<"assignment", g.assignment>>] # None
                        /\ g.course = db[<<"assignment", g.assignment>>].course
                        /\ g.max = db[<<"assignment", g.assignment>>].max
                        /\ g.score >= 0 /\ g.score <= g.max
                        /\ <<g.student, g.course>> \in Enrolled
                        /\ g.by = db[<<"course", g.course>>].instructor
                        /\ \A h \in grades \cup {g0} :
                            h.student = g.student /\ h.assignment = g.assignment => h = g
      BY ZenonT(40) DEF Due
    <3>1. CASE g = g0
      BY <2>1, <2>3, <2>9, <2>10, <2>12, <3>1, ZenonT(40)
    <3>2. CASE g \in grades /\ g # g0
      <4>1. ~(g0.student = g.student /\ g0.assignment = g.assignment)
        BY <2>1, <2>12, <3>2, SMTT(40)
      <4> QED  BY <2>4, <3>2, <4>1 DEF Due
    <3> QED  BY <3>1, <3>2
  <2>15. Due(grades', db')
    BY <2>1, <2>13, <2>14
  <2>16. \A k \in Keys : PendingRow(req[r], k) = None
    BY <1>0 DEF PendingRow
  <2>17. writes' = [writes EXCEPT ![r] = NoWrites]
    <3>1. writes[r] = NoWrites
      BY <2>16 DEF CourseworkInv, Pending, NoWrites
    <3> QED  BY <2>1, <3>1 DEF CourseworkInv
  <2>18. Typed(db') /\ Whole(db')
    BY <2>1, <2>4
  <2>19. \A k \in Keys, s \in Requests \ {r} : PendingRow(req[s], k) # None => db'[k] = None
    BY <2>1 DEF CourseworkInv, FreshInv
  <2> QED  BY <2>1, <2>15, <2>17, <2>18, <2>19, Answers DEF Answered
<1> QED  BY <1>1, <1>2

-----------------------------------------------------------------------------
(***************************************************************************)
(* The inductive invariant.                                                *)
(***************************************************************************)
LEMMA CourseworkInit == Init => CourseworkInv
<1> SUFFICES ASSUME Init PROVE CourseworkInv
  OBVIOUS
<1>1. Fresh \in Request /\ Fresh.pc = "idle"
  BY DEF Fresh, Request
<1>2. \A r \in Requests : req[r] = Fresh
  BY DEF Init
<1>3. req \in [Requests -> Request]
  BY <1>1 DEF Init
<1>4. \A k \in Keys : PendingRow(Fresh, k) = None
  BY <1>1 DEF PendingRow, Answered
<1>5. Pending(Fresh) = NoWrites
  BY <1>4 DEF Pending, NoWrites
<1>6. writes = [r \in Requests |-> Pending(req[r])]
  BY <1>2, <1>5 DEF Init
<1>7. RequestOK(Fresh) /\ Sees(Fresh, db)
  BY <1>1 DEF RequestOK, Sees, Answered
<1>8. RequestsInv /\ FreshInv
  BY <1>2, <1>4, <1>7 DEF RequestsInv, FreshInv
<1>9. \A t \in Tables, i \in Ids : db[<<t, i>>] = None
  BY KeysAre DEF Init
<1>10. Typed(db)
  BY DEF Init, Typed
<1>11. Whole(db)
  BY <1>9 DEF Whole, ContextsWhole, AssignmentsWhole, KindsWhole, ExternalWhole, LinksWhole,
              Tables
<1>12. Due(grades, db)
  BY DEF Init, Due
<1> QED  BY <1>3, <1>6, <1>8, <1>10, <1>11, <1>12 DEF CourseworkInv

LEMMA CourseworkStep == CourseworkInv /\ [Next]_vars => CourseworkInv'
<1> SUFFICES ASSUME CourseworkInv, [Next]_vars PROVE CourseworkInv'
  OBVIOUS
<1>1. CASE UNCHANGED vars
  <2>1. db' = db /\ grades' = grades /\ req' = req /\ writes' = writes
    BY <1>1 DEF vars
  <2> QED  BY <2>1 DEF CourseworkInv, RequestsInv, FreshInv
<1>2. ASSUME NEW r \in Requests, Receive(r) PROVE CourseworkInv'
  BY <1>2, ReceiveStep
<1>3. ASSUME NEW r \in Requests, Step(r) PROVE CourseworkInv'
  <2>1. CASE Commit(r)
    BY <2>1, CommitStep DEF Commit, Answered
  <2>2. CASE Show(r)
    <3>1. CASE Abort(r, "refused")
      BY <3>1, Ends DEF Answered
    <3>2. CASE ~Abort(r, "refused")
      <4>1. Advance(r, Ended("ok")) /\ req[r].pc = "show"
        BY <2>2, <3>2 DEF Show
      <4>2. \A k \in Keys : PendingRow(req[r], k) = None
        BY <4>1 DEF PendingRow
      <4>3. writes[r] = NoWrites
        BY <4>2 DEF CourseworkInv, Pending, NoWrites
      <4>4. Abort(r, "ok")
        BY <4>1, <4>3 DEF Abort, Advance, CourseworkInv
      <4> QED  BY <4>4, Ends DEF Answered
    <3> QED  BY <3>1, <3>2
  <2> QED  BY <1>3, <2>1, <2>2, LookupStep, GatherStep, GatheredStep, SaveCourseStep,
              SaveContextStep, SaveAssignmentStep, SaveLinkStep, MakeExternalStep, GradeStep,
              DeployStep, DeleteStep DEF Step
<1>4. ASSUME NEW r \in Requests, StoreFails(r) PROVE CourseworkInv'
  <2>1. CASE Abort(r, "failed")
    BY <2>1, Ends DEF Answered
  <2>2. CASE ~Abort(r, "failed")
    BY <1>4, <2>2, CommitStep DEF StoreFails, Answered
  <2> QED  BY <2>1, <2>2
<1> QED  BY <1>1, <1>2, <1>3, <1>4 DEF Next

LEMMA CourseworkInvariant == Spec => []CourseworkInv
BY CourseworkInit, CourseworkStep, PTL DEF Spec

-----------------------------------------------------------------------------
(***************************************************************************)
(* The theorems.                                                           *)
(***************************************************************************)
\* Rows, grades and requests have their types, and only a transaction has uncommitted rows.
THEOREM CourseworkTypes == Spec => []TypeOK
<1>1. CourseworkInv /\ poolSize \in PoolSizes => TypeOK
  <2> SUFFICES ASSUME CourseworkInv, poolSize \in PoolSizes PROVE TypeOK
    OBVIOUS
  <2>1. DOMAIN db = Keys /\ \A k \in Keys : db[k] \in Row(k[1]) \cup {None}
    BY DEF CourseworkInv, Typed
  <2>2. grades \subseteq Grade
    BY DEF CourseworkInv, Due
  <2>3. ASSUME NEW r \in Requests
        PROVE  /\ DOMAIN writes[r] = Keys
               /\ \A k \in Keys : writes[r][k] \in Row(k[1]) \cup {None}
               /\ writes[r] # NoWrites => req[r].tx
    <3>1. writes[r] = Pending(req[r]) /\ req[r] \in Request /\ RequestOK(req[r])
      BY DEF CourseworkInv, RequestsInv
    <3>2. \A k \in Keys : writes[r][k] \in Row(k[1]) \cup {None}
      BY <3>1, PendingTyped DEF Pending
    <3>3. ASSUME ~req[r].tx PROVE writes[r] = NoWrites
      <4>1. \A k \in Keys : PendingRow(req[r], k) = None
        BY <3>1, <3>3 DEF RequestOK, PendingRow
      <4> QED  BY <3>1, <4>1 DEF Pending, NoWrites
    <3> QED  BY <3>1, <3>2, <3>3 DEF Pending
  <2> QED  BY <2>1, <2>2, <2>3 DEF TypeOK, CourseworkInv
<1>2. Init => poolSize \in PoolSizes
  BY DEF Init
<1>3. poolSize \in PoolSizes /\ [Next]_vars => (poolSize \in PoolSizes)'
  BY DEF Next, vars
<1>4. Spec => [](poolSize \in PoolSizes)
  BY <1>2, <1>3, PTL DEF Spec
<1> QED  BY <1>1, <1>4, CourseworkInvariant, PTL

\* An assignment is external exactly if it has its row in lti_assignments, with its link, its
\* context and its deployment: persistAssignmentAndResourceLinkAtomically is atomic.
THEOREM ExternalAssignmentsHaveLinks == Spec => []ExternalHasLink
<1>1. CourseworkInv => ExternalHasLink
  <2> SUFFICES ASSUME CourseworkInv, NEW a \in Ids
               PROVE  /\ db[<<"external", a>>] # None =>
                            /\ db[<<"assignment", a>>] # None
                            /\ db[<<"assignment", a>>].kind = "external_lti"
                      /\ db[<<"assignment", a>>] # None
                         /\ db[<<"assignment", a>>].kind = "external_lti"
                            => db[<<"external", a>>] # None
                      /\ db[<<"external", a>>] # None =>
                            LET link == db[<<"link", db[<<"external", a>>].link>>]
                            IN  /\ link # None
                                /\ link.context = db[<<"assignment", a>>].course
                                /\ db[<<"context", db[<<"assignment", a>>].course>>] # None
                                /\ db[<<"deployment", link.deployment>>] # None
    BY DEF ExternalHasLink
  <2>1. Whole(db) /\ Typed(db)
    BY DEF CourseworkInv
  <2>2. /\ db[<<"external", a>>] # None => /\ db[<<"assignment", a>>] # None
                                           /\ db[<<"assignment", a>>].kind = "external_lti"
        /\ db[<<"assignment", a>>] # None /\ db[<<"assignment", a>>].kind = "external_lti"
            => db[<<"external", a>>] # None
    BY <2>1 DEF Whole, KindsWhole
  <2>3. ASSUME db[<<"external", a>>] # None
        PROVE  LET link == db[<<"link", db[<<"external", a>>].link>>]
               IN  /\ link # None
                   /\ link.context = db[<<"assignment", a>>].course
                   /\ db[<<"context", db[<<"assignment", a>>].course>>] # None
                   /\ db[<<"deployment", link.deployment>>] # None
    <3>1. PICK l \in Ids, c \in Ids : l = db[<<"external", a>>].link
                                      /\ c = db[<<"assignment", a>>].course
      BY <2>1, <2>2, <2>3, RefersToIds
    <3>2. db[<<"link", l>>] # None /\ db[<<"link", l>>].context = c
      BY <2>1, <2>3, <3>1 DEF Whole, ExternalWhole
    <3>3. db[<<"deployment", db[<<"link", l>>].deployment>>] # None
      BY <2>1, <3>2 DEF Whole, LinksWhole
    <3>4. db[<<"context", c>>] # None
      <4>1. db[<<"course", c>>] # None
        BY <2>1, <2>2, <2>3, <3>1 DEF Whole, AssignmentsWhole
      <4> QED  BY <2>1, <4>1 DEF Whole, ContextsWhole
    <3> QED  BY <3>1, <3>2, <3>3, <3>4
  <2> QED  BY <2>2, <2>3
<1> QED  BY <1>1, CourseworkInvariant, PTL

\* A course is stored together with its context, or not at all.
THEOREM CoursesComeWithContexts == Spec => []CoursesHaveContexts
<1>1. CourseworkInv => CoursesHaveContexts
  <2> SUFFICES ASSUME CourseworkInv, NEW c \in Ids
               PROVE  /\ db[<<"course", c>>] # None => db[<<"context", c>>] # None
                      /\ db[<<"context", c>>] # None => db[<<"course", c>>] # None
    BY DEF CoursesHaveContexts
  <2> QED  BY DEF CourseworkInv, Whole, ContextsWhole
<1> QED  BY <1>1, CourseworkInvariant, PTL

\* No link is left of an assignment whose creation failed, whichever statement failed.
THEOREM LinksBelong == Spec => []NoStrayLinks
<1>1. CourseworkInv => NoStrayLinks
  <2> SUFFICES ASSUME CourseworkInv, NEW l \in Ids, db[<<"link", l>>] # None
               PROVE  \E a \in Ids : db[<<"external", a>>] # None
                                     /\ db[<<"external", a>>].link = l
    BY DEF NoStrayLinks
  <2> QED  BY DEF CourseworkInv, Whole, LinksWhole
<1> QED  BY <1>1, CourseworkInvariant, PTL

\* Every grade was due when it was given and still is: the assignment it is for, its maximum
\* and the instructor of its course never change.
THEOREM GradesStayValid == Spec => []GradesAreDue
<1>1. CourseworkInv => GradesAreDue
  <2> SUFFICES ASSUME CourseworkInv, NEW g \in grades
               PROVE  LET asg == db[<<"assignment", g.assignment>>]
                      IN  /\ g.course = asg.course /\ g.max = asg.max /\ g.score \in 0..asg.max
                          /\ <<g.student, g.course>> \in Enrolled
                          /\ g.by = db[<<"course", g.course>>].instructor
                          /\ \A h \in grades :
                              h.student = g.student /\ h.assignment = g.assignment => h = g
    BY DEF GradesAreDue
  <2>1. g \in Grade /\ g.score \in Int /\ g.max \in Int
    BY DEF CourseworkInv, Due, Grade
  <2> QED  BY <2>1 DEF CourseworkInv, Due
<1> QED  BY <1>1, CourseworkInvariant, PTL

-----------------------------------------------------------------------------
(***************************************************************************)
(* What is committed implements CourseBook.                                *)
(***************************************************************************)
BookVars == <<Courses, Work, Deployed>>

LEMMA OneEntryChanges ==
    ASSUME NEW f, NEW g, NEW k \in Ids, NEW v,
           f = [x \in Ids |-> f[x]], g = [x \in Ids |-> g[x]],
           g[k] = v, \A x \in Ids : x # k => g[x] = f[x]
    PROVE  g = [f EXCEPT ![k] = v]
OBVIOUS

\* the book's parts are functions over the ids, before and after a step
LEMMA BookMaps ==
    /\ Courses = [x \in Ids |-> Courses[x]] /\ Courses' = [x \in Ids |-> Courses'[x]]
    /\ Work = [x \in Ids |-> Work[x]] /\ Work' = [x \in Ids |-> Work'[x]]
    /\ Deployed = [x \in Ids |-> Deployed[x]] /\ Deployed' = [x \in Ids |-> Deployed'[x]]
BY DEF Courses, Work, Deployed

\* An assignment whose row, tuple and link stay keeps its entry in the book.
LEMMA WorkStays ==
    ASSUME CourseworkInv, NEW a \in Ids,
           db'[<<"assignment", a>>] = db[<<"assignment", a>>],
           db'[<<"external", a>>] = db[<<"external", a>>],
           \A l \in Ids : db[<<"link", l>>] # None => db'[<<"link", l>>] = db[<<"link", l>>]
    PROVE  Work'[a] = Work[a]
<1>1. DeploymentOf(a)' = DeploymentOf(a)
  <2>1. CASE db[<<"external", a>>] = None
    BY <2>1 DEF DeploymentOf
  <2>2. CASE db[<<"external", a>>] # None
    <3>1. PICK l \in Ids : l = db[<<"external", a>>].link
      BY <2>2, RefersToIds DEF CourseworkInv
    <3>2. db[<<"link", l>>] # None
      BY <2>2, <3>1 DEF CourseworkInv, Whole, ExternalWhole
    <3>3. db'[<<"link", l>>] = db[<<"link", l>>]
      BY <3>2
    <3> QED  BY <2>2, <3>1, <3>2, <3>3 DEF DeploymentOf
  <2> QED  BY <2>1, <2>2
<1> QED  BY <1>1 DEF Work

LEMMA SameBook ==
    ASSUME CourseworkInv, db' = db
    PROVE  UNCHANGED BookVars
BY DEF BookVars, Courses, Work, Deployed, DeploymentOf

LEMMA CourseIsAdded ==
    ASSUME CourseworkInv, NEW r \in Requests, req[r].pc = "commit", req[r].job.kind = "course",
           db' = View(r)
    PROVE  \E c \in Ids, p \in Instructors : Book!AddCourse(c, p)
<1>1. PICK c, p : c = req[r].new /\ p = req[r].job.user
  OBVIOUS
<1>2. /\ c \in Ids /\ p \in Instructors /\ db[<<"course", c>>] = None
      /\ db'[<<"course", c>>] = [instructor |-> p] /\ db'[<<"course", c>>] # None
      /\ SameBut(db, db', "course", c)
      /\ SameRows(db, db', "assignment") /\ SameRows(db, db', "external")
      /\ SameRows(db, db', "link") /\ SameRows(db, db', "deployment")
  BY <1>1, CommittedCourse, ZenonT(40)
<1>3. Courses[c] = None
  BY <1>2 DEF Courses
<1>4. Courses' = [Courses EXCEPT ![c] = p]
  <2>1. Courses'[c] = p
    BY <1>2 DEF Courses
  <2>2. \A x \in Ids : x # c => Courses'[x] = Courses[x]
    BY <1>2 DEF Courses, SameBut
  <2> QED  BY <1>2, <2>1, <2>2, OneEntryChanges, BookMaps
<1>5. Work' = Work
  <2>1. \A a \in Ids : Work'[a] = Work[a]
    BY <1>2, WorkStays DEF SameRows
  <2> QED  BY <2>1 DEF Work
<1>6. Deployed' = Deployed
  BY <1>2 DEF Deployed, SameRows
<1> QED  BY <1>2, <1>3, <1>4, <1>5, <1>6 DEF Book!AddCourse

LEMMA ExternalIsAdded ==
    ASSUME CourseworkInv, NEW r \in Requests, req[r].pc = "commit",
           req[r].job.kind = "external", db' = View(r)
    PROVE  \E a \in Ids, n \in Ids, z \in Ids : Book!AddExternal(a, n, z)
<1>1. PICK a, l, z, n : a = req[r].new /\ l = req[r].link /\ z = req[r].dep
                        /\ n = req[r].job.id
  OBVIOUS
<1>2. /\ a \in Ids /\ l \in Ids /\ z \in Ids /\ n \in Ids
      /\ db[<<"assignment", a>>] = None /\ db[<<"link", l>>] = None
      /\ db[<<"course", n>>] # None /\ db[<<"deployment", z>>] # None
      /\ db'[<<"assignment", a>>] # None /\ db'[<<"assignment", a>>].course = n
      /\ db'[<<"link", l>>] # None /\ db'[<<"link", l>>].deployment = z
      /\ db'[<<"external", a>>] # None /\ db'[<<"external", a>>].link = l
      /\ SameBut(db, db', "assignment", a) /\ SameBut(db, db', "external", a)
      /\ SameBut(db, db', "link", l)
      /\ SameRows(db, db', "course") /\ SameRows(db, db', "deployment")
  BY <1>1, CommittedExternal
<1>3. Courses' = Courses /\ Deployed' = Deployed
  BY <1>2 DEF Courses, Deployed, SameRows
<1>4. Courses[n] # None /\ Deployed[z] # None
  <2>1. /\ db[<<"course", n>>] \in [instructor : People]
        /\ db[<<"deployment", z>>] \in [tool : Tools]
    BY <1>2, RowsAre DEF CourseworkInv
  <2>2. db[<<"course", n>>].instructor # None /\ db[<<"deployment", z>>].tool # None
    BY <2>1, CourseworkAssumption
  <2> QED  BY <1>2, <2>2 DEF Courses, Deployed
<1>5. Work[a] = None
  BY <1>2 DEF Work
<1>6. Work'[a] = [course |-> n, deployment |-> z]
  <2>1. DeploymentOf(a)' = z
    BY <1>2 DEF DeploymentOf
  <2> QED  BY <1>2, <2>1 DEF Work
<1>7. \A b \in Ids : b # a => Work'[b] = Work[b]
  <2> SUFFICES ASSUME NEW b \in Ids, b # a PROVE Work'[b] = Work[b]
    OBVIOUS
  <2>1. /\ db'[<<"assignment", b>>] = db[<<"assignment", b>>]
        /\ db'[<<"external", b>>] = db[<<"external", b>>]
        /\ \A m \in Ids : db[<<"link", m>>] # None => db'[<<"link", m>>] = db[<<"link", m>>]
    BY <1>2 DEF SameBut
  <2> QED  BY <2>1, WorkStays
<1>8. Work' = [Work EXCEPT ![a] = [course |-> n, deployment |-> z]]
  BY <1>2, <1>6, <1>7, OneEntryChanges, BookMaps
<1>9. Book!Assign(a, n, z)
  BY <1>3, <1>4, <1>5, <1>8 DEF Book!Assign
<1>10. Book!AddExternal(a, n, z)
  BY <1>4, <1>9 DEF Book!AddExternal
<1> QED  BY <1>2, <1>10

LEMMA LocalIsAdded ==
    ASSUME CourseworkInv, NEW r \in Requests, SaveAssignment(r)
    PROVE  (\E a, n \in Ids : Book!AddLocal(a, n)) \/ UNCHANGED BookVars
<1>1. CASE db' = db
  BY <1>1, SameBook
<1>2. CASE db' # db
  <2>1. ~Abort(r, "failed") /\ ~req[r].tx
    <3>1. req[r].tx => InTx(r, "assignment")
      BY DEF InTx, JoinsTransaction
    <3> QED  BY <1>2, <3>1 DEF SaveAssignment, Write, Abort
  <2>2. PICK a, n \in Ids :
             /\ db[<<"assignment", a>>] = None /\ db[<<"course", n>>] # None
             /\ db'[<<"assignment", a>>] # None /\ db'[<<"assignment", a>>].course = n
             /\ \A k \in Keys : k # <<"assignment", a>> => db'[k] = db[k]
    BY <2>1, AssignedRows
  <2>3. /\ SameBut(db, db', "assignment", a) /\ SameRows(db, db', "course")
        /\ SameRows(db, db', "external") /\ SameRows(db, db', "link")
        /\ SameRows(db, db', "deployment")
    BY <2>2, KeysAre DEF SameBut, SameRows, Tables
  <2>4. Courses' = Courses /\ Deployed' = Deployed
    BY <2>3 DEF Courses, Deployed, SameRows
  <2>5. Courses[n] # None
    <3>1. db[<<"course", n>>] \in [instructor : People]
      BY <2>2, RowsAre DEF CourseworkInv
    <3>2. db[<<"course", n>>].instructor # None
      BY <3>1, CourseworkAssumption
    <3> QED  BY <2>2, <3>2 DEF Courses
  <2>6. Work[a] = None
    BY <2>2 DEF Work
  <2>7. Work'[a] = [course |-> n, deployment |-> None]
    <3>1. db[<<"external", a>>] = None
      BY <2>2 DEF CourseworkInv, Whole, KindsWhole
    <3>2. DeploymentOf(a)' = None
      BY <2>3, <3>1 DEF DeploymentOf, SameRows
    <3> QED  BY <2>2, <3>2 DEF Work
  <2>8. \A b \in Ids : b # a => Work'[b] = Work[b]
    <3> SUFFICES ASSUME NEW b \in Ids, b # a PROVE Work'[b] = Work[b]
      OBVIOUS
    <3>1. /\ db'[<<"assignment", b>>] = db[<<"assignment", b>>]
          /\ db'[<<"external", b>>] = db[<<"external", b>>]
          /\ \A m \in Ids : db[<<"link", m>>] # None => db'[<<"link", m>>] = db[<<"link", m>>]
      BY <2>3 DEF SameBut, SameRows
    <3> QED  BY <3>1, WorkStays
  <2>9. Work' = [Work EXCEPT ![a] = [course |-> n, deployment |-> None]]
    BY <2>2, <2>7, <2>8, OneEntryChanges, BookMaps
  <2>10. Book!AddLocal(a, n)
    BY <2>4, <2>5, <2>6, <2>9 DEF Book!AddLocal, Book!Assign
  <2> QED  BY <2>2, <2>10
<1> QED  BY <1>1, <1>2

LEMMA IsDeployed ==
    ASSUME CourseworkInv, NEW r \in Requests, Deploy(r)
    PROVE  (\E z \in Ids, t \in Tools : Book!Deploy(z, t)) \/ UNCHANGED BookVars
<1>1. CASE Abort(r, "failed")
  BY <1>1, SameBook DEF Abort
<1>2. CASE ~Abort(r, "failed")
  <2>1. PICK z \in Ids :
             /\ req[r].job.tool \in Tools
             /\ db[<<"deployment", z>>] = None /\ db'[<<"deployment", z>>] # None
             /\ db'[<<"deployment", z>>] = [tool |-> req[r].job.tool]
             /\ \A k \in Keys : k # <<"deployment", z>> => db'[k] = db[k]
    BY <1>2, DeployedRows
  <2>2. PICK t \in Tools : t = req[r].job.tool
    BY <2>1
  <2>3. /\ SameRows(db, db', "assignment") /\ SameRows(db, db', "external")
        /\ SameRows(db, db', "link") /\ SameRows(db, db', "course")
        /\ SameBut(db, db', "deployment", z)
    BY <2>1, KeysAre DEF SameRows, SameBut, Tables
  <2>4. Courses' = Courses
    BY <2>3 DEF Courses, SameRows
  <2>5. Work' = Work
    <3>1. \A a \in Ids : Work'[a] = Work[a]
      BY <2>3, WorkStays DEF SameRows
    <3> QED  BY <3>1 DEF Work
  <2>6. Deployed[z] = None
    BY <2>1 DEF Deployed
  <2>7. Deployed'[z] = t
    BY <2>1, <2>2 DEF Deployed
  <2>8. \A x \in Ids : x # z => Deployed'[x] = Deployed[x]
    BY <2>3 DEF Deployed, SameBut
  <2>9. Deployed' = [Deployed EXCEPT ![z] = t]
    BY <2>7, <2>8, OneEntryChanges, BookMaps
  <2>10. Book!Deploy(z, t)
    BY <2>4, <2>5, <2>6, <2>9 DEF Book!Deploy
  <2> QED  BY <2>10
<1> QED  BY <1>1, <1>2

LEMMA IsUndeployed ==
    ASSUME CourseworkInv, NEW r \in Requests, Delete(r)
    PROVE  (\E z \in Ids : Book!Undeploy(z)) \/ UNCHANGED BookVars
<1>1. CASE Abort(r, "failed")
  BY <1>1, SameBook DEF Abort
<1>2. CASE ~Abort(r, "failed")
  <2> DEFINE z == req[r].job.id
  <2>1. /\ z \in Ids
        /\ SameRows(db, db', "assignment") /\ SameRows(db, db', "external")
        /\ SameRows(db, db', "link") /\ SameRows(db, db', "course")
        /\ \A p \in Ids : db'[<<"deployment", p>>] =
              IF <<"deployment", p>> \in Cascade(r) THEN None ELSE db[<<"deployment", p>>]
        /\ \A p \in Ids : <<"deployment", p>> \in Cascade(r) =>
              p = z /\ \A m \in Ids : db[<<"link", m>>] # None => db[<<"link", m>>].deployment # p
    BY <1>2, DeletedRows
  <2> HIDE DEF z
  <2>2. Courses' = Courses
    BY <2>1 DEF Courses, SameRows
  <2>3. Work' = Work
    <3>1. \A a \in Ids : Work'[a] = Work[a]
      BY <2>1, WorkStays DEF SameRows
    <3> QED  BY <3>1 DEF Work
  <2>4. \A x \in Ids : x # z => Deployed'[x] = Deployed[x]
    BY <2>1 DEF Deployed
  <2>5. CASE Deployed'[z] = Deployed[z]
    <3>1. \A x \in Ids : Deployed'[x] = Deployed[x]
      BY <2>4, <2>5
    <3>2. Deployed' = Deployed
      BY <3>1, BookMaps
    <3> QED  BY <2>2, <2>3, <3>2 DEF BookVars
  <2>6. CASE Deployed'[z] # Deployed[z]
    <3>1. <<"deployment", z>> \in Cascade(r) /\ db[<<"deployment", z>>] # None
          /\ db'[<<"deployment", z>>] = None
      BY <2>1, <2>6 DEF Deployed
    <3>2. Deployed'[z] = None /\ Deployed[z] # None
      BY <2>1, <2>6, <3>1 DEF Deployed
    <3>3. ASSUME NEW a \in Ids, Work[a] # None PROVE Work[a].deployment # z
      <4>1. Work[a].deployment = DeploymentOf(a)
        BY <3>3 DEF Work
      <4>2. z # None
        BY <2>1, CourseworkAssumption
      <4>3. CASE db[<<"external", a>>] = None
        BY <4>1, <4>2, <4>3 DEF DeploymentOf
      <4>4. CASE db[<<"external", a>>] # None
        <5>1. PICK l \in Ids : l = db[<<"external", a>>].link
          BY <4>4, RefersToIds DEF CourseworkInv
        <5>2. db[<<"link", l>>] # None
          BY <4>4, <5>1 DEF CourseworkInv, Whole, ExternalWhole
        <5>3. DeploymentOf(a) = db[<<"link", l>>].deployment
          BY <4>4, <5>1, <5>2 DEF DeploymentOf
        <5> QED  BY <2>1, <3>1, <4>1, <5>2, <5>3
      <4> QED  BY <4>3, <4>4
    <3>4. Deployed' = [Deployed EXCEPT ![z] = None]
      BY <2>1, <2>4, <3>2, OneEntryChanges, BookMaps
    <3>5. Book!Undeploy(z)
      BY <2>2, <2>3, <3>2, <3>3, <3>4 DEF Book!Undeploy
    <3> QED  BY <2>1, <3>5
  <2> QED  BY <2>5, <2>6
<1> QED  BY <1>1, <1>2

LEMMA BookInit == Init => Book!Init
<1> SUFFICES ASSUME Init PROVE Book!Init
  OBVIOUS
<1>1. \A t \in Tables, i \in Ids : db[<<t, i>>] = None
  BY KeysAre DEF Init
<1> QED  BY <1>1 DEF Book!Init, Courses, Work, Deployed, Tables

LEMMA BookStep == CourseworkInv /\ [Next]_vars => [Book!Next]_(Book!book)
<1> SUFFICES ASSUME CourseworkInv, [Next]_vars PROVE Book!Change \/ UNCHANGED BookVars
  BY DEF Book!Next, Book!book, BookVars
<1>1. CASE db' = db
  BY <1>1, SameBook
<1>2. CASE db' # db
  <2>1. PICK r \in Requests : Receive(r) \/ Step(r) \/ StoreFails(r)
    BY <1>2 DEF Next, vars
  <2>2. CASE SaveAssignment(r)
    <3>1. CASE \E a, n \in Ids : Book!AddLocal(a, n)
      BY <3>1 DEF Book!Change
    <3> QED  BY <2>2, <3>1, LocalIsAdded
  <2>3. CASE Deploy(r)
    <3>1. CASE \E z \in Ids, t \in Tools : Book!Deploy(z, t)
      BY <3>1 DEF Book!Change
    <3> QED  BY <2>3, <3>1, IsDeployed
  <2>4. CASE Delete(r)
    <3>1. CASE \E z \in Ids : Book!Undeploy(z)
      BY <3>1 DEF Book!Change
    <3> QED  BY <2>4, <3>1, IsUndeployed
  <2>5. CASE req[r].pc = "commit" /\ db' = View(r)
    <3>1. req[r].job.kind \in {"course", "external"}
      <4>1. req[r].job \in Job /\ req[r].pc \in Phases(req[r].job.kind)
        BY <2>5, Active DEF Answered
      <4> QED  BY <2>5, <4>1, KindsAre DEF Phases
    <3>2. CASE req[r].job.kind = "course"
      <4>1. \E c \in Ids, p \in Instructors : Book!AddCourse(c, p)
        BY <2>5, <3>2, CourseIsAdded
      <4> QED  BY <4>1 DEF Book!Change
    <3>3. CASE req[r].job.kind = "external"
      <4>1. \E a \in Ids, n \in Ids, z \in Ids : Book!AddExternal(a, n, z)
        BY <2>5, <3>3, ExternalIsAdded
      <4> QED  BY <4>1 DEF Book!Change
    <3> QED  BY <3>1, <3>2, <3>3
  <2>6. CASE StoreFails(r)
    BY <1>2, <2>5, <2>6 DEF StoreFails, Abort
  <2>7. ~Receive(r)
    BY <1>2 DEF Receive, Advance
  <2>8. CASE SaveCourse(r) \/ SaveContext(r) \/ SaveLink(r) \/ MakeAssignmentExternal(r)
    <3>1. req[r].tx
      <4>1. req[r].pc \in {"course", "context", "link", "external"}
        BY <2>8 DEF SaveCourse, SaveContext, SaveLink, MakeAssignmentExternal
      <4>2. RequestOK(req[r]) /\ req[r].job \in Job /\ req[r].pc \in Phases(req[r].job.kind)
        BY <4>1, Active DEF Answered
      <4>3. req[r].job.kind \in {"course", "external"}
        BY <4>1, <4>2, KindsAre DEF Phases
      <4> QED  BY <4>1, <4>2, <4>3 DEF RequestOK, Answered
    <3>2. \A t \in {"course", "context", "link", "external"} : InTx(r, t)
      BY <3>1 DEF InTx, JoinsTransaction
    <3> QED  BY <1>2, <2>8, <3>2
             DEF SaveCourse, SaveContext, SaveLink, MakeAssignmentExternal, Write, Abort
  <2>9. CASE FindCourseById(r) \/ FindToolDeployment(r) \/ FindContext(r) \/ Located(r)
             \/ Begin(r) \/ GatherInstructor(r) \/ GatherStudent(r) \/ GatherCourse(r)
             \/ GatherAssignment(r) \/ Gathered(r)
    BY <1>2, <2>9
       DEF FindCourseById, FindToolDeployment, FindContext, Located, Begin, GatherInstructor,
           GatherStudent, GatherCourse, GatherAssignment, Gathered, Advance, Abort
  <2>10. CASE SaveGrade(r) \/ SendDelete(r) \/ Show(r)
    BY <1>2, <2>10 DEF SaveGrade, SendDelete, Show, Advance, Abort
  <2>11. CASE Commit(r)
    BY <2>5, <2>11 DEF Commit
  <2> QED  BY <2>1, <2>2, <2>3, <2>4, <2>6, <2>7, <2>8, <2>9, <2>10, <2>11 DEF Step
<1> QED  BY <1>1, <1>2

\* What is committed changes as CourseBook promises: a course with its context, a local
\* assignment and an external one with its link and tuple come at once or not at all, an
\* external one only of a deployment that is there, and its deployment does not go before it.
THEOREM CourseworkImplementsBook == Spec => ImplementsBook
<1>1. Init => Book!Init
  BY BookInit
<1>2. CourseworkInv /\ [Next]_vars => [Book!Next]_(Book!book)
  BY BookStep
<1> QED  BY <1>1, <1>2, CourseworkInvariant, PTL DEF Spec, ImplementsBook, Book!Spec

-----------------------------------------------------------------------------
(***************************************************************************)
(* What everybody waits for: whoever holds the lock of a row is past its   *)
(* look-ups and goes on in its transaction, so what is left are the        *)
(* connections, and the transactions that hold them look people up.        *)
(***************************************************************************)
TransactionsInv ==
    \A r \in Requests :
        /\ req[r].pc \in Answered => ~req[r].tx
        /\ req[r].pc \in {"begin", "gather"} => req[r].todo \subseteq Gathers(req[r].job.kind)

\* what a request that moves still has to look up is of its job, or was there before
Follows(q, old) ==
    /\ q.pc \in Answered => ~q.tx
    /\ q.pc \in {"begin", "gather"} =>
        \/ q.todo \subseteq Gathers(q.job.kind)
        \/ old.pc \in {"begin", "gather"} /\ q.job = old.job /\ q.todo \subseteq old.todo

LEMMA EndedFollows ==
    ASSUME NEW old, NEW pc \in Answered
    PROVE  Follows(Ended(pc), old)
BY DEF Follows, Ended, Fresh, Answered

\* r moves to a request that follows the one it is
Moved(r) == \E q : req' = [req EXCEPT ![r] = q] /\ Follows(q, req[r])

LEMMA AdvanceFollows ==
    ASSUME NEW r, NEW q, Advance(r, q), Follows(q, req[r])
    PROVE  Moved(r)
BY DEF Advance, Moved

LEMMA AbortFollows ==
    ASSUME NEW r, NEW pc \in Answered, Abort(r, pc)
    PROVE  Moved(r)
<1>1. req' = [req EXCEPT ![r] = Ended(pc)]
  BY DEF Abort
<1> QED  BY <1>1, EndedFollows, Zenon DEF Moved

LEMMA WriteFollows ==
    ASSUME NEW r, NEW table, NEW rows, NEW to, Write(r, table, rows, to), Follows(to, req[r])
    PROVE  Moved(r)
<1>1. CASE Abort(r, "failed")
  BY <1>1, AbortFollows DEF Answered
<1>2. CASE ~Abort(r, "failed")
  <2>1. req' = [req EXCEPT ![r] = to]
    BY <1>2, ZenonT(40) DEF Write
  <2> QED  BY <2>1, Zenon DEF Moved
<1> QED  BY <1>1, <1>2

LEMMA StepsAreUnderWay ==
    ASSUME NEW r \in Requests, Step(r) \/ StoreFails(r)
    PROVE  req[r].pc \notin Answered
BY DEF Step, StoreFails, Answered, FindCourseById, FindToolDeployment, FindContext, Located,
       Begin, GatherInstructor, GatherStudent, GatherCourse, GatherAssignment, Gathered,
       SaveCourse, SaveContext, SaveAssignment, SaveLink, MakeAssignmentExternal, Commit,
       SaveGrade, Deploy, SendDelete, Delete, Show

LEMMA StepFollows ==
    ASSUME CourseworkInv, NEW r \in Requests, Step(r) \/ StoreFails(r)
    PROVE  Moved(r)
<1> DEFINE old == req[r]
<1>0. old \in Request
  BY DEF CourseworkInv
<1>1. old.pc \notin Answered
  BY StepsAreUnderWay
<1>2. \A pc \in {"refused", "failed"} : Abort(r, pc) => Moved(r)
  BY AbortFollows DEF Answered
<1>3. \A pc \in {"ok", "failed"} : req' = [req EXCEPT ![r] = Ended(pc)] => Moved(r)
  BY EndedFollows DEF Answered, Moved
<1>4. CASE FindCourseById(r)
  <2>1. Follows([old EXCEPT !.pc = "locate", !.todo = {"deployment", "context"}], old)
    BY <1>0, <1>1 DEF Follows, Request, Answered
  <2>2. Abort(r, "refused") \/ Advance(r, [old EXCEPT !.pc = "locate", !.todo = {"deployment", "context"}])
    BY <1>4, Zenon DEF FindCourseById
  <2> QED  BY <1>2, <2>1, <2>2, AdvanceFollows, Zenon
<1>5. CASE FindToolDeployment(r)
  <2>1. \A d : Follows([old EXCEPT !.todo = @ \ {"deployment"}, !.dep = d], old)
    BY <1>0, <1>1, <1>5 DEF Follows, Request, Answered, FindToolDeployment
  <2>2. PICK d : Advance(r, [old EXCEPT !.todo = @ \ {"deployment"}, !.dep = d])
    BY <1>5, Zenon DEF FindToolDeployment
  <2> QED  BY <2>1, <2>2, AdvanceFollows, Zenon
<1>6. CASE FindContext(r)
  <2>1. \A found : Follows([old EXCEPT !.todo = @ \ {"context"}, !.found = found], old)
    BY <1>0, <1>1, <1>6 DEF Follows, Request, Answered, FindContext
  <2>2. PICK found : Advance(r, [old EXCEPT !.todo = @ \ {"context"}, !.found = found])
    BY <1>6, Zenon DEF FindContext
  <2> QED  BY <2>1, <2>2, AdvanceFollows, Zenon
<1>7. CASE Located(r)
  <2>0. old.job.kind = "external"
    BY <1>1, <1>7, Active, KindsAre DEF Located, Phases
  <2>1. Follows([old EXCEPT !.pc = "begin", !.todo = Gathers("external")], old)
    BY <1>0, <2>0 DEF Follows, Request, Answered
  <2>2. Abort(r, "refused") \/ Advance(r, [old EXCEPT !.pc = "begin", !.todo = Gathers("external")])
    BY <1>7, Zenon DEF Located
  <2> QED  BY <1>2, <2>1, <2>2, AdvanceFollows, Zenon
<1>8. CASE Begin(r)
  <2>1. Follows([old EXCEPT !.pc = "gather", !.tx = TRUE], old)
    BY <1>0, <1>1, <1>8 DEF Follows, Request, Answered, Begin
  <2>2. Advance(r, [old EXCEPT !.pc = "gather", !.tx = TRUE])
    BY <1>8, Zenon DEF Begin
  <2> QED  BY <2>1, <2>2, AdvanceFollows, Zenon
<1>9. CASE GatherInstructor(r)
  <2>1. \A found : Follows([old EXCEPT !.todo = @ \ {"instructor"}, !.found = found], old)
    BY <1>0, <1>1, <1>9 DEF Follows, Request, Answered, GatherInstructor
  <2>2. PICK found : Advance(r, [old EXCEPT !.todo = @ \ {"instructor"}, !.found = found])
    BY <1>9, Zenon DEF GatherInstructor
  <2> QED  BY <2>1, <2>2, AdvanceFollows, Zenon
<1>10. CASE GatherStudent(r)
  <2>1. Follows([old EXCEPT !.todo = @ \ {"student"}], old)
    BY <1>0, <1>1, <1>10 DEF Follows, Request, Answered, GatherStudent
  <2>2. Advance(r, [old EXCEPT !.todo = @ \ {"student"}])
    BY <1>10, Zenon DEF GatherStudent
  <2> QED  BY <2>1, <2>2, AdvanceFollows, Zenon
<1>11. CASE GatherCourse(r)
  <2>1. \A found : Follows([old EXCEPT !.todo = @ \ {"course"}, !.found = found], old)
    BY <1>0, <1>1, <1>11 DEF Follows, Request, Answered, GatherCourse
  <2>2. PICK found : Advance(r, [old EXCEPT !.todo = @ \ {"course"}, !.found = found])
    BY <1>11, Zenon DEF GatherCourse
  <2> QED  BY <2>1, <2>2, AdvanceFollows, Zenon
<1>12. CASE GatherAssignment(r)
  <2>1. \A found : Follows([old EXCEPT !.todo = @ \ {"assignment"}, !.found = found], old)
    BY <1>0, <1>1, <1>12 DEF Follows, Request, Answered, GatherAssignment
  <2>2. PICK found : Advance(r, [old EXCEPT !.todo = @ \ {"assignment"}, !.found = found])
    BY <1>12, Zenon DEF GatherAssignment
  <2> QED  BY <2>1, <2>2, AdvanceFollows, Zenon
<1>13. CASE Gathered(r)
  <2>1. CASE Abort(r, "refused")
    BY <1>2, <2>1
  <2>2. CASE ~Abort(r, "refused")
    <3> DEFINE pc == CASE old.job.kind = "external" -> "assignment" [] OTHER -> old.job.kind
    <3>1. old.job.kind \in {"course", "assignment", "external", "grade"}
      BY <1>13, <2>2, Zenon DEF Gathered
    <3>2. pc \notin Answered \cup {"begin", "gather"}
      BY <3>1 DEF Answered
    <3>3. Advance(r, [old EXCEPT !.pc = pc])
      BY <1>13, <2>2, Zenon DEF Gathered
    <3> HIDE DEF pc
    <3>4. Follows([old EXCEPT !.pc = pc], old)
      BY <1>0, <3>2 DEF Follows, Request
    <3> QED  BY <3>3, <3>4, AdvanceFollows, Zenon
  <2> QED  BY <2>1, <2>2
<1>14. CASE SaveCourse(r)
  <2>1. \A c : Follows([old EXCEPT !.pc = "context", !.new = c], old)
    BY <1>0, <1>1 DEF Follows, Request, Answered
  <2>2. PICK rows, c : Write(r, "course", rows, [old EXCEPT !.pc = "context", !.new = c])
    BY <1>14, Zenon DEF SaveCourse
  <2> QED  BY <2>1, <2>2, WriteFollows, Zenon
<1>15. CASE SaveContext(r)
  <2>1. Follows([old EXCEPT !.pc = "commit"], old)
    BY <1>0, <1>1 DEF Follows, Request, Answered
  <2>2. PICK rows : Write(r, "context", rows, [old EXCEPT !.pc = "commit"])
    BY <1>15, Zenon DEF SaveContext
  <2> QED  BY <2>1, <2>2, WriteFollows, Zenon
<1>16. CASE SaveAssignment(r)
  <2>1. PICK rows, a : Write(r, "assignment", rows,
                             IF old.tx THEN [old EXCEPT !.pc = "link", !.new = a] ELSE Ended("ok"))
    BY <1>16, Zenon DEF SaveAssignment
  <2>2. Follows([old EXCEPT !.pc = "link", !.new = a], old)
    BY <1>0, <1>1 DEF Follows, Request, Answered
  <2>3. Follows(Ended("ok"), old)
    BY EndedFollows DEF Answered
  <2> QED  BY <2>1, <2>2, <2>3, WriteFollows, Zenon
<1>17. CASE SaveLink(r)
  <2>1. \A l : Follows([old EXCEPT !.pc = "external", !.link = l], old)
    BY <1>0, <1>1 DEF Follows, Request, Answered
  <2>2. PICK rows, l : Write(r, "link", rows, [old EXCEPT !.pc = "external", !.link = l])
    BY <1>17, Zenon DEF SaveLink
  <2> QED  BY <2>1, <2>2, WriteFollows, Zenon
<1>18. CASE MakeAssignmentExternal(r)
  <2>1. Follows([old EXCEPT !.pc = "commit"], old)
    BY <1>0, <1>1 DEF Follows, Request, Answered
  <2>2. PICK rows : Write(r, "external", rows, [old EXCEPT !.pc = "commit"])
    BY <1>18, Zenon DEF MakeAssignmentExternal
  <2> QED  BY <2>1, <2>2, WriteFollows, Zenon
<1>19. CASE Commit(r)
  BY <1>3, <1>19 DEF Commit
<1>20. CASE SaveGrade(r)
  <2>1. Abort(r, "refused") \/ Abort(r, "failed") \/ req' = [req EXCEPT ![r] = Ended("ok")]
    BY <1>20, Zenon DEF SaveGrade
  <2> QED  BY <1>2, <1>3, <2>1, Zenon
<1>21. CASE Deploy(r)
  <2>1. PICK rows : Write(r, "deployment", rows, Ended("ok"))
    BY <1>21, Zenon DEF Deploy
  <2>2. Follows(Ended("ok"), old)
    BY EndedFollows DEF Answered
  <2> QED  BY <2>1, <2>2, WriteFollows, Zenon
<1>22. CASE SendDelete(r)
  <2>1. Follows([old EXCEPT !.pc = "lock"], old)
    BY <1>0, <1>1 DEF Follows, Request, Answered
  <2>2. Advance(r, [old EXCEPT !.pc = "lock"])
    BY <1>22, Zenon DEF SendDelete
  <2> QED  BY <2>1, <2>2, AdvanceFollows, Zenon
<1>23. CASE Delete(r)
  <2>1. Abort(r, "failed") \/ req' = [req EXCEPT ![r] = Ended("ok")]
    BY <1>23, Zenon DEF Delete
  <2> QED  BY <1>2, <1>3, <2>1, Zenon
<1>24. CASE Show(r)
  <2>1. Abort(r, "refused") \/ req' = [req EXCEPT ![r] = Ended("ok")]
    BY <1>24, Zenon DEF Show, Advance
  <2> QED  BY <1>2, <1>3, <2>1, Zenon
<1>25. CASE StoreFails(r)
  <2>1. Abort(r, "failed") \/ req' = [req EXCEPT ![r] = Ended("failed")]
    BY <1>25, Zenon DEF StoreFails
  <2> QED  BY <1>2, <1>3, <2>1, Zenon
<1> QED
  BY <1>4, <1>5, <1>6, <1>7, <1>8, <1>9, <1>10, <1>11, <1>12, <1>13, <1>14, <1>15,
     <1>16, <1>17, <1>18, <1>19, <1>20, <1>21, <1>22, <1>23, <1>24, <1>25, Zenon DEF Step

LEMMA TransactionsStep ==
    CourseworkInv /\ TransactionsInv /\ [Next]_vars => TransactionsInv'
<1> SUFFICES ASSUME CourseworkInv, TransactionsInv, [Next]_vars PROVE TransactionsInv'
  OBVIOUS
<1>0. req \in [Requests -> Request]
  BY DEF CourseworkInv
<1>1. CASE UNCHANGED vars
  BY <1>1 DEF vars, TransactionsInv
<1>2. ASSUME NEW r \in Requests, Receive(r) PROVE TransactionsInv'
  <2>1. PICK job \in Jobs :
          req' = [req EXCEPT ![r] = [Fresh EXCEPT !.pc = FirstStep(job.kind), !.job = job,
                                                  !.todo = Gathers(job.kind)]]
    BY <1>2 DEF Receive, Advance
  <2>2. FirstStep(job.kind) \notin Answered
    BY KindsAre, CourseworkAssumption DEF Answered
  <2>3. req'[r].pc \notin Answered /\ req'[r].job = job /\ req'[r].todo = Gathers(job.kind)
    BY <1>0, <2>1, <2>2 DEF Fresh
  <2>4. \A s \in Requests \ {r} : req'[s] = req[s]
    BY <1>0, <2>1
  <2> QED  BY <2>3, <2>4 DEF TransactionsInv
<1>3. ASSUME NEW r \in Requests, Step(r) \/ StoreFails(r) PROVE TransactionsInv'
  <2>1. req[r].pc \notin Answered
    BY <1>3, StepsAreUnderWay
  <2>2. PICK q : req' = [req EXCEPT ![r] = q] /\ Follows(q, req[r])
    BY <1>3, StepFollows DEF Moved
  <2>3. req'[r] = q /\ \A s \in Requests \ {r} : req'[s] = req[s]
    BY <1>0, <2>2
  <2> QED  BY <2>1, <2>2, <2>3 DEF TransactionsInv, Follows
<1> QED  BY <1>1, <1>2, <1>3 DEF Next

LEMMA TransactionsInvariant == Spec => [](CourseworkInv /\ TransactionsInv)
<1>1. Init => TransactionsInv
  BY DEF Init, TransactionsInv, Fresh, Answered
<1> QED  BY <1>1, CourseworkInit, CourseworkStep, TransactionsStep, PTL DEF Spec

\* whoever has uncommitted rows writes the next one, or commits, in its transaction
LEMMA WritersGoOn ==
    ASSUME CourseworkInv, NEW r \in Requests, NEW k \in Keys, writes[r][k] # None
    PROVE  r \in UnderWay /\ ~Waits(r)
<1>1. PendingRow(req[r], k) # None
  BY DEF CourseworkInv, Pending
<1>2. /\ req[r].pc \notin Answered
      /\ req[r].job.kind \in {"course", "external"}
      /\ req[r].pc \in {"context", "link", "external", "commit"}
  BY <1>1 DEF PendingRow
<1>3. req[r].tx
  BY <1>2, Active DEF RequestOK
<1>4. ~NeedsConnection(r)
  BY <1>2, <1>3 DEF NeedsConnection, InTx, JoinsTransaction, Tables
<1> QED  BY <1>2, <1>4 DEF Waits, UnderWay

\* a transaction that waits for a connection is about to look the instructor up
LEMMA TransactionsAwaitLookups ==
    ASSUME CourseworkInv, TransactionsInv, NEW r \in Requests, req[r].tx, Waits(r)
    PROVE  req[r].pc = "gather" /\ req[r].todo = {"instructor"}
<1>1. /\ req[r].pc \notin Answered /\ RequestOK(req[r]) /\ req[r].job \in Job
      /\ req[r].job.kind \in {"course", "external"}
  BY Active DEF TransactionsInv, RequestOK
<1>2. req[r].pc \in {"gather", "course", "context", "assignment", "link", "external", "commit"}
  BY <1>1 DEF RequestOK, Phases
<1>3. NeedsConnection(r)
  BY <1>2 DEF Waits
<1>4. req[r].pc = "gather" /\ req[r].todo # {} /\ "course" \notin req[r].todo
  BY <1>2, <1>3 DEF NeedsConnection, InTx, JoinsTransaction, Tables
<1>5. req[r].todo \subseteq {"course", "instructor"}
  BY <1>1, <1>4 DEF TransactionsInv, Gathers
<1> QED  BY <1>4, <1>5

\* If all requests under way wait, transactions hold all connections of the pool and each
\* awaits one more to look the instructor up, for any requests, jobs and size of the pool.
THEOREM OnlyLookupsHalt == Spec => []OnlyLookupsBringToAHalt
<1>1. ASSUME CourseworkInv, TransactionsInv PROVE OnlyLookupsBringToAHalt
  <2> SUFFICES ASSUME UnderWay # {}, \A r \in UnderWay : Waits(r)
               PROVE  LookupsHoldThePool
    BY DEF OnlyLookupsBringToAHalt, EveryoneWaits
  <2>1. ASSUME NEW r \in Requests, NEW k \in Keys PROVE writes[r][k] = None
    BY <1>1, WritersGoOn
  <2>2. \A k : ~Locked(k)
    BY <2>1 DEF Locked
  <2>3. \A r \in UnderWay : NeedsConnection(r) /\ ~HasFreeConnection
    BY <2>2 DEF Waits
  <2>4. ASSUME NEW r \in Connected
        PROVE  req[r].tx /\ req[r].pc = "gather" /\ req[r].todo = {"instructor"}
    <3>1. req[r].pc # "lock"
      BY <2>3 DEF Connected, UnderWay, NeedsConnection, Answered, Tables
    <3>2. req[r].tx /\ r \in UnderWay
      BY <1>1, <3>1 DEF Connected, UnderWay, TransactionsInv
    <3> QED  BY <1>1, <3>2, TransactionsAwaitLookups DEF UnderWay
  <2> QED  BY <2>3, <2>4 DEF LookupsHoldThePool
<1> QED  BY <1>1, TransactionsInvariant, PTL
=============================================================================
