---------------------------- MODULE DeploymentTree ----------------------------
(***************************************************************************)
(* Where a tool is deployed: the contexts with their parents, the          *)
(* deployments, and the query that finds the most appropriate deployment   *)
(* of a tool for a context, which goes up from the context to its root and *)
(* falls back to a global deployment.                                      *)
(*                                                                         *)
(* Today's handlers make only courses, which have no parent, and global    *)
(* deployments.  The tables, the repository of contexts and the query also *)
(* provide for a hierarchy; the constant Hierarchy says whether one is     *)
(* filled in.                                                              *)
(***************************************************************************)
EXTENDS Naturals, FiniteSets, Functions

CONSTANTS
    Tools,        \* client ids of tools
    Contexts,     \* ids of contexts
    Deployments,  \* ids of deployments
    None,         \* SQL null, `undefined`, no row
    Hierarchy     \* whether contexts have parents and deployments have contexts

ASSUME TreeAssumption ==
    /\ IsFiniteSet(Contexts)
    /\ None \notin Tools \cup Contexts \cup Deployments
    /\ Hierarchy \in BOOLEAN

VARIABLES
    parent,      \* the parent of each row of lti_context
    deployments  \* the tool and the context of each row of lti_deployments

treeVars == <<parent, deployments>>

Deployment == [tool : Tools, context : Contexts \cup {None}]

TreeInit ==
    /\ parent = [c \in {} |-> None]
    /\ deployments = [d \in {} |-> None]

\* the context a row may refer to: its foreign key
Referable == {None} \cup (IF Hierarchy THEN DOMAIN parent ELSE {})

CreateContext(c) ==
    /\ c \notin DOMAIN parent
    /\ \E p \in Referable : parent' = [x \in DOMAIN parent \cup {c} |->
                                          IF x = c THEN p ELSE parent[x]]
    /\ UNCHANGED deployments

SaveDeployment(d, t) ==
    /\ d \notin DOMAIN deployments
    /\ \E c \in Referable :
        deployments' = [x \in DOMAIN deployments \cup {d} |->
                           IF x = d THEN [tool |-> t, context |-> c] ELSE deployments[x]]
    /\ UNCHANGED parent

DeleteDeployment(d) ==
    /\ deployments' = Restrict(deployments, DOMAIN deployments \ {d})
    /\ UNCHANGED parent

-----------------------------------------------------------------------------
(***************************************************************************)
(* findMostAppropriateDeploymentForTool.                                    *)
(***************************************************************************)
Depths == 1 .. Cardinality(Contexts)

\* the recursive query: up[n] is the context of the row of depth n, None past the root
Ascent(c) ==
    LET up[n \in Depths] ==
            IF n = 1 THEN (IF c \in DOMAIN parent THEN c ELSE None)
            ELSE IF up[n - 1] = None THEN None ELSE parent[up[n - 1]]
    IN  up

ContextPath(c) ==
    {[context |-> Ascent(c)[n], depth |-> n] : n \in {m \in Depths : Ascent(c)[m] # None}}

GlobalRank == 999999

\* Mutant: a global deployment is as good as one in the context.
RankGlobalFirst(d, row) == IF deployments[d].context = None THEN 1 ELSE row.depth

Rank(d, row) == IF deployments[d].context = None THEN GlobalRank ELSE row.depth

\* the rows of the query: a deployment of the tool joined with its context in the path
Ranked(t, c) ==
    LET absent == [context |-> None, depth |-> 0]
        joins(d, row) == deployments[d].tool = t /\ deployments[d].context = row.context
    IN  {[id |-> p[1], rank |-> Rank(p[1], p[2])] :
           p \in {q \in (DOMAIN deployments) \X (ContextPath(c) \cup {absent}) :
                     joins(q[1], q[2])}}

\* ORDER BY _rank LIMIT 1: any of the rows that come first
MostAppropriate(t, c) ==
    {row.id : row \in {r \in Ranked(t, c) : \A s \in Ranked(t, c) : r.rank <= s.rank}}

\* What ltilib gets: the deployment found, as one of the context that was asked for.
FindDeploymentInContextTreeOrGlobal(t, c) ==
    {[id |-> d, tool |-> deployments[d].tool, context |-> c] : d \in MostAppropriate(t, c)}

EnsureToolIsDeployedInContext(t, c) ==
    c # None /\ FindDeploymentInContextTreeOrGlobal(t, c) # {}

-----------------------------------------------------------------------------
TreeTypeOK ==
    /\ DOMAIN parent \subseteq Contexts
    /\ \A c \in DOMAIN parent : parent[c] \in DOMAIN parent \cup {None}
    /\ DOMAIN deployments \subseteq Deployments
    /\ \A d \in DOMAIN deployments : deployments[d] \in Deployment

-----------------------------------------------------------------------------
(***************************************************************************)
(* Properties.                                                             *)
(***************************************************************************)
\* The contexts that hold c, c first of all: the smallest set with c and the
\* parent of every one of its members.
Holders(c) ==
    LET closed(S) == c \in S /\ \A x \in S : parent[x] \in S \cup {None}
    IN  {x \in DOMAIN parent : \A S \in SUBSET DOMAIN parent : closed(S) => x \in S}

\* The deployment found for a context is of the tool, in one of the contexts that
\* hold it and with none of the tool's deployments nearer, or a global one when no
\* context that holds it has one; none is found only when there is neither.
NearestIsFound ==
    \A t \in Tools, c \in DOMAIN parent :
        LET of(S) == {d \in DOMAIN deployments :
                         deployments[d].tool = t /\ deployments[d].context \in S}
            found == MostAppropriate(t, c)
        IN  /\ of(Holders(c)) = {} => found = of({None})
            /\ of(Holders(c)) # {} =>
                \E near \in Holders(c) :
                    /\ found = of({near})
                    /\ \A x \in Holders(c) : of({x}) # {} => x \in Holders(near)

=============================================================================
