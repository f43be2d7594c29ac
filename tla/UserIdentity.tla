---------------------------- MODULE UserIdentity ----------------------------
(***************************************************************************)
(* For whom the agent acts: the mutating webhook (pkg/webhook/mutating)    *)
(* writes the author of an action into its annotations, and the agent      *)
(* (pkg/utils/rest) parses them to impersonate.  The two sides filter and  *)
(* rename groups on their own.  The name of a group is the sequence of its *)
(* pieces between commas, and a piece that of its parts between colons:    *)
(* the annotation is a list with commas, so what the agent finds in it are *)
(* the pieces.                                                             *)
(***************************************************************************)
EXTENDS Naturals, Sequences, FiniteSets

CONSTANTS
    Users, Nobody,
    Groups,                \* the groups of each user
    SkipOverwriteUserList, \* users who may pass on what somebody else has written
    RoleBindings           \* groups that may get a RoleBinding of their name in the namespace

VARIABLES
    roleBindings, \* the informer's cache
    annotations,  \* of the action
    author,       \* who last wrote it without being trusted
    identity      \* for whom the agent acted last

vars == <<roleBindings, annotations, author, identity>>

Nothing == [user |-> Nobody, groups |-> {}]

Pieces(groups) == UNION {{g[i] : i \in DOMAIN g} : g \in groups}

\* strings.Split(group, ":"), which cares for no commas.
Colons(g) == Cardinality(UNION {{i} \X (2..Len(g[i])) : i \in DOMAIN g})
OfTeam(g) ==
    /\ Colons(g) = 2 /\ g[1][1] = "icp" /\ Len(g[1]) > 1
    /\ ~(Len(g[1]) = 3 /\ g[1][2] = "default")

\* MergeUserIdentityToAnnotations: of icp's groups those count that are default or have a RoleBinding;
\* joined with commas, they are no more than their pieces.
MergeUserIdentityToAnnotations(u) ==
    [user |-> u, groups |-> Pieces({g \in Groups[u] : OfTeam(g) => g \in roleBindings})]

\* Mutant: annotations that are there are kept.
KeepAnnotations(u) == IF annotations # Nothing THEN annotations ELSE MergeUserIdentityToAnnotations(u)

MutateResource(u) ==
    IF u \in SkipOverwriteUserList THEN annotations ELSE MergeUserIdentityToAnnotations(u)

\* ParseUserGroup: a piece with the form of an icp group stands for the team of any namespace; of the
\* others only those of the system count.
ParseUserGroup(pieces) ==
    {<<"mcm", "", p[3]>> : p \in {q \in pieces : Len(q) = 3 /\ q[1] = "icp"}}
      \cup {p \in pieces : Len(p) > 1 /\ p[1] = "system"}

Init ==
    /\ roleBindings = {} /\ annotations = Nothing /\ author = Nobody
    /\ identity = Nothing

RoleBindingChanges ==
    /\ \E g \in RoleBindings : roleBindings' = IF g \in roleBindings THEN roleBindings \ {g}
                                                                     ELSE roleBindings \cup {g}
    /\ UNCHANGED <<annotations, author, identity>>

Write(u) ==
    /\ annotations' = MutateResource(u)
    /\ author' = IF u \in SkipOverwriteUserList THEN author ELSE u
    /\ UNCHANGED <<roleBindings, identity>>

\* Impersonate, with what the cached copy has, which is never older than the last action of the agent.
Act ==
    /\ identity' = [user |-> annotations.user, groups |-> ParseUserGroup(annotations.groups)]
    /\ UNCHANGED <<roleBindings, annotations, author>>

Next == RoleBindingChanges \/ Act \/ \E u \in Users : Write(u)

Spec == Init /\ [][Next]_vars

\* The annotations name the last author, whoever else has passed the object on, and the agent takes no
\* group for the author's that is not written in the name of one of the author's groups, between commas:
\* as one of the system, or as the team of one of icp.
ActsForAuthor ==
    /\ annotations.user = author
    /\ identity.user # Nobody =>
          \A g \in identity.groups : \E p \in Pieces(Groups[identity.user]) :
             \/ p[1] = "system" /\ g = p
             \/ Len(p) = 3 /\ p[1] = "icp" /\ g = <<"mcm", "", p[3]>>
=============================================================================
