----------------------------- MODULE Permissions -----------------------------
(***************************************************************************)
(* PermissionsConfig, permissions.rs: the walk of collect_permissions over *)
(* a player's groups and the groups they inherit, and has_permission.      *)
(* Names stand for their lower-case form; the keys of the configuration    *)
(* are taken to differ in more than case.  A permission node is the        *)
(* sequence of its dot-separated parts.                                    *)
(***************************************************************************)
EXTENDS Naturals, Sequences, FiniteSets

CONSTANTS
    Groups,        \* group names that occur in the configuration
    DefaultGroup,  \* default_group
    Inherited,     \* possible "inherits" lists of a group
    Assigned,      \* possible "groups" lists of the player
    Grants,        \* the "permissions" list of each group, as sets
    Direct,        \* the player's direct permissions
    Nodes          \* nodes that are asked for

ASSUME PermissionsAssumption ==
    /\ DefaultGroup \in Groups
    /\ Inherited \subseteq Seq(Groups)
    /\ Assigned \subseteq Seq(Groups)
    /\ DOMAIN Grants = Groups

VARIABLES
    configured,  \* groups that have an entry
    inherits,    \* their "inherits" lists
    start,       \* the groups the walk starts from
    queue, visited,
    result,      \* groups whose permissions have been added, in order
    asked,       \* the node has_permission is asked for
    verdict

vars == <<configured, inherits, start, queue, visited, result, asked, verdict>>
config == <<configured, inherits, start, asked>>

-----------------------------------------------------------------------------
(* matches_node.                                                            *)

StrictPrefix(p, t) == Len(p) < Len(t) /\ SubSeq(t, 1, Len(p)) = p

matches_node(p, t) ==
    \/ p = <<"*">>
    \/ p = t
    \/ Len(p) > 1 /\ p[Len(p)] = "*" /\ StrictPrefix(SubSeq(p, 1, Len(p) - 1), t)

-----------------------------------------------------------------------------
(* collect_permissions.                                                     *)

Elements(list) == {list[i] : i \in DOMAIN list}

\* The player's groups, with the default group unless it is among them.
StartGroups(groups) ==
    IF DefaultGroup \in Elements(groups) THEN groups ELSE Append(groups, DefaultGroup)

Init ==
    /\ configured \in SUBSET Groups
    /\ inherits \in [Groups -> Inherited]
    /\ \E groups \in Assigned : start = StartGroups(groups)
    /\ queue = start
    /\ visited = {}
    /\ result = <<>>
    /\ asked \in Nodes
    /\ verdict = "none"

\* Mutant: inherited groups are not followed.
VisitShallow ==
    /\ queue # <<>>
    /\ LET g == Head(queue) IN
        /\ visited' = visited \cup {g}
        /\ result' = IF g \in configured \ visited THEN Append(result, g) ELSE result
        /\ queue' = Tail(queue)
    /\ UNCHANGED <<config, verdict>>

\* Mutant: a visited group goes to the end of the queue and is not dropped.
VisitRequeues ==
    /\ queue # <<>>
    /\ LET g == Head(queue)
           expand == g \notin visited /\ g \in configured
       IN  /\ visited' = visited \cup {g}
           /\ result' = IF expand THEN Append(result, g) ELSE result
           /\ queue' = Tail(queue) \o (IF expand THEN inherits[g]
                                      ELSE IF g \in visited THEN <<g>> ELSE <<>>)
    /\ UNCHANGED <<config, verdict>>

\* One round of the loop: a visited group is skipped, an unknown one adds nothing.
Visit ==
    /\ queue # <<>>
    /\ LET g == Head(queue)
           expand == g \notin visited /\ g \in configured
       IN  /\ visited' = visited \cup {g}
           /\ result' = IF expand THEN Append(result, g) ELSE result
           /\ queue' = Tail(queue) \o (IF expand THEN inherits[g] ELSE <<>>)
    /\ UNCHANGED <<config, verdict>>

-----------------------------------------------------------------------------
(* has_permission: negations first, then what is granted.                   *)

Effective == Direct \cup UNION {Grants[g] : g \in Elements(result)}
Denied(perms) == \E x \in perms : x.negated /\ matches_node(x.node, asked)
Granted(perms) == \E x \in perms : ~x.negated /\ matches_node(x.node, asked)

\* Mutant: a grant is found before the negations are looked at.
DecideGrantFirst ==
    /\ queue = <<>> /\ verdict = "none"
    /\ verdict' = IF Granted(Effective) THEN "yes" ELSE "no"
    /\ UNCHANGED <<config, queue, visited, result>>

Decide ==
    /\ queue = <<>> /\ verdict = "none"
    /\ verdict' = IF ~Denied(Effective) /\ Granted(Effective) THEN "yes" ELSE "no"
    /\ UNCHANGED <<config, queue, visited, result>>

-----------------------------------------------------------------------------
Next == Visit \/ Decide
Spec == Init /\ [][Next]_vars
FairSpec == Spec /\ WF_vars(Next)

-----------------------------------------------------------------------------
(* Properties.                                                              *)

\* Types of the variables.
TypeOK ==
    /\ configured \subseteq Groups
    /\ inherits \in [Groups -> Seq(Groups)]
    /\ start \in Seq(Groups)
    /\ queue \in Seq(Groups)
    /\ visited \subseteq Groups
    /\ result \in Seq(Groups)
    /\ verdict \in {"none", "yes", "no"}

\* A set of groups that holds the start and what its configured members inherit.
Closed(S) ==
    /\ Elements(start) \subseteq S
    /\ \A g \in S \cap configured : Elements(inherits[g]) \subseteq S

\* The groups a player is in: the least closed set.
Member(g) == \A S \in SUBSET Groups : Closed(S) => g \in S

\* When the walk ends it has added exactly the configured groups the player is in,
\* through any chain or cycle of "inherits".
CollectsMembership ==
    queue = <<>> => Elements(result) = {g \in configured : Member(g)}

\* No group's permissions are added twice.
EachGroupOnce == \A i, j \in DOMAIN result : result[i] = result[j] => i = j

\* The documented rules: the node is refused if a permission of the player or of one
\* of the player's groups negates it, else it needs one that grants it.
DecisionFollowsRules ==
    verdict # "none" =>
        LET perms == Direct \cup UNION {Grants[g] : g \in {h \in configured : Member(h)}}
        IN  verdict = "yes" <=> ~Denied(perms) /\ Granted(perms)

\* The walk ends although groups may inherit each other.
Terminates == <>(verdict # "none")
=============================================================================
