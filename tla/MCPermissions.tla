---------------------------- MODULE MCPermissions ----------------------------
(* Three groups that inherit up to two others each: one grants, one negates,  *)
(* one does both; the user also has a grant of their own.                     *)
EXTENDS Permissions

Lists(n) == UNION {[1 .. k -> Groups] : k \in 0 .. n}
UpToTwo == Lists(2)
UpToOne == Lists(1)

Send == <<"vine", "command", "send">>
List == <<"vine", "command", "list">>
Perm(negated, node) == [negated |-> negated, node |-> node]

MCGrants ==
    [g \in Groups |->
        CASE g = "default" -> {Perm(FALSE, <<"vine", "command", "*">>)}
          [] g = "muted" -> {Perm(TRUE, Send)}
          [] OTHER -> {Perm(FALSE, <<"*">>), Perm(TRUE, <<"vine", "*">>)}]

MCDirect == {Perm(FALSE, Send)}
MCNodes == {Send, List, <<"vine">>}
=============================================================================
