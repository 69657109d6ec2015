----------------------------- MODULE CommandTree -----------------------------
(***************************************************************************)
(* inject_proxy_commands, backend/bridge.rs: the backend's Commands packet *)
(* is a list of nodes that refer to each other by position; the proxy's    *)
(* commands are put under the root of the tree and appended to the list.   *)
(* The tree is made while senders and plugins use the dispatcher, and is   *)
(* not made again when a plugin registers a command later.                 *)
(***************************************************************************)
EXTENDS CommandDispatcher, Integers, SequencesExt

CONSTANTS
    Builtins,      \* the proxy's own commands that the player may use
    BackendTrees,  \* trees backends send
    Depth          \* bound: words of a command line

VARIABLE sent  \* per player, the last Commands packet: what came, the commands, what went on

treeVars == <<vars, sent>>

-----------------------------------------------------------------------------
(* Nodes are numbered from 0.                                               *)

NoTarget == -1
Literal(name, children) == [name |-> name, children |-> children, redirect |-> NoTarget]
Args == Literal("args", <<>>)
Redirect(name, to) == [name |-> name, children |-> <<>>, redirect |-> to]

\* A backend's tree: a client refuses one that refers to a node it has not.
Tree(nodes) == [nodes |-> nodes, root |-> 0, flags |-> 0]
IsTree(tree) ==
    LET Ids == 0 .. Len(tree.nodes) - 1 IN
    /\ tree.root \in Ids
    /\ \A n \in DOMAIN tree.nodes :
         tree.nodes[n].children \in Seq(Ids) /\ tree.nodes[n].redirect \in Ids \cup {NoTarget}

ASSUME TreeAssumption ==
    /\ Builtins \subseteq {"server", "send", "list", "glist", "help"} /\ IsFiniteSet(Plugins)
    /\ BackendTrees \subseteq [nodes : Seq([name : STRING, children : Seq(Nat), redirect : Int]), root : Nat, flags : Nat]
    /\ \A tree \in BackendTrees : IsTree(tree)
    /\ Depth \in Nat

-----------------------------------------------------------------------------
TakesArgs == {"server", "send", "help"}

\* Mutant: the index moves on by one although two nodes are written.
AddOneIndex(acc, c) ==
    [next |-> acc.next + 1,
     children |-> Append(acc.children, acc.next),
     extra |-> acc.extra \o IF c \in TakesArgs THEN <<Literal(c, <<acc.next + 1>>), Args>>
                                              ELSE <<Literal(c, <<>>)>>]

\* One turn of the loop over the commands: the index of the next node, the new children
\* of the root and the nodes written so far.
Add(acc, c) ==
    IF c \in TakesArgs
    THEN [next |-> acc.next + 2,
          children |-> Append(acc.children, acc.next),
          extra |-> acc.extra \o <<Literal(c, <<acc.next + 1>>), Args>>]
    ELSE [next |-> acc.next + 1,
          children |-> Append(acc.children, acc.next),
          extra |-> Append(acc.extra, Literal(c, <<>>))]

\* The whole loop, for nodes numbered from start on.
Added(start, commands) ==
    LET after[i \in 0 .. Len(commands)] ==
          IF i = 0 THEN [next |-> start, children |-> <<>>, extra |-> <<>>]
                   ELSE Add(after[i - 1], commands[i])
    IN  after[Len(commands)]

\* A tree whose root is not the first node, or has flags, goes on as it came.
Inject(tree, commands) ==
    IF commands = <<>> \/ tree.root # 0 \/ tree.flags # 0
    THEN tree
    ELSE LET new == Added(Len(tree.nodes), commands)
             root == [Head(tree.nodes) EXCEPT !.children = @ \o new.children]
         IN  [tree EXCEPT !.nodes = <<root>> \o Tail(@) \o new.extra]

-----------------------------------------------------------------------------
(* The packet, on a player's task.                                          *)

NothingSent == [tree |-> Tree(<<>>), commands |-> <<>>, client |-> Tree(<<>>)]

TreeInit == Init /\ sent = [s \in Senders \ Console |-> NothingSent]

\* get_all_permitted_commands returns the commands in no order of the proxy's.
CommandsPacket(s) ==
    /\ ListPermitted(s)
    /\ \E tree \in BackendTrees, commands \in SetToSeqs(Builtins \cup Named) :
         sent' = [sent EXCEPT ![s] = [tree |-> tree, commands |-> commands, client |-> Inject(tree, commands)]]

TreeNext ==
    \/ Next /\ UNCHANGED sent
    \/ \E s \in Senders \ Console : CommandsPacket(s)

TreeSpec == TreeInit /\ [][TreeNext]_treeVars /\ Fairness

-----------------------------------------------------------------------------
(* Properties.                                                              *)

\* Lines are read off a tree one word at a time: a node has the children of the one it
\* redirects to; each child is a word, and the lines below it may follow.
Target(tree, n) == IF tree.nodes[n + 1].redirect = NoTarget THEN n ELSE tree.nodes[n + 1].redirect
Below(tree, n, lines) ==
    UNION {{<<tree.nodes[c + 1].name>> \o line : line \in lines[c]} : c \in ToSet(tree.nodes[n + 1].children)}

\* The lines of up to d words that the proxy's commands make.
Typed(commands, d) ==
    {<<c>> : c \in commands} \cup {<<c, "args">> : c \in {k \in commands : d > 1 /\ k \in TakesArgs}}

\* The lines of up to d words that a tree offers below each of its nodes, if the root
\* offers the commands as well; shorter has those of d - 1 words.
Longer(tree, commands, d, shorter) ==
    [n \in 0 .. Len(tree.nodes) - 1 |->
      LET from == Target(tree, n)
      IN  {<<>>} \cup Below(tree, from, shorter)
                 \cup (IF from = tree.root THEN Typed(commands, d) ELSE {})]
Lines(tree, commands) ==
    LET lines[d \in 0 .. Depth] ==
          IF d = 0 THEN [n \in 0 .. Len(tree.nodes) - 1 |-> {<<>>}]
                   ELSE Longer(tree, commands, d, lines[d - 1])
    IN  lines

Offers(tree, commands) == IF tree.nodes = <<>> THEN {} ELSE Lines(tree, commands)[Depth][tree.root]

\* Injecting changes no index: the client is offered every line the backend offers,
\* redirects to the root included, and the commands of the proxy the player may use,
\* and nothing else; what it is offered stays known to the dispatcher.
OfferExact ==
    \A s \in DOMAIN sent :
        LET of == sent[s]
            injected == IF of.client = of.tree THEN {} ELSE ToSet(of.commands)
        IN  /\ Offers(of.client, {}) = Offers(of.tree, injected)
            /\ injected \subseteq Builtins \cup Named
            /\ of.tree.root = 0 /\ of.tree.flags = 0 => injected = ToSet(of.commands)
=============================================================================
