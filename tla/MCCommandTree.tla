---------------------------- MODULE MCCommandTree ----------------------------
\* Backends' trees: an empty one; one with a command of the same name; redirects to
\* another command and to the root; and two that are not changed.
EXTENDS CommandTree

MCTrees ==
    LET small == Tree(<<Literal("", <<2, 1>>), Literal("help", <<3>>), Literal("list", <<>>), Args>>)
        rootLast == <<Args, Literal("help", <<0>>), Literal("list", <<>>), Literal("", <<2, 1>>)>>
    IN  { Tree(<<Literal("", <<>>)>>),
          small,
          Tree(<<Literal("", <<1, 3, 4>>), Literal("msg", <<2>>), Args, Redirect("tell", 1), Redirect("run", 0)>>),
          [small EXCEPT !.flags = 4],
          [small EXCEPT !.nodes = rootLast, !.root = 3] }
=============================================================================
