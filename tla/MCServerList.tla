---------------------------- MODULE MCServerList ----------------------------
(* Configurations of two servers, one of which is the default, and hosts.   *)
EXTENDS ServerList

CONSTANTS lobby, game, home

MCHosts == [name : {home, game}, plain : BOOLEAN]
MCHome == [name |-> home, plain |-> TRUE]

\* A server's lines and its icon are looked up apart from each other, so that a server
\* with both or neither shows what each lookup does.
MCSites ==
    LET sites(ss) == [servers : {ss}, lines : SUBSET ss, icons : SUBSET ss, global : BOOLEAN,
                      forced : [{home, game} -> {NoServer, lobby, game}]]
    IN  {s \in UNION {sites(ss) : ss \in SUBSET Names} :
            s.lines = s.icons /\ s.forced[game] # game}
=============================================================================
