----------------------------- MODULE HostRouting -----------------------------
(***************************************************************************)
(* What the host of a client's handshake decides: the server its login     *)
(* goes to (Router, backend/mod.rs), and the text (status.rs) and the icon *)
(* (status/icon.rs) of the proxy's entry in the server list.  Each of the  *)
(* three looks the host up by itself.                                      *)
(***************************************************************************)

CONSTANTS
    Names,               \* server names
    DefaultServer,       \* config.routing.default_server
    FallbackServer,      \* config.routing.fallback_server
    NoServer             \* None

ASSUME RoutingAssumption ==
    /\ DefaultServer \in Names
    /\ FallbackServer \in Names \cup {NoServer}
    /\ NoServer \notin Names

\* What resolve_server may return, given the names config.servers has entries for and
\* the forced host's server: its last resort is whatever entry iterates first.
resolve_server(servers, forced) ==
    IF forced \in servers THEN {forced}
    ELSE IF DefaultServer \in servers THEN {DefaultServer}
    ELSE IF FallbackServer \in servers THEN {FallbackServer}
    ELSE servers

-----------------------------------------------------------------------------
(* A site is a configuration: its servers, those with MOTD lines or with an *)
(* icon of their own, the server each host is forced to, and whether there  *)
(* is a global icon.  A host is a name, alone or with a port or blanks.     *)

Global == "global"

\* The Router takes the host as it is; the server list cuts the port and the blanks off.
ForcedForLogin(site, host) == IF host.plain THEN site.forced[host.name] ELSE NoServer
ForcedForList(site, host) == site.forced[host.name]

\* Whose lines are shown: a line the server does not set is the global one.
resolve_motd_text(site, host) ==
    LET forced == ForcedForList(site, host)
        target == IF forced # NoServer THEN forced ELSE host.name
    IN  IF target \in site.servers \cap site.lines THEN target ELSE Global

\* Mutant: the icon is looked for under the host's name only.
resolve_icon_path_unforced(site, host) ==
    IF host.name \in site.icons THEN host.name
    ELSE IF DefaultServer \in site.icons THEN DefaultServer
    ELSE IF site.global THEN Global ELSE NoServer

\* Whose icon is shown.
resolve_icon_path(site, host) ==
    IF ForcedForList(site, host) \in site.icons THEN ForcedForList(site, host)
    ELSE IF host.name \in site.icons THEN host.name
    ELSE IF DefaultServer \in site.icons THEN DefaultServer
    ELSE IF site.global THEN Global ELSE NoServer
=============================================================================
