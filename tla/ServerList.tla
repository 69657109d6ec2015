----------------------------- MODULE ServerList -----------------------------
(***************************************************************************)
(* StatusHandler, status.rs, for handle_status, client.rs: clients ping    *)
(* the proxy under several hosts, and the answer is put together from the  *)
(* configuration and from the icon file of the host, which IconCache       *)
(* follows for the hosts that share it with one of them, Home.             *)
(***************************************************************************)
EXTENDS IconCache, HostRouting

CONSTANTS
    Sites,  \* configurations
    Hosts,  \* hosts clients ping
    Home    \* one of them

\* ProxyServer::new collects the icons from the entries of config.servers.
ASSUME SiteAssumption ==
    \A s \in Sites : s.servers \subseteq Names /\ s.icons \subseteq s.servers

VARIABLES
    site,    \* the configuration
    listing  \* the last entry shown: for which host, whose lines and whose icon

listVars == <<vars, site, listing>>

NothingShown == [host |-> Home, motd |-> Global, icon |-> NoServer, shown |-> FALSE]

\* There is an icon for Home.
ListInit ==
    /\ Init
    /\ site \in {s \in Sites : resolve_icon_path(s, Home) # NoServer}
    /\ listing = NothingShown

\* create_custom_status_packet, with the text handle_status has resolved: plugins see
\* the text in between and may replace it, never the icon.
Show(h) ==
    listing' = [host |-> h, motd |-> resolve_motd_text(site, h),
                icon |-> resolve_icon_path(site, h), shown |-> TRUE]

\* A ping for a host whose icon is in the file; the other steps of its answer follow.
PingFile(p, h) ==
    /\ resolve_icon_path(site, h) = resolve_icon_path(site, Home)
    /\ Lookup(p) /\ Show(h)
    /\ UNCHANGED site

\* A ping for a host with another icon, or with none.
PingOther(p, h) ==
    /\ pc[p] = "idle"
    /\ resolve_icon_path(site, h) # resolve_icon_path(site, Home)
    /\ Show(h)
    /\ UNCHANGED <<vars, site>>

Answering(p) == (Read(p) \/ Stat(p) \/ Insert(p)) /\ UNCHANGED <<site, listing>>

ListNext ==
    \/ (Edit \/ Delete) /\ UNCHANGED <<site, listing>>
    \/ \E p \in Pings : Answering(p) \/ \E h \in Hosts : PingFile(p, h) \/ PingOther(p, h)

\* Pings for Home go on and each is answered; nobody has to edit the file.
ListSpec ==
    /\ ListInit /\ [][ListNext]_listVars
    /\ \A p \in Pings : WF_listVars(Answering(p)) /\ WF_listVars(PingFile(p, Home))

-----------------------------------------------------------------------------
(* Properties.                                                              *)

\* The server list shows nobody else's text than that of the server a login with the same
\* host goes to, and no other icon than that server's or the default server's; a server
\* the host is forced to is shown with all it has of its own.  The exceptions are hosts
\* that are a server's name, and hosts with a port, which only the list understands.
ListMatchesRoute ==
    LET host == listing.host
        forced == ForcedForLogin(site, host)
        login == resolve_server(site.servers, forced)
    IN  listing.shown /\ host.plain /\ host.name \notin site.servers =>
        /\ listing.motd \in login \cup {Global}
        /\ listing.icon \in login \cup {DefaultServer, Global, NoServer}
        /\ forced \in site.servers \cap site.lines => listing.motd = forced
        /\ forced \in site.servers \cap site.icons => listing.icon = forced
=============================================================================
