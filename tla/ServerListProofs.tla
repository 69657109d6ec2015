-------------------------- MODULE ServerListProofs --------------------------
(***************************************************************************)
(* The server list, for any configurations, hosts, pings and edits: what a *)
(* ping shows belongs to the server a login would go to, the pings run     *)
(* load_or_reload as IconCache says, and a cached icon that carries the    *)
(* file's time stamp is the file's content.                                *)
(***************************************************************************)
EXTENDS ServerList, TLAPS

-----------------------------------------------------------------------------
(* The icon file: a stamp is followed from it through a task to the cache.  *)

\* What is known of a stamp: the file's own belongs to its content; so does the one a
\* task has seen, unless an edit has come between its two looks at the file; and so does
\* the cached one, unless its task was such a one.
Stamps ==
    /\ torn \subseteq Pings
    /\ pc \in [Pings -> {"idle", "read", "stat", "insert"}]
    /\ bytes \in [Pings -> Nat] /\ stat \in [Pings -> Nat]
    /\ writes \in Nat /\ content \in Nat /\ content = mtime
    /\ \A p \in Pings : pc[p] = "stat" /\ p \notin torn => bytes[p] = content
    /\ \A p \in Pings : pc[p] = "insert" /\ p \notin torn => bytes[p] = stat[p]
    /\ ~cache.torn => cache.content = cache.mtime

\* preload_all leaves the cache as the file is.
LEMMA StampsInit == Init => Stamps
  BY DEF Init, Stamps

\* An edit marks the tasks it comes between; every other task carries its stamp on.
LEMMA StampsStep == Stamps /\ [Next]_vars => Stamps'
<1> SUFFICES ASSUME Stamps, [Next]_vars PROVE Stamps'
  OBVIOUS
<1> USE DEF Stamps
<1>1. CASE Edit
  BY <1>1 DEF Edit, Touch
<1>2. CASE Delete
  BY <1>2 DEF Delete, Touch
<1>3. ASSUME NEW p \in Pings, Lookup(p) PROVE Stamps'
  BY <1>3 DEF Lookup, Answer, Set
<1>4. ASSUME NEW p \in Pings, Read(p) PROVE Stamps'
  BY <1>4 DEF Read, Answer, Set
<1>5. ASSUME NEW p \in Pings, Stat(p) PROVE Stamps'
  BY <1>5 DEF Stat, Set
<1>6. ASSUME NEW p \in Pings, Insert(p) PROVE Stamps'
  BY <1>6, Zenon DEF Insert, Answer, Set
<1>7. CASE UNCHANGED vars
  BY <1>7 DEF vars
<1> QED BY <1>1, <1>2, <1>3, <1>4, <1>5, <1>6, <1>7 DEF Next, Ping

\* load_or_reload serves a cached icon because its stamp is the file's: then it is the
\* file's content, however many pings reload at once and in whatever order they insert,
\* unless the ping that cached it was torn.
THEOREM CachedIsCurrent == Spec => []CacheMatchesFile
<1>1. Stamps => CacheMatchesFile
  BY DEF Stamps, CacheMatchesFile
<1> QED BY StampsInit, StampsStep, <1>1, PTL DEF Spec

\* Every step of the server list is one of the cache's or leaves the cache alone.
LEMMA ListStep == [ListNext]_listVars => [Next]_vars
<1> SUFFICES ASSUME [ListNext]_listVars PROVE [Next]_vars
  OBVIOUS
<1>1. CASE UNCHANGED listVars
  BY <1>1 DEF listVars
<1>2. CASE Edit \/ Delete
  BY <1>2 DEF Next
<1>3. ASSUME NEW p \in Pings, Answering(p) PROVE [Next]_vars
  BY <1>3 DEF Answering, Next, Ping
<1>4. ASSUME NEW p \in Pings, NEW h \in Hosts, PingFile(p, h) PROVE [Next]_vars
  BY <1>4 DEF PingFile, Next, Ping
<1>5. ASSUME NEW p \in Pings, NEW h \in Hosts, PingOther(p, h) PROVE [Next]_vars
  BY <1>5 DEF PingOther
<1> QED BY <1>1, <1>2, <1>3, <1>4, <1>5 DEF ListNext

\* handle_status with all its lookups: what pings for any hosts do to the icon file's cache
\* entry is what load_or_reload does.
THEOREM ListImplementsCache == ListSpec => Spec
<1>1. ListInit => Init
  BY DEF ListInit
<1> QED BY <1>1, ListStep, PTL DEF ListSpec, Spec

\* So the cache is current in the server list as well.
THEOREM ListedIconIsCurrent == ListSpec => []CacheMatchesFile
  BY ListImplementsCache, CachedIsCurrent, PTL

-----------------------------------------------------------------------------
(* The entry.                                                               *)

\* An entry shown is what the two lookups say of its host.
LookedUp ==
    /\ site \in Sites
    /\ listing.shown =>
         /\ listing.motd = resolve_motd_text(site, listing.host)
         /\ listing.icon = resolve_icon_path(site, listing.host)

\* The configuration does not change, and only Show shows.
LEMMA LookedUpStep == LookedUp /\ [ListNext]_listVars => LookedUp'
<1> SUFFICES ASSUME LookedUp, [ListNext]_listVars PROVE LookedUp'
  OBVIOUS
<1>1. CASE UNCHANGED <<site, listing>>
  BY <1>1 DEF LookedUp
<1>2. ASSUME NEW h, Show(h), UNCHANGED site PROVE LookedUp'
  <2>1. /\ listing'.host = h /\ listing'.motd = resolve_motd_text(site, h)
        /\ listing'.icon = resolve_icon_path(site, h)
    BY <1>2 DEF Show
  <2> QED BY <1>2, <2>1, Zenon DEF LookedUp, resolve_motd_text, resolve_icon_path, ForcedForList
<1> QED
  BY <1>1, <1>2 DEF ListNext, Answering, PingFile, PingOther, listVars

\* For a host without a port that is not a server's name, the three lookups agree.
LEMMA LookupsAgree ==
    ASSUME NEW s \in Sites, NEW host, host.plain, host.name \notin s.servers
    PROVE  LET forced == ForcedForLogin(s, host)
               login == resolve_server(s.servers, forced)
           IN  /\ resolve_motd_text(s, host) \in login \cup {Global}
               /\ resolve_icon_path(s, host) \in login \cup {DefaultServer, Global, NoServer}
               /\ forced \in s.servers \cap s.lines => resolve_motd_text(s, host) = forced
               /\ forced \in s.servers \cap s.icons => resolve_icon_path(s, host) = forced
<1> DEFINE forced == s.forced[host.name]
<1>1. ForcedForLogin(s, host) = forced /\ ForcedForList(s, host) = forced
  BY DEF ForcedForLogin, ForcedForList
<1>2. s.icons \subseteq s.servers /\ NoServer \notin s.servers
  BY SiteAssumption, RoutingAssumption
<1> HIDE DEF forced
<1>3. forced \in s.servers => resolve_server(s.servers, forced) = {forced}
  BY DEF resolve_server
<1>4. /\ resolve_motd_text(s, host) \in {forced, Global}
      /\ resolve_motd_text(s, host) # Global => forced \in s.servers
      /\ forced \in s.servers \cap s.lines => resolve_motd_text(s, host) = forced
  BY <1>1, <1>2 DEF resolve_motd_text
<1>5. /\ resolve_icon_path(s, host) \in {forced, DefaultServer, Global, NoServer}
      /\ forced \in s.icons => resolve_icon_path(s, host) = forced
      /\ forced \notin s.icons => resolve_icon_path(s, host) \in {DefaultServer, Global, NoServer}
  BY <1>1, <1>2 DEF resolve_icon_path
<1> QED BY <1>1, <1>2, <1>3, <1>4, <1>5

\* For every configuration, every host without a port or blanks that is no server's name,
\* and whatever pings come in between: the text shown is the global one or that of the
\* server a login with the same host goes to, the icon is that server's, the default
\* server's or the global one, and a server the host is forced to is shown with its own.
THEOREM ListShowsRoute == ListSpec => []ListMatchesRoute
<1>1. ListInit => LookedUp
  BY DEF ListInit, LookedUp, NothingShown
<1>2. LookedUp => ListMatchesRoute
  BY LookupsAgree, Zenon DEF LookedUp, ListMatchesRoute
<1> QED BY <1>1, <1>2, LookedUpStep, PTL DEF ListSpec
=============================================================================
