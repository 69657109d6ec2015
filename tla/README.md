# TLA+ specifications of the Vine proxy

Vine accepts Minecraft clients, logs them in, connects each to a backend server and
moves packets between the two; plugins (WebAssembly guests) and commands move, message
and kick players. These modules model the proxy's control flow, TLC checks them on small
instances, and TLAPS proves the central invariants for every instance. Paths below are
relative to the repository.

## The system and its modules

| part | code | module | kind |
|---|---|---|---|
| session registry | `src/session.rs` | `SessionManager` (operators), `PlayerDirectory` (abstract) | safety, refinement |
| connection task | `src/backend/bridge.rs` `run` | `BackendBridge`, `MCBackendBridge`, `BackendBridgeProofs` | safety, liveness, proofs |
| tunnel | `src/backend/bridge.rs` `bridge_tunnel`, `inject_proxy_commands` | `Tunnel`, `TunnelProofs`, `CommandTree`, `CommandTreeProofs` | safety, liveness, proofs |
| backend login | `src/backend/bridge.rs` `connect_to_backend`, `login_backend` | `BackendLogin`, `PlayerLogin`, `PlayerLoginProofs` | safety, liveness, proofs |
| client login | `src/client.rs` | `ClientHandler`, `PlayerLogin` (composition with `BackendLogin`), `PlayerLoginProofs` | safety, liveness, proofs |
| router, server list | `src/backend/mod.rs`, `src/status.rs`, `src/status/icon.rs` | `HostRouting` (operators), `IconCache` (abstract), `ServerList`, `MCServerList`, `ServerListProofs` | safety, liveness, refinement, proofs |
| plugin manager | `src/plugin/mod.rs`, `src/plugin/loader/wasm/wasm_host/` | `PluginManager`, `ProcessProofs` | safety, proofs |
| command dispatcher | `src/command/mod.rs` | `CommandDispatcher`, `CommandTree` (composition with the tunnel's command tree), `MCCommandTree`, `CommandTreeProofs` | deadlock, liveness, proofs |
| permissions | `src/permissions.rs` | `Permissions`, `MCPermissions`, `PermissionsProofs` | algorithm, proofs |
| start, shutdown, restart | `src/main.rs`, `src/proxy.rs`, `src/telemetry.rs`, `src/config.rs`, `src/bedrock/listener.rs` | `ProxyServer` (extends `IdentityKey`), `MCProxyServer`, `ProcessProofs` | crashes, liveness, proofs |
| rate limits | `src/security/rate_limiter.rs` | `RateLimiter`, `AdmissionProofs` | safety, proofs |
| PROXY protocol | `src/network/proxy_protocol.rs`, `prefixed_stream.rs` | `ProxyProtocol`, `AdmissionProofs` | safety, liveness, proof |

How they interact. `ProxyServer` accepts a connection; `ProxyProtocol` reads its header,
`RateLimiter` admits it, `ClientHandler` answers its ping (`ServerList`) or logs it in and
picks a server (`HostRouting`), and `BackendBridge` takes over with `BackendLogin` for
each backend it tries; `PlayerLogin` composes the login as far as the tunnel, for one
player. While a player plays, `BackendBridge` and `Tunnel` look at the same task from two
sides: the first has the state other tasks see (registry, counter, events, queue) for many
connections, the second the futures inside one tunnel. `BackendBridge` composes the tasks
with `SessionManager`'s operations and with the commands and plugins that read the
registry and send actions. `PluginManager` and `CommandDispatcher` are the two shared
services every task calls; `CommandTree` adds what a tunnel tells its client of the
second.

A shared convention: an `await` on something another party decides ends an action, so
anybody may step in between; code between two awaits is one action. A definition that
begins with a `\* Mutant:` comment is not part of a specification. It is a plausible
slip in the definition below it, kept to show that the property named with it in
`PROJECT.json` notices.

## State and actions

**SessionManager / BackendBridge.** `sessions` is the map by lower-case name (`Keys`),
`online` the counter of `ProxyServer`, `queue` the `action_rx` of each task. `stage` is
the point in `run()` at which a task waits: `connectEvent`, `login`, `loginFallback`,
`forward`, `fireConnected`, `fireJoin`, `register`, `tunnel`, `switchEvent`, `switchLogin`,
`switched`, `switchFallback`, `recover`, `fireDisconnect`, `unregister`, `uncount`. One
action per stage, with each early return as a disjunct. `attached` is the server whose
socket the task holds, apart from `current_server_name` because a plugin can make them
differ. `Lookup` and `SendHeld` are the two halves of every read-then-send on the
registry (`/send`, the plugin interface): the sender's clone of `action_tx` may be used
after the player has moved or gone. `joined`, `told` and `kicked` record what plugins
were told and who was kicked, `rerouted` who was moved to the fallback after a failed
switch or a lost backend, for which no event is fired. `Awaiting` has the steps of a task
that end a wait for a backend, a client or a plugin, `Alone` the others.

**Tunnel.** `out` is `client_rx`, `hand` the packet `client_to_backend` holds across an
await, `pending`/`timers`/`woken` the suggestion map, its sleeping timers and those that
have taken an entry but not sent it. `Exit` is `select!` returning: everything in `out`
and the map go with it. `skipped`, `kicks`, `asked` and `answered` record what the
client got.

**BackendLogin.** The backend is the environment: it asks, announces compression and
accepts in any order a server may, with one restriction: it announces compression once
and with no request open, as servers do. `compressed` and `backend` are the two codec
states, switched at different moments; each packet carries the state it was written in.

**ClientHandler.** Likewise for the client side, with encryption and compression.
`config` (online mode, compression) and `servers` (which names are configured) are
chosen once, in the initial state.

**PlayerLogin.** `ClientHandler` up to `stage = "bridge"`, then the first part of `run()`:
the server-connect event (`BeginLogin`), `login_backend` (an instance of `BackendLogin`
with `fromBackend` and `muddled` for its `toProxy` and `garbled`), the failover to a
second login that starts afresh (`FailOver`), and the login success passed on (`Forward`).
The client may read what is on its way to it at any time meanwhile.

**PluginManager.** One event type stands for the ten, whose `fire_` methods differ in
data only. `handlers` is its list, `left` a task's clone of it, `calling` the plugin
whose `handle_event` the task awaits. Events without a cancel flag take `HandlerReturns`
only, those with one may take `HandlerCancels`. A guest may register whenever it runs, also
one that failed in `on_load` or was unloaded. In `PROJECT.json` each of the four actions is
mapped to the `fire_` methods that show it best.

**CommandDispatcher.** Who holds or waits for the dispatcher's lock: `Readers` are the
senders inside `handle_command` or `suggest_command`, `writing` the guests inside
`register`. A waiting writer keeps new readers out, as the standard library's lock does on
the platforms the proxy is built for. A guest runs one call at a time.
`FreeWorker` is about the runtime's threads: a task inside the dispatcher or at its lock
keeps its worker, since the lock is not an asynchronous one; a task that waits for a guest
gives it back (`block_in_place`); guests run on workers too (`TokioSpawner`). That a free
worker takes up what is ready is the runtime's part, and that a guest's store asks it for
one for each call the executor's, both outside this repository. `Event` stands for an event
of a connection and for `on_unload`.

**CommandTree.** `CommandDispatcher` with the `Commands` packets of backends on their way
to players: `Inject` is `inject_proxy_commands` on lists of nodes that refer to each other
by position, `sent` the last packet of each player with the commands it was made from. A
tree whose root is not the first node, or has flags, passes unchanged, as in the code.

**IdentityKey / ProxyServer.** `file` is what each place of the telemetry key holds: no
file, a torn one, or a key (keys are numbered as they are made). `at` and `io` are where
`resolve_identity_key` and `load_or_generate_key` are; `fs::write` is two steps, `Open` and
`Fill`. `Overlooks` is an `exists()` that answers no because it failed. `known` is the key
last in service. `ProxyServer` runs this search within its
start: `main` is where `main()` and `run()` are, `config` the configuration file, `signal`
the broadcast channel (`armed`, `sent`, and `closed` once the sender is dropped), `late`
the tasks that subscribed after the send. Telemetry, Bedrock listener, console and
connections are one variable each; `impatient` is chosen with each start and says whether
the timeout at exit elapses. `Killed` may come at any step and leaves only the files;
`Restart` starts the process again.

**Permissions.** The loop of `collect_permissions` step by step over every inheritance
graph, then `has_permission`; nodes are sequences of segments.

**RateLimiter.** Time is a counter; tokens are counted in `1/Unit` of one, exactly: the
rounding of the code's floating point numbers is not modelled. `unpruned` is what the buckets
would be if the map were never pruned. `window`, `count` and `cut` are the packet limiter of a
tunnel; `read` records the packets it let through.

**HostRouting / IconCache / ServerList.** `HostRouting` has the three lookups of a
handshake's host: by the router, for the text and for the icon. `IconCache` follows one
icon file: pings at each of the points where they touch it (metadata, read, stat), and an
editor; `torn` records which pings an edit has caught between `fs::read` and
`fs::metadata`. `ServerList` puts them together: pings for several hosts under a
configuration chosen in the initial state, with the entry last shown in `listing`.

**ProxyProtocol.** Bytes are their positions in the stream. Pieces of any size arrive;
the header ends at `headerLen`.

## What the runs check

Every run is `tlc -config <run>.cfg <module>`; `PROJECT.json` lists the module of each.

| run | question | answer |
|---|---|---|
| `bridge_unique` | Players with names of their own: is a connected player listed, on the server whose socket they use, and do plugins know where they are? Do the tasks and the registry implement `PlayerDirectory`? | yes (673,380 states) |
| `bridge_shared` | Two connections under one name, no fallback: is the counter exact, does no entry outlive its owner, is nobody listed before `PlayerJoin`, does a queued kick end the connection? | yes, the last if what `run()` waits for answers (184,009) |
| `bridge_kick_fallback` | With a fallback: is a kicked player gone? | **no**: the kick leaves the tunnel as a lost backend does, and the player is moved to the fallback |
| `tunnel` | Do pending suggestions leak, are matches sent twice or never, is a second disconnect packet written, when does a player miss packets of a backend that is kept? | no, no, no; only after a cancelled switch (1,033,708) |
| `plugin_events` | Does each dispatch run in priority, then registration order, whatever is registered meanwhile and by whom? | yes (250,747) |
| `commands` | What can stall commands, suggestions and loading? Does the client get exactly the commands of the backend and of the proxy? | if guests return, only that `handle_command` or `suggest_command` and `register_command` wait for each other, directly or for a worker; there is no way out of it, and in `on_load` only the console can cause it; yes (104,703) |
| `process_life` | Does Ctrl+C at any moment end the process? Is the notice sent if the endpoint answers and the timeout is not reached? Is the proxy known by the same key after a crash at any step? | yes, if plugins return from `on_load` and `on_unload`; yes; the key only as long as no I/O fails, and a good key file is kept even then unless its own `exists()` fails (814,556) |
| `permissions_walk` | All inheritance graphs over three groups: does the walk end with exactly the groups inherited, and does the answer follow the rules? | yes (850,404) |
| `rate_limits` | Does pruning let anybody in too often; does refusal end? How many packets pass in a second, and who is cut off? | no; yes; up to two windows' worth, and only who exceeds the limit within a second (2,402,476) |
| `server_list` | Can an old icon stay cached? Do text and icon belong to the server a login with the host goes to? | only if an edit falls between a read and its metadata call; yes, for plain hosts, with the default server's icon and the global text and icon for what a server has not of its own (256,576) |
| `proxy_header` | Any fragmentation: is the stream behind the header intact and complete? | yes (1,492) |
| `player_login` | Can client, proxy and backends decode each other's packets, are retries and answers exact, does the login end? | yes, except for the authentication kicks (804,344) |

### Where the properties stop

Most properties hold without conditions. The others say in their text what they exclude,
and the excluded case really happens in the model (and in the code):

- *Kick and fallback* (`bridge.rs:1396`): the finding in `PROJECT.json`. `src/session.rs:17`
  calls the action "Disconnect/kick the player with a reason".
- *Shared names* (`session.rs:62`): `unregister` removes whatever is stored under the
  name. `PlayersListed` fails for shared names, which is why `bridge_unique` and the
  theorem `PlayersAreListed` ask for distinct ones; in online mode the same account
  connecting twice is enough.
- *Lock cycle* (`command/mod.rs:278`, `316`): a plugin that registers an alias, or a second
  command, while somebody runs or completes its first one. Then `StallLasts` says what
  follows: nobody's command is run and no plugin registers any more.
- *No worker left* (`command/mod.rs:261`, `concurrent_store.rs:24`): a command of one plugin
  is running, another plugin waits to register, and everybody who asks for the lock behind
  it keeps a worker. Once they are as many as the runtime has workers, the first plugin's
  guest is not run and the command does not end. With one worker, as on a machine with one
  processor, a command typed at the console while plugins load is enough. `Stalled` is this
  or the cycle; `CommandsFinish` and `LoadingFinishes` are stated for behaviours without
  either; without that hypothesis TLC finds them violated.
- *Kicks and waits* (`bridge.rs:265`, `486`): writes to a client or a backend and event
  handlers have no timeout, and the one of a login starts again with each packet. A kick is
  read only after the wait; `KickEnds` has the end of such waits as a hypothesis (`Answered`).
- *Ctrl+C only* (`main.rs:41`): the comment at `telemetry.rs:520` says "Trigger shutdown
  telemetry on server termination / SIGTERM"; the process handles Ctrl+C only, and SIGTERM is
  one of the causes of `Killed`, after which no notice is sent. `NoticeFollows` is about
  Ctrl+C.
- *Torn read* (`status/icon.rs:70`): the time stamp is taken after the bytes, so an edit
  in between leaves the old image under the new stamp until the file changes again.
- *Cancelled switch* (`bridge.rs:606`): `run()` enters the tunnel again with the same
  backend after `client_rx`, and packets in it, were dropped.
- *Authentication kicks* (`client.rs:372`): the client encrypts from its encryption
  response on, and these kicks are written before `set_encryption`.
- *Line length* (`proxy_protocol.rs:53`): a version 1 line beyond 107 bytes is accepted
  when it arrives whole with the first read. No property forbids it; the case is in the run.
- *Hosts with a port, blanks or a server's name* (`status.rs:127`, `status/icon.rs:147`,
  `backend/mod.rs:22`): the server list cuts ports and blanks off and takes a server's name
  for a host; the router looks the host up as it is. For such hosts the list may show one
  server and the login go to another, so `ListMatchesRoute` is about the others.
- *I/O errors and the key* (`telemetry.rs`): when the key file cannot be read for once, the
  proxy goes on to the next place and may serve under another key; when `exists()` at line 217
  fails on a good key, a new one is written over it. `IdentityKept` is stated without such
  errors; `KeyFilesKept` says that the second is the only way a key is written over.
- *Registrations after the end* (`plugin/mod.rs:204`): a guest that failed in `on_load` or was
  unloaded may still be called, and may register. Nothing promises otherwise.
- *Two windows* (`rate_limiter.rs:97`): a second that spans two windows may hold twice the
  limit, which is the bound `PacketBound` states.
- *Late commands* (`bridge.rs:1334`): a command registered after the `Commands` packet is
  known to the dispatcher but not offered until the backend sends another packet.
- *First start* (`config.rs:404`): a kill during the first write of the configuration
  leaves a file every later start refuses.
- *Exit*: `run()` waits for the telemetry task only; `ShutdownCompletes` says that open
  connections do not delay the exit.

### Bounds, and why they are enough

- Two connections: registry conflicts are between an owner and one other; every property
  of `BackendBridge` mentions one connection, or a connection and an entry. The theorems
  cover any number. `bridge_unique` has the smallest set of servers with a switch and a
  fallback, and `ghost`, a name plugins may choose that is not configured. In
  `bridge_shared` one server is enough for switches (to the same server), and a queue of 3
  has a kick behind two of them.
- `Tunnel`: three requests of one id meet reuse of the id (a third timer while the first
  sleeps and the second has woken); two slots in each queue allow a packet behind another.
- `PluginManager`: three handlers, two plugins and two priorities give ties and an
  insertion before an existing handler.
- `CommandTree`: two names of one plugin are the smallest with a command that
  exists while its plugin registers; one of the two senders is the console, which may
  type while plugins are loaded; two workers can be used up by a writer and a reader behind
  it while a third task waits for a guest. Five backend trees have a command with the name of one of
  the proxy's, arguments, redirects to a command and to the root, and both shapes that pass
  unchanged; lines of three words follow a redirect to the root and a command behind it.
- `RateLimiter`: a token is 3 parts and the rate 2, so refills are not whole
  tokens; `MaxBuckets` 1 makes the second address prune the first; `KeepFor` meets
  `KeepFor * Rate >= Full`, as the code's 60 s do when the burst is at most 60 times
  the rate. Six ticks are two seconds, so that two windows and a stretch across them fit.
- `ServerList`: three edits, one of which writes a broken file; every configuration of two
  servers with or without lines, icons, a global icon and forced hosts; hosts that are a
  server's name or not, with and without a port.
- `ProxyServer`: two starts are a crash and what the next process makes of it, one I/O
  error the least that makes the search go on; three places are one that is tried first,
  one older versions used and one below `data/`. The theorems cover any number of each.
- `ProxyProtocol`: scaled lengths keep the order of the real ones (magic < fixed part <
  first read, line limit inside the first read), with headers that end before, in and
  behind the first read, a text header shorter than the fixed part of a binary one, and one
  longer than the stream.
- `Permissions`: three groups hold every cycle and diamond the walk treats differently.
- `PlayerLogin`: three packets of a backend are a request, the announcement of
  compression and the success, in every order; the sets of configured servers reach each
  source of `resolve_server` and the case without any; two attempts have one pause.

Runs with `CHECK_DEADLOCK FALSE` are those whose system ends (a process that exited, a
login that is over), whose counters are bounded, or, in `commands`, that really may stop.

### Fairness, and why the code justifies it

- `BackendBridge`: weak fairness of the steps a task takes by itself (`Alone`): the runtime
  polls ready tasks. What a task waits for is under no obligation. `KickEnds` has the end of
  the kicked task's own waits as a hypothesis, `Answered`.
- `Tunnel`: the writer is polled and timers run out.
- `CommandDispatcher`, and with it `CommandTree`: threads run, and the proxy's own commands
  return; a guest's store takes calls in order of arrival, so `CommandCall` gets strong
  fairness. Guests are under no obligation: that they return, if there is a worker for them
  again and again, is a hypothesis of `CommandsFinish` and `LoadingFinishes`
  (`GuestsReturn`). Backends need not send anything.
- `ProxyServer`: `run()` goes on; `select!` picks among ready branches at random, so the
  shutdown branch, ready from some point on, is taken although `accept` may be ready each
  time, and the telemetry task hears it between two heartbeats. A task that has sent the
  signal ends, and a timeout that can elapse does. Nobody has to start the process again. Nothing is assumed of HTTP in
  `ShutdownCompletes`, which has `PluginsReturn` as a hypothesis: `load_plugins` and
  `unload_plugins` wait for guests without a timeout. `NoticeFollows` has `HttpAnswers` as a hypothesis, which the 10 s
  timeout of the client gives.
- `PlayerLogin`: one weak fairness for the task: reads, connection attempts and the
  session server have timeouts. Two waits have none in the code and are assumed to end:
  event handlers return, and small writes fit the socket's buffer. Clients and backends
  may fall silent at any time. The timeout of a backend's login starts again with every
  packet, so that `LoginEnds` is about backends that send finitely many.
- `ServerList`: pings for one host go on and each is answered; nobody has to edit the file.
  `ProxyProtocol`: bytes on the way arrive.
- `Permissions`: the loop goes on.

## What is proved

TLAPS checks the proofs for every value of the constants, from the `ASSUME`s of the
modules, which TLC evaluates on the instances of the runs. They give the constants their
types, keep `NoServer` and the like apart from the servers and ask for a place to keep the
key. Those that say more are:

- `TreeAssumption`: the built-in commands are among those of `CommandDispatcher::new`, and a
  backend's tree is one a client accepts (`IsTree`: its root, children and redirects are
  nodes of the packet). A tree may have cycles, nodes with several parents or none, and any
  number of nodes; lines may have any number of words (`Depth`).
- `SiteAssumption`: a server's icon is in the entry of the server.
- `HeaderAssumption`: a header and the fixed part of a version 2 header hold the magic.

`UniqueNames`, `OneName` and `OnLoadOnly` are hypotheses of the theorems that name them.
Two proof modules extend two components each, which share no names and no state:
`AdmissionProofs` has `RateLimiter` and `ProxyProtocol`, `ProcessProofs` has `ProxyServer`
and `PluginManager`. Each theorem is about the specification it names.

| theorem | says |
|---|---|
| `OnlineCorrect` | the online counter is the number of tasks between `fetch_add` and `fetch_sub`, and all types |
| `NoGhosts` | no registry entry outlives the task that made it, shared names included |
| `RegistryCounted` | the registry never lists more players than the counter counts |
| `Announcements` | whoever is listed was announced by `PlayerJoin` |
| `NamesMatchBackends` | a configured server name is the name of the socket in use |
| `PlayersAreListed`, `BridgeImplementsDirectory` | with distinct names, every player with a tunnel is listed where they are, and the bridge implements `PlayerDirectory` |
| `PluginsKnowServer` | the last `ServerConnected` event named the player's server whenever packets flow, or the player was moved to the fallback since, after a failure |
| `PendingNeverLeaks` | every pending suggestion has a sleeping timer that will remove it |
| `MatchesNeverDoubled` | for ids used again and again, the matches the proxy sends for an id are at most the requests made with it |
| `OneGoodbye` | a player dropped by a kick or by their backend gets exactly one disconnect packet |
| `GapsAreCancelledSwitches` | packets of a backend that is kept are missed only after a cancelled switch |
| `NoWayOut` | once a reader of the lock and `register_command` wait for each other, directly or for a worker, nobody gets the lock and no plugin registers any more, for any number of workers |
| `OnLoadMeetsConsoleOnly` | what a plugin registers in `on_load` waits for no player's command |
| `OneNameNeverCycles`, `LocksNeverCycle` | no lock cycle at all when plugins have one name each, or when commands are registered in `on_load` and the console is silent |
| `OfferIsExact` | the lines a client can type are the backend's and the proxy's commands, nothing lost and nothing else, for every tree and every list of commands |
| `WalkCollectsMembership`, `WalkAddsOnce`, `DecisionsFollowRules` | the walk over inherited groups collects the least closed set, each group once, and the answer follows the rules |
| `AdmissionsBounded`, `RefusalsAlwaysEnd` | pruning lets nobody in whom an unpruned bucket would not (if `KeepFor * Rate >= Full`), and who keeps knocking is let in once a token has accrued |
| `PacketsBounded`, `CutsAreFloods` | no second lets through more than two windows' worth of packets, and who is cut sent more than the limit within a second |
| `StreamStaysIntact` | however header and stream are cut into pieces, the decoder gets the bytes behind the header, each once and in order |
| `CachedIsCurrent`, `ListImplementsCache`, `ListedIconIsCurrent` | a cached icon with the file's stamp is the file's content, torn reads apart, for any number of pings; the server list implements `IconCache`, so the same holds of it |
| `ListShowsRoute` | for every configuration and every plain host that is no server's name: the text is the global one or of the server a login goes to, the icon that server's, the default server's or the global one, and a server the host is forced to is shown with its own |
| `HandlersInOrder` | events visit their handlers in order of priority and registration, whoever registers when |
| `IdentitySurvives`, `KeyFilesNeverRewritten` | without I/O errors the key in service is found again after any crashes; with or without, a file that holds a key is written again only when `load_or_generate_key`'s `exists()` has just failed on it |
| `RetriesAreExact` | attempts and pauses are those configured, for every retry count and over a failover |
| `CodecsAgree` | proxy and backend never read a packet in another mode than it was written in, if the backend announces compression with no request open |
| `EveryRequestAnswered` | a backend's requests are answered once each, in order and on their channel, none is lost unless the login fails, and the player's data are given away only under a secret |
| `LoginStaysReadable` | the same for client and proxy, the authentication kicks apart |

The arguments:

- `BackendBridgeProofs`. Neither `TypeOK` nor `OnlineExact` is inductive: a login may
  only assign `target` to `attached` if `target` is a server at that stage. `Located`
  says which of `current`, `target` and `Fallback` are real at which stage, and
  `IInv == TypeOK /\ Located /\ OnlineExact` is inductive. `OnlineStep` splits the steps
  into those that add to `Counted`, remove from it or leave it, with the library's facts
  on cardinalities. The registry theorems share one lemma, `RegistrySteps`, which sorts
  every step into entering, moving, leaving and keeping; `NoGhosts`, `PlayersAreListed`
  and the refinement argue about these four cases instead of two dozen actions.
  `Announced` (a task that registers has fired `PlayerJoin`) and `Wired` (a configured
  `current` is the `target` of a login and then `attached`) strengthen
  `ListedWereAnnounced` and `NameMatchesBackend`. For the refinement, initial states map
  to initial states, and every step to a step of the directory or to a stutter.
  `Informed` extends `PluginViewCurrent` to every stage from the first event on, except
  between a switch and its event: from then on a task assigns `current` only on the way to an
  event, or with `rerouted`.
- `TunnelProofs`. `PendingHasTimer` with the types of two counters is inductive. `Arms`
  says that no disconnect packet has been written before the connection closes, and that
  `run()` switches only because of a Connect action; with that, `KickPacketOnce` and
  `GapOnlyByCancel` are inductive. `MatchesSentOnce` speaks of answers that are written or
  about to be; `Ledger` adds what may still become one: the requests made with an id are at
  least the entry in the map, the timers that have taken an entry, the answers in
  `client_rx` and those written (`Used`). Every step moves one unit along this list, and a
  request that replaces an entry drops one.
- `CommandTreeProofs`. For the lock, `Aimed` relates each waiting sender to a plugin with a
  name, and each waiting writer to a name it has left. `Linked` says that the sender a guest
  serves waits for that guest, so that no other guest's return releases it: a cycle stays
  (`StallStep`). `PlayersLater` says that players use the dispatcher only when loading is
  over. What holds of the dispatcher holds with the trees (`TreeIsDispatcher`). For the tree, three facts about `Inject` are by induction:
  `AddedPlaces` (after `m` turns of the loop the first `m` commands have their nodes, at the
  numbers the root's new children give), `LinesAre` (the lines of `d` words are what the
  recursive function says), and `SameLines` (below each of the backend's nodes the
  client's tree offers what the backend's does, with the proxy's commands wherever a line
  comes back to the root). `Client` is what the first gives of a tree. `Answers` says what
  each packet was made from, and `AnswerIsExact` that such a packet offers exactly
  that. `OfferExact` also says that what a client is offered stays known, which rests on
  `NamesStay`: nothing takes a name away.
- `PermissionsProofs`. `Walk` is the loop invariant of `collect_permissions`: what has
  been visited or queued belongs to every closed set, and what is missing from a closed
  set is still queued. `Decided` says where a verdict comes from. At the empty queue the
  visited groups are closed, and so the least closed set.
- `AdmissionProofs`. `PruneInv` compares each bucket with the one that is never dropped:
  it is no fuller and was refilled at the same time, and where it was dropped the other
  would be full by now (`Covered`). For refusals, `RefusalInv` says that a refused
  address's bucket holds all that has accrued since the first refusal, and less than a
  token. Both need that products are monotonic, a lemma of its own (`Accrues`). `Windows`
  is about packets: those since the window was opened are the count, those of a second
  before it are at most a window's. A second that ends in the window has its packets in
  these two. What `ReadBefore` sums up is by induction (`BeforeSums`, `BeforeGrows`).
  `Flow` follows the bytes of a header: up to the tunnel the parser's buffer is all that
  was read; from then on decoder and prefix together are what was read behind the header.
- `ServerListProofs`. `Stamps` follows a time stamp from the file through a task into the
  cache: it belongs to the bytes it is kept with unless an edit came between. Every step of
  `ServerList` is a step of `IconCache` or leaves it alone (`ListStep`), which is the
  refinement. `LookedUp` says that an entry is what the lookups say of its host, and
  `LookupsAgree` compares the three lookups for plain hosts.
- `ProcessProofs`. `OnlyKeySteps` reduces the steps of the process to those of the
  search. `KeyInv` says that no key is about to be written over unless `exists()` failed on it and, without I/O errors,
  that there is a single key file, that the search has not passed it, and that it holds the
  key once in service. `IdentityKept` alone is not inductive: it says nothing of a search
  that has yet to come to the file. `Registry` says of the handlers that serials are those
  of registrations made and that every list, clones included, is in order. `SortIs` shows that the stable sort is a permutation in
  order (`RankIs` and `RankOnto`: every position is the rank of one handler), which
  `InsertInOrder` uses for a handler pushed to the end.
- `PlayerLoginProofs`. `Trying` counts pauses with attempts. `Codec` has two cases: proxy
  and backend are in the same mode, and everything between them is (`InStep`), or one
  announcement is on its way (`Announced`): packets before it are in the old mode, those
  behind it in the new one, no request precedes it and no answer is on its way back. That
  the second case can only begin so rests on `Numbered`: an open request is on its way or
  its answer is. `Talk` is the client's side. `Heading` is the mode the handler is in or is
  about to enter at each stage; `Flow` says that a client that reads everything on its way
  is then in that mode, with at most one packet that changes the mode, the first. `Requests`
  strengthens `RequestsAnswered` on top of `Codec`: answers that are still on their way are
  to the request with their number too, a request on its way has the channel the backend
  noted, one without an answer is still to be read, and a success follows all answers.
  `Codec`, `Talk` and `Requests` were checked by TLC on the instance of `player_login` first.

The library's induction theorems have an operator for a parameter, which the provers
cannot instantiate. `LeastNumber` and `Induction` (in the two modules that need them) say
the same with a set of numbers, and the recursive functions `ReadBefore`, `Added` and `Lines`
are shown to exist before they are used.

Every invariant and action property that a run checks has a theorem. Only model-checked are:

- the liveness properties `KickEnds`, `RequestAnswered`, `CommandsFinish`,
  `LoadingFinishes`, `ShutdownCompletes`, `NoticeFollows`, `Terminates`, `HotReload`,
  `EverythingArrives` and `LoginEnds`: fairness and `ENABLED` are out of the prover's reach;
- `KickSticks`, which does not hold.

## Inventory

Every part of the repository, its state and what is hard about it. Properties in
parentheses are not stated yet.

| part | state | operations | hard because | properties |
|---|---|---|---|---|
| `session.rs` | map by lower-case name | register, unregister, update_server, lookups | connections share names; readers keep senders | `NoGhostSession`, `PlayersListed`, `ImplementsDirectory` |
| `backend/bridge.rs` `run` | current server, sockets, counter, queue | connect, switch, fall back, leave | a dozen awaits, many early returns | `OnlineExact`, `NameMatchesBackend`, `PluginViewCurrent`, `ListedWereAnnounced`, `KickEnds` |
| `bridge_tunnel` | client_rx, pending suggestions, timers; node lists | four futures in `select!`; inject commands | dropped futures, timers against answers; positions as references | `PendingHasTimer`, `MatchesSentOnce`, `RequestAnswered`, `KickPacketOnce`, `GapOnlyByCancel`, `OfferExact` |
| `connect_to_backend`, `login_backend` | attempt, codec state | retry, answer, switch compression | codec changes in mid-conversation, failover | `AttemptsExact`, `RequestsAnswered`, `ConversationReadable` |
| `client.rs`, `auth.rs` | login state, codec state | handshake, status, login | order of encryption, compression and kicks; silence | `LoginReadable`, `LoginEnds` |
| `backend/mod.rs`, `status.rs` | configuration | route, show | three lookups of one host | `ListMatchesRoute` |
| `plugin/` | plugins, handler list | load, register, fire, unload | registration during dispatch and unload | `PriorityOrder` (what several handlers make of one event) |
| `command/` | command tree under a lock | register, has_command, handle_command, suggest, list | lock and workers held while guests run | `StallLasts`, `CycleOrigins`, `CommandsFinish`, `LoadingFinishes`, `OfferExact` |
| `permissions.rs` | configuration | collect, decide | cycles, negation | `CollectsMembership`, `DecisionFollowsRules`, `Terminates` |
| `security/rate_limiter.rs` | buckets; packet window | admit, prune, refill; count | refills in small steps, pruning; stretches across windows | `AdmissionBound`, `RefusalsEnd`, `PacketBound`, `OnlyFloodsCut` |
| `network/` | read buffer, prefix | parse, read | fragmentation | `StreamIntact`, `EverythingArrives` |
| `status/icon.rs` | cache | look up, reload | file changes during a reload | `CacheMatchesFile`, `HotReload` |
| `main.rs`, `proxy.rs`, `bedrock/listener.rs` | tasks, broadcast | spawn, accept, stop | signal at any moment, late subscribers | `ShutdownCompletes`, `NoticeFollows` |
| `telemetry.rs`, `config.rs` | key file, configuration file, heartbeat | search, create, beat, notify | crash or error between opening and filling a file | `IdentityKept`, `KeyFilesKept` |
| `backend/forwarding.rs`, `security/sanitizer.rs`, `bedrock/status.rs` | none | encode, check | - | - |

### Not modelled, and why

- `backend/forwarding.rs`, `bedrock/status.rs` and the documents of `status.rs`: byte
  layouts, JSON and HMACs, without state.
- `security/sanitizer.rs`: character classes; the login takes both outcomes.
- Parsing and defaults of `config.rs`: the values are `CONSTANTS` or chosen initially.
- `network/mod.rs`: socket options. `plugin/loader/`: the WebAssembly engine, its linker and
  resource tables are library code; the host functions that change the proxy's state are
  actions of the modules of that state.
- `auth.rs`: the HTTP request is one step that succeeds or fails.
- `PlayerAction::Transfer`: nothing in the repository sends it.
- Merging and sorting of suggestions, and what the handlers of an event change in it other
  than cancelling it: data the properties do not tell apart.
- A write that `select!` cuts off inside a packet: what of it stays in the buffer is decided
  by the encoder of the protocol library.
- The configuration phase of clients and backends across switches: the proxy passes these
  packets on unread, and what either end accepts when is not in this repository.

What is left of the source is of these kinds, reads of the registry for printing, and tests.

## Plan

1. Compose more: `PlayerLogin` with `BackendBridge`, so that switches use `BackendLogin`.
2. Model what several handlers of different priority make of one event.
