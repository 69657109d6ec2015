---------------------------- MODULE ClientHandler ----------------------------
(***************************************************************************)
(* ClientHandler, client.rs: one client from its handshake until its       *)
(* bridge is run.  Proxy and client write packets to each other; every     *)
(* packet carries the encryption and the compression it was written with,  *)
(* and can be read only by a reader who has switched to them.  The client  *)
(* is external: it answers as the protocol asks, sends a packet out of     *)
(* turn, or falls silent.                                                  *)
(***************************************************************************)
EXTENDS Naturals, Sequences, HostRouting

CONSTANTS
    ValidateUsernames,   \* config.security.validate_usernames
    TryFallback,         \* config.routing.try_fallback_on_connect_failure
    Configured,          \* the sets of names config.servers may have entries for
    ForcedServer         \* config.routing.forced_hosts at the client's host

ASSUME HandlerAssumption ==
    /\ {ValidateUsernames, TryFallback} \subseteq BOOLEAN
    /\ Configured \subseteq SUBSET Names
    /\ ForcedServer \in Names \cup {NoServer}

VARIABLES
    config,              \* online_mode, and whether there is a compression_threshold
    servers,             \* the names config.servers has an entry for
    stage,               \* what the handler is about to do
    proxy,               \* how the proxy's encoder and decoder are set
    client,              \* how the client's are
    toClient, toProxy,   \* packets on their way
    kicked,              \* why the client was kicked
    garbled,             \* packets whose reader could not decode them
    route                \* the server the bridge connects to and its fallback

clientVars == <<config, servers, stage, proxy, client, toClient, toProxy, kicked, garbled, route>>

Plain == [encrypted |-> FALSE, compressed |-> FALSE]
Packet(k, m) == [kind |-> k, mode |-> m]

\* What a client sends of its own accord; its other packets are answers.
Openings ==
    {<<"toStatus", "statusRequest">>, <<"toStatus", "statusRequest", "other">>,
     <<"toStatus", "other", "ping">>, <<"toLogin", "loginStart">>, <<"toOther">>}

ClientInit ==
    /\ config \in [online : BOOLEAN, compression : BOOLEAN]
    /\ servers \in Configured
    /\ stage = "handshake"
    /\ proxy = Plain /\ client = Plain
    /\ toClient = <<>>
    /\ \E o \in Openings : toProxy = [i \in DOMAIN o |-> Packet(o[i], Plain)]
    /\ kicked = "no"
    /\ garbled = {}
    /\ route = [server |-> NoServer, fallback |-> NoServer]

-----------------------------------------------------------------------------
(* Packets between the two.  Send uses the encoder as the step leaves it.   *)

Send(k) == toClient' = Append(toClient, Packet(k, proxy'))

\* write_packet and flush; an error of either ends the handler.
Write(k, next) ==
    \/ Send(k) /\ stage' = next
    \/ UNCHANGED toClient /\ stage' = "closed"

\* kick: its own write errors are dropped, and the handler returns.
kick(why) ==
    /\ Send("kick") \/ UNCHANGED toClient
    /\ kicked' = why
    /\ stage' = "closed"

\* get_raw_packet: the next packet of the client.
Read(at, k) ==
    /\ stage = at /\ toProxy # <<>> /\ Head(toProxy).kind = k
    /\ toProxy' = Tail(toProxy)
    /\ garbled' = IF Head(toProxy).mode = proxy THEN garbled ELSE garbled \cup {k}
    /\ UNCHANGED <<config, servers, proxy, client, route>>

\* A step that reads nothing from the client.
Local == UNCHANGED <<config, servers, client, toProxy, garbled>>

\* Mutant: the wait for the encryption response has no timeout.
ReadFailsButEncryption ==
    /\ stage \in {"handshake", "status", "ping", "loginStart"}
    /\ stage' = "closed"
    /\ UNCHANGED <<proxy, toClient, kicked, route>> /\ Local

\* A read ends the handler, without a kick: nothing came within its timeout, the client
\* has gone, or the packet does not parse.
ReadFails ==
    /\ stage \in {"handshake", "status", "ping", "loginStart", "encryption"}
    /\ stage' = "closed"
    /\ UNCHANGED <<proxy, toClient, kicked, route>> /\ Local

-----------------------------------------------------------------------------
(* handle and handle_status.                                                *)

ReadHandshake ==
    /\ \/ Read("handshake", "toStatus") /\ stage' = "status"
       \/ Read("handshake", "toLogin") /\ stage' = "loginStart"
       \/ Read("handshake", "toOther") /\ stage' = "closed"
    /\ UNCHANGED <<toClient, kicked>>

\* A status request is answered; any other packet is passed over.
ReadStatus ==
    /\ \/ Read("status", "statusRequest") /\ Write("status", "ping")
       \/ Read("status", "other") /\ stage' = "ping" /\ UNCHANGED toClient
    /\ UNCHANGED kicked

ReadPing ==
    /\ \/ Read("ping", "ping") /\ (Send("pong") \/ UNCHANGED toClient)
       \/ Read("ping", "other") /\ UNCHANGED toClient
    /\ stage' = "closed"
    /\ UNCHANGED kicked

-----------------------------------------------------------------------------
(* handle_login.                                                            *)

ReadLoginStart ==
    /\ Read("loginStart", "loginStart")
    /\ stage' = "preLogin"
    /\ UNCHANGED <<toClient, kicked>>

\* The pre-login event, the user name's check, and the encryption request.
PreLogin ==
    /\ stage = "preLogin"
    /\ UNCHANGED <<proxy, route>> /\ Local
    /\ \/ kick("pre-login cancelled")
       \/ ValidateUsernames /\ kick("invalid name")
       \/ config.online /\ Write("encryptionRequest", "encryption") /\ UNCHANGED kicked
       \/ ~config.online /\ stage' = "loginEvent" /\ UNCHANGED <<toClient, kicked>>

\* Token and secret are decrypted, or the handler fails; then they are examined.
ReadEncryptionResponse ==
    /\ Read("encryption", "encryptionResponse")
    /\ \/ kick("token") \/ kick("key length")
       \/ stage' \in {"authenticate", "closed"} /\ UNCHANGED <<toClient, kicked>>

\* The session server is asked, and only then are the streams encrypted.
Authenticate ==
    /\ stage = "authenticate"
    /\ UNCHANGED route /\ Local
    /\ \/ UNCHANGED proxy /\ kick("authentication")
       \/ /\ proxy' = [proxy EXCEPT !.encrypted = TRUE]
          /\ stage' = "loginEvent"
          /\ UNCHANGED <<toClient, kicked>>

\* Mutant: the encoder compresses before the client is told.
LoginEventEarly ==
    /\ stage = "loginEvent"
    /\ UNCHANGED <<route, kicked>> /\ Local
    /\ proxy' = [proxy EXCEPT !.compressed = config.compression]
    /\ Send("setCompression") /\ stage' = "route"

\* The login event, and the announcement of compression.
LoginEvent ==
    /\ stage = "loginEvent"
    /\ UNCHANGED <<proxy, route>> /\ Local
    /\ \/ kick("login cancelled")
       \/ config.compression /\ Write("setCompression", "route") /\ UNCHANGED kicked
       \/ ~config.compression /\ stage' = "route" /\ UNCHANGED <<toClient, kicked>>

fallback_server == IF TryFallback /\ FallbackServer \in servers THEN FallbackServer ELSE NoServer

\* config.compression is switched on, the server resolved and the bridge started.
Route ==
    /\ stage = "route"
    /\ proxy' = [proxy EXCEPT !.compressed = config.compression]
    /\ Local
    /\ \/ resolve_server(servers, ForcedServer) = {} /\ kick("no server") /\ UNCHANGED route
       \/ \E s \in resolve_server(servers, ForcedServer) :
            /\ route' = [server |-> s, fallback |-> fallback_server]
            /\ stage' = "bridge"
            /\ UNCHANGED <<toClient, kicked>>

-----------------------------------------------------------------------------
(* The client.                                                              *)

Reply(k) == toProxy' = Append(toProxy, Packet(k, client))

\* A client encrypts once it has sent its encryption response and compresses once it
\* is told to; a packet it cannot decode is the last it reads.
ClientReads ==
    /\ toClient # <<>> /\ garbled = {}
    /\ toClient' = Tail(toClient)
    /\ LET p == Head(toClient) IN
       \/ p.mode # client /\ garbled' = {p.kind} /\ UNCHANGED <<client, toProxy>>
       \/ /\ p.mode = client /\ UNCHANGED garbled
          /\ \/ p.kind = "status" /\ Reply("ping") /\ UNCHANGED client
             \/ /\ p.kind = "encryptionRequest" /\ Reply("encryptionResponse")
                /\ client' = [client EXCEPT !.encrypted = TRUE]
             \/ /\ p.kind = "setCompression" /\ UNCHANGED toProxy
                /\ client' = [client EXCEPT !.compressed = TRUE]
             \/ /\ p.kind \in {"pong", "kick", "loginSuccess"}
                /\ UNCHANGED <<client, toProxy>>
    /\ UNCHANGED <<config, servers, stage, proxy, kicked, route>>

-----------------------------------------------------------------------------
Handler ==
    \/ ReadFails \/ ReadHandshake \/ ReadStatus \/ ReadPing \/ ReadLoginStart \/ PreLogin
    \/ ReadEncryptionResponse \/ Authenticate \/ LoginEvent \/ Route

-----------------------------------------------------------------------------
(* Properties.                                                              *)

\* Kicks written between the client's encryption response and set_encryption.
AuthKicks == {"token", "key length", "authentication"}

\* Proxy and client can decode each other's packets through the whole login, except for
\* a kick that follows a failed authentication.
LoginReadable == garbled # {} => garbled = {"kick"} /\ kicked \in AuthKicks
=============================================================================
