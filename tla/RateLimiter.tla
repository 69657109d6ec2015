----------------------------- MODULE RateLimiter -----------------------------
(***************************************************************************)
(* security/rate_limiter.rs.  ConnectionRateLimiter is a token bucket per  *)
(* address, in a map that is pruned when it grows too large.  Time is      *)
(* counted in ticks and tokens in parts: a token has Unit parts and Unit   *)
(* ticks are a second, so that Rate tokens per second are Rate parts per   *)
(* tick.  (The code counts both in f64.)  PacketRateLimiter counts the     *)
(* packets of one tunnel in windows of a second; bridge_tunnel makes a new *)
(* one for every tunnel and ends the tunnel at the first refusal.          *)
(***************************************************************************)
EXTENDS Integers, FiniteSets

CONSTANTS
    Ips,
    Rate,        \* max_connections_per_sec
    Burst,       \* connection_burst
    Unit,        \* parts of a token, ticks of a second
    MaxBuckets,  \* 10_000
    KeepFor,     \* 60 s, in ticks
    MaxPackets,  \* max_packets_per_sec
    MaxTime      \* bound: ticks

ASSUME LimiterAssumption ==
    /\ Rate \in Nat /\ Burst \in Nat /\ Unit \in Nat \ {0}
    /\ MaxBuckets \in Nat /\ KeepFor \in Nat /\ MaxPackets \in Nat /\ MaxTime \in Nat

VARIABLES
    now,
    bucket,   \* buckets; an address without one has none
    unpruned, \* what the buckets would be if none were ever dropped
    refused,  \* per address, when its current run of refusals began
    window,   \* window_start of a tunnel's limiter
    count,    \* its packet_count
    read,     \* per tick, the packets its tunnel has read
    cut       \* it has refused one, and its tunnel has ended

connections == <<bucket, unpruned, refused>>
packets == <<window, count, read, cut>>
vars == <<now, connections, packets>>

NoBucket == [tokens |-> -1, last |-> -1]
Full == Burst * Unit
Never == -1
NoPackets == [t \in 0 .. MaxTime |-> 0]

Init ==
    /\ now = 0
    /\ bucket = [a \in Ips |-> NoBucket]
    /\ unpruned = [a \in Ips |-> [tokens |-> Full, last |-> 0]]
    /\ refused = [a \in Ips |-> Never]
    /\ window = 0 /\ count = 0 /\ read = NoPackets /\ cut = FALSE

Tick ==
    /\ now < MaxTime
    /\ now' = now + 1
    /\ UNCHANGED <<connections, packets>>

-----------------------------------------------------------------------------
(* ConnectionRateLimiter.                                                   *)

\* Mutant: any bucket may be dropped when there are too many.
RetainNone == [a \in Ips |-> NoBucket]

\* The map after the pruning at the start of check_connection.
Retain ==
    IF Cardinality({a \in Ips : bucket[a] # NoBucket}) > MaxBuckets
    THEN [a \in Ips |-> IF now - bucket[a].last < KeepFor THEN bucket[a] ELSE NoBucket]
    ELSE bucket

\* Mutant: parts of a token that have accrued are lost.
RefillTruncates(b) ==
    LET all == b.tokens + (((now - b.last) * Rate) \div Unit) * Unit
    IN  IF all < Full THEN all ELSE Full

\* What try_consume finds in the bucket.
Refill(b) ==
    LET all == b.tokens + (now - b.last) * Rate
    IN  IF all < Full THEN all ELSE Full

\* The address's bucket, made full if there is none, pays for the connection if it can.
check_connection(a) ==
    LET kept == Retain
        b == IF kept[a] = NoBucket THEN [tokens |-> Full, last |-> now] ELSE kept[a]
        allowed == Refill(b) >= Unit
        Pay(tokens) == [tokens |-> IF allowed THEN tokens - Unit ELSE tokens, last |-> now]
    IN  /\ bucket' = [kept EXCEPT ![a] = Pay(Refill(b))]
        /\ unpruned' = [unpruned EXCEPT ![a] = Pay(Refill(@))]
        /\ refused' = [refused EXCEPT ![a] =
                         IF allowed THEN Never ELSE IF @ = Never THEN now ELSE @]
        /\ UNCHANGED <<now, packets>>

-----------------------------------------------------------------------------
(* PacketRateLimiter.                                                       *)

\* run() enters a tunnel, again after a switch.
NewTunnel ==
    /\ window' = now /\ count' = 0 /\ read' = NoPackets /\ cut' = FALSE
    /\ UNCHANGED <<now, connections>>

\* Mutant: the packet that opens a window is not counted.
RecordFree ==
    /\ window' = now /\ count' = 0
    /\ UNCHANGED cut

\* Mutant: a window opens, but the count goes on.
RecordNoReset ==
    /\ window' = now /\ count' = count + 1
    /\ cut' = (count' > MaxPackets)

\* The first packet after a second opens a window and passes.
RecordFirst ==
    /\ window' = now /\ count' = 1
    /\ UNCHANGED cut

RecordNext ==
    /\ count' = count + 1
    /\ cut' = (count' > MaxPackets)
    /\ UNCHANGED window

\* The tunnel reads a packet; how many a window may have beyond the limit does not matter.
record_packet ==
    /\ ~cut
    /\ IF now - window >= Unit THEN RecordFirst ELSE RecordNext
    /\ read' = [read EXCEPT ![now] = @ + 1]
    /\ UNCHANGED <<now, connections>>

-----------------------------------------------------------------------------
Next ==
    \/ Tick
    \/ \E a \in Ips : check_connection(a)
    \/ NewTunnel \/ record_packet

Spec == Init /\ [][Next]_vars

-----------------------------------------------------------------------------
(* Properties.                                                              *)

\* Pruning gives no address more connections than the burst and the rate allow: each
\* could be paid for by a bucket that is never dropped.  That is so if a bucket refills
\* within the time it is kept (60 s).
AdmissionBound ==
    KeepFor * Rate >= Full => \A a \in Ips : unpruned[a].tokens >= 0

\* Knocking again and again does not keep an address out: by the time a token has
\* accrued since the first refusal, the next connection is let in.
RefusalsEnd ==
    \A a \in Ips : refused[a] # Never /\ Burst > 0 => (bucket[a].last - refused[a]) * Rate < Unit

\* Packets read before each tick, if r are the packets read in each.
ReadBefore(r) ==
    LET before[n \in 0 .. MaxTime + 1] == IF n = 0 THEN 0 ELSE before[n - 1] + r[n - 1]
    IN  before

\* Packets read in the second that starts with tick t.
ReadFrom(t) ==
    LET end == IF t + Unit > MaxTime + 1 THEN MaxTime + 1 ELSE t + Unit
    IN  ReadBefore(read)[end] - ReadBefore(read)[t]

\* A tunnel lets through, in any stretch of a second, at most two windows' worth.
PacketBound ==
    \A t \in 0 .. MaxTime :
        ReadFrom(t) <= 2 * (IF MaxPackets > 0 THEN MaxPackets ELSE 1) + (IF cut THEN 1 ELSE 0)

\* A player who keeps to the limit in every stretch of a second is not disconnected for
\* flooding, wherever the windows happen to lie.
OnlyFloodsCut == cut => \E t \in 0 .. MaxTime : ReadFrom(t) > MaxPackets
=============================================================================
