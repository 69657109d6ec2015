---------------------------- MODULE TunnelProofs ----------------------------
(***************************************************************************)
(* For any ids, channel and request bounds: suggestion entries never leak, *)
(* a player is told once that the connection is over, and misses packets   *)
(* only by a cancelled switch.                                             *)
(***************************************************************************)
EXTENDS Tunnel, FiniteSetTheorems, TLAPS

\* The part of the types the argument needs.
Counters == timers \in [Ids -> Nat] /\ pending \subseteq Ids

Inv == Counters /\ PendingHasTimer

\* Only an entry's last timer keeps it in the map: SuggestRoot makes both, and
\* whichever timer of the id wakes first takes the entry with it.
LEMMA InvStep == Inv /\ [Next]_vars => Inv'
<1> SUFFICES ASSUME Inv, [Next]_vars PROVE Inv'
  OBVIOUS
<1> USE DEF Inv, Counters, PendingHasTimer
<1>1. CASE UNCHANGED <<pending, timers>>
  BY <1>1
<1>2. CASE \E w, p \in {"none", "client", "backend", "connect", "kick", "closed",
                        "rerouting", "switching"} : Exit(w, p)
  BY <1>2 DEF Exit, Zero
<1>3. ASSUME NEW i \in Ids, SuggestRoot(i) PROVE Inv'
  BY <1>3 DEF SuggestRoot, Plus
<1>4. ASSUME NEW i \in Ids, BackendAnswer(i) PROVE Inv'
  BY <1>4 DEF BackendAnswer
<1>5. ASSUME NEW i \in Ids, TimerWakes(i) PROVE Inv'
  BY <1>5 DEF TimerWakes, Minus
<1>6. CASE ClientToBackend
  BY <1>1, <1>2, <1>3, <1>6 DEF ClientToBackend, ReadPacket, SuggestArguments, EventDone,
     Forward, ForwardFails, ClientEnds, suggesting
<1>7. CASE BackendToClient
  BY <1>1, <1>2, <1>4, <1>7 DEF BackendToClient, BackendPacket, BackendEnds, suggesting
<1>8. CASE Timers
  BY <1>1, <1>5, <1>8 DEF Timers, TimerAnswers
<1>9. CASE ActionLoop \/ ClientWriter
  BY <1>1, <1>2, <1>9 DEF ActionLoop, ClientWriter, TakeMessage, TakeConnect, TakeDisconnect,
     Write, WriteFails, suggesting
<1>10. CASE BetweenTunnels \/ SendAction \/ UNCHANGED vars
  BY <1>1, <1>10 DEF BetweenTunnels, SwitchCancelled, Switched, SwitchFails, Rerouted,
     RerouteFails, SendAction, suggesting, vars
<1> QED BY <1>6, <1>7, <1>8, <1>9, <1>10 DEF Next

\* Whatever ids the client reuses and however the answers race the timers, every
\* entry of pending_suggestions has a sleeping timer that will take it out.
THEOREM PendingNeverLeaks == Spec => []PendingHasTimer
<1>1. Init => Inv
  BY DEF Init, Inv, Counters, PendingHasTimer, Zero
<1>2. Inv => PendingHasTimer
  BY DEF Inv
<1> QED BY <1>1, <1>2, InvStep, PTL DEF Spec

-----------------------------------------------------------------------------
\* Disconnect packets are written only by the arms of run() that leave the loop, and
\* run() is in its Connect arm only because of a Connect.
Arms ==
    /\ phase # "closed" => kicks = 0
    /\ KickPacketOnce
    /\ phase = "switching" => why = "connect"
    /\ GapOnlyByCancel

\* The tunnel's exits write none; each arm that closes the connection accounts for its
\* own, and the arms that take a new backend forget the old one's packets.
LEMMA ArmsStep == Arms /\ [Next]_vars => Arms'
<1> SUFFICES ASSUME Arms, [Next]_vars PROVE Arms'
  OBVIOUS
<1> USE DEF Arms, KickPacketOnce, GapOnlyByCancel
<1>1. CASE UNCHANGED <<phase, player>>
  BY <1>1 DEF player
<1>2. ASSUME phase = "tunnel", NEW w, NEW p, Exit(w, p),
             <<w, p>> \in {<<"client", "closed">>, <<"backend", "rerouting">>,
                          <<"kick", "rerouting">>, <<"connect", "switching">>}
      PROVE  Arms'
  BY <1>2 DEF Exit
<1>3. CASE ClientToBackend
  BY <1>1, <1>2, <1>3 DEF ClientToBackend, ReadPacket, SuggestArguments, EventDone, SuggestRoot,
     Forward, ForwardFails, ClientEnds
<1>4. CASE BackendToClient \/ Timers
  BY <1>1, <1>2, <1>4 DEF BackendToClient, BackendPacket, BackendAnswer, BackendEnds, Timers,
     TimerWakes, TimerAnswers
<1>5. CASE ActionLoop \/ ClientWriter
  BY <1>1, <1>2, <1>5 DEF ActionLoop, ClientWriter, TakeMessage, TakeConnect, TakeDisconnect,
     Write, WriteFails
<1>6. CASE BetweenTunnels
  <2>1. CASE SwitchCancelled \/ Switched \/ Rerouted
    BY <2>1 DEF SwitchCancelled, Switched, Rerouted, player
  <2>2. CASE SwitchFails \/ RerouteFails
    BY <2>2 DEF SwitchFails, RerouteFails
  <2> QED BY <1>6, <2>1, <2>2 DEF BetweenTunnels
<1>7. CASE SendAction \/ UNCHANGED vars
  BY <1>1, <1>7 DEF SendAction, vars, player
<1> QED BY <1>3, <1>4, <1>5, <1>6, <1>7 DEF Next

\* A player who is kicked or loses the backend for good is told exactly once, although
\* action_loop and run() both send a disconnect packet for a kick.
THEOREM OneGoodbye == Spec => []KickPacketOnce
<1>1. Init => Arms
  BY DEF Init, Arms, KickPacketOnce, GapOnlyByCancel
<1>2. Arms => KickPacketOnce
  BY DEF Arms
<1> QED BY <1>1, <1>2, ArmsStep, PTL DEF Spec

\* However long the player stays and whatever ends the tunnels, packets of a backend
\* the player is still on were dropped only by a switch that a plugin cancelled.
THEOREM GapsAreCancelledSwitches == Spec => []GapOnlyByCancel
<1>1. Init => Arms
  BY DEF Init, Arms, KickPacketOnce, GapOnlyByCancel
<1>2. Arms => GapOnlyByCancel
  BY DEF Arms
<1> QED BY <1>1, <1>2, ArmsStep, PTL DEF Spec

-----------------------------------------------------------------------------
\* How often v is in s.
Occurrences(s, v) == Cardinality({j \in DOMAIN s : s[j] = v})

\* A sequence holds a value finitely often.
LEMMA OccurrencesType ==
    ASSUME NEW S, NEW s \in Seq(S), NEW v
    PROVE  /\ IsFiniteSet({j \in DOMAIN s : s[j] = v})
           /\ Occurrences(s, v) \in Nat
<1>1. IsFiniteSet(1 .. Len(s))
  BY FS_Interval
<1>2. {j \in DOMAIN s : s[j] = v} \subseteq 1 .. Len(s)
  OBVIOUS
<1>3. IsFiniteSet({j \in DOMAIN s : s[j] = v})
  BY <1>1, <1>2, FS_Subset
<1> QED BY <1>3, FS_CardinalityType DEF Occurrences

\* A fresh or dropped client_rx holds nothing.
LEMMA OccurrencesEmpty ==
    ASSUME NEW v
    PROVE  Occurrences(<<>>, v) = 0
<1>1. {j \in DOMAIN <<>> : <<>>[j] = v} = {}
  OBVIOUS
<1> QED BY <1>1, FS_EmptySet DEF Occurrences

\* Sending a packet adds one occurrence of it and of nothing else.
LEMMA OccurrencesAppend ==
    ASSUME NEW S, NEW s \in Seq(S), NEW w \in S, NEW v
    PROVE  Occurrences(Append(s, w), v) = Occurrences(s, v) + (IF w = v THEN 1 ELSE 0)
<1> DEFINE A == {j \in DOMAIN s : s[j] = v}
           B == {j \in DOMAIN Append(s, w) : Append(s, w)[j] = v}
<1>1. IsFiniteSet(A) /\ Cardinality(A) \in Nat
  BY OccurrencesType, Zenon DEF Occurrences
<1>2. Occurrences(s, v) = Cardinality(A) /\ Occurrences(Append(s, w), v) = Cardinality(B)
  BY DEF Occurrences
<1>3. CASE w = v
  <2>1. B = A \cup {Len(s) + 1}
    BY <1>3
  <2>2. Len(s) + 1 \notin A
    OBVIOUS
  <2>3. Cardinality(A \cup {Len(s) + 1}) = Cardinality(A) + 1
    BY <1>1, <2>2, FS_AddElement, Zenon
  <2> HIDE DEF A, B
  <2> QED BY <1>2, <1>3, <2>1, <2>3
<1>4. CASE w # v
  <2>1. B = A
    BY <1>4
  <2> HIDE DEF A, B
  <2> QED BY <1>2, <1>1, <1>4, <2>1
<1> QED BY <1>3, <1>4

\* Writing the first packet takes one occurrence of it away and of nothing else.
LEMMA OccurrencesTail ==
    ASSUME NEW S, NEW s \in Seq(S), s # <<>>, NEW v
    PROVE  Occurrences(s, v) = Occurrences(Tail(s), v) + (IF Head(s) = v THEN 1 ELSE 0)
<1> DEFINE A == {j \in DOMAIN s : s[j] = v}
           B == {j \in DOMAIN Tail(s) : Tail(s)[j] = v}
           f == [j \in B |-> j + 1]
<1>1. /\ Len(s) \in Nat /\ Len(s) > 0 /\ DOMAIN s = 1 .. Len(s)
      /\ Tail(s) \in Seq(S) /\ DOMAIN Tail(s) = 1 .. Len(s) - 1
      /\ \A j \in 1 .. Len(s) - 1 : Tail(s)[j] = s[j + 1]
      /\ Head(s) = s[1]
  OBVIOUS
<1>2. IsFiniteSet(A) /\ IsFiniteSet(B) /\ Cardinality(B) \in Nat
  BY <1>1, OccurrencesType, Zenon DEF Occurrences
<1>3. Occurrences(s, v) = Cardinality(A) /\ Occurrences(Tail(s), v) = Cardinality(B)
  BY DEF Occurrences
<1>4. f \in Bijection(B, A \ {1})
  <2>1. \A j \in B : j + 1 \in A \ {1}
    BY <1>1
  <2>2. \A j, k \in B : j + 1 = k + 1 => j = k
    BY <1>1
  <2>3. \A k \in A \ {1} : k - 1 \in B /\ (k - 1) + 1 = k
    BY <1>1
  <2> HIDE DEF A, B
  <2>4. f \in Injection(B, A \ {1})
    BY <2>1, <2>2 DEF Injection, IsInjective
  <2>5. f \in Surjection(B, A \ {1})
    BY <2>1, <2>3 DEF Surjection
  <2> QED BY <2>4, <2>5 DEF Bijection
<1>5. Cardinality(A \ {1}) = Cardinality(B)
  <2> HIDE DEF A, B, f
  <2> QED BY <1>2, <1>4, FS_Bijection DEF ExistsBijection
<1>6. CASE Head(s) = v
  <2>1. 1 \in A
    BY <1>1, <1>6
  <2>2. Cardinality(A \ {1}) = Cardinality(A) - 1 /\ Cardinality(A) \in Nat
    BY <1>2, <2>1, FS_RemoveElement, FS_CardinalityType, Zenon
  <2> HIDE DEF A, B
  <2> QED BY <1>3, <1>2, <1>5, <1>6, <2>2
<1>7. CASE Head(s) # v
  <2>1. A \ {1} = A
    BY <1>1, <1>7
  <2>2. Cardinality(A) = Cardinality(B)
    BY <1>5, <2>1, Zenon
  <2> HIDE DEF A, B
  <2> QED BY <1>2, <1>3, <1>7, <2>2
<1> QED BY <1>6, <1>7

\* An answer is told apart from the other packets and by its id.
LEMMA AnswersDiffer ==
    ASSUME NEW i, NEW j
    PROVE  /\ Answer(i) # Data /\ Answer(i) # Reply
           /\ Answer(i) = Answer(j) <=> i = j
<1>1. /\ Answer(i).kind = "answer" /\ Data.kind = "data" /\ Reply.kind = "reply"
      /\ Answer(i).id = i /\ Answer(j).id = j
  BY DEF Answer, Data, Reply
<1> QED BY <1>1, Zenon

\* The entry of one id is there or it is not.
LEMMA EntryCount ==
    ASSUME NEW S, NEW i
    PROVE  Cardinality(S \cap {i}) = IF i \in S THEN 1 ELSE 0
<1>1. CASE i \in S
  <2>1. S \cap {i} = {i}
    BY <1>1
  <2>2. Cardinality({i}) = 1
    BY FS_Singleton
  <2> QED BY <1>1, <2>1, <2>2
<1>2. CASE i \notin S
  <2>1. S \cap {i} = {}
    BY <1>2
  <2>2. Cardinality({}) = 0
    BY FS_EmptySet
  <2> QED BY <1>2, <2>1, <2>2
<1> QED BY <1>1, <1>2

Packets == {Data, Reply} \cup {Answer(i) : i \in Ids}

\* What becomes of the requests with id i: an entry, a timer about to answer, an answer
\* in client_rx, an answer written.
Used(i) == answered[i] + Occurrences(out, Answer(i)) + woken[i] + (IF i \in pending THEN 1 ELSE 0)

Ledger ==
    /\ out \in Seq(Packets) /\ pending \subseteq Ids
    /\ woken \in [Ids -> Nat] /\ asked \in [Ids -> Nat] /\ answered \in [Ids -> Nat]
    /\ \A i \in Ids : Used(i) <= asked[i]

\* Every step of an answer moves one unit along and only SuggestRoot makes one; a
\* request that replaces an entry loses the unit of the one before.
LEMMA LedgerStep == Ledger /\ [Next]_vars => Ledger'
<1> SUFFICES ASSUME Ledger, [Next]_vars PROVE Ledger'
  OBVIOUS
<1>1. CASE UNCHANGED <<out, suggesting>>
  BY <1>1, SMTT(40) DEF suggesting, Ledger, Used
<1>2. ASSUME NEW w, NEW p, Exit(w, p) PROVE Ledger'
  <2>1. /\ out' = <<>> /\ pending' = {} /\ woken' = Zero /\ asked' = Zero /\ answered' = Zero
    BY <1>2 DEF Exit
  <2>2. \A i \in Ids : Occurrences(<<>>, Answer(i)) = 0
    BY OccurrencesEmpty
  <2> QED BY <2>1, <2>2, SMTT(40) DEF Ledger, Used, Zero
<1>3. ASSUME NEW q \in {Data, Reply}, out' = Append(out, q), UNCHANGED suggesting
      PROVE  Ledger'
  <2>1. q \in Packets /\ \A i \in Ids : q # Answer(i)
    BY AnswersDiffer DEF Packets
  <2>2. \A i \in Ids : Occurrences(out', Answer(i)) = Occurrences(out, Answer(i))
    <3>1. ASSUME NEW i \in Ids
          PROVE  Occurrences(Append(out, q), Answer(i)) = Occurrences(out, Answer(i))
      <4>1. /\ Occurrences(out, Answer(i)) \in Nat
            /\ Occurrences(Append(out, q), Answer(i))
                 = Occurrences(out, Answer(i)) + (IF q = Answer(i) THEN 1 ELSE 0)
        BY <2>1, OccurrencesAppend, OccurrencesType, Zenon DEF Ledger
      <4> QED BY <2>1, <4>1
    <3> QED BY <1>3, <3>1
  <2> QED BY <1>3, <2>1, <2>2, SMTT(40) DEF Ledger, Used, suggesting
<1>4. ASSUME NEW i \in Ids, SuggestRoot(i) PROVE Ledger'
  <2>1. \A k \in Ids : Occurrences(out, Answer(k)) \in Nat
    BY OccurrencesType, Zenon DEF Ledger
  <2> QED BY <1>4, <2>1, SMTT(40) DEF SuggestRoot, Ledger, Used, Plus
<1>5. ASSUME NEW i \in Ids, out' = Append(out, Answer(i)), UNCHANGED <<asked, answered>>,
             \/ /\ i \in pending /\ pending' = pending \ {i} /\ UNCHANGED woken
             \/ /\ woken[i] > 0 /\ woken' = Minus(woken, i) /\ UNCHANGED pending
      PROVE  Ledger'
  <2>1. Answer(i) \in Packets
    BY DEF Packets
  <2>2. \A k \in Ids : /\ Occurrences(out, Answer(k)) \in Nat
                       /\ Occurrences(out', Answer(k))
                            = Occurrences(out, Answer(k)) + (IF k = i THEN 1 ELSE 0)
    <3>1. ASSUME NEW k \in Ids
          PROVE  /\ Occurrences(out, Answer(k)) \in Nat
                 /\ Occurrences(Append(out, Answer(i)), Answer(k))
                      = Occurrences(out, Answer(k)) + (IF k = i THEN 1 ELSE 0)
      <4>1. /\ Occurrences(out, Answer(k)) \in Nat
            /\ Occurrences(Append(out, Answer(i)), Answer(k))
                 = Occurrences(out, Answer(k)) + (IF Answer(i) = Answer(k) THEN 1 ELSE 0)
        BY <2>1, OccurrencesAppend, OccurrencesType, Zenon DEF Ledger
      <4>2. Answer(i) = Answer(k) <=> k = i
        BY AnswersDiffer
      <4> QED BY <4>1, <4>2
    <3> QED BY <1>5, <3>1
  <2>3. out' \in Seq(Packets)
    BY <1>5, <2>1 DEF Ledger
  <2>4. CASE i \in pending /\ pending' = pending \ {i} /\ UNCHANGED woken
    <3>1. ASSUME NEW k \in Ids PROVE (Used(k) <= asked[k])'
      <4>1. CASE k = i
        BY <1>5, <2>2, <2>4, <4>1, SMTT(40) DEF Ledger, Used
      <4>2. CASE k # i
        BY <1>5, <2>2, <2>4, <4>2, SMTT(40) DEF Ledger, Used
      <4> QED BY <4>1, <4>2
    <3> QED BY <1>5, <2>3, <2>4, <3>1 DEF Ledger
  <2>5. CASE woken[i] > 0 /\ woken' = Minus(woken, i) /\ UNCHANGED pending
    BY <1>5, <2>2, <2>3, <2>5, SMTT(40) DEF Ledger, Used, Minus
  <2> QED BY <1>5, <2>4, <2>5
<1>6. ASSUME NEW i \in Ids, TimerWakes(i) PROVE Ledger'
  <2>1. \A k \in Ids : Occurrences(out, Answer(k)) \in Nat
    BY OccurrencesType, Zenon DEF Ledger
  <2> QED BY <1>6, <2>1, SMTT(40) DEF TimerWakes, Ledger, Used, Plus
<1>7. CASE Write
  <2>1. out \in Seq(Packets) /\ out # <<>> /\ out' = Tail(out) /\ out' \in Seq(Packets)
    BY <1>7 DEF Write, Ledger
  <2>2. \A k \in Ids : /\ Occurrences(out', Answer(k)) \in Nat
                       /\ Occurrences(out, Answer(k)) = Occurrences(out', Answer(k))
                            + (IF Head(out) = Answer(k) THEN 1 ELSE 0)
    BY <2>1, OccurrencesTail, OccurrencesType, Zenon
  <2>3. /\ answered' = [k \in Ids |-> IF Head(out) = Answer(k) THEN answered[k] + 1
                                      ELSE answered[k]]
        /\ UNCHANGED <<pending, woken, asked>>
    BY <1>7 DEF Write
  <2> QED BY <2>1, <2>2, <2>3, SMTT(40) DEF Ledger, Used
<1>8. ASSUME NEW i \in Ids, BackendAnswer(i) PROVE Ledger'
  BY <1>3, <1>5, <1>8 DEF BackendAnswer, Send, suggesting
<1>9. CASE ClientToBackend
  BY <1>1, <1>2, <1>3, <1>4, <1>9 DEF ClientToBackend, ReadPacket, SuggestArguments, EventDone,
     Forward, ForwardFails, ClientEnds, Send
<1>10. CASE BackendToClient
  BY <1>2, <1>3, <1>8, <1>10 DEF BackendToClient, BackendPacket, BackendEnds, Send
<1>11. CASE Timers
  BY <1>5, <1>6, <1>11 DEF Timers, TimerAnswers
<1>12. CASE ActionLoop \/ ClientWriter
  BY <1>2, <1>3, <1>7, <1>12 DEF ActionLoop, ClientWriter, TakeMessage, TakeConnect,
     TakeDisconnect, WriteFails, Send
<1>13. CASE BetweenTunnels \/ SendAction \/ UNCHANGED vars
  BY <1>1, <1>13 DEF BetweenTunnels, SwitchCancelled, Switched, SwitchFails, Rerouted,
     RerouteFails, SendAction, suggesting, vars
<1> QED BY <1>9, <1>10, <1>11, <1>12, <1>13 DEF Next

\* However ids are reused and however the backend's answers race the timers, the client
\* never gets the proxy's matches more often than it asked for them.
THEOREM MatchesNeverDoubled == Spec => []MatchesSentOnce
<1>1. Init => Ledger
  <2>1. \A i \in Ids : Occurrences(<<>>, Answer(i)) = 0
    BY OccurrencesEmpty
  <2> QED BY <2>1 DEF Init, Ledger, Used, Zero
<1>2. Ledger => MatchesSentOnce
  BY EntryCount, Zenon DEF Ledger, Used, Occurrences, MatchesSentOnce, Waiting
<1> QED BY <1>1, <1>2, LedgerStep, PTL DEF Spec
=============================================================================
