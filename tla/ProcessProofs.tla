---------------------------- MODULE ProcessProofs ----------------------------
(***************************************************************************)
(* What lasts in the process.  The proxy keeps its identity, for any lists *)
(* of places, any number of starts, connections and I/O errors: without an *)
(* I/O error there is at most one key file, and everything in front of it  *)
(* is absent.  Its plugin manager calls the handlers of an event in order. *)
(***************************************************************************)
EXTENDS ProxyServer, PluginManager, FiniteSetTheorems, SequenceTheorems, TLAPS

N == Len(Candidates)

\* The list of places: its two additions repeat candidates.
LEMMA PlacesList ==
    /\ N \in Nat
    /\ Len(Places) = N + 2
    /\ \A i \in 1 .. N + 2 : Places[i] \in Paths
    /\ \A i \in 1 .. N : Places[i] = Candidates[i]
    /\ \A p \in Paths : \E i \in 1 .. N : Places[i] = p
    /\ Head(Plain) \in Paths /\ Head(InData) \in Paths
<1> DEFINE S == STRING
<1>1. Plain \in Seq(S) /\ InData \in Seq(S) /\ Len(Plain) \in Nat \ {0} /\ Len(InData) \in Nat \ {0}
  BY KeyAssumption
<1>2. /\ Candidates \in Seq(S) /\ N = Len(Plain) + Len(InData)
      /\ \A i \in 1 .. Len(Plain) : Candidates[i] = Plain[i]
      /\ \A i \in 1 .. Len(InData) : Candidates[Len(Plain) + i] = InData[i]
  BY <1>1 DEF Candidates, N
<1>3. Head(InData) = Candidates[Len(Plain) + 1] /\ Head(Plain) = Candidates[1]
  <2>1. 1 \in 1 .. Len(Plain) /\ 1 \in 1 .. Len(InData)
    BY <1>1
  <2>2. Head(InData) = InData[1] /\ Head(Plain) = Plain[1]
    BY <1>1
  <2> QED BY <1>2, <2>1, <2>2
<1>4. Head(InData) \in S /\ Head(Plain) \in S
  BY <1>1
<1>5. /\ Places \in Seq(S) /\ Len(Places) = N + 2
      /\ \A i \in 1 .. N : Places[i] = Candidates[i]
      /\ Places[N + 1] = Head(InData) /\ Places[N + 2] = Head(Plain)
  BY <1>2, <1>4 DEF Places, N
<1>6. DOMAIN Places = 1 .. N + 2
  BY <1>5
<1>7. N \in Nat
  BY <1>1, <1>2
<1>8. \A i \in 1 .. N + 2 : \E j \in 1 .. N : Places[i] = Places[j]
  <2>1. Len(Plain) + 1 \in 1 .. N /\ 1 \in 1 .. N
    BY <1>1, <1>2
  <2>2. Places[N + 1] = Places[Len(Plain) + 1] /\ Places[N + 2] = Places[1]
    BY <1>3, <1>5, <2>1
  <2>3. \A i \in 1 .. N + 2 : i \in 1 .. N \/ i = N + 1 \/ i = N + 2
    BY <1>7
  <2> QED BY <2>1, <2>2, <2>3
<1>9. N + 1 \in 1 .. N + 2 /\ N + 2 \in 1 .. N + 2
  BY <1>7
<1> QED
  BY <1>5, <1>6, <1>7, <1>8, <1>9, Zenon DEF Paths

-----------------------------------------------------------------------------
KeyNext == Resolve \/ Serve \/ Forget

\* Whatever the process does, it touches keys and key files only as IdentityKey says.
LEMMA OnlyKeySteps == [Next]_vars => [KeyNext]_keyVars
<1> SUFFICES ASSUME Next PROVE [KeyNext]_keyVars
  BY DEF vars, rest, files
<1>1. CASE Killed \/ Restart
  BY <1>1 DEF Killed, Restart, Reset, KeyNext
<1>2. CASE ResolveKey \/ SpawnTelemetry
  BY <1>2 DEF ResolveKey, SpawnTelemetry, KeyNext
<1>3. CASE LoadConfig \/ ConfigWritten \/ New \/ Bind
  BY <1>3 DEF LoadConfig, ConfigWritten, New, Bind, files
<1>4. CASE UNCHANGED rest
  BY <1>4 DEF rest, files
<1>5. CASE CtrlC \/ SignalTaskEnds \/ AcceptFails \/ Elapse \/ \E c \in Conns : Accept(c) \/ ConnectionCloses(c)
  BY <1>5, <1>4 DEF CtrlC, SignalTaskEnds, AcceptFails, Elapse, Accept, ConnectionCloses
<1>6. CASE Tick \/ HeartbeatReturns \/ TelemetryHears \/ NoticeReturns
  BY <1>6, <1>4 DEF Tick, HeartbeatReturns, TelemetryHears, NoticeReturns
<1>7. CASE BedrockBinds \/ BedrockStops \/ ConsoleCommand \/ ConsoleStops
  BY <1>7, <1>4 DEF BedrockBinds, BedrockStops, ConsoleCommand, ConsoleStops
<1>8. CASE SpawnBedrock \/ SpawnConsole \/ Loaded \/ SleepEnds \/ StopAccepting \/ Unloaded \/ Exit
  BY <1>8, <1>4 DEF SpawnBedrock, SpawnConsole, Loaded, SleepEnds, StopAccepting, Unloaded, Exit
<1> QED
  BY <1>1, <1>2, <1>3, <1>5, <1>6, <1>7, <1>8 DEF Next, Run

-----------------------------------------------------------------------------
\* What holds whether or not there were I/O errors: no key is about to be written over
\* unless it was overlooked.
KeyTypes ==
    /\ file \in [Paths -> Int] /\ dataDir \in BOOLEAN
    /\ at \in 1 .. N + 2 /\ io \in {"load", "open", "overlooked", "fill", "returned"}
    /\ made \in Nat \ {0} /\ identity \in Nat /\ known \in Nat
    /\ faults \in Nat
    /\ io \in {"open", "fill"} => ~IsKey(file[path])

\* Without one there is a single key file, which is where the search will end.
Single == \A p, q \in Paths : file[p] # Absent /\ file[q] # Absent => p = q
NotPassed == io = "load" => \A i \in 1 .. N : i < at => file[Places[i]] = Absent
Found ==
    /\ io # "overlooked"
    /\ io = "open" => \A p \in Paths : p # path => file[p] = Absent
    /\ io = "fill" => file[path] = Torn
    /\ io = "returned" => identity = file[path] /\ IsKey(identity)
Kept == known # 0 => \E p \in Paths : file[p] = known

KeyInv == KeyTypes /\ (faults = 0 => Single /\ NotPassed /\ Found /\ Kept)

\* What earlier processes left is at most one file.
LEMMA KeyInvInit == KeyInit => KeyInv
<1> SUFFICES ASSUME KeyInit PROVE KeyInv
  OBVIOUS
<1>1. Head(Plain) \in Paths /\ Head(InData) \in Paths
  BY PlacesList
<1>2. file \in [Paths -> Int] /\ Single
  BY <1>1, SMTT(40) DEF KeyInit, Single, Absent, Torn
<1> QED
  BY <1>2, PlacesList DEF KeyInit, KeyInv, KeyTypes, NotPassed, Found, Kept, Absent

\* The rest of the search, step by step.
LEMMA KeyInvStep == KeyInv /\ [KeyNext]_keyVars => KeyInv'
<1> SUFFICES ASSUME KeyInv, [KeyNext]_keyVars PROVE KeyInv'
  OBVIOUS
<1> USE DEF KeyInv, KeyTypes, Single, NotPassed, Found, Kept, path, IsKey, Absent, Torn
<1>0. path \in Paths
  BY PlacesList
<1>1. CASE PassOver
  <2>1. at < N + 2 /\ at' = at + 1 /\ io' = "load" /\ UNCHANGED <<file, dataDir, made, identity, known, faults>>
    BY <1>1, PlacesList, SMTT(40) DEF PassOver, NextPlace, IsLast, IsData, MustExist, disk, N
  <2>2. at \in 1 .. N => file[path] = Absent
    BY <1>1 DEF PassOver, MustExist, IsData, N
  <2> QED BY <1>1, <2>1, <2>2, PlacesList, SMTT(40) DEF PassOver
<1>2. CASE Load
  <2>1. CASE IsKey(file[path])
    BY <1>2, <2>1, <1>0 DEF Load, MayLoad, Return, disk
  <2>2. CASE ~IsKey(file[path])
    <3>1. faults = 0 => \A p \in Paths : p # path => file[p] = Absent
      BY <1>2, <1>0, PlacesList DEF Load, MayLoad, MustExist, N
    <3> QED BY <1>2, <2>2, <3>1, <1>0 DEF Load, MayLoad, disk
  <2> QED BY <2>1, <2>2
<1>3. CASE ReadFails \/ WriteFails
  <2>1. faults' # 0 /\ faults' \in Nat /\ file' = file /\ dataDir' = dataDir /\ known' = known
    BY <1>3 DEF ReadFails, WriteFails, Fault, disk
  <2>2. NextPlace
    BY <1>3 DEF ReadFails, WriteFails
  <2>3. /\ at' \in 1 .. N + 2 /\ io' \in {"load", "returned"}
        /\ made' \in Nat \ {0} /\ identity' \in Nat
    <3>1. CASE IsLast
      BY <2>2, <3>1 DEF NextPlace, Return
    <3>2. CASE ~IsLast
      BY <2>2, <3>2, PlacesList DEF NextPlace, IsLast
    <3> QED BY <3>1, <3>2
  <2> QED BY <2>1, <2>3
<1>4. CASE Open
  BY <1>4, <1>0 DEF Open
<1>5. CASE Fill
  BY <1>5, <1>0 DEF Fill, Return
<1>6. CASE Serve
  BY <1>6, <1>0, PlacesList, SMTT(40) DEF Serve, disk
<1>7. CASE Forget
  BY <1>7, PlacesList DEF Forget, disk
<1>8. CASE UNCHANGED keyVars
  BY <1>8 DEF keyVars
<1>9. CASE Overlooks
  BY <1>9 DEF Overlooks, Fault, disk
<1> QED
  BY <1>1, <1>2, <1>3, <1>4, <1>5, <1>6, <1>7, <1>8, <1>9 DEF KeyNext, Resolve

\* The invariant holds in every behaviour of the process and its restarts.
LEMMA KeyInvAlways == Spec => []KeyInv
<1>1. Init => KeyInv
  BY KeyInvInit DEF Init
<1>2. KeyInv /\ [Next]_vars => KeyInv'
  BY KeyInvStep, OnlyKeySteps
<1> QED
  BY <1>1, <1>2, PTL DEF Spec

-----------------------------------------------------------------------------
\* A proxy that is killed at any point, also while it writes the key file, and started
\* again is known by the key it had, for any places and however often it happens.
THEOREM IdentitySurvives == Spec => []IdentityKept
<1>1. KeyInv => IdentityKept
  <2> SUFFICES ASSUME KeyInv, io = "returned", known # 0, faults = 0 PROVE identity = known
    BY DEF IdentityKept
  <2>1. path \in Paths
    BY PlacesList DEF KeyInv, KeyTypes, path
  <2> QED BY <2>1 DEF KeyInv, KeyTypes, Single, Found, Kept, IsKey, Absent
<1> QED
  BY <1>1, KeyInvAlways, PTL

\* For any places and whatever has failed before, the only step that writes to a file with
\* a key in it is the fs::write right after load_or_generate_key's own exists() has failed
\* on that file.
THEOREM KeyFilesNeverRewritten == Spec => KeyFilesKept
<1>1. KeyInv /\ [Next]_vars =>
        [\A p \in Paths : IsKey(file[p]) /\ file'[p] # file[p] => io = "overlooked" /\ p = path]_keyVars
  <2> SUFFICES ASSUME KeyInv, KeyNext, NEW p \in Paths, IsKey(file[p]), file'[p] # file[p]
               PROVE  io = "overlooked" /\ p = path
    BY OnlyKeySteps
  <2>1. path \in Paths
    BY PlacesList DEF KeyInv, KeyTypes, path
  <2>2. CASE Open \/ Fill
    BY <2>1, <2>2 DEF KeyInv, KeyTypes, Open, Fill
  <2>3. CASE PassOver \/ Load \/ ReadFails \/ Overlooks \/ WriteFails \/ Serve \/ Forget
    BY <2>3 DEF PassOver, Load, ReadFails, Overlooks, WriteFails, Serve, Forget, disk
  <2> QED BY <2>2, <2>3 DEF KeyNext, Resolve
<1> QED
  BY <1>1, KeyInvAlways, PTL DEF KeyFilesKept, Spec

-----------------------------------------------------------------------------
(* Event handlers.                                                          *)

Handler == [plugin : Plugins, priority : Nat, serial : Nat]

\* A list's elements and its handlers' places in it when it is sorted.
LEMMA RankIs ==
    ASSUME NEW l \in Seq(Handler), NEW j \in DOMAIN l
    PROVE  /\ Rank(l, j) \in DOMAIN l
           /\ \A i \in DOMAIN l : i # j /\ NotAfter(l, i, j) => Rank(l, i) < Rank(l, j)
  <1>1. PICK n \in Nat : n = Len(l) /\ DOMAIN l = 1 .. n  OBVIOUS
  <1> DEFINE Up(k) == {i \in DOMAIN l : NotAfter(l, i, k)}
  <1>2. IsFiniteSet(1 .. n) /\ Cardinality(1 .. n) = n
    <2>1. 1 \in Int /\ n \in Int /\ n = IF 1 > n THEN 0 ELSE n - 1 + 1  OBVIOUS
    <2>2. IsFiniteSet(1 .. n) /\ Cardinality(1 .. n) = IF 1 > n THEN 0 ELSE n - 1 + 1
      BY <2>1, FS_Interval
    <2> QED  BY <2>1, <2>2, Zenon
  <1>3. ASSUME NEW k \in DOMAIN l
        PROVE  /\ k \in Up(k) /\ Up(k) \in SUBSET (1 .. n)
               /\ Rank(l, k) = Cardinality(Up(k))
               /\ IsFiniteSet(Up(k)) /\ Cardinality(Up(k)) \in 1 .. n
    <2>1. k \in Up(k)
      <3>1. k \in Int  BY <1>1
      <3> QED  BY <3>1 DEF NotAfter
    <2>2. Up(k) \in SUBSET (1 .. n)  BY <1>1
    <2>3. Rank(l, k) = Cardinality(Up(k))  BY Zenon DEF Rank, Cardinality, Cardinality
    <2> HIDE DEF Up
    <2>4. IsFiniteSet(Up(k)) /\ Cardinality(Up(k)) <= n  BY <1>2, <2>2, FS_Subset
    <2>5. Cardinality(Up(k)) \in Nat /\ Cardinality(Up(k)) # 0
      BY <2>1, <2>4, FS_EmptySet, FS_CardinalityType
    <2> QED  BY <2>1, <2>2, <2>3, <2>4, <2>5
  <1>4. ASSUME NEW i \in DOMAIN l, i # j, NotAfter(l, i, j)
        PROVE  Rank(l, i) < Rank(l, j)
    <2>1. /\ i \in 1 .. n /\ j \in 1 .. n
          /\ \A k \in 1 .. n : l[k].priority \in Nat
      <3>1. \A k \in 1 .. n : l[k] \in Handler  BY <1>1
      <3> QED  BY <1>1, <3>1 DEF Handler
    <2>2. ASSUME NEW k \in Up(i) PROVE k \in Up(j)
      <3>1. k \in 1 .. n /\ NotAfter(l, k, i)  BY <1>1
      <3> QED  BY <1>1, <1>4, <2>1, <3>1 DEF NotAfter
    <2>3. j \notin Up(i)  BY <1>4, <2>1 DEF NotAfter
    <2>4. Up(i) \in SUBSET Up(j) /\ Up(i) # Up(j)  BY <1>3, <2>2, <2>3, Zenon
    <2> HIDE DEF Up
    <2>5. Cardinality(Up(i)) <= Cardinality(Up(j)) /\ Cardinality(Up(j)) # Cardinality(Up(i))
      BY <1>3, <2>4, FS_Subset
    <2>6. Cardinality(Up(i)) \in Int /\ Cardinality(Up(j)) \in Int  BY <1>3
    <2> QED  BY <1>3, <2>5, <2>6
  <1> QED  BY <1>1, <1>3, <1>4, Zenon

\* Every place is taken, by one handler.
LEMMA RankOnto ==
    ASSUME NEW l \in Seq(Handler), NEW m \in DOMAIN l
    PROVE  \E j \in DOMAIN l : Rank(l, j) = m
  <1>1. PICK n \in Nat : n = Len(l) /\ DOMAIN l = 1 .. n  OBVIOUS
  <1>2. IsFiniteSet(1 .. n)  BY <1>1, FS_Interval
  <1> DEFINE f == [j \in 1 .. n |-> Rank(l, j)]
  <1>3. f \in [1 .. n -> 1 .. n]  BY <1>1, RankIs
  <1>4. ASSUME NEW i \in 1 .. n, NEW j \in 1 .. n, f[i] = f[j] PROVE i = j
    <2> SUFFICES ASSUME i # j PROVE FALSE  OBVIOUS
    <2>1. Rank(l, i) = Rank(l, j) /\ Rank(l, i) \in Int  BY <1>1, <1>3, <1>4
    <2>2. l[i].priority \in Nat /\ l[j].priority \in Nat  
      <3>1. l[i] \in Handler /\ l[j] \in Handler  BY <1>1
      <3> QED  BY <3>1 DEF Handler
    <2>3. NotAfter(l, i, j) \/ NotAfter(l, j, i)  BY <2>2 DEF NotAfter
    <2>4. Rank(l, i) < Rank(l, j) \/ Rank(l, j) < Rank(l, i)
      BY <1>1, <2>3, RankIs
    <2> QED  BY <2>1, <2>4
  <1>5. f \in Injection(1 .. n, 1 .. n)  BY <1>3, <1>4 DEF Injection, IsInjective
  <1>6. f \in Surjection(1 .. n, 1 .. n)
    <2> HIDE DEF f
    <2> QED  BY <1>2, <1>5, FS_Injection
  <1> QED  BY <1>1, <1>6, Zenon DEF Surjection

\* Sorting keeps the handlers; one that comes first has a lower priority, or the same and
\* came first before.
LEMMA SortIs ==
    ASSUME NEW l \in Seq(Handler)
    PROVE  /\ SortByPriority(l) \in Seq(Handler)
           /\ \A m \in DOMAIN SortByPriority(l) :
                \E j \in DOMAIN l : SortByPriority(l)[m] = l[j]
           /\ \A m, o \in DOMAIN SortByPriority(l) : m < o =>
                \E i, j \in DOMAIN l :
                  /\ SortByPriority(l)[m] = l[i] /\ SortByPriority(l)[o] = l[j]
                  /\ i # j /\ NotAfter(l, i, j)
  <1> DEFINE At(m) == CHOOSE j \in DOMAIN l : Rank(l, j) = m
  <1>1. PICK n \in Nat : n = Len(l) /\ DOMAIN l = 1 .. n  OBVIOUS
  <1>2. PICK s : s = SortByPriority(l)  OBVIOUS
  <1>3. ASSUME NEW m \in 1 .. n PROVE At(m) \in 1 .. n /\ Rank(l, At(m)) = m
    BY <1>1, RankOnto, Zenon
  <1>4. DOMAIN s = 1 .. n /\ s = [m \in 1 .. n |-> l[At(m)]]  BY <1>1, <1>2 DEF SortByPriority
  <1> HIDE DEF At
  <1>5. \A m \in 1 .. n : s[m] = l[At(m)] /\ s[m] \in Handler  BY <1>1, <1>3, <1>4
  <1>6. s \in Seq(Handler)  BY <1>4, <1>5
  <1>7. ASSUME NEW m \in 1 .. n, NEW o \in 1 .. n, m < o
        PROVE  At(m) # At(o) /\ NotAfter(l, At(m), At(o))
    <2>1. PICK i \in 1 .. n, j \in 1 .. n : i = At(m) /\ j = At(o)  BY <1>3
    <2>2. Rank(l, i) = m /\ Rank(l, j) = o /\ i # j  BY <1>3, <1>7, <2>1
    <2>3. l[i].priority \in Nat /\ l[j].priority \in Nat  
      <3>1. l[i] \in Handler /\ l[j] \in Handler  BY <1>1
      <3> QED  BY <3>1 DEF Handler
    <2>4. ~NotAfter(l, j, i)
      <3>1. i \in DOMAIN l /\ j \in DOMAIN l  BY <1>1
      <3>2. NotAfter(l, j, i) => Rank(l, j) < Rank(l, i)  BY <2>2, <3>1, RankIs
      <3> QED  BY <1>7, <2>2, <3>2
    <2>5. NotAfter(l, i, j)  BY <2>2, <2>3, <2>4 DEF NotAfter
    <2> QED  BY <2>1, <2>2, <2>5
  <1> QED  BY <1>1, <1>2, <1>3, <1>4, <1>5, <1>6, <1>7

\* Handlers are numbered as they register.
Registry ==
    /\ handlers \in Seq(Handler) /\ left \in [Tasks -> Seq(Handler)]
    /\ serial \in Nat
    /\ \A i \in DOMAIN handlers : handlers[i].serial < serial
    /\ InOrder(handlers) /\ \A t \in Tasks : InOrder(left[t])

\* A handler that registers has the highest number: it goes behind those of its priority.
LEMMA InsertInOrder ==
    ASSUME Registry, NEW h \in Handler, h.serial = serial
    PROVE  /\ Insert(handlers, h) \in Seq(Handler)
           /\ InOrder(Insert(handlers, h))
           /\ \A m \in DOMAIN Insert(handlers, h) : Insert(handlers, h)[m].serial < serial + 1
  <1>1. /\ handlers \in Seq(Handler) /\ serial \in Nat
        /\ \A i \in DOMAIN handlers : handlers[i].serial < serial
        /\ InOrder(handlers)
    BY DEF Registry
  <1>2. PICK n \in Nat : n = Len(handlers) /\ DOMAIN handlers = 1 .. n  BY <1>1
  <1>3. PICK l \in Seq(Handler) :
          /\ l = Append(handlers, h) /\ DOMAIN l = 1 .. n + 1
          /\ \A i \in 1 .. n : l[i] = handlers[i]
          /\ l[n + 1] = h
    <2>1. PICK l : l = Append(handlers, h)  BY Zenon
    <2>2. l \in Seq(Handler) /\ Len(l) = n + 1  BY <1>1, <1>2, <2>1
    <2>3. l[n + 1] = h /\ \A i \in 1 .. n : l[i] = handlers[i]  BY <1>1, <1>2, <2>1
    <2> QED  BY <2>1, <2>2, <2>3
  <1>4. PICK s \in Seq(Handler) : s = Insert(handlers, h) /\ s = SortByPriority(l)
    BY <1>3, SortIs, Zenon DEF Insert
  <1>5. ASSUME NEW j \in DOMAIN l PROVE l[j].serial < serial + 1 /\ l[j].serial \in Nat
    <2>1. l[j] \in Handler  OBVIOUS
    <2>2. l[j].serial \in Nat  BY <2>1 DEF Handler
    <2>3. CASE j \in 1 .. n  BY <1>1, <1>2, <1>3, <2>2, <2>3
    <2>4. CASE j = n + 1  BY <1>1, <1>3, <2>4
    <2> QED  BY <1>3, <2>3, <2>4
  <1>6. ASSUME NEW i \in DOMAIN l, NEW j \in DOMAIN l, i # j, NotAfter(l, i, j)
        PROVE  \/ l[i].priority < l[j].priority
               \/ l[i].priority = l[j].priority /\ l[i].serial < l[j].serial
    <2> SUFFICES ASSUME ~(l[i].priority < l[j].priority)
                 PROVE  l[i].priority = l[j].priority /\ l[i].serial < l[j].serial
      OBVIOUS
    <2>1. l[i].priority = l[j].priority /\ i <= j  BY <1>6 DEF NotAfter
    <2>2. i \in 1 .. n /\ i < j /\ j \in 1 .. n + 1  BY <1>3, <1>6, <2>1
    <2>3. CASE j = n + 1
      <3>1. l[i].serial < serial  BY <1>1, <1>2, <1>3, <2>2
      <3> QED  BY <1>3, <2>1, <2>3, <3>1
    <2>4. CASE j \in 1 .. n
      <3>1. l[i] = handlers[i] /\ l[j] = handlers[j]  BY <1>3, <2>2, <2>4
      <3>2. handlers[i].priority < handlers[j].priority \/ handlers[i].serial < handlers[j].serial
        BY <1>1, <1>2, <2>2, <2>4 DEF InOrder
      <3> QED  BY <2>1, <3>1, <3>2
    <2> QED  BY <2>2, <2>3, <2>4
  <1>7. InOrder(s)
    <2> SUFFICES ASSUME NEW m \in DOMAIN s, NEW o \in DOMAIN s, m < o
                 PROVE  \/ s[m].priority < s[o].priority
                        \/ s[m].priority = s[o].priority /\ s[m].serial < s[o].serial
      BY DEF InOrder
    <2>1. PICK i \in DOMAIN l, j \in DOMAIN l :
            s[m] = l[i] /\ s[o] = l[j] /\ i # j /\ NotAfter(l, i, j)
      BY <1>4, SortIs
    <2> QED  BY <1>6, <2>1
  <1>8. ASSUME NEW m \in DOMAIN s PROVE s[m].serial < serial + 1
    <2>1. PICK j \in DOMAIN l : s[m] = l[j]  BY <1>4, SortIs
    <2> QED  BY <1>5, <2>1
  <1> QED  BY <1>4, <1>7, <1>8

\* What is left of a list in order is in order.
LEMMA TailInOrder ==
    ASSUME NEW l \in Seq(Handler), l # <<>>, InOrder(l)
    PROVE  InOrder(Tail(l))
  <1>1. /\ Tail(l) \in Seq(Handler) /\ DOMAIN Tail(l) = 1 .. Len(l) - 1
        /\ \A i \in 1 .. Len(l) - 1 : Tail(l)[i] = l[i + 1]
    OBVIOUS
  <1>2. PICK t : t = Tail(l)  BY Zenon
  <1>3. ASSUME NEW i \in DOMAIN t, NEW j \in DOMAIN t, i < j
        PROVE  \/ t[i].priority < t[j].priority
               \/ t[i].priority = t[j].priority /\ t[i].serial < t[j].serial
    <2>1. i + 1 \in DOMAIN l /\ j + 1 \in DOMAIN l /\ i + 1 < j + 1 /\ t[i] = l[i + 1] /\ t[j] = l[j + 1]
      BY <1>1, <1>2, <1>3
    <2> QED  BY <2>1 DEF InOrder
  <1> QED  BY <1>2, <1>3 DEF InOrder

\* Every step of the plugin manager.
LEMMA RegistryStep ==
    ASSUME Registry, [PluginNext]_pluginVars PROVE Registry'
  <1> USE DEF Registry
  <1>0. InOrder(<<>>)  BY SMTT(30) DEF InOrder
  <1>1. ASSUME UNCHANGED <<handlers, serial, left>> PROVE Registry'
    BY <1>1 DEF InOrder
  <1>2. ASSUME NEW p \in Plugins, RegisterEvent(p) PROVE Registry'
    <2>1. PICK q \in Priorities :
            handlers' = Insert(handlers, [plugin |-> p, priority |-> q, serial |-> serial])
      BY <1>2 DEF RegisterEvent
    <2>2. PICK h \in Handler : h = [plugin |-> p, priority |-> q, serial |-> serial] /\ h.serial = serial
      <3>1. q \in Nat /\ serial \in Nat  BY PluginAssumption
      <3>2. PICK h : h = [plugin |-> p, priority |-> q, serial |-> serial]  BY Zenon
      <3>3. h \in Handler /\ h.serial = serial  BY <3>1, <3>2, SMTT(30) DEF Handler
      <3> QED  BY <3>2, <3>3
    <2>3. PICK s \in Seq(Handler) :
            /\ s = Insert(handlers, h) /\ InOrder(s)
            /\ \A m \in DOMAIN s : s[m].serial < serial + 1
      BY <2>2, InsertInOrder, SMTT(30)
    <2>4. handlers' = s /\ serial' = serial + 1 /\ left' = left
      BY <1>2, <2>1, <2>2, <2>3, SMTT(30) DEF RegisterEvent
    <2>5. InOrder(handlers)'  BY <2>3, <2>4, SMTT(30) DEF InOrder
    <2>6. \A t \in Tasks : InOrder(left[t])'  BY <2>4, SMTT(40) DEF InOrder
    <2> QED  BY <2>3, <2>4, <2>5, <2>6
  <1>3. ASSUME NEW u \in Tasks, Fire(u) PROVE Registry'
    <2>1. left' = [left EXCEPT ![u] = handlers] /\ UNCHANGED <<handlers, serial>>
      BY <1>3 DEF Fire
    <2>2. ASSUME NEW t \in Tasks
          PROVE  left'[t] = IF t = u THEN handlers ELSE left[t]
      BY <2>1
    <2>3. left' \in [Tasks -> Seq(Handler)]  BY <2>1
    <2>4. ASSUME NEW t \in Tasks PROVE InOrder(left[t])'
      <3>1. PICK x : x = left'[t] /\ InOrder(x)
        <4>1. CASE t = u  BY <2>2, <4>1
        <4>2. CASE t # u  BY <2>2, <4>2
        <4> QED  BY <4>1, <4>2
      <3> QED  BY <3>1 DEF InOrder
    <2>6. InOrder(handlers)'  BY <2>1, SMTT(30) DEF InOrder
    <2> QED  BY <2>1, <2>3, <2>4, <2>6, Zenon
  <1>4. ASSUME NEW u \in Tasks, CallHandler(u) PROVE Registry'
    <2>1. /\ left' = [left EXCEPT ![u] = Tail(left[u])] /\ left[u] # <<>>
          /\ UNCHANGED <<handlers, serial>>
      BY <1>4 DEF CallHandler
    <2>2. Tail(left[u]) \in Seq(Handler) /\ InOrder(Tail(left[u]))  BY <2>1, TailInOrder
    <2>4. ASSUME NEW t \in Tasks PROVE left'[t] = IF t = u THEN Tail(left[u]) ELSE left[t]
      BY <2>1
    <2>5. left' \in [Tasks -> Seq(Handler)]  BY <2>1, <2>2
    <2>6. ASSUME NEW t \in Tasks PROVE InOrder(left[t])'
      <3>1. PICK x : x = left'[t] /\ InOrder(x)
        <4>1. CASE t = u  BY <2>2, <2>4, <4>1
        <4>2. CASE t # u  BY <2>2, <2>4, <4>2
        <4> QED  BY <4>1, <4>2
      <3> QED  BY <3>1 DEF InOrder
    <2>8. InOrder(handlers)'  BY <2>1, SMTT(40) DEF InOrder
    <2> QED  BY <2>1, <2>5, <2>6, <2>8
  <1>5. ASSUME NEW u \in Tasks, HandlerCancels(u) PROVE Registry'
    <2>1. left' = [left EXCEPT ![u] = <<>>] /\ UNCHANGED <<handlers, serial>>
      BY <1>5 DEF HandlerCancels
    <2>2. ASSUME NEW t \in Tasks PROVE left'[t] = IF t = u THEN <<>> ELSE left[t]  BY <2>1
    <2>3. left' \in [Tasks -> Seq(Handler)]  BY <2>1
    <2>4. ASSUME NEW t \in Tasks PROVE InOrder(left[t])'
      <3>1. PICK x : x = left'[t] /\ InOrder(x)
        <4>1. CASE t = u  BY <1>0, <2>2, <4>1
        <4>2. CASE t # u  BY <1>0, <2>2, <4>2, SMTT(40)
        <4> QED  BY <4>1, <4>2
      <3> QED  BY <3>1 DEF InOrder
    <2>5. InOrder(handlers)'  BY <2>1 DEF InOrder
    <2> QED  BY <2>1, <2>3, <2>4, <2>5
  <1>6. CASE Clear
    <2>1. handlers' = <<>> /\ UNCHANGED <<serial, left>>  BY <1>6 DEF Clear
    <2>2. InOrder(handlers)'  BY <1>0, <2>1 DEF InOrder
    <2>3. \A t \in Tasks : InOrder(left[t])'  BY <2>1 DEF InOrder
    <2> QED  BY <2>1, <2>2, <2>3
  <1>7. CASE AcceptLoop \/ Shutdown \/ Unload
    BY <1>1, <1>7, SMTT(30) DEF AcceptLoop, Shutdown, Unload
  <1>8. ASSUME NEW p \in Plugins, LoadFile(p) \/ OnLoad(p) \/ OnUnload(p) PROVE Registry'
    BY <1>1, <1>8 DEF LoadFile, OnLoad, OnUnload
  <1>9. ASSUME NEW u \in Tasks, HandlerReturns(u) PROVE Registry'
    BY <1>1, <1>9 DEF HandlerReturns
  <1>10. CASE UNCHANGED pluginVars  BY <1>1, <1>10, SMTT(30) DEF pluginVars
  <1> HIDE DEF Registry
  <1> QED  BY <1>2, <1>3, <1>4, <1>5, <1>6, <1>7, <1>8, <1>9, <1>10 DEF PluginNext

\* Lists start empty.
LEMMA RegistryInit == PluginInit => Registry
  BY DEF PluginInit, Registry, InOrder

\* register_event_handler and the fire_ methods: for every number of plugins, tasks,
\* priorities and registrations, an event visits its handlers in order of priority, and in
\* order of registration within one.
THEOREM HandlersInOrder == PluginSpec => []PriorityOrder
  <1>1. Registry /\ [PluginNext]_pluginVars => Registry'  BY RegistryStep
  <1>2. Registry => PriorityOrder  BY DEF Registry, PriorityOrder
  <1> QED  BY <1>1, <1>2, RegistryInit, PTL DEF PluginSpec
=============================================================================
