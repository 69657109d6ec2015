-------------------------- MODULE PlayerLoginProofs --------------------------
(***************************************************************************)
(* Retries are exact, and the proxy, the client and the backends can       *)
(* decode each other's packets, for every number of retries and of packets *)
(* of a backend, every set of configured servers, and through every        *)
(* failover; and every request of a backend gets one answer.               *)
(***************************************************************************)
EXTENDS PlayerLogin, Integers, TLAPS

-----------------------------------------------------------------------------
(* Retries.                                                                 *)

\* A pause is made only when an attempt is left, and counted when it is over.
Trying ==
    /\ attempt \in Nat \ {0} /\ sleeps \in Nat
    /\ sleeps = attempt - 1
    /\ attempt <= Login!Attempts
    /\ pc = "sleep" => attempt < Retries
    /\ pc = "refused" => attempt = Login!Attempts

\* Only connect_to_backend counts attempts; a failover starts again.
LEMMA TryingStep == Trying /\ [Next]_vars => Trying'
<1> SUFFICES ASSUME Trying, [Next]_vars PROVE Trying'
  OBVIOUS
<1> USE LoginAssumption DEF Trying, Login!Attempts
<1>1. CASE UNCHANGED <<pc, attempt, sleeps>>
  BY <1>1
<1>2. CASE Login!Connect
  BY <1>2 DEF Login!Connect, Login!Connected, Login!AttemptFails, Login!SleepEnds
<1>3. CASE Login!Handle \/ Login!ReadFails
  BY <1>3 DEF Login!Handle, Login!ReadFails, Login!Disconnected, Login!PluginRequest,
              Login!SetCompression, Login!Success, Login!Skipped, Login!Read
<1>4. CASE Login!Restart
  BY <1>4 DEF Login!Restart
<1>5. CASE Login!Backend
  BY <1>1, <1>5, Zenon DEF Login!Backend, Login!Asks, Login!Announces, Login!Says, Login!Accepts,
                    Login!BackendReads, Login!Emit
<1> QED
  BY <1>1, <1>2, <1>3, <1>4, <1>5
  DEF Next, Task, Peers, BeginLogin, LoginBackend, FailOver, Forward, backendVars, vars

\* connect_to_backend: for every retry count, 0 included, every attempt is made before the
\* backend is given up, and no pause follows the last; the same for the fallback.
THEOREM RetriesAreExact == Spec => []AttemptsExact
<1>1. Init => Trying
  BY LoginAssumption DEF Init, Login!Init, Trying, Login!Attempts
<1>2. Trying => AttemptsExact
  BY DEF Trying, AttemptsExact, Login!AttemptsExact
<1> QED
  BY <1>1, <1>2, TryingStep, PTL DEF Spec

-----------------------------------------------------------------------------
(* Codecs.                                                                  *)

Packets ==
    [kind : {"request"}, id : Nat, channel : Login!Channels, mode : BOOLEAN]
      \cup [kind : {"setCompression"}, threshold : {-1, 0, 256}, mode : BOOLEAN]
      \cup [kind : {"disconnect", "unknown", "success"}, mode : BOOLEAN]

Answers == [id : Nat, data : Login!Channels, mode : BOOLEAN]

LinkTypes ==
    /\ compressed \in BOOLEAN /\ backend \in BOOLEAN
    /\ asked \in Seq(Login!Channels)
    /\ fromBackend \in Seq(Packets)
    /\ toBackend \in Seq(Answers) /\ answers \in Seq(Answers)

IsRequest(i) == fromBackend[i].kind = "request"
Switches(i) == fromBackend[i].kind = "setCompression" /\ fromBackend[i].threshold >= 0

\* Requests on their way carry the numbers that follow the answers given, in order.
Numbered ==
    /\ Len(answers) + Len(toBackend) <= Len(asked)
    /\ \A i \in 1 .. Len(fromBackend) : IsRequest(i) =>
         /\ Len(answers) + Len(toBackend) < fromBackend[i].id
         /\ fromBackend[i].id <= Len(asked)
    /\ \A i, j \in 1 .. Len(fromBackend) :
         IsRequest(i) /\ IsRequest(j) /\ i < j => fromBackend[i].id < fromBackend[j].id

\* Either both sides are in the same mode and so is everything between them, or the
\* announcement is on its way: what precedes it holds no request, and no answer is on its
\* way back.
InStep ==
    /\ compressed = backend
    /\ \A i \in 1 .. Len(fromBackend) : fromBackend[i].mode = backend /\ ~Switches(i)
    /\ \A i \in 1 .. Len(toBackend) : toBackend[i].mode = backend

Announced(k) ==
    /\ ~compressed /\ backend /\ toBackend = <<>>
    /\ Switches(k)
    /\ \A i \in 1 .. Len(fromBackend) :
         /\ fromBackend[i].mode = (i > k)
         /\ i # k => ~Switches(i)
         /\ i < k => ~IsRequest(i)

Codec ==
    /\ LinkTypes /\ Numbered
    /\ InStep \/ \E k \in 1 .. Len(fromBackend) : Announced(k)
    /\ ~muddled

\* Taking the first packet off a queue.
LEMMA Taken ==
    ASSUME NEW S, NEW q \in Seq(S), q # <<>>
    PROVE  /\ Len(q) \in Nat \ {0} /\ Head(q) = q[1] /\ Head(q) \in S
           /\ Tail(q) \in Seq(S) /\ Len(Tail(q)) = Len(q) - 1
           /\ \A i \in 1 .. Len(q) - 1 : Tail(q)[i] = q[i + 1] /\ i + 1 \in 1 .. Len(q)
  OBVIOUS

\* Putting a packet into it.
LEMMA Put ==
    ASSUME NEW S, NEW q \in Seq(S), NEW e \in S
    PROVE  /\ Len(q) \in Nat
           /\ Append(q, e) \in Seq(S) /\ Len(Append(q, e)) = Len(q) + 1
           /\ \A i \in 1 .. Len(q) : Append(q, e)[i] = q[i]
           /\ Append(q, e)[Len(q) + 1] = e
  OBVIOUS

\* The proxy reads a packet and answers nothing: it compresses from an announcement on.
LEMMA ReadStep ==
    ASSUME Codec, NEW k, Login!Read(k), UNCHANGED toBackend,
           compressed' = (compressed \/ Switches(1))
    PROVE  Codec'
<1> USE DEF Codec, LinkTypes
<1>1. /\ fromBackend # <<>> /\ fromBackend' = Tail(fromBackend)
      /\ UNCHANGED <<backend, asked, answers, toBackend>>
      /\ muddled' = (muddled \/ Head(fromBackend).mode # compressed)
  BY DEF Login!Read
<1>2. /\ Len(fromBackend) \in Nat \ {0} /\ Head(fromBackend) = fromBackend[1]
      /\ fromBackend' \in Seq(Packets) /\ Len(fromBackend') = Len(fromBackend) - 1
      /\ \A i \in 1 .. Len(fromBackend) - 1 :
           fromBackend'[i] = fromBackend[i + 1] /\ i + 1 \in 1 .. Len(fromBackend)
  BY <1>1, Taken, Zenon
<1>3. LinkTypes'
  BY <1>1, <1>2
<1>4. Numbered'
  BY <1>1, <1>2 DEF Numbered, IsRequest
<1>5. CASE InStep
  <2>1. ~Switches(1) /\ fromBackend[1].mode = compressed
    BY <1>2, <1>5 DEF InStep
  <2>2. InStep'
    BY <1>1, <1>2, <1>5, <2>1 DEF InStep, Switches
  <2> QED
    BY <1>1, <1>2, <1>3, <1>4, <2>1, <2>2, Zenon
<1>6. ASSUME NEW n \in 1 .. Len(fromBackend), Announced(n) PROVE Codec'
  <2>1. fromBackend[1].mode = (1 > n) /\ ~compressed
    BY <1>2, <1>6 DEF Announced
  <2>2. ~muddled'
    BY <1>1, <1>2, <2>1
  <2>3. CASE n = 1
    <3>1. compressed' /\ backend'
      BY <1>1, <1>6, <2>3, Zenon DEF Announced
    <3>2. compressed' = TRUE /\ backend' = TRUE /\ toBackend' = <<>>
      BY <1>1, <1>3, <1>6, <3>1 DEF Announced
    <3>3. ASSUME NEW i \in 1 .. Len(fromBackend')
          PROVE  fromBackend'[i].mode = TRUE /\ ~Switches(i)'
      <4>1. i + 1 \in 1 .. Len(fromBackend) /\ fromBackend'[i] = fromBackend[i + 1]
        BY <1>2, Zenon
      <4>2. fromBackend[i + 1].mode = (i + 1 > n)
        BY <1>6, <4>1 DEF Announced
      <4>3. i + 1 # n /\ (i + 1 > n) = TRUE
        BY <1>2, <2>3
      <4>4. ~Switches(i + 1)
        BY <1>6, <4>1, <4>3 DEF Announced
      <4> QED
        BY <4>1, <4>2, <4>3, <4>4, Zenon DEF Switches
    <3>4. \A i \in 1 .. Len(toBackend') : toBackend'[i].mode = backend'
      BY <3>2
    <3>5. InStep'
      BY <3>2, <3>3, <3>4, Zenon DEF InStep
    <3> QED
      BY <1>3, <1>4, <2>2, <3>5
  <2>4. CASE n > 1
    <3>1. ~compressed' /\ backend' /\ toBackend' = <<>>
      BY <1>1, <1>2, <1>6, <2>4 DEF Announced
    <3>2. n - 1 \in 1 .. Len(fromBackend')
      BY <1>2, <2>4
    <3>3. Switches(n - 1)'
      <4>1. fromBackend'[n - 1] = fromBackend[n]
        BY <1>2, <3>2
      <4> QED
        BY <1>6, <4>1 DEF Announced, Switches
    <3>4. ASSUME NEW i \in 1 .. Len(fromBackend')
          PROVE  /\ fromBackend'[i].mode = (i > n - 1)
                 /\ i # n - 1 => ~Switches(i)'
                 /\ i < n - 1 => ~IsRequest(i)'
      <4>1. i + 1 \in 1 .. Len(fromBackend) /\ fromBackend'[i] = fromBackend[i + 1]
        BY <1>2, Zenon
      <4>2. (i + 1 > n) = (i > n - 1)
        OBVIOUS
      <4>3. fromBackend[i + 1].mode = (i + 1 > n)
        BY <1>6, <4>1 DEF Announced
      <4> QED
        BY <1>6, <4>1, <4>2, <4>3 DEF Announced, Switches, IsRequest
    <3>5. Announced(n - 1)'
      BY <3>1, <3>3, <3>4 DEF Announced
    <3> QED
      BY <1>3, <1>4, <2>2, <3>2, <3>5
  <2> QED
    BY <2>3, <2>4
<1> QED
  BY <1>5, <1>6

\* The proxy reads a request and answers it: no announcement is then on its way.
LEMMA AnswerStep ==
    ASSUME Codec, Login!Read("request"), UNCHANGED compressed,
           toBackend' = Append(toBackend, Login!Answer(Head(fromBackend).id, Head(fromBackend).channel))
    PROVE  Codec'
<1> USE DEF Codec, LinkTypes
<1> DEFINE a == Login!Answer(Head(fromBackend).id, Head(fromBackend).channel)
<1>1. /\ fromBackend # <<>> /\ fromBackend' = Tail(fromBackend)
      /\ Head(fromBackend).kind = "request"
      /\ UNCHANGED <<backend, asked, answers>>
      /\ muddled' = (muddled \/ Head(fromBackend).mode # compressed)
  BY DEF Login!Read
<1>2. /\ Len(fromBackend) \in Nat \ {0} /\ Head(fromBackend) = fromBackend[1]
      /\ Head(fromBackend) \in Packets
      /\ fromBackend' \in Seq(Packets) /\ Len(fromBackend') = Len(fromBackend) - 1
      /\ \A i \in 1 .. Len(fromBackend) - 1 :
           fromBackend'[i] = fromBackend[i + 1] /\ i + 1 \in 1 .. Len(fromBackend)
  BY <1>1, Taken, Zenon
<1>3. Head(fromBackend).id \in Nat /\ Head(fromBackend).channel \in Login!Channels
  BY <1>1, <1>2 DEF Packets
<1>4. a \in Answers /\ a.mode = compressed
  BY <1>3 DEF Answers, Login!Answer
<1>5. /\ Len(toBackend) \in Nat
      /\ toBackend' \in Seq(Answers) /\ Len(toBackend') = Len(toBackend) + 1
      /\ \A i \in 1 .. Len(toBackend) : toBackend'[i] = toBackend[i]
      /\ toBackend'[Len(toBackend) + 1] = a
  BY <1>4, Put
<1>6. LinkTypes'
  BY <1>1, <1>2, <1>5
<1>7. IsRequest(1) /\ 1 \in 1 .. Len(fromBackend) /\ Len(answers) \in Nat /\ Len(asked) \in Nat
  BY <1>1, <1>2 DEF IsRequest
<1>8. Numbered'
  <2>1. fromBackend[1].id \in Nat
    BY <1>2, <1>3
  <2>2. Len(answers) + Len(toBackend) < fromBackend[1].id /\ fromBackend[1].id <= Len(asked)
    BY <1>7 DEF Numbered
  <2>3. ASSUME NEW i \in 1 .. Len(fromBackend'), IsRequest(i)'
        PROVE  /\ Len(answers) + Len(toBackend) + 1 < fromBackend'[i].id
               /\ fromBackend'[i].id <= Len(asked)
    <3>1. /\ i + 1 \in 1 .. Len(fromBackend) /\ fromBackend'[i] = fromBackend[i + 1]
          /\ 1 < i + 1
      BY <1>2
    <3>2. IsRequest(i + 1) /\ fromBackend[i + 1] \in Packets
      BY <2>3, <3>1 DEF IsRequest
    <3>3. fromBackend[1].id < fromBackend[i + 1].id /\ fromBackend[i + 1].id <= Len(asked)
      BY <1>7, <3>1, <3>2 DEF Numbered
    <3>4. fromBackend[i + 1].id \in Nat
      BY <3>2 DEF Packets, IsRequest
    <3> QED
      BY <1>5, <1>7, <2>1, <2>2, <3>1, <3>3, <3>4
  <2>4. ASSUME NEW i \in 1 .. Len(fromBackend'), NEW j \in 1 .. Len(fromBackend'),
               IsRequest(i)', IsRequest(j)', i < j
        PROVE  fromBackend'[i].id < fromBackend'[j].id
    <3>1. /\ i + 1 \in 1 .. Len(fromBackend) /\ fromBackend'[i] = fromBackend[i + 1]
          /\ j + 1 \in 1 .. Len(fromBackend) /\ fromBackend'[j] = fromBackend[j + 1]
      BY <1>2, Zenon
    <3>2. IsRequest(i + 1) /\ IsRequest(j + 1)
      BY <2>4, <3>1 DEF IsRequest
    <3>3. i + 1 < j + 1
      BY <1>2, <2>4
    <3> QED
      BY <3>1, <3>2, <3>3 DEF Numbered
  <2>5. Len(answers') + Len(toBackend') = Len(answers) + Len(toBackend) + 1
    BY <1>1, <1>5, <1>7
  <2> QED
    BY <1>1, <1>5, <1>7, <2>1, <2>2, <2>3, <2>4, <2>5 DEF Numbered
<1>9. InStep
  <2>1. ASSUME NEW n \in 1 .. Len(fromBackend), Announced(n) PROVE FALSE
    <3>1. n # 1
      BY <1>7, <2>1 DEF Announced, IsRequest, Switches
    <3>2. 1 < n
      BY <3>1, <1>2
    <3> QED
      BY <1>7, <2>1, <3>2 DEF Announced
  <2> QED
    BY <2>1
<1>10. ~muddled'
  BY <1>1, <1>2, <1>7, <1>9, Zenon DEF InStep
<1>11. InStep'
  <2>1. ASSUME NEW i \in 1 .. Len(fromBackend')
        PROVE  fromBackend'[i].mode = backend /\ ~Switches(i)'
    BY <1>2, <1>9, Zenon DEF InStep, Switches
  <2>2. ASSUME NEW i \in 1 .. Len(toBackend') PROVE toBackend'[i].mode = backend
    <3>1. CASE i \in 1 .. Len(toBackend)
      BY <1>5, <1>9, <3>1 DEF InStep
    <3>2. CASE i = Len(toBackend) + 1
      BY <1>4, <1>5, <1>9, <3>2 DEF InStep
    <3> QED
      BY <1>5, <3>1, <3>2
  <2> QED
    BY <1>1, <1>9, <2>1, <2>2 DEF InStep
<1> QED
  BY <1>6, <1>8, <1>10, <1>11

\* What the backend does to its own state with a packet it sends.
Asking(p) ==
    /\ p.kind = "request" /\ p.id = Len(asked) + 1
    /\ \E c \in Login!Channels : asked' = Append(asked, c)
    /\ backend' = backend

Announcing(p) ==
    /\ p.kind = "setCompression" /\ ~Login!Open /\ backend = FALSE
    /\ backend' = (p.threshold >= 0)
    /\ asked' = asked

Saying(p) == p.kind \notin {"request", "setCompression"} /\ asked' = asked /\ backend' = backend

\* A position of a longer queue is one of the shorter queue or the new one.
LEMMA LastOrBefore == \A m \in Nat : \A j \in 1 .. m + 1 : j \in 1 .. m \/ j = m + 1
OBVIOUS

\* The backend sends a packet in its own mode; an announcement only with no request open.
LEMMA EmitStep ==
    ASSUME Codec, NEW p \in Packets, Login!Emit(p), p.mode = backend,
           Asking(p) \/ Announcing(p) \/ Saying(p)
    PROVE  Codec'
<1> USE DEF Codec, LinkTypes
<1>0. PICK L \in Nat : L = Len(fromBackend)
  OBVIOUS
<1> DEFINE turns == p.kind = "setCompression" /\ p.threshold >= 0
<1>1. fromBackend' = Append(fromBackend, p) /\ UNCHANGED <<compressed, toBackend, answers, muddled>>
  BY DEF Login!Emit
<1>2. /\ L = Len(fromBackend)
      /\ fromBackend' \in Seq(Packets) /\ Len(fromBackend') = L + 1
      /\ \A i \in 1 .. L : fromBackend'[i] = fromBackend[i]
      /\ fromBackend'[L + 1] = p
  BY <1>0, <1>1, Put
<1>3. /\ Len(asked) \in Nat /\ Len(answers) \in Nat /\ Len(toBackend) \in Nat
      /\ asked' \in Seq(Login!Channels) /\ Len(asked') \in Nat /\ Len(asked) <= Len(asked')
      /\ p.kind = "request" => p.id = Len(asked) + 1 /\ Len(asked') = Len(asked) + 1
  <2>1. CASE Asking(p)
    BY <2>1 DEF Asking
  <2>2. CASE Announcing(p) \/ Saying(p)
    BY <2>2 DEF Announcing, Saying
  <2> QED
    BY <2>1, <2>2
<1>4. \/ backend' = backend /\ ~turns
      \/ turns /\ ~Login!Open /\ backend = FALSE /\ backend' = TRUE
  <2>1. CASE Asking(p) \/ Saying(p)
    BY <2>1 DEF Asking, Saying
  <2>2. CASE Announcing(p)
    <3>1. CASE p.threshold >= 0
      BY <2>2, <3>1, Zenon DEF Announcing
    <3>2. CASE ~(p.threshold >= 0)
      BY <2>2, <3>2 DEF Announcing
    <3> QED
      BY <3>1, <3>2, Zenon
  <2> QED
    BY <2>1, <2>2, Zenon
<1>5. LinkTypes'
  BY <1>1, <1>2, <1>3, <1>4, Zenon
<1>6. Numbered'
  <2>1. Len(answers) + Len(toBackend) <= Len(asked)
    BY DEF Numbered
  <2>2. ASSUME NEW i \in 1 .. L, IsRequest(i)'
        PROVE  /\ IsRequest(i) /\ fromBackend'[i].id = fromBackend[i].id
               /\ fromBackend[i].id \in Nat /\ fromBackend[i].id <= Len(asked)
               /\ Len(answers) + Len(toBackend) < fromBackend[i].id
    <3>1. IsRequest(i) /\ fromBackend'[i] = fromBackend[i] /\ fromBackend[i] \in Packets
      BY <1>2, <2>2 DEF IsRequest
    <3>2. fromBackend[i].id \in Nat
      BY <3>1 DEF IsRequest, Packets
    <3> QED
      BY <1>2, <3>1, <3>2 DEF Numbered
  <2>3. IsRequest(L + 1)' => p.id = Len(asked) + 1 /\ Len(asked') = Len(asked) + 1
    BY <1>2, <1>3 DEF IsRequest
  <2>4. ASSUME NEW i \in 1 .. L + 1, IsRequest(i)'
        PROVE  /\ Len(answers) + Len(toBackend) < fromBackend'[i].id
               /\ fromBackend'[i].id <= Len(asked')
    <3>1. CASE i \in 1 .. L
      <4>1. /\ fromBackend'[i].id = fromBackend[i].id
            /\ fromBackend[i].id \in Nat /\ fromBackend[i].id <= Len(asked)
            /\ Len(answers) + Len(toBackend) < fromBackend[i].id
        BY <2>2, <2>4, <3>1, Zenon
      <4> QED
        BY <1>3, <4>1
    <3>2. CASE i = L + 1
      BY <1>2, <1>3, <2>1, <2>3, <2>4, <3>2
    <3> QED
      BY <1>2, <3>1, <3>2
  <2>5. ASSUME NEW i \in 1 .. L + 1, NEW j \in 1 .. L + 1, IsRequest(i)', IsRequest(j)', i < j
        PROVE  fromBackend'[i].id < fromBackend'[j].id
    <3>1. i \in 1 .. L
      BY <1>2, <2>5
    <3>2. CASE j \in 1 .. L
      BY <1>2, <2>2, <2>5, <3>1, <3>2 DEF Numbered
    <3>3. CASE j = L + 1
      BY <1>2, <1>3, <2>2, <2>3, <2>5, <3>1, <3>3
    <3> QED
      BY <1>2, <3>2, <3>3
  <2> QED
    BY <1>1, <1>2, <1>3, <2>1, <2>4, <2>5 DEF Numbered
<1>7. ASSUME NEW i \in 1 .. L PROVE Switches(i)' = Switches(i) /\ IsRequest(i)' = IsRequest(i)
  BY <1>2 DEF Switches, IsRequest
<1>8. CASE InStep /\ ~turns
  <2>1. ~Switches(L + 1)' /\ backend' = backend
    BY <1>2, <1>4, <1>8 DEF Switches
  <2>2. ASSUME NEW i \in 1 .. L + 1 PROVE fromBackend'[i].mode = backend /\ ~Switches(i)'
    <3>1. CASE i \in 1 .. L
      BY <1>2, <1>7, <1>8, <3>1 DEF InStep
    <3>2. CASE i = L + 1
      BY <1>2, <2>1, <3>2
    <3> QED
      BY <1>2, <3>1, <3>2, SMTT(40)
  <2>3. InStep'
    BY <1>1, <1>2, <1>8, <2>1, <2>2, Zenon DEF InStep
  <2> QED
    BY <1>1, <1>5, <1>6, <2>3
<1>9. CASE InStep /\ turns
  <2>1. ~Login!Open /\ backend = FALSE /\ backend' = TRUE
    BY <1>4, <1>9
  <2>2. toBackend = <<>>
    <3>1. Len(toBackend) = 0
      BY <1>3, <2>1 DEF Numbered, Login!Open
    <3> QED
      BY <3>1, SMTT(40)
  <2>3. ASSUME NEW i \in 1 .. L, IsRequest(i) PROVE FALSE
    <3>0. fromBackend[i] \in Packets
      BY <1>2
    <3>1. fromBackend[i].id \in Nat
      BY <2>3, <3>0 DEF IsRequest, Packets
    <3>2. Len(answers) + Len(toBackend) < fromBackend[i].id /\ fromBackend[i].id <= Len(asked)
      BY <1>2, <2>3 DEF Numbered
    <3> QED
      BY <1>3, <2>1, <3>1, <3>2 DEF Login!Open
  <2>4. Switches(L + 1)'
    BY <1>2, <1>9 DEF Switches
  <2>5. ASSUME NEW i \in 1 .. L + 1
        PROVE  /\ fromBackend'[i].mode = (i > L + 1)
               /\ i # L + 1 => ~Switches(i)'
               /\ i < L + 1 => ~IsRequest(i)'
    <3>1. (i > L + 1) = FALSE
      BY <1>2
    <3>2. CASE i \in 1 .. L
      BY <1>2, <1>7, <1>9, <2>1, <2>3, <3>1, <3>2 DEF InStep
    <3>3. CASE i = L + 1
      BY <1>2, <2>1, <3>1, <3>3, SMTT(30)
    <3> QED
      BY <1>2, <3>2, <3>3
  <2>6. Announced(L + 1)'
    BY <1>1, <1>2, <1>9, <2>1, <2>2, <2>4, <2>5 DEF Announced, InStep
  <2>7. L + 1 \in 1 .. Len(fromBackend') /\ ~muddled'
    BY <1>1, <1>2
  <2> QED
    BY <1>5, <1>6, <2>6, <2>7, Zenon
<1>10. ASSUME NEW n \in 1 .. L, Announced(n) PROVE Codec'
  <2>1. backend = TRUE /\ backend' = TRUE /\ ~turns
    BY <1>4, <1>10 DEF Announced
  <2>2. ASSUME NEW i \in 1 .. L + 1
        PROVE  /\ fromBackend'[i].mode = (i > n)
               /\ i # n => ~Switches(i)'
               /\ i < n => ~IsRequest(i)'
    <3>1. CASE i \in 1 .. L
      BY <1>2, <1>7, <1>10, <3>1 DEF Announced
    <3>2. CASE i = L + 1
      <4>1. (i > n) = TRUE /\ ~(i < n)
        BY <1>2, <3>2
      <4> QED
        BY <1>2, <2>1, <3>2, <4>1, Zenon DEF Switches
    <3>3. i \in 1 .. L \/ i = L + 1
      BY LastOrBefore, Zenon
    <3> QED
      BY <3>1, <3>2, <3>3, Zenon
  <2>3. Announced(n)'
    BY <1>1, <1>2, <1>7, <1>10, <2>1, <2>2 DEF Announced
  <2>4. n \in 1 .. Len(fromBackend') /\ ~muddled'
    BY <1>1, <1>2
  <2> QED
    BY <1>5, <1>6, <2>3, <2>4, Zenon
<1> QED
  BY <1>2, <1>8, <1>9, <1>10

\* The backend reads an answer.
LEMMA BackendReadsStep == Codec /\ Login!BackendReads => Codec'
<1> SUFFICES ASSUME Codec, Login!BackendReads PROVE Codec'
  OBVIOUS
<1> USE DEF Codec, LinkTypes
<1>1. /\ toBackend # <<>> /\ toBackend' = Tail(toBackend)
      /\ answers' = Append(answers, Head(toBackend))
      /\ UNCHANGED <<compressed, backend, asked, fromBackend>>
      /\ muddled' = (muddled \/ Head(toBackend).mode # backend)
  BY DEF Login!BackendReads
<1>2. /\ Len(toBackend) \in Nat \ {0} /\ Head(toBackend) = toBackend[1] /\ Head(toBackend) \in Answers
      /\ toBackend' \in Seq(Answers) /\ Len(toBackend') = Len(toBackend) - 1
      /\ \A i \in 1 .. Len(toBackend) - 1 :
           toBackend'[i] = toBackend[i + 1] /\ i + 1 \in 1 .. Len(toBackend)
  BY <1>1, Taken, Zenon
<1>3. answers' \in Seq(Answers) /\ Len(answers) \in Nat /\ Len(answers') = Len(answers) + 1
  BY <1>1, <1>2, Put
<1>4. LinkTypes'
  BY <1>1, <1>2, <1>3
<1>5. Len(answers') + Len(toBackend') = Len(answers) + Len(toBackend)
  BY <1>2, <1>3
<1>6. Numbered'
  BY <1>1, <1>5 DEF Numbered, IsRequest
<1>7. InStep
  BY <1>1 DEF Announced
<1>8. ~muddled'
  <2>1. toBackend[1].mode = backend
    BY <1>2, <1>7 DEF InStep
  <2> QED
    BY <1>1, <1>2, <2>1, Zenon
<1>9. InStep'
  BY <1>1, <1>2, <1>7 DEF InStep, Switches
<1> QED
  BY <1>4, <1>6, <1>8, <1>9

\* A login starts with nothing on its way.
Blank ==
    /\ compressed = FALSE /\ backend = FALSE /\ muddled = FALSE
    /\ asked = <<>> /\ fromBackend = <<>> /\ toBackend = <<>> /\ answers = <<>>

\* Nothing is out of step then.
LEMMA BlankCodec == Blank => Codec
<1> SUFFICES ASSUME Blank PROVE Codec
  OBVIOUS
<1>1. LinkTypes
  <2>1. compressed \in BOOLEAN /\ backend \in BOOLEAN
    BY Zenon DEF Blank
  <2>2. /\ asked \in Seq(Login!Channels) /\ fromBackend \in Seq(Packets)
        /\ toBackend \in Seq(Answers) /\ answers \in Seq(Answers)
    BY DEF Blank
  <2> QED
    BY <2>1, <2>2 DEF LinkTypes
<1>2. Len(fromBackend) = 0 /\ Len(toBackend) = 0 /\ Len(answers) = 0 /\ Len(asked) = 0
  BY DEF Blank
<1>3. Numbered
  BY <1>2 DEF Numbered
<1>4. InStep
  <2>1. compressed = backend
    BY Zenon DEF Blank
  <2>2. \A i \in 1 .. 0 : FALSE
    OBVIOUS
  <2> QED
    BY <1>2, <2>1, <2>2, Zenon DEF InStep
<1> QED
  BY <1>1, <1>3, <1>4 DEF Blank, Codec

\* Every step of the login, of the backend and of the failover keeps the codecs right.
LEMMA CodecStep == Codec /\ [Next]_vars => Codec'
<1> SUFFICES ASSUME Codec, [Next]_vars PROVE Codec'
  OBVIOUS
<1>1. CASE UNCHANGED Login!link
  BY <1>1, Zenon DEF Login!link, Codec, LinkTypes, Numbered, InStep, Announced, IsRequest, Switches
<1>2. CASE Login!Connect \/ Login!ReadFails
  BY <1>1, <1>2 DEF Login!Connect, Login!Connected, Login!AttemptFails, Login!SleepEnds, Login!ReadFails
<1>3. CASE Login!Disconnected \/ Login!Success \/ Login!Skipped
  <2>1. PICK k \in {"disconnect", "success", "unknown"} :
          Login!Read(k) /\ UNCHANGED <<compressed, toBackend>>
    BY <1>3 DEF Login!Disconnected, Login!Success, Login!Skipped
  <2>2. Head(fromBackend) = fromBackend[1] /\ fromBackend[1].kind = k
    BY <2>1 DEF Codec, LinkTypes, Login!Read
  <2>3. ~Switches(1) /\ compressed \in BOOLEAN
    BY <2>2 DEF Switches, Codec, LinkTypes
  <2> QED
    BY <2>1, <2>3, ReadStep
<1>4. CASE Login!SetCompression
  <2>1. Login!Read("setCompression") /\ UNCHANGED toBackend
        /\ compressed' = (compressed \/ Head(fromBackend).threshold >= 0)
    BY <1>4 DEF Login!SetCompression
  <2>2. Head(fromBackend) = fromBackend[1] /\ fromBackend[1].kind = "setCompression"
    BY <2>1 DEF Codec, LinkTypes, Login!Read
  <2>3. compressed' = (compressed \/ Switches(1))
    BY <2>1, <2>2 DEF Switches
  <2> QED
    BY <2>1, <2>3, ReadStep
<1>5. CASE Login!PluginRequest
  <2>1. Login!Read("request") /\ UNCHANGED compressed
    BY <1>5 DEF Login!PluginRequest
  <2>2. CASE toBackend' = Append(toBackend, Login!Answer(Head(fromBackend).id, Head(fromBackend).channel))
    BY <2>1, <2>2, AnswerStep
  <2>3. CASE UNCHANGED toBackend
    <3>1. Head(fromBackend) = fromBackend[1] /\ fromBackend[1].kind = "request"
      BY <2>1 DEF Codec, LinkTypes, Login!Read
    <3>2. ~Switches(1) /\ compressed \in BOOLEAN
      BY <3>1 DEF Switches, Codec, LinkTypes
    <3> QED
      BY <2>1, <2>3, <3>2, ReadStep
  <2> QED
    BY <1>5, <2>2, <2>3 DEF Login!PluginRequest
<1>6. CASE Login!Restart
  <2>1. Blank'
    BY <1>6 DEF Login!Restart, Blank
  <2> QED
    BY <2>1, BlankCodec, PTL
<1>7. CASE Login!Asks
  <2>1. PICK c \in Login!Channels :
          /\ Login!Emit([kind |-> "request", id |-> Len(asked) + 1, channel |-> c, mode |-> backend])
          /\ asked' = Append(asked, c) /\ backend' = backend
    BY <1>7 DEF Login!Asks
  <2> DEFINE p == [kind |-> "request", id |-> Len(asked) + 1, channel |-> c, mode |-> backend]
  <2>2. p \in Packets /\ p.mode = backend /\ Asking(p)
    BY <2>1 DEF Codec, LinkTypes, Packets, Asking
  <2> HIDE DEF p
  <2> QED
    BY <2>1, <2>2, EmitStep DEF p
<1>8. CASE Login!Announces
  <2>1. PICK t \in {-1, 0, 256} :
          /\ Login!Emit([kind |-> "setCompression", threshold |-> t, mode |-> backend])
          /\ backend' = (t >= 0)
    BY <1>8 DEF Login!Announces
  <2> DEFINE p == [kind |-> "setCompression", threshold |-> t, mode |-> backend]
  <2>2. p \in Packets /\ p.mode = backend /\ Announcing(p)
    BY <1>8, <2>1 DEF Login!Announces, Codec, LinkTypes, Packets, Announcing
  <2> HIDE DEF p
  <2> QED
    BY <2>1, <2>2, EmitStep DEF p
<1>9. CASE Login!Says \/ Login!Accepts
  <2>1. PICK k \in {"disconnect", "unknown", "success"} :
          Login!Emit([kind |-> k, mode |-> backend]) /\ UNCHANGED <<asked, backend>>
    BY <1>9 DEF Login!Says, Login!Accepts
  <2> DEFINE p == [kind |-> k, mode |-> backend]
  <2>2. p \in Packets /\ p.mode = backend /\ Saying(p)
    BY <2>1 DEF Codec, LinkTypes, Packets, Saying
  <2> HIDE DEF p
  <2> QED
    BY <2>1, <2>2, EmitStep DEF p
<1>10. CASE Login!BackendReads
  BY <1>10, BackendReadsStep
<1>11. CASE Login!Handle \/ Login!Backend
  BY <1>3, <1>4, <1>5, <1>7, <1>8, <1>9, <1>10, <1>11 DEF Login!Handle, Login!Backend
<1>12. CASE UNCHANGED backendVars
  BY <1>1, <1>12 DEF backendVars, Login!link
<1> QED
  BY <1>2, <1>6, <1>11, <1>12
  DEF Next, Task, Peers, BeginLogin, LoginBackend, FailOver, Forward, vars

\* login_backend: for backends that ask as much as they like and announce compression with
\* no request open, no packet is read in another mode than it was written in, also after
\* a failover.
THEOREM CodecsAgree == Spec => []ConversationReadable
<1>1. Init => Codec
  BY BlankCodec DEF Init, Login!Init, Blank
<1>2. Codec => ConversationReadable
  BY DEF Codec, ConversationReadable, Login!ConversationReadable
<1> QED
  BY <1>1, <1>2, CodecStep, PTL DEF Spec

-----------------------------------------------------------------------------
(* The backend's requests.                                                  *)

\* Every answer, read or not, is to the request with its number, and the player's data
\* are given away only with a secret.
Given ==
    /\ \A i \in 1 .. Len(answers) :
         /\ answers[i].id = i /\ answers[i].data = asked[i]
         /\ secret \/ answers[i].data = "other"
    /\ \A i \in 1 .. Len(toBackend) :
         /\ toBackend[i].id = Len(answers) + i /\ toBackend[i].data = asked[Len(answers) + i]
         /\ secret \/ toBackend[i].data = "other"

\* A request on its way names the channel the backend has noted for it.
Carried ==
    \A i \in 1 .. Len(fromBackend) :
        IsRequest(i) => fromBackend[i].channel = asked[fromBackend[i].id]

\* A request that is not answered is still to be read.
Unlost ==
    pc # "failed" =>
        \A n \in Len(answers) + Len(toBackend) + 1 .. Len(asked) :
            \E i \in 1 .. Len(fromBackend) : IsRequest(i) /\ fromBackend[i].id = n

IsSuccess(i) == fromBackend[i].kind = "success"

\* A success is the last packet of a backend that has read an answer to each request.
Settled ==
    /\ pc = "ok" => Len(answers) = Len(asked)
    /\ \A i \in 1 .. Len(fromBackend) :
         IsSuccess(i) => Len(answers) = Len(asked) /\ sent = MaxPackets

Requests == Given /\ Carried /\ Unlost /\ Settled

\* The proxy reads a packet and sends nothing: if it was a request the login has failed.
LEMMA RequestsRead ==
    ASSUME Codec, Requests, NEW k, Login!Read(k), UNCHANGED toBackend,
           k = "request" => pc' = "failed",
           pc' = "ok" => k = "success"
    PROVE  Requests'
<1>1. /\ fromBackend # <<>> /\ fromBackend' = Tail(fromBackend) /\ Head(fromBackend).kind = k
      /\ UNCHANGED <<secret, asked, answers, toBackend, sent>> /\ pc = "login"
  BY DEF Login!Read
<1>2. /\ Len(fromBackend) \in Nat \ {0} /\ Head(fromBackend) = fromBackend[1]
      /\ Len(fromBackend') = Len(fromBackend) - 1
      /\ \A i \in 1 .. Len(fromBackend) - 1 :
           fromBackend'[i] = fromBackend[i + 1] /\ i + 1 \in 1 .. Len(fromBackend)
  BY <1>1, Taken, Zenon DEF Codec, LinkTypes
<1>3. Given'
  BY <1>1 DEF Requests, Given
<1>4. Carried'
  BY <1>1, <1>2 DEF Requests, Carried, IsRequest
<1>5. Unlost'
  <2>1. SUFFICES ASSUME pc' # "failed",
                        NEW n \in Len(answers) + Len(toBackend) + 1 .. Len(asked)
                 PROVE  \E i \in 1 .. Len(fromBackend') : IsRequest(i)' /\ fromBackend'[i].id = n
    BY <1>1 DEF Unlost
  <2>2. PICK i \in 1 .. Len(fromBackend) : IsRequest(i) /\ fromBackend[i].id = n
    BY <1>1, <2>1 DEF Requests, Unlost
  <2>3. i # 1
    BY <1>1, <1>2, <2>1, <2>2 DEF IsRequest
  <2>4. i - 1 \in 1 .. Len(fromBackend') /\ fromBackend'[i - 1] = fromBackend[i]
    BY <1>2, <2>3
  <2> QED BY <2>2, <2>4 DEF IsRequest
<1>6. Settled'
  <2>1. pc' = "ok" => Len(answers) = Len(asked)
    BY <1>1, <1>2 DEF Requests, Settled, IsSuccess
  <2>2. ASSUME NEW i \in 1 .. Len(fromBackend'), IsSuccess(i)'
        PROVE  Len(answers) = Len(asked) /\ sent = MaxPackets
    BY <1>2, <2>2, Zenon DEF Requests, Settled, IsSuccess
  <2> QED BY <1>1, <2>1, <2>2 DEF Settled
<1> QED BY <1>3, <1>4, <1>5, <1>6 DEF Requests

\* The proxy answers a request: it is the next one.
LEMMA RequestsAnswer ==
    ASSUME Codec, Requests, Login!Read("request"), UNCHANGED pc,
           Head(fromBackend).channel = "other" \/ secret,
           toBackend' = Append(toBackend, Login!Answer(Head(fromBackend).id, Head(fromBackend).channel))
    PROVE  Requests'
<1> DEFINE a == Login!Answer(Head(fromBackend).id, Head(fromBackend).channel)
<1>0. PICK A \in Nat, B \in Nat, Q \in Nat :
        A = Len(answers) /\ B = Len(toBackend) /\ Q = Len(asked)
  BY DEF Codec, LinkTypes
<1>1. /\ fromBackend # <<>> /\ fromBackend' = Tail(fromBackend)
      /\ Head(fromBackend).kind = "request"
      /\ UNCHANGED <<secret, asked, answers, sent>> /\ pc = "login"
  BY DEF Login!Read
<1>2. /\ Len(fromBackend) \in Nat \ {0} /\ Head(fromBackend) = fromBackend[1]
      /\ Head(fromBackend) \in Packets
      /\ Len(fromBackend') = Len(fromBackend) - 1
      /\ \A i \in 1 .. Len(fromBackend) - 1 :
           fromBackend'[i] = fromBackend[i + 1] /\ i + 1 \in 1 .. Len(fromBackend)
  BY <1>1, Taken, Zenon DEF Codec, LinkTypes
<1>3. fromBackend[1].id \in Nat /\ fromBackend[1].channel \in Login!Channels
  BY <1>1, <1>2 DEF Packets
<1>4. a \in Answers /\ a.id = fromBackend[1].id /\ a.data = fromBackend[1].channel
  BY <1>2, <1>3 DEF Answers, Login!Answer, Codec, LinkTypes
<1>5. /\ Len(toBackend') = B + 1
      /\ \A i \in 1 .. B : toBackend'[i] = toBackend[i]
      /\ toBackend'[B + 1] = a
  BY <1>0, <1>4, Put DEF Codec, LinkTypes
<1>6. fromBackend[1].id = A + B + 1
  <2>1. 1 \in 1 .. Len(fromBackend) /\ IsRequest(1)
    BY <1>1, <1>2 DEF IsRequest
  <2>2. A + B < fromBackend[1].id /\ fromBackend[1].id <= Q
    BY <1>0, <2>1 DEF Codec, Numbered
  <2>3. A + B + 1 \in A + B + 1 .. Q
    BY <1>3, <2>2
  <2>4. \A n \in A + B + 1 .. Q :
          \E i \in 1 .. Len(fromBackend) : IsRequest(i) /\ fromBackend[i].id = n
    BY <1>0, <1>1, Zenon DEF Requests, Unlost
  <2>5. PICK i \in 1 .. Len(fromBackend) : IsRequest(i) /\ fromBackend[i].id = A + B + 1
    BY <2>3, <2>4, Zenon
  <2>6. i # 1 => fromBackend[1].id < A + B + 1
    BY <1>2, <2>1, <2>5 DEF Codec, Numbered
  <2> QED BY <1>3, <2>2, <2>5, <2>6
<1>7. asked[A + B + 1] = fromBackend[1].channel
  BY <1>1, <1>2, <1>6 DEF Requests, Carried, IsRequest
<1>8. Given'
  <2>1. ASSUME NEW i \in 1 .. B + 1
        PROVE  /\ toBackend'[i].id = A + i /\ toBackend'[i].data = asked[A + i]
               /\ secret \/ toBackend'[i].data = "other"
    <3>1. CASE i \in 1 .. B
      BY <1>0, <1>5, <3>1 DEF Requests, Given
    <3>2. CASE i = B + 1
      <4>1. A + i = A + B + 1  BY <3>2
      <4>2. toBackend'[i].id = fromBackend[1].id /\ toBackend'[i].data = fromBackend[1].channel
        BY <1>4, <1>5, <3>2, Zenon
      <4>3. secret \/ fromBackend[1].channel = "other"  BY <1>2, Zenon
      <4> QED BY <1>6, <1>7, <4>1, <4>2, <4>3, Zenon
    <3> QED BY <3>1, <3>2, LastOrBefore, Zenon
  <2> QED BY <1>0, <1>1, <1>5, <2>1 DEF Requests, Given
<1>9. Carried'
  BY <1>1, <1>2 DEF Requests, Carried, IsRequest
<1>10. Unlost'
  <2>1. SUFFICES ASSUME NEW n \in A + (B + 1) + 1 .. Q
                 PROVE  \E i \in 1 .. Len(fromBackend') : IsRequest(i)' /\ fromBackend'[i].id = n
    BY <1>0, <1>1, <1>5 DEF Unlost
  <2>2. n \in A + B + 1 .. Q /\ n # A + B + 1
    OBVIOUS
  <2>3. PICK i \in 1 .. Len(fromBackend) : IsRequest(i) /\ fromBackend[i].id = n
    BY <1>0, <1>1, <2>2 DEF Requests, Unlost
  <2>4. i # 1
    BY <1>6, <2>2, <2>3
  <2>5. i - 1 \in 1 .. Len(fromBackend') /\ fromBackend'[i - 1] = fromBackend[i]
    BY <1>2, <2>4
  <2> QED BY <2>3, <2>5 DEF IsRequest
<1>11. Settled'
  BY <1>1, <1>2 DEF Requests, Settled, IsSuccess
<1> QED BY <1>8, <1>9, <1>10, <1>11 DEF Requests

\* The backend sends a packet: a request gets the next number, a success comes last.
LEMMA RequestsEmit ==
    ASSUME Codec, Requests, NEW p \in Packets, Login!Emit(p),
           \/ p.kind = "request" /\ p.id = Len(asked) + 1 /\ asked' = Append(asked, p.channel)
           \/ p.kind # "request" /\ asked' = asked,
           p.kind = "success" => ~Login!Open
    PROVE  Requests'
<1>0. PICK A \in Nat, B \in Nat, Q \in Nat, L \in Nat :
        A = Len(answers) /\ B = Len(toBackend) /\ Q = Len(asked) /\ L = Len(fromBackend)
  BY DEF Codec, LinkTypes
<1>1. /\ fromBackend' = Append(fromBackend, p) /\ UNCHANGED <<secret, pc, toBackend, answers>>
      /\ pc = "login" /\ sent < MaxPackets
      /\ p.kind = "success" => sent' = MaxPackets
  BY DEF Login!Emit
<1>2. /\ Len(fromBackend') = L + 1
      /\ \A i \in 1 .. L : fromBackend'[i] = fromBackend[i]
      /\ fromBackend'[L + 1] = p
  BY <1>0, <1>1, Put DEF Codec, LinkTypes
<1>3. A + B <= Q
  BY <1>0 DEF Codec, Numbered
<1>4. /\ \A n \in 1 .. Q : asked'[n] = asked[n]
      /\ \/ p.kind = "request" /\ p.id = Q + 1 /\ asked'[Q + 1] = p.channel /\ Len(asked') = Q + 1
         \/ p.kind # "request" /\ Len(asked') = Q
  <2>1. CASE p.kind = "request" /\ p.id = Len(asked) + 1 /\ asked' = Append(asked, p.channel)
    <3>1. p.channel \in Login!Channels
      BY <2>1 DEF Packets
    <3> QED BY <1>0, <2>1, <3>1, Put DEF Codec, LinkTypes
  <2>2. CASE p.kind # "request" /\ asked' = asked
    BY <1>0, <2>2
  <2> QED BY <2>1, <2>2
<1>5. Given'
  <2>1. ASSUME NEW i \in 1 .. A PROVE asked'[i] = asked[i]
    BY <1>3, <1>4
  <2>2. ASSUME NEW i \in 1 .. B PROVE asked'[A + i] = asked[A + i]
    BY <1>3, <1>4
  <2> QED BY <1>0, <1>1, <2>1, <2>2 DEF Requests, Given
<1>6. Carried'
  <2>1. ASSUME NEW i \in 1 .. L + 1, IsRequest(i)'
        PROVE  fromBackend'[i].channel = asked'[fromBackend'[i].id]
    <3>1. CASE i \in 1 .. L
      <4>1. IsRequest(i) /\ fromBackend'[i] = fromBackend[i] /\ fromBackend[i] \in Packets
        BY <1>0, <1>2, <2>1, <3>1 DEF IsRequest, Codec, LinkTypes
      <4>2. fromBackend[i].id \in Nat
        BY <4>1 DEF IsRequest, Packets
      <4>3. A + B < fromBackend[i].id /\ fromBackend[i].id <= Q
        BY <1>0, <3>1, <4>1 DEF Codec, Numbered
      <4>4. fromBackend[i].id \in 1 .. Q
        BY <4>2, <4>3
      <4> QED BY <1>0, <1>4, <3>1, <4>1, <4>4 DEF Requests, Carried
    <3>2. CASE i = L + 1
      BY <1>2, <1>4, <2>1, <3>2 DEF IsRequest
    <3> QED BY <3>1, <3>2, LastOrBefore
  <2> QED BY <1>2, <2>1 DEF Carried
<1>7. Unlost'
  <2>1. SUFFICES ASSUME NEW n \in A + B + 1 .. Len(asked')
                 PROVE  \E i \in 1 .. L + 1 : IsRequest(i)' /\ fromBackend'[i].id = n
    BY <1>0, <1>1, <1>2 DEF Unlost
  <2>2. CASE n \in A + B + 1 .. Q
    <3>1. PICK i \in 1 .. L : IsRequest(i) /\ fromBackend[i].id = n
      BY <1>0, <1>1, <2>2, Zenon DEF Requests, Unlost
    <3> QED BY <1>2, <3>1 DEF IsRequest
  <2>3. CASE n = Q + 1 /\ p.kind = "request"
    BY <1>2, <1>4, <2>3 DEF IsRequest
  <2> QED BY <1>4, <2>1, <2>2, <2>3
<1>8. Settled'
  <2>1. ASSUME NEW i \in 1 .. L PROVE ~IsSuccess(i)
    BY <1>0, <1>1, LoginAssumption DEF Requests, Settled
  <2>2. ASSUME p.kind = "success" PROVE A = Q /\ Len(asked') = Q /\ sent' = MaxPackets
    <3>1. A = Q
      BY <1>0, <1>3, <2>2 DEF Login!Open
    <3> QED BY <1>1, <1>4, <2>2, <3>1
  <2>3. ASSUME NEW i \in 1 .. L + 1, IsSuccess(i)'
        PROVE  Len(answers') = Len(asked') /\ sent' = MaxPackets
    <3>1. CASE i \in 1 .. L
      BY <1>2, <2>1, <2>3, <3>1 DEF IsSuccess
    <3>2. CASE i = L + 1
      BY <1>0, <1>1, <1>2, <2>2, <2>3, <3>2 DEF IsSuccess
    <3> QED BY <3>1, <3>2, LastOrBefore
  <2> QED BY <1>1, <1>2, <2>3 DEF Settled
<1> QED BY <1>5, <1>6, <1>7, <1>8 DEF Requests

\* The backend reads an answer: it is the one to the next request.
LEMMA RequestsBackendReads ==
    ASSUME Codec, Requests, Login!BackendReads
    PROVE  Requests'
<1>0. PICK A \in Nat, B \in Nat : A = Len(answers) /\ B = Len(toBackend)
  BY DEF Codec, LinkTypes
<1>1. /\ toBackend # <<>> /\ toBackend' = Tail(toBackend)
      /\ answers' = Append(answers, Head(toBackend))
      /\ UNCHANGED <<secret, pc, asked, fromBackend, sent>> /\ pc = "login"
  BY DEF Login!BackendReads
<1>2. /\ B # 0 /\ Head(toBackend) = toBackend[1] /\ Head(toBackend) \in Answers
      /\ Len(toBackend') = B - 1
      /\ \A i \in 1 .. B - 1 : toBackend'[i] = toBackend[i + 1] /\ i + 1 \in 1 .. B
  BY <1>0, <1>1, Taken DEF Codec, LinkTypes
<1>3. /\ Len(answers') = A + 1 /\ \A i \in 1 .. A : answers'[i] = answers[i]
      /\ answers'[A + 1] = toBackend[1]
  BY <1>0, <1>1, <1>2, Put DEF Codec, LinkTypes
<1>4. Given'
  <2>1. ASSUME NEW i \in 1 .. A + 1
        PROVE  /\ answers'[i].id = i /\ answers'[i].data = asked[i]
               /\ secret \/ answers'[i].data = "other"
    <3>1. CASE i \in 1 .. A
      BY <1>0, <1>3, <3>1 DEF Requests, Given
    <3>2. CASE i = A + 1
      BY <1>0, <1>2, <1>3, <3>2 DEF Requests, Given
    <3> QED BY <3>1, <3>2, LastOrBefore
  <2>2. ASSUME NEW i \in 1 .. B - 1
        PROVE  /\ toBackend'[i].id = A + 1 + i /\ toBackend'[i].data = asked[A + 1 + i]
               /\ secret \/ toBackend'[i].data = "other"
    <3>1. i + 1 \in 1 .. B /\ toBackend'[i] = toBackend[i + 1] /\ A + (i + 1) = A + 1 + i
      BY <1>2
    <3> QED BY <1>0, <3>1 DEF Requests, Given
  <2> QED BY <1>1, <1>2, <1>3, <2>1, <2>2, Zenon DEF Given
<1>5. Carried'
  BY <1>1 DEF Requests, Carried, IsRequest
<1>6. Unlost'
  <2>1. Len(answers') + Len(toBackend') = Len(answers) + Len(toBackend)
    BY <1>0, <1>2, <1>3
  <2> QED BY <1>1, <2>1 DEF Requests, Unlost, IsRequest
<1>7. Settled'
  <2>1. A < Len(asked)
    BY <1>0, <1>2 DEF Codec, LinkTypes, Numbered
  <2>2. \A i \in 1 .. Len(fromBackend) : ~IsSuccess(i)
    BY <1>0, <2>1 DEF Requests, Settled, Codec, LinkTypes
  <2> QED BY <1>1, <2>2 DEF Settled, IsSuccess
<1> QED BY <1>4, <1>5, <1>6, <1>7 DEF Requests

\* One case per handler, as for the codecs.
LEMMA RequestsStep == Codec /\ Requests /\ [Next]_vars => Requests'
<1> SUFFICES ASSUME Codec, Requests, [Next]_vars PROVE Requests'
  OBVIOUS
<1>1. CASE UNCHANGED <<secret, Login!link>> /\ (pc' = pc \/ pc' \notin {"ok"})
        /\ (pc = "failed" => pc' = "failed")
  BY <1>1, Zenon DEF Login!link, Requests, Given, Carried, Unlost, Settled, IsRequest, IsSuccess
<1>2. CASE Login!Connect \/ Login!ReadFails
  BY <1>1, <1>2 DEF Login!Connect, Login!Connected, Login!AttemptFails, Login!SleepEnds, Login!ReadFails
<1>3. CASE Login!Disconnected \/ Login!Success \/ Login!Skipped \/ Login!SetCompression
  <2>1. PICK k \in {"disconnect", "success", "unknown", "setCompression"} :
          Login!Read(k) /\ UNCHANGED toBackend /\ (pc' = "ok" => k = "success")
    BY <1>3 DEF Login!Disconnected, Login!Success, Login!Skipped, Login!SetCompression, Login!Read
  <2> QED BY <2>1, RequestsRead
<1>4. CASE Login!PluginRequest
  <2>1. Login!Read("request")
    BY <1>4 DEF Login!PluginRequest
  <2>2. CASE pc' = "failed" /\ UNCHANGED toBackend
    BY <2>1, <2>2, RequestsRead
  <2>3. CASE /\ Head(fromBackend).channel = "other" \/ secret
             /\ toBackend' = Append(toBackend,
                               Login!Answer(Head(fromBackend).id, Head(fromBackend).channel))
             /\ UNCHANGED pc
    BY <2>1, <2>3, RequestsAnswer
  <2> QED BY <1>4, <2>2, <2>3 DEF Login!PluginRequest
<1>5. CASE Login!Restart
  <2>1. /\ Len(fromBackend') = 0 /\ Len(toBackend') = 0 /\ Len(answers') = 0 /\ Len(asked') = 0
        /\ pc' = "connect"
    BY <1>5 DEF Login!Restart
  <2> QED BY <2>1 DEF Requests, Given, Carried, Unlost, Settled
<1>6. CASE Login!Asks
  <2>1. PICK c \in Login!Channels :
          /\ Login!Emit([kind |-> "request", id |-> Len(asked) + 1, channel |-> c, mode |-> backend])
          /\ asked' = Append(asked, c)
    BY <1>6 DEF Login!Asks
  <2> DEFINE p == [kind |-> "request", id |-> Len(asked) + 1, channel |-> c, mode |-> backend]
  <2>2. /\ p \in Packets /\ p.kind = "request" /\ p.id = Len(asked) + 1 /\ p.channel = c
    BY DEF Codec, LinkTypes, Packets
  <2> HIDE DEF p
  <2> QED BY <2>1, <2>2, RequestsEmit DEF p
<1>7. CASE Login!Announces
  <2>1. PICK t \in {-1, 0, 256} :
          Login!Emit([kind |-> "setCompression", threshold |-> t, mode |-> backend])
    BY <1>7 DEF Login!Announces
  <2> DEFINE p == [kind |-> "setCompression", threshold |-> t, mode |-> backend]
  <2>2. p \in Packets /\ p.kind = "setCompression" /\ asked' = asked
    BY <1>7 DEF Login!Announces, Codec, LinkTypes, Packets
  <2> HIDE DEF p
  <2> QED BY <2>1, <2>2, RequestsEmit DEF p
<1>8. CASE Login!Says \/ Login!Accepts
  <2>1. PICK k \in {"disconnect", "unknown", "success"} :
          /\ Login!Emit([kind |-> k, mode |-> backend]) /\ UNCHANGED asked
          /\ k = "success" => ~Login!Open
    BY <1>8 DEF Login!Says, Login!Accepts
  <2> DEFINE p == [kind |-> k, mode |-> backend]
  <2>2. p \in Packets /\ p.kind = k
    BY DEF Codec, LinkTypes, Packets
  <2> HIDE DEF p
  <2> QED BY <2>1, <2>2, RequestsEmit DEF p
<1>9. CASE Login!BackendReads
  BY <1>9, RequestsBackendReads
<1>10. CASE Login!Handle \/ Login!Backend
  BY <1>3, <1>4, <1>6, <1>7, <1>8, <1>9, <1>10 DEF Login!Handle, Login!Backend
<1>11. CASE UNCHANGED backendVars
  BY <1>1, <1>11 DEF backendVars, Login!link
<1> QED
  BY <1>2, <1>5, <1>10, <1>11
  DEF Next, Task, Peers, BeginLogin, LoginBackend, FailOver, Forward, vars

\* login_backend: for every backend, the fallback too, each request that the proxy reads is
\* answered with its own number and channel, none is lost, and a player whose data were
\* asked for gets on the backend only with a secret.
THEOREM EveryRequestAnswered == Spec => []RequestsAnswered
<1>1. Init => Codec /\ Requests
  <2>1. Init => Codec
    BY BlankCodec DEF Init, Login!Init, Blank
  <2>2. Init => /\ Len(fromBackend) = 0 /\ Len(toBackend) = 0 /\ Len(answers) = 0
                /\ Len(asked) = 0 /\ pc = "connect"
    BY SMTT(30) DEF Init, Login!Init
  <2>3. Init => Requests
    BY <2>2, SMTT(30) DEF Requests, Given, Carried, Unlost, Settled
  <2> QED BY <2>1, <2>3
<1>2. Codec /\ Requests => RequestsAnswered
  <2> SUFFICES ASSUME Codec, Requests PROVE RequestsAnswered
    OBVIOUS
  <2>0. PICK A \in Nat, B \in Nat, Q \in Nat :
          A = Len(answers) /\ B = Len(toBackend) /\ Q = Len(asked) /\ A + B <= Q
    BY DEF Codec, LinkTypes, Numbered
  <2> DEFINE all == answers \o toBackend
             unread == {i \in DOMAIN fromBackend : fromBackend[i].kind = "request"}
  <2>1. /\ Len(all) = A + B /\ DOMAIN all = 1 .. A + B
        /\ \A i \in 1 .. A : all[i] = answers[i]
        /\ \A i \in A + 1 .. A + B : all[i] = toBackend[i - A] /\ i - A \in 1 .. B
    BY <2>0 DEF Codec, LinkTypes
  <2>2. ASSUME NEW i \in DOMAIN all PROVE all[i].id = i /\ all[i].data = asked[i]
    <3>1. CASE i \in 1 .. A
      BY <2>0, <2>1, <3>1 DEF Requests, Given
    <3>2. CASE i \in A + 1 .. A + B
      <4>1. all[i] = toBackend[i - A] /\ i - A \in 1 .. B /\ A + (i - A) = i
        BY <2>1, <3>2
      <4> HIDE DEF all
      <4> QED BY <2>0, <4>1, Zenon DEF Requests, Given
    <3> QED BY <2>1, <3>1, <3>2
  <2>3. ASSUME pc # "failed"
        PROVE  {fromBackend[i].id : i \in unread} = A + B + 1 .. Q
    <3>1. ASSUME NEW i \in unread PROVE fromBackend[i].id \in A + B + 1 .. Q
      <4>1. i \in 1 .. Len(fromBackend) /\ IsRequest(i) /\ fromBackend[i] \in Packets
        BY DEF IsRequest, Codec, LinkTypes
      <4>2. fromBackend[i].id \in Nat
        BY <4>1 DEF IsRequest, Packets
      <4> QED BY <2>0, <4>1, <4>2 DEF Codec, Numbered
    <3>2. ASSUME NEW n \in A + B + 1 .. Q PROVE \E i \in unread : fromBackend[i].id = n
      <4>1. PICK i \in 1 .. Len(fromBackend) : IsRequest(i) /\ fromBackend[i].id = n
        BY <2>0, <2>3, Zenon DEF Requests, Unlost
      <4>2. i \in unread
        BY <4>1 DEF IsRequest, Codec, LinkTypes
      <4> QED BY <4>1, <4>2
    <3> HIDE DEF unread
    <3> QED BY <3>1, <3>2
  <2>4. ASSUME pc = "ok", ~secret, NEW i \in DOMAIN asked PROVE asked[i] = "other"
    BY <2>0, <2>4 DEF Requests, Settled, Given, Codec, LinkTypes
  <2> QED BY <2>0, <2>1, <2>2, <2>3, <2>4 DEF RequestsAnswered, Login!RequestsAnswered
<1> QED
  BY <1>1, <1>2, CodecStep, RequestsStep, PTL DEF Spec

-----------------------------------------------------------------------------
(* The client's side.                                                       *)

Modes == [encrypted : BOOLEAN, compressed : BOOLEAN]
Enc == [encrypted |-> TRUE, compressed |-> FALSE]

Turners == {"encryptionRequest", "setCompression"}
Kinds ==
    Turners \cup {"status", "pong", "kick", "loginSuccess", "toStatus", "toLogin", "toOther",
                  "statusRequest", "other", "ping", "loginStart", "encryptionResponse"}
ClientPackets == [kind : Kinds, mode : Modes]

TalkTypes ==
    /\ proxy \in Modes /\ client \in Modes
    /\ toClient \in Seq(ClientPackets) /\ toProxy \in Seq(ClientPackets)
    /\ config \in [online : BOOLEAN, compression : BOOLEAN]

Turned(m, k) ==
    IF k = "encryptionRequest" THEN [m EXCEPT !.encrypted = TRUE] ELSE [m EXCEPT !.compressed = TRUE]

\* The client will read everything on its way to it, and be in mode m after that: it is
\* already, or the next packet it reads makes it so.
Steady(m) ==
    /\ client = m
    /\ \A i \in 1 .. Len(toClient) : toClient[i].mode = m /\ toClient[i].kind \notin Turners

Turning(m) ==
    /\ Len(toClient) > 0 /\ toClient[1].kind \in Turners
    /\ toClient[1].mode = client /\ m = Turned(client, toClient[1].kind)
    /\ \A i \in 2 .. Len(toClient) : toClient[i].mode = m /\ toClient[i].kind \notin Turners

Flow(m) == Steady(m) \/ Turning(m)

Early == {"handshake", "status", "ping", "loginStart", "preLogin"}
Silent == {"handshake", "status", "loginStart", "preLogin", "authenticate", "loginEvent"}

\* The mode the handler's next packet will have, except for the kicks in between.
Heading ==
    IF stage \in Early THEN Plain
    ELSE IF stage \in {"encryption", "authenticate"} THEN Enc
    ELSE IF stage = "route" THEN [proxy EXCEPT !.compressed = config.compression]
    ELSE proxy

\* What proxy and client have at the stages of the handler.
Staged ==
    /\ stage \in Early \cup {"encryption", "authenticate"} => proxy = Plain
    /\ stage \in Early => client = Plain
    /\ stage \in {"loginEvent", "route"} => ~proxy.compressed
    /\ stage \in Silent => toClient = <<>>
    /\ stage = "encryption" => Len(toClient) <= 1 /\ (client.encrypted => toClient = <<>>)

\* Replies, and what asks for one, are written in plain text.
PlainReplies ==
    \A i \in 1 .. Len(toProxy) :
        /\ toProxy[i].mode = Plain
        /\ toProxy[i].kind = "encryptionResponse" => client.encrypted

PlainQuestions ==
    \A i \in 1 .. Len(toClient) :
        toClient[i].kind \in {"status", "encryptionRequest"} => toClient[i].mode = Plain

Follows == garbled = {} /\ (stage # "closed" => Flow(Heading)) /\ \E m \in Modes : Flow(m)

AuthFailed ==
    /\ stage = "closed" /\ kicked \in AuthKicks
    /\ toClient \in {<<>>, <<Packet("kick", Plain)>>}
    /\ garbled \in {{}, {"kick"}}

Talk == TalkTypes /\ Staged /\ PlainReplies /\ PlainQuestions /\ (Follows \/ AuthFailed)

\* Heading is a mode, and while the handler runs everything follows it.
LEMMA Headed ==
    ASSUME Talk
    PROVE  /\ Plain \in Modes /\ Enc \in Modes /\ Heading \in Modes
           /\ stage # "closed" => garbled = {} /\ Flow(Heading)
<1>1. Plain \in Modes /\ Enc \in Modes
  BY DEF Plain, Enc, Modes
<1>2. [proxy EXCEPT !.compressed = config.compression] \in Modes
  BY DEF Talk, TalkTypes, Modes
<1>3. Heading \in Modes
  BY <1>1, <1>2 DEF Heading, Talk, TalkTypes
<1> QED
  BY <1>1, <1>3 DEF Talk, Follows, AuthFailed

\* A step of the handler that writes nothing.
LEMMA WroteNothing ==
    ASSUME Talk, stage # "closed", UNCHANGED <<client, toClient, config, garbled>>,
           proxy' \in Modes, toProxy' \in Seq(ClientPackets), PlainReplies', Staged',
           stage' # "closed" => Heading' = Heading
    PROVE  Talk'
<1>1. Heading \in Modes /\ garbled = {} /\ Flow(Heading)
  BY Headed
<1>2. PICK m \in Modes : m = Heading
  BY <1>1
<1>3. Flow(m)'
  BY <1>1, <1>2 DEF Flow, Steady, Turning
<1>4. Follows'
  BY <1>1, <1>2, <1>3 DEF Follows
<1>5. TalkTypes' /\ PlainQuestions'
  BY DEF Talk, TalkTypes, PlainQuestions
<1> QED
  BY <1>4, <1>5 DEF Talk

\* A step of the handler that writes a packet which changes nobody's mode.
LEMMA WroteOne ==
    ASSUME Talk, stage # "closed", UNCHANGED <<client, config, garbled>>,
           NEW k \in Kinds \ Turners, k = "status" => Heading = Plain,
           toClient' = Append(toClient, Packet(k, Heading)),
           proxy' \in Modes, toProxy' \in Seq(ClientPackets), PlainReplies', Staged',
           stage' # "closed" => Heading' = Heading
    PROVE  Talk'
<1>1. Heading \in Modes /\ garbled = {} /\ Flow(Heading)
  BY Headed
<1>2. PICK m \in Modes : m = Heading
  BY <1>1
<1>3. PICK n \in Nat : n = Len(toClient)
  BY DEF Talk, TalkTypes
<1>4. Packet(k, m) \in ClientPackets /\ Packet(k, m).kind = k /\ Packet(k, m).mode = m
  BY DEF Packet, ClientPackets
<1>5. /\ toClient' \in Seq(ClientPackets) /\ Len(toClient') = n + 1
      /\ \A i \in 1 .. n : toClient'[i] = toClient[i]
      /\ toClient'[n + 1] = Packet(k, m)
  BY <1>2, <1>3, <1>4, Put DEF Talk, TalkTypes
<1>6. Flow(m)'
  <2>1. CASE Steady(m)
    BY <1>3, <1>4, <1>5, <2>1, SMTT(30) DEF Flow, Steady
  <2>2. CASE Turning(m)
    <3>1. n > 0 /\ toClient'[1] = toClient[1]
      BY <1>3, <1>5, <2>2 DEF Turning
    <3>2. ASSUME NEW i \in 2 .. n + 1
          PROVE  toClient'[i].mode = m /\ toClient'[i].kind \notin Turners
      BY <1>3, <1>4, <1>5, <2>2 DEF Turning
    <3> QED
      BY <1>5, <2>2, <3>1, <3>2, SMTT(30) DEF Flow, Turning
  <2> QED
    BY <1>1, <1>2, <2>1, <2>2 DEF Flow
<1>7. Follows'
  BY <1>1, <1>2, <1>6, SMTT(30) DEF Follows
<1>8. TalkTypes'
  BY <1>5 DEF Talk, TalkTypes
<1>9. PlainQuestions'
  <2>1. ASSUME NEW i \in 1 .. n + 1, toClient'[i].kind \in {"status", "encryptionRequest"}
        PROVE  toClient'[i].mode = Plain
    <3>1. CASE i \in 1 .. n
      BY <1>3, <1>5, <2>1, <3>1 DEF Talk, PlainQuestions
    <3>2. CASE i = n + 1
      BY <1>2, <1>4, <1>5, <2>1, <3>2, SMTT(40) DEF Turners
    <3> QED
      BY <1>3, <3>1, <3>2
  <2> QED
    BY <1>5, <2>1 DEF PlainQuestions
<1> QED
  BY <1>7, <1>8, <1>9 DEF Talk

\* The handler reads a packet: it is in plain text, and so is the handler.
LEMMA HandlerReads ==
    ASSUME Talk, NEW at \in Early \cup {"encryption"}, NEW k, Read(at, k)
    PROVE  /\ stage = at /\ proxy = Plain
           /\ UNCHANGED <<client, config, garbled, proxy>>
           /\ proxy' \in Modes /\ toProxy' \in Seq(ClientPackets) /\ PlainReplies'
           /\ k = "encryptionResponse" => client.encrypted
<1>1. /\ stage = at /\ toProxy # <<>> /\ Head(toProxy).kind = k /\ toProxy' = Tail(toProxy)
      /\ garbled' = IF Head(toProxy).mode = proxy THEN garbled ELSE garbled \cup {k}
      /\ UNCHANGED <<client, config, proxy>>
  BY DEF Read
<1>2. proxy = Plain
  BY <1>1 DEF Talk, Staged
<1>3. /\ Len(toProxy) \in Nat \ {0} /\ Head(toProxy) = toProxy[1]
      /\ toProxy' \in Seq(ClientPackets) /\ Len(toProxy') = Len(toProxy) - 1
      /\ \A i \in 1 .. Len(toProxy) - 1 :
           toProxy'[i] = toProxy[i + 1] /\ i + 1 \in 1 .. Len(toProxy)
  <2>1. toProxy \in Seq(ClientPackets)
    BY DEF Talk, TalkTypes
  <2> QED
    BY <1>1, <2>1, Taken, Zenon
<1>4. Head(toProxy).mode = Plain /\ (k = "encryptionResponse" => client.encrypted)
  BY <1>1, <1>3 DEF Talk, PlainReplies
<1>5. PlainReplies'
  BY <1>1, <1>3 DEF Talk, PlainReplies
<1> QED
  BY <1>1, <1>2, <1>3, <1>4, <1>5, SMTT(30) DEF Talk, TalkTypes

\* handle and handle_status.
LEMMA StatusStep ==
    ASSUME Talk, ReadHandshake \/ ReadStatus \/ ReadPing \/ ReadLoginStart
    PROVE  Talk'
<1>1. PICK at \in {"handshake", "status", "ping", "loginStart"} : \E k : Read(at, k)
  BY DEF ReadHandshake, ReadStatus, ReadPing, ReadLoginStart
<1>2. PICK k : Read(at, k)
  BY <1>1
<1>3. /\ stage = at /\ proxy = Plain
      /\ UNCHANGED <<client, config, garbled, proxy>>
      /\ proxy' \in Modes /\ toProxy' \in Seq(ClientPackets) /\ PlainReplies'
  BY <1>2, HandlerReads DEF Early
<1>4. stage # "closed" /\ Heading = Plain /\ client = Plain
  BY <1>1, <1>3, SMTT(30) DEF Heading, Early, Talk, Staged
<1>5. /\ stage' \in {"status", "loginStart", "preLogin", "ping", "closed"}
      /\ stage' \in {"status", "loginStart", "preLogin"} => stage \in Silent /\ UNCHANGED toClient
      /\ \/ UNCHANGED toClient
         \/ \E j \in {"status", "pong"} : toClient' = Append(toClient, Packet(j, proxy'))
  BY <1>3 DEF ReadHandshake, ReadStatus, ReadPing, ReadLoginStart, Read, Write, Send, Silent
<1>6. stage' # "closed" => Heading' = Heading
  BY <1>4, <1>5 DEF Heading, Early
<1>7. Staged'
  BY <1>3, <1>4, <1>5 DEF Talk, Staged, Early, Silent
<1>8. CASE UNCHANGED toClient
  BY <1>3, <1>4, <1>6, <1>7, <1>8, WroteNothing
<1>9. ASSUME NEW j \in {"status", "pong"}, toClient' = Append(toClient, Packet(j, proxy')) PROVE Talk'
  <2>1. j \in Kinds \ Turners /\ toClient' = Append(toClient, Packet(j, Heading))
    BY <1>3, <1>4, <1>9 DEF Kinds, Turners
  <2> QED
    BY <1>3, <1>4, <1>6, <1>7, <2>1, WroteOne
<1> QED
  BY <1>5, <1>8, <1>9

\* What a step that reads nothing leaves alone.
LEMMA ReadNothing ==
    ASSUME Talk, Local
    PROVE  /\ UNCHANGED <<client, config, garbled>>
           /\ toProxy' \in Seq(ClientPackets) /\ PlainReplies'
  BY DEF Local, Talk, TalkTypes, PlainReplies

\* A kick in the mode the client comes to, or a kick that could not be written.
LEMMA Kicked ==
    ASSUME Talk, stage # "closed", Local, NEW why, kick(why), proxy' \in Modes, proxy' = Heading
    PROVE  Talk'
<1>1. /\ UNCHANGED <<client, config, garbled>>
      /\ toProxy' \in Seq(ClientPackets) /\ PlainReplies'
  BY ReadNothing
<1>2. stage' = "closed"
  BY DEF kick
<1>3. Staged'
  BY <1>2 DEF Staged, Early, Silent
<1>4. CASE UNCHANGED toClient
  BY <1>1, <1>2, <1>3, <1>4, WroteNothing
<1>5. CASE Send("kick")
  <2>1. toClient' = Append(toClient, Packet("kick", Heading)) /\ "kick" \in Kinds \ Turners
    BY <1>5 DEF Send, Kinds, Turners
  <2> QED
    BY <1>1, <1>2, <1>3, <2>1, WroteOne
<1> QED
  BY <1>4, <1>5 DEF kick

\* A request that changes the client's mode, to a client that has read everything.
LEMMA WroteTurner ==
    ASSUME Talk, stage \in Silent, UNCHANGED <<client, config, garbled>>, NEW k \in Turners,
           client = Heading, k = "encryptionRequest" => Heading = Plain,
           toClient' = Append(toClient, Packet(k, Heading)),
           proxy' \in Modes, toProxy' \in Seq(ClientPackets), PlainReplies', Staged',
           stage' # "closed", Heading' = Turned(Heading, k)
    PROVE  Talk'
<1>1. Heading \in Modes /\ garbled = {} /\ toClient = <<>>
  BY Headed DEF Talk, Staged, Silent
<1>2. PICK m \in Modes : m = Heading
  BY <1>1
<1>3. Packet(k, m) \in ClientPackets /\ Packet(k, m).kind = k /\ Packet(k, m).mode = m
  BY DEF Packet, ClientPackets, Kinds
<1>4. toClient' \in Seq(ClientPackets) /\ Len(toClient') = 1 /\ toClient'[1] = Packet(k, m)
  BY <1>1, <1>2, <1>3
<1>5. PICK t \in Modes : t = Turned(m, k)
  BY Zenon DEF Turned, Modes
<1>6. Turning(t)'
  BY <1>2, <1>3, <1>4, <1>5 DEF Turning
<1>7. Follows'
  BY <1>1, <1>2, <1>5, <1>6 DEF Follows, Flow
<1>8. TalkTypes' /\ PlainQuestions'
  BY <1>2, <1>3, <1>4 DEF Talk, TalkTypes, PlainQuestions, Turners
<1> QED
  BY <1>7, <1>8 DEF Talk

\* A read that fails ends the handler.
LEMMA ReadFailsStep == ASSUME Talk, ReadFails PROVE Talk'
<1>1. stage # "closed" /\ stage' = "closed" /\ Local /\ UNCHANGED <<proxy, toClient>>
  BY DEF ReadFails
<1>2. Staged'
  BY <1>1 DEF Staged, Early, Silent
<1> QED
  BY <1>1, <1>2, ReadNothing, WroteNothing DEF Talk, TalkTypes

\* The pre-login event and the encryption request.
LEMMA PreLoginStep == ASSUME Talk, PreLogin PROVE Talk'
<1>1. stage = "preLogin" /\ UNCHANGED proxy /\ Local
  BY Zenon DEF PreLogin
<1>2. /\ UNCHANGED <<client, config, garbled>>
      /\ toProxy' \in Seq(ClientPackets) /\ PlainReplies'
  BY <1>1, ReadNothing
<1>3. /\ proxy = Plain /\ client = Plain /\ Heading = Plain /\ toClient = <<>>
      /\ proxy' \in Modes /\ stage \in Silent /\ stage # "closed"
  BY <1>1 DEF Talk, TalkTypes, Staged, Heading, Early, Silent
<1>4. ASSUME NEW why, kick(why) PROVE Talk'
  BY <1>1, <1>3, <1>4, Kicked
<1>5. CASE UNCHANGED toClient /\ stage' \in {"closed", "loginEvent"}
  <2>1. Staged' /\ (stage' # "closed" => Heading' = Heading)
    BY <1>1, <1>3, <1>5 DEF Staged, Heading, Early, Silent, Plain
  <2> QED
    BY <1>2, <1>3, <1>5, <2>1, WroteNothing
<1>6. CASE Send("encryptionRequest") /\ stage' = "encryption"
  <2>1. toClient' = Append(toClient, Packet("encryptionRequest", Heading))
    BY <1>1, <1>3, <1>6 DEF Send
  <2>2. Len(toClient') = 1 /\ client'.encrypted = FALSE
    BY <1>2, <1>3, <2>1 DEF Plain
  <2>3. Staged'
    BY <1>1, <1>3, <1>6, <2>2 DEF Staged, Early, Silent
  <2>4. Heading' = Turned(Heading, "encryptionRequest")
    BY <1>3, <1>6, Zenon DEF Heading, Early, Turned, Plain, Enc
  <2> QED
    BY <1>2, <1>3, <1>6, <2>1, <2>3, <2>4, WroteTurner DEF Turners
<1> QED
  BY <1>4, <1>5, <1>6, Zenon DEF PreLogin, Write

\* A kick before set_encryption, to a client that has read everything and encrypts.
LEMMA KickedEarly ==
    ASSUME Talk, stage # "closed", UNCHANGED <<client, config, garbled, proxy>>, proxy = Plain,
           toClient = <<>>, toProxy' \in Seq(ClientPackets), PlainReplies',
           NEW why \in AuthKicks, kick(why)
    PROVE  Talk'
<1>1. garbled = {} /\ Plain \in Modes
  BY Headed
<1>2. stage' = "closed" /\ kicked' \in AuthKicks
  BY DEF kick
<1>3. toClient' \in {<<>>, <<Packet("kick", Plain)>>}
  BY DEF kick, Send
<1>4. AuthFailed'
  BY <1>1, <1>2, <1>3 DEF AuthFailed
<1>5. Packet("kick", Plain) \in ClientPackets /\ Packet("kick", Plain).kind = "kick"
  BY <1>1 DEF Packet, ClientPackets, Kinds
<1>6. toClient' \in Seq(ClientPackets) /\ PlainQuestions'
  <2>1. CASE toClient' = <<>>
    BY <2>1 DEF PlainQuestions
  <2>2. CASE toClient' = <<Packet("kick", Plain)>>
    <3>1. toClient' \in Seq(ClientPackets) /\ Len(toClient') = 1 /\ toClient'[1].kind = "kick"
      BY <1>5, <2>2
    <3> QED
      BY <3>1 DEF PlainQuestions
  <2> QED
    BY <1>3, <2>1, <2>2
<1>7. TalkTypes' /\ Staged'
  BY <1>2, <1>6 DEF Talk, TalkTypes, Staged, Early, Silent
<1> QED
  BY <1>4, <1>6, <1>7 DEF Talk

\* The encryption response.
LEMMA EncryptionStep == ASSUME Talk, ReadEncryptionResponse PROVE Talk'
<1>1. Read("encryption", "encryptionResponse")
  BY Zenon DEF ReadEncryptionResponse
<1>2. /\ stage = "encryption" /\ proxy = Plain
      /\ UNCHANGED <<client, config, garbled, proxy>>
      /\ proxy' \in Modes /\ toProxy' \in Seq(ClientPackets) /\ PlainReplies'
      /\ client.encrypted
  BY <1>1, HandlerReads
<1>3. toClient = <<>>
  BY <1>2 DEF Talk, Staged
<1>4. CASE kick("token") \/ kick("key length")
  BY <1>2, <1>3, <1>4, KickedEarly, Zenon DEF AuthKicks
<1>5. CASE stage' \in {"authenticate", "closed"} /\ UNCHANGED toClient
  <2>1. Staged' /\ (stage' # "closed" => Heading' = Heading)
    BY <1>2, <1>3, <1>5 DEF Staged, Heading, Early, Silent
  <2> QED
    BY <1>2, <1>5, <2>1, WroteNothing
<1> QED
  BY <1>4, <1>5, Zenon DEF ReadEncryptionResponse

\* The session server's answer.
LEMMA AuthenticateStep == ASSUME Talk, Authenticate PROVE Talk'
<1>1. stage = "authenticate" /\ Local
  BY DEF Authenticate
<1>2. /\ UNCHANGED <<client, config, garbled>>
      /\ toProxy' \in Seq(ClientPackets) /\ PlainReplies'
  BY <1>1, ReadNothing
<1>3. proxy = Plain /\ toClient = <<>> /\ Heading = Enc /\ Enc \in Modes
  BY <1>1, Headed DEF Talk, Staged, Heading, Early, Silent
<1>4. CASE UNCHANGED proxy /\ kick("authentication")
  BY <1>1, <1>2, <1>3, <1>4, KickedEarly DEF AuthKicks
<1>5. CASE /\ proxy' = [proxy EXCEPT !.encrypted = TRUE] /\ stage' = "loginEvent"
           /\ UNCHANGED toClient
  <2>1. proxy' = Enc /\ ~Enc.compressed
    BY <1>3, <1>5, Zenon DEF Plain, Enc
  <2>2. Staged' /\ Heading' = Heading
    BY <1>3, <1>5, <2>1, Zenon DEF Staged, Heading, Early, Silent
  <2> QED
    BY <1>1, <1>2, <1>3, <1>5, <2>1, <2>2, WroteNothing, Zenon
<1> QED
  BY <1>4, <1>5 DEF Authenticate

\* The login event and the announcement of compression.
LEMMA LoginEventStep == ASSUME Talk, LoginEvent PROVE Talk'
<1>1. stage = "loginEvent" /\ Local /\ UNCHANGED proxy
  BY Zenon DEF LoginEvent
<1>2. /\ UNCHANGED <<client, config, garbled>>
      /\ toProxy' \in Seq(ClientPackets) /\ PlainReplies'
  BY <1>1, ReadNothing
<1>3. /\ Heading = proxy /\ toClient = <<>> /\ ~proxy.compressed
      /\ proxy \in Modes /\ proxy' \in Modes /\ stage \in Silent /\ stage # "closed"
  BY <1>1 DEF Talk, TalkTypes, Staged, Heading, Early, Silent
<1>4. client = Heading
  BY <1>1, <1>3, Headed DEF Flow, Steady, Turning
<1>5. CASE kick("login cancelled")
  BY <1>1, <1>3, <1>5, Kicked, Zenon
<1>6. CASE /\ UNCHANGED toClient
           /\ stage' = "closed" \/ (stage' = "route" /\ ~config.compression)
  <2>1. CASE stage' = "closed"
    BY <1>2, <1>3, <1>6, <2>1, WroteNothing DEF Staged, Early, Silent
  <2>2. CASE stage' = "route" /\ ~config.compression
    <3>1. config.compression = FALSE /\ proxy.compressed = FALSE
      BY <1>3, <2>2 DEF Talk, TalkTypes, Modes
    <3>2. [proxy EXCEPT !.compressed = FALSE] = proxy
      BY <1>3, <3>1 DEF Modes
    <3>3. Staged' /\ Heading' = Heading
      BY <1>1, <1>2, <1>3, <2>2, <3>1, <3>2, Zenon DEF Staged, Heading, Early, Silent
    <3> QED
      BY <1>2, <1>3, <1>6, <3>3, WroteNothing
  <2> QED
    BY <1>6, <2>1, <2>2
<1>7. CASE config.compression /\ Send("setCompression") /\ stage' = "route"
  <2>1. toClient' = Append(toClient, Packet("setCompression", Heading))
    BY <1>1, <1>3, <1>7 DEF Send
  <2>2. Staged'
    BY <1>1, <1>3, <1>7 DEF Staged, Early, Silent
  <2>3. config.compression = TRUE
    BY <1>7 DEF Talk, TalkTypes
  <2>4. Heading' = Turned(Heading, "setCompression")
    BY <1>1, <1>2, <1>3, <1>7, <2>3 DEF Heading, Early, Turned
  <2> QED
    BY <1>2, <1>3, <1>4, <1>7, <2>1, <2>2, <2>4, WroteTurner DEF Turners
<1>8. \/ kick("login cancelled")
      \/ config.compression /\ Write("setCompression", "route")
      \/ ~config.compression /\ stage' = "route" /\ UNCHANGED toClient
  BY Zenon DEF LoginEvent
<1>9. CASE config.compression /\ Write("setCompression", "route")
  <2>1. CASE Send("setCompression") /\ stage' = "route"
    BY <1>7, <1>9, <2>1
  <2>2. CASE UNCHANGED toClient /\ stage' = "closed"
    BY <1>6, <2>2
  <2> QED
    BY <1>9, <2>1, <2>2, Zenon DEF Write
<1>10. CASE ~config.compression /\ stage' = "route" /\ UNCHANGED toClient
  BY <1>6, <1>10
<1> QED
  BY <1>5, <1>8, <1>9, <1>10, Zenon

\* The route, and what the connection's task does with it.
LEMMA RouteStep == ASSUME Talk, Route PROVE Talk'
<1>1. stage = "route" /\ Local /\ proxy' = [proxy EXCEPT !.compressed = config.compression]
  BY Zenon DEF Route
<1>2. Heading = proxy' /\ proxy' \in Modes /\ stage # "closed"
  BY <1>1, Headed DEF Heading, Early
<1>3. ASSUME NEW why, kick(why) PROVE Talk'
  BY <1>1, <1>2, <1>3, Kicked
<1>4. CASE stage' = "bridge" /\ UNCHANGED toClient
  <2>1. Staged' /\ Heading' = Heading
    BY <1>2, <1>4 DEF Staged, Heading, Early, Silent
  <2> QED
    BY <1>1, <1>2, <1>4, <2>1, ReadNothing, WroteNothing
<1> QED
  BY <1>3, <1>4, Zenon DEF Route

\* run(): only the login success is written to the client.
LEMMA BridgeStep == ASSUME Talk, BeginLogin \/ FailOver \/ Forward PROVE Talk'
<1>1. stage \in {"bridge", "login"} /\ Local /\ UNCHANGED proxy
  BY DEF BeginLogin, FailOver, Forward
<1>2. /\ UNCHANGED <<client, config, garbled>>
      /\ toProxy' \in Seq(ClientPackets) /\ PlainReplies'
  BY <1>1, ReadNothing
<1>3. Heading = proxy /\ proxy' \in Modes /\ stage # "closed"
  BY <1>1 DEF Talk, TalkTypes, Heading, Early
<1>4. stage' \in {"closed", "login", "play"} /\ (UNCHANGED toClient \/ Send("loginSuccess"))
  BY <1>1 DEF BeginLogin, FailOver, Forward, Write
<1>5. Staged' /\ (stage' # "closed" => Heading' = Heading)
  BY <1>1, <1>3, <1>4 DEF Staged, Heading, Early, Silent
<1>6. CASE UNCHANGED toClient
  BY <1>2, <1>3, <1>5, <1>6, WroteNothing
<1>7. CASE Send("loginSuccess")
  <2>1. toClient' = Append(toClient, Packet("loginSuccess", Heading)) /\ "loginSuccess" \in Kinds \ Turners
    BY <1>1, <1>3, <1>7 DEF Send, Kinds, Turners
  <2> QED
    BY <1>2, <1>3, <1>5, <2>1, WroteOne
<1> QED
  BY <1>4, <1>6, <1>7

\* The client reads what is first on its way: it is in the client's mode.
LEMMA ClientInStep ==
    ASSUME Talk, Follows, ClientReads
    PROVE  /\ UNCHANGED garbled /\ client' \in Modes
           /\ \A m \in Modes : Flow(m) => Flow(m)'
<1>1. toClient # <<>> /\ toClient' = Tail(toClient) /\ client \in Modes
  BY DEF ClientReads, Talk, TalkTypes
<1>2. /\ Len(toClient) \in Nat \ {0} /\ Head(toClient) = toClient[1]
      /\ Len(toClient') = Len(toClient) - 1
      /\ \A i \in 1 .. Len(toClient) - 1 :
           toClient'[i] = toClient[i + 1] /\ i + 1 \in 1 .. Len(toClient)
  <2>1. toClient \in Seq(ClientPackets)
    BY DEF Talk, TalkTypes
  <2> QED
    BY <1>1, <2>1, Taken, Zenon
<1>3. toClient[1].mode = client
  BY <1>2 DEF Follows, Flow, Steady, Turning
<1>4. UNCHANGED garbled
  BY <1>2, <1>3 DEF ClientReads
<1>5. client' = IF toClient[1].kind \in Turners THEN Turned(client, toClient[1].kind) ELSE client
  BY <1>2, <1>3 DEF ClientReads, Turners, Turned
<1>6. client' \in Modes
  BY <1>1, <1>5, Zenon DEF Turned, Modes
<1>7. ASSUME NEW m \in Modes, Flow(m) PROVE Flow(m)'
  <2>1. CASE Steady(m)
    <3>1. client' = m
      BY <1>2, <1>5, <2>1 DEF Steady
    <3> QED
      BY <1>2, <2>1, <3>1 DEF Flow, Steady
  <2>2. CASE Turning(m)
    <3>1. client' = m
      BY <1>5, <2>2 DEF Turning
    <3>2. ASSUME NEW i \in 1 .. Len(toClient')
          PROVE  toClient'[i].mode = m /\ toClient'[i].kind \notin Turners
      <4>1. i + 1 \in 2 .. Len(toClient) /\ toClient'[i] = toClient[i + 1]
        BY <1>2
      <4> QED
        BY <2>2, <4>1 DEF Turning
    <3> QED
      BY <3>1, <3>2 DEF Flow, Steady
  <2> QED
    BY <1>7, <2>1, <2>2, SMTT(40) DEF Flow
<1> QED
  BY <1>4, <1>6, <1>7

\* The client's steps.
LEMMA ClientStep == ASSUME Talk, ClientReads PROVE Talk'
<1>1. /\ toClient # <<>> /\ toClient' = Tail(toClient) /\ garbled = {}
      /\ UNCHANGED <<config, stage, proxy, kicked>>
  BY DEF ClientReads
<1>2. /\ Len(toClient) \in Nat \ {0} /\ Head(toClient) = toClient[1]
      /\ toClient' \in Seq(ClientPackets) /\ Len(toClient') = Len(toClient) - 1
      /\ \A i \in 1 .. Len(toClient) - 1 :
           toClient'[i] = toClient[i + 1] /\ i + 1 \in 1 .. Len(toClient)
  <2>1. toClient \in Seq(ClientPackets)
    BY DEF Talk, TalkTypes
  <2> QED
    BY <1>1, <2>1, Taken, Zenon
<1>3. PlainQuestions'
  BY <1>2 DEF Talk, PlainQuestions
<1>4. CASE AuthFailed
  <2>1. toClient = <<Packet("kick", Plain)>>
    BY <1>1, <1>4 DEF AuthFailed
  <2>2. toClient[1] = Packet("kick", Plain) /\ toClient' = <<>> /\ toClient[1].kind = "kick"
    BY <1>1, <2>1 DEF Packet
  <2>3. UNCHANGED <<client, toProxy>> /\ garbled' \in {{}, {"kick"}}
    BY <1>1, <1>2, <2>2 DEF ClientReads
  <2>4. AuthFailed' /\ Staged'
    BY <1>1, <1>4, <2>2, <2>3 DEF AuthFailed, Staged, Early, Silent
  <2>5. TalkTypes' /\ PlainReplies'
    BY <1>1, <1>2, <2>3 DEF Talk, TalkTypes, PlainReplies
  <2> QED
    BY <1>3, <2>4, <2>5 DEF Talk
<1>5. CASE Follows
  <2>1. /\ UNCHANGED garbled /\ client' \in Modes
        /\ \A m \in Modes : Flow(m) => Flow(m)'
    BY <1>5, ClientInStep
  <2>2. Heading' = Heading /\ Heading \in Modes
    BY <1>1, Headed DEF Heading
  <2>3. Follows'
    <3>1. PICK m \in Modes : m = Heading
      BY <2>2
    <3>2. stage' # "closed" => Flow(m)'
      BY <1>1, <1>5, <2>1, <3>1 DEF Follows
    <3>3. stage' # "closed" => Flow(Heading)'
      BY <2>2, <3>1, <3>2 DEF Flow, Steady, Turning
    <3> QED
      BY <1>1, <1>5, <2>1, <3>3 DEF Follows
  <2>4. toClient[1].mode = client
    BY <1>2, <1>5 DEF Follows, Flow, Steady, Turning
  <2>5. client' = IF toClient[1].kind \in Turners THEN Turned(client, toClient[1].kind) ELSE client
    BY <1>2, <2>4 DEF ClientReads, Turners, Turned
  <2>6. Staged'
    <3>1. stage \notin Silent
      BY <1>1 DEF Talk, Staged
    <3>2. stage \in Early => client' = Plain
      <4>1. SUFFICES ASSUME stage \in Early PROVE client' = Plain
        OBVIOUS
      <4>2. Flow(Plain) /\ client = Plain
        BY <1>5, <4>1 DEF Follows, Heading, Early, Talk, Staged
      <4>3. ~Turning(Plain)
        BY <4>2 DEF Turning, Turned, Plain
      <4> QED
        BY <1>2, <2>5, <4>2, <4>3 DEF Flow, Steady
    <3>3. stage = "encryption" => toClient' = <<>> /\ Len(toClient') <= 1
      BY <1>2 DEF Talk, Staged
    <3> QED
      BY <1>1, <3>1, <3>2, <3>3 DEF Talk, Staged
  <2>7. client.encrypted => client'.encrypted
    BY <2>5 DEF Talk, TalkTypes, Modes, Turned
  <2>8. CASE UNCHANGED toProxy
    BY <1>1, <1>2, <1>3, <2>1, <2>3, <2>6, <2>7, <2>8 DEF Talk, TalkTypes, PlainReplies
  <2>9. CASE ~UNCHANGED toProxy
    <3>1. PICK k \in {"ping", "encryptionResponse"} :
            /\ toProxy' = Append(toProxy, Packet(k, client))
            /\ toClient[1].kind \in {"status", "encryptionRequest"}
            /\ k = "encryptionResponse" => toClient[1].kind = "encryptionRequest"
      BY <1>2, <2>4, <2>9 DEF ClientReads, Reply
    <3>2. client = Plain
      BY <1>2, <2>4, <3>1 DEF Talk, PlainQuestions
    <3>3. k = "encryptionResponse" => client'.encrypted
      BY <2>5, <3>1, <3>2 DEF Turned, Turners, Plain
    <3>4. /\ Packet(k, client) \in ClientPackets /\ Packet(k, client).mode = Plain
          /\ Packet(k, client).kind = k
      BY <3>1, <3>2 DEF Packet, ClientPackets, Kinds, Talk, TalkTypes
    <3>5. PICK n \in Nat : n = Len(toProxy)
      BY SMTT(40) DEF Talk, TalkTypes
    <3>6. /\ toProxy' \in Seq(ClientPackets) /\ Len(toProxy') = n + 1
          /\ \A i \in 1 .. n : toProxy'[i] = toProxy[i]
          /\ toProxy'[n + 1] = Packet(k, client)
      <4>1. toProxy \in Seq(ClientPackets)
        BY DEF Talk, TalkTypes
      <4> QED
        BY <3>1, <3>4, <3>5, <4>1
    <3>7. PlainReplies'
      <4>1. ASSUME NEW i \in 1 .. n + 1
            PROVE  /\ toProxy'[i].mode = Plain
                   /\ toProxy'[i].kind = "encryptionResponse" => client'.encrypted
        <5>1. CASE i \in 1 .. n
          BY <2>7, <3>5, <3>6, <5>1 DEF Talk, PlainReplies
        <5>2. CASE i = n + 1
          BY <3>3, <3>4, <3>6, <5>2
        <5> QED
          BY <3>5, <5>1, <5>2
      <4> QED
        BY <3>6, <4>1 DEF PlainReplies
    <3> QED
      BY <1>1, <1>2, <1>3, <2>1, <2>3, <2>6, <3>6, <3>7 DEF Talk, TalkTypes
  <2> QED
    BY <2>8, <2>9
<1> QED
  BY <1>4, <1>5 DEF Talk

\* Everything that can happen between client and proxy keeps them readable.
LEMMA TalkStep == Talk /\ [Next]_vars => Talk'
<1> SUFFICES ASSUME Talk, [Next]_vars PROVE Talk'
  OBVIOUS
<1>1. CASE UNCHANGED clientVars
  <2>1. UNCHANGED <<proxy, client, toClient, toProxy, config, stage, kicked, garbled>>
    BY <1>1 DEF clientVars
  <2>2. Follows => Follows'
    BY <2>1 DEF Follows, Flow, Steady, Turning, Heading
  <2> QED
    BY <2>1, <2>2 DEF Talk, TalkTypes, Staged, PlainReplies, PlainQuestions, AuthFailed
<1>2. CASE Handler
  BY <1>2, ReadFailsStep, StatusStep, PreLoginStep, EncryptionStep, AuthenticateStep,
     LoginEventStep, RouteStep DEF Handler
<1>3. CASE BeginLogin \/ FailOver \/ Forward
  BY <1>3, BridgeStep
<1>4. CASE ClientReads
  BY <1>4, ClientStep
<1> QED
  BY <1>1, <1>2, <1>3, <1>4, SMTT(40) DEF Next, Task, Peers, LoginBackend, vars

\* A connection starts in plain text on both sides.
LEMMA TalkInit == ClientInit => Talk
<1> SUFFICES ASSUME ClientInit PROVE Talk
  OBVIOUS
<1>1. PICK o \in Openings : toProxy = [i \in DOMAIN o |-> Packet(o[i], Plain)]
  BY DEF ClientInit
<1>2. Plain \in Modes
  BY DEF Plain, Modes
<1>3. /\ stage = "handshake" /\ proxy = Plain /\ client = Plain /\ toClient = <<>> /\ garbled = {}
      /\ config \in [online : BOOLEAN, compression : BOOLEAN]
  BY DEF ClientInit
<1>4. PICK n \in Nat : o \in [1 .. n -> Kinds \ {"encryptionResponse"}]
  <2> DEFINE K == Kinds \ {"encryptionResponse"}
  <2>1. /\ "toStatus" \in K /\ "toLogin" \in K /\ "toOther" \in K /\ "statusRequest" \in K
        /\ "other" \in K /\ "ping" \in K /\ "loginStart" \in K
    BY DEF Kinds
  <2> HIDE DEF K
  <2>2. o \in Seq(K)
    <3>1. /\ <<"toStatus", "statusRequest">> \in Seq(K) /\ <<"toLogin", "loginStart">> \in Seq(K)
          /\ <<"toOther">> \in Seq(K)
      BY <2>1
    <3>2. <<"toStatus", "statusRequest", "other">> \in Seq(K)
      BY <2>1
    <3>3. <<"toStatus", "other", "ping">> \in Seq(K)
      BY <2>1
    <3> QED
      BY <3>1, <3>2, <3>3, Zenon DEF Openings
  <2>3. o \in [1 .. Len(o) -> K] /\ Len(o) \in Nat
    BY <2>2
  <2> QED
    BY <2>3, Zenon DEF K
<1>5. \A i \in 1 .. n : Packet(o[i], Plain) \in ClientPackets /\ Packet(o[i], Plain).mode = Plain
                       /\ Packet(o[i], Plain).kind # "encryptionResponse"
  BY <1>2, <1>4 DEF Packet, ClientPackets
<1>6. toProxy \in [1 .. n -> ClientPackets]
  BY <1>1, <1>4, <1>5
<1>7. toProxy \in Seq(ClientPackets) /\ Len(toProxy) = n
  BY <1>6
<1>8. PlainReplies
  BY <1>1, <1>4, <1>5, <1>7 DEF PlainReplies
<1>9. TalkTypes
  BY <1>2, <1>3, <1>7 DEF TalkTypes
<1>10. Staged /\ PlainQuestions
  BY <1>3 DEF Staged, PlainQuestions
<1>11. Steady(Plain) /\ Heading = Plain
  BY <1>3 DEF Steady, Heading, Early
<1>12. Follows
  BY <1>2, <1>3, <1>11 DEF Follows, Flow
<1> QED
  BY <1>8, <1>9, <1>10, <1>12 DEF Talk

\* ClientHandler: whatever a client sends and wherever the login ends, everything written
\* is written in the mode its reader has, except the kicks of a failed authentication.
THEOREM LoginStaysReadable == Spec => []LoginReadable
<1>1. Init => Talk
  BY TalkInit DEF Init
<1>2. Talk => LoginReadable
  BY DEF Talk, Follows, AuthFailed, LoginReadable
<1> QED
  BY <1>1, <1>2, TalkStep, PTL DEF Spec
=============================================================================
