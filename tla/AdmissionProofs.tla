--------------------------- MODULE AdmissionProofs ---------------------------
(***************************************************************************)
(* What a connection meets before its login.  The limiters: every bucket   *)
(* that is dropped was full, so pruning admits nobody, and two windows     *)
(* bound the packets of any second.  The PROXY header: however it was cut  *)
(* into pieces, the bytes behind it reach the decoder.                     *)
(***************************************************************************)
EXTENDS RateLimiter, ProxyProtocol, WellFoundedInduction, SequenceTheorems, TLAPS

Buckets == [tokens : Int, last : Int]

\* The bucket an address has is no fuller than the one it would have had, and was
\* refilled when that was; an address without a bucket would have a full one by now.
Covered(a) ==
    /\ now >= unpruned[a].last /\ unpruned[a].tokens >= 0
    /\ IF bucket[a] = NoBucket
       THEN unpruned[a].tokens + (now - unpruned[a].last) * Rate >= Full
       ELSE /\ bucket[a].last = unpruned[a].last
            /\ 0 <= bucket[a].tokens /\ bucket[a].tokens <= unpruned[a].tokens

PruneInv ==
    /\ now \in Nat
    /\ bucket \in [Ips -> Buckets] /\ unpruned \in [Ips -> Buckets]
    /\ \A a \in Ips : Covered(a)

\* Products are monotonic: what accrues does not shrink as time goes on.
LEMMA Accrues ==
    ASSUME NEW m \in Int, NEW n \in Int, NEW r \in Nat, m <= n
    PROVE  m * r <= n * r
  <1>1. PICK k \in Nat : n = m + k  OBVIOUS
  <1>2. (m + k) * r = m * r + k * r  OBVIOUS
  <1>3. k * r >= 0  OBVIOUS
  <1>4. m * r \in Int /\ n * r \in Int  OBVIOUS
  <1> QED  BY <1>1, <1>2, <1>3, <1>4

\* What Refill returns is a whole number of parts, at most a full bucket.
LEMMA RefillBounds ==
    ASSUME NEW b \in Buckets, now \in Nat, b.last <= now, b.tokens >= 0
    PROVE  /\ Refill(b) \in Int
           /\ Refill(b) >= 0 /\ Refill(b) <= Full
  <1> USE LimiterAssumption
  <1>1. Full \in Nat  BY DEF Full
  <1>2. b.tokens \in Nat /\ now - b.last \in Nat  BY DEF Buckets
  <1>3. (now - b.last) * Rate \in Nat  BY <1>2
  <1> QED  BY <1>1, <1>2, <1>3 DEF Refill

\* A fuller bucket with the same stamp is refilled to at least as much.
LEMMA RefillMonotonic ==
    ASSUME NEW b \in Buckets, NEW c \in Buckets, now \in Nat,
           b.last = c.last, b.tokens <= c.tokens
    PROVE  Refill(b) <= Refill(c)
  <1> USE LimiterAssumption
  <1>1. Full \in Nat  BY DEF Full
  <1>2. (now - b.last) * Rate \in Int  BY DEF Buckets
  <1> QED  BY <1>1, <1>2 DEF Refill, Buckets

\* An empty map is covered by full buckets.
LEMMA PruneInvInit == Init => PruneInv
  <1> USE LimiterAssumption
  <1> SUFFICES ASSUME Init PROVE PruneInv  OBVIOUS
  <1>1. Full \in Nat  BY DEF Full
  <1>2. (0 - 0) * Rate = 0  OBVIOUS
  <1> QED  BY <1>1, <1>2 DEF Init, PruneInv, Covered, Buckets, NoBucket

\* Pruning drops only buckets that would be full by now.
LEMMA PrunedAreCovered ==
    ASSUME PruneInv, KeepFor * Rate >= Full, NEW a \in Ips
    PROVE  /\ Retain[a] \in {bucket[a], NoBucket}
           /\ Retain \in [Ips -> Buckets]
           /\ Retain[a] = NoBucket => unpruned[a].tokens + (now - unpruned[a].last) * Rate >= Full
  <1> USE LimiterAssumption
  <1>1. NoBucket \in Buckets  BY DEF NoBucket, Buckets
  <1>2. Retain \in [Ips -> Buckets] /\ Retain[a] \in {bucket[a], NoBucket}
    BY <1>1 DEF Retain, PruneInv
  <1>3. ASSUME Retain[a] = NoBucket, bucket[a] # NoBucket
        PROVE  unpruned[a].tokens + (now - unpruned[a].last) * Rate >= Full
    <2>1. ~(now - bucket[a].last < KeepFor)  BY <1>3 DEF Retain
    <2>2. now - unpruned[a].last >= KeepFor  BY <2>1, <1>3 DEF PruneInv, Covered, Buckets
    <2>3. (now - unpruned[a].last) * Rate >= KeepFor * Rate
      BY <2>2, Accrues DEF PruneInv, Buckets
    <2> QED  BY <2>3 DEF PruneInv, Covered, Buckets, Full
  <1> QED  BY <1>2, <1>3 DEF PruneInv, Covered

\* Every step keeps the buckets covered.
LEMMA PruneInvStep ==
    ASSUME PruneInv, [Next]_vars, KeepFor * Rate >= Full
    PROVE  PruneInv'
  <1> USE LimiterAssumption
  <1>0. Full \in Nat /\ NoBucket \in Buckets  BY DEF Full, NoBucket, Buckets
  <1>1. CASE Tick
    <2>1. /\ now \in Nat /\ now' = now + 1 /\ bucket' = bucket /\ unpruned' = unpruned
      BY <1>1 DEF Tick, PruneInv, connections
    <2>2. ASSUME NEW a \in Ips PROVE Covered(a)'
      <3>1. Covered(a) /\ unpruned[a] \in Buckets  BY DEF PruneInv
      <3>2. (now - unpruned[a].last) * Rate <= (now + 1 - unpruned[a].last) * Rate
        BY <3>1, <2>1, Accrues DEF Buckets
      <3>3. /\ (now - unpruned[a].last) * Rate \in Int
            /\ (now + 1 - unpruned[a].last) * Rate \in Int
        BY <3>1, <2>1 DEF Buckets
      <3> QED  BY <3>1, <3>2, <3>3, <2>1, <1>0 DEF Covered, Buckets
    <2> QED  BY <2>1, <2>2 DEF PruneInv
  <1>2. CASE NewTunnel \/ record_packet \/ UNCHANGED vars
    <2>1. now' = now /\ bucket' = bucket /\ unpruned' = unpruned
      BY <1>2 DEF NewTunnel, record_packet, vars, connections
    <2> QED  BY <2>1 DEF PruneInv, Covered
  <1>3. ASSUME NEW a \in Ips, check_connection(a) PROVE PruneInv'
    <2> DEFINE b == IF Retain[a] = NoBucket THEN [tokens |-> Full, last |-> now] ELSE Retain[a]
               allowed == Refill(b) >= Unit
               Pay(tokens) == [tokens |-> IF allowed THEN tokens - Unit ELSE tokens, last |-> now]
    <2>1. /\ bucket' = [Retain EXCEPT ![a] = Pay(Refill(b))]
          /\ unpruned' = [unpruned EXCEPT ![a] = Pay(Refill(unpruned[a]))]
          /\ now' = now
      BY <1>3 DEF check_connection, PruneInv
    <2> HIDE DEF b
    <2>2. b \in Buckets /\ b.last <= now /\ b.tokens >= 0
      BY PrunedAreCovered, <1>0 DEF b, PruneInv, Covered, Buckets
    <2>3. unpruned[a] \in Buckets /\ unpruned[a].last <= now /\ unpruned[a].tokens >= 0
      BY DEF PruneInv, Covered, Buckets
    <2>4. Refill(b) <= Refill(unpruned[a])
      <3>1. CASE Retain[a] = NoBucket
        <4>1. unpruned[a].tokens + (now - unpruned[a].last) * Rate >= Full
          BY <3>1, PrunedAreCovered
        <4>2. (now - unpruned[a].last) * Rate \in Int  BY <2>3 DEF PruneInv, Buckets
        <4>3. Refill(unpruned[a]) = Full  BY <4>1, <4>2, <2>3, <1>0 DEF Refill, Buckets
        <4> QED  BY <4>3, <2>2, RefillBounds DEF PruneInv
      <3>2. CASE Retain[a] # NoBucket
        <4>1. b = bucket[a] /\ bucket[a] # NoBucket  BY <3>2, PrunedAreCovered DEF b
        <4>2. b.last = unpruned[a].last /\ b.tokens <= unpruned[a].tokens
          BY <4>1 DEF PruneInv, Covered
        <4> QED  BY <4>2, <2>2, <2>3, RefillMonotonic DEF PruneInv
      <3> QED  BY <3>1, <3>2
    <2>5. /\ Refill(b) \in Int /\ Refill(b) >= 0
          /\ Refill(unpruned[a]) \in Int /\ Refill(unpruned[a]) >= 0
      BY <2>2, <2>3, RefillBounds DEF PruneInv
    <2>6. now \in Nat  BY DEF PruneInv
    <2>7. Pay(Refill(b)) \in Buckets /\ Pay(Refill(unpruned[a])) \in Buckets
      BY <2>5, <2>6 DEF Buckets
    <2>8. Retain \in [Ips -> Buckets]  BY PrunedAreCovered
    <2>9. bucket' \in [Ips -> Buckets] /\ unpruned' \in [Ips -> Buckets]
      BY <2>1, <2>7, <2>8 DEF PruneInv
    <2>10. Covered(a)'
      <3>1. bucket'[a] = Pay(Refill(b)) /\ unpruned'[a] = Pay(Refill(unpruned[a]))
        BY <2>1, <2>8 DEF PruneInv
      <3>2. /\ Pay(Refill(b)).last = now /\ Pay(Refill(unpruned[a])).last = now
            /\ 0 <= Pay(Refill(b)).tokens
            /\ Pay(Refill(b)).tokens <= Pay(Refill(unpruned[a])).tokens
        BY <2>4, <2>5
      <3>3. bucket'[a] # NoBucket  BY <3>1, <3>2, <2>6 DEF NoBucket
      <3> QED  BY <3>1, <3>2, <3>3, <2>1, <2>5, <2>6, <2>7 DEF Covered, Buckets
    <2>11. ASSUME NEW c \in Ips, c # a PROVE Covered(c)'
      <3>1. bucket'[c] = Retain[c] /\ unpruned'[c] = unpruned[c]
        BY <2>1, <2>8, <2>11 DEF PruneInv
      <3>2. /\ Retain[c] \in {bucket[c], NoBucket} /\ Covered(c)
            /\ Retain[c] = NoBucket =>
                 unpruned[c].tokens + (now - unpruned[c].last) * Rate >= Full
        BY PrunedAreCovered DEF PruneInv
      <3> QED  BY <3>1, <3>2, <2>1 DEF Covered
    <2> QED  BY <2>1, <2>6, <2>9, <2>10, <2>11 DEF PruneInv
  <1> QED  BY <1>1, <1>2, <1>3 DEF Next

\* ConnectionRateLimiter: however often the map is pruned, an address is let in only when
\* a bucket that is never dropped could pay for it, provided that a bucket refills within
\* the time it is kept.
THEOREM AdmissionsBounded == Spec => []AdmissionBound
  <1>1. CASE KeepFor * Rate >= Full
    <2>1. PruneInv /\ [Next]_vars => PruneInv'  BY <1>1, PruneInvStep
    <2>2. PruneInv => AdmissionBound  BY DEF PruneInv, Covered, AdmissionBound
    <2> QED  BY <2>1, <2>2, PruneInvInit, PTL DEF Spec
  <1>2. CASE ~(KeepFor * Rate >= Full)
    <2>1. AdmissionBound  BY <1>2 DEF AdmissionBound
    <2> QED  BY <2>1, PTL
  <1> QED  BY <1>1, <1>2

-----------------------------------------------------------------------------
(* Refusals.                                                                *)

\* While an address is refused, its bucket holds what has accrued since the first
\* refusal, and less than a token.
Accruing(a) ==
    refused[a] # Never /\ bucket[a] # NoBucket =>
        /\ refused[a] <= bucket[a].last /\ bucket[a].last <= now
        /\ (bucket[a].last - refused[a]) * Rate <= bucket[a].tokens
        /\ bucket[a].tokens < Unit

RefusalInv ==
    /\ now \in Nat
    /\ bucket \in [Ips -> Buckets] /\ refused \in [Ips -> Int]
    /\ \A a \in Ips : refused[a] = Never \/ refused[a] >= 0
    /\ \A a \in Ips : bucket[a] # NoBucket => bucket[a].tokens >= 0 /\ bucket[a].last <= now
    /\ Burst > 0 => \A a \in Ips : Accruing(a)

\* Every step keeps what a refused address has saved up.
LEMMA RefusalInvStep ==
    ASSUME RefusalInv, [Next]_vars
    PROVE  RefusalInv'
  <1> USE LimiterAssumption
  <1>0. NoBucket \in Buckets /\ Never \in Int  BY DEF NoBucket, Buckets, Never
  <1>1. CASE Tick
    <2>1. now' = now + 1 /\ bucket' = bucket /\ refused' = refused
      BY <1>1 DEF Tick, connections
    <2> QED  BY <2>1 DEF RefusalInv, Accruing, Buckets
  <1>2. CASE NewTunnel \/ record_packet \/ UNCHANGED vars
    <2>1. now' = now /\ bucket' = bucket /\ refused' = refused
      BY <1>2 DEF NewTunnel, record_packet, vars, connections
    <2> QED  BY <2>1 DEF RefusalInv, Accruing
  <1>3. ASSUME NEW a \in Ips, check_connection(a) PROVE RefusalInv'
    <2> DEFINE b == IF Retain[a] = NoBucket THEN [tokens |-> Full, last |-> now] ELSE Retain[a]
               allowed == Refill(b) >= Unit
               Pay(tokens) == [tokens |-> IF allowed THEN tokens - Unit ELSE tokens, last |-> now]
               since == IF allowed THEN Never ELSE IF refused[a] = Never THEN now ELSE refused[a]
    <2>1. /\ bucket' = [Retain EXCEPT ![a] = Pay(Refill(b))]
          /\ refused' = [refused EXCEPT ![a] = since]
          /\ now' = now
      BY <1>3 DEF check_connection, RefusalInv
    <2>2. now \in Nat /\ Full \in Nat  BY DEF RefusalInv, Full
    <2>3. Retain \in [Ips -> Buckets] /\ \A c \in Ips : Retain[c] \in {bucket[c], NoBucket}
      BY <1>0 DEF Retain, RefusalInv
    <2>4. b \in Buckets  BY <2>2, <2>3 DEF Buckets
    <2>5. (now - b.last) * Rate \in Int /\ Refill(b) \in Int  BY <2>2, <2>4 DEF Refill, Buckets
    <2> HIDE DEF b
    <2>6. bucket' \in [Ips -> Buckets]
      <3>1. Pay(Refill(b)) \in Buckets  BY <2>2, <2>5 DEF Buckets
      <3> QED  BY <3>1, <2>1, <2>3
    <2>7. since \in Int /\ (since = Never \/ since >= 0)  BY <1>0, <2>2 DEF RefusalInv
    <2>8. refused' \in [Ips -> Int] /\ \A c \in Ips : refused'[c] = Never \/ refused'[c] >= 0
      BY <2>1, <2>7 DEF RefusalInv
    <2>12. Refill(b) >= 0
      <3>1. b.tokens >= 0 /\ b.last <= now  BY <2>2, <2>3 DEF b, RefusalInv
      <3> QED  BY <3>1, <2>2, <2>4, RefillBounds
    <2>13. ASSUME NEW c \in Ips
           PROVE  (bucket[c] # NoBucket => bucket[c].tokens >= 0 /\ bucket[c].last <= now)'
      <3>1. CASE c = a  BY <3>1, <2>1, <2>2, <2>3, <2>5, <2>12
      <3>2. CASE c # a  BY <3>2, <2>1, <2>3 DEF RefusalInv
      <3> QED  BY <3>1, <3>2
    <2>9. ASSUME Burst > 0, ~allowed PROVE Accruing(a)'
      <3>1. /\ bucket'[a] = [tokens |-> Refill(b), last |-> now] /\ Refill(b) < Unit
            /\ refused'[a] = IF refused[a] = Never THEN now ELSE refused[a]
        BY <2>1, <2>3, <2>5, <2>9 DEF RefusalInv
      <3>2. Full >= Unit  BY <2>9 DEF Full
      <3>3. b = bucket[a] /\ bucket[a] # NoBucket
        <4>1. ASSUME Retain[a] = NoBucket PROVE FALSE
          <5>1. b.tokens = Full /\ (now - b.last) * Rate = 0  BY <4>1, <2>2 DEF b
          <5> QED  BY <5>1, <3>1, <3>2, <2>2 DEF Refill
        <4> QED  BY <4>1, <2>3 DEF b
      <3>4. Refill(b) = bucket[a].tokens + (now - bucket[a].last) * Rate
        BY <3>1, <3>2, <3>3, <2>2, <2>5, <2>4 DEF Refill, Buckets
      <3>5. CASE refused[a] = Never
        <4>1. refused'[a] = now /\ bucket'[a].last = now /\ bucket'[a].tokens = Refill(b)
          BY <3>1, <3>5
        <4>2. (bucket'[a].last - refused'[a]) * Rate = 0  BY <4>1, <2>2
        <4>3. now' = now /\ now <= now /\ 0 <= Refill(b)  BY <2>1, <2>2, <2>12
        <4> QED  BY <4>1, <4>2, <4>3, <3>1 DEF Accruing
      <3>6. CASE refused[a] # Never
        <4>1. /\ refused'[a] = refused[a] /\ bucket'[a].last = now
              /\ bucket'[a].tokens = Refill(b)
          BY <3>1, <3>6
        <4>2. /\ refused[a] <= bucket[a].last /\ bucket[a].last <= now
              /\ (bucket[a].last - refused[a]) * Rate <= bucket[a].tokens
          BY <3>3, <3>6, <2>9 DEF RefusalInv, Accruing
        <4>3. refused[a] \in Int /\ bucket[a].last \in Int /\ bucket[a].tokens \in Int
          BY DEF RefusalInv, Buckets
        <4>4. (now - refused[a]) * Rate
                = (bucket[a].last - refused[a]) * Rate + (now - bucket[a].last) * Rate
          BY <4>3, <2>2
        <4>5. (now - refused[a]) * Rate <= Refill(b)
          BY <4>2, <4>3, <4>4, <3>4, <2>2
        <4> QED  BY <4>1, <4>2, <4>3, <4>5, <3>1, <2>1, <2>2 DEF Accruing
      <3> QED  BY <3>5, <3>6
    <2>10. ASSUME allowed PROVE Accruing(a)'
      BY <2>10, <2>1 DEF Accruing, RefusalInv
    <2>11. ASSUME Burst > 0, NEW c \in Ips, c # a PROVE Accruing(c)'
      <3>1. bucket'[c] = Retain[c] /\ refused'[c] = refused[c] /\ Retain[c] \in {bucket[c], NoBucket}
        BY <2>1, <2>3, <2>11 DEF RefusalInv
      <3> QED  BY <3>1, <2>1, <2>11 DEF RefusalInv, Accruing
    <2> QED  BY <2>1, <2>2, <2>6, <2>8, <2>9, <2>10, <2>11, <2>13 DEF RefusalInv
  <1> QED  BY <1>1, <1>2, <1>3 DEF Next

\* check_connection: an address that keeps being refused is let in as soon as a token has
\* accrued since the first refusal.
THEOREM RefusalsAlwaysEnd == Spec => []RefusalsEnd
  <1> USE LimiterAssumption
  <1>1. Init => RefusalInv
    BY DEF Init, RefusalInv, Accruing, Buckets, NoBucket, Never
  <1>2. RefusalInv /\ [Next]_vars => RefusalInv'  BY RefusalInvStep
  <1>3. ASSUME RefusalInv PROVE RefusalsEnd
    <2> SUFFICES ASSUME NEW a \in Ips, refused[a] # Never, Burst > 0
                 PROVE  (bucket[a].last - refused[a]) * Rate < Unit
      BY DEF RefusalsEnd
    <2>1. refused[a] \in Int /\ refused[a] >= 0 /\ bucket[a] \in Buckets
      BY <1>3 DEF RefusalInv
    <2>2. CASE bucket[a] # NoBucket
      <3>1. /\ (bucket[a].last - refused[a]) * Rate <= bucket[a].tokens
            /\ bucket[a].tokens < Unit
        BY <2>2, <1>3 DEF RefusalInv, Accruing
      <3> QED  BY <3>1, <2>1 DEF Buckets
    <2>3. CASE bucket[a] = NoBucket
      <3>1. bucket[a].last - refused[a] <= 0 /\ bucket[a].last - refused[a] \in Int
        BY <2>1, <2>3 DEF NoBucket
      <3>2. (bucket[a].last - refused[a]) * Rate <= 0 * Rate  BY <3>1, Accrues
      <3> QED  BY <3>1, <3>2
    <2> QED  BY <2>2, <2>3
  <1> QED  BY <1>1, <1>2, <1>3, PTL DEF Spec

-----------------------------------------------------------------------------
(* Packets: sums over ticks.                                                *)

\* A set of naturals that is not empty has a least element.
LEMMA LeastNumber ==
    ASSUME NEW T \in SUBSET Nat, T # {}
    PROVE  \E x \in T : \A y \in T : x <= y
  <1> DEFINE R == {ss \in Nat \X Nat : ss[1] < ss[2]}
  <1>1. IsWellFoundedOn(R, Nat)  BY NatLessThanWellFounded DEF OpToRel
  <1> HIDE DEF R
  <1>2. PICK x \in T : \A y \in T : ~(<<y, x>> \in R)  BY <1>1, WFMin, Zenon
  <1>3. ASSUME NEW y \in T, y < x PROVE FALSE
    <2>1. <<y, x>> \in R  BY <1>3 DEF R
    <2> QED  BY <2>1, <1>2
  <1> QED  BY <1>2, <1>3

\* Induction, with the property as a set: the least number outside it has a predecessor.
LEMMA Induction ==
    ASSUME NEW S, 0 \in S, \A n \in Nat : n \in S => n + 1 \in S
    PROVE  \A n \in Nat : n \in S
  <1> SUFFICES ASSUME Nat \ S # {} PROVE FALSE  OBVIOUS
  <1>1. PICK x \in Nat \ S : \A y \in Nat \ S : x <= y  BY LeastNumber, Zenon
  <1>2. x # 0  BY <1>1
  <1>3. x - 1 \in Nat /\ x - 1 \in S  BY <1>1, <1>2
  <1> QED  BY <1>1, <1>3

End == MaxTime + 1
Reads == [0 .. MaxTime -> Nat]

\* There is a function that the recursion of ReadBefore describes.
LEMMA BeforeExists ==
    ASSUME NEW r \in Reads
    PROVE  \E g : g = [n \in 0 .. End |-> IF n = 0 THEN 0 ELSE g[n - 1] + r[n - 1]]
  <1> USE LimiterAssumption DEF Reads, End
  <1> DEFINE Sums(g, m) == g[0] = 0 /\ \A n \in 1 .. m : g[n] = g[n - 1] + r[n - 1]
             Good(m) == \E g \in [0 .. m -> Nat] : Sums(g, m)
             S == {m \in Nat : m <= End => Good(m)}
  <1>1. 0 \in S
    <2>1. [i \in 0 .. 0 |-> 0] \in [0 .. 0 -> Nat] /\ Sums([i \in 0 .. 0 |-> 0], 0)  OBVIOUS
    <2>2. Good(0)  BY <2>1, Zenon
    <2> HIDE DEF Good
    <2> QED  BY <2>2
  <1>2. ASSUME NEW m \in Nat, m \in S PROVE m + 1 \in S
    <2>1. ASSUME m + 1 <= End PROVE Good(m + 1)
      <3>1. Good(m)
        <4> HIDE DEF Good
        <4> QED  BY <1>2, <2>1
      <3>2. PICK g \in [0 .. m -> Nat] : Sums(g, m)  BY <3>1, Zenon
      <3> DEFINE h == [n \in 0 .. m + 1 |-> IF n <= m THEN g[n] ELSE g[m] + r[m]]
      <3>3. h \in [0 .. m + 1 -> Nat]  BY <2>1
      <3>4. Sums(h, m + 1)  BY <3>2
      <3> QED  BY <3>3, <3>4, Zenon
    <2> HIDE DEF Good
    <2> QED  BY <2>1
  <1>3. Good(End)
    <2>1. End \in S
      <3> HIDE DEF S, End
      <3>1. End \in Nat  BY DEF End
      <3> QED  BY <1>1, <1>2, <3>1, Induction, Zenon
    <2> HIDE DEF Good
    <2> QED  BY <2>1
  <1>4. PICK g \in [0 .. End -> Nat] : Sums(g, End)  BY <1>3, Zenon
  <1>5. g = [n \in 0 .. End |-> IF n = 0 THEN 0 ELSE g[n - 1] + r[n - 1]]  BY <1>4
  <1> QED  BY <1>5, Zenon

\* So ReadBefore is one: it counts from 0 and adds up.
LEMMA BeforeSums ==
    ASSUME NEW r \in Reads
    PROVE  /\ ReadBefore(r) \in [0 .. End -> Nat]
           /\ ReadBefore(r)[0] = 0
           /\ \A n \in 1 .. End : ReadBefore(r)[n] = ReadBefore(r)[n - 1] + r[n - 1]
  <1> USE LimiterAssumption DEF Reads
  <1> DEFINE IsSum(g) == g = [n \in 0 .. End |-> IF n = 0 THEN 0 ELSE g[n - 1] + r[n - 1]]
             b == ReadBefore(r)
  <1>1. \E g : IsSum(g)  BY BeforeExists
  <1>2. b = CHOOSE g : IsSum(g)  BY DEF ReadBefore, End
  <1>3. IsSum(b)
    <2> HIDE DEF IsSum, b
    <2> QED  BY <1>1, <1>2, Zenon
  <1>4. b = [n \in 0 .. End |-> IF n = 0 THEN 0 ELSE b[n - 1] + r[n - 1]]  BY <1>3, Zenon
  <1> HIDE DEF b
  <1>5. b[0] = 0 /\ \A n \in 1 .. End : b[n] = b[n - 1] + r[n - 1]  BY <1>4 DEF End
  <1> DEFINE S == {n \in Nat : n <= End => b[n] \in Nat}
  <1>6. \A n \in Nat : n \in S
    <2>1. 0 \in S  BY <1>5
    <2>2. ASSUME NEW n \in Nat, n \in S PROVE n + 1 \in S  BY <1>5, <2>2 DEF End
    <2> HIDE DEF S
    <2> QED  BY <2>1, <2>2, Induction, Zenon
  <1>7. b \in [0 .. End -> Nat]
    <2>1. b = [n \in 0 .. End |-> b[n]]  BY <1>4
    <2>2. \A n \in 0 .. End : b[n] \in Nat  BY <1>6 DEF End
    <2> QED  BY <2>1, <2>2
  <1> QED  BY <1>5, <1>7 DEF b

\* The sums grow, and stand still over ticks without a packet.
LEMMA BeforeGrows ==
    ASSUME NEW r \in Reads, NEW i \in 0 .. End, NEW j \in 0 .. End, i <= j
    PROVE  /\ ReadBefore(r)[i] <= ReadBefore(r)[j]
           /\ (\A k \in i .. j - 1 : r[k] = 0) => ReadBefore(r)[i] = ReadBefore(r)[j]
  <1> USE LimiterAssumption
  <1>1. PICK b : b = ReadBefore(r)  OBVIOUS
  <1>2. b \in [0 .. End -> Nat] /\ \A n \in 1 .. End : b[n] = b[n - 1] + r[n - 1]
    BY <1>1, BeforeSums
  <1> DEFINE P(n) == /\ b[i] <= b[i + n]
                     /\ (\A k \in i .. i + n - 1 : r[k] = 0) => b[i] = b[i + n]
             S == {n \in Nat : i + n <= End => P(n)}
  <1>3. 0 \in S  BY <1>2 DEF End
  <1>4. ASSUME NEW n \in Nat, n \in S PROVE n + 1 \in S
    <2> SUFFICES ASSUME i + (n + 1) <= End PROVE P(n + 1)  OBVIOUS
    <2>1. P(n)  BY <1>4 DEF End
    <2>2. i + n + 1 \in 1 .. End /\ i + n \in 0 .. MaxTime  BY DEF End
    <2>3. b[i + n + 1] = b[i + n] + r[i + n] /\ r[i + n] \in Nat /\ b[i + n] \in Nat /\ b[i] \in Nat
      BY <1>2, <2>2 DEF Reads, End
    <2>4. i + (n + 1) = i + n + 1 /\ i + n \in i .. i + (n + 1) - 1
          /\ \A k \in i .. i + n - 1 : k \in i .. i + (n + 1) - 1
      OBVIOUS
    <2> QED  BY <2>1, <2>3, <2>4
  <1>5. j - i \in S
    <2>1. j - i \in Nat  BY DEF End
    <2> HIDE DEF S
    <2> QED  BY <1>3, <1>4, <2>1, Induction
  <1>6. i + (j - i) = j  BY DEF End
  <1> QED  BY <1>1, <1>5, <1>6 DEF End

\* A packet read in tick k is in the sums of all later ticks.
LEMMA BeforeOneMore ==
    ASSUME NEW r \in Reads, NEW k \in 0 .. MaxTime, NEW n \in 0 .. End
    PROVE  /\ [r EXCEPT ![k] = @ + 1] \in Reads
           /\ ReadBefore([r EXCEPT ![k] = @ + 1])[n]
                = ReadBefore(r)[n] + (IF n > k THEN 1 ELSE 0)
  <1> USE LimiterAssumption
  <1>1. PICK q : q = [r EXCEPT ![k] = @ + 1]  BY Zenon
  <1>2. q \in Reads /\ \A i \in 0 .. MaxTime : q[i] = r[i] + (IF i = k THEN 1 ELSE 0)
    BY <1>1 DEF Reads
  <1>3. PICK b, c : b = ReadBefore(r) /\ c = ReadBefore(q)  OBVIOUS
  <1>4. /\ b \in [0 .. End -> Nat] /\ b[0] = 0 /\ \A i \in 1 .. End : b[i] = b[i - 1] + r[i - 1]
        /\ c \in [0 .. End -> Nat] /\ c[0] = 0 /\ \A i \in 1 .. End : c[i] = c[i - 1] + q[i - 1]
    BY <1>2, <1>3, BeforeSums
  <1> DEFINE S == {i \in Nat : i <= End => c[i] = b[i] + (IF i > k THEN 1 ELSE 0)}
  <1>5. 0 \in S  BY <1>4
  <1>6. ASSUME NEW i \in Nat, i \in S PROVE i + 1 \in S
    <2> SUFFICES ASSUME i + 1 <= End PROVE c[i + 1] = b[i + 1] + (IF i + 1 > k THEN 1 ELSE 0)
      OBVIOUS
    <2>1. c[i] = b[i] + (IF i > k THEN 1 ELSE 0)  BY <1>6 DEF End
    <2>2. i \in 0 .. MaxTime /\ i + 1 \in 1 .. End /\ (i + 1) - 1 = i  BY DEF End
    <2>3. c[i + 1] = c[i] + q[i] /\ b[i + 1] = b[i] + r[i]  BY <1>4, <2>2
    <2>4. q[i] = r[i] + (IF i = k THEN 1 ELSE 0) /\ r[i] \in Nat /\ b[i] \in Nat
      BY <1>2, <1>4, <2>2 DEF Reads, End
    <2> QED  BY <2>1, <2>3, <2>4
  <1>7. n \in S
    <2>1. n \in Nat  BY DEF End
    <2> HIDE DEF S
    <2> QED  BY <1>5, <1>6, <2>1, Induction
  <1> QED  BY <1>1, <1>2, <1>3, <1>7 DEF End

-----------------------------------------------------------------------------
(* Packets: windows.                                                        *)

\* What a window holds: also without a limit the packet that opens it passes.
Limit == IF MaxPackets > 0 THEN MaxPackets ELSE 1
Cut == IF cut THEN 1 ELSE 0

\* All packets since the last window was opened are in it; those of the second before are
\* in one other window, since windows are a second apart.
Windows ==
    /\ now \in 0 .. MaxTime /\ window \in 0 .. now /\ count \in Nat /\ cut \in BOOLEAN
    /\ read \in Reads
    /\ \A i \in 0 .. MaxTime : i > now \/ i >= window + Unit => read[i] = 0
    /\ ReadBefore(read)[End] - ReadBefore(read)[window] = count
    /\ count <= Limit + Cut
    /\ cut => count > MaxPackets
    /\ \A t \in 0 .. window :
         t + Unit >= window => ReadBefore(read)[window] - ReadBefore(read)[t] <= Limit
    /\ PacketBound

Stop(t) == IF t + Unit > End THEN End ELSE t + Unit

\* A tunnel that has read nothing.
Fresh == now \in 0 .. MaxTime /\ window = now /\ count = 0 /\ read = NoPackets /\ cut = FALSE

\* Its window holds all it has read.
LEMMA FreshWindows == Fresh => Windows
  <1> SUFFICES ASSUME now \in 0 .. MaxTime, window = now, count = 0, read = NoPackets, cut = FALSE
               PROVE  Windows
    BY Zenon DEF Fresh
  <1> USE LimiterAssumption
  <1>1. read \in Reads /\ \A i \in 0 .. MaxTime : read[i] = 0
    BY DEF NoPackets, Reads
  <1>2. PICK b : b = ReadBefore(read)  OBVIOUS
  <1>3. b \in [0 .. End -> Nat] /\ b[0] = 0  BY <1>1, <1>2, BeforeSums
  <1>4. ASSUME NEW i \in 0 .. End PROVE b[i] = 0
    <2>1. 0 \in 0 .. End /\ 0 <= i /\ \A k \in 0 .. i - 1 : read[k] = 0  BY <1>1 DEF End
    <2>2. b[0] = b[i]  BY <1>1, <1>2, <2>1, BeforeGrows
    <2> QED  BY <1>3, <2>2
  <1>5. Limit \in Nat /\ Cut = 0  BY DEF Limit, Cut
  <1>6. PacketBound
    <2>1. ASSUME NEW t \in 0 .. MaxTime PROVE ReadFrom(t) = 0
      BY <1>2, <1>4 DEF ReadFrom, End
    <2> QED  BY <1>5, <2>1 DEF PacketBound, Limit, Cut
  <1>7. b[End] - b[window] = 0 /\ \A t \in 0 .. window : b[window] - b[t] = 0
    BY <1>4 DEF End
  <1>8. count <= Limit + Cut  BY <1>5
  <1>9. \A t \in 0 .. window : b[window] - b[t] <= Limit  BY <1>5, <1>7
  <1>10. cut \in BOOLEAN /\ ~cut  BY Zenon
  <1>11. window \in 0 .. now /\ count \in Nat  OBVIOUS
  <1> QED  BY <1>1, <1>2, <1>6, <1>7, <1>8, <1>9, <1>10, <1>11 DEF Windows

\* The sum over one second is the difference of two sums.
LEMMA ReadFromIs ==
    ASSUME NEW t \in 0 .. MaxTime
    PROVE  /\ Stop(t) \in 0 .. End /\ t \in 0 .. End /\ t <= Stop(t)
           /\ ReadFrom(t) = ReadBefore(read)[Stop(t)] - ReadBefore(read)[t]
  BY LimiterAssumption DEF ReadFrom, Stop, End

\* record_packet: the packet is counted in the window it lies in.
LEMMA RecordStep == ASSUME Windows, record_packet PROVE Windows'
  <1> USE LimiterAssumption
  <1>1. PICK b : b = ReadBefore(read)  OBVIOUS
  <1>2. PICK L \in Nat : L = Limit /\ L >= 1 /\ (MaxPackets > 0 => L = MaxPackets)  BY DEF Limit
  <1>3. /\ now \in 0 .. MaxTime /\ window \in 0 .. now /\ count \in Nat /\ cut = FALSE
        /\ read \in Reads /\ count <= L
    BY <1>2 DEF Windows, record_packet, Cut
  <1>4. read' = [read EXCEPT ![now] = @ + 1] /\ now' = now  BY DEF record_packet
  <1>5. PICK c : c = ReadBefore(read')  OBVIOUS
  <1>6. read' \in Reads /\ \A n \in 0 .. End : c[n] = b[n] + (IF n > now THEN 1 ELSE 0)
    <2>1. 0 \in 0 .. End  BY DEF End
    <2> QED  BY <1>1, <1>3, <1>4, <1>5, <2>1, BeforeOneMore, Zenon
  <1>7. /\ \A n \in 0 .. End : b[n] \in Nat
        /\ \A i, j \in 0 .. End : i <= j => b[i] <= b[j]
    BY <1>1, <1>3, BeforeSums, BeforeGrows, Zenon
  <1>8. window \in 0 .. End /\ now \in 0 .. End /\ End \in 0 .. End /\ End > now  BY <1>3 DEF End
  <1>9. PICK w \in Nat, e \in Nat, n \in Nat :
          w = b[window] /\ e = b[End] /\ n = b[now] /\ w <= n /\ n <= e /\ e - w = count
    BY <1>1, <1>3, <1>7, <1>8 DEF Windows
  <1>10. c[window] = w /\ c[End] = e + 1 /\ c[now] = n
    BY <1>3, <1>6, <1>8, <1>9
  <1>11. ASSUME NEW t \in 0 .. MaxTime
         PROVE  \E s \in 0 .. End, x \in Nat, y \in Nat :
                  /\ x = b[t] /\ y = b[s] /\ t <= s /\ x <= y /\ y <= e
                  /\ t <= now /\ now < s => now < t + Unit
                  /\ y - x <= 2 * L
                  /\ ReadFrom(t)' = y - x + (IF t <= now /\ now < s THEN 1 ELSE 0)
    <2>1. PICK s \in 0 .. End : s = Stop(t)  BY ReadFromIs
    <2>2. t \in 0 .. End /\ t <= s /\ ReadFrom(t) = b[s] - b[t]  BY <1>1, <2>1, ReadFromIs
    <2>3. ReadFrom(t)' = c[s] - c[t]  BY <1>5, <2>1 DEF ReadFrom, Stop, End
    <2>4. ReadFrom(t) <= 2 * L  BY <1>2, <1>3 DEF Windows, PacketBound, Limit
    <2>5. PICK x \in Nat, y \in Nat : x = b[t] /\ y = b[s] /\ x <= y /\ y <= e
      BY <1>7, <1>8, <1>9, <2>2
    <2>6. c[t] = x + (IF t > now THEN 1 ELSE 0) /\ c[s] = y + (IF s > now THEN 1 ELSE 0)
      BY <1>6, <2>2, <2>5
    <2>7. ReadFrom(t)' = y - x + (IF t <= now /\ now < s THEN 1 ELSE 0)
      BY <1>3, <2>2, <2>3, <2>6
    <2>8. now < s => now < t + Unit  BY <1>3, <2>1 DEF Stop, End
    <2> QED  BY <2>2, <2>4, <2>5, <2>7, <2>8
  <1>12. CASE now - window >= Unit
    <2>1. window' = now /\ count' = 1 /\ cut' = FALSE
      BY <1>3, <1>12 DEF record_packet, RecordFirst
    <2>2. e = n
      <3>1. \A k \in now .. End - 1 : read[k] = 0  BY <1>3, <1>12 DEF Windows, End
      <3> QED  BY <1>1, <1>3, <1>8, <1>9, <3>1, BeforeGrows
    <2>3. c[End] - c[now] = 1  BY <1>10, <2>2
    <2>4. ASSUME NEW t \in 0 .. now, t + Unit >= now PROVE c[now] - c[t] <= L
      <3>1. t \in 0 .. End /\ window <= t /\ ~(t > now)  BY <1>3, <1>12, <2>4 DEF End
      <3>2. PICK x \in Nat : x = b[t] /\ c[t] = x /\ w <= x  BY <1>6, <1>7, <1>8, <1>9, <3>1
      <3> QED  BY <1>3, <1>9, <1>10, <2>2, <3>2
    <2>5. ASSUME NEW t \in 0 .. MaxTime PROVE ReadFrom(t)' <= 2 * L
      <3>1. PICK s \in 0 .. End, x \in Nat, y \in Nat :
              /\ x = b[t] /\ y = b[s] /\ t <= s /\ x <= y /\ y <= e
              /\ t <= now /\ now < s => now < t + Unit
              /\ y - x <= 2 * L
              /\ ReadFrom(t)' = y - x + (IF t <= now /\ now < s THEN 1 ELSE 0)
        BY <1>11
      <3>2. CASE t <= now /\ now < s
        <4>1. t \in 0 .. End /\ window <= t  BY <1>3, <1>12, <3>1, <3>2 DEF End
        <4>2. w <= x  BY <1>7, <1>8, <1>9, <3>1, <4>1
        <4>3. ReadFrom(t)' = y - x + 1  BY <3>1, <3>2
        <4>4. y - x + 1 <= 2 * L  BY <1>2, <1>3, <1>9, <3>1, <4>2
        <4> QED  BY <4>3, <4>4
      <3>3. CASE ~(t <= now /\ now < s)
        BY <3>1, <3>3
      <3> QED  BY <3>2, <3>3
    <2>6. PacketBound'
      <3>1. Cut' = 0 /\ (IF cut' THEN 1 ELSE 0) = 0  BY <2>1 DEF Cut
      <3>2. (IF MaxPackets > 0 THEN MaxPackets ELSE 1) = L /\ 2 * L + 0 = 2 * L  BY <1>2 DEF Limit
      <3> QED  BY <2>5, <3>1, <3>2 DEF PacketBound
    <2>7. \A i \in 0 .. MaxTime : i > now \/ i >= now + Unit => read'[i] = 0
      BY <1>3, <1>4 DEF Windows, Reads
    <2>8. /\ now' \in 0 .. MaxTime /\ window' \in 0 .. now' /\ count' \in Nat
          /\ count' <= Limit' + Cut'
      BY <1>2, <1>3, <1>4, <2>1 DEF Limit, Cut
    <2>9. cut' \in BOOLEAN /\ ~cut'  BY <2>1, Zenon
    <2>10. \A t \in 0 .. now : t + Unit >= now => c[now] - c[t] <= Limit'
      BY <1>2, <2>4 DEF Limit
    <2> QED
      BY <1>4, <1>5, <1>6, <2>1, <2>3, <2>6, <2>7, <2>8, <2>9, <2>10, Zenon DEF Windows, End
  <1>13. CASE ~(now - window >= Unit)
    <2>1. window' = window /\ count' = count + 1 /\ cut' = (count' > MaxPackets)
      BY <1>13 DEF record_packet, RecordNext
    <2>2. /\ cut' \in BOOLEAN /\ (cut' => count' > MaxPackets)
      <3>1. count' \in Nat /\ MaxPackets \in Nat  BY <1>3, <2>1
      <3>2. (count' > MaxPackets) \in BOOLEAN  BY <3>1
      <3> QED  BY <2>1, <3>2, Zenon
    <2>3. PICK k \in {0, 1} : k = Cut' /\ k = (IF cut' THEN 1 ELSE 0) /\ count + 1 <= L + k
      <3>1. CASE count' > MaxPackets
        <4>1. cut' = TRUE  BY <2>1, <3>1, Zenon
        <4> QED  BY <1>3, <4>1 DEF Cut
      <3>2. CASE ~(count' > MaxPackets)
        <4>1. cut' = FALSE  BY <2>2, <3>2, Zenon
        <4>2. count + 1 <= L  BY <1>2, <1>3, <2>1, <3>2
        <4> QED  BY <1>3, <4>1, <4>2 DEF Cut
      <3> QED  BY <3>1, <3>2
    <2>4. c[End] - c[window] = count'  BY <1>3, <1>9, <1>10, <2>1
    <2>5. ASSUME NEW t \in 0 .. window, t + Unit >= window
          PROVE  w - b[t] <= L /\ c[window] - c[t] <= L
      <3>1. w - b[t] <= L  BY <1>1, <1>2, <1>9, <2>5 DEF Windows
      <3>2. t \in 0 .. End /\ ~(t > now)  BY <1>3, <1>8
      <3>3. c[t] = b[t]  BY <1>6, <1>7, <3>2
      <3> QED  BY <1>10, <3>1, <3>3
    <2>6. ASSUME NEW t \in 0 .. MaxTime PROVE ReadFrom(t)' <= 2 * L + k
      <3>1. PICK s \in 0 .. End, x \in Nat, y \in Nat :
              /\ x = b[t] /\ y = b[s] /\ t <= s /\ x <= y /\ y <= e
              /\ t <= now /\ now < s => now < t + Unit
              /\ y - x <= 2 * L
              /\ ReadFrom(t)' = y - x + (IF t <= now /\ now < s THEN 1 ELSE 0)
        BY <1>11
      <3>2. CASE t <= now /\ now < s
        <4>1. w - x <= L
          <5>1. CASE window <= t
            <6>1. t \in 0 .. End  BY DEF End
            <6>2. w <= x  BY <1>7, <1>8, <1>9, <3>1, <5>1, <6>1
            <6> QED  BY <6>2
          <5>2. CASE t < window
            <6>1. t \in 0 .. window /\ t + Unit >= window  BY <1>3, <3>1, <3>2, <5>2
            <6> QED  BY <2>5, <3>1, <6>1
          <5> QED  BY <1>3, <5>1, <5>2
        <4>2. ReadFrom(t)' = y - x + 1  BY <3>1, <3>2
        <4>3. y - x + 1 <= 2 * L + k  BY <1>3, <1>9, <2>3, <3>1, <4>1
        <4> QED  BY <4>2, <4>3
      <3>3. CASE ~(t <= now /\ now < s)
        <4>1. ReadFrom(t)' = y - x  BY <3>1, <3>3
        <4> QED  BY <3>1, <4>1
      <3> QED  BY <3>2, <3>3
    <2>7. PacketBound'
      <3>1. (IF MaxPackets > 0 THEN MaxPackets ELSE 1) = L  BY <1>2 DEF Limit
      <3> QED  BY <2>3, <2>6, <3>1 DEF PacketBound
    <2>8. \A i \in 0 .. MaxTime : i > now \/ i >= window + Unit => read'[i] = 0
      BY <1>3, <1>4, <1>13 DEF Windows, Reads
    <2>9. \A t \in 0 .. window : t + Unit >= window => c[window] - c[t] <= Limit'
      BY <1>2, <2>5 DEF Limit
    <2>10. count' <= Limit' + Cut' /\ count' \in Nat  BY <1>2, <1>3, <2>1, <2>3 DEF Limit
    <2> QED
      BY <1>3, <1>4, <1>5, <1>6, <2>1, <2>2, <2>4, <2>7, <2>8, <2>9, <2>10, Zenon DEF Windows, End
  <1> QED  BY <1>12, <1>13

\* Time and connections leave the windows alone, and a new tunnel has a new limiter.
LEMMA WindowsStep == Windows /\ [Next]_vars => Windows'
  <1> SUFFICES ASSUME Windows, [Next]_vars PROVE Windows'  OBVIOUS
  <1> USE LimiterAssumption
  <1>1. CASE UNCHANGED packets /\ now' \in {now, now + 1} /\ now' \in 0 .. MaxTime
    <2>1. UNCHANGED <<window, count, read, cut>>  BY <1>1 DEF packets
    <2>2. PacketBound'  BY <2>1 DEF Windows, PacketBound, ReadFrom
    <2> QED  BY <1>1, <2>1, <2>2 DEF Windows, Cut
  <1>2. CASE Tick  BY <1>1, <1>2, SMTT(40) DEF Tick, Windows
  <1>3. CASE (\E a \in Ips : check_connection(a)) \/ UNCHANGED vars
    BY <1>1, <1>3 DEF check_connection, vars, Windows
  <1>4. CASE NewTunnel
    <2>1. Fresh'  BY <1>4 DEF NewTunnel, Windows, Fresh
    <2> QED  BY <2>1, FreshWindows, PTL
  <1>5. CASE record_packet  BY <1>5, RecordStep
  <1> QED  BY <1>2, <1>3, <1>4, <1>5 DEF Next

\* A new limiter has read nothing.
LEMMA WindowsInit == Init => Windows
  <1>1. Init => Fresh  BY LimiterAssumption DEF Init, Fresh
  <1> QED  BY <1>1, FreshWindows

\* PacketRateLimiter: for every limit, length of a second and arrival of packets, no
\* stretch of a second holds more than two windows' packets.
THEOREM PacketsBounded == Spec => []PacketBound
  <1>1. Windows => PacketBound  BY DEF Windows
  <1> QED  BY <1>1, WindowsInit, WindowsStep, PTL DEF Spec

\* PacketRateLimiter: a tunnel that is cut off has read more packets than the limit in
\* the second that began with its window.
THEOREM CutsAreFloods == Spec => []OnlyFloodsCut
  <1>1. ASSUME Windows, cut PROVE ReadFrom(window) > MaxPackets /\ window \in 0 .. MaxTime
    <2> USE LimiterAssumption
    <2>1. window \in 0 .. MaxTime /\ read \in Reads /\ count \in Nat  BY <1>1 DEF Windows
    <2>2. Stop(window) \in 0 .. End /\ End \in 0 .. End /\ Stop(window) <= End
          /\ ReadFrom(window) = ReadBefore(read)[Stop(window)] - ReadBefore(read)[window]
      BY <2>1, ReadFromIs DEF End
    <2>3. \A k \in Stop(window) .. End - 1 : read[k] = 0
      BY <1>1, <2>1 DEF Windows, Stop, End
    <2>4. ReadBefore(read)[Stop(window)] = ReadBefore(read)[End]
      BY <2>1, <2>2, <2>3, BeforeGrows
    <2> QED  BY <1>1, <2>1, <2>2, <2>4 DEF Windows
  <1>2. Windows => OnlyFloodsCut  BY <1>1 DEF OnlyFloodsCut
  <1> QED  BY <1>2, WindowsInit, WindowsStep, PTL DEF Spec

-----------------------------------------------------------------------------
(* The PROXY header.                                                        *)

\* The bytes from one position to another, one after the other.
LEMMA BytesAre ==
    ASSUME NEW a \in Nat, NEW b \in Nat, a <= b
    PROVE  /\ Bytes(a + 1, b) \in Seq(Nat)
           /\ Len(Bytes(a + 1, b)) = b - a
           /\ \A i \in 1 .. b - a : Bytes(a + 1, b)[i] = a + i
  <1>1. PICK n \in Nat : n = b - a  OBVIOUS
  <1>2. b - (a + 1) + 1 = n /\ \A i \in 1 .. n : (a + 1) + i - 1 = a + i /\ a + i \in Nat  BY <1>1
  <1>3. PICK s : s = [i \in 1 .. n |-> a + i]  BY Zenon
  <1>4. Bytes(a + 1, b) = s
    BY <1>2, <1>3 DEF Bytes
  <1>5. s \in Seq(Nat) /\ Len(s) = n /\ \A i \in 1 .. n : s[i] = a + i  BY <1>2, <1>3
  <1> QED  BY <1>1, <1>4, <1>5

\* Two reads in a row.
LEMMA BytesJoin ==
    ASSUME NEW a \in Nat, NEW b \in Nat, NEW c \in Nat, a <= b, b <= c
    PROVE  Bytes(a + 1, b) \o Bytes(b + 1, c) = Bytes(a + 1, c)
  <1>1. PICK s \in Seq(Nat), t \in Seq(Nat), u \in Seq(Nat) :
          /\ s = Bytes(a + 1, b) /\ Len(s) = b - a /\ \A i \in 1 .. b - a : s[i] = a + i
          /\ t = Bytes(b + 1, c) /\ Len(t) = c - b /\ \A i \in 1 .. c - b : t[i] = b + i
          /\ u = Bytes(a + 1, c) /\ Len(u) = c - a /\ \A i \in 1 .. c - a : u[i] = a + i
    <2>1. a <= c  OBVIOUS
    <2> QED  BY <2>1, BytesAre, Zenon
  <1>2. s \o t \in Seq(Nat) /\ Len(s \o t) = Len(u)  BY <1>1
  <1>3. ASSUME NEW i \in 1 .. Len(s \o t) PROVE (s \o t)[i] = u[i]
    <2>1. i \in 1 .. Len(s) + Len(t)  BY <1>1, <1>2
    <2>2. (s \o t)[i] = IF i <= Len(s) THEN s[i] ELSE t[i - Len(s)]  BY <2>1, ConcatProperties
    <2>3. CASE i <= Len(s)  BY <1>1, <2>1, <2>2, <2>3
    <2>4. CASE ~(i <= Len(s))
      <3>1. PICK j \in 1 .. c - b : j = i - Len(s) /\ b + j = a + i /\ i \in 1 .. c - a
        <4>1. Len(s) = b - a /\ Len(t) = c - b /\ i \in Int  BY <1>1, <2>1
        <4>2. i - (b - a) \in 1 .. c - b /\ b + (i - (b - a)) = a + i /\ i \in 1 .. c - a
          BY <2>1, <2>4, <4>1
        <4> QED  BY <4>1, <4>2
      <3> QED  BY <1>1, <2>2, <2>4, <3>1, Zenon
    <2> QED  BY <2>3, <2>4
  <1> QED  BY <1>1, <1>2, <1>3, SeqEqual, Zenon

\* What is left of them behind the first ones.
LEMMA BytesBehind ==
    ASSUME NEW a \in Nat, NEW b \in Nat, a <= b
    PROVE  SubSeq(Bytes(1, b), a + 1, b) = Bytes(a + 1, b)
  <1>1. PICK s \in Seq(Nat), u \in Seq(Nat) :
          /\ s = Bytes(1, b) /\ Len(s) = b /\ \A i \in 1 .. b : s[i] = i
          /\ u = Bytes(a + 1, b) /\ Len(u) = b - a /\ \A i \in 1 .. b - a : u[i] = a + i
    <2>1. 0 + 1 = 1 /\ b - 0 = b /\ 0 <= b /\ \A i \in 1 .. b : 0 + i = i  OBVIOUS
    <2>2. PICK z \in Nat : z = 0  OBVIOUS
    <2>3. Bytes(z + 1, b) \in Seq(Nat) /\ Len(Bytes(z + 1, b)) = b - z
          /\ \A i \in 1 .. b - z : Bytes(z + 1, b)[i] = z + i
      BY <2>1, <2>2, BytesAre, Zenon
    <2> QED  BY <2>1, <2>2, <2>3, BytesAre
  <1>2. PICK v : v = SubSeq(s, a + 1, b)  BY Zenon
  <1>3. v \in Seq(Nat) /\ Len(v) = b - a /\ \A i \in 1 .. b - a : v[i] = s[a + i]
    <2>1. PICK m \in Int, l \in Int, d \in Nat :
            m = a + 1 /\ l = b /\ d = b - a /\ l - m + 1 = d
      OBVIOUS
    <2>2. \A i \in m .. l : s[i] \in Nat  BY <1>1, <2>1
    <2>3. /\ v \in Seq(Nat) /\ Len(v) = IF m <= l THEN l - m + 1 ELSE 0
          /\ \A i \in 1 .. l - m + 1 : v[i] = s[m + i - 1]
      <3>1. v = SubSeq(s, m, l)  BY <1>2, <2>1, Zenon
      <3>2. /\ SubSeq(s, m, l) \in Seq(Nat) /\ Len(SubSeq(s, m, l)) = IF m <= l THEN l - m + 1 ELSE 0
            /\ \A i \in 1 .. l - m + 1 : SubSeq(s, m, l)[i] = s[m + i - 1]
        BY <2>2, SubSeqProperties
      <3> QED  BY <3>1, <3>2, Zenon
    <2>4. (IF m <= l THEN l - m + 1 ELSE 0) = b - a /\ \A i \in 1 .. b - a : m + i - 1 = a + i
      BY <2>1
    <2>5. l - m + 1 = b - a  BY <2>1
    <2> QED  BY <2>3, <2>4, <2>5, Zenon
  <1>4. ASSUME NEW i \in 1 .. b - a PROVE v[i] = u[i]
    <2>1. a + i \in 1 .. b  OBVIOUS
    <2> QED  BY <1>1, <1>3, <2>1, Zenon
  <1> QED  BY <1>1, <1>2, <1>3, <1>4, SeqEqual

\* read(): at least a byte of those that have arrived, and no more than asked for.
LEMMA TakeIs ==
    ASSUME taken \in Nat, arrived \in Nat, MayRead, NEW n \in Nat, n >= 1
    PROVE  \E m \in Nat : /\ taken < m /\ m <= arrived /\ m <= taken + n
                          /\ Take(n) = Bytes(taken + 1, m)
                          /\ Len(Take(n)) = m - taken
  <1>1. PICK m \in Nat : m = Lesser(taken + n, arrived)  BY DEF Lesser
  <1>2. taken < m /\ m <= arrived /\ m <= taken + n  BY <1>1 DEF Lesser, MayRead
  <1>3. Take(n) = Bytes(taken + 1, m)  BY <1>1 DEF Take
  <1>4. Len(Bytes(taken + 1, m)) = m - taken  BY <1>2, BytesAre
  <1> QED  BY <1>2, <1>3, <1>4

\* Until the tunnel the parser's buffer is all that was read; then what was read behind
\* the header is what the decoder has and has still to read.
Flow ==
    /\ version \in {1, 2} /\ headerLen \in Nat /\ taken \in Nat /\ arrived \in Nat /\ taken <= arrived
    /\ pc \in {"first", "v1", "v2Fixed", "v2Body", "tunnel", "refused"}
    /\ pc = "first" => taken = 0
    /\ pc \in {"first", "v1", "v2Fixed", "v2Body"} =>
         header = Bytes(1, taken) /\ prefix = <<>> /\ stream = <<>>
    /\ pc = "tunnel" =>
         /\ headerLen <= taken /\ prefix \in Seq(Nat) /\ stream \in Seq(Nat)
         /\ stream \o prefix = Bytes(headerLen + 1, taken)

\* The parser's buffer.
LEMMA Buffered ==
    ASSUME Flow, pc \in {"first", "v1", "v2Fixed", "v2Body"}
    PROVE  header = Bytes(1, taken) /\ taken \in Nat /\ Len(header) = taken
  <1>1. header = Bytes(1, taken) /\ taken \in Nat  BY DEF Flow
  <1>2. PICK z \in Nat : z = 0  OBVIOUS
  <1>3. z <= taken /\ taken - z = taken /\ z + 1 = 1  BY <1>1, <1>2
  <1>4. Len(Bytes(z + 1, taken)) = taken - z  BY <1>1, <1>3, BytesAre
  <1> QED  BY <1>1, <1>3, <1>4

\* A parser that reads on: its buffer stays all that was read.
ReadsOn(n) ==
    /\ pc \in {"v1", "v2Fixed", "v2Body"} /\ MayRead
    /\ header' = header \o Take(n) /\ taken' = taken + Len(Take(n))
    /\ pc' = pc /\ UNCHANGED <<version, headerLen, arrived, prefix, stream>>

\* The bytes are those behind the ones it has.
LEMMA ReadOn == ASSUME Flow, NEW n \in Nat, n >= 1, ReadsOn(n) PROVE Flow'
  <1>1. PICK m \in Nat : /\ taken < m /\ m <= arrived
                         /\ Take(n) = Bytes(taken + 1, m)
                         /\ Len(Take(n)) = m - taken
    BY TakeIs DEF Flow, ReadsOn
  <1>2. taken \in Nat /\ header = Bytes(1, taken)  BY Buffered DEF ReadsOn
  <1>3. taken' = m
    <2>1. taken' = taken + (m - taken)  BY <1>1 DEF ReadsOn
    <2> QED  BY <1>2, <2>1
  <1>4. header' = Bytes(1, m)
    <2>1. PICK z \in Nat : z = 0 /\ z + 1 = 1 /\ z <= taken /\ taken <= m  BY <1>1, <1>2
    <2>2. Bytes(z + 1, taken) \o Bytes(taken + 1, m) = Bytes(z + 1, m)
      BY <1>1, <1>2, <2>1, BytesJoin, Zenon
    <2>3. header' = Bytes(z + 1, taken) \o Bytes(taken + 1, m)  BY <1>1, <1>2, <2>1, Zenon DEF ReadsOn
    <2> QED  BY <2>1, <2>2, <2>3, Zenon
  <1>5. Bytes(1, taken)' = Bytes(1, m)  BY <1>3 DEF Bytes
  <1> QED  BY <1>1, <1>3, <1>4, <1>5 DEF Flow, ReadsOn

\* Every step of the parser and of the decoder.
LEMMA FlowStep == Flow /\ [HeaderNext]_headerVars => Flow'
  <1> SUFFICES ASSUME Flow, [HeaderNext]_headerVars PROVE Flow'
    OBVIOUS
  <1> USE DEF sent
  <1>0. taken \in Nat /\ arrived \in Nat /\ headerLen \in Nat /\ taken <= arrived  BY DEF Flow
  <1>1. CASE UNCHANGED headerVars  BY <1>1 DEF headerVars, Flow, Bytes
  <1>2. CASE Arrive
    <2>1. StreamLen \in Nat  BY HeaderAssumption
    <2>2. PICK n \in arrived + 1 .. StreamLen : arrived' = n  BY <1>2 DEF Arrive
    <2>3. arrived' \in Nat /\ taken <= arrived'  BY <1>0, <2>1, <2>2
    <2>4. UNCHANGED <<version, headerLen, pc, taken, header, prefix, stream>>  BY <1>2 DEF Arrive
    <2>5. \A a : Bytes(a, taken)' = Bytes(a, taken)  BY <2>4 DEF Bytes
    <2> QED  BY <2>3, <2>4 DEF Flow, Bytes
  <1>3. CASE First
    <2>1. FirstRead \in Nat /\ FirstRead >= 1  BY HeaderAssumption
    <2>2. PICK m \in Nat : /\ taken < m /\ m <= arrived
                           /\ Take(FirstRead) = Bytes(taken + 1, m)
                           /\ Len(Take(FirstRead)) = m - taken
      BY <1>3, <2>1, TakeIs DEF Flow, First
    <2>3. taken = 0 /\ prefix = <<>> /\ stream = <<>>  BY <1>3 DEF Flow, First
    <2>4. header' = Bytes(1, m) /\ taken' = m
      <3>1. taken + 1 = 1 /\ m - taken = m  BY <2>3
      <3> QED  BY <1>3, <2>2, <3>1 DEF First
    <2>5. header' = Bytes(1, taken)'  BY <2>4 DEF Bytes
    <2>6. pc' \in {"refused", "v1", "v2Fixed"}  BY <1>3 DEF First
    <2> QED  BY <1>3, <2>2, <2>3, <2>4, <2>5, <2>6 DEF Flow, First
  <1>4. CASE V1Byte
    <2>1. Len(Take(1)) = 1
      <3>1. PICK m \in Nat : taken < m /\ m <= taken + 1 /\ Len(Take(1)) = m - taken
        BY <1>4, TakeIs DEF Flow, V1Byte
      <3>2. m - taken = 1  BY <1>0, <3>1
      <3> QED  BY <3>1, <3>2, Zenon
    <2>2. taken' = taken + Len(Take(1))  BY <1>4, <2>1 DEF V1Byte
    <2>3. ReadsOn(1)  BY <1>4, <2>2 DEF V1Byte, ReadsOn
    <2> QED  BY <2>3, ReadOn
  <1>5. CASE V1TooLong \/ EndOfStream
    BY <1>5 DEF V1TooLong, EndOfStream, Flow
  <1>6. CASE V2Fixed
    <2>1. CASE Wanting /\ UNCHANGED pc
      <3>1. pc = "v2Fixed" /\ Len(header) = taken /\ Len(header) < Fixed
        BY <1>6, <2>1, Buffered DEF V2Fixed, Wanting
      <3>2. PICK n \in Nat : n = Fixed - Len(header) /\ n >= 1
        <4>1. Fixed \in Nat  BY HeaderAssumption
        <4> QED  BY <1>0, <3>1, <4>1
      <3>3. ReadsOn(n)  BY <1>6, <2>1, <3>1, <3>2 DEF V2Fixed, ReadsOn
      <3> QED  BY <3>2, <3>3, ReadOn
    <2>2. CASE pc' \in {"v2Body", "refused"} /\ UNCHANGED <<header, taken>>
      BY <1>6, <2>2 DEF V2Fixed, Flow, Bytes
    <2> QED  BY <1>6, <2>1, <2>2 DEF V2Fixed
  <1>7. CASE V2Body
    <2>1. pc = "v2Body" /\ Len(header) = taken /\ Len(header) < headerLen
      BY <1>7, Buffered DEF V2Body, Wanting
    <2>2. PICK n \in Nat : n = Lesser(headerLen - Len(header), FirstRead) /\ n >= 1
      <3>1. FirstRead \in Nat \ {0}  BY HeaderAssumption
      <3>2. headerLen - Len(header) \in Nat /\ headerLen - Len(header) >= 1  BY <1>0, <2>1
      <3> QED  BY <3>1, <3>2 DEF Lesser
    <2>3. ReadsOn(n)  BY <1>7, <2>1, <2>2 DEF V2Body, ReadsOn
    <2> QED  BY <2>2, <2>3, ReadOn
  <1>8. CASE V1Parsed \/ V2Parsed
    <2>1. Len(header) = taken /\ header = Bytes(1, taken) /\ stream = <<>> /\ taken \in Nat
      BY <1>8, Buffered DEF Flow, V1Parsed, V2Parsed, Parsed
    <2>2. headerLen \in Nat /\ headerLen <= taken  BY <1>8, <2>1 DEF V1Parsed, V2Parsed, Parsed, Flow
    <2>3. CASE pc' = "refused"  BY <1>8, <2>3 DEF V1Parsed, V2Parsed, Parsed, Flow
    <2>4. CASE pc' = "tunnel" /\ prefix' = SubSeq(header, headerLen + 1, Len(header))
      <3>1. prefix' = Bytes(headerLen + 1, taken)  BY <2>1, <2>2, <2>4, BytesBehind
      <3>2. prefix' \in Seq(Nat)  BY <2>1, <2>2, <3>1, BytesAre
      <3>3. stream' = <<>> /\ stream' \o prefix' = prefix' /\ stream' \in Seq(Nat)
        <4>1. stream' = <<>>  BY <1>8, <2>1 DEF V1Parsed, V2Parsed, Parsed
        <4> QED  BY <4>1, <3>2, ConcatEmptySeq
      <3>4. Bytes(headerLen + 1, taken)' = Bytes(headerLen + 1, taken)
        BY <1>8 DEF V1Parsed, V2Parsed, Parsed, Bytes
      <3> QED  BY <1>8, <2>2, <2>4, <3>1, <3>2, <3>3, <3>4 DEF V1Parsed, V2Parsed, Parsed, Flow
    <2> QED  BY <1>8, <2>3, <2>4 DEF V1Parsed, V2Parsed, Parsed
  <1>9. CASE ReadPrefix
    <2>1. PICK n \in 1 .. 3 :
            /\ stream' = stream \o SubSeq(prefix, 1, Lesser(n, Len(prefix)))
            /\ prefix' = SubSeq(prefix, Lesser(n, Len(prefix)) + 1, Len(prefix))
      BY <1>9, Zenon DEF ReadPrefix
    <2>2. prefix \in Seq(Nat) /\ stream \in Seq(Nat)  BY <1>9 DEF ReadPrefix, Flow
    <2>3. PICK k \in 0 .. Len(prefix) : k = Lesser(n, Len(prefix))
      BY <2>2 DEF Lesser
    <2>4. PICK s \in Seq(Nat), t \in Seq(Nat) :
            s = SubSeq(prefix, 1, k) /\ t = SubSeq(prefix, k + 1, Len(prefix)) /\ s \o t = prefix
      <3>1. SubSeq(prefix, 1, k) \in Seq(Nat) /\ SubSeq(prefix, k + 1, Len(prefix)) \in Seq(Nat)
        BY <2>2, <2>3
      <3>2. SubSeq(prefix, 1, k) \o SubSeq(prefix, k + 1, Len(prefix)) = prefix
        <4>1. PICK l \in Nat : l = Len(prefix)  BY <2>2
        <4>2. 1 \in 1 .. l + 1 /\ k \in 1 - 1 .. l /\ l \in k .. l  BY <2>3, <4>1
        <4>3. SubSeq(prefix, 1, k) \o SubSeq(prefix, k + 1, l) = SubSeq(prefix, 1, l)
          BY <2>2, <4>1, <4>2, ConcatAdjacentSubSeq, Zenon
        <4> QED  BY <2>2, <4>1, <4>3, SubSeqFull, Zenon
      <3> QED  BY <3>1, <3>2, Zenon
    <2>5. stream' = stream \o s /\ prefix' = t  BY <2>1, <2>3, <2>4
    <2>6. stream' \in Seq(Nat) /\ prefix' \in Seq(Nat)  BY <2>2, <2>4, <2>5, ConcatProperties, Zenon
    <2>7. (stream \o s) \o t = stream \o (s \o t)  BY <2>2, ConcatAssociative
    <2>8. stream' \o prefix' = stream \o prefix  BY <2>4, <2>5, <2>7, Zenon
    <2>9. Bytes(headerLen + 1, taken)' = Bytes(headerLen + 1, taken)
      BY <1>9 DEF ReadPrefix, Bytes
    <2> QED  BY <1>9, <2>6, <2>8, <2>9, Zenon DEF ReadPrefix, Flow
  <1>10. CASE ReadInner
    <2>1. PICK n \in 1 .. 3 : stream' = stream \o Take(n) /\ taken' = taken + Len(Take(n))
      BY <1>10, Zenon DEF ReadInner
    <2>2. PICK m \in Nat : /\ taken < m /\ m <= arrived
                           /\ Take(n) = Bytes(taken + 1, m)
                           /\ Len(Take(n)) = m - taken
      <3>1. n \in Nat /\ n >= 1 /\ MayRead  BY <1>10 DEF ReadInner
      <3> QED  BY <1>0, <3>1, TakeIs, Zenon
    <2>3. /\ prefix = <<>> /\ stream \in Seq(Nat) /\ headerLen \in Nat /\ taken \in Nat
          /\ headerLen <= taken /\ stream \o prefix = Bytes(headerLen + 1, taken)
      BY <1>10 DEF ReadInner, Flow
    <2>4. stream = Bytes(headerLen + 1, taken)  BY <2>3
    <2>5. stream' = Bytes(headerLen + 1, m)  
      <3>1. headerLen <= taken /\ taken <= m  BY <2>2, <2>3
      <3>2. Bytes(headerLen + 1, taken) \o Bytes(taken + 1, m) = Bytes(headerLen + 1, m)
        BY <1>0, <2>2, <3>1, BytesJoin, Zenon
      <3> QED  BY <2>1, <2>2, <2>4, <3>2
    <2>6. taken' = m  BY <2>1, <2>2, <2>3
    <2>7. headerLen <= m  BY <2>2, <2>3
    <2>8. stream' \in Seq(Nat)  BY <2>3, <2>5, <2>7, BytesAre
    <2>9. prefix' = <<>> /\ stream' \o prefix' = stream'  BY <1>10, <2>3, <2>8 DEF ReadInner
    <2>10. Bytes(headerLen + 1, taken)' = Bytes(headerLen + 1, m)
      BY <1>10, <2>6 DEF ReadInner, Bytes
    <2> QED  BY <1>10, <2>2, <2>5, <2>6, <2>7, <2>8, <2>9, <2>10 DEF ReadInner, Flow
  <1> QED
    BY <1>1, <1>2, <1>3, <1>4, <1>5, <1>6, <1>7, <1>8, <1>9, <1>10 DEF HeaderNext, Parser

\* PrefixedRead: for every length of the header and of the stream and every way they are
\* cut into pieces, the decoder gets the bytes behind the header, each once and in order.
THEOREM StreamStaysIntact == HeaderSpec => []StreamIntact
  <1>1. HeaderInit => Flow
    <2>1. Bytes(1, 0) = <<>>  BY DEF Bytes
    <2>2. HeaderLens \subseteq Nat  BY HeaderAssumption
    <2> QED  BY <2>1, <2>2 DEF HeaderInit, Flow
  <1>2. Flow /\ [HeaderNext]_headerVars => Flow'  BY FlowStep
  <1>3. Flow => StreamIntact  BY DEF Flow, StreamIntact
  <1> QED  BY <1>1, <1>2, <1>3, PTL DEF HeaderSpec
=============================================================================
