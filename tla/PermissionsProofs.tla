-------------------------- MODULE PermissionsProofs --------------------------
(***************************************************************************)
(* The walk of collect_permissions computes a player's membership for      *)
(* every configuration: the visited and queued groups lie in every closed  *)
(* set, and together they are closed once the queue is empty.              *)
(***************************************************************************)
EXTENDS Permissions, TLAPS

\* Elements of the lists the walk builds.
LEMMA ElementsOf ==
  ASSUME NEW s \in Seq(Groups), NEW t \in Seq(Groups), NEW g \in Groups
  PROVE  /\ Elements(s \o t) = Elements(s) \cup Elements(t)
         /\ Elements(Append(s, g)) = Elements(s) \cup {g}
         /\ Elements(s) \subseteq Groups
         /\ Elements(<<>>) = {}
  <1>1. Elements(s \o t) = Elements(s) \cup Elements(t)
    <2>1. ASSUME NEW x \in Elements(s) PROVE x \in Elements(s \o t)
      <3>1. PICK i \in DOMAIN s : x = s[i]
        BY <2>1 DEF Elements
      <3> QED
        BY <3>1 DEF Elements
    <2>2. ASSUME NEW x \in Elements(t) PROVE x \in Elements(s \o t)
      <3>1. PICK i \in DOMAIN t : x = t[i]
        BY <2>2 DEF Elements
      <3>2. Len(s) + i \in DOMAIN (s \o t) /\ (s \o t)[Len(s) + i] = x
        BY <3>1
      <3> QED
        BY <3>2 DEF Elements
    <2>3. ASSUME NEW x \in Elements(s \o t) PROVE x \in Elements(s) \cup Elements(t)
      <3>1. PICK i \in DOMAIN (s \o t) : x = (s \o t)[i]
        BY <2>3 DEF Elements
      <3>2. CASE i <= Len(s)
        BY <3>1, <3>2 DEF Elements
      <3>3. CASE i > Len(s)
        <4>1. i - Len(s) \in DOMAIN t /\ x = t[i - Len(s)]
          BY <3>1, <3>3
        <4> QED
          BY <4>1 DEF Elements
      <3> QED
        BY <3>1, <3>2, <3>3
    <2> QED
      BY <2>1, <2>2, <2>3
  <1>2. Elements(Append(s, g)) = Elements(s) \cup {g}
    <2>1. ASSUME NEW x \in Elements(s) PROVE x \in Elements(Append(s, g))
      <3>1. PICK i \in DOMAIN s : x = s[i]
        BY <2>1 DEF Elements
      <3> QED
        BY <3>1 DEF Elements
    <2>2. g \in Elements(Append(s, g))
      <3>1. Len(s) + 1 \in DOMAIN Append(s, g) /\ Append(s, g)[Len(s) + 1] = g
        OBVIOUS
      <3> QED
        BY <3>1 DEF Elements
    <2>3. ASSUME NEW x \in Elements(Append(s, g)) PROVE x \in Elements(s) \cup {g}
      <3>1. PICK i \in DOMAIN Append(s, g) : x = Append(s, g)[i]
        BY <2>3 DEF Elements
      <3> QED
        BY <3>1 DEF Elements
    <2> QED
      BY <2>1, <2>2, <2>3
  <1>3. Elements(s) \subseteq Groups
    BY DEF Elements
  <1>4. Elements(<<>>) = {}
    BY DEF Elements
  <1> QED
    BY <1>1, <1>2, <1>3, <1>4

\* A list is its head and its tail.
LEMMA ElementsOfQueue ==
  ASSUME NEW s \in Seq(Groups), s # <<>>
  PROVE  /\ Head(s) \in Groups
         /\ Tail(s) \in Seq(Groups)
         /\ Elements(s) = {Head(s)} \cup Elements(Tail(s))
  <1>1. Head(s) \in Elements(s)
    <2>1. 1 \in DOMAIN s
      OBVIOUS
    <2> QED
      BY <2>1 DEF Elements
  <1>2. ASSUME NEW x \in Elements(Tail(s)) PROVE x \in Elements(s)
    <2>1. PICK i \in DOMAIN Tail(s) : x = Tail(s)[i]
      BY <1>2 DEF Elements
    <2>2. i + 1 \in DOMAIN s /\ s[i + 1] = x
      BY <2>1
    <2> QED
      BY <2>2 DEF Elements
  <1>3. ASSUME NEW x \in Elements(s) PROVE x \in {Head(s)} \cup Elements(Tail(s))
    <2>1. PICK i \in DOMAIN s : x = s[i]
      BY <1>3 DEF Elements
    <2>2. CASE i = 1
      BY <2>1, <2>2
    <2>3. CASE i # 1
      <3>1. i - 1 \in DOMAIN Tail(s) /\ Tail(s)[i - 1] = x
        BY <2>1, <2>3
      <3> QED
        BY <3>1 DEF Elements
    <2> QED
      BY <2>2, <2>3
  <1> QED
    BY <1>1, <1>2, <1>3

-----------------------------------------------------------------------------
Reached == visited \cup Elements(queue)

\* The walk reaches only members, forgets nothing it has to reach, and has added the
\* configured groups among those it has visited.
Walk ==
    /\ \A S \in SUBSET Groups : Closed(S) => Reached \subseteq S
    /\ Elements(start) \subseteq Reached
    /\ \A g \in visited \cap configured : Elements(inherits[g]) \subseteq Reached
    /\ Elements(result) = visited \cap configured
    /\ EachGroupOnce

Decided ==
    verdict # "none" => queue = <<>> /\ (verdict = "yes" <=> ~Denied(Effective) /\ Granted(Effective))

IInv == TypeOK /\ Walk /\ Decided

\* Init establishes the invariant.
LEMMA InitIInv == Init => IInv
  <1> SUFFICES ASSUME Init PROVE IInv
    OBVIOUS
  <1> USE PermissionsAssumption DEF Init
  <1>1. PICK groups \in Assigned : start = StartGroups(groups)
    OBVIOUS
  <1>2. start \in Seq(Groups)
    BY <1>1 DEF StartGroups
  <1>3. TypeOK
    BY <1>2 DEF TypeOK
  <1>4. Walk
    BY <1>2, ElementsOf DEF Walk, Reached, Closed, EachGroupOnce, Elements
  <1> QED
    BY <1>3, <1>4 DEF IInv, Decided

\* One round of the loop keeps it.
LEMMA VisitStep == ASSUME IInv, Visit PROVE IInv'
  <1> DEFINE g == Head(queue)
             expand == g \notin visited /\ g \in configured
             more == IF expand THEN inherits[g] ELSE <<>>
  <1>0. /\ TypeOK /\ Walk /\ queue # <<>>
        /\ visited' = visited \cup {g}
        /\ result' = IF expand THEN Append(result, g) ELSE result
        /\ queue' = Tail(queue) \o more
        /\ UNCHANGED <<configured, inherits, start, asked, verdict>>
    BY DEF IInv, Visit, config
  <1>1. /\ g \in Groups /\ Tail(queue) \in Seq(Groups)
        /\ Elements(queue) = {g} \cup Elements(Tail(queue))
    BY <1>0, ElementsOfQueue DEF TypeOK
  <1>2. more \in Seq(Groups) /\ Elements(<<>>) = {}
    BY <1>0, <1>1 DEF TypeOK, Elements
  <1>3. Elements(queue') = Elements(Tail(queue)) \cup Elements(more)
    BY <1>0, <1>1, <1>2, ElementsOf, Zenon
  <1> HIDE DEF more, g
  <1>4. TypeOK'
    BY <1>0, <1>1, <1>2 DEF TypeOK
  <1>5. Reached' = Reached \cup Elements(more)
    BY <1>0, <1>1, <1>3 DEF Reached
  <1>6. ASSUME NEW S \in SUBSET Groups, Closed(S)' PROVE Reached' \subseteq S
    <2>1. Closed(S)
      BY <1>0, <1>6 DEF Closed, Elements
    <2>2. Reached \subseteq S
      BY <1>0, <2>1 DEF Walk
    <2>3. g \in S
      BY <1>1, <2>2 DEF Reached
    <2>4. Elements(more) \subseteq S
      BY <1>2, <2>1, <2>3 DEF Closed, more
    <2> QED
      BY <1>5, <2>2, <2>4
  <1>7. Elements(start)' \subseteq Reached'
    BY <1>0, <1>5 DEF Walk, Elements
  <1>8. ASSUME NEW h \in visited' \cap configured' PROVE Elements(inherits[h])' \subseteq Reached'
    <2>1. Elements(inherits[h])' = Elements(inherits[h])
      BY <1>0 DEF Elements
    <2>2. CASE h \in visited
      BY <1>0, <1>5, <2>1, <2>2 DEF Walk
    <2>3. CASE h \notin visited
      BY <1>0, <1>5, <2>1, <2>3 DEF more
    <2> QED
      BY <2>2, <2>3
  <1>9. Elements(result)' = visited' \cap configured'
    <2>1. CASE expand
      <3>1. Elements(result') = Elements(result) \cup {g}
        BY <1>0, <1>1, <2>1, ElementsOf DEF TypeOK
      <3> QED
        BY <1>0, <2>1, <3>1, Zenon DEF Walk, Elements
    <2>2. CASE ~expand
      BY <1>0, <2>2 DEF Walk, Elements
    <2> QED
      BY <2>1, <2>2
  <1>10. EachGroupOnce'
    <2>1. CASE expand
      <3>1. g \notin Elements(result)
        BY <1>0, <2>1 DEF Walk
      <3>2. \A i \in DOMAIN result : result[i] # g
        BY <3>1 DEF Elements
      <3>3. \A i, j \in DOMAIN result : result[i] = result[j] => i = j
        BY <1>0 DEF Walk, EachGroupOnce
      <3> QED
        BY <1>0, <1>1, <2>1, <3>2, <3>3 DEF EachGroupOnce, TypeOK
    <2>2. CASE ~expand
      BY <1>0, <2>2 DEF Walk, EachGroupOnce
    <2> QED
      BY <2>1, <2>2
  <1>11. Decided'
    BY <1>0 DEF IInv, Decided
  <1>12. Walk'
    BY <1>6, <1>7, <1>8, <1>9, <1>10 DEF Walk
  <1> QED
    BY <1>4, <1>11, <1>12 DEF IInv

\* So does has_permission, which only reads what was collected.
LEMMA DecideStep == ASSUME IInv, Decide PROVE IInv'
  <1>1. TypeOK'
    BY DEF IInv, TypeOK, Decide, config
  <1>2. Walk'
    BY DEF IInv, Walk, Reached, Closed, EachGroupOnce, Elements, Decide, config
  <1>3. Decided'
    BY DEF Decided, Decide, config, Denied, Granted, Effective, Elements
  <1> QED
    BY <1>1, <1>2, <1>3 DEF IInv

\* The invariant holds throughout the walk and after it.
LEMMA Invariance == Spec => []IInv
  <1>1. ASSUME IInv, UNCHANGED vars PROVE IInv'
    <2>1. TypeOK'
      BY <1>1 DEF IInv, TypeOK, vars
    <2>2. Walk'
      BY <1>1 DEF IInv, Walk, Reached, Closed, EachGroupOnce, Elements, vars
    <2>3. Decided'
      BY <1>1 DEF IInv, Decided, Denied, Granted, Effective, Elements, vars
    <2> QED
      BY <2>1, <2>2, <2>3 DEF IInv
  <1>2. IInv /\ [Next]_vars => IInv'
    BY <1>1, VisitStep, DecideStep DEF Next
  <1> QED
    BY InitIInv, <1>2, PTL DEF Spec

\* With an empty queue the visited groups are the members.
LEMMA WalkIsMembership == ASSUME IInv, queue = <<>> PROVE CollectsMembership
  <1>1. Reached = visited
    BY DEF Reached, Elements
  <1>2. Closed(visited)
    BY <1>1 DEF IInv, Walk, Closed
  <1>3. \A g \in Groups : Member(g) <=> g \in visited
    <2>1. visited \in SUBSET Groups
      BY DEF IInv, TypeOK
    <2> QED
      BY <1>1, <1>2, <2>1 DEF Member, IInv, Walk
  <1> QED
    BY <1>3 DEF CollectsMembership, IInv, Walk, TypeOK

\* collect_permissions adds exactly the configured groups the player is in, for every
\* configuration, cycles of "inherits" included.
THEOREM WalkCollectsMembership == Spec => []CollectsMembership
  <1>1. IInv => CollectsMembership
    BY WalkIsMembership DEF CollectsMembership
  <1> QED
    BY Invariance, <1>1, PTL

\* collect_permissions adds no group's permissions twice.
THEOREM WalkAddsOnce == Spec => []EachGroupOnce
  <1>1. IInv => EachGroupOnce
    BY DEF IInv, Walk
  <1> QED
    BY Invariance, <1>1, PTL

\* has_permission decides by its documented rules over the player's groups.
THEOREM DecisionsFollowRules == Spec => []DecisionFollowsRules
  <1>1. ASSUME IInv PROVE DecisionFollowsRules
    <2>1. CASE verdict = "none"
      BY <2>1 DEF DecisionFollowsRules
    <2>2. CASE verdict # "none"
      <3>1. queue = <<>>
        BY <1>1, <2>2 DEF IInv, Decided
      <3>2. Elements(result) = {h \in configured : Member(h)}
        BY <1>1, <3>1, WalkIsMembership DEF CollectsMembership
      <3> QED
        BY <1>1, <2>2, <3>2 DEF IInv, Decided, DecisionFollowsRules, Effective
    <2> QED
      BY <2>1, <2>2
  <1>2. IInv => DecisionFollowsRules
    BY <1>1
  <1> QED
    BY Invariance, <1>2, PTL
=============================================================================
