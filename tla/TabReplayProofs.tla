--------------------------- MODULE TabReplayProofs ---------------------------
(***************************************************************************)
(* Proof that replay_tabs rebuilds the captured tabs, however many there   *)
(* are and whatever clients do to the old core in the meantime.            *)
(***************************************************************************)
EXTENDS TabReplay, SequenceTheorems, FiniteSetTheorems, TLAPS

IsList(s) == Len(s) \in Nat /\ s = [i \in 1..Len(s) |-> s[i]]

\* The tabs v2 has after that many turns of replay_tabs: its default tab is
\* there before the first.
Rebuilt == IF replayed = 0 THEN 1 ELSE replayed

\* v2 has one tab per replayed url, numbered in the order of the capture.
ReplayInv ==
    /\ IsList(order1)
    /\ step \in {"replay", "health"} =>
          /\ IsList(captured)
          /\ replayed \in 0..Len(captured)
          /\ order2 = [i \in 1..Rebuilt |-> i] /\ next2 = Rebuilt + 1
          /\ DOMAIN tabs2 = 1..Rebuilt
          /\ \A i \in 1..replayed : tabs2[i].url = captured[i]
          /\ replayed = 0 => tabs2[1].url = NoUrl
    /\ step = "health" => replayed = Len(captured)

\* A function on 1..n is a list of length n.
LEMMA FunctionIsList ==
    ASSUME NEW n \in Nat, NEW s, s = [i \in 1..n |-> s[i]]
    PROVE  IsList(s) /\ Len(s) = n
<1>1. s \in [1..n -> {s[i] : i \in 1..n}]
  OBVIOUS
<1>2. s \in Seq({s[i] : i \in 1..n})
  BY <1>1, IsASeq
<1>3. Len(s) = n
  BY <1>1, <1>2, LenProperties
<1>4. QED
  BY <1>3 DEF IsList

\* A list is a sequence, so Append makes it longer by one.
LEMMA AppendList ==
    ASSUME NEW s, IsList(s), NEW x
    PROVE  /\ IsList(Append(s, x)) /\ Len(Append(s, x)) = Len(s) + 1
           /\ Append(s, x) = [i \in 1..(Len(s) + 1) |-> IF i = Len(s) + 1 THEN x ELSE s[i]]
<1>1. PICK n \in Nat : n = Len(s) /\ s = [i \in 1..n |-> s[i]]
  BY DEF IsList
<1>2. PICK S : S = {s[i] : i \in 1..n} \cup {x}
  BY Zenon
<1>3. s \in [1..n -> S]
  BY <1>1, <1>2
<1>4. s \in Seq(S)
  BY <1>1, <1>3, IsASeq
<1>5. /\ Append(s, x) \in Seq(S) /\ Len(Append(s, x)) = n + 1
      /\ \A i \in 1..n : Append(s, x)[i] = s[i]
      /\ Append(s, x)[n + 1] = x
  BY <1>1, <1>2, <1>4, AppendProperties
<1>6. Append(s, x) = [i \in 1..(n + 1) |-> Append(s, x)[i]]
  <2>1. PICK a : a = Append(s, x)
    BY Zenon
  <2>2. a \in Seq(S) /\ Len(a) = n + 1
    BY <1>5, <2>1
  <2>3. a \in [1..(n + 1) -> S]
    BY <2>2, LenProperties
  <2>4. a = [i \in 1..(n + 1) |-> a[i]]
    BY <2>3
  <2>5. QED
    BY <2>1, <2>4, Zenon
<1>7. IsList(Append(s, x))
  <2>1. n + 1 \in Nat
    OBVIOUS
  <2>2. QED
    BY <1>6, <2>1, FunctionIsList, Zenon
<1>8. Append(s, x) = [i \in 1..(n + 1) |-> IF i = n + 1 THEN x ELSE s[i]]
  BY <1>5, <1>6
<1>9. QED
  BY <1>1, <1>5, <1>7, <1>8

\* close_tab leaves a list.
LEMMA RetainList ==
    ASSUME NEW s, IsList(s), NEW t
    PROVE  IsList(V1!Retain(s, t))
<1>1. PICK kept : kept = {i \in DOMAIN s : s[i] # t}
  BY Zenon
<1>2. PICK n \in Nat : DOMAIN s = 1..n
  BY DEF IsList
<1>3. IsFiniteSet(1..n)
  BY FS_Interval
<1>4. IsFiniteSet(kept)
  BY <1>1, <1>2, <1>3, FS_Subset
<1>5. Cardinality(kept) \in Nat
  BY <1>4, FS_CardinalityType
<1>6. PICK r : r = V1!Retain(s, t)
  OBVIOUS
<1>7. r = [m \in 1..Cardinality(kept) |-> r[m]]
  <2>1. r = [m \in 1..V1!Cardinality(kept) |-> s[V1!Nth(kept, m)]]
    BY <1>1, <1>6, Zenon DEF V1!Retain
  <2>2. V1!Cardinality(kept) = Cardinality(kept)
    BY Zenon DEF V1!Cardinality, Cardinality
  <2>3. QED
    BY <2>1, <2>2
<1>8. QED
  BY <1>5, <1>6, <1>7, FunctionIsList

\* A list of length 0 is the empty sequence.
LEMMA EmptyList ==
    ASSUME NEW s, IsList(s)
    PROVE  s = <<>> <=> Len(s) = 0
<1>1. <<>> = [i \in 1..0 |-> s[i]]
  OBVIOUS
<1>2. Len(s) = 0 => s = [i \in 1..0 |-> s[i]]
  BY DEF IsList
<1>3. QED
  BY <1>1, <1>2

-----------------------------------------------------------------------------
\* The clients of v1 touch neither the capture nor v2.
LEMMA ClientStep ==
    ASSUME ReplayInv, IsList(order1'), UNCHANGED <<v2Vars, cutoverVars>>
    PROVE  ReplayInv'
BY DEF ReplayInv, Rebuilt, v2Vars, cutoverVars

\* A capture starts with the default tab of a new core.
LEMMA CaptureStep ==
    ASSUME ReplayInv, capture_v1_tabs
    PROVE  ReplayInv'
<1>1. IsList(order1) /\ IsList(order1')
  BY DEF ReplayInv, capture_v1_tabs, v1Vars
<1>2. captured' = [i \in 1..Len(order1) |-> captured'[i]]
  <2>1. DOMAIN order1 = 1..Len(order1)
    BY <1>1 DEF IsList
  <2>2. QED
    BY <2>1 DEF capture_v1_tabs, ListedBy
<1>3. IsList(captured') /\ Len(captured') \in Nat
  BY <1>1, <1>2, FunctionIsList DEF IsList
<1>4. /\ step' = "replay" /\ replayed' = 0 /\ next2' = 2 /\ Rebuilt' = 1
      /\ DOMAIN tabs2' = 1..1 /\ tabs2'[1].url = NoUrl
  BY DEF capture_v1_tabs, Rebuilt, V2!DefaultTab, V2!Page
<1>5. order2' = [i \in 1..1 |-> i]
  BY DEF capture_v1_tabs, V2!DefaultTab
<1>6. QED
  BY <1>1, <1>3, <1>4, <1>5 DEF ReplayInv

\* A turn of replay_tabs fills the default tab or opens the next one.
LEMMA ReplayStep ==
    ASSUME ReplayInv, replay_tab
    PROVE  ReplayInv'
<1>1. /\ step = "replay" /\ replayed < Len(captured) /\ replayed' = replayed + 1
      /\ UNCHANGED <<order1, step, captured>>
  BY DEF replay_tab, v1Vars
<1>2. /\ IsList(order1) /\ IsList(captured) /\ Len(captured) \in Nat
      /\ replayed \in 0..Len(captured)
      /\ order2 = [i \in 1..Rebuilt |-> i] /\ next2 = Rebuilt + 1
      /\ DOMAIN tabs2 = 1..Rebuilt
      /\ \A i \in 1..replayed : tabs2[i].url = captured[i]
      /\ replayed = 0 => tabs2[1].url = NoUrl
  BY <1>1 DEF ReplayInv, IsList
<1>3. PICK k : k = replayed + 1
  OBVIOUS
<1>4. k \in 1..Len(captured) /\ replayed' = k /\ Rebuilt' = k
  BY <1>1, <1>2, <1>3 DEF Rebuilt
<1>5. ASSUME /\ order2' = [i \in 1..k |-> i] /\ next2' = k + 1 /\ DOMAIN tabs2' = 1..k
             /\ \A i \in 1..k : tabs2'[i].url = captured[i]
      PROVE  ReplayInv'
  BY <1>1, <1>2, <1>4, <1>5 DEF ReplayInv
<1>6. PICK page : page = V2!Page(captured[k], sources[k], InitialSize)
  OBVIOUS
<1>7. page.url = captured[k]
  BY <1>6 DEF V2!Page
<1>8. CASE k = 1
  <2>1. Rebuilt = 1 /\ replayed = 0
    BY <1>2, <1>3, <1>8 DEF Rebuilt
  <2>2. UNCHANGED <<order2, next2>>
    BY <1>3, <1>8 DEF replay_tab, v2Vars, V2!put
  <2>3. DOMAIN tabs2' = 1..1 /\ tabs2'[1].url = captured[1]
    <3>1. CASE captured[1] = NoUrl /\ UNCHANGED v2Vars
      BY <1>2, <2>1, <3>1 DEF v2Vars
    <3>2. CASE V2!put(V2!DefaultTab, page)
      BY <1>2, <1>7, <1>8, <2>1, <3>2 DEF V2!put, V2!WithPage, V2!DefaultTab
    <3>3. QED
      BY <1>3, <1>6, <1>8, <3>1, <3>2 DEF replay_tab
  <2>4. QED
    BY <1>2, <1>5, <1>8, <2>1, <2>2, <2>3
<1>9. CASE k # 1
  <2>1. Rebuilt = replayed /\ next2 = k /\ k = Rebuilt + 1
    BY <1>2, <1>3, <1>9 DEF Rebuilt
  <2>2. V2!open_tab(page)
    BY <1>3, <1>6, <1>9 DEF replay_tab
  <2>3. /\ order2' = Append(order2, k) /\ next2' = k + 1
        /\ tabs2' = [u \in DOMAIN tabs2 \cup {k} |-> IF u = k THEN page ELSE tabs2[u]]
    BY <2>1, <2>2 DEF V2!open_tab, V2!WithPage
  <2>4. IsList(order2) /\ Len(order2) = replayed
    BY <1>2, <2>1, FunctionIsList
  <2>5. order2' = [i \in 1..k |-> i]
    BY <1>2, <1>3, <2>1, <2>3, <2>4, AppendList
  <2>6. DOMAIN tabs2' = 1..k
    BY <1>2, <1>3, <2>1, <2>3
  <2>7. \A i \in 1..k : tabs2'[i].url = captured[i]
    BY <1>2, <1>3, <1>7, <2>1, <2>3
  <2>8. QED
    BY <1>5, <2>3, <2>5, <2>6, <2>7, Zenon
<1>10. QED
  BY <1>8, <1>9

\* Every step of the clients and of the cutover.
LEMMA NextReplay == ReplayInv /\ [Next]_vars => ReplayInv'
<1> SUFFICES ASSUME ReplayInv, [Next]_vars PROVE ReplayInv'
  OBVIOUS
<1>1. IsList(order1)
  BY DEF ReplayInv
<1>2. ASSUME NEW url, OpenTab(url) PROVE ReplayInv'
  <2>1. IsList(order1')
    BY <1>1, <1>2, AppendList DEF OpenTab, V1!open_tab
  <2>2. QED
    BY <1>2, <2>1, ClientStep DEF OpenTab
<1>3. ASSUME NEW t, CloseTab(t) PROVE ReplayInv'
  <2>1. IsList(order1')
    BY <1>1, <1>3, RetainList DEF CloseTab, V1!close_tab
  <2>2. QED
    BY <1>3, <2>1, ClientStep DEF CloseTab
<1>4. ASSUME NEW t, NEW url, Navigate(t, url) PROVE ReplayInv'
  <2>1. IsList(order1')
    BY <1>1, <1>4 DEF Navigate, V1!put
  <2>2. QED
    BY <1>4, <2>1, ClientStep DEF Navigate
<1>5. CASE capture_v1_tabs
  BY <1>5, CaptureStep
<1>6. CASE replay_tab
  BY <1>6, ReplayStep
<1>7. CASE ReplayDone \/ ReplayFails \/ health_check
  BY <1>7 DEF ReplayInv, Rebuilt, ReplayDone, ReplayFails, health_check, v1Vars, v2Vars
<1>8. CASE UNCHANGED vars
  BY <1>8 DEF ReplayInv, Rebuilt, vars, v1Vars, v2Vars, cutoverVars
<1>9. QED
  BY <1>2, <1>3, <1>4, <1>5, <1>6, <1>7, <1>8 DEF Next, Swapped

\* What health_check finds: replay_tabs has rebuilt the tabs that
\* capture_v1_tabs listed, so a cutover is abandoned only if there were none.
THEOREM ReplayIsFaithful == Spec => []ReplayReproducesTabs
<1>1. Init => ReplayInv
  <2>1. Init => order1 = [i \in 1..1 |-> order1[i]]
    BY DEF Init, V1!new, V1!DefaultTab
  <2>2. Init => IsList(order1)
    BY <2>1, FunctionIsList, Zenon
  <2>3. QED
    BY <2>2 DEF Init, ReplayInv
<1>2. ReplayInv => ReplayReproducesTabs
  <2> SUFFICES ASSUME ReplayInv, step = "health"
               PROVE  ListedBy(tabs2, order2) = captured <=> captured # <<>>
    BY DEF ReplayReproducesTabs
  <2>1. PICK n \in Nat : n = Len(captured)
    BY DEF ReplayInv, IsList
  <2>2. /\ IsList(captured) /\ replayed = n
        /\ order2 = [i \in 1..Rebuilt |-> i]
        /\ \A i \in 1..n : tabs2[i].url = captured[i]
    BY <2>1 DEF ReplayInv
  <2>3. CASE n = 0
    <3>1. captured = <<>>
      BY <2>1, <2>2, <2>3, EmptyList, Zenon
    <3>2. DOMAIN ListedBy(tabs2, order2) = 1..1
      BY <2>2, <2>3 DEF ListedBy, Rebuilt
    <3>3. ListedBy(tabs2, order2) # <<>>
      BY <3>2
    <3>4. QED
      BY <3>1, <3>3
  <2>4. CASE n # 0
    <3>1. captured # <<>>
      BY <2>1, <2>2, <2>4, EmptyList
    <3>2. DOMAIN order2 = 1..n /\ \A i \in 1..n : order2[i] = i
      BY <2>2, <2>4 DEF Rebuilt
    <3>3. captured = [i \in 1..n |-> captured[i]]
      BY <2>1, <2>2 DEF IsList
    <3>4. QED
      BY <2>2, <3>1, <3>2, <3>3, Zenon DEF ListedBy
  <2>5. QED
    BY <2>3, <2>4
<1>3. QED
  BY <1>1, <1>2, NextReplay, PTL DEF Spec
=============================================================================
