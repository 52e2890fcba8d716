---------------------------- MODULE BrokerProofs ----------------------------
(***************************************************************************)
(* Proofs about Broker, for any sets of clients and relays and any number  *)
(* of cores and messages: the cutover hands the service over as a whole,   *)
(* and only a genuine death ends the launcher.                             *)
(***************************************************************************)
EXTENDS Broker, TLAPS

Steps == {"idle", "capture", "spawn", "replay", "swap", "bumped", "broadcasting", "written"}

\* A cutover has spawned its v2 and not yet dropped or installed it.
Staging == cutover.at \in {"replay", "swap", "bumped", "broadcasting", "written"}

\* perform_swap holds the gate.
Swapping == cutover.at \in {"bumped", "broadcasting", "written"}

\* A core in service crashed, and its broadcaster has compared generations.
SomeCrash ==
    \E c \in Cores : status[c] = "crashed" /\ broadcaster[c] \in {"signalling", "gone"}

\* Cores are spawned in the order of their numbers.
BornBelow(n) == \A c \in Cores : status[c] = "unborn" <=> n <= c

Replies == [to : Clients \X Nat, core : Cores, frame : Nat]

CoresOK ==
    /\ status \in [Cores -> {"unborn", "alive", "crashed", "killed"}]
    /\ tag \in [Cores -> Nat]
    /\ broadcaster \in [Cores -> {"none", "reading", "ended", "signalling", "gone"}]
    /\ done \in Nat
    /\ broker \in {"running", "stopping", "returned"}

RoutesOK ==
    /\ generation \in Nat
    /\ core_writer \in Cores
    /\ target \in [Relays -> Cores \cup {NoCore}]
    /\ route_gate \in BOOLEAN
    /\ active_core \in Cores \cup {NoCore}
    /\ cutover \in [at : Steps, v2 : Cores \cup {NoCore}]

TrafficOK ==
    /\ inbound \in [Cores -> Seq(Clients \X Nat)]
    /\ outbound \in [Cores -> Seq(Replies)]
    /\ painted \in [Cores -> Nat]
    /\ clients \subseteq seen
    /\ forwarding \subseteq Clients
    /\ said \in [Clients -> Nat]
    /\ inbox \in [Clients -> Seq(Replies)]
    /\ routed \in Seq(Cores)

\* What a cutover has in its hands: a core that was unborn when the cutover
\* began, above every core in use, whose generation comes next.
StagingInv ==
    /\ \E n \in 1..MaxCores : BornBelow(n)
    /\ Staging <=> cutover.v2 # NoCore
    /\ Staging => /\ status[cutover.v2] # "unborn"
                  /\ active_core < cutover.v2
                  /\ tag[cutover.v2] = IF Swapping THEN generation ELSE generation + 1
    /\ Staging /\ cutover.at # "written" => core_writer < cutover.v2
    /\ Staging /\ broker = "running" => status[cutover.v2] \in {"alive", "crashed"}

\* Where the routes lead, and what a swap under way has already moved.
RouteInv ==
    /\ route_gate <=> Swapping
    /\ status[core_writer] # "unborn"
    /\ active_core # NoCore => status[active_core] # "unborn"
    /\ cutover.at \in {"replay", "swap", "bumped"} => broadcaster[cutover.v2] = "none"
    /\ cutover.at \in {"broadcasting", "written"} => broadcaster[cutover.v2] # "none"
    /\ cutover.at = "written" => core_writer = cutover.v2
    /\ cutover.at # "written" => broadcaster[core_writer] # "none"
    /\ ~Swapping => generation = tag[core_writer]
    /\ ~Swapping /\ broker # "returned" => \A r \in Relays : target[r] = core_writer
    /\ ~Swapping /\ broker = "running" => core_writer = active_core
    /\ broker = "running" =>
          /\ active_core # NoCore
          /\ Swapping => tag[active_core] < generation
          /\ \A c \in Cores : Alive(c) => c \in {active_core, cutover.v2}

\* Until a core crashes, every core that was killed was superseded first.
DeathInv ==
    /\ \A c \in Cores : broadcaster[c] # "none" => status[c] # "unborn"
    /\ \A c \in Cores : broadcaster[c] \in {"ended", "signalling", "gone"} =>
           status[c] \in {"crashed", "killed"}
    /\ ~SomeCrash =>
          /\ done = 0
          /\ broker = "running"
          /\ \A c \in Cores :
                /\ broadcaster[c] # "signalling"
                /\ status[c] = "killed" /\ broadcaster[c] # "none" => tag[c] < generation

ServiceInv == CoresOK /\ RoutesOK /\ StagingInv /\ RouteInv /\ DeathInv

\* Nothing was forwarded to a core above the one traffic goes to.
TrafficInv ==
    /\ TrafficOK
    /\ NeverBackToOldCore
    /\ \A i \in DOMAIN routed : routed[i] <= core_writer

\* Of two histories the shorter is the newest part of the longer.
Newest(s, t) ==
    Len(s) <= Len(t) => \A i \in 1..Len(s) : s[i] = t[Len(t) - Len(s) + i]

HistoryInv ==
    /\ seen \subseteq Clients
    /\ writing \subseteq clients
    /\ \A k \in Clients : k \notin seen => inbox[k] = <<>>
    /\ \A k, l \in writing : Newest(inbox[k], inbox[l])

-----------------------------------------------------------------------------
(* The service: cores, routes and the cutover.                             *)

\* What ServiceInv speaks of.
serviceVars == <<status, tag, broadcaster, done, broker, routeVars, cutover>>

\* The launcher starts with core 0 in service and nothing staged.
LEMMA ServiceInit == Init => ServiceInv
<1> SUFFICES ASSUME Init PROVE ServiceInv
  OBVIOUS
<1>1. 0 \in Cores /\ NoCore \notin Cores
  BY BrokerAssumption DEF Cores, NoCore
<1>2. CoresOK /\ RoutesOK
  BY <1>1, Zenon DEF Init, CoresOK, RoutesOK, Steps
<1>3. BornBelow(1) /\ 1 \in 1..MaxCores
  BY BrokerAssumption DEF Init, BornBelow, Cores
<1>4. StagingInv
  <2>1. \E n \in 1..MaxCores : BornBelow(n)
    BY <1>3
  <2>2. ~Staging /\ cutover.v2 = NoCore
    BY DEF Init, Staging
  <2>3. QED
    BY <2>1, <2>2 DEF StagingInv
<1>5. RouteInv
  <2>1. ~Swapping /\ ~route_gate /\ cutover.at = "idle" /\ cutover.v2 = NoCore
    BY DEF Init, Swapping
  <2>2. /\ core_writer = 0 /\ active_core = 0 /\ 0 # NoCore
        /\ status[0] = "alive" /\ broadcaster[0] = "reading" /\ tag[0] = 0 /\ generation = 0
        /\ \A r \in Relays : target[r] = 0
    BY <1>1 DEF Init
  <2>3. \A c \in Cores : Alive(c) => c = 0
    BY DEF Init, Alive
  <2>4. QED
    BY <2>1, <2>2, <2>3 DEF RouteInv
<1>6. DeathInv
  BY DEF Init, DeathInv
<1>7. QED
  BY <1>2, <1>4, <1>5, <1>6 DEF ServiceInv

\* A step of the clients, of a core's own work or of a relay's accept loop
\* leaves the service as it is.
LEMMA ServiceFrame ==
    ASSUME ServiceInv, UNCHANGED serviceVars
    PROVE  ServiceInv'
<1> USE DEF serviceVars, routeVars
<1>1. CoresOK' /\ RoutesOK'
  BY DEF ServiceInv, CoresOK, RoutesOK
<1>2. StagingInv'
  BY DEF ServiceInv, StagingInv, Staging, Swapping, BornBelow
<1>3. RouteInv'
  BY DEF ServiceInv, RouteInv, Swapping, Alive
<1>4. DeathInv'
  BY DEF ServiceInv, DeathInv, SomeCrash
<1>5. QED
  BY <1>1, <1>2, <1>3, <1>4 DEF ServiceInv

\* Nobody but SpawnV2 changes which cores are unborn.
LEMMA BornStays ==
    ASSUME \E n \in 1..MaxCores : BornBelow(n),
           \A c \in Cores : status'[c] = "unborn" <=> status[c] = "unborn"
    PROVE  \E n \in 1..MaxCores : BornBelow(n)'
BY DEF BornBelow

\* A core that dies on its own leaves the routes alone.
LEMMA CoreDiesService ==
    ASSUME ServiceInv, NEW c \in Cores, CoreDies(c)
    PROVE  ServiceInv'
<1> USE BrokerAssumption DEF ServiceInv, CoreDies, threadVars, routeVars
<1>1. CoresOK' /\ RoutesOK'
  BY DEF CoresOK, RoutesOK
<1>2. StagingInv'
  <2>1. \A c_1 \in Cores : status'[c_1] = "unborn" <=> status[c_1] = "unborn"
    BY DEF Alive
  <2>2. \E n \in 1..MaxCores : BornBelow(n)'
    BY <2>1, BornStays DEF StagingInv
  <2>3. QED
    BY <2>2 DEF StagingInv, Staging, Swapping
<1>3. RouteInv'
  BY DEF RouteInv, Swapping, Alive
<1>4. DeathInv'
  BY Zenon DEF CoresOK, RoutesOK, StagingInv, RouteInv, DeathInv, SomeCrash, Staging, Swapping,
       Alive, Cores, NoCore
<1>5. QED
  BY <1>1, <1>2, <1>3, <1>4

\* A broadcaster whose stream has ended had a core that is dead.
LEMMA BroadcastEndsService ==
    ASSUME ServiceInv, NEW c \in Cores, BroadcastEnds(c)
    PROVE  ServiceInv'
<1> USE BrokerAssumption DEF ServiceInv, BroadcastEnds, Running, coreVars, routeVars
<1>1. CoresOK' /\ RoutesOK'
  BY DEF CoresOK, RoutesOK
<1>2. StagingInv'
  BY Zenon DEF CoresOK, RoutesOK, StagingInv, Staging, Swapping, BornBelow, RouteInv, Cores, NoCore
<1>3. RouteInv'
  BY DEF RouteInv, Swapping, Alive
<1>4. DeathInv'
  <2>1. status[c] \in {"crashed", "killed"}
    BY DEF CoresOK, DeathInv, Alive, Cores, NoCore
  <2>2. QED
    BY <2>1 DEF DeathInv, SomeCrash
<1>5. QED
  BY <1>1, <1>2, <1>3, <1>4

\* Comparing generations tells a superseded core from one that crashed.
LEMMA CheckService ==
    ASSUME ServiceInv, NEW c \in Cores, CheckGeneration(c)
    PROVE  ServiceInv'
<1> USE BrokerAssumption DEF ServiceInv, CheckGeneration, Running, coreVars, routeVars
<1>1. CoresOK' /\ RoutesOK'
  BY DEF CoresOK, RoutesOK
<1>2. StagingInv'
  BY Zenon DEF CoresOK, RoutesOK, StagingInv, Staging, Swapping, BornBelow, RouteInv, Cores, NoCore
<1>3. RouteInv'
  BY DEF RouteInv, Swapping, Alive
<1>4. DeathInv'
  <2>1. \A c_1 \in Cores : broadcaster'[c_1] \in {"ended", "signalling", "gone"}
                             <=> broadcaster[c_1] \in {"ended", "signalling", "gone"}
    OBVIOUS
  <2>2. \A c_1 \in Cores : broadcaster'[c_1] # "none" <=> broadcaster[c_1] # "none"
    OBVIOUS
  <2>3. \A c_1 \in Cores : c_1 # c => broadcaster'[c_1] = broadcaster[c_1]
    OBVIOUS
  <2>4. broadcaster'[c] \in {"signalling", "gone"} /\ status[c] \in {"crashed", "killed"}
    BY DEF CoresOK, DeathInv
  <2>5. SomeCrash => SomeCrash'
    BY <2>3 DEF SomeCrash
  <2>6. CASE status[c] = "crashed"
    <3>1. SomeCrash'
      BY <2>4, <2>6 DEF SomeCrash
    <3>2. QED
      BY <2>1, <2>2, <3>1 DEF DeathInv
  <2>7. CASE status[c] = "killed"
    <3>1. ASSUME ~SomeCrash PROVE generation # tag[c]
      BY <2>7, <3>1 DEF CoresOK, RoutesOK, DeathInv
    <3>2. ASSUME ~SomeCrash, NEW c_1 \in Cores PROVE broadcaster'[c_1] # "signalling"
      BY <2>3, <3>1, <3>2 DEF CoresOK, DeathInv
    <3>3. QED
      BY <2>1, <2>2, <2>5, <3>2 DEF DeathInv
  <2>8. QED
    BY <2>4, <2>6, <2>7
<1>5. QED
  BY <1>1, <1>2, <1>3, <1>4

\* A signal is sent only after a crash.
LEMMA SignalService ==
    ASSUME ServiceInv, NEW c \in Cores, SignalDone(c)
    PROVE  ServiceInv'
<1> USE BrokerAssumption DEF ServiceInv, SignalDone, Running, coreVars, routeVars
<1>1. CoresOK' /\ RoutesOK'
  BY DEF CoresOK, RoutesOK
<1>2. StagingInv'
  BY Zenon DEF CoresOK, RoutesOK, StagingInv, Staging, Swapping, BornBelow, RouteInv, Cores, NoCore
<1>3. RouteInv'
  BY DEF RouteInv, Swapping, Alive
<1>4. DeathInv'
  BY Zenon DEF CoresOK, RoutesOK, StagingInv, RouteInv, DeathInv, SomeCrash, Staging, Swapping,
       Alive, Cores, NoCore
<1>5. QED
  BY <1>1, <1>2, <1>3, <1>4

\* The steps of a cutover that only move it on.
LEMMA MoveService ==
    ASSUME ServiceInv,
           BeginCutover \/ Captured \/ AbandonEarly \/ ReplayAndHealthCheck
    PROVE  ServiceInv'
<1> USE DEF ServiceInv
<1>1. /\ UNCHANGED <<status, tag, broadcaster, done, broker, routeVars>>
      /\ cutover' \in [at : Steps, v2 : Cores \cup {NoCore}]
      /\ cutover'.v2 = cutover.v2
      /\ \/ ~Staging /\ cutover'.at \in {"idle", "capture", "spawn"}
         \/ cutover.at = "replay" /\ cutover'.at = "swap"
  <2>1. CASE BeginCutover
    BY <2>1 DEF BeginCutover, At, Go, RoutesOK, Steps, Staging, coreVars, threadVars
  <2>2. CASE Captured
    BY <2>2 DEF Captured, At, Go, RoutesOK, Steps, Staging, coreVars, threadVars
  <2>3. CASE AbandonEarly
    BY <2>3 DEF AbandonEarly, At, Fail, StagingInv, Steps, Staging, coreVars, threadVars
  <2>4. CASE ReplayAndHealthCheck
    BY <2>4 DEF ReplayAndHealthCheck, At, Go, RoutesOK, Steps, threadVars
  <2>5. QED
    BY <2>1, <2>2, <2>3, <2>4
<1> USE <1>1 DEF routeVars
<1>2. /\ Staging' = Staging /\ Swapping' = Swapping
      /\ cutover.at # "written" /\ cutover'.at # "written"
      /\ cutover'.at # "broadcasting"
  BY DEF Staging, Swapping
<1>3. CoresOK' /\ RoutesOK'
  BY DEF CoresOK, RoutesOK
<1>4. StagingInv'
  BY <1>2 DEF StagingInv, BornBelow
<1>5. RouteInv'
  BY <1>2 DEF RouteInv, Alive
<1>6. DeathInv'
  BY DEF DeathInv, SomeCrash
<1>7. QED
  BY <1>3, <1>4, <1>5, <1>6

\* The least element of a set of integers (Min of the community modules).
LEMMA LeastElement ==
    ASSUME NEW S \in SUBSET Int, NEW n \in S, \A m \in S : n =< m
    PROVE  Min(S) = n
<1>1. Min(S) \in S /\ \A m \in S : Min(S) =< m
  BY Zenon DEF Min
<1>2. \A a, b \in Int : a =< b /\ b =< a => a = b
  OBVIOUS
<1>3. QED
  BY <1>1, <1>2, Zenon

\* The core numbers not yet in use are the top ones, so the next one is the
\* first above those in use.
LEMMA NextCore ==
    ASSUME CoresOK, NEW n \in 1..MaxCores, BornBelow(n), Unborn # {}
    PROVE  /\ Min(Unborn) = n
           /\ n \in Cores
           /\ status[n] = "unborn"
<1>1. Unborn = n..(MaxCores - 1)
  BY DEF Unborn, BornBelow, Cores
<1>2. n <= MaxCores - 1
  BY <1>1, BrokerAssumption
<1>3. n \in Unborn /\ \A m \in Unborn : n <= m
  BY <1>1, <1>2, BrokerAssumption
<1>4. Unborn \subseteq Int
  BY <1>1
<1>5. Min(Unborn) = n
  BY <1>3, <1>4, LeastElement
<1>6. QED
  BY <1>3, <1>5 DEF Unborn

\* A spawned core is the next one, and carries the next generation.
LEMMA SpawnService ==
    ASSUME ServiceInv, SpawnV2
    PROVE  ServiceInv'
<1> USE DEF ServiceInv
<1>1. PICK n \in 1..MaxCores : BornBelow(n)
  BY DEF StagingInv
<1>2. /\ n \in Cores /\ status[n] = "unborn"
      /\ cutover.at = "spawn"
      /\ status' = [status EXCEPT ![n] = "alive"]
      /\ tag' = [tag EXCEPT ![n] = generation + 1]
      /\ cutover' = [at |-> "replay", v2 |-> n]
      /\ UNCHANGED <<broadcaster, done, broker, routeVars>>
  BY <1>1, NextCore, Zenon DEF SpawnV2, At
<1> USE <1>2 DEF routeVars
<1>3. n \in Nat /\ n # NoCore /\ core_writer # n /\ active_core # n /\ broadcaster[n] = "none"
  BY DEF NoCore, RouteInv, DeathInv
<1>4. CoresOK' /\ RoutesOK'
  BY DEF CoresOK, RoutesOK, Steps
<1>5. StagingInv'
  <2>1. BornBelow(n + 1)' /\ n + 1 \in 1..MaxCores
    BY <1>1, BrokerAssumption DEF BornBelow, Cores, CoresOK
  <2>2. core_writer < n /\ active_core < n
    BY <1>1 DEF BornBelow, RoutesOK, RouteInv, NoCore
  <2>3. Staging' /\ ~Swapping'
    BY DEF Staging, Swapping
  <2>4. QED
    BY <1>3, <2>1, <2>2, <2>3 DEF StagingInv, CoresOK
<1>6. RouteInv'
  BY <1>3 DEF RouteInv, Swapping, Staging, StagingInv, Alive
<1>7. DeathInv'
  BY DEF DeathInv, SomeCrash
<1>8. QED
  BY <1>4, <1>5, <1>6, <1>7

\* A cutover that is abandoned kills the core it staged and nothing else.
LEMMA AbandonV2Service ==
    ASSUME ServiceInv, AbandonV2
    PROVE  ServiceInv'
<1> USE BrokerAssumption DEF ServiceInv, AbandonV2, At, Fail, Killed, Running, threadVars, routeVars
<1>1. CoresOK' /\ RoutesOK'
  BY DEF CoresOK, RoutesOK, Steps, StagingInv, Staging
<1>2. StagingInv'
  BY Zenon DEF CoresOK, RoutesOK, StagingInv, Staging, Swapping, BornBelow, RouteInv, Cores, NoCore
<1>3. RouteInv'
  BY DEF CoresOK, RouteInv, Swapping, Alive
<1>4. DeathInv'
  <2>1. cutover.v2 \in Cores /\ broadcaster[cutover.v2] = "none"
    BY DEF RoutesOK, StagingInv, Staging, RouteInv
  <2>2. \A c \in Cores : c # cutover.v2 => status'[c] = status[c]
    OBVIOUS
  <2>3. SomeCrash => SomeCrash'
    BY DEF SomeCrash
  <2>4. \A c \in Cores : broadcaster[c] # "none" => status'[c] = status[c]
    BY <2>1, <2>2, Zenon
  <2>5. UNCHANGED <<broadcaster, tag, generation, done, broker>>
    OBVIOUS
  <2>6. QED
    BY <2>3, <2>4, <2>5, Zenon DEF DeathInv
<1>5. QED
  BY <1>1, <1>2, <1>3, <1>4

\* The gate is taken and the old core superseded in one step.
LEMMA BumpService ==
    ASSUME ServiceInv, BumpGeneration
    PROVE  ServiceInv'
<1> USE BrokerAssumption DEF ServiceInv, BumpGeneration, At, Go, Running, coreVars, threadVars, routeVars
<1>1. CoresOK' /\ RoutesOK'
  BY Zenon DEF CoresOK, RoutesOK, Steps, StagingInv, Staging, Cores, NoCore
<1>2. StagingInv'
  BY DEF StagingInv, Staging, Swapping, BornBelow
<1>3. RouteInv'
  BY DEF RoutesOK, StagingInv, RouteInv, Staging, Swapping, Alive
<1>4. DeathInv'
  BY DEF CoresOK, RoutesOK, StagingInv, RouteInv, DeathInv, SomeCrash, Staging
<1>5. QED
  BY <1>1, <1>2, <1>3, <1>4

\* The new broadcaster starts.
LEMMA StartService ==
    ASSUME ServiceInv, StartBroadcast
    PROVE  ServiceInv'
<1> USE BrokerAssumption DEF ServiceInv, StartBroadcast, At, Go, Running, coreVars, routeVars
<1>1. CoresOK' /\ RoutesOK'
  BY Zenon DEF CoresOK, RoutesOK, Steps, StagingInv, Staging, Cores, NoCore
<1>2. StagingInv'
  BY DEF StagingInv, Staging, Swapping, BornBelow
<1>3. RouteInv'
  BY DEF CoresOK, RoutesOK, StagingInv, RouteInv, Staging, Swapping, Alive
<1>4. DeathInv'
  BY Zenon DEF CoresOK, RoutesOK, StagingInv, RouteInv, DeathInv, SomeCrash, Staging, Swapping,
       Alive, Cores, NoCore
<1>5. QED
  BY <1>1, <1>2, <1>3, <1>4

\* Client traffic moves.
LEMMA SwapService ==
    ASSUME ServiceInv, SwapWriter
    PROVE  ServiceInv'
<1> USE BrokerAssumption DEF ServiceInv, SwapWriter, At, Go, Running, coreVars, threadVars, routeVars
<1>1. CoresOK' /\ RoutesOK'
  BY Zenon DEF CoresOK, RoutesOK, Steps, StagingInv, Staging, Cores, NoCore
<1>2. StagingInv'
  BY DEF StagingInv, Staging, Swapping, BornBelow
<1>3. RouteInv'
  BY DEF StagingInv, RouteInv, Staging, Swapping, Alive
<1>4. DeathInv'
  BY DEF DeathInv, SomeCrash
<1>5. QED
  BY <1>1, <1>2, <1>3, <1>4

\* A relay moves.
LEMMA ActivateService ==
    ASSUME ServiceInv, NEW r \in Relays, ActivateRelay(r)
    PROVE  ServiceInv'
<1> USE BrokerAssumption DEF ServiceInv, ActivateRelay, At, Running, coreVars, threadVars, routeVars
<1>1. CoresOK' /\ RoutesOK'
  BY DEF CoresOK, RoutesOK
<1>2. StagingInv'
  BY Zenon DEF CoresOK, RoutesOK, StagingInv, Staging, Swapping, BornBelow, RouteInv, Cores, NoCore
<1>3. RouteInv'
  BY DEF RouteInv, Swapping, Alive
<1>4. DeathInv'
  BY DEF DeathInv, SomeCrash
<1>5. QED
  BY <1>1, <1>2, <1>3, <1>4

\* The old core is ended after everything has moved.
LEMMA ReplaceService ==
    ASSUME ServiceInv, ReplaceCore
    PROVE  ServiceInv'
<1> USE BrokerAssumption DEF ServiceInv, ReplaceCore, At, Fail, Killed, Running, threadVars, routeVars
<1>1. CoresOK' /\ RoutesOK'
  BY Zenon DEF CoresOK, RoutesOK, Steps, StagingInv, Staging, Cores, NoCore
<1>2. StagingInv'
  BY Zenon DEF CoresOK, RoutesOK, StagingInv, Staging, Swapping, BornBelow, RouteInv, Cores, NoCore
<1>3. RouteInv'
  BY DEF CoresOK, StagingInv, RouteInv, Staging, Swapping, Alive
<1>4. DeathInv'
  <2>1. SomeCrash' <=> SomeCrash
    <3>1. \A c \in Cores : status'[c] = "crashed" <=> status[c] = "crashed"
      BY DEF CoresOK
    <3>2. UNCHANGED broadcaster
      OBVIOUS
    <3>3. QED
      BY ONLY <3>1, <3>2, Zenon DEF SomeCrash
  <2>2. ASSUME ~SomeCrash PROVE active_core \in Cores /\ tag[active_core] < generation
    BY <2>2 DEF DeathInv, RouteInv, Swapping, RoutesOK
  <2>3. QED
    BY <2>1, <2>2 DEF DeathInv
<1>5. QED
  BY <1>1, <1>2, <1>3, <1>4

\* run_broker stops only after a signal.
LEMMA TakeService ==
    ASSUME ServiceInv, TakeCore
    PROVE  ServiceInv'
<1> USE BrokerAssumption DEF ServiceInv, TakeCore, Killed, threadVars, routeVars
<1>1. CoresOK' /\ RoutesOK'
  BY DEF CoresOK, RoutesOK
<1>2. StagingInv'
  <2>1. \A c_1 \in Cores : status'[c_1] = "unborn" <=> status[c_1] = "unborn"
    OBVIOUS
  <2>2. \E n \in 1..MaxCores : BornBelow(n)'
    BY BornStays DEF StagingInv
  <2>3. QED
    BY <2>2 DEF RoutesOK, StagingInv, Staging, Swapping, Cores, NoCore
<1>3. RouteInv'
  BY DEF RouteInv, Swapping
<1>4. DeathInv'
  <2>1. SomeCrash
    BY DEF DeathInv
  <2>2. SomeCrash'
    BY <2>1 DEF SomeCrash
  <2>3. \A c \in Cores : /\ status'[c] = "unborn" => status[c] = "unborn"
                         /\ status[c] \in {"crashed", "killed"} => status'[c] = status[c]
    BY DEF CoresOK
  <2>4. UNCHANGED broadcaster
    OBVIOUS
  <2>5. (\A c \in Cores : broadcaster[c] # "none" => status[c] # "unborn")'
    BY <2>3, <2>4, Zenon DEF DeathInv
  <2>6. (\A c \in Cores : broadcaster[c] \in {"ended", "signalling", "gone"} =>
              status[c] \in {"crashed", "killed"})'
    BY <2>3, <2>4, Zenon DEF DeathInv
  <2>7. QED
    BY <2>2, <2>5, <2>6, Zenon DEF DeathInv
<1>5. QED
  BY <1>1, <1>2, <1>3, <1>4

\* run_broker returns only after it has stopped.
LEMMA ReturnService ==
    ASSUME ServiceInv, Return
    PROVE  ServiceInv'
<1> USE BrokerAssumption DEF ServiceInv, Return, threadVars, routeVars
<1>1. CoresOK' /\ RoutesOK'
  BY DEF CoresOK, RoutesOK
<1>2. StagingInv'
  BY Zenon DEF CoresOK, RoutesOK, StagingInv, Staging, Swapping, BornBelow, RouteInv, Cores, NoCore
<1>3. RouteInv'
  BY DEF RoutesOK, RouteInv, Swapping
<1>4. DeathInv'
  BY Zenon DEF DeathInv, SomeCrash
<1>5. QED
  BY <1>1, <1>2, <1>3, <1>4

\* Every step of the system keeps the service invariant.
LEMMA ServiceStep == ServiceInv /\ [Next]_vars => ServiceInv'
<1> SUFFICES ASSUME ServiceInv, [Next]_vars PROVE ServiceInv'
  OBVIOUS
<1>1. CASE ClientStep
  <2>1. UNCHANGED serviceVars
    BY <1>1 DEF ClientStep, register_client, Disconnect, WriterTimesOut, forward_client_to_core,
         WriteTo, serviceVars, coreVars, threadVars
  <2>2. QED
    BY <2>1, ServiceFrame
<1>2. CASE CoreStep
  <2>1. ASSUME NEW c \in Cores, CoreReplies(c) PROVE UNCHANGED serviceVars
    BY <2>1 DEF CoreReplies, serviceVars, threadVars
  <2>2. QED
    BY <1>2, <2>1, ServiceFrame, CoreDiesService DEF CoreStep
<1>3. ASSUME NEW c \in Cores, BroadcasterStep(c) PROVE ServiceInv'
  <2>1. CASE broadcast_core_to_clients(c)
    BY <2>1, ServiceFrame, Zenon DEF broadcast_core_to_clients, serviceVars, threadVars
  <2>2. QED
    BY <1>3, <2>1, BroadcastEndsService, CheckService, SignalService DEF BroadcasterStep
<1>4. CASE BeforeSwap
  BY <1>4, MoveService, SpawnService, AbandonV2Service DEF BeforeSwap
<1>5. CASE perform_swap
  BY <1>5, BumpService, StartService, SwapService, ActivateService, ReplaceService DEF perform_swap
<1>6. ASSUME NEW r \in Relays, RelayAccepts(r) PROVE ServiceInv'
  BY <1>6, ServiceFrame DEF RelayAccepts, serviceVars, coreVars, threadVars
<1>7. CASE run_broker
  BY <1>7, TakeService, ReturnService DEF run_broker
<1>8. CASE Returned \/ UNCHANGED vars
  BY <1>8, ServiceFrame DEF Returned, vars, serviceVars, coreVars, threadVars
<1>9. QED
  BY <1>1, <1>2, <1>3, <1>4, <1>5, <1>6, <1>7, <1>8 DEF Next

\* The service invariant holds throughout.
THEOREM ServiceHolds == Spec => []ServiceInv
BY ServiceInit, ServiceStep, PTL DEF Spec

\* Outside the handoff client traffic, relays, the owned process and the
\* generation number name one core (Broker in launcher/src/unix.rs).
THEOREM CutoverIsWhole == Spec => []OneGenerationServes
<1>1. ServiceInv => OneGenerationServes
  <2> SUFFICES ASSUME ServiceInv, broker = "running" PROVE OneGenerationServes
    BY DEF OneGenerationServes
  <2>1. ASSUME ~route_gate
        PROVE  /\ core_writer = active_core
               /\ \A r \in Relays : target[r] = active_core
               /\ generation = tag[active_core]
               /\ broadcaster[active_core] # "none"
    BY <2>1 DEF ServiceInv, RouteInv
  <2>2. ASSUME cutover.at = "idle", NEW c \in Cores, Alive(c)
        PROVE  c = active_core
    BY <2>2 DEF ServiceInv, RouteInv, StagingInv, Staging, Alive
  <2>3. QED
    BY <2>1, <2>2 DEF OneGenerationServes
<1>2. QED
  BY <1>1, ServiceHolds, PTL

\* A relay connection reaches the core browser traffic went to when it was
\* accepted: the accept loop reads its target under route_gate.
THEOREM RelaysFollowTheBrowser == Spec => []RelayMatchesBrowser
<1>1. Init => RelayMatchesBrowser
  BY DEF Init, RelayMatchesBrowser
<1>2. RelayMatchesBrowser /\ ServiceInv /\ [Next]_vars => RelayMatchesBrowser'
  <2> SUFFICES ASSUME RelayMatchesBrowser, ServiceInv, [Next]_vars PROVE RelayMatchesBrowser'
    OBVIOUS
  <2>1. ASSUME NEW r \in Relays, RelayAccepts(r) PROVE RelayMatchesBrowser'
    <3>1. target[r] = core_writer
      BY <2>1 DEF RelayAccepts, Running, ServiceInv, RouteInv
    <3>2. QED
      BY <2>1, <3>1 DEF RelayAccepts, RelayMatchesBrowser
  <2>2. CASE ~\E r \in Relays : RelayAccepts(r)
    <3>1. UNCHANGED pinned
      BY <2>2, Zenon DEF Next, vars, ClientStep, register_client, Disconnect, WriterTimesOut,
           forward_client_to_core, WriteTo, CoreStep, CoreReplies, CoreDies, BroadcasterStep,
           broadcast_core_to_clients, BroadcastEnds, CheckGeneration, SignalDone, BeforeSwap,
           BeginCutover, Captured, AbandonEarly, SpawnV2, ReplayAndHealthCheck, AbandonV2,
           perform_swap, BumpGeneration, StartBroadcast, SwapWriter, ActivateRelay, ReplaceCore,
           run_broker, TakeCore, Return, Returned
    <3>2. QED
      BY <3>1 DEF RelayMatchesBrowser
  <2>3. QED
    BY <2>1, <2>2
<1>3. QED
  BY <1>1, <1>2, ServiceHolds, PTL DEF Spec

\* The launcher signals and stops only after a core in service crashed, never
\* because a cutover killed the core it replaced or because a core it was
\* staging died: the broadcaster compares the generation it was started with.
THEOREM OnlyCrashesStop == Spec => []OnlyGenuineDeathStops
<1>1. ServiceInv => OnlyGenuineDeathStops
  BY DEF ServiceInv, DeathInv, SomeCrash, OnlyGenuineDeathStops
<1>2. QED
  BY <1>1, ServiceHolds, PTL

-----------------------------------------------------------------------------
(* The traffic: what is forwarded and what is fanned out.                  *)

trafficVars == <<inbound, outbound, painted, clients, seen, forwarding, said, inbox, routed>>

\* A forwarded message goes to a core no older than the ones before it.
LEMMA ForwardTraffic ==
    ASSUME RoutesOK, TrafficInv, NEW k \in Clients, forward_client_to_core(k)
    PROVE  TrafficInv'
<1> USE DEF TrafficInv, forward_client_to_core, WriteTo
<1>1. core_writer \in Cores /\ UNCHANGED core_writer
  BY DEF RoutesOK, routeVars
<1>2. TrafficOK'
  <2>1. said[k] + 1 \in Nat /\ said' \in [Clients -> Nat]
    BY DEF TrafficOK
  <2>2. Append(inbound[core_writer], <<k, said[k] + 1>>) \in Seq(Clients \X Nat)
    BY <1>1 DEF TrafficOK
  <2>3. inbound' \in [Cores -> Seq(Clients \X Nat)]
    BY <1>1, <2>2, Zenon DEF TrafficOK
  <2>4. routed' \in Seq(Cores)
    <3>1. Append(routed, core_writer) \in Seq(Cores)
      BY <1>1 DEF TrafficOK
    <3>2. QED
      BY <3>1, Zenon DEF TrafficOK
  <2>5. forwarding' \subseteq Clients
    BY DEF TrafficOK
  <2>6. QED
    BY <2>1, <2>3, <2>4, <2>5 DEF TrafficOK
<1>3. CASE UNCHANGED routed
  BY <1>1, <1>2, <1>3 DEF NeverBackToOldCore
<1>4. CASE routed' = Append(routed, core_writer)
  <2>1. /\ Len(routed) \in Nat /\ Len(routed') = Len(routed) + 1
        /\ DOMAIN routed = 1..Len(routed) /\ DOMAIN routed' = 1..(Len(routed) + 1)
        /\ routed'[Len(routed) + 1] = core_writer
        /\ \A i \in 1..Len(routed) : routed'[i] = routed[i] /\ routed[i] \in Int
    <3>1. routed \in Seq(Cores) /\ routed' \in Seq(Cores)
      BY <1>2 DEF TrafficOK
    <3>2. \A i \in 1..Len(routed) : routed[i] \in Int
      <4>1. \A i \in 1..Len(routed) : routed[i] \in Cores
        BY <3>1
      <4>2. QED
        BY <4>1 DEF Cores
    <3>3. QED
      BY <1>4, <3>2
  <2>2. \A i \in DOMAIN routed' : routed'[i] <= core_writer
    BY <1>1 DEF Cores
  <2>3. NeverBackToOldCore'
    BY DEF NeverBackToOldCore
  <2>4. QED
    BY <1>1, <1>2, <2>2, <2>3
<1>5. QED
  BY <1>3, <1>4

\* The first element of a sequence and the rest of it.
LEMMA HeadAndTail ==
    ASSUME NEW S, NEW s \in Seq(S), s # <<>>
    PROVE  Head(s) \in S /\ Tail(s) \in Seq(S)
OBVIOUS

\* A core's reply is a reply.
LEMMA ReplyTraffic ==
    ASSUME TrafficInv, NEW c \in Cores, CoreReplies(c)
    PROVE  TrafficInv'
<1> USE DEF TrafficInv, CoreReplies
<1>1. /\ Head(inbound[c]) \in Clients \X Nat
      /\ Tail(inbound[c]) \in Seq(Clients \X Nat)
      /\ painted[c] + 1 \in Nat
  <2>1. inbound[c] \in Seq(Clients \X Nat) /\ inbound[c] # <<>>
    BY Zenon DEF TrafficOK
  <2>2. painted[c] \in Nat
    BY Zenon DEF TrafficOK
  <2>3. QED
    BY <2>1, <2>2, HeadAndTail
<1>2. [to |-> Head(inbound[c]), core |-> c, frame |-> painted[c] + 1] \in Replies
  BY <1>1 DEF Replies
<1>3. outbound' \in [Cores -> Seq(Replies)]
  BY <1>2 DEF TrafficOK
<1>4. TrafficOK'
  BY <1>1, <1>3, Zenon DEF TrafficOK, clientVars
<1>5. QED
  BY <1>4 DEF NeverBackToOldCore, clientVars, routeVars

\* Fanning a reply out keeps the types.
LEMMA FanOutTraffic ==
    ASSUME TrafficInv, NEW c \in Cores, broadcast_core_to_clients(c)
    PROVE  TrafficInv'
<1> USE DEF TrafficInv, broadcast_core_to_clients
<1>1. Head(outbound[c]) \in Replies /\ Tail(outbound[c]) \in Seq(Replies)
  BY DEF TrafficOK
<1>2. inbox' \in [Clients -> Seq(Replies)]
  BY DEF TrafficOK
<1>3. TrafficOK'
  BY DEF TrafficOK
<1>4. QED
  BY <1>3 DEF NeverBackToOldCore, routeVars

\* Every step keeps the traffic invariant; the one that moves core_writer
\* moves it up.
LEMMA TrafficStep == ServiceInv /\ TrafficInv /\ [Next]_vars => TrafficInv'
<1> SUFFICES ASSUME ServiceInv, TrafficInv, [Next]_vars PROVE TrafficInv'
  OBVIOUS
<1>1. ASSUME UNCHANGED trafficVars, core_writer' \in Int, core_writer <= core_writer'
      PROVE  TrafficInv'
  <2>1. core_writer \in Int /\ \A i \in DOMAIN routed : routed[i] \in Int
    <3>1. core_writer \in Cores /\ routed \in Seq(Cores)
      BY DEF ServiceInv, RoutesOK, TrafficInv, TrafficOK
    <3>2. \A i \in DOMAIN routed : routed[i] \in Cores
      BY <3>1
    <3>3. QED
      BY <3>1, <3>2 DEF Cores
  <2>2. QED
    BY <1>1, <2>1 DEF TrafficInv, TrafficOK, NeverBackToOldCore, trafficVars
<1>2. core_writer \in Int
  BY DEF ServiceInv, RoutesOK, Cores
<1>3. ASSUME NEW k \in Clients, register_client(k) \/ Disconnect(k) \/ WriterTimesOut(k)
      PROVE  TrafficInv'
  BY <1>3, Zenon DEF register_client, Disconnect, WriterTimesOut, TrafficInv, TrafficOK,
       NeverBackToOldCore, coreVars, routeVars
<1>4. CASE ClientStep
  BY <1>3, <1>4, ForwardTraffic DEF ClientStep, ServiceInv
<1>5. ASSUME NEW c \in Cores, CoreDies(c) PROVE TrafficInv'
  BY <1>1, <1>2, <1>5 DEF CoreDies, trafficVars, clientVars, routeVars
<1>6. ASSUME NEW c \in Cores, BroadcasterStep(c) PROVE TrafficInv'
  <2>1. CASE BroadcastEnds(c) \/ CheckGeneration(c) \/ SignalDone(c)
    <3>1. UNCHANGED <<trafficVars, core_writer>>
      BY <2>1, Zenon DEF BroadcastEnds, CheckGeneration, SignalDone, trafficVars, coreVars,
           clientVars, routeVars
    <3>2. QED
      BY <1>1, <1>2, <3>1
  <2>2. QED
    BY <1>6, <2>1, FanOutTraffic DEF BroadcasterStep
<1>7. CASE BeforeSwap
  <2>1. CASE ReplayAndHealthCheck
    <3>1. UNCHANGED <<inbound, outbound, clients, seen, forwarding, said, inbox, routed, core_writer>>
      BY <2>1 DEF ReplayAndHealthCheck, clientVars, routeVars
    <3>2. painted' \in [Cores -> Nat]
      <4>1. PICK frames \in 0..1 : painted' = [painted EXCEPT ![cutover.v2] = frames]
        BY <2>1, Zenon DEF ReplayAndHealthCheck
      <4>2. frames \in Nat /\ painted \in [Cores -> Nat]
        BY DEF TrafficInv, TrafficOK
      <4>3. QED
        BY <4>1, <4>2, Zenon
    <3>3. QED
      BY <3>1, <3>2 DEF TrafficInv, TrafficOK, NeverBackToOldCore
  <2>2. CASE ~ReplayAndHealthCheck
    <3>1. UNCHANGED <<trafficVars, core_writer>>
      BY <1>7, <2>2, Zenon DEF BeforeSwap, BeginCutover, Captured, AbandonEarly, SpawnV2, AbandonV2,
           trafficVars, coreVars, clientVars, routeVars
    <3>2. QED
      BY <1>1, <1>2, <3>1
  <2>3. QED
    BY <2>1, <2>2
<1>8. CASE perform_swap
  <2>1. CASE SwapWriter
    <3>1. cutover.v2 \in Int /\ core_writer < cutover.v2
      BY <2>1 DEF SwapWriter, At, ServiceInv, StagingInv, Staging, RoutesOK, Cores
    <3>2. QED
      BY <1>1, <1>2, <2>1, <3>1 DEF SwapWriter, trafficVars, coreVars, clientVars
  <2>2. CASE ~SwapWriter
    <3>1. UNCHANGED <<trafficVars, core_writer>>
      BY <1>8, <2>2, Zenon DEF perform_swap, BumpGeneration, StartBroadcast, ActivateRelay, ReplaceCore,
           trafficVars, coreVars, clientVars, routeVars
    <3>2. QED
      BY <1>1, <1>2, <3>1
  <2>3. QED
    BY <2>1, <2>2
<1>9. CASE \/ \E r \in Relays : RelayAccepts(r)
           \/ run_broker \/ Returned \/ UNCHANGED vars
  <2>1. UNCHANGED <<trafficVars, core_writer>>
    BY <1>9, Zenon DEF RelayAccepts, run_broker, TakeCore, Return, Returned, vars, trafficVars, coreVars,
         clientVars, routeVars
  <2>2. QED
    BY <1>1, <1>2, <2>1
<1>10. QED
  BY <1>4, <1>5, <1>6, <1>7, <1>8, <1>9, ReplyTraffic DEF Next, CoreStep

\* At the start nothing has been forwarded.
LEMMA TrafficInit == Init => TrafficInv
<1> SUFFICES ASSUME Init PROVE TrafficInv
  OBVIOUS
<1>1. TrafficOK
  BY DEF Init, TrafficOK
<1>2. DOMAIN routed = {}
  BY DEF Init
<1>3. QED
  BY <1>1, <1>2 DEF TrafficInv, NeverBackToOldCore

\* Once a message has gone to a new core, no client's message goes to an older
\* one: forward_client_to_core looks core_writer up for every message.
THEOREM TrafficOnlyMovesOn == Spec => []NeverBackToOldCore
<1>1. TrafficInv => NeverBackToOldCore
  BY DEF TrafficInv
<1>2. QED
  BY <1>1, TrafficInit, TrafficStep, ServiceHolds, PTL DEF Spec

-----------------------------------------------------------------------------
(* The histories of the clients.                                           *)

\* Appending one reply to two histories keeps the shorter the newest part of
\* the longer.
LEMMA NewestAppend ==
    ASSUME NEW S, NEW s \in Seq(S), NEW t \in Seq(S), NEW e \in S, Newest(s, t)
    PROVE  Newest(Append(s, e), Append(t, e))
<1> DEFINE u == Append(s, e)
           v == Append(t, e)
<1>1. /\ Len(s) \in Nat /\ Len(t) \in Nat
      /\ Len(u) = Len(s) + 1 /\ Len(v) = Len(t) + 1
      /\ \A i \in 1..Len(s) : u[i] = s[i]
      /\ \A i \in 1..Len(t) : v[i] = t[i]
      /\ u[Len(s) + 1] = e /\ v[Len(t) + 1] = e
  OBVIOUS
<1> HIDE DEF u, v
<1>2. SUFFICES ASSUME Len(s) <= Len(t), NEW i \in 1..(Len(s) + 1)
               PROVE  u[i] = v[Len(t) - Len(s) + i]
  <2>1. Len(v) - Len(u) = Len(t) - Len(s) /\ (Len(u) <= Len(v) <=> Len(s) <= Len(t))
    BY <1>1
  <2>2. Newest(u, v)
    BY <1>1, <1>2, <2>1, Zenon DEF Newest
  <2>3. QED
    BY <2>2 DEF u, v
<1>3. CASE i = Len(s) + 1
  <2>1. Len(t) - Len(s) + i = Len(t) + 1
    BY <1>3
  <2>2. QED
    BY <1>1, <2>1
<1>4. CASE i \in 1..Len(s)
  <2>1. Len(t) - Len(s) + i \in 1..Len(t)
    BY <1>2, <1>4
  <2>2. s[i] = t[Len(t) - Len(s) + i]
    BY <1>2, <1>4 DEF Newest
  <2>3. u[i] = s[i]
    BY <1>1, <1>4
  <2>4. v[Len(t) - Len(s) + i] = t[Len(t) - Len(s) + i]
    BY ONLY <1>1, <2>1, Zenon
  <2>5. QED
    BY <2>2, <2>3, <2>4
<1>5. i = Len(s) + 1 \/ i \in 1..Len(s)
  OBVIOUS
<1>6. QED
  BY <1>3, <1>4

\* The newest part, as a subsequence.
LEMMA NewestSubSeq ==
    ASSUME NEW S, NEW s \in Seq(S), NEW t \in Seq(S), Newest(s, t), Len(s) <= Len(t)
    PROVE  s = SubSeq(t, Len(t) - Len(s) + 1, Len(t))
<1> DEFINE m == Len(t) - Len(s) + 1
           u == SubSeq(t, m, Len(t))
<1>1. Len(s) \in Nat /\ Len(t) \in Nat /\ m \in 1..(Len(t) + 1)
  OBVIOUS
<1>2. \A i \in m..Len(t) : t[i] \in S
  OBVIOUS
<1>3. /\ u \in Seq(S)
      /\ Len(u) = Len(s)
      /\ \A i \in 1..Len(s) : u[i] = t[m + i - 1]
  OBVIOUS
<1>4. \A i \in 1..Len(s) : s[i] = u[i]
  BY DEF Newest
<1> HIDE DEF u
<1>5. s = u
  <2>1. s = [i \in 1..Len(s) |-> s[i]] /\ u = [i \in 1..Len(s) |-> u[i]]
    BY <1>3
  <2>2. QED
    BY ONLY <1>4, <2>1, Zenon
<1>6. QED
  BY <1>5 DEF u

\* One reply goes to everyone whose writer is alive.
LEMMA FanOutHistory ==
    ASSUME TrafficOK, HistoryInv, NEW c \in Cores, broadcast_core_to_clients(c)
    PROVE  HistoryInv'
<1> USE DEF broadcast_core_to_clients, HistoryInv
<1>1. writing' = writing /\ seen' = seen /\ writing \subseteq clients' /\ clients \subseteq seen
  BY DEF TrafficOK
<1>2. ASSUME NEW k \in Clients, k \notin seen' PROVE inbox'[k] = <<>>
  BY <1>1, <1>2, Zenon
<1>3. Head(outbound[c]) \in Replies
  BY DEF TrafficOK
<1>4. ASSUME NEW k \in writing, NEW l \in writing
      PROVE  Newest(inbox[k], inbox[l])'
  <2>1. /\ inbox'[k] = Append(inbox[k], Head(outbound[c]))
        /\ inbox'[l] = Append(inbox[l], Head(outbound[c]))
        /\ inbox[k] \in Seq(Replies) /\ inbox[l] \in Seq(Replies)
        /\ Newest(inbox[k], inbox[l])
    BY DEF TrafficOK
  <2>2. Newest(inbox'[k], inbox'[l])
    BY <1>3, <2>1, NewestAppend, Zenon
  <2>3. QED
    BY <2>2, Zenon DEF Newest
<1>5. QED
  BY <1>1, <1>2, <1>4, Zenon

\* A client that registers has no history yet; nobody but the broadcasters
\* adds to one.
LEMMA HistoryStep == TrafficOK /\ HistoryInv /\ [Next]_vars => HistoryInv'
<1> SUFFICES ASSUME TrafficOK, HistoryInv, [Next]_vars PROVE HistoryInv'
  OBVIOUS
<1>1. ASSUME UNCHANGED <<seen, clients, inbox>>, writing' \subseteq writing
      PROVE  HistoryInv'
  BY <1>1, Zenon DEF HistoryInv, Newest
<1>2. ASSUME NEW k \in Clients, register_client(k) PROVE HistoryInv'
  <2>1. /\ k \notin seen /\ seen' = seen \cup {k} /\ clients' = clients \cup {k}
        /\ writing' = writing \cup {k} /\ inbox' = inbox
        /\ inbox[k] = <<>>
    BY <1>2 DEF register_client, HistoryInv
  <2>2. ASSUME NEW l \in writing'
        PROVE  Newest(inbox[k], inbox[l]) /\ Newest(inbox[l], inbox[k])
    <3>1. inbox[l] \in Seq(Replies) /\ Len(inbox[k]) = 0 /\ Len(inbox[l]) \in Nat
      BY <2>1 DEF HistoryInv, TrafficOK
    <3>2. QED
      BY <3>1 DEF Newest
  <2>3. \A l, m \in writing' : Newest(inbox[l], inbox[m])
    BY <2>1, <2>2 DEF HistoryInv
  <2>4. \A l, m \in writing' : Newest(inbox'[l], inbox'[m])
    BY <2>1, <2>3
  <2>5. (\A l, m \in writing : Newest(inbox[l], inbox[m]))'
    BY <2>4, Zenon DEF Newest
  <2>6. QED
    BY <2>1, <2>5 DEF HistoryInv
<1>3. CASE ClientStep
  <2>1. ASSUME NEW k \in Clients,
               Disconnect(k) \/ WriterTimesOut(k) \/ forward_client_to_core(k)
        PROVE  HistoryInv'
    BY <1>1, <2>1, Zenon DEF Disconnect, WriterTimesOut, forward_client_to_core, WriteTo
  <2>2. QED
    BY <1>2, <1>3, <2>1 DEF ClientStep
<1>4. CASE ~ClientStep /\ ~\E c \in Cores : broadcast_core_to_clients(c)
  <2>1. UNCHANGED <<seen, clients, inbox, writing>>
    BY <1>4, Zenon DEF Next, vars, clientVars, CoreStep, CoreReplies, CoreDies, BroadcasterStep,
         BroadcastEnds, CheckGeneration, SignalDone, BeforeSwap, BeginCutover, Captured,
         AbandonEarly, SpawnV2, ReplayAndHealthCheck, AbandonV2, perform_swap, BumpGeneration,
         StartBroadcast, SwapWriter, ActivateRelay, ReplaceCore, RelayAccepts, run_broker,
         TakeCore, Return, Returned
  <2>2. QED
    BY <1>1, <2>1
<1>5. QED
  BY <1>3, <1>4, FanOutHistory

\* Fan-out keeps every client on one history (broadcast_core_to_clients).
THEOREM ClientsShareOneHistory == Spec => []OneHistoryForAll
<1>1. Init => TrafficInv /\ HistoryInv
  BY TrafficInit DEF Init, HistoryInv
<1>2. TrafficInv => TrafficOK
  BY DEF TrafficInv
<1>3. TrafficOK /\ HistoryInv => OneHistoryForAll
  <2> SUFFICES ASSUME TrafficOK, HistoryInv, NEW k \in writing, NEW l \in writing,
                      Len(inbox[k]) <= Len(inbox[l])
               PROVE  inbox[k] = SubSeq(inbox[l], Len(inbox[l]) - Len(inbox[k]) + 1, Len(inbox[l]))
    BY Zenon DEF OneHistoryForAll
  <2>1. inbox[k] \in Seq(Replies) /\ inbox[l] \in Seq(Replies) /\ Newest(inbox[k], inbox[l])
    BY DEF TrafficOK, HistoryInv
  <2>2. QED
    BY <2>1, NewestSubSeq, Zenon
<1>4. QED
  BY <1>1, <1>2, <1>3, TrafficStep, HistoryStep, ServiceHolds, PTL DEF Spec
=============================================================================
