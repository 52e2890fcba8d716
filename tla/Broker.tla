------------------------------- MODULE Broker -------------------------------
(***************************************************************************)
(* blueice-launcher's broker (launcher/src/unix.rs and unix/relay.rs): one *)
(* core process shared by every external client, and the cutover that      *)
(* replaces it by a freshly spawned one while the clients stay connected.  *)
(*                                                                         *)
(* The threads: per client a forwarder (forward_client_to_core), per core  *)
(* a broadcaster (spawn_generation_tagged_broadcast), per stable endpoint  *)
(* a relay accept loop, one cutover at a time (cutover_lock), and          *)
(* run_broker itself.  A core is a number: 0 is the one the launcher       *)
(* starts with, n the one the n-th cutover attempt spawns.  What a core    *)
(* does with a message is reduced to the reply and frame it sends back;    *)
(* module Session is the whole of it, module TabReplay what a cutover      *)
(* carries over.                                                           *)
(***************************************************************************)
EXTENDS Integers, Sequences, FiniteSetsExt

CONSTANTS
    Clients,      \* external clients
    Relays,       \* the stable auxiliary endpoints (compiler MCP, debugger)
    MaxCores,     \* bound: cores spawned, the first one included
    MaxMessages   \* bound: messages each client sends

ASSUME BrokerAssumption == MaxCores \in Nat \ {0} /\ MaxMessages \in Nat

Cores == 0..(MaxCores - 1)
NoCore == -1

VARIABLES
    status,       \* per core: "unborn", "alive", "crashed" or "killed"
    tag,          \* per core: the generation its broadcaster carries
    inbound,      \* per core: client messages written to it and not yet read
    outbound,     \* per core: replies it wrote that are not yet broadcast
    painted,      \* per core: its own frame counter
    broadcaster,  \* per core: "none", "reading", "ended", "signalling", "gone"
    generation,   \* Broker::generation
    core_writer,  \* the core Broker::core_writer's stream leads to
    target,       \* per relay: the core new connections are pinned to
    route_gate,   \* whether a swap holds Broker::route_gate
    active_core,  \* Broker::active_core
    cutover,      \* where the cutover is: its step and the core it staged
    done,         \* signals sent on Broker::done
    broker,       \* run_broker: "running", "stopping" or "returned"
    connected,    \* clients with an open connection
    seen,         \* clients that ever connected
    clients,      \* Broker::clients: clients whose channel is in the list
    forwarding,   \* clients whose forwarder thread is alive
    writing,      \* clients whose writer thread is alive
    said,         \* per client: messages sent so far
    inbox,        \* per client: what was sent into its channel
    routed,       \* the core each forwarded message was written to, in order
    pinned        \* accepted relay connections: their core, and the browser's

coreVars == <<status, inbound, outbound, painted>>
threadVars == <<tag, broadcaster, done>>
routeVars == <<generation, core_writer, target, route_gate, active_core>>
clientVars == <<connected, seen, clients, forwarding, writing, said, inbox, routed>>
vars == <<coreVars, threadVars, routeVars, clientVars, cutover, broker, pinned>>

Running == broker # "returned"
Alive(c) == c # NoCore /\ status[c] = "alive"
Killed(c) == [status EXCEPT ![c] = IF @ = "alive" THEN "killed" ELSE @]

-----------------------------------------------------------------------------
(* Clients.                                                                *)

register_client(k) ==
    /\ Running
    /\ k \notin seen
    /\ seen' = seen \cup {k}
    /\ connected' = connected \cup {k}
    /\ clients' = clients \cup {k}
    /\ forwarding' = forwarding \cup {k}
    /\ writing' = writing \cup {k}
    /\ UNCHANGED <<said, inbox, routed, coreVars, threadVars, routeVars, cutover, broker, pinned>>

\* The client is gone: its forwarder reads an error and returns; its writer
\* thread drops the channel, which the next broadcast prunes.
Disconnect(k) ==
    /\ k \in connected
    /\ connected' = connected \ {k}
    /\ forwarding' = forwarding \ {k}
    /\ writing' = writing \ {k}
    /\ UNCHANGED <<seen, clients, said, inbox, routed, coreVars, threadVars, routeVars, cutover, broker, pinned>>

\* A client that stopped reading: a write to it took CLIENT_WRITE_TIMEOUT.  Its
\* writer thread returns; its connection and its forwarder stay.
WriterTimesOut(k) ==
    /\ Running
    /\ k \in writing
    /\ inbox[k] # <<>>
    /\ writing' = writing \ {k}
    /\ UNCHANGED <<connected, seen, clients, forwarding, said, inbox, routed,
                   coreVars, threadVars, routeVars, cutover, broker, pinned>>

\* One message written to core c; a failed write ends the forwarder.
WriteTo(c, k) ==
    /\ Running
    /\ k \in forwarding
    /\ said[k] < MaxMessages
    /\ said' = [said EXCEPT ![k] = @ + 1]
    /\ \/ /\ Alive(c)
          /\ inbound' = [inbound EXCEPT ![c] = Append(@, <<k, said[k] + 1>>)]
          /\ routed' = Append(routed, c)
          /\ UNCHANGED forwarding
       \/ /\ ~Alive(c)
          /\ forwarding' = forwarding \ {k}
          /\ UNCHANGED <<inbound, routed>>
    /\ UNCHANGED <<status, outbound, painted, connected, seen, clients, writing, inbox,
                   threadVars, routeVars, cutover, broker, pinned>>

\* Mutant: the forwarder may still hold a clone of the stream to the old core.
forward_stale(k) == \E c \in {core_writer, active_core} : WriteTo(c, k)

\* The stream is looked up in core_writer, locked, for each message.
forward_client_to_core(k) == WriteTo(core_writer, k)

-----------------------------------------------------------------------------
(* Cores and their broadcasters.                                           *)

\* A core handles a message and paints (modelled in full by Session).
CoreReplies(c) ==
    /\ Alive(c)
    /\ inbound[c] # <<>>
    /\ inbound' = [inbound EXCEPT ![c] = Tail(@)]
    /\ painted' = [painted EXCEPT ![c] = @ + 1]
    /\ outbound' = [outbound EXCEPT ![c] =
                      Append(@, [to |-> Head(inbound[c]), core |-> c, frame |-> painted[c] + 1])]
    /\ UNCHANGED <<status, threadVars, routeVars, clientVars, cutover, broker, pinned>>

\* The process dies on its own: a crash, or a client's Shutdown.
CoreDies(c) ==
    /\ Alive(c)
    /\ status' = [status EXCEPT ![c] = "crashed"]
    /\ UNCHANGED <<inbound, outbound, painted, threadVars, routeVars, clientVars, cutover, broker, pinned>>

\* Mutant: a reply goes only to the client that asked.
broadcast_to_sender(c) ==
    /\ Running
    /\ broadcaster[c] = "reading"
    /\ outbound[c] # <<>>
    /\ outbound' = [outbound EXCEPT ![c] = Tail(@)]
    /\ clients' = clients \cap writing
    /\ inbox' = [inbox EXCEPT ![Head(outbound[c]).to[1]] = Append(@, Head(outbound[c]))]
    /\ UNCHANGED <<status, inbound, painted, connected, seen, forwarding, writing, said, routed,
                   threadVars, routeVars, cutover, broker, pinned>>

\* One message fanned out with the list locked; a dead channel is pruned.
broadcast_core_to_clients(c) ==
    /\ Running
    /\ broadcaster[c] = "reading"
    /\ outbound[c] # <<>>
    /\ outbound' = [outbound EXCEPT ![c] = Tail(@)]
    /\ clients' = clients \cap writing
    /\ inbox' = [k \in Clients |->
                   IF k \in clients \cap writing
                   THEN Append(inbox[k], Head(outbound[c])) ELSE inbox[k]]
    /\ UNCHANGED <<status, inbound, painted, connected, seen, forwarding, writing, said, routed,
                   threadVars, routeVars, cutover, broker, pinned>>

\* The stream ended: the loop returns, with or without what was still in it.
BroadcastEnds(c) ==
    /\ Running
    /\ broadcaster[c] = "reading"
    /\ ~Alive(c)
    /\ broadcaster' = [broadcaster EXCEPT ![c] = "ended"]
    /\ UNCHANGED <<tag, done, coreVars, routeVars, clientVars, cutover, broker, pinned>>

\* Mutant: the end of any core's stream is taken for a fault.
CheckNothing(c) ==
    /\ Running
    /\ broadcaster[c] = "ended"
    /\ broadcaster' = [broadcaster EXCEPT ![c] = "signalling"]
    /\ UNCHANGED <<tag, done, coreVars, routeVars, clientVars, cutover, broker, pinned>>

\* Mutant: the comparison the wrong way round.
CheckInverted(c) ==
    /\ Running
    /\ broadcaster[c] = "ended"
    /\ broadcaster' = [broadcaster EXCEPT ![c] =
                         IF generation # tag[c] THEN "signalling" ELSE "gone"]
    /\ UNCHANGED <<tag, done, coreVars, routeVars, clientVars, cutover, broker, pinned>>

\* generation.load(...) == my_generation ?
CheckGeneration(c) ==
    /\ Running
    /\ broadcaster[c] = "ended"
    /\ broadcaster' = [broadcaster EXCEPT ![c] =
                         IF generation = tag[c] THEN "signalling" ELSE "gone"]
    /\ UNCHANGED <<tag, done, coreVars, routeVars, clientVars, cutover, broker, pinned>>

SignalDone(c) ==
    /\ Running
    /\ broadcaster[c] = "signalling"
    /\ broadcaster' = [broadcaster EXCEPT ![c] = "gone"]
    /\ done' = done + 1
    /\ UNCHANGED <<tag, coreVars, routeVars, clientVars, cutover, broker, pinned>>

-----------------------------------------------------------------------------
(* The cutover; cutover_lock admits one at a time.                         *)

At(step) == Running /\ cutover.at = step
Go(step) == cutover' = [cutover EXCEPT !.at = step]
Fail == cutover' = [at |-> "idle", v2 |-> NoCore]

\* capture_v1_tabs sends ListTabs through core_writer, as any client would.
BeginCutover ==
    /\ At("idle")
    /\ Alive(core_writer)
    /\ Go("capture")
    /\ UNCHANGED <<coreVars, threadVars, routeVars, clientVars, broker, pinned>>

\* The Tabs reply reaches the launcher's synthetic client by broadcast.
Captured ==
    /\ At("capture")
    /\ broadcaster[core_writer] = "reading"
    /\ Go("spawn")
    /\ UNCHANGED <<coreVars, threadVars, routeVars, clientVars, broker, pinned>>

\* TAB_CAPTURE_TIMEOUT ran out, or v2 did not start.
AbandonEarly ==
    /\ At("capture") \/ At("spawn")
    /\ Fail
    /\ UNCHANGED <<coreVars, threadVars, routeVars, clientVars, broker, pinned>>

Unborn == {c \in Cores : status[c] = "unborn"}

\* The v2 a cutover stages; its generation is one above the current one.
SpawnV2 ==
    /\ At("spawn")
    /\ Unborn # {}
    /\ LET v2 == Min(Unborn)
       IN  /\ status' = [status EXCEPT ![v2] = "alive"]
           /\ tag' = [tag EXCEPT ![v2] = generation + 1]
           /\ cutover' = [at |-> "replay", v2 |-> v2]
    /\ UNCHANGED <<inbound, outbound, painted, broadcaster, done, routeVars, clientVars, broker, pinned>>

\* replay_tabs and health_check succeed; the frames v2 paints for the replay
\* are read here and never broadcast.
ReplayAndHealthCheck ==
    /\ At("replay")
    /\ Alive(cutover.v2)
    /\ \E frames \in 0..1 : painted' = [painted EXCEPT ![cutover.v2] = frames]
    /\ Go("swap")
    /\ UNCHANGED <<status, inbound, outbound, threadVars, routeVars, clientVars, broker, pinned>>

\* Either fails: v2 is dropped, and SpawnedCore::drop kills it.
AbandonV2 ==
    /\ At("replay")
    /\ status' = Killed(cutover.v2)
    /\ Fail
    /\ UNCHANGED <<inbound, outbound, painted, threadVars, routeVars, clientVars, broker, pinned>>

\* perform_swap, one shared-state access at a time.
BumpGeneration ==
    /\ At("swap")
    /\ ~route_gate
    /\ route_gate' = TRUE
    /\ generation' = tag[cutover.v2]
    /\ Go("bumped")
    /\ UNCHANGED <<core_writer, target, active_core, coreVars, threadVars, clientVars, broker, pinned>>

StartBroadcast ==
    /\ At("bumped")
    /\ broadcaster' = [broadcaster EXCEPT ![cutover.v2] = "reading"]
    /\ Go("broadcasting")
    /\ UNCHANGED <<tag, done, coreVars, routeVars, clientVars, broker, pinned>>

SwapWriter ==
    /\ At("broadcasting")
    /\ core_writer' = cutover.v2
    /\ Go("written")
    /\ UNCHANGED <<generation, target, route_gate, active_core, coreVars, threadVars, clientVars, broker, pinned>>

ActivateRelay(r) ==
    /\ At("written")
    /\ target[r] # cutover.v2
    /\ target' = [target EXCEPT ![r] = cutover.v2]
    /\ UNCHANGED <<generation, core_writer, route_gate, active_core, cutover,
                   coreVars, threadVars, clientVars, broker, pinned>>

\* Mutant: the gate is released before every relay has moved.
ReplaceCoreEarly ==
    /\ At("written")
    /\ active_core' = cutover.v2
    /\ status' = IF active_core = NoCore THEN status ELSE Killed(active_core)
    /\ route_gate' = FALSE
    /\ Fail
    /\ UNCHANGED <<inbound, outbound, painted, generation, core_writer, target,
                   threadVars, clientVars, broker, pinned>>

\* active.replace(v2), the end of v1 and the release of the gate.
ReplaceCore ==
    /\ At("written")
    /\ \A r \in Relays : target[r] = cutover.v2
    /\ active_core' = cutover.v2
    /\ status' = IF active_core = NoCore THEN status ELSE Killed(active_core)
    /\ route_gate' = FALSE
    /\ Fail
    /\ UNCHANGED <<inbound, outbound, painted, generation, core_writer, target,
                   threadVars, clientVars, broker, pinned>>

-----------------------------------------------------------------------------
(* The relays and run_broker.                                              *)

\* Mutant: the target is read without the gate.
RelayAcceptsUngated(r) ==
    /\ Running
    /\ target[r] # NoCore
    /\ pinned' = pinned \cup {[core |-> target[r], browser |-> core_writer]}
    /\ UNCHANGED <<coreVars, threadVars, routeVars, clientVars, cutover, broker>>

\* A connection is accepted and its target read under the gate; without a
\* target it is shut down.
RelayAccepts(r) ==
    /\ Running
    /\ ~route_gate
    /\ target[r] # NoCore
    /\ pinned' = pinned \cup {[core |-> target[r], browser |-> core_writer]}
    /\ UNCHANGED <<coreVars, threadVars, routeVars, clientVars, cutover, broker>>

\* done_rx.recv() returned: the active core is taken and dropped.
TakeCore ==
    /\ broker = "running"
    /\ done > 0
    /\ broker' = "stopping"
    /\ active_core' = NoCore
    /\ status' = IF active_core = NoCore THEN status ELSE Killed(active_core)
    /\ UNCHANGED <<inbound, outbound, painted, generation, core_writer, target, route_gate,
                   threadVars, clientVars, cutover, pinned>>

\* The relays close and the process exits; a core that is left loses its
\* connection, which ends it.
Return ==
    /\ broker = "stopping"
    /\ broker' = "returned"
    /\ target' = [r \in Relays |-> NoCore]
    /\ status' = [c \in Cores |-> IF status[c] = "alive" THEN "killed" ELSE status[c]]
    /\ UNCHANGED <<inbound, outbound, painted, generation, core_writer, route_gate, active_core,
                   threadVars, clientVars, cutover, pinned>>

Returned == broker = "returned" /\ UNCHANGED vars

Init ==
    /\ status = [c \in Cores |-> IF c = 0 THEN "alive" ELSE "unborn"]
    /\ tag = [c \in Cores |-> 0]
    /\ inbound = [c \in Cores |-> <<>>]
    /\ outbound = [c \in Cores |-> <<>>]
    /\ painted = [c \in Cores |-> 0]
    /\ broadcaster = [c \in Cores |-> IF c = 0 THEN "reading" ELSE "none"]
    /\ generation = 0
    /\ core_writer = 0
    /\ target = [r \in Relays |-> 0]
    /\ route_gate = FALSE
    /\ active_core = 0
    /\ cutover = [at |-> "idle", v2 |-> NoCore]
    /\ done = 0
    /\ broker = "running"
    /\ connected = {} /\ seen = {} /\ clients = {}
    /\ forwarding = {} /\ writing = {}
    /\ said = [k \in Clients |-> 0]
    /\ inbox = [k \in Clients |-> <<>>]
    /\ routed = <<>>
    /\ pinned = {}

ClientStep ==
    \E k \in Clients :
        register_client(k) \/ Disconnect(k) \/ WriterTimesOut(k) \/ forward_client_to_core(k)

CoreStep == \E c \in Cores : CoreReplies(c) \/ CoreDies(c)

BroadcasterStep(c) ==
    \/ broadcast_core_to_clients(c) \/ BroadcastEnds(c)
    \/ CheckGeneration(c) \/ SignalDone(c)

BeforeSwap ==
    \/ BeginCutover \/ Captured \/ AbandonEarly
    \/ SpawnV2 \/ ReplayAndHealthCheck \/ AbandonV2

perform_swap ==
    \/ BumpGeneration \/ StartBroadcast \/ SwapWriter
    \/ \E r \in Relays : ActivateRelay(r)
    \/ ReplaceCore

run_broker == TakeCore \/ Return

Next ==
    \/ ClientStep
    \/ CoreStep
    \/ \E c \in Cores : BroadcasterStep(c)
    \/ BeforeSwap
    \/ perform_swap
    \/ \E r \in Relays : RelayAccepts(r)
    \/ run_broker
    \/ Returned

Spec == Init /\ [][Next]_vars

-----------------------------------------------------------------------------
(* Properties.                                                             *)

\* One generation boundary for everyone: outside the handoff, browser traffic,
\* every stable endpoint, the owned process and the generation number all name
\* the same core, whose broadcaster has been started; a cutover that fails has
\* changed none of them.  Between cutovers no other core process is left alive.
OneGenerationServes ==
    broker = "running" =>
        /\ ~route_gate =>
              /\ core_writer = active_core
              /\ \A r \in Relays : target[r] = active_core
              /\ generation = tag[active_core]
              /\ broadcaster[active_core] # "none"
        /\ cutover.at = "idle" => \A c \in Cores : Alive(c) => c = active_core

\* A compiler or debugger connection is pinned to the core that browser
\* traffic was going to when the connection was accepted.
RelayMatchesBrowser == \A p \in pinned : p.core = p.browser

\* Only the death of a core in service ends the launcher: a core that was put
\* in service died by itself and its broadcaster saw its stream end, and compared
\* the generations.  Neither the killing of a superseded core by a cutover nor the
\* death of a core that is still being staged does.
OnlyGenuineDeathStops ==
    done > 0 \/ broker # "running" =>
        \E c \in Cores : status[c] = "crashed" /\ broadcaster[c] \in {"signalling", "gone"}

\* Once one client's message has gone to a new core, nobody's message goes to
\* an older one.
NeverBackToOldCore ==
    \A i, j \in DOMAIN routed : i < j => routed[i] <= routed[j]

\* Fan-out keeps every client on one history: of two clients in the list, one
\* has what the other has, as the newest part of its own.
OneHistoryForAll ==
    \A k, l \in writing :
        Len(inbox[k]) <= Len(inbox[l]) =>
            inbox[k] = SubSeq(inbox[l], Len(inbox[l]) - Len(inbox[k]) + 1, Len(inbox[l]))

\* The frame generations a client receives only ever increase.
FrameGenerationsIncrease ==
    \A k \in Clients : \A i, j \in DOMAIN inbox[k] :
        i < j => inbox[k][i].frame < inbox[k][j].frame

\* The launcher does not outlive its core: once the core in service has died,
\* run_broker returns, or a cutover already under way puts a live core in its
\* place.  The swap and the threads run on; nothing is assumed of clients, of
\* the cores or of the earlier cutover steps.
Fairness ==
    /\ \A c \in Cores : WF_vars(BroadcasterStep(c))
    /\ WF_vars(perform_swap)
    /\ WF_vars(run_broker)

FairSpec == Spec /\ Fairness

CoreDeathIsNoticed ==
    (active_core # NoCore /\ ~Alive(active_core)) ~>
        (broker = "returned" \/ Alive(active_core))
=============================================================================
