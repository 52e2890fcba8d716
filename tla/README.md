# A TLA+ model of BlueIce

BlueIce is a browser split into processes. One `blueice-core` owns the tabs and
renders them; clients (a human's `frontend`, an AI's `mcp-server`) talk to it
over a Unix socket, usually through `blueice-launcher`, which shares one core
among all clients and can replace it while they stay connected. A gatekeeper
process reviews every navigation before it takes effect.

This directory models the part of that system whose correctness depends on
order: the core's session loop and the navigations it runs on threads, the
framing of messages on a socket, the launcher's broker and live cutover, the
process that runs page scripts and its calls into the core, the event loop, the
garbage-collected heap and the regular-expression helpers of the JavaScript
engine. TLC checks the models on small instances. For the session, the broker, the
tab replay, the page host, the framing and the regular-expression helpers, TLAPS
proves every safety property that the runs check, for every value of the
constants.

    tlc -workers 2 -config MCSession_safety.cfg MCSession    # one run
    tlapm NavigationProofs.tla                             # one module's proofs

`PROJECT.json` lists the components, runs, mutants, findings, hazards and
theorems, and maps each definition to the source lines it models.

## The system and what models it

Paths are below `src/backend/`.

| Part | Source | Module |
|---|---|---|
| Session loop, client messages, replies | `core/engine/src/session.rs` | `Session` |
| Tabs and the page state a message changes | `core/engine/src/tabs.rs`, `page.rs` | `TabManager` |
| Review, fetch and completion of a navigation | `core/engine/src/gatekeeper_client.rs`, `net/src/lib.rs` | `GatedFetch` |
| Frame files and their numbers | `ipc/src/shm.rs` | `FramePlane` |
| What a session promises about navigation | (abstract) | `Navigation` |
| Length-prefixed frames on a stream | `ipc/src/lib.rs` | `Framing` |
| Broker, broadcast, cutover, relays | `launcher/src/unix.rs`, `unix/relay.rs`, `unix/spawned_core.rs` | `Broker` |
| What a cutover carries over | `launcher/src/unix.rs` | `TabReplay` (two `TabManager`s) |
| DOM calls from page scripts to the core | `launcher/src/bluejs_host.rs`, `core/engine/src/script.rs`, `bin/blueice-core.rs` | `DomCalls` |
| Page-host process and the executor that drives it | `core/engine/src/script/javascript_child.rs` and below, `launcher/src/bluejs_host.rs` and below | `PageHost` (with `DomCalls`) |
| Promise records and the job queue | `bluejs/src/vm/builtins/promise_core.rs`, `promises.rs`, `vm/promise_reactions.rs` | `PromiseJobs` |
| Resolving functions, `then`, async functions, combinators | `promise_core.rs`, `promise_combinators.rs`, `execution/closures.rs` | `Promises` |
| Async generators | `vm/builtins/generators.rs`, `vm/modules.rs` | `AsyncGenerators` |
| Evaluation of a module graph | `vm/modules.rs`, `vm/modules/deferred.rs`, `vm/interpreter.rs` (await) | `ModuleEval` |
| Objects, generations, collections, budget | `bluejs/src/heap.rs`, `heap/` | `HeapObjects`, `Heap` |
| The collector's marking loops | `heap/lifecycle.rs` | `HeapMarking` |
| What the heap promises a program | (abstract) | `ObjectGraph` |
| Regular-expression helper processes | `bluejs/src/regex_worker.rs` | `RegexWorker` |

`MC*.tla` and the `.cfg` files instantiate them. The theorems are in
`SessionProofs`, `NavigationProofs` and `AnswerProofs` (about `Session`, each
extending the one before), `BrokerProofs`, `TabReplayProofs`, `PageHostProofs`,
`FramingProofs` and `RegexProofs`.

### Session

`Session` extends the three component modules and composes them. Its state is
the tab manager, the frame plane, the background threads and their channel, and
the loop's own `pc`, `pending_nav_seq` and `out` (everything written to the
connection). Each `ClientMessage` variant is one action that covers its whole
handler, down to the reply and the frame. The two script-report queries share
one action, as do the two ignored messages. Client messages are numbered as
they are read, and the number is the request id that the replies echo.

The loop reads one message or times out, applies every waiting completion, and
goes around. Threads run in between: `CheckUrl`, `fetch`, `CheckContent` and the
send are separate steps, so any two navigations interleave in any way. Any write
may fail, which ends the session with what was written before it. A gatekeeper
connection that fails at any point is the reply `Err`.

A page is its url, the request that loaded it (`by`, 0 for the blank page), its
size and its `view`: the rest of what is painted and interaction changes. Urls
are built-in, invalid or web urls. With `Scripting`, a page's listeners and
tasks may set the view of a page at the points where the code runs them.

### Framing

A byte is `<<frame, index>>`. The writer sends bytes in order; the reader takes
any non-empty piece of what has arrived, into the prefix buffer and then into
the body buffer. `polling` says whether the stream has a read timeout, as the
session's has; the launcher's and the clients' streams block.

### Broker and TabReplay

`Broker` has one step per access to shared state: a client's forwarder and
writer threads, each core's broadcaster (read, notice the end, compare the
generation, signal), a cutover from capture to swap with a failure possible at
every step, the relays' accept loops, and `run_broker`'s end. `perform_swap` is
split at each store, since other threads run between them. What a core does with
a message is one reply carrying one frame number.

`TabReplay` looks inside the two cores of a cutover: v1's tabs, which clients
keep changing, the captured list, and v2's tabs as the replay builds them.

### Page host

`PageHost` composes three parties. The session thread visits the tabs, closes
the realm of a replaced document, sends the new one to the child and then waits,
serving the child's DOM calls. The child's one thread installs a realm and runs
its scripts. The core's script-socket thread (`DomCalls`) serves one connection
at a time and hands each call to the session. The wait ends with the reply, the
child's death, its deadline, or a call past the allowance; all but the first
shut the stream down, which the child notices only when it writes. A document is
its tab and generation, a script is a sequence of DOM calls, and a call is a
write that names its document. A call comes back served or refused with an error
reply; the client gives its stream up in the second case, as it does when the
reply is not its own or does not come.

A control request (the closing of a realm, the realm accounting) is one step: the
child is taken to answer it. `ControlFindsChildIdle` says that nothing keeps it
from doing so. What remains is an assumption on its speed. `request()` runs under
the read timeout that the last wait left on the stream (`connection.rs:154`), with
none before the first wait, and when the timeout strikes it returns an error and
leaves the stream open (`connection.rs:56`), so that a late reply would be read by
the next request. `RealmsAreAccountedFor` and `EveryDocumentIsDecided` rest on the
same assumption.

### Event loop

`PromiseJobs` is the queue, the promise records and `resolve_promise`; the three
modules above it are what uses them. `vm` is one record, and each operation of
the engine is an operator from one `vm` to the next, so that a call made in the
middle of another is the composition of two operators. Where script code runs,
it may do anything the module's operations allow, which is a set of possible
results. `MCEventLoop` runs one of the three in each behaviour.

- In `Promises` scripts make promises, call resolving functions, `then`, async
  functions and combinators, and every handler may do so too.
- In `AsyncGenerators` the body returns, throws, yields, awaits or delegates as
  it likes, and may call its own generator.
- In `ModuleEval` the graph is any graph of three modules, with cycles, throwing
  bodies and top-level await; the first of them may defer its imports. One module
  may also await twice, or await inline: the frame is then no longer in module
  mode and the await is a loop that runs queued jobs inside the body, other
  modules' turns and the body's own `import()` among them. The evaluation
  operators are mutually recursive for this reason. An error of a turn ends that
  turn, with whatever it had taken off the lists; the engine's own error
  (`Unsupported`) ends a body without a record of it, and the body may be entered
  again. A debugger's pause of a module is not modelled.

### Heap

Every operation that the engine performs on the store is an action: it may
collect at its safepoint, be refused for want of room, or write and update the
accounts. Beside the heap, `graph` takes the same operations in `ObjectGraph`,
which has no collector: `HeapIsTheGraph` says the program can see no difference.
The further references of closures are kept in a table beside the objects, as in
the code: marking follows them, a write to them needs the barrier, and a sweep
drops them with their closure. The code has four such fields; the home object
stands for all. A cleanup job's holdings, which are reachable only from the job,
may become the caller's handle when the job is run.

Marking is the least closed set in `Heap`. `HeapMarking` has the two worklists of
the code and compares them with it on a family of heaps of four objects, two of
them weak collections, in every order in which ids can be popped; the comparison
does not depend on the behaviour, so the first state makes it. Each behaviour has plain objects and one other kind. A
record, property, entry, cell, parameter or export costs one unit, a string two.

### Regular-expression helpers

`RegexWorker` has the engine's threads, the pool, and for each helper the
parent's mirror, the I/O thread, its channels and the process with its caches. A
match is the pair of pattern and subject it was computed from, so that an answer
from the wrong cache shows. The helper may die at any point, and no fairness is
assumed of a match. The I/O thread passes a reply on as it is written, and the
announcement of a new helper is part of the wait for it. `MEMO_UNITS`, a second
bound of the memo, acts like a smaller `MEMO_ENTRIES` and is left out.

## Runs

| Run | Shows | States |
|---|---|---|
| `session_safety` | every message kind, no page scripts: review is fail-closed; a tab never goes back to an older document; a request is answered at most once; closed tabs stay silent; changes are painted; frames are numbered and retained; `Session` implements `Navigation` | 596,659 |
| `session_scripted` | every message kind with page scripts: every navigation is answered or moot | 33,218 |
| `pipes` | whole frames in, whole frames out, through every split into reads; a regular expression's answer is that of its own question, and every operation ends | 118,929 |
| `broker_routes` | one core serves outside the handoff; the death of a core in service is noticed, and nothing else stops the launcher; no core is left behind | 136,490 |
| `broker_clients` | across a cutover clients share one history and never fall back to the old core | 386,632 |
| `replay_tabs` | the replay rebuilds the captured tabs | 12,414 |
| `event_loop` | handlers run once and in order, adopted promises agree, combinators compute what they should; a generator's requests are settled in order by one continuation each; modules run once and after their dependencies, importers hear the truth, and in an acyclic graph nobody is left waiting, with the two exceptions below | 962,251 |
| `heap` | no collection is visible to the program, nothing dangles, the worklists mark what is live, a major collection keeps nothing else, and the accounts balance | 55,911 |
| `page_host` | the child is idle when the core asks it for a control reply; realms are current and accounted for; a DOM call is answered by its own reply and writes to its own document; every document is decided although scripts may run for ever | 555,720 |

Three further runs expect a violation. Each states what a comment in the
repository says and shows a behaviour of the code that disagrees; the findings
in `PROJECT.json` quote both.

| Run | The code's behaviour |
|---|---|
| `framing_abandoned` | a timeout between prefix and body loses the prefix |
| `broker_frames` | frame numbers start again after a cutover |
| `page_host_heard` | while one page's realm holds its script connection, another page's scripts are not served and time out |

The models have further behaviours that a reader of the code may not expect,
noted with the hazards. No run keeps their counterexamples; they show when a
property is stated without the restriction it has.

- A review without an answer never ends (`gatekeeper_client.rs:93`), so
  `EveryNavigationIsAnswered` assumes a gatekeeper that answers or hangs up.
- A snapshot carries the number of the last frame, whatever that frame shows
  (`session.rs:615`).
- A forwarder that met the dying old core is gone for good (`unix.rs:267`), and
  an old tab id may name another tab of the new core (`unix.rs:580`).
- A click's listener may change the page in a handler that then paints nothing
  (`session.rs:543`). `ChangeIsPainted` is checked without page scripts.
- Two modules of a cycle that both wait on a third, asynchronous one are never
  released (`modules.rs:1626`). `NobodyIsLeftWaiting` says nothing of graphs with
  cycles.
- An error ends a turn half way, and `NobodyIsLeftWaiting` says nothing of what
  follows. A released parent throws before the others were told
  (`modules.rs:1656`). Or a body awaits inline, its loop runs the turn of another
  module, and that module cannot be recorded because the graph's records are
  parked (`modules.rs:1542`): it stays suspended, its continuation is gone, and
  the body gets the engine's error. The tests know of it
  (`bluejs/tests/cov_g3_modules_link.rs:652`: "Known limitation: a module of the
  joined graph that awaits is resumed while the running graph's records are
  parked, and its resumption cannot find them"). Or the inline await finds the
  queue empty with its promise pending (`promise_core.rs:843`).
- An `import()` that runs inside such a body and names a module of the evaluation
  stack joins that module's waiters, and only a module that was suspended and is
  resumed or released tells them (`modules.rs:1564`, `:1658`): when it completes on
  the stack the promise stays pending. `NobodyIsLeftWaiting` excepts these promises.
  Such an import may also run a body whose own import is held up on the stack;
  `DependenciesFirst` excepts that import, as it excepts those of a cycle.
- A write to a mapped argument may be refused half way (`object_storage.rs:657`),
  which `HeapIsTheGraph` allows, and a namespace's exports are never given back
  (`core.rs:853`), which `AccountsBalance` counts apart.

### Bounds

- `MaxRequests` is 3 in the safety run. It takes one navigation, a second
  that supersedes it or a close, and a third that could be confused with either.
  Liveness is checked with 2: one navigation and what can cancel it.
- `MaxTabs` is 2: one default tab and one opened, so two tabs race.
- Web urls are interchangeable, so the session runs have one of them, beside a
  built-in and an invalid one.
- `Retained` is smaller than the code's 4, so that pruning happens within the
  frames a run can paint.
- `PrefixBytes` is 2, the least that can be split.
- `MaxCores` is 3 where routes are checked: a cutover, and a second one started
  from the state the first left, failed or not. It is 2 where messages are kept.
- `MaxMessages` is 1 or 2 a client, where there are clients.
- In the event loop, three promises and two `then` calls suffice for a promise
  that adopts another while a third waits on both, and for every combinator with
  two inputs; four requests of a generator for one running, one resumed by it
  and two queued; three modules for a cycle with a module outside it, or for a
  body that awaits inline between its importer and the module it meets there.
  Module 2 is the one that may, and module 3 the one it imports; graphs with such
  a body do not read deferred namespaces, which the others do. A
  behaviour ends when these are used up, so deadlock is not checked there.
- The heap has three objects, so a weak entry's key and value are distinct from
  its table; a nursery of two, which the third allocation finds full; and a
  budget of six units, which the writes to three objects reach. One object is
  rooted at a time, and two where a module namespace is filled in, because the
  linker holds both the namespace and the cell it exports.
- The page host has two tabs and room for one realm, so that documents compete
  for it, three documents a tab, two connections, two calls and an allowance of
  one, which the second call exceeds.
- `RegexWorker` has two threads, a pool of one and caches of one entry, so that
  a second entry evicts the first. Three calls are needed for a helper to be used,
  changed by another thread and used again. No further call is made after them,
  so deadlock is not checked.
- The `u64` counters (tab ids, sequence numbers, generations) are taken as
  unbounded. They cannot wrap in the life of a process.

### Fairness

`LocalFairness` is weak fairness of the session loop, of the fetch and of the
channel send. A read that finds nothing times out after `POLL_INTERVAL`, so the
loop comes round without a message. It assumes a client that finishes the message
it has begun and reads what it is sent: once part of a buffer has arrived a
timeout is retried (`ipc/src/lib.rs:437`), writes have no timeout, and a stream
whose timeout cannot be set is read blocking (`session.rs:478`). That a fetch
returns is an assumption on the network library.
`FairSpec` adds the gatekeeper, which answers or drops the connection. In
`Broker` the broadcasters, `perform_swap` and `run_broker` are weakly fair: each
is a thread with nothing to wait for. No fairness is assumed of clients, cores
or the steps of a cutover before the swap. In `PageHost` the session thread is
weakly fair, its deadlines included, and the child is not: its scripts may run
for ever. In `RegexWorker` the engine's threads, their deadlines and the I/O
threads are weakly fair, as is a helper that has read `Shutdown`; a helper that
is matching is not. `NobodyIsLeftWaiting` needs no fairness: it is an invariant of the
states in which no job is queued and no awaited promise is open.

## Proofs

All theorems are for arbitrary constants that satisfy the named assumptions:
numbers of tabs, cores, realms and the like are naturals, and positive where the
code needs one (`TabsAssumption`, `RetainedAssumption`, `SessionAssumption`,
`BrokerAssumption`, `PageHostAssumption`). Two say more. `FramingAssumption` has
frames with non-empty bodies: a body is the JSON text of a message.
`RegexAssumption` says that a pattern is valid or invalid and not both, and that
threads ask well-formed questions. The sets of clients, relays, urls, threads and
tabs may be infinite; the bounds of the runs play no part.

| Theorem | States | Inductive invariant |
|---|---|---|
| `TypeCorrect` | `TypeOK` | itself |
| `ReviewIsFailClosed` | `OnlyReviewedContent` | `ReviewInv` |
| `TabsNeverGoBack` | `DocumentsNeverGoBack` | `OrderInv` |
| `SessionImplementsNavigation` | `ImplementsNavigation` | `NavInv` |
| `RequestsAnsweredOnce` | `OneAnswerPerRequest` | `NavInv`, `AnswerInv` |
| `ClosedTabsStaySilent` | `ClosedTabIsSilent` | `AnswerInv`, `ClosedInv` |
| `FramesAreNumberedAndRetained` | `FramesNumberedAndRetained` | `AnswerInv`, `FrameInv` |
| `EveryChangeIsPainted` | `ChangeIsPainted`, if `~Scripting` | `NavInv` |
| `CutoverIsWhole` | `OneGenerationServes` | `ServiceInv` |
| `RelaysFollowTheBrowser` | `RelayMatchesBrowser` | `ServiceInv` |
| `OnlyCrashesStop` | `OnlyGenuineDeathStops` | `ServiceInv` |
| `TrafficOnlyMovesOn` | `NeverBackToOldCore` | `ServiceInv`, `TrafficInv` |
| `ClientsShareOneHistory` | `OneHistoryForAll` | `TrafficInv`, `HistoryInv` |
| `ReplayIsFaithful` | `ReplayReproducesTabs` | `ReplayInv` |
| `NoControlDeadlock` | `ControlFindsChildIdle` | `HostInv` |
| `RealmsMatchReceipts` | `RealmsAreAccountedFor` | `HostInv` |
| `RealmsMatchPages` | `RealmsAreCurrent` | `HostInv` |
| `CallsGetTheirReply` | `RepliesAnswerTheirCall` | `HostInv` |
| `ScriptsWriteTheirOwn` | `OnlyOwnScriptsWrite` | `HostInv` |
| `BlockingReaderGetsFrames` | `FramesIntact` | `StreamInv` |
| `AnswersAreTheirOwn` | `AnswersAreRight` | `RegexInv` |

**Session.** There is a lemma for each shared operator (`send_frame`,
`begin_gated_navigation`, `apply_completion`, the thread steps). One lemma,
`StepEffect`, then classifies every step by what it does to documents and
navigations: it changes no document and starts nothing (`Quiet`), it begins a
navigation (`Began`), it drains one completion, or it moves one thread. The
invariants of `NavigationProofs` are preserved by each of the four.

- What tabs show says nothing about navigations still running, so
  `OnlyReviewedContent` is strengthened to `ReviewInv`: a thread or completion
  past a stage had that stage cleared for its own request.
- `OrderInv`: the sequence numbers in flight never pass `pending_nav_seq`, one
  number of a tab stands for one request, and a current navigation is no older
  than the document of its tab.
- The refinement needs `FlightInv` as well: a request is carried by one thread or
  by one completion in the channel, never by both, and tab ids in flight were
  given out. The mapping sends a tab to the request that loaded its document and
  to the requests still pursued for it. Each of the four kinds of step is then a
  step of `Navigation` or a stutter.

`AnswerProofs` describes what one step writes (`Said`): up to two messages, on
behalf of one request, with frames numbered from the counter on. The other lemmas
follow from that description and not from the actions. `AnswerInv` adds that
nothing was written for a request not yet read, nor before the handshake; `ClosedInv` that a tab reported closed is not open and below the
next id; `FrameInv` that, until the session ends, every frame counted was
announced.

**Broker.** `ServiceInv` describes a cutover at each of its steps: the core it has
spawned is above every core in use and carries the next generation
(`StagingInv`), the routes already moved are those the order of the stores in
`perform_swap` allows (`RouteInv`), and until the broadcaster of a crashed core has
compared generations every killed core was superseded first (`DeathInv`). `TrafficInv` says nothing went to a core above the
current one; `HistoryInv` that, of the histories of two clients still served, one
is the newest part of the other.

**Tab replay.** `ReplayInv`: after each turn v2 has one tab per replayed url, in
the order of the capture, and the ids that go with it.

**Page host.** `HostInv` has four parts. `LineInv`: while the stream is up, the one
request of a wait is with the child, being run, or answered, and outside a wait
the child rests. `RealmInv`: the child's realms are the core's receipts, except for
the one document being synchronized. `PageInv`: tabs visited in this round have the
realm of the document they show. `StreamInv`: a realm's connection is its own, and
carries exactly the call the realm waits for: in the socket, with the worker, or
answered, always under the newest serial number.

**Framing.** `StreamInv`: the bytes on the wire are consecutive, start where the
reader stands and end with the last byte written. It is proved for a blocking
stream; with a read timeout it is false, which is the finding of
`framing_abandoned`.

**Regular expressions.** `RegexInv` says what a helper may be in at each step of the
operation that holds it. A pooled helper is quiet, and what the parent's mirror
says of a live one is what the process has cached. A helper that was asked has the
request with its I/O thread, with the process, lost with the process, answered or
given up, and the answer it gives is right if the mirror was. The memo's queue
lists the keys of its map, each once, and each result is the answer to its key.

### What is only model-checked

- Liveness (`EveryNavigationIsAnswered`, `FramesArrive`, `EveryOperationEnds`,
  `CoreDeathIsNoticed`, `EveryDocumentIsDecided`), which TLAPS does not prove under
  fairness.
- `AsyncGenerators`, `ModuleEval` and `HeapMarking` (`RequestsSettleInOrder`,
  `HeadHasOneContinuation`, `FinishedStaysFinished`, `DependenciesFirst`,
  `ImportsAgree`, `NobodyIsLeftWaiting`, `WorklistsMarkWhatIsLive`): their
  definitions are recursive operators, which the prover does not follow.
- `Promises` and `Heap` (`HandlersRunInOrder`, `AdoptionIsFaithful`,
  `CombinatorsAreRight`, `NothingDangles`, `HeapIsTheGraph`,
  `MajorKeepsOnlyReachable`, `AccountsBalance`). A step of either is a composition
  of operators on one large record, with folds and sums over it. What those compute
  is an induction over data.
- The three disagreements, which are counterexamples.

## Inventory: what is modelled in part or not at all

The session, the tab manager, the gatekeeper client, the frame plane, the
framing, the broker with its relays, the tab replay and the regular-expression
helpers are modelled in full. The rest of the repository:

| Component | Status | What, or why not |
|---|---|---|
| page | partly (`TabManager`, `Session`) | Loading, resizing and the interactions that repaint are the changes Session makes to a page record; layout, hit-testing and painting are pure functions of the document and are not modelled. |
| network fetch | partly (`GatedFetch`, `Session`) | fetch succeeds or fails and reports the requested url; url schemes are three classes of url. Origins and HTTP are not modelled. |
| launcher control protocol | not modelled | One request and one reply per connection; the Cutover request is Broker's BeginCutover. |
| fleet supervisor | not modelled | Registry of supervised processes and idle teardown under memory pressure. Planned next. |
| BlueJS page host | partly (`PageHost`, `DomCalls`) | synchronize, click dispatch, closing of realms, the realm accounting and the DOM client of each realm, with refusals, failed installations, timeouts and the death of the process. The mode for a debugger's execution control, the realm and program queries that only read, and the launcher's start of the process are not modelled. |
| gatekeeper process | partly (`GatedFetch`) | The client's view of it: any reply or failure at each stage, or no answer at all. The process itself answers Cleared to everything today. |
| MCP server | not modelled | send_and_drain's matching of broadcast replies to its own requests. Planned; the tool catalogue is I/O. |
| reference frontend | partly (`Broker`) | The frame numbers a frontend receives are the inbox of Broker's clients; window handling is GUI code. |
| extension host | not modelled | Capability enforcement for one extension. Planned. |
| out-of-process script executor | partly (`PageHost`) | The round over the tabs, document admission, the wait that serves DOM calls, its deadline and allowance, and what follows a lost stream. The debugger's deferral of execution is not modelled; reports are reduced to a document being decided. |
| page script dispatch | partly (`DomCalls`, `PageHost`, `Session`) | The channel from the script socket to the session thread, both pumps and the exact-document check. A DOM operation is a write to its document. The executors inside the core process are, in Session, changes that scripts may make to a page. |
| script resource authorizers | not modelled | Decide which sources a page script may load; policy on urls, without concurrency. |
| debugger routing | not modelled | Attach, pause and resume of page programs over the debugger endpoint. Planned. |
| compiler service | not modelled | Registered projects, catalogue generations and output staging. Planned. |
| owner bootstrap | not modelled | One-time secrets passed from the launcher to its children at start; a single exchange. |
| AI snapshot | partly (`Session`) | Which page state and generation a representation carries; the tree it builds is a pure function of the document. |
| BlueJS promises and async functions | partly (`PromiseJobs`, `Promises`) | Promise records, resolving functions, then, thenable adoption, the four combinators, await in async functions and the job queue. finally, species and subclass capabilities, the keyed combinators and thenables that are not promises are not modelled. |
| BlueJS async generators | partly (`AsyncGenerators`, `PromiseJobs`) | The request queue, every status, yields, awaits, returns and the delegation of yield*. What a body does between two suspensions is a free choice. Synchronous generators are not modelled. |
| BlueJS module evaluation | partly (`ModuleEval`, `PromiseJobs`) | Evaluation of a linked graph with cycles, errors, top-level await (suspended, repeated, or run as a loop of jobs inside the body), import() from scripts and from bodies, deferred imports, and the engine's own errors that end a turn. A debugger's pause, loading, linking, the resolution of exports and the building of namespaces are not modelled. |
| BlueJS heap and collector | partly (`HeapObjects`, `ObjectGraph`, `Heap`, `HeapMarking`) | Allocation, properties, mapped arguments, prototypes, module namespaces, the metadata table of closures, weak collections, weak references, finalization registries with the holdings of their cleanup jobs, roots, the write barrier, both collections and the byte budget. Of the other object kinds (Map, Set, proxies, typed arrays, private elements) none adds a new relation to the collector; they are not modelled. |
| BlueJS parser, compiler and built-ins | not modelled | Most of the engine's 126,000 lines: sequential functions of their input, whose reference is the ECMAScript standard and its conformance suite rather than a property of this code. |
| BlueJS page runtime | partly (`DomCalls`, `PageHost`) | Opening, replacing and closing a realm, as the page host uses them. Running a program in a realm is a sequence of DOM calls. |
| BlueTS compiler | not modelled | A sequential compiler: its output is a function of its input, too large for TLC. |
| BlueTS to BlueJS lowering | not modelled | Sequential lowering of checked programs. |
| HTML, CSS, DOM, layout, paint, raster, font | not modelled | Pure functions from text to pixels, without concurrency or persistent state. |
| ECMA-402 | not modelled | Locale data and formatting: pure functions over tables. |
| i18n | not modelled | Message catalogue lookup. |
| core process entry point | partly (`Session`, `DomCalls`) | One connection is accepted and its session is the process's life (Session's Init and Ended); the script listener's thread is DomCalls' worker. Argument parsing and the other auxiliary listeners are I/O. |
| test support | not modelled | Helpers of the repository's own tests. |

Measured in lines, the models stand for a small share of the repository. Most of
it is the JavaScript engine's parser, compiler and built-ins, the TypeScript
compiler, the layout engine and locale tables. These are sequential functions of
their input with standards and conformance suites of their own; a model of them
would repeat the code, and no interleaving or bounded instance would teach
anything a test does not.

## Plan

| Module | Source | Composition and abstract specification | Questions |
|---|---|---|---|
| `McpDrain` | `mcp-server/src/unix.rs` | over a broadcast connection as `Broker` fans it out | whose reply a call returns: two servers number their requests alike, an error without a request id passes for one's own, and a call on an unknown tab waits for ever |
| `Supervisor` | `launcher/src/supervisor.rs`, `memory_pressure.rs` | on its own | no busy or resident process is torn down; a dead one is noticed |
| `Debugger` | `core/engine/src/debugger.rs` | with `PageHost`'s execution control | a paused program is resumed or its session ends; stale handles are refused |
| `CompilerService` | `core/engine/src/compiler_service.rs`, `compiler_ipc.rs` | catalogue as an atomic snapshot | a reader sees one catalogue generation; staged output is published whole or not at all |
| `Extension` | `extension/src/lib.rs` | on its own | no call without the capability it needs |
