---------------------------------- MODULE Heap ----------------------------------
(***************************************************************************)
(* The garbage-collected object store of BlueJS: backend/bluejs/src/heap/  *)
(* lifecycle.rs, core.rs, object_storage.rs and exotic.rs.                 *)
(*                                                                         *)
(* heap is the struct Heap:                                                *)
(*   objects     the objects in the table, by serial number                *)
(*   metadata    closure_metadata: the further references of some closures,*)
(*               in a table of their own (home, fields, with objects and   *)
(*               new.target come and go alike; home stands for them)       *)
(*   nursery, remembered, managed, nextMajor   as in the code              *)
(*   rooted      the root registrations                                    *)
(*   scoped      the batch of temporary roots of the safepoint             *)
(*   next        the next serial number; serials are never reused          *)
(*   orphaned    bytes in the total that no object accounts for (a history *)
(*               of the model, not a field of the code)                    *)
(* handle is an ObjectId in a local of the caller, which is not a root.    *)
(* graph is the ObjectGraph that the same operations make, beside the heap *)
(* and without looking at it; it loses what the program cannot name.       *)
(* Every record, metadata included, and every property, entry, cell and    *)
(* export costs one unit, a string one more.                               *)
(***************************************************************************)
EXTENDS ObjectGraph, FiniteSetsExt, TLC

CONSTANTS MaxRoots,         \* root registrations at a time
          MaxCells,         \* cells of a registry
          Kinds,            \* the kinds of object programs use
          NurseryCapacity, MajorThreshold, MaxHeap

ASSUME ConfigIsValid ==
    /\ NurseryCapacity \in Nat \ {0}
    /\ MajorThreshold \in Nat \ {0}
    /\ MaxHeap \in Nat /\ MajorThreshold <= MaxHeap

VARIABLES heap, handle, outcome,
          uses              \* the kind of object the program allocates beside plain ones

vars == <<heap, handle, outcome, uses, graph>>

Live(h) == DOMAIN h.objects

(* What mark follows from an object: its references and its metadata's.     *)
Edges(h, o) ==
    References(h.objects[o]) \cup IF o \in DOMAIN h.metadata THEN h.metadata[o] ELSE {}

(* The objects with their metadata, as a program sees them.                 *)
Whole(h) ==
    [o \in Live(h) |->
        IF o \in DOMAIN h.metadata THEN [h.objects[o] EXCEPT !.links = h.metadata[o]]
        ELSE h.objects[o]]

(***************************************************************************)
(* mark.                                                                   *)
(***************************************************************************)
(* What a minor collection takes for alive without looking.                 *)
Tenured(h, youngOnly, o) == youngOnly /\ o \in Live(h) /\ ~h.objects[o].young

\* Mutant: a minor collection does not look at the remembered set.
StartingPointsOfRoots(h, youngOnly, protected) ==
    Range(h.rooted) \cup (h.scoped \cap Live(h)) \cup protected

StartingPoints(h, youngOnly, protected) ==
    Range(h.rooted) \cup (h.scoped \cap Live(h)) \cup protected
      \cup IF youngOnly THEN UNION {Edges(h, o) : o \in h.remembered} ELSE {}

(* A set of objects the worklists of mark could stop at: it has the         *)
(* starting points, what its members refer to, and the value of every entry *)
(* whose table and key are alive.                                           *)
Closed(h, youngOnly, start, set) ==
    LET alive(o) == o \in set \/ Tenured(h, youngOnly, o)
    IN  /\ \A o \in start : alive(o)
        /\ \A o \in set : \A r \in Edges(h, o) : alive(r)
        /\ \A t \in Live(h) : alive(t) =>
              \A e \in h.objects[t].entries :
                  alive(e.key) => \A v \in ObjectIds(e.value) \cap Live(h) : alive(v)

Mark(h, youngOnly, protected) ==
    LET start == StartingPoints(h, youngOnly, protected)
        candidates == {o \in Live(h) : ~Tenured(h, youngOnly, o)}
        certain == candidates \cap start
        closed == {more \in SUBSET (candidates \ start) :
                      Closed(h, youngOnly, start, certain \cup more)}
    IN  {o \in candidates : o \in certain \/ \A more \in closed : o \in more}

(***************************************************************************)
(* The collections.                                                        *)
(***************************************************************************)
Trigger(managed) == Min({Max({2 * managed, MajorThreshold}), MaxHeap})

Cost(value) ==
    CASE value = Absent -> 0
      [] value = Text -> 2
      [] OTHER -> 1

(* What the accounting rules charge an object.                              *)
Charge(object) ==
    1 + Cost(object.value) + Cardinality(object.entries) + Len(object.cells)
      + (IF object.kind = "arguments" THEN 1 ELSE 0)
      + (IF object.kind = "namespace" THEN Cardinality(object.links) ELSE 0)

\* Mutant: the targets of registry cells are not cleared.
SweepWeakKeepingTargets(object, gone) ==
    LET kept == {e \in object.entries : e.key \notin gone}
    IN  [object EXCEPT !.entries = kept, !.bytes = @ - Cardinality(object.entries \ kept)]

\* Mutant: the bytes of a dropped entry stay charged.
SweepWeakKeepingBytes(object, gone) ==
    [object EXCEPT !.entries = {e \in @ : e.key \notin gone},
                   !.target = IF @ \in gone THEN None ELSE @]

SweepWeak(object, gone) ==
    LET kept == {e \in object.entries : e.key \notin gone}
    IN  [object EXCEPT
            !.entries = kept,
            !.bytes = @ - Cardinality(object.entries \ kept),
            !.target = IF @ \in gone THEN None ELSE @,
            !.cells = [i \in DOMAIN @ |->
                          [@[i] EXCEPT !.target = IF @ \in gone THEN None ELSE @]]]

(* Clears the weak edges to what is gone, takes the objects that are gone   *)
(* out of the table and their bytes out of the total, and promotes every    *)
(* young object that is left.  A weak entry is dropped even from a table    *)
(* that goes in the same sweep, so its bytes leave the total once.  The     *)
(* metadata of a closure goes with it, and its bytes on their own.          *)
Sweep(h, gone) ==
    LET swept == [o \in Live(h) |-> [SweepWeak(h.objects[o], gone) EXCEPT !.young = FALSE]]
        dead == Live(h) \cap gone
        dropped(o) == h.objects[o].bytes - swept[o].bytes
        namespaces == {o \in dead : h.objects[o].kind = "namespace"}
        metadata == DOMAIN h.metadata \ gone
    IN  [h EXCEPT !.objects = [o \in Live(h) \ dead |-> swept[o]],
                  !.managed = @ - MapThenSumSet(dropped, Live(h))
                                - MapThenSumSet(LAMBDA o : swept[o].bytes, dead)
                                - Cardinality(DOMAIN h.metadata \ metadata),
                  !.metadata = Restrict(@, metadata),
                  !.orphaned = @ + MapThenSumSet(LAMBDA o : Cardinality(h.objects[o].links),
                                                 namespaces),
                  !.nursery = {},
                  !.remembered = {}]

MinorGc(h, protected) ==
    Sweep(h, h.nursery \ Mark(h, TRUE, protected))

\* Mutant: a major collection sweeps the nursery only.
MajorGcOfNursery(h, protected) ==
    LET swept == Sweep(h, h.nursery \ Mark(h, FALSE, protected))
    IN  [swept EXCEPT !.nextMajor = Trigger(swept.managed)]

(* A major collection sets the trigger of the next one.                     *)
Retrigger(swept) == [swept EXCEPT !.nextMajor = Trigger(swept.managed)]

MajorGc(h, protected) == Retrigger(Sweep(h, Ids \ Mark(h, FALSE, protected)))

(* The growth is admitted unless it crosses the ceiling.                    *)
Admit(h, additional) ==
    [heap |-> h, ok |-> additional = 0 \/ h.managed + additional <= MaxHeap]

(* ensure_room: a growth that reaches the trigger collects, one that still  *)
(* crosses the ceiling afterwards is refused.                               *)
EnsureRoom(h, additional, protected) ==
    Admit(IF additional > 0 /\ h.managed + additional >= h.nextMajor
          THEN MajorGc(h, protected)
          ELSE h, additional)

WriteBarrier(h, owner, targets) ==
    IF ~h.objects[owner].young /\ \E t \in targets : h.objects[t].young
    THEN [h EXCEPT !.remembered = @ \cup {owner}]
    ELSE h

(***************************************************************************)
(* The operations.  Each gives the heap and its outcome: ok, or the budget *)
(* error, limit; half is the budget error of the second of two writes.     *)
(***************************************************************************)
Fails(h) == [heap |-> h, status |-> "limit"]
Succeeds(h) == [heap |-> h, status |-> "ok"]

(* Adds growth bytes to an object and to the total.                         *)
Grow(h, o, growth) ==
    [h EXCEPT !.objects[o].bytes = @ + growth, !.managed = @ + growth]

FreshObject(kind, proto, links, target, bytes) ==
    [kind |-> kind, proto |-> proto, value |-> Absent, links |-> links, entries |-> {},
     target |-> target, cells |-> <<>>, young |-> TRUE, bytes |-> bytes]

(* A weak target is not among the references alloc protects.                *)
AllocObject(h, kind, proto, links, target) ==
    LET protected == Some(proto) \cup links
        bytes == 1 + Cardinality(links)
        minor == IF Cardinality(h.nursery) >= NurseryCapacity THEN MinorGc(h, protected) ELSE h
        room == EnsureRoom(minor, bytes, protected)
        id == room.heap.next
    IN  IF ~room.ok
        THEN Fails(room.heap)
        ELSE Succeeds([room.heap EXCEPT
                 !.objects = (id :> FreshObject(kind, proto, links, target, bytes)) @@ @,
                 !.nursery = @ \cup {id},
                 !.managed = @ + bytes,
                 !.next = @ + 1])

(* The write, once there is room for it or not.                             *)
Store(room, o, value, growth) ==
    IF ~room.ok
    THEN Fails(room.heap)
    ELSE Succeeds([Grow(WriteBarrier(room.heap, o, ObjectIds(value)), o, growth)
                      EXCEPT !.objects[o].value = value])

(* set_key, up to the mapped cell.                                          *)
SetOwn(h, o, value) ==
    LET old == Cost(h.objects[o].value)
        new == Cost(value)
        growth == IF new > old THEN new - old ELSE 0
    IN  Store(EnsureRoom(h, growth, {o} \cup ObjectIds(value)), o, value, new - old)

(* set_key: a write to a mapped property of an arguments object goes on to  *)
(* the parameter cell.                                                      *)
SetKey(h, o, value) ==
    LET mapped == IF h.objects[o].kind = "arguments" THEN h.objects[o].links ELSE {}
        own == SetOwn(h, o, value)
        through == SetOwn(own.heap, CHOOSE c \in mapped : TRUE, value)
    IN  IF own.status = "limit" \/ mapped = {}
        THEN own
        ELSE IF through.status = "ok" THEN through ELSE [through EXCEPT !.status = "half"]

DeleteKey(h, o) ==
    [Grow(h, o, -Cost(h.objects[o].value)) EXCEPT
        !.objects[o].value = Absent,
        !.objects[o].links = {}]

(* alloc_module_namespace with no exports: the object, then its             *)
(* Symbol.toStringTag.                                                      *)
AllocModuleNamespace(h) ==
    LET made == AllocObject(h, "namespace", None, {}, None)
    IN  IF made.status = "ok" THEN SetOwn(made.heap, h.next, Text) ELSE made

(* initialize_module_namespace charges the exports to the total and not to  *)
(* the namespace.                                                           *)
InitializeModuleNamespace(h, namespace, exports) ==
    LET room == EnsureRoom(h, Cardinality(exports), {namespace})
    IN  IF ~room.ok
        THEN Fails(room.heap)
        ELSE Succeeds([WriteBarrier(room.heap, namespace, exports) EXCEPT
                 !.objects[namespace].links = exports,
                 !.managed = @ + Cardinality(exports)])

(* set_closure_home, after ensure_closure_metadata: only the first use      *)
(* makes and charges the record.                                            *)
SetClosureHome(h, closure, home) ==
    LET growth == IF closure \in DOMAIN h.metadata THEN 0 ELSE 1
        room == EnsureRoom(h, growth, {closure, home})
    IN  IF ~room.ok
        THEN Fails(room.heap)
        ELSE Succeeds([WriteBarrier(room.heap, closure, {home}) EXCEPT
                 !.metadata = (closure :> {home}) @@ @,
                 !.managed = @ + growth])

(* weak_collection_set inserts the table into the remembered set whatever   *)
(* its age.                                                                 *)
WeakCollectionSet(h, table, key, value) ==
    LET old == {e \in h.objects[table].entries : e.key = key}
        growth == 1 - Cardinality(old)
        room == EnsureRoom(h, growth, {table, key} \cup ObjectIds(value))
    IN  IF ~room.ok
        THEN Fails(room.heap)
        ELSE Succeeds([Grow(room.heap, table, growth) EXCEPT
                 !.objects[table].entries = (@ \ old) \cup {[key |-> key, value |-> value]},
                 !.remembered = @ \cup {table}])

WeakCollectionDelete(h, table, key) ==
    LET old == {e \in h.objects[table].entries : e.key = key}
    IN  [Grow(h, table, -Cardinality(old)) EXCEPT !.objects[table].entries = @ \ old]

RegistryRegister(h, registry, cell) ==
    LET held == ObjectIds(cell.holdings)
        room == EnsureRoom(h, 1, {registry, cell.target} \cup held \cup Some(cell.token))
    IN  IF ~room.ok
        THEN Fails(room.heap)
        ELSE Succeeds([Grow(WriteBarrier(room.heap, registry, held), registry, 1)
                          EXCEPT !.objects[registry].cells = Append(@, cell)])

KeepCells(h, o, kept) ==
    [Grow(h, o, Len(kept) - Len(h.objects[o].cells)) EXCEPT !.objects[o].cells = kept]

RegistryUnregister(h, registry, token) ==
    KeepCells(h, registry,
              SelectSeq(h.objects[registry].cells, LAMBDA cell : cell.token # token))

(* take_finalization_registry_cleanup_jobs: every registry hands over the   *)
(* cells whose target was collected.                                        *)
TakeCleanupJobs(h) ==
    FoldSet(LAMBDA o, acc :
                KeepCells(acc, o, SelectSeq(acc.objects[o].cells,
                                            LAMBDA cell : cell.target # None)),
            h, Live(h))

SetPrototype(h, o, proto) ==
    [WriteBarrier(h, o, Some(proto)) EXCEPT !.objects[o].proto = proto]

(***************************************************************************)
(* The steps of a program.  It works on the objects it can name from its   *)
(* roots and on the one it holds.  Most operations run inside with_roots,  *)
(* which pushes what the virtual machine holds, dead or alive.             *)
(***************************************************************************)
EmptyHeap ==
    [objects |-> <<>>, metadata |-> <<>>, nursery |-> {}, remembered |-> {}, rooted |-> <<>>, scoped |-> {},
     managed |-> 0, nextMajor |-> MajorThreshold, orphaned |-> 0, next |-> 1]

Init ==
    /\ heap = EmptyHeap /\ graph = <<>>
    /\ handle = None /\ outcome = "ok"
    /\ uses \in Kinds

HeldIn(h, id) == IF id \in Live(h) THEN id ELSE None
Named == DOMAIN graph
Of(kind) == {o \in Named : graph[o].kind = kind}
Writable == Of("plain") \cup Of("arguments")
Refs == {Ref(o) : o \in Named}

(* What a program writes besides references, and the prototypes it gives.   *)
Values == Refs \cup IF uses = "arguments" THEN {Text} ELSE {}
Prototypes == {None} \cup IF uses = "plain" THEN Named ELSE {}

(* The heap, the id in the caller's hands, what the program makes of the    *)
(* operation, the object it is sure to hold, and the outcome.               *)
Finish(h, id, objects, held, how) ==
    /\ heap' = [h EXCEPT !.scoped = {}]
    /\ handle' = id
    /\ graph' = Seen(objects, h.rooted, held)
    /\ outcome' = how
    /\ UNCHANGED uses

(* An operation that cannot collect.                                        *)
Done(h, objects) == Finish(h, handle, objects, HeldIn(heap, handle), "ok")

(* Inside with_roots what the caller holds is safe; outside it, it is gone  *)
(* if a collection found no other reference to it.                          *)
Safe(batch, h) == IF batch # {} THEN HeldIn(heap, handle) ELSE HeldIn(h, handle)

Batches == {{}, Some(handle)}
Pushed(batch) == [heap EXCEPT !.scoped = batch]

WithRoots(batch, result, objects) ==
    Finish(result.heap, handle, objects, Safe(batch, result.heap), result.status)

New(batch, result, object) ==
    IF result.status = "ok"
    THEN Finish(result.heap, heap.next, Created(heap.next, object), heap.next, "ok")
    ELSE WithRoots(batch, result, graph)

NewObject(kind, proto, links, target) ==
    \E batch \in Batches :
      \E result \in {AllocObject(Pushed(batch), kind, proto, links, target)} :
        New(batch, result, FreshObject(kind, proto, links, target, 0))

Alloc ==
    /\ heap.next <= MaxObjects
    /\ \/ \E proto \in Prototypes : NewObject("plain", proto, {}, None)
       \/ /\ uses \in {"weakmap", "registry"}
          /\ \A o \in Live(heap) : heap.objects[o].kind # uses
          /\ NewObject(uses, None, {}, None)
       \/ uses = "closure" /\ NewObject(uses, None, {}, None)
       \/ uses = "arguments" /\ \E cell \in Of("plain") : NewObject(uses, None, {cell}, None)
       \/ uses = "weakref" /\ \E target \in Named : NewObject(uses, None, {}, target)
       \/ /\ uses = "namespace"
          /\ \E batch \in Batches :
               \E result \in {AllocModuleNamespace(Pushed(batch))} :
                 New(batch, result, [FreshObject(uses, None, {}, None, 0) EXCEPT !.value = Text])

Set ==
    \E o \in Writable, value \in Values, batch \in Batches :
      \E result \in {SetKey(Pushed(batch), o, value)} :
        WithRoots(batch, result,
                  CASE result.status = "ok" -> WrittenThrough(o, value)
                    [] result.status = "half" -> Written(o, value)
                    [] OTHER -> graph)

Delete ==
    \E o \in Writable :
        /\ uses \in {"plain", "arguments"}
        /\ Done(DeleteKey(heap, o), Erased(o))

ChangePrototype ==
    \E o \in Writable, proto \in Prototypes :
        /\ uses = "plain"
        /\ proto # None => o \notin Ancestors(heap.objects, proto)
        /\ Done(SetPrototype(heap, o, proto), Inheriting(o, proto))

(* The linker roots the placeholder and its cells before it fills it in.    *)
InitializeNamespace ==
    \E o \in Of("namespace") \cap Range(heap.rooted),
       cell \in Of("plain") \cap Range(heap.rooted) :
        /\ heap.objects[o].links = {}
        /\ \E batch \in Batches :
             \E result \in {InitializeModuleNamespace(Pushed(batch), o, {cell})} :
               WithRoots(batch, result,
                         IF result.status = "ok" THEN Exporting(o, {cell}) ELSE graph)

SetHome ==
    \E o \in Of("closure"), home \in Named, batch \in Batches :
      \E result \in {SetClosureHome(Pushed(batch), o, home)} :
        WithRoots(batch, result, IF result.status = "ok" THEN Housed(o, home) ELSE graph)

WeakSet ==
    \E table \in Of("weakmap"), key \in Named, value \in Refs, batch \in Batches :
      \E result \in {WeakCollectionSet(Pushed(batch), table, key, value)} :
        WithRoots(batch, result,
                  IF result.status = "ok" THEN Associated(table, key, value) ELSE graph)

WeakDelete ==
    \E table \in Of("weakmap"), key \in Named :
        Done(WeakCollectionDelete(heap, table, key), Dissociated(table, key))

Register ==
    \E registry \in Of("registry"), target \in Named, holdings \in Refs :
      \E token \in {None, target} :
        LET cell == [target |-> target, holdings |-> holdings, token |-> token]
        IN  /\ Len(heap.objects[registry].cells) < MaxCells
            /\ \E batch \in Batches :
                 \E result \in {RegistryRegister(Pushed(batch), registry, cell)} :
                   WithRoots(batch, result,
                             IF result.status = "ok" THEN Observed(registry, cell) ELSE graph)

Unregister ==
    \E registry \in Of("registry"), token \in Named :
        Done(RegistryUnregister(heap, registry, token), Unobserved(registry, token))

(* What the cleanup jobs carry.                                             *)
Holdings ==
    UNION {ObjectIds(cell.holdings) :
             cell \in {c \in UNION {Range(heap.objects[o].cells) : o \in Live(heap)} :
                          c.target = None}}

(* Which cells had their target collected is the collector's to say, so the *)
(* graph follows; HeapIsTheGraph says that it may.  The caller may go on    *)
(* with the holdings of a job, even those of a registry that the program    *)
(* had lost and no collection had found yet.                                *)
RunCleanup ==
    \E id \in {handle} \cup Holdings :
      \E h \in {TakeCleanupJobs(heap)} :
        LET objects == [o \in Named \cup Reachable(Whole(h), Some(HeldIn(heap, id))) |->
                          IF o \in Named
                          THEN [graph[o] EXCEPT !.cells = h.objects[o].cells]
                          ELSE Whole(h)[o]]
        IN  Finish(h, id, objects, HeldIn(heap, id), "ok")

(* Bound: a namespace is filled in while it and a cell are both rooted.     *)
RootBound == IF uses = "namespace" THEN MaxRoots + 1 ELSE MaxRoots

Root ==
    /\ Len(heap.rooted) < RootBound
    /\ \E o \in Named : Done([heap EXCEPT !.rooted = Append(@, o)], graph)

Unroot == \E i \in DOMAIN heap.rooted : Done([heap EXCEPT !.rooted = RemoveAt(@, i)], graph)

CollectMinor ==
    \E h \in {MinorGc(heap, {})} : Finish(h, handle, graph, HeldIn(h, handle), "ok")

CollectMajor ==
    \E h \in {MajorGc(heap, {})} : Finish(h, handle, graph, HeldIn(h, handle), "major")

Next ==
    \/ Alloc \/ Set \/ Delete \/ ChangePrototype \/ InitializeNamespace \/ SetHome
    \/ WeakSet \/ WeakDelete \/ Register \/ Unregister \/ RunCleanup
    \/ Root \/ Unroot \/ CollectMinor \/ CollectMajor

Spec == Init /\ [][Next]_vars

(***************************************************************************)
(* Properties.                                                             *)
(***************************************************************************)
(* Nothing in the store names an object that was reclaimed: not a root, a   *)
(* strong reference, the remembered set or the nursery, the table of the    *)
(* closures' metadata and what is in it, and not the key or the value of a weak entry or the target of a registry cell either.  mark *)
(* and write_barrier index the table with these without looking.            *)
NothingDangles ==
    /\ Range(heap.rooted) \cup heap.remembered \cup heap.nursery \subseteq Live(heap)
    /\ DOMAIN heap.metadata \subseteq Live(heap)
    /\ \A o \in Live(heap) :
          LET object == heap.objects[o]
          IN  /\ Edges(heap, o) \subseteq Live(heap)
              /\ \A e \in object.entries :
                    {e.key} \cup ObjectIds(e.value) \subseteq Live(heap)
              /\ \A i \in DOMAIN object.cells : Some(object.cells[i].target) \subseteq Live(heap)

(* The collector is invisible: whatever the operations collected on the     *)
(* way, minor or major, what the program can name in the heap is the graph  *)
(* that the same operations make without a collector, the values it reaches *)
(* by way of the live keys of a weak collection included; and a registry's  *)
(* cleanup falls due only for a target the program cannot name any more.    *)
HeapIsTheGraph ==
    /\ graph = Seen(Whole(heap), heap.rooted, HeldIn(heap, handle))
    /\ \A o \in Named : \A i \in DOMAIN heap.objects[o].cells :
          heap.objects[o].cells[i].target = None => graph[o].cells[i].target = None

(* collect_major keeps what is reachable and nothing else: cycles, and      *)
(* weak values whose key is gone, are reclaimed in one pass.                *)
MajorKeepsOnlyReachable ==
    [][outcome' = "major" => (Live(heap) = Reachable(Whole(heap), Range(heap.rooted)))']_vars

(* The running total is what the accounting rules charge the live objects   *)
(* plus what initialize_module_namespace charged for namespaces that were   *)
(* reclaimed, and it never passes the ceiling.                              *)
AccountsBalance ==
    /\ heap.managed = heap.orphaned + Cardinality(DOMAIN heap.metadata)
          + MapThenSumSet(LAMBDA o : Charge(heap.objects[o]), Live(heap))
    /\ heap.managed <= MaxHeap
================================================================================
