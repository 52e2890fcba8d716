------------------------------ MODULE HeapMarking ------------------------------
(***************************************************************************)
(* The two worklists of Heap::mark (heap/lifecycle.rs).  Heap takes what   *)
(* they mark to be the least set closed under edges and live weak entries; *)
(* this module has the loops themselves.  The order in which the code pops *)
(* ids and visits its hash tables is arbitrary.                            *)
(***************************************************************************)
EXTENDS Heap

(* The next id to pop, in an order of priority of the ids.  Popping an id   *)
(* a second time does nothing, so any order of first visits is that of the  *)
(* priorities that rank the ids as it visits them.                          *)
Pop(order, work) == CHOOSE o \in work : \A other \in work : order[o] <= order[other]

(* The first loop follows references.                                       *)
RECURSIVE Drain(_, _, _, _, _)
Drain(h, youngOnly, order, work, marked) ==
    IF work = {} THEN marked
    ELSE LET id == Pop(order, work)
             rest == work \ {id}
         IN  IF Tenured(h, youngOnly, id) \/ id \in marked
             THEN Drain(h, youngOnly, order, rest, marked)
             ELSE Drain(h, youngOnly, order, rest \cup Edges(h, id), marked \cup {id})

KeyIsLive(h, youngOnly, key, marked) ==
    key \in Live(h) /\ (Tenured(h, youngOnly, key) \/ key \in marked)

\* Mutant: a value whose key is not live yet is given up.
ActivateOnce(h, youngOnly, table, marked) ==
    [work |-> UNION {ObjectIds(e.value) \cap Live(h) :
                       e \in {d \in h.objects[table].entries :
                                KeyIsLive(h, youngOnly, d.key, marked)}},
     waiting |-> {}]

(* A table that becomes live releases the values of its live keys, and the  *)
(* other values wait for their key.                                         *)
Activate(h, youngOnly, table, marked) ==
    LET edges == UNION {{e.key} \X (ObjectIds(e.value) \cap Live(h)) :
                           e \in h.objects[table].entries}
        free == {p \in edges : KeyIsLive(h, youngOnly, p[1], marked)}
    IN  [work |-> {p[2] : p \in free}, waiting |-> edges \ free]

(* The second loop: a newly marked key releases what waits for it, and a    *)
(* newly marked table is activated.                                         *)
RECURSIVE DrainEphemerons(_, _, _, _, _, _)
DrainEphemerons(h, youngOnly, order, work, waiting, marked) ==
    IF work = {} THEN marked
    ELSE LET id == Pop(order, work)
             rest == work \ {id}
             now == marked \cup {id}
             released == {p \in waiting : p[1] = id}
             active == Activate(h, youngOnly, id, now)
         IN  IF Tenured(h, youngOnly, id) \/ id \in marked
             THEN DrainEphemerons(h, youngOnly, order, rest, waiting, marked)
             ELSE DrainEphemerons(h, youngOnly, order,
                      rest \cup Edges(h, id) \cup {p[2] : p \in released}
                           \cup active.work,
                      (waiting \ released) \cup active.waiting, now)

MarkByWorklist(h, youngOnly, order, protected) ==
    LET marked == Drain(h, youngOnly, order, StartingPoints(h, youngOnly, protected), {})
        live == {t \in Live(h) : Tenured(h, youngOnly, t) \/ t \in marked}
        active == [t \in live |-> Activate(h, youngOnly, t, marked)]
    IN  DrainEphemerons(h, youngOnly, order,
            UNION {active[t].work : t \in live}, UNION {active[t].waiting : t \in live}, marked)

(***************************************************************************)
(* Heaps of four objects: a rooted weak collection whose keys are the      *)
(* others, a second collection with the last two as keys, and two plain    *)
(* objects; any of them tenured, the tenured ones remembered.              *)
(***************************************************************************)
Entries(table) ==
    {[key |-> k, value |-> Ref(table[k])] : k \in {x \in DOMAIN table : table[x] # None}}

Shape(first, second, third, fourth, tenured) ==
    LET object(o, value, entries) ==
            [FreshObject(IF o <= 2 THEN "weakmap" ELSE "plain", None, {}, None, 0)
                EXCEPT !.value = value, !.entries = entries, !.young = o \notin tenured]
        property(o) == IF o = None THEN Absent ELSE Ref(o)
    IN  [EmptyHeap EXCEPT
            !.objects = <<object(1, Absent, Entries(first)), object(2, Absent, Entries(second)),
                          object(3, property(third), {}), object(4, property(fourth), {})>>,
            !.rooted = <<1>>,
            !.nursery = 1 .. 4 \ tenured,
            !.remembered = tenured]

Shapes ==
    {Shape(first, second, third, fourth, tenured) :
        first \in {f \in [2 .. 4 -> {None, 2, 3, 4}] : f[2] # 2 /\ f[3] # 3},
        second \in {f \in [3 .. 4 -> {None, 3, 4}] : f[3] # 3},
        third \in {None, 2, 4}, fourth \in {None, 2, 3}, tenured \in {{}, {1}, {3}, {1, 2, 4}, {1, 2, 3}}}

Orders == Permutations(1 .. 4)

(* The worklists mark exactly what is reachable through references and live *)
(* weak entries, in a minor and in a major collection, with a plain object  *)
(* held, on every such heap and in whatever order the ids are popped and    *)
(* the tables visited: a chain in which each key is only the value of the   *)
(* previous one, and a table that is itself such a value, included.  The    *)
(* heaps do not change, so the first state asks for them all.               *)
WorklistsMarkWhatIsLive ==
    heap = EmptyHeap /\ uses = "weakmap" /\ outcome = "ok" =>
        \A shape \in Shapes, youngOnly \in BOOLEAN :
            {MarkByWorklist(shape, youngOnly, order, {3}) : order \in Orders}
                = {Mark(shape, youngOnly, {3})}
================================================================================
