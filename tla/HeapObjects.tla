------------------------------ MODULE HeapObjects ------------------------------
(***************************************************************************)
(* The objects of the BlueJS heap and the edges between them               *)
(* (backend/bluejs/src/heap.rs).                                           *)
(*                                                                         *)
(* An object has its prototype, one own data property (value), the fixed   *)
(* references of its kind (links: the mapped cell of an arguments object,  *)
(* the export cells of a namespace, the home object of a closure), the     *)
(* entries of a weak collection, the target of a WeakRef and the cells of  *)
(* a FinalizationRegistry.                                                 *)
(***************************************************************************)
EXTENDS Integers, Sequences, FiniteSets, SequencesExt

CONSTANT MaxObjects         \* serial numbers in all

None == 0
Ids == 1 .. MaxObjects

(* A property is absent, a string or a reference.                           *)
Absent == <<"absent">>
Text == <<"text">>
Ref(o) == <<"object", o>>
ObjectIds(value) == IF value[1] = "object" THEN {value[2]} ELSE {}
Some(o) == {o} \ {None}

(* Object::references.  Weak collections and weak references hold nothing,  *)
(* a registry holds the holdings of its cells.                              *)
References(object) ==
    Some(object.proto) \cup ObjectIds(object.value) \cup object.links
      \cup UNION {ObjectIds(object.cells[i].holdings) : i \in DOMAIN object.cells}

(* What a program can name that starts from a set of objects, found by      *)
(* following edges one link at a time; the value of a weak entry is named   *)
(* by its table and its key together.                                       *)
Reachable(objects, from) ==
    LET step(set) ==
            LET weak(t) == {e \in objects[t].entries : e.key \in set}
                values(t) == UNION {ObjectIds(e.value) : e \in weak(t)}
            IN  set \cup (UNION {References(objects[o]) \cup values(o) : o \in set}
                             \cap DOMAIN objects)
        after[n \in 0 .. MaxObjects] ==
            IF n = 0 THEN from ELSE step(after[n - 1])
    IN  after[MaxObjects]

(* The prototype chain that starts at an object.                            *)
Ancestors(objects, o) ==
    LET after[n \in 0 .. MaxObjects] ==
            IF n = 0
            THEN {o}
            ELSE after[n - 1] \cup UNION {Some(objects[a].proto) : a \in after[n - 1]}
    IN  after[MaxObjects]

(* The objects a program can name from its root registrations and the id it *)
(* holds, as the program sees them: a weak edge to anything else is None.   *)
Seen(objects, rootSeq, handle) ==
    LET named == Reachable(objects, Range(rootSeq) \cup Some(handle))
        seen(o) == IF o \in named THEN o ELSE None
    IN  [o \in named |->
           [kind |-> objects[o].kind,
            proto |-> objects[o].proto,
            value |-> objects[o].value,
            links |-> objects[o].links,
            entries |-> {e \in objects[o].entries : e.key \in named},
            target |-> seen(objects[o].target),
            cells |-> [i \in DOMAIN objects[o].cells |->
                         [objects[o].cells[i] EXCEPT !.target = seen(@), !.token = seen(@)]]]]
================================================================================
