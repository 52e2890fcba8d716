------------------------------ MODULE ObjectGraph ------------------------------
(***************************************************************************)
(* What the heap promises a program: a graph of objects with no collector, *)
(* no generations and no budget in it.  graph holds the objects a program  *)
(* can name, as the program sees them, and each operator below is what one *)
(* heap operation does to them.                                            *)
(***************************************************************************)
EXTENDS HeapObjects

VARIABLE graph

Created(id, object) ==
    [o \in DOMAIN graph \cup {id} |-> IF o = id THEN object ELSE graph[o]]

Written(o, value) == [graph EXCEPT ![o].value = value]

(* A write to a mapped property of an arguments object is a write to the    *)
(* parameter too.                                                           *)
WrittenThrough(o, value) ==
    LET cells == IF graph[o].kind = "arguments" THEN graph[o].links ELSE {}
    IN  [p \in DOMAIN graph |->
           IF p \in {o} \cup cells THEN [graph[p] EXCEPT !.value = value] ELSE graph[p]]

Erased(o) == [graph EXCEPT ![o].value = Absent, ![o].links = {}]

Inheriting(o, proto) == [graph EXCEPT ![o].proto = proto]

Exporting(o, cells) == [graph EXCEPT ![o].links = cells]

Housed(o, home) == [graph EXCEPT ![o].links = {home}]

Dissociated(table, key) == [graph EXCEPT ![table].entries = {e \in @ : e.key # key}]

Associated(table, key, value) ==
    [Dissociated(table, key) EXCEPT ![table].entries =
        @ \cup {[key |-> key, value |-> value]}]

Observed(registry, cell) == [graph EXCEPT ![registry].cells = Append(@, cell)]

Unobserved(registry, token) ==
    [graph EXCEPT ![registry].cells = SelectSeq(@, LAMBDA cell : cell.token # token)]
================================================================================
