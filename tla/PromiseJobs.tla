------------------------------ MODULE PromiseJobs ------------------------------
(***************************************************************************)
(* The job queue of the BlueJS virtual machine and the promises that feed  *)
(* it: backend/bluejs/src/vm/builtins/promise_core.rs,                     *)
(* vm/promise_reactions.rs and the queue of vm/builtins/promises.rs.       *)
(*                                                                         *)
(* vm is the part of the Vm the event loop works on.  Every machine built  *)
(* on it has at least the fields promises (the tracked promises, in the    *)
(* order they were allocated) and jobs (the VecDeque promise_jobs).        *)
(* program, which never changes, names the machine that was built.         *)
(* A reaction is whatever a settlement has to wake: a then() handler, or   *)
(* the frame of a module, of an async function or of an async generator.   *)
(***************************************************************************)
EXTENDS Integers, Sequences, SequencesExt

VARIABLES vm, program

NoValue == <<"none">>

(* What script code can hand to a promise: a plain value (named after the  *)
(* promise it was made for), an error, or another promise.                 *)
Plain(tag) == <<"value", tag>>
Reason(tag) == <<"reason", tag>>
PromiseValue(p) == <<"promise", p>>
IsPromise(value) == value[1] = "promise"

PendingPromise == [status |-> "pending", value |-> NoValue, reactions |-> <<>>]

JobFor(reaction, fulfilled, value) ==
    [reaction |-> reaction, fulfilled |-> fulfilled, value |-> value]

(* settle_promise: only a pending promise settles; its reactions become     *)
(* jobs in registration order.                                              *)
SettlePromise(m, p, fulfilled, value) ==
    LET record == m.promises[p]
        woken == [i \in DOMAIN record.reactions |->
                     JobFor(record.reactions[i], fulfilled, value)]
    IN  IF record.status # "pending" THEN m
        ELSE [m EXCEPT
                !.promises[p] = [status |-> IF fulfilled THEN "fulfilled" ELSE "rejected",
                                 value |-> value,
                                 reactions |-> <<>>],
                !.jobs = @ \o woken]

(* Mutant: a reaction on a settled promise overtakes the queue.             *)
PerformPromiseThenFirst(m, p, reaction) ==
    LET record == m.promises[p]
    IN  IF record.status = "pending"
        THEN [m EXCEPT !.promises[p].reactions = Append(@, reaction)]
        ELSE [m EXCEPT !.jobs =
                 <<JobFor(reaction, record.status = "fulfilled", record.value)>> \o @]

(* perform_promise_then, and the suspension of a module, async or generator *)
(* frame: wait on a pending promise, otherwise queue the turn at once.      *)
PerformPromiseThen(m, p, reaction) ==
    LET record == m.promises[p]
    IN  IF record.status = "pending"
        THEN [m EXCEPT !.promises[p].reactions = Append(@, reaction)]
        ELSE [m EXCEPT !.jobs =
                 Append(@, JobFor(reaction, record.status = "fulfilled", record.value))]

(* resolve_promise: a promise resolved with itself is rejected, a thenable  *)
(* is adopted through a job of its own, anything else fulfills.             *)
ResolvePromise(m, p, resolution) ==
    IF resolution = PromiseValue(p) THEN SettlePromise(m, p, FALSE, Reason(p))
    ELSE IF IsPromise(resolution)
         THEN [m EXCEPT !.jobs =
                  Append(@, JobFor([kind |-> "Thenable", target |-> p], TRUE, resolution))]
         ELSE SettlePromise(m, p, TRUE, resolution)

(* new_promise: the VM keeps every promise it made for as long as it runs.  *)
AddPromise(m) == [m EXCEPT !.promises = Append(@, PendingPromise)]

Settled(m, p) == m.promises[p].status # "pending"

PopJob(m) == [m EXCEPT !.jobs = Tail(@)]
================================================================================
