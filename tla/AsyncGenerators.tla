----------------------------- MODULE AsyncGenerators -----------------------------
(***************************************************************************)
(* The request queue of an async generator and its scheduler:              *)
(* vm/builtins/generators.rs and resume_async_generator_await of           *)
(* vm/modules.rs, on the job queue of PromiseJobs.                         *)
(*                                                                         *)
(* vm has these further fields:                                            *)
(*   status    AsyncGeneratorControl.status                                *)
(*   requests  the queue: [id, completion, operand, target]                *)
(*   nextId    next_request_id                                             *)
(*   frame     the saved GeneratorState: "start", "suspended" at a yield,  *)
(*             "delegating" at a yield of yield*, "running" or "done".     *)
(*             While an await owns the frame the heap holds "done".        *)
(*   ended     the body has returned or thrown (history)                   *)
(*   refused   an expect() of the scheduler failed                         *)
(*                                                                         *)
(* The first EnvPromises promises belong to the page, which settles them   *)
(* when it likes; the rest are the promises of the requests.  The body is  *)
(* any body: whenever it runs it returns, throws, yields or awaits, and it *)
(* may call its own generator first.  An operation that runs script code   *)
(* therefore has a set of possible results.                                *)
(***************************************************************************)
EXTENDS PromiseJobs, FiniteSets

CONSTANTS EnvPromises, MaxRequests

PagePromises == 1 .. EnvPromises

(* An operand PromiseResolve cannot take: its constructor getter throws.   *)
Throwing == <<"throwing">>
Operands == {Plain("operand"), Throwing} \cup {PromiseValue(e) : e \in PagePromises}

DoneResult == Plain("done")
YieldResult == Plain("yielded")
Failure == Reason("failure")

GeneratorInit ==
    /\ program = "generator"
    /\ vm = [promises |-> [p \in PagePromises |-> PendingPromise], jobs |-> <<>>,
             status |-> "SuspendedStart", requests |-> <<>>, nextId |-> 0,
             frame |-> "start", ended |-> FALSE, refused |-> FALSE]

WithStatus(m, status) == [m EXCEPT !.status = status]

(* Mutant: "done" is always taken for a finished body.                      *)
CompleteRequestForGood(m, target, fulfilled, value) ==
    IF m.requests = <<>> \/ Head(m.requests).target # target
    THEN [m EXCEPT !.refused = TRUE]
    ELSE SettlePromise([m EXCEPT !.requests = Tail(@), !.status = "Completed"],
                       target, fulfilled, value)

(* complete_async_generator_request: settle the head, and only the head.   *)
CompleteRequest(m, target, fulfilled, value) ==
    LET head == Head(m.requests)
        rest == Tail(m.requests)
        popped == [m EXCEPT !.requests = rest,
                            !.status = IF m.frame = "done" THEN "Completed"
                                       ELSE "SuspendedYield"]
    IN  IF \/ m.requests = <<>>
           \/ head.target # target
           \/ \E i \in DOMAIN rest : rest[i].id <= head.id
        THEN [m EXCEPT !.refused = TRUE]
        ELSE SettlePromise(popped, target, fulfilled, value)

(* Wait for operand on behalf of a request: a value that is no promise, or  *)
(* an answered one, still takes a turn of the queue.                        *)
AwaitOperand(m, operand, reaction) ==
    IF IsPromise(operand) THEN PerformPromiseThen(m, operand[2], reaction)
    ELSE [m EXCEPT !.jobs = Append(@, JobFor(reaction, operand # Throwing, operand))]

DelegateReaction(target, kind) ==
    [kind |-> "AsyncGeneratorDelegate", target |-> target, delegate |-> kind]

(* Mutant: the wait is not recorded in the status.                          *)
AwaitYieldUnmarked(m, target, operand) ==
    AwaitOperand(m, operand, [kind |-> "AsyncGeneratorYield", target |-> target])

(* await_async_generator_yield: PromiseResolve that throws counts as a      *)
(* rejected promise here.                                                   *)
AwaitYield(m, target, operand) ==
    AwaitOperand(WithStatus(m, "Awaiting"), operand,
                 [kind |-> "AsyncGeneratorYield", target |-> target])

(* replace_async_generator_request                                          *)
ReplaceRequest(m, completion) ==
    [m EXCEPT !.requests[1].completion = completion, !.status = "SuspendedYield"]

RECURSIVE ResumeNext(_), Request(_, _, _), RunFrame(_, _, _), FinishDelegate(_, _, _, _)

(* finish_async_generator_run                                               *)
FinishRun(m, target, value) == ResumeNext(CompleteRequest(m, target, TRUE, value))

FailRun(m, target) == ResumeNext(CompleteRequest(m, target, FALSE, Failure))

(* What the job that resumed the frame does with the way the body left off. *)
AfterTurn(runs, target) ==
    UNION {CASE run.exit = "await" -> {run.m}
             [] run.exit = "return" -> FinishRun(run.m, target, DoneResult)
             [] run.exit = "throw" -> FailRun(run.m, target) : run \in runs}

(* finish_async_delegation takes the delegate off the frame; then the body  *)
(* goes on past the yield*.                                                 *)
PastDelegate(m) ==
    [m EXCEPT !.frame = "suspended", !.refused = @ \/ m.frame # "delegating"]

ThrowAtDelegateExit(m, target) ==
    AfterTurn(RunFrame(PastDelegate(m), target, "throw"), target)

(* finish_async_generator_delegate, for each answer the delegate can give.  *)
FinishDelegate(m, target, kind, fulfilled) ==
    CASE kind = "AwaitReturn" ->
            ResumeNext(ReplaceRequest(m, IF fulfilled THEN "ReturnAwaited" ELSE "Throw"))
      [] kind = "AwaitReturnNoMethod" ->
            ResumeNext(ReplaceRequest(m, IF fulfilled THEN "ResumeReturn" ELSE "ResumeThrow"))
      [] kind = "CloseMissingThrow" \/ ~fulfilled -> ThrowAtDelegateExit(m, target)
      [] OTHER ->
            ThrowAtDelegateExit(m, target)                          \* not an object
              \cup FinishRun(m, target, YieldResult)                \* done: false
              \cup AfterTurn(RunFrame(PastDelegate(m), target,      \* done: true
                                 IF kind = "Return" THEN "return" ELSE "next"), target)

(* start_async_generator_await; a throwing operand is thrown at the yield*.  *)
AwaitReturnNoMethod(m, target, operand) ==
    IF operand = Throwing THEN RunFrame(m, target, "throw")
    ELSE {[m |-> AwaitOperand(m, operand, DelegateReaction(target, "AwaitReturnNoMethod")),
           exit |-> "await"]}

(* async_generator_delegate_request: the request goes to the delegate of    *)
(* the yield*, which may lack the method, throw, or answer with anything.   *)
DelegateRequest(m, target, kind, operand) ==
    LET asked == {AwaitOperand(m, answer, DelegateReaction(target, kind)) :
                     answer \in Operands \ {Throwing}}
        closing == {AwaitOperand(m, answer, DelegateReaction(target, "CloseMissingThrow")) :
                       answer \in Operands}
        finished == FinishDelegate(m, target, kind, FALSE)
    IN  {[m |-> a, exit |-> "await"] : a \in asked \cup finished}
          \cup (IF kind = "Return" THEN AwaitReturnNoMethod(m, target, operand)
                ELSE {[m |-> a, exit |-> "await"] :
                         a \in closing \cup FinishDelegate(m, target, "CloseMissingThrow", TRUE)})

(* generator_resume: the ways the body leaves off once it has been entered. *)
RunFrame(m, target, completion) ==
    LET running == [m EXCEPT !.frame = "running"]
        entered == {running} \cup Request(running, "Next", Plain("operand"))
        ended(r) == [r EXCEPT !.frame = "done", !.ended = TRUE]
        awaiting(r, operand) ==
            AwaitOperand([r EXCEPT !.frame = "done"], operand,
                         [kind |-> "AsyncAwait", target |-> target])
    IN  CASE m.frame = "running" -> {[m |-> m, exit |-> "throw"]}
          [] m.frame = "done" ->
                {[m |-> m, exit |-> IF completion = "throw" THEN "throw" ELSE "return"]}
          [] OTHER ->
                UNION {{[m |-> ended(r), exit |-> "return"], [m |-> ended(r), exit |-> "throw"]}
                         \cup {[m |-> awaiting(r, operand), exit |-> "await"] :
                                  operand \in Operands \ {Throwing}} : r \in entered}

(* The part of resume_async_generator_next that enters the interpreter for  *)
(* the head of the queue.                                                   *)
EnterFrame(m, head) ==
    LET abrupt == IF head.completion \in {"ReturnAwaited", "ResumeReturn"} THEN "return"
                  ELSE IF head.completion \in {"Throw", "ResumeThrow"} THEN "throw"
                  ELSE "next"
    IN  IF m.frame = "delegating" /\ head.completion \in {"ReturnAwaited", "Throw"}
        THEN DelegateRequest(m, head.target,
                 IF abrupt = "return" THEN "Return" ELSE "Throw", head.operand)
        ELSE RunFrame(m, head.target, abrupt)

AfterEnter(run, target) ==
    CASE run.exit = "await" ->
            {IF Settled(run.m, target) THEN run.m ELSE WithStatus(run.m, "Awaiting")}
      [] run.exit = "return" -> FinishRun(run.m, target, DoneResult)
      [] run.exit = "throw" -> FailRun(run.m, target)

(* resume_async_generator_next: the scheduler.                              *)
ResumeNext(m) ==
    LET head == Head(m.requests)
        completed == [m EXCEPT !.frame = "done", !.status = "Completed", !.ended = TRUE]
    IN  CASE m.refused \/ m.requests = <<>> \/ m.status \in {"Awaiting", "Executing"} -> {m}
          [] m.status = "Completed" ->
                CASE head.completion = "Next" ->
                        ResumeNext(CompleteRequest(m, head.target, TRUE, DoneResult))
                  [] head.completion = "Return" -> {AwaitYield(m, head.target, head.operand)}
                  [] head.completion = "Throw" ->
                        ResumeNext(CompleteRequest(m, head.target, FALSE, Failure))
                  [] OTHER -> {[m EXCEPT !.refused = TRUE]}
          [] m.frame = "start" /\ head.completion \in {"Return", "Throw"} ->
                ResumeNext(completed)
          [] head.completion = "Return" /\ head.operand = Throwing ->
                ResumeNext(ReplaceRequest(m, "Throw"))
          [] head.completion = "Return" ->
                {WithStatus(AwaitOperand(m, head.operand,
                                DelegateReaction(head.target, "AwaitReturn")), "Awaiting")}
          [] OTHER ->
                UNION {AfterEnter(run, head.target) :
                          run \in EnterFrame(WithStatus(m, "Executing"), head)}

(* Mutant: a request goes to the front of the queue.                        *)
RequestFirst(m, completion, operand) ==
    LET made == AddPromise(m)
        request == [id |-> m.nextId, completion |-> completion, operand |-> operand,
                    target |-> Len(made.promises)]
    IN  IF m.nextId >= MaxRequests THEN {}
        ELSE ResumeNext([made EXCEPT !.nextId = @ + 1, !.requests = <<request>> \o @])

(* async_generator_request: append, then let the scheduler look.            *)
Request(m, completion, operand) ==
    LET made == AddPromise(m)
        request == [id |-> m.nextId, completion |-> completion, operand |-> operand,
                    target |-> Len(made.promises)]
    IN  IF m.nextId >= MaxRequests THEN {}
        ELSE ResumeNext([made EXCEPT !.nextId = @ + 1, !.requests = Append(@, request)])

--------------------------------------------------------------------------------
(* next(), return(v) and throw(v) on the generator.                         *)
CallMethod ==
    \/ vm' \in Request(vm, "Next", Plain("operand"))
    \/ vm' \in Request(vm, "Throw", Plain("operand"))
    \/ \E operand \in Operands : vm' \in Request(vm, "Return", operand)

SettlePagePromise ==
    \E e \in PagePromises, fulfilled \in BOOLEAN :
        ~Settled(vm, e) /\ vm' = SettlePromise(vm, e, fulfilled, Plain("operand"))

(* resume_async_generator_await: besides the exits of RunFrame the body may *)
(* now yield, at a yield of its own or inside a yield*.                     *)
ResumeAwait(m, target) ==
    LET entered == {m} \cup Request(m, "Next", Plain("operand"))
        ended(r) == [r EXCEPT !.frame = "done", !.ended = TRUE]
    IN  UNION {FinishRun(ended(r), target, DoneResult)
                 \cup FailRun(ended(r), target)
                 \cup FinishRun([r EXCEPT !.frame = "suspended"], target, YieldResult)
                 \cup FinishRun([r EXCEPT !.frame = "delegating"], target, YieldResult)
                 \cup {AwaitOperand(r, operand, [kind |-> "AsyncAwait", target |-> target]) :
                          operand \in Operands \ {Throwing}} : r \in entered}

(* finish_async_generator_yield                                             *)
FinishYield(m, target, fulfilled) ==
    IF fulfilled THEN FinishRun(m, target, DoneResult)
    ELSE FailRun([m EXCEPT !.frame = "done"], target)

RunGeneratorJob ==
    /\ vm.jobs # <<>>
    /\ LET job == Head(vm.jobs)
           target == job.reaction.target
           m == PopJob(vm)
       IN  vm' \in CASE job.reaction.kind = "AsyncAwait" -> ResumeAwait(m, target)
                     [] job.reaction.kind = "AsyncGeneratorYield" ->
                           FinishYield(m, target, job.fulfilled)
                     [] job.reaction.kind = "AsyncGeneratorDelegate" ->
                           FinishDelegate(m, target, job.reaction.delegate, job.fulfilled)

GeneratorNext == (CallMethod \/ SettlePagePromise \/ RunGeneratorJob) /\ UNCHANGED program

--------------------------------------------------------------------------------
(***************************************************************************)
(* Properties.                                                             *)
(***************************************************************************)
Targets == DOMAIN vm.promises \ PagePromises

(* Everything that will still wake the generator: waiting on a promise, or  *)
(* queued.                                                                  *)
Waking(target) ==
    {<<e, i>> \in PagePromises \X (1 .. MaxRequests) :
         /\ i \in DOMAIN vm.promises[e].reactions
         /\ vm.promises[e].reactions[i].target = target}
Queued(target) == {i \in DOMAIN vm.jobs : vm.jobs[i].reaction.target = target}

(* The scheduler serves the queue in order: no request is answered before   *)
(* one that was made earlier, whatever the body, the delegate of a yield*   *)
(* and the page do in between, and none of the expect()s that say so        *)
(* ("the scheduler completes the retained FIFO head") can fail.             *)
RequestsSettleInOrder == program = "generator" =>
    /\ ~vm.refused
    /\ \A p, q \in Targets : p < q /\ Settled(vm, q) => Settled(vm, p)

(* Between two turns a queue that is not empty is waiting for exactly one   *)
(* thing, on behalf of its head, and an empty queue waits for nothing.  The *)
(* head can therefore not be forgotten, and no second request can enter the *)
(* frame that an await took away (resume_async_generator_next: "only the    *)
(* queue head may enter the interpreter").                                  *)
HeadHasOneContinuation == program = "generator" =>
    /\ vm.requests = <<>> => vm.status # "Awaiting"
    /\ vm.requests # <<>> => vm.status = "Awaiting"
    /\ \A p \in Targets :
          Cardinality(Waking(p)) + Cardinality(Queued(p)) =
              IF vm.requests # <<>> /\ p = Head(vm.requests).target THEN 1 ELSE 0

(* A body that returned or threw stays finished: complete_async_generator_  *)
(* request reads the same "done" that stands in for an awaiting frame, and  *)
(* must never take the one for the other.                                   *)
FinishedStaysFinished == program = "generator" =>
    /\ vm.ended => vm.frame = "done"
    /\ vm.status = "Completed" => vm.ended
================================================================================
