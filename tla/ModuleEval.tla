------------------------------- MODULE ModuleEval -------------------------------
(***************************************************************************)
(* Evaluation of a linked module graph: vm/modules.rs and                  *)
(* vm/modules/deferred.rs, on the job queue of PromiseJobs.                *)
(*                                                                         *)
(* graph, chosen once, is the code the host supplied: what each module     *)
(* requests, in source order, which requests are `import defer`, and what  *)
(* its body does (Bodies).  vm has these further fields:                   *)
(*   records   LinkedModule: evaluating, suspended, evaluated and error;   *)
(*             history: how often the body was started, and how often an   *)
(*             engine error ended it                                       *)
(*   parents   module_async_parents                                        *)
(*   pending   module_pending_dependencies ({}: no entry)                  *)
(*   waiters   module_import_waiters                                       *)
(*   deferred  deferred_import_waiters                                     *)
(*   running   the bodies evaluate_module_record is running, outermost     *)
(*             first; while there is one the records are parked in         *)
(*             evaluating_linked and module_graph is empty                 *)
(*   imports   the import() calls, in order (history)                      *)
(*   early     <<a, b>>: a's body started before the import b had finished *)
(*             and b was not held up by a running body (history)           *)
(*   joined    the import() promises that wait for a module which was      *)
(*             still on the evaluation stack (history)                     *)
(*   dropped   a turn was ended half way by an error (history)             *)
(* Promise m, for a module m, is the promise its top-level await waits     *)
(* for; the promises after those are the ones import() returned.           *)
(*                                                                         *)
(* An evaluation error is named after the module whose body threw it.      *)
(* Unsupported is the engine's own error: no script catches it and no      *)
(* record keeps it.                                                        *)
(*                                                                         *)
(* What a body does, after it has read its deferred namespaces:            *)
(*   return, throw                                                         *)
(*   await     awaits its promise and returns                              *)
(*   twice     awaits its promise twice                                    *)
(*   inline    starts an async generator, which takes the frame out of     *)
(*             module mode, and awaits a settled promise: the await is a   *)
(*             loop that runs queued jobs inside the body                  *)
(*   imports   the same with `await import(Imported)`                      *)
(*   later     awaits its promise as `await` does, then as `inline` does   *)
(***************************************************************************)
EXTENDS PromiseJobs, FiniteSets

CONSTANTS NumModules,
          Deferrers,       \* the modules that may use import defer
          Bodies,          \* what any body may do: of {"return", "throw", "await"}
          Special,         \* the modules that may do one of SpecialBodies as well
          SpecialBodies,   \* of {"twice", "inline", "imports", "later"}
          Imported,        \* the module that a body which "imports" imports
          MaxImports       \* import() calls made by scripts outside the graph

VARIABLE graph

Modules == 1 .. NumModules
NoError == 0
Unsupported == -1
Nothing == 0         \* the promise of an await that has settled already

RequestLists(m) ==
    LET others == SetToSeq(Modules \ {m})
        choice == [Range(others) -> {"no", "eager"} \cup IF m \in Deferrers THEN {"defer"} ELSE {}]
        chosen(c) == SelectSeq(others, LAMBDA t : c[t] # "no")
    IN  {[i \in DOMAIN chosen(c) |-> [to |-> chosen(c)[i], deferred |-> c[chosen(c)[i]] = "defer"]] :
             c \in choice}

Graphs ==
    [requests : {g \in [Modules -> UNION {RequestLists(m) : m \in Modules}] :
                     \A m \in Modules : g[m] \in RequestLists(m)},
     body : {b \in [Modules -> Bodies \cup SpecialBodies] :
                 \A m \in Modules : b[m] \in SpecialBodies => m \in Special},
     touches : {FALSE} \cup {d # {} : d \in {Deferrers}}]   \* do bodies read deferred namespaces?

Requests(m) == graph.requests[m]
HasTla(m) == graph.body[m] \notin {"return", "throw"}
AllEdges == {<<a, b>> \in Modules \X Modules :
                \E i \in DOMAIN Requests(a) : Requests(a)[i].to = b}
EagerEdges == {<<a, b>> \in AllEdges :
                  \E i \in DOMAIN Requests(a) : Requests(a)[i] = [to |-> b, deferred |-> FALSE]}

FreshRecord == [evaluating |-> FALSE, suspended |-> FALSE, evaluated |-> FALSE,
                error |-> NoError, starts |-> 0, refusals |-> 0]

ModuleInit ==
    /\ program = "modules"
    /\ graph \in Graphs
    /\ graph.touches => AllEdges # EagerEdges /\ Range(graph.body) \subseteq Bodies
    /\ vm = [promises |-> [m \in Modules |-> PendingPromise], jobs |-> <<>>,
             records |-> [m \in Modules |-> FreshRecord],
             parents |-> [m \in Modules |-> <<>>],
             pending |-> [m \in Modules |-> {}],
             waiters |-> [m \in Modules |-> <<>>],
             deferred |-> <<>>, running |-> <<>>, imports |-> <<>>,
             early |-> {}, joined |-> {}, dropped |-> FALSE]

RECURSIVE Closure(_, _), Gather(_, _, _), Visit(_, _, _), Eval(_, _),
          RunTurn(_, _), InlineAwait(_, _)

Closure(edges, found) ==
    LET next == found \cup {e[2] : e \in {e \in edges : e[1] \in found}}
    IN  IF next = found THEN found ELSE Closure(edges, next)

(* module_reaches: deferred requests are no edges of the evaluation walk.   *)
Reaches(a, b) == b \in Closure(EagerEdges, {a})
SameCycle(a, b) == Reaches(a, b) /\ Reaches(b, a)

(* scc_evaluated                                                            *)
SccEvaluated(m, name) ==
    /\ m.records[name].evaluated
    /\ \A other \in Modules : m.records[other].evaluated \/ ~SameCycle(name, other)

(* cycle_root_error: the error of another member of the cycle, if any.      *)
CycleRootError(m, name) ==
    LET failed == {o \in Modules \ {name} :
                      m.records[o].error # NoError /\ SameCycle(name, o)}
    IN  IF failed = {} THEN NoError
        ELSE m.records[CHOOSE o \in failed : \A other \in failed : o <= other].error

(* gather_async_dependencies: the first asynchronous module of every branch *)
(* below name, in post-order; acc carries the shared set of visited ones.   *)
Gather(m, name, acc) ==
    LET record == m.records[name]
        visited == [acc EXCEPT !.seen = @ \cup {name}]
    IN  IF name \in acc.seen THEN acc
        ELSE IF (record.evaluating /\ ~record.suspended) \/ SccEvaluated(m, name) THEN visited
        ELSE IF HasTla(name) THEN [visited EXCEPT !.list = Append(@, name)]
        ELSE FoldLeft(LAMBDA a, request : Gather(m, request.to, a), visited, Requests(name))

AsyncDependencies(m, name) == Gather(m, name, [list |-> <<>>, seen |-> {}]).list

(* ready_for_sync_execution: the walk does not look past a finished module. *)
Visit(m, name, seen) ==
    IF name \in seen \/ SccEvaluated(m, name) THEN seen
    ELSE FoldLeft(LAMBDA s, request : Visit(m, request.to, s), seen \cup {name}, Requests(name))

ReadyForSyncExecution(m, name) ==
    \A a \in Visit(m, name, {}) : ~m.records[a].evaluating /\ ~HasTla(a)

(* async_dependency_root: the first module waiting on the dependency that   *)
(* is itself unfinished and part of the dependency's cycle.                 *)
AsyncDependencyRoot(m, name) ==
    LET roots == SelectSeq(m.parents[name],
                     LAMBDA c : (m.records[c].evaluating \/ m.records[c].suspended)
                                /\ Reaches(name, c))
    IN  IF roots = <<>> THEN name ELSE roots[1]

(* What a step of an evaluation comes to: the machine and the error, if any, *)
(* that propagates out of it.                                               *)
Ok(m) == [m |-> m, error |-> NoError]
Err(m, error) == [m |-> m, error |-> error]

(* Mutant: a suspended dependency counts as a finished one.                 *)
NoteNothing(run, target, pending) ==
    [m |-> run.m, error |-> run.error, pending |-> pending]

(* A request that leaves its module suspended is one to wait for.           *)
NotePending(run, target, pending) ==
    [m |-> run.m, error |-> run.error,
     pending |-> IF run.error = NoError /\ run.m.records[target].suspended
                 THEN Append(pending, AsyncDependencyRoot(run.m, target))
                 ELSE pending]

(* The requests of evaluate_module_record, in source order; the first error *)
(* ends the walk.                                                           *)
WalkRequests(m, name) ==
    LET Step(acc, target) ==
            IF acc.error # NoError THEN acc
            ELSE NotePending(Eval(acc.m, target), target, acc.pending)
        List(acc, request) ==
            IF request.deferred THEN AsyncDependencies(acc.m, request.to) ELSE <<request.to>>
    IN  FoldLeft(LAMBDA acc, request : FoldLeft(Step, acc, List(acc, request)),
                 [m |-> m, error |-> NoError, pending |-> <<>>], Requests(name))

(* Register name with every module it has to wait for, once each.           *)
WaitForDependencies(m, name, dependencies) ==
    LET Register(acc, d) ==
            IF d \in acc.pending[name] THEN acc
            ELSE [acc EXCEPT !.pending[name] = @ \cup {d}, !.parents[d] = Append(@, name)]
        registered == FoldLeft(Register, m, dependencies)
    IN  [registered EXCEPT !.records[name].suspended = TRUE]

(* evaluate_module_sync, on a read of the deferred namespace of target by   *)
(* the body of name.                                                        *)
EvaluateModuleSync(m, target, name) ==
    IF m.records[target].evaluated THEN Err(m, m.records[target].error)
    ELSE IF ~ReadyForSyncExecution(m, target) THEN Err(m, name)
    ELSE Eval(m, target)

(* A turn that an error ends leaves what it had taken off the queue and the *)
(* lists undone.                                                            *)
Drop(m) == [m EXCEPT !.dropped = TRUE]

(* await_value: what an inline await comes to when its loop has ended.      *)
AwaitValue(m, p) ==
    IF p = Nothing THEN Ok(m)
    ELSE CASE m.promises[p].status = "pending" -> Err(Drop(m), Unsupported)
           [] m.promises[p].status = "fulfilled" -> Ok(m)
           [] m.promises[p].status = "rejected" -> Err(m, m.promises[p].value[2])

(* run_next_job_while_module_suspended: the next job, if there is one, runs *)
(* while the body stays on the stack.                                       *)
RunNested(m) == IF m.jobs = <<>> THEN Ok(m) ELSE RunTurn(PopJob(m), Head(m.jobs))

(* After a turn of the loop: an error of the job is the body's, and only a  *)
(* promise that was pending before the turn asks for another one.           *)
AfterNested(run, again, p) ==
    IF run.error # NoError THEN run
    ELSE IF again THEN InlineAwait(run.m, p)
    ELSE AwaitValue(run.m, p)

(* The Await of a frame that is neither async nor in module mode.           *)
InlineAwait(m, p) ==
    AfterNested(RunNested(m), p # Nothing /\ ~Settled(m, p) /\ m.jobs # <<>>, p)

(* dynamic_import: import() makes a promise and queues the job.             *)
QueueImport(m, entry, deferred, inside) ==
    LET added == AddPromise(m)
    IN  [added EXCEPT
            !.imports = Append(@, [entry |-> entry, deferred |-> deferred, inside |-> inside]),
            !.jobs = Append(@, JobFor([kind |-> "DynamicImport", entry |-> entry,
                                       deferred |-> deferred, target |-> Len(added.promises)],
                                      TRUE, NoValue))]

(* suspend_module_await: the rest of the body runs when its promise settles. *)
SuspendModuleAwait(m, name, rest) ==
    PerformPromiseThen([m EXCEPT !.records[name].suspended = TRUE], name,
                       [kind |-> "ModuleAwait", module |-> name, rest |-> rest])

AwaitImport(m) == InlineAwait(m, Len(m.promises))

(* The body returns, throws, or comes to its first await.                   *)
EndBody(touched, name) ==
    IF touched.error # NoError THEN touched
    ELSE CASE graph.body[name] = "return" -> touched
           [] graph.body[name] = "throw" -> Err(touched.m, name)
           [] graph.body[name] = "inline" -> InlineAwait(touched.m, Nothing)
           [] graph.body[name] = "imports" ->
                AwaitImport(QueueImport(touched.m, Imported, FALSE, TRUE))
           [] OTHER -> Ok(SuspendModuleAwait(touched.m, name, graph.body[name]))

(* The records come back from where they were parked.                       *)
LeaveBody(run, name) ==
    [run EXCEPT !.m.running = Front(@),
                !.m.records[name].refusals = IF run.error = Unsupported THEN @ + 1 ELSE @]

(* The imports of name that have not finished without error, except the     *)
(* ones that are on the evaluation stack below a running body.              *)
EarlyImports(m, name) ==
    {b \in Modules :
        /\ <<name, b>> \in EagerEdges
        /\ ~(m.records[b].evaluated /\ m.records[b].error = NoError)
        /\ ~(m.running # <<>> /\ m.records[b].evaluating /\ ~m.records[b].suspended)}

(* The body reads its deferred namespaces first.                            *)
RunBody(m, name) ==
    LET started == [m EXCEPT !.records[name].starts = @ + 1, !.running = Append(@, name),
                             !.early = @ \cup ({name} \X EarlyImports(m, name))]
        Touch(acc, request) ==
            IF acc.error # NoError \/ ~request.deferred \/ ~graph.touches THEN acc
            ELSE EvaluateModuleSync(acc.m, request.to, name)
    IN  LeaveBody(EndBody(FoldLeft(Touch, Ok(started), Requests(name)), name), name)

(* What follows the walk over the requests.                                 *)
AfterRequests(walked, name) ==
    IF walked.error # NoError THEN Err(walked.m, walked.error)
    ELSE IF walked.pending # <<>> THEN Ok(WaitForDependencies(walked.m, name, walked.pending))
    ELSE RunBody(walked.m, name)

(* A module that is not left suspended has finished, with or without error, *)
(* unless the engine's own error ended it: then it may be started again.    *)
FinishEvaluation(run, name) ==
    IF run.m.records[name].suspended THEN run
    ELSE [run EXCEPT !.m.records[name].evaluating = FALSE,
                     !.m.records[name].evaluated = run.error # Unsupported,
                     !.m.records[name].error =
                         IF run.error = Unsupported THEN NoError ELSE run.error]

(* evaluate_module_record                                                   *)
Eval(m, name) ==
    LET record == m.records[name]
        entered == [m EXCEPT !.records[name].evaluating = TRUE]
    IN  IF record.error # NoError THEN Err(m, record.error)
        ELSE IF record.evaluated \/ record.evaluating THEN Ok(m)
        ELSE FinishEvaluation(AfterRequests(WalkRequests(entered, name), name), name)

(* Mutant: import.defer() calls are not told.                               *)
SettleWaitersOfModule(m, name) ==
    FoldLeft(LAMBDA acc, p : ResolvePromise(acc, p, Plain(name)),
             [m EXCEPT !.waiters[name] = <<>>], m.waiters[name])

(* settle_dynamic_import_waiters                                            *)
SettleWaiters(m, name) ==
    LET trimmed == [i \in DOMAIN m.deferred |-> [m.deferred[i] EXCEPT !.pending = @ \ {name}]]
        finished == SelectSeq(trimmed, LAMBDA w : w.pending = {})
        promises == [i \in DOMAIN finished |-> finished[i].promise] \o m.waiters[name]
        kept == [m EXCEPT !.deferred = SelectSeq(trimmed, LAMBDA w : w.pending # {}),
                          !.waiters[name] = <<>>]
    IN  FoldLeft(LAMBDA acc, p : ResolvePromise(acc, p, Plain(name)), kept, promises)

(* reject_dynamic_import_waiters                                            *)
RejectWaiters(m, name, error) ==
    LET failed == SelectSeq(m.deferred, LAMBDA w : name \in w.pending)
        promises == [i \in DOMAIN failed |-> failed[i].promise] \o m.waiters[name]
        kept == [m EXCEPT !.deferred = SelectSeq(@, LAMBDA w : name \notin w.pending),
                          !.waiters[name] = <<>>]
    IN  FoldLeft(LAMBDA acc, p : SettlePromise(acc, p, FALSE, Reason(error)), kept, promises)

(* acc.queue holds the completed modules whose parents come next.           *)
NoteReleased(acc, run, parent) ==
    IF run.error # NoError THEN [acc EXCEPT !.m = run.m, !.error = run.error]
    ELSE IF run.m.records[parent].evaluated
    THEN [acc EXCEPT !.m = SettleWaiters(run.m, parent), !.queue = Append(@, parent)]
    ELSE [acc EXCEPT !.m = run.m]

(* One parent in the loop of settle_module_parents: the child is struck off *)
(* its dependencies, and the last one struck evaluates it.  A parent        *)
(* without an entry in module_pending_dependencies is not ready.            *)
ReleaseParent(acc, parent, child) ==
    LET left == acc.m.pending[parent] \ {child}
        struck == [acc.m EXCEPT !.pending[parent] = left]
        ready == [struck EXCEPT !.records[parent].evaluating = FALSE,
                                !.records[parent].suspended = FALSE]
    IN  IF acc.error # NoError THEN acc
        ELSE IF acc.m.pending[parent] = {} \/ left # {} THEN [acc EXCEPT !.m = struck]
        ELSE NoteReleased(acc, Eval(ready, parent), parent)

RECURSIVE SettleModuleParents(_, _), RejectModuleAndParents(_, _, _)

(* A parent that throws ends the turn: the parents taken off the lists by   *)
(* then are not looked at again.                                            *)
SettleNext(released) ==
    IF released.error # NoError THEN Err(Drop(released.m), released.error)
    ELSE SettleModuleParents(released.m, released.queue)

(* settle_module_parents                                                    *)
SettleModuleParents(m, queue) ==
    IF queue = <<>> THEN Ok(m)
    ELSE LET child == Head(queue)
             taken == [m EXCEPT !.parents[child] = <<>>]
         IN  SettleNext(FoldLeft(LAMBDA acc, parent : ReleaseParent(acc, parent, child),
                                 [m |-> taken, error |-> NoError, queue |-> Tail(queue)],
                                 m.parents[child]))

(* reject_module_and_parents                                                *)
RejectModuleAndParents(m, queue, error) ==
    IF queue = <<>> THEN m
    ELSE LET name == Head(queue)
             rejected == [RejectWaiters(m, name, error) EXCEPT !.parents[name] = <<>>]
             Fail(acc, parent) ==
                 LET removed == [acc.m EXCEPT !.pending[parent] = {}]
                 IN  IF acc.m.records[parent].error # NoError THEN [acc EXCEPT !.m = removed]
                     ELSE [m |-> [removed EXCEPT !.records[parent].evaluating = FALSE,
                                                 !.records[parent].suspended = FALSE,
                                                 !.records[parent].evaluated = TRUE,
                                                 !.records[parent].error = error],
                           queue |-> Append(acc.queue, parent)]
             failed == FoldLeft(Fail, [m |-> rejected, queue |-> Tail(queue)], m.parents[name])
         IN  RejectModuleAndParents(failed.m, failed.queue, error)

(* The rest of the body, which runs with the graph installed.               *)
ResumeBody(m, turn, fulfilled) ==
    IF ~fulfilled THEN Err(m, turn.module)
    ELSE IF turn.rest = "later" THEN InlineAwait(m, Nothing)
    ELSE Ok(m)

FinishResumed(m, name, error) ==
    [m EXCEPT !.records[name].evaluating = FALSE, !.records[name].suspended = FALSE,
              !.records[name].evaluated = TRUE, !.records[name].error = error]

(* What the resumed body came to is recorded in the installed graph.  Under *)
(* a running body there is none: the continuation is gone by then, and the  *)
(* module stays suspended.                                                  *)
RecordResumed(run, name, rest) ==
    IF run.m.running # <<>> THEN Err(Drop(run.m), Unsupported)
    ELSE IF run.error = Unsupported THEN run
    ELSE IF run.error # NoError
    THEN Ok(RejectModuleAndParents(FinishResumed(run.m, name, run.error), <<name>>, run.error))
    ELSE IF rest = "twice" THEN Ok(SuspendModuleAwait(run.m, name, "await"))
    ELSE SettleModuleParents(SettleWaiters(FinishResumed(run.m, name, NoError), name), <<name>>)

(* resume_module_await                                                      *)
ResumeModuleAwait(m, turn, fulfilled) ==
    RecordResumed(ResumeBody(m, turn, fulfilled), turn.module, turn.rest)

(* An import() that failed is rejected, but not with the engine's error:    *)
(* error_value refuses it and the job ends with it.                         *)
RejectImport(run, target) ==
    IF run.error = Unsupported THEN run
    ELSE Ok(SettlePromise(run.m, target, FALSE, Reason(run.error)))

(* An import.defer() waits for the modules of the list that still run.      *)
AnswerDeferred(run, entry, target, list) ==
    LET running == {d \in Range(list) : run.m.records[d].evaluating}
    IN  IF run.error # NoError THEN RejectImport(run, target)
        ELSE IF running = {} THEN Ok(ResolvePromise(run.m, target, Plain(entry)))
        ELSE Ok([run.m EXCEPT !.deferred = Append(@, [promise |-> target, pending |-> running])])

(* dynamic_import_defer_job: the asynchronous dependencies start now, in    *)
(* order, up to the first error.                                            *)
ImportDeferred(m, entry, target) ==
    LET list == AsyncDependencies(m, entry)
        Start(acc, d) == IF acc.error # NoError THEN acc ELSE Eval(acc.m, d)
    IN  AnswerDeferred(FoldLeft(Start, Ok(m), list), entry, target, list)

(* Mutant: import() does not wait for an unfinished module.                 *)
AnswerImportAtOnce(run, entry, target) ==
    IF run.error # NoError THEN RejectImport(run, target)
    ELSE Ok(ResolvePromise(run.m, target, Plain(entry)))

(* An import() of an unfinished module waits for it.                        *)
AnswerImport(run, entry, target) ==
    LET record == run.m.records[entry]
    IN  IF run.error # NoError THEN RejectImport(run, target)
        ELSE IF record.evaluating \/ record.suspended
        THEN Ok([run.m EXCEPT !.waiters[entry] = Append(@, target),
                              !.joined = @ \cup IF record.suspended THEN {} ELSE {target}])
        ELSE Ok(ResolvePromise(run.m, target, Plain(entry)))

(* An evaluation, and the error of the record looked at again after it      *)
(* (execute_module_graph_inner).                                            *)
Recheck(run, entry) ==
    IF run.error # NoError THEN run ELSE Err(run.m, run.m.records[entry].error)

(* dynamic_import_job for the evaluation phase.  A finished module without  *)
(* an error of its own has that of its cycle.                               *)
ImportEvaluated(m, entry, target) ==
    LET seen == m.records[entry]
        inherited == IF seen.error # NoError THEN seen.error ELSE CycleRootError(m, entry)
        run == IF seen.evaluated THEN Err(m, inherited)
               ELSE IF seen.evaluating THEN Err(m, seen.error)
               ELSE Recheck(Eval(m, entry), entry)
    IN  AnswerImport(run, entry, target)

(* run_next_promise_job, for the two kinds of job this machine queues.      *)
RunTurn(m, job) ==
    LET turn == job.reaction
    IN  CASE turn.kind = "ModuleAwait" -> ResumeModuleAwait(m, turn, job.fulfilled)
          [] turn.kind = "DynamicImport" /\ turn.deferred ->
                 ImportDeferred(m, turn.entry, turn.target)
          [] OTHER -> ImportEvaluated(m, turn.entry, turn.target)

(* A script outside the graph calls import().                               *)
CallImport(entry, deferred) ==
    /\ Len(SelectSeq(vm.imports, LAMBDA i : ~i.inside)) < MaxImports
    /\ vm.imports = <<>> => entry = 1 /\ ~deferred
    /\ vm' = QueueImport(vm, entry, deferred, FALSE)
    /\ UNCHANGED graph

(* What a waiting module awaits settles at any time, either way.            *)
SettleAwaited(name, fulfilled) ==
    /\ vm.promises[name].reactions # <<>>
    /\ vm' = SettlePromise(vm, name, fulfilled, Plain(name))
    /\ UNCHANGED graph

(* One turn of the loop over the queue; an error ends that turn only.       *)
RunModuleJob ==
    /\ vm.jobs # <<>>
    /\ vm' = RunTurn(PopJob(vm), Head(vm.jobs)).m
    /\ UNCHANGED graph

ModuleNext ==
    /\ \/ \E entry \in Modules, deferred \in BOOLEAN : CallImport(entry, deferred)
       \/ \E name \in Modules, fulfilled \in BOOLEAN : SettleAwaited(name, fulfilled)
       \/ RunModuleJob
    /\ UNCHANGED program

--------------------------------------------------------------------------------
Unfinished(m, name) == m.records[name].evaluating \/ m.records[name].suspended

(* A module body is entered once, whatever imports, releases and namespace  *)
(* reads ask for it, and again only when the engine's own error had ended   *)
(* it; and not before the modules it imports have finished without error.   *)
(* Only inside a cycle of requests, or when an import() runs inside a body  *)
(* that holds the evaluation up, may a body see an unfinished import.       *)
DependenciesFirst ==
    program = "modules" =>
        /\ \A name \in Modules : vm.records[name].starts <= 1 + vm.records[name].refusals
        /\ \A e \in vm.early : e[1] \in Closure(AllEdges, {e[2]})

(* import() tells the truth: fulfilled only when the module has finished    *)
(* without error, rejected with its error or with that of its cycle.        *)
ImportsAgree ==
    program = "modules" => \A i \in DOMAIN vm.imports :
        LET promise == vm.promises[NumModules + i]
            record == vm.records[vm.imports[i].entry]
        IN  /\ promise.status = "fulfilled" /\ ~vm.imports[i].deferred =>
                  record.evaluated /\ record.error = NoError
            /\ promise.status = "rejected" /\ ~vm.imports[i].deferred =>
                  \E other \in Modules : /\ SameCycle(vm.imports[i].entry, other)
                                        /\ vm.records[other].error = promise.value[2]

Acyclic == \A e \in AllEdges : e[1] \notin Closure(AllEdges, {e[2]})
NothingToDo == vm.jobs = <<>> /\ \A name \in Modules : vm.promises[name].reactions = <<>>

(* When every awaited promise has settled and the queue is empty, no module *)
(* of an acyclic graph is left suspended and every import() has an answer.  *)
(* Two things the code does not do are excepted.  An error may end a turn   *)
(* half way: a released parent throws, a module is resumed under a running  *)
(* body, or an inline await finds the queue empty.  And an import() that    *)
(* ran under a running body and joined a module of its evaluation stack is  *)
(* not told when that module finishes there.                                *)
NobodyIsLeftWaiting ==
    program = "modules" =>
        (Acyclic /\ NothingToDo /\ ~vm.dropped =>
            /\ \A name \in Modules : ~Unfinished(vm, name)
            /\ \A i \in DOMAIN vm.imports :
                  Settled(vm, NumModules + i) \/ NumModules + i \in vm.joined)
================================================================================
