-------------------------------- MODULE Promises --------------------------------
(***************************************************************************)
(* Scripts that use promises: the constructor and its resolving functions, *)
(* then(), async functions and the combinators all, allSettled, any and    *)
(* race (vm/builtins/promise_core.rs and promise_combinators.rs), driven   *)
(* by the queue of PromiseJobs.                                            *)
(*                                                                         *)
(* vm has two more fields here.  pairs holds the resolving-function pairs, *)
(* each with the [[AlreadyResolved]] record its two functions share;       *)
(* combinators holds the state record of each combinator call.             *)
(*                                                                         *)
(* A script step may run between any two jobs: every handler a job calls   *)
(* may do what a script step does.  A handler is one of                    *)
(*   <<"none">>              no callable was given                         *)
(*   <<"script">>            a function that returns, throws, or returns a *)
(*                           promise                                       *)
(*   <<"resolve", k>>, <<"reject", k>>   the functions of pair k           *)
(*   <<"element", c, i, f>>  an element function of combinator c           *)
(***************************************************************************)
EXTENDS PromiseJobs, FiniteSets

CONSTANTS MaxPromises,     \* promises a script makes in all
          MaxThens,        \* calls of then()
          Combinators      \* the combinators a script may call

VARIABLES watched,         \* the promise each then() call was made on
          ran,             \* the then() calls whose job ran, in order
          adopted          \* <<p, q>>: p was resolved with the promise q

PromisesInit ==
    /\ program = "promises"
    /\ vm = [promises |-> <<>>, jobs |-> <<>>, pairs |-> <<>>, combinators |-> <<>>]
    /\ watched = <<>>
    /\ ran = <<>>
    /\ adopted = {}

Promises == DOMAIN vm.promises
NoTarget == 0

(* promise_resolving_functions: a fresh pair on promise p, which a script   *)
(* can only call when it was handed the two functions.                      *)
AddPair(m, p, held) ==
    [m EXCEPT !.pairs = Append(@, [promise |-> p, resolved |-> FALSE, held |-> held])]
LastPair(m) == Len(m.pairs)

(* Mutant: the two functions of a pair do not remember a first call.        *)
CallPairTwice(m, k, fulfill, value) ==
    IF fulfill THEN ResolvePromise(m, m.pairs[k].promise, value)
    ELSE SettlePromise(m, m.pairs[k].promise, FALSE, value)

(* promise_resolving_function: the first call of either function of a pair *)
(* counts, every later one is ignored.                                     *)
CallPair(m, k, fulfill, value) ==
    IF m.pairs[k].resolved THEN m
    ELSE LET used == [m EXCEPT !.pairs[k].resolved = TRUE]
             p == m.pairs[k].promise
         IN  IF fulfill THEN ResolvePromise(used, p, value)
             ELSE SettlePromise(used, p, FALSE, value)

(***************************************************************************)
(* Combinators.                                                            *)
(***************************************************************************)
Values(c, m) == <<"list", m.combinators[c].values>>

(* promise_element_function: once per index; the last outstanding one       *)
(* settles the capability.                                                  *)
CallElement(m, c, i, fulfilled, value) ==
    LET state == m.combinators[c]
        stored == IF state.kind = "allSettled"
                  THEN <<IF fulfilled THEN "fulfilled" ELSE "rejected", value>>
                  ELSE value
        counted == [m EXCEPT !.combinators[c].called = @ \cup {i},
                             !.combinators[c].values[i] = stored,
                             !.combinators[c].remaining = @ - 1]
    IN  IF i \in state.called THEN m
        ELSE IF counted.combinators[c].remaining # 0 THEN counted
        ELSE CallPair(counted, state.pair, state.kind # "any", Values(c, counted))

(* The handlers perform_combinator installs on the input at index i.        *)
OnFulfilled(m, c, i) ==
    CASE m.combinators[c].kind \in {"all", "allSettled"} -> <<"element", c, i, TRUE>>
      [] OTHER -> <<"resolve", m.combinators[c].pair>>
OnRejected(m, c, i) ==
    CASE m.combinators[c].kind \in {"any", "allSettled"} -> <<"element", c, i, FALSE>>
      [] OTHER -> <<"reject", m.combinators[c].pair>>

(* One turn of the loop: reserve a slot, count it, and wait on the input.   *)
WatchInput(m, c, p) ==
    LET i == Len(m.combinators[c].values) + 1
        reserved == [m EXCEPT !.combinators[c].values = Append(@, NoValue),
                              !.combinators[c].remaining = @ + 1]
    IN  PerformPromiseThen(reserved, p,
            [kind |-> "Then", target |-> NoTarget, id |-> 0,
             onFulfilled |-> OnFulfilled(m, c, i), onRejected |-> OnRejected(m, c, i)])

(* Mutant: the loop keeps the count it held.                                *)
ConcludeNothing(m, c) == m

(* combinator_conclude: the loop gives up the count it held.                *)
Conclude(m, c) ==
    LET done == [m EXCEPT !.combinators[c].remaining = @ - 1]
    IN  IF m.combinators[c].kind = "race" THEN m
        ELSE IF done.combinators[c].remaining # 0 THEN done
        ELSE CallPair(done, done.combinators[c].pair,
                      done.combinators[c].kind # "any", Values(c, done))

(* promise_combinator over a list of promises (C.resolve gives a promise    *)
(* back as it is).                                                          *)
CallCombinator(m, kind, inputs) ==
    LET made == AddPromise(m)
        own == Len(made.promises)
        paired == AddPair(made, own, FALSE)
        started == [paired EXCEPT !.combinators =
                       Append(@, [kind |-> kind, inputs |-> inputs, promise |-> own,
                                  pair |-> LastPair(paired), values |-> <<>>,
                                  called |-> {}, remaining |-> 1])]
        c == Len(started.combinators)
    IN  Conclude(FoldLeft(LAMBDA acc, p : WatchInput(acc, c, p), started, inputs), c)

(***************************************************************************)
(* Script steps.                                                           *)
(***************************************************************************)
Room == Len(vm.promises) < MaxPromises

(* new Promise(executor); the executor keeps the two functions.             *)
NewPromise ==
    /\ Room
    /\ vm' = AddPair(AddPromise(vm), Len(vm.promises) + 1, TRUE)
    /\ UNCHANGED <<watched, ran>>

ScriptPairs == {k \in DOMAIN vm.pairs : vm.pairs[k].held}

Outcomes(p) == {Plain(p)} \cup {PromiseValue(q) : q \in Promises}

CallResolvingFunction ==
    /\ \E k \in ScriptPairs :
          LET p == vm.pairs[k].promise
          IN  \/ \E value \in Outcomes(p) : vm' = CallPair(vm, k, TRUE, value)
              \/ vm' = CallPair(vm, k, FALSE, Reason(p))
    /\ vm' # vm
    /\ UNCHANGED <<watched, ran>>

(* promise_prototype_then with the default species: a derived promise and a *)
(* reaction.                                                                *)
Then(p, onFulfilled, onRejected) ==
    /\ Room /\ Len(watched) < MaxThens
    /\ watched' = Append(watched, p)
    /\ vm' = PerformPromiseThen(AddPromise(vm), p,
                [kind |-> "Then", target |-> Len(vm.promises) + 1, id |-> Len(watched) + 1,
                 onFulfilled |-> onFulfilled, onRejected |-> onRejected])
    /\ UNCHANGED ran

CallThen ==
    \E p \in Promises, onFulfilled, onRejected \in {<<"none">>, <<"script">>} :
        Then(p, onFulfilled, onRejected)

(* Calling an async function whose body first awaits p: its frame leaves    *)
(* the stack and waits, the caller gets the function's promise.             *)
CallAsyncFunction(p) ==
    /\ Room
    /\ vm' = PerformPromiseThen(AddPromise(vm), p,
                [kind |-> "AsyncAwait", target |-> Len(vm.promises) + 1])
    /\ UNCHANGED <<watched, ran>>

CombinatorCall ==
    \E kind \in Combinators, n \in 0 .. 2 :
        \E inputs \in [1 .. n -> Promises] :
            /\ Room
            /\ Len(vm.combinators) = 0
            /\ vm' = CallCombinator(vm, kind, inputs)
            /\ UNCHANGED <<watched, ran>>

(***************************************************************************)
(* run_next_promise_job.                                                   *)
(***************************************************************************)
(* Deliver a reaction's result to its derived promise.                      *)
Deliver(m, target, fulfilled, value) ==
    IF target = NoTarget THEN m
    ELSE IF fulfilled THEN ResolvePromise(m, target, value)
    ELSE SettlePromise(m, target, FALSE, value)

(* A handler called with value: the machines it may leave behind.           *)
AfterHandler(m, reaction, handler, fulfilled, value) ==
    CASE handler[1] = "none" -> {Deliver(m, reaction.target, fulfilled, value)}
      [] handler[1] = "script" ->
            {Deliver(m, reaction.target, TRUE, result) : result \in Outcomes(reaction.target)}
              \cup {Deliver(m, reaction.target, FALSE, Reason(reaction.target))}
      [] handler[1] = "resolve" -> {CallPair(m, handler[2], TRUE, value)}
      [] handler[1] = "reject" -> {CallPair(m, handler[2], FALSE, value)}
      [] handler[1] = "element" -> {CallElement(m, handler[2], handler[3], handler[4], value)}

ReactionJob(m, job) ==
    AfterHandler(m, job.reaction,
                 IF job.fulfilled THEN job.reaction.onFulfilled ELSE job.reaction.onRejected,
                 job.fulfilled, job.value)

(* NewPromiseResolveThenableJob: a fresh pair on the target is handed to    *)
(* the thenable's then().  The derived promise nobody holds is left out.    *)
ThenableJob(m, job) ==
    LET paired == AddPair(m, job.reaction.target, FALSE)
        k == LastPair(paired)
    IN  {PerformPromiseThen(paired, job.value[2],
            [kind |-> "Then", target |-> NoTarget, id |-> 0,
             onFulfilled |-> <<"resolve", k>>, onRejected |-> <<"reject", k>>])}

(* resume_async_await: the frame returns, throws, or awaits once more.  A   *)
(* rejected await that the body does not catch is a throw.                  *)
AsyncAwaitJob(m, job) ==
    LET target == job.reaction.target
    IN  {ResolvePromise(m, target, value) : value \in Outcomes(target)}
          \cup {SettlePromise(m, target, FALSE, IF job.fulfilled THEN Reason(target) ELSE job.value)}
          \cup {PerformPromiseThen(m, q, job.reaction) : q \in Promises}

RunJob(m, job) ==
    CASE job.reaction.kind = "Then" -> ReactionJob(m, job)
      [] job.reaction.kind = "Thenable" -> ThenableJob(m, job)
      [] job.reaction.kind = "AsyncAwait" -> AsyncAwaitJob(m, job)

RunNextPromiseJob ==
    /\ vm.jobs # <<>>
    /\ LET job == Head(vm.jobs)
       IN  /\ vm' \in RunJob(PopJob(vm), job)
           /\ ran' = IF job.reaction.kind = "Then" /\ job.reaction.id # 0
                     THEN Append(ran, job.reaction.id) ELSE ran
    /\ UNCHANGED watched

(* adopted only remembers: every adoption starts as a queued Thenable job.  *)
RecordAdoption ==
    adopted' = adopted \cup {<<job.reaction.target, job.value[2]>> :
                   job \in {j \in Range(vm'.jobs) : j.reaction.kind = "Thenable"}}

PromisesNext ==
    /\ \/ NewPromise
       \/ CallResolvingFunction
       \/ CallThen
       \/ \E p \in Promises : CallAsyncFunction(p)
       \/ CombinatorCall
       \/ RunNextPromiseJob
    /\ RecordAdoption
    /\ UNCHANGED program

--------------------------------------------------------------------------------
(***************************************************************************)
(* Properties.                                                             *)
(***************************************************************************)
Status(p) == vm.promises[p].status
ValueOf(p) == vm.promises[p].value
Idle == vm.jobs = <<>>

(* then() handlers of one promise run in the order they were registered,    *)
(* each once, whether they were registered before or after the promise      *)
(* settled (add_then_reaction queues, settle_promise extends the queue).    *)
HandlersRunInOrder ==
    /\ \A n, k \in DOMAIN ran : ran[n] = ran[k] => n = k
    /\ \A i, j \in DOMAIN watched :
          i < j /\ watched[i] = watched[j] =>
              \A n \in DOMAIN ran : ran[n] = j => \E k \in 1 .. n - 1 : ran[k] = i

(* A promise resolved with another one takes exactly that one's outcome:    *)
(* never before it, never a different one, and never later than the queue   *)
(* needs to drain (resolve_promise and the Thenable job).                   *)
AdoptionIsFaithful ==
    \A pair \in adopted :
        LET p == pair[1]
            q == pair[2]
        IN  /\ Status(p) # "pending" => Status(q) = Status(p) /\ ValueOf(q) = ValueOf(p)
            /\ Idle /\ Status(q) # "pending" => Status(p) # "pending"

(* The outcome ECMA-262 gives a combinator over inputs that settled so.     *)
AllOf(inputs, status) == \A i \in DOMAIN inputs : Status(inputs[i]) = status
SomeOf(inputs, status) == \E i \in DOMAIN inputs : Status(inputs[i]) = status
ListOf(inputs) == <<"list", [i \in DOMAIN inputs |-> ValueOf(inputs[i])]>>
SettlementsOf(inputs) ==
    <<"list", [i \in DOMAIN inputs |-> <<Status(inputs[i]), ValueOf(inputs[i])>>]>>

Justified(c) ==
    LET kind == vm.combinators[c].kind
        inputs == vm.combinators[c].inputs
        value == ValueOf(vm.combinators[c].promise)
        oneOf(status) == \E i \in DOMAIN inputs :
                            Status(inputs[i]) = status /\ ValueOf(inputs[i]) = value
    IN  CASE Status(vm.combinators[c].promise) = "pending" -> TRUE
          [] Status(vm.combinators[c].promise) = "fulfilled" ->
                CASE kind = "all" -> AllOf(inputs, "fulfilled") /\ value = ListOf(inputs)
                  [] kind = "allSettled" -> value = SettlementsOf(inputs)
                  [] OTHER -> oneOf("fulfilled")
          [] OTHER ->
                CASE kind = "any" -> AllOf(inputs, "rejected") /\ value = ListOf(inputs)
                  [] kind = "allSettled" -> FALSE
                  [] OTHER -> oneOf("rejected")

Decided(c) ==
    LET kind == vm.combinators[c].kind
        inputs == vm.combinators[c].inputs
    IN  CASE kind = "all" -> SomeOf(inputs, "rejected") \/ AllOf(inputs, "fulfilled")
          [] kind = "any" -> SomeOf(inputs, "fulfilled") \/ AllOf(inputs, "rejected")
          [] kind = "race" -> SomeOf(inputs, "fulfilled") \/ SomeOf(inputs, "rejected")
          [] OTHER -> ~SomeOf(inputs, "pending")

(* A combinator's promise says about its inputs what all, allSettled, any   *)
(* and race promise, values in input order, and is settled as soon as the   *)
(* queue has drained after its inputs decided it.  remainingElementsCount   *)
(* starts at one for the loop itself, so inputs that are settled already,   *)
(* an input given twice and an empty list all have to come out right.       *)
CombinatorsAreRight ==
    program = "promises" => \A c \in DOMAIN vm.combinators :
        /\ Justified(c)
        /\ Idle /\ Decided(c) => Status(vm.combinators[c].promise) # "pending"
================================================================================
