----------------------------- MODULE RegexWorker -----------------------------
(***************************************************************************)
(* Process-isolated regular expressions (bluejs/src/regex_worker.rs):      *)
(* threads of the engine compile, find and validate through helper         *)
(* processes taken from a shared pool, each behind an I/O thread that      *)
(* moves one request and one reply at a time through the helper's pipes.   *)
(*                                                                         *)
(* Five caches stand between a question and its answer: the accepted       *)
(* patterns and the memo of matches in the parent, the parent's mirror of  *)
(* what a helper holds (fields a find may leave out), and in the helper    *)
(* the compiled pattern, the subject and its canonicalized form.           *)
(*                                                                         *)
(* A match is what it was computed from, <<pattern, subject>>; the start   *)
(* index is part of the subject and the flags are part of the pattern.     *)
(***************************************************************************)
EXTENDS Integers, Sequences, FiniteSetsExt, Functions

CONSTANTS
    Threads,            \* threads that evaluate regular expressions
    Valid, Invalid,     \* patterns regress accepts and rejects
    Canonical,          \* those matched against the canonicalized subject
    Questions,          \* the operations each thread calls
    MaxCalls,           \* bound on the calls made in all
    MaxIdle,            \* MAX_IDLE_WORKERS
    AcceptedEntries,    \* ACCEPTED_ENTRIES
    MemoEntries         \* MEMO_ENTRIES

None == "none"

Op(kind, pattern, subject) == [kind |-> kind, pattern |-> pattern, subject |-> subject]

\* A call of compile or find has one pattern, a call of validate a list of them.
IsQuestion(q) ==
    /\ q = Op(q.kind, q.pattern, q.subject)
    /\ \/ q.kind = "compile" /\ q.pattern \in Valid \cup Invalid
       \/ q.kind = "find" /\ q.pattern \in Valid \cup Invalid /\ q.subject # None
       \/ q.kind = "validate" /\ q.pattern \in Seq(Valid \cup Invalid)

ASSUME RegexAssumption ==
    /\ Valid \cap Invalid = {} /\ Canonical \subseteq Valid /\ None \notin Valid \cup Invalid
    /\ \A t \in Threads : \A q \in Questions[t] : IsQuestion(q)
    /\ MaxCalls \in Nat /\ MaxIdle \in Nat
    /\ AcceptedEntries \in Nat \ {0} /\ MemoEntries \in Nat \ {0}

VARIABLES
    idle,       \* IDLE, the pool of helpers
    accepted,   \* ACCEPTED
    memo,       \* MEMO: results and the order they came in
    calls,      \* per thread, its operation, how far it is and its helper
    asked       \* calls made so far

regexVars == <<idle, accepted, memo, calls, asked>>

Shutdown == Op("shutdown", None, None)

Reply(type, value) == [type |-> type, value |-> value]
Broken == Reply("Broken", <<>>)     \* the I/O thread's Err
Failed == Reply("RegexWorker", <<>>)
TimedOut == Reply("RegexTimeout", <<>>)

\* A helper: its process, its I/O thread and the channels to it, the parent's
\* mirror, and what the process has cached.
NoHelper ==
    [process |-> "none", io |-> "none", requests |-> <<>>, replies |-> <<>>,
     stdin |-> <<>>, pattern |-> None, input |-> None,
     cached |-> None, cached_input |-> None, canonical_input |-> None]

\* start_from_path: the process is spawned and its I/O thread waits for READY.
Spawned == [NoHelper EXCEPT !.process = "up", !.io = "read"]

\* The helper of the operation thread t is in, and an operation on it.
Helper(t) == calls[t].helper
Update(t, helper) == calls' = [calls EXCEPT ![t].helper = helper]

-----------------------------------------------------------------------------
(* The helper process: serve_on.                                           *)

\* The pattern regress accepts replaces the one compiled before.
cache_pattern(h, p) == IF p \in Valid THEN [h EXCEPT !.cached = p] ELSE h

Exit(h) ==
    [h EXCEPT !.process = "dead", !.stdin = <<>>,
              !.cached = None, !.cached_input = None, !.canonical_input = None]

\* A reply reaches the parent through the I/O thread, which reads it at once.
Write(h, reply) ==
    [h EXCEPT !.stdin = <<>>, !.replies = Append(@, reply), !.io = "take"]

ServeCompile(h, request) ==
    Write(cache_pattern(h, request.pattern),
          Reply(IF request.pattern \in Valid THEN "Compiled" ELSE "SyntaxError", <<>>))

\* A subject that is sent replaces the cached one and its canonical form.
TakeSubject(h, subject) ==
    IF subject = None THEN h
    ELSE [h EXCEPT !.cached_input = subject, !.canonical_input = None]

\* get_or_insert_with: canonicalized once per subject, when first needed.
Canonicalize(h) ==
    IF h.cached \in Canonical /\ h.canonical_input = None
    THEN [h EXCEPT !.canonical_input = h.cached_input]
    ELSE h

ServeFind(h, request) ==
    LET ready == Canonicalize(TakeSubject(cache_pattern(h, request.pattern), request.subject))
        subject == IF ready.cached \in Canonical THEN ready.canonical_input
                   ELSE ready.cached_input
    IN  IF request.pattern \in Invalid THEN Write(h, Reply("SyntaxError", <<>>))
        ELSE IF None \in {ready.cached, ready.cached_input} THEN Exit(h)
        ELSE Write(ready, Reply("Found", <<ready.cached, subject>>))

\* The list is compiled from front to back.
ServeValidate(h, request) ==
    LET valid == {i \in DOMAIN request.pattern : request.pattern[i] \in Valid}
        ready == IF valid = {} THEN h ELSE cache_pattern(h, request.pattern[Max(valid)])
    IN  Write(ready, Reply("Validated", [i \in DOMAIN request.pattern |->
                                            IF i \in valid THEN "yes" ELSE "no"]))

\* One turn of the loop.  A match may take for ever.
Serve(t) ==
    LET h == Helper(t) request == Head(h.stdin)
    IN  /\ h.process = "up" /\ h.stdin # <<>>
        /\ \/ request.kind = "compile" /\ Update(t, ServeCompile(h, request))
           \/ request.kind = "find" /\ Update(t, ServeFind(h, request))
           \/ request.kind = "validate" /\ Update(t, ServeValidate(h, request))
        /\ UNCHANGED <<idle, accepted, memo, asked>>

ServeShutdown(t) ==
    /\ Helper(t).process = "up" /\ Helper(t).stdin = <<Shutdown>>
    /\ Update(t, Exit(Helper(t)))
    /\ UNCHANGED <<idle, accepted, memo, asked>>

\* A process may die in use or in the pool.
Crash(t) ==
    /\ Helper(t).process = "up"
    /\ Update(t, Exit(Helper(t)))
    /\ UNCHANGED <<idle, accepted, memo, asked>>

CrashIdle ==
    /\ \E i \in DOMAIN idle :
          idle[i].process = "up" /\ idle' = [idle EXCEPT ![i] = Exit(@)]
    /\ UNCHANGED <<accepted, memo, calls, asked>>

-----------------------------------------------------------------------------
(* The I/O thread of start_from_path.                                      *)

\* A read or a write fails once the process is gone; the thread passes the
\* error on and ends.
IoThread(t) ==
    LET h == Helper(t)
        broken == [h EXCEPT !.replies = Append(@, Broken), !.io = "gone"]
    IN  /\ \/ h.io = "read" /\ h.process = "dead" /\ Update(t, broken)
           \/ h.io = "take" /\ h.requests # <<>> /\ h.process = "dead" /\ Update(t, broken)
           \/ h.io = "take" /\ h.requests # <<>> /\ h.process = "up"
              /\ Update(t, [h EXCEPT !.requests = Tail(@), !.stdin = <<Head(h.requests)>>,
                                     !.io = "read"])
        /\ UNCHANGED <<idle, accepted, memo, asked>>

-----------------------------------------------------------------------------
(* A thread of the engine: compile, find, validate and with_worker.        *)

Resting == [at |-> "rest", op |-> Shutdown, helper |-> NoHelper, reply |-> Broken]

At(t, place) == calls[t].at = place

Go(t, place) == calls' = [calls EXCEPT ![t].at = place]
GoWith(t, place, reply) == calls' = [calls EXCEPT ![t].at = place, ![t].reply = reply]
UpdateAndGo(t, helper, place) ==
    calls' = [calls EXCEPT ![t].helper = helper, ![t].at = place]

\* ACCEPTED and MEMO are asked before any helper.
Known(op) ==
    \/ op.kind = "compile" /\ op.pattern \in accepted
    \/ op.kind = "find" /\ op \in DOMAIN memo.results

Begin(t) ==
    /\ At(t, "rest")
    /\ asked < MaxCalls /\ asked' = asked + 1
    /\ \E op \in Questions[t] :
          calls' = [calls EXCEPT ![t] =
              IF ~Known(op) THEN [@ EXCEPT !.at = "pool", !.op = op]
              ELSE [@ EXCEPT !.at = "return", !.op = op, !.reply =
                       IF op.kind = "compile" THEN Reply("Compiled", <<>>)
                       ELSE memo.results[op]]]
    /\ UNCHANGED <<idle, accepted, memo>>

\* The idle helper put back last, or a new process.
TakeWorker(t) ==
    /\ At(t, "pool")
    /\ \/ /\ idle # <<>> /\ UpdateAndGo(t, idle[Len(idle)], "send")
          /\ idle' = SubSeq(idle, 1, Len(idle) - 1)
       \/ idle = <<>> /\ UpdateAndGo(t, Spawned, "start") /\ UNCHANGED idle
       \/ idle = <<>> /\ GoWith(t, "return", Failed) /\ UNCHANGED idle      \* spawn failed
    /\ UNCHANGED <<accepted, memo, asked>>

\* Worker::drop up to the join.  All that matters of the helper from here on is
\* its process, its I/O thread and the channel to it, which ends in Shutdown.
Dropping(call) ==
    [call EXCEPT !.at = "join", !.helper =
        [NoHelper EXCEPT !.process = call.helper.process, !.io = call.helper.io,
                         !.stdin = call.helper.stdin,
                         !.requests = Append(call.helper.requests, Shutdown)]]

\* Mutant: a failed helper is asked to stop like any other.
FailPolitely(call, reply) ==
    Dropping([call EXCEPT !.reply = reply, !.op = Shutdown])

\* An operation that failed: its helper is killed before it is dropped, and
\* what was asked of it does not matter any more.
Fail(call, reply) ==
    Dropping([call EXCEPT !.reply = reply, !.op = Shutdown, !.helper = Exit(@)])

\* recv_timeout of start_from_path: READY, or an error or STARTUP_TIMEOUT.
Start(t) ==
    /\ At(t, "start")
    /\ \/ /\ Helper(t).process = "up"
          /\ UpdateAndGo(t, [Helper(t) EXCEPT !.io = "take"], "send")
       \/ calls' = [calls EXCEPT ![t] = Fail(@, Failed)]
    /\ UNCHANGED <<idle, accepted, memo, asked>>

\* Mutant: the subject is left out whenever the pattern may be.
RequestOfPattern(h, op) ==
    IF op.kind = "find" /\ h.pattern = op.pattern THEN Op("find", None, None) ELSE op

\* A find leaves out what the mirror says the helper has.
Request(h, op) ==
    IF op.kind # "find" THEN op
    ELSE Op("find", IF h.pattern = op.pattern THEN None ELSE op.pattern,
                    IF h.input = op.subject THEN None ELSE op.subject)

\* The request goes to the I/O thread, which is there: it only ends after an
\* error, and a helper that reported one is not in the pool.  A request over
\* MAX_FRAME is not sent.
Send(t) ==
    LET request == Request(Helper(t), calls[t].op)
    IN  /\ At(t, "send")
        /\ \/ UpdateAndGo(t, [Helper(t) EXCEPT !.requests = Append(@, request)], "wait")
           \/ calls' = [calls EXCEPT ![t] = Fail(@, Failed)]
        /\ UNCHANGED <<idle, accepted, memo, asked>>

\* What the operation expects to hear from a healthy helper.
Expected(op) ==
    CASE op.kind = "compile" -> {"Compiled", "SyntaxError"}
      [] op.kind = "find" -> {"Found"}
      [] op.kind = "validate" -> {"Validated"}

\* The mirror after an answer: compile and find note what the helper now has,
\* validate forgets.
Mirror(h, op, reply) ==
    CASE reply.type = "Compiled" -> [h EXCEPT !.pattern = op.pattern]
      [] reply.type = "Found" -> [h EXCEPT !.pattern = op.pattern, !.input = op.subject]
      [] reply.type = "Validated" -> [h EXCEPT !.pattern = None, !.input = None]
      [] OTHER -> h

\* The end of transact: the answer, an error in its place, or the deadline.
Receive(t) ==
    LET op == calls[t].op
        reply == Head(Helper(t).replies)
        read == [Helper(t) EXCEPT !.replies = Tail(@)]
    IN  /\ At(t, "wait")
        /\ calls' = [calls EXCEPT ![t] =
              IF Helper(t).replies = <<>> THEN Fail(@, TimedOut)
              ELSE IF reply.type \notin Expected(op) THEN Fail(@, Failed)
              ELSE [@ EXCEPT !.helper = Mirror(read, op, reply), !.reply = reply,
                             !.at = "recycle"]]
        /\ UNCHANGED <<idle, accepted, memo, asked>>

\* recycle_worker: back into the pool unless it is full.
Recycle(t) ==
    /\ At(t, "recycle")
    /\ IF Len(idle) < MaxIdle
       THEN idle' = Append(idle, Helper(t)) /\ UpdateAndGo(t, NoHelper, "record")
       ELSE Go(t, "surplus") /\ UNCHANGED idle
    /\ UNCHANGED <<accepted, memo, asked>>

\* The other end of recycle_worker: an excess healthy helper.
Retire(t) ==
    /\ At(t, "surplus")
    /\ calls' = [calls EXCEPT ![t] = Dropping(@)]
    /\ UNCHANGED <<idle, accepted, memo, asked>>

\* The I/O thread has ended and the process has been waited for.
Join(t) ==
    /\ At(t, "join")
    /\ Helper(t).io = "gone" /\ Helper(t).process = "dead"
    /\ UpdateAndGo(t, NoHelper, "record")
    /\ UNCHANGED <<idle, accepted, memo, asked>>

\* FindMemo::remember: a full memo gives up its oldest result.
remember(m, op, reply) ==
    IF op \in DOMAIN m.results THEN m ELSE
    LET full == Cardinality(DOMAIN m.results) >= MemoEntries
        kept == DOMAIN m.results \ (IF full THEN {Head(m.order)} ELSE {})
    IN  [results |-> [k \in kept \cup {op} |-> IF k = op THEN reply ELSE m.results[k]],
         order |-> Append(IF full THEN Tail(m.order) ELSE m.order, op)]

accept(p) == (IF Cardinality(accepted) >= AcceptedEntries THEN {} ELSE accepted) \cup {p}

\* What the helper said is noted, unless its key is too long.
Record(t) ==
    LET op == calls[t].op reply == calls[t].reply
    IN  /\ At(t, "record")
        /\ \/ reply.type = "Compiled" /\ accepted' = accept(op.pattern) /\ UNCHANGED memo
           \/ reply.type = "Found" /\ memo' = remember(memo, op, reply) /\ UNCHANGED accepted
           \/ UNCHANGED <<accepted, memo>>
        /\ calls' = [calls EXCEPT ![t] = Resting]
        /\ UNCHANGED <<idle, asked>>

Return(t) ==
    /\ At(t, "return")
    /\ calls' = [calls EXCEPT ![t] = Resting]
    /\ UNCHANGED <<idle, accepted, memo, asked>>

-----------------------------------------------------------------------------
InitRegex ==
    /\ idle = <<>>
    /\ accepted = {}
    /\ memo = [results |-> <<>>, order |-> <<>>]
    /\ calls = [t \in Threads |-> Resting]
    /\ asked = 0

GoOn(t) ==
    \/ TakeWorker(t) \/ Start(t) \/ Send(t) \/ Receive(t)
    \/ Recycle(t) \/ Retire(t) \/ Join(t) \/ Record(t) \/ Return(t)

NextRegex ==
    \/ \E t \in Threads : Begin(t) \/ GoOn(t)
    \/ \E t \in Threads : IoThread(t) \/ Serve(t) \/ ServeShutdown(t) \/ Crash(t)
    \/ CrashIdle

SpecRegex == InitRegex /\ [][NextRegex]_regexVars

-----------------------------------------------------------------------------
(* Properties.                                                             *)

\* What the operation would answer if nothing were cached, pooled or shared.
Answer(op) ==
    CASE op.kind = "compile" ->
            Reply(IF op.pattern \in Valid THEN "Compiled" ELSE "SyntaxError", <<>>)
      [] op.kind = "find" -> Reply("Found", <<op.pattern, op.subject>>)
      [] op.kind = "validate" ->
            Reply("Validated", [i \in DOMAIN op.pattern |->
                                   IF op.pattern[i] \in Valid THEN "yes" ELSE "no"])

\* An operation that does not fail answers its own question, whichever of the
\* caches it was served from, whoever used the helper before it and whether or
\* not an earlier answer came too late: the parent leaves a field out of a
\* request only if this helper holds that very value.  Two threads that record
\* one match at a time leave it once in the memo's queue and once in its map,
\* as remember's two expects need.
AnswersAreRight ==
    /\ \A t \in Threads :
          calls[t].at \in {"record", "return"} /\ calls[t].reply \notin {Failed, TimedOut} =>
              calls[t].reply = Answer(calls[t].op)
    /\ Range(memo.order) = DOMAIN memo.results
    /\ Len(memo.order) = Cardinality(DOMAIN memo.results)

\* Every operation comes to an end although a match may take for ever and a
\* helper may die at any point: the deadline ends the wait, and dropping the
\* helper joins an I/O thread that the kill has set free.
EveryOperationEnds == \A t \in Threads : ~At(t, "rest") ~> At(t, "rest")
=============================================================================
