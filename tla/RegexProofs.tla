----------------------------- MODULE RegexProofs -----------------------------
(***************************************************************************)
(* Proofs about the process-isolated regular expressions: an operation      *)
(* that does not fail answers its own question, whichever cache serves it,  *)
(* whichever helper, and whatever happened to that helper before.           *)
(***************************************************************************)
EXTENDS RegexWorker, SequenceTheorems, TLAPS

-----------------------------------------------------------------------------
(* The invariant: what a helper, an operation and the caches may hold.     *)

IsHelper(h) ==
    h = [process |-> h.process, io |-> h.io, requests |-> h.requests, replies |-> h.replies,
         stdin |-> h.stdin, pattern |-> h.pattern, input |-> h.input, cached |-> h.cached,
         cached_input |-> h.cached_input, canonical_input |-> h.canonical_input]

IsCall(c) == c = [at |-> c.at, op |-> c.op, helper |-> c.helper, reply |-> c.reply]

\* What the parent believes a live helper to hold, it holds.
Synced(h) ==
    h.process = "up" =>
        /\ h.pattern # None => h.cached = h.pattern
        /\ h.input # None => h.cached_input = h.input
        /\ h.canonical_input \in {None, h.cached_input}

Quiet(h) == h.requests = <<>> /\ h.stdin = <<>> /\ h.replies = <<>>

\* A helper no operation is using.
Clean(h) == h.io = "take" /\ Quiet(h) /\ Synced(h)

\* One that has not said READY yet.
Starting(h) == h.process = "up" => h = Spawned

\* One that was asked op: the request is with the I/O thread, with the process,
\* lost with the process, answered, or given up.
Queued(h, op) ==
    /\ h.io = "take" /\ h.requests = <<Request(h, op)>> /\ h.stdin = <<>> /\ h.replies = <<>>
    /\ Synced(h)
Passed(h, op) ==
    /\ h.io = "read" /\ h.requests = <<>> /\ h.stdin = <<Request(h, op)>> /\ h.replies = <<>>
    /\ h.process = "up" /\ Synced(h)
Lost(h) == h.io = "read" /\ Quiet(h) /\ h.process = "dead"
Replied(h, op) ==
    /\ h.io = "take" /\ h.requests = <<>> /\ h.stdin = <<>>
    /\ \E reply : /\ h.replies = <<reply>>
                  /\ reply.type \in Expected(op) =>
                        reply = Answer(op) /\ Synced(Mirror(h, op, reply))
GivenUp(h) == h.io = "gone" /\ h.replies = <<Broken>> /\ h.process = "dead"
Waiting(h, op) == Queued(h, op) \/ Passed(h, op) \/ Lost(h) \/ Replied(h, op) \/ GivenUp(h)

Answered(op, reply) ==
    reply \in {Failed, TimedOut} \/ (IsQuestion(op) /\ reply = Answer(op))

\* What holds of a thread's operation at each of its steps.
CallOk(c) ==
    /\ IsCall(c) /\ IsHelper(c.helper)
    /\ c.at \in {"pool", "start", "send", "wait"} => IsQuestion(c.op)
    /\ c.at = "start" => Starting(c.helper)
    /\ c.at \in {"send", "recycle"} => Clean(c.helper)
    /\ c.at = "wait" => Waiting(c.helper, c.op)
    /\ c.at \in {"recycle", "surplus", "join", "record", "return"} => Answered(c.op, c.reply)

\* A queue that lists the elements of a finite set, each once.
Lists(queue, S) ==
    /\ IsFiniteSet(S)
    /\ queue \in Seq(S)
    /\ \A i, j \in DOMAIN queue : queue[i] = queue[j] => i = j
    /\ \A k \in S : \E i \in DOMAIN queue : queue[i] = k
    /\ Len(queue) = Cardinality(S)

\* The memo's queue lists the keys of its map, and its results are right.
MemoOk(m) ==
    /\ m = [results |-> m.results, order |-> m.order]
    /\ Lists(m.order, DOMAIN m.results)
    /\ \A op \in DOMAIN m.results : IsQuestion(op) /\ op.kind = "find" /\ m.results[op] = Answer(op)

IdleOk(pool) ==
    /\ pool \in Seq({pool[i] : i \in DOMAIN pool})
    /\ \A i \in DOMAIN pool : IsHelper(pool[i]) /\ Clean(pool[i])

\* The inductive invariant of the regular expression operations.
RegexInv ==
    /\ IdleOk(idle)
    /\ accepted \subseteq Valid
    /\ MemoOk(memo)
    /\ calls = [t \in Threads |-> calls[t]] /\ \A t \in Threads : CallOk(calls[t])

\* A helper whose process has died keeps what the parent has of it.
LEMMA ExitFields ==
    ASSUME NEW h, IsHelper(h), NEW x, x = Exit(h)
    PROVE  /\ IsHelper(x) /\ x.process = "dead" /\ x.io = h.io /\ x.requests = h.requests
           /\ x.replies = h.replies /\ x.stdin = <<>> /\ x.pattern = h.pattern
           /\ x.input = h.input
  BY Zenon DEF IsHelper, Exit

\* A reply leaves the helper as it was but for its channels.
LEMMA WriteFields ==
    ASSUME NEW h, IsHelper(h), NEW reply, NEW x, x = Write(h, reply)
    PROVE  /\ IsHelper(x) /\ x.process = h.process /\ x.io = "take" /\ x.requests = h.requests
           /\ x.replies = Append(h.replies, reply) /\ x.stdin = <<>> /\ x.pattern = h.pattern
           /\ x.input = h.input /\ x.cached = h.cached /\ x.cached_input = h.cached_input
           /\ x.canonical_input = h.canonical_input
  BY Zenon DEF IsHelper, Write

\* Only the compiled pattern is replaced, and by a valid one.
LEMMA CacheFields ==
    ASSUME NEW h, IsHelper(h), NEW p, NEW x, x = cache_pattern(h, p)
    PROVE  /\ IsHelper(x) /\ x.process = h.process /\ x.io = h.io /\ x.requests = h.requests
           /\ x.replies = h.replies /\ x.stdin = h.stdin /\ x.pattern = h.pattern
           /\ x.input = h.input /\ x.cached_input = h.cached_input
           /\ x.canonical_input = h.canonical_input
           /\ p \in Valid => x.cached = p
           /\ p \notin Valid => x.cached = h.cached
  BY DEF IsHelper, cache_pattern

\* The subject is replaced with its canonical form, or neither.
LEMMA SubjectFields ==
    ASSUME NEW h, IsHelper(h), NEW s, NEW x, x = TakeSubject(h, s)
    PROVE  /\ IsHelper(x) /\ x.process = h.process /\ x.io = h.io /\ x.requests = h.requests
           /\ x.replies = h.replies /\ x.stdin = h.stdin /\ x.pattern = h.pattern
           /\ x.input = h.input /\ x.cached = h.cached
           /\ s = None => x.cached_input = h.cached_input /\ x.canonical_input = h.canonical_input
           /\ s # None => x.cached_input = s /\ x.canonical_input = None
  BY Zenon DEF IsHelper, TakeSubject

\* The canonical form is filled in when it is needed and missing.
LEMMA CanonicalFields ==
    ASSUME NEW h, IsHelper(h), NEW x, x = Canonicalize(h)
    PROVE  /\ IsHelper(x) /\ x.process = h.process /\ x.io = h.io /\ x.requests = h.requests
           /\ x.replies = h.replies /\ x.stdin = h.stdin /\ x.pattern = h.pattern
           /\ x.input = h.input /\ x.cached = h.cached /\ x.cached_input = h.cached_input
           /\ h.cached \in Canonical /\ h.canonical_input = None =>
                 x.canonical_input = h.cached_input
           /\ ~(h.cached \in Canonical /\ h.canonical_input = None) =>
                 x.canonical_input = h.canonical_input
  BY DEF IsHelper, Canonicalize

\* The mirror only notes the pattern and the subject.
LEMMA MirrorFields ==
    ASSUME NEW h, IsHelper(h), NEW op, NEW reply, NEW x, x = Mirror(h, op, reply)
    PROVE  /\ IsHelper(x) /\ x.process = h.process /\ x.io = h.io /\ x.requests = h.requests
           /\ x.replies = h.replies /\ x.stdin = h.stdin /\ x.cached = h.cached
           /\ x.cached_input = h.cached_input /\ x.canonical_input = h.canonical_input
           /\ reply.type = "Compiled" => x.pattern = op.pattern /\ x.input = h.input
           /\ reply.type = "Found" => x.pattern = op.pattern /\ x.input = op.subject
           /\ reply.type = "Validated" => x.pattern = None /\ x.input = None
           /\ reply.type \notin {"Compiled", "Found", "Validated"} => x = h
<1>1. CASE reply.type = "Compiled"
  BY <1>1 DEF IsHelper, Mirror
<1>2. CASE reply.type = "Found"
  BY <1>2, Zenon DEF IsHelper, Mirror
<1>3. CASE reply.type = "Validated"
  BY <1>3, Zenon DEF IsHelper, Mirror
<1>4. CASE reply.type \notin {"Compiled", "Found", "Validated"}
  BY <1>4 DEF Mirror
<1>5. QED
  BY <1>1, <1>2, <1>3, <1>4

\* The end of the process harms no operation: a request is lost with it, a
\* reply is not.
LEMMA ExitKeeps ==
    ASSUME NEW h, IsHelper(h), NEW x, x = Exit(h), NEW op
    PROVE  /\ IsHelper(x) /\ Starting(x)
           /\ Clean(h) => Clean(x)
           /\ Waiting(h, op) => Waiting(x, op)
<1>1. /\ IsHelper(x) /\ x.process = "dead" /\ x.io = h.io /\ x.requests = h.requests
      /\ x.replies = h.replies /\ x.stdin = <<>> /\ x.pattern = h.pattern /\ x.input = h.input
  BY ExitFields
<1>2. Synced(x) /\ Starting(x)
  BY <1>1 DEF Synced, Starting
<1>3. Clean(h) => Clean(x)
  BY <1>1, <1>2 DEF Clean, Quiet
<1>4. Queued(h, op) => Queued(x, op)
  <2>1. Request(x, op) = Request(h, op)
    BY <1>1 DEF Request
  <2>2. QED
    BY <1>1, <1>2, <2>1 DEF Queued
<1>5. Passed(h, op) \/ Lost(h) => Lost(x)
  BY <1>1 DEF Passed, Lost, Quiet
<1>6. Replied(h, op) => Replied(x, op)
  <2>1. \A reply : Synced(Mirror(x, op, reply))
    BY <1>1, MirrorFields DEF Synced
  <2>2. QED
    BY <1>1, <2>1 DEF Replied
<1>7. GivenUp(h) => GivenUp(x)
  BY <1>1 DEF GivenUp
<1>8. QED
  BY <1>1, <1>2, <1>3, <1>4, <1>5, <1>6, <1>7 DEF Waiting

\* A helper that answers right, and whose mirror will be right, has replied.
LEMMA WriteReplies ==
    ASSUME NEW h, IsHelper(h), h.requests = <<>>, h.replies = <<>>, NEW op, NEW reply,
           NEW x, x = Write(h, reply),
           reply.type \in Expected(op) => reply = Answer(op) /\ Synced(Mirror(x, op, reply))
    PROVE  IsHelper(x) /\ Waiting(x, op)
<1>1. /\ IsHelper(x) /\ x.io = "take" /\ x.requests = <<>> /\ x.stdin = <<>>
      /\ x.replies = Append(h.replies, reply)
  BY WriteFields
<1>2. x.replies = <<reply>>
  BY <1>1
<1>3. QED
  BY <1>1, <1>2 DEF Waiting, Replied

\* compile: the accepted pattern is the cached one.
LEMMA ServeCompileRight ==
    ASSUME NEW h, IsHelper(h), NEW op, IsQuestion(op), op.kind = "compile", Passed(h, op),
           NEW x, x = ServeCompile(h, Request(h, op))
    PROVE  IsHelper(x) /\ Waiting(x, op)
<1>1. Request(h, op) = op
  BY DEF Request
<1>2. PICK y : y = cache_pattern(h, op.pattern)
  OBVIOUS
<1>3. /\ IsHelper(y) /\ y.process = h.process /\ y.requests = <<>> /\ y.replies = <<>>
      /\ y.pattern = h.pattern /\ y.input = h.input /\ y.cached_input = h.cached_input
      /\ y.canonical_input = h.canonical_input
      /\ op.pattern \in Valid => y.cached = op.pattern
      /\ op.pattern \notin Valid => y.cached = h.cached
  BY <1>2, CacheFields DEF Passed
<1>4. PICK reply : reply = Reply(IF op.pattern \in Valid THEN "Compiled" ELSE "SyntaxError", <<>>)
  OBVIOUS
<1>5. x = Write(y, reply)
  BY <1>1, <1>2, <1>4 DEF ServeCompile
<1>6. reply = Answer(op)
  BY <1>4 DEF Answer
<1>7. /\ op.pattern \in Valid => reply.type = "Compiled"
      /\ op.pattern \notin Valid => reply.type = "SyntaxError"
  BY <1>4 DEF Reply
<1>8. Synced(Mirror(x, op, reply))
  <2>1. PICK z : z = Mirror(x, op, reply)
    OBVIOUS
  <2>2. /\ IsHelper(x) /\ x.pattern = y.pattern /\ x.input = y.input /\ x.cached = y.cached
        /\ x.cached_input = y.cached_input /\ x.canonical_input = y.canonical_input
        /\ x.process = y.process
    BY <1>3, <1>5, WriteFields
  <2>3. /\ z.process = x.process /\ z.cached = x.cached /\ z.cached_input = x.cached_input
        /\ z.canonical_input = x.canonical_input
        /\ reply.type = "Compiled" => z.pattern = op.pattern /\ z.input = x.input
        /\ reply.type = "SyntaxError" => z = x
    BY <2>1, <2>2, MirrorFields
  <2>4. Synced(h)
    BY DEF Passed
  <2>5. Synced(z)
    BY <1>3, <1>7, <2>2, <2>3, <2>4 DEF Synced
  <2>6. QED
    BY <2>1, <2>5
<1>9. QED
  BY <1>3, <1>5, <1>6, <1>8, WriteReplies

\* validate: whatever is cached afterwards, the mirror expects nothing.
LEMMA ServeValidateRight ==
    ASSUME NEW h, IsHelper(h), NEW op, IsQuestion(op), op.kind = "validate", Passed(h, op),
           NEW x, x = ServeValidate(h, Request(h, op))
    PROVE  IsHelper(x) /\ Waiting(x, op)
<1>1. Request(h, op) = op
  BY DEF Request
<1>2. PICK valid : valid = {i \in DOMAIN op.pattern : op.pattern[i] \in Valid}
  BY Zenon
<1>3. PICK y : y = IF valid = {} THEN h ELSE cache_pattern(h, op.pattern[Max(valid)])
  OBVIOUS
<1>4. /\ IsHelper(y) /\ y.process = h.process /\ y.requests = <<>> /\ y.replies = <<>>
      /\ y.pattern = h.pattern /\ y.input = h.input /\ y.cached_input = h.cached_input
      /\ y.canonical_input = h.canonical_input
  BY <1>3, CacheFields DEF Passed
<1>5. PICK reply : reply = Reply("Validated", [i \in DOMAIN op.pattern |->
                                                   IF i \in valid THEN "yes" ELSE "no"])
  OBVIOUS
<1>6. x = Write(y, reply)
  BY <1>1, <1>2, <1>3, <1>5, Zenon DEF ServeValidate
<1>7. reply = Answer(op)
  <2>1. [i \in DOMAIN op.pattern |-> IF i \in valid THEN "yes" ELSE "no"]
            = [i \in DOMAIN op.pattern |-> IF op.pattern[i] \in Valid THEN "yes" ELSE "no"]
    BY <1>2
  <2>2. QED
    BY <1>5, <2>1 DEF Answer
<1>8. reply.type = "Validated"
  BY <1>5 DEF Reply
<1>9. Synced(Mirror(x, op, reply))
  <2>1. PICK z : z = Mirror(x, op, reply)
    OBVIOUS
  <2>2. /\ IsHelper(x) /\ x.pattern = y.pattern /\ x.input = y.input /\ x.cached = y.cached
        /\ x.cached_input = y.cached_input /\ x.canonical_input = y.canonical_input
        /\ x.process = y.process
    BY <1>4, <1>6, WriteFields
  <2>3. /\ z.process = x.process /\ z.cached = x.cached /\ z.cached_input = x.cached_input
        /\ z.canonical_input = x.canonical_input /\ z.pattern = None /\ z.input = None
    BY <1>8, <2>1, <2>2, MirrorFields
  <2>4. Synced(h)
    BY DEF Passed
  <2>5. Synced(z)
    BY <1>4, <2>2, <2>3, <2>4 DEF Synced
  <2>6. QED
    BY <2>1, <2>5
<1>10. QED
  BY <1>4, <1>6, <1>7, <1>9, WriteReplies

\* find: what the request leaves out, the helper has.
LEMMA ServeFindRight ==
    ASSUME NEW h, IsHelper(h), NEW op, IsQuestion(op), op.kind = "find", Passed(h, op),
           NEW x, x = ServeFind(h, Request(h, op))
    PROVE  IsHelper(x) /\ Waiting(x, op)
<1>1. PICK request : request = Request(h, op)
  OBVIOUS
<1>2. /\ h.pattern = op.pattern => request.pattern = None
      /\ h.pattern # op.pattern => request.pattern = op.pattern
      /\ h.input = op.subject => request.subject = None
      /\ h.input # op.subject => request.subject = op.subject
  BY <1>1 DEF Request, Op
<1>3. PICK y : y = cache_pattern(h, request.pattern)
  OBVIOUS
<1>4. PICK z : z = TakeSubject(y, request.subject)
  OBVIOUS
<1>5. PICK ready : ready = Canonicalize(z)
  OBVIOUS
<1>6. /\ op.pattern \in Valid \cup Invalid /\ op.pattern # None /\ op.subject # None
      /\ None \notin Valid \cup Invalid /\ Valid \cap Invalid = {}
  BY RegexAssumption DEF IsQuestion
<1>7. /\ h.process = "up" /\ h.requests = <<>> /\ h.replies = <<>>
      /\ h.pattern # None => h.cached = h.pattern
      /\ h.input # None => h.cached_input = h.input
      /\ h.canonical_input \in {None, h.cached_input}
  BY DEF Passed, Synced
<1>8. CASE request.pattern \in Invalid
  <2>1. x = Write(h, Reply("SyntaxError", <<>>))
    BY <1>1, <1>8 DEF ServeFind
  <2>2. Reply("SyntaxError", <<>>).type \notin Expected(op)
    BY DEF Reply, Expected
  <2>3. QED
    BY <1>7, <2>1, <2>2, WriteReplies
<1>9. CASE request.pattern \notin Invalid
  <2>1. /\ IsHelper(y) /\ y.process = "up" /\ y.requests = <<>> /\ y.replies = <<>>
        /\ y.pattern = h.pattern /\ y.input = h.input /\ y.cached_input = h.cached_input
        /\ y.canonical_input = h.canonical_input
        /\ request.pattern \in Valid => y.cached = request.pattern
        /\ request.pattern \notin Valid => y.cached = h.cached
    BY <1>3, <1>7, CacheFields
  <2>2. y.cached = op.pattern
    BY <1>2, <1>6, <1>7, <1>9, <2>1
  <2>3. /\ IsHelper(z) /\ z.process = "up" /\ z.requests = <<>> /\ z.replies = <<>>
        /\ z.pattern = h.pattern /\ z.input = h.input /\ z.cached = op.pattern
        /\ request.subject = None =>
              z.cached_input = h.cached_input /\ z.canonical_input = h.canonical_input
        /\ request.subject # None =>
              z.cached_input = request.subject /\ z.canonical_input = None
    BY <1>4, <2>1, <2>2, SubjectFields
  <2>4. z.cached_input = op.subject /\ z.canonical_input \in {None, op.subject}
    BY <1>2, <1>6, <1>7, <2>3
  <2>5. /\ IsHelper(ready) /\ ready.process = "up" /\ ready.requests = <<>>
        /\ ready.replies = <<>> /\ ready.cached = op.pattern /\ ready.cached_input = op.subject
        /\ op.pattern \in Canonical => ready.canonical_input = op.subject
        /\ op.pattern \notin Canonical => ready.canonical_input \in {None, op.subject}
    BY <1>5, <2>3, <2>4, CanonicalFields
  <2>6. PICK reply : reply = Reply("Found", <<op.pattern, op.subject>>)
    OBVIOUS
  <2>7. x = Write(ready, reply)
    <3>1. (IF ready.cached \in Canonical THEN ready.canonical_input ELSE ready.cached_input) = op.subject
      BY <2>5
    <3>2. None \notin {ready.cached, ready.cached_input}
      BY <1>6, <2>5
    <3>3. x = Write(ready, Reply("Found", <<ready.cached,
                  IF ready.cached \in Canonical THEN ready.canonical_input ELSE ready.cached_input>>))
      BY <1>1, <1>3, <1>4, <1>5, <1>9, <3>2, Zenon DEF ServeFind
    <3>4. QED
      BY <2>5, <2>6, <3>1, <3>3
  <2>8. reply = Answer(op) /\ reply.type = "Found"
    BY <2>6 DEF Answer, Reply
  <2>9. Synced(Mirror(x, op, reply))
    <3>1. PICK m : m = Mirror(x, op, reply)
      OBVIOUS
    <3>2. /\ IsHelper(x) /\ x.cached = op.pattern /\ x.cached_input = op.subject
          /\ x.canonical_input \in {None, op.subject} 
      BY <2>5, <2>7, WriteFields
    <3>3. /\ m.cached = x.cached /\ m.cached_input = x.cached_input
          /\ m.canonical_input = x.canonical_input
          /\ m.pattern = op.pattern /\ m.input = op.subject
      BY <2>8, <3>1, <3>2, MirrorFields
    <3>4. Synced(m)
      BY <3>2, <3>3 DEF Synced
    <3>5. QED
      BY <3>1, <3>4
  <2>10. QED
    BY <2>5, <2>7, <2>8, <2>9, WriteReplies
<1>10. QED
  BY <1>8, <1>9

\* Serving a request always leaves a helper.
LEMMA ServeHelper ==
    ASSUME NEW h, IsHelper(h), NEW request
    PROVE  /\ IsHelper(ServeCompile(h, request))
           /\ IsHelper(ServeFind(h, request))
           /\ IsHelper(ServeValidate(h, request))
<1>1. \A p : IsHelper(cache_pattern(h, p))
  BY CacheFields
<1>2. \A x, reply : IsHelper(x) => IsHelper(Write(x, reply))
  BY WriteFields
<1>3. IsHelper(ServeCompile(h, request))
  BY <1>1, <1>2 DEF ServeCompile
<1>4. IsHelper(ServeFind(h, request))
  <2>1. PICK y : y = cache_pattern(h, request.pattern)
    OBVIOUS
  <2>2. PICK z : z = TakeSubject(y, request.subject)
    OBVIOUS
  <2>3. PICK ready : ready = Canonicalize(z)
    OBVIOUS
  <2>4. IsHelper(ready)
    BY <1>1, <2>1, <2>2, <2>3, SubjectFields, CanonicalFields
  <2>5. IsHelper(Exit(h))
    BY ExitFields
  <2>6. QED
    BY <1>2, <2>1, <2>2, <2>3, <2>4, <2>5 DEF ServeFind
<1>5. IsHelper(ServeValidate(h, request))
  <2>1. PICK valid : valid = {i \in DOMAIN request.pattern : request.pattern[i] \in Valid}
    BY Zenon
  <2>2. PICK y : y = IF valid = {} THEN h ELSE cache_pattern(h, request.pattern[Max(valid)])
    OBVIOUS
  <2>3. IsHelper(y)
    BY <1>1, <2>2
  <2>4. QED
    BY <1>2, <2>1, <2>2, <2>3, Zenon DEF ServeValidate
<1>6. QED
  BY <1>3, <1>4, <1>5

SetCall(t, c) == calls' = [calls EXCEPT ![t] = c]

\* What a thread's helper may become while the thread is where it is.
Fits(c, x) ==
    /\ IsHelper(x)
    /\ c.at = "start" => Starting(x)
    /\ c.at \in {"send", "recycle"} => Clean(x)
    /\ c.at = "wait" => Waiting(x, c.op)

\* A step of one thread, or of its helper, that leaves the caches alone.
LEMMA OnlyCall ==
    ASSUME RegexInv, NEW t \in Threads, NEW c, CallOk(c), SetCall(t, c),
           UNCHANGED <<idle, accepted, memo>>
    PROVE  RegexInv'
<1>1. /\ calls' = [u \in Threads |-> calls'[u]] /\ calls'[t] = c
      /\ \A u \in Threads : u # t => calls'[u] = calls[u]
  BY DEF RegexInv, SetCall
<1>2. \A u \in Threads : CallOk(calls'[u])
  BY <1>1 DEF RegexInv
<1>3. QED
  BY <1>1, <1>2 DEF RegexInv

\* The helper of a thread does something the thread can live with.
LEMMA HelperStep ==
    ASSUME RegexInv, NEW t \in Threads, NEW x, Fits(calls[t], x), Update(t, x),
           UNCHANGED <<idle, accepted, memo>>
    PROVE  RegexInv'
<1>1. PICK c : c = [calls[t] EXCEPT !.helper = x]
  BY Zenon
<1>2. CallOk(calls[t]) /\ calls = [u \in Threads |-> calls[u]]
  BY DEF RegexInv
<1>3. IsCall(c) /\ c.helper = x /\ c.at = calls[t].at /\ c.op = calls[t].op /\ c.reply = calls[t].reply
  BY <1>1, <1>2 DEF CallOk, IsCall
<1>4. CallOk(c)
  BY <1>2, <1>3 DEF CallOk, Fits
<1>5. SetCall(t, c)
  BY <1>1, <1>2 DEF SetCall, Update
<1>6. QED
  BY <1>4, <1>5, OnlyCall

\* The process of a thread's helper ends, by itself or because it was told to.
LEMMA ExitStep ==
    ASSUME RegexInv, NEW t \in Threads, Crash(t) \/ ServeShutdown(t)
    PROVE  RegexInv'
<1>1. PICK x : x = Exit(Helper(t))
  OBVIOUS
<1>2. IsHelper(calls[t].helper) /\ CallOk(calls[t])
  BY DEF RegexInv, CallOk
<1>3. Fits(calls[t], x)
  BY <1>1, <1>2, ExitKeeps DEF CallOk, Fits, Helper
<1>4. QED
  BY <1>1, <1>3, HelperStep DEF Crash, ServeShutdown

\* A helper in the pool may die there.
LEMMA CrashIdleStep ==
    ASSUME RegexInv, CrashIdle
    PROVE  RegexInv'
<1>1. PICK i \in DOMAIN idle : idle[i].process = "up" /\ idle' = [idle EXCEPT ![i] = Exit(idle[i])]
  BY Zenon DEF CrashIdle
<1>2. PICK pool : pool = idle'
  OBVIOUS
<1>3. PICK S : S = {idle[j] : j \in DOMAIN idle} \cup {Exit(idle[i])}
  BY Zenon
<1>4. idle \in Seq(S) /\ DOMAIN idle = 1..Len(idle) /\ Len(idle) \in Nat
  <2>1. idle \in Seq({idle[j] : j \in DOMAIN idle})
    BY DEF RegexInv, IdleOk
  <2>2. /\ Len(idle) \in Nat /\ DOMAIN idle = 1..Len(idle)
        /\ idle \in [1..Len(idle) -> {idle[j] : j \in DOMAIN idle}]
    BY <2>1, LenProperties
  <2>3. idle \in [1..Len(idle) -> S]
    BY <1>3, <2>2
  <2>4. QED
    BY <2>2, <2>3, IsASeq
<1>5. /\ DOMAIN pool = DOMAIN idle /\ pool[i] = Exit(idle[i])
      /\ \A j \in DOMAIN idle : j # i => pool[j] = idle[j]
      /\ pool \in [1..Len(idle) -> {pool[j] : j \in DOMAIN pool}]
  BY <1>1, <1>2, <1>4
<1>6. pool \in Seq({pool[j] : j \in DOMAIN pool})
  <2>1. PICK P : P = {pool[j] : j \in DOMAIN pool}
    BY Zenon
  <2>2. PICK n \in Nat : n = Len(idle)
    BY <1>4, Zenon
  <2>3. pool \in [1..n -> P]
    BY <1>5, <2>1, <2>2
  <2>4. pool \in Seq(P)
    BY <2>3, IsASeq
  <2>5. QED
    BY <2>1, <2>4
<1>7. \A j \in DOMAIN pool : IsHelper(pool[j]) /\ Clean(pool[j])
  BY <1>5, ExitKeeps, Zenon DEF RegexInv, IdleOk
<1>8. IdleOk(pool)
  BY <1>6, <1>7 DEF IdleOk
<1>9. UNCHANGED <<accepted, memo, calls>>
  BY DEF CrashIdle
<1>10. QED
  BY <1>2, <1>8, <1>9 DEF RegexInv

\* serve_on works on one request at a time, which is the one being waited for.
LEMMA ServeStep ==
    ASSUME RegexInv, NEW t \in Threads, Serve(t)
    PROVE  RegexInv'
<1>1. PICK h : h = Helper(t)
  OBVIOUS
<1>2. PICK op : op = calls[t].op
  OBVIOUS
<1>3. PICK request : request = Head(h.stdin)
  OBVIOUS
<1>4. /\ h.process = "up" /\ h.stdin # <<>>
      /\ \/ request.kind = "compile" /\ Update(t, ServeCompile(h, request))
         \/ request.kind = "find" /\ Update(t, ServeFind(h, request))
         \/ request.kind = "validate" /\ Update(t, ServeValidate(h, request))
      /\ UNCHANGED <<idle, accepted, memo, asked>>
  BY <1>1, <1>3 DEF Serve
<1>5. CallOk(calls[t]) /\ IsHelper(h) /\ h = calls[t].helper
  BY <1>1 DEF RegexInv, CallOk, Helper
<1>6. PICK x : /\ \/ request.kind = "compile" /\ x = ServeCompile(h, request)
                  \/ request.kind = "find" /\ x = ServeFind(h, request)
                  \/ request.kind = "validate" /\ x = ServeValidate(h, request)
               /\ Update(t, x)
  BY <1>4
<1>7. IsHelper(x)
  BY <1>5, <1>6, ServeHelper
<1>8. calls[t].at \notin {"start", "send", "recycle"}
  <2>1. calls[t].at = "start" => h = Spawned
    BY <1>4, <1>5 DEF CallOk, Starting
  <2>2. Spawned.stdin = <<>>
    BY DEF Spawned, NoHelper
  <2>3. calls[t].at \in {"send", "recycle"} => h.stdin = <<>>
    BY <1>5 DEF CallOk, Clean, Quiet
  <2>4. QED
    BY <1>4, <2>1, <2>2, <2>3
<1>9. calls[t].at = "wait" => Waiting(x, op)
  <2>1. SUFFICES ASSUME calls[t].at = "wait" PROVE Waiting(x, op)
    OBVIOUS
  <2>2. Waiting(h, op) /\ IsQuestion(op)
    BY <1>2, <1>5, <2>1 DEF CallOk
  <2>3. Passed(h, op)
    BY <1>4, <2>2 DEF Waiting, Queued, Lost, Quiet, Replied, GivenUp
  <2>4. request = Request(h, op)
    BY <1>3, <2>3 DEF Passed
  <2>5. request.kind = op.kind
    BY <2>4 DEF Request, Op
  <2>6. QED
    BY <1>5, <1>6, <2>2, <2>3, <2>4, <2>5, ServeCompileRight, ServeFindRight, ServeValidateRight
<1>10. Fits(calls[t], x)
  BY <1>2, <1>7, <1>8, <1>9 DEF Fits
<1>11. QED
  BY <1>4, <1>6, <1>10, HelperStep

\* The I/O thread passes the request on, or reports that the process is gone.
LEMMA IoThreadStep ==
    ASSUME RegexInv, NEW t \in Threads, IoThread(t)
    PROVE  RegexInv'
<1>1. PICK h : h = Helper(t)
  OBVIOUS
<1>2. PICK op : op = calls[t].op
  OBVIOUS
<1>3. CallOk(calls[t]) /\ IsHelper(h) /\ h = calls[t].helper
  BY <1>1 DEF RegexInv, CallOk, Helper
<1>4. UNCHANGED <<idle, accepted, memo>>
  BY DEF IoThread
<1>5. CASE /\ h.process = "dead"
           /\ h.io = "read" \/ (h.io = "take" /\ h.requests # <<>>)
           /\ Update(t, [h EXCEPT !.replies = Append(@, Broken), !.io = "gone"])
  <2>1. PICK x : x = [h EXCEPT !.replies = Append(@, Broken), !.io = "gone"]
    OBVIOUS
  <2>2. /\ IsHelper(x) /\ x.process = "dead" /\ x.io = "gone"
        /\ x.replies = Append(h.replies, Broken)
    BY <1>3, <1>5, <2>1, Zenon DEF IsHelper
  <2>3. calls[t].at \notin {"send", "recycle"}
    BY <1>3, <1>5 DEF CallOk, Clean, Quiet
  <2>4. calls[t].at = "wait" => Waiting(x, op)
    <3>1. SUFFICES ASSUME calls[t].at = "wait" PROVE Waiting(x, op)
      OBVIOUS
    <3>2. Waiting(h, op)
      BY <1>2, <1>3, <3>1 DEF CallOk
    <3>3. h.replies = <<>>
      BY <1>5, <3>2 DEF Waiting, Queued, Passed, Lost, Quiet, Replied, GivenUp
    <3>4. x.replies = <<Broken>>
      BY <2>2, <3>3
    <3>5. QED
      BY <2>2, <3>4 DEF Waiting, GivenUp
  <2>5. Fits(calls[t], x)
    BY <1>2, <2>2, <2>3, <2>4 DEF Fits, Starting
  <2>6. QED
    BY <1>4, <1>5, <2>1, <2>5, HelperStep
<1>6. CASE /\ h.io = "take" /\ h.requests # <<>> /\ h.process = "up"
           /\ Update(t, [h EXCEPT !.requests = Tail(@), !.stdin = <<Head(h.requests)>>,
                                  !.io = "read"])
  <2>1. PICK x : x = [h EXCEPT !.requests = Tail(@), !.stdin = <<Head(h.requests)>>, !.io = "read"]
    OBVIOUS
  <2>2. /\ IsHelper(x) /\ x.process = "up" /\ x.io = "read" /\ x.requests = Tail(h.requests)
        /\ x.stdin = <<Head(h.requests)>> /\ x.replies = h.replies
        /\ x.pattern = h.pattern /\ x.input = h.input /\ x.cached = h.cached
        /\ x.cached_input = h.cached_input /\ x.canonical_input = h.canonical_input
    BY <1>3, <1>6, <2>1, Zenon DEF IsHelper
  <2>3. calls[t].at \notin {"start", "send", "recycle"}
    <3>1. Spawned.io = "read"
      BY DEF Spawned, NoHelper
    <3>2. QED
      BY <1>3, <1>6, <3>1 DEF CallOk, Clean, Quiet, Starting
  <2>4. calls[t].at = "wait" => Waiting(x, op)
    <3>1. SUFFICES ASSUME calls[t].at = "wait" PROVE Waiting(x, op)
      OBVIOUS
    <3>2. Waiting(h, op)
      BY <1>2, <1>3, <3>1 DEF CallOk
    <3>3. Queued(h, op)
      BY <1>6, <3>2 DEF Waiting, Passed, Lost, Quiet, Replied, GivenUp
    <3>4. Head(h.requests) = Request(h, op) /\ Tail(h.requests) = <<>>
      BY <3>3 DEF Queued
    <3>5. Request(x, op) = Request(h, op)
      BY <2>2 DEF Request
    <3>6. Synced(x)
      BY <1>6, <2>2, <3>3 DEF Queued, Synced
    <3>7. Passed(x, op)
      BY <2>2, <3>3, <3>4, <3>5, <3>6 DEF Passed, Queued
    <3>8. QED
      BY <3>7 DEF Waiting
  <2>5. Fits(calls[t], x)
    BY <1>2, <2>2, <2>3, <2>4 DEF Fits
  <2>6. QED
    BY <1>4, <1>6, <2>1, <2>5, HelperStep
<1>7. QED
  BY <1>1, <1>5, <1>6, Zenon DEF IoThread

\* A dropped helper is one whose thread has nothing more to ask of it.
LEMMA DroppingCall ==
    ASSUME NEW c, IsCall(c), Answered(c.op, c.reply)
    PROVE  CallOk(Dropping(c))
<1>1. PICK x : x = [NoHelper EXCEPT !.process = c.helper.process, !.io = c.helper.io,
                         !.stdin = c.helper.stdin,
                         !.requests = Append(c.helper.requests, Shutdown)]
  OBVIOUS
<1>2. IsHelper(x)
  BY <1>1, Zenon DEF IsHelper, NoHelper
<1>3. PICK d : d = Dropping(c)
  OBVIOUS
<1>4. IsCall(d) /\ d.at = "join" /\ d.helper = x /\ d.op = c.op /\ d.reply = c.reply
  BY <1>1, <1>3, Zenon DEF Dropping, IsCall
<1>5. CallOk(d)
  BY <1>2, <1>4 DEF CallOk
<1>6. QED
  BY <1>3, <1>5

\* So is one whose operation failed.
LEMMA FailedCall ==
    ASSUME NEW c, IsCall(c), NEW reply \in {Failed, TimedOut}
    PROVE  CallOk(Fail(c, reply))
<1>1. PICK d : d = [c EXCEPT !.reply = reply, !.op = Shutdown, !.helper = Exit(@)]
  OBVIOUS
<1>2. IsCall(d) /\ d.reply = reply
  BY <1>1, Zenon DEF IsCall
<1>3. Answered(d.op, d.reply)
  BY <1>2 DEF Answered
<1>4. Fail(c, reply) = Dropping(d)
  BY <1>1 DEF Fail
<1>5. QED
  BY <1>2, <1>3, <1>4, DroppingCall
-----------------------------------------------------------------------------
(* The steps of the threads. *)

\* What the steps of a thread do to its call.
Moved(t, c, place, helper, reply) ==
    /\ SetCall(t, c) /\ IsCall(c)
    /\ c.at = place /\ c.op = calls[t].op /\ c.helper = helper /\ c.reply = reply

\* A thread that goes on keeps its question.
LEMMA CallMoves ==
    ASSUME RegexInv, NEW t \in Threads, NEW place
    PROVE  /\ \A x : UpdateAndGo(t, x, place) => \E c : Moved(t, c, place, x, calls[t].reply)
           /\ \A reply : GoWith(t, place, reply) =>
                            \E c : Moved(t, c, place, calls[t].helper, reply)
           /\ Go(t, place) => \E c : Moved(t, c, place, calls[t].helper, calls[t].reply)
<1>1. IsCall(calls[t]) /\ calls = [u \in Threads |-> calls[u]]
  BY DEF RegexInv, CallOk
<1>2. ASSUME NEW x, UpdateAndGo(t, x, place)
      PROVE  \E c : Moved(t, c, place, x, calls[t].reply)
  <2>1. PICK c : c = [calls[t] EXCEPT !.helper = x, !.at = place]
    BY Zenon
  <2>2. IsCall(c) /\ c.at = place /\ c.op = calls[t].op /\ c.helper = x /\ c.reply = calls[t].reply
    BY <1>1, <2>1, Zenon DEF IsCall
  <2>3. SetCall(t, c)
    BY <1>1, <1>2, <2>1, Zenon DEF SetCall, UpdateAndGo
  <2>4. QED
    BY <2>2, <2>3, Zenon DEF Moved
<1>3. ASSUME NEW reply, GoWith(t, place, reply)
      PROVE  \E c : Moved(t, c, place, calls[t].helper, reply)
  <2>1. PICK c : c = [calls[t] EXCEPT !.at = place, !.reply = reply]
    BY Zenon
  <2>2. IsCall(c) /\ c.at = place /\ c.op = calls[t].op /\ c.helper = calls[t].helper /\ c.reply = reply
    BY <1>1, <2>1, Zenon DEF IsCall
  <2>3. SetCall(t, c)
    BY <1>1, <1>3, <2>1, Zenon DEF SetCall, GoWith
  <2>4. QED
    BY <2>2, <2>3, Zenon DEF Moved
<1>4. ASSUME Go(t, place)
      PROVE  \E c : Moved(t, c, place, calls[t].helper, calls[t].reply)
  <2>1. PICK c : c = [calls[t] EXCEPT !.at = place]
    BY Zenon
  <2>2. IsCall(c) /\ c.at = place /\ c.op = calls[t].op /\ c.helper = calls[t].helper /\ c.reply = calls[t].reply
    BY <1>1, <2>1 DEF IsCall
  <2>3. SetCall(t, c)
    BY <1>1, <1>4, <2>1 DEF SetCall, Go
  <2>4. QED
    BY <2>2, <2>3, Zenon DEF Moved
<1>5. QED
  BY <1>2, <1>3, <1>4, Zenon

\* A step of one thread that may change the caches too.
LEMMA CallAndCaches ==
    ASSUME RegexInv, NEW t \in Threads, NEW c, CallOk(c), SetCall(t, c),
           IdleOk(idle'), accepted' \subseteq Valid, MemoOk(memo')
    PROVE  RegexInv'
<1>1. /\ calls' = [u \in Threads |-> calls'[u]] /\ calls'[t] = c
      /\ \A u \in Threads : u # t => calls'[u] = calls[u]
  BY DEF RegexInv, SetCall
<1>2. \A u \in Threads : CallOk(calls'[u])
  BY <1>1, Zenon DEF RegexInv
<1>3. QED
  BY <1>1, <1>2, Zenon DEF RegexInv

\* A sequence is one of its own elements.
LEMMA OwnElements ==
    ASSUME NEW S, NEW s \in Seq(S)
    PROVE  s \in Seq({s[i] : i \in DOMAIN s})
<1>1. PICK n \in Nat : n = Len(s) /\ DOMAIN s = 1..n /\ s \in [1..n -> S]
  BY LenProperties
<1>2. PICK P : P = {s[i] : i \in DOMAIN s}
  BY Zenon
<1>3. s \in [1..n -> P]
  BY <1>1, <1>2
<1>4. s \in Seq(P)
  BY <1>3, IsASeq
<1>5. QED
  BY <1>2, <1>4, Zenon

\* The pool without the helper put back last.
LEMMA PoolPop ==
    ASSUME NEW pool, IdleOk(pool), pool # <<>>
    PROVE  /\ IsHelper(pool[Len(pool)]) /\ Clean(pool[Len(pool)])
           /\ IdleOk(SubSeq(pool, 1, Len(pool) - 1))
<1>1. PICK S : pool \in Seq(S)
  BY Zenon DEF IdleOk
<1>2. PICK n \in Nat : n = Len(pool) /\ DOMAIN pool = 1..n
  BY <1>1
<1>3. n # 0
  BY <1>1, <1>2, EmptySeq
<1>4. PICK rest : rest = SubSeq(pool, 1, n - 1)
  BY Zenon
<1>5. /\ rest \in Seq(S) /\ DOMAIN rest = 1..(n - 1)
      /\ \A i \in 1..(n - 1) : rest[i] = pool[i]
  BY <1>1, <1>2, <1>3, <1>4
<1>6. rest \in Seq({rest[i] : i \in DOMAIN rest})
  BY <1>5, OwnElements
<1>7. \A i \in DOMAIN rest : i \in DOMAIN pool
  BY <1>2, <1>5
<1>8. IdleOk(rest)
  BY <1>5, <1>6, <1>7, Zenon DEF IdleOk
<1>9. n \in DOMAIN pool
  BY <1>2, <1>3
<1>10. QED
  BY <1>2, <1>4, <1>8, <1>9, Zenon DEF IdleOk

\* The pool with one more helper that nobody uses.
LEMMA PoolPush ==
    ASSUME NEW pool, IdleOk(pool), NEW h, IsHelper(h), Clean(h)
    PROVE  IdleOk(Append(pool, h))
<1>1. PICK P : pool \in Seq(P)
  BY Zenon DEF IdleOk
<1>2. PICK n \in Nat : n = Len(pool) /\ DOMAIN pool = 1..n /\ pool \in [1..n -> P]
  BY <1>1, LenProperties
<1>3. PICK S : S = P \cup {h}
  BY Zenon
<1>4. pool \in [1..n -> S]
  BY <1>2, <1>3
<1>5. pool \in Seq(S)
  BY <1>4, IsASeq
<1>6. PICK more : more = Append(pool, h)
  BY Zenon
<1>7. /\ more \in Seq(S) /\ DOMAIN more = 1..(n + 1) /\ more[n + 1] = h
      /\ \A i \in 1..n : more[i] = pool[i]
  BY <1>2, <1>3, <1>5, <1>6
<1>8. more \in Seq({more[i] : i \in DOMAIN more})
  BY <1>7, OwnElements
<1>9. \A i \in DOMAIN more : i = n + 1 \/ i \in DOMAIN pool
  BY <1>2, <1>7
<1>10. \A i \in DOMAIN more : IsHelper(more[i]) /\ Clean(more[i])
  BY <1>2, <1>7, <1>9, Zenon DEF IdleOk
<1>11. QED
  BY <1>6, <1>8, <1>10, Zenon DEF IdleOk
\* A call of something the caches know is answered from them, and rightly.
LEMMA BeginStep ==
    ASSUME RegexInv, NEW t \in Threads, Begin(t)
    PROVE  RegexInv'
<1>1. PICK op \in Questions[t] :
          calls' = [calls EXCEPT ![t] =
              IF ~Known(op) THEN [calls[t] EXCEPT !.at = "pool", !.op = op]
              ELSE [calls[t] EXCEPT !.at = "return", !.op = op, !.reply =
                       IF op.kind = "compile" THEN Reply("Compiled", <<>>)
                       ELSE memo.results[op]]]
  BY Zenon DEF Begin
<1>2. IsQuestion(op)
  BY RegexAssumption, Zenon
<1>3. CallOk(calls[t])
  BY Zenon DEF RegexInv
<1>4. UNCHANGED <<idle, accepted, memo>>
  BY DEF Begin
<1>5. CASE ~Known(op)
  <2>1. PICK c : c = [calls[t] EXCEPT !.at = "pool", !.op = op]
    BY Zenon
  <2>2. IsCall(c) /\ c.at = "pool" /\ c.op = op /\ c.helper = calls[t].helper
    BY <1>3, <2>1, Zenon DEF CallOk, IsCall
  <2>3. CallOk(c)
    BY <1>2, <1>3, <2>2 DEF CallOk
  <2>4. SetCall(t, c)
    BY <1>1, <1>5, <2>1, Zenon DEF SetCall
  <2>5. QED
    BY <1>4, <2>3, <2>4, OnlyCall
<1>6. CASE Known(op)
  <2>1. PICK reply : reply = IF op.kind = "compile" THEN Reply("Compiled", <<>>)
                             ELSE memo.results[op]
    BY Zenon
  <2>2. reply = Answer(op)
    <3>1. CASE op.kind = "compile"
      <4>1. op.pattern \in accepted
        BY <1>6, <3>1 DEF Known
      <4>2. op.pattern \in Valid
        BY <4>1, Zenon DEF RegexInv
      <4>3. QED
        BY <2>1, <3>1, <4>2 DEF Answer
    <3>2. CASE op.kind # "compile"
      <4>1. op \in DOMAIN memo.results
        BY <1>6, <3>2, Zenon DEF Known
      <4>2. memo.results[op] = Answer(op)
        BY <4>1, Zenon DEF RegexInv, MemoOk
      <4>3. QED
        BY <2>1, <3>2, <4>2, Zenon
    <3>3. QED
      BY <3>1, <3>2, Zenon
  <2>3. PICK c : c = [calls[t] EXCEPT !.at = "return", !.op = op, !.reply = reply]
    BY Zenon
  <2>4. IsCall(c) /\ c.at = "return" /\ c.op = op /\ c.helper = calls[t].helper /\ c.reply = reply
    BY <1>3, <2>3, Zenon DEF CallOk, IsCall
  <2>5. Answered(c.op, c.reply)
    BY <1>2, <2>2, <2>4, Zenon DEF Answered
  <2>6. CallOk(c)
    BY <1>3, <2>4, <2>5, Zenon DEF CallOk
  <2>7. SetCall(t, c)
    BY <1>1, <1>6, <2>1, <2>3, Zenon DEF SetCall
  <2>8. QED
    BY <1>4, <2>6, <2>7, OnlyCall
<1>7. QED
  BY <1>5, <1>6, Zenon

\* A helper just spawned is a helper, and so is none.
LEMMA NewHelpers ==
    /\ IsHelper(NoHelper) /\ IsHelper(Spawned)
    /\ Spawned.process = "up" /\ Spawned.io = "read" /\ Spawned.requests = <<>>
    /\ Spawned.replies = <<>> /\ Spawned.stdin = <<>> /\ Spawned.pattern = None
    /\ Spawned.input = None /\ Spawned.canonical_input = None
<1>1. IsHelper(NoHelper)
  BY DEF IsHelper, NoHelper
<1>2. PICK h : h = Spawned
  BY Zenon
<1>3. h = [process |-> "up", io |-> "read", requests |-> <<>>, replies |-> <<>>, stdin |-> <<>>,
           pattern |-> None, input |-> None, cached |-> None, cached_input |-> None,
           canonical_input |-> None]
  BY <1>2, Zenon DEF Spawned, NoHelper
<1>4. IsHelper(h)
  BY <1>3 DEF IsHelper
<1>5. QED
  BY <1>1, <1>2, <1>3, <1>4

\* A thread takes the helper put back last, starts one, or gives up.
LEMMA TakeWorkerStep ==
    ASSUME RegexInv, NEW t \in Threads, TakeWorker(t)
    PROVE  RegexInv'
<1>1. CallOk(calls[t]) /\ calls[t].at = "pool" /\ UNCHANGED <<accepted, memo>>
  BY DEF TakeWorker, At, RegexInv
<1>2. IsQuestion(calls[t].op) /\ IsHelper(calls[t].helper)
  BY <1>1 DEF CallOk
<1>3. CASE /\ idle # <<>> /\ UpdateAndGo(t, idle[Len(idle)], "send")
           /\ idle' = SubSeq(idle, 1, Len(idle) - 1)
  <2>1. IsHelper(idle[Len(idle)]) /\ Clean(idle[Len(idle)]) /\ IdleOk(idle')
    BY <1>3, PoolPop DEF RegexInv
  <2>2. PICK c : Moved(t, c, "send", idle[Len(idle)], calls[t].reply)
    BY <1>3, CallMoves, Zenon
  <2>3. CallOk(c)
    BY <1>2, <2>1, <2>2 DEF CallOk, Moved
  <2>4. accepted' \subseteq Valid /\ MemoOk(memo')
    BY <1>1 DEF RegexInv
  <2>5. QED
    BY <2>1, <2>2, <2>3, <2>4, CallAndCaches DEF Moved
<1>4. CASE UpdateAndGo(t, Spawned, "start") /\ UNCHANGED idle
  <2>1. PICK c : Moved(t, c, "start", Spawned, calls[t].reply)
    BY <1>4, CallMoves
  <2>2. CallOk(c)
    BY <1>2, <2>1, NewHelpers DEF CallOk, Moved, Starting
  <2>3. QED
    BY <1>1, <1>4, <2>1, <2>2, OnlyCall DEF Moved
<1>5. CASE GoWith(t, "return", Failed) /\ UNCHANGED idle
  <2>1. PICK c : Moved(t, c, "return", calls[t].helper, Failed)
    BY <1>5, CallMoves
  <2>2. CallOk(c)
    BY <1>2, <2>1 DEF CallOk, Moved, Answered
  <2>3. QED
    BY <1>1, <1>5, <2>1, <2>2, OnlyCall DEF Moved
<1>6. QED
  BY <1>3, <1>4, <1>5, Zenon DEF TakeWorker

\* An operation that fails, at whatever step, leaves nothing to be right about.
LEMMA FailStep ==
    ASSUME RegexInv, NEW t \in Threads, NEW reply \in {Failed, TimedOut},
           SetCall(t, Fail(calls[t], reply)), UNCHANGED <<idle, accepted, memo>>
    PROVE  RegexInv'
<1>1. IsCall(calls[t])
  BY Zenon DEF RegexInv, CallOk
<1>2. CallOk(Fail(calls[t], reply))
  BY <1>1, FailedCall, Zenon
<1>3. QED
  BY <1>2, OnlyCall

\* A helper that said READY holds nothing, and nothing is believed of it.
LEMMA StartStep ==
    ASSUME RegexInv, NEW t \in Threads, Start(t)
    PROVE  RegexInv'
<1>1. CallOk(calls[t]) /\ calls[t].at = "start" /\ UNCHANGED <<idle, accepted, memo>>
  BY DEF Start, At, RegexInv
<1>2. IsQuestion(calls[t].op) /\ Starting(calls[t].helper)
  BY <1>1, SMTT(30) DEF CallOk
<1>3. CASE /\ Helper(t).process = "up"
           /\ UpdateAndGo(t, [Helper(t) EXCEPT !.io = "take"], "send")
  <2>1. PICK x : x = [Spawned EXCEPT !.io = "take"]
    BY Zenon
  <2>2. calls[t].helper = Spawned
    BY <1>2, <1>3 DEF Starting, Helper
  <2>3. UpdateAndGo(t, x, "send")
    BY <1>3, <2>1, <2>2, Zenon DEF Helper
  <2>4. /\ IsHelper(x) /\ x.io = "take" /\ x.requests = <<>> /\ x.replies = <<>> /\ x.stdin = <<>>
        /\ x.pattern = None /\ x.input = None /\ x.canonical_input = None
    BY <2>1, NewHelpers DEF IsHelper
  <2>5. Clean(x)
    BY <2>4 DEF Clean, Quiet, Synced
  <2>6. PICK c : Moved(t, c, "send", x, calls[t].reply)
    BY <2>3, CallMoves, Zenon
  <2>7. CallOk(c)
    BY <1>2, <2>4, <2>5, <2>6 DEF CallOk, Moved
  <2>8. QED
    BY <1>1, <2>6, <2>7, OnlyCall, Zenon DEF Moved
<1>4. CASE calls' = [calls EXCEPT ![t] = Fail(calls[t], Failed)]
  BY <1>1, <1>4, FailStep, Zenon DEF SetCall
<1>5. QED
  BY <1>3, <1>4, Zenon DEF Start

\* What is left out of a request, the helper has.
LEMMA SendStep ==
    ASSUME RegexInv, NEW t \in Threads, Send(t)
    PROVE  RegexInv'
<1>1. CallOk(calls[t]) /\ calls[t].at = "send" /\ UNCHANGED <<idle, accepted, memo>>
  BY DEF Send, At, RegexInv
<1>2. PICK h : h = calls[t].helper
  BY Zenon
<1>3. PICK op : op = calls[t].op
  BY Zenon
<1>4. IsQuestion(op) /\ Clean(h) /\ IsHelper(h)
  BY <1>1, <1>2, <1>3 DEF CallOk
<1>5. CASE UpdateAndGo(t, [h EXCEPT !.requests = Append(h.requests, Request(h, op))], "wait")
  <2>1. PICK x : x = [h EXCEPT !.requests = Append(h.requests, Request(h, op))]
    BY Zenon
  <2>2. /\ IsHelper(x) /\ x.process = h.process /\ x.io = h.io /\ x.stdin = h.stdin
        /\ x.requests = Append(h.requests, Request(h, op)) /\ x.replies = h.replies
        /\ x.pattern = h.pattern /\ x.input = h.input /\ x.cached = h.cached
        /\ x.cached_input = h.cached_input /\ x.canonical_input = h.canonical_input
    BY <1>4, <2>1, Zenon DEF IsHelper
  <2>3. Request(x, op) = Request(h, op)
    BY <2>2, Zenon DEF Request
  <2>4. Append(<<>>, Request(h, op)) = <<Request(h, op)>>
    OBVIOUS
  <2>5. Synced(x)
    BY <1>4, <2>2, Zenon DEF Synced, Clean
  <2>6. Queued(x, op)
    BY <1>4, <2>2, <2>3, <2>4, <2>5, Zenon DEF Queued, Clean, Quiet
  <2>7. PICK c : Moved(t, c, "wait", x, calls[t].reply)
    BY <1>5, <2>1, CallMoves, Zenon
  <2>8. CallOk(c)
    BY <1>3, <1>4, <2>2, <2>6, <2>7, Zenon DEF CallOk, Moved, Waiting
  <2>9. QED
    BY <1>1, <2>7, <2>8, OnlyCall DEF Moved
<1>6. CASE calls' = [calls EXCEPT ![t] = Fail(calls[t], Failed)]
  BY <1>1, <1>6, FailStep, Zenon DEF SetCall
<1>7. QED
  BY <1>2, <1>3, <1>5, <1>6, Zenon DEF Send, Helper

\* An answer that is taken is the one to the question, and the mirror that is
\* kept is a true one.
LEMMA ReceiveStep ==
    ASSUME RegexInv, NEW t \in Threads, Receive(t)
    PROVE  RegexInv'
<1>1. CallOk(calls[t]) /\ calls[t].at = "wait" /\ UNCHANGED <<idle, accepted, memo>>
  BY DEF Receive, At, RegexInv
<1>2. PICK h : h = calls[t].helper
  BY Zenon
<1>3. PICK op : op = calls[t].op
  BY Zenon
<1>4. IsQuestion(op) /\ Waiting(h, op) /\ IsHelper(h) /\ IsCall(calls[t])
  BY <1>1, <1>2, <1>3 DEF CallOk
<1>5. PICK reply : reply = Head(h.replies)
  BY Zenon
<1>6. PICK read : read = [h EXCEPT !.replies = Tail(h.replies)]
  BY Zenon
<1>7. \/ h.replies = <<>> /\ SetCall(t, Fail(calls[t], TimedOut))
      \/ reply.type \notin Expected(op) /\ SetCall(t, Fail(calls[t], Failed))
      \/ /\ h.replies # <<>> /\ reply.type \in Expected(op)
         /\ SetCall(t, [calls[t] EXCEPT !.helper = Mirror(read, op, reply), !.reply = reply,
                                        !.at = "recycle"])
  BY <1>2, <1>3, <1>5, <1>6, Zenon DEF Receive, Helper, SetCall
<1>8. CASE SetCall(t, Fail(calls[t], TimedOut)) \/ SetCall(t, Fail(calls[t], Failed))
  BY <1>1, <1>8, FailStep
<1>9. CASE /\ h.replies # <<>> /\ reply.type \in Expected(op)
           /\ SetCall(t, [calls[t] EXCEPT !.helper = Mirror(read, op, reply), !.reply = reply,
                                          !.at = "recycle"])
  <2>1. Expected(op) \subseteq {"Compiled", "SyntaxError", "Found", "Validated"}
    BY <1>4 DEF IsQuestion, Expected
  <2>2. Replied(h, op)
    <3>1. ~GivenUp(h)
      <4>1. SUFFICES ASSUME GivenUp(h) PROVE FALSE
        BY Zenon
      <4>2. reply = Broken
        BY <1>5, <4>1 DEF GivenUp
      <4>3. reply.type = "Broken"
        BY <4>2 DEF Broken, Reply
      <4>4. QED
        BY <1>9, <2>1, <4>3
    <3>2. QED
      BY <1>4, <1>9, <3>1 DEF Waiting, Queued, Passed, Lost, Quiet
  <2>3. PICK said : /\ h.replies = <<said>>
                    /\ said.type \in Expected(op) =>
                          said = Answer(op) /\ Synced(Mirror(h, op, said))
    BY <2>2, Zenon DEF Replied
  <2>4. reply = said /\ Tail(h.replies) = <<>>
    BY <1>5, <2>3
  <2>5. reply = Answer(op) /\ Synced(Mirror(h, op, reply))
    BY <1>9, <2>3, <2>4, Zenon
  <2>6. /\ IsHelper(read) /\ read.process = h.process /\ read.io = "take"
        /\ read.requests = <<>> /\ read.replies = <<>> /\ read.stdin = <<>>
        /\ read.pattern = h.pattern /\ read.input = h.input /\ read.cached = h.cached
        /\ read.cached_input = h.cached_input /\ read.canonical_input = h.canonical_input
    BY <1>4, <1>6, <2>2, <2>4 DEF IsHelper, Replied
  <2>7. PICK m : m = Mirror(h, op, reply)
    BY Zenon
  <2>8. PICK x : x = Mirror(read, op, reply)
    BY Zenon
  <2>9. /\ IsHelper(x) /\ x.process = m.process /\ x.io = "take" /\ x.requests = <<>>
        /\ x.replies = <<>> /\ x.stdin = <<>> /\ x.cached = m.cached
        /\ x.cached_input = m.cached_input /\ x.canonical_input = m.canonical_input
    BY <1>4, <2>6, <2>7, <2>8, MirrorFields
  <2>10. x.pattern = m.pattern /\ x.input = m.input
    BY <1>4, <1>9, <2>1, <2>6, <2>7, <2>8, MirrorFields
  <2>11. Clean(x)
    BY <2>5, <2>7, <2>9, <2>10 DEF Clean, Quiet, Synced
  <2>12. PICK c : c = [calls[t] EXCEPT !.helper = x, !.reply = reply, !.at = "recycle"]
    BY Zenon
  <2>13. IsCall(c) /\ c.at = "recycle" /\ c.op = op /\ c.helper = x /\ c.reply = reply
    BY <1>3, <1>4, <2>12, Zenon DEF IsCall
  <2>14. Answered(c.op, c.reply)
    BY <1>4, <2>5, <2>13, Zenon DEF Answered
  <2>15. CallOk(c)
    BY <2>9, <2>11, <2>13, <2>14 DEF CallOk
  <2>16. SetCall(t, c)
    BY <1>9, <2>8, <2>12, Zenon
  <2>17. QED
    BY <1>1, <2>15, <2>16, OnlyCall
<1>10. QED
  BY <1>7, <1>8, <1>9, Zenon

\* A helper goes back into the pool clean, or is retired; either way the
\* operation keeps its answer.
LEMMA RecycleStep ==
    ASSUME RegexInv, NEW t \in Threads, Recycle(t)
    PROVE  RegexInv'
<1>1. CallOk(calls[t]) /\ calls[t].at = "recycle" /\ UNCHANGED <<accepted, memo>>
  BY DEF Recycle, At, RegexInv
<1>2. /\ Answered(calls[t].op, calls[t].reply) /\ Clean(calls[t].helper)
      /\ IsHelper(calls[t].helper)
  BY <1>1 DEF CallOk
<1>3. CASE idle' = Append(idle, Helper(t)) /\ UpdateAndGo(t, NoHelper, "record")
  <2>1. IdleOk(idle')
    BY <1>2, <1>3, PoolPush DEF RegexInv, Helper
  <2>2. PICK c : Moved(t, c, "record", NoHelper, calls[t].reply)
    BY <1>3, CallMoves, Zenon
  <2>3. CallOk(c)
    BY <1>2, <2>2, NewHelpers, Zenon DEF CallOk, Moved
  <2>4. accepted' \subseteq Valid /\ MemoOk(memo')
    BY <1>1 DEF RegexInv
  <2>5. QED
    BY <2>1, <2>2, <2>3, <2>4, CallAndCaches DEF Moved
<1>4. CASE Go(t, "surplus") /\ UNCHANGED idle
  <2>1. PICK c : Moved(t, c, "surplus", calls[t].helper, calls[t].reply)
    BY <1>4, CallMoves
  <2>2. CallOk(c)
    BY <1>2, <2>1 DEF CallOk, Moved
  <2>3. QED
    BY <1>1, <1>4, <2>1, <2>2, OnlyCall DEF Moved
<1>5. QED
  BY <1>3, <1>4, Zenon DEF Recycle

\* A helper that is dropped is waited for; the answer stays.
LEMMA RetireAndJoinStep ==
    ASSUME RegexInv, NEW t \in Threads, Retire(t) \/ Join(t)
    PROVE  RegexInv'
<1>1. /\ CallOk(calls[t]) /\ calls[t].at \in {"surplus", "join"}
      /\ UNCHANGED <<idle, accepted, memo>>
  BY DEF Retire, Join, At, RegexInv
<1>2. Answered(calls[t].op, calls[t].reply) /\ IsCall(calls[t])
  BY <1>1, Zenon DEF CallOk
<1>3. CASE Retire(t)
  <2>1. SetCall(t, Dropping(calls[t]))
    BY <1>3, Zenon DEF Retire, SetCall
  <2>2. CallOk(Dropping(calls[t]))
    BY <1>2, DroppingCall, Zenon
  <2>3. QED
    BY <1>1, <2>1, <2>2, OnlyCall, Zenon
<1>4. CASE Join(t)
  <2>1. PICK c : Moved(t, c, "record", NoHelper, calls[t].reply)
    BY <1>4, CallMoves DEF Join
  <2>2. CallOk(c)
    BY <1>2, <2>1, NewHelpers DEF CallOk, Moved
  <2>3. QED
    BY <1>1, <2>1, <2>2, OnlyCall DEF Moved
<1>5. QED
  BY <1>3, <1>4, Zenon
-----------------------------------------------------------------------------
(* What an operation leaves in the caches. *)

\* The facts about finite sets, used from here on only.
INSTANCE FiniteSetTheorems

\* A queue that takes one element more.
LEMMA ListsAppend ==
    ASSUME NEW S, NEW queue, Lists(queue, S), NEW x, x \notin S
    PROVE  Lists(Append(queue, x), S \cup {x})
<1>1. IsFiniteSet(S) /\ queue \in Seq(S) /\ Len(queue) = Cardinality(S)
  BY Zenon DEF Lists
<1>2. PICK n \in Nat : n = Len(queue) /\ DOMAIN queue = 1..n /\ queue \in [1..n -> S]
  BY <1>1, LenProperties
<1>3. PICK T : T = S \cup {x}
  BY Zenon
<1>4. queue \in [1..n -> T] /\ x \in T
  BY <1>2, <1>3
<1>5. queue \in Seq(T)
  BY <1>4, IsASeq
<1>6. PICK more : more = Append(queue, x)
  BY Zenon
<1>7. /\ more \in Seq(T) /\ Len(more) = n + 1 /\ DOMAIN more = 1..(n + 1) /\ more[n + 1] = x
      /\ \A i \in 1..n : more[i] = queue[i]
  BY <1>2, <1>4, <1>5, <1>6
<1>8. IsFiniteSet(T) /\ Cardinality(T) = n + 1
  BY <1>1, <1>2, <1>3, FS_AddElement
<1>9. \A i \in 1..n : queue[i] \in S
  BY <1>2, Zenon
<1>10. \A i \in 1..(n + 1) : i = n + 1 \/ i \in 1..n
  OBVIOUS
<1>11. \A i, j \in 1..n : queue[i] = queue[j] => i = j
  BY <1>2, Zenon DEF Lists
<1>12. \A i, j \in DOMAIN more : more[i] = more[j] => i = j
  BY <1>7, <1>9, <1>10, <1>11, Zenon
<1>13. \A k \in T : \E i \in DOMAIN more : more[i] = k
  <2>1. n + 1 \in DOMAIN more /\ \A i \in 1..n : i \in DOMAIN more
    BY <1>7
  <2>2. \A k \in S : \E i \in 1..n : queue[i] = k
    BY <1>2, Zenon DEF Lists
  <2>3. QED
    BY <1>3, <1>7, <2>1, <2>2, Zenon
<1>14. Lists(more, T)
  BY <1>7, <1>8, <1>12, <1>13, Zenon DEF Lists
<1>15. QED
  BY <1>3, <1>6, <1>14, Zenon

\* A queue that gives up its oldest element.
LEMMA ListsTail ==
    ASSUME NEW S, NEW queue, Lists(queue, S), queue # <<>>
    PROVE  Head(queue) \in S /\ Lists(Tail(queue), S \ {Head(queue)})
<1>1. IsFiniteSet(S) /\ queue \in Seq(S) /\ Len(queue) = Cardinality(S)
  BY Zenon DEF Lists
<1>2. PICK n \in Nat : n = Len(queue) /\ DOMAIN queue = 1..n /\ queue \in [1..n -> S]
  BY <1>1, LenProperties
<1>3. n > 0
  BY <1>1, <1>2, EmptySeq
<1>4. PICK first : first = Head(queue)
  BY Zenon
<1>5. PICK rest : rest = Tail(queue)
  BY Zenon
<1>6. /\ first = queue[1] /\ first \in S
      /\ Len(rest) = n - 1 /\ DOMAIN rest = 1..(n - 1) /\ rest \in Seq(S)
      /\ \A i \in 1..(n - 1) : rest[i] = queue[i + 1]
  BY <1>1, <1>2, <1>3, <1>4, <1>5
<1>7. PICK T : T = S \ {first}
  BY Zenon
<1>8. \A i, j \in 1..n : queue[i] = queue[j] => i = j
  BY <1>2, Zenon DEF Lists
<1>9. \A i \in 1..(n - 1) : i + 1 \in 1..n /\ i + 1 # 1
  BY <1>2
<1>10. 1 \in 1..n /\ \A i \in 1..n : queue[i] \in S
  BY <1>2, <1>3
<1>11. \A i \in 1..(n - 1) : rest[i] \in T
  <2>1. \A i \in 1..(n - 1) : queue[i + 1] \in S /\ queue[i + 1] # queue[1]
    BY <1>8, <1>9, <1>10, Zenon
  <2>2. \A i \in 1..(n - 1) : rest[i] \in S /\ rest[i] # first
    BY <1>6, <2>1, Zenon
  <2>3. QED
    BY <1>7, <2>2, Zenon
<1>12. rest \in Seq(T)
  <2>1. PICK m \in Nat : m = n - 1
    BY <1>3
  <2>2. DOMAIN rest = 1..m /\ \A i \in 1..m : rest[i] \in T
    BY <1>6, <1>11, <2>1, Zenon
  <2>3. rest \in [1..m -> T]
    BY <1>6, <2>2
  <2>4. QED
    BY <2>3, IsASeq
<1>13. IsFiniteSet(T) /\ Cardinality(T) = n - 1
  BY <1>1, <1>2, <1>6, <1>7, FS_RemoveElement, SMTT(30)
<1>14. \A i, j \in DOMAIN rest : rest[i] = rest[j] => i = j
  <2>1. \A i, j \in 1..(n - 1) : rest[i] = rest[j] => i + 1 = j + 1
    BY <1>6, <1>8, <1>9, Zenon
  <2>2. \A i, j \in 1..(n - 1) : i + 1 = j + 1 => i = j
    OBVIOUS
  <2>3. QED
    BY <1>6, <2>1, <2>2, ZenonT(30)
<1>15. \A k \in T : \E i \in DOMAIN rest : rest[i] = k
  <2>1. SUFFICES ASSUME NEW k \in T PROVE \E i \in DOMAIN rest : rest[i] = k
    BY Zenon
  <2>2. PICK i \in 1..n : queue[i] = k
    BY <1>2, <1>7, Zenon DEF Lists
  <2>3. i # 1
    BY <1>6, <1>7, <2>2, Zenon
  <2>4. i - 1 \in 1..(n - 1) /\ (i - 1) + 1 = i
    BY <2>3
  <2>5. QED
    BY <1>6, <2>2, <2>4, Zenon
<1>16. Lists(rest, T)
  BY <1>6, <1>12, <1>13, <1>14, <1>15, Zenon DEF Lists
<1>17. QED
  BY <1>4, <1>5, <1>6, <1>7, <1>16, Zenon

\* remember keeps the queue and the map in step, and the results right.
LEMMA RememberOk ==
    ASSUME NEW m, MemoOk(m), NEW op, IsQuestion(op), op.kind = "find", NEW reply, reply = Answer(op)
    PROVE  MemoOk(remember(m, op, reply))
<1>1. CASE op \in DOMAIN m.results
  BY <1>1, Zenon DEF remember
<1>2. CASE op \notin DOMAIN m.results
  <2>1. PICK D : D = DOMAIN m.results
    BY Zenon
  <2>2. PICK queue : queue = m.order
    BY Zenon
  <2>3. Lists(queue, D) /\ \A k \in D : IsQuestion(k) /\ k.kind = "find" /\ m.results[k] = Answer(k)
    BY <2>1, <2>2, Zenon DEF MemoOk
  <2>4. PICK full : full = (Cardinality(D) >= MemoEntries)
    BY Zenon
  <2>5. PICK kept : kept = D \ (IF full THEN {Head(queue)} ELSE {})
    BY Zenon
  <2>6. PICK rest : rest = IF full THEN Tail(queue) ELSE queue
    BY Zenon
  <2>7. Lists(rest, kept) /\ kept \subseteq D
    <3>1. CASE full
      <4>1. queue # <<>>
        <5>1. Len(queue) = Cardinality(D) /\ queue \in Seq(D)
          BY <2>3, Zenon DEF Lists
        <5>2. Len(queue) >= MemoEntries /\ MemoEntries \in Nat \ {0}
          BY <2>4, <3>1, <5>1, RegexAssumption, Zenon
        <5>3. Len(<<>>) = 0
          OBVIOUS
        <5>4. QED
          BY <5>2, <5>3
      <4>2. QED
        BY <2>3, <2>5, <2>6, <3>1, <4>1, ListsTail, Zenon
    <3>2. CASE ~full
      <4>1. rest = queue /\ kept = D
        BY <2>5, <2>6, <3>2, Zenon
      <4>2. QED
        BY <2>3, <4>1, Zenon
    <3>3. QED
      BY <3>1, <3>2, Zenon
  <2>8. PICK x : x = [results |-> [k \in kept \cup {op} |-> IF k = op THEN reply ELSE m.results[k]],
                      order |-> Append(rest, op)]
    BY Zenon
  <2>9. remember(m, op, reply) = x
    BY <1>2, <2>1, <2>2, <2>4, <2>5, <2>6, <2>8, Zenon DEF remember
  <2>10. /\ x = [results |-> x.results, order |-> x.order]
         /\ x.order = Append(rest, op) /\ DOMAIN x.results = kept \cup {op}
         /\ \A k \in kept \cup {op} : x.results[k] = IF k = op THEN reply ELSE m.results[k]
    BY <2>8
  <2>11. Lists(x.order, DOMAIN x.results)
    <3>1. op \notin kept
      BY <1>2, <2>1, <2>7, Zenon
    <3>2. Lists(Append(rest, op), kept \cup {op})
      BY <2>7, <3>1, ListsAppend, Zenon
    <3>3. QED
      BY <2>10, <3>2, Zenon
  <2>12. \A k \in DOMAIN x.results : IsQuestion(k) /\ k.kind = "find" /\ x.results[k] = Answer(k)
    BY <2>3, <2>7, <2>10, Zenon
  <2>13. QED
    BY <2>9, <2>10, <2>11, <2>12, Zenon DEF MemoOk
<1>3. QED
  BY <1>1, <1>2, Zenon
\* What a call says to a thread at rest.
LEMMA RestingCall == CallOk(Resting)
<1>1. IsCall(Resting) /\ Resting.at = "rest" /\ Resting.helper = NoHelper
  BY DEF Resting, IsCall
<1>2. QED
  BY <1>1, NewHelpers DEF CallOk

\* An answer is noted under the question it answers.
LEMMA RecordStep ==
    ASSUME RegexInv, NEW t \in Threads, Record(t)
    PROVE  RegexInv'
<1>1. PICK op : op = calls[t].op
  BY Zenon
<1>2. PICK reply : reply = calls[t].reply
  BY Zenon
<1>3. Answered(op, reply) /\ accepted \subseteq Valid /\ MemoOk(memo) /\ IdleOk(idle)
  BY <1>1, <1>2 DEF Record, At, RegexInv, CallOk
<1>4. SetCall(t, Resting) /\ idle' = idle
  BY Zenon DEF Record, SetCall
<1>5. Failed.type = "RegexWorker" /\ TimedOut.type = "RegexTimeout"
  BY DEF Failed, TimedOut, Reply
<1>6. CASE reply.type = "Compiled" /\ accepted' = accept(op.pattern) /\ UNCHANGED memo
  <2>1. IsQuestion(op) /\ reply = Answer(op)
    BY <1>3, <1>5, <1>6 DEF Answered
  <2>2. op.pattern \in Valid
    BY <1>6, <2>1 DEF Answer, Reply, IsQuestion
  <2>3. accepted' \subseteq Valid
    BY <1>3, <1>6, <2>2, Zenon DEF accept
  <2>4. MemoOk(memo') /\ IdleOk(idle')
    BY <1>3, <1>4, <1>6, Zenon
  <2>5. QED
    BY <1>4, <2>3, <2>4, RestingCall, CallAndCaches, Zenon
<1>7. CASE reply.type = "Found" /\ memo' = remember(memo, op, reply) /\ UNCHANGED accepted
  <2>1. IsQuestion(op) /\ reply = Answer(op)
    BY <1>3, <1>5, <1>7 DEF Answered
  <2>2. op.kind = "find"
    BY <1>7, <2>1 DEF Answer, Reply, IsQuestion
  <2>3. MemoOk(memo')
    BY <1>3, <1>7, <2>1, <2>2, RememberOk, Zenon
  <2>4. accepted' \subseteq Valid /\ IdleOk(idle')
    BY <1>3, <1>4, <1>7, Zenon
  <2>5. QED
    BY <1>4, <2>3, <2>4, RestingCall, CallAndCaches, Zenon
<1>8. CASE UNCHANGED <<accepted, memo>>
  BY <1>4, <1>8, RestingCall, OnlyCall
<1>9. QED
  BY <1>1, <1>2, <1>6, <1>7, <1>8, Zenon DEF Record

\* The caller has its answer.
LEMMA ReturnStep ==
    ASSUME RegexInv, NEW t \in Threads, Return(t)
    PROVE  RegexInv'
<1>1. SetCall(t, Resting) /\ UNCHANGED <<idle, accepted, memo>>
  BY DEF Return, SetCall
<1>2. QED
  BY <1>1, RestingCall, OnlyCall

\* Nothing is pooled, cached or asked at the start.
LEMMA RegexStart == InitRegex => RegexInv
<1>1. SUFFICES ASSUME InitRegex PROVE RegexInv
  BY Zenon
<1>2. IdleOk(idle)
  BY <1>1 DEF InitRegex, IdleOk
<1>3. MemoOk(memo)
  <2>1. /\ memo = [results |-> <<>>, order |-> <<>>] /\ memo.results = <<>> /\ memo.order = <<>>
        /\ DOMAIN memo.results = {}
    BY <1>1 DEF InitRegex
  <2>2. IsFiniteSet({}) /\ Cardinality({}) = 0
    BY FS_EmptySet
  <2>3. <<>> \in Seq({}) /\ Len(<<>>) = 0 /\ DOMAIN <<>> = {}
    OBVIOUS
  <2>4. Lists(<<>>, {})
    BY <2>2, <2>3 DEF Lists
  <2>5. QED
    BY <2>1, <2>4 DEF MemoOk
<1>4. accepted \subseteq Valid
  BY <1>1 DEF InitRegex
<1>5. calls = [t \in Threads |-> calls[t]] /\ \A t \in Threads : calls[t] = Resting
  BY <1>1 DEF InitRegex
<1>6. QED
  BY <1>2, <1>3, <1>4, <1>5, RestingCall, Zenon DEF RegexInv

\* Every step of every thread and of every process keeps the invariant.
LEMMA RegexStep == RegexInv /\ [NextRegex]_regexVars => RegexInv'
<1>1. SUFFICES ASSUME RegexInv, NextRegex PROVE RegexInv'
  BY DEF regexVars, RegexInv
<1>2. CASE CrashIdle
  BY <1>1, <1>2, CrashIdleStep, Zenon
<1>3. ASSUME NEW t \in Threads, Begin(t) \/ GoOn(t)
      PROVE  RegexInv'
  BY <1>1, <1>3, BeginStep, TakeWorkerStep, StartStep, SendStep, ReceiveStep, RecycleStep,
     RetireAndJoinStep, RecordStep, ReturnStep, Zenon DEF GoOn
<1>4. ASSUME NEW t \in Threads, IoThread(t) \/ Serve(t) \/ ServeShutdown(t) \/ Crash(t)
      PROVE  RegexInv'
  BY <1>1, <1>4, IoThreadStep, ServeStep, ExitStep, Zenon
<1>5. QED
  BY <1>1, <1>2, <1>3, <1>4, Zenon DEF NextRegex

\* Whatever the threads ask, and however helpers are shared, replaced and
\* killed, an operation that does not fail answers its own question, and the
\* memo's queue and map stay in step (compile, find, validate, with_worker and
\* FindMemo::remember).
THEOREM AnswersAreTheirOwn == SpecRegex => []AnswersAreRight
<1>1. RegexInv => AnswersAreRight
  <2>1. SUFFICES ASSUME RegexInv PROVE AnswersAreRight
    BY Zenon
  <2>2. ASSUME NEW t \in Threads, calls[t].at \in {"record", "return"},
               calls[t].reply \notin {Failed, TimedOut}
        PROVE  calls[t].reply = Answer(calls[t].op)
    BY <2>1, <2>2 DEF RegexInv, CallOk, Answered
  <2>3. Lists(memo.order, DOMAIN memo.results)
    BY <2>1, Zenon DEF RegexInv, MemoOk
  <2>4. Range(memo.order) = DOMAIN memo.results
    <3>1. \A i \in DOMAIN memo.order : memo.order[i] \in DOMAIN memo.results
      <4>1. memo.order \in Seq(DOMAIN memo.results)
        BY <2>3, Zenon DEF Lists
      <4>2. QED
        BY <4>1
    <3>2. \A k \in DOMAIN memo.results : \E i \in DOMAIN memo.order : memo.order[i] = k
      BY <2>3, Zenon DEF Lists
    <3>3. QED
      BY <3>1, <3>2, Zenon DEF Range
  <2>5. QED
    BY <2>2, <2>3, <2>4, Zenon DEF AnswersAreRight, Lists
<1>2. QED
  BY <1>1, RegexStart, RegexStep, PTL DEF SpecRegex
=============================================================================
