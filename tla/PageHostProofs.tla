--------------------------- MODULE PageHostProofs ---------------------------
(***************************************************************************)
(* Proofs about PageHost: the child is idle whenever the session talks to  *)
(* it outside a wait, its realms are those the core accounts for and those *)
(* of the documents shown, a DOM call gets the reply to that call, and     *)
(* scripts write to their own document only.                               *)
(***************************************************************************)
EXTENDS PageHost, TLAPS

-----------------------------------------------------------------------------
(* Types.                                                                  *)

Kinds == {"web", "blank", "refused", "gone"}
Documents == [tab : Tabs, generation : Nat \ {0}]
Calls == {NoCall} \cup [id : Nat, doc : Documents, serial : Nat]
Connections == [peer : BOOLEAN, acked : BOOLEAN, call : Calls, reply : Calls]
Realms == [docs : [Tabs -> Nat], client : [Tabs -> [stream : Nat, next : Nat]],
           conns : Seq(Connections)]
Executors == [live : [Tabs -> Nat], stats : [Tabs -> Nat]]
Requests == [kind : {"sync", "click"}, doc : Documents]
Runs == {Idle} \cup [at : {"script", "hello", "reply"}, kind : {"sync", "click"},
                     doc : Documents]
Waits == [at : {"wait"}, kind : {"sync", "click"}, doc : Documents, remaining : Nat,
          todo : SUBSET Tabs]

PageOK == page \in [Tabs -> [kind : Kinds, generation : Nat \ {0}, writers : SUBSET Nat]]
WorkerOK ==
    worker \in [at : {"accept", "read", "queued", "answered"}, conn : Nat, next : Nat, call : Calls]
SessionOK ==
    session \in [at : {"tick", "turn"}] \cup [at : {"round"}, todo : SUBSET Tabs] \cup Waits
HostOK ==
    host \in [up : BOOLEAN, inbox : {Nothing} \cup Requests,
              outbox : [kind : {"none", "synchronized", "clicked", "error"}], run : Runs]

TypeOK ==
    /\ PageOK
    /\ realms \in Realms
    /\ WorkerOK
    /\ calls \in Nat
    /\ executor \in Executors
    /\ SessionOK
    /\ transport \in BOOLEAN
    /\ HostOK

-----------------------------------------------------------------------------
(* The inductive invariant.                                                *)

\* Where the one request of a wait is: in the child's mailbox, being run, or
\* answered.
Asked ==
    /\ host.inbox = [kind |-> session.kind, doc |-> session.doc]
    /\ host.run = Idle /\ host.outbox = Nothing
Executing ==
    /\ host.run # Idle /\ host.run.kind = session.kind /\ host.run.doc = session.doc
    /\ host.inbox = Nothing /\ host.outbox = Nothing
Replied ==
    /\ host.outbox # Nothing
    /\ host.run = Idle /\ host.inbox = Nothing
AtRest == host.run = Idle /\ host.inbox = Nothing /\ host.outbox = Nothing

LineInv == Linked => IF session.at = "wait" THEN Asked \/ Executing \/ Replied ELSE AtRest

\* The documents of the child against the core's tables.  A document that is
\* being synchronized has no receipt yet, and its tab has the realm it had,
\* its own, or none.
Synchronizing == session.at = "wait" /\ session.kind = "sync"

SyncInv ==
    LET t == session.doc.tab
        g == session.doc.generation
    IN  /\ \A u \in Tabs \ {t} : realms.docs[u] = executor.stats[u]
        /\ executor.stats[t] = None
        /\ realms.docs[t] \in {None, executor.live[t], g}
        /\ Executing \/ (Replied /\ host.outbox.kind = "synchronized") => realms.docs[t] = g

RealmInv ==
    Linked =>
        /\ IF Synchronizing THEN SyncInv ELSE realms.docs = executor.stats
        /\ \A t \in Tabs : executor.stats[t] # None => executor.stats[t] = executor.live[t]

\* The documents of the child against the pages.
Current(t) ==
    realms.docs[t] # None => page[t].kind = "web" /\ page[t].generation = realms.docs[t]

Visited ==
    CASE session.at = "tick" -> Tabs
      [] session.at = "round" -> Tabs \ session.todo
      [] Synchronizing -> Tabs \ (session.todo \cup {session.doc.tab})
      [] OTHER -> {}

InRound == session.at = "round" \/ Synchronizing

PageInv ==
    /\ InRound => \A t \in session.todo : page[t].kind # "gone"
    /\ Synchronizing => /\ page[session.doc.tab].kind = "web"
                        /\ page[session.doc.tab].generation = session.doc.generation
    /\ Linked =>
         /\ \A t \in Tabs : realms.docs[t] # None =>
               /\ realms.docs[t] <= page[t].generation
               /\ realms.docs[t] = page[t].generation => page[t].kind \in {"web", "gone"}
         /\ \A t \in Visited : Current(t)

\* A call is on its stream, with the worker, or answered: never two of them.
HasCall(c) == realms.conns[c].call # NoCall
HasReply(c) == realms.conns[c].reply # NoCall
WithWorker(c) == worker.conn = c /\ worker.at \in {"queued", "answered"}

Free(c) == ~HasCall(c) /\ ~HasReply(c) /\ ~WithWorker(c)
OneCall(c, serial) ==
    /\ HasCall(c) => ~HasReply(c) /\ ~WithWorker(c) /\ realms.conns[c].call.serial = serial
    /\ WithWorker(c) => ~HasReply(c) /\ worker.call.serial = serial
    /\ HasReply(c) => realms.conns[c].reply.serial = serial

Calling(t) == host.run.at = "reply" /\ host.run.doc.tab = t

StreamInv ==
    /\ worker.conn <= Len(realms.conns)
    /\ worker.at # "accept" => worker.conn # None
    /\ host.run.at = "reply" => realms.client[host.run.doc.tab].stream # None
    /\ host.run.at = "hello" =>
          LET c == Len(realms.conns)
          IN  /\ c # None /\ Free(c)
              /\ \A t \in Tabs : realms.client[t].stream # c
    /\ \A t \in Tabs :
          LET c == realms.client[t].stream
          IN  c # None =>
                /\ c <= Len(realms.conns)
                /\ \A u \in Tabs \ {t} : realms.client[u].stream # c
                /\ IF Calling(t) THEN OneCall(c, calls) ELSE Free(c)

HostInv ==
    /\ TypeOK
    /\ LineInv
    /\ RealmInv
    /\ PageInv
    /\ StreamInv

-----------------------------------------------------------------------------
(* The operators on realms.                                                *)

\* Two sets of realms that differ in the documents and in the ends of streams
\* only.
SameCalls(r, s) ==
    /\ Len(s.conns) = Len(r.conns)
    /\ \A c \in 1..Len(r.conns) : /\ s.conns[c].call = r.conns[c].call
                                   /\ s.conns[c].reply = r.conns[c].reply

\* A function on 1..n is a sequence of length n.
LEMMA FunctionIsSequence ==
    ASSUME NEW S, NEW n \in Nat, NEW f \in [1..n -> S]
    PROVE  f \in Seq(S) /\ Len(f) = n
OBVIOUS

\* A connection that is counted is not the absent one.
LEMMA Counted ==
    ASSUME NEW n \in Nat, NEW c \in 1..n
    PROVE  c # None /\ c <= n
BY SMT DEF None

\* Hanging up touches the peer of a connection only.
LEMMA HangupOne ==
    ASSUME NEW x \in Connections
    PROVE  /\ [x EXCEPT !.peer = FALSE] \in Connections
           /\ [x EXCEPT !.peer = FALSE].call = x.call
           /\ [x EXCEPT !.peer = FALSE].reply = x.reply
BY Zenon DEF Connections

\* Replacing or closing realms loses their documents and their streams, and
\* touches no call.
LEMMA DropRealmsEffect ==
    ASSUME NEW r \in Realms, NEW closed \in SUBSET Tabs
    PROVE  /\ DropRealms(r, closed) \in Realms
           /\ \A t \in closed : /\ DropRealms(r, closed).docs[t] = None
                                /\ DropRealms(r, closed).client[t] = NewClient
           /\ \A t \in Tabs \ closed : /\ DropRealms(r, closed).docs[t] = r.docs[t]
                                        /\ DropRealms(r, closed).client[t] = r.client[t]
           /\ SameCalls(r, DropRealms(r, closed))
<1>1. PICK s : s = DropRealms(r, closed)
  OBVIOUS
<1>2. PICK n \in Nat : n = Len(r.conns) /\ DOMAIN r.conns = 1..n
  BY DEF Realms
<1>3. \A c \in 1..n : r.conns[c] \in Connections
  BY <1>2, SMT DEF Realms
<1>4. /\ s.docs = [t \in Tabs |-> IF t \in closed THEN None ELSE r.docs[t]]
      /\ s.client = [t \in Tabs |-> IF t \in closed THEN NewClient ELSE r.client[t]]
      /\ s.conns = [c \in 1..n |-> IF c \in {r.client[t].stream : t \in closed}
                                   THEN [r.conns[c] EXCEPT !.peer = FALSE] ELSE r.conns[c]]
      /\ s = [docs |-> s.docs, client |-> s.client, conns |-> s.conns]
  BY <1>1, <1>2, Zenon DEF DropRealms
<1>5. s.docs \in [Tabs -> Nat] /\ s.client \in [Tabs -> [stream : Nat, next : Nat]]
  BY <1>4 DEF Realms, NewClient, None
<1>6. \A c \in 1..n : /\ s.conns[c] \in Connections
                       /\ s.conns[c].call = r.conns[c].call
                       /\ s.conns[c].reply = r.conns[c].reply
  <2> TAKE c \in 1..n
  <2>1. s.conns[c] = r.conns[c] \/ s.conns[c] = [r.conns[c] EXCEPT !.peer = FALSE]
    BY <1>4
  <2>2. QED
    BY <1>3, <2>1, HangupOne, Zenon
<1>7. s.conns \in [1..n -> Connections]
  BY <1>4, <1>6, Zenon
<1>8. s.conns \in Seq(Connections) /\ Len(s.conns) = n
  BY <1>7
<1>9. s \in Realms
  BY <1>4, <1>5, <1>8, Zenon DEF Realms
<1>10. QED
  BY <1>1, <1>2, <1>4, <1>9 DEF SameCalls

\* One connection replaced, or one of its fields.
ConnAt(r, c, x) == [r EXCEPT !.conns[c] = x]
AckAt(r, c) == [r EXCEPT !.conns[c].acked = TRUE]
CallAt(r, c, v) == [r EXCEPT !.conns[c].call = v]
ReplyAt(r, c, v) == [r EXCEPT !.conns[c].reply = v]

\* s differs from r in connection c only.
OnlyAt(r, s, c) ==
    /\ s \in Realms
    /\ s.docs = r.docs /\ s.client = r.client
    /\ Len(s.conns) = Len(r.conns)
    /\ \A d \in 1..Len(r.conns) : d # c => s.conns[d] = r.conns[d]

\* Replacing one connection leaves the others alone.
LEMMA SetConnection ==
    ASSUME NEW r \in Realms, NEW c \in 1..Len(r.conns), NEW x \in Connections
    PROVE  OnlyAt(r, ConnAt(r, c, x), c) /\ ConnAt(r, c, x).conns[c] = x
<1>0. PICK s : s = ConnAt(r, c, x)
  BY Zenon
<1>1. PICK n \in Nat : n = Len(r.conns) /\ DOMAIN r.conns = 1..n
  OBVIOUS
<1>2. s.docs = r.docs /\ s.client = r.client /\ s.conns = [r.conns EXCEPT ![c] = x]
  BY <1>0, SMT DEF ConnAt
<1>3. s = [docs |-> s.docs, client |-> s.client, conns |-> s.conns]
  BY <1>0, Zenon DEF Realms, ConnAt
<1>4. r.conns \in [1..n -> Connections]
  BY <1>1 DEF Realms
<1>5. s.conns \in [1..n -> Connections]
  BY <1>2, <1>4
<1>6. s.conns \in Seq(Connections) /\ Len(s.conns) = n
  BY <1>5
<1>7. s \in Realms
  BY <1>2, <1>3, <1>6, Zenon DEF Realms
<1>8. QED
  BY <1>0, <1>2, <1>7 DEF OnlyAt

\* The worker's acknowledgement.
LEMMA SetAcked ==
    ASSUME NEW r \in Realms, NEW c \in 1..Len(r.conns)
    PROVE  /\ OnlyAt(r, AckAt(r, c), c)
           /\ AckAt(r, c).conns[c].call = r.conns[c].call
           /\ AckAt(r, c).conns[c].reply = r.conns[c].reply
<1>1. r.conns[c] \in Connections
  BY DEF Realms
<1>2. PICK x : x = [r.conns[c] EXCEPT !.acked = TRUE]
  BY Zenon
<1>3. x \in Connections /\ x.call = r.conns[c].call /\ x.reply = r.conns[c].reply
  BY <1>1, <1>2, Zenon DEF Connections
<1>4. AckAt(r, c) = ConnAt(r, c, x)
  BY <1>2, SMT DEF AckAt, ConnAt
<1>5. QED
  BY <1>3, <1>4, SetConnection

\* A call is put on a stream, or taken from it.
LEMMA SetCall ==
    ASSUME NEW r \in Realms, NEW c \in 1..Len(r.conns), NEW v \in Calls
    PROVE  /\ OnlyAt(r, CallAt(r, c, v), c)
           /\ CallAt(r, c, v).conns[c].call = v
           /\ CallAt(r, c, v).conns[c].reply = r.conns[c].reply
<1>1. r.conns[c] \in Connections
  BY DEF Realms
<1>2. PICK x : x = [r.conns[c] EXCEPT !.call = v]
  BY Zenon
<1>3. x \in Connections /\ x.call = v /\ x.reply = r.conns[c].reply
  BY <1>1, <1>2 DEF Connections
<1>4. CallAt(r, c, v) = ConnAt(r, c, x)
  BY <1>2, Zenon DEF CallAt, ConnAt
<1>5. QED
  BY <1>3, <1>4, SetConnection

\* A reply is put on a stream, or taken from it.
LEMMA SetReply ==
    ASSUME NEW r \in Realms, NEW c \in 1..Len(r.conns), NEW v \in Calls
    PROVE  /\ OnlyAt(r, ReplyAt(r, c, v), c)
           /\ ReplyAt(r, c, v).conns[c].call = r.conns[c].call
           /\ ReplyAt(r, c, v).conns[c].reply = v
<1>1. r.conns[c] \in Connections
  BY SMT DEF Realms
<1>2. PICK x : x = [r.conns[c] EXCEPT !.reply = v]
  BY Zenon
<1>3. x \in Connections /\ x.call = r.conns[c].call /\ x.reply = v
  BY <1>1, <1>2, Zenon DEF Connections
<1>4. ReplyAt(r, c, v) = ConnAt(r, c, x)
  BY <1>2 DEF ReplyAt, ConnAt
<1>5. QED
  BY <1>3, <1>4, SetConnection

\* Hanging up touches no call.
LEMMA HangupEffect ==
    ASSUME NEW r \in Realms, NEW c \in Nat, c <= Len(r.conns)
    PROVE  /\ Hangup(r, c) \in Realms
           /\ Hangup(r, c).docs = r.docs /\ Hangup(r, c).client = r.client
           /\ SameCalls(r, Hangup(r, c))
<1>1. Len(r.conns) \in Nat /\ \A d \in 1..Len(r.conns) : r.conns[d] \in Connections
  BY DEF Realms
<1>2. CASE c = None
  BY <1>2 DEF Hangup, SameCalls
<1>3. CASE c # None
  <2>1. c \in 1..Len(r.conns)
    BY <1>3 DEF None
  <2>0. PICK x : x = [r.conns[c] EXCEPT !.peer = FALSE]
    BY Zenon
  <2>2. x \in Connections /\ x.call = r.conns[c].call /\ x.reply = r.conns[c].reply
    BY <1>1, <2>0, <2>1, HangupOne, Zenon
  <2>3. Hangup(r, c) = ConnAt(r, c, x)
    BY <1>3, <2>0, SMT DEF Hangup, ConnAt
  <2>4. OnlyAt(r, ConnAt(r, c, x), c) /\ ConnAt(r, c, x).conns[c] = x
    BY <2>1, <2>2, SetConnection
  <2>5. QED
    BY <2>2, <2>3, <2>4, Zenon DEF SameCalls, OnlyAt
<1>4. QED
  BY <1>2, <1>3, Zenon

\* A stream that is dropped is no longer its realm's.
LEMMA DropStreamEffect ==
    ASSUME NEW r \in Realms, NEW t \in Tabs, r.client[t].stream <= Len(r.conns)
    PROVE  /\ DropStream(r, t) \in Realms
           /\ DropStream(r, t).docs = r.docs
           /\ DropStream(r, t).client[t].stream = None
           /\ \A u \in Tabs \ {t} : DropStream(r, t).client[u] = r.client[u]
           /\ SameCalls(r, DropStream(r, t))
<1>1. r.client[t].stream \in Nat
  BY Zenon DEF Realms
<1>2. PICK s \in Realms : /\ s = Hangup(r, r.client[t].stream)
                          /\ s.docs = r.docs /\ s.client = r.client /\ SameCalls(r, s)
  BY <1>1, HangupEffect, Zenon
<1>3. DropStream(r, t) = [s EXCEPT !.client[t].stream = None]
  BY <1>2, Zenon DEF DropStream
<1>4. s.client[t] \in [stream : Nat, next : Nat]
  BY DEF Realms
<1>5. PICK clients : clients = [s.client EXCEPT ![t].stream = None]
  BY Zenon
<1>6. /\ clients \in [Tabs -> [stream : Nat, next : Nat]]
      /\ clients[t].stream = None
      /\ \A u \in Tabs \ {t} : clients[u] = s.client[u]
  BY <1>4, <1>5, Zenon DEF Realms, None
<1>7. DropStream(r, t) = [docs |-> s.docs, client |-> clients, conns |-> s.conns]
  BY <1>3, <1>5, Zenon DEF Realms
<1>8. s.docs \in [Tabs -> Nat] /\ s.conns \in Seq(Connections)
  BY DEF Realms
<1>9. DropStream(r, t) \in Realms
  BY <1>6, <1>7 DEF Realms
<1>10. /\ DropStream(r, t).docs = r.docs
       /\ DropStream(r, t).client = clients
       /\ DropStream(r, t).conns = s.conns
  BY <1>2, <1>7
<1>11. SameCalls(r, DropStream(r, t))
  BY <1>2, <1>10, Zenon DEF SameCalls
<1>12. QED
  BY <1>2, <1>6, <1>9, <1>10, <1>11, Zenon

\* s is r with the call numbered n on stream c.
Written(r, s, c, n) ==
    /\ OnlyAt(r, s, c)
    /\ s.conns[c].call.serial = n
    /\ s.conns[c].reply = r.conns[c].reply

\* A call is written to the stream of its realm, and to no other.
LEMMA WriteCallEffect ==
    ASSUME NEW r \in Realms, NEW doc \in Documents, NEW n \in Nat,
           NEW c, c = r.client[doc.tab].stream, c \in 1..Len(r.conns)
    PROVE  Written(r, WriteCall(r, doc, n), c, n)
<1>1. r.client[doc.tab] \in [stream : Nat, next : Nat]
  BY Zenon DEF Realms, Documents
<1>2. PICK call : call = [id |-> r.client[doc.tab].next, doc |-> doc, serial |-> n]
  BY Zenon
<1>3. call \in Calls /\ call.serial = n
  BY <1>1, <1>2, Zenon DEF Calls
<1>4. WriteCall(r, doc, n) = CallAt(r, c, call)
  BY <1>2, Zenon DEF WriteCall, CallAt
<1>5. /\ OnlyAt(r, CallAt(r, c, call), c)
      /\ CallAt(r, c, call).conns[c].call = call
      /\ CallAt(r, c, call).conns[c].reply = r.conns[c].reply
  BY <1>3, SetCall, ZenonT(30)
<1>6. QED
  BY <1>3, <1>4, <1>5, Zenon DEF Written

\* A connection is added, with no call on it.
LEMMA ConnectEffect ==
    ASSUME NEW r \in Realms, NEW s, s = Connect(r)
    PROVE  /\ s \in Realms
           /\ s.docs = r.docs /\ s.client = r.client
           /\ Len(s.conns) = Len(r.conns) + 1
           /\ s.conns[Len(r.conns) + 1].call = NoCall
           /\ s.conns[Len(r.conns) + 1].reply = NoCall
           /\ \A d \in 1..Len(r.conns) : s.conns[d] = r.conns[d]
<1>1. PICK x : x = [peer |-> TRUE, acked |-> FALSE, call |-> NoCall, reply |-> NoCall]
  BY Zenon
<1>2. x \in Connections /\ x.call = NoCall /\ x.reply = NoCall
  BY <1>1, Zenon DEF Connections, Calls
<1>3. r.conns \in Seq(Connections)
  BY Zenon DEF Realms
<1>4. s.docs = r.docs /\ s.client = r.client /\ s.conns = Append(r.conns, x)
  BY <1>1 DEF Connect
<1>5. s = [docs |-> s.docs, client |-> s.client, conns |-> s.conns]
  BY Zenon DEF Connect, Realms
<1>6. /\ s.conns \in Seq(Connections)
      /\ Len(s.conns) = Len(r.conns) + 1
      /\ s.conns[Len(r.conns) + 1] = x
      /\ \A d \in 1..Len(r.conns) : s.conns[d] = r.conns[d]
  BY <1>2, <1>3, <1>4
<1>7. s \in Realms
  BY <1>4, <1>5, <1>6, Zenon DEF Realms
<1>8. QED
  BY <1>2, <1>4, <1>7

\* s is r after the client of tab t has read the reply on its stream c.
Read(r, s, t, c) ==
    /\ s \in Realms
    /\ s.docs = r.docs
    /\ s.client[t].stream \in {None, c}
    /\ \A u \in Tabs \ {t} : s.client[u] = r.client[u]
    /\ Len(s.conns) = Len(r.conns)
    /\ s.conns[c].call = r.conns[c].call /\ s.conns[c].reply = NoCall
    /\ \A d \in 1..Len(r.conns) : d # c => /\ s.conns[d].call = r.conns[d].call
                                            /\ s.conns[d].reply = r.conns[d].reply

\* Reading a reply empties the stream, which the realm may give up.
LEMMA TakeReplyEffect ==
    ASSUME NEW r \in Realms, NEW doc \in Documents, NEW served \in BOOLEAN,
           NEW c, c = r.client[doc.tab].stream, c \in 1..Len(r.conns)
    PROVE  Read(r, TakeReply(r, doc, served), doc.tab, c)
<1>0. PICK s : s = TakeReply(r, doc, served)
  BY Zenon
<1>1. doc.tab \in Tabs
  BY Zenon DEF Documents
<1>2. PICK t : t = doc.tab
  BY Zenon
<1>3. PICK read : read = ReplyAt(r, c, NoCall)
  BY Zenon
<1>4. /\ read \in Realms /\ read.docs = r.docs /\ read.client = r.client
      /\ Len(read.conns) = Len(r.conns)
      /\ read.conns[c].call = r.conns[c].call /\ read.conns[c].reply = NoCall
      /\ \A d \in 1..Len(r.conns) : d # c => read.conns[d] = r.conns[d]
  <2>1. NoCall \in Calls
    BY Zenon DEF Calls
  <2>2. QED
    <3>1. /\ OnlyAt(r, read, c)
          /\ read.conns[c].call = r.conns[c].call /\ read.conns[c].reply = NoCall
      BY <1>3, <2>1, SetReply, Zenon
    <3>2. QED
      BY <3>1, Zenon DEF OnlyAt
<1>5. s = [read EXCEPT !.client[t].next = @ + 1] \/ s = DropStream(read, t)
  BY <1>0, <1>2, <1>3, Zenon DEF TakeReply, ReplyAt
<1>6. CASE s = DropStream(read, t)
  <2>1. Len(r.conns) \in Nat
    OBVIOUS
  <2>2. read.client[t].stream <= Len(read.conns)
    BY <1>2, <1>4, <2>1, Counted, Zenon
  <2>3. /\ s \in Realms /\ s.docs = read.docs /\ s.client[t].stream = None
        /\ \A u \in Tabs \ {t} : s.client[u] = read.client[u]
        /\ SameCalls(read, s)
    BY <1>1, <1>2, <1>4, <1>6, <2>2, DropStreamEffect, Zenon
  <2>4. QED
    <3>1. \A u \in Tabs \ {t} : s.client[u] = r.client[u]
      BY <1>4, <2>3, Zenon
    <3>2. /\ Len(s.conns) = Len(r.conns)
          /\ s.conns[c].call = r.conns[c].call /\ s.conns[c].reply = NoCall
          /\ \A d \in 1..Len(r.conns) : d # c => /\ s.conns[d].call = r.conns[d].call
                                                  /\ s.conns[d].reply = r.conns[d].reply
      BY <1>4, <2>3, Zenon DEF SameCalls
    <3>3. QED
      BY <1>0, <1>2, <1>4, <2>3, <3>1, <3>2, Zenon DEF Read
<1>7. CASE s = [read EXCEPT !.client[t].next = @ + 1]
  <2>1. PICK clients : clients = [read.client EXCEPT ![t].next = @ + 1]
    BY Zenon
  <2>2. read.client \in [Tabs -> [stream : Nat, next : Nat]]
    BY <1>4, Zenon DEF Realms
  <2>3. /\ clients \in [Tabs -> [stream : Nat, next : Nat]]
        /\ clients[t].stream = read.client[t].stream
        /\ \A u \in Tabs \ {t} : clients[u] = read.client[u]
    BY <1>1, <1>2, <2>1, <2>2
  <2>4. s = [docs |-> read.docs, client |-> clients, conns |-> read.conns]
    BY <1>4, <1>7, <2>1, Zenon DEF Realms
  <2>5. read.docs \in [Tabs -> Nat] /\ read.conns \in Seq(Connections)
    BY <1>4, Zenon DEF Realms
  <2>6. s \in Realms
    BY <2>3, <2>4, <2>5, Zenon DEF Realms
  <2>7. s.docs = read.docs /\ s.client = clients /\ s.conns = read.conns
    BY <2>4, Zenon
  <2>8. QED
    BY <1>0, <1>2, <1>4, <2>3, <2>6, <2>7, Zenon DEF Read
<1>8. QED
  BY <1>5, <1>6, <1>7, Zenon

-----------------------------------------------------------------------------
(* The operators on the tables of the core and the child.                  *)

Pairs == [core : Executors, child : Realms]

\* s is r with some realms closed, as far as calls go.
Closed(r, s) ==
    /\ s \in Realms
    /\ SameCalls(r, s)
    /\ \A t \in Tabs : s.client[t] = r.client[t] \/ s.client[t] = NewClient

\* Closing in two steps.
LEMMA ClosedTwice ==
    ASSUME NEW q, NEW r, NEW s, Closed(q, r), Closed(r, s)
    PROVE  Closed(q, s)
BY Zenon DEF Closed, SameCalls

\* Closing nothing.
LEMMA ClosedNone ==
    ASSUME NEW r \in Realms
    PROVE  Closed(r, r)
BY DEF Closed, SameCalls

\* CloseRealm closes the realm of exactly that document.
LEMMA CloseRealmEffect ==
    ASSUME NEW s \in Pairs, NEW link \in BOOLEAN, NEW t \in Tabs, NEW g \in Nat
    PROVE  LET c == CloseRealm(s, link, t, g)
           IN  /\ c \in Pairs
               /\ c.core = s.core
               /\ ~link => c.child = s.child
               /\ Closed(s.child, c.child)
               /\ \A u \in Tabs \ {t} : c.child.docs[u] = s.child.docs[u]
               /\ c.child.docs[t] = s.child.docs[t] \/ c.child.docs[t] = None
               /\ link /\ s.child.docs[t] = g => c.child.docs[t] = None
<1>1. PICK c : c = CloseRealm(s, link, t, g)
  BY SMT
<1>2. s.core \in Executors /\ s.child \in Realms
  BY SMT DEF Pairs
<1>3. CASE link /\ g # None /\ s.child.docs[t] = g
  <2>1. PICK d : d = DropRealms(s.child, {t})
    BY Zenon
  <2>2. /\ d \in Realms /\ SameCalls(s.child, d)
        /\ d.docs[t] = None /\ d.client[t] = NewClient
        /\ \A u \in Tabs \ {t} : d.docs[u] = s.child.docs[u] /\ d.client[u] = s.child.client[u]
    <3>1. {t} \in SUBSET Tabs
      BY Zenon
    <3>2. QED
      BY <1>2, <2>1, DropRealmsEffect, SMT
  <2>3. Closed(s.child, d)
    BY <2>2, Zenon DEF Closed
  <2>4. c = [s EXCEPT !.child = d]
    BY <1>1, <1>3, <2>1 DEF CloseRealm, DropRealm
  <2>5. c \in Pairs /\ c.core = s.core /\ c.child = d
    BY <2>2, <2>4 DEF Pairs
  <2>6. QED
    BY <1>1, <1>3, <2>2, <2>3, <2>5, Zenon
<1>4. CASE ~(link /\ g # None /\ s.child.docs[t] = g)
  <2>1. c = s
    BY <1>1, <1>4, Zenon DEF CloseRealm
  <2>2. Closed(s.child, s.child)
    BY <1>2, ClosedNone
  <2>3. QED
    BY <1>1, <1>4, <2>1, <2>2, SMT
<1>5. QED
  BY <1>3, <1>4, Zenon

\* What close_page of some tabs makes of the tables.
Shut(s, c, link, closed) ==
    /\ c \in Pairs
    /\ ~link => c.child = s.child
    /\ Closed(s.child, c.child)
    /\ \A t \in closed :
          /\ c.core.live[t] = None /\ c.core.stats[t] = None
          /\ c.child.docs[t] = s.child.docs[t] \/ c.child.docs[t] = None
          /\ link /\ s.child.docs[t] = s.core.live[t] => c.child.docs[t] = None
    /\ \A t \in Tabs \ closed :
          /\ c.core.live[t] = s.core.live[t] /\ c.core.stats[t] = s.core.stats[t]
          /\ c.child.docs[t] = s.child.docs[t]

\* close_page of some tabs forgets them, and closes the realms the child has
\* for them as long as the core knows their documents.
LEMMA ClosePagesEffect ==
    ASSUME NEW s \in Pairs, NEW link \in BOOLEAN, NEW closed \in SUBSET Tabs
    PROVE  Shut(s, ClosePages(s, link, closed), link, closed)
<1>1. PICK c : c = ClosePages(s, link, closed)
  BY Zenon
<1>2. s.core \in Executors /\ s.child \in Realms
  BY DEF Pairs
<1>3. PICK shut : shut = {t \in closed : s.core.live[t] # None /\ s.child.docs[t] = s.core.live[t]}
  BY Zenon
<1>4. shut \in SUBSET Tabs
  BY <1>3, Zenon
<1>5. PICK d : d = DropRealms(s.child, shut)
  BY Zenon
<1>6. /\ d \in Realms /\ SameCalls(s.child, d)
      /\ \A t \in shut : d.docs[t] = None /\ d.client[t] = NewClient
      /\ \A t \in Tabs \ shut : d.docs[t] = s.child.docs[t] /\ d.client[t] = s.child.client[t]
  BY <1>2, <1>4, <1>5, DropRealmsEffect
<1>7. Closed(s.child, d)
  BY <1>6, Zenon DEF Closed
<1>8. PICK core : core = [live  |-> [t \in Tabs |-> IF t \in closed THEN None ELSE s.core.live[t]],
                          stats |-> [t \in Tabs |-> IF t \in closed THEN None ELSE s.core.stats[t]]]
  BY Zenon
<1>9. /\ core \in Executors
      /\ \A t \in closed : core.live[t] = None /\ core.stats[t] = None
      /\ \A t \in Tabs \ closed : core.live[t] = s.core.live[t] /\ core.stats[t] = s.core.stats[t]
  BY <1>2, <1>8, Zenon DEF Executors, None
<1>10. c = [core |-> core, child |-> IF link THEN d ELSE s.child]
  BY <1>1, <1>3, <1>5, <1>8 DEF ClosePages
<1>11. c \in Pairs /\ c.core = core /\ c.child = IF link THEN d ELSE s.child
  BY <1>6, <1>9, <1>10, SMT DEF Pairs
<1>12. Closed(s.child, s.child)
  BY <1>2, ClosedNone
<1>13. \A t \in closed : /\ d.docs[t] = s.child.docs[t] \/ d.docs[t] = None
                         /\ s.child.docs[t] = s.core.live[t] => d.docs[t] = None
  BY <1>3, <1>6, Zenon
<1>14. \A t \in Tabs \ closed : d.docs[t] = s.child.docs[t]
  BY <1>3, <1>6, SMT
<1>15. Shut(s, c, link, closed)
  BY <1>7, <1>9, <1>11, <1>12, <1>13, <1>14 DEF Shut
<1>16. QED
  BY <1>1, <1>15, Zenon

\* What finish_document makes of the tables, whatever the reply was.
Finished(s, f, link, t, g) ==
    /\ f \in Pairs
    /\ ~link => f.child = s.child
    /\ Closed(s.child, f.child)
    /\ f.core.live[t] = g
    /\ \A u \in Tabs \ {t} : /\ f.core.live[u] = s.core.live[u]
                              /\ f.core.stats[u] = s.core.stats[u]
                              /\ f.child.docs[u] = s.child.docs[u]

\* What close_failed_document makes of the tables.
GivenUp(s, c, link, t, g) ==
    /\ c \in Pairs
    /\ ~link => c.child = s.child
    /\ Closed(s.child, c.child)
    /\ c.core.stats[t] = None
    /\ \A u \in Tabs \ {t} : /\ c.core.live[u] = s.core.live[u]
                              /\ c.core.stats[u] = s.core.stats[u]
                              /\ c.child.docs[u] = s.child.docs[u]
    /\ link /\ s.child.docs[t] \in {None, s.core.live[t], g} => c.child.docs[t] = None

\* A failed document leaves neither its predecessor nor itself behind.
LEMMA CloseFailedEffect ==
    ASSUME NEW s \in Pairs, NEW link \in BOOLEAN, NEW t \in Tabs, NEW g \in Nat
    PROVE  GivenUp(s, CloseFailedDocument(s, link, t, g), link, t, g)
<1>1. PICK p : p = ClosePages(s, link, {t})
  OBVIOUS
<1>2. {t} \in SUBSET Tabs
  BY Zenon
<1>3. /\ p \in Pairs
      /\ ~link => p.child = s.child
      /\ Closed(s.child, p.child)
      /\ p.core.stats[t] = None
      /\ p.child.docs[t] = s.child.docs[t] \/ p.child.docs[t] = None
      /\ link /\ s.child.docs[t] = s.core.live[t] => p.child.docs[t] = None
      /\ \A u \in Tabs \ {t} : /\ p.core.live[u] = s.core.live[u] /\ p.core.stats[u] = s.core.stats[u]
                                /\ p.child.docs[u] = s.child.docs[u]
  <2>1. Shut(s, ClosePages(s, link, {t}), link, {t})
    BY ClosePagesEffect
  <2>2. Shut(s, p, link, {t})
    BY <1>1, <2>1
  <2>3. QED
    BY <2>2, Zenon DEF Shut
<1>4. PICK c : c = CloseRealm(p, link, t, g)
  BY Zenon
<1>5. /\ c \in Pairs
      /\ c.core = p.core
      /\ ~link => c.child = p.child
      /\ Closed(p.child, c.child)
      /\ \A u \in Tabs \ {t} : c.child.docs[u] = p.child.docs[u]
      /\ c.child.docs[t] = p.child.docs[t] \/ c.child.docs[t] = None
      /\ link /\ p.child.docs[t] = g => c.child.docs[t] = None
  BY <1>3, <1>4, CloseRealmEffect, SMT
<1>6. Closed(s.child, c.child)
  BY <1>3, <1>5, ClosedTwice, Zenon
<1>7. CloseFailedDocument(s, link, t, g) = c
  BY <1>1, <1>4 DEF CloseFailedDocument, ClosePage
<1>8. QED
  BY <1>3, <1>5, <1>6, <1>7 DEF GivenUp

\* With it, the table and the child agree on the tab when they did before.
Settled(s, f, link, t, g, reply) ==
    /\ Finished(s, f, link, t, g)
    /\ link /\ s.child.docs[t] \in {None, s.core.live[t], g}
         /\ (reply = "synchronized" => s.child.docs[t] = g)
       => f.child.docs[t] = f.core.stats[t] /\ f.core.stats[t] \in {None, g}

\* finish_document keeps the child's realm and the receipt for it together.
LEMMA FinishEffect ==
    ASSUME NEW s \in Pairs, NEW link \in BOOLEAN, NEW t \in Tabs, NEW g \in Nat,
           NEW reply, NEW counted \in BOOLEAN
    PROVE  Settled(s, FinishDocument(s, link, t, g, reply, counted), link, t, g, reply)
<1>1. PICK d : d = CASE reply # "synchronized" -> CloseFailedDocument(s, link, t, g)
                     [] reply = "synchronized" /\ link /\ counted ->
                           [s EXCEPT !.core.stats[t] = g]
                     [] OTHER -> [CloseRealm(s, link, t, g) EXCEPT !.core.stats[t] = None]
  BY Zenon
<1>2. PICK f : f = [d EXCEPT !.core.live[t] = g]
  BY Zenon
<1>3. FinishDocument(s, link, t, g, reply, counted) = f
  BY <1>1, <1>2, Zenon DEF FinishDocument
<1>4. ASSUME d \in Pairs
      PROVE  /\ f \in Pairs /\ f.child = d.child
             /\ f.core.live[t] = g /\ f.core.stats = d.core.stats
             /\ \A u \in Tabs \ {t} : f.core.live[u] = d.core.live[u]
  BY <1>2, <1>4, Zenon DEF Pairs, Executors
<1>5. CASE reply # "synchronized"
  <2>1. d = CloseFailedDocument(s, link, t, g)
    BY <1>1, <1>5
  <2>2. GivenUp(s, d, link, t, g)
    BY <2>1, CloseFailedEffect, Zenon
  <2>3. QED
    BY <1>3, <1>4, <1>5, <2>2, Zenon DEF Settled, Finished, GivenUp
<1>6. CASE reply = "synchronized" /\ link /\ counted
  <2>1. d = [s EXCEPT !.core.stats[t] = g]
    BY <1>1, <1>6, Zenon
  <2>2. /\ d \in Pairs /\ d.child = s.child
        /\ d.core.live = s.core.live /\ d.core.stats[t] = g
        /\ \A u \in Tabs \ {t} : d.core.stats[u] = s.core.stats[u]
    BY <2>1, Zenon DEF Pairs, Executors
  <2>3. Closed(s.child, s.child)
    BY ClosedNone, Zenon DEF Pairs
  <2>4. QED
    BY <1>3, <1>4, <1>6, <2>2, <2>3 DEF Settled, Finished
<1>7. CASE reply = "synchronized" /\ ~(link /\ counted)
  <2>1. PICK c : c = CloseRealm(s, link, t, g)
    OBVIOUS
  <2>2. /\ c \in Pairs
        /\ c.core = s.core
        /\ ~link => c.child = s.child
        /\ Closed(s.child, c.child)
        /\ \A u \in Tabs \ {t} : c.child.docs[u] = s.child.docs[u]
        /\ link /\ s.child.docs[t] = g => c.child.docs[t] = None
    BY <2>1, CloseRealmEffect, SMT
  <2>3. d = [c EXCEPT !.core.stats[t] = None]
    BY <1>1, <1>7, <2>1, Zenon
  <2>4. /\ d \in Pairs /\ d.child = c.child
        /\ d.core.live = c.core.live /\ d.core.stats[t] = None
        /\ \A u \in Tabs \ {t} : d.core.stats[u] = c.core.stats[u]
    BY <2>2, <2>3, Zenon DEF Pairs, Executors, None
  <2>5. QED
    BY <1>3, <1>4, <1>7, <2>2, <2>4 DEF Settled, Finished
<1>8. QED
  BY <1>5, <1>6, <1>7, Zenon

-----------------------------------------------------------------------------
(* Shapes of the states.                                                   *)

\* What a wait and a round hold.
LEMMA SessionShape ==
    ASSUME SessionOK
    PROVE  /\ session.at = "wait" => session \in Waits
           /\ session.at = "round" => session.todo \subseteq Tabs
           /\ session.at \in {"tick", "turn", "round", "wait"}
BY SMT DEF SessionOK, Waits

\* What a request and a run hold.
LEMMA HostShape ==
    ASSUME HostOK
    PROVE  /\ host.up \in BOOLEAN
           /\ host.inbox # Nothing => host.inbox \in Requests
           /\ host.inbox.kind \in {"sync", "click"} => host.inbox \in Requests
           /\ host.run # Idle => host.run \in [at : {"script", "hello", "reply"},
                                                kind : {"sync", "click"}, doc : Documents]
           /\ host.run.at \in {"script", "hello", "reply"} => host.run # Idle
           /\ host.run.at \in {"script", "hello", "reply", "idle"}
BY DEF HostOK, Runs, Nothing, Idle

\* A DOM call that is answered writes to the page of its own document, or to
\* none.
LEMMA HandleEffect ==
    ASSUME PageOK, NEW call
    PROVE  LET p == HandleScriptRequest(call)
           IN  /\ p \in [Tabs -> [kind : Kinds, generation : Nat \ {0}, writers : SUBSET Nat]]
               /\ \A t \in Tabs :
                     /\ p[t].kind = page[t].kind
                     /\ p[t].generation = page[t].generation
                     /\ p[t].writers \subseteq page[t].writers \cup {page[t].generation}
<1>1. PICK p : p = HandleScriptRequest(call)
  OBVIOUS
<1>2. CASE p = page
  BY <1>1, <1>2 DEF PageOK
<1>3. CASE p # page
  <2>1. PICK t : t = call.doc.tab
    OBVIOUS
  <2>2. /\ page[t].generation = call.doc.generation
        /\ p = [page EXCEPT ![t].writers = @ \cup {call.doc.generation}]
    BY <1>1, <1>3, <2>1, Zenon DEF HandleScriptRequest
  <2>3. t \in Tabs
    BY <1>3, <2>2 DEF PageOK
  <2>4. page[t] \in [kind : Kinds, generation : Nat \ {0}, writers : SUBSET Nat]
    BY <2>3 DEF PageOK
  <2>5. QED
    BY <1>1, <2>2, <2>3, SMT DEF PageOK
<1>4. QED
  BY <1>2, <1>3, Zenon

-----------------------------------------------------------------------------
(* What most steps leave alone.                                            *)

SameSession ==
    /\ session'.at = session.at /\ session'.kind = session.kind
    /\ session'.doc = session.doc /\ session'.todo = session.todo

\* The line between the session and the child.
LEMMA SameLine ==
    ASSUME LineInv, SameSession, UNCHANGED <<transport, host>>
    PROVE  LineInv'
BY Zenon DEF SameSession, LineInv, Linked, Asked, Executing, Replied, AtRest

\* The tables of the core and the child.
LEMMA SameTables ==
    ASSUME RealmInv, SameSession, UNCHANGED <<transport, host, executor>>,
           realms'.docs = realms.docs
    PROVE  RealmInv'
BY SMT DEF SameSession, RealmInv, Linked, Synchronizing, SyncInv, Executing, Replied

SamePages ==
    \A t \in Tabs : page'[t].kind = page[t].kind /\ page'[t].generation = page[t].generation

\* The pages, as far as the child's realms go.
LEMMA SameShown ==
    ASSUME PageInv, SessionOK, SamePages, SameSession, Linked' => Linked,
           realms'.docs = realms.docs
    PROVE  PageInv'
<1>1. /\ Synchronizing' = Synchronizing /\ InRound' = InRound /\ Visited' = Visited
  BY DEF SameSession, Synchronizing, InRound, Visited
<1>2. Visited \subseteq Tabs
  BY DEF Visited
<1>3. InRound => session.todo \subseteq Tabs
  BY SessionShape DEF InRound, Synchronizing, Waits
<1>4. Synchronizing => session.doc.tab \in Tabs
  BY SessionShape, Zenon DEF Synchronizing, Waits, Documents
<1>5. (\A t \in Visited : Current(t)) => \A t \in Visited' : Current(t)'
  BY <1>1, <1>2 DEF Current, SamePages
<1>6. QED
  BY <1>1, <1>3, <1>4, <1>5 DEF PageInv, SamePages, SameSession

\* The streams and the calls on them.
LEMMA SameStreams ==
    ASSUME StreamInv, UNCHANGED <<realms, worker, calls>>, host'.run = host.run
    PROVE  StreamInv'
BY Zenon DEF StreamInv, Calling, Free, OneCall, HasCall, HasReply, WithWorker

\* A line that is lost stays lost.
LEMMA LostLine ==
    ASSUME ~Linked'
    PROVE  LineInv' /\ RealmInv'
BY Zenon DEF LineInv, RealmInv

-----------------------------------------------------------------------------
(* The worker's steps.                                                     *)

\* A change of the worker's state that moves no call.
LEMMA WorkerMoves ==
    ASSUME TypeOK, StreamInv, UNCHANGED calls, host'.run = host.run,
           realms'.client = realms.client, SameCalls(realms, realms'),
           worker'.conn <= Len(realms.conns), worker'.at # "accept" => worker'.conn # None,
           \A c \in 1..Len(realms.conns) :
               WithWorker(c)' => WithWorker(c) /\ worker'.call = worker.call
    PROVE  StreamInv'
<1>1. realms \in Realms /\ Len(realms.conns) \in Nat
  BY DEF TypeOK
<1>2. \A c \in 1..Len(realms.conns) : HasCall(c)' = HasCall(c) /\ HasReply(c)' = HasReply(c)
  BY DEF HasCall, HasReply, SameCalls
<1>3. \A c \in 1..Len(realms.conns) : Free(c) => Free(c)'
  BY <1>2, Zenon DEF Free
<1>4. \A c \in 1..Len(realms.conns) : OneCall(c, calls) => OneCall(c, calls)'
  BY <1>2, Zenon DEF OneCall, SameCalls
<1>5. \A t \in Tabs : realms.client[t].stream \in Nat
  BY <1>1, Zenon DEF Realms
<1>6. Len(realms'.conns) = Len(realms.conns)
  BY Zenon DEF SameCalls
<1>7. \A t \in Tabs : Calling(t)' = Calling(t)
  BY Zenon DEF Calling
<1>8. QED
  BY <1>3, <1>4, <1>5, <1>6, <1>7 DEF StreamInv, None

\* The worker takes the next connection.
LEMMA AcceptStep ==
    ASSUME TypeOK, StreamInv, AcceptConnection, UNCHANGED host
    PROVE  /\ realms' \in Realms /\ WorkerOK' /\ realms'.docs = realms.docs
           /\ StreamInv'
<1>1. realms \in Realms /\ Len(realms.conns) \in Nat /\ worker.conn \in Nat
  BY DEF TypeOK, WorkerOK
<1>2. PICK c : c = worker.conn + 1
  OBVIOUS
<1>3. c \in 1..Len(realms.conns) /\ worker.at = "accept"
  BY <1>1, <1>2 DEF AcceptConnection
<1>4. \/ /\ worker' = [worker EXCEPT !.at = "read", !.conn = c, !.next = 1]
         /\ realms' = AckAt(realms, c)
      \/ worker' = [worker EXCEPT !.conn = c] /\ UNCHANGED realms
  BY <1>2, SMT DEF AcceptConnection, AckAt
<1>5. WorkerOK' /\ worker'.conn = c /\ worker'.at \in {"read", "accept"}
  <2>0. c \in Nat /\ WorkerOK
    BY <1>1, <1>2 DEF TypeOK
  <2>1. CASE worker' = [worker EXCEPT !.at = "read", !.conn = c, !.next = 1]
    BY <2>0, <2>1, Zenon DEF WorkerOK
  <2>2. CASE worker' = [worker EXCEPT !.conn = c]
    BY <1>3, <2>0, <2>2, SMT DEF WorkerOK
  <2>3. QED
    BY <1>4, <2>1, <2>2
<1>6. /\ realms' \in Realms /\ realms'.docs = realms.docs /\ realms'.client = realms.client
      /\ SameCalls(realms, realms')
  <2>1. CASE UNCHANGED realms
    BY <1>1, <2>1, Zenon DEF SameCalls
  <2>2. CASE realms' = AckAt(realms, c)
    BY <1>1, <1>3, <2>2, SetAcked, SMT DEF OnlyAt, SameCalls
  <2>3. QED
    BY <1>4, <2>1, <2>2, Zenon
<1>7. \A d \in 1..Len(realms.conns) : ~WithWorker(d)'
  BY <1>5, Zenon DEF WithWorker
<1>8. UNCHANGED calls
  BY Zenon DEF AcceptConnection
<1>9. StreamInv'
  BY <1>3, <1>5, <1>6, <1>7, <1>8, WorkerMoves DEF None
<1>10. QED
  BY <1>5, <1>6, <1>9, Zenon

\* The worker reads a call.
LEMMA ReadCallStep ==
    ASSUME TypeOK, StreamInv, ReadCall, UNCHANGED host
    PROVE  /\ realms' \in Realms /\ WorkerOK' /\ realms'.docs = realms.docs
           /\ StreamInv'
<1>1. realms \in Realms /\ Len(realms.conns) \in Nat /\ worker.conn \in Nat
  BY SMT DEF TypeOK, WorkerOK
<1>2. PICK c : c = worker.conn
  BY SMT
<1>3. worker.at = "read" /\ HasCall(c) /\ UNCHANGED calls
  BY <1>2, Zenon DEF ReadCall, HasCall
<1>4. c \in 1..Len(realms.conns)
  BY <1>1, <1>2, <1>3 DEF StreamInv, None
<1>5. realms.conns[c] \in Connections /\ NoCall \in Calls
  BY <1>1, <1>4 DEF Realms, Calls
<1>6. realms' = CallAt(realms, c, NoCall)
  BY <1>2 DEF ReadCall, CallAt
<1>7. OnlyAt(realms, realms', c) /\ ~HasCall(c)' /\ realms'.conns[c].reply = realms.conns[c].reply
  BY <1>1, <1>4, <1>5, <1>6, SetCall DEF HasCall
<1>8. \/ worker' = [worker EXCEPT !.at = "queued", !.next = @ + 1, !.call = realms.conns[c].call]
      \/ worker' = [worker EXCEPT !.at = "accept"]
  BY <1>2 DEF ReadCall
<1>9. WorkerOK' /\ worker'.conn = c /\ (WithWorker(c)' => worker'.call = realms.conns[c].call)
  <2>0. WorkerOK /\ realms.conns[c].call \in Calls
    BY <1>5 DEF TypeOK, Connections
  <2>1. CASE worker' = [worker EXCEPT !.at = "queued", !.next = @ + 1, !.call = realms.conns[c].call]
    <3>1. PICK n, v : n = worker.next + 1 /\ v = realms.conns[c].call
      BY Zenon
    <3>2. n \in Nat /\ v \in Calls /\ worker' = [worker EXCEPT !.at = "queued", !.next = n, !.call = v]
      BY <2>0, <2>1, <3>1 DEF WorkerOK
    <3>3. WorkerOK' /\ worker'.conn = worker.conn /\ worker'.call = v
      BY <2>0, <3>2, Zenon DEF WorkerOK
    <3>4. QED
      BY <1>2, <3>1, <3>3
  <2>2. CASE worker' = [worker EXCEPT !.at = "accept"]
    BY <1>2, <2>0, <2>2, Zenon DEF WorkerOK, WithWorker
  <2>3. QED
    BY <1>8, <2>1, <2>2, Zenon
<1>10. \A d \in 1..Len(realms.conns) : Free(d) => Free(d)'
  BY <1>3, <1>7, <1>9 DEF Free, HasCall, HasReply, WithWorker, OnlyAt
<1>11. \A d \in 1..Len(realms.conns) : OneCall(d, calls) => OneCall(d, calls)'
  <2> TAKE d \in 1..Len(realms.conns)
  <2> HAVE OneCall(d, calls)
  <2>1. CASE d = c
    BY <1>3, <1>7, <1>9, <2>1, Zenon DEF OneCall, HasReply
  <2>2. CASE d # c
    BY <1>3, <1>7, <1>9, SMTT(30) DEF OneCall, HasCall, HasReply, WithWorker, OnlyAt
  <2>3. QED
    BY <2>1, <2>2
<1>12. \A t \in Tabs : realms.client[t].stream \in Nat
  BY <1>1, Zenon DEF Realms
<1>13. StreamInv'
  BY <1>4, <1>7, <1>9, <1>10, <1>11, <1>12 DEF StreamInv, None, OnlyAt, Calling
<1>14. QED
  BY <1>7, <1>9, <1>13, Zenon DEF OnlyAt

\* The worker writes the session's answer back.
LEMMA WriteReplyStep ==
    ASSUME TypeOK, StreamInv, WriteReply, UNCHANGED host
    PROVE  /\ realms' \in Realms /\ WorkerOK' /\ realms'.docs = realms.docs
           /\ StreamInv'
<1>1. /\ realms \in Realms /\ Len(realms.conns) \in Nat /\ worker.conn \in Nat
      /\ worker.call \in Calls
  BY DEF TypeOK, WorkerOK
<1>2. PICK c : c = worker.conn
  BY Zenon
<1>3. worker.at = "answered" /\ WithWorker(c) /\ UNCHANGED calls
  BY <1>2, Zenon DEF WriteReply, WithWorker
<1>4. c \in 1..Len(realms.conns)
  BY <1>1, <1>2, <1>3 DEF StreamInv, None
<1>5. \/ realms' = ReplyAt(realms, c, worker.call)
      \/ UNCHANGED realms
  BY <1>2, SMT DEF WriteReply, ReplyAt
<1>6. WorkerOK' /\ worker'.conn = c /\ worker'.at \in {"read", "accept"}
  BY <1>2, Zenon DEF TypeOK, WorkerOK, WriteReply, Calls
<1>7. \A d : ~WithWorker(d)'
  BY <1>6 DEF WithWorker
<1>8. /\ OnlyAt(realms, realms', c)
      /\ realms'.conns[c].call = realms.conns[c].call
      /\ realms'.conns[c].reply \in {realms.conns[c].reply, worker.call}
  <2>1. CASE realms' = ReplyAt(realms, c, worker.call)
    BY <1>1, <1>4, <2>1, SetReply
  <2>2. CASE UNCHANGED realms
    BY <1>1, <2>2 DEF OnlyAt
  <2>3. QED
    BY <1>5, <2>1, <2>2, Zenon
<1>9. \A d \in 1..Len(realms.conns) : Free(d) => Free(d)'
  BY <1>3, <1>7, <1>8, Zenon DEF Free, HasCall, HasReply, OnlyAt
<1>10. \A d \in 1..Len(realms.conns) : OneCall(d, calls) => OneCall(d, calls)'
  <2> TAKE d \in 1..Len(realms.conns)
  <2> HAVE OneCall(d, calls)
  <2>1. CASE d = c
    BY <1>3, <1>7, <1>8, <2>1, Zenon DEF OneCall, HasCall, HasReply
  <2>2. CASE d # c
    BY <1>3, <1>7, <1>8, Zenon DEF OneCall, HasCall, HasReply, OnlyAt
  <2>3. QED
    BY <2>1, <2>2, Zenon
<1>11. \A t \in Tabs : realms.client[t].stream \in Nat
  BY <1>1, Zenon DEF Realms
<1>12. StreamInv'
  BY <1>4, <1>6, <1>8, <1>9, <1>10, <1>11 DEF StreamInv, None, OnlyAt, Calling
<1>13. QED
  BY <1>6, <1>8, <1>12, Zenon DEF OnlyAt

\* A step of the worker preserves everything.
LEMMA WorkerPreserves ==
    ASSUME HostInv, WorkerStep, UNCHANGED <<executor, session, transport, host>>
    PROVE  HostInv'
<1>1. TypeOK /\ LineInv /\ RealmInv /\ PageInv /\ StreamInv
  BY Zenon DEF HostInv
<1>2. realms' \in Realms /\ WorkerOK' /\ realms'.docs = realms.docs /\ StreamInv'
  <2>1. CASE AcceptConnection
    BY <1>1, <2>1, AcceptStep
  <2>2. CASE ReadCall
    BY <1>1, <2>2, ReadCallStep
  <2>3. CASE ReadEnd
    <3>1. WorkerOK' /\ worker'.conn = worker.conn /\ worker'.at = "accept"
      BY <1>1, <2>3 DEF TypeOK, WorkerOK, ReadEnd
    <3>2. realms \in Realms /\ SameCalls(realms, realms') /\ UNCHANGED <<realms, calls>>
      BY <1>1, <2>3 DEF TypeOK, SameCalls, ReadEnd
    <3>3. worker'.conn <= Len(realms.conns)
      BY <1>1, <3>1, Zenon DEF StreamInv
    <3>4. \A c : ~WithWorker(c)'
      BY <3>1, Zenon DEF WithWorker
    <3>5. StreamInv'
      BY <1>1, <3>1, <3>2, <3>3, <3>4, WorkerMoves, Zenon
    <3>6. QED
      BY <3>1, <3>2, <3>5, Zenon
  <2>4. CASE WriteReply
    BY <1>1, <2>4, WriteReplyStep, Zenon
  <2>5. QED
    BY <2>1, <2>2, <2>3, <2>4 DEF WorkerStep
<1>3. UNCHANGED <<page, calls>>
  BY Zenon DEF WorkerStep, AcceptConnection, ReadCall, ReadEnd, WriteReply
<1>4. TypeOK'
  BY <1>1, <1>2, <1>3 DEF TypeOK, PageOK, SessionOK, HostOK
<1>5. SameSession /\ SamePages /\ Linked' = Linked
  BY <1>3 DEF SameSession, SamePages, Linked
<1>6. LineInv' /\ RealmInv' /\ PageInv'
  BY <1>1, <1>2, <1>5, SameLine, SameTables, SameShown DEF TypeOK
<1>7. QED
  BY <1>2, <1>4, <1>6, Zenon DEF HostInv

-----------------------------------------------------------------------------
(* The session's steps that leave the child and its tables alone.          *)

\* The session answers the worker.
LEMMA AnswerStep ==
    ASSUME TypeOK, StreamInv, worker.at = "queued", worker' = Answered,
           UNCHANGED <<realms, calls>>, host'.run = host.run
    PROVE  WorkerOK' /\ StreamInv'
<1>1. WorkerOK' /\ worker'.conn = worker.conn /\ worker'.call = worker.call
  BY DEF TypeOK, WorkerOK, Answered
<1>2. \A c : WithWorker(c)' => WithWorker(c)
  BY <1>1 DEF WithWorker
<1>3. SameCalls(realms, realms')
  BY Zenon DEF SameCalls
<1>4. worker'.conn <= Len(realms.conns) /\ worker'.conn # None
  BY <1>1, Zenon DEF StreamInv
<1>5. QED
  BY <1>1, <1>2, <1>3, <1>4, WorkerMoves, Zenon

\* dispatch_pending and the pump, within the allowance.
LEMMA PumpPreserves ==
    ASSUME HostInv, DispatchPending \/ Pump
    PROVE  HostInv'
<1>1. TypeOK /\ LineInv /\ RealmInv /\ PageInv /\ StreamInv
  BY Zenon DEF HostInv
<1>2. worker.at = "queued" /\ worker' = Answered /\ UNCHANGED <<realms, calls, executor, transport, host>>
  BY Zenon DEF DispatchPending, Pump
<1>3. WorkerOK' /\ StreamInv'
  BY <1>1, <1>2, AnswerStep, Zenon
<1>4. PageOK' /\ SamePages
  <2>1. CASE UNCHANGED page
    BY <1>1, <2>1 DEF TypeOK, PageOK, SamePages
  <2>2. CASE page' = HandleScriptRequest(worker.call)
    BY <1>1, <2>2, HandleEffect DEF TypeOK, PageOK, SamePages
  <2>3. QED
    BY <2>1, <2>2 DEF DispatchPending, Pump
<1>5. SessionOK' /\ SameSession
  <2>1. CASE UNCHANGED session
    BY <1>1, <2>1, Zenon DEF TypeOK, SessionOK, SameSession
  <2>2. CASE Pump
    <3>1. session \in Waits /\ session.remaining > 0
      BY <1>1, <2>2, SessionShape, Zenon DEF TypeOK, Pump
    <3>2. PICK n : n = session.remaining - 1
      OBVIOUS
    <3>3. n \in Nat /\ session' = [session EXCEPT !.remaining = n]
      BY <2>2, <3>1, <3>2 DEF Waits, Pump
    <3>4. session' \in Waits /\ SameSession
      BY <3>1, <3>3, Zenon DEF Waits, SameSession
    <3>5. QED
      BY <3>4, SMT DEF SessionOK
  <2>3. QED
    BY <2>1, <2>2, SMT DEF DispatchPending
<1>6. TypeOK'
  BY <1>1, <1>2, <1>3, <1>4, <1>5, Zenon DEF TypeOK, HostOK
<1>7. Linked' = Linked
  BY <1>2 DEF Linked
<1>8. LineInv' /\ RealmInv' /\ PageInv'
  BY <1>1, <1>2, <1>4, <1>5, <1>7, SameLine, SameTables, SameShown DEF TypeOK
<1>9. QED
  BY <1>3, <1>6, <1>8, Zenon DEF HostInv

\* A navigation, or the end of a tab.
LEMMA ChangePreserves ==
    ASSUME HostInv, NEW t \in Tabs,
           (\E kind \in {"web", "blank", "refused"} : Navigate(t, kind)) \/ CloseTab(t)
    PROVE  HostInv'
<1>1. TypeOK /\ LineInv /\ RealmInv /\ PageInv /\ StreamInv
  BY Zenon DEF HostInv
<1>2. /\ session.at = "tick" /\ session' = [at |-> "turn"]
      /\ UNCHANGED <<realms, worker, calls, executor, transport, host>>
  BY SMT DEF Navigate, CloseTab
<1>3. /\ PageOK'
      /\ \A u \in Tabs :
            \/ page'[u] = page[u]
            \/ page'[u].generation = page[u].generation + 1
            \/ page'[u].generation = page[u].generation /\ page'[u].kind = "gone"
  <2>0. page[t] \in [kind : Kinds, generation : Nat \ {0}, writers : SUBSET Nat]
    BY <1>1, Zenon DEF TypeOK, PageOK
  <2>1. ASSUME NEW kind \in {"web", "blank", "refused"}, Navigate(t, kind)
        PROVE  \E p \in [kind : Kinds, generation : Nat \ {0}, writers : SUBSET Nat] :
                  page' = [page EXCEPT ![t] = p] /\ p.generation = page[t].generation + 1
    <3>1. PICK p : p = [kind |-> kind, generation |-> page[t].generation + 1, writers |-> {}]
      BY Zenon
    <3>2. /\ p \in [kind : Kinds, generation : Nat \ {0}, writers : SUBSET Nat]
          /\ p.generation = page[t].generation + 1
      BY <2>0, <3>1 DEF Kinds
    <3>3. page' = [page EXCEPT ![t] = p]
      BY <2>1, <3>1, Zenon DEF Navigate
    <3>4. QED
      BY <3>2, <3>3, Zenon
  <2>2. ASSUME CloseTab(t)
        PROVE  \E p \in [kind : Kinds, generation : Nat \ {0}, writers : SUBSET Nat] :
                  /\ page' = [page EXCEPT ![t] = p]
                  /\ p.generation = page[t].generation /\ p.kind = "gone"
    <3>1. PICK p : p = [page[t] EXCEPT !.kind = "gone", !.writers = {}]
      OBVIOUS
    <3>2. /\ p \in [kind : Kinds, generation : Nat \ {0}, writers : SUBSET Nat]
          /\ p.generation = page[t].generation /\ p.kind = "gone"
      BY <2>0, <3>1, Zenon DEF Kinds
    <3>3. page' = [page EXCEPT ![t] = p]
      BY <1>1, <2>2, <3>1, Zenon DEF CloseTab, TypeOK
    <3>4. QED
      BY <3>2, <3>3, Zenon
  <2>3. PICK p \in [kind : Kinds, generation : Nat \ {0}, writers : SUBSET Nat] :
            /\ page' = [page EXCEPT ![t] = p]
            /\ \/ p.generation = page[t].generation + 1
               \/ p.generation = page[t].generation /\ p.kind = "gone"
    BY <2>1, <2>2, SMT
  <2>4. page' \in [Tabs -> [kind : Kinds, generation : Nat \ {0}, writers : SUBSET Nat]]
    BY <1>1, <2>3, Zenon DEF TypeOK, PageOK
  <2>5. page'[t] = p /\ \A u \in Tabs \ {t} : page'[u] = page[u]
    BY <1>1, <2>3, Zenon DEF TypeOK, PageOK
  <2>6. QED
    BY <2>3, <2>4 DEF PageOK
<1>4. TypeOK'
  BY <1>1, <1>2, <1>3 DEF TypeOK, WorkerOK, HostOK, SessionOK
<1>5. Linked' = Linked /\ ~Synchronizing /\ ~Synchronizing' /\ ~InRound' /\ Visited' = {}
  BY <1>2, SMT DEF Linked, Synchronizing, InRound, Visited
<1>6. LineInv' /\ RealmInv'
  BY <1>1, <1>2, <1>5, Zenon DEF LineInv, RealmInv, AtRest
<1>7. PageInv'
  <2>1. ASSUME NEW u \in Tabs, Linked, realms.docs[u] # None
        PROVE  /\ realms.docs[u] <= page'[u].generation
               /\ realms.docs[u] = page'[u].generation => page'[u].kind \in {"web", "gone"}
    <3>1. realms.docs[u] \in Nat /\ page[u].generation \in Nat
      BY <1>1 DEF TypeOK, Realms, PageOK
    <3>2. QED
      BY <1>1, <1>3, <2>1, <3>1, SMT DEF PageInv
  <2>2. QED
    BY <1>2, <1>5, <2>1, Zenon DEF PageInv
<1>8. StreamInv'
  BY <1>1, <1>2, SameStreams
<1>9. QED
  BY <1>4, <1>6, <1>7, <1>8, SMT DEF HostInv

\* The end of a round.
LEMMA EndRoundPreserves ==
    ASSUME HostInv, EndRound
    PROVE  HostInv'
<1>1. TypeOK /\ LineInv /\ RealmInv /\ PageInv /\ StreamInv
  BY SMT DEF HostInv
<1>2. /\ session.at = "round" /\ session.todo = {} /\ session' = [at |-> "tick"]
      /\ UNCHANGED <<page, realms, worker, calls, executor, transport, host>>
  BY Zenon DEF EndRound
<1>3. TypeOK'
  BY <1>1, <1>2 DEF TypeOK, PageOK, WorkerOK, HostOK, SessionOK
<1>4. /\ Linked' = Linked /\ ~Synchronizing /\ ~Synchronizing' /\ ~InRound'
      /\ Visited = Tabs /\ Visited' = Tabs
  BY <1>2 DEF Linked, Synchronizing, InRound, Visited
<1>5. LineInv' /\ RealmInv'
  BY <1>1, <1>2, <1>4 DEF LineInv, RealmInv, AtRest
<1>6. PageInv'
  BY <1>1, <1>2, <1>4 DEF PageInv, Current
<1>7. StreamInv'
  BY <1>1, <1>2, SameStreams, Zenon
<1>8. QED
  BY <1>3, <1>5, <1>6, <1>7, Zenon DEF HostInv

-----------------------------------------------------------------------------
(* The session's steps that close realms or send documents.                *)

\* Realms are closed while the child is not in a call.
LEMMA ClosedStreams ==
    ASSUME TypeOK, StreamInv, Closed(realms, realms'), UNCHANGED <<worker, calls>>,
           host.run.at # "reply", host'.run.at \notin {"hello", "reply"}
    PROVE  StreamInv'
<1>1. realms \in Realms /\ Len(realms.conns) \in Nat
  BY DEF TypeOK
<1>2. Len(realms'.conns) = Len(realms.conns)
  BY DEF Closed, SameCalls
<1>3. \A c \in 1..Len(realms.conns) : Free(c) => Free(c)'
  BY Zenon DEF Free, HasCall, HasReply, WithWorker, Closed, SameCalls
<1>4. \A t \in Tabs : ~Calling(t) /\ ~Calling(t)'
  BY DEF Calling
<1>5. \A t \in Tabs : realms'.client[t].stream # None => realms'.client[t] = realms.client[t]
  BY SMT DEF Closed, NewClient
<1>6. \A t \in Tabs : realms.client[t].stream \in Nat
  BY <1>1, Zenon DEF Realms
<1>7. ASSUME NEW t \in Tabs, NEW c, c = realms'.client[t].stream, c # None
      PROVE  /\ c <= Len(realms'.conns)
             /\ \A u \in Tabs \ {t} : realms'.client[u].stream # c
             /\ Free(c)'
  <2>1. c = realms.client[t].stream
    BY <1>5, <1>7
  <2>2. c <= Len(realms.conns) /\ Free(c) /\ \A u \in Tabs \ {t} : realms.client[u].stream # c
    BY <1>4, <1>7, <2>1, Zenon DEF StreamInv
  <2>3. c \in 1..Len(realms.conns)
    BY <1>6, <1>7, <2>1, <2>2, SMT DEF None
  <2>4. QED
    BY <1>2, <1>3, <1>5, <1>7, <2>2, <2>3, SMTT(30)
<1>8. QED
  BY <1>2, <1>4, <1>7, Zenon DEF StreamInv

\* As long as the line works, the child is idle outside a wait and when it has
\* replied.
LEMMA LineIdle ==
    ASSUME HostOK, LineInv, Linked, session.at # "wait" \/ host.outbox # Nothing
    PROVE  host.run = Idle /\ host.inbox = Nothing /\ host.run.at = "idle"
BY DEF LineInv, AtRest, Asked, Executing, Replied, Idle

\* The pair the operators work on.
LEMMA BothShape ==
    ASSUME TypeOK
    PROVE  /\ Both \in Pairs /\ Both.core = executor /\ Both.child = realms
           /\ Linked \in BOOLEAN
BY SMT DEF TypeOK, Both, Pairs, Linked

\* Realms are closed, or the line is lost and nothing is.
LEMMA SomeClosed ==
    ASSUME TypeOK, LineInv, StreamInv, Closed(realms, realms'), ~Linked => UNCHANGED realms,
           session.at # "wait" \/ host.outbox # Nothing,
           UNCHANGED <<worker, calls>>, host'.run = host.run
    PROVE  StreamInv'
<1>1. CASE Linked
  <2>1. host.run.at = "idle"
    BY <1>1, LineIdle, Zenon DEF TypeOK
  <2>2. QED
    BY <2>1, ClosedStreams
<1>2. CASE ~Linked
  BY <1>2, SameStreams, Zenon
<1>3. QED
  BY <1>1, <1>2, Zenon

\* The documents and the receipts agree as functions if they do tab by tab.
LEMMA TablesAgree ==
    ASSUME NEW r \in Realms, NEW e \in Executors, \A t \in Tabs : r.docs[t] = e.stats[t]
    PROVE  r.docs = e.stats
BY DEF Realms, Executors

\* The beginning of a round.
LEMMA BeginRoundPreserves ==
    ASSUME HostInv, BeginRound
    PROVE  HostInv'
<1>1. TypeOK /\ LineInv /\ RealmInv /\ PageInv /\ StreamInv
  BY DEF HostInv
<1>2. PICK gone : gone = {t \in Tabs : page[t].kind = "gone" /\ executor.live[t] # None}
  BY Zenon
<1>3. PICK s : s = ClosePages(Both, Linked, gone)
  OBVIOUS
<1>4. /\ session.at \in {"tick", "turn"} /\ executor' = s.core /\ realms' = s.child
      /\ session' = [at |-> "round", todo |-> {t \in Tabs : page[t].kind # "gone"}]
      /\ UNCHANGED <<page, worker, calls, transport, host>>
  BY <1>2, <1>3, Zenon DEF BeginRound, BetweenRounds
<1>5. Both \in Pairs /\ Both.core = executor /\ Both.child = realms /\ Linked \in BOOLEAN
  BY <1>1, BothShape, Zenon
<1>6. /\ s \in Pairs
      /\ ~Linked => s.child = realms
      /\ Closed(realms, s.child)
      /\ \A t \in gone :
            /\ s.core.stats[t] = None
            /\ s.child.docs[t] = realms.docs[t] \/ s.child.docs[t] = None
            /\ Linked /\ realms.docs[t] = executor.live[t] => s.child.docs[t] = None
      /\ \A t \in Tabs \ gone :
            /\ s.core.live[t] = executor.live[t] /\ s.core.stats[t] = executor.stats[t]
            /\ s.child.docs[t] = realms.docs[t]
  <2>1. gone \in SUBSET Tabs
    BY <1>2
  <2>2. Shut(Both, s, Linked, gone)
    BY <1>3, <1>5, <2>1, ClosePagesEffect, Zenon
  <2>3. QED
    BY <1>5, <2>2, Zenon DEF Shut
<1>7. /\ Linked' = Linked /\ ~Synchronizing /\ ~Synchronizing' /\ session'.at = "round"
      /\ Visited' = {t \in Tabs : page[t].kind = "gone"}
      /\ session'.todo = {t \in Tabs : page[t].kind # "gone"}
  BY <1>4, Zenon DEF Linked, Synchronizing, Visited
<1>8. TypeOK'
  BY <1>1, <1>4, <1>6, Zenon DEF TypeOK, PageOK, WorkerOK, HostOK, SessionOK, Pairs
<1>9. LineInv'
  BY <1>1, <1>4, <1>7, Zenon DEF LineInv, AtRest
<1>10. ASSUME NEW t \in Tabs, Linked
       PROVE  /\ realms'.docs[t] = executor'.stats[t]
              /\ realms'.docs[t] # None => /\ realms'.docs[t] = realms.docs[t]
                                           /\ executor'.stats[t] = executor'.live[t]
                                           /\ page[t].kind # "gone"
  <2>1. /\ realms.docs[t] = executor.stats[t]
        /\ executor.stats[t] # None => executor.stats[t] = executor.live[t]
    BY <1>1, <1>7, <1>10, Zenon DEF RealmInv
  <2>2. CASE t \in gone
    BY <1>4, <1>6, <1>10, <2>1, <2>2, Zenon
  <2>3. CASE t \notin gone
    BY <1>2, <1>4, <1>6, <2>1, <2>3, Zenon
  <2>4. QED
    BY <2>2, <2>3
<1>11. RealmInv'
  <2>1. Linked => realms'.docs = executor'.stats
    BY <1>8, <1>10, TablesAgree DEF TypeOK
  <2>2. QED
    BY <1>7, <1>10, <2>1 DEF RealmInv
<1>12. PageInv'
  BY <1>1, <1>4, <1>7, <1>10 DEF PageInv, Current
<1>13. StreamInv'
  BY <1>1, <1>4, <1>6, SomeClosed, Zenon
<1>14. QED
  BY <1>8, <1>9, <1>11, <1>12, <1>13 DEF HostInv

\* A tab of the round that is closed, passed over or refused: its realm is
\* closed or that of the document it shows.
LEMMA TabDone ==
    ASSUME HostInv, session.at = "round", NEW t \in session.todo,
           session' = [at |-> "round", todo |-> session.todo \ {t}],
           UNCHANGED <<page, worker, calls, transport, host>>,
           executor' \in Executors, Closed(realms, realms'), ~Linked => UNCHANGED realms,
           \A u \in Tabs \ {t} : /\ executor'.live[u] = executor.live[u]
                                 /\ executor'.stats[u] = executor.stats[u]
                                 /\ realms'.docs[u] = realms.docs[u],
           Linked => /\ realms'.docs[t] = executor'.stats[t]
                     /\ realms'.docs[t] # None =>
                           /\ realms'.docs[t] = executor'.live[t]
                           /\ page[t].kind = "web" /\ page[t].generation = realms'.docs[t]
    PROVE  HostInv'
<1>1. TypeOK /\ LineInv /\ RealmInv /\ PageInv /\ StreamInv
  BY Zenon DEF HostInv
<1>2. t \in Tabs /\ session.todo \subseteq Tabs
  BY <1>1, SessionShape, Zenon DEF TypeOK
<1>3. /\ Linked' = Linked /\ ~Synchronizing /\ ~Synchronizing' /\ InRound /\ InRound'
      /\ session'.at = "round" /\ session'.todo = session.todo \ {t}
      /\ Visited = Tabs \ session.todo /\ Visited' = (Tabs \ session.todo) \cup {t}
  BY <1>2, Zenon DEF Linked, Synchronizing, InRound, Visited
<1>4. TypeOK'
  BY <1>1, <1>2 DEF TypeOK, PageOK, WorkerOK, HostOK, SessionOK, Closed
<1>5. LineInv'
  BY <1>1, <1>3 DEF LineInv, AtRest
<1>6. ASSUME NEW u \in Tabs, Linked
      PROVE  /\ realms'.docs[u] = executor'.stats[u]
             /\ executor'.stats[u] # None => executor'.stats[u] = executor'.live[u]
  BY <1>1, <1>3, <1>6, SMT DEF RealmInv
<1>7. RealmInv'
  <2>1. Linked => realms'.docs = executor'.stats
    BY <1>4, <1>6, TablesAgree DEF TypeOK
  <2>2. QED
    BY <1>3, <1>6, <2>1, Zenon DEF RealmInv
<1>8. page[t].generation \in Nat
  BY <1>1, <1>2, Zenon DEF TypeOK, PageOK
<1>9. PageInv'
  <2>1. \A u \in session'.todo : page'[u].kind # "gone"
    BY <1>1, <1>3, Zenon DEF PageInv
  <2>2. ASSUME NEW u \in Tabs, Linked, realms'.docs[u] # None
        PROVE  /\ realms'.docs[u] <= page[u].generation
               /\ realms'.docs[u] = page[u].generation => page[u].kind \in {"web", "gone"}
    <3>1. CASE u = t
      BY <1>8, <2>2, <3>1
    <3>2. CASE u # t
      BY <1>1, <2>2, <3>2 DEF PageInv
    <3>3. QED
      BY <3>1, <3>2, Zenon
  <2>3. ASSUME NEW u \in Visited', Linked PROVE Current(u)'
    <3>1. CASE u = t
      BY <2>3, <3>1, Zenon DEF Current
    <3>2. CASE u # t
      <4>1. u \in Visited /\ u \in Tabs \ {t}
        BY <1>2, <1>3, <2>3, <3>2, Zenon
      <4>2. Current(u)
        BY <1>1, <2>3, <4>1, Zenon DEF PageInv
      <4>3. QED
        BY <4>1, <4>2, Zenon DEF Current
    <3>3. QED
      BY <3>1, <3>2, Zenon
  <2>4. QED
    BY <1>3, <2>1, <2>2, <2>3, Zenon DEF PageInv
<1>10. StreamInv'
  BY <1>1, SomeClosed
<1>11. QED
  BY <1>4, <1>5, <1>7, <1>9, <1>10, SMTT(30) DEF HostInv

\* A document is sent, or the line turns out to be lost.
LEMMA SendPreserves ==
    ASSUME HostInv, session.at = "round", NEW t \in session.todo, page[t].kind = "web",
           SendDocument([Both EXCEPT !.core.stats[t] = None], t, page[t].generation,
                        session.todo \ {t}),
           UNCHANGED <<page, worker, calls>>
    PROVE  HostInv'
<1>1. TypeOK /\ LineInv /\ RealmInv /\ PageInv /\ StreamInv
  BY Zenon DEF HostInv
<1>2. t \in Tabs /\ session.todo \subseteq Tabs
  BY <1>1, SessionShape, Zenon DEF TypeOK
<1>3. PICK g : g = page[t].generation
  BY SMT
<1>4. PICK rest : rest = session.todo \ {t}
  BY Zenon
<1>5. g \in Nat \ {0} /\ rest \subseteq Tabs /\ rest \subseteq session.todo
  BY <1>1, <1>2, <1>3, <1>4, Zenon DEF TypeOK, PageOK
<1>6. PICK s : s = [Both EXCEPT !.core.stats[t] = None]
  BY Zenon
<1>7. /\ s \in Pairs /\ s.child = realms /\ s.core.live = executor.live
      /\ s.core.stats[t] = None /\ \A u \in Tabs \ {t} : s.core.stats[u] = executor.stats[u]
  <2>1. Both \in Pairs /\ Both.core = executor /\ Both.child = realms
    BY <1>1, BothShape
  <2>2. QED
    BY <1>2, <1>6, <2>1, Zenon DEF Pairs, Executors, None
<1>8. SendDocument(s, t, g, rest)
  BY <1>3, <1>4, <1>6
<1>9. ~Synchronizing /\ InRound /\ Visited = Tabs \ session.todo
  BY DEF Synchronizing, InRound, Visited
<1>10. CASE Linked
  <2>1. /\ executor' = s.core
        /\ session' = [at |-> "wait", kind |-> "sync", doc |-> Document(t, g),
                       remaining |-> Allowance, todo |-> rest]
        /\ host' = [host EXCEPT !.inbox = [kind |-> "sync", doc |-> Document(t, g)]]
        /\ UNCHANGED <<realms, transport>>
    BY <1>8, <1>10 DEF SendDocument
  <2>2. /\ Document(t, g) \in Documents
        /\ Document(t, g).tab = t /\ Document(t, g).generation = g
    BY <1>2, <1>5 DEF Document, Documents
  <2>3. /\ session' \in Waits /\ session'.at = "wait" /\ session'.kind = "sync"
        /\ session'.doc = Document(t, g) /\ session'.todo = rest
    BY <1>5, <2>1, <2>2, PageHostAssumption, Zenon DEF Waits
  <2>4. host.run = Idle /\ host.inbox = Nothing /\ host.outbox = Nothing
    BY <1>1, <1>10, Zenon DEF LineInv, AtRest
  <2>5. /\ HostOK' /\ host'.up = host.up /\ host'.run = Idle /\ host'.outbox = Nothing
        /\ host'.inbox = [kind |-> "sync", doc |-> Document(t, g)]
    <3>1. [kind |-> "sync", doc |-> Document(t, g)] \in Requests
      BY <2>2 DEF Requests
    <3>2. QED
      BY <1>1, <2>1, <2>4, <3>1, Zenon DEF TypeOK, HostOK
  <2>6. TypeOK'
    BY <1>1, <1>7, <2>1, <2>3, <2>5, Zenon DEF TypeOK, PageOK, WorkerOK, SessionOK, Pairs
  <2>7. LineInv'
    BY <2>3, <2>5, Zenon DEF LineInv, Asked
  <2>8. /\ Linked' = Linked /\ Synchronizing' /\ InRound'
        /\ Visited' = Tabs \ (rest \cup {t}) /\ ~Executing' /\ ~Replied'
    BY <2>1, <2>2, <2>5 DEF Linked, Synchronizing, InRound, Visited, Executing, Replied
  <2>9. RealmInv'
    <3>1. /\ realms.docs = executor.stats
          /\ \A u \in Tabs : executor.stats[u] # None => executor.stats[u] = executor.live[u]
      BY <1>1, <1>9, <1>10 DEF RealmInv
    <3>2. SyncInv'
      BY <1>2, <1>7, <2>1, <2>2, <2>8, <3>1 DEF SyncInv
    <3>3. \A u \in Tabs : executor'.stats[u] # None => executor'.stats[u] = executor'.live[u]
      BY <1>7, <2>1, <3>1, Zenon
    <3>4. QED
      BY <2>8, <3>2, <3>3, Zenon DEF RealmInv
  <2>10. PageInv'
    <3>1. \A u \in Visited' : u \in Visited
      BY <1>4, <1>9, <2>8, Zenon
    <3>2. QED
      BY <1>1, <1>3, <1>5, <1>9, <2>1, <2>2, <2>8, <3>1 DEF PageInv, Current
  <2>11. StreamInv'
    BY <1>1, <2>1, SameStreams
  <2>12. QED
    BY <2>6, <2>7, <2>9, <2>10, <2>11, Zenon DEF HostInv
<1>11. CASE ~Linked
  <2>1. PICK f : f = FinishDocument(s, FALSE, t, g, "lost", FALSE)
    BY Zenon
  <2>2. /\ executor' = f.core /\ transport' = FALSE
        /\ session' = [at |-> "round", todo |-> rest]
        /\ UNCHANGED <<realms, host>>
    BY <1>8, <1>11, <2>1, Zenon DEF SendDocument
  <2>3. f \in Pairs
    BY <1>2, <1>5, <1>7, <2>1, FinishEffect, Zenon DEF Settled, Finished
  <2>4. TypeOK'
    BY <1>1, <1>5, <2>2, <2>3, Zenon DEF TypeOK, PageOK, WorkerOK, SessionOK, HostOK, Pairs
  <2>5. ~Linked'
    BY <2>2, Zenon DEF Linked
  <2>6. PageInv'
    BY <1>1, <1>5, <1>9, <2>2, <2>5 DEF PageInv, Synchronizing
  <2>7. QED
    BY <2>2, <2>4, <2>5, <2>6, LostLine, SameStreams DEF HostInv
<1>12. QED
  BY <1>10, <1>11, SMT

\* A tab of the round.
LEMMA VisitTabPreserves ==
    ASSUME HostInv, VisitTab
    PROVE  HostInv'
<1>1. TypeOK /\ LineInv /\ RealmInv /\ PageInv /\ StreamInv
  BY SMT DEF HostInv
<1>2. session.at = "round" /\ UNCHANGED <<page, worker, calls>>
  BY Zenon DEF VisitTab
<1>3. PICK t \in session.todo :
        LET g == page[t].generation
            rest == session.todo \ {t}
            closed == ClosePage(Both, Linked, t)
        IN  \/ /\ page[t].kind = "blank"
               /\ executor' = closed.core /\ realms' = closed.child
               /\ session' = [at |-> "round", todo |-> rest]
               /\ UNCHANGED <<transport, host>>
            \/ /\ page[t].kind # "blank" /\ executor.live[t] = g
               /\ session' = [at |-> "round", todo |-> rest]
               /\ UNCHANGED <<executor, realms, transport, host>>
            \/ /\ page[t].kind = "refused"
               /\ executor' = [closed.core EXCEPT !.live[t] = g] /\ realms' = closed.child
               /\ session' = [at |-> "round", todo |-> rest]
               /\ UNCHANGED <<transport, host>>
            \/ /\ page[t].kind \notin {"blank", "refused"}
               /\ SendDocument([Both EXCEPT !.core.stats[t] = None], t, g, rest)
  BY Zenon DEF VisitTab
<1>4. t \in Tabs /\ session.todo \subseteq Tabs /\ page[t].generation \in Nat
  BY <1>1, <1>2, SessionShape DEF TypeOK, PageOK
<1>5. PICK c : c = ClosePage(Both, Linked, t)
  BY Zenon
<1>6. /\ c \in Pairs
      /\ ~Linked => c.child = realms
      /\ Closed(realms, c.child)
      /\ c.core.stats[t] = None
      /\ c.child.docs[t] = realms.docs[t] \/ c.child.docs[t] = None
      /\ Linked /\ realms.docs[t] = executor.live[t] => c.child.docs[t] = None
      /\ \A u \in Tabs \ {t} : /\ c.core.live[u] = executor.live[u]
                                /\ c.core.stats[u] = executor.stats[u]
                                /\ c.child.docs[u] = realms.docs[u]
  <2>1. Both \in Pairs /\ Both.core = executor /\ Both.child = realms /\ Linked \in BOOLEAN
    BY <1>1, BothShape
  <2>2. {t} \in SUBSET Tabs
    BY <1>4, Zenon
  <2>3. c = ClosePages(Both, Linked, {t})
    BY <1>5 DEF ClosePage
  <2>4. QED
    <3>1. Shut(Both, c, Linked, {t})
      BY <2>1, <2>2, <2>3, ClosePagesEffect, Zenon
    <3>2. QED
      BY <2>1, <3>1, Zenon DEF Shut
<1>7. ASSUME Linked
      PROVE  /\ realms.docs[t] = executor.stats[t]
             /\ executor.stats[t] # None => executor.stats[t] = executor.live[t]
  BY <1>1, <1>2, <1>4, <1>7, Zenon DEF RealmInv, Synchronizing
<1>8. Linked => c.child.docs[t] = None
  BY <1>6, <1>7, Zenon
<1>9. page[t].kind # "gone"
  BY <1>1, <1>2, Zenon DEF PageInv, InRound
<1>10. CASE /\ page[t].kind \notin {"blank", "refused"}
            /\ SendDocument([Both EXCEPT !.core.stats[t] = None], t, page[t].generation,
                            session.todo \ {t})
  <2>1. page[t].kind = "web"
    BY <1>1, <1>4, <1>9, <1>10, Zenon DEF TypeOK, PageOK, Kinds
  <2>2. QED
    BY <1>2, <1>10, <2>1, SendPreserves
<1>11. CASE /\ page[t].kind # "blank" /\ executor.live[t] = page[t].generation
            /\ session' = [at |-> "round", todo |-> session.todo \ {t}]
            /\ UNCHANGED <<executor, realms, transport, host>>
  <2>1. ASSUME Linked, realms.docs[t] # None
        PROVE  /\ realms.docs[t] = executor.live[t]
               /\ page[t].kind = "web" /\ page[t].generation = realms.docs[t]
    <3>1. realms.docs[t] = executor.live[t] /\ realms.docs[t] = page[t].generation
      BY <1>7, <1>11, <2>1, Zenon
    <3>2. QED
      BY <1>1, <1>4, <1>9, <2>1, <3>1, Zenon DEF PageInv
  <2>2. executor' \in Executors /\ Closed(realms, realms')
    BY <1>1, <1>11, ClosedNone, Zenon DEF TypeOK
  <2>3. QED
    BY <1>2, <1>7, <1>11, <2>1, <2>2, TabDone, Zenon
<1>12. CASE /\ executor' = c.core \/ executor' = [c.core EXCEPT !.live[t] = page[t].generation]
            /\ realms' = c.child
            /\ session' = [at |-> "round", todo |-> session.todo \ {t}]
            /\ UNCHANGED <<transport, host>>
  <2>1. /\ executor' \in Executors /\ executor'.stats = c.core.stats
        /\ \A u \in Tabs \ {t} : executor'.live[u] = c.core.live[u]
    BY <1>4, <1>6, <1>12 DEF Pairs, Executors
  <2>2. QED
    BY <1>2, <1>6, <1>8, <1>12, <2>1, TabDone
<1>13. QED
  BY <1>3, <1>5, <1>10, <1>11, <1>12, Zenon

\* A click.
LEMMA ClickPreserves ==
    ASSUME HostInv, NEW t \in Tabs, Click(t)
    PROVE  HostInv'
<1>1. TypeOK /\ LineInv /\ RealmInv /\ PageInv /\ StreamInv
  BY DEF HostInv
<1>2. session.at = "tick" /\ UNCHANGED <<page, realms, worker, calls, executor>>
  BY Zenon DEF Click
<1>3. PICK doc : doc = Document(t, page[t].generation)
  BY Zenon
<1>4. doc \in Documents
  BY <1>1, <1>3, SMT DEF TypeOK, PageOK, Documents, Document
<1>5. ~Synchronizing
  BY <1>2, Zenon DEF Synchronizing
<1>6. CASE Linked
  <2>1. /\ session' = [at |-> "wait", kind |-> "click", doc |-> doc,
                       remaining |-> Allowance, todo |-> {}]
        /\ host' = [host EXCEPT !.inbox = [kind |-> "click", doc |-> doc]]
        /\ UNCHANGED transport
    BY <1>3, <1>6 DEF Click
  <2>2. /\ session' \in Waits /\ session'.at = "wait" /\ session'.kind = "click"
        /\ session'.doc = doc
    BY <1>4, <2>1, PageHostAssumption, Zenon DEF Waits
  <2>3. host.run = Idle /\ host.inbox = Nothing /\ host.outbox = Nothing
    BY <1>1, <1>2, <1>6 DEF LineInv, AtRest
  <2>4. /\ HostOK' /\ host'.up = host.up /\ host'.run = Idle /\ host'.outbox = Nothing
        /\ host'.inbox = [kind |-> "click", doc |-> doc]
    <3>1. [kind |-> "click", doc |-> doc] \in Requests
      BY <1>4 DEF Requests
    <3>2. QED
      BY <1>1, <2>1, <2>3, <3>1, Zenon DEF TypeOK, HostOK
  <2>5. TypeOK'
    BY <1>1, <1>2, <2>1, <2>2, <2>4, Zenon DEF TypeOK, PageOK, WorkerOK, SessionOK
  <2>6. Linked' = Linked /\ ~Synchronizing' /\ ~InRound' /\ Visited' = {}
    BY <2>1 DEF Linked, Synchronizing, InRound, Visited
  <2>7. LineInv'
    BY <2>2, <2>4, Zenon DEF LineInv, Asked
  <2>8. RealmInv' /\ PageInv'
    BY <1>1, <1>2, <1>5, <2>6, Zenon DEF RealmInv, PageInv
  <2>9. QED
    BY <1>2, <2>3, <2>4, <2>5, <2>7, <2>8, SameStreams, Zenon DEF HostInv
<1>7. CASE ~Linked
  <2>1. transport' = FALSE /\ session' = [at |-> "turn"] /\ UNCHANGED host
    BY <1>7, Zenon DEF Click
  <2>2. TypeOK'
    BY <1>1, <1>2, <2>1, Zenon DEF TypeOK, PageOK, WorkerOK, SessionOK, HostOK
  <2>3. ~Linked' /\ ~Synchronizing' /\ ~InRound'
    BY <2>1, SMT DEF Linked, Synchronizing, InRound
  <2>4. PageInv'
    BY <2>3, Zenon DEF PageInv
  <2>5. QED
    BY <1>2, <2>1, <2>2, <2>3, <2>4, LostLine, SameStreams, Zenon DEF HostInv
<1>8. QED
  BY <1>6, <1>7, SMT

-----------------------------------------------------------------------------
(* The end of a wait.                                                      *)

\* A wait that failed.
LEMMA GiveUpPreserves ==
    ASSUME HostInv, Deadline \/ ReadFails \/ PumpExhausted
    PROVE  HostInv'
<1>1. TypeOK /\ LineInv /\ RealmInv /\ PageInv /\ StreamInv
  BY SMT DEF HostInv
<1>2. session.at = "wait" /\ GiveUp /\ UNCHANGED <<page, calls>>
  BY DEF Deadline, ReadFails, PumpExhausted
<1>3. session \in Waits
  BY <1>1, <1>2, SessionShape DEF TypeOK
<1>4. /\ transport' = FALSE /\ host' = [host EXCEPT !.outbox = Nothing]
      /\ Conclude(FALSE, "lost", FALSE)
  BY <1>2, Zenon DEF GiveUp
<1>5. HostOK' /\ host'.run = host.run
  BY <1>1, <1>4, SMT DEF TypeOK, HostOK, Nothing
<1>6. /\ executor' \in Executors /\ UNCHANGED realms
      /\ \/ Synchronizing /\ session' = [at |-> "round", todo |-> session.todo]
         \/ session' = [at |-> "turn"]
  <2>1. CASE session.kind = "sync"
    <3>1. PICK f : f = FinishDocument(Both, FALSE, session.doc.tab, session.doc.generation, "lost", FALSE)
      BY Zenon
    <3>2. executor' = f.core /\ realms' = f.child /\ session' = [at |-> "round", todo |-> session.todo]
      BY <1>4, <2>1, <3>1, Zenon DEF Conclude
    <3>3. PICK t, g : t = session.doc.tab /\ g = session.doc.generation
      OBVIOUS
    <3>4. t \in Tabs /\ g \in Nat /\ Both \in Pairs /\ Both.child = realms
      BY <1>1, <1>3, <3>3, BothShape DEF Waits, Documents
    <3>5. f \in Pairs /\ f.child = realms
      <4>1. Finished(Both, f, FALSE, t, g)
        BY <3>1, <3>3, <3>4, FinishEffect, Zenon DEF Settled
      <4>2. QED
        BY <3>4, <4>1, Zenon DEF Finished
    <3>6. QED
      BY <1>2, <2>1, <3>2, <3>5 DEF Pairs, Synchronizing
  <2>2. CASE session.kind # "sync"
    BY <1>1, <1>4, <2>2 DEF Conclude, TypeOK
  <2>3. QED
    BY <2>1, <2>2, SMT
<1>7. WorkerOK' /\ StreamInv'
  <2>1. CASE UNCHANGED worker
    BY <1>1, <1>2, <1>5, <1>6, <2>1, SameStreams, Zenon DEF TypeOK, WorkerOK
  <2>2. CASE PumpExhausted
    <3>1. worker.at = "queued" /\ worker' = Answered
      BY <2>2, SMT DEF PumpExhausted
    <3>2. QED
      BY <1>1, <1>2, <1>5, <1>6, <3>1, AnswerStep, Zenon
  <2>3. QED
    BY <2>1, <2>2 DEF Deadline, ReadFails
<1>8. SessionOK'
  BY <1>3, <1>6 DEF SessionOK, Waits
<1>9. TypeOK'
  BY <1>1, <1>2, <1>4, <1>5, <1>6, <1>7, <1>8, Zenon DEF TypeOK, PageOK
<1>10. ~Linked' /\ ~Synchronizing'
  BY <1>4, <1>6 DEF Linked, Synchronizing
<1>11. PageInv'
  BY <1>1, <1>2, <1>6, <1>10, SMT DEF PageInv, InRound
<1>12. QED
  BY <1>7, <1>9, <1>10, <1>11, LostLine DEF HostInv

\* A wait that ends with a reply.
LEMMA ReceiveReplyPreserves ==
    ASSUME HostInv, NEW counted \in BOOLEAN, ReceiveReply(counted)
    PROVE  HostInv'
<1>1. TypeOK /\ LineInv /\ RealmInv /\ PageInv /\ StreamInv
  BY Zenon DEF HostInv
<1>2. /\ session.at = "wait" /\ host.outbox # Nothing
      /\ Conclude(Linked, host.outbox.kind, counted)
      /\ host' = [host EXCEPT !.outbox = Nothing]
      /\ UNCHANGED <<page, worker, calls, transport>>
  BY Zenon DEF ReceiveReply
<1>3. session \in Waits
  BY <1>1, <1>2, SessionShape DEF TypeOK
<1>4. PICK t, g : t = session.doc.tab /\ g = session.doc.generation
  BY Zenon
<1>5. t \in Tabs /\ g \in Nat \ {0} /\ session.todo \subseteq Tabs /\ session.kind \in {"sync", "click"}
  BY <1>3, <1>4 DEF Waits, Documents
<1>6. /\ HostOK' /\ host'.up = host.up /\ host'.run = host.run /\ host'.inbox = host.inbox
      /\ host'.outbox = Nothing
  BY <1>1, <1>2 DEF TypeOK, HostOK, Nothing
<1>7. Linked' = Linked
  BY <1>2 DEF Linked
<1>8. Linked => Replied
  BY <1>1, <1>2, Zenon DEF LineInv, Asked, Executing
<1>9. ASSUME session'.at # "wait" PROVE LineInv'
  BY <1>6, <1>7, <1>8, <1>9 DEF LineInv, AtRest, Replied
<1>10. CASE session.kind = "click"
  <2>1. session' = [at |-> "turn"] /\ UNCHANGED <<executor, realms>>
    BY <1>2, <1>10 DEF Conclude
  <2>2. ~Synchronizing /\ ~Synchronizing' /\ ~InRound' /\ Visited' = {}
    BY <1>10, <2>1 DEF Synchronizing, InRound, Visited
  <2>3. TypeOK'
    BY <1>1, <1>2, <1>6, <2>1 DEF TypeOK, PageOK, WorkerOK, SessionOK
  <2>4. RealmInv' /\ PageInv'
    BY <1>1, <1>2, <1>7, <2>1, <2>2, Zenon DEF RealmInv, PageInv
  <2>5. StreamInv'
    BY <1>1, <1>2, <2>1, SameStreams
  <2>6. QED
    BY <1>9, <2>1, <2>3, <2>4, <2>5 DEF HostInv
<1>11. CASE session.kind = "sync"
  <2>1. PICK f : f = FinishDocument(Both, Linked, t, g, host.outbox.kind, counted)
    BY Zenon
  <2>2. executor' = f.core /\ realms' = f.child /\ session' = [at |-> "round", todo |-> session.todo]
    BY <1>2, <1>4, <1>11, <2>1 DEF Conclude
  <2>3. Both \in Pairs /\ Both.core = executor /\ Both.child = realms /\ Linked \in BOOLEAN
    BY <1>1, BothShape, Zenon
  <2>4. /\ Synchronizing /\ ~Synchronizing' /\ InRound /\ InRound'
        /\ session'.at = "round" /\ session'.todo = session.todo
        /\ Visited = Tabs \ (session.todo \cup {t}) /\ Visited' = Tabs \ session.todo
    BY <1>2, <1>4, <1>11, <2>2, Zenon DEF Synchronizing, InRound, Visited
  <2>5. /\ Finished(Both, f, Linked, t, g)
        /\ Linked /\ Both.child.docs[t] \in {None, Both.core.live[t], g}
             /\ (host.outbox.kind = "synchronized" => Both.child.docs[t] = g)
           => f.child.docs[t] = f.core.stats[t] /\ f.core.stats[t] \in {None, g}
    <3>1. Settled(Both, f, Linked, t, g, host.outbox.kind)
      BY <1>5, <2>1, <2>3, FinishEffect, Zenon
    <3>2. QED
      BY <3>1, Zenon DEF Settled
  <2>6. ASSUME Linked
        PROVE  /\ SyncInv
               /\ f.child.docs[t] = f.core.stats[t] /\ f.core.stats[t] \in {None, g}
    <3>1. SyncInv
      BY <1>1, <2>4, <2>6, Zenon DEF RealmInv
    <3>2. /\ realms.docs[t] \in {None, executor.live[t], g}
          /\ host.outbox.kind = "synchronized" => realms.docs[t] = g
      BY <1>4, <1>8, <2>6, <3>1, Zenon DEF SyncInv
    <3>3. QED
      BY <2>3, <2>5, <2>6, <3>1, <3>2, Zenon
  <2>7. TypeOK'
    BY <1>1, <1>2, <1>5, <1>6, <2>2, <2>5, Zenon DEF TypeOK, PageOK, WorkerOK, SessionOK,
         Finished, Pairs
  <2>8. ASSUME NEW u \in Tabs, Linked
        PROVE  /\ realms'.docs[u] = executor'.stats[u]
               /\ executor'.stats[u] # None => executor'.stats[u] = executor'.live[u]
    <3>1. CASE u = t
      BY <2>2, <2>5, <2>6, <2>8, <3>1, Zenon DEF Finished
    <3>2. CASE u # t
      <4>1. /\ realms.docs[u] = executor.stats[u]
            /\ executor.stats[u] # None => executor.stats[u] = executor.live[u]
        BY <1>1, <1>4, <2>8, <3>2, Zenon DEF SyncInv, RealmInv
      <4>2. QED
        BY <2>2, <2>3, <2>5, <3>2, <4>1, Zenon DEF Finished
    <3>3. QED
      BY <3>1, <3>2, Zenon
  <2>9. RealmInv'
    <3>1. Linked => realms'.docs = executor'.stats
      BY <2>7, <2>8, TablesAgree, Zenon DEF TypeOK
    <3>2. QED
      BY <1>7, <2>4, <2>8, <3>1 DEF RealmInv
  <2>10. PageInv'
    <3>1. page[t].kind = "web" /\ page[t].generation = g
      BY <1>1, <1>4, <2>4 DEF PageInv
    <3>2. \A u \in session'.todo : page'[u].kind # "gone"
      BY <1>1, <1>2, <2>4 DEF PageInv
    <3>3. ASSUME NEW u \in Tabs, Linked, realms'.docs[u] # None
          PROVE  /\ realms'.docs[u] <= page[u].generation
                 /\ realms'.docs[u] = page[u].generation => page[u].kind \in {"web", "gone"}
                 /\ u \in Visited' => page[u].kind = "web" /\ page[u].generation = realms'.docs[u]
      <4>1. CASE u = t
        <5>1. realms'.docs[u] = g
          BY <2>2, <2>6, <3>3, <4>1, Zenon
        <5>2. g <= g
          BY <1>5
        <5>3. QED
          BY <3>1, <4>1, <5>1, <5>2, Zenon
      <4>2. CASE u # t
        <5>1. realms'.docs[u] = realms.docs[u]
          BY <2>2, <2>3, <2>5, <4>2, Zenon DEF Finished
        <5>2. u \in Visited' => u \in Visited
          BY <2>4, <4>2
        <5>3. QED
          BY <1>1, <3>3, <5>1, <5>2, SMT DEF PageInv, Current
      <4>3. QED
        BY <4>1, <4>2, Zenon
    <3>4. QED
      BY <1>2, <1>7, <2>4, <3>2, <3>3, Zenon DEF PageInv, Current
  <2>11. StreamInv'
    <3>1. Closed(realms, realms') /\ (~Linked => UNCHANGED realms)
      BY <2>2, <2>3, <2>5, Zenon DEF Finished
    <3>2. QED
      BY <1>1, <1>2, <3>1, SomeClosed
  <2>12. QED
    BY <1>9, <2>4, <2>7, <2>9, <2>10, <2>11 DEF HostInv
<1>12. QED
  BY <1>5, <1>10, <1>11, Zenon

-----------------------------------------------------------------------------
(* The child's steps.                                                      *)

\* The pages, while the child changes the realm of one tab: it keeps it,
\* closes it, or gives it the document that is being synchronized.
LEMMA ChildPages ==
    ASSUME TypeOK, PageInv, UNCHANGED <<page, session>>, Linked' => Linked,
           NEW t \in Tabs, \A u \in Tabs \ {t} : realms'.docs[u] = realms.docs[u],
           Linked => \/ realms'.docs[t] \in {realms.docs[t], None}
                     \/ /\ Synchronizing /\ session.doc.tab = t
                        /\ realms'.docs[t] = session.doc.generation
    PROVE  PageInv'
<1>1. /\ Synchronizing' = Synchronizing /\ InRound' = InRound /\ Visited' = Visited
      /\ Visited \subseteq Tabs
      /\ Synchronizing => session.doc.tab \notin Visited
  BY Zenon DEF Synchronizing, InRound, Visited
<1>2. ASSUME NEW u \in Tabs, Linked, realms'.docs[u] # None
      PROVE  /\ realms'.docs[u] <= page[u].generation
             /\ realms'.docs[u] = page[u].generation => page[u].kind \in {"web", "gone"}
             /\ u \in Visited => page[u].kind = "web" /\ page[u].generation = realms'.docs[u]
  <2>1. CASE realms'.docs[u] = realms.docs[u]
    BY <1>2, <2>1, Zenon DEF PageInv, Current
  <2>2. CASE /\ Synchronizing /\ session.doc.tab = u
             /\ realms'.docs[u] = session.doc.generation
    <3>1. page[u].kind = "web" /\ page[u].generation = realms'.docs[u]
      BY <2>2, Zenon DEF PageInv
    <3>2. page[u].generation \in Nat
      BY Zenon DEF TypeOK, PageOK
    <3>3. QED
      BY <3>1, <3>2, SMT
  <2>3. QED
    BY <1>2, <2>1, <2>2, Zenon
<1>3. QED
  BY <1>1, <1>2, Zenon DEF PageInv, Current

\* A step of the child that takes the request or answers it, and changes the
\* realm of the tab that the request is for, if it is a synchronization.
LEMMA ChildStep ==
    ASSUME HostInv, UNCHANGED <<page, worker, calls, executor, session, transport>>,
           HostOK', host'.up = host.up,
           host.run.at # "reply", host'.run.at \notin {"hello", "reply"},
           Closed(realms, realms'),
           NEW t \in Tabs, \A u \in Tabs \ {t} : realms'.docs[u] = realms.docs[u],
           Linked => session.at = "wait" /\ (Executing' \/ Replied'),
           Linked /\ ~Synchronizing => realms'.docs = realms.docs,
           Linked /\ Synchronizing =>
              /\ session.doc.tab = t
              /\ realms'.docs[t] \in {None, realms.docs[t], session.doc.generation}
              /\ (Executing' \/ (Replied' /\ host'.outbox.kind = "synchronized")
                    => realms'.docs[t] = session.doc.generation)
    PROVE  HostInv'
<1>1. TypeOK /\ LineInv /\ RealmInv /\ PageInv /\ StreamInv
  BY DEF HostInv
<1>2. Linked' = Linked /\ Synchronizing' = Synchronizing
  BY DEF Linked, Synchronizing
<1>3. TypeOK'
  BY <1>1, Zenon DEF TypeOK, PageOK, WorkerOK, SessionOK, Closed
<1>4. LineInv'
  BY <1>2 DEF LineInv
<1>5. RealmInv'
  <2>1. ASSUME Linked, Synchronizing PROVE SyncInv'
    BY <1>1, <2>1, Zenon DEF RealmInv, SyncInv
  <2>2. QED
    BY <1>1, <1>2, <2>1, SMT DEF RealmInv
<1>6. PageInv'
  BY <1>1, <1>2, ChildPages
<1>7. StreamInv'
  BY <1>1, ClosedStreams, Zenon
<1>8. QED
  BY <1>3, <1>4, <1>5, <1>6, <1>7, Zenon DEF HostInv

\* The core waits for the request that the child takes.
LEMMA TakesRequest ==
    ASSUME HostInv, host.run = Idle, host.inbox.kind \in {"sync", "click"}
    PROVE  /\ host.inbox \in Requests
           /\ Linked => /\ session.at = "wait" /\ session.kind = host.inbox.kind
                        /\ session.doc = host.inbox.doc /\ host.outbox = Nothing
<1>1. TypeOK /\ LineInv
  BY SMT DEF HostInv
<1>2. host.inbox \in Requests /\ host.inbox # Nothing
  BY <1>1, HostShape DEF TypeOK, Nothing
<1>3. ASSUME Linked
      PROVE  /\ session.at = "wait" /\ session.kind = host.inbox.kind
             /\ session.doc = host.inbox.doc /\ host.outbox = Nothing
  BY <1>1, <1>2, <1>3 DEF LineInv, Asked, Executing, Replied, AtRest
<1>4. QED
  BY <1>2, <1>3

\* The reply that the child writes.
LEMMA ReplyShape ==
    ASSUME transport \in BOOLEAN, NEW k \in {"synchronized", "clicked", "error"}
    PROVE  /\ Reply(k) \in [kind : {"none", "synchronized", "clicked", "error"}]
           /\ transport => Reply(k) # Nothing /\ Reply(k).kind = k
BY Zenon DEF Reply, Nothing

\* A synchronization is refused, acknowledged again, started or failed.
LEMMA HostSynchronizesPreserves ==
    ASSUME HostInv, NEW outcome, HostSynchronizes(outcome)
    PROVE  HostInv'
<1>1. PICK t, g : t = host.inbox.doc.tab /\ g = host.inbox.doc.generation
  BY Zenon
<1>2. /\ host.run = Idle /\ host.inbox.kind = "sync"
      /\ UNCHANGED <<page, worker, calls, executor, session, transport>>
  BY Zenon DEF HostSynchronizes
<1>3. /\ host.inbox \in Requests
      /\ Linked => /\ session.at = "wait" /\ session.kind = "sync"
                   /\ session.doc = host.inbox.doc /\ host.outbox = Nothing
  BY <1>2, TakesRequest
<1>4. t \in Tabs /\ g \in Nat \ {0} /\ host.inbox.doc \in Documents
  BY <1>1, <1>3 DEF Requests, Documents
<1>5. HostOK /\ transport \in BOOLEAN /\ realms \in Realms /\ (Linked => transport)
  BY Zenon DEF HostInv, TypeOK, Linked
<1>6. host.run.at # "reply" /\ host.run \in Runs
  BY <1>2 DEF Idle, Runs
<1>7. Linked => Synchronizing /\ session.doc.tab = t /\ session.doc.generation = g
  BY <1>1, <1>3 DEF Synchronizing
<1>8. ASSUME NEW k \in {"synchronized", "error"},
             host' = [host EXCEPT !.inbox = Nothing, !.outbox = Reply(k)]
      PROVE  /\ HostOK' /\ host'.up = host.up /\ host'.run = Idle
             /\ Linked => Replied' /\ host'.outbox.kind = k
  <2>1. /\ Reply(k) \in [kind : {"none", "synchronized", "clicked", "error"}]
        /\ transport => Reply(k) # Nothing /\ Reply(k).kind = k
    BY <1>5, ReplyShape
  <2>2. HostOK'
    BY <1>5, <1>8, <2>1, Zenon DEF HostOK
  <2>3. /\ host'.up = host.up /\ host'.run = host.run /\ host'.inbox = Nothing
        /\ host'.outbox = Reply(k)
    BY <1>8, SMT
  <2>4. QED
    BY <1>2, <1>5, <2>1, <2>2, <2>3 DEF Replied
<1>9. CASE /\ UNCHANGED realms
           /\ \/ host' = [host EXCEPT !.inbox = Nothing, !.outbox = Reply("error")]
              \/ /\ realms.docs[t] = g
                 /\ host' = [host EXCEPT !.inbox = Nothing, !.outbox = Reply("synchronized")]
  <2>1. PICK k \in {"synchronized", "error"} :
           /\ host' = [host EXCEPT !.inbox = Nothing, !.outbox = Reply(k)]
           /\ k = "synchronized" => realms.docs[t] = g
    BY <1>9, Zenon
  <2>2. /\ HostOK' /\ host'.up = host.up /\ host'.run = Idle
        /\ Linked => Replied' /\ host'.outbox.kind = k
    BY <1>8, <2>1, Zenon
  <2>3. Closed(realms, realms')
    BY <1>5, <1>9, ClosedNone
  <2>4. host'.run.at \notin {"hello", "reply"} /\ (Replied' => ~Executing')
    BY <2>2 DEF Idle, Executing
  <2>5. QED
    BY <1>2, <1>3, <1>4, <1>7, <1>9, <2>1, <2>2, <2>3, <2>4, ChildStep
<1>10. /\ Closed(realms, DropRealm(realms, t)) /\ DropRealm(realms, t).docs[t] = None
       /\ \A u \in Tabs \ {t} : DropRealm(realms, t).docs[u] = realms.docs[u]
  BY <1>4, <1>5, DropRealmsEffect DEF Closed, DropRealm
<1>11. CASE /\ host' = [host EXCEPT !.inbox = Nothing, !.outbox = Reply("error")]
            /\ realms' = DropRealm(realms, t)
  <2>1. /\ HostOK' /\ host'.up = host.up /\ host'.run = Idle
        /\ Linked => Replied' /\ host'.outbox.kind = "error"
    BY <1>8, <1>11
  <2>2. host'.run.at \notin {"hello", "reply"} /\ (Replied' => ~Executing')
    BY <2>1 DEF Idle, Executing
  <2>3. QED
    BY <1>2, <1>3, <1>4, <1>7, <1>10, <1>11, <2>1, <2>2, ChildStep, Zenon
<1>12. CASE /\ host' = [host EXCEPT !.inbox = Nothing, !.run = Running(host.inbox)]
            /\ realms' = [DropRealm(realms, t) EXCEPT !.docs[t] = g]
  <2>1. PICK r : r = DropRealm(realms, t)
    BY Zenon
  <2>2. realms' = [r EXCEPT !.docs[t] = g] /\ r \in Realms
    BY <1>10, <1>12, <2>1, Zenon DEF Closed
  <2>3. /\ realms' \in Realms /\ realms'.conns = r.conns /\ realms'.client = r.client
        /\ realms'.docs[t] = g /\ \A u \in Tabs \ {t} : realms'.docs[u] = r.docs[u]
    BY <1>4, <2>2, Zenon DEF Realms
  <2>4. Closed(realms, realms') /\ \A u \in Tabs \ {t} : realms'.docs[u] = realms.docs[u]
    <3>1. /\ SameCalls(realms, r)
          /\ \A u \in Tabs : r.client[u] = realms.client[u] \/ r.client[u] = NewClient
      BY <1>10, <2>1, Zenon DEF Closed
    <3>2. SameCalls(realms, realms')
      BY <2>3, <3>1, Zenon DEF SameCalls
    <3>3. QED
      BY <1>10, <2>1, <2>3, <3>1, <3>2, Zenon DEF Closed
  <2>5. PICK q : q = Running(host.inbox)
    BY Zenon
  <2>6. q \in Runs /\ q # Idle /\ q.at = "script" /\ q.kind = "sync" /\ q.doc = host.inbox.doc
    BY <1>2, <1>4, <2>5 DEF Running, Runs, Idle
  <2>7. /\ HostOK' /\ host'.up = host.up /\ host'.run = q /\ host'.inbox = Nothing
        /\ host'.outbox = host.outbox
    BY <1>5, <1>12, <2>5, <2>6, Zenon DEF HostOK
  <2>8. Linked => Executing'
    BY <1>2, <1>3, <2>6, <2>7, Zenon DEF Executing
  <2>9. QED
    BY <1>2, <1>3, <1>4, <1>6, <1>7, <2>3, <2>4, <2>6, <2>7, <2>8, ChildStep, Zenon
<1>13. \/ /\ host' = [host EXCEPT !.inbox = Nothing, !.outbox = Reply("error")]
          /\ realms' \in {realms, DropRealm(realms, t)}
       \/ /\ host' = [host EXCEPT !.inbox = Nothing, !.run = Running(host.inbox)]
          /\ realms' = [DropRealm(realms, t) EXCEPT !.docs[t] = g]
       \/ /\ host' = [host EXCEPT !.inbox = Nothing,
                                    !.outbox = Reply(IF realms.docs[t] = g
                                                     THEN "synchronized" ELSE "error")]
          /\ UNCHANGED realms
  BY <1>1, Zenon DEF HostSynchronizes
<1>14. CASE /\ host' = [host EXCEPT !.inbox = Nothing,
                                     !.outbox = Reply(IF realms.docs[t] = g
                                                      THEN "synchronized" ELSE "error")]
            /\ UNCHANGED realms
  <2>1. CASE realms.docs[t] = g
    BY <1>9, <1>14, <2>1, SMT
  <2>2. CASE realms.docs[t] # g
    BY <1>9, <1>14, <2>2, Zenon
  <2>3. QED
    BY <2>1, <2>2, Zenon
<1>15. QED
  BY <1>9, <1>11, <1>12, <1>13, Zenon

\* A click is taken or refused.
LEMMA HostClicksPreserves ==
    ASSUME HostInv, HostClicks
    PROVE  HostInv'
<1>1. /\ host.run = Idle /\ host.inbox.kind = "click" /\ UNCHANGED realms
      /\ UNCHANGED <<page, worker, calls, executor, session, transport>>
  BY DEF HostClicks
<1>2. /\ host.inbox \in Requests
      /\ Linked => /\ session.at = "wait" /\ session.kind = "click"
                   /\ session.doc = host.inbox.doc /\ host.outbox = Nothing
  BY <1>1, TakesRequest, Zenon
<1>3. PICK t \in Tabs : t = host.inbox.doc.tab
  BY <1>2, Zenon DEF Requests, Documents
<1>4. HostOK /\ transport \in BOOLEAN /\ realms \in Realms /\ (Linked => transport)
  BY Zenon DEF HostInv, TypeOK, Linked
<1>5. host.run.at # "reply" /\ host.run \in Runs /\ (Linked => ~Synchronizing)
  BY <1>1, <1>2 DEF Idle, Runs, Synchronizing
<1>6. Closed(realms, realms') /\ realms'.docs = realms.docs
  BY <1>1, <1>4, ClosedNone
<1>7. ASSUME /\ HostOK' /\ host'.up = host.up /\ host'.run.at \notin {"hello", "reply"}
             /\ Linked => Executing' \/ Replied'
      PROVE  HostInv'
  BY <1>1, <1>2, <1>5, <1>6, <1>7, ChildStep, Zenon
<1>8. CASE host' = [host EXCEPT !.inbox = Nothing, !.run = Running(host.inbox)]
  <2>1. PICK q : q = Running(host.inbox)
    BY Zenon
  <2>2. q \in Runs /\ q # Idle /\ q.at = "script" /\ q.kind = "click" /\ q.doc = host.inbox.doc
    BY <1>1, <1>2, <2>1 DEF Running, Runs, Idle, Requests
  <2>3. /\ HostOK' /\ host'.up = host.up /\ host'.run = q /\ host'.inbox = Nothing
        /\ host'.outbox = host.outbox
    BY <1>4, <1>8, <2>1, <2>2, Zenon DEF HostOK
  <2>4. Linked => Executing'
    BY <1>1, <1>2, <2>2, <2>3 DEF Executing
  <2>5. QED
    BY <1>7, <2>2, <2>3, <2>4
<1>9. CASE host' = [host EXCEPT !.inbox = Nothing, !.outbox = Reply("error")]
  <2>1. /\ Reply("error") \in [kind : {"none", "synchronized", "clicked", "error"}]
        /\ transport => Reply("error") # Nothing
    BY <1>4, ReplyShape
  <2>2. /\ HostOK' /\ host'.up = host.up /\ host'.run = Idle /\ host'.inbox = Nothing
        /\ host'.outbox = Reply("error")
    BY <1>1, <1>4, <1>9, <2>1, Zenon DEF HostOK
  <2>3. QED
    BY <1>4, <1>7, <2>1, <2>2 DEF Replied, Idle
<1>10. QED
  BY <1>8, <1>9 DEF HostClicks

\* The core waits for the request that the child executes.
LEMMA ExecutesRequest ==
    ASSUME HostInv, host.run.at \in {"script", "hello", "reply"}
    PROVE  /\ host.run \in [at : {"script", "hello", "reply"}, kind : {"sync", "click"},
                            doc : Documents]
           /\ host.run # Idle /\ HostOK /\ transport \in BOOLEAN /\ realms \in Realms
           /\ Linked => session.at = "wait" /\ Executing
<1>1. TypeOK /\ LineInv
  BY DEF HostInv
<1>2. host.run # Idle
  BY DEF Idle
<1>3. host.run \in [at : {"script", "hello", "reply"}, kind : {"sync", "click"}, doc : Documents]
  BY <1>1, HostShape, Zenon DEF TypeOK
<1>4. Linked => session.at = "wait" /\ Executing
  BY <1>1, <1>2 DEF LineInv, Asked, Replied, AtRest
<1>5. QED
  BY <1>1, <1>2, <1>3, <1>4 DEF TypeOK

\* The scripts of a request have run.
LEMMA HostRepliesPreserves ==
    ASSUME HostInv, NEW kept \in BOOLEAN, HostReplies(kept)
    PROVE  HostInv'
<1>1. PICK t, k : /\ t = host.run.doc.tab
                  /\ k = CASE ~kept -> "error"
                           [] host.run.kind = "click" -> "clicked"
                           [] OTHER -> "synchronized"
  OBVIOUS
<1>2. /\ host.run.at = "script"
      /\ host' = [host EXCEPT !.run = Idle, !.outbox = Reply(k)]
      /\ realms' = IF host.run.kind = "sync" /\ ~kept THEN DropRealm(realms, t) ELSE realms
      /\ UNCHANGED <<page, worker, calls, executor, session, transport>>
  BY <1>1, Zenon DEF HostReplies
<1>3. /\ host.run.kind \in {"sync", "click"} /\ host.run.doc \in Documents
      /\ HostOK /\ transport \in BOOLEAN /\ realms \in Realms
      /\ Linked => session.at = "wait" /\ Executing
  BY <1>2, ExecutesRequest
<1>4. /\ t \in Tabs /\ k \in {"synchronized", "clicked", "error"}
      /\ k = "synchronized" => kept /\ host.run.kind = "sync"
      /\ Linked => transport
  BY <1>1, <1>3 DEF Documents, Linked
<1>5. /\ Reply(k) \in [kind : {"none", "synchronized", "clicked", "error"}]
      /\ transport => Reply(k) # Nothing /\ Reply(k).kind = k
  BY <1>3, <1>4, ReplyShape, Zenon
<1>6. /\ HostOK' /\ host'.up = host.up /\ host'.run = Idle /\ host'.inbox = host.inbox
      /\ host'.outbox = Reply(k)
  BY <1>2, <1>3, <1>5, Zenon DEF HostOK, Runs
<1>7. Linked => Replied' /\ ~Executing' /\ host'.outbox.kind = k
  BY <1>3, <1>4, <1>5, <1>6, SMT DEF Executing, Replied
<1>8. host'.run.at \notin {"hello", "reply"}
  BY <1>6, SMT DEF Idle
<1>9. Linked => (Synchronizing <=> host.run.kind = "sync") /\ session.doc = host.run.doc
  BY <1>3, SMT DEF Executing, Synchronizing
<1>10. Linked /\ Synchronizing => realms.docs[t] = session.doc.generation
  BY <1>1, <1>3, <1>9, Zenon DEF HostInv, RealmInv, SyncInv
<1>11. CASE host.run.kind = "sync" /\ ~kept
  <2>1. /\ Closed(realms, realms') /\ realms'.docs[t] = None
        /\ \A u \in Tabs \ {t} : realms'.docs[u] = realms.docs[u]
    BY <1>2, <1>3, <1>4, <1>11, DropRealmsEffect DEF Closed, DropRealm
  <2>2. QED
    BY <1>1, <1>2, <1>3, <1>4, <1>6, <1>7, <1>8, <1>9, <1>11, <2>1, ChildStep, Zenon
<1>12. CASE ~(host.run.kind = "sync" /\ ~kept)
  <2>1. UNCHANGED realms /\ Closed(realms, realms')
    BY <1>2, <1>3, <1>12, ClosedNone, Zenon
  <2>2. QED
    BY <1>1, <1>2, <1>3, <1>4, <1>6, <1>7, <1>8, <1>9, <1>10, <2>1, ChildStep, Zenon
<1>13. QED
  BY <1>11, <1>12, Zenon

\* The script goes from one place to another within a request.
RunsOn(at) == host' = [host EXCEPT !.run.at = at]

\* What such a step does to the child.
LEMMA RunShape ==
    ASSUME HostInv, host.run.at \in {"script", "hello", "reply"},
           NEW at \in {"script", "hello", "reply"}, RunsOn(at)
    PROVE  /\ HostOK' /\ host'.up = host.up /\ host'.run # Idle
           /\ host'.run.at = at /\ host'.run.kind = host.run.kind /\ host'.run.doc = host.run.doc
           /\ host'.inbox = host.inbox /\ host'.outbox = host.outbox
<1>1. PICK r : r = [host.run EXCEPT !.at = at]
  BY Zenon
<1>2. host.run \in [at : {"script", "hello", "reply"}, kind : {"sync", "click"}, doc : Documents]
      /\ HostOK
  BY ExecutesRequest
<1>3. /\ r \in Runs /\ r # Idle /\ r.at = at
      /\ r.kind = host.run.kind /\ r.doc = host.run.doc
  BY <1>1, <1>2, Zenon DEF Runs, Idle
<1>4. host' = [host EXCEPT !.run = r]
  BY <1>1 DEF RunsOn
<1>5. QED
  BY <1>2, <1>3, <1>4 DEF HostOK

\* Such a step keeps everything but what it does to the streams.
LEMMA RunMoves ==
    ASSUME HostInv, host.run.at \in {"script", "hello", "reply"},
           NEW at \in {"script", "hello", "reply"}, RunsOn(at),
           UNCHANGED <<page, worker, executor, session, transport>>,
           calls' \in Nat, realms' \in Realms, realms'.docs = realms.docs, StreamInv'
    PROVE  HostInv'
<1>1. TypeOK /\ LineInv /\ RealmInv /\ PageInv
  BY SMT DEF HostInv
<1>2. /\ HostOK' /\ host'.up = host.up /\ host'.run # Idle
      /\ host'.run.kind = host.run.kind /\ host'.run.doc = host.run.doc
      /\ host'.inbox = host.inbox /\ host'.outbox = host.outbox
  BY RunShape, SMT
<1>3. Linked => session.at = "wait" /\ Executing
  BY ExecutesRequest, Zenon
<1>4. Linked' = Linked /\ (Linked => Executing') /\ Synchronizing' = Synchronizing
  BY <1>2, <1>3 DEF Linked, Executing, Synchronizing
<1>5. TypeOK'
  BY <1>1, <1>2 DEF TypeOK, PageOK, WorkerOK, SessionOK
<1>6. LineInv'
  BY <1>3, <1>4 DEF LineInv
<1>7. RealmInv'
  <2>1. ASSUME Linked, Synchronizing PROVE SyncInv'
    BY <1>1, <1>3, <2>1, Zenon DEF RealmInv, SyncInv
  <2>2. QED
    BY <1>1, <1>4, <2>1, Zenon DEF RealmInv
<1>8. PageInv'
  BY <1>1, <1>4, SameShown, SMT DEF SamePages, SameSession, TypeOK
<1>9. QED
  BY <1>5, <1>6, <1>7, <1>8, Zenon DEF HostInv

\* Connections are numbered.
LEMMA LengthOfConnections ==
    ASSUME NEW r \in Realms
    PROVE  Len(r.conns) \in Nat
BY SMT DEF Realms

\* The stream of a realm is one of the connections.
LEMMA StreamIndex ==
    ASSUME NEW r \in Realms, NEW t \in Tabs, r.client[t].stream # None,
           r.client[t].stream <= Len(r.conns)
    PROVE  r.client[t].stream \in 1..Len(r.conns)
<1>1. r.client[t].stream \in Nat /\ Len(r.conns) \in Nat
  BY DEF Realms
<1>2. QED
  BY <1>1, SMT DEF None

\* A call is written to the stream of its tab, on which nothing else is.
LEMMA CallWritten ==
    ASSUME HostInv, UNCHANGED worker, host.run.at # "reply",
           NEW r \in Realms, r.conns = realms.conns,
           NEW doc \in Documents, NEW c, c = r.client[doc.tab].stream,
           c \in 1..Len(realms.conns), Free(c),
           \A u \in Tabs \ {doc.tab} : /\ r.client[u] = realms.client[u]
                                        /\ r.client[u].stream # c,
           calls' \in Nat, realms' = WriteCall(r, doc, calls'),
           host'.run.at = "reply", host'.run.doc = doc
    PROVE  realms' \in Realms /\ realms'.docs = r.docs /\ StreamInv'
<1>1. TypeOK /\ StreamInv
  BY Zenon DEF HostInv
<1>2. PICK t \in Tabs : t = doc.tab
  BY Zenon DEF Documents
<1>3. /\ OnlyAt(r, realms', c)
      /\ realms'.conns[c].call.serial = calls'
      /\ realms'.conns[c].reply = r.conns[c].reply
  <2>1. PICK n \in Nat : n = calls'
    BY Zenon
  <2>2. c \in 1..Len(r.conns) /\ realms' = WriteCall(r, doc, n)
    BY <2>1, Zenon
  <2>3. Written(r, WriteCall(r, doc, n), c, n)
    BY WriteCallEffect, Zenon
  <2>4. QED
    BY <2>1, <2>2, <2>3, Zenon DEF Written
<1>4. /\ realms' \in Realms /\ realms'.docs = r.docs /\ realms'.client = r.client
      /\ Len(realms'.conns) = Len(realms.conns)
      /\ \A d \in 1..Len(realms.conns) : d # c => realms'.conns[d] = realms.conns[d]
  BY <1>3, ZenonT(30) DEF OnlyAt
<1>5. OneCall(c, calls)'
  BY <1>3, Zenon DEF OneCall, HasCall, HasReply, WithWorker, Free
<1>6. ASSUME NEW u \in Tabs \ {t}, r.client[u].stream # None
      PROVE  /\ r.client[u].stream <= Len(realms.conns) /\ r.client[u].stream # c
             /\ \A v \in Tabs \ {u} : r.client[v].stream # r.client[u].stream
             /\ Free(r.client[u].stream)'
  <2>1. PICK d : d = r.client[u].stream
    OBVIOUS
  <2>2. d = realms.client[u].stream /\ d # None /\ d # c /\ ~Calling(u)
    BY <1>2, <1>6, <2>1, Zenon DEF Calling
  <2>3. /\ d <= Len(realms.conns) /\ Free(d)
        /\ \A v \in Tabs \ {u} : realms.client[v].stream # d
    BY <1>1, <2>2, Zenon DEF StreamInv
  <2>4. d \in 1..Len(realms.conns)
    BY <1>1, <2>2, <2>3, StreamIndex, Zenon DEF TypeOK
  <2>5. Free(d)'
    BY <1>4, <2>2, <2>3, <2>4, Zenon DEF Free, HasCall, HasReply, WithWorker
  <2>6. \A v \in Tabs \ {u} : r.client[v].stream # d
    BY <2>2, <2>3, Zenon
  <2>7. QED
    BY <2>1, <2>2, <2>3, <2>5, Zenon
<1>7. StreamInv'
  <2>1. c # None /\ c <= Len(realms.conns)
    <3>1. Len(realms.conns) \in Nat
      BY LengthOfConnections, Zenon
    <3>2. QED
      BY <3>1, Counted, Zenon
  <2>2. Calling(t)' /\ \A u \in Tabs \ {t} : ~Calling(u)'
    BY <1>2, Zenon DEF Calling
  <2>3. ASSUME NEW u \in Tabs, realms'.client[u].stream # None
        PROVE  /\ realms'.client[u].stream <= Len(realms'.conns)
               /\ \A v \in Tabs \ {u} : realms'.client[v].stream # realms'.client[u].stream
               /\ IF Calling(u)' THEN OneCall(realms.client[u].stream, calls)'
                                 ELSE Free(realms.client[u].stream)'
    <3>1. CASE u = t
      <4>1. realms'.client[u].stream = c
        BY <1>2, <1>4, <3>1, Zenon
      <4>2. Calling(u)' /\ OneCall(realms.client[u].stream, calls)'
        BY <1>5, <2>2, <3>1, <4>1, Zenon
      <4>3. \A v \in Tabs \ {u} : realms'.client[v].stream # c
        BY <1>2, <1>4, <3>1, ZenonT(30)
      <4>4. QED
        BY <1>4, <2>1, <4>1, <4>2, <4>3, Zenon
    <3>2. CASE u # t
      <4>1. ~Calling(u)' /\ u \in Tabs \ {t}
        BY <2>2, <3>2, Zenon
      <4>2. realms'.client = r.client /\ r.client[u].stream # None
        BY <1>4, <2>3, Zenon
      <4>3. /\ r.client[u].stream <= Len(realms.conns) /\ Free(r.client[u].stream)'
            /\ \A v \in Tabs \ {u} : r.client[v].stream # r.client[u].stream
        BY <1>6, <4>1, <4>2, Zenon
      <4>4. Free(realms.client[u].stream)'
        BY <4>2, <4>3, Zenon
      <4>5. QED
        BY <1>4, <4>1, <4>2, <4>3, <4>4, ZenonT(30)
    <3>3. QED
      BY <3>1, <3>2, Zenon
  <2>4. QED
    BY <1>1, <1>4, <2>1, <2>3, Zenon DEF StreamInv
<1>8. QED
  BY <1>4, <1>7, Zenon

\* A call over the stream that the realm has.
LEMMA CallsOver ==
    ASSUME HostInv, ScriptCalls, realms.client[host.run.doc.tab].stream # None
    PROVE  HostInv'
<1>1. TypeOK /\ StreamInv
  BY Zenon DEF HostInv
<1>2. PICK doc, c : doc = host.run.doc /\ c = realms.client[doc.tab].stream
  OBVIOUS
<1>3. /\ host.run.at = "script" /\ calls' = calls + 1
      /\ realms' = WriteCall(realms, doc, calls') /\ RunsOn("reply")
      /\ UNCHANGED <<page, worker, executor, session, transport>>
  BY <1>2, Zenon DEF ScriptCalls, RunsOn
<1>4. doc \in Documents /\ doc.tab \in Tabs
  BY <1>2, <1>3, ExecutesRequest, Zenon DEF Documents
<1>5. host'.run.at = "reply" /\ host'.run.doc = doc
  BY <1>2, <1>3, RunShape, Zenon
<1>6. c # None /\ ~Calling(doc.tab)
  BY <1>2, <1>3, Zenon DEF Calling
<1>7. /\ c <= Len(realms.conns) /\ Free(c)
      /\ \A u \in Tabs \ {doc.tab} : realms.client[u].stream # c
  BY <1>1, <1>2, <1>4, <1>6, Zenon DEF StreamInv
<1>8. c \in 1..Len(realms.conns)
  BY <1>1, <1>2, <1>4, <1>7, StreamIndex, Zenon DEF TypeOK
<1>9. realms \in Realms /\ calls' \in Nat
  BY <1>1, <1>3, SMT DEF TypeOK
<1>10. realms' \in Realms /\ realms'.docs = realms.docs /\ StreamInv'
  BY <1>2, <1>3, <1>4, <1>5, <1>7, <1>8, <1>9, CallWritten, Zenon
<1>11. QED
  BY <1>3, <1>9, <1>10, RunMoves, Zenon

\* A script's connection is new: nothing is on it, and no realm has it yet.
LEMMA Connects ==
    ASSUME HostInv, ScriptCalls, realms.client[host.run.doc.tab].stream = None
    PROVE  HostInv'
<1>1. TypeOK /\ StreamInv
  BY Zenon DEF HostInv
<1>2. /\ host.run.at = "script" /\ calls' = calls + 1
      /\ realms' = Connect(realms) /\ RunsOn("hello")
      /\ UNCHANGED <<page, worker, executor, session, transport>>
  BY Zenon DEF ScriptCalls, RunsOn
<1>3. PICK n \in Nat : n = Len(realms.conns)
  BY <1>1 DEF TypeOK, Realms
<1>4. /\ realms' \in Realms /\ realms'.docs = realms.docs /\ realms'.client = realms.client
      /\ Len(realms'.conns) = n + 1
      /\ realms'.conns[n + 1].call = NoCall /\ realms'.conns[n + 1].reply = NoCall
      /\ \A d \in 1..n : realms'.conns[d] = realms.conns[d]
  BY <1>1, <1>2, <1>3, ConnectEffect, Zenon DEF TypeOK
<1>5. host'.run.at = "hello"
  BY <1>2, RunShape, Zenon
<1>6. worker.conn \in Nat /\ worker.conn <= n
  BY <1>1, <1>3, Zenon DEF TypeOK, WorkerOK, StreamInv
<1>7. \A t \in Tabs : realms.client[t].stream \in Nat
  BY <1>1, Zenon DEF TypeOK, Realms
<1>8. \A t \in Tabs : ~Calling(t) /\ ~Calling(t)'
  BY <1>2, <1>5, Zenon DEF Calling
<1>9. ASSUME NEW t \in Tabs, realms.client[t].stream # None
      PROVE  /\ realms.client[t].stream <= n /\ Free(realms.client[t].stream)'
             /\ \A u \in Tabs \ {t} : realms.client[u].stream # realms.client[t].stream
  <2>1. PICK d : d = realms.client[t].stream
    BY Zenon
  <2>2. d <= n /\ Free(d) /\ \A u \in Tabs \ {t} : realms.client[u].stream # d
    BY <1>1, <1>3, <1>8, <1>9, <2>1, Zenon DEF StreamInv
  <2>3. d \in 1..n
    BY <1>7, <1>9, <2>1, <2>2 DEF None
  <2>4. Free(d)'
    BY <1>2, <1>4, <2>2, <2>3, Zenon DEF Free, HasCall, HasReply, WithWorker
  <2>5. QED
    BY <1>4, <2>1, <2>2, <2>4, Zenon
<1>10. Free(n + 1)'
  BY <1>2, <1>4, <1>6 DEF Free, HasCall, HasReply, WithWorker
<1>11. \A t \in Tabs : realms.client[t].stream # n + 1
  BY <1>9 DEF None
<1>12. StreamInv'
  <2>1. n + 1 # None /\ worker.conn <= n + 1
    BY <1>6 DEF None
  <2>2. \A t \in Tabs : realms.client[t].stream # None => realms.client[t].stream <= n + 1
    BY <1>7, <1>9
  <2>3. /\ worker'.conn <= Len(realms'.conns) /\ (worker'.at # "accept" => worker'.conn # None)
        /\ host'.run.at # "reply"
    BY <1>1, <1>2, <1>4, <1>5, <2>1, Zenon DEF StreamInv
  <2>4. /\ Len(realms'.conns) # None /\ Free(Len(realms.conns))'
        /\ \A t \in Tabs : realms'.client[t].stream # Len(realms'.conns)
    BY <1>4, <1>10, <1>11, <2>1, Zenon
  <2>5. ASSUME NEW t \in Tabs, realms'.client[t].stream # None
        PROVE  /\ realms'.client[t].stream <= Len(realms'.conns)
               /\ \A u \in Tabs \ {t} : realms'.client[u].stream # realms'.client[t].stream
               /\ ~Calling(t)' /\ Free(realms.client[t].stream)'
    BY <1>4, <1>8, <1>9, <2>2, <2>5, Zenon
  <2>6. QED
    BY <2>3, <2>4, <2>5, Zenon DEF StreamInv
<1>13. calls' \in Nat
  BY <1>1, <1>2 DEF TypeOK
<1>14. QED
  BY <1>2, <1>4, <1>12, <1>13, RunMoves, Zenon

\* The connection is acknowledged: the realm takes it and the call is written.
LEMMA HelloAckedPreserves ==
    ASSUME HostInv, HelloAcked
    PROVE  HostInv'
<1>1. TypeOK /\ StreamInv
  BY DEF HostInv
<1>2. PICK doc, c, r : /\ doc = host.run.doc /\ c = Len(realms.conns)
                       /\ r = [realms EXCEPT !.client[doc.tab] = [stream |-> c, next |-> 1]]
  BY Zenon
<1>3. /\ host.run.at = "hello" /\ UNCHANGED calls
      /\ realms' = WriteCall(r, doc, calls) /\ RunsOn("reply")
      /\ UNCHANGED <<page, worker, executor, session, transport>>
  BY <1>2, SMT DEF HelloAcked, RunsOn
<1>4. doc \in Documents /\ doc.tab \in Tabs
  BY <1>2, <1>3, ExecutesRequest, Zenon DEF Documents
<1>5. host'.run.at = "reply" /\ host'.run.doc = doc
  BY <1>2, <1>3, RunShape
<1>6. c # None /\ Free(c) /\ \A u \in Tabs : realms.client[u].stream # c
  BY <1>1, <1>2, <1>3 DEF StreamInv
<1>7. c \in 1..Len(realms.conns)
  BY <1>2, <1>6 DEF None
<1>8. /\ r \in Realms /\ r.conns = realms.conns /\ r.docs = realms.docs
      /\ r.client[doc.tab].stream = c
      /\ \A u \in Tabs \ {doc.tab} : r.client[u] = realms.client[u]
  <2>1. PICK k : k = [realms.client EXCEPT ![doc.tab] = [stream |-> c, next |-> 1]]
    BY Zenon
  <2>2. realms \in Realms /\ realms.client \in [Tabs -> [stream : Nat, next : Nat]]
    BY <1>1, Zenon DEF TypeOK, Realms
  <2>3. r = [realms EXCEPT !.client = k]
    BY <1>2, <2>1, Zenon
  <2>4. [stream |-> c, next |-> 1] \in [stream : Nat, next : Nat]
    BY <1>7, SMT
  <2>5. /\ k \in [Tabs -> [stream : Nat, next : Nat]] /\ k[doc.tab].stream = c
        /\ \A u \in Tabs \ {doc.tab} : k[u] = realms.client[u]
    BY <1>4, <2>1, <2>2, <2>4, Zenon
  <2>6. QED
    BY <2>2, <2>3, <2>5, Zenon DEF Realms
<1>9. calls' \in Nat /\ realms' = WriteCall(r, doc, calls')
  BY <1>1, <1>3, Zenon DEF TypeOK
<1>10. realms' \in Realms /\ realms'.docs = r.docs /\ StreamInv'
  BY <1>3, <1>4, <1>5, <1>6, <1>7, <1>8, <1>9, CallWritten, SMTT(30)
<1>11. realms'.docs = realms.docs /\ host.run.at \in {"script", "hello", "reply"}
  BY <1>3, <1>8, <1>10, Zenon
<1>12. QED
  BY <1>3, <1>9, <1>10, <1>11, RunMoves, Zenon

\* The connection is given up.
LEMMA HelloTimesOutPreserves ==
    ASSUME HostInv, HelloTimesOut
    PROVE  HostInv'
<1>1. TypeOK /\ StreamInv
  BY Zenon DEF HostInv
<1>2. /\ host.run.at = "hello" /\ UNCHANGED calls
      /\ realms' = Hangup(realms, Len(realms.conns)) /\ RunsOn("script")
      /\ UNCHANGED <<page, worker, executor, session, transport>>
  BY Zenon DEF HelloTimesOut, RunsOn
<1>3. /\ realms' \in Realms /\ realms'.docs = realms.docs
      /\ realms'.client = realms.client /\ SameCalls(realms, realms')
  <2>1. PICK n \in Nat : n = Len(realms.conns)
    BY <1>1 DEF TypeOK, Realms
  <2>2. realms \in Realms /\ n <= Len(realms.conns) /\ realms' = Hangup(realms, n)
    BY <1>1, <1>2, <2>1 DEF TypeOK
  <2>3. QED
    BY <2>2, HangupEffect, Zenon
<1>4. Closed(realms, realms')
  BY <1>3, SMTT(30) DEF Closed
<1>5. host'.run.at = "script"
  BY <1>2, RunShape, Zenon
<1>6. StreamInv' /\ calls' \in Nat
  BY <1>1, <1>2, <1>4, <1>5, ClosedStreams, Zenon DEF TypeOK
<1>7. QED
  BY <1>2, <1>3, <1>6, RunMoves, Zenon

\* From r to s, tab t keeps stream c or leaves it, and calls come and go on
\* that stream only.
Ended(r, s, t, c) ==
    /\ s.client[t].stream \in {None, c}
    /\ \A u \in Tabs \ {t} : s.client[u].stream = r.client[u].stream
    /\ Len(s.conns) = Len(r.conns)
    /\ \A d \in 1..Len(r.conns) : d # c => /\ s.conns[d].call = r.conns[d].call
                                            /\ s.conns[d].reply = r.conns[d].reply

\* The streams, when the one with a call on it is emptied or left.
LEMMA CallEnds ==
    ASSUME TypeOK, StreamInv, UNCHANGED <<worker, calls>>,
           host.run.at = "reply", host'.run.at = "script",
           NEW t \in Tabs, t = host.run.doc.tab, NEW c, c = realms.client[t].stream,
           Ended(realms, realms', t, c), realms'.client[t].stream = c => Free(c)'
    PROVE  StreamInv'
<1>1. c # None /\ c <= Len(realms.conns) /\ \A u \in Tabs \ {t} : realms.client[u].stream # c
  BY Zenon DEF StreamInv
<1>2. \A u \in Tabs : ~Calling(u)'
  BY Zenon DEF Calling
<1>3. ASSUME NEW u \in Tabs \ {t}, NEW d, d = realms.client[u].stream, d # None
      PROVE  /\ d <= Len(realms.conns) /\ Free(d)'
             /\ \A v \in Tabs \ {u} : realms'.client[v].stream # d
  <2>1. ~Calling(u) /\ d # c
    BY <1>1, <1>3, Zenon DEF Calling
  <2>2. d <= Len(realms.conns) /\ Free(d) /\ \A v \in Tabs \ {u} : realms.client[v].stream # d
    BY <1>3, <2>1, Zenon DEF StreamInv
  <2>3. d \in 1..Len(realms.conns)
    BY <1>3, <2>2, StreamIndex, Zenon DEF TypeOK
  <2>4. Free(d)'
    BY <2>2, <2>3, Zenon DEF Ended, Free, HasCall, HasReply, WithWorker
  <2>5. \A v \in Tabs \ {u} : realms'.client[v].stream # d
    BY <1>3, <2>2, Zenon DEF Ended
  <2>6. QED
    BY <2>2, <2>4, <2>5, Zenon
<1>4. ASSUME NEW u \in Tabs, NEW d, d = realms'.client[u].stream, d # None
      PROVE  /\ d <= Len(realms'.conns) /\ Free(d)'
             /\ \A v \in Tabs \ {u} : realms'.client[v].stream # d
  <2>1. CASE u = t
    BY <1>1, <1>4, <2>1, Zenon DEF Ended
  <2>2. CASE u # t
    <3>1. u \in Tabs \ {t} /\ d = realms.client[u].stream /\ Len(realms'.conns) = Len(realms.conns)
      BY <1>4, <2>2, Zenon DEF Ended
    <3>2. QED
      BY <1>3, <1>4, <3>1, Zenon
  <2>3. QED
    BY <2>1, <2>2, Zenon
<1>5. worker.conn <= Len(realms.conns) /\ Len(realms'.conns) = Len(realms.conns)
  BY Zenon DEF StreamInv, Ended
<1>6. QED
  BY <1>2, <1>4, <1>5, Zenon DEF StreamInv

\* The reply is read.
LEMMA CallReturnsPreserves ==
    ASSUME HostInv, NEW served \in BOOLEAN, CallReturns(served)
    PROVE  HostInv'
<1>1. TypeOK /\ StreamInv
  BY SMT DEF HostInv
<1>2. PICK doc, c : doc = host.run.doc /\ c = realms.client[doc.tab].stream
  OBVIOUS
<1>3. /\ host.run.at = "reply" /\ UNCHANGED calls /\ HasReply(c)
      /\ realms' = TakeReply(realms, doc, served) /\ RunsOn("script")
      /\ UNCHANGED <<page, worker, executor, session, transport>>
  BY <1>2, Zenon DEF CallReturns, RunsOn, HasReply
<1>4. doc \in Documents /\ doc.tab \in Tabs
  BY <1>2, <1>3, ExecutesRequest, Zenon DEF Documents
<1>5. host'.run.at = "script"
  BY <1>3, RunShape
<1>6. c # None /\ c <= Len(realms.conns) /\ OneCall(c, calls)
  BY <1>1, <1>2, <1>3, <1>4, Zenon DEF StreamInv, Calling
<1>7. c \in 1..Len(realms.conns)
  BY <1>1, <1>2, <1>4, <1>6, StreamIndex, Zenon DEF TypeOK
<1>8. Read(realms, realms', doc.tab, c)
  BY <1>1, <1>2, <1>3, <1>4, <1>7, TakeReplyEffect, Zenon DEF TypeOK
<1>9. Free(c)'
  BY <1>3, <1>6, <1>8, Zenon DEF Read, Free, OneCall, HasCall, HasReply, WithWorker
<1>10. StreamInv' /\ realms' \in Realms /\ realms'.docs = realms.docs /\ calls' \in Nat
  <2>1. Ended(realms, realms', doc.tab, c)
    BY <1>8, Zenon DEF Read, Ended
  <2>2. StreamInv'
    BY <1>1, <1>2, <1>3, <1>4, <1>5, <1>9, <2>1, CallEnds, Zenon
  <2>3. QED
    BY <1>1, <1>3, <1>8, <2>2, Zenon DEF Read, TypeOK
<1>11. QED
  BY <1>3, <1>10, RunMoves, Zenon

\* The call is given up, and its stream with it.
LEMMA CallTimesOutPreserves ==
    ASSUME HostInv, CallTimesOut
    PROVE  HostInv'
<1>1. TypeOK /\ StreamInv
  BY DEF HostInv
<1>2. PICK t, c : t = host.run.doc.tab /\ c = realms.client[t].stream
  BY SMT
<1>3. /\ host.run.at = "reply" /\ UNCHANGED calls
      /\ realms' = DropStream(realms, t) /\ RunsOn("script")
      /\ UNCHANGED <<page, worker, executor, session, transport>>
  BY <1>2, Zenon DEF CallTimesOut, RunsOn
<1>4. t \in Tabs
  BY <1>2, <1>3, ExecutesRequest, Zenon DEF Documents
<1>5. host'.run.at = "script"
  BY <1>3, RunShape, Zenon
<1>6. c # None /\ c <= Len(realms.conns)
  BY <1>1, <1>2, <1>3, <1>4, Zenon DEF StreamInv
<1>7. /\ realms' \in Realms /\ realms'.docs = realms.docs
      /\ realms'.client[t].stream = None
      /\ \A u \in Tabs \ {t} : realms'.client[u] = realms.client[u]
      /\ SameCalls(realms, realms')
  BY <1>1, <1>2, <1>3, <1>4, <1>6, DropStreamEffect, Zenon DEF TypeOK
<1>8. StreamInv' /\ calls' \in Nat
  <2>1. Ended(realms, realms', t, c) /\ realms'.client[t].stream # c
    BY <1>6, <1>7, Zenon DEF SameCalls, Ended
  <2>2. QED
    BY <1>1, <1>2, <1>3, <1>4, <1>5, <2>1, CallEnds, Zenon DEF TypeOK
<1>9. QED
  BY <1>3, <1>7, <1>8, RunMoves, Zenon

\* The child dies: every realm is gone, and so is the line.
LEMMA CrashPreserves ==
    ASSUME HostInv, Crash
    PROVE  HostInv'
<1>1. TypeOK /\ LineInv /\ RealmInv /\ PageInv /\ StreamInv
  BY Zenon DEF HostInv
<1>2. /\ host' = [host EXCEPT !.up = FALSE, !.inbox = Nothing, !.run = Idle]
      /\ realms' = [docs |-> [t \in Tabs |-> None],
                    client |-> [t \in Tabs |-> NewClient],
                    conns |-> [c \in DOMAIN realms.conns |->
                                  [realms.conns[c] EXCEPT !.peer = FALSE]]]
      /\ UNCHANGED <<page, worker, calls, executor, session, transport>>
  BY Zenon DEF Crash
<1>3. HostOK' /\ ~host'.up /\ host'.run.at = "idle"
  BY <1>1, <1>2, Zenon DEF TypeOK, HostOK, Idle, Runs
<1>4. ~Linked'
  BY <1>3, Zenon DEF Linked
<1>5. realms' \in Realms /\ Len(realms'.conns) = Len(realms.conns)
      /\ \A t \in Tabs : realms'.client[t] = NewClient
  <2>1. PICK n, f : n = Len(realms.conns) /\ f = realms'.conns
    BY Zenon
  <2>2. realms.conns \in Seq(Connections) /\ n \in Nat /\ DOMAIN realms.conns = 1..n
    BY <1>1, <2>1 DEF TypeOK, Realms
  <2>3. ASSUME NEW c \in 1..n PROVE [realms.conns[c] EXCEPT !.peer = FALSE] \in Connections
    <3>1. realms.conns[c] \in Connections
      BY <2>2
    <3>2. QED
      BY <3>1, Zenon DEF Connections
  <2>4. f \in [1..n -> Connections]
    BY <1>2, <2>1, <2>3
  <2>5. f \in Seq(Connections) /\ Len(f) = n
    BY <2>2, <2>4
  <2>6. NewClient \in [stream : Nat, next : Nat] /\ None \in Nat
    BY DEF NewClient, None
  <2>7. QED
    BY <1>2, <2>1, <2>5, <2>6 DEF Realms
<1>6. TypeOK'
  BY <1>1, <1>2, <1>3, <1>5 DEF TypeOK, PageOK, WorkerOK, SessionOK
<1>7. LineInv' /\ RealmInv'
  BY <1>4, LostLine, Zenon
<1>8. PageInv'
  BY <1>1, <1>2, <1>4, Zenon DEF PageInv, InRound, Synchronizing
<1>9. StreamInv'
  <2>1. NewClient.stream = None
    BY DEF NewClient
  <2>2. QED
    BY <1>1, <1>2, <1>3, <2>1 DEF StreamInv
<1>10. QED
  BY <1>6, <1>7, <1>8, <1>9 DEF HostInv

-----------------------------------------------------------------------------
(* The theorems.                                                           *)

\* The state in which the session begins.
LEMMA InitEstablishes ==
    ASSUME Init
    PROVE  HostInv
<1>1. /\ None \in Nat /\ NoCall \in Calls /\ NewClient \in [stream : Nat, next : Nat]
      /\ NewClient.stream = None /\ <<>> \in Seq(Connections) /\ Len(<<>>) = 0
  BY SMTT(30) DEF None, Calls, NewClient
<1>2. PageOK
  <2>1. [kind |-> "blank", generation |-> 1, writers |-> {}]
           \in [kind : Kinds, generation : Nat \ {0}, writers : SUBSET Nat]
    BY SMT DEF Kinds
  <2>2. QED
    BY <2>1, Zenon DEF Init, PageOK
<1>3. realms \in Realms
  BY <1>1, Zenon DEF Init, Realms
<1>4. WorkerOK
  BY <1>1, Zenon DEF Init, WorkerOK, IdleWorker
<1>5. executor \in Executors
  BY <1>1, Zenon DEF Init, Executors
<1>6. HostOK
  BY Zenon DEF Init, HostOK, Runs, Nothing
<1>7. TypeOK
  BY <1>2, <1>3, <1>4, <1>5, <1>6, Zenon DEF Init, TypeOK, SessionOK
<1>8. session.at = "tick" /\ ~Synchronizing /\ ~InRound
  BY Zenon DEF Init, Synchronizing, InRound
<1>9. LineInv
  BY Zenon DEF Init, LineInv, AtRest
<1>10. /\ realms.docs = executor.stats
       /\ \A t \in Tabs : executor.stats[t] = None /\ realms.docs[t] = None
  BY Zenon DEF Init
<1>11. RealmInv
  BY <1>8, <1>10 DEF RealmInv
<1>12. PageInv
  <2>1. Visited \subseteq Tabs
    BY Zenon DEF Visited
  <2>2. QED
    BY <1>8, <1>10, <2>1, Zenon DEF PageInv, Current
<1>13. StreamInv
  <2>1. /\ worker.at = "accept" /\ worker.conn = None /\ host.run.at = "idle"
        /\ Len(realms.conns) = 0 /\ \A t \in Tabs : realms.client[t].stream = None
    BY <1>1, Zenon DEF Init, IdleWorker, Idle
  <2>2. QED
    BY <2>1, SMTT(30) DEF StreamInv, None
<1>14. QED
  BY <1>7, <1>9, <1>11, <1>12, <1>13 DEF HostInv

\* Every step of the session, the worker, the child and the user.
LEMMA NextPreserves ==
    ASSUME HostInv, [Next]_vars
    PROVE  HostInv'
<1>1. CASE SessionStep
  <2>1. CASE DispatchPending \/ Pump
    BY <2>1, PumpPreserves
  <2>2. CASE BeginRound
    BY <2>2, BeginRoundPreserves
  <2>3. CASE VisitTab
    BY <2>3, VisitTabPreserves
  <2>4. CASE EndRound
    BY <2>4, EndRoundPreserves
  <2>5. CASE \E counted \in BOOLEAN : ReceiveReply(counted)
    BY <2>5, ReceiveReplyPreserves
  <2>6. CASE Deadline \/ ReadFails \/ PumpExhausted
    BY <2>6, GiveUpPreserves, SMT
  <2>7. QED
    BY <1>1, <2>1, <2>2, <2>3, <2>4, <2>5, <2>6, Zenon DEF SessionStep
<1>2. CASE HostStep
  <2>1. CASE \E outcome \in {"refused", "failed", "installed"} : HostSynchronizes(outcome)
    BY <2>1, HostSynchronizesPreserves, Zenon
  <2>2. CASE HostClicks
    BY <2>2, HostClicksPreserves, Zenon
  <2>3. CASE \E kept \in BOOLEAN : HostReplies(kept)
    BY <2>3, HostRepliesPreserves
  <2>4. CASE ScriptCalls
    BY <2>4, CallsOver, Connects, Zenon
  <2>5. CASE HelloAcked
    BY <2>5, HelloAckedPreserves
  <2>6. CASE HelloTimesOut
    BY <2>6, HelloTimesOutPreserves
  <2>7. CASE \E served \in BOOLEAN : CallReturns(served)
    BY <2>7, CallReturnsPreserves
  <2>8. CASE CallTimesOut
    BY <2>8, CallTimesOutPreserves
  <2>9. QED
    BY <1>2, <2>1, <2>2, <2>3, <2>4, <2>5, <2>6, <2>7, <2>8, SMT DEF HostStep
<1>3. CASE Crash
  BY <1>3, CrashPreserves, Zenon
<1>4. CASE WorkerStep /\ UNCHANGED <<executor, session, transport, host>>
  BY <1>4, WorkerPreserves, Zenon
<1>5. ASSUME NEW t \in Tabs,
             \/ \E kind \in {"web", "blank", "refused"} : Navigate(t, kind)
             \/ CloseTab(t)
      PROVE  HostInv'
  BY <1>5, ChangePreserves
<1>6. ASSUME NEW t \in Tabs, Click(t)
      PROVE  HostInv'
  BY <1>6, ClickPreserves
<1>7. CASE UNCHANGED vars
  <2>1. UNCHANGED <<page, realms, worker, calls, executor, session, transport, host>>
    BY <1>7, Zenon DEF vars
  <2>2. TypeOK'
    BY <2>1 DEF HostInv, TypeOK, PageOK, WorkerOK, SessionOK, HostOK
  <2>3. SameSession /\ SamePages /\ (Linked' => Linked)
    BY <2>1 DEF SameSession, SamePages, Linked
  <2>4. LineInv' /\ RealmInv'
    BY <2>1, <2>3, SameLine, SameTables DEF HostInv
  <2>5. PageInv'
    BY <2>1, <2>3, SameShown DEF HostInv, TypeOK
  <2>6. StreamInv'
    BY <2>1, SameStreams DEF HostInv
  <2>7. QED
    BY <2>2, <2>4, <2>5, <2>6 DEF HostInv
<1>8. QED
  BY <1>1, <1>2, <1>3, <1>4, <1>5, <1>6, <1>7, SMT DEF Next

\* The invariant of the page host: whatever the user, the child and its
\* scripts do, the one request of a wait is where it should be, the core's
\* tables match the child's realms, those match the pages, and a stream
\* carries the one call that its realm waits for.
THEOREM HostHolds == Spec => []HostInv
<1>1. Init => HostInv
  BY InitEstablishes, Zenon
<1>2. HostInv /\ [Next]_vars => HostInv'
  BY NextPreserves, Zenon
<1>3. QED
  BY <1>1, <1>2, PTL DEF Spec

\* close_realm and realm_stats, which are requested without serving DOM calls,
\* find a child that runs nothing: the session and the child never wait for
\* each other.
THEOREM NoControlDeadlock == Spec => []ControlFindsChildIdle
<1>1. HostInv => ControlFindsChildIdle
  BY DEF HostInv, LineInv, AtRest, ControlFindsChildIdle
<1>2. QED
  BY <1>1, HostHolds, PTL

\* Between rounds the child has the realms the core has receipts for: no
\* failed, refused or replaced document leaves one behind (finish_document,
\* close_failed_document, close_page).
THEOREM RealmsMatchReceipts == Spec => []RealmsAreAccountedFor
<1>1. HostInv => RealmsAreAccountedFor
  BY Zenon DEF HostInv, RealmInv, Synchronizing, RealmsAreAccountedFor, BetweenRounds
<1>2. QED
  BY <1>1, HostHolds, PTL

\* After a round of synchronize_and_execute_serving_script no realm outlives
\* the document it was made for.
THEOREM RealmsMatchPages == Spec => []RealmsAreCurrent
<1>1. HostInv => RealmsAreCurrent
  <2>1. session.at = "tick" => Visited = Tabs
    BY DEF Visited, Synchronizing
  <2>2. QED
    BY <2>1 DEF HostInv, PageInv, Current, RealmsAreCurrent
<1>2. QED
  BY <1>1, HostHolds, PTL

\* A DOM call never takes the reply to another call, however many calls timed
\* out before it and whichever are answered late.
THEOREM CallsGetTheirReply == Spec => []RepliesAnswerTheirCall
<1>1. ASSUME HostInv PROVE RepliesAnswerTheirCall
  <2>1. SUFFICES ASSUME host.run.at = "reply",
                        NEW c, c = realms.client[host.run.doc.tab].stream,
                        realms.conns[c].reply # NoCall
                 PROVE  realms.conns[c].reply.serial = calls
    BY Zenon DEF RepliesAnswerTheirCall
  <2>2. host.run.doc.tab \in Tabs
    BY <1>1, <2>1, ExecutesRequest, Zenon DEF Documents
  <2>3. OneCall(c, calls)
    BY <1>1, <2>1, <2>2, Zenon DEF HostInv, StreamInv, Calling
  <2>4. QED
    BY <2>1, <2>3, Zenon DEF OneCall, HasReply
<1>2. QED
  BY <1>1, HostHolds, PTL

\* A script's call is applied to the document that made it or to none
\* (handle_script_request), also when the child that made it was given up and
\* the tab has navigated since.
THEOREM ScriptsWriteTheirOwn == Spec => []OnlyOwnScriptsWrite
<1>1. Init => OnlyOwnScriptsWrite
  <2>1. Init => \A t \in Tabs : page[t] = [kind |-> "blank", generation |-> 1, writers |-> {}]
    BY Zenon DEF Init
  <2>2. Init => \A t \in Tabs : page[t].writers = {}
    BY <2>1
  <2>3. QED
    BY <2>2, Zenon DEF OnlyOwnScriptsWrite
<1>2. ASSUME HostInv, OnlyOwnScriptsWrite, [Next]_vars
      PROVE  OnlyOwnScriptsWrite'
  <2>1. PageOK
    BY <1>2 DEF HostInv, TypeOK
  <2>2. CASE UNCHANGED page
    BY <1>2, <2>2, SMT DEF OnlyOwnScriptsWrite
  <2>3. CASE page' = HandleScriptRequest(worker.call)
    BY <1>2, <2>1, <2>3, HandleEffect DEF OnlyOwnScriptsWrite
  <2>4. ASSUME NEW t \in Tabs, NEW kind, Navigate(t, kind) \/ CloseTab(t)
        PROVE  OnlyOwnScriptsWrite'
    <3>1. page'[t].writers = {} /\ \A u \in Tabs \ {t} : page'[u] = page[u]
      BY <2>1, <2>4, SMT DEF Navigate, CloseTab, PageOK
    <3>2. QED
      BY <1>2, <3>1, SMT DEF OnlyOwnScriptsWrite
  <2>5. CASE SessionStep
    BY <2>2, <2>3, <2>5, Zenon DEF SessionStep, DispatchPending, BeginRound, VisitTab, EndRound,
         ReceiveReply, Deadline, ReadFails, Pump, PumpExhausted
  <2>6. CASE HostStep
    BY <2>2, <2>6, Zenon DEF HostStep, HostSynchronizes, HostClicks, HostReplies, ScriptCalls,
         HelloAcked, HelloTimesOut, CallReturns, CallTimesOut
  <2>7. CASE WorkerStep
    BY <2>2, <2>7, Zenon DEF WorkerStep, AcceptConnection, ReadCall, ReadEnd, WriteReply
  <2>8. ASSUME NEW t \in Tabs, Click(t) PROVE OnlyOwnScriptsWrite'
    BY <2>2, <2>8 DEF Click
  <2>9. CASE Crash \/ UNCHANGED vars
    BY <2>2, <2>9 DEF Crash, vars
  <2>10. QED
    BY <1>2, <2>4, <2>5, <2>6, <2>7, <2>8, <2>9, Zenon DEF Next
<1>3. QED
  BY <1>1, <1>2, HostHolds, PTL DEF Spec
=============================================================================
