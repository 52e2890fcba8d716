------------------------------ MODULE DomCalls ------------------------------
(***************************************************************************)
(* The private script socket: the DOM calls that page scripts make from    *)
(* the page-host child to the core.  A realm's ScriptDomClient             *)
(* (bluejs_host.rs) connects on its first call and keeps the stream; one   *)
(* core thread, serve_script_listener (blueice-core.rs), serves the        *)
(* connections one after the other and hands each call to the session      *)
(* thread, which alone touches the documents (script.rs).                  *)
(*                                                                         *)
(* The worker blocks until the session has answered, so the channel to the *)
(* session never holds more than one envelope: worker.at = "queued".       *)
(***************************************************************************)
EXTENDS Integers, Sequences

CONSTANTS
    NumTabs,          \* tabs that are open at the start
    MaxGeneration,    \* bound: documents loaded in one tab
    MaxConnections,   \* bound: script-socket connections
    MaxCalls          \* bound: DOM calls made in a behaviour

Tabs == 1..NumTabs

\* No document, no stream: generations and connections count from 1.
None == 0

NoCall == [id |-> None]

VARIABLES
    page,     \* TabManager: each tab's document, its generation, and the
              \*   generations whose scripts have written to it
    realms,   \* the child's documents, their clients, and the connections
    worker,   \* the core thread that serves the script socket
    calls     \* the number of calls made, which numbers them

-----------------------------------------------------------------------------
(* The child's end. *)

NewClient == [stream |-> None, next |-> 1]

Hangup(r, c) ==
    IF c = None THEN r ELSE [r EXCEPT !.conns[c].peer = FALSE]

\* Realms that are replaced or closed take their bindings, and with them the
\* clients and their streams, along.
DropRealms(r, closed) ==
    LET streams == {r.client[t].stream : t \in closed}
    IN  [docs   |-> [t \in Tabs |-> IF t \in closed THEN None ELSE r.docs[t]],
         client |-> [t \in Tabs |-> IF t \in closed THEN NewClient ELSE r.client[t]],
         conns  |-> [c \in DOMAIN r.conns |->
                        IF c \in streams THEN [r.conns[c] EXCEPT !.peer = FALSE]
                        ELSE r.conns[c]]]

DropRealm(r, t) == DropRealms(r, {t})

\* connect(): the listener's backlog accepts the stream at once; the client
\* writes its Hello and waits for the acknowledgement.
Connect(r) ==
    [r EXCEPT !.conns =
        Append(@, [peer |-> TRUE, acked |-> FALSE, call |-> NoCall, reply |-> NoCall])]

\* call(): the next request of an open stream.
WriteCall(r, doc, serial) ==
    LET own == r.client[doc.tab]
    IN  [r EXCEPT !.conns[own.stream].call =
            [id |-> own.next, doc |-> doc, serial |-> serial]]

\* A plausible slip: the stream survives a call that failed.
DropStreamNever(r, t) == r

\* call() returned an error: the stream is not used again.
DropStream(r, t) == [Hangup(r, r.client[t].stream) EXCEPT !.client[t].stream = None]

\* call() compares the reply with its own id and document, and its caller
\* gives the stream up when the core did not serve the call (an error reply:
\* a document, a node or an argument that is not accepted).
TakeReply(r, doc, served) ==
    LET own   == r.client[doc.tab]
        reply == r.conns[own.stream].reply
        read  == [r EXCEPT !.conns[own.stream].reply = NoCall]
    IN  IF served /\ reply.id = own.next /\ reply.doc = doc
        THEN [read EXCEPT !.client[doc.tab].next = @ + 1]
        ELSE DropStream(read, doc.tab)

-----------------------------------------------------------------------------
(* The worker thread of the core. *)

IdleWorker == [at |-> "accept", conn |-> None, next |-> 1, call |-> NoCall]

\* The next connection of the backlog: its Hello is acknowledged, unless the
\* child has hung up, which ends it at once.
AcceptConnection ==
    LET c == worker.conn + 1
    IN  /\ worker.at = "accept"
        /\ c <= Len(realms.conns)
        /\ IF realms.conns[c].peer
           THEN /\ worker' = [worker EXCEPT !.at = "read", !.conn = c, !.next = 1]
                /\ realms' = [realms EXCEPT !.conns[c].acked = TRUE]
           ELSE /\ worker' = [worker EXCEPT !.conn = c]
                /\ UNCHANGED realms
        /\ UNCHANGED <<page, calls>>

\* A call is read, even when its writer has hung up since, checked against
\* the connection's next id, and sent to the session.
ReadCall ==
    LET call == realms.conns[worker.conn].call
    IN  /\ worker.at = "read"
        /\ call # NoCall
        /\ worker' = IF call.id = worker.next
                     THEN [worker EXCEPT !.at = "queued", !.next = @ + 1, !.call = call]
                     ELSE [worker EXCEPT !.at = "accept"]
        /\ realms' = [realms EXCEPT !.conns[worker.conn].call = NoCall]
        /\ UNCHANGED <<page, calls>>

\* The end of the stream ends the connection; nothing else does, and the
\* worker waits for it without a limit.
ReadEnd ==
    /\ worker.at = "read"
    /\ realms.conns[worker.conn].call = NoCall
    /\ ~realms.conns[worker.conn].peer
    /\ worker' = [worker EXCEPT !.at = "accept"]
    /\ UNCHANGED <<page, realms, calls>>

\* The session's answer goes back under the call's id and document.
WriteReply ==
    /\ worker.at = "answered"
    /\ IF realms.conns[worker.conn].peer
       THEN /\ worker' = [worker EXCEPT !.at = "read", !.call = NoCall]
            /\ realms' = [realms EXCEPT !.conns[worker.conn].reply = worker.call]
       ELSE /\ worker' = [worker EXCEPT !.at = "accept", !.call = NoCall]
            /\ UNCHANGED realms
    /\ UNCHANGED <<page, calls>>

WorkerStep == AcceptConnection \/ ReadCall \/ ReadEnd \/ WriteReply

\* The worker waits for another thread: for the session to answer, or for the
\* holder of its connection to speak.
WorkerBlocked ==
    \/ worker.at = "queued"
    \/ /\ worker.at = "read"
       /\ realms.conns[worker.conn].call = NoCall
       /\ realms.conns[worker.conn].peer

-----------------------------------------------------------------------------
(* The session's end. *)

Answered == [worker EXCEPT !.at = "answered"]

\* A plausible slip: the tab alone decides.
HandleScriptRequestOfTab(call) ==
    [page EXCEPT ![call.doc.tab].writers = @ \cup {call.doc.generation}]

\* handle_script_request: only the addressed tab, and only if it still shows
\* the addressed document.  Every call is taken to write.
HandleScriptRequest(call) ==
    LET t == call.doc.tab
    IN  IF page[t].kind # "gone" /\ page[t].generation = call.doc.generation
        THEN [page EXCEPT ![t].writers = @ \cup {call.doc.generation}]
        ELSE page

=============================================================================
