------------------------------ MODULE PageHost ------------------------------
(***************************************************************************)
(* The out-of-process page host.  The core's executor                      *)
(* (OutOfProcessJavaScriptPageExecutor, core/engine/src/script/            *)
(* javascript_child.rs) sends every loaded document to one child process   *)
(* (BlueJsChildHost, launcher/src/bluejs_host.rs) over one stream, and     *)
(* while the child runs the document's scripts the session thread waits,   *)
(* answering their DOM calls (module DomCalls).                            *)
(*                                                                         *)
(* The wait ends with the child's reply, its death, the 60-second deadline *)
(* or the first call past the allowance; all but the first shut the stream *)
(* down for good, and the child does not notice until it next writes.      *)
(***************************************************************************)
EXTENDS DomCalls, FiniteSets

CONSTANTS
    MaxRealms,   \* limits.max_realms of the child
    Allowance    \* MAX_NESTED_SCRIPT_REQUESTS_PER_WAIT

ASSUME PageHostAssumption == MaxRealms \in Nat /\ Allowance \in Nat

VARIABLES
    executor,    \* live_documents and realm_stats, by tab
    session,     \* where the session thread is
    transport,   \* the executor's stream has not been shut down
    host         \* the child process: alive, its mailbox, and its one thread

domVars == <<page, realms, worker, calls>>
vars == <<page, realms, worker, calls, executor, session, transport, host>>

Document(t, g) == [tab |-> t, generation |-> g]
Nothing == [kind |-> "none"]
Idle == [at |-> "idle"]

Init ==
    /\ page = [t \in Tabs |-> [kind |-> "blank", generation |-> 1, writers |-> {}]]
    /\ realms = [docs |-> [t \in Tabs |-> None],
                 client |-> [t \in Tabs |-> NewClient],
                 conns |-> <<>>]
    /\ worker = IdleWorker
    /\ calls = 0
    /\ executor = [live |-> [t \in Tabs |-> None], stats |-> [t \in Tabs |-> None]]
    /\ session = [at |-> "tick"]
    /\ transport = TRUE
    /\ host = [up |-> TRUE, inbox |-> Nothing, outbox |-> Nothing, run |-> Idle]

-----------------------------------------------------------------------------
(* The executor's tables.  An operator below takes and returns the pair of *)
(* the executor and the child's realms; "link" says whether a control      *)
(* request reaches the child.  A control request is one step: the child is *)
(* idle whenever one is made, which ControlFindsChildIdle states, and an   *)
(* idle child is taken to answer within the read timeout that the last     *)
(* wait left on the stream (before the first wait there is none).          *)

Both == [core |-> executor, child |-> realms]

\* CloseRealm: exact generations only.
CloseRealm(s, link, t, g) ==
    IF link /\ g # None /\ s.child.docs[t] = g
    THEN [s EXCEPT !.child = DropRealm(s.child, t)]
    ELSE s

\* close_page, of each of several tabs.
ClosePages(s, link, closed) ==
    [core  |-> [live  |-> [t \in Tabs |-> IF t \in closed THEN None ELSE s.core.live[t]],
                stats |-> [t \in Tabs |-> IF t \in closed THEN None ELSE s.core.stats[t]]],
     child |-> IF link
               THEN DropRealms(s.child, {t \in closed : /\ s.core.live[t] # None
                                                         /\ s.child.docs[t] = s.core.live[t]})
               ELSE s.child]

ClosePage(s, link, t) == ClosePages(s, link, {t})

\* A plausible slip: only the document that failed is closed.
CloseFailedDocumentAlone(s, link, t, g) ==
    [CloseRealm(s, link, t, g) EXCEPT !.core.live[t] = None, !.core.stats[t] = None]

\* close_failed_document: the predecessor and the candidate, whichever of
\* the two the child still has.
CloseFailedDocument(s, link, t, g) ==
    CloseRealm(ClosePage(s, link, t), link, t, g)

\* finish_document: after an acknowledgement the realm's accounting is read
\* (counted says that the child could give it) and the realm is closed if it
\* cannot be; after anything else both generations are closed.  The document
\* stays in the table either way, so that it is not tried again.
FinishDocument(s, link, t, g, reply, counted) ==
    LET done ==
            CASE reply # "synchronized" -> CloseFailedDocument(s, link, t, g)
              [] reply = "synchronized" /\ link /\ counted ->
                    [s EXCEPT !.core.stats[t] = g]
              [] OTHER -> [CloseRealm(s, link, t, g) EXCEPT !.core.stats[t] = None]
    IN  [done EXCEPT !.core.live[t] = g]

-----------------------------------------------------------------------------
(* The session thread between waits.  A turn of its loop handles at most    *)
(* one message ("tick"), then answers what the script worker has queued and *)
(* synchronizes every tab, so a round follows each message ("turn").        *)

BetweenRounds == session.at \in {"tick", "turn"}

\* A document is loaded: a web page, a page without a web origin, or one
\* whose snapshot breaks the binding contract.
Navigate(t, kind) ==
    /\ session.at = "tick"
    /\ page[t].kind # "gone"
    /\ page[t].generation < MaxGeneration
    /\ page' = [page EXCEPT ![t] = [kind |-> kind, generation |-> @.generation + 1,
                                    writers |-> {}]]
    /\ session' = [at |-> "turn"]
    /\ UNCHANGED <<realms, worker, calls, executor, transport, host>>

CloseTab(t) ==
    /\ session.at = "tick"
    /\ page[t].kind # "gone"
    /\ page' = [page EXCEPT ![t].kind = "gone", ![t].writers = {}]
    /\ session' = [at |-> "turn"]
    /\ UNCHANGED <<realms, worker, calls, executor, transport, host>>

\* dispatch_pending, in a turn of the session loop.
DispatchPending ==
    /\ BetweenRounds
    /\ worker.at = "queued"
    /\ page' = HandleScriptRequest(worker.call)
    /\ worker' = Answered
    /\ UNCHANGED <<realms, calls, executor, session, transport, host>>

Linked == transport /\ host.up

\* synchronize_and_execute_serving_script: first close_removed_tabs, then the
\* tabs in order.
BeginRound ==
    /\ BetweenRounds
    /\ LET gone == {t \in Tabs : page[t].kind = "gone" /\ executor.live[t] # None}
           s == ClosePages(Both, Linked, gone)
       IN  /\ executor' = s.core
           /\ realms' = s.child
    /\ session' = [at |-> "round", todo |-> {t \in Tabs : page[t].kind # "gone"}]
    /\ UNCHANGED <<page, worker, calls, transport, host>>

EndRound ==
    /\ session.at = "round"
    /\ session.todo = {}
    /\ session' = [at |-> "tick"]
    /\ UNCHANGED <<page, realms, worker, calls, executor, transport, host>>

\* The wait for a document that is sent, or the failure of a stream that no
\* longer carries anything.
SendDocument(s, t, g, rest) ==
    IF Linked
    THEN /\ executor' = s.core
         /\ session' = [at |-> "wait", kind |-> "sync", doc |-> Document(t, g),
                        remaining |-> Allowance, todo |-> rest]
         /\ host' = [host EXCEPT !.inbox = [kind |-> "sync", doc |-> Document(t, g)]]
         /\ UNCHANGED <<realms, transport>>
    ELSE LET failed == FinishDocument(s, FALSE, t, g, "lost", FALSE)
         IN  /\ executor' = failed.core
             /\ transport' = FALSE
             /\ session' = [at |-> "round", todo |-> rest]
             /\ UNCHANGED <<realms, host>>

\* A plausible slip: a tab that shows no document to run is passed over.
VisitTabOnTheWeb ==
    /\ session.at = "round"
    /\ \E t \in session.todo :
          LET g == page[t].generation
              rest == session.todo \ {t}
          IN  /\ \A u \in rest : t < u
              /\ IF page[t].kind # "web" \/ executor.live[t] = g
                 THEN /\ session' = [at |-> "round", todo |-> rest]
                      /\ UNCHANGED <<realms, executor, transport, host>>
                 ELSE SendDocument([Both EXCEPT !.core.stats[t] = None], t, g, rest)
    /\ UNCHANGED <<page, worker, calls>>

\* The next tab of the round, in the order of their ids: closed if it has no
\* identity, passed over if it is known, refused (prepare_document) or sent.
VisitTab ==
    /\ session.at = "round"
    /\ \E t \in session.todo :
          LET g == page[t].generation
              rest == session.todo \ {t}
              closed == ClosePage(Both, Linked, t)
              OnToNext == session' = [at |-> "round", todo |-> rest]
          IN  /\ \A u \in rest : t < u
              /\ \/ /\ page[t].kind = "blank"
                    /\ executor' = closed.core
                    /\ realms' = closed.child
                    /\ OnToNext
                    /\ UNCHANGED <<transport, host>>
                 \/ /\ page[t].kind # "blank" /\ executor.live[t] = g
                    /\ OnToNext
                    /\ UNCHANGED <<executor, realms, transport, host>>
                 \/ /\ page[t].kind = "refused" /\ executor.live[t] # g
                    /\ executor' = [closed.core EXCEPT !.live[t] = g]
                    /\ realms' = closed.child
                    /\ OnToNext
                    /\ UNCHANGED <<transport, host>>
                 \/ /\ page[t].kind \notin {"blank", "refused"} /\ executor.live[t] # g
                    /\ SendDocument([Both EXCEPT !.core.stats[t] = None], t, g, rest)
    /\ UNCHANGED <<page, worker, calls>>

\* dispatch_click_serving_script: a document in the table, whatever became of
\* its synchronization.  The request fails at once on a dead stream.
Click(t) ==
    /\ session.at = "tick"
    /\ page[t].kind \notin {"blank", "gone"}
    /\ executor.live[t] = page[t].generation
    /\ LET doc == Document(t, page[t].generation)
       IN  IF Linked
           THEN /\ session' = [at |-> "wait", kind |-> "click", doc |-> doc,
                               remaining |-> Allowance, todo |-> {}]
                /\ host' = [host EXCEPT !.inbox = [kind |-> "click", doc |-> doc]]
                /\ UNCHANGED transport
           ELSE /\ transport' = FALSE
                /\ session' = [at |-> "turn"]
                /\ UNCHANGED host
    /\ UNCHANGED <<page, realms, worker, calls, executor>>

-----------------------------------------------------------------------------
(* request_while_pumping_script_with_timeout: the wait. *)

\* What follows the wait: a document is finished and the round goes on; a
\* click is over.
Conclude(link, reply, counted) ==
    IF session.kind = "sync"
    THEN LET s == FinishDocument(Both, link, session.doc.tab, session.doc.generation,
                                 reply, counted)
         IN  /\ executor' = s.core
             /\ realms' = s.child
             /\ session' = [at |-> "round", todo |-> session.todo]
    ELSE /\ session' = [at |-> "turn"]
         /\ UNCHANGED <<executor, realms>>

\* A plausible slip: the stream stays in use after a wait that failed.
GiveUpQuietly ==
    /\ host' = [host EXCEPT !.outbox = Nothing]
    /\ Conclude(Linked, "lost", FALSE)
    /\ UNCHANGED transport

\* The wait failed: the stream is shut down in both directions.
GiveUp ==
    /\ transport' = FALSE
    /\ host' = [host EXCEPT !.outbox = Nothing]
    /\ Conclude(FALSE, "lost", FALSE)

ReceiveReply(counted) ==
    /\ session.at = "wait"
    /\ host.outbox # Nothing
    /\ Conclude(Linked, host.outbox.kind, counted)
    /\ host' = [host EXCEPT !.outbox = Nothing]
    /\ UNCHANGED <<page, worker, calls, transport>>

\* A plausible slip: only a call past the allowance ends a wait.
DeadlineNever ==
    /\ session.at = "wait"
    /\ session.remaining = 0
    /\ worker.at = "queued"
    /\ GiveUp
    /\ UNCHANGED <<page, worker, calls>>

Deadline ==
    /\ session.at = "wait"
    /\ GiveUp
    /\ UNCHANGED <<page, worker, calls>>

ReadFails ==
    /\ session.at = "wait"
    /\ ~host.up
    /\ host.outbox = Nothing
    /\ GiveUp
    /\ UNCHANGED <<page, worker, calls>>

\* pump_script_requests_during_child_wait, within the allowance: calls of the
\* executing document are applied, others refused.
Pump ==
    /\ session.at = "wait"
    /\ session.remaining > 0
    /\ worker.at = "queued"
    /\ page' = IF worker.call.doc = session.doc
               THEN HandleScriptRequest(worker.call) ELSE page
    /\ worker' = Answered
    /\ session' = [session EXCEPT !.remaining = @ - 1]
    /\ UNCHANGED <<realms, calls, executor, transport, host>>

\* The first call past it is refused and ends the wait.
PumpExhausted ==
    /\ session.at = "wait"
    /\ session.remaining = 0
    /\ worker.at = "queued"
    /\ worker' = Answered
    /\ GiveUp
    /\ UNCHANGED <<page, calls>>

-----------------------------------------------------------------------------
(* The child process. *)

Running(request) == [at |-> "script", kind |-> request.kind, doc |-> request.doc]

\* A reply is written, or the write fails on a stream that was shut down and
\* the child goes back to its listener, where no core connects again.
Reply(kind) == IF transport THEN [kind |-> kind] ELSE Nothing

\* synchronize: a document past the limits on scripts, sources or snapshot is
\* refused with its predecessor left alone, one the child has already is
\* acknowledged, a new tab past the limit on realms refused.  A predecessor's
\* realm is replaced; the realm of a document whose bindings cannot be
\* installed is closed again.
HostSynchronizes(outcome) ==
    LET t == host.inbox.doc.tab
        g == host.inbox.doc.generation
        fresh == [DropRealm(realms, t) EXCEPT !.docs[t] = g]
        count == Cardinality({u \in Tabs : realms.docs[u] # None})
    IN  /\ host.run = Idle
        /\ host.inbox.kind = "sync"
        /\ CASE outcome = "refused" ->
                    /\ host' = [host EXCEPT !.inbox = Nothing, !.outbox = Reply("error")]
                    /\ UNCHANGED realms
             [] outcome # "refused" /\ realms.docs[t] >= g ->
                    /\ host' = [host EXCEPT !.inbox = Nothing,
                                            !.outbox = Reply(IF realms.docs[t] = g
                                                             THEN "synchronized" ELSE "error")]
                    /\ UNCHANGED realms
             [] outcome # "refused" /\ realms.docs[t] = None /\ count >= MaxRealms ->
                    /\ host' = [host EXCEPT !.inbox = Nothing, !.outbox = Reply("error")]
                    /\ UNCHANGED realms
             [] OTHER ->
                    IF outcome = "installed"
                    THEN /\ host' = [host EXCEPT !.inbox = Nothing, !.run = Running(host.inbox)]
                         /\ realms' = fresh
                    ELSE /\ host' = [host EXCEPT !.inbox = Nothing, !.outbox = Reply("error")]
                         /\ realms' = DropRealm(realms, t)
        /\ UNCHANGED <<page, worker, calls, executor, session, transport>>

\* dispatch_click: the exact document or nothing.
HostClicks ==
    LET doc == host.inbox.doc
    IN  /\ host.run = Idle
        /\ host.inbox.kind = "click"
        /\ host' = IF realms.docs[doc.tab] = doc.generation
                   THEN [host EXCEPT !.inbox = Nothing, !.run = Running(host.inbox)]
                   ELSE [host EXCEPT !.inbox = Nothing, !.outbox = Reply("error")]
        /\ UNCHANGED <<page, realms, worker, calls, executor, session, transport>>

\* The scripts have run.  A click is answered; a document is acknowledged, or
\* its realm closed when its programs cannot be listed (refresh_debugger_programs).
HostReplies(kept) ==
    LET t == host.run.doc.tab
    IN  /\ host.run.at = "script"
        /\ host' = [host EXCEPT !.run = Idle,
                                !.outbox = Reply(CASE ~kept -> "error"
                                                   [] host.run.kind = "click" -> "clicked"
                                                   [] OTHER -> "synchronized")]
        /\ realms' = IF host.run.kind = "sync" /\ ~kept THEN DropRealm(realms, t) ELSE realms
        /\ UNCHANGED <<page, worker, calls, executor, session, transport>>

\* A script calls the DOM: over its realm's stream, or over a new one.
ScriptCalls ==
    LET doc == host.run.doc
        open == realms.client[doc.tab].stream # None
    IN  /\ host.run.at = "script"
        /\ calls < MaxCalls
        /\ calls' = calls + 1
        /\ IF open
           THEN /\ realms' = WriteCall(realms, doc, calls + 1)
                /\ host' = [host EXCEPT !.run.at = "reply"]
           ELSE /\ Len(realms.conns) < MaxConnections
                /\ realms' = Connect(realms)
                /\ host' = [host EXCEPT !.run.at = "hello"]
        /\ UNCHANGED <<page, worker, executor, session, transport>>

\* connect() succeeds and the call is written.
HelloAcked ==
    LET t == host.run.doc.tab
        c == Len(realms.conns)
    IN  /\ host.run.at = "hello"
        /\ realms.conns[c].acked
        /\ realms' = WriteCall([realms EXCEPT !.client[t] = [stream |-> c, next |-> 1]],
                               host.run.doc, calls)
        /\ host' = [host EXCEPT !.run.at = "reply"]
        /\ UNCHANGED <<page, worker, calls, executor, session, transport>>

\* SCRIPT_DOM_CALL_WAIT passes before the worker gets to this connection.
\* Thirty seconds outlast every step of a thread that can take one, so the
\* worker is then waiting for somebody else.
HelloTimesOut ==
    LET c == Len(realms.conns)
    IN  /\ host.run.at = "hello"
        /\ ~realms.conns[c].acked
        /\ WorkerBlocked
        /\ realms' = Hangup(realms, c)
        /\ host' = [host EXCEPT !.run.at = "script"]
        /\ UNCHANGED <<page, worker, calls, executor, session, transport>>

\* served is left open: what the core refuses depends on arguments the model
\* does not have.
CallReturns(served) ==
    LET doc == host.run.doc
    IN  /\ host.run.at = "reply"
        /\ realms.conns[realms.client[doc.tab].stream].reply # NoCall
        /\ realms' = TakeReply(realms, doc, served)
        /\ host' = [host EXCEPT !.run.at = "script"]
        /\ UNCHANGED <<page, worker, calls, executor, session, transport>>

\* SCRIPT_DOM_CALL_WAIT passes without an answer: the script sees an error
\* and goes on.
CallTimesOut ==
    LET t == host.run.doc.tab
    IN  /\ host.run.at = "reply"
        /\ worker.at = "queued"
        /\ realms' = DropStream(realms, t)
        /\ host' = [host EXCEPT !.run.at = "script"]
        /\ UNCHANGED <<page, worker, calls, executor, session, transport>>

\* The process dies; a reply it has written can still be read.
Crash ==
    /\ host.up
    /\ host' = [host EXCEPT !.up = FALSE, !.inbox = Nothing, !.run = Idle]
    /\ realms' = [docs |-> [t \in Tabs |-> None],
                  client |-> [t \in Tabs |-> NewClient],
                  conns |-> [c \in DOMAIN realms.conns |->
                                [realms.conns[c] EXCEPT !.peer = FALSE]]]
    /\ UNCHANGED <<page, worker, calls, executor, session, transport>>

-----------------------------------------------------------------------------
SessionStep ==
    \/ DispatchPending
    \/ BeginRound
    \/ VisitTab
    \/ EndRound
    \/ \E counted \in BOOLEAN : ReceiveReply(counted)
    \/ Deadline
    \/ ReadFails
    \/ Pump
    \/ PumpExhausted

HostStep ==
    \/ \E outcome \in {"refused", "failed", "installed"} : HostSynchronizes(outcome)
    \/ HostClicks
    \/ \E kept \in BOOLEAN : HostReplies(kept)
    \/ ScriptCalls
    \/ HelloAcked
    \/ HelloTimesOut
    \/ \E served \in BOOLEAN : CallReturns(served)
    \/ CallTimesOut

Next ==
    \/ SessionStep
    \/ HostStep
    \/ Crash
    \/ WorkerStep /\ UNCHANGED <<executor, session, transport, host>>
    \/ \E t \in Tabs :
          \/ \E kind \in {"web", "blank", "refused"} : Navigate(t, kind)
          \/ CloseTab(t)
          \/ Click(t)

\* The session thread keeps running and its deadlines expire; nothing is
\* asked of the child or of the script worker, which may stop anywhere.
Spec == Init /\ [][Next]_vars /\ WF_vars(SessionStep)

-----------------------------------------------------------------------------
(* Properties. *)

\* Outside a wait, a stream that still works leads to a child with nothing to
\* do.  Control requests (close_realm, realm_stats) are made without serving
\* DOM calls, so a child that was still running a script then could wait for
\* the session while the session waits for it.
ControlFindsChildIdle ==
    session.at # "wait" /\ Linked =>
        /\ host.run = Idle
        /\ host.inbox = Nothing
        /\ host.outbox = Nothing

\* As long as the stream works, the child has exactly the realms the core
\* holds an accounting receipt for, and for the same documents: child_stats
\* refuses any other count.  Refused documents, failed installations and
\* replaced documents must not leave a realm behind.
RealmsAreAccountedFor ==
    BetweenRounds /\ Linked => realms.docs = executor.stats

\* After a round, as long as the stream works, a realm belongs to the document
\* its tab shows now: none survives a navigation away, a refused successor or
\* the end of its tab.
RealmsAreCurrent ==
    session.at = "tick" /\ Linked =>
        \A t \in Tabs : realms.docs[t] # None =>
            page[t].kind = "web" /\ page[t].generation = realms.docs[t]

\* The reply a call finds on its stream is the reply to that call, although
\* calls time out, streams are replaced and the session answers abandoned
\* calls later.
RepliesAnswerTheirCall ==
    host.run.at = "reply" =>
        LET reply == realms.conns[realms.client[host.run.doc.tab].stream].reply
        IN  reply # NoCall => reply.serial = calls

\* Only a document's own scripts write to it, although a child that was given
\* up goes on running and its calls are answered after the next navigation.
OnlyOwnScriptsWrite ==
    \A t \in Tabs : page[t].writers \subseteq {page[t].generation}

Undecided(t) ==
    page[t].kind \in {"web", "refused"} /\ executor.live[t] # page[t].generation

\* Every document that is loaded is decided (executed, or reported as failed)
\* whatever the child does: hang, die, or call without end.
EveryDocumentIsDecided == \A t \in Tabs : Undecided(t) ~> ~Undecided(t)

\* While the session waits for a document and serves DOM calls, a script of
\* that document that calls the DOM is not left unheard behind another realm's
\* idle connection.
ExecutingDocumentIsHeard ==
    ~(session.at = "wait" /\ host.run.at = "hello"
        /\ ~realms.conns[Len(realms.conns)].acked
        /\ worker.at = "read" /\ WorkerBlocked)
=============================================================================
