------------------------------- MODULE Session -------------------------------
(***************************************************************************)
(* One blueice-core session: the message loop of                           *)
(* core/engine/src/session.rs, run by the core process for the single      *)
(* connection it accepts.  The loop reads one client message (or times     *)
(* out), handles it, applies every completion waiting in the channel, and  *)
(* goes around; background threads run the gated fetches meanwhile.        *)
(*                                                                         *)
(* Client messages are numbered in the order they are read; the number is  *)
(* the request id its replies echo.  `out` is everything written to the    *)
(* connection.  A failed write, and a failed script-runtime                *)
(* synchronization, return from run_session; the process then exits, so    *)
(* what the handler had changed by then is never seen.                     *)
(***************************************************************************)
EXTENDS TabManager, FramePlane, GatedFetch, FiniteSets

CONSTANTS
    BuiltIn,        \* urls built_in_page answers (about: pages)
    Invalid,        \* urls validate_url_scheme refuses
    ClientKinds,    \* the ClientMessage variants the client uses
    Scripting,      \* whether this session has a page-script runtime
    MaxRequests     \* bound: client messages read in one session

AllKinds == {"Hello", "Navigate", "Resize", "Click", "Scroll", "Hover",
             "GetRepresentation", "GetDom", "GetScriptReports", "ActOn",
             "Highlight", "OpenTab", "CloseTab", "ListTabs", "Chrome",
             "Unknown", "Shutdown"}

ASSUME SessionAssumption ==
    /\ BuiltIn \subseteq Urls
    /\ Invalid \subseteq Urls \ BuiltIn
    /\ ClientKinds \subseteq AllKinds
    /\ Scripting \in BOOLEAN
    /\ MaxRequests \in Nat

VARIABLES
    pc,              \* "handshake", "read", "drain" or "ended"
    requests,        \* client messages read so far
    pending_nav_seq, \* per tab, the number of the newest navigation; 0 if none
    out              \* the server messages written, oldest first

vars == <<tabVars, frameVars, fetchVars, pc, requests, pending_nav_seq, out>>

Requests == 1..MaxRequests
Web == Urls \ (BuiltIn \cup Invalid)

NoTab == 0
NoPage == [url |-> NoUrl, by |-> 0, size |-> InitialSize, view |-> FreshView]

\* A server message: which tab and request it is about and, for the two
\* variants that carry them, a frame generation and the page state depicted.
Message(type, t, r) ==
    [type |-> type, tab |-> t, req |-> r, gen |-> 0, page |-> NoPage]
Depicting(type, t, r, g, p) ==
    [type |-> type, tab |-> t, req |-> r, gen |-> g, page |-> p]

-----------------------------------------------------------------------------
(* Writing replies.                                                        *)

\* Writes msgs and goes on at `next`; a failing write ends the session with
\* only the messages before it written.
Write(msgs, next) ==
    \/ /\ out' = out \o msgs
       /\ pc' = next
    \/ \E n \in 0..(Len(msgs) - 1) :
          /\ out' = out \o SubSeq(msgs, 1, n)
          /\ pc' = "ended"

write_error(t, r) == Write(<<Message("Error", t, r)>>, "drain")

\* Writes `before`, then renders p and announces the frame.
send_frame(t, r, p, before) ==
    /\ next_frame
    /\ Write(Append(before, Depicting("FrameReady", t, r, generation + 1, p)), "drain")

SuccessReply(kind) == IF kind = "OpenTab" THEN "TabOpened" ELSE "Navigated"

reply_success(t, r, kind, p) == send_frame(t, r, p, <<Message(SuccessReply(kind), t, r)>>)

-----------------------------------------------------------------------------
(* Starting and finishing a navigation.                                    *)

\* Stores page p of the tab being navigated; OpenTab's tab is new.
Store(kind, t, p) == IF kind = "OpenTab" THEN open_tab(p) ELSE put(t, p)

\* p is the tab's page when the navigation starts.
begin_gated_navigation(t, r, kind, url, p) ==
    /\ pending_nav_seq' = [pending_nav_seq EXCEPT ![t] = @ + 1]
    /\ \/ /\ url \in BuiltIn
          /\ Store(kind, t, Page(url, r, p.size))
          /\ reply_success(t, r, kind, Page(url, r, p.size))
          /\ UNCHANGED fetchVars
       \/ /\ url \in Invalid
          /\ Store(kind, t, p)
          /\ write_error(t, r)
          /\ UNCHANGED <<frameVars, fetchVars>>
       \/ /\ url \in Web
          /\ Store(kind, t, p)
          /\ spawn(t, pending_nav_seq[t] + 1, r, kind, url)
          /\ pc' = "drain"
          /\ UNCHANGED <<completions, reviews, frameVars, out>>

\* Mutant: a completion that was superseded still counts.
CurrentSuperseded(c) == Live(c.tab)

\* Mutant: a completion for a closed tab still counts.
CurrentClosed(c) == pending_nav_seq[c.tab] = c.seq

\* The navigation is its tab's newest, and the tab is still open.
Current(c) == pending_nav_seq[c.tab] = c.seq /\ Live(c.tab)

\* The page a completion leaves: load_html, then whatever the scripts of the
\* new document do to it while the runtime is synchronized.
Fetched(c) ==
    { [Page(c.url, c.req, tabs[c.tab].size) EXCEPT !.view = v] :
        v \in IF Scripting THEN Views ELSE {FreshView} }

apply_completion(c) ==
    \/ /\ ~Current(c)
       /\ UNCHANGED <<tabVars, frameVars, pc, out>>
    \/ /\ Current(c) /\ c.at = "Cleared"
       /\ \E p \in Fetched(c) :
             put(c.tab, p) /\ reply_success(c.tab, c.req, c.kind, p)
    \/ /\ Current(c) /\ c.at = "GatekeeperBlocked"
       /\ Write(<<Message("GatekeeperBlocked", c.tab, c.req)>>, "drain")
       /\ UNCHANGED <<tabVars, frameVars>>
    \/ /\ Current(c) /\ c.at = "FetchFailed"
       /\ write_error(c.tab, c.req)
       /\ UNCHANGED <<tabVars, frameVars>>

-----------------------------------------------------------------------------
(* The client messages.  Each handler is given the request's number.       *)

Req == requests + 1

\* read_client_message_with_ids returned a message of this kind.
Read(kind) ==
    /\ pc = "read"
    /\ kind \in ClientKinds
    /\ requests < MaxRequests
    /\ requests' = Req

\* Nothing but the reply, the request count and the loop position changes.
Unmoved == UNCHANGED <<tabVars, frameVars, fetchVars, pending_nav_seq>>

Silently == pc' = "drain" /\ UNCHANGED out

UnknownTab(t) == ~Live(t) /\ write_error(t, Req) /\ Unmoved

\* A read-only query of an open tab.
Query(t, reply) == Live(t) /\ Write(<<reply>>, "drain") /\ Unmoved

\* Mutant: the change is made and nothing painted.
RepaintNothing(t, p) ==
    /\ put(t, p)
    /\ Silently
    /\ UNCHANGED <<frameVars, fetchVars, pending_nav_seq>>

\* A change to an open page that is answered by a frame.
Repaint(t, p) ==
    /\ put(t, p)
    /\ send_frame(t, Req, p, <<>>)
    /\ UNCHANGED <<fetchVars, pending_nav_seq>>

Viewed(t, v) == [tabs[t] EXCEPT !.view = v]

Hello ==
    /\ Read("Hello")
    /\ \E reply \in {"Hello", "Error"} : Write(<<Message(reply, NoTab, Req)>>, "drain")
    /\ Unmoved

Navigate(t, url) ==
    /\ Read("Navigate")
    /\ \/ Live(t) /\ begin_gated_navigation(t, Req, "Navigate", url, tabs[t])
       \/ UnknownTab(t)

Resize(t, size) ==
    /\ Read("Resize")
    /\ resize(t, size)
    /\ \/ /\ Live(t)
          /\ send_frame(t, Req, [tabs[t] EXCEPT !.size = size], <<>>)
       \/ /\ ~Live(t)
          /\ write_error(t, Req)
          /\ UNCHANGED frameVars
    /\ UNCHANGED <<fetchVars, pending_nav_seq>>

\* A click that reached an element of t's page, as Click and ActOn share it.
\* The listeners of the page, if a runtime is there to run any, see the click
\* before its default action and may change the page.
clickOn(t) ==
    \/ /\ tabs[t].by # 0
       /\ \E url \in Urls : begin_gated_navigation(t, Req, "Navigate", url, tabs[t])
    \/ Silently /\ Unmoved
    \/ /\ Scripting /\ tabs[t].by # 0
       /\ \E v \in Views :
             \/ /\ put(t, Viewed(t, v))
                /\ write_error(t, Req)
                /\ UNCHANGED <<frameVars, fetchVars, pending_nav_seq>>
             \/ Repaint(t, Viewed(t, v))
             \/ \E url \in Urls :
                   begin_gated_navigation(t, Req, "Navigate", url, Viewed(t, v))

Click(t) ==
    /\ Read("Click")
    /\ \/ UnknownTab(t)
       \/ Live(t) /\ clickOn(t)

\* Focus, SetValue and ScrollIntoView always repaint, a stale node id included.
ActOn(t) ==
    /\ Read("ActOn")
    /\ \/ UnknownTab(t)
       \/ Live(t) /\ clickOn(t)
       \/ Live(t) /\ \E v \in Views : Repaint(t, Viewed(t, v))

Scroll(t) ==
    /\ Read("Scroll")
    /\ \/ UnknownTab(t)
       \/ Live(t) /\ \E v \in Views : Repaint(t, Viewed(t, v))

Highlight(t) ==
    /\ Read("Highlight")
    /\ \/ UnknownTab(t)
       \/ Live(t) /\ \E v \in Views : Repaint(t, Viewed(t, v))

\* The hovered node is not painted, so no part of the modelled page changes.
Hover(t) ==
    /\ Read("Hover")
    /\ \/ UnknownTab(t)
       \/ Live(t) /\ Silently /\ Unmoved

GetRepresentation(t) ==
    /\ Read("GetRepresentation")
    /\ UnknownTab(t) \/ Query(t, Depicting("Representation", t, Req, generation, tabs[t]))

GetDom(t) ==
    /\ Read("GetDom")
    /\ UnknownTab(t) \/ Query(t, Message("Dom", t, Req))

\* GetBlueTsScriptReports and GetBlueJsScriptReports.
GetScriptReports(t) ==
    /\ Read("GetScriptReports")
    /\ \/ UnknownTab(t)
       \/ Scripting /\ Query(t, Message("ScriptReports", t, Req))
       \/ Query(t, Message("Error", t, Req))

OpenBlankTab ==
    /\ Read("OpenTab")
    /\ open_tab(Page(NoUrl, 0, viewport))
    /\ Write(<<Message("TabOpened", next_tab_id, Req)>>, "drain")
    /\ UNCHANGED <<frameVars, fetchVars, pending_nav_seq>>

OpenTab(url) ==
    /\ Read("OpenTab")
    /\ next_tab_id \in TabIds
    /\ begin_gated_navigation(next_tab_id, Req, "OpenTab", url, Page(NoUrl, 0, viewport))

CloseTab(t) ==
    /\ Read("CloseTab")
    /\ \/ UnknownTab(t)
       \/ /\ Live(t)
          /\ close_tab(t)
          /\ Write(<<Message("TabClosed", t, Req)>>, "drain")
          /\ UNCHANGED <<frameVars, fetchVars, pending_nav_seq>>

ListTabs ==
    /\ Read("ListTabs")
    /\ Write(<<Message("Tabs", NoTab, Req)>>, "drain")
    /\ Unmoved

\* Chrome commands and unrecognized messages.
Ignored(kind) == Read(kind) /\ Silently /\ Unmoved

Shutdown == Read("Shutdown") /\ pc' = "ended" /\ UNCHANGED out /\ Unmoved

-----------------------------------------------------------------------------
(* The loop.                                                               *)

\* perform_handshake: only a Hello of this protocol version enters the loop.
Handshake ==
    /\ pc = "handshake"
    /\ \/ Write(<<Message("Hello", NoTab, 0)>>, "read")
       \/ Write(<<Message("Error", NoTab, 0)>>, "ended")
    /\ UNCHANGED requests
    /\ Unmoved

\* No message within POLL_INTERVAL.
Timeout == pc = "read" /\ Silently /\ UNCHANGED requests /\ Unmoved

Disconnect ==
    /\ pc \in {"handshake", "read"}
    /\ pc' = "ended"
    /\ UNCHANGED <<out, requests>>
    /\ Unmoved

\* One turn of `while let Ok(completion) = completion_rx.try_recv()`.
Drain ==
    /\ pc = "drain"
    /\ completions # <<>>
    /\ completions' = Tail(completions)
    /\ apply_completion(Head(completions))
    /\ UNCHANGED <<threads, reviews, requests, pending_nav_seq>>

\* The channel is empty: dispatch the scripts' requests, synchronize the
\* script runtime and go around.  Neither paints.
EndTurn ==
    /\ pc = "drain"
    /\ completions = <<>>
    /\ \/ pc' = "read" /\ UNCHANGED tabVars
       \/ /\ Scripting
          /\ pc' \in {"read", "ended"}
          /\ \E t \in DOMAIN tabs, v \in Views : put(t, Viewed(t, v))
    /\ UNCHANGED <<frameVars, fetchVars, pending_nav_seq, requests, out>>

HandleMessage ==
    \/ Hello
    \/ ListTabs
    \/ Shutdown
    \/ OpenBlankTab
    \/ \E kind \in {"Chrome", "Unknown"} : Ignored(kind)
    \/ \E url \in Urls : OpenTab(url)
    \/ \E t \in TabIds :
          \/ \E url \in Urls : Navigate(t, url)
          \/ \E size \in Sizes : Resize(t, size)
          \/ Click(t) \/ ActOn(t) \/ Scroll(t) \/ Highlight(t) \/ Hover(t)
          \/ GetRepresentation(t) \/ GetDom(t) \/ GetScriptReports(t)
          \/ CloseTab(t)

Loop == Handshake \/ HandleMessage \/ Timeout \/ Disconnect \/ Drain \/ EndTurn

\* The session's variables a background thread cannot touch.
Elsewhere == UNCHANGED <<tabVars, frameVars, pc, requests, pending_nav_seq, out>>

Gatekeeper == \E j \in threads : (CheckUrl(j) \/ CheckContent(j)) /\ Elsewhere
Network == \E j \in threads : fetch(j) /\ Elsewhere
Sender == \E j \in threads : send(j, pc # "ended") /\ Elsewhere

\* The core process is gone once its only session has ended.
Ended == pc = "ended" /\ UNCHANGED vars

Init ==
    /\ new
    /\ generation = 0 /\ frames = {}
    /\ threads = {} /\ completions = <<>> /\ reviews = {}
    /\ pc = "handshake"
    /\ requests = 0
    /\ pending_nav_seq = [t \in TabIds |-> 0]
    /\ out = <<>>

Next == Loop \/ Gatekeeper \/ Network \/ Sender \/ Ended

Spec == Init /\ [][Next]_vars

-----------------------------------------------------------------------------
(* Properties.                                                             *)

Pages == [url : Urls \cup {NoUrl}, by : 0..MaxRequests, size : Sizes, view : Views]
Jobs == [tab : TabIds, seq : Nat \ {0}, req : Requests, kind : Kinds,
         url : Web, at : Calls \cup Outcomes]

Both == {"CheckUrl", "CheckContent"}

TabsOK ==
    /\ next_tab_id \in 2..(MaxTabs + 1)
    /\ DOMAIN tabs \subseteq 1..(next_tab_id - 1)
    /\ \A t \in DOMAIN tabs : tabs[t] \in Pages
    /\ viewport \in Sizes

FramesOK == generation \in Nat /\ frames \subseteq 1..generation

FetchOK ==
    /\ threads \subseteq Jobs
    /\ completions \in Seq({c \in Jobs : c.at \in Outcomes})
    /\ reviews \subseteq Requests \X Both

LoopOK ==
    /\ pc \in {"handshake", "read", "drain", "ended"}
    /\ requests \in 0..MaxRequests
    /\ pending_nav_seq \in [TabIds -> Nat]

\* The state has the shape the code's types give it: what the channel holds
\* has an outcome, every tab id was allocated below next_tab_id, and no file
\* is left of a frame that was not counted.
TypeOK == TabsOK /\ FramesOK /\ FetchOK /\ LoopOK

\* Navigations that have been started and neither answered nor discarded.
InChannel == {completions[i] : i \in DOMAIN completions}
Unfinished == threads \cup InChannel

Trusted(p) ==
    \/ p.by = 0
    \/ p.url \in BuiltIn
    \/ \A stage \in Both : <<p.by, stage>> \in reviews

\* Fail-closed review: a tab only ever holds the blank page, a built-in page
\* or a document whose own navigation the gatekeeper cleared in both stages,
\* whatever the gatekeeper connection does and however completions race.
OnlyReviewedContent == \A t \in DOMAIN tabs : Trusted(tabs[t])

\* What makes OnlyReviewedContent inductive: a navigation past a review stage
\* had that stage cleared for its own request.
Reviewed(c) ==
    /\ c.at \in {"fetch", "CheckContent", "Cleared"} => <<c.req, "CheckUrl">> \in reviews
    /\ c.at = "Cleared" => <<c.req, "CheckContent">> \in reviews

ReviewInv == OnlyReviewedContent /\ \A c \in Unfinished : Reviewed(c)

\* What makes DocumentsNeverGoBack hold: sequence numbers of a tab never pass
\* the newest one, one number stands for one request, and the newest
\* navigation of an open tab is no older than the document it shows.
OrderInv ==
    /\ \A t \in DOMAIN tabs : tabs[t].by <= requests
    /\ \A c \in Unfinished :
          /\ c.req <= requests
          /\ c.seq <= pending_nav_seq[c.tab]
          /\ Current(c) => tabs[c.tab].by <= c.req
    /\ \A c, d \in Unfinished : c.tab = d.tab /\ c.seq = d.seq => c.req = d.req

\* A request is answered at most once, by one reply and at most one frame
\* behind it, even when its navigation finishes long after later requests;
\* one still in flight has had no answer.
OneAnswerPerRequest ==
    /\ \A i, j \in DOMAIN out :
          i < j /\ out[i].req = out[j].req => j = i + 1 /\ out[j].type = "FrameReady"
    /\ \A c \in Unfinished, i \in DOMAIN out : out[i].req # c.req

\* Once TabClosed has been written for a tab, the only messages that name it
\* again are errors answering requests sent after the close: no late
\* completion, and no new tab under the old id.
ClosedTabIsSilent ==
    \A i, j \in DOMAIN out :
        i < j /\ out[i].type = "TabClosed" /\ out[j].tab = out[i].tab =>
            out[j].type = "Error" /\ out[j].req > out[i].req

\* The frames announced by the first n messages.
Announced(n) == {i \in 1..n : out[i].type = "FrameReady"}

\* The frames announced are numbered 1, 2, 3, ... without a gap, and exactly
\* the newest Retained of them are still on disk.
FramesNumberedAndRetained ==
    /\ \A i \in DOMAIN out :
          out[i].type = "FrameReady" => out[i].gen = Cardinality(Announced(i))
    /\ frames = {g \in 1..generation : g > generation - Retained}

\* What the reader of the newest frame of a tab sees is that tab's page: a
\* handler or completion that changes an open page ends by announcing a frame
\* of the page as it then is.
ChangeIsPainted ==
    [][ \A t \in DOMAIN tabs :
          /\ out' # out \/ pc = "read"
          /\ pc' # "ended"
          /\ t \in DOMAIN tabs'
          /\ tabs'[t] # tabs[t]
          => out'[Len(out')] = Depicting("FrameReady", t, out'[Len(out')].req,
                                         generation', tabs'[t]) ]_vars

\* A tab never goes back to the document of an earlier request, however the
\* fetches of two navigations race.
DocumentsNeverGoBack ==
    [][ \A t \in DOMAIN tabs \cap DOMAIN tabs' : tabs[t].by <= tabs'[t].by ]_vars

\* The request an open tab is being navigated to, if any.
Underway(t) ==
    {c.req : c \in {u \in Unfinished : u.tab = t /\ u.seq = pending_nav_seq[t] /\ Live(t)}}

Nav == INSTANCE Navigation WITH
    asked <- requests,
    shown <- [t \in DOMAIN tabs |-> tabs[t].by],
    underway <- [t \in TabIds |-> Underway(t)]

\* The session implements the abstract navigation of module Navigation: its
\* threads, channel and sequence numbers amount to one pursued request a tab.
ImplementsNavigation == Nav!Spec

-----------------------------------------------------------------------------
(* Liveness.                                                               *)

\* A read that finds nothing times out after POLL_INTERVAL, and a fetch and a
\* channel send return.  It assumes a client that finishes the message it has
\* begun and reads what it is sent: a read that has part of a message goes on
\* waiting for the rest, writes have no time limit, and where no read timeout
\* can be set the read blocks until the client's next message.
LocalFairness == WF_vars(Loop) /\ WF_vars(Network) /\ WF_vars(Sender)

FairSpec == Spec /\ LocalFairness /\ WF_vars(Gatekeeper)

Answered(r) == \E i \in DOMAIN out : out[i].req = r

\* Every navigation handed to a background thread is eventually answered,
\* unless a newer navigation of its tab, the closing of its tab or the end of
\* the session made it moot.
EveryNavigationIsAnswered ==
    \A t \in TabIds, n \in 1..MaxRequests, r \in Requests :
        (\E c \in Unfinished : c.tab = t /\ c.seq = n /\ c.req = r)
            ~> \/ Answered(r)
               \/ pending_nav_seq[t] # n
               \/ ~Live(t)
               \/ pc = "ended"
=============================================================================
