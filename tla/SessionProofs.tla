---------------------------- MODULE SessionProofs ----------------------------
(***************************************************************************)
(* Proofs about Session, for any set of urls, number of tabs, requests and *)
(* retained frames.                                                        *)
(***************************************************************************)
EXTENDS Session, TLAPS

-----------------------------------------------------------------------------
(* Typing of the operators the handlers are built from.                    *)

\* A freshly loaded page is a page.
LEMMA PageType ==
    ASSUME NEW url \in Urls \cup {NoUrl}, NEW by \in 0..MaxRequests, NEW size \in Sizes
    PROVE  Page(url, by, size) \in Pages
BY TabsAssumption DEF Page, Pages

\* Changing an open page's view keeps it a page.
LEMMA ViewedType ==
    ASSUME TabsOK, NEW t \in DOMAIN tabs, NEW v \in Views
    PROVE  Viewed(t, v) \in Pages
BY DEF TabsOK, Viewed, Pages

\* Replacing the page of an open tab keeps the tab manager well typed.
LEMMA PutType ==
    ASSUME TabsOK, NEW t \in DOMAIN tabs, NEW p \in Pages, put(t, p)
    PROVE  TabsOK'
BY DEF TabsOK, put, WithPage

\* So does opening a tab.
LEMMA OpenType ==
    ASSUME TabsOK, NEW p \in Pages, open_tab(p)
    PROVE  TabsOK'
BY TabsAssumption DEF TabsOK, open_tab, WithPage, TabIds

\* So does closing one.
LEMMA CloseType ==
    ASSUME TabsOK, NEW t, close_tab(t)
    PROVE  TabsOK'
BY DEF TabsOK, close_tab

\* So does resizing the window.
LEMMA ResizeType ==
    ASSUME TabsOK, NEW t, NEW size \in Sizes, resize(t, size)
    PROVE  TabsOK'
BY DEF TabsOK, resize, WithPage, Live, Pages

\* Writing a frame keeps the frame plane well typed.
LEMMA FrameType ==
    ASSUME FramesOK, next_frame
    PROVE  FramesOK'
<1>1. generation \in Nat /\ generation' = generation + 1
  BY DEF FramesOK, next_frame
<1>2. ASSUME NEW g \in frames' PROVE g \in 1..generation'
  <2>1. g \in 1..generation \/ g = generation + 1
    BY <1>2 DEF FramesOK, next_frame, write_frame
  <2>2. QED
    BY <1>1, <2>1
<1>3. QED
  BY <1>1, <1>2 DEF FramesOK

\* Write goes on where it was told to, or ends the session.
LEMMA WriteType ==
    ASSUME NEW msgs, NEW next, Write(msgs, next)
    PROVE  pc' \in {next, "ended"}
BY DEF Write

\* Storing the page of the tab being navigated, new or not.
LEMMA StoreType ==
    ASSUME TabsOK, NEW kind, NEW t, NEW p \in Pages, Store(kind, t, p),
           kind = "OpenTab" \/ t \in DOMAIN tabs
    PROVE  TabsOK'
BY PutType, OpenType DEF Store

\* A message that is read has a request number within the bound.
LEMMA ReadType ==
    ASSUME TypeOK, NEW kind, Read(kind)
    PROVE  requests' \in 0..MaxRequests /\ Req \in Requests /\ requests' = Req /\ Req \in 0..MaxRequests
BY SessionAssumption DEF TypeOK, LoopOK, Read, Req, Requests

\* A handler that leaves everything but the loop position alone.
LEMMA UnmovedType ==
    ASSUME TypeOK, Unmoved, requests' \in 0..MaxRequests,
           pc' \in {"handshake", "read", "drain", "ended"}
    PROVE  TypeOK'
<1>1. TabsOK'
  BY DEF TypeOK, TabsOK, Unmoved, tabVars
<1>2. FramesOK'
  BY DEF TypeOK, FramesOK, Unmoved, frameVars
<1>3. FetchOK'
  BY DEF TypeOK, FetchOK, Unmoved, fetchVars
<1>4. LoopOK'
  BY DEF TypeOK, LoopOK, Unmoved
<1>5. QED
  BY <1>1, <1>2, <1>3, <1>4 DEF TypeOK

\* Starting a navigation: its three outcomes keep the types.
LEMMA BeginType ==
    ASSUME TypeOK, NEW t \in TabIds, NEW r \in Requests, NEW kind \in Kinds,
           NEW url \in Urls, NEW p \in Pages,
           kind = "OpenTab" \/ t \in DOMAIN tabs,
           begin_gated_navigation(t, r, kind, url, p)
    PROVE  /\ TabsOK' /\ FramesOK' /\ FetchOK'
           /\ pc' \in {"drain", "ended"}
           /\ pending_nav_seq' \in [TabIds -> Nat]
<1>1. pending_nav_seq' \in [TabIds -> Nat]
  BY DEF TypeOK, LoopOK, begin_gated_navigation
<1>2. r \in 0..MaxRequests /\ p.size \in Sizes
  BY SessionAssumption DEF Requests, Pages
<1>3. CASE /\ url \in BuiltIn
           /\ Store(kind, t, Page(url, r, p.size))
           /\ reply_success(t, r, kind, Page(url, r, p.size))
           /\ UNCHANGED fetchVars
  <2>1. TabsOK'
    BY <1>2, <1>3, PageType, StoreType DEF TypeOK
  <2>2. FramesOK' /\ pc' \in {"drain", "ended"}
    BY <1>3, FrameType, WriteType DEF TypeOK, reply_success, send_frame
  <2>3. FetchOK'
    BY <1>3 DEF TypeOK, FetchOK, fetchVars
  <2>4. QED
    BY <1>1, <2>1, <2>2, <2>3
<1>4. CASE /\ url \in Invalid
           /\ Store(kind, t, p)
           /\ write_error(t, r)
           /\ UNCHANGED <<frameVars, fetchVars>>
  <2>1. TabsOK'
    BY <1>4, StoreType DEF TypeOK
  <2>2. pc' \in {"drain", "ended"}
    BY <1>4, WriteType DEF write_error
  <2>3. FramesOK' /\ FetchOK'
    BY <1>4 DEF TypeOK, FramesOK, FetchOK, frameVars, fetchVars
  <2>4. QED
    BY <1>1, <2>1, <2>2, <2>3
<1>5. CASE /\ url \in Web
           /\ Store(kind, t, p)
           /\ spawn(t, pending_nav_seq[t] + 1, r, kind, url)
           /\ pc' = "drain"
           /\ UNCHANGED <<completions, reviews, frameVars, out>>
  <2>1. TabsOK'
    BY <1>5, StoreType DEF TypeOK
  <2>2. FramesOK'
    BY <1>5 DEF TypeOK, FramesOK, frameVars
  <2>3. pending_nav_seq[t] + 1 \in Nat \ {0}
    BY DEF TypeOK, LoopOK
  <2>4. threads' \subseteq Jobs
    BY <1>5, <2>3 DEF TypeOK, FetchOK, spawn, Jobs, Calls
  <2>5. FetchOK'
    BY <1>5, <2>4 DEF TypeOK, FetchOK
  <2>6. QED
    BY <1>1, <1>5, <2>1, <2>2, <2>5
<1>6. QED
  BY <1>3, <1>4, <1>5 DEF begin_gated_navigation

-----------------------------------------------------------------------------
(* Every step preserves TypeOK.                                            *)

\* An addressing error keeps the types.
LEMMA UnknownTabType ==
    ASSUME TypeOK, NEW t, UnknownTab(t), requests' \in 0..MaxRequests
    PROVE  TypeOK'
BY UnmovedType, WriteType DEF UnknownTab, write_error

\* So does a query.
LEMMA QueryType ==
    ASSUME TypeOK, NEW t, NEW m, Query(t, m), requests' \in 0..MaxRequests
    PROVE  TypeOK'
BY UnmovedType, WriteType DEF Query

\* So does a handler that replies nothing.
LEMMA SilentType ==
    ASSUME TypeOK, Silently, Unmoved, requests' \in 0..MaxRequests
    PROVE  TypeOK'
BY UnmovedType DEF Silently

\* So does a repaint of an open tab.
LEMMA RepaintType ==
    ASSUME TypeOK, NEW t \in DOMAIN tabs, NEW p \in Pages, Repaint(t, p),
           requests' \in 0..MaxRequests
    PROVE  TypeOK'
<1>1. TabsOK'
  BY PutType DEF TypeOK, Repaint
<1>2. FramesOK' /\ pc' \in {"drain", "ended"}
  BY FrameType, WriteType DEF TypeOK, Repaint, send_frame
<1>3. FetchOK'
  BY DEF TypeOK, FetchOK, Repaint, fetchVars
<1>4. LoopOK'
  BY <1>2 DEF TypeOK, LoopOK, Repaint
<1>5. QED
  BY <1>1, <1>2, <1>3, <1>4 DEF TypeOK

\* A navigation started by any handler.
LEMMA NavigateType ==
    ASSUME TypeOK, NEW t \in TabIds, NEW kind \in Kinds, NEW url \in Urls, NEW p \in Pages,
           kind = "OpenTab" \/ t \in DOMAIN tabs,
           Req \in Requests, requests' \in 0..MaxRequests,
           begin_gated_navigation(t, Req, kind, url, p)
    PROVE  TypeOK'
<1>1. /\ TabsOK' /\ FramesOK' /\ FetchOK'
      /\ pc' \in {"drain", "ended"}
      /\ pending_nav_seq' \in [TabIds -> Nat]
  BY BeginType
<1>2. QED
  BY <1>1 DEF TypeOK, LoopOK

\* A click on an element, with and without listeners.
LEMMA ClickOnType ==
    ASSUME TypeOK, NEW t \in TabIds, t \in DOMAIN tabs, clickOn(t),
           Req \in Requests, requests' \in 0..MaxRequests
    PROVE  TypeOK'
<1>1. "Navigate" \in Kinds /\ tabs[t] \in Pages
  BY DEF Kinds, TypeOK, TabsOK
<1>2. CASE \E url \in Urls : begin_gated_navigation(t, Req, "Navigate", url, tabs[t])
  BY <1>1, <1>2, NavigateType
<1>3. CASE Silently /\ Unmoved
  BY <1>3, SilentType
<1>4. ASSUME NEW v \in Views, put(t, Viewed(t, v)), write_error(t, Req),
             UNCHANGED <<frameVars, fetchVars, pending_nav_seq>>
      PROVE  TypeOK'
  <2>1. TabsOK'
    BY <1>4, PutType, ViewedType DEF TypeOK
  <2>2. FramesOK' /\ FetchOK'
    BY <1>4 DEF TypeOK, FramesOK, FetchOK, frameVars, fetchVars
  <2>3. LoopOK'
    BY <1>4, WriteType DEF TypeOK, LoopOK, write_error
  <2>4. QED
    BY <2>1, <2>2, <2>3 DEF TypeOK
<1>5. ASSUME NEW v \in Views, Repaint(t, Viewed(t, v))
      PROVE  TypeOK'
  BY <1>5, ViewedType, RepaintType DEF TypeOK
<1>6. ASSUME NEW v \in Views, NEW url \in Urls,
             begin_gated_navigation(t, Req, "Navigate", url, Viewed(t, v))
      PROVE  TypeOK'
  BY <1>1, <1>6, ViewedType, NavigateType DEF TypeOK
<1>7. QED
  BY <1>2, <1>3, <1>4, <1>5, <1>6 DEF clickOn

\* Every client message's handler.
LEMMA HandleMessageType ==
    ASSUME TypeOK, HandleMessage
    PROVE  TypeOK'
<1>1. ASSUME NEW kind, Read(kind)
      PROVE  requests' \in 0..MaxRequests /\ Req \in Requests
  BY <1>1, ReadType
<1>2. CASE Hello
  <2>1. pc' \in {"drain", "ended"}
    BY <1>2, WriteType DEF Hello
  <2>2. QED
    BY <1>1, <1>2, <2>1, UnmovedType DEF Hello
<1>3. CASE ListTabs
  BY <1>1, <1>3, WriteType, UnmovedType DEF ListTabs
<1>4. CASE Shutdown
  BY <1>1, <1>4, UnmovedType DEF Shutdown
<1>5. CASE OpenBlankTab
  <2>1. TabsOK'
    BY <1>5, PageType, OpenType, SessionAssumption DEF OpenBlankTab, TypeOK, TabsOK
  <2>2. FramesOK' /\ FetchOK'
    BY <1>5 DEF OpenBlankTab, TypeOK, FramesOK, FetchOK, frameVars, fetchVars
  <2>3. LoopOK'
    BY <1>1, <1>5, WriteType DEF OpenBlankTab, TypeOK, LoopOK
  <2>4. QED
    BY <2>1, <2>2, <2>3 DEF TypeOK
<1>6. ASSUME NEW kind, Ignored(kind) PROVE TypeOK'
  BY <1>1, <1>6, SilentType DEF Ignored
<1>7. ASSUME NEW url \in Urls, OpenTab(url) PROVE TypeOK'
  <2>1. Page(NoUrl, 0, viewport) \in Pages /\ "OpenTab" \in Kinds
    BY PageType, SessionAssumption DEF TypeOK, TabsOK, Kinds
  <2>2. QED
    BY <1>1, <1>7, <2>1, NavigateType DEF OpenTab
<1>8. ASSUME NEW t \in TabIds, NEW url \in Urls, Navigate(t, url) PROVE TypeOK'
  <2>1. requests' \in 0..MaxRequests /\ Req \in Requests
    BY <1>1, <1>8 DEF Navigate
  <2>2. CASE Live(t) /\ begin_gated_navigation(t, Req, "Navigate", url, tabs[t])
    <3>1. t \in DOMAIN tabs /\ tabs[t] \in Pages /\ "Navigate" \in Kinds
      BY <2>2 DEF Live, TypeOK, TabsOK, Kinds
    <3>2. QED
      BY <2>1, <2>2, <3>1, NavigateType
  <2>3. CASE UnknownTab(t)
    BY <2>1, <2>3, UnknownTabType
  <2>4. QED
    BY <1>8, <2>2, <2>3 DEF Navigate
<1>9. ASSUME NEW t \in TabIds, NEW size \in Sizes, Resize(t, size) PROVE TypeOK'
  <2>1. TabsOK'
    BY <1>9, ResizeType DEF Resize, TypeOK
  <2>2. FramesOK' /\ pc' \in {"drain", "ended"}
    <3>1. CASE Live(t)
      BY <1>9, <3>1, FrameType, WriteType DEF Resize, TypeOK, send_frame
    <3>2. CASE ~Live(t)
      BY <1>9, <3>2, WriteType DEF Resize, TypeOK, write_error, FramesOK, frameVars
    <3>3. QED
      BY <3>1, <3>2
  <2>3. FetchOK'
    BY <1>9 DEF Resize, TypeOK, FetchOK, fetchVars
  <2>4. LoopOK'
    BY <1>1, <1>9, <2>2 DEF Resize, TypeOK, LoopOK
  <2>5. QED
    BY <2>1, <2>2, <2>3, <2>4 DEF TypeOK
<1>10. ASSUME NEW t \in TabIds, Click(t) PROVE TypeOK'
  BY <1>1, <1>10, UnknownTabType, ClickOnType DEF Click, Live
<1>11. ASSUME NEW t \in TabIds, ActOn(t) PROVE TypeOK'
  <2>1. requests' \in 0..MaxRequests /\ Req \in Requests
    BY <1>1, <1>11 DEF ActOn
  <2>2. ASSUME Live(t), NEW v \in Views, Repaint(t, Viewed(t, v)) PROVE TypeOK'
    BY <2>1, <2>2, ViewedType, RepaintType DEF Live, TypeOK
  <2>3. QED
    BY <1>11, <2>1, <2>2, UnknownTabType, ClickOnType DEF ActOn, Live
<1>12. ASSUME NEW t \in TabIds, Scroll(t) \/ Highlight(t) PROVE TypeOK'
  <2>1. requests' \in 0..MaxRequests
    BY <1>1, <1>12 DEF Scroll, Highlight
  <2>2. ASSUME Live(t), NEW v \in Views, Repaint(t, Viewed(t, v)) PROVE TypeOK'
    BY <2>1, <2>2, ViewedType, RepaintType DEF Live, TypeOK
  <2>3. QED
    BY <1>12, <2>1, <2>2, UnknownTabType DEF Scroll, Highlight
<1>13. ASSUME NEW t \in TabIds, Hover(t) PROVE TypeOK'
  BY <1>1, <1>13, UnknownTabType, SilentType DEF Hover
<1>14. ASSUME NEW t \in TabIds,
              GetRepresentation(t) \/ GetDom(t) \/ GetScriptReports(t)
       PROVE  TypeOK'
  <2>1. requests' \in 0..MaxRequests
    BY <1>1, <1>14 DEF GetRepresentation, GetDom, GetScriptReports
  <2>2. QED
    BY <1>14, <2>1, UnknownTabType, QueryType DEF GetRepresentation, GetDom, GetScriptReports
<1>15. ASSUME NEW t \in TabIds, CloseTab(t) PROVE TypeOK'
  <2>1. requests' \in 0..MaxRequests
    BY <1>1, <1>15 DEF CloseTab
  <2>2. CASE UnknownTab(t)
    BY <2>1, <2>2, UnknownTabType
  <2>3. CASE /\ close_tab(t)
             /\ Write(<<Message("TabClosed", t, Req)>>, "drain")
             /\ UNCHANGED <<frameVars, fetchVars, pending_nav_seq>>
    <3>1. TabsOK'
      BY <2>3, CloseType DEF TypeOK
    <3>2. FramesOK' /\ FetchOK'
      BY <2>3 DEF TypeOK, FramesOK, FetchOK, frameVars, fetchVars
    <3>3. LoopOK'
      BY <2>1, <2>3, WriteType DEF TypeOK, LoopOK
    <3>4. QED
      BY <3>1, <3>2, <3>3 DEF TypeOK
  <2>4. QED
    BY <1>15, <2>2, <2>3 DEF CloseTab
<1>16. QED
  BY <1>2, <1>3, <1>4, <1>5, <1>6, <1>7, <1>8, <1>9, <1>10, <1>11, <1>12, <1>13,
     <1>14, <1>15 DEF HandleMessage

\* Applying the oldest completion.
LEMMA DrainType ==
    ASSUME TypeOK, Drain
    PROVE  TypeOK'
<1> DEFINE c == Head(completions)
<1>1. c \in Jobs /\ completions' \in Seq({d \in Jobs : d.at \in Outcomes})
  BY DEF Drain, TypeOK, FetchOK
<1>2. FetchOK'
  BY <1>1 DEF Drain, TypeOK, FetchOK
<1>3. CASE ~Current(c) /\ UNCHANGED <<tabVars, frameVars, pc, out>>
  <2>1. TabsOK' /\ FramesOK'
    BY <1>3 DEF TypeOK, TabsOK, FramesOK, tabVars, frameVars
  <2>2. LoopOK'
    BY <1>3 DEF Drain, TypeOK, LoopOK
  <2>3. QED
    BY <1>2, <2>1, <2>2 DEF TypeOK
<1>4. ASSUME Current(c), NEW p \in Fetched(c), put(c.tab, p),
             reply_success(c.tab, c.req, c.kind, p)
      PROVE  TypeOK'
  <2>1. c.tab \in DOMAIN tabs
    BY <1>4 DEF Current, Live
  <2>2. PICK v \in Views : p = [Page(c.url, c.req, tabs[c.tab].size) EXCEPT !.view = v]
    BY <1>4, TabsAssumption DEF Fetched
  <2>3. p \in Pages
    <3>1. c.url \in Urls /\ c.req \in 0..MaxRequests
      BY <1>1, SessionAssumption DEF Jobs, Web, Requests
    <3>2. tabs[c.tab].size \in Sizes
      BY <2>1 DEF TypeOK, TabsOK, Pages
    <3>3. QED
      BY <2>2, <3>1, <3>2 DEF Page, Pages
  <2>4. TabsOK'
    BY <1>4, <2>1, <2>3, PutType DEF TypeOK
  <2>5. FramesOK' /\ pc' \in {"drain", "ended"}
    BY <1>4, FrameType, WriteType DEF TypeOK, reply_success, send_frame
  <2>6. LoopOK'
    BY <2>5 DEF Drain, TypeOK, LoopOK
  <2>7. QED
    BY <1>2, <2>4, <2>5, <2>6 DEF TypeOK
<1>5. CASE /\ \/ Write(<<Message("GatekeeperBlocked", c.tab, c.req)>>, "drain")
              \/ write_error(c.tab, c.req)
           /\ UNCHANGED <<tabVars, frameVars>>
  <2>1. TabsOK' /\ FramesOK'
    BY <1>5 DEF TypeOK, TabsOK, FramesOK, tabVars, frameVars
  <2>2. pc' \in {"drain", "ended"}
    BY <1>5, WriteType DEF write_error
  <2>3. LoopOK'
    BY <2>2 DEF Drain, TypeOK, LoopOK
  <2>4. QED
    BY <1>2, <2>1, <2>3 DEF TypeOK
<1>6. QED
  BY <1>3, <1>4, <1>5 DEF Drain, apply_completion

\* Going around the loop.
LEMMA EndTurnType ==
    ASSUME TypeOK, EndTurn
    PROVE  TypeOK'
<1>1. TabsOK'
  <2>1. CASE UNCHANGED tabVars
    BY <2>1 DEF TypeOK, TabsOK, tabVars
  <2>2. ASSUME NEW t \in DOMAIN tabs, NEW v \in Views, put(t, Viewed(t, v)) PROVE TabsOK'
    BY <2>2, PutType, ViewedType DEF TypeOK
  <2>3. QED
    BY <2>1, <2>2 DEF EndTurn
<1>2. FramesOK' /\ FetchOK'
  BY DEF EndTurn, TypeOK, FramesOK, FetchOK, frameVars, fetchVars
<1>3. LoopOK'
  BY DEF EndTurn, TypeOK, LoopOK
<1>4. QED
  BY <1>1, <1>2, <1>3 DEF TypeOK

\* A step of a background thread.
LEMMA ThreadType ==
    ASSUME TypeOK, NEW j \in threads, Elsewhere,
           CheckUrl(j) \/ CheckContent(j) \/ fetch(j) \/ send(j, pc # "ended")
    PROVE  TypeOK'
<1>1. TabsOK' /\ FramesOK' /\ LoopOK'
  BY DEF Elsewhere, TypeOK, TabsOK, FramesOK, LoopOK, tabVars, frameVars
<1>2. j \in Jobs
  BY DEF TypeOK, FetchOK
<1>3. ASSUME NEW at \in Calls \cup Outcomes, Goto(j, at)
      PROVE  threads' \subseteq Jobs
  <2>1. [j EXCEPT !.at = at] \in Jobs
    BY <1>2 DEF Jobs
  <2>2. QED
    BY <1>3, <2>1 DEF Goto, TypeOK, FetchOK
<1>4. CASE CheckUrl(j) \/ CheckContent(j)
  <2>1. PICK stage \in Both, reply \in GatekeeperReplies, at \in {"fetch", "Cleared"} :
            check_stage(j, stage, reply, at)
    BY <1>4 DEF CheckUrl, CheckContent, Both
  <2>2. threads' \subseteq Jobs
    BY <1>3, <2>1 DEF check_stage, Calls, Outcomes
  <2>3. reviews' \subseteq Requests \X Both
    BY <1>2, <2>1 DEF check_stage, Jobs, TypeOK, FetchOK
  <2>4. FetchOK'
    BY <2>1, <2>2, <2>3 DEF check_stage, TypeOK, FetchOK
  <2>5. QED
    BY <1>1, <2>4 DEF TypeOK
<1>5. CASE fetch(j)
  <2>1. threads' \subseteq Jobs
    BY <1>3, <1>5 DEF fetch, Calls, Outcomes
  <2>2. FetchOK'
    BY <1>5, <2>1 DEF fetch, TypeOK, FetchOK
  <2>3. QED
    BY <1>1, <2>2 DEF TypeOK
<1>6. CASE send(j, pc # "ended")
  <2>1. FetchOK'
    BY <1>2, <1>6 DEF send, TypeOK, FetchOK
  <2>2. QED
    BY <1>1, <2>1 DEF TypeOK
<1>7. QED
  BY <1>4, <1>5, <1>6

\* The initial state is well typed.
LEMMA InitType == Init => TypeOK
<1> SUFFICES ASSUME Init PROVE TypeOK
  OBVIOUS
<1>1. Page(NoUrl, 0, InitialSize) \in Pages
  BY PageType, TabsAssumption, SessionAssumption
<1>2. TabsOK
  BY <1>1, TabsAssumption DEF Init, new, TabsOK, DefaultTab
<1>3. FramesOK /\ FetchOK /\ LoopOK
  BY SessionAssumption DEF Init, FramesOK, FetchOK, LoopOK
<1>4. QED
  BY <1>2, <1>3 DEF TypeOK

\* Every step, and every stuttering step, preserves TypeOK.
LEMMA NextType == TypeOK /\ [Next]_vars => TypeOK'
<1> SUFFICES ASSUME TypeOK, [Next]_vars PROVE TypeOK'
  OBVIOUS
<1>1. CASE HandleMessage
  BY <1>1, HandleMessageType
<1>2. CASE Handshake
  <2>1. pc' \in {"read", "ended"}
    BY <1>2, WriteType DEF Handshake
  <2>2. QED
    BY <1>2, <2>1, UnmovedType DEF Handshake, TypeOK, LoopOK
<1>3. CASE Timeout
  BY <1>3, SilentType DEF Timeout, TypeOK, LoopOK
<1>4. CASE Disconnect
  BY <1>4, UnmovedType DEF Disconnect, TypeOK, LoopOK
<1>5. CASE Drain \/ EndTurn
  BY <1>5, DrainType, EndTurnType
<1>6. CASE Gatekeeper \/ Network \/ Sender
  BY <1>6, ThreadType DEF Gatekeeper, Network, Sender
<1>7. CASE UNCHANGED vars
  BY <1>7 DEF vars, TypeOK, TabsOK, FramesOK, FetchOK, LoopOK, tabVars, frameVars, fetchVars
<1>8. QED
  BY <1>1, <1>2, <1>3, <1>4, <1>5, <1>6, <1>7 DEF Next, Loop, Ended

\* The session's state always has the shape the code's types give it.
THEOREM TypeCorrect == Spec => []TypeOK
BY InitType, NextType, PTL DEF Spec
=============================================================================
