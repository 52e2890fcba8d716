-------------------------- MODULE NavigationProofs --------------------------
(***************************************************************************)
(* Proofs that a session shows only reviewed content, that a tab never     *)
(* goes back to the document of an earlier request, and that Session       *)
(* implements Navigation, for any number of tabs, requests and concurrent  *)
(* fetches.                                                                *)
(*                                                                         *)
(* What a step does to the documents shown and to the navigations in       *)
(* flight falls into four kinds: it leaves both alone (Quiet), it starts a *)
(* navigation (Began), it applies a completion (Drain), or it moves one    *)
(* background thread.                                                      *)
(***************************************************************************)
EXTENDS SessionProofs

\* Every open tab keeps its document; a tab that opens is blank.
Kept ==
    \A t \in DOMAIN tabs' :
        IF t \in DOMAIN tabs
        THEN tabs'[t].by = tabs[t].by /\ tabs'[t].url = tabs[t].url
        ELSE tabs'[t].by = 0

\* The tabs stay open, one opens under the next id, or one closes.
SameTabs == DOMAIN tabs' = DOMAIN tabs /\ UNCHANGED next_tab_id
OneOpens ==
    /\ next_tab_id \in TabIds
    /\ DOMAIN tabs' = DOMAIN tabs \cup {next_tab_id}
    /\ next_tab_id' = next_tab_id + 1
OneCloses ==
    /\ \E t \in DOMAIN tabs : DOMAIN tabs' = DOMAIN tabs \ {t}
    /\ UNCHANGED next_tab_id

Quiet ==
    /\ Kept
    /\ UNCHANGED <<fetchVars, pending_nav_seq>>
    /\ \/ requests' \in {requests, requests + 1} /\ SameTabs
       \/ requests' = requests + 1 /\ (OneOpens \/ OneCloses)

Began(t, kind, url, p) ==
    /\ begin_gated_navigation(t, Req, kind, url, p)
    /\ requests' = Req
    /\ \/ kind = "OpenTab" /\ t = next_tab_id /\ p.by = 0
       \/ kind = "Navigate" /\ t \in DOMAIN tabs /\ p.by = tabs[t].by /\ p.url = tabs[t].url

SomethingBegan == \E t \in TabIds, kind \in Kinds, url \in Urls, p \in Pages : Began(t, kind, url, p)

-----------------------------------------------------------------------------
(* Quiet steps.                                                            *)

\* Changing how an open page looks keeps its document.
LEMMA PutKept ==
    ASSUME TypeOK, NEW t \in DOMAIN tabs, NEW p,
           p.by = tabs[t].by, p.url = tabs[t].url, put(t, p)
    PROVE  Kept /\ SameTabs
BY Zenon DEF Kept, put, WithPage, SameTabs

\* So does leaving the tabs alone.
LEMMA SameKept ==
    ASSUME UNCHANGED tabVars
    PROVE  Kept /\ SameTabs
BY DEF Kept, tabVars, SameTabs

\* Another view of a page is the same document.
LEMMA ViewedSame ==
    ASSUME TypeOK, NEW t \in DOMAIN tabs, NEW v \in Views
    PROVE  Viewed(t, v).by = tabs[t].by /\ Viewed(t, v).url = tabs[t].url
BY DEF TypeOK, TabsOK, Pages, Viewed

\* Closing a tab keeps the documents of the others.
LEMMA CloseKept ==
    ASSUME NEW t \in DOMAIN tabs, close_tab(t)
    PROVE  Kept /\ OneCloses
BY Zenon DEF Kept, close_tab, OneCloses

\* Resizing keeps every document.
LEMMA ResizeKept ==
    ASSUME TypeOK, NEW t, NEW size \in Sizes, resize(t, size)
    PROVE  Kept /\ SameTabs
BY Zenon DEF TypeOK, TabsOK, Pages, Kept, resize, WithPage, Live, SameTabs

\* A new blank tab comes under an id that no open tab has.
LEMMA OpenKept ==
    ASSUME TypeOK, NEW p, p.by = 0, open_tab(p)
    PROVE  Kept /\ OneOpens
BY DEF TypeOK, TabsOK, Kept, open_tab, WithPage, OneOpens

\* Handlers that only reply.
LEMMA UnmovedQuiet ==
    ASSUME Unmoved, requests' \in {requests, requests + 1}
    PROVE  Quiet
BY SameKept DEF Quiet, Unmoved

\* Handlers that repaint an open tab.
LEMMA RepaintQuiet ==
    ASSUME TypeOK, NEW t \in DOMAIN tabs, NEW v \in Views, Repaint(t, Viewed(t, v)),
           requests' = requests + 1
    PROVE  Quiet
BY ViewedSame, PutKept, Zenon DEF Quiet, Repaint

\* A click changes no document itself; it may start a navigation.
LEMMA ClickOnEffect ==
    ASSUME TypeOK, NEW t \in TabIds, t \in DOMAIN tabs, clickOn(t), requests' = Req
    PROVE  Quiet \/ SomethingBegan
<1>1. tabs[t] \in Pages /\ "Navigate" \in Kinds
  BY DEF TypeOK, TabsOK, Kinds
<1>2. ASSUME NEW url \in Urls, begin_gated_navigation(t, Req, "Navigate", url, tabs[t])
      PROVE  SomethingBegan
  BY <1>1, <1>2 DEF SomethingBegan, Began
<1>3. CASE Silently /\ Unmoved
  BY <1>3, UnmovedQuiet DEF Req
<1>4. ASSUME NEW v \in Views, put(t, Viewed(t, v)),
             UNCHANGED <<frameVars, fetchVars, pending_nav_seq>>
      PROVE  Quiet
  BY <1>4, ViewedSame, PutKept DEF Quiet, Req
<1>5. ASSUME NEW v \in Views, Repaint(t, Viewed(t, v))
      PROVE  Quiet
  BY <1>5, RepaintQuiet DEF Req
<1>6. ASSUME NEW v \in Views, NEW url \in Urls,
             begin_gated_navigation(t, Req, "Navigate", url, Viewed(t, v))
      PROVE  SomethingBegan
  BY <1>1, <1>6, ViewedSame, ViewedType, Zenon DEF SomethingBegan, Began, TypeOK
<1>7. QED
  BY <1>2, <1>3, <1>4, <1>5, <1>6, Zenon DEF clickOn

\* A client message is quiet or starts one navigation.
LEMMA HandleMessageEffect ==
    ASSUME TypeOK, HandleMessage
    PROVE  Quiet \/ SomethingBegan
<1>1. ASSUME NEW kind, Read(kind) PROVE requests' = requests + 1 /\ requests' = Req
  BY <1>1 DEF Read, Req
<1>2. CASE Hello \/ ListTabs \/ Shutdown \/ \E kind \in {"Chrome", "Unknown"} : Ignored(kind)
  BY <1>1, <1>2, UnmovedQuiet DEF Hello, ListTabs, Shutdown, Ignored
<1>3. CASE OpenBlankTab
  <2>1. Page(NoUrl, 0, viewport).by = 0
    BY Zenon DEF Page
  <2>2. QED
    BY <1>1, <1>3, <2>1, OpenKept, Zenon DEF OpenBlankTab, Quiet
<1>4. ASSUME NEW url \in Urls, OpenTab(url) PROVE SomethingBegan
  <2>1. Page(NoUrl, 0, viewport) \in Pages /\ "OpenTab" \in Kinds
    BY PageType, SessionAssumption DEF TypeOK, TabsOK, Kinds
  <2>2. Page(NoUrl, 0, viewport).by = 0
    BY Zenon DEF Page
  <2>3. QED
    BY <1>1, <1>4, <2>1, <2>2 DEF OpenTab, SomethingBegan, Began
<1>5. ASSUME NEW t \in TabIds, UnknownTab(t), requests' = requests + 1 PROVE Quiet
  BY <1>5, UnmovedQuiet DEF UnknownTab
<1>6. ASSUME NEW t \in TabIds, NEW url \in Urls, Navigate(t, url) PROVE Quiet \/ SomethingBegan
  <2>1. CASE Live(t) /\ begin_gated_navigation(t, Req, "Navigate", url, tabs[t])
    <3>1. t \in DOMAIN tabs /\ tabs[t] \in Pages /\ "Navigate" \in Kinds
      BY <2>1, Zenon DEF Live, TypeOK, TabsOK, Kinds
    <3>2. requests' = Req
      BY <1>1, <1>6, Zenon DEF Navigate
    <3>3. QED
      BY <2>1, <3>1, <3>2, Zenon DEF SomethingBegan, Began
  <2>2. QED
    BY <1>1, <1>5, <1>6, <2>1, Zenon DEF Navigate
<1>7. ASSUME NEW t \in TabIds, NEW size \in Sizes, Resize(t, size) PROVE Quiet
  BY <1>1, <1>7, ResizeKept DEF Resize, Quiet
<1>8. ASSUME NEW t \in TabIds, Click(t) \/ ActOn(t) PROVE Quiet \/ SomethingBegan
  <2>1. requests' = requests + 1 /\ requests' = Req
    BY <1>1, <1>8 DEF Click, ActOn
  <2>2. QED
    BY <1>5, <1>8, <2>1, ClickOnEffect, RepaintQuiet, Zenon DEF Click, ActOn, Live
<1>9. ASSUME NEW t \in TabIds, Scroll(t) \/ Highlight(t) PROVE Quiet
  <2>1. requests' = requests + 1
    BY <1>1, <1>9, Zenon DEF Scroll, Highlight
  <2>2. QED
    BY <1>5, <1>9, <2>1, RepaintQuiet, Zenon DEF Scroll, Highlight, Live
<1>10. ASSUME NEW t \in TabIds,
              Hover(t) \/ GetRepresentation(t) \/ GetDom(t) \/ GetScriptReports(t)
       PROVE  Quiet
  <2>1. requests' = requests + 1
    BY <1>1, <1>10 DEF Hover, GetRepresentation, GetDom, GetScriptReports
  <2>2. Unmoved
    BY <1>10, Zenon DEF Hover, GetRepresentation, GetDom, GetScriptReports, UnknownTab, Query
  <2>3. QED
    BY <2>1, <2>2, UnmovedQuiet
<1>11. ASSUME NEW t \in TabIds, CloseTab(t) PROVE Quiet
  <2>1. requests' = requests + 1
    BY <1>1, <1>11, Zenon DEF CloseTab
  <2>2. QED
    BY <1>5, <1>11, <2>1, CloseKept DEF CloseTab, Quiet, Live
<1>12. QED
  BY <1>2, <1>3, <1>4, <1>6, <1>7, <1>8, <1>9, <1>10, <1>11, Zenon DEF HandleMessage

\* Every step is of one of the four kinds.
LEMMA StepEffect ==
    ASSUME TypeOK, [Next]_vars
    PROVE  \/ Quiet
           \/ SomethingBegan
           \/ Drain
           \/ \E j \in threads :
                 /\ CheckUrl(j) \/ CheckContent(j) \/ fetch(j) \/ send(j, pc # "ended")
                 /\ Elsewhere
<1>1. CASE HandleMessage
  BY <1>1, HandleMessageEffect, Zenon
<1>2. CASE Handshake \/ Timeout \/ Disconnect
  BY <1>2, UnmovedQuiet, Zenon DEF Handshake, Timeout, Disconnect
<1>3. CASE EndTurn
  <2>1. Kept /\ SameTabs
    BY <1>3, SameKept, PutKept, ViewedSame, Zenon DEF EndTurn
  <2>2. QED
    BY <1>3, <2>1 DEF EndTurn, Quiet
<1>4. CASE Gatekeeper \/ Network \/ Sender
  BY <1>4 DEF Gatekeeper, Network, Sender
<1>5. CASE UNCHANGED vars
  BY <1>5, UnmovedQuiet, Zenon DEF vars, Unmoved
<1>6. QED
  BY <1>1, <1>2, <1>3, <1>4, <1>5, Zenon DEF Next, Loop, Ended

-----------------------------------------------------------------------------
(* The other three kinds of step.                                          *)

\* The thread a navigation of tab t that needs the network is handed to.
NewJob(t, kind, url) ==
    [tab |-> t, seq |-> pending_nav_seq[t] + 1, req |-> Req, kind |-> kind,
     url |-> url, at |-> "CheckUrl"]

\* Starting a navigation: the tab shows a built-in page or what it showed
\* before, the other tabs are left alone, and at most one thread is new.
LEMMA BeganEffect ==
    ASSUME TypeOK, NEW t \in TabIds, NEW kind \in Kinds, NEW url \in Urls, NEW p \in Pages,
           Began(t, kind, url, p)
    PROVE  /\ \A u \in DOMAIN tabs' : u # t => u \in DOMAIN tabs /\ tabs'[u] = tabs[u]
           /\ \/ url \in BuiltIn /\ tabs'[t].by = Req /\ tabs'[t].url = url
              \/ t \in DOMAIN tabs /\ tabs'[t].by = tabs[t].by /\ tabs'[t].url = tabs[t].url
              \/ t \notin DOMAIN tabs /\ tabs'[t].by = 0
           /\ pending_nav_seq' = [pending_nav_seq EXCEPT ![t] = @ + 1]
           /\ UNCHANGED <<completions, reviews>>
           /\ threads' = threads \/ threads' = threads \cup {NewJob(t, kind, url)}
           /\ DOMAIN tabs' = DOMAIN tabs \cup {t}
           /\ next_tab_id' = IF kind = "OpenTab" THEN next_tab_id + 1 ELSE next_tab_id
<1>1. ASSUME NEW q, Store(kind, t, q)
      PROVE  /\ \A u \in DOMAIN tabs' : u # t => u \in DOMAIN tabs /\ tabs'[u] = tabs[u]
             /\ tabs'[t] = q
             /\ DOMAIN tabs' = DOMAIN tabs \cup {t}
             /\ next_tab_id' = IF kind = "OpenTab" THEN next_tab_id + 1 ELSE next_tab_id
  <2>1. kind = "OpenTab" => t = next_tab_id
    BY Zenon DEF Began
  <2>2. tabs' = WithPage(t, q)
    BY <1>1, <2>1 DEF Store, open_tab, put
  <2>3. next_tab_id' = IF kind = "OpenTab" THEN next_tab_id + 1 ELSE next_tab_id
    BY <1>1, Zenon DEF Store, open_tab, put
  <2>4. QED
    BY <2>2, <2>3 DEF WithPage
<1>2. \/ t \in DOMAIN tabs /\ p.by = tabs[t].by /\ p.url = tabs[t].url
      \/ t \notin DOMAIN tabs /\ p.by = 0
  BY DEF Began, TypeOK, TabsOK
<1>3. pending_nav_seq' = [pending_nav_seq EXCEPT ![t] = @ + 1]
  BY Zenon DEF Began, begin_gated_navigation
<1>4. CASE /\ url \in BuiltIn
           /\ Store(kind, t, Page(url, Req, p.size))
           /\ UNCHANGED fetchVars
  <2>1. Page(url, Req, p.size).by = Req /\ Page(url, Req, p.size).url = url
    BY Zenon DEF Page
  <2>2. QED
    BY <1>1, <1>3, <1>4, <2>1, Zenon DEF fetchVars
<1>5. CASE Store(kind, t, p) /\ UNCHANGED <<frameVars, fetchVars>>
  BY <1>1, <1>2, <1>3, <1>5, Zenon DEF fetchVars
<1>6. CASE /\ Store(kind, t, p)
           /\ spawn(t, pending_nav_seq[t] + 1, Req, kind, url)
           /\ UNCHANGED <<completions, reviews, frameVars, out>>
  <2>1. threads' = threads \cup {NewJob(t, kind, url)}
    BY <1>6, Zenon DEF spawn, NewJob
  <2>2. QED
    BY <1>1, <1>2, <1>3, <1>6, <2>1, Zenon
<1>7. QED
  BY <1>4, <1>5, <1>6, Zenon DEF Began, begin_gated_navigation

\* Every unfinished navigation is well typed.
LEMMA UnfinishedType ==
    ASSUME TypeOK
    PROVE  Unfinished \subseteq Jobs
BY DEF TypeOK, FetchOK, Unfinished, InChannel

\* After a navigation starts, every navigation in flight but the new one was
\* in flight before.
LEMMA BeganUnfinished ==
    ASSUME NEW t, NEW kind, NEW url, UNCHANGED completions,
           threads' = threads \/ threads' = threads \cup {NewJob(t, kind, url)}
    PROVE  \A c \in Unfinished' : c \in Unfinished \/ c = NewJob(t, kind, url)
BY SMT DEF Unfinished, InChannel

\* Draining takes one completion out of the channel and adds none.
LEMMA DrainUnfinished ==
    ASSUME TypeOK, Drain
    PROVE  /\ Head(completions) \in InChannel
           /\ Unfinished' \subseteq Unfinished
<1>1. completions # <<>> /\ completions' = Tail(completions) /\ threads' = threads
  BY Zenon DEF Drain
<1>2. \A i \in DOMAIN Tail(completions) :
          i + 1 \in DOMAIN completions /\ Tail(completions)[i] = completions[i + 1]
  BY <1>1 DEF TypeOK, FetchOK
<1>3. Head(completions) = completions[1] /\ 1 \in DOMAIN completions
  BY <1>1, SMT DEF FetchOK
<1>4. QED
  BY <1>1, <1>2, <1>3, SMT DEF Unfinished, InChannel

\* It takes no other out.
LEMMA DrainRest ==
    ASSUME TypeOK, Drain
    PROVE  \A d \in Unfinished : d \in Unfinished' \/ d = Head(completions)
<1>1. completions # <<>> /\ completions' = Tail(completions) /\ threads' = threads
  BY Zenon DEF Drain
<1>2. ASSUME NEW i \in DOMAIN completions, i # 1
      PROVE  i - 1 \in DOMAIN Tail(completions) /\ Tail(completions)[i - 1] = completions[i]
  BY <1>1, <1>2, SMT DEF TypeOK, FetchOK
<1>3. Head(completions) = completions[1]
  BY <1>1, SMT DEF TypeOK
<1>4. QED
  BY <1>1, <1>2, <1>3, SMT DEF Unfinished, InChannel

\* A completion changes no page, or shows its document in its own tab: then
\* it is the newest navigation of an open tab, cleared by the gatekeeper.
LEMMA DrainEffect ==
    ASSUME TypeOK, Drain
    PROVE  \/ UNCHANGED tabs
           \/ LET c == Head(completions)
              IN  /\ Current(c) /\ c.at = "Cleared"
                  /\ DOMAIN tabs' = DOMAIN tabs
                  /\ tabs'[c.tab].by = c.req /\ tabs'[c.tab].url = c.url
                  /\ \A u \in DOMAIN tabs : u # c.tab => tabs'[u] = tabs[u]
<1> DEFINE c == Head(completions)
<1>1. ASSUME Current(c), c.at = "Cleared", NEW p \in Fetched(c), put(c.tab, p)
      PROVE  /\ DOMAIN tabs' = DOMAIN tabs
             /\ tabs'[c.tab].by = c.req /\ tabs'[c.tab].url = c.url
             /\ \A u \in DOMAIN tabs : u # c.tab => tabs'[u] = tabs[u]
  <2>1. c.tab \in DOMAIN tabs
    BY <1>1, Zenon DEF Current, Live
  <2>2. p.by = c.req /\ p.url = c.url
    BY Zenon DEF Fetched, Page
  <2>3. QED
    BY <1>1, <2>1, <2>2, Zenon DEF put, WithPage
<1>2. QED
  BY <1>1, Zenon DEF Drain, apply_completion, tabVars

\* A thread's step keeps which navigation it works for; it moves past a stage
\* only with that stage's clearance.
LEMMA ThreadEffect ==
    ASSUME TypeOK, NEW j \in threads,
           CheckUrl(j) \/ CheckContent(j) \/ fetch(j) \/ send(j, pc # "ended")
    PROVE  /\ reviews \subseteq reviews'
           /\ \A c \in Unfinished' :
                 \/ c \in Unfinished
                 \/ /\ c.tab = j.tab /\ c.seq = j.seq /\ c.req = j.req
                    /\ \/ j.at = "CheckUrl" /\ c.at = "fetch" /\ <<j.req, "CheckUrl">> \in reviews'
                       \/ j.at = "fetch" /\ c.at = "CheckContent"
                       \/ /\ j.at = "CheckContent" /\ c.at = "Cleared"
                          /\ <<j.req, "CheckContent">> \in reviews'
                       \/ c.at \in {"GatekeeperBlocked", "FetchFailed"}
<1>0. j \in Jobs
  BY DEF TypeOK, FetchOK
<1>1. ASSUME NEW at, Goto(j, at), UNCHANGED completions
      PROVE  \A c \in Unfinished' :
                c \in Unfinished \/
                (c.tab = j.tab /\ c.seq = j.seq /\ c.req = j.req /\ c.at = at)
  BY <1>0, <1>1 DEF Goto, Unfinished, InChannel, Jobs
<1>2. CASE CheckUrl(j)
  BY <1>1, <1>2, SMT DEF CheckUrl, check_stage
<1>3. CASE CheckContent(j)
  BY <1>1, <1>3 DEF CheckContent, check_stage
<1>4. CASE fetch(j)
  BY <1>1, <1>4 DEF fetch
<1>5. CASE send(j, pc # "ended")
  <2>1. completions' = completions \/ completions' = Append(completions, j)
    BY <1>5, Zenon DEF send
  <2>2. \A c \in InChannel' : c \in InChannel \/ c = j
    BY <2>1 DEF InChannel
  <2>3. QED
    BY <1>5, <2>2 DEF send, Unfinished
<1>6. QED
  BY <1>2, <1>3, <1>4, <1>5, Zenon

-----------------------------------------------------------------------------
(* Only reviewed content is shown.                                         *)

\* Every step preserves ReviewInv.
LEMMA ReviewStep ==
    ASSUME TypeOK, ReviewInv, [Next]_vars
    PROVE  ReviewInv'
<1>1. ASSUME NEW c \in Unfinished, reviews \subseteq reviews' PROVE Reviewed(c)'
  BY <1>1 DEF ReviewInv, Reviewed
<1>2. ASSUME NEW t \in DOMAIN tabs, t \in DOMAIN tabs', reviews \subseteq reviews',
             tabs'[t].by = tabs[t].by, tabs'[t].url = tabs[t].url
      PROVE  Trusted(tabs[t])'
  <2>1. Trusted(tabs[t])
    BY Zenon DEF ReviewInv, OnlyReviewedContent
  <2>2. QED
    BY <1>2, <2>1 DEF Trusted
<1>3. CASE Quiet
  <2>1. UNCHANGED <<threads, completions, reviews>>
    BY <1>3, Zenon DEF Quiet, fetchVars
  <2>2. ASSUME NEW c \in Unfinished' PROVE Reviewed(c)'
    BY <1>1, <2>1, Zenon DEF Unfinished, InChannel
  <2>3. ASSUME NEW t \in DOMAIN tabs' PROVE Trusted(tabs[t])'
    <3>1. CASE t \in DOMAIN tabs
      BY <1>2, <1>3, <2>1, <3>1 DEF Quiet, Kept
    <3>2. CASE t \notin DOMAIN tabs
      BY <1>3, <3>2, SMT DEF Quiet, Kept, Trusted
    <3>3. QED
      BY <3>1, <3>2
  <2>4. QED
    BY <2>2, <2>3 DEF ReviewInv, OnlyReviewedContent
<1>4. ASSUME NEW t \in TabIds, NEW kind \in Kinds, NEW url \in Urls, NEW p \in Pages,
             Began(t, kind, url, p)
      PROVE  ReviewInv'
  <2>1. /\ \A u \in DOMAIN tabs' : u # t => u \in DOMAIN tabs /\ tabs'[u] = tabs[u]
        /\ \/ url \in BuiltIn /\ tabs'[t].by = Req /\ tabs'[t].url = url
           \/ t \in DOMAIN tabs /\ tabs'[t].by = tabs[t].by /\ tabs'[t].url = tabs[t].url
           \/ t \notin DOMAIN tabs /\ tabs'[t].by = 0
        /\ UNCHANGED <<completions, reviews>>
        /\ threads' = threads \/ threads' = threads \cup {NewJob(t, kind, url)}
    BY <1>4, BeganEffect, Zenon
  <2>2. ASSUME NEW c \in Unfinished' PROVE Reviewed(c)'
    <3>1. c \in Unfinished \/ c = NewJob(t, kind, url)
      BY <2>1, BeganUnfinished, Zenon
    <3>2. CASE c = NewJob(t, kind, url)
      BY <3>2, Zenon DEF NewJob, Reviewed
    <3>3. QED
      BY <1>1, <2>1, <3>1, <3>2, Zenon
  <2>3. ASSUME NEW u \in DOMAIN tabs' PROVE Trusted(tabs[u])'
    <3>1. CASE u # t
      BY <1>2, <2>1, <3>1, Zenon
    <3>2. CASE u = t
      BY <1>2, <2>1, <3>2, Zenon DEF Trusted
    <3>3. QED
      BY <3>1, <3>2
  <2>4. QED
    BY <2>2, <2>3, Zenon DEF ReviewInv, OnlyReviewedContent
<1>5. CASE Drain
  <2>1. UNCHANGED reviews
    BY <1>5, Zenon DEF Drain
  <2>2. ASSUME NEW c \in Unfinished' PROVE Reviewed(c)'
    BY <1>1, <1>5, <2>1, DrainUnfinished, Zenon
  <2>3. CASE UNCHANGED tabs
    BY <1>2, <2>1, <2>2, <2>3 DEF ReviewInv, OnlyReviewedContent
  <2>4. CASE ~UNCHANGED tabs
    <3> DEFINE c == Head(completions)
    <3>1. /\ c.at = "Cleared"
          /\ DOMAIN tabs' = DOMAIN tabs
          /\ tabs'[c.tab].by = c.req
          /\ \A u \in DOMAIN tabs : u # c.tab => tabs'[u] = tabs[u]
      BY <1>5, <2>4, DrainEffect, Zenon
    <3>2. \A stage \in Both : <<c.req, stage>> \in reviews
      <4>1. c \in Unfinished
        BY <1>5, DrainUnfinished DEF Unfinished
      <4>2. QED
        BY <3>1, <4>1, Zenon DEF ReviewInv, Reviewed, Both
    <3>3. ASSUME NEW u \in DOMAIN tabs' PROVE Trusted(tabs[u])'
      <4>1. CASE u = c.tab
        BY <2>1, <3>1, <3>2, <4>1, Zenon DEF Trusted
      <4>2. CASE u # c.tab
        BY <1>2, <2>1, <3>1, <4>2, Zenon
      <4>3. QED
        BY <4>1, <4>2
    <3>4. QED
      BY <2>2, <3>3 DEF ReviewInv, OnlyReviewedContent
  <2>5. QED
    BY <2>3, <2>4, Zenon
<1>6. ASSUME NEW j \in threads, Elsewhere,
             CheckUrl(j) \/ CheckContent(j) \/ fetch(j) \/ send(j, pc # "ended")
      PROVE  ReviewInv'
  <2>1. reviews \subseteq reviews' /\ UNCHANGED tabs
    BY <1>6, ThreadEffect, Zenon DEF Elsewhere, tabVars
  <2>2. Reviewed(j)
    BY SMT DEF ReviewInv, Unfinished
  <2>3. ASSUME NEW c \in Unfinished' PROVE Reviewed(c)'
    <3>1. \/ c \in Unfinished
          \/ /\ c.req = j.req
             /\ \/ c.at = "fetch" /\ <<j.req, "CheckUrl">> \in reviews'
                \/ j.at = "fetch" /\ c.at = "CheckContent"
                \/ /\ j.at = "CheckContent" /\ c.at = "Cleared"
                   /\ <<j.req, "CheckContent">> \in reviews'
                \/ c.at \in {"GatekeeperBlocked", "FetchFailed"}
      BY <1>6, ThreadEffect, Zenon
    <3>2. QED
      BY <1>1, <2>1, <2>2, <3>1, Zenon DEF Reviewed
  <2>4. QED
    BY <1>2, <2>1, <2>3, Zenon DEF ReviewInv, OnlyReviewedContent
<1>7. QED
  BY <1>3, <1>4, <1>5, <1>6, StepEffect, Zenon DEF SomethingBegan

\* Fail-closed review, for every number of tabs and requests: whatever the
\* gatekeeper connection does and however the fetches race, a tab shows the
\* blank page, a built-in page or a document cleared in both stages.
THEOREM ReviewIsFailClosed == Spec => []OnlyReviewedContent
<1>1. Init => ReviewInv
  BY DEF Init, new, ReviewInv, OnlyReviewedContent, Trusted, Page, Unfinished, InChannel
<1>2. TypeOK /\ ReviewInv /\ [Next]_vars => ReviewInv'
  BY ReviewStep
<1>3. ReviewInv => OnlyReviewedContent
  BY Zenon DEF ReviewInv
<1>4. QED
  BY <1>1, <1>2, <1>3, TypeCorrect, PTL DEF Spec

-----------------------------------------------------------------------------
(* A tab never goes back.                                                  *)

\* A message read gets a number above every earlier one.
LEMMA NumbersGrow ==
    ASSUME TypeOK
    PROVE  /\ requests \in Nat /\ Req \in Nat /\ Req = requests + 1
           /\ \A t \in DOMAIN tabs : tabs[t].by \in Nat
           /\ \A c \in Unfinished :
                 /\ c.tab \in TabIds /\ c.req \in Nat /\ c.seq \in Nat
                 /\ pending_nav_seq[c.tab] \in Nat
<1>1. requests \in Nat /\ Req \in Nat /\ Req = requests + 1
  BY SessionAssumption DEF TypeOK, LoopOK, Req
<1>2. \A t \in DOMAIN tabs : tabs[t].by \in Nat
  BY SessionAssumption DEF TypeOK, TabsOK, Pages
<1>3. \A c \in Unfinished : c.tab \in TabIds /\ c.req \in Nat /\ c.seq \in Nat
  BY UnfinishedType, SessionAssumption DEF Jobs, Requests
<1>4. QED
  BY <1>1, <1>2, <1>3, Zenon DEF TypeOK, LoopOK

\* A quiet step preserves OrderInv.
LEMMA OrderQuiet ==
    ASSUME TypeOK, OrderInv, Quiet
    PROVE  OrderInv'
<1>1. Unfinished' = Unfinished /\ pending_nav_seq' = pending_nav_seq
  BY Zenon DEF Quiet, fetchVars, Unfinished, InChannel
<1>2. requests <= requests' /\ requests' \in Nat
  BY NumbersGrow DEF Quiet
<1>3. ASSUME NEW t \in DOMAIN tabs' PROVE tabs'[t].by <= requests'
  BY <1>2, NumbersGrow DEF Quiet, Kept, OrderInv
<1>4. ASSUME NEW c \in Unfinished'
      PROVE  /\ c.req <= requests' /\ c.seq <= pending_nav_seq'[c.tab]
             /\ Current(c)' => tabs'[c.tab].by <= c.req
  <2>1. /\ c.req <= requests /\ c.seq <= pending_nav_seq[c.tab]
        /\ Current(c) => tabs[c.tab].by <= c.req
    BY <1>1, SMT DEF OrderInv
  <2>2. c.req \in Nat
    BY <1>1, NumbersGrow, Zenon
  <2>3. c.req <= requests'
    BY <1>2, <2>1, <2>2, NumbersGrow, SMT
  <2>4. ASSUME Current(c)' PROVE tabs'[c.tab].by <= c.req
    <3>1. CASE c.tab \in DOMAIN tabs
      BY <2>1, <2>4, <3>1 DEF Quiet, Kept, Current, Live
    <3>2. CASE c.tab \notin DOMAIN tabs
      BY <2>2, <2>4, <3>2 DEF Quiet, Kept, Current, Live
    <3>3. QED
      BY <3>1, <3>2
  <2>5. QED
    BY <1>1, <2>1, <2>3, <2>4
<1>5. QED
  BY <1>1, <1>3, <1>4 DEF OrderInv

\* Starting a navigation preserves OrderInv: its number is new, so no
\* navigation already in flight on the tab is current any more.
LEMMA OrderBegan ==
    ASSUME TypeOK, OrderInv, NEW t \in TabIds, NEW kind \in Kinds, NEW url \in Urls,
           NEW p \in Pages, Began(t, kind, url, p)
    PROVE  OrderInv'
<1>0. PICK job : job = NewJob(t, kind, url)
  BY Zenon
<1>1. /\ \A u \in DOMAIN tabs' : u # t => u \in DOMAIN tabs /\ tabs'[u] = tabs[u]
      /\ \/ tabs'[t].by = Req
         \/ t \in DOMAIN tabs /\ tabs'[t].by = tabs[t].by
         \/ t \notin DOMAIN tabs /\ tabs'[t].by = 0
      /\ pending_nav_seq' = [pending_nav_seq EXCEPT ![t] = @ + 1]
      /\ UNCHANGED completions
      /\ threads' = threads \/ threads' = threads \cup {job}
  BY <1>0, BeganEffect, Zenon
<1>2. requests' = requests + 1 /\ Req = requests + 1 /\ requests \in Nat
  BY NumbersGrow, Zenon DEF Began
<1>3. job.tab = t /\ job.seq = pending_nav_seq[t] + 1 /\ job.req = requests + 1
  BY <1>0, <1>2, Zenon DEF NewJob
<1>4. \A c \in Unfinished' : c \in Unfinished \/ c = job
  BY <1>0, <1>1, BeganUnfinished, Zenon
<1>5. pending_nav_seq[t] \in Nat /\ pending_nav_seq \in [TabIds -> Nat]
  BY Zenon DEF TypeOK, LoopOK
<1>6. ASSUME NEW u \in DOMAIN tabs' PROVE tabs'[u].by <= requests' /\ tabs'[u].by \in Nat
  <2>1. CASE u # t
    BY <1>1, <1>2, NumbersGrow DEF OrderInv
  <2>2. CASE u = t
    BY <1>1, <1>2, NumbersGrow DEF OrderInv
  <2>3. QED
    BY <2>1, <2>2, Zenon
<1>7. ASSUME NEW c \in Unfinished
      PROVE  /\ c.req <= requests' /\ c.seq <= pending_nav_seq'[c.tab]
             /\ c.tab = t => c.seq < pending_nav_seq'[c.tab]
             /\ Current(c)' => tabs'[c.tab].by <= c.req
  <2>1. /\ c.tab \in TabIds /\ c.req \in Nat /\ c.seq \in Nat
        /\ c.req <= requests /\ c.seq <= pending_nav_seq[c.tab]
        /\ Current(c) => tabs[c.tab].by <= c.req
    BY NumbersGrow, Zenon DEF OrderInv
  <2>2. CASE c.tab = t
    BY <1>1, <1>2, <1>5, <2>1, <2>2, SMT DEF Current
  <2>3. CASE c.tab # t
    <3>1. pending_nav_seq'[c.tab] = pending_nav_seq[c.tab]
      BY <1>1, <1>5, <2>1, <2>3, Zenon
    <3>2. ASSUME Current(c)' PROVE tabs'[c.tab].by <= c.req
      BY <1>1, <2>1, <2>3, <3>1, <3>2, Zenon DEF Current, Live
    <3>3. QED
      BY <1>2, <2>1, <2>3, <3>1, <3>2
  <2>4. QED
    BY <2>2, <2>3, Zenon
<1>8. /\ job.req <= requests' /\ job.seq = pending_nav_seq'[job.tab]
      /\ job.seq <= pending_nav_seq'[job.tab]
      /\ Current(job)' => tabs'[job.tab].by <= job.req
  <2>1. pending_nav_seq'[t] = pending_nav_seq[t] + 1 /\ pending_nav_seq'[t] \in Nat
    BY <1>1, <1>5
  <2>2. ASSUME Current(job)' PROVE tabs'[job.tab].by <= job.req
    BY <1>2, <1>3, <1>6, <2>2, Zenon DEF Current, Live
  <2>3. QED
    BY <1>2, <1>3, <2>1, <2>2, SMT
<1>9. ASSUME NEW c \in Unfinished', NEW d \in Unfinished', c.tab = d.tab, c.seq = d.seq
      PROVE  c.req = d.req
  <2>1. CASE c \in Unfinished /\ d \in Unfinished
    BY <1>9, <2>1, Zenon DEF OrderInv
  <2>2. CASE c = job /\ d \in Unfinished
    BY <1>3, <1>7, <1>8, <1>9, <2>2, NumbersGrow, SMT
  <2>3. CASE d = job /\ c \in Unfinished
    BY <1>3, <1>7, <1>8, <1>9, <2>3, NumbersGrow
  <2>4. QED
    BY <1>4, <2>1, <2>2, <2>3
<1>10. QED
  BY <1>4, <1>6, <1>7, <1>8, <1>9, SMT DEF OrderInv

\* Applying a completion preserves OrderInv.
LEMMA OrderDrain ==
    ASSUME TypeOK, OrderInv, Drain
    PROVE  OrderInv'
<1> DEFINE c == Head(completions)
<1>1. c \in Unfinished /\ Unfinished' \subseteq Unfinished
  BY DrainUnfinished DEF Unfinished
<1>2. UNCHANGED <<requests, pending_nav_seq>>
  BY DEF Drain
<1>3. CASE UNCHANGED tabs
  BY <1>1, <1>2, <1>3, Zenon DEF OrderInv, Current, Live
<1>4. CASE ~UNCHANGED tabs
  <2>1. /\ Current(c)
        /\ DOMAIN tabs' = DOMAIN tabs
        /\ tabs'[c.tab].by = c.req
        /\ \A u \in DOMAIN tabs : u # c.tab => tabs'[u] = tabs[u]
    BY <1>4, DrainEffect, Zenon
  <2>2. \A u \in DOMAIN tabs' : tabs'[u].by <= requests'
    BY <1>1, <1>2, <2>1 DEF OrderInv
  <2>3. ASSUME NEW d \in Unfinished', Current(d)' PROVE tabs'[d.tab].by <= d.req
    <3>1. d \in Unfinished /\ Current(d)
      BY <1>1, <1>2, <2>1, <2>3 DEF Current, Live
    <3>2. CASE d.tab = c.tab
      <4>1. d.req = c.req
        BY <1>1, <2>1, <3>1, <3>2 DEF Current, OrderInv
      <4>2. QED
        BY <2>1, <3>1, <3>2, <4>1, NumbersGrow
    <3>3. CASE d.tab # c.tab
      BY <2>1, <3>1, <3>3, Zenon DEF OrderInv, Current, Live
    <3>4. QED
      BY <3>2, <3>3
  <2>4. QED
    BY <1>1, <1>2, <2>2, <2>3 DEF OrderInv
<1>5. QED
  BY <1>3, <1>4, Zenon

\* A background thread preserves OrderInv.
LEMMA OrderThread ==
    ASSUME TypeOK, OrderInv, NEW j \in threads, Elsewhere,
           CheckUrl(j) \/ CheckContent(j) \/ fetch(j) \/ send(j, pc # "ended")
    PROVE  OrderInv'
<1>1. UNCHANGED <<tabs, requests, pending_nav_seq>>
  BY DEF Elsewhere, tabVars
<1>2. \A c \in Unfinished' : \E d \in Unfinished :
          c.tab = d.tab /\ c.seq = d.seq /\ c.req = d.req
  BY ThreadEffect, Zenon DEF Unfinished
<1>3. ASSUME NEW c \in Unfinished'
      PROVE  /\ c.req <= requests' /\ c.seq <= pending_nav_seq'[c.tab]
             /\ Current(c)' => tabs'[c.tab].by <= c.req
  BY <1>1, <1>2, SMT DEF OrderInv, Current, Live
<1>4. ASSUME NEW c \in Unfinished', NEW d \in Unfinished', c.tab = d.tab, c.seq = d.seq
      PROVE  c.req = d.req
  BY <1>2, <1>4 DEF OrderInv
<1>5. QED
  BY <1>1, <1>3, <1>4, Zenon DEF OrderInv

\* Every step preserves OrderInv.
LEMMA OrderStep ==
    ASSUME TypeOK, OrderInv, [Next]_vars
    PROVE  OrderInv'
BY StepEffect, OrderQuiet, OrderBegan, OrderDrain, OrderThread DEF SomethingBegan

\* No step takes a tab back.
LEMMA StepNeverGoesBack ==
    ASSUME TypeOK, OrderInv, [Next]_vars, NEW t \in DOMAIN tabs, t \in DOMAIN tabs'
    PROVE  tabs[t].by <= tabs'[t].by
<1>1. tabs[t].by \in Nat /\ tabs[t].by <= requests /\ requests \in Nat
  BY NumbersGrow, Zenon DEF OrderInv
<1>2. CASE Quiet
  BY <1>1, <1>2 DEF Quiet, Kept
<1>3. ASSUME NEW u \in TabIds, NEW kind \in Kinds, NEW url \in Urls, NEW p \in Pages,
             Began(u, kind, url, p)
      PROVE  tabs[t].by <= tabs'[t].by
  <2>1. tabs'[t].by = tabs[t].by \/ tabs'[t].by = requests + 1
    BY <1>3, BeganEffect, NumbersGrow, Zenon
  <2>2. QED
    BY <1>1, <2>1
<1>4. CASE Drain
  <2> DEFINE c == Head(completions)
  <2>1. c \in Unfinished
    BY <1>4, DrainUnfinished, Zenon DEF Unfinished
  <2>2. CASE UNCHANGED tabs
    BY <1>1, <2>2, SMT
  <2>3. CASE ~UNCHANGED tabs
    <3>1. /\ Current(c)
          /\ tabs'[c.tab].by = c.req
          /\ \A u \in DOMAIN tabs : u # c.tab => tabs'[u] = tabs[u]
      BY <1>4, <2>3, DrainEffect, Zenon
    <3>2. QED
      BY <1>1, <2>1, <3>1 DEF OrderInv
  <2>4. QED
    BY <2>2, <2>3, Zenon
<1>5. CASE Elsewhere
  BY <1>1, <1>5 DEF Elsewhere, tabVars
<1>6. QED
  BY <1>2, <1>3, <1>4, <1>5, StepEffect DEF SomethingBegan

\* However the fetches of two navigations of a tab race, and however their
\* completions queue up, the tab never shows an older request's document
\* after a newer one's.
THEOREM TabsNeverGoBack == Spec => DocumentsNeverGoBack
<1>1. Init => OrderInv
  BY DEF Init, new, OrderInv, Page, Unfinished, InChannel
<1>2. TypeOK /\ OrderInv /\ [Next]_vars => OrderInv'
  BY OrderStep
<1>3. TypeOK /\ OrderInv /\ [Next]_vars =>
          [\A t \in DOMAIN tabs \cap DOMAIN tabs' : tabs[t].by <= tabs'[t].by]_vars
  BY StepNeverGoesBack
<1>4. QED
  BY <1>1, <1>2, <1>3, TypeCorrect, PTL DEF Spec, DocumentsNeverGoBack

-----------------------------------------------------------------------------
(* One completion for each navigation.                                     *)

\* A navigation is carried by one thread or by one completion, never by two:
\* whatever its answer is, it comes once.  Its tab id has been allocated.
FlightInv ==
    /\ \A c \in Unfinished : c.tab < next_tab_id
    /\ \A c, d \in threads : c.req = d.req => c = d
    /\ \A i, j \in DOMAIN completions : completions[i].req = completions[j].req => i = j
    /\ \A c \in threads, i \in DOMAIN completions : c.req # completions[i].req

\* Two navigations in flight on behalf of one request are the same one.
LEMMA FlightUnique ==
    ASSUME FlightInv
    PROVE  \A c, d \in Unfinished : c.req = d.req => c = d
BY DEF FlightInv, Unfinished, InChannel

\* Starting a navigation adds at most one thread, for a request of its own.
LEMMA FlightBegan ==
    ASSUME TypeOK, OrderInv, FlightInv, NEW t \in TabIds, NEW kind \in Kinds, NEW url \in Urls,
           NEW p \in Pages, Began(t, kind, url, p)
    PROVE  FlightInv'
<1>0. PICK job : job = NewJob(t, kind, url)
  OBVIOUS
<1>1. /\ UNCHANGED completions
      /\ threads' = threads \/ threads' = threads \cup {job}
      /\ next_tab_id' = IF kind = "OpenTab" THEN next_tab_id + 1 ELSE next_tab_id
  BY <1>0, BeganEffect, Zenon
<1>2. job.tab = t /\ job.req = requests + 1
  BY <1>0, NumbersGrow, Zenon DEF NewJob
<1>3. /\ next_tab_id \in Int /\ next_tab_id' \in Int
      /\ next_tab_id <= next_tab_id' /\ t < next_tab_id'
  BY <1>1 DEF Began, TypeOK, TabsOK
<1>4. \A c \in Unfinished : c.req < job.req
  BY <1>2, NumbersGrow, SMT DEF OrderInv
<1>5. \A c \in Unfinished : c.req # job.req
  BY <1>2, <1>4, NumbersGrow, SMT
<1>6. \A c \in Unfinished' : c \in Unfinished \/ c = job
  BY <1>0, <1>1, BeganUnfinished, Zenon
<1>7. ASSUME NEW c \in Unfinished' PROVE c.tab < next_tab_id'
  <2>1. CASE c \in Unfinished
    <3>1. c.tab \in Int /\ c.tab < next_tab_id
      BY <2>1, NumbersGrow DEF FlightInv, TabIds
    <3>2. QED
      BY <1>3, <3>1
  <2>2. QED
    BY <1>2, <1>3, <1>6, <2>1, Zenon
<1>8. \A c \in threads : c \in Unfinished
  BY DEF Unfinished
<1>9. \A i \in DOMAIN completions : completions[i] \in Unfinished
  BY SMT DEF Unfinished, InChannel
<1>10. \A c, d \in threads' : c.req = d.req => c = d
  BY <1>1, <1>5, <1>8 DEF FlightInv
<1>11. \A c \in threads', i \in DOMAIN completions' : c.req # completions'[i].req
  BY <1>1, <1>5, <1>9 DEF FlightInv
<1>12. QED
  BY <1>1, <1>7, <1>10, <1>11 DEF FlightInv

\* The rest of the channel, and what it no longer holds.
LEMMA FlightDrain ==
    ASSUME TypeOK, FlightInv, Drain
    PROVE  FlightInv' /\ \A c \in Unfinished' : c.req # Head(completions).req
<1>1. completions # <<>> /\ completions' = Tail(completions) /\ threads' = threads
  BY DEF Drain
<1>2. next_tab_id' = next_tab_id
  BY Zenon DEF Drain, apply_completion, put, tabVars
<1>3. \A i \in DOMAIN completions' :
          /\ i \in Nat /\ i + 1 \in DOMAIN completions /\ i + 1 # 1
          /\ completions'[i] = completions[i + 1]
  BY <1>1 DEF FetchOK
<1>4. Head(completions) = completions[1] /\ 1 \in DOMAIN completions
  BY <1>1 DEF TypeOK
<1>5. \A c \in Unfinished' : c \in Unfinished
  BY DrainUnfinished
<1>6. ASSUME NEW i \in DOMAIN completions', NEW j \in DOMAIN completions',
             completions'[i].req = completions'[j].req
      PROVE  i = j
  <2>1. i + 1 = j + 1
    BY <1>3, <1>6 DEF FlightInv
  <2>2. QED
    BY <1>3, <2>1
<1>7. \A c \in threads', i \in DOMAIN completions' : c.req # completions'[i].req
  BY <1>1, <1>3 DEF FlightInv
<1>8. FlightInv'
  BY <1>1, <1>2, <1>5, <1>6 DEF FlightInv
<1>9. ASSUME NEW c \in Unfinished' PROVE c.req # Head(completions).req
  <2>1. CASE c \in threads
    BY <1>4, <2>1, Zenon DEF FlightInv
  <2>2. CASE c \in InChannel'
    BY <1>3, <1>4, <2>2 DEF FlightInv, InChannel
  <2>3. QED
    BY <1>1, <2>1, <2>2, SMT DEF Unfinished
<1>10. QED
  BY <1>8, <1>9

\* What a thread does next, and that it is then one thread or one completion.
LEMMA FlightThread ==
    ASSUME TypeOK, FlightInv, NEW j \in threads, Elsewhere,
           CheckUrl(j) \/ CheckContent(j) \/ fetch(j) \/ send(j, pc # "ended")
    PROVE  FlightInv'
<1>1. next_tab_id' = next_tab_id
  BY DEF Elsewhere, tabVars
<1>2. \A c \in Unfinished' : \E d \in Unfinished : c.tab = d.tab
  BY ThreadEffect, Zenon DEF Unfinished
<1>3. \A c \in Unfinished' : c.tab < next_tab_id'
  BY <1>1, <1>2, Zenon DEF FlightInv
<1>4. CASE CheckUrl(j) \/ CheckContent(j) \/ fetch(j)
  <2>1. PICK k : threads' = (threads \ {j}) \cup {k} /\ k.req = j.req
    <3>1. j \in Jobs
      BY SMT DEF TypeOK, FetchOK
    <3>2. \A at : [j EXCEPT !.at = at].req = j.req
      BY <3>1, Zenon DEF Jobs
    <3>3. QED
      BY <1>4, <3>2, Zenon DEF CheckUrl, CheckContent, fetch, check_stage, Goto
  <2>2. UNCHANGED completions
    BY <1>4 DEF CheckUrl, CheckContent, fetch, check_stage
  <2>3. \A c, d \in threads' : c.req = d.req => c = d
    <3>1. \A c, d \in threads : c.req = d.req => c = d
      BY Zenon DEF FlightInv
    <3>2. QED
      BY <2>1, <3>1, Zenon
  <2>4. \A c \in threads', i \in DOMAIN completions' : c.req # completions'[i].req
    BY <2>1, <2>2, SMT DEF FlightInv
  <2>5. QED
    BY <1>3, <2>2, <2>3, <2>4 DEF FlightInv
<1>5. CASE send(j, pc # "ended")
  <2>1. threads' = threads \ {j}
    BY <1>5, Zenon DEF send
  <2>2. CASE UNCHANGED completions
    BY <1>3, <2>1, <2>2 DEF FlightInv
  <2>3. CASE completions' = Append(completions, j)
    <3>1. /\ Len(completions) \in Nat
          /\ DOMAIN completions = 1..Len(completions)
          /\ DOMAIN completions' = 1..(Len(completions) + 1)
          /\ completions'[Len(completions) + 1] = j
          /\ \A i \in 1..Len(completions) : completions'[i] = completions[i]
      BY <2>3 DEF FetchOK
    <3>2. \A i \in DOMAIN completions' : i \in DOMAIN completions \/ i = Len(completions) + 1
      BY <3>1, SMT
    <3>3. \A i, k \in DOMAIN completions' :
              completions'[i].req = completions'[k].req => i = k
      BY <3>1 DEF FlightInv
    <3>4. \A c \in threads', i \in DOMAIN completions' : c.req # completions'[i].req
      BY <2>1, <3>1, <3>2 DEF FlightInv
    <3>5. QED
      BY <1>3, <2>1, <3>3, <3>4, Zenon DEF FlightInv
  <2>4. QED
    BY <1>5, <2>2, <2>3 DEF send
<1>6. QED
  BY <1>4, <1>5

\* Every step preserves FlightInv.
LEMMA FlightStep ==
    ASSUME TypeOK, OrderInv, FlightInv, [Next]_vars
    PROVE  FlightInv'
<1>1. CASE Quiet
  <2>1. UNCHANGED <<threads, completions>>
    BY <1>1, Zenon DEF Quiet, fetchVars
  <2>2. next_tab_id \in Int /\ next_tab_id' \in Int /\ next_tab_id <= next_tab_id'
    BY <1>1, TabsAssumption DEF Quiet, SameTabs, OneOpens, OneCloses, TypeOK, TabsOK
  <2>3. \A c \in Unfinished' : c.tab < next_tab_id'
    BY <2>1, <2>2, NumbersGrow DEF FlightInv, Unfinished, InChannel, TabIds
  <2>4. QED
    BY <2>1, <2>3 DEF FlightInv
<1>2. QED
  BY <1>1, StepEffect, FlightBegan, FlightDrain, FlightThread, Zenon DEF SomethingBegan

-----------------------------------------------------------------------------
(* The session implements the abstract navigation.                         *)

\* What is shown and what is under way, in the terms of module Navigation.
Shown == [t \in DOMAIN tabs |-> tabs[t].by]
UnderwayMap == [t \in TabIds |-> Underway(t)]

\* What is known of the navigations in flight in every reachable state.
NavInv == TypeOK /\ OrderInv /\ FlightInv

\* The numbers of navigations are ordered, and each is carried once, in every
\* state a session reaches.
THEOREM NavigationHolds == Spec => []NavInv
<1>1. Init => NavInv
  BY InitType DEF Init, new, NavInv, OrderInv, FlightInv, Page, Unfinished, InChannel
<1>2. TypeOK' /\ NavInv /\ [Next]_vars => NavInv'
  BY OrderStep, FlightStep DEF NavInv
<1>3. QED
  BY <1>1, <1>2, TypeCorrect, PTL DEF Spec

\* Nothing is under way for a tab that is not open, or was never opened.
LEMMA NothingUnderway ==
    ASSUME NavInv, NEW t \in TabIds, t \notin DOMAIN tabs \/ next_tab_id <= t
    PROVE  Underway(t) = {}
<1>1. CASE t \notin DOMAIN tabs
  BY <1>1 DEF Underway, Live
<1>2. CASE next_tab_id <= t
  <2>1. ASSUME NEW c \in Unfinished, c.tab = t PROVE FALSE
    <3>1. t < next_tab_id /\ t \in Int /\ next_tab_id \in Int
      BY <2>1 DEF NavInv, FlightInv, TypeOK, TabsOK, TabIds
    <3>2. QED
      BY <1>2, <3>1
  <2>2. QED
    BY <2>1, Zenon DEF Underway
<1>3. QED
  BY <1>1, <1>2, Zenon

\* A current navigation is the one under way for its tab.
LEMMA CurrentUnderway ==
    ASSUME NavInv, NEW c \in Unfinished, Current(c)
    PROVE  c.tab \in TabIds /\ Underway(c.tab) = {c.req}
<1>1. \A d \in Unfinished : d.tab = c.tab /\ d.seq = c.seq => d.req = c.req
  BY DEF NavInv, OrderInv
<1>2. QED
  BY <1>1, NumbersGrow DEF Current, Underway, NavInv

\* A step that asks for something is numbered as in module Navigation.
LEMMA AskRefines ==
    ASSUME TypeOK, TypeOK', requests' = requests + 1
    PROVE  Nav!Ask
BY SessionAssumption DEF Nav!Ask, TypeOK, LoopOK

\* A quiet step is a message that is no navigation, the opening of a blank
\* tab, the closing of one, or nothing.
LEMMA QuietRefines ==
    ASSUME NavInv, NavInv', Quiet
    PROVE  Nav!Next \/ UNCHANGED Nav!vars
<1>1. Unfinished' = Unfinished /\ pending_nav_seq' = pending_nav_seq
  BY Zenon DEF Quiet, fetchVars, Unfinished, InChannel
<1>2. \A t \in TabIds : (t \in DOMAIN tabs <=> t \in DOMAIN tabs') => Underway(t)' = Underway(t)
  BY <1>1 DEF Underway, Live
<1>3. CASE SameTabs
  <2>1. Shown' = Shown
    BY <1>3, Zenon DEF Quiet, Kept, SameTabs, Shown
  <2>2. UnderwayMap' = UnderwayMap
    BY <1>2, <1>3, Zenon DEF SameTabs, UnderwayMap
  <2>3. CASE requests' = requests
    BY <2>1, <2>2, <2>3, Zenon DEF Nav!vars, Shown, UnderwayMap
  <2>4. CASE requests' = requests + 1
    <3>1. Nav!Ask
      BY <2>4, AskRefines, Zenon DEF NavInv
    <3>2. Nav!OtherMessage
      BY <2>1, <2>2, <3>1, Zenon DEF Nav!OtherMessage, Shown, UnderwayMap
    <3>3. QED
      BY <3>2, Zenon DEF Nav!Next
  <2>5. QED
    BY <2>3, <2>4, NumbersGrow, Zenon DEF Quiet, OneOpens, SameTabs, NavInv
<1>4. CASE OneOpens /\ requests' = requests + 1
  <2>0. PICK t : t = next_tab_id
    OBVIOUS
  <2>1. t \in TabIds /\ t \notin DOMAIN tabs /\ DOMAIN tabs' = DOMAIN tabs \cup {t}
    BY <1>4, <2>0 DEF OneOpens, NavInv, TypeOK, TabsOK
  <2>2. Shown' = [u \in DOMAIN Shown \cup {t} |-> IF u = t THEN 0 ELSE Shown[u]]
    BY <1>4, <2>1, Zenon DEF Quiet, Kept, Shown
  <2>3. Underway(t)' = {}
    <3>1. \A c \in Unfinished : c.tab # t
      BY <2>0 DEF NavInv, FlightInv, TypeOK, TabsOK
    <3>2. QED
      BY <1>1, <3>1 DEF Underway
  <2>4. \A u \in TabIds : u # t => Underway(u)' = Underway(u)
    BY <1>2, <2>1
  <2>5. UnderwayMap' = [UnderwayMap EXCEPT ![t] = {}]
    BY <2>1, <2>3, <2>4, Zenon DEF UnderwayMap
  <2>6. Nav!Ask
    BY <1>4, AskRefines DEF NavInv
  <2>7. Nav!OpenTab(t)
    BY <2>1, <2>2, <2>5, <2>6, Zenon DEF Nav!OpenTab, Nav!Open, Nav!Show, Nav!Pursue, Shown,
         UnderwayMap
  <2>8. QED
    BY <2>1, <2>7 DEF Nav!Next
<1>5. CASE OneCloses /\ requests' = requests + 1
  <2>1. PICK t \in DOMAIN tabs : DOMAIN tabs' = DOMAIN tabs \ {t}
    BY <1>5 DEF OneCloses
  <2>2. t \in TabIds
    BY TabsAssumption, SMT DEF NavInv, TypeOK, TabsOK, TabIds
  <2>3. Shown' = [u \in DOMAIN Shown \ {t} |-> Shown[u]]
    BY <2>1, Zenon DEF Quiet, Kept, Shown
  <2>4. Underway(t)' = {}
    BY <2>1, Zenon DEF Underway, Live
  <2>5. \A u \in TabIds : u # t => Underway(u)' = Underway(u)
    BY <1>2, <2>1
  <2>6. UnderwayMap' = [UnderwayMap EXCEPT ![t] = {}]
    BY <2>2, <2>4, <2>5, Zenon DEF UnderwayMap
  <2>7. Nav!Ask
    BY <1>5, AskRefines, Zenon DEF NavInv
  <2>8. Nav!CloseTab(t)
    BY <2>2, <2>3, <2>6, <2>7, Zenon DEF Nav!CloseTab, Nav!Open, Nav!Pursue, Shown, UnderwayMap
  <2>9. QED
    BY <2>2, <2>8, Zenon DEF Nav!Next
<1>6. QED
  BY <1>3, <1>4, <1>5, Zenon DEF Quiet

\* Starting a navigation abandons the one under way; the new one is the only
\* one its tab then pursues.
LEMMA BeganUnderway ==
    ASSUME NavInv, NEW t \in TabIds, NEW kind \in Kinds, NEW url \in Urls, NEW p \in Pages,
           Began(t, kind, url, p)
    PROVE  /\ \A u \in TabIds : u # t => Underway(u)' = Underway(u)
           /\ threads' = threads => Underway(t)' = {}
           /\ threads' = threads \cup {NewJob(t, kind, url)} => Underway(t)' = {requests + 1}
<1>0. PICK job : job = NewJob(t, kind, url)
  BY Zenon
<1>1. /\ DOMAIN tabs' = DOMAIN tabs \cup {t}
      /\ pending_nav_seq' = [pending_nav_seq EXCEPT ![t] = @ + 1]
      /\ UNCHANGED completions
      /\ threads' = threads \/ threads' = threads \cup {job}
  BY <1>0, BeganEffect, Zenon DEF NavInv
<1>2. pending_nav_seq \in [TabIds -> Nat]
  BY DEF NavInv, TypeOK, LoopOK
<1>3. job.tab = t /\ job.seq = pending_nav_seq'[t] /\ job.req = requests + 1
  BY <1>0, <1>1, <1>2, Zenon DEF NewJob, Req
<1>4. ASSUME NEW c \in Unfinished, c.tab = t PROVE c.seq # pending_nav_seq'[t]
  <2>1. c.seq \in Nat /\ c.seq <= pending_nav_seq[t]
    BY <1>4, NumbersGrow, Zenon DEF NavInv, OrderInv
  <2>2. pending_nav_seq'[t] = pending_nav_seq[t] + 1 /\ pending_nav_seq[t] \in Nat
    BY <1>1, <1>2, SMT
  <2>3. QED
    BY <2>1, <2>2
<1>5. /\ threads' = threads => Unfinished' = Unfinished
      /\ threads' = threads \cup {job} => Unfinished' = Unfinished \cup {job}
  BY <1>1 DEF Unfinished, InChannel
<1>6. ASSUME NEW u \in TabIds, u # t PROVE Underway(u)' = Underway(u)
  <2>1. pending_nav_seq'[u] = pending_nav_seq[u] /\ (u \in DOMAIN tabs' <=> u \in DOMAIN tabs)
    BY <1>1, <1>2, <1>6
  <2>2. \A c : c.tab = u => (c \in Unfinished' <=> c \in Unfinished)
    BY <1>1, <1>3, <1>5, <1>6
  <2>3. QED
    BY <2>1, <2>2, SMT DEF Underway, Live
<1>7. ASSUME threads' = threads PROVE Underway(t)' = {}
  BY <1>4, <1>5, <1>7, Zenon DEF Underway
<1>8. ASSUME threads' = threads \cup {job} PROVE Underway(t)' = {requests + 1}
  <2>1. t \in DOMAIN tabs'
    BY <1>1, Zenon
  <2>2. \A c \in Unfinished' : c.tab = t /\ c.seq = pending_nav_seq'[t] <=> c = job
    BY <1>3, <1>4, <1>5, <1>8, Zenon
  <2>3. job \in Unfinished'
    BY <1>5, <1>8
  <2>4. QED
    BY <1>3, <2>1, <2>2, <2>3 DEF Underway, Live
<1>9. QED
  BY <1>0, <1>6, <1>7, <1>8, Zenon

\* A navigation that starts is begun, served or refused, or opens a tab.
LEMMA BeganRefines ==
    ASSUME NavInv, NavInv', NEW t \in TabIds, NEW kind \in Kinds, NEW url \in Urls,
           NEW p \in Pages, Began(t, kind, url, p)
    PROVE  Nav!Next
<1>1. /\ \A u \in DOMAIN tabs' : u # t => u \in DOMAIN tabs /\ tabs'[u] = tabs[u]
      /\ DOMAIN tabs' = DOMAIN tabs \cup {t}
  BY BeganEffect, Zenon DEF NavInv
<1>2. Nav!Ask
  <2>1. requests' = requests + 1
    BY NumbersGrow, Zenon DEF Began, NavInv
  <2>2. QED
    BY <2>1, AskRefines, Zenon DEF NavInv
<1>3. /\ kind = "OpenTab" => t \notin DOMAIN tabs /\ p.by = 0
      /\ kind = "Navigate" => t \in DOMAIN tabs /\ p.by = tabs[t].by
      /\ kind = "OpenTab" \/ kind = "Navigate"
  <2>1. next_tab_id \notin DOMAIN tabs
    <3>1. next_tab_id \in Int /\ DOMAIN tabs \subseteq 1..(next_tab_id - 1)
      BY DEF NavInv, TypeOK, TabsOK
    <3>2. QED
      BY <3>1
  <2>2. QED
    BY <2>1, Zenon DEF Began
<1>4. ASSUME NEW rs, Underway(t)' = rs PROVE Nav!Pursue(t, rs)
  <2>1. \A u \in TabIds : u # t => Underway(u)' = Underway(u)
    BY BeganUnderway
  <2>2. QED
    BY <1>4, <2>1, Zenon DEF Nav!Pursue
<1>5. ASSUME NEW r, tabs'[t].by = r PROVE Nav!Show(t, r)
  BY <1>1, <1>5, Zenon DEF Nav!Show
<1>6. ASSUME NEW q, Store(kind, t, q) PROVE tabs'[t] = q
  BY <1>6, Zenon DEF Store, open_tab, put, WithPage, Began
<1>7. ASSUME tabs'[t].by = p.by, kind = "Navigate" PROVE UNCHANGED [u \in DOMAIN tabs |-> tabs[u].by]
  BY <1>1, <1>3, <1>7, Zenon
<1>8. CASE url \in BuiltIn /\ Store(kind, t, Page(url, Req, p.size)) /\ UNCHANGED fetchVars
  <2>0. tabs'[t] = Page(url, Req, p.size) /\ Page(url, Req, p.size).by = requests + 1
    BY <1>6, <1>8, Zenon DEF Page, Req
  <2>1. Nav!Show(t, requests + 1)
    BY <1>1, <2>0, Zenon DEF Nav!Show
  <2>2. Nav!Pursue(t, {})
    BY <1>4, <1>8, BeganUnderway, Zenon DEF fetchVars
  <2>3. Nav!Serve(t) \/ Nav!OpenTab(t)
    BY <1>2, <2>1, <2>2 DEF Nav!Serve, Nav!OpenTab
  <2>4. QED
    BY <2>3 DEF Nav!Next
<1>9. CASE Store(kind, t, p) /\ UNCHANGED fetchVars
  <2>1. Nav!Pursue(t, {})
    BY <1>4, <1>9, BeganUnderway, Zenon DEF fetchVars
  <2>2. tabs'[t].by = p.by
    BY <1>6, <1>9
  <2>3. Nav!Refuse(t) \/ Nav!OpenTab(t)
    BY <1>2, <1>3, <1>5, <1>7, <2>1, <2>2 DEF Nav!Refuse, Nav!OpenTab, Nav!Open
  <2>4. QED
    BY <2>3, SMTT(30) DEF Nav!Next
<1>10. CASE Store(kind, t, p) /\ spawn(t, pending_nav_seq[t] + 1, Req, kind, url)
  <2>1. Nav!Pursue(t, {requests + 1})
    BY <1>4, <1>10, BeganUnderway, Zenon DEF spawn, NewJob
  <2>2. tabs'[t].by = p.by
    BY <1>6, <1>10, Zenon
  <2>3. Nav!Begin(t) \/ Nav!OpenTab(t)
    BY <1>2, <1>3, <1>5, <1>7, <2>1, <2>2, Zenon DEF Nav!Begin, Nav!OpenTab, Nav!Open
  <2>4. QED
    BY <2>3 DEF Nav!Next
<1>11. QED
  BY <1>8, <1>9, <1>10, Zenon DEF Began, begin_gated_navigation

\* A completion that is drained shows the document under way or ends the
\* navigation; one that is not current changes nothing.
LEMMA DrainRefines ==
    ASSUME NavInv, Drain
    PROVE  Nav!Next \/ UNCHANGED Nav!vars
<1>0. PICK c : c = Head(completions)
  BY SMT
<1>1. c \in Unfinished /\ Unfinished' \subseteq Unfinished /\ c.tab \in TabIds
  BY <1>0, DrainUnfinished, NumbersGrow, Zenon DEF Unfinished, NavInv
<1>2. UNCHANGED <<requests, pending_nav_seq>>
  BY DEF Drain
<1>3. \A d \in Unfinished : d \in Unfinished' \/ d = c
  BY <1>0, DrainRest, Zenon DEF NavInv
<1>4. DOMAIN tabs' = DOMAIN tabs
  BY DrainEffect, Zenon DEF NavInv
<1>5. ASSUME NEW u \in TabIds, u # c.tab PROVE Underway(u)' = Underway(u)
  BY <1>1, <1>2, <1>3, <1>4, <1>5, Zenon DEF Underway, Live
<1>6. CASE ~Current(c)
  <2>1. UNCHANGED tabs
    BY <1>0, <1>6, Zenon DEF Drain, apply_completion, tabVars
  <2>2. Underway(c.tab)' = Underway(c.tab)
    BY <1>1, <1>2, <1>3, <1>4, <1>6 DEF Underway, Current, Live
  <2>3. \A u \in TabIds : Underway(u)' = Underway(u)
    BY <1>5, <2>2
  <2>4. QED
    BY <1>2, <2>1, <2>3, Zenon DEF Nav!vars
<1>7. CASE Current(c)
  <2>1. Underway(c.tab) = {c.req} /\ c.tab \in DOMAIN tabs
    BY <1>1, <1>7, CurrentUnderway, Zenon DEF Current, Live
  <2>2. Underway(c.tab)' = {}
    <3>1. \A d \in Unfinished' : d.tab = c.tab /\ d.seq = c.seq => FALSE
      BY <1>0, <1>1, FlightDrain, Zenon DEF NavInv, OrderInv
    <3>2. QED
      BY <1>2, <1>7, <3>1, SMT DEF Underway, Current
  <2>3. Nav!Pursue(c.tab, {})
    BY <1>5, <2>2, Zenon DEF Nav!Pursue
  <2>4. CASE UNCHANGED tabs
    <3>1. Nav!Fail(c.tab)
      BY <1>1, <1>2, <2>1, <2>3, <2>4, Zenon DEF Nav!Fail
    <3>2. QED
      BY <1>1, <3>1 DEF Nav!Next
  <2>5. CASE ~UNCHANGED tabs
    <3>1. /\ tabs'[c.tab].by = c.req
          /\ \A u \in DOMAIN tabs : u # c.tab => tabs'[u] = tabs[u]
      BY <1>0, <2>5, DrainEffect, Zenon DEF NavInv
    <3>2. Nav!Show(c.tab, c.req)
      BY <1>4, <2>1, <3>1 DEF Nav!Show
    <3>3. Nav!Land(c.tab)
      BY <1>1, <1>2, <2>1, <2>3, <3>2, Zenon DEF Nav!Land, Nav!Open
    <3>4. QED
      BY <1>1, <3>3 DEF Nav!Next
  <2>6. QED
    BY <2>4, <2>5, Zenon
<1>8. QED
  BY <1>6, <1>7

\* A background thread leaves what is under way alone, except that a thread
\* whose session is over drops its navigation instead of sending it.
LEMMA ThreadRefines ==
    ASSUME NavInv, NEW j \in threads, Elsewhere,
           CheckUrl(j) \/ CheckContent(j) \/ fetch(j) \/ send(j, pc # "ended")
    PROVE  Nav!Next \/ UNCHANGED Nav!vars
<1>1. UNCHANGED <<tabs, requests, pending_nav_seq>>
  BY DEF Elsewhere, tabVars
<1>2. j \in Unfinished /\ j.tab \in TabIds
  BY NumbersGrow, Zenon DEF Unfinished, NavInv
<1>3. \A c \in Unfinished' : \E d \in Unfinished :
          c.tab = d.tab /\ c.seq = d.seq /\ c.req = d.req
  BY ThreadEffect, Zenon DEF Unfinished, NavInv
<1>4. CASE \A d \in Unfinished : \E c \in Unfinished' :
              c.tab = d.tab /\ c.seq = d.seq /\ c.req = d.req
  <2>1. \A u \in TabIds : Underway(u)' = Underway(u)
    BY <1>1, <1>3, <1>4 DEF Underway, Live
  <2>2. QED
    BY <1>1, <2>1, Zenon DEF Nav!vars
<1>5. CASE UNCHANGED completions /\ threads' = threads \ {j}
  <2>1. /\ Unfinished' \subseteq Unfinished
        /\ \A d \in Unfinished : d \in Unfinished' \/ d = j
        /\ j \notin Unfinished'
    BY <1>5, Zenon DEF Unfinished, InChannel, NavInv, FlightInv
  <2>2. ASSUME NEW u \in TabIds, u # j.tab PROVE Underway(u)' = Underway(u)
    BY <1>1, <2>1, <2>2 DEF Underway, Live
  <2>3. CASE ~Current(j)
    <3>1. Underway(j.tab)' = Underway(j.tab)
      BY <1>1, <2>1, <2>3, Zenon DEF Underway, Current, Live
    <3>2. \A u \in TabIds : Underway(u)' = Underway(u)
      BY <2>2, <3>1
    <3>3. QED
      BY <1>1, <3>2 DEF Nav!vars
  <2>4. CASE Current(j)
    <3>1. Underway(j.tab) = {j.req}
      BY <1>2, <2>4, CurrentUnderway
    <3>2. \A d \in Unfinished' : d.tab = j.tab /\ d.seq = j.seq => FALSE
      BY <1>2, <2>1, FlightUnique DEF NavInv, OrderInv
    <3>3. Underway(j.tab)' = {}
      BY <1>1, <2>4, <3>2, Zenon DEF Underway, Current
    <3>4. Nav!Pursue(j.tab, {})
      BY <1>2, <2>2, <3>3, Zenon DEF Nav!Pursue
    <3>5. Nav!Fail(j.tab)
      BY <1>1, <1>2, <3>1, <3>4 DEF Nav!Fail
    <3>6. QED
      BY <1>2, <3>5, Zenon DEF Nav!Next
  <2>5. QED
    BY <2>3, <2>4, Zenon
<1>6. CASE CheckUrl(j) \/ CheckContent(j) \/ fetch(j)
  <2>1. PICK at : threads' = (threads \ {j}) \cup {[j EXCEPT !.at = at]}
    BY <1>6, Zenon DEF CheckUrl, CheckContent, fetch, check_stage, Goto
  <2>2. [j EXCEPT !.at = at].tab = j.tab /\ [j EXCEPT !.at = at].seq = j.seq
        /\ [j EXCEPT !.at = at].req = j.req
    BY DEF NavInv, FetchOK, Jobs
  <2>3. UNCHANGED completions
    BY <1>6 DEF CheckUrl, CheckContent, fetch, check_stage
  <2>4. QED
    BY <1>4, <2>1, <2>2, <2>3, Zenon DEF Unfinished, InChannel
<1>7. CASE completions' = Append(completions, j) /\ threads' = threads \ {j}
  <2>1. \A d \in InChannel : d \in InChannel'
    BY <1>7 DEF InChannel, TypeOK, FetchOK
  <2>2. j \in InChannel'
    BY <1>7 DEF InChannel, NavInv, FetchOK
  <2>3. QED
    BY <1>4, <1>7, <2>1, <2>2 DEF Unfinished
<1>8. QED
  BY <1>5, <1>6, <1>7 DEF send

\* Every step of the session is a step of the abstract navigation or leaves
\* it where it was.
LEMMA StepRefines ==
    ASSUME NavInv, NavInv', [Next]_vars
    PROVE  [Nav!Next]_(Nav!vars)
BY StepEffect, QuietRefines, BeganRefines, DrainRefines, ThreadRefines DEF SomethingBegan, NavInv

\* The session implements module Navigation for every number of tabs,
\* requests and concurrent fetches: seen from the outside, its threads, its
\* channel and its sequence numbers amount to one pursued request a tab,
\* which alone can replace the document shown.
THEOREM SessionImplementsNavigation == Spec => ImplementsNavigation
<1>1. Init => Nav!Init
  <2> SUFFICES ASSUME Init PROVE Nav!Init
    OBVIOUS
  <2>1. Unfinished = {}
    BY DEF Init, Unfinished, InChannel
  <2>2. \A t \in TabIds : Underway(t) = {}
    BY <2>1, SMT DEF Underway
  <2>3. DOMAIN tabs = {1} /\ tabs[1].by = 0
    BY Zenon DEF Init, new, Page, DefaultTab
  <2>4. QED
    BY <2>2, <2>3, Zenon DEF Init, Nav!Init
<1>2. NavInv /\ NavInv' /\ [Next]_vars => [Nav!Next]_(Nav!vars)
  BY StepRefines
<1>3. QED
  BY <1>1, <1>2, NavigationHolds, PTL DEF Spec, ImplementsNavigation, Nav!Spec
=============================================================================
