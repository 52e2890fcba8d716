---------------------------- MODULE AnswerProofs ----------------------------
(***************************************************************************)
(* Proofs about what a session writes to its connection, for any number of *)
(* tabs, requests and concurrent fetches: each request is answered at most *)
(* once, a closed tab is never named again except by errors, frames are    *)
(* numbered without a gap, and a change of a page is painted.              *)
(*                                                                         *)
(* Said describes the messages one step writes.  Every step is shown to    *)
(* speak on behalf of one request: the one being handled, the one whose    *)
(* completion is drained, or the handshake.                                *)
(***************************************************************************)
EXTENDS NavigationProofs

MessageTypes == {"Hello", "Error", "Navigated", "TabOpened", "TabClosed", "FrameReady",
                 "Tabs", "Dom", "Representation", "ScriptReports", "GatekeeperBlocked"}
Messages == [type : MessageTypes, tab : Nat, req : Nat, gen : Nat, page : Pages]

\* A step writes at most a reply and a frame.
AtMostTwo == 0..2

\* n messages are written behind those of `out`; Added(n) are their places.
Grows(n) ==
    /\ n \in AtMostTwo
    /\ out' \in Seq(Messages)
    /\ Len(out') = Len(out) + n
    /\ \A i \in 1..Len(out) : out'[i] = out[i]
Added(n) == (Len(out) + 1)..(Len(out) + n)

\* They answer request r, by one reply and at most one frame behind it; a
\* message that names a tab that is not open is an error for the request
\* being handled or announces a new tab; TabClosed is the last of its tab.
Replies(r, n) ==
    /\ n = 2 => out'[Len(out) + 2].type = "FrameReady" /\ out'[Len(out) + 1].type # "TabClosed"
    /\ \A i \in Added(n) :
          /\ out'[i].req = r
          /\ \/ out'[i].type = "Error" /\ r = Req
             \/ out'[i].tab \in DOMAIN tabs \cup {NoTab, next_tab_id}
          /\ out'[i].type = "TabClosed" => out'[i].tab \in DOMAIN tabs \ DOMAIN tabs'

\* A frame is written, numbered and announced last, or there is none.
Numbers(n) ==
    \/ UNCHANGED frameVars /\ \A i \in Added(n) : out'[i].type # "FrameReady"
    \/ /\ next_frame
       /\ \A i \in Added(n) : out'[i].type = "FrameReady" => i = Len(out) + n /\ out'[i].gen = generation + 1
       /\ pc' = "ended" \/ (n > 0 /\ out'[Len(out) + n].type = "FrameReady")

\* The page of tab t, if it changed, is the one the last message depicts.
Paints(r, n) ==
    ~Scripting /\ pc' # "ended" =>
        \A t \in DOMAIN tabs \cap DOMAIN tabs' :
            tabs'[t] # tabs[t] =>
                /\ n > 0
                /\ out'[Len(out) + n] = Depicting("FrameReady", t, r, generation', tabs'[t])

Said(r, n) == Grows(n) /\ Replies(r, n) /\ Numbers(n) /\ Paints(r, n)

\* No open page changes, page scripts apart.
Unpainted == ~Scripting => \A t \in DOMAIN tabs \cap DOMAIN tabs' : tabs'[t] = tabs[t]

-----------------------------------------------------------------------------
(* What the writing operators write.                                       *)

\* A message about a tab is a message.
LEMMA MessageType ==
    ASSUME NEW type \in MessageTypes, NEW t \in Nat, NEW r \in Nat
    PROVE  /\ Message(type, t, r) \in Messages
           /\ \A g \in Nat, p \in Pages : Depicting(type, t, r, g, p) \in Messages
<1>1. NoPage \in Pages
  BY TabsAssumption, SessionAssumption DEF NoPage, Pages
<1>2. QED
  BY <1>1, Zenon DEF Message, Depicting, Messages

\* What a concatenation holds.
LEMMA Concatenation ==
    ASSUME NEW S, NEW a \in Seq(S), NEW b \in Seq(S)
    PROVE  /\ a \o b \in Seq(S)
           /\ Len(a \o b) = Len(a) + Len(b)
           /\ \A i \in 1..(Len(a) + Len(b)) :
                 (a \o b)[i] = IF i <= Len(a) THEN a[i] ELSE b[i - Len(a)]
OBVIOUS

\* Write writes the messages it is given, in their order, or ends the session.
LEMMA WriteGrows ==
    ASSUME out \in Seq(Messages), NEW msgs \in Seq(Messages),
           NEW size \in AtMostTwo, Len(msgs) = size,
           NEW next, Write(msgs, next)
    PROVE  \E n \in 0..size :
              /\ Grows(n)
              /\ \A k \in 1..n : out'[Len(out) + k] = msgs[k]
              /\ n = size \/ pc' = "ended"
<1>0. size \in Nat
  OBVIOUS
<1>1. ASSUME NEW s \in Seq(Messages), NEW n \in AtMostTwo, Len(s) = n, out' = out \o s
      PROVE  Grows(n) /\ \A k \in 1..n : out'[Len(out) + k] = s[k]
  <2>1. /\ out' \in Seq(Messages)
        /\ Len(out') = Len(out) + n
        /\ \A i \in 1..Len(out') : out'[i] = IF i <= Len(out) THEN out[i] ELSE s[i - Len(out)]
    BY <1>1, Concatenation
  <2>2. Len(out) \in Nat /\ n \in Nat
    BY DEF AtMostTwo
  <2>3. \A i \in 1..Len(out) : i \in 1..Len(out') /\ i <= Len(out)
    BY <2>1, <2>2
  <2>4. \A k \in 1..n : /\ Len(out) + k \in 1..Len(out') /\ ~(Len(out) + k <= Len(out))
                        /\ (Len(out) + k) - Len(out) = k
    BY <2>1, <2>2
  <2>5. \A i \in 1..Len(out) : out'[i] = out[i]
    BY <2>1, <2>3, Zenon
  <2>6. \A k \in 1..n : out'[Len(out) + k] = s[k]
    BY <2>1, <2>4, Zenon
  <2>7. QED
    BY <2>1, <2>5, <2>6 DEF Grows
<1>2. ASSUME out' = out \o msgs
      PROVE  Grows(size) /\ (\A k \in 1..size : out'[Len(out) + k] = msgs[k]) /\ size \in 0..size
  <2>1. Grows(size) /\ \A k \in 1..size : out'[Len(out) + k] = msgs[k]
    BY <1>1, <1>2, Zenon
  <2>2. QED
    BY <2>1
<1>3. ASSUME NEW n \in 0..(size - 1), out' = out \o SubSeq(msgs, 1, n), pc' = "ended"
      PROVE  Grows(n) /\ (\A k \in 1..n : out'[Len(out) + k] = msgs[k]) /\ n \in 0..size
  <2>1. n \in AtMostTwo /\ n \in 0..size /\ n \in Nat
    BY SMT DEF AtMostTwo
  <2>2. /\ SubSeq(msgs, 1, n) \in Seq(Messages)
        /\ Len(SubSeq(msgs, 1, n)) = n
        /\ \A k \in 1..n : SubSeq(msgs, 1, n)[k] = msgs[k]
    BY SMT
  <2>3. Grows(n) /\ \A k \in 1..n : out'[Len(out) + k] = SubSeq(msgs, 1, n)[k]
    BY <1>1, <1>3, <2>1, <2>2, Zenon
  <2>4. QED
    BY <2>3
<1>4. QED
  BY <1>2, <1>3, Zenon DEF Write

\* The places of at most two messages.
LEMMA TwoPlaces ==
    ASSUME NEW l \in Nat, NEW n \in {0, 1, 2}, NEW i \in (l + 1)..(l + n)
    PROVE  (i = l + 1 /\ n # 0) \/ (i = l + 2 /\ n = 2)
OBVIOUS

\* So does a write of one message, and of two.
LEMMA WriteOne ==
    ASSUME out \in Seq(Messages), NEW m \in Messages, NEW next, Write(<<m>>, next)
    PROVE  \E n \in {0, 1} :
              /\ Grows(n)
              /\ \A i \in Added(n) : i = Len(out) + 1 /\ n = 1 /\ out'[i] = m
              /\ n = 1 => out'[Len(out) + 1] = m
              /\ n = 1 \/ pc' = "ended"
<1>0. <<m>> \in Seq(Messages) /\ Len(<<m>>) = 1 /\ <<m>>[1] = m
  BY SMT
<1>1. PICK msgs : /\ msgs = <<m>>
                  /\ msgs \in Seq(Messages) /\ Len(msgs) = 1 /\ msgs[1] = m
  BY <1>0, Zenon
<1>2. 1 \in AtMostTwo
  BY DEF AtMostTwo
<1>3. PICK n \in 0..1 : /\ Grows(n)
                        /\ \A k \in 1..n : out'[Len(out) + k] = msgs[k]
                        /\ n = 1 \/ pc' = "ended"
  BY <1>1, <1>2, WriteGrows, Zenon
<1>4. PICK l : l = Len(out) /\ l \in Nat
  BY SMT
<1>5. \A i \in Added(n) : i = l + 1 /\ n = 1
  BY <1>4, SMT DEF Added
<1>6. n = 1 => out'[l + 1] = m
  BY <1>1, <1>3, <1>4
<1>7. QED
  BY <1>3, <1>4, <1>5, <1>6

\* Two messages, written together, are added in their order or cut off.
LEMMA WriteTwo ==
    ASSUME out \in Seq(Messages), NEW m \in Messages, NEW f \in Messages,
           NEW next, Write(Append(<<m>>, f), next)
    PROVE  \E n \in {0, 1, 2} :
              /\ Grows(n)
              /\ \A i \in Added(n) :
                    (i = Len(out) + 1 /\ out'[i] = m) \/ (i = Len(out) + 2 /\ n = 2 /\ out'[i] = f)
              /\ n = 2 => out'[Len(out) + 1] = m /\ out'[Len(out) + 2] = f
              /\ n = 2 \/ pc' = "ended"
<1>0. <<m>> \in Seq(Messages) /\ Len(<<m>>) = 1 /\ <<m>>[1] = m
  OBVIOUS
<1>1. PICK msgs : /\ msgs = Append(<<m>>, f)
                  /\ msgs \in Seq(Messages) /\ Len(msgs) = 2 /\ msgs[1] = m /\ msgs[2] = f
  <2>1. PICK one : one = <<m>> /\ one \in Seq(Messages) /\ Len(one) = 1 /\ one[1] = m
    BY <1>0, Zenon
  <2>2. PICK msgs : msgs = Append(one, f)
    BY Zenon
  <2>3. /\ msgs \in Seq(Messages) /\ Len(msgs) = Len(one) + 1
        /\ \A i \in 1..Len(one) : msgs[i] = one[i]
        /\ msgs[Len(one) + 1] = f
    BY <2>1, <2>2
  <2>4. Len(msgs) = 2 /\ msgs[1] = m /\ msgs[2] = f
    BY <2>1, <2>3, SMT
  <2>5. msgs = Append(<<m>>, f)
    BY <2>1, <2>2
  <2>6. QED
    BY <2>3, <2>4, <2>5, Zenon
<1>2. 2 \in AtMostTwo
  BY DEF AtMostTwo
<1>3. PICK n \in 0..2 : /\ Grows(n)
                        /\ \A k \in 1..n : out'[Len(out) + k] = msgs[k]
                        /\ n = 2 \/ pc' = "ended"
  BY <1>1, <1>2, WriteGrows, Zenon
<1>4. PICK l : l = Len(out) /\ l \in Nat
  BY SMT
<1>5. \A i \in Added(n) : (i = l + 1 /\ n # 0) \/ (i = l + 2 /\ n = 2)
  <2>1. n \in {0, 1, 2}
    BY SMT
  <2>2. QED
    BY <1>4 DEF Added
<1>6. (n # 0 => out'[l + 1] = m) /\ (n = 2 => out'[l + 2] = f)
  BY <1>1, <1>3, <1>4
<1>7. n \in {0, 1, 2}
  OBVIOUS
<1>8. \A i \in Added(n) :
          (i = Len(out) + 1 /\ out'[i] = m) \/ (i = Len(out) + 2 /\ n = 2 /\ out'[i] = f)
  BY <1>4, <1>5, <1>6, Zenon
<1>9. n = 2 => out'[Len(out) + 1] = m /\ out'[Len(out) + 2] = f
  BY <1>4, <1>6
<1>10. QED
  BY <1>3, <1>7, <1>8, <1>9, Zenon

\* A step that writes nothing.
LEMMA MuteSaid ==
    ASSUME out \in Seq(Messages), UNCHANGED <<out, frameVars>>, Unpainted, NEW r
    PROVE  Said(r, 0)
<1>1. Len(out) \in Nat /\ Added(0) = {}
  BY DEF Added
<1>2. Grows(0)
  BY DEF Grows, AtMostTwo
<1>3. QED
  BY <1>1, <1>2 DEF Said, Replies, Numbers, Paints, Unpainted

\* A step that writes one message, which is no frame.
LEMMA ReplySaid ==
    ASSUME out \in Seq(Messages), NEW m \in Messages, NEW next, Write(<<m>>, next),
           UNCHANGED frameVars, Unpainted, m.type # "FrameReady",
           (m.type = "Error" /\ m.req = Req) \/ m.tab \in DOMAIN tabs \cup {NoTab, next_tab_id},
           m.type = "TabClosed" => m.tab \in DOMAIN tabs \ DOMAIN tabs'
    PROVE  \E n \in {0, 1} : Said(m.req, n)
<1>1. PICK n \in {0, 1} : Grows(n) /\ \A i \in Added(n) : i = Len(out) + 1 /\ n = 1 /\ out'[i] = m
  BY WriteOne
<1>2. QED
  BY <1>1 DEF Said, Replies, Numbers, Paints, Unpainted

\* A step that writes a frame of tab t's page, and nothing else of it.
LEMMA FrameSaid ==
    ASSUME out \in Seq(Messages), FramesOK, NEW t \in Nat, NEW r \in Nat, NEW p \in Pages,
           send_frame(t, r, p, <<>>),
           t \in DOMAIN tabs \cup {next_tab_id}, t \in DOMAIN tabs' => tabs'[t] = p,
           \A u \in DOMAIN tabs \cap DOMAIN tabs' : u # t => tabs'[u] = tabs[u]
    PROVE  \E n \in {0, 1} : Said(r, n)
<1>0. PICK f : f = Depicting("FrameReady", t, r, generation + 1, p)
  OBVIOUS
<1>1. next_frame /\ generation' = generation + 1 /\ Write(<<f>>, "drain")
  BY <1>0 DEF send_frame, next_frame
<1>2. f \in Messages /\ f.type = "FrameReady" /\ f.tab = t /\ f.req = r /\ f.gen = generation + 1
  <2>1. generation + 1 \in Nat /\ "FrameReady" \in MessageTypes
    BY SMT DEF FramesOK, MessageTypes
  <2>2. f \in Messages
    BY <1>0, <2>1, MessageType, Zenon
  <2>3. QED
    BY <1>0, <2>2, Zenon DEF Depicting
<1>5. PICK n \in {0, 1} : /\ Grows(n)
                          /\ \A i \in Added(n) : i = Len(out) + 1 /\ n = 1 /\ out'[i] = f
                          /\ n = 1 => out'[Len(out) + 1] = f
                          /\ n = 1 \/ pc' = "ended"
  BY <1>1, <1>2, WriteOne, Zenon
<1>6. Replies(r, n)
  BY <1>2, <1>5 DEF Replies
<1>7. Numbers(n)
  BY <1>1, <1>2, <1>5 DEF Numbers
<1>8. Paints(r, n)
  BY <1>0, <1>1, <1>5 DEF Paints
<1>9. QED
  BY <1>5, <1>6, <1>7, <1>8, Zenon DEF Said

\* A step that answers a navigation and paints its tab.
LEMMA SuccessSaid ==
    ASSUME out \in Seq(Messages), FramesOK, NEW t \in Nat, NEW r \in Nat, NEW p \in Pages,
           NEW kind, reply_success(t, r, kind, p),
           t \in DOMAIN tabs \cup {next_tab_id}, t \in DOMAIN tabs' => tabs'[t] = p,
           \A u \in DOMAIN tabs \cap DOMAIN tabs' : u # t => tabs'[u] = tabs[u]
    PROVE  \E n \in {0, 1, 2} : Said(r, n)
<1>0. PICK m, f : /\ m = Message(SuccessReply(kind), t, r)
                  /\ f = Depicting("FrameReady", t, r, generation + 1, p)
  OBVIOUS
<1>1. next_frame /\ generation' = generation + 1 /\ Write(Append(<<m>>, f), "drain")
  BY <1>0 DEF reply_success, send_frame, next_frame
<1>2. f \in Messages /\ f.type = "FrameReady" /\ f.tab = t /\ f.req = r /\ f.gen = generation + 1
  <2>1. generation + 1 \in Nat /\ "FrameReady" \in MessageTypes
    BY DEF FramesOK, MessageTypes
  <2>2. f \in Messages
    BY <1>0, <2>1, MessageType, Zenon
  <2>3. QED
    BY <1>0, <2>2 DEF Depicting
<1>3. m \in Messages /\ m.type \notin {"FrameReady", "TabClosed"} /\ m.tab = t /\ m.req = r
  <2>1. SuccessReply(kind) \in MessageTypes /\ SuccessReply(kind) \notin {"FrameReady", "TabClosed"}
    BY Zenon DEF SuccessReply, MessageTypes
  <2>2. m \in Messages
    BY <1>0, <2>1, MessageType, Zenon
  <2>3. QED
    BY <1>0, <2>1, <2>2 DEF Message
<1>6. PICK n \in {0, 1, 2} :
          /\ Grows(n)
          /\ \A i \in Added(n) :
                (i = Len(out) + 1 /\ out'[i] = m) \/ (i = Len(out) + 2 /\ n = 2 /\ out'[i] = f)
          /\ n = 2 => out'[Len(out) + 1] = m /\ out'[Len(out) + 2] = f
          /\ n = 2 \/ pc' = "ended"
  BY <1>1, <1>2, <1>3, WriteTwo, SMT
<1>7. Replies(r, n)
  BY <1>2, <1>3, <1>6 DEF Replies
<1>8. Numbers(n)
  BY <1>1, <1>2, <1>3, <1>6, SMTT(30) DEF Numbers
<1>9. Paints(r, n)
  BY <1>0, <1>1, <1>6 DEF Paints
<1>10. QED
  BY <1>6, <1>7, <1>8, <1>9 DEF Said

-----------------------------------------------------------------------------
(* What the handlers of the client messages write.                         *)

\* A handler answers its own request; one that hands a navigation to a
\* thread says nothing yet.
Handled == \E n \in {0, 1, 2} : Said(Req, n) /\ (n # 0 => UNCHANGED fetchVars)

\* Handlers that answer with one message about a tab, changing no page.
LEMMA MessageHandled ==
    ASSUME TypeOK, out \in Seq(Messages), NEW type \in MessageTypes, NEW t \in Nat, NEW next,
           Write(<<Message(type, t, Req)>>, next), type # "FrameReady",
           UNCHANGED <<frameVars, fetchVars>>, Unpainted,
           type = "Error" \/ t \in DOMAIN tabs \cup {NoTab, next_tab_id},
           type = "TabClosed" => t \in DOMAIN tabs \ DOMAIN tabs'
    PROVE  Handled
<1>0. PICK m : m = Message(type, t, Req)
  BY SMT
<1>1. m \in Messages
  BY <1>0, MessageType, NumbersGrow
<1>2. m.type = type /\ m.tab = t /\ m.req = Req
  BY <1>0, Zenon DEF Message
<1>3. \E n \in {0, 1} : Said(m.req, n)
  BY <1>0, <1>1, <1>2, ReplySaid, Zenon
<1>4. QED
  BY <1>2, <1>3, Zenon DEF Handled

\* Handlers that answer with one error, whatever the tab.
LEMMA ErrorHandled ==
    ASSUME TypeOK, out \in Seq(Messages), NEW t \in TabIds, write_error(t, Req),
           UNCHANGED <<frameVars, fetchVars>>, Unpainted
    PROVE  Handled
<1>1. t \in Nat /\ "Error" \in MessageTypes
  BY DEF TabIds, MessageTypes
<1>2. QED
  BY <1>1, MessageHandled, Zenon DEF write_error

\* Handlers that say nothing.
LEMMA SilentHandled ==
    ASSUME out \in Seq(Messages), UNCHANGED <<out, frameVars>>, Unpainted
    PROVE  Handled
BY MuteSaid, SMT DEF Handled

\* Storing a page changes no other tab's.
LEMMA StoreOne ==
    ASSUME NEW kind, NEW t, NEW q, Store(kind, t, q), kind = "OpenTab" => t = next_tab_id
    PROVE  tabs'[t] = q /\ \A u \in DOMAIN tabs \cap DOMAIN tabs' : u # t => tabs'[u] = tabs[u]
<1>1. tabs' = WithPage(t, q)
  BY DEF Store, open_tab, put
<1>2. QED
  BY <1>1 DEF WithPage

\* A navigation that is served at once is answered, painted and done; one
\* that is refused is answered by an error; the others are not answered yet.
LEMMA BeginHandled ==
    ASSUME TypeOK, out \in Seq(Messages), NEW t \in TabIds, NEW kind \in Kinds, NEW url \in Urls,
           NEW p \in Pages, begin_gated_navigation(t, Req, kind, url, p), Req \in 0..MaxRequests,
           \/ kind = "OpenTab" /\ t = next_tab_id
           \/ kind # "OpenTab" /\ t \in DOMAIN tabs /\ (Scripting \/ p = tabs[t])
    PROVE  Handled
<1>1. t \in Nat /\ Req \in Nat /\ t \in DOMAIN tabs \cup {next_tab_id}
  BY DEF TabIds
<1>2. FramesOK /\ next_tab_id \notin DOMAIN tabs
  BY DEF TypeOK, TabsOK
<1>3. ASSUME Store(kind, t, p) PROVE Unpainted
  BY <1>2, <1>3, StoreOne DEF Unpainted
<1>4. CASE /\ url \in BuiltIn
           /\ Store(kind, t, Page(url, Req, p.size))
           /\ reply_success(t, Req, kind, Page(url, Req, p.size))
           /\ UNCHANGED fetchVars
  <2>0. PICK q, r : q = Page(url, Req, p.size) /\ r = Req
    BY Zenon
  <2>1. p.size \in Sizes
    BY DEF Pages
  <2>2. q \in Pages
    BY <2>0, <2>1, PageType
  <2>3. tabs'[t] = q /\ \A u \in DOMAIN tabs \cap DOMAIN tabs' : u # t => tabs'[u] = tabs[u]
    BY <1>4, <2>0, StoreOne, SMTT(30)
  <2>4. \E n \in {0, 1, 2} : Said(r, n)
    BY <1>1, <1>2, <1>4, <2>0, <2>2, <2>3, SuccessSaid
  <2>5. QED
    BY <1>4, <2>0, <2>4, Zenon DEF Handled
<1>5. CASE Store(kind, t, p) /\ write_error(t, Req) /\ UNCHANGED <<frameVars, fetchVars>>
  BY <1>3, <1>5, ErrorHandled, Zenon
<1>6. CASE Store(kind, t, p) /\ UNCHANGED <<completions, reviews, frameVars, out>>
  BY <1>3, <1>6, SilentHandled
<1>7. QED
  BY <1>4, <1>5, <1>6 DEF begin_gated_navigation

\* Handlers that repaint an open tab.
LEMMA RepaintHandled ==
    ASSUME TypeOK, out \in Seq(Messages), NEW t \in TabIds, t \in DOMAIN tabs, NEW p \in Pages,
           Repaint(t, p)
    PROVE  Handled
<1>0. PICK r : r = Req
  OBVIOUS
<1>1. t \in Nat /\ r \in Nat /\ FramesOK
  BY <1>0, NumbersGrow DEF TabIds, TypeOK
<1>2. tabs'[t] = p /\ \A u \in DOMAIN tabs \cap DOMAIN tabs' : u # t => tabs'[u] = tabs[u]
  BY Zenon DEF Repaint, put, WithPage
<1>3. send_frame(t, r, p, <<>>) /\ UNCHANGED fetchVars
  BY <1>0 DEF Repaint
<1>4. \E n \in {0, 1} : Said(r, n)
  BY <1>1, <1>2, <1>3, FrameSaid, Zenon
<1>5. QED
  BY <1>0, <1>3, <1>4, Zenon DEF Handled

\* Handlers that leave the tabs alone change no page.
LEMMA UnmovedUnpainted ==
    ASSUME Unmoved
    PROVE  Unpainted /\ UNCHANGED <<frameVars, fetchVars>>
BY Zenon DEF Unmoved, Unpainted, tabVars

\* A request for a tab that is not open.
LEMMA UnknownTabHandled ==
    ASSUME TypeOK, out \in Seq(Messages), NEW t \in TabIds, UnknownTab(t)
    PROVE  Handled
BY UnmovedUnpainted, ErrorHandled, Zenon DEF UnknownTab

\* A click.
LEMMA ClickOnHandled ==
    ASSUME TypeOK, out \in Seq(Messages), NEW t \in TabIds, t \in DOMAIN tabs, clickOn(t),
           Req \in 0..MaxRequests
    PROVE  Handled
<1>1. tabs[t] \in Pages /\ "Navigate" \in Kinds
  BY DEF TypeOK, TabsOK, Kinds
<1>2. ASSUME NEW url \in Urls, begin_gated_navigation(t, Req, "Navigate", url, tabs[t])
      PROVE  Handled
  <2>0. PICK p : p = tabs[t]
    OBVIOUS
  <2>1. QED
    BY <1>1, <1>2, BeginHandled
<1>3. CASE Silently /\ Unmoved
  BY <1>3, SilentHandled, UnmovedUnpainted, Zenon DEF Silently
<1>4. ASSUME Scripting, NEW v \in Views, write_error(t, Req),
             UNCHANGED <<frameVars, fetchVars, pending_nav_seq>>
      PROVE  Handled
  BY <1>4, ErrorHandled DEF Unpainted
<1>5. ASSUME NEW v \in Views
      PROVE  \E p \in Pages : p = Viewed(t, v)
  BY ViewedType, Zenon DEF TypeOK
<1>6. ASSUME NEW v \in Views, Repaint(t, Viewed(t, v))
      PROVE  Handled
  BY <1>5, <1>6, RepaintHandled
<1>7. ASSUME Scripting, NEW v \in Views, NEW url \in Urls,
             begin_gated_navigation(t, Req, "Navigate", url, Viewed(t, v))
      PROVE  Handled
  BY <1>1, <1>5, <1>7, BeginHandled, Zenon
<1>8. QED
  BY <1>2, <1>3, <1>4, <1>6, <1>7, Zenon DEF clickOn

\* The other client messages, one case for each kind of handler.
LEMMA HandleMessageHandled ==
    ASSUME TypeOK, out \in Seq(Messages), HandleMessage
    PROVE  Handled /\ requests' = Req /\ pc = "read"
<1>1. ASSUME NEW kind, Read(kind) PROVE requests' = Req /\ pc = "read" /\ Req \in 0..MaxRequests
  BY <1>1, ReadType, Zenon DEF Read
<1>2. {"Hello", "Error", "Tabs", "TabOpened", "TabClosed", "Dom", "ScriptReports", "Representation"}
          \subseteq MessageTypes
  BY DEF MessageTypes
<1>3. \A t \in TabIds : t \in Nat
  BY DEF TabIds
<1>4. CASE Hello \/ ListTabs
  <2>1. \E type \in {"Hello", "Error", "Tabs"} : Write(<<Message(type, 0, Req)>>, "drain") /\ Unmoved
    BY <1>4 DEF Hello, ListTabs, NoTab
  <2>2. Handled
    BY <1>2, <2>1, MessageHandled, UnmovedUnpainted, Zenon DEF NoTab
  <2>3. QED
    BY <1>1, <1>4, <2>2 DEF Hello, ListTabs
<1>5. CASE Shutdown \/ \E kind \in {"Chrome", "Unknown"} : Ignored(kind)
  <2>1. Handled
    BY <1>5, SilentHandled, UnmovedUnpainted, SMT DEF Shutdown, Ignored, Silently
  <2>2. QED
    BY <1>1, <1>5, <2>1, SMT DEF Shutdown, Ignored
<1>6. CASE OpenBlankTab
  <2>0. PICK t : t = next_tab_id
    BY Zenon
  <2>1. t \in TabIds /\ Unpainted
    BY <1>6, <2>0 DEF OpenBlankTab, open_tab, WithPage, Unpainted, TypeOK, TabsOK
  <2>2. Write(<<Message("TabOpened", t, Req)>>, "drain") /\ UNCHANGED <<frameVars, fetchVars>>
    BY <1>6, <2>0, Zenon DEF OpenBlankTab
  <2>3. Handled
    BY <1>2, <1>3, <2>0, <2>1, <2>2, MessageHandled
  <2>4. QED
    BY <1>1, <1>6, <2>3 DEF OpenBlankTab
<1>7. ASSUME NEW url \in Urls, OpenTab(url) PROVE Handled /\ requests' = Req /\ pc = "read"
  <2>0. PICK t, p : t = next_tab_id /\ p = Page(NoUrl, 0, viewport)
    BY SMT
  <2>1. p \in Pages /\ "OpenTab" \in Kinds
    <3>1. viewport \in Sizes /\ 0 \in 0..MaxRequests /\ NoUrl \in Urls \cup {NoUrl}
      BY SessionAssumption DEF TypeOK, TabsOK
    <3>2. Page(NoUrl, 0, viewport) \in Pages
      BY <3>1, PageType, Zenon
    <3>3. QED
      BY <2>0, <3>2, Zenon DEF Kinds
  <2>2. t \in TabIds /\ begin_gated_navigation(t, Req, "OpenTab", url, p) /\ Read("OpenTab")
    BY <1>7, <2>0 DEF OpenTab
  <2>3. QED
    BY <1>1, <2>0, <2>1, <2>2, BeginHandled, SMT
<1>8. ASSUME NEW t \in TabIds, NEW url \in Urls, Navigate(t, url)
      PROVE  Handled /\ requests' = Req /\ pc = "read"
  <2>1. CASE Live(t) /\ begin_gated_navigation(t, Req, "Navigate", url, tabs[t])
    <3>0. PICK p : p = tabs[t]
      OBVIOUS
    <3>1. t \in DOMAIN tabs /\ p \in Pages /\ "Navigate" \in Kinds
      BY <2>1, <3>0, SMT DEF Live, TypeOK, TabsOK, Kinds
    <3>2. Read("Navigate")
      BY <1>8, SMT DEF Navigate
    <3>3. QED
      BY <1>1, <2>1, <3>0, <3>1, <3>2, BeginHandled
  <2>2. QED
    BY <1>1, <1>8, <2>1, UnknownTabHandled DEF Navigate
<1>9. ASSUME NEW t \in TabIds, NEW size \in Sizes, Resize(t, size)
      PROVE  Handled /\ requests' = Req /\ pc = "read"
  <2>1. CASE ~Live(t)
    <3>1. Unpainted /\ write_error(t, Req) /\ UNCHANGED <<frameVars, fetchVars>>
      BY <1>9, <2>1 DEF Resize, resize, Unpainted
    <3>2. QED
      BY <1>1, <1>9, <3>1, ErrorHandled DEF Resize
  <2>2. CASE Live(t)
    <3>0. PICK p, r : p = [tabs[t] EXCEPT !.size = size] /\ r = Req
      BY Zenon
    <3>1. p \in Pages /\ t \in DOMAIN tabs /\ FramesOK /\ r \in Nat
      BY <2>2, <3>0, NumbersGrow, Zenon DEF TypeOK, TabsOK, Pages, Live
    <3>2. tabs'[t] = p /\ \A u \in DOMAIN tabs \cap DOMAIN tabs' : u # t => tabs'[u] = tabs[u]
      BY <1>9, <2>2, <3>0, Zenon DEF Resize, resize, WithPage
    <3>3. send_frame(t, r, p, <<>>) /\ UNCHANGED fetchVars
      BY <1>9, <2>2, <3>0 DEF Resize
    <3>4. \E n \in {0, 1} : Said(r, n)
      BY <1>3, <3>1, <3>2, <3>3, FrameSaid, Zenon
    <3>5. Handled
      BY <3>0, <3>3, <3>4 DEF Handled
    <3>6. QED
      BY <1>1, <1>9, <3>5, Zenon DEF Resize
  <2>3. QED
    BY <2>1, <2>2
<1>10. ASSUME NEW t \in TabIds, Click(t) \/ ActOn(t) \/ Scroll(t) \/ Highlight(t)
       PROVE  Handled /\ requests' = Req /\ pc = "read"
  <2>1. requests' = Req /\ pc = "read" /\ Req \in 0..MaxRequests
    BY <1>1, <1>10, Zenon DEF Click, ActOn, Scroll, Highlight
  <2>2. ASSUME Live(t), NEW v \in Views, Repaint(t, Viewed(t, v)) PROVE Handled
    <3>1. PICK p \in Pages : p = Viewed(t, v)
      BY <2>2, ViewedType DEF TypeOK, Live
    <3>2. QED
      BY <2>2, <3>1, RepaintHandled, SMT DEF Live
  <2>3. QED
    BY <1>10, <2>1, <2>2, UnknownTabHandled, ClickOnHandled, Zenon DEF Click, ActOn, Scroll,
         Highlight, Live
<1>11. ASSUME NEW t \in TabIds, Hover(t) \/ GetDom(t) \/ GetScriptReports(t)
       PROVE  Handled /\ requests' = Req /\ pc = "read"
  <2>1. requests' = Req /\ pc = "read"
    BY <1>1, <1>11 DEF Hover, GetDom, GetScriptReports
  <2>2. CASE Silently /\ Unmoved
    BY <2>1, <2>2, SilentHandled, UnmovedUnpainted DEF Silently
  <2>3. ASSUME NEW type \in {"Dom", "ScriptReports", "Error"}, Query(t, Message(type, t, Req))
        PROVE  Handled
    BY <1>2, <1>3, <2>3, MessageHandled, UnmovedUnpainted, Zenon DEF Query, Live
  <2>4. QED
    BY <1>11, <2>1, <2>2, <2>3, UnknownTabHandled DEF Hover, GetDom, GetScriptReports
<1>12. ASSUME NEW t \in TabIds, GetRepresentation(t)
       PROVE  Handled /\ requests' = Req /\ pc = "read"
  <2>1. requests' = Req /\ pc = "read"
    BY <1>1, <1>12 DEF GetRepresentation
  <2>2. CASE Query(t, Depicting("Representation", t, Req, generation, tabs[t]))
    <3>0. PICK m : m = Depicting("Representation", t, Req, generation, tabs[t])
      OBVIOUS
    <3>1. tabs[t] \in Pages /\ generation \in Nat /\ Req \in Nat /\ t \in DOMAIN tabs
      BY <2>2, NumbersGrow DEF Query, Live, TypeOK, TabsOK, FramesOK
    <3>2. m \in Messages
      BY <1>2, <1>3, <3>0, <3>1, MessageType
    <3>3. m.type = "Representation" /\ m.tab = t /\ m.req = Req
      BY <3>0 DEF Depicting
    <3>4. Write(<<m>>, "drain") /\ Unmoved
      BY <2>2, <3>0, SMT DEF Query
    <3>5. \E n \in {0, 1} : Said(m.req, n)
      BY <3>1, <3>2, <3>3, <3>4, ReplySaid, UnmovedUnpainted, Zenon
    <3>6. QED
      BY <2>1, <3>3, <3>4, <3>5, UnmovedUnpainted, Zenon DEF Handled
  <2>3. QED
    BY <1>12, <2>1, <2>2, UnknownTabHandled, Zenon DEF GetRepresentation
<1>13. ASSUME NEW t \in TabIds, CloseTab(t) PROVE Handled /\ requests' = Req /\ pc = "read"
  <2>1. CASE /\ Live(t)
             /\ close_tab(t)
             /\ Write(<<Message("TabClosed", t, Req)>>, "drain")
             /\ UNCHANGED <<frameVars, fetchVars, pending_nav_seq>>
    <3>1. t \in DOMAIN tabs \ DOMAIN tabs' /\ Unpainted
      BY <2>1 DEF Live, close_tab, Unpainted
    <3>2. Handled
      BY <1>2, <1>3, <2>1, <3>1, MessageHandled
    <3>3. QED
      BY <1>1, <1>13, <3>2 DEF CloseTab
  <2>2. QED
    BY <1>1, <1>13, <2>1, UnknownTabHandled, Zenon DEF CloseTab
<1>14. QED
  BY <1>4, <1>5, <1>6, <1>7, <1>8, <1>9, <1>10, <1>11, <1>12, <1>13 DEF HandleMessage

\* After a message the loop drains the channel or has ended.
LEMMA HandleMessageNext ==
    ASSUME HandleMessage
    PROVE  pc' \in {"drain", "ended"}
<1>1. ASSUME NEW t, NEW r, NEW kind, NEW url, NEW p, begin_gated_navigation(t, r, kind, url, p)
      PROVE  pc' \in {"drain", "ended"}
  BY <1>1, Zenon DEF begin_gated_navigation, reply_success, write_error, send_frame, Write
<1>2. ASSUME NEW t, clickOn(t) PROVE pc' \in {"drain", "ended"}
  BY <1>1, <1>2, Zenon DEF clickOn, Silently, write_error, Repaint, send_frame, Write
<1>3. CASE Hello \/ ListTabs \/ Shutdown \/ \E kind \in {"Chrome", "Unknown"} : Ignored(kind)
  BY <1>3, Zenon DEF Hello, ListTabs, Shutdown, Ignored, Silently, Write
<1>4. CASE OpenBlankTab \/ \E url \in Urls : OpenTab(url)
  BY <1>1, <1>4 DEF OpenBlankTab, OpenTab, Write
<1>5. ASSUME NEW t \in TabIds, UnknownTab(t) PROVE pc' \in {"drain", "ended"}
  BY <1>5 DEF UnknownTab, write_error, Write
<1>6. ASSUME NEW t \in TabIds, NEW url \in Urls, Navigate(t, url) PROVE pc' \in {"drain", "ended"}
  BY <1>1, <1>5, <1>6 DEF Navigate
<1>7. ASSUME NEW t \in TabIds, NEW size \in Sizes, Resize(t, size) PROVE pc' \in {"drain", "ended"}
  BY <1>7 DEF Resize, send_frame, write_error, Write
<1>8. ASSUME NEW t \in TabIds, Click(t) \/ ActOn(t) \/ Scroll(t) \/ Highlight(t)
      PROVE  pc' \in {"drain", "ended"}
  BY <1>2, <1>5, <1>8, Zenon DEF Click, ActOn, Scroll, Highlight, Repaint, send_frame, Write
<1>9. ASSUME NEW t \in TabIds,
             Hover(t) \/ GetRepresentation(t) \/ GetDom(t) \/ GetScriptReports(t) \/ CloseTab(t)
      PROVE  pc' \in {"drain", "ended"}
  BY <1>5, <1>9, Zenon DEF Hover, GetRepresentation, GetDom, GetScriptReports, CloseTab, Silently,
       Query, Write
<1>10. QED
  BY <1>3, <1>4, <1>6, <1>7, <1>8, <1>9, Zenon DEF HandleMessage

-----------------------------------------------------------------------------
(* What the other steps of the loop write.                                 *)

\* A completion answers its own request, and only if it is current.
LEMMA DrainSaid ==
    ASSUME TypeOK, out \in Seq(Messages), Drain
    PROVE  \E n \in {0, 1, 2} : Said(Head(completions).req, n)
<1>0. PICK c, r : c = Head(completions) /\ r = c.req
  OBVIOUS
<1>1. c \in Jobs /\ c.tab \in Nat /\ r \in Nat /\ FramesOK
  <2>1. c \in Unfinished
    BY <1>0, DrainUnfinished, Zenon DEF Unfinished
  <2>2. QED
    BY <1>0, <2>1, UnfinishedType, NumbersGrow DEF TabIds, TypeOK
<1>2. CASE UNCHANGED <<tabVars, frameVars, pc, out>>
  BY <1>2, MuteSaid, Zenon DEF Unpainted, tabVars
<1>3. ASSUME Current(c), NEW p \in Fetched(c), put(c.tab, p), reply_success(c.tab, c.req, c.kind, p)
      PROVE  \E n \in {0, 1, 2} : Said(r, n)
  <2>1. c.tab \in DOMAIN tabs
    BY <1>3 DEF Current, Live
  <2>2. p \in Pages
    <3>1. PICK v \in Views : p = [Page(c.url, c.req, tabs[c.tab].size) EXCEPT !.view = v]
      BY TabsAssumption DEF Fetched
    <3>2. tabs[c.tab].size \in Sizes
      BY <2>1, Zenon DEF TypeOK, TabsOK, Pages
    <3>3. c.url \in Urls /\ c.req \in 0..MaxRequests
      BY <1>1 DEF Jobs, Web, Requests
    <3>4. QED
      BY <3>1, <3>2, <3>3, PageType, SMT DEF Pages
  <2>3. tabs'[c.tab] = p /\ \A u \in DOMAIN tabs \cap DOMAIN tabs' : u # c.tab => tabs'[u] = tabs[u]
    BY <1>3 DEF put, WithPage
  <2>4. QED
    BY <1>0, <1>1, <1>3, <2>1, <2>2, <2>3, SuccessSaid, Zenon
<1>4. ASSUME Current(c), NEW type \in {"GatekeeperBlocked", "Error"},
             Write(<<Message(type, c.tab, c.req)>>, "drain"), UNCHANGED <<tabVars, frameVars>>
      PROVE  \E n \in {0, 1, 2} : Said(r, n)
  <2>0. PICK m : m = Message(type, c.tab, c.req)
    BY SMT
  <2>1. m \in Messages
    BY <1>0, <1>1, <2>0, MessageType, Zenon DEF MessageTypes
  <2>2. m.type = type /\ m.tab = c.tab /\ m.req = r
    BY <1>0, <2>0 DEF Message
  <2>3. m.tab \in DOMAIN tabs /\ Unpainted
    BY <1>4, <2>2 DEF Current, Live, Unpainted, tabVars
  <2>4. \E n \in {0, 1} : Said(m.req, n)
    BY <1>4, <2>0, <2>1, <2>2, <2>3, ReplySaid
  <2>5. QED
    BY <2>2, <2>4, Zenon
<1>5. QED
  BY <1>0, <1>2, <1>3, <1>4, Zenon DEF Drain, apply_completion, write_error

\* The handshake is answered under number 0.
LEMMA HandshakeSaid ==
    ASSUME TypeOK, out \in Seq(Messages), Handshake
    PROVE  \E n \in {0, 1, 2} : Said(0, n)
<1>1. PICK type \in {"Hello", "Error"}, next \in {"read", "ended"} :
          Write(<<Message(type, 0, 0)>>, next) /\ Unmoved
  BY DEF Handshake, NoTab
<1>2. PICK m : m = Message(type, 0, 0)
  OBVIOUS
<1>3. m \in Messages /\ m.type = type /\ m.tab = 0 /\ m.req = 0
  <2>1. m \in Messages
    BY <1>2, MessageType, SMT DEF MessageTypes
  <2>2. QED
    BY <1>2, <2>1, Zenon DEF Message
<1>4. \E n \in {0, 1} : Said(m.req, n)
  BY <1>1, <1>2, <1>3, ReplySaid, UnmovedUnpainted, SMT DEF NoTab
<1>5. QED
  BY <1>3, <1>4, SMT

\* A step that is none of these says nothing and moves neither the handshake
\* nor the end back.
Silent ==
    /\ UNCHANGED <<out, requests, frameVars>>
    /\ Unpainted
    /\ pc' = "handshake" => pc = "handshake"
    /\ pc = "ended" => pc' = "ended"

\* Whom a step answers.
LEMMA StepSaid ==
    ASSUME TypeOK, out \in Seq(Messages), [Next]_vars
    PROVE  \/ Handled /\ HandleMessage /\ requests' = Req /\ pc = "read"
           \/ Drain /\ \E n \in {0, 1, 2} : Said(Head(completions).req, n)
           \/ Handshake /\ \E n \in {0, 1, 2} : Said(0, n)
           \/ Silent
<1>1. CASE HandleMessage
  BY <1>1, HandleMessageHandled
<1>2. CASE Drain
  BY <1>2, DrainSaid
<1>3. CASE Handshake
  BY <1>3, HandshakeSaid
<1>4. CASE Timeout \/ Disconnect
  BY <1>4, UnmovedUnpainted, Zenon DEF Timeout, Disconnect, Silently, Silent
<1>5. CASE EndTurn
  BY <1>5 DEF EndTurn, Silent, Unpainted, tabVars
<1>6. CASE Gatekeeper \/ Network \/ Sender
  BY <1>6, Zenon DEF Gatekeeper, Network, Sender, Elsewhere, Silent, Unpainted, tabVars
<1>7. CASE UNCHANGED vars
  BY <1>7 DEF vars, Silent, Unpainted, tabVars
<1>8. QED
  BY <1>1, <1>2, <1>3, <1>4, <1>5, <1>6, <1>7, Zenon DEF Next, Loop, Ended

-----------------------------------------------------------------------------
(* One answer for each request.                                            *)

\* What makes OneAnswerPerRequest inductive: nothing has been written for a
\* request that was not read yet, and nothing at all before the handshake.
AnswerInv ==
    /\ out \in Seq(Messages)
    /\ pc = "handshake" => out = <<>>
    /\ \A i \in DOMAIN out : out[i].req <= requests
    /\ OneAnswerPerRequest

\* The places of the messages before and after a step.
LEMMA Places ==
    ASSUME out \in Seq(Messages), NEW n \in {0, 1, 2}, Grows(n)
    PROVE  /\ DOMAIN out = 1..Len(out) /\ Len(out) \in Nat
           /\ \A i \in DOMAIN out' : i \in DOMAIN out \/ i \in Added(n)
           /\ \A i \in DOMAIN out : i \in DOMAIN out' /\ out'[i] = out[i]
           /\ \A i \in Added(n) : i \in DOMAIN out' /\ i \notin DOMAIN out /\ n # 0
           /\ \A i \in DOMAIN out, j \in Added(n) : i < j /\ ~(j < i)
           /\ \A i, j \in Added(n) : i < j => n = 2 /\ j = i + 1 /\ j = Len(out) + 2
<1>1. PICK l : l = Len(out)
  OBVIOUS
<1>2. l \in Nat /\ DOMAIN out = 1..l
  BY <1>1, SMT
<1>3. DOMAIN out' = 1..(l + n) /\ \A i \in 1..l : out'[i] = out[i]
  BY <1>1, SMT DEF Grows
<1>4. Added(n) = (l + 1)..(l + n)
  BY <1>1 DEF Added
<1>5. ASSUME NEW i \in Added(n), NEW j \in Added(n), i < j
      PROVE  n = 2 /\ j = i + 1 /\ j = l + 2
  BY <1>2, <1>4, <1>5
<1>6. QED
  BY <1>2, <1>3, <1>4, SMT

\* A step that answers a request for the first time.
LEMMA FirstAnswer ==
    ASSUME AnswerInv, NEW r \in Nat, NEW n \in {0, 1, 2}, Said(r, n),
           n # 0 => \A i \in DOMAIN out : out[i].req # r,
           n # 0 => \A c \in Unfinished' : c.req # r,
           \A c \in Unfinished', i \in DOMAIN out : out[i].req # c.req
    PROVE  OneAnswerPerRequest'
<1>1. Grows(n) /\ Replies(r, n) /\ out \in Seq(Messages)
  BY DEF Said, AnswerInv
<1>2. /\ \A i \in DOMAIN out' : i \in DOMAIN out \/ i \in Added(n)
      /\ \A i \in DOMAIN out : out'[i] = out[i]
      /\ \A i \in Added(n) : n # 0 /\ out'[i].req = r
      /\ \A i \in DOMAIN out, j \in Added(n) : ~(j < i)
      /\ \A i, j \in Added(n) : i < j => j = i + 1 /\ out'[j].type = "FrameReady"
  BY <1>1, Places, SMT DEF Replies
<1>3. ASSUME NEW i \in DOMAIN out', NEW j \in DOMAIN out', i < j, out'[i].req = out'[j].req
      PROVE  j = i + 1 /\ out'[j].type = "FrameReady"
  <2>1. CASE i \in DOMAIN out /\ j \in DOMAIN out
    BY <1>2, <1>3 DEF AnswerInv, OneAnswerPerRequest
  <2>2. CASE i \in Added(n) /\ j \in Added(n)
    BY <1>2, <1>3, <2>2, Zenon
  <2>3. QED
    BY <1>2, <1>3, <2>1
<1>4. ASSUME NEW c \in Unfinished', NEW i \in DOMAIN out' PROVE out'[i].req # c.req
  BY <1>2
<1>5. QED
  BY <1>3, <1>4, Zenon DEF OneAnswerPerRequest

\* Nobody works for a request that was not read, and only the request being
\* read gets a navigation.
LEMMA NewNavigations ==
    ASSUME NavInv, [Next]_vars
    PROVE  \A c \in Unfinished' :
              \/ \E d \in Unfinished : d.req = c.req
              \/ c.req = Req /\ requests' = Req
<1>1. CASE Quiet
  BY <1>1, Zenon DEF Quiet, fetchVars, Unfinished, InChannel
<1>2. ASSUME NEW t \in TabIds, NEW kind \in Kinds, NEW url \in Urls, NEW p \in Pages,
             Began(t, kind, url, p), NEW c \in Unfinished'
      PROVE  c \in Unfinished \/ (c.req = Req /\ requests' = Req)
  <2>1. c \in Unfinished \/ c = NewJob(t, kind, url)
    BY <1>2, BeganEffect, BeganUnfinished, Zenon DEF NavInv
  <2>2. NewJob(t, kind, url).req = Req /\ requests' = Req
    BY <1>2, Zenon DEF NewJob, Began
  <2>3. QED
    BY <2>1, <2>2
<1>3. CASE Drain
  BY <1>3, DrainUnfinished, Zenon DEF NavInv
<1>4. ASSUME NEW j \in threads,
             CheckUrl(j) \/ CheckContent(j) \/ fetch(j) \/ send(j, pc # "ended")
      PROVE  \A c \in Unfinished' : \E d \in Unfinished : d.req = c.req
  BY <1>4, ThreadEffect, Zenon DEF NavInv, Unfinished
<1>5. QED
  BY <1>1, <1>2, <1>3, <1>4, StepEffect, Zenon DEF NavInv, SomethingBegan

\* Every step preserves AnswerInv.
LEMMA AnswerStep ==
    ASSUME NavInv, AnswerInv, [Next]_vars
    PROVE  AnswerInv'
<1>1. /\ TypeOK /\ out \in Seq(Messages) /\ requests \in Nat /\ Req = requests + 1
      /\ \A i \in DOMAIN out : out[i].req \in Nat /\ out[i].req <= requests
      /\ \A c \in Unfinished : c.req \in Nat /\ c.req <= requests
  <2>1. \A i \in DOMAIN out : out[i] \in Messages
    BY DEF AnswerInv
  <2>2. \A i \in DOMAIN out : out[i].req \in Nat
    BY <2>1, Zenon DEF Messages
  <2>3. QED
    BY <2>2, NumbersGrow DEF NavInv, AnswerInv, OrderInv
<1>2. requests' \in Nat /\ requests <= requests'
  <2>1. \E r : r = requests /\ (requests' = r \/ requests' = r + 1)
    BY <1>1, StepSaid DEF Drain, Handshake, Silent
  <2>2. QED
    BY <1>1, <2>1
<1>3. \A c \in Unfinished', i \in DOMAIN out : out[i].req # c.req
  BY <1>1, NewNavigations DEF AnswerInv, OneAnswerPerRequest
<1>4. ASSUME NEW r \in Nat, NEW n \in {0, 1, 2}, Said(r, n), n # 0 => r <= requests',
             n # 0 => \A i \in DOMAIN out : out[i].req # r,
             n # 0 => \A c \in Unfinished' : c.req # r,
             pc' # "handshake"
      PROVE  AnswerInv'
  <2>1. OneAnswerPerRequest'
    BY <1>3, <1>4, FirstAnswer
  <2>2. Grows(n) /\ Replies(r, n)
    BY <1>4, SMT DEF Said
  <2>3. \A i \in DOMAIN out' : out'[i].req <= requests'
    <3>1. TAKE i \in DOMAIN out'
    <3>2. CASE i \in DOMAIN out
      BY <1>1, <1>2, <2>2, <3>2, Places
    <3>3. CASE i \in Added(n)
      BY <1>1, <1>4, <2>2, <3>3, Places, Zenon DEF Replies
    <3>4. QED
      BY <1>1, <2>2, <3>2, <3>3, Places
  <2>4. QED
    BY <1>4, <2>1, <2>2, <2>3 DEF AnswerInv, Grows
<1>5. CASE Handled /\ HandleMessage /\ requests' = Req /\ pc = "read"
  <2>0. PICK r : r = Req
    OBVIOUS
  <2>1. PICK n \in {0, 1, 2} : r = Req /\ Said(r, n) /\ (n # 0 => UNCHANGED fetchVars)
    BY <1>5, <2>0, SMT DEF Handled
  <2>2. n # 0 => \A c \in Unfinished' : c.req # r
    BY <1>1, <2>1 DEF fetchVars, Unfinished, InChannel
  <2>3. pc' # "handshake"
    BY <1>5, HandleMessageNext
  <2>4. QED
    BY <1>1, <1>4, <1>5, <2>1, <2>2, <2>3
<1>6. CASE Drain /\ \E n \in {0, 1, 2} : Said(Head(completions).req, n)
  <2>0. PICK r : r = Head(completions).req
    OBVIOUS
  <2>1. PICK n \in {0, 1, 2} : r = Head(completions).req /\ Said(r, n)
    BY <1>6, <2>0, Zenon
  <2>2. \E c \in Unfinished : c.req = r
    BY <1>6, <2>1, DrainUnfinished, Zenon DEF NavInv, Unfinished
  <2>3. \A c \in Unfinished' : c.req # r
    BY <1>6, <2>1, FlightDrain, SMT DEF NavInv
  <2>4. \A i \in DOMAIN out : out[i].req # r
    BY <2>2, Zenon DEF AnswerInv, OneAnswerPerRequest
  <2>5. pc' # "handshake"
    BY <1>6, Zenon DEF Drain, apply_completion, reply_success, send_frame, write_error, Write
  <2>6. QED
    BY <1>1, <1>2, <1>4, <2>1, <2>2, <2>3, <2>4, <2>5, SMTT(30)
<1>7. CASE Handshake /\ \E n \in {0, 1, 2} : Said(0, n)
  <2>1. DOMAIN out = {}
    BY <1>7 DEF Handshake, AnswerInv
  <2>2. pc' # "handshake"
    BY <1>7, Zenon DEF Handshake, Write
  <2>3. \A c \in Unfinished' : c.req # 0
    BY <1>7, UnfinishedType DEF NavInv, Handshake, Unmoved, fetchVars, Unfinished, InChannel,
         Jobs, Requests
  <2>4. QED
    BY <1>2, <1>4, <1>7, <2>1, <2>2, <2>3, SMTT(30)
<1>8. CASE Silent
  BY <1>3, <1>8 DEF Silent, AnswerInv, OneAnswerPerRequest
<1>9. QED
  BY <1>1, <1>5, <1>6, <1>7, <1>8, StepSaid, Zenon

\* However late a navigation finishes, and whatever the client asks meanwhile,
\* its request is answered at most once: by one reply, with at most one frame
\* behind it.
THEOREM RequestsAnsweredOnce == Spec => []OneAnswerPerRequest
<1>1. Init => AnswerInv
  BY SMT DEF Init, AnswerInv, OneAnswerPerRequest
<1>2. NavInv /\ AnswerInv /\ [Next]_vars => AnswerInv'
  BY AnswerStep, Zenon
<1>3. AnswerInv => OneAnswerPerRequest
  BY DEF AnswerInv
<1>4. QED
  BY <1>1, <1>2, <1>3, NavigationHolds, PTL DEF Spec

-----------------------------------------------------------------------------
(* A closed tab is silent.                                                 *)

\* What makes ClosedTabIsSilent inductive: a tab that was reported closed is
\* not open, and its id is below the next one to be given out.
ClosedInv ==
    /\ \A i \in DOMAIN out :
          out[i].type = "TabClosed" => out[i].tab < next_tab_id /\ out[i].tab \notin DOMAIN tabs \cup {NoTab}
    /\ ClosedTabIsSilent

\* Tab ids are given out in order and never again.
LEMMA IdsGrow ==
    ASSUME NavInv, [Next]_vars
    PROVE  /\ next_tab_id \in Int /\ next_tab_id' \in Int /\ next_tab_id <= next_tab_id'
           /\ \A t \in DOMAIN tabs' : t \in DOMAIN tabs \/ t = next_tab_id
<1>0. next_tab_id \in Int
  BY DEF NavInv, TypeOK, TabsOK
<1>1. CASE Quiet
  <2>1. CASE SameTabs
    BY <1>0, <2>1 DEF SameTabs
  <2>2. CASE OneOpens
    BY <1>0, <2>2 DEF OneOpens
  <2>3. CASE OneCloses
    BY <1>0, <2>3 DEF OneCloses
  <2>4. QED
    BY <1>1, <2>1, <2>2, <2>3, Zenon DEF Quiet
<1>2. ASSUME NEW t \in TabIds, NEW kind \in Kinds, NEW url \in Urls, NEW p \in Pages,
             Began(t, kind, url, p)
      PROVE  /\ next_tab_id' \in Int /\ next_tab_id <= next_tab_id'
             /\ \A u \in DOMAIN tabs' : u \in DOMAIN tabs \/ u = next_tab_id
  <2>1. /\ DOMAIN tabs' = DOMAIN tabs \cup {t}
        /\ next_tab_id' = IF kind = "OpenTab" THEN next_tab_id + 1 ELSE next_tab_id
    BY <1>2, BeganEffect, SMT DEF NavInv
  <2>2. t = next_tab_id \/ t \in DOMAIN tabs
    BY <1>2 DEF Began
  <2>3. QED
    BY <1>0, <2>1, <2>2, SMTT(30)
<1>3. CASE Drain
  <2>1. DOMAIN tabs' = DOMAIN tabs
    BY <1>3, DrainEffect, Zenon DEF NavInv
  <2>2. next_tab_id' = next_tab_id
    BY <1>3 DEF Drain, apply_completion, put, tabVars
  <2>3. QED
    BY <1>0, <2>1, <2>2
<1>4. CASE Elsewhere
  BY <1>0, <1>4 DEF Elsewhere, tabVars
<1>5. QED
  BY <1>0, <1>1, <1>2, <1>3, <1>4, StepEffect DEF NavInv, SomethingBegan

\* What a step says of tabs that were closed.
LEMMA ClosedSaid ==
    ASSUME NavInv, AnswerInv, ClosedInv, [Next]_vars, NEW r, NEW n \in {0, 1, 2}, Said(r, n)
    PROVE  ClosedInv'
<1>1. Grows(n) /\ Replies(r, n) /\ out \in Seq(Messages)
  BY DEF Said, AnswerInv
<1>2. /\ \A i \in DOMAIN out' : i \in DOMAIN out \/ i \in Added(n)
      /\ \A i \in DOMAIN out : out'[i] = out[i]
      /\ \A i \in DOMAIN out, j \in Added(n) : ~(j < i)
      /\ \A i, j \in Added(n) : i < j => out'[i].type # "TabClosed"
  <2>1. ASSUME NEW i \in Added(n), NEW j \in Added(n), i < j PROVE out'[i].type # "TabClosed"
    <3>1. n = 2 /\ j = i + 1 /\ j = Len(out) + 2 /\ Len(out) \in Nat
      BY <1>1, <2>1, Places, Zenon
    <3>2. i = Len(out) + 1
      BY <3>1
    <3>3. out'[Len(out) + 1].type # "TabClosed"
      BY <1>1, <3>1, Zenon DEF Replies
    <3>4. QED
      BY <3>2, <3>3, Zenon
  <2>2. QED
    BY <1>1, <2>1, Places, Zenon
<1>3. /\ next_tab_id \in Int /\ next_tab_id' \in Int /\ next_tab_id <= next_tab_id'
      /\ \A t \in DOMAIN tabs' : t \in DOMAIN tabs \/ t = next_tab_id
      /\ \A t \in DOMAIN tabs : t \in Int /\ t < next_tab_id /\ t # NoTab
  BY IdsGrow DEF NavInv, TypeOK, TabsOK, NoTab
<1>4. /\ \A i \in DOMAIN out : out[i] \in Messages
      /\ \A i \in DOMAIN out : out[i].req \in Nat /\ out[i].tab \in Nat /\ out[i].req <= requests
      /\ Req = requests + 1 /\ requests \in Nat
  <2>1. \A i \in DOMAIN out : out[i] \in Messages
    BY <1>1, SMT
  <2>2. \A i \in DOMAIN out : out[i].req \in Nat /\ out[i].tab \in Nat
    BY <2>1, Zenon DEF Messages
  <2>3. QED
    BY <2>2, NumbersGrow DEF NavInv, AnswerInv
<1>5. ASSUME NEW i \in DOMAIN out', out'[i].type = "TabClosed"
      PROVE  out'[i].tab < next_tab_id' /\ out'[i].tab \notin DOMAIN tabs' \cup {NoTab}
  <2>1. CASE i \in DOMAIN out
    <3>1. /\ out[i].tab < next_tab_id /\ out[i].tab \notin DOMAIN tabs \cup {NoTab}
          /\ out'[i] = out[i] /\ out[i].tab \in Nat
      BY <1>2, <1>4, <1>5, <2>1 DEF ClosedInv
    <3>2. out[i].tab < next_tab_id' /\ out[i].tab # next_tab_id
      BY <1>3, <3>1
    <3>3. QED
      BY <1>3, <3>1
  <2>2. CASE i \in Added(n)
    <3>1. out'[i].tab \in DOMAIN tabs \ DOMAIN tabs'
      BY <1>1, <1>5, <2>2, Zenon DEF Replies
    <3>2. QED
      BY <1>3, <3>1
  <2>3. QED
    BY <1>2, <2>1, <2>2
<1>6. ASSUME NEW i \in DOMAIN out', NEW j \in DOMAIN out', i < j,
             out'[i].type = "TabClosed", out'[j].tab = out'[i].tab
      PROVE  out'[j].type = "Error" /\ out'[j].req > out'[i].req
  <2>1. CASE i \in DOMAIN out /\ j \in DOMAIN out
    BY <1>2, <1>6, <2>1 DEF ClosedInv, ClosedTabIsSilent
  <2>2. CASE i \in DOMAIN out /\ j \in Added(n)
    <3>1. /\ out'[i] = out[i] /\ out[i].tab < next_tab_id
          /\ out[i].tab \notin DOMAIN tabs \cup {NoTab} /\ out[i].tab \in Nat
      BY <1>2, <1>4, <1>6, Zenon DEF ClosedInv
    <3>2. out'[j].tab \notin DOMAIN tabs \cup {NoTab, next_tab_id}
      BY <1>6, <3>1
    <3>3. out'[j].type = "Error" /\ out'[j].req = Req
      BY <1>1, <2>2, <3>2 DEF Replies
    <3>4. out[i].req < Req
      BY <1>4, <2>2
    <3>5. QED
      BY <3>1, <3>3, <3>4
  <2>3. QED
    BY <1>2, <1>6, <2>1, <2>2, SMTT(30)
<1>7. QED
  BY <1>5, <1>6, Zenon DEF ClosedInv, ClosedTabIsSilent

\* Every step says its messages for some request.
LEMMA SomethingSaid ==
    ASSUME NavInv, AnswerInv, [Next]_vars
    PROVE  \E r : \E n \in {0, 1, 2} : Said(r, n)
<1>1. TypeOK /\ out \in Seq(Messages)
  BY DEF NavInv, AnswerInv
<1>2. CASE Silent
  BY <1>1, <1>2, MuteSaid DEF Silent
<1>3. QED
  BY <1>1, <1>2, StepSaid, Zenon DEF Handled

\* Once a client has read that a tab is closed, no late completion and no
\* new tab under the old id confuses it: it reads errors at most.
THEOREM ClosedTabsStaySilent == Spec => []ClosedTabIsSilent
<1>1. Init => AnswerInv /\ ClosedInv
  BY DEF Init, AnswerInv, OneAnswerPerRequest, ClosedInv, ClosedTabIsSilent
<1>2. NavInv /\ AnswerInv /\ [Next]_vars => AnswerInv'
  BY AnswerStep
<1>3. NavInv /\ AnswerInv /\ ClosedInv /\ [Next]_vars => ClosedInv'
  BY SomethingSaid, ClosedSaid
<1>4. ClosedInv => ClosedTabIsSilent
  BY DEF ClosedInv
<1>5. QED
  BY <1>1, <1>2, <1>3, <1>4, NavigationHolds, PTL DEF Spec

-----------------------------------------------------------------------------
(* A change is painted.                                                    *)

\* A step that changes an open page ends by announcing a frame of it.
LEMMA StepPaints ==
    ASSUME NavInv, AnswerInv, ~Scripting, [Next]_vars,
           NEW t \in DOMAIN tabs, pc' # "ended", t \in DOMAIN tabs', tabs'[t] # tabs[t]
    PROVE  out'[Len(out')] = Depicting("FrameReady", t, out'[Len(out')].req, generation', tabs'[t])
<1>1. PICK r : \E n \in {0, 1, 2} : Said(r, n)
  BY SomethingSaid
<1>2. PICK n \in {0, 1, 2} : Said(r, n)
  BY <1>1
<1>3. Len(out') = Len(out) + n
  BY <1>2 DEF Said, Grows
<1>4. out'[Len(out) + n] = Depicting("FrameReady", t, r, generation', tabs'[t])
  BY <1>2 DEF Said, Paints
<1>5. Depicting("FrameReady", t, r, generation', tabs'[t]).req = r
  BY Zenon DEF Depicting
<1>6. QED
  BY <1>3, <1>4, <1>5

\* Without page scripts, every handler and every completion that changes an
\* open page announces a frame of the page as it then is.
THEOREM EveryChangeIsPainted ==
    ASSUME ~Scripting
    PROVE  Spec => ChangeIsPainted
<1>1. Init => AnswerInv
  BY DEF Init, AnswerInv, OneAnswerPerRequest
<1>2. NavInv /\ AnswerInv /\ [Next]_vars => AnswerInv'
  BY AnswerStep, Zenon
<1>3. NavInv /\ AnswerInv /\ [Next]_vars =>
          [ \A t \in DOMAIN tabs :
              /\ out' # out \/ pc = "read"
              /\ pc' # "ended"
              /\ t \in DOMAIN tabs'
              /\ tabs'[t] # tabs[t]
              => out'[Len(out')] = Depicting("FrameReady", t, out'[Len(out')].req,
                                             generation', tabs'[t]) ]_vars
  BY StepPaints
<1>4. QED
  BY <1>1, <1>2, <1>3, NavigationHolds, PTL DEF Spec, ChangeIsPainted

-----------------------------------------------------------------------------
(* Frames are numbered and retained.                                       *)

\* What makes FramesNumberedAndRetained inductive: until the session ends,
\* every frame that was counted has been announced.
FrameInv ==
    /\ FramesNumberedAndRetained
    /\ pc # "ended" => generation = Cardinality(Announced(Len(out)))

\* The retention window moves with the counter.
LEMMA WindowMoves ==
    ASSUME FramesOK, next_frame, frames = {g \in 1..generation : g > generation - Retained}
    PROVE  frames' = {g \in 1..generation' : g > generation' - Retained}
<1>1. generation \in Nat /\ generation' = generation + 1
  BY DEF FramesOK, next_frame
<1>2. Retained \in Nat /\ Retained # 0
  BY RetainedAssumption
<1>3. frames' = (frames \cup {generation + 1}) \ Expired(generation + 1)
  BY DEF next_frame, write_frame
<1>4. ASSUME NEW g PROVE g \in frames' <=> g \in 1..generation' /\ g > generation' - Retained
  <2>1. g \in frames <=> g \in 1..generation /\ g > generation - Retained
    OBVIOUS
  <2>2. g \in Expired(generation + 1) <=> generation + 1 >= Retained /\ g = generation + 1 - Retained
    BY <1>1, <1>2 DEF Expired
  <2>3. CASE g \in Int
    BY <1>1, <1>2, <1>3, <2>2
  <2>4. CASE g \notin Int
    BY <1>1, <1>3, <2>4
  <2>5. QED
    BY <2>3, <2>4
<1>5. PICK W : W = {g \in 1..generation' : g > generation' - Retained}
  BY Zenon
<1>6. \A g : g \in frames' <=> g \in W
  BY <1>4, <1>5, Zenon
<1>7. frames' = W
  BY <1>6, Zenon
<1>8. QED
  BY <1>5, <1>7

\* The facts about finite sets, used from here on only.
INSTANCE FiniteSetTheorems

\* The frames announced so far are a finite set.
LEMMA AnnouncedFinite ==
    ASSUME NEW n \in Nat
    PROVE  IsFiniteSet(Announced(n))
<1>1. IsFiniteSet(1..n)
  BY FS_Interval, SMTT(30)
<1>2. QED
  BY <1>1, FS_Subset, SMTT(30) DEF Announced

\* What a step that writes does to the count of frames.
LEMMA FrameSaidStep ==
    ASSUME NavInv, AnswerInv, FrameInv, NEW r, NEW n \in {0, 1, 2}, Said(r, n), pc # "ended"
    PROVE  FrameInv'
<1>1. Grows(n) /\ Numbers(n) /\ out \in Seq(Messages) /\ FramesOK
  BY DEF Said, AnswerInv, NavInv, TypeOK
<1>2. PICK l : l = Len(out) /\ l \in Nat /\ DOMAIN out = 1..l
  BY <1>1
<1>3. Len(out') = l + n /\ DOMAIN out' = 1..(l + n) /\ Added(n) = (l + 1)..(l + n)
  BY <1>1, <1>2, SMTT(30) DEF Grows, Added
<1>4. \A i \in 1..l : out'[i] = out[i]
  BY <1>1, <1>2, SMTT(30) DEF Grows
<1>5. \A i \in 1..l : Announced(i)' = Announced(i)
  BY <1>2, <1>4 DEF Announced
<1>6. generation = Cardinality(Announced(l)) /\ generation \in Nat
  BY <1>1, <1>2, SMTT(30) DEF FrameInv, FramesOK
<1>7. \A i \in 1..l : out'[i].type = "FrameReady" => out'[i].gen = Cardinality(Announced(i)')
  BY <1>2, <1>4, <1>5, SMTT(30) DEF FrameInv, FramesNumberedAndRetained
<1>8. CASE UNCHANGED frameVars /\ \A i \in Added(n) : out'[i].type # "FrameReady"
  <2>1. Announced(l + n)' = Announced(l)
    BY <1>2, <1>3, <1>4, <1>8, SMTT(30) DEF Announced
  <2>2. \A i \in DOMAIN out' : out'[i].type = "FrameReady" => i \in 1..l
    BY <1>2, <1>3, <1>8, SMTT(30)
  <2>3. FramesNumberedAndRetained'
    BY <1>7, <1>8, <2>2, Zenon DEF FramesNumberedAndRetained, FrameInv, frameVars
  <2>4. QED
    BY <1>3, <1>6, <1>8, <2>1, <2>3, Zenon DEF FrameInv, frameVars
<1>9. CASE /\ next_frame
           /\ \A i \in Added(n) :
                 out'[i].type = "FrameReady" => i = Len(out) + n /\ out'[i].gen = generation + 1
           /\ pc' = "ended" \/ (n > 0 /\ out'[Len(out) + n].type = "FrameReady")
  <2>1. generation' = generation + 1
    BY <1>9 DEF next_frame
  <2>2. ASSUME n > 0, out'[l + n].type = "FrameReady"
        PROVE  Cardinality(Announced(l + n)') = generation + 1
    <3>1. Announced(l + n)' = Announced(l) \cup {l + n}
      BY <1>2, <1>3, <1>4, <1>9, <2>2, SMTT(30) DEF Announced
    <3>2. l + n \notin Announced(l)
      BY <1>2, <2>2, SMTT(30) DEF Announced
    <3>3. QED
      BY <1>2, <1>6, <3>1, <3>2, AnnouncedFinite, FS_AddElement, Zenon
  <2>3. ASSUME NEW i \in DOMAIN out', out'[i].type = "FrameReady"
        PROVE  out'[i].gen = Cardinality(Announced(i)')
    <3>1. CASE i \in 1..l
      BY <1>7, <2>3, <3>1, SMTT(30)
    <3>2. CASE i \in Added(n)
      <4>1. i = l + n /\ n > 0 /\ out'[i].gen = generation + 1
        BY <1>2, <1>3, <1>9, <2>3, <3>2, SMTT(30)
      <4>2. QED
        BY <2>2, <2>3, <4>1, SMTT(30)
    <3>3. QED
      BY <1>2, <1>3, <3>1, <3>2, SMTT(30)
  <2>4. FramesNumberedAndRetained'
    <3>1. frames' = {g \in 1..generation' : g > generation' - Retained}
      BY <1>1, <1>9, WindowMoves DEF FrameInv, FramesNumberedAndRetained
    <3>2. QED
      BY <2>3, <3>1, Zenon DEF FramesNumberedAndRetained
  <2>5. pc' # "ended" => generation' = Cardinality(Announced(Len(out))')
    BY <1>2, <1>3, <1>9, <2>1, <2>2, Zenon
  <2>6. QED
    BY <2>4, <2>5, SMTT(30) DEF FrameInv
<1>10. QED
  BY <1>1, <1>8, <1>9, SMTT(30) DEF Numbers

\* Every step preserves FrameInv.
LEMMA FrameStep ==
    ASSUME NavInv, AnswerInv, FrameInv, [Next]_vars
    PROVE  FrameInv'
<1>1. TypeOK /\ out \in Seq(Messages)
  BY DEF NavInv, AnswerInv
<1>2. CASE Silent
  BY <1>2 DEF Silent, FrameInv, FramesNumberedAndRetained, Announced, frameVars
<1>3. CASE pc # "ended" /\ \E r : \E n \in {0, 1, 2} : Said(r, n)
  BY <1>3, FrameSaidStep
<1>4. QED
  BY <1>1, <1>2, <1>3, StepSaid, SMTT(30) DEF Handled, Drain, Handshake

\* The i-th frame a client is told of is number i, however requests,
\* completions and failing writes interleave, and exactly the newest
\* Retained frame files exist.
THEOREM FramesAreNumberedAndRetained == Spec => []FramesNumberedAndRetained
<1>1. Init => AnswerInv /\ FrameInv
  <2> SUFFICES ASSUME Init PROVE AnswerInv /\ FrameInv
    BY Zenon
  <2>1. AnswerInv
    BY DEF Init, AnswerInv, OneAnswerPerRequest
  <2>2. Announced(Len(out)) = {} /\ Cardinality({}) = 0
    BY FS_EmptySet DEF Init, Announced
  <2>3. frames = {g \in 1..generation : g > generation - Retained}
    BY DEF Init
  <2>4. \A i \in DOMAIN out : out[i].type = "FrameReady" => out[i].gen = Cardinality(Announced(i))
    BY DEF Init
  <2>5. generation = Cardinality(Announced(Len(out)))
    BY <2>2, Zenon DEF Init
  <2>6. QED
    BY <2>1, <2>3, <2>4, <2>5, SMTT(30) DEF FrameInv, FramesNumberedAndRetained
<1>2. NavInv /\ AnswerInv /\ [Next]_vars => AnswerInv'
  BY AnswerStep, Zenon
<1>3. NavInv /\ AnswerInv /\ FrameInv /\ [Next]_vars => FrameInv'
  BY FrameStep
<1>4. FrameInv => FramesNumberedAndRetained
  BY DEF FrameInv
<1>5. QED
  BY <1>1, <1>2, <1>3, <1>4, NavigationHolds, PTL DEF Spec

=============================================================================
