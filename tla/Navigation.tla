----------------------------- MODULE Navigation -----------------------------
(***************************************************************************)
(* What a session promises about the document a tab shows, with no loop,   *)
(* thread, channel or sequence number: each open tab shows the document of *)
(* one request, at most one newer request is under way for it, and only    *)
(* that one can replace the document.  Session implements this.            *)
(***************************************************************************)
EXTENDS Integers

CONSTANTS
    TabIds,      \* the ids a tab can have
    MaxRequests  \* bound: client messages read

VARIABLES
    asked,    \* client messages read so far
    shown,    \* per open tab, the request that loaded its document; 0 if blank
    underway  \* per tab id, the request being navigated to: none or one

vars == <<asked, shown, underway>>

Open(t) == t \in DOMAIN shown

Show(t, r) == shown' = [u \in DOMAIN shown \cup {t} |-> IF u = t THEN r ELSE shown[u]]
Pursue(t, rs) == underway' = [underway EXCEPT ![t] = rs]

Ask == asked < MaxRequests /\ asked' = asked + 1

\* A navigation of an open tab is handed to the background, served at once
\* from a built-in page, or refused; each abandons the one under way.
Begin(t) == Ask /\ Open(t) /\ Pursue(t, {asked + 1}) /\ UNCHANGED shown
Serve(t) == Ask /\ Open(t) /\ Pursue(t, {}) /\ Show(t, asked + 1)
Refuse(t) == Ask /\ Open(t) /\ Pursue(t, {}) /\ UNCHANGED shown

\* A tab opens blank, with or without a navigation, or on a built-in page.
OpenTab(t) ==
    /\ Ask
    /\ ~Open(t)
    /\ \/ Show(t, 0) /\ Pursue(t, {})
       \/ Show(t, 0) /\ Pursue(t, {asked + 1})
       \/ Show(t, asked + 1) /\ Pursue(t, {})

CloseTab(t) ==
    /\ Ask
    /\ Open(t)
    /\ shown' = [u \in DOMAIN shown \ {t} |-> shown[u]]
    /\ Pursue(t, {})

\* Any message that is no navigation.
OtherMessage == Ask /\ UNCHANGED <<shown, underway>>

\* The navigation under way finishes.
Land(t) ==
    /\ Open(t)
    /\ \E r \in underway[t] : Show(t, r)
    /\ Pursue(t, {})
    /\ UNCHANGED asked

Fail(t) ==
    /\ underway[t] # {}
    /\ Pursue(t, {})
    /\ UNCHANGED <<asked, shown>>

Init ==
    /\ asked = 0
    /\ shown = [t \in {1} |-> 0]
    /\ underway = [t \in TabIds |-> {}]

Next ==
    \/ OtherMessage
    \/ \E t \in TabIds :
          \/ Begin(t) \/ Serve(t) \/ Refuse(t)
          \/ OpenTab(t) \/ CloseTab(t)
          \/ Land(t) \/ Fail(t)

Spec == Init /\ [][Next]_vars
=============================================================================
