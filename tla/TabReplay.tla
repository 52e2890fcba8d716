------------------------------ MODULE TabReplay ------------------------------
(***************************************************************************)
(* What a cutover carries from the old core (v1) to the new one (v2):      *)
(* capture_v1_tabs, replay_tabs and health_check (launcher/src/unix.rs)    *)
(* over two TabManagers, while clients go on using v1 until the swap.      *)
(*                                                                         *)
(* Navigations are taken as finished when they are answered (Session has   *)
(* the rest).  A page's `by` records the v1 tab whose content it is.       *)
(***************************************************************************)
EXTENDS Integers, Sequences

CONSTANTS
    Urls, Sizes, InitialSize, Views, FreshView, MaxTabs,    \* TabManager's
    MaxChanges    \* bound: tabs opened, closed or navigated by clients

VARIABLES
    tabs1, order1, next1, window1,    \* v1's TabManager
    tabs2, order2, next2, window2,    \* v2's
    step,       \* "idle", "replay", "health", "swapped"
    captured,   \* the urls of v1's tabs as ListTabs returned them
    sources,    \* the v1 tabs they belong to
    replayed,   \* how many of them have been replayed
    changes     \* client changes so far

V1 == INSTANCE TabManager WITH
    tabs <- tabs1, order <- order1, next_tab_id <- next1, viewport <- window1
V2 == INSTANCE TabManager WITH
    tabs <- tabs2, order <- order2, next_tab_id <- next2, viewport <- window2

v1Vars == <<tabs1, order1, next1, window1>>
v2Vars == <<tabs2, order2, next2, window2>>
cutoverVars == <<step, captured, sources, replayed>>
vars == <<v1Vars, v2Vars, cutoverVars, changes>>

NoUrl == V1!NoUrl

\* ListTabs' reply: the url of each open tab in creation order.
ListedBy(tabs, order) == [i \in DOMAIN order |-> tabs[order[i]].url]

-----------------------------------------------------------------------------
(* Clients of v1.                                                          *)

Change == step # "swapped" /\ changes < MaxChanges /\ changes' = changes + 1

OpenTab(url) ==
    /\ Change
    /\ V1!open_tab(V1!Page(url, next1, InitialSize))
    /\ UNCHANGED <<v2Vars, cutoverVars>>

CloseTab(t) ==
    /\ Change
    /\ V1!Live(t)
    /\ V1!close_tab(t)
    /\ UNCHANGED <<v2Vars, cutoverVars>>

Navigate(t, url) ==
    /\ Change
    /\ V1!Live(t)
    /\ V1!put(t, V1!Page(url, t, InitialSize))
    /\ UNCHANGED <<v2Vars, cutoverVars>>

-----------------------------------------------------------------------------
(* The cutover.                                                            *)

\* capture_v1_tabs, and the spawn of a core whose TabManager is new.
capture_v1_tabs ==
    /\ step = "idle"
    /\ captured' = ListedBy(tabs1, order1)
    /\ sources' = order1
    /\ replayed' = 0
    /\ step' = "replay"
    /\ tabs2' = [t \in {V2!DefaultTab} |-> V2!Page(NoUrl, 0, InitialSize)]
    /\ order2' = <<V2!DefaultTab>>
    /\ next2' = V2!DefaultTab + 1
    /\ window2' = InitialSize
    /\ UNCHANGED <<v1Vars, changes>>

\* Mutant: every tab is opened, the default tab left blank.
replay_opening_all ==
    /\ step = "replay"
    /\ replayed < Len(captured)
    /\ V2!open_tab(V2!Page(captured[replayed + 1], sources[replayed + 1], InitialSize))
    /\ replayed' = replayed + 1
    /\ UNCHANGED <<v1Vars, step, captured, sources, changes>>

\* One turn of replay_tabs whose reply is the success it waits for.
replay_tab ==
    /\ step = "replay"
    /\ replayed < Len(captured)
    /\ LET i == replayed + 1
           page == V2!Page(captured[i], sources[i], InitialSize)
       IN  \/ i = 1 /\ captured[i] = NoUrl /\ UNCHANGED v2Vars
           \/ i = 1 /\ captured[i] # NoUrl /\ V2!put(V2!DefaultTab, page)
           \/ i > 1 /\ V2!open_tab(page)
    /\ replayed' = replayed + 1
    /\ UNCHANGED <<v1Vars, step, captured, sources, changes>>

ReplayDone ==
    /\ step = "replay"
    /\ replayed = Len(captured)
    /\ step' = "health"
    /\ UNCHANGED <<v1Vars, v2Vars, captured, sources, replayed, changes>>

\* An Error or GatekeeperBlocked reply, or a broken connection: v2 is dropped.
ReplayFails ==
    /\ step = "replay"
    /\ step' = "idle"
    /\ UNCHANGED <<v1Vars, v2Vars, captured, sources, replayed, changes>>

\* perform_swap follows a health check that matches; otherwise v2 is dropped.
health_check ==
    /\ step = "health"
    /\ step' = IF ListedBy(tabs2, order2) = captured THEN "swapped" ELSE "idle"
    /\ UNCHANGED <<v1Vars, v2Vars, captured, sources, replayed, changes>>

Swapped == step = "swapped" /\ UNCHANGED vars

Init ==
    /\ V1!new
    /\ V2!new
    /\ step = "idle"
    /\ captured = <<>> /\ sources = <<>>
    /\ replayed = 0
    /\ changes = 0

Next ==
    \/ \E url \in Urls \cup {NoUrl} : OpenTab(url)
    \/ \E t \in 1..MaxTabs : CloseTab(t) \/ \E url \in Urls : Navigate(t, url)
    \/ capture_v1_tabs \/ replay_tab \/ ReplayDone \/ ReplayFails \/ health_check
    \/ Swapped

Spec == Init /\ [][Next]_vars

-----------------------------------------------------------------------------
\* Replay rebuilds the captured tabs, in order and blank ones included, so the
\* health check passes, unless every tab of v1 had been closed: v2 always has
\* its default tab, and such a cutover is abandoned.
ReplayReproducesTabs ==
    step = "health" => (ListedBy(tabs2, order2) = captured <=> captured # <<>>)
=============================================================================
