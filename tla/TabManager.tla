----------------------------- MODULE TabManager -----------------------------
(***************************************************************************)
(* core's collection of pages (core/engine/src/tabs.rs) and the part of    *)
(* Page (core/engine/src/page.rs) that a navigation or a resize replaces.  *)
(*                                                                         *)
(* A page is abstracted to the url it shows; `by`, the number of the       *)
(* client request whose navigation loaded the document (0 for the blank    *)
(* page a tab starts with); its viewport size; and `view`, everything else *)
(* that is painted and that interaction changes: scroll offset, focus,     *)
(* highlight, form values.                                                 *)
(***************************************************************************)
EXTENDS Integers, Sequences, FiniteSets

CONSTANTS
    Urls,         \* every url a client or a link can name
    Sizes,        \* window sizes
    Views,        \* interaction states of a page
    FreshView,    \* the one a newly loaded document starts in
    InitialSize,  \* the size blueice-core starts the window at
    MaxTabs       \* bound: the largest tab id a run allocates

NoUrl == "no url"

ASSUME TabsAssumption ==
    /\ MaxTabs \in Nat \ {0}
    /\ InitialSize \in Sizes
    /\ FreshView \in Views
    /\ NoUrl \notin Urls

VARIABLES
    tabs,         \* TabManager::tabs, a function from the open tab ids
    order,        \* TabManager::order
    next_tab_id,  \* TabManager::next_tab_id
    viewport      \* TabManager::viewport_width/_height

tabVars == <<tabs, order, next_tab_id, viewport>>

TabIds == 1..MaxTabs
DefaultTab == 1

\* A document just loaded by request `by`: Page::new, or Page::load_html.
Page(url, by, size) ==
    [url |-> url, by |-> by, size |-> size, view |-> FreshView]

\* TabManager::get(id).is_some()
Live(t) == t \in DOMAIN tabs

\* The manager's map with page p stored under id t.
WithPage(t, p) == [u \in DOMAIN tabs \cup {t} |-> IF u = t THEN p ELSE tabs[u]]

new ==
    /\ tabs = [t \in {DefaultTab} |-> Page(NoUrl, 0, InitialSize)]
    /\ order = <<DefaultTab>>
    /\ next_tab_id = DefaultTab + 1
    /\ viewport = InitialSize

\* Mutant: the counter is not advanced.
open_tab_uncounted(p) ==
    /\ next_tab_id \in TabIds
    /\ tabs' = WithPage(next_tab_id, p)
    /\ order' = Append(order, next_tab_id)
    /\ UNCHANGED <<next_tab_id, viewport>>

\* Opens a tab holding page p. The bound MaxTabs stands in for the u64 counter.
open_tab(p) ==
    /\ next_tab_id \in TabIds
    /\ tabs' = WithPage(next_tab_id, p)
    /\ order' = Append(order, next_tab_id)
    /\ next_tab_id' = next_tab_id + 1
    /\ UNCHANGED viewport

\* Vec::retain: the ids other than t, in the order they had.
Nth(set, n) == CHOOSE i \in set : Cardinality({j \in set : j <= i}) = n
Retain(ids, t) ==
    LET kept == {i \in DOMAIN ids : ids[i] # t}
    IN  [n \in 1..Cardinality(kept) |-> ids[Nth(kept, n)]]

\* The retain in close_tab re-lists the surviving ids in creation order.
close_tab(t) ==
    /\ tabs' = [u \in DOMAIN tabs \ {t} |-> tabs[u]]
    /\ order' = Retain(order, t)
    /\ UNCHANGED <<next_tab_id, viewport>>

\* get_mut: a handler replaces one open page's state by p.
put(t, p) ==
    /\ tabs' = WithPage(t, p)
    /\ UNCHANGED <<order, next_tab_id, viewport>>

\* Resize: the shared window size always, the addressed page's if it is open.
resize(t, size) ==
    /\ viewport' = size
    /\ tabs' = IF Live(t) THEN WithPage(t, [tabs[t] EXCEPT !.size = size]) ELSE tabs
    /\ UNCHANGED <<order, next_tab_id>>
=============================================================================
