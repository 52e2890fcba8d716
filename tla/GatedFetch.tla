----------------------------- MODULE GatedFetch -----------------------------
(***************************************************************************)
(* The background half of a gated navigation: the thread spawned by        *)
(* begin_gated_navigation (core/engine/src/session.rs), which runs         *)
(* check_and_fetch (core/engine/src/gatekeeper_client.rs) and sends one    *)
(* Completion over the session's mpsc channel.                             *)
(*                                                                         *)
(* A thread is the record of what it captured when it was spawned plus     *)
(* `at`, the call it makes next or, once check_and_fetch has returned, the *)
(* NavOutcome it is about to send.                                         *)
(***************************************************************************)
EXTENDS Integers, Sequences

VARIABLES
    threads,        \* the threads that have not sent their Completion yet
    completions,    \* the channel, oldest first
    reviews         \* every <<request, stage>> the gatekeeper answered Cleared

fetchVars == <<threads, completions, reviews>>

Kinds == {"Navigate", "OpenTab"}                              \* PendingKind
Outcomes == {"Cleared", "GatekeeperBlocked", "FetchFailed"}   \* NavOutcome
Calls == {"CheckUrl", "fetch", "CheckContent"}

spawn(t, seq, r, kind, url) ==
    threads' = threads \cup
        {[tab |-> t, seq |-> seq, req |-> r, kind |-> kind, url |-> url,
          at |-> "CheckUrl"]}

Goto(j, at) == threads' = (threads \ {j}) \cup {[j EXCEPT !.at = at]}

\* One gatekeeper connection: an explicit verdict, or any I/O failure, which
\* counts as a rejection.
GatekeeperReplies == {"Cleared", "Rejected", "Err"}

\* Mutant: a gatekeeper that cannot be reached counts as clearance.
check_stage_open(j, stage, reply, cleared) ==
    /\ j.at = stage
    /\ Goto(j, IF reply # "Rejected" THEN cleared ELSE "GatekeeperBlocked")
    /\ reviews' = IF reply = "Cleared" THEN reviews \cup {<<j.req, stage>>} ELSE reviews
    /\ UNCHANGED completions

check_stage(j, stage, reply, cleared) ==
    /\ j.at = stage
    /\ Goto(j, IF reply = "Cleared" THEN cleared ELSE "GatekeeperBlocked")
    /\ reviews' = IF reply = "Cleared" THEN reviews \cup {<<j.req, stage>>} ELSE reviews
    /\ UNCHANGED completions

CheckUrl(j) ==
    \E reply \in GatekeeperReplies : check_stage(j, "CheckUrl", reply, "fetch")

CheckContent(j) ==
    \E reply \in GatekeeperReplies : check_stage(j, "CheckContent", reply, "Cleared")

\* blueice_net::fetch; the final url it reports is the requested one.
fetch(j) ==
    /\ j.at = "fetch"
    /\ \E next \in {"CheckContent", "FetchFailed"} : Goto(j, next)
    /\ UNCHANGED <<completions, reviews>>

\* Mutant: the thread goes on and sends again.
send_again(j, receiving) ==
    /\ j.at \in Outcomes
    /\ completions' = IF receiving THEN Append(completions, j) ELSE completions
    /\ UNCHANGED <<threads, reviews>>

\* Mutant: only a success is reported back.
send_success(j, receiving) ==
    /\ j.at \in Outcomes
    /\ threads' = threads \ {j}
    /\ completions' = IF receiving /\ j.at = "Cleared" THEN Append(completions, j) ELSE completions
    /\ UNCHANGED reviews

\* tx.send: lost without effect once the session has dropped the receiver.
send(j, receiving) ==
    /\ j.at \in Outcomes
    /\ threads' = threads \ {j}
    /\ completions' = IF receiving THEN Append(completions, j) ELSE completions
    /\ UNCHANGED reviews
=============================================================================
