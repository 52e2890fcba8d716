------------------------------ MODULE MCPipes --------------------------------
(* The two length-prefixed pipe protocols for TLC, one per behaviour: the IPC *)
(* frames of Framing or the regular-expression helpers of RegexWorker.        *)
EXTENDS Framing, RegexWorker

VARIABLE pipe   \* "frames" or "regex"

MCBody == <<2, 1, 3>>

\* Both threads match one pattern in two subjects; in between one of them has
\* another pattern compiled, by itself or in a list, the other a rejected one.
MCQuestions ==
    LET both == {Op("find", "q", "x"), Op("find", "q", "y")}
    IN  <<both \cup {Op("compile", "p", None), Op("validate", <<"p", "bad">>, None)},
          both \cup {Op("compile", "bad", None)}>>

all == <<vars, regexVars, pipe>>

InitPipes ==
    /\ pipe \in {"frames", "regex"}
    /\ Init /\ InitRegex
    /\ pipe = "regex" => polling = FALSE

On(p, A, idleVars) == pipe = p /\ A /\ UNCHANGED <<idleVars, pipe>>

NextPipes == On("frames", Next, regexVars) \/ On("regex", NextRegex, vars)

\* The fairness of Framing's FairSpec; in RegexWorker that of the parent's
\* threads and of a helper told to stop, none of a helper that is matching.
SpecPipes ==
    /\ InitPipes /\ [][NextPipes]_all
    /\ WF_all(On("frames", write_framed, regexVars))
    /\ WF_all(On("frames", Reader, regexVars))
    /\ \A t \in Threads : WF_all(On("regex", GoOn(t), vars))
    /\ \A t \in Threads : WF_all(On("regex", IoThread(t) \/ ServeShutdown(t), vars))
=============================================================================
