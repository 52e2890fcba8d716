------------------------------- MODULE Framing -------------------------------
(***************************************************************************)
(* Length-prefixed framing (ipc/src/lib.rs): write_framed sends a prefix   *)
(* and then a body with two write_all calls; read_frame_bytes fills one    *)
(* buffer with the prefix and then another with the body, each through     *)
(* read_exact_no_progress_loss.  The stream between them delivers bytes    *)
(* in order and in pieces of any size.                                     *)
(*                                                                         *)
(* A byte is <<n, i>>, the i-th byte of the n-th frame written; the reader *)
(* only learns from a prefix how many body bytes to expect.                *)
(***************************************************************************)
EXTENDS Integers, Sequences, FiniteSetsExt, Functions

CONSTANTS
    PrefixBytes,    \* bytes of the length prefix, 4 in the code
    Body            \* the body length of each frame the writer sends, in order

ASSUME FramingAssumption ==
    /\ PrefixBytes \in Nat \ {0}
    /\ Body \in Seq(Nat \ {0}) /\ Body # <<>>

VARIABLES
    polling,    \* whether the reader's stream has a read timeout set
    sent,       \* bytes written so far, <<frame, index>> of the last one
    closed,     \* the writer has closed its end
    wire,       \* bytes written and not yet read
    stage,      \* "prefix", "body", or "failed" once an error was returned
    want,       \* the length of the buffer being filled
    buf,        \* the filled part of that buffer
    frames      \* the bodies returned to the caller

vars == <<polling, sent, closed, wire, stage, want, buf, frames>>

FrameBytes(n) == PrefixBytes + Body[n]
Bytes(n, from, to) == [i \in 1..(to - from + 1) |-> <<n, from + i - 1>>]

Prefix(n) == Bytes(n, 1, PrefixBytes)
BodyOf(n) == Bytes(n, PrefixBytes + 1, FrameBytes(n))

\* The byte write_all hands over next, or <<>> when every frame is written.
NextByte ==
    IF sent[2] < FrameBytes(sent[1]) THEN <<sent[1], sent[2] + 1>>
    ELSE IF sent[1] < Len(Body) THEN <<sent[1] + 1, 1>>
    ELSE <<>>

write_framed ==
    /\ ~closed
    /\ NextByte # <<>>
    /\ sent' = NextByte
    /\ wire' = Append(wire, NextByte)
    /\ UNCHANGED <<polling, closed, stage, want, buf, frames>>

Close ==
    /\ ~closed
    /\ closed' = TRUE
    /\ UNCHANGED <<polling, sent, wire, stage, want, buf, frames>>

Restart == stage' = "prefix" /\ want' = PrefixBytes /\ buf' = <<>>

\* Mutant: one byte more than the prefix says.
LengthsOverlong(bytes) ==
    {n + 1 : n \in {Body[m] : m \in {k \in DOMAIN Body : bytes = Prefix(k)}}}

\* u32::from_le_bytes of the prefix buffer: the length it encodes, or any
\* number when its bytes are not one frame's prefix.
Lengths(bytes) ==
    LET true == {n \in DOMAIN Body : bytes = Prefix(n)}
    IN  IF true # {} THEN {Body[n] : n \in true} ELSE 1..(PrefixBytes + Max(Range(Body)))

\* The prefix buffer or the body buffer has just been filled with bytes.  A
\* length over the protocol limit is an error, as is an empty body, which is no
\* JSON; write_framed sends neither.
Filled(bytes) ==
    \/ /\ stage = "prefix"
       /\ stage' = "body" /\ want' \in Lengths(bytes) /\ buf' = <<>>
       /\ UNCHANGED frames
    \/ /\ stage = "prefix"
       /\ \A n \in DOMAIN Body : bytes # Prefix(n)
       /\ stage' = "failed"
       /\ UNCHANGED <<want, buf, frames>>
    \/ /\ stage = "body"
       /\ Restart
       /\ frames' = Append(frames, bytes)

\* Mutant: every read() starts at the front of the buffer again.
read_some_at_front ==
    /\ stage # "failed"
    /\ \E n \in 1..want :
          /\ n <= Len(wire)
          /\ wire' = SubSeq(wire, n + 1, Len(wire))
          /\ \/ n = want /\ Filled(SubSeq(wire, 1, n))
             \/ /\ n < want
                /\ buf' = SubSeq(wire, 1, n)
                /\ UNCHANGED <<stage, want, frames>>
    /\ UNCHANGED <<polling, sent, closed>>

\* One read() call that returns n > 0 bytes.
read_some ==
    /\ stage # "failed"
    /\ \E n \in 1..(want - Len(buf)) :
          /\ n <= Len(wire)
          /\ wire' = SubSeq(wire, n + 1, Len(wire))
          /\ LET bytes == buf \o SubSeq(wire, 1, n)
             IN  \/ Len(bytes) = want /\ Filled(bytes)
                 \/ /\ Len(bytes) < want
                    /\ buf' = bytes
                    /\ UNCHANGED <<stage, want, frames>>
    /\ UNCHANGED <<polling, sent, closed>>

\* A read() that times out.  With part of this buffer filled it is retried;
\* with none it is returned to the caller, which calls read_frame_bytes anew.
\* An Interrupted error is retried in both cases and changes nothing.
timed_out ==
    /\ polling
    /\ stage # "failed"
    /\ wire = <<>> /\ ~closed
    /\ buf = <<>>
    /\ Restart
    /\ UNCHANGED <<polling, sent, closed, wire, frames>>

\* read() returned 0: UnexpectedEof.
end_of_stream ==
    /\ stage # "failed"
    /\ closed /\ wire = <<>>
    /\ stage' = "failed"
    /\ UNCHANGED <<polling, sent, closed, wire, want, buf, frames>>

Init ==
    /\ polling \in BOOLEAN
    /\ sent = <<1, 0>>
    /\ closed = FALSE
    /\ wire = <<>>
    /\ stage = "prefix" /\ want = PrefixBytes /\ buf = <<>>
    /\ frames = <<>>

Reader == read_some \/ timed_out \/ end_of_stream
Idle == stage = "failed" /\ closed /\ UNCHANGED vars
Next == write_framed \/ Close \/ Reader \/ Idle

Spec == Init /\ [][Next]_vars
FairSpec == Spec /\ WF_vars(write_framed) /\ WF_vars(Reader)

-----------------------------------------------------------------------------
\* A frame is never abandoned mid-read: whenever the reader is about to read a
\* length prefix, the next byte to arrive is the first byte of a frame.
FrameNeverAbandoned ==
    stage = "prefix" /\ buf = <<>> /\ wire # <<>> => wire[1][2] = 1

\* On a blocking stream the bodies returned are those written, in order and
\* complete, however the stream cut them up.
FramesIntact ==
    ~polling => \A n \in DOMAIN frames : n \in DOMAIN Body /\ frames[n] = BodyOf(n)

\* On a blocking stream every frame the writer completes is returned, even if
\* the writer then closes.
FramesArrive ==
    \A n \in DOMAIN Body :
        (~polling /\ sent = <<n, FrameBytes(n)>>) ~> (Len(frames) >= n)
=============================================================================
