---------------------------- MODULE FramingProofs ----------------------------
(***************************************************************************)
(* Proofs about the length-prefixed frames on a pipe: a blocking reader     *)
(* returns what was written, whatever the sizes of the reads.               *)
(***************************************************************************)
EXTENDS Framing, SequenceTheorems, TLAPS

(* Framing: read_frame_bytes on a blocking stream. *)

Byte == Nat \X Nat

\* The byte written after b.
After(b) == IF b[2] < FrameBytes(b[1]) THEN <<b[1], b[2] + 1>> ELSE <<b[1] + 1, 1>>

\* s is the k bytes of frame n that start at from.
Piece(s, n, from, k) ==
    /\ s \in Seq(Byte) /\ Len(s) = k
    /\ \A i \in 1..k : s[i] = <<n, from + i - 1>>

\* w holds consecutive bytes, the last of which is the last one written.
Stream(w, last) ==
    /\ w \in Seq(Byte)
    /\ last \in Byte /\ last[1] \in DOMAIN Body /\ last[2] <= FrameBytes(last[1])
    /\ \A i \in 1..Len(w) :
          w[i][1] \in DOMAIN Body /\ w[i][2] >= 1 /\ w[i][2] <= FrameBytes(w[i][1])
    /\ \A i \in 1..(Len(w) - 1) : w[i + 1] = After(w[i])
    /\ w # <<>> => last = w[Len(w)]

\* The rest of a frame that has begun follows without a gap.
Runs(w) ==
    \A i \in 1..Len(w), k \in Nat :
        i + k <= Len(w) /\ w[i][2] + k <= FrameBytes(w[i][1]) =>
            w[i + k] = <<w[i][1], w[i][2] + k>>

\* The byte that arrives next, from the stream or from the writer, is next.
Rest(w, last, next) ==
    /\ Stream(w, last) /\ Runs(w)
    /\ w # <<>> => w[1] = next
    /\ w = <<>> => After(last) = next

\* The frame being read, and how much of it has left the stream.
Current == Len(frames) + 1
Taken == IF stage = "body" THEN PrefixBytes + Len(buf) ELSE Len(buf)

\* The buffer holds the bytes of the current frame that were taken, and the
\* byte that arrives next is the one after them.
Aligned ==
    /\ buf \in Seq(Byte) /\ Len(buf) < want
    /\ stage = "prefix" => want = PrefixBytes /\ Piece(buf, Current, 1, Len(buf))
    /\ stage = "body" =>
          /\ Current \in DOMAIN Body /\ want = Body[Current]
          /\ Piece(buf, Current, PrefixBytes + 1, Len(buf))
    /\ wire # <<>> => wire[1] = <<Current, Taken + 1>>
    /\ wire = <<>> => After(sent) = <<Current, Taken + 1>>

\* The inductive invariant of a blocking stream.
StreamInv ==
    ~polling =>
        /\ Stream(wire, sent) /\ Runs(wire)
        /\ frames \in Seq(Seq(Byte))
        /\ stage \in {"prefix", "body", "failed"}
        /\ stage # "failed" => Aligned
        /\ FramesIntact

\* Frame lengths are numbers, the prefix and the body are not empty.
LEMMA FrameBytesType ==
    ASSUME NEW n \in DOMAIN Body
    PROVE  /\ Body[n] \in Nat /\ Body[n] >= 1
           /\ PrefixBytes \in Nat /\ PrefixBytes >= 1
           /\ FrameBytes(n) \in Nat /\ FrameBytes(n) = PrefixBytes + Body[n]
           /\ n \in Nat /\ n >= 1
  BY FramingAssumption, LenProperties DEF FrameBytes

\* A piece is the sequence Bytes makes.
LEMMA PieceIsBytes ==
    ASSUME NEW s, NEW n, NEW from \in Nat, NEW to \in Nat, Piece(s, n, from, to - from + 1)
    PROVE  s = Bytes(n, from, to)
<1>1. s \in [1..(to - from + 1) -> Byte]
  BY LenProperties DEF Piece
<1>2. QED
  BY <1>1, Zenon DEF Piece, Bytes

\* write_all appends the byte after the last one, if the frames go on.
LEMMA WriteByte ==
    ASSUME NEW w, NEW last, Stream(w, last), Runs(w), After(last)[1] \in DOMAIN Body
    PROVE  Stream(Append(w, After(last)), After(last)) /\ Runs(Append(w, After(last)))
<1>1. PICK b : b = After(last)
  OBVIOUS
<1>2. PICK a : a = Append(w, b)
  BY Zenon
<1>3. /\ last \in Byte /\ last[1] \in DOMAIN Body /\ last[2] <= FrameBytes(last[1])
      /\ FrameBytes(last[1]) \in Nat
  BY FrameBytesType DEF Stream
<1>4. b \in Byte /\ b[1] \in DOMAIN Body /\ b[2] >= 1 /\ b[2] <= FrameBytes(b[1])
  BY <1>1, <1>3, FrameBytesType DEF After, Byte
<1>5. w \in Seq(Byte) /\ Len(w) \in Nat
  BY LenProperties DEF Stream
<1>6. /\ a \in Seq(Byte) /\ Len(a) = Len(w) + 1 /\ a[Len(w) + 1] = b
      /\ \A i \in 1..Len(w) : a[i] = w[i]
  BY <1>2, <1>4, <1>5, AppendProperties
<1>7. Len(w) >= 1 => w[Len(w)] = last
  BY <1>5, EmptySeq DEF Stream
<1>8. \A i \in 1..Len(w) : a[i + 1] = After(a[i])
  <2>1. SUFFICES ASSUME NEW i \in 1..Len(w) PROVE a[i + 1] = After(a[i])
    OBVIOUS
  <2>2. CASE i = Len(w)
    BY <1>1, <1>5, <1>6, <1>7, <2>2
  <2>3. CASE i # Len(w)
    BY <1>5, <1>6, <2>3 DEF Stream
  <2>4. QED
    BY <2>2, <2>3
<1>9. Stream(a, b)
  BY <1>4, <1>5, <1>6, <1>8 DEF Stream
<1>10. Runs(a)
  <2>1. SUFFICES ASSUME NEW i \in 1..Len(a), NEW k \in Nat,
                        i + k <= Len(a), a[i][2] + k <= FrameBytes(a[i][1])
                 PROVE  a[i + k] = <<a[i][1], a[i][2] + k>>
    BY Zenon DEF Runs
  <2>2. a[i] \in Byte /\ a[i][2] \in Nat /\ FrameBytes(a[i][1]) \in Nat
    <3>1. a[i] \in Byte
      BY <1>6, ElementOfSeq
    <3>2. a[i][1] \in DOMAIN Body
      BY <1>9 DEF Stream
    <3>3. QED
      BY <3>1, <3>2, FrameBytesType DEF Byte
  <2>3. CASE k = 0
    BY <2>2, <2>3 DEF Byte
  <2>4. CASE k # 0 /\ i + k <= Len(w)
    <3>1. i \in 1..Len(w) /\ a[i] = w[i] /\ a[i + k] = w[i + k]
      BY <1>5, <1>6, <2>4
    <3>2. QED
      BY <2>1, <2>4, <3>1 DEF Runs
  <2>5. CASE k # 0 /\ i + k = Len(w) + 1
    <3>1. i \in 1..Len(w) /\ k - 1 \in Nat /\ i + (k - 1) = Len(w) /\ a[i] = w[i]
      <4>1. i \in Nat /\ i >= 1 /\ k >= 1
        BY <1>5, <1>6, <2>5
      <4>2. i \in 1..Len(w) /\ k - 1 \in Nat /\ i + (k - 1) = Len(w)
        BY <1>5, <2>5, <4>1
      <4>3. QED
        BY <1>6, <4>2
    <3>2. w[Len(w)] = <<w[i][1], w[i][2] + (k - 1)>>
      <4>1. w[i][2] + (k - 1) <= FrameBytes(w[i][1])
        BY <2>1, <2>2, <3>1, SMTT(30)
      <4>2. i + (k - 1) <= Len(w)
        BY <1>5, <3>1
      <4>3. w[i + (k - 1)] = <<w[i][1], w[i][2] + (k - 1)>>
        BY <3>1, <4>1, <4>2, Zenon DEF Runs
      <4>4. QED
        BY <3>1, <4>3
    <3>3. last = <<a[i][1], a[i][2] + (k - 1)>>
      BY <1>5, <1>7, <3>1, <3>2
    <3>4. b = <<a[i][1], a[i][2] + k>>
      <4>1. PICK f, p : f = a[i][1] /\ p = a[i][2]
        BY Zenon
      <4>2. last[1] = f /\ last[2] = p + (k - 1)
        BY <3>3, <4>1
      <4>3. last[2] < FrameBytes(last[1])
        BY <2>1, <2>2, <4>1, <4>2
      <4>4. b = <<last[1], last[2] + 1>>
        BY <1>1, <4>3 DEF After
      <4>5. QED
        BY <2>2, <4>1, <4>2, <4>4, SMTT(30)
    <3>5. QED
      BY <1>6, <2>5, <3>4
  <2>6. QED
    BY <1>5, <1>6, <2>1, <2>3, <2>4, <2>5
<1>11. QED
  BY <1>1, <1>2, <1>9, <1>10

\* read() takes bytes from the front; what is left is the rest of the stream.
LEMMA TakeBytes ==
    ASSUME NEW w, NEW last, Stream(w, last), Runs(w), NEW n \in 1..Len(w),
           NEW v, v = SubSeq(w, n + 1, Len(w))
    PROVE  Rest(v, last, After(w[n]))
<1>1. w \in Seq(Byte) /\ Len(w) \in Nat /\ n \in Nat /\ n >= 1 /\ n <= Len(w)
  BY LenProperties DEF Stream
<1>2. \A i \in (n + 1)..Len(w) : w[i] \in Byte
  BY <1>1, ElementOfSeq
<1>3. /\ v \in Seq(Byte) /\ Len(v) = Len(w) - n
      /\ \A i \in 1..(Len(w) - n) : v[i] = w[n + i]
  <2>1. /\ v \in Seq(Byte)
        /\ Len(v) = IF n + 1 <= Len(w) THEN Len(w) - (n + 1) + 1 ELSE 0
        /\ \A i \in 1..(Len(w) - (n + 1) + 1) : v[i] = w[(n + 1) + i - 1]
    <3>1. n + 1 \in Int /\ Len(w) \in Int
      BY <1>1
    <3>2. QED
      BY <1>2, <3>1, SubSeqProperties
  <2>2. QED
    BY <1>1, <2>1
<1>4. Len(v) \in Nat /\ (v = <<>> <=> Len(v) = 0)
  <2>1. Len(v) \in Nat
    BY <1>1, <1>3
  <2>2. QED
    BY <1>3, <2>1, EmptySeq, Zenon
<1>5. Stream(v, last)
  <2>1. \A i \in 1..Len(v) :
            v[i][1] \in DOMAIN Body /\ v[i][2] >= 1 /\ v[i][2] <= FrameBytes(v[i][1])
    <3>1. TAKE i \in 1..Len(v)
    <3>2. v[i] = w[n + i] /\ n + i \in 1..Len(w)
      BY <1>1, <1>3
    <3>3. QED
      BY <3>2 DEF Stream
  <2>2. \A i \in 1..(Len(v) - 1) : v[i + 1] = After(v[i])
    <3>1. TAKE i \in 1..(Len(v) - 1)
    <3>2. v[i + 1] = w[n + (i + 1)] /\ v[i] = w[n + i] /\ n + i \in 1..(Len(w) - 1)
      BY <1>1, <1>3
    <3>3. w[(n + i) + 1] = After(w[n + i])
      BY <3>2 DEF Stream
    <3>4. n + (i + 1) = (n + i) + 1
      BY <1>1
    <3>5. QED
      BY <3>2, <3>3, <3>4
  <2>3. v # <<>> => last = v[Len(v)]
    <3>1. SUFFICES ASSUME v # <<>> PROVE last = v[Len(v)]
      BY Zenon
    <3>2. Len(v) >= 1 /\ w # <<>>
      BY <1>1, <1>4, <3>1, EmptySeq
    <3>3. v[Len(v)] = w[Len(w)]
      <4>1. Len(v) \in 1..(Len(w) - n) /\ n + Len(v) = Len(w)
        BY <1>1, <1>3, <3>2
      <4>2. QED
        BY <1>3, <4>1, Zenon
    <3>4. QED
      BY <3>2, <3>3, Zenon DEF Stream
  <2>4. QED
    BY <1>3, <2>1, <2>2, <2>3, Zenon DEF Stream
<1>6. Runs(v)
  <2>1. SUFFICES ASSUME NEW i \in 1..Len(v), NEW k \in Nat,
                        i + k <= Len(v), v[i][2] + k <= FrameBytes(v[i][1])
                 PROVE  v[i + k] = <<v[i][1], v[i][2] + k>>
    BY Zenon DEF Runs
  <2>2. /\ i \in Nat /\ n + i \in 1..Len(w) /\ (n + i) + k <= Len(w)
        /\ i + k \in 1..(Len(w) - n)
    BY <1>1, <1>3, <2>1
  <2>3. v[i] = w[n + i] /\ v[i + k] = w[n + (i + k)]
    BY <1>3, <2>1, <2>2
  <2>4. w[(n + i) + k] = <<w[n + i][1], w[n + i][2] + k>>
    BY <2>1, <2>2, <2>3, Zenon DEF Runs
  <2>5. (n + i) + k = n + (i + k)
    BY <1>1, <2>2
  <2>6. QED
    BY <2>3, <2>4, <2>5, Zenon
<1>7. v # <<>> => v[1] = After(w[n])
  BY <1>1, <1>3, <1>4 DEF Stream
<1>8. v = <<>> => last = w[n]
  BY <1>1, <1>3, <1>4, EmptySeq DEF Stream
<1>9. QED
  BY <1>5, <1>6, <1>7, <1>8 DEF Rest

\* The bytes taken are those of one frame as long as no more are asked for than
\* the frame has left.
LEMMA TakenBytes ==
    ASSUME NEW w \in Seq(Byte), Runs(w), NEW m \in DOMAIN Body, NEW r \in Nat,
           NEW n \in 1..Len(w), w[1] = <<m, r + 1>>, r + n <= FrameBytes(m)
    PROVE  Piece(SubSeq(w, 1, n), m, r + 1, n) /\ w[n] = <<m, r + n>>
<1>1. Len(w) \in Nat /\ n \in Nat /\ n >= 1 /\ n <= Len(w)
  BY LenProperties
<1>2. m \in Nat /\ FrameBytes(m) \in Nat
  BY FrameBytesType
<1>3. \A i \in 1..n : w[i] = <<m, (r + 1) + i - 1>>
  <2>1. TAKE i \in 1..n
  <2>2. /\ 1 \in 1..Len(w) /\ i - 1 \in Nat /\ 1 + (i - 1) <= Len(w)
        /\ w[1][1] = m /\ w[1][2] = r + 1 /\ (r + 1) + (i - 1) <= FrameBytes(m)
    BY <1>1, <1>2, SMTT(30)
  <2>3. w[1 + (i - 1)] = <<m, (r + 1) + (i - 1)>>
    BY <2>2, Zenon DEF Runs
  <2>4. QED
    BY <1>1, <2>3
<1>4. \A i \in 1..n : w[i] \in Byte
  BY <1>1, ElementOfSeq
<1>5. PICK s : s = SubSeq(w, 1, n)
  BY Zenon
<1>6. s \in Seq(Byte) /\ Len(s) = n /\ \A i \in 1..n : s[i] = w[i]
  <2>1. /\ s \in Seq(Byte)
        /\ Len(s) = IF 1 <= n THEN n - 1 + 1 ELSE 0
        /\ \A i \in 1..(n - 1 + 1) : s[i] = w[1 + i - 1]
    BY <1>1, <1>4, <1>5, SubSeqProperties
  <2>2. QED
    BY <1>1, <2>1
<1>7. Piece(s, m, r + 1, n)
  BY <1>3, <1>6, Zenon DEF Piece
<1>8. n \in 1..n /\ (r + 1) + n - 1 = r + n
  BY <1>1, SMT
<1>9. w[n] = <<m, r + n>>
  BY <1>3, <1>8, Zenon
<1>10. QED
  BY <1>5, <1>7, <1>9, Zenon

\* Two adjacent pieces of one frame make one piece.
LEMMA JoinedPieces ==
    ASSUME NEW x, NEW y, NEW m \in Nat, NEW from \in Nat, NEW l \in Nat, NEW n \in Nat,
           Piece(x, m, from, l), Piece(y, m, from + l, n)
    PROVE  Piece(x \o y, m, from, l + n)
<1>1. PICK u : u = x \o y
  BY Zenon
<1>2. /\ u \in Seq(Byte) /\ Len(u) = l + n
      /\ \A i \in 1..(l + n) : u[i] = IF i <= l THEN x[i] ELSE y[i - l]
  <2>1. x \in Seq(Byte) /\ y \in Seq(Byte) /\ Len(x) = l /\ Len(y) = n
    BY Zenon DEF Piece
  <2>2. /\ u \in Seq(Byte) /\ Len(u) = Len(x) + Len(y)
        /\ \A i \in 1..(Len(x) + Len(y)) : u[i] = IF i <= Len(x) THEN x[i] ELSE y[i - Len(x)]
    BY <1>1, <2>1, ConcatProperties, Zenon
  <2>3. QED
    BY <2>1, <2>2, Zenon
<1>3. \A i \in 1..(l + n) : u[i] = <<m, from + i - 1>>
  <2>1. TAKE i \in 1..(l + n)
  <2>2. CASE i <= l
    <3>1. i \in 1..l
      BY <2>2
    <3>2. QED
      BY <1>2, <2>2, <3>1 DEF Piece
  <2>3. CASE ~(i <= l)
    <3>1. i - l \in 1..n /\ (from + l) + (i - l) - 1 = from + i - 1
      BY <2>3
    <3>2. u[i] = <<m, (from + l) + (i - l) - 1>>
      BY <1>2, <2>3, <3>1 DEF Piece
    <3>3. QED
      BY <3>1, <3>2
  <2>4. QED
    BY <2>2, <2>3
<1>4. QED
  BY <1>1, <1>2, <1>3, Zenon DEF Piece

\* The buffer is filled with the prefix of frame m only if that is what it says.
LEMMA LengthOfPrefix ==
    ASSUME NEW m \in DOMAIN Body
    PROVE  Lengths(Prefix(m)) = {Body[m]}
<1>1. PrefixBytes \in Nat /\ PrefixBytes >= 1
  BY FrameBytesType
<1>2. \A k \in DOMAIN Body : Prefix(k)[1] = <<k, 1>>
  BY <1>1 DEF Prefix, Bytes
<1>3. \A k \in DOMAIN Body : Prefix(m) = Prefix(k) => k = m
  BY <1>2
<1>4. {k \in DOMAIN Body : Prefix(m) = Prefix(k)} = {m}
  BY <1>3
<1>5. QED
  BY <1>4 DEF Lengths

\* What is known when read() has returned n bytes to a reader in step with the
\* writer: the buffer is a longer piece of the frame, and the next byte to
\* arrive, from the stream or from the writer, is the one after it.
LEMMA ReadBytes ==
    ASSUME ~polling, StreamInv, stage # "failed", NEW n \in 1..(want - Len(buf)),
           n <= Len(wire),
           NEW m, m = Current, NEW r, r = Taken, NEW bytes, bytes = buf \o SubSeq(wire, 1, n),
           NEW left, left = SubSeq(wire, n + 1, Len(wire)), NEW next, next = After(<<m, r + n>>)
    PROVE  /\ m \in DOMAIN Body /\ r \in Nat /\ want \in Nat /\ n \in Nat /\ Len(buf) \in Nat
           /\ r + n <= FrameBytes(m)
           /\ Piece(bytes, m, (r - Len(buf)) + 1, Len(buf) + n)
           /\ Rest(left, sent, next)
<1>1. /\ Stream(wire, sent) /\ Runs(wire) /\ Aligned /\ stage \in {"prefix", "body"}
      /\ frames \in Seq(Seq(Byte))
  BY DEF StreamInv
<1>2. /\ Len(buf) \in Nat /\ Len(frames) \in Nat /\ wire \in Seq(Byte) /\ Len(wire) \in Nat
      /\ PrefixBytes \in Nat
  BY <1>1, LenProperties, FramingAssumption DEF Aligned, Stream
<1>3. want \in Nat
  BY <1>1, FrameBytesType, <1>2 DEF Aligned
<1>4. n \in Nat /\ n >= 1 /\ n <= want - Len(buf) /\ n \in 1..Len(wire) /\ wire # <<>>
  BY <1>2, <1>3, EmptySeq
<1>5. m \in Nat /\ r \in Nat
  BY <1>2 DEF Current, Taken
<1>6. wire[1] = <<m, r + 1>>
  BY <1>1, <1>4 DEF Aligned
<1>7. m \in DOMAIN Body
  BY <1>1, <1>2, <1>4, <1>6 DEF Stream
<1>8. /\ r + n <= FrameBytes(m)
      /\ Piece(buf, m, (r - Len(buf)) + 1, Len(buf))
  <2>1. FrameBytes(m) = PrefixBytes + Body[m] /\ Body[m] \in Nat
    BY <1>7, FrameBytesType
  <2>2. CASE stage = "prefix"
    <3>1. want = PrefixBytes /\ r = Len(buf) /\ Piece(buf, m, 1, Len(buf))
      BY <1>1, <2>2 DEF Aligned, Taken
    <3>2. (r - Len(buf)) + 1 = 1
      BY <1>2, <3>1
    <3>3. QED
      BY <1>2, <1>4, <2>1, <3>1, <3>2
  <2>3. CASE stage = "body"
    <3>1. want = Body[m] /\ r = PrefixBytes + Len(buf) /\ Piece(buf, m, PrefixBytes + 1, Len(buf))
      BY <1>1, <2>3 DEF Aligned, Taken
    <3>2. (r - Len(buf)) + 1 = PrefixBytes + 1
      BY <1>2, <3>1
    <3>3. r + n <= FrameBytes(m)
      <4>1. PICK l \in Nat : l = Len(buf)
        BY <1>2
      <4>2. n <= Body[m] - l /\ r = PrefixBytes + l
        BY <1>4, <3>1, <4>1
      <4>3. QED
        BY <1>2, <1>4, <2>1, <4>2, SMTT(30)
    <3>4. QED
      BY <3>1, <3>2, <3>3
  <2>4. QED
    BY <1>1, <2>2, <2>3
<1>9. Piece(SubSeq(wire, 1, n), m, r + 1, n) /\ wire[n] = <<m, r + n>>
  BY <1>1, <1>2, <1>4, <1>5, <1>6, <1>7, <1>8, TakenBytes, Zenon
<1>10. Piece(bytes, m, (r - Len(buf)) + 1, Len(buf) + n)
  <2>1. PICK from \in Nat : from = (r - Len(buf)) + 1
    <3>1. r >= Len(buf)
      BY <1>2 DEF Taken
    <3>2. (r - Len(buf)) + 1 \in Nat
      BY <1>2, <1>5, <3>1
    <3>3. QED
      BY <3>2
  <2>2. from + Len(buf) = r + 1
    BY <1>2, <1>5, <2>1
  <2>3. QED
    BY <1>2, <1>4, <1>5, <1>8, <1>9, <2>1, <2>2, JoinedPieces, Zenon
<1>11. Rest(left, sent, After(wire[n]))
  BY <1>1, <1>4, TakeBytes, Zenon
<1>12. QED
  BY <1>2, <1>3, <1>4, <1>5, <1>7, <1>8, <1>9, <1>10, <1>11

\* read_some keeps the reader in step and returns whole bodies only.
LEMMA ReadStep ==
    ASSUME StreamInv, ~polling, read_some
    PROVE  StreamInv'
<1>1. PICK n \in 1..(want - Len(buf)) :
          /\ n <= Len(wire)
          /\ wire' = SubSeq(wire, n + 1, Len(wire))
          /\ LET bytes == buf \o SubSeq(wire, 1, n)
             IN  \/ Len(bytes) = want /\ Filled(bytes)
                 \/ /\ Len(bytes) < want
                    /\ buf' = bytes
                    /\ UNCHANGED <<stage, want, frames>>
  BY Zenon DEF read_some
<1>2. stage # "failed" /\ UNCHANGED <<polling, sent, closed>>
  BY DEF read_some
<1>3. PICK bytes : bytes = buf \o SubSeq(wire, 1, n)
  BY Zenon
<1>4. PICK m : m = Current
  OBVIOUS
<1>5. PICK r : r = Taken
  OBVIOUS
<1>6. PICK next : next = After(<<m, r + n>>)
  OBVIOUS
<1>7. /\ m \in DOMAIN Body /\ r \in Nat /\ want \in Nat /\ n \in Nat /\ Len(buf) \in Nat
      /\ r + n <= FrameBytes(m)
      /\ Piece(bytes, m, (r - Len(buf)) + 1, Len(buf) + n)
      /\ Rest(wire', sent, next)
  <2>1. PICK left : left = wire'
    OBVIOUS
  <2>2. left = SubSeq(wire, n + 1, Len(wire))
    BY <1>1, <2>1
  <2>3. QED
    BY <1>1, <1>2, <1>3, <1>4, <1>5, <1>6, <2>1, <2>2, ReadBytes, Zenon
<1>8. /\ stage \in {"prefix", "body"} /\ frames \in Seq(Seq(Byte)) /\ Len(frames) \in Nat
      /\ m = Len(frames) + 1
      /\ \A k \in DOMAIN frames : k \in DOMAIN Body /\ frames[k] = BodyOf(k)
  BY <1>2, <1>4, LenProperties DEF StreamInv, FramesIntact, Current
<1>9. Aligned
  BY <1>2 DEF StreamInv
<1>10. /\ PrefixBytes \in Nat /\ PrefixBytes >= 1 /\ Body[m] \in Nat /\ Body[m] >= 1
       /\ FrameBytes(m) = PrefixBytes + Body[m] /\ m \in Nat
  BY <1>7, FrameBytesType
<1>11. /\ stage = "prefix" => want = PrefixBytes /\ r = Len(buf)
       /\ stage = "body" => want = Body[m] /\ r = PrefixBytes + Len(buf)
  BY <1>4, <1>5, <1>9 DEF Aligned, Taken
<1>12. bytes \in Seq(Byte) /\ Len(bytes) = Len(buf) + n
  BY <1>7 DEF Piece
<1>13. Stream(wire', sent') /\ Runs(wire')
  BY <1>2, <1>7 DEF Rest
<1>14. CASE Len(bytes) < want /\ buf' = bytes /\ UNCHANGED <<stage, want, frames>>
  <2>1. Current' = m /\ Taken' = r + n /\ r + n < FrameBytes(m)
    <3>1. Current' = m
      BY <1>8, <1>14 DEF Current
    <3>2. Taken' = r + n
      <4>1. Len(buf') = Len(buf) + n /\ stage' = stage
        BY <1>12, <1>14
      <4>2. CASE stage = "prefix"
        BY <1>7, <1>11, <4>1, <4>2 DEF Taken
      <4>3. CASE stage = "body"
        BY <1>7, <1>10, <1>11, <4>1, <4>3 DEF Taken
      <4>4. QED
        BY <1>8, <4>2, <4>3
    <3>3. r + n < FrameBytes(m)
      BY <1>7, <1>8, <1>10, <1>11, <1>12, <1>14
    <3>4. QED
      BY <3>1, <3>2, <3>3
  <2>2. next = <<m, r + n + 1>>
    BY <1>6, <1>7, <2>1 DEF After
  <2>3. stage = "prefix" => Piece(buf', m, 1, Len(buf'))
    <3>1. stage = "prefix" => (r - Len(buf)) + 1 = 1
      BY <1>7, <1>11
    <3>2. QED
      BY <1>7, <1>12, <1>14, <3>1
  <2>4. stage = "body" => Piece(buf', m, PrefixBytes + 1, Len(buf'))
    <3>1. stage = "body" => (r - Len(buf)) + 1 = PrefixBytes + 1
      BY <1>7, <1>10, <1>11
    <3>2. QED
      BY <1>7, <1>12, <1>14, <3>1
  <2>5. Aligned'
    BY <1>2, <1>7, <1>11, <1>12, <1>14, <2>1, <2>2, <2>3, <2>4 DEF Aligned, Rest
  <2>6. QED
    BY <1>8, <1>13, <1>14, <2>5 DEF StreamInv, FramesIntact
<1>15. CASE Len(bytes) = want /\ stage = "prefix" /\ stage' = "failed" /\ UNCHANGED frames
  BY <1>8, <1>13, <1>15 DEF StreamInv, FramesIntact
<1>16. CASE /\ Len(bytes) = want /\ stage = "prefix" /\ stage' = "body"
            /\ want' \in Lengths(bytes) /\ buf' = <<>> /\ UNCHANGED frames
  <2>1. Piece(bytes, m, 1, PrefixBytes)
    <3>1. (r - Len(buf)) + 1 = 1 /\ Len(buf) + n = PrefixBytes
      BY <1>7, <1>11, <1>12, <1>16
    <3>2. QED
      BY <1>7, <3>1
  <2>2. bytes = Prefix(m)
    <3>1. PrefixBytes - 1 + 1 = PrefixBytes
      BY <1>10
    <3>2. QED
      BY <1>10, <2>1, <3>1, PieceIsBytes, Zenon DEF Prefix
  <2>3. want' = Body[m]
    BY <1>7, <1>16, <2>2, LengthOfPrefix
  <2>4. Len(buf') = 0 /\ buf' \in Seq(Byte)
    BY <1>16, EmptySeq
  <2>5. Current' = m /\ Taken' = PrefixBytes
    BY <1>8, <1>10, <1>16, <2>4 DEF Current, Taken
  <2>6. next = <<m, PrefixBytes + 1>>
    BY <1>6, <1>7, <1>10, <1>11, <1>12, <1>16 DEF After
  <2>7. Piece(buf', m, PrefixBytes + 1, Len(buf'))
    BY <2>4 DEF Piece
  <2>8. Aligned'
    BY <1>2, <1>7, <1>10, <1>16, <2>3, <2>4, <2>5, <2>6, <2>7 DEF Aligned, Rest
  <2>9. QED
    BY <1>8, <1>13, <1>16, <2>8 DEF StreamInv, FramesIntact
<1>17. CASE Len(bytes) = want /\ stage = "body" /\ Restart /\ frames' = Append(frames, bytes)
  <2>1. Piece(bytes, m, PrefixBytes + 1, Body[m])
    <3>1. (r - Len(buf)) + 1 = PrefixBytes + 1 /\ Len(buf) + n = Body[m]
      BY <1>7, <1>10, <1>11, <1>12, <1>17
    <3>2. QED
      BY <1>7, <3>1
  <2>2. bytes = BodyOf(m)
    <3>1. FrameBytes(m) - (PrefixBytes + 1) + 1 = Body[m] /\ FrameBytes(m) \in Nat
      BY <1>10
    <3>2. QED
      <4>1. PrefixBytes + 1 \in Nat
        BY <1>10
      <4>2. bytes = Bytes(m, PrefixBytes + 1, FrameBytes(m))
        BY <2>1, <3>1, <4>1, PieceIsBytes
      <4>3. QED
        BY <4>2 DEF BodyOf
  <2>3. /\ frames' \in Seq(Seq(Byte)) /\ Len(frames') = m /\ DOMAIN frames' = 1..m
        /\ frames'[m] = bytes /\ \A k \in 1..Len(frames) : frames'[k] = frames[k]
    BY <1>8, <1>12, <1>17, AppendProperties, LenProperties
  <2>4. \A k \in DOMAIN frames' : k \in DOMAIN Body /\ frames'[k] = BodyOf(k)
    <3>1. TAKE k \in DOMAIN frames'
    <3>2. CASE k = m
      BY <1>7, <2>2, <2>3, <3>2
    <3>3. CASE k # m
      <4>1. k \in 1..Len(frames)
        BY <1>8, <2>3, <3>3
      <4>2. k \in DOMAIN frames
        BY <1>8, <4>1, LenProperties
      <4>3. QED
        BY <1>8, <2>3, <4>1, <4>2
    <3>4. QED
      BY <3>2, <3>3
  <2>5. stage' = "prefix" /\ want' = PrefixBytes /\ buf' = <<>> /\ Len(buf') = 0 /\ buf' \in Seq(Byte)
    BY <1>17, EmptySeq DEF Restart
  <2>6. Current' = m + 1 /\ Taken' = 0
    BY <2>3, <2>5 DEF Current, Taken
  <2>7. next = <<m + 1, 1>>
    BY <1>6, <1>7, <1>10, <1>11, <1>12, <1>17, SMTT(30) DEF After
  <2>8. Piece(buf', m + 1, 1, Len(buf'))
    BY <2>5 DEF Piece
  <2>9. Aligned'
    BY <1>2, <1>7, <1>10, <2>5, <2>6, <2>7, <2>8 DEF Aligned, Rest
  <2>10. QED
    BY <1>13, <2>3, <2>4, <2>5, <2>9 DEF StreamInv, FramesIntact
<1>18. QED
  BY <1>1, <1>3, <1>14, <1>15, <1>16, <1>17, Zenon DEF Filled

\* write_framed hands over the byte after the last one.
LEMMA WriteStep ==
    ASSUME StreamInv, ~polling, write_framed
    PROVE  StreamInv'
<1>1. /\ NextByte # <<>> /\ sent' = NextByte /\ wire' = Append(wire, NextByte)
      /\ UNCHANGED <<polling, closed, stage, want, buf, frames>>
  BY DEF write_framed
<1>2. /\ Stream(wire, sent) /\ Runs(wire) /\ frames \in Seq(Seq(Byte))
      /\ stage \in {"prefix", "body", "failed"} /\ (stage # "failed" => Aligned) /\ FramesIntact
  BY DEF StreamInv
<1>3. sent \in Byte /\ sent[1] \in DOMAIN Body /\ wire \in Seq(Byte) /\ Len(wire) \in Nat
  BY <1>2, LenProperties DEF Stream
<1>4. NextByte = After(sent) /\ After(sent)[1] \in DOMAIN Body
  <2>1. DOMAIN Body = 1..Len(Body) /\ Len(Body) \in Nat
    BY FramingAssumption, LenProperties
  <2>2. CASE sent[2] < FrameBytes(sent[1])
    BY <1>3, <2>2 DEF NextByte, After
  <2>3. CASE ~(sent[2] < FrameBytes(sent[1]))
    BY <1>1, <1>3, <2>1, <2>3 DEF NextByte, After
  <2>4. QED
    BY <2>2, <2>3
<1>5. Stream(wire', sent') /\ Runs(wire')
  BY <1>1, <1>2, <1>4, WriteByte
<1>6. After(sent) \in Byte
  BY <1>1, <1>4, <1>5 DEF Stream
<1>7. wire' # <<>> /\ (wire # <<>> => wire'[1] = wire[1]) /\ (wire = <<>> => wire'[1] = After(sent))
  BY <1>1, <1>3, <1>4, <1>6, AppendProperties, EmptySeq
<1>8. stage # "failed" => Aligned'
  <2>1. SUFFICES ASSUME stage # "failed" PROVE Aligned'
    OBVIOUS
  <2>2. Aligned
    BY <1>2, <2>1
  <2>3. Current' = Current /\ Taken' = Taken
    BY <1>1 DEF Current, Taken
  <2>4. wire'[1] = <<Current, Taken + 1>>
    BY <1>7, <2>2 DEF Aligned
  <2>5. QED
    BY <1>1, <1>7, <2>2, <2>3, <2>4 DEF Aligned
<1>9. QED
  BY <1>1, <1>2, <1>5, <1>8 DEF StreamInv, FramesIntact

\* Steps that leave the stream and what was read of it alone.
LEMMA OtherStep ==
    ASSUME StreamInv, ~polling,
           UNCHANGED <<polling, sent, wire, frames>>,
           stage' = "failed" \/ UNCHANGED <<stage, want, buf>>
    PROVE  StreamInv'
<1>1. CASE stage' = "failed"
  BY <1>1 DEF StreamInv, FramesIntact
<1>2. CASE UNCHANGED <<stage, want, buf>>
  BY <1>2 DEF StreamInv, FramesIntact, Aligned, Current, Taken
<1>3. QED
  BY <1>1, <1>2

\* A reader in step with the writer stays in step; on a stream with a read
\* timeout nothing is claimed.
LEMMA StreamStep ==
    ASSUME StreamInv, [Next]_vars
    PROVE  StreamInv'
<1>1. polling' = polling
  BY DEF Next, Reader, Idle, vars, write_framed, Close, read_some, timed_out, end_of_stream
<1>2. CASE polling
  BY <1>1, <1>2 DEF StreamInv
<1>3. CASE ~polling
  <2>1. CASE write_framed
    BY <1>3, <2>1, WriteStep
  <2>2. CASE read_some
    BY <1>3, <2>2, ReadStep
  <2>3. CASE timed_out
    BY <1>3, <2>3 DEF timed_out
  <2>4. CASE Close \/ end_of_stream \/ Idle \/ UNCHANGED vars
    BY <1>3, <2>4, OtherStep DEF Close, end_of_stream, Idle, vars
  <2>5. QED
    BY <2>1, <2>2, <2>3, <2>4 DEF Next, Reader
<1>4. QED
  BY <1>2, <1>3

\* Before the first byte the reader is in step.
LEMMA StreamStart ==
    ASSUME Init
    PROVE  StreamInv
<1>1. 1 \in DOMAIN Body
  BY FramingAssumption, LenProperties, EmptySeq
<1>2. FrameBytes(1) \in Nat /\ FrameBytes(1) >= 1 /\ PrefixBytes \in Nat /\ PrefixBytes >= 1
  BY <1>1, FrameBytesType
<1>3. sent = <<1, 0>> /\ wire = <<>> /\ stage = "prefix" /\ want = PrefixBytes /\ buf = <<>> /\ frames = <<>>
  BY DEF Init
<1>4. /\ wire \in Seq(Byte) /\ Len(wire) = 0 /\ buf \in Seq(Byte) /\ Len(buf) = 0
      /\ frames \in Seq(Seq(Byte)) /\ Len(frames) = 0 /\ DOMAIN frames = {}
  BY <1>3, EmptySeq
<1>5. Stream(wire, sent) /\ Runs(wire)
  BY <1>1, <1>2, <1>3, <1>4 DEF Stream, Runs, Byte
<1>6. Current = 1 /\ Taken = 0 /\ After(sent) = <<1, 1>>
  BY <1>2, <1>3, <1>4 DEF Current, Taken, After
<1>7. Aligned
  BY <1>2, <1>3, <1>4, <1>6 DEF Aligned, Piece
<1>8. QED
  BY <1>3, <1>4, <1>5, <1>7 DEF StreamInv, FramesIntact

\* read_frame_bytes on a blocking stream returns the bodies write_framed was
\* given, whole and in order, whatever their number and lengths and however the
\* stream cuts them into pieces.
THEOREM BlockingReaderGetsFrames == Spec => []FramesIntact
<1>1. Init => StreamInv
  BY StreamStart
<1>2. StreamInv /\ [Next]_vars => StreamInv'
  BY StreamStep
<1>3. StreamInv => FramesIntact
  BY DEF StreamInv, FramesIntact
<1>4. QED
  BY <1>1, <1>2, <1>3, PTL DEF Spec
=============================================================================
