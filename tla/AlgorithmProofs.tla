--------------------------- MODULE AlgorithmProofs --------------------------
(***************************************************************************)
(* Proofs about the pure algorithms, for inputs of any size.  Reassembly:  *)
(* what the loop of flush_ooo_buffer computes, that the bytes are put back *)
(* in sequence, and that nothing new is ignored while the peer repeats its *)
(* segments as it first cut them.  AckRanges: sorting, the loop that       *)
(* builds the ranges of an ACK and the loop that reads them, and that the  *)
(* two meet.  Report: percentiles of sorted samples, and the comparison of *)
(* two results.  Codecs: that what one side of the wire writes the other   *)
(* reads, integer by integer and frame by frame, and that truncated packet *)
(* numbers are completed.                                                  *)
(***************************************************************************)
EXTENDS MCAlgorithms, SequenceTheorems, FiniteSetTheorems, WellFoundedInduction, TLAPS


-----------------------------------------------------------------------------
(* Bytes. *)

(* Bytes(from, to) is the sequence of the numbers from from to to - 1. *)
LEMMA BytesSeq ==
  ASSUME NEW from \in Nat, NEW to \in Nat, from <= to
  PROVE  /\ Bytes(from, to) \in Seq(Nat)
         /\ Len(Bytes(from, to)) = to - from
         /\ \A i \in 1 .. (to - from) : Bytes(from, to)[i] = from + i - 1
<1> DEFINE n == to - from
           f == [i \in 1 .. n |-> from + i - 1]
<1>1. n \in Nat /\ \A i \in 1 .. n : from + i - 1 \in Nat
  OBVIOUS
<1>2. Bytes(from, to) = f
  BY DEF Bytes
<1> HIDE DEF n
<1>3. f \in Seq(Nat) /\ Len(f) = n /\ \A i \in 1 .. n : f[i] = from + i - 1
  BY <1>1
<1> QED
  BY <1>2, <1>3 DEF n

(* A buffered segment holds the peer's bytes from its offset on. *)
Held == [off : Nat, data : Seq(Nat)]
End(p) == p.off + Len(p.data)
GoodSegment(p) == p \in Held /\ p.data = Bytes(p.off, End(p))

(* What a buffered segment holds, byte by byte. *)
LEMMA SegmentBytes ==
  ASSUME NEW p, GoodSegment(p)
  PROVE  /\ p.off \in Nat /\ p.data \in Seq(Nat) /\ Len(p.data) \in Nat
         /\ End(p) \in Nat /\ p.off <= End(p)
         /\ \A i \in 1 .. Len(p.data) : p.data[i] = p.off + i - 1
<1>1. p.off \in Nat /\ p.data \in Seq(Nat) /\ Len(p.data) \in Nat
  BY DEF GoodSegment, Held
<1>2. End(p) \in Nat /\ p.off <= End(p) /\ End(p) - p.off = Len(p.data)
  BY <1>1 DEF End
<1>3. \A i \in 1 .. Len(p.data) : Bytes(p.off, End(p))[i] = p.off + i - 1
  BY <1>1, <1>2, BytesSeq, ZenonT(60)
<1> QED
  BY <1>1, <1>2, <1>3 DEF GoodSegment

(* The rest of a sequence. *)
LEMMA RestOf ==
  ASSUME NEW X, NEW s \in Seq(X), NEW k \in Nat
  PROVE  /\ SubSeq(s, k + 1, Len(s)) \in Seq(X)
         /\ Len(SubSeq(s, k + 1, Len(s))) = IF k < Len(s) THEN Len(s) - k ELSE 0
         /\ \A i \in 1 .. (Len(s) - k) :
              SubSeq(s, k + 1, Len(s))[i] = s[i + k]
<1>1. Len(s) \in Nat
  OBVIOUS
<1>2. CASE k < Len(s)
  <2>1. \A i \in (k + 1) .. Len(s) : s[i] \in X
    BY <1>1
  <2> QED
    BY <1>1, <1>2, <2>1
<1>3. CASE ~(k < Len(s))
  <2>1. SubSeq(s, k + 1, Len(s)) = << >>
    BY <1>1, <1>3, SubSeqEmpty
  <2>2. \A i \in 1 .. (Len(s) - k) : FALSE
    BY <1>1, <1>3
  <2>3. << >> \in Seq(X) /\ Len(<< >>) = 0
    OBVIOUS
  <2>4. 0 = IF k < Len(s) THEN Len(s) - k ELSE 0
    BY <1>3
  <2> QED
    BY <2>1, <2>2, <2>3, <2>4, Zenon
<1> QED
  BY <1>2, <1>3

(* Bytes that follow those up to rx. *)
LEMMA BytesJoin ==
  \A rx \in Nat, tail \in Seq(Nat) :
    (\A i \in 1 .. Len(tail) : tail[i] = rx + i - 1)
      => Bytes(0, rx) \o tail = Bytes(0, rx + Len(tail))
<1>0. SUFFICES ASSUME NEW rx \in Nat, NEW tail \in Seq(Nat),
                      \A i \in 1 .. Len(tail) : tail[i] = rx + i - 1
               PROVE  Bytes(0, rx) \o tail = Bytes(0, rx + Len(tail))
  OBVIOUS
<1>1. /\ Bytes(0, rx) \in Seq(Nat) /\ Len(Bytes(0, rx)) = rx
      /\ \A i \in 1 .. rx : Bytes(0, rx)[i] = i - 1
  <2>1. /\ Bytes(0, rx) \in Seq(Nat) /\ Len(Bytes(0, rx)) = rx - 0
        /\ \A i \in 1 .. (rx - 0) : Bytes(0, rx)[i] = 0 + i - 1
    <3>1. 0 \in Nat /\ 0 <= rx
      OBVIOUS
    <3> QED
      BY <3>1, BytesSeq
  <2> QED
    BY <2>1
<1> DEFINE to == rx + Len(tail)
<1>2. to \in Nat /\ Len(tail) \in Nat
  OBVIOUS
<1> HIDE DEF to
<1>3. /\ Bytes(0, to) \in Seq(Nat) /\ Len(Bytes(0, to)) = to
      /\ \A i \in 1 .. to : Bytes(0, to)[i] = i - 1
  <2>1. /\ Bytes(0, to) \in Seq(Nat) /\ Len(Bytes(0, to)) = to - 0
        /\ \A i \in 1 .. (to - 0) : Bytes(0, to)[i] = 0 + i - 1
    <3>1. 0 \in Nat /\ 0 <= to
      BY <1>2
    <3> QED
      BY <1>2, <3>1, BytesSeq
  <2> QED
    BY <1>2, <2>1
<1> DEFINE b == Bytes(0, rx)
           s == b \o tail
<1> HIDE DEF b
<1>4. /\ s \in Seq(Nat) /\ Len(s) = to
      /\ \A i \in 1 .. to : s[i] = IF i <= rx THEN b[i] ELSE tail[i - rx]
  <2>1. b \in Seq(Nat) /\ Len(b) = rx
    BY <1>1 DEF b
  <2> QED
    BY <2>1, SMTT(40) DEF to
<1> HIDE DEF s
<1>5. ASSUME NEW i \in 1 .. to
      PROVE  s[i] = i - 1
  <2>1. CASE i <= rx
    <3>1. i \in 1 .. rx
      BY <2>1
    <3>2. b[i] = i - 1
      BY <1>1, <3>1 DEF b
    <3>3. s[i] = b[i]
      BY <1>4, <2>1
    <3> QED
      BY <3>2, <3>3
  <2>2. CASE i > rx
    <3>1. i - rx \in 1 .. Len(tail)
      BY <1>2, <2>2 DEF to
    <3>2. tail[i - rx] = rx + (i - rx) - 1
      BY <1>0, <3>1
    <3> QED
      BY <1>2, <1>4, <2>2, <3>2
  <2> QED
    BY <1>2, <2>1, <2>2
<1>6. s = Bytes(0, to)
  BY <1>3, <1>4, <1>5, SeqEqual, ZenonT(60)
<1> QED
  BY <1>6 DEF s, b, to

(* What is left of a segment that starts at or before rx. *)
LEMMA TailBytes ==
  ASSUME NEW rx \in Nat, NEW p, GoodSegment(p), p.off <= rx
  PROVE  LET tail == SubSeq(p.data, rx - p.off + 1, Len(p.data))
         IN /\ tail \in Seq(Nat)
            /\ rx + Len(tail) = IF End(p) > rx THEN End(p) ELSE rx
            /\ \A i \in 1 .. Len(tail) : tail[i] = rx + i - 1
<1> DEFINE k == rx - p.off
           tail == SubSeq(p.data, k + 1, Len(p.data))
<1>1. /\ p.off \in Nat /\ p.data \in Seq(Nat) /\ Len(p.data) \in Nat
      /\ \A i \in 1 .. Len(p.data) : p.data[i] = p.off + i - 1
  BY SegmentBytes
<1>2. k \in Nat /\ p.off + k = rx
  BY <1>1
<1> HIDE DEF k
<1>3. /\ tail \in Seq(Nat)
      /\ Len(tail) = IF k < Len(p.data) THEN Len(p.data) - k ELSE 0
      /\ \A i \in 1 .. (Len(p.data) - k) : tail[i] = p.data[i + k]
  BY <1>1, <1>2, RestOf
<1> HIDE DEF tail
<1>4. rx + Len(tail) = IF End(p) > rx THEN End(p) ELSE rx
  BY <1>1, <1>2, <1>3, SMTT(40) DEF End
<1>5. ASSUME NEW i \in 1 .. Len(tail)
      PROVE  tail[i] = rx + i - 1
  <2>1. i \in 1 .. (Len(p.data) - k) /\ i + k \in 1 .. Len(p.data)
    BY <1>1, <1>2, <1>3
  <2>2. tail[i] = p.off + (i + k) - 1
    BY <1>1, <1>3, <2>1
  <2> QED
    BY <1>1, <1>2, <2>2, SMTT(40)
<1> QED
  BY <1>3, <1>4, <1>5 DEF tail, k

-----------------------------------------------------------------------------
(* The loop of flush_ooo_buffer. *)

(* Of some natural numbers one is the smallest. *)
LEMMA Smallest ==
  ASSUME NEW T, T \subseteq Nat, T # {}
  PROVE  \E n \in T : \A m \in T : n <= m
<1>1. PICK n \in T : \A m \in T : ~(<<m, n>> \in OpToRel(<, Nat))
  BY NatLessThanWellFounded, WFMin, Zenon
<1>2. \A m \in T : ~(m < n)
  BY <1>1 DEF OpToRel
<1> QED
  BY <1>2

Run(x, k, g) ==
  g = [n \in 0 .. k |-> IF n = 0 THEN x ELSE FlushOne(g[n - 1])]

(* The states of the loop are well defined. *)
LEMMA RunExists ==
  ASSUME NEW x, NEW N \in Nat
  PROVE  \E g : Run(x, N, g)
<1> DEFINE T == {k \in Nat : ~ \E g : Run(x, k, g)}
<1> SUFFICES ASSUME T # {}
             PROVE  FALSE
  OBVIOUS
<1>1. PICK k \in T : \A m \in T : k <= m
  <2>1. T \subseteq Nat
    OBVIOUS
  <2> HIDE DEF T
  <2> QED
    BY <2>1, Smallest
<1>2. k \in Nat /\ ~ \E g : Run(x, k, g)
  BY <1>1
<1>3. CASE k = 0
  <2> DEFINE h == [n \in 0 .. 0 |-> x]
  <2>1. Run(x, 0, h)
    BY DEF Run
  <2> QED
    BY <1>2, <1>3, <2>1
<1>4. CASE k # 0
  <2>1. k - 1 \in Nat /\ k - 1 \notin T
    BY <1>1, <1>2, <1>4
  <2>2. PICK g : Run(x, k - 1, g)
    BY <2>1
  <2> DEFINE h == [n \in 0 .. k |-> IF n < k THEN g[n] ELSE FlushOne(g[k - 1])]
  <2>3. ASSUME NEW n \in 0 .. k
        PROVE  h[n] = IF n = 0 THEN x ELSE FlushOne(h[n - 1])
    <3>1. CASE n = 0
      <4>1. h[n] = g[0] /\ 0 \in 0 .. (k - 1)
        BY <1>2, <1>4, <3>1
      <4>2. g[0] = x
        BY <2>2, <4>1 DEF Run
      <4> QED
        BY <3>1, <4>1, <4>2
    <3>2. CASE n # 0
      <4>1. n - 1 \in 0 .. k /\ h[n - 1] = g[n - 1]
        BY <1>2, <3>2
      <4>2. CASE n = k
        BY <3>2, <4>1, <4>2
      <4>3. CASE n # k
        <5>1. n \in 0 .. (k - 1) /\ h[n] = g[n]
          BY <1>2, <4>3
        <5>2. g[n] = FlushOne(g[n - 1])
          BY <2>2, <3>2, <5>1 DEF Run
        <5> QED
          BY <3>2, <4>1, <5>1, <5>2
      <4> QED
        BY <4>2, <4>3
    <3> QED
      BY <3>1, <3>2
  <2>4. h = [n \in 0 .. k |-> h[n]]
    OBVIOUS
  <2> HIDE DEF h
  <2>5. Run(x, k, h)
    BY <2>3, <2>4 DEF Run
  <2> QED
    BY <1>2, <2>5
<1> QED
  BY <1>3, <1>4

(* flush_ooo_buffer is the last state of such a run. *)
LEMMA FlushRuns ==
  ASSUME NEW x, Len(x.ooo) \in Nat
  PROVE  \E g : Run(x, Len(x.ooo), g) /\ FlushOooBuffer(x) = g[Len(x.ooo)]
<1> DEFINE N == Len(x.ooo)
           h == CHOOSE g : Run(x, N, g)
<1>1. Run(x, N, h)
  BY RunExists
<1>2. FlushOooBuffer(x) = h[N]
  BY DEF FlushOooBuffer, Run
<1> QED
  BY <1>1, <1>2

(* @ooo_buffer: sorted by offset, no offset twice. *)
GoodBuffer(ooo) ==
  /\ ooo \in Seq(Held)
  /\ \A i \in 1 .. Len(ooo) : GoodSegment(ooo[i])
  /\ \A i, j \in 1 .. Len(ooo) : i < j => ooo[i].off < ooo[j].off

Covers(p, b) == p.off <= b /\ b < End(p)

(* What the loop has made of x when m segments are shifted: rx is x.rx or  *)
(* where one of them ends, behind all of them, and they covered what was   *)
(* appended.                                                               *)
Shifted(x, m, y) ==
  /\ m \in 0 .. Len(x.ooo)
  /\ y.rx \in Nat /\ x.rx <= y.rx /\ y.buf = Bytes(0, y.rx)
  /\ y.ooo \in Seq(Held) /\ Len(y.ooo) = Len(x.ooo) - m
  /\ \A i \in 1 .. (Len(x.ooo) - m) : y.ooo[i] = x.ooo[i + m]
  /\ \A j \in 1 .. m : x.ooo[j].off <= y.rx /\ End(x.ooo[j]) <= y.rx
  /\ y.rx = x.rx \/ \E j \in 1 .. m : y.rx = End(x.ooo[j])
  /\ \A b \in x.rx .. (y.rx - 1) : \E j \in 1 .. m : Covers(x.ooo[j], b)

Stuck(y) == y.ooo = <<>> \/ Head(y.ooo).off > y.rx

GoodInput(x) == x.rx \in Nat /\ x.buf = Bytes(0, x.rx) /\ GoodBuffer(x.ooo)

(* Array#shift: the rest of a sequence and its first element. *)
LEMMA TailOf ==
  ASSUME NEW X, NEW s \in Seq(X), s # <<>>
  PROVE  /\ Tail(s) \in Seq(X) /\ Len(s) \in Nat \ {0}
         /\ Len(Tail(s)) = Len(s) - 1
         /\ \A i \in 1 .. (Len(s) - 1) : Tail(s)[i] = s[i + 1]
         /\ Head(s) = s[1]
OBVIOUS

(* A turn of the loop. *)
LEMMA OneMore ==
  ASSUME NEW x, GoodInput(x), NEW m, NEW y, Shifted(x, m, y), ~Stuck(y)
  PROVE  Shifted(x, m + 1, FlushOne(y))
<1> DEFINE N == Len(x.ooo)
           p == x.ooo[m + 1]
           tail == SubSeq(p.data, y.rx - p.off + 1, Len(p.data))
           z == [buf |-> y.buf \o tail, rx |-> y.rx + Len(tail),
                 ooo |-> Tail(y.ooo)]
<1>1. /\ m \in 0 .. N /\ N \in Nat
      /\ y.rx \in Nat /\ x.rx \in Nat /\ x.rx <= y.rx /\ y.buf = Bytes(0, y.rx)
      /\ y.ooo \in Seq(Held) /\ Len(y.ooo) = N - m
      /\ \A i \in 1 .. (N - m) : y.ooo[i] = x.ooo[i + m]
  <2>1. N \in Nat /\ x.rx \in Nat
    BY DEF GoodInput, GoodBuffer
  <2>2. /\ m \in 0 .. N /\ y.rx \in Nat /\ x.rx <= y.rx /\ y.buf = Bytes(0, y.rx)
        /\ y.ooo \in Seq(Held) /\ Len(y.ooo) = N - m
        /\ \A i \in 1 .. (N - m) : y.ooo[i] = x.ooo[i + m]
    BY Zenon DEF Shifted
  <2> QED
    BY <2>1, <2>2, Zenon
<1>2. y.ooo # <<>> /\ ~(Head(y.ooo).off > y.rx)
  BY DEF Stuck
<1>3. /\ Tail(y.ooo) \in Seq(Held) /\ Len(y.ooo) \in Nat \ {0}
      /\ Len(Tail(y.ooo)) = Len(y.ooo) - 1
      /\ \A i \in 1 .. (Len(y.ooo) - 1) : Tail(y.ooo)[i] = y.ooo[i + 1]
      /\ Head(y.ooo) = y.ooo[1]
  BY <1>1, <1>2, TailOf
<1>4. m + 1 \in 1 .. N /\ Head(y.ooo) = p
  BY <1>1, <1>3
<1>5. GoodSegment(p)
  BY <1>4 DEF GoodInput, GoodBuffer
<1>6. p.off \in Nat /\ End(p) \in Nat /\ p.off <= y.rx
  BY <1>1, <1>2, <1>4, <1>5, SegmentBytes, SMTT(40)
<1>7. FlushOne(y) = z
  <2> HIDE DEF p
  <2> QED
    BY <1>2, <1>4 DEF FlushOne
<1>8. /\ tail \in Seq(Nat)
      /\ y.rx + Len(tail) = IF End(p) > y.rx THEN End(p) ELSE y.rx
      /\ \A i \in 1 .. Len(tail) : tail[i] = y.rx + i - 1
  <2> DEFINE rx == y.rx
  <2>1. rx \in Nat /\ p.off <= rx
    BY <1>1, <1>6
  <2> HIDE DEF p, rx
  <2>2. LET t == SubSeq(p.data, rx - p.off + 1, Len(p.data))
        IN /\ t \in Seq(Nat)
           /\ rx + Len(t) = IF End(p) > rx THEN End(p) ELSE rx
           /\ \A i \in 1 .. Len(t) : t[i] = rx + i - 1
    BY <1>5, <2>1, TailBytes, ZenonT(60)
  <2> QED
    BY <2>2, Zenon DEF rx
<1> DEFINE r == y.rx + Len(tail)
<1>9. Bytes(0, y.rx) \o tail = Bytes(0, r)
  <2> HIDE DEF tail
  <2> QED
    BY <1>1, <1>8, BytesJoin
<1>10. z.rx = r /\ z.buf = Bytes(0, z.rx) /\ z.ooo = Tail(y.ooo)
  <2> HIDE DEF tail
  <2> QED
    BY <1>1, <1>9
<1>11. r \in Nat /\ r = (IF End(p) > y.rx THEN End(p) ELSE y.rx)
  <2> HIDE DEF tail, p
  <2> QED
    BY <1>1, <1>6, <1>8
<1> HIDE DEF tail, z, r, p
<1>12. m + 1 \in 0 .. N /\ x.rx <= r /\ y.rx <= r /\ End(p) <= r /\ p.off <= r
  BY <1>1, <1>4, <1>6, <1>11
<1>13. /\ z.ooo \in Seq(Held) /\ Len(z.ooo) = N - (m + 1)
       /\ \A i \in 1 .. (N - (m + 1)) : z.ooo[i] = x.ooo[i + (m + 1)]
  <2>1. z.ooo \in Seq(Held) /\ Len(z.ooo) = N - (m + 1)
    BY <1>1, <1>3, <1>10
  <2>2. ASSUME NEW i \in 1 .. (N - (m + 1))
        PROVE  z.ooo[i] = x.ooo[i + (m + 1)]
    <3>1. i \in 1 .. (Len(y.ooo) - 1) /\ i + 1 \in 1 .. (N - m)
      BY <1>1
    <3>2. z.ooo[i] = y.ooo[i + 1]
      BY <1>3, <1>10, <3>1
    <3>3. y.ooo[i + 1] = x.ooo[(i + 1) + m] /\ (i + 1) + m = i + (m + 1)
      BY <1>1, <3>1
    <3> QED
      BY <3>2, <3>3
  <2> QED
    BY <2>1, <2>2
<1>14. ASSUME NEW j \in 1 .. (m + 1)
       PROVE  x.ooo[j].off <= r /\ End(x.ooo[j]) <= r
  <2>1. CASE j = m + 1
    BY <1>12, <2>1 DEF p
  <2>2. CASE j # m + 1
    <3>1. j \in 1 .. m /\ j \in 1 .. N
      BY <1>1, <2>2
    <3>2. x.ooo[j].off <= y.rx /\ End(x.ooo[j]) <= y.rx
      BY <3>1 DEF Shifted
    <3>3. x.ooo[j].off \in Nat /\ End(x.ooo[j]) \in Nat
      BY <3>1, SegmentBytes DEF GoodInput, GoodBuffer
    <3> QED
      BY <1>1, <1>11, <1>12, <3>2, <3>3, SMTT(40)
  <2> QED
    BY <2>1, <2>2
<1>15. r = x.rx \/ \E j \in 1 .. (m + 1) : r = End(x.ooo[j])
  <2>1. m + 1 \in 1 .. (m + 1) /\ \A j \in 1 .. m : j \in 1 .. (m + 1)
    BY <1>1
  <2>2. CASE r = y.rx
    BY <2>1, <2>2 DEF Shifted
  <2>3. CASE r = End(p)
    BY <2>1, <2>3 DEF p
  <2> QED
    BY <1>11, <2>2, <2>3
<1>16. ASSUME NEW b \in x.rx .. (r - 1)
       PROVE  \E j \in 1 .. (m + 1) : Covers(x.ooo[j], b)
  <2>1. m + 1 \in 1 .. (m + 1) /\ \A j \in 1 .. m : j \in 1 .. (m + 1)
    BY <1>1
  <2>2. CASE b < y.rx
    <3>1. b \in x.rx .. (y.rx - 1)
      BY <1>1, <1>11, <2>2
    <3> QED
      BY <2>1, <3>1 DEF Shifted
  <2>3. CASE ~(b < y.rx)
    <3>1. Covers(p, b)
      BY <1>1, <1>6, <1>11, <2>3 DEF Covers
    <3> QED
      BY <2>1, <3>1 DEF p
  <2> QED
    BY <2>2, <2>3
<1> QED
  BY <1>7, <1>10, <1>11, <1>12, <1>13, <1>14, <1>15, <1>16 DEF Shifted

(* The loop shifts segments until it is stuck. *)
LEMMA FlushMeets ==
  ASSUME NEW x, GoodInput(x)
  PROVE  \E m : /\ Shifted(x, m, FlushOooBuffer(x))
                /\ Stuck(FlushOooBuffer(x))
<1> DEFINE N == Len(x.ooo)
<1>1. N \in Nat
  BY DEF GoodInput, GoodBuffer
<1>2. PICK g : Run(x, N, g) /\ FlushOooBuffer(x) = g[N]
  BY <1>1, FlushRuns
<1> DEFINE Ok(n) == \E m : Shifted(x, m, g[n]) /\ (m = n \/ Stuck(g[n]))
           T == {n \in 0 .. N : ~Ok(n)}
<1>3. \A n \in 0 .. N : g[n] = IF n = 0 THEN x ELSE FlushOne(g[n - 1])
  BY <1>2 DEF Run
<1>4. Ok(0)
  <2>1. g[0] = x
    BY <1>1, <1>3
  <2>2. Shifted(x, 0, x)
    BY <1>1 DEF Shifted, GoodInput, GoodBuffer
  <2> QED
    BY <2>1, <2>2
<1>5. ASSUME NEW n \in 1 .. N, Ok(n - 1)
      PROVE  Ok(n)
  <2>1. PICK m : Shifted(x, m, g[n - 1]) /\ (m = n - 1 \/ Stuck(g[n - 1]))
    BY <1>5
  <2>2. g[n] = FlushOne(g[n - 1])
    BY <1>1, <1>3
  <2>3. CASE Stuck(g[n - 1])
    <3>1. g[n] = g[n - 1]
      BY <2>2, <2>3 DEF FlushOne, Stuck
    <3> QED
      BY <2>1, <2>3, <3>1, SMTT(40)
  <2>4. CASE ~Stuck(g[n - 1])
    <3>1. Shifted(x, m + 1, g[n]) /\ m + 1 = n
      BY <1>1, <2>1, <2>2, <2>4, OneMore
    <3> QED
      BY <3>1
  <2> QED
    BY <2>3, <2>4
<1>6. T = {}
  <2> SUFFICES ASSUME T # {}
               PROVE  FALSE
    OBVIOUS
  <2>1. PICK n \in T : \A k \in T : n <= k
    <3>1. T \subseteq Nat
      BY <1>1
    <3> HIDE DEF T
    <3> QED
      BY <3>1, Smallest
  <2>2. n \in 0 .. N /\ ~Ok(n)
    BY <2>1
  <2> HIDE DEF Ok
  <2>3. n # 0
    BY <1>4, <2>2
  <2>4. n \in 1 .. N /\ n - 1 \in 0 .. N /\ ~(n <= n - 1)
    BY <1>1, <2>2, <2>3
  <2>5. Ok(n - 1)
    BY <2>1, <2>4
  <2> QED
    BY <1>5, <2>2, <2>4, <2>5
<1>7. PICK m : Shifted(x, m, g[N]) /\ (m = N \/ Stuck(g[N]))
  <2>1. N \in 0 .. N
    BY <1>1
  <2> QED
    BY <1>6, <2>1
<1>8. m = N => Stuck(g[N])
  <2> SUFFICES ASSUME m = N
               PROVE  Stuck(g[N])
    OBVIOUS
  <2>1. g[N].ooo \in Seq(Held) /\ Len(g[N].ooo) = 0
    BY <1>1, <1>7 DEF Shifted
  <2>2. g[N].ooo = <<>>
    BY <2>1
  <2> QED
    BY <2>2 DEF Stuck
<1> QED
  BY <1>2, <1>7, <1>8

-----------------------------------------------------------------------------
(* The place of a new segment in @ooo_buffer. *)

Place(ooo, seg, k) ==
  /\ \A i \in 1 .. k : ooo[i].off < seg.off
  /\ \A i \in (k + 1) .. Len(ooo) : ooo[i].off > seg.off

(* A sorted array without the offset has a place for it. *)
LEMMA PlaceExists ==
  ASSUME NEW ooo, GoodBuffer(ooo), NEW seg, GoodSegment(seg),
         \A i \in 1 .. Len(ooo) : ooo[i].off # seg.off
  PROVE  \E k \in 0 .. Len(ooo) : Place(ooo, seg, k)
<1> DEFINE N == Len(ooo)
           T == {i \in 1 .. N : ooo[i].off > seg.off}
<1>1. N \in Nat /\ seg.off \in Nat /\ \A i \in 1 .. N : ooo[i].off \in Nat
  BY SegmentBytes DEF GoodBuffer
<1>2. \A i, j \in 1 .. N : i < j => ooo[i].off < ooo[j].off
  BY DEF GoodBuffer
<1>3. CASE T = {}
  <2>1. \A i \in 1 .. N : ooo[i].off < seg.off
    BY <1>1, <1>3
  <2>2. N \in 0 .. N /\ \A i \in (N + 1) .. N : FALSE
    BY <1>1
  <2> QED
    BY <2>1, <2>2 DEF Place
<1>4. CASE T # {}
  <2>1. PICK n \in T : \A m \in T : n <= m
    <3>1. T \subseteq Nat
      BY <1>1
    <3> HIDE DEF T
    <3> QED
      BY <1>4, <3>1, Smallest
  <2>2. n \in 1 .. N /\ ooo[n].off > seg.off
    BY <2>1
  <2>3. ASSUME NEW i \in 1 .. (n - 1)
        PROVE  ooo[i].off < seg.off
    <3>1. i \in 1 .. N /\ ~(n <= i)
      BY <1>1, <2>2
    <3>2. ~(ooo[i].off > seg.off)
      BY <2>1, <3>1
    <3> QED
      BY <1>1, <3>1, <3>2
  <2>4. ASSUME NEW i \in n .. N
        PROVE  ooo[i].off > seg.off
    <3>1. i \in 1 .. N /\ (i = n \/ n < i)
      BY <1>1, <2>2
    <3>2. ooo[i].off = ooo[n].off \/ ooo[n].off < ooo[i].off
      BY <1>2, <2>2, <3>1
    <3> QED
      BY <1>1, <2>2, <3>1, <3>2
  <2>5. n - 1 \in 0 .. N /\ (n - 1) + 1 = n
    BY <1>1, <2>2
  <2> QED
    BY <2>3, <2>4, <2>5 DEF Place
<1> QED
  BY <1>3, <1>4

(* The elements of a sequence after an insertion at place k. *)
Insertion(s, e, k) == SubSeq(s, 1, k) \o <<e>> \o SubSeq(s, k + 1, Len(s))

LEMMA InsertAt ==
  ASSUME NEW X, NEW ooo \in Seq(X), NEW seg \in X, NEW k \in 0 .. Len(ooo)
  PROVE  LET r == Insertion(ooo, seg, k)
         IN /\ r \in Seq(X) /\ Len(r) = Len(ooo) + 1
            /\ \A i \in 1 .. Len(r) :
                 r[i] = IF i <= k THEN ooo[i]
                        ELSE IF i = k + 1 THEN seg ELSE ooo[i - 1]
<1> DEFINE N == Len(ooo)
           a == SubSeq(ooo, 1, k)
           b == SubSeq(ooo, k + 1, N)
           c == a \o <<seg>>
           r == c \o b
<1>1. N \in Nat /\ k \in Nat /\ k <= N
  OBVIOUS
<1>2. a \in Seq(X) /\ Len(a) = k /\ \A i \in 1 .. k : a[i] = ooo[i]
  BY <1>1
<1>3. /\ b \in Seq(X) /\ Len(b) = N - k
      /\ \A i \in 1 .. (N - k) : b[i] = ooo[i + k]
  <2>1. /\ b \in Seq(X) /\ Len(b) = IF k < N THEN N - k ELSE 0
        /\ \A i \in 1 .. (N - k) : b[i] = ooo[i + k]
    BY <1>1, RestOf
  <2> HIDE DEF b
  <2> QED
    BY <1>1, <2>1
<1> HIDE DEF a, b
<1>4. /\ c \in Seq(X) /\ Len(c) = k + 1
      /\ \A i \in 1 .. (k + 1) : c[i] = IF i <= k THEN a[i] ELSE seg
  BY <1>1, <1>2
<1> HIDE DEF c
<1>5. /\ r \in Seq(X) /\ Len(r) = N + 1
      /\ \A i \in 1 .. (N + 1) : r[i] = IF i <= k + 1 THEN c[i] ELSE b[i - (k + 1)]
  <2>1. c \in Seq(X) /\ b \in Seq(X)
    BY <1>3, <1>4
  <2>2. Len(c) = k + 1 /\ Len(b) = N - k
    BY <1>3, <1>4
  <2>3. r \in Seq(X) /\ Len(r) = Len(c) + Len(b)
    BY <2>1
  <2>4. \A i \in 1 .. (Len(c) + Len(b)) :
          r[i] = IF i <= Len(c) THEN c[i] ELSE b[i - Len(c)]
    BY <2>1
  <2>5. (k + 1) + (N - k) = N + 1
    BY <1>1
  <2> HIDE DEF r
  <2> QED
    BY <2>2, <2>3, <2>4, <2>5
<1> HIDE DEF r
<1>6. ASSUME NEW i \in 1 .. Len(r)
      PROVE  r[i] = IF i <= k THEN ooo[i]
                    ELSE IF i = k + 1 THEN seg ELSE ooo[i - 1]
  <2>0. i \in 1 .. (N + 1)
    BY <1>5
  <2>1. CASE i <= k + 1
    BY <1>1, <1>2, <1>4, <1>5, <2>0, <2>1
  <2>2. CASE ~(i <= k + 1)
    <3>1. i - (k + 1) \in 1 .. (N - k) /\ (i - (k + 1)) + k = i - 1
      BY <1>1, <2>0, <2>2
    <3>2. r[i] = ooo[i - 1]
      BY <1>3, <1>5, <2>0, <2>2, <3>1
    <3> QED
      BY <1>1, <2>0, <2>2, <3>2
  <2> QED
    BY <2>1, <2>2
<1> QED
  BY <1>5, <1>6 DEF Insertion, r, c, a, b

(* It stays sorted, and holds what it held and the new segment. *)
LEMMA InsertGood ==
  ASSUME NEW ooo, GoodBuffer(ooo), NEW seg, GoodSegment(seg),
         \A i \in 1 .. Len(ooo) : ooo[i].off # seg.off
  PROVE  /\ GoodBuffer(Insert(ooo, seg))
         /\ \A i \in 1 .. Len(Insert(ooo, seg)) :
              \/ Insert(ooo, seg)[i] = seg
              \/ \E j \in 1 .. Len(ooo) : Insert(ooo, seg)[i] = ooo[j]
         /\ \A j \in 1 .. Len(ooo) : \E i \in 1 .. Len(Insert(ooo, seg)) :
              Insert(ooo, seg)[i] = ooo[j]
         /\ \E i \in 1 .. Len(Insert(ooo, seg)) : Insert(ooo, seg)[i] = seg
<1> DEFINE N == Len(ooo)
           k == CHOOSE k \in 0 .. N : Place(ooo, seg, k)
           r == Insertion(ooo, seg, k)
<1>1. k \in 0 .. N /\ Place(ooo, seg, k)
  BY PlaceExists
<1>2. Insert(ooo, seg) = r
  BY Zenon DEF Insert, Place, Insertion
<1>3. ooo \in Seq(Held) /\ seg \in Held /\ N \in Nat
  BY DEF GoodBuffer, GoodSegment
<1> HIDE DEF k
<1>4. /\ r \in Seq(Held) /\ Len(r) = N + 1
      /\ \A i \in 1 .. Len(r) :
           r[i] = IF i <= k THEN ooo[i]
                  ELSE IF i = k + 1 THEN seg ELSE ooo[i - 1]
  BY <1>1, <1>3, InsertAt
<1> HIDE DEF r
<1>5. k \in Nat /\ k <= N /\ k + 1 \in 1 .. Len(r) /\ ~(k + 1 <= k)
  BY <1>1, <1>3, <1>4
<1>6. ASSUME NEW i \in 1 .. Len(r)
      PROVE  \/ i <= k /\ i \in 1 .. k /\ i \in 1 .. N /\ r[i] = ooo[i]
             \/ i = k + 1 /\ r[i] = seg
             \/ /\ i > k + 1 /\ i - 1 \in (k + 1) .. N /\ i - 1 \in 1 .. N
                /\ r[i] = ooo[i - 1]
  BY <1>3, <1>4, <1>5
<1>7. \A i \in 1 .. Len(r) : r[i] = seg \/ \E j \in 1 .. N : r[i] = ooo[j]
  BY <1>6
<1>8. \A i \in 1 .. Len(r) : GoodSegment(r[i])
  BY <1>7 DEF GoodBuffer
<1>9. \A j \in 1 .. N : \E i \in 1 .. Len(r) : r[i] = ooo[j]
  <2> SUFFICES ASSUME NEW j \in 1 .. N
               PROVE  \E i \in 1 .. Len(r) : r[i] = ooo[j]
    OBVIOUS
  <2>1. CASE j <= k
    <3>1. j \in 1 .. Len(r) /\ r[j] = ooo[j]
      BY <1>3, <1>4, <2>1
    <3> QED
      BY <3>1
  <2>2. CASE ~(j <= k)
    <3>1. j + 1 \in 1 .. Len(r) /\ (j + 1) - 1 = j /\ ~(j + 1 <= k) /\ j + 1 # k + 1
      BY <1>3, <1>4, <1>5, <2>2
    <3>2. r[j + 1] = ooo[j]
      BY <1>4, <3>1
    <3> QED
      BY <3>1, <3>2
  <2> QED
    BY <2>1, <2>2
<1>10. r[k + 1] = seg
  BY <1>4, <1>5
<1>11. ASSUME NEW i \in 1 .. Len(r), NEW j \in 1 .. Len(r), i < j
       PROVE  r[i].off < r[j].off
  <2>1. /\ \A n \in 1 .. N : ooo[n].off \in Nat
        /\ \A m, n \in 1 .. N : m < n => ooo[m].off < ooo[n].off
        /\ seg.off \in Nat
    BY SegmentBytes DEF GoodBuffer
  <2>2. /\ \A n \in 1 .. k : ooo[n].off < seg.off
        /\ \A n \in (k + 1) .. N : ooo[n].off > seg.off
    BY <1>1 DEF Place
  <2>3. CASE j <= k
    <3>1. i <= k /\ r[i] = ooo[i] /\ r[j] = ooo[j] /\ i \in 1 .. N /\ j \in 1 .. N
      BY <1>3, <1>5, <1>6, <1>11, <2>3
    <3> QED
      BY <1>11, <2>1, <3>1
  <2>4. CASE j = k + 1
    <3>1. i \in 1 .. k /\ r[i] = ooo[i] /\ r[j] = seg
      BY <1>5, <1>6, <1>11, <2>4
    <3> QED
      BY <2>2, <3>1
  <2>5. CASE j > k + 1
    <3>1. /\ j - 1 \in (k + 1) .. N /\ j - 1 \in 1 .. N /\ r[j] = ooo[j - 1]
      BY <1>5, <1>6, <2>5
    <3>2. CASE i <= k
      <4>1. i \in 1 .. N /\ r[i] = ooo[i] /\ i < j - 1
        BY <1>5, <1>6, <2>5, <3>2
      <4> QED
        BY <2>1, <3>1, <4>1
    <3>3. CASE i = k + 1
      BY <1>10, <2>1, <2>2, <3>1, <3>3
    <3>4. CASE i > k + 1
      <4>1. i - 1 \in 1 .. N /\ r[i] = ooo[i - 1] /\ i - 1 < j - 1
        BY <1>5, <1>6, <1>11, <3>4
      <4> QED
        BY <2>1, <3>1, <4>1
    <3> QED
      BY <1>5, <3>2, <3>3, <3>4
  <2> QED
    BY <1>5, <2>3, <2>4, <2>5
<1>12. GoodBuffer(r)
  BY <1>4, <1>8, <1>11, Zenon DEF GoodBuffer
<1> QED
  BY <1>2, <1>5, <1>7, <1>9, <1>10, <1>12, Zenon

-----------------------------------------------------------------------------
(* What flush_ooo_buffer makes of the stream, without its loop: the bytes  *)
(* up to y.rx are in the buffer, the segments that end there are gone and  *)
(* covered what was appended, the others start beyond it.                  *)
Merged(x, y) ==
  /\ y.rx \in Nat /\ x.rx <= y.rx /\ y.buf = Bytes(0, y.rx)
  /\ GoodBuffer(y.ooo)
  /\ \A i \in 1 .. Len(y.ooo) : y.ooo[i].off > y.rx
  /\ \A i \in 1 .. Len(y.ooo) : \E j \in 1 .. Len(x.ooo) : y.ooo[i] = x.ooo[j]
  /\ \A j \in 1 .. Len(x.ooo) :
       \/ x.ooo[j].off <= y.rx /\ End(x.ooo[j]) <= y.rx
       \/ \E i \in 1 .. Len(y.ooo) : y.ooo[i] = x.ooo[j]
  /\ \A b \in x.rx .. (y.rx - 1) :
       \E j \in 1 .. Len(x.ooo) : Covers(x.ooo[j], b) /\ End(x.ooo[j]) <= y.rx

(* flush_ooo_buffer makes that of any sorted buffer. *)
LEMMA FlushMerges ==
  ASSUME NEW x, GoodInput(x)
  PROVE  Merged(x, FlushOooBuffer(x))
<1> DEFINE N == Len(x.ooo)
           y == FlushOooBuffer(x)
<1> HIDE DEF y
<1>1. PICK m : Shifted(x, m, y) /\ Stuck(y)
  BY FlushMeets DEF y
<1>2. /\ m \in 0 .. N /\ y.rx \in Nat /\ x.rx <= y.rx /\ y.buf = Bytes(0, y.rx)
      /\ y.ooo \in Seq(Held) /\ Len(y.ooo) = N - m
      /\ \A i \in 1 .. (N - m) : y.ooo[i] = x.ooo[i + m]
  BY <1>1, Zenon DEF Shifted
<1>3. /\ \A j \in 1 .. m : x.ooo[j].off <= y.rx /\ End(x.ooo[j]) <= y.rx
      /\ \A b \in x.rx .. (y.rx - 1) : \E j \in 1 .. m : Covers(x.ooo[j], b)
  BY <1>1, Zenon DEF Shifted
<1>4. /\ N \in Nat
      /\ \A i \in 1 .. N : GoodSegment(x.ooo[i])
      /\ \A i, j \in 1 .. N : i < j => x.ooo[i].off < x.ooo[j].off
  BY DEF GoodInput, GoodBuffer
<1>5. ASSUME NEW i \in 1 .. Len(y.ooo)
      PROVE  i + m \in 1 .. N /\ y.ooo[i] = x.ooo[i + m]
  BY <1>2, <1>4
<1>6. GoodBuffer(y.ooo)
  <2>1. \A i \in 1 .. Len(y.ooo) : GoodSegment(y.ooo[i])
    BY <1>4, <1>5
  <2>2. ASSUME NEW i \in 1 .. Len(y.ooo), NEW j \in 1 .. Len(y.ooo), i < j
        PROVE  y.ooo[i].off < y.ooo[j].off
    <3>1. i + m < j + m
      BY <1>2, <1>4, <2>2
    <3> QED
      BY <1>4, <1>5, <3>1
  <2> QED
    BY <1>2, <2>1, <2>2, Zenon DEF GoodBuffer
<1>7. ASSUME NEW i \in 1 .. Len(y.ooo)
      PROVE  y.ooo[i].off > y.rx
  <2>1. Len(y.ooo) \in Nat /\ 1 \in 1 .. Len(y.ooo) /\ (i = 1 \/ 1 < i)
    BY <1>2, <1>4
  <2>2. y.ooo # <<>>
    BY <2>1
  <2>3. Head(y.ooo) = y.ooo[1]
    BY <1>2, <2>2, TailOf
  <2>4. y.ooo[1].off > y.rx
    BY <1>1, <2>2, <2>3 DEF Stuck
  <2>5. i = 1 \/ y.ooo[1].off < y.ooo[i].off
    BY <1>6, <2>1 DEF GoodBuffer
  <2>6. y.ooo[1].off \in Nat /\ y.ooo[i].off \in Nat
    BY <1>6, <2>1, SegmentBytes DEF GoodBuffer
  <2> QED
    BY <1>2, <2>4, <2>5, <2>6
<1>8. ASSUME NEW j \in 1 .. N
      PROVE  \/ x.ooo[j].off <= y.rx /\ End(x.ooo[j]) <= y.rx
             \/ \E i \in 1 .. Len(y.ooo) : y.ooo[i] = x.ooo[j]
  <2>1. CASE j <= m
    <3>1. j \in 1 .. m
      BY <1>2, <1>4, <2>1
    <3> QED
      BY <1>3, <3>1
  <2>2. CASE ~(j <= m)
    <3>1. j - m \in 1 .. (N - m) /\ (j - m) + m = j
      BY <1>2, <1>4, <2>2
    <3>2. j - m \in 1 .. Len(y.ooo) /\ y.ooo[j - m] = x.ooo[j]
      BY <1>2, <3>1
    <3> QED
      BY <3>2
  <2> QED
    BY <2>1, <2>2
<1>9. ASSUME NEW b \in x.rx .. (y.rx - 1)
      PROVE  \E j \in 1 .. N : Covers(x.ooo[j], b) /\ End(x.ooo[j]) <= y.rx
  <2>1. PICK j \in 1 .. m : Covers(x.ooo[j], b)
    BY <1>3
  <2>2. j \in 1 .. N
    BY <1>2, <1>4
  <2> QED
    BY <1>3, <2>1, <2>2
<1>10. \A i \in 1 .. Len(y.ooo) : \E j \in 1 .. N : y.ooo[i] = x.ooo[j]
  BY <1>5
<1>11. Merged(x, y)
  BY <1>2, <1>6, <1>7, <1>8, <1>9, <1>10, Zenon DEF Merged
<1> QED
  BY <1>11 DEF y

-----------------------------------------------------------------------------
(* The inductive invariant.  @rx_offset counts the bytes of recv_buffer,   *)
(* which are the peer's first; ooo_buffer is sorted and starts beyond.     *)
Assembled ==
  /\ rx_offset \in Nat /\ recv_buffer = Bytes(0, rx_offset)
  /\ GoodBuffer(ooo_buffer)
  /\ \A i \in 1 .. Len(ooo_buffer) : ooo_buffer[i].off > rx_offset

Within(a, b) == a[1] <= b /\ b < a[1] + a[2]

(* The segments that came do not overlap; those that wait are among them,  *)
(* the others are up to @rx_offset, which lies inside none of them, and    *)
(* they covered the bytes up to it.                                        *)
OneCut ==
  /\ \A a \in arrived : a[1] \in Nat /\ a[2] \in Nat
  /\ \A a, h \in arrived : a = h \/ ~Overlap(a, h)
  /\ \A i \in 1 .. Len(ooo_buffer) :
       \E a \in arrived : a[1] = ooo_buffer[i].off /\ a[1] + a[2] = End(ooo_buffer[i])
  /\ \A a \in arrived : a[1] < rx_offset => a[1] + a[2] <= rx_offset
  /\ \A b \in 0 .. (rx_offset - 1) : \E a \in arrived : Within(a, b)
  /\ \A a \in arrived :
       a[1] >= rx_offset => a[2] = 0 \/
         \E i \in 1 .. Len(ooo_buffer) :
           a[1] = ooo_buffer[i].off /\ a[1] + a[2] = End(ooo_buffer[i])

(* A segment at @rx_offset. *)
LEMMA InOrderMerges ==
  ASSUME Assembled, NEW len \in Nat
  PROVE  LET x == [buf |-> recv_buffer \o Bytes(rx_offset, rx_offset + len),
                   rx |-> rx_offset + len, ooo |-> ooo_buffer]
         IN Merged(x, FlushOooBuffer(x))
<1> DEFINE data == Bytes(rx_offset, rx_offset + len)
           x == [buf |-> recv_buffer \o data, rx |-> rx_offset + len,
                 ooo |-> ooo_buffer]
<1>1. rx_offset \in Nat /\ recv_buffer = Bytes(0, rx_offset)
  BY DEF Assembled
<1>2. /\ data \in Seq(Nat) /\ Len(data) = len
      /\ \A i \in 1 .. len : data[i] = rx_offset + i - 1
  <2>1. /\ rx_offset + len \in Nat /\ rx_offset <= rx_offset + len
        /\ (rx_offset + len) - rx_offset = len
    BY <1>1
  <2> QED
    BY <1>1, <2>1, BytesSeq, ZenonT(60)
<1> HIDE DEF data
<1>3. Bytes(0, rx_offset) \o data = Bytes(0, rx_offset + len)
  BY <1>1, <1>2, BytesJoin
<1>4. GoodInput(x)
  <2>1. x.rx \in Nat /\ x.rx = rx_offset + len /\ x.ooo = ooo_buffer
    BY <1>1
  <2>2. x.buf = Bytes(0, x.rx)
    BY <1>1, <1>3, <2>1
  <2> QED
    BY <2>1, <2>2 DEF GoodInput, Assembled
<1> HIDE DEF x
<1>5. Merged(x, FlushOooBuffer(x))
  BY <1>4, FlushMerges
<1> QED
  BY <1>5 DEF x, data

(* What a segment of len bytes at @rx_offset does. *)
Appends(len) ==
  /\ rx_offset' \in Nat /\ rx_offset + len <= rx_offset'
  /\ recv_buffer' = Bytes(0, rx_offset')
  /\ GoodBuffer(ooo_buffer')
  /\ \A i \in 1 .. Len(ooo_buffer') : ooo_buffer'[i].off > rx_offset'
  /\ \A i \in 1 .. Len(ooo_buffer') :
       \E j \in 1 .. Len(ooo_buffer) : ooo_buffer'[i] = ooo_buffer[j]
  /\ \A j \in 1 .. Len(ooo_buffer) :
       \/ ooo_buffer[j].off <= rx_offset' /\ End(ooo_buffer[j]) <= rx_offset'
       \/ \E i \in 1 .. Len(ooo_buffer') : ooo_buffer'[i] = ooo_buffer[j]
  /\ \A b \in (rx_offset + len) .. (rx_offset' - 1) :
       \E j \in 1 .. Len(ooo_buffer) :
         Covers(ooo_buffer[j], b) /\ End(ooo_buffer[j]) <= rx_offset'

(* r is ooo with a segment for g, and the rest as it was. *)
Inserted(ooo, g, r) ==
  \E seg :
    /\ seg.off = g[1] /\ End(seg) = g[1] + g[2]
    /\ \A i \in 1 .. Len(r) :
         r[i] = seg \/ \E j \in 1 .. Len(ooo) : r[i] = ooo[j]
    /\ \A j \in 1 .. Len(ooo) : \E i \in 1 .. Len(r) : r[i] = ooo[j]
    /\ \E i \in 1 .. Len(r) : r[i] = seg

(* What a segment beyond @rx_offset does. *)
Waits(g) ==
  /\ UNCHANGED <<recv_buffer, rx_offset>>
  /\ GoodBuffer(ooo_buffer')
  /\ \/ /\ UNCHANGED ooo_buffer
        /\ \E i \in 1 .. Len(ooo_buffer) : ooo_buffer[i].off = g[1]
     \/ Inserted(ooo_buffer, g, ooo_buffer')

Ignores == UNCHANGED <<recv_buffer, rx_offset, ooo_buffer>>

(* The offset and the length of a segment are natural numbers. *)
LEMMA SegmentType ==
  ASSUME NEW g \in Segments
  PROVE  g[1] \in Nat /\ g[2] \in Nat
BY ReassemblyAssumption

(* receive_data does one of the three. *)
LEMMA ReceiveCases ==
  ASSUME Assembled, NEW g \in Segments, NEW fin, Receive(g, fin)
  PROVE  \/ ~remote_closed /\ g[1] = rx_offset /\ Appends(g[2])
         \/ ~remote_closed /\ g[1] > rx_offset /\ Waits(g)
         \/ (remote_closed \/ g[1] < rx_offset) /\ Ignores
<1> DEFINE off == g[1]
           len == g[2]
           data == Bytes(off, off + len)
           x == [buf |-> recv_buffer \o data, rx |-> rx_offset + len,
                 ooo |-> ooo_buffer]
           seg == [off |-> off, data |-> data]
           held == \E i \in DOMAIN ooo_buffer : ooo_buffer[i].off = off
<1>1. off \in Nat /\ len \in Nat /\ off + len \in Nat /\ off <= off + len
  BY SegmentType
<1>2. \/ /\ ~remote_closed /\ off = rx_offset
         /\ recv_buffer' = FlushOooBuffer(x).buf
         /\ rx_offset' = FlushOooBuffer(x).rx
         /\ ooo_buffer' = FlushOooBuffer(x).ooo
      \/ /\ ~remote_closed /\ off > rx_offset
         /\ ooo_buffer' = IF held THEN ooo_buffer ELSE Insert(ooo_buffer, seg)
         /\ UNCHANGED <<recv_buffer, rx_offset>>
      \/ (remote_closed \/ off < rx_offset) /\ Ignores
  BY Zenon DEF Receive, Ignores
<1>3. /\ rx_offset \in Nat /\ GoodBuffer(ooo_buffer)
      /\ DOMAIN ooo_buffer = 1 .. Len(ooo_buffer)
  BY DEF Assembled, GoodBuffer
<1>4. ASSUME ~remote_closed, off = rx_offset,
             recv_buffer' = FlushOooBuffer(x).buf,
             rx_offset' = FlushOooBuffer(x).rx,
             ooo_buffer' = FlushOooBuffer(x).ooo
      PROVE  Appends(len)
  <2>1. Merged(x, FlushOooBuffer(x))
    BY <1>1, <1>4, InOrderMerges
  <2> DEFINE y == FlushOooBuffer(x)
  <2>2. x.rx = rx_offset + len /\ x.ooo = ooo_buffer
    OBVIOUS
  <2>3. recv_buffer' = y.buf /\ rx_offset' = y.rx /\ ooo_buffer' = y.ooo
    BY <1>4
  <2> HIDE DEF x, y, len
  <2>4. Merged(x, y)
    BY <2>1 DEF y
  <2> QED
    BY <2>2, <2>3, <2>4 DEF Merged, Appends
<1>5. ASSUME ~remote_closed, off > rx_offset, UNCHANGED <<recv_buffer, rx_offset>>,
             ooo_buffer' = IF held THEN ooo_buffer ELSE Insert(ooo_buffer, seg)
      PROVE  Waits(g)
  <2>1. CASE held
    BY <1>3, <1>5, <2>1 DEF Waits
  <2>2. CASE ~held
    <3>1. GoodSegment(seg) /\ seg.off = off /\ End(seg) = off + len
      <4>1. data \in Seq(Nat) /\ Len(data) = (off + len) - off
        BY <1>1, BytesSeq
      <4>2. seg.off = off /\ seg.data = data /\ seg \in Held
        BY <1>1, <4>1 DEF Held
      <4>3. End(seg) = off + len
        <5> HIDE DEF data, seg
        <5> QED
          BY <1>1, <4>1, <4>2 DEF End
      <4> HIDE DEF seg
      <4> QED
        BY <4>2, <4>3 DEF GoodSegment
    <3>2. \A i \in 1 .. Len(ooo_buffer) : ooo_buffer[i].off # seg.off
      BY <1>3, <2>2
    <3> HIDE DEF seg
    <3> DEFINE r == Insert(ooo_buffer, seg)
    <3>3. ooo_buffer' = r
      BY <1>5, <2>2
    <3>4. /\ GoodBuffer(r)
          /\ \A i \in 1 .. Len(r) :
               r[i] = seg \/ \E j \in 1 .. Len(ooo_buffer) : r[i] = ooo_buffer[j]
          /\ \A j \in 1 .. Len(ooo_buffer) :
               \E i \in 1 .. Len(r) : r[i] = ooo_buffer[j]
          /\ \E i \in 1 .. Len(r) : r[i] = seg
      BY <1>3, <3>1, <3>2, InsertGood, SMTT(40)
    <3> HIDE DEF r
    <3>5. Inserted(ooo_buffer, g, r)
      BY <3>1, <3>4, Zenon DEF Inserted
    <3> QED
      BY <1>5, <3>3, <3>4, <3>5 DEF Waits
  <2> QED
    BY <2>1, <2>2
<1> HIDE DEF x, seg, held
<1> QED
  BY <1>2, <1>4, <1>5, Zenon

(* A new stream is assembled. *)
LEMMA InitAssembled ==
  Init => Assembled
<1> SUFFICES ASSUME Init
             PROVE  Assembled
  OBVIOUS
<1>1. Bytes(0, 0) = <<>>
  BY DEF Bytes
<1> QED
  BY <1>1 DEF Init, Assembled, GoodBuffer

(* receive_data keeps the stream assembled. *)
LEMMA ReceiveAssembled ==
  ASSUME Assembled, NEW g \in Segments, NEW fin, Receive(g, fin)
  PROVE  Assembled'
<1>1. CASE Appends(g[2])
  BY <1>1 DEF Appends, Assembled
<1>2. CASE g[1] > rx_offset /\ Waits(g)
  <2>1. ASSUME NEW i \in 1 .. Len(ooo_buffer')
        PROVE  ooo_buffer'[i].off > rx_offset
    BY <1>2 DEF Waits, Inserted, Assembled
  <2> QED
    BY <1>2, <2>1 DEF Waits, Assembled
<1>3. CASE Ignores
  BY <1>3 DEF Ignores, Assembled
<1> QED
  BY <1>1, <1>2, <1>3, ReceiveCases

-----------------------------------------------------------------------------
(* The history of the peer's cut: each kind of arrival keeps OneCut. *)

(* A segment that is one of those that came, or overlaps none of them. *)
Fits(g) == \A h \in arrived : h = g \/ ~Overlap(g, h)

(* The segments that came stay apart when one that fits is added. *)
LEMMA StillDisjoint ==
  ASSUME OneCut, NEW g \in Segments, Fits(g), arrived' = arrived \cup {g}
  PROVE  /\ \A a \in arrived' : a[1] \in Nat /\ a[2] \in Nat
         /\ \A a, h \in arrived' : a = h \/ ~Overlap(a, h)
<1>1. \A a \in arrived' : a[1] \in Nat /\ a[2] \in Nat
  BY SegmentType DEF OneCut
<1>2. \A a, h : Overlap(a, h) => Overlap(h, a)
  BY Zenon DEF Overlap
<1>3. \A a, h \in arrived : a = h \/ ~Overlap(a, h)
  BY DEF OneCut
<1>4. ASSUME NEW a \in arrived', NEW h \in arrived'
      PROVE  a = h \/ ~Overlap(a, h)
  <2>1. CASE a \in arrived /\ h \in arrived
    BY <1>3, <2>1
  <2>2. CASE a = g
    BY <2>2 DEF Fits
  <2>3. CASE h = g
    BY <1>2, <2>3 DEF Fits
  <2> QED
    BY <2>1, <2>2, <2>3
<1> QED
  BY <1>1, <1>4

(* A segment that has a byte of another one and does not overlap it is it. *)
LEMMA SameSegment ==
  ASSUME NEW a, NEW h, a = h \/ ~Overlap(a, h),
         a[1] \in Nat, a[2] \in Nat, h[1] \in Nat, h[2] \in Nat,
         a[2] # 0, Within(h, a[1])
  PROVE  a = h
BY DEF Overlap, Within

(* The bounds of a range. *)
LEMMA Between ==
  \A lo \in Nat, hi \in Nat : \A b \in lo .. (hi - 1) :
    b \in Int /\ lo <= b /\ b <= hi - 1
OBVIOUS

(* A segment at @rx_offset. *)
LEMMA AppendsCut ==
  ASSUME Assembled, OneCut, NEW g \in Segments, g[1] = rx_offset,
         Appends(g[2]), Fits(g), arrived' = arrived \cup {g}
  PROVE  OneCut'
<1>1. /\ \A a \in arrived' : a[1] \in Nat /\ a[2] \in Nat
      /\ \A a, h \in arrived' : a = h \/ ~Overlap(a, h)
  BY StillDisjoint
<1>2. /\ rx_offset \in Nat /\ rx_offset' \in Nat /\ g[2] \in Nat
      /\ rx_offset + g[2] <= rx_offset' /\ rx_offset <= rx_offset'
      /\ g \in arrived' /\ arrived \subseteq arrived'
  BY SegmentType DEF Appends, Assembled
<1>3. \A j \in 1 .. Len(ooo_buffer) :
        /\ ooo_buffer[j].off \in Nat /\ End(ooo_buffer[j]) \in Nat
        /\ \E a \in arrived :
             a[1] = ooo_buffer[j].off /\ a[1] + a[2] = End(ooo_buffer[j])
  BY SegmentBytes DEF OneCut, Assembled, GoodBuffer
<1>4. ASSUME NEW i \in 1 .. Len(ooo_buffer')
      PROVE  \E a \in arrived' :
               a[1] = ooo_buffer'[i].off /\ a[1] + a[2] = End(ooo_buffer'[i])
  <2>1. PICK j \in 1 .. Len(ooo_buffer) : ooo_buffer'[i] = ooo_buffer[j]
    BY Zenon DEF Appends
  <2> QED
    BY <1>2, <1>3, <2>1
(* What is appended came as a segment that ends at or before rx_offset'. *)
<1>5. ASSUME NEW b \in rx_offset .. (rx_offset' - 1)
      PROVE  \E h \in arrived' : Within(h, b) /\ h[1] + h[2] <= rx_offset'
  <2>1. CASE b < rx_offset + g[2]
    BY <1>2, <2>1 DEF Within
  <2>2. CASE ~(b < rx_offset + g[2])
    <3>1. b \in (rx_offset + g[2]) .. (rx_offset' - 1)
      <4>1. rx_offset + g[2] \in Nat /\ rx_offset' - 1 \in Int
        BY <1>2
      <4>2. b \in Int /\ b <= rx_offset' - 1
        BY <1>2, Between, Zenon
      <4>3. rx_offset + g[2] <= b
        BY <2>2, <4>1, <4>2
      <4> QED
        BY <4>1, <4>2, <4>3
    <3>2. PICK j \in 1 .. Len(ooo_buffer) :
            Covers(ooo_buffer[j], b) /\ End(ooo_buffer[j]) <= rx_offset'
      BY <3>1, Zenon DEF Appends
    <3>3. PICK a \in arrived :
            a[1] = ooo_buffer[j].off /\ a[1] + a[2] = End(ooo_buffer[j])
      BY <1>3
    <3> QED
      BY <1>2, <3>2, <3>3 DEF Covers, Within
  <2> QED
    BY <2>1, <2>2
<1>6. ASSUME NEW a \in arrived', a[1] < rx_offset'
      PROVE  a[1] + a[2] <= rx_offset'
  <2>1. a[1] \in Nat /\ a[2] \in Nat
    BY <1>1
  <2>2. CASE a[1] < rx_offset
    <3>1. a \in arrived
      BY <1>2, <2>2
    <3>2. a[1] + a[2] <= rx_offset
      BY <2>2, <3>1 DEF OneCut
    <3> QED
      BY <1>2, <2>1, <3>2
  <2>3. CASE ~(a[1] < rx_offset)
    <3>1. a[1] \in rx_offset .. (rx_offset' - 1)
      BY <1>2, <1>6, <2>1, <2>3
    <3>2. PICK h \in arrived' : Within(h, a[1]) /\ h[1] + h[2] <= rx_offset'
      BY <1>5, <3>1
    <3>3. a[2] = 0 \/ a = h
      BY <1>1, <2>1, <3>2, SameSegment
    <3> QED
      BY <1>2, <1>6, <2>1, <3>2, <3>3
  <2> QED
    BY <2>2, <2>3
<1>7. ASSUME NEW b \in 0 .. (rx_offset' - 1)
      PROVE  \E a \in arrived' : Within(a, b)
  <2>1. CASE b < rx_offset
    <3>1. b \in 0 .. (rx_offset - 1)
      BY <1>2, <2>1
    <3> QED
      BY <1>2, <3>1 DEF OneCut
  <2>2. CASE ~(b < rx_offset)
    <3>1. b \in rx_offset .. (rx_offset' - 1)
      <4>1. rx_offset \in Nat /\ rx_offset' - 1 \in Int
        BY <1>2
      <4>2. b \in Int /\ b <= rx_offset' - 1
        <5>1. 0 \in Nat
          OBVIOUS
        <5> QED
          BY <1>2, <5>1, Between, Zenon
      <4>3. rx_offset <= b
        BY <2>2, <4>1, <4>2
      <4> QED
        BY <4>1, <4>2, <4>3
    <3> QED
      BY <1>5, <3>1
  <2> QED
    BY <2>1, <2>2
<1>8. ASSUME NEW a \in arrived', a[1] >= rx_offset'
      PROVE  a[2] = 0 \/ \E i \in 1 .. Len(ooo_buffer') :
               a[1] = ooo_buffer'[i].off /\ a[1] + a[2] = End(ooo_buffer'[i])
  <2>1. a[1] \in Nat /\ a[2] \in Nat
    BY <1>1
  <2>2. CASE a = g
    BY <1>2, <1>8, <2>1, <2>2
  <2>3. CASE a # g /\ a[2] # 0
    <3>1. a \in arrived /\ a[1] >= rx_offset
      BY <1>2, <1>8, <2>1, <2>3
    <3>2. PICK j \in 1 .. Len(ooo_buffer) :
            a[1] = ooo_buffer[j].off /\ a[1] + a[2] = End(ooo_buffer[j])
      BY <2>3, <3>1 DEF OneCut
    <3>3. ~(End(ooo_buffer[j]) <= rx_offset')
      BY <1>2, <1>8, <2>1, <2>3, <3>2
    <3>4. PICK i \in 1 .. Len(ooo_buffer') : ooo_buffer'[i] = ooo_buffer[j]
      BY <3>3, Zenon DEF Appends
    <3> QED
      BY <3>2, <3>4
  <2> QED
    BY <2>2, <2>3
<1> QED
  BY <1>1, <1>4, <1>6, <1>7, <1>8 DEF OneCut

(* A segment beyond it. *)
LEMMA WaitsCut ==
  ASSUME Assembled, OneCut, NEW g \in Segments, g[1] > rx_offset,
         Waits(g), Fits(g), arrived' = arrived \cup {g}
  PROVE  OneCut'
<1>1. /\ \A a \in arrived' : a[1] \in Nat /\ a[2] \in Nat
      /\ \A a, h \in arrived' : a = h \/ ~Overlap(a, h)
  BY StillDisjoint
<1>2. /\ rx_offset \in Nat /\ rx_offset' = rx_offset
      /\ g \in arrived' /\ arrived \subseteq arrived'
      /\ g[1] \in Nat /\ g[2] \in Nat
  BY SegmentType DEF Waits, Assembled
<1>3. CASE /\ UNCHANGED ooo_buffer
           /\ \E i \in 1 .. Len(ooo_buffer) : ooo_buffer[i].off = g[1]
  <2>1. g \in arrived
    <3>1. PICK i \in 1 .. Len(ooo_buffer) : ooo_buffer[i].off = g[1]
      BY <1>3
    <3>2. PICK a \in arrived : a[1] = ooo_buffer[i].off
      BY DEF OneCut
    <3>3. Overlap(g, a)
      BY <3>1, <3>2 DEF Overlap
    <3> QED
      BY <3>2, <3>3 DEF Fits
  <2>2. arrived' = arrived
    BY <2>1
  <2> QED
    BY <1>2, <1>3, <2>2 DEF OneCut
<1>4. CASE Inserted(ooo_buffer, g, ooo_buffer')
  <2>1. PICK seg :
          /\ seg.off = g[1] /\ End(seg) = g[1] + g[2]
          /\ \A i \in 1 .. Len(ooo_buffer') :
               ooo_buffer'[i] = seg
               \/ \E j \in 1 .. Len(ooo_buffer) : ooo_buffer'[i] = ooo_buffer[j]
          /\ \A j \in 1 .. Len(ooo_buffer) :
               \E i \in 1 .. Len(ooo_buffer') : ooo_buffer'[i] = ooo_buffer[j]
          /\ \E i \in 1 .. Len(ooo_buffer') : ooo_buffer'[i] = seg
    BY <1>4, Zenon DEF Inserted
  <2>2. ASSUME NEW i \in 1 .. Len(ooo_buffer')
        PROVE  \E a \in arrived' :
                 a[1] = ooo_buffer'[i].off /\ a[1] + a[2] = End(ooo_buffer'[i])
    <3>1. CASE ooo_buffer'[i] = seg
      BY <1>2, <2>1, <3>1
    <3>2. CASE ooo_buffer'[i] # seg
      <4>1. PICK j \in 1 .. Len(ooo_buffer) : ooo_buffer'[i] = ooo_buffer[j]
        BY <2>1, <3>2, Zenon
      <4>2. PICK a \in arrived :
              a[1] = ooo_buffer[j].off /\ a[1] + a[2] = End(ooo_buffer[j])
        BY Zenon DEF OneCut
      <4> QED
        BY <1>2, <4>1, <4>2
    <3> QED
      BY <3>1, <3>2
  <2>3. \A a \in arrived' : a[1] < rx_offset' => a[1] + a[2] <= rx_offset'
    BY <1>2 DEF OneCut
  <2>4. \A b \in 0 .. (rx_offset' - 1) : \E a \in arrived' : Within(a, b)
    BY <1>2 DEF OneCut
  <2>5. ASSUME NEW a \in arrived', a[1] >= rx_offset'
        PROVE  a[2] = 0 \/ \E i \in 1 .. Len(ooo_buffer') :
                 a[1] = ooo_buffer'[i].off /\ a[1] + a[2] = End(ooo_buffer'[i])
    <3>1. CASE a = g
      BY <2>1, <3>1
    <3>2. CASE a \in arrived
      <4>1. a[1] >= rx_offset
        BY <1>2, <2>5
      <4>2. a[2] = 0 \/ \E j \in 1 .. Len(ooo_buffer) :
              a[1] = ooo_buffer[j].off /\ a[1] + a[2] = End(ooo_buffer[j])
        BY <3>2, <4>1, Zenon DEF OneCut
      <4>3. \A j \in 1 .. Len(ooo_buffer) :
              \E i \in 1 .. Len(ooo_buffer') : ooo_buffer'[i] = ooo_buffer[j]
        BY <2>1
      <4> QED
        BY <4>2, <4>3
    <3> QED
      BY <3>1, <3>2
  <2> QED
    BY <1>1, <2>2, <2>3, <2>4, <2>5 DEF OneCut
<1> QED
  BY <1>3, <1>4 DEF Waits

(* A segment below it: it is empty or has come before. *)
LEMMA IgnoresCut ==
  ASSUME Assembled, OneCut, NEW g \in Segments, g[1] < rx_offset,
         Ignores, Fits(g), arrived' = arrived \cup {g}
  PROVE  OneCut'
<1>1. /\ \A a \in arrived' : a[1] \in Nat /\ a[2] \in Nat
      /\ \A a, h \in arrived' : a = h \/ ~Overlap(a, h)
  BY StillDisjoint
<1>2. /\ rx_offset \in Nat /\ rx_offset' = rx_offset /\ ooo_buffer' = ooo_buffer
      /\ g \in arrived' /\ arrived \subseteq arrived'
      /\ g[1] \in Nat /\ g[2] \in Nat
  BY SegmentType DEF Ignores, Assembled
<1>3. g[2] = 0 \/ g \in arrived
  <2>1. PICK h \in arrived : Within(h, g[1])
    <3>1. g[1] \in 0 .. (rx_offset - 1)
      BY <1>2
    <3> QED
      BY <3>1 DEF OneCut
  <2>2. g[2] = 0 \/ g = h
    BY <1>1, <1>2, <2>1, SameSegment
  <2> QED
    BY <2>1, <2>2
<1>4. \A a \in arrived' : a[1] < rx_offset' => a[1] + a[2] <= rx_offset'
  <2>1. g[1] + 0 <= rx_offset
    BY <1>2
  <2> QED
    BY <1>2, <1>3, <2>1 DEF OneCut
<1>5. \A i \in 1 .. Len(ooo_buffer') :
        \E a \in arrived' :
          a[1] = ooo_buffer'[i].off /\ a[1] + a[2] = End(ooo_buffer'[i])
  BY <1>2 DEF OneCut
<1>6. \A b \in 0 .. (rx_offset' - 1) : \E a \in arrived' : Within(a, b)
  BY <1>2 DEF OneCut
<1>7. ASSUME NEW a \in arrived', a[1] >= rx_offset'
      PROVE  a[2] = 0 \/ \E i \in 1 .. Len(ooo_buffer') :
               a[1] = ooo_buffer'[i].off /\ a[1] + a[2] = End(ooo_buffer'[i])
  <2>1. a \in arrived
    BY <1>2, <1>7
  <2> QED
    BY <1>2, <1>7, <2>1 DEF OneCut
<1> QED
  BY <1>1, <1>4, <1>5, <1>6, <1>7 DEF OneCut

-----------------------------------------------------------------------------
(* History: OneCut holds as long as segments are noted. *)
Noted == (~resplit /\ ~remote_closed) \/ arrived # {}

Cut == Noted => OneCut

ReassemblyInv == Assembled /\ Cut

(* receive_data keeps it, or nothing is noted any more. *)
LEMMA ReceiveCut ==
  ASSUME ReassemblyInv, NEW g \in Segments, NEW fin, Receive(g, fin)
  PROVE  Cut'
<1>1. Assembled /\ Cut
  BY DEF ReassemblyInv
<1>2. NoteSegment(g) /\ (remote_closed => remote_closed')
  BY Zenon DEF Receive
<1>3. CASE resplit' \/ remote_closed
  BY <1>2, <1>3, Zenon DEF NoteSegment, Cut, Noted
<1>4. CASE ~resplit' /\ ~remote_closed
  <2>1. ~resplit /\ Fits(g) /\ arrived' = arrived \cup {g}
    BY <1>2, <1>4, Zenon DEF NoteSegment, Fits
  <2>2. OneCut
    BY <1>1, <1>4, <2>1, Zenon DEF Cut, Noted
  <2>3. OneCut'
    BY <1>1, <1>4, <2>1, <2>2, ReceiveCases, AppendsCut, WaitsCut, IgnoresCut
  <2> QED
    BY <2>3 DEF Cut
<1> QED
  BY <1>3, <1>4

(* Nothing has come to a new stream. *)
LEMMA InitCut ==
  Init => Cut
<1> SUFFICES ASSUME Init
             PROVE  OneCut
  BY DEF Cut
<1>1. /\ rx_offset = 0 /\ ooo_buffer = <<>> /\ arrived = {}
      /\ \A b \in 0 .. (0 - 1) : FALSE
  BY DEF Init
<1> QED
  BY <1>1 DEF OneCut

(* Every step keeps the invariant. *)
LEMMA StepKeeps ==
  ReassemblyInv /\ [Next]_vars => ReassemblyInv'
<1> SUFFICES ASSUME ReassemblyInv, [Next]_vars
             PROVE  ReassemblyInv'
  OBVIOUS
<1>1. ASSUME NEW g \in Segments, Receive(g, g[1] + g[2] = Size)
      PROVE  ReassemblyInv'
  <2> DEFINE fin == g[1] + g[2] = Size
  <2>1. Receive(g, fin)
    BY <1>1
  <2> HIDE DEF fin
  <2>2. Assembled'
    BY <2>1, ReceiveAssembled DEF ReassemblyInv
  <2>3. Cut'
    BY <2>1, ReceiveCut
  <2> QED
    BY <2>2, <2>3 DEF ReassemblyInv
<1>2. ASSUME UNCHANGED <<recv_buffer, rx_offset, ooo_buffer, fin_offset,
                         remote_closed, resplit, arrived>>
      PROVE  ReassemblyInv'
  BY <1>2 DEF ReassemblyInv, Assembled, Cut, Noted, OneCut
<1>3. ASSUME NEW n \in 1 .. Size, Read(n)
      PROVE  ReassemblyInv'
  BY <1>2, <1>3 DEF Read
<1>4. CASE UNCHANGED vars
  BY <1>2, <1>4 DEF vars
<1> QED
  BY <1>1, <1>3, <1>4 DEF Next

(* The invariant holds in every reachable state. *)
LEMMA Inductive ==
  Spec => []ReassemblyInv
<1>1. Init => ReassemblyInv
  BY InitAssembled, InitCut DEF ReassemblyInv
<1> QED
  BY <1>1, StepKeeps, PTL DEF Spec

(* However the peer cuts its bytes into segments, in whatever order they   *)
(* arrive and however often, receive_data puts them back in sequence.      *)
THEOREM BytesInSequence == Spec => []InSequence
<1>1. ReassemblyInv => InSequence
  BY DEF ReassemblyInv, Assembled, InSequence
<1> QED
  BY <1>1, Inductive, PTL

(* The pending segments are those of ooo_buffer. *)
LEMMA PendingOf ==
  ASSUME NEW i \in 1 .. Len(ooo_buffer), Assembled
  PROVE  /\ [off |-> ooo_buffer[i].off, len |-> Len(ooo_buffer[i].data)] \in Pending
         /\ ooo_buffer[i].off \in Nat /\ Len(ooo_buffer[i].data) \in Nat
         /\ End(ooo_buffer[i]) = ooo_buffer[i].off + Len(ooo_buffer[i].data)
<1>1. DOMAIN ooo_buffer = 1 .. Len(ooo_buffer)
  BY DEF Assembled, GoodBuffer
<1>2. GoodSegment(ooo_buffer[i])
  BY DEF Assembled, GoodBuffer
<1> QED
  BY <1>1, <1>2, SegmentBytes DEF Pending, End

(* And no others. *)
LEMMA IsPending ==
  ASSUME NEW p \in Pending, Assembled
  PROVE  \E i \in 1 .. Len(ooo_buffer) :
           p = [off |-> ooo_buffer[i].off, len |-> Len(ooo_buffer[i].data)]
<1>1. DOMAIN ooo_buffer = 1 .. Len(ooo_buffer)
  BY DEF Assembled, GoodBuffer
<1> QED
  BY <1>1 DEF Pending

(* While the peer repeats its segments as it first cut them, a segment     *)
(* that receive_data ignores holds no byte that is not in recv_buffer or   *)
(* waiting in ooo_buffer already.                                          *)
THEOREM NothingNewIsIgnored == Spec => []NoNewByteIgnored
<1>1. ASSUME ReassemblyInv
      PROVE  NoNewByteIgnored
  <2> SUFFICES ASSUME NEW a \in arrived, NEW b \in a[1] .. (a[1] + a[2] - 1)
               PROVE  b < rx_offset \/ S!Covered(Pending, b)
    BY DEF NoNewByteIgnored
  <2>1. Assembled /\ OneCut
    BY <1>1 DEF ReassemblyInv, Cut, Noted
  <2>2. a[1] \in Nat /\ a[2] \in Nat /\ rx_offset \in Nat
    BY <2>1 DEF OneCut, Assembled
  <2>3. b \in Int /\ a[1] <= b /\ b < a[1] + a[2]
    BY <2>2
  <2>4. CASE a[1] < rx_offset
    <3>1. a[1] + a[2] <= rx_offset
      BY <2>1, <2>4 DEF OneCut
    <3> QED
      BY <2>2, <2>3, <3>1
  <2>5. CASE ~(a[1] < rx_offset)
    <3>1. a[1] >= rx_offset /\ a[2] # 0
      BY <2>2, <2>3, <2>5
    <3>2. PICK i \in 1 .. Len(ooo_buffer) :
            a[1] = ooo_buffer[i].off /\ a[1] + a[2] = End(ooo_buffer[i])
      BY <2>1, <3>1, Zenon DEF OneCut
    <3> DEFINE p == [off |-> ooo_buffer[i].off, len |-> Len(ooo_buffer[i].data)]
    <3>3. p \in Pending /\ p.off = a[1] /\ p.off + p.len = a[1] + a[2]
      BY <2>1, <3>2, PendingOf
    <3> HIDE DEF p
    <3>4. p.off <= b /\ b < p.off + p.len
      BY <2>3, <3>3
    <3> QED
      BY <3>3, <3>4 DEF S!Covered
  <2> QED
    BY <2>4, <2>5
<1> QED
  BY <1>1, Inductive, PTL

(* What a segment at @rx_offset makes of the pending ones. *)
LEMMA AppendsMeets ==
  ASSUME Assembled, Assembled', NEW len \in Nat, Appends(len)
  PROVE  /\ S!FirstGap(Pending, rx_offset + len, rx_offset')
         /\ Pending' = {p \in Pending : p.off > rx_offset'}
<1> DEFINE Span(s) == [off |-> s.off, len |-> Len(s.data)]
<1>1. rx_offset \in Nat /\ rx_offset' \in Nat /\ rx_offset + len <= rx_offset'
  BY DEF Assembled, Appends
<1>2. \A i \in 1 .. Len(ooo_buffer') :
        ooo_buffer'[i].off > rx_offset' /\ Span(ooo_buffer'[i]) \in Pending'
  <2>1. DOMAIN ooo_buffer' = 1 .. Len(ooo_buffer')
    BY DEF Assembled, GoodBuffer
  <2>2. \A i \in 1 .. Len(ooo_buffer') : ooo_buffer'[i].off > rx_offset'
    BY Zenon DEF Appends
  <2> QED
    BY <2>1, <2>2 DEF Pending
<1>3. ASSUME NEW p \in Pending
      PROVE  \E j \in 1 .. Len(ooo_buffer) : p = Span(ooo_buffer[j])
  BY <1>3, IsPending
<1>4. ASSUME NEW j \in 1 .. Len(ooo_buffer)
      PROVE  /\ Span(ooo_buffer[j]) \in Pending
             /\ Span(ooo_buffer[j]).off = ooo_buffer[j].off
             /\ Span(ooo_buffer[j]).off + Span(ooo_buffer[j]).len = End(ooo_buffer[j])
             /\ ooo_buffer[j].off \in Nat /\ End(ooo_buffer[j]) \in Nat
  BY PendingOf
<1>5. ASSUME NEW j \in 1 .. Len(ooo_buffer)
      PROVE  \/ ooo_buffer[j].off <= rx_offset' /\ End(ooo_buffer[j]) <= rx_offset'
             \/ \E i \in 1 .. Len(ooo_buffer') : ooo_buffer'[i] = ooo_buffer[j]
  BY Zenon DEF Appends
<1> HIDE DEF Span
<1>6. ~S!Covered(Pending, rx_offset')
  <2> SUFFICES ASSUME NEW p \in Pending, p.off <= rx_offset',
                      rx_offset' < p.off + p.len
               PROVE  FALSE
    BY DEF S!Covered
  <2>1. PICK j \in 1 .. Len(ooo_buffer) : p = Span(ooo_buffer[j])
    BY <1>3
  <2>2. /\ p.off = ooo_buffer[j].off /\ p.off + p.len = End(ooo_buffer[j])
        /\ ooo_buffer[j].off \in Nat /\ End(ooo_buffer[j]) \in Nat
    BY <1>4, <2>1
  <2>3. ~(End(ooo_buffer[j]) <= rx_offset')
    BY <1>1, <2>2
  <2>4. PICK i \in 1 .. Len(ooo_buffer') : ooo_buffer'[i] = ooo_buffer[j]
    BY <1>5, <2>3
  <2>5. ooo_buffer[j].off > rx_offset'
    BY <1>2, <2>4
  <2> QED
    BY <1>1, <2>2, <2>5
<1>7. ASSUME NEW b \in (rx_offset + len) .. (rx_offset' - 1)
      PROVE  S!Covered(Pending, b)
  <2>1. PICK j \in 1 .. Len(ooo_buffer) : Covers(ooo_buffer[j], b)
    BY Zenon DEF Appends
  <2> DEFINE p == Span(ooo_buffer[j])
  <2>2. p \in Pending /\ p.off = ooo_buffer[j].off /\ p.off + p.len = End(ooo_buffer[j])
    BY <1>4
  <2> HIDE DEF p
  <2>3. p.off <= b /\ b < p.off + p.len
    BY <2>1, <2>2 DEF Covers
  <2> QED
    BY <2>2, <2>3 DEF S!Covered
<1>8. S!FirstGap(Pending, rx_offset + len, rx_offset')
  <2>1. rx_offset' >= rx_offset + len
    BY <1>1
  <2> QED
    BY <1>6, <1>7, <2>1 DEF S!FirstGap
<1>9. ASSUME NEW p, p \in Pending'
      PROVE  p \in Pending /\ p.off > rx_offset'
  <2>1. PICK i \in 1 .. Len(ooo_buffer') : p = Span(ooo_buffer'[i])
    <3>1. DOMAIN ooo_buffer' = 1 .. Len(ooo_buffer')
      BY DEF Assembled, GoodBuffer
    <3> QED
      BY <1>9, <3>1 DEF Pending, Span
  <2>2. PICK j \in 1 .. Len(ooo_buffer) : ooo_buffer'[i] = ooo_buffer[j]
    BY Zenon DEF Appends
  <2>3. p \in Pending /\ p.off = ooo_buffer[j].off
    BY <1>4, <2>1, <2>2
  <2> QED
    BY <1>2, <2>2, <2>3
<1>10. ASSUME NEW p \in Pending, p.off > rx_offset'
       PROVE  p \in Pending'
  <2>1. PICK j \in 1 .. Len(ooo_buffer) : p = Span(ooo_buffer[j])
    BY <1>3
  <2>2. p.off = ooo_buffer[j].off /\ ooo_buffer[j].off \in Nat
    BY <1>4, <2>1
  <2>3. ~(ooo_buffer[j].off <= rx_offset')
    BY <1>1, <1>10, <2>2
  <2>4. PICK i \in 1 .. Len(ooo_buffer') : ooo_buffer'[i] = ooo_buffer[j]
    BY <1>5, <2>3
  <2> QED
    BY <1>2, <2>1, <2>4
<1>11. Pending' = {p \in Pending : p.off > rx_offset'}
  BY <1>9, <1>10, Zenon
<1> QED
  BY <1>8, <1>11

(* The loop of flush_ooo_buffer computes what module Stream defines:       *)
(* @rx_offset moves to the first offset no segment covers, and just the    *)
(* segments that start at or before it are gone.                           *)
THEOREM LoopMeetsDefinition == Spec => FlushMeetsDefinition
<1> DEFINE Meets ==
             recv_buffer' # recv_buffer =>
               \E g \in Segments :
                 /\ g[1] = rx_offset
                 /\ S!FirstGap(Pending, rx_offset + g[2], rx_offset')
                 /\ Pending' = {p \in Pending : p.off > rx_offset'}
<1>1. ReassemblyInv /\ ReassemblyInv' /\ [Next]_vars => [Meets]_vars
  <2> SUFFICES ASSUME ReassemblyInv, ReassemblyInv', Next
               PROVE  Meets
    OBVIOUS
  <2>1. Assembled /\ Assembled'
    BY DEF ReassemblyInv
  <2>2. ASSUME NEW g \in Segments, Receive(g, g[1] + g[2] = Size)
        PROVE  Meets
    <3> DEFINE fin == g[1] + g[2] = Size
    <3>1. Receive(g, fin)
      BY <2>2
    <3> HIDE DEF fin
    <3>2. CASE g[1] = rx_offset /\ Appends(g[2])
      <4>1. g[2] \in Nat
        BY SegmentType
      <4>2. /\ S!FirstGap(Pending, rx_offset + g[2], rx_offset')
            /\ Pending' = {p \in Pending : p.off > rx_offset'}
        BY <2>1, <3>2, <4>1, AppendsMeets
      <4> QED
        BY <3>2, <4>2, Zenon
    <3>3. CASE Waits(g)
      BY <3>3 DEF Waits
    <3>4. CASE Ignores
      BY <3>4 DEF Ignores
    <3> QED
      BY <2>1, <3>1, <3>2, <3>3, <3>4, ReceiveCases, Zenon
  <2>3. ASSUME NEW n \in 1 .. Size, Read(n)
        PROVE  Meets
    BY <2>3 DEF Read
  <2> QED
    BY <2>2, <2>3, Zenon DEF Next
<1>2. Spec => []ReassemblyInv
  BY Inductive
<1> QED
  BY <1>1, <1>2, PTL DEF Spec, FlushMeetsDefinition


-----------------------------------------------------------------------------
(* Loops. *)

(* Induction up to N, for a set of numbers. *)
LEMMA Induct ==
  ASSUME NEW N \in Nat, NEW I, 0 \in I,
         \A n \in 1 .. N : n - 1 \in I => n \in I
  PROVE  \A n \in 0 .. N : n \in I
<1> DEFINE T == {n \in 0 .. N : n \notin I}
<1> SUFFICES ASSUME T # {}
             PROVE  FALSE
  OBVIOUS
<1>1. PICK k \in T : \A m \in T : k <= m
  <2>1. T \subseteq Nat
    OBVIOUS
  <2> HIDE DEF T
  <2> QED
    BY <2>1, Smallest
<1>2. k \in 0 .. N /\ k \notin I
  BY <1>1
<1>3. k # 0
  BY <1>2
<1>4. k \in 1 .. N /\ k - 1 \in 0 .. N /\ ~(k <= k - 1)
  BY <1>2, <1>3
<1>5. k - 1 \in I
  BY <1>1, <1>4
<1> QED
  BY <1>2, <1>4, <1>5

(* What the turns of a loop do to its states, and a run of it. *)
Turns(N, T) == [(1 .. N) \X T -> T]
RunOf(N, T, x, F, g) ==
  /\ g \in [0 .. N -> T]
  /\ g[0] = x /\ \A n \in 1 .. N : g[n] = F[<<n, g[n - 1]>>]

(* A loop of N turns has its sequence of states. *)
LEMMA Iterates ==
  ASSUME NEW N \in Nat, NEW T, NEW x, x \in T, NEW F, F \in Turns(N, T)
  PROVE  \E g : RunOf(N, T, x, F, g)
<1> USE DEF Turns
<1> DEFINE P(k) == \E g \in [0 .. k -> T] :
                     g[0] = x /\ \A n \in 1 .. k : g[n] = F[<<n, g[n - 1]>>]
           I == {k \in 0 .. N : P(k)}
<1>1. 0 \in I
  <2> DEFINE g == [n \in 0 .. 0 |-> x]
  <2>1. g \in [0 .. 0 -> T] /\ g[0] = x /\ \A n \in 1 .. 0 : FALSE
    OBVIOUS
  <2> HIDE DEF g
  <2>2. P(0)
    BY <2>1
  <2> QED
    BY <2>2
<1>2. ASSUME NEW k \in 1 .. N, k - 1 \in I
      PROVE  k \in I
  <2>1. PICK g \in [0 .. (k - 1) -> T] :
          g[0] = x /\ \A n \in 1 .. (k - 1) : g[n] = F[<<n, g[n - 1]>>]
    BY <1>2
  <2> DEFINE h == [n \in 0 .. k |-> IF n < k THEN g[n] ELSE F[<<k, g[k - 1]>>]]
  <2>2. g[k - 1] \in T /\ F[<<k, g[k - 1]>>] \in T
    <3>1. g[k - 1] \in T
      BY <2>1
    <3> QED
      BY <3>1
  <2>3. h \in [0 .. k -> T]
    BY <2>1, <2>2
  <2>4. h[0] = x
    BY <2>1
  <2>5. ASSUME NEW n \in 1 .. k
        PROVE  h[n] = F[<<n, h[n - 1]>>]
    <3>1. h[n - 1] = g[n - 1]
      OBVIOUS
    <3>2. CASE n = k
      <4>1. h[k] = F[<<k, g[k - 1]>>]
        <5>1. k \in 0 .. k /\ ~(k < k)
          OBVIOUS
        <5> QED
          BY <5>1
      <4> HIDE DEF h
      <4> QED
        BY <3>1, <3>2, <4>1
    <3>3. CASE n # k
      <4>1. n \in 1 .. (k - 1) /\ h[n] = g[n]
        BY <3>3
      <4> QED
        BY <2>1, <3>1, <4>1
    <3> QED
      BY <3>2, <3>3
  <2> HIDE DEF h
  <2>6. P(k)
    BY <2>3, <2>4, <2>5
  <2> QED
    BY <2>6
<1> HIDE DEF I
<1>3. \A n \in 0 .. N : n \in I
  BY <1>1, <1>2, Induct
<1>4. N \in I
  BY <1>3
<1> QED
  BY <1>4 DEF I, RunOf

-----------------------------------------------------------------------------
(* received_pns.sort! *)

Rising(s) == \A i, j \in 1 .. Len(s) : i < j => s[i] <= s[j]

PlaceOf(s, pn, k) ==
  /\ \A i \in 1 .. k : s[i] <= pn
  /\ \A i \in (k + 1) .. Len(s) : s[i] > pn

(* A rising sequence has a place for every number. *)
LEMMA PlaceOfExists ==
  ASSUME NEW s \in Seq(Nat), Rising(s), NEW pn \in Nat
  PROVE  \E k \in 0 .. Len(s) : PlaceOf(s, pn, k)
<1> DEFINE N == Len(s)
           T == {i \in 1 .. N : s[i] > pn}
<1>1. N \in Nat /\ \A i \in 1 .. N : s[i] \in Nat
  OBVIOUS
<1>2. CASE T = {}
  <2>1. N \in 0 .. N /\ \A i \in 1 .. N : s[i] <= pn
    BY <1>1, <1>2
  <2>2. \A i \in (N + 1) .. N : FALSE
    BY <1>1
  <2> QED
    BY <2>1, <2>2 DEF PlaceOf
<1>3. CASE T # {}
  <2>1. PICK n \in T : \A m \in T : n <= m
    <3>1. T \subseteq Nat
      BY <1>1
    <3> HIDE DEF T
    <3> QED
      BY <1>3, <3>1, Smallest
  <2>2. n \in 1 .. N /\ s[n] > pn
    BY <2>1
  <2>3. ASSUME NEW i \in 1 .. (n - 1)
        PROVE  s[i] <= pn
    <3>1. i \in 1 .. N /\ ~(n <= i)
      BY <1>1, <2>2
    <3>2. ~(s[i] > pn)
      BY <2>1, <3>1
    <3> QED
      BY <1>1, <3>1, <3>2
  <2>4. ASSUME NEW i \in n .. N
        PROVE  s[i] > pn
    <3>1. i \in 1 .. N /\ (i = n \/ n < i)
      BY <1>1, <2>2
    <3>2. s[n] <= s[i]
      BY <1>1, <2>2, <3>1 DEF Rising
    <3> QED
      BY <1>1, <2>2, <3>1, <3>2
  <2>5. n - 1 \in 0 .. N /\ (n - 1) + 1 = n
    BY <1>1, <2>2
  <2> QED
    BY <2>3, <2>4, <2>5 DEF PlaceOf
<1> QED
  BY <1>2, <1>3

LEMMA PlacedRises ==
  ASSUME NEW s \in Seq(Nat), Rising(s), NEW pn \in Nat
  PROVE  /\ Placed(s, pn) \in Seq(Nat) /\ Len(Placed(s, pn)) = Len(s) + 1
         /\ Rising(Placed(s, pn))
         /\ Range(Placed(s, pn)) = Range(s) \cup {pn}
<1> DEFINE N == Len(s)
           k == CHOOSE k \in 0 .. N : PlaceOf(s, pn, k)
           r == Insertion(s, pn, k)
<1>1. k \in 0 .. N /\ PlaceOf(s, pn, k)
  BY PlaceOfExists
<1>2. Placed(s, pn) = r
  BY Zenon DEF Placed, PlaceOf, Insertion
<1>3. N \in Nat /\ \A i \in 1 .. N : s[i] \in Nat
  OBVIOUS
<1> HIDE DEF k
<1>4. /\ r \in Seq(Nat) /\ Len(r) = N + 1
      /\ \A i \in 1 .. Len(r) :
           r[i] = IF i <= k THEN s[i] ELSE IF i = k + 1 THEN pn ELSE s[i - 1]
  <2> DEFINE X == Nat
  <2>1. s \in Seq(X) /\ pn \in X /\ k \in 0 .. Len(s)
    BY <1>1
  <2> HIDE DEF X
  <2> SUFFICES /\ r \in Seq(X) /\ Len(r) = N + 1
               /\ \A i \in 1 .. Len(r) :
                    r[i] = IF i <= k THEN s[i] ELSE IF i = k + 1 THEN pn ELSE s[i - 1]
    BY Zenon DEF X
  <2> QED
    BY <2>1, InsertAt
<1> HIDE DEF r
<1>5. k \in Nat /\ k <= N /\ k + 1 \in 1 .. Len(r) /\ ~(k + 1 <= k)
  BY <1>1, <1>3, <1>4
<1>6. ASSUME NEW i \in 1 .. Len(r)
      PROVE  \/ i <= k /\ i \in 1 .. k /\ i \in 1 .. N /\ r[i] = s[i]
             \/ i = k + 1 /\ r[i] = pn
             \/ /\ i > k + 1 /\ i - 1 \in (k + 1) .. N /\ i - 1 \in 1 .. N
                /\ r[i] = s[i - 1]
  BY <1>3, <1>4, <1>5
<1>7. r[k + 1] = pn
  BY <1>4, <1>5
<1>8. ASSUME NEW j \in 1 .. N
      PROVE  \E i \in 1 .. Len(r) : r[i] = s[j]
  <2>1. CASE j <= k
    <3>1. j \in 1 .. Len(r) /\ r[j] = s[j]
      BY <1>3, <1>4, <2>1
    <3> QED
      BY <3>1
  <2>2. CASE ~(j <= k)
    <3>1. /\ j + 1 \in 1 .. Len(r) /\ (j + 1) - 1 = j
          /\ ~(j + 1 <= k) /\ j + 1 # k + 1
      BY <1>3, <1>4, <1>5, <2>2
    <3>2. r[j + 1] = s[j]
      BY <1>4, <3>1, SMTT(40)
    <3> QED
      BY <3>1, <3>2
  <2> QED
    BY <2>1, <2>2
<1>9. Range(r) = Range(s) \cup {pn}
  <2>1. Range(r) = {r[i] : i \in 1 .. Len(r)} /\ Range(s) = {s[i] : i \in 1 .. N}
    BY <1>3, <1>4, RangeEquality
  <2>2. \A i \in 1 .. Len(r) : r[i] = pn \/ \E j \in 1 .. N : r[i] = s[j]
    BY <1>6
  <2> QED
    BY <1>5, <1>7, <1>8, <2>1, <2>2, ZenonT(60)
<1>10. ASSUME NEW i \in 1 .. Len(r), NEW j \in 1 .. Len(r), i < j
       PROVE  r[i] <= r[j]
  <2>1. \A m, n \in 1 .. N : m < n => s[m] <= s[n]
    BY DEF Rising
  <2>2. /\ \A n \in 1 .. k : s[n] <= pn
        /\ \A n \in (k + 1) .. N : s[n] > pn
    BY <1>1 DEF PlaceOf
  <2>3. CASE j <= k
    <3>1. r[i] = s[i] /\ r[j] = s[j] /\ i \in 1 .. N /\ j \in 1 .. N
      BY <1>3, <1>5, <1>6, <1>10, <2>3
    <3> QED
      BY <1>10, <2>1, <3>1
  <2>4. CASE j = k + 1
    <3>1. i \in 1 .. k /\ r[i] = s[i] /\ r[j] = pn
      BY <1>5, <1>6, <1>10, <2>4
    <3> QED
      BY <2>2, <3>1
  <2>5. CASE j > k + 1
    <3>1. j - 1 \in (k + 1) .. N /\ j - 1 \in 1 .. N /\ r[j] = s[j - 1]
      BY <1>5, <1>6, <2>5
    <3>2. CASE i <= k
      <4>1. i \in 1 .. N /\ r[i] = s[i] /\ i < j - 1
        BY <1>5, <1>6, <2>5, <3>2
      <4> QED
        BY <2>1, <3>1, <4>1
    <3>3. CASE i = k + 1
      <4>1. s[j - 1] > pn /\ s[j - 1] \in Nat /\ r[i] = pn
        BY <1>3, <1>7, <2>2, <3>1, <3>3
      <4> QED
        BY <3>1, <4>1
    <3>4. CASE i > k + 1
      <4>1. i - 1 \in 1 .. N /\ r[i] = s[i - 1] /\ i - 1 < j - 1
        BY <1>5, <1>6, <1>10, <3>4
      <4> QED
        BY <2>1, <3>1, <4>1
    <3> QED
      BY <1>5, <3>2, <3>3, <3>4
  <2> QED
    BY <1>5, <2>3, <2>4, <2>5
<1>11. Rising(r)
  BY <1>10 DEF Rising
<1> QED
  BY <1>2, <1>4, <1>9, <1>11, Zenon

(* Sorting gives the same numbers in order, each as often as it was held. *)
LEMMA SortedOk ==
  ASSUME NEW pns \in Seq(Nat)
  PROVE  /\ Sorted(pns) \in Seq(Nat) /\ Len(Sorted(pns)) = Len(pns)
         /\ Rising(Sorted(pns)) /\ Range(Sorted(pns)) = Range(pns)
<1> DEFINE N == Len(pns)
           step(f) == [n \in 0 .. N |->
                         IF n = 0 THEN <<>> ELSE Placed(f[n - 1], pns[n])]
           h == CHOOSE f : f = step(f)
           T == {s \in Seq(Nat) : Rising(s)}
           F == [p \in (1 .. N) \X T |-> Placed(p[2], pns[p[1]])]
<1>1. Sorted(pns) = h[N]
  BY Zenon DEF Sorted
<1>2. N \in Nat /\ \A i \in 1 .. N : pns[i] \in Nat
  OBVIOUS
<1>3. F \in [(1 .. N) \X T -> T]
  <2> SUFFICES ASSUME NEW i \in 1 .. N, NEW s \in T
               PROVE  Placed(s, pns[i]) \in T
    OBVIOUS
  <2>1. s \in Seq(Nat) /\ Rising(s) /\ pns[i] \in Nat
    BY <1>2
  <2> QED
    BY <2>1, PlacedRises
<1>4. <<>> \in T
  <2>1. <<>> \in Seq(Nat) /\ Len(<<>>) = 0 /\ \A i \in 1 .. 0 : FALSE
    OBVIOUS
  <2> QED
    BY <2>1 DEF Rising
<1>5. PICK g \in [0 .. N -> T] :
        g[0] = <<>> /\ \A n \in 1 .. N : g[n] = F[<<n, g[n - 1]>>]
  <2> DEFINE x == <<>>
  <2>1. x \in T /\ N \in Nat
    BY <1>2, <1>4
  <2> HIDE DEF F, T, N, x
  <2>2. F \in Turns(N, T)
    BY <1>3 DEF Turns
  <2>3. \E g : RunOf(N, T, x, F, g)
    BY <2>1, <2>2, Iterates
  <2> QED
    BY <2>3 DEF x, RunOf
<1>6. g = step(g)
  <2>1. ASSUME NEW n \in 0 .. N
        PROVE  g[n] = IF n = 0 THEN <<>> ELSE Placed(g[n - 1], pns[n])
    <3>1. CASE n = 0
      BY <1>5, <3>1
    <3>2. CASE n # 0
      <4>1. n \in 1 .. N /\ n - 1 \in 0 .. N
        BY <1>2, <3>2
      <4>2. g[n - 1] \in T
        BY <1>5, <4>1
      <4>3. F[<<n, g[n - 1]>>] = Placed(g[n - 1], pns[n])
        BY <4>1, <4>2
      <4> QED
        BY <1>5, <3>2, <4>1, <4>3
    <3> QED
      BY <3>1, <3>2
  <2> QED
    BY <1>5, <2>1
<1> HIDE DEF step
<1>7. h = step(h)
  BY <1>6, Zenon
<1> HIDE DEF h
<1> USE DEF step
<1>8. h[0] = <<>> /\ \A n \in 1 .. N : h[n] = Placed(h[n - 1], pns[n])
  <2>1. \A n \in 0 .. N : h[n] = IF n = 0 THEN <<>> ELSE Placed(h[n - 1], pns[n])
    BY <1>7
  <2> QED
    BY <1>2, <2>1
<1> HIDE DEF step
<1> DEFINE I == {n \in 0 .. N :
                   /\ h[n] \in Seq(Nat) /\ Len(h[n]) = n /\ Rising(h[n])
                   /\ Range(h[n]) = {pns[j] : j \in 1 .. n}}
<1>9. 0 \in I
  <2>1. h[0] \in Seq(Nat) /\ Len(h[0]) = 0 /\ Rising(h[0])
    BY <1>4, <1>8
  <2>2. Range(h[0]) = {h[0][j] : j \in 1 .. 0}
    BY <2>1, RangeEquality
  <2>3. Range(h[0]) = {pns[j] : j \in 1 .. 0}
    BY <2>2
  <2> QED
    BY <1>2, <2>1, <2>3
<1>10. ASSUME NEW n \in 1 .. N, n - 1 \in I
       PROVE  n \in I
  <2>1. /\ h[n - 1] \in Seq(Nat) /\ Len(h[n - 1]) = n - 1 /\ Rising(h[n - 1])
        /\ Range(h[n - 1]) = {pns[j] : j \in 1 .. (n - 1)}
    BY <1>10
  <2>2. h[n] = Placed(h[n - 1], pns[n]) /\ pns[n] \in Nat
    BY <1>2, <1>8
  <2>3. /\ h[n] \in Seq(Nat) /\ Len(h[n]) = Len(h[n - 1]) + 1 /\ Rising(h[n])
        /\ Range(h[n]) = Range(h[n - 1]) \cup {pns[n]}
    BY <2>1, <2>2, PlacedRises
  <2>4. {pns[j] : j \in 1 .. n} = {pns[j] : j \in 1 .. (n - 1)} \cup {pns[n]}
    <3>1. \A j \in 1 .. n : j \in 1 .. (n - 1) \/ j = n
      BY <1>2
    <3>2. n \in 1 .. n /\ \A j \in 1 .. (n - 1) : j \in 1 .. n
      BY <1>2
    <3> QED
      BY <3>1, <3>2
  <2>5. Len(h[n]) = n
    BY <1>2, <2>1, <2>3
  <2>6. n \in 0 .. N
    BY <1>2
  <2> QED
    BY <2>1, <2>3, <2>4, <2>5, <2>6
<1>11. N \in I
  <2> HIDE DEF I, N
  <2>1. \A n \in 0 .. N : n \in I
    BY <1>2, <1>9, <1>10, Induct
  <2> QED
    BY <1>2, <2>1
<1>12. Range(pns) = {pns[j] : j \in 1 .. N}
  BY RangeEquality
<1> QED
  BY <1>1, <1>11, <1>12

-----------------------------------------------------------------------------
(* The reader. *)

Blocks == [gap : Nat, len : Nat]
Reading == [smallest : Nat, acked : SUBSET Nat]

LEMMA ReadRangeType ==
  ASSUME NEW x \in Reading, NEW r \in Blocks
  PROVE  ReadRange(x, r) \in Reading
<1> DEFINE top == MinusOrZero(x.smallest, r.gap + 2)
           bottom == MinusOrZero(top, r.len)
<1>1. x.smallest \in Nat /\ x.acked \subseteq Nat /\ r.gap \in Nat /\ r.len \in Nat
  BY DEF Reading, Blocks
<1>2. top \in Nat
  BY <1>1 DEF MinusOrZero
<1> HIDE DEF top
<1>3. bottom \in Nat
  BY <1>1, <1>2 DEF MinusOrZero
<1>4. ReadRange(x, r) = [smallest |-> bottom, acked |-> x.acked \cup (bottom .. top)]
  BY DEF ReadRange, top
<1> HIDE DEF bottom
<1>5. x.acked \cup (bottom .. top) \subseteq Nat
  BY <1>1, <1>2, <1>3
<1> QED
  BY <1>3, <1>4, <1>5 DEF Reading

(* The states of the reader over the blocks rs. *)
ReadRun(rs, sm, h) ==
  /\ h[0] = [smallest |-> sm, acked |-> {}]
  /\ \A n \in 1 .. Len(rs) : h[n] = ReadRange(h[n - 1], rs[n])

LEMMA ReadRunTyped ==
  ASSUME NEW rs \in Seq(Blocks), NEW sm \in Nat, NEW h, ReadRun(rs, sm, h)
  PROVE  \A n \in 0 .. Len(rs) : h[n] \in Reading
<1> DEFINE N == Len(rs)
           I == {n \in 0 .. N : h[n] \in Reading}
<1>1. N \in Nat /\ \A n \in 1 .. N : rs[n] \in Blocks
  OBVIOUS
<1>2. 0 \in I
  BY <1>1 DEF ReadRun, Reading
<1>3. ASSUME NEW n \in 1 .. N, n - 1 \in I
      PROVE  n \in I
  <2>1. h[n] = ReadRange(h[n - 1], rs[n]) /\ h[n - 1] \in Reading /\ rs[n] \in Blocks
    BY <1>1, <1>3 DEF ReadRun
  <2>2. h[n] \in Reading
    BY <2>1, ReadRangeType
  <2> QED
    BY <1>1, <2>2
<1>4. \A n \in 0 .. N : n \in I
  <2> HIDE DEF I, N
  <2> QED
    BY <1>1, <1>2, <1>3, Induct
<1> QED
  BY <1>4

(* RangesRead is the last state of the one run there is. *)
LEMMA ReadRunExists ==
  ASSUME NEW rs \in Seq(Blocks), NEW sm \in Nat
  PROVE  \E h : ReadRun(rs, sm, h) /\ RangesRead(rs, sm) = h[Len(rs)]
<1> DEFINE N == Len(rs)
           x == [smallest |-> sm, acked |-> {}]
           step(f) == [n \in 0 .. N |-> IF n = 0 THEN x ELSE ReadRange(f[n - 1], rs[n])]
           h == CHOOSE f : f = step(f)
           F == [p \in (1 .. N) \X Reading |-> ReadRange(p[2], rs[p[1]])]
<1>1. RangesRead(rs, sm) = h[N]
  BY Zenon DEF RangesRead
<1>2. N \in Nat /\ \A i \in 1 .. N : rs[i] \in Blocks
  OBVIOUS
<1>3. F \in [(1 .. N) \X Reading -> Reading]
  <2> SUFFICES ASSUME NEW i \in 1 .. N, NEW y \in Reading
               PROVE  ReadRange(y, rs[i]) \in Reading
    OBVIOUS
  <2> QED
    BY <1>2, ReadRangeType
<1>4. x \in Reading
  BY DEF Reading
<1> HIDE DEF x
<1>5. PICK g \in [0 .. N -> Reading] :
        g[0] = x /\ \A n \in 1 .. N : g[n] = F[<<n, g[n - 1]>>]
  <2> HIDE DEF F, N
  <2>1. F \in Turns(N, Reading)
    BY <1>3 DEF Turns
  <2>2. \E g : RunOf(N, Reading, x, F, g)
    BY <1>2, <1>4, <2>1, Iterates
  <2> QED
    BY <2>2 DEF RunOf
<1>6. g = step(g)
  <2>1. ASSUME NEW n \in 0 .. N
        PROVE  g[n] = IF n = 0 THEN x ELSE ReadRange(g[n - 1], rs[n])
    <3>1. CASE n = 0
      BY <1>5, <3>1
    <3>2. CASE n # 0
      <4>1. n \in 1 .. N /\ n - 1 \in 0 .. N
        BY <1>2, <3>2
      <4>2. g[n - 1] \in Reading
        BY <1>5, <4>1
      <4>3. F[<<n, g[n - 1]>>] = ReadRange(g[n - 1], rs[n])
        BY <4>1, <4>2
      <4> QED
        BY <1>5, <3>2, <4>1, <4>3
    <3> QED
      BY <3>1, <3>2
  <2> QED
    BY <1>5, <2>1
<1> HIDE DEF step
<1>7. h = step(h)
  BY <1>6, Zenon
<1> HIDE DEF h
<1>8. ReadRun(rs, sm, h)
  <2>1. \A n \in 0 .. N : h[n] = IF n = 0 THEN x ELSE ReadRange(h[n - 1], rs[n])
    BY <1>7 DEF step
  <2>2. h[0] = x /\ \A n \in 1 .. N : h[n] = ReadRange(h[n - 1], rs[n])
    BY <1>2, <2>1
  <2> QED
    BY <2>2 DEF ReadRun, x
<1> QED
  BY <1>1, <1>8

LEMMA ReadNothing ==
  ASSUME NEW sm \in Nat
  PROVE  RangesRead(<<>>, sm) = [smallest |-> sm, acked |-> {}]
<1> DEFINE rs == <<>>
<1>1. rs \in Seq(Blocks) /\ Len(rs) = 0
  OBVIOUS
<1> HIDE DEF rs
<1>2. PICK h : ReadRun(rs, sm, h) /\ RangesRead(rs, sm) = h[Len(rs)]
  BY <1>1, ReadRunExists
<1>3. RangesRead(rs, sm) = [smallest |-> sm, acked |-> {}]
  BY <1>1, <1>2 DEF ReadRun
<1> QED
  BY <1>3, Zenon DEF rs

(* One block more is read after the others. *)
LEMMA ReadAppend ==
  ASSUME NEW rs \in Seq(Blocks), NEW r \in Blocks, NEW sm \in Nat
  PROVE  /\ RangesRead(rs, sm) \in Reading
         /\ RangesRead(Append(rs, r), sm) = ReadRange(RangesRead(rs, sm), r)
<1> DEFINE N == Len(rs)
           q == Append(rs, r)
<1>1. /\ N \in Nat /\ q \in Seq(Blocks) /\ Len(q) = N + 1 /\ q[N + 1] = r
      /\ \A n \in 1 .. N : q[n] = rs[n]
  OBVIOUS
<1> HIDE DEF q
<1>2. PICK g : ReadRun(rs, sm, g) /\ RangesRead(rs, sm) = g[N]
  BY ReadRunExists
<1>3. PICK h : ReadRun(q, sm, h) /\ RangesRead(q, sm) = h[Len(q)]
  BY <1>1, ReadRunExists
<1> DEFINE I == {n \in 0 .. N : h[n] = g[n]}
<1>4. 0 \in I
  BY <1>1, <1>2, <1>3 DEF ReadRun
<1>5. ASSUME NEW n \in 1 .. N, n - 1 \in I
      PROVE  n \in I
  <2>1. n \in 1 .. Len(q) /\ n \in 0 .. N /\ h[n - 1] = g[n - 1] /\ q[n] = rs[n]
    BY <1>1, <1>5
  <2>2. h[n] = ReadRange(h[n - 1], q[n]) /\ g[n] = ReadRange(g[n - 1], rs[n])
    BY <1>2, <1>3, <2>1 DEF ReadRun
  <2> QED
    BY <2>1, <2>2
<1>6. \A n \in 0 .. N : n \in I
  <2> HIDE DEF I, N
  <2> QED
    BY <1>1, <1>4, <1>5, Induct
<1>7. h[N] = g[N]
  BY <1>1, <1>6
<1>8. N + 1 \in 1 .. Len(q) /\ (N + 1) - 1 = N
  BY <1>1
<1>9. h[N + 1] = ReadRange(h[N], r)
  BY <1>1, <1>3, <1>8 DEF ReadRun
<1>10. g[N] \in Reading
  BY <1>1, <1>2, ReadRunTyped
<1> QED
  BY <1>1, <1>2, <1>3, <1>7, <1>9, <1>10 DEF q

-----------------------------------------------------------------------------
(* Runs of consecutive numbers. *)

RunIs(s, i, k) ==
  /\ k \in 1 .. i
  /\ \A j \in 0 .. (k - 1) : s[i - j] = s[i] - j
  /\ k = i \/ s[i - k] # s[i] - k

LEMMA RunLengthIs ==
  ASSUME NEW s \in Seq(Nat), NEW i \in 1 .. Len(s)
  PROVE  RunIs(s, i, RunLength(s, i))
<1>1. i \in Nat /\ 1 <= i /\ \A j \in 1 .. i : s[j] \in Nat
  OBVIOUS
<1> DEFINE T == {k \in 1 .. i : k = i \/ s[i - k] # s[i] - k}
<1>2. T \subseteq Nat /\ T # {}
  <2>1. i \in T
    BY <1>1
  <2>2. \A k \in 1 .. i : k \in Nat
    OBVIOUS
  <2> QED
    BY <2>1, <2>2
<1>3. PICK k \in T : \A m \in T : k <= m
  <2> HIDE DEF T
  <2> QED
    BY <1>2, Smallest
<1>4. k \in 1 .. i /\ (k = i \/ s[i - k] # s[i] - k)
  BY <1>3
<1>5. ASSUME NEW j \in 0 .. (k - 1)
      PROVE  s[i - j] = s[i] - j
  <2>1. CASE j = 0
    BY <1>1, <2>1
  <2>2. CASE j # 0
    <3>1. j \in 1 .. i /\ j # i /\ ~(k <= j)
      BY <1>1, <1>4, <2>2
    <3> QED
      BY <1>3, <3>1
  <2> QED
    BY <2>1, <2>2
<1>6. RunIs(s, i, k)
  BY <1>4, <1>5 DEF RunIs
<1> HIDE DEF T
<1>7. RunLength(s, i) = CHOOSE n \in 1 .. i : RunIs(s, i, n)
  <2>1. \A n \in 1 .. i :
          RunIs(s, i, n) <=> /\ \A j \in 0 .. (n - 1) : s[i - j] = s[i] - j
                             /\ n = i \/ s[i - n] # s[i] - n
    BY Zenon DEF RunIs
  <2> QED
    BY <2>1, Zenon DEF RunLength
<1> QED
  BY <1>4, <1>6, <1>7, Zenon

(* A run, read upwards: it ends at i and starts at i - k + 1. *)
LEMMA RunFacts ==
  ASSUME NEW s \in Seq(Nat), NEW i \in 1 .. Len(s), NEW k, RunIs(s, i, k)
  PROVE  /\ k \in 1 .. i /\ i - k \in 0 .. Len(s) /\ (i - k) + 1 \in 1 .. i
         /\ s[(i - k) + 1] = s[i] - (k - 1) /\ s[i] - (k - 1) \in Nat
         /\ \A j \in ((i - k) + 1) .. i : s[j] = s[i] - (i - j)
         /\ {s[j] : j \in ((i - k) + 1) .. i} = (s[i] - (k - 1)) .. s[i]
         /\ i - k = 0 \/ s[i - k] # s[(i - k) + 1] - 1
<1>1. /\ Len(s) \in Nat /\ i \in Nat /\ 1 <= i /\ i <= Len(s)
      /\ \A j \in 1 .. i : s[j] \in Nat
  OBVIOUS
<1>2. k \in Nat /\ 1 <= k /\ k <= i
  BY <1>1 DEF RunIs
<1>3. ASSUME NEW j \in ((i - k) + 1) .. i
      PROVE  s[j] = s[i] - (i - j)
  <2>1. i - j \in 0 .. (k - 1) /\ i - (i - j) = j
    BY <1>1, <1>2
  <2>2. \A m \in 0 .. (k - 1) : s[i - m] = s[i] - m
    BY DEF RunIs
  <2>3. s[i - (i - j)] = s[i] - (i - j)
    BY <2>1, <2>2, Zenon
  <2> QED
    BY <2>1, <2>3
<1>4. (i - k) + 1 \in ((i - k) + 1) .. i /\ (i - k) + 1 \in 1 .. i
      /\ i - ((i - k) + 1) = k - 1
  BY <1>1, <1>2
<1>5. s[(i - k) + 1] = s[i] - (k - 1) /\ s[(i - k) + 1] \in Nat /\ s[i] \in Nat
  BY <1>1, <1>3, <1>4
<1>6. {s[j] : j \in ((i - k) + 1) .. i} = (s[i] - (k - 1)) .. s[i]
  <2>1. ASSUME NEW j \in ((i - k) + 1) .. i
        PROVE  s[j] \in (s[i] - (k - 1)) .. s[i]
    <3>1. j \in Nat /\ i - j >= 0 /\ i - j <= k - 1
      BY <1>1, <1>2
    <3>2. s[j] = s[i] - (i - j)
      BY <1>3
    <3>3. s[i] \in Nat
      BY <1>5
    <3> QED
      BY <1>2, <3>1, <3>2, <3>3
  <2>2. ASSUME NEW v \in (s[i] - (k - 1)) .. s[i]
        PROVE  \E j \in ((i - k) + 1) .. i : v = s[j]
    <3>1. i - (s[i] - v) \in ((i - k) + 1) .. i /\ v \in Int
          /\ i - (i - (s[i] - v)) = s[i] - v /\ s[i] - (s[i] - v) = v
      <4>1. i \in Nat /\ s[i] \in Nat
        BY <1>1, <1>5
      <4>2. v \in Int /\ s[i] - v >= 0 /\ s[i] - v <= k - 1
        BY <1>2, <4>1
      <4> QED
        BY <1>2, <4>1, <4>2, SMTT(40)
    <3>2. s[i - (s[i] - v)] = s[i] - (i - (i - (s[i] - v)))
      BY <1>3, <3>1
    <3> QED
      BY <3>1, <3>2
  <2> QED
    BY <2>1, <2>2
<1>7. i - k = 0 \/ s[i - k] # s[(i - k) + 1] - 1
  <2>1. s[(i - k) + 1] - 1 = s[i] - k
    BY <1>2, <1>5
  <2>2. k = i \/ s[i - k] # s[i] - k
    BY DEF RunIs
  <2> QED
    BY <1>1, <1>2, <2>1, <2>2
<1>8. i - k \in 0 .. Len(s) /\ k \in 1 .. i
  BY <1>1, <1>2
<1>9. s[i] - (k - 1) \in Nat
  BY <1>5
<1> QED
  BY <1>3, <1>4, <1>5, <1>6, <1>7, <1>8, <1>9

-----------------------------------------------------------------------------
(* The builder. *)

Building(s) ==
  [i : 0 .. Len(s), smallest : Nat, raises : BOOLEAN, ranges : Seq([gap : Int, len : Nat])]

Twin(s) == \E j \in 1 .. (Len(s) - 1) : s[j] = s[j + 1]

(* Two equal neighbours: what a rising sequence with a repeated number has. *)
LEMMA TwinAt ==
  ASSUME NEW s \in Seq(Nat), NEW a \in 1 .. Len(s), NEW b \in 1 .. Len(s), a < b,
         Rising(s), s[a] = s[b]
  PROVE  Twin(s)
<1>1. Len(s) \in Nat /\ s[a] \in Nat /\ a \in Nat /\ b \in Nat /\ b <= Len(s) /\ 1 <= a
  OBVIOUS
<1>2. a \in 1 .. (Len(s) - 1) /\ a + 1 \in 1 .. Len(s) /\ (a + 1 = b \/ a + 1 < b)
  BY <1>1
<1>3. s[a + 1] \in Nat
  BY <1>2
<1>4. s[a] <= s[a + 1] /\ (a + 1 = b \/ s[a + 1] <= s[b])
  <2>1. a < a + 1
    BY <1>1
  <2> QED
    BY <1>2, <2>1 DEF Rising
<1>5. s[a] = s[a + 1]
  BY <1>1, <1>3, <1>4
<1> QED
  BY <1>2, <1>5 DEF Twin

(* One turn, of a state that has numbers left and did not raise. *)
LEMMA OneRangeStep ==
  ASSUME NEW s \in Seq(Nat), NEW x \in Building(s), x.i # 0, ~x.raises
  PROVE  LET k == RunLength(s, x.i)
         IN /\ x.i \in 1 .. Len(s) /\ RunIs(s, x.i, k)
            /\ OneRange(s, x) =
                 [i |-> x.i - k, smallest |-> s[x.i] - (k - 1),
                  raises |-> x.smallest - s[x.i] < 2 \/ RunRaises(s, x.i),
                  ranges |-> Append(x.ranges, [gap |-> x.smallest - s[x.i] - 2,
                                               len |-> k - 1])]
<1>1. x.i \in 1 .. Len(s)
  BY DEF Building
<1>2. RunIs(s, x.i, RunLength(s, x.i))
  BY <1>1, RunLengthIs
<1> QED
  BY <1>1, <1>2, Zenon DEF OneRange

LEMMA OneRangeType ==
  ASSUME NEW s \in Seq(Nat), NEW x \in Building(s)
  PROVE  OneRange(s, x) \in Building(s)
<1>1. CASE x.i = 0 \/ x.raises
  BY <1>1, Zenon DEF OneRange
<1>2. CASE x.i # 0 /\ ~x.raises
  <2> DEFINE i == x.i
             k == RunLength(s, i)
             gap == x.smallest - s[i] - 2
             up == x.smallest - s[i] < 2 \/ RunRaises(s, i)
             rs == Append(x.ranges, [gap |-> gap, len |-> k - 1])
  <2>1. i \in 1 .. Len(s) /\ RunIs(s, i, k)
        /\ OneRange(s, x) = [i |-> i - k, smallest |-> s[i] - (k - 1),
                             raises |-> up, ranges |-> rs]
    BY <1>2, OneRangeStep, Zenon
  <2>2. x.smallest \in Nat /\ x.ranges \in Seq([gap : Int, len : Nat])
    BY DEF Building
  <2> HIDE DEF i, k
  <2>3. k \in 1 .. i /\ i - k \in 0 .. Len(s) /\ s[i] - (k - 1) \in Nat
    BY <2>1, RunFacts
  <2>4. k - 1 \in Nat /\ s[i] \in Nat
    BY <2>1, <2>3, SMTT(40)
  <2>5. gap \in Int
    BY <2>2, <2>4
  <2> HIDE DEF gap
  <2>6. rs \in Seq([gap : Int, len : Nat])
    BY <2>2, <2>4, <2>5
  <2>7. up \in BOOLEAN
    BY Zenon DEF RunRaises
  <2> HIDE DEF rs, up
  <2> QED
    BY <2>1, <2>3, <2>6, <2>7 DEF Building
<1> QED
  BY <1>1, <1>2, Zenon

(* The states of the builder's loop. *)
BuildRun(s, i, sm, h) ==
  /\ h[0] = [i |-> i, smallest |-> sm, raises |-> FALSE, ranges |-> <<>>]
  /\ \A n \in 1 .. i : h[n] = OneRange(s, h[n - 1])

LEMMA BuildRunExists ==
  ASSUME NEW s \in Seq(Nat), NEW N \in 0 .. Len(s), NEW sm \in Nat
  PROVE  \E h : BuildRun(s, N, sm, h) /\ LowerRanges(s, N, sm) = h[N]
<1> DEFINE T == Building(s)
           x == [i |-> N, smallest |-> sm, raises |-> FALSE, ranges |-> <<>>]
           step(f) == [n \in 0 .. N |-> IF n = 0 THEN x ELSE OneRange(s, f[n - 1])]
           h == CHOOSE f : f = step(f)
           F == [p \in (1 .. N) \X T |-> OneRange(s, p[2])]
<1>1. LowerRanges(s, N, sm) = h[N]
  BY Zenon DEF LowerRanges
<1>2. N \in Nat
  OBVIOUS
<1>3. F \in [(1 .. N) \X T -> T]
  <2> SUFFICES ASSUME NEW y \in T
               PROVE  OneRange(s, y) \in T
    OBVIOUS
  <2> QED
    BY OneRangeType
<1>4. x \in T
  <2>1. <<>> \in Seq([gap : Int, len : Nat])
    OBVIOUS
  <2> QED
    BY <2>1 DEF Building
<1> HIDE DEF x, T
<1>5. PICK g \in [0 .. N -> T] :
        g[0] = x /\ \A n \in 1 .. N : g[n] = F[<<n, g[n - 1]>>]
  <2> HIDE DEF F
  <2>1. F \in Turns(N, T)
    BY <1>3 DEF Turns
  <2>2. \E g : RunOf(N, T, x, F, g)
    BY <1>2, <1>4, <2>1, Iterates
  <2> QED
    BY <2>2 DEF RunOf
<1>6. g = step(g)
  <2>1. ASSUME NEW n \in 0 .. N
        PROVE  g[n] = IF n = 0 THEN x ELSE OneRange(s, g[n - 1])
    <3>1. CASE n = 0
      BY <1>5, <3>1
    <3>2. CASE n # 0
      <4>1. n \in 1 .. N /\ n - 1 \in 0 .. N
        BY <1>2, <3>2
      <4>2. g[n - 1] \in T
        BY <1>5, <4>1
      <4>3. F[<<n, g[n - 1]>>] = OneRange(s, g[n - 1])
        BY <4>1, <4>2
      <4> QED
        BY <1>5, <3>2, <4>1, <4>3
    <3> QED
      BY <3>1, <3>2
  <2> QED
    BY <1>5, <2>1
<1> HIDE DEF step
<1>7. h = step(h)
  BY <1>6, Zenon
<1> HIDE DEF h
<1>8. BuildRun(s, N, sm, h)
  <2>1. \A n \in 0 .. N : h[n] = IF n = 0 THEN x ELSE OneRange(s, h[n - 1])
    BY <1>7 DEF step
  <2>2. h[0] = x /\ \A n \in 1 .. N : h[n] = OneRange(s, h[n - 1])
    BY <1>2, <2>1
  <2> QED
    BY <2>2 DEF BuildRun, x
<1> QED
  BY <1>1, <1>8

(* After any number of turns: what is left has no number of what is done,  *)
(* and the reader takes from the blocks exactly the numbers done; or the   *)
(* builder raised, and two numbers are equal.                              *)
Vals(s, a, b) == {s[j] : j \in a .. b}
Block(a, b, k) == [gap |-> b - a - 2, len |-> k - 1]

ReadDown(s, N, sm, i, ranges) ==
  RangesRead(ranges, sm) = [smallest |-> s[i + 1], acked |-> Vals(s, i + 1, N)]

Done(s, N, sm, x) ==
  /\ x.i + 1 <= Len(s) /\ x.smallest = s[x.i + 1]
  /\ \A j \in (x.i + 1) .. (Len(s) - 1) : s[j] # s[j + 1]
  /\ x.i = 0 \/ s[x.i] # s[x.i + 1] - 1
  /\ x.ranges \in Seq(Blocks)
  /\ ReadDown(s, N, sm, x.i, x.ranges)

Built(s, N, sm, x) ==
  /\ x \in Building(s) /\ x.i <= N
  /\ IF x.raises THEN Twin(s) ELSE Done(s, N, sm, x)

(* The builder raises only on two equal numbers. *)
LEMMA RaisesOnTwin ==
  ASSUME NEW s \in Seq(Nat), Rising(s), NEW i \in 1 .. Len(s),
         RunRaises(s, i)
  PROVE  Twin(s)
<1> DEFINE k == RunLength(s, i)
<1>1. RunIs(s, i, k)
  BY RunLengthIs
<1>2. k < i /\ s[i] < k
  BY DEF RunRaises
<1> HIDE DEF k
<1>3. /\ k \in 1 .. i /\ (i - k) + 1 \in 1 .. i
      /\ s[(i - k) + 1] = s[i] - (k - 1) /\ s[i] - (k - 1) \in Nat
  BY <1>1, RunFacts
<1>4. /\ i - k \in 1 .. Len(s) /\ (i - k) + 1 \in 1 .. Len(s) /\ i - k < (i - k) + 1
  BY <1>2, <1>3
<1>5. s[i - k] \in Nat /\ s[i] \in Nat /\ k \in Nat
  BY <1>3, <1>4, SMTT(40)
<1>6. s[i - k] <= s[(i - k) + 1]
  BY <1>4 DEF Rising
<1>7. s[i - k] = s[(i - k) + 1]
  BY <1>2, <1>3, <1>5, <1>6, SMTT(40)
<1> QED
  BY <1>4, <1>7, TwinAt

(* What the reader makes of a block: the builder's subtractions undone. *)
TakesRun(x, a, b, k) ==
  /\ Block(a, b, k) \in Blocks
  /\ ReadRange(x, Block(a, b, k))
       = [smallest |-> a - (k - 1), acked |-> x.acked \cup ((a - (k - 1)) .. a)]

LEMMA OneBlock ==
  ASSUME NEW a \in Nat, NEW b \in Nat, b - a >= 2, NEW k \in Nat, 1 <= k,
         a - (k - 1) \in Nat, NEW x \in Reading, x.smallest = b
  PROVE  TakesRun(x, a, b, k)
<1> DEFINE r == Block(a, b, k)
           top == MinusOrZero(x.smallest, r.gap + 2)
           bottom == MinusOrZero(top, r.len)
<1>1. b - a - 2 \in Nat /\ k - 1 \in Nat
  OBVIOUS
<1>2. r \in Blocks /\ r.gap + 2 = b - a /\ r.len = k - 1
  BY <1>1 DEF Blocks, Block
<1> HIDE DEF r
<1>3. top = a
  BY <1>2 DEF MinusOrZero
<1>4. ReadRange(x, r) = [smallest |-> bottom, acked |-> x.acked \cup (bottom .. top)]
  BY Zenon DEF ReadRange
<1> HIDE DEF top
<1>5. bottom = a - (k - 1)
  BY <1>1, <1>2, <1>3 DEF MinusOrZero
<1> HIDE DEF bottom
<1> QED
  BY <1>2, <1>3, <1>4, <1>5, Zenon DEF r, TakesRun

Joined(s, N, i, k) ==
  Vals(s, (i - k) + 1, N) = Vals(s, i + 1, N) \cup Vals(s, (i - k) + 1, i)

LEMMA RunJoins ==
  ASSUME NEW s, NEW N \in Nat, NEW i \in 1 .. N, NEW k \in 1 .. i
  PROVE  Joined(s, N, i, k)
<1>1. \A j \in ((i - k) + 1) .. N : j \in (i + 1) .. N \/ j \in ((i - k) + 1) .. i
  OBVIOUS
<1>2. /\ \A j \in (i + 1) .. N : j \in ((i - k) + 1) .. N
      /\ \A j \in ((i - k) + 1) .. i : j \in ((i - k) + 1) .. N
  OBVIOUS
<1> QED
  BY <1>1, <1>2 DEF Vals, Joined

(* The numbers of the run join those done. *)
LEMMA DoneGrows ==
  ASSUME NEW s \in Seq(Nat), NEW N \in 0 .. Len(s), NEW sm \in Nat,
         NEW i \in 1 .. N, i + 1 <= Len(s), NEW k, RunIs(s, i, k),
         NEW a, a = s[i], NEW b, b = s[i + 1], b - a >= 2,
         NEW ranges \in Seq(Blocks), ReadDown(s, N, sm, i, ranges)
  PROVE  /\ Block(a, b, k) \in Blocks
         /\ ReadDown(s, N, sm, i - k, Append(ranges, Block(a, b, k)))
<1> DEFINE x == RangesRead(ranges, sm)
           r == Block(a, b, k)
           D == Vals(s, i + 1, N)
           R == Vals(s, (i - k) + 1, i)
<1>1. i \in 1 .. Len(s) /\ i + 1 \in 1 .. Len(s) /\ N \in Nat
  OBVIOUS
<1>2. a \in Nat /\ b \in Nat
  BY <1>1, SMTT(40)
<1>3. /\ k \in 1 .. i /\ a - (k - 1) \in Nat /\ R = (a - (k - 1)) .. a
      /\ s[(i - k) + 1] = a - (k - 1)
  BY <1>1, RunFacts, ZenonT(60) DEF Vals
<1>4. x = [smallest |-> b, acked |-> D]
  BY Zenon DEF ReadDown
<1>5. Vals(s, (i - k) + 1, N) = D \cup R
  <2>1. Joined(s, N, i, k)
    BY <1>1, <1>3, RunJoins, Zenon
  <2> QED
    BY <2>1, Zenon DEF Joined
<1>6. ASSUME NEW q \in Blocks
      PROVE  x \in Reading /\ RangesRead(Append(ranges, q), sm) = ReadRange(x, q)
  BY <1>6, ReadAppend, Zenon
<1> HIDE DEF x, D, R
<1>7. x.smallest = b /\ x.acked = D
  BY <1>4, Zenon
<1>8. k \in Nat /\ 1 <= k
  BY <1>1, <1>3
<1>9. x \in Reading
  <2>1. [gap |-> 0, len |-> 0] \in Blocks
    BY DEF Blocks
  <2> QED
    BY <1>6, <2>1, Zenon
<1>10. /\ r \in Blocks
       /\ ReadRange(x, r) = [smallest |-> a - (k - 1),
                             acked |-> x.acked \cup ((a - (k - 1)) .. a)]
  <2>1. TakesRun(x, a, b, k)
    BY <1>2, <1>3, <1>7, <1>8, <1>9, OneBlock, Zenon
  <2> QED
    BY <2>1, Zenon DEF TakesRun
<1>11. RangesRead(Append(ranges, r), sm) = [smallest |-> s[(i - k) + 1], acked |-> D \cup R]
  BY <1>3, <1>6, <1>7, <1>10, Zenon
<1> QED
  BY <1>5, <1>10, <1>11, Zenon DEF ReadDown

LEMMA BuiltStep ==
  ASSUME NEW s \in Seq(Nat), Rising(s), NEW N \in 0 .. (Len(s) - 1), NEW sm \in Nat,
         NEW x, Built(s, N, sm, x), x.i # 0, ~x.raises
  PROVE  Built(s, N, sm, OneRange(s, x)) /\ OneRange(s, x).i < x.i
<1> DEFINE i == x.i
           k == RunLength(s, i)
           r == [gap |-> x.smallest - s[i] - 2, len |-> k - 1]
           y == OneRange(s, x)
<1>1. x \in Building(s) /\ x.i <= N /\ Done(s, N, sm, x)
  BY Zenon DEF Built
<1>2. /\ i \in 1 .. Len(s) /\ RunIs(s, i, k)
      /\ y = [i |-> i - k, smallest |-> s[i] - (k - 1),
              raises |-> x.smallest - s[i] < 2 \/ RunRaises(s, i),
              ranges |-> Append(x.ranges, r)]
  BY <1>1, OneRangeStep, Zenon
<1>3. y \in Building(s)
  BY <1>1, OneRangeType
<1>4. /\ y.i = i - k /\ y.smallest = s[i] - (k - 1)
      /\ y.raises <=> (x.smallest - s[i] < 2 \/ RunRaises(s, i))
      /\ y.ranges = Append(x.ranges, r)
  <2> HIDE DEF y, r, k, i
  <2> QED
    BY <1>2
<1>5. /\ i + 1 <= Len(s) /\ x.smallest = s[i + 1]
      /\ \A j \in (i + 1) .. (Len(s) - 1) : s[j] # s[j + 1]
      /\ s[i] # s[i + 1] - 1
      /\ x.ranges \in Seq(Blocks) /\ ReadDown(s, N, sm, i, x.ranges)
  BY <1>1, Zenon DEF Done
<1>6. i <= N
  BY <1>1
<1> HIDE DEF i, k, y
<1>7. /\ k \in 1 .. i /\ i - k \in 0 .. Len(s) /\ (i - k) + 1 \in 1 .. i
      /\ s[(i - k) + 1] = s[i] - (k - 1) /\ s[i] - (k - 1) \in Nat
      /\ \A j \in ((i - k) + 1) .. i : s[j] = s[i] - (i - j)
      /\ i - k = 0 \/ s[i - k] # s[(i - k) + 1] - 1
  BY <1>2, RunFacts, ZenonT(60)
<1>8. /\ Len(s) \in Nat /\ i \in Nat /\ N \in Nat /\ k \in Nat /\ i + 1 \in 1 .. Len(s)
      /\ i < i + 1 /\ i \in 1 .. N
  BY <1>2, <1>5, <1>6, <1>7
<1> DEFINE a == s[i]
           b == s[i + 1]
<1>9. a \in Nat /\ b \in Nat /\ a <= b
  <2>0. i \in 1 .. Len(s)
    BY <1>2
  <2>1. a \in Nat /\ b \in Nat
    BY <1>8, <2>0, SMTT(40)
  <2>2. a <= b
    BY <1>8, <2>0 DEF Rising
  <2> QED
    BY <2>1, <2>2
<1>10. y.i <= N /\ y.i < i
  BY <1>4, <1>7, <1>8
<1>11. CASE y.raises
  <2>1. CASE x.smallest - s[i] < 2
    <3>1. b - a < 2 /\ a # b - 1
      BY <1>5, <2>1, Zenon
    <3>2. a = b
      <4> HIDE DEF a, b
      <4> QED
        BY <1>9, <3>1
    <3>3. Twin(s)
      <4>1. i \in 1 .. Len(s)
        BY <1>2
      <4> QED
        BY <1>8, <3>2, <4>1, TwinAt
    <3> QED
      BY <1>3, <1>10, <1>11, <3>3 DEF Built, i, y
  <2>2. CASE RunRaises(s, i)
    <3>1. Twin(s)
      BY <1>2, <2>2, RaisesOnTwin
    <3> QED
      BY <1>3, <1>10, <1>11, <3>1 DEF Built, i, y
  <2> QED
    BY <1>4, <1>11, <2>1, <2>2
<1>12. CASE ~y.raises
  <2>1. b - a >= 2
    <3>1. ~(b - a < 2)
      BY <1>4, <1>5, <1>12, Zenon
    <3> HIDE DEF a, b
    <3> QED
      BY <1>9, <3>1
  <2>2. r = Block(a, b, k)
    BY <1>5, Zenon DEF Block
  <2>3. r \in Blocks /\ ReadDown(s, N, sm, i - k, Append(x.ranges, r))
    <3>1. N \in 0 .. Len(s) /\ RunIs(s, i, k) /\ i \in 1 .. N /\ i + 1 <= Len(s)
      BY <1>2, <1>8
    <3>2. x.ranges \in Seq(Blocks) /\ ReadDown(s, N, sm, i, x.ranges)
      BY <1>5, Zenon
    <3>3. a = s[i] /\ b = s[i + 1]
      OBVIOUS
    <3> HIDE DEF a, b, r
    <3> QED
      BY <2>1, <2>2, <3>1, <3>2, <3>3, DoneGrows
  <2> HIDE DEF r
  <2>4. y.ranges \in Seq(Blocks) /\ ReadDown(s, N, sm, i - k, y.ranges)
    BY <1>4, <1>5, <2>3
  <2>5. ASSUME NEW j \in ((i - k) + 1) .. (Len(s) - 1)
        PROVE  s[j] # s[j + 1]
    <3>1. CASE j < i
      <4>1. j \in ((i - k) + 1) .. i /\ j + 1 \in ((i - k) + 1) .. i
        BY <1>7, <1>8, <3>1
      <4>2. s[j] = s[i] - (i - j) /\ s[j + 1] = s[i] - (i - (j + 1))
        BY <1>7, <4>1
      <4>3. j \in Int
        OBVIOUS
      <4>4. s[j] = a - (i - j) /\ s[j + 1] = a - (i - (j + 1))
        BY <4>2
      <4> HIDE DEF a
      <4> QED
        BY <1>8, <1>9, <4>3, <4>4
    <3>2. CASE j = i
      <4>1. a # b
        <5> HIDE DEF a, b
        <5> QED
          BY <1>9, <2>1
      <4> QED
        BY <3>2, <4>1
    <3>3. CASE j > i
      <4>1. j \in (i + 1) .. (Len(s) - 1)
        BY <1>8, <3>3
      <4> QED
        BY <1>5, <4>1
    <3> QED
      BY <1>8, <3>1, <3>2, <3>3
  <2>6. Done(s, N, sm, y)
    <3>1. (i - k) + 1 <= Len(s)
      BY <1>7, <1>8
    <3> QED
      BY <1>4, <1>7, <2>4, <2>5, <3>1, Zenon DEF Done
  <2> QED
    BY <1>3, <1>10, <1>12, <2>6 DEF Built, i, y
<1> QED
  BY <1>11, <1>12

(* What is left at the end: nothing, unless the builder raised. *)
LEMMA LowerBuilt ==
  ASSUME NEW s \in Seq(Nat), Rising(s), NEW N \in 0 .. (Len(s) - 1), NEW sm \in Nat,
         Built(s, N, sm, [i |-> N, smallest |-> sm, raises |-> FALSE, ranges |-> <<>>])
  PROVE  LET x == LowerRanges(s, N, sm)
         IN Built(s, N, sm, x) /\ (x.raises \/ x.i = 0)
<1>1. N \in Nat /\ N \in 0 .. Len(s)
  OBVIOUS
<1>2. PICK h : BuildRun(s, N, sm, h) /\ LowerRanges(s, N, sm) = h[N]
  BY <1>1, BuildRunExists
<1> DEFINE P(n) == Built(s, N, sm, h[n]) /\ (h[n].raises \/ h[n].i <= N - n)
           I == {n \in 0 .. N : P(n)}
<1>3. h[0] = [i |-> N, smallest |-> sm, raises |-> FALSE, ranges |-> <<>>]
      /\ \A n \in 1 .. N : h[n] = OneRange(s, h[n - 1])
  BY <1>2, Zenon DEF BuildRun
<1>4. 0 \in I
  <2>1. Built(s, N, sm, h[0])
    BY <1>3, Zenon
  <2>2. h[0].i = N
    BY <1>3
  <2>3. h[0].i <= N - 0 /\ 0 \in 0 .. N
    BY <1>1, <2>2
  <2> QED
    BY <2>1, <2>3
<1>5. ASSUME NEW n \in 1 .. N, n - 1 \in I
      PROVE  n \in I
  <2> DEFINE x == h[n - 1]
  <2>1. Built(s, N, sm, x) /\ (x.raises \/ x.i <= N - (n - 1))
    BY <1>5
  <2>2. h[n] = OneRange(s, x) /\ n \in 0 .. N
    BY <1>1, <1>3
  <2>3. x.i \in Nat
    BY <2>1 DEF Built, Building
  <2> HIDE DEF x
  <2>4. CASE x.i = 0 \/ x.raises
    <3>1. h[n] = x
      BY <2>2, <2>4, Zenon DEF OneRange
    <3>2. x.raises \/ x.i <= N - n
      <4>1. 0 <= N - n
        BY <1>1
      <4> QED
        BY <2>4, <4>1
    <3>3. P(n)
      BY <2>1, <3>1, <3>2, Zenon
    <3> QED
      BY <2>2, <3>3
  <2>5. CASE x.i # 0 /\ ~x.raises
    <3>1. Built(s, N, sm, h[n]) /\ h[n].i < x.i
      BY <2>1, <2>2, <2>5, BuiltStep
    <3>2. h[n].i \in Nat
      BY <3>1 DEF Built, Building
    <3>3. h[n].i <= N - n
      <4> DEFINE a == x.i
                 b == h[n].i
      <4>1. a \in Nat /\ b \in Nat /\ b < a /\ a <= N - (n - 1)
        BY <2>1, <2>3, <2>5, <3>1, <3>2
      <4> HIDE DEF a, b
      <4>2. b <= N - n
        BY <1>1, <4>1
      <4> QED
        BY <4>2 DEF b
    <3>4. P(n)
      BY <3>1, <3>3
    <3> QED
      BY <2>2, <3>4
  <2> QED
    BY <2>4, <2>5
<1>6. N \in I
  <2> HIDE DEF I
  <2>1. \A n \in 0 .. N : n \in I
    BY <1>1, <1>4, <1>5, Induct
  <2> QED
    BY <1>1, <2>1
<1>7. Built(s, N, sm, h[N]) /\ (h[N].raises \/ h[N].i <= N - N)
  BY <1>6
<1>8. h[N].i \in Nat
  BY <1>7 DEF Built, Building
<1>9. h[N].raises \/ h[N].i = 0
  BY <1>1, <1>7, <1>8
<1> QED
  BY <1>2, <1>7, <1>9

(* Before the first turn. *)
LEMMA FirstRun ==
  ASSUME NEW s \in Seq(Nat), NEW n, n = Len(s), n # 0, NEW k, RunIs(s, n, k),
         NEW sm, sm = s[n] - (k - 1)
  PROVE  Built(s, n - k, sm, [i |-> n - k, smallest |-> sm, raises |-> FALSE,
                              ranges |-> <<>>])
<1> DEFINE N == n - k
           e == <<>>
           x == [i |-> N, smallest |-> sm, raises |-> FALSE, ranges |-> e]
<1>1. n \in Nat /\ n \in 1 .. Len(s)
  OBVIOUS
<1>2. /\ k \in 1 .. n /\ N \in 0 .. n /\ N + 1 \in 1 .. n
      /\ s[N + 1] = sm /\ sm \in Nat
      /\ \A j \in (N + 1) .. n : s[j] = s[n] - (n - j)
      /\ N = 0 \/ s[N] # s[N + 1] - 1
  BY <1>1, RunFacts, ZenonT(60)
<1>3. e \in Seq(Blocks) /\ e \in Seq([gap : Int, len : Nat])
  OBVIOUS
<1>4. RangesRead(e, sm) = [smallest |-> sm, acked |-> {}]
  BY <1>2, ReadNothing
<1> HIDE DEF e
<1>5. x \in Building(s) /\ x.i = N /\ x.smallest = sm /\ ~x.raises /\ x.ranges = e
  <2>1. N \in 0 .. Len(s) /\ sm \in Nat
    BY <1>2
  <2> HIDE DEF N
  <2> QED
    BY <1>3, <2>1 DEF Building
<1> HIDE DEF x
<1>6. Vals(s, N + 1, N) = {}
  <2>1. \A j \in (N + 1) .. N : FALSE
    BY <1>1, <1>2
  <2> QED
    BY <2>1 DEF Vals
<1>7. ReadDown(s, N, sm, N, e)
  BY <1>2, <1>4, <1>6, Zenon DEF ReadDown
<1>8. ASSUME NEW j \in (N + 1) .. (Len(s) - 1)
      PROVE  s[j] # s[j + 1]
  <2>1. j \in (N + 1) .. n /\ j + 1 \in (N + 1) .. n /\ j \in Int
    <3>1. N \in 0 .. n
      BY <1>2
    <3> HIDE DEF N
    <3> QED
      BY <1>1, <3>1
  <2>2. s[j] = s[n] - (n - j) /\ s[j + 1] = s[n] - (n - (j + 1))
    BY <1>2, <2>1
  <2>3. s[n] \in Nat
    BY <1>1
  <2> QED
    BY <1>1, <2>1, <2>2, <2>3
<1>9. N + 1 <= Len(s) /\ N <= N
  BY <1>1, <1>2
<1> HIDE DEF N
<1>10. Done(s, N, sm, x)
  BY <1>2, <1>3, <1>5, <1>7, <1>8, <1>9, Zenon DEF Done
<1>11. Built(s, N, sm, x)
  BY <1>5, <1>9, <1>10, Zenon DEF Built
<1> QED
  BY <1>11, Zenon DEF N, x, e

(* The frame of an ACK: raised exactly when two numbers are equal, and     *)
(* otherwise read back to exactly the numbers it was built from.           *)
LEMMA FrameRead ==
  ASSUME NEW pns \in Seq(Nat), Len(pns) # 0
  PROVE  /\ AckFrame(pns).raises <=> Twin(Sorted(pns))
         /\ RoundTrips(pns)
<1> DEFINE s == Sorted(pns)
           n == Len(s)
           k == RunLength(s, n)
           N == n - k
           sm == s[n] - (k - 1)
           x == LowerRanges(s, N, sm)
           f == AckFrame(pns)
<1>1. s \in Seq(Nat) /\ n = Len(pns) /\ Rising(s) /\ Range(s) = Range(pns)
  BY SortedOk
<1>2. f = [raises |-> RunRaises(s, n) \/ x.raises, largest |-> s[n], first |-> k - 1,
           ranges |-> x.ranges]
  BY Zenon DEF AckFrame
<1>3. /\ f.raises <=> RunRaises(s, n) \/ x.raises
      /\ f.largest = s[n] /\ f.first = k - 1 /\ f.ranges = x.ranges
  <2> HIDE DEF s, n, k, x, f
  <2> QED
    BY <1>2
<1>4. RoundTrips(pns) <=> (~f.raises => Acknowledged(f) = Range(pns))
  BY Zenon DEF RoundTrips
<1> HIDE DEF s, f
<1>5. n \in Nat /\ n # 0 /\ n \in 1 .. Len(s)
  BY <1>1
<1>6. RunIs(s, n, k)
  BY <1>1, <1>5, RunLengthIs
<1> HIDE DEF k
<1>7. /\ k \in 1 .. n /\ N \in 0 .. n /\ s[N + 1] = sm /\ sm \in Nat
      /\ Vals(s, N + 1, n) = sm .. s[n]
  <2>1. n = Len(s)
    OBVIOUS
  <2> HIDE DEF n
  <2>2. /\ k \in 1 .. n /\ N \in 0 .. Len(s) /\ s[N + 1] = sm /\ sm \in Nat
        /\ {s[j] : j \in (N + 1) .. n} = sm .. s[n]
    <3>1. s \in Seq(Nat)
      BY <1>1
    <3>2. n \in 1 .. Len(s)
      BY <1>5
    <3> QED
      BY <1>6, <3>1, <3>2, RunFacts, ZenonT(60)
  <2> HIDE DEF N, sm
  <2> QED
    BY <2>1, <2>2 DEF Vals
<1>8. Built(s, N, sm, [i |-> N, smallest |-> sm, raises |-> FALSE, ranges |-> <<>>])
  BY <1>1, <1>5, <1>6, FirstRun, Zenon
<1>9. N \in 0 .. (Len(s) - 1)
  BY <1>5, <1>7
<1> HIDE DEF N, sm
<1>10. Built(s, N, sm, x) /\ (x.raises \/ x.i = 0)
  BY <1>1, <1>7, <1>8, <1>9, LowerBuilt, Zenon
<1> HIDE DEF x
<1>11. CASE f.raises
  <2>1. RunRaises(s, n) => Twin(s)
    BY <1>1, <1>5, RaisesOnTwin
  <2>2. x.raises => Twin(s)
    BY <1>10, Zenon DEF Built
  <2>3. Twin(s)
    BY <1>3, <1>11, <2>1, <2>2
  <2> QED
    BY <1>4, <1>11, <2>3 DEF f, s
<1>12. CASE ~f.raises
  <2>1. ~x.raises /\ x.i = 0 /\ Done(s, N, sm, x)
    BY <1>3, <1>10, <1>12, Zenon DEF Built
  <2>2. /\ \A j \in (0 + 1) .. (Len(s) - 1) : s[j] # s[j + 1]
        /\ RangesRead(x.ranges, sm) = [smallest |-> s[0 + 1], acked |-> Vals(s, 0 + 1, N)]
    BY <2>1, Zenon DEF Done, ReadDown
  <2>3. ~Twin(s)
    BY <2>2 DEF Twin
  <2>4. RangesRead(x.ranges, sm).acked = Vals(s, 1, N)
    BY <2>2
  <2>5. MinusOrZero(f.largest, f.first) = sm
    <3>1. s[n] \in Nat
      BY <1>1, <1>5
    <3>2. k - 1 \in Nat
      BY <1>7
    <3> DEFINE a == s[n]
    <3>3. sm = a - (k - 1) /\ a \in Nat
      BY <3>1 DEF sm
    <3> HIDE DEF a
    <3>4. MinusOrZero(a, k - 1) = sm
      BY <1>7, <3>2, <3>3 DEF MinusOrZero
    <3> QED
      BY <1>3, <3>4 DEF a
  <2>6. Acknowledged(f) = (sm .. s[n]) \cup Vals(s, 1, N)
    BY <1>3, <2>4, <2>5, Zenon DEF Acknowledged
  <2>7. Vals(s, 1, n) = Vals(s, N + 1, n) \cup Vals(s, 1, N)
    <3>1. \A j \in 1 .. n : j \in (N + 1) .. n \/ j \in 1 .. N
      BY <1>5, <1>7
    <3>2. /\ \A j \in (N + 1) .. n : j \in 1 .. n
          /\ \A j \in 1 .. N : j \in 1 .. n
      BY <1>5, <1>7
    <3> QED
      BY <3>1, <3>2 DEF Vals
  <2>8. Range(s) = Vals(s, 1, n)
    BY <1>1, RangeEquality DEF Vals
  <2>9. Acknowledged(f) = Range(pns)
    BY <1>1, <1>7, <2>6, <2>7, <2>8, Zenon
  <2> QED
    BY <1>4, <1>12, <2>3, <2>9 DEF f, s
<1> QED
  BY <1>11, <1>12

(* A number is held twice exactly when two neighbours are equal. *)
LEMMA RepeatIsTwin ==
  ASSUME NEW pns \in Seq(Nat)
  PROVE  HasRepeat(pns) <=> Twin(Sorted(pns))
<1> DEFINE s == Sorted(pns)
           n == Len(s)
           D == 1 .. n
           T == Range(s)
<1>1. s \in Seq(Nat) /\ Rising(s)
  BY SortedOk
<1>2. n = Len(pns) /\ T = Range(pns)
  BY SortedOk
<1> HIDE DEF s
<1>3. n \in Nat /\ s \in [D -> Nat]
  BY <1>1
<1>4. T = {s[i] : i \in D}
  BY <1>1, RangeEquality
<1>5. IsFiniteSet(D) /\ Cardinality(D) = n
  <2> HIDE DEF n
  <2>1. IsFiniteSet(1 .. n) /\ Cardinality(1 .. n) = IF 1 > n THEN 0 ELSE n - 1 + 1
    BY <1>3, FS_Interval
  <2> QED
    BY <1>3, <2>1
<1>6. s \in Surjection(D, T)
  <2>1. s \in [D -> T] /\ \A v \in T : \E i \in D : s[i] = v
    <3> HIDE DEF D, T
    <3> QED
      BY <1>3, <1>4
  <2> QED
    BY <2>1, Zenon DEF Surjection
<1> HIDE DEF T
<1>7. /\ IsFiniteSet(T) /\ Cardinality(T) <= Cardinality(D)
      /\ Cardinality(T) = Cardinality(D) <=> s \in Injection(D, T)
  <2> HIDE DEF D
  <2> QED
    BY <1>5, <1>6, FS_Surjection, Zenon
<1>8. Cardinality(T) \in Nat
  BY <1>7, FS_CardinalityType
<1>9. HasRepeat(pns) <=> Cardinality(T) < n
  BY <1>2, Zenon DEF HasRepeat
<1>10. s \in Injection(D, T) <=> \A i, j \in D : s[i] = s[j] => i = j
  <2>1. s \in [D -> T]
    <3> HIDE DEF D
    <3> QED
      BY <1>6, Zenon DEF Surjection
  <2> HIDE DEF D
  <2> QED
    BY <2>1 DEF Injection, IsInjective
<1>11. Twin(s) => ~(\A i, j \in D : s[i] = s[j] => i = j)
  <2> SUFFICES ASSUME NEW j \in 1 .. (Len(s) - 1), s[j] = s[j + 1]
               PROVE  \E a, b \in D : s[a] = s[b] /\ a # b
    BY DEF Twin
  <2>1. j \in D /\ j + 1 \in D /\ j # j + 1
    BY <1>3
  <2> QED
    BY <2>1, Zenon
<1>12. ASSUME NEW a \in D, NEW b \in D, s[a] = s[b], a # b
       PROVE  Twin(s)
  <2>1. a < b \/ b < a
    BY <1>3, <1>12
  <2>2. a \in 1 .. Len(s) /\ b \in 1 .. Len(s)
    OBVIOUS
  <2> HIDE DEF D
  <2> QED
    BY <1>1, <1>12, <2>1, <2>2, TwinAt
<1>13. Twin(s) <=> s \notin Injection(D, T)
  BY <1>10, <1>11, <1>12, Zenon
<1>14. Cardinality(T) < n <=> s \notin Injection(D, T)
  <2> HIDE DEF D, n
  <2> QED
    BY <1>3, <1>5, <1>7, <1>8
<1> QED
  BY <1>9, <1>13, <1>14, Zenon DEF s


-----------------------------------------------------------------------------
(* The statistics of the benchmarks. *)

LEMMA DivIs ==
  ASSUME NEW a \in Int, NEW n \in Nat, n # 0
  PROVE  a \div n \in Int /\ n * (a \div n) <= a /\ a < n * (a \div n) + n
OBVIOUS

LEMMA Distributes ==
  ASSUME NEW n \in Int, NEW q \in Int
  PROVE  n * (q + 1) = n * q + n /\ (n + 1) * q = n * q + q
OBVIOUS

(* A quotient lies between two bounds of the dividend. *)
LEMMA DivBetween ==
  ASSUME NEW a \in Int, NEW n \in Nat, n # 0, NEW v \in Nat, NEW w \in Nat,
         n * v <= a, a <= n * w
  PROVE  v <= a \div n /\ a \div n <= w
<1> DEFINE q == a \div n
<1>1. q \in Int /\ n * q <= a /\ a < n * q + n
  BY DivIs
<1> HIDE DEF q
<1>2. n * (q + 1) = n * q + n
  BY <1>1, Distributes
<1>3. v <= q
  <2>1. ASSUME q + 1 <= v
        PROVE  n * (q + 1) <= n * v
    BY <1>1, <2>1
  <2> QED
    BY <1>1, <1>2, <2>1
<1>4. q <= w
  <2>1. ASSUME w + 1 <= q
        PROVE  n * (w + 1) <= n * q
    BY <1>1, <2>1
  <2>2. n * (w + 1) = n * w + n
    BY Distributes
  <2> QED
    BY <1>1, <2>1, <2>2
<1> QED
  BY <1>3, <1>4 DEF q

(* The sum by halves: of the samples i .. j. *)
SumRun(lats, h) ==
  \A i \in 1 .. (Len(lats) + 1), j \in 0 .. Len(lats) :
    h[<<i, j>>] = LET mid == (i + j) \div 2 IN
                  IF i > j THEN 0
                  ELSE IF i = j THEN lats[i] ELSE h[<<i, mid>>] + h[<<mid + 1, j>>]

LEMMA MidIs ==
  ASSUME NEW i \in Nat, NEW j \in Nat, i < j
  PROVE  LET mid == (i + j) \div 2 IN mid \in Nat /\ i <= mid /\ mid < j
OBVIOUS

LEMMA SumRunExists ==
  ASSUME NEW lats \in Seq(Nat)
  PROVE  \E h : SumRun(lats, h) /\ SumOf(lats) = h[<<1, Len(lats)>>]
<1> DEFINE N == Len(lats)
           A == 1 .. (N + 1)
           B == 0 .. N
           val(f, i, j) == LET mid == (i + j) \div 2 IN
                           IF i > j THEN 0
                           ELSE IF i = j THEN lats[i] ELSE f[<<i, mid>>] + f[<<mid + 1, j>>]
           step(f) == [p \in A \X B |-> val(f, p[1], p[2])]
           h == CHOOSE f : f = step(f)
           F == [p \in (1 .. N) \X Int |-> p[2] + lats[p[1]]]
<1>1. SumOf(lats) = h[<<1, N>>]
  BY Zenon DEF SumOf
<1>2. N \in Nat /\ \A i \in 1 .. N : lats[i] \in Nat
  OBVIOUS
<1>3. PICK g \in [0 .. N -> Int] :
        g[0] = 0 /\ \A n \in 1 .. N : g[n] = F[<<n, g[n - 1]>>]
  <2>1. F \in [(1 .. N) \X Int -> Int]
    BY <1>2
  <2> DEFINE I == Int
             x == 0
  <2>2. x \in I /\ F \in [(1 .. N) \X I -> I]
    BY <2>1
  <2> HIDE DEF F, N, I, x
  <2>3. F \in Turns(N, I)
    BY <2>2 DEF Turns
  <2>4. \E g : RunOf(N, I, x, F, g)
    BY <1>2, <2>2, <2>3, Iterates
  <2> QED
    BY <2>4 DEF RunOf, x, I
<1>4. ASSUME NEW n \in 1 .. N
      PROVE  g[n] = g[n - 1] + lats[n] /\ g[n] \in Int /\ g[n - 1] \in Int
  <2>1. n - 1 \in 0 .. N /\ n \in 0 .. N
    BY <1>2
  <2>2. g[n - 1] \in Int /\ g[n] \in Int
    BY <1>3, <2>1
  <2>3. F[<<n, g[n - 1]>>] = g[n - 1] + lats[n]
    BY <2>2
  <2> HIDE DEF F
  <2> QED
    BY <1>3, <2>2, <2>3
<1> DEFINE G(i, j) == IF i > j THEN 0 ELSE g[j] - g[i - 1]
           f == [p \in A \X B |-> G(p[1], p[2])]
<1>5. ASSUME NEW i \in A, NEW j \in B
      PROVE  f[<<i, j>>] = G(i, j)
  OBVIOUS
<1>6. ASSUME NEW i \in A, NEW j \in B
      PROVE  G(i, j) = val(f, i, j)
  <2>1. CASE i > j
    BY <2>1
  <2>2. CASE i = j
    <3>1. i \in 1 .. N
      BY <1>2, <2>2
    <3>2. g[i] = g[i - 1] + lats[i] /\ g[i] \in Int /\ g[i - 1] \in Int /\ lats[i] \in Nat
      BY <1>2, <1>4, <3>1
    <3>3. g[j] - g[i - 1] = lats[i]
      BY <2>2, <3>2
    <3>4. ~(i > j)
      BY <1>2, <2>2
    <3> QED
      BY <2>2, <3>3, <3>4
  <2>3. CASE i < j
    <3> DEFINE mid == (i + j) \div 2
    <3>1. i \in Nat /\ j \in Nat /\ i >= 1 /\ j <= N
      BY <1>2
    <3>2. mid \in Nat /\ i <= mid /\ mid < j
      BY <2>3, <3>1, MidIs
    <3> HIDE DEF mid
    <3>3. mid \in B /\ mid + 1 \in A /\ i \in A /\ j \in B /\ (mid + 1) - 1 = mid
          /\ ~(i > mid) /\ ~(mid + 1 > j) /\ ~(i > j) /\ i # j
      BY <1>2, <2>3, <3>1, <3>2
    <3>4. f[<<i, mid>>] = G(i, mid) /\ f[<<mid + 1, j>>] = G(mid + 1, j)
      BY <1>5, <3>3
    <3> HIDE DEF f
    <3>5. f[<<i, mid>>] = g[mid] - g[i - 1] /\ f[<<mid + 1, j>>] = g[j] - g[mid]
      BY <3>3, <3>4
    <3>6. g[mid] \in Int /\ g[i - 1] \in Int /\ g[j] \in Int
      <4>1. i - 1 \in 0 .. N
        BY <1>2, <3>1, <3>2
      <4> QED
        BY <1>3, <3>3, <4>1
    <3>7. f[<<i, mid>>] + f[<<mid + 1, j>>] = g[j] - g[i - 1]
      BY <3>5, <3>6
    <3>8. val(f, i, j) = f[<<i, mid>>] + f[<<mid + 1, j>>]
      BY <3>3 DEF mid
    <3> QED
      BY <3>3, <3>7, <3>8
  <2> QED
    BY <1>2, <2>1, <2>2, <2>3
<1>7. f = step(f)
  <2>1. \A p \in A \X B : f[p] = val(f, p[1], p[2])
    <3> SUFFICES ASSUME NEW i \in A, NEW j \in B
                 PROVE  f[<<i, j>>] = val(f, i, j)
      OBVIOUS
    <3> HIDE DEF f, val, G
    <3> QED
      BY <1>5, <1>6
  <2>2. f = [p \in A \X B |-> f[p]]
    OBVIOUS
  <2> HIDE DEF f, val
  <2> QED
    BY <2>1, <2>2
<1> HIDE DEF step, f
<1>8. h = step(h)
  BY <1>7, Zenon
<1> HIDE DEF h
<1>9. \A i \in A, j \in B : h[<<i, j>>] = val(h, i, j)
  <2> HIDE DEF val, A, B
  <2>1. h = [p \in A \X B |-> val(h, p[1], p[2])]
    BY <1>8, Zenon DEF step
  <2> SUFFICES ASSUME NEW i \in A, NEW j \in B
               PROVE  h[<<i, j>>] = val(h, i, j)
    BY Zenon
  <2>2. <<i, j>> \in A \X B /\ <<i, j>>[1] = i /\ <<i, j>>[2] = j
    OBVIOUS
  <2> QED
    BY <2>1, <2>2
<1>10. SumRun(lats, h)
  BY <1>9, Zenon DEF SumRun
<1> QED
  BY <1>1, <1>10

(* As many samples as there are, none below v and none above w. *)
LEMMA SumBetween ==
  ASSUME NEW lats \in Seq(Nat), NEW v \in Nat, NEW w \in Nat,
         \A i \in 1 .. Len(lats) : v <= lats[i] /\ lats[i] <= w, Len(lats) # 0
  PROVE  /\ SumOf(lats) \in Int
         /\ Len(lats) * v <= SumOf(lats) /\ SumOf(lats) <= Len(lats) * w
<1> DEFINE N == Len(lats)
<1>1. N \in Nat /\ N # 0 /\ \A i \in 1 .. N : lats[i] \in Nat
  OBVIOUS
<1>2. PICK h : SumRun(lats, h) /\ SumOf(lats) = h[<<1, N>>]
  BY SumRunExists
<1> DEFINE Ok(i, j) == /\ h[<<i, j>>] \in Int
                       /\ ((j - i) + 1) * v <= h[<<i, j>>]
                       /\ h[<<i, j>>] <= ((j - i) + 1) * w
           I == {d \in 0 .. N : \A i, j \in 1 .. N : i <= j /\ j - i <= d => Ok(i, j)}
<1>3. ASSUME NEW i \in 1 .. N
      PROVE  Ok(i, i)
  <2>1. i \in 1 .. (Len(lats) + 1) /\ i \in 0 .. Len(lats) /\ ~(i > i) /\ (i - i) + 1 = 1
    BY <1>1
  <2>2. h[<<i, i>>] = lats[i]
    BY <1>2, <2>1 DEF SumRun
  <2>3. lats[i] \in Nat /\ v <= lats[i] /\ lats[i] <= w
    BY <1>1
  <2>4. 1 * v = v /\ 1 * w = w
    OBVIOUS
  <2> QED
    BY <2>1, <2>2, <2>3, <2>4
<1>4. 0 \in I
  <2>1. \A i, j \in 1 .. N : i <= j /\ j - i <= 0 => i = j
    OBVIOUS
  <2>2. 0 \in 0 .. N
    BY <1>1
  <2> HIDE DEF Ok
  <2> QED
    BY <1>3, <2>1, <2>2
<1>5. ASSUME NEW d \in 1 .. N, d - 1 \in I
      PROVE  d \in I
  <2> SUFFICES ASSUME NEW i \in 1 .. N, NEW j \in 1 .. N, i <= j, j - i <= d
               PROVE  Ok(i, j)
    BY <1>1
  <2>0. \A a, b \in 1 .. N : a <= b /\ b - a <= d - 1 => Ok(a, b)
    BY <1>5
  <2>1. CASE i = j
    <3> HIDE DEF Ok
    <3> QED
      BY <1>3, <2>1
  <2>2. CASE i # j
    <3> DEFINE mid == (i + j) \div 2
    <3>1. i \in Nat /\ j \in Nat /\ i >= 1 /\ j <= N /\ i < j /\ d \in Nat /\ d >= 1
      BY <1>1, <2>2
    <3>2. mid \in Nat /\ i <= mid /\ mid < j
      BY <3>1, MidIs
    <3>3. i \in 1 .. (Len(lats) + 1) /\ j \in 0 .. Len(lats) /\ ~(i > j)
      BY <1>1, <3>1
    <3>4. h[<<i, j>>] = h[<<i, mid>>] + h[<<mid + 1, j>>]
      BY <1>2, <2>2, <3>3, Zenon DEF SumRun
    <3> HIDE DEF mid
    <3>5. /\ mid \in 1 .. N /\ mid + 1 \in 1 .. N /\ i <= mid /\ mid + 1 <= j
          /\ mid - i <= d - 1 /\ j - (mid + 1) <= d - 1
      BY <1>1, <3>1, <3>2
    <3>6. Ok(i, mid) /\ Ok(mid + 1, j)
      <4> HIDE DEF Ok
      <4> QED
        BY <2>0, <3>5
    <3> DEFINE x == h[<<i, mid>>]
               y == h[<<mid + 1, j>>]
               a == (mid - i) + 1
               b == (j - (mid + 1)) + 1
    <3>7. /\ x \in Int /\ a * v <= x /\ x <= a * w
          /\ y \in Int /\ b * v <= y /\ y <= b * w
      BY <3>6
    <3>8. a \in Int /\ b \in Int /\ (j - i) + 1 = a + b
      BY <3>1, <3>2
    <3> HIDE DEF x, y, a, b
    <3>9. (a + b) * v = a * v + b * v /\ (a + b) * w = a * w + b * w
          /\ a * v \in Int /\ b * v \in Int /\ a * w \in Int /\ b * w \in Int
      BY <3>8
    <3>10. x + y \in Int /\ (a + b) * v <= x + y /\ x + y <= (a + b) * w
      <4> DEFINE av == a * v
                 bv == b * v
                 aw == a * w
                 bw == b * w
      <4>1. av \in Int /\ bv \in Int /\ aw \in Int /\ bw \in Int
        BY <3>9
      <4>2. x \in Int /\ y \in Int /\ av <= x /\ x <= aw /\ bv <= y /\ y <= bw
        BY <3>7
      <4> HIDE DEF av, bv, aw, bw
      <4>3. x + y \in Int /\ av + bv <= x + y /\ x + y <= aw + bw
        BY <4>1, <4>2
      <4> QED
        BY <3>9, <4>3 DEF av, bv, aw, bw
    <3>11. h[<<i, j>>] = x + y
      BY <3>4, Zenon DEF x, y
    <3> QED
      BY <3>8, <3>10, <3>11
  <2> QED
    BY <2>1, <2>2
<1>6. N \in I
  <2> HIDE DEF I, N
  <2>1. \A n \in 0 .. N : n \in I
    BY <1>1, <1>4, <1>5, Induct
  <2> QED
    BY <1>1, <2>1
<1>7. Ok(1, N)
  <2>1. 1 \in 1 .. N /\ N \in 1 .. N /\ 1 <= N /\ N - 1 <= N
    BY <1>1
  <2> HIDE DEF Ok
  <2> QED
    BY <1>6, <2>1
<1>8. (N - 1) + 1 = N
  BY <1>1
<1> QED
  BY <1>2, <1>7, <1>8

(* The mean lies between the smallest sample and the largest. *)
LEMMA AvgBetween ==
  ASSUME NEW lats \in Seq(Nat), Rising(lats), Len(lats) # 0
  PROVE  lats[1] <= avg(lats) /\ avg(lats) <= lats[Len(lats)] /\ avg(lats) \in Int
<1> DEFINE n == Len(lats)
           v == lats[1]
           w == lats[n]
<1>1. n \in Nat /\ n # 0 /\ 1 \in 1 .. n /\ n \in 1 .. n
  OBVIOUS
<1>2. v \in Nat /\ w \in Nat
  BY <1>1
<1>3. ASSUME NEW i \in 1 .. Len(lats)
      PROVE  v <= lats[i] /\ lats[i] <= w
  <2>1. (i = 1 \/ 1 < i) /\ (i = n \/ i < n) /\ lats[i] \in Nat
    OBVIOUS
  <2> QED
    BY <1>1, <1>2, <2>1 DEF Rising
<1>4. SumOf(lats) \in Int /\ n * v <= SumOf(lats) /\ SumOf(lats) <= n * w
  <2> HIDE DEF v, w
  <2> QED
    BY <1>2, <1>3, SumBetween
<1>5. avg(lats) = SumOf(lats) \div n
  BY <1>1 DEF avg
<1> HIDE DEF n, v, w
<1>6. SumOf(lats) \div n \in Int
  BY <1>1, <1>4, DivIs
<1> QED
  BY <1>1, <1>2, <1>4, <1>5, <1>6, DivBetween DEF v, w, n

(* The place of a percentile: within the samples without the clamp. *)
Shares == {500, 950, 990, 999}
IdxOf(lats, p) == (Len(lats) * p) \div 1000

LEMMA PctIs ==
  ASSUME NEW lats \in Seq(Nat), Len(lats) # 0, NEW p \in Shares
  PROVE  /\ IdxOf(lats, p) \in Nat /\ IdxOf(lats, p) + 1 \in 1 .. Len(lats)
         /\ 1000 * IdxOf(lats, p) <= Len(lats) * p
         /\ Len(lats) * p < 1000 * IdxOf(lats, p) + 1000
         /\ pct(lats, p) = lats[IdxOf(lats, p) + 1]
<1> DEFINE n == Len(lats)
           idx == IdxOf(lats, p)
<1>1. n \in Nat /\ n # 0 /\ p \in Nat /\ p < 1000
  BY DEF Shares
<1>2. n * p \in Nat
  BY <1>1
<1> DEFINE m == n * p
<1>3. m \in Nat /\ idx = m \div 1000
  BY <1>2 DEF IdxOf
<1> HIDE DEF m, idx
<1>4. idx \in Nat /\ 1000 * idx <= m /\ m < 1000 * idx + 1000
  BY <1>3
<1>5. m < n * 1000
  <2> HIDE DEF n
  <2>1. n * p <= n * 999
    BY <1>1
  <2> QED
    BY <1>1, <2>1 DEF m
<1>6. idx < n
  BY <1>1, <1>3, <1>4, <1>5
<1>7. pct(lats, p) = lats[idx + 1]
  <2>1. lats # <<>> /\ ~(idx >= n)
    BY <1>1, <1>4, <1>6
  <2>2. pct(lats, p) = IF lats = <<>> THEN 0
                       ELSE lats[(IF idx >= n THEN n - 1 ELSE idx) + 1]
    BY DEF pct, idx, IdxOf
  <2> HIDE DEF n
  <2> QED
    BY <2>1, <2>2
<1>8. idx + 1 \in 1 .. n
  BY <1>1, <1>4, <1>6
<1> QED
  BY <1>4, <1>7, <1>8 DEF m, idx

(* At least that share of the samples is no larger, at most that share is  *)
(* smaller.                                                                *)
LEMMA PctShares ==
  ASSUME NEW lats \in Seq(Nat), Rising(lats), Len(lats) # 0,
         NEW p \in Shares
  PROVE  /\ UpTo(lats, pct(lats, p)) * 1000 >= p * Len(lats)
         /\ UpTo(lats, pct(lats, p) - 1) * 1000 <= p * Len(lats)
<1> DEFINE n == Len(lats)
           idx == IdxOf(lats, p)
           q == idx + 1
           v == pct(lats, p)
           D == {i \in 1 .. n : lats[i] <= v}
           E == {i \in 1 .. n : lats[i] <= v - 1}
<1>1. /\ idx \in Nat /\ q \in 1 .. n /\ 1000 * idx <= n * p
      /\ n * p < 1000 * idx + 1000 /\ v = lats[q]
  BY PctIs
<1>2. n \in Nat /\ DOMAIN lats = 1 .. n /\ \A i \in 1 .. n : lats[i] \in Nat
  OBVIOUS
<1>0. p \in Nat
  BY DEF Shares
<1> HIDE DEF idx, v
<1>3. UpTo(lats, v) = Cardinality(D) /\ UpTo(lats, v - 1) = Cardinality(E)
  <2>1. UpTo(lats, v) = Cardinality({i \in DOMAIN lats : lats[i] <= v})
        /\ UpTo(lats, v - 1) = Cardinality({i \in DOMAIN lats : lats[i] <= v - 1})
    BY DEF UpTo
  <2> QED
    BY <1>2, <2>1
<1>4. v \in Nat
  BY <1>1, <1>2
<1>5. ASSUME NEW i \in 1 .. n, i <= q
      PROVE  lats[i] <= v
  <2>1. i = q \/ i < q
    BY <1>1, <1>5
  <2> QED
    BY <1>1, <1>2, <2>1 DEF Rising
<1>6. ASSUME NEW i \in 1 .. n, lats[i] <= v - 1
      PROVE  i \in 1 .. idx
  <2>1. ~(q = i) /\ ~(q < i)
    <3>1. ~(v <= lats[i])
      BY <1>2, <1>4, <1>6
    <3> QED
      BY <1>1, <1>2, <3>1 DEF Rising
  <2> QED
    BY <1>1, <1>2, <2>1
<1>7. IsFiniteSet(1 .. n) /\ IsFiniteSet(1 .. idx) /\ Cardinality(1 .. idx) = idx
      /\ IsFiniteSet(1 .. q) /\ Cardinality(1 .. q) = q
  <2>1. n \in Int /\ 1 \in Int /\ idx \in Int /\ q \in Int
    BY <1>1, <1>2
  <2> HIDE DEF n, q
  <2>2. /\ IsFiniteSet(1 .. n) /\ IsFiniteSet(1 .. idx) /\ IsFiniteSet(1 .. q)
        /\ Cardinality(1 .. idx) = IF 1 > idx THEN 0 ELSE idx - 1 + 1
        /\ Cardinality(1 .. q) = IF 1 > q THEN 0 ELSE q - 1 + 1
    BY <2>1, FS_Interval
  <2>3. idx >= 0 /\ q >= 1
    BY <1>1 DEF q
  <2> QED
    BY <2>1, <2>2, <2>3
<1>8. D \subseteq 1 .. n /\ E \subseteq 1 .. idx
  BY <1>6
<1>9. 1 .. q \subseteq D
  <2>1. \A i \in 1 .. q : i \in 1 .. n /\ i <= q
    BY <1>1, <1>2
  <2> QED
    BY <1>5, <2>1
<1> DEFINE N1 == 1 .. n
           Q1 == 1 .. q
           I1 == 1 .. idx
<1>s. /\ IsFiniteSet(N1) /\ IsFiniteSet(I1)
      /\ D \in SUBSET N1 /\ Q1 \in SUBSET D /\ E \in SUBSET I1
  BY <1>7, <1>8, <1>9
<1> HIDE DEF D, E, N1, Q1, I1
<1>10. IsFiniteSet(D)
  BY <1>s, FS_Subset
<1>11. Cardinality(Q1) <= Cardinality(D)
  BY <1>s, <1>10, FS_Subset
<1>12. IsFiniteSet(E) /\ Cardinality(E) <= Cardinality(I1)
  BY <1>s, FS_Subset
<1> DEFINE cd == Cardinality(D)
           ce == Cardinality(E)
<1>13. cd \in Nat /\ ce \in Nat
  BY <1>10, <1>12, FS_CardinalityType
<1>14. q <= cd /\ ce <= idx
  BY <1>7, <1>11, <1>12 DEF Q1, I1
<1> HIDE DEF cd, ce
<1>15. n * p = p * n /\ p \in Nat
  BY <1>0, <1>2
<1> DEFINE m == p * n
<1>16. m \in Int /\ 1000 * idx <= m /\ m < 1000 * idx + 1000
  <2>1. m \in Int
    BY <1>2, <1>15
  <2> HIDE DEF m, n
  <2> QED
    BY <1>1, <1>15, <2>1 DEF m
<1> HIDE DEF m
<1>17. cd * 1000 >= m /\ ce * 1000 <= m
  BY <1>1, <1>13, <1>14, <1>16
<1> QED
  BY <1>3, <1>17 DEF cd, ce, m, v

(* The percentiles are in order, and none is above the largest sample. *)
LEMMA PctOrder ==
  ASSUME NEW lats \in Seq(Nat), Rising(lats), Len(lats) # 0,
         NEW p \in Shares, NEW q \in Shares, p <= q
  PROVE  /\ pct(lats, p) \in Nat /\ pct(lats, p) <= pct(lats, q)
         /\ pct(lats, q) <= lats[Len(lats)]
<1> DEFINE n == Len(lats)
           a == IdxOf(lats, p)
           b == IdxOf(lats, q)
<1>1. /\ a \in Nat /\ a + 1 \in 1 .. n /\ 1000 * a <= n * p
      /\ pct(lats, p) = lats[a + 1]
  BY PctIs
<1>2. /\ b \in Nat /\ b + 1 \in 1 .. n /\ n * q < 1000 * b + 1000
      /\ pct(lats, q) = lats[b + 1]
  BY PctIs
<1>3. n \in Nat /\ p \in Nat /\ q \in Nat /\ n \in 1 .. n /\ n * p \in Int /\ n * q \in Int
  BY DEF Shares
<1> HIDE DEF a, b
<1>4. n * p <= n * q
  <2> HIDE DEF n
  <2> QED
    BY <1>3
<1>5. a <= b
  <2> DEFINE x == n * p
             y == n * q
  <2>1. x \in Int /\ y \in Int /\ x <= y /\ 1000 * a <= x /\ y < 1000 * b + 1000
    BY <1>1, <1>2, <1>3, <1>4
  <2> HIDE DEF x, y
  <2> QED
    BY <1>1, <1>2, <2>1
<1>6. /\ a + 1 = b + 1 \/ a + 1 < b + 1
      /\ b + 1 = n \/ b + 1 < n
  BY <1>1, <1>2, <1>3, <1>5
<1>7. lats[a + 1] \in Nat /\ lats[b + 1] \in Nat /\ lats[n] \in Nat
  <2>1. \A i \in 1 .. n : lats[i] \in Nat
    OBVIOUS
  <2>2. a + 1 \in 1 .. n /\ b + 1 \in 1 .. n /\ n \in 1 .. n
    BY <1>1, <1>2, <1>3
  <2> HIDE DEF n
  <2> QED
    BY <2>1, <2>2
<1>8. lats[a + 1] <= lats[b + 1]
  BY <1>1, <1>2, <1>6, <1>7 DEF Rising
<1>9. lats[b + 1] <= lats[n]
  BY <1>2, <1>3, <1>6, <1>7, SMTT(40) DEF Rising
<1> QED
  BY <1>1, <1>2, <1>7, <1>8, <1>9

(* What the programs report of any sorted list of samples: the percentiles *)
(* that pct takes are in order, as many samples lie up to each as its      *)
(* share asks for, the programs agree on them, and the mean lies between   *)
(* the least and the largest.                                              *)
THEOREM OrderedHolds ==
  ASSUME NEW lats \in Seq(Nat), Rising(lats)
  PROVE  Ordered(lats)
<1> DEFINE n == Len(lats)
           r == finalize(lats, n, 0, 0, 1)
           st == computeStats(lats)
           c == scenarioReport(lats, n, n, 1)
           P5 == pct(lats, 500)
           P95 == pct(lats, 950)
           P99 == pct(lats, 990)
           P999 == pct(lats, 999)
           mx == maxLat(lats)
<1>1. /\ r.p50 = P5 /\ r.p95 = P95 /\ r.p99 = P99 /\ r.maxLat = mx /\ r.avgLat = avg(lats)
      /\ r.p999 = IF n >= 1000 THEN P999 ELSE 0
  BY DEF finalize
<1>2. st.p50 = P5 /\ st.p95 = P95 /\ st.p99 = P99
  BY DEF computeStats
<1>3. c.p50 = P5 /\ c.p95 = P95 /\ c.p99 = P99 /\ c.max = mx
  BY DEF scenarioReport
<1>4. 500 \in Shares /\ 950 \in Shares /\ 990 \in Shares /\ 999 \in Shares
      /\ \A p \in {500, 950, 990} : p \in Shares
  BY DEF Shares
<1>5. n \in Nat /\ (lats = <<>> <=> n = 0)
  OBVIOUS
<1>6. lats # <<>> => mx = lats[n]
  BY DEF maxLat
<1>7. lats = <<>> => P5 = 0 /\ P95 = 0 /\ P99 = 0 /\ mx = 0
  BY Zenon DEF pct, maxLat
<1>8. ASSUME lats # <<>>
      PROVE  /\ P5 <= P95 /\ P95 <= P99 /\ P99 <= mx /\ P99 <= P999 /\ P999 <= mx
  <2>1. n # 0
    BY <1>5, <1>8
  <2>2. P5 <= P95 /\ P95 <= P99 /\ P99 <= P999 /\ P99 <= lats[n] /\ P999 <= lats[n]
    BY <1>4, <2>1, PctOrder
  <2> QED
    BY <1>6, <1>8, <2>2
<1>9. concurrentStats(lats, 1).p99 = P99
  <2>1. concurrentStats(lats, 1).p99 = IF lats = <<>> THEN 0 ELSE lats[IdxOf(lats, 990) + 1]
    BY DEF concurrentStats, IdxOf
  <2>2. lats # <<>> => P99 = lats[IdxOf(lats, 990) + 1]
    BY <1>4, <1>5, PctIs
  <2> QED
    BY <1>7, <2>1, <2>2
<1>10. lats # <<>> => lats[1] <= avg(lats) /\ avg(lats) <= mx
  BY <1>5, <1>6, AvgBetween
<1>11. ASSUME lats # <<>>, NEW p \in {500, 950, 990}
       PROVE  /\ UpTo(lats, pct(lats, p)) * 1000 >= p * Len(lats)
              /\ UpTo(lats, pct(lats, p) - 1) * 1000 <= p * Len(lats)
  <2>1. p \in Shares /\ Len(lats) # 0
    BY <1>4, <1>5, <1>11
  <2> QED
    BY <2>1, PctShares
<1> HIDE DEF r, st, c, P5, P95, P99, P999, mx, n
<1>12. r.p50 <= r.p95 /\ r.p95 <= r.p99 /\ r.p99 <= r.maxLat
  <2>1. 0 <= 0
    OBVIOUS
  <2> QED
    BY <1>1, <1>7, <1>8, <2>1, ZenonT(60)
<1>13. r.p999 > 0 => r.p99 <= r.p999 /\ r.p999 <= r.maxLat
  <2>1. CASE n >= 1000
    <3>1. lats # <<>>
      BY <1>5, <2>1
    <3> QED
      BY <1>1, <1>8, <2>1, <3>1
  <2>2. CASE ~(n >= 1000)
    <3>1. r.p999 = 0
      BY <1>1, <2>2
    <3> QED
      BY <3>1
  <2> QED
    BY <2>1, <2>2
<1>14. /\ <<st.p50, st.p95, st.p99>> = <<r.p50, r.p95, r.p99>>
       /\ <<c.p50, c.p95, c.p99, c.max>> = <<r.p50, r.p95, r.p99, r.maxLat>>
       /\ concurrentStats(lats, 1).p99 = r.p99
  BY <1>1, <1>2, <1>3, <1>9
<1>15. lats # <<>> => lats[1] <= r.avgLat /\ r.avgLat <= r.maxLat
  BY <1>1, <1>10
<1> QED
  BY <1>11, <1>12, <1>13, <1>14, <1>15, ZenonT(60) DEF Ordered, r, st, c, n

LEMMA AdjacentRises ==
  ASSUME NEW s \in Seq(Nat), \A i \in 1 .. (Len(s) - 1) : s[i] <= s[i + 1]
  PROVE  Rising(s)
<1> DEFINE n == Len(s)
           I == {d \in 0 .. n : \A i, j \in 1 .. n : i < j /\ j <= d => s[i] <= s[j]}
<1>1. n \in Nat /\ \A i \in 1 .. n : s[i] \in Nat
  OBVIOUS
<1>2. 0 \in I
  BY <1>1
<1>3. ASSUME NEW d \in 1 .. n, d - 1 \in I
      PROVE  d \in I
  <2> SUFFICES ASSUME NEW i \in 1 .. n, NEW j \in 1 .. n, i < j, j <= d
               PROVE  s[i] <= s[j]
    BY <1>1
  <2>1. \A a, b \in 1 .. n : a < b /\ b <= d - 1 => s[a] <= s[b]
    BY <1>3
  <2>2. CASE j <= d - 1
    BY <2>1, <2>2
  <2>3. CASE j = d
    <3>1. /\ j - 1 \in 1 .. (Len(s) - 1) /\ (j - 1) + 1 = j /\ j - 1 <= d - 1
          /\ i = j - 1 \/ i < j - 1
      BY <1>1, <2>3
    <3>2. j - 1 \in 1 .. n
      BY <1>1, <3>1
    <3>3. s[j - 1] <= s[j]
      BY <3>1
    <3>4. i < j - 1 => s[i] <= s[j - 1]
      BY <2>1, <3>1, <3>2
    <3>5. s[i] \in Nat /\ s[j - 1] \in Nat /\ s[j] \in Nat
      BY <1>1, <3>2
    <3> HIDE DEF n
    <3> QED
      BY <3>1, <3>3, <3>4, <3>5
  <2> QED
    BY <1>1, <2>2, <2>3
<1>4. n \in I
  <2> HIDE DEF I, n
  <2>1. \A k \in 0 .. n : k \in I
    BY <1>1, <1>2, <1>3, Induct
  <2> QED
    BY <1>1, <2>1
<1>5. \A i, j \in 1 .. n : i < j => s[i] <= s[j]
  BY <1>1, <1>4
<1> QED
  BY <1>5 DEF Rising

(* What the comparisons use of a result. *)
IsResult(r) ==
  /\ r.rps \in Nat /\ r.mbps \in Nat /\ r.avgLat \in Nat
  /\ r.p50 \in Nat /\ r.p99 \in Nat
  /\ r.total \in Nat /\ r.errors \in Nat /\ r.ok = r.total - r.errors

LEMMA PerSecondIs ==
  ASSUME NEW n \in Nat, NEW t \in Nat
  PROVE  PerSecond(n, t) \in Nat
<1> DEFINE m == n * 1000000
<1>1. m \in Nat
  OBVIOUS
<1>2. PerSecond(n, t) = IF t > 0 THEN m \div t ELSE 0
  BY DEF PerSecond
<1> HIDE DEF m
<1>3. ASSUME t > 0
      PROVE  m \div t \in Nat
  <2>1. m \div t \in Int /\ m < t * (m \div t) + t
    BY <1>1, <1>3, DivIs
  <2> DEFINE q == m \div t
  <2>2. q \in Int /\ m < t * q + t
    BY <2>1
  <2> HIDE DEF q
  <2>3. t * (q + 1) = t * q + t
    BY <2>2, Distributes
  <2>4. ASSUME q + 1 <= 0
        PROVE  t * (q + 1) <= 0
    BY <2>2, <2>4
  <2>5. q \in Nat
    BY <1>1, <2>2, <2>3, <2>4
  <2> QED
    BY <2>5 DEF q
<1> QED
  BY <1>2, <1>3

(* A phase with sorted samples and no more errors than requests. *)
LEMMA FinalizeIs ==
  ASSUME NEW lats \in Seq(Nat), Rising(lats), NEW total \in Nat, NEW errors \in 0 .. total,
         NEW bytes \in Nat, NEW t \in Nat
  PROVE  IsResult(finalize(lats, total, errors, bytes, t))
<1> DEFINE r == finalize(lats, total, errors, bytes, t)
<1>1. total - errors \in Nat /\ errors \in Nat
  OBVIOUS
<1>2. PerSecond(total - errors, t) \in Nat /\ PerSecond(bytes, t) \in Nat
  BY <1>1, PerSecondIs
<1>3. 500 \in Shares /\ 990 \in Shares
  BY DEF Shares
<1>4. pct(lats, 500) \in Nat /\ pct(lats, 990) \in Nat /\ avg(lats) \in Nat
  <2>1. CASE lats = <<>>
    BY <2>1 DEF pct, avg
  <2>2. CASE lats # <<>>
    <3>1. Len(lats) # 0 /\ lats[1] \in Nat
      BY <2>2
    <3>2. pct(lats, 500) \in Nat /\ pct(lats, 990) \in Nat
      BY <1>3, <3>1, PctOrder
    <3>3. lats[1] <= avg(lats) /\ avg(lats) \in Int
      BY <3>1, AvgBetween
    <3> QED
      BY <3>1, <3>2, <3>3
  <2> QED
    BY <2>1, <2>2
<1>5. /\ r.rps = PerSecond(total - errors, t) /\ r.mbps = PerSecond(bytes, t)
      /\ r.avgLat = avg(lats) /\ r.p50 = pct(lats, 500) /\ r.p99 = pct(lats, 990)
      /\ r.total = total /\ r.errors = errors /\ r.ok = total - errors
  BY DEF finalize
<1> HIDE DEF r
<1> QED
  BY <1>1, <1>2, <1>4, <1>5 DEF IsResult, r

(* At most one side of a metric is marked: the better one. *)
LEMMA MarkedIs ==
  ASSUME NEW x \in Nat, NEW y \in Nat, NEW higher \in BOOLEAN
  PROVE  Marked(x, y, higher) =
           IF x = y THEN {}
           ELSE {IF (higher /\ x > y) \/ (~higher /\ x < y) THEN "Crystal" ELSE "Go"}
<1>1. "Crystal" # "Go"
  OBVIOUS
<1>2. CASE x = y
  <2>1. ~colorWinner(x, y, higher) /\ ~colorWinner(y, x, higher)
    BY <1>2 DEF colorWinner
  <2> QED
    BY <1>1, <1>2, <2>1, Zenon DEF Marked
<1>3. CASE x # y /\ ((higher /\ x > y) \/ (~higher /\ x < y))
  <2>1. colorWinner(x, y, higher) /\ ~colorWinner(y, x, higher)
    BY <1>3 DEF colorWinner
  <2>2. Marked(x, y, higher) = {"Crystal"}
    BY <1>1, <2>1 DEF Marked
  <2> QED
    BY <1>3, <2>2
<1>4. CASE x # y /\ ~((higher /\ x > y) \/ (~higher /\ x < y))
  <2>1. ~colorWinner(x, y, higher) /\ colorWinner(y, x, higher)
    BY <1>4 DEF colorWinner
  <2>2. Marked(x, y, higher) = {"Go"}
    BY <1>1, <2>1 DEF Marked
  <2> QED
    BY <1>4, <2>2
<1> QED
  BY <1>2, <1>3, <1>4

LEMMA AtMostOne ==
  ASSUME NEW T, NEW x, T = {} \/ T = {x}
  PROVE  Cardinality(T) <= 1
<1>1. Cardinality({}) = 0
  BY FS_EmptySet
<1>2. Cardinality({x}) = 1
  BY FS_Singleton
<1> QED
  BY <1>1, <1>2

(* Every row of the summary is counted for one side. *)
LEMMA SummaryCounts ==
  ASSUME NEW rows, NEW n \in Nat, DOMAIN rows = 1 .. n, Len(rows) = n
  PROVE  printSummary(rows).crystal + printSummary(rows).go = n
<1> DEFINE D == 1 .. n
           won == {i \in D : LET r == rows[i] IN
                             IF r.higher THEN r.cr > r.go ELSE r.cr < r.go}
           k == Cardinality(won)
<1>1. printSummary(rows) = [crystal |-> k, go |-> n - k]
  BY Zenon DEF printSummary
<1>2. IsFiniteSet(D) /\ won \in SUBSET D
  <2>1. IsFiniteSet(1 .. n)
    BY FS_Interval
  <2> QED
    BY <2>1
<1> HIDE DEF D, won
<1>3. IsFiniteSet(won)
  BY <1>2, FS_Subset
<1>4. k \in Nat
  BY <1>3, FS_CardinalityType
<1> HIDE DEF k
<1> QED
  BY <1>1, <1>4

(* The change against the first binary is positive only for a larger p50. *)
LEMMA TableChange ==
  ASSUME NEW x \in Nat, NEW y \in Nat, printTable(<<x, y>>)[2] > 0
  PROVE  ~(y <= x)
<1> DEFINE ps == <<x, y>>
<1>1. DOMAIN ps = 1 .. 2 /\ ps[1] = x /\ ps[2] = y /\ 2 \in 1 .. 2
  OBVIOUS
<1>2. printTable(ps)[2] = IF x = 0 THEN 0 ELSE ((y - x) * 100) \div x
  BY <1>1 DEF printTable
<1> DEFINE a == (y - x) * 100
           q == a \div x
<1>3. x # 0
  BY <1>2
<1>4. a \in Int /\ (y <= x => a <= 0)
  OBVIOUS
<1> HIDE DEF a, ps
<1>5. q \in Int /\ x * q <= a
  BY <1>3, <1>4, DivIs
<1>6. q > 0
  BY <1>2, <1>3 DEF ps, a
<1> HIDE DEF q
<1>7. x * q > 0
  BY <1>3, <1>5, <1>6
<1> QED
  BY <1>4, <1>5, <1>7

(* A side that answered nothing is warned of. *)
LEMMA WarnedOf ==
  ASSUME NEW r, IsResult(r), r.total > 0, r.ok = 0
  PROVE  HighErrorRate(r)
<1> DEFINE t == r.total
           e == r.errors
<1>1. t \in Nat /\ e \in Nat /\ t > 0 /\ e = t
  BY DEF IsResult
<1> HIDE DEF t, e
<1>2. e * 100 > 20 * (IF t > 1 THEN t ELSE 1)
  BY <1>1
<1> QED
  BY <1>2 DEF HighErrorRate, t, e

(* The comparisons of any two results: printPhaseComparison marks at most  *)
(* one side, agrees with printReport, and warns of a side that answered    *)
(* nothing.                                                                *)
THEOREM ComparedHolds ==
  ASSUME NEW cr, NEW go_, IsResult(cr), IsResult(go_)
  PROVE  Compared(cr, go_)
<1> DEFINE c == printPhaseComparison(cr, go_)
           h == printReport(cr, go_)
           rows == << [cr |-> cr.rps, go |-> go_.rps, higher |-> TRUE],
                      [cr |-> cr.p99, go |-> go_.p99, higher |-> FALSE] >>
           a == cr.avgLat
           b == go_.avgLat
           x == cr.rps
           y == go_.rps
           u == cr.mbps
           v == go_.mbps
           low == IF a < b THEN "Crystal" ELSE "Go"
           fast == IF x > y THEN "Crystal" ELSE "Go"
           wide == IF u > v THEN "Crystal" ELSE "Go"
<1>1. a \in Nat /\ b \in Nat /\ x \in Nat /\ y \in Nat /\ u \in Nat /\ v \in Nat
      /\ cr.p50 \in Nat /\ go_.p50 \in Nat
  BY DEF IsResult
<1>2. /\ c.latency = IF a > 0 \/ b > 0 THEN Marked(a, b, FALSE) ELSE {}
      /\ c.rps = IF x > 0 \/ y > 0 THEN Marked(x, y, TRUE) ELSE {}
      /\ c.mbps = IF u > 0 \/ v > 0 THEN Marked(u, v, TRUE) ELSE {}
      /\ c.winner = IF x > 0 /\ y > 0 THEN {fast} ELSE {}
      /\ c.warned = {side \in {"Crystal", "Go"} :
                       HighErrorRate(IF side = "Crystal" THEN cr ELSE go_)}
  BY DEF printPhaseComparison
<1>3. h # <<>> => h[1] = low /\ h[2] = fast /\ h[3] = wide
  <2>1. h = IF b > 0 /\ a > 0 THEN <<low, fast, wide>> ELSE <<>>
    BY Zenon DEF printReport
  <2> HIDE DEF h, low, fast, wide
  <2> QED
    BY <2>1
<1>4. "Crystal" # "Go"
  OBVIOUS
<1> HIDE DEF a, b, x, y, u, v, c, h
<1>5. /\ Marked(a, b, FALSE) = IF a = b THEN {} ELSE {low}
      /\ Marked(x, y, TRUE) = IF x = y THEN {} ELSE {fast}
      /\ Marked(u, v, TRUE) = IF u = v THEN {} ELSE {wide}
  BY <1>1, MarkedIs
<1> HIDE DEF low, fast, wide
<1>6. /\ c.latency = {} \/ c.latency = {low}
      /\ c.rps = {} \/ c.rps = {fast}
      /\ c.mbps = {} \/ c.mbps = {wide}
      /\ c.winner = {} \/ c.winner = {fast}
  BY <1>2, <1>5, Zenon
<1>7. \A m \in {c.latency, c.rps, c.mbps} : Cardinality(m) <= 1
  <2>1. Cardinality(c.latency) <= 1
    BY <1>6, AtMostOne
  <2>2. Cardinality(c.rps) <= 1
    BY <1>6, AtMostOne
  <2>3. Cardinality(c.mbps) <= 1
    BY <1>6, AtMostOne
  <2> QED
    BY <2>1, <2>2, <2>3, Zenon
<1>8. c.winner # {} /\ c.rps # {} => c.winner = c.rps
  BY <1>6, Zenon
<1>9. h # <<>> => /\ c.latency # {} => c.latency = {h[1]}
                  /\ c.rps # {} => c.rps = {h[2]}
                  /\ c.mbps # {} => c.mbps = {h[3]}
  BY <1>3, <1>6, Zenon
<1>10. cr.total > 0 /\ cr.ok = 0 => "Crystal" \in c.warned
  <2> SUFFICES ASSUME cr.total > 0, cr.ok = 0
               PROVE  "Crystal" \in c.warned
    OBVIOUS
  <2>1. HighErrorRate(cr)
    BY WarnedOf
  <2> QED
    BY <1>2, <2>1, Zenon
<1>11. go_.total > 0 /\ go_.ok = 0 => "Go" \in c.warned
  <2> SUFFICES ASSUME go_.total > 0, go_.ok = 0
               PROVE  "Go" \in c.warned
    OBVIOUS
  <2>1. HighErrorRate(go_)
    BY WarnedOf
  <2> QED
    BY <1>2, <1>4, <2>1, Zenon
<1>12. printSummary(rows).crystal + printSummary(rows).go = 2
  <2>1. DOMAIN rows = 1 .. 2 /\ Len(rows) = 2
    OBVIOUS
  <2> HIDE DEF rows
  <2> QED
    BY <2>1, SummaryCounts
<1>13. printTable(<<cr.p50, go_.p50>>)[2] > 0 => ~WinsByP50(go_, cr)
  BY <1>1, TableChange DEF WinsByP50
<1> QED
  BY <1>7, <1>8, <1>9, <1>10, <1>11, <1>12, <1>13, Zenon DEF Compared, c, h


-----------------------------------------------------------------------------
(* The codecs. *)

(* 1 << n, one doubling after the other. *)
LEMMA Pow2Run ==
  ASSUME NEW n \in Nat
  PROVE  \E h : /\ h[0] = 1 /\ \A k \in 1 .. n : h[k] = 2 * h[k - 1]
                /\ \A k \in 0 .. n : h[k] \in Nat
                /\ Pow2(n) = h[n]
<1> DEFINE step(f) == [k \in 0 .. n |-> IF k = 0 THEN 1 ELSE 2 * f[k - 1]]
           h == CHOOSE f : f = step(f)
           F == [p \in (1 .. n) \X Nat |-> 2 * p[2]]
<1>1. Pow2(n) = h[n]
  BY Zenon DEF Pow2
<1>2. PICK g \in [0 .. n -> Nat] :
        g[0] = 1 /\ \A k \in 1 .. n : g[k] = F[<<k, g[k - 1]>>]
  <2> DEFINE T == Nat
             x == 1
  <2>2. x \in T /\ F \in [(1 .. n) \X T -> T]
    OBVIOUS
  <2> HIDE DEF F, T, x
  <2>3. F \in Turns(n, T)
    BY <2>2 DEF Turns
  <2>4. \E g : RunOf(n, T, x, F, g)
    BY <2>2, <2>3, Iterates
  <2> QED
    BY <2>4 DEF RunOf, x, T
<1>3. ASSUME NEW k \in 1 .. n
      PROVE  g[k] = 2 * g[k - 1]
  <2>1. k - 1 \in 0 .. n
    OBVIOUS
  <2>2. g[k - 1] \in Nat
    BY <1>2, <2>1
  <2>3. F[<<k, g[k - 1]>>] = 2 * g[k - 1]
    BY <2>2
  <2> HIDE DEF F
  <2> QED
    BY <1>2, <2>3
<1>4. g = step(g)
  <2>1. \A k \in 0 .. n : g[k] = IF k = 0 THEN 1 ELSE 2 * g[k - 1]
    BY <1>2, <1>3
  <2>2. g = [k \in 0 .. n |-> g[k]]
    BY <1>2
  <2> QED
    BY <2>1, <2>2
<1>5. h = step(h)
  <2> HIDE DEF step
  <2> QED
    BY <1>4, Zenon
<1> HIDE DEF h
<1>6. h[0] = 1 /\ \A k \in 1 .. n : h[k] = 2 * h[k - 1]
  <2>1. \A k \in 0 .. n : h[k] = IF k = 0 THEN 1 ELSE 2 * h[k - 1]
    BY <1>5, Zenon
  <2> QED
    BY <2>1
<1> DEFINE I == {k \in 0 .. n : h[k] \in Nat}
<1>7. 0 \in I
  BY <1>6
<1>8. ASSUME NEW k \in 1 .. n, k - 1 \in I
      PROVE  k \in I
  BY <1>6, <1>8
<1> HIDE DEF I
<1>9. \A k \in 0 .. n : k \in I
  BY <1>7, <1>8, Induct
<1> QED
  BY <1>1, <1>6, <1>9 DEF I

LEMMA Pow2Next ==
  ASSUME NEW n \in Nat
  PROVE  Pow2(n) \in Nat /\ Pow2(n) # 0 /\ Pow2(n + 1) = 2 * Pow2(n)
<1>0. n + 1 \in Nat
  OBVIOUS
<1>1. PICK g : /\ g[0] = 1 /\ \A k \in 1 .. n : g[k] = 2 * g[k - 1]
               /\ \A k \in 0 .. n : g[k] \in Nat
               /\ Pow2(n) = g[n]
  BY Pow2Run
<1>2. PICK h : /\ h[0] = 1 /\ \A k \in 1 .. (n + 1) : h[k] = 2 * h[k - 1]
               /\ \A k \in 0 .. (n + 1) : h[k] \in Nat
               /\ Pow2(n + 1) = h[n + 1]
  BY <1>0, Pow2Run
<1> DEFINE I == {k \in 0 .. n : g[k] = h[k] /\ g[k] # 0}
<1>3. 0 \in I
  BY <1>1, <1>2
<1>4. ASSUME NEW k \in 1 .. n, k - 1 \in I
      PROVE  k \in I
  <2>1. g[k] = 2 * g[k - 1] /\ h[k] = 2 * h[k - 1] /\ g[k - 1] \in Nat
    BY <1>1, <1>2
  <2>2. g[k - 1] = h[k - 1] /\ g[k - 1] # 0
    BY <1>4
  <2> QED
    BY <2>1, <2>2
<1> HIDE DEF I
<1>5. \A k \in 0 .. n : k \in I
  BY <1>3, <1>4, Induct
<1>6. g[n] = h[n] /\ g[n] # 0 /\ g[n] \in Nat
  BY <1>1, <1>5 DEF I
<1>7. h[n + 1] = 2 * h[n]
  <2>1. n + 1 \in 1 .. (n + 1) /\ (n + 1) - 1 = n
    OBVIOUS
  <2> QED
    BY <1>2, <2>1
<1> QED
  BY <1>1, <1>2, <1>6, <1>7

(* The powers the codecs use. *)
LEMMA Powers ==
  /\ Pow2(0) = 1 /\ Pow2(1) = 2 /\ Pow2(2) = 4 /\ Pow2(3) = 8 /\ Pow2(7) = 128
  /\ Pow2(8) = 256 /\ Pow2(14) = 16384 /\ Pow2(16) = 65536 /\ Pow2(21) = 2097152
  /\ Pow2(24) = 16777216 /\ Pow2(28) = 268435456
<1>0. Pow2(0) = 1
  <2>1. PICK h : h[0] = 1 /\ Pow2(0) = h[0]
    BY Pow2Run
  <2> QED
    BY <2>1
<1>1. \A n \in Nat : Pow2(n) \in Nat /\ Pow2(n + 1) = 2 * Pow2(n)
  BY Pow2Next
<1>2. Pow2(1) = 2 /\ Pow2(2) = 4 /\ Pow2(3) = 8 /\ Pow2(4) = 16
  <2>1. Pow2(0 + 1) = 2 * Pow2(0) /\ Pow2(1 + 1) = 2 * Pow2(1)
        /\ Pow2(2 + 1) = 2 * Pow2(2) /\ Pow2(3 + 1) = 2 * Pow2(3)
    BY <1>1
  <2>2. 0 + 1 = 1 /\ 1 + 1 = 2 /\ 2 + 1 = 3 /\ 3 + 1 = 4
    OBVIOUS
  <2> QED
    BY <1>0, <2>1, <2>2
<1>3. Pow2(7) = 128 /\ Pow2(8) = 256
  <2>1. Pow2(4 + 1) = 2 * Pow2(4) /\ Pow2(5 + 1) = 2 * Pow2(5)
        /\ Pow2(6 + 1) = 2 * Pow2(6) /\ Pow2(7 + 1) = 2 * Pow2(7)
    BY <1>1
  <2>2. 4 + 1 = 5 /\ 5 + 1 = 6 /\ 6 + 1 = 7 /\ 7 + 1 = 8
    OBVIOUS
  <2> QED
    BY <1>2, <2>1, <2>2
<1>4. Pow2(12) = 4096
  <2>1. Pow2(8 + 1) = 2 * Pow2(8) /\ Pow2(9 + 1) = 2 * Pow2(9)
        /\ Pow2(10 + 1) = 2 * Pow2(10) /\ Pow2(11 + 1) = 2 * Pow2(11)
    BY <1>1
  <2>2. 8 + 1 = 9 /\ 9 + 1 = 10 /\ 10 + 1 = 11 /\ 11 + 1 = 12
    OBVIOUS
  <2> QED
    BY <1>3, <2>1, <2>2
<1>5. Pow2(14) = 16384 /\ Pow2(16) = 65536
  <2>1. Pow2(12 + 1) = 2 * Pow2(12) /\ Pow2(13 + 1) = 2 * Pow2(13)
        /\ Pow2(14 + 1) = 2 * Pow2(14) /\ Pow2(15 + 1) = 2 * Pow2(15)
    BY <1>1
  <2>2. 12 + 1 = 13 /\ 13 + 1 = 14 /\ 14 + 1 = 15 /\ 15 + 1 = 16
    OBVIOUS
  <2> QED
    BY <1>4, <2>1, <2>2
<1>6. Pow2(20) = 1048576
  <2>1. Pow2(16 + 1) = 2 * Pow2(16) /\ Pow2(17 + 1) = 2 * Pow2(17)
        /\ Pow2(18 + 1) = 2 * Pow2(18) /\ Pow2(19 + 1) = 2 * Pow2(19)
    BY <1>1
  <2>2. 16 + 1 = 17 /\ 17 + 1 = 18 /\ 18 + 1 = 19 /\ 19 + 1 = 20
    OBVIOUS
  <2> QED
    BY <1>5, <2>1, <2>2
<1>7. Pow2(21) = 2097152 /\ Pow2(24) = 16777216
  <2>1. Pow2(20 + 1) = 2 * Pow2(20) /\ Pow2(21 + 1) = 2 * Pow2(21)
        /\ Pow2(22 + 1) = 2 * Pow2(22) /\ Pow2(23 + 1) = 2 * Pow2(23)
    BY <1>1
  <2>2. 20 + 1 = 21 /\ 21 + 1 = 22 /\ 22 + 1 = 23 /\ 23 + 1 = 24
    OBVIOUS
  <2> QED
    BY <1>6, <2>1, <2>2
<1>8. Pow2(28) = 268435456
  <2>1. Pow2(24 + 1) = 2 * Pow2(24) /\ Pow2(25 + 1) = 2 * Pow2(25)
        /\ Pow2(26 + 1) = 2 * Pow2(26) /\ Pow2(27 + 1) = 2 * Pow2(27)
    BY <1>1
  <2>2. 24 + 1 = 25 /\ 25 + 1 = 26 /\ 26 + 1 = 27 /\ 27 + 1 = 28
    OBVIOUS
  <2> QED
    BY <1>7, <2>1, <2>2
<1> QED
  BY <1>0, <1>2, <1>3, <1>5, <1>7, <1>8

(* Two numbers that end alike and lie less than a window apart are equal.  *)
LEMMA CloseMultiple ==
  ASSUME NEW k \in Int, NEW W \in Nat, W # 0, - W < k * W, k * W < W
  PROVE  k = 0
<1>1. k >= 1 => k * W >= W
  OBVIOUS
<1>2. k <= -1 => k * W <= - W
  OBVIOUS
<1> QED
  BY <1>1, <1>2

(* decode_packet_number: the candidate, and a number within half a window. *)
Candidate(E, W, pn, c) == c = (E - (E % W)) + (pn % W)
NearExpected(E, H, W, pn) == H # 0 /\ W = 2 * H /\ E - H + 1 <= pn /\ pn <= E + H

LEMMA Completed ==
  ASSUME NEW E \in Nat, NEW H \in Nat, NEW W \in Nat, NEW pn \in Nat, NEW c \in Int,
         NearExpected(E, H, W, pn), Candidate(E, W, pn, c)
  PROVE  /\ c + H <= E => c + W = pn
         /\ c > E + H => c >= W /\ c - W = pn
         /\ ~(c + H <= E) /\ ~(c > E + H) => c = pn
<1> USE DEF NearExpected, Candidate
<1> DEFINE a == E \div W
           b == pn \div W
           x == E % W
           t == pn % W
<1>1. /\ a \in Int /\ x \in Nat /\ x < W /\ E = a * W + x
      /\ b \in Int /\ t \in Nat /\ t < W /\ pn = b * W + t
  OBVIOUS
<1> DEFINE k == a - b
<1>2. c = a * W + t
  BY <1>1
<1> HIDE DEF a, b, x, t
<1>3. k \in Int /\ k * W = a * W - b * W /\ a * W \in Int /\ b * W \in Int
  BY <1>1
<1>4. c - pn = k * W /\ k * W \in Int
  <2> DEFINE aw == a * W
             bw == b * W
  <2>1. /\ aw \in Int /\ bw \in Int /\ c = aw + t /\ pn = bw + t /\ t \in Nat
        /\ k * W = aw - bw
    BY <1>1, <1>2, <1>3
  <2> HIDE DEF aw, bw, k
  <2> QED
    BY <2>1
<1>5. (k + 1) * W = k * W + W /\ (k - 1) * W = k * W - W
  BY <1>3
<1> HIDE DEF k
<1>6. ASSUME c + H <= E
      PROVE  c + W = pn
  <2>1. (k + 1) * W < W
    BY <1>1, <1>4, <1>5, <1>6
  <2>2. - W < (k + 1) * W
    <3>1. pn < c + W + W
      BY <1>1, <1>2
    <3> QED
      BY <1>3, <1>4, <1>5, <3>1
  <2>3. k + 1 = 0
    BY <1>3, <2>1, <2>2, CloseMultiple
  <2>4. (k + 1) * W = 0
    BY <2>3
  <2> QED
    BY <1>3, <1>4, <1>5, <2>4
<1>7. ASSUME c > E + H
      PROVE  c >= W /\ c - W = pn
  <2>1. - W < (k - 1) * W
    BY <1>1, <1>4, <1>5, <1>7
  <2>2. (k - 1) * W < W
    BY <1>1, <1>2, <1>3, <1>4, <1>5
  <2>3. k - 1 = 0
    BY <1>3, <2>1, <2>2, CloseMultiple
  <2>4. (k - 1) * W = 0
    BY <2>3
  <2> QED
    BY <1>3, <1>4, <1>5, <2>4
<1>8. ASSUME ~(c + H <= E), ~(c > E + H)
      PROVE  c = pn
  <2>1. - W < k * W /\ k * W < W
    BY <1>4, <1>8
  <2>2. k = 0
    BY <1>3, <2>1, CloseMultiple
  <2>3. k * W = 0
    BY <2>2
  <2> QED
    BY <1>4, <2>3
<1> QED
  BY <1>6, <1>7, <1>8

(* decode_packet_number completes a truncated packet number to the one     *)
(* that was sent, for every window and whatever was received before.       *)
THEOREM PacketNumbersComplete ==
  ASSUME NEW largest_pn \in Nat, NEW pn_nbits \in Nat \ {0}
  PROVE  NumbersAgree(largest_pn, pn_nbits)
<1> DEFINE E == largest_pn + 1
           W == Pow2(pn_nbits)
           H == W \div 2
<1>1. E \in Nat
  OBVIOUS
<1>2. W \in Nat /\ H \in Nat /\ H # 0 /\ W = 2 * H
  <2>1. pn_nbits - 1 \in Nat /\ (pn_nbits - 1) + 1 = pn_nbits
    OBVIOUS
  <2>2. W = 2 * Pow2(pn_nbits - 1) /\ Pow2(pn_nbits - 1) \in Nat /\ Pow2(pn_nbits - 1) # 0
    BY <2>1, Pow2Next
  <2> HIDE DEF W
  <2> QED
    BY <2>2
<1> SUFFICES ASSUME NEW pn \in (E - H + 1) .. (E + H), pn >= 0
             PROVE  decode_packet_number(largest_pn, pn % W, pn_nbits) = pn
  BY DEF NumbersAgree
<1> DEFINE c == (E - (E % W)) + (pn % W)
<1>3. decode_packet_number(largest_pn, pn % W, pn_nbits)
        = IF c + H <= E THEN c + W ELSE IF c > E + H /\ c >= W THEN c - W ELSE c
  BY DEF decode_packet_number
<1> HIDE DEF E, W, H
<1>4. pn \in Nat /\ NearExpected(E, H, W, pn) /\ c \in Int
  BY <1>1, <1>2 DEF NearExpected
<1>5. Candidate(E, W, pn, c)
  BY DEF Candidate
<1> HIDE DEF c
<1>6. /\ c + H <= E => c + W = pn
      /\ c > E + H => c >= W /\ c - W = pn
      /\ ~(c + H <= E) /\ ~(c > E + H) => c = pn
  BY <1>1, <1>2, <1>4, <1>5, Completed
<1> QED
  BY <1>3, <1>6

-----------------------------------------------------------------------------
(* Variable-length integers. *)

(* The value of big-endian bytes, byte after byte. *)
ByteRun(s, n, h) ==
  /\ h[0] = 0 /\ \A i \in 1 .. n : h[i] = h[i - 1] * 256 + s[i]
  /\ FromBigEndian(s) = h[n]

LEMMA BigEndianRun ==
  ASSUME NEW s \in Seq(Nat)
  PROVE  \E h : ByteRun(s, Len(s), h)
<1> DEFINE n == Len(s)
           step(f) == [k \in 0 .. n |-> IF k = 0 THEN 0 ELSE f[k - 1] * 256 + s[k]]
           h == CHOOSE f : f = step(f)
           F == [p \in (1 .. n) \X Nat |-> p[2] * 256 + s[p[1]]]
<1>0. n \in Nat /\ \A i \in 1 .. n : s[i] \in Nat
  OBVIOUS
<1>1. FromBigEndian(s) = h[n]
  BY Zenon DEF FromBigEndian
<1>2. PICK g \in [0 .. n -> Nat] :
        g[0] = 0 /\ \A k \in 1 .. n : g[k] = F[<<k, g[k - 1]>>]
  <2> DEFINE T == Nat
             x == 0
  <2>2. x \in T /\ F \in [(1 .. n) \X T -> T]
    BY <1>0
  <2> HIDE DEF F, T, x, n
  <2>3. F \in Turns(n, T)
    BY <2>2 DEF Turns
  <2>4. \E g : RunOf(n, T, x, F, g)
    BY <1>0, <2>2, <2>3, Iterates
  <2> QED
    BY <2>4 DEF RunOf, x, T
<1>3. ASSUME NEW k \in 1 .. n
      PROVE  g[k] = g[k - 1] * 256 + s[k]
  <2>1. k - 1 \in 0 .. n
    BY <1>0
  <2>2. g[k - 1] \in Nat
    BY <1>2, <2>1
  <2>3. F[<<k, g[k - 1]>>] = g[k - 1] * 256 + s[k]
    BY <2>2
  <2> HIDE DEF F
  <2> QED
    BY <1>2, <2>3
<1>4. g = step(g)
  <2> HIDE DEF n
  <2>1. \A k \in 0 .. n : g[k] = IF k = 0 THEN 0 ELSE g[k - 1] * 256 + s[k]
    BY <1>0, <1>2, <1>3
  <2>2. g = [k \in 0 .. n |-> g[k]]
    BY <1>2
  <2> QED
    BY <2>1, <2>2
<1>5. h = step(h)
  <2> HIDE DEF step
  <2> QED
    BY <1>4, Zenon
<1> HIDE DEF h, n
<1>6. \A k \in 0 .. n : h[k] = IF k = 0 THEN 0 ELSE h[k - 1] * 256 + s[k]
  BY <1>5, ZenonT(60)
<1>7. h[0] = 0 /\ \A i \in 1 .. n : h[i] = h[i - 1] * 256 + s[i]
  <2>1. 0 \in 0 .. n /\ \A i \in 1 .. n : i \in 0 .. n /\ i # 0
    BY <1>0
  <2> QED
    BY <1>6, <2>1, ZenonT(60)
<1> QED
  BY <1>1, <1>7, Zenon DEF n, ByteRun

LEMMA ByteRunAt ==
  ASSUME NEW s, NEW n \in Nat, NEW h, ByteRun(s, n, h), NEW i \in 1 .. n, NEW j, j = i - 1
  PROVE  h[i] = h[j] * 256 + s[i]
BY DEF ByteRun

(* Of one, two, four, seven and eight bytes. *)
LEMMA FromOne ==
  ASSUME NEW a \in Nat
  PROVE  FromBigEndian(<<a>>) = a
<1> DEFINE s == <<a>>
<1>1. s \in Seq(Nat) /\ Len(s) = 1
  OBVIOUS
<1>2. s[1] = a
  OBVIOUS
<1> HIDE DEF s
<1>3. PICK h : ByteRun(s, 1, h)
  BY <1>1, BigEndianRun
<1>4. h[0] = 0 /\ FromBigEndian(s) = h[1]
  BY <1>3 DEF ByteRun
<1>5. h[1] = h[0] * 256 + a
  <2>1. 1 \in 1 .. 1 /\ 0 = 1 - 1 /\ 1 \in Nat
    OBVIOUS
  <2>2. h[1] = h[0] * 256 + s[1]
    BY <1>3, <2>1, ByteRunAt
  <2> QED
    BY <1>2, <2>2
<1>6. h[1] = a
  BY <1>4, <1>5
<1> QED
  BY <1>4, <1>6 DEF s

LEMMA FromTwo ==
  ASSUME NEW a \in Nat, NEW b \in Nat
  PROVE  FromBigEndian(<<a, b>>) = a * 256 + b
<1> DEFINE s == <<a, b>>
<1>1. s \in Seq(Nat) /\ Len(s) = 2
  OBVIOUS
<1>2. s[1] = a /\ s[2] = b
  OBVIOUS
<1> HIDE DEF s
<1>3. PICK h : ByteRun(s, 2, h)
  BY <1>1, BigEndianRun
<1>4. h[0] = 0 /\ FromBigEndian(s) = h[2]
  BY <1>3 DEF ByteRun
<1>5. h[1] = h[0] * 256 + a
  <2>1. 1 \in 1 .. 2 /\ 0 = 1 - 1 /\ 2 \in Nat
    OBVIOUS
  <2>2. h[1] = h[0] * 256 + s[1]
    BY <1>3, <2>1, ByteRunAt
  <2> QED
    BY <1>2, <2>2
<1>6. h[2] = h[1] * 256 + b
  <2>1. 2 \in 1 .. 2 /\ 1 = 2 - 1 /\ 2 \in Nat
    OBVIOUS
  <2>2. h[2] = h[1] * 256 + s[2]
    BY <1>3, <2>1, ByteRunAt
  <2> QED
    BY <1>2, <2>2
<1>7. h[2] = a * 256 + b
  BY <1>4, <1>5, <1>6
<1> QED
  BY <1>4, <1>7 DEF s

(* Four digits to the base 256. *)
Val(a, b, c, d) == a * 16777216 + b * 65536 + c * 256 + d

LEMMA FromFour ==
  ASSUME NEW a \in Nat, NEW b \in Nat, NEW c \in Nat, NEW d \in Nat
  PROVE  FromBigEndian(<<a, b, c, d>>) = Val(a, b, c, d)
<1> DEFINE s == <<a, b, c, d>>
<1>1. s \in Seq(Nat) /\ Len(s) = 4
  OBVIOUS
<1>2. s[1] = a /\ s[2] = b /\ s[3] = c /\ s[4] = d
  OBVIOUS
<1> HIDE DEF s
<1>3. PICK h : ByteRun(s, 4, h)
  BY <1>1, BigEndianRun
<1>4. h[0] = 0 /\ FromBigEndian(s) = h[4]
  BY <1>3 DEF ByteRun
<1>5. h[1] = h[0] * 256 + a
  <2>1. 1 \in 1 .. 4 /\ 0 = 1 - 1 /\ 4 \in Nat
    OBVIOUS
  <2>2. h[1] = h[0] * 256 + s[1]
    BY <1>3, <2>1, ByteRunAt
  <2> QED
    BY <1>2, <2>2
<1>6. h[2] = h[1] * 256 + b
  <2>1. 2 \in 1 .. 4 /\ 1 = 2 - 1 /\ 4 \in Nat
    OBVIOUS
  <2>2. h[2] = h[1] * 256 + s[2]
    BY <1>3, <2>1, ByteRunAt
  <2> QED
    BY <1>2, <2>2
<1>7. h[3] = h[2] * 256 + c
  <2>1. 3 \in 1 .. 4 /\ 2 = 3 - 1 /\ 4 \in Nat
    OBVIOUS
  <2>2. h[3] = h[2] * 256 + s[3]
    BY <1>3, <2>1, ByteRunAt
  <2> QED
    BY <1>2, <2>2
<1>8. h[4] = h[3] * 256 + d
  <2>1. 4 \in 1 .. 4 /\ 3 = 4 - 1 /\ 4 \in Nat
    OBVIOUS
  <2>2. h[4] = h[3] * 256 + s[4]
    BY <1>3, <2>1, ByteRunAt
  <2> QED
    BY <1>2, <2>2
<1>9. h[1] = a
  BY <1>4, <1>5
<1>10. h[2] = a * 256 + b
  BY <1>6, <1>9
<1>11. h[3] = a * 65536 + b * 256 + c
  BY <1>7, <1>10
<1>12. h[4] = Val(a, b, c, d)
  BY <1>8, <1>11, SMT DEF Val
<1> QED
  BY <1>4, <1>12 DEF s

(* The bytes above the value are zero. *)
LEMMA FromSeven ==
  ASSUME NEW a \in Nat, NEW b \in Nat, NEW c \in Nat, NEW d \in Nat
  PROVE  FromBigEndian(<<0, 0, 0, a, b, c, d>>) = Val(a, b, c, d)
<1> DEFINE s == <<0, 0, 0, a, b, c, d>>
<1>1. s \in Seq(Nat) /\ Len(s) = 7
  OBVIOUS
<1>2. s[1] = 0 /\ s[2] = 0 /\ s[3] = 0 /\ s[4] = a /\ s[5] = b /\ s[6] = c /\ s[7] = d
  OBVIOUS
<1> HIDE DEF s
<1>3. PICK h : ByteRun(s, 7, h)
  BY <1>1, BigEndianRun
<1>4. h[0] = 0 /\ FromBigEndian(s) = h[7]
  BY <1>3 DEF ByteRun
<1>5. h[1] = h[0] * 256 + 0
  <2>1. 1 \in 1 .. 7 /\ 0 = 1 - 1 /\ 7 \in Nat
    OBVIOUS
  <2>2. h[1] = h[0] * 256 + s[1]
    BY <1>3, <2>1, ByteRunAt
  <2> QED
    BY <1>2, <2>2
<1>6. h[2] = h[1] * 256 + 0
  <2>1. 2 \in 1 .. 7 /\ 1 = 2 - 1 /\ 7 \in Nat
    OBVIOUS
  <2>2. h[2] = h[1] * 256 + s[2]
    BY <1>3, <2>1, ByteRunAt
  <2> QED
    BY <1>2, <2>2
<1>7. h[3] = h[2] * 256 + 0
  <2>1. 3 \in 1 .. 7 /\ 2 = 3 - 1 /\ 7 \in Nat
    OBVIOUS
  <2>2. h[3] = h[2] * 256 + s[3]
    BY <1>3, <2>1, ByteRunAt
  <2> QED
    BY <1>2, <2>2
<1>8. h[4] = h[3] * 256 + a
  <2>1. 4 \in 1 .. 7 /\ 3 = 4 - 1 /\ 7 \in Nat
    OBVIOUS
  <2>2. h[4] = h[3] * 256 + s[4]
    BY <1>3, <2>1, ByteRunAt
  <2> QED
    BY <1>2, <2>2
<1>9. h[5] = h[4] * 256 + b
  <2>1. 5 \in 1 .. 7 /\ 4 = 5 - 1 /\ 7 \in Nat
    OBVIOUS
  <2>2. h[5] = h[4] * 256 + s[5]
    BY <1>3, <2>1, ByteRunAt
  <2> QED
    BY <1>2, <2>2
<1>10. h[6] = h[5] * 256 + c
  <2>1. 6 \in 1 .. 7 /\ 5 = 6 - 1 /\ 7 \in Nat
    OBVIOUS
  <2>2. h[6] = h[5] * 256 + s[6]
    BY <1>3, <2>1, ByteRunAt
  <2> QED
    BY <1>2, <2>2
<1>11. h[7] = h[6] * 256 + d
  <2>1. 7 \in 1 .. 7 /\ 6 = 7 - 1 /\ 7 \in Nat
    OBVIOUS
  <2>2. h[7] = h[6] * 256 + s[7]
    BY <1>3, <2>1, ByteRunAt
  <2> QED
    BY <1>2, <2>2
<1>12. h[3] = 0
  BY <1>4, <1>5, <1>6, <1>7
<1>13. h[4] = a
  BY <1>12, <1>8
<1>14. h[5] = a * 256 + b
  BY <1>9, <1>13
<1>15. h[6] = a * 65536 + b * 256 + c
  BY <1>10, <1>14
<1>16. h[7] = Val(a, b, c, d)
  BY <1>11, <1>15, SMT DEF Val
<1> QED
  BY <1>4, <1>16 DEF s

LEMMA FromEight ==
  ASSUME NEW a \in Nat, NEW b \in Nat, NEW c \in Nat, NEW d \in Nat
  PROVE  FromBigEndian(<<0, 0, 0, 0, a, b, c, d>>) = Val(a, b, c, d)
<1> DEFINE s == <<0, 0, 0, 0, a, b, c, d>>
<1>1. s \in Seq(Nat) /\ Len(s) = 8
  OBVIOUS
<1>2. s[1] = 0 /\ s[2] = 0 /\ s[3] = 0 /\ s[4] = 0 /\ s[5] = a /\ s[6] = b /\ s[7] = c /\ s[8] = d
  OBVIOUS
<1> HIDE DEF s
<1>3. PICK h : ByteRun(s, 8, h)
  BY <1>1, BigEndianRun
<1>4. h[0] = 0 /\ FromBigEndian(s) = h[8]
  BY <1>3 DEF ByteRun
<1>5. h[1] = h[0] * 256 + 0
  <2>1. 1 \in 1 .. 8 /\ 0 = 1 - 1 /\ 8 \in Nat
    OBVIOUS
  <2>2. h[1] = h[0] * 256 + s[1]
    BY <1>3, <2>1, ByteRunAt
  <2> QED
    BY <1>2, <2>2
<1>6. h[2] = h[1] * 256 + 0
  <2>1. 2 \in 1 .. 8 /\ 1 = 2 - 1 /\ 8 \in Nat
    OBVIOUS
  <2>2. h[2] = h[1] * 256 + s[2]
    BY <1>3, <2>1, ByteRunAt
  <2> QED
    BY <1>2, <2>2
<1>7. h[3] = h[2] * 256 + 0
  <2>1. 3 \in 1 .. 8 /\ 2 = 3 - 1 /\ 8 \in Nat
    OBVIOUS
  <2>2. h[3] = h[2] * 256 + s[3]
    BY <1>3, <2>1, ByteRunAt
  <2> QED
    BY <1>2, <2>2
<1>8. h[4] = h[3] * 256 + 0
  <2>1. 4 \in 1 .. 8 /\ 3 = 4 - 1 /\ 8 \in Nat
    OBVIOUS
  <2>2. h[4] = h[3] * 256 + s[4]
    BY <1>3, <2>1, ByteRunAt
  <2> QED
    BY <1>2, <2>2
<1>9. h[5] = h[4] * 256 + a
  <2>1. 5 \in 1 .. 8 /\ 4 = 5 - 1 /\ 8 \in Nat
    OBVIOUS
  <2>2. h[5] = h[4] * 256 + s[5]
    BY <1>3, <2>1, ByteRunAt
  <2> QED
    BY <1>2, <2>2
<1>10. h[6] = h[5] * 256 + b
  <2>1. 6 \in 1 .. 8 /\ 5 = 6 - 1 /\ 8 \in Nat
    OBVIOUS
  <2>2. h[6] = h[5] * 256 + s[6]
    BY <1>3, <2>1, ByteRunAt
  <2> QED
    BY <1>2, <2>2
<1>11. h[7] = h[6] * 256 + c
  <2>1. 7 \in 1 .. 8 /\ 6 = 7 - 1 /\ 8 \in Nat
    OBVIOUS
  <2>2. h[7] = h[6] * 256 + s[7]
    BY <1>3, <2>1, ByteRunAt
  <2> QED
    BY <1>2, <2>2
<1>12. h[8] = h[7] * 256 + d
  <2>1. 8 \in 1 .. 8 /\ 7 = 8 - 1 /\ 8 \in Nat
    OBVIOUS
  <2>2. h[8] = h[7] * 256 + s[8]
    BY <1>3, <2>1, ByteRunAt
  <2> QED
    BY <1>2, <2>2
<1>13. h[4] = 0
  BY <1>4, <1>5, <1>6, <1>7, <1>8
<1>14. h[5] = a
  BY <1>13, <1>9
<1>15. h[6] = a * 256 + b
  BY <1>10, <1>14
<1>16. h[7] = a * 65536 + b * 256 + c
  BY <1>11, <1>15
<1>17. h[8] = Val(a, b, c, d)
  BY <1>12, <1>16, SMT DEF Val
<1> QED
  BY <1>4, <1>17 DEF s

(* The bytes of a value. *)
Octet == {b \in Nat : b < 256}

LEMMA BytesAre ==
  ASSUME NEW a \in Octet, NEW b \in Octet, NEW c \in Octet, NEW d \in Octet,
         NEW v, v = Val(a, b, c, d)
  PROVE  /\ Byte(v, 0) = d /\ Byte(v, 1) = c /\ Byte(v, 2) = b /\ Byte(v, 3) = a
         /\ \A k \in 4 .. 7 : Byte(v, k) = 0
<1> USE DEF Octet
<1>1. 8 * 0 = 0 /\ 8 * 1 = 8 /\ 8 * 2 = 16 /\ 8 * 3 = 24
  OBVIOUS
<1>2. v \in Nat /\ v = a * 16777216 + b * 65536 + c * 256 + d
  BY SMT DEF Val
<1>3. Byte(v, 0) = d
  <2>1. Byte(v, 0) = (v \div 1) % 256
    BY <1>1, Powers, SMT DEF Byte
  <2>2. v \div 1 = v
    BY <1>2, SMT
  <2> QED
    BY <1>2, <2>1, <2>2, SMT
<1>4. Byte(v, 1) = c
  <2>1. Byte(v, 1) = (v \div 256) % 256
    BY <1>1, Powers, SMT DEF Byte
  <2>2. v \div 256 = a * 65536 + b * 256 + c
    BY <1>2, SMT
  <2> QED
    BY <2>1, <2>2, SMT
<1>5. Byte(v, 2) = b
  <2>1. Byte(v, 2) = (v \div 65536) % 256
    BY <1>1, Powers, SMT DEF Byte
  <2>2. v \div 65536 = a * 256 + b
    BY <1>2, SMT
  <2> QED
    BY <2>1, <2>2, SMT
<1>6. Byte(v, 3) = a
  <2>1. Byte(v, 3) = (v \div 16777216) % 256
    BY <1>1, Powers, SMT DEF Byte
  <2>2. v \div 16777216 = a
    BY <1>2, SMT
  <2> QED
    BY <2>1, <2>2, SMT
<1>7. \A k \in 4 .. 7 : Byte(v, k) = 0
  BY SMT DEF Byte
<1> QED
  BY <1>3, <1>4, <1>5, <1>6, <1>7, SMT

(* What the codecs are about. *)
Word == {v \in Nat : v <= 2147483647}

LEMMA SplitByte ==
  ASSUME NEW v \in Nat
  PROVE  \E x \in Nat, d \in Octet : v = x * 256 + d
<1>1. /\ v = (v \div 256) * 256 + (v % 256) /\ v % 256 \in Nat /\ v % 256 < 256
      /\ v \div 256 \in Nat
  OBVIOUS
<1>2. v % 256 \in Octet
  BY <1>1 DEF Octet
<1> QED
  BY <1>1, <1>2

LEMMA HasBytes ==
  ASSUME NEW v \in Word
  PROVE  \E a, b, c, d \in Octet : v = Val(a, b, c, d) /\ a < 128
<1>0. v \in Nat /\ v <= 2147483647
  BY SMT DEF Word
<1>1. PICK x \in Nat, d \in Octet : v = x * 256 + d
  BY <1>0, SplitByte, SMT
<1>2. PICK y \in Nat, c \in Octet : x = y * 256 + c
  BY SplitByte, SMT
<1>3. PICK a \in Nat, b \in Octet : y = a * 256 + b
  BY SplitByte, SMT
<1>4. b \in Nat /\ c \in Nat /\ d \in Nat
  BY DEF Octet
<1>5. v = Val(a, b, c, d)
  BY <1>1, <1>2, <1>3, <1>4, SMT DEF Val
<1>6. a < 128
  BY <1>0, <1>4, <1>5, SMT DEF Val
<1>7. a \in Octet
  BY <1>6 DEF Octet
<1> QED
  BY <1>5, <1>6, <1>7, Zenon

LEMMA NotEmpty ==
  ASSUME NEW t \in Seq(Nat), t # <<>>
  PROVE  Len(t) \in Nat /\ Len(t) # 0
OBVIOUS

(* A first byte before others. *)
LEMMA ConsIs ==
  ASSUME NEW x \in Nat, NEW s \in Seq(Nat), NEW t \in Seq(Nat), t # <<>>,
         t[1] = x, Tail(t) = s
  PROVE  <<x>> \o s = t
<1>1. Len(t) \in Nat /\ Len(t) # 0
  BY NotEmpty, Zenon
<1>2. Len(s) = Len(t) - 1 /\ \A i \in 1 .. Len(s) : s[i] = t[i + 1]
  <2>1. Len(Tail(t)) = Len(t) - 1 /\ \A i \in 1 .. Len(Tail(t)) : Tail(t)[i] = t[i + 1]
    BY <1>1, HeadTailProperties
  <2> QED
    BY <2>1
<1> DEFINE u == <<x>> \o s
<1>0. /\ u \in Seq(Nat) /\ Len(u) = 1 + Len(s)
      /\ \A i \in 1 .. (1 + Len(s)) : u[i] = IF i <= 1 THEN x ELSE s[i - 1]
  <2> DEFINE A == <<x>>
  <2>1. A \in Seq(Nat) /\ Len(A) = 1 /\ A[1] = x
    OBVIOUS
  <2> HIDE DEF A
  <2>2. /\ A \o s \in Seq(Nat) /\ Len(A \o s) = Len(A) + Len(s)
        /\ \A i \in 1 .. (Len(A) + Len(s)) :
             (A \o s)[i] = IF i <= Len(A) THEN A[i] ELSE s[i - Len(A)]
    BY <2>1, ConcatProperties
  <2>3. \A i \in 1 .. (1 + Len(s)) : i <= 1 => i = 1
    OBVIOUS
  <2>4. \A i \in 1 .. (1 + Len(s)) :
          (A \o s)[i] = IF i <= 1 THEN x ELSE s[i - 1]
    BY <2>1, <2>2, <2>3
  <2> QED
    BY <2>1, <2>2, <2>4 DEF A
<1> HIDE DEF u
<1>3. u \in Seq(Nat) /\ Len(u) = Len(t)
  BY <1>0, <1>1, <1>2
<1>4. \A i \in 1 .. Len(t) : u[i] = t[i]
  <2> SUFFICES ASSUME NEW i \in 1 .. Len(t)
               PROVE  u[i] = t[i]
    OBVIOUS
  <2>1. CASE i = 1
    <3>1. 1 \in 1 .. (1 + Len(s)) /\ 1 <= 1
      BY <1>1, <1>2
    <3>2. u[1] = x
      BY <1>0, <3>1
    <3> QED
      BY <2>1, <3>2
  <2>2. CASE i # 1
    <3>1. i - 1 \in 1 .. Len(s) /\ (i - 1) + 1 = i
      BY <1>1, <1>2, <2>2
    <3>2. i \in 1 .. (1 + Len(s)) /\ ~(i <= 1)
      BY <1>1, <1>2, <2>2
    <3>3. u[i] = s[i - 1]
      BY <1>0, <3>2
    <3> QED
      BY <1>2, <3>1, <3>3
  <2> QED
    BY <2>1, <2>2
<1>5. u = t
  BY <1>3, <1>4, SeqEqual
<1> QED
  BY <1>5, Zenon DEF u

LEMMA SliceIs ==
  ASSUME NEW u \in Seq(Nat), NEW m \in Nat, NEW n \in Nat, m >= 1, n <= Len(u), m <= n + 1
  PROVE  /\ SubSeq(u, m, n) \in Seq(Nat) /\ Len(SubSeq(u, m, n)) = (n - m) + 1
         /\ \A i \in 1 .. ((n - m) + 1) : SubSeq(u, m, n)[i] = u[(m + i) - 1]
<1> DEFINE X == Nat
<1>1. m \in Int /\ n \in Int /\ \A i \in m .. n : u[i] \in X
  <2>1. Len(u) \in Nat /\ \A i \in 1 .. Len(u) : u[i] \in Nat
    OBVIOUS
  <2>2. \A i \in m .. n : i \in 1 .. Len(u)
    BY <2>1
  <2> QED
    BY <2>1, <2>2
<1> HIDE DEF X
<1>2. /\ SubSeq(u, m, n) \in Seq(X)
      /\ Len(SubSeq(u, m, n)) = IF m <= n THEN n - m + 1 ELSE 0
      /\ \A i \in 1 .. n - m + 1 : SubSeq(u, m, n)[i] = u[m + i - 1]
  BY <1>1, SubSeqProperties
<1>3. m <= n \/ n - m + 1 = 0
  OBVIOUS
<1> QED
  BY <1>2, <1>3 DEF X

(* What a reader sees of bytes that others follow. *)
LEMMA Followed ==
  ASSUME NEW A \in Seq(Nat), NEW R \in Seq(Nat), Len(A) # 0
  PROVE  /\ A \o R \in Seq(Nat) /\ Len(A \o R) = Len(A) + Len(R) /\ A \o R # <<>>
         /\ (A \o R)[1] = A[1]
         /\ SubSeq(A \o R, 2, Len(A)) = Tail(A)
         /\ After(A \o R, Len(A)) = R
<1> DEFINE u == A \o R
           n == Len(A)
<1>1. n \in Nat /\ n # 0 /\ Len(R) \in Nat
  OBVIOUS
<1>2. u \in Seq(Nat) /\ Len(u) = n + Len(R)
  BY ConcatProperties
<1>3. /\ \A i \in 1 .. n : u[i] = A[i]
      /\ \A i \in 1 .. Len(R) : u[n + i] = R[i]
  OBVIOUS
<1>4. SubSeq(u, 2, n) = Tail(A)
  <2> DEFINE x == SubSeq(u, 2, n)
             y == Tail(A)
  <2>1. y \in Seq(Nat) /\ Len(y) = n - 1 /\ \A i \in 1 .. Len(y) : y[i] = A[i + 1]
    BY <1>1, HeadTailProperties
  <2> HIDE DEF u
  <2>2. x \in Seq(Nat) /\ Len(x) = n - 1 /\ \A i \in 1 .. (n - 1) : x[i] = u[i + 1]
    <3>1. /\ 2 >= 1 /\ n <= Len(u) /\ 2 <= n + 1 /\ (n - 2) + 1 = n - 1
          /\ \A i \in 1 .. (n - 1) : (2 + i) - 1 = i + 1
      BY <1>1, <1>2
    <3> HIDE DEF n
    <3>2. /\ x \in Seq(Nat) /\ Len(x) = (n - 2) + 1
          /\ \A i \in 1 .. ((n - 2) + 1) : x[i] = u[(2 + i) - 1]
      BY <1>1, <1>2, <3>1, SliceIs
    <3> HIDE DEF x
    <3> QED
      BY <3>1, <3>2
  <2>3. \A i \in 1 .. (n - 1) : i + 1 \in 1 .. n
    BY <1>1
  <2> HIDE DEF x, y, n
  <2>4. \A i \in 1 .. Len(x) : x[i] = y[i]
    BY <1>3, <2>1, <2>2, <2>3
  <2>5. x = y
    BY <2>1, <2>2, <2>4, SeqEqual
  <2> QED
    BY <2>5 DEF x, y
<1>5. After(u, n) = R
  <2> DEFINE x == SubSeq(u, n + 1, Len(u))
  <2> HIDE DEF u, n
  <2>1. x \in Seq(Nat) /\ Len(x) = Len(R) /\ \A i \in 1 .. Len(R) : x[i] = u[n + i]
    <3> DEFINE l == Len(u)
               m == n + 1
    <3>1. /\ l \in Nat /\ m \in Nat /\ m >= 1 /\ m <= l + 1 /\ l <= Len(u)
          /\ (l - m) + 1 = Len(R) /\ \A i \in 1 .. Len(R) : (m + i) - 1 = n + i
      BY <1>1, <1>2
    <3> HIDE DEF l, m
    <3>2. /\ SubSeq(u, m, l) \in Seq(Nat) /\ Len(SubSeq(u, m, l)) = (l - m) + 1
          /\ \A i \in 1 .. ((l - m) + 1) : SubSeq(u, m, l)[i] = u[(m + i) - 1]
      BY <1>2, <3>1, SliceIs
    <3>3. x = SubSeq(u, m, l)
      BY DEF m, l
    <3> HIDE DEF x
    <3> QED
      BY <3>1, <3>2, <3>3
  <2> HIDE DEF x
  <2>2. \A i \in 1 .. Len(x) : x[i] = R[i]
    BY <1>3, <2>1
  <2>3. x = R
    BY <2>1, <2>2, SeqEqual
  <2> QED
    BY <2>3 DEF After, x
<1>6. u # <<>> /\ u[1] = A[1]
  BY <1>1, <1>2, <1>3
<1> QED
  BY <1>2, <1>4, <1>5, <1>6

(* The first bytes of a sequence. *)
LEMMA Truncated ==
  ASSUME NEW A \in Seq(Nat), NEW k \in 0 .. (Len(A) - 1)
  PROVE  /\ SubSeq(A, 1, k) \in Seq(Nat) /\ Len(SubSeq(A, 1, k)) = k
         /\ SubSeq(A, 1, k) # <<>> => SubSeq(A, 1, k)[1] = A[1]
<1> DEFINE x == SubSeq(A, 1, k)
<1>1. Len(A) \in Nat /\ k \in Nat /\ k <= Len(A) /\ 1 \in Nat /\ 1 >= 1 /\ 1 <= k + 1
      /\ (k - 1) + 1 = k
  OBVIOUS
<1>2. /\ x \in Seq(Nat) /\ Len(x) = (k - 1) + 1
      /\ \A i \in 1 .. ((k - 1) + 1) : x[i] = A[(1 + i) - 1]
  BY <1>1, SliceIs
<1> HIDE DEF x
<1>3. x # <<>> => 1 \in 1 .. ((k - 1) + 1) /\ (1 + 1) - 1 = 1
  BY <1>1, <1>2
<1>4. x # <<>> => x[1] = A[1]
  BY <1>2, <1>3
<1> QED
  BY <1>1, <1>2, <1>4 DEF x

(* readVarInt, of bytes with the length that the first one announces. *)
LEMMA GoReads ==
  ASSUME NEW A \in Seq(Nat), NEW R \in Seq(Nat), Len(A) # 0, Pow2(A[1] \div 64) = Len(A),
         NEW B \in Seq(Nat), B # <<>>, B[1] = A[1] % 64, Tail(B) = Tail(A)
  PROVE  /\ readVarInt(A \o R) = ReadAs(FromBigEndian(B), R)
         /\ \A k \in 0 .. (Len(A) - 1) : readVarInt(SubSeq(A, 1, k)) = Short
<1>0. A # <<>> /\ A[1] \in Nat /\ Len(A) \in Nat /\ Len(R) \in Nat /\ B[1] \in Nat
  OBVIOUS
<1>1. readVarInt(A \o R) = ReadAs(FromBigEndian(B), R)
  <2> DEFINE u == A \o R
  <2>1. /\ u \in Seq(Nat) /\ Len(u) = Len(A) + Len(R) /\ u # <<>> /\ u[1] = A[1]
        /\ SubSeq(u, 2, Len(A)) = Tail(A) /\ After(u, Len(A)) = R
    BY Followed
  <2>2. Tail(A) \in Seq(Nat)
    BY <1>0, HeadTailProperties
  <2>3. <<A[1] % 64>> \o Tail(A) = B
    <3> DEFINE x == A[1] % 64
               y == Tail(A)
    <3>1. x \in Nat /\ y \in Seq(Nat) /\ B[1] = x /\ Tail(B) = y
      BY <1>0, <2>2
    <3> HIDE DEF x, y
    <3>2. <<x>> \o y = B
      BY <3>1, ConsIs
    <3> QED
      BY <3>2 DEF x, y
  <2>4. ~(Len(u) < Len(A))
    BY <1>0, <2>1
  <2> HIDE DEF u
  <2>5. readVarInt(u) = IF u = <<>> THEN Short
          ELSE IF Len(u) < Pow2(u[1] \div 64) THEN Short
          ELSE ReadAs(FromBigEndian(<<u[1] % 64>> \o SubSeq(u, 2, Pow2(u[1] \div 64))),
                      After(u, Pow2(u[1] \div 64)))
    BY Zenon DEF readVarInt
  <2>6. readVarInt(u) = ReadAs(FromBigEndian(<<A[1] % 64>> \o Tail(A)), R)
    BY <2>1, <2>4, <2>5, Zenon
  <2> QED
    BY <2>3, <2>6, Zenon DEF u
<1>2. ASSUME NEW k \in 0 .. (Len(A) - 1)
      PROVE  readVarInt(SubSeq(A, 1, k)) = Short
  <2> DEFINE x == SubSeq(A, 1, k)
  <2>1. Len(x) = k /\ (x # <<>> => x[1] = A[1])
    BY Truncated
  <2>2. Len(x) < Len(A)
    BY <1>0, <2>1
  <2> HIDE DEF x
  <2>3. readVarInt(x) = IF x = <<>> THEN Short
          ELSE IF Len(x) < Pow2(x[1] \div 64) THEN Short
          ELSE ReadAs(FromBigEndian(<<x[1] % 64>> \o SubSeq(x, 2, Pow2(x[1] \div 64))),
                      After(x, Pow2(x[1] \div 64)))
    BY Zenon DEF readVarInt
  <2> QED
    BY <2>1, <2>2, <2>3, Zenon DEF x
<1> QED
  BY <1>1, <1>2

(* VarInt.decode, likewise. *)
SizeOf(x) == CASE x \div 64 = 0 -> 1 [] x \div 64 = 1 -> 2
               [] x \div 64 = 2 -> 4 [] x \div 64 = 3 -> 8
ValueOf(s) == CASE SizeOf(s[1]) = 1 -> s[1] % 64
                [] SizeOf(s[1]) = 2 -> (s[1] % 64) * 256 + s[2]
                [] SizeOf(s[1]) = 4 -> (s[1] % 64) * Pow2(24) + s[2] * Pow2(16) + s[3] * 256 + s[4]
                [] SizeOf(s[1]) = 8 -> FromBigEndian(SubSeq(s, 2, 8))

LEMMA DecodeIs ==
  ASSUME NEW s
  PROVE  VarIntDecode(s) = IF s = <<>> THEN Short
                           ELSE IF Len(s) < SizeOf(s[1]) THEN Short
                           ELSE ReadAs(ValueOf(s), After(s, SizeOf(s[1])))
BY Zenon DEF VarIntDecode, ValueOf, SizeOf

LEMMA CrystalReads ==
  ASSUME NEW A \in Seq(Nat), NEW R \in Seq(Nat), Len(A) # 0, SizeOf(A[1]) = Len(A)
  PROVE  /\ VarIntDecode(A \o R) = ReadAs(ValueOf(A \o R), R)
         /\ \A k \in 0 .. (Len(A) - 1) : VarIntDecode(SubSeq(A, 1, k)) = Short
<1>0. Len(A) \in Nat /\ Len(R) \in Nat
  OBVIOUS
<1>1. VarIntDecode(A \o R) = ReadAs(ValueOf(A \o R), R)
  <2> DEFINE u == A \o R
  <2>1. /\ u \in Seq(Nat) /\ Len(u) = Len(A) + Len(R) /\ u # <<>> /\ u[1] = A[1]
        /\ After(u, Len(A)) = R
    BY Followed
  <2>2. ~(Len(u) < Len(A))
    BY <1>0, <2>1
  <2> HIDE DEF u
  <2>3. VarIntDecode(u) = IF u = <<>> THEN Short
                          ELSE IF Len(u) < SizeOf(u[1]) THEN Short
                          ELSE ReadAs(ValueOf(u), After(u, SizeOf(u[1])))
    BY DecodeIs, Zenon
  <2> QED
    BY <2>1, <2>2, <2>3, Zenon DEF u
<1>2. ASSUME NEW k \in 0 .. (Len(A) - 1)
      PROVE  VarIntDecode(SubSeq(A, 1, k)) = Short
  <2> DEFINE x == SubSeq(A, 1, k)
  <2>1. Len(x) = k /\ (x # <<>> => x[1] = A[1])
    BY Truncated
  <2>2. Len(x) < Len(A)
    BY <1>0, <2>1
  <2> HIDE DEF x
  <2>3. VarIntDecode(x) = IF x = <<>> THEN Short
                          ELSE IF Len(x) < SizeOf(x[1]) THEN Short
                          ELSE ReadAs(ValueOf(x), After(x, SizeOf(x[1])))
    BY DecodeIs, Zenon
  <2> QED
    BY <2>1, <2>2, <2>3, Zenon DEF x
<1> QED
  BY <1>1, <1>2

(* The bytes A are the value v to both readers, whatever follows them, and *)
(* neither takes a part of them for a value.                               *)
Good(A, v) ==
  /\ A \in Seq(Nat) /\ A # <<>> /\ Len(A) \in 1 .. 8
  /\ \A R \in Seq(Nat) : /\ readVarInt(A \o R) = ReadAs(v, R)
                         /\ VarIntDecode(A \o R) = ReadAs(v, R)
  /\ \A k \in 0 .. (Len(A) - 1) : /\ readVarInt(SubSeq(A, 1, k)) = Short
                                  /\ VarIntDecode(SubSeq(A, 1, k)) = Short

(* A announces its length, and B is A without what announces it. *)
Announces(A, n) == Len(A) = n /\ Pow2(A[1] \div 64) = n /\ SizeOf(A[1]) = n
Plain(A, B) == B # <<>> /\ B[1] = A[1] % 64 /\ Tail(B) = Tail(A)
Valued(A, v) == \A R \in Seq(Nat) : ValueOf(A \o R) = v

LEMMA GoodIs ==
  ASSUME NEW A \in Seq(Nat), NEW B \in Seq(Nat), NEW n \in 1 .. 8, Announces(A, n),
         Plain(A, B), NEW v, FromBigEndian(B) = v, Valued(A, v)
  PROVE  Good(A, v)
<1> USE DEF Announces, Plain, Valued
<1>1. A # <<>> /\ Len(A) # 0
  OBVIOUS
<1>2. ASSUME NEW R \in Seq(Nat)
      PROVE  readVarInt(A \o R) = ReadAs(v, R) /\ VarIntDecode(A \o R) = ReadAs(v, R)
  <2>1. readVarInt(A \o R) = ReadAs(FromBigEndian(B), R)
    BY <1>1, GoReads
  <2>2. VarIntDecode(A \o R) = ReadAs(ValueOf(A \o R), R)
    BY <1>1, CrystalReads
  <2> QED
    BY <2>1, <2>2, Zenon
<1>3. <<>> \in Seq(Nat)
  OBVIOUS
<1>4. ASSUME NEW k \in 0 .. (Len(A) - 1)
      PROVE  readVarInt(SubSeq(A, 1, k)) = Short /\ VarIntDecode(SubSeq(A, 1, k)) = Short
  <2>1. readVarInt(SubSeq(A, 1, k)) = Short
    BY <1>1, <1>3, GoReads
  <2>2. VarIntDecode(SubSeq(A, 1, k)) = Short
    BY <1>1, <1>3, CrystalReads
  <2> QED
    BY <2>1, <2>2
<1> QED
  BY <1>1, <1>2, <1>4, Zenon DEF Good

(* The bytes of A \o R that A has. *)
LEMMA Prefixed ==
  ASSUME NEW A \in Seq(Nat), NEW R \in Seq(Nat)
  PROVE  \A i \in 1 .. Len(A) : (A \o R)[i] = A[i]
OBVIOUS

LEMMA FormOne ==
  ASSUME NEW v \in Nat, v < 64
  PROVE  Good(<<v>>, v)
<1> DEFINE A == <<v>>
<1>1. A \in Seq(Nat) /\ Len(A) = 1 /\ A # <<>> /\ A[1] = v
  OBVIOUS
<1>2. FromBigEndian(A) = v
  BY FromOne
<1> HIDE DEF A
<1>3. v \div 64 = 0 /\ v % 64 = v
  OBVIOUS
<1>4. SizeOf(v) = 1
  BY <1>3 DEF SizeOf
<1>5. ASSUME NEW R \in Seq(Nat)
      PROVE  ValueOf(A \o R) = v
  <2> DEFINE u == A \o R
  <2>0. 1 \in 1 .. Len(A) /\ \A i \in 1 .. Len(A) : u[i] = A[i]
    BY <1>1, Prefixed
  <2> HIDE DEF u
  <2>1. u[1] = v
    BY <1>1, <2>0
  <2>2. SizeOf(u[1]) = 1
    BY <1>4, <2>1
  <2>3. ValueOf(u) = u[1] % 64
    BY <2>2 DEF ValueOf
  <2> QED
    BY <1>3, <2>1, <2>3, Zenon DEF u
<1>6. Pow2(v \div 64) = 1
  BY <1>3, Powers, SMT
<1>9. Announces(A, 1) /\ Plain(A, A) /\ Valued(A, v) /\ 1 \in 1 .. 8
  BY <1>1, <1>3, <1>4, <1>5, <1>6 DEF Announces, Plain, Valued
<1>7. Good(A, v)
  BY <1>1, <1>2, <1>9, GoodIs
<1> QED
  BY <1>7 DEF A

LEMMA FormTwo ==
  ASSUME NEW c \in Octet, NEW d \in Octet, c < 64
  PROVE  Good(<<c + 64, d>>, c * 256 + d)
<1> DEFINE A == <<c + 64, d>>
           B == <<c, d>>
           v == c * 256 + d
<1>0. c \in Nat /\ d \in Nat
  BY DEF Octet
<1>1. /\ A \in Seq(Nat) /\ Len(A) = 2 /\ A[1] = c + 64 /\ A[2] = d /\ Tail(A) = <<d>>
      /\ B \in Seq(Nat) /\ B # <<>> /\ B[1] = c /\ Tail(B) = <<d>>
  BY <1>0
<1>2. FromBigEndian(B) = v
  BY <1>0, FromTwo
<1> HIDE DEF A, B
<1>3. (c + 64) \div 64 = 1 /\ (c + 64) % 64 = c
  BY <1>0
<1>4. SizeOf(A[1]) = 2
  BY <1>1, <1>3 DEF SizeOf
<1>5. ASSUME NEW R \in Seq(Nat)
      PROVE  ValueOf(A \o R) = v
  <2> DEFINE u == A \o R
  <2>0. /\ 1 \in 1 .. Len(A) /\ 2 \in 1 .. Len(A)
        /\ \A i \in 1 .. Len(A) : u[i] = A[i]
    BY <1>1, Prefixed, SMTT(40)
  <2> HIDE DEF u
  <2>1. u[1] = A[1] /\ u[2] = d
    BY <1>1, <2>0, Zenon
  <2>2. SizeOf(u[1]) = 2
    BY <1>4, <2>1
  <2>3. ValueOf(u) = (u[1] % 64) * 256 + u[2]
    BY <2>2 DEF ValueOf
  <2> QED
    BY <1>1, <1>3, <2>1, <2>3, ZenonT(60) DEF u
<1>6. Pow2(A[1] \div 64) = 2
  BY <1>1, <1>3, Powers, SMT
<1> HIDE DEF v
<1>8. Announces(A, 2) /\ Plain(A, B)
  BY <1>1, <1>3, <1>4, <1>6, Zenon DEF Announces, Plain
<1>m. 2 \in 1 .. 8
  OBVIOUS
<1>9. Valued(A, v)
  BY <1>5, Zenon DEF Valued
<1>7. Good(A, v)
  BY <1>1, <1>2, <1>8, <1>9, <1>m, GoodIs
<1> QED
  BY <1>7 DEF A, v

LEMMA FormFour ==
  ASSUME NEW a \in Octet, NEW b \in Octet, NEW c \in Octet, NEW d \in Octet, a < 64
  PROVE  Good(<<a + 128, b, c, d>>, Val(a, b, c, d))
<1> DEFINE A == <<a + 128, b, c, d>>
           B == <<a, b, c, d>>
<1>0. a \in Nat /\ b \in Nat /\ c \in Nat /\ d \in Nat
  BY DEF Octet
<1>1. /\ A \in Seq(Nat) /\ Len(A) = 4 /\ A[1] = a + 128 /\ A[2] = b /\ A[3] = c /\ A[4] = d
      /\ Tail(A) = <<b, c, d>>
  BY <1>0
<1>b. B \in Seq(Nat) /\ B # <<>> /\ B[1] = a /\ Tail(B) = <<b, c, d>>
  BY <1>0
<1>2. FromBigEndian(B) = Val(a, b, c, d)
  BY <1>0, FromFour
<1> HIDE DEF A, B
<1>3. (a + 128) \div 64 = 2 /\ (a + 128) % 64 = a
  BY <1>0
<1>4. SizeOf(A[1]) = 4
  BY <1>1, <1>3 DEF SizeOf
<1>5. ASSUME NEW R \in Seq(Nat)
      PROVE  ValueOf(A \o R) = Val(a, b, c, d)
  <2> DEFINE u == A \o R
  <2>0. \A i \in 1 .. Len(A) : u[i] = A[i]
    BY <1>1, Prefixed, Zenon
  <2> HIDE DEF u
  <2>m. 1 \in 1 .. Len(A) /\ 2 \in 1 .. Len(A) /\ 3 \in 1 .. Len(A) /\ 4 \in 1 .. Len(A)
    BY <1>1
  <2>1. u[1] = A[1] /\ u[2] = b /\ u[3] = c /\ u[4] = d
    BY <1>1, <2>0, <2>m, Zenon
  <2>2. SizeOf(u[1]) = 4
    BY <1>4, <2>1
  <2>3. ValueOf(u) = (u[1] % 64) * Pow2(24) + u[2] * Pow2(16) + u[3] * 256 + u[4]
    BY <2>2 DEF ValueOf
  <2>4. ValueOf(u) = a * Pow2(24) + b * Pow2(16) + c * 256 + d
    BY <1>1, <1>3, <2>1, <2>3
  <2>5. ValueOf(u) = Val(a, b, c, d)
    BY <2>4, Powers, SMT DEF Val
  <2> QED
    BY <2>5 DEF u
<1>6. Pow2(A[1] \div 64) = 4
  BY <1>1, <1>3, Powers, SMT
<1>8. Announces(A, 4) /\ Plain(A, B)
  BY <1>1, <1>b, <1>3, <1>4, <1>6, Zenon DEF Announces, Plain
<1>m. 4 \in 1 .. 8
  OBVIOUS
<1>9. Valued(A, Val(a, b, c, d))
  BY <1>5, Zenon DEF Valued
<1>7. Good(A, Val(a, b, c, d))
  BY <1>1, <1>b, <1>2, <1>8, <1>9, <1>m, GoodIs
<1> QED
  BY <1>7 DEF A

LEMMA FormEight ==
  ASSUME NEW a \in Octet, NEW b \in Octet, NEW c \in Octet, NEW d \in Octet
  PROVE  Good(<<192, 0, 0, 0, a, b, c, d>>, Val(a, b, c, d))
<1> DEFINE A == <<192, 0, 0, 0, a, b, c, d>>
           B == <<0, 0, 0, 0, a, b, c, d>>
           T == <<0, 0, 0, a, b, c, d>>
<1>0. a \in Nat /\ b \in Nat /\ c \in Nat /\ d \in Nat
  BY DEF Octet
<1>1. A \in Seq(Nat) /\ Len(A) = 8 /\ A[1] = 192
  BY <1>0
<1>b. B \in Seq(Nat) /\ B # <<>> /\ B[1] = 0
  BY <1>0
<1>t. Tail(A) = T /\ Tail(B) = T
  BY <1>0
<1>2. FromBigEndian(B) = Val(a, b, c, d)
  BY <1>0, FromEight
<1>f. FromBigEndian(T) = Val(a, b, c, d)
  BY <1>0, FromSeven
<1> HIDE DEF A, B, T
<1>3. 192 \div 64 = 3 /\ 192 % 64 = 0
  OBVIOUS
<1>4. SizeOf(A[1]) = 8
  BY <1>1, <1>3 DEF SizeOf
<1>5. ASSUME NEW R \in Seq(Nat)
      PROVE  ValueOf(A \o R) = Val(a, b, c, d)
  <2> DEFINE u == A \o R
  <2>m. Len(A) # 0 /\ A \in Seq(Nat)
    BY <1>1
  <2>0. u[1] = A[1] /\ SubSeq(u, 2, Len(A)) = Tail(A)
    BY <2>m, Followed
  <2>1. u[1] = A[1] /\ SubSeq(u, 2, 8) = T
    BY <1>1, <1>t, <2>0, Zenon
  <2> HIDE DEF u
  <2>2. SizeOf(u[1]) = 8
    BY <1>4, <2>1
  <2>3. ValueOf(u) = FromBigEndian(SubSeq(u, 2, 8))
    BY <2>2 DEF ValueOf
  <2> QED
    BY <1>f, <2>1, <2>3 DEF u
<1>6. Pow2(A[1] \div 64) = 8
  BY <1>1, <1>3, Powers, SMT
<1>8. Announces(A, 8) /\ Plain(A, B)
  BY <1>1, <1>b, <1>t, <1>3, <1>4, <1>6, Zenon DEF Announces, Plain
<1>m. 8 \in 1 .. 8
  OBVIOUS
<1>9. Valued(A, Val(a, b, c, d))
  BY <1>5, Zenon DEF Valued
<1>7. Good(A, Val(a, b, c, d))
  BY <1>1, <1>b, <1>2, <1>8, <1>9, <1>m, GoodIs
<1> QED
  BY <1>7 DEF A

(* The bytes that both writers choose. *)
Cons(x, s) == <<x>> \o s
Two(x, d) == <<x, d>>
Three(b, c, d) == <<b, c, d>>
Four(x, b, c, d) == <<x, b, c, d>>
Seven(a, b, c, d) == <<0, 0, 0, a, b, c, d>>
Eight(x, a, b, c, d) == <<x, 0, 0, 0, a, b, c, d>>

LEMMA ConsTwo ==
  ASSUME NEW x \in Nat, NEW d \in Nat
  PROVE  <<x>> \o <<d>> = Two(x, d)
<1> DEFINE t == <<x, d>>
           r == <<d>>
<1>1. t \in Seq(Nat) /\ t # <<>> /\ t[1] = x /\ Tail(t) = r /\ r \in Seq(Nat)
  OBVIOUS
<1> HIDE DEF t, r
<1>2. <<x>> \o r = t
  BY <1>1, ConsIs
<1> QED
  BY <1>2 DEF t, r, Two

LEMMA ConsFour ==
  ASSUME NEW x \in Nat, NEW b \in Nat, NEW c \in Nat, NEW d \in Nat
  PROVE  Cons(x, Three(b, c, d)) = Four(x, b, c, d)
<1> DEFINE t == <<x, b, c, d>>
           r == <<b, c, d>>
<1>1. t \in Seq(Nat) /\ t # <<>> /\ t[1] = x /\ Tail(t) = r /\ r \in Seq(Nat)
  OBVIOUS
<1> HIDE DEF t, r
<1>2. <<x>> \o r = t
  BY <1>1, ConsIs
<1> QED
  BY <1>2 DEF t, r, Three, Four, Cons

LEMMA ConsEight ==
  ASSUME NEW x \in Nat, NEW a \in Nat, NEW b \in Nat, NEW c \in Nat, NEW d \in Nat
  PROVE  Cons(x, Seven(a, b, c, d)) = Eight(x, a, b, c, d)
<1> DEFINE t == <<x, 0, 0, 0, a, b, c, d>>
           r == <<0, 0, 0, a, b, c, d>>
<1>1. t \in Seq(Nat) /\ t # <<>> /\ t[1] = x /\ r \in Seq(Nat)
  OBVIOUS
<1>2. Tail(t) = r
  OBVIOUS
<1> HIDE DEF t, r
<1>3. <<x>> \o r = t
  BY <1>1, <1>2, ConsIs
<1> QED
  BY <1>3, Zenon DEF t, r, Seven, Eight, Cons

LEMMA BigEndians ==
  ASSUME NEW a \in Octet, NEW b \in Octet, NEW c \in Octet, NEW d \in Octet,
         NEW v, v = Val(a, b, c, d)
  PROVE  /\ BigEndian(v, 2) = Two(c, d) /\ BigEndian(v, 3) = Three(b, c, d)
         /\ BigEndian(v, 4) = Four(a, b, c, d)
         /\ BigEndian(v, 7) = Seven(a, b, c, d)
         /\ BigEndian(v, 8) = Eight(0, a, b, c, d)
<1>1. /\ Byte(v, 0) = d /\ Byte(v, 1) = c /\ Byte(v, 2) = b /\ Byte(v, 3) = a
      /\ \A k \in 4 .. 7 : Byte(v, k) = 0
  BY BytesAre
<1>2. Byte(v, 4) = 0 /\ Byte(v, 5) = 0 /\ Byte(v, 6) = 0 /\ Byte(v, 7) = 0
  BY <1>1
<1>3. BigEndian(v, 2) = <<c, d>>
  <2>1. 2 - 1 = 1 /\ 2 - 2 = 0
    OBVIOUS
  <2> QED
    BY <1>1, <2>1 DEF BigEndian
<1>4. BigEndian(v, 3) = <<b, c, d>>
  <2>1. 3 - 1 = 2 /\ 3 - 2 = 1 /\ 3 - 3 = 0
    OBVIOUS
  <2> QED
    BY <1>1, <2>1 DEF BigEndian
<1>5. BigEndian(v, 4) = <<a, b, c, d>>
  <2>1. 4 - 1 = 3 /\ 4 - 2 = 2 /\ 4 - 3 = 1 /\ 4 - 4 = 0
    OBVIOUS
  <2> QED
    BY <1>1, <2>1 DEF BigEndian
<1>6. BigEndian(v, 7) = <<0, 0, 0, a, b, c, d>>
  <2>1. 7 - 1 = 6 /\ 7 - 2 = 5 /\ 7 - 3 = 4 /\ 7 - 4 = 3 /\ 7 - 5 = 2 /\ 7 - 6 = 1 /\ 7 - 7 = 0
    OBVIOUS
  <2> QED
    BY <1>1, <1>2, <2>1 DEF BigEndian
<1>7. BigEndian(v, 8) = <<0, 0, 0, 0, a, b, c, d>>
  <2>1. /\ 8 - 1 = 7 /\ 8 - 2 = 6 /\ 8 - 3 = 5 /\ 8 - 4 = 4 /\ 8 - 5 = 3 /\ 8 - 6 = 2
        /\ 8 - 7 = 1 /\ 8 - 8 = 0
    OBVIOUS
  <2> QED
    BY <1>1, <1>2, <2>1 DEF BigEndian
<1> QED
  BY <1>3, <1>4, <1>5, <1>6, <1>7, Zenon DEF Two, Three, Four, Seven, Eight

LEMMA TaggedIs ==
  ASSUME NEW a \in Nat, NEW b \in Nat, NEW c \in Nat, NEW d \in Nat
  PROVE  /\ Tagged(1, Two(c, d)) = Two(c + 64, d)
         /\ Tagged(2, Four(a, b, c, d)) = Four(a + 128, b, c, d)
         /\ Tagged(3, Eight(0, a, b, c, d)) = Eight(192, a, b, c, d)
<1>0. 64 * 1 = 64 /\ 64 * 2 = 128 /\ 0 + 64 * 3 = 192 /\ c + 64 \in Nat /\ a + 128 \in Nat
  OBVIOUS
<1>1. Tagged(1, Two(c, d)) = Two(c + 64, d)
  <2>1. <<c, d>>[1] = c /\ Tail(<<c, d>>) = <<d>>
    OBVIOUS
  <2>2. Tagged(1, Two(c, d)) = <<c + 64>> \o <<d>>
    BY <1>0, <2>1, Zenon DEF Tagged, Two
  <2> QED
    BY <1>0, <2>2, ConsTwo
<1>2. Tagged(2, Four(a, b, c, d)) = Four(a + 128, b, c, d)
  <2>1. <<a, b, c, d>>[1] = a /\ Tail(<<a, b, c, d>>) = <<b, c, d>>
    OBVIOUS
  <2>2. Tagged(2, Four(a, b, c, d)) = Cons(a + 128, Three(b, c, d))
    BY <1>0, <2>1, Zenon DEF Tagged, Three, Four, Cons
  <2> QED
    BY <1>0, <2>2, ConsFour
<1>3. Tagged(3, Eight(0, a, b, c, d)) = Eight(192, a, b, c, d)
  <2> DEFINE t == Eight(0, a, b, c, d)
  <2>1. t[1] = 0
    BY DEF Eight
  <2>2. Tail(t) = Seven(a, b, c, d)
    BY DEF Seven, Eight
  <2> HIDE DEF t
  <2>3. Tagged(3, t) = Cons(192, Seven(a, b, c, d))
    BY <1>0, <2>1, <2>2, Zenon DEF Tagged, Cons
  <2>4. Cons(192, Seven(a, b, c, d)) = Eight(192, a, b, c, d)
    BY ConsEight
  <2> QED
    BY <2>3, <2>4, Zenon DEF t
<1> QED
  BY <1>1, <1>2, <1>3

(* Both sides write a value alike, and what they write is the value to     *)
(* both readers.                                                           *)
LEMMA Written ==
  ASSUME NEW v \in Word
  PROVE  /\ VarIntWrite(v) = writeVarInt(v) /\ Good(writeVarInt(v), v)
         /\ v < 64 => writeVarInt(v) = <<v>>
         /\ 64 <= v => Len(writeVarInt(v)) >= 2 /\ writeVarInt(v)[1] >= 64
<1>0. v \in Nat
  BY SMT DEF Word
<1>1. PICK a, b, c, d \in Octet : v = Val(a, b, c, d) /\ a < 128
  BY HasBytes
<1>2. a \in Nat /\ b \in Nat /\ c \in Nat /\ d \in Nat
      /\ a < 256 /\ b < 256 /\ c < 256 /\ d < 256
  BY DEF Octet
<1> DEFINE w == writeVarInt(v)
           z == VarIntWrite(v)
<1>be. /\ BigEndian(v, 2) = Two(c, d) /\ BigEndian(v, 4) = Four(a, b, c, d)
       /\ BigEndian(v, 7) = Seven(a, b, c, d) /\ BigEndian(v, 8) = Eight(0, a, b, c, d)
  BY <1>1, BigEndians
<1>tg. /\ Tagged(1, Two(c, d)) = Two(c + 64, d)
       /\ Tagged(2, Four(a, b, c, d)) = Four(a + 128, b, c, d)
       /\ Tagged(3, Eight(0, a, b, c, d)) = Eight(192, a, b, c, d)
  BY <1>2, TaggedIs
<1>3. ASSUME v < 64
      PROVE  z = w /\ Good(w, v) /\ w = <<v>> /\ ~(64 <= v)
  <2>1. w = <<v>> /\ z = <<v>>
    BY <1>0, <1>3, SMT DEF writeVarInt, VarIntWrite
  <2>2. Good(<<v>>, v) /\ ~(64 <= v)
    BY <1>0, <1>3, FormOne
  <2> QED
    BY <2>1, <2>2
<1>4. ASSUME 64 <= v, v < 16384
      PROVE  z = w /\ Good(w, v) /\ Len(w) >= 2 /\ w[1] >= 64
  <2>1. w = Tagged(1, BigEndian(v, 2))
    BY <1>0, <1>4, SMT DEF writeVarInt
  <2>2. c < 64 /\ v = c * 256 + d
    BY <1>1, <1>2, <1>4, SMT DEF Val
  <2>3. w = Two(c + 64, d)
    BY <1>be, <1>tg, <2>1
  <2>4. z = Two(c + 64, d)
    <3> DEFINE y == v + 16384
               c1 == c + 64
    <3>0. z = BigEndian(y, 2)
      BY <1>0, <1>4, SMT DEF VarIntWrite
    <3>1. y = Val(0, 0, c1, d)
      BY <1>2, <2>2, SMT DEF Val
    <3>2. 0 \in Octet /\ c1 \in Octet
      BY <1>2, <2>2 DEF Octet
    <3> HIDE DEF y, c1
    <3>3. BigEndian(y, 2) = Two(c1, d)
      BY <3>1, <3>2, BigEndians
    <3> QED
      BY <3>0, <3>3 DEF c1
  <2>5. Good(Two(c + 64, d), v)
    BY <2>2, FormTwo DEF Two
  <2>6. Len(Two(c + 64, d)) >= 2 /\ Two(c + 64, d)[1] >= 64
    BY <1>2 DEF Two
  <2> QED
    BY <2>3, <2>4, <2>5, <2>6
<1>5. ASSUME 16384 <= v, v < 1073741824
      PROVE  z = w /\ Good(w, v) /\ Len(w) >= 2 /\ w[1] >= 64
  <2>1. w = Tagged(2, BigEndian(v, 4))
    BY <1>0, <1>5, SMT DEF writeVarInt
  <2>2. a < 64
    BY <1>1, <1>2, <1>5, SMT DEF Val
  <2>3. w = Four(a + 128, b, c, d)
    BY <1>be, <1>tg, <2>1, SMT
  <2>4. z = Four(a + 128, b, c, d)
    <3> DEFINE y == v % Pow2(24)
               a1 == a + 128
    <3>0. z = <<Byte(v, 3) + 128>> \o BigEndian(y, 3)
      BY <1>0, <1>5, SMT DEF VarIntWrite
    <3>1. y = Val(0, b, c, d)
      <4>1. v % 16777216 = Val(0, b, c, d)
        BY <1>1, <1>2, SMT DEF Val
      <4> QED
        BY <4>1, Powers, SMT
    <3>2. 0 \in Octet /\ a1 \in Nat
      BY <1>2, <2>2, SMT DEF Octet
    <3> HIDE DEF y, a1
    <3>3. BigEndian(y, 3) = Three(b, c, d)
      BY <3>1, <3>2, BigEndians, SMT
    <3>4. Byte(v, 3) = a
      BY <1>1, BytesAre, SMT
    <3>5. Cons(a1, Three(b, c, d)) = Four(a1, b, c, d)
      BY <1>2, <3>2, ConsFour, SMT
    <3>6. z = Cons(a1, Three(b, c, d))
      BY <3>0, <3>3, <3>4, SMT DEF a1, Cons
    <3> QED
      BY <3>5, <3>6, SMT DEF a1
  <2>5. Good(Four(a + 128, b, c, d), v)
    BY <1>1, <2>2, FormFour, SMT DEF Four
  <2>6. Len(Four(a + 128, b, c, d)) >= 2 /\ Four(a + 128, b, c, d)[1] >= 64
    BY <1>2, SMT DEF Four
  <2> QED
    BY <2>3, <2>4, <2>5, <2>6, SMT
<1>6. ASSUME 1073741824 <= v
      PROVE  z = w /\ Good(w, v) /\ Len(w) >= 2 /\ w[1] >= 64
  <2>1. w = Tagged(3, BigEndian(v, 8)) /\ z = <<192>> \o BigEndian(v, 7)
    BY <1>0, <1>6, SMT DEF writeVarInt, VarIntWrite
  <2>3. w = Eight(192, a, b, c, d)
    BY <1>be, <1>tg, <2>1, SMT
  <2>4. z = Eight(192, a, b, c, d)
    <3>1. Cons(192, Seven(a, b, c, d)) = Eight(192, a, b, c, d)
      BY <1>2, ConsEight, SMT
    <3> QED
      BY <1>be, <2>1, <3>1, SMT DEF Cons
  <2>5. Good(Eight(192, a, b, c, d), v)
    BY <1>1, FormEight, SMT DEF Eight
  <2>6. Len(Eight(192, a, b, c, d)) >= 2 /\ Eight(192, a, b, c, d)[1] >= 64
    BY <1>2, SMT DEF Eight
  <2> QED
    BY <2>3, <2>4, <2>5, <2>6, SMT
<1> HIDE DEF w, z
<1>7. /\ v < 64 \/ (64 <= v /\ v < 16384) \/ (16384 <= v /\ v < 1073741824) \/ 1073741824 <= v
      /\ 64 <= v => ~(v < 64)
  BY <1>0, SMT
<1>8. /\ z = w /\ Good(w, v) /\ (v < 64 => w = <<v>>)
      /\ 64 <= v => Len(w) >= 2 /\ w[1] >= 64
  BY <1>3, <1>4, <1>5, <1>6, <1>7, SMT
<1> QED
  BY <1>8 DEF w, z

(* writeVarInt of the Go programs and VarInt.write give the same bytes for *)
(* every integer below 2^31; readVarInt and VarInt.decode read it back,    *)
(* take nothing of what follows, and notice when a byte is missing.        *)
THEOREM VarIntsRoundTrip ==
  ASSUME NEW v \in Word
  PROVE  VarIntsAgree(v)
<1> DEFINE w == writeVarInt(v)
<1>1. VarIntWrite(v) = w /\ Good(w, v)
  BY Written
<1>2. Junk \in Seq(Nat)
  BY DEF Junk
<1> HIDE DEF w
<1>3. /\ readVarInt(w \o Junk) = ReadAs(v, Junk)
      /\ VarIntDecode(w \o Junk) = ReadAs(v, Junk)
      /\ \A n \in 0 .. (Len(w) - 1) :
           readVarInt(SubSeq(w, 1, n)) = Short /\ VarIntDecode(SubSeq(w, 1, n)) = Short
  BY <1>1, <1>2, Zenon DEF Good
<1> QED
  BY <1>1, <1>3, Zenon DEF VarIntsAgree, w

-----------------------------------------------------------------------------
(* The prefix integers of QPACK. *)

(* What a turn of the decoder's loop adds. *)
Adds(s, k) == (s[k] % 128) * Pow2(7 * (k - 1))
LoopOf(val, s, n, h) ==
  /\ h[0] = val /\ \A k \in 1 .. n : h[k] = h[k - 1] + Adds(s, k)
  /\ \A k \in 0 .. n : h[k] \in Nat

LEMMA AddsIs ==
  ASSUME NEW s \in Seq(Nat), NEW k \in 1 .. Len(s)
  PROVE  Adds(s, k) \in Nat
<1>1. s[k] \in Nat /\ 7 * (k - 1) \in Nat
  OBVIOUS
<1>2. s[k] % 128 \in Nat /\ Pow2(7 * (k - 1)) \in Nat
  <2> DEFINE m == 7 * (k - 1)
             x == s[k]
  <2>1. m \in Nat /\ x \in Nat
    BY <1>1
  <2> HIDE DEF m, x
  <2>2. Pow2(m) \in Nat
    BY <2>1, Pow2Next, Zenon
  <2>3. x % 128 \in Nat
    BY <2>1
  <2> QED
    BY <2>2, <2>3 DEF m, x
<1> DEFINE a == s[k] % 128
           p == Pow2(7 * (k - 1))
<1>3. a \in Nat /\ p \in Nat
  BY <1>2
<1> HIDE DEF a, p
<1>4. a * p \in Nat
  BY <1>3
<1> QED
  BY <1>4 DEF Adds, a, p

LEMMA LoopRun ==
  ASSUME NEW val \in Nat, NEW s \in Seq(Nat), NEW n \in 0 .. Len(s)
  PROVE  \E h : LoopOf(val, s, n, h) /\ IntegerLoop(val, s, n) = h[n]
<1> DEFINE step(f) == [k \in 0 .. n |-> IF k = 0 THEN val ELSE f[k - 1] + Adds(s, k)]
           h == CHOOSE f : f = step(f)
           F == [p \in (1 .. n) \X Nat |-> p[2] + Adds(s, p[1])]
<1>0. n \in Nat /\ \A k \in 1 .. n : Adds(s, k) \in Nat
  <2>1. n \in Nat /\ \A k \in 1 .. n : k \in 1 .. Len(s)
    OBVIOUS
  <2> QED
    BY <2>1, AddsIs
<1>1. IntegerLoop(val, s, n) = h[n]
  BY Zenon DEF IntegerLoop, Adds
<1>2. PICK g \in [0 .. n -> Nat] :
        g[0] = val /\ \A k \in 1 .. n : g[k] = F[<<k, g[k - 1]>>]
  <2> DEFINE T == Nat
  <2>2. val \in T /\ F \in [(1 .. n) \X T -> T]
    BY <1>0
  <2> HIDE DEF F, T
  <2>3. F \in Turns(n, T)
    BY <2>2 DEF Turns
  <2>4. \E g : RunOf(n, T, val, F, g)
    BY <1>0, <2>2, <2>3, Iterates
  <2> QED
    BY <2>4 DEF RunOf, T
<1>3. ASSUME NEW k \in 1 .. n
      PROVE  g[k] = g[k - 1] + Adds(s, k)
  <2>1. k - 1 \in 0 .. n
    BY <1>0
  <2>2. g[k - 1] \in Nat
    BY <1>2, <2>1
  <2>3. F[<<k, g[k - 1]>>] = g[k - 1] + Adds(s, k)
    BY <2>2
  <2> HIDE DEF F
  <2> QED
    BY <1>2, <2>3
<1>4. g = step(g)
  <2>1. \A k \in 0 .. n : g[k] = IF k = 0 THEN val ELSE g[k - 1] + Adds(s, k)
    BY <1>0, <1>2, <1>3
  <2>2. g = [k \in 0 .. n |-> g[k]]
    BY <1>2
  <2> QED
    BY <2>1, <2>2
<1>5. h = step(h)
  <2> HIDE DEF step
  <2> QED
    BY <1>4, Zenon
<1> HIDE DEF h
<1>6. \A k \in 0 .. n : h[k] = IF k = 0 THEN val ELSE h[k - 1] + Adds(s, k)
  BY <1>5, Zenon
<1>7. h[0] = val /\ \A k \in 1 .. n : h[k] = h[k - 1] + Adds(s, k)
  <2>1. 0 \in 0 .. n /\ \A i \in 1 .. n : i \in 0 .. n /\ i # 0
    BY <1>0
  <2> QED
    BY <1>6, <2>1, Zenon
<1> DEFINE I == {k \in 0 .. n : h[k] \in Nat}
<1>8. 0 \in I
  BY <1>0, <1>7
<1>9. ASSUME NEW k \in 1 .. n, k - 1 \in I
      PROVE  k \in I
  BY <1>0, <1>7, <1>9, SMTT(40)
<1> HIDE DEF I
<1>10. \A k \in 0 .. n : k \in I
  BY <1>0, <1>8, <1>9, Induct
<1>11. \A k \in 0 .. n : h[k] \in Nat
  BY <1>10 DEF I
<1> QED
  BY <1>1, <1>7, <1>11, Zenon DEF LoopOf

(* The loop depends on the bytes it reads alone. *)
LEMMA LoopsAgree ==
  ASSUME NEW val, NEW s, NEW t, NEW n \in Nat, NEW m \in Nat, m <= n, NEW g, NEW h,
         LoopOf(val, s, n, g), LoopOf(val, t, m, h), \A k \in 1 .. m : s[k] = t[k]
  PROVE  g[m] = h[m]
<1> DEFINE I == {k \in 0 .. m : g[k] = h[k]}
<1>1. 0 \in I
  BY DEF LoopOf
<1>2. ASSUME NEW k \in 1 .. m, k - 1 \in I
      PROVE  k \in I
  <2>1. Adds(s, k) = Adds(t, k)
    BY DEF Adds
  <2>2. g[k] = g[k - 1] + Adds(s, k) /\ h[k] = h[k - 1] + Adds(t, k)
    BY DEF LoopOf
  <2>3. g[k - 1] = h[k - 1]
    BY <1>2
  <2> QED
    BY <2>1, <2>2, <2>3
<1> HIDE DEF I
<1>3. \A k \in 0 .. m : k \in I
  BY <1>1, <1>2, Induct
<1> QED
  BY <1>3 DEF I

LEMMA LoopSame ==
  ASSUME NEW val \in Nat, NEW s \in Seq(Nat), NEW t \in Seq(Nat),
         NEW n \in Nat, n <= Len(s), n <= Len(t), \A k \in 1 .. n : s[k] = t[k]
  PROVE  IntegerLoop(val, s, n) = IntegerLoop(val, t, n)
<1>1. n \in 0 .. Len(s) /\ n \in 0 .. Len(t) /\ n <= n
  OBVIOUS
<1>2. PICK g : LoopOf(val, s, n, g) /\ IntegerLoop(val, s, n) = g[n]
  BY <1>1, LoopRun
<1>3. PICK h : LoopOf(val, t, n, h) /\ IntegerLoop(val, t, n) = h[n]
  BY <1>1, LoopRun
<1>4. g[n] = h[n]
  BY <1>1, <1>2, <1>3, LoopsAgree
<1> QED
  BY <1>2, <1>3, <1>4

LEMMA LoopNext ==
  ASSUME NEW val \in Nat, NEW s \in Seq(Nat), NEW n \in Nat, n + 1 <= Len(s)
  PROVE  /\ IntegerLoop(val, s, 0) = val /\ IntegerLoop(val, s, n) \in Nat
         /\ IntegerLoop(val, s, n + 1) = IntegerLoop(val, s, n) + Adds(s, n + 1)
<1>1. n \in 0 .. Len(s) /\ n + 1 \in 0 .. Len(s) /\ 0 \in 0 .. Len(s) /\ n <= n + 1
      /\ n + 1 \in Nat /\ n + 1 \in 1 .. (n + 1) /\ (n + 1) - 1 = n /\ n \in 0 .. n
  OBVIOUS
<1>2. PICK g : LoopOf(val, s, n + 1, g) /\ IntegerLoop(val, s, n + 1) = g[n + 1]
  BY <1>1, LoopRun
<1>3. PICK h : LoopOf(val, s, n, h) /\ IntegerLoop(val, s, n) = h[n]
  BY <1>1, LoopRun
<1>4. PICK f : LoopOf(val, s, 0, f) /\ IntegerLoop(val, s, 0) = f[0]
  BY <1>1, LoopRun
<1>5. g[n] = h[n]
  BY <1>1, <1>2, <1>3, LoopsAgree
<1>6. g[n + 1] = g[n] + Adds(s, n + 1) /\ h[n] \in Nat /\ f[0] = val
  BY <1>1, <1>2, <1>3, <1>4 DEF LoopOf
<1> QED
  BY <1>2, <1>3, <1>4, <1>5, <1>6

(* Seven bits more. *)
LEMMA SevenMore ==
  ASSUME NEW n \in Nat
  PROVE  /\ Pow2(7 * n) \in Nat /\ Pow2(7 * (n + 1)) = 128 * Pow2(7 * n)
<1> DEFINE m == 7 * n
<1>1. m \in Nat /\ 7 * (n + 1) = m + 7
  OBVIOUS
<1> HIDE DEF m
<1>2. /\ Pow2(m) \in Nat /\ Pow2(m + 1) = 2 * Pow2(m)
      /\ Pow2((m + 1) + 1) = 2 * Pow2(m + 1) /\ Pow2((m + 2) + 1) = 2 * Pow2(m + 2)
      /\ Pow2((m + 3) + 1) = 2 * Pow2(m + 3) /\ Pow2((m + 4) + 1) = 2 * Pow2(m + 4)
      /\ Pow2((m + 5) + 1) = 2 * Pow2(m + 5) /\ Pow2((m + 6) + 1) = 2 * Pow2(m + 6)
  <2>1. /\ m + 1 \in Nat /\ m + 2 \in Nat /\ m + 3 \in Nat /\ m + 4 \in Nat
        /\ m + 5 \in Nat /\ m + 6 \in Nat
    BY <1>1
  <2> QED
    BY <1>1, <2>1, Pow2Next
<1>3. /\ (m + 1) + 1 = m + 2 /\ (m + 2) + 1 = m + 3 /\ (m + 3) + 1 = m + 4
      /\ (m + 4) + 1 = m + 5 /\ (m + 5) + 1 = m + 6 /\ (m + 6) + 1 = m + 7
  BY <1>1
<1>4. Pow2(m + 7) = 128 * Pow2(m)
  BY <1>2, <1>3
<1> QED
  BY <1>1, <1>2, <1>4 DEF m

(* The states of the encoder's loop: nothing is lost between what is out   *)
(* and what is left, and every byte out says that more follow.             *)
Encoded(val, e, x) ==
  /\ x.extra \in Nat /\ x.out \in Seq(Nat)
  /\ \A i \in 1 .. Len(x.out) : x.out[i] >= 128
  /\ IntegerLoop(val, x.out, Len(x.out)) + x.extra * Pow2(7 * Len(x.out)) = val + e
  /\ IntegerLoop(val, x.out, Len(x.out)) \in Nat

(* One byte more at the end. *)
Grows(val, s, b) ==
  /\ Append(s, b) \in Seq(Nat) /\ Len(Append(s, b)) = Len(s) + 1
  /\ \A i \in 1 .. Len(s) : Append(s, b)[i] = s[i]
  /\ Append(s, b)[Len(s) + 1] = b
  /\ IntegerLoop(val, s, Len(s)) \in Nat
  /\ IntegerLoop(val, Append(s, b), Len(s) + 1)
       = IntegerLoop(val, s, Len(s)) + (b % 128) * Pow2(7 * Len(s))

LEMMA LoopAppend ==
  ASSUME NEW val \in Nat, NEW s \in Seq(Nat), NEW b \in Nat
  PROVE  Grows(val, s, b)
<1> DEFINE t == Append(s, b)
           n == Len(s)
<1>1. t \in Seq(Nat) /\ Len(t) = n + 1 /\ t[n + 1] = b /\ n \in Nat
      /\ \A i \in 1 .. n : t[i] = s[i]
  OBVIOUS
<1> HIDE DEF t
<1>2. n <= Len(t) /\ n <= n /\ n + 1 <= Len(t) /\ (n + 1) - 1 = n
  BY <1>1
<1>3. IntegerLoop(val, t, n) = IntegerLoop(val, s, n)
  BY <1>1, <1>2, LoopSame
<1> HIDE DEF n
<1>4. /\ IntegerLoop(val, t, n) \in Nat
      /\ IntegerLoop(val, t, n + 1) = IntegerLoop(val, t, n) + Adds(t, n + 1)
  BY <1>1, <1>2, LoopNext
<1>5. Adds(t, n + 1) = (b % 128) * Pow2(7 * n)
  BY <1>1, <1>2, Zenon DEF Adds
<1>6. /\ IntegerLoop(val, s, n) \in Nat
      /\ IntegerLoop(val, t, n + 1) = IntegerLoop(val, s, n) + (b % 128) * Pow2(7 * n)
  BY <1>3, <1>4, <1>5, Zenon
<1> QED
  BY <1>1, <1>6, Zenon DEF t, n, Grows

LEMMA SplitSeven ==
  ASSUME NEW x \in Nat, NEW p \in Nat
  PROVE  /\ x \div 128 \in Nat /\ x % 128 \in Nat /\ ((x % 128) + 128) % 128 = x % 128
         /\ (x % 128) * p + (x \div 128) * (128 * p) = x * p
<1> DEFINE q == x \div 128
           r == x % 128
<1>1. q \in Nat /\ r \in Nat /\ r < 128 /\ x = q * 128 + r
  OBVIOUS
<1> HIDE DEF q, r
<1>2. (r + 128) % 128 = r
  BY <1>1
<1>3. r * p + q * (128 * p) = (q * 128 + r) * p
  BY <1>1
<1> QED
  BY <1>1, <1>2, <1>3 DEF q, r

LEMMA OneByteKeeps ==
  ASSUME NEW val \in Nat, NEW e \in Nat, NEW x, Encoded(val, e, x)
  PROVE  /\ Encoded(val, e, OneByte(x))
         /\ \A m \in Nat : m >= 128 /\ x.extra < 128 * m => OneByte(x).extra < m
<1> DEFINE E == x.extra
           o == x.out
           n == Len(o)
           p == Pow2(7 * n)
           b == (E % 128) + 128
           y == [extra |-> E \div 128, out |-> Append(o, b)]
<1>1. E \in Nat /\ o \in Seq(Nat) /\ n \in Nat /\ (\A i \in 1 .. n : o[i] >= 128)
      /\ IntegerLoop(val, o, n) + E * p = val + e
  BY DEF Encoded
<1>2. CASE E < 128
  <2>1. OneByte(x) = x
    BY <1>2 DEF OneByte
  <2> QED
    BY <1>1, <1>2, <2>1
<1>3. CASE ~(E < 128)
  <2>1. OneByte(x) = y
    BY <1>3, Zenon DEF OneByte
  <2>2. y.extra = E \div 128 /\ y.out = Append(o, b)
    OBVIOUS
  <2> HIDE DEF y
  <2>3. b \in Nat /\ b >= 128 /\ E \div 128 \in Nat
    BY <1>1
  <2>4. p \in Nat /\ Pow2(7 * (n + 1)) = 128 * p
    <3> HIDE DEF n
    <3> QED
      BY <1>1, SevenMore
  <2> HIDE DEF E, o, p, b
  <2> DEFINE t == Append(o, b)
  <2>5. /\ t \in Seq(Nat) /\ Len(t) = n + 1 /\ \A i \in 1 .. n : t[i] = o[i]
        /\ t[n + 1] = b /\ IntegerLoop(val, o, n) \in Nat
        /\ IntegerLoop(val, t, n + 1) = IntegerLoop(val, o, n) + (b % 128) * p
    <3>1. o \in Seq(Nat) /\ b \in Nat
      BY <1>1, <2>3
    <3>2. Grows(val, o, b)
      BY <3>1, LoopAppend
    <3> QED
      BY <3>2 DEF p, Grows
  <2> HIDE DEF t, n
  <2>6. \A i \in 1 .. (n + 1) : t[i] >= 128
    <3> SUFFICES ASSUME NEW i \in 1 .. (n + 1) PROVE t[i] >= 128
      OBVIOUS
    <3>1. i = n + 1 \/ i \in 1 .. n
      BY <1>1
    <3>2. CASE i = n + 1
      <4>1. t[i] = b
        BY <2>5, <3>2, Zenon
      <4> QED
        BY <2>3, <4>1
    <3>3. CASE i \in 1 .. n
      <4>1. t[i] = o[i] /\ o[i] >= 128
        BY <1>1, <2>5, <3>3, Zenon
      <4> QED
        BY <4>1
    <3> QED
      BY <3>1, <3>2, <3>3
  <2>7. /\ b % 128 = E % 128 /\ E % 128 \in Nat
        /\ (E % 128) * p + (E \div 128) * (128 * p) = E * p
    BY <1>1, <2>4, SplitSeven DEF b
  <2> DEFINE a1 == (E % 128) * p
             a2 == (E \div 128) * (128 * p)
             l == IntegerLoop(val, o, n)
  <2>8. a1 \in Nat /\ a2 \in Int /\ a1 + a2 = E * p /\ l \in Nat
    <3> DEFINE r == E % 128
               q == E \div 128
    <3>1. r \in Nat /\ q \in Nat /\ p \in Nat
      BY <2>3, <2>4, <2>7
    <3> HIDE DEF r, q
    <3>2. r * p \in Nat /\ q * (128 * p) \in Int
      BY <3>1
    <3> QED
      BY <2>5, <2>7, <3>2, Zenon DEF r, q
  <2>9. IntegerLoop(val, t, n + 1) = l + a1
    BY <2>5, <2>7, Zenon
  <2> HIDE DEF a1, a2, l
  <2>10. (l + a1) + a2 = val + e /\ l + a1 \in Nat
    BY <1>1, <2>8 DEF l
  <2>11. Encoded(val, e, y)
    <3>1. y.extra \in Nat /\ y.out = t /\ Len(t) = n + 1 /\ t \in Seq(Nat)
      BY <2>2, <2>3, <2>5, Zenon DEF t
    <3>2. y.extra * Pow2(7 * Len(t)) = a2
      BY <2>2, <2>4, <2>5, Zenon DEF a2
    <3> QED
      BY <2>5, <2>6, <2>9, <2>10, <3>1, <3>2, ZenonT(60) DEF Encoded
  <2>12. ASSUME NEW m \in Nat, E < 128 * m
         PROVE  E \div 128 < m
    BY <1>1, <2>12
  <2> QED
    BY <2>1, <2>2, <2>11, <2>12, Zenon DEF E
<1> QED
  BY <1>2, <1>3

(* The encoder's loop, turn by turn. *)
Start(e) == [extra |-> e, out |-> <<>>]
Left(e) == OneByte(OneByte(OneByte(OneByte(Start(e)))))

LEMMA ContinuedIs ==
  ASSUME NEW e
  PROVE  Continued(e) = Append(Left(e).out, Left(e).extra)
<1> DEFINE step(f) == [n \in 0 .. 4 |-> IF n = 0 THEN Start(e) ELSE OneByte(f[n - 1])]
           h == CHOOSE f : f = step(f)
           x1 == OneByte(Start(e))
           x2 == OneByte(x1)
           x3 == OneByte(x2)
           x4 == OneByte(x3)
           g == [n \in 0 .. 4 |-> IF n = 0 THEN Start(e) ELSE IF n = 1 THEN x1
                   ELSE IF n = 2 THEN x2 ELSE IF n = 3 THEN x3 ELSE x4]
<1>1. Continued(e) = Append(h[4].out, h[4].extra)
  BY Zenon DEF Continued, Start
<1>2. g = step(g)
  <2>1. g[0] = Start(e) /\ g[1] = x1 /\ g[2] = x2 /\ g[3] = x3 /\ g[4] = x4
    <3> HIDE DEF x1, x2, x3, x4
    <3> QED
      OBVIOUS
  <2>2. g = [n \in 0 .. 4 |-> g[n]]
    <3> HIDE DEF x1, x2, x3, x4
    <3> QED
      OBVIOUS
  <2>3. g[1] = OneByte(g[0]) /\ g[2] = OneByte(g[1]) /\ g[3] = OneByte(g[2])
        /\ g[4] = OneByte(g[3])
    <3> HIDE DEF g
    <3> QED
      BY <2>1, Zenon
  <2> HIDE DEF g
  <2>4. \A n \in 0 .. 4 : g[n] = IF n = 0 THEN Start(e) ELSE OneByte(g[n - 1])
    BY <2>1, <2>3
  <2> QED
    BY <2>2, <2>4
<1>3. h = step(h)
  <2> HIDE DEF step, g
  <2> QED
    BY <1>2, Zenon
<1> HIDE DEF h
<1>4. h[0] = Start(e) /\ h[1] = OneByte(h[0]) /\ h[2] = OneByte(h[1])
      /\ h[3] = OneByte(h[2]) /\ h[4] = OneByte(h[3])
  <2>1. \A n \in 0 .. 4 : h[n] = IF n = 0 THEN Start(e) ELSE OneByte(h[n - 1])
    BY <1>3, Zenon
  <2> QED
    BY <2>1
<1> QED
  BY <1>1, <1>4, Zenon DEF Left

(* Five bytes hold every value below 2^35. *)
LEMMA LeftIs ==
  ASSUME NEW val \in Nat, NEW e \in Word
  PROVE  Encoded(val, e, Left(e)) /\ Left(e).extra < 128
<1> DEFINE x0 == Start(e)
           x1 == OneByte(x0)
           x2 == OneByte(x1)
           x3 == OneByte(x2)
           x4 == OneByte(x3)
<1>0. /\ e \in Nat /\ e < 128 * Pow2(28)
      /\ Pow2(28) \in Nat /\ Pow2(21) \in Nat /\ Pow2(14) \in Nat
      /\ Pow2(28) = 128 * Pow2(21) /\ Pow2(21) = 128 * Pow2(14) /\ Pow2(14) = 128 * 128
      /\ Pow2(28) >= 128 /\ Pow2(21) >= 128 /\ Pow2(14) >= 128
  BY Powers, SMT DEF Word
<1>1. Encoded(val, e, x0)
  <2>1. x0.extra = e /\ x0.out = <<>>
    BY DEF Start
  <2>2. <<>> \in Seq(Nat) /\ Len(<<>>) = 0 /\ 7 * 0 = 0 /\ 0 \in 0 .. Len(<<>>)
    OBVIOUS
  <2>3. IntegerLoop(val, <<>>, 0) = val
    <3>1. PICK h : LoopOf(val, <<>>, 0, h) /\ IntegerLoop(val, <<>>, 0) = h[0]
      BY <2>2, LoopRun
    <3> QED
      BY <3>1 DEF LoopOf
  <2>4. Pow2(7 * 0) = 1
    BY <2>2, Powers
  <2>5. e * 1 = e
    BY <1>0
  <2>6. \A i \in 1 .. Len(<<>>) : <<>>[i] >= 128
    OBVIOUS
  <2>7. IntegerLoop(val, x0.out, Len(x0.out)) + x0.extra * Pow2(7 * Len(x0.out)) = val + e
    BY <2>1, <2>2, <2>3, <2>4, <2>5, Zenon
  <2> QED
    BY <1>0, <2>1, <2>2, <2>3, <2>6, <2>7, ZenonT(60) DEF Encoded
<1>2. x0.extra = e
  BY DEF Start
<1> HIDE DEF x0
<1>3. Encoded(val, e, x1) /\ x1.extra < Pow2(28)
  BY <1>0, <1>1, <1>2, OneByteKeeps, SMT
<1> HIDE DEF x1
<1>4. Encoded(val, e, x2) /\ x2.extra < Pow2(21)
  BY <1>0, <1>3, OneByteKeeps, SMT
<1> HIDE DEF x2
<1>5. Encoded(val, e, x3) /\ x3.extra < Pow2(14)
  BY <1>0, <1>4, OneByteKeeps, SMT
<1> HIDE DEF x3
<1>6. Encoded(val, e, x4) /\ x4.extra < 128
  BY <1>0, <1>5, OneByteKeeps, SMT
<1> QED
  BY <1>6 DEF x0, x1, x2, x3, x4, Left

(* What follows a full prefix: the bytes of e, of which the last alone is  *)
(* below 128, as the decoder's loop adds them to val.                      *)
Continues(C, val, e) ==
  /\ C \in Seq(Nat) /\ Len(C) # 0
  /\ \A i \in 1 .. Len(C) : C[i] < 128 <=> i = Len(C)
  /\ IntegerLoop(val, C, Len(C)) = val + e

LEMMA ContinuedAdds ==
  ASSUME NEW val \in Nat, NEW e \in Word
  PROVE  Continues(Continued(e), val, e)
<1> DEFINE o == Left(e).out
           E == Left(e).extra
           n == Len(o)
           C == Continued(e)
           p == Pow2(7 * n)
           l == IntegerLoop(val, o, n)
<1>1. C = Append(o, E)
  BY ContinuedIs, Zenon
<1>2. /\ E \in Nat /\ o \in Seq(Nat) /\ E < 128 /\ l + E * p = val + e
      /\ \A i \in 1 .. n : o[i] >= 128
  BY LeftIs, Zenon DEF Encoded
<1> HIDE DEF o, E, C
<1>3. Grows(val, o, E)
  BY <1>2, LoopAppend
<1>4. E % 128 = E /\ n \in Nat
  BY <1>2
<1>5. /\ C \in Seq(Nat) /\ Len(C) = n + 1 /\ C[n + 1] = E
      /\ \A i \in 1 .. n : C[i] = o[i]
  BY <1>1, <1>3, Zenon DEF Grows
<1>6. IntegerLoop(val, C, n + 1) = l + (E % 128) * p
  BY <1>1, <1>3 DEF Grows
<1>7. IntegerLoop(val, C, n + 1) = val + e
  <2> HIDE DEF l, p, n
  <2> QED
    BY <1>2, <1>4, <1>6
<1>8. \A i \in 1 .. (n + 1) : C[i] < 128 <=> i = n + 1
  <2> SUFFICES ASSUME NEW i \in 1 .. (n + 1) PROVE C[i] < 128 <=> i = n + 1
    OBVIOUS
  <2> HIDE DEF n
  <2>1. i = n + 1 \/ (i \in 1 .. n /\ i # n + 1)
    BY <1>4
  <2>2. CASE i = n + 1
    BY <1>2, <1>5, <2>2
  <2>3. CASE i \in 1 .. n /\ i # n + 1
    <3>1. C[i] = o[i] /\ o[i] >= 128 /\ o[i] \in Nat
      BY <1>2, <1>5, <2>3, SMTT(40) DEF n
    <3> QED
      BY <2>3, <3>1
  <2> QED
    BY <2>1, <2>2, <2>3
<1>9. Len(C) # 0
  BY <1>4, <1>5
<1> HIDE DEF n
<1>10. Continues(C, val, e)
  BY <1>5, <1>7, <1>8, <1>9 DEF Continues
<1> QED
  BY <1>10 DEF C

(* The decoder stops at the first byte below 128. *)
LEMMA DecodesContinued ==
  ASSUME NEW n \in Nat, NEW val \in Nat, val = Pow2(n) - 1, NEW e, NEW C,
         Continues(C, val, e), NEW R \in Seq(Nat)
  PROVE  IntegerDecode(C \o R, val, n) = ReadAs(val + e, R)
<1> DEFINE s == C \o R
           m == Len(C)
           last == {k \in 1 .. Len(s) : s[k] < 128 /\ \A j \in 1 .. (k - 1) : s[j] >= 128}
<1>1. C \in Seq(Nat) /\ Len(C) # 0 /\ m \in Nat /\ IntegerLoop(val, C, m) = val + e
  BY DEF Continues
<1>2. /\ s \in Seq(Nat) /\ Len(s) = m + Len(R) /\ After(s, m) = R /\ Len(R) \in Nat
      /\ \A i \in 1 .. m : s[i] = C[i]
  BY <1>1, Followed, Prefixed
<1>3. \A i \in 1 .. m : s[i] \in Nat /\ (s[i] < 128 <=> i = m)
  <2> SUFFICES ASSUME NEW i \in 1 .. m PROVE s[i] \in Nat /\ (s[i] < 128 <=> i = m)
    OBVIOUS
  <2>1. s[i] = C[i] /\ (C[i] < 128 <=> i = m) /\ C[i] \in Nat
    BY <1>1, <1>2 DEF Continues
  <2> QED
    BY <2>1
<1> HIDE DEF s
<1>4. last = {m}
  <2> HIDE DEF m
  <2>0. m \in Nat /\ m # 0 /\ Len(s) = m + Len(R) /\ Len(R) \in Nat
    BY <1>1, <1>2 DEF m
  <2>1. m \in last
    <3>1. m \in 1 .. m /\ m \in 1 .. Len(s)
      BY <2>0
    <3>2. s[m] < 128
      BY <1>3, <3>1
    <3>3. ASSUME NEW j \in 1 .. (m - 1)
          PROVE  s[j] >= 128
      <4>1. j \in 1 .. m /\ j # m
        BY <2>0
      <4>2. s[j] \in Nat /\ ~(s[j] < 128)
        BY <1>3, <4>1
      <4> QED
        BY <4>2
    <3> QED
      BY <3>1, <3>2, <3>3
  <2>2. ASSUME NEW k \in last PROVE k = m
    <3>1. k \in Nat /\ k >= 1 /\ s[k] < 128 /\ \A j \in 1 .. (k - 1) : s[j] >= 128
      BY <1>2, <2>2
    <3>2. CASE k <= m
      <4>1. k \in 1 .. m
        BY <1>1, <3>1, <3>2 DEF m
      <4> QED
        BY <1>3, <3>1, <4>1
    <3>3. CASE k > m
      <4>1. m \in 1 .. (k - 1) /\ m \in 1 .. m
        BY <1>1, <3>1, <3>3 DEF m
      <4>2. s[m] >= 128 /\ s[m] < 128 /\ s[m] \in Nat
        BY <1>3, <3>1, <4>1
      <4> QED
        BY <4>2
    <3> QED
      BY <1>1, <3>1, <3>2, <3>3 DEF m
  <2> HIDE DEF last
  <2> QED
    BY <2>1, <2>2
<1>5. IntegerLoop(val, s, m) = IntegerLoop(val, C, m)
  <2>1. m <= Len(s) /\ m <= Len(C) /\ m \in Nat /\ s \in Seq(Nat) /\ C \in Seq(Nat)
    BY <1>1, <1>2
  <2>2. \A i \in 1 .. m : s[i] = C[i]
    BY <1>2
  <2> HIDE DEF m
  <2> QED
    BY <2>1, <2>2, LoopSame
<1>6. ~(val < Pow2(n) - 1)
  OBVIOUS
<1>7. IntegerDecode(s, val, n) = ReadAs(IntegerLoop(val, s, m), After(s, m))
  <2> DEFINE k == CHOOSE k \in last : TRUE
  <2>1. k = m /\ last # {}
    BY <1>4
  <2>2. IntegerDecode(s, val, n) = IF val < Pow2(n) - 1 THEN ReadAs(val, s)
          ELSE IF last = {} THEN Short ELSE ReadAs(IntegerLoop(val, s, k), After(s, k))
    BY Zenon DEF IntegerDecode
  <2> HIDE DEF last, k, m
  <2> QED
    BY <1>6, <2>1, <2>2
<1> QED
  BY <1>1, <1>2, <1>5, <1>7, Zenon DEF s

Associates(A, B, C) == (A \o B) \o C = A \o (B \o C)

LEMMA JoinAssoc ==
  ASSUME NEW A \in Seq(Nat), NEW B \in Seq(Nat), NEW C \in Seq(Nat)
  PROVE  Associates(A, B, C)
<1> DEFINE a == Len(A)
           b == Len(B)
           c == Len(C)
           l == (A \o B) \o C
           r == A \o (B \o C)
<1>1. a \in Nat /\ b \in Nat /\ c \in Nat
  OBVIOUS
<1>2. /\ A \o B \in Seq(Nat) /\ Len(A \o B) = a + b
      /\ B \o C \in Seq(Nat) /\ Len(B \o C) = b + c
      /\ \A i \in 1 .. (a + b) : (A \o B)[i] = IF i <= a THEN A[i] ELSE B[i - a]
      /\ \A i \in 1 .. (b + c) : (B \o C)[i] = IF i <= b THEN B[i] ELSE C[i - b]
  BY ConcatProperties
<1> DEFINE p == A \o B
           q == B \o C
<1> HIDE DEF p, q
<1>3. /\ p \o C \in Seq(Nat) /\ Len(p \o C) = (a + b) + c
      /\ \A i \in 1 .. ((a + b) + c) :
           (p \o C)[i] = IF i <= a + b THEN p[i] ELSE C[i - (a + b)]
  BY <1>2, ConcatProperties DEF p
<1>4. /\ A \o q \in Seq(Nat) /\ Len(A \o q) = a + (b + c)
      /\ \A i \in 1 .. (a + (b + c)) :
           (A \o q)[i] = IF i <= a THEN A[i] ELSE q[i - a]
  BY <1>2, ConcatProperties DEF q
<1>5. l = p \o C /\ r = A \o q
  BY DEF p, q
<1> HIDE DEF l, r, a, b, c
<1>6. l \in Seq(Nat) /\ r \in Seq(Nat) /\ Len(l) = Len(r) /\ Len(l) = (a + b) + c
  BY <1>1, <1>3, <1>4, <1>5
<1>7. ASSUME NEW i \in 1 .. ((a + b) + c)
      PROVE  l[i] = r[i]
  <2>1. i \in Nat /\ i >= 1 /\ i <= (a + b) + c /\ i \in 1 .. (a + (b + c))
    BY <1>1
  <2>2. /\ l[i] = IF i <= a + b THEN p[i] ELSE C[i - (a + b)]
        /\ r[i] = IF i <= a THEN A[i] ELSE q[i - a]
    BY <1>3, <1>4, <1>5, <2>1
  <2>3. CASE i <= a + b
    <3>1. i \in 1 .. (a + b)
      BY <1>1, <2>1, <2>3
    <3>2. p[i] = IF i <= a THEN A[i] ELSE B[i - a]
      BY <1>2, <3>1 DEF p
    <3>3. CASE i <= a
      BY <2>2, <2>3, <3>2, <3>3
    <3>4. CASE ~(i <= a)
      <4>1. i - a \in 1 .. (b + c) /\ i - a <= b
        BY <1>1, <2>1, <2>3, <3>4
      <4>2. q[i - a] = B[i - a]
        BY <1>2, <4>1 DEF q
      <4> QED
        BY <2>2, <2>3, <3>2, <3>4, <4>2
    <3> QED
      BY <3>3, <3>4
  <2>4. CASE ~(i <= a + b)
    <3>1. i - a \in 1 .. (b + c) /\ ~(i - a <= b) /\ ~(i <= a) /\ (i - a) - b = i - (a + b)
      BY <1>1, <2>1, <2>4
    <3>2. q[i - a] = C[(i - a) - b]
      BY <1>2, <3>1 DEF q
    <3> QED
      BY <2>2, <2>4, <3>1, <3>2
  <2> QED
    BY <2>3, <2>4
<1>8. l = r
  <2>1. \A i \in 1 .. Len(l) : l[i] = r[i]
    BY <1>6, <1>7
  <2> QED
    BY <1>6, <2>1, SeqEqual
<1> QED
  BY <1>8 DEF l, r, Associates

LEMMA ConsGives ==
  ASSUME NEW x \in Nat, NEW T \in Seq(Nat)
  PROVE  /\ Cons(x, T) \in Seq(Nat) /\ Cons(x, T) # <<>> /\ Cons(x, T)[1] = x
         /\ After(Cons(x, T), 1) = T /\ Tail(Cons(x, T)) = T
<1> DEFINE A == <<x>>
           s == A \o T
<1>1. A \in Seq(Nat) /\ Len(A) = 1 /\ A[1] = x
  OBVIOUS
<1> HIDE DEF A
<1>2. s \in Seq(Nat) /\ s # <<>> /\ s[1] = x /\ After(s, 1) = T
  <2>1. Len(A) # 0
    BY <1>1
  <2>2. s \in Seq(Nat) /\ s # <<>> /\ s[1] = A[1] /\ After(s, Len(A)) = T
    BY <1>1, <2>1, Followed
  <2> HIDE DEF s
  <2> QED
    BY <1>1, <2>2
<1>4. Tail(s) = After(s, 1)
  <2> HIDE DEF s
  <2>1. Tail(s) = SubSeq(s, 2, Len(s))
    BY <1>2, TailIsSubSeq
  <2> QED
    BY <2>1 DEF After
<1> QED
  BY <1>2, <1>4, Zenon DEF Cons, A

LEMMA ConsJoins ==
  ASSUME NEW x \in Nat, NEW T \in Seq(Nat), NEW R \in Seq(Nat)
  PROVE  Cons(x, T) \o R = Cons(x, T \o R)
<1> DEFINE A == <<x>>
<1>1. A \in Seq(Nat)
  OBVIOUS
<1> HIDE DEF A
<1>2. (A \o T) \o R = A \o (T \o R)
  BY <1>1, JoinAssoc, Zenon DEF Associates
<1> QED
  BY <1>2, Zenon DEF Cons, A

LEMMA ValueLengths ==
  ASSUME NEW n \in Word, NEW R \in Seq(Nat)
  PROVE  /\ valueLength(n) = IntegerEncode(n, 7, 0)
         /\ IntegerDecode(After(valueLength(n), 1) \o R, valueLength(n)[1], 7)
              = ReadAs(n, R)
<1>0. n \in Nat
  BY SMT DEF Word
<1>1. Pow2(7) = 128 /\ 7 \in Nat /\ 127 \in Nat /\ 127 = Pow2(7) - 1
  BY Powers, SMT
<1>2. CASE n < 127
  <2>1. valueLength(n) = <<n>> /\ IntegerEncode(n, 7, 0) = <<n>>
    BY <1>0, <1>1, <1>2 DEF valueLength, IntegerEncode
  <2>2. After(<<n>>, 1) = <<>> /\ <<n>>[1] = n
    BY <1>0 DEF After
  <2>3. <<>> \o R = R
    BY ConcatEmptySeq
  <2>4. IntegerDecode(R, n, 7) = ReadAs(n, R)
    BY <1>1, <1>2 DEF IntegerDecode
  <2> QED
    BY <2>1, <2>2, <2>3, <2>4, Zenon
<1>3. CASE ~(n < 127)
  <2> DEFINE e == n - 127
             C == Continued(e)
             s == Cons(127, C)
  <2>0. e \in Word /\ 127 + e = n
    BY <1>0, <1>3, SMT DEF Word
  <2>1. valueLength(n) = s /\ IntegerEncode(n, 7, 0) = s
    <3>1. valueLength(n) = s
      BY <1>3, Zenon DEF valueLength, Cons
    <3>2. /\ ~(n < Pow2(7) - 1) /\ 0 + Pow2(7) - 1 = 127
          /\ n - (Pow2(7) - 1) = e
      BY <1>0, <1>1, <1>3
    <3>3. IntegerEncode(n, 7, 0) = <<0 + Pow2(7) - 1>> \o Continued(n - (Pow2(7) - 1))
      BY <3>2, Zenon DEF IntegerEncode
    <3> HIDE DEF e
    <3>4. IntegerEncode(n, 7, 0) = s
      BY <3>2, <3>3, Zenon DEF Cons
    <3> QED
      BY <3>1, <3>4
  <2> HIDE DEF e
  <2>2. Continues(C, 127, e)
    BY <1>1, <2>0, ContinuedAdds
  <2>3. C \in Seq(Nat)
    BY <2>2 DEF Continues
  <2> HIDE DEF C
  <2>4. After(s, 1) = C /\ s[1] = 127
    <3>1. \A x \in Nat : After(Cons(x, C), 1) = C /\ Cons(x, C)[1] = x
      BY <2>3, ConsGives
    <3> QED
      BY <1>1, <3>1
  <2>5. IntegerDecode(C \o R, 127, 7) = ReadAs(127 + e, R)
    BY <1>1, <2>2, DecodesContinued
  <2> HIDE DEF s
  <2> QED
    BY <2>0, <2>1, <2>4, <2>5, Zenon
<1> QED
  BY <1>2, <1>3

LEMMA ReadIsNotShort ==
  ASSUME NEW v, NEW s
  PROVE  Short # ReadAs(v, s)
BY DEF Short, ReadAs

LEMMA NameLengths ==
  ASSUME NEW n \in Word, NEW R \in Seq(Nat)
  PROVE  NameDecode(nameLength(n) \o R) = ReadAs(n, R) <=> n < 70
<1>0. n \in Nat
  BY SMT DEF Word
<1>1. Pow2(3) = 8 /\ 3 \in Nat /\ 7 \in Nat /\ 7 = Pow2(3) - 1 /\ 39 \in Nat
  BY Powers, SMT
<1>2. CASE n < 7
  <2> DEFINE x == 32 + n
             s == Cons(x, R)
  <2>1. x \in Nat /\ x \div 32 = 1 /\ x % 8 = n
    BY <1>0, <1>2
  <2>2. nameLength(n) \o R = s
    BY <1>2, Zenon DEF nameLength, Cons
  <2> HIDE DEF x
  <2>3. s[1] = x /\ Tail(s) = R
    BY <2>1, ConsGives
  <2> HIDE DEF s
  <2>4. NameDecode(s) = IntegerDecode(R, n, 3)
    BY <2>1, <2>3 DEF NameDecode
  <2>5. IntegerDecode(R, n, 3) = ReadAs(n, R)
    BY <1>1, <1>2 DEF IntegerDecode
  <2>6. n < 70
    BY <1>0, <1>2
  <2> QED
    BY <2>2, <2>4, <2>5, <2>6, Zenon
<1>3. CASE ~(n < 7)
  <2> DEFINE e == n - 7
             C == Continued(e)
             k == n - 6
             w == writeVarInt(k)
             u == [w EXCEPT ![Len(w)] = 39]
             s == (u \o C) \o R
  <2>1. e \in Word /\ 7 + e = n /\ k \in Word /\ k \in Nat
    BY <1>0, <1>3, SMT DEF Word
  <2>2. Good(w, k) /\ (k < 64 => w = <<k>>) /\ (64 <= k => Len(w) >= 2 /\ w[1] >= 64)
    <3> HIDE DEF k
    <3> QED
      BY <2>1, Written
  <2>3. w \in Seq(Nat)
    BY <2>2, Zenon DEF Good
  <2>4. nameLength(n) = u \o C
    <3>1. appendVarInt(<<>>, k) = w
      <4> HIDE DEF w
      <4>1. <<>> \o w = w
        BY <2>3, ConcatEmptySeq
      <4> QED
        BY <4>1 DEF appendVarInt, w
    <3>2. nameLength(n) = [appendVarInt(<<>>, k) EXCEPT ![Len(appendVarInt(<<>>, k))] = 39] \o C
      BY <1>3, Zenon DEF nameLength
    <3> HIDE DEF k, w, C
    <3> QED
      BY <3>1, <3>2, Zenon
  <2>5. Continues(C, 7, e)
    <3> HIDE DEF e
    <3> QED
      BY <1>1, <2>1, ContinuedAdds
  <2>6. C \in Seq(Nat)
    BY <2>5, Zenon DEF Continues
  <2> HIDE DEF C, w
  <2>7. CASE n < 70
    <3>1. k < 64
      BY <1>0, <2>7
    <3> HIDE DEF k
    <3>2. u = <<39>>
      <4>1. w = <<k>>
        BY <2>2, <3>1
      <4> QED
        BY <2>1, <4>1
    <3>3. s = Cons(39, C) \o R
      BY <3>2, Zenon DEF Cons
    <3>4. s = Cons(39, C \o R)
      BY <1>1, <2>6, <3>3, ConsJoins
    <3>5. s[1] = 39 /\ Tail(s) = C \o R
      <4>1. C \o R \in Seq(Nat)
        BY <2>6, ConcatProperties
      <4> HIDE DEF s
      <4> QED
        BY <1>1, <3>4, <4>1, ConsGives
    <3>6. 39 \div 32 = 1 /\ 39 % 8 = 7
      OBVIOUS
    <3>7. NameDecode(s) = IntegerDecode(C \o R, 7, 3)
      <4> HIDE DEF s
      <4> QED
        BY <3>5, <3>6 DEF NameDecode
    <3> HIDE DEF e
    <3>8. IntegerDecode(C \o R, 7, 3) = ReadAs(7 + e, R)
      BY <1>1, <2>5, DecodesContinued
    <3> HIDE DEF s
    <3>9. NameDecode(s) = ReadAs(n, R)
      BY <2>1, <3>7, <3>8, Zenon
    <3> QED
      BY <2>4, <2>7, <3>9, Zenon DEF s
  <2>8. CASE ~(n < 70)
    <3>1. 64 <= k
      BY <1>0, <2>8
    <3>2. Len(w) >= 2 /\ w[1] >= 64 /\ Len(w) \in Nat /\ w[1] \in Nat
      <4> HIDE DEF k
      <4>1. Len(w) >= 2 /\ w[1] >= 64
        BY <2>2, <3>1
      <4> QED
        BY <2>3, <4>1
    <3>3. u \in Seq(Nat) /\ Len(u) # 0 /\ u[1] = w[1]
      <4>1. \A i \in 1 .. Len(w) : w[i] \in Nat
        BY <2>3
      <4>2. Len(w) \in 1 .. Len(w) /\ 1 \in 1 .. Len(w) /\ Len(w) # 1
        <5> DEFINE m == Len(w)
        <5>1. m \in Nat /\ m >= 2
          BY <3>2
        <5> HIDE DEF m
        <5>2. m \in 1 .. m /\ 1 \in 1 .. m /\ m # 1
          BY <5>1
        <5> QED
          BY <5>2 DEF m
      <4>3. u \in Seq(Nat) /\ Len(u) = Len(w) /\ (\A i \in 1 .. Len(w) :
              u[i] = IF i = Len(w) THEN 39 ELSE w[i])
        BY <1>1, <2>3, <4>2, ExceptSeq
      <4> QED
        BY <3>2, <4>2, <4>3
    <3> HIDE DEF u
    <3>4. u \o C \in Seq(Nat) /\ Len(u \o C) # 0 /\ (u \o C)[1] = u[1]
      <4>1. u \o C \in Seq(Nat) /\ (u \o C)[1] = u[1] /\ u \o C # <<>>
        BY <2>6, <3>3, Followed
      <4> QED
        BY <4>1, EmptySeq
    <3> DEFINE a == u \o C
    <3>5. s[1] = w[1]
      <4>1. a \in Seq(Nat) /\ Len(a) # 0 /\ a[1] = w[1]
        BY <3>3, <3>4
      <4> HIDE DEF a
      <4>2. (a \o R)[1] = a[1]
        BY <4>1, Followed
      <4> QED
        BY <4>1, <4>2, Zenon DEF a
    <3>6. w[1] \div 32 # 1
      BY <3>2
    <3> HIDE DEF s
    <3>7. NameDecode(s) = Short
      BY <3>5, <3>6, Zenon DEF NameDecode
    <3>8. NameDecode(s) # ReadAs(n, R)
      BY <3>7, ReadIsNotShort
    <3> QED
      BY <2>4, <2>8, <3>8, Zenon DEF s
  <2> QED
    BY <2>7, <2>8
<1> QED
  BY <1>2, <1>3

(* minimalQPACKHeaders writes the lengths of values as Integer.encode does *)
(* and Integer.decode reads them back, for every length below 2^31; the    *)
(* lengths of names are understood below 70 bytes, and no longer one is.   *)
THEOREM LiteralLengthsAgree ==
  ASSUME NEW n \in Word
  PROVE  LiteralsAgree(n)
<1>1. Junk \in Seq(Nat)
  BY DEF Junk
<1> HIDE DEF Junk
<1>2. /\ valueLength(n) = IntegerEncode(n, 7, 0)
      /\ IntegerDecode(After(valueLength(n), 1) \o Junk, valueLength(n)[1], 7)
           = ReadAs(n, Junk)
  BY <1>1, ValueLengths
<1>3. NameDecode(nameLength(n) \o Junk) = ReadAs(n, Junk) <=> n < 70
  BY <1>1, NameLengths
<1> QED
  BY <1>2, <1>3, Zenon DEF LiteralsAgree

(* Frames. *)
LEMMA CutBack ==
  ASSUME NEW P \in Seq(Nat), NEW R \in Seq(Nat)
  PROVE  /\ P \o R \in Seq(Nat) /\ Len(P \o R) = Len(P) + Len(R)
         /\ SubSeq(P \o R, 1, Len(P)) = P /\ After(P \o R, Len(P)) = R
<1> DEFINE u == P \o R
           n == Len(P)
           m == Len(R)
<1>1. n \in Nat /\ m \in Nat
  OBVIOUS
<1>2. /\ u \in Seq(Nat) /\ Len(u) = n + m
      /\ \A i \in 1 .. (n + m) : u[i] = IF i <= n THEN P[i] ELSE R[i - n]
  BY ConcatProperties
<1> HIDE DEF u, n, m
<1>3. SubSeq(u, 1, n) = P
  <2> DEFINE t == SubSeq(u, 1, n)
  <2>1. /\ t \in Seq(Nat) /\ Len(t) = (n - 1) + 1
        /\ \A i \in 1 .. ((n - 1) + 1) : t[i] = u[(1 + i) - 1]
    <3>1. 1 \in Nat /\ 1 >= 1 /\ n <= Len(u) /\ 1 <= n + 1
      BY <1>1, <1>2
    <3> QED
      BY <1>1, <1>2, <3>1, SliceIs
  <2> HIDE DEF t
  <2>2. Len(t) = Len(P)
    BY <1>1, <2>1 DEF n
  <2>3. \A i \in 1 .. Len(t) : t[i] = P[i]
    BY <1>1, <1>2, <2>1
  <2>4. t = P
    BY <2>1, <2>2, <2>3, SeqEqual
  <2> QED
    BY <2>4 DEF t
<1>4. After(u, n) = R
  <2> DEFINE t == SubSeq(u, n + 1, n + m)
  <2>1. /\ t \in Seq(Nat) /\ Len(t) = ((n + m) - (n + 1)) + 1
        /\ \A i \in 1 .. (((n + m) - (n + 1)) + 1) : t[i] = u[((n + 1) + i) - 1]
    <3>1. n + 1 \in Nat /\ n + m \in Nat /\ n + 1 >= 1 /\ n + m <= Len(u) /\ n + 1 <= (n + m) + 1
      BY <1>1, <1>2
    <3> DEFINE i1 == n + 1
               i2 == n + m
    <3> HIDE DEF i1, i2
    <3>2. i1 \in Nat /\ i2 \in Nat /\ i1 >= 1 /\ i2 <= Len(u) /\ i1 <= i2 + 1
      BY <3>1 DEF i1, i2
    <3>3. /\ SubSeq(u, i1, i2) \in Seq(Nat) /\ Len(SubSeq(u, i1, i2)) = (i2 - i1) + 1
          /\ \A i \in 1 .. ((i2 - i1) + 1) : SubSeq(u, i1, i2)[i] = u[(i1 + i) - 1]
      BY <1>2, <3>2, SliceIs
    <3> QED
      BY <3>3 DEF i1, i2
  <2> HIDE DEF t
  <2>2. Len(t) = Len(R) /\ Len(t) = m
    BY <1>1, <2>1 DEF m
  <2>3. ASSUME NEW i \in 1 .. m
        PROVE  t[i] = R[i]
    <3>1. /\ ((n + 1) + i) - 1 = n + i /\ n + i \in 1 .. (n + m) /\ ~(n + i <= n)
          /\ (n + i) - n = i /\ i \in 1 .. (((n + m) - (n + 1)) + 1)
      BY <1>1
    <3>2. t[i] = u[((n + 1) + i) - 1]
      BY <2>1, <3>1
    <3>3. u[n + i] = R[(n + i) - n]
      BY <1>2, <3>1
    <3> QED
      BY <3>1, <3>2, <3>3
  <2>4. t = R
    BY <2>1, <2>2, <2>3, SeqEqual
  <2> QED
    BY <1>2, <2>4 DEF t, After
<1> QED
  BY <1>2, <1>3, <1>4 DEF u, n, m

ReadsBack(A, B, type, P, R) ==
  readH3Frame(A \o (B \o (P \o R))) = ReadAs([type |-> type, payload |-> P], R)

LEMMA ReadsFrame ==
  ASSUME NEW A, NEW B, NEW type, NEW P \in Seq(Nat), NEW R \in Seq(Nat),
         Good(A, type), Good(B, Len(P))
  PROVE  ReadsBack(A, B, type, P, R)
<1> DEFINE u == P \o R
           X == B \o u
           s == A \o X
           n == Len(P)
<1>0. n \in Nat /\ Len(R) \in Nat
  OBVIOUS
<1>1. u \in Seq(Nat) /\ Len(u) = n + Len(R) /\ SubSeq(u, 1, n) = P /\ After(u, n) = R
  BY CutBack
<1> HIDE DEF u
<1>2. readVarInt(X) = ReadAs(n, u)
  BY <1>1, Zenon DEF Good
<1>3. X \in Seq(Nat)
  <2>1. B \in Seq(Nat)
    BY Zenon DEF Good
  <2> QED
    BY <1>1, <2>1, ConcatProperties
<1> HIDE DEF X
<1>4. readVarInt(s) = ReadAs(type, X)
  BY <1>3, Zenon DEF Good
<1> HIDE DEF s, n
<1>5. /\ readVarInt(s).ok /\ readVarInt(s).val = type
      /\ readVarInt(s).rest = X
  BY <1>4 DEF ReadAs
<1>6. /\ readVarInt(X).ok /\ readVarInt(X).val = n /\ readVarInt(X).rest = u
  BY <1>2 DEF ReadAs
<1>7. ~(Len(u) < n)
  BY <1>0, <1>1
<1>8. readH3Frame(s) = ReadAs([type |-> type, payload |-> SubSeq(u, 1, n)], After(u, n))
  <2> DEFINE ty == readVarInt(s)
             len == readVarInt(ty.rest)
  <2>1. readH3Frame(s)
          = IF ~ty.ok \/ ~len.ok \/ Len(len.rest) < len.val THEN Short
            ELSE ReadAs([type |-> ty.val, payload |-> SubSeq(len.rest, 1, len.val)],
                        After(len.rest, len.val))
    BY Zenon DEF readH3Frame
  <2>2. ty.ok /\ len.ok /\ len.rest = u /\ len.val = n /\ ty.val = type
    BY <1>5, <1>6, Zenon
  <2> HIDE DEF ty, len
  <2> QED
    BY <1>7, <2>1, <2>2, Zenon
<1> QED
  BY <1>1, <1>8, Zenon DEF s, X, u, ReadsBack

(* SETTINGS. *)
Parsed(X, F) == [rest |-> X, found |-> F]

Takes(A, B, k, v, X, F) ==
  /\ OneSetting(Parsed(A \o (B \o X), F)) = Parsed(X, F \cup {<<k, v>>})
  /\ A \o (B \o X) \in Seq(Nat) /\ Len(A \o (B \o X)) \in Nat
  /\ Len(A \o (B \o X)) >= Len(X) + 2 /\ Len(A \o (B \o X)) <= Len(X) + 16

LEMMA OneParsed ==
  ASSUME NEW A, NEW B, NEW k, NEW v, Good(A, k), Good(B, v), NEW X \in Seq(Nat), NEW F
  PROVE  Takes(A, B, k, v, X, F)
<1> DEFINE Y == B \o X
           s == A \o Y
           x == Parsed(s, F)
<1>0. A \in Seq(Nat) /\ B \in Seq(Nat) /\ Len(A) \in 1 .. 8 /\ Len(B) \in 1 .. 8
  BY Zenon DEF Good
<1>1. readVarInt(Y) = ReadAs(v, X)
  BY Zenon DEF Good
<1>2. Y \in Seq(Nat) /\ Len(Y) = Len(B) + Len(X)
  BY <1>0, CutBack
<1> HIDE DEF Y
<1>3. readVarInt(s) = ReadAs(k, Y)
  BY <1>2, Zenon DEF Good
<1>4. s \in Seq(Nat) /\ Len(s) = Len(A) + Len(Y)
  BY <1>0, <1>2, CutBack
<1> HIDE DEF s
<1>5. x.rest = s /\ x.found = F
  BY DEF Parsed
<1>6. /\ readVarInt(s).ok /\ readVarInt(s).val = k /\ readVarInt(s).rest = Y
      /\ readVarInt(Y).ok /\ readVarInt(Y).val = v /\ readVarInt(Y).rest = X
  BY <1>1, <1>3 DEF ReadAs
<1>7. OneSetting(x) = Parsed(X, F \cup {<<k, v>>})
  <2> HIDE DEF x
  <2> DEFINE kk == readVarInt(x.rest)
             vv == readVarInt(kk.rest)
  <2>1. OneSetting(x) = IF kk.ok /\ vv.ok
          THEN [rest |-> vv.rest, found |-> x.found \cup {<<kk.val, vv.val>>}] ELSE x
    BY Zenon DEF OneSetting
  <2>2. kk.ok /\ vv.ok /\ vv.rest = X /\ kk.val = k /\ vv.val = v
    BY <1>5, <1>6, Zenon
  <2> HIDE DEF kk, vv
  <2> QED
    BY <1>5, <2>1, <2>2, Zenon DEF Parsed
<1>8. Len(s) \in Nat /\ Len(s) >= Len(X) + 2 /\ Len(s) <= Len(X) + 16
  <2> DEFINE la == Len(A)
             lb == Len(B)
             lx == Len(X)
  <2>1. lx \in Nat /\ la \in 1 .. 8 /\ lb \in 1 .. 8
    BY <1>0
  <2>2. Len(s) = la + (lb + lx)
    BY <1>2, <1>4
  <2> HIDE DEF la, lb, lx
  <2>3. /\ la + (lb + lx) \in Nat /\ la + (lb + lx) >= lx + 2
        /\ la + (lb + lx) <= lx + 16
    BY <2>1
  <2> QED
    BY <2>2, <2>3 DEF lx
<1> QED
  BY <1>4, <1>7, <1>8, Zenon DEF s, Y, Takes

LEMMA NoneParsed ==
  ASSUME NEW F
  PROVE  OneSetting(Parsed(<<>>, F)) = Parsed(<<>>, F)
<1> DEFINE x == Parsed(<<>>, F)
<1>1. x.rest = <<>>
  BY DEF Parsed
<1> HIDE DEF x
<1>2. ~readVarInt(<<>>).ok
  <2>1. readVarInt(<<>>) = Short
    BY Zenon DEF readVarInt
  <2> QED
    BY <2>1 DEF Short
<1>3. OneSetting(x) = x
  BY <1>1, <1>2, Zenon DEF OneSetting
<1> QED
  BY <1>3 DEF x

(* A loop that rests after its third turn. *)
LEMMA ParsesThree ==
  ASSUME NEW T \in Seq(Nat), Len(T) >= 3, NEW x1, NEW x2, NEW x3,
         OneSetting(Parsed(T, {})) = x1, OneSetting(x1) = x2, OneSetting(x2) = x3,
         OneSetting(x3) = x3
  PROVE  parseSettings(T) = x3.found
<1> DEFINE N == Len(T)
           x0 == Parsed(T, {})
           step(f) == [n \in 0 .. N |-> IF n = 0 THEN x0 ELSE OneSetting(f[n - 1])]
           h == CHOOSE f : f = step(f)
           g == [n \in 0 .. N |-> IF n = 0 THEN x0 ELSE IF n = 1 THEN x1
                                  ELSE IF n = 2 THEN x2 ELSE x3]
<1>0. N \in Nat /\ N >= 3
  OBVIOUS
<1>1. parseSettings(T) = h[N].found
  BY Zenon DEF parseSettings, Parsed
<1> HIDE DEF x0, N
<1>2. \A n \in 0 .. N : g[n] = IF n = 0 THEN x0 ELSE IF n = 1 THEN x1
                               ELSE IF n = 2 THEN x2 ELSE x3
  OBVIOUS
<1>3. g = [n \in 0 .. N |-> g[n]]
  OBVIOUS
<1> HIDE DEF g
<1>4. ASSUME NEW n \in 0 .. N
      PROVE  g[n] = IF n = 0 THEN x0 ELSE OneSetting(g[n - 1])
  <2>1. n = 0 \/ n = 1 \/ n = 2 \/ n = 3 \/ n > 3
    OBVIOUS
  <2>2. CASE n = 0
    BY <1>2, <2>2
  <2>3. CASE n = 1
    <3>1. 0 \in 0 .. N /\ 1 \in 0 .. N /\ 1 - 1 = 0
      BY <1>0
    <3>2. g[1] = x1 /\ g[0] = x0
      BY <1>2, <3>1
    <3> QED
      BY <2>3, <3>1, <3>2 DEF x0
  <2>4. CASE n = 2
    <3>1. 2 \in 0 .. N /\ 1 \in 0 .. N /\ 2 - 1 = 1
      BY <1>0
    <3>2. g[2] = x2 /\ g[1] = x1
      BY <1>2, <3>1
    <3> QED
      BY <2>4, <3>1, <3>2
  <2>5. CASE n = 3
    <3>1. 2 \in 0 .. N /\ 3 \in 0 .. N /\ 3 - 1 = 2
      BY <1>0
    <3>2. g[3] = x3 /\ g[2] = x2
      BY <1>2, <3>1
    <3> QED
      BY <2>5, <3>1, <3>2
  <2>6. CASE n > 3
    <3>1. n - 1 \in 0 .. N /\ n - 1 # 0 /\ n - 1 # 1 /\ n - 1 # 2
      BY <1>0, <2>6
    <3>2. n # 0 /\ n # 1 /\ n # 2
      BY <2>6
    <3>3. g[n] = x3 /\ g[n - 1] = x3
      BY <1>2, <3>1, <3>2
    <3> QED
      BY <3>2, <3>3
  <2> QED
    BY <2>1, <2>2, <2>3, <2>4, <2>5, <2>6
<1>5. g = step(g)
  BY <1>3, <1>4
<1>6. h = step(h)
  <2> HIDE DEF step
  <2> QED
    BY <1>5, Zenon
<1> HIDE DEF h
<1>7. \A n \in 0 .. N : h[n] = IF n = 0 THEN x0 ELSE OneSetting(h[n - 1])
  BY <1>6, Zenon
<1> DEFINE I == {n \in 0 .. N : h[n] = g[n]}
<1>8. 0 \in I
  BY <1>0, <1>4, <1>7
<1>9. ASSUME NEW n \in 1 .. N, n - 1 \in I
      PROVE  n \in I
  <2>1. n \in 0 .. N /\ n # 0 /\ h[n - 1] = g[n - 1]
    BY <1>0, <1>9
  <2>2. h[n] = OneSetting(h[n - 1]) /\ g[n] = OneSetting(g[n - 1])
    BY <1>4, <1>7, <2>1
  <2> QED
    BY <2>1, <2>2
<1> HIDE DEF I
<1>10. \A n \in 0 .. N : n \in I
  BY <1>0, <1>8, <1>9, Induct
<1>11. N \in 0 .. N /\ N # 0 /\ N # 1 /\ N # 2
  BY <1>0
<1>12. h[N] = g[N] /\ g[N] = x3
  BY <1>2, <1>10, <1>11 DEF I
<1> QED
  BY <1>1, <1>12

(* The payload that SettingsFrame#encode makes of three settings. *)
Fields(a1, b1, a2, b2, a3, b3) ==
  ((((((<<>> \o VarIntWrite(a1)) \o VarIntWrite(b1)) \o VarIntWrite(a2))
     \o VarIntWrite(b2)) \o VarIntWrite(a3)) \o VarIntWrite(b3))

Encodes(a1, b1, a2, b2, a3, b3) ==
  SettingsEncode(<<<<a1, b1>>, <<a2, b2>>, <<a3, b3>>>>)
    = (VarIntWrite(4) \o VarIntWrite(Len(Fields(a1, b1, a2, b2, a3, b3))))
        \o Fields(a1, b1, a2, b2, a3, b3)

LEMMA EncodesThree ==
  ASSUME NEW a1, NEW b1, NEW a2, NEW b2, NEW a3, NEW b3
  PROVE  Encodes(a1, b1, a2, b2, a3, b3)
<1> DEFINE t == <<<<a1, b1>>, <<a2, b2>>, <<a3, b3>>>>
           step(f) == [n \in 0 .. Len(t) |-> IF n = 0 THEN <<>>
                         ELSE f[n - 1] \o VarIntWrite(t[n][1]) \o VarIntWrite(t[n][2])]
           h == CHOOSE f : f = step(f)
           x1 == (<<>> \o VarIntWrite(a1)) \o VarIntWrite(b1)
           x2 == (x1 \o VarIntWrite(a2)) \o VarIntWrite(b2)
           x3 == (x2 \o VarIntWrite(a3)) \o VarIntWrite(b3)
           g == [n \in 0 .. 3 |-> IF n = 0 THEN <<>> ELSE IF n = 1 THEN x1
                                  ELSE IF n = 2 THEN x2 ELSE x3]
<1>0. Len(t) = 3 /\ t[1] = <<a1, b1>> /\ t[2] = <<a2, b2>> /\ t[3] = <<a3, b3>>
  OBVIOUS
<1>1. SettingsEncode(t) = (VarIntWrite(4) \o VarIntWrite(Len(h[Len(t)]))) \o h[Len(t)]
  BY Zenon DEF SettingsEncode
<1>2. t[1][1] = a1 /\ t[1][2] = b1 /\ t[2][1] = a2 /\ t[2][2] = b2
      /\ t[3][1] = a3 /\ t[3][2] = b3
  OBVIOUS
<1> HIDE DEF t
<1>3. g[0] = <<>> /\ g[1] = x1 /\ g[2] = x2 /\ g[3] = x3 /\ g = [n \in 0 .. 3 |-> g[n]]
  <2> HIDE DEF x1, x2, x3
  <2> QED
    OBVIOUS
<1> DEFINE next(y, a, b) == (y \o VarIntWrite(a)) \o VarIntWrite(b)
<1>4. x1 = next(<<>>, a1, b1) /\ x2 = next(x1, a2, b2) /\ x3 = next(x2, a3, b3)
  OBVIOUS
<1>5. x3 = Fields(a1, b1, a2, b2, a3, b3)
  BY DEF Fields
<1> HIDE DEF g, x1, x2, x3
<1>6. step(g) = [n \in 0 .. 3 |-> IF n = 0 THEN <<>> ELSE next(g[n - 1], t[n][1], t[n][2])]
  BY <1>0, Zenon
<1>7. step(h) = [n \in 0 .. 3 |-> IF n = 0 THEN <<>> ELSE next(h[n - 1], t[n][1], t[n][2])]
  <2> HIDE DEF h
  <2> QED
    BY <1>0, Zenon
<1> HIDE DEF next
<1>8. g = step(g)
  <2> HIDE DEF step
  <2>1. ASSUME NEW n \in 0 .. 3
        PROVE  g[n] = IF n = 0 THEN <<>> ELSE next(g[n - 1], t[n][1], t[n][2])
    <3>1. n = 0 \/ n = 1 \/ n = 2 \/ n = 3
      OBVIOUS
    <3>2. CASE n = 0
      BY <1>3, <3>2
    <3>3. CASE n = 1
      <4>1. 1 - 1 = 0 /\ 1 # 0
        OBVIOUS
      <4> QED
        BY <1>2, <1>3, <1>4, <3>3, <4>1, Zenon
    <3>4. CASE n = 2
      <4>1. 2 - 1 = 1 /\ 2 # 0
        OBVIOUS
      <4> QED
        BY <1>2, <1>3, <1>4, <3>4, <4>1, Zenon
    <3>5. CASE n = 3
      <4>1. 3 - 1 = 2 /\ 3 # 0
        OBVIOUS
      <4> QED
        BY <1>2, <1>3, <1>4, <3>5, <4>1, Zenon
    <3> QED
      BY <3>1, <3>2, <3>3, <3>4, <3>5
  <2> QED
    BY <1>3, <1>6, <2>1
<1>9. h = step(h)
  <2> HIDE DEF step
  <2> QED
    BY <1>8, Zenon
<1> HIDE DEF h, step
<1>10. h = [n \in 0 .. 3 |-> IF n = 0 THEN <<>> ELSE next(h[n - 1], t[n][1], t[n][2])]
  BY <1>7, <1>9, Zenon
<1>11. \A n \in 0 .. 3 : h[n] = IF n = 0 THEN <<>> ELSE next(h[n - 1], t[n][1], t[n][2])
  BY <1>10, Zenon
<1>12. h[0] = <<>> /\ h[1] = next(h[0], t[1][1], t[1][2])
       /\ h[2] = next(h[1], t[2][1], t[2][2]) /\ h[3] = next(h[2], t[3][1], t[3][2])
  <2>1. /\ 0 \in 0 .. 3 /\ 1 \in 0 .. 3 /\ 2 \in 0 .. 3 /\ 3 \in 0 .. 3
        /\ 1 # 0 /\ 2 # 0 /\ 3 # 0 /\ 1 - 1 = 0 /\ 2 - 1 = 1 /\ 3 - 1 = 2
    OBVIOUS
  <2> QED
    BY <1>11, <2>1
<1>13. h[3] = x3
  BY <1>2, <1>4, <1>12, Zenon
<1> QED
  BY <1>0, <1>1, <1>5, <1>13, Zenon DEF t, Encodes

(* Fields from the left, as they are written, and from the right, as they  *)
(* are read.                                                               *)
FromRight(A, B, C, D, E, F) ==
  ((((((<<>> \o A) \o B) \o C) \o D) \o E) \o F)
    = A \o (B \o (C \o (D \o (E \o (F \o <<>>)))))

LEMMA FieldsAre ==
  ASSUME NEW A \in Seq(Nat), NEW B \in Seq(Nat), NEW C \in Seq(Nat),
         NEW D \in Seq(Nat), NEW E \in Seq(Nat), NEW F \in Seq(Nat)
  PROVE  FromRight(A, B, C, D, E, F)
<1> DEFINE l2 == A \o B
           l3 == l2 \o C
           l4 == l3 \o D
           l5 == l4 \o E
           r5 == E \o F
           r4 == D \o r5
           r3 == C \o r4
           r2 == B \o r3
<1>1. <<>> \o A = A /\ F \o <<>> = F
  BY ConcatEmptySeq
<1>2. l2 \in Seq(Nat) /\ r5 \in Seq(Nat)
  BY CutBack
<1>3. l3 \in Seq(Nat) /\ r4 \in Seq(Nat)
  <2> HIDE DEF l2, r5
  <2> QED
    BY <1>2, CutBack
<1>4. l4 \in Seq(Nat) /\ r3 \in Seq(Nat)
  <2> HIDE DEF l3, r4
  <2> QED
    BY <1>3, CutBack
<1>5. l5 \o F = l4 \o r5
  <2> HIDE DEF l4
  <2>1. Associates(l4, E, F)
    BY <1>4, JoinAssoc
  <2> QED
    BY <2>1 DEF Associates
<1>6. l4 \o r5 = l3 \o r4
  <2> HIDE DEF l3, r5
  <2>1. Associates(l3, D, r5)
    BY <1>2, <1>3, JoinAssoc
  <2> QED
    BY <2>1 DEF Associates
<1>7. l3 \o r4 = l2 \o r3
  <2> HIDE DEF l2, r4
  <2>1. Associates(l2, C, r4)
    BY <1>2, <1>3, JoinAssoc
  <2> QED
    BY <2>1 DEF Associates
<1>8. l2 \o r3 = A \o r2
  <2> HIDE DEF r3
  <2>1. Associates(A, B, r3)
    BY <1>4, JoinAssoc
  <2> QED
    BY <2>1 DEF Associates
<1>9. l5 \o F = A \o r2
  <2> HIDE DEF l2, l3, l4, l5, r2, r3, r4, r5
  <2> QED
    BY <1>5, <1>6, <1>7, <1>8, Zenon
<1> QED
  BY <1>1, <1>9, Zenon DEF FromRight

Frames(A, B, P, R) == ((A \o B) \o P) \o R = A \o (B \o (P \o R))

LEMMA Framed ==
  ASSUME NEW A \in Seq(Nat), NEW B \in Seq(Nat), NEW P \in Seq(Nat), NEW R \in Seq(Nat)
  PROVE  Frames(A, B, P, R)
<1> DEFINE l == A \o B
           r == P \o R
<1>1. l \in Seq(Nat) /\ r \in Seq(Nat)
  BY CutBack
<1>2. (l \o P) \o R = l \o r
  <2> HIDE DEF l
  <2>1. Associates(l, P, R)
    BY <1>1, JoinAssoc
  <2> QED
    BY <2>1 DEF Associates
<1>3. l \o r = A \o (B \o r)
  <2> HIDE DEF r
  <2> QED
    BY <1>1, JoinAssoc, ZenonT(60) DEF Associates
<1> HIDE DEF l, r
<1> QED
  BY <1>2, <1>3, Zenon DEF l, r, Frames

(* A frame of cross_test, and the request of main.go. *)
LEMMA FrameReads ==
  ASSUME NEW type \in Word, NEW P \in Seq(Nat), Len(P) \in Word, NEW R \in Seq(Nat)
  PROVE  readH3Frame(h3Frame(type, P) \o R) = ReadAs([type |-> type, payload |-> P], R)
<1> DEFINE n == Len(P)
           A == writeVarInt(type)
           B == writeVarInt(n)
<1>1. Good(A, type)
  BY Written
<1>2. Good(B, n)
  <2>1. n \in Word
    OBVIOUS
  <2> HIDE DEF n
  <2> QED
    BY <2>1, Written
<1>3. A \in Seq(Nat) /\ B \in Seq(Nat)
  BY <1>1, <1>2, Zenon DEF Good
<1>4. h3Frame(type, P) = ((<<>> \o A) \o B) \o P
  BY Zenon DEF h3Frame, appendVarInt
<1> HIDE DEF A, B
<1>5. <<>> \o A = A
  BY <1>3, ConcatEmptySeq
<1>6. ((A \o B) \o P) \o R = A \o (B \o (P \o R))
  <2>1. Frames(A, B, P, R)
    BY <1>3, Framed
  <2> QED
    BY <2>1 DEF Frames
<1>7. readH3Frame(A \o (B \o (P \o R))) = ReadAs([type |-> type, payload |-> P], R)
  BY <1>1, <1>2, ReadsFrame DEF ReadsBack
<1> QED
  BY <1>4, <1>5, <1>6, <1>7, Zenon

LEMMA RequestReads ==
  ASSUME NEW P \in Seq(Nat), Len(P) + 2 \in Word
  PROVE  readH3Frame(encodeH3Request(P)).val = [type |-> 1, payload |-> <<0, 0>> \o P]
<1> DEFINE n == Len(P)
           Z == <<0, 0>>
           Q == Z \o P
           A == writeVarInt(1)
           B == writeVarInt(n + 2)
<1>0. Z \in Seq(Nat) /\ Len(Z) = 2 /\ n \in Nat
  OBVIOUS
<1>1. encodeH3Request(P) = ((A \o B) \o Z) \o P
  BY Zenon DEF encodeH3Request
<1> HIDE DEF Z
<1>2. Q \in Seq(Nat) /\ Len(Q) = n + 2
  <2>1. Q \in Seq(Nat) /\ Len(Q) = Len(Z) + Len(P)
    BY <1>0, CutBack
  <2> HIDE DEF Q
  <2> QED
    BY <1>0, <2>1
<1>3. Good(A, 1)
  <2>1. 1 \in Word
    BY SMT DEF Word
  <2> QED
    BY <2>1, Written
<1>4. Good(B, Len(Q))
  <2> DEFINE m == n + 2
  <2>1. m \in Word
    OBVIOUS
  <2> HIDE DEF m
  <2>2. Good(writeVarInt(m), m)
    BY <2>1, Written
  <2> QED
    BY <1>2, <2>2, Zenon DEF m
<1>5. A \in Seq(Nat) /\ B \in Seq(Nat)
  BY <1>3, <1>4, Zenon DEF Good
<1> HIDE DEF A, B
<1>6. ((A \o B) \o Z) \o P = A \o (B \o Q)
  <2>1. Frames(A, B, Z, P)
    BY <1>0, <1>5, Framed
  <2> QED
    BY <2>1 DEF Frames
<1>7. <<>> \in Seq(Nat) /\ Q \o <<>> = Q
  <2> HIDE DEF Q
  <2> QED
    BY <1>2, ConcatEmptySeq
<1> HIDE DEF Q
<1>8. readH3Frame(A \o (B \o (Q \o <<>>))) = ReadAs([type |-> 1, payload |-> Q], <<>>)
  <2>1. ReadsBack(A, B, 1, Q, <<>>)
    BY <1>2, <1>3, <1>4, <1>7, ReadsFrame
  <2> QED
    BY <2>1 DEF ReadsBack
<1>9. readH3Frame(encodeH3Request(P)) = ReadAs([type |-> 1, payload |-> Q], <<>>)
  BY <1>1, <1>6, <1>7, <1>8, Zenon
<1>10. readH3Frame(encodeH3Request(P)).val = [type |-> 1, payload |-> Q]
  BY <1>9 DEF ReadAs
<1> QED
  BY <1>10 DEF Q, Z

(* The SETTINGS that the server writes, as main.go reads them. *)
Understood(a1, b1, a2, b2, a3, b3, R) ==
  \E all :
    /\ readH3Frame(SettingsEncode(<<<<a1, b1>>, <<a2, b2>>, <<a3, b3>>>>) \o R)
         = ReadAs([type |-> 4, payload |-> all], R)
    /\ parseSettings(all) = {<<a1, b1>>, <<a2, b2>>, <<a3, b3>>}

LEMMA SettingsRead ==
  ASSUME NEW a1 \in Word, NEW b1 \in Word, NEW a2 \in Word, NEW b2 \in Word,
         NEW a3 \in Word, NEW b3 \in Word, NEW R \in Seq(Nat)
  PROVE  Understood(a1, b1, a2, b2, a3, b3, R)
<1> DEFINE A == VarIntWrite(a1)
           B == VarIntWrite(b1)
           C == VarIntWrite(a2)
           D == VarIntWrite(b2)
           E == VarIntWrite(a3)
           F == VarIntWrite(b3)
           T2 == E \o (F \o <<>>)
           T1 == C \o (D \o T2)
           T0 == A \o (B \o T1)
           f1 == {} \cup {<<a1, b1>>}
           f2 == f1 \cup {<<a2, b2>>}
           f3 == f2 \cup {<<a3, b3>>}
           all == Fields(a1, b1, a2, b2, a3, b3)
<1>1. /\ Good(A, a1) /\ Good(B, b1) /\ Good(C, a2) /\ Good(D, b2) /\ Good(E, a3)
      /\ Good(F, b3)
  <2>1. ASSUME NEW v \in Word PROVE Good(VarIntWrite(v), v)
    BY Written
  <2> QED
    BY <2>1, Zenon
<1>2. /\ A \in Seq(Nat) /\ B \in Seq(Nat) /\ C \in Seq(Nat) /\ D \in Seq(Nat)
      /\ E \in Seq(Nat) /\ F \in Seq(Nat)
  BY <1>1, Zenon DEF Good
<1>3. all = ((((((<<>> \o A) \o B) \o C) \o D) \o E) \o F)
  BY Zenon DEF Fields
<1> HIDE DEF A, B, C, D, E, F
<1>4. all = T0
  <2>1. FromRight(A, B, C, D, E, F)
    BY <1>2, FieldsAre
  <2> QED
    BY <1>3, <2>1, Zenon DEF FromRight
<1>5. <<>> \in Seq(Nat) /\ Len(<<>>) = 0
  OBVIOUS
<1>6. /\ OneSetting(Parsed(T2, f2)) = Parsed(<<>>, f3)
      /\ T2 \in Seq(Nat) /\ Len(T2) \in Nat /\ Len(T2) >= 2 /\ Len(T2) <= 16
  <2> HIDE DEF f2
  <2>1. /\ OneSetting(Parsed(E \o (F \o <<>>), f2)) = Parsed(<<>>, f2 \cup {<<a3, b3>>})
        /\ T2 \in Seq(Nat) /\ Len(T2) \in Nat
        /\ Len(T2) >= Len(<<>>) + 2 /\ Len(T2) <= Len(<<>>) + 16
    <3>1. Takes(E, F, a3, b3, <<>>, f2)
      BY <1>1, <1>5, OneParsed
    <3> QED
      BY <3>1, Zenon DEF Takes
  <2> HIDE DEF T2
  <2>2. Len(T2) >= 2 /\ Len(T2) <= 16
    BY <1>5, <2>1
  <2> QED
    BY <2>1, <2>2, Zenon DEF T2
<1> HIDE DEF T2
<1>7. /\ OneSetting(Parsed(T1, f1)) = Parsed(T2, f2)
      /\ T1 \in Seq(Nat) /\ Len(T1) \in Nat /\ Len(T1) >= 4 /\ Len(T1) <= 32
  <2> HIDE DEF f1
  <2>1. /\ OneSetting(Parsed(T1, f1)) = Parsed(T2, f1 \cup {<<a2, b2>>})
        /\ T1 \in Seq(Nat) /\ Len(T1) \in Nat
        /\ Len(T1) >= Len(T2) + 2 /\ Len(T1) <= Len(T2) + 16
    <3>1. Takes(C, D, a2, b2, T2, f1)
      BY <1>1, <1>6, OneParsed
    <3> QED
      BY <3>1, Zenon DEF Takes
  <2> HIDE DEF T1
  <2>2. Len(T1) >= 4 /\ Len(T1) <= 32
    BY <1>6, <2>1, SMTT(40)
  <2> QED
    BY <2>1, <2>2, Zenon
<1> HIDE DEF T1
<1>8. /\ OneSetting(Parsed(T0, {})) = Parsed(T1, f1)
      /\ T0 \in Seq(Nat) /\ Len(T0) \in Nat /\ Len(T0) >= 6 /\ Len(T0) <= 48
  <2>1. /\ OneSetting(Parsed(T0, {})) = Parsed(T1, {} \cup {<<a1, b1>>})
        /\ T0 \in Seq(Nat) /\ Len(T0) \in Nat
        /\ Len(T0) >= Len(T1) + 2 /\ Len(T0) <= Len(T1) + 16
    <3>1. Takes(A, B, a1, b1, T1, {})
      BY <1>1, <1>7, OneParsed
    <3> QED
      BY <3>1, Zenon DEF Takes
  <2> HIDE DEF T0
  <2>2. Len(T0) >= 6 /\ Len(T0) <= 48
    BY <1>7, <2>1, SMTT(40)
  <2> QED
    BY <2>1, <2>2, Zenon
<1> HIDE DEF T0, f1, f2, f3
<1>9. OneSetting(Parsed(<<>>, f3)) = Parsed(<<>>, f3)
  BY NoneParsed
<1>10. parseSettings(T0) = Parsed(<<>>, f3).found
  <2>1. Len(T0) >= 3
    BY <1>8
  <2> DEFINE x1 == Parsed(T1, f1)
             x2 == Parsed(T2, f2)
             x3 == Parsed(<<>>, f3)
  <2>2. /\ OneSetting(Parsed(T0, {})) = x1 /\ OneSetting(x1) = x2
        /\ OneSetting(x2) = x3 /\ OneSetting(x3) = x3
    BY <1>6, <1>7, <1>8, <1>9, Zenon
  <2> HIDE DEF x1, x2, x3
  <2>3. parseSettings(T0) = x3.found
    BY <1>8, <2>1, <2>2, ParsesThree
  <2> QED
    BY <2>3 DEF x3
<1>11. parseSettings(all) = {<<a1, b1>>, <<a2, b2>>, <<a3, b3>>}
  <2>1. Parsed(<<>>, f3).found = f3
    BY DEF Parsed
  <2>2. f3 = {<<a1, b1>>, <<a2, b2>>, <<a3, b3>>}
    BY Zenon DEF f1, f2, f3
  <2> QED
    BY <1>4, <1>10, <2>1, <2>2, Zenon
<1> DEFINE G == VarIntWrite(4)
           n == Len(all)
           H == VarIntWrite(n)
<1>12. Good(G, 4) /\ all \in Seq(Nat) /\ Good(H, n)
  <2>1. 4 \in Word /\ n \in Word
    <3>1. n \in Nat /\ n <= 48
      BY <1>4, <1>8
    <3> HIDE DEF n
    <3> QED
      BY <3>1, SMT DEF Word
  <2>2. ASSUME NEW v \in Word PROVE Good(VarIntWrite(v), v)
    BY Written
  <2> HIDE DEF n
  <2> QED
    BY <1>4, <1>8, <2>1, <2>2
<1>13. G \in Seq(Nat) /\ H \in Seq(Nat)
  BY <1>12, Zenon DEF Good
<1> DEFINE t == <<<<a1, b1>>, <<a2, b2>>, <<a3, b3>>>>
<1>14. SettingsEncode(t) = (G \o H) \o all
  <2>1. Encodes(a1, b1, a2, b2, a3, b3)
    BY EncodesThree
  <2> QED
    BY <2>1, Zenon DEF Encodes
<1> HIDE DEF G, H, all, t
<1>15. Frames(G, H, all, R)
  BY <1>12, <1>13, Framed
<1>16. ReadsBack(G, H, 4, all, R)
  <2>1. Good(H, Len(all))
    BY <1>12 DEF n
  <2> HIDE DEF n
  <2> QED
    BY <1>12, <2>1, ReadsFrame
<1>17. readH3Frame(SettingsEncode(t) \o R) = ReadAs([type |-> 4, payload |-> all], R)
  BY <1>14, <1>15, <1>16, Zenon DEF Frames, ReadsBack
<1> QED
  BY <1>11, <1>17, Zenon DEF t, Understood

(* readH3Frame reads back whole, and takes nothing of what follows, every  *)
(* frame of h3Frame, request of encodeH3Request and SETTINGS of            *)
(* SettingsFrame#encode, whose settings are found: for payloads of any     *)
(* length and values below 2^31.                                           *)
THEOREM FramesReadBack ==
  ASSUME NEW type \in Word, NEW v \in Word, NEW n \in Nat, n + 2 \in Word
  PROVE  FramesAgree(type, v, n)
<1> DEFINE P == [i \in 1 .. n |-> i % 256]
           t == <<<<1, v>>, <<6, n>>, <<v, 16>>>>
           frame == readH3Frame(SettingsEncode(t) \o Junk)
<1>0. n \in Word /\ 1 \in Word /\ 6 \in Word /\ 16 \in Word
  BY SMT DEF Word
<1>1. P \in Seq(Nat) /\ Len(P) = n
  <2>1. \A i \in 1 .. n : i % 256 \in Nat
    OBVIOUS
  <2> QED
    BY <2>1
<1>2. Junk \in Seq(Nat)
  BY DEF Junk
<1> HIDE DEF Junk, P
<1>3. readH3Frame(h3Frame(type, P) \o Junk) = ReadAs([type |-> type, payload |-> P], Junk)
  BY <1>0, <1>1, <1>2, FrameReads
<1>4. readH3Frame(encodeH3Request(P)).val = [type |-> 1, payload |-> <<0, 0>> \o P]
  <2>1. Len(P) + 2 \in Word
    BY <1>1
  <2> QED
    BY <1>1, <2>1, RequestReads
<1>5. PICK all : /\ frame = ReadAs([type |-> 4, payload |-> all], Junk)
                 /\ parseSettings(all) = {<<1, v>>, <<6, n>>, <<v, 16>>}
  <2>1. Understood(1, v, 6, n, v, 16, Junk)
    BY <1>0, <1>2, SettingsRead
  <2> QED
    BY <2>1, Zenon DEF Understood
<1>6. t[1] = <<1, v>> /\ t[2] = <<6, n>> /\ t[3] = <<v, 16>>
  OBVIOUS
<1> HIDE DEF frame, t
<1>7. frame.val.type = 4 /\ frame.val.payload = all /\ frame.rest = Junk
  BY <1>5 DEF ReadAs
<1>8. {t[i] : i \in 1 .. 3} = {t[1], t[2], t[3]}
  <2>1. 1 .. 3 = {1, 2, 3}
    OBVIOUS
  <2> QED
    BY <2>1, Zenon
<1>9. parseSettings(frame.val.payload) = {t[i] : i \in 1 .. 3}
  BY <1>5, <1>6, <1>7, <1>8, Zenon
<1> QED
  BY <1>3, <1>4, <1>7, <1>9, Zenon DEF FramesAgree, P, t, frame


-----------------------------------------------------------------------------
(* What the runs of MCAlgorithms check of an ACK. *)

(* The numbers of an ACK are a sequence that is not empty. *)
LEMMA AckInputIs ==
  ASSUME AlgInit, input.kind = "ack"
  PROVE  input.pns \in Seq(Nat) /\ Len(input.pns) # 0
<1>1. input \in AckInputs
  <2>1. /\ None.kind # "ack" /\ \A x \in CodecInputs : x.kind # "ack"
        /\ \A x \in PnInputs : x.kind # "ack"
        /\ \A x \in LatInputs : x.kind # "ack"
        /\ \A x \in PairInputs : x.kind # "ack"
    BY DEF None, CodecInputs, PnInputs, LatInputs, PairInputs
  <2> QED
    BY <2>1, Zenon DEF AlgInit
<1>2. PICK s \in UNION {[1 .. n -> 0 .. MaxPn] : n \in 1 .. MaxHeld} :
        input = [kind |-> "ack", pns |-> s]
  BY <1>1, Zenon DEF AckInputs
<1>3. PICK n \in 1 .. MaxHeld : s \in [1 .. n -> 0 .. MaxPn]
  OBVIOUS
<1>4. n \in Nat /\ n # 0 /\ \A v \in 0 .. MaxPn : v \in Nat
  BY BoundsAssumption
<1>5. s \in [1 .. n -> Nat]
  BY <1>3, <1>4
<1>6. s \in Seq(Nat) /\ Len(s) = n
  BY <1>4, <1>5
<1> QED
  BY <1>2, <1>4, <1>6

(* Nothing changes the input. *)
LEMMA InputStays ==
  ASSUME [AlgNext]_<<vars, input>>
  PROVE  input' = input
BY Zenon DEF AlgNext, vars

(* The peer takes exactly the received numbers from an ACK frame, however  *)
(* many there are and wherever their gaps lie: on_ack_received undoes what *)
(* Connection#send computed.                                               *)
THEOREM AckRoundTrips == AlgSpec => []RoundTrip
<1>1. AlgInit => RoundTrip
  <2> SUFFICES ASSUME AlgInit, input.kind = "ack"
               PROVE  RoundTrips(input.pns)
    BY DEF RoundTrip
  <2> QED
    BY AckInputIs, FrameRead, Zenon
<1>2. RoundTrip /\ [AlgNext]_<<vars, input>> => RoundTrip'
  <2> SUFFICES ASSUME RoundTrip, [AlgNext]_<<vars, input>>
               PROVE  RoundTrip'
    OBVIOUS
  <2>1. input' = input
    BY InputStays
  <2> QED
    BY <2>1, Zenon DEF RoundTrip
<1> QED
  BY <1>1, <1>2, PTL DEF AlgSpec

(* The builder raises exactly when it holds a number twice: the guard that *)
(* module Transfer gives the sending of an ACK is the code's, for every    *)
(* list of numbers.                                                        *)
THEOREM AckRaisesOnRepeat == AlgSpec => []RaisesOnRepeat
<1>1. AlgInit => RaisesOnRepeat
  <2> SUFFICES ASSUME AlgInit, input.kind = "ack"
               PROVE  AckFrame(input.pns).raises <=> HasRepeat(input.pns)
    BY DEF RaisesOnRepeat
  <2> QED
    BY AckInputIs, FrameRead, RepeatIsTwin, Zenon
<1>2. RaisesOnRepeat /\ [AlgNext]_<<vars, input>> => RaisesOnRepeat'
  <2> SUFFICES ASSUME RaisesOnRepeat, [AlgNext]_<<vars, input>>
               PROVE  RaisesOnRepeat'
    OBVIOUS
  <2>1. input' = input
    BY InputStays
  <2> QED
    BY <2>1, Zenon DEF RaisesOnRepeat
<1> QED
  BY <1>1, <1>2, PTL DEF AlgSpec


-----------------------------------------------------------------------------
(* What the runs of MCAlgorithms check of the reports. *)

LEMMA LatsAre ==
  ASSUME NEW s \in SortedLats \cup LongLats
  PROVE  s \in Seq(Nat) /\ Rising(s)
<1>1. CASE s \in SortedLats
  <2>1. /\ s \in UNION {[1 .. n -> 1 .. 4] : n \in 0 .. MaxLats}
        /\ \A i \in 1 .. (Len(s) - 1) : s[i] <= s[i + 1]
    BY <1>1, Zenon DEF SortedLats
  <2>2. PICK n \in 0 .. MaxLats : s \in [1 .. n -> 1 .. 4]
    BY <2>1
  <2>3. n \in Nat /\ \A v \in 1 .. 4 : v \in Nat
    BY BoundsAssumption
  <2>4. s \in [1 .. n -> Nat]
    BY <2>2, <2>3
  <2>5. s \in Seq(Nat)
    BY <2>3, <2>4
  <2> QED
    BY <2>1, <2>5, AdjacentRises
<1>2. CASE s \in LongLats
  <2> DEFINE L == {19, 20, 21, 99, 100, 101, 999, 1000, 1001}
  <2>0. s \in {[i \in 1 .. n |-> i] : n \in L} /\ \A n \in L : n \in Nat
    BY <1>2 DEF LongLats
  <2> HIDE DEF L
  <2>1. PICK n \in L : s = [i \in 1 .. n |-> i]
    BY <2>0
  <2>2. n \in Nat
    BY <2>0
  <2>3. s \in Seq(Nat) /\ Len(s) = n /\ \A i \in 1 .. n : s[i] = i
    BY <2>1, <2>2
  <2> QED
    BY <2>2, <2>3, SMTT(40) DEF Rising
<1> QED
  BY <1>1, <1>2

LEMMA ResultsAre ==
  ASSUME NEW r \in Results
  PROVE  IsResult(r)
<1>1. PICK s \in {<<>>, <<1>>, <<2, 3>>, <<3, 3, 3>>}, e \in 0 .. 1, b \in {0, 5}, t \in {1, 2} :
        r = finalize(s, Len(s) + e, e, b, t)
  BY DEF Results
<1>2. s \in Seq(Nat) /\ Len(s) + e \in Nat /\ e \in 0 .. (Len(s) + e) /\ b \in Nat /\ t \in Nat
  <2>1. s \in Seq(Nat)
    <3>1. <<>> \in Seq(Nat) /\ <<1>> \in Seq(Nat) /\ <<2, 3>> \in Seq(Nat)
      OBVIOUS
    <3>2. <<3, 3, 3>> \in Seq(Nat)
      OBVIOUS
    <3> QED
      BY <3>1, <3>2, Zenon
  <2>2. e \in Nat /\ Len(s) \in Nat
    BY <2>1
  <2> QED
    BY <2>1, <2>2
<1>3. Rising(s)
  <2>1. \A i \in 1 .. (Len(s) - 1) : s[i] <= s[i + 1]
    <3>1. CASE s = <<>>
      BY <3>1
    <3>2. CASE s = <<1>>
      BY <3>2
    <3>3. CASE s = <<2, 3>>
      BY <3>3
    <3>4. CASE s = <<3, 3, 3>>
      <4>1. Len(s) = 3 /\ s[1] = 3 /\ s[2] = 3 /\ s[3] = 3
        BY <3>4
      <4>2. \A i \in 1 .. 2 : i = 1 \/ i = 2
        OBVIOUS
      <4> QED
        BY <4>1, <4>2
    <3> QED
      BY <3>1, <3>2, <3>3, <3>4
  <2> QED
    BY <1>2, <2>1, AdjacentRises
<1>4. IsResult(finalize(s, Len(s) + e, e, b, t))
  BY <1>2, <1>3, FinalizeIs
<1> QED
  BY <1>1, <1>4

LEMMA ReportInputIs ==
  ASSUME AlgInit
  PROVE  /\ input.kind = "lats" => input \in LatInputs
         /\ input.kind = "pair" => input \in PairInputs
<1>1. /\ None.kind = "none" /\ \A x \in CodecInputs : x.kind = "codec"
      /\ \A x \in AckInputs : x.kind = "ack"
      /\ \A x \in PnInputs : x.kind = "pn"
      /\ \A x \in LatInputs : x.kind = "lats"
      /\ \A x \in PairInputs : x.kind = "pair"
  BY DEF None, AckInputs, CodecInputs, PnInputs, LatInputs, PairInputs
<1>2. /\ "none" # "lats" /\ "codec" # "lats" /\ "ack" # "lats" /\ "pn" # "lats"
      /\ "pair" # "lats" /\ "none" # "pair" /\ "codec" # "pair" /\ "ack" # "pair"
      /\ "pn" # "pair"
  OBVIOUS
<1>3. input \in {None} \cup AckInputs \cup CodecInputs \cup PnInputs
                  \cup LatInputs \cup PairInputs
  BY Zenon DEF AlgInit
<1> QED
  BY <1>1, <1>2, <1>3, Zenon

(* The percentiles the benchmarks report are quantiles of their samples,   *)
(* in order, and the comparisons never mark both sides or hide that a side *)
(* answered nothing.                                                       *)
THEOREM ReportIsSound == AlgSpec => []ReportSound
<1>1. AlgInit => ReportSound
  <2> SUFFICES ASSUME AlgInit
               PROVE  ReportSound
    OBVIOUS
  <2>1. ASSUME input.kind = "lats"
        PROVE  Ordered(input.lats)
    <3>1. PICK s \in SortedLats \cup LongLats : input = [kind |-> "lats", lats |-> s]
      BY <2>1, ReportInputIs, Zenon DEF LatInputs
    <3>2. input.lats = s
      BY <3>1
    <3> QED
      BY <3>1, <3>2, LatsAre, OrderedHolds
  <2>2. ASSUME input.kind = "pair"
        PROVE  Compared(input.cr, input.go)
    <3>0. input \in PairInputs
      BY <2>2, ReportInputIs
    <3>1. PICK r \in Results, q \in Results : input = [kind |-> "pair", cr |-> r, go |-> q]
      BY <3>0 DEF PairInputs
    <3>2. input.cr = r /\ input.go = q
      BY <3>1
    <3> QED
      BY <3>1, <3>2, ResultsAre, ComparedHolds
  <2> QED
    BY <2>1, <2>2, Zenon DEF ReportSound
<1>2. ReportSound /\ [AlgNext]_<<vars, input>> => ReportSound'
  <2> SUFFICES ASSUME ReportSound, [AlgNext]_<<vars, input>>
               PROVE  ReportSound'
    OBVIOUS
  <2>1. input' = input
    BY InputStays
  <2> QED
    BY <2>1, Zenon DEF ReportSound
<1> QED
  BY <1>1, <1>2, PTL DEF AlgSpec


-----------------------------------------------------------------------------
(* What the runs of MCAlgorithms check of the codecs. *)

LEMMA EdgesAre == Edges \subseteq Word
BY SMT DEF Edges, Word

LEMMA CodecInputIs ==
  ASSUME AlgInit
  PROVE  /\ input.kind = "codec" => \E v \in Edges : input = [kind |-> "codec", v |-> v]
         /\ input.kind = "pn" => input \in PnInputs
<1>1. /\ None.kind = "none" /\ \A x \in CodecInputs : x.kind = "codec"
      /\ \A x \in AckInputs : x.kind = "ack"
      /\ \A x \in PnInputs : x.kind = "pn"
      /\ \A x \in LatInputs : x.kind = "lats"
      /\ \A x \in PairInputs : x.kind = "pair"
  BY DEF None, AckInputs, CodecInputs, PnInputs, LatInputs, PairInputs
<1>2. /\ "none" # "codec" /\ "lats" # "codec" /\ "ack" # "codec" /\ "pn" # "codec"
      /\ "pair" # "codec" /\ "none" # "pn" /\ "lats" # "pn" /\ "ack" # "pn"
      /\ "pair" # "pn"
  OBVIOUS
<1>3. input \in {None} \cup AckInputs \cup CodecInputs \cup PnInputs
                  \cup LatInputs \cup PairInputs
  BY Zenon DEF AlgInit
<1>4. /\ input.kind = "codec" => input \in CodecInputs
      /\ input.kind = "pn" => input \in PnInputs
  BY <1>1, <1>2, <1>3, Zenon
<1> QED
  BY <1>4, Zenon DEF CodecInputs

LEMMA PnInputIs ==
  ASSUME NEW x \in PnInputs
  PROVE  x.largest \in Nat /\ x.bits \in Nat \ {0}
BY SMT DEF PnInputs

(* The Go clients and the Crystal server write and read integers, frames,  *)
(* SETTINGS and literal lengths alike, at every edge of an encoding, and a *)
(* truncated packet number is completed to the one that was sent.          *)
THEOREM CodecsMeet == AlgSpec => []CodecsAgree
<1>1. AlgInit => CodecsAgree
  <2> SUFFICES ASSUME AlgInit
               PROVE  CodecsAgree
    OBVIOUS
  <2>1. ASSUME input.kind = "codec"
        PROVE  /\ VarIntsAgree(input.v)
               /\ input.v < 300 => FramesAgree(7, input.v, input.v)
               /\ LiteralsAgree(input.v)
    <3>1. PICK v \in Edges : input = [kind |-> "codec", v |-> v]
      BY <2>1, CodecInputIs, Zenon
    <3>2. input.v = v
      BY <3>1
    <3>3. v \in Word
      BY EdgesAre
    <3>4. VarIntsAgree(v)
      BY <3>3, VarIntsRoundTrip
    <3>5. LiteralsAgree(v)
      BY <3>3, LiteralLengthsAgree
    <3>6. ASSUME v < 300 PROVE FramesAgree(7, v, v)
      <4>1. v \in Nat /\ v + 2 \in Word /\ 7 \in Word
        BY <3>3, <3>6, SMT DEF Word
      <4> QED
        BY <3>3, <4>1, FramesReadBack
    <3> QED
      BY <3>2, <3>4, <3>5, <3>6
  <2>2. ASSUME input.kind = "pn"
        PROVE  NumbersAgree(input.largest, input.bits)
    <3>1. input \in PnInputs
      BY <2>2, CodecInputIs
    <3>2. input.largest \in Nat /\ input.bits \in Nat \ {0}
      BY <3>1, PnInputIs
    <3> QED
      BY <3>2, PacketNumbersComplete
  <2> QED
    BY <2>1, <2>2 DEF CodecsAgree
<1>2. CodecsAgree /\ [AlgNext]_<<vars, input>> => CodecsAgree'
  <2> SUFFICES ASSUME CodecsAgree, [AlgNext]_<<vars, input>>
               PROVE  CodecsAgree'
    OBVIOUS
  <2>1. input' = input
    BY InputStays
  <2> QED
    BY <2>1 DEF CodecsAgree
<1> QED
  BY <1>1, <1>2, PTL DEF AlgSpec
=============================================================================
