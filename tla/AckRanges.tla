----------------------------- MODULE AckRanges ------------------------------
(***************************************************************************)
(* The ACK frame: how Connection#send builds it from the packet numbers    *)
(* received since the last one (src/src/quic/connection.cr), and which     *)
(* numbers Recovery#on_ack_received takes from it (recovery.cr).  Packet   *)
(* numbers are UInt64 and Crystal's subtraction raises on underflow.       *)
(***************************************************************************)
EXTENDS Integers, Sequences, FiniteSets, Functions

-----------------------------------------------------------------------------
(* The builder. *)

(* received_pns.sort!, by insertion. *)
Placed(s, pn) ==
  LET k == CHOOSE k \in 0 .. Len(s) :
             /\ \A i \in 1 .. k : s[i] <= pn
             /\ \A i \in (k + 1) .. Len(s) : s[i] > pn
  IN SubSeq(s, 1, k) \o <<pn>> \o SubSeq(s, k + 1, Len(s))

Sorted(pns) ==
  LET sorted[n \in 0 .. Len(pns)] ==
        IF n = 0 THEN <<>> ELSE Placed(sorted[n - 1], pns[n])
  IN sorted[Len(pns)]

(* The length of the run of consecutive numbers that ends at position i of *)
(* a sorted sequence, counted downwards.                                   *)
RunLength(s, i) ==
  CHOOSE k \in 1 .. i :
    /\ \A j \in 0 .. (k - 1) : s[i - j] = s[i] - j
    /\ k = i \/ s[i - k] # s[i] - k

(* Going down from position i computes s[i] - RunLength: an underflow if   *)
(* the run ends at 0 and numbers are left.                                 *)
RunRaises(s, i) == LET k == RunLength(s, i) IN k < i /\ s[i] < k

(* Faulty variant: the subtractions wrap around instead of raising. *)
OneRangeWrapped(s, x) ==
  IF x.i = 0 THEN x
  ELSE LET k == RunLength(s, x.i) IN
       [i |-> x.i - k, smallest |-> s[x.i] - (k - 1), raises |-> FALSE,
        ranges |-> Append(x.ranges, [gap |-> (x.smallest - s[x.i] - 2) % 16,
                                     len |-> k - 1])]

(* A turn of the loop over what is left: i numbers, all below smallest. *)
OneRange(s, x) ==
  IF x.i = 0 \/ x.raises THEN x
  ELSE LET k == RunLength(s, x.i) IN
       [i |-> x.i - k, smallest |-> s[x.i] - (k - 1),
        raises |-> x.smallest - s[x.i] < 2 \/ RunRaises(s, x.i),
        ranges |-> Append(x.ranges, [gap |-> x.smallest - s[x.i] - 2,
                                     len |-> k - 1])]

(* It takes as many turns as numbers, or the rest change nothing. *)
LowerRanges(s, i, smallest) ==
  LET after[n \in 0 .. i] ==
        IF n = 0
          THEN [i |-> i, smallest |-> smallest, raises |-> FALSE, ranges |-> <<>>]
          ELSE OneRange(s, after[n - 1])
  IN after[i]

AckFrame(pns) ==
  LET s == Sorted(pns)
      n == Len(s)
      k == RunLength(s, n)
      lower == LowerRanges(s, n - k, s[n] - (k - 1))
  IN [raises |-> RunRaises(s, n) \/ lower.raises,
      largest |-> s[n], first |-> k - 1, ranges |-> lower.ranges]

-----------------------------------------------------------------------------
(* The reader. *)

MinusOrZero(a, b) == IF a > b THEN a - b ELSE 0

(* Faulty variant: the gap is taken for the number of missing packets. *)
ReadRangeShort(x, r) ==
  LET top == MinusOrZero(x.smallest, r.gap + 1)
      bottom == MinusOrZero(top, r.len)
  IN [smallest |-> bottom, acked |-> x.acked \cup (bottom .. top)]

ReadRange(x, r) ==
  LET top == MinusOrZero(x.smallest, r.gap + 2)
      bottom == MinusOrZero(top, r.len)
  IN [smallest |-> bottom, acked |-> x.acked \cup (bottom .. top)]

RangesRead(ranges, smallest) ==
  LET after[n \in 0 .. Len(ranges)] ==
        IF n = 0 THEN [smallest |-> smallest, acked |-> {}]
        ELSE ReadRange(after[n - 1], ranges[n])
  IN after[Len(ranges)]

Acknowledged(frame) ==
  LET smallest == MinusOrZero(frame.largest, frame.first)
  IN (smallest .. frame.largest) \cup RangesRead(frame.ranges, smallest).acked

-----------------------------------------------------------------------------
(* The peer takes exactly the received numbers from an ACK. *)
RoundTrips(pns) ==
  ~AckFrame(pns).raises => Acknowledged(AckFrame(pns)) = Range(pns)

HasRepeat(pns) == Cardinality(Range(pns)) < Len(pns)
=============================================================================
