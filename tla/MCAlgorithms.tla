---------------------------- MODULE MCAlgorithms ----------------------------
(***************************************************************************)
(* The pure algorithms, each on every one of a set of inputs, next to the  *)
(* reassembly of a stream in every order of arrival.  input is chosen in   *)
(* the initial state; without one, segments arrive.                        *)
(***************************************************************************)
EXTENDS Reassembly, AckRanges, Codecs, Report

CONSTANTS
  MaxPn,     \* packet numbers are 0 .. MaxPn (bound)
  MaxHeld,   \* how many numbers are noted between two ACKs (bound)
  MaxLats    \* the length of the short lists of latencies (bound)

ASSUME BoundsAssumption == MaxPn \in Nat /\ MaxHeld \in Nat /\ MaxLats \in Nat

VARIABLE input

(* Every segment of the stream, empty ones too: the peer cuts as it likes, *)
(* and its FIN may come on its own.                                        *)
AnySegments == {g \in (0 .. Size) \X (0 .. Size) : g[1] + g[2] <= Size}

None == [kind |-> "none"]

AckInputs ==
  {[kind |-> "ack", pns |-> s] : s \in UNION {[1 .. n -> 0 .. MaxPn] : n \in 1 .. MaxHeld}}

(* The values at which an encoding changes, and one beside them. *)
Edges == {0, 1, 6, 7, 8, 63, 64, 65, 69, 70, 126, 127, 128, 254, 255, 256, 16383,
          16384, 16385, 1073741823, 1073741824, 2147483647}

CodecInputs == {[kind |-> "codec", v |-> v] : v \in Edges}

(* The largest packet number received so far, around the windows of one    *)
(* and two bytes.                                                          *)
PnInputs ==
  {[kind |-> "pn", largest |-> n, bits |-> 8] : n \in 0 .. 260} \cup
  {[kind |-> "pn", largest |-> n, bits |-> 16] :
     n \in {0, 32766, 32767, 32768, 65534, 65535, 65536}}

SortedLats ==
  {s \in UNION {[1 .. n -> 1 .. 4] : n \in 0 .. MaxLats} :
     \A i \in 1 .. (Len(s) - 1) : s[i] <= s[i + 1]}

LongLats == {[i \in 1 .. n |-> i] : n \in {19, 20, 21, 99, 100, 101, 999, 1000, 1001}}

LatInputs == {[kind |-> "lats", lats |-> s] : s \in SortedLats \cup LongLats}

(* Results of a phase: the samples, the errors, the bytes and the time. *)
Results == {finalize(s, Len(s) + e, e, b, t) :
              s \in {<<>>, <<1>>, <<2, 3>>, <<3, 3, 3>>}, e \in 0 .. 1,
              b \in {0, 5}, t \in {1, 2}}

PairInputs == {[kind |-> "pair", cr |-> r, go |-> q] : r \in Results, q \in Results}

AlgInit ==
  /\ Init
  /\ input \in {None} \cup AckInputs \cup CodecInputs \cup PnInputs
                 \cup LatInputs \cup PairInputs

AlgNext == input = None /\ Next /\ UNCHANGED input

AlgSpec == AlgInit /\ [][AlgNext]_<<vars, input>>

-----------------------------------------------------------------------------
(* The peer takes exactly the received numbers from an ACK frame: none     *)
(* that was lost is treated as received, none received is forgotten.       *)
RoundTrip == input.kind = "ack" => RoundTrips(input.pns)

(* The builder raises exactly when it holds a number twice, which is what  *)
(* module Transfer assumes of it.                                          *)
RaisesOnRepeat ==
  input.kind = "ack" => (AckFrame(input.pns).raises <=> HasRepeat(input.pns))

(* The Go clients and the Crystal server write and read integers, frames,  *)
(* SETTINGS and literal lengths alike, at every edge of an encoding, and a *)
(* truncated packet number is completed to the one that was sent.          *)
CodecsAgree ==
  /\ input.kind = "codec" =>
       /\ VarIntsAgree(input.v)
       /\ input.v < 300 => FramesAgree(7, input.v, input.v)
       /\ LiteralsAgree(input.v)
  /\ input.kind = "pn" => NumbersAgree(input.largest, input.bits)

(* The percentiles the benchmarks report are quantiles of their samples,   *)
(* in order, and the comparisons never mark both sides or hide that a side *)
(* answered nothing.                                                       *)
ReportSound ==
  /\ input.kind = "lats" => Ordered(input.lats)
  /\ input.kind = "pair" => Compared(input.cr, input.go)
=============================================================================
