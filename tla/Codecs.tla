------------------------------- MODULE Codecs -------------------------------
(***************************************************************************)
(* The integer and frame codecs the Go clients and the Crystal server meet *)
(* on the wire with: QUIC variable-length integers, HTTP/3 frames,         *)
(* SETTINGS and the prefix integers of QPACK literals.  Bytes are numbers  *)
(* 0 .. 255.  A reader gives the value and the bytes it leaves, or Short   *)
(* when the bytes end before the value does.  Values are below 2^31 here   *)
(* (the four high bytes of the eight-byte form are zero).                  *)
(***************************************************************************)
EXTENDS Integers, Sequences

Short == [ok |-> FALSE, val |-> 0, rest |-> <<>>]
ReadAs(v, s) == [ok |-> TRUE, val |-> v, rest |-> s]
After(s, n) == SubSeq(s, n + 1, Len(s))

(* 1 << n *)
Pow2(n) ==
  LET pow[k \in 0 .. n] == IF k = 0 THEN 1 ELSE 2 * pow[k - 1] IN pow[n]

(* byte(v >> 8*k) *)
Byte(v, k) == IF k > 3 THEN 0 ELSE (v \div Pow2(8 * k)) % 256
BigEndian(v, n) == [i \in 1 .. n |-> Byte(v, n - i)]

FromBigEndian(s) ==
  LET val[i \in 0 .. Len(s)] == IF i = 0 THEN 0 ELSE val[i - 1] * 256 + s[i]
  IN val[Len(s)]

(* The two bits above the value in the first byte. *)
Tagged(tag, s) == <<s[1] + 64 * tag>> \o Tail(s)

-----------------------------------------------------------------------------
(* Go *)

(* Faulty variant: the two-byte form takes one value too many. *)
writeVarIntLate(v) ==
  CASE v <= 64         -> <<v>>
    [] 64 < v /\ v < 16384 -> Tagged(1, BigEndian(v, 2))
    [] 16384 <= v /\ v < 1073741824 -> Tagged(2, BigEndian(v, 4))
    [] OTHER           -> Tagged(3, BigEndian(v, 8))

writeVarInt(v) ==
  CASE v < 64          -> <<v>>
    [] 64 <= v /\ v < 16384 -> Tagged(1, BigEndian(v, 2))
    [] 16384 <= v /\ v < 1073741824 -> Tagged(2, BigEndian(v, 4))
    [] OTHER           -> Tagged(3, BigEndian(v, 8))

(* cross_test has a copy that appends. *)
appendVarInt(s, v) == s \o writeVarInt(v)

readVarInt(s) ==
  IF s = <<>> THEN Short
  ELSE LET n == Pow2(s[1] \div 64)
       IN IF Len(s) < n THEN Short
          ELSE ReadAs(FromBigEndian(<<s[1] % 64>> \o SubSeq(s, 2, n)), After(s, n))

readH3Frame(s) ==
  LET type == readVarInt(s)
      len  == readVarInt(type.rest)
  IN IF ~type.ok \/ ~len.ok \/ Len(len.rest) < len.val THEN Short
     ELSE ReadAs([type |-> type.val, payload |-> SubSeq(len.rest, 1, len.val)],
                 After(len.rest, len.val))

h3Frame(type, payload) ==
  appendVarInt(appendVarInt(<<>>, type), Len(payload)) \o payload

(* The HEADERS frame around what the qpack library encodes. *)
encodeH3Request(fields) ==
  writeVarInt(1) \o writeVarInt(Len(fields) + 2) \o <<0, 0>> \o fields

(* The settings of a payload, up to the first that is cut off: a turn of   *)
(* the loop, and the loop, which a payload of n bytes leaves within n.     *)
OneSetting(x) ==
  LET k == readVarInt(x.rest)
      v == readVarInt(k.rest)
  IN IF k.ok /\ v.ok
       THEN [rest |-> v.rest, found |-> x.found \cup {<<k.val, v.val>>}] ELSE x

parseSettings(payload) ==
  LET after[n \in 0 .. Len(payload)] ==
        IF n = 0 THEN [rest |-> payload, found |-> {}] ELSE OneSetting(after[n - 1])
  IN after[Len(payload)].found

(* What follows a full prefix, seven bits a byte: five bytes at most. *)
OneByte(x) ==
  IF x.extra < 128 THEN x
  ELSE [extra |-> x.extra \div 128, out |-> Append(x.out, (x.extra % 128) + 128)]

Continued(extra) ==
  LET after[n \in 0 .. 4] ==
        IF n = 0 THEN [extra |-> extra, out |-> <<>>] ELSE OneByte(after[n - 1])
  IN Append(after[4].out, after[4].extra)

(* minimalQPACKHeaders: the length of a name, three bits after 001, and of *)
(* a value, seven bits.  For a long name the first byte is written by      *)
(* overwriting the last byte of appendVarInt.                              *)
nameLength(n) ==
  IF n < 7 THEN <<32 + n>>
  ELSE LET redo == appendVarInt(<<>>, n - 6)
       IN [redo EXCEPT ![Len(redo)] = 39] \o Continued(n - 7)

valueLength(n) == IF n < 127 THEN <<n>> ELSE <<127>> \o Continued(n - 127)

-----------------------------------------------------------------------------
(* Crystal *)

(* VarInt.write *)
VarIntWrite(v) ==
  IF v <= 63 THEN <<v>>
  ELSE IF v <= 16383 THEN BigEndian(v + 16384, 2)
  ELSE IF v <= 1073741823 THEN <<Byte(v, 3) + 128>> \o BigEndian(v % Pow2(24), 3)
  ELSE <<192>> \o BigEndian(v, 7)

(* VarInt.decode *)
VarIntDecode(s) ==
  IF s = <<>> THEN Short
  ELSE LET first == s[1] % 64
           size == CASE s[1] \div 64 = 0 -> 1 [] s[1] \div 64 = 1 -> 2
                     [] s[1] \div 64 = 2 -> 4 [] s[1] \div 64 = 3 -> 8
       IN IF Len(s) < size THEN Short
          ELSE ReadAs(CASE size = 1 -> first
                        [] size = 2 -> first * 256 + s[2]
                        [] size = 4 -> first * Pow2(24) + s[2] * Pow2(16) + s[3] * 256 + s[4]
                        [] size = 8 -> FromBigEndian(SubSeq(s, 2, 8)),
                      After(s, size))

(* SettingsFrame#encode *)
SettingsEncode(settings) ==
  LET payload[n \in 0 .. Len(settings)] ==
        IF n = 0 THEN <<>>
        ELSE payload[n - 1] \o VarIntWrite(settings[n][1]) \o VarIntWrite(settings[n][2])
      all == payload[Len(settings)]
  IN VarIntWrite(4) \o VarIntWrite(Len(all)) \o all

(* QPACK::Integer.decode: the value of a turn of the loop that reads byte  *)
(* n, and the whole, whose loop ends at a byte below 128.                  *)
IntegerLoop(val, s, n) ==
  LET after[k \in 0 .. n] ==
        IF k = 0 THEN val ELSE after[k - 1] + (s[k] % 128) * Pow2(7 * (k - 1))
  IN after[n]

IntegerDecode(s, prefix_val, n) ==
  LET last == {k \in 1 .. Len(s) : s[k] < 128 /\ \A j \in 1 .. (k - 1) : s[j] >= 128}
  IN IF prefix_val < Pow2(n) - 1 THEN ReadAs(prefix_val, s)
     ELSE IF last = {} THEN Short
     ELSE LET k == CHOOSE k \in last : TRUE IN ReadAs(IntegerLoop(prefix_val, s, k), After(s, k))

(* QPACK::Integer.encode *)
IntegerEncode(value, n, first_byte) ==
  IF value < Pow2(n) - 1 THEN <<first_byte + value>>
  ELSE <<first_byte + Pow2(n) - 1>> \o Continued(value - (Pow2(n) - 1))

(* A decoder's view of the length of a literal's name: Short if the first  *)
(* byte starts another kind of field line.                                 *)
NameDecode(s) ==
  IF s[1] \div 32 # 1 THEN Short ELSE IntegerDecode(Tail(s), s[1] % 8, 3)

(* decode_packet_number: the number next to the expected one that ends in  *)
(* the truncated_pn.                                                       *)
decode_packet_number(largest_pn, truncated_pn, pn_nbits) ==
  LET expected_pn == largest_pn + 1
      pn_win  == Pow2(pn_nbits)
      pn_hwin == pn_win \div 2
      candidate == (expected_pn - (expected_pn % pn_win)) + truncated_pn
  IN IF candidate + pn_hwin <= expected_pn THEN candidate + pn_win
     ELSE IF candidate > expected_pn + pn_hwin /\ candidate >= pn_win
       THEN candidate - pn_win
     ELSE candidate

-----------------------------------------------------------------------------
Junk == <<255, 0, 64>>

(* Both sides write a value the same way, each reads it and nothing more,  *)
(* and each notices when a byte is missing.                                *)
VarIntsAgree(v) ==
  LET s == writeVarInt(v) IN
  /\ VarIntWrite(v) = s
  /\ readVarInt(s \o Junk) = ReadAs(v, Junk)
  /\ VarIntDecode(s \o Junk) = ReadAs(v, Junk)
  /\ \A n \in 0 .. (Len(s) - 1) :
       readVarInt(SubSeq(s, 1, n)) = Short /\ VarIntDecode(SubSeq(s, 1, n)) = Short

(* A frame that cross_test writes, and the SETTINGS and the request of     *)
(* main.go, are read back whole.                                           *)
FramesAgree(type, v, n) ==
  LET payload == [i \in 1 .. n |-> i % 256]
      settings == <<<<1, v>>, <<6, n>>, <<v, 16>>>>
      frame == readH3Frame(SettingsEncode(settings) \o Junk)
  IN /\ readH3Frame(h3Frame(type, payload) \o Junk)
          = ReadAs([type |-> type, payload |-> payload], Junk)
     /\ readH3Frame(encodeH3Request(payload)).val
          = [type |-> 1, payload |-> <<0, 0>> \o payload]
     /\ frame.val.type = 4 /\ frame.rest = Junk
     /\ parseSettings(frame.val.payload) = {settings[i] : i \in 1 .. 3}

(* Every packet number within half a window of the expected one is read    *)
(* back from its low bits, packets that come late or after a gap included. *)
NumbersAgree(largest_pn, pn_nbits) ==
  LET hwin == Pow2(pn_nbits) \div 2
      expected == largest_pn + 1
  IN \A pn \in (expected - hwin + 1) .. (expected + hwin) :
       pn >= 0 => decode_packet_number(largest_pn, pn % Pow2(pn_nbits), pn_nbits) = pn

(* The lengths of the literals agree with the decoder's, except for names  *)
(* of 70 bytes or more, where the overwritten byte is not the only one.    *)
LiteralsAgree(n) ==
  /\ valueLength(n) = IntegerEncode(n, 7, 0)
  /\ IntegerDecode(After(valueLength(n), 1) \o Junk, valueLength(n)[1], 7)
       = ReadAs(n, Junk)
  /\ NameDecode(nameLength(n) \o Junk) = ReadAs(n, Junk) <=> n < 70
=============================================================================
