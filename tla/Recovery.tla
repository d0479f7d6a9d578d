------------------------------ MODULE Recovery ------------------------------
(***************************************************************************)
(* Loss detection and congestion control of one path (src/src/quic/        *)
(* recovery.cr) with the part of Connection#tick that drives them and the  *)
(* ConnectionActor that calls it.                                          *)
(*                                                                         *)
(* Times are kept as ages: a packet remembers how long ago it was sent,    *)
(* and the loss alarm how long it still has to run.  A timer that is due   *)
(* may be served late: the actor sleeps at least 3 ms between ticks, and   *)
(* starts the sleep afresh after every packet or wake-up.                  *)
(* The RTT estimator is known by what it is used for: the loss delay and   *)
(* the base of the probe timeout, which may be anything after a sample.    *)
(***************************************************************************)
EXTENDS Integers, FiniteSets, FiniteSetsExt

CONSTANTS
  Spaces,        \* packet number spaces in use: 0 Initial, 1 Handshake, 2 App
  MaxPn,         \* packets sent in a space (bound)
  Sizes,         \* bytes of a packet
  MinWindow,     \* MIN_WINDOW
  BbrMinWindow,  \* the floor of the BBR window
  InitialWindow, \* initial_window
  LossDelays,    \* values of compute_loss_delay
  PtoBases,      \* values of the probe timeout before the backoff
  Bbr,           \* bbr_enabled
  PeerAnswers,   \* FALSE when the peer is unreachable
  MaxFlight,     \* packets tracked at a time (bound)
  MaxAge         \* ages beyond this are not told apart (bound)

ASSUME RecoveryAssumption ==
  /\ Spaces \subseteq {0, 1, 2}
  /\ MaxPn \in Nat /\ MaxFlight \in Nat /\ MaxAge \in Nat
  /\ MinWindow \in Nat \ {0} /\ BbrMinWindow \in Nat /\ InitialWindow \in Nat
  /\ MinWindow <= BbrMinWindow /\ MinWindow <= InitialWindow
  /\ Sizes \subseteq Nat /\ LossDelays \subseteq Nat /\ PtoBases \subseteq Nat
  /\ LossDelays # {} /\ PtoBases # {}
  /\ Bbr \in BOOLEAN /\ PeerAnswers \in BOOLEAN

VARIABLES
  sent_packets,      \* @sent_packets: a set of [sp, pn, age, bytes]
  packet_number,     \* the next number of each space
  bytes_in_flight,   \* @bytes_in_flight
  congestion_window, \* @congestion_window
  ssthresh,          \* @ssthresh; Infinity at first
  recovery_age,      \* age of @congestion_recovery_start_time, or Never
  largest_acked,     \* @largest_acked of each space
  loss_time,         \* time until @loss_time, or Never
  pto_count,         \* @pto_count
  loss_delay,        \* compute_loss_delay
  pto_base,          \* pto_timeout without the backoff
  handshake_complete, \* @tls.handshake_complete?
  busy               \* do packets or wake-ups keep the actor from its timer?

vars == <<sent_packets, packet_number, bytes_in_flight, congestion_window,
          ssthresh, recovery_age, largest_acked, loss_time, pto_count,
          loss_delay, pto_base, handshake_complete, busy>>

cwndVars == <<congestion_window, ssthresh, recovery_age>>
rttVars  == <<loss_delay, pto_base>>

Never == -1
Infinity == -1

Larger(a, b) == IF a >= b THEN a ELSE b
Smaller(a, b) == IF a <= b THEN a ELSE b

Init ==
  /\ sent_packets = {}
  /\ packet_number = [sp \in Spaces |-> 0]
  /\ bytes_in_flight = 0
  /\ congestion_window = InitialWindow
  /\ ssthresh = Infinity
  /\ recovery_age = Never
  /\ largest_acked = [sp \in Spaces |-> 0]
  /\ loss_time = Never
  /\ pto_count = 0
  /\ loss_delay \in LossDelays
  /\ pto_base \in PtoBases
  /\ handshake_complete = FALSE
  /\ busy = FALSE

-----------------------------------------------------------------------------
(* 1 << pto_count is an Int32: negative (here: -1) for 31, 0 from 32 on. *)
Backoff(count) ==
  IF count < 3 THEN <<1, 2, 4>>[count + 1]
  ELSE IF count < 31 THEN 8
  ELSE IF count = 31 THEN -1
  ELSE 0

PtoTimeout == pto_base * Backoff(pto_count)

(* Faulty variant: like the loss alarm, only after the handshake. *)
PtoDueComplete ==
  handshake_complete /\ \E p \in sent_packets : p.age >= PtoTimeout

(* timeout has passed: the oldest packet has waited for a probe timeout. *)
PtoDue == \E p \in sent_packets : p.age >= PtoTimeout

LossDue == loss_time = 0

(* Faulty variant: an acknowledged packet stays in flight. *)
WithoutNone(flight, packets) == flight

(* Each packet's bytes are taken off bytes_in_flight if they fit. *)
Without(flight, packets) ==
  FoldSet(LAMBDA p, f : IF f >= p.bytes THEN f - p.bytes ELSE f,
          flight, packets)

SumBytes(packets) == MapThenSumSet(LAMBDA p : p.bytes, packets)

-----------------------------------------------------------------------------
(* on_packet_sent, for an ack-eliciting packet (others return early).      *)
(* Retransmissions and control frames do not wait for the window.          *)
OnPacketSent(sp, bytes) ==
  /\ packet_number[sp] < MaxPn
  /\ Cardinality(sent_packets) < MaxFlight
  /\ sent_packets' = sent_packets \cup
       {[sp |-> sp, pn |-> packet_number[sp], age |-> 0, bytes |-> bytes]}
  /\ packet_number' = [packet_number EXCEPT ![sp] = @ + 1]
  /\ bytes_in_flight' = bytes_in_flight + bytes
  /\ UNCHANGED <<cwndVars, largest_acked, loss_time, pto_count, rttVars,
                 handshake_complete, busy>>

(* A packet sent before the congestion recovery began does not count. *)
AfterRecovery(p) == recovery_age = Never \/ p.age < recovery_age

(* ack_range: what the window may be after the packets are acknowledged.   *)
(* NewReno adds all their bytes in slow start and less in congestion       *)
(* avoidance; BBR sets it from the measured bandwidth, to some value not   *)
(* below its floor (bound: as many bytes above it as are acknowledged).    *)
WindowsAfterAck(packets) ==
  LET bytes == SumBytes({p \in packets : AfterRecovery(p)})
      grown == congestion_window + bytes
      slowStart == ssthresh = Infinity \/ grown <= ssthresh
  IN IF packets = {} THEN {congestion_window}
     ELSE IF Bbr THEN {congestion_window} \cup
                      (BbrMinWindow .. (BbrMinWindow + bytes))
     ELSE {w \in congestion_window .. grown : slowStart => w = grown}

(* update_loss_time: the alarm is armed for the oldest packet below the    *)
(* largest acknowledged, and only ever brought forward.                    *)
ArmedLossTime(sp, largest, packets, delay) ==
  LET below == {p \in packets : p.sp = sp /\ p.pn <= largest}
      due == Larger(delay - Max({p.age : p \in below}), 0)
  IN IF largest = 0 \/ below = {} THEN loss_time
     ELSE IF loss_time = Never THEN due
     ELSE Smaller(loss_time, due)

(* Faulty variant: the floor is forgotten. *)
EcnReducedFully(cwnd) == cwnd \div 2

(* New ECN-CE marks halve the window at once. *)
EcnReduced(cwnd) == Larger(cwnd \div 2, MinWindow)

(* on_ack_received, for the numbers from lo to hi; a frame with more       *)
(* ranges (module AckRanges) does the same for each.                       *)
OnAckReceived(sp, lo, hi, ce) ==
  LET acked == {p \in sent_packets : p.sp = sp /\ lo <= p.pn /\ p.pn <= hi}
      rest  == sent_packets \ acked
      sample == \E p \in sent_packets : p.sp = sp /\ p.pn = hi
      largest == Larger(largest_acked[sp], hi)
  IN /\ PeerAnswers /\ lo <= hi /\ hi < packet_number[sp]
     /\ sent_packets' = rest
     /\ bytes_in_flight' = Without(bytes_in_flight, acked)
     /\ largest_acked' = [largest_acked EXCEPT ![sp] = largest]
     /\ pto_count' = 0
     /\ IF sample THEN loss_delay' \in LossDelays /\ pto_base' \in PtoBases
                  ELSE UNCHANGED rttVars
     /\ loss_time' = ArmedLossTime(sp, largest, rest, loss_delay')
     /\ \E cwnd \in WindowsAfterAck(acked) :
          IF ce THEN /\ congestion_window' = EcnReduced(cwnd)
                     /\ ssthresh' = EcnReduced(cwnd)
                     /\ recovery_age' = 0
                ELSE /\ congestion_window' = cwnd
                     /\ UNCHANGED <<ssthresh, recovery_age>>
     /\ UNCHANGED <<packet_number, handshake_complete, busy>>

(* detect_lost_packets: the window is halved once per recovery period, and *)
(* collapses if the lost packets span three probe timeouts.                *)
OnLoss(lost) ==
  LET persistent == \E p, q \in lost : p.age - q.age >= 3 * PtoTimeout
      event == \E p \in lost : AfterRecovery(p)
      half == Larger(congestion_window \div 2, MinWindow)
  IN /\ recovery_age' = IF event THEN 0 ELSE recovery_age
     /\ congestion_window' = IF persistent THEN MinWindow
                             ELSE IF event THEN half ELSE congestion_window
     /\ ssthresh' = IF persistent THEN MinWindow
                    ELSE IF event THEN half ELSE ssthresh

(* The TLS handshake finishes. *)
CompleteHandshake ==
  /\ PeerAnswers /\ ~handshake_complete
  /\ handshake_complete' = TRUE
  /\ UNCHANGED <<sent_packets, packet_number, bytes_in_flight, cwndVars,
                 largest_acked, loss_time, pto_count, rttVars, busy>>

(* Packets or wake-ups come one after the other, or there is a pause: run  *)
(* reaches its timeout arm, and so tick, only when no other arm is ready   *)
(* for as long as next_tick_timeout says.                                  *)
Traffic ==
  /\ busy' = ~busy
  /\ UNCHANGED <<sent_packets, packet_number, bytes_in_flight, cwndVars,
                 largest_acked, loss_time, pto_count, rttVars,
                 handshake_complete>>

(* tick, when the probe timeout has passed: everything is given up.  A     *)
(* loss alarm that is due too then finds nothing.                          *)
TickPto ==
  /\ ~busy /\ PtoDue
  /\ pto_count' = pto_count + 1
  /\ sent_packets' = {}
  /\ bytes_in_flight' = 0
  /\ loss_time' = IF handshake_complete /\ LossDue THEN Never ELSE loss_time
  /\ UNCHANGED <<packet_number, cwndVars, largest_acked, rttVars,
                 handshake_complete, busy>>

(* What detect_lost_packets finds; tick asks for the 1-RTT space only. *)
LostPackets ==
  {p \in sent_packets : /\ p.sp = 2
                        /\ largest_acked[2] > 0 /\ p.pn <= largest_acked[2]
                        /\ p.age > loss_delay}

(* The loss alarm: it is cleared, and not armed again for the packets that *)
(* are not old enough yet.                                                 *)
LossAlarm ==
  /\ ~busy /\ handshake_complete /\ LossDue
  /\ loss_time' = Never
  /\ sent_packets' = sent_packets \ LostPackets
  /\ bytes_in_flight' = Without(bytes_in_flight, LostPackets)
  /\ IF LostPackets = {} THEN UNCHANGED cwndVars ELSE OnLoss(LostPackets)
  /\ UNCHANGED <<packet_number, largest_acked, pto_count, rttVars,
                 handshake_complete, busy>>

(* Faulty variant: tick serves the loss alarm before the probe timeout. *)
TickLossFirst == LossAlarm

(* tick, when only the loss alarm is due. *)
TickLoss == ~PtoDue /\ LossAlarm

(* Time passes. *)
Older(age) == IF age = Never THEN Never ELSE Smaller(age + 1, MaxAge)
Sooner(time) == IF time = Never THEN Never ELSE Larger(time - 1, 0)

Wait ==
  /\ sent_packets' = {[p EXCEPT !.age = Older(@)] : p \in sent_packets}
  /\ loss_time' = Sooner(loss_time)
  /\ recovery_age' = Older(recovery_age)
  /\ UNCHANGED <<packet_number, bytes_in_flight, congestion_window, ssthresh,
                 largest_acked, pto_count, rttVars, handshake_complete,
                 busy>>

Next ==
  \/ \E sp \in Spaces : \E bytes \in Sizes : OnPacketSent(sp, bytes)
  \/ \E sp \in Spaces : \E lo, hi \in 0 .. MaxPn : \E ce \in BOOLEAN :
       OnAckReceived(sp, lo, hi, ce)
  \/ CompleteHandshake
  \/ Traffic
  \/ TickPto
  \/ TickLoss
  \/ Wait

Spec == Init /\ [][Next]_vars

(* Time passes, and the actor calls tick if a timer stays due and no       *)
(* traffic keeps it from its timeout arm.                                  *)
FairSpec == Spec /\ WF_vars(Wait) /\ WF_vars(TickPto) /\ WF_vars(TickLoss)

-----------------------------------------------------------------------------
(* bytes_in_flight is exactly what the tracked packets hold, through every *)
(* acknowledgement, loss and probe timeout, in every space: the guards     *)
(* "if @bytes_in_flight >= packet.bytes" never leave a byte behind, which  *)
(* would close the window for good.                                        *)
InFlightExact == bytes_in_flight = SumBytes(sent_packets)

(* No sequence of losses, ECN marks and collapses brings the window below  *)
(* two datagrams, so that a connection with nothing in flight may send.    *)
WindowFloor ==
  /\ congestion_window >= MinWindow
  /\ ssthresh # Infinity => ssthresh >= MinWindow

(* NewReno's window loses at most half in a step.  The collapse to         *)
(* MIN_WINDOW on persistent congestion is never reached: tick looks at the *)
(* probe timeout first and then gives everything up, so that the packets   *)
(* the loss alarm finds were all sent within one probe timeout.            *)
HalvedAtMost ==
  [][~Bbr => congestion_window' >= congestion_window \div 2]_vars

(* Every packet is acknowledged or given up once traffic pauses, though    *)
(* the loss alarm is not armed again for what it leaves, and looks at one  *)
(* space only.  Traffic without a pause starves the timer.                 *)
Unsettled(sp, n) == \E p \in sent_packets : p.sp = sp /\ p.pn = n

EverySettled ==
  <>[]~busy =>
    \A sp \in Spaces : \A n \in 0 .. (MaxPn - 1) :
      Unsettled(sp, n) ~> ~Unsettled(sp, n)
=============================================================================
