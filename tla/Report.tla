------------------------------- MODULE Report -------------------------------
(***************************************************************************)
(* What the benchmarks make of their samples: percentiles, means, rates    *)
(* and who is shown as the winner.  A duration is a number of              *)
(* microseconds, p is in thousandths; float64 arithmetic is exact here.    *)
(***************************************************************************)
EXTENDS Integers, Sequences, FiniteSets

(* Faulty variant: the index is rounded up and one based. *)
pctBelow(lats, p) ==
  IF lats = <<>> THEN 0
  ELSE LET idx == (Len(lats) * p) \div 1000
       IN lats[IF idx = 0 THEN 1 ELSE idx]

(* pct, percentile: of a sorted slice. *)
pct(lats, p) ==
  IF lats = <<>> THEN 0
  ELSE LET idx == (Len(lats) * p) \div 1000
       IN lats[(IF idx >= Len(lats) THEN Len(lats) - 1 ELSE idx) + 1]

(* The sum of lats[i] .. lats[j], by halves. *)
SumOf(lats) ==
  LET sum[p \in (1 .. Len(lats) + 1) \X (0 .. Len(lats))] ==
        LET mid == (p[1] + p[2]) \div 2 IN
        IF p[1] > p[2] THEN 0
        ELSE IF p[1] = p[2] THEN lats[p[1]]
        ELSE sum[<<p[1], mid>>] + sum[<<mid + 1, p[2]>>]
  IN sum[<<1, Len(lats)>>]

(* avg, avgDur, meanDur, mean *)
avg(lats) == IF lats = <<>> THEN 0 ELSE SumOf(lats) \div Len(lats)

maxLat(lats) == IF lats = <<>> THEN 0 ELSE lats[Len(lats)]

PerSecond(n, elapsed) == IF elapsed > 0 THEN (n * 1000000) \div elapsed ELSE 0

(* stress_test: a phase's result, from its sorted latencies, counters and  *)
(* bytes.                                                                  *)
finalize(lats, total, errors, bytes, elapsed) ==
  [ok |-> total - errors, total |-> total, errors |-> errors,
   rps |-> PerSecond(total - errors, elapsed),
   mbps |-> PerSecond(bytes, elapsed),
   p50 |-> pct(lats, 500), p95 |-> pct(lats, 950), p99 |-> pct(lats, 990),
   p999 |-> IF Len(lats) >= 1000 THEN pct(lats, 999) ELSE 0,
   maxLat |-> maxLat(lats), avgLat |-> avg(lats)]

(* bench_3way: computeStats; bench_qpack: the end of benchScenario. *)
computeStats(lats) ==
  [n |-> Len(lats), mean |-> avg(lats), p50 |-> pct(lats, 500),
   p95 |-> pct(lats, 950), p99 |-> pct(lats, 990),
   rps |-> IF avg(lats) > 0 THEN 1000000 \div avg(lats) ELSE 0]

(* bench_h3: the end of runConc, without a clamp. *)
concurrentStats(lats, elapsed) ==
  [rps |-> PerSecond(Len(lats), elapsed),
   p99 |-> IF lats = <<>> THEN 0 ELSE lats[(Len(lats) * 990) \div 1000 + 1],
   max |-> maxLat(lats)]

(* bench_concurrent: what runScenario prints. *)
scenarioReport(lats, ok, total, elapsed) ==
  [ok |-> ok, failed |-> total - ok, tps |-> PerSecond(ok, elapsed),
   avg |-> avg(lats), p50 |-> pct(lats, 500), p95 |-> pct(lats, 950),
   p99 |-> pct(lats, 990), max |-> maxLat(lats)]

-----------------------------------------------------------------------------
(* The comparisons. *)

(* Is v shown in green next to other? *)
colorWinner(v, other, higher) ==
  /\ ~(v = 0 /\ other = 0)
  /\ IF higher THEN v > other ELSE v < other

(* printPhaseComparison: the sides marked for a metric, the winner by RPS  *)
(* and the sides warned of.                                                *)
Marked(cr, go_, higher) ==
  {side \in {"Crystal", "Go"} :
     IF side = "Crystal" THEN colorWinner(cr, go_, higher) ELSE colorWinner(go_, cr, higher)}

HighErrorRate(r) == r.errors * 100 > 20 * (IF r.total > 1 THEN r.total ELSE 1)

printPhaseComparison(cr, go_) ==
  [latency |-> IF cr.avgLat > 0 \/ go_.avgLat > 0
                 THEN Marked(cr.avgLat, go_.avgLat, FALSE) ELSE {},
   rps |-> IF cr.rps > 0 \/ go_.rps > 0 THEN Marked(cr.rps, go_.rps, TRUE) ELSE {},
   mbps |-> IF cr.mbps > 0 \/ go_.mbps > 0 THEN Marked(cr.mbps, go_.mbps, TRUE) ELSE {},
   winner |-> IF cr.rps > 0 /\ go_.rps > 0
                THEN {IF cr.rps > go_.rps THEN "Crystal" ELSE "Go"} ELSE {},
   warned |-> {side \in {"Crystal", "Go"} :
                 HighErrorRate(IF side = "Crystal" THEN cr ELSE go_)}]

(* stress_test: printSummary counts what Crystal does not win for Go. *)
printSummary(rows) ==
  LET won == {i \in DOMAIN rows :
                LET r == rows[i] IN
                IF r.higher THEN r.cr > r.go ELSE r.cr < r.go}
  IN [crystal |-> Cardinality(won), go |-> Len(rows) - Cardinality(won)]

(* bench_3way: a scenario goes to Crystal if its p50 is not larger, which  *)
(* it is not when it has no samples.                                       *)
WinsByP50(cr, go_) == cr.p50 <= go_.p50

(* bench_h3: printReport's three lines, if both sides were measured. *)
printReport(cr, go_) ==
  IF go_.avgLat > 0 /\ cr.avgLat > 0
    THEN << IF cr.avgLat < go_.avgLat THEN "Crystal" ELSE "Go",
            IF cr.rps > go_.rps THEN "Crystal" ELSE "Go",
            IF cr.mbps > go_.mbps THEN "Crystal" ELSE "Go" >>
    ELSE <<>>

(* bench_qpack: printTable's change against the first binary, in percent. *)
printTable(p50s) ==
  [i \in DOMAIN p50s |->
     IF i = 1 \/ p50s[1] = 0 THEN 0 ELSE ((p50s[i] - p50s[1]) * 100) \div p50s[1]]

-----------------------------------------------------------------------------
(* How many samples are no larger than v. *)
UpTo(lats, v) == Cardinality({i \in DOMAIN lats : lats[i] <= v})

(* Of sorted samples: a reported percentile is a sample, at least that     *)
(* share of the samples is no larger, at most that share is smaller; the   *)
(* percentiles are in order, none is above the maximum, and the five       *)
(* programs report the same ones.                                          *)
Ordered(lats) ==
  LET r == finalize(lats, Len(lats), 0, 0, 1)
      s == computeStats(lats)
      c == scenarioReport(lats, Len(lats), Len(lats), 1)
  IN /\ r.p50 <= r.p95 /\ r.p95 <= r.p99 /\ r.p99 <= r.maxLat
     /\ r.p999 > 0 => r.p99 <= r.p999 /\ r.p999 <= r.maxLat
     /\ concurrentStats(lats, 1).p99 = r.p99
     /\ <<s.p50, s.p95, s.p99>> = <<r.p50, r.p95, r.p99>>
     /\ <<c.p50, c.p95, c.p99, c.max>> = <<r.p50, r.p95, r.p99, r.maxLat>>
     /\ lats # <<>> =>
          /\ lats[1] <= r.avgLat /\ r.avgLat <= r.maxLat
          /\ \A p \in {500, 950, 990} :
               /\ UpTo(lats, pct(lats, p)) * 1000 >= p * Len(lats)
               /\ UpTo(lats, pct(lats, p) - 1) * 1000 <= p * Len(lats)

(* Of two results: no metric marks both sides; the printed winner is the   *)
(* marked side, in stress_test and in bench_h3; a side that answered no    *)
(* request is warned of, even where its latency of 0 is marked; and every  *)
(* row of the summary is counted for one side.                             *)
Compared(cr, go_) ==
  LET c == printPhaseComparison(cr, go_)
      h == printReport(cr, go_)
      rows == << [cr |-> cr.rps, go |-> go_.rps, higher |-> TRUE],
                 [cr |-> cr.p99, go |-> go_.p99, higher |-> FALSE] >>
  IN /\ \A m \in {c.latency, c.rps, c.mbps} : Cardinality(m) <= 1
     /\ c.winner # {} /\ c.rps # {} => c.winner = c.rps
     /\ h # <<>> =>
          /\ c.latency # {} => c.latency = {h[1]}
          /\ c.rps # {} => c.rps = {h[2]}
          /\ c.mbps # {} => c.mbps = {h[3]}
     /\ cr.total > 0 /\ cr.ok = 0 => "Crystal" \in c.warned
     /\ go_.total > 0 /\ go_.ok = 0 => "Go" \in c.warned
     /\ printSummary(rows).crystal + printSummary(rows).go = 2
     /\ printTable(<<cr.p50, go_.p50>>)[2] > 0 => ~WinsByP50(go_, cr)
=============================================================================
