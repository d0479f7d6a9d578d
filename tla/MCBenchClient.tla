--------------------------- MODULE MCBenchClient ----------------------------
(* The client module with the scripts of the Go programs and pools of      *)
(* Workers goroutines (see Clients.cfg).                                   *)
EXTENDS BenchClient, GoPrograms
=============================================================================
