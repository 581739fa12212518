------------------------------ MODULE Counters ------------------------------
(***************************************************************************)
(* Fixed-width unsigned counters: framesSent() and framesDropped() of      *)
(* TelemetryDispatcher are std::atomic<uint64_t> and wrap at 2^64.  The    *)
(* modulus is a parameter, so that a model checker can count modulo 3 and  *)
(* a proof can count modulo anything.                                      *)
(***************************************************************************)
EXTENDS Integers

(* ++c on an unsigned integer whose values are 0 .. modulus - 1. *)
Inc(c, modulus) == IF c = modulus - 1 THEN 0 ELSE c + 1

=============================================================================
