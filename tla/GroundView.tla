----------------------------- MODULE GroundView -----------------------------
(***************************************************************************)
(* What the program lets the outside see, with its threads, its queues and *)
(* its counters hidden: telemetry frames that reach the ground station,    *)
(* and the number of them that main() prints when it has shut down.        *)
(*                                                                         *)
(* Frames come in the order of their numbers, with gaps where some were    *)
(* dropped; safe mode once seen is seen in every later frame; the number   *)
(* printed is the number of frames that were sent; and nothing is sent     *)
(* once it is printed or the program has ended, which may happen at any    *)
(* time.                                                                   *)
(***************************************************************************)
EXTENDS Counters

CONSTANTS
  Frames,       (* the telemetry frames                                    *)
  NoFrame,      (* nothing has been received yet                           *)
  CounterMod    (* frames are counted modulo this                          *)

VARIABLES
  up,           (* the program has not ended                               *)
  last,         (* the last frame the ground station was sent              *)
  received,     (* how many it was sent, modulo CounterMod                 *)
  printed       (* the number that was printed, as a set of at most one    *)

vars == <<up, last, received, printed>>

Init ==
  /\ up = TRUE
  /\ last = NoFrame
  /\ received = 0
  /\ printed = {}

(* f may be the next frame. *)
Later(f) ==
  last # NoFrame => last.frame_id < f.frame_id /\ (last.safe_mode => f.safe_mode)

Receive ==
  /\ up
  /\ printed = {}
  /\ last' \in Frames
  /\ Later(last')
  /\ received' = Inc(received, CounterMod)
  /\ UNCHANGED <<up, printed>>

Announce ==
  /\ up
  /\ printed = {}
  /\ printed' = {received}
  /\ UNCHANGED <<up, last, received>>

End ==
  /\ up
  /\ up' = FALSE
  /\ UNCHANGED <<last, received, printed>>

Next ==
  \/ Receive
  \/ Announce
  \/ End

Spec == Init /\ [][Next]_vars

=============================================================================
