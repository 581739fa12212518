-------------------------- MODULE TelemetryChannel --------------------------
(***************************************************************************)
(* What TelemetryDispatcher promises to its callers, with the thread, the  *)
(* lock and the socket hidden: a bounded first-in-first-out channel of     *)
(* telemetry frames.  An accepted frame stays pending until it is settled, *)
(* settling takes the frames in the order they were accepted, each of them *)
(* once, and a settled frame is either on the wire and counted as sent, or *)
(* counted as dropped.  Frames settle only while the channel is on, and a  *)
(* channel that stays on settles every frame it accepted.                  *)
(***************************************************************************)
EXTENDS Counters, Sequences

CONSTANTS
  Frames,       (* the telemetry frames callers offer                      *)
  NoFrame,      (* nothing has been transmitted yet                        *)
  Depth,        (* how many frames the buffer in front of the link holds   *)
  CounterMod    (* the counters count modulo this                          *)

VARIABLES
  pending,      (* the accepted frames that are not settled, oldest first  *)
  on,           (* frames are being settled                                *)
  wire,         (* the last frame the network took                         *)
  sent,         (* frames transmitted, modulo CounterMod                   *)
  dropped       (* frames refused or lost, modulo CounterMod               *)

vars == <<pending, on, wire, sent, dropped>>

Init ==
  /\ pending = <<>>
  /\ on = FALSE
  /\ wire = NoFrame
  /\ sent = 0
  /\ dropped = 0

(* A frame in transmission has left the buffer and is still pending, hence *)
(* Depth + 1 pending frames at most.                                       *)
Accept(f) ==
  /\ Len(pending) <= Depth
  /\ pending' = Append(pending, f)
  /\ UNCHANGED <<on, wire, sent, dropped>>

(* A frame is refused only when the buffer is full, and it is counted. *)
Refuse ==
  /\ Len(pending) >= Depth
  /\ dropped' = Inc(dropped, CounterMod)
  /\ UNCHANGED <<pending, on, wire, sent>>

Transmit ==
  /\ on
  /\ pending # <<>>
  /\ pending' = Tail(pending)
  /\ wire' = Head(pending)
  /\ sent' = Inc(sent, CounterMod)
  /\ UNCHANGED <<on, dropped>>

Lose ==
  /\ on
  /\ pending # <<>>
  /\ pending' = Tail(pending)
  /\ dropped' = Inc(dropped, CounterMod)
  /\ UNCHANGED <<on, wire, sent>>

Settle == Transmit \/ Lose

Switch ==
  /\ on' = ~on
  /\ UNCHANGED <<pending, wire, sent, dropped>>

Next ==
  \/ \E f \in Frames : Accept(f)
  \/ Refuse
  \/ Settle
  \/ Switch

Safety == Init /\ [][Next]_vars

Spec == Safety /\ WF_vars(Settle)

=============================================================================
