----------------------------- MODULE BoundedFifo -----------------------------
(***************************************************************************)
(* What CommandQueue promises to its callers: a bounded first-in-first-out *)
(* queue whose calls take effect one at a time.  A push is refused exactly *)
(* when the queue is full, a pop comes back empty-handed exactly when the  *)
(* queue is empty, and every accepted command is returned once, in order.  *)
(***************************************************************************)
EXTENDS Naturals, Sequences

CONSTANTS
  Threads,      (* the callers                                             *)
  Commands,     (* what they push                                          *)
  NoCommand,    (* what a pop of the empty queue returns                   *)
  Depth

VARIABLES
  items,        (* the accepted commands, oldest first                     *)
  ret           (* what the last finished call of each thread returned     *)

vars == <<items, ret>>

Init ==
  /\ items = <<>>
  /\ ret = [t \in Threads |-> NoCommand]

Accept(t, c) ==
  /\ Len(items) < Depth
  /\ items' = Append(items, c)
  /\ ret' = [ret EXCEPT ![t] = "accepted"]

Refuse(t) ==
  /\ Len(items) >= Depth
  /\ ret' = [ret EXCEPT ![t] = "refused"]
  /\ UNCHANGED items

Take(t) ==
  /\ items # <<>>
  /\ items' = Tail(items)
  /\ ret' = [ret EXCEPT ![t] = Head(items)]

Miss(t) ==
  /\ items = <<>>
  /\ ret' = [ret EXCEPT ![t] = NoCommand]
  /\ UNCHANGED items

Next ==
  \E t \in Threads :
    \/ \E c \in Commands : Accept(t, c)
    \/ Refuse(t)
    \/ Take(t)
    \/ Miss(t)

Spec == Init /\ [][Next]_vars

=============================================================================
