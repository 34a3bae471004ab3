------------------------------ MODULE Mailbox ------------------------------
(***************************************************************************)
(* What the interrupt ring promises its two users, with no indices left:   *)
(* a bounded number of identical markers.  An interrupt adds one marker or, *)
(* when the box is full, is counted as an overflow and dropped (the newest  *)
(* one goes, never a marker already in the box); the drain takes one.       *)
(***************************************************************************)
EXTENDS Naturals

CONSTANTS Capacity,        \* the most markers the box ever holds
          CounterModulus   \* 2^32 in the code: irq_overflows is a uint32

VARIABLES count, overflows

mvars == <<count, overflows>>

Init == count = 0 /\ overflows = 0

(* An interrupt leaves its marker. *)
Put == /\ count < Capacity
       /\ count' = count + 1
       /\ UNCHANGED overflows

(* An interrupt finds the box full. *)
Drop == /\ count = Capacity
        /\ overflows' = (overflows + 1) % CounterModulus
        /\ UNCHANGED count

(* The drain takes one marker. *)
Take == /\ count > 0
        /\ count' = count - 1
        /\ UNCHANGED overflows

(* A drop is decided when the interrupt looks at the box; by the time the   *)
(* overflow is counted nothing else has changed, so one action suffices.    *)
Next == Put \/ Drop \/ Take

Spec == Init /\ [][Next]_mvars
=============================================================================
