--------------------------- MODULE IrqRingProofs ---------------------------
(***************************************************************************)
(* Theorems about IrqRing for every ring size, in three groups: arithmetic  *)
(* of indices modulo Size; type correctness and NoLostWakeup, which hold    *)
(* across driver sessions and with the polling branch as a second producer; *)
(* and the refinement of Mailbox, which holds for an initialised driver     *)
(* whose only producer is the interrupt.                                    *)
(***************************************************************************)
EXTENDS IrqRing, TLAPS

USE SizeAssumption, PollingAssumption, CounterAssumption

(* The wrapped successor of an index, without the modulus. *)
LEMMA SuccValue ==
    ASSUME NEW i \in Slots
    PROVE  Succ(i) = IF i = Size - 1 THEN 0 ELSE i + 1
  BY DEF Succ, Slots

(* The wrapped distance from t to h, without the modulus. *)
LEMMA DistanceValue ==
    ASSUME NEW h \in Slots, NEW t \in Slots
    PROVE  (h + Size - t) % Size = IF h >= t THEN h - t ELSE h + Size - t
  <1>1. CASE h >= t
    <2>1. PICK d \in 0 .. Size - 1 : d = h - t
      BY <1>1 DEF Slots
    <2>2. (d + Size) % Size = d
      BY <2>1
    <2>. QED BY <1>1, <2>1, <2>2 DEF Slots
  <1>2. CASE ~(h >= t)
    BY <1>2 DEF Slots
  <1>. QED BY <1>1, <1>2

(* An index never is its own successor: a ring has at least two slots. *)
LEMMA SuccMoves ==
    ASSUME NEW i \in Slots
    PROVE  Succ(i) \in Slots /\ Succ(i) # i
  BY SuccValue DEF Slots

---------------------------------------------------------------------------
(* Type correctness *)

(* Inductive only with the loop bound the while condition establishes.      *)
LoopBound == drain = "pop" => iters < Size

TypeInv == TypeOK /\ LoopBound

LEMMA TypeInit == Init => TypeInv
  <1>. SUFFICES ASSUME Init PROVE TypeInv
    OBVIOUS
  <1>1. 0 \in Slots /\ 0 \in 0 .. CounterModulus - 1 /\ 0 \in 0 .. Size
    BY DEF Slots
  <1>. QED
    BY <1>1 DEF Init, TypeInv, TypeOK, LoopBound, IsrSteps, Running, Ending

LEMMA TypeStep == TypeInv /\ [LifeNext]_vars => TypeInv'
  <1>. SUFFICES ASSUME TypeInv, [LifeNext]_vars
                PROVE  TypeInv'
    OBVIOUS
  <1>. USE DEF TypeInv, TypeOK, LoopBound, IsrSteps, Running, Ending, isrVars, drainVars, Goto
  <1>0. 0 \in Slots
    BY DEF Slots
  <1>1. CASE IsrEnter
    BY <1>1, SuccMoves DEF IsrEnter
  <1>2. CASE IsrFull
    BY <1>2 DEF IsrFull
  <1>3. CASE IsrRoom
    BY <1>3 DEF IsrRoom
  <1>4. CASE IsrPublish
    BY <1>4 DEF IsrPublish
  <1>5. CASE ProcessEvents
    BY <1>5 DEF ProcessEvents
  <1>6. CASE SynthTest
    BY <1>6 DEF SynthTest
  <1>7. CASE SynthLoad
    BY <1>7, SuccMoves DEF SynthLoad
  <1>8. CASE SynthStore
    BY <1>8 DEF SynthStore
  <1>9. CASE LoopTest
    BY <1>9 DEF LoopTest
  <1>10. CASE Pop
    BY <1>10, SuccMoves DEF Pop
  <1>11. CASE ReadFlags
    BY <1>11 DEF ReadFlags
  <1>12. CASE EndHead
    BY <1>0, <1>12 DEF EndHead
  <1>13. CASE EndTail
    BY <1>0, <1>13 DEF EndTail
  <1>14. CASE Begin
    BY <1>14 DEF Begin
  <1>15. CASE UNCHANGED vars
    BY <1>15 DEF vars
  <1>. QED
    BY <1>1, <1>2, <1>3, <1>4, <1>5, <1>6, <1>7, <1>8, <1>9, <1>10, <1>11,
       <1>12, <1>13, <1>14, <1>15 DEF LifeNext, Next, Isr, Drain, Lifecycle

(* Every index and local of handle_interrupt() and process_events() stays    *)
(* inside the ring, for any Size and across begin()/end() sessions.          *)
THEOREM TypeCorrect == LifeSpec => []TypeOK
  <1>1. TypeInv => TypeOK
    BY DEF TypeInv
  <1>. QED
    BY <1>1, TypeInit, TypeStep, PTL DEF LifeSpec

---------------------------------------------------------------------------
(* No interrupt is forgotten.  NoLostWakeup is not inductive: an interrupt   *)
(* that is about to be dropped or published says nothing by itself.  While   *)
(* an interrupt is owed, what keeps the promise is, at each point of the     *)
(* handler: a marker already there; a marker there if this one is dropped;   *)
(* a publish that cannot land on the tail.                                   *)

Covered == /\ isr = "out" => head # tail
           /\ isr = "test" => (isrNext = tail => head # tail)
           /\ isr = "publish" => isrNext # tail

WakeupInv == /\ TypeOK
             /\ owed /\ drain \in Running /\ drain # "read" => Covered

LEMMA WakeupInit == Init => WakeupInv
  BY TypeInit DEF Init, WakeupInv, TypeInv

LEMMA WakeupStep == TypeInv /\ WakeupInv /\ [LifeNext]_vars => WakeupInv'
  <1>. SUFFICES ASSUME TypeInv, WakeupInv, [LifeNext]_vars
                PROVE  WakeupInv'
    OBVIOUS
  <1>0. TypeOK'
    BY TypeStep DEF TypeInv
  <1>. SUFFICES ASSUME owed', drain' \in Running, drain' # "read"
                PROVE  Covered'
    BY <1>0 DEF WakeupInv
  <1>. USE <1>0 DEF WakeupInv, TypeOK, Covered, IsrSteps, Running, Ending,
                    isrVars, drainVars, Goto
  <1>1. CASE IsrEnter
    (* A new interrupt: it will be dropped only if Succ(head) is the tail.   *)
    BY <1>1, SuccMoves DEF IsrEnter
  <1>2. CASE IsrFull
    BY <1>2 DEF IsrFull
  <1>3. CASE IsrRoom
    BY <1>3 DEF IsrRoom
  <1>4. CASE IsrPublish
    BY <1>4 DEF IsrPublish
  <1>5. CASE ProcessEvents
    BY <1>5 DEF ProcessEvents
  <1>6. CASE SynthTest
    BY <1>6 DEF SynthTest
  <1>7. CASE SynthLoad
    BY <1>7 DEF SynthLoad
  <1>8. CASE SynthStore
    (* The synthetic marker is never stored over the tail either.            *)
    BY <1>8 DEF SynthStore
  <1>9. CASE LoopTest
    BY <1>9 DEF LoopTest
  <1>10. CASE Pop
    BY <1>10 DEF Pop
  <1>11. CASE ReadFlags
    BY <1>11 DEF ReadFlags
  <1>12. CASE EndHead
    BY <1>12 DEF EndHead
  <1>13. CASE EndTail
    BY <1>13 DEF EndTail
  <1>14. CASE Begin
    BY <1>14 DEF Begin
  <1>15. CASE UNCHANGED vars
    BY <1>15 DEF vars
  <1>. QED
    BY <1>1, <1>2, <1>3, <1>4, <1>5, <1>6, <1>7, <1>8, <1>9, <1>10, <1>11,
       <1>12, <1>13, <1>14, <1>15 DEF LifeNext, Next, Isr, Drain, Lifecycle

(* handle_interrupt() may drop its marker, and process_events() may find a   *)
(* ring the interrupt changes under it, but no interrupt goes unanswered:    *)
(* for any ring size, with or without the polling branch, across sessions.   *)
THEOREM WakeupsAreNotLost == LifeSpec => []NoLostWakeup
  <1>1. WakeupInv => NoLostWakeup
    BY DEF WakeupInv, Covered, NoLostWakeup, TypeOK, IsrSteps
  <1>. QED
    BY <1>1, TypeInit, TypeStep, WakeupInit, WakeupStep, PTL DEF LifeSpec

---------------------------------------------------------------------------
(* Refinement of Mailbox, the interrupt being the only producer *)

(* head moves only by the handler's own publish, so the successor it loaded  *)
(* stays the successor; the thread pops only what is there.                  *)
RingInv == /\ TypeInv
           /\ drain \in Running \ {"load", "store"}
           /\ isr # "out" => isrNext = Succ(head)
           /\ isr = "publish" => isrNext # tail
           /\ drain = "pop" => head # tail

LEMMA SuccInjective ==
    ASSUME NEW i \in Slots, NEW j \in Slots, Succ(i) = Succ(j)
    PROVE  i = j
  BY SuccValue DEF Slots

LEMMA RingInit == Init => RingInv
  BY TypeInit DEF Init, RingInv, Running

LEMMA RingStep == ASSUME ~Polling
                  PROVE  RingInv /\ [Next]_vars => RingInv'
  <1>. SUFFICES ASSUME RingInv, [Next]_vars
                PROVE  RingInv'
    OBVIOUS
  <1>0. TypeInv'
    BY TypeStep DEF RingInv, LifeNext
  <1>. USE <1>0 DEF RingInv, TypeInv, TypeOK, IsrSteps, Running, Ending,
                    isrVars, drainVars, Goto
  <1>1. CASE IsrEnter
    BY <1>1 DEF IsrEnter
  <1>2. CASE IsrFull
    BY <1>2 DEF IsrFull
  <1>3. CASE IsrRoom
    BY <1>3 DEF IsrRoom
  <1>4. CASE IsrPublish
    BY <1>4 DEF IsrPublish
  <1>5. CASE ProcessEvents
    BY <1>5 DEF ProcessEvents
  <1>6. CASE SynthTest
    BY <1>6 DEF SynthTest
  <1>7. CASE SynthLoad \/ SynthStore
    BY <1>7 DEF SynthLoad, SynthStore
  <1>8. CASE LoopTest
    BY <1>8 DEF LoopTest
  <1>9. CASE Pop
    (* The tail moves towards head and so never onto head's successor.       *)
    <2>1. isr = "publish" => isrNext # tail'
      BY <1>9, SuccInjective DEF Pop
    <2>. QED BY <1>9, <2>1 DEF Pop
  <1>10. CASE ReadFlags
    BY <1>10 DEF ReadFlags
  <1>11. CASE UNCHANGED vars
    BY <1>11 DEF vars
  <1>. QED
    BY <1>1, <1>2, <1>3, <1>4, <1>5, <1>6, <1>7, <1>8, <1>9, <1>10, <1>11
       DEF Next, Isr, Drain

(* One slot at a time, and never onto the tail the thread may have moved     *)
(* since handle_interrupt() compared with it.                                *)
THEOREM PublishStep == ASSUME ~Polling
                       PROVE  Spec => PublishIsOneSlot
  <1>1. RingInv /\ [Next]_vars
            => [head' # head => head' = Succ(head) /\ head' # tail]_vars
    <2>. SUFFICES ASSUME RingInv, Next, head' # head
                  PROVE  head' = Succ(head) /\ head' # tail
      OBVIOUS
    <2>1. IsrPublish
      BY DEF RingInv, Next, Isr, Drain, IsrEnter, IsrFull, IsrRoom, ProcessEvents,
             SynthTest, SynthLoad, SynthStore, LoopTest, Pop, ReadFlags, Goto
    <2>. QED
      BY <2>1 DEF IsrPublish, RingInv
  <1>. QED
    BY <1>1, RingInit, RingStep, PTL DEF Spec, PublishIsOneSlot

LEMMA BacklogValue ==
    ASSUME TypeOK
    PROVE  /\ Backlog = IF head >= tail THEN head - tail ELSE head + Size - tail
           /\ Backlog \in 0 .. Size - 1
  <1>1. head \in Slots /\ tail \in Slots
    BY DEF TypeOK
  <1>2. Backlog = IF head >= tail THEN head - tail ELSE head + Size - tail
    BY <1>1, DistanceValue DEF Backlog
  <1>. QED
    BY <1>1, <1>2 DEF Slots

(* Seen through the marker count alone the two programs are the mailbox: the *)
(* backlog never exceeds Size - 1, the newest marker is the one dropped, and *)
(* it is dropped exactly when the box is full.                               *)
THEOREM RingImplementsMailbox == ASSUME ~Polling
                                 PROVE  Spec => ImplementsMailbox
  <1>1. Init => M!Init
    <2>. SUFFICES ASSUME Init PROVE M!Init
      OBVIOUS
    <2>1. TypeOK
      BY TypeInit DEF TypeInv
    <2>. QED
      BY <2>1, BacklogValue DEF Init, M!Init
  <1>2. RingInv /\ RingInv' /\ [Next]_vars => [M!Next]_M!mvars
    <2>. SUFFICES ASSUME RingInv, RingInv', [Next]_vars
                  PROVE  M!Next \/ UNCHANGED <<Backlog, overflows>>
      BY DEF M!mvars
    <2>. USE DEF RingInv, TypeInv, isrVars, drainVars, Goto
    <2>1. CASE IsrPublish
      <3>1. head' = Succ(head) /\ tail' = tail /\ overflows' = overflows /\ head' # tail
        BY <2>1 DEF IsrPublish
      <3>2. /\ Backlog = IF head >= tail THEN head - tail ELSE head + Size - tail
            /\ Backlog' = IF head' >= tail' THEN head' - tail' ELSE head' + Size - tail'
        BY BacklogValue DEF TypeOK, Backlog, Slots
      <3>3. Backlog < Size - 1 /\ Backlog' = Backlog + 1
        BY <3>1, <3>2, SuccValue DEF TypeOK, Slots
      <3>. QED
        BY <3>1, <3>3 DEF M!Next, M!Put
    <2>2. CASE IsrFull
      <3>1. Succ(head) = tail /\ UNCHANGED <<head, tail>>
        BY <2>2 DEF IsrFull
      <3>2. Backlog = Size - 1
        BY <3>1, BacklogValue, SuccValue DEF TypeOK, Slots
      <3>. QED
        BY <2>2, <3>1, <3>2 DEF IsrFull, M!Next, M!Drop, Backlog
    <2>3. CASE Pop
      <3>1. tail' = Succ(tail) /\ head' = head /\ overflows' = overflows /\ head # tail
        BY <2>3 DEF Pop
      <3>2. /\ Backlog = IF head >= tail THEN head - tail ELSE head + Size - tail
            /\ Backlog' = IF head' >= tail' THEN head' - tail' ELSE head' + Size - tail'
        BY BacklogValue DEF TypeOK, Backlog, Slots
      <3>3. Backlog > 0 /\ Backlog' = Backlog - 1
        BY <3>1, <3>2, SuccValue DEF TypeOK, Slots
      <3>. QED
        BY <3>1, <3>3 DEF M!Next, M!Take
    <2>4. CASE UNCHANGED <<head, tail, overflows>>
      BY <2>4 DEF Backlog
    <2>. QED
      BY <2>1, <2>2, <2>3, <2>4 DEF vars, Next, Isr, Drain, IsrEnter, IsrRoom,
         ProcessEvents, SynthTest, SynthLoad, SynthStore, LoopTest, ReadFlags
  <1>. QED
    BY <1>1, <1>2, RingInit, RingStep, PTL DEF Spec, ImplementsMailbox, M!Spec
=============================================================================
