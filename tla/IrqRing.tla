------------------------------ MODULE IrqRing ------------------------------
(***************************************************************************)
(* The interrupt marker ring of SX127xDriver (irq_queue_, irq_head_,        *)
(* irq_tail_): handle_interrupt(), called by the DIO0 interrupt, pushes     *)
(* markers; process_events(), called by the one radio thread, pops a marker *)
(* and then reads RegIrqFlags.  The two run concurrently with no lock (the  *)
(* interrupt preempts the thread, or runs on the other ESP32 core), so one  *)
(* action is one access to a volatile index.  The slot contents are the     *)
(* constant 1 and are never read back, so only the indices are state.       *)
(*                                                                          *)
(* owed is a history variable: TRUE from the moment an interrupt is raised  *)
(* until a later read of RegIrqFlags (successful or not: what a failed read *)
(* leaves behind is a question for the driver around the ring).             *)
(***************************************************************************)
EXTENDS Integers

CONSTANTS Size,             \* kIrqQueueSize
          Polling,          \* cfg_.polling_mode
          CounterModulus    \* 2^32: stats_.irq_overflows is a uint32

ASSUME SizeAssumption == Size \in Nat /\ Size >= 2
ASSUME PollingAssumption == Polling \in BOOLEAN
ASSUME CounterAssumption == CounterModulus \in Nat /\ CounterModulus >= 1

VARIABLES head,        \* irq_head_
          tail,        \* irq_tail_
          overflows,   \* stats_.irq_overflows
          isr,         \* where the interrupt handler stands
          isrNext,     \* its local `next`
          drain,       \* where the radio thread stands
          drainNext,   \* the local `next` of the polling branch
          iters,       \* the local `iters`
          owed         \* history: an interrupt no flags read has answered

vars == <<head, tail, overflows, isr, isrNext, drain, drainNext, iters, owed>>

isrVars == <<isr, isrNext, overflows>>
drainVars == <<drain, drainNext, iters>>

Slots == 0 .. Size - 1

(* A slip the runs must notice: an index that is not wrapped. *)
SuccUnwrapped(i) == i + 1

Succ(i) == (i + 1) % Size

IsrSteps == {"out", "test", "publish"}
Running == {"idle", "synth", "load", "store", "loop", "pop", "read"}
Ending == {"tail", "down"}

Init == /\ head = 0 /\ tail = 0 /\ overflows = 0
        /\ isr = "out" /\ isrNext = 0
        /\ drain = "idle" /\ drainNext = 0 /\ iters = 0
        /\ owed = FALSE

---------------------------------------------------------------------------
(* Slips the runs must notice: a ring one entry too full, a marker taken    *)
(* without reading the flags, a loop that gives up after its bound for      *)
(* good, a publish that reloads irq_head_.                                  *)

RoomWithoutGap == /\ isr = "test" /\ isr' = "publish"
                  /\ UNCHANGED <<head, tail, isrNext, overflows,
                                 drain, drainNext, iters, owed>>

PopWithoutRead == /\ drain = "pop" /\ drain' = "loop"
                  /\ tail' = Succ(tail)
                  /\ iters' = iters + 1
                  /\ UNCHANGED <<head, isrVars, drainNext, owed>>

StickyIters == /\ drain = "idle" /\ drain' = "synth"
               /\ UNCHANGED <<head, tail, isrVars, drainNext, iters, owed>>

PublishReloads == /\ isr = "publish" /\ isr' = "out"
                  /\ head' = Succ(Succ(head))
                  /\ UNCHANGED <<tail, isrNext, overflows, drainVars, owed>>

---------------------------------------------------------------------------
(* handle_interrupt() *)

(* DIO0 rises; the handler loads irq_head_ and computes next. *)
IsrEnter == /\ isr = "out"
            /\ isrNext' = Succ(head)
            /\ isr' = "test"
            /\ owed' = TRUE
            /\ UNCHANGED <<head, tail, overflows, drainVars>>

(* next == irq_tail_: the ring is full, count the overflow and return. *)
IsrFull == /\ isr = "test"
           /\ isrNext = tail
           /\ overflows' = (overflows + 1) % CounterModulus
           /\ isr' = "out"
           /\ UNCHANGED <<head, tail, isrNext, drainVars, owed>>

IsrRoom == /\ isr = "test"
           /\ isrNext # tail
           /\ isr' = "publish"
           /\ UNCHANGED <<head, tail, isrNext, overflows, drainVars, owed>>

(* irq_head_ = next *)
IsrPublish == /\ isr = "publish"
              /\ head' = isrNext
              /\ isr' = "out"
              /\ UNCHANGED <<tail, isrNext, overflows, drainVars, owed>>

Isr == IsrEnter \/ IsrFull \/ IsrRoom \/ IsrPublish

---------------------------------------------------------------------------
(* process_events(): the ring part.  What the flags say is Radio's concern. *)

Goto(from, to) == drain = from /\ drain' = to

ProcessEvents == /\ Goto("idle", "synth")
                 /\ iters' = 0
                 /\ UNCHANGED <<head, tail, isrVars, drainNext, owed>>

(* if (cfg_.polling_mode && irq_tail_ == irq_head_) *)
SynthTest == /\ Goto("synth", IF Polling /\ tail = head THEN "load" ELSE "loop")
             /\ UNCHANGED <<head, tail, isrVars, drainNext, iters, owed>>

(* A second load of irq_head_: an interrupt may have moved it meanwhile. *)
SynthLoad == /\ Goto("load", "store")
             /\ drainNext' = Succ(head)
             /\ UNCHANGED <<head, tail, isrVars, iters, owed>>

SynthStore == /\ Goto("store", "loop")
              /\ head' = IF drainNext # tail THEN drainNext ELSE head
              /\ UNCHANGED <<tail, isrVars, drainNext, iters, owed>>

(* while (irq_tail_ != irq_head_ && iters < kIrqQueueSize) *)
LoopTest == /\ Goto("loop", IF tail # head /\ iters < Size THEN "pop" ELSE "idle")
            /\ UNCHANGED <<head, tail, isrVars, drainNext, iters, owed>>

(* The marker goes before the flags are read, never after. *)
Pop == /\ Goto("pop", "read")
       /\ tail' = Succ(tail)
       /\ iters' = iters + 1
       /\ UNCHANGED <<head, isrVars, drainNext, owed>>

(* spi_.read_register(kIrqFlags): answers every interrupt raised so far. *)
ReadFlags == /\ Goto("read", "loop")
             /\ owed' = FALSE
             /\ UNCHANGED <<head, tail, isrVars, drainNext, iters>>

Drain == \/ ProcessEvents \/ SynthTest \/ SynthLoad \/ SynthStore
         \/ LoopTest \/ Pop \/ ReadFlags

---------------------------------------------------------------------------
(* end() and begin().  LoRa::end() detaches the interrupt only after the    *)
(* driver's end() has returned, so the handler runs through both stores.    *)

EndHead == /\ Goto("idle", "tail")
           /\ head' = 0
           /\ UNCHANGED <<tail, isrVars, drainNext, iters, owed>>

EndTail == /\ Goto("tail", "down")
           /\ tail' = 0
           /\ UNCHANGED <<head, isrVars, drainNext, iters, owed>>

(* begin() does not touch the ring: it relies on end() having emptied it.   *)
(* Its init sequence ends by clearing RegIrqFlags, so nothing is owed.      *)
Begin == /\ Goto("down", "idle")
         /\ owed' = FALSE
         /\ UNCHANGED <<head, tail, isrVars, drainNext, iters>>

Lifecycle == EndHead \/ EndTail \/ Begin

---------------------------------------------------------------------------
(* Spec: an initialised driver.  LifeSpec: driver sessions follow each other. *)

Next == Isr \/ Drain
Spec == Init /\ [][Next]_vars

LifeNext == Next \/ Lifecycle
LifeSpec == Init /\ [][LifeNext]_vars

(* The handler runs to completion once entered, and the radio thread calls  *)
(* process_events() again and again; nothing forces an interrupt to arrive. *)
Fairness == WF_vars(Drain) /\ WF_vars(IsrFull \/ IsrRoom \/ IsrPublish)
FairSpec == Spec /\ Fairness

---------------------------------------------------------------------------
(* Properties *)

(* Every variable stays in its C++ type's range: both indices address a slot. *)
TypeOK == /\ head \in Slots /\ tail \in Slots
          /\ overflows \in 0 .. CounterModulus - 1
          /\ isr \in IsrSteps /\ isrNext \in Slots
          /\ drain \in Running \cup Ending /\ drainNext \in Slots
          /\ iters \in 0 .. Size
          /\ owed \in BOOLEAN

(* handle_interrupt() may drop its marker and process_events() may leave    *)
(* markers behind, yet no interrupt is ever forgotten: until the flags are  *)
(* read again after it, a marker is in the ring, the handler has not        *)
(* finished, or the thread holds a marker whose flags it is about to read.  *)
NoLostWakeup ==
    owed /\ drain \in Running => \/ head # tail
                                 \/ isr # "out"
                                 \/ drain = "read"

(* The handler never publishes over the tail: with one producer irq_head_   *)
(* moves one slot at a time and a full ring never turns into an empty one,  *)
(* although the tail the handler compared with may since have moved.        *)
PublishIsOneSlot == [][head' # head => head' = Succ(head) /\ head' # tail]_vars

(* Every interrupt is eventually followed by a read of RegIrqFlags, however *)
(* many interrupts overflow and although one process_events() call handles  *)
(* at most Size markers.                                                    *)
EveryInterruptIsAnswered == owed ~> ~owed

(* The ring implements the mailbox: the marker count is the distance from   *)
(* tail to head (the expression process_events() uses for max_irq_backlog). *)
Backlog == (head + Size - tail) % Size

M == INSTANCE Mailbox WITH Capacity <- Size - 1, count <- Backlog

ImplementsMailbox == M!Spec
=============================================================================
