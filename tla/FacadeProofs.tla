---------------------------- MODULE FacadeProofs ----------------------------
(***************************************************************************)
(* Theorems about Facade for every set of tasks, queue depth and timing:    *)
(* type correctness, one pump at most and none under a teardown, a facade   *)
(* that is never half initialised, and a stop() that never has to kill.     *)
(***************************************************************************)
EXTENDS Facade, TLAPS

USE TasksAssumption, QueueAssumption, TimesAssumption, OptionsAssumption,
    CallsAssumption

---------------------------------------------------------------------------
(* Type correctness, in four groups: who stands where, the tasks, the         *)
(* numbers, and the flags that are true or false.                            *)

Places == /\ app \in {"idle", "stop", "create", "dead"} \cup Stopping
                     \cup Dismantling \cup AppInside
          /\ after \in {"idle", "create", "undoDetach", "endTrx"}
          /\ target \in TaskIds \cup {0}
          /\ handle \in TaskIds \cup {0}
          /\ isr \in TaskIds \cup {0}
          /\ state \in States

Tasks == task \in [TaskIds -> Alive \cup {"leaving", "none"}]

Numbers == /\ stopLeft \in Nat /\ left \in Nat
           /\ budget \in StopBudgets /\ auto \in Options
           /\ calls \in 0 .. MaxCalls
           /\ queue \in 0 .. Depth

Flags == /\ running \in BOOLEAN /\ attached \in BOOLEAN
         /\ stopReq \in BOOLEAN /\ pending \in BOOLEAN

Notes == note \in [TaskIds -> BOOLEAN]

LEMMA TypeGroups == TypeOK <=> Places /\ Tasks /\ Numbers /\ Flags /\ Notes
  BY DEF TypeOK, Places, Tasks, Numbers, Flags, Notes

LEMMA TypeInit == Init => TypeOK
  <1>. SUFFICES ASSUME Init PROVE Places /\ Tasks /\ Numbers /\ Flags /\ Notes
    BY TypeGroups
  <1>1. Places
    BY DEF Init, Places, States
  <1>2. Tasks
    BY DEF Init, Tasks
  <1>3. Numbers
    BY DEF Init, Numbers
  <1>4. Flags /\ Notes
    BY DEF Init, Flags, Notes
  <1>. QED
    BY <1>1, <1>2, <1>3, <1>4

LEMMA PlacesStep == Places /\ [Next]_vars => Places'
  <1>. SUFFICES ASSUME Places, [Next]_vars
                PROVE  Places'
    OBVIOUS
  <1>. USE DEF Places, States, Stopping, Dismantling, AppInside, facade, thread, shared, rtos
  <1>1. CASE Starting
    BY <1>1 DEF Starting, Begin, Create, CreateFails, StartRx, StartRxFails,
                UndoDetach, UndoTrx, CallStop
  <1>2. CASE Ending
    BY <1>2 DEF Ending, End, EndTrx, EndDetach, CallStop
  <1>3. CASE Stop
    BY <1>3 DEF Stop, StopNothing, StopRequest, StopNudge, StopWaited, StopKill,
                StopReturn
  <1>4. CASE Calling
    BY <1>4 DEF Calling, SendAsync, CallSend, CallOther, CallReturns
  <1>5. ASSUME NEW t \in TaskIds, Task(t)
        PROVE  Places'
    BY <1>5 DEF Task, Test, QueueEmpty, TakeItem, TakeItemFails, SendOK, SendTimeout,
                Wake, PollReturns, Check, Restore, ExitNulls, ExitDeletes
  <1>6. CASE IsrLoads \/ IsrNotifies \/ Tick
    BY <1>6 DEF IsrLoads, IsrNotifies, Tick
  <1>7. CASE UNCHANGED vars
    BY <1>7 DEF vars
  <1>. QED
    BY <1>1, <1>2, <1>3, <1>4, <1>5, <1>6, <1>7 DEF Next

LEMMA NumbersStep == Numbers /\ [Next]_vars => Numbers'
  <1>. SUFFICES ASSUME Numbers, [Next]_vars
                PROVE  Numbers'
    OBVIOUS
  <1>. USE DEF Numbers, facade, thread, shared, rtos
  <1>1. CASE Starting
    BY <1>1 DEF Starting, Begin, Create, CreateFails, StartRx, StartRxFails,
                UndoDetach, UndoTrx, CallStop
  <1>2. CASE Ending
    BY <1>2 DEF Ending, End, EndTrx, EndDetach, CallStop
  <1>3. CASE Stop
    BY <1>3 DEF Stop, StopNothing, StopRequest, StopNudge, StopWaited, StopKill,
                StopReturn
  <1>4. CASE Calling
    BY <1>4 DEF Calling, SendAsync, CallSend, CallOther, CallReturns
  <1>5. ASSUME NEW t \in TaskIds, Task(t)
        PROVE  Numbers'
    BY <1>5 DEF Task, Test, QueueEmpty, TakeItem, TakeItemFails, SendOK, SendTimeout,
                Wake, PollReturns, Check, Restore, ExitNulls, ExitDeletes, Sleeps
  <1>6. CASE IsrLoads \/ IsrNotifies \/ Tick
    BY <1>6 DEF IsrLoads, IsrNotifies, Tick, Down
  <1>7. CASE UNCHANGED vars
    BY <1>7 DEF vars
  <1>. QED
    BY <1>1, <1>2, <1>3, <1>4, <1>5, <1>6, <1>7 DEF Next

LEMMA FlagsStep == Flags /\ [Next]_vars => Flags'
  <1>. SUFFICES ASSUME Flags, [Next]_vars
                PROVE  Flags'
    OBVIOUS
  <1>. USE DEF Flags, facade, thread, shared, rtos
  <1>1. CASE Starting
    BY <1>1 DEF Starting, Begin, Create, CreateFails, StartRx, StartRxFails,
                UndoDetach, UndoTrx, CallStop
  <1>2. CASE Ending
    BY <1>2 DEF Ending, End, EndTrx, EndDetach, CallStop
  <1>3. CASE Stop
    BY <1>3 DEF Stop, StopNothing, StopRequest, StopNudge, StopWaited, StopKill,
                StopReturn
  <1>4. CASE Calling
    BY <1>4 DEF Calling, SendAsync, CallSend, CallOther, CallReturns
  <1>5. ASSUME NEW t \in TaskIds, Task(t)
        PROVE  Flags'
    BY <1>5 DEF Task, Test, QueueEmpty, TakeItem, TakeItemFails, SendOK, SendTimeout,
                Wake, PollReturns, Check, Restore, ExitNulls, ExitDeletes
  <1>6. CASE IsrLoads \/ IsrNotifies \/ Tick
    BY <1>6 DEF IsrLoads, IsrNotifies, Tick
  <1>7. CASE UNCHANGED vars
    BY <1>7 DEF vars
  <1>. QED
    BY <1>1, <1>2, <1>3, <1>4, <1>5, <1>6, <1>7 DEF Next

(* Only task creation, deletion and a task's own steps move a task.          *)
LEMMA TasksStep == Places /\ Tasks /\ [Next]_vars => Tasks'
  <1>. SUFFICES ASSUME Places, Tasks, [Next]_vars
                PROVE  Tasks'
    OBVIOUS
  <1>. USE DEF Tasks, Alive, Inside, rtos
  <1>1. CASE Starting
    BY <1>1 DEF Starting, Begin, Create, CreateFails, StartRx, StartRxFails,
                UndoDetach, UndoTrx
  <1>2. CASE Ending
    BY <1>2 DEF Ending, End, EndTrx, EndDetach
  <1>3. CASE Stop
    BY <1>3 DEF Places, Stop, StopNothing, StopRequest, StopNudge, StopWaited,
                StopKill, StopReturn
  <1>4. CASE Calling
    BY <1>4 DEF Calling, SendAsync, CallSend, CallOther, CallReturns
  <1>5. ASSUME NEW t \in TaskIds, Task(t)
        PROVE  Tasks'
    BY <1>5 DEF Task, Test, QueueEmpty, TakeItem, TakeItemFails, SendOK, SendTimeout,
                Wake, PollReturns, Check, Restore, ExitNulls, ExitDeletes, Go, Sleeps
  <1>6. CASE IsrLoads \/ IsrNotifies \/ Tick
    BY <1>6 DEF IsrLoads, IsrNotifies, Tick
  <1>7. CASE UNCHANGED vars
    BY <1>7 DEF vars
  <1>. QED
    BY <1>1, <1>2, <1>3, <1>4, <1>5, <1>6, <1>7 DEF Next

(* A notification is given to the task a handle names, and taken by a task.  *)
LEMMA NotesStep == Places /\ Notes /\ [Next]_vars => Notes'
  <1>. SUFFICES ASSUME Places, Notes, [Next]_vars
                PROVE  Notes'
    OBVIOUS
  <1>. USE DEF Notes, rtos
  <1>a. ASSUME NEW t, Notify(t) PROVE Notes'
    BY <1>a DEF Notify
  <1>b. ASSUME NEW t \in TaskIds, note' = [note EXCEPT ![t] = FALSE] PROVE Notes'
    BY <1>b
  <1>1. CASE Starting
    BY <1>1, <1>b DEF Starting, Begin, Create, CreateFails, StartRx, StartRxFails,
                UndoDetach, UndoTrx
  <1>2. CASE Ending
    BY <1>2 DEF Ending, End, EndTrx, EndDetach
  <1>3. CASE Stop
    BY <1>3, <1>a DEF Stop, StopNothing, StopRequest, StopNudge, StopWaited, StopKill,
                StopReturn
  <1>4. CASE Calling
    BY <1>4 DEF Calling, SendAsync, CallSend, CallOther, CallReturns
  <1>5. ASSUME NEW t \in TaskIds, Task(t)
        PROVE  Notes'
    BY <1>5, <1>b DEF Task, Test, QueueEmpty, TakeItem, TakeItemFails, SendOK,
                      SendTimeout, Wake, PollReturns, Check, Restore, ExitNulls,
                      ExitDeletes
  <1>6. CASE IsrLoads \/ IsrNotifies \/ Tick
    BY <1>6, <1>a DEF IsrLoads, IsrNotifies, Tick
  <1>7. CASE UNCHANGED vars
    BY <1>7 DEF vars
  <1>. QED
    BY <1>1, <1>2, <1>3, <1>4, <1>5, <1>6, <1>7 DEF Next

LEMMA TypeStep == TypeOK /\ [Next]_vars => TypeOK'
  <1>. SUFFICES ASSUME TypeOK, [Next]_vars
                PROVE  Places' /\ Tasks' /\ Numbers' /\ Flags' /\ Notes'
    BY TypeGroups DEF TypeOK, Places, Tasks, Numbers, Flags, Notes
  <1>. QED
    BY TypeGroups, PlacesStep, TasksStep, NumbersStep, FlagsStep, NotesStep

(* Every field of facade and pump, every place and every task keeps its type, *)
(* however sessions, tasks and interrupts overlap.                            *)
THEOREM TypeCorrect == Spec => []TypeOK
  BY TypeInit, TypeStep, PTL DEF Spec

---------------------------------------------------------------------------
(* One pump.  OnePump alone is not inductive: Create could start a second    *)
(* task beside one that is in the loop.  It cannot because stop() comes back *)
(* with task_ null, and stays so until the next task is created.             *)

PumpStopped ==
    app \in {"stopped", "create"} \cup Dismantling => handle = 0

PumpInv == OnePump /\ PumpStopped

LEMMA PumpInit == Init => PumpInv
  BY DEF Init, PumpInv, OnePump, PumpStopped, Dismantling, Alive, Inside

LEMMA PumpStoppedStep == TypeOK /\ PumpInv /\ [Next]_vars => PumpStopped'
  <1>. SUFFICES ASSUME TypeOK, PumpInv, [Next]_vars
                PROVE  PumpStopped'
    OBVIOUS
  <1>. USE DEF PumpInv, PumpStopped, Stopping, Dismantling, AppInside, facade,
               thread, shared, rtos
  <1>1. CASE Starting
    BY <1>1 DEF Starting, Begin, Create, CreateFails, StartRx, StartRxFails,
                UndoDetach, UndoTrx, CallStop
  <1>2. CASE Ending
    BY <1>2 DEF Ending, End, EndTrx, EndDetach, CallStop
  <1>3. CASE Stop
    BY <1>3 DEF TypeOK, Stop, StopNothing, StopRequest, StopNudge, StopWaited,
                StopKill, StopReturn
  <1>4. CASE Calling
    BY <1>4 DEF Calling, SendAsync, CallSend, CallOther, CallReturns
  <1>5. ASSUME NEW t \in TaskIds, Task(t)
        PROVE  PumpStopped'
    BY <1>5 DEF Task, Test, QueueEmpty, TakeItem, TakeItemFails, SendOK, SendTimeout,
                Wake, PollReturns, Check, Restore, ExitNulls, ExitDeletes
  <1>6. CASE IsrLoads \/ IsrNotifies \/ Tick
    BY <1>6 DEF IsrLoads, IsrNotifies, Tick
  <1>7. CASE UNCHANGED vars
    BY <1>7 DEF vars
  <1>. QED
    BY <1>1, <1>2, <1>3, <1>4, <1>5, <1>6, <1>7 DEF Next

LEMMA OnePumpStep == TypeOK /\ PumpInv /\ [Next]_vars => OnePump'
  <1>. SUFFICES ASSUME TypeOK, PumpInv, [Next]_vars
                PROVE  OnePump'
    OBVIOUS
  <1>. USE DEF PumpInv, OnePump, facade, thread, shared, rtos
  <1>0. /\ task \in [TaskIds -> Alive \cup {"leaving", "none"}]
        /\ "none" \notin Alive /\ "leaving" \notin Alive
    BY DEF TypeOK, Alive, Inside
  (* In steps that leave task_ alone, a task that was out of the loop stays out. *)
  <1>a. ASSUME handle' = handle,
               \A t \in TaskIds : task'[t] \in Alive => task[t] \in Alive
        PROVE  OnePump'
    BY <1>a
  <1>1. CASE Create
    <2>1. handle = 0
      BY <1>1 DEF Create, PumpStopped
    <2>2. \A t \in TaskIds : task[t] \notin Alive
      BY <2>1, TasksAssumption
    <2>3. PICK t \in TaskIds : task' = [task EXCEPT ![t] = "test"] /\ handle' = t
      BY <1>1 DEF Create
    <2>. QED
      BY <1>0, <2>2, <2>3
  <1>2. CASE StopKill
    <2>1. CASE handle = 0
      BY <1>2, <2>1 DEF StopKill
    <2>2. CASE handle # 0
      BY <1>0, <1>2, <2>2 DEF StopKill
    <2>. QED
      BY <2>1, <2>2
  <1>3. CASE \/ Begin \/ CreateFails \/ StartRx \/ StartRxFails \/ UndoDetach \/ UndoTrx
             \/ Ending \/ Calling
             \/ StopNothing \/ StopRequest \/ StopNudge \/ StopWaited \/ StopReturn
    BY <1>3, <1>a
       DEF Begin, CreateFails, StartRx, StartRxFails, UndoDetach, UndoTrx, Ending, End,
           EndTrx, EndDetach, Calling, SendAsync, CallSend, CallOther, CallReturns,
           StopNothing, StopRequest, StopNudge, StopWaited, StopReturn
  <1>4. ASSUME NEW t \in TaskIds, Task(t)
        PROVE  OnePump'
    <2>1. CASE ExitNulls(t)
      <3>1. handle = t
        BY <2>1 DEF ExitNulls, Go, Alive
      <3>2. \A u \in TaskIds : u # t => task[u] \notin Alive
        BY <3>1
      <3>. QED
        BY <1>0, <2>1, <3>2 DEF ExitNulls, Go
    <2>2. CASE ~ExitNulls(t)
      <3>1. handle' = handle
        BY <1>4, <2>2
           DEF Task, Test, QueueEmpty, TakeItem, TakeItemFails, SendOK, SendTimeout,
               Wake, PollReturns, Check, Restore, ExitDeletes
      <3>2. \A u \in TaskIds : task'[u] \in Alive => task[u] \in Alive
        BY <1>0, <1>4, <2>2
           DEF Task, Test, QueueEmpty, TakeItem, TakeItemFails, SendOK, SendTimeout,
               Wake, PollReturns, Check, Restore, ExitDeletes, Go, Sleeps, Alive,
               Inside
      <3>. QED
        BY <3>1, <3>2, <1>a
    <2>. QED
      BY <2>1, <2>2
  <1>5. CASE IsrLoads \/ IsrNotifies \/ Tick \/ UNCHANGED vars
    BY <1>5, <1>a DEF IsrLoads, IsrNotifies, Tick, vars
  <1>. QED
    BY <1>1, <1>2, <1>3, <1>4, <1>5 DEF Next, Starting, Stop

LEMMA PumpAlways == Spec => [](TypeOK /\ PumpInv)
  <1>1. Init => TypeOK /\ PumpInv
    BY TypeInit, PumpInit
  <1>2. TypeOK /\ PumpInv /\ [Next]_vars => (TypeOK /\ PumpInv)'
    BY TypeStep, PumpStoppedStep, OnePumpStep DEF PumpInv
  <1>. QED
    BY <1>1, <1>2, PTL DEF Spec

(* Whatever is stopped, started and killed in whatever order, at most one     *)
(* task is in the pump loop, and it is the one task_ names.                   *)
THEOREM OnePumpOnly == Spec => []OnePump
  <1>1. TypeOK /\ PumpInv => OnePump
    BY DEF PumpInv
  <1>. QED
    BY <1>1, PumpAlways, PTL

(* No task can enter the transceiver while end() or a failing begin() takes   *)
(* it down.                                                                   *)
THEOREM NoPumpInTeardown == Spec => []PumpGoneFirst
  <1>1. TypeOK /\ PumpInv => PumpGoneFirst
    BY TasksAssumption DEF PumpInv, OnePump, PumpStopped, PumpGoneFirst
  <1>. QED
    BY <1>1, PumpAlways, PTL

---------------------------------------------------------------------------
(* A facade that is not running is all taken down.  What the thread has      *)
(* achieved at each place of a teardown, and what a call still relies on.    *)
Dismantled ==
    /\ app \in {"stop"} \cup Stopping => after # "idle"
    /\ app \in {"call", "appSend"} => running
    /\ app = "undoTrx" => ~attached
    /\ app = "endDetach" => state = "Uninit"
    /\ NotHalfInitialised

LEMMA DismantledInit == Init => Dismantled
  BY DEF Init, Dismantled, NotHalfInitialised, Stopping

(* A task's step can spoil it only by moving state_, which takes a task that  *)
(* is in the loop; there is none when task_ is null.                          *)
LEMMA DismantledStep == TypeOK /\ PumpInv /\ Dismantled /\ [Next]_vars => Dismantled'
  <1>. SUFFICES ASSUME TypeOK, PumpInv, Dismantled, [Next]_vars
                PROVE  Dismantled'
    OBVIOUS
  <1>. USE DEF Dismantled, NotHalfInitialised, PumpStopped, Stopping, Dismantling,
               AppInside, facade, thread, shared, rtos
  <1>1. CASE Starting
    BY <1>1 DEF PumpInv, Starting, Begin, Create, CreateFails, StartRx, StartRxFails,
                UndoDetach, UndoTrx, CallStop
  <1>2. CASE Ending
    BY <1>2 DEF PumpInv, Ending, End, EndTrx, EndDetach, CallStop
  <1>3. CASE Stop
    BY <1>3 DEF TypeOK, Stop, StopNothing, StopRequest, StopNudge, StopWaited, StopKill,
                StopReturn
  <1>4. CASE Calling
    BY <1>4 DEF Calling, SendAsync, CallSend, CallOther, CallReturns
  <1>5. ASSUME NEW t \in TaskIds, Task(t)
        PROVE  Dismantled'
    <2>1. UNCHANGED facade /\ UNCHANGED thread /\ (handle' = handle \/ handle' = 0)
      BY <1>5 DEF Task, Test, QueueEmpty, TakeItem, TakeItemFails, SendOK, SendTimeout,
                  Wake, PollReturns, Check, Restore, ExitNulls, ExitDeletes
    <2>2. state' = state \/ task[t] \in Alive
      BY <1>5 DEF Task, Test, QueueEmpty, TakeItem, TakeItemFails, SendOK, SendTimeout,
                  Wake, PollReturns, Check, Restore, ExitNulls, ExitDeletes, Go, Alive,
                  Inside
    <2>3. state' = state \/ handle # 0
      BY <2>2, TasksAssumption DEF PumpInv, OnePump
    <2>. QED
      BY <2>1, <2>3 DEF PumpInv
  <1>6. CASE IsrLoads \/ IsrNotifies \/ Tick
    BY <1>6 DEF IsrLoads, IsrNotifies, Tick
  <1>7. CASE UNCHANGED vars
    BY <1>7 DEF vars
  <1>. QED
    BY <1>1, <1>2, <1>3, <1>4, <1>5, <1>6, <1>7 DEF Next

(* "tear down to avoid a half-initialised facade": between two calls a facade *)
(* that is not running has nothing attached, no pump and no transceiver.      *)
THEOREM NothingHalfInitialised == Spec => []NotHalfInitialised
  <1>1. Init => Dismantled
    BY DismantledInit
  <1>2. (TypeOK /\ PumpInv) /\ Dismantled /\ [Next]_vars => Dismantled'
    BY DismantledStep
  <1>3. Dismantled => NotHalfInitialised
    BY DEF Dismantled
  <1>. QED
    BY <1>1, <1>2, <1>3, PumpAlways, PTL DEF Spec

---------------------------------------------------------------------------
(* stop() is cooperative.  From its nudge on, the task it waits for is on its *)
(* way to the test of stop_requested_, and the sleeps left to stop() outlast  *)
(* the only place where that way takes time, a send().  The notification that *)
(* was given keeps it from blocking after that; it is consumed by a turn that *)
(* ends at the test.                                                          *)

OnItsWay(t) ==
    \/ task[t] \in {"poll", "check", "restore", "test", "exit"} /\ stopLeft > 0
    \/ task[t] = "queue" /\ note[t] /\ stopLeft > SendTime
    \/ task[t] = "send" /\ note[t] /\ stopLeft > left
    \/ task[t] = "wait" /\ note[t] /\ stopLeft > 0

NamedIsAlive == handle # 0 => task[handle] \in Alive
SendIsTimed == \A t \in TaskIds : task[t] = "send" => left <= SendTime
Requested == /\ app \in Stopping => stopReq
             /\ app = "nudge" /\ handle # 0 => handle = target
Obliging == budget > SendTime /\ handle # 0 /\ app = "waiting" => OnItsWay(handle)

CoopInv == /\ NamedIsAlive /\ SendIsTimed /\ Requested /\ Obliging
           /\ StopIsCooperative

AppStep == Starting \/ Ending \/ Stop \/ Calling

LEMMA CoopInit == Init => CoopInv
  <1>. SUFFICES ASSUME Init PROVE CoopInv
    OBVIOUS
  <1>1. NamedIsAlive /\ Requested /\ Obliging /\ StopIsCooperative
    BY DEF Init, NamedIsAlive, Requested, Obliging, StopIsCooperative, Stopping
  <1>2. SendIsTimed
    BY DEF Init, SendIsTimed
  <1>. QED
    BY <1>1, <1>2 DEF CoopInv

(* A task's step moves that task only, and if it is not the one task_ names,  *)
(* it is its deletion.                                                        *)
LEMMA OthersAreOut ==
    ASSUME TypeOK, OnePump, NEW t \in TaskIds, Task(t), t # handle
    PROVE  ExitDeletes(t)
  BY DEF Task, Test, QueueEmpty, TakeItem, TakeItemFails, SendOK, SendTimeout, Wake,
         PollReturns, Check, Restore, ExitNulls, Go, OnePump, Alive, Inside

LEMMA NamedIsAliveStep ==
    ASSUME TypeOK, OnePump, NamedIsAlive, [Next]_vars
    PROVE  NamedIsAlive'
  <1>. USE TasksAssumption DEF NamedIsAlive
  <1>0. /\ task \in [TaskIds -> Alive \cup {"leaving", "none"}]
        /\ handle \in TaskIds \cup {0}
        /\ "test" \in Alive /\ "none" \notin Alive /\ "leaving" \notin Alive
    BY DEF TypeOK, Alive, Inside
  <1>a. ASSUME handle' = handle \/ handle' = 0, task' = task
        PROVE  NamedIsAlive'
    BY <1>a
  <1>1. CASE Create
    BY <1>0, <1>1 DEF Create
  <1>2. CASE StopKill
    BY <1>2, <1>a DEF StopKill
  <1>3. CASE AppStep /\ ~Create /\ ~StopKill
    BY <1>3, <1>a
       DEF AppStep, Starting, Begin, CreateFails, StartRx, StartRxFails, UndoDetach,
           UndoTrx, Ending, End, EndTrx, EndDetach, Stop, StopNothing, StopRequest,
           StopNudge, StopWaited, StopReturn, Calling, SendAsync, CallSend, CallOther,
           CallReturns, shared, rtos
  <1>4. ASSUME NEW t \in TaskIds, Task(t)
        PROVE  NamedIsAlive'
    <2>1. CASE t # handle
      BY <1>0, <1>4, <2>1, OthersAreOut DEF ExitDeletes, Go, shared
    <2>2. CASE t = handle
      BY <1>0, <1>4, <2>2
         DEF Task, Test, QueueEmpty, TakeItem, TakeItemFails, SendOK, SendTimeout,
             Wake, PollReturns, Check, Restore, ExitNulls, ExitDeletes, Go, Sleeps,
             shared, Alive, Inside
    <2>. QED
      BY <2>1, <2>2
  <1>5. CASE IsrLoads \/ IsrNotifies \/ Tick \/ UNCHANGED vars
    BY <1>5, <1>a DEF IsrLoads, IsrNotifies, Tick, vars, shared, rtos
  <1>. QED
    BY <1>1, <1>2, <1>3, <1>4, <1>5 DEF Next, AppStep

LEMMA SendIsTimedStep ==
    ASSUME TypeOK, OnePump, SendIsTimed, [Next]_vars
    PROVE  SendIsTimed'
  <1>. USE TimesAssumption DEF SendIsTimed
  <1>0. task \in [TaskIds -> Alive \cup {"leaving", "none"}] /\ left \in Nat
    BY DEF TypeOK
  <1>1. CASE Create
    BY <1>0, <1>1 DEF Create
  <1>2. CASE StopKill
    BY <1>0, <1>2 DEF StopKill
  <1>3. CASE AppStep /\ ~Create /\ ~StopKill
    BY <1>3
       DEF AppStep, Starting, Begin, CreateFails, StartRx, StartRxFails, UndoDetach,
           UndoTrx, Ending, End, EndTrx, EndDetach, Stop, StopNothing, StopRequest,
           StopNudge, StopWaited, StopReturn, Calling, SendAsync, CallSend, CallOther,
           CallReturns, rtos
  <1>4. ASSUME NEW t \in TaskIds, Task(t)
        PROVE  SendIsTimed'
    <2>1. CASE t # handle
      BY <1>0, <1>4, <2>1, OthersAreOut DEF ExitDeletes, Go
    <2>2. CASE t = handle
      <3>1. \A u \in TaskIds : u # t => task'[u] = task[u] /\ task[u] # "send"
        BY <1>0, <1>4, <2>2
           DEF Task, Test, QueueEmpty, TakeItem, TakeItemFails, SendOK, SendTimeout,
               Wake, PollReturns, Check, Restore, ExitNulls, ExitDeletes, Go, Sleeps,
               OnePump, Alive, Inside
      <3>2. task'[t] = "send" => left' = SendTime
        BY <1>0, <1>4
           DEF Task, Test, QueueEmpty, TakeItem, TakeItemFails, SendOK, SendTimeout,
               Wake, PollReturns, Check, Restore, ExitNulls, ExitDeletes, Go, Sleeps
      <3>. QED
        BY <3>1, <3>2
    <2>. QED
      BY <2>1, <2>2
  <1>5. CASE IsrLoads \/ IsrNotifies \/ UNCHANGED vars
    BY <1>5 DEF IsrLoads, IsrNotifies, vars, rtos
  <1>6. CASE Tick
    BY <1>0, <1>6 DEF Tick, Down
  <1>. QED
    BY <1>1, <1>2, <1>3, <1>4, <1>5, <1>6 DEF Next, AppStep

LEMMA RequestedStep ==
    ASSUME TypeOK, Requested, [Next]_vars
    PROVE  Requested'
  <1>. USE DEF Requested, Stopping, Dismantling, AppInside, facade, thread, shared, rtos
  <1>1. CASE AppStep
    BY <1>1
       DEF TypeOK, AppStep, Starting, Begin, Create, CreateFails, StartRx,
           StartRxFails, UndoDetach, UndoTrx, Ending, End, EndTrx, EndDetach, Stop,
           StopNothing, StopRequest, StopNudge, StopWaited, StopKill, StopReturn,
           Calling, SendAsync, CallSend, CallOther, CallReturns, CallStop
  <1>2. ASSUME NEW t \in TaskIds, Task(t)
        PROVE  Requested'
    BY <1>2 DEF Task, Test, QueueEmpty, TakeItem, TakeItemFails, SendOK, SendTimeout,
                Wake, PollReturns, Check, Restore, ExitNulls, ExitDeletes
  <1>3. CASE IsrLoads \/ IsrNotifies \/ Tick \/ UNCHANGED vars
    BY <1>3 DEF IsrLoads, IsrNotifies, Tick, vars
  <1>. QED
    BY <1>1, <1>2, <1>3 DEF Next, AppStep

LEMMA ObligingStep ==
    ASSUME TypeOK, OnePump, CoopInv, [Next]_vars
    PROVE  Obliging'
  <1>. SUFFICES ASSUME (budget > SendTime)', (handle # 0)', (app = "waiting")'
                PROVE  OnItsWay(handle)'
    BY DEF Obliging
  <1>. USE TimesAssumption, TasksAssumption DEF CoopInv
  <1>0. /\ task \in [TaskIds -> Alive \cup {"leaving", "none"}]
        /\ note \in [TaskIds -> BOOLEAN]
        /\ handle \in TaskIds \cup {0} /\ isr \in TaskIds \cup {0}
        /\ stopLeft \in Nat /\ left \in Nat /\ budget \in Nat /\ SendTime \in Nat
        /\ "none" \notin Alive
    BY DEF TypeOK, Alive, Inside
  (* Only the nudge leads to "waiting"; after it task_ and the budget stay.    *)
  <1>1. CASE AppStep
    <2>1. StopNudge
      BY <1>1
         DEF AppStep, Starting, Begin, Create, CreateFails, StartRx, StartRxFails,
             UndoDetach, UndoTrx, Ending, End, EndTrx, EndDetach, Stop, StopNothing,
             StopRequest, StopWaited, StopKill, StopReturn, Calling, SendAsync,
             CallSend, CallOther, CallReturns, CallStop, TypeOK, thread
    <2>2. /\ handle = target /\ handle \in TaskIds /\ task[handle] \in Alive
          /\ UNCHANGED <<handle, task, left, budget>>
          /\ stopLeft' = budget
      BY <1>0, <2>1 DEF StopNudge, Requested, NamedIsAlive, shared
    <2>3. note'[handle]
      BY <1>0, <2>1, <2>2 DEF StopNudge, Notify
    <2>4. stopLeft' > SendTime /\ stopLeft' > 0
      BY <1>0, <2>2
    <2>5. task[handle] = "send" => stopLeft' > left
      BY <1>0, <2>2, <2>4 DEF SendIsTimed
    <2>. QED
      BY <2>2, <2>3, <2>4, <2>5 DEF OnItsWay, Alive, Inside
  <1>2. ASSUME NEW t \in TaskIds, Task(t)
        PROVE  OnItsWay(handle)'
    <2>1. UNCHANGED thread /\ UNCHANGED budget /\ UNCHANGED stopReq /\ handle = handle'
      BY <1>2 DEF Task, Test, QueueEmpty, TakeItem, TakeItemFails, SendOK, SendTimeout,
                  Wake, PollReturns, Check, Restore, ExitNulls, ExitDeletes, shared
    <2>2. OnItsWay(handle) /\ stopReq /\ UNCHANGED <<stopLeft, handle>>
      BY <2>1 DEF Obliging, Requested, Stopping, thread
    <2>3. CASE t # handle
      <3>1. ExitDeletes(t)
        BY <1>2, <2>3, OthersAreOut
      <3>2. handle \in TaskIds /\ UNCHANGED left
        BY <1>0, <2>2, <3>1 DEF ExitDeletes
      <3>3. task'[handle] = task[handle]
        BY <1>0, <2>3, <3>1, <3>2 DEF ExitDeletes, Go
      <3>4. note'[handle] = note[handle]
        BY <1>0, <2>3, <3>1, <3>2 DEF ExitDeletes
      <3>. QED
        BY <2>2, <3>2, <3>3, <3>4 DEF OnItsWay
    <2>4. CASE t = handle
      <3>0. t = handle' /\ stopLeft' = stopLeft /\ stopLeft > 0
        BY <1>0, <2>2, <2>4 DEF OnItsWay
      <3>1. CASE Test(t) \/ PollReturns(t) \/ Check(t) \/ Restore(t)
        <4>1. task'[t] \in {"poll", "check", "restore", "test", "exit"}
          BY <1>0, <2>2, <3>1 DEF Test, PollReturns, Check, Restore, Go
        <4>. QED
          BY <3>0, <4>1 DEF OnItsWay
      <3>2. CASE QueueEmpty(t) \/ TakeItemFails(t) \/ SendOK(t) \/ SendTimeout(t)
        <4>1. note[t]
          BY <2>2, <2>4, <3>2
             DEF OnItsWay, QueueEmpty, TakeItemFails, SendOK, SendTimeout
        <4>2. task'[t] = "wait" /\ note' = note
          BY <1>0, <3>2
             DEF QueueEmpty, TakeItemFails, SendOK, SendTimeout, Sleeps
        <4>. QED
          BY <3>0, <4>1, <4>2 DEF OnItsWay
      <3>3. CASE TakeItem(t)
        <4>1. note[t] /\ stopLeft > SendTime
          BY <2>2, <2>4, <3>3 DEF OnItsWay, TakeItem, Go
        <4>2. task'[t] = "send" /\ note' = note /\ left' = SendTime
          BY <1>0, <3>3 DEF TakeItem, Go
        <4>. QED
          BY <3>0, <4>1, <4>2 DEF OnItsWay
      <3>4. CASE Wake(t)
        <4>1. task'[t] = "poll"
          BY <1>0, <3>4 DEF Wake, Go
        <4>. QED
          BY <3>0, <4>1 DEF OnItsWay
      <3>5. CASE ExitNulls(t) \/ ExitDeletes(t)
        BY <1>0, <2>2, <2>4, <3>0, <3>5 DEF ExitNulls, ExitDeletes, Go, OnItsWay
      <3>. QED
        BY <1>2, <3>1, <3>2, <3>3, <3>4, <3>5 DEF Task
    <2>. QED
      BY <2>3, <2>4
  <1>3. CASE IsrLoads \/ IsrNotifies
    <2>1. UNCHANGED <<handle, budget, app, stopLeft, left, task>>
      BY <1>3 DEF IsrLoads, IsrNotifies, shared, thread, rtos
    <2>2. OnItsWay(handle) /\ handle \in TaskIds
      BY <1>0, <2>1 DEF Obliging
    <2>3. note[handle] => note'[handle]
      BY <1>0, <1>3, <2>2 DEF IsrLoads, IsrNotifies, Notify, rtos, NamedIsAlive
    <2>. QED
      BY <2>1, <2>2, <2>3 DEF OnItsWay
  (* Time passes only for a task in send(), and it has less of it to spend.    *)
  <1>4. CASE Tick
    <2>1. UNCHANGED <<handle, budget, app, task, note>>
      BY <1>4 DEF Tick, shared
    <2>2. OnItsWay(handle) /\ handle \in TaskIds
      BY <1>0, <2>1 DEF Obliging
    <2>3. Blocked(handle)
      BY <1>4, <2>2 DEF Tick
    <2>4. task[handle] = "send" /\ left > 0 /\ note[handle] /\ stopLeft > left
      BY <2>2, <2>3 DEF OnItsWay, Blocked
    <2>5. stopLeft' > left'
      BY <1>0, <1>4, <2>4 DEF Tick, Down
    <2>. QED
      BY <2>1, <2>4, <2>5 DEF OnItsWay
  <1>5. CASE UNCHANGED vars
    <2>1. UNCHANGED <<handle, budget, app, stopLeft, left, task, note>>
      BY <1>5 DEF vars, shared, thread, rtos
    <2>. QED
      BY <2>1 DEF Obliging, OnItsWay
  <1>. QED
    BY <1>1, <1>2, <1>3, <1>4, <1>5 DEF Next, AppStep

(* The loop of sleeps ends with task_ null before the time is up.             *)
LEMMA StopIsCooperativeStep ==
    ASSUME TypeOK, CoopInv, [Next]_vars
    PROVE  StopIsCooperative'
  <1>. SUFFICES ASSUME (budget > SendTime)', (app = "kill")'
                PROVE  FALSE
    BY DEF StopIsCooperative
  <1>. USE TimesAssumption DEF CoopInv
  <1>0. stopLeft \in Nat /\ left \in Nat /\ SendTime \in Nat
    BY DEF TypeOK
  <1>1. CASE AppStep
    <2>1. StopWaited \/ (UNCHANGED app /\ UNCHANGED budget)
      BY <1>1
         DEF AppStep, Starting, Begin, Create, CreateFails, StartRx, StartRxFails,
             UndoDetach, UndoTrx, Ending, End, EndTrx, EndDetach, Stop, StopNothing,
             StopRequest, StopNudge, StopKill, StopReturn, Calling, SendAsync,
             CallSend, CallOther, CallReturns, CallStop, TypeOK, thread
    <2>2. CASE StopWaited
      <3>1. handle # 0 /\ stopLeft = 0 /\ app = "waiting" /\ budget > SendTime
        BY <2>2 DEF StopWaited, shared
      <3>2. OnItsWay(handle)
        BY <3>1 DEF Obliging
      <3>. QED
        BY <1>0, <3>1, <3>2 DEF OnItsWay
    <2>3. CASE UNCHANGED app /\ UNCHANGED budget
      BY <2>3 DEF StopIsCooperative
    <2>. QED
      BY <2>1, <2>2, <2>3
  <1>2. ASSUME NEW t \in TaskIds, Task(t)
        PROVE  UNCHANGED <<app, budget>>
    BY <1>2 DEF Task, Test, QueueEmpty, TakeItem, TakeItemFails, SendOK, SendTimeout,
                Wake, PollReturns, Check, Restore, ExitNulls, ExitDeletes, thread,
                shared
  <1>3. CASE IsrLoads \/ IsrNotifies \/ Tick \/ UNCHANGED vars
    BY <1>3 DEF IsrLoads, IsrNotifies, Tick, vars, thread, shared, StopIsCooperative
  <1>. QED
    BY <1>1, <1>2, <1>3 DEF Next, AppStep, StopIsCooperative

(* Given a timeout longer than a send() of the pump, stop() never reaches its *)
(* vTaskDelete(): the task has ended by itself, whatever it was doing.        *)
THEOREM StopNeverKills == Spec => []StopIsCooperative
  <1>1. Init => CoopInv
    BY CoopInit
  <1>2. (TypeOK /\ PumpInv) /\ CoopInv /\ [Next]_vars => CoopInv'
    BY NamedIsAliveStep, SendIsTimedStep, RequestedStep, ObligingStep,
       StopIsCooperativeStep DEF CoopInv, PumpInv
  <1>3. CoopInv => StopIsCooperative
    BY DEF CoopInv
  <1>. QED
    BY <1>1, <1>2, <1>3, PumpAlways, PTL DEF Spec

=============================================================================
