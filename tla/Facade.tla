------------------------------- MODULE Facade -------------------------------
(***************************************************************************)
(* The LoRa facade and its RadioPumpTask on an ESP32: the application's     *)
(* thread (begin(), end(), send_async(), the forwarded calls), the FreeRTOS *)
(* pump task, and the DIO0 interrupt, which may run on the other core.      *)
(*                                                                          *)
(* The transceiver is reduced to its state_ and to who is inside it; module *)
(* Radio has its inside.  stop() runs on the application's thread and is    *)
(* broken up at every access to task_ and stop_requested_.  Time passes in  *)
(* units of stop()'s 10 ms sleep, and only while the pump task blocks: a    *)
(* turn of its loop outside send() and the notification wait takes none.    *)
(* A local that is not used any more goes back to its initial value.        *)
(***************************************************************************)
EXTENDS Integers, FiniteSets

CONSTANTS
  TaskIds,     \* task control blocks; two let an old task overlap a new one
  Depth,       \* cfg.pump.tx_queue_depth
  StopBudgets, \* the values of cfg.pump.stop_timeout_ms, in sleeps rounded up
  SendTime,    \* the 500 ms the pump gives send(), in sleeps
  Period,      \* the pump's notification timeout, in sleeps
  Options,     \* the sets of facade_auto_ options begin() is called with
  MaxCalls,    \* bound: forwarded calls made by the application in a behaviour
  SpiFaults    \* whether an SPI transfer may fail

ASSUME TasksAssumption == IsFiniteSet(TaskIds) /\ 0 \notin TaskIds
ASSUME QueueAssumption == Depth \in Nat \ {0}
ASSUME TimesAssumption ==
  StopBudgets \subseteq Nat /\ SendTime \in Nat /\ Period \in Nat
ASSUME OptionsAssumption == Options \subseteq SUBSET {"pump", "receive"}
ASSUME CallsAssumption == MaxCalls \in Nat /\ SpiFaults \in BOOLEAN

VARIABLES
  running,    \* facade: running_
  attached,   \* facade: attached_dio0_ >= 0
  auto,       \* facade: which of cfg.facade_auto_pump and _auto_start_receive
  state,      \* transceiver: state_
  app,        \* application thread: where it stands, "idle" between two calls
  after,      \* application thread: what follows the stop() it is in
  target,     \* application thread: stop()'s local `t`
  stopLeft,   \* application thread: the sleeps stop() has left
  calls,      \* environment: forwarded calls still to be made
  handle,     \* pump: task_, 0 for nullptr
  stopReq,    \* pump: stop_requested_
  pending,    \* pump: tx_pending_
  budget,     \* pump: stop_timeout_ms_, in sleeps
  queue,      \* pump: entries in tx_queue_
  task,       \* FreeRTOS: where each task stands, "none" when deleted
  note,       \* FreeRTOS: each task's notification
  left,       \* FreeRTOS: the sleeps until the blocked task's timeout
  isr         \* interrupt: the handle it has loaded, 0 outside it

facade == <<running, attached, auto>>
thread == <<app, after, target, stopLeft, calls>>
shared == <<handle, stopReq, pending, budget, queue>>
rtos == <<task, note, left>>
vars == <<facade, state, thread, shared, rtos, isr>>

(* Rx stands for RxContinuous, RxSingle and Cad, which the pump does not tell *)
(* apart.                                                                     *)
States == {"Uninit", "Sleep", "Standby", "Tx", "Rx"}
Inside == {"send", "poll", "restore"}     \* task places inside the transceiver
Alive == {"test", "queue", "wait", "check", "exit"} \cup Inside
Stopping == {"nudge", "waiting", "kill", "stopped"}
Dismantling == {"endTrx", "endDetach", "undoDetach", "undoTrx"}
AppInside == {"rx", "call", "appSend", "endTrx", "undoTrx"}

Fault == SpiFaults

---------------------------------------------------------------------------
(* RadioPumpTask::stop(), on the application's thread *)

CallStop(next) == app' = "stop" /\ after' = next

(* No task: nothing is done, stop_requested_ and tx_pending_ stay as they are. *)
StopNothing == /\ app = "stop" /\ handle = 0
               /\ app' = after /\ after' = "idle"
               /\ UNCHANGED <<facade, state, target, stopLeft, calls, shared,
                              rtos, isr>>

StopRequest == /\ app = "stop" /\ handle # 0
               /\ target' = handle
               /\ stopReq' = TRUE
               /\ app' = "nudge"
               /\ UNCHANGED <<facade, state, after, stopLeft, calls, handle,
                              pending, budget, queue, rtos, isr>>

(* Giving a notification wakes a task that exists. *)
Notify(t) == note' = [note EXCEPT ![t] = task[t] # "none"]

(* Slip: the task is left to find out by itself. *)
StopWithoutNudge == /\ app = "nudge" /\ app' = "waiting"
                    /\ target' = 0
                    /\ stopLeft' = budget
                    /\ UNCHANGED <<facade, state, after, calls, shared, rtos, isr>>

StopNudge == /\ app = "nudge" /\ app' = "waiting"
             /\ Notify(target)
             /\ target' = 0
             /\ stopLeft' = budget
             /\ UNCHANGED <<facade, state, after, calls, shared, task, left, isr>>

(* Slip: stop() does not wait for the task to end. *)
StopWaitNot == /\ app = "waiting"
               /\ app' = "stopped"
               /\ UNCHANGED <<facade, state, after, target, stopLeft, calls,
                              shared, rtos, isr>>

(* Slip: out of time, the task is deleted without looking at task_ again. *)
StopWaitedBlindly == /\ app = "waiting"
                     /\ handle = 0 \/ stopLeft = 0
                     /\ app' = IF stopLeft > 0 THEN "stopped" ELSE "kill"
                     /\ stopLeft' = 0
                     /\ UNCHANGED <<facade, state, after, target, calls, shared,
                                    rtos, isr>>

(* The loop of vTaskDelay(10 ms) ends: the task is gone or the time is up. *)
StopWaited == /\ app = "waiting"
              /\ handle = 0 \/ stopLeft = 0
              /\ app' = IF handle = 0 THEN "stopped" ELSE "kill"
              /\ stopLeft' = 0
              /\ UNCHANGED <<facade, state, after, target, calls, shared, rtos,
                             isr>>

(* vTaskDelete(task_): task_ is loaded again.  A task that has nulled it     *)
(* since makes this vTaskDelete(nullptr), which deletes the caller.          *)
StopKill == /\ app = "kill"
            /\ IF handle = 0
               THEN app' = "dead" /\ UNCHANGED <<task, handle>>
               ELSE /\ app' = "stopped"
                    /\ task' = [task EXCEPT ![handle] = "none"]
                    /\ handle' = 0
            /\ left' = 0
            /\ UNCHANGED <<facade, state, after, target, stopLeft, calls,
                           stopReq, pending, budget, queue, note, isr>>

StopReturn == /\ app = "stopped"
              /\ stopReq' = FALSE
              /\ pending' = FALSE
              /\ app' = after /\ after' = "idle"
              /\ UNCHANGED <<facade, state, target, stopLeft, calls, handle,
                             budget, queue, rtos, isr>>

Stop == StopNothing \/ StopRequest \/ StopNudge \/ StopWaited \/ StopKill \/ StopReturn

---------------------------------------------------------------------------
(* LoRa::begin() *)

(* validate(), the SPI bus and trx_.begin(); then the interrupt is attached. *)
(* A begin() that fails here leaves everything as it was.  Without "pump" it *)
(* is also the begin() of the Arduino builds that have none.                 *)
Begin == /\ app = "idle" /\ ~running
         /\ state' = "Standby"
         /\ attached' = TRUE
         /\ auto' \in Options
         /\ IF "pump" \in auto' THEN CallStop("create")
                                ELSE app' = "rx" /\ UNCHANGED after
         /\ UNCHANGED <<running, target, stopLeft, calls, shared, rtos, isr>>

(* pump_.start(), after its stop(): the handle is stored before the new task *)
(* can run.                                                                  *)
Create == /\ app = "create" /\ app' = "rx"
          /\ budget' \in StopBudgets
          /\ \E t \in TaskIds :
               /\ task[t] = "none"
               /\ task' = [task EXCEPT ![t] = "test"]
               /\ note' = [note EXCEPT ![t] = FALSE]
               /\ handle' = t
          /\ UNCHANGED <<facade, state, after, target, stopLeft, calls, stopReq,
                         pending, queue, left, isr>>

CreateFails == /\ app = "create" /\ app' = "undoDetach"
               /\ budget' \in StopBudgets
               /\ UNCHANGED <<facade, state, after, target, stopLeft, calls,
                              handle, stopReq, pending, queue, rtos, isr>>

(* trx_.start_receive(true), with the pump task already running. *)
StartRx == /\ app = "rx" /\ app' = "idle"
           /\ IF "receive" \in auto THEN state' = "Rx" ELSE UNCHANGED state
           /\ running' = TRUE
           /\ UNCHANGED <<attached, auto, after, target, stopLeft, calls, shared,
                          rtos, isr>>

(* Slip: the pump task is forgotten when the reception cannot be started. *)
StartRxForgetsPump == /\ app = "rx" /\ "receive" \in auto /\ Fault
                      /\ app' = "undoDetach"
                      /\ UNCHANGED <<facade, state, after, target, stopLeft,
                                     calls, shared, rtos, isr>>

StartRxFails == /\ app = "rx" /\ "receive" \in auto /\ Fault
                /\ CallStop("undoDetach")
                /\ UNCHANGED <<facade, state, target, stopLeft, calls, shared,
                               rtos, isr>>

UndoDetach == /\ app = "undoDetach" /\ app' = "undoTrx"
              /\ attached' = FALSE
              /\ UNCHANGED <<running, auto, state, after, target, stopLeft, calls,
                             shared, rtos, isr>>

UndoTrx == /\ app = "undoTrx" /\ app' = "idle"
           /\ state' = "Uninit"
           /\ UNCHANGED <<facade, after, target, stopLeft, calls, shared, rtos, isr>>

Starting == \/ Begin \/ Create \/ CreateFails \/ StartRx \/ StartRxFails
            \/ UndoDetach \/ UndoTrx

---------------------------------------------------------------------------
(* LoRa::end(): the pump, the transceiver, and only then the interrupt. *)

(* Slip: the transceiver is ended under the running pump. *)
EndForgetsPump == /\ app = "idle" /\ running
                  /\ app' = "endTrx"
                  /\ UNCHANGED <<facade, state, after, target, stopLeft, calls,
                                 shared, rtos, isr>>

End == /\ app = "idle" /\ running
       /\ CallStop("endTrx")
       /\ UNCHANGED <<facade, state, target, stopLeft, calls, shared, rtos, isr>>

EndTrx == /\ app = "endTrx" /\ app' = "endDetach"
          /\ state' = "Uninit"
          /\ UNCHANGED <<facade, after, target, stopLeft, calls, shared, rtos, isr>>

EndDetach == /\ app = "endDetach" /\ app' = "idle"
             /\ attached' = FALSE
             /\ running' = FALSE
             /\ UNCHANGED <<auto, state, after, target, stopLeft, calls, shared, rtos, isr>>

Ending == End \/ EndTrx \/ EndDetach

---------------------------------------------------------------------------
(* The calls of a running facade *)

(* Slip: the queue takes more than it was created for. *)
SendAsyncUnbounded == /\ app = "idle" /\ handle # 0
                      /\ queue' = queue + 1
                      /\ UNCHANGED <<facade, state, thread, handle, stopReq,
                                     pending, budget, rtos, isr>>

(* send_async(): refused when there is no task or the queue is full. *)
SendAsync == /\ app = "idle" /\ handle # 0
             /\ queue < Depth
             /\ queue' = queue + 1
             /\ UNCHANGED <<facade, state, thread, handle, stopReq, pending,
                            budget, rtos, isr>>

(* send() holds state_ at Tx until it returns; the other forwarded calls,    *)
(* and poll(), which an application without pump calls itself, may set       *)
(* state_ when they are done.                                                *)
CallSend == /\ app = "idle" /\ running /\ calls > 0
            /\ app' = "appSend" /\ state' = "Tx"
            /\ calls' = calls - 1
            /\ UNCHANGED <<facade, after, target, stopLeft, shared, rtos, isr>>

CallOther == /\ app = "idle" /\ running /\ calls > 0
             /\ app' = "call"
             /\ calls' = calls - 1
             /\ UNCHANGED <<facade, state, after, target, stopLeft, shared, rtos, isr>>

CallReturns == /\ \/ app = "appSend" /\ state' = "Standby"
                  \/ app = "call" /\ state' \in {"Sleep", "Standby", "Rx"}
               /\ app' = "idle"
               /\ UNCHANGED <<facade, after, target, stopLeft, calls, shared,
                              rtos, isr>>

Calling == SendAsync \/ CallSend \/ CallOther \/ CallReturns

---------------------------------------------------------------------------
(* RadioPumpTask::task_entry() *)

Go(t, from, to) == task[t] = from /\ task' = [task EXCEPT ![t] = to]

Test(t) == /\ Go(t, "test", IF handle # 0 /\ ~stopReq THEN "queue" ELSE "exit")
           /\ UNCHANGED <<facade, state, thread, shared, note, left, isr>>

(* Blocks in ulTaskNotifyTake(). *)
Sleeps(t) == task' = [task EXCEPT ![t] = "wait"] /\ left' = Period

QueueEmpty(t) == /\ task[t] = "queue" /\ (pending \/ queue = 0)
                 /\ Sleeps(t)
                 /\ UNCHANGED <<facade, state, thread, shared, note, isr>>

TakeItem(t) == /\ ~pending /\ queue > 0
               /\ Go(t, "queue", "send")
               /\ queue' = queue - 1
               /\ pending' = TRUE
               /\ state' = "Tx"
               /\ left' = SendTime
               /\ UNCHANGED <<facade, thread, handle, stopReq, budget, note, isr>>

(* send() fails before it transmits: tx_pending_ is reset. *)
TakeItemFails(t) == /\ Fault
                    /\ task[t] = "queue" /\ ~pending /\ queue > 0
                    /\ queue' = queue - 1
                    /\ state' \in {state, "Standby"}
                    /\ Sleeps(t)
                    /\ UNCHANGED <<facade, thread, handle, stopReq, pending, budget,
                                    note, isr>>

SendOK(t) == /\ task[t] = "send"
             /\ state' = "Standby"
             /\ Sleeps(t)
             /\ UNCHANGED <<facade, thread, shared, note, isr>>

(* send() returns TxTimeout: tx_pending_ is reset, so that nothing restores  *)
(* the reception.                                                            *)
SendTimeout(t) == /\ task[t] = "send" /\ left = 0
                  /\ state' = "Standby"
                  /\ pending' = FALSE
                  /\ Sleeps(t)
                  /\ UNCHANGED <<facade, thread, handle, stopReq, budget, queue,
                                  note, isr>>

(* ulTaskNotifyTake() returns: notified, or after the period. *)
Wake(t) == /\ note[t] \/ left = 0
           /\ Go(t, "wait", "poll")
           /\ note' = [note EXCEPT ![t] = FALSE]
           /\ left' = 0
           /\ UNCHANGED <<facade, state, thread, shared, isr>>

(* trx_->poll(): no event changes Standby, Tx or RxContinuous, until a        *)
(* forwarded call has started a single reception or CAD, whose end sets       *)
(* Standby whatever state_ is by then.                                        *)
PollReturns(t) == /\ Go(t, "poll", "check")
                  /\ UNCHANGED state \/ (calls < MaxCalls /\ state' = "Standby")
                  /\ UNCHANGED <<facade, thread, shared, note, left, isr>>

(* Slip: tx_pending_ is reset only where the reception is restored. *)
CheckStandbyOnly(t) == LET restore == pending /\ state = "Standby" IN
            /\ Go(t, "check", IF restore THEN "restore" ELSE "test")
            /\ pending' = (pending /\ ~restore)
            /\ UNCHANGED <<facade, state, thread, handle, stopReq, budget, queue,
                           note, left, isr>>

(* After a transmission the reception is restored, from Standby only. *)
Check(t) == /\ Go(t, "check",
                  IF pending /\ state = "Standby" THEN "restore" ELSE "test")
            /\ pending' = (pending /\ state = "Tx")
            /\ UNCHANGED <<facade, state, thread, handle, stopReq, budget, queue,
                           note, left, isr>>

Restore(t) == /\ Go(t, "restore", "test")
              /\ state' = "Rx" \/ (Fault /\ UNCHANGED state)
              /\ UNCHANGED <<facade, thread, shared, note, left, isr>>

(* task_ = nullptr; then vTaskDelete(nullptr). *)
ExitNulls(t) == /\ Go(t, "exit", "leaving")
                /\ handle' = 0
                /\ UNCHANGED <<facade, state, thread, stopReq, pending, budget,
                               queue, note, left, isr>>

ExitDeletes(t) == /\ Go(t, "leaving", "none")
                  /\ note' = [note EXCEPT ![t] = FALSE]
                  /\ UNCHANGED <<facade, state, thread, shared, left, isr>>

Task(t) == \/ Test(t) \/ QueueEmpty(t) \/ TakeItem(t) \/ TakeItemFails(t)
           \/ SendOK(t) \/ SendTimeout(t) \/ Wake(t) \/ PollReturns(t)
           \/ Check(t) \/ Restore(t) \/ ExitNulls(t) \/ ExitDeletes(t)

---------------------------------------------------------------------------
(* The trampoline: handle_interrupt(), then notify_from_isr(), which loads   *)
(* task_ and only then notifies.                                             *)

IsrLoads == /\ attached /\ isr = 0 /\ handle # 0
            /\ isr' = handle
            /\ UNCHANGED <<facade, state, thread, shared, rtos>>

IsrNotifies == /\ isr # 0 /\ isr' = 0
               /\ Notify(isr)
               /\ UNCHANGED <<facade, state, thread, shared, task, left>>

---------------------------------------------------------------------------
(* A sleep of 10 ms goes by: only blocked tasks let it. *)

Blocked(t) == \/ task[t] = "none"
              \/ task[t] = "send" /\ left > 0
              \/ task[t] = "wait" /\ left > 0 /\ ~note[t]

Down(n) == IF n > 0 THEN n - 1 ELSE 0

Tick == /\ \A t \in TaskIds : Blocked(t)
        /\ left > 0 \/ stopLeft > 0
        /\ left' = Down(left)
        /\ stopLeft' = Down(stopLeft)
        /\ UNCHANGED <<facade, state, app, after, target, calls, shared, task,
                       note, isr>>

---------------------------------------------------------------------------
Init == /\ running = FALSE /\ attached = FALSE /\ state = "Uninit"
        /\ auto \in Options
        /\ app = "idle" /\ after = "idle" /\ target = 0 /\ stopLeft = 0
        /\ calls = MaxCalls
        /\ handle = 0 /\ stopReq = FALSE /\ pending = FALSE /\ queue = 0
        /\ budget \in StopBudgets
        /\ task = [t \in TaskIds |-> "none"]
        /\ note = [t \in TaskIds |-> FALSE]
        /\ left = 0 /\ isr = 0

Next == \/ Starting \/ Ending \/ Stop \/ Calling
        \/ \E t \in TaskIds : Task(t)
        \/ IsrLoads \/ IsrNotifies
        \/ Tick

Spec == Init /\ [][Next]_vars

(* FreeRTOS runs whoever is ready and the clock goes on; the application     *)
(* finishes a call it is in, but need not make another.                      *)
InCall == \/ Stop \/ Create \/ CreateFails \/ StartRx \/ StartRxFails \/ UndoDetach
          \/ UndoTrx \/ EndTrx \/ EndDetach \/ CallReturns

Fairness == /\ WF_vars(InCall) /\ WF_vars(Tick) /\ WF_vars(IsrNotifies)
            /\ \A t \in TaskIds : WF_vars(Task(t))

FairSpec == Spec /\ Fairness

---------------------------------------------------------------------------
(* Properties *)

TypeOK == /\ running \in BOOLEAN /\ attached \in BOOLEAN
          /\ auto \in Options
          /\ state \in States
          /\ app \in {"idle", "stop", "create", "dead"} \cup Stopping
                     \cup Dismantling \cup AppInside
          /\ after \in {"idle", "create", "undoDetach", "endTrx"}
          /\ target \in TaskIds \cup {0} /\ stopLeft \in Nat
          /\ calls \in 0 .. MaxCalls
          /\ handle \in TaskIds \cup {0}
          /\ stopReq \in BOOLEAN /\ pending \in BOOLEAN
          /\ budget \in StopBudgets /\ queue \in 0 .. Depth
          /\ task \in [TaskIds -> Alive \cup {"leaving", "none"}]
          /\ note \in [TaskIds -> BOOLEAN]
          /\ left \in Nat
          /\ isr \in TaskIds \cup {0}

(* The pump is gone before the transceiver is ended, in end() and on both    *)
(* error paths of begin(): no task is left that could enter it, or start     *)
(* another turn of its loop, while the driver is being taken down.           *)
PumpGoneFirst == app \in Dismantling => \A t \in TaskIds : task[t] \notin Alive

(* Stopping and starting, however they overlap with a task on its way out,   *)
(* leave at most one task in the pump loop, and it is the one task_ names.   *)
OnePump == \A t \in TaskIds : task[t] \in Alive => handle = t

(* "tear down to avoid a half-initialised facade" (begin()): a facade that   *)
(* is not running has no interrupt attached, no pump, and no transceiver.    *)
NotHalfInitialised ==
    app = "idle" /\ ~running => ~attached /\ handle = 0 /\ state = "Uninit"

(* stop() is cooperative: given a timeout longer than a send() of the pump,  *)
(* it never deletes the task itself, whatever the task is doing when it is   *)
(* asked, also when it sleeps for longer than that.                          *)
StopIsCooperative == budget > SendTime => app # "kill"

(* A full queue is drained again, or the pump stopped: neither failed sends  *)
(* nor forwarded calls that change state_ under it leave tx_pending_ set.    *)
QueueMoves == queue = Depth ~> queue < Depth \/ handle = 0

(* Every call comes back: end() and begin() are not held up by the pump,     *)
(* unless a stop() that has run out of time deletes its own caller.          *)
CallsReturn == app # "idle" ~> app = "idle" \/ (app = "dead" /\ budget <= SendTime)

(* "The pump task auto-switches the radio from RX to TX, transmits, then     *)
(* restores RX continuous mode" (USAGE.md): after a transmission of the pump *)
(* the radio receives again.                                                 *)
AsyncRestoresRx == (\E t \in TaskIds : task[t] = "send") ~> state = "Rx" \/ ~running
=============================================================================
