# LoRaDriver in TLA+

LoRaDriver drives Semtech SX1276/77/78/79 LoRa chips over SPI from Arduino and
ESP32 boards. This directory holds its specifications, the TLC configurations
that check them on small instances, and proofs checked by TLAPS. Paths below are
relative to the repository; line numbers of each definition are in
`PROJECT.json`.

## 1. The system

| Part | Code | State it keeps | Operations | Talks to |
|---|---|---|---|---|
| IRQ marker ring | `src/chips/sx127x/sx127x_driver.cpp` 678-719 | `irq_head_`, `irq_tail_`, `irq_overflows` | `handle_interrupt()` pushes, `process_events()` pops | shared by the DIO0 interrupt and the radio thread, no lock |
| Driver event path | same file, 569-661, 688-775 | `tx_in_progress_`, two deadlines, `cad_auto_rx_`, the chip's mode and flags | `start_transmit/receive/cad`, `process_events()` | chip over SPI; emits events to the transceiver by callback |
| Packet read path | same file, 626-661, 731-746 | the chip's FIFO and packet registers | the reads of `process_events()`, `read_packet()` | chip over SPI; fills the transceiver's `rx_buf_` |
| Transceiver | `src/api/lora_transceiver.cpp` | `state_`, `rx_continuous_`, `rx_buf_`, the user's callbacks | `begin/end`, `send` (blocking), `start_receive`, `start_cad`, `set_sleep/standby`, `poll` | calls the driver, receives its events, calls the user |
| Register configuration | driver, 130-552, 777-800 | `cfg_`, the register file | `begin()`, runtime setters, `apply_*` | SPI, any transfer of which may fail |
| `LoRaConfig` | `src/api/lora_config.cpp` | none | `validate()`, `ldro_required()` | |
| Pump task | `src/loradriver/platform/esp32/radio_pump_task.hpp` | `task_`, `stop_requested_`, `tx_pending_`, `tx_queue_` | `start`, `stop`, `enqueue_packet`, the task's loop, `notify_from_isr` | polls the transceiver from its own FreeRTOS task |
| Facade | `src/api/lora_facade.cpp` | `running_`, `attached_dio0_`, `instance_` | `begin/end`, sends, forwarded calls, ISR trampoline | starts and stops the pump, attaches the interrupt |

Left out as whole parts: the SPI classes (pure I/O), error strings, version and
presets (tables), host stubs, examples.

What makes it hard:

- the interrupt races the thread without a lock, and with the facade's defaults
  two threads are inside one transceiver: `loop()` in `send()`, the pump in
  `poll()`, in a `send()` of its own or in `start_receive()`;
- DIO0 is edge triggered while `RegIrqFlags` is read and cleared in two
  transfers, and flags, metrics, address, length and bytes of a packet in one
  transfer each;
- two watchdogs and a blocking loop compare the same 32-bit clock;
- user callbacks run inside `process_events()`, and may call back into it;
- the pump task is stopped cooperatively, with a time budget and a forced
  deletion;
- any SPI transfer of a sequence may fail, and the microcontroller may restart
  while the chip goes on.

`PROJECT.json` lists these hazards at their lines, with the properties that
would catch each, or the reason why none does.

What makes each part correct:

- ring: no interrupt is forgotten although markers are dropped; the ring is a
  bounded box of markers;
- driver and transceiver: the radio never goes deaf; no transmission is left
  behind or reported that did not happen; `send()` returns; the state machine
  follows the chip; the silence watchdog belongs to continuous reception; no
  timeout is early or late; after `end()` nothing more happens;
- packets: what `on_receive` gets is one good packet, whole, and, while no
  transfer fails, once;
- registers: `cfg_` tells the truth, the current limit follows the power, the
  errata registers follow the bandwidth;
- pump and facade: one pump at most, gone before the transceiver is ended; no
  half-initialised facade; every call returns; the queue moves.

## 2. The modules

| Module | Models | Grain |
|---|---|---|
| `Mailbox` | what the ring promises: `Put`, `Drop`, `Take` on a marker count | abstract specification |
| `IrqRing` | the ring between interrupt and thread | one access to a volatile index per action |
| `Radio` | chip, driver and transceiver in one session | `process_events()` broken up wherever interrupt, chip or clock can get in between |
| `Threads` | `loop()` and the pump task inside one transceiver | one SPI transfer or one access to a shared field per action |
| `Packets` | from the FIFO to `on_receive` | one SPI transfer per action |
| `Callbacks` | user callbacks that call back | one call stack; a frame does in one action what it does between two callbacks |
| `Clock` | the three deadlines on the wrapping clock | one test of the clock per action |
| `Facade` | application thread, pump task(s), interrupt | one access to `task_`/`stop_requested_` per action in `stop()` and in the task's loop |
| `Registers`, `MCRegisters` | `begin()` and setters as programs of register writes | one call per action; a failed one has executed a prefix |
| `IrqRingProofs`, `RadioProofs`, `ThreadsProofs`, `PacketsProofs`, `CallbacksProofs`, `ClockProofs`, `FacadeProofs`, `RegistersProofs` | theorems about the module of that name | |

How they fit together. `IrqRing` implements `Mailbox` (checked and proved);
`Radio` and `Packets` use the mailbox's count (`markers`) instead of the
indices, because they ask about flags and modes, not about memory accesses.
`Threads` has the indices again, since two threads that pop are not what the
ring was made for. `Radio` is the transceiver as its documentation wants it,
one thread and callbacks that return; each of `Threads`, `Packets`, `Callbacks`
and `Clock` takes one of its simplifications back and keeps the others:

| | threads | callbacks | clock | packet contents |
|---|---|---|---|---|
| `Radio` | one | return | time left until a deadline | none |
| `Threads` | two | return | a deadline is over or not | one bit: whose payload |
| `Packets` | one | return | none | bytes, metrics, CRC |
| `Callbacks` | one | make any call | a deadline is over or not | a name |
| `Clock` | one | return | modulo `W`, every test a read of its own | none |

`Facade` reduces the transceiver to `state_` and to who is inside it; `Radio`
shows that a poll changes `Uninit`, `Standby`, `Tx` and `RxContinuous` to
nothing else before a single reception or CAD has been started (proved:
`PollsKeepState`, for histories without a failed transfer). In `Facade`
only a forwarded call can start one, and from then on a poll may set Standby
whatever `state_` is by then; `Rx` stands for `RxContinuous`, `RxSingle` and
`Cad`. Operators are named after the functions and fields they model; actions
ending in `Fails` are the error paths. A definition whose comment begins with
*Slip* belongs to no specification: it is a plausible bug, kept beside the
definition it would spoil, to confirm that the properties notice it.

`IrqRing`. `isr` and `drain` are the program counters. `owed` is a history
variable: set by an interrupt, cleared by the next read of `RegIrqFlags`.
`Spec` is an initialised driver; `LifeSpec` adds `end()` and `begin()`, with the
interrupt still attached while `end()` empties the ring, as in `LoRa::end()`.

`Radio`. The chip is external: it raises flags and falls back to Standby by
itself, and owes nothing. `edge` is a rising edge of DIO0 whose interrupt has
not run. A deadline is the time left until it. An API call that programs the
chip is one action, since the chip is in Standby until the call's last write;
`start_cad()` has no Standby, and `LastEvent` is what may come in between.
Failing transfers are spent from `faults`; `set_op_mode()`'s read-back makes the
difference between a mode change that failed and one that took place and is
reported as failed. `fired` and `air` are history: whether the watchdog fired
during this `send()`, and what became of its packet. `ValidHeader` has no state
behind it and is there for what a clear that answers it can wipe.

`Threads`. Every operator of `send()`, `start_receive()` and `process_events()`
takes the thread it runs in, since the pump makes the same calls as `loop()`: it
polls, sends the packets that `send_async()` has queued and restores reception
after them (`PumpThread`; `pc` "take", "restore" and "queue" are its places
between those calls). `setup` is where the pump task is pinned. On `loop()`'s
core (the default) it has the higher priority, so `loop()` runs only while the
pump waits for its notification; on the other core both run freely. `ptr` is the
FIFO half `RegFifoAddrPtr` points into, `loaded` whether the TX half holds what
`loop()`'s `send()` was given, `owner` the thread that stored the deadline.

`Packets`. A byte is a packet's number and its position; `fifo`, `ptr` and
`last` are the chip's, `read` is what the driver has read so far of one packet.
`log` is history: the deliveries. So is `strayed`: whether a packet, received
or sent, has left its half of the FIFO; `Apart`, the condition of `Whole`, is
that this has not happened beside a transmission.

`Callbacks`. `stack` is the thread's call stack. What a frame does after a
callback has returned is an action of its own, taken in whatever state the
callback left. Polling mode only, so that no interrupt is needed.

`Clock`. `gap` is the time since the thread's last step; `time` counts without
wrapping, and the properties compare `now`'s reports with it.

`Facade`. Time passes in sleeps of `stop()` (10 ms) and only while the pump
blocks, so that a turn of the pump's loop takes none of it. FreeRTOS is external:
a notification, a blocking take with a timeout, deletion. `TaskIds` with two
elements lets a task on its way out overlap its successor. `auto` is which of
`facade_auto_pump` and `facade_auto_start_receive` the session was begun with;
without the first the model is also that of the Arduino builds that have no
pump.

`Registers`. A program is a sequence of partial assignments; `Written(r, p, n)`
is the register file after the first `n` of them, each field as its last write
left it. `dirty` is history: the register groups whose last setter failed. The
setters take any frequency, bandwidth and power, as the code does: `RegFrf`
keeps 24 bits, RFO the low four bits of the power (18 dBm is sent with 2),
PA_BOOST the nearest power it has, and a bandwidth the chip does not have is
programmed as 125 kHz, with the low data rate optimisation of the one that was
asked for. All of these return OK. `set_frequency()` does not touch the
registers of erratum 2.1. `ConfigIsProgrammed` compares everything else, and
names these as its exceptions: it compares frequencies that fit, powers the
output has, the LDRO of bandwidths the chip has, and erratum 2.1 for an
application that does not cross 525 MHz. `Restart` is a restart of the
microcontroller beside a chip that keeps its registers; with `auto_reset` off
`begin()` then finds them. Of the image calibration only the frequency it is
done at is kept.

## 3. The runs

| Run | Question | Bounds, and why they are enough |
|---|---|---|
| `RingIsr` | is the ring a lossless mailbox, and is every interrupt answered? | the real size, 16; the overflow counter wraps at 3, so the wrap happens |
| `RingLife` | are wakeups kept with two producers and across sessions? | size 4: full, empty and wrapped rings occur; the proof covers every size |
| `RadioIsr` | can the radio go deaf, or receive without its watchdog? | ring of 2 markers (overflow occurs), timeouts of 1 ms, one failing transfer, all calls, clock free to run |
| `RadioPoll` | does `send()` leave something behind, claim too much, or not return? does `state()` follow the chip? is the end of a single reception noticed? | polling, all calls, packets with and without CRC errors, headers read before their packet ends, one failing transfer, a chip that may never answer; timeout 1 ms, so watchdog, TxDone and the deadline meet in every order |
| `Threads` | what is left of that with the pump in the same driver? | ring of 2 slots, one packet, one `send()` and one `send_async()` on one core, one of the two on the other core: both threads can be at every pair of places on one core (287 thousand states; two of each on one core pass too, in 1.4 million states). `ThreadsApart` has both sends at once on two cores; the proofs cover every ring size and number of calls |
| `Packets` | is what `on_receive` gets one good packet, and does each arrive? | FIFO of 4 bytes for 256; packets of 0, 1 and 3 bytes, the last longer than half the FIFO; two packets, one `send()`, one failing transfer; both modes |
| `Callbacks` | what do `end()` and `send()` promise to callbacks that call back? | every call from every callback, three calls and one packet: two nested calls under the application's own |
| `Clock` | is a timeout early, late, or reported twice? | clock of 32 values, started at 0 and 5 ms before its wrap; steps of up to 2 ms; 20 ms; the proofs cover every width |
| `Facade` | start, stop, sends and interrupts against each other | two tasks, queue of 2, stop budgets of 1 and 2 sleeps on both sides of a send time of 1, pump period of 3 (longer than both), one forwarded call per behaviour, failing transfers; without pump, without reception, with both |
| `Registers` | do `cfg_` and the chip agree, in what is sent too? | one SPI failure anywhere, restarts; two valid configurations that differ in every field a register depends on, and three that `begin()` rejects; SF 6 and 11 and bandwidths 125 and 500 kHz (LDRO on and off, both errata), 14 and 18 dBm, both outputs (18 dBm on RFO is the power that does not fit); one frequency to set, 930 MHz, which is more than 5% away from the configurations' 868 MHz and, set again, not (two setter frequencies cost minutes and add no case; the proof covers all) |

Each property of these runs has a mutation of one mapped definition that makes
it fail (`mutants`). Two runs show what the repository says and the code does
not do (`findings` quotes the lines):

| Run | The document | What the code does |
|---|---|---|
| `RadioLateWatchdog` | `send()` returns `TxTimeout` when `TxDone` does not come (`USAGE.md:141`) | returns `OK`: the watchdog ends the loop first |
| `ThreadsStaleDeadline` | `send()` returns when `TxDone` fires or the timeout expires (`lora_transceiver.hpp:74`) | the pump's watchdog reads `tx_in_progress_` before its deadline is stored, and gives up a packet that has just gone on the air; `send()` returns `OK` at once |

`ThreadsApart` is the one configuration beside the runs that passes: `send()` on
one core and the pump's own `send()` on the other, with `TypeOK`, `NoDeafLine`
and `NoOrphanTx` (1.4 million states).

The remaining configurations are kept to reproduce counterexamples
(`tlc -config X.cfg M`); each checks one property, named in the file, which TLC
finds violated:

| Configuration | What is written, or could be expected | What the code does |
|---|---|---|
| `RadioSilenceAnywhere` | the silence timeout is for RX_CONTINUOUS (`lora_config.hpp:54-57`) | it fires in any mode reached from there and forces Standby |
| `RadioStaleDone` | an OK of `send()` that is not the watchdog's means its packet was sent | with interrupts not always: a packet that ends as the watchdog fires, with its interrupt late, leaves its TxDone latched and a marker behind; `start_transmit()` does not clear the flags, and the next `send()` returns OK on it with its packet on the air |
| `RadioRxSingleStuck` | `RX_SINGLE` ends on RxTimeout (rewrite design, line 436) | with interrupts RxTimeout is not mapped to DIO0, and nobody reads it |
| `RadioRxSingleLost` | the same | polled, a read that sees the header alone is followed by the clear of all flags, which wipes the RxDone raised in between. A CRC error is the other way: it emits only `RxCrcError`, which `on_driver_event()` ignores. `state()` stays `RxSingle` |
| `FacadeNoRestore` | the pump restores reception after a transmission (`USAGE.md:50-51`) | not after one that fails |
| `RegistersWave` | `set_standby()` ends continuous-wave mode (`radio_driver.hpp:57-58`) | the chip stays configured for it; the next packet is sent as a wave |
| `RegistersCalibration` | the image is recalibrated when the frequency is more than 5% from the calibrated one (`sx127x_driver.cpp:441-442`) | the comparison is with the last frequency, and `begin()` calibrates before it programs its own |
| `RegistersPower` | `cfg_` holds the power in use | `set_tx_power(18, Rfo)` succeeds, and 2 dBm are sent |
| `RegistersBand` | high bandwidth optimisation at 500 kHz in the high band (`sx127x_driver.cpp:224`) | `set_frequency()` crosses 525 MHz without applying it |
| `ThreadsFifoPointer` | `send()` transmits its payload | with the pump on the other core its `read_packet()` can move `RegFifoAddrPtr` between `send()`'s pointer and its burst |
| `ThreadsQueuedPointer` | the same | on one core too, once `send_async()` is used: the pump wakes between pointer and burst, sends its own packet, and leaves `RegFifoAddrPtr` behind it |
| `PacketsStomp` | TX and RX halves "cannot stomp each other" (`sx127x_driver.cpp:361-362`) | a reception longer than 128 bytes runs into the TX half, and its delivery holds bytes of ours |
| `PacketsCrc` | `crc_valid` is true if the packet CRC matched (`lora_packet.hpp:18`) | if a corrupted packet ends between the flags and the length, it is delivered as valid |
| `PacketsMetrics` | metadata belongs to the payload (`lora_packet.hpp:8`) | two packets in quick succession mix them |
| `PacketsPolled` | polling works without a GPIO (`docs/api.md:140-142`) | a clear that follows a read of `ValidHeader` alone wipes the RxDone raised in between: the packet is lost |
| `CallbacksEnd` | `end()` puts the chip to sleep and returns the FSM to `Uninit` (`docs/api.md:84-85`) | called from a callback of `send()`, the frames below set Standby again |
| `CallbacksBuffer` | the payload lives as long as the callback (`USAGE.md:60`) | a `send()` in it polls, and a packet that arrives overwrites `rx_buf_` |
| `CallbacksRestart` | reception lasts until it is changed (`lora_transceiver.hpp:83`) | restarted from the silence watchdog's event it is stopped by the statement after the event |
| `CallbacksState` | `state()` is the current state (`lora_transceiver.hpp:105`) | a reception started by a callback of CadDone is overwritten with Standby |
| `CallbacksReply` | `send()` returns when TxDone fires | a reply sent from a callback inside another `send()` takes that one's flag: its OK is for a packet that was cut |
| `ClockEarly` | `timeout_ms` is the total budget (`lora_transceiver.hpp:77`) | a deadline that wraps is in the past at once |
| `ClockStuck` | the same | a thread that misses the last millisecond before the wrap waits for 49 days |
| `ClockDisarmed` | silence is reported (`lora_config.hpp:54-57`) | a silence deadline that comes out as 0 means disarmed |

Deadlock is checked everywhere except in the `Facade` configurations, where the
application thread can be deleted (see `StopKill`) and the rest then really
stops.

### Assumptions about time and scheduling

- `RingIsr`: weak fairness of the thread, which calls `process_events()` again
  and again (`loop()` or the pump), and of an interrupt handler once entered. No
  interrupt is forced to arrive.
- `Radio`: weak fairness of the thread inside a call and of a pending interrupt,
  strong fairness of the clock (its enabledness comes and goes with the thread's
  place) and of `Poll`, since `loop()` and the pump poll for ever between other
  calls. The chip has no fairness: it may never finish.
- `Prompt` in `Radio`: one turn of `send()`'s loop, from the watchdog's reading
  of the clock to `send()`'s own, takes less than a millisecond. With a slow SPI
  bus or a preempted thread it does not hold, and then `send()` can return
  `TxTimeout` with `tx_in_progress_` still set. `NoOrphanTx` and `FsmAgrees`
  name it as their condition; `RadioIsr` does without it. In `Threads` the same
  assumption is in `Tick`.
- `Prompt` in `Packets`: a packet is read before the next one ends. The driver
  is built for it; `PacketsCrc` and `PacketsMetrics` show what it is worth.
- `setup` in `Threads`: `AirCarriesPayload` holds where the pump is on
  `loop()`'s core, its callbacks return, as `USAGE.md` asks, and nothing has been
  queued with `send_async()`. The default placement alone is not enough
  (`ThreadsQueuedPointer`). The other properties hold for two cores and with the
  queue as well. Fairness: the pump's steps and interrupts (weak), `loop()` and
  the clock (strong, because the pump's priority disables `loop()` again and
  again).
- `RxSingleEnds` in `Radio`: only for a reception that ends in a timeout or a
  good packet, in polling mode, while no transfer has failed, and unless a clear
  wipes the end before any read has seen it (`EndUnseen`).
- `Packets`: weak fairness of the polling thread.
- `Latency` and `Unwrapped` in `Clock`: the thread's steps are at most `Latency`
  apart; `NotLate` and `NotEarly` are about behaviours none of whose deadlines
  reaches the end of the clock's range. `NoStorm` needs neither.
- `Facade`: weak fairness of each task, of the clock, and of the application
  inside a call. The application need not make another call. That a turn of the
  pump's loop outside its blocking points takes none of `stop()`'s time is an
  assumption about callbacks and SPI speed; `StopIsCooperative` depends on it.
- `Registers`: the chip takes a write to `RegOpMode` in every mode. (The data
  sheet lets the LoRa bit change in sleep only; a `begin()` without reset that
  meets a chip in another mode relies on more than that.)

## 4. What is proved

For every value of the constants that satisfies the assumptions named in the
modules (at least two slots, numbers in range, a task handle is not null, a
clock of any width, any set of calls and options):

- `IrqRingProofs!TypeCorrect`, inductive with `LoopBound` (the body of the
  `while` is entered below its bound).
- `IrqRingProofs!WakeupsAreNotLost`. `NoLostWakeup` alone is not inductive: it
  says nothing of a handler that is about to drop or to publish. The
  strengthening, `Covered`, says for each point of the handler what keeps the
  promise while an interrupt is owed: a marker already there, a marker there if
  this one is dropped, a publish that cannot land on the tail.
- `IrqRingProofs!PublishStep` and `RingImplementsMailbox`, without the polling
  branch (`ASSUME ~Polling`). The invariant is that the handler's `isrNext` is
  the successor of the head while it is inside; the refinement maps `count` to
  the distance from tail to head, and the arithmetic modulo `Size` is in four
  lemmas. With the polling branch the refinement does not hold: its unlocked
  second producer can overwrite a published marker.
- `RadioProofs!TypeCorrect`, in five groups of variables so that each action's
  obligations stay small.
- `RadioProofs!NeverDeaf`. With the type invariant and "nothing runs while
  Uninit", `NoDeafLine` is inductive: every step that can raise the line latches
  the edge it makes (`LatchKeepsHeard`), a popped marker lives on as the read,
  and a read that sees the mapped flag is followed by the clear that lowers it.
- `RadioProofs!SendLeavesNothingBehind`. `NoOrphanTx` needs an invariant about
  the three timers inside `send()`, `SendInv`: the driver's time left is less
  than `send()`'s, so that a deadline passed at the end of the turn was passed
  for the watchdog at its start.
- `RadioProofs!SilenceIsWatched`: `SilenceArmed` is inductive, since where
  the watchdog is disarmed the chip leaves continuous reception in the same
  step.
- `RadioProofs!StateFollowsChip`. `FsmAgrees` speaks of the time between two
  calls; inside them it is kept by three facts: `state_` is Tx only in `send()`,
  a transmitting driver has a `state_` of Tx or Standby (so that the TX watchdog
  takes no reception down), and that comes from `SendInv`.
- `RadioProofs!OkIsHonest`, in polling mode with a prompt thread. `Turn` says
  that a turn of `process_events()` makes one marker and takes it, so the flags
  are read once per turn; `AirInv` follows the packet's TxDone from the chip
  through `RegIrqFlags` and the local `flags` to the end of `send()`. That a
  TxDone cannot outlive its `send()` is the part that needs both.
- `RadioProofs!PollsKeepState`, which `Facade` relies on: an application that
  calls neither `start_receive(false)` nor `start_cad()` never sees a poll change
  `state_`, because a reception has only ever begun with `rx_continuous_` set
  (`ContinuousOnly`). No run checks it.
- `ThreadsProofs!TypeCorrect`, inductive with `Inside` (where a thread is while
  it is in `send()`) and `RoundLeft` (whoever is about to take a marker has
  rounds left).
- `ThreadsProofs!NeverDeaf`: inductive as it stands. Whichever thread stores
  `irq_tail_`, also to a value that undoes the other's, reads the flags next.
- `ThreadsProofs!SendLeavesNothingBehind`, of the `send()` calls of both threads.
  `Guarded` names who will end a registered transmission (`WillEnd`): a thread
  about to store its deadline, on one core the pump about to start a
  transmission, or the thread whose deadline is stored (`Watched`); and that
  thread's own deadline is not over before the driver's (`Ordered`).
- `ThreadsProofs!PointerNeedsNoLock`, `AirCarriesPayload`: with the pump on
  `loop()`'s core and `send_async()` unused (`Lone`). The pump may then still
  wake at its period between `loop()`'s write of `RegFifoAddrPtr` and the burst,
  and would move the pointer if it found an RxDone. `LoadInv` says why it finds
  none: `Heard` sharpens `NoDeafLine` to "the pump is about to look", so that
  `loop()` outside `process_events()` moves only while the line is low; what
  DIO0 is mapped to decides which flag can be up (`NoStaleFlag`, `Mapped`); and
  no packet comes between standby and the next reception. Both conditions are
  needed, `ThreadsFifoPointer` and `ThreadsQueuedPointer`.
- `PacketsProofs!TypeCorrect`, inductive with `Newest` (the packet on the air is
  the last of the list).
- `PacketsProofs!DeliveriesAreWhole`, with a prompt thread, for every FIFO size
  and list of packets. The invariant has two halves. `Chips` is what the
  registers and the FIFO hold of the last packet: they are of one packet
  (`LastPacket`), an RxDone without CrcError in the chip or already read is that
  packet's (`GoodCrc`), its bytes are where the registers say unless ours have
  met them (`InFifo`, `Untouched`, `InItsHalf`: the one place where the two
  halves and the 8-bit address arithmetic matter). `Round` is what one turn of
  `process_events()` has read of it so far (`ReadSoFar`).
- `PacketsProofs!DeliveredOnce`, with a prompt thread, in both modes, while no
  transfer has failed (`faults = MaxFaults` in `Once`: a failed clear leaves the
  RxDone for a second delivery). `OnceInv` says that the deliveries are of the
  last packet and older ones, and of the last only when its RxDone has been
  answered.
- `CallbacksProofs!TypeCorrect`, for every set of calls and depth of nesting.
- `CallbacksProofs!EndStopsTheRadio`. `end()` can be called at any depth and
  returns into frames that go on to set modes, remap DIO0 and start receptions.
  All that is left to them is Standby: a reception or transmission asks the
  driver first, and `Down` says that after `end()` the driver is not initialised
  and the user's callbacks are gone.
- `CallbacksProofs!EndSilencesCallbacks`. An action property: no step adds a
  depth at which a user callback runs (`StackStep` says what each kind of step
  does to the stack).
- `CallbacksProofs!OkIsSent`, whatever the callbacks in the loop of `send()` call
  except `send()` and `end()`. `SendInv` follows the packet through the stack:
  there is at most one `send()` in it, the driver's `tx_active_` falls only when
  that packet is out (`OverWhenSent`), and its TxDone is in exactly one place,
  the chip or one of the `process_events()` frames that are nested in each other
  (`TxDoneIsOwn`, `OneTxDone`).
- `ClockProofs!TypeCorrect` and `OneReport` for clocks that wrap any number of
  times; `InTime` and `NothingEarly` as long as nothing wraps, from the
  invariant `ClockInv`: the clock is the boot value plus the time since
  (`Exact`), and at each place of the thread a deadline that is still set is at
  most so many steps in the past (`TxLag`, `SendLag`, `SilenceLag`).
- `FacadeProofs!TypeCorrect`, in five groups of variables.
- `FacadeProofs!OnePumpOnly` and `NoPumpInTeardown`, from one invariant: a task
  in the loop is the one `task_` names, and `task_` is null wherever the
  application has come back from `stop()`. The second half is what keeps a new
  task from being created beside an old one.
- `FacadeProofs!NothingHalfInitialised`: the invariant says what a teardown has
  achieved at each of its places; no task can undo it, since a task that moves
  `state_` is in the loop, and then `task_` is not null.
- `FacadeProofs!StopNeverKills`. Once `stop()` has nudged the task, either the
  task is on a part of its loop that takes no time and leads to the test of
  `stop_requested_`, or it is in a `send()` with less time left than `stop()`
  has, and the notification waits for it (`OnItsWay`). This holds for every
  budget above the send time, every period and every number of old tasks; it
  rests on the model's assumption that only `send()` and the notification wait
  take time.
- `RegistersProofs!TypeCorrect`, `OcpFollowsPower` and `ConfigTellsTheTruth`, for
  every set of configurations and setter inputs, with transfers failing at any
  point. `ConfigTellsTheTruth` includes the power in dBm and both errata, with the
  exceptions that `ConfigIsProgrammed` names. A program *fits* a configuration and a set of fields (`Fits`) if every
  value it writes is one that `Values` allows for that configuration and it
  writes all those fields; that is proved once for each program of the driver,
  segment by segment. Then one lemma about `Written` serves all actions
  (`WrittenFits`): any prefix leaves each field as it was or as it should be,
  the whole program leaves its fields as they should be. `ProgInv` says that a
  register group agrees with `cfg_` unless its last setter has failed, and that
  the current limit, even after a failure, is the user's or the raised one; what
  `begin()` alone programs (`SessionFields`) agrees whenever the driver is
  initialised. Lemmas show which fields a change of one field of `cfg_` leaves
  alone. No induction is needed, since `Written` is defined by the last write to
  a field and not by recursion.

Only model-checked: the liveness properties (`EveryInterruptIsAnswered`,
`RxSingleEnds`, both `SendComesBack`, `AllDelivered`, `QueueMoves`,
`CallsReturn`), which are out of the prover's reach under fairness, and the
violations of section 3. Every invariant and every action property of the
passing runs is a theorem, under the conditions named above.

## 5. Not modelled

- The SPI classes: one bus transaction per call, pure I/O. All modules use them
  as a transfer that succeeds or fails.
- The counters of `RadioStats` (except `irq_overflows`) and of the pump's
  `Metrics`: nothing in the library reads them back.
- RSSI, SNR and frequency error as numbers, and what the image calibration
  measures: arithmetic on one register each.
- Setting a callback while it runs (a `std::function` destroyed inside its own
  call), and `on_receive()` and its like called beside a running pump.
- A task that is deleted inside an SPI transaction: it could leave the bus lock
  held, and every later transfer would wait for it. `Facade` has the deletion,
  without the lock.
- Failing transfers and callbacks that block or call back in `Threads`; the
  silence timeout there.
- `end()` from a callback that runs in the pump task: `stop()` then waits for
  its own caller until its budget is used up. `Callbacks` has the call, `Facade`
  the wait; no module has both.
- Two `LoRa` objects sharing `instance_`, and the host build, whose facade is a
  stub.
- Board presets, error strings, version constants: tables.

## 6. Plan

Done: all modules of section 2.

Next:

- `end()` from a callback of the pump task, as a second caller of `Stop` in
  `Facade`.
- an abstract specification of the register groups (a group is stale, or what
  `cfg_` says) that `Registers` implements, from `ProgInv`.
