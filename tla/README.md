# yobot: models, checks and proofs of a yogurt maker's firmware

yobot is the firmware of an AVR XMEGA microcontroller that holds a pot of
yogurt at a temperature: a one-wire thermometer, a solid state relay, a
16-key keypad and an eight-character display. The repository has no tests and
no documents beyond its comments. It is small, and nearly all of what can go
wrong in it is order: interrupts at three levels, two cooperative threads, a
queue of callbacks and a timer list shared by all of them.

Contents: [the system](#1-the-system), [the plan](#2-the-plan),
[the models](#3-the-models), [the runs](#4-the-runs),
[the proofs](#5-the-proofs), [what the work showed](#6-what-the-work-showed),
[limits](#7-what-is-not-modelled). To repeat a run:
`tlc -config MCTimer.cfg MCTimer.tla`; to repeat the proofs:
`tlapm TimerProofs.tla`.

## 1. The system

### Who runs when

| context | code | may preempt |
|---|---|---|
| high level interrupt | RTC compare: `TIMER_RUN` (timer.c) and every timer callback | everything |
| medium level interrupts | keypad pin change (keypad.c), TWI master (twi_master.c), relay PWM compare (ssr.c) | low level and threads |
| low level interrupts | display USART (display.c), debug USART (debug.c) | threads |
| thread 0, `main_thread` | `tasks_run` for ever: every queued callback | nothing |
| thread 1, `temp_run` | the sensor loop; runs only when the task `onewire_resume` switches to it, until it calls `block` | nothing |

The threads are coroutines: thread 1 runs inside thread 0's poll of one task.
Interrupt handlers pass work down with `task_schedule`, which appends a
callback to the event queue; threads pass work up with `add_timer`.

### Components

| component | state it keeps | operations | talks to |
|---|---|---|---|
| event queue (queue.c, tasks.c) | a ring of pointers with a write and a read index; NULL marks an empty cell | `task_schedule` from any context, `tasks_run` from main | everyone posts; main polls |
| timers (timer.c) | a sorted doubly linked list of nodes with remaining ticks, RTC.CNT/COMP, the compare flag and enable | `add_timer`, `del_timer`, the compare interrupt | pool; RTC; callbacks of keypad, temp, yogurt |
| memory pool (mempool.c) | reference counts and blocks | `mempool_alloc`, `mempool_putref` | timers, debug port |
| cycle controller and keys (yogurt.c) | control block (state, counters, cycle, temperatures, integral), extras switches, entry step | clock interrupt and task, extras interrupt and task, key handler, start task | timers, queue, keypad, temp, display, relay |
| PID arithmetic (yogurt.c) | integral, previous temperatures | level of the relay from a reading | controller |
| keypad scanner (keypad.c) | scan state, sample count, masks, pin interrupt enable, `keymask` | pin interrupt, scan timer, scan task, end timer, `keypad_getc` | timers, queue, key handler |
| temperature thread (temp.c) | last temperature and error | sensor loop, `get_temp` | ds18b20, timers, threads |
| one-wire bridge and sensor (ds2483.c, ds18b20.c) | command buffer, result byte | reset, read and write byte, wait for idle, convert, read | TWI master |
| TWI master (twi_master.c) | buffers, byte index, retries | start, interrupt | threads (`block`), queue (resume) |
| threads (threads.c, main.c) | two stacks, the current thread | create, switch, `block` | temp, TWI, main |
| display (display.c) | character buffer, index of the byte being shifted | print, USART interrupts | controller |
| relay driver (ssr.c) | level, PWM compare value | set, off, compare interrupt | controller |
| debug port (debug.c, DEBUG builds) | queue and pool of messages | print, USART interrupt | queue, pool |
| digit reader, boot allocator, alarm pin, clock setup | one array, one bump pointer, pins | sequential helpers | controller, drivers at boot |

### What is hard, and what must hold

*Event queue.* Full and empty are told apart only by NULL cells. What must hold:
it is a FIFO of bounded length that loses a callback only when it is full, and
what it accepted runs.

*Timers.* The RTC never stops while the list is edited, and the compare
interrupt may come between `init_timer` and the edit. What must hold: no node
leaks, is linked twice, or is freed while linked; the interrupt is always armed
for the head and never missed; a callback never runs before its period and, as
long as clients do not keep deleting timers, does run.

*Cycle controller.* The clock interrupt advances `minutes` and `seconds` between
any two stores of a task; keys, the start task and the clock's task all add and
delete timers by callback, some of them late. What must hold: a cycle in
progress has a timer that drives it; it is maintained for its time and ends; no
timer outlives its use; on failure the relay is off.

*Keypad.* One scanner shared by a pin interrupt, a timer interrupt and a task.
What must hold: exactly one of them is due to continue the scan, so the keypad
neither dies nor scans twice at once; a key read is a key that was down.

*TWI, one-wire, temperature thread.* Retries repeat commands that are not
idempotent, the completion status is dropped on the way to the blocked thread,
and one queued task is its only wake-up. What must hold: the thread is woken
once per block; retries end; a temperature stored with error 0 was converted and
read in this round; a sensor that is gone is reported.

*Threads.* A switch is assembly that saves and restores a thread piece by piece,
with interrupts on for the first and last pieces, on stacks that have no guard.
What must hold: a thread finds its context as it left it, and whoever waits for
the queue to go on is not forgotten.

*PID.* 16 bit sums of 16 and 32 bit products, wound up over minutes. What must
hold: the level stays in range, and a pot that is hot enough is not heated.

*Display, relay, debug port.* Buffers and words rewritten while interrupts shift
or copy them. What must hold: what was asked for last is what is shown or driven in
the end; no message and no block is lost.

PROJECT.json lists the 17 components with their status, and the hazards line by
line with the properties that cover each.

## 2. The plan

Modules, in the order of what the system rests on:

1. `TaskFifo`, `RingQueue`, `TaskQueue`: the event queue. Checked and proved.
2. `Timer`: the timers on the pool, `TimerList` on top of it with the pointers of the
   list. Checked; all safety properties proved.
3. `Yogurt`: the cycle controller. Checked; all safety properties proved.
4. `Keypad`: the scanner. Checked; all safety properties proved.
5. `Transfer`, `TwiMaster`, `OneWire`: TWI transfers with retries; on top of what a
   transfer promises, the bridge's commands, the sensor's read sequence and the
   temperature thread. Checked; all safety properties proved.
6. `Threads`, `Kernel`: the two coroutines and their switch; queue, threads and all
   that posts tasks composed. Checked; all safety properties proved.
7. `Pid`, `Relay`, `Display`, `DebugPort`, composed in `Outputs`. Checked; the
   arithmetic and the debug port's blocks proved, and of what arrives in the end the
   part that is safety.

Abstract specifications: `TaskFifo` for the ring (`Contents` is the mapping), also
under everything `Kernel` does; `Transfer` for the TWI master, which `OneWire` then
uses in its place.

What could come next: the safety parts of the remaining liveness properties, as
`TransferIsBounded`, `QuietShowsText`, `NoMessageStranded` and `LevelStored` are for
four of them: a measure that every clock interrupt lowers while a cycle is maintained,
one for a scan, one for a round of the sensor's commands. No module meant for proofs
declares a RECURSIVE operator.

## 3. The models

Interrupts are interleaved with the code at the points where either side reads
what the other writes; between such points a run of statements is one action.
Every `Slip` operator in a module is the action that follows it with a plausible
mistake; no specification uses one, they serve to show that each property can
fail.

Two modules compose others. `Kernel` is what the program is as long as a component is
seen through the tasks it posts: `TaskQueue` and `Threads` in full, the timers, the
keypad, the TWI bus and the controller by when they may post. `Outputs` puts the parts
side by side that share nothing but main's calls.

### `RingQueue`, `TaskQueue`, `TaskFifo`

`items`, `read`, `write` are queue_t's fields. `queue_offer` and `queue_poll`
hold an ATOMIC_BLOCK from the first to the last access, so each is one action,
taken by any context. `TaskQueue` adds the callback that `tasks_run` executes
(`running`) and what the last operation's `queue_offer` returned (`dropped`). Posts to a
full ring are dropped by `OfferRejected`, as `task_schedule` drops them. `TaskFifo` is
the promise: a sequence of at most `Capacity` callbacks, served in order; `Contents` maps
the ring to it. A drop is an action of the promise (`Drop`) and needs a full sequence:
`dropped` makes it visible, or a ring that refused tasks with cells free would implement
`TaskFifo` by stuttering.

### `Timer`

| model | code |
|---|---|
| `task_list`, `cur` | the list, as the sequence of its nodes; the part of it TIMER_RUN has still to visit |
| `refcnt`, `task` | the pool's reference counts and blocks |
| `ticks`, `cnt`, `compif`, `inten` | RTC.COMP with the variable `ticks` (always written together), RTC.CNT, the compare flag, the interrupt level |
| `InitTimer`, `EnterAdd`, `Compare`, `Deduct`, `Link` | `add_timer`: allocation before the ATOMIC_BLOCK, then the loop that adjusts each node with two reads of RTC.CNT, then the insertion and `set_ticks` |
| `DelTimer` | `del_timer` |
| `Interrupt`, `RunNode`, `CarryNode`, `Rearm` | TIMER_RUN: taking the interrupt, each node of the old list, `set_ticks` |
| `RtcCount` | the oscillator; external |

`TimerList` adds the doubly linked list: `head` (the pointer `task_list`), `walk`
(TIMER_RUN's `cur`) and each block's `next` and `prev`, also those that free blocks
keep. `AddNode` and `Unlink` are `__add_timer_node` and `__del_timer_node`, and each of
`Timer`'s steps that calls one writes the pointers in the same step. `AddNode` stops its
loop where the pointers say, not where the sequence does. `Linked` says that they agree:
at every step, following `next` visits the sequence, and `prev` leads back from all but
the head, whose `prev` may be stale because `__del_timer_node` tests for the head first.
The timers' runs are of `ListSpec`.

`due` is a history variable: the counts still missing until the node's period is
over, whatever the list says. `NeverEarly` and `DueTimerRuns` compare the two.

Assumed: a write to CNT or COMP takes effect at once; an interrupt that may be taken is taken before the next count, and
an ATOMIC_BLOCK or a run of the handler is shorter than two counts (`slipped`),
which at 1 kHz is some ten thousand instructions; clients never ask for more timers
than the pool has. `set_ticks` waits for the RTC to take over the write before
(timer.c:159) and then writes. The wait is left out of `SetTicks`: the counts that pass
in it raise the flag or are lost when CNT restarts, which the one count that may slip
into the block does as well.

### `Yogurt`

`state`, `minutes`, `seconds`, `cycle`, `target` are `control`; `extras` and `step`
are the switches and the static of `yogurt_keyhandler_idle`; `upper` and `exts`
count the registered timers of `yogurt_run_upper` and `yogurt_extras_timer`, which
are added and deleted by callback in five places. `pc` is `main_thread`'s place in
the task it runs. `yogurt_run_lower` is cut where the clock interrupt matters: at
the two byte loads of `minutes` (`ReadLow`, `EndOfCycle`), and between the stores
at lines 212 and 213 (`Attained`, `RestartMinutes`, `EnterMaintain`). The other tasks
are one action. Three of those touch the counters too and are not cut: `StartTask`
and `TimeEntered` store minutes and seconds one after the other, `ExtrasTask` loads
the two bytes of `minutes`. A carry in between starts the count at minute 1, which
ATTAIN does not use, or shortens the kitchen timer, of whose length no property
speaks.

Temperatures are reduced to what the control flow tells apart: a reading error
(`sensor`), and whether the target lies between the last two readings, which is a
choice in `LowerControl` once a target is entered. The relay is on or off. Digits
and the key 'd' change nothing here and are left out. `Paced` says that a timer's
interrupts are a second apart and the queue is polled in between: before a task of its
kind has run, a timer comes once, and posts that a full queue drops (`dropped`) count as
well. While `main_thread` hangs they pile up and are dropped. `minutes` stops at `MaxMinutes`,
which is beyond every cycle time; comparisons with `cycle` cannot tell the
difference. `EnterMaintain` stores the state together with the seconds (lines 213 to
215): an interrupt between them counts a second more and changes nothing else.

`held` is a history variable: the clock interrupts that have come since MAINTAIN began.
`EndsNotEarly` measures a cycle by it, not by the counters the code compares.

### `Keypad`

`state`, `samples`, `colmask` are `keypad_scanner` (`rowmask` never outlives the
statement that reads it), `scanning` is the direction of the port's pins,
`inten` and `intif` the pin interrupt's enable and flag, `scanTimers` and
`endTimers` the one-shot timers in flight, `queue` the keypad's own tasks in the
event queue. Keys are pairs of a row and a column, and a read of the port yields
every row or column that a closed contact pulls low. `keypad_scan` is one action
per branch, because the interrupt is off and no timer is registered while it runs,
except after an abort: there `keypad_scan_end` enables the interrupt while
`samples++` (line 177) is still to come, so its load and store are actions of
their own.

A key is determined by its row and its column (`MatrixAssumption`).

External, and assumed of the part: the flag is latched while the interrupt is
disabled, and driving a column low raises it if the column was high. The code
depends on it: a key that stays down makes no edge of its own after the pause.
Nothing is assumed of the contacts, which open and close at any time, also between the
reads of the columns and of the rows, milliseconds apart (keypad.c:139, 159). `Mixed`
names what comes of it: a key in one column is let go, a key in another row pressed, and
the pair stored is a key that nobody touched. `KeyWasDown` says that there is no other
way to a key that was down at neither read.

### `TwiMaster`, `Transfer`, `OneWire`

`TwiMaster` is `twi_master.c` with a client that blocks. `txbytes`, `rxbytes`,
`bytes` and `retries` are the device structure's fields, `bus` is what the interrupt
to come is about, `flag` what it will find in STATUS, `resumes` the resumes the
client has not followed. Each branch of `twi_master_isr` and its two handlers is an
action; the bus is external and may acknowledge, refuse or lose any byte, also one
that the device has taken (`taken` counts the commands it took). An address without
bytes to write (`twi_master_read`) has no caller that is called, and nobody uses the
`txn_complete` callback; both are left out.

`Transfer` is what remains of that for the client: a transfer ends, the command was
taken any number of times up to the attempts made, the byte was stored or not, and
the client cannot tell. `Client` in `TwiMaster` is the mapping.

`OneWire` extends `Transfer` with `temp.c`, `ds18b20.c` and `ds2483.c`. `Script` lists
the commands of `temp_run` in order; `pos` is the one under way and `step` its
transfer: the command itself, the status register for `wait_idle`, or the read data
register. `result` is `dev->result`, which keeps its byte when a register read fails;
`queue` and `sleeping` are the thread's tasks and its timer. Everything the thread
does between two calls of `block` is one action: nobody else touches its state, and
the two words `get_temp` returns are stored without a `block` between them. Bytes are
named for what they mean: this round's temperature, the check byte 0x13, a status, the
ones of a silent bus. When another byte is taken for a status, `MayBeBusy` and its
fellows say what its bits may be.

The bridge and the sensor are external. Assumed of them: a one-wire operation ends
before `wait_idle` has polled ten times (at 400 kHz the polls take longer than a
reset), the sensor's two check bytes are not 0x13 after power-on, and 0x13 is not
read from a bus that nobody drives. `fresh`, `clean`, `low` and `high` follow what
the bytes are: `clean` says that every transfer of the round did what it should,
once.

### `Threads`, `Kernel`

| model | code |
|---|---|
| `mem` | the memory of both stacks; upwards, a cell for what a thread keeps: a return address, r0, SREG, r1 to r31, a caller's frame |
| `tcb`, `cur`, `sp`, `regs` | `threads.list[t].stack`, `threads.tcb`, SPH:SPL, the registers |
| `StartMain` | `thread_create` twice with `thread_stack_init`, and `threads_start_main` |
| `SwitchTo` | the calls that lead to `block` or `onewire_resume`, `depth` cells of them |
| `PushR0`, `Cli`, `PushRest` | `thread_context_out` |
| `OutSpl`, `OutSph`, `PopRest`, `PopR0` | `threads.tcb = ...` and `thread_context_in` |
| `Interrupt` | any interrupt: it restores the registers and overwrites `IsrCells` cells beyond `sp` |

Instructions between which an interrupt cannot come or tell a difference are one
action. Between the two stores of the stack pointer `sp` is any of `Mixtures`. A cell
that has been popped counts as overwritten. `StackAssumption` is what nobody
guarantees: that the calls of a thread and the interrupts on top of them fit into the
`THREADS_STACK_SIZE` (70 bytes) between two stacks.

`Kernel` adds to the queue and the threads the *tokens* of those who use them. A
component that goes on by itself holds one: `armed` and `wake` for the temperature
thread between what it starts and the resume it gets, `posted` for the keypad, `clocks`
and `exts` for the timers, `owed` for the starts that wait for a temperature. The tasks
do what the other modules say in detail: a scan may post the key handler, the handler
may enter a cycle, a start without a temperature posts itself again, the clocks' tasks
may delete their timers. `crowded` is a history variable: more cells may have been
needed at once than the ring has. It is defined from the tokens, not from a rejected
post, and `TokensKept` says that the one implies the other.

`hung` is main_thread in `yogurt_alarm` with the alarm on. The three calls of it
(yogurt.c:141, 202, 211) may come in any run of the two tasks that make them
(`CallsAlarm`; in `yogurt_run_lower` only while a clock timer is registered, for in IDLE
it returns before), and `AlarmHangs` is a call that does not return: the callback goes on
calling itself (`AlarmAgain`, a step that changes nothing, so that it counts as the
processor's work), no task is polled any more, and interrupts go on posting. A call
that returns is part of `LowerTask` and `ExtrasTask`.

### `Pid`, `Relay`, `Display`, `DebugPort`, `Outputs`

`Pid` has the constants of the code and integers for its numbers, with `Word` where 16
bits cut a result off: the integral in `yogurt_attain_temperature`, which is an int.
The sums of levels are 32 bits wide and never reach that. A reading is any member of
`Temps`, after any other; `tick` says whether the minute and second are ones in which
`next_target` is renewed. `TemperatureControl` with `ControlIntegral` and `ControlLevel`
is `yogurt_temperature_control`, which has the attaining law in ATTAIN and the
maintaining one in every other state, and there are actions for each of its callers: `AttainControl` and
`MaintainControl` are `yogurt_run_lower`, `ExtrasControl` is `yogurt_extras` with the
thermometer on, which calls it in whatever state and does none of what run_lower does
after it. In IDLE that is the maintaining law on the integral that a cancelled cycle has
left (`ClearState` resets none of it).

`Relay` has `level` in two bytes, the counter, the compare register and its flag.
`SwitchOff` is `ssr_off` with the interrupt that may come between its stores.

`Display` has `buf` as `display_puts` writes it, byte by byte with the decimal point
merged into the character before it, the USART's data and shift registers, and the
chain of the shift registers on the board with their latch. A segment pattern is named
by its glyph; `Mixture` stands for a latch whose characters are from two texts or
displaced. When the transmitter has run empty before the last byte, `TxcInterrupt`
latches what is there.

`DebugPort` is the one user of the pool besides the timers, and has a ring of its own.
A message is its block; `at` is the place in `__debug_write`, `sending`, `sent` and
`status` are the USART's. A message that finds no block is NULL, as in the code, and is
queued: it moves `write` beyond an empty cell.

`Outputs` runs one of the four by main's calls in each behaviour (`called`) while the
hardware of all goes on; they share no variable, so the behaviours of one say nothing
of the others.

## 4. The runs

| run | bounds | what it shows |
|---|---|---|
| `kernel` | four ring cells, one entry, stacks of two cells between frames, one cell of calls and one of interrupts | the queue is a FIFO under all its users and drops only when full; no thread finds its context damaged; tokens are kept while the cells suffice; unless a callback hangs in `yogurt_alarm`, what was accepted runs and, while the cells suffice, the sensor's thread goes on |
| `timer` | three nodes, counter modulo 5, four calls; a timer at every count and a one-shot every three | no leak, no double link, no missed match, no early run; the pointers follow the list; due timers run |
| `timer_stale_flag`, `timer_split_read` | the same with two calls | the two faults of section 6 |
| `yogurt` | minutes of two seconds, cycle of 3 minutes, one-bit bytes, four queue cells, six keys | a driver for every cycle, one extras timer, fresh counters, cycles that last and end, leftovers that go |
| `yogurt_alarm_hang`, `yogurt_relay_left_on` | the same with four keys | two more |
| `keypad` | two rows and columns, three samples, counter modulo 5, eight movements | one token, room for two tasks, no key replaced, none read that was not down but for `Mixed`, scans end, held keys are read |
| `outputs` | four readings around a target, a minute of two readings, both callers in any state; counter 0 to 9, bytes of two bits; two characters; three blocks of two bytes | a hot pot is not heated; levels, texts and messages arrive in the end; no block is lost |
| `twi` | three retries as in the code; 1 or 2 bytes to write, 0 to 2 to read | each transfer ends with one resume and a reply that fits; `Transfer` implemented, its liveness too |
| `onewire` | one retry, one poll after the first | one wake-up, temperatures of this round, rounds without end, absence reported |
| `onewire_stale_byte` | the same | the fifth |

*Why the bounds are enough.* Four cells give every combination of wrapped and
unwrapped, full and empty windows, suffice for the thread, the keypad and one start,
and do not for an extras timer beside them, so both sides of `crowded` are reached; two
cells between the frames are the least that fit a call and an interrupt, and the
proof takes over from there. Three timer nodes are the least with a head, a
middle and a tail; a counter of five wraps within a period of three and lets the
two reads of CNT differ at 0; four calls let an add in an interrupt fall into an
add of the task with timers before and after. Six keys are a complete entry ('*'
three times) with three more keys before, during or after it, which is where the
orders of deletes and adds differ; a one-bit byte with a cycle of three minutes
puts the carry between the bytes of `minutes` inside the cycle. Eight movements close
and open four contacts, so two keys overlap and a bounce comes in any phase of a
scan; a sample counter of five wraps after the increment of line 177 has
overwritten one. The target is 0 or, entered, 720; of the readings one is far below it, one just within
the 134 at which the integral begins (whose steps wind it up, over its limit and beyond
16 bits), one 10 above it, where the proportional part alone is still outweighed by an
integral left over, and one 150 above, where nothing may outweigh it; the proof has all
readings and targets. A minute of two readings
lets the counts of sides go up and down. A counter of ten and levels on both sides of a
byte's carry give every mixture of two levels, also one beyond the counter. Two
characters are the least that can be mixed; three blocks let the writer, the ring and
the transmitter have one each and the pool run out.
One retry lets a command be taken never, once or twice; more would only shift the
sensor's index further, whose range of four bytes two takings of each command already
leave. One poll after the first shows both ways out of `wait_idle`.

*Fairness.* Weak fairness on `main_thread` (it loops for ever and interrupts
return), on the interrupts that may be taken, and on the clocks, which never stop.
The display's and the debug port's transmitters go on shifting, the relay's counter
counts, and a transfer or a sleep ends. A byte on the bus comes to some flag in `TwiMaster`, a transfer to its
end in `OneWire`: the former's `ImplementsTransfer` is what justifies the latter. Of the
former twi_master.c:88-90 has its doubts ("chances are the tx.state will stay BUSY
indefinitely"); were it so, the temperature thread would stop and `get_temp` go on
returning the last temperature, which no property here speaks of.
None on keys, contacts, the plug, sensor readings or the calls of clients: the code does not
make them happen.

*Deadlock* is checked for the kernel, the timers, the outputs, the TWI master and the temperature
thread. It is not for `Yogurt`, where
`main_thread` really stops in `yogurt_alarm`, and not for `Keypad`, which rests when
the user has made the last of the bounded movements.

The liveness properties carry their conditions with them. `DueTimerRuns` holds
because calls are bounded: `del_timer` restarts the counter without deducting what
has passed, so clients that delete for ever postpone every timer for ever.
`CycleEnds` needs a sensor that recovers. `AcceptedTaskRuns` and `ThreadGoesOn` need that
no callback is ever caught in `yogurt_alarm` (`[]~hung`): with the alarm on, the end of a
cycle, its target or a countdown stops `main_thread` for good, and with it every task and the
temperature thread. That is the third disagreement of section 6. `ThreadGoesOn` needs
cells that suffice besides, `MessagesSent` a pool that does. `RelayFollows` needs levels that
stay, and no mixture of two beyond the counter's range; `TextShown` a text that stays. `AbsenceReported` needs transfers that
work again: a reset whose status cannot be read may pass for a present sensor. `HeldKeyRead` excepts the case that all
columns were held when they were read: then no column is left to make the edge.

## 5. The proofs

TLAPS checks these for every value of the constants the modules' assumptions
allow.

* `RingQueueProofs`: lemmas on the ring, for both of its users. The occupied cells are
  the first n from `read` on and `write` is the n-th (`RingOK`, which is inductive); an
  offer that is accepted appends to `Contents`, a poll takes its head.
* `TimerProofs`: types, `PoolExact`, `MatchNotMissed`, `NeverEarly`. `NeverEarly`
  is not inductive: a node may run when its `ticks` are paid off, so the invariant
  (`DueBound`) says what `ticks` is worth at each stage of the code. In the open,
  what is left of a node's period is at most its ticks less CNT; in the adjusting
  loop that holds for the nodes not yet reached, and the ones behind owe their
  ticks in full; in the handler the unvisited nodes owe their ticks less `ticks`.
  The split read only ever makes a node's ticks too large, which is why it cannot
  break this bound. `Stages` ties the loop's position and the held node to `pc`.
  And for `TimerList`: `Linked`, and that its steps are `Timer`'s, so all of the above
  hold of the code with its pointers (`ListTimersSafe`). `AddNodeFacts` and `UnlinkFacts`
  say of any list with `Path` (along `next`) and `Back` (along `prev`) what the two
  functions make of it; the rest is that a node's list, the rest of TIMER_RUN's walk and
  the held nodes are disjoint, which the exact pool gives (`ListsApart`, `HeldApart`), so
  a store in one leaves the others alone.
* `YogurtProofs`: types, `DriverAlive`, `OneExtrasTimer`. `LowerState` is what
  they lack: in the middle of `yogurt_run_lower` the state is still the one it
  branched on, so no state other than IDLE is entered without a timer. And
  `CountersRestart`, `EndsNotEarly`, for the two places where the clock's interrupt comes
  between two accesses to the counters. `Room` counts the interrupts that may still come
  before the task is over; `Clocked` says that a carry since the first access leaves
  `seconds` below the interrupts that have come since (`Near`), so a second carry has no
  room. `Counted` ties `held` to the counters: in MAINTAIN the interrupts taken are at
  least what `minutes` and `seconds` stand for, less the one minute that may have been
  carried in when it began, so a cycle that ends has lasted its minutes less one
  (`CycleLastsItsMinutes`), but for the torn read of section 6. Both theorems suppose that
  there are never more timers of the two kinds than seconds in a minute: the pool has 8
  blocks and a minute 60 seconds.
* `KeypadProofs`: types, `ScanToken`, `TwoCells`, `NoKeyLost`, `KeyWasDown`. The
  invariant adds that a stored key's handler is first among the keypad's tasks
  (`KeyFirst`), so the scan that could replace it is behind it, and that the interrupt is
  only on while the columns are inputs. `ColumnsSeen` is for `KeyWasDown`: until the rows
  are read the columns stored are those of the keys that were down at the first read
  (`seen`). The contact that made the column and the one that made the row are then the
  key itself, or the first has opened and the second closed since: `Mixed`.
* `TwiMasterProofs`: types, `OneResume`, `ReplyFits`, and that every step of
  `TwiMaster` is a step of `Transfer` (`KeepsPromise`). `Phases` ties the byte count to
  what is on the bus; `Takings` bounds how often the device has taken the command by
  the retries, which is what keeps `Take` within its limit. `TransferIsBounded` is the
  safety part of a transfer's end: every interrupt lowers `InterruptsLeft`, what is left
  of this attempt and a whole attempt for each retry, and no step of the bus raises it.
* `KernelProofs`: the queue's types, its window (`WindowKept`) and `ImplementsFifo`, for the queue alone
  and for the whole program; `OwnContext`, for the threads alone and for the whole
  program; `TokensKept`. `AtInv` says what each
  instruction of a switch finds: how many cells the thread being switched has pushed,
  what is in the registers, and that the other thread's frame is complete. The stacks
  are two regions of `StackSize + 5` cells; all writes are at or beyond the stack
  pointer, and `StackAssumption` keeps them within the region of the thread that has
  the processor (`Beyond`). That is the only place where it is needed, and the only
  thing the proof needs of it. `Kernel`'s steps are steps of `Threads` and of
  `TaskQueue`, so those parts follow from their invariants. `TokensKept` needs two facts
  more (`KInv`): while a scan waits, the keys of the scan before it wait in front of it
  (`Ordered`), so a scan never finds a key still queued; and the cells in use are fewer
  than `Load` whenever someone may post, so no post is rejected until `crowded`.
* `OutputsProofs`: `HotMeansOff`, and that the level stays in range (`LevelInRange`),
  whoever calls the control. The integral is within 0 and its limit only in MAINTAIN; in
  ATTAIN, and in IDLE with what a cancelled ATTAIN has left, all that holds is that it is
  a word. 146 sixteenths above the target outweigh any word under the gain of the
  attaining law, 11 under that of the maintaining one (`HotLevel`). The two counts of
  readings always add up to `Streak` (`Sides`), so a minute on one side excludes the
  other's branch and the integral is gone. And `BlocksAccounted`: every block of the
  debug port's pool has one owner, the pool, the writer, a cell of the ring or the
  transmitter. The ring has as many cells as the pool has blocks, so the writer's block
  always finds one (debug.c ignores what `queue_offer` returns), until a message finds
  the pool empty. Until then the messages are also begun in the order in which they were
  queued (`MessagesInOrder`), and none lies in the ring with the transmitter at rest,
  except just before `__debug_write` tests for that (`NoMessageStranded`; `Awake`).
  `LevelStored` is for the relay: bytes still to store aside, memory agrees with the level
  asked for (`Kept`), so neither the order of the stores nor what was there before
  matters. `QuietShowsText` is the safety part of `TextShown`: whenever nothing is on its
  way, the display shows the text printed last. `Scanned` says what `display_puts` has
  written while it is on its way: the characters before `i` in their places with the
  points lit so far, and a point pending for the next one exactly if a colon is in front
  of it. `Rendered` counts places by the cardinality of a set, so no induction over the
  text is needed: one more character is one more element (`PlaceFacts`). `InOrder` is the
  way out: once `state.bytes` is 0 again, the n-th byte taken is in DATA, in the shift
  register, or in the chain as far from its end as bytes have followed it, whatever of
  the text before was in the registers.
* `OneWireProofs`: types and `OneWakeUp`. `Waits` says which of the three things the
  thread waits for, `Steps` which of a command's transfers can be under way. And
  `FreshTemperature`: a mark in the scratchpad proves that the sensor has kept its power
  since the mark was written. Then the sensor is where the round's commands, each taken
  once, have brought it (`SensorAfter`, `IndexAfter`), so what is converted, fetched and
  kept at each point of the round is known (`RoundInv`); without the mark the check byte
  cannot come through.

Only model-checked: liveness, which is beyond the prover. Every safety property of the
passing runs is a theorem, two of them (`CountersRestart`, `EndsNotEarly`) under the
hypothesis on the number of timers above. For four of the
liveness properties, theorems give the safety behind them: where the steps of a transfer
(`TransferIsBounded`), a text (`QuietShowsText`), a message (`NoMessageStranded`) or a
level (`LevelStored`) can come to an end, if they do, is what the property promises. That
they are taken is what fairness adds, and TLC checks.

Assumptions on the constants are in the modules that declare them. Those that the code
has to earn: `StackAssumption` above; `BlockAssumption`, by which blocks are not NULL; `NoneAssumption`, by which no byte of the buffer is an
empty register; `TextAssumption`, by which `clear`'s empty text is among the texts;
`TaskAssumption`, by which the callbacks posted are pointers.

## 6. What the work showed

Confirmed: the ring is right although it keeps no count; `add_timer` may be
preempted between the allocation and the list; `set_ticks` never loses a match; no
sequence of keys leaves a cycle without its timer or adds the extras timer twice;
the keypad's one scan is never lost or doubled, and a key is never overwritten,
thanks to the order of the queue; no interrupt can damage a switch, though they are on
during half of it; the temperature thread is woken once per block, and
the check bytes do catch a sensor that lost power anywhere between the conversion and
the reading, as long as transfers work; however the integral is wound up or wraps, and whoever
calls the control, a pot 9.1 degrees too hot is not heated, nor one 0.7 too hot unless a
target is being attained.

Disagreements between the code and its comments, each with a run:

1. `set_ticks` leaves a raised compare flag (timer.c:153): the next timer may run
   at once.
2. RTC.CNT is read twice (timer.c:119): a timer that is just due can get 65535
   ticks, 64 seconds.
3. `yogurt_alarm` calls itself (yogurt.c:372): with the alarm on, attaining the
   target stops the program with the relay at its last level.
4. Cancelling leaves the relay on (yogurt.c:361): nothing reads the temperature
   any more.
5. A blocking transfer's status is dropped (twi_master.c:157): a register read that
   failed returns the byte read before it, and a temperature made of such bytes is
   stored with error 0 if the check byte comes through.

Also seen, most of them without a comment that says otherwise:

* *Waiting starts.* A start that waits for a temperature survives '#', and a second one
  sends a maintained cycle back to ATTAIN, which is why `CycleEnds` allows it. Each entry
  made while the sensor reports an error adds one that posts itself for ever. Seven of
  them fill the ring of ten beside the thread's, the keypad's and a clock's task; the next
  post is dropped, and if it is `onewire_resume` or `keypad_scan` the thread or the keypad
  is dead for good, if it is the start's own it does not "keep retrying" (yogurt.c:92).
  `TokensKept` and `ThreadGoesOn` have `crowded` for this. When the sensor comes back,
  each of six starts adds a clock timer, and with the keypad's and the thread's that is
  more than the pool's eight blocks: `add_timer` writes through NULL (timer.c:91).
* *Keypad.* `samples++` comes after the interrupt is enabled (keypad.c:177): an interrupt
  between its load and store is overwritten, and a scan can exceed its samples
  (keypad.c:124-125). `ScanEnds` holds nevertheless, since the counter wraps. Rows get two attempts
  where columns get three, because `samples++` follows the reset.
* *Ghost keys.* A finger that rolls from one key to another between the two reads
  (keypad.c:139, 159) stores the column of the first with the row of the second, a key
  that nobody pressed, although keypad.c:22-23 says that "the distinct combination of
  (R,C) determines a unique key". `KeyWasDown` names the case (`Mixed`) and excludes every
  other.
* *Minutes.* `minutes` read across a carry can end a cycle of more than 256 minutes early,
  the one exception `EndsNotEarly` names. Without it a cycle lasts its minutes, counted in
  clock interrupts, less at most the one that comes between the stores when MAINTAIN
  begins.
* *Thermometer.* With the thermometer on, `yogurt_extras` calls
  `yogurt_temperature_control` in IDLE as well (yogurt.c:145-146): showing the temperature
  heats the pot to the last target entered, with the integral the last cycle left.
* *Sensor.* A retry repeats a command that the bridge has already carried out, and a
  repeated read skips a byte of the scratchpad, which is why `FreshTemperature` speaks of
  clean rounds only.
* *Relay.* The compare interrupt may copy a level of which one byte is stored. If the
  mixture is beyond PER (as 0x7aff is beyond 31249) there is never a match again and no
  interrupt that would copy another: the relay stays on at every level, and `ssr_off` does
  not reset the register. `RelayFollows` excepts it.
* *Display.* An underrun, or a completion interrupt taken late, latches part of a text or a
  mixture of two, which display.c:165-167 says cannot happen; the next text repairs it.
* *Debug port.* With all blocks in use a message is NULL, and queued as such it leaves a
  hole: messages behind it wait for the next one, or are never sent if the writer comes
  round to their cells. It takes six messages at once.
* *Integral.* A temperature that falls while the target is attained makes the difference
  to `next_target` larger than the 12 that yogurt.c:292-294 speaks of; the sum of 16 bits wraps
  even with 12 (31248 + 2160). The level's base is added twice, by the caller and by the
  law. `HotMeansOff` holds with both.
* *Registers.* ssr.c:37-38 write 16 bit registers through the TEMP byte that the compare
  interrupt uses too (line 46); `SwitchOff` stores them whole. mempool.c:21 runs over
  `block_size` where it means the number of blocks. No property depends on either.
* *Digits.* With no entry, `digitreader_get(NULL)` writes a byte to address 0, a general
  purpose register (yogurt.c:409, 417).

## 7. What is not modelled

Each component module has its own view of the shared queue: `Keypad` and `OneWire` assume
room for their tasks, `Yogurt` drops what does not fit. `Kernel` is where they meet, and
`TokensKept` says when the assumption is right.

What a write through NULL does to the I/O registers: `Timer` stops at the pool's limit.

Not modelled either: the digit reader and boot allocator, which are sequential helpers of a
few lines; the alarm pin, whose `alarm_on` has no caller; clock setup and build
rules; what the texts on the display and the debug messages say.
