------------------------------- MODULE Timer --------------------------------
(***************************************************************************)
(* timer.c: one-shot and periodic callbacks multiplexed on the RTC compare *)
(* interrupt, with timer nodes from a mempool.  The RTC is a process of    *)
(* its own that counts while the code runs.  Tasks, and interrupt handlers *)
(* below the timer's level, add and delete timers; the compare interrupt   *)
(* preempts them anywhere outside an ATOMIC_BLOCK.  Inside one, and inside *)
(* the interrupt handler, the steps that read RTC.CNT or the list are kept *)
(* apart so that the counter can move between them.                        *)
(*                                                                         *)
(* The doubly linked list is its sequence of nodes; TimerList adds the     *)
(* pointers.  RTC.COMP and the variable ticks are only ever written        *)
(* together with one value and are one variable here; a write to CNT and   *)
(* COMP takes effect at once.                                              *)
(***************************************************************************)
EXTENDS Integers, Sequences, Functions

CONSTANTS Requests,    \* the timers clients add: [cb, freq, lifetime]
          NoCallback,  \* content of a block never used
          MaxTimers,   \* MAX_TIMERS, the blocks of task_pool
          Width,       \* 2^16: RTC.CNT and timer_ticks_t wrap at this value
          MaxCalls     \* bound: calls of add_timer and del_timer in a behaviour

ASSUME PoolAssumption == MaxTimers \in Nat \ {0}
ASSUME WidthAssumption == Width \in Nat \ {0, 1}
ASSUME RequestAssumption ==
    \A r \in Requests : r.freq \in 1 .. Width - 1 /\ r.lifetime \in Nat
ASSUME CallAssumption == MaxCalls \in Nat

TIMER_RUN_UNLIMITED == 0

Callbacks == {r.cb : r \in Requests} \cup {NoCallback}

\* main's threads are cooperative and count as one; a medium level interrupt
\* handler (the keypad's) may preempt them between init_timer and the
\* ATOMIC_BLOCK of add_timer.
Contexts == {"task", "isr"}

Blocks == 1 .. MaxTimers
NoBlock == 0

VARIABLES
    task_list,   \* the registered nodes in list order
    cur,         \* TIMER_RUN: the nodes of the old list not yet visited
    refcnt,      \* the pool's reference count of each block
    task,        \* the timer_task in each block
    ticks,       \* RTC.COMP and the variable ticks
    cnt,         \* RTC.CNT
    compif,      \* the compare match flag; only the interrupt clears it
    inten,       \* the compare interrupt is enabled
    held,        \* per context, the node init_timer gave to add_timer
    owner,       \* the context inside add_timer's ATOMIC_BLOCK
    pos,         \* the position its adjusting loop has reached
    pc,          \* "open" where interrupts may be taken
    slipped,     \* the RTC has counted inside the current block or handler
    calls,       \* calls made so far
    due          \* history: counts missing until each node's period is over

clientVars == <<held, owner, pos, calls>>
listVars == <<task_list, cur, refcnt, task>>
rtcVars == <<ticks, cnt, compif, inten>>
vars == <<listVars, rtcVars, clientVars, pc, slipped, due>>

AtLeast0(x) == IF x < 0 THEN 0 ELSE x

Init == /\ task_list = <<>> /\ cur = <<>>
        /\ refcnt = [b \in Blocks |-> 0]
        /\ task = [b \in Blocks |-> [cb |-> NoCallback, freq |-> 0,
                                     ticks |-> 0, lifetime |-> 0]]
        /\ ticks = 1 /\ cnt = 0 /\ compif = FALSE /\ inten = FALSE
        /\ held = [c \in Contexts |-> NoBlock]
        /\ owner = "task" /\ pos = 1
        /\ pc = "open" /\ slipped = FALSE /\ calls = 0
        /\ due = [b \in Blocks |-> 0]

-----------------------------------------------------------------------------
\* __add_timer_node's loops: node n goes before the first node that has at
\* least as many ticks.  Equivalent for the head and for later positions.
IsPlace(list, tk, n, k) ==
    /\ k \in 1 .. Len(list) + 1
    /\ \A j \in 1 .. k - 1 : tk[list[j]].ticks < tk[n].ticks
    /\ k <= Len(list) => tk[list[k]].ticks >= tk[n].ticks

Inserted(list, k, n) ==
    [j \in 1 .. Len(list) + 1 |-> IF j < k THEN list[j]
                                  ELSE IF j = k THEN n ELSE list[j - 1]]

Removed(list, k) ==
    [j \in 1 .. Len(list) - 1 |-> IF j < k THEN list[j] ELSE list[j + 1]]

\* Slip: the interrupt is enabled but the counter is not restarted.
SetTicksKeepsCnt(list, tk) ==
    IF list = <<>> THEN /\ inten' = FALSE
                        /\ UNCHANGED <<ticks, cnt>>
                   ELSE /\ inten' = TRUE
                        /\ ticks' = tk[list[1]].ticks
                        /\ UNCHANGED cnt

\* Arms the compare for the head of the list; leaves the flag as it is.  The wait
\* for the write before to be synchronised (RTC_SYNCBUSY, line 159) is left out:
\* a count meanwhile does what any count between the loop and these stores does.
SetTicks(list, tk) ==
    IF list = <<>> THEN /\ inten' = FALSE
                        /\ UNCHANGED <<ticks, cnt>>
                   ELSE /\ inten' = TRUE
                        /\ ticks' = tk[list[1]].ticks
                        /\ cnt' = 0

-----------------------------------------------------------------------------
\* Clients.  An interrupt handler that has started runs before the task goes on.
MayRun(c) == /\ pc = "open"
             /\ c = "task" => held["isr"] = NoBlock

Call(c) == /\ MayRun(c)
           /\ held[c] = NoBlock
           /\ calls < MaxCalls
           /\ calls' = calls + 1

\* add_timer, line 88: init_timer takes the first free block.  Clients ask for
\* no more timers than there are blocks: with none free, add_timer goes on to
\* dereference NULL, which this model does not follow.
InitTimer(c, r) ==
    \E b \in Blocks :
        /\ Call(c)
        /\ refcnt[b] = 0
        /\ \A a \in 1 .. b - 1 : refcnt[a] # 0
        /\ refcnt' = [refcnt EXCEPT ![b] = 1]
        /\ task' = [task EXCEPT ![b] = [cb |-> r.cb, freq |-> r.freq, ticks |-> r.freq,
                                        lifetime |-> r.lifetime]]
        /\ held' = [held EXCEPT ![c] = b]
        /\ due' = [due EXCEPT ![b] = r.freq]
        /\ UNCHANGED <<task_list, cur, rtcVars, owner, pos, pc, slipped>>

\* The ATOMIC_BLOCK of add_timer begins; an empty list needs no adjusting.
EnterAdd(c) == /\ MayRun(c)
               /\ held[c] # NoBlock
               /\ owner' = c
               /\ pos' = 1
               /\ pc' = IF task_list = <<>> THEN "link" ELSE "compare"
               /\ UNCHANGED <<listVars, rtcVars, held, calls, slipped, due>>

NextNode == /\ pos' = pos + 1
            /\ pc' = IF pos = Len(task_list) THEN "link" ELSE "compare"

\* Line 119: the first read of RTC.CNT for the node, and line 122.
Compare ==
    /\ pc = "compare"
    /\ LET n == task_list[pos]
       IN IF task[n].ticks >= cnt
          THEN /\ pc' = "deduct"
               /\ UNCHANGED <<task, pos>>
          ELSE /\ task' = [task EXCEPT ![n].ticks = 0]
               /\ NextNode
    /\ UNCHANGED <<task_list, cur, refcnt, rtcVars, held, owner, calls, slipped, due>>

\* Slip: the difference is kept in a wider, signed type.
DeductSigned ==
    /\ pc = "deduct"
    /\ LET n == task_list[pos]
       IN task' = [task EXCEPT ![n].ticks = @ - cnt]
    /\ NextNode
    /\ UNCHANGED <<task_list, cur, refcnt, rtcVars, held, owner, calls, slipped, due>>

\* Line 120: RTC.CNT is read again and subtracted in 16 bits.
Deduct ==
    /\ pc = "deduct"
    /\ LET n == task_list[pos]
       IN task' = [task EXCEPT ![n].ticks = (@ - cnt) % Width]
    /\ NextNode
    /\ UNCHANGED <<task_list, cur, refcnt, rtcVars, held, owner, calls, slipped, due>>

\* Lines 109 to 112 and 127 to 144, then set_ticks.
Link ==
    /\ pc = "link"
    /\ LET n == held[owner]
       IN \E k \in 1 .. Len(task_list) + 1 :
             /\ IsPlace(task_list, task, n, k)
             /\ task_list' = Inserted(task_list, k, n)
             /\ SetTicks(task_list', task)
    /\ held' = [held EXCEPT ![owner] = NoBlock]
    /\ pc' = "open"
    /\ slipped' = FALSE
    /\ owner' = "task" /\ pos' = 1
    /\ UNCHANGED <<cur, refcnt, task, compif, calls, due>>

\* Slip: the node is unlinked but its block is not given back.
DelTimerLeaks(c, cb) ==
    /\ Call(c)
    /\ \E k \in 1 .. Len(task_list) :
          /\ task[task_list[k]].cb = cb
          /\ task_list' = Removed(task_list, k)
          /\ SetTicks(task_list', task)
    /\ UNCHANGED <<cur, refcnt, task, compif, held, owner, pos, pc, slipped, due>>

\* __del_timer's loop: the first node with this callback.
IsFirst(k, cb) == /\ k \in 1 .. Len(task_list)
                  /\ task[task_list[k]].cb = cb
                  /\ \A j \in 1 .. k - 1 : task[task_list[j]].cb # cb

\* del_timer: that node, if any, is unlinked and given back; set_ticks restarts
\* the counter either way, with no adjusting.
DelTimer(c, cb) ==
    /\ Call(c)
    /\ \/ \E k \in 1 .. Len(task_list) :
             /\ IsFirst(k, cb)
             /\ task_list' = Removed(task_list, k)
             /\ refcnt' = [refcnt EXCEPT ![task_list[k]] = 0]
       \/ /\ \A k \in 1 .. Len(task_list) : ~IsFirst(k, cb)
          /\ UNCHANGED <<task_list, refcnt>>
    /\ SetTicks(task_list', task)
    /\ UNCHANGED <<cur, task, compif, held, owner, pos, pc, slipped, due>>

-----------------------------------------------------------------------------
\* TIMER_RUN.  Taking the interrupt clears the flag.  A flag raised before the
\* counter was restarted brings the interrupt ticks - cnt counts too soon, and
\* the handler then runs as if they had passed; due is relieved of them.
Interrupt ==
    /\ pc = "open"
    /\ compif /\ inten
    /\ compif' = FALSE
    /\ cur' = task_list
    /\ task_list' = <<>>
    /\ pc' = "run"
    /\ due' = [b \in Blocks |-> AtLeast0(due[b] - AtLeast0(ticks - cnt))]
    /\ UNCHANGED <<refcnt, task, ticks, cnt, inten, clientVars, slipped>>

\* Put back with __add_timer_node(node, 0).
Relist(n, tk) ==
    \E k \in 1 .. Len(task_list) + 1 :
        /\ IsPlace(task_list, tk, n, k)
        /\ task_list' = Inserted(task_list, k, n)

\* Slip: a node with one tick to go is taken for due.
DueSoon(n) == task[n].ticks <= ticks + 1

Due(n) == task[n].ticks <= ticks

Expires(n) == task[n].lifetime = 1

\* Lines 234 to 242: the node's callback runs.  It does not touch timers.
RunNode ==
    /\ pc = "run" /\ cur # <<>>
    /\ cur' = Tail(cur)
    /\ LET n == Head(cur)
       IN /\ Due(n)
          /\ \/ /\ Expires(n)
                /\ task' = [task EXCEPT ![n].lifetime = 0]
                /\ refcnt' = [refcnt EXCEPT ![n] = 0]
                /\ UNCHANGED <<task_list, due>>
             \/ /\ ~Expires(n)
                /\ task' = [task EXCEPT ![n] =
                      [cb |-> @.cb, freq |-> @.freq, ticks |-> @.freq,
                       lifetime |-> AtLeast0(@.lifetime - 1)]]
                /\ due' = [due EXCEPT ![n] = task[n].freq]
                /\ Relist(n, task')
                /\ UNCHANGED refcnt
    /\ UNCHANGED <<rtcVars, clientVars, pc, slipped>>

\* Slip: a node that does not run keeps all its ticks.
CarryNodeKeepsTicks ==
    /\ pc = "run" /\ cur # <<>>
    /\ cur' = Tail(cur)
    /\ LET n == Head(cur)
       IN /\ ~Due(n)
          /\ task' = task
          /\ Relist(n, task)
    /\ UNCHANGED <<refcnt, rtcVars, clientVars, pc, slipped, due>>

\* Lines 243 to 251: the node waits for the rest of its ticks.
CarryNode ==
    /\ pc = "run" /\ cur # <<>>
    /\ cur' = Tail(cur)
    /\ LET n == Head(cur)
       IN /\ ~Due(n)
          /\ task' = [task EXCEPT ![n].ticks = @ - ticks]
          /\ Relist(n, task')
    /\ UNCHANGED <<refcnt, rtcVars, clientVars, pc, slipped, due>>

Rearm == /\ pc = "run" /\ cur = <<>>
         /\ SetTicks(task_list, task)
         /\ pc' = "open"
         /\ slipped' = FALSE
         /\ UNCHANGED <<listVars, compif, clientVars, due>>

-----------------------------------------------------------------------------
\* The RTC counts about once a millisecond.  A pending interrupt that may be
\* taken is taken before the next count, and a block or a run of the handler
\* is shorter than two counts.  The flag rises on the count after a match.
RtcCount ==
    /\ ~(pc = "open" /\ compif /\ inten)
    /\ ~slipped
    /\ slipped' = (pc # "open")
    /\ cnt' = (cnt + 1) % Width
    /\ compif' = (compif \/ cnt = ticks)
    /\ due' = [b \in Blocks |-> AtLeast0(due[b] - 1)]
    /\ UNCHANGED <<listVars, ticks, inten, clientVars, pc>>

Cpu == \/ \E c \in Contexts : EnterAdd(c)
       \/ Compare
       \/ Deduct
       \/ Link
       \/ Interrupt
       \/ RunNode
       \/ CarryNode
       \/ Rearm

Next == \/ \E c \in Contexts, r \in Requests : InitTimer(c, r)
        \/ \E c \in Contexts, r \in Requests : DelTimer(c, r.cb)
        \/ Cpu
        \/ RtcCount

\* The oscillator runs and the processor executes what it has begun.
Spec == Init /\ [][Next]_vars /\ WF_vars(Cpu) /\ WF_vars(RtcCount)

-----------------------------------------------------------------------------
\* Type correctness of the pool, the list, the RTC registers and the program
\* positions of add_timer and TIMER_RUN.
TypeOK ==
    /\ task_list \in Seq(Blocks) /\ cur \in Seq(Blocks)
    /\ refcnt \in [Blocks -> {0, 1}]
    /\ task \in [Blocks -> [cb : Callbacks, freq : 0 .. Width - 1,
                            ticks : 0 .. Width - 1, lifetime : Nat]]
    /\ ticks \in 0 .. Width - 1 /\ cnt \in 0 .. Width - 1
    /\ compif \in BOOLEAN /\ inten \in BOOLEAN
    /\ held \in [Contexts -> Blocks \cup {NoBlock}]
    /\ owner \in Contexts /\ pos \in Nat
    /\ pc \in {"open", "compare", "deduct", "link", "run"}
    /\ slipped \in BOOLEAN /\ calls \in 0 .. MaxCalls
    /\ due \in [Blocks -> Nat]

Listed == Range(task_list) \cup Range(cur)
Held == {held[c] : c \in Contexts} \ {NoBlock}

\* Every allocated block is a node in the list exactly once or in the hands of
\* one add_timer: no node leaks, none is freed while it is linked, and none is
\* linked twice, however add_timer, del_timer and the interrupt interleave.
PoolExact ==
    /\ \A b \in Blocks : refcnt[b] = 1 <=> b \in Listed \cup Held
    /\ IsInjective(task_list) /\ IsInjective(cur)
    /\ Range(task_list) \cap Range(cur) = {}
    /\ Listed \cap Held = {}
    /\ held["task"] = held["isr"] => held["task"] = NoBlock

\* A callback never runs before its period has passed since it was registered
\* or last run (counts skipped by an interrupt from a stale flag aside), though
\* periods are carried over by several interrupts, adds and deletes.
NeverEarly == [][RunNode => due[Head(cur)] = 0]_vars

\* While a timer is registered the compare interrupt is enabled for the head,
\* and the counter has not passed the compare value without raising the flag:
\* a missed match would silence every timer until the counter wraps.
MatchNotMissed ==
    IF pc # "open" THEN TRUE
    ELSE IF task_list = <<>> THEN ~inten
    ELSE /\ inten
         /\ ticks = task[task_list[1]].ticks
         /\ compif \/ cnt <= ticks

\* A registered timer whose period has passed is run or deleted, as long as
\* clients do not add and delete timers for ever: each del_timer restarts the
\* count towards the head.
DueTimerRuns ==
    \A b \in Blocks :
        (b \in Range(task_list) /\ due[b] = 0) ~> (due[b] > 0 \/ refcnt[b] = 0)

-----------------------------------------------------------------------------
\* timer.c:148 says set_ticks sets "the number of ticks until the next
\* interrupt": the interrupt comes when the counter has reached them.
InterruptAfterTicks == [][Interrupt => cnt >= ticks]_vars

\* timer.c:97-99 says the partial tick is "deducted from the timers": adding
\* one timer never gives another more ticks to wait.
AddOnlyDeducts ==
    [][(Compare \/ Deduct) =>
          \A b \in Range(task_list) : task'[b].ticks <= task[b].ticks]_vars
=============================================================================
