------------------------------ MODULE Threads --------------------------------
(***************************************************************************)
(* threads.c and threads.h: two coroutines, main_thread and temp_run, each *)
(* with a region of memory for its stack.  A switch is executed by the     *)
(* thread that gives up the processor.  Between any two of its steps an    *)
(* interrupt is taken while SREG's I bit is set, and what it saves is      *)
(* written below the stack pointer, whatever that is; instructions between *)
(* which an interrupt cannot come or tell a difference are one step.       *)
(*                                                                         *)
(* Stacks grow downwards in the code and upwards here.  A cell stands for  *)
(* one thing a thread keeps on its stack (r1 to r31 are one cell, and so   *)
(* is a return address) and its value names the thread it belongs to.      *)
(***************************************************************************)
EXTENDS Integers

CONSTANTS StackSize,  \* THREADS_STACK_SIZE: cells below the initial frame
          Depths,     \* how many cells the calls that lead to a switch occupy
          IsrCells,   \* bound: cells the interrupts nested at once occupy
          Mixtures,   \* addresses made of the bytes of two stack pointers
          Junk        \* what an interrupt leaves behind

\* The code checks nothing: this is what its two sizes must satisfy.
ASSUME StackAssumption == /\ StackSize \in Nat /\ IsrCells \in Nat /\ Depths \subseteq Nat
                          /\ \A d \in Depths \cup {0} : d + IsrCells <= StackSize
ASSUME MixtureAssumption == Mixtures \subseteq Int

Main == 0   \* thread_create's pids, in the order of main.c
Temp == 1
Threads == {Main, Temp}

VARIABLES mem,    \* memory below threads.top_of_stack
          tcb,    \* threads.list[t].stack
          cur,    \* threads.tcb
          sp,     \* SPH:SPL
          regs,   \* pc: the code the switch will return to; r0; sreg; rest: r1..r31
          at,     \* the next instruction of a switch, or "run" in a thread's own code
          depth   \* cells of a thread's calls on its stack while it switches

cpuVars == <<sp, regs, at>>
threadVars == <<mem, tcb, cur, cpuVars, depth>>

-----------------------------------------------------------------------------
\* thread_stack_init: a frame as thread_context_out would leave it, with the I
\* bit set, on a filler.
InitialFrame(t) == <<<<t, "fill">>, <<t, "pc">>, <<t, "r0">>, <<t, "on">>, <<t, "rest">>>>
FrameCells == 5

\* Slip: the next stack begins at the frame just built.
TopNoRoom(t) == t * FrameCells

\* thread_create: the next stack begins THREADS_STACK_SIZE beyond the frame.
Top(t) == t * (FrameCells + StackSize)

Addresses == 0 .. Top(2) - 1

ThreadsInit == /\ mem = [a \in Addresses |-> Junk]
               /\ tcb = [t \in Threads |-> 0] /\ cur = Main
               /\ sp = 0 /\ at = "boot"
               /\ regs = [pc |-> <<Main, "pc">>, r0 |-> Junk, sreg |-> <<Main, "off">>,
                          rest |-> Junk]
               /\ depth = [t \in Threads |-> 0]

\* The thread whose code runs or executes the switch.
Self == regs.pc[1]
Runs(t) == at = "run" /\ Self = t
InterruptsOn == regs.sreg[2] = "on"

Step(here, next) == at = here /\ at' = next

StackInit(m, t) ==
    [a \in Addresses |-> IF a - Top(t) \in 0 .. FrameCells - 1
                        THEN InitialFrame(t)[a - Top(t) + 1] ELSE m[a]]

\* thread_create twice and threads_start_main, which begins as OutSpl does.
StartMain ==
    /\ Step("boot", "out_sph")
    /\ mem' = StackInit(StackInit(mem, Main), Temp)
    /\ tcb' = [t \in Threads |-> Top(t) + FrameCells]
    /\ cur' = Main
    /\ sp' \in Mixtures
    /\ UNCHANGED <<regs, depth>>

-----------------------------------------------------------------------------
\* An interrupt: the thread's registers are restored, the memory is not.
Interrupt ==
    /\ InterruptsOn
    /\ mem' = [a \in Addresses |-> IF a - sp \in 0 .. IsrCells - 1 THEN Junk ELSE mem[a]]
    /\ UNCHANGED <<tcb, cur, cpuVars, depth>>

-----------------------------------------------------------------------------
\* What has been popped may be overwritten at any time: it counts as junk.
Pop(n) == /\ sp' = sp - n
          /\ mem' = [a \in Addresses |-> IF sp - a \in 1 .. n THEN Junk ELSE mem[a]]

\* The calls that lead to block or onewire_resume, k cells deep, and their own.
SwitchTo(t) ==
    /\ Runs(1 - t) /\ at' = "push_r0"
    /\ \E k \in Depths :
          /\ depth' = [depth EXCEPT ![Self] = k]
          /\ mem' = [a \in Addresses |-> IF a - sp \in 0 .. k - 1 THEN <<Self, "frame">>
                                         ELSE IF a = sp + k THEN regs.pc ELSE mem[a]]
          /\ sp' = sp + k + 1
    /\ UNCHANGED <<tcb, cur, regs>>

\* Slip: SREG is read after cli.
PushR0Late == /\ Step("push_r0", "cli")
              /\ mem' = [mem EXCEPT ![sp] = regs.r0] /\ sp' = sp + 1
              /\ regs' = [regs EXCEPT !.r0 = <<regs.sreg[1], "off">>]
              /\ UNCHANGED <<tcb, cur, depth>>

\* thread_context_out: push r0, in r0.
PushR0 == /\ Step("push_r0", "cli")
          /\ mem' = [mem EXCEPT ![sp] = regs.r0] /\ sp' = sp + 1
          /\ regs' = [regs EXCEPT !.r0 = regs.sreg]
          /\ UNCHANGED <<tcb, cur, depth>>

\* Slip: interrupts stay on during the switch.
CliMissing == /\ Step("cli", "push_rest")
              /\ UNCHANGED <<mem, tcb, cur, sp, regs, depth>>

Cli == /\ Step("cli", "push_rest")
       /\ regs' = [regs EXCEPT !.sreg = <<@[1], "off">>]
       /\ UNCHANGED <<mem, tcb, cur, sp, depth>>

\* SREG, which r0 holds, and r1 to r31 are pushed; the stack pointer is stored
\* with the help of registers just saved.
PushRest == /\ Step("push_rest", "out_spl")
            /\ mem' = [mem EXCEPT ![sp] = regs.r0, ![sp + 1] = regs.rest]
            /\ sp' = sp + 2
            /\ tcb' = [tcb EXCEPT ![cur] = sp + 2]
            /\ regs' = [regs EXCEPT !.rest = Junk]
            /\ UNCHANGED <<cur, depth>>

\* threads.tcb is set and thread_context_in begins: after the first of the two
\* stores the stack pointer is a mixture of two addresses.
OutSpl == /\ Step("out_spl", "out_sph")
          /\ cur' = 1 - Self
          /\ sp' \in Mixtures
          /\ UNCHANGED <<mem, tcb, regs, depth>>

OutSph == /\ Step("out_sph", "pop_rest")
          /\ sp' = tcb[cur]
          /\ UNCHANGED <<mem, tcb, cur, regs, depth>>

\* r31 to r1, and SREG by way of r0: interrupts are on again if they were.
PopRest == /\ Step("pop_rest", "pop_r0")
           /\ Pop(2)
           /\ regs' = [regs EXCEPT !.rest = mem[sp - 1], !.sreg = mem[sp - 2],
                                   !.r0 = mem[sp - 2]]
           /\ UNCHANGED <<tcb, cur, depth>>

PopR0 == /\ Step("pop_r0", "back")
         /\ Pop(2)
         /\ regs' = [regs EXCEPT !.r0 = mem[sp - 1], !.pc = mem[sp - 2]]
         /\ UNCHANGED <<tcb, cur, depth>>

\* The calls that led to the switch return.
Unwind == /\ Step("back", "run")
          /\ Pop(depth[Self])
          /\ depth' = [depth EXCEPT ![Self] = 0]
          /\ UNCHANGED <<tcb, cur, regs>>

Switching == \/ PushR0 \/ Cli \/ PushRest \/ OutSpl \/ OutSph
             \/ PopRest \/ PopR0 \/ Unwind

\* Any thread may give up the processor at any time; Kernel says when they do.
ThreadsNext == \/ StartMain \/ Switching \/ Interrupt
               \/ \E t \in Threads : SwitchTo(t)

ThreadsSpec == ThreadsInit /\ [][ThreadsNext]_threadVars

-----------------------------------------------------------------------------
\* The cells of t's stack from its top to what it pushed before its registers.
OwnCells(t) == /\ mem[Top(t)] = <<t, "fill">>
               /\ \A a \in Top(t) + 1 .. Top(t) + depth[t] : mem[a] = <<t, "frame">>

\* A thread that has the processor finds its own registers, return addresses
\* and stack pointer as it left them, interrupts enabled; the frame of the one
\* that waits is complete.  Interrupts come between all instructions but those
\* after cli, and the two stacks have no other guard than their distance.
OwnContext ==
    at \in {"run", "back"} =>
        /\ regs = [pc |-> <<Self, "pc">>, r0 |-> <<Self, "r0">>, sreg |-> <<Self, "on">>,
                   rest |-> <<Self, "rest">>]
        /\ sp = Top(Self) + 1 + depth[Self]
        /\ OwnCells(Self)
        /\ LET t == 1 - Self
               d == Top(t) + depth[t]
           IN /\ OwnCells(t)
              /\ tcb[t] = d + FrameCells
              /\ \A i \in 2 .. FrameCells : mem[d + i - 1] = InitialFrame(t)[i]
=============================================================================
