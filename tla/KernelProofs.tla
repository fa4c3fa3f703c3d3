---------------------------- MODULE KernelProofs ----------------------------
(***************************************************************************)
(* The thread switch for every size of the stacks, every depth of calls    *)
(* and every nesting of interrupts that together fit into them; the event  *)
(* queue for every set of callbacks and every size; and both as the whole  *)
(* program uses them.                                                      *)
(***************************************************************************)
EXTENDS Kernel, RingQueueProofs, FiniteSetTheorems

Base(t) == Top(t) + depth[t]

\* The first n cells t pushed on top of its calls are in place: the return
\* address, r0, SREG, the other registers.
Pushed(t, n) == /\ OwnCells(t)
                /\ n >= 2 => mem[Base(t) + 1] = <<t, "pc">>
                /\ n >= 3 => mem[Base(t) + 2] = <<t, "r0">>
                /\ n >= 5 => mem[Base(t) + 3] = <<t, "on">> /\ mem[Base(t) + 4] = <<t, "rest">>

\* A thread that may be switched to.
Complete(t) == Pushed(t, 5) /\ tcb[t] = Base(t) + 5

Shapes == /\ cur \in Threads
          /\ DOMAIN mem = Addresses /\ DOMAIN tcb = Threads
          /\ depth \in [Threads -> Depths \cup {0}]

\* The thread that is being switched from or to has n cells pushed.
Holds(c, n) == Pushed(c, n) /\ sp = Base(c) + n

Regs(c, r0, sreg) == [pc |-> <<c, "pc">>, r0 |-> <<c, r0>>, sreg |-> <<c, sreg>>,
                      rest |-> <<c, "rest">>]

\* What each instruction of the switch finds when threads.tcb is c.
AtInv(c) ==
    /\ at = "boot" => regs.pc = <<c, "pc">> /\ regs.sreg = <<c, "off">>
    /\ at = "run" => Holds(c, 1) /\ regs = Regs(c, "r0", "on") /\ depth[c] = 0
    /\ at = "push_r0" => Holds(c, 2) /\ regs = Regs(c, "r0", "on")
    /\ at = "cli" => Holds(c, 3) /\ regs = Regs(c, "on", "on")
    /\ at = "push_rest" => Holds(c, 3) /\ regs = Regs(c, "on", "off")
    /\ at = "out_spl" => /\ Complete(c)
                         /\ regs.pc = <<c, "pc">> /\ regs.sreg = <<c, "off">>
    /\ at = "out_sph" => Complete(c) /\ regs.sreg[2] = "off"
    /\ at = "pop_rest" => Complete(c) /\ sp = tcb[c] /\ regs.sreg[2] = "off"
    /\ at = "pop_r0" => /\ Holds(c, 3)
                        /\ regs.sreg = <<c, "on">> /\ regs.rest = <<c, "rest">>
    /\ at = "back" => Holds(c, 1) /\ regs = Regs(c, "r0", "on")

Instructions == {"boot", "run", "push_r0", "cli", "push_rest", "out_spl", "out_sph",
                 "pop_rest", "pop_r0", "back"}

TInv == /\ Shapes /\ at \in Instructions
        /\ at = "boot" => depth = [t \in Threads |-> 0]
        /\ \A c \in {0, 1} : cur = c => AtInv(c) /\ (at # "boot" => Complete(1 - c))

RegsRecord == regs = [pc |-> regs.pc, r0 |-> regs.r0, sreg |-> regs.sreg, rest |-> regs.rest]

-----------------------------------------------------------------------------
\* Two stacks of StackSize + 5 cells.
Region(t) == Top(t) .. Top(t) + StackSize + 4

LEMMA Stacks ==
  ASSUME Shapes
  PROVE  /\ Threads = {0, 1} /\ cur \in {0, 1} /\ 1 - cur \in {0, 1}
         /\ StackSize \in Nat /\ IsrCells \in Nat
         /\ \A a \in Addresses : a \in Int
         /\ Top(0) = 0 /\ Top(1) = StackSize + 5
         /\ \A t \in {0, 1} :
               /\ Top(t) \in Nat /\ Region(t) \subseteq Addresses
               /\ depth[t] \in Nat /\ depth[t] + IsrCells <= StackSize
               /\ Base(t) \in Nat /\ Base(t) + 4 \in Region(t)
               /\ \A a \in Region(t) : a \notin Region(1 - t)
  <1>1. Threads = {0, 1}
    BY DEF Threads, Main, Temp
  <1>2. /\ StackSize \in Nat /\ IsrCells \in Nat
        /\ \A t \in {0, 1} : depth[t] \in Nat /\ depth[t] + IsrCells <= StackSize
    <2>1. \A t \in {0, 1} : depth[t] \in Depths \cup {0}
      BY <1>1 DEF Shapes
    <2>2. \A d \in Depths \cup {0} : d \in Nat /\ d + IsrCells <= StackSize
      BY StackAssumption
    <2> QED BY <2>1, <2>2, StackAssumption
  <1>3. Top(0) = 0 /\ Top(1) = StackSize + 5 /\ Top(2) = 2 * (StackSize + 5)
    <2> DEFINE w == FrameCells + StackSize
    <2>1. w \in Int /\ w = StackSize + 5
      BY <1>2 DEF FrameCells
    <2> HIDE DEF w
    <2>2. 0 * w = 0 /\ 1 * w = w /\ 2 * w = 2 * (StackSize + 5)
      BY <2>1
    <2> QED BY <2>1, <2>2 DEF Top, w
  <1>4. Addresses = 0 .. 2 * (StackSize + 5) - 1
    BY <1>3 DEF Addresses
  <1>5. ASSUME NEW t \in {0, 1}
        PROVE  /\ Top(t) \in Nat /\ Region(t) \subseteq Addresses
               /\ Base(t) \in Nat /\ Base(t) + 4 \in Region(t)
               /\ \A a \in Region(t) : a \notin Region(1 - t)
    <2>1. Region(0) = 0 .. StackSize + 4 /\ Region(1) = StackSize + 5 .. 2 * StackSize + 9
      BY <1>2, <1>3 DEF Region
    <2>2. CASE t = 0
      <3>0. Base(0) = depth[0] /\ depth[0] \in Nat /\ depth[0] <= StackSize
        BY <1>2, <1>3 DEF Base
      <3>1. Top(0) \in Nat /\ Base(0) \in Nat /\ Base(0) + 4 \in Region(0)
        <4>1. Top(0) \in Nat /\ Base(0) \in Nat
          BY <1>3, <3>0
        <4>2. Base(0) + 4 \in 0 .. StackSize + 4
          BY <1>2, <3>0
        <4> QED BY <2>1, <4>1, <4>2
      <3>2. Region(t) \subseteq Addresses
        <4>1. ASSUME NEW a \in Region(0) PROVE a \in Addresses
          <5>1. a \in Int /\ 0 <= a /\ a <= StackSize + 4
            BY <1>2, <2>1
          <5>2. a <= 2 * (StackSize + 5) - 1
            BY <1>2, <5>1
          <5> QED BY <1>2, <1>4, <5>1, <5>2
        <4> QED BY <2>2, <4>1
      <3>3. 1 - t = 1 /\ \A a \in Region(0) : a \notin Region(1)
        BY <1>2, <2>1, <2>2
      <3> QED BY <2>2, <3>1, <3>2, <3>3
    <2>3. CASE t = 1
      <3>0. Base(1) = StackSize + 5 + depth[1] /\ depth[1] \in Nat /\ depth[1] <= StackSize
        BY <1>2, <1>3 DEF Base
      <3>1. Top(1) \in Nat /\ Base(1) \in Nat /\ Base(1) + 4 \in Region(1)
        <4>1. Top(1) \in Nat
          BY <1>2, <1>3
        <4>2. Base(1) \in Nat /\ Base(1) + 4 \in StackSize + 5 .. 2 * StackSize + 9
          BY <1>2, <3>0
        <4> QED BY <2>1, <4>1, <4>2
      <3>2. Region(t) \subseteq Addresses
        <4>1. ASSUME NEW a \in Region(1) PROVE a \in Addresses
          <5>1. a \in Int /\ StackSize + 5 <= a /\ a <= 2 * StackSize + 9
            BY <1>2, <2>1
          <5>2. a <= 2 * (StackSize + 5) - 1
            BY <1>2, <5>1
          <5> QED BY <1>2, <1>4, <5>1, <5>2
        <4> QED BY <2>3, <4>1
      <3>3. 1 - t = 0 /\ \A a \in Region(1) : a \notin Region(0)
        BY <1>2, <2>1, <2>3
      <3> QED BY <2>3, <3>1, <3>2, <3>3
    <2> QED BY <2>2, <2>3
  <1>6. cur \in {0, 1} /\ 1 - cur \in {0, 1}
    BY <1>1 DEF Shapes
  <1>7. \A a \in Addresses : a \in Int
    BY <1>4
  <1> QED BY <1>1, <1>2, <1>3, <1>5, <1>6, <1>7

\* What a thread has pushed stays if only cells beyond it are written.
LEMMA PushedKept ==
  ASSUME Shapes, NEW t \in {0, 1}, NEW n \in 1 .. 5, Pushed(t, n), depth'[t] = depth[t],
         \A a \in Region(t) : a < Base(t) + n => mem'[a] = mem[a]
  PROVE  Pushed(t, n)'
  <1>1. /\ Top(t) \in Nat /\ depth[t] \in Nat /\ depth[t] <= StackSize /\ StackSize \in Nat
        /\ Base(t) = Top(t) + depth[t]
    BY Stacks DEF Base
  <1>2. Base(t)' = Base(t)
    BY DEF Base, Top
  <1>3. OwnCells(t)'
    <2>1. mem'[Top(t)] = mem[Top(t)]
      BY <1>1 DEF Region
    <2>2. \A a \in Top(t) + 1 .. Top(t) + depth[t] : mem'[a] = mem[a]
      BY <1>1 DEF Region
    <2> QED BY <2>1, <2>2 DEF OwnCells, Pushed, Top
  <1>4. /\ n >= 2 => mem'[Base(t) + 1] = mem[Base(t) + 1]
        /\ n >= 3 => mem'[Base(t) + 2] = mem[Base(t) + 2]
        /\ n >= 5 => mem'[Base(t) + 3] = mem[Base(t) + 3]
        /\ n >= 5 => mem'[Base(t) + 4] = mem[Base(t) + 4]
    BY <1>1 DEF Region
  <1> QED BY <1>2, <1>3, <1>4 DEF Pushed

LEMMA CompleteKept ==
  ASSUME Shapes, NEW t \in {0, 1}, Complete(t), depth'[t] = depth[t], tcb'[t] = tcb[t],
         \A a \in Region(t) : mem'[a] = mem[a]
  PROVE  Complete(t)'
  <1>1. Pushed(t, 5)'
    BY PushedKept DEF Complete
  <1>2. Base(t)' = Base(t)
    BY DEF Base, Top
  <1> QED BY <1>1, <1>2 DEF Complete

LEMMA Beyond ==
  ASSUME Shapes, NEW c \in {0, 1}, NEW n \in 1 .. 5, Pushed(c, n), Complete(1 - c),
         depth' = depth, tcb'[1 - c] = tcb[1 - c],
         \A a \in Addresses : (a \in Region(c) /\ a >= Base(c) + n) \/ mem'[a] = mem[a]
  PROVE  Pushed(c, n)' /\ Complete(1 - c)'
  <1>1. /\ 1 - c \in {0, 1} /\ 1 - (1 - c) = c
        /\ Region(c) \subseteq Addresses /\ Region(1 - c) \subseteq Addresses
    BY Stacks
  <1>2. \A a \in Region(1 - c) : mem'[a] = mem[a]
    BY <1>1, Stacks
  <1>3. \A a \in Region(c) : a < Base(c) + n => mem'[a] = mem[a]
    BY <1>1, Stacks DEF Region
  <1>4. Complete(1 - c)'
    BY <1>1, <1>2, CompleteKept
  <1> QED BY <1>3, <1>4, PushedKept

-----------------------------------------------------------------------------
LEMMA RegsAre == \A c, r, g : /\ Regs(c, r, g).pc = <<c, "pc">>
                              /\ Regs(c, r, g).r0 = <<c, r>>
                              /\ Regs(c, r, g).sreg = <<c, g>>
                              /\ Regs(c, r, g).sreg[2] = g
                              /\ Regs(c, r, g).pc[1] = c
                              /\ Regs(c, r, g).rest = <<c, "rest">>
  BY DEF Regs

LEMMA Initially == ThreadsInit => TInv
  BY DEF ThreadsInit, TInv, Shapes, AtInv, Instructions, Threads, Main, Temp

LEMMA StartKeeps == TInv /\ StartMain => TInv'
  <1> SUFFICES ASSUME TInv, StartMain PROVE TInv'
    OBVIOUS
  <1>1. Shapes'
    BY DEF TInv, StartMain, Shapes, StackInit, Threads, Main
  <1>2. depth = [t \in {0, 1} |-> 0] /\ depth' = depth
    BY DEF StartMain, Step, TInv, Threads, Main, Temp
  <1>3. ASSUME NEW t \in {0, 1} PROVE Complete(t)'
    <2>0. Top(0) = 0 /\ Top(1) = StackSize + 5 /\ StackSize \in Nat
      BY Stacks DEF TInv
    <2>1. /\ Base(t)' = Top(t) /\ Top(t) \in Nat /\ Region(t) \subseteq Addresses
          /\ tcb'[t] = Top(t) + 5
      <3>1. Top(t) \in Nat /\ Region(t) \subseteq Addresses
        BY Stacks DEF TInv
      <3>2. Base(t)' = Top(t) + 0
        BY <1>2 DEF Base, Top
      <3> QED BY <3>1, <3>2 DEF StartMain, Threads, Main, Temp, FrameCells
    <2>2. \A i \in 0 .. 4 : mem'[Top(t) + i] = InitialFrame(t)[i + 1]
      <3>1. \A i \in 0 .. 4 : Top(t) + i \in Region(t)
        BY <2>1, Stacks DEF TInv, Region
      <3>2. CASE t = 1
        BY <2>1, <3>1, <3>2 DEF StartMain, StackInit, Temp, FrameCells
      <3>3. CASE t = 0
        <4>1. \A i \in 0 .. 4 : ~(Top(0) + i - Top(1) \in 0 .. 4)
          BY <2>0
        <4> DEFINE m == StackInit(mem, 0)
        <4>2. \A i \in 0 .. 4 : m[Top(0) + i] = InitialFrame(0)[i + 1]
          BY <2>1, <3>1, <3>3 DEF StackInit, FrameCells
        <4> HIDE DEF m
        <4>3. mem' = StackInit(m, 1)
          BY DEF m, StartMain, Main, Temp
        <4>4. \A i \in 0 .. 4 : StackInit(m, 1)[Top(0) + i] = m[Top(0) + i]
          BY <2>0, <2>1, <3>1, <3>3 DEF StackInit, FrameCells
        <4> QED BY <3>3, <4>2, <4>3, <4>4
      <3> QED BY <3>2, <3>3
    <2>3. /\ mem'[Top(t)] = <<t, "fill">> /\ mem'[Top(t) + 1] = <<t, "pc">>
          /\ mem'[Top(t) + 2] = <<t, "r0">> /\ mem'[Top(t) + 3] = <<t, "on">>
          /\ mem'[Top(t) + 4] = <<t, "rest">>
      BY <2>1, <2>2 DEF InitialFrame
    <2> QED BY <1>2, <2>1, <2>3 DEF Complete, Pushed, OwnCells, Base, Top
  <1>4. /\ cur' = 0 /\ at' = "out_sph" /\ regs'.sreg[2] = "off"
    BY DEF TInv, StartMain, Step, AtInv, Main, Shapes, Threads, Temp
  <1> QED BY <1>1, <1>3, <1>4 DEF TInv, AtInv, Instructions

\* The cells an interrupt may write on are beyond what both threads hold.
LEMMA InterruptKeeps == TInv /\ Interrupt => TInv'
  <1> SUFFICES ASSUME TInv, Interrupt, NEW c \in {0, 1}, cur = c PROVE TInv'
    BY Stacks DEF TInv
  <1>1. Shapes /\ Shapes' /\ AtInv(c) /\ (at # "boot" => Complete(1 - c))
    BY DEF TInv, Interrupt, Shapes
  <1>2. /\ at' = at /\ sp' = sp /\ regs' = regs /\ depth' = depth /\ tcb' = tcb
        /\ cur' = cur /\ regs.sreg[2] = "on"
    BY DEF Interrupt, InterruptsOn, cpuVars
  <1>3. at \in {"run", "push_r0", "cli", "pop_r0", "back"}
    BY <1>1, <1>2, RegsAre DEF TInv, AtInv, Instructions
  <1>4. PICK n \in 1 .. 3 : Holds(c, n)
    BY <1>1, <1>3 DEF AtInv
  <1>5. \A a \in Addresses : (a \in Region(c) /\ a >= Base(c) + n) \/ mem'[a] = mem[a]
    <2>1. /\ Base(c) \in Nat /\ Base(c) = Top(c) + depth[c] /\ Top(c) \in Nat
          /\ depth[c] \in Nat /\ depth[c] + IsrCells <= StackSize
          /\ StackSize \in Nat /\ IsrCells \in Nat
      BY <1>1, Stacks DEF Base
    <2>2. \A a \in Addresses : a \in Int
      BY <1>1, Stacks
    <2>3. sp = Base(c) + n
      BY <1>4 DEF Holds
    <2>4. \A a \in Addresses : a - sp \in 0 .. IsrCells - 1 \/ mem'[a] = mem[a]
      BY DEF Interrupt
    <2> QED BY <2>1, <2>2, <2>3, <2>4 DEF Region
  <1>6. Complete(1 - c)'
    BY <1>1, <1>2, <1>3, <1>4, <1>5, Beyond DEF Holds
  <1>7. \A m \in 1 .. 3 : Holds(c, m) => Holds(c, m)'
    <2> SUFFICES ASSUME NEW m \in 1 .. 3, Holds(c, m) PROVE Holds(c, m)'
      OBVIOUS
    <2>1. Base(c) \in Int /\ m = n
      BY <1>1, <1>4, Stacks DEF Holds
    <2>2. Pushed(c, m)'
      BY <1>1, <1>2, <1>3, <1>4, <1>5, <2>1, Beyond DEF Holds
    <2> QED BY <1>2, <2>2 DEF Holds, Base, Top
  <1>8. AtInv(c)'
    BY <1>1, <1>2, <1>3, <1>7 DEF AtInv, Regs
  <1> QED BY <1>1, <1>2, <1>3, <1>6, <1>8 DEF TInv, Instructions

-----------------------------------------------------------------------------
\* The switch, instruction by instruction.
LEMMA SwitchToKeeps == ASSUME TInv, NEW t \in Threads, SwitchTo(t) PROVE TInv'
  <1> SUFFICES ASSUME NEW c \in {0, 1}, cur = c PROVE TInv'
    BY Stacks DEF TInv
  <1>1. /\ Shapes /\ AtInv(c) /\ at = "run" /\ Complete(1 - c)
        /\ Holds(c, 1) /\ regs = Regs(c, "r0", "on") /\ depth[c] = 0
    BY DEF TInv, SwitchTo, Runs, AtInv
  <1>2. Self = c /\ regs.pc = <<c, "pc">>
    BY <1>1, RegsAre DEF Self
  <1>3. PICK k \in Depths :
          /\ depth' = [depth EXCEPT ![c] = k]
          /\ mem' = [a \in Addresses |-> IF a - sp \in 0 .. k - 1 THEN <<c, "frame">>
                                         ELSE IF a = sp + k THEN <<c, "pc">> ELSE mem[a]]
          /\ sp' = sp + k + 1
    BY <1>2 DEF SwitchTo
  <1>4. /\ at' = "push_r0" /\ cur' = c /\ tcb' = tcb /\ regs' = regs
    BY DEF SwitchTo
  <1>5. Shapes'
    BY <1>1, <1>3, <1>4 DEF Shapes
  <1>6. /\ k \in Nat /\ k <= StackSize /\ StackSize \in Nat
        /\ Top(c) \in Nat /\ Region(c) \subseteq Addresses
        /\ \A a \in Addresses : a \in Int
    BY <1>1, Stacks, StackAssumption
  <1>7. sp = Top(c) + 1 /\ Base(c)' = Top(c) + k /\ depth'[c] = k
    BY <1>1, <1>3, <1>6, Stacks DEF Holds, Base, Top, Shapes
  <1>8. Pushed(c, 2)'
    <2>1. mem'[Top(c)] = <<c, "fill">>
      <3>1. Top(c) \in Addresses
        BY <1>6 DEF Region
      <3>2. mem'[Top(c)] = mem[Top(c)]
        BY <1>3, <1>6, <1>7, <3>1
      <3> QED BY <1>1, <3>2 DEF Holds, Pushed, OwnCells
    <2>2. \A a \in Top(c) + 1 .. Top(c) + k : a \in Addresses /\ mem'[a] = <<c, "frame">>
      <3> SUFFICES ASSUME NEW a \in Top(c) + 1 .. Top(c) + k
                   PROVE  a \in Addresses /\ mem'[a] = <<c, "frame">>
        OBVIOUS
      <3>1. a \in Region(c) /\ a - sp \in 0 .. k - 1
        BY <1>6, <1>7 DEF Region
      <3>2. a \in Addresses
        BY <1>6, <3>1
      <3> QED BY <1>3, <3>1, <3>2
    <2>3. mem'[Top(c) + k + 1] = <<c, "pc">>
      <3> SUFFICES ASSUME NEW a \in Int, a = Top(c) + k + 1 PROVE mem'[a] = <<c, "pc">>
        BY <1>6
      <3>1. a \in Region(c) /\ ~(a - sp \in 0 .. k - 1) /\ a = sp + k
        BY <1>6, <1>7 DEF Region
      <3>2. a \in Addresses
        BY <1>6, <3>1
      <3> QED BY <1>3, <3>1, <3>2
    <2> QED BY <1>6, <1>7, <2>1, <2>2, <2>3 DEF Pushed, OwnCells, Top
  <1>9. Complete(1 - c)'
    <2>1. 1 - c \in {0, 1} /\ 1 - c # c /\ Region(1 - c) \subseteq Addresses
      BY <1>1, Stacks
    <2>2. \A a \in Region(1 - c) : a \in Addresses /\ a \notin Region(c)
      BY <1>1, <2>1, Stacks
    <2>3. \A a \in Region(1 - c) : mem'[a] = mem[a]
      BY <1>3, <1>6, <1>7, <2>2 DEF Region
    <2>4. depth'[1 - c] = depth[1 - c]
      BY <1>1, <1>3, <2>1, Stacks DEF Shapes
    <2> QED BY <1>1, <1>4, <2>1, <2>3, <2>4, CompleteKept
  <1>10. sp' = Base(c)' + 2
    BY <1>3, <1>6, <1>7
  <1> QED BY <1>1, <1>4, <1>5, <1>8, <1>9, <1>10
          DEF TInv, AtInv, Instructions, Holds, Regs

LEMMA PushR0Keeps == TInv /\ PushR0 => TInv'
  <1> SUFFICES ASSUME TInv, PushR0, NEW c \in {0, 1}, cur = c PROVE TInv'
    BY Stacks DEF TInv
  <1>1. /\ Shapes /\ at = "push_r0" /\ Complete(1 - c)
        /\ Pushed(c, 2) /\ sp = Base(c) + 2 /\ regs = Regs(c, "r0", "on")
    BY DEF TInv, PushR0, Step, AtInv, Holds
  <1>2. /\ at' = "cli" /\ sp' = sp + 1 /\ cur' = c /\ tcb' = tcb /\ depth' = depth
        /\ mem' = [mem EXCEPT ![sp] = <<c, "r0">>]
        /\ regs' = Regs(c, "on", "on")
    BY <1>1, RegsAre DEF PushR0, Step, Regs
  <1>3. Shapes' /\ Base(c)' = Base(c)
    BY <1>1, <1>2 DEF Shapes, Base, Top
  <1>4. sp \in Region(c) /\ sp \in Addresses /\ Base(c) \in Nat
        /\ Base(c) + 1 \in Addresses
    BY <1>1, Stacks DEF Region, Base
  <1>5. \A a \in Addresses : (a \in Region(c) /\ a >= Base(c) + 2) \/ mem'[a] = mem[a]
    BY <1>1, <1>2, <1>4 DEF Shapes
  <1>6. Complete(1 - c)' /\ Pushed(c, 2)'
    BY <1>1, <1>2, <1>5, Beyond
  <1>7. mem'[Base(c) + 2] = <<c, "r0">>
    BY <1>1, <1>2, <1>4 DEF Shapes
  <1>8. Pushed(c, 3)'
    BY <1>3, <1>6, <1>7 DEF Pushed
  <1>9. sp' = Base(c)' + 3
    BY <1>1, <1>2, <1>3, <1>4
  <1> QED BY <1>2, <1>3, <1>6, <1>8, <1>9 DEF TInv, AtInv, Instructions, Holds, Regs

LEMMA CliKeeps == TInv /\ Cli => TInv'
  <1> SUFFICES ASSUME TInv, Cli, NEW c \in {0, 1}, cur = c PROVE TInv'
    BY Stacks DEF TInv
  <1>1. /\ Shapes /\ at = "cli" /\ Complete(1 - c)
        /\ Holds(c, 3) /\ regs = Regs(c, "on", "on")
    BY DEF TInv, Cli, Step, AtInv
  <1>2. /\ at' = "push_rest" /\ sp' = sp /\ cur' = c /\ tcb' = tcb /\ depth' = depth
        /\ mem' = mem /\ regs' = Regs(c, "on", "off")
    BY <1>1, RegsAre DEF Cli, Step, Regs
  <1>3. Shapes' /\ Complete(1 - c)' /\ Holds(c, 3)'
    BY <1>1, <1>2 DEF Shapes, Complete, Holds, Pushed, OwnCells, Base, Top
  <1> QED BY <1>2, <1>3 DEF TInv, AtInv, Instructions, Regs

LEMMA PushRestKeeps == TInv /\ PushRest => TInv'
  <1> SUFFICES ASSUME TInv, PushRest, NEW c \in {0, 1}, cur = c PROVE TInv'
    BY Stacks DEF TInv
  <1>1. /\ Shapes /\ at = "push_rest" /\ Complete(1 - c)
        /\ Pushed(c, 3) /\ sp = Base(c) + 3 /\ regs = Regs(c, "on", "off")
    BY DEF TInv, PushRest, Step, AtInv, Holds
  <1>2. /\ at' = "out_spl" /\ cur' = c /\ depth' = depth
        /\ tcb' = [tcb EXCEPT ![c] = sp + 2]
        /\ mem' = [mem EXCEPT ![sp] = <<c, "on">>, ![sp + 1] = <<c, "rest">>]
        /\ regs'.pc = <<c, "pc">> /\ regs'.sreg = <<c, "off">>
    BY <1>1, RegsAre DEF PushRest, Step, Regs
  <1>3. Shapes' /\ Base(c)' = Base(c)
    BY <1>1, <1>2 DEF Shapes, Base, Top
  <1>4. /\ sp \in Region(c) /\ sp \in Addresses /\ Base(c) \in Nat
        /\ sp + 1 \in Region(c) /\ sp + 1 \in Addresses
    BY <1>1, Stacks DEF Region, Base
  <1>5. \A a \in Addresses : (a \in Region(c) /\ a >= Base(c) + 3) \/ mem'[a] = mem[a]
    BY <1>1, <1>2, <1>4 DEF Shapes
  <1>6. 1 - c # c /\ tcb'[1 - c] = tcb[1 - c] /\ tcb'[c] = sp + 2
    BY <1>1, <1>2, Stacks DEF Shapes
  <1>7. Complete(1 - c)' /\ Pushed(c, 3)'
    <2>1. Shapes /\ Pushed(c, 3) /\ Complete(1 - c) /\ depth' = depth
      BY <1>1, <1>2
    <2> QED BY <1>5, <1>6, <2>1, Beyond
  <1>8. mem'[Base(c) + 3] = <<c, "on">> /\ mem'[Base(c) + 4] = <<c, "rest">>
    <2>1. Base(c) + 3 = sp /\ Base(c) + 4 = sp + 1 /\ sp # sp + 1
      BY <1>1, <1>4
    <2>2. mem'[sp] = <<c, "on">> /\ mem'[sp + 1] = <<c, "rest">>
      BY <1>1, <1>2, <1>4, <2>1 DEF Shapes
    <2> QED BY <2>1, <2>2
  <1>9. Complete(c)'
    BY <1>1, <1>3, <1>4, <1>6, <1>7, <1>8 DEF Complete, Pushed
  <1> QED BY <1>2, <1>3, <1>7, <1>9 DEF TInv, AtInv, Instructions

LEMMA OutSplKeeps == TInv /\ OutSpl => TInv'
  <1> SUFFICES ASSUME TInv, OutSpl, NEW c \in {0, 1}, cur = c PROVE TInv'
    BY Stacks DEF TInv
  <1>1. /\ Shapes /\ Complete(1 - c) /\ Complete(c)
        /\ regs.pc = <<c, "pc">> /\ regs.sreg = <<c, "off">>
    BY DEF TInv, OutSpl, Step, AtInv
  <1>2. /\ at' = "out_sph" /\ cur' = 1 - c /\ mem' = mem /\ tcb' = tcb
        /\ depth' = depth /\ regs'.sreg[2] = "off"
    BY <1>1 DEF OutSpl, Step, Self
  <1>3. \A t \in {0, 1} : Complete(t) => Complete(t)'
    BY <1>2 DEF Complete, Pushed, OwnCells, Base, Top
  <1>4. 1 - c \in {0, 1} /\ 1 - (1 - c) = c /\ Shapes'
    BY <1>1, <1>2, Stacks DEF Shapes
  <1>5. Complete(c)' /\ Complete(1 - c)'
    BY <1>1, <1>3, <1>4
  <1> QED BY <1>2, <1>4, <1>5 DEF TInv, AtInv, Instructions

LEMMA OutSphKeeps == TInv /\ OutSph => TInv'
  <1> SUFFICES ASSUME TInv, OutSph, NEW c \in {0, 1}, cur = c PROVE TInv'
    BY Stacks DEF TInv
  <1>1. /\ Shapes /\ Complete(1 - c) /\ Complete(c) /\ regs.sreg[2] = "off"
    BY DEF TInv, OutSph, Step, AtInv
  <1>2. /\ at' = "pop_rest" /\ cur' = c /\ mem' = mem /\ tcb' = tcb
        /\ depth' = depth /\ regs' = regs /\ sp' = tcb'[c]
    BY <1>1 DEF OutSph, Step
  <1>3. Shapes' /\ Complete(c)' /\ Complete(1 - c)'
    BY <1>1, <1>2 DEF Shapes, Complete, Pushed, OwnCells, Base, Top
  <1> QED BY <1>1, <1>2, <1>3 DEF TInv, AtInv, Instructions

LEMMA PopRestKeeps == TInv /\ RegsRecord /\ PopRest => TInv'
  <1> SUFFICES ASSUME TInv, RegsRecord, PopRest, NEW c \in {0, 1}, cur = c PROVE TInv'
    BY Stacks DEF TInv
  <1>1. /\ Shapes /\ Complete(1 - c) /\ Pushed(c, 5) /\ sp = Base(c) + 5
        /\ Base(c) \in Nat
    BY Stacks DEF TInv, PopRest, Step, AtInv, Complete
  <1>2. /\ at' = "pop_r0" /\ cur' = c /\ tcb' = tcb /\ depth' = depth /\ sp' = sp - 2
        /\ mem' = [a \in Addresses |-> IF sp - a \in 1 .. 2 THEN Junk ELSE mem[a]]
    BY DEF PopRest, Step, Pop
  <1>3. regs'.sreg = <<c, "on">> /\ regs'.rest = <<c, "rest">>
    <2>1. sp - 1 = Base(c) + 4 /\ sp - 2 = Base(c) + 3
      BY <1>1
    <2>2. regs' = [regs EXCEPT !.rest = mem[sp - 1], !.sreg = mem[sp - 2], !.r0 = mem[sp - 2]]
      BY DEF PopRest
    <2> QED BY <1>1, <2>1, <2>2 DEF Pushed, RegsRecord
  <1>4. Shapes' /\ Base(c)' = Base(c)
    BY <1>1, <1>2 DEF Shapes, Base, Top
  <1>5. \A a \in Addresses : (a \in Region(c) /\ a >= Base(c) + 3) \/ mem'[a] = mem[a]
    <2>1. \A a \in Addresses : a \in Int
      BY <1>1, Stacks
    <2>2. Base(c) + 4 \in Region(c) /\ Base(c) + 3 \in Region(c)
      BY <1>1, Stacks DEF Region, Base
    <2>3. \A a \in Int : sp - a \in 1 .. 2 => a = Base(c) + 3 \/ a = Base(c) + 4
      BY <1>1
    <2> QED BY <1>1, <1>2, <2>1, <2>2, <2>3
  <1>6. Pushed(c, 3) 
    BY <1>1 DEF Pushed
  <1>7. Complete(1 - c)' /\ Pushed(c, 3)'
    BY <1>1, <1>2, <1>5, <1>6, Beyond
  <1>8. sp' = Base(c)' + 3
    BY <1>1, <1>2, <1>4
  <1> QED BY <1>2, <1>3, <1>4, <1>7, <1>8 DEF TInv, AtInv, Instructions, Holds

LEMMA PopR0Keeps == TInv /\ RegsRecord /\ PopR0 => TInv'
  <1> SUFFICES ASSUME TInv, RegsRecord, PopR0, NEW c \in {0, 1}, cur = c PROVE TInv'
    BY Stacks DEF TInv
  <1>1. /\ Shapes /\ Complete(1 - c) /\ Pushed(c, 3) /\ sp = Base(c) + 3
        /\ Base(c) \in Nat
        /\ regs.sreg = <<c, "on">> /\ regs.rest = <<c, "rest">>
    BY Stacks DEF TInv, PopR0, Step, AtInv, Holds
  <1>2. /\ at' = "back" /\ cur' = c /\ tcb' = tcb /\ depth' = depth /\ sp' = sp - 2
        /\ mem' = [a \in Addresses |-> IF sp - a \in 1 .. 2 THEN Junk ELSE mem[a]]
    BY DEF PopR0, Step, Pop
  <1>3. regs' = Regs(c, "r0", "on")
    <2>1. sp - 1 = Base(c) + 2 /\ sp - 2 = Base(c) + 1
      BY <1>1
    <2>2. regs' = [regs EXCEPT !.r0 = mem[sp - 1], !.pc = mem[sp - 2]]
      BY DEF PopR0
    <2>3. mem[sp - 1] = <<c, "r0">> /\ mem[sp - 2] = <<c, "pc">>
      BY <1>1, <2>1 DEF Pushed
    <2>4. regs' = [pc |-> mem[sp - 2], r0 |-> mem[sp - 1], sreg |-> regs.sreg,
                   rest |-> regs.rest]
      BY <2>2 DEF RegsRecord
    <2> QED BY <1>1, <2>3, <2>4 DEF Regs
  <1>4. Shapes' /\ Base(c)' = Base(c)
    BY <1>1, <1>2, <1>3 DEF Shapes, Base, Top, Regs
  <1>5. \A a \in Addresses : (a \in Region(c) /\ a >= Base(c) + 1) \/ mem'[a] = mem[a]
    <2>1. \A a \in Addresses : a \in Int
      BY <1>1, Stacks
    <2>2. Base(c) + 2 \in Region(c) /\ Base(c) + 1 \in Region(c)
      BY <1>1, Stacks DEF Region, Base
    <2>3. \A a \in Int : sp - a \in 1 .. 2 => a = Base(c) + 1 \/ a = Base(c) + 2
      BY <1>1
    <2> QED BY <1>1, <1>2, <2>1, <2>2, <2>3
  <1>6. Pushed(c, 1) 
    BY <1>1 DEF Pushed
  <1>7. Complete(1 - c)' /\ Pushed(c, 1)'
    BY <1>1, <1>2, <1>5, <1>6, Beyond
  <1>8. sp' = Base(c)' + 1
    BY <1>1, <1>2, <1>4
  <1> QED BY <1>2, <1>3, <1>4, <1>7, <1>8 DEF TInv, AtInv, Instructions, Holds, Regs

LEMMA UnwindKeeps == TInv /\ Unwind => TInv'
  <1> SUFFICES ASSUME TInv, Unwind, NEW c \in {0, 1}, cur = c PROVE TInv'
    BY Stacks DEF TInv
  <1>1. /\ Shapes /\ Complete(1 - c) /\ Pushed(c, 1) /\ sp = Base(c) + 1
        /\ regs = Regs(c, "r0", "on")
    BY DEF TInv, Unwind, Step, AtInv, Holds
  <1>2. /\ at' = "run" /\ cur' = c /\ tcb' = tcb /\ regs' = regs
        /\ sp' = sp - depth[c] /\ depth' = [depth EXCEPT ![c] = 0]
        /\ mem' = [a \in Addresses |-> IF sp - a \in 1 .. depth[c] THEN Junk ELSE mem[a]]
    <2>1. Self = c
      BY <1>1, RegsAre DEF Self
    <2> QED BY <2>1 DEF Unwind, Step, Pop
  <1>3. /\ Base(c) = Top(c) + depth[c] /\ Top(c) \in Nat /\ depth[c] \in Nat
        /\ depth[c] <= StackSize /\ StackSize \in Nat
        /\ Region(c) \subseteq Addresses /\ \A a \in Addresses : a \in Int
    BY <1>1, Stacks DEF Base
  <1>4. Shapes' /\ depth'[c] = 0 /\ Base(c)' = Top(c)
    BY <1>1, <1>2, <1>3, Stacks DEF Shapes, Base, Top
  <1>5. Pushed(c, 1)'
    <2>1. Top(c) \in Addresses /\ ~(sp - Top(c) \in 1 .. depth[c])
      BY <1>1, <1>3 DEF Region
    <2>2. mem'[Top(c)] = <<c, "fill">>
      BY <1>1, <1>2, <2>1 DEF Pushed, OwnCells
    <2>3. \A a \in Top(c) + 1 .. Top(c) + 0 : FALSE
      BY <1>3
    <2> QED BY <1>4, <2>2, <2>3 DEF Pushed, OwnCells, Top
  <1>6. Complete(1 - c)'
    <2>1. 1 - c \in {0, 1} /\ 1 - c # c /\ Region(1 - c) \subseteq Addresses
      BY <1>1, Stacks
    <2>2. \A a \in Region(1 - c) : a \in Addresses /\ a \notin Region(c)
      BY <1>1, <2>1, Stacks
    <2>3. \A a \in Region(1 - c) : mem'[a] = mem[a]
      BY <1>1, <1>2, <1>3, <2>2 DEF Region
    <2>4. depth'[1 - c] = depth[1 - c]
      BY <1>1, <1>2, <2>1, Stacks DEF Shapes
    <2> QED BY <1>1, <1>2, <2>1, <2>3, <2>4, CompleteKept
  <1>7. sp' = Base(c)' + 1
    BY <1>1, <1>2, <1>3, <1>4
  <1> QED BY <1>1, <1>2, <1>4, <1>5, <1>6, <1>7
          DEF TInv, AtInv, Instructions, Holds, Regs

LEMMA RecordKept ==
  RegsRecord /\ [ThreadsNext]_threadVars => RegsRecord'
  <1> SUFFICES ASSUME RegsRecord, [ThreadsNext]_threadVars PROVE RegsRecord'
    OBVIOUS
  <1>1. CASE PushR0 \/ Cli \/ PushRest
    BY <1>1 DEF PushR0, Cli, PushRest, RegsRecord
  <1>2. CASE PopRest \/ PopR0
    BY <1>2 DEF PopRest, PopR0, RegsRecord
  <1>3. CASE UNCHANGED regs
    BY <1>3 DEF RegsRecord
  <1> QED BY <1>1, <1>2, <1>3
          DEF ThreadsNext, Switching, StartMain, OutSpl, OutSph, Unwind, Interrupt, cpuVars,
              SwitchTo, threadVars

LEMMA TInvKept == TInv /\ RegsRecord /\ [ThreadsNext]_threadVars => TInv'
  <1> SUFFICES ASSUME TInv, RegsRecord, [ThreadsNext]_threadVars PROVE TInv'
    OBVIOUS
  <1>1. CASE StartMain
    BY <1>1, StartKeeps
  <1>2. CASE Interrupt
    BY <1>2, InterruptKeeps
  <1>3. ASSUME NEW t \in Threads, SwitchTo(t) PROVE TInv'
    BY <1>3, SwitchToKeeps
  <1>4. CASE Switching
    BY <1>4, PushR0Keeps, CliKeeps, PushRestKeeps, OutSplKeeps, OutSphKeeps, PopRestKeeps,
       PopR0Keeps, UnwindKeeps DEF Switching
  <1>5. CASE UNCHANGED threadVars
    <2>1. /\ mem' = mem /\ tcb' = tcb /\ cur' = cur /\ sp' = sp /\ regs' = regs /\ at' = at
          /\ depth' = depth
      BY <1>5 DEF threadVars, cpuVars
    <2>2. Shapes'
      BY <2>1, Zenon DEF TInv, Shapes
    <2>3. \A c, n : Pushed(c, n)' <=> Pushed(c, n)
      BY <2>1, Zenon DEF Pushed, OwnCells, Base, Top
    <2>4. \A c : Complete(c)' <=> Complete(c)
      BY <2>1, <2>3, Zenon DEF Complete, Base, Top
    <2>5. \A c, n : Holds(c, n)' <=> Holds(c, n)
      BY <2>1, <2>3, Zenon DEF Holds, Base, Top
    <2>6. ASSUME NEW c, AtInv(c) PROVE AtInv(c)'
      <3>1. /\ Complete(c)' <=> Complete(c)
            /\ Holds(c, 1)' <=> Holds(c, 1)
            /\ Holds(c, 2)' <=> Holds(c, 2)
            /\ Holds(c, 3)' <=> Holds(c, 3)
        BY <2>4, <2>5, Zenon
      <3> QED BY <2>1, <2>6, <3>1 DEF AtInv, Regs
    <2> QED BY <2>1, <2>2, <2>4, <2>6, Zenon DEF TInv
  <1> QED BY <1>1, <1>2, <1>3, <1>4, <1>5 DEF ThreadsNext

LEMMA ThreadsInvariant == ThreadsSpec => [](TInv /\ RegsRecord)
  <1>1. ThreadsInit => RegsRecord
    BY DEF ThreadsInit, RegsRecord
  <1> QED BY <1>1, Initially, RecordKept, TInvKept, PTL DEF ThreadsSpec

LEMMA ContextFromTInv == TInv => OwnContext
  <1> SUFFICES ASSUME TInv, at \in {"run", "back"}, NEW c \in {0, 1}, cur = c PROVE OwnContext
    BY Stacks DEF TInv, OwnContext
  <1>1. /\ Holds(c, 1) /\ regs = Regs(c, "r0", "on") /\ Complete(1 - c)
    BY DEF TInv, AtInv
  <1>2. Self = c
    BY <1>1, RegsAre DEF Self
  <1>3. /\ regs = [pc |-> <<c, "pc">>, r0 |-> <<c, "r0">>, sreg |-> <<c, "on">>,
                   rest |-> <<c, "rest">>]
        /\ OwnCells(c) /\ OwnCells(1 - c)
    BY <1>1 DEF Holds, Pushed, Complete, Regs
  <1>4. /\ Base(c) \in Nat /\ Base(1 - c) \in Nat /\ Top(c) \in Nat /\ depth[c] \in Nat
        /\ Base(c) = Top(c) + depth[c] /\ Base(1 - c) = Top(1 - c) + depth[1 - c]
    BY Stacks DEF TInv, Base
  <1>5. sp = Top(c) + 1 + depth[c]
    BY <1>1, <1>4 DEF Holds
  <1>6. tcb[1 - c] = Base(1 - c) + FrameCells
    BY <1>1 DEF Complete, FrameCells
  <1>7. \A i \in 2 .. FrameCells :
           mem[Base(1 - c) + i - 1] = InitialFrame(1 - c)[i]
    <2>1. \A i \in 2 .. FrameCells : i \in {2, 3, 4, 5}
      BY DEF FrameCells
    <2>2. ASSUME NEW i \in {2, 3, 4, 5}
          PROVE  mem[Base(1 - c) + i - 1] = InitialFrame(1 - c)[i]
      <3>1. Base(1 - c) + i - 1 = Base(1 - c) + (i - 1)
        BY <1>4
      <3>2. mem[Base(1 - c) + (i - 1)] = InitialFrame(1 - c)[i]
        BY <1>1 DEF Complete, Pushed, InitialFrame
      <3> QED BY <3>1, <3>2
    <2> QED BY <2>1, <2>2
  <1> QED BY <1>2, <1>3, <1>4, <1>5, <1>6, <1>7 DEF OwnContext

-----------------------------------------------------------------------------
\* A thread that runs has the registers, the stack pointer and the stack it
\* left, and the other's frame is complete, wherever interrupts come between
\* the instructions of threads.h's switch.
THEOREM ContextKept == ThreadsSpec => []OwnContext
  BY ThreadsInvariant, ContextFromTInv, PTL

LEMMA KernelSwitches == KernelSpec => ThreadsSpec
  <1>1. KernelInit => ThreadsInit
    BY DEF KernelInit
  <1>2. [KernelNext]_kvars => [ThreadsNext]_threadVars
    <2> SUFFICES ASSUME [KernelNext]_kvars PROVE [ThreadsNext]_threadVars
      OBVIOUS
    <2>1. CASE Boot \/ TempArms \/ TempBlocks \/ Switches \/ Interrupts
      BY <2>1 DEF Boot, TempArms, TempBlocks, Switches, Interrupts, WakeInterrupt,
         ScanInterrupt, ClockInterrupt, ExtrasInterrupt, ThreadsNext, Threads
    <2>2. CASE MainThread
      BY <2>2 DEF MainThread, Polls, Returns, ScheduleTask, ResumeTask, ScanTask, StartTask,
         KeyTask, LowerTask, ExtrasTask, AlarmHangs, AlarmAgain, kvars, ThreadsNext, Threads
    <2>3. CASE UNCHANGED kvars
      BY <2>3 DEF kvars
    <2> QED BY <2>1, <2>2, <2>3 DEF KernelNext
  <1> QED BY <1>1, <1>2, PTL DEF KernelSpec, ThreadsSpec

\* The same in the whole program, where main.c's tasks and temp.c's waits
\* decide when the threads switch.
THEOREM KernelContextKept == KernelSpec => []OwnContext
  BY KernelSwitches, ContextKept, PTL

-----------------------------------------------------------------------------
\* The event queue by itself, with whoever posts and whenever.
IInv == TypeOK /\ RingWindow

LEMMA RunningKept ==
    ASSUME running \in Values \cup {NULL}, dropped \in BOOLEAN, QueueTypeOK, [Next]_vars
    PROVE  (running \in Values \cup {NULL})' /\ (dropped \in BOOLEAN)'
  BY DEF Next, TaskSchedule, TasksRun, Poll, TaskReturns, vars, QueueTypeOK

LEMMA InitInvariant == Init => IInv
  BY InitRing DEF Init, IInv, RingOK, TypeOK, RingWindow

LEMMA StepInvariant == IInv /\ [Next]_vars => IInv'
  <1> SUFFICES ASSUME RingOK, running \in Values \cup {NULL}, dropped \in BOOLEAN,
                      [Next]_vars
               PROVE  IInv'
    BY DEF IInv, RingOK, TypeOK, RingWindow
  <1>1. (running \in Values \cup {NULL})' /\ (dropped \in BOOLEAN)'
    BY RunningKept DEF RingOK
  <1>2. ASSUME NEW t \in Values, TaskSchedule(t) PROVE RingOK'
    BY <1>2, OfferStep, RingUnchanged DEF TaskSchedule, OfferRejected
  <1>3. ASSUME TasksRun PROVE RingOK'
    BY <1>3, PollStep DEF TasksRun
  <1>4. ASSUME TaskReturns \/ UNCHANGED vars PROVE RingOK'
    <2>1. UNCHANGED queueVars
      BY <1>4 DEF TaskReturns, vars, queueVars
    <2> QED BY <2>1, RingUnchanged
  <1> QED BY <1>1, <1>2, <1>3, <1>4 DEF Next, IInv, RingOK, TypeOK, RingWindow

\* Type correctness of the ring and of main_thread's callback, for every Size.
THEOREM TypeCorrect == Spec => []TypeOK
  <1>1. IInv => TypeOK
    BY DEF IInv
  <1> QED BY InitInvariant, StepInvariant, <1>1, PTL DEF Spec

\* The occupied cells of queue.c stay one window from read to write, for every
\* Size and every set of callbacks.
THEOREM WindowKept == Spec => []RingWindow
  <1>1. IInv => RingWindow
    BY DEF IInv
  <1> QED BY InitInvariant, StepInvariant, <1>1, PTL DEF Spec

LEMMA InitRefines == Init => Fifo!Init
  BY SizeAssumption, SMT DEF Init, QueueInit, Fifo!Init, Contents, Count, Cells

LEMMA StepRefines ==
    ASSUME IInv, [Next]_vars
    PROVE  [Fifo!Next]_Fifo!vars
  <1> USE SizeAssumption
  <1>1. RingOK /\ QueueTypeOK
    BY DEF IInv, RingOK, TypeOK, RingWindow
  <1>2. ASSUME NEW t \in Values, TaskSchedule(t)
        PROVE  Fifo!Accept(t) \/ Fifo!Drop
    <2>0. Count \in 0 .. Size /\ Len(Contents) = Count
      BY <1>1, CountRange, SMT DEF Contents
    <2>1. CASE OfferAccepted(t) /\ dropped' = FALSE
      BY <1>1, <1>2, <2>0, <2>1, OfferStep DEF TaskSchedule, Fifo!Accept
    <2>2. CASE OfferRejected /\ dropped' = TRUE
      <3>1. Count = Size
        BY <1>1, <2>0, <2>2 DEF RingOK, Window, OfferRejected
      <3> QED BY <1>2, <2>0, <2>2, <3>1, RingUnchanged
              DEF TaskSchedule, OfferRejected, Fifo!Drop
    <2> QED BY <1>2, <2>1, <2>2 DEF TaskSchedule
  <1>3. ASSUME TasksRun PROVE Fifo!Run
    BY <1>1, <1>3, PollStep DEF TasksRun, Fifo!Run
  <1>4. ASSUME TaskReturns PROVE Fifo!Return
    BY <1>4, RingUnchanged DEF TaskReturns, Fifo!Return
  <1>5. ASSUME UNCHANGED vars PROVE UNCHANGED Fifo!vars
    BY <1>5, RingUnchanged DEF vars, queueVars, Fifo!vars
  <1> QED BY <1>2, <1>3, <1>4, <1>5 DEF Next, Fifo!Next

\* tasks.c over queue.c implements the bounded FIFO: no callback is lost,
\* duplicated or reordered once it is accepted, and none is refused while a cell
\* is free, whoever posts it and when.
THEOREM QueueImplementsFifo == Spec => ImplementsFifo
  <1>1. IInv /\ [Next]_vars => [Fifo!Next]_Fifo!vars
    BY StepRefines
  <1> QED BY InitInvariant, StepInvariant, InitRefines, <1>1, PTL
          DEF Spec, ImplementsFifo, Fifo!Spec

-----------------------------------------------------------------------------
LEMMA KernelQueues == KernelSpec => Init /\ [][Next]_vars
  <1>1. KernelInit => Init
    BY DEF KernelInit
  <1>2. [KernelNext]_kvars => [Next]_vars
    <2> SUFFICES ASSUME [KernelNext]_kvars PROVE [Next]_vars
      OBVIOUS
    <2>1. ASSUME NEW t \in Tasks, TaskSchedule(t) PROVE [Next]_vars
      BY <2>1, TaskAssumption DEF Next
    <2>2. {"schedule", "resume", "scan", "key", "start", "lower", "extras"} = Tasks
      BY DEF Tasks
    <2>3. CASE Boot \/ TempArms \/ TempBlocks \/ Switches \/ Interrupts
      BY <2>1, <2>2, <2>3 DEF Boot, TempArms, TempBlocks, Switches, Interrupts, WakeInterrupt,
         ScanInterrupt, ClockInterrupt, ExtrasInterrupt
    <2>4. CASE MainThread
      BY <2>1, <2>2, <2>4 DEF MainThread, Polls, Returns, ScheduleTask, ResumeTask, ScanTask,
         StartTask, StartTries, StartBegins, KeyTask, Enter, OtherKey, LowerTask, ExtrasTask,
         AlarmHangs, AlarmAgain, kvars, Next
    <2>5. CASE UNCHANGED kvars
      BY <2>5 DEF kvars
    <2> QED BY <2>3, <2>4, <2>5 DEF KernelNext
  <1> QED BY <1>1, <1>2, PTL DEF KernelSpec

LEMMA QueueInvariant == KernelSpec => []IInv
  BY KernelQueues, InitInvariant, StepInvariant, PTL

\* queue.c's ring keeps its shape under everything the program posts and polls.
THEOREM KernelWindowKept == KernelSpec => []RingWindow
  <1>1. IInv => RingWindow
    BY DEF IInv
  <1> QED BY <1>1, QueueInvariant, PTL

\* tasks.c is a bounded FIFO to the whole program.
THEOREM KernelImplementsFifo == KernelSpec => ImplementsFifo
  <1>1. IInv /\ [Next]_vars => [Fifo!Next]_Fifo!vars
    BY StepRefines
  <1> QED BY <1>1, KernelQueues, QueueInvariant, InitRefines, PTL
          DEF ImplementsFifo, Fifo!Spec

-----------------------------------------------------------------------------
\* How many cells hold a task.
OnlyTasks == \A c \in Cells : items[c] \in Tasks \cup {NULL}

InCells(t) == {c \in Cells : items[c] = t}

LEMMA CellsFinite == IsFiniteSet(Cells) /\ Cardinality(Cells) = Size
  BY FS_Interval, SizeAssumption DEF Cells

LEMMA WaitingFacts ==
  ASSUME NEW t
  PROVE  /\ Waiting(t) = Cardinality(InCells(t)) /\ IsFiniteSet(InCells(t))
         /\ Waiting(t) \in Nat
         /\ Waiting(t) = 0 <=> \A c \in Cells : items[c] # t
  <1>1. InCells(t) \in SUBSET Cells
    BY DEF InCells
  <1>2. IsFiniteSet(InCells(t))
    BY <1>1, CellsFinite, FS_Subset
  <1>3. Cardinality(InCells(t)) \in Nat
    BY <1>2, FS_CardinalityType
  <1>4. Cardinality(InCells(t)) = 0 <=> InCells(t) = {}
    BY <1>2, FS_EmptySet
  <1> QED BY <1>2, <1>3, <1>4 DEF Waiting, InCells

LEMMA NoNullTask == NULL \notin Tasks
  BY NullAssumption, TaskAssumption

LEMMA CountsKept == ASSUME UNCHANGED items, NEW t PROVE Waiting(t)' = Waiting(t)
  BY DEF Waiting

LEMMA PostCounts ==
  ASSUME RingOK, NEW t \in Tasks, OfferAccepted(t), NEW u \in Tasks
  PROVE  Waiting(u)' = IF u = t THEN Waiting(u) + 1 ELSE Waiting(u)
  <1>1. \A c \in Cells : items'[c] = IF c = write THEN t ELSE items[c]
    BY DEF OfferAccepted, RingOK, QueueTypeOK
  <1>2. write \in Cells /\ items[write] = NULL
    BY DEF OfferAccepted, RingOK, QueueTypeOK
  <1>3. CASE u = t
    <2>1. InCells(u)' = InCells(u) \cup {write} /\ write \notin InCells(u)
      BY <1>1, <1>2, <1>3, NoNullTask DEF InCells
    <2>2. Cardinality(InCells(u) \cup {write}) = Cardinality(InCells(u)) + 1
      BY <2>1, WaitingFacts, FS_AddElement
    <2> QED BY <1>3, <2>1, <2>2 DEF Waiting, InCells
  <1>4. CASE u # t
    <2>1. InCells(u)' = InCells(u)
      BY <1>1, <1>2, <1>4, NoNullTask DEF InCells
    <2> QED BY <1>4, <2>1 DEF Waiting, InCells
  <1> QED BY <1>3, <1>4

LEMMA PollCounts ==
  ASSUME RingOK, Poll, NEW u \in Tasks
  PROVE  Waiting(u)' = IF u = items[read] THEN Waiting(u) - 1 ELSE Waiting(u)
  <1>1. \A c \in Cells : items'[c] = IF c = read THEN NULL ELSE items[c]
    BY DEF Poll, RingOK, QueueTypeOK
  <1>2. read \in Cells
    BY DEF RingOK, QueueTypeOK
  <1>3. CASE u = items[read]
    <2>1. InCells(u)' = InCells(u) \ {read} /\ read \in InCells(u)
      BY <1>1, <1>2, <1>3, NoNullTask DEF InCells
    <2>2. Cardinality(InCells(u) \ {read}) = Cardinality(InCells(u)) - 1
      BY <2>1, WaitingFacts, FS_RemoveElement
    <2> QED BY <1>3, <2>1, <2>2 DEF Waiting, InCells
  <1>4. CASE u # items[read]
    <2>1. InCells(u)' = InCells(u)
      BY <1>1, <1>2, <1>4, NoNullTask DEF InCells
    <2> QED BY <1>4, <2>1 DEF Waiting, InCells
  <1> QED BY <1>3, <1>4

LEMMA UnionBound ==
  ASSUME NEW S, IsFiniteSet(S), NEW T, IsFiniteSet(T)
  PROVE  /\ IsFiniteSet(S \cup T)
         /\ Cardinality(S \cup T) <= Cardinality(S) + Cardinality(T)
         /\ Cardinality(S \cup T) \in Nat
  <1>1. /\ IsFiniteSet(S \cup T)
        /\ Cardinality(S \cup T) = Cardinality(S) + Cardinality(T) - Cardinality(S \cap T)
    BY FS_Union
  <1>2. IsFiniteSet(S \cap T)
    BY FS_Intersection
  <1>3. /\ Cardinality(S \cap T) \in Nat /\ Cardinality(S) \in Nat
        /\ Cardinality(T) \in Nat /\ Cardinality(S \cup T) \in Nat
    BY <1>1, <1>2, FS_CardinalityType
  <1> QED BY <1>1, <1>3

WaitingAll == Waiting("schedule") + Waiting("resume") + Waiting("scan") + Waiting("key")
                 + Waiting("start") + Waiting("lower") + Waiting("extras")

\* A ring that is full holds Size tasks.
LEMMA RoomLeft ==
  ASSUME RingOK, OnlyTasks, WaitingAll < Size
  PROVE  items[write] = NULL
  <1> SUFFICES ASSUME items[write] # NULL PROVE FALSE
    OBVIOUS
  <1> DEFINE A == InCells("schedule") \cup InCells("resume")
             B == A \cup InCells("scan")
             C == B \cup InCells("key")
             D == C \cup InCells("start")
             E == D \cup InCells("lower")
             F == E \cup InCells("extras")
  <1>1. \A c \in Cells : items[c] \in Tasks
    BY FullRing DEF OnlyTasks
  <1>2. Cells = F
    BY <1>1 DEF Tasks, InCells
  <1>3. /\ IsFiniteSet(A) /\ Cardinality(A) <= Waiting("schedule") + Waiting("resume")
        /\ Cardinality(A) \in Nat
    <2>1. /\ IsFiniteSet(InCells("schedule")) /\ IsFiniteSet(InCells("resume"))
          /\ Cardinality(InCells("schedule")) = Waiting("schedule")
          /\ Cardinality(InCells("resume")) = Waiting("resume")
      BY WaitingFacts
    <2> QED BY <2>1, UnionBound
  <1> HIDE DEF A
  <1>4. /\ IsFiniteSet(B) /\ Cardinality(B) <= Cardinality(A) + Waiting("scan")
        /\ Cardinality(B) \in Nat
    BY <1>3, WaitingFacts, UnionBound
  <1> HIDE DEF B
  <1>5. /\ IsFiniteSet(C) /\ Cardinality(C) <= Cardinality(B) + Waiting("key")
        /\ Cardinality(C) \in Nat
    BY <1>4, WaitingFacts, UnionBound
  <1> HIDE DEF C
  <1>6. /\ IsFiniteSet(D) /\ Cardinality(D) <= Cardinality(C) + Waiting("start")
        /\ Cardinality(D) \in Nat
    BY <1>5, WaitingFacts, UnionBound
  <1> HIDE DEF D
  <1>7. /\ IsFiniteSet(E) /\ Cardinality(E) <= Cardinality(D) + Waiting("lower")
        /\ Cardinality(E) \in Nat
    BY <1>6, WaitingFacts, UnionBound
  <1> HIDE DEF E
  <1>8. Cardinality(F) <= Cardinality(E) + Waiting("extras") /\ Cardinality(F) \in Nat
    BY <1>7, WaitingFacts, UnionBound
  <1> HIDE DEF F
  <1>9. /\ Waiting("schedule") \in Nat /\ Waiting("resume") \in Nat /\ Waiting("scan") \in Nat
        /\ Waiting("key") \in Nat /\ Waiting("start") \in Nat /\ Waiting("lower") \in Nat
        /\ Waiting("extras") \in Nat
    BY WaitingFacts
  <1>10. Cardinality(F) = Size
    BY <1>2, CellsFinite
  <1> QED BY <1>3, <1>4, <1>5, <1>6, <1>7, <1>8, <1>9, <1>10, SizeAssumption DEF WaitingAll

\* The cells and the sequence hold the same tasks.
LEMMA WaitingContents ==
  ASSUME RingOK, NEW t \in Tasks
  PROVE  Waiting(t) = 0 <=> \A i \in 1 .. Len(Contents) : Contents[i] # t
  <1>1. Count \in 0 .. Size /\ Len(Contents) = Count
    BY CountRange, SizeAssumption DEF RingOK, Contents
  <1>2. \A i \in 0 .. Size - 1 : Cell(i) \in Cells
    BY CellFacts DEF RingOK, QueueTypeOK
  <1>3. \A i \in 1 .. Count : Contents[i] = items[Cell(i - 1)] /\ Cell(i - 1) \in Cells
    BY <1>1, <1>2, SizeAssumption DEF Contents
  <1>4. ASSUME NEW c \in Cells, items[c] = t PROVE \E i \in 1 .. Count : Contents[i] = t
    <2>1. PICK i \in 0 .. Size - 1 : Cell(i) = c
      BY CellReached DEF RingOK, QueueTypeOK
    <2>2. i < Count
      BY <1>4, <2>1, NoNullTask DEF RingOK, Window
    <2>3. i + 1 \in 1 .. Count /\ (i + 1) - 1 = i
      BY <1>1, <2>2
    <2> QED BY <1>3, <1>4, <2>1, <2>3
  <1> QED BY <1>1, <1>3, <1>4, WaitingFacts

-----------------------------------------------------------------------------
\* What TokensKept lacks: keys are in front of the scan that follows them, so a
\* scan never finds a key waiting, and the tokens leave a cell to whoever posts.
Ordered == \A i, j \in 1 .. Len(Contents) :
              Contents[i] = "scan" /\ Contents[j] = "key" => j < i

TempTokens == One(wake) + One(~armed) + Waiting("schedule") + One(Working("schedule"))
                 + Waiting("resume") + One(Working("resume"))

Tokens == /\ TempTokens = One(at # "boot")
          /\ Waiting("scan") + One(Working("scan")) = One(posted)
          /\ Waiting("start") + One(Working("start")) = owed
          /\ Waiting("key") + One(Working("scan")) <= 1

Numbers == owed \in Nat /\ clocks \in Nat /\ exts \in Nat

QueueInv == RingOK /\ OnlyTasks /\ Ordered

KInv == QueueInv /\ Numbers /\ Tokens /\ Load <= Size

LEMMA AllWaiting ==
       /\ Waiting("schedule") \in Nat
       /\ Waiting("resume") \in Nat
       /\ Waiting("scan") \in Nat
       /\ Waiting("key") \in Nat
       /\ Waiting("start") \in Nat
       /\ Waiting("lower") \in Nat
       /\ Waiting("extras") \in Nat
  BY WaitingFacts

LEMMA AllWaitingNext ==
       /\ Waiting("schedule")' \in Nat
       /\ Waiting("resume")' \in Nat
       /\ Waiting("scan")' \in Nat
       /\ Waiting("key")' \in Nat
       /\ Waiting("start")' \in Nat
       /\ Waiting("lower")' \in Nat
       /\ Waiting("extras")' \in Nat
  <1> DEFINE Natural == /\ Waiting("schedule") \in Nat
                        /\ Waiting("resume") \in Nat
                        /\ Waiting("scan") \in Nat
                        /\ Waiting("key") \in Nat
                        /\ Waiting("start") \in Nat
                        /\ Waiting("lower") \in Nat
                        /\ Waiting("extras") \in Nat
  <1>1. Natural
    BY AllWaiting
  <1> HIDE DEF Natural
  <1>2. Natural'
    BY <1>1, PTL
  <1> QED BY <1>2 DEF Natural

LEMMA ContentsSeq ==
  ASSUME RingOK
  PROVE  /\ Count \in 0 .. Size /\ Len(Contents) = Count
         /\ Contents \in Seq(Values \cup {NULL})
  <1>1. Count \in 0 .. Size
    BY CountRange DEF RingOK
  <1>2. \A i \in 1 .. Count : items[Cell(i - 1)] \in Values \cup {NULL}
    BY <1>1, CellFacts, SizeAssumption DEF RingOK, QueueTypeOK
  <1> QED BY <1>1, <1>2, SizeAssumption DEF Contents

LEMMA Accepts ==
  ASSUME QueueInv, NEW t \in Tasks, OfferAccepted(t), t = "key" => Waiting("scan") = 0
  PROVE  QueueInv'
  <1>2. RingOK' /\ Contents' = Append(Contents, t)
    BY OfferStep, TaskAssumption DEF QueueInv
  <1>3. OnlyTasks'
    BY DEF QueueInv, OnlyTasks, OfferAccepted, RingOK, QueueTypeOK
  <1>4. Ordered'
    <2>1. /\ Count \in 0 .. Size /\ Len(Contents) = Count
          /\ Contents \in Seq(Values \cup {NULL})
      BY ContentsSeq DEF QueueInv
    <2>2. /\ Len(Contents') = Len(Contents) + 1
          /\ Contents'[Len(Contents) + 1] = t
          /\ \A i \in 1 .. Len(Contents) : Contents'[i] = Contents[i]
      BY <1>2, <2>1, TaskAssumption, AppendProperties
    <2>3. t = "key" => \A i \in 1 .. Len(Contents) : Contents[i] # "scan"
      BY WaitingContents DEF QueueInv, Tasks
    <2> QED BY <2>1, <2>2, <2>3 DEF QueueInv, Ordered
  <1> QED BY <1>2, <1>3, <1>4 DEF QueueInv

LEMMA Posts ==
  ASSUME QueueInv, NEW t \in Tasks, TaskSchedule(t), WaitingAll < Size,
         t = "key" => Waiting("scan") = 0
  PROVE  /\ QueueInv' /\ running' = running
         /\ Waiting("schedule")' = Waiting("schedule") + One(t = "schedule")
         /\ Waiting("resume")' = Waiting("resume") + One(t = "resume")
         /\ Waiting("scan")' = Waiting("scan") + One(t = "scan")
         /\ Waiting("key")' = Waiting("key") + One(t = "key")
         /\ Waiting("start")' = Waiting("start") + One(t = "start")
         /\ Waiting("lower")' = Waiting("lower") + One(t = "lower")
         /\ Waiting("extras")' = Waiting("extras") + One(t = "extras")
  <1>1. OfferAccepted(t) /\ running' = running
    BY RoomLeft DEF QueueInv, TaskSchedule, OfferRejected
  <1>2. QueueInv'
    BY <1>1, Accepts
  <1>5. \A u \in Tasks : Waiting(u)' = IF u = t THEN Waiting(u) + 1 ELSE Waiting(u)
    BY <1>1, PostCounts DEF QueueInv
  <1> QED BY <1>1, <1>2, <1>5, AllWaiting DEF One, Tasks

\* A post leaves the others' counts alone, whether it finds room or not.
LEMMA PostsOther ==
  ASSUME QueueInv, NEW t \in Tasks, TaskSchedule(t), NEW u \in Tasks, u # t
  PROVE  Waiting(u)' = Waiting(u)
  BY PostCounts, CountsKept DEF QueueInv, TaskSchedule, OfferRejected, queueVars

LEMMA PollEffect ==
  ASSUME QueueInv, TasksRun
  PROVE  /\ QueueInv' /\ running' = items[read] /\ running' \in Tasks
         /\ running' = "scan" => Waiting("key") = 0
         /\ Waiting("schedule")' = Waiting("schedule") - One(running' = "schedule")
         /\ Waiting("resume")' = Waiting("resume") - One(running' = "resume")
         /\ Waiting("scan")' = Waiting("scan") - One(running' = "scan")
         /\ Waiting("key")' = Waiting("key") - One(running' = "key")
         /\ Waiting("start")' = Waiting("start") - One(running' = "start")
         /\ Waiting("lower")' = Waiting("lower") - One(running' = "lower")
         /\ Waiting("extras")' = Waiting("extras") - One(running' = "extras")
  <1>1. Poll /\ running' = items[read]
    BY DEF TasksRun
  <1>2. /\ RingOK' /\ Contents # <<>> /\ items[read] = Head(Contents)
        /\ Contents' = Tail(Contents)
    BY <1>1, PollStep DEF QueueInv
  <1>3. OnlyTasks' /\ running' \in Tasks
    BY <1>1 DEF QueueInv, OnlyTasks, Poll, RingOK, QueueTypeOK
  <1>4. Count \in 0 .. Size /\ Len(Contents) = Count /\ Contents \in Seq(Values \cup {NULL})
    BY ContentsSeq DEF QueueInv
  <1>5. /\ Len(Contents) > 0 /\ items[read] = Contents[1]
        /\ Len(Contents') = Len(Contents) - 1
        /\ \A i \in 1 .. Len(Contents) - 1 : Contents'[i] = Contents[i + 1]
    BY <1>2, <1>4
  <1>6. Ordered'
    <2> SUFFICES ASSUME NEW i \in 1 .. Len(Contents) - 1, NEW j \in 1 .. Len(Contents) - 1,
                        Contents[i + 1] = "scan", Contents[j + 1] = "key"
                 PROVE  j < i
      BY <1>5 DEF Ordered
    <2>1. j + 1 < i + 1
      BY <1>4 DEF QueueInv, Ordered
    <2> QED BY <1>4, <2>1
  <1>7. running' = "scan" => Waiting("key") = 0
    <2> SUFFICES ASSUME running' = "scan" PROVE Waiting("key") = 0
      OBVIOUS
    <2>1. \A j \in 1 .. Len(Contents) : Contents[j] # "key"
      BY <1>1, <1>4, <1>5 DEF QueueInv, Ordered
    <2> QED BY <2>1, WaitingContents DEF QueueInv, Tasks
  <1>8. \A u \in Tasks : Waiting(u)' = IF u = items[read] THEN Waiting(u) - 1 ELSE Waiting(u)
    BY <1>1, PollCounts DEF QueueInv
  <1> QED BY <1>1, <1>2, <1>3, <1>6, <1>7, <1>8, AllWaiting DEF QueueInv, One, Tasks

LEMMA QueueSame ==
  ASSUME QueueInv, UNCHANGED queueVars
  PROVE  /\ QueueInv'
         /\ Waiting("schedule")' = Waiting("schedule")
         /\ Waiting("resume")' = Waiting("resume")
         /\ Waiting("scan")' = Waiting("scan")
         /\ Waiting("key")' = Waiting("key")
         /\ Waiting("start")' = Waiting("start")
         /\ Waiting("lower")' = Waiting("lower")
         /\ Waiting("extras")' = Waiting("extras")
  BY RingUnchanged, CountsKept DEF QueueInv, OnlyTasks, Ordered, queueVars

\* The task of a timer holds no token: it may find the ring full.
LEMMA ClockPosts ==
  ASSUME QueueInv, NEW t \in {"lower", "extras"}, TaskSchedule(t)
  PROVE  /\ QueueInv' /\ running' = running
         /\ Waiting("schedule")' = Waiting("schedule")
         /\ Waiting("resume")' = Waiting("resume")
         /\ Waiting("scan")' = Waiting("scan")
         /\ Waiting("key")' = Waiting("key")
         /\ Waiting("start")' = Waiting("start")
  <1>1. t \in Tasks /\ t # "key" /\ {"schedule", "resume", "scan", "key", "start"} \subseteq Tasks
    BY DEF Tasks
  <1>2. QueueInv'
    <2>1. CASE OfferAccepted(t)
      BY <1>1, <2>1, Accepts
    <2>2. CASE OfferRejected
      BY <2>2, QueueSame DEF OfferRejected
    <2> QED BY <2>1, <2>2 DEF TaskSchedule
  <1> QED BY <1>1, <1>2, PostsOther DEF TaskSchedule

-----------------------------------------------------------------------------
\* The tokens as numbers.
LEMMA Bits ==
       /\ One(wake) \in {0, 1} /\ One(~armed) \in {0, 1} /\ One(posted) \in {0, 1}
       /\ One(at # "boot") \in {0, 1}
       /\ One(Working("schedule")) \in {0, 1}
       /\ One(Working("resume")) \in {0, 1}
       /\ One(Working("scan")) \in {0, 1}
       /\ One(Working("start")) \in {0, 1}
  BY DEF One

LEMMA SideKept ==
  ASSUME UNCHANGED <<wake, armed>>
  PROVE  One(wake)' = One(wake) /\ One(~armed)' = One(~armed)
  BY DEF One

LEMMA PostedKept == ASSUME UNCHANGED posted PROVE One(posted)' = One(posted)
  BY DEF One

LEMMA AtKept ==
  ASSUME at' = at \/ (at # "boot" /\ at' # "boot")
  PROVE  One(at # "boot")' = One(at # "boot")
  BY DEF One

\* What the temperature thread has now and what it had, as one sum each.
LEMMA TempSum ==
  /\ TempTokens = One(wake) + One(~armed) + Waiting("schedule") + One(Working("schedule"))
                    + Waiting("resume") + One(Working("resume"))
  /\ TempTokens' = One(wake)' + One(~armed)' + Waiting("schedule")' + One(Working("schedule"))'
                     + Waiting("resume")' + One(Working("resume"))'
  BY DEF TempTokens

LEMMA WorkKept ==
  ASSUME UNCHANGED <<running, called>>
  PROVE  /\ One(Working("schedule"))' = One(Working("schedule"))
         /\ One(Working("resume"))' = One(Working("resume"))
         /\ One(Working("scan"))' = One(Working("scan"))
         /\ One(Working("start"))' = One(Working("start"))
  BY DEF One, Working

LEMMA WorkDone ==
  ASSUME NEW t \in Tasks, Working(t), UNCHANGED running, called'
  PROVE  /\ One(Working("schedule")) = One(t = "schedule") /\ One(Working("schedule"))' = 0
         /\ One(Working("resume")) = One(t = "resume") /\ One(Working("resume"))' = 0
         /\ One(Working("scan")) = One(t = "scan") /\ One(Working("scan"))' = 0
         /\ One(Working("start")) = One(t = "start") /\ One(Working("start"))' = 0
  BY DEF One, Working

\* The cells left by those who may still post.
LEMMA LoadFacts ==
  ASSUME Numbers
  PROVE  Load \in Nat /\ Load >= 3 + owed + Waiting("lower") + Waiting("extras")
  BY AllWaiting DEF Load, NumberMax, Numbers

LEMMA RoomFacts ==
  ASSUME KInv
  PROVE  /\ One(wake) = 1 \/ at = "boot" \/ One(Working("schedule")) = 1 => WaitingAll < Size
         /\ One(posted) = 0 \/ One(Working("scan")) = 1 => WaitingAll < Size
         /\ One(Working("start")) = 1 => WaitingAll < Size
         /\ Load < Size => WaitingAll < Size
  <1>1. Numbers /\ Tokens /\ Load <= Size
    BY DEF KInv
  <1>2. at = "boot" => One(at # "boot") = 0
    BY DEF One
  <1>3. /\ TempTokens = One(at # "boot")
        /\ Waiting("scan") + One(Working("scan")) = One(posted)
        /\ Waiting("start") + One(Working("start")) = owed
        /\ Waiting("key") + One(Working("scan")) <= 1
    BY <1>1 DEF Tokens
  <1>4. TempTokens = One(wake) + One(~armed) + Waiting("schedule") + One(Working("schedule"))
                 + Waiting("resume") + One(Working("resume"))
    BY DEF TempTokens
  <1>5. owed \in Nat
    BY <1>1 DEF Numbers
  <1>6. Waiting("schedule") + Waiting("resume") <= One(at # "boot")
    BY <1>3, <1>4, AllWaiting, Bits
  <1>7. /\ Load \in Nat /\ Load <= Size /\ Size \in Nat
        /\ Load >= 3 + owed + Waiting("lower") + Waiting("extras")
    BY <1>1, LoadFacts, SizeAssumption
  <1>8. Waiting("scan") + Waiting("key") <= 2 /\ Waiting("start") <= owed
    BY <1>3, <1>5, AllWaiting, Bits
  <1>9. One(wake) = 1 \/ at = "boot" \/ One(Working("schedule")) = 1
           => Waiting("schedule") + Waiting("resume") = 0
    BY <1>2, <1>3, <1>4, AllWaiting, Bits
  <1>10. One(posted) = 0 \/ One(Working("scan")) = 1 => Waiting("scan") + Waiting("key") <= 1
    BY <1>3, AllWaiting, Bits
  <1>11. One(Working("start")) = 1 => Waiting("start") < owed
    BY <1>3, <1>5, AllWaiting
  <1>12. Waiting("schedule") + Waiting("resume") <= 1
    BY <1>6, AllWaiting, Bits
  <1> HIDE DEF One
  <1> QED BY <1>5, <1>7, <1>8, <1>9, <1>10, <1>11, <1>12, AllWaiting DEF WaitingAll

\* One step of each kind.
Kept == QueueInv' /\ Numbers' /\ Tokens'

LEMMA BootKept == KInv /\ Boot => Kept
  <1> SUFFICES ASSUME KInv, Boot PROVE Kept
    OBVIOUS
  <1>0. QueueInv /\ Numbers /\ Tokens
    BY DEF KInv
  <1>1. /\ at = "boot" /\ at' = "out_sph" /\ TaskSchedule("schedule")
        /\ UNCHANGED <<called, threadSide, posted, cycleSide>>
    BY DEF Boot, StartMain, Step
  <1>2. "schedule" \in Tasks /\ WaitingAll < Size
    BY <1>1, RoomFacts DEF Tasks
  <1>3. QueueInv' /\ UNCHANGED <<running, called, wake, armed>>
    BY <1>0, <1>1, <1>2, Posts DEF threadSide
  <1>4. /\ Waiting("schedule")' = Waiting("schedule") + 1
        /\ Waiting("resume")' = Waiting("resume") /\ Waiting("scan")' = Waiting("scan")
        /\ Waiting("key")' = Waiting("key") /\ Waiting("start")' = Waiting("start")
    BY <1>0, <1>1, <1>2, Posts, AllWaiting DEF One
  <1>5. One(at # "boot") = 0 /\ One(at # "boot")' = 1
    BY <1>1 DEF One
  <1> QED BY <1>0, <1>1, <1>3, <1>4, <1>5, SideKept, PostedKept, WorkKept, AllWaiting, Bits
          DEF Kept, Numbers, Tokens, TempTokens, cycleSide

LEMMA InterruptsKept == KInv /\ Interrupts => Kept
  <1> SUFFICES ASSUME KInv, Interrupts PROVE Kept
    OBVIOUS
  <1>0. QueueInv /\ Numbers /\ Tokens
    BY DEF KInv
  <1>1. CASE WakeInterrupt
    <2>1. /\ wake /\ wake' = FALSE
          /\ at' = at /\ TaskSchedule("resume")
          /\ UNCHANGED <<called, armed, posted, cycleSide>>
      BY <1>1 DEF WakeInterrupt, Interrupt, cpuVars, threadSide
    <2>2. "resume" \in Tasks /\ WaitingAll < Size
      BY <2>1, RoomFacts DEF Tasks, One
    <2>3. QueueInv' /\ UNCHANGED <<running, called>>
      BY <1>0, <2>1, <2>2, Posts
    <2>4. /\ Waiting("resume")' = Waiting("resume") + 1
          /\ Waiting("schedule")' = Waiting("schedule")
          /\ Waiting("scan")' = Waiting("scan")
          /\ Waiting("key")' = Waiting("key")
          /\ Waiting("start")' = Waiting("start")
      BY <1>0, <2>1, <2>2, Posts, AllWaiting DEF One
    <2>5. One(wake) = 1 /\ One(wake)' = 0 /\ One(~armed)' = One(~armed)
      BY <2>1 DEF One
    <2>6. TempTokens' = One(at # "boot")'
      <3>1. One(at # "boot")' = One(at # "boot") /\ TempTokens = One(at # "boot")
        BY <1>0, <2>1, AtKept DEF Tokens
      <3>2. /\ One(Working("schedule"))' = One(Working("schedule"))
            /\ One(Working("resume"))' = One(Working("resume"))
        BY <2>1, <2>3, WorkKept
      <3> QED BY <2>4, <2>5, <3>1, <3>2, AllWaiting, Bits, TempSum
    <2> QED BY <1>0, <2>1, <2>3, <2>4, <2>6, WorkKept, PostedKept
            DEF Kept, Numbers, Tokens, cycleSide
  <1>2. CASE ScanInterrupt
    <2>1. /\ ~posted /\ posted' = TRUE
          /\ at' = at /\ TaskSchedule("scan")
          /\ UNCHANGED <<called, wake, armed, cycleSide>>
      BY <1>2 DEF ScanInterrupt, Interrupt, cpuVars, threadSide
    <2>2. "scan" \in Tasks /\ WaitingAll < Size
      BY <2>1, RoomFacts DEF Tasks, One
    <2>3. QueueInv' /\ UNCHANGED <<running, called>>
      BY <1>0, <2>1, <2>2, Posts
    <2>4. /\ Waiting("scan")' = Waiting("scan") + 1
          /\ Waiting("schedule")' = Waiting("schedule")
          /\ Waiting("resume")' = Waiting("resume")
          /\ Waiting("key")' = Waiting("key")
          /\ Waiting("start")' = Waiting("start")
      BY <1>0, <2>1, <2>2, Posts, AllWaiting DEF One
    <2>5. One(posted) = 0 /\ One(posted)' = 1
      BY <2>1 DEF One
    <2> QED BY <1>0, <2>1, <2>3, <2>4, <2>5, AtKept, WorkKept, SideKept, AllWaiting, Bits
            DEF Kept, Numbers, Tokens, TempTokens, cycleSide
  <1>3. CASE ClockInterrupt \/ ExtrasInterrupt
    <2>1. PICK t \in {"lower", "extras"} : TaskSchedule(t)
      BY <1>3 DEF ClockInterrupt, ExtrasInterrupt
    <2>2. at' = at /\ UNCHANGED <<called, wake, armed, posted, cycleSide>>
      BY <1>3 DEF ClockInterrupt, ExtrasInterrupt, Interrupt, cpuVars, threadSide
    <2>3. /\ QueueInv' /\ UNCHANGED <<running, called>>
          /\ Waiting("schedule")' = Waiting("schedule")
          /\ Waiting("resume")' = Waiting("resume")
          /\ Waiting("scan")' = Waiting("scan")
          /\ Waiting("key")' = Waiting("key")
          /\ Waiting("start")' = Waiting("start")
      BY <1>0, <2>1, <2>2, ClockPosts
    <2> QED BY <1>0, <2>2, <2>3, AtKept, WorkKept, SideKept, PostedKept, AllWaiting, Bits
            DEF Kept, Numbers, Tokens, TempTokens, cycleSide
  <1> QED BY <1>1, <1>2, <1>3 DEF Interrupts

\* A task that posts nothing, a switch, or a step of temp_run.
LEMMA SilentKept == KInv /\ (Returns \/ ResumeTask \/ LowerTask \/ ExtrasTask \/ AlarmHangs
                               \/ AlarmAgain \/ TempArms \/ TempBlocks \/ Switches \/ UNCHANGED kvars) => Kept
  <1> SUFFICES ASSUME KInv,
                      \/ Returns \/ ResumeTask \/ LowerTask \/ ExtrasTask \/ AlarmHangs
                      \/ AlarmAgain \/ TempArms \/ TempBlocks \/ Switches \/ UNCHANGED kvars
               PROVE Kept
    OBVIOUS
  <1>0. QueueInv /\ Numbers /\ Tokens
    BY DEF KInv
  <1>1. UNCHANGED queueVars
    BY DEF Returns, TaskReturns, ResumeTask, LowerTask, ExtrasTask, AlarmHangs, AlarmAgain,
       TempArms, TempBlocks, Switches, kvars, vars, queueVars
  <1>2. /\ QueueInv' /\ Waiting("schedule")' = Waiting("schedule")
        /\ Waiting("resume")' = Waiting("resume") /\ Waiting("scan")' = Waiting("scan")
        /\ Waiting("key")' = Waiting("key") /\ Waiting("start")' = Waiting("start")
    BY <1>0, <1>1, QueueSame
  <1>3. CASE Returns
    <2>1. /\ at' = at /\ called /\ called' = FALSE /\ running' = NULL
          /\ UNCHANGED <<wake, armed, posted, cycleSide>>
      BY <1>3 DEF Returns, TaskReturns, threadVars, cpuVars, threadSide
    <2>2. /\ One(Working("schedule"))' = One(Working("schedule"))
          /\ One(Working("resume"))' = One(Working("resume"))
          /\ One(Working("scan"))' = One(Working("scan"))
          /\ One(Working("start"))' = One(Working("start"))
      BY <2>1, NoNullTask DEF One, Working, Tasks
    <2> QED BY <1>0, <1>2, <2>1, <2>2, SideKept, PostedKept, AtKept, AllWaiting, Bits
            DEF Kept, Numbers, Tokens, TempTokens, cycleSide
  <1>4. CASE ResumeTask
    <2>1. /\ at = "run" /\ at' = "push_r0" /\ Working("resume") /\ running' = running
          /\ called' = TRUE /\ armed' = FALSE /\ UNCHANGED <<wake, posted, cycleSide>>
      BY <1>4 DEF ResumeTask, Does, SwitchTo, Runs, vars
    <2>2. "resume" \in Tasks
      BY DEF Tasks
    <2>3. /\ One(Working("resume")) = 1 /\ One(Working("resume"))' = 0
          /\ One(Working("schedule"))' = One(Working("schedule"))
          /\ One(Working("scan"))' = One(Working("scan"))
          /\ One(Working("start"))' = One(Working("start"))
      BY <2>1, <2>2, WorkDone DEF One
    <2>4. One(~armed)' = 1 /\ One(wake)' = One(wake)
      BY <2>1 DEF One
    <2> QED BY <1>0, <1>2, <2>1, <2>3, <2>4, PostedKept, AtKept, AllWaiting, Bits
            DEF Kept, Numbers, Tokens, TempTokens, cycleSide
  <1>5. CASE LowerTask \/ ExtrasTask
    <2>1. /\ at = "run" /\ at' = at /\ running \in {"lower", "extras"} /\ running' = running
          /\ called' = TRUE /\ UNCHANGED <<wake, armed, posted, owed>>
          /\ clocks' \in {clocks, NumberMax(clocks - 1, 0)} /\ exts' \in {exts, 0}
      BY <1>5 DEF LowerTask, ExtrasTask, Does, Working, Runs, threadVars, cpuVars, vars, threadSide
    <2>2. /\ One(Working("schedule"))' = One(Working("schedule"))
          /\ One(Working("resume"))' = One(Working("resume"))
          /\ One(Working("scan"))' = One(Working("scan"))
          /\ One(Working("start"))' = One(Working("start"))
      BY <2>1 DEF One, Working
    <2>3. Numbers'
      BY <1>0, <2>1 DEF Numbers, NumberMax
    <2> QED BY <1>0, <1>2, <2>1, <2>2, <2>3, SideKept, PostedKept, AtKept, AllWaiting, Bits
            DEF Kept, Tokens, TempTokens
  <1>6. CASE TempArms
    <2>1. /\ at' = at /\ ~armed /\ armed' = TRUE /\ wake' = TRUE
          /\ UNCHANGED <<running, called, posted, cycleSide>>
      BY <1>6 DEF TempArms, threadVars, cpuVars, vars
    <2>2. One(~armed) = 1 /\ One(~armed)' = 0 /\ One(wake)' = 1
      BY <2>1 DEF One
    <2> QED BY <1>0, <1>2, <2>1, <2>2, WorkKept, PostedKept, AtKept, AllWaiting, Bits
            DEF Kept, Numbers, Tokens, TempTokens, cycleSide
  <1>7. CASE TempBlocks \/ Switches \/ AlarmHangs \/ AlarmAgain \/ UNCHANGED kvars
    <2>1. /\ at' = at \/ (at # "boot" /\ at' # "boot")
          /\ UNCHANGED <<running, called, wake, armed, posted, cycleSide>>
      BY <1>7 DEF TempBlocks, SwitchTo, Runs, Switches, Switching, Step, PushR0, Cli, PushRest,
         OutSpl, OutSph, PopRest, PopR0, Unwind, AlarmHangs, AlarmAgain, kvars, vars, threadSide, threadVars, cpuVars
    <2> QED BY <1>0, <1>2, <2>1, SideKept, WorkKept, PostedKept, AtKept, AllWaiting, Bits
            DEF Kept, Numbers, Tokens, TempTokens, cycleSide
  <1> QED BY <1>3, <1>4, <1>5, <1>6, <1>7

LEMMA PollsKept == KInv /\ Polls => Kept
  <1> SUFFICES ASSUME KInv, Polls PROVE Kept
    OBVIOUS
  <1>0. QueueInv /\ Numbers /\ Tokens
    BY DEF KInv
  <1>1. /\ at' = at /\ TasksRun /\ running = NULL /\ called' = FALSE
        /\ UNCHANGED <<wake, armed, posted, cycleSide>>
    BY DEF Polls, TasksRun, threadVars, cpuVars, threadSide
  <1>2. /\ QueueInv' /\ running' \in Tasks /\ (running' = "scan" => Waiting("key") = 0)
        /\ Waiting("schedule")' = Waiting("schedule") - One(running' = "schedule")
        /\ Waiting("resume")' = Waiting("resume") - One(running' = "resume")
        /\ Waiting("scan")' = Waiting("scan") - One(running' = "scan")
        /\ Waiting("key")' = Waiting("key") - One(running' = "key")
        /\ Waiting("start")' = Waiting("start") - One(running' = "start")
    BY <1>0, <1>1, PollEffect
  <1>3. /\ One(Working("schedule"))' = One(running' = "schedule") /\ One(Working("schedule")) = 0
        /\ One(Working("resume"))' = One(running' = "resume") /\ One(Working("resume")) = 0
        /\ One(Working("scan"))' = One(running' = "scan") /\ One(Working("scan")) = 0
        /\ One(Working("start"))' = One(running' = "start") /\ One(Working("start")) = 0
    BY <1>1, NoNullTask DEF One, Working, Tasks
  <1>4. /\ One(running' = "scan") \in {0, 1} /\ One(running' = "key") \in {0, 1}
        /\ One(running' = "schedule") \in {0, 1} /\ One(running' = "resume") \in {0, 1}
        /\ One(running' = "start") \in {0, 1}
        /\ One(running' = "scan") = 1 => Waiting("key") = 0
    BY <1>2 DEF One
  <1>5. TempTokens' = One(at # "boot")'
    <2>1. One(at # "boot")' = One(at # "boot") /\ TempTokens = One(at # "boot")
      BY <1>0, <1>1, AtKept DEF Tokens
    <2>2. One(wake)' = One(wake) /\ One(~armed)' = One(~armed)
      BY <1>1, SideKept
    <2>3. /\ Waiting("schedule")' + One(Working("schedule"))'
               = Waiting("schedule") + One(Working("schedule"))
          /\ Waiting("resume")' + One(Working("resume"))'
               = Waiting("resume") + One(Working("resume"))
      BY <1>2, <1>3, <1>4, AllWaiting
    <2>4. /\ One(Working("schedule"))' \in {0, 1}
          /\ One(Working("resume"))' \in {0, 1}
      BY <1>3, <1>4
    <2> QED BY <2>1, <2>2, <2>3, <2>4, AllWaiting, AllWaitingNext, Bits, TempSum
  <1>6. /\ Waiting("scan")' + One(Working("scan"))' = One(posted)'
        /\ Waiting("start")' + One(Working("start"))' = owed'
    BY <1>0, <1>1, <1>2, <1>3, <1>4, PostedKept, AllWaiting, Bits DEF Tokens, Numbers, cycleSide
  <1>7. Waiting("key")' + One(Working("scan"))' <= 1
    BY <1>0, <1>2, <1>3, <1>4, AllWaiting DEF Tokens
  <1> QED BY <1>0, <1>1, <1>2, <1>5, <1>6, <1>7 DEF Kept, Numbers, Tokens, cycleSide

LEMMA PostingTasksKept ==
  KInv /\ (ScheduleTask \/ ScanTask \/ StartTask \/ KeyTask) /\ Load' <= Size => Kept
  <1> SUFFICES ASSUME KInv, ScheduleTask \/ ScanTask \/ StartTask \/ KeyTask, Load' <= Size
               PROVE  Kept
    OBVIOUS
  <1>0. QueueInv /\ Numbers /\ Tokens /\ Load <= Size
    BY DEF KInv
  <1>1. at' = at /\ called' = TRUE /\ UNCHANGED <<wake, armed>>
    BY DEF ScheduleTask, ScanTask, StartTask, KeyTask, Does, threadVars, cpuVars, threadSide
  <1>2. Tasks = {"schedule", "resume", "scan", "key", "start", "lower", "extras"}
    BY DEF Tasks
  <1>3. CASE ScheduleTask
    <2>1. Working("schedule") /\ TaskSchedule("resume") /\ UNCHANGED <<posted, cycleSide>>
      BY <1>3 DEF ScheduleTask, Does
    <2>2. WaitingAll < Size
      BY <2>1, RoomFacts DEF One
    <2>3. QueueInv' /\ running' = running
      BY <1>0, <1>2, <2>1, <2>2, Posts
    <2>4. /\ Waiting("resume")' = Waiting("resume") + 1
          /\ Waiting("schedule")' = Waiting("schedule") /\ Waiting("scan")' = Waiting("scan")
          /\ Waiting("key")' = Waiting("key") /\ Waiting("start")' = Waiting("start")
      BY <1>0, <1>2, <2>1, <2>2, Posts, AllWaiting DEF One
    <2>5. /\ One(Working("schedule")) = 1 /\ One(Working("schedule"))' = 0
          /\ One(Working("resume"))' = One(Working("resume"))
          /\ One(Working("scan"))' = One(Working("scan"))
          /\ One(Working("start"))' = One(Working("start"))
      BY <1>1, <1>2, <2>1, <2>3, WorkDone DEF One
    <2> QED BY <1>0, <1>1, <2>1, <2>3, <2>4, <2>5, SideKept, PostedKept, AtKept, AllWaiting, Bits
            DEF Kept, Numbers, Tokens, TempTokens, cycleSide
  <1>4. CASE ScanTask
    <2>1. /\ Working("scan") /\ posted' = FALSE /\ UNCHANGED cycleSide
          /\ TaskSchedule("key") \/ UNCHANGED vars
      BY <1>4 DEF ScanTask, Does
    <2>2. running' = running
      BY <2>1 DEF TaskSchedule, vars
    <2>3. /\ One(Working("scan")) = 1 /\ One(Working("scan"))' = 0
          /\ One(Working("schedule"))' = One(Working("schedule"))
          /\ One(Working("resume"))' = One(Working("resume"))
          /\ One(Working("start"))' = One(Working("start"))
          /\ One(posted)' = 0
      BY <1>1, <1>2, <2>1, <2>2, WorkDone DEF One
    <2>4. WaitingAll < Size /\ Waiting("scan") = 0 /\ Waiting("key") = 0
      BY <1>0, <2>3, RoomFacts, AllWaiting, Bits DEF Tokens
    <2>5. /\ QueueInv'
          /\ Waiting("schedule")' = Waiting("schedule")
          /\ Waiting("resume")' = Waiting("resume") /\ Waiting("scan")' = Waiting("scan")
          /\ Waiting("start")' = Waiting("start")
          /\ Waiting("key")' \in {Waiting("key"), Waiting("key") + 1}
      <3>1. CASE TaskSchedule("key")
        BY <1>0, <1>2, <2>4, <3>1, Posts, AllWaiting DEF One
      <3>2. CASE UNCHANGED vars
        BY <1>0, <3>2, QueueSame DEF vars, queueVars
      <3> QED BY <2>1, <3>1, <3>2
    <2>6. TempTokens' = One(at # "boot")'
      BY <1>0, <1>1, <2>3, <2>5, SideKept, AtKept, AllWaiting, Bits, TempSum DEF Tokens
    <2>7. /\ Waiting("scan")' + One(Working("scan"))' = One(posted)'
          /\ Waiting("start")' + One(Working("start"))' = owed'
          /\ Waiting("key")' + One(Working("scan"))' <= 1
      BY <1>0, <2>1, <2>3, <2>4, <2>5, AllWaiting DEF Tokens, cycleSide
    <2> QED BY <1>0, <2>1, <2>5, <2>6, <2>7 DEF Kept, Numbers, Tokens, cycleSide
  <1>5. CASE StartTask
    <2>1. Working("start") /\ UNCHANGED <<posted, exts>> /\ (StartTries \/ StartBegins)
      BY <1>5 DEF StartTask, Does
    <2>2. running' = running
      BY <2>1 DEF StartTries, StartBegins, TaskSchedule, vars
    <2>3. /\ One(Working("start")) = 1 /\ One(Working("start"))' = 0
          /\ One(Working("schedule"))' = One(Working("schedule"))
          /\ One(Working("resume"))' = One(Working("resume"))
          /\ One(Working("scan"))' = One(Working("scan"))
      BY <1>1, <1>2, <2>1, <2>2, WorkDone DEF One
    <2>4. /\ QueueInv' /\ Numbers'
          /\ Waiting("schedule")' = Waiting("schedule")
          /\ Waiting("resume")' = Waiting("resume") /\ Waiting("scan")' = Waiting("scan")
          /\ Waiting("key")' = Waiting("key")
          /\ Waiting("start")' - owed' = Waiting("start") - owed + 1
      <3>1. CASE StartTries
        <4>1. TaskSchedule("start") /\ UNCHANGED <<clocks, owed>> /\ WaitingAll < Size
          BY <2>3, <3>1, RoomFacts DEF StartTries
        <4>2. "start" \in Tasks
          BY <1>2
        <4>3. /\ QueueInv'
              /\ Waiting("schedule")' = Waiting("schedule")
              /\ Waiting("resume")' = Waiting("resume") /\ Waiting("scan")' = Waiting("scan")
              /\ Waiting("key")' = Waiting("key")
              /\ Waiting("start")' = Waiting("start") + 1
          BY <1>0, <4>1, <4>2, Posts, AllWaiting DEF One
        <4> QED BY <1>0, <2>1, <4>1, <4>3, AllWaiting DEF Numbers
      <3>2. CASE StartBegins
        <4>1. UNCHANGED queueVars /\ clocks' = clocks + 1 /\ owed' = owed - 1
          BY <3>2 DEF StartBegins, vars, queueVars
        <4>2. owed >= 1
          BY <1>0, <2>3, AllWaiting DEF Tokens, Numbers
        <4>3. /\ QueueInv'
              /\ Waiting("schedule")' = Waiting("schedule")
              /\ Waiting("resume")' = Waiting("resume") /\ Waiting("scan")' = Waiting("scan")
              /\ Waiting("key")' = Waiting("key") /\ Waiting("start")' = Waiting("start")
          BY <1>0, <4>1, QueueSame
        <4> QED BY <1>0, <2>1, <4>1, <4>2, <4>3, AllWaiting DEF Numbers
      <3> QED BY <2>1, <3>1, <3>2
    <2>5. TempTokens' = One(at # "boot")'
      BY <1>0, <1>1, <2>3, <2>4, SideKept, AtKept, AllWaiting, Bits, TempSum DEF Tokens
    <2>6. Waiting("start")' + One(Working("start"))' = owed'
      <3>1. owed \in Nat /\ owed' \in Nat
        BY <1>0, <2>4 DEF Numbers
      <3>2. Waiting("start") + One(Working("start")) = owed
        BY <1>0 DEF Tokens
      <3>3. Waiting("start") - owed = -1
        BY <2>3, <3>1, <3>2, AllWaiting
      <3>4. Waiting("start")' - owed' = Waiting("start") - owed + 1
        BY <2>4
      <3>5. Waiting("start")' = owed'
        BY <3>1, <3>3, <3>4, AllWaitingNext
      <3> QED BY <2>3, <3>1, <3>5
    <2> QED BY <1>0, <2>1, <2>3, <2>4, <2>5, <2>6, PostedKept DEF Kept, Tokens
  <1>6. CASE KeyTask
    <2>1. Working("key") /\ UNCHANGED posted /\ (Enter \/ OtherKey)
      BY <1>6 DEF KeyTask, Does
    <2>2. running' = running
      BY <2>1 DEF Enter, OtherKey, TaskSchedule, vars
    <2>3. /\ One(Working("start"))' = One(Working("start"))
          /\ One(Working("schedule"))' = One(Working("schedule"))
          /\ One(Working("resume"))' = One(Working("resume"))
          /\ One(Working("scan"))' = One(Working("scan"))
      BY <1>1, <1>2, <2>1, <2>2, WorkDone DEF One
    <2>4. /\ QueueInv' /\ Numbers'
          /\ Waiting("schedule")' = Waiting("schedule")
          /\ Waiting("resume")' = Waiting("resume") /\ Waiting("scan")' = Waiting("scan")
          /\ Waiting("key")' = Waiting("key")
          /\ Waiting("start")' - owed' = Waiting("start") - owed
      <3>1. CASE UNCHANGED <<vars, owed>> /\ clocks' \in Nat /\ exts' \in Nat
        <4>1. /\ QueueInv'
              /\ Waiting("schedule")' = Waiting("schedule")
              /\ Waiting("resume")' = Waiting("resume") /\ Waiting("scan")' = Waiting("scan")
              /\ Waiting("key")' = Waiting("key") /\ Waiting("start")' = Waiting("start")
          BY <1>0, <3>1, QueueSame DEF vars, queueVars
        <4> QED BY <1>0, <3>1, <4>1 DEF Numbers
      <3>2. CASE owed' = owed + 1 /\ TaskSchedule("start") /\ UNCHANGED <<clocks, exts>>
        <4>1. "start" \in Tasks
          BY <1>2
        <4>2. Waiting("lower")' = Waiting("lower") /\ Waiting("extras")' = Waiting("extras")
          BY <1>0, <1>2, <3>2, <4>1, PostsOther
        <4>3. Load' = Load + 1 /\ Load \in Nat
          BY <1>0, <3>2, <4>2, LoadFacts, AllWaiting DEF Load, NumberMax, Numbers
        <4>4. WaitingAll < Size
          BY <4>3, RoomFacts, SizeAssumption
        <4>5. /\ QueueInv'
              /\ Waiting("schedule")' = Waiting("schedule")
              /\ Waiting("resume")' = Waiting("resume") /\ Waiting("scan")' = Waiting("scan")
              /\ Waiting("key")' = Waiting("key")
              /\ Waiting("start")' = Waiting("start") + 1
          BY <1>0, <3>2, <4>1, <4>4, Posts, AllWaiting DEF One
        <4> QED BY <1>0, <3>2, <4>5, AllWaiting DEF Numbers
      <3>3. CASE OtherKey
        BY <1>0, <3>1, <3>3 DEF OtherKey, NumberMax, Numbers
      <3>4. CASE Enter
        BY <1>0, <3>1, <3>2, <3>4 DEF Enter, Numbers
      <3> QED BY <2>1, <3>3, <3>4
    <2>5. TempTokens' = One(at # "boot")'
      BY <1>0, <1>1, <2>3, <2>4, SideKept, AtKept, AllWaiting, Bits, TempSum DEF Tokens
    <2>6. Waiting("start")' + One(Working("start"))' = owed'
      BY <1>0, <2>3, <2>4, AllWaiting, AllWaitingNext, Bits DEF Tokens, Numbers
    <2> QED BY <1>0, <2>1, <2>3, <2>4, <2>5, <2>6, PostedKept DEF Kept, Tokens
  <1> QED BY <1>3, <1>4, <1>5, <1>6

LEMMA LoadKept == ASSUME UNCHANGED <<items, clocks, exts, owed>> PROVE Load' = Load
  BY CountsKept DEF Load

LEMMA KInvHolds == KernelSpec => [](~crowded => KInv)
  <1>1. KernelInit => (~crowded => KInv)
    <2> SUFFICES ASSUME KernelInit, ~crowded PROVE KInv
      OBVIOUS
    <2>1. RingOK
      BY InitRing DEF KernelInit, Init
    <2>2. \A c \in Cells : items[c] = NULL
      BY DEF KernelInit, Init, QueueInit
    <2>3. \A t \in Tasks : Waiting(t) = 0
      BY <2>2, WaitingFacts, NoNullTask
    <2>4. Ordered
      BY <2>1, <2>3, WaitingContents DEF Ordered, Tasks
    <2>5. Load = 3 /\ 3 <= Size
      <3>1. ~(3 > Size)
        BY Zenon DEF KernelInit
      <3>2. clocks = 0 /\ exts = 0 /\ owed = 0
        BY DEF KernelInit
      <3>3. Waiting("lower") = 0 /\ Waiting("extras") = 0
        BY <2>3 DEF Tasks
      <3> QED BY <3>1, <3>2, <3>3, SizeAssumption DEF Load, NumberMax
    <2>6. /\ One(Working("schedule")) = 0
          /\ One(Working("resume")) = 0
          /\ One(Working("scan")) = 0
          /\ One(Working("start")) = 0
      BY NoNullTask DEF KernelInit, Init, One, Working, Tasks
    <2>7. One(wake) = 0 /\ One(~armed) = 0 /\ One(posted) = 0 /\ One(at # "boot") = 0
      BY DEF KernelInit, ThreadsInit, One
    <2>8. Tokens /\ Numbers
      BY <2>3, <2>6, <2>7 DEF KernelInit, Tokens, TempTokens, Numbers, Tasks
    <2>9. OnlyTasks
      BY <2>2 DEF OnlyTasks
    <2> QED BY <2>1, <2>4, <2>5, <2>8, <2>9 DEF KInv, QueueInv
  <1>2. (~crowded => KInv) /\ [KernelNext]_kvars => (~crowded => KInv)'
    <2> SUFFICES ASSUME ~crowded => KInv, [KernelNext]_kvars, ~crowded' PROVE KInv'
      BY Zenon
    <2>1. CASE UNCHANGED kvars
      <3>1. ~crowded
        BY <2>1 DEF kvars
      <3>2. Load' = Load
        BY <2>1, LoadKept DEF kvars, vars, cycleSide
      <3> QED BY <2>1, <3>1, <3>2, SilentKept DEF Kept, KInv
    <2>2. CASE KernelNext
      <3>1. ~crowded /\ ~(Load' > Size)
        BY <2>2, Zenon DEF KernelNext, Crowd
      <3>2. KInv
        BY <3>1
      <3>3. CASE Load' <= Size
        <4>1. Kept
          BY <2>2, <3>2, <3>3, BootKept, InterruptsKept, SilentKept, PollsKept, PostingTasksKept
             DEF KernelNext, MainThread
        <4> QED BY <3>3, <4>1 DEF Kept, KInv
      <3>4. /\ owed' \in {owed, owed + 1, owed - 1} /\ exts' \in {exts, 0, 1}
            /\ clocks' \in {clocks, clocks + 1, clocks - 1, 0}
        BY <2>2 DEF KernelNext, Boot, MainThread, Polls, Returns, ScheduleTask, ResumeTask,
           ScanTask, StartTask, StartTries, StartBegins, KeyTask, Enter, OtherKey, LowerTask,
           ExtrasTask, AlarmHangs, AlarmAgain, kvars, TempArms, TempBlocks, Switches, Interrupts, WakeInterrupt,
           ScanInterrupt, ClockInterrupt, ExtrasInterrupt, NumberMax, cycleSide
      <3>5. Load' \in Int
        <4>1. owed' \in Int /\ exts' \in Int /\ clocks' \in Int
          BY <3>2, <3>4 DEF KInv, Numbers
        <4>2. Waiting("lower")' \in Nat /\ Waiting("extras")' \in Nat
          BY AllWaitingNext
        <4> QED BY <4>1, <4>2 DEF Load, NumberMax
      <3> QED BY <3>1, <3>3, <3>5, SizeAssumption
    <2> QED BY <2>1, <2>2
  <1> QED BY <1>1, <1>2, PTL DEF KernelSpec

\* While the cells suffice nothing that goes on by itself loses its token: the
\* temperature thread keeps one wake-up, the keypad its scan, and every start
\* that found no temperature is tried again.
THEOREM TokensStayKept == KernelSpec => []TokensKept
  <1>1. (~crowded => KInv) => TokensKept
    <2> SUFFICES ASSUME KInv PROVE TokensKept
      BY DEF TokensKept
    <2>1. Tokens /\ (at # "boot" => One(at # "boot") = 1)
      BY DEF KInv, One
    <2> QED BY <2>1 DEF TokensKept, Tokens, TempTokens
  <1> QED BY <1>1, KInvHolds, PTL

=============================================================================
