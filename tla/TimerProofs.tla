----------------------------- MODULE TimerProofs -----------------------------
(***************************************************************************)
(* The timers for every pool size, counter width and set of requests: the  *)
(* pool's blocks are accounted for exactly, no match is missed, no         *)
(* callback runs before its period, and the list's pointers lead through   *)
(* its nodes.                                                              *)
(***************************************************************************)
EXTENDS TimerList, SequenceTheorems, TLAPS

-----------------------------------------------------------------------------
\* A function on 1 .. n with values in S is a sequence of length n.
LEMMA FunctionIsSeq ==
    ASSUME NEW S, NEW n \in Nat, NEW f \in [1 .. n -> S]
    PROVE  f \in Seq(S) /\ Len(f) = n
<1>1. f \in Seq(S)
  BY SeqDef
<1>2. Len(f) \in Nat /\ 1 .. Len(f) = 1 .. n
  BY <1>1, LenProperties
<1>3. Len(f) = n
  BY <1>2, SMT
<1> QED
  BY <1>1, <1>3

\* The members of a sequence are its values at 1 .. Len.
LEMMA Members ==
    ASSUME NEW S, NEW s \in Seq(S)
    PROVE  /\ Len(s) \in Nat
           /\ \A j \in 1 .. Len(s) : s[j] \in S
           /\ Range(s) = {s[j] : j \in 1 .. Len(s)}
           /\ IsInjective(s) <=>
                 \A i, j \in 1 .. Len(s) : s[i] = s[j] => i = j
BY LenProperties DEF Range, IsInjective

LEMMA RangeWithin ==
    ASSUME NEW S, NEW s \in Seq(S), NEW R, \A j \in 1 .. Len(s) : s[j] \in R
    PROVE  Range(s) \subseteq R
BY Members

LEMMA InRange ==
    ASSUME NEW S, NEW s \in Seq(S), NEW j \in 1 .. Len(s)
    PROVE  s[j] \in Range(s)
BY Members

LEMMA EmptyList ==
    ASSUME NEW S
    PROVE  /\ <<>> \in Seq(S) /\ Len(<<>>) = 0
           /\ Range(<<>>) = {} /\ IsInjective(<<>>)
<1>1. <<>> \in Seq(S) /\ Len(<<>>) = 0
  BY EmptySeq
<1>2. \A j \in 1 .. Len(<<>>) : FALSE
  BY <1>1, SMT
<1>3. Range(<<>>) \subseteq {}
  BY <1>1, <1>2, RangeWithin
<1>4. IsInjective(<<>>)
  BY <1>1, <1>2, Members
<1> QED
  BY <1>1, <1>3, <1>4

\* Linking a node: one more member, and no member twice if it was not linked.
LEMMA InsertedFacts ==
    ASSUME NEW S, NEW s \in Seq(S), NEW n \in S, NEW k \in 1 .. Len(s) + 1
    PROVE  LET t == Inserted(s, k, n)
           IN  /\ t \in Seq(S)
               /\ t # <<>>
               /\ Range(t) = Range(s) \cup {n}
               /\ IsInjective(s) /\ n \notin Range(s) => IsInjective(t)
<1> DEFINE t == Inserted(s, k, n)
<1>1. Len(s) + 1 \in Nat /\ \A j \in 1 .. Len(s) : s[j] \in S
  BY Members
<1>2. t \in [1 .. Len(s) + 1 -> S]
  BY <1>1, SMT DEF Inserted
<1>3. t \in Seq(S) /\ Len(t) = Len(s) + 1
  BY <1>1, <1>2, FunctionIsSeq
<1>4. t # <<>>
  BY <1>1, <1>3, SMT
<1>5. \A j \in 1 .. Len(t) :
         t[j] = IF j < k THEN s[j] ELSE IF j = k THEN n ELSE s[j - 1]
  BY <1>3 DEF Inserted
<1> HIDE DEF t
<1>6. Range(t) = Range(s) \cup {n}
  <2>1. \A j \in 1 .. Len(t) : j # k => t[j] \in {s[i] : i \in 1 .. Len(s)}
    BY <1>1, <1>3, <1>5, SMT
  <2>2. k \in 1 .. Len(t) /\ t[k] = n
    BY <1>1, <1>3, <1>5, SMT
  <2>3. Range(t) \subseteq Range(s) \cup {n}
    BY <1>3, <2>1, <2>2, Members, RangeWithin
  <2>4. \A j \in 1 .. Len(s) : s[j] \in Range(t)
    <3> TAKE j \in 1 .. Len(s)
    <3>1. j < k => j \in 1 .. Len(t) /\ t[j] = s[j]
      BY <1>1, <1>3, <1>5, SMT
    <3>2. j >= k => j + 1 \in 1 .. Len(t) /\ t[j + 1] = s[j]
      BY <1>1, <1>3, <1>5, SMT
    <3>3. j < k \/ j >= k
      BY <1>1
    <3> QED
      BY <1>3, <3>1, <3>2, <3>3, InRange
  <2>5. Range(s) \subseteq Range(t)
    BY <2>4, RangeWithin
  <2> QED
    BY <1>3, <2>2, <2>3, <2>5, InRange
<1>7. IsInjective(s) /\ n \notin Range(s) => IsInjective(t)
  <2> HAVE IsInjective(s) /\ n \notin Range(s)
  <2>1. /\ \A i, j \in 1 .. Len(s) : s[i] = s[j] => i = j
        /\ \A j \in 1 .. Len(s) : s[j] # n
    BY Members
  <2>2. \A i, j \in 1 .. Len(t) : t[i] = t[j] => i = j
    <3> DEFINE old(j) == IF j < k THEN j ELSE j - 1
    <3>1. \A j \in 1 .. Len(t) : j # k => old(j) \in 1 .. Len(s) /\ t[j] = s[old(j)]
      BY <1>1, <1>3, <1>5, SMT
    <3>2. \A i, j \in 1 .. Len(t) : i # k /\ j # k /\ old(i) = old(j) => i = j
      BY <1>1, <1>3, SMT
    <3>3. t[k] = n
      BY <1>1, <1>3, <1>5, SMT
    <3> HIDE DEF old
    <3> QED
      BY <3>1, <3>2, <3>3, <2>1, SMT
  <2> QED
    BY <1>3, <2>2, Members
<1> QED
  BY <1>3, <1>4, <1>6, <1>7 DEF t

\* Unlinking a node of a list without duplicates: exactly that one is gone.
LEMMA RemovedFacts ==
    ASSUME NEW S, NEW s \in Seq(S), NEW k \in 1 .. Len(s), IsInjective(s)
    PROVE  LET t == Removed(s, k)
           IN  /\ t \in Seq(S)
               /\ Range(t) = Range(s) \ {s[k]}
               /\ IsInjective(t)
<1> DEFINE t == Removed(s, k)
<1>1. /\ Len(s) \in Nat /\ Len(s) - 1 \in Nat
      /\ \A j \in 1 .. Len(s) : s[j] \in S
      /\ \A i, j \in 1 .. Len(s) : s[i] = s[j] => i = j
  BY Members, SMT
<1>2. t \in [1 .. Len(s) - 1 -> S]
  BY <1>1, SMT DEF Removed
<1>3. t \in Seq(S) /\ Len(t) = Len(s) - 1
  BY <1>1, <1>2, FunctionIsSeq
<1>4. \A j \in 1 .. Len(t) : t[j] = IF j < k THEN s[j] ELSE s[j + 1]
  BY <1>3 DEF Removed
<1> HIDE DEF t
<1>5. \A j \in 1 .. Len(t) : t[j] \in Range(s) \ {s[k]}
  <2> TAKE j \in 1 .. Len(t)
  <2> DEFINE i == IF j < k THEN j ELSE j + 1
  <2>1. i \in 1 .. Len(s) /\ i # k /\ t[j] = s[i]
    BY <1>1, <1>3, <1>4, SMT
  <2> QED
    BY <1>1, <2>1, InRange
<1>6. \A i \in 1 .. Len(s) : s[i] \in Range(t) \cup {s[k]}
  <2> TAKE i \in 1 .. Len(s)
  <2>1. i < k => i \in 1 .. Len(t) /\ t[i] = s[i]
    BY <1>1, <1>3, <1>4, SMT
  <2>2. i > k => i - 1 \in 1 .. Len(t) /\ t[i - 1] = s[i]
    BY <1>1, <1>3, <1>4, SMT
  <2>3. i < k \/ i = k \/ i > k
    BY <1>1
  <2> QED
    BY <1>3, <2>1, <2>2, <2>3, InRange
<1>7. Range(t) = Range(s) \ {s[k]}
  <2>1. Range(t) \subseteq Range(s) \ {s[k]}
    BY <1>3, <1>5, RangeWithin
  <2>2. Range(s) \subseteq Range(t) \cup {s[k]}
    BY <1>6, RangeWithin
  <2> QED
    BY <2>1, <2>2
<1>8. IsInjective(t)
  <2>1. \A i, j \in 1 .. Len(t) : t[i] = t[j] => i = j
    BY <1>1, <1>3, <1>4, SMT
  <2> QED
    BY <1>3, <2>1, Members
<1> QED
  BY <1>3, <1>7, <1>8 DEF t

\* Taking the first node off a list without duplicates.
LEMMA TailFacts ==
    ASSUME NEW S, NEW s \in Seq(S), s # <<>>
    PROVE  /\ Tail(s) \in Seq(S)
           /\ Head(s) \in S
           /\ Range(s) = Range(Tail(s)) \cup {Head(s)}
           /\ IsInjective(s) => IsInjective(Tail(s)) /\ Head(s) \notin Range(Tail(s))
<1> DEFINE t == Tail(s)
<1>1. /\ t \in Seq(S) /\ Head(s) \in S /\ Len(t) = Len(s) - 1
      /\ \A i \in 1 .. Len(t) : t[i] = s[i + 1]
      /\ Len(s) \in Nat \ {0}
  BY HeadTailProperties, EmptySeq
<1>2. Head(s) = s[1]
  BY <1>1
<1> HIDE DEF t
<1>3. \A j \in 1 .. Len(s) : s[j] \in Range(t) \cup {s[1]}
  <2> TAKE j \in 1 .. Len(s)
  <2>1. j # 1 => j - 1 \in 1 .. Len(t) /\ t[j - 1] = s[j]
    BY <1>1, SMT
  <2> QED
    BY <1>1, <2>1, InRange
<1>4. \A i \in 1 .. Len(t) : t[i] \in Range(s)
  <2> TAKE i \in 1 .. Len(t)
  <2>1. i + 1 \in 1 .. Len(s) /\ t[i] = s[i + 1]
    BY <1>1, SMT
  <2> QED
    BY <2>1, InRange
<1>5. 1 \in 1 .. Len(s)
  BY <1>1
<1>6. Range(s) = Range(t) \cup {s[1]}
  <2>1. Range(s) \subseteq Range(t) \cup {s[1]}
    BY <1>3, RangeWithin
  <2>2. Range(t) \subseteq Range(s)
    BY <1>1, <1>4, RangeWithin
  <2> QED
    BY <1>5, <2>1, <2>2, InRange
<1>7. IsInjective(s) => IsInjective(t) /\ s[1] \notin Range(t)
  <2> HAVE IsInjective(s)
  <2>1. \A i, j \in 1 .. Len(s) : s[i] = s[j] => i = j
    BY Members
  <2>2. \A i, j \in 1 .. Len(t) : t[i] = t[j] => i = j
    BY <1>1, <2>1, SMT
  <2>3. \A i \in 1 .. Len(t) : t[i] # s[1]
    BY <1>1, <2>1, SMT
  <2> QED
    BY <1>1, <2>2, <2>3, Members
<1> QED
  BY <1>1, <1>2, <1>6, <1>7 DEF t

-----------------------------------------------------------------------------
\* What the program's position says of the list and of the client at work.
Stages ==
    /\ pc # "run" => cur = <<>>
    /\ pc \in {"compare", "deduct"} => pos \in 1 .. Len(task_list)
    /\ pc \in {"compare", "deduct", "link"} => held[owner] # NoBlock

\* The ticks node b still waits once k of them have passed.
Within(b, k) == due[b] <= AtLeast0(task[b].ticks - k)

\* What is left of each node's period is covered by its ticks: less RTC.CNT
\* where the counter runs towards the head, less the variable ticks where the
\* interrupt has not paid the node off, and in full where it has been adjusted.
DueBound ==
    /\ \A c \in Contexts : held[c] # NoBlock => Within(held[c], 0)
    /\ pc = "open" => \A b \in Range(task_list) : Within(b, cnt)
    /\ pc \in {"compare", "deduct"} =>
          \A j \in 1 .. Len(task_list) :
              Within(task_list[j], IF j < pos THEN 0 ELSE cnt)
    /\ pc \in {"link", "run"} => \A b \in Range(task_list) : Within(b, 0)
    /\ pc = "run" => \A b \in Range(cur) : Within(b, ticks)

IInv == TypeOK /\ Stages /\ PoolExact /\ MatchNotMissed /\ DueBound

LEMMA InitInvariant == Init => IInv
<1> SUFFICES ASSUME Init PROVE IInv
  OBVIOUS
<1> USE PoolAssumption, WidthAssumption, CallAssumption
<1>1. /\ <<>> \in Seq(Blocks) /\ Len(<<>>) = 0
      /\ Range(<<>>) = {} /\ IsInjective(<<>>)
  BY EmptyList
<1>2. TypeOK
  <2>1. task \in [Blocks -> [cb : Callbacks, freq : 0 .. Width - 1,
                             ticks : 0 .. Width - 1, lifetime : Nat]]
    BY SMT DEF Init, Callbacks
  <2>2. /\ refcnt \in [Blocks -> {0, 1}]
        /\ held \in [Contexts -> Blocks \cup {NoBlock}]
        /\ due \in [Blocks -> Nat]
    BY SMT DEF Init
  <2>3. /\ ticks \in 0 .. Width - 1 /\ cnt \in 0 .. Width - 1
        /\ pos \in Nat /\ calls \in 0 .. MaxCalls
    BY SMT DEF Init
  <2> QED
    BY <1>1, <2>1, <2>2, <2>3 DEF Init, TypeOK, Contexts
<1>3. Stages
  BY DEF Init, Stages
<1>4. PoolExact
  BY <1>1, SMT DEF Init, PoolExact, Listed, Held, NoBlock, Contexts
<1>5. MatchNotMissed
  BY DEF Init, MatchNotMissed
<1>6. DueBound
  BY <1>1, SMT DEF Init, DueBound, NoBlock, Contexts
<1> QED
  BY <1>2, <1>3, <1>4, <1>5, <1>6 DEF IInv

-----------------------------------------------------------------------------
LEMMA Wraps == \A a \in Int : a % Width \in 0 .. Width - 1
BY WidthAssumption, SMT

LEMMA NoWrap == /\ \A a \in 0 .. Width - 1 : a % Width = a
                /\ \A a, b \in 0 .. Width - 1 : a < b => (a + 1) % Width = a + 1
BY WidthAssumption, SMT

\* The records in the pool: what an update of one of them needs to be one.
TimerRecord == [cb : Callbacks, freq : 0 .. Width - 1,
                ticks : 0 .. Width - 1, lifetime : Nat]

LEMMA RecordUpdates ==
    ASSUME task \in [Blocks -> TimerRecord], NEW b \in Blocks,
           NEW t \in 0 .. Width - 1, NEW l \in Nat
    PROVE  /\ [task EXCEPT ![b].ticks = t] \in [Blocks -> TimerRecord]
           /\ [task EXCEPT ![b].lifetime = l] \in [Blocks -> TimerRecord]
           /\ [task EXCEPT ![b] = [cb |-> @.cb, freq |-> @.freq, ticks |-> t,
                                   lifetime |-> l]] \in [Blocks -> TimerRecord]
<1>1. /\ [task EXCEPT ![b].ticks = t] \in [Blocks -> TimerRecord]
      /\ [task EXCEPT ![b].lifetime = l] \in [Blocks -> TimerRecord]
  BY SMT DEF TimerRecord
<1>2. task[b].cb \in Callbacks /\ task[b].freq \in 0 .. Width - 1
  BY SMT DEF TimerRecord
<1>3. [cb |-> task[b].cb, freq |-> task[b].freq, ticks |-> t, lifetime |-> l]
         \in TimerRecord
  BY <1>2 DEF TimerRecord
<1> QED
  BY <1>1, <1>3, Zenon

\* The registers stay in range, whatever list is armed.
LEMMA SetTicksType ==
    ASSUME TypeOK, NEW l \in Seq(Blocks), NEW tk \in [Blocks -> TimerRecord],
           SetTicks(l, tk)
    PROVE  /\ ticks' \in 0 .. Width - 1 /\ cnt' \in 0 .. Width - 1
           /\ inten' \in BOOLEAN
<1>1. l # <<>> => 1 \in 1 .. Len(l)
  BY EmptySeq, SMT
<1>2. l # <<>> => l[1] \in Blocks
  BY <1>1, Members
<1>3. l # <<>> => tk[l[1]].ticks \in 0 .. Width - 1
  BY <1>2 DEF TimerRecord
<1>4. CASE l = <<>>
  BY <1>4, Zenon DEF SetTicks, TypeOK
<1>5. CASE l # <<>>
  BY <1>3, <1>5, WidthAssumption, SMT DEF SetTicks
<1> QED
  BY <1>4, <1>5

LEMMA TypePreserved ==
    ASSUME TypeOK, Stages, PoolExact, [Next]_vars
    PROVE  TypeOK'
<1> USE PoolAssumption, WidthAssumption
<1>0. /\ task_list \in Seq(Blocks) /\ cur \in Seq(Blocks)
      /\ task \in [Blocks -> TimerRecord]
      /\ IsInjective(task_list)
  BY DEF TypeOK, TimerRecord, PoolExact
<1>1. ASSUME NEW c \in Contexts, NEW r \in Requests, InitTimer(c, r) PROVE TypeOK'
  <2>1. PICK b \in Blocks : InitTimer(c, r)!(b)
    BY <1>1 DEF InitTimer
  <2>2. task' \in [Blocks -> TimerRecord]
    <3>1. [cb |-> r.cb, freq |-> r.freq, ticks |-> r.freq, lifetime |-> r.lifetime]
             \in TimerRecord
      BY RequestAssumption DEF TimerRecord, Callbacks
    <3>2. task' = [task EXCEPT ![b] = [cb |-> r.cb, freq |-> r.freq, ticks |-> r.freq,
                                       lifetime |-> r.lifetime]]
      BY <2>1, Zenon
    <3> QED
      BY <1>0, <3>1, <3>2, Zenon
  <2>3. refcnt' \in [Blocks -> {0, 1}] /\ due' \in [Blocks -> Nat]
    BY <2>1, RequestAssumption, SMT DEF TypeOK
  <2>4. held' \in [Contexts -> Blocks \cup {NoBlock}] /\ calls' \in 0 .. MaxCalls
    BY <2>1, CallAssumption, SMT DEF TypeOK, Call
  <2> QED
    BY <2>1, <2>2, <2>3, <2>4, SMT DEF TypeOK, TimerRecord, rtcVars
<1>2. ASSUME NEW c \in Contexts, NEW r \in Requests, DelTimer(c, r.cb) PROVE TypeOK'
  <2>1. task_list' \in Seq(Blocks) /\ refcnt' \in [Blocks -> {0, 1}]
    <3>1. \A k \in 1 .. Len(task_list) : Removed(task_list, k) \in Seq(Blocks)
      BY <1>0, RemovedFacts
    <3>2. \A k \in 1 .. Len(task_list) :
             [refcnt EXCEPT ![task_list[k]] = 0] \in [Blocks -> {0, 1}]
      BY SMT DEF TypeOK
    <3>3. CASE UNCHANGED <<task_list, refcnt>>
      BY <3>3 DEF TypeOK
    <3>4. CASE ~UNCHANGED <<task_list, refcnt>>
      <4>1. PICK k \in 1 .. Len(task_list) :
               /\ task_list' = Removed(task_list, k)
               /\ refcnt' = [refcnt EXCEPT ![task_list[k]] = 0]
        BY <1>2, <3>4, Zenon DEF DelTimer
      <4> QED
        BY <3>1, <3>2, <4>1
    <3> QED
      BY <3>3, <3>4
  <2>2. SetTicks(task_list', task)
    BY <1>2 DEF DelTimer
  <2>3. /\ ticks' \in 0 .. Width - 1 /\ cnt' \in 0 .. Width - 1
        /\ inten' \in BOOLEAN
    BY <1>0, <2>1, <2>2, SetTicksType
  <2>4. calls' \in 0 .. MaxCalls
    BY <1>2, CallAssumption, SMT DEF DelTimer, Call, TypeOK
  <2> QED
    BY <1>2, <2>1, <2>3, <2>4 DEF DelTimer, TypeOK
<1>3. ASSUME NEW c \in Contexts, EnterAdd(c) PROVE TypeOK'
  BY <1>3 DEF EnterAdd, TypeOK, listVars, rtcVars
<1>4. CASE Compare
  <2>1. pos \in 1 .. Len(task_list) /\ task_list[pos] \in Blocks
    BY <1>0, <1>4, Members DEF Compare, Stages
  <2>2. task' \in [Blocks -> TimerRecord]
    <3>1. 0 \in 0 .. Width - 1 /\ 0 \in Nat
      OBVIOUS
    <3>2. [task EXCEPT ![task_list[pos]].ticks = 0] \in [Blocks -> TimerRecord]
      BY <1>0, <2>1, <3>1, RecordUpdates
    <3> QED
      BY <1>0, <1>4, <3>2, Zenon DEF Compare
  <2>3. pos' \in Nat /\ pc' \in {"deduct", "compare", "link"}
    <3>1. NextNode \/ (pos' = pos /\ pc' = "deduct")
      BY <1>4 DEF Compare
    <3> QED
      BY <3>1, SMT DEF NextNode, TypeOK
  <2> QED
    BY <1>4, <2>2, <2>3 DEF Compare, TypeOK, TimerRecord, rtcVars
<1>5. CASE Deduct
  <2>1. pos \in 1 .. Len(task_list) /\ task_list[pos] \in Blocks
    BY <1>0, <1>5, Members DEF Deduct, Stages
  <2>2. (task[task_list[pos]].ticks - cnt) % Width \in 0 .. Width - 1
    <3>1. task[task_list[pos]].ticks - cnt \in Int
      BY <1>0, <2>1, SMT DEF TypeOK, TimerRecord
    <3> QED
      BY <3>1, Wraps, Zenon
  <2>3. task' \in [Blocks -> TimerRecord]
    <3>1. 0 \in Nat
      OBVIOUS
    <3>2. [task EXCEPT ![task_list[pos]].ticks = (task[task_list[pos]].ticks - cnt) % Width]
             \in [Blocks -> TimerRecord]
      BY <1>0, <2>1, <2>2, <3>1, RecordUpdates
    <3> QED
      BY <1>5, <3>2, Zenon DEF Deduct
  <2>4. pos' \in Nat /\ pc' \in {"compare", "link"}
    <3>1. NextNode
      BY <1>5 DEF Deduct
    <3> QED
      BY <3>1, SMT DEF NextNode, TypeOK
  <2> QED
    BY <1>5, <2>3, <2>4 DEF Deduct, TypeOK, TimerRecord, rtcVars
<1>6. CASE Link
  <2>1. held[owner] \in Blocks
    BY <1>6 DEF Link, Stages, TypeOK
  <2>2. PICK k \in 1 .. Len(task_list) + 1 :
           /\ task_list' = Inserted(task_list, k, held[owner])
           /\ SetTicks(task_list', task)
    BY <1>6 DEF Link
  <2>3. task_list' \in Seq(Blocks)
    BY <1>0, <2>1, <2>2, InsertedFacts
  <2>4. /\ ticks' \in 0 .. Width - 1 /\ cnt' \in 0 .. Width - 1
        /\ inten' \in BOOLEAN
    BY <1>0, <2>2, <2>3, SetTicksType
  <2>5. held' \in [Contexts -> Blocks \cup {NoBlock}]
    BY <1>6, SMT DEF Link, TypeOK
  <2> QED
    BY <1>6, <2>3, <2>4, <2>5 DEF Link, TypeOK, Contexts
<1>7. CASE Interrupt
  <2>1. due' \in [Blocks -> Nat]
    BY <1>7, SMT DEF Interrupt, TypeOK, AtLeast0
  <2> QED
    BY <1>7, <2>1, EmptySeq DEF Interrupt, TypeOK, clientVars
<1>8. CASE RunNode
  <2>1. Head(cur) \in Blocks /\ cur' \in Seq(Blocks)
    BY <1>0, <1>8, TailFacts DEF RunNode
  <2>2. task[Head(cur)].freq \in 0 .. Width - 1 /\ task[Head(cur)].lifetime \in Nat
    BY <1>0, <2>1, SMT DEF TimerRecord
  <2>3. CASE Expires(Head(cur))
    <3>1. task' = [task EXCEPT ![Head(cur)].lifetime = 0]
      BY <1>8, <2>3 DEF RunNode
    <3>2. task' \in [Blocks -> TimerRecord]
      <4>1. 0 \in Nat
        OBVIOUS
      <4> QED
        BY <1>0, <2>1, <2>2, <3>1, <4>1, RecordUpdates
    <3>3. refcnt' \in [Blocks -> {0, 1}]
      BY <1>8, <2>3, Zenon DEF RunNode, TypeOK
    <3> QED
      BY <1>8, <2>1, <2>3, <3>2, <3>3 DEF RunNode, TypeOK, TimerRecord, rtcVars, clientVars
  <2>4. CASE ~Expires(Head(cur))
    <3>1. AtLeast0(task[Head(cur)].lifetime - 1) \in Nat
      BY <2>2, SMT DEF AtLeast0
    <3>2. task' \in [Blocks -> TimerRecord]
      <4>1. task' = [task EXCEPT ![Head(cur)] =
                       [cb |-> @.cb, freq |-> @.freq, ticks |-> task[Head(cur)].freq,
                        lifetime |-> AtLeast0(task[Head(cur)].lifetime - 1)]]
        BY <1>8, <2>4 DEF RunNode
      <4> QED
        BY <1>0, <2>1, <2>2, <3>1, <4>1, RecordUpdates
    <3>3. due' \in [Blocks -> Nat]
      <4>1. due' = [due EXCEPT ![Head(cur)] = task[Head(cur)].freq]
        BY <1>8, <2>4 DEF RunNode
      <4>2. task[Head(cur)].freq \in Nat /\ due \in [Blocks -> Nat]
        BY <2>2 DEF TypeOK
      <4> QED
        BY <4>1, <4>2, Zenon
    <3>4. task_list' \in Seq(Blocks)
      BY <1>0, <1>8, <2>1, <2>4, InsertedFacts DEF RunNode, Relist
    <3> QED
      BY <1>8, <2>1, <2>4, <3>2, <3>3, <3>4
         DEF RunNode, TypeOK, TimerRecord, rtcVars, clientVars
  <2> QED
    BY <2>3, <2>4
<1>9. CASE CarryNode
  <2>1. Head(cur) \in Blocks /\ cur' \in Seq(Blocks)
    BY <1>0, <1>9, TailFacts DEF CarryNode
  <2>2. task[Head(cur)].ticks - ticks \in 0 .. Width - 1
    <3>1. task[Head(cur)].ticks \in 0 .. Width - 1 /\ ticks \in 0 .. Width - 1
      BY <1>0, <2>1, SMT DEF TypeOK, TimerRecord
    <3>2. ~(task[Head(cur)].ticks <= ticks)
      BY <1>9 DEF CarryNode, Due
    <3> QED
      BY <3>1, <3>2, SMT
  <2>3. task' \in [Blocks -> TimerRecord]
    <3>1. task' = [task EXCEPT ![Head(cur)].ticks = task[Head(cur)].ticks - ticks]
      BY <1>9 DEF CarryNode
    <3>2. 0 \in Nat
      OBVIOUS
    <3> QED
      BY <1>0, <2>1, <2>2, <3>1, <3>2, RecordUpdates
  <2>4. task_list' \in Seq(Blocks)
    BY <1>0, <1>9, <2>1, InsertedFacts DEF CarryNode, Relist
  <2> QED
    BY <1>9, <2>1, <2>3, <2>4 DEF CarryNode, TypeOK, TimerRecord, rtcVars, clientVars
<1>10. CASE Rearm
  <2>1. /\ ticks' \in 0 .. Width - 1 /\ cnt' \in 0 .. Width - 1
        /\ inten' \in BOOLEAN
    BY <1>0, <1>10, SetTicksType DEF Rearm
  <2> QED
    BY <1>10, <2>1 DEF Rearm, TypeOK, listVars, clientVars
<1>11. CASE RtcCount
  <2>1. cnt' \in 0 .. Width - 1
    <3>1. cnt + 1 \in Int
      BY DEF TypeOK
    <3> QED
      BY <1>11, <3>1, Wraps, Zenon DEF RtcCount
  <2>2. due' \in [Blocks -> Nat]
    BY <1>11, SMT DEF RtcCount, TypeOK, AtLeast0
  <2> QED
    BY <1>11, <2>1, <2>2 DEF RtcCount, TypeOK, listVars, clientVars
<1>12. CASE UNCHANGED vars
  BY <1>12 DEF vars, listVars, rtcVars, clientVars, TypeOK
<1> QED
  BY <1>1, <1>2, <1>3, <1>4, <1>5, <1>6, <1>7, <1>8, <1>9, <1>10, <1>11, <1>12
     DEF Next, Cpu

-----------------------------------------------------------------------------
LEMMA StagesPreserved ==
    ASSUME TypeOK, Stages, [Next]_vars
    PROVE  Stages'
<1> USE DEF Stages
<1>1. ASSUME NEW c \in Contexts, NEW r \in Requests,
             InitTimer(c, r) \/ DelTimer(c, r.cb)
      PROVE  Stages'
  BY <1>1 DEF InitTimer, DelTimer, Call, MayRun
<1>2. ASSUME NEW c \in Contexts, EnterAdd(c) PROVE Stages'
  <2>1. task_list # <<>> => 1 \in 1 .. Len(task_list)
    BY EmptySeq, SMT DEF TypeOK
  <2> QED
    BY <1>2, <2>1, SMT DEF EnterAdd, MayRun, listVars
<1>3. CASE Compare \/ Deduct
  <2>1. pos \in 1 .. Len(task_list) /\ Len(task_list) \in Nat
    BY <1>3, Members DEF Compare, Deduct, TypeOK
  <2>2. pos # Len(task_list) => pos + 1 \in 1 .. Len(task_list)
    BY <2>1, SMT
  <2> QED
    BY <1>3, <2>1, <2>2 DEF Compare, Deduct, NextNode
<1>4. CASE Link \/ Rearm
  BY <1>4 DEF Link, Rearm, listVars
<1>5. CASE Interrupt \/ RunNode \/ CarryNode
  BY <1>5 DEF Interrupt, RunNode, CarryNode
<1>6. CASE RtcCount
  BY <1>6 DEF RtcCount, listVars, clientVars
<1>7. CASE UNCHANGED vars
  BY <1>7 DEF vars, listVars, clientVars
<1> QED
  BY <1>1, <1>2, <1>3, <1>4, <1>5, <1>6, <1>7 DEF Next, Cpu

\* The blocks in the hands of the two contexts, spelled out.
LEMMA HeldBlocks == /\ Held = {held["task"], held["isr"]} \ {NoBlock}
                    /\ Held' = {held'["task"], held'["isr"]} \ {NoBlock}
BY DEF Held, Contexts

\* No interleaving of clients and interrupt loses, frees or doubles a node.
LEMMA PoolPreserved ==
    ASSUME TypeOK, Stages, PoolExact, [Next]_vars
    PROVE  PoolExact'
<1>0. /\ task_list \in Seq(Blocks) /\ cur \in Seq(Blocks)
      /\ IsInjective(task_list) /\ IsInjective(cur)
      /\ \A b \in Blocks : b # NoBlock
  BY PoolAssumption, SMT DEF TypeOK, PoolExact, Blocks, NoBlock
<1>e. Range(<<>>) = {} /\ IsInjective(<<>>)
  BY EmptyList
<1>1. ASSUME NEW c \in Contexts, NEW r \in Requests, InitTimer(c, r) PROVE PoolExact'
  <2>1. PICK b \in Blocks : InitTimer(c, r)!(b)
    BY <1>1 DEF InitTimer
  <2>2. b \notin Listed /\ b \notin Held
    BY <2>1 DEF PoolExact
  <2>3. /\ held' = [held EXCEPT ![c] = b] /\ held[c] = NoBlock
        /\ refcnt' = [refcnt EXCEPT ![b] = 1]
        /\ task_list' = task_list /\ cur' = cur
    BY <2>1 DEF Call
  <2>4. Listed' = Listed
    BY <2>3 DEF Listed
  <2>5. Held' = Held \cup {b}
    BY <1>0, <2>3, HeldBlocks, SMT DEF TypeOK, Contexts
  <2>6. held'["task"] = held'["isr"] => held'["task"] = NoBlock
    BY <1>0, <2>2, <2>3, HeldBlocks, SMT DEF TypeOK, Contexts
  <2>7. \A a \in Blocks : refcnt'[a] = 1 <=> a \in Listed' \cup Held'
    BY <2>3, <2>4, <2>5, SMT DEF TypeOK, PoolExact
  <2> QED
    BY <2>2, <2>3, <2>4, <2>5, <2>6, <2>7, Zenon DEF PoolExact
<1>2. ASSUME NEW c \in Contexts, NEW r \in Requests, DelTimer(c, r.cb) PROVE PoolExact'
  <2>1. held' = held /\ cur' = cur
    BY <1>2 DEF DelTimer
  <2>2. CASE task_list' = task_list /\ refcnt' = refcnt
    BY <2>1, <2>2 DEF PoolExact, Listed, Held
  <2>3. ASSUME NEW k \in 1 .. Len(task_list),
               task_list' = Removed(task_list, k),
               refcnt' = [refcnt EXCEPT ![task_list[k]] = 0]
        PROVE  PoolExact'
    <3> DEFINE n == task_list[k]
    <3>1. /\ IsInjective(task_list') /\ Range(task_list') = Range(task_list) \ {n}
          /\ n \in Range(task_list) /\ n \in Blocks
      BY <1>0, <2>3, RemovedFacts, InRange, Members
    <3>2. Listed' = Listed \ {n} /\ Held' = Held
      BY <2>1, <3>1 DEF Listed, Held, PoolExact
    <3>3. \A a \in Blocks : refcnt'[a] = 1 <=> a \in Listed' \cup Held'
      <4>1. n \in Listed /\ n \notin Held
        BY <3>1 DEF Listed, PoolExact
      <4>2. /\ refcnt \in [Blocks -> {0, 1}]
            /\ \A a \in Blocks : refcnt[a] = 1 <=> a \in Listed \cup Held
        BY DEF TypeOK, PoolExact
      <4>3. refcnt' = [refcnt EXCEPT ![n] = 0]
        BY <2>3
      <4> HIDE DEF n
      <4> QED
        BY <3>2, <4>1, <4>2, <4>3, SMT
    <3> QED
      BY <2>1, <3>1, <3>2, <3>3, Zenon DEF PoolExact
  <2> QED
    BY <1>2, <2>2, <2>3 DEF DelTimer
<1>3. CASE Link
  <2> DEFINE n == held[owner]
  <2>1. n \in Held /\ n \in Blocks /\ owner \in Contexts
    BY <1>3 DEF Link, Stages, TypeOK, Held
  <2>2. PICK k \in 1 .. Len(task_list) + 1 : task_list' = Inserted(task_list, k, n)
    BY <1>3 DEF Link
  <2>3. n \notin Listed /\ n \notin Range(task_list)
    BY <2>1 DEF PoolExact, Listed
  <2>4. IsInjective(task_list') /\ Range(task_list') = Range(task_list) \cup {n}
    BY <1>0, <2>1, <2>2, <2>3, InsertedFacts
  <2>5. /\ cur' = cur /\ refcnt' = refcnt
        /\ held' = [held EXCEPT ![owner] = NoBlock]
    BY <1>3 DEF Link
  <2>6. Listed' = Listed \cup {n}
    BY <2>4, <2>5 DEF Listed
  <2>7. /\ Held' = Held \ {n}
        /\ held'["task"] = held'["isr"] => held'["task"] = NoBlock
    BY <1>0, <2>1, <2>5, HeldBlocks, SMT DEF TypeOK, Contexts, PoolExact
  <2>8. \A a \in Blocks : refcnt'[a] = 1 <=> a \in Listed' \cup Held'
    BY <2>1, <2>5, <2>6, <2>7, Zenon DEF PoolExact
  <2>9. Range(task_list') \cap Range(cur') = {}
    BY <2>3, <2>4, <2>5, Zenon DEF PoolExact, Listed
  <2> QED
    BY <2>3, <2>4, <2>5, <2>6, <2>7, <2>8, <2>9, Zenon DEF PoolExact
<1>4. CASE Interrupt
  <2>1. /\ cur' = task_list /\ task_list' = <<>> /\ cur = <<>>
        /\ refcnt' = refcnt /\ held' = held
    BY <1>4 DEF Interrupt, Stages, clientVars
  <2>2. Listed' = Listed /\ Held' = Held
    BY <1>e, <2>1 DEF Listed, Held
  <2> QED
    BY <1>e, <2>1, <2>2 DEF PoolExact
<1>5. ASSUME RunNode \/ CarryNode PROVE PoolExact'
  <2> DEFINE n == Head(cur)
  <2>1. cur # <<>> /\ cur' = Tail(cur) /\ held' = held
    BY <1>5 DEF RunNode, CarryNode, clientVars
  <2>2. /\ n \in Blocks /\ n \notin Range(cur') /\ IsInjective(cur')
        /\ Range(cur) = Range(cur') \cup {n}
    BY <1>0, <2>1, TailFacts
  <2>3. n \in Listed /\ n \notin Held /\ n \notin Range(task_list)
    BY <2>2 DEF Listed, PoolExact
  <2>4. Held' = Held
    BY <2>1 DEF Held
  <2>5. ASSUME task_list' = task_list, refcnt' = [refcnt EXCEPT ![n] = 0]
        PROVE  PoolExact'
    <3>1. Listed' = Listed \ {n}
      BY <2>2, <2>3, <2>5 DEF Listed
    <3>2. \A a \in Blocks : refcnt'[a] = 1 <=> a \in Listed' \cup Held'
      <4>1. /\ refcnt \in [Blocks -> {0, 1}]
            /\ \A a \in Blocks : refcnt[a] = 1 <=> a \in Listed \cup Held
        BY DEF TypeOK, PoolExact
      <4>2. refcnt' = [refcnt EXCEPT ![n] = 0]
        BY <2>5
      <4> HIDE DEF n
      <4> QED
        BY <2>3, <2>4, <3>1, <4>1, <4>2, SMT
    <3> QED
      BY <2>1, <2>2, <2>4, <2>5, <3>1, <3>2, Zenon DEF PoolExact
  <2>6. ASSUME NEW k \in 1 .. Len(task_list) + 1,
               task_list' = Inserted(task_list, k, n), refcnt' = refcnt
        PROVE  PoolExact'
    <3>1. IsInjective(task_list') /\ Range(task_list') = Range(task_list) \cup {n}
      BY <1>0, <2>2, <2>3, <2>6, InsertedFacts
    <3>2. Listed' = Listed /\ Range(task_list') \cap Range(cur') = {}
      BY <2>2, <2>3, <3>1 DEF Listed, PoolExact
    <3> QED
      BY <2>1, <2>2, <2>4, <2>6, <3>1, <3>2, Zenon DEF PoolExact
  <2> QED
    BY <1>5, <2>5, <2>6 DEF RunNode, CarryNode, Relist
<1>6. CASE UNCHANGED <<task_list, cur, refcnt, held>>
  BY <1>6 DEF PoolExact, Listed, Held
<1> QED
  BY <1>1, <1>2, <1>3, <1>4, <1>5, <1>6
     DEF Next, Cpu, EnterAdd, Compare, Deduct, Rearm, RtcCount, vars, listVars, clientVars

-----------------------------------------------------------------------------
\* The compare is armed for the head: what set_ticks leaves behind.
LEMMA Armed ==
    ASSUME TypeOK, task_list' \in Seq(Blocks), task' = task, SetTicks(task_list', task)
    PROVE  MatchNotMissed'
<1>1. task_list' # <<>> => 1 \in 1 .. Len(task_list')
  BY EmptySeq, SMT
<1>2. task_list' # <<>> => task_list'[1] \in Blocks
  BY <1>1, Members
<1>3. task_list' # <<>> => 0 <= task[task_list'[1]].ticks
  BY <1>2, SMT DEF TypeOK
<1>4. CASE task_list' = <<>>
  BY <1>4 DEF SetTicks, MatchNotMissed
<1>5. CASE task_list' # <<>>
  BY <1>3, <1>5 DEF SetTicks, MatchNotMissed
<1> QED
  BY <1>4, <1>5

\* The head's match is never missed.
LEMMA MatchPreserved ==
    ASSUME TypeOK, TypeOK', Stages, PoolExact, MatchNotMissed, [Next]_vars
    PROVE  MatchNotMissed'
<1>0. task_list \in Seq(Blocks) /\ task_list' \in Seq(Blocks)
  BY DEF TypeOK
<1>1. ASSUME NEW c \in Contexts, NEW r \in Requests, InitTimer(c, r) PROVE MatchNotMissed'
  <2>1. PICK b \in Blocks : InitTimer(c, r)!(b)
    BY <1>1 DEF InitTimer
  <2>2. /\ task_list' = task_list /\ ticks' = ticks /\ cnt' = cnt
        /\ compif' = compif /\ inten' = inten /\ pc' = pc
    BY <2>1 DEF rtcVars
  <2>3. task_list # <<>> => task_list[1] \in Range(task_list)
    <3>1. task_list # <<>> => 1 \in 1 .. Len(task_list)
      BY <1>0, EmptySeq, SMT
    <3> QED
      BY <1>0, <3>1, InRange
  <2>4. task_list # <<>> => task_list[1] # b
    BY <2>1, <2>3 DEF PoolExact, Listed
  <2>5. task_list # <<>> => task'[task_list[1]] = task[task_list[1]]
    <3>1. task_list # <<>> => task_list[1] \in Blocks
      <4>1. task_list # <<>> => 1 \in 1 .. Len(task_list)
        BY <1>0, EmptySeq, SMT
      <4> QED
        BY <1>0, <4>1, Members
    <3> QED
      BY <2>1, <2>4, <3>1, Zenon DEF TypeOK
  <2> QED
    BY <2>2, <2>5 DEF MatchNotMissed
<1>2. ASSUME NEW c \in Contexts, NEW r \in Requests, DelTimer(c, r.cb)
      PROVE  MatchNotMissed'
  BY <1>0, <1>2, Armed DEF DelTimer
<1>3. CASE Link \/ Rearm
  BY <1>0, <1>3, Armed DEF Link, Rearm, listVars
<1>4. CASE RtcCount
  <2>1. /\ task_list' = task_list /\ task' = task /\ ticks' = ticks
        /\ inten' = inten /\ pc' = pc
        /\ cnt' = (cnt + 1) % Width
        /\ compif' = (compif \/ cnt = ticks)
    BY <1>4 DEF RtcCount, listVars
  <2>2. cnt < ticks => cnt' = cnt + 1
    BY <2>1, NoWrap DEF TypeOK
  <2>3. ASSUME pc = "open", task_list # <<>> PROVE compif' \/ cnt' <= ticks'
    <3>1. compif \/ cnt <= ticks
      BY <2>3 DEF MatchNotMissed
    <3>2. ticks \in Int /\ cnt \in Int
      BY DEF TypeOK
    <3>3. compif \/ cnt = ticks \/ cnt < ticks
      BY <3>1, <3>2, SMT
    <3>4. cnt < ticks => cnt' <= ticks'
      BY <2>1, <2>2, <3>2, SMT
    <3> QED
      BY <2>1, <3>3, <3>4, Zenon
  <2> QED
    BY <2>1, <2>3 DEF MatchNotMissed
<1>5. ASSUME NEW c \in Contexts,
             EnterAdd(c) \/ Compare \/ Deduct \/ Interrupt \/ RunNode \/ CarryNode
      PROVE  MatchNotMissed'
  <2>1. pc' # "open"
    BY <1>5 DEF EnterAdd, Compare, Deduct, Interrupt, RunNode, CarryNode, NextNode
  <2> QED
    BY <2>1 DEF MatchNotMissed
<1>6. CASE UNCHANGED vars
  BY <1>6 DEF vars, listVars, rtcVars, MatchNotMissed
<1> QED
  BY <1>1, <1>2, <1>3, <1>4, <1>5, <1>6 DEF Next, Cpu, Contexts

-----------------------------------------------------------------------------
\* A node keeps its bound when its ticks, its due and the base stay or only
\* ease, and any bound is weakest at base 0.
LEMMA WithinFacts ==
    ASSUME TypeOK, NEW b \in Blocks
    PROVE  /\ \A k \in Nat : Within(b, k) => Within(b, 0)
           /\ \A k \in Nat : Within(b, k) /\ task[b].ticks <= k => due[b] = 0
           /\ \A k \in Nat : Within(b, k) /\ task[b].ticks >= k
                                => due[b] <= task[b].ticks - k
<1>1. due[b] \in Nat /\ task[b].ticks \in Nat
  BY WidthAssumption, SMT DEF TypeOK
<1> QED
  BY <1>1, SMT DEF Within, AtLeast0

\* Arithmetic of the interrupt: with d counts left of t ticks at count c, an
\* interrupt that pays k ticks leaves no more than the ticks beyond k.
LEMMA PayOff ==
    /\ \A d, t, c, k \in Nat : d <= AtLeast0(t - c)
          => AtLeast0(d - AtLeast0(k - c)) <= AtLeast0(t - k)
    /\ \A d, t, c, k \in Nat : d <= AtLeast0(t - 0)
          => AtLeast0(d - AtLeast0(k - c)) <= AtLeast0(t - 0)
<1> SUFFICES ASSUME NEW d \in Nat, NEW t \in Nat, NEW c \in Nat, NEW k \in Nat
             PROVE  /\ d <= AtLeast0(t - c)
                          => AtLeast0(d - AtLeast0(k - c)) <= AtLeast0(t - k)
                    /\ d <= AtLeast0(t - 0)
                          => AtLeast0(d - AtLeast0(k - c)) <= AtLeast0(t - 0)
  OBVIOUS
<1>1. CASE k < c
  BY <1>1, SMT DEF AtLeast0
<1>2. CASE k >= c
  BY <1>2, SMT DEF AtLeast0
<1> QED
  BY <1>1, <1>2

\* One count: what is left shrinks as the counter grows.
LEMMA CountEases ==
    ASSUME TypeOK, RtcCount, NEW b \in Blocks
    PROVE  /\ \A k \in Nat : Within(b, k) => due'[b] <= AtLeast0(task'[b].ticks - k)
           /\ Within(b, cnt) => due'[b] <= AtLeast0(task'[b].ticks - cnt')
<1>1. /\ due'[b] = AtLeast0(due[b] - 1) /\ task' = task
      /\ cnt' = (cnt + 1) % Width
  BY DEF RtcCount, TypeOK, listVars
<1>2. /\ due[b] \in Nat /\ task[b].ticks \in 0 .. Width - 1 /\ cnt \in 0 .. Width - 1
  BY SMT DEF TypeOK
<1>3. \A k \in Nat : Within(b, k) => due'[b] <= AtLeast0(task'[b].ticks - k)
  BY <1>1, <1>2, SMT DEF Within, AtLeast0
<1>4. cnt < Width - 1 => cnt' = cnt + 1
  <2>1. Width - 1 \in 0 .. Width - 1
    BY WidthAssumption, SMT
  <2> QED
    BY <1>1, <1>2, <2>1, NoWrap
<1>5. Within(b, cnt) => due'[b] <= AtLeast0(task'[b].ticks - cnt')
  <2>1. CASE cnt < Width - 1
    BY <1>1, <1>2, <1>4, <2>1, SMT DEF Within, AtLeast0
  <2>2. CASE cnt = Width - 1
    <3>1. cnt' \in 0 .. Width - 1
      BY <1>1, <1>2, Wraps
    <3> QED
      BY <1>1, <1>2, <2>2, <3>1, SMT DEF Within, AtLeast0
  <2> QED
    BY <1>2, <2>1, <2>2, WidthAssumption, SMT
<1> QED
  BY <1>3, <1>5

\* The end of a turn of add_timer's adjusting loop, whichever way the node at
\* pos was adjusted: its bound now holds in full.
LEMMA TurnBound ==
    ASSUME TypeOK, PoolExact, DueBound,
           pc \in {"compare", "deduct"}, pos \in 1 .. Len(task_list), NextNode,
           task_list' = task_list, held' = held, due' = due, cnt' = cnt,
           \A b \in Blocks : b # task_list[pos] => task'[b] = task[b],
           due'[task_list[pos]] <= AtLeast0(task'[task_list[pos]].ticks - 0)
    PROVE  DueBound'
<1>0. /\ task_list \in Seq(Blocks) /\ Len(task_list) \in Nat /\ pos \in Int
      /\ \A j \in 1 .. Len(task_list) : task_list[j] \in Blocks
      /\ \A i, j \in 1 .. Len(task_list) : task_list[i] = task_list[j] => i = j
  <2>1. task_list \in Seq(Blocks) /\ pos \in Int /\ IsInjective(task_list)
    BY DEF TypeOK, PoolExact
  <2> QED
    BY <2>1, Members
<1>1. /\ pos' = pos + 1
      /\ pc' \in {"compare", "link"}
      /\ pc' = "compare" <=> pos # Len(task_list)
  BY DEF NextNode
<1>3. \A c \in Contexts : held'[c] # NoBlock =>
         due'[held'[c]] <= AtLeast0(task'[held'[c]].ticks - 0)
  <2> SUFFICES ASSUME NEW c \in Contexts, held[c] # NoBlock
               PROVE  due[held[c]] <= AtLeast0(task'[held[c]].ticks - 0)
    OBVIOUS
  <2>1. held[c] \in Blocks /\ held[c] # task_list[pos]
    BY InRange DEF TypeOK, PoolExact, Held, Listed
  <2> QED
    BY <2>1 DEF DueBound, Within
<1>4. \A j \in 1 .. Len(task_list) :
         due'[task_list[j]] <= AtLeast0(task'[task_list[j]].ticks - IF j < pos + 1 THEN 0 ELSE cnt)
  <2> TAKE j \in 1 .. Len(task_list)
  <2>1. CASE j = pos
    BY <1>0, <2>1, SMT
  <2>2. CASE j # pos
    <3>1. task'[task_list[j]] = task[task_list[j]]
      BY <1>0, <2>2
    <3>2. Within(task_list[j], IF j < pos THEN 0 ELSE cnt)
      BY DEF DueBound
    <3>3. j < pos <=> j < pos + 1
      BY <1>0, <2>2, SMT
    <3> QED
      BY <3>1, <3>2, <3>3 DEF Within
  <2> QED
    BY <2>1, <2>2
<1>5. pc' = "link" => \A b \in Range(task_list) : due'[b] <= AtLeast0(task'[b].ticks - 0)
  <2> HAVE pc' = "link"
  <2>1. \A j \in 1 .. Len(task_list) : j < pos + 1
    BY <1>0, <1>1, SMT
  <2>2. \A j \in 1 .. Len(task_list) :
           due'[task_list[j]] <= AtLeast0(task'[task_list[j]].ticks - 0)
    BY <1>4, <2>1
  <2> QED
    BY <1>0, <2>2, Members
<1> QED
  BY <1>1, <1>3, <1>4, <1>5 DEF DueBound, Within

\* Every step keeps what is left of each period covered by the node's ticks.
LEMMA BoundPreserved ==
    ASSUME TypeOK, TypeOK', Stages, Stages', PoolExact, PoolExact', DueBound, [Next]_vars
    PROVE  DueBound'
<1>0. /\ task_list \in Seq(Blocks) /\ cur \in Seq(Blocks)
      /\ \A b \in Range(task_list) : b \in Blocks
      /\ \A b \in Range(cur) : b \in Blocks
      /\ \A c \in Contexts : held[c] # NoBlock => held[c] \in Blocks /\ held[c] \in Held
      /\ Listed \cap Held = {}
      /\ cnt \in Nat /\ ticks \in Nat /\ 0 \in Nat
  <2>1. task_list \in Seq(Blocks) /\ cur \in Seq(Blocks)
    BY DEF TypeOK
  <2>2. /\ \A b \in Range(task_list) : b \in Blocks
        /\ \A b \in Range(cur) : b \in Blocks
    BY <2>1, Members
  <2>3. \A c \in Contexts : held[c] # NoBlock => held[c] \in Blocks /\ held[c] \in Held
    BY DEF TypeOK, Held
  <2>4. Listed \cap Held = {}
    BY DEF PoolExact
  <2>5. cnt \in Nat /\ ticks \in Nat /\ 0 \in Nat
    BY WidthAssumption, SMT DEF TypeOK
  <2> QED
    BY <2>1, <2>2, <2>3, <2>4, <2>5
<1>r. /\ task \in [Blocks -> TimerRecord] /\ due \in [Blocks -> Nat]
      /\ \A b \in Blocks : task[b].ticks \in Nat /\ task[b].ticks \in 0 .. Width - 1
  <2>1. task \in [Blocks -> TimerRecord] /\ due \in [Blocks -> Nat]
    BY DEF TypeOK, TimerRecord
  <2> QED
    BY <2>1, WidthAssumption, SMT DEF TimerRecord
<1>4. CASE Compare
  <2> DEFINE n == task_list[pos]
  <2>1. /\ pc = "compare" /\ pos \in 1 .. Len(task_list) /\ n \in Blocks
        /\ task_list' = task_list /\ held' = held /\ due' = due /\ cnt' = cnt
    BY <1>0, <1>4, Members DEF Compare, Stages, rtcVars
  <2>2. CASE task[n].ticks >= cnt
    BY <1>4, <2>1, <2>2 DEF Compare, DueBound, Within
  <2>3. CASE ~(task[n].ticks >= cnt)
    <3>1. NextNode /\ task' = [task EXCEPT ![n].ticks = 0]
      BY <1>4, <2>3 DEF Compare
    <3>2. \A b \in Blocks : b # n => task'[b] = task[b]
      BY <3>1 DEF TypeOK
    <3>3. task'[n].ticks = 0
      BY <1>r, <2>1, <3>1, SMT DEF TimerRecord
    <3>4. Within(n, cnt)
      BY <2>1 DEF DueBound
    <3>5. due'[n] = 0
      <4>1. task[n].ticks \in Nat
        BY <1>r, <2>1
      <4>2. task[n].ticks <= cnt
        BY <1>0, <2>3, <4>1, SMT
      <4> QED
        BY <1>0, <2>1, <3>4, <4>2, WithinFacts
    <3>6. due'[n] <= AtLeast0(task'[n].ticks - 0)
      BY <3>3, <3>5, SMT DEF AtLeast0
    <3> QED
      BY <2>1, <3>1, <3>2, <3>6, TurnBound
  <2> QED
    BY <2>2, <2>3
<1>5. CASE Deduct
  <2> DEFINE n == task_list[pos]
  <2>1. /\ pc = "deduct" /\ pos \in 1 .. Len(task_list) /\ n \in Blocks
        /\ task_list' = task_list /\ held' = held /\ due' = due /\ cnt' = cnt
    BY <1>0, <1>5, Members DEF Deduct, Stages, rtcVars
  <2>2. NextNode /\ task' = [task EXCEPT ![n].ticks = (task[n].ticks - cnt) % Width]
    BY <1>5 DEF Deduct
  <2>3. \A b \in Blocks : b # n => task'[b] = task[b]
    BY <2>2 DEF TypeOK
  <2>4. task'[n].ticks = (task[n].ticks - cnt) % Width
    BY <1>r, <2>1, <2>2, SMT DEF TimerRecord
  <2>7. /\ task[n].ticks \in 0 .. Width - 1 /\ task[n].ticks \in Nat
        /\ task'[n].ticks \in Nat /\ Width \in Nat
    BY <1>r, <2>1, WidthAssumption, SMT DEF TypeOK
  <2>5. Within(n, cnt)
    BY <2>1 DEF DueBound
  <2>6. due'[n] <= AtLeast0(task'[n].ticks - 0)
    <3>1. CASE task[n].ticks >= cnt
      <4>1. task[n].ticks - cnt \in 0 .. Width - 1
        BY <1>0, <2>7, <3>1, SMT
      <4>2. task'[n].ticks = task[n].ticks - cnt
        BY <2>4, <4>1, NoWrap
      <4>3. due[n] <= task[n].ticks - cnt
        BY <1>0, <2>1, <2>5, <3>1, WithinFacts
      <4> QED
        BY <2>1, <2>7, <4>2, <4>3, SMT DEF AtLeast0
    <3>2. CASE ~(task[n].ticks >= cnt)
      <4>1. task[n].ticks <= cnt
        BY <1>0, <2>7, <3>2, SMT
      <4>2. due[n] = 0
        BY <1>0, <2>1, <2>5, <4>1, WithinFacts
      <4> QED
        BY <2>1, <2>7, <4>2, SMT DEF AtLeast0
    <3> QED
      BY <3>1, <3>2
  <2> QED
    BY <2>1, <2>2, <2>3, <2>6, TurnBound
<1>1. ASSUME NEW c \in Contexts, NEW r \in Requests, InitTimer(c, r) PROVE DueBound'
  <2>1. PICK b \in Blocks : InitTimer(c, r)!(b)
    BY <1>1 DEF InitTimer
  <2>2. /\ pc = "open" /\ pc' = pc /\ task_list' = task_list /\ cnt' = cnt
        /\ held' = [held EXCEPT ![c] = b]
    BY <2>1 DEF Call, MayRun, rtcVars
  <2>3. b \notin Listed /\ b \notin Held
    BY <2>1 DEF PoolExact
  <2>4. /\ due'[b] = r.freq /\ task'[b].ticks = r.freq /\ r.freq \in Nat
        /\ \A a \in Blocks : a # b => task'[a] = task[a] /\ due'[a] = due[a]
    BY <2>1, RequestAssumption, SMT DEF TypeOK
  <2>5. due'[b] <= AtLeast0(task'[b].ticks - 0)
    BY <2>4, SMT DEF AtLeast0
  <2>6. \A x \in Range(task_list) : due'[x] <= AtLeast0(task'[x].ticks - cnt)
    BY <1>0, <2>2, <2>3, <2>4 DEF DueBound, Within, Listed
  <2>7. \A x \in Contexts : held'[x] # NoBlock =>
           due'[held'[x]] <= AtLeast0(task'[held'[x]].ticks - 0)
    <3> TAKE x \in Contexts
    <3>1. CASE x = c
      BY <2>2, <2>5, <3>1 DEF TypeOK
    <3>2. CASE x # c
      <4>1. held'[x] = held[x]
        BY <2>2, <3>2 DEF TypeOK
      <4> QED
        BY <1>0, <2>3, <2>4, <4>1 DEF DueBound, Within
    <3> QED
      BY <3>1, <3>2
  <2> QED
    BY <2>2, <2>6, <2>7 DEF DueBound, Within
<1>2. ASSUME NEW c \in Contexts, NEW r \in Requests, DelTimer(c, r.cb) PROVE DueBound'
  <2>1. /\ pc = "open" /\ pc' = pc /\ task' = task /\ due' = due /\ held' = held
        /\ SetTicks(task_list', task)
    BY <1>2 DEF DelTimer, Call, MayRun
  <2>2. Range(task_list') \subseteq Range(task_list)
    BY <1>0, <1>2, RemovedFacts DEF DelTimer, PoolExact
  <2>3. \A x \in Range(task_list') : due'[x] <= AtLeast0(task'[x].ticks - cnt')
    <3> TAKE x \in Range(task_list')
    <3>1. task_list' # <<>>
      BY EmptyList
    <3>2. cnt' = 0
      BY <2>1, <3>1 DEF SetTicks
    <3>3. Within(x, cnt) /\ x \in Blocks
      BY <1>0, <2>1, <2>2 DEF DueBound
    <3> QED
      BY <1>0, <2>1, <3>2, <3>3, WithinFacts DEF Within
  <2> QED
    BY <2>1, <2>3 DEF DueBound, Within
<1>3. ASSUME NEW c \in Contexts, EnterAdd(c) PROVE DueBound'
  <2>1. /\ pc = "open" /\ task' = task /\ due' = due /\ held' = held
        /\ task_list' = task_list /\ cnt' = cnt /\ pos' = 1
        /\ pc' = IF task_list = <<>> THEN "link" ELSE "compare"
    BY <1>3 DEF EnterAdd, MayRun, listVars, rtcVars
  <2>2. \A j \in 1 .. Len(task_list) : Within(task_list[j], IF j < 1 THEN 0 ELSE cnt)
    <3> TAKE j \in 1 .. Len(task_list)
    <3>1. ~(j < 1) /\ task_list[j] \in Range(task_list)
      BY <1>0, InRange, Members, SMT
    <3> QED
      BY <2>1, <3>1 DEF DueBound
  <2>3. Range(<<>>) = {}
    BY EmptyList
  <2> QED
    BY <2>1, <2>2, <2>3 DEF DueBound, Within

<1>6. CASE Link
  <2> DEFINE n == held[owner]
  <2>1. /\ n # NoBlock /\ owner \in Contexts /\ n \in Blocks /\ pc = "link"
        /\ task' = task /\ due' = due /\ pc' = "open"
        /\ held' = [held EXCEPT ![owner] = NoBlock]
    BY <1>0, <1>6 DEF Link, Stages, TypeOK
  <2>2. PICK k \in 1 .. Len(task_list) + 1 :
           /\ task_list' = Inserted(task_list, k, n)
           /\ SetTicks(task_list', task)
    BY <1>6 DEF Link
  <2>3. task_list' # <<>> /\ Range(task_list') = Range(task_list) \cup {n}
    BY <1>0, <2>1, <2>2, InsertedFacts
  <2>4. cnt' = 0
    BY <2>2, <2>3 DEF SetTicks
  <2>5. \A x \in Range(task_list') : due'[x] <= AtLeast0(task'[x].ticks - cnt')
    BY <2>1, <2>3, <2>4 DEF DueBound, Within
  <2>6. \A c \in Contexts : held'[c] # NoBlock => held'[c] = held[c]
    BY <2>1 DEF TypeOK
  <2> QED
    BY <2>1, <2>5, <2>6 DEF DueBound, Within
<1>7. CASE Interrupt
  <2>1. /\ pc = "open" /\ pc' = "run" /\ task' = task /\ ticks' = ticks /\ held' = held
        /\ cur' = task_list /\ task_list' = <<>>
        /\ due' = [b \in Blocks |-> AtLeast0(due[b] - AtLeast0(ticks - cnt))]
    BY <1>7 DEF Interrupt, clientVars
  <2>2. \A b \in Range(task_list) : due'[b] <= AtLeast0(task'[b].ticks - ticks)
    <3> TAKE b \in Range(task_list)
    <3>1. b \in Blocks /\ due[b] <= AtLeast0(task[b].ticks - cnt)
      BY <1>0, <2>1 DEF DueBound, Within
    <3>2. due'[b] = AtLeast0(due[b] - AtLeast0(ticks - cnt)) /\ task'[b] = task[b]
      BY <2>1, <3>1
    <3>3. due[b] \in Nat /\ task[b].ticks \in Nat
      BY <1>r, <3>1
    <3>4. due'[b] <= AtLeast0(task[b].ticks - ticks)
      BY <1>0, <3>1, <3>2, <3>3, PayOff
    <3> QED
      BY <3>2, <3>4
  <2>3. \A c \in Contexts : held'[c] # NoBlock =>
           due'[held'[c]] <= AtLeast0(task'[held'[c]].ticks - 0)
    <3> SUFFICES ASSUME NEW c \in Contexts, held[c] # NoBlock
                 PROVE  due'[held[c]] <= AtLeast0(task[held[c]].ticks - 0)
      BY <2>1
    <3>1. held[c] \in Blocks /\ due[held[c]] <= AtLeast0(task[held[c]].ticks - 0)
      BY <1>0 DEF DueBound, Within
    <3>2. due'[held[c]] = AtLeast0(due[held[c]] - AtLeast0(ticks - cnt))
      BY <2>1, <3>1
    <3>3. due[held[c]] \in Nat /\ task[held[c]].ticks \in Nat
      BY <1>r, <3>1
    <3> QED
      BY <1>0, <3>1, <3>2, <3>3, PayOff
  <2>4. Range(task_list') = {}
    BY <2>1, EmptyList
  <2> QED
    BY <2>1, <2>2, <2>3, <2>4 DEF DueBound, Within
<1>8. ASSUME RunNode \/ CarryNode PROVE DueBound'
  <2> DEFINE n == Head(cur)
  <2>1. /\ pc = "run" /\ pc' = pc /\ cur # <<>> /\ cur' = Tail(cur) /\ held' = held
        /\ ticks' = ticks
    BY <1>8 DEF RunNode, CarryNode, clientVars, rtcVars
  <2>2. /\ n \in Blocks /\ n \notin Range(cur') /\ n \in Range(cur)
        /\ Range(cur') \subseteq Range(cur)
    BY <1>0, <2>1, TailFacts DEF PoolExact
  <2>3. n \notin Held /\ n \notin Range(task_list)
    BY <1>0, <2>2 DEF Listed, PoolExact
  <2>4. \A b \in Blocks : b # n => task'[b] = task[b] /\ due'[b] = due[b]
    BY <1>8, <1>r DEF RunNode, CarryNode
  <2>5. \A b \in Range(cur') : due'[b] <= AtLeast0(task'[b].ticks - ticks)
    BY <1>0, <2>1, <2>2, <2>4 DEF DueBound, Within
  <2>6. \A b \in Range(task_list) : due'[b] <= AtLeast0(task'[b].ticks - 0)
    BY <1>0, <2>1, <2>3, <2>4 DEF DueBound, Within
  <2>7. \A c \in Contexts : held'[c] # NoBlock =>
           due'[held'[c]] <= AtLeast0(task'[held'[c]].ticks - 0)
    BY <1>0, <2>1, <2>3, <2>4 DEF DueBound, Within
  <2>8. CASE task_list' = task_list
    BY <2>1, <2>5, <2>6, <2>7, <2>8 DEF DueBound, Within
  <2>9. ASSUME Relist(n, task'), due'[n] <= AtLeast0(task'[n].ticks - 0)
        PROVE  DueBound'
    <3>1. Range(task_list') = Range(task_list) \cup {n}
      BY <1>0, <2>2, <2>9, InsertedFacts DEF Relist
    <3>2. \A b \in Range(task_list') : due'[b] <= AtLeast0(task'[b].ticks - 0)
      BY <2>6, <2>9, <3>1
    <3> QED
      BY <2>1, <2>5, <2>7, <3>2 DEF DueBound, Within
  <2>10. CASE RunNode
    <3>1. CASE Expires(n)
      BY <2>8, <2>10, <3>1 DEF RunNode
    <3>2. CASE ~Expires(n)
      <4>1. /\ Relist(n, task') /\ due' = [due EXCEPT ![n] = task[n].freq]
            /\ task' = [task EXCEPT ![n] =
                  [cb |-> @.cb, freq |-> @.freq, ticks |-> @.freq,
                   lifetime |-> AtLeast0(@.lifetime - 1)]]
        BY <2>10, <3>2 DEF RunNode
      <4>2. due'[n] = task[n].freq /\ task'[n].ticks = task[n].freq
        BY <1>r, <2>2, <4>1
      <4>3. task[n].freq \in Nat
        BY <1>r, <2>2, WidthAssumption, SMT DEF TimerRecord
      <4>4. due'[n] <= AtLeast0(task'[n].ticks - 0)
        BY <4>2, <4>3, SMT DEF AtLeast0
      <4> QED
        BY <2>9, <4>1, <4>4
    <3> QED
      BY <3>1, <3>2
  <2>11. CASE CarryNode
    <3>1. /\ ~Due(n) /\ Relist(n, task') /\ due' = due
          /\ task' = [task EXCEPT ![n].ticks = task[n].ticks - ticks]
      BY <2>11 DEF CarryNode
    <3>2. task'[n].ticks = task[n].ticks - ticks
      BY <1>r, <2>2, <3>1, SMT DEF TimerRecord
    <3>3. due[n] <= AtLeast0(task[n].ticks - ticks)
      BY <2>1, <2>2 DEF DueBound, Within
    <3>4. due[n] \in Nat /\ task[n].ticks \in Nat
      BY <1>r, <2>2
    <3>5. due'[n] <= AtLeast0(task'[n].ticks - 0)
      BY <1>0, <3>1, <3>2, <3>3, <3>4, SMT DEF AtLeast0
    <3> QED
      BY <2>9, <3>1, <3>5
  <2> QED
    BY <1>8, <2>10, <2>11
<1>9. CASE Rearm
  <2>1. /\ pc = "run" /\ pc' = "open" /\ task_list' = task_list /\ task' = task
        /\ due' = due /\ held' = held /\ SetTicks(task_list, task)
    BY <1>9 DEF Rearm, listVars, clientVars
  <2>2. task_list # <<>> => cnt' = 0
    BY <2>1 DEF SetTicks
  <2>3. task_list = <<>> => Range(task_list) = {}
    BY EmptyList
  <2>4. \A b \in Range(task_list) : due'[b] <= AtLeast0(task'[b].ticks - cnt')
    BY <2>1, <2>2, <2>3 DEF DueBound, Within
  <2> QED
    BY <2>1, <2>4 DEF DueBound, Within
<1>10. CASE RtcCount
  <2>1. /\ task_list' = task_list /\ cur' = cur /\ held' = held /\ pc' = pc /\ pos' = pos
        /\ ticks' = ticks
    BY <1>10 DEF RtcCount, listVars, clientVars
  <2>2. \A b \in Blocks :
           /\ Within(b, 0) => due'[b] <= AtLeast0(task'[b].ticks - 0)
           /\ Within(b, ticks) => due'[b] <= AtLeast0(task'[b].ticks - ticks)
           /\ Within(b, cnt) => due'[b] <= AtLeast0(task'[b].ticks - cnt')
    BY <1>0, <1>10, CountEases
  <2>3. \A c \in Contexts : held'[c] # NoBlock =>
           due'[held'[c]] <= AtLeast0(task'[held'[c]].ticks - 0)
    BY <1>0, <2>1, <2>2 DEF DueBound
  <2>4. pc = "open" =>
           \A b \in Range(task_list) : due'[b] <= AtLeast0(task'[b].ticks - cnt')
    BY <1>0, <2>2 DEF DueBound
  <2>5. pc \in {"compare", "deduct"} =>
           \A j \in 1 .. Len(task_list) : due'[task_list[j]] <=
               AtLeast0(task'[task_list[j]].ticks - IF j < pos THEN 0 ELSE cnt')
    <3> SUFFICES ASSUME pc \in {"compare", "deduct"}, NEW j \in 1 .. Len(task_list)
                 PROVE  due'[task_list[j]] <=
                          AtLeast0(task'[task_list[j]].ticks - IF j < pos THEN 0 ELSE cnt')
      OBVIOUS
    <3>1. task_list[j] \in Blocks /\ Within(task_list[j], IF j < pos THEN 0 ELSE cnt)
      BY <1>0, Members DEF DueBound
    <3>2. CASE j < pos
      BY <2>2, <3>1, <3>2
    <3>3. CASE ~(j < pos)
      BY <2>2, <3>1, <3>3
    <3> QED
      BY <3>2, <3>3
  <2>6. pc \in {"link", "run"} =>
           \A b \in Range(task_list) : due'[b] <= AtLeast0(task'[b].ticks - 0)
    BY <1>0, <2>2 DEF DueBound
  <2>7. pc = "run" => \A b \in Range(cur) : due'[b] <= AtLeast0(task'[b].ticks - ticks)
    BY <1>0, <2>2 DEF DueBound
  <2> QED
    BY <2>1, <2>3, <2>4, <2>5, <2>6, <2>7 DEF DueBound, Within
<1>11. CASE UNCHANGED vars
  BY <1>11 DEF vars, listVars, rtcVars, clientVars, DueBound, Within
<1> QED
  BY <1>1, <1>2, <1>3, <1>4, <1>5, <1>6, <1>7, <1>8, <1>9, <1>10, <1>11 DEF Next, Cpu

-----------------------------------------------------------------------------
LEMMA Inductive == IInv /\ [Next]_vars => IInv'
<1> SUFFICES ASSUME IInv, [Next]_vars PROVE IInv'
  OBVIOUS
<1>1. TypeOK' /\ Stages' /\ PoolExact'
  BY TypePreserved, StagesPreserved, PoolPreserved DEF IInv
<1>2. MatchNotMissed' /\ DueBound'
  BY <1>1, MatchPreserved, BoundPreserved DEF IInv
<1> QED
  BY <1>1, <1>2 DEF IInv

THEOREM Invariance == Spec => []IInv
BY InitInvariant, Inductive, PTL DEF Spec

\* The pool, the list, the registers and the program positions keep their types.
THEOREM TypeCorrect == Spec => []TypeOK
BY Invariance, PTL DEF IInv

\* Whatever the interleaving of add_timer, del_timer and TIMER_RUN, every
\* allocated block is in the list exactly once or in one add_timer's hands.
THEOREM PoolIsExact == Spec => []PoolExact
BY Invariance, PTL DEF IInv

\* The compare is always armed for the head, and its match never missed.
THEOREM NoMatchMissed == Spec => []MatchNotMissed
BY Invariance, PTL DEF IInv

LEMMA RunsOnlyDue == IInv => [RunNode => due[Head(cur)] = 0]_vars
<1> SUFFICES ASSUME IInv, RunNode PROVE due[Head(cur)] = 0
  OBVIOUS
<1>1. /\ cur \in Seq(Blocks) /\ cur # <<>> /\ pc = "run"
      /\ task[Head(cur)].ticks <= ticks
  BY DEF IInv, TypeOK, RunNode, Due
<1>2. Head(cur) \in Blocks /\ Head(cur) \in Range(cur)
  BY <1>1, TailFacts
<1>3. Within(Head(cur), ticks)
  BY <1>1, <1>2 DEF IInv, DueBound
<1>4. ticks \in Nat
  BY WidthAssumption, SMT DEF IInv, TypeOK
<1> QED
  BY <1>1, <1>2, <1>3, <1>4, WithinFacts DEF IInv

\* The node whose callback runs has ticks at most the interrupt's, so its
\* bound leaves nothing of its period.
THEOREM NoTimerEarly == Spec => NeverEarly
BY Invariance, RunsOnlyDue, PTL DEF Spec, NeverEarly

-----------------------------------------------------------------------------
\* The pointers.  Linked over any pointers, as an operator of the functions that
\* hold them: h and nx lead through l, pv leads back to its head.
Path(nx, h, l) ==
    /\ h = IF l = <<>> THEN NoBlock ELSE l[1]
    /\ \A i \in 1 .. Len(l) : nx[l[i]] = IF i < Len(l) THEN l[i + 1] ELSE NoBlock

Back(pv, l) == \A i \in 2 .. Len(l) : pv[l[i]] = l[i - 1]

Pointers == [Blocks -> Blocks \cup {NoBlock}]

LEMMA BlockFacts == /\ NoBlock \notin Blocks
                    /\ \A l \in Seq(Blocks) : l # <<>> => 1 \in 1 .. Len(l) /\ l[1] \in Blocks
<1>1. NoBlock \notin Blocks
  BY PoolAssumption, SMT DEF NoBlock, Blocks
<1>2. \A l \in Seq(Blocks) : l # <<>> => 1 \in 1 .. Len(l)
  BY EmptySeq, SMT
<1> QED
  BY <1>1, <1>2, Members

LEMMA LinkedPaths ==
    Linked <=> /\ Path(next, head, task_list) /\ Path(next, walk, cur)
               /\ Back(prev, task_list)
               /\ \A c \in Contexts : held[c] # NoBlock =>
                     next[held[c]] = NoBlock /\ prev[held[c]] = NoBlock
BY DEF Linked, Chained, Path, Back

\* A list only depends on the pointers of its own nodes.
LEMMA Frame ==
    ASSUME NEW l \in Seq(Blocks), NEW nx, NEW ny, NEW h,
           \A b \in Range(l) : ny[b] = nx[b]
    PROVE  /\ Path(nx, h, l) => Path(ny, h, l)
           /\ Back(nx, l) => Back(ny, l)
<1>1. \A i \in 1 .. Len(l) : ny[l[i]] = nx[l[i]]
  BY InRange
<1>2. \A i \in 2 .. Len(l) : i \in 1 .. Len(l)
  BY Members, SMT
<1> QED
  BY <1>1, <1>2 DEF Path, Back

\* What is where in a list with a node put in at k, or taken out.
LEMMA InsertedAt ==
    ASSUME NEW S, NEW s \in Seq(S), NEW n \in S, NEW k \in 1 .. Len(s) + 1
    PROVE  LET t == Inserted(s, k, n)
           IN  /\ Len(s) \in Nat /\ Len(t) = Len(s) + 1
               /\ t # <<>> /\ t[k] = n
               /\ \A j \in 1 .. Len(t) : j < k => t[j] = s[j]
               /\ \A j \in 1 .. Len(t) : j > k => t[j] = s[j - 1]
<1> DEFINE t == Inserted(s, k, n)
<1>1. Len(s) + 1 \in Nat /\ Len(s) \in Nat /\ \A j \in 1 .. Len(s) : s[j] \in S
  BY Members
<1>2. t \in [1 .. Len(s) + 1 -> S]
  BY <1>1, SMT DEF Inserted
<1>3. Len(t) = Len(s) + 1
  BY <1>1, <1>2, FunctionIsSeq
<1>4. \A j \in 1 .. Len(t) :
         t[j] = IF j < k THEN s[j] ELSE IF j = k THEN n ELSE s[j - 1]
  BY <1>3 DEF Inserted
<1>5. t # <<>>
  BY InsertedFacts
<1> HIDE DEF t
<1>6. t[k] = n
  BY <1>1, <1>3, <1>4
<1>7. \A j \in 1 .. Len(t) : (j < k => t[j] = s[j]) /\ (j > k => t[j] = s[j - 1])
  BY <1>1, <1>4, <1>3
<1> QED
  BY <1>1, <1>3, <1>5, <1>6, <1>7 DEF t

LEMMA RemovedAt ==
    ASSUME NEW S, NEW s \in Seq(S), NEW k \in 1 .. Len(s)
    PROVE  LET t == Removed(s, k)
           IN  /\ Len(s) \in Nat \ {0} /\ t \in Seq(S) /\ Len(t) = Len(s) - 1
               /\ t = <<>> <=> Len(s) = 1
               /\ \A j \in 1 .. Len(t) : j < k => t[j] = s[j]
               /\ \A j \in 1 .. Len(t) : j >= k => t[j] = s[j + 1]
<1> DEFINE t == Removed(s, k)
<1>1. Len(s) \in Nat \ {0} /\ Len(s) - 1 \in Nat /\ \A j \in 1 .. Len(s) : s[j] \in S
  BY Members, SMT
<1>2. t \in [1 .. Len(s) - 1 -> S]
  BY <1>1, SMT DEF Removed
<1>3. t \in Seq(S) /\ Len(t) = Len(s) - 1
  BY <1>1, <1>2, FunctionIsSeq
<1>4. \A j \in 1 .. Len(t) : t[j] = IF j < k THEN s[j] ELSE s[j + 1]
  BY <1>3 DEF Removed
<1> HIDE DEF t
<1>5. t = <<>> <=> Len(s) = 1
  <2>1. t = <<>> <=> Len(t) = 0
    BY <1>3, EmptySeq
  <2> QED
    BY <1>1, <1>3, <2>1
<1>6. \A j \in 1 .. Len(t) : (j < k => t[j] = s[j]) /\ (j >= k => t[j] = s[j + 1])
  BY <1>1, <1>3, <1>4
<1> QED
  BY <1>1, <1>3, <1>5, <1>6 DEF t

\* The loop's place is one: what AddNode finds by the pointers is where Timer
\* puts the node.
LEMMA PlaceUnique ==
    ASSUME NEW l \in Seq(Blocks), NEW tk \in [Blocks -> TimerRecord], NEW n \in Blocks,
           NEW k, IsPlace(l, tk, n, k), NEW m, IsPlace(l, tk, n, m)
    PROVE  k = m
<1>1. \A j \in 1 .. Len(l) : tk[l[j]].ticks \in Nat
  <2>1. \A b \in Blocks : tk[b].ticks \in Nat
    BY WidthAssumption, SMT DEF TimerRecord
  <2> QED
    BY <2>1, Members
<1>2. tk[n].ticks \in Nat /\ Len(l) \in Nat
  BY WidthAssumption, Members, SMT DEF TimerRecord
<1> DEFINE less(j) == tk[l[j]].ticks < tk[n].ticks
<1>3. \A j \in 1 .. Len(l) : tk[l[j]].ticks >= tk[n].ticks => ~less(j)
  BY <1>1, <1>2
<1>4. /\ k \in 1 .. Len(l) + 1 /\ \A j \in 1 .. k - 1 : less(j)
      /\ m \in 1 .. Len(l) + 1 /\ \A j \in 1 .. m - 1 : less(j)
      /\ k <= Len(l) => ~less(k)
      /\ m <= Len(l) => ~less(m)
  <2>1. k \in 1 .. Len(l) + 1 /\ m \in 1 .. Len(l) + 1
    BY DEF IsPlace
  <2>2. (k <= Len(l) => k \in 1 .. Len(l)) /\ (m <= Len(l) => m \in 1 .. Len(l))
    BY <1>2, <2>1
  <2> QED
    BY <1>3, <2>1, <2>2 DEF IsPlace
<1> HIDE DEF less
<1> QED
  BY <1>2, <1>4

\* __add_timer_node links its node at the place where it stops, and touches the
\* pointers of no block outside the list.
LEMMA AddNodeFacts ==
    ASSUME task_list \in Seq(Blocks), IsInjective(task_list),
           NEW n \in Blocks, n \notin Range(task_list),
           NEW tk \in [Blocks -> TimerRecord], NEW nx \in Pointers, NEW pv \in Pointers,
           Path(nx, head, task_list), Back(pv, task_list), nx[n] = NoBlock,
           NEW k, IsPlace(task_list, tk, n, k), task_list' = Inserted(task_list, k, n),
           AddNode(n, tk, nx, pv)
    PROVE  /\ Path(next', head', task_list') /\ Back(prev', task_list')
           /\ head' \in Blocks /\ next' \in Pointers /\ prev' \in Pointers
           /\ \A b \in Blocks : b \notin Range(task_list) /\ b # n =>
                 next'[b] = nx[b] /\ prev'[b] = pv[b]
<1> DEFINE l == task_list
           t == task_list'
<1>1. /\ NoBlock \notin Blocks /\ k \in 1 .. Len(l) + 1
      /\ \A i \in 1 .. Len(l) : l[i] \in Blocks /\ l[i] \in Range(l) /\ l[i] # n
      /\ \A i, j \in 1 .. Len(l) : l[i] = l[j] => i = j
  BY BlockFacts, Members, InRange DEF IsPlace
<1>2. /\ Len(l) \in Nat /\ Len(t) = Len(l) + 1 /\ t # <<>> /\ t[k] = n
      /\ \A j \in 1 .. Len(t) : j < k => t[j] = l[j]
      /\ \A j \in 1 .. Len(t) : j > k => t[j] = l[j - 1]
  BY <1>1, InsertedAt
<1>3. /\ head = IF l = <<>> THEN NoBlock ELSE l[1]
      /\ \A i \in 1 .. Len(l) : nx[l[i]] = IF i < Len(l) THEN l[i + 1] ELSE NoBlock
      /\ \A i \in 2 .. Len(l) : pv[l[i]] = l[i - 1]
  BY DEF Path, Back
<1>4. l # <<>> => 1 \in 1 .. Len(l)
  BY BlockFacts
<1>5. l = <<>> => Len(l) = 0
  BY EmptySeq
<1> DEFINE Done == /\ head' = t[1] /\ head' \in Blocks
                   /\ \A i \in 1 .. Len(t) :
                         next'[t[i]] = IF i < Len(t) THEN t[i + 1] ELSE NoBlock
                   /\ \A i \in 2 .. Len(t) : prev'[t[i]] = t[i - 1]
                   /\ next' \in Pointers /\ prev' \in Pointers
                   /\ \A b \in Blocks : b \notin Range(l) /\ b # n =>
                         next'[b] = nx[b] /\ prev'[b] = pv[b]
<1>6. SUFFICES Done
  BY <1>2 DEF Path, Back
<1> USE DEF Pointers
<1>7. CASE head = NoBlock /\ head' = n /\ next' = nx /\ prev' = pv
  <2>1. l = <<>> /\ Len(l) = 0
    BY <1>1, <1>3, <1>4, <1>5, <1>7
  <2>2. k = 1 /\ Len(t) = 1 /\ t[1] = n
    BY <1>1, <1>2, <2>1
  <2> QED
    BY <1>7, <2>2
<1>8. CASE /\ head # NoBlock /\ tk[head].ticks >= tk[n].ticks
           /\ next' = [nx EXCEPT ![n] = head]
           /\ prev' = [pv EXCEPT ![head] = n]
           /\ head' = n
  <2>1. l # <<>> /\ head = l[1] /\ 1 \in 1 .. Len(l) /\ head \in Blocks
    BY <1>1, <1>3, <1>4, <1>8
  <2>2. IsPlace(l, tk, n, 1)
    BY <1>2, <1>8, <2>1 DEF IsPlace
  <2>3. k = 1
    BY <2>2, PlaceUnique
  <2>4. t[1] = n /\ \A j \in 2 .. Len(t) : t[j] = l[j - 1] /\ j - 1 \in 1 .. Len(l)
    BY <1>2, <2>3
  <2> HIDE DEF t
  <2>5. next'[n] = l[1] /\ \A b \in Blocks : b # n => next'[b] = nx[b]
    BY <1>8, <2>1
  <2>6. prev'[l[1]] = n /\ \A b \in Blocks : b # l[1] => prev'[b] = pv[b]
    BY <1>8, <2>1
  <2>7. \A i \in 1 .. Len(t) : next'[t[i]] = IF i < Len(t) THEN t[i + 1] ELSE NoBlock
    <3> TAKE i \in 1 .. Len(t)
    <3>1. CASE i = 1
      BY <1>2, <2>1, <2>4, <2>5, <3>1
    <3>2. CASE i # 1
      <4>1. i - 1 \in 1 .. Len(l) /\ t[i] = l[i - 1] /\ next'[t[i]] = nx[l[i - 1]]
        BY <1>1, <2>4, <2>5, <3>2
      <4>2. next'[t[i]] = IF i - 1 < Len(l) THEN l[i] ELSE NoBlock
        BY <1>3, <4>1
      <4>3. i < Len(t) => t[i + 1] = l[i]
        BY <1>2, <2>4
      <4> QED
        BY <1>2, <4>1, <4>2, <4>3
    <3> QED
      BY <3>1, <3>2
  <2>8. \A i \in 2 .. Len(t) : prev'[t[i]] = t[i - 1]
    <3> TAKE i \in 2 .. Len(t)
    <3>1. CASE i = 2
      BY <2>4, <2>6, <3>1
    <3>2. CASE i # 2
      <4>1. /\ i - 1 \in 2 .. Len(l) /\ i - 1 \in 1 .. Len(l) /\ t[i] = l[i - 1]
            /\ t[i - 1] = l[i - 2] /\ l[i - 1] # l[1]
        BY <1>1, <1>2, <2>1, <2>4, <3>2
      <4>2. prev'[t[i]] = pv[l[i - 1]]
        BY <1>1, <2>6, <4>1
      <4>3. pv[l[i - 1]] = l[(i - 1) - 1]
        BY <1>3, <4>1
      <4>4. (i - 1) - 1 = i - 2
        OBVIOUS
      <4> QED
        BY <4>1, <4>2, <4>3, <4>4
    <3> QED
      BY <3>1, <3>2
  <2>9. next' \in Pointers /\ prev' \in Pointers
    BY <1>8, <2>1
  <2> QED
    BY <1>1, <1>8, <2>1, <2>4, <2>5, <2>6, <2>7, <2>8, <2>9
<1>9. ASSUME NEW m \in 1 .. Len(task_list),
             \A j \in 1 .. m : tk[task_list[j]].ticks < tk[n].ticks,
             nx[l[m]] # NoBlock => tk[nx[l[m]]].ticks >= tk[n].ticks,
             next' = [nx EXCEPT ![n] = nx[l[m]], ![l[m]] = n],
             prev' = [b \in Blocks |-> IF b = n THEN l[m]
                                       ELSE IF b = nx[l[m]] THEN n ELSE pv[b]],
             head' = head
      PROVE  Done
  <2>1. IsPlace(l, tk, n, m + 1)
    <3>1. m + 1 <= Len(l) => nx[l[m]] = l[m + 1] /\ l[m + 1] \in Blocks
      BY <1>1, <1>2, <1>3
    <3>2. m + 1 <= Len(l) => tk[l[m + 1]].ticks >= tk[n].ticks
      BY <1>1, <1>9, <3>1
    <3> QED
      BY <1>2, <1>9, <3>2 DEF IsPlace
  <2>2. k = m + 1
    BY <2>1, PlaceUnique
  <2>3. /\ t[m + 1] = n
        /\ \A j \in 1 .. m : t[j] = l[j] /\ j \in 1 .. Len(l)
        /\ \A j \in m + 2 .. Len(t) : t[j] = l[j - 1] /\ j - 1 \in 1 .. Len(l)
    BY <1>2, <2>2
  <2> HIDE DEF t
  <2>4. /\ next'[n] = nx[l[m]] /\ next'[l[m]] = n
        /\ \A b \in Blocks : b # n /\ b # l[m] => next'[b] = nx[b]
    BY <1>1, <1>9
  <2>5. /\ prev'[n] = l[m]
        /\ \A b \in Blocks : b # n /\ b = nx[l[m]] => prev'[b] = n
        /\ \A b \in Blocks : b # n /\ b # nx[l[m]] => prev'[b] = pv[b]
    BY <1>9
  <2>6. l # <<>> /\ 1 \in 1 .. Len(l) /\ head' = l[1] /\ t[1] = l[1]
    BY <1>2, <1>3, <1>4, <1>5, <1>9, <2>3
  <2>7. \A i \in 1 .. Len(t) : next'[t[i]] = IF i < Len(t) THEN t[i + 1] ELSE NoBlock
    <3> TAKE i \in 1 .. Len(t)
    <3>1. CASE i < m
      <4>1. i \in 1 .. Len(l) /\ t[i] = l[i] /\ t[i + 1] = l[i + 1] /\ l[i] # l[m] /\ i < Len(l)
        BY <1>1, <1>2, <2>3, <3>1
      <4> QED
        BY <1>1, <1>2, <1>3, <2>4, <4>1
    <3>2. CASE i = m
      BY <1>2, <2>3, <2>4, <3>2
    <3>3. CASE i = m + 1
      <4>1. next'[t[i]] = IF m < Len(l) THEN l[m + 1] ELSE NoBlock
        BY <1>3, <2>3, <2>4, <3>3
      <4>2. m < Len(l) => t[i + 1] = l[m + 1]
        BY <1>2, <2>3, <3>3
      <4> QED
        BY <1>2, <3>3, <4>1, <4>2
    <3>4. CASE i > m + 1
      <4>1. i - 1 \in 1 .. Len(l) /\ t[i] = l[i - 1] /\ l[i - 1] # l[m]
        BY <1>1, <1>2, <2>3, <3>4
      <4>2. next'[t[i]] = IF i - 1 < Len(l) THEN l[i] ELSE NoBlock
        BY <1>1, <1>3, <2>4, <4>1
      <4>3. i < Len(t) => t[i + 1] = l[i]
        BY <1>2, <2>3, <3>4
      <4> QED
        BY <1>2, <4>2, <4>3
    <3> QED
      BY <1>2, <3>1, <3>2, <3>3, <3>4
  <2>8. \A i \in 2 .. Len(t) : prev'[t[i]] = t[i - 1]
    <3> TAKE i \in 2 .. Len(t)
    <3>0. m < Len(l) => nx[l[m]] = l[m + 1] /\ m + 1 \in 1 .. Len(l)
      BY <1>2, <1>3
    <3>n. m = Len(l) => nx[l[m]] = NoBlock
      BY <1>3
    <3>1. CASE i <= m
      <4>1. /\ i \in 2 .. Len(l) /\ i \in 1 .. Len(l) /\ t[i] = l[i] /\ t[i - 1] = l[i - 1]
        BY <1>2, <2>3, <3>1
      <4>2. l[i] # nx[l[m]]
        BY <1>1, <1>2, <3>0, <3>n, <3>1, <4>1
      <4> QED
        BY <1>1, <1>3, <2>5, <4>1, <4>2
    <3>2. CASE i = m + 1
      BY <1>2, <2>3, <2>5, <3>2
    <3>3. CASE i = m + 2
      <4>1. m < Len(l) /\ t[i] = l[m + 1] /\ t[i - 1] = n
        BY <1>2, <2>3, <3>3
      <4> QED
        BY <1>1, <2>5, <3>0, <4>1
    <3>4. CASE i > m + 2
      <4>1. /\ i - 1 \in 2 .. Len(l) /\ i - 1 \in 1 .. Len(l) /\ t[i] = l[i - 1]
            /\ t[i - 1] = l[i - 2]
        BY <1>2, <2>3, <3>4
      <4>2. l[i - 1] # nx[l[m]]
        BY <1>1, <1>2, <3>0, <3>n, <3>4, <4>1
      <4>3. prev'[t[i]] = pv[l[i - 1]]
        BY <1>1, <2>5, <4>1, <4>2
      <4>4. pv[l[i - 1]] = l[(i - 1) - 1]
        BY <1>3, <4>1
      <4>5. (i - 1) - 1 = i - 2
        OBVIOUS
      <4> QED
        BY <4>1, <4>3, <4>4, <4>5
    <3> QED
      BY <1>2, <3>1, <3>2, <3>3, <3>4
  <2>9. next' \in Pointers /\ prev' \in Pointers
    <3>1. l[m] \in Blocks /\ nx[l[m]] \in Blocks \cup {NoBlock}
      BY <1>1
    <3> QED
      BY <1>9, <3>1
  <2>10. nx[l[m]] \in Range(l) \cup {NoBlock}
    <3>1. CASE m < Len(l)
      <4>1. m + 1 \in 1 .. Len(l) /\ nx[l[m]] = l[m + 1]
        BY <1>2, <1>3, <3>1
      <4> QED
        BY <1>1, <4>1
    <3>2. CASE m = Len(l)
      BY <1>3, <3>2
    <3> QED
      BY <1>2, <3>1, <3>2
  <2>11. \A b \in Blocks : b \notin Range(l) /\ b # n =>
            next'[b] = nx[b] /\ prev'[b] = pv[b]
    <3> TAKE b \in Blocks
    <3> HAVE b \notin Range(l) /\ b # n
    <3>1. b # l[m] /\ b # nx[l[m]]
      BY <1>1, <2>10
    <3> QED
      BY <2>4, <2>5, <3>1
  <2> QED
    BY <1>1, <2>6, <2>7, <2>8, <2>9, <2>11
<1>10. \/ head = NoBlock /\ head' = n /\ next' = nx /\ prev' = pv
       \/ /\ head # NoBlock /\ tk[head].ticks >= tk[n].ticks
          /\ next' = [nx EXCEPT ![n] = head]
          /\ prev' = [pv EXCEPT ![head] = n]
          /\ head' = n
       \/ \E m \in 1 .. Len(task_list) :
             /\ \A j \in 1 .. m : tk[task_list[j]].ticks < tk[n].ticks
             /\ nx[l[m]] # NoBlock => tk[nx[l[m]]].ticks >= tk[n].ticks
             /\ next' = [nx EXCEPT ![n] = nx[l[m]], ![l[m]] = n]
             /\ prev' = [b \in Blocks |-> IF b = n THEN l[m]
                                          ELSE IF b = nx[l[m]] THEN n ELSE pv[b]]
             /\ head' = head
  BY DEF AddNode
<1> HIDE DEF l, t, Done
<1> QED
  BY <1>7, <1>8, <1>9, <1>10

\* __del_timer_node takes its node out, and touches the pointers of no block
\* outside the list.
LEMMA UnlinkFacts ==
    ASSUME task_list \in Seq(Blocks), IsInjective(task_list),
           next \in Pointers, prev \in Pointers,
           Path(next, head, task_list), Back(prev, task_list),
           NEW k \in 1 .. Len(task_list), task_list' = Removed(task_list, k),
           Unlink(task_list[k])
    PROVE  /\ Path(next', head', task_list') /\ Back(prev', task_list')
           /\ head' \in Blocks \cup {NoBlock} /\ next' \in Pointers /\ prev' \in Pointers
           /\ \A b \in Blocks : b \notin Range(task_list) =>
                 next'[b] = next[b] /\ prev'[b] = prev[b]
<1> DEFINE l == task_list
           t == task_list'
<1>1. /\ NoBlock \notin Blocks
      /\ \A i \in 1 .. Len(l) : l[i] \in Blocks /\ l[i] \in Range(l)
      /\ \A i, j \in 1 .. Len(l) : l[i] = l[j] => i = j
  BY BlockFacts, Members, InRange
<1>2. /\ Len(l) \in Nat \ {0} /\ Len(t) = Len(l) - 1 /\ (t = <<>> <=> Len(l) = 1)
      /\ \A j \in 1 .. Len(t) : j < k => t[j] = l[j]
      /\ \A j \in 1 .. Len(t) : j >= k => t[j] = l[j + 1]
  BY RemovedAt
<1>3. l # <<>> /\ 1 \in 1 .. Len(l)
  BY <1>2, EmptySeq
<1>4. /\ head = l[1]
      /\ \A i \in 1 .. Len(l) : next[l[i]] = IF i < Len(l) THEN l[i + 1] ELSE NoBlock
      /\ \A i \in 2 .. Len(l) : prev[l[i]] = l[i - 1]
  BY <1>3 DEF Path, Back
<1>5. \A i \in 1 .. Len(l) : next[l[i]] \in Blocks \cup {NoBlock}
  BY <1>1 DEF Pointers
<1> DEFINE Done == /\ head' = IF t = <<>> THEN NoBlock ELSE t[1]
                   /\ head' \in Blocks \cup {NoBlock}
                   /\ \A i \in 1 .. Len(t) :
                         next'[t[i]] = IF i < Len(t) THEN t[i + 1] ELSE NoBlock
                   /\ \A i \in 2 .. Len(t) : prev'[t[i]] = t[i - 1]
                   /\ next' \in Pointers /\ prev' \in Pointers
                   /\ \A b \in Blocks : b \notin Range(l) =>
                         next'[b] = next[b] /\ prev'[b] = prev[b]
<1>6. SUFFICES Done
  BY DEF Path, Back
<1>7. CASE k = 1
  <2>1. head' = next[l[1]] /\ next' = next /\ prev' = prev
    BY <1>4, <1>7 DEF Unlink
  <2>2. \A j \in 1 .. Len(t) : t[j] = l[j + 1] /\ j + 1 \in 2 .. Len(l) /\ j + 1 \in 1 .. Len(l)
    BY <1>2, <1>7
  <2> HIDE DEF t
  <2>3. head' = IF t = <<>> THEN NoBlock ELSE t[1]
    <3>1. CASE Len(l) = 1
      BY <1>2, <1>3, <1>4, <2>1, <3>1
    <3>2. CASE 1 < Len(l)
      <4>1. 1 \in 1 .. Len(t) /\ t # <<>>
        BY <1>2, <3>2
      <4> QED
        BY <1>3, <1>4, <2>1, <2>2, <3>2, <4>1
    <3> QED
      BY <1>2, <3>1, <3>2
  <2>4. \A i \in 1 .. Len(t) : next'[t[i]] = IF i < Len(t) THEN t[i + 1] ELSE NoBlock
    <3> TAKE i \in 1 .. Len(t)
    <3>1. next'[t[i]] = IF i + 1 < Len(l) THEN l[(i + 1) + 1] ELSE NoBlock
      BY <1>4, <2>1, <2>2
    <3>2. i < Len(t) => t[i + 1] = l[(i + 1) + 1]
      BY <1>2, <2>2
    <3> QED
      BY <1>2, <3>1, <3>2
  <2>5. \A i \in 2 .. Len(t) : prev'[t[i]] = t[i - 1]
    <3> TAKE i \in 2 .. Len(t)
    <3>1. t[i] = l[i + 1] /\ i + 1 \in 2 .. Len(l) /\ t[i - 1] = l[(i - 1) + 1]
      BY <1>2, <2>2
    <3>2. prev[l[i + 1]] = l[(i + 1) - 1]
      BY <1>4, <3>1
    <3>3. (i + 1) - 1 = (i - 1) + 1
      OBVIOUS
    <3> QED
      BY <2>1, <3>1, <3>2, <3>3
  <2> QED
    BY <1>3, <1>5, <2>1, <2>3, <2>4, <2>5
<1>8. CASE k # 1
  <2>1. /\ k \in 2 .. Len(l) /\ k - 1 \in 1 .. Len(l) /\ prev[l[k]] = l[k - 1]
        /\ l[k] # head /\ prev[l[k]] # NoBlock
    BY <1>1, <1>3, <1>4, <1>8
  <2>2. /\ head' = head
        /\ next' = [next EXCEPT ![l[k - 1]] = next[l[k]]]
        /\ prev' = IF next[l[k]] # NoBlock
                   THEN [prev EXCEPT ![next[l[k]]] = l[k - 1]] ELSE prev
    BY <2>1 DEF Unlink
  <2>3. /\ \A j \in 1 .. k - 1 : j \in 1 .. Len(t) /\ j \in 1 .. Len(l) /\ t[j] = l[j]
        /\ \A j \in k .. Len(t) : t[j] = l[j + 1] /\ j + 1 \in 1 .. Len(l)
    <3>1. \A j \in 1 .. k - 1 : j \in 1 .. Len(t) /\ j \in 1 .. Len(l)
      BY <1>2, <2>1
    <3>2. \A j \in 1 .. k - 1 : t[j] = l[j]
      BY <1>2, <3>1
    <3>3. \A j \in k .. Len(t) : j \in 1 .. Len(t) /\ ~(j < k) /\ j + 1 \in 1 .. Len(l)
      BY <1>2, <2>1
    <3>4. \A j \in k .. Len(t) : t[j] = l[j + 1]
      BY <1>2, <3>3
    <3> QED BY <3>1, <3>2, <3>3, <3>4
  <2> HIDE DEF t
  <2>4. next[l[k]] = IF k < Len(l) THEN l[k + 1] ELSE NoBlock
    BY <1>4
  <2>5. next'[l[k - 1]] = next[l[k]] /\ \A b \in Blocks : b # l[k - 1] => next'[b] = next[b]
    BY <1>1, <2>1, <2>2 DEF Pointers
  <2>6. /\ k < Len(l) => prev'[l[k + 1]] = l[k - 1]
        /\ \A b \in Blocks : (k < Len(l) => b # l[k + 1]) => prev'[b] = prev[b]
    <3>1. CASE k < Len(l)
      <4>1. k + 1 \in 1 .. Len(l) /\ l[k + 1] \in Blocks /\ next[l[k]] = l[k + 1]
        BY <1>1, <1>2, <2>4, <3>1
      <4>2. prev' = [prev EXCEPT ![l[k + 1]] = l[k - 1]]
        BY <1>1, <2>2, <4>1
      <4> QED
        BY <4>1, <4>2 DEF Pointers
    <3>2. CASE ~(k < Len(l))
      BY <2>2, <2>4, <3>2
    <3> QED
      BY <3>1, <3>2
  <2>7. head' = (IF t = <<>> THEN NoBlock ELSE t[1]) /\ head' \in Blocks
    <3>1. t # <<>> /\ 1 \in 1 .. k - 1
      BY <1>2, <2>1
    <3> QED
      BY <1>1, <1>3, <1>4, <2>2, <2>3, <3>1
  <2>8. \A i \in 1 .. Len(t) : next'[t[i]] = IF i < Len(t) THEN t[i + 1] ELSE NoBlock
    <3> TAKE i \in 1 .. Len(t)
    <3>1. CASE i < k - 1
      <4>1. i \in 1 .. k - 1 /\ i + 1 \in 1 .. k - 1 /\ i < Len(l) /\ i < Len(t)
        BY <1>2, <2>1, <3>1
      <4>2. i \in 1 .. Len(l) /\ t[i] = l[i] /\ t[i + 1] = l[i + 1]
        BY <2>3, <4>1
      <4>3. l[i] # l[k - 1]
        BY <1>1, <2>1, <3>1, <4>2
      <4> QED
        BY <1>1, <1>4, <2>5, <4>1, <4>2, <4>3
    <3>2. CASE i = k - 1
      <4>1. t[i] = l[k - 1]
        BY <2>1, <2>3, <3>2
      <4>2. k < Len(l) => i < Len(t) /\ t[i + 1] = l[k + 1]
        BY <1>2, <2>1, <2>3, <3>2
      <4>3. ~(k < Len(l)) => ~(i < Len(t))
        BY <1>2, <2>1, <3>2
      <4> QED
        BY <2>4, <2>5, <4>1, <4>2, <4>3
    <3>3. CASE i >= k
      <4>0. i \in k .. Len(t) /\ i + 1 # k - 1
        BY <1>2, <2>1, <3>3
      <4>1. i + 1 \in 1 .. Len(l) /\ t[i] = l[i + 1]
        BY <2>3, <4>0
      <4>4. l[i + 1] # l[k - 1]
        BY <1>1, <2>1, <4>0, <4>1
      <4>2. next'[t[i]] = IF i + 1 < Len(l) THEN l[(i + 1) + 1] ELSE NoBlock
        BY <1>1, <1>4, <2>5, <4>1, <4>4
      <4>3. i < Len(t) => t[i + 1] = l[(i + 1) + 1]
        BY <1>2, <2>3, <3>3
      <4> QED
        BY <1>2, <4>2, <4>3
    <3> QED
      BY <1>2, <2>1, <3>1, <3>2, <3>3
  <2>9. \A i \in 2 .. Len(t) : prev'[t[i]] = t[i - 1]
    <3> TAKE i \in 2 .. Len(t)
    <3>1. CASE i < k
      <4>1. /\ i \in 2 .. Len(l) /\ i \in 1 .. Len(l) /\ t[i] = l[i] /\ t[i - 1] = l[i - 1]
        BY <1>2, <2>1, <2>3, <3>1
      <4>2. k < Len(l) => k + 1 \in 1 .. Len(l) /\ l[i] # l[k + 1]
        BY <1>1, <1>2, <3>1, <4>1
      <4>3. prev'[l[i]] = prev[l[i]]
        BY <1>1, <2>6, <4>1, <4>2
      <4> QED
        BY <1>4, <4>1, <4>3
    <3>2. CASE i = k
      <4>1. k < Len(l) /\ t[i] = l[k + 1] /\ t[i - 1] = l[k - 1]
        BY <1>2, <2>1, <2>3, <3>2
      <4> QED
        BY <2>6, <4>1
    <3>3. CASE i > k
      <4>0. i \in k .. Len(t) /\ i - 1 \in k .. Len(t)
        BY <1>2, <2>1, <3>3
      <4>1. /\ i + 1 \in 2 .. Len(l) /\ i + 1 \in 1 .. Len(l) /\ t[i] = l[i + 1]
            /\ t[i - 1] = l[(i - 1) + 1]
        <5>1. i + 1 \in 2 .. Len(l)
          BY <1>2, <2>1, <4>0
        <5> QED
          BY <2>3, <4>0, <5>1
      <4>2. k < Len(l) => k + 1 \in 1 .. Len(l) /\ l[i + 1] # l[k + 1]
        BY <1>1, <1>2, <3>3, <4>1
      <4>3. prev'[l[i + 1]] = prev[l[i + 1]]
        BY <1>1, <2>6, <4>1, <4>2
      <4>4. prev[l[i + 1]] = l[(i + 1) - 1]
        BY <1>4, <4>1
      <4>5. (i + 1) - 1 = (i - 1) + 1
        BY <4>0
      <4> QED
        BY <4>1, <4>3, <4>4, <4>5
    <3> QED
      BY <1>2, <2>1, <3>1, <3>2, <3>3
  <2>10. next' \in Pointers /\ prev' \in Pointers
    <3>1. l[k - 1] \in Blocks /\ next[l[k]] \in Blocks \cup {NoBlock}
      BY <1>1, <1>5, <2>1
    <3> QED
      BY <2>2, <3>1 DEF Pointers
  <2>11. \A b \in Blocks : b \notin Range(l) => next'[b] = next[b] /\ prev'[b] = prev[b]
    <3> TAKE b \in Blocks
    <3> HAVE b \notin Range(l)
    <3>1. b # l[k - 1] /\ (k < Len(l) => k + 1 \in 1 .. Len(l) /\ b # l[k + 1])
      BY <1>1, <1>2, <2>1
    <3> QED
      BY <2>5, <2>6, <3>1
  <2> QED
    BY <2>7, <2>8, <2>9, <2>10, <2>11
<1> QED
  BY <1>7, <1>8

-----------------------------------------------------------------------------
\* The pointers' types and, by LinkedPaths, Linked, for the steps of ListSpec.
HeldClear == \A c \in Contexts : held[c] # NoBlock =>
                next[held[c]] = NoBlock /\ prev[held[c]] = NoBlock

LinkedTyped == /\ head \in Blocks \cup {NoBlock} /\ walk \in Blocks \cup {NoBlock}
               /\ next \in Pointers /\ prev \in Pointers
               /\ Path(next, head, task_list) /\ Path(next, walk, cur)
               /\ Back(prev, task_list) /\ HeldClear

ListIInv == IInv /\ LinkedTyped

\* A node in the hands of add_timer is in neither list nor in other hands.
LEMMA HeldApart ==
    ASSUME TypeOK, PoolExact, NEW c \in Contexts, held[c] # NoBlock
    PROVE  /\ held[c] \in Blocks
           /\ held[c] \notin Range(task_list) /\ held[c] \notin Range(cur)
           /\ \A d \in Contexts : d # c /\ held[d] # NoBlock => held[d] # held[c]
<1>1. held[c] \in Held /\ held[c] \in Blocks
  BY DEF Held, TypeOK
<1>2. \A d \in Contexts : d # c /\ held[d] # NoBlock => held[d] # held[c]
  BY SMT DEF Contexts, PoolExact
<1> QED
  BY <1>1, <1>2 DEF PoolExact, Listed

\* The two lists have their nodes from the pool and share none.
LEMMA ListsApart ==
    ASSUME TypeOK, PoolExact
    PROVE  /\ task_list \in Seq(Blocks) /\ IsInjective(task_list)
           /\ cur \in Seq(Blocks) /\ IsInjective(cur)
           /\ Range(task_list) \subseteq Blocks /\ Range(cur) \subseteq Blocks
           /\ \A b \in Range(cur) : b \notin Range(task_list)
<1>1. task_list \in Seq(Blocks) /\ cur \in Seq(Blocks)
  BY DEF TypeOK
<1>2. Range(task_list) \subseteq Blocks /\ Range(cur) \subseteq Blocks
  BY <1>1, Members, RangeWithin
<1> QED
  BY <1>1, <1>2 DEF PoolExact

\* A free block is cleared for add_timer while no list leads through it.
LEMMA InitLinked ==
    ASSUME ListIInv, NEW c \in Contexts, NEW r \in Requests, LinkedInitTimer(c, r)
    PROVE  LinkedTyped'
<1>1. PICK b \in Blocks : InitTimer(c, r)!(b)
  BY DEF LinkedInitTimer, InitTimer
<1>2. /\ refcnt[b] = 0 /\ held' = [held EXCEPT ![c] = b]
      /\ task_list' = task_list /\ cur' = cur
      /\ held \in [Contexts -> Blocks \cup {NoBlock}]
  BY <1>1 DEF ListIInv, IInv, TypeOK
<1>3. held'[c] = b /\ \A d \in Contexts : d # c => held'[d] = held[d]
  BY <1>2
<1>4. b \notin Range(task_list) /\ b \notin Range(cur) /\ b \notin Held
  <2>1. b \notin Listed \cup Held
    BY <1>2 DEF ListIInv, IInv, PoolExact
  <2> QED
    BY <2>1 DEF Listed
<1>5. /\ next' = [next EXCEPT ![b] = NoBlock] /\ prev' = [prev EXCEPT ![b] = NoBlock]
      /\ head' = head /\ walk' = walk
  BY <1>3 DEF LinkedInitTimer
<1>6. /\ next \in Pointers /\ prev \in Pointers /\ next' \in Pointers /\ prev' \in Pointers
      /\ next'[b] = NoBlock /\ prev'[b] = NoBlock
      /\ \A a \in Blocks : a # b => next'[a] = next[a] /\ prev'[a] = prev[a]
  BY <1>5 DEF ListIInv, LinkedTyped, Pointers
<1>7. Path(next', head', task_list') /\ Path(next', walk', cur') /\ Back(prev', task_list')
  <2>1. /\ task_list \in Seq(Blocks) /\ cur \in Seq(Blocks)
        /\ \A a \in Range(task_list) : next'[a] = next[a] /\ prev'[a] = prev[a]
        /\ \A a \in Range(cur) : next'[a] = next[a]
    BY <1>4, <1>6, ListsApart DEF ListIInv, IInv
  <2> QED
    BY <1>2, <1>5, <2>1, Frame DEF ListIInv, LinkedTyped
<1>8. HeldClear'
  <2> SUFFICES ASSUME NEW d \in Contexts, held'[d] # NoBlock
               PROVE  next'[held'[d]] = NoBlock /\ prev'[held'[d]] = NoBlock
    BY DEF HeldClear
  <2>1. CASE d = c
    BY <1>3, <1>6, <2>1
  <2>2. CASE d # c
    <3>1. held'[d] = held[d] /\ held[d] # b /\ held[d] \in Blocks
      BY <1>2, <1>3, <1>4, <2>2 DEF Held
    <3> QED
      BY <1>6, <3>1 DEF ListIInv, LinkedTyped, HeldClear
  <2> QED
    BY <2>1, <2>2
<1> QED
  BY <1>5, <1>6, <1>7, <1>8 DEF LinkedTyped, ListIInv

\* add_timer's node joins the list.
LEMMA LinkLinked ==
    ASSUME ListIInv, LinkedLink
    PROVE  LinkedTyped'
<1> DEFINE n == held[owner]
<1>1. /\ TypeOK /\ PoolExact /\ owner \in Contexts /\ n # NoBlock
      /\ task \in [Blocks -> TimerRecord] /\ held \in [Contexts -> Blocks \cup {NoBlock}]
  BY DEF ListIInv, IInv, TypeOK, Stages, LinkedLink, Link, TimerRecord
<1>2. /\ n \in Blocks /\ n \notin Range(task_list) /\ n \notin Range(cur)
      /\ \A d \in Contexts : d # owner /\ held[d] # NoBlock => held[d] # n
  BY <1>1, HeldApart
<1>3. /\ next \in Pointers /\ prev \in Pointers /\ Path(next, head, task_list)
      /\ Path(next, walk, cur) /\ Back(prev, task_list) /\ HeldClear /\ next[n] = NoBlock
      /\ walk \in Blocks \cup {NoBlock}
  BY <1>1 DEF ListIInv, LinkedTyped, HeldClear
<1>4. /\ AddNode(n, task, next, prev) /\ walk' = walk /\ cur' = cur
      /\ held' = [held EXCEPT ![owner] = NoBlock]
  BY DEF LinkedLink, Link
<1>5. PICK k \in 1 .. Len(task_list) + 1 :
         IsPlace(task_list, task, n, k) /\ task_list' = Inserted(task_list, k, n)
  BY DEF LinkedLink, Link
<1>6. task_list \in Seq(Blocks) /\ IsInjective(task_list) /\ cur \in Seq(Blocks)
  BY <1>1, ListsApart
<1> HIDE DEF n
<1>7. /\ Path(next', head', task_list') /\ Back(prev', task_list')
      /\ head' \in Blocks /\ next' \in Pointers /\ prev' \in Pointers
      /\ \A b \in Blocks : b \notin Range(task_list) /\ b # n =>
            next'[b] = next[b] /\ prev'[b] = prev[b]
  BY <1>1, <1>2, <1>3, <1>4, <1>5, <1>6, AddNodeFacts
<1>8. Path(next', walk', cur')
  <2>1. \A b \in Range(cur) : next'[b] = next[b]
    BY <1>1, <1>2, <1>7, ListsApart
  <2> QED
    BY <1>3, <1>4, <1>6, <2>1, Frame
<1>9. HeldClear'
  <2> SUFFICES ASSUME NEW d \in Contexts, held'[d] # NoBlock
               PROVE  next'[held'[d]] = NoBlock /\ prev'[held'[d]] = NoBlock
    BY DEF HeldClear
  <2>1. d # owner /\ held'[d] = held[d]
    BY <1>1, <1>4
  <2>2. held[d] \in Blocks /\ held[d] \notin Range(task_list) /\ held[d] # n
    BY <1>1, <1>2, <2>1, HeldApart
  <2> QED
    BY <1>3, <1>7, <2>1, <2>2 DEF HeldClear
<1> QED
  BY <1>3, <1>4, <1>7, <1>8, <1>9 DEF LinkedTyped

\* del_timer's node leaves the list.
LEMMA DelLinked ==
    ASSUME ListIInv, NEW c \in Contexts, NEW r \in Requests, LinkedDelTimer(c, r.cb)
    PROVE  LinkedTyped'
<1>1. /\ TypeOK /\ PoolExact /\ LinkedTyped
      /\ walk' = walk /\ cur' = cur /\ held' = held
  BY DEF ListIInv, IInv, LinkedDelTimer, DelTimer
<1>2. ASSUME NEW k, IsFirst(k, r.cb), NEW m, IsFirst(m, r.cb) PROVE k = m
  <2>1. /\ k \in 1 .. Len(task_list) /\ m \in 1 .. Len(task_list)
        /\ m \notin 1 .. k - 1 /\ k \notin 1 .. m - 1
    BY <1>2 DEF IsFirst
  <2>2. Len(task_list) \in Nat
    BY <1>1, ListsApart, Members
  <2> QED
    BY <2>1, <2>2
<1>3. \/ \E k \in 1 .. Len(task_list) :
            task_list' = Removed(task_list, k) /\ Unlink(task_list[k])
      \/ task_list' = task_list /\ head' = head /\ next' = next /\ prev' = prev
  <2>1. CASE \E k \in 1 .. Len(task_list) : IsFirst(k, r.cb)
    <3>1. PICK k \in 1 .. Len(task_list) :
             IsFirst(k, r.cb) /\ task_list' = Removed(task_list, k)
      BY <2>1 DEF LinkedDelTimer, DelTimer
    <3>2. PICK m \in 1 .. Len(task_list) : IsFirst(m, r.cb) /\ Unlink(task_list[m])
      BY <2>1 DEF LinkedDelTimer
    <3>3. k = m
      BY <1>2, <3>1, <3>2
    <3> QED
      BY <3>1, <3>2, <3>3
  <2>2. CASE \A k \in 1 .. Len(task_list) : ~IsFirst(k, r.cb)
    BY <2>2 DEF LinkedDelTimer, DelTimer
  <2> QED
    BY <2>1, <2>2
<1>4. CASE task_list' = task_list /\ head' = head /\ next' = next /\ prev' = prev
  BY <1>1, <1>4 DEF LinkedTyped, HeldClear, Path, Back
<1>5. ASSUME NEW k \in 1 .. Len(task_list), task_list' = Removed(task_list, k),
             Unlink(task_list[k])
      PROVE  LinkedTyped'
  <2>1. task_list \in Seq(Blocks) /\ IsInjective(task_list) /\ cur \in Seq(Blocks)
    BY <1>1, ListsApart
  <2>2. /\ Path(next', head', task_list') /\ Back(prev', task_list')
        /\ head' \in Blocks \cup {NoBlock} /\ next' \in Pointers /\ prev' \in Pointers
        /\ \A b \in Blocks : b \notin Range(task_list) =>
              next'[b] = next[b] /\ prev'[b] = prev[b]
    BY <1>1, <1>5, <2>1, UnlinkFacts DEF LinkedTyped
  <2>3. Path(next', walk', cur')
    <3>1. \A b \in Range(cur) : next'[b] = next[b]
      BY <1>1, <2>2, ListsApart
    <3> QED
      BY <1>1, <2>1, <3>1, Frame DEF LinkedTyped
  <2>4. HeldClear'
    <3> SUFFICES ASSUME NEW d \in Contexts, held[d] # NoBlock
                 PROVE  next'[held[d]] = NoBlock /\ prev'[held[d]] = NoBlock
      BY <1>1 DEF HeldClear
    <3>1. held[d] \in Blocks /\ held[d] \notin Range(task_list)
      BY <1>1, HeldApart
    <3> QED
      BY <1>1, <2>2, <3>1 DEF LinkedTyped, HeldClear
  <2> QED
    BY <1>1, <2>2, <2>3, <2>4 DEF LinkedTyped
<1> QED
  BY <1>3, <1>4, <1>5

\* TIMER_RUN takes the list over.
LEMMA InterruptLinked ==
    ASSUME ListIInv, LinkedInterrupt
    PROVE  LinkedTyped'
<1>1. /\ walk' = head /\ head' = NoBlock /\ next' = next /\ prev' = prev
      /\ cur' = task_list /\ task_list' = <<>> /\ held' = held
  BY DEF LinkedInterrupt, Interrupt, clientVars
<1>2. Path(next', head', task_list') /\ Back(prev', task_list')
  <2>1. Len(task_list') = 0
    BY <1>1, EmptyList
  <2> QED
    BY <1>1, <2>1 DEF Path, Back
<1> QED
  BY <1>1, <1>2 DEF ListIInv, LinkedTyped, HeldClear, Path

\* One visit of TIMER_RUN's loop: the node leaves the list it walks, whose rest
\* hangs on its next, and clearing its pointers changes neither list.
LEMMA VisitFacts ==
    ASSUME ListIInv, cur # <<>>
    PROVE  /\ walk = Head(cur) /\ walk \in Blocks
           /\ walk \notin Range(task_list) /\ walk \notin Range(Tail(cur))
           /\ Tail(cur) \in Seq(Blocks) /\ Range(Tail(cur)) \subseteq Range(cur)
           /\ \A d \in Contexts : held[d] # NoBlock => held[d] # walk
           /\ Unhooked(next) \in Pointers /\ Unhooked(prev) \in Pointers
           /\ Unhooked(next)[walk] = NoBlock
           /\ \A b \in Blocks : b # walk =>
                 Unhooked(next)[b] = next[b] /\ Unhooked(prev)[b] = prev[b]
           /\ Path(Unhooked(next), head, task_list) /\ Back(Unhooked(prev), task_list)
           /\ Path(next, next[walk], Tail(cur)) /\ next[walk] \in Blocks \cup {NoBlock}
<1>1. TypeOK /\ PoolExact /\ LinkedTyped /\ cur \in Seq(Blocks) /\ IsInjective(cur)
  BY ListsApart DEF ListIInv, IInv
<1>2. /\ Head(cur) = cur[1] /\ Head(cur) \in Blocks /\ Head(cur) \in Range(cur)
      /\ Head(cur) \notin Range(Tail(cur)) /\ Tail(cur) \in Seq(Blocks)
      /\ Range(Tail(cur)) \subseteq Range(cur)
      /\ Len(cur) \in Nat \ {0} /\ Len(Tail(cur)) = Len(cur) - 1
      /\ \A i \in 1 .. Len(Tail(cur)) : Tail(cur)[i] = cur[i + 1]
  <2>1. Len(cur) \in Nat \ {0} /\ Len(Tail(cur)) = Len(cur) - 1
    BY <1>1, HeadTailProperties, EmptySeq
  <2>2. \A i \in 1 .. Len(Tail(cur)) : Tail(cur)[i] = cur[i + 1]
    BY <1>1, HeadTailProperties
  <2>3. Head(cur) = cur[1]
    BY <1>1, <2>1
  <2> QED
    BY <1>1, <2>1, <2>2, <2>3, TailFacts
<1>3. walk = Head(cur)
  BY <1>1, <1>2 DEF LinkedTyped, Path
<1>4. /\ walk \in Blocks /\ walk \notin Range(task_list)
      /\ \A d \in Contexts : held[d] # NoBlock => held[d] # walk
  BY <1>1, <1>2, <1>3, ListsApart, HeldApart
<1>5. /\ Unhooked(next) \in Pointers /\ Unhooked(prev) \in Pointers
      /\ Unhooked(next)[walk] = NoBlock
      /\ \A b \in Blocks : b # walk =>
            Unhooked(next)[b] = next[b] /\ Unhooked(prev)[b] = prev[b]
      /\ next[walk] \in Blocks \cup {NoBlock}
  BY <1>1, <1>4 DEF LinkedTyped, Unhooked, Pointers
<1>6. Path(Unhooked(next), head, task_list) /\ Back(Unhooked(prev), task_list)
  <2>1. /\ task_list \in Seq(Blocks)
        /\ \A b \in Range(task_list) :
              Unhooked(next)[b] = next[b] /\ Unhooked(prev)[b] = prev[b]
    BY <1>1, <1>4, <1>5, ListsApart
  <2> QED
    BY <1>1, <2>1, Frame DEF LinkedTyped
<1>7. Path(next, next[walk], Tail(cur))
  <2> DEFINE t == Tail(cur)
  <2>1. \A i \in 1 .. Len(cur) : next[cur[i]] = IF i < Len(cur) THEN cur[i + 1] ELSE NoBlock
    BY <1>1 DEF LinkedTyped, Path
  <2>2. next[walk] = IF 1 < Len(cur) THEN cur[1 + 1] ELSE NoBlock
    BY <1>2, <1>3, <2>1
  <2>3. t = <<>> <=> Len(t) = 0
    BY <1>2, EmptySeq
  <2> HIDE DEF t
  <2>4. t # <<>> => t[1] = cur[1 + 1]
    BY <1>2, <2>3 DEF t
  <2>5. next[walk] = IF t = <<>> THEN NoBlock ELSE t[1]
    BY <1>2, <2>2, <2>3, <2>4 DEF t
  <2>6. \A i \in 1 .. Len(t) : next[t[i]] = IF i < Len(t) THEN t[i + 1] ELSE NoBlock
    <3> TAKE i \in 1 .. Len(t)
    <3>1. t[i] = cur[i + 1] /\ i + 1 \in 1 .. Len(cur)
      BY <1>2 DEF t
    <3>2. next[t[i]] = IF i + 1 < Len(cur) THEN cur[(i + 1) + 1] ELSE NoBlock
      BY <2>1, <3>1
    <3>3. i < Len(t) => t[i + 1] = cur[(i + 1) + 1]
      BY <1>2 DEF t
    <3>4. i < Len(t) <=> i + 1 < Len(cur)
      BY <1>2 DEF t
    <3> QED
      BY <3>2, <3>3, <3>4
  <2> QED
    BY <2>5, <2>6 DEF Path, t
<1> QED
  BY <1>2, <1>3, <1>4, <1>5, <1>6, <1>7

\* A node whose timer has run for the last time is in no list any more.
LEMMA ExpireLinked ==
    ASSUME ListIInv, cur # <<>>, walk' = next[walk], cur' = Tail(cur),
           UNCHANGED <<task_list, held, head>>,
           next' = Unhooked(next), prev' = Unhooked(prev)
    PROVE  LinkedTyped'
<1>1. TypeOK /\ PoolExact /\ LinkedTyped
  BY DEF ListIInv, IInv
<1>2. Path(next', walk', cur')
  <2>1. \A b \in Range(Tail(cur)) : next'[b] = next[b]
    BY <1>1, VisitFacts, ListsApart
  <2> QED
    BY <2>1, VisitFacts, Frame
<1>3. HeldClear'
  <2> SUFFICES ASSUME NEW d \in Contexts, held[d] # NoBlock
               PROVE  next'[held[d]] = NoBlock /\ prev'[held[d]] = NoBlock
    BY DEF HeldClear
  <2>1. held[d] \in Blocks /\ held[d] # walk
    BY <1>1, VisitFacts, HeldApart
  <2> QED
    BY <1>1, <2>1, VisitFacts DEF LinkedTyped, HeldClear
<1>4. Path(next', head', task_list') /\ Back(prev', task_list')
  BY VisitFacts
<1> QED
  BY <1>1, <1>2, <1>3, <1>4, VisitFacts DEF LinkedTyped

\* A node that waits on is put back in its place.
LEMMA RelistLinked ==
    ASSUME ListIInv, cur # <<>>, walk' = next[walk], cur' = Tail(cur), held' = held,
           task' \in [Blocks -> TimerRecord], Relist(Head(cur), task'),
           AddNode(walk, task', Unhooked(next), Unhooked(prev))
    PROVE  LinkedTyped'
<1>1. TypeOK /\ PoolExact /\ LinkedTyped
  BY DEF ListIInv, IInv
<1>2. PICK k \in 1 .. Len(task_list) + 1 :
         IsPlace(task_list, task', walk, k) /\ task_list' = Inserted(task_list, k, walk)
  BY VisitFacts DEF Relist
<1>3. /\ Path(next', head', task_list') /\ Back(prev', task_list')
      /\ head' \in Blocks /\ next' \in Pointers /\ prev' \in Pointers
      /\ \A b \in Blocks : b \notin Range(task_list) /\ b # walk =>
            next'[b] = Unhooked(next)[b] /\ prev'[b] = Unhooked(prev)[b]
  BY <1>1, <1>2, VisitFacts, ListsApart, AddNodeFacts
<1>4. \A b \in Blocks : b \notin Range(task_list) /\ b # walk =>
         next'[b] = next[b] /\ prev'[b] = prev[b]
  BY <1>3, VisitFacts
<1>5. Path(next', walk', cur')
  <2>1. \A b \in Range(Tail(cur)) : next'[b] = next[b]
    BY <1>1, <1>4, VisitFacts, ListsApart
  <2> QED
    BY <2>1, VisitFacts, Frame
<1>6. HeldClear'
  <2> SUFFICES ASSUME NEW d \in Contexts, held[d] # NoBlock
               PROVE  next'[held[d]] = NoBlock /\ prev'[held[d]] = NoBlock
    BY DEF HeldClear
  <2>1. held[d] \in Blocks /\ held[d] # walk /\ held[d] \notin Range(task_list)
    BY <1>1, VisitFacts, HeldApart
  <2> QED
    BY <1>1, <1>4, <2>1 DEF LinkedTyped, HeldClear
<1> QED
  BY <1>3, <1>5, <1>6, VisitFacts DEF LinkedTyped

-----------------------------------------------------------------------------
\* Every step of ListSpec is one of Spec: all that is proved above of Timer
\* holds with the pointers.
LEMMA StepsRefine == [ListNext]_listStateVars => [Next]_vars
BY DEF ListNext, ListCpu, ListRtcCount, LinkedLink, LinkedInterrupt, LinkedRunNode,
       LinkedCarryNode, LinkedInitTimer, LinkedDelTimer, Next, Cpu, listStateVars

LEMMA InitLinkedTyped == ListInit => LinkedTyped
<1> SUFFICES ASSUME ListInit PROVE LinkedTyped
  OBVIOUS
<1>1. Len(<<>>) = 0
  BY EmptyList
<1>2. next \in Pointers /\ prev \in Pointers
  BY DEF ListInit, Pointers
<1> QED
  BY <1>1, <1>2 DEF ListInit, Init, LinkedTyped, Path, Back, HeldClear

LEMMA LinkedPreserved ==
    ASSUME ListIInv, TypeOK', [ListNext]_listStateVars
    PROVE  LinkedTyped'
<1>1. ASSUME NEW c \in Contexts, NEW r \in Requests, LinkedInitTimer(c, r)
      PROVE  LinkedTyped'
  BY <1>1, InitLinked
<1>2. ASSUME NEW c \in Contexts, NEW r \in Requests, LinkedDelTimer(c, r.cb)
      PROVE  LinkedTyped'
  BY <1>2, DelLinked
<1>3. CASE LinkedLink
  BY <1>3, LinkLinked
<1>4. CASE LinkedInterrupt
  BY <1>4, InterruptLinked
<1>5. task' \in [Blocks -> TimerRecord]
  BY DEF TypeOK, TimerRecord
<1>6. CASE LinkedRunNode
  <2>1. /\ cur # <<>> /\ cur' = Tail(cur) /\ walk' = next[walk] /\ held' = held
        /\ walk = Head(cur)
    BY <1>6, VisitFacts DEF LinkedRunNode, RunNode, clientVars
  <2>2. CASE Expires(walk)
    <3>1. next' = Unhooked(next) /\ prev' = Unhooked(prev) /\ head' = head
      BY <1>6, <2>2 DEF LinkedRunNode
    <3>2. task_list' = task_list
      BY <1>6, <2>1, <2>2 DEF LinkedRunNode, RunNode
    <3> QED
      BY <2>1, <3>1, <3>2, ExpireLinked
  <2>3. CASE ~Expires(walk)
    <3>1. AddNode(walk, task', Unhooked(next), Unhooked(prev))
      BY <1>6, <2>3 DEF LinkedRunNode
    <3>2. Relist(Head(cur), task')
      BY <1>6, <2>1, <2>3 DEF LinkedRunNode, RunNode
    <3> QED
      BY <1>5, <2>1, <3>1, <3>2, RelistLinked
  <2> QED
    BY <2>2, <2>3
<1>7. CASE LinkedCarryNode
  <2>1. /\ cur # <<>> /\ cur' = Tail(cur) /\ walk' = next[walk] /\ held' = held
        /\ AddNode(walk, task', Unhooked(next), Unhooked(prev))
        /\ Relist(Head(cur), task')
    BY <1>7 DEF LinkedCarryNode, CarryNode, clientVars
  <2> QED
    BY <1>5, <2>1, RelistLinked
<1>8. CASE UNCHANGED <<linkVars, task_list, cur, held>>
  BY <1>8 DEF ListIInv, LinkedTyped, HeldClear, Path, Back, linkVars
<1>9. CASE /\ (\E c \in Contexts : EnterAdd(c)) \/ Compare \/ Deduct \/ Rearm
           /\ UNCHANGED linkVars
  <2>1. UNCHANGED <<task_list, cur, held>>
    BY <1>9 DEF EnterAdd, Compare, Deduct, Rearm, listVars, clientVars
  <2> QED
    BY <1>8, <1>9, <2>1
<1>10. CASE ListRtcCount
  <2>1. UNCHANGED <<linkVars, task_list, cur, held>>
    BY <1>10 DEF ListRtcCount, RtcCount, listVars, clientVars
  <2> QED
    BY <1>8, <2>1
<1>11. CASE UNCHANGED listStateVars
  <2>1. UNCHANGED <<linkVars, task_list, cur, held>>
    BY <1>11 DEF listStateVars, vars, listVars, clientVars
  <2> QED
    BY <1>8, <2>1
<1> QED
  BY <1>1, <1>2, <1>3, <1>4, <1>6, <1>7, <1>9, <1>10, <1>11 DEF ListNext, ListCpu

THEOREM ListInvariance == ListSpec => []ListIInv
<1>1. ListInit => ListIInv
  BY InitInvariant, InitLinkedTyped DEF ListIInv, ListInit
<1>2. ListIInv /\ [ListNext]_listStateVars => ListIInv'
  <2> SUFFICES ASSUME ListIInv, [ListNext]_listStateVars PROVE ListIInv'
    OBVIOUS
  <2>1. IInv'
    BY StepsRefine, Inductive DEF ListIInv
  <2> QED
    BY <2>1, LinkedPreserved DEF ListIInv, IInv
<1> QED
  BY <1>1, <1>2, PTL DEF ListSpec

\* Whatever is added, deleted, run and put back in whatever order, the loops
\* along next visit the registered nodes and __del_timer_node unlinks its own,
\* though the heads of the list keep prev pointers to blocks given back.
THEOREM PointersStayLinked == ListSpec => []Linked
<1>1. ListIInv => Linked
  BY LinkedPaths DEF ListIInv, LinkedTyped, HeldClear
<1> QED
  BY <1>1, ListInvariance, PTL

\* The code with its pointers is the code without: its steps are Timer's, so
\* the pool stays exact, no match is missed and no callback comes early.
THEOREM ListTimersSafe ==
    ListSpec => Init /\ [][Next]_vars /\ [](TypeOK /\ PoolExact /\ MatchNotMissed) /\ NeverEarly
<1>1. ListInit => Init
  BY DEF ListInit
<1>2. ListIInv => TypeOK /\ PoolExact /\ MatchNotMissed
  BY DEF ListIInv, IInv
<1>3. ListIInv => [RunNode => due[Head(cur)] = 0]_vars
  BY RunsOnlyDue DEF ListIInv
<1> QED
  BY <1>1, <1>2, <1>3, StepsRefine, ListInvariance, PTL DEF ListSpec, NeverEarly
=============================================================================
