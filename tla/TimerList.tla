------------------------------ MODULE TimerList ------------------------------
(***************************************************************************)
(* The pointers of timer.c's doubly linked list, written and followed as   *)
(* the code does, beside the sequences of nodes that Timer's actions keep. *)
(* A loop along next visits the nodes of the sequence, which is what       *)
(* Linked promises at each of its steps.                                   *)
(***************************************************************************)
EXTENDS Timer

VARIABLES
    head,        \* the pointer task_list
    walk,        \* TIMER_RUN's cur
    next, prev   \* the pointers in each block

linkVars == <<head, walk, next, prev>>
listStateVars == <<vars, linkVars>>

ListInit == /\ Init
            /\ head = NoBlock /\ walk = NoBlock
            /\ next = [b \in Blocks |-> NoBlock] /\ prev = next

\* init_timer clears the pointers of the block it takes.
LinkedInitTimer(c, r) ==
    /\ InitTimer(c, r)
    /\ next' = [next EXCEPT ![held'[c]] = NoBlock]
    /\ prev' = [prev EXCEPT ![held'[c]] = NoBlock]
    /\ UNCHANGED <<head, walk>>

-----------------------------------------------------------------------------
\* Slip: a node linked into the middle is not known to the one behind it.
AddNodeHalf(n, tk, nx, pv) ==
    \/ /\ head = NoBlock
       /\ head' = n /\ next' = nx /\ prev' = pv
    \/ /\ head # NoBlock /\ tk[head].ticks >= tk[n].ticks
       /\ next' = [nx EXCEPT ![n] = head]
       /\ prev' = [pv EXCEPT ![head] = n]
       /\ head' = n
    \/ \E k \in 1 .. Len(task_list) :
          LET tmp == task_list[k] IN
          /\ \A j \in 1 .. k : tk[task_list[j]].ticks < tk[n].ticks
          /\ nx[tmp] # NoBlock => tk[nx[tmp]].ticks >= tk[n].ticks
          /\ next' = [nx EXCEPT ![n] = nx[tmp], ![tmp] = n]
          /\ prev' = [pv EXCEPT ![n] = tmp]
          /\ UNCHANGED head

\* __add_timer_node, given the pointers as they are: n becomes the only node or
\* the head, or follows tmp, where the loop stops.
AddNode(n, tk, nx, pv) ==
    \/ /\ head = NoBlock
       /\ head' = n /\ next' = nx /\ prev' = pv
    \/ /\ head # NoBlock /\ tk[head].ticks >= tk[n].ticks
       /\ next' = [nx EXCEPT ![n] = head]
       /\ prev' = [pv EXCEPT ![head] = n]
       /\ head' = n
    \/ \E k \in 1 .. Len(task_list) :
          LET tmp == task_list[k] IN
          /\ \A j \in 1 .. k : tk[task_list[j]].ticks < tk[n].ticks
          /\ nx[tmp] # NoBlock => tk[nx[tmp]].ticks >= tk[n].ticks
          /\ next' = [nx EXCEPT ![n] = nx[tmp], ![tmp] = n]
          /\ prev' = [b \in Blocks |-> IF b = n THEN tmp
                                       ELSE IF b = nx[tmp] THEN n ELSE pv[b]]
          /\ UNCHANGED head

LinkedLink == /\ Link
              /\ AddNode(held[owner], task, next, prev)
              /\ UNCHANGED walk

-----------------------------------------------------------------------------
\* __del_timer_node.  The new head keeps its prev.
Unlink(n) ==
    \/ /\ n = head
       /\ head' = next[n]
       /\ UNCHANGED <<next, prev>>
    \/ /\ n # head
       /\ next' = IF prev[n] # NoBlock THEN [next EXCEPT ![prev[n]] = next[n]] ELSE next
       /\ prev' = IF next[n] # NoBlock THEN [prev EXCEPT ![next[n]] = prev[n]] ELSE prev
       /\ UNCHANGED head

LinkedDelTimer(c, cb) ==
    /\ DelTimer(c, cb)
    /\ \/ \E k \in 1 .. Len(task_list) : IsFirst(k, cb) /\ Unlink(task_list[k])
       \/ /\ \A k \in 1 .. Len(task_list) : ~IsFirst(k, cb)
          /\ UNCHANGED <<head, next, prev>>
    /\ UNCHANGED walk

-----------------------------------------------------------------------------
\* TIMER_RUN takes the list over and leaves an empty one.
LinkedInterrupt == /\ Interrupt
                   /\ walk' = head /\ head' = NoBlock
                   /\ UNCHANGED <<next, prev>>

\* A visit goes on along next before it clears the node's pointers.
Unhooked(pointers) == [pointers EXCEPT ![walk] = NoBlock]

LinkedRunNode ==
    /\ RunNode
    /\ walk' = next[walk]
    /\ \/ /\ Expires(walk)
          /\ next' = Unhooked(next) /\ prev' = Unhooked(prev)
          /\ UNCHANGED head
       \/ /\ ~Expires(walk)
          /\ AddNode(walk, task', Unhooked(next), Unhooked(prev))

LinkedCarryNode == /\ CarryNode
                   /\ walk' = next[walk]
                   /\ AddNode(walk, task', Unhooked(next), Unhooked(prev))

-----------------------------------------------------------------------------
ListCpu ==
    \/ LinkedLink \/ LinkedInterrupt \/ LinkedRunNode \/ LinkedCarryNode
    \/ /\ (\E c \in Contexts : EnterAdd(c)) \/ Compare \/ Deduct \/ Rearm
       /\ UNCHANGED linkVars

ListRtcCount == RtcCount /\ UNCHANGED linkVars

ListNext == \/ \E c \in Contexts, r \in Requests : LinkedInitTimer(c, r)
            \/ \E c \in Contexts, r \in Requests : LinkedDelTimer(c, r.cb)
            \/ ListCpu
            \/ ListRtcCount

\* As in Timer.
ListSpec == /\ ListInit /\ [][ListNext]_listStateVars
            /\ WF_listStateVars(ListCpu) /\ WF_listStateVars(ListRtcCount)

-----------------------------------------------------------------------------
\* The pointer h and then next lead through the nodes of the list to NULL.
Chained(h, list) ==
    /\ h = IF list = <<>> THEN NoBlock ELSE list[1]
    /\ \A i \in 1 .. Len(list) :
          next[list[i]] = IF i < Len(list) THEN list[i + 1] ELSE NoBlock

\* Following next visits exactly the registered nodes in their order, or those
\* TIMER_RUN has still to visit, and the prev of each but the head is the node
\* before it, whatever stale pointers freed nodes and deleted heads leave: so
\* __del_timer_node takes out its node and no other.  A node that add_timer
\* holds has the NULL pointers that __add_timer_node assumes (timer.c:100).
Linked ==
    /\ Chained(head, task_list) /\ Chained(walk, cur)
    /\ \A i \in 2 .. Len(task_list) : prev[task_list[i]] = task_list[i - 1]
    /\ \A c \in Contexts : held[c] # NoBlock =>
          next[held[c]] = NoBlock /\ prev[held[c]] = NoBlock
=============================================================================
