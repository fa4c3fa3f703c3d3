--------------------------- MODULE RingQueueProofs --------------------------
(***************************************************************************)
(* The ring of queue.c for every size: an offer appends to its window, a   *)
(* poll takes the window's head.  Both users of the ring, the event queue  *)
(* and the debug port, rest on this.                                       *)
(***************************************************************************)
EXTENDS RingQueue, SequenceTheorems, TLAPS

RingOK == QueueTypeOK /\ Window

\* Index arithmetic of the ring: the Size cells from read on are all the cells.
LEMMA CellFacts ==
    ASSUME read \in Cells
    PROVE  /\ Cell(0) = read
           /\ Cell(Size) = read
           /\ \A i \in 0 .. Size - 1 : /\ Cell(i) \in Cells
                                      /\ Cell(i + 1) = NextIdx(Cell(i))
           /\ \A i, j \in 0 .. Size - 1 : Cell(i) = Cell(j) => i = j
BY SizeAssumption, SMT DEF Cells, Cell, NextIdx

\* A function on 1 .. n that agrees with a sequence of length n is that sequence.
LEMMA SameSeq ==
    ASSUME NEW S, NEW n \in Nat, NEW s \in Seq(S), Len(s) = n,
           NEW f, f = [i \in 1 .. n |-> f[i]],
           \A i \in 1 .. n : f[i] = s[i]
    PROVE  f = s
<1>1. s = [i \in 1 .. n |-> s[i]]
  BY LenProperties
<1>2. [i \in 1 .. n |-> f[i]] = [i \in 1 .. n |-> s[i]]
  OBVIOUS
<1> QED
  BY <1>1, <1>2

LEMMA CountRange ==
    ASSUME QueueTypeOK
    PROVE  Count \in 0 .. Size
BY SizeAssumption, SMT DEF QueueTypeOK, Cells, Count

\* The ring starts empty, with its window at cell 0.
LEMMA InitRing == QueueInit => RingOK
BY SizeAssumption, SMT DEF QueueInit, RingOK, QueueTypeOK, Window, Cells, Cell, Count

LEMMA RingTypeKept ==
    ASSUME QueueTypeOK, Poll \/ \E v \in Values : OfferAccepted(v)
    PROVE  QueueTypeOK'
BY SizeAssumption, SMT DEF QueueTypeOK, Cells, OfferAccepted, Poll, NextIdx

\* An offer refused, like anything else that leaves the ring alone.
LEMMA RingUnchanged ==
    ASSUME UNCHANGED queueVars
    PROVE  /\ Contents' = Contents
           /\ RingOK => RingOK'
BY DEF queueVars, RingOK, QueueTypeOK, Window, Contents, Count, Cell

LEMMA CellReached ==
    ASSUME read \in Cells, NEW c \in Cells
    PROVE  \E i \in 0 .. Size - 1 : Cell(i) = c
<1> DEFINE i == IF c < read THEN c - read + Size ELSE c - read
<1>1. i \in 0 .. Size - 1 /\ Cell(i) = c
  BY SizeAssumption, SMT DEF Cells, Cell
<1> QED BY <1>1

\* An offer is refused only when every cell is taken.
LEMMA FullRing ==
    ASSUME RingOK, items[write] # NULL
    PROVE  \A c \in Cells : items[c] # NULL
<1> USE SizeAssumption DEF RingOK, QueueTypeOK
<1>1. Count = Size
  BY CountRange, SMT DEF Window
<1> QED BY <1>1, CellReached DEF Window

\* An accepted offer fills the cell behind the window and appends the value.
LEMMA OfferStep ==
    ASSUME RingOK, NEW v \in Values, OfferAccepted(v)
    PROVE  /\ Count < Size
           /\ Count' = Count + 1
           /\ RingOK'
           /\ Contents' = Append(Contents, v)
<1> USE SizeAssumption, NullAssumption
       DEF RingOK, QueueTypeOK
<1>1. /\ Count \in 0 .. Size
      /\ Cell(Count) = write
      /\ \A i \in 0 .. Size - 1 : items[Cell(i)] # NULL <=> i < Count
  BY CountRange DEF Window
<1>2. Count < Size
  BY <1>1, CellFacts, SMT DEF OfferAccepted, Cells
<1>3. /\ items' = [items EXCEPT ![Cell(Count)] = v]
      /\ write' = Cell(Count + 1)
      /\ read' = read
  BY <1>1, <1>2, CellFacts, SMT DEF OfferAccepted
<1>4. Count' = Count + 1
  BY <1>1, <1>2, <1>3, SMT DEF Count, Cell, Cells
<1>5. \A i \in Nat : Cell(i)' = Cell(i)
  BY <1>3 DEF Cell
<1>6. \A i \in 0 .. Size - 1 :
         items'[Cell(i)] = IF i = Count THEN v ELSE items[Cell(i)]
  BY <1>1, <1>2, <1>3, CellFacts, SMT
<1>7. Window'
  <2>1. Cell(Count)' = write'
    BY <1>1, <1>3, <1>4, SMT DEF Cell
  <2>2. \A i \in 0 .. Size - 1 : items'[Cell(i)'] # NULL <=> i < Count + 1
    BY <1>1, <1>2, <1>5, <1>6, SMT
  <2> QED
    BY <2>1, <2>2, <1>4 DEF Window
<1>8. Contents' = Append(Contents, v)
  <2> DEFINE CellValue == Values \cup {NULL}
             after == Append(Contents, v)
  <2>1. Contents' = [i \in 1 .. Count + 1 |-> items'[Cell(i - 1)]]
    BY <1>4, <1>3 DEF Contents, Cell
  <2>2. /\ Contents \in Seq(CellValue)
        /\ Len(Contents) = Count
    BY <1>1, CellFacts, SMT DEF Contents
  <2>3. \A i \in 1 .. Count + 1 : /\ items'[Cell(i - 1)] = after[i]
                                  /\ after[i] \in CellValue
    BY <1>1, <1>2, <1>6, <2>2, AppendProperties, SMT DEF Contents
  <2>4. /\ after \in Seq(CellValue)
        /\ Len(after) = Count + 1
    BY <2>2, AppendProperties, SMT
  <2>5. /\ Contents' = [i \in 1 .. Count + 1 |-> (Contents')[i]]
        /\ \A i \in 1 .. Count + 1 : (Contents')[i] = after[i]
    BY <2>1, <2>3, Zenon
  <2> HIDE DEF after
  <2>6. Count + 1 \in Nat
    BY <1>1
  <2>7. Contents' = after
    BY <2>4, <2>5, <2>6, SameSeq
  <2> QED
    BY <2>7 DEF after
<1> QED
  BY <1>2, <1>4, <1>7, <1>8, RingTypeKept

\* A poll that finds a value returns the oldest and leaves the others in order.
LEMMA PollStep ==
    ASSUME RingOK, Poll
    PROVE  /\ Contents # <<>>
           /\ RingOK'
           /\ items[read] = Head(Contents)
           /\ Contents' = Tail(Contents)
<1> USE SizeAssumption, NullAssumption
       DEF RingOK, QueueTypeOK
<1>1. /\ Count \in 0 .. Size
      /\ Cell(Count) = write
      /\ \A i \in 0 .. Size - 1 : items[Cell(i)] # NULL <=> i < Count
  BY CountRange DEF Window
<1>2. Count > 0
  BY <1>1, CellFacts, SMT DEF Poll
<1>3. /\ items' = [items EXCEPT ![Cell(0)] = NULL]
      /\ read' = NextIdx(read)
      /\ write' = write
  BY CellFacts DEF Poll
<1>4. \A i \in 0 .. Size - 1 : Cell(i)' = NextIdx(Cell(i))
  BY <1>3, SMT DEF Cell, NextIdx, Cells
<1>5. \A i \in 0 .. Size - 2 : /\ Cell(i)' = Cell(i + 1)
                              /\ items'[Cell(i)'] = items[Cell(i + 1)]
  BY <1>1, <1>3, <1>4, CellFacts, SMT
<1>6. /\ Cell(Size - 1)' = Cell(0)
      /\ items'[Cell(0)] = NULL
  BY <1>3, <1>4, CellFacts, SMT DEF Cell, NextIdx, Cells
<1>7. Count' = Count - 1
  <2>1. CASE Count = 1
    BY <1>1, <1>3, <1>5, <1>6, <2>1, CellFacts, SMT DEF Count, Cell, NextIdx, Cells
  <2>2. CASE Count > 1
    <3>1. items'[read'] # NULL
      BY <1>1, <1>3, <1>5, <2>2, CellFacts, SMT DEF Cell
    <3> QED
      BY <1>1, <1>2, <1>3, <2>2, <3>1, SMT DEF Count, NextIdx, Cells
  <2> QED
    BY <1>1, <1>2, <2>1, <2>2, SMT
<1>8. Window'
  <2>1. Cell(Count)' = write'
    BY <1>1, <1>2, <1>3, <1>7, CellFacts, SMT DEF Cell, NextIdx, Cells
  <2>2. \A i \in 0 .. Size - 1 : items'[Cell(i)'] # NULL <=> i < Count - 1
    <3>1. \A i \in 0 .. Size - 2 : items'[Cell(i)'] # NULL <=> i < Count - 1
      BY <1>1, <1>2, <1>5, SMT
    <3> QED
      BY <1>1, <1>2, <1>6, <3>1, SMT
  <2> QED
    BY <1>7, <2>1, <2>2 DEF Window
<1>9. /\ Contents \in Seq(Values \cup {NULL})
      /\ Len(Contents) = Count
      /\ Contents # <<>>
      /\ items[read] = Head(Contents)
  <2>1. Count \in Nat /\ Count >= 1
    BY <1>1, <1>2
  <2>2. \A i \in 1 .. Count : items[Cell(i - 1)] \in Values \cup {NULL}
    BY <1>1, CellFacts
  <2>3. Contents \in Seq(Values \cup {NULL}) /\ Len(Contents) = Count
    BY <2>1, <2>2 DEF Contents
  <2>4. Contents[1] = items[Cell(0)] /\ Cell(0) = read
    BY <2>1, CellFacts DEF Contents
  <2> QED
    BY <2>1, <2>3, <2>4
<1>10. Contents' = Tail(Contents)
  <2> DEFINE rest == Tail(Contents)
  <2>1. Contents' = [i \in 1 .. Count - 1 |-> items'[Cell(i - 1)']]
    BY <1>7 DEF Contents
  <2>2. /\ rest \in Seq(Values \cup {NULL})
        /\ Len(rest) = Count - 1
        /\ \A i \in 1 .. Count - 1 : rest[i] = Contents[i + 1]
    BY <1>9, HeadTailProperties, SMT
  <2>3. \A i \in 1 .. Count - 1 : /\ items'[Cell(i - 1)'] = Contents[i + 1]
                                  /\ Contents[i + 1] \in Values \cup {NULL}
    BY <1>1, <1>5, CellFacts, SMT DEF Contents
  <2>4. /\ Contents' = [i \in 1 .. Count - 1 |-> (Contents')[i]]
        /\ \A i \in 1 .. Count - 1 : (Contents')[i] = rest[i]
    BY <2>1, <2>2, <2>3, Zenon
  <2>5. Count - 1 \in Nat
    BY <1>1, <1>2
  <2> HIDE DEF rest
  <2>6. Contents' = rest
    BY <2>2, <2>4, <2>5, SameSeq
  <2> QED
    BY <2>6 DEF rest
<1> QED
  BY <1>8, <1>9, <1>10, RingTypeKept
=============================================================================
