------------------------------ MODULE Display -------------------------------
(***************************************************************************)
(* display.c: main_thread rewrites the buffer byte by byte while the       *)
(* USART's interrupts may still be shifting the text before it out to the  *)
(* display, a chain of shift registers with a latch.  A byte of the buffer *)
(* lights a glyph and a point.  The two interrupts have the same level, so *)
(* of two that are due the one with the lower vector, DRE, is taken.       *)
(***************************************************************************)
EXTENDS Integers, Sequences, FiniteSets

CONSTANTS Texts,        \* what printf hands to display_puts
          Glyphs,       \* the characters of display_charmap
          DISPLAY_SIZE,
          None,         \* no byte in a register of the USART
          Mixture       \* what a latch shows that closes while bits move

ASSUME DisplayAssumption == DISPLAY_SIZE \in Nat \ {0}
ASSUME TextAssumption == <<>> \in Texts /\ Texts \subseteq Seq(STRING)
ASSUME NoneAssumption ==
    \A g \in Glyphs \cup {" "}, d \in BOOLEAN : [glyph |-> g, dp |-> d] # None

VARIABLES
    str, i, len, add_dp,  \* display_puts: its argument and locals
    printing,             \* display_puts runs
    buf, bytes,           \* state
    dre,                  \* the DRE interrupt's enable
    data, shift, txc,     \* DATA, the shift register, the TXC flag
    chain, latch          \* the display's bytes, those shifted first at the end

putsVars == <<str, i, len, add_dp, printing>>
usartVars == <<data, shift, txc, chain, latch>>
displayVars == <<putsVars, buf, bytes, dre, usartVars>>

Max == DISPLAY_SIZE - 1
Blank == " "
Marks == {".", ":"}
Dark == [glyph |-> Blank, dp |-> FALSE]

\* get_mapped_char: what the map lacks lights nothing.
MappedChar(c) == IF c \in Glyphs THEN c ELSE Blank

\* display_init.
DisplayInit ==
    /\ str = <<>> /\ i = 1 /\ len = 0 /\ add_dp = FALSE /\ printing = FALSE
    /\ buf = [n \in 0 .. Max |-> Dark] /\ bytes = 0 /\ dre = TRUE
    /\ data = None /\ shift = None /\ txc = FALSE
    /\ chain = [n \in 1 .. DISPLAY_SIZE |-> Mixture] /\ latch = chain

-----------------------------------------------------------------------------
\* main_thread.

\* printf and clear.
Puts(s) == /\ ~printing /\ printing' = TRUE
           /\ str' = s /\ i' = 1 /\ len' = 0 /\ add_dp' = FALSE
           /\ UNCHANGED <<buf, bytes, dre, usartVars>>

InText == printing /\ len < DISPLAY_SIZE /\ i <= Len(str)
IsMark == str[i] \in Marks /\ len > 0

\* A point or colon lights the point of the character before it, a colon also
\* that of the next.
PutMark == /\ InText /\ IsMark
           /\ buf' = [buf EXCEPT ![Max - (len - 1)].dp = TRUE]
           /\ add_dp' = (add_dp \/ str[i] = ":")
           /\ i' = i + 1
           /\ UNCHANGED <<str, len, printing, bytes, dre, usartVars>>

PutChar == /\ InText /\ ~IsMark
           /\ buf' = [buf EXCEPT ![Max - len] = [glyph |-> MappedChar(str[i]), dp |-> add_dp]]
           /\ add_dp' = FALSE
           /\ i' = i + 1 /\ len' = len + 1
           /\ UNCHANGED <<str, printing, bytes, dre, usartVars>>

Pad == /\ printing /\ ~InText /\ len < DISPLAY_SIZE
       /\ buf' = [buf EXCEPT ![Max - len] = Dark]
       /\ len' = len + 1
       /\ UNCHANGED <<str, i, add_dp, printing, bytes, dre, usartVars>>

\* Slip: the transfer under way is left to finish.
DisplayWriteGoesOn == /\ printing /\ len = DISPLAY_SIZE
                      /\ dre' = TRUE
                      /\ bytes' = IF dre THEN bytes ELSE 0
                      /\ printing' = FALSE
                      /\ UNCHANGED <<str, i, len, add_dp, buf, usartVars>>

DisplayWrite == /\ printing /\ len = DISPLAY_SIZE
                /\ dre' = TRUE /\ bytes' = 0
                /\ printing' = FALSE
                /\ UNCHANGED <<str, i, len, add_dp, buf, usartVars>>

PutsSteps == PutMark \/ PutChar \/ Pad \/ DisplayWrite

-----------------------------------------------------------------------------
\* Interrupts.  A byte written to an idle USART goes on to the shift register.

DreDue == dre /\ data = None

DreInterrupt ==
    /\ DreDue
    /\ IF shift = None THEN shift' = buf[bytes] /\ UNCHANGED data
                       ELSE data' = buf[bytes] /\ UNCHANGED shift
    /\ bytes' = bytes + 1
    /\ dre' = (bytes' # DISPLAY_SIZE)
    /\ UNCHANGED <<putsVars, buf, txc, chain, latch>>

\* xlat_trigger.
TxcInterrupt ==
    /\ txc /\ ~DreDue
    /\ txc' = FALSE
    /\ latch' = IF shift = None THEN chain ELSE [n \in DOMAIN chain |-> Mixture]
    /\ UNCHANGED <<putsVars, buf, bytes, dre, data, shift, chain>>

\* The USART has shifted a byte out: the next follows, or the transfer is
\* complete as far as it can tell.
Shifted == /\ shift # None
           /\ chain' = Append(Tail(chain), shift)
           /\ shift' = data /\ data' = None
           /\ txc' = (txc \/ data = None)
           /\ UNCHANGED <<putsVars, buf, bytes, dre, latch>>

DisplayNext == \/ PutsSteps \/ DreInterrupt \/ TxcInterrupt \/ Shifted
               \/ \E s \in Texts : Puts(s)

\* display_puts comes to its end, interrupts that are due are taken, and the
\* USART shifts.
DisplaySpec == /\ DisplayInit /\ [][DisplayNext]_displayVars
               /\ WF_displayVars(PutsSteps) /\ WF_displayVars(Shifted)
               /\ WF_displayVars(DreInterrupt \/ TxcInterrupt)

-----------------------------------------------------------------------------
\* How a text is to be read, without display_puts: everything is a character but
\* the marks behind the first.
Chars(s) == {n \in DOMAIN s : n = 1 \/ s[n] \notin Marks}
Place(s, n) == Cardinality({m \in Chars(s) : m < n})

\* The point at place p: a mark follows, or a colon comes before.
Lit(s, p) == \E n \in DOMAIN s \ Chars(s) :
                \/ Place(s, n) = p + 1 /\ p < Max
                \/ Place(s, n) = p /\ s[n] = ":"

Rendered(s) ==
    [p \in 0 .. Max |->
        IF \E n \in Chars(s) : Place(s, n) = p
        THEN [glyph |-> MappedChar(s[CHOOSE n \in Chars(s) : Place(s, n) = p]), dp |-> Lit(s, p)]
        ELSE Dark]

Shows(s) == \A p \in 0 .. Max : latch[DISPLAY_SIZE - p] = Rendered(s)[p]

\* When the program stops printing the display comes to show the last text and
\* keeps it, whatever was still being shifted out when the buffer was rewritten
\* and whatever underruns and late latches showed in between (display.c:161-168).
TextShown == \A s \in Texts : <>[](~printing /\ str = s) => <>[]Shows(s)
=============================================================================
