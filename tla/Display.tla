------------------------------ MODULE Display ------------------------------
(***************************************************************************)
(* Display: where printf() goes.  putc() in src/src/kernel.c sends each    *)
(* character to the UART (src/src/peripherals/uart.c) or, when UART_DEBUG  *)
(* is not defined, to the screen: framebuffer_init() has asked the GPU for *)
(* a frame buffer through the mailbox (mailbox.c, framebuffer.c), and      *)
(* kernel_writeChar() draws text into it (src/src/utils/shell.c).  The GPU *)
(* is the environment: it reads messages from one queue and answers in     *)
(* another, which may hold answers nobody asked for; so is the line that   *)
(* drains the UART's queue.                                                *)
(***************************************************************************)
EXTENDS Integers, Sequences

CONSTANTS
  Writer,         \* tasks that print
  Char,           \* character codes printed
  FifoDepth,      \* characters the UART's transmit queue holds
  Reply,          \* answers of the GPU: [code, depth, pointer, width, height]
  MboxDepth,      \* words a mailbox queue holds
  AliasSize,      \* 0x40000000: a bus address modulo this is the ARM address
  VirtualStart,   \* VIRTUAL_ADDRESS_START
  SCREEN_WIDTH, SCREEN_HEIGHT, INITIAL_X, INITIAL_Y,
  FONT_WIDTH, FONT_HEIGHT, SHELL_ZOOM_LEVEL, FONT_NUMGLYPHS

SCALED_CHAR_WIDTH  == FONT_WIDTH * SHELL_ZOOM_LEVEL
SCALED_CHAR_HEIGHT == FONT_HEIGHT * SHELL_ZOOM_LEVEL

ASSUME DisplayAssumption ==
  /\ Char \subseteq 0 .. 255
  /\ MboxDepth \in Nat \ {0} /\ FifoDepth \in Nat \ {0}
  /\ AliasSize \in Nat \ {0} /\ VirtualStart \in Nat \ {0}
  /\ {SCREEN_WIDTH, SCREEN_HEIGHT, INITIAL_X, INITIAL_Y} \subseteq Nat
  /\ {FONT_WIDTH, FONT_HEIGHT, SHELL_ZOOM_LEVEL, FONT_NUMGLYPHS} \subseteq Nat \ {0}
  /\ Reply \subseteq [code : {"response", "error"}, depth : Nat, pointer : Nat,
                      width : Nat, height : Nat]
  /\ INITIAL_X + 2 * SCALED_CHAR_WIDTH < SCREEN_WIDTH

VARIABLES
  ipc,      \* control point of framebuffer_init() and mailbox_call()
  mbox,     \* the shared buffer: code is mbox[1], depth mbox[20], pointer
            \* mbox[28], width and height mbox[10] and mbox[11]
  outbox,   \* queue behind MBOX_WRITE
  inbox,    \* queue behind MBOX_READ
  fb,       \* address of the frame buffer, 0 until it is known
  answer,   \* the GPU's answer to the request, for the properties
  UART_DEBUG, \* whether the build defines it
  txFifo,   \* transmit queue of the UART
  lost,     \* whether a character was stored in it when it was full, for the
            \* properties
  cursorX, cursorY,
  wpc,      \* control point of each writer in putc()
  wch,      \* its argument
  draw,     \* pixels of a framebuffer_drawChar() that has just returned, with
            \* the byte of the font that decides their colour
  cells,    \* where glyphs have been drawn, for the properties
  returned, \* rows in which '\r' was printed, for the properties
  raced     \* whether two writers were in a window at once so far, for the
            \* properties

mail    == <<ipc, mbox, outbox, inbox, fb, answer>>
uart    == <<UART_DEBUG, txFifo, lost>>
screen  == <<cursorX, cursorY, draw, cells, returned>>
console == <<uart, screen, wpc, wch, raced>>
vars    == <<mail, console>>

\* Words in the queues: the buffer's address with channel 8, or anything else.
Request == "request"
Other   == "other"

NoAnswer == [code |-> "none", depth |-> 0, pointer |-> 0, width |-> 0, height |-> 0]
Newline  == 10
Return   == 13

-----------------------------------------------------------------------------
(***************************************************************************)
(* framebuffer_init(), with mailbox_call().                                *)
(***************************************************************************)
\* The tags: depth 32, the two sizes, alignment 4096 in the pointer's word.
FillBuffer ==
  /\ ipc = "fill" /\ ipc' = "full"
  /\ mbox' = [code |-> "request", depth |-> 32, pointer |-> 4096,
              width |-> SCREEN_WIDTH, height |-> SCREEN_HEIGHT]
  /\ UNCHANGED <<outbox, inbox, fb, answer, console>>

Mut_WriteMailbox ==
  /\ ipc = "full" /\ ipc' = "empty"
  /\ outbox' = Append(outbox, Request)
  /\ UNCHANGED <<mbox, inbox, fb, answer, console>>

\* Waits for MBOX_FULL to clear and writes; nobody else writes in between.
WriteMailbox ==
  /\ ipc = "full" /\ ipc' = "empty"
  /\ Len(outbox) < MboxDepth
  /\ outbox' = Append(outbox, Request)
  /\ UNCHANGED <<mbox, inbox, fb, answer, console>>

Mut_IsReply(word) == TRUE

\* "Is it a reply to our message?"
IsReply(word) == word = Request

Mut_ReadMailbox ==
  /\ ipc = "empty"
  /\ inbox # <<>>
  /\ ipc' = IF IsReply(Head(inbox)) THEN "check" ELSE "empty"
  /\ UNCHANGED <<mbox, outbox, inbox, fb, answer, console>>

\* Waits for MBOX_EMPTY to clear and reads; other replies are dropped.
ReadMailbox ==
  /\ ipc = "empty"
  /\ inbox # <<>>
  /\ inbox' = Tail(inbox)
  /\ ipc' = IF IsReply(Head(inbox)) THEN "check" ELSE "empty"
  /\ UNCHANGED <<mbox, outbox, fb, answer, console>>

\* The pointer is taken only from a successful answer with 32 bits per pixel.
CheckAnswer ==
  /\ ipc = "check" /\ ipc' = "done"
  /\ fb' = IF mbox.code = "response" /\ mbox.depth = 32 /\ mbox.pointer # 0
             THEN VirtualStart + (mbox.pointer % AliasSize) ELSE fb
  /\ UNCHANGED <<mbox, outbox, inbox, answer, console>>

\* The GPU takes a word and answers it, writing the buffer if it is ours.
Gpu ==
  /\ outbox # <<>> /\ Len(inbox) < MboxDepth
  /\ outbox' = Tail(outbox)
  /\ inbox' = Append(inbox, Head(outbox))
  /\ IF Head(outbox) = Request THEN /\ mbox' \in Reply /\ answer' = mbox'
                               ELSE UNCHANGED <<mbox, answer>>
  /\ UNCHANGED <<ipc, fb, console>>

-----------------------------------------------------------------------------
(***************************************************************************)
(* putc(): the UART, and kernel_writeChar() statement by statement.        *)
(***************************************************************************)
\* Control points between a test, of the queue's room or the cursor's place, and
\* the last store that relies on it.  Neither path has a lock.
Window == {"io", "y", "put", "advance"}

Move(w, here, there) ==
  /\ wpc[w] = here /\ wpc' = [wpc EXCEPT ![w] = there]
  /\ raced' = (raced \/ \E v \in Writer \ {w} : {wpc[v], there} \subseteq Window)

\* The argument is gone when putc() returns.
At(w, here, there) ==
  /\ Move(w, here, there)
  /\ wch' = [wch EXCEPT ![w] = IF there = "idle" THEN 0 ELSE @]

\* putc(), called for each character of a string.
putc(w, ch) ==
  /\ ipc = "done"
  /\ Move(w, "idle", IF UART_DEBUG THEN "tx" ELSE "x")
  /\ wch' = [wch EXCEPT ![w] = ch]
  /\ UNCHANGED <<mail, uart, screen>>

Mut_uart_txReady == TRUE

Mut_uart_txReady_busy == txFifo # <<>>

uart_txReady == Len(txFifo) < FifoDepth

\* uart_writeByteBlocks() polls for room and, in a step of its own, stores the
\* character; in a full queue it is lost.
UartWait(w) ==
  /\ At(w, "tx", IF uart_txReady THEN "io" ELSE "tx")
  /\ UNCHANGED <<mail, uart, screen>>

UartWrite(w) ==
  /\ At(w, "io", "idle")
  /\ txFifo' = IF Len(txFifo) < FifoDepth THEN Append(txFifo, wch[w]) ELSE txFifo
  /\ lost' = (lost \/ Len(txFifo) >= FifoDepth)
  /\ UNCHANGED <<mail, UART_DEBUG, screen>>

\* The line takes a character.
UartLine ==
  /\ txFifo # <<>>
  /\ txFifo' = Tail(txFifo)
  /\ UNCHANGED <<mail, UART_DEBUG, lost, screen, wpc, wch, raced>>

Mut_LineFull == cursorX > SCREEN_WIDTH - 1

LineFull == cursorX + SCALED_CHAR_WIDTH > SCREEN_WIDTH - 1

WrapLine(w) ==
  /\ At(w, "x", "y")
  /\ IF LineFull
       THEN cursorX' = INITIAL_X /\ cursorY' = cursorY + SCALED_CHAR_HEIGHT
       ELSE UNCHANGED <<cursorX, cursorY>>
  /\ UNCHANGED <<mail, uart, draw, cells, returned>>

PageFull == cursorY + SCALED_CHAR_HEIGHT > SCREEN_HEIGHT - 1

\* "For now don't bother printing more than one page worth".
StopAtPageEnd(w) ==
  /\ At(w, "y", IF PageFull THEN "idle" ELSE "put")
  /\ UNCHANGED <<mail, uart, cursorX, cursorY, draw, cells, returned>>

Mut_PutNewline(w) ==
  /\ wch[w] = Newline
  /\ At(w, "put", "idle")
  /\ cursorX' = INITIAL_X
  /\ UNCHANGED <<mail, uart, cursorY, draw, cells, returned>>

PutNewline(w) ==
  /\ wch[w] = Newline
  /\ At(w, "put", "idle")
  /\ cursorX' = INITIAL_X /\ cursorY' = cursorY + SCALED_CHAR_HEIGHT
  /\ UNCHANGED <<mail, uart, draw, cells, returned>>

PutReturn(w) ==
  /\ wch[w] = Return
  /\ At(w, "put", "idle")
  /\ cursorX' = INITIAL_X
  /\ returned' = returned \cup {cursorY}
  /\ UNCHANGED <<mail, uart, cursorY, draw, cells>>

\* framebuffer_drawChar(): codes without a glyph are drawn as the first one,
\* whose bytes are one per line; the pointer into it moves on every zoom rows,
\* and the rows are counted from 1.
Glyph(ch) == IF ch < FONT_NUMGLYPHS THEN ch ELSE 0

drawChar(ch, x, y) ==
  {[byte |-> Glyph(ch) * FONT_HEIGHT + (i - 1) \div SHELL_ZOOM_LEVEL,
    x |-> x + j, y |-> y + i] :
     i \in 1 .. SCALED_CHAR_HEIGHT, j \in 0 .. SCALED_CHAR_WIDTH - 1}

DrawGlyph(w) ==
  /\ wch[w] \notin {Newline, Return}
  /\ At(w, "put", "advance")
  /\ draw' = drawChar(wch[w], cursorX, cursorY)
  /\ cells' = cells \cup {<<cursorX, cursorY>>}
  /\ UNCHANGED <<mail, uart, cursorX, cursorY, returned>>

Mut_Advance(w) ==
  /\ At(w, "advance", "idle")
  /\ cursorX' = cursorX + FONT_WIDTH /\ draw' = {}
  /\ UNCHANGED <<mail, uart, cursorY, cells, returned>>

Advance(w) ==
  /\ At(w, "advance", "idle")
  /\ cursorX' = cursorX + SCALED_CHAR_WIDTH /\ draw' = {}
  /\ UNCHANGED <<mail, uart, cursorY, cells, returned>>

-----------------------------------------------------------------------------
\* The bootloader may have left words in the queues; both queues full would
\* be a deadlock, since mailbox_call() reads nothing before it has written.
Init ==
  /\ ipc = "fill" /\ mbox = NoAnswer
  /\ outbox \in {<<>>, [i \in 1 .. MboxDepth |-> Other]}
  /\ inbox \in {<<>>, [i \in 1 .. MboxDepth - 1 |-> Other]}
  /\ fb = 0 /\ answer = NoAnswer
  /\ UART_DEBUG \in BOOLEAN
  /\ txFifo = <<>> /\ lost = FALSE
  /\ cursorX = INITIAL_X /\ cursorY = INITIAL_Y
  /\ wpc = [w \in Writer |-> "idle"]
  /\ wch = [w \in Writer |-> 0]
  /\ draw = {} /\ cells = {} /\ returned = {} /\ raced = FALSE

framebuffer_init == FillBuffer \/ WriteMailbox \/ ReadMailbox \/ CheckAnswer

kernel_writeChar(w) ==
  \/ WrapLine(w) \/ StopAtPageEnd(w)
  \/ PutNewline(w) \/ PutReturn(w) \/ DrawGlyph(w) \/ Advance(w)

uart_writeByteBlocks(w) == UartWait(w) \/ UartWrite(w)

Next ==
  \/ framebuffer_init \/ Gpu \/ UartLine
  \/ \E w \in Writer : \/ uart_writeByteBlocks(w) \/ kernel_writeChar(w)
                        \/ \E ch \in Char : putc(w, ch)

\* The core runs, the GPU serves its queue and the line the UART's.  A writer that
\* waits for room polls through its time slices, in which nobody else stores and
\* the line drains: others cannot take the room for ever (SF).
Spec ==
  /\ Init /\ [][Next]_vars
  /\ WF_vars(framebuffer_init) /\ WF_vars(Gpu) /\ WF_vars(UartLine)
  /\ \A w \in Writer : SF_vars(uart_writeByteBlocks(w) \/ kernel_writeChar(w))

-----------------------------------------------------------------------------
(***************************************************************************)
(* Properties.                                                             *)
(***************************************************************************)

\* Types, and the queues within what the hardware holds.
TypeOK ==
  /\ ipc \in {"fill", "full", "empty", "check", "done"}
  /\ {outbox, inbox} \subseteq Seq({Request, Other})
  /\ Len(outbox) <= MboxDepth /\ Len(inbox) <= MboxDepth
  /\ {fb, cursorX, cursorY} \subseteq Nat
  /\ UART_DEBUG \in BOOLEAN /\ lost \in BOOLEAN
  /\ txFifo \in Seq(Char) /\ Len(txFifo) <= FifoDepth
  /\ wpc \in [Writer -> {"idle", "tx", "io", "x", "y", "put", "advance"}]
  /\ wch \in [Writer -> Char \cup {0}]
  /\ cells \subseteq Nat \X Nat /\ returned \subseteq Nat /\ raced \in BOOLEAN

\* When framebuffer_init() returns, fb is the buffer the GPU granted in its
\* answer to this request, and 0 if it granted none, whatever other words are
\* in the mailbox ("Check call is successful and we have a pointer with depth
\* 32").
FbIsGranted ==
  ipc = "done" =>
    fb = IF answer.code = "response" /\ answer.depth = 32 /\ answer.pointer # 0
           THEN VirtualStart + (answer.pointer % AliasSize) ELSE 0

\* A glyph is read from the font and drawn inside the buffer the GPU granted,
\* at the right and lower edges too: kernel_writeChar() wraps and stops in time,
\* whoever prints, as long as no two tasks were between its test of the cursor and
\* its last store at once.
GlyphsOnPage ==
  fb # 0 /\ ~raced =>
    \A p \in draw : /\ p.byte < FONT_NUMGLYPHS * FONT_HEIGHT
                     /\ p.x < answer.width
                     /\ p.y < answer.height

\* Glyphs do not run into each other: two places where one was drawn are the
\* same place or share no pixel, after any mixture of wraps, '\n' and '\r'.
GlyphsDisjoint ==
  \A a, b \in cells :
    \/ a = b
    \/ a[1] + SCALED_CHAR_WIDTH <= b[1] \/ b[1] + SCALED_CHAR_WIDTH <= a[1]
    \/ a[2] + SCALED_CHAR_HEIGHT <= b[2] \/ b[2] + SCALED_CHAR_HEIGHT <= a[2]

\* Text that was printed stays, another task's too: before such a race a glyph is
\* drawn over another one only in a row that '\r' went back to.
NoOverwrite ==
  [][\A w \in Writer :
       wpc[w] = "put" /\ wpc'[w] = "advance" /\ cursorY \notin returned /\ ~raced =>
         <<cursorX, cursorY>> \notin cells]_vars

\* What several tasks print through the UART leaves on its line whole, as long as
\* no two of them were between uart_txReady() and the store at once: nothing else
\* takes the room that was seen.
UartKeepsAll == ~raced => ~lost

\* putc() returns: a character waits for room in the UART's queue, or for the
\* screen, no longer than the hardware needs.
PutcReturns == \A w \in Writer : wpc[w] # "idle" ~> wpc[w] = "idle"

\* framebuffer_init() returns: neither wait loop of mailbox_call() spins
\* forever when the GPU serves its queue.
InitEnds == <>(ipc = "done")
=============================================================================
