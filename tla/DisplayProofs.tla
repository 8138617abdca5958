--------------------------- MODULE DisplayProofs ---------------------------
(***************************************************************************)
(* Proofs about the mailbox exchange, the screen console and the UART, for *)
(* every screen, font, queue length and GPU answer.                        *)
(***************************************************************************)
EXTENDS Display, TLAPS

\* A buffer the GPU grants has at least the size that was asked for.
GrantsScreen ==
  \A r \in Reply :
    r.code = "response" /\ r.depth = 32 /\ r.pointer # 0 =>
      r.width >= SCREEN_WIDTH /\ r.height >= SCREEN_HEIGHT

-----------------------------------------------------------------------------
(***************************************************************************)
(* The inductive invariant.                                                *)
(***************************************************************************)
\* A printing task has a character.
PrintsChars ==
  /\ \A w \in Writer : wpc[w] # "idle" => wch[w] \in Char
  /\ (\E w \in Writer : wpc[w] # "idle") => ipc = "done"
  /\ draw # {} => ipc = "done"

Asked(q) == \E i \in DOMAIN q : q[i] = Request
AskedOnce(q) == \A i, j \in DOMAIN q : q[i] = Request /\ q[j] = Request => i = j

\* The request is in one of the queues exactly while mailbox_call() waits for
\* it, and in the second one the buffer holds its answer.
RequestTracked ==
  /\ ipc # "empty" => ~Asked(outbox) /\ ~Asked(inbox)
  /\ AskedOnce(outbox) /\ AskedOnce(inbox)
  /\ ~(Asked(outbox) /\ Asked(inbox))
  /\ ipc = "check" \/ Asked(inbox) => answer = mbox
  /\ ipc # "done" => fb = 0
  /\ answer \in Reply \cup {NoAnswer}

\* Glyphs are drawn on a grid.
OnGrid(x, y) ==
  /\ \E k \in Nat : x = INITIAL_X + k * SCALED_CHAR_WIDTH
  /\ \E k \in Nat : y = INITIAL_Y + k * SCALED_CHAR_HEIGHT

GlyphsOnGrid ==
  /\ OnGrid(cursorX, cursorY)
  /\ \A c \in cells : OnGrid(c[1], c[2])

IInv == TypeOK /\ PrintsChars /\ RequestTracked /\ FbIsGranted /\ GlyphsOnGrid

\* Before a race: one writer is in a window, room seen is room left, and the
\* cursor fits and is behind everything drawn in its row.
Alone == \A v, w \in Writer : wpc[v] \in Window /\ wpc[w] \in Window => v = w

RoomStays ==
  /\ \A w \in Writer : wpc[w] = "io" => Len(txFifo) < FifoDepth
  /\ ~lost

CursorFits ==
  \A w \in Writer :
    /\ wpc[w] \in {"y", "put"} => cursorX + SCALED_CHAR_WIDTH <= SCREEN_WIDTH - 1
    /\ wpc[w] = "put" => cursorY + SCALED_CHAR_HEIGHT <= SCREEN_HEIGHT - 1

PixelsInside ==
  \A p \in draw : /\ p.byte < FONT_NUMGLYPHS * FONT_HEIGHT
                   /\ p.x \in 0 .. SCREEN_WIDTH - 1
                   /\ p.y \in 0 .. SCREEN_HEIGHT - 1

CursorBehind ==
  \A c \in cells :
    /\ c[2] <= cursorY
    /\ c[2] = cursorY /\ cursorY \notin returned =>
         \/ c[1] < cursorX
         \/ c[1] = cursorX /\ \E w \in Writer : wpc[w] = "advance"

AloneInv == Alone /\ RoomStays /\ CursorFits /\ PixelsInside /\ CursorBehind

-----------------------------------------------------------------------------
(***************************************************************************)
(* Arithmetic of the grid and of the font.                                 *)
(***************************************************************************)
LEMMA CellSize ==
  SCALED_CHAR_WIDTH \in Nat \ {0} /\ SCALED_CHAR_HEIGHT \in Nat \ {0}
<1>1. \A a, b \in Nat \ {0} : a * b \in Nat \ {0}
  OBVIOUS
<1> QED
  BY <1>1, DisplayAssumption
     DEF DisplayAssumption, SCALED_CHAR_WIDTH, SCALED_CHAR_HEIGHT

\* Numbers on a grid of step d are equal or at least d apart.
LEMMA GridApart ==
  ASSUME NEW d \in Nat, NEW o \in Nat, NEW j \in Nat, NEW k \in Nat
  PROVE  \/ o + j * d = o + k * d
         \/ o + j * d + d <= o + k * d
         \/ o + k * d + d <= o + j * d
<1>1. ASSUME NEW m \in Nat, NEW n \in Nat, m < n
      PROVE  o + m * d + d <= o + n * d
  <2>1. PICK e \in Nat : n = m + 1 + e
    <3>1. n - m - 1 \in Nat /\ n = m + 1 + (n - m - 1)
      BY <1>1
    <3> QED BY <3>1
  <2>2. n * d = m * d + d + e * d
    BY <2>1
  <2>3. m * d \in Nat /\ e * d \in Nat
    OBVIOUS
  <2> QED BY <2>2, <2>3
<1>2. CASE j = k
  BY <1>2
<1>3. CASE j < k
  BY <1>1, <1>3
<1>4. CASE k < j
  BY <1>1, <1>4
<1> QED BY <1>2, <1>3, <1>4

\* The next place on a grid.
LEMMA GridNext ==
  ASSUME NEW d \in Nat, NEW o \in Nat, NEW k \in Nat
  PROVE  o + k * d + d = o + (k + 1) * d
<1>1. k * d \in Nat /\ (k + 1) * d = k * d + d
  OBVIOUS
<1> QED BY <1>1

\* A zoomed row of a glyph belongs to one of its lines.
LEMMA FontLine ==
  ASSUME NEW z \in Nat \ {0}, NEW h \in Nat, NEW i \in Nat, i < h * z
  PROVE  i \div z \in 0 .. h - 1
<1>1. i \div z \in Nat /\ i = z * (i \div z) + (i % z) /\ i % z \in 0 .. z - 1
  OBVIOUS
<1> DEFINE q == i \div z
<1>2. q \in Nat /\ z * q <= i
  BY <1>1
<1>3. ASSUME q >= h PROVE FALSE
  <2> HIDE DEF q
  <2>1. PICK e \in Nat : q = h + e
    <3>1. q - h \in Nat /\ q = h + (q - h)
      BY <1>2, <1>3
    <3> QED BY <3>1
  <2>2. z * q = h * z + z * e /\ z * e \in Nat /\ h * z \in Nat
    BY <2>1
  <2> QED BY <1>2, <2>2
<1> QED BY <1>2, <1>3

\* A byte of a glyph of the font is a byte of the font.
LEMMA FontByte ==
  ASSUME NEW h \in Nat, NEW n \in Nat, NEW g \in Nat, g < n, NEW l \in 0 .. h - 1
  PROVE  g * h + l < n * h
<1>1. PICK e \in Nat : n = g + 1 + e
  <2>1. n - g - 1 \in Nat /\ n = g + 1 + (n - g - 1)
    OBVIOUS
  <2> QED BY <2>1
<1>2. n * h = g * h + h + e * h /\ e * h \in Nat /\ g * h \in Nat
  BY <1>1
<1> QED BY <1>2

-----------------------------------------------------------------------------
(***************************************************************************)
(* The mailbox, the cursor and the queue of the UART, for any number of    *)
(* writers.                                                                *)
(***************************************************************************)
LEMMA OtherWords ==
  ASSUME NEW n \in Nat, NEW q, q = [i \in 1 .. n |-> Other]
  PROVE  q \in Seq({Request, Other}) /\ Len(q) = n /\ ~Asked(q)
BY DEF Asked, Request, Other

LEMMA InitIInv == Init => IInv
<1> SUFFICES ASSUME Init PROVE IInv
  OBVIOUS
<1>1. <<>> \in Seq({Request, Other}) /\ Len(<<>>) = 0 /\ ~Asked(<<>>)
  BY DEF Asked
<1>2. MboxDepth \in Nat /\ MboxDepth - 1 \in Nat
  BY DisplayAssumption DEF DisplayAssumption
<1>3. outbox \in Seq({Request, Other}) /\ Len(outbox) <= MboxDepth /\ ~Asked(outbox)
  <2>1. CASE outbox = <<>>
    BY <1>1, <1>2, <2>1
  <2>2. CASE outbox = [i \in 1 .. MboxDepth |-> Other]
    BY <1>2, <2>2, OtherWords
  <2> QED BY <2>1, <2>2 DEF Init
<1>4. inbox \in Seq({Request, Other}) /\ Len(inbox) <= MboxDepth /\ ~Asked(inbox)
  <2>1. CASE inbox = <<>>
    BY <1>1, <1>2, <2>1
  <2>2. CASE inbox = [i \in 1 .. MboxDepth - 1 |-> Other]
    BY <1>2, <2>2, OtherWords
  <2> QED BY <2>1, <2>2 DEF Init
<1>5. TypeOK
  <2>1. txFifo \in Seq(Char) /\ Len(txFifo) <= FifoDepth
    BY DisplayAssumption DEF DisplayAssumption, Init
  <2>2. UART_DEBUG \in BOOLEAN /\ lost \in BOOLEAN /\ raced \in BOOLEAN
    BY Zenon DEF Init
  <2>3. {fb, cursorX, cursorY} \subseteq Nat
    BY DisplayAssumption DEF DisplayAssumption, Init
  <2> QED BY <1>3, <1>4, <2>1, <2>2, <2>3 DEF Init, TypeOK
<1>6. PrintsChars
  BY DEF Init, PrintsChars
<1>7. RequestTracked
  BY <1>3, <1>4 DEF Init, RequestTracked, Asked, AskedOnce
<1>8. FbIsGranted
  BY DEF Init, FbIsGranted
<1>9. GlyphsOnGrid
  <2>1. INITIAL_X = INITIAL_X + 0 * SCALED_CHAR_WIDTH
        /\ INITIAL_Y = INITIAL_Y + 0 * SCALED_CHAR_HEIGHT
    BY CellSize, DisplayAssumption DEF DisplayAssumption
  <2> QED BY <2>1 DEF Init, GlyphsOnGrid, OnGrid
<1> QED BY <1>5, <1>6, <1>7, <1>8, <1>9 DEF IInv

\* What Head, Tail and Append do to a queue's one request.
LEMMA QueueFacts ==
  ASSUME NEW q \in Seq({Request, Other}), AskedOnce(q)
  PROVE  /\ q # <<>> =>
              /\ Tail(q) \in Seq({Request, Other}) /\ Len(Tail(q)) = Len(q) - 1
              /\ Head(q) \in {Request, Other}
              /\ AskedOnce(Tail(q))
              /\ Asked(Tail(q)) => Asked(q)
              /\ Head(q) = Request => Asked(q) /\ ~Asked(Tail(q))
              /\ Asked(q) /\ Head(q) # Request => Asked(Tail(q))
         /\ \A w \in {Request, Other} :
              /\ Append(q, w) \in Seq({Request, Other})
              /\ Len(Append(q, w)) = Len(q) + 1
              /\ Asked(Append(q, w)) <=> Asked(q) \/ w = Request
              /\ ~Asked(q) \/ w # Request => AskedOnce(Append(q, w))
<1>1. ASSUME q # <<>>
      PROVE  /\ Tail(q) \in Seq({Request, Other}) /\ Len(Tail(q)) = Len(q) - 1
             /\ Head(q) = q[1] /\ 1 \in DOMAIN q
             /\ DOMAIN q = 1 .. Len(q) /\ Len(q) \in Nat \ {0}
             /\ DOMAIN Tail(q) = 1 .. Len(q) - 1
             /\ \A i \in 1 .. Len(q) - 1 : Tail(q)[i] = q[i + 1]
  BY <1>1
<1>2. ASSUME q # <<>>
      PROVE  /\ Head(q) \in {Request, Other}
             /\ AskedOnce(Tail(q))
             /\ Asked(Tail(q)) => Asked(q)
             /\ Head(q) = Request => Asked(q) /\ ~Asked(Tail(q))
  BY <1>1, <1>2 DEF Asked, AskedOnce
<1>3. ASSUME q # <<>>, Asked(q), Head(q) # Request
      PROVE  Asked(Tail(q))
  <2>1. PICK i \in DOMAIN q : q[i] = Request
    BY <1>3 DEF Asked
  <2>2. i - 1 \in 1 .. Len(q) - 1 /\ Tail(q)[i - 1] = q[i]
    BY <1>1, <1>3, <2>1
  <2> QED BY <1>1, <1>3, <2>1, <2>2 DEF Asked
<1>4. ASSUME NEW w \in {Request, Other}
      PROVE  /\ Append(q, w) \in Seq({Request, Other})
             /\ Len(Append(q, w)) = Len(q) + 1
             /\ Asked(Append(q, w)) <=> Asked(q) \/ w = Request
             /\ ~Asked(q) \/ w # Request => AskedOnce(Append(q, w))
  <2>1. /\ Append(q, w) \in Seq({Request, Other})
        /\ Len(Append(q, w)) = Len(q) + 1 /\ Len(q) \in Nat
        /\ DOMAIN q = 1 .. Len(q) /\ DOMAIN Append(q, w) = 1 .. Len(q) + 1
        /\ \A i \in 1 .. Len(q) : Append(q, w)[i] = q[i]
        /\ Append(q, w)[Len(q) + 1] = w
    OBVIOUS
  <2>2. \A i \in 1 .. Len(q) + 1 : i \in 1 .. Len(q) \/ i = Len(q) + 1
    BY <2>1
  <2> HIDE DEF Request, Other
  <2> QED BY <2>1, <2>2 DEF Asked, AskedOnce
<1> QED BY <1>1, <1>2, <1>3, <1>4

\* The types of a step that leaves the console alone.
LEMMA MailType ==
  ASSUME TypeOK, console' = console,
         ipc' \in {"fill", "full", "empty", "check", "done"}, fb' \in Nat,
         outbox' \in Seq({Request, Other}), Len(outbox') <= MboxDepth,
         inbox' \in Seq({Request, Other}), Len(inbox') <= MboxDepth
  PROVE  TypeOK'
BY DEF TypeOK, console, uart, screen

\* The pointer framebuffer_init() computes is an address.
LEMMA GrantIsNat ==
  ASSUME NEW r \in Reply \cup {NoAnswer}
  PROVE  VirtualStart + (r.pointer % AliasSize) \in Nat
<1>1. r.pointer \in Nat
  BY DisplayAssumption DEF DisplayAssumption, NoAnswer
<1>2. r.pointer % AliasSize \in Nat
  BY <1>1, DisplayAssumption DEF DisplayAssumption
<1> QED BY <1>2, DisplayAssumption DEF DisplayAssumption

\* Steps that leave the console alone: those of framebuffer_init() and the GPU.
LEMMA MailStep ==
  ASSUME IInv, framebuffer_init \/ Gpu
  PROVE  IInv'
<1> /\ TypeOK /\ PrintsChars /\ RequestTracked /\ FbIsGranted /\ GlyphsOnGrid
  BY DEF IInv
<1> /\ outbox \in Seq({Request, Other}) /\ AskedOnce(outbox)
    /\ inbox \in Seq({Request, Other}) /\ AskedOnce(inbox)
    /\ Len(outbox) <= MboxDepth /\ Len(inbox) <= MboxDepth
    /\ MboxDepth \in Nat /\ fb \in Nat
  BY DisplayAssumption DEF DisplayAssumption, TypeOK, RequestTracked
<1>1. /\ Request # Other
      /\ Len(outbox) \in Nat /\ Len(inbox) \in Nat
  BY DEF Request, Other
<1>2. console' = console
  BY DEF framebuffer_init, FillBuffer, WriteMailbox, ReadMailbox, CheckAnswer, Gpu
<1>3. GlyphsOnGrid'
  BY <1>2 DEF GlyphsOnGrid, OnGrid, console, screen
<1>4. CASE FillBuffer
  <2>1. TypeOK'
    BY <1>2, <1>4, MailType DEF FillBuffer
  <2>2. PrintsChars'
    BY <1>2, <1>4 DEF FillBuffer, PrintsChars, console, uart, screen
  <2>3. RequestTracked'
    BY <1>1, <1>4, QueueFacts DEF FillBuffer, RequestTracked
  <2>4. FbIsGranted'
    BY <1>1, <1>4 DEF FillBuffer, RequestTracked, FbIsGranted
  <2> QED BY <1>3, <2>1, <2>2, <2>3, <2>4 DEF IInv
<1>5. CASE WriteMailbox
  <2>0. outbox' \in Seq({Request, Other}) /\ Len(outbox') <= MboxDepth
        /\ inbox' \in Seq({Request, Other}) /\ Len(inbox') <= MboxDepth
    BY <1>1, <1>5, QueueFacts DEF WriteMailbox
  <2>1. TypeOK'
    BY <1>2, <1>5, <2>0, MailType DEF WriteMailbox
  <2>2. PrintsChars'
    BY <1>2, <1>5 DEF WriteMailbox, PrintsChars, console, uart, screen
  <2>3. RequestTracked'
    BY <1>1, <1>5, QueueFacts DEF WriteMailbox, RequestTracked
  <2>4. FbIsGranted'
    BY <1>1, <1>5 DEF WriteMailbox, RequestTracked, FbIsGranted
  <2> QED BY <1>3, <2>1, <2>2, <2>3, <2>4 DEF IInv
<1>6. CASE ReadMailbox
  <2>0. outbox' \in Seq({Request, Other}) /\ Len(outbox') <= MboxDepth
        /\ inbox' \in Seq({Request, Other}) /\ Len(inbox') <= MboxDepth
    BY <1>1, <1>6, QueueFacts DEF ReadMailbox
  <2>1. TypeOK'
    BY <1>2, <1>6, <2>0, MailType DEF ReadMailbox
  <2>2. PrintsChars'
    BY <1>2, <1>6 DEF ReadMailbox, PrintsChars, console, uart, screen
  <2>3. RequestTracked'
    BY <1>1, <1>6, QueueFacts DEF ReadMailbox, IsReply, RequestTracked
  <2>4. FbIsGranted'
    BY <1>1, <1>6 DEF ReadMailbox, RequestTracked, FbIsGranted
  <2> QED BY <1>3, <2>1, <2>2, <2>3, <2>4 DEF IInv
<1>7. CASE CheckAnswer
  <2>0. fb' \in Nat
    BY <1>7, GrantIsNat DEF CheckAnswer, RequestTracked
  <2>1. TypeOK'
    BY <1>2, <1>7, <2>0, MailType DEF CheckAnswer
  <2>2. PrintsChars'
    BY <1>2, <1>7 DEF CheckAnswer, PrintsChars, console, uart, screen
  <2>3. RequestTracked'
    BY <1>1, <1>7, QueueFacts DEF CheckAnswer, RequestTracked
  <2>4. FbIsGranted'
    BY <1>1, <1>7 DEF CheckAnswer, RequestTracked, FbIsGranted
  <2> QED BY <1>3, <2>1, <2>2, <2>3, <2>4 DEF IInv
<1>8. CASE Gpu
  <2>0. outbox' \in Seq({Request, Other}) /\ Len(outbox') <= MboxDepth
        /\ inbox' \in Seq({Request, Other}) /\ Len(inbox') <= MboxDepth
    BY <1>1, <1>8, QueueFacts DEF Gpu
  <2>1. TypeOK'
    BY <1>2, <1>8, <2>0, MailType DEF Gpu, TypeOK
  <2>2. PrintsChars'
    BY <1>2, <1>8 DEF Gpu, PrintsChars, console, uart, screen
  <2>3. RequestTracked'
    BY <1>1, <1>8, QueueFacts DEF Gpu, RequestTracked
  <2>4. FbIsGranted'
    <3>1. ipc = "done" => Head(outbox) # Request
      BY <1>8, QueueFacts DEF Gpu, RequestTracked
    <3> QED BY <1>8, <3>1 DEF Gpu, FbIsGranted
  <2> QED BY <1>3, <2>1, <2>2, <2>3, <2>4 DEF IInv
<1> QED BY <1>4, <1>5, <1>6, <1>7, <1>8 DEF framebuffer_init

WriterPc == {"idle", "tx", "io", "x", "y", "put", "advance"}

\* A step of a writer moves it alone.
LEMMA Moves ==
  ASSUME TypeOK, NEW w \in Writer, NEW here, NEW there \in WriterPc,
         Move(w, here, there)
  PROVE  /\ wpc' \in [Writer -> WriterPc] /\ raced' \in BOOLEAN
         /\ wpc[w] = here /\ wpc'[w] = there
         /\ \A v \in Writer : v # w => wpc'[v] = wpc[v]
<1>1. raced' \in BOOLEAN
  BY Zenon DEF Move
<1> QED BY <1>1 DEF TypeOK, Move, WriterPc

LEMMA AtMoves ==
  ASSUME TypeOK, PrintsChars, NEW w \in Writer, NEW here, NEW there \in WriterPc,
         At(w, here, there), here # "idle"
  PROVE  /\ wpc' \in [Writer -> WriterPc] /\ raced' \in BOOLEAN
         /\ wpc[w] = here /\ wpc'[w] = there
         /\ \A v \in Writer : v # w => wpc'[v] = wpc[v]
         /\ wch' \in [Writer -> Char \cup {0}]
         /\ \A v \in Writer : wpc'[v] # "idle" => wch'[v] \in Char
<1>1. Move(w, here, there) /\ wch' = [wch EXCEPT ![w] = IF there = "idle" THEN 0 ELSE @]
  BY DEF At
<1>2. wch \in [Writer -> Char \cup {0}]
  BY DEF TypeOK
<1> QED BY <1>1, <1>2, Moves DEF PrintsChars

\* Where each step of putc() starts, and where it may end.
LEMMA WriterMoves ==
  ASSUME TypeOK, PrintsChars, NEW w \in Writer,
         uart_writeByteBlocks(w) \/ kernel_writeChar(w)
  PROVE  /\ mail' = mail /\ raced' \in BOOLEAN
         /\ wch' \in [Writer -> Char \cup {0}]
         /\ \A v \in Writer : wpc'[v] # "idle" => wch'[v] \in Char
         /\ wpc' \in [Writer -> WriterPc] /\ wpc[w] # "idle"
         /\ \A v \in Writer : v # w => wpc'[v] = wpc[v]
<1> USE AtMoves DEF WriterPc
<1>1. CASE UartWait(w) \/ UartWrite(w)
  <2>1. CASE UartWait(w)
    BY <2>1 DEF UartWait
  <2>2. CASE UartWrite(w)
    BY <2>2 DEF UartWrite
  <2> QED BY <1>1, <2>1, <2>2
<1>2. CASE WrapLine(w)
  BY <1>2 DEF WrapLine
<1>3. CASE StopAtPageEnd(w)
  BY <1>3 DEF StopAtPageEnd
<1>4. CASE PutNewline(w)
  BY <1>4 DEF PutNewline
<1>5. CASE PutReturn(w)
  BY <1>5 DEF PutReturn
<1>6. CASE DrawGlyph(w)
  BY <1>6 DEF DrawGlyph
<1>7. CASE Advance(w)
  BY <1>7 DEF Advance
<1> QED BY <1>1, <1>2, <1>3, <1>4, <1>5, <1>6, <1>7
        DEF uart_writeByteBlocks, kernel_writeChar

\* What a step of kernel_writeChar() does to the cursor and to the glyphs.
LEMMA CursorMoves ==
  ASSUME NEW w \in Writer, kernel_writeChar(w)
  PROVE  /\ cursorX' \in {cursorX, INITIAL_X, cursorX + SCALED_CHAR_WIDTH}
         /\ cursorY' \in {cursorY, cursorY + SCALED_CHAR_HEIGHT}
         /\ cells' \in {cells, cells \cup {<<cursorX, cursorY>>}}
         /\ returned' \in {returned, returned \cup {cursorY}}
         /\ uart' = uart
BY DEF kernel_writeChar, WrapLine, StopAtPageEnd, PutNewline, PutReturn,
       DrawGlyph, Advance

\* The types of a step of the console.
LEMMA ConsoleType ==
  ASSUME TypeOK, mail' = mail, wpc' \in [Writer -> WriterPc],
         wch' \in [Writer -> Char \cup {0}], UART_DEBUG' = UART_DEBUG,
         txFifo' \in Seq(Char), Len(txFifo') <= FifoDepth, lost' \in BOOLEAN,
         raced' \in BOOLEAN,
         cursorX' \in Nat, cursorY' \in Nat,
         cells' \subseteq Nat \X Nat, returned' \subseteq Nat
  PROVE  TypeOK'
BY DEF TypeOK, mail, WriterPc

\* What the mailbox leaves behind is not touched by the console.
LEMMA MailKept ==
  ASSUME RequestTracked, FbIsGranted, mail' = mail
  PROVE  RequestTracked' /\ FbIsGranted'
BY DEF RequestTracked, FbIsGranted, mail, Asked, AskedOnce

LEMMA ScreenStep ==
  ASSUME IInv, NEW w \in Writer, kernel_writeChar(w)
  PROVE  IInv'
<1> /\ TypeOK /\ PrintsChars /\ RequestTracked /\ FbIsGranted /\ GlyphsOnGrid
  BY DEF IInv
<1> /\ mail' = mail /\ wpc' \in [Writer -> WriterPc] /\ raced' \in BOOLEAN
    /\ wch' \in [Writer -> Char \cup {0}]
    /\ \A v \in Writer : v # w => wpc'[v] = wpc[v]
    /\ \A v \in Writer : wpc'[v] # "idle" => wch'[v] \in Char
    /\ wpc[w] # "idle" /\ uart' = uart
  BY WriterMoves, CursorMoves
<1>1. /\ INITIAL_X \in Nat /\ cursorX \in Nat /\ cursorY \in Nat
      /\ SCALED_CHAR_WIDTH \in Nat /\ SCALED_CHAR_HEIGHT \in Nat
      /\ INITIAL_Y \in Nat
  BY CellSize, DisplayAssumption DEF DisplayAssumption, TypeOK
<1>2. TypeOK'
  <2>1. cursorX' \in Nat /\ cursorY' \in Nat
    BY <1>1, CursorMoves
  <2>2. cells' \subseteq Nat \X Nat /\ returned' \subseteq Nat
    <3>1. cells \subseteq Nat \X Nat /\ returned \subseteq Nat
      BY DEF TypeOK
    <3>2. cells' = cells \/ cells' = cells \cup {<<cursorX, cursorY>>}
      BY CursorMoves
    <3>3. returned' = returned \/ returned' = returned \cup {cursorY}
      BY CursorMoves
    <3>4. <<cursorX, cursorY>> \in Nat \X Nat
      BY <1>1
    <3>5. cells' \subseteq Nat \X Nat
      BY <3>1, <3>2, <3>4, Zenon
    <3>6. returned' \subseteq Nat
      BY <1>1, <3>1, <3>3, Zenon
    <3> QED BY <3>5, <3>6
  <2> QED BY <2>1, <2>2, ConsoleType DEF TypeOK, uart
<1>3. PrintsChars'
  <2>1. ipc = "done" /\ ipc' = ipc
    <3>1. ipc = "done"
      BY Zenon DEF PrintsChars
    <3> QED BY <3>1 DEF mail
  <2> QED BY <2>1 DEF PrintsChars
<1>4. GlyphsOnGrid'
  <2>1. OnGrid(cursorX, cursorY) /\ \A c \in cells : OnGrid(c[1], c[2])
    BY DEF GlyphsOnGrid
  <2>2. INITIAL_X = INITIAL_X + 0 * SCALED_CHAR_WIDTH
    BY <1>1
  <2>3. OnGrid(cursorX', cursorY')
    <3>1. \E k \in Nat : cursorX + SCALED_CHAR_WIDTH = INITIAL_X + k * SCALED_CHAR_WIDTH
      <4>1. PICK k \in Nat : cursorX = INITIAL_X + k * SCALED_CHAR_WIDTH
        BY <2>1 DEF OnGrid
      <4>2. k + 1 \in Nat
              /\ cursorX + SCALED_CHAR_WIDTH = INITIAL_X + (k + 1) * SCALED_CHAR_WIDTH
        BY <1>1, <4>1, GridNext
      <4> QED BY <4>2
    <3>2. \E k \in Nat : cursorY + SCALED_CHAR_HEIGHT = INITIAL_Y + k * SCALED_CHAR_HEIGHT
      <4>1. PICK k \in Nat : cursorY = INITIAL_Y + k * SCALED_CHAR_HEIGHT
        BY <2>1 DEF OnGrid
      <4>2. k + 1 \in Nat
              /\ cursorY + SCALED_CHAR_HEIGHT = INITIAL_Y + (k + 1) * SCALED_CHAR_HEIGHT
        BY <1>1, <4>1, GridNext
      <4> QED BY <4>2
    <3>3. \E k \in Nat : cursorX' = INITIAL_X + k * SCALED_CHAR_WIDTH
      <4>1. cursorX' \in {cursorX, INITIAL_X, cursorX + SCALED_CHAR_WIDTH}
        BY CursorMoves
      <4>2. 0 \in Nat
        OBVIOUS
      <4> QED BY <2>1, <2>2, <3>1, <4>1, <4>2, Zenon DEF OnGrid
    <3>4. \E k \in Nat : cursorY' = INITIAL_Y + k * SCALED_CHAR_HEIGHT
      BY <2>1, <3>2, CursorMoves DEF OnGrid
    <3> QED BY <3>3, <3>4 DEF OnGrid
  <2>4. \A c \in cells' : OnGrid(c[1], c[2])
    BY <2>1, CursorMoves
  <2> QED BY <2>3, <2>4 DEF GlyphsOnGrid, OnGrid
<1> QED BY <1>2, <1>3, <1>4, MailKept DEF IInv

LEMMA UartStep ==
  ASSUME IInv, UartLine \/ (\E w \in Writer : uart_writeByteBlocks(w))
  PROVE  IInv'
<1> /\ TypeOK /\ PrintsChars /\ RequestTracked /\ FbIsGranted /\ GlyphsOnGrid
  BY DEF IInv
<1>1. /\ txFifo \in Seq(Char) /\ Len(txFifo) \in Nat /\ Len(txFifo) <= FifoDepth
      /\ lost \in BOOLEAN /\ FifoDepth \in Nat
  BY DisplayAssumption DEF DisplayAssumption, TypeOK
<1>2. CASE UartLine
  <2>1. Tail(txFifo) \in Seq(Char) /\ Len(Tail(txFifo)) = Len(txFifo) - 1
    <3>1. txFifo # <<>>
      BY <1>2 DEF UartLine
    <3> QED BY <1>1, <3>1
  <2>2. TypeOK'
    <3>1. /\ mail' = mail /\ screen' = screen /\ wpc' = wpc /\ wch' = wch
          /\ UART_DEBUG' = UART_DEBUG /\ lost' = lost /\ raced' = raced
      BY <1>2, Zenon DEF UartLine
    <3>2. txFifo' \in Seq(Char) /\ Len(txFifo') <= FifoDepth
      BY <1>1, <1>2, <2>1 DEF UartLine
    <3> QED BY <3>1, <3>2, ConsoleType DEF TypeOK, screen, WriterPc
  <2>3. PrintsChars' /\ GlyphsOnGrid'
    BY <1>1, <1>2, <2>1 DEF UartLine, PrintsChars, GlyphsOnGrid, OnGrid, mail, screen
  <2> QED BY <1>2, <2>2, <2>3, MailKept DEF IInv, UartLine
<1>3. ASSUME NEW w \in Writer, uart_writeByteBlocks(w)
      PROVE  IInv'
  <2>1. /\ mail' = mail /\ wpc' \in [Writer -> WriterPc] /\ raced' \in BOOLEAN
        /\ wch' \in [Writer -> Char \cup {0}]
        /\ \A v \in Writer : wpc'[v] # "idle" => wch'[v] \in Char
        /\ wpc[w] # "idle"
    BY <1>3, WriterMoves
  <2>2. screen' = screen /\ UART_DEBUG' = UART_DEBUG
    BY <1>3 DEF uart_writeByteBlocks, UartWait, UartWrite, uart
  <2>3. txFifo' \in Seq(Char) /\ Len(txFifo') <= FifoDepth /\ lost' \in BOOLEAN
    <3>1. CASE UartWait(w)
      BY <1>1, <3>1 DEF UartWait, uart
    <3>2. CASE UartWrite(w)
      <4>1. wch[w] \in Char
        BY <2>1 DEF PrintsChars
      <4>2. lost' \in BOOLEAN
        BY <3>2, Zenon DEF UartWrite
      <4> QED BY <1>1, <3>2, <4>1, <4>2 DEF UartWrite
    <3> QED BY <1>3, <3>1, <3>2 DEF uart_writeByteBlocks
  <2>4. TypeOK'
    BY <2>1, <2>2, <2>3, ConsoleType DEF TypeOK, screen
  <2>5. PrintsChars'
    <3>1. ipc = "done"
      BY <2>1 DEF PrintsChars
    <3> QED BY <2>1, <2>2, <3>1 DEF PrintsChars, mail, screen
  <2>6. GlyphsOnGrid'
    BY <2>2 DEF GlyphsOnGrid, OnGrid, screen
  <2> QED BY <2>1, <2>4, <2>5, <2>6, MailKept DEF IInv
<1> QED BY <1>2, <1>3

LEMMA PutcStep ==
  ASSUME IInv, NEW w \in Writer, NEW ch \in Char, putc(w, ch)
  PROVE  IInv'
<1> /\ TypeOK /\ PrintsChars /\ RequestTracked /\ FbIsGranted /\ GlyphsOnGrid
  BY DEF IInv
<1>1. /\ wpc' \in [Writer -> WriterPc] /\ raced' \in BOOLEAN
      /\ wch' \in [Writer -> Char \cup {0}]
      /\ wch'[w] = ch
      /\ \A v \in Writer : v # w => wpc'[v] = wpc[v] /\ wch'[v] = wch[v]
  BY Moves DEF putc, TypeOK, WriterPc
<1>2. TypeOK'
  BY <1>1, ConsoleType DEF putc, TypeOK, uart, screen
<1>3. PrintsChars' /\ GlyphsOnGrid'
  BY <1>1 DEF putc, PrintsChars, GlyphsOnGrid, OnGrid, mail, uart, screen
<1> QED BY <1>2, <1>3, MailKept DEF IInv, putc

LEMMA NextIInv == IInv /\ [Next]_vars => IInv'
<1> SUFFICES ASSUME IInv, [Next]_vars PROVE IInv'
  OBVIOUS
<1>1. CASE Next
  BY <1>1, MailStep, ScreenStep, UartStep, PutcStep DEF Next
<1>2. CASE UNCHANGED vars
  BY <1>2 DEF IInv, TypeOK, PrintsChars, RequestTracked, FbIsGranted, GlyphsOnGrid,
     OnGrid, Asked, AskedOnce, vars, mail, console, uart, screen
<1> QED BY <1>1, <1>2

\* The invariant holds for any number of writers.
THEOREM Invariance == Spec => []IInv
BY InitIInv, NextIInv, PTL DEF Spec

\* Types, and the queues never hold more than the hardware's: mailbox_call()
\* and uart_writeByteBlocks() wait for room.
THEOREM TypeCorrect == Spec => []TypeOK
<1>1. IInv => TypeOK
  BY DEF IInv
<1> QED BY <1>1, Invariance, PTL

\* Whatever else is in the mailbox, framebuffer_init() takes the pointer from
\* the answer to its own request, and takes none that was not granted.
THEOREM BufferGranted == Spec => []FbIsGranted
<1>1. IInv => FbIsGranted
  BY DEF IInv
<1> QED BY <1>1, Invariance, PTL

\* On every screen and with any number of writers, kernel_writeChar() draws
\* glyphs in the cells of one grid, so that no two overlap in part.
THEOREM GlyphsApart == Spec => []GlyphsDisjoint
<1>1. IInv => GlyphsDisjoint
  <2> SUFFICES ASSUME IInv, NEW a \in cells, NEW b \in cells
               PROVE \/ a = b
                     \/ a[1] + SCALED_CHAR_WIDTH <= b[1]
                     \/ b[1] + SCALED_CHAR_WIDTH <= a[1]
                     \/ a[2] + SCALED_CHAR_HEIGHT <= b[2]
                     \/ b[2] + SCALED_CHAR_HEIGHT <= a[2]
    BY DEF GlyphsDisjoint
  <2>1. OnGrid(a[1], a[2]) /\ OnGrid(b[1], b[2])
    BY DEF IInv, GlyphsOnGrid
  <2>2. /\ INITIAL_X \in Nat /\ INITIAL_Y \in Nat
        /\ SCALED_CHAR_WIDTH \in Nat /\ SCALED_CHAR_HEIGHT \in Nat
    BY CellSize, DisplayAssumption DEF DisplayAssumption
  <2>3. a[1] = b[1] \/ a[1] + SCALED_CHAR_WIDTH <= b[1]
                    \/ b[1] + SCALED_CHAR_WIDTH <= a[1]
    <3>1. PICK j \in Nat : a[1] = INITIAL_X + j * SCALED_CHAR_WIDTH
      BY <2>1 DEF OnGrid
    <3>2. PICK k \in Nat : b[1] = INITIAL_X + k * SCALED_CHAR_WIDTH
      BY <2>1 DEF OnGrid
    <3> QED BY <2>2, <3>1, <3>2, GridApart
  <2>4. a[2] = b[2] \/ a[2] + SCALED_CHAR_HEIGHT <= b[2]
                    \/ b[2] + SCALED_CHAR_HEIGHT <= a[2]
    <3>1. PICK j \in Nat : a[2] = INITIAL_Y + j * SCALED_CHAR_HEIGHT
      BY <2>1 DEF OnGrid
    <3>2. PICK k \in Nat : b[2] = INITIAL_Y + k * SCALED_CHAR_HEIGHT
      BY <2>1 DEF OnGrid
    <3> QED BY <2>2, <3>1, <3>2, GridApart
  <2>5. a[1] = b[1] /\ a[2] = b[2] => a = b
    <3>1. cells \subseteq Nat \X Nat
      BY Zenon DEF IInv, TypeOK
    <3> QED BY <3>1
  <2> QED BY <2>3, <2>4, <2>5
<1> QED BY <1>1, Invariance, PTL

-----------------------------------------------------------------------------
(***************************************************************************)
(* What a writer may rely on before there was a race.                      *)
(***************************************************************************)
LEMMA InitAlone == Init => AloneInv
<1> SUFFICES ASSUME Init PROVE AloneInv
  OBVIOUS
<1>1. Alone /\ RoomStays
  <2>1. ~lost
    BY Zenon DEF Init
  <2> QED BY <2>1 DEF Init, Alone, RoomStays, Window
<1>2. CursorFits /\ PixelsInside /\ CursorBehind
  BY DEF Init, CursorFits, PixelsInside, CursorBehind
<1> QED BY <1>1, <1>2 DEF AloneInv

\* A glyph drawn where it fits lies on the page, and its bytes in the font.
LEMMA GlyphFits ==
  ASSUME NEW ch \in Char, NEW x \in Nat, NEW y \in Nat,
         x + SCALED_CHAR_WIDTH <= SCREEN_WIDTH - 1,
         y + SCALED_CHAR_HEIGHT <= SCREEN_HEIGHT - 1,
         NEW p \in drawChar(ch, x, y)
  PROVE  /\ p.byte < FONT_NUMGLYPHS * FONT_HEIGHT
         /\ p.x \in 0 .. SCREEN_WIDTH - 1 /\ p.y \in 0 .. SCREEN_HEIGHT - 1
<1>1. /\ SCALED_CHAR_WIDTH \in Nat /\ SCALED_CHAR_HEIGHT \in Nat
      /\ SCREEN_WIDTH \in Nat /\ SCREEN_HEIGHT \in Nat
      /\ FONT_HEIGHT \in Nat /\ FONT_NUMGLYPHS \in Nat \ {0}
      /\ SHELL_ZOOM_LEVEL \in Nat \ {0}
  BY CellSize, DisplayAssumption DEF DisplayAssumption
<1>2. PICK i \in 1 .. SCALED_CHAR_HEIGHT, j \in 0 .. SCALED_CHAR_WIDTH - 1 :
        p = [byte |-> Glyph(ch) * FONT_HEIGHT + (i - 1) \div SHELL_ZOOM_LEVEL,
             x |-> x + j, y |-> y + i]
  BY DEF drawChar
<1>3. (i - 1) \div SHELL_ZOOM_LEVEL \in 0 .. FONT_HEIGHT - 1
  <2>1. i - 1 \in Nat /\ i - 1 < FONT_HEIGHT * SHELL_ZOOM_LEVEL
    BY <1>1, <1>2 DEF SCALED_CHAR_HEIGHT
  <2> QED BY <1>1, <2>1, FontLine
<1>4. Glyph(ch) \in Nat /\ Glyph(ch) < FONT_NUMGLYPHS
  BY <1>1, DisplayAssumption DEF DisplayAssumption, Glyph
<1>5. Glyph(ch) * FONT_HEIGHT + (i - 1) \div SHELL_ZOOM_LEVEL
        < FONT_NUMGLYPHS * FONT_HEIGHT
  <2> HIDE DEF Glyph
  <2> QED BY <1>1, <1>3, <1>4, FontByte
<1> QED BY <1>1, <1>2, <1>5

\* A writer that moves without a race is the only one in a window.
LEMMA MovesAlone ==
  ASSUME TypeOK, Alone, NEW w \in Writer, NEW here, NEW there \in WriterPc,
         Move(w, here, there), ~raced'
  PROVE  /\ Alone' /\ ~raced
         /\ \A v \in Writer : v # w /\ {here, there} \cap Window # {} => wpc[v] \notin Window
<1>1. ~raced /\ ~\E v \in Writer \ {w} : {wpc[v], there} \subseteq Window
  BY Zenon DEF Move
<1>2. /\ wpc[w] = here /\ wpc'[w] = there
      /\ \A v \in Writer : v # w => wpc'[v] = wpc[v]
  BY Moves
<1>3. there \in Window => \A v \in Writer : v # w => wpc[v] \notin Window
  BY <1>1
<1>4. here \in Window => \A v \in Writer : v # w => wpc[v] \notin Window
  BY <1>2 DEF Alone
<1>5. Alone'
  BY <1>2, <1>3 DEF Alone
<1> QED BY <1>1, <1>3, <1>4, <1>5

LEMMA NextAlone ==
  ASSUME IInv, AloneInv, [Next]_vars, ~raced'
  PROVE  AloneInv'
<1> /\ TypeOK /\ PrintsChars /\ Alone /\ RoomStays /\ CursorFits /\ PixelsInside
    /\ CursorBehind
  BY DEF IInv, AloneInv
<1> /\ SCALED_CHAR_WIDTH \in Nat \ {0} /\ SCALED_CHAR_HEIGHT \in Nat \ {0}
    /\ SCREEN_WIDTH \in Nat /\ SCREEN_HEIGHT \in Nat
    /\ INITIAL_X \in Nat /\ INITIAL_X + SCALED_CHAR_WIDTH <= SCREEN_WIDTH - 1
    /\ FifoDepth \in Nat \ {0}
  BY CellSize, DisplayAssumption DEF DisplayAssumption
<1> /\ cursorX \in Nat /\ cursorY \in Nat /\ cells \subseteq Nat \X Nat
    /\ txFifo \in Seq(Char) /\ wpc \in [Writer -> WriterPc]
  BY DEF TypeOK, WriterPc
<1>1. CASE framebuffer_init \/ Gpu \/ UNCHANGED vars
  <2>1. console' = console
    BY <1>1 DEF framebuffer_init, FillBuffer, WriteMailbox, ReadMailbox,
       CheckAnswer, Gpu, vars
  <2> QED BY <2>1 DEF AloneInv, Alone, RoomStays, CursorFits, PixelsInside, CursorBehind,
          console, uart, screen
<1>2. CASE UartLine
  <2>1. RoomStays'
    BY <1>2 DEF UartLine, RoomStays
  <2> QED BY <1>2, <2>1 DEF UartLine, AloneInv, Alone, CursorFits, PixelsInside,
          CursorBehind, screen
\* A writer w goes from here to there, and nobody else is in a window if w is.
<1>3. ASSUME NEW w \in Writer, NEW here, NEW there \in WriterPc, Move(w, here, there)
      PROVE  /\ Alone' /\ wpc[w] = here /\ wpc'[w] = there
             /\ \A v \in Writer : v # w => wpc'[v] = wpc[v]
             /\ here \in Window \/ there \in Window =>
                  \A v \in Writer : v # w => wpc[v] \notin {"io", "y", "put", "advance"}
  BY <1>3, Moves, MovesAlone DEF Window
<1>4. ASSUME NEW w \in Writer, uart_writeByteBlocks(w) PROVE AloneInv'
  <2>1. CASE UartWait(w)
    <3>1. Move(w, "tx", IF uart_txReady THEN "io" ELSE "tx")
      BY <2>1 DEF UartWait, At
    <3>2. /\ Alone' /\ wpc[w] = "tx" /\ wpc'[w] = IF uart_txReady THEN "io" ELSE "tx"
          /\ \A v \in Writer : v # w => wpc'[v] = wpc[v]
      BY <1>3, <3>1 DEF WriterPc
    <3> QED BY <2>1, <3>2 DEF UartWait, uart_txReady, AloneInv, RoomStays,
            CursorFits, PixelsInside, CursorBehind, uart, screen
  <2>2. CASE UartWrite(w)
    <3>1. Move(w, "io", "idle")
      BY <2>2 DEF UartWrite, At
    <3>2. /\ Alone' /\ wpc[w] = "io" /\ wpc'[w] = "idle"
          /\ \A v \in Writer : v # w => wpc'[v] = wpc[v] /\ wpc[v] # "io"
      BY <1>3, <3>1 DEF WriterPc, Window
    <3>3. RoomStays'
      <4>1. Len(txFifo) \in Nat /\ Len(txFifo) < FifoDepth /\ ~lost
        BY <3>2 DEF RoomStays
      <4>2. ~lost'
        <5>1. ~(Len(txFifo) >= FifoDepth)
          BY <4>1
        <5> QED BY <2>2, <4>1, <5>1, Zenon DEF UartWrite
      <4>3. \A v \in Writer : wpc'[v] # "io"
        BY <3>2
      <4> QED BY <4>2, <4>3 DEF RoomStays
    <3> QED BY <2>2, <3>2, <3>3 DEF UartWrite, AloneInv, CursorFits,
            PixelsInside, CursorBehind, screen
  <2> QED BY <1>4, <2>1, <2>2 DEF uart_writeByteBlocks
<1>5. ASSUME NEW w \in Writer, NEW ch \in Char, putc(w, ch) PROVE AloneInv'
  <2>1. Move(w, "idle", IF UART_DEBUG THEN "tx" ELSE "x")
    BY <1>5 DEF putc
  <2>2. /\ Alone' /\ wpc[w] = "idle" /\ wpc'[w] \in {"tx", "x"}
        /\ \A v \in Writer : v # w => wpc'[v] = wpc[v]
    BY <1>3, <2>1 DEF WriterPc
  <2> QED BY <1>5, <2>2 DEF putc, AloneInv, RoomStays, CursorFits, PixelsInside,
          CursorBehind, uart, screen
<1>6. ASSUME NEW w \in Writer, kernel_writeChar(w) PROVE AloneInv'
  <2>1. \E here \in WriterPc, there \in WriterPc :
          (here \in Window \/ there \in Window) /\ Move(w, here, there)
    BY <1>6 DEF kernel_writeChar, WrapLine, StopAtPageEnd, PutNewline, PutReturn,
       DrawGlyph, Advance, At, WriterPc, Window
  <2>2. /\ Alone' /\ \A v \in Writer : v # w => wpc'[v] = wpc[v]
        /\ \A v \in Writer : v # w => wpc[v] \notin {"io", "y", "put", "advance"}
    BY <1>3, <2>1
  <2>3. uart' = uart
    BY <1>6, CursorMoves
  <2>4. ASSUME wpc'[w] # "io" PROVE RoomStays'
    BY <2>2, <2>3, <2>4 DEF RoomStays, uart
  <2>5. CASE WrapLine(w)
    <3>1. wpc[w] = "x" /\ wpc'[w] = "y"
      BY <2>5 DEF WrapLine, At, Move
    <3>2. RoomStays' /\ PixelsInside'
      BY <2>4, <2>5, <3>1 DEF WrapLine, PixelsInside
    <3>3. CursorFits'
      BY <2>2, <2>5, <3>1 DEF WrapLine, LineFull, CursorFits
    <3>4. CursorBehind'
      BY <2>2, <2>5, <3>1 DEF WrapLine, CursorBehind
    <3> QED BY <2>2, <3>2, <3>3, <3>4 DEF AloneInv
  <2>6. CASE StopAtPageEnd(w)
    <3>1. wpc[w] = "y" /\ wpc'[w] = IF PageFull THEN "idle" ELSE "put"
      BY <2>6 DEF StopAtPageEnd, At, Move
    <3> QED BY <2>2, <2>4, <2>6, <3>1 DEF StopAtPageEnd, PageFull, AloneInv,
            CursorFits, PixelsInside, CursorBehind
  <2>7. CASE PutNewline(w)
    <3>1. wpc[w] = "put" /\ wpc'[w] = "idle"
      BY <2>7 DEF PutNewline, At, Move
    <3> QED BY <2>2, <2>4, <2>7, <3>1 DEF PutNewline, AloneInv,
            CursorFits, PixelsInside, CursorBehind
  <2>8. CASE PutReturn(w)
    <3>1. wpc[w] = "put" /\ wpc'[w] = "idle"
      BY <2>8 DEF PutReturn, At, Move
    <3> QED BY <2>2, <2>4, <2>8, <3>1 DEF PutReturn, AloneInv,
            CursorFits, PixelsInside, CursorBehind
  <2>9. CASE DrawGlyph(w)
    <3>1. wpc[w] = "put" /\ wpc'[w] = "advance"
      BY <2>9 DEF DrawGlyph, At, Move
    <3>2. RoomStays' /\ CursorFits'
      BY <2>2, <2>4, <2>9, <3>1 DEF DrawGlyph, CursorFits
    <3>3. PixelsInside'
      <4>1. wch[w] \in Char
        BY <3>1 DEF PrintsChars
      <4>2. draw' = drawChar(wch[w], cursorX, cursorY)
        BY <2>9 DEF DrawGlyph
      <4> QED BY <3>1, <4>1, <4>2, GlyphFits DEF PixelsInside, CursorFits
    <3>4. CursorBehind'
      <4>1. cells' = cells \cup {<<cursorX, cursorY>>}
            /\ cursorX' = cursorX /\ cursorY' = cursorY /\ returned' = returned
        BY <2>9 DEF DrawGlyph
      <4>2. ~\E v \in Writer : wpc[v] = "advance"
        BY <2>2, <3>1
      <4> QED BY <3>1, <4>1, <4>2 DEF CursorBehind
    <3> QED BY <2>2, <3>2, <3>3, <3>4 DEF AloneInv
  <2>10. CASE Advance(w)
    <3>1. wpc[w] = "advance" /\ wpc'[w] = "idle"
      BY <2>10 DEF Advance, At, Move
    <3>2. CursorBehind'
      BY <2>2, <2>10, <3>1 DEF Advance, CursorBehind
    <3> QED BY <2>2, <2>4, <2>10, <3>1, <3>2 DEF Advance, AloneInv,
            CursorFits, PixelsInside
  <2> QED BY <1>6, <2>5, <2>6, <2>7, <2>8, <2>9, <2>10 DEF kernel_writeChar
<1> QED BY <1>1, <1>2, <1>4, <1>5, <1>6 DEF Next

\* A race is not forgotten.
LEMMA RacedStays ==
  ASSUME [Next]_vars, raced
  PROVE  raced'
<1>1. CASE framebuffer_init \/ Gpu \/ UartLine \/ UNCHANGED vars
  <2>1. console' = console \/ UartLine
    BY <1>1 DEF framebuffer_init, FillBuffer, WriteMailbox, ReadMailbox, CheckAnswer,
       Gpu, vars
  <2>2. raced' = raced
    BY <2>1, Zenon DEF UartLine, console
  <2> QED BY <2>2, Zenon
<1>2. ASSUME NEW w \in Writer, NEW here, NEW there, Move(w, here, there) PROVE raced'
  BY <1>2, Zenon DEF Move
<1>3. ASSUME NEW w \in Writer,
             \/ uart_writeByteBlocks(w) \/ kernel_writeChar(w)
             \/ \E ch \in Char : putc(w, ch)
      PROVE  \E here, there : Move(w, here, there)
  <2>1. CASE uart_writeByteBlocks(w)
    BY <2>1, Zenon DEF uart_writeByteBlocks, UartWait, UartWrite, At
  <2>2. CASE kernel_writeChar(w)
    BY <2>2, Zenon DEF kernel_writeChar, WrapLine, StopAtPageEnd, PutNewline, PutReturn,
       DrawGlyph, Advance, At
  <2>3. CASE \E ch \in Char : putc(w, ch)
    BY <2>3, Zenon DEF putc
  <2> QED BY <1>3, <2>1, <2>2, <2>3
<1> QED BY <1>1, <1>2, <1>3 DEF Next

\* Together with the invariant that holds after a race too.
LEMMA AloneInvariance == Spec => [](IInv /\ (raced \/ AloneInv))
<1>1. Init => IInv /\ (raced \/ AloneInv)
  BY InitIInv, InitAlone
<1>2. IInv /\ (raced \/ AloneInv) /\ [Next]_vars => IInv' /\ (raced' \/ AloneInv')
  BY NextIInv, NextAlone, RacedStays
<1> QED BY <1>1, <1>2, PTL DEF Spec

\* uart_writeByteBlocks() loses no character of any number of tasks before two
\* of them were between the test and the store at once, whatever the depth of the
\* queue and the speed of the line.
THEOREM UartLosesNothing == Spec => []UartKeepsAll
<1>1. raced \/ AloneInv => UartKeepsAll
  BY DEF AloneInv, RoomStays, UartKeepsAll
<1> QED BY <1>1, AloneInvariance, PTL

\* If the GPU grants no less than was asked for, every pixel that
\* framebuffer_drawChar() stores for any of the tasks, before a race, is in the
\* granted buffer and every byte it reads is in the font, for every screen, font
\* and zoom level.
THEOREM GlyphsStayOnPage ==
  ASSUME GrantsScreen
  PROVE  Spec => []GlyphsOnPage
<1>1. IInv /\ (raced \/ AloneInv) => GlyphsOnPage
  <2> SUFFICES ASSUME IInv, AloneInv, fb # 0, NEW p \in draw
               PROVE  /\ p.byte < FONT_NUMGLYPHS * FONT_HEIGHT
                      /\ p.x < answer.width /\ p.y < answer.height
    BY DEF GlyphsOnPage
  <2>1. /\ p.byte < FONT_NUMGLYPHS * FONT_HEIGHT
        /\ p.x \in 0 .. SCREEN_WIDTH - 1 /\ p.y \in 0 .. SCREEN_HEIGHT - 1
    BY DEF AloneInv, PixelsInside
  <2>2. /\ answer \in Reply
        /\ answer.width >= SCREEN_WIDTH /\ answer.height >= SCREEN_HEIGHT
    BY DEF IInv, RequestTracked, FbIsGranted, GrantsScreen, NoAnswer
  <2>3. /\ answer.width \in Nat /\ answer.height \in Nat
        /\ SCREEN_WIDTH \in Nat /\ SCREEN_HEIGHT \in Nat
    BY <2>2, DisplayAssumption DEF DisplayAssumption
  <2> QED BY <2>1, <2>2, <2>3
<1> QED BY <1>1, AloneInvariance, PTL

\* Before a race kernel_writeChar() draws over no glyph of any task but in a row
\* that '\r' went back to.
THEOREM TextStays == Spec => NoOverwrite
<1>1. IInv /\ (raced \/ AloneInv) /\ [Next]_vars =>
        [\A w \in Writer :
           wpc[w] = "put" /\ wpc'[w] = "advance" /\ cursorY \notin returned /\ ~raced =>
             <<cursorX, cursorY>> \notin cells]_vars
  <2> SUFFICES ASSUME IInv, AloneInv, NEW w \in Writer, wpc[w] = "put",
                      cursorY \notin returned, <<cursorX, cursorY>> \in cells
               PROVE  FALSE
    OBVIOUS
  <2>1. cursorX \in Nat
    BY DEF IInv, TypeOK
  <2>2. \E v \in Writer : wpc[v] = "advance"
    BY <2>1 DEF AloneInv, CursorBehind
  <2> QED BY <2>2 DEF AloneInv, Alone, Window
<1> QED BY <1>1, AloneInvariance, PTL DEF Spec, NoOverwrite
=============================================================================
