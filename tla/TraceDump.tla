------------------------------ MODULE TraceDump -------------------------------
(***************************************************************************)
(* my_trace and my_trace_dump: libcurl hands over the bytes it sends or     *)
(* receives, and the component writes them to the message window in lines   *)
(* of at most Width bytes; CR LF ends a line and is not shown.              *)
(*                                                                         *)
(* i and c are size_t.  The body of the loop sets i back by Width and goes  *)
(* below zero where the line is short; the increment of the outer loop      *)
(* brings it back.  All arithmetic is therefore modulo SizeT.               *)
(***************************************************************************)
EXTENDS Integers, SequencesExt

CONSTANTS
  TraceByte,  \* the bytes libcurl hands over
  Width,      \* 0x80 in the code
  MaxSize,    \* the longest message (bound)
  SizeT       \* the number of values of size_t

ASSUME TraceBytesAreBytes == TraceByte \subseteq 0 .. 255
ASSUME WidthAndSize ==
  /\ Width \in Nat \ {0} /\ MaxSize \in Nat
  /\ SizeT \in Nat /\ MaxSize + Width + 2 < SizeT

VARIABLES
  dump,   \* where my_trace_dump is: idle, line (the outer loop), char, done
  ptr,    \* the bytes, size of them
  i, c,   \* the counters of the two loops
  msg,    \* the line being made
  lines   \* the lines shown by DoMsgLine after the heading

dumpVars == <<dump, ptr, i, c, msg, lines>>

CR == 13
LF == 10
Dot == 46

Size == Len(ptr)

\* What the code computes with + and - on size_t
Wrap(n) == n % SizeT

\* A control character is shown as a dot.
Shown(b) == IF b >= 32 THEN b ELSE Dot

\* CR LF at offset k, with both bytes inside the message
CrLfAt(k) ==
  /\ Wrap(k + 1) < Size
  /\ ptr[Wrap(k) + 1] = CR /\ ptr[Wrap(k + 1) + 1] = LF

-----------------------------------------------------------------------------
DumpInit ==
  /\ dump = "idle" /\ ptr = <<>>
  /\ i = 0 /\ c = 0 /\ msg = <<>> /\ lines = <<>>

\* The debug callback; libcurl waits for it to return.
my_trace(bytes) ==
  /\ dump = "idle"
  /\ dump' = "line" /\ ptr' = bytes
  /\ i' = 0 /\ c' = 0 /\ msg' = <<>> /\ lines' = <<>>

\* The head of the outer loop
NextLine ==
  /\ dump = "line" /\ i < Size
  /\ dump' = "char" /\ c' = 0 /\ msg' = <<>>
  /\ UNCHANGED <<ptr, i, lines>>

\* DoMsgLine after the inner loop, which left i at atBreak; then i += width
ShowLine(line, atBreak) ==
  /\ lines' = Append(lines, line)
  /\ i' = Wrap(atBreak + Width)
  /\ dump' = "line" /\ msg' = line
  /\ UNCHANGED <<ptr, c>>

\* The condition of the inner loop fails: the line is full or the bytes end.
LineFull ==
  /\ dump = "char" /\ ~(c < Width /\ Wrap(i + c) < Size)
  /\ ShowLine(msg, i)

\* Mutant: CR LF is found and neither counter moves past it.
BreakBeforeStays ==
  /\ dump = "char" /\ c < Width /\ Wrap(i + c) < Size
  /\ CrLfAt(i + c)
  /\ UNCHANGED dumpVars

\* CR LF is next: skip both and break.
BreakBefore ==
  /\ dump = "char" /\ c < Width /\ Wrap(i + c) < Size
  /\ CrLfAt(i + c)
  /\ ShowLine(msg, Wrap(i + c + 2 - Width))

\* Mutant: the second test counts one byte too few.
BreakAfterShort ==
  /\ dump = "char" /\ c < Width /\ Wrap(i + c) < Size
  /\ ~CrLfAt(i + c) /\ CrLfAt(i + c + 1)
  /\ ShowLine(Append(msg, Shown(ptr[Wrap(i + c) + 1])), Wrap(i + c + 2 - Width))

\* Mutant: the counter goes below zero instead of around.
BreakAfterSigned ==
  /\ dump = "char" /\ c < Width /\ Wrap(i + c) < Size
  /\ ~CrLfAt(i + c) /\ CrLfAt(i + c + 1)
  /\ lines' = Append(lines, Append(msg, Shown(ptr[Wrap(i + c) + 1])))
  /\ i' = i + c + 3 - 2 * Width
  /\ dump' = "line" /\ msg' = msg
  /\ UNCHANGED <<ptr, c>>

\* The byte is shown and CR LF follows it: skip both and break.
BreakAfter ==
  /\ dump = "char" /\ c < Width /\ Wrap(i + c) < Size
  /\ ~CrLfAt(i + c) /\ CrLfAt(i + c + 1)
  /\ ShowLine(Append(msg, Shown(ptr[Wrap(i + c) + 1])), Wrap(i + c + 3 - Width))

\* The byte is shown and the line goes on.
ShowByte ==
  /\ dump = "char" /\ c < Width /\ Wrap(i + c) < Size
  /\ ~CrLfAt(i + c) /\ ~CrLfAt(i + c + 1)
  /\ msg' = Append(msg, Shown(ptr[Wrap(i + c) + 1]))
  /\ c' = c + 1
  /\ UNCHANGED <<dump, ptr, i, lines>>

\* The end of the outer loop; the callback returns to libcurl.
DumpReturn ==
  /\ dump = "line" /\ ~(i < Size)
  /\ dump' = "done"
  /\ UNCHANGED <<ptr, i, c, msg, lines>>

\* libcurl goes on with the transfer.
TraceNext ==
  /\ dump = "done"
  /\ dump' = "idle" /\ ptr' = <<>>
  /\ i' = 0 /\ c' = 0 /\ msg' = <<>> /\ lines' = <<>>

DumpStep ==
  NextLine \/ LineFull \/ BreakBefore \/ BreakAfter \/ ShowByte \/ DumpReturn

DumpNext ==
  \/ \E n \in 0 .. MaxSize : \E bytes \in [1 .. n -> TraceByte] : my_trace(bytes)
  \/ DumpStep
  \/ TraceNext

-----------------------------------------------------------------------------
(* Properties *)

DumpTypeOK ==
  /\ dump \in {"idle", "line", "char", "done"}
  /\ ptr \in Seq(TraceByte)
  /\ i \in 0 .. SizeT - 1 /\ c \in 0 .. Width
  /\ msg \in Seq(32 .. 255)
  /\ \A k \in DOMAIN lines : lines[k] \in Seq(32 .. 255)

(* The dump by its definition: CR LF cuts the message into pieces, a piece   *)
(* is cut into lines of Width bytes, and an empty piece is an empty line     *)
(* unless the message ends with it.  Positions count from 1.                 *)

LineBreaks == {k \in 1 .. Size - 1 : ptr[k] = CR /\ ptr[k + 1] = LF}
PieceStart(k) == Max({1} \cup {b + 2 : b \in {b \in LineBreaks : b + 2 <= k}})
PieceEnd(k) == Min({Size} \cup {b - 1 : b \in {b \in LineBreaks : b >= k}})
LineStarts ==
  {k \in 1 .. Size : /\ \A b \in LineBreaks : k # b + 1
                     /\ k \in LineBreaks => k = PieceStart(k)
                     /\ (k - PieceStart(k)) % Width = 0}

DumpReference ==
  [n \in 1 .. Cardinality(LineStarts) |->
     LET k == CHOOSE k \in LineStarts :
                Cardinality({l \in LineStarts : l <= k}) = n
         end == Min({PieceEnd(k), k + Width - 1}) IN
     [j \in 1 .. end - k + 1 |-> Shown(ptr[k + j - 1])]]

\* When the dump returns, the window shows the message exactly as defined: no
\* byte is lost or shown twice where a line is full, where CR LF straddles
\* the end of a line, or where the counter went below zero.
DumpAsDefined == dump = "done" => lines = DumpReference

\* The dump always returns, whatever libcurl hands over: the counter that
\* wraps around never sends the outer loop back.
DumpReturns == dump = "line" ~> dump = "done"

=============================================================================
