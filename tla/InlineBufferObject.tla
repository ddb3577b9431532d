------------------------- MODULE InlineBufferObject -------------------------
(***************************************************************************)
(* One details::inlineBuffer and the smallStreamBuffer an ostream writes   *)
(* to it through (include/membuf.h).                                       *)
(***************************************************************************)
EXTENDS InlineBuffer

CONSTANTS
  Data,       \* what is appended
  EOF,
  MaxLength   \* bound: the length of the text

ASSUME ObjectAssumption ==
  Data \subseteq Seq(Char) /\ EOF \notin Char /\ MaxLength \in Nat

VARIABLES
  buf,
  erased      \* history: argument of the last call if it was erase, or -1

inlineVars == <<buf, erased>>

InlineInit == buf = EmptyBuffer /\ erased = -1

HasRoom(n) == buf.size + n <= MaxLength

AppendCall(data) ==
  /\ HasRoom(Len(data))
  /\ buf' = BufAppend(buf, data)
  /\ erased' = -1

(* smallStreamBuffer::xsputn: nothing for a size that is not positive.     *)
Xsputn(data) == data # << >> /\ AppendCall(data)

(* smallStreamBuffer::overflow: EOF is answered and not written.           *)
Overflow(c) ==
  IF c = EOF THEN buf' = buf /\ erased' = -1 ELSE AppendCall(<<c>>)

(* erase, as it is called: to cut text off.                                *)
EraseCall(k) ==
  /\ k <= buf.size
  /\ buf' = BufErase(buf, k)
  /\ erased' = k

InlineNext ==
  \/ \E data \in Data : AppendCall(data) \/ Xsputn(data)
  \/ \E c \in {EOF} \cup {d[1] : d \in {x \in Data : Len(x) = 1}} : Overflow(c)
  \/ \E k \in 0 .. MaxLength : EraseCall(k)

InlineSpec == InlineInit /\ [][InlineNext]_inlineVars

InlineTypeOK == BufferOK(buf) /\ erased \in Int

(* The text is what was appended and not cut off, across the move to the   *)
(* vector and, when that was cut to nothing, back to the array.            *)
Text == INSTANCE TextBuffer WITH text <- View(buf), Limit <- InlineCapacity

ImplementsTextBuffer == Text!Spec

(* What OPTIMIZATION_PLAN.md:74 asks of erase: the character it writes     *)
(* last is inside the container it writes to.                              *)
EraseStaysInside ==
  erased \in 0 .. InlineCapacity - 1 => erased < ContainerSize(buf)
=============================================================================
