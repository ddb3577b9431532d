--------------------------- MODULE LineFormatter ---------------------------
(***************************************************************************)
(* The line a sink makes of one message (include/pattern_formatter-inl.h,  *)
(* sink/file_sink-inl.h, sink/ansicolor_sink-inl.h): an inlineBuffer that  *)
(* starts with a color or with nothing, and to which each formatter        *)
(* appends one field, through scopedPadder when the field is padded.       *)
(*                                                                         *)
(* A field is a record: its text, the length its formatter declares to the *)
(* padder, which for most is the length of the text, and the padding       *)
(* [enabled, width, side, truncate].  What is at stake is also there: the  *)
(* flag, and the text the message has for it (own).                        *)
(***************************************************************************)
EXTENDS InlineBuffer

CONSTANTS
  Space,
  Reset         \* what turns the color off

VARIABLES
  buf,          \* buffer of sinkIt, dest of format
  color,        \* history: what buf started with
  fields,       \* history: the fields that were appended
  ends          \* history: size of buf at first, and after each field

lineVars == <<buf, color, fields, ends>>

LineInit ==
  /\ buf = EmptyBuffer
  /\ color = << >>
  /\ fields = << >>
  /\ ends = <<0>>

-----------------------------------------------------------------------------
(* scopedPadder                                                            *)

Spaces(n) == [k \in 1 .. n |-> Space]

PadIt(b, n) == BufAppend(b, Spaces(n))

Remaining(f) == f.pad.width - f.declared

(* Spaces the constructor puts in front of the text.                       *)
PaddedBefore(f) ==
  IF Remaining(f) <= 0 THEN 0
  ELSE CASE f.pad.side = "left" -> Remaining(f)
         [] f.pad.side = "center" -> (Remaining(f) + 1) \div 2
         [] f.pad.side = "right" -> 0

(* What it leaves in m_remainedPadding for the destructor.                 *)
LeftOver(f) ==
  IF Remaining(f) <= 0 THEN Remaining(f)
  ELSE CASE f.pad.side = "left" -> 0
         [] f.pad.side = "center" -> PaddedBefore(f) + (Remaining(f) % 2)
         [] f.pad.side = "right" -> Remaining(f)

(* new_size, to which the destructor cuts; start is m_truncate.            *)
Kept(f, start) == f.pad.width + start

PadEnd(b, f, start) ==
  IF LeftOver(f) >= 0 THEN PadIt(b, LeftOver(f))
  ELSE IF f.pad.truncate THEN BufErase(b, Kept(f, start)) ELSE b

(* What a formatter does with its text, with either padder.                *)
Formatted(b, f) ==
  IF f.pad.enabled
  THEN PadEnd(BufAppend(PadIt(b, PaddedBefore(f)), f.text), f, b.size)
  ELSE BufAppend(b, f.text)

-----------------------------------------------------------------------------
(* The buffer is a local of sinkIt: fresh for each message.                *)

BeginLine(c) ==
  /\ buf' = BufAppend(EmptyBuffer, c)
  /\ color' = c
  /\ fields' = << >>
  /\ ends' = <<Len(c)>>

AppendField(f) ==
  /\ buf' = Formatted(buf, f)
  /\ fields' = Append(fields, f)
  /\ ends' = Append(ends, buf'.size)
  /\ UNCHANGED color

(* The end of a colored line.                                              *)
ResetColor ==
  /\ buf' = IF color = << >> THEN buf ELSE BufAppend(buf, Reset)
  /\ UNCHANGED <<color, fields, ends>>

EndLine ==
  /\ buf' = EmptyBuffer
  /\ color' = << >>
  /\ fields' = << >>
  /\ ends' = <<0>>

-----------------------------------------------------------------------------
WidthOf(i) == ends[i + 1] - ends[i]

(* The part of the line that field i became.                               *)
Shown(i) == SubSeq(View(buf), ends[i] + 1, ends[i + 1])

(* Cutting works below InlineCapacity only: beyond it the erase of the     *)
(* buffer does nothing.                                                    *)
CutIsIgnored(i) ==
  /\ fields[i].pad.enabled /\ fields[i].pad.truncate
  /\ Remaining(fields[i]) < 0
  /\ ends[i] + fields[i].pad.width >= InlineCapacity

(* An odd number of spaces around a centered text is rounded up twice.     *)
OddCentre(f) ==
  /\ f.pad.enabled /\ f.pad.side = "center"
  /\ Remaining(f) > 0 /\ (Remaining(f) % 2) = 1

(* A formatter that declares more than it appends, as the time formatter   *)
(* does, has its text "cut" to more than there is of it.                   *)
CutGrows(f) ==
  /\ f.pad.enabled /\ f.pad.truncate
  /\ Len(f.text) < f.pad.width /\ f.pad.width < f.declared

(* What a field should take: at least its width, and at most that when it  *)
(* is cut.                                                                 *)
Wanted(f) ==
  IF ~f.pad.enabled THEN Len(f.own)
  ELSE IF Len(f.own) <= f.pad.width \/ f.pad.truncate THEN f.pad.width
       ELSE Len(f.own)

(* Every field but a time takes the width its pattern asks for, wherever   *)
(* in the line it is and wherever the buffer keeps the line, but for two   *)
(* cases: a cut that is ignored, and a center that gets two too many.      *)
FieldWidths ==
  \A i \in DOMAIN fields : fields[i].flag # "d" =>
    WidthOf(i) =
      IF CutIsIgnored(i) THEN Len(fields[i].own)
      ELSE Wanted(fields[i]) + IF OddCentre(fields[i]) THEN 2 ELSE 0

(* Field i shows the message's own text for its flag, or a beginning of    *)
(* it, with nothing but spaces around it, on the side the pattern names.   *)
ShowsOwnText(i) ==
  LET f == fields[i]
  IN  \E l, r \in 0 .. WidthOf(i) : \E n \in 0 .. Len(f.own) :
        /\ l + n + r = WidthOf(i)
        /\ Shown(i) = Spaces(l) \o SubSeq(f.own, 1, n) \o Spaces(r)
        /\ n < Len(f.own) => f.pad.truncate /\ l = 0 /\ r = 0
        /\ f.pad.side = "left" => r = 0
        /\ f.pad.side = "right" => l = 0
        /\ f.pad.side = "center" => r - l \in {0, 1}

(* The line is the color of its message, then the fields, each with what   *)
(* is the message's own, and none of them changed by a later one: not the  *)
(* time of the message before it, and nothing cut or moved by the padding  *)
(* of another field.                                                       *)
LineShowsMessage ==
  /\ SubSeq(View(buf), 1, ends[1]) = color
  /\ \A i \in DOMAIN fields : CutGrows(fields[i]) \/ ShowsOwnText(i)

(* What pattern_formatter.h:29 says of the truncate flag, that it cuts     *)
(* what exceeds the width: a field that is not padded gets no longer.      *)
TruncationCuts ==
  \A i \in DOMAIN fields :
    Remaining(fields[i]) <= 0 => WidthOf(i) <= Len(fields[i].own)

(* What pattern_formatter-inl.h:36 says of centered padding: the odd space *)
(* is made up for so that the whole has the width asked for.               *)
CentredWidths ==
  \A i \in DOMAIN fields :
    LET f == fields[i]
    IN  f.pad.enabled /\ f.pad.side = "center" /\ f.flag # "d"
        /\ Len(f.own) <= f.pad.width => WidthOf(i) = f.pad.width
=============================================================================
