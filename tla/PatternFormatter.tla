-------------------------- MODULE PatternFormatter --------------------------
(***************************************************************************)
(* A sink and its details::patternFormatter (include/pattern_formatter*.h, *)
(* logger.h, logmsg.h, common.h): the pattern is compiled, and messages    *)
(* become lines, one field per formatter and step.  What each flag prints  *)
(* is taken from the message, but for two: %e reads the clock when the     *)
(* line is formatted, and %d a text that the thread keeps from one message *)
(* to the next.                                                            *)
(*                                                                         *)
(* One thread formats, as one thread at a time does (SyncLogging); it may  *)
(* be any of the pool's, so messages come in any order of their times.  A  *)
(* message is a record [name, level, sec, ms, thread, loc, payload], loc   *)
(* being << >> for one without a location.                                 *)
(***************************************************************************)
EXTENDS PatternCompiler, LineFormatter

CONSTANTS
  LevelText,    \* toStr, a function of the levels
  TimeText,     \* localtime_r and strftime, a function of the seconds
  TimeArray,    \* sizeof(cachedTime)
  UnknownText,  \* what an unknown flag prints
  CustomText,   \* what the handler of a custom flag prints
  Elapsed,      \* milliseconds since the program started
  LoggerName,   \* m_name
  Stamps,       \* what the members of a logmsg are initialized with:
                \* [sec, ms, thread]
  Calls,        \* arguments of Logger::log: [level, said, loc]
  Messages,     \* messages that a sink is given by others
  Colors,       \* what m_colorMap holds; << >> for a fileSink
  MaxOps        \* bound: messages and changes of the formatter

(* The item lists whose patterns are ever compiled.                        *)
ItemLists ==
  {c.items : c \in Constructions} \cup NewItemLists
    \cup {<<[text |-> DefaultPattern]>>}

LoggedMessage ==
  [name : Seq(Char), level : DOMAIN LevelText, sec : DOMAIN TimeText,
   ms : Nat, thread : Nat, loc : Seq(Char), payload : Seq(Char)]

ASSUME FormatterAssumption ==
  /\ \A c \in Calls : Len(c.said) <= InlineCapacity
  /\ DOMAIN TimeText \subseteq Nat \ {0}
  /\ \A items \in ItemLists : WellFormed(items, Char)

ASSUME CharacterAssumption ==
  /\ {Space, ".", "%"} \cup DOMAIN Digit \subseteq Char
  /\ {UnknownText, CustomText, LoggerName, Reset} \cup Colors \subseteq Seq(Char)
  /\ LevelText \in [DOMAIN LevelText -> Seq(Char)]
  /\ TimeText \in [DOMAIN TimeText -> Seq(Char)]
  /\ Calls \subseteq [level : DOMAIN LevelText, said : Seq(Char), loc : Seq(Char)]
  /\ Stamps \subseteq [sec : DOMAIN TimeText, ms : Nat, thread : Nat]
  /\ Messages \subseteq LoggedMessage
  /\ TimeArray \in Nat /\ Elapsed \subseteq Nat

VARIABLES
  msg,          \* the message in format()
  said,         \* history: what the caller of log had to say
  cachedTime,   \* thread_local lastTime and cachedTime of timeFormatter,
                \* one pair for each padder it is instantiated with
  ops           \* messages and changes so far

messageVars == <<msg, said>>
vars == <<compilerVars, lineVars, messageVars, cachedTime, ops>>

NoMessage == << >>

Epoch == 0

Padders == {"scopedPadder", "nullScopedPadder"}

Init ==
  /\ CompilerInit
  /\ LineInit
  /\ msg = NoMessage
  /\ said = << >>
  /\ cachedTime = [p \in Padders |-> [last |-> Epoch, text |-> << >>]]
  /\ ops = 0

-----------------------------------------------------------------------------
(* Numbers as text.                                                        *)

DigitOf(n) == CHOOSE c \in DOMAIN Digit : Digit[c] = n

(* std::to_string.                                                         *)
Decimal[n \in Nat] ==
  IF n < 10 THEN <<DigitOf(n)>>
            ELSE Append(Decimal[n \div 10], DigitOf(n % 10))

(* Mutant: the last power of ten in each test counts as below it.          *)
CountUpTo(t) == 1 + Cardinality({p \in {10, 100, 1000} : t > p})

(* The four returns in a round of countDigit.                              *)
CountBelow(t) == 1 + Cardinality({p \in {10, 100, 1000} : t >= p})

CountDigit[t \in Nat] ==
  IF t < 10000 THEN CountBelow(t) ELSE CountDigit[t \div 10000] + 4

(* A point and three digits.                                               *)
Milliseconds(ms) ==
  LET s == Decimal[ms % 1000]
  IN  <<".">> \o [i \in 1 .. 3 - Len(s) |-> DigitOf(0)] \o s

-----------------------------------------------------------------------------
(* timeFormatter                                                           *)

(* Mutant: the text is made anew only for a later second.                  *)
RefreshedWhenLater(cached, sec) ==
  IF sec > cached.last THEN [last |-> sec, text |-> TimeText[sec]] ELSE cached

Refreshed(cached, sec) ==
  IF sec # cached.last THEN [last |-> sec, text |-> TimeText[sec]] ELSE cached

IsTime(fmt) == ~IsText(fmt) /\ ~fmt.custom /\ fmt.flag = "d"

PadderOf(fmt) == IF fmt.pad.enabled THEN "scopedPadder" ELSE "nullScopedPadder"

CacheAfter(fmt) ==
  IF IsTime(fmt)
  THEN [cachedTime EXCEPT ![PadderOf(fmt)] = Refreshed(@, msg.sec)]
  ELSE cachedTime

-----------------------------------------------------------------------------
(* The formatters                                                          *)

(* What message m has for a flag, with e milliseconds elapsed.             *)
OwnText(flag, m, e) ==
  CASE flag = "n" -> m.name
    [] flag = "l" -> LevelText[m.level]
    [] flag = "t" -> Decimal[m.thread]
    [] flag = "v" -> m.payload
    [] flag = "m" -> Milliseconds(m.ms)
    [] flag = "e" -> Decimal[e]
    [] flag = "d" -> TimeText[m.sec]
    [] flag = "s" -> m.loc
    [] flag \in {"^", "$"} -> << >>
    [] OTHER -> UnknownText

(* What the formatter declares to the padder.                              *)
Declared(flag, m, e) ==
  CASE flag = "t" -> CountDigit[m.thread]
    [] flag = "e" -> CountDigit[e]
    [] flag = "m" -> 4
    [] flag = "d" -> TimeArray
    [] OTHER -> Len(OwnText(flag, m, e))

(* Color marks, and a location that is not known, leave dest as it is.     *)
LeavesLine(flag, m) == flag \in {"^", "$"} \/ (flag = "s" /\ m.loc = << >>)

Fixed(text, pad) ==
  [flag |-> "text", text |-> text, own |-> text, declared |-> Len(text),
   pad |-> pad]

(* The field a formatter makes of the message, cache being the times after *)
(* it looked at them.                                                      *)
FieldOf(fmt, cache, e) ==
  IF IsText(fmt) THEN Fixed(fmt.text, NoPad)
  ELSE IF fmt.custom THEN Fixed(CustomText, fmt.pad)
  ELSE LET own == OwnText(fmt.flag, msg, e)
       IN  [flag |-> fmt.flag,
            text |-> IF IsTime(fmt) THEN cache[PadderOf(fmt)].text ELSE own,
            own |-> own,
            declared |-> Declared(fmt.flag, msg, e),
            pad |-> IF LeavesLine(fmt.flag, msg) THEN NoPad ELSE fmt.pad]

-----------------------------------------------------------------------------
(* Logger::log makes a message                                             *)

(* std::format_to(buf.data(), ...): the text gets into the array, and the  *)
(* size stays what it was.                                                 *)
WrittenThrough(b, text) == [b EXCEPT !.inline = Copied(b.inline, 0, text)]

LoggerMessage(call, stamp) ==
  [name |-> LoggerName, level |-> call.level, loc |-> call.loc,
   sec |-> stamp.sec, ms |-> stamp.ms, thread |-> stamp.thread,
   payload |-> View(WrittenThrough(EmptyBuffer, call.said))]

-----------------------------------------------------------------------------
(* sinkIt of a fileSink or an ansicolorSink                                *)

BeginFormat(m, words) ==
  /\ pc = "idle" /\ ops < MaxOps
  /\ ops' = ops + 1
  /\ \E c \in Colors : BeginLine(c)
  /\ msg' = m
  /\ said' = words
  /\ pc' = "format"
  /\ UNCHANGED <<objectVars, formatters, loopVars, historyVars, cachedTime>>

LogCall == \E call \in Calls, stamp \in Stamps :
             BeginFormat(LoggerMessage(call, stamp), call.said)

OtherMessage == \E m \in Messages : BeginFormat(m, << >>)

(* A round of the loop in patternFormatter::format.                        *)
FormatField ==
  /\ pc = "format" /\ Len(fields) < Len(formatters)
  /\ LET fmt == formatters[Len(fields) + 1]
     IN  /\ cachedTime' = CacheAfter(fmt)
         /\ \E e \in Elapsed : AppendField(FieldOf(fmt, cachedTime', e))
  /\ UNCHANGED <<compilerVars, messageVars, ops>>

(* The line goes to the file.                                              *)
WriteLine ==
  /\ pc = "format" /\ Len(fields) = Len(formatters)
  /\ ResetColor
  /\ pc' = "written"
  /\ UNCHANGED <<objectVars, formatters, loopVars, historyVars, messageVars,
                 cachedTime, ops>>

Return ==
  /\ pc = "written"
  /\ EndLine
  /\ msg' = NoMessage
  /\ said' = << >>
  /\ pc' = "idle"
  /\ UNCHANGED <<objectVars, formatters, loopVars, historyVars, cachedTime, ops>>

-----------------------------------------------------------------------------
Compiling == CompileStep /\ UNCHANGED <<lineVars, messageVars, cachedTime, ops>>

Change ==
  /\ ops < MaxOps
  /\ \/ Clone
     \/ \E flag \in Customs : AddFlag(flag)
     \/ \E items \in NewItemLists : SetPattern(items) \/ NewFormatter(items)
  /\ ops' = ops + 1
  /\ UNCHANGED <<lineVars, messageVars, cachedTime>>

Over == pc = "idle" /\ ops = MaxOps /\ UNCHANGED vars

Next ==
  \/ Compiling \/ Change
  \/ LogCall \/ OtherMessage \/ FormatField \/ WriteLine \/ Return
  \/ Over

Spec == Init /\ [][Next]_vars

-----------------------------------------------------------------------------
(* What pattern_formatter-inl.h:287 says of %v, that it is the message     *)
(* text: what the caller of log said.                                      *)
MessageShown ==
  \A i \in DOMAIN fields :
    said # << >> /\ fields[i].flag = "v" => fields[i].text = said
=============================================================================
