-------------------------- MODULE PatternCompiler --------------------------
(***************************************************************************)
(* details::patternFormatter (include/pattern_formatter.h,                 *)
(* pattern_formatter-inl.h) as an object: the pattern it was constructed   *)
(* with, the handlers for custom flags, and the list of formatters that    *)
(* compilePattern makes of a pattern, one round of its loop per step.      *)
(*                                                                         *)
(* A pattern is a sequence of characters; Digit gives the value of those   *)
(* that are digits.  A formatter is a record [text] for characters to      *)
(* print as they are, or [flag, custom, pad].  The patterns come from      *)
(* lists of items, what the one who wrote the pattern had in mind: an item *)
(* is [text], or [side, digits, mark, flag], each a sequence of at most    *)
(* one character but for the digits; the flag of the last may be missing.  *)
(***************************************************************************)
EXTENDS Integers, Sequences, FiniteSetsExt, SequencesExt

CONSTANTS
  Digit,       \* a function from the digits to their values
  MaxWidth,    \* max_width
  SizeMod,     \* 2^64 for size_t
  DefaultPattern,
  Constructions,  \* arguments of the constructor: [items, customs]
  NewItemLists,   \* setPattern is called with patterns of these
  Customs         \* flags that add_flag is called with

VARIABLES
  m_pattern,   \* the pattern of the constructor
  handlers,    \* m_customHandlers: the flags that have one
  formatters,  \* m_formatters
  pc,          \* "compile" inside compilePattern, "idle" outside
  pattern,     \* its argument
  it,          \* position in it
  chars,       \* user_chars, << >> for none
  ownItems,    \* history: the items of m_pattern
  meant,       \* history: the items of the pattern last compiled, and
               \* the handlers there were
  origin,      \* history: the formatters this object was cloned from
  current      \* history: m_formatters was made of m_pattern and handlers

objectVars == <<m_pattern, handlers>>
loopVars == <<pattern, it, chars>>
historyVars == <<ownItems, meant, origin, current>>
compilerVars == <<objectVars, formatters, pc, loopVars, historyVars>>

NoOrigin == << >>

NoPad == [enabled |-> FALSE, width |-> 0, side |-> "left", truncate |-> FALSE]

Sides == [c \in {"<", "^", ">"} |->
            CASE c = "<" -> "left" [] c = "^" -> "center" [] c = ">" -> "right"]

-----------------------------------------------------------------------------
(* What a list of items is written as, and what it means.                  *)

IsText(x) == "text" \in DOMAIN x

Written(item) ==
  IF IsText(item) THEN item.text
  ELSE <<"%">> \o item.side \o item.digits \o item.mark \o item.flag

PatternOf(items) == FoldLeft(LAMBDA p, item : p \o Written(item), << >>, items)

Value(digits) == FoldLeft(LAMBDA v, c : v * 10 + Digit[c], 0, digits)

PadMeant(item) ==
  IF item.digits = << >> THEN NoPad
  ELSE [enabled |-> TRUE,
        width |-> Min({MaxWidth, Value(item.digits)}),
        side |-> IF item.side = << >> THEN "center" ELSE Sides[item.side[1]],
        truncate |-> item.mark # << >>]

ItemMeant(item, customs) ==
  IF IsText(item) THEN [text |-> item.text]
  ELSE [flag |-> item.flag[1], custom |-> item.flag[1] \in customs,
        pad |-> PadMeant(item)]

LacksFlag(item) == ~IsText(item) /\ item.flag = << >>

Meaning(items, customs) ==
  [i \in {k \in DOMAIN items : ~LacksFlag(items[k])} |->
     ItemMeant(items[i], customs)]

(* The lists whose pattern can be read in one way only: texts are neither  *)
(* empty nor next to each other, no number overflows, and what an item     *)
(* leaves out is not taken from the character behind.                      *)
TextOK(x) == \A i \in DOMAIN x.text : x.text[i] # "%"

FlagOK(x) ==
  /\ x.side = << >> \/ \E c \in DOMAIN Sides : x.side = <<c>>
  /\ Value(x.digits) < SizeMod
  /\ x.mark = << >> \/ (x.mark = <<"!">> /\ x.digits # << >>)
  /\ Len(x.flag) <= 1
  /\ \A i \in DOMAIN x.flag :
       /\ x.mark = << >> => x.flag[i] \notin DOMAIN Digit
       /\ x.digits # << >> /\ x.mark = << >> => x.flag[i] # "!"
       /\ x.digits = << >> /\ x.side = << >> => x.flag[i] \notin DOMAIN Sides

WellFormed(items, Character) ==
  /\ items \in Seq([text : Seq(Character) \ {<< >>}]
                   \cup [side : Seq(Character), digits : Seq(DOMAIN Digit),
                         mark : Seq(Character), flag : Seq(Character)])
  /\ \A i \in DOMAIN items :
       /\ IF IsText(items[i]) THEN TextOK(items[i]) ELSE FlagOK(items[i])
       /\ i < Len(items) => /\ ~LacksFlag(items[i])
                            /\ IsText(items[i]) => ~IsText(items[i + 1])

ASSUME CompilerAssumption ==
  /\ MaxWidth \in Nat /\ SizeMod \in Nat /\ MaxWidth < SizeMod
  /\ Digit \in [DOMAIN Digit -> 0 .. 9]
  /\ \A n \in 0 .. 9 : \E c \in DOMAIN Digit : Digit[c] = n
  /\ ({"%", "!"} \cup DOMAIN Sides) \cap DOMAIN Digit = {}

-----------------------------------------------------------------------------
(* handlePadspec                                                           *)

IsDigit(c) == c \in DOMAIN Digit

End(p) == Len(p) + 1

HasSide(p, i) == i < End(p) /\ p[i] \in DOMAIN Sides

(* Where the digits begin, and the first position from i on without one.   *)
AfterSide(p, i) == IF HasSide(p, i) THEN i + 1 ELSE i

AfterDigits(p, i) ==
  Min({j \in i .. End(p) : j = End(p) \/ ~IsDigit(p[j])})

Number(digits) ==
  FoldLeft(LAMBDA width, c : (width * 10 + Digit[c]) % SizeMod, 0, digits)

(* Mutant: a width of any size is accepted.                                *)
AnyWidth(n) == n

Capped(n) == IF n < MaxWidth THEN n ELSE MaxWidth

AfterMark(p, i) == IF i < End(p) /\ p[i] = "!" THEN i + 1 ELSE i

(* The padding read from position i on, and the position behind it.        *)
PadSpec(p, i) ==
  LET first == AfterSide(p, i)
      last == AfterDigits(p, first)
  IN  IF last = first
      THEN [pad |-> NoPad, next |-> first]
      ELSE [pad |-> [enabled |-> TRUE,
                     width |-> Capped(Number(SubSeq(p, first, last - 1))),
                     side |-> IF HasSide(p, i) THEN Sides[p[i]] ELSE "center",
                     truncate |-> last < End(p) /\ p[last] = "!"],
            next |-> AfterMark(p, last)]

-----------------------------------------------------------------------------
(* handleFlag: a handler for the flag goes first.                          *)

IsCustom(flag) == flag \in handlers

FlagFormatter(flag, pad) ==
  [flag |-> flag, custom |-> IsCustom(flag), pad |-> pad]

TextFormatter(text) == [text |-> text]

WithChars == IF chars = << >> THEN formatters
                              ELSE Append(formatters, TextFormatter(chars))

-----------------------------------------------------------------------------
(* compilePattern                                                          *)

BeginCompile(p) ==
  /\ pc' = "compile"
  /\ pattern' = p
  /\ it' = 1
  /\ chars' = << >>
  /\ formatters' = << >>

InLoop == pc = "compile" /\ it < End(pattern)

CompileChar ==
  /\ InLoop /\ pattern[it] # "%"
  /\ chars' = Append(chars, pattern[it])
  /\ it' = it + 1
  /\ UNCHANGED <<objectVars, formatters, pc, pattern, historyVars>>

(* A % and what belongs to it.  At the end of the pattern the loop stops.  *)
CompileFlag ==
  /\ InLoop /\ pattern[it] = "%"
  /\ LET spec == PadSpec(pattern, it + 1)
     IN  IF spec.next < End(pattern)
         THEN /\ formatters' =
                   Append(WithChars, FlagFormatter(pattern[spec.next], spec.pad))
              /\ it' = spec.next + 1
         ELSE /\ formatters' = WithChars
              /\ it' = End(pattern)
  /\ chars' = << >>
  /\ UNCHANGED <<objectVars, pc, pattern, historyVars>>

CompileEnd ==
  /\ pc = "compile" /\ it = End(pattern)
  /\ formatters' = WithChars
  /\ chars' = << >>
  /\ pc' = "idle"
  /\ UNCHANGED <<objectVars, pattern, it, historyVars>>

-----------------------------------------------------------------------------
(* The operations of the object                                            *)

Named(p) == IF p = << >> THEN DefaultPattern ELSE p

MeantBy(items, customs) ==
  [items |-> IF items = << >> THEN <<[text |-> DefaultPattern]>> ELSE items,
   customs |-> customs]

CompilerInit ==
  /\ \E c \in Constructions :
       /\ m_pattern = Named(PatternOf(c.items))
       /\ handlers = c.customs
       /\ meant = MeantBy(c.items, c.customs)
  /\ ownItems = meant.items
  /\ pattern = m_pattern
  /\ formatters = << >>
  /\ pc = "compile"
  /\ it = 1
  /\ chars = << >>
  /\ origin = NoOrigin
  /\ current = TRUE

(* basicSink::setPattern: a formatter of its own, without handlers, takes  *)
(* the place of the old one.                                               *)
NewFormatter(items) ==
  /\ pc = "idle"
  /\ m_pattern' = Named(PatternOf(items))
  /\ handlers' = {}
  /\ BeginCompile(m_pattern')
  /\ meant' = MeantBy(items, {})
  /\ ownItems' = meant'.items
  /\ origin' = NoOrigin
  /\ current' = TRUE

(* add_flag: the handler is for the next compilation.                      *)
AddFlag(flag) ==
  /\ pc = "idle" /\ flag \notin handlers
  /\ handlers' = handlers \cup {flag}
  /\ current' = FALSE
  /\ UNCHANGED <<m_pattern, formatters, pc, loopVars, ownItems, meant, origin>>

(* setPattern: m_pattern stays.                                            *)
SetPattern(items) ==
  /\ pc = "idle"
  /\ BeginCompile(PatternOf(items))
  /\ meant' = [items |-> items, customs |-> handlers]
  /\ current' = (PatternOf(items) = m_pattern)
  /\ origin' = NoOrigin
  /\ UNCHANGED <<objectVars, ownItems>>

(* Mutant: the clone gets no handlers.                                     *)
ClonedNone == {}

ClonedHandlers == handlers

(* clone(); from here on the object is the clone, which compiles the       *)
(* pattern of the constructor with the handlers there are now.             *)
Clone ==
  /\ pc = "idle" /\ origin = NoOrigin
  /\ origin' = <<[formatters |-> formatters, current |-> current]>>
  /\ BeginCompile(m_pattern)
  /\ handlers' = ClonedHandlers
  /\ meant' = [items |-> ownItems, customs |-> handlers]
  /\ current' = TRUE
  /\ UNCHANGED <<m_pattern, ownItems>>

CompileStep == CompileChar \/ CompileFlag \/ CompileEnd

-----------------------------------------------------------------------------
(* The formatters are those the pattern means: every text and flag in its  *)
(* place, with its padding, by the handler where there is one, and nothing *)
(* of a last item that lacks its flag.  Those of a clone are what the      *)
(* pattern of the constructor means with today's handlers, whatever        *)
(* setPattern and add_flag did to the original.                            *)
CompiledAsMeant ==
  pc # "compile" => formatters = Meaning(meant.items, meant.customs)

(* A clone formats as its original does, when the original was last        *)
(* compiled from its own pattern and handlers.                             *)
CloneIsAlike ==
  pc # "compile" /\ origin # NoOrigin /\ origin[1].current /\ current
    => formatters = origin[1].formatters
=============================================================================
