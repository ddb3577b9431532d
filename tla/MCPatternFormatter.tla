------------------------- MODULE MCPatternFormatter -------------------------
(* Patterns of up to two items with a last one that may lack its flag:     *)
(* widths below, at and above the greatest, and with a leading zero;       *)
(* every flag with every width, side and mark, alone and before or after a *)
(* field that moves it along the array of the buffer, which is shorter     *)
(* than some lines.  Two messages of different seconds come in either      *)
(* order.                                                                  *)
EXTENDS PatternFormatter

Digits == [d \in {"0", "1", "2", "3", "4", "5", "6", "7", "8", "9"} |->
             CHOOSE n \in 0 .. 9 : ToString(n) = d]

Blanks == <<" ", " ">>

Opt(c) == {<< >>, <<c>>}

Flag(side, digits, mark, flag) ==
  [side |-> side, digits |-> digits, mark |-> mark, flag |-> flag]

Widths == {<<"0">>, <<"1">>, <<"3">>, <<"4">>, <<"6">>, <<"0", "6">>, <<"6", "6">>,
           <<"1", "0", "0", "0">>}

Flags == {"n", "l", "t", "v", "m", "e", "d", "s", "u"}

Bare(f) == Flag(<< >>, << >>, << >>, <<f>>)

Text(t) == [text |-> t]

(* Alone: every spelling of a padding.                                     *)
Padded(flags, sides, widths) ==
  {Flag(s, d, m, <<f>>) :
     s \in sides, d \in widths, m \in Opt("!"), f \in flags}

Sided == {<<"<">>, <<"^">>, <<">">>}

Unpadded == {Flag(s, << >>, << >>, <<f>>) : s \in Opt("<"), f \in Flags \cup {"%", "$"}}
              \cup {Flag(<<"^">>, << >>, << >>, <<"^">>)}

Cut == {Flag(s, d, << >>, << >>) : s \in Opt("^"), d \in {<< >>, <<"1">>}}
         \cup {Flag(<< >>, <<"6">>, <<"!">>, << >>)}

Singles ==
  Padded(Flags, {<< >>} \cup Sided, Widths)
  \cup Padded({"^"}, Sided, {<<"1">>}) \cup Unpadded \cup Cut
  \cup {Text(<<"a">>), Text(<<"6", "!">>)}

(* Next to another: fewer of them.                                         *)
Neighbors == {Text(<<"6", "!">>), Bare("d"), Bare("s"), Flag(<<"<">>, << >>, << >>, <<"$">>)}

Paired == Padded({"n", "t", "v", "d"}, Sided, {<<"1">>, <<"3">>, <<"6">>})

Lists ==
  {<< >>} \cup {<<x>> : x \in Singles}
  \cup (Paired \X Neighbors) \cup (Neighbors \X (Paired \cup Cut))

Constructed ==
  {[items |-> l, customs |-> {}] : l \in Lists}
  \cup {[items |-> <<x>>, customs |-> {"n"}] :
          x \in {i \in Singles : ~IsText(i) /\ i.flag = <<"n">>}}

Few == {<<Text(<<"a">>), Bare("d")>>,
        <<Flag(<<">">>, <<"6">>, <<"!">>, <<"n">>)>>,
        << >>}

-----------------------------------------------------------------------------
Names == ("INFO" :> <<"I", "N", "F", "O">>) @@ ("WARN" :> <<"W", "A", "R", "N">>)

Times == (1 :> <<"t", ":", "1">>) @@ (2 :> <<"t", ":", "2">>)

Unknown == <<"u", "n", "k">>

Custom == <<"c">>

Name == <<"l", "g">>

Now == {[sec |-> 2, ms |-> 1007, thread |-> 10000]}

Made == {[level |-> "INFO", said |-> <<"h", "i">>,
          loc |-> <<"[", "f", "]", "[", "7", "]">>]}

Given == {[name |-> << >>, level |-> "WARN", sec |-> 1, ms |-> 120,
           thread |-> 7, loc |-> << >>, payload |-> <<"h", "e", "y">>]}

Blue == <<"E", "4">>

Off == <<"E">>

Shades == {<< >>, Blue}

Chars == DOMAIN Digits \cup {"NUL", " ", ".", ":", "[", "]", "%", "!", "<", "^", ">", "$",
                            "a", "c", "d", "e", "f", "g", "h", "i", "k", "l",
                            "m", "n", "s", "t", "u", "v", "y",
                            "A", "E", "F", "I", "N", "O", "R", "W"}
=============================================================================
