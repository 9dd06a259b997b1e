----------------------------- MODULE SqlGrammar -----------------------------
(***************************************************************************)
(* What the parser of SqlParser.y promises: one line of input is one       *)
(* command.  A line of the grammar is executed as it is written, when its  *)
(* end has been read and before anything behind it is; any other line is   *)
(* passed over whole; QUIT ends the program at once.                       *)
(***************************************************************************)
EXTENDS Integers, Sequences

CONSTANTS Name,      \* what an ID can be: "key", "value" and others
          Literal,   \* the texts of numbers and strings
          NoText,    \* the text of every other token
          MaxConds   \* bound: the conditions of a select

ASSUME TextAssumption == {"key", "value"} \subseteq Name /\ NoText \notin Name \cup Literal
                           /\ MaxConds \in Nat

\* The tokens, by the numbers that yytranslate gives them; the prefix keeps WITH
\* from being the word of TLA+.  0 is the end of the input, 1 the token error.
YYEOF == 0
YYTERROR == 1
T_SELECT == 3
T_FROM == 4
T_WHERE == 5
T_LOAD == 6
T_WITH == 7
T_INDEX == 8
T_QUIT == 9
T_COUNT == 10
T_AND == 11
T_STAR == 14
T_LF == 15
T_INTEGER == 16
T_STRING == 17
T_ID == 18
Comparator == 19 .. 24

\* What a comparator stands for
SelCond == [c \in Comparator |-> <<"EQ", "NE", "LT", "LE", "GT", "GE">>[c - 18]]

Token == [sym : ({YYEOF} \cup T_SELECT .. T_LF \cup Comparator), text : {NoText}]
           \cup [sym : {T_INTEGER, T_STRING}, text : Literal] \cup [sym : {T_ID}, text : Name]

\* An attribute of a select or a condition; anything that is neither of the two
\* becomes a number that says nothing.
WrongAttr == 0
AttrOf(t) == IF t.sym = T_STAR THEN 3 ELSE IF t.sym = T_COUNT THEN 4
             ELSE IF t.text = "key" THEN 1 ELSE IF t.text = "value" THEN 2 ELSE WrongAttr

-----------------------------------------------------------------------------
(* The lines of the grammar, each as the symbols that may stand at a place *)

LoadLine      == <<{T_LOAD}, {T_ID}, {T_FROM}, {T_STRING}, {T_LF}>>
LoadIndexLine == <<{T_LOAD}, {T_ID}, {T_FROM}, {T_STRING}, {T_WITH}, {T_INDEX}, {T_LF}>>
Condition     == <<{T_ID}, Comparator, {T_INTEGER, T_STRING}>>
SelectFrom    == <<{T_SELECT}, {T_ID, T_STAR, T_COUNT}, {T_FROM}, {T_ID}>>
SelectLine(n) ==
  IF n = 0 THEN SelectFrom \o <<{T_LF}>>
  ELSE SelectFrom \o [i \in 1 .. 4 * n |->
                        IF i % 4 = 1 THEN IF i = 1 THEN {T_WHERE} ELSE {T_AND}
                        ELSE Condition[(i - 1) % 4]] \o <<{T_LF}>>
Lines == {LoadLine, LoadIndexLine, <<{T_LF}>>, <<{T_QUIT}>>}
           \cup { SelectLine(n) : n \in 0 .. MaxConds }

Begins(toks, l) == Len(toks) <= Len(l) /\ \A i \in DOMAIN toks : toks[i].sym \in l[i]
Viable(toks)    == \E l \in Lines : Begins(toks, l)
Is(toks, l)     == Len(toks) = Len(l) /\ Begins(toks, l)

\* What a line calls
NoCall == [op |-> "none"]
LoadCall(table, file, index) == [op |-> "load", table |-> table, file |-> file, index |-> index]
SelectCall(attr, table, conds) == [op |-> "select", attr |-> attr, table |-> table, conds |-> conds]

CondAt(toks, i) == [attr |-> AttrOf(toks[i]), comp |-> SelCond[toks[i + 1].sym],
                    value |-> toks[i + 2].text]
CallOf(toks) ==
  IF Is(toks, LoadLine) THEN LoadCall(toks[2].text, toks[4].text, FALSE)
  ELSE IF Is(toks, LoadIndexLine) THEN LoadCall(toks[2].text, toks[4].text, TRUE)
  ELSE IF \E n \in 0 .. MaxConds : Is(toks, SelectLine(n))
  THEN SelectCall(AttrOf(toks[2]), toks[4].text,
                  [i \in 1 .. (Len(toks) - 5) \div 4 |-> CondAt(toks, 2 + 4 * i)])
  ELSE NoCall

-----------------------------------------------------------------------------
(* The command line *)

VARIABLES
  line,    \* the tokens since the last LF that was executed, Garbage for others
  call,    \* the call that the last line made
  result   \* "running", or what the parser has returned

grammarVars == <<line, call, result>>

Garbage == [sym |-> YYTERROR, text |-> NoText]
EndOfLine(toks) == toks # << >> /\ toks[Len(toks)].sym = T_LF
Rejected(toks)  == toks # << >> /\ toks[1] = Garbage
Quits(toks)     == toks # << >> /\ toks[1].sym = T_QUIT
Extend(toks, t) == IF Viable(Append(toks, t)) THEN Append(toks, t)
                   ELSE IF t.sym = T_LF THEN <<Garbage, t>> ELSE <<Garbage>>

GrammarInit == line = << >> /\ call = NoCall /\ result = "running"

\* A token that is not the end of the input
GrammarRead(t) ==
  /\ result = "running" /\ ~EndOfLine(line) /\ ~Quits(line) /\ t.sym # YYEOF
  /\ line' = Extend(line, t) /\ call' = NoCall
  /\ UNCHANGED result

GrammarExecute ==
  /\ result = "running" /\ EndOfLine(line)
  /\ line' = << >> /\ call' = CallOf(line)
  /\ UNCHANGED result

GrammarQuit ==
  /\ result = "running" /\ Quits(line)
  /\ result' = "quit"
  /\ UNCHANGED <<line, call>>

\* The input ends: what there is of a last line is not executed.
GrammarEnd ==
  /\ result = "running" /\ ~EndOfLine(line) /\ ~Quits(line)
  /\ result' = IF line = << >> THEN "accepted" ELSE "aborted"
  /\ line' = << >> /\ call' = NoCall

GrammarNext == (\E t \in Token : GrammarRead(t)) \/ GrammarExecute \/ GrammarQuit \/ GrammarEnd

GrammarSpec == GrammarInit /\ [][GrammarNext]_grammarVars
=============================================================================
