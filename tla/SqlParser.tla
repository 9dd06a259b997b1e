----------------------------- MODULE SqlParser -----------------------------
(***************************************************************************)
(* SqlParser.tab.c: the parser that bison made of SqlParser.y, a stack of  *)
(* states driven by tables, with the actions of the grammar in it.  It     *)
(* calls SqlEngine::load and select, hands strings of the scanner around   *)
(* as bare pointers, and after a syntax error looks for the next LF.       *)
(***************************************************************************)
EXTENDS SqlGrammar, SequencesExt

CONSTANTS
  String,    \* bound: the strings that strdup hands out, as numbers
  Offered(_, _), \* bound: the tokens the input has behind a line's tokens
  Free       \* what a string is that nobody has, or nobody has any more

ASSUME StringAssumption == String \subseteq Nat \ {0} /\ Free \notin Name \cup Literal

VARIABLES
  yyss,         \* the states
  yyvs,         \* a value for each of them
  yychar,       \* the look-ahead token, or YYEMPTY
  yylval,       \* its value; a token without a text leaves the last one in it
  yyerrstatus,  \* 3 behind an error, one less for every token shifted
  heap,         \* the strings: their texts
  told,         \* history: a syntax error of this line was reported
  misnamed,     \* history: a wrong attribute name of this line was reported
  before        \* history: the last line that was not empty was rejected

parserVars == <<yyss, yyvs, yychar, yylval, yyerrstatus>>
vars       == <<yyss, yyvs, yychar, yylval, yyerrstatus, heap, told, misnamed, before,
                line, call, result>>

-----------------------------------------------------------------------------
(* The tables; state s is at place s + 1, as is rule n and symbol m *)

YYFINAL == 2
YYLAST == 33
YYNTOKENS == 25
YYPACT_NINF == -14
YYEMPTY == -2

yyr1 == <<0, 25, 26, 26, 27, 27, 27, 27, 27, 28, 29, 29, 30, 30, 31, 31, 32, 33, 33, 33,
          34, 35, 35, 36, 37, 37, 37, 37, 37, 37>>
\* Broken variant: the list of commands grows to the right
yyr2Right == <<0, 2, 1, 0, 1, 1, 1, 2, 1, 1, 5, 7, 5, 7, 1, 3, 3, 1, 1, 1,
          1, 1, 1, 1, 1, 1, 1, 1, 1, 1>>
yyr2 == <<0, 2, 2, 0, 1, 1, 1, 2, 1, 1, 5, 7, 5, 7, 1, 3, 3, 1, 1, 1,
          1, 1, 1, 1, 1, 1, 1, 1, 1, 1>>

yydefact  == <<3, 0, 1, 0, 0, 0, 9, 8, 2, 6, 4, 5, 7, 19, 18, 20, 0, 17, 23, 0,
               0, 0, 0, 0, 0, 12, 0, 10, 0, 14, 0, 0, 0, 13, 24, 25, 26, 28, 27, 29,
               0, 11, 15, 21, 22, 16>>
yydefgoto == <<-1, 1, 8, 9, 10, 11, 28, 29, 16, 30, 45, 19, 40>>

yypact  == <<-14, 0, -14, -5, 3, 2, -14, -14, -14, -14, -14, -14, -14, -14, -14, -14, 10,
             -14, -14, 14, 2, 5, -3, 1, 11, -14, 22, -14, -4, -14, 4, 16, 11, -14, -14,
             -14, -14, -14, -14, -14, -12, -14, -14, -14, -14, -14>>
yypgoto == <<-14, -14, -14, -14, -14, -14, -14, -13, -14, 28, -14, 13, -14>>

yytable == <<2, 3, 24, 4, 43, 44, 5, 32, 26, 6, 12, 33, 25, 13, 20, 7, 27, 14, 21, 42,
             18, 15, 23, 34, 35, 36, 37, 38, 39, 15, 31, 41, 17, 22>>
yycheck == <<0, 1, 5, 3, 16, 17, 6, 11, 7, 9, 15, 15, 15, 10, 4, 15, 15, 14, 4, 32,
             18, 18, 17, 19, 20, 21, 22, 23, 24, 18, 8, 15, 4, 20>>

yystos == <<0, 26, 0, 1, 3, 6, 9, 15, 27, 28, 29, 30, 15, 10, 14, 18, 33, 34, 18, 36,
            4, 4, 36, 17, 5, 15, 7, 15, 31, 32, 34, 8, 11, 15, 19, 20, 21, 22, 23, 24,
            37, 15, 32, 16, 17, 35>>

\* The table's entry for a place that belongs to symbol or state x, else 0
Entry(n, x) == IF n \in 0 .. YYLAST /\ yycheck[n + 1] = x THEN yytable[n + 1] ELSE 0

Pact(s)      == yypact[s + 1]
Shifts(s, x) == IF Pact(s) = YYPACT_NINF THEN 0 ELSE Entry(Pact(s) + x, x)
Goto(s, sym) ==
  LET n == yypgoto[sym - YYNTOKENS + 1] + s
  IN IF Entry(n, s) # 0 THEN Entry(n, s) ELSE yydefgoto[sym - YYNTOKENS + 1]

\* What the tables decide on: a token to shift, a rule to reduce, or an error.
\* A state without entries of its own asks for no token.
Top       == Last(yyss)
\* Broken variant: a look-ahead is read before it is needed
WaitsAlways == yychar = YYEMPTY
Waits     == Pact(Top) # YYPACT_NINF /\ yychar = YYEMPTY
Shift     == IF Waits THEN 0 ELSE Shifts(Top, yychar)
Rule      == IF Waits \/ Shift # 0 THEN 0 ELSE yydefact[Top + 1]
IsError   == ~Waits /\ Shift = 0 /\ Rule = 0

-----------------------------------------------------------------------------
Init ==
  /\ yyss = <<0>> /\ yyvs = <<0>> /\ yychar = YYEMPTY /\ yylval = 0 /\ yyerrstatus = 0
  /\ heap = [s \in String |-> Free] /\ told = FALSE
  /\ misnamed = FALSE /\ before = FALSE
  /\ GrammarInit

\* Bounds: no condition beyond MaxConds, and only the tokens Offered.
Bounded(t) ==
  /\ t.sym \in {T_WHERE, T_AND} =>
       ~(Len(line) = Len(SelectLine(MaxConds)) - 1 /\ Begins(line, SelectLine(MaxConds)))
  /\ Offered(line, t)

\* A token with a text is a string of its own, made by the scanner's strdup.
yylex ==
  /\ result = "running" /\ Waits
  /\ \E t \in Token :
       /\ Bounded(t)
       /\ yychar' = t.sym
       /\ IF t.text = NoText THEN UNCHANGED <<yylval, heap>>
          ELSE \E s \in String :
                 /\ heap[s] = Free /\ \A r \in String : heap[r] = Free => s <= r
                 /\ yylval' = s /\ heap' = [heap EXCEPT ![s] = t.text]
       /\ IF t.sym = YYEOF THEN UNCHANGED <<line, call>>
          ELSE line' = Extend(line, t) /\ call' = NoCall
  /\ UNCHANGED <<yyss, yyvs, yyerrstatus, told, misnamed, before, result>>

\* Broken variant: never forgetting an error
CountDownNever == yyerrstatus
CountDown      == IF yyerrstatus = 0 THEN 0 ELSE yyerrstatus - 1

shift ==
  /\ result = "running" /\ Shift \notin {0, YYFINAL}
  /\ yyerrstatus' = CountDown
  /\ yyss' = Append(yyss, Shift) /\ yyvs' = Append(yyvs, yylval)
  /\ yychar' = IF yychar = YYEOF THEN YYEOF ELSE YYEMPTY
  /\ UNCHANGED <<yylval, heap, told, misnamed, before, line, call, result>>

accept ==
  /\ result = "running" /\ Shift = YYFINAL
  /\ result' = "accepted" /\ line' = << >> /\ call' = NoCall
  /\ UNCHANGED <<parserVars, heap, told, misnamed, before>>

-----------------------------------------------------------------------------
(* yyreduce: the actions of the rules *)

\* The right-hand side of rule r, and its values $1, $2, ...
Rhs(r)    == Len(yyss) - yyr2[r + 1]
Arg(r, i) == yyvs[Rhs(r) + i]
\* $$ before the action: $1, or for an empty right-hand side what lies above the
\* top of the stack; nothing reads that, and 0 stands for it
Val(r) == IF yyr2[r + 1] = 0 THEN 0 ELSE Arg(r, 1)

Reduce(rules, val) ==
  /\ result = "running" /\ Rule \in rules
  /\ LET below == SubSeq(yyss, 1, Rhs(Rule))
     IN yyss' = Append(below, Goto(Last(below), yyr1[Rule + 1]))
  /\ yyvs' = Append(SubSeq(yyvs, 1, Rhs(Rule)), val)
  /\ UNCHANGED <<yychar, yylval, yyerrstatus>>

\* Broken variant: all but one string are forgotten
freeOne(strings) ==
  LET one == CHOOSE s \in strings : TRUE
  IN heap' = [s \in String |-> IF s = one THEN Free ELSE heap[s]]
free(strings) == heap' = [s \in String |-> IF s \in strings THEN Free ELSE heap[s]]

\* The end of a line: what it called, and the histories of the next one
Executed(c) ==
  /\ line' = << >> /\ call' = c /\ told' = FALSE /\ misnamed' = FALSE
  /\ before' = IF Len(line) = 1 THEN before ELSE Rejected(line)
  /\ UNCHANGED result

\* The rules that only pass a value on, or print the prompt
reduce_plain ==
  /\ Reduce({2, 3, 4, 5, 6, 17, 21, 22, 23}, Val(Rule))
  /\ UNCHANGED <<heap, told, misnamed, before, line, call, result>>

\* An empty line, and the end of a rejected one
reduce_line ==
  /\ Reduce({7, 8}, Val(Rule))
  /\ Executed(NoCall)
  /\ UNCHANGED heap

\* return 0, in the middle of the reduction
reduce_quit ==
  /\ result = "running" /\ Rule = 9
  /\ result' = "quit"
  /\ UNCHANGED <<parserVars, heap, told, misnamed, before, line, call>>

reduce_load ==
  /\ Reduce({10, 11}, Val(Rule))
  /\ Executed(LoadCall(heap[Arg(Rule, 2)], heap[Arg(Rule, 4)], Rule = 11))
  /\ free({Arg(Rule, 2), Arg(Rule, 4)})

reduce_select ==
  /\ Reduce({12, 13}, Val(Rule))
  /\ LET conds == IF Rule = 12 THEN << >> ELSE Arg(13, 6)
     IN /\ Executed(SelectCall(Arg(Rule, 2), heap[Arg(Rule, 4)],
                       [i \in DOMAIN conds |-> [conds[i] EXCEPT !.value = heap[@]]]))
        /\ free({Arg(Rule, 4)} \cup { conds[i].value : i \in DOMAIN conds })

\* conditions and condition
reduce_condition ==
  /\ Reduce({14, 15, 16},
            CASE Rule = 14 -> <<Arg(14, 1)>>
              [] Rule = 15 -> Append(Arg(15, 1), Arg(15, 3))
              [] Rule = 16 -> [attr |-> Arg(16, 1), comp |-> Arg(16, 2), value |-> Arg(16, 3)])
  /\ UNCHANGED <<heap, told, misnamed, before, line, call, result>>

reduce_star_count ==
  /\ Reduce({18, 19}, IF Rule = 18 THEN 3 ELSE 4)
  /\ UNCHANGED <<heap, told, misnamed, before, line, call, result>>

\* A name that is neither of the two leaves $$ as it was, the pointer that is
\* freed here; sqlerror reports it, which stops nothing.
reduce_attribute ==
  LET attr == AttrOf([sym |-> T_ID, text |-> heap[Arg(20, 1)]])
  IN /\ Reduce({20}, attr)
     /\ free({Arg(20, 1)})
     /\ misnamed' = (misnamed \/ attr = WrongAttr)
     /\ UNCHANGED <<told, before, line, call, result>>

\* Broken variant: the rules in the order of the tokens
ComparatorByToken(r) == <<"EQ", "NE", "LT", "LE", "GT", "GE">>[r - 23]
Comp(r)              == <<"EQ", "NE", "LT", "GT", "LE", "GE">>[r - 23]
reduce_comparator ==
  /\ Reduce(24 .. 29, Comp(Rule))
  /\ UNCHANGED <<heap, told, misnamed, before, line, call, result>>

-----------------------------------------------------------------------------
(* yyerrlab *)

\* What becomes of symbols that are given up, each with its value: nothing.
\* Broken variant: the value of every token is freed, as if each had a text
yydestructAll(symbols) == free({ p[2] : p \in { q \in symbols : q[1] < YYNTOKENS } })
yydestruct(symbols)    == UNCHANGED heap

\* Report it unless another was reported a moment ago, drop the token if it
\* could not even follow the token error, then pop states until one shifts the
\* token error.  State 1, at the bottom, always does; what the values point to
\* is not freed.
recover ==
  /\ result = "running" /\ IsError /\ ~(yyerrstatus = 3 /\ yychar = YYEOF)
  /\ told' = (told \/ yyerrstatus = 0)
  /\ yychar' = IF yyerrstatus = 3 THEN YYEMPTY ELSE yychar
  /\ yyerrstatus' = 3
  /\ \E n \in DOMAIN yyss :
       /\ Shifts(yyss[n], YYTERROR) # 0
       /\ \A i \in n + 1 .. Len(yyss) : Shifts(yyss[i], YYTERROR) = 0
       /\ yyss' = Append(SubSeq(yyss, 1, n), Shifts(yyss[n], YYTERROR))
       /\ yyvs' = Append(SubSeq(yyvs, 1, n), yylval)
       /\ yydestruct({ <<yystos[yyss[i] + 1], yyvs[i]>> : i \in n + 1 .. Len(yyss) }
                       \cup (IF yyerrstatus = 3 THEN {<<yychar, yylval>>} ELSE {}))
  /\ UNCHANGED <<yylval, misnamed, before, line, call, result>>

abort ==
  /\ result = "running" /\ IsError /\ yyerrstatus = 3 /\ yychar = YYEOF
  /\ result' = "aborted" /\ line' = << >> /\ call' = NoCall
  /\ UNCHANGED <<parserVars, heap, told, misnamed, before>>

Step == shift \/ accept \/ reduce_plain \/ reduce_line \/ reduce_quit \/ reduce_load
          \/ reduce_select \/ reduce_condition \/ reduce_star_count \/ reduce_attribute
          \/ reduce_comparator \/ recover \/ abort
Next == yylex \/ Step

\* The parser is a loop that only stops for the next token.
FairSpec == Init /\ [][Next]_vars /\ WF_vars(Step)

-----------------------------------------------------------------------------
(* Properties *)

\* The stacks never come near YYINITDEPTH: however long the input, commands and
\* conditions grow to the left, and an error starts again at the bottom.
TypeOK ==
  /\ Len(yyss) = Len(yyvs) /\ Len(yyss) <= 12 /\ \A i \in DOMAIN yyss : yyss[i] \in 0 .. 45
  /\ yychar \in {YYEMPTY, YYEOF} \cup T_SELECT .. T_LF \cup {T_INTEGER, T_STRING, T_ID} \cup Comparator
  /\ yylval \in String \cup {0} /\ yyerrstatus \in 0 .. 3
  /\ heap \in [String -> {Free} \cup Name \cup Literal] /\ {told, misnamed, before} \subseteq BOOLEAN
  /\ result \in {"running", "quit", "accepted", "aborted"}

\* The strings that a value on the stack owns, by the symbol it belongs to: a
\* token with a text, a table or value, a condition, a list of conditions.
Owned(sym, v) == CASE sym \in {T_INTEGER, T_STRING, T_ID, 35, 36} -> <<v>>
                   [] sym = 32 -> <<v.value>>
                   [] sym = 31 -> [i \in DOMAIN v |-> v[i].value]
                   [] OTHER    -> << >>
\* at a place of the stack, with the look-ahead at place 0
Owns(i) == IF i = 0 THEN Owned(yychar, yylval) ELSE Owned(yystos[yyss[i] + 1], yyvs[i])
Places == UNION { {i} \X DOMAIN Owns(i) : i \in 0 .. Len(yyss) }
Held   == [p \in Places |-> Owns(p[1])[p[2]]]
Lost   == { s \in String : heap[s] # Free } \ Range(Held)

\* A string the parser will still read or free is there and has one owner: no
\* order of errors, recoveries and rules lets it be freed twice, or used after
\* it was freed (the free calls of SqlParser.y, the look-ahead kept by yyerrlab).
HeapExact == IsInjective(Held) /\ \A s \in Range(Held) : s \in String /\ heap[s] # Free

\* A line that is executed frees every string it made; strings get lost only
\* where a line is given up, there being no %destructor.
OnlyErrorsLose == [][Lost' \subseteq Lost \/ Rejected(line) \/ yychar = YYEOF]_vars

\* What a call asks of an attribute that is neither of the two
Misnames(c) == c.op = "select" /\ (c.attr = WrongAttr
                                    \/ \E i \in DOMAIN c.conds : c.conds[i].attr = WrongAttr)

\* Every rejected line is reported as a syntax error, unless the last line that
\* was not empty was rejected too (yyerrstatus).  A line of the grammar never is;
\* its wrong names are reported, and only those, but it is executed all the same.
ErrorsTold ==
  [][EndOfLine(line) /\ line' = << >> =>
       IF Rejected(line) THEN told \/ before
       ELSE ~told /\ (misnamed <=> Misnames(call'))]_vars

\* What is executed is the grammar's: each line once, at its end, with the
\* arguments that stand in it, and never a line that has an error.
ImplementsGrammar == GrammarSpec

\* The end of a line is enough: it is executed, or QUIT obeyed, although no
\* further token ever comes (a terminal waits for the answer).
LinesAnswered == (EndOfLine(line) \/ Quits(line)) ~> (line = << >> \/ result = "quit")

=============================================================================
