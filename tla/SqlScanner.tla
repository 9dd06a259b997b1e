----------------------------- MODULE SqlScanner -----------------------------
(***************************************************************************)
(* lex.sql.c: the scanner that flex made of SqlParser.l.  An automaton in  *)
(* compressed tables runs over a buffer that ends with two marks; when it  *)
(* meets a mark, what there is of a token is moved to the front, the       *)
(* buffer filled behind it and the automaton run again.                    *)
(***************************************************************************)
EXTENDS SqlRules

CONSTANTS
  Input,             \* bound: the texts on the standard input, as codes, without NUL
  YY_BUF_SIZE,       \* the first size of the buffer
  YY_READ_BUF_SIZE,  \* the most that is read at once
  Fault              \* bound: "read" for an input that can fail

ASSUME SizeAssumption == YY_BUF_SIZE \in Nat \ {0, 1} /\ YY_READ_BUF_SIZE \in Nat \ {0}
ASSUME InputAssumption == Input \subseteq Seq(1 .. 255)

VARIABLES
  input,              \* what has not been read
  yy_is_interactive,  \* isatty: reads end with a line
  yy_ch_buf,          \* the characters in the buffer, without the two marks
  yy_buf_size,
  eof_pending,        \* yy_buffer_status = YY_BUFFER_EOF_PENDING
  yytext,             \* where the token begins in yy_ch_buf, from 0 on
  yy,                 \* the run: state, position cp, and where it last accepted
  pc,                 \* "match", "find", "done" or "exited"
  token               \* the last token: its rule, its text and its sqllval.string

buffer == <<yy_ch_buf, yy_buf_size, eof_pending, yytext>>
vars   == <<input, yy_is_interactive, yy_ch_buf, yy_buf_size, eof_pending, yytext, yy, pc, token>>

-----------------------------------------------------------------------------
(* The tables; entry i is at place i + 1 *)

yy_accept == <<0, 0, 0, 27, 26, 25, 23, 26, 26, 22, 21, 26, 18, 24, 15, 12, 14, 20, 20, 20, 20, 20,
      20, 20, 20, 20, 20, 20, 20, 20, 20, 20, 20, 20, 20, 20, 20, 20, 25, 23, 0, 19, 18,
      17, 13, 16, 20, 20, 20, 20, 20, 20, 20, 11, 20, 20, 20, 20, 20, 20, 20, 20, 20, 20,
      20, 20, 20, 20, 10, 20, 20, 20, 20, 20, 20, 20, 20, 20, 20, 20, 20, 20, 20, 20, 20,
      20, 20, 20, 8, 2, 20, 4, 7, 20, 20, 5, 20, 20, 20, 20, 20, 6, 20, 3, 20, 20, 0, 1, 0,
      0, 0, 9, 0>>
yy_meta == <<0, 1, 1, 1, 1, 1, 1, 1, 1, 1, 2, 2, 1, 1, 1, 1, 2, 2, 2, 2, 2, 2, 2, 2, 2, 2, 2, 2,
      2, 2, 2, 2, 2, 2, 2, 2, 2, 2, 2, 2, 2, 2, 2, 2, 2, 2, 2, 2, 2, 2, 2, 2, 2, 2>>
yy_base == <<0, 0, 0, 144, 145, 141, 145, 139, 136, 145, 145, 129, 128, 145, 40, 145, 124, 111, 0,
      109, 101, 105, 107, 105, 102, 98, 109, 34, 83, 81, 73, 77, 79, 77, 74, 70, 81, 17,
      117, 145, 113, 145, 106, 145, 145, 145, 0, 97, 83, 91, 86, 93, 95, 0, 87, 85, 88, 76,
      68, 54, 62, 57, 64, 65, 58, 56, 59, 47, 0, 70, 64, 69, 73, 73, 60, 70, 60, 66, 42,
      36, 41, 45, 45, 32, 42, 32, 38, 47, 0, 0, 43, 0, 0, 58, 55, 0, 24, 20, 35, 32, 64, 0,
      38, 0, 62, 17, 58, 0, 57, 57, 56, 145, 145, 59, 60>>
yy_def == <<0, 112, 1, 112, 112, 112, 112, 112, 113, 112, 112, 112, 112, 112, 112, 112, 112, 114,
      114, 114, 114, 114, 114, 114, 114, 114, 114, 114, 114, 114, 114, 114, 114, 114, 114,
      114, 114, 114, 112, 112, 113, 112, 112, 112, 112, 112, 114, 114, 114, 114, 114, 114,
      114, 114, 114, 114, 114, 114, 114, 114, 114, 114, 114, 114, 114, 114, 114, 114, 114,
      114, 114, 114, 114, 114, 114, 114, 114, 114, 114, 114, 114, 114, 114, 114, 114, 114,
      114, 114, 114, 114, 114, 114, 114, 114, 114, 114, 114, 114, 114, 114, 114, 114, 114,
      114, 114, 114, 112, 114, 112, 112, 112, 112, 0, 112, 112>>
yy_nxt == <<0, 4, 5, 6, 7, 8, 4, 4, 9, 10, 11, 12, 13, 14, 15, 16, 17, 18, 19, 18, 20, 21, 18,
      22, 23, 18, 18, 24, 25, 18, 26, 18, 18, 27, 18, 4, 28, 29, 18, 30, 31, 18, 32, 33,
      18, 18, 34, 35, 18, 36, 18, 18, 37, 18, 43, 44, 56, 57, 66, 67, 40, 40, 46, 111, 111,
      110, 109, 107, 108, 107, 106, 103, 105, 101, 104, 103, 102, 101, 100, 95, 99, 98, 92,
      91, 97, 89, 88, 96, 95, 94, 93, 92, 91, 90, 89, 88, 87, 86, 85, 84, 83, 82, 81, 80,
      79, 78, 68, 77, 76, 75, 74, 73, 72, 71, 70, 69, 68, 42, 41, 38, 65, 64, 53, 63, 62,
      61, 60, 59, 58, 55, 54, 53, 52, 51, 50, 49, 48, 47, 45, 42, 42, 41, 39, 38, 112, 3,
      112, 112, 112, 112, 112, 112, 112, 112, 112, 112, 112, 112, 112, 112, 112, 112, 112,
      112, 112, 112, 112, 112, 112, 112, 112, 112, 112, 112, 112, 112, 112, 112, 112, 112,
      112, 112, 112, 112, 112, 112, 112, 112, 112, 112, 112, 112, 112, 112, 112, 112, 112,
      112, 112>>
yy_chk == <<0, 1, 1, 1, 1, 1, 1, 1, 1, 1, 1, 1, 1, 1, 1, 1, 1, 1, 1, 1, 1, 1, 1, 1, 1, 1, 1, 1,
      1, 1, 1, 1, 1, 1, 1, 1, 1, 1, 1, 1, 1, 1, 1, 1, 1, 1, 1, 1, 1, 1, 1, 1, 1, 1, 14, 14,
      27, 27, 37, 37, 113, 113, 114, 110, 109, 108, 106, 105, 104, 102, 100, 99, 98, 97,
      96, 94, 93, 90, 87, 86, 85, 84, 83, 82, 81, 80, 79, 78, 77, 76, 75, 74, 73, 72, 71,
      70, 69, 67, 66, 65, 64, 63, 62, 61, 60, 59, 58, 57, 56, 55, 54, 52, 51, 50, 49, 48,
      47, 42, 40, 38, 36, 35, 34, 33, 32, 31, 30, 29, 28, 26, 25, 24, 23, 22, 21, 20, 19,
      17, 16, 12, 11, 8, 7, 5, 3, 112, 112, 112, 112, 112, 112, 112, 112, 112, 112, 112,
      112, 112, 112, 112, 112, 112, 112, 112, 112, 112, 112, 112, 112, 112, 112, 112, 112,
      112, 112, 112, 112, 112, 112, 112, 112, 112, 112, 112, 112, 112, 112, 112, 112, 112,
      112, 112, 112, 112, 112, 112, 112, 112, 112>>

\* The class of a character: 0 for the mark, 1 for what no rule mentions
Upper == <<16, 17, 18, 19, 20, 21, 17, 22, 23, 17, 17, 24, 25, 26, 27, 17, 28, 29, 30, 31, 32,
           17, 33, 34, 17, 17>>
Lower == <<36, 17, 37, 38, 39, 40, 17, 41, 42, 17, 17, 43, 44, 45, 46, 17, 47, 48, 49, 50, 51,
           17, 52, 53, 17, 17>>
yy_ec(c) == CASE c \in 65 .. 90 -> Upper[c - 64]
              [] c \in 97 .. 122 -> Lower[c - 96]
              [] c \in 48 .. 57 -> 11
              [] c \in {9, 32} -> 2
              [] c \in 39 .. 42 -> c - 34
              [] c \in 59 .. 62 -> c - 47
              [] c = 0 -> 0 [] c = 10 -> 3 [] c = 13 -> 4
              [] c = 44 -> 9 [] c = 45 -> 10 [] c = 95 -> 35
              [] OTHER -> 1

\* One transition: along yy_def until a state has an entry for the class
yy_next[x \in (1 .. 114) \X (0 .. 53)] ==
  LET s  == x[1]
      c  == x[2]
      at == yy_base[s + 1] + c + 1
      d  == yy_def[s + 1]
  IN IF yy_chk[at] = s THEN yy_nxt[at] ELSE yy_next[<<d, IF d >= 113 THEN yy_meta[c + 1] ELSE c>>]

\* The last state, the buffer's end and the first start state
JAM              == 145
YY_END_OF_BUFFER == 27
INITIAL          == 1

Start(at) == [state |-> INITIAL, cp |-> at, last |-> yy.last]

\* One character c of the loop that follows the automaton
Turn(x, c) == [state |-> yy_next[<<x.state, yy_ec(c)>>], cp |-> x.cp + 1,
               last |-> IF yy_accept[x.state + 1] # 0 THEN <<x.state, x.cp>> ELSE x.last]

\* The run from x over the characters w, or to where it stops; the set binds y,
\* so that TLC finds each turn once.
Run(x, w, Stops(_)) ==
  LET run[n \in 0 .. Len(w)] ==
        IF n = 0 THEN x
        ELSE CHOOSE z \in { IF Stops(y) THEN y ELSE Turn(y, w[n]) : y \in {run[n - 1]} } : TRUE
  IN run[Len(w)]

\* Broken variant: the loop goes on until no rule is left
JammedLate(x) == x.state = 112
Jammed(x)     == yy_base[x.state + 1] = JAM
Match(x) == Run(x, SubSeq(yy_ch_buf, x.cp + 1, Len(yy_ch_buf)) \o <<0, 0>>, Jammed)

\* yy_find_action: a state that accepts nothing backs up.
\* Broken variant: only one character is given back
BackUpOne(x) == IF yy_accept[x.state + 1] # 0 THEN x
                ELSE [x EXCEPT !.state = x.last[1], !.cp = x.cp - 1]
BackUp(x) == IF yy_accept[x.state + 1] # 0 THEN x
             ELSE [x EXCEPT !.state = x.last[1], !.cp = x.last[2]]

\* The run over the text of a token that the end of the buffer cut
\* Broken variant: it does not remember where it accepted
Forget(w) == [Run(Start(0), w, LAMBDA y : FALSE) EXCEPT !.last = yy.last]
yy_get_previous_state(w) == Run(Start(0), w, LAMBDA y : FALSE)

-----------------------------------------------------------------------------
Init ==
  /\ input \in Input /\ yy_is_interactive \in BOOLEAN
  /\ yy_ch_buf = << >> /\ yy_buf_size = YY_BUF_SIZE /\ eof_pending = FALSE
  /\ yytext = 0 /\ yy = [state |-> INITIAL, cp |-> 0, last |-> <<0, 0>>]
  /\ pc = "match" /\ token = [rule |-> 0, text |-> << >>, value |-> << >>]

yy_match ==
  /\ pc = "match"
  /\ yy' = Match(yy) /\ pc' = "find"
  /\ UNCHANGED <<input, yy_is_interactive, buffer, token>>

Found  == BackUp(yy)
yy_act == yy_accept[Found.state + 1]

\* The copy that a rule's action makes of the text w: of a string without its
\* quotes, of a name in small letters.  The other rules have none.
Value(r, w) == CASE r = 18 -> w
                 [] r = 19 -> SubSeq(Tail(w), 1, Len(w) - 2)
                 [] r = 20 -> [i \in DOMAIN w |-> IF w[i] \in 65 .. 90 THEN w[i] + 32 ELSE w[i]]
                 [] OTHER  -> << >>

\* A rule's action; the next token begins behind it.
\* Broken variant: it begins where this one did
NextHere(x) == yytext
Next_c_buf_p(x) == x.cp
rule_action ==
  /\ pc = "find" /\ yy_act # YY_END_OF_BUFFER
  /\ LET w == SubSeq(yy_ch_buf, yytext + 1, Found.cp)
     IN token' = [rule |-> yy_act, text |-> w, value |-> Value(yy_act, w)]
  /\ yytext' = Next_c_buf_p(Found)
  /\ yy' = [Found EXCEPT !.state = INITIAL, !.cp = Next_c_buf_p(Found)]
  /\ pc' = "match"
  /\ UNCHANGED <<input, yy_is_interactive, yy_ch_buf, yy_buf_size, eof_pending>>

-----------------------------------------------------------------------------
(* yy_get_next_buffer *)

Pending == SubSeq(yy_ch_buf, yytext + 1, Len(yy_ch_buf))

\* The buffer doubles until there is room to read; one place is kept free.
Grown       == CHOOSE n \in { yy_buf_size * 2 ^ k : k \in 0 .. Len(Pending) + 1 } :
                 n - Len(Pending) - 1 > 0 /\ (n > yy_buf_size => (n \div 2) - Len(Pending) - 1 <= 0)
\* Broken variant: it fills the buffer
NumToReadFull(size) == size - Len(Pending)
NumToRead(size)     == size - Len(Pending) - 1

\* YY_INPUT: what a read returns; a terminal gives a line at a time.
Given(max) ==
  LET most  == SubSeq(input, 1, IF max < Len(input) THEN max ELSE Len(input))
      lines == { i \in DOMAIN most : most[i] = 10 }
  IN IF yy_is_interactive /\ lines # {} THEN SubSeq(most, 1, CHOOSE i \in lines : \A j \in lines : i <= j)
     ELSE most

Moved     == 0

\* The characters that are kept and those that are read, then EOB_ACT_
\* CONTINUE_SCAN: the automaton goes on from where the mark stopped it.
read_more ==
  /\ pc = "find" /\ yy_act = YY_END_OF_BUFFER /\ ~eof_pending
  /\ input # << >>
  /\ LET got == Given(IF NumToRead(Grown) > YY_READ_BUF_SIZE THEN YY_READ_BUF_SIZE ELSE NumToRead(Grown))
     IN /\ input' = SubSeq(input, Len(got) + 1, Len(input))
        /\ yy_ch_buf' = Pending \o got
  /\ yy_buf_size' = Grown /\ yytext' = Moved
  /\ yy' = yy_get_previous_state(Pending) /\ pc' = "match"
  /\ UNCHANGED <<yy_is_interactive, eof_pending, token>>

\* EOB_ACT_LAST_MATCH: nothing comes any more, but there is text left.  The
\* action is found again with the state that the text ends in.
last_match ==
  /\ pc = "find" /\ yy_act = YY_END_OF_BUFFER /\ Pending # << >>
  /\ eof_pending \/ input = << >>
  /\ eof_pending' = TRUE
  /\ yy_buf_size' = IF eof_pending THEN yy_buf_size ELSE Grown
  /\ yy_ch_buf' = Pending /\ yytext' = Moved
  /\ yy' = yy_get_previous_state(Pending)
  /\ UNCHANGED <<input, yy_is_interactive, pc, token>>

\* EOB_ACT_END_OF_FILE: sqlrestart, sqlwrap says that there is no other file,
\* and sqllex returns YY_NULL.  The parser does not call again.
end_of_file ==
  /\ pc = "find" /\ yy_act = YY_END_OF_BUFFER /\ Pending = << >>
  /\ eof_pending \/ input = << >>
  /\ yy_ch_buf' = << >> /\ eof_pending' = FALSE /\ yytext' = 0
  /\ yy' = [Found EXCEPT !.state = INITIAL, !.cp = 0] /\ pc' = "done"
  /\ UNCHANGED <<input, yy_is_interactive, yy_buf_size, token>>

\* A read that fails ends the program.
yy_fatal_error ==
  /\ "read" \in Fault
  /\ pc = "find" /\ yy_act = YY_END_OF_BUFFER /\ ~eof_pending
  /\ pc' = "exited"
  /\ UNCHANGED <<input, yy_is_interactive, buffer, yy, token>>

Next == yy_match \/ rule_action \/ read_more \/ last_match \/ end_of_file \/ yy_fatal_error

\* sqllex is a loop that only waits in a read.
FairSpec == Init /\ [][Next]_vars /\ WF_vars(Next)

-----------------------------------------------------------------------------
(* Properties *)

\* The automaton runs inside the buffer and its two marks, and where it backs up
\* to lies in the token at hand, whose first character is always accepted:
\* yy_last_accepting_cpos outlives tokens and the moves of the buffer.
TypeOK ==
  /\ yytext \in 0 .. Len(yy_ch_buf) /\ yy.cp \in yytext .. Len(yy_ch_buf) + 2
  /\ yy.state \in 1 .. 112 /\ yy.last \in (0 .. 112) \X Nat
  /\ eof_pending \in BOOLEAN /\ pc \in {"match", "find", "done", "exited"}
  /\ pc = "find" => Found.cp \in yytext + 1 .. Len(yy_ch_buf) + 1

\* The buffer has room for what is read and keeps a place free, so that the
\* unsigned num_to_read never goes below zero, where the loop that grows the
\* buffer would not see it: however long a token is, and wherever the end of
\* the buffer cuts it.
BufferFits == Len(yy_ch_buf) < yy_buf_size

T == INSTANCE SqlTokens WITH text <- Pending \o input,
                             token <- [rule |-> token.rule, text |-> token.text]

\* The tokens are the longest texts that the rules match, whatever the tables
\* are compressed to, the reads cut and the automaton backs up over.
ImplementsTokens == T!TokensSpec

\* Nothing is read while the text at hand has a token that no further character
\* could make longer: at a terminal a line is scanned to its end, the LF
\* included, before the next line is waited for - unless a quote is open.
ReadsWhenNeeded ==
  [][input' # input \/ (eof_pending' /\ ~eof_pending) => Extendable(Pending)]_vars

\* Every input is scanned to its end, unless it cannot be read.
ScanEnds == <>(pc = "exited" \/ (pc = "done" /\ input = << >>))
=============================================================================
