-------------------------- MODULE SqlParserProofs --------------------------
(***************************************************************************)
(* What holds of the parser for any strings and any lines.  The tables of  *)
(* bison are looked up by the prover, state by state: the invariant is the *)
(* automaton that they encode, and from it who owns which string.  Then,   *)
(* that the parser implements the grammar: what the tables shift and       *)
(* reduce, against the lines that SqlParser.y derives, for any number of   *)
(* conditions and any texts.                                               *)
(***************************************************************************)
EXTENDS SqlParser, SequenceTheorems, TLAPS

-----------------------------------------------------------------------------
(* The automaton: the states that can lie below a state, the places at    *)
(* which it can lie, and the states at place 3 of its stacks               *)

States == 0 .. 45
Below == <<{}, {0}, {}, {1}, {1}, {1}, {1}, {1}, {1}, {1}, {1}, {1}, {3}, {4}, {4},
           {4, 24, 32}, {4}, {4}, {5, 20}, {5}, {16}, {19}, {20}, {21}, {22}, {22}, {23},
           {23}, {24}, {24}, {24, 32}, {26}, {28}, {28}, {30}, {30}, {30}, {30}, {30}, {30},
           {30}, {31}, {32}, {40}, {40}, {40}>>
Height == <<1, 2, 1, 3, 3, 3, 3, 3, 3, 3, 3, 3, 4, 4, 4, 10, 4, 4, 6, 4, 5, 5, 6, 6, 7, 7, 7,
            7, 8, 8, 10, 8, 9, 9, 11, 11, 11, 11, 11, 11, 11, 9, 10, 12, 12, 12>>
Lowest == <<1, 2, 1, 3, 3, 3, 3, 3, 3, 3, 3, 3, 4, 4, 4, 4, 4, 4, 4, 4, 5, 5, 6, 6, 7, 7, 7,
            7, 8, 8, 8, 8, 9, 9, 9, 9, 9, 9, 9, 9, 9, 9, 10, 10, 10, 10>>
First == <<{}, {}, {}, {3}, {4}, {5}, {6}, {7}, {8}, {9}, {10}, {11}, {3}, {4}, {4}, {4}, {4},
           {4}, {4, 5}, {5}, {4}, {5}, {4}, {5}, {4}, {4}, {5}, {5}, {4}, {4}, {4}, {5}, {4},
           {4}, {4}, {4}, {4}, {4}, {4}, {4}, {4}, {5}, {4}, {4}, {4}, {4}>>

Path(ss) ==
  /\ ss \in Seq(States) /\ ss # << >>
  /\ ss[1] = 0
  /\ \A i \in 2 .. Len(ss) : ss[i - 1] \in Below[ss[i] + 1]
  /\ \A i \in 1 .. Len(ss) : Lowest[ss[i] + 1] <= i /\ i <= Height[ss[i] + 1]
  /\ \A i \in 3 .. Len(ss) : ss[3] \in First[ss[i] + 1]

\* A state that is reached from s by shifting, or after a rule, lies above s.
Above(s, t) == t \in 1 .. 45 /\ s \in Below[t + 1]

LEMMA Heights ==
  ASSUME NEW s \in States, NEW t \in States, Above(s, t)
  PROVE  Height[s + 1] + 1 <= Height[t + 1] /\ Lowest[t + 1] <= Lowest[s + 1] + 1
BY DEF Above, States, Below, Height, Lowest

LEMMA Firsts ==
  ASSUME NEW s \in States, NEW t \in States, Above(s, t), NEW f \in First[s + 1]
  PROVE  f \in First[t + 1]
BY DEF Above, States, Below, First

LEMMA Roots ==
  ASSUME NEW s \in States, NEW t \in States, Above(s, t)
  PROVE  (s = 0 <=> t = 1) /\ (s = 1 => t \in First[t + 1])
BY DEF Above, States, Below, First

LEMMA HeightBound ==
  ASSUME NEW s \in States
  PROVE  Height[s + 1] \in 1 .. 12 /\ Lowest[s + 1] \in 1 .. 10
BY DEF States, Height, Lowest

\* The symbols that are read, the states they lead to
LEMMA ShiftTable ==
  ASSUME NEW s \in States, NEW x \in 0 .. 24, Shifts(s, x) \notin {0, YYFINAL}
  PROVE  /\ Shifts(s, x) \in States /\ yystos[Shifts(s, x) + 1] = x
         /\ Above(s, Shifts(s, x))
BY DEF States, Shifts, Pact, Entry, yypact, yycheck, yytable, YYPACT_NINF, YYLAST, Below,
       yystos, YYFINAL, Above

LEMMA NinfTable ==
  ASSUME NEW s \in States
  PROVE  yydefact[s + 1] \in 0 .. 29 /\ (yydefact[s + 1] # 0 /\ s # 0 => Pact(s) = YYPACT_NINF)
BY DEF States, yydefact, yypact, Pact, YYPACT_NINF

\* The states that a rule takes off the stack (and 0), and those that may lie
\* below them
Handles == <<2, 0, 0, 0, 0, 0, 0, 1, 8, 0, 0, 0, 0, 0, 0, 0, 0, 0, 0, 0, 0, 10, 0, 0, 0, 0,
             0, 0, 11, 0, 0, 0, 0, 0, 0, 9, 0, 0, 0, 0, 0, 0, 3, 12, 0, 0, 0, 0, 0, 7, 0,
             0, 0, 0, 0, 0, 6, 0, 0, 0, 0, 0, 0, 5, 19, 21, 23, 27, 0, 0, 5, 19, 21, 23,
             26, 31, 41, 4, 16, 20, 22, 25, 0, 0, 4, 16, 20, 22, 24, 28, 33, 29, 0, 0, 0,
             0, 0, 0, 28, 32, 42, 0, 0, 0, 0, 30, 40, 45, 0, 0, 0, 0, 17, 0, 0, 0, 0, 0, 0,
             14, 0, 0, 0, 0, 0, 0, 13, 0, 0, 0, 0, 0, 0, 15, 0, 0, 0, 0, 0, 0, 43, 0, 0, 0,
             0, 0, 0, 44, 0, 0, 0, 0, 0, 0, 18, 0, 0, 0, 0, 0, 0, 34, 0, 0, 0, 0, 0, 0, 35,
             0, 0, 0, 0, 0, 0, 36, 0, 0, 0, 0, 0, 0, 38, 0, 0, 0, 0, 0, 0, 37, 0, 0, 0, 0,
             0, 0, 39, 0, 0, 0, 0, 0, 0>>
Handle(r, i) == Handles[7 * (r - 1) + i]
Base == <<{}, {0}, {0}, {1}, {1}, {1}, {1}, {1}, {1}, {1}, {1}, {1}, {1}, {24}, {24},
          {24, 32}, {4}, {4}, {4}, {4, 24, 32}, {40}, {40}, {5, 20}, {30}, {30}, {30}, {30},
          {30}, {30}>>
Reducible == (2 .. 29) \ {9}

LEMMA HandleLengths ==
  ASSUME NEW r \in Reducible
  PROVE  yyr2[r + 1] \in 0 .. 7 /\ (yyr2[r + 1] = 0 <=> r = 3)
BY DEF Reducible, yyr2

LEMMA HandleTable ==
  ASSUME NEW r \in Reducible
  PROVE  /\ \A i \in 1 .. yyr2[r + 1] : Handle(r, i) # 0
         /\ \A i \in 2 .. yyr2[r + 1] : Below[Handle(r, i) + 1] = {Handle(r, i - 1)}
         /\ r # 3 => \A s \in Below[Handle(r, 1) + 1] : s \in Base[r]
<1>1. ASSUME NEW i \in 1 .. yyr2[r + 1]
      PROVE  Handle(r, i) # 0
  BY DEF Reducible, Handle, Handles, yyr2
<1>2. ASSUME NEW i \in 2 .. yyr2[r + 1]
      PROVE  Below[Handle(r, i) + 1] = {Handle(r, i - 1)}
  BY DEF Reducible, Handle, Handles, yyr2, Below
<1>3. ASSUME r # 3, NEW s \in Below[Handle(r, 1) + 1]
      PROVE  s \in Base[r]
  BY <1>3 DEF Reducible, Handle, Handles, Below, Base
<1>4. QED
  BY <1>1, <1>2, <1>3

LEMMA TopTable ==
  ASSUME NEW s \in States, NEW r \in Reducible, yydefact[s + 1] = r
  PROVE  IF r = 3 THEN s = 0 ELSE s = Handle(r, yyr2[r + 1])
BY DEF Reducible, Handle, Handles, yyr2, yydefact, States

LEMMA GotoTable ==
  ASSUME NEW r \in Reducible, NEW b \in Base[r]
  PROVE  /\ Above(b, Goto(b, yyr1[r + 1]))
         /\ yystos[Goto(b, yyr1[r + 1]) + 1] = yyr1[r + 1]
<1>1. PICK x \in Int : x = yyr1[r + 1]
  BY DEF Reducible, yyr1
<1>2. \/ x = 26 /\ b = 0
      \/ x = 27 /\ b = 1
      \/ x = 29 /\ b = 1
      \/ x = 30 /\ b = 1
      \/ x = 31 /\ b = 24
      \/ x = 32 /\ b = 24
      \/ x = 32 /\ b = 32
      \/ x = 33 /\ b = 4
      \/ x = 34 /\ b = 4
      \/ x = 34 /\ b = 24
      \/ x = 34 /\ b = 32
      \/ x = 35 /\ b = 40
      \/ x = 36 /\ b = 5
      \/ x = 36 /\ b = 20
      \/ x = 37 /\ b = 30
  BY SMTT(60), <1>1 DEF Reducible, Base, yyr1
<1>3. \/ x = 26 /\ b = 0 /\ Goto(b, x) = 1
      \/ x = 27 /\ b = 1 /\ Goto(b, x) = 8
      \/ x = 29 /\ b = 1 /\ Goto(b, x) = 10
      \/ x = 30 /\ b = 1 /\ Goto(b, x) = 11
      \/ x = 31 /\ b = 24 /\ Goto(b, x) = 28
      \/ x = 32 /\ b = 24 /\ Goto(b, x) = 29
      \/ x = 32 /\ b = 32 /\ Goto(b, x) = 42
      \/ x = 33 /\ b = 4 /\ Goto(b, x) = 16
      \/ x = 34 /\ b = 4 /\ Goto(b, x) = 17
      \/ x = 34 /\ b = 24 /\ Goto(b, x) = 30
      \/ x = 34 /\ b = 32 /\ Goto(b, x) = 30
      \/ x = 35 /\ b = 40 /\ Goto(b, x) = 45
      \/ x = 36 /\ b = 5 /\ Goto(b, x) = 19
      \/ x = 36 /\ b = 20 /\ Goto(b, x) = 22
      \/ x = 37 /\ b = 30 /\ Goto(b, x) = 40
  BY SMTT(60), <1>2 DEF Goto, Entry, yypgoto, yydefgoto, yytable, yycheck, YYNTOKENS, YYLAST
<1>4. Above(b, Goto(b, x)) /\ yystos[Goto(b, x) + 1] = x
  BY SMTT(60), <1>3 DEF Above, Below, yystos
<1>5. QED
  BY <1>1, <1>4, Zenon

\* A stack is one of the automaton's also without its upper part, and with a
\* state above its top.
LEMMA Under ==
  ASSUME NEW ss, Path(ss), NEW k \in 1 .. Len(ss), ss[k] # 0
  PROVE  k >= 2 /\ k - 1 \in 1 .. Len(ss) /\ ss[k - 1] \in Below[ss[k] + 1]
BY DEF Path

LEMMA HandleOnTop ==
  ASSUME NEW ss, Path(ss), NEW r \in Reducible, yydefact[ss[Len(ss)] + 1] = r
  PROVE  /\ Len(ss) - yyr2[r + 1] \in 1 .. Len(ss)
         /\ ss[Len(ss) - yyr2[r + 1]] \in Base[r]
         /\ \A i \in 1 .. yyr2[r + 1] : ss[Len(ss) - yyr2[r + 1] + i] = Handle(r, i)
<1> DEFINE n == Len(ss)
           l == yyr2[r + 1]
<1>1. n \in Nat \ {0} /\ ss[n] \in States
  BY DEF Path
<1>2. CASE r = 3
  <2>1. ss[n] = 0 /\ l = 0
    BY <1>1, <1>2, TopTable, HandleLengths
  <2>2. Base[r] = {0}
    BY <1>2 DEF Base
  <2>3. QED
    BY <1>1, <2>1, <2>2
<1>3. CASE r # 3
  <2>1. /\ l \in 1 .. 7
        /\ \A i \in 1 .. l : Handle(r, i) # 0
        /\ \A i \in 2 .. l : Below[Handle(r, i) + 1] = {Handle(r, i - 1)}
        /\ \A s \in Below[Handle(r, 1) + 1] : s \in Base[r]
        /\ ss[n] = Handle(r, l)
    <3>1. l \in 1 .. 7
      BY <1>3, HandleLengths
    <3>2. ss[n] = Handle(r, l)
      BY <1>1, <1>3, TopTable
    <3> HIDE DEF l
    <3>3. QED
      BY <1>3, <3>1, <3>2, HandleTable DEF l
  <2> HIDE DEF l, n
  <2> DEFINE T == { k \in 0 .. l - 1 : n - k \in 1 .. n /\ ss[n - k] = Handle(r, l - k) }
  <2>2. 0 \in T
    BY <1>1, <2>1
  <2>3. \A k \in 0 .. l : n - k \in 1 .. n /\ k < l /\ ss[n - k] = Handle(r, l - k)
          => n - k - 1 \in 1 .. n /\ ss[n - k - 1] \in Below[Handle(r, l - k) + 1]
    <3>1. TAKE k \in 0 .. l
    <3>2. HAVE n - k \in 1 .. n /\ k < l /\ ss[n - k] = Handle(r, l - k)
    <3>3. l - k \in 1 .. l
      BY <2>1, <3>2
    <3>4. ss[n - k] # 0
      BY <2>1, <3>2, <3>3, Zenon
    <3>5. QED
      BY <3>2, <3>4, Under DEF n
  <2>4. ASSUME NEW k \in 0 .. (l - 1) - 1, k \in T
        PROVE  k + 1 \in T
    <3>1. k \in 0 .. l /\ k < l /\ k + 1 \in 0 .. l - 1 /\ l - k \in 2 .. l
      BY <2>1
    <3>2. n - k - 1 \in 1 .. n /\ ss[n - k - 1] \in Below[Handle(r, l - k) + 1]
      BY <2>3, <2>4, <3>1
    <3>3. ss[n - k - 1] = Handle(r, l - k - 1)
      BY <2>1, <3>1, <3>2
    <3>4. n - (k + 1) = n - k - 1 /\ l - (k + 1) = l - k - 1
      BY <1>1, <2>1
    <3>5. QED
      BY <3>1, <3>2, <3>3, <3>4
  <2>5. 0 .. l - 1 \subseteq T
    <3> HIDE DEF T
    <3>1. l \in 1 .. 7
      BY <2>1
    <3>2. /\ l > 1 => 1 \in T
          /\ l > 2 => 2 \in T
          /\ l > 3 => 3 \in T
      BY <2>2, <2>4, <3>1
    <3>3. /\ l > 4 => 4 \in T
          /\ l > 5 => 5 \in T
          /\ l > 6 => 6 \in T
      BY <2>4, <3>1, <3>2
    <3>4. QED
      BY <2>2, <3>1, <3>2, <3>3
  <2>6. \A i \in 1 .. l : ss[n - l + i] = Handle(r, i)
    <3>1. TAKE i \in 1 .. l
    <3>2. l - i \in T
      BY <2>1, <2>5
    <3>3. n - (l - i) = n - l + i /\ l - (l - i) = i
      BY <1>1, <2>1
    <3>4. QED
      BY <3>2, <3>3
  <2>7. n - l \in 1 .. n /\ ss[n - l] \in Base[r]
    <3>1. l - 1 \in T /\ l - 1 \in 0 .. l /\ l - 1 < l /\ l - (l - 1) = 1
      BY <2>1, <2>5
    <3>2. n - (l - 1) - 1 \in 1 .. n /\ ss[n - (l - 1) - 1] \in Below[Handle(r, l - (l - 1)) + 1]
      BY <2>3, <3>1
    <3>3. n - (l - 1) - 1 = n - l
      BY <1>1, <2>1
    <3>4. QED
      BY <2>1, <3>1, <3>2, <3>3
  <2>8. QED
    BY <2>6, <2>7 DEF n, l
<1>4. QED
  BY <1>2, <1>3

LEMMA PathPart ==
  ASSUME NEW ss, Path(ss), NEW n \in 1 .. Len(ss)
  PROVE  /\ Path(SubSeq(ss, 1, n)) /\ Len(SubSeq(ss, 1, n)) = n
         /\ \A i \in 1 .. n : SubSeq(ss, 1, n)[i] = ss[i]
<1>1. /\ SubSeq(ss, 1, n) \in Seq(States) /\ Len(SubSeq(ss, 1, n)) = n
      /\ \A i \in 1 .. n : SubSeq(ss, 1, n)[i] = ss[i]
  BY SubSeqProperties DEF Path
<1> DEFINE tt == SubSeq(ss, 1, n)
<1> HIDE DEF tt
<1>2. Path(tt)
  <2>1. tt \in Seq(States) /\ Len(tt) = n /\ \A i \in 1 .. n : tt[i] = ss[i]
    BY <1>1 DEF tt
  <2>2. Len(ss) \in Nat /\ n \in Nat /\ n <= Len(ss) /\ n >= 1
    BY DEF Path
  <2>3. tt # << >> /\ tt[1] = 0
    BY <2>1, <2>2 DEF Path
  <2>4. \A i \in 2 .. n : tt[i - 1] \in Below[tt[i] + 1]
    BY SMTT(60), <2>1, <2>2 DEF Path
  <2>5. \A i \in 1 .. n : Lowest[tt[i] + 1] <= i /\ i <= Height[tt[i] + 1]
    BY <2>1, <2>2 DEF Path
  <2>6. \A i \in 3 .. n : tt[3] \in First[tt[i] + 1]
    BY <2>1, <2>2 DEF Path
  <2>7. QED
    BY <2>1, <2>3, <2>4, <2>5, <2>6 DEF Path
<1>3. QED
  BY <1>1, <1>2 DEF tt

LEMMA PathGrows ==
  ASSUME NEW ss, Path(ss), NEW t \in States, Above(ss[Len(ss)], t)
  PROVE  /\ Path(Append(ss, t)) /\ Len(Append(ss, t)) = Len(ss) + 1
         /\ \A i \in 1 .. Len(ss) : Append(ss, t)[i] = ss[i]
         /\ Append(ss, t)[Len(ss) + 1] = t
<1>1. /\ Append(ss, t) \in Seq(States) /\ Len(Append(ss, t)) = Len(ss) + 1
      /\ \A i \in 1 .. Len(ss) : Append(ss, t)[i] = ss[i]
      /\ Append(ss, t)[Len(ss) + 1] = t
  BY AppendProperties DEF Path
<1>2. Lowest[t + 1] <= Len(ss) + 1 /\ Len(ss) + 1 <= Height[t + 1]
  <2>1. /\ ss[Len(ss)] \in States /\ Len(ss) \in Nat
        /\ Lowest[ss[Len(ss)] + 1] <= Len(ss) /\ Len(ss) <= Height[ss[Len(ss)] + 1]
    BY DEF Path
  <2>2. Height[ss[Len(ss)] + 1] + 1 <= Height[t + 1]
          /\ Lowest[t + 1] <= Lowest[ss[Len(ss)] + 1] + 1
    BY <2>1, Heights
  <2>3. QED
    BY SMTT(60), <2>1, <2>2, HeightBound
<1> DEFINE tt == Append(ss, t)
           n == Len(ss)
<1>3. ss[n] \in Below[t + 1] /\ n \in Nat \ {0} /\ ss[1] = 0
  BY DEF Above, Path
<1>4. ASSUME NEW i \in 2 .. n + 1
      PROVE  tt[i - 1] \in Below[tt[i] + 1]
  <2>1. CASE i = n + 1
    BY <1>1, <1>3, <2>1
  <2>2. CASE i # n + 1
    BY <1>1, <1>3, <2>2 DEF Path
  <2>3. QED
    BY <2>1, <2>2
<1>5. ASSUME NEW i \in 1 .. n + 1
      PROVE  Lowest[tt[i] + 1] <= i /\ i <= Height[tt[i] + 1]
  <2>1. CASE i = n + 1
    BY <1>1, <1>2, <2>1
  <2>2. CASE i # n + 1
    BY <1>1, <1>3, <2>2 DEF Path
  <2>3. QED
    BY <2>1, <2>2
<1>6. tt[1] = 0 /\ Len(tt) = n + 1 /\ tt \in Seq(States) /\ tt # << >>
  BY <1>1, <1>3
<1>7. ASSUME NEW i \in 3 .. n + 1
      PROVE  tt[3] \in First[tt[i] + 1]
  <2>1. CASE n >= 3
    <3>1. tt[3] = ss[3] /\ \A k \in 3 .. n : tt[k] = ss[k] /\ ss[3] \in First[ss[k] + 1]
      BY <1>1, <2>1 DEF Path
    <3>2. ss[n] \in States /\ ss[3] \in First[ss[n] + 1]
      BY <1>3, <2>1, <3>1 DEF Path
    <3>3. ss[3] \in First[t + 1]
      BY <3>2, Firsts
    <3>4. CASE i = n + 1
      BY <1>1, <3>1, <3>3, <3>4
    <3>5. CASE i # n + 1
      BY <1>3, <3>1, <3>5
    <3>6. QED
      BY <3>4, <3>5
  <2>2. CASE n < 3
    <3>1. i = 3 /\ n = 2
      <4>1. n \in Nat
        BY <1>3
      <4> HIDE DEF tt, n
      <4>2. QED
        BY <2>2, <4>1
    <3>2. tt[3] = t
      BY <1>1, <3>1
    <3>3. t \in First[t + 1]
      <4>1. ss[2] \in States /\ ss[1] \in States /\ ss[1] \in Below[ss[2] + 1]
        <5>1. 2 \in 1 .. Len(ss) /\ 1 \in 1 .. Len(ss) /\ 2 \in 2 .. Len(ss) /\ 2 - 1 = 1
          BY <3>1
        <5>2. ss[2 - 1] \in Below[ss[2] + 1] /\ ss \in Seq(States)
          BY <5>1 DEF Path
        <5>3. QED
          BY <5>1, <5>2
      <4>2. ss[2] # 0
        BY <4>1 DEF Below
      <4>3. Above(ss[1], ss[2])
        BY <4>1, <4>2 DEF Above, States
      <4>4. ss[2] = 1
        BY <1>3, <4>1, <4>3, Roots
      <4>5. QED
        BY <3>1, <4>1, <4>4, Roots
    <3>4. QED
      BY <3>1, <3>2, <3>3
  <2>3. QED
    BY <1>3, <2>1, <2>2
<1>8. Path(tt)
  <2> HIDE DEF tt
  <2>1. QED
    BY <1>4, <1>5, <1>6, <1>7 DEF Path
<1>9. QED
  BY <1>1, <1>8
-----------------------------------------------------------------------------
(* The values *)

Comparators == {"EQ", "NE", "LT", "LE", "GT", "GE"}
Conds == [attr : 0 .. 2, comp : Comparators, value : String]
Value == String \cup 0 .. 4 \cup Comparators \cup Conds \cup Seq(Conds)

\* What a symbol's value can be
Fits(sym, v) ==
  /\ sym \in {T_INTEGER, T_STRING, T_ID, 35, 36} => v \in String
  /\ sym = 33 => v \in 0 .. 4
  /\ sym = 34 => v \in 0 .. 2
  /\ sym = 37 => v \in Comparators
  /\ sym = 32 => v \in Conds
  /\ sym = 31 => v \in Seq(Conds) /\ v # << >>

Typed(ss, vs) ==
  /\ vs \in Seq(Value) /\ Len(vs) = Len(ss)
  /\ \A i \in 1 .. Len(ss) : Fits(yystos[ss[i] + 1], vs[i])

LEMMA TypedGrows ==
  ASSUME NEW ss \in Seq(States), NEW vs, Typed(ss, vs), NEW t \in States, NEW v \in Value,
         Fits(yystos[t + 1], v)
  PROVE  /\ Typed(Append(ss, t), Append(vs, v))
         /\ \A i \in 1 .. Len(ss) : Append(vs, v)[i] = vs[i]
         /\ Append(vs, v)[Len(ss) + 1] = v
<1>1. /\ Len(Append(ss, t)) = Len(ss) + 1 /\ Append(ss, t)[Len(ss) + 1] = t
      /\ \A i \in 1 .. Len(ss) : Append(ss, t)[i] = ss[i]
  BY AppendProperties
<1>2. /\ Append(vs, v) \in Seq(Value) /\ Len(Append(vs, v)) = Len(ss) + 1
      /\ Append(vs, v)[Len(ss) + 1] = v
      /\ \A i \in 1 .. Len(ss) : Append(vs, v)[i] = vs[i]
  BY AppendProperties DEF Typed
<1>3. Len(ss) \in Nat /\ \A i \in 1 .. Len(ss) : Fits(yystos[ss[i] + 1], vs[i])
  BY DEF Typed
<1> DEFINE tt == Append(ss, t)
           ww == Append(vs, v)
<1> HIDE DEF tt, ww
<1>4. ASSUME NEW i \in 1 .. Len(tt)
      PROVE  Fits(yystos[tt[i] + 1], ww[i])
  <2>1. CASE i = Len(ss) + 1
    BY <1>1, <1>2, <2>1 DEF tt, ww
  <2>2. CASE i # Len(ss) + 1
    <3>1. i \in 1 .. Len(ss)
      BY <1>1, <1>3, <2>2 DEF tt
    <3>2. tt[i] = ss[i] /\ ww[i] = vs[i]
      BY <1>1, <1>2, <3>1 DEF tt, ww
    <3>3. QED
      BY <1>3, <3>1, <3>2
  <2>3. QED
    BY <2>1, <2>2
<1>5. Typed(tt, ww)
  BY <1>1, <1>2, <1>4 DEF Typed, tt, ww
<1>6. QED
  BY <1>2, <1>5 DEF tt, ww

LEMMA TypedPart ==
  ASSUME NEW ss \in Seq(States), NEW vs, Typed(ss, vs), NEW n \in 1 .. Len(ss)
  PROVE  /\ Typed(SubSeq(ss, 1, n), SubSeq(vs, 1, n))
         /\ \A i \in 1 .. n : SubSeq(vs, 1, n)[i] = vs[i]
<1>1. /\ Len(SubSeq(ss, 1, n)) = n
      /\ \A i \in 1 .. n : SubSeq(ss, 1, n)[i] = ss[i]
  BY SubSeqProperties
<1>2. /\ SubSeq(vs, 1, n) \in Seq(Value) /\ Len(SubSeq(vs, 1, n)) = n
      /\ \A i \in 1 .. n : SubSeq(vs, 1, n)[i] = vs[i]
  <2>1. vs \in Seq(Value) /\ n \in 1 .. Len(vs)
    BY DEF Typed
  <2>2. QED
    BY <2>1, SubSeqProperties
<1>3. Len(ss) \in Nat /\ \A i \in 1 .. Len(ss) : Fits(yystos[ss[i] + 1], vs[i])
  BY DEF Typed
<1> DEFINE tt == SubSeq(ss, 1, n)
           ww == SubSeq(vs, 1, n)
<1> HIDE DEF tt, ww
<1>4. ASSUME NEW i \in 1 .. Len(tt)
      PROVE  Fits(yystos[tt[i] + 1], ww[i])
  <2>1. i \in 1 .. n /\ i \in 1 .. Len(ss)
    BY <1>1, <1>3 DEF tt
  <2>2. tt[i] = ss[i] /\ ww[i] = vs[i]
    BY <1>1, <1>2, <2>1 DEF tt, ww
  <2>3. QED
    BY <1>3, <2>1, <2>2
<1>5. Typed(tt, ww)
  BY <1>1, <1>2, <1>4 DEF Typed, tt, ww
<1>6. QED
  BY <1>2, <1>5 DEF tt, ww

-----------------------------------------------------------------------------
(* The owners: own[i] is what place i of the stack owns, 0 the look-ahead. *)

Exact(own, n, hp) ==
  /\ \A i, j \in 0 .. n : \A a \in DOMAIN own[i], b \in DOMAIN own[j] :
       own[i][a] = own[j][b] => i = j /\ a = b
  /\ \A i \in 0 .. n : \A a \in DOMAIN own[i] : own[i][a] \in String /\ hp[own[i][a]] # Free

\* A string that lies above place m
Lies(own, m, n, s) == \E i \in m + 1 .. n : \E a \in DOMAIN own[i] : own[i][a] = s

\* A step that keeps the places up to m, and puts one above them that owns what
\* it owns in place of those it drops, or of the look-ahead; it can free what it
\* drops.
Moves(own, n, m, hp, own2, hp2) ==
  /\ own2[0] = own[0] \/ DOMAIN own2[0] = {}
  /\ \A i \in 1 .. m : own2[i] = own[i]
  /\ \A a, b \in DOMAIN own2[m + 1] : own2[m + 1][a] = own2[m + 1][b] => a = b
  /\ \A a \in DOMAIN own2[m + 1] :
       \/ Lies(own, m, n, own2[m + 1][a])
       \/ DOMAIN own2[0] = {} /\ \E b \in DOMAIN own[0] : own[0][b] = own2[m + 1][a]
  /\ \A s \in String : hp[s] # Free =>
       \/ hp2[s] # Free
       \/ Lies(own, m, n, s) /\ \A a \in DOMAIN own2[m + 1] : own2[m + 1][a] # s

\* It keeps the owners exact.
LEMMA OwnersMove ==
  ASSUME NEW n \in Nat, NEW m \in 0 .. n, NEW own, NEW hp, Exact(own, n, hp),
         NEW own2, NEW hp2, Moves(own, n, m, hp, own2, hp2)
  PROVE  Exact(own2, m + 1, hp2)
<1>1. /\ own2[0] = own[0] \/ DOMAIN own2[0] = {}
      /\ \A i \in 1 .. m : own2[i] = own[i]
      /\ \A a, b \in DOMAIN own2[m + 1] : own2[m + 1][a] = own2[m + 1][b] => a = b
      /\ \A a \in DOMAIN own2[m + 1] :
           \/ Lies(own, m, n, own2[m + 1][a])
           \/ DOMAIN own2[0] = {} /\ \E b \in DOMAIN own[0] : own[0][b] = own2[m + 1][a]
      /\ \A s \in String : hp[s] # Free =>
           \/ hp2[s] # Free
           \/ Lies(own, m, n, s) /\ \A a \in DOMAIN own2[m + 1] : own2[m + 1][a] # s
  BY DEF Moves
<1> DEFINE Kept(i) == i \in 0 .. m /\ own2[i] = own[i]
<1>2. ASSUME NEW i \in 0 .. m, NEW a \in DOMAIN own2[i]
      PROVE  Kept(i)
  BY <1>1, <1>2
<1>3. ASSUME NEW a \in DOMAIN own2[m + 1], NEW i \in 0 .. m, NEW b \in DOMAIN own2[i]
      PROVE  own2[m + 1][a] # own2[i][b]
  <2>1. own2[i] = own[i] /\ i \in 0 .. n
    BY <1>2
  <2>2. CASE Lies(own, m, n, own2[m + 1][a])
    <3>1. PICK k \in m + 1 .. n : \E c \in DOMAIN own[k] : own[k][c] = own2[m + 1][a]
      BY <2>2 DEF Lies
    <3>2. PICK c \in DOMAIN own[k] : own[k][c] = own2[m + 1][a]
      BY <3>1
    <3>3. k \in 0 .. n /\ k # i
      OBVIOUS
    <3>4. QED
      BY <2>1, <3>2, <3>3 DEF Exact
  <2>3. CASE DOMAIN own2[0] = {} /\ \E b2 \in DOMAIN own[0] : own[0][b2] = own2[m + 1][a]
    <3>1. PICK c \in DOMAIN own[0] : own[0][c] = own2[m + 1][a]
      BY <2>3
    <3>2. i # 0 /\ 0 \in 0 .. n
      BY <2>3
    <3>3. QED
      BY <2>1, <3>1, <3>2 DEF Exact
  <2>4. QED
    BY <1>1, <2>2, <2>3
<1>4. ASSUME NEW i \in 0 .. m + 1, NEW j \in 0 .. m + 1, NEW a \in DOMAIN own2[i],
             NEW b \in DOMAIN own2[j], own2[i][a] = own2[j][b]
      PROVE  i = j /\ a = b
  <2>1. CASE i \in 0 .. m /\ j \in 0 .. m
    <3>1. own2[i] = own[i] /\ own2[j] = own[j] /\ i \in 0 .. n /\ j \in 0 .. n
      BY <1>2, <2>1
    <3>2. QED
      BY <1>4, <3>1 DEF Exact
  <2>2. CASE i = m + 1 /\ j = m + 1
    BY <1>1, <1>4, <2>2
  <2>3. CASE i = m + 1 /\ j # m + 1
    BY <1>3, <1>4, <2>3
  <2>4. CASE i # m + 1 /\ j = m + 1
    BY <1>3, <1>4, <2>4
  <2>5. QED
    BY <2>1, <2>2, <2>3, <2>4
<1>5. ASSUME NEW i \in 0 .. m + 1, NEW a \in DOMAIN own2[i]
      PROVE  own2[i][a] \in String /\ hp2[own2[i][a]] # Free
  <2>1. CASE i \in 0 .. m
    <3>1. own2[i] = own[i] /\ i \in 0 .. n
      BY <1>2, <2>1
    <3>2. own[i][a] \in String /\ hp[own[i][a]] # Free
      BY <3>1 DEF Exact
    <3>3. ~Lies(own, m, n, own[i][a])
      <4>1. SUFFICES ASSUME NEW k \in m + 1 .. n, NEW c \in DOMAIN own[k],
                            own[k][c] = own[i][a]
                     PROVE  FALSE
        BY DEF Lies
      <4>2. k \in 0 .. n /\ k # i
        BY <2>1
      <4>3. QED
        BY <3>1, <4>1, <4>2 DEF Exact
    <3>4. QED
      BY <1>1, <3>1, <3>2, <3>3
  <2>2. CASE i = m + 1
    <3>1. own2[i][a] \in String /\ hp[own2[i][a]] # Free
      <4>1. CASE Lies(own, m, n, own2[m + 1][a])
        <5>1. PICK k \in m + 1 .. n : \E c \in DOMAIN own[k] : own[k][c] = own2[m + 1][a]
          BY <4>1 DEF Lies
        <5>2. k \in 0 .. n
          OBVIOUS
        <5>3. QED
          BY <2>2, <5>1, <5>2 DEF Exact
      <4>2. CASE \E b2 \in DOMAIN own[0] : own[0][b2] = own2[m + 1][a]
        <5>1. 0 \in 0 .. n
          OBVIOUS
        <5>2. QED
          BY <2>2, <4>2, <5>1 DEF Exact
      <4>3. QED
        BY <1>1, <2>2, <4>1, <4>2
    <3>2. QED
      BY <1>1, <2>2, <3>1
  <2>3. QED
    BY <2>1, <2>2
<1>6. QED
  BY <1>4, <1>5 DEF Exact

\* The owners of a stack and a look-ahead
Owning(ss, vs, c, v) ==
  [i \in 0 .. Len(ss) |-> IF i = 0 THEN Owned(c, v) ELSE Owned(yystos[ss[i] + 1], vs[i])]

LEMMA OwnedBy ==
  ASSUME NEW sym, NEW v
  PROVE  /\ sym \notin {T_INTEGER, T_STRING, T_ID, 35, 36, 32, 31} => DOMAIN Owned(sym, v) = {}
         /\ sym \in {T_INTEGER, T_STRING, T_ID, 35, 36} =>
              DOMAIN Owned(sym, v) = {1} /\ Owned(sym, v)[1] = v
         /\ sym = 32 => DOMAIN Owned(sym, v) = {1} /\ Owned(sym, v)[1] = v.value
         /\ sym = 31 => /\ DOMAIN Owned(sym, v) = DOMAIN v
                        /\ \A i \in DOMAIN v : Owned(sym, v)[i] = v[i].value
BY DEF Owned, T_INTEGER, T_STRING, T_ID

LEMMA HeapOwners ==
  ASSUME Len(yyss) \in Nat
  PROVE  HeapExact <=> Exact(Owning(yyss, yyvs, yychar, yylval), Len(yyss), heap)
<1> DEFINE own == Owning(yyss, yyvs, yychar, yylval)
           n == Len(yyss)
<1>1. \A i \in 0 .. n : own[i] = Owns(i)
  BY DEF Owning, Owns
<1> HIDE DEF own, n
<1>2. Places = UNION { {i} \X DOMAIN own[i] : i \in 0 .. n }
  BY <1>1 DEF Places, n
<1>3. \A p \in Places : p[1] \in 0 .. n /\ p[2] \in DOMAIN own[p[1]] /\ Held[p] = own[p[1]][p[2]]
                          /\ p = <<p[1], p[2]>>
  BY <1>1, <1>2 DEF Held
<1>4. \A i \in 0 .. n : \A a \in DOMAIN own[i] : <<i, a>> \in Places /\ Held[<<i, a>>] = own[i][a]
  BY <1>1, <1>2 DEF Held
<1>5. DOMAIN Held = Places
  BY DEF Held
<1>6. ASSUME HeapExact
      PROVE  Exact(own, n, heap)
  <2>1. ASSUME NEW i \in 0 .. n, NEW j \in 0 .. n, NEW a \in DOMAIN own[i],
               NEW b \in DOMAIN own[j], own[i][a] = own[j][b]
        PROVE  i = j /\ a = b
    <3>1. <<i, a>> \in DOMAIN Held /\ <<j, b>> \in DOMAIN Held
            /\ Held[<<i, a>>] = Held[<<j, b>>]
      BY <1>4, <1>5, <2>1
    <3>2. <<i, a>> = <<j, b>>
      BY <1>6, <3>1 DEF HeapExact, IsInjective
    <3>3. QED
      BY <3>2
  <2>2. ASSUME NEW i \in 0 .. n, NEW a \in DOMAIN own[i]
        PROVE  own[i][a] \in String /\ heap[own[i][a]] # Free
    <3>1. own[i][a] \in Range(Held)
      BY <1>4, <1>5 DEF Range
    <3>2. QED
      BY <1>6, <3>1 DEF HeapExact
  <2>3. QED
    BY <2>1, <2>2 DEF Exact
<1>7. ASSUME Exact(own, n, heap)
      PROVE  HeapExact
  <2>1. ASSUME NEW p \in Places, NEW q \in Places, Held[p] = Held[q]
        PROVE  p = q
    <3>1. p[1] = q[1] /\ p[2] = q[2]
      BY <1>3, <1>7, <2>1 DEF Exact
    <3>2. QED
      BY <1>3, <3>1
  <2>2. ASSUME NEW p \in Places
        PROVE  Held[p] \in String /\ heap[Held[p]] # Free
    BY <1>3, <1>7 DEF Exact
  <2>3. QED
    BY <1>5, <2>1, <2>2 DEF HeapExact, IsInjective, Range
<1>8. QED
  BY <1>6, <1>7 DEF own, n

-----------------------------------------------------------------------------
(* A reduction *)

Reduced(ss, r) ==
  LET below == SubSeq(ss, 1, Len(ss) - yyr2[r + 1])
  IN Append(below, Goto(Last(below), yyr1[r + 1]))
ReducedTo(ss, vs, r, v) == Append(SubSeq(vs, 1, Len(ss) - yyr2[r + 1]), v)

\* The symbols of the right-hand side, and the strings they own
Symbol(r, i) == yystos[Handle(r, i) + 1]
RhsOwns(ss, vs, r, s) ==
  \E i \in 1 .. yyr2[r + 1] :
    LET o == Owned(Symbol(r, i), vs[Len(ss) - yyr2[r + 1] + i])
    IN \E a \in DOMAIN o : o[a] = s

LEMMA RhsFits ==
  ASSUME NEW ss, NEW vs, Path(ss), Typed(ss, vs),
         NEW r \in Reducible, yydefact[ss[Len(ss)] + 1] = r
  PROVE  \A i \in 1 .. yyr2[r + 1] :
           /\ vs[Len(ss) - yyr2[r + 1] + i] \in Value
           /\ Fits(Symbol(r, i), vs[Len(ss) - yyr2[r + 1] + i])
<1> DEFINE l == yyr2[r + 1]
           n == Len(ss)
<1>1. n - l \in 1 .. n /\ \A i \in 1 .. l : ss[n - l + i] = Handle(r, i)
  BY HandleOnTop
<1>2. n \in Nat /\ l \in 0 .. 7
  BY HandleLengths DEF Path
<1>3. \A i \in 1 .. n : vs[i] \in Value /\ Fits(yystos[ss[i] + 1], vs[i])
  BY DEF Typed
<1> HIDE DEF l, n
<1>4. \A i \in 1 .. l : n - l + i \in 1 .. n
  BY <1>1, <1>2
<1>5. \A i \in 1 .. l : vs[n - l + i] \in Value /\ Fits(Symbol(r, i), vs[n - l + i])
  BY <1>1, <1>3, <1>4 DEF Symbol
<1>6. QED
  BY <1>5 DEF l, n

LEMMA ReducePath ==
  ASSUME NEW ss, Path(ss), NEW r \in Reducible, yydefact[ss[Len(ss)] + 1] = r
  PROVE  /\ Path(Reduced(ss, r)) /\ Len(Reduced(ss, r)) = Len(ss) - yyr2[r + 1] + 1
         /\ \A i \in 1 .. Len(ss) - yyr2[r + 1] : Reduced(ss, r)[i] = ss[i]
         /\ yystos[Reduced(ss, r)[Len(ss) - yyr2[r + 1] + 1] + 1] = yyr1[r + 1]
<1> DEFINE m == Len(ss) - yyr2[r + 1]
           b == SubSeq(ss, 1, m)
           t == Goto(ss[m], yyr1[r + 1])
<1>1. m \in 1 .. Len(ss) /\ ss[m] \in Base[r]
  BY HandleOnTop
<1>2. Above(ss[m], t) /\ yystos[t + 1] = yyr1[r + 1] /\ t \in States
  <2>1. Above(ss[m], t) /\ yystos[t + 1] = yyr1[r + 1]
    BY <1>1, GotoTable
  <2>2. QED
    BY <2>1 DEF Above, States
<1> HIDE DEF t, m
<1>3. Path(b) /\ Len(b) = m /\ \A i \in 1 .. m : b[i] = ss[i]
  BY <1>1, PathPart
<1>4. Last(b) = ss[m]
  BY <1>1, <1>3 DEF Last
<1>5. Reduced(ss, r) = Append(b, t)
  BY <1>4 DEF Reduced, t, m
<1> HIDE DEF b
<1>6. Above(b[Len(b)], t)
  BY <1>1, <1>2, <1>3
<1>7. Path(Append(b, t)) /\ Len(Append(b, t)) = m + 1 /\ Append(b, t)[m + 1] = t
        /\ \A i \in 1 .. m : Append(b, t)[i] = b[i]
  BY <1>2, <1>3, <1>6, PathGrows
<1>8. QED
  BY <1>2, <1>3, <1>5, <1>7 DEF m

\* The new symbol owns strings of the right-hand side, each once; only what it
\* does not own is freed.
Replaces(ss, vs, r, new, hp, hp2) ==
  /\ \A a, b \in DOMAIN new : new[a] = new[b] => a = b
  /\ \A a \in DOMAIN new : RhsOwns(ss, vs, r, new[a])
  /\ \A s \in String : hp[s] # Free =>
       \/ hp2[s] # Free
       \/ RhsOwns(ss, vs, r, s) /\ \A a \in DOMAIN new : new[a] # s

LEMMA ReduceTyped ==
  ASSUME NEW ss, NEW vs, NEW r \in Reducible, NEW v \in Value, Path(ss), Typed(ss, vs),
         yydefact[ss[Len(ss)] + 1] = r, Fits(yyr1[r + 1], v)
  PROVE  LET m == Len(ss) - yyr2[r + 1]
             vs2 == ReducedTo(ss, vs, r, v)
         IN /\ Typed(Reduced(ss, r), vs2)
            /\ \A i \in 1 .. m : vs2[i] = vs[i]
            /\ vs2[m + 1] = v
<1> DEFINE m == Len(ss) - yyr2[r + 1]
           ss2 == Reduced(ss, r)
           vs2 == ReducedTo(ss, vs, r, v)
           b == SubSeq(ss, 1, m)
           w == SubSeq(vs, 1, m)
           t == Goto(Last(b), yyr1[r + 1])
<1>1. ss \in Seq(States) /\ m \in 1 .. Len(ss)
  BY HandleOnTop DEF Path
<1>2. Typed(b, w) /\ \A i \in 1 .. m : w[i] = vs[i]
  BY <1>1, TypedPart
<1>3. b \in Seq(States) /\ Len(b) = m
  BY <1>1, SubSeqProperties
<1>4. ss2 = Append(b, t) /\ vs2 = Append(w, v)
  BY DEF Reduced, ReducedTo
<1>5. /\ Path(ss2) /\ Len(ss2) = m + 1 /\ yystos[ss2[m + 1] + 1] = yyr1[r + 1]
  BY ReducePath
<1> HIDE DEF b, t, w, ss2, vs2, m
<1>6. Append(b, t)[m + 1] = t
  BY <1>3, AppendProperties
<1>7. t \in States /\ yystos[t + 1] = yyr1[r + 1]
  <2>1. m + 1 \in 1 .. Len(ss2) /\ ss2 \in Seq(States)
    BY <1>1, <1>5 DEF Path
  <2>2. ss2[m + 1] \in States
    BY <2>1
  <2>3. QED
    BY <1>4, <1>5, <1>6, <2>2
<1>8. Fits(yystos[t + 1], v)
  BY <1>7
<1>9. /\ Typed(Append(b, t), Append(w, v))
      /\ \A i \in 1 .. Len(b) : Append(w, v)[i] = w[i]
      /\ Append(w, v)[Len(b) + 1] = v
  BY ZenonT(60), <1>2, <1>3, <1>7, <1>8, TypedGrows
<1>10. QED
  BY <1>2, <1>3, <1>4, <1>9 DEF ss2, vs2, m

LEMMA ReduceKeeps ==
  ASSUME NEW ss, NEW vs, NEW c, NEW lv, NEW hp, NEW hp2, NEW r \in Reducible, NEW v \in Value,
         Path(ss), Typed(ss, vs), Exact(Owning(ss, vs, c, lv), Len(ss), hp),
         yydefact[ss[Len(ss)] + 1] = r, Fits(yyr1[r + 1], v),
         Replaces(ss, vs, r, Owned(yyr1[r + 1], v), hp, hp2)
  PROVE  LET ss2 == Reduced(ss, r)
             vs2 == ReducedTo(ss, vs, r, v)
         IN Path(ss2) /\ Typed(ss2, vs2) /\ Exact(Owning(ss2, vs2, c, lv), Len(ss2), hp2)
<1> DEFINE n == Len(ss)
           l == yyr2[r + 1]
           m == n - l
           ss2 == Reduced(ss, r)
           vs2 == ReducedTo(ss, vs, r, v)
           own == Owning(ss, vs, c, lv)
           own2 == Owning(ss2, vs2, c, lv)
           new == Owned(yyr1[r + 1], v)
<1>1. n \in Nat /\ l \in 0 .. 7 /\ m \in 1 .. n /\ \A i \in 1 .. l : ss[m + i] = Handle(r, i)
  <2>1. n \in Nat /\ l \in 0 .. 7
    BY HandleLengths DEF Path
  <2>2. m \in 1 .. n /\ \A i \in 1 .. l : ss[m + i] = Handle(r, i)
    BY HandleOnTop
  <2>3. QED
    BY <2>1, <2>2
<1>2. /\ Path(ss2) /\ Len(ss2) = m + 1 /\ \A i \in 1 .. m : ss2[i] = ss[i]
      /\ yystos[ss2[m + 1] + 1] = yyr1[r + 1]
  BY ReducePath
<1>3. /\ Typed(ss2, vs2) /\ \A i \in 1 .. m : vs2[i] = vs[i]
      /\ vs2[m + 1] = v
  BY ReduceTyped DEF m, l, n, ss2, vs2
<1> HIDE DEF ss2, vs2
<1>4. /\ \A i \in 0 .. m : own2[i] = own[i]
      /\ own2[m + 1] = new
  <2>1. m + 1 \in 0 .. Len(ss2) /\ m + 1 # 0 /\ m \in Nat
    BY <1>1, <1>2
  <2>2. own2[m + 1] = new
    BY <1>2, <1>3, <2>1 DEF Owning
  <2>3. ASSUME NEW i \in 1 .. m
        PROVE  own2[i] = own[i]
    <3>1. i \in 0 .. Len(ss2) /\ i \in 0 .. Len(ss) /\ i # 0
      BY <1>1, <1>2
    <3>2. QED
      BY <1>2, <1>3, <3>1 DEF Owning
  <2>4. own2[0] = own[0]
    <3>1. 0 \in 0 .. Len(ss2) /\ 0 \in 0 .. Len(ss)
      BY <1>1, <1>2
    <3>2. QED
      BY <3>1 DEF Owning
  <2>5. QED
    BY <2>1, <2>2, <2>3, <2>4
<1>5. \A s : RhsOwns(ss, vs, r, s) => Lies(own, m, n, s)
  <2>1. ASSUME NEW s, RhsOwns(ss, vs, r, s)
        PROVE  Lies(own, m, n, s)
    <3>1. PICK i \in 1 .. l : \E a \in DOMAIN Owned(Symbol(r, i), vs[m + i]) :
                                 Owned(Symbol(r, i), vs[m + i])[a] = s
      BY <2>1 DEF RhsOwns
    <3>2. m + i \in m + 1 .. n /\ m + i \in 0 .. Len(ss) /\ m + i # 0
      BY <1>1
    <3>3. own[m + i] = Owned(Symbol(r, i), vs[m + i])
      BY <1>1, <3>2 DEF Owning, Symbol
    <3>4. QED
      BY <3>1, <3>2, <3>3 DEF Lies
  <2>2. QED
    BY <2>1
<1> HIDE DEF own, own2, new
<1>6. /\ \A a, b \in DOMAIN new : new[a] = new[b] => a = b
      /\ \A a \in DOMAIN new : RhsOwns(ss, vs, r, new[a])
      /\ \A s \in String : hp[s] # Free =>
           \/ hp2[s] # Free
           \/ RhsOwns(ss, vs, r, s) /\ \A a \in DOMAIN new : new[a] # s
      /\ Exact(own, n, hp)
  BY DEF new, own, Replaces
<1> HIDE DEF n, m
<1>7. Exact(own2, m + 1, hp2)
  <2>1. n \in Nat /\ m \in 0 .. n /\ 0 \in 0 .. m /\ \A i \in 1 .. m : i \in 0 .. m
    BY <1>1
  <2>2. own2[0] = own[0] \/ DOMAIN own2[0] = {}
    BY <1>4, <2>1
  <2>3. \A i \in 1 .. m : own2[i] = own[i]
    BY <1>4, <2>1
  <2>4. \A a, b \in DOMAIN own2[m + 1] : own2[m + 1][a] = own2[m + 1][b] => a = b
    BY <1>4, <1>6
  <2>5. \A a \in DOMAIN own2[m + 1] :
           \/ Lies(own, m, n, own2[m + 1][a])
           \/ DOMAIN own2[0] = {} /\ \E b \in DOMAIN own[0] : own[0][b] = own2[m + 1][a]
    BY <1>4, <1>5, <1>6
  <2>6. \A s \in String : hp[s] # Free =>
           \/ hp2[s] # Free
           \/ Lies(own, m, n, s) /\ \A a \in DOMAIN own2[m + 1] : own2[m + 1][a] # s
    BY <1>4, <1>5, <1>6
  <2>7. QED
    <3>1. Moves(own, n, m, hp, own2, hp2)
      BY <2>2, <2>3, <2>4, <2>5, <2>6 DEF Moves
    <3>2. QED
      BY <1>6, <2>1, <3>1, OwnersMove
<1>8. QED
  BY <1>2, <1>3, <1>7 DEF ss2, vs2, own2, n, m

-----------------------------------------------------------------------------
(* A token is shifted, or the token error above a state that shifts it *)

LEMMA PushKeeps ==
  ASSUME NEW ss, NEW vs, NEW c, NEW c2, NEW lv, NEW hp, NEW m \in 1 .. Len(ss),
         NEW t \in States, NEW v \in Value,
         Path(ss), Typed(ss, vs), Exact(Owning(ss, vs, c, lv), Len(ss), hp),
         Above(ss[m], t), Fits(yystos[t + 1], v),
         Owned(c2, lv) = Owned(c, lv) \/ DOMAIN Owned(c2, lv) = {},
         \/ DOMAIN Owned(yystos[t + 1], v) = {}
         \/ DOMAIN Owned(c2, lv) = {} /\ Owned(yystos[t + 1], v) = Owned(c, lv)
  PROVE  LET ss2 == Append(SubSeq(ss, 1, m), t)
             vs2 == Append(SubSeq(vs, 1, m), v)
         IN Path(ss2) /\ Typed(ss2, vs2) /\ Exact(Owning(ss2, vs2, c2, lv), Len(ss2), hp)
<1> DEFINE n == Len(ss)
           b == SubSeq(ss, 1, m)
           w == SubSeq(vs, 1, m)
           ss2 == Append(b, t)
           vs2 == Append(w, v)
           own == Owning(ss, vs, c, lv)
           own2 == Owning(ss2, vs2, c2, lv)
<1>1. n \in Nat /\ m \in 1 .. n /\ ss \in Seq(States)
  BY DEF Path
<1>2. Path(b) /\ Len(b) = m /\ \A i \in 1 .. m : b[i] = ss[i]
  BY PathPart
<1>3. Typed(b, w) /\ \A i \in 1 .. m : w[i] = vs[i]
  BY <1>1, TypedPart
<1> HIDE DEF b, w
<1>4. b \in Seq(States) /\ Above(b[Len(b)], t)
  BY <1>2 DEF Path
<1>5. /\ Path(ss2) /\ Len(ss2) = m + 1 /\ ss2[m + 1] = t
      /\ \A i \in 1 .. m : ss2[i] = b[i]
  BY <1>2, <1>4, PathGrows
<1>6. /\ Typed(ss2, vs2) /\ vs2[m + 1] = v
      /\ \A i \in 1 .. m : vs2[i] = w[i]
  <2>1. /\ Typed(ss2, vs2) /\ vs2[Len(b) + 1] = v
        /\ \A i \in 1 .. Len(b) : vs2[i] = w[i]
    BY ZenonT(60), <1>3, <1>4, TypedGrows
  <2>2. QED
    BY <1>2, <2>1
<1> HIDE DEF ss2, vs2
<1>7. /\ \A i \in 1 .. m : own2[i] = own[i]
      /\ own2[m + 1] = Owned(yystos[t + 1], v)
      /\ own2[0] = Owned(c2, lv) /\ own[0] = Owned(c, lv)
  <2>1. m + 1 \in 0 .. Len(ss2) /\ m + 1 # 0 /\ 0 \in 0 .. n /\ 0 \in 0 .. Len(ss2)
    BY <1>1, <1>5
  <2>2. own2[m + 1] = Owned(yystos[t + 1], v) /\ own2[0] = Owned(c2, lv) /\ own[0] = Owned(c, lv)
    BY <1>5, <1>6, <2>1 DEF Owning
  <2>3. ASSUME NEW i \in 1 .. m
        PROVE  own2[i] = own[i]
    <3>1. i \in 0 .. Len(ss2) /\ i \in 0 .. Len(ss) /\ i # 0
      BY <1>1, <1>5
    <3>2. QED
      BY <1>2, <1>3, <1>5, <1>6, <3>1 DEF Owning
  <2>4. QED
    BY <2>2, <2>3
<1>8. Exact(own, n, hp)
  OBVIOUS
<1> HIDE DEF own, own2, n
<1>9. Exact(own2, m + 1, hp)
  <2>1. \A a, b1 \in DOMAIN own2[m + 1] : own2[m + 1][a] = own2[m + 1][b1] => a = b1
    <3>1. CASE DOMAIN own2[m + 1] = {}
      BY <3>1
    <3>2. CASE own2[m + 1] = own[0]
      <4>1. 0 \in 0 .. n
        BY <1>1
      <4>2. QED
        BY <1>8, <3>2, <4>1 DEF Exact
    <3>3. QED
      BY <1>7, <3>1, <3>2
  <2>2. \A a \in DOMAIN own2[m + 1] :
           \/ Lies(own, m, n, own2[m + 1][a])
           \/ DOMAIN own2[0] = {} /\ \E b1 \in DOMAIN own[0] : own[0][b1] = own2[m + 1][a]
    BY <1>7
  <2>3. Moves(own, n, m, hp, own2, hp)
    BY <1>7, <2>1, <2>2 DEF Moves
  <2>4. m \in 0 .. n
    BY <1>1
  <2>5. QED
    BY <1>1, <1>8, <2>3, <2>4, OwnersMove
<1>10. QED
  BY <1>5, <1>6, <1>9 DEF ss2, vs2, own2, b, w

-----------------------------------------------------------------------------
(* The invariant *)

Symbols == {YYEMPTY, YYEOF} \cup T_SELECT .. T_LF \cup {T_INTEGER, T_STRING, T_ID} \cup Comparator

Rest ==
  /\ yychar \in Symbols
  /\ yylval \in String \cup {0} /\ yyerrstatus \in 0 .. 3
  /\ heap \in [String -> {Free} \cup Name \cup Literal] /\ {told, misnamed, before} \subseteq BOOLEAN
  /\ result \in {"running", "quit", "accepted", "aborted"}

Inv ==
  /\ Path(yyss) /\ Typed(yyss, yyvs)
  /\ Exact(Owning(yyss, yyvs, yychar, yylval), Len(yyss), heap)
  /\ Rest

LEMMA InvTypes == Inv => TypeOK
<1> SUFFICES ASSUME Inv PROVE TypeOK
  OBVIOUS
<1>1. yyss \in Seq(States) /\ Len(yyss) \in Nat /\ Len(yyss) # 0
  BY EmptySeq DEF Inv, Path
<1>2. Len(yyss) <= 12
  <2>1. Len(yyss) \in 1 .. Len(yyss)
    BY <1>1
  <2>2. yyss[Len(yyss)] \in States /\ Len(yyss) <= Height[yyss[Len(yyss)] + 1]
    BY <1>1, <2>1 DEF Inv, Path
  <2>3. QED
    BY <1>1, <2>2, HeightBound
<1>3. \A i \in DOMAIN yyss : yyss[i] \in 0 .. 45
  <2>1. DOMAIN yyss = 1 .. Len(yyss)
    BY <1>1
  <2>2. QED
    BY <1>1, <2>1, ElementOfSeq DEF States
<1>4. Len(yyss) = Len(yyvs)
  BY DEF Inv, Typed
<1>5. QED
  BY <1>2, <1>3, <1>4 DEF Inv, Rest, TypeOK, Symbols

LEMMA InitInv == Init => Inv
<1> SUFFICES ASSUME Init PROVE Inv
  OBVIOUS
<1>1. yyss = <<0>> /\ yyvs = <<0>> /\ yychar = YYEMPTY /\ yylval = 0
  BY DEF Init
<1>2. Path(yyss)
  BY <1>1 DEF Path, States, Height, Lowest
<1>3. Typed(yyss, yyvs)
  <2>1. 0 \in Value /\ Fits(0, 0)
    BY DEF Value, Fits, T_INTEGER, T_STRING, T_ID
  <2>2. yystos[1] = 0
    BY DEF yystos
  <2> HIDE DEF Value
  <2>3. QED
    BY <1>1, <2>1, <2>2 DEF Typed
<1>4. Exact(Owning(yyss, yyvs, yychar, yylval), Len(yyss), heap)
  <2> DEFINE own == Owning(yyss, yyvs, yychar, yylval)
  <2>1. Len(yyss) = 1 /\ yystos[1] = 0 /\ yyss[1] = 0
    BY <1>1 DEF yystos
  <2>2. \A i \in 0 .. 1 : own[i] = Owned(YYEMPTY, yylval) \/ own[i] = Owned(0, yyvs[i])
    BY <1>1, <2>1 DEF Owning
  <2>3. \A v : DOMAIN Owned(YYEMPTY, v) = {} /\ DOMAIN Owned(0, v) = {}
    BY OwnedBy DEF YYEMPTY, T_INTEGER, T_STRING, T_ID
  <2> HIDE DEF own
  <2>4. \A i \in 0 .. 1 : DOMAIN own[i] = {}
    BY <2>2, <2>3
  <2>5. QED
    BY <2>1, <2>4 DEF Exact, own
<1>5. Rest
  <2>1. yychar \in Symbols /\ yylval \in String \cup {0} /\ yyerrstatus \in 0 .. 3
    BY DEF Init, Symbols
  <2>2. heap \in [String -> {Free} \cup Name \cup Literal]
    BY DEF Init
  <2>3. {told, misnamed, before} \subseteq BOOLEAN /\ result = "running"
    BY DEF Init, GrammarInit
  <2>4. QED
    BY <2>1, <2>2, <2>3 DEF Rest
<1>6. QED
  BY <1>2, <1>3, <1>4, <1>5 DEF Inv

LEMMA LexInv ==
  ASSUME Inv, yylex
  PROVE  Inv'
<1> DEFINE own == Owning(yyss, yyvs, yychar, yylval)
           own2 == Owning(yyss', yyvs', yychar', yylval')
           n == Len(yyss)
<1>1. UNCHANGED <<yyss, yyvs, yyerrstatus, told, misnamed, before, result>> /\ n \in Nat
  BY DEF yylex, Inv, Path
<1>2. PICK t \in Token :
        /\ yychar' = t.sym
        /\ IF t.text = NoText THEN UNCHANGED <<yylval, heap>>
           ELSE \E s \in String :
                  /\ heap[s] = Free
                  /\ yylval' = s /\ heap' = [heap EXCEPT ![s] = t.text]
  BY DEF yylex
<1>3. /\ yychar' \in Symbols \ {YYEMPTY}
      /\ t.text = NoText <=> t.sym \notin {T_INTEGER, T_STRING, T_ID}
      /\ t.text # NoText => t.text \in Name \cup Literal
  <2>1. NoText \notin Name \cup Literal
    BY TextAssumption
  <2>2. CASE t \in [sym : ({YYEOF} \cup T_SELECT .. T_LF \cup Comparator), text : {NoText}]
    BY <1>2, <2>2 DEF Symbols, YYEOF, T_SELECT, T_LF, Comparator, T_INTEGER, T_STRING, T_ID, YYEMPTY
  <2>3. CASE t \in [sym : {T_INTEGER, T_STRING}, text : Literal] \cup [sym : {T_ID}, text : Name]
    BY <1>2, <2>1, <2>3 DEF Symbols, T_INTEGER, T_STRING, T_ID, YYEMPTY
  <2>4. QED
    BY <2>2, <2>3 DEF Token
<1>4. \A i \in 1 .. n : own2[i] = own[i]
  BY <1>1 DEF Owning
<1>5. own2[0] = Owned(yychar', yylval') /\ own[0] = Owned(yychar, yylval)
  BY <1>1 DEF Owning
<1>6. Exact(own, n, heap) /\ heap \in [String -> {Free} \cup Name \cup Literal]
  BY DEF Inv, Rest
<1> HIDE DEF own, own2
<1>7. CASE t.text = NoText
  <2>1. UNCHANGED <<yylval, heap>> /\ DOMAIN own2[0] = {}
    <3>1. yychar' \notin {T_INTEGER, T_STRING, T_ID, 35, 36, 32, 31}
      BY <1>2, <1>3, <1>7 DEF Symbols, YYEOF, YYEMPTY, T_SELECT, T_LF, Comparator, T_INTEGER,
                              T_STRING, T_ID
    <3>2. DOMAIN Owned(yychar', yylval') = {}
      BY <3>1, OwnedBy
    <3>3. QED
      BY <1>2, <1>5, <1>7, <3>2
  <2>2. Exact(own2, n, heap')
    <3>1. \A i \in 0 .. n : own2[i] = own[i] \/ DOMAIN own2[i] = {}
      BY <1>1, <1>4, <2>1
    <3>2. QED
      BY <1>6, <2>1, <3>1 DEF Exact
  <2>3. Rest'
    BY <1>1, <1>3, <2>1 DEF Inv, Rest
  <2>4. QED
    BY <1>1, <2>2, <2>3 DEF Inv, own2, n
<1>8. CASE t.text # NoText
  <2>1. PICK s \in String : /\ heap[s] = Free
                            /\ yylval' = s /\ heap' = [heap EXCEPT ![s] = t.text]
    BY <1>2, <1>8
  <2>2. t.text \in Name \cup Literal /\ t.text # Free
    BY <1>3, <1>8, StringAssumption
  <2>3. /\ heap' \in [String -> {Free} \cup Name \cup Literal] /\ heap'[s] # Free
        /\ \A r \in String : r # s => heap'[r] = heap[r]
    BY <1>6, <2>1, <2>2
  <2>4. DOMAIN own2[0] = {1} /\ own2[0][1] = s
    <3>1. yychar' \in {T_INTEGER, T_STRING, T_ID, 35, 36}
      BY <1>2, <1>3, <1>8
    <3>2. QED
      BY <1>5, <2>1, <3>1, OwnedBy
  <2>5. Exact(own2, n, heap')
    <3>1. \A i \in 1 .. n : \A a \in DOMAIN own2[i] :
            own2[i][a] \in String /\ heap'[own2[i][a]] # Free /\ own2[i][a] # s
      <4>1. TAKE i \in 1 .. n
      <4>2. TAKE a \in DOMAIN own2[i]
      <4>3. i \in 0 .. n /\ own2[i] = own[i]
        BY <1>1, <1>4
      <4>4. own[i][a] \in String /\ heap[own[i][a]] # Free
        BY <1>6, <4>3 DEF Exact
      <4>5. QED
        BY <2>1, <2>3, <4>3, <4>4
    <3>2. ASSUME NEW i \in 0 .. n, NEW j \in 0 .. n, NEW a \in DOMAIN own2[i],
                 NEW b \in DOMAIN own2[j], own2[i][a] = own2[j][b]
          PROVE  i = j /\ a = b
      <4>1. CASE i # 0 /\ j # 0
        <5>1. own2[i] = own[i] /\ own2[j] = own[j]
          BY <1>1, <1>4, <4>1
        <5>2. QED
          BY <1>6, <3>2, <5>1 DEF Exact
      <4>2. CASE i = 0 /\ j = 0
        BY <2>4, <4>2
      <4>3. CASE i = 0 /\ j # 0
        BY <1>1, <2>4, <3>1, <3>2, <4>3
      <4>4. CASE i # 0 /\ j = 0
        BY <1>1, <2>4, <3>1, <3>2, <4>4
      <4>5. QED
        BY <4>1, <4>2, <4>3, <4>4
    <3>3. ASSUME NEW i \in 0 .. n, NEW a \in DOMAIN own2[i]
          PROVE  own2[i][a] \in String /\ heap'[own2[i][a]] # Free
      <4>1. CASE i = 0
        BY <2>3, <2>4, <4>1
      <4>2. CASE i # 0
        BY <1>1, <3>1, <4>2
      <4>3. QED
        BY <4>1, <4>2
    <3>4. QED
      BY <3>2, <3>3 DEF Exact
  <2>6. Rest'
    BY <1>1, <1>3, <2>1, <2>3 DEF Inv, Rest
  <2>7. QED
    BY <1>1, <2>5, <2>6 DEF Inv, own2, n
<1>9. QED
  BY <1>7, <1>8

\* Shift and Rule speak of the state on top; one is asked for an entry only when
\* there is a token.
LEMMA Decisions ==
  ASSUME Inv
  PROVE  /\ Len(yyss) \in Nat \ {0} /\ Top = yyss[Len(yyss)] /\ Top \in States
         /\ Shift # 0 => yychar \in 0 .. 24 /\ Shift = Shifts(Top, yychar)
         /\ Rule # 0 => Rule = yydefact[Top + 1]
<1>1. yyss \in Seq(States) /\ Len(yyss) \in Nat \ {0}
  BY EmptySeq DEF Inv, Path
<1>2. Top = yyss[Len(yyss)]
  BY DEF Top, Last
<1>3. Top \in States
  BY <1>1, <1>2
<1>4. yychar \in 0 .. 24 \/ yychar = YYEMPTY
  BY DEF Inv, Rest, Symbols, YYEMPTY, YYEOF, T_SELECT, T_LF, T_INTEGER, T_STRING, T_ID, Comparator
<1>5. Shift # 0 => yychar \in 0 .. 24 /\ Shift = Shifts(Top, yychar)
  <2>1. Shift # 0 => ~Waits /\ Shift = Shifts(Top, yychar)
    BY DEF Shift
  <2>2. Shifts(Top, yychar) # 0 => Pact(Top) # YYPACT_NINF
    BY DEF Shifts
  <2>3. QED
    BY <1>4, <2>1, <2>2 DEF Waits
<1>6. Rule # 0 => Rule = yydefact[Top + 1]
  BY DEF Rule
<1>7. QED
  BY <1>1, <1>2, <1>3, <1>5, <1>6

LEMMA ShiftInv ==
  ASSUME Inv, shift
  PROVE  Inv'
<1> DEFINE n == Len(yyss)
           t == Shift
<1>1. /\ n \in Nat \ {0} /\ yyss[n] \in States /\ yychar \in 0 .. 24 /\ t = Shifts(yyss[n], yychar)
      /\ t # 0 /\ t # YYFINAL
  BY Decisions DEF shift
<1>2. t \in States /\ yystos[t + 1] = yychar /\ Above(yyss[n], t)
  BY <1>1, ShiftTable DEF States
<1> HIDE DEF t
<1>3. yyss' = Append(yyss, t) /\ yyvs' = Append(yyvs, yylval) /\ UNCHANGED <<yylval, heap>>
  BY DEF shift, t
<1>4. yychar' = YYEOF \/ yychar' = YYEMPTY
  BY DEF shift
<1>5. yyss = SubSeq(yyss, 1, n) /\ yyvs = SubSeq(yyvs, 1, n)
  <2>1. yyss \in Seq(States) /\ yyvs \in Seq(Value) /\ Len(yyvs) = n
    BY DEF Inv, Path, Typed
  <2>2. QED
    BY <2>1, SubSeqFull
<1>6. DOMAIN Owned(yychar', yylval) = {}
  BY <1>4, OwnedBy DEF YYEOF, YYEMPTY, T_INTEGER, T_STRING, T_ID
<1>7. yylval \in Value /\ Fits(yystos[t + 1], yylval)
  <2>1. yylval \in String \cup {0}
    BY DEF Inv, Rest
  <2>2. yychar \in {T_INTEGER, T_STRING, T_ID} => yylval \in String
    <3>1. SUFFICES ASSUME yychar \in {T_INTEGER, T_STRING, T_ID} PROVE yylval \in String
      OBVIOUS
    <3>2. Owned(yychar, yylval)[1] = yylval /\ 1 \in DOMAIN Owned(yychar, yylval)
      BY <3>1, OwnedBy
    <3>3. 0 \in 0 .. n /\ Owning(yyss, yyvs, yychar, yylval)[0] = Owned(yychar, yylval)
      BY <1>1 DEF Owning
    <3>4. QED
      BY <3>2, <3>3 DEF Inv, Exact
  <2>3. QED
    BY <1>1, <1>2, <2>1, <2>2 DEF Fits, Value
<1>8. LET ss2 == Append(SubSeq(yyss, 1, n), t)
          vs2 == Append(SubSeq(yyvs, 1, n), yylval)
      IN Path(ss2) /\ Typed(ss2, vs2) /\ Exact(Owning(ss2, vs2, yychar', yylval), Len(ss2), heap)
  <2>1. Path(yyss) /\ Typed(yyss, yyvs) /\ Exact(Owning(yyss, yyvs, yychar, yylval), Len(yyss), heap)
    BY DEF Inv
  <2>2. n \in 1 .. Len(yyss)
    BY <1>1
  <2>3. Owned(yystos[t + 1], yylval) = Owned(yychar, yylval)
    BY <1>2
  <2>4. QED
    BY <1>2, <1>6, <1>7, <2>1, <2>2, <2>3, PushKeeps
<1>9. Rest'
  <2>1. yyerrstatus' \in 0 .. 3
    BY DEF shift, CountDown, Inv, Rest
  <2>2. QED
    BY <1>4, <2>1 DEF shift, Inv, Rest, Symbols
<1>10. QED
  BY <1>3, <1>5, <1>8, <1>9 DEF Inv

LEMMA RecoverInv ==
  ASSUME Inv, recover
  PROVE  Inv'
<1>1. PICK n \in DOMAIN yyss :
        /\ Shifts(yyss[n], YYTERROR) # 0
        /\ yyss' = Append(SubSeq(yyss, 1, n), Shifts(yyss[n], YYTERROR))
        /\ yyvs' = Append(SubSeq(yyvs, 1, n), yylval)
        /\ UNCHANGED heap
  BY DEF recover, yydestruct
<1> DEFINE t == Shifts(yyss[n], YYTERROR)
<1>2. n \in 1 .. Len(yyss) /\ yyss[n] \in States
  BY DEF Inv, Path
<1>3. t \in States /\ yystos[t + 1] = YYTERROR /\ Above(yyss[n], t)
  <2>1. t # YYFINAL
    BY DEF Shifts, Entry, yycheck, yytable, YYTERROR, YYFINAL, YYLAST
  <2>2. YYTERROR \in 0 .. 24
    BY DEF YYTERROR
  <2>3. QED
    BY <1>1, <1>2, <2>1, <2>2, ShiftTable DEF States
<1> HIDE DEF t
<1>4. yychar' \in {yychar, YYEMPTY} /\ UNCHANGED yylval
  BY DEF recover
<1>5. Owned(yychar', yylval) = Owned(yychar, yylval) \/ DOMAIN Owned(yychar', yylval) = {}
  <2>1. DOMAIN Owned(YYEMPTY, yylval) = {}
    BY OwnedBy DEF YYEMPTY, T_INTEGER, T_STRING, T_ID
  <2>2. QED
    BY <1>4, <2>1
<1>6. DOMAIN Owned(yystos[t + 1], yylval) = {} /\ Fits(yystos[t + 1], yylval) /\ yylval \in Value
  <2>1. YYTERROR \notin {T_INTEGER, T_STRING, T_ID, 35, 36, 32, 31, 33, 34, 37}
    BY DEF YYTERROR, T_INTEGER, T_STRING, T_ID
  <2>2. yylval \in String \cup {0}
    BY DEF Inv, Rest
  <2>3. yylval \in Value
    BY <2>2 DEF Value
  <2>4. QED
    BY <1>3, <2>1, <2>3, OwnedBy DEF Fits
<1>7. LET ss2 == Append(SubSeq(yyss, 1, n), t)
          vs2 == Append(SubSeq(yyvs, 1, n), yylval)
      IN Path(ss2) /\ Typed(ss2, vs2) /\ Exact(Owning(ss2, vs2, yychar', yylval), Len(ss2), heap)
  <2>1. Path(yyss) /\ Typed(yyss, yyvs) /\ Exact(Owning(yyss, yyvs, yychar, yylval), Len(yyss), heap)
    BY DEF Inv
  <2>2. QED
    BY <1>2, <1>3, <1>5, <1>6, <2>1, PushKeeps
<1>8. Rest'
  <2>1. yyerrstatus' \in 0 .. 3 /\ UNCHANGED <<before, result>> /\ told' \in BOOLEAN /\ misnamed' \in BOOLEAN
    BY DEF recover, Inv, Rest
  <2>2. QED
    BY <1>1, <1>4, <2>1 DEF Inv, Rest, Symbols
<1>9. QED
  BY <1>1, <1>4, <1>7, <1>8 DEF Inv, t

\* What the rules of the grammar name, by number
LEMMA RuleTable ==
  /\ \A r \in {2, 3, 4, 5, 6, 7, 8, 10, 11, 12, 13} : yyr1[r + 1] \in {26, 27, 29, 30}
  /\ yyr1[15] = 31 /\ yyr1[16] = 31 /\ yyr1[17] = 32 /\ yyr1[18] = 33 /\ yyr1[19] = 33
  /\ yyr1[20] = 33 /\ yyr1[21] = 34 /\ yyr1[22] = 35 /\ yyr1[23] = 35 /\ yyr1[24] = 36
  /\ \A r \in 24 .. 29 : yyr1[r + 1] = 37
BY DEF yyr1

LEMMA SymbolTable ==
  /\ \A r \in 10 .. 13 : yyr2[r + 1] \in {5, 7}
  /\ Symbol(10, 2) = 36 /\ Symbol(11, 2) = 36 /\ Symbol(10, 4) = T_STRING /\ Symbol(11, 4) = T_STRING
  /\ Symbol(12, 4) = 36 /\ Symbol(13, 4) = 36 /\ yyr2[14] = 7 /\ Symbol(13, 6) = 31
  /\ yyr2[15] = 1 /\ Symbol(14, 1) = 32
  /\ yyr2[16] = 3 /\ Symbol(15, 1) = 31 /\ Symbol(15, 3) = 32
  /\ yyr2[17] = 3 /\ Symbol(16, 1) = 34 /\ Symbol(16, 2) = 37 /\ Symbol(16, 3) = 35
  /\ yyr2[18] = 1 /\ Symbol(17, 1) = 34
  /\ yyr2[21] = 1 /\ Symbol(20, 1) = T_ID
  /\ yyr2[22] = 1 /\ Symbol(21, 1) = T_INTEGER
  /\ yyr2[23] = 1 /\ Symbol(22, 1) = T_STRING
  /\ yyr2[24] = 1 /\ Symbol(23, 1) = T_ID
BY DEF yyr2, Symbol, Handle, Handles, yystos, T_STRING, T_ID, T_INTEGER

LEMMA ReduceInv ==
  ASSUME Inv, NEW rules \in SUBSET Reducible, NEW v \in Value, Reduce(rules, v),
         Fits(yyr1[Rule + 1], v),
         Replaces(yyss, yyvs, Rule, Owned(yyr1[Rule + 1], v), heap, heap'),
         heap' \in [String -> {Free} \cup Name \cup Literal],
         told' \in BOOLEAN /\ misnamed' \in BOOLEAN, before' \in BOOLEAN, UNCHANGED result
  PROVE  Inv'
<1>1. Rule \in Reducible /\ yydefact[yyss[Len(yyss)] + 1] = Rule
  BY Decisions DEF Reduce, Reducible
<1>2. UNCHANGED <<yychar, yylval, yyerrstatus>>
  BY DEF Reduce
<1>3. yyss' = Reduced(yyss, Rule) /\ yyvs' = ReducedTo(yyss, yyvs, Rule, v)
  BY DEF Reduce, Reduced, ReducedTo, Rhs
<1>4. Path(yyss) /\ Typed(yyss, yyvs) /\ Exact(Owning(yyss, yyvs, yychar, yylval), Len(yyss), heap)
  BY DEF Inv
<1>5. Path(yyss') /\ Typed(yyss', yyvs')
        /\ Exact(Owning(yyss', yyvs', yychar, yylval), Len(yyss'), heap')
  BY <1>1, <1>3, <1>4, ReduceKeeps
<1>6. Rest'
  BY <1>2 DEF Inv, Rest
<1>7. QED
  BY <1>2, <1>5, <1>6 DEF Inv

\* The values of the right-hand side
LEMMA Args ==
  ASSUME Inv, Rule \in Reducible
  PROVE  /\ \A i \in 1 .. yyr2[Rule + 1] :
              Arg(Rule, i) \in Value /\ Fits(Symbol(Rule, i), Arg(Rule, i))
         /\ Val(Rule) \in Value /\ (Rule # 3 => Val(Rule) = Arg(Rule, 1))
<1>1. Rule = yydefact[yyss[Len(yyss)] + 1] /\ Len(yyss) \in Nat \ {0}
  BY Decisions DEF Reducible
<1>2. \A i \in 1 .. yyr2[Rule + 1] :
        Arg(Rule, i) \in Value /\ Fits(Symbol(Rule, i), Arg(Rule, i))
  BY <1>1, RhsFits DEF Inv, Arg, Rhs
<1>3. Rule # 3 => yyr2[Rule + 1] \in 1 .. 7
  BY HandleLengths
<1>4. Rule # 3 => Val(Rule) = Arg(Rule, 1) /\ Val(Rule) \in Value
  BY <1>2, <1>3 DEF Val
<1>5. Rule = 3 => Val(Rule) \in Value
  <2>1. yyr2[4] = 0
    BY DEF yyr2
  <2>2. QED
    BY <2>1 DEF Val, Value
<1>6. QED
  BY <1>2, <1>4, <1>5

LEMMA ArgOwns ==
  ASSUME Inv, Rule \in Reducible, NEW i \in 1 .. yyr2[Rule + 1],
         NEW a \in DOMAIN Owned(Symbol(Rule, i), Arg(Rule, i))
  PROVE  RhsOwns(yyss, yyvs, Rule, Owned(Symbol(Rule, i), Arg(Rule, i))[a])
BY DEF RhsOwns, Arg, Rhs

\* A symbol that owns nothing, and some strings of the right-hand side freed
LEMMA FreesArgs ==
  ASSUME Inv, NEW new, DOMAIN new = {}, NEW S,
         \A s \in S : RhsOwns(yyss, yyvs, Rule, s),
         heap' = [s \in String |-> IF s \in S THEN Free ELSE heap[s]]
  PROVE  /\ Replaces(yyss, yyvs, Rule, new, heap, heap')
         /\ heap' \in [String -> {Free} \cup Name \cup Literal]
<1>1. heap \in [String -> {Free} \cup Name \cup Literal]
  BY DEF Inv, Rest
<1>2. heap' \in [String -> {Free} \cup Name \cup Literal]
  BY <1>1
<1>3. QED
  BY <1>2 DEF Replaces

LEMMA KeepsHeap ==
  ASSUME Inv, NEW rules \in SUBSET Reducible, NEW v \in Value, Reduce(rules, v),
         Fits(yyr1[Rule + 1], v), UNCHANGED <<heap, result>>,
         told' \in BOOLEAN /\ misnamed' \in BOOLEAN, before' \in BOOLEAN,
         \A a, b \in DOMAIN Owned(yyr1[Rule + 1], v) :
           Owned(yyr1[Rule + 1], v)[a] = Owned(yyr1[Rule + 1], v)[b] => a = b,
         \A a \in DOMAIN Owned(yyr1[Rule + 1], v) :
           RhsOwns(yyss, yyvs, Rule, Owned(yyr1[Rule + 1], v)[a])
  PROVE  Inv'
<1>1. Replaces(yyss, yyvs, Rule, Owned(yyr1[Rule + 1], v), heap, heap')
  BY DEF Replaces
<1>2. heap' \in [String -> {Free} \cup Name \cup Literal]
  BY DEF Inv, Rest
<1>3. QED
  BY <1>1, <1>2, ReduceInv

LEMMA ReduceFrees ==
  ASSUME Inv, NEW rules \in SUBSET Reducible, NEW v \in Value, Reduce(rules, v),
         Fits(yyr1[Rule + 1], v), DOMAIN Owned(yyr1[Rule + 1], v) = {}, NEW S, free(S),
         \A s \in S : RhsOwns(yyss, yyvs, Rule, s),
         told' \in BOOLEAN /\ misnamed' \in BOOLEAN, before' \in BOOLEAN, UNCHANGED result
  PROVE  Inv'
<1>1. heap' = [s \in String |-> IF s \in S THEN Free ELSE heap[s]]
  BY DEF free
<1>2. /\ Replaces(yyss, yyvs, Rule, Owned(yyr1[Rule + 1], v), heap, heap')
      /\ heap' \in [String -> {Free} \cup Name \cup Literal]
  BY <1>1, FreesArgs
<1>3. QED
  BY <1>2, ReduceInv

LEMMA PlainInv ==
  ASSUME Inv, reduce_plain
  PROVE  Inv'
<1> DEFINE v == Val(Rule)
           rules == {2, 3, 4, 5, 6, 17, 21, 22, 23}
<1>1. Reduce(rules, v) /\ UNCHANGED <<heap, told, misnamed, before, result>> /\ Rule \in rules
  BY DEF reduce_plain, Reduce
<1>2. Rule \in Reducible /\ rules \in SUBSET Reducible
  BY <1>1 DEF Reducible
<1>3. v \in Value /\ (Rule # 3 => v = Arg(Rule, 1))
        /\ \A i \in 1 .. yyr2[Rule + 1] : Fits(Symbol(Rule, i), Arg(Rule, i))
  BY <1>2, Args
<1>4. /\ Fits(yyr1[Rule + 1], v)
      /\ \A a, b \in DOMAIN Owned(yyr1[Rule + 1], v) : a = b
      /\ \A a \in DOMAIN Owned(yyr1[Rule + 1], v) :
           RhsOwns(yyss, yyvs, Rule, Owned(yyr1[Rule + 1], v)[a])
  <2>1. CASE Rule \in {2, 3, 4, 5, 6}
    <3>1. yyr1[Rule + 1] \in {26, 27, 29, 30}
      BY <2>1, RuleTable
    <3>2. DOMAIN Owned(yyr1[Rule + 1], v) = {} /\ Fits(yyr1[Rule + 1], v)
      BY <3>1, OwnedBy DEF Fits, T_INTEGER, T_STRING, T_ID
    <3>3. QED
      BY <3>2
  <2>2. CASE Rule = 17
    <3>1. yyr1[Rule + 1] = 33 /\ Fits(34, v)
      BY <1>3, <2>2, RuleTable, SymbolTable
    <3>2. DOMAIN Owned(yyr1[Rule + 1], v) = {} /\ Fits(yyr1[Rule + 1], v)
      BY <3>1, OwnedBy DEF Fits, T_INTEGER, T_STRING, T_ID
    <3>3. QED
      BY <3>2
  <2>3. CASE Rule \in {21, 22, 23}
    <3>1. /\ yyr1[Rule + 1] \in {35, 36} /\ yyr2[Rule + 1] = 1
          /\ Symbol(Rule, 1) \in {T_INTEGER, T_STRING, T_ID}
      BY <2>3, RuleTable, SymbolTable
    <3>2. Fits(Symbol(Rule, 1), v) /\ v = Arg(Rule, 1)
      BY <1>3, <2>3, <3>1
    <3>3. v \in String
      BY <3>1, <3>2 DEF Fits
    <3>4. Fits(yyr1[Rule + 1], v)
      BY <3>1, <3>3 DEF Fits
    <3>5. /\ DOMAIN Owned(yyr1[Rule + 1], v) = {1} /\ Owned(yyr1[Rule + 1], v)[1] = v
          /\ DOMAIN Owned(Symbol(Rule, 1), v) = {1} /\ Owned(Symbol(Rule, 1), v)[1] = v
      BY <3>1, OwnedBy
    <3>6. RhsOwns(yyss, yyvs, Rule, Owned(Symbol(Rule, 1), Arg(Rule, 1))[1])
      BY <1>2, <3>1, <3>2, <3>5, ArgOwns
    <3>7. QED
      BY <3>2, <3>4, <3>5, <3>6
  <2>4. QED
    BY <1>1, <2>1, <2>2, <2>3
<1>5. told' \in BOOLEAN /\ misnamed' \in BOOLEAN /\ before' \in BOOLEAN
  BY <1>1 DEF Inv, Rest
<1> HIDE DEF v, rules
<1>6. QED
  BY <1>1, <1>2, <1>3, <1>4, <1>5, KeepsHeap

LEMMA LineEnds ==
  ASSUME Inv, NEW c, Executed(c)
  PROVE  told' \in BOOLEAN /\ misnamed' \in BOOLEAN /\ before' \in BOOLEAN /\ UNCHANGED result
BY DEF Executed, Inv, Rest, Rejected

LEMMA LineInv ==
  ASSUME Inv, reduce_line
  PROVE  Inv'
<1>1. Reduce({7, 8}, Val(Rule)) /\ UNCHANGED heap /\ Rule \in {7, 8} /\ Executed(NoCall)
  BY DEF reduce_line, Reduce
<1>2. Rule \in Reducible /\ {7, 8} \in SUBSET Reducible
  BY <1>1 DEF Reducible
<1>3. Val(Rule) \in Value
  BY <1>2, Args
<1>4. yyr1[Rule + 1] \in {26, 27, 29, 30}
  BY <1>1, RuleTable
<1>5. DOMAIN Owned(yyr1[Rule + 1], Val(Rule)) = {} /\ Fits(yyr1[Rule + 1], Val(Rule))
  BY <1>4, OwnedBy DEF Fits, T_INTEGER, T_STRING, T_ID
<1>6. told' \in BOOLEAN /\ misnamed' \in BOOLEAN /\ before' \in BOOLEAN /\ UNCHANGED result
  BY <1>1, LineEnds
<1>7. QED
  BY <1>1, <1>2, <1>3, <1>5, <1>6, KeepsHeap

LEMMA LoadInv ==
  ASSUME Inv, reduce_load
  PROVE  Inv'
<1> DEFINE S == {Arg(Rule, 2), Arg(Rule, 4)}
<1>1. /\ Reduce({10, 11}, Val(Rule)) /\ Rule \in {10, 11} /\ free(S)
      /\ told' \in BOOLEAN /\ misnamed' \in BOOLEAN /\ before' \in BOOLEAN /\ UNCHANGED result
  BY LineEnds DEF reduce_load, Reduce
<1>2. Rule \in Reducible /\ {10, 11} \in SUBSET Reducible
  BY <1>1 DEF Reducible
<1>3. Val(Rule) \in Value
  BY <1>2, Args
<1>4. yyr1[Rule + 1] \in {26, 27, 29, 30}
  BY <1>1, RuleTable
<1>5. DOMAIN Owned(yyr1[Rule + 1], Val(Rule)) = {} /\ Fits(yyr1[Rule + 1], Val(Rule))
  BY <1>4, OwnedBy DEF Fits, T_INTEGER, T_STRING, T_ID
<1>6. ASSUME NEW i \in {2, 4}
      PROVE  RhsOwns(yyss, yyvs, Rule, Arg(Rule, i))
  <2>1. Symbol(Rule, i) \in {36, T_STRING} /\ i \in 1 .. yyr2[Rule + 1]
    BY <1>1, SymbolTable
  <2>2. 1 \in DOMAIN Owned(Symbol(Rule, i), Arg(Rule, i))
          /\ Owned(Symbol(Rule, i), Arg(Rule, i))[1] = Arg(Rule, i)
    BY <2>1, OwnedBy
  <2>3. QED
    BY <1>2, <2>1, <2>2, ArgOwns
<1>7. \A s \in S : RhsOwns(yyss, yyvs, Rule, s)
  BY <1>6
<1> HIDE DEF S
<1>8. QED
  BY <1>1, <1>2, <1>3, <1>5, <1>7, ReduceFrees

LEMMA SelectInv ==
  ASSUME Inv, reduce_select
  PROVE  Inv'
<1> DEFINE conds == IF Rule = 12 THEN << >> ELSE Arg(13, 6)
           S == {Arg(Rule, 4)} \cup { conds[i].value : i \in DOMAIN conds }
<1>1. /\ Reduce({12, 13}, Val(Rule)) /\ Rule \in {12, 13} /\ free(S)
      /\ told' \in BOOLEAN /\ misnamed' \in BOOLEAN /\ before' \in BOOLEAN /\ UNCHANGED result
  BY LineEnds DEF reduce_select, Reduce
<1>2. Rule \in Reducible /\ {12, 13} \in SUBSET Reducible
  BY <1>1 DEF Reducible
<1>3. Val(Rule) \in Value
  BY <1>2, Args
<1>4. yyr1[Rule + 1] \in {26, 27, 29, 30}
  BY <1>1, RuleTable
<1>5. DOMAIN Owned(yyr1[Rule + 1], Val(Rule)) = {} /\ Fits(yyr1[Rule + 1], Val(Rule))
  BY <1>4, OwnedBy DEF Fits, T_INTEGER, T_STRING, T_ID
<1>6. RhsOwns(yyss, yyvs, Rule, Arg(Rule, 4))
  <2>1. Symbol(Rule, 4) = 36 /\ 4 \in 1 .. yyr2[Rule + 1]
    BY <1>1, SymbolTable
  <2>2. 1 \in DOMAIN Owned(Symbol(Rule, 4), Arg(Rule, 4))
          /\ Owned(Symbol(Rule, 4), Arg(Rule, 4))[1] = Arg(Rule, 4)
    BY <2>1, OwnedBy
  <2>3. QED
    BY <1>2, <2>1, <2>2, ArgOwns
<1>7. ASSUME NEW i \in DOMAIN conds
      PROVE  RhsOwns(yyss, yyvs, Rule, conds[i].value)
  <2>1. Rule = 13
    BY <1>1
  <2>2. conds = Arg(Rule, 6) /\ Symbol(Rule, 6) = 31 /\ 6 \in 1 .. yyr2[Rule + 1]
    BY <2>1, SymbolTable
  <2> HIDE DEF conds
  <2>3. i \in DOMAIN Owned(Symbol(Rule, 6), Arg(Rule, 6))
          /\ Owned(Symbol(Rule, 6), Arg(Rule, 6))[i] = conds[i].value
    BY <2>2, OwnedBy
  <2>4. QED
    BY <1>2, <2>2, <2>3, ArgOwns
<1>8. \A s \in S : RhsOwns(yyss, yyvs, Rule, s)
  <2> HIDE DEF conds
  <2>1. QED
    BY <1>6, <1>7
<1> HIDE DEF S
<1>9. QED
  BY <1>1, <1>2, <1>3, <1>5, <1>8, ReduceFrees

LEMMA ConditionInv ==
  ASSUME Inv, reduce_condition
  PROVE  Inv'
<1> DEFINE v == CASE Rule = 14 -> <<Arg(14, 1)>>
                  [] Rule = 15 -> Append(Arg(15, 1), Arg(15, 3))
                  [] Rule = 16 -> [attr |-> Arg(16, 1), comp |-> Arg(16, 2), value |-> Arg(16, 3)]
           new == Owned(yyr1[Rule + 1], v)
<1>1. /\ Reduce({14, 15, 16}, v) /\ Rule \in {14, 15, 16}
      /\ UNCHANGED <<heap, told, misnamed, before, result>>
  BY DEF reduce_condition, Reduce
<1>2. Rule \in Reducible /\ {14, 15, 16} \in SUBSET Reducible
  BY <1>1 DEF Reducible
<1>3. \A i \in 1 .. yyr2[Rule + 1] : Fits(Symbol(Rule, i), Arg(Rule, i))
  BY <1>2, Args
<1>4. /\ v \in Value /\ Fits(yyr1[Rule + 1], v)
      /\ \A a, b \in DOMAIN new : new[a] = new[b] => a = b
      /\ \A a \in DOMAIN new : RhsOwns(yyss, yyvs, Rule, new[a])
  <2>1. CASE Rule = 14
    <3> DEFINE x == Arg(Rule, 1)
    <3>1. v = <<x>> /\ yyr1[Rule + 1] = 31 /\ Symbol(Rule, 1) = 32 /\ 1 \in 1 .. yyr2[Rule + 1]
      BY <2>1, RuleTable, SymbolTable
    <3>2. x \in Conds
      BY <1>3, <3>1 DEF Fits
    <3>3. RhsOwns(yyss, yyvs, Rule, x.value)
      <4>1. DOMAIN Owned(32, x) = {1} /\ Owned(32, x)[1] = x.value
        BY OwnedBy
      <4>2. QED
        BY <1>2, <3>1, <4>1, ArgOwns
    <3> HIDE DEF x, v
    <3>4. v \in Seq(Conds) /\ DOMAIN v = {1} /\ v[1] = x
      BY <3>1, <3>2
    <3>5. DOMAIN new = {1} /\ new[1] = x.value
      BY <3>1, <3>4, OwnedBy
    <3>6. v \in Value /\ Fits(31, v)
      BY <3>4 DEF Value, Fits, T_INTEGER, T_STRING, T_ID
    <3> HIDE DEF new
    <3>7. QED
      BY <3>1, <3>3, <3>5, <3>6
  <2>2. CASE Rule = 15
    <3> DEFINE x == Arg(Rule, 1)
               y == Arg(Rule, 3)
               m == Len(x)
    <3>1. /\ v = Append(x, y) /\ yyr1[Rule + 1] = 31 /\ Symbol(Rule, 1) = 31
          /\ Symbol(Rule, 3) = 32 /\ 1 \in 1 .. yyr2[Rule + 1] /\ 3 \in 1 .. yyr2[Rule + 1]
      <4>1. v = Append(Arg(15, 1), Arg(15, 3))
        BY <2>2
      <4>2. v = Append(x, y)
        BY <2>2, <4>1
      <4> HIDE DEF v, x, y
      <4>3. yyr1[Rule + 1] = 31 /\ yyr2[Rule + 1] = 3
        BY <2>2, RuleTable, SymbolTable
      <4>4. Symbol(Rule, 1) = 31 /\ Symbol(Rule, 3) = 32
        BY <2>2, SymbolTable
      <4>5. QED
        BY <4>2, <4>3, <4>4
    <3>2. x \in Seq(Conds) /\ y \in Conds
      BY <1>3, <3>1 DEF Fits
    <3>3. RhsOwns(yyss, yyvs, Rule, y.value)
      <4>1. DOMAIN Owned(32, y) = {1} /\ Owned(32, y)[1] = y.value
        BY OwnedBy
      <4>2. QED
        BY <1>2, <3>1, <4>1, ArgOwns
    <3>4. \A j \in 1 .. m : RhsOwns(yyss, yyvs, Rule, x[j].value)
      <4>1. DOMAIN Owned(31, x) = 1 .. m /\ \A j \in 1 .. m : Owned(31, x)[j] = x[j].value
        BY <3>2, OwnedBy
      <4>2. QED
        BY <1>2, <3>1, <4>1, ArgOwns
    <3>5. /\ \A j, k \in 1 .. m : x[j].value = x[k].value => j = k
          /\ \A j \in 1 .. m : x[j].value # y.value
      <4> DEFINE n == Len(yyss)
                 own == Owning(yyss, yyvs, yychar, yylval)
                 p == Rhs(Rule) + 1
      <4>1. /\ n \in Nat \ {0} /\ yydefact[yyss[n] + 1] = Rule /\ Path(yyss) /\ yyr2[Rule + 1] = 3
        BY SMTT(60), <1>2, <2>2, Decisions, SymbolTable DEF Reducible, Inv
      <4>2. /\ p \in 1 .. n /\ p + 2 \in 1 .. n
            /\ yyss[p] = Handle(Rule, 1) /\ yyss[p + 2] = Handle(Rule, 3)
        <5>1. /\ n - 3 \in 1 .. n
              /\ \A i \in 1 .. 3 : yyss[n - 3 + i] = Handle(Rule, i)
          <6>1. /\ n - yyr2[Rule + 1] \in 1 .. n
                /\ \A i \in 1 .. yyr2[Rule + 1] : yyss[n - yyr2[Rule + 1] + i] = Handle(Rule, i)
            BY <1>2, <4>1, HandleOnTop
          <6>2. QED
            BY <4>1, <6>1
        <5>2. p = n - 3 + 1 /\ p + 2 = n - 3 + 3
          BY <4>1 DEF Rhs
        <5>3. QED
          BY <4>1, <5>1, <5>2
      <4>3. x = yyvs[p] /\ y = yyvs[p + 2]
        <5>1. n \in Nat /\ Rhs(Rule) = n - 3
          BY <4>1 DEF Rhs
        <5>2. QED
          BY <5>1 DEF Arg
      <4> HIDE DEF p, x, y, m
      <4>4. own[p] = Owned(31, x) /\ own[p + 2] = Owned(32, y)
        <5>1. p \in 0 .. n /\ p + 2 \in 0 .. n /\ p # 0 /\ p + 2 # 0
          BY <4>1, <4>2
        <5>2. QED
          BY <3>1, <4>2, <4>3, <5>1 DEF Owning, Symbol
      <4>5. /\ DOMAIN own[p] = 1 .. m /\ \A j \in 1 .. m : own[p][j] = x[j].value
            /\ DOMAIN own[p + 2] = {1} /\ own[p + 2][1] = y.value
        BY <3>2, <4>4, OwnedBy DEF m
      <4>6. Exact(own, n, heap) /\ p \in 0 .. n /\ p + 2 \in 0 .. n /\ p # p + 2
        BY <4>1, <4>2 DEF Inv
      <4> HIDE DEF own, n
      <4>7. \A j, k \in 1 .. m : x[j].value = x[k].value => j = k
        <5>1. \A a, b \in DOMAIN own[p] : own[p][a] = own[p][b] => a = b
          BY <4>6 DEF Exact
        <5>2. QED
          BY <4>5, <5>1
      <4>8. \A j \in 1 .. m : x[j].value # y.value
        <5>1. \A a \in DOMAIN own[p], b \in DOMAIN own[p + 2] : own[p][a] # own[p + 2][b]
          BY <4>6 DEF Exact
        <5>2. QED
          BY <4>5, <5>1
      <4>9. QED
        BY <4>7, <4>8
    <3> HIDE DEF x, y, v
    <3>6. /\ v \in Seq(Conds) /\ DOMAIN v = 1 .. m + 1 /\ v[m + 1] = y /\ m \in Nat
          /\ \A j \in 1 .. m : v[j] = x[j]
      <4>1. /\ v \in Seq(Conds) /\ Len(v) = m + 1 /\ v[m + 1] = y /\ m \in Nat
            /\ \A j \in 1 .. m : v[j] = x[j]
        BY <3>1, <3>2, AppendProperties
      <4>2. QED
        BY <4>1
    <3>7. DOMAIN new = 1 .. m + 1 /\ new[m + 1] = y.value
            /\ \A j \in 1 .. m : new[j] = x[j].value
      <4>1. DOMAIN new = DOMAIN v /\ \A j \in DOMAIN v : new[j] = v[j].value
        <5>1. new = Owned(31, v)
          BY <3>1
        <5>2. DOMAIN Owned(31, v) = DOMAIN v /\ \A j \in DOMAIN v : Owned(31, v)[j] = v[j].value
          BY OwnedBy
        <5>3. QED
          BY <5>1, <5>2
      <4> HIDE DEF new
      <4>2. QED
        BY <3>6, <4>1
    <3>8. v \in Value /\ Fits(31, v)
      BY <3>6 DEF Value, Fits, T_INTEGER, T_STRING, T_ID
    <3> HIDE DEF new, m
    <3>9. \A a, b \in DOMAIN new : new[a] = new[b] => a = b
      BY <3>5, <3>6, <3>7
    <3>10. \A a \in DOMAIN new : RhsOwns(yyss, yyvs, Rule, new[a])
      BY <3>3, <3>4, <3>6, <3>7
    <3>11. QED
      BY <3>1, <3>8, <3>9, <3>10
  <2>3. CASE Rule = 16
    <3>1. /\ v = [attr |-> Arg(Rule, 1), comp |-> Arg(Rule, 2), value |-> Arg(Rule, 3)]
          /\ yyr1[Rule + 1] = 32 /\ Symbol(Rule, 1) = 34 /\ Symbol(Rule, 2) = 37
          /\ Symbol(Rule, 3) = 35 /\ yyr2[Rule + 1] = 3
      BY <2>3, RuleTable, SymbolTable
    <3>2. Arg(Rule, 1) \in 0 .. 2 /\ Arg(Rule, 2) \in Comparators /\ Arg(Rule, 3) \in String
      BY <1>3, <3>1 DEF Fits
    <3>3. RhsOwns(yyss, yyvs, Rule, Arg(Rule, 3))
      <4>1. DOMAIN Owned(35, Arg(Rule, 3)) = {1} /\ Owned(35, Arg(Rule, 3))[1] = Arg(Rule, 3)
        BY OwnedBy
      <4>2. 3 \in 1 .. yyr2[Rule + 1]
        BY <3>1
      <4>3. QED
        BY <1>2, <3>1, <4>1, <4>2, ArgOwns
    <3>4. v \in Conds /\ v.value = Arg(Rule, 3)
      <4> HIDE DEF v
      <4>1. v \in [attr : 0 .. 2, comp : Comparators, value : String]
        BY <3>1, <3>2
      <4>2. QED
        BY <3>1, <4>1 DEF Conds
    <3> HIDE DEF v
    <3>5. v \in Value /\ Fits(32, v)
      BY <3>4 DEF Value, Fits, T_INTEGER, T_STRING, T_ID
    <3>6. DOMAIN new = {1} /\ new[1] = Arg(Rule, 3)
      BY <3>1, <3>4, OwnedBy
    <3> HIDE DEF new
    <3>7. QED
      BY <3>1, <3>3, <3>5, <3>6
  <2>4. QED
    BY <1>1, <2>1, <2>2, <2>3
<1>5. told' \in BOOLEAN /\ misnamed' \in BOOLEAN /\ before' \in BOOLEAN
  BY <1>1 DEF Inv, Rest
<1> HIDE DEF v
<1>6. QED
  BY <1>1, <1>2, <1>4, <1>5, KeepsHeap

\* A value that owns nothing
LEMMA Plain ==
  ASSUME NEW sym \in {33, 34, 37}, NEW v, Fits(sym, v)
  PROVE  v \in Value /\ DOMAIN Owned(sym, v) = {}
<1>1. v \in 0 .. 4 \/ v \in Comparators
  BY DEF Fits
<1>2. v \in Value
  BY <1>1 DEF Value
<1>3. QED
  BY <1>2, OwnedBy DEF T_INTEGER, T_STRING, T_ID

LEMMA StarCountInv ==
  ASSUME Inv, reduce_star_count
  PROVE  Inv'
<1> DEFINE v == IF Rule = 18 THEN 3 ELSE 4
<1>1. Reduce({18, 19}, v) /\ Rule \in {18, 19} /\ UNCHANGED <<heap, told, misnamed, before, result>>
  BY DEF reduce_star_count, Reduce
<1>2. {18, 19} \in SUBSET Reducible /\ yyr1[Rule + 1] = 33
  BY <1>1, RuleTable DEF Reducible
<1>3. Fits(33, v)
  BY DEF Fits, T_INTEGER, T_STRING, T_ID
<1>4. v \in Value /\ DOMAIN Owned(33, v) = {}
  BY <1>3, Plain
<1>5. told' \in BOOLEAN /\ misnamed' \in BOOLEAN /\ before' \in BOOLEAN
  BY <1>1 DEF Inv, Rest
<1> HIDE DEF v
<1>6. QED
  BY <1>1, <1>2, <1>3, <1>4, <1>5, KeepsHeap

LEMMA AttributeInv ==
  ASSUME Inv, reduce_attribute
  PROVE  Inv'
<1> DEFINE v == AttrOf([sym |-> T_ID, text |-> heap[Arg(20, 1)]])
           S == {Arg(20, 1)}
<1>1. /\ Reduce({20}, v) /\ Rule = 20 /\ free(S) /\ UNCHANGED <<told, before, result>>
      /\ misnamed' \in BOOLEAN
  BY DEF reduce_attribute, Reduce, Inv, Rest
<1>2. {20} \in SUBSET Reducible /\ Rule \in Reducible
  BY <1>1 DEF Reducible
<1>3. yyr1[Rule + 1] = 34 /\ Symbol(Rule, 1) = T_ID /\ 1 \in 1 .. yyr2[Rule + 1]
  BY <1>1, RuleTable, SymbolTable
<1>4. Fits(34, v)
  BY DEF Fits, AttrOf, WrongAttr, T_INTEGER, T_STRING, T_ID, T_STAR, T_COUNT
<1>5. v \in Value /\ DOMAIN Owned(34, v) = {}
  <2> HIDE DEF v
  <2>1. QED
    BY <1>4, Plain
<1>6. \A s \in S : RhsOwns(yyss, yyvs, Rule, s)
  <2>1. DOMAIN Owned(T_ID, Arg(Rule, 1)) = {1} /\ Owned(T_ID, Arg(Rule, 1))[1] = Arg(Rule, 1)
    BY OwnedBy
  <2>2. RhsOwns(yyss, yyvs, Rule, Arg(Rule, 1))
    BY <1>2, <1>3, <2>1, ArgOwns
  <2>3. QED
    BY <1>1, <2>2
<1>7. told' \in BOOLEAN /\ misnamed' \in BOOLEAN /\ before' \in BOOLEAN
  BY <1>1 DEF Inv, Rest
<1> HIDE DEF v, S
<1>8. QED
  BY <1>1, <1>2, <1>3, <1>4, <1>5, <1>6, <1>7, ReduceFrees

LEMMA ComparatorInv ==
  ASSUME Inv, reduce_comparator
  PROVE  Inv'
<1>1. Reduce(24 .. 29, Comp(Rule)) /\ Rule \in 24 .. 29 /\ UNCHANGED <<heap, told, misnamed, before, result>>
  BY DEF reduce_comparator, Reduce
<1>2. 24 .. 29 \in SUBSET Reducible /\ yyr1[Rule + 1] = 37
  BY <1>1, RuleTable DEF Reducible
<1>3. Fits(37, Comp(Rule))
  <2>1. Comp(Rule) \in Comparators
    BY <1>1 DEF Comp, Comparators
  <2>2. QED
    BY <2>1 DEF Fits, T_INTEGER, T_STRING, T_ID
<1>4. Comp(Rule) \in Value /\ DOMAIN Owned(37, Comp(Rule)) = {}
  BY <1>3, Plain
<1>5. told' \in BOOLEAN /\ misnamed' \in BOOLEAN /\ before' \in BOOLEAN
  BY <1>1 DEF Inv, Rest
<1>6. QED
  BY <1>1, <1>2, <1>3, <1>4, <1>5, KeepsHeap

LEMMA StepInv == Inv /\ [Next]_vars => Inv'
<1> SUFFICES ASSUME Inv, [Next]_vars PROVE Inv'
  OBVIOUS
<1>1. ASSUME UNCHANGED <<parserVars, heap, told, misnamed, before>>,
             result' \in {"running", "quit", "accepted", "aborted"}
      PROVE  Inv'
  <2>1. Rest'
    BY <1>1 DEF Inv, Rest, parserVars
  <2>2. QED
    BY <1>1, <2>1 DEF Inv, parserVars
<1>2. CASE accept \/ abort \/ reduce_quit
  BY <1>1, <1>2 DEF accept, abort, reduce_quit
<1>3. CASE UNCHANGED vars
  BY <1>1, <1>3 DEF vars, parserVars, Inv, Rest
<1>4. QED
  BY <1>2, <1>3, LexInv, ShiftInv, RecoverInv, PlainInv, LineInv, LoadInv, SelectInv,
     ConditionInv, StarCountInv, AttributeInv, ComparatorInv DEF Next, Step

-----------------------------------------------------------------------------
(* The theorems *)

\* Stacks, tokens, strings and results are what they should be, for any set of
\* strings and any texts: the stacks stay below 12 places however long the input.
THEOREM TypesHold == FairSpec => []TypeOK
<1>1. FairSpec => []Inv
  BY InitInv, StepInv, PTL DEF FairSpec
<1>2. QED
  BY <1>1, InvTypes, PTL

\* Every string that a rule will read or free is allocated and has one owner,
\* whatever is read and however often the parser has to recover.
THEOREM HeapStaysExact == FairSpec => []HeapExact
<1>1. FairSpec => []Inv
  BY InitInv, StepInv, PTL DEF FairSpec
<1>2. Inv => HeapExact
  <2>1. Inv => Len(yyss) \in Nat
    BY DEF Inv, Path
  <2>2. QED
    BY <2>1, HeapOwners DEF Inv
<1>3. QED
  BY <1>1, <1>2, PTL

-----------------------------------------------------------------------------
(* The lines of the grammar, place by place *)

SymSets == SUBSET (0 .. 24)

\* A select line has the same symbols at its places whatever its length, but
\* for the last one.
Mid(i) == IF i <= 4 THEN SelectFrom[i]
          ELSE IF i % 4 = 1 THEN IF i = 5 THEN {T_WHERE} ELSE {T_AND}
          ELSE Condition[(i - 1) % 4]

LEMMA Froms ==
  /\ SelectFrom \in Seq(SymSets) /\ Len(SelectFrom) = 4
  /\ SelectFrom[1] = {T_SELECT} /\ SelectFrom[2] = {T_ID, T_STAR, T_COUNT}
  /\ SelectFrom[3] = {T_FROM} /\ SelectFrom[4] = {T_ID}
BY DEF SelectFrom, SymSets, T_SELECT, T_ID, T_STAR, T_COUNT, T_FROM

LEMMA Ends ==
  <<{T_LF}>> \in Seq(SymSets) /\ Len(<<{T_LF}>>) = 1 /\ <<{T_LF}>>[1] = {T_LF}
BY DEF SymSets, T_LF

LEMMA Condits ==
  /\ Condition[1] = {T_ID} /\ Condition[2] = Comparator /\ Condition[3] = {T_INTEGER, T_STRING}
  /\ \A x \in 1 .. 3 : Condition[x] \in SymSets
<1>1. Condition[1] = {T_ID} /\ Condition[2] = Comparator /\ Condition[3] = {T_INTEGER, T_STRING}
  BY DEF Condition
<1>2. {T_ID} \in SymSets /\ Comparator \in SymSets /\ {T_INTEGER, T_STRING} \in SymSets
  BY DEF SymSets, T_ID, Comparator, T_INTEGER, T_STRING
<1>3. QED
  BY <1>1, <1>2

LEMMA Joined ==
  ASSUME NEW S, NEW a \in Seq(S), NEW b \in Seq(S)
  PROVE  /\ a \o b \in Seq(S) /\ Len(a \o b) = Len(a) + Len(b)
         /\ \A i \in 1 .. Len(a) + Len(b) :
              (a \o b)[i] = IF i <= Len(a) THEN a[i] ELSE b[i - Len(a)]
BY ConcatProperties

LEMMA SelectPlaces ==
  ASSUME NEW n \in Nat
  PROVE  /\ Len(SelectLine(n)) = 4 * n + 5 /\ SelectLine(n) \in Seq(SymSets)
         /\ \A i \in 1 .. 4 * n + 4 : SelectLine(n)[i] = Mid(i)
         /\ SelectLine(n)[4 * n + 5] = {T_LF}
<1> DEFINE from == SelectFrom
           end == <<{T_LF}>>
<1>1. from \in Seq(SymSets) /\ Len(from) = 4 /\ \A i \in 1 .. 4 : from[i] = Mid(i)
  BY Froms DEF Mid
<1>2. end \in Seq(SymSets) /\ Len(end) = 1 /\ end[1] = {T_LF}
  BY Ends
<1> HIDE DEF from, end
<1>3. CASE n = 0
  <2>1. SelectLine(n) = from \o end
    BY <1>3 DEF SelectLine, from, end
  <2>2. /\ from \o end \in Seq(SymSets) /\ Len(from \o end) = Len(from) + Len(end)
        /\ \A i \in 1 .. Len(from) + Len(end) :
             (from \o end)[i] = IF i <= Len(from) THEN from[i] ELSE end[i - Len(from)]
    BY ZenonT(60), <1>1, <1>2, Joined
  <2>3. 4 * n + 5 = 5 /\ 4 * n + 4 = 4 /\ Len(from) + Len(end) = 5
    BY <1>1, <1>2, <1>3
  <2> DEFINE h == from \o end
  <2>4. h \in Seq(SymSets) /\ Len(h) = 5 /\ h[5] = {T_LF} /\ \A i \in 1 .. 4 : h[i] = Mid(i)
    <3> HIDE DEF h
    <3>1. /\ h \in Seq(SymSets) /\ Len(h) = 5
          /\ \A i \in 1 .. 5 : h[i] = IF i <= 4 THEN from[i] ELSE end[i - 4]
      BY <1>1, <2>2, <2>3 DEF h
    <3>2. QED
      BY <1>1, <1>2, <3>1
  <2>5. QED
    BY <2>1, <2>3, <2>4
<1>4. CASE n # 0
  <2> DEFINE mid == [i \in 1 .. 4 * n |->
                        IF i % 4 = 1 THEN IF i = 1 THEN {T_WHERE} ELSE {T_AND}
                        ELSE Condition[(i - 1) % 4]]
  <2>1. SelectLine(n) = (from \o mid) \o end
    BY <1>4 DEF SelectLine, from, end
  <2>2. \A i \in 1 .. 4 * n : mid[i] = Mid(i + 4)
    <3>1. TAKE i \in 1 .. 4 * n
    <3>2. (i + 4) % 4 = i % 4 /\ (i + 4 - 1) % 4 = (i - 1) % 4 /\ ~(i + 4 <= 4)
            /\ (i = 1 <=> i + 4 = 5)
      OBVIOUS
    <3>3. QED
      BY <3>2 DEF Mid
  <2>3. \A i \in 1 .. 4 * n : mid[i] \in SymSets
    <3>1. TAKE i \in 1 .. 4 * n
    <3>2. i % 4 = 1 \/ (i - 1) % 4 \in 1 .. 3
      OBVIOUS
    <3>3. {T_WHERE} \in SymSets /\ {T_AND} \in SymSets
      BY DEF SymSets, T_WHERE, T_AND
    <3>4. (i - 1) % 4 \in 1 .. 3 => Condition[(i - 1) % 4] \in SymSets
      BY Condits, Zenon
    <3>5. QED
      BY <3>2, <3>3, <3>4
  <2>4. mid \in Seq(SymSets) /\ Len(mid) = 4 * n
    <3>1. mid \in [1 .. 4 * n -> SymSets] /\ DOMAIN mid = 1 .. 4 * n
      BY <2>3
    <3>2. 4 * n \in Nat
      OBVIOUS
    <3> HIDE DEF mid
    <3>3. QED
      BY <3>1, <3>2, SeqDef, LenProperties
  <2> HIDE DEF mid
  <2> DEFINE h == from \o mid
  <2>5. /\ h \in Seq(SymSets) /\ Len(h) = Len(from) + Len(mid)
        /\ \A i \in 1 .. Len(from) + Len(mid) :
             h[i] = IF i <= Len(from) THEN from[i] ELSE mid[i - Len(from)]
    BY <1>1, <2>4, Joined
  <2> HIDE DEF h
  <2>6. Len(h) = 4 * n + 4 /\ \A i \in 1 .. 4 * n + 4 : h[i] = Mid(i)
    <3>1. Len(h) = 4 * n + 4
      BY <1>1, <2>4, <2>5
    <3>2. ASSUME NEW i \in 1 .. 4 * n + 4
          PROVE  h[i] = Mid(i)
      <4>1. CASE i <= 4
        BY <1>1, <2>4, <2>5, <4>1
      <4>2. CASE ~(i <= 4)
        <5>1. i - 4 \in 1 .. 4 * n /\ (i - 4) + 4 = i
          BY <4>2
        <5>2. h[i] = mid[i - 4]
          BY <1>1, <2>4, <2>5, <4>2
        <5>3. mid[i - 4] = Mid((i - 4) + 4)
          BY <2>2, <5>1
        <5>4. QED
          BY <5>1, <5>2, <5>3
      <4>3. QED
        BY <4>1, <4>2
    <3>3. QED
      BY <3>1, <3>2
  <2>7. /\ h \o end \in Seq(SymSets) /\ Len(h \o end) = Len(h) + Len(end)
        /\ \A i \in 1 .. Len(h) + Len(end) :
             (h \o end)[i] = IF i <= Len(h) THEN h[i] ELSE end[i - Len(h)]
    BY ZenonT(60), <1>2, <2>5, Joined
  <2>8. SelectLine(n) = h \o end
    BY <2>1 DEF h
  <2>9. QED
    BY <1>2, <2>6, <2>7, <2>8
<1>5. QED
  BY <1>3, <1>4

\* The places of the conditions
LEMMA Mids ==
  /\ Mid(1) = {T_SELECT} /\ Mid(2) = {T_ID, T_STAR, T_COUNT} /\ Mid(3) = {T_FROM} /\ Mid(4) = {T_ID}
  /\ \A j \in Nat : /\ Mid(4 * j + 5) = IF j = 0 THEN {T_WHERE} ELSE {T_AND}
                    /\ Mid(4 * j + 6) = {T_ID} /\ Mid(4 * j + 7) = Comparator
                    /\ Mid(4 * j + 8) = {T_INTEGER, T_STRING}
<1>1. Mid(1) = {T_SELECT} /\ Mid(2) = {T_ID, T_STAR, T_COUNT} /\ Mid(3) = {T_FROM} /\ Mid(4) = {T_ID}
  BY Froms DEF Mid
<1>2. ASSUME NEW j \in Nat
      PROVE  /\ Mid(4 * j + 5) = IF j = 0 THEN {T_WHERE} ELSE {T_AND}
             /\ Mid(4 * j + 6) = {T_ID} /\ Mid(4 * j + 7) = Comparator
             /\ Mid(4 * j + 8) = {T_INTEGER, T_STRING}
  <2>1. /\ ~(4 * j + 5 <= 4) /\ (4 * j + 5) % 4 = 1 /\ (4 * j + 5 = 5 <=> j = 0)
        /\ ~(4 * j + 6 <= 4) /\ (4 * j + 6) % 4 = 2 /\ (4 * j + 6 - 1) % 4 = 1
        /\ ~(4 * j + 7 <= 4) /\ (4 * j + 7) % 4 = 3 /\ (4 * j + 7 - 1) % 4 = 2
        /\ ~(4 * j + 8 <= 4) /\ (4 * j + 8) % 4 = 0 /\ (4 * j + 8 - 1) % 4 = 3
    OBVIOUS
  <2>2. QED
    BY <2>1, Condits DEF Mid
<1>3. QED
  BY <1>1, <1>2

OpenSelect(toks) ==
  Len(toks) <= 4 * MaxConds + 4 /\ \A i \in 1 .. Len(toks) : toks[i].sym \in Mid(i)
ClosedSelect(toks) ==
  \E n \in 0 .. MaxConds :
    /\ Len(toks) = 4 * n + 5 /\ toks[4 * n + 5].sym = T_LF
    /\ \A i \in 1 .. 4 * n + 4 : toks[i].sym \in Mid(i)

LEMMA SelectBegins ==
  ASSUME NEW toks, Len(toks) \in Nat, DOMAIN toks = 1 .. Len(toks)
  PROVE  (\E n \in 0 .. MaxConds : Begins(toks, SelectLine(n)))
           <=> OpenSelect(toks) \/ ClosedSelect(toks)
<1>1. MaxConds \in Nat /\ \A n \in 0 .. MaxConds : n \in Nat
  BY TextAssumption
<1>2. ASSUME NEW n \in 0 .. MaxConds, Begins(toks, SelectLine(n))
      PROVE  OpenSelect(toks) \/ ClosedSelect(toks)
  <2>1. /\ Len(SelectLine(n)) = 4 * n + 5 /\ SelectLine(n)[4 * n + 5] = {T_LF}
        /\ \A i \in 1 .. 4 * n + 4 : SelectLine(n)[i] = Mid(i)
    BY <1>1, SelectPlaces
  <2>2. Len(toks) <= 4 * n + 5 /\ \A i \in 1 .. Len(toks) : toks[i].sym \in SelectLine(n)[i]
    BY <1>2, <2>1 DEF Begins
  <2>3. CASE Len(toks) <= 4 * n + 4
    <3>1. \A i \in 1 .. Len(toks) : toks[i].sym \in Mid(i)
      BY <2>1, <2>2, <2>3
    <3>2. Len(toks) <= 4 * MaxConds + 4
      BY <1>1, <2>3
    <3>3. QED
      BY <3>1, <3>2 DEF OpenSelect
  <2>4. CASE Len(toks) = 4 * n + 5
    <3>1. \A i \in 1 .. 4 * n + 4 : toks[i].sym \in Mid(i)
      BY <2>1, <2>2, <2>4
    <3>2. toks[4 * n + 5].sym = T_LF
      BY <2>1, <2>2, <2>4
    <3>3. QED
      BY <2>4, <3>1, <3>2 DEF ClosedSelect
  <2>5. n \in Nat /\ Len(toks) \in Nat /\ Len(toks) <= 4 * n + 5
    BY <1>1, <2>2
  <2>6. Len(toks) <= 4 * n + 4 \/ Len(toks) = 4 * n + 5
    <3>1. \A k, m \in Nat : m <= 4 * k + 5 => m <= 4 * k + 4 \/ m = 4 * k + 5
      OBVIOUS
    <3>2. QED
      BY <2>5, <3>1
  <2>7. QED
    BY <2>3, <2>4, <2>6
<1>3. ASSUME OpenSelect(toks)
      PROVE  \E n \in 0 .. MaxConds : Begins(toks, SelectLine(n))
  <2>1. /\ Len(SelectLine(MaxConds)) = 4 * MaxConds + 5
        /\ \A i \in 1 .. 4 * MaxConds + 4 : SelectLine(MaxConds)[i] = Mid(i)
    BY <1>1, SelectPlaces
  <2>2. Begins(toks, SelectLine(MaxConds))
    BY <1>1, <1>3, <2>1 DEF OpenSelect, Begins
  <2>3. QED
    BY <1>1, <2>2
<1>4. ASSUME ClosedSelect(toks)
      PROVE  \E n \in 0 .. MaxConds : Begins(toks, SelectLine(n))
  <2>1. PICK n \in 0 .. MaxConds :
          /\ Len(toks) = 4 * n + 5 /\ toks[4 * n + 5].sym = T_LF
          /\ \A i \in 1 .. 4 * n + 4 : toks[i].sym \in Mid(i)
    BY <1>4 DEF ClosedSelect
  <2>2. /\ Len(SelectLine(n)) = 4 * n + 5 /\ SelectLine(n)[4 * n + 5] = {T_LF}
        /\ \A i \in 1 .. 4 * n + 4 : SelectLine(n)[i] = Mid(i)
    BY <1>1, SelectPlaces
  <2>3. ASSUME NEW i \in 1 .. Len(toks)
        PROVE  toks[i].sym \in SelectLine(n)[i]
    <3>1. CASE i = 4 * n + 5
      BY <2>1, <2>2, <3>1
    <3>2. CASE i # 4 * n + 5
      <4>1. i \in 1 .. 4 * n + 4
        BY <2>1, <3>2
      <4>2. QED
        BY <2>1, <2>2, <4>1
    <3>3. QED
      BY <3>1, <3>2
  <2>4. Begins(toks, SelectLine(n))
    BY <2>1, <2>2, <2>3 DEF Begins
  <2>5. QED
    BY <2>4
<1>5. QED
  BY <1>2, <1>3, <1>4

\* The first symbol tells what a line is.
LEMMA Heads ==
  ASSUME NEW toks, Len(toks) \in Nat \ {0}, DOMAIN toks = 1 .. Len(toks)
  PROVE  /\ toks[1].sym = T_LOAD =>
              (Viable(toks) <=> Begins(toks, LoadLine) \/ Begins(toks, LoadIndexLine))
         /\ toks[1].sym = T_SELECT => (Viable(toks) <=> OpenSelect(toks) \/ ClosedSelect(toks))
         /\ toks[1].sym \in {T_LF, T_QUIT} => (Viable(toks) <=> Len(toks) = 1)
         /\ Viable(toks) => toks[1].sym \in {T_LOAD, T_SELECT, T_LF, T_QUIT}
<1>1. /\ LoadLine[1] = {T_LOAD} /\ LoadIndexLine[1] = {T_LOAD}
      /\ <<{T_LF}>>[1] = {T_LF} /\ <<{T_QUIT}>>[1] = {T_QUIT}
      /\ Len(<<{T_LF}>>) = 1 /\ Len(<<{T_QUIT}>>) = 1
  BY DEF LoadLine, LoadIndexLine
<1>2. \A n \in 0 .. MaxConds : SelectLine(n)[1] = {T_SELECT}
  <2>1. TAKE n \in 0 .. MaxConds
  <2>2. n \in Nat /\ 1 \in 1 .. 4 * n + 4
    BY TextAssumption
  <2>3. SelectLine(n)[1] = Mid(1)
    BY <2>2, SelectPlaces
  <2>4. QED
    BY <2>3, Mids
<1>3. \A l : Begins(toks, l) => toks[1].sym \in l[1]
  BY DEF Begins
<1>4. Viable(toks) <=> \/ Begins(toks, LoadLine) \/ Begins(toks, LoadIndexLine)
                       \/ Begins(toks, <<{T_LF}>>) \/ Begins(toks, <<{T_QUIT}>>)
                       \/ \E n \in 0 .. MaxConds : Begins(toks, SelectLine(n))
  BY DEF Viable, Lines
<1>5. (\E n \in 0 .. MaxConds : Begins(toks, SelectLine(n)))
        <=> OpenSelect(toks) \/ ClosedSelect(toks)
  BY SelectBegins
<1>6. (\E n \in 0 .. MaxConds : Begins(toks, SelectLine(n))) => toks[1].sym = T_SELECT
  BY <1>2, <1>3
<1>7. /\ Begins(toks, LoadLine) \/ Begins(toks, LoadIndexLine) => toks[1].sym = T_LOAD
      /\ Begins(toks, <<{T_LF}>>) => toks[1].sym = T_LF /\ Len(toks) = 1
      /\ Begins(toks, <<{T_QUIT}>>) => toks[1].sym = T_QUIT /\ Len(toks) = 1
      /\ Len(toks) = 1 /\ toks[1].sym = T_LF => Begins(toks, <<{T_LF}>>)
      /\ Len(toks) = 1 /\ toks[1].sym = T_QUIT => Begins(toks, <<{T_QUIT}>>)
  BY <1>1, <1>3 DEF Begins
<1>8. /\ T_LOAD # T_SELECT /\ T_LOAD # T_LF /\ T_LOAD # T_QUIT /\ T_SELECT # T_LF
      /\ T_SELECT # T_QUIT /\ T_LF # T_QUIT
  BY DEF T_LOAD, T_SELECT, T_LF, T_QUIT
<1>9. QED
  BY <1>4, <1>5, <1>6, <1>7, <1>8, Zenon

LEMMA BeginsMore ==
  ASSUME NEW S, NEW toks \in Seq(S), NEW t \in S, NEW l
  PROVE  /\ Len(Append(toks, t)) = Len(toks) + 1 /\ Append(toks, t) \in Seq(S)
         /\ Append(toks, t)[Len(toks) + 1] = t
         /\ \A i \in 1 .. Len(toks) : Append(toks, t)[i] = toks[i]
         /\ Len(l) \in Nat =>
              (Begins(Append(toks, t), l)
                 <=> Begins(toks, l) /\ Len(toks) < Len(l) /\ t.sym \in l[Len(toks) + 1])
<1> DEFINE more == Append(toks, t)
<1>1. /\ Len(more) = Len(toks) + 1 /\ more \in Seq(S) /\ more[Len(toks) + 1] = t
      /\ \A i \in 1 .. Len(toks) : more[i] = toks[i]
  BY AppendProperties
<1>2. Len(toks) \in Nat /\ DOMAIN toks = 1 .. Len(toks) /\ DOMAIN more = 1 .. Len(toks) + 1
  BY <1>1, LenProperties
<1> HIDE DEF more
<1>3. ASSUME Len(l) \in Nat
      PROVE  Begins(more, l)
               <=> Begins(toks, l) /\ Len(toks) < Len(l) /\ t.sym \in l[Len(toks) + 1]
  <2>1. ASSUME Begins(more, l)
        PROVE  Begins(toks, l) /\ Len(toks) < Len(l) /\ t.sym \in l[Len(toks) + 1]
    <3>1. Len(toks) + 1 <= Len(l) /\ \A i \in 1 .. Len(toks) + 1 : more[i].sym \in l[i]
      BY <1>1, <1>2, <2>1 DEF Begins
    <3>2. \A i \in 1 .. Len(toks) : toks[i].sym \in l[i]
      BY <1>1, <1>2, <3>1
    <3>3. t.sym \in l[Len(toks) + 1]
      BY <1>1, <1>2, <3>1
    <3>4. QED
      BY <1>2, <1>3, <3>1, <3>2, <3>3 DEF Begins
  <2>2. ASSUME Begins(toks, l), Len(toks) < Len(l), t.sym \in l[Len(toks) + 1]
        PROVE  Begins(more, l)
    <3>1. \A i \in 1 .. Len(toks) : toks[i].sym \in l[i]
      BY <1>2, <2>2 DEF Begins
    <3>2. \A i \in 1 .. Len(toks) + 1 : more[i].sym \in l[i]
      BY <1>1, <1>2, <2>2, <3>1
    <3>3. Len(toks) + 1 <= Len(l)
      BY <1>2, <1>3, <2>2
    <3>4. QED
      BY <1>1, <1>2, <3>2, <3>3 DEF Begins
  <2>3. QED
    BY <2>1, <2>2
<1>4. QED
  BY <1>1, <1>3 DEF more

-----------------------------------------------------------------------------
(* What has been read of the line: place i of the stack ends at token At(i) *)

Begun(ss)   == Len(ss) >= 3 /\ ss[3] \in {4, 5, 6, 7}
InError(ss) == Len(ss) >= 3 /\ ss[3] = 3

\* Conditions that were read are one place of the stack, a condition another.
At(ss, vs, i) ==
  i - 2 + (IF i >= 8 /\ ss[8] = 28 THEN 4 * Len(vs[8]) - 2 ELSE 0)
        + (IF yystos[ss[i] + 1] = 32 THEN 2 ELSE 0)

\* The states that ask for a token, and what they shift
Asking == {1, 3, 4, 5, 16, 19, 20, 21, 22, 23, 24, 26, 28, 30, 31, 32, 40}

LEMMA AskTable ==
  ASSUME NEW s \in States
  PROVE  /\ Pact(s) # YYPACT_NINF <=> s \in Asking
         /\ s \in Asking <=> yydefact[s + 1] = 0
BY DEF States, Asking, Pact, yypact, YYPACT_NINF, yydefact

LEMMA AskSymbols ==
  ASSUME NEW s \in Asking
  PROVE  /\ s \in States /\ yystos[s + 1] \notin {15, 9, 31 + 1}
         /\ yystos[s + 1] = 31 <=> s = 28
BY DEF States, Asking, yystos

LEMMA ShiftedSymbols ==
  ASSUME NEW x \in 0 .. 24
  PROVE  /\ Shifts(1, x) # 0 <=> x \in {0, 3, 6, 9, 15, 1}
         /\ Shifts(3, x) # 0 <=> x = 15
         /\ Shifts(4, x) # 0 <=> x \in {10, 14, 18}
         /\ Shifts(5, x) # 0 <=> x = 18
         /\ Shifts(16, x) # 0 <=> x = 4
         /\ Shifts(19, x) # 0 <=> x = 4
         /\ Shifts(20, x) # 0 <=> x = 18
         /\ Shifts(21, x) # 0 <=> x = 17
         /\ Shifts(22, x) # 0 <=> x \in {5, 15}
         /\ Shifts(23, x) # 0 <=> x \in {7, 15}
         /\ Shifts(24, x) # 0 <=> x = 18
         /\ Shifts(26, x) # 0 <=> x = 8
         /\ Shifts(28, x) # 0 <=> x \in {11, 15}
         /\ Shifts(30, x) # 0 <=> x \in 19 .. 24
         /\ Shifts(31, x) # 0 <=> x = 15
         /\ Shifts(32, x) # 0 <=> x = 18
         /\ Shifts(40, x) # 0 <=> x \in {16, 17}
BY DEF Shifts, Pact, Entry, yypact, yycheck, yytable, YYPACT_NINF, YYLAST

\* The states that are at one place only
Lone == {1, 3, 4, 5, 16, 19, 20, 21, 22, 23, 24, 25, 26, 27, 28, 29, 31, 32, 33, 41, 42}

LEMMA DepthTable ==
  ASSUME NEW s \in States
  PROVE  /\ s \in Lone => Lowest[s + 1] = Height[s + 1]
         /\ s = 30 => Lowest[s + 1] = 8 /\ Height[s + 1] = 10
         /\ s = 40 => Lowest[s + 1] = 9 /\ Height[s + 1] = 11
BY DEF States, Lone, Lowest, Height

LEMMA Depths ==
  ASSUME NEW ss, Path(ss), NEW k \in 1 .. Len(ss)
  PROVE  /\ ss[k] \in Lone => k = Height[ss[k] + 1]
         /\ ss[k] = 30 => k \in 8 .. 10
         /\ ss[k] = 40 => k \in 9 .. 11
<1> DEFINE s == ss[k]
<1>1. s \in States /\ Lowest[s + 1] <= k /\ k <= Height[s + 1] /\ k \in Nat
  BY DEF Path
<1> HIDE DEF s
<1>2. Height[s + 1] \in Nat
  BY <1>1, HeightBound
<1>3. QED
  BY <1>1, <1>2, DepthTable DEF s

LEMMA UnderTable ==
  /\ \A b \in Below[31] : b \in {24, 32}
  /\ \A b \in Below[33] : b = 28
  /\ \A b \in Below[41] : b = 30
  /\ \A b \in Below[43] : b = 32
BY DEF Below

LEMMA LoneDepths ==
  ASSUME NEW ss, Path(ss), NEW k \in 1 .. Len(ss)
  PROVE  /\ ss[k] = 1 => k = 2
         /\ ss[k] \in {3, 4, 5} => k = 3
         /\ ss[k] \in {16, 19} => k = 4
         /\ ss[k] \in {20, 21} => k = 5
         /\ ss[k] \in {22, 23} => k = 6
         /\ ss[k] \in {24, 25, 26, 27} => k = 7
         /\ ss[k] \in {28, 29, 31} => k = 8
         /\ ss[k] \in {32, 33, 41} => k = 9
         /\ ss[k] = 42 => k = 10
<1> DEFINE s == ss[k]
<1>1. s \in Lone => k = Height[s + 1]
  BY Depths
<1> HIDE DEF s
<1>2. /\ \A t \in {1} : Height[t + 1] = 2
      /\ \A t \in {3, 4, 5} : Height[t + 1] = 3
      /\ \A t \in {16, 19} : Height[t + 1] = 4
      /\ \A t \in {20, 21} : Height[t + 1] = 5
      /\ \A t \in {22, 23} : Height[t + 1] = 6
      /\ \A t \in {24, 25, 26, 27} : Height[t + 1] = 7
      /\ \A t \in {28, 29, 31} : Height[t + 1] = 8
      /\ \A t \in {32, 33, 41} : Height[t + 1] = 9
      /\ \A t \in {42} : Height[t + 1] = 10
  BY DEF Height
<1>3. s \in {1, 3, 4, 5, 16, 19, 20, 21, 22, 23, 24, 25, 26, 27, 28, 29, 31, 32, 33, 41, 42} => s \in Lone
  BY DEF Lone
<1>4. /\ s \in {1} => k = 2
      /\ s \in {3, 4, 5} => k = 3
      /\ s \in {16, 19} => k = 4
      /\ s \in {20, 21} => k = 5
      /\ s \in {22, 23} => k = 6
      /\ s \in {24, 25, 26, 27} => k = 7
      /\ s \in {28, 29, 31} => k = 8
      /\ s \in {32, 33, 41} => k = 9
      /\ s \in {42} => k = 10
  BY <1>1, <1>2, <1>3
<1>5. QED
  BY <1>4 DEF s

\* The second condition and those behind it lie above those before them.
LEMMA SecondCondition ==
  ASSUME NEW ss, Path(ss), NEW k \in 1 .. Len(ss)
  PROVE  /\ ss[k] = 32 => k = 9 /\ ss[8] = 28
         /\ ss[k] = 30 => k = 8 \/ (k = 10 /\ ss[8] = 28)
         /\ ss[k] = 40 => (k = 9 /\ ss[8] = 30) \/ (k = 11 /\ ss[8] = 28)
         /\ ss[k] = 42 => k = 10 /\ ss[8] = 28
<1>1. Len(ss) \in Nat
  BY DEF Path
<1>2. ASSUME NEW j \in 1 .. Len(ss), ss[j] = 32
      PROVE  j = 9 /\ ss[8] = 28
  <2>1. j = 9
    BY <1>2, LoneDepths
  <2>2. ss[j - 1] \in Below[ss[j] + 1]
    BY <1>2, Under
  <2>3. QED
    BY <1>2, <2>1, <2>2, UnderTable
<1>3. ASSUME NEW j \in 1 .. Len(ss), ss[j] = 30
      PROVE  j = 8 \/ (j = 10 /\ ss[8] = 28)
  <2>1. j \in 8 .. 10 /\ j - 1 \in 1 .. Len(ss) /\ ss[j - 1] \in Below[ss[j] + 1]
    BY <1>3, Depths, Under
  <2>2. ss[j - 1] \in {24, 32}
    BY <1>3, <2>1, UnderTable
  <2>3. ss[j - 1] = 24 => j - 1 = 7
    BY <2>1, LoneDepths
  <2>4. ss[j - 1] = 32 => j - 1 = 9 /\ ss[8] = 28
    BY <1>2, <2>1
  <2>5. QED
    BY <2>1, <2>2, <2>3, <2>4
<1>4. ASSUME ss[k] = 40
      PROVE  (k = 9 /\ ss[8] = 30) \/ (k = 11 /\ ss[8] = 28)
  <2>1. k \in 9 .. 11 /\ k - 1 \in 1 .. Len(ss) /\ ss[k - 1] \in Below[ss[k] + 1]
    BY <1>4, Depths, Under
  <2>2. ss[k - 1] = 30
    BY <1>4, <2>1, UnderTable
  <2>3. k - 1 = 8 \/ (k - 1 = 10 /\ ss[8] = 28)
    BY <1>3, <2>1, <2>2
  <2>4. k - 1 = 8 => ss[8] = 30
    BY <2>2
  <2>5. k = 9 \/ k = 11
    BY <2>1, <2>3
  <2>6. QED
    BY <2>1, <2>3, <2>4, <2>5
<1>5. ASSUME ss[k] = 42
      PROVE  k = 10 /\ ss[8] = 28
  <2>1. k = 10
    BY <1>5, LoneDepths
  <2>2. k - 1 \in 1 .. Len(ss) /\ ss[k - 1] \in Below[ss[k] + 1]
    BY <1>5, Under
  <2>3. ss[k - 1] = 32
    BY <1>5, <2>2, UnderTable
  <2>4. QED
    BY <1>2, <2>1, <2>2, <2>3
<1>6. QED
  BY <1>2, <1>3, <1>4, <1>5

LEMMA FirstTable ==
  ASSUME NEW s \in Asking \ {1, 3}, NEW f \in First[s + 1]
  PROVE  IF s \in {5, 19, 21, 23, 26, 31} THEN f = 5 ELSE f = 4
BY DEF Asking, First

\* How much of a command lies below a state that asks for more
LEMMA Where ==
  ASSUME NEW ss, NEW vs, Path(ss), Begun(ss), ss[Len(ss)] \in Asking,
         (Len(ss) >= 8 /\ ss[8] = 28 => Len(vs[8]) \in Nat \ {0})
  PROVE  LET s == ss[Len(ss)]
             n == At(ss, vs, Len(ss))
         IN \/ /\ ss[3] = 5
               /\ \/ s = 5 /\ n = 1
                  \/ s = 19 /\ n = 2
                  \/ s = 21 /\ n = 3
                  \/ s = 23 /\ n = 4
                  \/ s = 26 /\ n = 5
                  \/ s = 31 /\ n = 6
            \/ /\ ss[3] = 4
               /\ \/ s = 4 /\ n = 1
                  \/ s = 16 /\ n = 2
                  \/ s = 20 /\ n = 3
                  \/ \E c \in Nat :
                       \/ s = (IF c = 0 THEN 22 ELSE 28) /\ n = 4 * c + 4
                       \/ s = (IF c = 0 THEN 24 ELSE 32) /\ n = 4 * c + 5
                       \/ s = 30 /\ n = 4 * c + 6
                       \/ s = 40 /\ n = 4 * c + 7
<1> DEFINE k == Len(ss)
           s == ss[k]
           n == At(ss, vs, k)
           c == Len(vs[8])
<1>1. k \in Nat /\ k >= 3 /\ k \in 1 .. Len(ss) /\ s \in Asking /\ ss[3] \in {4, 5, 6, 7}
  BY DEF Begun, Path
<1>2. s # 1 /\ s # 3
  <2>1. s = 1 => k = 2
    BY <1>1, LoneDepths
  <2>2. s = 3 => k = 3
    BY SMTT(60), <1>1, LoneDepths
  <2>3. QED
    BY <1>1, <2>1, <2>2
<1>3. IF s \in {5, 19, 21, 23, 26, 31} THEN ss[3] = 5 ELSE ss[3] = 4
  <2>1. ss[3] \in First[s + 1]
    BY <1>1 DEF Path
  <2>2. QED
    BY <1>1, <1>2, <2>1, FirstTable
<1>4. yystos[s + 1] # 32
  BY <1>1, AskSymbols
<1>5. /\ k < 8 => n = k - 2
      /\ k >= 8 => n = k - 2 + (IF ss[8] = 28 THEN 4 * c - 2 ELSE 0)
  BY <1>1, <1>4 DEF At
<1> HIDE DEF n, c
<1>6. /\ s \in {4, 5} => k = 3
      /\ s \in {16, 19} => k = 4
      /\ s \in {20, 21} => k = 5
      /\ s \in {22, 23} => k = 6
      /\ s \in {24, 26} => k = 7
      /\ s \in {28, 31} => k = 8
  <2>1. /\ s \in {3, 4, 5} => k = 3
        /\ s \in {16, 19} => k = 4
        /\ s \in {20, 21} => k = 5
        /\ s \in {22, 23} => k = 6
        /\ s \in {24, 25, 26, 27} => k = 7
        /\ s \in {28, 29, 31} => k = 8
    BY <1>1, LoneDepths, Zenon DEF s
  <2>2. QED
    BY <2>1
<1>7. /\ s = 32 => k = 9 /\ ss[8] = 28
      /\ s = 30 => k = 8 \/ (k = 10 /\ ss[8] = 28)
      /\ s = 40 => (k = 9 /\ ss[8] = 30) \/ (k = 11 /\ ss[8] = 28)
  BY <1>1, SecondCondition DEF s
<1> HIDE DEF k, s
<1>8. CASE s \in {4, 5, 16, 19, 20, 21, 22, 23, 24, 26, 31}
  <2>1. /\ s \in {4, 5} => n = 1
        /\ s \in {16, 19} => n = 2
        /\ s \in {20, 21} => n = 3
        /\ s \in {22, 23} => n = 4
        /\ s \in {24, 26} => n = 5
        /\ s = 31 => n = 6
    BY <1>5, <1>6 DEF s
  <2>2. 0 \in Nat /\ 4 * 0 + 4 = 4 /\ 4 * 0 + 5 = 5
    OBVIOUS
  <2>3. QED
    BY <1>3, <1>8, <2>1, <2>2 DEF n, k, s
<1>9. CASE s \in {28, 30, 32, 40} /\ ss[8] = 28
  <2>1. k >= 8
    BY <1>6, <1>7, <1>9
  <2>2. c \in Nat /\ c # 0
    BY <1>9, <2>1 DEF c, k
  <2>3. n = k - 2 + (4 * c - 2)
    BY <1>5, <1>9, <2>1
  <2>4. /\ s = 28 => k = 8 
        /\ s = 32 => k = 9
        /\ s = 30 => k = 10
        /\ s = 40 => k = 11
    BY <1>6, <1>7, <1>9 DEF s
  <2>5. /\ s = 28 => n = 4 * c + 4
        /\ s = 32 => n = 4 * c + 5
        /\ s = 30 => n = 4 * c + 6
        /\ s = 40 => n = 4 * c + 7
    BY <2>2, <2>3, <2>4
  <2>6. QED
    BY SMTT(60), <1>3, <1>9, <2>2, <2>5 DEF n, k, s
<1>10. CASE s \in {28, 30, 32, 40} /\ ss[8] # 28
  <2>1. s \in {30, 40}
    BY <1>6, <1>7, <1>10 DEF s
  <2>2. /\ s = 30 => n = 6
        /\ s = 40 => n = 7
    BY <1>5, <1>7, <1>10
  <2>3. 0 \in Nat /\ 4 * 0 + 6 = 6 /\ 4 * 0 + 7 = 7
    OBVIOUS
  <2>4. s # 5 /\ s # 19 /\ s # 21 /\ s # 23 /\ s # 26 /\ s # 31
    BY <2>1
  <2>5. QED
    BY <1>3, <2>1, <2>2, <2>3, <2>4 DEF n, k, s
<1>11. QED
  BY <1>1, <1>2, <1>8, <1>9, <1>10 DEF Asking

-----------------------------------------------------------------------------
(* What the values of the stack say of the tokens *)

\* A condition of the stack is the one that begins at token k.
Means(v, hp, toks, k) == [v EXCEPT !.value = hp[v.value]] = CondAt(toks, k)

Spells(sym, v, hp, toks, k) ==
  /\ k \in 1 .. Len(toks)
  /\ sym < 25 => toks[k].sym = sym
  /\ sym \in {T_INTEGER, T_STRING, T_ID, 35, 36} => toks[k].text = hp[v]
  /\ sym \in {33, 34} => v = AttrOf(toks[k])
  /\ sym = 37 => v = SelCond[toks[k].sym]
  /\ sym = 32 => k > 2 /\ Means(v, hp, toks, k - 2)
  /\ sym = 31 => k = 4 * Len(v) + 4 /\ \A j \in 1 .. Len(v) : Means(v[j], hp, toks, 4 * j + 2)

Reads(ss, vs, hp, toks) ==
  IF Begun(ss)
  THEN /\ Len(toks) = At(ss, vs, Len(ss))
       /\ \A i \in 3 .. Len(ss) : Spells(yystos[ss[i] + 1], vs[i], hp, toks, At(ss, vs, i))
  ELSE toks = << >>

LEMMA Numbers ==
  /\ YYEOF = 0 /\ T_SELECT = 3 /\ T_FROM = 4 /\ T_WHERE = 5 /\ T_LOAD = 6 /\ T_WITH = 7
  /\ T_INDEX = 8 /\ T_QUIT = 9 /\ T_COUNT = 10 /\ T_AND = 11 /\ T_STAR = 14 /\ T_LF = 15
  /\ T_INTEGER = 16 /\ T_STRING = 17 /\ T_ID = 18 /\ Comparator = 19 .. 24
BY DEF YYEOF, T_SELECT, T_FROM, T_WHERE, T_LOAD, T_WITH, T_INDEX, T_QUIT, T_COUNT, T_AND, T_STAR,
       T_LF, T_INTEGER, T_STRING, T_ID, Comparator

LEMMA TokenSyms ==
  ASSUME NEW t \in Token
  PROVE  /\ t.sym \in 0 .. 24 /\ t.sym # 1 /\ t.sym # 2
         /\ t.sym \in {16, 17} => t.text \in Literal
         /\ t.sym = 18 => t.text \in Name
         /\ t.sym \notin {16, 17, 18} => t.text = NoText
BY Numbers DEF Token

LEMMA LoadPlaces ==
  /\ Len(LoadLine) = 5 /\ LoadLine[1] = {6} /\ LoadLine[2] = {18} /\ LoadLine[3] = {4}
  /\ LoadLine[4] = {17} /\ LoadLine[5] = {15}
  /\ Len(LoadIndexLine) = 7 /\ LoadIndexLine[1] = {6} /\ LoadIndexLine[2] = {18}
  /\ LoadIndexLine[3] = {4} /\ LoadIndexLine[4] = {17} /\ LoadIndexLine[5] = {7}
  /\ LoadIndexLine[6] = {8} /\ LoadIndexLine[7] = {15}
BY Numbers DEF LoadLine, LoadIndexLine

\* The first token of a command, and what the top of the stack says of the last
LEMMA ReadEnds ==
  ASSUME NEW ss, NEW vs, NEW hp, NEW toks, Len(toks) \in Nat,
         Path(ss), Begun(ss), Reads(ss, vs, hp, toks)
  PROVE  /\ Len(toks) = At(ss, vs, Len(ss)) /\ Len(toks) \in Nat \ {0}
         /\ toks[1].sym = yystos[ss[3] + 1]
         /\ Spells(yystos[ss[Len(ss)] + 1], vs[Len(ss)], hp, toks, Len(toks))
<1>1. Len(ss) \in Nat /\ 3 \in 3 .. Len(ss) /\ Len(ss) \in 3 .. Len(ss) /\ ss[3] \in {4, 5, 6, 7}
  BY DEF Begun, Path
<1>2. /\ Len(toks) = At(ss, vs, Len(ss))
      /\ Spells(yystos[ss[3] + 1], vs[3], hp, toks, At(ss, vs, 3))
      /\ Spells(yystos[ss[Len(ss)] + 1], vs[Len(ss)], hp, toks, At(ss, vs, Len(ss)))
  BY <1>1 DEF Reads
<1>3. yystos[ss[3] + 1] \in {3, 6, 9, 15}
  <2>1. yystos[4 + 1] = 3 /\ yystos[5 + 1] = 6 /\ yystos[6 + 1] = 9 /\ yystos[7 + 1] = 15
    BY DEF yystos
  <2>2. QED
    BY <1>1, <2>1
<1>4. At(ss, vs, 3) = 1
  BY <1>3 DEF At
<1>5. toks[1].sym = yystos[ss[3] + 1]
  BY <1>2, <1>3, <1>4 DEF Spells
<1>6. At(ss, vs, Len(ss)) \in 1 .. Len(toks)
  BY <1>2 DEF Spells
<1>7. Len(toks) \in Nat \ {0}
  BY <1>6
<1>8. QED
  BY <1>2, <1>5, <1>7

LEMMA FirstToken ==
  ASSUME NEW t \in Token
  PROVE  Viable(Append(<< >>, t)) <=> t.sym \in {3, 6, 9, 15}
<1> DEFINE more == Append(<< >>, t)
<1>1. /\ Len(more) = 1 /\ more[1] = t /\ DOMAIN more = 1 .. Len(more)
      /\ Begins(more, LoadLine) <=> t.sym = 6
  <2>1. << >> \in Seq(Token) /\ Len(<< >>) = 0 /\ DOMAIN << >> = {}
    OBVIOUS
  <2> DEFINE none == << >>
  <2>2. none \in Seq(Token) /\ Len(none) = 0 /\ Begins(none, LoadLine)
    BY <2>1, LoadPlaces DEF Begins
  <2> HIDE DEF none
  <2>3. /\ Len(Append(none, t)) = Len(none) + 1 /\ Append(none, t) \in Seq(Token)
        /\ Append(none, t)[Len(none) + 1] = t
        /\ Begins(Append(none, t), LoadLine) <=>
             /\ Begins(none, LoadLine) /\ Len(none) < Len(LoadLine)
             /\ t.sym \in LoadLine[Len(none) + 1]
    <3>1. Len(LoadLine) \in Nat
      BY LoadPlaces
    <3>2. QED
      BY <2>2, <3>1, BeginsMore
  <2>4. more = Append(none, t)
    BY DEF none
  <2> HIDE DEF more
  <2>5. DOMAIN more = 1 .. Len(more)
    BY <2>3, <2>4, LenProperties
  <2>6. QED
    BY <2>2, <2>3, <2>4, <2>5, LoadPlaces
<1> HIDE DEF more
<1>2. OpenSelect(more) <=> t.sym = 3
  BY <1>1, Mids, Numbers, TextAssumption DEF OpenSelect
<1>3. ~ClosedSelect(more)
  BY <1>1, TextAssumption DEF ClosedSelect
<1>4. ~(t.sym \notin {3, 6, 9, 15} /\ Viable(more))
  BY <1>1, Heads, Numbers
<1>5. t.sym = 6 => Viable(more)
  BY <1>1, Heads, Numbers
<1>6. t.sym = 3 => Viable(more)
  BY <1>1, <1>2, Heads, Numbers
<1>7. t.sym \in {9, 15} => Viable(more)
  BY <1>1, Heads, Numbers
<1>8. QED
  BY <1>4, <1>5, <1>6, <1>7 DEF more

LEMMA LoadToken ==
  ASSUME NEW toks \in Seq(Token), NEW t \in Token, Len(toks) \in 1 .. 6, toks[1].sym = 6,
         Viable(toks), Len(toks) = 5 => toks[5].sym = 7
  PROVE  /\ toks[Len(toks)].sym # 15
         /\ Viable(Append(toks, t)) <=>
              t.sym \in <<{18}, {4}, {17}, {7, 15}, {8}, {15}>>[Len(toks)]
<1> DEFINE more == Append(toks, t)
           n == Len(toks)
<1>1. /\ Len(more) = n + 1 /\ more \in Seq(Token) /\ DOMAIN more = 1 .. Len(more)
      /\ more[1] = toks[1] /\ DOMAIN toks = 1 .. n /\ n \in 1 .. 6
  BY BeginsMore, LenProperties
<1>2. Begins(toks, LoadLine) \/ Begins(toks, LoadIndexLine)
  BY <1>1, Heads, Numbers
<1>3. Viable(more) <=> Begins(more, LoadLine) \/ Begins(more, LoadIndexLine)
  <2>1. Len(more) \in Nat \ {0} /\ more[1].sym = T_LOAD
    BY <1>1, Numbers
  <2> HIDE DEF more
  <2>2. QED
    BY <1>1, <2>1, Heads
<1>4. /\ Begins(more, LoadLine) <=> Begins(toks, LoadLine) /\ n < 5 /\ t.sym \in LoadLine[n + 1]
      /\ Begins(more, LoadIndexLine)
           <=> Begins(toks, LoadIndexLine) /\ n < 7 /\ t.sym \in LoadIndexLine[n + 1]
  <2>1. Len(LoadLine) = 5 /\ Len(LoadIndexLine) = 7 /\ 5 \in Nat /\ 7 \in Nat
    BY LoadPlaces
  <2>2. Begins(more, LoadLine)
          <=> Begins(toks, LoadLine) /\ n < Len(LoadLine) /\ t.sym \in LoadLine[n + 1]
    BY <2>1, BeginsMore
  <2>3. Begins(more, LoadIndexLine)
          <=> Begins(toks, LoadIndexLine) /\ n < Len(LoadIndexLine) /\ t.sym \in LoadIndexLine[n + 1]
    BY <2>1, BeginsMore
  <2>4. QED
    BY <2>1, <2>2, <2>3
<1> HIDE DEF more, n
<1>5. /\ Begins(toks, LoadLine) <=> n <= 5 /\ \A i \in 1 .. n : toks[i].sym \in LoadLine[i]
      /\ Begins(toks, LoadIndexLine) <=> \A i \in 1 .. n : toks[i].sym \in LoadIndexLine[i]
  <2>1. Len(LoadLine) = 5 /\ Len(LoadIndexLine) = 7
    BY LoadPlaces
  <2>2. QED
    BY <1>1, <2>1 DEF Begins, n
<1>6. ASSUME n <= 4
      PROVE  Begins(toks, LoadLine) /\ Begins(toks, LoadIndexLine)
  <2>1. \A i \in 1 .. n : LoadLine[i] = LoadIndexLine[i]
    <3>1. TAKE i \in 1 .. n
    <3>2. i = 1 \/ i = 2 \/ i = 3 \/ i = 4
      BY <1>1, <1>6
    <3>3. QED
      BY <3>2, LoadPlaces
  <2>2. QED
    BY <1>1, <1>2, <1>5, <1>6, <2>1
<1>7. ASSUME n > 4
      PROVE  ~Begins(toks, LoadLine) /\ Begins(toks, LoadIndexLine)
  <2>1. n = 5 => ~(toks[5].sym \in LoadLine[5])
    BY LoadPlaces DEF n
  <2>2. ~Begins(toks, LoadLine)
    BY <1>1, <1>5, <1>7, <2>1
  <2>3. QED
    BY <1>2, <2>2
<1>8. toks[n].sym # 15
  <2>1. toks[n].sym \in LoadIndexLine[n]
    BY <1>1, <1>5, <1>6, <1>7
  <2>2. QED
    BY <1>1, <2>1, LoadPlaces
<1>9. n <= 4 => (Viable(more) <=> t.sym \in LoadLine[n + 1] \cup LoadIndexLine[n + 1])
  BY <1>1, <1>3, <1>4, <1>6
<1>10. n > 4 => (Viable(more) <=> t.sym \in LoadIndexLine[n + 1])
  BY <1>1, <1>3, <1>4, <1>7
<1>11. Viable(more) <=> t.sym \in <<{18}, {4}, {17}, {7, 15}, {8}, {15}>>[n]
  <2>1. n = 1 \/ n = 2 \/ n = 3 \/ n = 4 \/ n = 5 \/ n = 6
    BY <1>1
  <2>2. QED
    BY <1>9, <1>10, <2>1, LoadPlaces
<1>12. QED
  BY <1>8, <1>11 DEF more, n

LEMMA MidNoEnd ==
  ASSUME NEW i \in Nat \ {0}
  PROVE  15 \notin Mid(i)
<1>1. CASE i <= 4
  <2>1. i = 1 \/ i = 2 \/ i = 3 \/ i = 4
    BY <1>1
  <2>2. QED
    BY <2>1, Mids, Numbers
<1>2. CASE ~(i <= 4) /\ i % 4 = 1
  BY <1>2, Numbers DEF Mid
<1>3. CASE ~(i <= 4) /\ i % 4 # 1
  <2>1. (i - 1) % 4 = 1 \/ (i - 1) % 4 = 2 \/ (i - 1) % 4 = 3
    BY <1>3
  <2>2. 15 \notin Condition[1] /\ 15 \notin Condition[2] /\ 15 \notin Condition[3]
    BY Condits, Numbers
  <2>3. Mid(i) = Condition[(i - 1) % 4]
    BY <1>3 DEF Mid
  <2>4. QED
    BY <2>1, <2>2, <2>3
<1>4. QED
  BY <1>1, <1>2, <1>3

LEMMA SelectToken ==
  ASSUME NEW toks \in Seq(Token), NEW t \in Token, toks # << >>, toks[1].sym = 3, Viable(toks),
         \A k \in Nat : Len(toks) = 4 * k + 5 => toks[Len(toks)].sym # 15
  PROVE  /\ OpenSelect(toks) /\ toks[Len(toks)].sym # 15
         /\ Viable(Append(toks, t)) <=>
              \/ Len(toks) < 4 * MaxConds + 4 /\ t.sym \in Mid(Len(toks) + 1)
              \/ t.sym = 15 /\ \E k \in 0 .. MaxConds : Len(toks) = 4 * k + 4
<1> DEFINE more == Append(toks, t)
           n == Len(toks)
<1>1. MaxConds \in Nat
  BY TextAssumption
<1>2. /\ Len(more) = n + 1 /\ more \in Seq(Token) /\ DOMAIN more = 1 .. Len(more)
      /\ DOMAIN toks = 1 .. n /\ n \in Nat \ {0}
      /\ more[n + 1] = t /\ \A i \in 1 .. n : more[i] = toks[i]
  BY BeginsMore, LenProperties, EmptySeq
<1> HIDE DEF more, n
<1>3. Viable(toks) <=> OpenSelect(toks) \/ ClosedSelect(toks)
  BY <1>2, Heads, Numbers DEF n
<1>4. ~ClosedSelect(toks)
  <2>1. SUFFICES ASSUME NEW k \in 0 .. MaxConds, n = 4 * k + 5, toks[4 * k + 5].sym = T_LF
                 PROVE  FALSE
    BY DEF ClosedSelect, n
  <2>2. k \in Nat
    BY <1>1
  <2>3. QED
    BY <2>1, <2>2, Numbers DEF n
<1>5. n <= 4 * MaxConds + 4 /\ \A i \in 1 .. n : toks[i].sym \in Mid(i)
  BY <1>3, <1>4 DEF OpenSelect, n
<1>6. toks[n].sym # 15
  BY <1>2, <1>5, MidNoEnd
<1>7. Viable(more) <=> OpenSelect(more) \/ ClosedSelect(more)
  <2>1. Len(more) \in Nat \ {0} /\ more[1].sym = T_SELECT
    BY <1>2, Numbers
  <2>2. QED
    BY <1>2, <2>1, Heads
<1>8. OpenSelect(more) <=> n < 4 * MaxConds + 4 /\ t.sym \in Mid(n + 1)
  <2>1. OpenSelect(more)
          <=> n + 1 <= 4 * MaxConds + 4 /\ \A i \in 1 .. n + 1 : more[i].sym \in Mid(i)
    BY <1>2 DEF OpenSelect
  <2>2. (\A i \in 1 .. n + 1 : more[i].sym \in Mid(i)) <=> t.sym \in Mid(n + 1)
    <3>1. \A i \in 1 .. n + 1 : i = n + 1 \/ i \in 1 .. n
      BY <1>2
    <3>2. n + 1 \in 1 .. n + 1
      BY <1>2
    <3>3. QED
      BY <1>2, <1>5, <3>1, <3>2
  <2>3. QED
    BY <1>1, <1>2, <2>1, <2>2
<1>9. ClosedSelect(more) <=> t.sym = 15 /\ \E k \in 0 .. MaxConds : n = 4 * k + 4
  <2>1. ASSUME NEW k \in 0 .. MaxConds
        PROVE  (/\ Len(more) = 4 * k + 5 /\ more[4 * k + 5].sym = T_LF
                /\ \A i \in 1 .. 4 * k + 4 : more[i].sym \in Mid(i))
                 <=> t.sym = 15 /\ n = 4 * k + 4
    <3>1. k \in Nat /\ 4 * k + 5 = 4 * k + 4 + 1
      BY <1>1
    <3>2. Len(more) = 4 * k + 5 <=> n = 4 * k + 4
      BY <1>2, <3>1
    <3>3. n = 4 * k + 4 => more[4 * k + 5] = t /\ \A i \in 1 .. 4 * k + 4 : more[i].sym \in Mid(i)
      BY <1>2, <1>5, <3>1
    <3>4. QED
      BY <3>2, <3>3, Numbers
  <2>2. QED
    BY <2>1 DEF ClosedSelect
<1>10. QED
  BY <1>3, <1>4, <1>6, <1>7, <1>8, <1>9 DEF more, n

\* What may follow, by the place in a condition
LEMMA SelectTokenAt ==
  ASSUME NEW toks \in Seq(Token), NEW t \in Token, toks # << >>, toks[1].sym = 3, Viable(toks),
         \A k \in Nat : Len(toks) = 4 * k + 5 => toks[Len(toks)].sym # 15
  PROVE  /\ Len(toks) = 1 => (Viable(Append(toks, t)) <=> t.sym \in {10, 14, 18})
         /\ Len(toks) = 2 => (Viable(Append(toks, t)) <=> t.sym = 4)
         /\ Len(toks) = 3 => (Viable(Append(toks, t)) <=> t.sym = 18)
         /\ \A c \in Nat :
              /\ Len(toks) = 4 * c + 4 =>
                   (Viable(Append(toks, t)) <=>
                      \/ Len(toks) # 4 * MaxConds + 4 /\ t.sym = (IF c = 0 THEN 5 ELSE 11)
                      \/ t.sym = 15)
              /\ Len(toks) = 4 * c + 5 => (Viable(Append(toks, t)) <=> t.sym = 18)
              /\ Len(toks) = 4 * c + 6 => (Viable(Append(toks, t)) <=> t.sym \in 19 .. 24)
              /\ Len(toks) = 4 * c + 7 => (Viable(Append(toks, t)) <=> t.sym \in {16, 17})
<1> DEFINE n == Len(toks)
           V == Viable(Append(toks, t))
<1>1. MaxConds \in Nat
  BY TextAssumption
<1>2. /\ V <=> \/ n < 4 * MaxConds + 4 /\ t.sym \in Mid(n + 1)
               \/ t.sym = 15 /\ \E k \in 0 .. MaxConds : n = 4 * k + 4
      /\ n <= 4 * MaxConds + 4 /\ n \in Nat
  BY SelectToken, LenProperties DEF OpenSelect
<1> HIDE DEF n, V
<1>3. ASSUME NEW m \in {1, 2, 3}, n = m
      PROVE  V <=> t.sym \in Mid(m + 1)
  <2>1. \A k \in Nat : n # 4 * k + 4
    BY <1>3
  <2>2. n < 4 * MaxConds + 4
    BY <1>1, <1>3
  <2>3. QED
    BY <1>1, <1>2, <1>3, <2>1, <2>2
<1>4. ASSUME NEW c \in Nat, NEW d \in {5, 6, 7}, n = 4 * c + d
      PROVE  V <=> t.sym \in Mid(4 * c + d + 1)
  <2>1. \A k \in Nat : n # 4 * k + 4
    BY <1>4
  <2>2. n < 4 * MaxConds + 4
    <3>1. n # 4 * MaxConds + 4
      BY <1>1, <2>1
    <3>2. QED
      BY <1>1, <1>2, <3>1
  <2>3. \A k \in 0 .. MaxConds : k \in Nat
    BY <1>1
  <2>4. QED
    BY <1>2, <1>4, <2>1, <2>2, <2>3
<1>5. ASSUME NEW c \in Nat, n = 4 * c + 4
      PROVE  V <=> \/ n # 4 * MaxConds + 4 /\ t.sym = (IF c = 0 THEN 5 ELSE 11)
                   \/ t.sym = 15
  <2>1. c \in 0 .. MaxConds
    BY <1>1, <1>2, <1>5
  <2>2. n # 4 * MaxConds + 4 <=> n < 4 * MaxConds + 4
    BY <1>1, <1>2
  <2>3. t.sym \in Mid(n + 1) <=> t.sym = (IF c = 0 THEN 5 ELSE 11)
    <3>1. n + 1 = 4 * c + 5
      BY <1>5
    <3>2. Mid(4 * c + 5) = IF c = 0 THEN {T_WHERE} ELSE {T_AND}
      BY Mids
    <3>3. QED
      BY <3>1, <3>2, Numbers
  <2>4. QED
    BY <1>2, <1>5, <2>1, <2>2, <2>3
<1>6. /\ n = 1 => (V <=> t.sym \in {10, 14, 18})
      /\ n = 2 => (V <=> t.sym = 4)
      /\ n = 3 => (V <=> t.sym = 18)
  BY <1>3, Mids, Numbers
<1>7. ASSUME NEW c \in Nat
      PROVE  /\ n = 4 * c + 5 => (V <=> t.sym = 18)
             /\ n = 4 * c + 6 => (V <=> t.sym \in 19 .. 24)
             /\ n = 4 * c + 7 => (V <=> t.sym \in {16, 17})
  <2>1. /\ n = 4 * c + 5 => (V <=> t.sym \in Mid(4 * c + 5 + 1))
        /\ n = 4 * c + 6 => (V <=> t.sym \in Mid(4 * c + 6 + 1))
        /\ n = 4 * c + 7 => (V <=> t.sym \in Mid(4 * c + 7 + 1))
    BY <1>4
  <2>2. 4 * c + 5 + 1 = 4 * c + 6 /\ 4 * c + 6 + 1 = 4 * c + 7 /\ 4 * c + 7 + 1 = 4 * c + 8
    OBVIOUS
  <2>3. Mid(4 * c + 6) = {18} /\ Mid(4 * c + 7) = 19 .. 24 /\ Mid(4 * c + 8) = {16, 17}
    BY Mids, Numbers
  <2>4. QED
    BY <2>1, <2>2, <2>3
<1>8. QED
  BY <1>5, <1>6, <1>7 DEF n, V

\* Bounded(t), for a line of a select that is as long as it may get
Room(toks, t) == t.sym \in {5, 11} => ~(Len(toks) = 4 * MaxConds + 4 /\ OpenSelect(toks))

LEMMA BoundedRoom ==
  ASSUME NEW t, Bounded(t), DOMAIN line = 1 .. Len(line)
  PROVE  Room(line, t)
<1>1. MaxConds \in Nat
  BY TextAssumption
<1>2. /\ Len(SelectLine(MaxConds)) = 4 * MaxConds + 5
      /\ \A i \in 1 .. 4 * MaxConds + 4 : SelectLine(MaxConds)[i] = Mid(i)
  BY <1>1, SelectPlaces
<1>3. Len(line) = 4 * MaxConds + 4 /\ OpenSelect(line) => Begins(line, SelectLine(MaxConds))
  BY <1>1, <1>2 DEF OpenSelect, Begins
<1>4. Len(line) = 4 * MaxConds + 4 => Len(line) = Len(SelectLine(MaxConds)) - 1
  BY <1>1, <1>2
<1>5. t.sym \in {5, 11} =>
        ~(Len(line) = Len(SelectLine(MaxConds)) - 1 /\ Begins(line, SelectLine(MaxConds)))
  BY Numbers DEF Bounded
<1>6. QED
  BY <1>3, <1>4, <1>5 DEF Room

LEMMA TokenSymbols ==
  /\ yystos[26 + 1] = 7 /\ yystos[24 + 1] = 5 /\ yystos[32 + 1] = 11
  /\ yystos[4 + 1] = 3 /\ yystos[5 + 1] = 6
BY DEF yystos

\* The state on the top of the stack shifts a token if and only if the line goes
\* on with it.
LEMMA Decide ==
  ASSUME NEW ss, NEW vs, NEW hp, NEW toks \in Seq(Token), Path(ss), ~InError(ss),
         ss[Len(ss)] \in Asking, (Len(ss) >= 8 /\ ss[8] = 28 => Len(vs[8]) \in Nat \ {0}),
         Reads(ss, vs, hp, toks), toks # << >> => Viable(toks)
  PROVE  /\ toks = << >> <=> ss[Len(ss)] = 1
         /\ ~EndOfLine(toks) /\ ~Quits(toks)
         /\ \A t \in Token : t.sym # 0 /\ Room(toks, t)
              => (Viable(Append(toks, t)) <=> Shifts(ss[Len(ss)], t.sym) # 0)
<1> DEFINE s == ss[Len(ss)]
<1>1. Len(ss) \in Nat \ {0} /\ Len(ss) \in 1 .. Len(ss) /\ s \in States /\ Len(toks) \in Nat
  BY EmptySeq, LenProperties DEF Path
<1>2. ASSUME NEW t \in Token
      PROVE  t.sym \in 0 .. 24 /\ t.sym # 1
  BY TokenSyms
<1>3. CASE ~Begun(ss)
  <2>1. toks = << >>
    BY <1>3 DEF Reads
  <2>2. s = 1
    <3>1. CASE Len(ss) >= 3
      <4>1. ss[3] \in First[s + 1]
        BY <1>1, <3>1 DEF Path
      <4>2. ss[3] \notin {3, 4, 5, 6, 7}
        BY <1>3, <3>1 DEF Begun, InError
      <4>3. s # 3
        BY <1>1, <4>2, LoneDepths
      <4>4. QED
        BY <4>1, <4>2, <4>3, FirstTable
    <3>2. CASE Len(ss) < 3
      <4>1. s \notin {3, 4, 5, 16, 19, 20, 21, 22, 23, 24, 26, 28, 31, 32, 30, 40}
        <5>1. /\ s \in {3, 4, 5} => Len(ss) = 3
              /\ s \in {16, 19} => Len(ss) = 4
              /\ s \in {20, 21} => Len(ss) = 5
              /\ s \in {22, 23} => Len(ss) = 6
              /\ s \in {24, 25, 26, 27} => Len(ss) = 7
              /\ s \in {28, 29, 31} => Len(ss) = 8
              /\ s \in {32, 33, 41} => Len(ss) = 9
          BY <1>1, LoneDepths, Zenon
        <5>2. /\ s = 30 => Len(ss) \in 8 .. 10
              /\ s = 40 => Len(ss) \in 9 .. 11
          BY <1>1, Depths, Zenon
        <5> DEFINE k == Len(ss)
        <5>3. k \in Nat /\ k < 3
          BY <1>1, <3>2
        <5> HIDE DEF s, k
        <5>4. /\ s \in {3, 4, 5} => k = 3
              /\ s \in {16, 19} => k = 4
              /\ s \in {20, 21} => k = 5
              /\ s \in {22, 23} => k = 6
              /\ s \in {24, 25, 26, 27} => k = 7
              /\ s \in {28, 29, 31} => k = 8
              /\ s \in {32, 33, 41} => k = 9
              /\ s = 30 => k \in 8 .. 10
              /\ s = 40 => k \in 9 .. 11
          BY <5>1, <5>2, Zenon DEF k
        <5>5. QED
          BY <5>3, <5>4
      <4>2. QED
        BY <4>1 DEF Asking
    <3>3. QED
      BY <1>1, <3>1, <3>2
  <2>3. ~EndOfLine(toks) /\ ~Quits(toks)
    BY <2>1 DEF EndOfLine, Quits
  <2>4. ASSUME NEW t \in Token, t.sym # 0
        PROVE  Viable(Append(toks, t)) <=> Shifts(1, t.sym) # 0
    <3>1. Viable(Append(toks, t)) <=> t.sym \in {3, 6, 9, 15}
      BY <2>1, FirstToken
    <3>2. Shifts(1, t.sym) # 0 <=> t.sym \in {0, 3, 6, 9, 15, 1}
      BY <1>2, ShiftedSymbols
    <3>3. QED
      BY <1>2, <2>4, <3>1, <3>2
  <2>5. QED
    BY <2>1, <2>2, <2>3, <2>4
<1>4. CASE Begun(ss)
  <2>1. /\ Len(toks) = At(ss, vs, Len(ss)) /\ Len(toks) \in Nat \ {0}
        /\ toks[1].sym = yystos[ss[3] + 1]
        /\ Spells(yystos[s + 1], vs[Len(ss)], hp, toks, Len(toks))
    BY <1>1, <1>4, ReadEnds
  <2> DEFINE n == Len(toks)
  <2>2. \/ /\ ss[3] = 5
           /\ \/ s = 5 /\ n = 1
              \/ s = 19 /\ n = 2
              \/ s = 21 /\ n = 3
              \/ s = 23 /\ n = 4
              \/ s = 26 /\ n = 5
              \/ s = 31 /\ n = 6
        \/ /\ ss[3] = 4
           /\ \/ s = 4 /\ n = 1
              \/ s = 16 /\ n = 2
              \/ s = 20 /\ n = 3
              \/ \E c \in Nat :
                   \/ s = (IF c = 0 THEN 22 ELSE 28) /\ n = 4 * c + 4
                   \/ s = (IF c = 0 THEN 24 ELSE 32) /\ n = 4 * c + 5
                   \/ s = 30 /\ n = 4 * c + 6
                   \/ s = 40 /\ n = 4 * c + 7
    BY <1>4, <2>1, Where
  <2>3. toks # << >> /\ Viable(toks) /\ s # 1
    <3>1. toks # << >>
      BY <2>1, EmptySeq
    <3>2. QED
      BY <2>2, <3>1
  <2>4. yystos[s + 1] < 25 => toks[n].sym = yystos[s + 1]
    BY <2>1 DEF Spells
  <2> HIDE DEF s
  <2>5. CASE ss[3] = 5
    <3>1. toks[1].sym = 6 /\ n \in 1 .. 6 /\ (n = 5 => toks[5].sym = 7)
      <4>1. n = 5 => s = 26
        BY <2>2, <2>5
      <4>2. n \in 1 .. 6
        BY <2>2, <2>5
      <4>3. QED
        BY <2>1, <2>4, <2>5, <4>1, <4>2, TokenSymbols
    <3>2. toks[n].sym # 15
      <4>1. PICK t \in Token : TRUE
        <5>1. toks[1] \in Token
          BY <2>1, ElementOfSeq
        <5>2. QED
          BY <5>1
      <4>2. QED
        BY <2>3, <3>1, LoadToken
    <3>3. ASSUME NEW t \in Token
          PROVE  Viable(Append(toks, t)) <=> Shifts(s, t.sym) # 0
      <4>1. Viable(Append(toks, t)) <=>
              t.sym \in <<{18}, {4}, {17}, {7, 15}, {8}, {15}>>[n]
        BY <2>3, <3>1, LoadToken
      <4>2. /\ Shifts(5, t.sym) # 0 <=> t.sym = 18
            /\ Shifts(19, t.sym) # 0 <=> t.sym = 4
            /\ Shifts(21, t.sym) # 0 <=> t.sym = 17
            /\ Shifts(23, t.sym) # 0 <=> t.sym \in {7, 15}
            /\ Shifts(26, t.sym) # 0 <=> t.sym = 8
            /\ Shifts(31, t.sym) # 0 <=> t.sym = 15
        BY <1>2, ShiftedSymbols
      <4>3. \/ s = 5 /\ n = 1
            \/ s = 19 /\ n = 2
            \/ s = 21 /\ n = 3
            \/ s = 23 /\ n = 4
            \/ s = 26 /\ n = 5
            \/ s = 31 /\ n = 6
        BY <2>2, <2>5
      <4> HIDE DEF n
      <4>4. QED
        BY SMTT(60), <4>1, <4>2, <4>3
    <3>4. ~EndOfLine(toks) /\ ~Quits(toks)
      BY <3>1, <3>2, Numbers DEF EndOfLine, Quits
    <3>5. QED
      BY <2>3, <3>3, <3>4 DEF s
  <2>6. CASE ss[3] = 4
    <3>1. toks[1].sym = 3
      BY <2>1, <2>6, TokenSymbols
    <3>2. \A k \in Nat : n = 4 * k + 5 => toks[n].sym # 15
      <4>1. ASSUME NEW k \in Nat, n = 4 * k + 5
            PROVE  s = 24 \/ s = 32
        <5>1. \A c \in Nat : 4 * c + 4 # 4 * k + 5 /\ 4 * c + 6 # 4 * k + 5 /\ 4 * c + 7 # 4 * k + 5
          OBVIOUS
        <5>2. n # 1 /\ n # 2 /\ n # 3
          BY <4>1
        <5>3. QED
          BY <2>2, <2>6, <4>1, <5>1, <5>2
      <4>2. s = 24 \/ s = 32 => toks[n].sym \in {5, 11}
        BY <2>4, TokenSymbols
      <4>3. QED
        BY <4>1, <4>2
    <3>3. toks[n].sym # 15 /\ OpenSelect(toks)
      <4>1. PICK t \in Token : TRUE
        <5>1. toks[1] \in Token
          BY <2>1, ElementOfSeq
        <5>2. QED
          BY <5>1
      <4>2. QED
        BY <2>3, <3>1, <3>2, SelectToken
    <3>4. ASSUME NEW t \in Token, Room(toks, t)
          PROVE  Viable(Append(toks, t)) <=> Shifts(s, t.sym) # 0
      <4> DEFINE V == Viable(Append(toks, t))
      <4>1. /\ n = 1 => (V <=> t.sym \in {10, 14, 18})
            /\ n = 2 => (V <=> t.sym = 4)
            /\ n = 3 => (V <=> t.sym = 18)
            /\ \A c \in Nat :
                 /\ n = 4 * c + 4 =>
                      (V <=> \/ n # 4 * MaxConds + 4 /\ t.sym = (IF c = 0 THEN 5 ELSE 11)
                             \/ t.sym = 15)
                 /\ n = 4 * c + 5 => (V <=> t.sym = 18)
                 /\ n = 4 * c + 6 => (V <=> t.sym \in 19 .. 24)
                 /\ n = 4 * c + 7 => (V <=> t.sym \in {16, 17})
        BY <2>3, <3>1, <3>2, SelectTokenAt
      <4>2. /\ Shifts(4, t.sym) # 0 <=> t.sym \in {10, 14, 18}
            /\ Shifts(16, t.sym) # 0 <=> t.sym = 4
            /\ Shifts(20, t.sym) # 0 <=> t.sym = 18
            /\ Shifts(22, t.sym) # 0 <=> t.sym \in {5, 15}
            /\ Shifts(28, t.sym) # 0 <=> t.sym \in {11, 15}
            /\ Shifts(24, t.sym) # 0 <=> t.sym = 18
            /\ Shifts(32, t.sym) # 0 <=> t.sym = 18
            /\ Shifts(30, t.sym) # 0 <=> t.sym \in 19 .. 24
            /\ Shifts(40, t.sym) # 0 <=> t.sym \in {16, 17}
        BY <1>2, ShiftedSymbols
      <4>3. t.sym \in {5, 11} => n # 4 * MaxConds + 4
        BY <3>3, <3>4 DEF Room
      <4> HIDE DEF V, n
      <4>4. CASE s \in {4, 16, 20}
        <5>1. (s = 4 /\ n = 1) \/ (s = 16 /\ n = 2) \/ (s = 20 /\ n = 3)
          <6>1. \A c : s # (IF c = 0 THEN 22 ELSE 28) /\ s # (IF c = 0 THEN 24 ELSE 32)
            BY <4>4
          <6>2. s # 30 /\ s # 40 /\ ss[3] # 5
            BY <2>6, <4>4
          <6>3. QED
            BY <2>2, <6>1, <6>2, Zenon
        <5>2. QED
          BY <4>1, <4>2, <5>1 DEF V
      <4>5. CASE s \notin {4, 16, 20}
        <5>1. PICK c \in Nat : \/ s = (IF c = 0 THEN 22 ELSE 28) /\ n = 4 * c + 4
                               \/ s = (IF c = 0 THEN 24 ELSE 32) /\ n = 4 * c + 5
                               \/ s = 30 /\ n = 4 * c + 6
                               \/ s = 40 /\ n = 4 * c + 7
          BY <2>2, <2>6, <4>5
        <5>2. CASE s = (IF c = 0 THEN 22 ELSE 28) /\ n = 4 * c + 4
          <6>1. V <=> \/ n # 4 * MaxConds + 4 /\ t.sym = (IF c = 0 THEN 5 ELSE 11)
                      \/ t.sym = 15
            BY <4>1, <5>2
          <6>2. V <=> t.sym = (IF c = 0 THEN 5 ELSE 11) \/ t.sym = 15
            BY <4>3, <6>1
          <6>3. QED
            BY <4>2, <5>2, <6>2 DEF V
        <5>3. CASE s = (IF c = 0 THEN 24 ELSE 32) /\ n = 4 * c + 5
          BY <4>1, <4>2, <5>3 DEF V
        <5>4. CASE s = 30 /\ n = 4 * c + 6
          BY <4>1, <4>2, <5>4 DEF V
        <5>5. CASE s = 40 /\ n = 4 * c + 7
          BY <4>1, <4>2, <5>5 DEF V
        <5>6. QED
          BY <5>1, <5>2, <5>3, <5>4, <5>5
      <4>6. QED
        BY <4>4, <4>5
    <3>5. ~EndOfLine(toks) /\ ~Quits(toks)
      BY <3>1, <3>3, Numbers DEF EndOfLine, Quits
    <3>6. QED
      BY <2>3, <3>4, <3>5 DEF s
  <2>7. QED
    BY <2>2, <2>5, <2>6
<1>5. QED
  BY <1>3, <1>4

-----------------------------------------------------------------------------
(* The invariant: how far the stack and the look-ahead are in the line *)

Consumed(toks, c) == IF c \in {YYEMPTY, YYEOF} THEN toks ELSE SubSeq(toks, 1, Len(toks) - 1)

\* The end of a line that was given up is the look-ahead, or lies on the stack.
ErrorStack == <<0, 1, 3>>
GivenUp(ss, c, toks) ==
  /\ \/ toks = <<Garbage>>
     \/ \E t \in Token : t.sym = T_LF /\ toks = <<Garbage, t>>
  /\ \/ /\ c \notin {YYEMPTY, YYEOF} /\ (EndOfLine(toks) <=> c = T_LF)
        /\ IF InError(ss) THEN ss = ErrorStack ELSE Shifts(ss[Len(ss)], c) = 0
     \/ c \in {YYEMPTY, YYEOF} /\ ~EndOfLine(toks) /\ ss = ErrorStack
     \/ c = YYEMPTY /\ EndOfLine(toks) /\ ss = Append(ErrorStack, 12)

\* A look-ahead is the last token of the line, and goes on with it; behind the
\* last token of the input an unfinished line is an error.
Follows(ss, vs, c, lv, hp, toks) ==
  /\ toks \in Seq(Token) /\ (toks # << >> => Viable(toks))
  /\ c = YYEOF => ~EndOfLine(toks) /\ ~Quits(toks)
  /\ IF InError(ss) THEN c = YYEOF /\ ss = ErrorStack /\ toks # << >>
     ELSE /\ Reads(ss, vs, hp, Consumed(toks, c))
          /\ c \notin {YYEMPTY, YYEOF} =>
               /\ toks # << >> /\ toks[Len(toks)].sym = c
               /\ c \in {T_INTEGER, T_STRING, T_ID} => toks[Len(toks)].text = hp[lv]
               /\ Shifts(ss[Len(ss)], c) # 0

InStep(ss, vs, c, lv, hp, st, toks) ==
  /\ c # YYEMPTY => ss[Len(ss)] \in Asking
  /\ st = 3 => ss = ErrorStack
  /\ IF Rejected(toks) THEN GivenUp(ss, c, toks) ELSE Follows(ss, vs, c, lv, hp, toks)

\* What is known of the errors of this line and the last
Reported(ss, c, st, td, bf, toks) ==
  /\ td => Rejected(toks) \/ c = YYEOF
  /\ InError(ss) /\ Rejected(toks) => td \/ bf
  /\ ~InError(ss) /\ st # 0 => bf
  /\ ~InError(ss) /\ ~Rejected(toks) => st = 0 \/ st + Len(Consumed(toks, c)) <= 2

Running ==
  result = "running" =>
    /\ InStep(yyss, yyvs, yychar, yylval, heap, yyerrstatus, line)
    /\ Reported(yyss, yychar, yyerrstatus, told, before, line)
GrammarInv == Inv /\ Running

LEMMA EndTable ==
  ASSUME NEW s \in States
  PROVE  /\ Shifts(s, 0) = (IF s = 1 THEN 2 ELSE 0)
         /\ Shifts(s, 1) = (IF s = 1 THEN 3 ELSE 0)
BY DEF States, Shifts, Pact, Entry, yypact, yycheck, yytable, YYPACT_NINF, YYLAST

LEMMA FinalTable ==
  ASSUME NEW s \in States, NEW x \in 0 .. 24, Shifts(s, x) = YYFINAL
  PROVE  x = 0 /\ s = 1
BY DEF States, Shifts, Pact, Entry, yypact, yycheck, yytable, YYPACT_NINF, YYLAST, YYFINAL

LEMMA ErrorStacks ==
  /\ Len(ErrorStack) = 3 /\ ErrorStack[1] = 0 /\ ErrorStack[2] = 1 /\ ErrorStack[3] = 3
  /\ InError(ErrorStack) /\ ~Begun(ErrorStack)
  /\ Len(Append(ErrorStack, 12)) = 4 /\ Append(ErrorStack, 12)[4] = 12
  /\ InError(Append(ErrorStack, 12)) /\ Append(ErrorStack, 12) # ErrorStack
  /\ Append(ErrorStack, 12)[2] = 1 /\ Append(ErrorStack, 12)[1] = 0
BY DEF ErrorStack, InError, Begun

\* Only the state at the bottom of the commands shifts the token error.
LEMMA ErrorPops ==
  ASSUME Inv, recover
  PROVE  yyss' = ErrorStack
<1>1. PICK n \in DOMAIN yyss :
        /\ Shifts(yyss[n], YYTERROR) # 0
        /\ yyss' = Append(SubSeq(yyss, 1, n), Shifts(yyss[n], YYTERROR))
  BY DEF recover
<1>2. /\ Path(yyss) /\ n \in 1 .. Len(yyss) /\ yyss[n] \in States
      /\ Shifts(yyss[n], 1) # 0
  BY <1>1 DEF Inv, Path, YYTERROR
<1>3. yyss[n] = 1 /\ Shifts(yyss[n], YYTERROR) = 3
  BY <1>2, EndTable DEF YYTERROR
<1>4. n = 2 /\ yyss[1] = 0
  BY SMTT(60), <1>2, <1>3, LoneDepths DEF Path
<1> DEFINE b == SubSeq(yyss, 1, n)
<1>5. b \in Seq(States) /\ Len(b) = 2 /\ b[1] = 0 /\ b[2] = 1
  BY <1>2, <1>3, <1>4, SubSeqProperties DEF Inv, Path
<1> HIDE DEF b
<1>6. b = <<0, 1>>
  BY <1>5
<1>7. Append(b, 3) = ErrorStack
  <2> DEFINE h == Append(b, 3)
  <2>1. 3 \in States
    BY DEF States
  <2>2. h \in Seq(States) /\ Len(h) = 3 /\ h[1] = 0 /\ h[2] = 1 /\ h[3] = 3
    <3>1. /\ h \in Seq(States) /\ Len(h) = Len(b) + 1 /\ h[Len(b) + 1] = 3
          /\ \A i \in 1 .. Len(b) : h[i] = b[i]
      <4>1. b \in Seq(States)
        BY <1>5
      <4>2. QED
        BY <2>1, <4>1, AppendProperties
    <3> HIDE DEF h
    <3>2. QED
      BY <1>5, <3>1
  <2> HIDE DEF h
  <2>3. h = <<0, 1, 3>>
    BY <2>2
  <2>4. QED
    BY <2>3 DEF h, ErrorStack
<1>8. QED
  BY <1>1, <1>3, <1>7 DEF b

\* What is said of tokens stays true when more are read, and as long as the
\* strings that are owned stay as they are.
LEMMA MeansKept ==
  ASSUME NEW v, NEW hp, NEW hp2, NEW toks, NEW toks2, NEW j \in Nat, hp2[v.value] = hp[v.value],
         toks2[j] = toks[j], toks2[j + 1] = toks[j + 1], toks2[j + 2] = toks[j + 2],
         Means(v, hp, toks, j)
  PROVE  Means(v, hp2, toks2, j)
<1>1. CondAt(toks2, j) = CondAt(toks, j)
  BY DEF CondAt
<1>2. QED
  BY <1>1 DEF Means

LEMMA SpellsKept ==
  ASSUME NEW sym, NEW v, NEW hp, NEW hp2, NEW toks, NEW toks2, NEW k,
         Len(toks) \in Nat, Len(toks2) \in Nat, Len(toks) <= Len(toks2),
         \A i \in 1 .. Len(toks) : toks2[i] = toks[i],
         \A a \in DOMAIN Owned(sym, v) : hp2[Owned(sym, v)[a]] = hp[Owned(sym, v)[a]],
         Fits(sym, v), Spells(sym, v, hp, toks, k)
  PROVE  Spells(sym, v, hp2, toks2, k)
<1>1. k \in 1 .. Len(toks) /\ k \in 1 .. Len(toks2) /\ toks2[k] = toks[k]
  BY DEF Spells
<1>2. /\ sym < 25 => toks2[k].sym = sym
      /\ sym \in {33, 34} => v = AttrOf(toks2[k])
      /\ sym = 37 => v = SelCond[toks2[k].sym]
  BY <1>1 DEF Spells
<1>3. sym \in {T_INTEGER, T_STRING, T_ID, 35, 36} => toks2[k].text = hp2[v]
  <2>1. sym \in {T_INTEGER, T_STRING, T_ID, 35, 36} => toks[k].text = hp[v]
    BY DEF Spells
  <2>2. ASSUME sym \in {T_INTEGER, T_STRING, T_ID, 35, 36}
        PROVE  hp2[v] = hp[v]
    <3>1. 1 \in DOMAIN Owned(sym, v) /\ Owned(sym, v)[1] = v
      BY <2>2, OwnedBy
    <3>2. QED
      BY <3>1
  <2>3. QED
    BY <1>1, <2>1, <2>2
<1>4. ASSUME sym = 32
      PROVE  k > 2 /\ Means(v, hp2, toks2, k - 2)
  <2>1. k > 2 /\ Means(v, hp, toks, k - 2)
    BY <1>4 DEF Spells
  <2>2. /\ k - 2 \in Nat /\ k - 2 \in 1 .. Len(toks) /\ (k - 2) + 1 \in 1 .. Len(toks)
        /\ (k - 2) + 2 \in 1 .. Len(toks)
    BY <1>1, <2>1
  <2>3. hp2[v.value] = hp[v.value]
    BY <1>4, OwnedBy
  <2>4. QED
    BY <2>1, <2>2, <2>3, MeansKept
<1>5. ASSUME sym = 31
      PROVE  k = 4 * Len(v) + 4 /\ \A j \in 1 .. Len(v) : Means(v[j], hp2, toks2, 4 * j + 2)
  <2>1. k = 4 * Len(v) + 4 /\ \A j \in 1 .. Len(v) : Means(v[j], hp, toks, 4 * j + 2)
    BY <1>5 DEF Spells
  <2>2. v \in Seq(Conds) /\ Len(v) \in Nat /\ DOMAIN v = 1 .. Len(v)
    BY <1>5, LenProperties DEF Fits
  <2>3. ASSUME NEW j \in 1 .. Len(v)
        PROVE  Means(v[j], hp2, toks2, 4 * j + 2)
    <3>1. /\ 4 * j + 2 \in Nat /\ 4 * j + 2 \in 1 .. Len(toks) /\ (4 * j + 2) + 1 \in 1 .. Len(toks)
          /\ (4 * j + 2) + 2 \in 1 .. Len(toks)
      BY <1>1, <2>1, <2>2
    <3>2. hp2[v[j].value] = hp[v[j].value]
      <4>1. j \in DOMAIN Owned(sym, v) /\ Owned(sym, v)[j] = v[j].value
        BY <1>5, <2>2, OwnedBy
      <4>2. QED
        BY <4>1
    <3>3. QED
      BY <2>1, <3>1, <3>2, MeansKept
  <2>4. QED
    BY <2>1, <2>3
<1>6. QED
  BY <1>1, <1>2, <1>3, <1>4, <1>5 DEF Spells

\* The strings of the places up to m
SameTexts(ss, vs, m, hp, hp2) ==
  \A i \in 1 .. m : LET o == Owned(yystos[ss[i] + 1], vs[i])
                    IN \A a \in DOMAIN o : hp2[o[a]] = hp[o[a]]

\* A place is put above the first m.
LEMMA ReadsMore ==
  ASSUME NEW ss, NEW vs, NEW ss2, NEW vs2, NEW hp, NEW hp2, NEW toks, NEW toks2, NEW m \in Nat,
         Path(ss), Typed(ss, vs), Begun(ss), Reads(ss, vs, hp, toks), m >= 3, m <= Len(ss),
         Len(ss2) = m + 1, \A j \in 1 .. m : ss2[j] = ss[j] /\ vs2[j] = vs[j],
         SameTexts(ss, vs, m, hp, hp2),
         Len(toks) \in Nat, Len(toks2) \in Nat, Len(toks) <= Len(toks2),
         \A i \in 1 .. Len(toks) : toks2[i] = toks[i],
         Len(toks2) = At(ss2, vs2, m + 1),
         Spells(yystos[ss2[m + 1] + 1], vs2[m + 1], hp2, toks2, Len(toks2))
  PROVE  Begun(ss2) /\ ~InError(ss2) /\ Reads(ss2, vs2, hp2, toks2)
<1>1. ss2[3] = ss[3] /\ ss[3] \in {4, 5, 6, 7} /\ Len(ss2) >= 3
  BY DEF Begun
<1>2. Begun(ss2) /\ ~InError(ss2)
  BY <1>1 DEF Begun, InError
<1>3. ASSUME NEW i \in 3 .. m
      PROVE  Spells(yystos[ss2[i] + 1], vs2[i], hp2, toks2, At(ss2, vs2, i))
  <2>1. i \in 1 .. m /\ i \in 3 .. Len(ss) /\ i \in 1 .. Len(ss)
    BY DEF Path
  <2>2. Spells(yystos[ss[i] + 1], vs[i], hp, toks, At(ss, vs, i))
    BY <2>1 DEF Reads
  <2>3. Fits(yystos[ss[i] + 1], vs[i])
    BY <2>1 DEF Typed
  <2>4. \A a \in DOMAIN Owned(yystos[ss[i] + 1], vs[i]) :
          hp2[Owned(yystos[ss[i] + 1], vs[i])[a]] = hp[Owned(yystos[ss[i] + 1], vs[i])[a]]
    BY <2>1 DEF SameTexts
  <2>5. Spells(yystos[ss[i] + 1], vs[i], hp2, toks2, At(ss, vs, i))
    BY <2>2, <2>3, <2>4, SpellsKept
  <2>6. At(ss2, vs2, i) = At(ss, vs, i)
    <3>1. \A j \in 1 .. m : ss2[j] = ss[j] /\ vs2[j] = vs[j]
      OBVIOUS
    <3>2. ss2[i] = ss[i] /\ (i >= 8 => ss2[8] = ss[8] /\ vs2[8] = vs[8])
      BY <2>1, <3>1
    <3>3. QED
      BY <3>2 DEF At
  <2>7. ss2[i] = ss[i] /\ vs2[i] = vs[i]
    BY <2>1
  <2>8. QED
    BY <2>5, <2>6, <2>7
<1>4. \A i \in 3 .. Len(ss2) : i \in 3 .. m \/ i = m + 1
  OBVIOUS
<1>5. \A i \in 3 .. Len(ss2) : Spells(yystos[ss2[i] + 1], vs2[i], hp2, toks2, At(ss2, vs2, i))
  BY <1>3, <1>4
<1>6. QED
  BY <1>2, <1>5 DEF Reads

LEMMA ReadsKept ==
  ASSUME NEW ss, NEW vs, NEW hp, NEW hp2, NEW toks, Len(toks) \in Nat, Path(ss), Typed(ss, vs),
         Reads(ss, vs, hp, toks), SameTexts(ss, vs, Len(ss), hp, hp2)
  PROVE  Reads(ss, vs, hp2, toks)
<1>1. CASE Begun(ss)
  <2>1. ASSUME NEW i \in 3 .. Len(ss)
        PROVE  Spells(yystos[ss[i] + 1], vs[i], hp2, toks, At(ss, vs, i))
    <3>1. i \in 1 .. Len(ss)
      BY DEF Path
    <3>2. Spells(yystos[ss[i] + 1], vs[i], hp, toks, At(ss, vs, i))
      BY <1>1 DEF Reads
    <3>3. Fits(yystos[ss[i] + 1], vs[i])
      BY <3>1 DEF Typed
    <3>4. \A a \in DOMAIN Owned(yystos[ss[i] + 1], vs[i]) :
            hp2[Owned(yystos[ss[i] + 1], vs[i])[a]] = hp[Owned(yystos[ss[i] + 1], vs[i])[a]]
      BY <3>1 DEF SameTexts
    <3>5. QED
      BY <3>2, <3>3, <3>4, SpellsKept
  <2>2. QED
    BY <1>1, <2>1 DEF Reads
<1>2. CASE ~Begun(ss)
  BY <1>2 DEF Reads
<1>3. QED
  BY <1>1, <1>2

\* A token is shifted above the start of a command.
LEMMA ReadsShift ==
  ASSUME NEW ss, NEW vs, NEW hp, NEW toks \in Seq(Token), NEW tok \in Token, NEW t \in States,
         NEW v \in Value, Path(ss), Typed(ss, vs), Begun(ss), ss[Len(ss)] \in Asking,
         Reads(ss, vs, hp, toks), yystos[t + 1] = tok.sym,
         tok.sym \in {T_INTEGER, T_STRING, T_ID} => tok.text = hp[v]
  PROVE  /\ Begun(Append(ss, t)) /\ ~InError(Append(ss, t))
         /\ Reads(Append(ss, t), Append(vs, v), hp, Append(toks, tok))
<1> DEFINE n == Len(ss)
           ss2 == Append(ss, t)
           vs2 == Append(vs, v)
           toks2 == Append(toks, tok)
<1>1. /\ ss \in Seq(States) /\ n \in Nat /\ n >= 3 /\ vs \in Seq(Value) /\ Len(vs) = n
      /\ ss[n] \in States
  BY DEF Begun, Path, Typed
<1>2. /\ Len(ss2) = n + 1 /\ ss2[n + 1] = t /\ \A j \in 1 .. n : ss2[j] = ss[j]
  BY <1>1, AppendProperties
<1>3. vs2[n + 1] = v /\ \A j \in 1 .. n : vs2[j] = vs[j]
  BY <1>1, AppendProperties
<1>4. /\ Len(toks) \in Nat /\ Len(toks2) = Len(toks) + 1 /\ toks2[Len(toks) + 1] = tok
      /\ \A j \in 1 .. Len(toks) : toks2[j] = toks[j]
  BY BeginsMore, LenProperties
<1> HIDE DEF ss2, vs2, toks2
<1>5. tok.sym \in 0 .. 24
  BY TokenSyms
<1>6. t # 28 /\ yystos[t + 1] # 32 /\ yystos[ss[n] + 1] # 32
  <2>1. yystos[28 + 1] = 31
    BY DEF yystos
  <2>2. yystos[ss[n] + 1] # 32
    BY AskSymbols
  <2>3. \A x \in 0 .. 24 : x # 31 /\ x # 32
    OBVIOUS
  <2>4. yystos[t + 1] \in 0 .. 24
    BY <1>5, Zenon
  <2>5. QED
    BY <2>1, <2>2, <2>3, <2>4, Zenon
<1>7. Len(toks2) = At(ss2, vs2, n + 1)
  <2>1. Len(toks) = At(ss, vs, n)
    BY DEF Reads
  <2>2. At(ss, vs, n) = n - 2 + (IF n >= 8 /\ ss[8] = 28 THEN 4 * Len(vs[8]) - 2 ELSE 0)
    BY <1>1, <1>6 DEF At
  <2>3. At(ss2, vs2, n + 1) =
          (n + 1) - 2 + (IF n + 1 >= 8 /\ ss2[8] = 28 THEN 4 * Len(vs2[8]) - 2 ELSE 0) + 0
    BY <1>2, <1>6 DEF At
  <2>4. CASE n >= 8
    <3>1. ss2[8] = ss[8] /\ vs2[8] = vs[8]
      BY <1>1, <1>2, <1>3, <2>4
    <3>2. CASE ss[8] = 28
      <4>1. Len(vs[8]) \in Nat
        <5>1. 8 \in 1 .. Len(ss) /\ yystos[28 + 1] = 31
          BY <1>1, <2>4 DEF yystos
        <5>2. Fits(31, vs[8])
          BY <3>2, <5>1 DEF Typed
        <5>3. QED
          BY <5>2 DEF Fits
      <4> DEFINE c == Len(vs[8])
      <4>2. c \in Nat /\ Len(toks) = n - 2 + (4 * c - 2) /\ At(ss2, vs2, n + 1) = n - 1 + (4 * c - 2)
        BY <1>1, <2>1, <2>2, <2>3, <2>4, <3>1, <3>2, <4>1
      <4> HIDE DEF c
      <4>3. QED
        BY <1>1, <1>4, <4>2
    <3>3. CASE ss[8] # 28
      BY <1>1, <1>4, <2>1, <2>2, <2>3, <2>4, <3>1, <3>3
    <3>4. QED
      BY <3>2, <3>3
  <2>5. CASE ~(n >= 8)
    <3>1. n + 1 >= 8 => ss2[8] # 28
      BY <1>1, <1>2, <1>6, <2>5
    <3>2. QED
      BY <1>1, <1>4, <2>1, <2>2, <2>3, <2>5, <3>1
  <2>6. QED
    BY <2>4, <2>5
<1>8. Spells(yystos[ss2[n + 1] + 1], vs2[n + 1], hp, toks2, Len(toks2))
  <2>1. Len(toks2) \in 1 .. Len(toks2) /\ toks2[Len(toks2)] = tok
    BY <1>4
  <2>2. tok.sym < 25 /\ tok.sym \notin {31, 32, 33, 34, 35, 36, 37}
    BY SMTT(60), <1>5
  <2>3. Spells(tok.sym, v, hp, toks2, Len(toks2))
    BY <2>1, <2>2 DEF Spells
  <2>4. QED
    BY <1>2, <1>3, <2>3
<1>9. SameTexts(ss, vs, n, hp, hp)
  BY DEF SameTexts
<1>10. \A j \in 1 .. n : ss2[j] = ss[j] /\ vs2[j] = vs[j]
  BY <1>2, <1>3
<1>11. QED
  <2>1. Begun(ss2) /\ ~InError(ss2) /\ Reads(ss2, vs2, hp, toks2)
    <3>1. Len(toks) <= Len(toks2) /\ Len(toks2) \in Nat
      BY <1>4
    <3>2. n <= Len(ss)
      BY <1>1
    <3>3. QED
      BY <1>1, <1>2, <1>4, <1>7, <1>8, <1>9, <1>10, <3>1, <3>2, ReadsMore
  <2>2. QED
    BY <2>1 DEF ss2, vs2, toks2

LEMMA FirstStates ==
  ASSUME NEW t \in States, Above(1, t), yystos[t + 1] \in 2 .. 24
  PROVE  t \in {4, 5, 6, 7}
BY DEF States, Above, Below, yystos

\* The first token of a line
LEMMA ReadsFirst ==
  ASSUME NEW ss, NEW vs, NEW hp, NEW tok \in Token, NEW t \in States, NEW v \in Value,
         Path(ss), Typed(ss, vs), ss[Len(ss)] = 1, Above(1, t), yystos[t + 1] = tok.sym,
         tok.sym # 0, tok.sym \in {T_INTEGER, T_STRING, T_ID} => tok.text = hp[v]
  PROVE  /\ Begun(Append(ss, t)) /\ ~InError(Append(ss, t))
         /\ Reads(Append(ss, t), Append(vs, v), hp, Append(<< >>, tok))
<1> DEFINE ss2 == Append(ss, t)
           vs2 == Append(vs, v)
           toks2 == Append(<< >>, tok)
<1>1. ss \in Seq(States) /\ vs \in Seq(Value) /\ Len(ss) = 2 /\ Len(vs) = 2
  <2>1. Len(ss) \in 1 .. Len(ss) /\ Len(vs) = Len(ss) /\ ss \in Seq(States) /\ vs \in Seq(Value)
    BY EmptySeq, LenProperties DEF Path, Typed
  <2>2. Len(ss) = 2
    BY <2>1, LoneDepths
  <2>3. QED
    BY <2>1, <2>2
<1>2. Len(ss2) = 3 /\ ss2[3] = t
  <2>1. Len(ss2) = Len(ss) + 1 /\ ss2[Len(ss) + 1] = t
    BY ZenonT(60), <1>1, AppendProperties
  <2> HIDE DEF ss2
  <2>2. QED
    BY <1>1, <2>1
<1>3. vs2[3] = v
  <2>1. vs2[Len(vs) + 1] = v
    BY <1>1, AppendProperties
  <2> HIDE DEF vs2
  <2>2. QED
    BY <1>1, <2>1
<1>4. Len(toks2) = 1 /\ toks2[1] = tok
  <2>1. << >> \in Seq(Token) /\ Len(<< >>) = 0
    OBVIOUS
  <2> DEFINE none == << >>
  <2>2. none \in Seq(Token) /\ Len(none) = 0
    BY <2>1
  <2> HIDE DEF none
  <2>3. Len(Append(none, tok)) = Len(none) + 1 /\ Append(none, tok)[Len(none) + 1] = tok
    BY <2>2, AppendProperties
  <2>4. toks2 = Append(none, tok)
    BY DEF none
  <2> HIDE DEF toks2
  <2>5. QED
    BY <2>2, <2>3, <2>4
<1> HIDE DEF ss2, vs2, toks2
<1>5. tok.sym \in 2 .. 24 /\ t \in {4, 5, 6, 7}
  <2>1. tok.sym \in 2 .. 24
    BY TokenSyms
  <2>2. yystos[t + 1] \in 2 .. 24
    BY <2>1, Zenon
  <2>3. t \in {4, 5, 6, 7}
    BY <2>2, FirstStates
  <2>4. QED
    BY <2>1, <2>3
<1>6. Begun(ss2) /\ ~InError(ss2)
  BY <1>2, <1>5 DEF Begun, InError
<1>7. yystos[t + 1] < 25 /\ yystos[t + 1] \notin {31, 32, 33, 34, 35, 36, 37}
  <2>1. \A x \in 2 .. 24 : x < 25 /\ x \notin {31, 32, 33, 34, 35, 36, 37}
    OBVIOUS
  <2>2. QED
    BY <1>5, <2>1, Zenon
<1>8. At(ss2, vs2, 3) = 1
  BY <1>2, <1>7 DEF At
<1>9. Spells(yystos[t + 1], v, hp, toks2, 1)
  BY <1>4, <1>7 DEF Spells
<1>10. \A i \in 3 .. 3 : i = 3
  OBVIOUS
<1>11. Reads(ss2, vs2, hp, toks2)
  BY <1>2, <1>3, <1>4, <1>6, <1>8, <1>9, <1>10 DEF Reads
<1>12. QED
  BY <1>6, <1>11 DEF ss2, vs2, toks2

\* The rules that reduce what stands in a command, and end none
Inner == 14 .. 29

LEMMA InnerTable ==
  ASSUME NEW r \in Inner
  PROVE  /\ r \in Reducible /\ (\A b \in Base[r] : Lowest[b + 1] >= 3)
         /\ r >= 17 => /\ yyr2[r + 1] = 1 /\ yyr1[r + 1] \in {33, 34, 35, 36, 37}
                       /\ yystos[Handle(r, 1) + 1] \notin {31, 32}
BY DEF Inner, Reducible, Base, Lowest, yyr1, yyr2, yystos, Handle, Handles

LEMMA ReadsReduce ==
  ASSUME NEW ss, NEW vs, NEW hp, NEW hp2, NEW toks, NEW r \in Inner, NEW v \in Value,
         Len(toks) \in Nat, Path(ss), Typed(ss, vs), Begun(ss), yydefact[ss[Len(ss)] + 1] = r,
         Fits(yyr1[r + 1], v), Reads(ss, vs, hp, toks),
         SameTexts(ss, vs, Len(ss) - yyr2[r + 1], hp, hp2),
         Len(toks) = At(Reduced(ss, r), ReducedTo(ss, vs, r, v), Len(ss) - yyr2[r + 1] + 1),
         Spells(yyr1[r + 1], v, hp2, toks, Len(toks))
  PROVE  /\ Begun(Reduced(ss, r)) /\ ~InError(Reduced(ss, r))
         /\ Reads(Reduced(ss, r), ReducedTo(ss, vs, r, v), hp2, toks)
<1> DEFINE m == Len(ss) - yyr2[r + 1]
           ss2 == Reduced(ss, r)
           vs2 == ReducedTo(ss, vs, r, v)
<1>1. r \in Reducible /\ \A b \in Base[r] : Lowest[b + 1] >= 3
  BY InnerTable
<1>2. m \in 1 .. Len(ss) /\ ss[m] \in Base[r] /\ m \in Nat /\ Len(ss) \in Nat
  BY <1>1, HandleOnTop DEF Path
<1>3. Path(ss2) /\ Len(ss2) = m + 1 /\ (\A i \in 1 .. m : ss2[i] = ss[i])
        /\ yystos[ss2[m + 1] + 1] = yyr1[r + 1]
  BY <1>1, ReducePath
<1>4. (\A i \in 1 .. m : vs2[i] = vs[i]) /\ vs2[m + 1] = v
  BY <1>1, ReduceTyped
<1>5. m >= 3 /\ m <= Len(ss)
  <2>1. Lowest[ss[m] + 1] <= m /\ ss[m] \in States
    BY <1>2 DEF Path
  <2>2. Lowest[ss[m] + 1] >= 3 /\ Lowest[ss[m] + 1] \in Nat
    BY <1>1, <1>2, <2>1, HeightBound
  <2>3. QED
    BY <1>2, <2>1, <2>2
<1>6. Len(toks) = At(ss2, vs2, m + 1) /\ SameTexts(ss, vs, m, hp, hp2)
  OBVIOUS
<1> HIDE DEF m, ss2, vs2
<1>7. Spells(yystos[ss2[m + 1] + 1], vs2[m + 1], hp2, toks, Len(toks))
  BY <1>3, <1>4
<1>8. \A j \in 1 .. m : ss2[j] = ss[j] /\ vs2[j] = vs[j]
  BY <1>3, <1>4
<1>9. Begun(ss2) /\ ~InError(ss2) /\ Reads(ss2, vs2, hp2, toks)
  <2>1. Len(toks) <= Len(toks) /\ \A i \in 1 .. Len(toks) : toks[i] = toks[i]
    OBVIOUS
  <2>2. Len(ss2) = m + 1
    BY <1>3
  <2>3. QED
    BY <1>2, <1>5, <1>6, <1>7, <1>8, <2>1, <2>2, ReadsMore
<1>10. QED
  BY <1>9 DEF ss2, vs2

\* A rule with one symbol leaves the places as they are.
LEMMA ReadsRename ==
  ASSUME NEW ss, NEW vs, NEW hp, NEW hp2, NEW toks, NEW r \in 17 .. 29, NEW v \in Value,
         Len(toks) \in Nat, Path(ss), Typed(ss, vs), Begun(ss), yydefact[ss[Len(ss)] + 1] = r,
         Fits(yyr1[r + 1], v), Reads(ss, vs, hp, toks),
         SameTexts(ss, vs, Len(ss) - 1, hp, hp2),
         Spells(Symbol(r, 1), vs[Len(ss)], hp, toks, Len(toks))
           => Spells(yyr1[r + 1], v, hp2, toks, Len(toks))
  PROVE  /\ Begun(Reduced(ss, r)) /\ ~InError(Reduced(ss, r))
         /\ Reads(Reduced(ss, r), ReducedTo(ss, vs, r, v), hp2, toks)
<1> DEFINE n == Len(ss)
           m == Len(ss) - yyr2[r + 1]
           ss2 == Reduced(ss, r)
           vs2 == ReducedTo(ss, vs, r, v)
<1>1. /\ r \in Inner /\ r \in Reducible /\ yyr2[r + 1] = 1
      /\ yyr1[r + 1] \in {33, 34, 35, 36, 37} /\ yystos[Handle(r, 1) + 1] \notin {31, 32}
  <2>1. r \in Inner /\ r >= 17
    BY DEF Inner
  <2>2. QED
    BY <2>1, InnerTable
<1>2. n \in Nat /\ n >= 3
  BY DEF Begun, Path
<1>3. ss[n] = Handle(r, 1) /\ m = n - 1
  <2>1. \A i \in 1 .. yyr2[r + 1] : ss[n - yyr2[r + 1] + i] = Handle(r, i)
    BY <1>1, HandleOnTop
  <2>2. 1 \in 1 .. yyr2[r + 1] /\ n - yyr2[r + 1] + 1 = n /\ n - yyr2[r + 1] = n - 1
    BY <1>1, <1>2
  <2>3. ss[n - yyr2[r + 1] + 1] = Handle(r, 1)
    BY <2>1, <2>2
  <2>4. QED
    BY <2>2, <2>3
<1>4. Len(ss2) = m + 1 /\ (\A i \in 1 .. m : ss2[i] = ss[i])
        /\ yystos[ss2[m + 1] + 1] = yyr1[r + 1]
  BY <1>1, ReducePath
<1>5. (\A i \in 1 .. m : vs2[i] = vs[i]) /\ vs2[m + 1] = v
  <2>1. r \in Reducible
    BY <1>1
  <2>2. QED
    BY <2>1, ReduceTyped
<1> HIDE DEF m, ss2, vs2
<1>6. m + 1 = n
  BY <1>2, <1>3
<1>7. ss[n] # 28 /\ ss2[n] # 28 /\ yystos[ss[n] + 1] # 32 /\ yystos[ss2[n] + 1] # 32
  <2>1. yystos[28 + 1] = 31
    BY DEF yystos
  <2>2. ss[n] = 28 => yystos[ss[n] + 1] = 31
    BY <2>1
  <2>3. ss2[n] = 28 => yystos[ss2[n] + 1] = 31
    BY <2>1
  <2>4. yystos[ss[n] + 1] \notin {31, 32}
    BY <1>1, <1>3
  <2>5. yystos[ss2[n] + 1] \in {33, 34, 35, 36, 37}
    BY <1>1, <1>4, <1>6
  <2>6. QED
    BY <2>2, <2>3, <2>4, <2>5
<1>8. /\ n >= 8 /\ ss[8] = 28 <=> n >= 8 /\ ss2[8] = 28
      /\ n >= 8 /\ ss[8] = 28 => vs2[8] = vs[8]
  <2>1. n > 8 => 8 \in 1 .. m
    BY <1>2, <1>3
  <2>2. n = 8 \/ n > 8 \/ ~(n >= 8)
    <3>1. \A k \in Nat : k = 8 \/ k > 8 \/ ~(k >= 8)
      OBVIOUS
    <3>2. QED
      BY <1>2, <3>1
  <2>3. CASE n = 8
    BY <1>7, <2>3
  <2>4. CASE n > 8
    BY <1>4, <1>5, <2>1, <2>4
  <2>5. QED
    BY <2>2, <2>3, <2>4
<1>9. At(ss2, vs2, n) = At(ss, vs, n)
  BY <1>7, <1>8 DEF At
<1>10. Len(toks) = At(ss2, vs2, m + 1)
  BY <1>6, <1>9 DEF Reads
<1>11. Spells(yyr1[r + 1], v, hp2, toks, Len(toks))
  <2>1. Spells(yystos[ss[n] + 1], vs[n], hp, toks, Len(toks))
    BY ReadEnds
  <2>2. QED
    BY <1>3, <2>1 DEF Symbol
<1>12. QED
  BY <1>1, <1>3, <1>10, <1>11, ReadsReduce DEF m, ss2, vs2

LEMMA CondCount ==
  ASSUME NEW ss, NEW vs, Path(ss), Typed(ss, vs)
  PROVE  Len(ss) >= 8 /\ ss[8] = 28 => vs[8] \in Seq(Conds) /\ Len(vs[8]) \in Nat \ {0}
<1> SUFFICES ASSUME Len(ss) >= 8, ss[8] = 28
             PROVE  vs[8] \in Seq(Conds) /\ Len(vs[8]) \in Nat \ {0}
  OBVIOUS
<1>1. 8 \in 1 .. Len(ss) /\ yystos[28 + 1] = 31
  BY DEF Path, yystos
<1>2. Fits(31, vs[8])
  BY <1>1 DEF Typed
<1>3. vs[8] \in Seq(Conds) /\ vs[8] # << >>
  BY <1>2 DEF Fits
<1>4. QED
  BY <1>3, EmptySeq, LenProperties

\* What the tables decide, where the stack and the line are in step
LEMMA Decided ==
  ASSUME Inv, Running, result = "running"
  PROVE  /\ InStep(yyss, yyvs, yychar, yylval, heap, yyerrstatus, line)
         /\ Reported(yyss, yychar, yyerrstatus, told, before, line)
         /\ Path(yyss) /\ Typed(yyss, yyvs) /\ Top = yyss[Len(yyss)] /\ Top \in States
         /\ yychar \in 0 .. 24 \cup {YYEMPTY}
         /\ Waits <=> Top \in Asking /\ yychar = YYEMPTY
         /\ Rule # 0 => Rule = yydefact[Top + 1] /\ Top \notin Asking /\ yychar = YYEMPTY
         /\ Shift # 0 => Shift = Shifts(Top, yychar) /\ Top \in Asking /\ yychar \in 0 .. 24
         /\ IsError => Shifts(Top, yychar) = 0 /\ Top \in Asking /\ yychar \in 0 .. 24
<1>1. /\ InStep(yyss, yyvs, yychar, yylval, heap, yyerrstatus, line)
      /\ Reported(yyss, yychar, yyerrstatus, told, before, line)
      /\ Path(yyss) /\ Typed(yyss, yyvs)
  BY DEF Inv, Running
<1>2. /\ Top = yyss[Len(yyss)] /\ Top \in States
      /\ Shift # 0 => yychar \in 0 .. 24 /\ Shift = Shifts(Top, yychar)
      /\ Rule # 0 => Rule = yydefact[Top + 1]
  BY Decisions
<1>3. /\ Pact(Top) # YYPACT_NINF <=> Top \in Asking
      /\ Top \in Asking <=> yydefact[Top + 1] = 0
  BY <1>2, AskTable
<1>4. yychar # YYEMPTY => Top \in Asking
  BY <1>1, <1>2 DEF InStep
<1>5. yychar \in 0 .. 24 \cup {YYEMPTY}
  BY DEF Inv, Rest, Symbols, YYEMPTY, YYEOF, T_SELECT, T_LF, T_INTEGER, T_STRING, T_ID, Comparator
<1>6. Waits <=> Top \in Asking /\ yychar = YYEMPTY
  BY <1>3 DEF Waits
<1>7. Rule # 0 => Top \notin Asking /\ yychar = YYEMPTY
  BY <1>2, <1>3, <1>4
<1>8. yychar \in 0 .. 24 => yychar # YYEMPTY
  BY DEF YYEMPTY
<1>9. Shift # 0 => Top \in Asking
  BY <1>2, <1>4, <1>8
<1>10. ASSUME IsError
       PROVE  Shifts(Top, yychar) = 0 /\ Top \in Asking /\ yychar \in 0 .. 24
  <2>1. ~Waits /\ Shift = 0 /\ Rule = 0
    BY <1>10 DEF IsError
  <2>2. Shifts(Top, yychar) = 0 /\ yydefact[Top + 1] = 0
    BY <2>1 DEF Shift, Rule
  <2>3. Top \in Asking
    BY <1>3, <2>2
  <2>4. QED
    BY <1>5, <1>6, <2>1, <2>2, <2>3
<1>11. QED
  BY <1>1, <1>2, <1>5, <1>6, <1>7, <1>9, <1>10

-----------------------------------------------------------------------------
(* Lines that are given up, and a token behind a line *)

LEMMA NoGarbage == \A t \in Token : t # Garbage /\ t.sym # 1
<1>1. Garbage.sym = 1
  BY DEF Garbage, YYTERROR
<1>2. QED
  BY <1>1, TokenSyms

LEMMA Spoiled ==
  ASSUME NEW ss, NEW c, NEW toks, NEW t \in Token, Rejected(toks), GivenUp(ss, c, toks)
  PROVE  ~Viable(Append(toks, t)) /\ ~Quits(toks) /\ toks # << >>
<1> DEFINE S == Token \cup {Garbage}
<1>1. toks \in Seq(S) /\ toks # << >> /\ toks[1] = Garbage
  <2>1. toks # << >> /\ toks[1] = Garbage
    BY DEF Rejected
  <2>2. CASE toks = <<Garbage>>
    BY <2>1, <2>2
  <2>3. CASE \E u \in Token : u.sym = T_LF /\ toks = <<Garbage, u>>
    BY <2>1, <2>3
  <2>4. QED
    BY <2>1, <2>2, <2>3 DEF GivenUp
<1>2. toks[1].sym = 1
  BY <1>1 DEF Garbage, YYTERROR
<1>3. ~Quits(toks)
  BY <1>2, Numbers DEF Quits
<1> DEFINE more == Append(toks, t)
<1>4. Len(more) = Len(toks) + 1 /\ more \in Seq(S) /\ \A i \in 1 .. Len(toks) : more[i] = toks[i]
  BY <1>1, BeginsMore
<1> HIDE DEF more
<1>5. Len(toks) \in Nat \ {0}
  BY <1>1, EmptySeq, LenProperties
<1>6. Len(more) \in Nat \ {0} /\ more[1].sym = 1 /\ DOMAIN more = 1 .. Len(more)
  BY <1>1, <1>2, <1>4, <1>5, LenProperties
<1>7. ~Viable(more)
  BY <1>6, Heads, Numbers
<1>8. QED
  BY <1>1, <1>3, <1>7 DEF more

LEMMA AheadSyms ==
  ASSUME NEW t \in Token, t.sym # 0
  PROVE  t.sym \notin {YYEMPTY, YYEOF}
BY TokenSyms DEF YYEMPTY, YYEOF

\* A token that spoils a line, or comes behind one that did
Spoils(t) == IF t.sym = T_LF THEN <<Garbage, t>> ELSE <<Garbage>>

LEMMA SpoilsLine ==
  ASSUME NEW ss, NEW t \in Token, t.sym # 0,
         IF InError(ss) THEN ss = ErrorStack ELSE Shifts(ss[Len(ss)], t.sym) = 0
  PROVE  Rejected(Spoils(t)) /\ GivenUp(ss, t.sym, Spoils(t)) /\ Spoils(t) # << >>
<1>1. t.sym \notin {YYEMPTY, YYEOF}
  BY AheadSyms
<1>2. CASE t.sym = T_LF
  <2>1. Spoils(t) = <<Garbage, t>>
    BY <1>2 DEF Spoils
  <2>2. EndOfLine(<<Garbage, t>>) /\ Rejected(<<Garbage, t>>) /\ <<Garbage, t>> # << >>
    BY <1>2 DEF EndOfLine, Rejected
  <2>3. QED
    BY <1>1, <1>2, <2>1, <2>2 DEF GivenUp
<1>3. CASE t.sym # T_LF
  <2>1. Spoils(t) = <<Garbage>>
    BY <1>3 DEF Spoils
  <2>2. ~EndOfLine(<<Garbage>>) /\ Rejected(<<Garbage>>) /\ <<Garbage>> # << >>
    BY Numbers DEF EndOfLine, Rejected, Garbage, YYTERROR
  <2>3. QED
    BY <1>1, <1>3, <2>1, <2>2 DEF GivenUp
<1>4. QED
  BY <1>2, <1>3

LEMMA ConsumedMore ==
  ASSUME NEW toks \in Seq(Token), NEW t \in Token, t.sym # 0
  PROVE  /\ Append(toks, t) \in Seq(Token) /\ Append(toks, t) # << >>
         /\ Append(toks, t)[Len(Append(toks, t))] = t /\ ~Rejected(Append(toks, t))
         /\ Consumed(Append(toks, t), t.sym) = toks
<1> DEFINE more == Append(toks, t)
           n == Len(toks)
<1>1. /\ more \in Seq(Token) /\ Len(more) = n + 1 /\ more[n + 1] = t /\ n \in Nat
      /\ \A i \in 1 .. n : more[i] = toks[i]
  BY BeginsMore, LenProperties
<1> HIDE DEF more
<1>2. more # << >> /\ more[Len(more)] = t
  BY <1>1, EmptySeq
<1>3. ~Rejected(more)
  <2>1. 1 \in 1 .. Len(more)
    BY <1>1
  <2>2. more[1] \in Token
    BY <1>1, <2>1, ElementOfSeq
  <2>3. QED
    BY <2>2, NoGarbage DEF Rejected
<1>4. SubSeq(more, 1, Len(more) - 1) = toks
  <2> DEFINE b == SubSeq(more, 1, n)
  <2>1. b \in Seq(Token) /\ Len(b) = n /\ \A i \in 1 .. n : b[i] = more[i]
    <3>1. CASE n = 0
      <4>1. b = << >>
        BY <1>1, <3>1
      <4> HIDE DEF b
      <4>2. b \in Seq(Token) /\ Len(b) = 0 /\ 1 .. n = {}
        BY <3>1, <4>1
      <4>3. QED
        BY <3>1, <4>2
    <3>2. CASE n # 0
      <4>1. n \in 1 .. Len(more)
        BY <1>1, <3>2
      <4>2. QED
        BY <1>1, <4>1, SubSeqProperties
    <3>3. QED
      BY <3>1, <3>2
  <2> HIDE DEF b
  <2>2. b = toks
    BY <1>1, <2>1, SeqEqual DEF n
  <2>3. Len(more) - 1 = n
    BY <1>1
  <2>4. QED
    BY <2>2, <2>3 DEF b
<1>5. t.sym \notin {YYEMPTY, YYEOF}
  BY AheadSyms
<1>6. Consumed(more, t.sym) = toks
  BY <1>4, <1>5 DEF Consumed
<1>7. QED
  BY <1>1, <1>2, <1>3, <1>6 DEF more

\* A new string is none of those that are owned.
LEMMA NewText ==
  ASSUME Inv, NEW s \in String, heap[s] = Free, NEW x
  PROVE  SameTexts(yyss, yyvs, Len(yyss), heap, [heap EXCEPT ![s] = x])
<1> DEFINE own == Owning(yyss, yyvs, yychar, yylval)
<1>1. Len(yyss) \in Nat /\ Exact(own, Len(yyss), heap) /\ DOMAIN heap = String
  BY DEF Inv, Path, Rest
<1>2. ASSUME NEW i \in 1 .. Len(yyss), NEW a \in DOMAIN Owned(yystos[yyss[i] + 1], yyvs[i])
      PROVE  LET o == Owned(yystos[yyss[i] + 1], yyvs[i])
             IN [heap EXCEPT ![s] = x][o[a]] = heap[o[a]]
  <2> DEFINE o == Owned(yystos[yyss[i] + 1], yyvs[i])
  <2>1. i \in 0 .. Len(yyss) /\ own[i] = o
    BY <1>1 DEF Owning
  <2> HIDE DEF own, o
  <2>2. o[a] \in String /\ heap[o[a]] # Free
    <3>1. a \in DOMAIN own[i]
      BY <2>1 DEF o
    <3>2. own[i][a] \in String /\ heap[own[i][a]] # Free
      BY <1>1, <2>1, <3>1 DEF Exact
    <3>3. QED
      BY <2>1, <3>2
  <2>3. o[a] # s
    BY <2>2
  <2>4. [heap EXCEPT ![s] = x][o[a]] = heap[o[a]]
    BY <1>1, <2>2, <2>3
  <2>5. QED
    BY <2>4 DEF o
<1>3. QED
  BY <1>2 DEF SameTexts

-----------------------------------------------------------------------------
(* The steps: each keeps the stack and the line in step, and is a step of the *)
(* grammar or none                                                           *)

Obeys ==
  /\ Running'
  /\ [GrammarNext]_grammarVars
  /\ EndOfLine(line) /\ line' = << >> => IF Rejected(line) THEN told \/ before ELSE ~told

LEMMA LexStep ==
  ASSUME Inv, Running, yylex
  PROVE  Obeys
<1>1. result = "running" /\ Waits
  BY DEF yylex
<1>2. /\ InStep(yyss, yyvs, yychar, yylval, heap, yyerrstatus, line)
      /\ Reported(yyss, yychar, yyerrstatus, told, before, line)
      /\ Path(yyss) /\ Typed(yyss, yyvs) /\ Top = yyss[Len(yyss)] /\ Top \in States
      /\ Top \in Asking /\ yychar = YYEMPTY
  BY <1>1, Decided
<1>3. PICK t \in Token :
        /\ Bounded(t)
        /\ yychar' = t.sym
        /\ IF t.text = NoText THEN UNCHANGED <<yylval, heap>>
           ELSE \E s \in String :
                  /\ heap[s] = Free /\ yylval' = s /\ heap' = [heap EXCEPT ![s] = t.text]
        /\ IF t.sym = YYEOF THEN UNCHANGED <<line, call>>
           ELSE line' = Extend(line, t) /\ call' = NoCall
  BY DEF yylex
<1>4. UNCHANGED <<yyss, yyvs, yyerrstatus, told, before, result>>
  BY DEF yylex
<1>5. /\ SameTexts(yyss, yyvs, Len(yyss), heap, heap')
      /\ t.sym \in {T_INTEGER, T_STRING, T_ID} => heap'[yylval'] = t.text
      /\ t.sym \notin {T_INTEGER, T_STRING, T_ID} => UNCHANGED <<yylval, heap>>
  <2>1. NoText \notin Name \cup Literal
    BY TextAssumption
  <2>2. t.sym \in {T_INTEGER, T_STRING, T_ID} <=> t.text # NoText
    BY <2>1, TokenSyms, Numbers
  <2>3. CASE t.text = NoText
    BY <1>3, <2>2, <2>3 DEF SameTexts
  <2>4. CASE t.text # NoText
    <3>1. PICK s \in String :
            heap[s] = Free /\ yylval' = s /\ heap' = [heap EXCEPT ![s] = t.text]
      BY <1>3, <2>4
    <3>2. DOMAIN heap = String
      BY DEF Inv, Rest
    <3>3. SameTexts(yyss, yyvs, Len(yyss), heap, heap')
      BY <3>1, NewText
    <3>4. QED
      BY <2>2, <2>4, <3>1, <3>2, <3>3
  <2>5. QED
    BY <2>3, <2>4
<1>6. CASE Rejected(line)
  <2>1. GivenUp(yyss, YYEMPTY, line)
    BY <1>2, <1>6 DEF InStep
  <2>2. ~Viable(Append(line, t)) /\ ~Quits(line)
    BY <1>6, <2>1, Spoiled
  <2>3. ~EndOfLine(line) /\ yyss = ErrorStack
    <3>1. 12 \notin Asking
      BY DEF Asking
    <3>2. yyss # Append(ErrorStack, 12)
      BY <1>2, <3>1, ErrorStacks
    <3>3. QED
      BY <2>1, <3>2 DEF GivenUp
  <2>4. CASE t.sym = YYEOF
    <3>1. UNCHANGED grammarVars
      BY <1>3, <1>4, <2>4 DEF grammarVars
    <3>2. yychar' = YYEOF /\ line' = line
      BY <1>3, <2>4
    <3>3. GivenUp(yyss, YYEOF, line)
      BY <2>1, <2>3 DEF GivenUp
    <3>4. InStep(yyss', yyvs', yychar', yylval', heap', yyerrstatus', line')
      BY <1>2, <1>4, <1>6, <3>2, <3>3 DEF InStep
    <3>5. Reported(yyss', yychar', yyerrstatus', told', before', line')
      BY <1>2, <1>4, <1>6, <3>2 DEF Reported
    <3>6. QED
      BY <2>3, <3>1, <3>4, <3>5 DEF Obeys, Running
  <2>5. CASE t.sym # YYEOF
    <3>1. line' = Spoils(t) /\ call' = NoCall /\ yychar' = t.sym
      BY <1>3, <2>2, <2>5 DEF Extend, Spoils
    <3>2. Rejected(Spoils(t)) /\ GivenUp(yyss, t.sym, Spoils(t)) /\ Spoils(t) # << >>
      BY <2>3, <2>5, ErrorStacks, SpoilsLine DEF YYEOF
    <3>3. GrammarRead(t)
      BY <1>1, <1>3, <1>4, <2>2, <2>3, <2>5, <3>1 DEF GrammarRead
    <3>4. InStep(yyss', yyvs', yychar', yylval', heap', yyerrstatus', line')
      BY <1>2, <1>4, <3>1, <3>2 DEF InStep
    <3>5. Reported(yyss', yychar', yyerrstatus', told', before', line')
      BY <1>2, <1>4, <1>6, <3>1, <3>2 DEF Reported
    <3>6. QED
      BY <2>3, <3>3, <3>4, <3>5 DEF Obeys, Running, GrammarNext
  <2>6. QED
    BY <2>4, <2>5
<1>7. CASE ~Rejected(line)
  <2>1. /\ line \in Seq(Token) /\ (line # << >> => Viable(line)) /\ ~InError(yyss)
        /\ Reads(yyss, yyvs, heap, line)
    BY <1>2, <1>7 DEF InStep, Follows, Consumed, YYEMPTY, YYEOF
  <2>2. /\ line = << >> <=> Top = 1
        /\ ~EndOfLine(line) /\ ~Quits(line)
        /\ \A u \in Token : u.sym # 0 /\ Room(line, u)
             => (Viable(Append(line, u)) <=> Shifts(Top, u.sym) # 0)
    <3>1. Len(yyss) >= 8 /\ yyss[8] = 28 => Len(yyvs[8]) \in Nat \ {0}
      BY <1>2, CondCount
    <3>2. QED
      BY <1>2, <2>1, <3>1, Decide
  <2>3. Room(line, t)
    BY <1>3, <2>1, BoundedRoom, LenProperties
  <2>4. Reads(yyss, yyvs, heap', line)
    BY <1>2, <1>5, <2>1, ReadsKept, LenProperties
  <2>5. CASE t.sym = YYEOF
    <3>1. UNCHANGED grammarVars
      BY <1>3, <1>4, <2>5 DEF grammarVars
    <3>2. yychar' = YYEOF /\ line' = line
      BY <1>3, <2>5
    <3>3. Follows(yyss, yyvs, YYEOF, yylval', heap', line)
      BY <2>1, <2>2, <2>4 DEF Follows, Consumed
    <3>4. InStep(yyss', yyvs', yychar', yylval', heap', yyerrstatus', line')
      BY <1>2, <1>4, <1>7, <3>2, <3>3 DEF InStep
    <3>5. Reported(yyss', yychar', yyerrstatus', told', before', line')
      BY <1>2, <1>4, <1>7, <2>1, <3>2 DEF Reported, Consumed
    <3>6. QED
      BY <2>2, <3>1, <3>4, <3>5 DEF Obeys, Running
  <2>6. CASE t.sym # YYEOF /\ Viable(Append(line, t))
    <3>1. line' = Append(line, t) /\ call' = NoCall /\ yychar' = t.sym /\ t.sym # 0
      BY <1>3, <2>6 DEF Extend, YYEOF
    <3> DEFINE more == Append(line, t)
    <3>2. /\ more \in Seq(Token) /\ more # << >> /\ more[Len(more)] = t /\ ~Rejected(more)
          /\ Consumed(more, t.sym) = line
      BY <2>1, <3>1, ConsumedMore
    <3> HIDE DEF more
    <3>3. Shifts(Top, t.sym) # 0
      BY <2>2, <2>3, <2>6, <3>1
    <3>4. Follows(yyss, yyvs, t.sym, yylval', heap', more)
      BY <1>2, <1>5, <2>1, <2>4, <2>6, <3>1, <3>2, <3>3 DEF Follows, YYEOF, more
    <3>5. GrammarRead(t)
      BY <1>1, <1>3, <1>4, <2>2, <2>6, <3>1 DEF GrammarRead
    <3>6. InStep(yyss', yyvs', yychar', yylval', heap', yyerrstatus', line')
      BY <1>2, <1>4, <3>1, <3>2, <3>4 DEF InStep, more
    <3>7. Reported(yyss', yychar', yyerrstatus', told', before', line')
      <4>1. Consumed(line, yychar) = line
        BY <1>2 DEF Consumed
      <4>2. ~told
        BY <1>2, <1>7 DEF Reported, YYEMPTY, YYEOF
      <4>3. line' = more
        BY <3>1 DEF more
      <4>4. QED
        BY <1>2, <1>4, <1>7, <2>1, <3>1, <3>2, <4>1, <4>2, <4>3 DEF Reported
    <3>8. QED
      BY <2>2, <3>5, <3>6, <3>7 DEF Obeys, Running, GrammarNext
  <2>7. CASE t.sym # YYEOF /\ ~Viable(Append(line, t))
    <3>1. line' = Spoils(t) /\ call' = NoCall /\ yychar' = t.sym /\ t.sym # 0
      BY <1>3, <2>7 DEF Extend, Spoils, YYEOF
    <3>2. Shifts(Top, t.sym) = 0
      BY <2>2, <2>3, <2>7, <3>1
    <3>3. Rejected(Spoils(t)) /\ GivenUp(yyss, t.sym, Spoils(t)) /\ Spoils(t) # << >>
      BY <1>2, <2>1, <3>1, <3>2, SpoilsLine
    <3>4. GrammarRead(t)
      BY <1>1, <1>3, <1>4, <2>2, <2>7, <3>1 DEF GrammarRead
    <3>5. InStep(yyss', yyvs', yychar', yylval', heap', yyerrstatus', line')
      BY <1>2, <1>4, <3>1, <3>3 DEF InStep
    <3>6. Reported(yyss', yychar', yyerrstatus', told', before', line')
      BY <1>2, <1>4, <1>7, <2>1, <3>1, <3>3 DEF Reported, YYEMPTY, YYEOF
    <3>7. QED
      BY <2>2, <3>4, <3>5, <3>6 DEF Obeys, Running, GrammarNext
  <2>8. QED
    BY <2>5, <2>6, <2>7
<1>8. QED
  BY <1>6, <1>7

LEMMA WithoutLast ==
  ASSUME NEW S, NEW s \in Seq(S), s # << >>
  PROVE  /\ SubSeq(s, 1, Len(s) - 1) \in Seq(S) /\ Len(SubSeq(s, 1, Len(s) - 1)) = Len(s) - 1
         /\ s = Append(SubSeq(s, 1, Len(s) - 1), s[Len(s)])
<1> DEFINE n == Len(s) - 1
           b == SubSeq(s, 1, n)
           a == Append(b, s[Len(s)])
<1>1. n \in Nat /\ Len(s) = n + 1 /\ s[n + 1] \in S /\ Len(s) \in Nat
  <2>1. Len(s) \in Nat \ {0}
    BY EmptySeq, LenProperties
  <2>2. Len(s) \in 1 .. Len(s)
    BY <2>1
  <2>3. s[Len(s)] \in S
    BY <2>2, ElementOfSeq
  <2>4. QED
    BY <2>1, <2>3
<1>2. b \in Seq(S) /\ Len(b) = n /\ \A i \in 1 .. n : b[i] = s[i]
  <2> HIDE DEF n
  <2>1. CASE n = 0
    <3>1. b = << >>
      BY <1>1, <2>1
    <3> HIDE DEF b
    <3>2. b \in Seq(S) /\ Len(b) = 0 /\ 1 .. n = {}
      BY <2>1, <3>1
    <3>3. QED
      BY <2>1, <3>2
  <2>2. CASE n # 0
    <3>1. n \in 1 .. Len(s)
      BY <1>1, <2>2
    <3>2. QED
      BY <1>1, <3>1, SubSeqProperties
  <2>3. QED
    BY <2>1, <2>2
<1> HIDE DEF n, b
<1>3. a \in Seq(S) /\ Len(a) = n + 1 /\ a[n + 1] = s[n + 1] /\ \A i \in 1 .. n : a[i] = b[i]
  <2>1. s[Len(s)] \in S
    BY <1>1
  <2> DEFINE x == s[Len(s)]
  <2> HIDE DEF x
  <2>2. /\ Append(b, x) \in Seq(S) /\ Len(Append(b, x)) = Len(b) + 1 /\ Append(b, x)[Len(b) + 1] = x
        /\ \A i \in 1 .. Len(b) : Append(b, x)[i] = b[i]
    BY <1>2, <2>1, AppendProperties DEF x
  <2>3. QED
    BY <1>1, <1>2, <2>2 DEF x
<1> HIDE DEF a
<1>4. \A i \in 1 .. n + 1 : a[i] = s[i]
  <2>1. \A i \in 1 .. n + 1 : i \in 1 .. n \/ i = n + 1
    BY <1>1
  <2>2. QED
    BY <1>2, <1>3, <2>1
<1>5. s = a
  BY <1>1, <1>3, <1>4, SeqEqual
<1>6. QED
  BY <1>1, <1>2, <1>5 DEF n, b, a

LEMMA LineLengths ==
  ASSUME NEW l \in Lines
  PROVE  Len(l) \in Nat
<1>1. \A n \in 0 .. MaxConds : Len(SelectLine(n)) \in Nat
  <2>1. TAKE n \in 0 .. MaxConds
  <2>2. n \in Nat
    BY TextAssumption
  <2>3. Len(SelectLine(n)) = 4 * n + 5
    BY <2>2, SelectPlaces
  <2>4. QED
    BY <2>2, <2>3
<1>2. Len(<<{T_LF}>>) \in Nat /\ Len(<<{T_QUIT}>>) \in Nat
  OBVIOUS
<1>3. QED
  BY <1>1, <1>2, LoadPlaces DEF Lines

LEMMA ShiftStep ==
  ASSUME Inv, Running, shift
  PROVE  Obeys
<1>1. result = "running" /\ Shift \notin {0, YYFINAL}
  BY DEF shift
<1>2. /\ InStep(yyss, yyvs, yychar, yylval, heap, yyerrstatus, line)
      /\ Reported(yyss, yychar, yyerrstatus, told, before, line)
      /\ Path(yyss) /\ Typed(yyss, yyvs) /\ Top = yyss[Len(yyss)] /\ Top \in States
      /\ Shift = Shifts(Top, yychar) /\ Top \in Asking /\ yychar \in 0 .. 24
  BY <1>1, Decided
<1> DEFINE t == Shift
<1>3. t \in States /\ yystos[t + 1] = yychar /\ Above(Top, t) /\ yychar # 0
  <2>1. Shifts(Top, 0) \in {0, YYFINAL}
    BY <1>2, EndTable DEF YYFINAL
  <2>2. yychar # 0
    BY <1>1, <1>2, <2>1
  <2>3. QED
    BY <1>1, <1>2, <2>2, ShiftTable
<1>4. /\ yyss' = Append(yyss, t) /\ yyvs' = Append(yyvs, yylval) /\ yychar' = YYEMPTY
      /\ yyerrstatus' = CountDown
      /\ UNCHANGED <<yylval, heap, told, before, line, call, result>>
  BY <1>3 DEF shift, YYEOF
<1> HIDE DEF t
<1>5. yychar \notin {YYEMPTY, YYEOF}
  BY <1>2, <1>3 DEF YYEMPTY, YYEOF
<1>6. UNCHANGED grammarVars
  BY <1>4 DEF grammarVars
<1>7. yyerrstatus \in 0 .. 3
  BY DEF Inv, Rest
<1>8. CASE Rejected(line)
  <2>1. GivenUp(yyss, yychar, line)
    BY <1>2, <1>8 DEF InStep
  <2>2. (EndOfLine(line) <=> yychar = T_LF) /\ InError(yyss) /\ yyss = ErrorStack
    BY <1>1, <1>2, <1>5, <2>1 DEF GivenUp
  <2>3. yychar = T_LF /\ t = 12
    <3>1. Top = 3
      BY <1>2, <2>2, ErrorStacks
    <3>2. yychar = 15
      BY <1>1, <1>2, <3>1, ShiftedSymbols
    <3>3. Shifts(3, 15) = 12
      BY DEF Shifts, Pact, Entry, yypact, yycheck, yytable, YYPACT_NINF, YYLAST
    <3>4. QED
      BY <1>2, <3>1, <3>2, <3>3, Numbers DEF t
  <2>4. GivenUp(yyss', YYEMPTY, line)
    BY <1>4, <2>1, <2>2, <2>3 DEF GivenUp
  <2>5. yyerrstatus' # 3
    BY <1>4, <1>7 DEF CountDown
  <2>6. InStep(yyss', yyvs', yychar', yylval', heap', yyerrstatus', line')
    BY <1>4, <1>8, <2>4, <2>5 DEF InStep
  <2>7. Reported(yyss', yychar', yyerrstatus', told', before', line')
    <3>1. InError(yyss')
      BY <1>4, <2>2, <2>3, ErrorStacks
    <3>2. QED
      BY <1>2, <1>4, <1>8, <2>2, <3>1 DEF Reported
  <2>8. line # << >>
    BY <1>8 DEF Rejected
  <2>9. QED
    BY <1>4, <1>6, <2>6, <2>7, <2>8 DEF Obeys, Running
<1>9. CASE ~Rejected(line)
  <2>1. /\ line \in Seq(Token) /\ (line # << >> => Viable(line)) /\ ~InError(yyss)
        /\ Reads(yyss, yyvs, heap, Consumed(line, yychar))
        /\ line # << >> /\ line[Len(line)].sym = yychar
        /\ yychar \in {T_INTEGER, T_STRING, T_ID} => line[Len(line)].text = heap[yylval]
    BY <1>2, <1>5, <1>9 DEF InStep, Follows
  <2> DEFINE toks == Consumed(line, yychar)
             tok == line[Len(line)]
  <2>2. tok \in Token /\ toks \in Seq(Token) /\ line = Append(toks, tok) /\ Len(line) = Len(toks) + 1
    <3>1. tok \in Token
      BY <2>1, ElementOfSeq, EmptySeq, LenProperties
    <3>2. toks = SubSeq(line, 1, Len(line) - 1)
      BY <1>5 DEF Consumed
    <3>3. SubSeq(line, 1, Len(line) - 1) \in Seq(Token)
            /\ Len(SubSeq(line, 1, Len(line) - 1)) = Len(line) - 1
            /\ line = Append(SubSeq(line, 1, Len(line) - 1), line[Len(line)])
      BY <2>1, WithoutLast
    <3>4. QED
      BY <2>1, <3>1, <3>2, <3>3, LenProperties
  <2> HIDE DEF toks, tok
  <2>3. /\ toks = << >> <=> Top = 1
    <3>1. Len(yyss) >= 8 /\ yyss[8] = 28 => Len(yyvs[8]) \in Nat \ {0}
      BY <1>2, CondCount
    <3>2. toks # << >> => Viable(toks)
      <4>1. SUFFICES ASSUME toks # << >> PROVE Viable(toks)
        OBVIOUS
      <4>2. PICK l \in Lines : Begins(line, l)
        BY <2>1 DEF Viable
      <4>3. Len(l) \in Nat
        BY <4>2, LineLengths
      <4>4. Begins(toks, l)
        BY <2>2, <4>2, <4>3, BeginsMore
      <4>5. QED
        BY <4>4 DEF Viable
    <3>3. QED
      BY <1>2, <2>1, <2>2, <3>1, <3>2, Decide DEF toks
  <2>4. yylval \in Value
    BY DEF Inv, Rest, Value
  <2>5. Begun(yyss') /\ ~InError(yyss') /\ Reads(yyss', yyvs', heap, line)
    <3>1. CASE Top = 1
      <4>1. toks = << >> /\ line = Append(<< >>, tok)
        BY <2>2, <2>3, <3>1
      <4>2. QED
        BY <1>2, <1>3, <1>4, <2>1, <2>2, <2>4, <3>1, <4>1, ReadsFirst DEF tok
    <3>2. CASE Top # 1
      <4>1. Begun(yyss)
        BY <2>1, <2>3, <3>2 DEF Reads, toks
      <4>2. QED
        BY <1>2, <1>3, <1>4, <2>1, <2>2, <2>4, <4>1, ReadsShift DEF tok, toks
    <3>3. QED
      BY <3>1, <3>2
  <2>6. Follows(yyss', yyvs', YYEMPTY, yylval, heap, line)
    BY <2>1, <2>5 DEF Follows, Consumed, YYEMPTY, YYEOF
  <2>7. yyerrstatus' # 3
    BY <1>4, <1>7 DEF CountDown
  <2>8. InStep(yyss', yyvs', yychar', yylval', heap', yyerrstatus', line')
    BY <1>4, <1>9, <2>6, <2>7 DEF InStep
  <2>9. Reported(yyss', yychar', yyerrstatus', told', before', line')
    <3>1. ~told /\ (yyerrstatus # 0 => before)
            /\ (yyerrstatus = 0 \/ yyerrstatus + Len(toks) <= 2)
      BY <1>2, <1>5, <1>9, <2>1 DEF Reported, toks
    <3>2. yyerrstatus' = 0 \/ (yyerrstatus # 0 /\ yyerrstatus' + Len(line) <= 2)
      <4>1. Len(toks) \in Nat
        BY <2>2, LenProperties
      <4>2. QED
        BY <1>4, <1>7, <2>2, <3>1, <4>1 DEF CountDown
    <3>3. Consumed(line, YYEMPTY) = line
      BY DEF Consumed
    <3>4. QED
      BY <1>4, <1>9, <2>5, <3>1, <3>2, <3>3 DEF Reported
  <2>10. QED
    BY <1>4, <1>6, <2>1, <2>8, <2>9 DEF Obeys, Running
<1>10. QED
  BY <1>8, <1>9

\* The input ends: what there is of a line is not executed.
LEMMA EndStep ==
  ASSUME Inv, Running, accept \/ abort
  PROVE  Obeys
<1>1. result = "running" /\ result' # "running" /\ line' = << >> /\ call' = NoCall
  BY DEF accept, abort
<1>2. /\ InStep(yyss, yyvs, yychar, yylval, heap, yyerrstatus, line)
      /\ Path(yyss) /\ Typed(yyss, yyvs) /\ Top = yyss[Len(yyss)] /\ Top \in States
  BY <1>1, Decided
<1>3. yychar = YYEOF /\ (accept => Top = 1) /\ (abort => yyss = ErrorStack)
  <2>1. ASSUME accept
        PROVE  yychar = YYEOF /\ Top = 1
    <3>1. Shift = YYFINAL /\ Shift # 0
      BY <2>1 DEF accept, YYFINAL
    <3>2. Shift = Shifts(Top, yychar) /\ yychar \in 0 .. 24
      BY <1>1, <3>1, Decided
    <3>3. QED
      BY <1>2, <3>1, <3>2, FinalTable DEF YYEOF
  <2>2. ASSUME abort
        PROVE  yychar = YYEOF /\ yyss = ErrorStack
    BY <1>2, <2>2 DEF abort, InStep
  <2>3. QED
    BY <2>1, <2>2, <1>1 DEF accept, abort
<1>4. Top \in Asking
  BY <1>2, <1>3 DEF InStep, YYEMPTY, YYEOF
<1>5. abort => ~accept /\ Top = 3
  BY <1>2, <1>3, ErrorStacks
<1>6. CASE Rejected(line)
  <2>1. GivenUp(yyss, yychar, line)
    BY <1>2, <1>6 DEF InStep
  <2>2. ~EndOfLine(line) /\ yyss = ErrorStack
    BY <1>3, <2>1 DEF GivenUp, YYEMPTY, YYEOF
  <2>3. ~accept /\ abort
    BY <1>2, <1>3, <2>2, ErrorStacks
  <2>4. ~Quits(line) /\ line # << >>
    <3>1. line # << >> /\ line[1].sym = 1
      BY <1>6 DEF Rejected, Garbage, YYTERROR
    <3>2. QED
      BY <3>1, Numbers DEF Quits
  <2>5. GrammarEnd
    BY <1>1, <2>2, <2>3, <2>4 DEF GrammarEnd, abort
  <2>6. QED
    BY <1>1, <2>2, <2>5 DEF Obeys, Running, GrammarNext
<1>7. CASE ~Rejected(line)
  <2>1. /\ line \in Seq(Token) /\ (line # << >> => Viable(line)) /\ ~EndOfLine(line) /\ ~Quits(line)
        /\ IF InError(yyss) THEN yyss = ErrorStack /\ line # << >> ELSE Reads(yyss, yyvs, heap, line)
    BY <1>2, <1>3, <1>7 DEF InStep, Follows, Consumed
  <2>2. result' = IF line = << >> THEN "accepted" ELSE "aborted"
    <3>1. CASE accept
      <4>1. ~InError(yyss)
        BY <1>2, <1>3, <2>1, <3>1, ErrorStacks
      <4>2. Len(yyss) >= 8 /\ yyss[8] = 28 => Len(yyvs[8]) \in Nat \ {0}
        BY <1>2, CondCount
      <4>3. line = << >>
        BY <1>2, <1>3, <1>4, <2>1, <3>1, <4>1, <4>2, Decide
      <4>4. QED
        BY <3>1, <4>3 DEF accept
    <3>2. CASE abort
      <4>1. line # << >>
        BY <1>3, <2>1, <3>2, ErrorStacks
      <4>2. QED
        BY <3>2, <4>1 DEF abort
    <3>3. QED
      BY <3>1, <3>2
  <2>3. GrammarEnd
    BY <1>1, <2>1, <2>2 DEF GrammarEnd
  <2>4. QED
    BY <1>1, <2>1, <2>3 DEF Obeys, Running, GrammarNext
<1>8. QED
  BY <1>6, <1>7

\* An error is one of the grammar, or the input ends in the middle of a line.
LEMMA RecoverStep ==
  ASSUME Inv, Running, recover
  PROVE  Obeys
<1>1. result = "running" /\ IsError /\ yyss' = ErrorStack
  BY ErrorPops DEF recover
<1>2. /\ InStep(yyss, yyvs, yychar, yylval, heap, yyerrstatus, line)
      /\ Reported(yyss, yychar, yyerrstatus, told, before, line)
      /\ Path(yyss) /\ Typed(yyss, yyvs) /\ Top = yyss[Len(yyss)] /\ Top \in States
      /\ Shifts(Top, yychar) = 0 /\ Top \in Asking /\ yychar \in 0 .. 24
  BY <1>1, Decided
<1>3. /\ told' = (told \/ yyerrstatus = 0)
      /\ yychar' = IF yyerrstatus = 3 THEN YYEMPTY ELSE yychar
      /\ yyerrstatus' = 3 /\ ~(yyerrstatus = 3 /\ yychar = YYEOF)
      /\ UNCHANGED <<yylval, before, line, call, result>>
  BY DEF recover
<1>4. UNCHANGED grammarVars
  BY <1>3 DEF grammarVars
<1>5. yychar # YYEMPTY
  BY <1>2 DEF YYEMPTY
<1>6. InError(yyss') /\ yyss'[Len(yyss')] \in Asking
  BY <1>1, ErrorStacks DEF Asking
<1>7. CASE Rejected(line)
  <2>1. GivenUp(yyss, yychar, line)
    BY <1>2, <1>7 DEF InStep
  <2>2. GivenUp(yyss', yychar', line)
    <3>1. CASE yyerrstatus = 3
      <4>1. yyss = ErrorStack /\ yychar' = YYEMPTY /\ yychar # YYEOF
        BY <1>2, <1>3, <3>1 DEF InStep
      <4>2. EndOfLine(line) <=> yychar = T_LF
        BY <1>5, <2>1, <4>1 DEF GivenUp
      <4>3. yychar # T_LF
        BY <1>2, <4>1, ErrorStacks, ShiftedSymbols, Numbers
      <4>4. QED
        BY <1>1, <2>1, <4>1, <4>2, <4>3 DEF GivenUp
    <3>2. CASE yyerrstatus # 3
      BY <1>1, <1>3, <1>5, <1>6, <2>1, <3>2 DEF GivenUp
    <3>3. QED
      BY <3>1, <3>2
  <2>3. InStep(yyss', yyvs', yychar', yylval', heap', yyerrstatus', line')
    BY <1>1, <1>3, <1>6, <1>7, <2>2 DEF InStep
  <2>4. Reported(yyss', yychar', yyerrstatus', told', before', line')
    BY <1>2, <1>3, <1>6, <1>7 DEF Reported
  <2>5. line # << >>
    BY <1>7 DEF Rejected
  <2>6. QED
    BY <1>3, <1>4, <2>3, <2>4, <2>5 DEF Obeys, Running
<1>8. CASE ~Rejected(line)
  <2>1. Follows(yyss, yyvs, yychar, yylval, heap, line)
    BY <1>2, <1>8 DEF InStep
  <2>2. yychar = YYEOF
    BY <1>2, <1>5, <2>1 DEF Follows
  <2>3. yychar' = YYEOF
    BY <1>3, <2>2
  <2>4. line # << >>
    <3>1. CASE InError(yyss)
      BY <2>1, <3>1 DEF Follows
    <3>2. CASE ~InError(yyss)
      <4>1. line \in Seq(Token) /\ (line # << >> => Viable(line)) /\ Reads(yyss, yyvs, heap, line)
        BY <2>1, <2>2, <3>2 DEF Follows, Consumed
      <4>2. Len(yyss) >= 8 /\ yyss[8] = 28 => Len(yyvs[8]) \in Nat \ {0}
        BY <1>2, CondCount
      <4>3. line = << >> <=> Top = 1
        BY <1>2, <3>2, <4>1, <4>2, Decide
      <4>4. Top # 1
        BY <1>2, <2>2, EndTable DEF YYEOF
      <4>5. QED
        BY <4>3, <4>4
    <3>3. QED
      BY <3>1, <3>2
  <2>5. Follows(yyss', yyvs', YYEOF, yylval, heap', line)
    BY <1>1, <1>6, <2>1, <2>2, <2>4 DEF Follows
  <2>6. InStep(yyss', yyvs', yychar', yylval', heap', yyerrstatus', line')
    BY <1>1, <1>3, <1>6, <1>8, <2>3, <2>5 DEF InStep
  <2>7. Reported(yyss', yychar', yyerrstatus', told', before', line')
    BY <1>3, <1>6, <1>8, <2>3 DEF Reported
  <2>8. QED
    BY <1>3, <1>4, <2>4, <2>6, <2>7 DEF Obeys, Running
<1>9. QED
  BY <1>7, <1>8

-----------------------------------------------------------------------------
(* The reductions *)

\* A state without a token of its own to ask for reduces; what it does so with
\* says where the stack is.
LEMMA ReducesIn ==
  ASSUME NEW s \in States
  PROVE  /\ yydefact[s + 1] \in Inner => Lowest[s + 1] >= 3 /\ First[s + 1] \subseteq {4, 5}
         /\ s = 12 => yydefact[s + 1] = 7
         /\ yystos[s + 1] = 31 <=> s = 28
         /\ s \in 3 .. 7 => yystos[s + 1] \in {1, 3, 6, 9, 15}
BY DEF States, Inner, yydefact, Lowest, First, yystos

LEMMA Reduces ==
  ASSUME Inv, Running, NEW rules \in SUBSET Reducible, NEW v, Reduce(rules, v)
  PROVE  /\ Rule \in rules /\ Rule \in Reducible /\ yydefact[yyss[Len(yyss)] + 1] = Rule
         /\ Path(yyss) /\ Typed(yyss, yyvs) /\ Len(yyss) \in Nat \ {0}
         /\ yyss[Len(yyss)] \in States
         /\ yyss' = Reduced(yyss, Rule) /\ yyvs' = ReducedTo(yyss, yyvs, Rule, v)
         /\ yychar = YYEMPTY /\ yychar' = YYEMPTY /\ yylval' = yylval
         /\ yyerrstatus' = yyerrstatus /\ yyerrstatus \in 0 .. 2 /\ result = "running"
         /\ Reported(yyss, YYEMPTY, yyerrstatus, told, before, line)
         /\ IF Rejected(line) THEN Rule = 7 /\ GivenUp(yyss, YYEMPTY, line) /\ InError(yyss)
            ELSE /\ Rule # 7 /\ ~InError(yyss) /\ Reads(yyss, yyvs, heap, line)
                 /\ line \in Seq(Token) /\ Len(line) \in Nat /\ (line # << >> => Viable(line))
                 /\ ~told /\ (yyerrstatus = 0 \/ yyerrstatus + Len(line) <= 2)
                 /\ (yyerrstatus # 0 => before)
<1>1. Rule \in rules /\ Rule \in Reducible /\ Rule # 0 /\ result = "running"
  BY DEF Reduce, Reducible
<1>2. /\ InStep(yyss, yyvs, yychar, yylval, heap, yyerrstatus, line)
      /\ Reported(yyss, yychar, yyerrstatus, told, before, line)
      /\ Path(yyss) /\ Typed(yyss, yyvs) /\ Top = yyss[Len(yyss)] /\ Top \in States
      /\ Rule = yydefact[Top + 1] /\ Top \notin Asking /\ yychar = YYEMPTY
  BY <1>1, Decided
<1>3. yyss' = Reduced(yyss, Rule) /\ yyvs' = ReducedTo(yyss, yyvs, Rule, v)
        /\ yychar' = yychar /\ yylval' = yylval /\ yyerrstatus' = yyerrstatus
  BY DEF Reduce, Reduced, ReducedTo, Rhs
<1>4. yyss # ErrorStack
  BY <1>2, ErrorStacks DEF Asking
<1>5. yyerrstatus \in 0 .. 2
  <2>1. yyerrstatus \in 0 .. 3 /\ yyerrstatus # 3
    BY <1>2, <1>4 DEF Inv, Rest, InStep
  <2>2. QED
    BY <2>1
<1>6. Len(yyss) \in Nat \ {0}
  BY <1>2, EmptySeq, LenProperties DEF Path
<1>7. CASE Rejected(line)
  <2>1. GivenUp(yyss, YYEMPTY, line)
    BY <1>2, <1>7 DEF InStep
  <2>2. yyss = Append(ErrorStack, 12)
    BY <1>4, <2>1 DEF GivenUp
  <2>3. Top = 12 /\ InError(yyss)
    BY <1>2, <2>2, ErrorStacks
  <2>4. Rule = 7
    BY <1>2, <2>3, ReducesIn
  <2>5. QED
    BY <1>1, <1>2, <1>3, <1>5, <1>6, <1>7, <2>1, <2>3, <2>4
<1>8. CASE ~Rejected(line)
  <2>1. Follows(yyss, yyvs, YYEMPTY, yylval, heap, line)
    BY <1>2, <1>8 DEF InStep
  <2>2. ~InError(yyss)
    BY <2>1 DEF Follows, YYEMPTY, YYEOF
  <2>3. Reads(yyss, yyvs, heap, line) /\ line \in Seq(Token) /\ (line # << >> => Viable(line))
    BY <2>1, <2>2 DEF Follows, Consumed
  <2>4. Rule # 7
    <3>1. SUFFICES ASSUME Rule = 7 PROVE FALSE
      OBVIOUS
    <3>2. Handle(7, 1) = 3 /\ yyr2[7 + 1] = 2
      BY DEF Handle, Handles, yyr2
    <3>3. /\ Len(yyss) - yyr2[Rule + 1] \in 1 .. Len(yyss)
          /\ \A i \in 1 .. yyr2[Rule + 1] : yyss[Len(yyss) - yyr2[Rule + 1] + i] = Handle(Rule, i)
      BY <1>1, <1>2, HandleOnTop
    <3>4. Len(yyss) - 1 \in 1 .. Len(yyss) /\ yyss[Len(yyss) - 1] = 3 /\ Len(yyss) >= 3
      <4>1. 1 \in 1 .. 2 /\ Len(yyss) - 2 + 1 = Len(yyss) - 1
        BY <1>6
      <4>2. Len(yyss) - 2 \in 1 .. Len(yyss) /\ yyss[Len(yyss) - 2 + 1] = 3
        BY <3>1, <3>2, <3>3, <4>1
      <4>3. QED
        BY <1>6, <4>1, <4>2
    <3>5. Len(yyss) - 1 = 3
      <4> DEFINE k == Len(yyss) - 1
      <4>1. k \in 1 .. Len(yyss) /\ yyss[k] \in {3, 4, 5}
        BY <3>4
      <4> HIDE DEF k
      <4>2. k = 3
        BY <1>2, <4>1, LoneDepths
      <4>3. QED
        BY <4>2 DEF k
    <3>6. QED
      BY <2>2, <3>4, <3>5 DEF InError
  <2>5. ~told /\ (yyerrstatus = 0 \/ yyerrstatus + Len(line) <= 2) /\ (yyerrstatus # 0 => before)
    BY <1>2, <1>8, <2>2 DEF Reported, Consumed, YYEMPTY, YYEOF
  <2>6. QED
    BY <1>1, <1>2, <1>3, <1>5, <1>6, <1>8, <2>2, <2>3, <2>4, <2>5, LenProperties
<1>9. QED
  BY <1>7, <1>8

\* A reduction that leaves the line alone is no step of the grammar.
LEMMA Silent ==
  ASSUME Inv, Running, NEW rules \in SUBSET Reducible \ {7}, NEW v, Reduce(rules, v),
         UNCHANGED <<told, before, line, call, result>>,
         ~Rejected(line) => ~InError(yyss') /\ Reads(yyss', yyvs', heap', line)
  PROVE  Obeys
<1>1. rules \in SUBSET Reducible /\ 7 \notin rules
  OBVIOUS
<1>2. /\ Rule \in rules /\ yychar' = YYEMPTY /\ yyerrstatus' = yyerrstatus /\ yyerrstatus \in 0 .. 2
      /\ IF Rejected(line) THEN Rule = 7
         ELSE /\ line \in Seq(Token) /\ (line # << >> => Viable(line))
              /\ ~told /\ (yyerrstatus = 0 \/ yyerrstatus + Len(line) <= 2)
              /\ (yyerrstatus # 0 => before)
  <2>1. Reduce(rules, v)
    OBVIOUS
  <2>2. QED
    BY <1>1, <2>1, Reduces
<1>3. ~Rejected(line)
  BY <1>1, <1>2
<1>4. Follows(yyss', yyvs', YYEMPTY, yylval', heap', line)
  BY <1>2, <1>3 DEF Follows, Consumed, YYEMPTY, YYEOF
<1>5. InStep(yyss', yyvs', yychar', yylval', heap', yyerrstatus', line')
  BY <1>2, <1>3, <1>4 DEF InStep
<1>6. Reported(yyss', yychar', yyerrstatus', told', before', line')
  BY <1>2, <1>3 DEF Reported, Consumed
<1>7. EndOfLine(line) => line' # << >>
  BY DEF EndOfLine
<1>8. QED
  BY <1>5, <1>6, <1>7 DEF Obeys, Running, grammarVars

\* The rules that reduce what is no command
Outer == {2, 3, 4, 5, 6, 7, 8, 10, 11, 12, 13}

LEMMA OuterTable ==
  ASSUME NEW r \in Outer
  PROVE  /\ r \in Reducible /\ yyr1[r + 1] \in {26, 27, 29, 30}
         /\ \A b \in Base[r] : (b = 0 \/ b = 1) /\ Height[b + 1] = b + 1
         /\ r \in {4, 5, 6} => yyr2[r + 1] = 1 /\ Handle(r, 1) \in {9, 10, 11} /\ 0 \notin Base[r]
         /\ r = 2 => yyr2[r + 1] = 2 /\ Handle(r, 2) = 8 /\ 1 \notin Base[r]
         /\ r = 3 => yyr2[r + 1] = 0 /\ 1 \notin Base[r]
         /\ r \in {7, 8, 10, 11, 12, 13} => 0 \notin Base[r]
BY DEF Outer, Reducible, yyr1, yyr2, Base, Height, Handle, Handles

\* What they leave on the stack is no part of a command.
LEMMA OuterLeaves ==
  ASSUME NEW ss, Path(ss), NEW r \in Outer, yydefact[ss[Len(ss)] + 1] = r
  PROVE  /\ ~Begun(Reduced(ss, r)) /\ ~InError(Reduced(ss, r))
         /\ Len(ss) - yyr2[r + 1] = IF r \in {2, 3} THEN 1 ELSE 2
<1> DEFINE m == Len(ss) - yyr2[r + 1]
           ss2 == Reduced(ss, r)
<1>1. r \in Reducible /\ yyr1[r + 1] \in {26, 27, 29, 30}
        /\ \A b \in Base[r] : (b = 0 \/ b = 1) /\ Height[b + 1] = b + 1
  BY OuterTable
<1>2. m \in 1 .. Len(ss) /\ ss[m] \in Base[r] /\ Len(ss) \in Nat
  BY <1>1, HandleOnTop DEF Path
<1>3. Path(ss2) /\ Len(ss2) = m + 1 /\ yystos[ss2[m + 1] + 1] = yyr1[r + 1]
  BY <1>1, ReducePath
<1>4. m = ss[m] + 1
  <2>1. m <= Height[ss[m] + 1] /\ m >= 1 /\ m \in Nat
    BY <1>2 DEF Path
  <2>2. ss[m] = 0 \/ ss[m] = 1
    BY <1>1, <1>2
  <2>3. ss[m] = 1 => m # 1
    BY DEF Path
  <2> HIDE DEF m
  <2>4. Height[ss[m] + 1] = ss[m] + 1
    BY <1>1, <1>2
  <2>5. ss[m] = 0 => m = 1
    BY <2>1, <2>4
  <2>6. ss[m] = 1 => m = 2
    BY <2>1, <2>3, <2>4
  <2>7. QED
    BY <2>2, <2>5, <2>6
<1>5. r \in {2, 3} => ss[m] = 0
  <2>1. r \in {2, 3} => 1 \notin Base[r]
    BY OuterTable
  <2> HIDE DEF m
  <2>2. QED
    BY <1>1, <1>2, <2>1
<1>6. r \notin {2, 3} => ss[m] = 1
  <2>1. r \notin {2, 3} => 0 \notin Base[r]
    BY OuterTable DEF Outer
  <2> HIDE DEF m
  <2>2. QED
    BY <1>1, <1>2, <2>1
<1>7. Len(ss2) >= 3 => ss2[3] \notin 3 .. 7
  <2>1. SUFFICES ASSUME Len(ss2) >= 3, ss2[3] \in 3 .. 7
                 PROVE  FALSE
    OBVIOUS
  <2> HIDE DEF m, ss2
  <2>2. m + 1 = 3
    BY <1>1, <1>2, <1>3, <1>4, <2>1
  <2>3. yystos[ss2[3] + 1] \in {26, 27, 29, 30} /\ ss2[3] \in States
    BY <1>1, <1>3, <2>1, <2>2 DEF Path
  <2>4. yystos[ss2[3] + 1] \in {1, 3, 6, 9, 15}
    BY <2>1, <2>3, ReducesIn
  <2>5. QED
    BY <2>3, <2>4
<1>8. ~Begun(ss2) /\ ~InError(ss2)
  <2> HIDE DEF ss2
  <2>1. QED
    BY <1>7 DEF Begun, InError
<1>9. m = IF r \in {2, 3} THEN 1 ELSE 2
  <2> HIDE DEF m
  <2>1. QED
    BY <1>4, <1>5, <1>6
<1>10. QED
  BY <1>8, <1>9

\* Between two commands
LEMMA Between ==
  ASSUME NEW ss, Path(ss), NEW r \in {2, 3, 4, 5, 6}, yydefact[ss[Len(ss)] + 1] = r
  PROVE  ~Begun(ss)
<1> DEFINE n == Len(ss)
<1>1. r \in Outer /\ r \in Reducible
  BY DEF Outer, Reducible
<1>2. n - yyr2[r + 1] = (IF r \in {2, 3} THEN 1 ELSE 2) /\ n \in Nat
  BY <1>1, OuterLeaves DEF Path
<1>3. \A i \in 1 .. yyr2[r + 1] : ss[n - yyr2[r + 1] + i] = Handle(r, i)
  BY <1>1, HandleOnTop
<1>4. CASE r = 3
  <2>1. yyr2[r + 1] = 0
    BY <1>1, <1>4, OuterTable
  <2>2. n = 1
    BY <1>2, <1>4, <2>1
  <2>3. QED
    BY <2>2 DEF Begun
<1>5. CASE r = 2
  <2>1. yyr2[r + 1] = 2 /\ Handle(r, 2) = 8
    BY <1>1, <1>5, OuterTable
  <2> HIDE DEF n
  <2>2. n - 2 = 1 /\ ss[n - 2 + 2] = 8
    BY <1>2, <1>3, <1>5, <2>1
  <2>3. ss[3] = 8
    BY <1>2, <2>2
  <2>4. QED
    BY <2>3 DEF Begun
<1>6. CASE r \in {4, 5, 6}
  <2>1. yyr2[r + 1] = 1 /\ Handle(r, 1) \in {9, 10, 11}
    BY <1>1, <1>6, OuterTable
  <2> HIDE DEF n
  <2>2. n - 1 = 2 /\ ss[n - 1 + 1] \in {9, 10, 11}
    BY <1>2, <1>3, <1>6, <2>1
  <2>3. ss[3] \in {9, 10, 11}
    BY <1>2, <2>2
  <2>4. QED
    BY <2>3 DEF Begun
<1>7. QED
  BY <1>4, <1>5, <1>6

\* In a command
LEMMA Within ==
  ASSUME NEW ss, Path(ss), NEW r \in Inner, yydefact[ss[Len(ss)] + 1] = r
  PROVE  Begun(ss)
<1> DEFINE s == ss[Len(ss)]
<1>1. Len(ss) \in Nat \ {0} /\ Len(ss) \in 1 .. Len(ss) /\ s \in States /\ Lowest[s + 1] <= Len(ss)
  BY EmptySeq, LenProperties DEF Path
<1>2. Lowest[s + 1] >= 3 /\ First[s + 1] \subseteq {4, 5} /\ Lowest[s + 1] \in Nat
  <2>1. yydefact[s + 1] \in Inner
    OBVIOUS
  <2> HIDE DEF s
  <2>2. QED
    BY <1>1, <2>1, ReducesIn, HeightBound
<1>3. Len(ss) >= 3
  BY <1>1, <1>2
<1>4. ss[3] \in First[s + 1]
  BY <1>1, <1>3 DEF Path
<1>5. QED
  BY <1>2, <1>3, <1>4 DEF Begun

LEMMA RenameTable ==
  ASSUME NEW r \in 17 .. 29
  PROVE  /\ r \in Inner /\ r \in Reducible /\ yyr2[r + 1] = 1
         /\ r = 18 => Symbol(r, 1) = 14
         /\ r = 19 => Symbol(r, 1) = 10
         /\ r = 24 => Symbol(r, 1) = 19
         /\ r = 25 => Symbol(r, 1) = 20
         /\ r = 26 => Symbol(r, 1) = 21
         /\ r = 27 => Symbol(r, 1) = 23
         /\ r = 28 => Symbol(r, 1) = 22
         /\ r = 29 => Symbol(r, 1) = 24
BY DEF Inner, Reducible, yyr2, Symbol, Handle, Handles, yystos

LEMMA SelConds ==
  /\ SelCond[19] = "EQ" /\ SelCond[20] = "NE" /\ SelCond[21] = "LT" /\ SelCond[22] = "LE"
  /\ SelCond[23] = "GT" /\ SelCond[24] = "GE"
BY DEF SelCond, Comparator

\* A rule with one symbol on its right-hand side
LEMMA Renames ==
  ASSUME Inv, Running, NEW rules \in SUBSET (17 .. 29), NEW v \in Value, Reduce(rules, v),
         Fits(yyr1[Rule + 1], v), UNCHANGED <<told, before, line, call, result>>,
         SameTexts(yyss, yyvs, Len(yyss) - 1, heap, heap'),
         Spells(Symbol(Rule, 1), Arg(Rule, 1), heap, line, Len(line))
           => Spells(yyr1[Rule + 1], v, heap', line, Len(line))
  PROVE  Obeys
<1>1. rules \in SUBSET Reducible \ {7} /\ rules \in SUBSET Reducible
  BY DEF Reducible
<1>2. /\ Rule \in rules /\ Rule \in Reducible /\ yydefact[yyss[Len(yyss)] + 1] = Rule
      /\ Path(yyss) /\ Typed(yyss, yyvs) /\ Len(yyss) \in Nat \ {0}
      /\ yyss' = Reduced(yyss, Rule) /\ yyvs' = ReducedTo(yyss, yyvs, Rule, v)
      /\ ~Rejected(line) => Reads(yyss, yyvs, heap, line) /\ Len(line) \in Nat
  BY <1>1, Reduces
<1>3. Rule \in 17 .. 29
  BY <1>2
<1> DEFINE r == Rule
<1>4. r \in Inner /\ yyr2[r + 1] = 1
  BY <1>3, RenameTable
<1>5. Arg(r, 1) = yyvs[Len(yyss)]
  <2>1. Rhs(r) + 1 = Len(yyss)
    BY <1>2, <1>4 DEF Rhs
  <2>2. QED
    BY <2>1 DEF Arg
<1>6. Begun(yyss)
  BY <1>2, <1>4, Within
<1>7. ASSUME ~Rejected(line)
      PROVE  ~InError(yyss') /\ Reads(yyss', yyvs', heap', line)
  <2>1. Reads(yyss, yyvs, heap, line) /\ Len(line) \in Nat
    BY <1>2, <1>7
  <2>2. Spells(Symbol(r, 1), yyvs[Len(yyss)], heap, line, Len(line))
          => Spells(yyr1[r + 1], v, heap', line, Len(line))
    BY <1>5
  <2>3. yydefact[yyss[Len(yyss)] + 1] = r /\ r \in 17 .. 29 /\ Fits(yyr1[r + 1], v)
    BY <1>2, <1>3
  <2>4. yyss' = Reduced(yyss, r) /\ yyvs' = ReducedTo(yyss, yyvs, r, v)
    BY <1>2
  <2> HIDE DEF r
  <2>5. ~InError(Reduced(yyss, r)) /\ Reads(Reduced(yyss, r), ReducedTo(yyss, yyvs, r, v), heap', line)
    BY <1>2, <1>6, <2>1, <2>2, <2>3, ReadsRename
  <2>6. QED
    BY <2>4, <2>5
<1>8. QED
  BY <1>1, <1>7, Silent

LEMMA PlainStep ==
  ASSUME Inv, Running, reduce_plain
  PROVE  Obeys
<1> DEFINE v == Val(Rule)
           rules == {2, 3, 4, 5, 6, 17, 21, 22, 23}
<1>1. Reduce(rules, v) /\ UNCHANGED <<heap, told, before, line, call, result>> /\ Rule \in rules
  BY DEF reduce_plain, Reduce
<1>2. rules \in SUBSET Reducible \ {7} /\ rules \in SUBSET Reducible
  BY DEF Reducible
<1> HIDE DEF v
<1>3. CASE Rule \in {2, 3, 4, 5, 6}
  <2>1. /\ yydefact[yyss[Len(yyss)] + 1] = Rule /\ Path(yyss)
        /\ yyss' = Reduced(yyss, Rule)
        /\ ~Rejected(line) => Reads(yyss, yyvs, heap, line)
    <3> HIDE DEF rules
    <3>1. QED
      BY <1>1, <1>2, Reduces
  <2>2. ~Begun(yyss)
    BY <1>3, <2>1, Between
  <2>3. ~Begun(yyss') /\ ~InError(yyss')
    <3>1. Rule \in Outer
      BY <1>3 DEF Outer
    <3>2. QED
      BY <2>1, <3>1, OuterLeaves
  <2>4. ~Rejected(line) => Reads(yyss', yyvs', heap', line)
    BY <2>1, <2>2, <2>3 DEF Reads
  <2> HIDE DEF rules
  <2>5. QED
    BY <1>1, <1>2, <2>3, <2>4, Silent
<1>4. CASE Rule \in {17, 21, 22, 23}
  <2>1. Reduce({17, 21, 22, 23}, v)
    BY <1>1, <1>4 DEF Reduce
  <2>2. /\ v \in Value /\ v = Arg(Rule, 1)
        /\ \A i \in 1 .. yyr2[Rule + 1] : Fits(Symbol(Rule, i), Arg(Rule, i))
    <3>1. Rule \in Reducible /\ Rule # 3
      BY <1>4 DEF Reducible
    <3>2. QED
      BY <3>1, Args DEF v
  <2>3. Fits(yyr1[Rule + 1], v)
    <3>1. CASE Rule = 17
      <4>1. yyr1[Rule + 1] = 33 /\ Fits(34, v)
        BY <2>2, <3>1, RuleTable, SymbolTable
      <4>2. QED
        BY <4>1 DEF Fits, T_INTEGER, T_STRING, T_ID
    <3>2. CASE Rule \in {21, 22, 23}
      <4>1. /\ yyr1[Rule + 1] \in {35, 36} /\ yyr2[Rule + 1] = 1
            /\ Symbol(Rule, 1) \in {T_INTEGER, T_STRING, T_ID}
        BY <3>2, RuleTable, SymbolTable
      <4>2. Fits(Symbol(Rule, 1), v)
        BY <2>2, <4>1
      <4>3. QED
        BY <4>1, <4>2 DEF Fits, T_INTEGER, T_STRING, T_ID
    <3>3. QED
      BY <1>4, <3>1, <3>2
  <2>4. SameTexts(yyss, yyvs, Len(yyss) - 1, heap, heap')
    BY <1>1 DEF SameTexts
  <2>5. Spells(Symbol(Rule, 1), v, heap, line, Len(line))
          => Spells(yyr1[Rule + 1], v, heap', line, Len(line))
    <3>1. \/ Symbol(Rule, 1) = 34 /\ yyr1[Rule + 1] = 33
          \/ Symbol(Rule, 1) \in {T_INTEGER, T_STRING, T_ID} /\ yyr1[Rule + 1] \in {35, 36}
      BY <1>4, RuleTable, SymbolTable
    <3>2. QED
      BY <1>1, <3>1 DEF Spells, T_INTEGER, T_STRING, T_ID
  <2>6. {17, 21, 22, 23} \in SUBSET (17 .. 29)
    OBVIOUS
  <2> DEFINE names == {17, 21, 22, 23}
  <2>7. names \in SUBSET (17 .. 29) /\ Reduce(names, v)
    BY <2>1, <2>6
  <2> HIDE DEF names, rules
  <2>8. QED
    BY <1>1, <2>2, <2>3, <2>4, <2>5, <2>7, Renames
<1>5. QED
  BY <1>1, <1>3, <1>4

LEMMA StarCountStep ==
  ASSUME Inv, Running, reduce_star_count
  PROVE  Obeys
<1> DEFINE v == IF Rule = 18 THEN 3 ELSE 4
           rules == {18, 19}
<1>1. Reduce(rules, v) /\ Rule \in rules /\ UNCHANGED <<heap, told, before, line, call, result>>
  BY DEF reduce_star_count, Reduce
<1>2. rules \in SUBSET (17 .. 29) /\ yyr1[Rule + 1] = 33
  BY <1>1, RuleTable
<1>3. Fits(33, v) /\ v \in Value
  <2>1. Fits(33, v)
    BY DEF Fits, T_INTEGER, T_STRING, T_ID
  <2> HIDE DEF v
  <2>2. QED
    BY <2>1, Plain
<1>4. SameTexts(yyss, yyvs, Len(yyss) - 1, heap, heap')
  BY <1>1 DEF SameTexts
<1>5. Spells(Symbol(Rule, 1), Arg(Rule, 1), heap, line, Len(line))
        => Spells(yyr1[Rule + 1], v, heap', line, Len(line))
  <2>1. Symbol(Rule, 1) = IF Rule = 18 THEN 14 ELSE 10
    BY <1>1, RenameTable
  <2>2. ASSUME Spells(Symbol(Rule, 1), Arg(Rule, 1), heap, line, Len(line))
        PROVE  Spells(33, v, heap', line, Len(line))
    <3>1. Len(line) \in 1 .. Len(line) /\ line[Len(line)].sym = IF Rule = 18 THEN 14 ELSE 10
      BY <2>1, <2>2 DEF Spells
    <3> DEFINE t == line[Len(line)]
    <3>2. v = AttrOf(t)
      <4>1. t.sym = IF Rule = 18 THEN 14 ELSE 10
        BY <3>1
      <4> HIDE DEF t
      <4>2. CASE Rule = 18
        BY <4>1, <4>2, Numbers DEF AttrOf
      <4>3. CASE Rule # 18
        BY <4>1, <4>3, Numbers DEF AttrOf
      <4>4. QED
        BY <4>2, <4>3
    <3> HIDE DEF v
    <3>3. QED
      BY <3>1, <3>2, Numbers DEF Spells
  <2>3. QED
    BY <1>2, <2>2
<1> HIDE DEF v, rules
<1>6. QED
  BY <1>1, <1>2, <1>3, <1>4, <1>5, Renames

LEMMA ComparatorStep ==
  ASSUME Inv, Running, reduce_comparator
  PROVE  Obeys
<1> DEFINE v == Comp(Rule)
           rules == 24 .. 29
<1>1. Reduce(rules, v) /\ Rule \in rules /\ UNCHANGED <<heap, told, before, line, call, result>>
  BY DEF reduce_comparator, Reduce
<1>2. rules \in SUBSET (17 .. 29) /\ yyr1[Rule + 1] = 37
  BY <1>1, RuleTable
<1>3. Fits(37, v) /\ v \in Value
  <2>1. v \in Comparators
    BY <1>1 DEF Comp, Comparators
  <2> HIDE DEF v
  <2>2. Fits(37, v)
    BY <2>1 DEF Fits, T_INTEGER, T_STRING, T_ID
  <2>3. QED
    BY <2>2, Plain
<1>4. SameTexts(yyss, yyvs, Len(yyss) - 1, heap, heap')
  BY <1>1 DEF SameTexts
<1>5. Spells(Symbol(Rule, 1), Arg(Rule, 1), heap, line, Len(line))
        => Spells(yyr1[Rule + 1], v, heap', line, Len(line))
  <2>1. v = SelCond[Symbol(Rule, 1)] /\ Symbol(Rule, 1) \in 19 .. 24
    <3>1. Rule = 24 \/ Rule = 25 \/ Rule = 26 \/ Rule = 27 \/ Rule = 28 \/ Rule = 29
      BY <1>1
    <3>2. /\ Comp(24) = "EQ" /\ Comp(25) = "NE" /\ Comp(26) = "LT" /\ Comp(27) = "GT"
          /\ Comp(28) = "LE" /\ Comp(29) = "GE"
      BY DEF Comp
    <3>3. QED
      BY <3>1, <3>2, RenameTable, SelConds
  <2> HIDE DEF v
  <2>2. ASSUME Spells(Symbol(Rule, 1), Arg(Rule, 1), heap, line, Len(line))
        PROVE  Spells(37, v, heap', line, Len(line))
    <3>1. Len(line) \in 1 .. Len(line) /\ line[Len(line)].sym = Symbol(Rule, 1)
      BY <2>1, <2>2 DEF Spells
    <3>2. QED
      BY <2>1, <3>1, Numbers DEF Spells
  <2>3. QED
    BY <1>2, <2>2
<1> HIDE DEF v, rules
<1>6. QED
  BY <1>1, <1>2, <1>3, <1>4, <1>5, Renames

LEMMA AttributeStep ==
  ASSUME Inv, Running, reduce_attribute
  PROVE  Obeys
<1> DEFINE v == AttrOf([sym |-> T_ID, text |-> heap[Arg(20, 1)]])
           rules == {20}
           x == Arg(Rule, 1)
<1>1. /\ Reduce(rules, v) /\ Rule = 20 /\ UNCHANGED <<told, before, line, call, result>>
      /\ heap' = [s \in String |-> IF s \in {x} THEN Free ELSE heap[s]]
  BY DEF reduce_attribute, Reduce, free
<1>2. rules \in SUBSET (17 .. 29) /\ rules \in SUBSET Reducible /\ yyr1[Rule + 1] = 34
        /\ Symbol(Rule, 1) = T_ID /\ yyr2[Rule + 1] = 1
  BY <1>1, RuleTable, SymbolTable DEF Reducible
<1>3. Fits(34, v) /\ v \in Value
  <2>1. Fits(34, v)
    BY DEF Fits, AttrOf, WrongAttr, T_INTEGER, T_STRING, T_ID, T_STAR, T_COUNT
  <2> HIDE DEF v
  <2>2. QED
    BY <2>1, Plain
<1> DEFINE n == Len(yyss)
           own == Owning(yyss, yyvs, yychar, yylval)
<1>4. n \in Nat \ {0} /\ x = yyvs[n] /\ yystos[yyss[n] + 1] = T_ID
  <2>1. n \in Nat \ {0} /\ Path(yyss) /\ yydefact[yyss[n] + 1] = Rule /\ Rule \in Reducible
    <3> HIDE DEF v, rules
    <3>1. QED
      BY <1>1, <1>2, Reduces
  <2>2. Rhs(Rule) + 1 = n /\ n - 1 + 1 = n
    BY <1>2, <2>1 DEF Rhs
  <2>3. \A i \in 1 .. 1 : yyss[n - 1 + i] = Handle(Rule, i)
    <3>1. \A i \in 1 .. yyr2[Rule + 1] : yyss[Len(yyss) - yyr2[Rule + 1] + i] = Handle(Rule, i)
      BY <2>1, HandleOnTop
    <3>2. QED
      BY <1>2, <3>1
  <2>4. yyss[n] = Handle(Rule, 1)
    BY <2>2, <2>3
  <2>5. QED
    BY <1>2, <2>1, <2>2, <2>4 DEF Arg, Symbol
<1>5. Exact(own, n, heap) /\ heap \in [String -> {Free} \cup Name \cup Literal]
  BY DEF Inv, Rest
<1>6. SameTexts(yyss, yyvs, n - 1, heap, heap')
  <2>1. ASSUME NEW i \in 1 .. n - 1, NEW a \in DOMAIN Owned(yystos[yyss[i] + 1], yyvs[i])
        PROVE  LET o == Owned(yystos[yyss[i] + 1], yyvs[i]) IN heap'[o[a]] = heap[o[a]]
    <3> DEFINE o == Owned(yystos[yyss[i] + 1], yyvs[i])
    <3>1. /\ i \in 0 .. n /\ n \in 0 .. n /\ i # 0 /\ n # 0 /\ i # n
      BY <1>4
    <3>2. own[i] = o /\ own[n] = Owned(T_ID, x)
      BY <1>4, <3>1 DEF Owning
    <3>3. 1 \in DOMAIN Owned(T_ID, x) /\ Owned(T_ID, x)[1] = x
      BY OwnedBy
    <3> HIDE DEF own, o, n, x
    <3>4. a \in DOMAIN own[i]
      BY <3>2 DEF o
    <3>5. own[i][a] \in String /\ own[i][a] # own[n][1]
      BY <1>5, <3>1, <3>2, <3>3, <3>4 DEF Exact
    <3>6. o[a] \in String /\ o[a] # x
      BY <3>2, <3>3, <3>5
    <3>7. heap'[o[a]] = heap[o[a]]
      BY <1>1, <3>6
    <3>8. QED
      BY <3>7 DEF o
  <2>2. QED
    BY <2>1 DEF SameTexts
<1>7. Spells(Symbol(Rule, 1), x, heap, line, Len(line))
        => Spells(yyr1[Rule + 1], v, heap', line, Len(line))
  <2>1. ASSUME Spells(T_ID, x, heap, line, Len(line))
        PROVE  Spells(34, v, heap', line, Len(line))
    <3>1. Len(line) \in 1 .. Len(line) /\ line[Len(line)].sym = T_ID /\ line[Len(line)].text = heap[x]
      BY <2>1, Numbers DEF Spells
    <3>2. v = AttrOf(line[Len(line)])
      BY <1>1, <3>1 DEF AttrOf
    <3> HIDE DEF v
    <3>3. QED
      BY <3>1, <3>2, Numbers DEF Spells
  <2> HIDE DEF v, x
  <2>2. QED
    BY <1>2, <2>1
<1> HIDE DEF v, rules
<1>8. QED
  BY <1>1, <1>2, <1>3, <1>6, <1>7, Renames DEF n, x

-----------------------------------------------------------------------------
(* The conditions of a select *)

LEMMA ConditionTable ==
  /\ yyr2[14 + 1] = 1 /\ yyr2[15 + 1] = 3 /\ yyr2[16 + 1] = 3
  /\ yyr1[14 + 1] = 31 /\ yyr1[15 + 1] = 31 /\ yyr1[16 + 1] = 32
  /\ Handle(14, 1) = 29 /\ Handle(15, 1) = 28 /\ Handle(15, 2) = 32 /\ Handle(15, 3) = 42
  /\ Handle(16, 1) = 30 /\ Handle(16, 2) = 40 /\ Handle(16, 3) = 45
  /\ yystos[28 + 1] = 31 /\ yystos[29 + 1] = 32 /\ yystos[42 + 1] = 32 /\ yystos[30 + 1] = 34
  /\ yystos[40 + 1] = 37 /\ yystos[45 + 1] = 35
BY DEF yyr1, yyr2, Handle, Handles, yystos

\* A rule of the conditions: what it takes from the stack, and what it leaves
LEMMA Gathers ==
  ASSUME NEW ss, NEW vs, NEW hp, NEW toks, NEW r \in 14 .. 16, NEW v \in Value,
         Fits(yyr1[r + 1], v), Len(toks) \in Nat, Path(ss), Typed(ss, vs),
         yydefact[ss[Len(ss)] + 1] = r, Reads(ss, vs, hp, toks),
         NEW m, m = Len(ss) - yyr2[r + 1], NEW ss2, ss2 = Reduced(ss, r),
         NEW vs2, vs2 = ReducedTo(ss, vs, r, v)
  PROVE  /\ Begun(ss) /\ m \in 1 .. Len(ss) /\ Len(ss) \in Nat /\ Len(ss) >= 3
         /\ \A i \in 1 .. yyr2[r + 1] : ss[m + i] = Handle(r, i)
         /\ \A i \in 1 .. m : ss2[i] = ss[i] /\ vs2[i] = vs[i]
         /\ vs2[m + 1] = v /\ ss2[m + 1] \in States /\ yystos[ss2[m + 1] + 1] = yyr1[r + 1]
         /\ Len(toks) = At(ss, vs, Len(ss))
         /\ \A i \in 3 .. Len(ss) : Spells(yystos[ss[i] + 1], vs[i], hp, toks, At(ss, vs, i))
         /\ Len(toks) = At(ss2, vs2, m + 1) /\ Spells(yyr1[r + 1], v, hp, toks, Len(toks))
              => ~InError(ss2) /\ Reads(ss2, vs2, hp, toks)
<1>1. r \in Inner /\ r \in Reducible
  BY DEF Inner, Reducible
<1>2. Begun(ss) /\ Len(ss) \in Nat /\ Len(ss) >= 3
  BY <1>1, Within DEF Begun, Path
<1>3. m \in 1 .. Len(ss) /\ \A i \in 1 .. yyr2[r + 1] : ss[m + i] = Handle(r, i)
  BY <1>1, HandleOnTop
<1>4. /\ Path(ss2) /\ Len(ss2) = m + 1 /\ yystos[ss2[m + 1] + 1] = yyr1[r + 1]
      /\ \A i \in 1 .. m : ss2[i] = ss[i]
  BY <1>1, ReducePath
<1>5. vs2[m + 1] = v /\ \A i \in 1 .. m : vs2[i] = vs[i]
  BY <1>1, ReduceTyped
<1>6. ss2[m + 1] \in States
  <2>1. m + 1 \in 1 .. Len(ss2) /\ ss2 \in Seq(States)
    BY <1>2, <1>3, <1>4 DEF Path
  <2>2. QED
    BY <2>1
<1>7. /\ Len(toks) = At(ss, vs, Len(ss))
      /\ \A i \in 3 .. Len(ss) : Spells(yystos[ss[i] + 1], vs[i], hp, toks, At(ss, vs, i))
  BY <1>2 DEF Reads
<1>8. SameTexts(ss, vs, Len(ss) - yyr2[r + 1], hp, hp)
  BY DEF SameTexts
<1>9. ASSUME Len(toks) = At(ss2, vs2, m + 1), Spells(yyr1[r + 1], v, hp, toks, Len(toks))
      PROVE  ~InError(ss2) /\ Reads(ss2, vs2, hp, toks)
  <2>1. Len(toks) = At(Reduced(ss, r), ReducedTo(ss, vs, r, v), Len(ss) - yyr2[r + 1] + 1)
    BY <1>9
  <2>2. QED
    BY <1>1, <1>2, <1>8, <1>9, <2>1, ReadsReduce
<1>10. QED
  BY <1>2, <1>3, <1>4, <1>5, <1>6, <1>7, <1>9

LEMMA FirstConditionReads ==
  ASSUME NEW ss, NEW vs, NEW hp, NEW toks, NEW r, r = 14, NEW v \in Value,
         Fits(yyr1[r + 1], v), Len(toks) \in Nat, Path(ss), Typed(ss, vs),
         yydefact[ss[Len(ss)] + 1] = r, Reads(ss, vs, hp, toks), v = <<vs[Len(ss)]>>
  PROVE  ~InError(Reduced(ss, r)) /\ Reads(Reduced(ss, r), ReducedTo(ss, vs, r, v), hp, toks)
<1> DEFINE m == Len(ss) - yyr2[r + 1]
           ss2 == Reduced(ss, r)
           vs2 == ReducedTo(ss, vs, r, v)
<1> HIDE DEF m, ss2, vs2
<1>1. r \in 14 .. 16 /\ yyr2[r + 1] = 1 /\ yyr1[r + 1] = 31 /\ Handle(r, 1) = 29
  BY ConditionTable
<1>2. /\ Len(ss) \in Nat /\ Len(ss) >= 3 /\ \A i \in 1 .. yyr2[r + 1] : ss[m + i] = Handle(r, i)
      /\ vs2[m + 1] = v /\ ss2[m + 1] \in States /\ yystos[ss2[m + 1] + 1] = yyr1[r + 1]
      /\ Len(toks) = At(ss, vs, Len(ss))
      /\ \A i \in 3 .. Len(ss) : Spells(yystos[ss[i] + 1], vs[i], hp, toks, At(ss, vs, i))
      /\ Len(toks) = At(ss2, vs2, m + 1) /\ Spells(yyr1[r + 1], v, hp, toks, Len(toks))
           => ~InError(ss2) /\ Reads(ss2, vs2, hp, toks)
  BY SMTT(60), <1>1, Gathers DEF m, ss2, vs2
<1>3. Len(ss) = 8 /\ ss[8] = 29 /\ m = 7
  <2> DEFINE n == Len(ss)
  <2>1. n \in Nat /\ m + 1 = n /\ \A i \in 1 .. 1 : ss[m + i] = 29
    BY <1>1, <1>2 DEF m
  <2>2. ss[n] = 29 /\ n \in 1 .. Len(ss)
    BY <1>2, <2>1
  <2> HIDE DEF n
  <2>3. n = 8
    BY <2>2, LoneDepths
  <2>4. m = 7
    BY <1>1, <2>3 DEF m, n
  <2>5. QED
    BY <2>2, <2>3, <2>4 DEF n
<1>4. m + 1 = 8
  BY <1>3
<1>5. ss2[8] = 28 /\ yystos[28 + 1] = 31 /\ vs2[8] = v /\ yystos[29 + 1] = 32
  BY <1>1, <1>2, <1>4, ReducesIn, ConditionTable
<1>6. Len(toks) = 8
  BY <1>2, <1>3, <1>5 DEF At
<1>7. Spells(32, vs[8], hp, toks, 8)
  <2>1. Spells(yystos[ss[8] + 1], vs[8], hp, toks, At(ss, vs, 8))
    BY <1>2, <1>3
  <2>2. QED
    BY <1>2, <1>3, <1>5, <1>6, <2>1
<1>8. Len(v) = 1 /\ v[1] = vs[8]
  BY <1>3
<1>9. At(ss2, vs2, 8) = 8
  BY <1>5, <1>8 DEF At
<1>10. Spells(31, v, hp, toks, 8)
  <2>1. Means(vs[8], hp, toks, 8 - 2)
    BY <1>7 DEF Spells
  <2>2. \A j \in 1 .. 1 : j = 1
    OBVIOUS
  <2>3. 8 = 4 * Len(v) + 4 /\ \A j \in 1 .. Len(v) : Means(v[j], hp, toks, 4 * j + 2)
    BY <1>8, <2>1, <2>2
  <2>4. QED
    BY <1>6, <2>3, Numbers DEF Spells
<1>11. QED
  BY <1>1, <1>2, <1>4, <1>6, <1>9, <1>10 DEF ss2, vs2

\* The conditions with one more
OneMore(ss, vs) == Append(vs[Len(ss) - 2], vs[Len(ss)])

LEMMA NextConditionReads ==
  ASSUME NEW ss, NEW vs, NEW hp, NEW toks, NEW r, r = 15, NEW v \in Value,
         Fits(yyr1[r + 1], v), Len(toks) \in Nat, Path(ss), Typed(ss, vs),
         yydefact[ss[Len(ss)] + 1] = r, Reads(ss, vs, hp, toks),
         v = OneMore(ss, vs)
  PROVE  ~InError(Reduced(ss, r)) /\ Reads(Reduced(ss, r), ReducedTo(ss, vs, r, v), hp, toks)
<1> DEFINE m == Len(ss) - yyr2[r + 1]
           ss2 == Reduced(ss, r)
           vs2 == ReducedTo(ss, vs, r, v)
           x == vs[8]
           c == Len(x)
<1> HIDE DEF m, ss2, vs2, x, c
<1>1. /\ r \in 14 .. 16 /\ yyr2[r + 1] = 3 /\ yyr1[r + 1] = 31
      /\ Handle(r, 1) = 28 /\ Handle(r, 2) = 32 /\ Handle(r, 3) = 42
  BY ConditionTable
<1>2. /\ Len(ss) \in Nat /\ Len(ss) >= 3 /\ \A i \in 1 .. yyr2[r + 1] : ss[m + i] = Handle(r, i)
      /\ \A i \in 1 .. m : ss2[i] = ss[i] /\ vs2[i] = vs[i]
      /\ vs2[m + 1] = v /\ ss2[m + 1] \in States /\ yystos[ss2[m + 1] + 1] = yyr1[r + 1]
      /\ Len(toks) = At(ss, vs, Len(ss))
      /\ \A i \in 3 .. Len(ss) : Spells(yystos[ss[i] + 1], vs[i], hp, toks, At(ss, vs, i))
      /\ Len(toks) = At(ss2, vs2, m + 1) /\ Spells(yyr1[r + 1], v, hp, toks, Len(toks))
           => ~InError(ss2) /\ Reads(ss2, vs2, hp, toks)
  <2>1. m = Len(ss) - yyr2[r + 1] /\ ss2 = Reduced(ss, r) /\ vs2 = ReducedTo(ss, vs, r, v)
    BY DEF m, ss2, vs2
  <2>2. r \in 14 .. 16
    BY <1>1
  <2>3. Fits(yyr1[r + 1], v) /\ v \in Value
    OBVIOUS
  <2>4. QED
    BY <2>1, <2>2, <2>3, Gathers
<1>3. Len(ss) = 10 /\ ss[8] = 28 /\ ss[10] = 42 /\ m = 7
  <2> DEFINE n == Len(ss)
  <2>1. n \in Nat /\ m = n - 3 /\ n >= 3 /\ \A i \in 1 .. 3 : ss[m + i] = Handle(r, i)
    BY <1>1, <1>2 DEF m
  <2>2. m + 3 = n /\ m + 1 = n - 2
    BY <2>1
  <2>3. ss[n] = 42 /\ ss[n - 2] = 28 /\ n \in 1 .. Len(ss)
    BY <1>1, <1>2, <2>1, <2>2
  <2> HIDE DEF n
  <2>4. n = 10
    BY <2>3, LoneDepths
  <2>5. n - 2 = 8 /\ n - 3 = 7
    BY <2>4
  <2>6. QED
    BY <2>1, <2>3, <2>4, <2>5 DEF n
<1>4. m + 1 = 8 /\ Len(ss) - 2 = 8
  BY <1>3
<1>5. /\ ss2[8] = 28 /\ vs2[8] = v /\ v = Append(x, vs[10])
      /\ yystos[28 + 1] = 31 /\ yystos[42 + 1] = 32
  <2>1. yystos[28 + 1] = 31 /\ yystos[42 + 1] = 32
    BY ConditionTable
  <2>2. ss2[8] = 28 /\ vs2[8] = v
    BY <1>1, <1>2, <1>4, ReducesIn
  <2>3. v = Append(x, vs[10])
    BY <1>3, <1>4 DEF x, OneMore
  <2>4. QED
    BY <2>1, <2>2, <2>3
<1>6. x \in Seq(Conds) /\ c \in Nat
  <2>1. Len(ss) >= 8 /\ ss[8] = 28 => vs[8] \in Seq(Conds) /\ Len(vs[8]) \in Nat \ {0}
    BY CondCount, Zenon
  <2>2. Len(ss) >= 8
    BY <1>3
  <2>3. QED
    BY <1>3, <2>1, <2>2 DEF x, c
<1>7. Len(toks) = 4 * c + 8 /\ At(ss, vs, 8) = 4 * c + 4
  <2>1. At(ss, vs, 10) = 10 - 2 + (4 * c - 2) + 2
    BY <1>3, <1>5 DEF At, x, c
  <2>2. At(ss, vs, 8) = 8 - 2 + (4 * c - 2) + 0
    BY <1>3, <1>5 DEF At, x, c
  <2>3. QED
    BY <1>2, <1>3, <1>6, <2>1, <2>2
<1>8. /\ Spells(32, vs[10], hp, toks, 4 * c + 8)
      /\ Spells(31, x, hp, toks, 4 * c + 4)
  <2>1. /\ Spells(yystos[ss[8] + 1], vs[8], hp, toks, At(ss, vs, 8))
        /\ Spells(yystos[ss[10] + 1], vs[10], hp, toks, At(ss, vs, 10))
    <3>1. 8 \in 3 .. Len(ss) /\ 10 \in 3 .. Len(ss)
      BY <1>3
    <3>2. QED
      BY <1>2, <3>1
  <2>2. At(ss, vs, 10) = 4 * c + 8
    BY <1>2, <1>3, <1>7
  <2>3. QED
    BY <1>3, <1>5, <1>7, <2>1, <2>2 DEF x
<1>9. Len(v) = c + 1 /\ v[c + 1] = vs[10] /\ \A j \in 1 .. c : v[j] = x[j]
  <2>1. vs[10] \in Conds
    <3>1. 10 \in 1 .. Len(ss)
      BY <1>3
    <3>2. Fits(yystos[ss[10] + 1], vs[10])
      BY <3>1 DEF Typed
    <3>3. Fits(32, vs[10])
      BY <1>3, <1>5, <3>2
    <3>4. QED
      BY <3>3 DEF Fits
  <2> DEFINE y == vs[10]
  <2>2. y \in Conds
    BY <2>1
  <2> HIDE DEF y
  <2>3. /\ Len(Append(x, y)) = c + 1 /\ Append(x, y)[c + 1] = y
        /\ \A j \in 1 .. c : Append(x, y)[j] = x[j]
    BY <1>6, <2>2, AppendProperties DEF c
  <2>4. QED
    BY <1>5, <2>3 DEF y
<1>10. At(ss2, vs2, 8) = 4 * c + 8
  <2>1. At(ss2, vs2, 8) = 8 - 2 + (4 * Len(v) - 2) + 0
    BY <1>5 DEF At
  <2>2. QED
    BY <1>6, <1>9, <2>1
<1>11. Spells(31, v, hp, toks, 4 * c + 8)
  <2>1. ASSUME NEW j \in 1 .. c + 1
        PROVE  Means(v[j], hp, toks, 4 * j + 2)
    <3>1. CASE j = c + 1
      <4>1. Means(vs[10], hp, toks, (4 * c + 8) - 2)
        BY <1>8 DEF Spells
      <4>2. (4 * c + 8) - 2 = 4 * j + 2
        BY <1>6, <3>1
      <4>3. QED
        BY <1>9, <3>1, <4>1, <4>2
    <3>2. CASE j # c + 1
      <4>1. j \in 1 .. c
        BY <1>6, <3>2
      <4>2. \A i \in 1 .. c : Means(x[i], hp, toks, 4 * i + 2)
        BY <1>8 DEF Spells, c
      <4>3. QED
        BY <1>9, <4>1, <4>2
    <3>3. QED
      BY <3>1, <3>2
  <2>2. 4 * c + 8 \in 1 .. Len(toks) /\ 4 * c + 8 = 4 * Len(v) + 4
    BY <1>6, <1>7, <1>9
  <2> DEFINE k == 4 * c + 8
  <2>3. k \in 1 .. Len(toks) /\ k = 4 * Len(v) + 4
          /\ \A j \in 1 .. Len(v) : Means(v[j], hp, toks, 4 * j + 2)
    BY <1>9, <2>1, <2>2
  <2> HIDE DEF k
  <2>4. /\ ~(31 < 25) /\ 31 \notin {T_INTEGER, T_STRING, T_ID, 35, 36}
        /\ 31 \notin {33, 34} /\ 31 # 37 /\ 31 # 32
    BY Numbers
  <2>5. Spells(31, v, hp, toks, k)
    BY <2>3, <2>4, Zenon DEF Spells
  <2>6. QED
    BY <2>5 DEF k
<1>12. QED
  BY <1>1, <1>2, <1>4, <1>7, <1>10, <1>11 DEF ss2, vs2

LEMMA ConditionReads ==
  ASSUME NEW ss, NEW vs, NEW hp, NEW toks, NEW r, r = 16, NEW v \in Value,
         Fits(yyr1[r + 1], v), Len(toks) \in Nat, Path(ss), Typed(ss, vs),
         yydefact[ss[Len(ss)] + 1] = r, Reads(ss, vs, hp, toks),
         v = [attr |-> vs[Len(ss) - 2], comp |-> vs[Len(ss) - 1], value |-> vs[Len(ss)]]
  PROVE  ~InError(Reduced(ss, r)) /\ Reads(Reduced(ss, r), ReducedTo(ss, vs, r, v), hp, toks)
<1> DEFINE m == Len(ss) - yyr2[r + 1]
           ss2 == Reduced(ss, r)
           vs2 == ReducedTo(ss, vs, r, v)
           n == Len(ss)
           k == Len(toks)
<1> HIDE DEF m, ss2, vs2
<1>1. /\ r \in 14 .. 16 /\ yyr2[r + 1] = 3 /\ yyr1[r + 1] = 32
      /\ Handle(r, 1) = 30 /\ Handle(r, 2) = 40 /\ Handle(r, 3) = 45
  BY ConditionTable
<1>2. /\ n \in Nat /\ n >= 3 /\ \A i \in 1 .. yyr2[r + 1] : ss[m + i] = Handle(r, i)
      /\ vs2[m + 1] = v /\ ss2[m + 1] \in States /\ yystos[ss2[m + 1] + 1] = yyr1[r + 1]
      /\ \A i \in 1 .. m : ss2[i] = ss[i] /\ vs2[i] = vs[i]
      /\ k = At(ss, vs, n)
      /\ \A i \in 3 .. n : Spells(yystos[ss[i] + 1], vs[i], hp, toks, At(ss, vs, i))
      /\ k = At(ss2, vs2, m + 1) /\ Spells(yyr1[r + 1], v, hp, toks, k)
           => ~InError(ss2) /\ Reads(ss2, vs2, hp, toks)
  <2>1. m = Len(ss) - yyr2[r + 1] /\ ss2 = Reduced(ss, r) /\ vs2 = ReducedTo(ss, vs, r, v)
    BY DEF m, ss2, vs2
  <2>2. r \in 14 .. 16
    BY <1>1
  <2>3. QED
    BY <2>1, <2>2, Gathers
<1>3. /\ m = n - 3 /\ m + 1 = n - 2 /\ m + 2 = n - 1 /\ m + 3 = n
      /\ ss[n - 2] = 30 /\ ss[n - 1] = 40 /\ ss[n] = 45
  <2>1. m = n - 3
    BY <1>1 DEF m
  <2>2. m + 1 = n - 2 /\ m + 2 = n - 1 /\ m + 3 = n
    BY <1>2, <2>1
  <2>3. ss[m + 1] = 30 /\ ss[m + 2] = 40 /\ ss[m + 3] = 45
    BY <1>1, <1>2
  <2>4. QED
    BY <2>1, <2>2, <2>3
<1>4. n - 2 \in 1 .. n /\ (n - 2 = 8 \/ (n - 2 = 10 /\ ss[8] = 28))
  <2>1. n - 2 \in 1 .. n
    BY <1>2
  <2> DEFINE j == n - 2
  <2>2. j \in 1 .. Len(ss) /\ ss[j] = 30
    BY <1>3, <2>1
  <2> HIDE DEF j, n
  <2>3. j = 8 \/ (j = 10 /\ ss[8] = 28)
    BY <2>2, SecondCondition
  <2>4. QED
    BY <2>1, <2>3 DEF j
<1>5. /\ yystos[30 + 1] = 34 /\ yystos[40 + 1] = 37 /\ yystos[45 + 1] = 35
      /\ yystos[ss2[n - 2] + 1] = 32 /\ ss2[n - 2] # 28 /\ vs2[n - 2] = v
  <2>1. yystos[30 + 1] = 34 /\ yystos[40 + 1] = 37 /\ yystos[45 + 1] = 35
    BY ConditionTable
  <2>2. yystos[ss2[n - 2] + 1] = 32 /\ ss2[n - 2] \in States /\ vs2[n - 2] = v
    BY <1>1, <1>2, <1>3
  <2>3. ss2[n - 2] # 28
    BY <2>2, ConditionTable
  <2>4. QED
    BY <2>1, <2>2, <2>3
<1> DEFINE d == IF ss[8] = 28 THEN 4 * Len(vs[8]) - 2 ELSE 0
<1>6. n = 10 \/ n = 12
  BY <1>2, <1>4
<1>7. n - 2 >= 8 /\ n >= 8 /\ n - 2 \in 3 .. n /\ n - 1 \in 3 .. n /\ n \in 3 .. n
  <2> HIDE DEF n
  <2>1. QED
    BY <1>6
<1>8. /\ k = n - 2 + d + 0
      /\ At(ss, vs, n - 1) = n - 1 - 2 + d + 0
      /\ At(ss, vs, n - 2) = n - 2 - 2 + d + 0
  BY <1>2, <1>3, <1>5, <1>6 DEF At
<1>9. At(ss2, vs2, n - 2) = n - 2 - 2 + d + 2
  <2>1. ss2[8] = 28 <=> ss[8] = 28
    <3>1. CASE n = 10
      BY <1>3, <1>5, <3>1
    <3>2. CASE n = 12
      BY <1>2, <1>3, <3>2
    <3>3. QED
      BY <1>6, <3>1, <3>2
  <2>2. ss[8] = 28 => vs2[8] = vs[8]
    <3>1. CASE n = 10
      BY <1>3, <3>1
    <3>2. CASE n = 12
      BY <1>2, <1>3, <3>2
    <3>3. QED
      BY <1>6, <3>1, <3>2
  <2>3. n - 2 >= 8
    BY <1>7
  <2>4. QED
    BY <1>5, <2>1, <2>2, <2>3 DEF At
<1>10. d \in Int
  <2>1. n >= 8
    BY <1>7
  <2>2. Len(ss) >= 8 /\ ss[8] = 28 => Len(vs[8]) \in Nat \ {0}
    BY CondCount
  <2>3. QED
    BY <2>1, <2>2
<1> HIDE DEF d
<1>11. /\ At(ss2, vs2, n - 2) = k /\ At(ss, vs, n - 1) = k - 1 /\ At(ss, vs, n - 2) = k - 2
      /\ At(ss, vs, n) = k
  BY <1>2, <1>6, <1>8, <1>9, <1>10
<1>12. Spells(34, vs[n - 2], hp, toks, k - 2) /\ Spells(37, vs[n - 1], hp, toks, k - 1)
         /\ Spells(35, vs[n], hp, toks, k)
  <2>1. n - 2 \in 3 .. n /\ n - 1 \in 3 .. n /\ n \in 3 .. n
    BY <1>7
  <2>2. /\ Spells(yystos[ss[n - 2] + 1], vs[n - 2], hp, toks, At(ss, vs, n - 2))
        /\ Spells(yystos[ss[n - 1] + 1], vs[n - 1], hp, toks, At(ss, vs, n - 1))
        /\ Spells(yystos[ss[n] + 1], vs[n], hp, toks, At(ss, vs, n))
    BY <1>2, <2>1
  <2>3. QED
    BY <1>3, <1>5, <1>11, <2>2
<1> HIDE DEF k, n
<1>13. /\ k - 2 \in 1 .. k /\ k \in 1 .. k /\ k \in Nat
       /\ vs[n - 2] = AttrOf(toks[k - 2]) /\ vs[n - 1] = SelCond[toks[k - 1].sym]
       /\ toks[k].text = hp[vs[n]]
  BY <1>12 DEF Spells, k
<1>14. Means(v, hp, toks, k - 2)
  <2>1. k - 2 + 1 = k - 1 /\ k - 2 + 2 = k
    BY <1>13
  <2>2. v = [attr |-> vs[n - 2], comp |-> vs[n - 1], value |-> vs[n]]
    BY DEF n
  <2>3. CondAt(toks, k - 2) = [attr |-> vs[n - 2], comp |-> vs[n - 1], value |-> hp[vs[n]]]
    BY <1>13, <2>1 DEF CondAt
  <2>4. QED
    BY <2>2, <2>3 DEF Means
<1>15. Spells(32, v, hp, toks, k)
  <2>1. k \in 1 .. Len(toks) /\ k > 2
    BY <1>13 DEF k
  <2>2. QED
    BY <1>14, <2>1, Numbers DEF Spells
<1>16. QED
  BY <1>1, <1>2, <1>3, <1>11, <1>15 DEF ss2, vs2

LEMMA ConditionStep ==
  ASSUME Inv, Running, reduce_condition
  PROVE  Obeys
<1> DEFINE v == CASE Rule = 14 -> <<Arg(14, 1)>>
                  [] Rule = 15 -> Append(Arg(15, 1), Arg(15, 3))
                  [] Rule = 16 -> [attr |-> Arg(16, 1), comp |-> Arg(16, 2), value |-> Arg(16, 3)]
           rules == {14, 15, 16}
           n == Len(yyss)
<1>1. Reduce(rules, v) /\ Rule \in rules /\ UNCHANGED <<heap, told, before, line, call, result>>
  BY DEF reduce_condition, Reduce
<1>2. rules \in SUBSET Reducible /\ rules \in SUBSET Reducible \ {7} /\ Rule \in Reducible
  BY <1>1 DEF Reducible
<1>3. /\ yydefact[yyss[Len(yyss)] + 1] = Rule
      /\ Path(yyss) /\ Typed(yyss, yyvs) /\ n \in Nat \ {0}
      /\ yyss' = Reduced(yyss, Rule) /\ yyvs' = ReducedTo(yyss, yyvs, Rule, v)
      /\ ~Rejected(line) => Reads(yyss, yyvs, heap, line) /\ Len(line) \in Nat
  <2> HIDE DEF v, rules
  <2>1. QED
    BY <1>1, <1>2, Reduces
<1>4. \A i \in 1 .. yyr2[Rule + 1] : Arg(Rule, i) \in Value /\ Fits(Symbol(Rule, i), Arg(Rule, i))
  BY <1>2, Args
<1> HIDE DEF n
<1>5. Rule = 14 => /\ v \in Value /\ Fits(yyr1[Rule + 1], v) /\ v = <<yyvs[Len(yyss)]>>
  <2>1. SUFFICES ASSUME Rule = 14
                 PROVE  v \in Value /\ Fits(31, v) /\ v = <<yyvs[Len(yyss)]>>
    BY RuleTable
  <2> DEFINE x == Arg(Rule, 1)
  <2>2. v = <<x>> /\ Symbol(Rule, 1) = 32 /\ yyr2[Rule + 1] = 1
    BY <2>1, SymbolTable
  <2>3. Rhs(Rule) + 1 = n
    BY <1>3, <2>2 DEF Rhs, n
  <2>4. x = yyvs[Len(yyss)]
    BY <2>3 DEF Arg, n
  <2>5. x \in Conds
    BY <1>4, <2>2 DEF Fits
  <2> HIDE DEF x, v
  <2>6. v \in Seq(Conds) /\ v # << >>
    BY <2>2, <2>5
  <2>7. QED
    BY <2>2, <2>4, <2>6 DEF Value, Fits, T_INTEGER, T_STRING, T_ID
<1>6. Rule = 15 => /\ v \in Value /\ Fits(yyr1[Rule + 1], v) /\ v = OneMore(yyss, yyvs)
  <2>1. SUFFICES ASSUME Rule = 15
                 PROVE  v \in Value /\ Fits(31, v) /\ v = OneMore(yyss, yyvs)
    <3>1. Rule = 15 => yyr1[Rule + 1] = 31
      BY RuleTable
    <3> HIDE DEF v
    <3>2. QED
      BY <3>1
  <2> DEFINE x == Arg(Rule, 1)
             y == Arg(Rule, 3)
  <2>2. v = Append(x, y)
    <3>1. v = Append(Arg(15, 1), Arg(15, 3))
      BY <2>1
    <3>2. QED
      BY <2>1, <3>1
  <2>3. Symbol(Rule, 1) = 31 /\ Symbol(Rule, 3) = 32 /\ yyr2[Rule + 1] = 3
    BY <2>1, SymbolTable
  <2>4. Rhs(Rule) + 1 = n - 2 /\ Rhs(Rule) + 3 = n
    BY <1>3, <2>3 DEF Rhs, n
  <2>5. x = yyvs[Len(yyss) - 2] /\ y = yyvs[Len(yyss)]
    BY <2>4 DEF Arg, n
  <2>6. x \in Seq(Conds) /\ y \in Conds
    BY <1>4, <2>3 DEF Fits
  <2> HIDE DEF x, y, v
  <2>7. v \in Seq(Conds) /\ v # << >>
    <3>1. Append(x, y) \in Seq(Conds) /\ Append(x, y) # << >>
      BY <2>6, AppendProperties
    <3>2. QED
      BY <2>2, <3>1
  <2>8. QED
    BY <2>2, <2>5, <2>7 DEF OneMore, Value, Fits, T_INTEGER, T_STRING, T_ID
<1>7. Rule = 16 => /\ v \in Value /\ Fits(yyr1[Rule + 1], v)
                   /\ v = [attr |-> yyvs[Len(yyss) - 2], comp |-> yyvs[Len(yyss) - 1],
                           value |-> yyvs[Len(yyss)]]
  <2>1. SUFFICES ASSUME Rule = 16
                 PROVE  /\ v \in Value /\ Fits(32, v)
                        /\ v = [attr |-> yyvs[Len(yyss) - 2], comp |-> yyvs[Len(yyss) - 1],
                                value |-> yyvs[Len(yyss)]]
    BY RuleTable
  <2> DEFINE x == Arg(Rule, 1)
             y == Arg(Rule, 2)
             z == Arg(Rule, 3)
  <2>2. v = [attr |-> x, comp |-> y, value |-> z]
    <3>1. v = [attr |-> Arg(16, 1), comp |-> Arg(16, 2), value |-> Arg(16, 3)]
      BY <2>1
    <3>2. QED
      BY <2>1, <3>1
  <2>3. /\ Symbol(Rule, 1) = 34 /\ Symbol(Rule, 2) = 37 /\ Symbol(Rule, 3) = 35
        /\ yyr2[Rule + 1] = 3
    BY <2>1, SymbolTable
  <2>4. Rhs(Rule) + 1 = n - 2 /\ Rhs(Rule) + 2 = n - 1 /\ Rhs(Rule) + 3 = n
    BY <1>3, <2>3 DEF Rhs, n
  <2>5. x = yyvs[Len(yyss) - 2] /\ y = yyvs[Len(yyss) - 1] /\ z = yyvs[Len(yyss)]
    BY <2>4 DEF Arg, n
  <2>6. x \in 0 .. 2 /\ y \in Comparators /\ z \in String
    BY <1>4, <2>3 DEF Fits
  <2> HIDE DEF x, y, z, v
  <2>7. v \in Conds
    BY <2>2, <2>6 DEF Conds
  <2>8. v \in Value /\ Fits(32, v)
    BY <2>7 DEF Value, Fits, T_INTEGER, T_STRING, T_ID
  <2>9. QED
    BY <2>2, <2>5, <2>8
<1> HIDE DEF v
<1>8. ASSUME ~Rejected(line)
      PROVE  ~InError(yyss') /\ Reads(yyss', yyvs', heap', line)
  <2>1. Reads(yyss, yyvs, heap, line) /\ Len(line) \in Nat
    BY <1>3, <1>8
  <2> DEFINE r == Rule
  <2>2. yydefact[yyss[Len(yyss)] + 1] = r /\ Path(yyss) /\ Typed(yyss, yyvs)
    BY <1>3
  <2>3. r = 14 => ~InError(Reduced(yyss, r)) /\ Reads(Reduced(yyss, r), ReducedTo(yyss, yyvs, r, v), heap, line)
    <3>1. SUFFICES ASSUME r = 14
                   PROVE  ~InError(Reduced(yyss, r))
                            /\ Reads(Reduced(yyss, r), ReducedTo(yyss, yyvs, r, v), heap, line)
      OBVIOUS
    <3>2. v \in Value /\ Fits(yyr1[r + 1], v) /\ v = <<yyvs[Len(yyss)]>>
      BY <1>5, <3>1
    <3> HIDE DEF r
    <3>3. QED
      BY <2>1, <2>2, <3>1, <3>2, FirstConditionReads
  <2>4. r = 15 => ~InError(Reduced(yyss, r)) /\ Reads(Reduced(yyss, r), ReducedTo(yyss, yyvs, r, v), heap, line)
    <3>1. SUFFICES ASSUME r = 15
                   PROVE  ~InError(Reduced(yyss, r))
                            /\ Reads(Reduced(yyss, r), ReducedTo(yyss, yyvs, r, v), heap, line)
      OBVIOUS
    <3>2. v \in Value /\ Fits(yyr1[r + 1], v) /\ v = OneMore(yyss, yyvs)
      BY <1>6, <3>1
    <3> HIDE DEF r
    <3>3. QED
      BY <2>1, <2>2, <3>1, <3>2, NextConditionReads
  <2>5. r = 16 => ~InError(Reduced(yyss, r)) /\ Reads(Reduced(yyss, r), ReducedTo(yyss, yyvs, r, v), heap, line)
    <3>1. SUFFICES ASSUME r = 16
                   PROVE  ~InError(Reduced(yyss, r))
                            /\ Reads(Reduced(yyss, r), ReducedTo(yyss, yyvs, r, v), heap, line)
      OBVIOUS
    <3>2. /\ v \in Value /\ Fits(yyr1[r + 1], v)
          /\ v = [attr |-> yyvs[Len(yyss) - 2], comp |-> yyvs[Len(yyss) - 1],
                  value |-> yyvs[Len(yyss)]]
      BY <1>7, <3>1
    <3> HIDE DEF r
    <3>3. QED
      BY <2>1, <2>2, <3>1, <3>2, ConditionReads
  <2>6. r = 14 \/ r = 15 \/ r = 16
    BY <1>1
  <2>7. heap' = heap /\ yyss' = Reduced(yyss, r) /\ yyvs' = ReducedTo(yyss, yyvs, r, v)
    BY <1>1, <1>3
  <2> HIDE DEF r
  <2>8. QED
    BY <2>3, <2>4, <2>5, <2>6, <2>7
<1> HIDE DEF rules
<1>9. QED
  BY <1>1, <1>2, <1>8, Silent

-----------------------------------------------------------------------------
(* The ends of lines: what a whole line of the grammar calls *)

LEMMA OtherCalls ==
  ASSUME NEW toks, Len(toks) \in Nat \ {0}, DOMAIN toks = 1 .. Len(toks), toks[1].sym \notin {3, 6}
  PROVE  CallOf(toks) = NoCall
<1>1. ~Is(toks, LoadLine) /\ ~Is(toks, LoadIndexLine)
  BY LoadPlaces DEF Is, Begins
<1>2. ASSUME NEW n \in 0 .. MaxConds
      PROVE  ~Is(toks, SelectLine(n))
  <2>1. n \in Nat
    BY TextAssumption
  <2>2. SelectLine(n)[1] = {3}
    <3>1. 1 \in 1 .. 4 * n + 4
      BY <2>1
    <3>2. SelectLine(n)[1] = Mid(1)
      BY <2>1, <3>1, SelectPlaces
    <3>3. QED
      BY <3>2, Mids, Numbers
  <2>3. QED
    BY <2>2 DEF Is, Begins
<1>3. QED
  BY <1>1, <1>2 DEF CallOf

LEMMA LoadCalls ==
  ASSUME NEW toks, Len(toks) \in Nat \ {0}, DOMAIN toks = 1 .. Len(toks), toks[1].sym = 6,
         Viable(toks), toks[Len(toks)].sym = 15
  PROVE  CallOf(toks) = LoadCall(toks[2].text, toks[4].text, Len(toks) = 7)
<1> DEFINE k == Len(toks)
<1>1. Begins(toks, LoadLine) \/ Begins(toks, LoadIndexLine)
  BY Heads, Numbers
<1>2. \A l : Begins(toks, l) => k <= Len(l) /\ toks[k].sym \in l[k]
  BY DEF Begins
<1>3. Begins(toks, LoadLine) => k = 5
  <2>1. SUFFICES ASSUME k <= 5, 15 \in LoadLine[k]
                 PROVE  k = 5
    BY SMTT(60), <1>2, LoadPlaces
  <2> HIDE DEF k
  <2>2. k = 1 \/ k = 2 \/ k = 3 \/ k = 4 \/ k = 5
    BY <2>1 DEF k
  <2>3. QED
    BY <2>1, <2>2, LoadPlaces
<1>4. Begins(toks, LoadIndexLine) => k = 7
  <2>1. SUFFICES ASSUME k <= 7, 15 \in LoadIndexLine[k]
                 PROVE  k = 7
    <3>1. Len(LoadIndexLine) = 7
      BY LoadPlaces
    <3>2. QED
      BY <1>2, <3>1
  <2> HIDE DEF k
  <2>2. k = 1 \/ k = 2 \/ k = 3 \/ k = 4 \/ k = 5 \/ k = 6 \/ k = 7
    BY SMTT(60), <2>1 DEF k
  <2>3. QED
    BY <2>1, <2>2, LoadPlaces
<1>5. CASE Begins(toks, LoadLine)
  <2>1. Is(toks, LoadLine) /\ ~(Len(toks) = 7)
    <3>1. Len(LoadLine) = 5
      BY LoadPlaces
    <3>2. Len(toks) = 5
      BY <1>3, <1>5
    <3>3. QED
      BY <1>5, <3>1, <3>2 DEF Is
  <2>2. (Len(toks) = 7) = FALSE
    BY <2>1, Zenon
  <2>3. QED
    BY <2>1, <2>2, Zenon DEF CallOf
<1>6. CASE Begins(toks, LoadIndexLine)
  <2>1. Is(toks, LoadIndexLine) /\ ~Is(toks, LoadLine) /\ Len(toks) = 7
    <3>1. Len(LoadLine) = 5 /\ Len(LoadIndexLine) = 7
      BY LoadPlaces
    <3>2. Len(toks) = 7
      BY <1>4, <1>6
    <3>3. QED
      BY <1>6, <3>1, <3>2 DEF Is
  <2>2. (Len(toks) = 7) = TRUE
    BY <2>1, Zenon
  <2>3. QED
    BY <2>1, <2>2, Zenon DEF CallOf
<1>7. QED
  BY <1>1, <1>5, <1>6

LEMMA SelectCalls ==
  ASSUME NEW toks, Len(toks) \in Nat \ {0}, DOMAIN toks = 1 .. Len(toks), toks[1].sym = 3,
         Viable(toks), toks[Len(toks)].sym = 15
  PROVE  CallOf(toks) = SelectCall(AttrOf(toks[2]), toks[4].text,
                          [i \in 1 .. (Len(toks) - 5) \div 4 |-> CondAt(toks, 2 + 4 * i)])
<1> DEFINE k == Len(toks)
<1>1. OpenSelect(toks) \/ ClosedSelect(toks)
  BY Heads, Numbers
<1>2. ~OpenSelect(toks)
  <2>1. SUFFICES ASSUME toks[k].sym \in Mid(k)
                 PROVE  FALSE
    BY DEF OpenSelect
  <2>2. k \in Nat \ {0} /\ 15 \in Mid(k)
    BY <2>1
  <2> HIDE DEF k
  <2>3. QED
    BY <2>2, MidNoEnd
<1>3. PICK n \in 0 .. MaxConds :
        /\ k = 4 * n + 5 /\ toks[4 * n + 5].sym = T_LF
        /\ \A i \in 1 .. 4 * n + 4 : toks[i].sym \in Mid(i)
  BY <1>1, <1>2 DEF ClosedSelect
<1>4. n \in Nat
  BY TextAssumption
<1>5. /\ Len(SelectLine(n)) = 4 * n + 5 /\ SelectLine(n)[4 * n + 5] = {T_LF}
      /\ \A i \in 1 .. 4 * n + 4 : SelectLine(n)[i] = Mid(i)
  BY <1>4, SelectPlaces
<1>6. ASSUME NEW i \in 1 .. k
      PROVE  toks[i].sym \in SelectLine(n)[i]
  <2>1. i \in 1 .. 4 * n + 4 \/ i = 4 * n + 5
    BY <1>3, <1>4
  <2>2. QED
    BY <1>3, <1>5, <2>1
<1>7. Is(toks, SelectLine(n))
  BY <1>3, <1>4, <1>5, <1>6 DEF Is, Begins
<1>8. ~Is(toks, LoadLine) /\ ~Is(toks, LoadIndexLine)
  BY LoadPlaces DEF Is, Begins
<1>9. \E j \in 0 .. MaxConds : Is(toks, SelectLine(j))
  BY <1>7
<1>10. QED
  BY <1>8, <1>9, Zenon DEF CallOf

Closing == {8, 10, 11, 12, 13}

LEMMA ClosingTable ==
  ASSUME NEW r \in Closing
  PROVE  /\ r \in Outer /\ r \in Reducible /\ r # 2 /\ r # 3
         /\ yyr2[r + 1] = (IF r = 8 THEN 1 ELSE IF r \in {10, 12} THEN 5 ELSE 7)
         /\ Handle(r, 1) = (IF r = 8 THEN 7 ELSE IF r \in {10, 11} THEN 5 ELSE 4)
         /\ Symbol(r, 1) = (IF r = 8 THEN 15 ELSE IF r \in {10, 11} THEN 6 ELSE 3)
         /\ Symbol(r, yyr2[r + 1]) = 15
BY DEF Closing, Outer, Reducible, yyr2, Handle, Handles, Symbol, yystos

LEMMA ArgTable ==
  /\ \A r \in {10, 11} : Symbol(r, 2) = 36 /\ Symbol(r, 4) = 17
  /\ \A r \in {12, 13} : Symbol(r, 2) = 33 /\ Symbol(r, 4) = 36
  /\ Handle(11, 6) = 31 /\ Handle(13, 6) = 28 /\ Symbol(13, 6) = 31
BY DEF Handle, Handles, Symbol, yystos

\* The stack at the end of a line that is no error
LEMMA Closes ==
  ASSUME NEW ss, NEW vs, NEW hp, NEW toks, NEW r \in Closing, Len(toks) \in Nat,
         Path(ss), yydefact[ss[Len(ss)] + 1] = r, Reads(ss, vs, hp, toks)
  PROVE  /\ Len(ss) = 2 + yyr2[r + 1] /\ \A i \in 1 .. yyr2[r + 1] : ss[2 + i] = Handle(r, i)
         /\ \A i \in 1 .. yyr2[r + 1] :
              Spells(Symbol(r, i), vs[2 + i], hp, toks, At(ss, vs, 2 + i))
         /\ Len(toks) = At(ss, vs, Len(ss)) /\ Len(toks) \in Nat \ {0}
         /\ toks[1].sym = Symbol(r, 1) /\ toks[Len(toks)].sym = 15
<1> DEFINE n == Len(ss)
           l == yyr2[r + 1]
<1>1. r \in Outer /\ r \in Reducible /\ r # 2 /\ r # 3 /\ l \in 1 .. 7
        /\ Handle(r, 1) \in {4, 5, 6, 7} /\ Symbol(r, l) = 15
  BY ClosingTable
<1>2. n \in Nat /\ n = 2 + l
  <2>1. n - l = 2 /\ n \in Nat
    BY <1>1, OuterLeaves DEF Path
  <2> HIDE DEF n, l
  <2>2. QED
    BY <1>1, <2>1
<1>3. \A i \in 1 .. l : ss[2 + i] = Handle(r, i)
  <2>1. \A i \in 1 .. l : ss[n - l + i] = Handle(r, i)
    BY <1>1, HandleOnTop
  <2> HIDE DEF n, l
  <2>2. n - l = 2
    BY <1>1, <1>2
  <2>3. QED
    BY <2>1, <2>2
<1>4. ss[3] = Handle(r, 1) /\ n >= 3
  <2> HIDE DEF n, l
  <2>1. 1 \in 1 .. l /\ 2 + 1 = 3 /\ n >= 3
    BY <1>1, <1>2
  <2>2. QED
    BY <1>3, <2>1
<1>5. Begun(ss)
  BY <1>1, <1>4 DEF Begun
<1>6. /\ Len(toks) = At(ss, vs, n) /\ Len(toks) \in Nat \ {0} /\ toks[1].sym = yystos[ss[3] + 1]
      /\ Spells(yystos[ss[n] + 1], vs[n], hp, toks, Len(toks))
      /\ \A i \in 3 .. n : Spells(yystos[ss[i] + 1], vs[i], hp, toks, At(ss, vs, i))
  BY <1>5, ReadEnds DEF Reads
<1>7. toks[1].sym = Symbol(r, 1)
  BY <1>4, <1>6 DEF Symbol
<1>8. toks[Len(toks)].sym = 15
  <2>1. ss[n] = Handle(r, l)
    <3> HIDE DEF n, l
    <3>1. l \in 1 .. l /\ 2 + l = n
      BY <1>1, <1>2
    <3>2. QED
      BY <1>3, <3>1
  <2>2. yystos[ss[n] + 1] = 15
    BY <1>1, <2>1 DEF Symbol
  <2>3. QED
    BY <1>6, <2>2 DEF Spells
<1>9. ASSUME NEW i \in 1 .. l
      PROVE  Spells(Symbol(r, i), vs[2 + i], hp, toks, At(ss, vs, 2 + i))
  <2>1. 2 + i \in 3 .. n
    <3> HIDE DEF n, l
    <3>1. QED
      BY <1>1, <1>2
  <2>2. Spells(yystos[ss[2 + i] + 1], vs[2 + i], hp, toks, At(ss, vs, 2 + i))
    BY <1>6, <2>1
  <2>3. yystos[ss[2 + i] + 1] = Symbol(r, i)
    BY <1>3 DEF Symbol
  <2>4. QED
    BY <2>2, <2>3
<1>10. QED
  BY <1>2, <1>3, <1>6, <1>7, <1>8, <1>9

\* A line that is executed leaves the stack as it is between two commands.
LEMMA LineOver ==
  ASSUME Inv, Running, NEW rules \in SUBSET {7, 8, 10, 11, 12, 13}, NEW v, Reduce(rules, v),
         NEW c, Executed(c), EndOfLine(line), c = CallOf(line),
         IF Rejected(line) THEN Len(line) = 2 ELSE Len(line) = 1 \/ Len(line) >= 5
  PROVE  Obeys
<1>1. rules \in SUBSET Reducible /\ Rule \in Outer
  BY DEF Reducible, Outer, Reduce
<1>2. /\ yydefact[yyss[Len(yyss)] + 1] = Rule /\ Path(yyss)
      /\ yyss' = Reduced(yyss, Rule) /\ yychar' = YYEMPTY
      /\ yyerrstatus' = yyerrstatus /\ yyerrstatus \in 0 .. 2 /\ result = "running"
      /\ Reported(yyss, YYEMPTY, yyerrstatus, told, before, line)
      /\ IF Rejected(line) THEN InError(yyss)
         ELSE /\ Len(line) \in Nat /\ ~told /\ (yyerrstatus = 0 \/ yyerrstatus + Len(line) <= 2)
              /\ (yyerrstatus # 0 => before)
  BY <1>1, Reduces
<1>3. ~Begun(yyss') /\ ~InError(yyss')
  BY <1>1, <1>2, OuterLeaves
<1>4. /\ line' = << >> /\ call' = c /\ told' = FALSE /\ result' = result
      /\ before' = IF Len(line) = 1 THEN before ELSE Rejected(line)
  BY DEF Executed
<1>5. ~Rejected(line') /\ ~EndOfLine(line')
  BY <1>4 DEF Rejected, EndOfLine
<1>6. InStep(yyss', yyvs', yychar', yylval', heap', yyerrstatus', line')
  <2>1. line' \in Seq(Token) /\ Consumed(line', yychar') = << >>
    BY <1>2, <1>4 DEF Consumed
  <2>2. Reads(yyss', yyvs', heap', Consumed(line', yychar'))
    BY <1>3, <2>1 DEF Reads
  <2>3. Follows(yyss', yyvs', yychar', yylval', heap', line')
    BY <1>2, <1>3, <1>4, <2>1, <2>2 DEF Follows, YYEMPTY, YYEOF
  <2>4. QED
    BY <1>2, <1>5, <2>3 DEF InStep
<1>7. Reported(yyss', yychar', yyerrstatus', told', before', line')
  <2>1. Len(Consumed(line', yychar')) = 0
    BY <1>2, <1>4 DEF Consumed
  <2>2. yyerrstatus # 0 => before'
    BY <1>2, <1>4
  <2>3. QED
    BY <1>2, <1>3, <1>4, <1>5, <2>1, <2>2 DEF Reported
<1>8. GrammarExecute
  BY <1>2, <1>4 DEF GrammarExecute
<1>9. IF Rejected(line) THEN told \/ before ELSE ~told
  BY <1>2 DEF Reported
<1>10. QED
  BY <1>6, <1>7, <1>8, <1>9 DEF Obeys, Running, GrammarNext

\* The end of a rejected line, and an empty line
LEMMA LineStep ==
  ASSUME Inv, Running, reduce_line
  PROVE  Obeys
<1> DEFINE v == Val(Rule)
           rules == {7, 8}
<1>1. Reduce(rules, v) /\ Rule \in rules /\ Executed(NoCall)
  BY DEF reduce_line, Reduce
<1>2. rules \in SUBSET Reducible /\ rules \in SUBSET {7, 8, 10, 11, 12, 13}
  BY DEF Reducible
<1> HIDE DEF v
<1>3. /\ yydefact[yyss[Len(yyss)] + 1] = Rule /\ Path(yyss)
      /\ IF Rejected(line) THEN Rule = 7 /\ GivenUp(yyss, YYEMPTY, line)
         ELSE Rule # 7 /\ Reads(yyss, yyvs, heap, line) /\ line \in Seq(Token) /\ Len(line) \in Nat
  <2> HIDE DEF rules
  <2>1. QED
    BY <1>1, <1>2, Reduces
<1>4. CASE Rejected(line)
  <2>1. yyss # ErrorStack
    <3>1. yydefact[3 + 1] = 0
      BY DEF yydefact
    <3>2. QED
      BY <1>3, <1>4, <3>1, ErrorStacks
  <2>2. EndOfLine(line)
    BY <1>3, <1>4, <2>1 DEF GivenUp
  <2>3. PICK t \in Token : t.sym = T_LF /\ line = <<Garbage, t>>
    <3>1. line # <<Garbage>>
      BY <2>2, Numbers DEF EndOfLine, Garbage, YYTERROR
    <3>2. QED
      BY <1>3, <1>4, <3>1 DEF GivenUp
  <2>4. Len(line) = 2 /\ DOMAIN line = 1 .. Len(line) /\ line[1] = Garbage
    BY <2>3
  <2>5. line[1].sym \notin {3, 6}
    BY <2>4 DEF Garbage, YYTERROR
  <2>6. NoCall = CallOf(line)
    BY <2>4, <2>5, OtherCalls
  <2> HIDE DEF rules
  <2>7. QED
    BY <1>1, <1>2, <1>4, <2>2, <2>4, <2>6, LineOver
<1>5. CASE ~Rejected(line)
  <2>1. Rule = 8 /\ Reads(yyss, yyvs, heap, line) /\ line \in Seq(Token) /\ Len(line) \in Nat
    BY <1>1, <1>3, <1>5
  <2>2. Rule \in Closing /\ yyr2[Rule + 1] = 1 /\ Symbol(Rule, 1) = 15
    BY <2>1, ClosingTable DEF Closing
  <2>3. /\ Len(yyss) = 2 + yyr2[Rule + 1] /\ \A i \in 1 .. yyr2[Rule + 1] : yyss[2 + i] = Handle(Rule, i)
        /\ Len(line) = At(yyss, yyvs, Len(yyss)) /\ Len(line) \in Nat \ {0}
        /\ line[1].sym = Symbol(Rule, 1) /\ line[Len(line)].sym = 15
    BY ZenonT(60), <1>3, <2>1, <2>2, Closes
  <2>4. Len(line) = 1
    <3>1. Len(yyss) = 3 /\ yystos[yyss[3] + 1] = 15
      <4>1. \A i \in 1 .. 1 : yyss[2 + i] = Handle(Rule, i)
        BY <2>2, <2>3
      <4>2. yyss[3] = Handle(Rule, 1)
        BY <4>1
      <4>3. QED
        BY <2>2, <2>3, <4>2 DEF Symbol
    <3>2. At(yyss, yyvs, 3) = 1
      BY <3>1 DEF At
    <3>3. QED
      BY <2>3, <3>1, <3>2
  <2>5. EndOfLine(line) /\ line[1].sym \notin {3, 6} /\ DOMAIN line = 1 .. Len(line)
    BY <2>1, <2>2, <2>3, LenProperties, Numbers DEF EndOfLine
  <2>6. NoCall = CallOf(line)
    BY <2>3, <2>5, OtherCalls
  <2> HIDE DEF rules
  <2>7. QED
    BY <1>1, <1>2, <1>5, <2>4, <2>5, <2>6, LineOver
<1>6. QED
  BY <1>4, <1>5

\* What a command at its end says
LEMMA Finished ==
  ASSUME Inv, Running, NEW rules \in SUBSET {10, 11, 12, 13}, NEW v, Reduce(rules, v)
  PROVE  /\ Rule \in rules /\ Rule \in Closing /\ ~Rejected(line) /\ EndOfLine(line)
         /\ Path(yyss) /\ Typed(yyss, yyvs)
         /\ DOMAIN line = 1 .. Len(line) /\ Len(line) \in Nat \ {0} /\ Viable(line)
         /\ line[1].sym = Symbol(Rule, 1) /\ line[Len(line)].sym = 15
         /\ Rhs(Rule) = 2 /\ Len(yyss) = 2 + yyr2[Rule + 1]
         /\ Len(line) = At(yyss, yyvs, Len(yyss))
         /\ \A i \in 1 .. yyr2[Rule + 1] :
              /\ yyss[2 + i] = Handle(Rule, i)
              /\ Spells(Symbol(Rule, i), yyvs[2 + i], heap, line, At(yyss, yyvs, 2 + i))
         /\ Spells(Symbol(Rule, 2), Arg(Rule, 2), heap, line, 2)
         /\ Spells(Symbol(Rule, 4), Arg(Rule, 4), heap, line, 4)
<1>1. rules \in SUBSET Reducible /\ Rule \in rules /\ Rule \in 10 .. 13 /\ Rule \in Closing /\ Rule # 7
  BY DEF Reducible, Reduce, Closing
<1>2. /\ yydefact[yyss[Len(yyss)] + 1] = Rule /\ Path(yyss) /\ Typed(yyss, yyvs)
      /\ IF Rejected(line) THEN Rule = 7
         ELSE /\ Reads(yyss, yyvs, heap, line) /\ line \in Seq(Token) /\ Len(line) \in Nat
              /\ (line # << >> => Viable(line))
  BY <1>1, Reduces
<1>3. /\ ~Rejected(line) /\ Reads(yyss, yyvs, heap, line) /\ line \in Seq(Token) /\ Len(line) \in Nat
      /\ (line # << >> => Viable(line))
  BY <1>1, <1>2
<1>4. /\ Len(yyss) = 2 + yyr2[Rule + 1] /\ \A i \in 1 .. yyr2[Rule + 1] : yyss[2 + i] = Handle(Rule, i)
      /\ \A i \in 1 .. yyr2[Rule + 1] :
           Spells(Symbol(Rule, i), yyvs[2 + i], heap, line, At(yyss, yyvs, 2 + i))
      /\ Len(line) = At(yyss, yyvs, Len(yyss)) /\ Len(line) \in Nat \ {0}
      /\ line[1].sym = Symbol(Rule, 1) /\ line[Len(line)].sym = 15
  BY <1>1, <1>2, <1>3, Closes
<1>5. yyr2[Rule + 1] \in {5, 7} /\ Rhs(Rule) = 2
  <2>1. yyr2[Rule + 1] \in {5, 7}
    BY <1>1, ClosingTable
  <2>2. QED
    BY <1>4, <2>1 DEF Rhs
<1>6. EndOfLine(line) /\ DOMAIN line = 1 .. Len(line) /\ Viable(line)
  BY <1>3, <1>4, LenProperties, Numbers DEF EndOfLine
<1>7. ASSUME NEW i \in {2, 4}
      PROVE  Spells(Symbol(Rule, i), Arg(Rule, i), heap, line, i)
  <2>1. i \in 1 .. yyr2[Rule + 1] /\ Arg(Rule, i) = yyvs[2 + i]
    BY <1>5 DEF Arg
  <2>2. yyss[2 + i] = Handle(Rule, i) /\ Symbol(Rule, i) # 32
    <3>1. Symbol(Rule, i) # 32
      BY <1>1, ArgTable
    <3>2. QED
      BY <1>4, <2>1, <3>1
  <2>3. At(yyss, yyvs, 2 + i) = i
    BY <2>2 DEF At, Symbol
  <2>4. QED
    BY <1>4, <2>1, <2>3
<1>8. Spells(Symbol(Rule, 2), Arg(Rule, 2), heap, line, 2)
        /\ Spells(Symbol(Rule, 4), Arg(Rule, 4), heap, line, 4)
  BY <1>7
<1>9. QED
  BY <1>1, <1>2, <1>3, <1>4, <1>5, <1>6, <1>8

LEMMA LoadStep ==
  ASSUME Inv, Running, reduce_load
  PROVE  Obeys
<1> DEFINE v == Val(Rule)
           rules == {10, 11}
           c == LoadCall(heap[Arg(Rule, 2)], heap[Arg(Rule, 4)], Rule = 11)
<1>1. Reduce(rules, v) /\ Rule \in rules /\ Executed(c)
  BY DEF reduce_load, Reduce
<1>2. rules \in SUBSET {10, 11, 12, 13} /\ rules \in SUBSET {7, 8, 10, 11, 12, 13}
  OBVIOUS
<1> HIDE DEF v
<1>3. /\ Rule \in Closing /\ ~Rejected(line) /\ EndOfLine(line)
      /\ DOMAIN line = 1 .. Len(line) /\ Len(line) \in Nat \ {0} /\ Viable(line)
      /\ line[1].sym = Symbol(Rule, 1) /\ line[Len(line)].sym = 15
      /\ Len(yyss) = 2 + yyr2[Rule + 1] /\ Len(line) = At(yyss, yyvs, Len(yyss))
      /\ \A i \in 1 .. yyr2[Rule + 1] : yyss[2 + i] = Handle(Rule, i)
      /\ Spells(Symbol(Rule, 2), Arg(Rule, 2), heap, line, 2)
      /\ Spells(Symbol(Rule, 4), Arg(Rule, 4), heap, line, 4)
  <2> HIDE DEF rules
  <2>1. QED
    BY <1>1, <1>2, Finished
<1>4. /\ yyr2[Rule + 1] = (IF Rule = 10 THEN 5 ELSE 7) /\ Symbol(Rule, 1) = 6
      /\ Symbol(Rule, yyr2[Rule + 1]) = 15 /\ Symbol(Rule, 2) = 36 /\ Symbol(Rule, 4) = 17
  BY <1>1, <1>3, ClosingTable, ArgTable
<1>5. line[2].text = heap[Arg(Rule, 2)] /\ line[4].text = heap[Arg(Rule, 4)]
  BY <1>3, <1>4, Numbers DEF Spells
<1>6. Len(line) = IF Rule = 10 THEN 5 ELSE 7
  <2> DEFINE n == Len(yyss)
  <2>1. yystos[yyss[n] + 1] = 15
    <3> DEFINE l == yyr2[Rule + 1]
    <3>1. l \in 1 .. l /\ n = 2 + l
      BY <1>3, <1>4
    <3>2. yyss[n] = Handle(Rule, l)
      BY <1>3, <3>1
    <3>3. QED
      BY <1>4, <3>2 DEF Symbol
  <2>2. Len(line) = n - 2 + (IF n >= 8 /\ yyss[8] = 28 THEN 4 * Len(yyvs[8]) - 2 ELSE 0)
    BY <1>3, <2>1 DEF At
  <2>3. CASE Rule = 10
    <3>1. n = 7
      BY <1>3, <1>4, <2>3
    <3> HIDE DEF n
    <3>2. QED
      BY <2>2, <2>3, <3>1
  <2>4. CASE Rule = 11
    <3>1. n = 9
      BY <1>3, <1>4, <2>4
    <3>2. yyss[8] = 31
      <4>1. \A i \in 1 .. 7 : yyss[2 + i] = Handle(Rule, i)
        BY <1>3, <1>4, <2>4
      <4>2. yyss[8] = Handle(Rule, 6)
        BY <4>1
      <4>3. QED
        BY <2>4, <4>2, ArgTable
    <3> HIDE DEF n
    <3>3. QED
      BY <2>2, <2>4, <3>1, <3>2
  <2>5. QED
    BY <1>1, <2>3, <2>4
<1>7. c = CallOf(line)
  <2>1. CallOf(line) = LoadCall(line[2].text, line[4].text, Len(line) = 7)
    BY <1>3, <1>4, LoadCalls
  <2>2. Len(line) = 7 <=> Rule = 11
    BY <1>1, <1>6
  <2>3. (Len(line) = 7) = (Rule = 11)
    BY <2>2, Zenon
  <2>4. QED
    BY <1>5, <2>1, <2>3, Zenon
<1> HIDE DEF c, rules
<1>8. Len(line) >= 5
  BY <1>6
<1>9. QED
  BY <1>1, <1>2, <1>3, <1>7, <1>8, LineOver

LEMMA SelectStep ==
  ASSUME Inv, Running, reduce_select
  PROVE  Obeys
<1> DEFINE v == Val(Rule)
           rules == {12, 13}
           conds == IF Rule = 12 THEN << >> ELSE Arg(13, 6)
           said == [i \in DOMAIN conds |-> [conds[i] EXCEPT !.value = heap[conds[i].value]]]
           c == SelectCall(Arg(Rule, 2), heap[Arg(Rule, 4)], said)
           q == (Len(line) - 5) \div 4
<1>1. Reduce(rules, v) /\ Rule \in rules /\ Executed(c)
  BY DEF reduce_select, Reduce
<1>2. rules \in SUBSET {10, 11, 12, 13} /\ rules \in SUBSET {7, 8, 10, 11, 12, 13}
  OBVIOUS
<1> HIDE DEF v, said, q
<1>3. /\ Rule \in Closing /\ ~Rejected(line) /\ EndOfLine(line) /\ Path(yyss) /\ Typed(yyss, yyvs)
      /\ DOMAIN line = 1 .. Len(line) /\ Len(line) \in Nat \ {0} /\ Viable(line)
      /\ line[1].sym = Symbol(Rule, 1) /\ line[Len(line)].sym = 15
      /\ Len(yyss) = 2 + yyr2[Rule + 1] /\ Len(line) = At(yyss, yyvs, Len(yyss)) /\ Rhs(Rule) = 2
      /\ \A i \in 1 .. yyr2[Rule + 1] :
           /\ yyss[2 + i] = Handle(Rule, i)
           /\ Spells(Symbol(Rule, i), yyvs[2 + i], heap, line, At(yyss, yyvs, 2 + i))
      /\ Spells(Symbol(Rule, 2), Arg(Rule, 2), heap, line, 2)
      /\ Spells(Symbol(Rule, 4), Arg(Rule, 4), heap, line, 4)
  <2> HIDE DEF rules, c, conds
  <2>1. QED
    BY <1>1, <1>2, Finished
<1>4. /\ yyr2[Rule + 1] = (IF Rule = 12 THEN 5 ELSE 7) /\ Symbol(Rule, 1) = 3
      /\ Symbol(Rule, yyr2[Rule + 1]) = 15 /\ Symbol(Rule, 2) = 33 /\ Symbol(Rule, 4) = 36
  BY <1>1, <1>3, ClosingTable, ArgTable
<1>5. Arg(Rule, 2) = AttrOf(line[2]) /\ line[4].text = heap[Arg(Rule, 4)]
  BY <1>3, <1>4, Numbers DEF Spells
<1>6. Len(line) = Len(yyss) - 2 + (IF Len(yyss) >= 8 /\ yyss[8] = 28 THEN 4 * Len(yyvs[8]) - 2 ELSE 0)
  <2> DEFINE n == Len(yyss)
             l == yyr2[Rule + 1]
  <2>1. yyss[n] = Handle(Rule, l)
    <3>1. l \in 1 .. l /\ n = 2 + l
      BY <1>3, <1>4
    <3>2. QED
      BY <1>3, <3>1
  <2>2. yystos[yyss[n] + 1] = 15
    BY <1>4, <2>1 DEF Symbol
  <2>3. QED
    BY <1>3, <2>2 DEF At
<1>7. /\ Len(line) >= 5 /\ DOMAIN conds = 1 .. q
      /\ \A i \in 1 .. q : [conds[i] EXCEPT !.value = heap[conds[i].value]] = CondAt(line, 2 + 4 * i)
  <2>1. CASE Rule = 12
    <3> DEFINE n == Len(yyss)
    <3>1. n = 7
      BY <1>3, <1>4, <2>1
    <3> HIDE DEF n
    <3>2. Len(line) = 5
      BY <1>6, <3>1 DEF n
    <3>3. q = 0
      BY <3>2 DEF q
    <3>4. conds = << >>
      BY <2>1
    <3>5. QED
      BY <3>2, <3>3, <3>4
  <2>2. CASE Rule = 13
    <3> DEFINE n == Len(yyss)
               x == yyvs[8]
               k == Len(x)
    <3>1. n = 9 /\ 8 \in 1 .. n
      BY <1>3, <1>4, <2>2
    <3>2. yyss[8] = 28 /\ Spells(31, x, heap, line, At(yyss, yyvs, 8))
      <4>1. \A i \in 1 .. 7 : yyss[2 + i] = Handle(13, i)
                /\ Spells(Symbol(13, i), yyvs[2 + i], heap, line, At(yyss, yyvs, 2 + i))
        BY <1>3, <1>4, <2>2
      <4>2. 6 \in 1 .. 7 /\ 2 + 6 = 8
        OBVIOUS
      <4>3. yyss[8] = Handle(13, 6) /\ Spells(Symbol(13, 6), yyvs[8], heap, line, At(yyss, yyvs, 8))
        BY <4>1, <4>2
      <4>4. QED
        BY <4>3, ArgTable
    <3>3. conds = x
      BY <1>3, <2>2 DEF Arg
    <3>4. x \in Seq(Conds) /\ k \in Nat
      <4>1. n >= 8
        BY <3>1
      <4>2. n >= 8 /\ yyss[8] = 28 => x \in Seq(Conds) /\ k \in Nat \ {0}
        BY <1>3, CondCount
      <4>3. QED
        BY <3>2, <4>1, <4>2
    <3>5. \A j \in 1 .. k : Means(x[j], heap, line, 4 * j + 2)
      BY <3>2, Numbers DEF Spells
    <3> HIDE DEF n, conds, x, k
    <3>6. Len(line) = 4 * k + 5
      BY <1>6, <3>1, <3>2, <3>4 DEF n, k, x
    <3>7. q = k /\ Len(line) >= 5
      <4>1. (4 * k + 5 - 5) \div 4 = k
        BY <3>4
      <4>2. QED
        BY <3>4, <3>6, <4>1 DEF q
    <3>8. DOMAIN conds = 1 .. q
      BY <3>3, <3>4, <3>7, LenProperties DEF k
    <3>9. ASSUME NEW i \in 1 .. q
          PROVE  [conds[i] EXCEPT !.value = heap[conds[i].value]] = CondAt(line, 2 + 4 * i)
      <4>1. Means(x[i], heap, line, 4 * i + 2) /\ 4 * i + 2 = 2 + 4 * i
        BY <3>4, <3>5, <3>7
      <4>2. Means(x[i], heap, line, 2 + 4 * i)
        BY <4>1
      <4>3. QED
        BY <3>3, <4>2 DEF Means
    <3>10. QED
      BY <3>7, <3>8, <3>9
  <2>3. QED
    BY <1>1, <2>1, <2>2
<1>8. c = CallOf(line)
  <2>1. CallOf(line) = SelectCall(AttrOf(line[2]), line[4].text, [i \in 1 .. q |-> CondAt(line, 2 + 4 * i)])
    BY <1>3, <1>4, SelectCalls DEF q
  <2>2. said = [i \in 1 .. q |-> CondAt(line, 2 + 4 * i)]
    <3> HIDE DEF conds
    <3>1. QED
      BY <1>7 DEF said
  <2> HIDE DEF conds
  <2>3. QED
    BY <1>5, <2>1, <2>2
<1> HIDE DEF c, rules, conds
<1>9. QED
  BY <1>1, <1>2, <1>3, <1>7, <1>8, LineOver

LEMMA QuitTable ==
  ASSUME NEW s \in States, yydefact[s + 1] = 9
  PROVE  s = 6
BY DEF States, yydefact

LEMMA QuitStep ==
  ASSUME Inv, Running, reduce_quit
  PROVE  Obeys
<1>1. /\ result = "running" /\ Rule = 9 /\ result' = "quit"
      /\ yyss' = yyss /\ line' = line /\ call' = call
  BY DEF reduce_quit, parserVars
<1>2. /\ InStep(yyss, yyvs, yychar, yylval, heap, yyerrstatus, line)
      /\ Path(yyss) /\ Top = yyss[Len(yyss)] /\ Top \in States
      /\ Rule = yydefact[Top + 1] /\ yychar = YYEMPTY
  BY <1>1, Decided
<1>3. Top = 6 /\ yystos[6 + 1] = 9
  <2>1. yystos[6 + 1] = 9
    BY DEF yystos
  <2>2. QED
    BY <1>1, <1>2, <2>1, QuitTable
<1>4. Len(yyss) \in 1 .. Len(yyss) /\ Len(yyss) \in Nat
  BY <1>2, EmptySeq, LenProperties DEF Path
<1>5. Len(yyss) = 3
  <2>1. 6 \in States /\ Lowest[6 + 1] = 3 /\ Height[6 + 1] = 3
    BY DEF States, Lowest, Height
  <2>2. Lowest[Top + 1] <= Len(yyss) /\ Len(yyss) <= Height[Top + 1]
    BY <1>2, <1>4 DEF Path
  <2>3. Lowest[Top + 1] = 3 /\ Height[Top + 1] = 3
    BY <1>3, <2>1
  <2> DEFINE n == Len(yyss)
  <2>4. n \in Nat /\ 3 <= n /\ n <= 3
    BY <1>4, <2>2, <2>3
  <2> HIDE DEF n
  <2>5. n = 3
    BY <2>4
  <2>6. QED
    BY <2>5 DEF n
<1>6. Begun(yyss) /\ ~InError(yyss)
  <2>1. yyss[3] = 6
    BY <1>2, <1>3, <1>5
  <2>2. QED
    BY <1>5, <2>1 DEF Begun, InError
<1>7. ~Rejected(line)
  <2>1. SUFFICES ASSUME GivenUp(yyss, YYEMPTY, line)
                 PROVE  FALSE
    BY <1>2 DEF InStep
  <2>2. yyss = ErrorStack \/ yyss = Append(ErrorStack, 12)
    BY <2>1 DEF GivenUp
  <2>3. QED
    BY <1>6, <2>2, ErrorStacks
<1>8. Reads(yyss, yyvs, heap, line) /\ line \in Seq(Token)
  BY <1>2, <1>6, <1>7 DEF InStep, Follows, Consumed
<1>9. Len(line) \in Nat \ {0} /\ line[1].sym = 9
  <2>1. Len(line) \in Nat
    BY <1>8, LenProperties
  <2>2. Len(line) \in Nat \ {0} /\ line[1].sym = yystos[yyss[3] + 1]
    BY <1>2, <1>6, <1>8, <2>1, ReadEnds
  <2>3. QED
    BY <1>2, <1>3, <1>5, <2>2
<1>10. Quits(line)
  BY <1>9, Numbers DEF Quits
<1>11. GrammarQuit
  BY <1>1, <1>10 DEF GrammarQuit
<1>12. EndOfLine(line) => line' # << >>
  BY <1>1 DEF EndOfLine
<1>13. QED
  BY <1>1, <1>11, <1>12 DEF Obeys, Running, GrammarNext

-----------------------------------------------------------------------------
(* Every step of the parser *)

LEMMA StartRunning == Init => Running
<1> SUFFICES ASSUME Init PROVE Running
  OBVIOUS
<1>1. yyss = <<0>> /\ yychar = YYEMPTY /\ yyerrstatus = 0 /\ told = FALSE /\ line = << >>
  BY DEF Init, GrammarInit
<1>2. ~Begun(yyss) /\ ~InError(yyss) /\ ~Rejected(line)
  BY <1>1 DEF Begun, InError, Rejected
<1>3. Consumed(line, yychar) = << >> /\ line \in Seq(Token)
  BY <1>1 DEF Consumed
<1>4. InStep(yyss, yyvs, yychar, yylval, heap, yyerrstatus, line)
  BY <1>1, <1>2, <1>3 DEF InStep, Follows, Reads, YYEMPTY, YYEOF
<1>5. Reported(yyss, yychar, yyerrstatus, told, before, line)
  BY <1>1, <1>2 DEF Reported
<1>6. QED
  BY <1>4, <1>5 DEF Running

LEMMA StepObeys ==
  ASSUME Inv, Running, [Next]_vars
  PROVE  Obeys
<1>1. CASE UNCHANGED vars
  <2>1. Running'
    BY ZenonT(60), <1>1 DEF Running, vars, parserVars, InStep, Reported, Follows, GivenUp, Reads, Spells, Means
  <2>2. line' = line /\ UNCHANGED grammarVars
    BY <1>1 DEF vars, grammarVars
  <2>3. EndOfLine(line) => line' # << >>
    BY <2>2 DEF EndOfLine
  <2>4. QED
    BY <2>1, <2>2, <2>3 DEF Obeys
<1>2. CASE Next
  BY <1>2, LexStep, ShiftStep, EndStep, PlainStep, LineStep, QuitStep, LoadStep, SelectStep,
     ConditionStep, StarCountStep, AttributeStep, ComparatorStep, RecoverStep DEF Next, Step
<1>3. QED
  BY <1>1, <1>2

\* What is executed is the grammar's: each line once, at its end, with the
\* arguments that stand in it, never a line that has an error; a token that no
\* line could go on with rejects its line, and QUIT ends the program
\* (SqlParser.y, against the tables of SqlParser.tab.c).
THEOREM GrammarImplemented == FairSpec => ImplementsGrammar
<1>1. Init => Running /\ GrammarInit
  BY StartRunning DEF Init
<1>2. Inv /\ Running /\ [Next]_vars => Running' /\ [GrammarNext]_grammarVars
  BY StepObeys DEF Obeys
<1>3. Init => Inv
  BY InitInv
<1>4. Inv /\ [Next]_vars => Inv'
  BY StepInv
<1>5. QED
  BY <1>1, <1>2, <1>3, <1>4, PTL DEF FairSpec, ImplementsGrammar, GrammarSpec

-----------------------------------------------------------------------------
(* Names that are no attribute: reported while the stack holds them *)

Wrong(sym, v) ==
  \/ sym \in {33, 34} /\ v = WrongAttr
  \/ sym = 32 /\ v.attr = WrongAttr
  \/ sym = 31 /\ \E j \in DOMAIN v : v[j].attr = WrongAttr

WrongHeld(ss, vs) == Begun(ss) /\ \E i \in 3 .. Len(ss) : Wrong(yystos[ss[i] + 1], vs[i])

\* Of a command that may still be one of the grammar, all that was reported lies
\* on the stack.
NamesInv ==
  result = "running" /\ ~Rejected(line) /\ ~InError(yyss)
    => (misnamed <=> WrongHeld(yyss, yyvs))

\* Whether the right-hand side of rule r, the top of the stack, holds one
WrongArgs(r) == \E i \in 1 .. yyr2[r + 1] : Wrong(Symbol(r, i), Arg(r, i))

LEMMA TokensAreRight == ASSUME NEW sym \in 0 .. 24, NEW v PROVE ~Wrong(sym, v)
BY DEF Wrong

\* The places of the right-hand side are the last of the stack.
LEMMA ArgPlaces ==
  ASSUME Path(yyss), NEW r \in Reducible, yydefact[yyss[Len(yyss)] + 1] = r
  PROVE  /\ Len(yyss) \in Nat \ {0} /\ Len(yyss) - yyr2[r + 1] \in 1 .. Len(yyss)
         /\ yyr2[r + 1] \in 0 .. 7
         /\ \A i \in 1 .. yyr2[r + 1] :
              /\ yystos[yyss[Len(yyss) - yyr2[r + 1] + i] + 1] = Symbol(r, i)
              /\ yyvs[Len(yyss) - yyr2[r + 1] + i] = Arg(r, i)
<1>1. /\ Len(yyss) - yyr2[r + 1] \in 1 .. Len(yyss) /\ Len(yyss) \in Nat \ {0}
      /\ \A i \in 1 .. yyr2[r + 1] : yyss[Len(yyss) - yyr2[r + 1] + i] = Handle(r, i)
  BY HandleOnTop, EmptySeq, LenProperties DEF Path
<1>2. yyr2[r + 1] \in 0 .. 7
  BY HandleLengths
<1>3. QED
  BY <1>1, <1>2, Zenon DEF Symbol, Arg, Rhs

\* A rule inside a command: what the new symbol holds is what its parts held,
\* or is reported now.
LEMMA NamesReduce ==
  ASSUME Inv, Running, NamesInv, NEW rules \in SUBSET Inner, NEW v \in Value,
         Reduce(rules, v), UNCHANGED <<line, result>>,
         \/ /\ Wrong(yyr1[Rule + 1], v) <=> WrongArgs(Rule)
            /\ misnamed' = misnamed
         \/ /\ ~WrongArgs(Rule)
            /\ misnamed' <=> misnamed \/ Wrong(yyr1[Rule + 1], v)
  PROVE  NamesInv'
<1> DEFINE n == Len(yyss)
           m == Len(yyss) - yyr2[Rule + 1]
           r == Rule
<1>1. rules \in SUBSET Reducible
  BY InnerTable
<1>2. /\ r \in Inner /\ r \in Reducible /\ yydefact[yyss[n] + 1] = r
      /\ Path(yyss) /\ Typed(yyss, yyvs) /\ n \in Nat \ {0} /\ result = "running"
      /\ yyss' = Reduced(yyss, r) /\ yyvs' = ReducedTo(yyss, yyvs, r, v)
      /\ Rejected(line) => InError(yyss) /\ r = 7
      /\ ~Rejected(line) => ~InError(yyss)
  BY <1>1, Reduces
<1>3. ~Rejected(line) /\ ~InError(yyss)
  BY <1>2 DEF Inner
<1>4. Begun(yyss)
  BY <1>2, Within
<1>5. /\ m \in 1 .. n /\ yyr2[r + 1] \in 0 .. 7
      /\ \A i \in 1 .. yyr2[r + 1] : yystos[yyss[m + i] + 1] = Symbol(r, i) /\ yyvs[m + i] = Arg(r, i)
  BY <1>2, ArgPlaces
<1>6. /\ Path(yyss') /\ Len(yyss') = m + 1
      /\ \A i \in 1 .. m : yyss'[i] = yyss[i]
      /\ yystos[yyss'[m + 1] + 1] = yyr1[r + 1]
  BY <1>2, ReducePath
<1>7. m >= 3
  <2>1. yyss[m] \in Base[r] /\ \A b \in Base[r] : Lowest[b + 1] >= 3
    BY <1>2, HandleOnTop, InnerTable
  <2>2. Lowest[yyss[m] + 1] <= m /\ Lowest[yyss[m] + 1] \in Nat
    <3>1. yyss[m] \in States
      BY <1>2, <1>5, ElementOfSeq DEF Path
    <3>2. Lowest[yyss[m] + 1] <= m
      BY <1>2, <1>5, Zenon DEF Path
    <3>3. QED
      BY <3>1, <3>2, HeightBound
  <2>3. QED
    BY <1>5, <2>1, <2>2
<1>8. /\ \A i \in 1 .. m : yyvs'[i] = yyvs[i]
      /\ yyvs'[m + 1] = v
  <2>1. yyvs \in Seq(Value) /\ Len(yyvs) = n
    BY <1>2 DEF Typed
  <2>2. yyvs' = Append(SubSeq(yyvs, 1, m), v)
    BY <1>2 DEF ReducedTo
  <2>3. QED
    BY <1>2, <1>5, <2>1, <2>2, SubSeqProperties, AppendProperties
<1>9. Begun(yyss')
  BY <1>4, <1>5, <1>6, <1>7 DEF Begun
<1> HIDE DEF m, n, r
<1> DEFINE P == \E i \in 3 .. m : Wrong(yystos[yyss[i] + 1], yyvs[i])
           A == \E i \in 1 .. yyr2[r + 1] : Wrong(Symbol(r, i), Arg(r, i))
<1>10. WrongHeld(yyss, yyvs) <=> P \/ A
  <2>1. n = m + yyr2[r + 1] /\ m \in Nat /\ n \in Nat /\ yyr2[r + 1] \in Nat
    BY <1>2, <1>5 DEF m, n, r
  <2>2. \A i \in 3 .. n : i \in 3 .. m \/ (i - m \in 1 .. yyr2[r + 1] /\ m + (i - m) = i)
    BY <2>1
  <2>3. \A i \in 1 .. yyr2[r + 1] : m + i \in 3 .. n
    BY <1>7, <2>1
  <2>4. \A i \in 3 .. m : i \in 3 .. n
    BY <2>1
  <2>5. WrongHeld(yyss, yyvs) <=> \E i \in 3 .. n : Wrong(yystos[yyss[i] + 1], yyvs[i])
    BY <1>4 DEF WrongHeld, n
  <2>6. ASSUME NEW i \in 3 .. n, Wrong(yystos[yyss[i] + 1], yyvs[i])
        PROVE  P \/ A
    <3>1. CASE i \in 3 .. m
      BY <2>6, <3>1
    <3>2. CASE i - m \in 1 .. yyr2[r + 1] /\ m + (i - m) = i
      <4>1. yystos[yyss[i] + 1] = Symbol(r, i - m) /\ yyvs[i] = Arg(r, i - m)
        BY <1>5, <3>2
      <4>2. QED
        BY <2>6, <3>2, <4>1
    <3>3. QED
      BY <2>2, <3>1, <3>2
  <2>7. A => \E i \in 3 .. n : Wrong(yystos[yyss[i] + 1], yyvs[i])
    BY <1>5, <2>3
  <2>8. P => \E i \in 3 .. n : Wrong(yystos[yyss[i] + 1], yyvs[i])
    BY <2>4
  <2> HIDE DEF P, A
  <2>9. QED
    BY <2>5, <2>6, <2>7, <2>8
<1>11. WrongHeld(yyss, yyvs)' <=> P \/ Wrong(yyr1[r + 1], v)
  <2>1. m \in Nat /\ 3 .. m + 1 = (3 .. m) \cup {m + 1} /\ 3 .. m \subseteq 1 .. m
    BY <1>2, <1>5, <1>7 DEF m, n
  <2>2. WrongHeld(yyss, yyvs)' <=> \E i \in 3 .. m + 1 : Wrong(yystos[yyss'[i] + 1], yyvs'[i])
    BY <1>6, <1>9 DEF WrongHeld
  <2>3. QED
    BY <1>6, <1>8, <2>1, <2>2
<1>12. A <=> WrongArgs(r)
  BY DEF WrongArgs
<1> HIDE DEF P, A
<1>13. misnamed <=> P \/ A
  BY <1>2, <1>3, <1>10 DEF NamesInv
<1>14. misnamed \in BOOLEAN /\ (misnamed' = misnamed => (misnamed' <=> misnamed))
  BY DEF Inv, Rest
<1>15. misnamed' <=> P \/ Wrong(yyr1[r + 1], v)
  BY <1>12, <1>13, <1>14 DEF r
<1>16. QED
  BY <1>11, <1>15 DEF NamesInv

\* A line that was executed: nothing is held, and nothing is known of the next.
LEMMA NamesExecuted ==
  ASSUME Inv, Running, NEW rules \in SUBSET Outer, NEW v, Reduce(rules, v), NEW c, Executed(c)
  PROVE  NamesInv'
<1>1. rules \in SUBSET Reducible /\ misnamed' = FALSE
  BY OuterTable DEF Executed
<1>2. Path(yyss) /\ Rule \in Outer /\ yydefact[yyss[Len(yyss)] + 1] = Rule
      /\ yyss' = Reduced(yyss, Rule)
  BY <1>1, Reduces
<1>3. ~Begun(yyss')
  BY <1>2, OuterLeaves
<1>4. QED
  BY <1>1, <1>3 DEF NamesInv, WrongHeld

ExecutedRules == {8, 10, 11, 12, 13}

LEMMA ExecutedTable ==
  ASSUME NEW r \in ExecutedRules
  PROVE  /\ r \in Outer /\ r \in Reducible /\ r # 7 /\ r \notin {2, 3}
         /\ yyr2[r + 1] \in 1 .. 7
         /\ r \in {12, 13} <=> yyr2[r + 1] >= 5 /\ Symbol(r, 2) = 33
         /\ r = 13 <=> yyr2[r + 1] = 7 /\ Symbol(r, 6) = 31
         /\ \A i \in 1 .. yyr2[r + 1] :
              \/ Symbol(r, i) \in 0 .. 24 \/ Symbol(r, i) = 36
              \/ i = 2 /\ r \in {12, 13}
              \/ i = 6 /\ r = 13
         /\ Handle(r, 1) \in {4, 5, 6, 7}
<1>1. CASE r = 8
  BY <1>1 DEF Outer, Reducible, yyr2, Symbol, Handle, Handles, yystos
<1>2. CASE r = 10
  BY <1>2 DEF Outer, Reducible, yyr2, Symbol, Handle, Handles, yystos
<1>3. CASE r = 11
  BY <1>3 DEF Outer, Reducible, yyr2, Symbol, Handle, Handles, yystos
<1>4. CASE r = 12
  BY <1>4 DEF Outer, Reducible, yyr2, Symbol, Handle, Handles, yystos
<1>5. CASE r = 13
  BY <1>5 DEF Outer, Reducible, yyr2, Symbol, Handle, Handles, yystos
<1>6. QED
  BY <1>1, <1>2, <1>3, <1>4, <1>5 DEF ExecutedRules

\* At the end of a line the right-hand side is all that is held.
LEMMA HeldAtEnd ==
  ASSUME Inv, Running, NamesInv, NEW rules \in SUBSET ExecutedRules, NEW v, Reduce(rules, v)
  PROVE  /\ ~Rejected(line)
         /\ misnamed <=> \/ Rule \in {12, 13} /\ Arg(Rule, 2) = WrongAttr
                         \/ Rule = 13 /\ \E j \in DOMAIN Arg(13, 6) : Arg(13, 6)[j].attr = WrongAttr
<1> DEFINE r == Rule
           n == Len(yyss)
           l == yyr2[Rule + 1]
<1>1. rules \in SUBSET Reducible /\ rules \in SUBSET Outer
  BY ExecutedTable
<1>2. /\ r \in ExecutedRules /\ yydefact[yyss[n] + 1] = r /\ Path(yyss) /\ result = "running"
      /\ Rejected(line) => r = 7
      /\ ~Rejected(line) => ~InError(yyss)
  BY <1>1, Reduces
<1>3. ~Rejected(line) /\ ~InError(yyss)
  BY <1>2, ExecutedTable
<1>4. misnamed <=> WrongHeld(yyss, yyvs)
  BY <1>2, <1>3 DEF NamesInv
<1>5. /\ n - l = 2 /\ l \in 1 .. 7 /\ n \in Nat
      /\ \A i \in 1 .. l : yystos[yyss[2 + i] + 1] = Symbol(r, i) /\ yyvs[2 + i] = Arg(r, i)
      /\ yyss[3] = Handle(r, 1)
  <2>1. r \in Outer /\ r \in Reducible /\ r \notin {2, 3} /\ l \in 1 .. 7
    BY <1>2, ExecutedTable
  <2>2. n - l = 2 /\ n \in Nat
    BY <1>2, <2>1, OuterLeaves, ArgPlaces
  <2>3. \A i \in 1 .. l : yystos[yyss[n - l + i] + 1] = Symbol(r, i) /\ yyvs[n - l + i] = Arg(r, i)
    BY <1>2, <2>1, ArgPlaces
  <2>4. \A i \in 1 .. l : yyss[n - l + i] = Handle(r, i)
    BY <1>2, <2>1, HandleOnTop
  <2> HIDE DEF n, l, r
  <2>5. 1 \in 1 .. l /\ 2 + 1 = 3
    BY <2>1
  <2>6. yyss[2 + 1] = Handle(r, 1)
    BY <2>2, <2>4, <2>5
  <2>7. QED
    BY <2>1, <2>2, <2>3, <2>5, <2>6
<1> HIDE DEF n, l
<1>6. Begun(yyss)
  BY <1>2, <1>5, ExecutedTable DEF Begun, n
<1>7. WrongHeld(yyss, yyvs) <=> \E i \in 1 .. l : Wrong(Symbol(r, i), Arg(r, i))
  <2>1. \A i \in 3 .. n : i - 2 \in 1 .. l /\ 2 + (i - 2) = i
    BY <1>5
  <2>2. \A i \in 1 .. l : 2 + i \in 3 .. n
    BY <1>5
  <2>3. WrongHeld(yyss, yyvs) <=> \E i \in 3 .. n : Wrong(yystos[yyss[i] + 1], yyvs[i])
    BY <1>6 DEF WrongHeld, n
  <2>4. ASSUME NEW i \in 3 .. n, Wrong(yystos[yyss[i] + 1], yyvs[i])
        PROVE  \E k \in 1 .. l : Wrong(Symbol(r, k), Arg(r, k))
    <3>1. yystos[yyss[i] + 1] = Symbol(r, i - 2) /\ yyvs[i] = Arg(r, i - 2)
      BY <1>5, <2>1
    <3>2. QED
      BY <2>1, <2>4, <3>1
  <2>5. ASSUME NEW i \in 1 .. l, Wrong(Symbol(r, i), Arg(r, i))
        PROVE  \E k \in 3 .. n : Wrong(yystos[yyss[k] + 1], yyvs[k])
    BY <1>5, <2>2, <2>5
  <2>6. QED
    BY <2>3, <2>4, <2>5
<1>8. \A i \in 1 .. l : \/ ~Wrong(Symbol(r, i), Arg(r, i))
                        \/ i = 2 /\ r \in {12, 13}
                        \/ i = 6 /\ r = 13
  <2>1. ASSUME NEW i \in 1 .. l, Symbol(r, i) \in 0 .. 24 \/ Symbol(r, i) = 36
        PROVE  ~Wrong(Symbol(r, i), Arg(r, i))
    BY <2>1 DEF Wrong
  <2>2. QED
    BY <1>2, <2>1, ExecutedTable DEF l
<1>9. r \in {12, 13} => 2 \in 1 .. l /\ (Wrong(Symbol(r, 2), Arg(r, 2)) <=> Arg(r, 2) = WrongAttr)
  <2>1. r \in {12, 13} => l >= 5 /\ Symbol(r, 2) = 33
    BY <1>2, ExecutedTable DEF l
  <2>2. QED
    BY <1>5, <2>1 DEF Wrong
<1>10. r = 13 => /\ 6 \in 1 .. l
                 /\ Wrong(Symbol(r, 6), Arg(r, 6))
                      <=> \E j \in DOMAIN Arg(13, 6) : Arg(13, 6)[j].attr = WrongAttr
  <2>1. r = 13 => l = 7 /\ Symbol(r, 6) = 31
    BY <1>2, ExecutedTable DEF l
  <2>2. QED
    BY <1>5, <2>1 DEF Wrong
<1>11. (\E i \in 1 .. l : Wrong(Symbol(r, i), Arg(r, i)))
         <=> \/ r \in {12, 13} /\ Arg(r, 2) = WrongAttr
             \/ r = 13 /\ \E j \in DOMAIN Arg(13, 6) : Arg(13, 6)[j].attr = WrongAttr
  <2> HIDE DEF r
  <2>1. QED
    BY <1>8, <1>9, <1>10, Zenon
<1>12. QED
  BY <1>3, <1>4, <1>7, <1>11

\* What was reported of the names of a line that is executed
NamesTold == EndOfLine(line) /\ line' = << >> /\ ~Rejected(line) => (misnamed <=> Misnames(call'))

LEMMA NamesOfLine ==
  ASSUME Inv, Running, NamesInv, reduce_line
  PROVE  NamesInv' /\ NamesTold
<1> DEFINE v == Val(Rule)
<1>1. Reduce({7, 8}, v) /\ Rule \in {7, 8} /\ Executed(NoCall)
  BY DEF reduce_line, Reduce
<1> HIDE DEF v
<1>2. {7, 8} \in SUBSET Outer /\ {7, 8} \in SUBSET Reducible
  BY DEF Outer, Reducible
<1>3. NamesInv'
  BY <1>1, <1>2, NamesExecuted
<1>4. CASE Rejected(line)
  BY <1>3, <1>4 DEF NamesTold
<1>5. CASE ~Rejected(line)
  <2>1. Rule = 8
    BY <1>1, <1>2, <1>5, Reduces
  <2>2. {8} \in SUBSET ExecutedRules /\ Reduce({8}, v)
    BY <1>1, <2>1 DEF ExecutedRules, Reduce
  <2>3. ~misnamed
    BY <2>1, <2>2, HeldAtEnd
  <2>4. call' = NoCall /\ ~Misnames(NoCall)
    BY <1>1 DEF Executed, Misnames, NoCall
  <2>5. QED
    BY <1>3, <2>3, <2>4 DEF NamesTold
<1>6. QED
  BY <1>4, <1>5

LEMMA NamesOfLoad ==
  ASSUME Inv, Running, NamesInv, reduce_load
  PROVE  NamesInv' /\ NamesTold
<1> DEFINE v == Val(Rule)
           c == LoadCall(heap[Arg(Rule, 2)], heap[Arg(Rule, 4)], Rule = 11)
<1>1. Reduce({10, 11}, v) /\ Rule \in {10, 11} /\ Executed(c)
  BY DEF reduce_load, Reduce
<1>2. call' = c /\ ~Misnames(c)
  BY <1>1 DEF Executed, Misnames, LoadCall
<1> HIDE DEF v, c
<1>3. {10, 11} \in SUBSET Outer /\ {10, 11} \in SUBSET ExecutedRules
  BY DEF Outer, ExecutedRules
<1>4. NamesInv'
  BY <1>1, <1>3, NamesExecuted
<1>5. ~misnamed
  BY <1>1, <1>3, HeldAtEnd
<1>6. QED
  BY <1>2, <1>4, <1>5 DEF NamesTold

LEMMA NamesOfSelect ==
  ASSUME Inv, Running, NamesInv, reduce_select
  PROVE  NamesInv' /\ NamesTold
<1> DEFINE v == Val(Rule)
           conds == IF Rule = 12 THEN << >> ELSE Arg(13, 6)
           named == [i \in DOMAIN conds |-> [conds[i] EXCEPT !.value = heap[@]]]
           c == SelectCall(Arg(Rule, 2), heap[Arg(Rule, 4)], named)
<1>1. Reduce({12, 13}, v) /\ Rule \in {12, 13} /\ Executed(c)
  BY DEF reduce_select, Reduce
<1>2. {12, 13} \in SUBSET Outer /\ {12, 13} \in SUBSET ExecutedRules /\ {12, 13} \in SUBSET Reducible
  BY DEF Outer, ExecutedRules, Reducible
<1>3. Rule = 13 => Arg(13, 6) \in Seq(Conds)
  <2>1. \A i \in 1 .. yyr2[Rule + 1] : Fits(Symbol(Rule, i), Arg(Rule, i))
    BY <1>1, <1>2, Args
  <2>2. Rule = 13 => 6 \in 1 .. yyr2[Rule + 1] /\ Symbol(Rule, 6) = 31
    BY SymbolTable
  <2>3. QED
    BY <2>1, <2>2 DEF Fits
<1>4. \A i \in DOMAIN conds : conds[i].attr = named[i].attr
  <2>1. \A i \in DOMAIN conds : conds[i] \in Conds
    <3>1. CASE Rule = 12
      BY <3>1
    <3>2. CASE Rule = 13
      <4>1. conds \in Seq(Conds)
        BY <1>3, <3>2
      <4> HIDE DEF conds
      <4>2. QED
        BY <4>1, ElementOfSeq, LenProperties
    <3>3. QED
      BY <1>1, <3>1, <3>2
  <2> HIDE DEF conds
  <2>2. QED
    BY <2>1 DEF Conds
<1>5. DOMAIN named = DOMAIN conds
  OBVIOUS
<1>6. Misnames(c) <=> \/ Arg(Rule, 2) = WrongAttr
                      \/ \E i \in DOMAIN conds : conds[i].attr = WrongAttr
  <2> HIDE DEF conds, named
  <2>1. c.op = "select" /\ c.attr = Arg(Rule, 2) /\ c.conds = named
    BY DEF SelectCall
  <2> HIDE DEF c
  <2>2. QED
    BY <1>4, <1>5, <2>1 DEF Misnames
<1>7. (\E i \in DOMAIN conds : conds[i].attr = WrongAttr)
         <=> Rule = 13 /\ \E j \in DOMAIN Arg(13, 6) : Arg(13, 6)[j].attr = WrongAttr
  BY <1>1
<1> HIDE DEF v, c, conds, named
<1>8. NamesInv'
  BY <1>1, <1>2, NamesExecuted
<1>9. misnamed <=> \/ Rule \in {12, 13} /\ Arg(Rule, 2) = WrongAttr
                   \/ Rule = 13 /\ \E j \in DOMAIN Arg(13, 6) : Arg(13, 6)[j].attr = WrongAttr
  BY <1>1, <1>2, HeldAtEnd
<1>10. misnamed <=> Misnames(c)
  BY <1>1, <1>6, <1>7, <1>9
<1>11. call' = c
  BY <1>1 DEF Executed
<1>12. QED
  BY <1>8, <1>10, <1>11 DEF NamesTold

\* A line that goes on is not over.
LEMMA NamesSilent == line' = line => NamesTold
BY DEF NamesTold, EndOfLine

LEMMA NamesOfRules ==
  ASSUME Inv, Running, NamesInv,
         reduce_condition \/ reduce_star_count \/ reduce_attribute \/ reduce_comparator
  PROVE  NamesInv'
<1>1. CASE reduce_condition
  <2> DEFINE v == CASE Rule = 14 -> <<Arg(14, 1)>>
                    [] Rule = 15 -> Append(Arg(15, 1), Arg(15, 3))
                    [] Rule = 16 -> [attr |-> Arg(16, 1), comp |-> Arg(16, 2), value |-> Arg(16, 3)]
  <2>1. /\ Reduce({14, 15, 16}, v) /\ Rule \in {14, 15, 16} /\ misnamed' = misnamed
        /\ UNCHANGED <<line, result>>
    BY <1>1 DEF reduce_condition, Reduce
  <2>2. Rule \in Reducible /\ {14, 15, 16} \in SUBSET Inner
    BY <2>1 DEF Reducible, Inner
  <2>3. \A i \in 1 .. yyr2[Rule + 1] : Fits(Symbol(Rule, i), Arg(Rule, i))
    BY <2>2, Args
  <2>4. v \in Value /\ (Wrong(yyr1[Rule + 1], v) <=> WrongArgs(Rule))
    <3>1. CASE Rule = 14
      <4>1. yyr2[15] = 1 /\ Symbol(14, 1) = 32 /\ yyr1[15] = 31 /\ Arg(14, 1) \in Conds
        <5>1. yyr2[14 + 1] = 1 /\ Symbol(14, 1) = 32 /\ yyr1[15] = 31
          BY SymbolTable, RuleTable
        <5>2. Fits(Symbol(14, 1), Arg(14, 1))
          BY <2>3, <3>1, <5>1
        <5>3. QED
          BY <5>1, <5>2 DEF Fits
      <4>2. v = <<Arg(14, 1)>>
        BY <3>1
      <4>3. WrongArgs(14) <=> Arg(14, 1).attr = WrongAttr
        BY <4>1 DEF WrongArgs, Wrong
      <4>4. Wrong(31, <<Arg(14, 1)>>) <=> Arg(14, 1).attr = WrongAttr
        BY DEF Wrong
      <4>5. <<Arg(14, 1)>> \in Seq(Conds)
        BY <4>1
      <4>6. QED
        BY <3>1, <4>1, <4>2, <4>3, <4>4, <4>5 DEF Value
    <3>2. CASE Rule = 15
      <4> DEFINE s == Arg(15, 1)
                 e == Arg(15, 3)
      <4>1. /\ yyr2[16] = 3 /\ Symbol(15, 1) = 31 /\ Symbol(15, 3) = 32 /\ yyr1[16] = 31
            /\ s \in Seq(Conds) /\ e \in Conds
        <5>1. yyr2[15 + 1] = 3 /\ Symbol(15, 1) = 31 /\ Symbol(15, 3) = 32 /\ yyr1[16] = 31
          BY SymbolTable, RuleTable
        <5>2. Fits(Symbol(15, 1), s) /\ Fits(Symbol(15, 3), e)
          BY <2>3, <3>2, <5>1
        <5>3. QED
          BY <5>1, <5>2 DEF Fits
      <4>2. v = Append(s, e)
        BY <3>2
      <4>3. Symbol(15, 2) \in 0 .. 24
        BY DEF Symbol, Handle, Handles, yystos
      <4>4. WrongArgs(15) <=> (\E j \in DOMAIN s : s[j].attr = WrongAttr) \/ e.attr = WrongAttr
        <5>1. WrongArgs(15) <=> \/ Wrong(31, s) \/ Wrong(32, e)
          <6>1. WrongArgs(15) <=> \E i \in 1 .. 3 : Wrong(Symbol(15, i), Arg(15, i))
            BY <4>1 DEF WrongArgs
          <6>2. \A i \in 1 .. 3 : i \in {1, 2, 3}
            OBVIOUS
          <6>3. ~Wrong(Symbol(15, 2), Arg(15, 2))
            BY <4>3, TokensAreRight
          <6>4. QED
            BY <4>1, <6>1, <6>2, <6>3
        <5>2. QED
          BY <5>1 DEF Wrong
      <4> HIDE DEF s, e
      <4>5. /\ Append(s, e) \in Seq(Conds) /\ DOMAIN Append(s, e) = 1 .. Len(s) + 1
            /\ DOMAIN s = 1 .. Len(s) /\ Len(s) \in Nat
            /\ \A j \in 1 .. Len(s) : Append(s, e)[j] = s[j]
            /\ Append(s, e)[Len(s) + 1] = e
        BY <4>1, AppendProperties, LenProperties
      <4>6. Wrong(31, Append(s, e)) <=> (\E j \in DOMAIN s : s[j].attr = WrongAttr) \/ e.attr = WrongAttr
        <5>1. Wrong(31, Append(s, e)) <=> \E j \in 1 .. Len(s) + 1 : Append(s, e)[j].attr = WrongAttr
          BY <4>5 DEF Wrong
        <5>2. 1 .. Len(s) + 1 = (1 .. Len(s)) \cup {Len(s) + 1}
          BY <4>5
        <5>3. QED
          BY <4>5, <5>1, <5>2
      <4> HIDE DEF v
      <4>7. QED
        BY <3>2, <4>1, <4>2, <4>4, <4>5, <4>6 DEF Value
    <3>3. CASE Rule = 16
      <4>1. /\ yyr2[17] = 3 /\ Symbol(16, 1) = 34 /\ Symbol(16, 2) = 37 /\ Symbol(16, 3) = 35
            /\ yyr1[17] = 32
        BY SymbolTable, RuleTable
      <4>2. Arg(16, 1) \in 0 .. 2 /\ Arg(16, 2) \in Comparators /\ Arg(16, 3) \in String
        <5>1. \A i \in 1 .. 3 : Fits(Symbol(16, i), Arg(16, i))
          BY <2>3, <3>3, <4>1
        <5>2. Fits(34, Arg(16, 1)) /\ Fits(37, Arg(16, 2)) /\ Fits(35, Arg(16, 3))
          BY <4>1, <5>1
        <5>3. QED
          BY <5>2 DEF Fits
      <4>3. v = [attr |-> Arg(16, 1), comp |-> Arg(16, 2), value |-> Arg(16, 3)]
        BY <3>3
      <4> HIDE DEF v
      <4>4. v \in Value /\ v.attr = Arg(16, 1)
        BY <4>2, <4>3 DEF Value, Conds
      <4>5. WrongArgs(16) <=> Arg(16, 1) = WrongAttr
        BY <4>1 DEF WrongArgs, Wrong
      <4>6. QED
        BY <3>3, <4>1, <4>4, <4>5 DEF Wrong
    <3>4. QED
      BY <2>1, <3>1, <3>2, <3>3
  <2> HIDE DEF v
  <2>5. QED
    BY <2>1, <2>2, <2>4, NamesReduce
<1>2. CASE reduce_star_count
  <2> DEFINE v == IF Rule = 18 THEN 3 ELSE 4
  <2>1. /\ Reduce({18, 19}, v) /\ Rule \in {18, 19} /\ misnamed' = misnamed
        /\ UNCHANGED <<line, result>>
    BY <1>2 DEF reduce_star_count, Reduce
  <2>2. {18, 19} \in SUBSET Inner /\ v \in Value
    BY DEF Inner, Value
  <2>3. ~WrongArgs(Rule) /\ ~Wrong(yyr1[Rule + 1], v)
    <3>1. yyr2[Rule + 1] = 1 /\ Symbol(Rule, 1) \in 0 .. 24 /\ yyr1[Rule + 1] = 33
      BY <2>1, RenameTable, RuleTable
    <3>2. ~Wrong(33, v)
      BY DEF Wrong, WrongAttr
    <3> HIDE DEF v
    <3>3. QED
      BY <3>1, <3>2, TokensAreRight DEF WrongArgs
  <2> HIDE DEF v
  <2>4. QED
    BY <2>1, <2>2, <2>3, NamesReduce
<1>3. CASE reduce_attribute
  <2> DEFINE v == AttrOf([sym |-> T_ID, text |-> heap[Arg(20, 1)]])
  <2>1. /\ Reduce({20}, v) /\ Rule = 20 /\ misnamed' = (misnamed \/ v = WrongAttr)
        /\ UNCHANGED <<line, result>>
    BY <1>3 DEF reduce_attribute, Reduce
  <2>2. {20} \in SUBSET Inner /\ v \in Value
    BY DEF Inner, Value, AttrOf, WrongAttr
  <2> HIDE DEF v
  <2>3. ~WrongArgs(20)
    BY SymbolTable, TokensAreRight DEF WrongArgs, T_ID
  <2>4. Wrong(yyr1[Rule + 1], v) <=> v = WrongAttr
    BY <2>1, RuleTable DEF Wrong
  <2>5. QED
    BY <2>1, <2>2, <2>3, <2>4, NamesReduce
<1>4. CASE reduce_comparator
  <2>1. /\ Reduce(24 .. 29, Comp(Rule)) /\ Rule \in 24 .. 29 /\ misnamed' = misnamed
        /\ UNCHANGED <<line, result>>
    BY <1>4 DEF reduce_comparator, Reduce
  <2>2. 24 .. 29 \in SUBSET Inner /\ Comp(Rule) \in Value
    BY <2>1 DEF Inner, Value, Comp, Comparators
  <2>3. ~WrongArgs(Rule) /\ ~Wrong(yyr1[Rule + 1], Comp(Rule))
    <3>1. yyr2[Rule + 1] = 1 /\ Symbol(Rule, 1) \in 0 .. 24 /\ yyr1[Rule + 1] = 37
      BY <2>1, RenameTable, RuleTable
    <3>2. QED
      BY <3>1, TokensAreRight DEF WrongArgs, Wrong
  <2>4. QED
    BY <2>1, <2>2, <2>3, NamesReduce
<1>5. QED
  BY <1>1, <1>2, <1>3, <1>4

LEMMA NamesOfPlain ==
  ASSUME Inv, Running, NamesInv, reduce_plain
  PROVE  NamesInv'
<1> DEFINE v == Val(Rule)
           rules == {2, 3, 4, 5, 6, 17, 21, 22, 23}
<1>1. /\ Reduce(rules, v) /\ Rule \in rules /\ misnamed' = misnamed
      /\ UNCHANGED <<line, result>>
  BY DEF reduce_plain, Reduce
<1> HIDE DEF v
<1>2. rules \in SUBSET Reducible
  BY DEF Reducible
<1>3. CASE Rule \in {2, 3, 4, 5, 6}
  <2>1. /\ yydefact[yyss[Len(yyss)] + 1] = Rule /\ Path(yyss) /\ result = "running"
        /\ yyss' = Reduced(yyss, Rule)
        /\ Rejected(line) => Rule = 7
        /\ ~Rejected(line) => ~InError(yyss)
    <3> HIDE DEF rules
    <3>1. QED
      BY <1>1, <1>2, Reduces
  <2>2. ~Begun(yyss)
    BY <1>3, <2>1, Between
  <2>3. ~Begun(yyss')
    <3>1. Rule \in Outer
      BY <1>3 DEF Outer
    <3>2. QED
      BY <2>1, <3>1, OuterLeaves
  <2>4. ~misnamed
    BY <1>3, <2>1, <2>2 DEF NamesInv, WrongHeld
  <2>5. QED
    BY <1>1, <2>3, <2>4 DEF NamesInv, WrongHeld
<1>4. CASE Rule \in {17, 21, 22, 23}
  <2>1. Reduce({17, 21, 22, 23}, v) /\ {17, 21, 22, 23} \in SUBSET Inner
    BY <1>1, <1>4 DEF Reduce, Inner
  <2>2. v \in Value /\ v = Arg(Rule, 1)
    <3>1. Rule \in Reducible /\ Rule # 3
      BY <1>4 DEF Reducible
    <3>2. QED
      BY <3>1, Args DEF v
  <2>3. Wrong(yyr1[Rule + 1], v) <=> WrongArgs(Rule)
    <3>1. CASE Rule = 17
      <4>1. yyr1[18] = 33 /\ yyr2[18] = 1 /\ Symbol(17, 1) = 34
        BY RuleTable, SymbolTable
      <4>2. WrongArgs(17) <=> Wrong(34, Arg(17, 1))
        BY <4>1 DEF WrongArgs
      <4>3. QED
        BY <2>2, <3>1, <4>1, <4>2 DEF Wrong
    <3>2. CASE Rule \in {21, 22, 23}
      <4>1. yyr1[Rule + 1] \in {35, 36} /\ yyr2[Rule + 1] = 1 /\ Symbol(Rule, 1) \in 0 .. 24
        BY <3>2, RuleTable, SymbolTable DEF T_INTEGER, T_STRING, T_ID
      <4>2. QED
        BY <4>1, TokensAreRight DEF WrongArgs, Wrong
    <3>3. QED
      BY <1>4, <3>1, <3>2
  <2>4. QED
    BY <1>1, <2>1, <2>2, <2>3, NamesReduce
<1>5. QED
  BY <1>1, <1>3, <1>4

\* A token is read only while the line is not over, and does not mend a line.
LEMMA LexBegins ==
  ASSUME Inv, Running, yylex
  PROVE  ~EndOfLine(line) /\ (Rejected(line) => Rejected(line'))
<1>1. result = "running" /\ Waits
  BY DEF yylex
<1>2. /\ InStep(yyss, yyvs, yychar, yylval, heap, yyerrstatus, line)
      /\ Path(yyss) /\ Typed(yyss, yyvs) /\ Top = yyss[Len(yyss)] /\ Top \in States
      /\ Top \in Asking /\ yychar = YYEMPTY
  BY <1>1, Decided
<1>3. PICK t \in Token : IF t.sym = YYEOF THEN line' = line ELSE line' = Extend(line, t)
  BY DEF yylex
<1>4. CASE Rejected(line)
  <2>1. GivenUp(yyss, YYEMPTY, line)
    BY <1>2, <1>4 DEF InStep
  <2>2. ~Viable(Append(line, t))
    BY <1>4, <2>1, Spoiled
  <2>3. ~EndOfLine(line)
    <3>1. yyss # Append(ErrorStack, 12)
      BY <1>2, ErrorStacks DEF Asking
    <3>2. QED
      BY <2>1, <3>1 DEF GivenUp
  <2>4. line' = line \/ line' = Spoils(t)
    BY <1>3, <2>2 DEF Extend, Spoils
  <2>5. Rejected(Spoils(t))
    BY DEF Spoils, Rejected
  <2>6. QED
    BY <1>4, <2>3, <2>4, <2>5
<1>5. CASE ~Rejected(line)
  <2>1. /\ line \in Seq(Token) /\ (line # << >> => Viable(line)) /\ ~InError(yyss)
        /\ Reads(yyss, yyvs, heap, line)
    BY <1>2, <1>5 DEF InStep, Follows, Consumed, YYEMPTY, YYEOF
  <2>2. Len(yyss) >= 8 /\ yyss[8] = 28 => Len(yyvs[8]) \in Nat \ {0}
    BY <1>2, CondCount
  <2>3. ~EndOfLine(line)
    BY <1>2, <2>1, <2>2, Decide
  <2>4. QED
    BY <1>5, <2>3
<1>6. QED
  BY <1>4, <1>5

LEMMA NamesOfLex ==
  ASSUME Inv, Running, NamesInv, yylex
  PROVE  NamesInv' /\ NamesTold
<1>1. UNCHANGED <<yyss, yyvs, misnamed, result>>
  BY DEF yylex
<1>2. ~EndOfLine(line) /\ (Rejected(line) => Rejected(line'))
  BY LexBegins
<1>3. QED
  BY <1>1, <1>2 DEF NamesInv, NamesTold

LEMMA NamesOfShift ==
  ASSUME Inv, Running, NamesInv, shift
  PROVE  NamesInv'
<1>1. result = "running" /\ Shift \notin {0, YYFINAL}
  BY DEF shift
<1>2. /\ Path(yyss) /\ Typed(yyss, yyvs) /\ Top \in States
      /\ Shift = Shifts(Top, yychar) /\ yychar \in 0 .. 24
  BY <1>1, Decided
<1>3. yystos[Shift + 1] \in 0 .. 24
  <2>1. Shifts(Top, 0) \in {0, YYFINAL}
    BY <1>2, EndTable DEF YYFINAL
  <2>2. yychar # 0
    BY <1>1, <1>2, <2>1
  <2>3. QED
    BY <1>1, <1>2, <2>2, ShiftTable
<1> DEFINE n == Len(yyss)
<1>4. /\ n \in Nat /\ Len(yyss') = n + 1
      /\ \A i \in 1 .. n : yyss'[i] = yyss[i] /\ yyvs'[i] = yyvs[i]
      /\ yyss'[n + 1] = Shift
  <2>1. yyss \in Seq(States) /\ yyvs \in Seq(Value) /\ Len(yyvs) = n /\ n \in Nat
    BY <1>2 DEF Path, Typed
  <2>2. yyss' = Append(yyss, Shift) /\ yyvs' = Append(yyvs, yylval)
    BY DEF shift
  <2>3. QED
    BY <2>1, <2>2, AppendProperties
<1>5. InError(yyss) => InError(yyss')
  BY <1>4 DEF InError
<1>6. WrongHeld(yyss, yyvs)' <=> WrongHeld(yyss, yyvs)
  <2>1. CASE n >= 3
    <3>1. Begun(yyss') <=> Begun(yyss)
      BY <1>4, <2>1 DEF Begun
    <3>2. 3 .. n + 1 = (3 .. n) \cup {n + 1} /\ 3 .. n \subseteq 1 .. n
      BY <1>4, <2>1
    <3>3. ~Wrong(yystos[yyss'[n + 1] + 1], yyvs'[n + 1])
      BY <1>3, <1>4, TokensAreRight
    <3>4. (\E i \in 3 .. n + 1 : Wrong(yystos[yyss'[i] + 1], yyvs'[i]))
            <=> \E i \in 3 .. n : Wrong(yystos[yyss[i] + 1], yyvs[i])
      BY <1>4, <3>2, <3>3
    <3>5. QED
      BY <1>4, <3>1, <3>4 DEF WrongHeld
  <2>2. CASE n < 3
    <3>1. ~Begun(yyss)
      BY <1>4, <2>2 DEF Begun
    <3>2. ASSUME Begun(yyss')
          PROVE  ~\E i \in 3 .. n + 1 : Wrong(yystos[yyss'[i] + 1], yyvs'[i])
      <4>1. 3 .. n + 1 = {n + 1}
        BY <1>4, <2>2, <3>2 DEF Begun
      <4>2. QED
        BY <1>3, <1>4, <4>1, TokensAreRight
    <3>3. QED
      BY <1>4, <3>1, <3>2 DEF WrongHeld
  <2>3. QED
    BY <1>4, <2>1, <2>2
<1>7. UNCHANGED <<line, misnamed, result>>
  BY DEF shift
<1>8. QED
  BY <1>5, <1>6, <1>7 DEF NamesInv

LEMMA NamesOfRest ==
  ASSUME Inv, Running, NamesInv, accept \/ abort \/ reduce_quit \/ recover
  PROVE  NamesInv' /\ NamesTold
<1>1. CASE accept \/ abort
  <2>1. result' \in {"accepted", "aborted"}
    BY <1>1 DEF accept, abort
  <2>2. [GrammarNext]_grammarVars /\ result = "running"
    BY <1>1, EndStep DEF Obeys, accept, abort
  <2>3. ~EndOfLine(line)
    BY <2>1, <2>2 DEF GrammarNext, GrammarRead, GrammarExecute, GrammarQuit, GrammarEnd, grammarVars
  <2>4. QED
    BY <2>1, <2>3 DEF NamesInv, NamesTold
<1>2. CASE reduce_quit
  BY <1>2, NamesSilent DEF reduce_quit, NamesInv
<1>3. CASE recover
  <2>1. InError(yyss') /\ line' = line
    BY <1>3, ErrorPops, ErrorStacks DEF recover
  <2>2. QED
    BY <2>1, NamesSilent DEF NamesInv
<1>4. QED
  BY <1>1, <1>2, <1>3

LEMMA StepNames ==
  ASSUME Inv, Running, NamesInv, [Next]_vars
  PROVE  NamesInv' /\ [NamesTold]_vars
<1>1. CASE UNCHANGED vars
  BY <1>1 DEF vars, NamesInv
<1>2. CASE shift
  BY <1>2, NamesOfShift, NamesSilent DEF shift
<1>3. CASE reduce_plain
  BY <1>3, NamesOfPlain, NamesSilent DEF reduce_plain
<1>4. CASE reduce_condition \/ reduce_star_count \/ reduce_attribute \/ reduce_comparator
  BY <1>4, NamesOfRules, NamesSilent
     DEF reduce_condition, reduce_star_count, reduce_attribute, reduce_comparator
<1>5. QED
  BY <1>1, <1>2, <1>3, <1>4, NamesOfLex, NamesOfLine, NamesOfLoad, NamesOfSelect, NamesOfRest
     DEF Next, Step

\* A line of the grammar is never reported as a syntax error, and its names that
\* are no attribute are reported, exactly those, before it is executed; a line
\* that is none is reported, unless the last line that was not empty was rejected
\* too (yyerrstatus).
THEOREM ErrorsAreTold == FairSpec => ErrorsTold
<1>1. Init => Running /\ NamesInv
  <2>1. Init => NamesInv
    <3> SUFFICES ASSUME Init PROVE NamesInv
      OBVIOUS
    <3>1. yyss = <<0>> /\ ~misnamed
      BY DEF Init
    <3>2. QED
      BY <3>1 DEF NamesInv, WrongHeld, Begun
  <2>2. QED
    BY <2>1, StartRunning
<1>2. Inv /\ Running /\ NamesInv /\ [Next]_vars =>
        /\ Running' /\ NamesInv'
        /\ [EndOfLine(line) /\ line' = << >> =>
              IF Rejected(line) THEN told \/ before
              ELSE ~told /\ (misnamed <=> Misnames(call'))]_vars
  BY StepObeys, StepNames DEF Obeys, NamesTold
<1>3. Init => Inv
  BY InitInv
<1>4. Inv /\ [Next]_vars => Inv'
  BY StepInv
<1>5. QED
  BY <1>1, <1>2, <1>3, <1>4, PTL DEF FairSpec, ErrorsTold

-----------------------------------------------------------------------------
(* What gets lost *)

\* A string that a place of the stack or the look-ahead owns
HeldBy(own, n, s) == \E i \in 0 .. n : \E a \in DOMAIN own[i] : own[i][a] = s

LEMMA HeldOwners ==
  ASSUME Len(yyss) \in Nat, NEW s
  PROVE  s \in Range(Held) <=> HeldBy(Owning(yyss, yyvs, yychar, yylval), Len(yyss), s)
<1> DEFINE own == Owning(yyss, yyvs, yychar, yylval)
           n == Len(yyss)
<1>1. \A i \in 0 .. n : own[i] = Owns(i)
  BY DEF Owning, Owns
<1> HIDE DEF own, n
<1>2. Places = UNION { {i} \X DOMAIN own[i] : i \in 0 .. n }
  BY <1>1 DEF Places, n
<1>3. \A p \in Places : p[1] \in 0 .. n /\ p[2] \in DOMAIN own[p[1]] /\ Held[p] = own[p[1]][p[2]]
  BY <1>1, <1>2 DEF Held
<1>4. \A i \in 0 .. n : \A a \in DOMAIN own[i] : <<i, a>> \in Places /\ Held[<<i, a>>] = own[i][a]
  BY <1>1, <1>2 DEF Held
<1>5. DOMAIN Held = Places
  BY DEF Held
<1>6. ASSUME s \in Range(Held)
      PROVE  HeldBy(own, n, s)
  <2>1. PICK p \in Places : Held[p] = s
    BY <1>5, <1>6 DEF Range
  <2>2. QED
    BY <1>3, <2>1 DEF HeldBy
<1>7. ASSUME HeldBy(own, n, s)
      PROVE  s \in Range(Held)
  <2>1. PICK i \in 0 .. n : \E a \in DOMAIN own[i] : own[i][a] = s
    BY <1>7 DEF HeldBy
  <2>2. PICK a \in DOMAIN own[i] : own[i][a] = s
    BY <2>1
  <2>3. <<i, a>> \in DOMAIN Held /\ Held[<<i, a>>] = s
    BY <1>4, <1>5, <2>2
  <2>4. QED
    BY <2>3 DEF Range
<1>8. QED
  BY <1>6, <1>7 DEF own, n

Ownership == Owning(yyss, yyvs, yychar, yylval)

LEMMA HeldNow == Len(yyss) \in Nat => \A s : s \in Range(Held) <=> HeldBy(Ownership, Len(yyss), s)
BY HeldOwners DEF Ownership

LEMMA HeldThen ==
  (Len(yyss) \in Nat => \A s : s \in Range(Held) <=> HeldBy(Ownership, Len(yyss), s))'
BY HeldNow, PTL

\* A step loses nothing if what is new is held, and what was held is held still
\* or was freed.
LEMMA NothingLost ==
  ASSUME Inv, Inv',
         \A s \in String : heap'[s] # Free =>
           \/ heap[s] # Free /\ ~HeldBy(Ownership, Len(yyss), s)
           \/ HeldBy(Ownership', Len(yyss'), s)
  PROVE  Lost' \subseteq Lost
<1>1. Len(yyss) \in Nat /\ Len(yyss') \in Nat
  BY DEF Inv, Path
<1>2. \A s : s \in Range(Held) <=> HeldBy(Ownership, Len(yyss), s)
  BY <1>1, HeldNow
<1>3. \A s : s \in Range(Held') <=> HeldBy(Ownership', Len(yyss'), s)
  BY <1>1, HeldThen
<1>4. QED
  BY <1>2, <1>3 DEF Lost

\* A token's string is held as the look-ahead.
LEMMA LexLoses ==
  ASSUME Inv, yylex
  PROVE  Lost' \subseteq Lost
<1> DEFINE n == Len(yyss)
           own == Ownership
           own2 == Ownership'
<1>1. Inv' /\ n \in Nat /\ yyss' = yyss /\ yyvs' = yyvs /\ Waits
  BY LexInv DEF yylex, Inv, Path
<1>2. PICK t \in Token :
        /\ yychar' = t.sym
        /\ IF t.text = NoText THEN UNCHANGED <<yylval, heap>>
           ELSE \E s \in String : yylval' = s /\ heap' = [heap EXCEPT ![s] = t.text]
  BY DEF yylex
<1>3. t.text = NoText \/ t.sym \in {T_INTEGER, T_STRING, T_ID}
  BY DEF Token
<1>4. own[0] = Owned(yychar, yylval) /\ own2[0] = Owned(yychar', yylval')
        /\ \A i \in 1 .. n : own2[i] = own[i]
  BY <1>1 DEF Ownership, Owning
<1>5. DOMAIN own[0] = {}
  BY <1>1, <1>4, OwnedBy DEF Waits, YYEMPTY, T_INTEGER, T_STRING, T_ID
<1>6. heap \in [String -> {Free} \cup Name \cup Literal]
  BY DEF Inv, Rest
<1> HIDE DEF own, own2, n
<1>7. ASSUME NEW s, HeldBy(own, n, s)
      PROVE  HeldBy(own2, n, s)
  <2>1. PICK i \in 0 .. n : \E a \in DOMAIN own[i] : own[i][a] = s
    BY <1>7 DEF HeldBy
  <2>2. i \in 1 .. n
    BY <1>1, <1>5, <2>1
  <2>3. QED
    BY <1>4, <2>1, <2>2 DEF HeldBy
<1>8. ASSUME NEW s \in String, heap'[s] # Free
      PROVE  heap[s] # Free \/ HeldBy(own2, n, s)
  <2>1. CASE heap' = heap
    BY <1>8, <2>1
  <2>2. CASE t.text # NoText
    <3>1. PICK r \in String : yylval' = r /\ heap' = [heap EXCEPT ![r] = t.text]
      BY <1>2, <2>2
    <3>2. CASE s = r
      <4>1. 1 \in DOMAIN own2[0] /\ own2[0][1] = s
        BY <1>2, <1>3, <1>4, <2>2, <3>1, <3>2, OwnedBy
      <4>2. 0 \in 0 .. n
        BY <1>1
      <4>3. QED
        BY <4>1, <4>2 DEF HeldBy
    <3>3. CASE s # r
      BY <1>6, <1>8, <3>1, <3>3
    <3>4. QED
      BY <3>2, <3>3
  <2>3. QED
    BY <1>2, <2>1, <2>2
<1>9. \A s \in String : heap'[s] # Free =>
        \/ heap[s] # Free /\ ~HeldBy(Ownership, Len(yyss), s)
        \/ HeldBy(Ownership', Len(yyss'), s)
  BY <1>1, <1>7, <1>8 DEF own, own2, n
<1>10. QED
  BY <1>1, <1>9, NothingLost

\* A shifted token's string goes to the top of the stack.
LEMMA ShiftLoses ==
  ASSUME Inv, shift, yychar # YYEOF
  PROVE  Lost' \subseteq Lost
<1> DEFINE n == Len(yyss)
           t == Shift
           own == Ownership
           own2 == Ownership'
<1>1. Inv' /\ Path(yyss) /\ Typed(yyss, yyvs) /\ n \in Nat \ {0} /\ Len(yyvs) = n
  BY ShiftInv, Decisions DEF Inv, Typed
<1>2. yystos[t + 1] = yychar
  BY Decisions, ShiftTable DEF shift
<1>3. yyss' = Append(yyss, t) /\ yyvs' = Append(yyvs, yylval) /\ heap' = heap
  BY DEF shift
<1> HIDE DEF t
<1>4. yyss \in Seq(States) /\ yyvs \in Seq(Value)
  BY <1>1 DEF Path, Typed
<1>5. Len(yyss') = n + 1 /\ yyss'[n + 1] = t /\ \A i \in 1 .. n : yyss'[i] = yyss[i]
  BY <1>3, <1>4, AppendProperties
<1>6. yyvs'[n + 1] = yylval /\ \A i \in 1 .. n : yyvs'[i] = yyvs[i]
  BY <1>1, <1>3, <1>4, AppendProperties
<1>7. /\ own[0] = Owned(yychar, yylval) /\ \A i \in 1 .. n : own[i] = Owned(yystos[yyss[i] + 1], yyvs[i])
      /\ \A i \in 1 .. n + 1 : own2[i] = Owned(yystos[yyss'[i] + 1], yyvs'[i])
  BY <1>1, <1>5 DEF Ownership, Owning
<1>8. own2[n + 1] = own[0] /\ \A i \in 1 .. n : own2[i] = own[i]
  <2>1. own2[n + 1] = Owned(yystos[t + 1], yylval)
    BY <1>1, <1>5, <1>6, <1>7
  <2>2. QED
    BY <1>1, <1>2, <1>5, <1>6, <1>7, <2>1
<1> HIDE DEF own, own2, n
<1>9. ASSUME NEW s, HeldBy(own, n, s)
      PROVE  HeldBy(own2, n + 1, s)
  <2>1. PICK i \in 0 .. n : \E a \in DOMAIN own[i] : own[i][a] = s
    BY <1>9 DEF HeldBy
  <2>2. PICK j \in 0 .. n + 1 : own2[j] = own[i]
    BY <1>1, <1>8
  <2>3. QED
    BY <2>1, <2>2 DEF HeldBy
<1>10. \A s \in String : heap'[s] # Free =>
         \/ heap[s] # Free /\ ~HeldBy(Ownership, Len(yyss), s)
         \/ HeldBy(Ownership', Len(yyss'), s)
  BY <1>3, <1>5, <1>9 DEF own, own2, n
<1>11. QED
  BY <1>1, <1>10, NothingLost

\* A rule that frees the strings of its right-hand side, or keeps them in the
\* value of its left-hand side
LEMMA ReduceLoses ==
  ASSUME Inv, Inv', NEW rules \in SUBSET Reducible, NEW v, Reduce(rules, v),
         \A s \in String : heap'[s] # Free => heap[s] # Free,
         \A s \in String : RhsOwns(yyss, yyvs, Rule, s) =>
           \/ heap'[s] = Free
           \/ \E a \in DOMAIN Owned(yyr1[Rule + 1], v) : Owned(yyr1[Rule + 1], v)[a] = s
  PROVE  Lost' \subseteq Lost
<1> DEFINE r == Rule
           n == Len(yyss)
           l == yyr2[r + 1]
           m == n - l
           own == Ownership
           own2 == Ownership'
           new == Owned(yyr1[r + 1], v)
           ss2 == Reduced(yyss, r)
           vs2 == ReducedTo(yyss, yyvs, r, v)
<1>1. r \in Reducible /\ yydefact[yyss[n] + 1] = r
  BY Decisions DEF Reduce, Reducible
<1>2. Path(yyss) /\ Typed(yyss, yyvs) /\ n \in Nat
  BY DEF Inv, Path
<1>3. yyss' = ss2 /\ yyvs' = vs2 /\ UNCHANGED <<yychar, yylval>>
  BY DEF Reduce, Reduced, ReducedTo, Rhs
<1>4. Len(ss2) = m + 1 /\ (\A i \in 1 .. m : ss2[i] = yyss[i]) /\ yystos[ss2[m + 1] + 1] = yyr1[r + 1]
  BY <1>1, <1>2, ReducePath
<1>5. m \in 1 .. n /\ \A i \in 1 .. l : yyss[m + i] = Handle(r, i)
  BY <1>1, <1>2, HandleOnTop
<1>6. l \in 0 .. 7
  BY <1>1, HandleLengths
<1>7. vs2[m + 1] = v /\ \A i \in 1 .. m : vs2[i] = yyvs[i]
  <2>1. yyvs \in Seq(Value) /\ Len(yyvs) = n
    BY <1>2 DEF Typed
  <2>2. vs2 = Append(SubSeq(yyvs, 1, m), v)
    BY DEF ReducedTo
  <2> HIDE DEF m, vs2
  <2>3. /\ SubSeq(yyvs, 1, m) \in Seq(Value) /\ Len(SubSeq(yyvs, 1, m)) = m
        /\ \A i \in 1 .. m : SubSeq(yyvs, 1, m)[i] = yyvs[i]
    BY <1>2, <1>5, <2>1, SubSeqProperties
  <2>4. QED
    BY <1>2, <1>5, <2>2, <2>3
<1> HIDE DEF r, ss2, vs2
<1>8. \A s \in String : RhsOwns(yyss, yyvs, r, s) =>
        heap'[s] = Free \/ \E a \in DOMAIN new : new[a] = s
  BY DEF r
<1>9. /\ own[0] = Owned(yychar, yylval)
      /\ \A i \in 1 .. n : own[i] = Owned(yystos[yyss[i] + 1], yyvs[i])
      /\ own2[0] = Owned(yychar, yylval)
      /\ \A i \in 1 .. m + 1 : own2[i] = Owned(yystos[ss2[i] + 1], vs2[i])
  BY <1>2, <1>3, <1>4, <1>5 DEF Ownership, Owning
<1>10. \A i \in 1 .. l : own[m + i] = Owned(Symbol(r, i), yyvs[m + i])
  <2>1. \A i \in 1 .. l : m + i \in 1 .. n
    BY <1>2, <1>5, <1>6
  <2>2. QED
    BY <1>5, <1>9, <2>1 DEF Symbol
<1>11. own2[m + 1] = new /\ \A i \in 0 .. m : own2[i] = own[i]
  <2>1. m \in Nat /\ m \in 0 .. n
    BY <1>2, <1>5
  <2> HIDE DEF m, own, own2, n
  <2>2. own2[m + 1] = new
    BY <1>4, <1>7, <1>9, <2>1
  <2>3. \A i \in 1 .. m : own2[i] = own[i]
    BY <1>2, <1>4, <1>7, <1>9, <2>1
  <2>4. QED
    BY <1>9, <2>1, <2>2, <2>3
<1>12. \A i \in 1 .. l : \A a \in DOMAIN own[m + i] : RhsOwns(yyss, yyvs, r, own[m + i][a])
  BY <1>10 DEF RhsOwns
<1> HIDE DEF own, own2, new, l
<1>13. ASSUME NEW s \in String, HeldBy(own, n, s), heap'[s] # Free
       PROVE  HeldBy(own2, m + 1, s)
  <2>1. PICK i \in 0 .. n : \E a \in DOMAIN own[i] : own[i][a] = s
    BY <1>13 DEF HeldBy
  <2>2. m \in Nat /\ m + l = n
    BY <1>2, <1>5, <1>6 DEF l
  <2> HIDE DEF m, n
  <2>3. CASE i \in 0 .. m
    <3>1. i \in 0 .. m + 1 /\ own2[i] = own[i]
      BY <1>11, <2>2, <2>3
    <3>2. QED
      BY <2>1, <3>1 DEF HeldBy
  <2>4. CASE i \notin 0 .. m
    <3>1. PICK j \in 1 .. l : i = m + j
      <4>1. i - m \in 1 .. l /\ i = m + (i - m)
        BY <1>2, <1>6, <2>2, <2>4
      <4>2. QED
        BY <4>1
    <3>2. RhsOwns(yyss, yyvs, r, s)
      BY <1>12, <2>1, <3>1
    <3>3. \E a \in DOMAIN own2[m + 1] : own2[m + 1][a] = s
      BY <1>8, <1>11, <1>13, <3>2
    <3>4. m + 1 \in 0 .. m + 1
      BY <2>2
    <3>5. QED
      BY <3>3, <3>4 DEF HeldBy
  <2>5. QED
    BY <2>3, <2>4
<1>14. \A s \in String : heap'[s] # Free =>
         \/ heap[s] # Free /\ ~HeldBy(Ownership, Len(yyss), s)
         \/ HeldBy(Ownership', Len(yyss'), s)
  BY <1>3, <1>4, <1>13 DEF own, own2, n
<1>15. QED
  BY <1>14, NothingLost

\* The symbols of right-hand sides that own strings
Owners == {T_INTEGER, T_STRING, T_ID, 35, 36, 32, 31}
OwnerPlaces == {<<10, 2>>, <<10, 4>>, <<11, 2>>, <<11, 4>>, <<12, 4>>, <<13, 4>>, <<13, 6>>,
                <<14, 1>>, <<15, 1>>, <<15, 3>>, <<16, 3>>, <<20, 1>>, <<21, 1>>, <<22, 1>>, <<23, 1>>}

LEMMA OwnerTable ==
  ASSUME NEW r \in Reducible, NEW i \in 1 .. yyr2[r + 1], Symbol(r, i) \in Owners
  PROVE  <<r, i>> \in OwnerPlaces
BY SMTT(60) DEF Reducible, yyr2, Symbol, Handle, Handles, yystos, Owners, OwnerPlaces, T_INTEGER, T_STRING, T_ID

LEMMA OwnerPairs ==
  ASSUME NEW r, NEW i, <<r, i>> \in OwnerPlaces
  PROVE  \/ r \in {10, 11} /\ i \in {2, 4}
         \/ r = 12 /\ i = 4
         \/ r = 13 /\ i \in {4, 6}
         \/ r = 15 /\ i \in {1, 3}
         \/ r = 16 /\ i = 3
         \/ r \in {14, 20, 21, 22, 23} /\ i = 1
BY DEF OwnerPlaces

\* What the right-hand side owns is what the values at these places own.
LEMMA RhsOwners ==
  ASSUME Inv, Rule \in Reducible, NEW s, RhsOwns(yyss, yyvs, Rule, s)
  PROVE  \E i \in 1 .. yyr2[Rule + 1] :
           /\ <<Rule, i>> \in OwnerPlaces
           /\ \E a \in DOMAIN Owned(Symbol(Rule, i), Arg(Rule, i)) :
                Owned(Symbol(Rule, i), Arg(Rule, i))[a] = s
<1>1. PICK i \in 1 .. yyr2[Rule + 1] :
        \E a \in DOMAIN Owned(Symbol(Rule, i), Arg(Rule, i)) :
          Owned(Symbol(Rule, i), Arg(Rule, i))[a] = s
  BY DEF RhsOwns, Arg, Rhs
<1>2. Symbol(Rule, i) \in Owners
  BY <1>1, OwnedBy DEF Owners
<1>3. QED
  BY <1>1, <1>2, OwnerTable

\* The rules whose right-hand sides own nothing
LEMMA NoneLost ==
  ASSUME Inv, Inv', NEW rules \in SUBSET Reducible, NEW v, Reduce(rules, v),
         \A r \in rules : \A p \in OwnerPlaces : p[1] # r, UNCHANGED heap
  PROVE  Lost' \subseteq Lost
<1>1. Rule \in Reducible /\ Rule \in rules
  BY DEF Reduce
<1>2. \A s : ~RhsOwns(yyss, yyvs, Rule, s)
  <2>1. SUFFICES ASSUME NEW s, RhsOwns(yyss, yyvs, Rule, s) PROVE FALSE
    OBVIOUS
  <2>2. PICK i \in 1 .. yyr2[Rule + 1] : <<Rule, i>> \in OwnerPlaces
    BY <1>1, <2>1, RhsOwners
  <2>3. QED
    BY <1>1, <2>2
<1>3. QED
  BY <1>2, ReduceLoses

LEMMA PlainLoses ==
  ASSUME Inv, reduce_plain
  PROVE  Lost' \subseteq Lost
<1> DEFINE v == Val(Rule)
           rules == {2, 3, 4, 5, 6, 17, 21, 22, 23}
<1>1. Reduce(rules, v) /\ UNCHANGED heap /\ Rule \in rules /\ Inv'
  BY PlainInv DEF reduce_plain, Reduce
<1>2. Rule \in Reducible /\ rules \in SUBSET Reducible
  BY <1>1 DEF Reducible
<1>3. Rule # 3 => v = Arg(Rule, 1)
  BY <1>2, Args
<1> HIDE DEF v
<1>4. ASSUME NEW s, RhsOwns(yyss, yyvs, Rule, s)
      PROVE  \E a \in DOMAIN Owned(yyr1[Rule + 1], v) : Owned(yyr1[Rule + 1], v)[a] = s
  <2>1. PICK i \in 1 .. yyr2[Rule + 1] :
           /\ <<Rule, i>> \in OwnerPlaces
           /\ \E a \in DOMAIN Owned(Symbol(Rule, i), Arg(Rule, i)) :
                Owned(Symbol(Rule, i), Arg(Rule, i))[a] = s
    BY <1>2, <1>4, RhsOwners
  <2>2. Rule \in {21, 22, 23} /\ i = 1
    BY <1>1, <2>1, OwnerPairs
  <2>3. yyr1[Rule + 1] \in {35, 36} /\ Symbol(Rule, 1) \in {T_INTEGER, T_STRING, T_ID}
    BY <2>2, RuleTable, SymbolTable
  <2>4. /\ DOMAIN Owned(Symbol(Rule, 1), v) = {1} /\ Owned(Symbol(Rule, 1), v)[1] = v
        /\ DOMAIN Owned(yyr1[Rule + 1], v) = {1} /\ Owned(yyr1[Rule + 1], v)[1] = v
    BY <2>3, OwnedBy
  <2>5. v = Arg(Rule, 1)
    BY <1>3, <2>2
  <2>6. QED
    BY <2>1, <2>2, <2>4, <2>5
<1> HIDE DEF rules
<1>5. QED
  BY <1>1, <1>2, <1>4, ReduceLoses

LEMMA LineLoses ==
  ASSUME Inv, reduce_line
  PROVE  Lost' \subseteq Lost
<1>1. Reduce({7, 8}, Val(Rule)) /\ UNCHANGED heap /\ Inv'
  BY LineInv DEF reduce_line
<1>2. {7, 8} \in SUBSET Reducible
  BY DEF Reducible
<1>3. \A r \in {7, 8} : \A p \in OwnerPlaces : p[1] # r
  BY DEF OwnerPlaces
<1>4. QED
  BY <1>1, <1>2, <1>3, NoneLost

LEMMA StarCountLoses ==
  ASSUME Inv, reduce_star_count
  PROVE  Lost' \subseteq Lost
<1> DEFINE v == IF Rule = 18 THEN 3 ELSE 4
<1>1. Reduce({18, 19}, v) /\ UNCHANGED heap /\ Inv'
  BY StarCountInv DEF reduce_star_count
<1>2. {18, 19} \in SUBSET Reducible
  BY DEF Reducible
<1>3. \A r \in {18, 19} : \A p \in OwnerPlaces : p[1] # r
  BY DEF OwnerPlaces
<1> HIDE DEF v
<1>4. QED
  BY <1>1, <1>2, <1>3, NoneLost

LEMMA ComparatorLoses ==
  ASSUME Inv, reduce_comparator
  PROVE  Lost' \subseteq Lost
<1>1. Reduce(24 .. 29, Comp(Rule)) /\ UNCHANGED heap /\ Inv'
  BY ComparatorInv DEF reduce_comparator
<1>2. 24 .. 29 \in SUBSET Reducible
  BY DEF Reducible
<1>3. \A r \in 24 .. 29 : \A p \in OwnerPlaces : p[1] # r
  BY DEF OwnerPlaces
<1>4. QED
  BY <1>1, <1>2, <1>3, NoneLost

\* The strings that a load or a select is called with are freed behind the call.
LEMMA LoadLoses ==
  ASSUME Inv, reduce_load
  PROVE  Lost' \subseteq Lost
<1> DEFINE S == {Arg(Rule, 2), Arg(Rule, 4)}
<1>1. Reduce({10, 11}, Val(Rule)) /\ Rule \in {10, 11} /\ free(S) /\ Inv'
  BY LoadInv DEF reduce_load, Reduce
<1>2. Rule \in Reducible /\ {10, 11} \in SUBSET Reducible
  BY <1>1 DEF Reducible
<1>3. ASSUME NEW s, RhsOwns(yyss, yyvs, Rule, s)
      PROVE  s \in S
  <2>1. PICK i \in 1 .. yyr2[Rule + 1] :
           /\ <<Rule, i>> \in OwnerPlaces
           /\ \E a \in DOMAIN Owned(Symbol(Rule, i), Arg(Rule, i)) :
                Owned(Symbol(Rule, i), Arg(Rule, i))[a] = s
    BY <1>2, <1>3, RhsOwners
  <2>2. i \in {2, 4}
    BY <1>1, <2>1, OwnerPairs
  <2>3. Symbol(Rule, i) \in {36, T_STRING}
    BY <1>1, <2>2, SymbolTable
  <2>4. \A a \in DOMAIN Owned(Symbol(Rule, i), Arg(Rule, i)) :
          Owned(Symbol(Rule, i), Arg(Rule, i))[a] = Arg(Rule, i)
    BY <2>3, OwnedBy
  <2>5. s = Arg(Rule, i)
    BY <2>1, <2>4
  <2>6. QED
    BY <2>2, <2>5
<1> HIDE DEF S
<1>4. (\A s \in S : heap'[s] = Free \/ s \notin String)
        /\ \A s \in String : heap'[s] # Free => heap[s] # Free
  BY <1>1 DEF free
<1>5. \A s \in String : RhsOwns(yyss, yyvs, Rule, s) => heap'[s] = Free
  BY <1>3, <1>4
<1>6. QED
  BY <1>1, <1>2, <1>4, <1>5, ReduceLoses

LEMMA SelectLoses ==
  ASSUME Inv, reduce_select
  PROVE  Lost' \subseteq Lost
<1> DEFINE conds == IF Rule = 12 THEN << >> ELSE Arg(13, 6)
           S == {Arg(Rule, 4)} \cup { conds[i].value : i \in DOMAIN conds }
<1>1. Reduce({12, 13}, Val(Rule)) /\ Rule \in {12, 13} /\ free(S) /\ Inv'
  BY SelectInv DEF reduce_select, Reduce
<1>2. Rule \in Reducible /\ {12, 13} \in SUBSET Reducible
  BY <1>1 DEF Reducible
<1>3. ASSUME NEW s, RhsOwns(yyss, yyvs, Rule, s)
      PROVE  s \in S
  <2>1. PICK i \in 1 .. yyr2[Rule + 1] :
           /\ <<Rule, i>> \in OwnerPlaces
           /\ \E a \in DOMAIN Owned(Symbol(Rule, i), Arg(Rule, i)) :
                Owned(Symbol(Rule, i), Arg(Rule, i))[a] = s
    BY <1>2, <1>3, RhsOwners
  <2>2. i = 4 \/ (Rule = 13 /\ i = 6)
    <3>1. Rule \in {12, 13}
      BY <1>1
    <3>2. <<Rule, i>> \in OwnerPlaces
      BY <2>1
    <3> HIDE DEF conds, S
    <3>3. QED
      BY <3>1, <3>2, OwnerPairs
  <2>3. CASE i = 4
    <3>1. Symbol(Rule, i) = 36
      BY <1>1, <2>3, SymbolTable
    <3>2. \A a \in DOMAIN Owned(Symbol(Rule, i), Arg(Rule, i)) :
            Owned(Symbol(Rule, i), Arg(Rule, i))[a] = Arg(Rule, i)
      BY <3>1, OwnedBy
    <3>3. s = Arg(Rule, 4)
      BY <2>1, <2>3, <3>2
    <3>4. QED
      BY <3>3
  <2>4. CASE Rule = 13 /\ i = 6
    <3>1. Symbol(Rule, i) = 31 /\ conds = Arg(Rule, i)
      BY <2>4, SymbolTable
    <3> HIDE DEF conds
    <3>2. DOMAIN Owned(Symbol(Rule, i), Arg(Rule, i)) = DOMAIN conds
            /\ \A a \in DOMAIN conds : Owned(Symbol(Rule, i), Arg(Rule, i))[a] = conds[a].value
      BY <3>1, OwnedBy
    <3>3. PICK a \in DOMAIN conds : s = conds[a].value
      BY <2>1, <3>2
    <3>4. QED
      BY <3>3
  <2>5. QED
    BY <2>2, <2>3, <2>4
<1> HIDE DEF S
<1>4. (\A s \in S : heap'[s] = Free \/ s \notin String)
        /\ \A s \in String : heap'[s] # Free => heap[s] # Free
  BY <1>1 DEF free
<1>5. \A s \in String : RhsOwns(yyss, yyvs, Rule, s) => heap'[s] = Free
  BY <1>3, <1>4
<1>6. QED
  BY <1>1, <1>2, <1>4, <1>5, ReduceLoses

LEMMA AttributeLoses ==
  ASSUME Inv, reduce_attribute
  PROVE  Lost' \subseteq Lost
<1> DEFINE v == AttrOf([sym |-> T_ID, text |-> heap[Arg(20, 1)]])
           S == {Arg(20, 1)}
<1>1. Reduce({20}, v) /\ Rule = 20 /\ free(S) /\ Inv'
  BY AttributeInv DEF reduce_attribute, Reduce
<1>2. Rule \in Reducible /\ {20} \in SUBSET Reducible
  BY <1>1 DEF Reducible
<1>3. ASSUME NEW s, RhsOwns(yyss, yyvs, Rule, s)
      PROVE  s \in S
  <2>1. PICK i \in 1 .. yyr2[Rule + 1] :
           /\ <<Rule, i>> \in OwnerPlaces
           /\ \E a \in DOMAIN Owned(Symbol(Rule, i), Arg(Rule, i)) :
                Owned(Symbol(Rule, i), Arg(Rule, i))[a] = s
    BY <1>2, <1>3, RhsOwners
  <2>2. i = 1
    BY <1>1, <2>1, OwnerPairs
  <2>3. Symbol(Rule, i) = T_ID
    BY <1>1, <2>2, SymbolTable
  <2>4. \A a \in DOMAIN Owned(Symbol(Rule, i), Arg(Rule, i)) :
          Owned(Symbol(Rule, i), Arg(Rule, i))[a] = Arg(Rule, i)
    BY <2>3, OwnedBy
  <2>5. s = Arg(20, 1)
    BY <1>1, <2>1, <2>2, <2>4
  <2>6. QED
    BY <2>5
<1> HIDE DEF S, v
<1>4. (\A s \in S : heap'[s] = Free \/ s \notin String)
        /\ \A s \in String : heap'[s] # Free => heap[s] # Free
  BY <1>1 DEF free
<1>5. \A s \in String : RhsOwns(yyss, yyvs, Rule, s) => heap'[s] = Free
  BY <1>3, <1>4
<1>6. QED
  BY <1>1, <1>2, <1>4, <1>5, ReduceLoses

\* A condition owns its value's string, and a list those of its conditions.
LEMMA ConditionLoses ==
  ASSUME Inv, reduce_condition
  PROVE  Lost' \subseteq Lost
<1> DEFINE v == CASE Rule = 14 -> <<Arg(14, 1)>>
                  [] Rule = 15 -> Append(Arg(15, 1), Arg(15, 3))
                  [] Rule = 16 -> [attr |-> Arg(16, 1), comp |-> Arg(16, 2), value |-> Arg(16, 3)]
           new == Owned(yyr1[Rule + 1], v)
<1>1. Reduce({14, 15, 16}, v) /\ Rule \in {14, 15, 16} /\ UNCHANGED heap /\ Inv'
  BY ConditionInv DEF reduce_condition, Reduce
<1>2. Rule \in Reducible /\ {14, 15, 16} \in SUBSET Reducible
  BY <1>1 DEF Reducible
<1>3. \A i \in 1 .. yyr2[Rule + 1] : Fits(Symbol(Rule, i), Arg(Rule, i))
  BY <1>2, Args
<1>4. ASSUME NEW s, RhsOwns(yyss, yyvs, Rule, s)
      PROVE  \E a \in DOMAIN new : new[a] = s
  <2>1. PICK i \in 1 .. yyr2[Rule + 1] :
           /\ <<Rule, i>> \in OwnerPlaces
           /\ \E a \in DOMAIN Owned(Symbol(Rule, i), Arg(Rule, i)) :
                Owned(Symbol(Rule, i), Arg(Rule, i))[a] = s
    BY <1>2, <1>4, RhsOwners
  <2>2. PICK a \in DOMAIN Owned(Symbol(Rule, i), Arg(Rule, i)) :
          Owned(Symbol(Rule, i), Arg(Rule, i))[a] = s
    BY <2>1
  <2> DEFINE x == Arg(Rule, i)
  <2>3. Symbol(Rule, i) = 32 =>
          DOMAIN Owned(Symbol(Rule, i), x) = {1} /\ Owned(Symbol(Rule, i), x)[1] = x.value
    BY OwnedBy
  <2>4. CASE Rule = 14
    <3>1. i = 1 /\ Symbol(Rule, i) = 32
      <4>1. i = 1
        BY <2>1, <2>4, OwnerPairs
      <4>2. QED
        BY <2>4, <4>1, SymbolTable
    <3>2. s = x.value
      BY <2>2, <2>3, <3>1
    <3>3. v = <<x>> /\ yyr1[Rule + 1] = 31
      BY <2>4, <3>1, RuleTable
    <3> HIDE DEF v, x
    <3>4. DOMAIN v = {1} /\ v[1] = x
      BY <3>3
    <3>5. 1 \in DOMAIN new /\ new[1] = x.value
      BY <3>3, <3>4, OwnedBy
    <3>6. QED
      BY <3>2, <3>5
  <2>5. CASE Rule = 15
    <3> DEFINE y == Arg(Rule, 1)
               z == Arg(Rule, 3)
    <3>1. /\ v = Append(y, z) /\ yyr1[Rule + 1] = 31
          /\ Symbol(Rule, 1) = 31 /\ Symbol(Rule, 3) = 32 /\ yyr2[Rule + 1] = 3
      <4>1. v = Append(Arg(15, 1), Arg(15, 3))
        BY <2>5
      <4>2. v = Append(y, z)
        BY <2>5, <4>1
      <4> HIDE DEF v, y, z
      <4>3. yyr1[Rule + 1] = 31 /\ yyr2[Rule + 1] = 3
        BY <2>5, RuleTable, SymbolTable
      <4>4. Symbol(Rule, 1) = 31 /\ Symbol(Rule, 3) = 32
        BY <2>5, SymbolTable
      <4>5. QED
        BY <4>2, <4>3, <4>4
    <3>2. y \in Seq(Conds) /\ z \in Conds
      <4>1. Fits(31, y) /\ Fits(32, z)
        BY <1>3, <3>1
      <4>2. QED
        BY <4>1 DEF Fits
    <3>3. i = 1 \/ i = 3
      <4> HIDE DEF v, new
      <4>1. QED
        BY <2>1, <2>5, OwnerPairs
    <3>4. i = 1 => x = y /\ DOMAIN Owned(Symbol(Rule, i), x) = DOMAIN y
                     /\ \A b \in DOMAIN y : Owned(Symbol(Rule, i), x)[b] = y[b].value
      BY <3>1, OwnedBy
    <3>5. i = 3 => x = z /\ Symbol(Rule, i) = 32
      BY <3>1
    <3> HIDE DEF v, x, y, z
    <3>6. /\ DOMAIN v = 1 .. Len(y) + 1 /\ DOMAIN y = 1 .. Len(y) /\ Len(y) \in Nat
          /\ \A b \in 1 .. Len(y) : v[b] = y[b]
          /\ v[Len(y) + 1] = z
      BY <3>1, <3>2, AppendProperties
    <3>7. DOMAIN new = DOMAIN v /\ \A b \in DOMAIN v : new[b] = v[b].value
      <4>1. new = Owned(31, v)
        BY <3>1
      <4>2. DOMAIN Owned(31, v) = DOMAIN v /\ \A b \in DOMAIN v : Owned(31, v)[b] = v[b].value
        BY OwnedBy
      <4> HIDE DEF new
      <4>3. QED
        BY <4>1, <4>2
    <3>8. CASE i = 1
      <4>1. a \in DOMAIN y /\ s = y[a].value
        BY <2>2, <3>4, <3>8 DEF x
      <4>2. a \in 1 .. Len(y) /\ a \in DOMAIN v
        BY <3>6, <4>1
      <4>3. QED
        BY <3>6, <3>7, <4>1, <4>2
    <3>9. CASE i = 3
      <4>1. s = z.value
        BY <2>2, <2>3, <3>5, <3>9 DEF x
      <4>2. Len(y) + 1 \in DOMAIN v
        BY <3>6
      <4>3. QED
        BY <3>6, <3>7, <4>1, <4>2
    <3>10. QED
      BY <3>3, <3>8, <3>9
  <2>6. CASE Rule = 16
    <3>1. i = 3 /\ Symbol(Rule, i) = 35
      <4>1. i = 3
        <5> HIDE DEF v, new
        <5>1. QED
          BY <2>1, <2>6, OwnerPairs
      <4>2. QED
        BY <2>6, <4>1, SymbolTable
    <3>2. s = x
      <4>1. \A b \in DOMAIN Owned(Symbol(Rule, i), x) : Owned(Symbol(Rule, i), x)[b] = x
        BY <3>1, OwnedBy
      <4>2. QED
        BY <2>2, <4>1
    <3>3. v = [attr |-> Arg(16, 1), comp |-> Arg(16, 2), value |-> Arg(16, 3)]
            /\ yyr1[Rule + 1] = 32 /\ x = Arg(16, 3)
      BY <2>6, <3>1, RuleTable
    <3> HIDE DEF v, x
    <3>4. v.value = x
      BY <3>3
    <3>5. 1 \in DOMAIN new /\ new[1] = x
      BY <3>3, <3>4, OwnedBy
    <3>6. QED
      BY <3>2, <3>5
  <2>7. QED
    BY <1>1, <2>4, <2>5, <2>6
<1> HIDE DEF v
<1>5. QED
  BY <1>1, <1>2, <1>4, ReduceLoses

\* A line that is not rejected has errors only at the end of the input.
LEMMA RecoverLoses ==
  ASSUME Inv, Running, recover, ~Rejected(line)
  PROVE  yychar = YYEOF
<1>1. result = "running" /\ IsError
  BY DEF recover
<1>2. /\ InStep(yyss, yyvs, yychar, yylval, heap, yyerrstatus, line)
      /\ Top = yyss[Len(yyss)] /\ Shifts(Top, yychar) = 0 /\ yychar \in 0 .. 24
  BY <1>1, Decided
<1>3. Follows(yyss, yyvs, yychar, yylval, heap, line)
  BY <1>2 DEF InStep
<1>4. yychar # YYEMPTY
  BY <1>2 DEF YYEMPTY
<1>5. QED
  BY <1>2, <1>3, <1>4 DEF Follows

LEMMA StepLoses ==
  ASSUME Inv, Running, [Next]_vars
  PROVE  Lost' \subseteq Lost \/ Rejected(line) \/ yychar = YYEOF
<1>1. ASSUME UNCHANGED <<parserVars, heap>>
      PROVE  Lost' = Lost
  <2>1. Places' = Places
    BY <1>1 DEF Places, Owns, Owned, parserVars
  <2>2. Held' = Held
    BY <1>1, <2>1 DEF Held, Owns, Owned, parserVars
  <2>3. QED
    BY <1>1, <2>2 DEF Lost
<1>2. CASE UNCHANGED vars
  BY <1>1, <1>2 DEF vars, parserVars
<1>3. CASE accept \/ abort \/ reduce_quit
  BY <1>1, <1>3 DEF accept, abort, reduce_quit
<1>4. QED
  BY <1>2, <1>3, LexLoses, ShiftLoses, RecoverLoses, PlainLoses, LineLoses, LoadLoses,
     SelectLoses, ConditionLoses, StarCountLoses, AttributeLoses, ComparatorLoses DEF Next, Step

\* Strings are lost only with a line that has an error, or that the end of the
\* input cuts off: whatever else the parser reads it frees (SqlParser.y has no
\* %destructor, so an error gives up what the stack holds).
THEOREM OnlyErrorsLoseStrings == FairSpec => OnlyErrorsLose
<1>1. Init => Inv /\ Running
  BY InitInv, StartRunning
<1>2. Inv /\ Running /\ [Next]_vars =>
        Inv' /\ Running' /\ [Lost' \subseteq Lost \/ Rejected(line) \/ yychar = YYEOF]_vars
  BY StepInv, StepObeys, StepLoses DEF Obeys
<1>3. QED
  BY <1>1, <1>2, PTL DEF FairSpec, OnlyErrorsLose
=============================================================================
