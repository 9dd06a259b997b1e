--------------------------- MODULE SqlScannerProofs ---------------------------
(***************************************************************************)
(* Theorems about the scanner, for every input, every size of the buffer   *)
(* and every way in which the reads cut the input: its type invariant, the *)
(* room in the buffer, that it reads only when it must, and that it        *)
(* implements SqlTokens.  The compressed tables are compared with the      *)
(* rules of SqlParser.l state by state; the automaton's run follows from   *)
(* that by induction over the text.                                        *)
(***************************************************************************)
EXTENDS SqlScanner, FiniteSetTheorems, SequenceTheorems, WellFoundedInduction, TLAPS

-----------------------------------------------------------------------------
(* The transition table.  A state s is followed by Follow(s, c) on a character *)
(* of the class c: the entry of s, of its default state or of the template.    *)

\* The automaton's states, and the classes of the characters.
States  == 1 .. 112
Classes == 0 .. 53

\* The entry that a state has of its own for a class, the state whose entries it
\* shares, and the class under which a template is asked.
Own(s, c) == yy_chk[yy_base[s + 1] + c + 1] = s
Nxt(s, c) == yy_nxt[yy_base[s + 1] + c + 1]
Default(s) == yy_def[s + 1]
Meta(s, c) == IF Default(s) >= 113 THEN yy_meta[c + 1] ELSE c

\* The chain along yy_def is short: every state shares with state 1 or a
\* template, these share with 112, and 112 has an entry for every class.
LEMMA Defaults ==
  /\ \A s \in 1 .. 114 : s # 112 => Default(s) \in {1, 112, 113, 114}
  /\ Default(1) = 112 /\ Default(113) = 112 /\ Default(114) = 112
  /\ \A c \in Classes : Own(112, c) /\ yy_meta[c + 1] \in Classes
BY DEF Default, yy_def, Own, yy_chk, yy_base, yy_meta, Classes

\* The state after s on the class c: at most two steps along yy_def.
Follow(s, c) ==
  IF Own(s, c) THEN Nxt(s, c)
  ELSE IF Own(Default(s), Meta(s, c)) THEN Nxt(Default(s), Meta(s, c)) ELSE Nxt(112, Meta(s, c))

\* yy_next, the loop of sqllex along yy_def, ends and finds Follow for every
\* state and class of the tables.
LEMMA NextIs ==
  ASSUME NEW s \in 1 .. 114, NEW c \in Classes
  PROVE  yy_next[<<s, c>>] = Follow(s, c)
<1> DEFINE R(f, t, x) == IF Own(t, x) THEN Nxt(t, x) ELSE f[<<Default(t), Meta(t, x)>>]
           D == (1 .. 114) \X (0 .. 53)
           g == [y \in D |-> Follow(y[1], y[2])]
<1>1. \A t \in 1 .. 114, x \in Classes : Meta(t, x) \in Classes /\ (~Own(t, x) => Default(t) \in {1, 112, 113, 114})
  BY Defaults DEF Meta
<1>2. \A t \in {1, 112, 113, 114}, x \in Classes : ~Own(t, x) => Default(t) = 112 /\ Meta(t, x) = x
  BY Defaults DEF Meta
<1>3. \A t \in 1 .. 114, x \in Classes : Follow(t, x) = R(g, t, x)
  <2>1. TAKE t \in 1 .. 114, x \in Classes
  <2>2. CASE Own(t, x)
    BY <2>2 DEF Follow
  <2>3. CASE ~Own(t, x)
    <3>1. PICK d, m : d = Default(t) /\ m = Meta(t, x)
      OBVIOUS
    <3>2. d \in {1, 112, 113, 114} /\ m \in Classes
      BY <1>1, <2>3, <3>1
    <3>3. g[<<d, m>>] = Follow(d, m)
      BY <3>2 DEF Classes
    <3>4. Follow(d, m) = IF Own(d, m) THEN Nxt(d, m) ELSE Nxt(112, m)
      BY <1>2, <3>2, Defaults DEF Follow
    <3>5. QED
      BY <2>3, <3>1, <3>3, <3>4 DEF Follow
  <2>4. QED
    BY <2>2, <2>3
<1>4. g = [y \in D |-> R(g, y[1], y[2])]
  BY <1>3 DEF Classes
<1>5. yy_next = [y \in D |-> R(yy_next, y[1], y[2])]
  <2>1. yy_next = CHOOSE f : f = [y \in D |-> R(f, y[1], y[2])]
    BY DEF yy_next, Own, Nxt, Default, Meta
  <2> HIDE DEF g, R
  <2>2. QED
    BY <1>4, <2>1
<1>6. \A t \in 1 .. 114, x \in Classes : yy_next[<<t, x>>] = R(yy_next, t, x)
  <2>1. \A y \in D : yy_next[y] = R(yy_next, y[1], y[2])
    <3> HIDE DEF R
    <3>1. QED
      BY <1>5
  <2> HIDE DEF R
  <2>2. QED
    BY <2>1 DEF Classes
<1>7. CASE Own(s, c)
  BY <1>6, <1>7 DEF Follow
<1>8. CASE ~Own(s, c)
  <2>1. PICK d, m : d = Default(s) /\ m = Meta(s, c)
    OBVIOUS
  <2>2. d \in {1, 112, 113, 114} /\ m \in Classes
    BY <1>1, <1>8, <2>1
  <2>3. yy_next[<<s, c>>] = yy_next[<<d, m>>]
    BY <1>6, <1>8, <2>1
  <2>4. yy_next[<<d, m>>] = IF Own(d, m) THEN Nxt(d, m) ELSE yy_next[<<112, m>>]
    <3>1. d \in 1 .. 114
      BY <2>2
    <3>2. yy_next[<<d, m>>] = R(yy_next, d, m)
      <4> HIDE DEF R
      <4>1. QED
        BY <1>6, <2>2, <3>1, ZenonT(60)
    <3>3. CASE Own(d, m)
      BY <3>2, <3>3
    <3>4. CASE ~Own(d, m)
      <4>1. Default(d) = 112 /\ Meta(d, m) = m
        BY <1>2, <2>2, <3>4
      <4>2. QED
        BY <3>2, <3>4, <4>1
    <3>5. QED
      BY <3>3, <3>4
  <2>5. yy_next[<<112, m>>] = Nxt(112, m)
    <3>1. yy_next[<<112, m>>] = R(yy_next, 112, m)
      <4> HIDE DEF R
      <4>1. 112 \in 1 .. 114
        OBVIOUS
      <4>2. QED
        BY <1>6, <2>2, <4>1, ZenonT(60)
    <3>2. QED
      BY <2>2, <3>1, Defaults
  <2>6. QED
    BY <1>8, <2>1, <2>3, <2>4, <2>5 DEF Follow
<1>9. QED
  BY <1>7, <1>8

\* The end-of-buffer mark leads every state to state 3, whose action is
\* YY_END_OF_BUFFER, and from there to the jam state.
LEMMA MarkStates ==
  ASSUME NEW s \in States
  PROVE  Follow(s, 0) = IF s = 3 THEN 112 ELSE 3
BY DEF States, Follow, Own, Nxt, Default, Meta, yy_chk, yy_nxt, yy_base, yy_def, yy_meta

\* On a character, the entries lead to the states behind a text.
LEMMA OwnStates ==
  ASSUME NEW s \in 1 .. 114, NEW c \in 1 .. 53, Own(s, c)
  PROVE  Nxt(s, c) \in 4 .. 112
BY SMTT(180) DEF Own, Nxt, yy_chk, yy_nxt, yy_base

\* Any other character leads to one of the states behind a text.
LEMMA CharStates ==
  ASSUME NEW s \in States, NEW c \in 1 .. 53
  PROVE  Follow(s, c) \in 4 .. 112
<1>1. \A x \in 1 .. 53 : yy_meta[x + 1] \in 1 .. 53
  BY DEF yy_meta
<1>2. s \in 1 .. 114 /\ c \in Classes /\ 112 \in 1 .. 114
  BY DEF States, Classes
<1>3. CASE Own(s, c)
  BY <1>2, <1>3, OwnStates DEF Follow
<1>4. CASE ~Own(s, c)
  <2>1. PICK d, m : d = Default(s) /\ m = Meta(s, c)
    OBVIOUS
  <2>2. d \in {1, 112, 113, 114} /\ m \in 1 .. 53
    BY <1>1, <1>2, <1>4, <2>1, Defaults DEF Meta
  <2>3. d \in 1 .. 114 /\ m \in Classes
    BY <2>2 DEF Classes
  <2>4. Own(d, m) => Nxt(d, m) \in 4 .. 112
    BY <2>2, <2>3, OwnStates
  <2>5. Nxt(112, m) \in 4 .. 112
    <3>1. Own(112, m)
      BY <2>3, Defaults
    <3>2. QED
      BY <1>2, <2>2, <3>1, OwnStates, ZenonT(60)
  <2>6. QED
    BY <1>4, <2>1, <2>4, <2>5 DEF Follow
<1>5. QED
  BY <1>3, <1>4

-----------------------------------------------------------------------------
(* The keywords and signs.  A row k of each table has the characters of one,  *)
(* their classes, and the states that the automaton is in behind each of them *)

\* How long each keyword or sign is; odd rows are in capitals, even rows in small
\* letters, up to row 22.
KeyLen == <<6, 6, 4, 4, 5, 5, 4, 4, 4, 4, 5, 5, 4, 4, 4, 4, 8, 8, 3, 3, 2, 2, 1, 2, 1, 1, 2, 2,
            1, 1, 1, 2, 1>>

\* Their characters, eight places a row.
KeyChars == <<83, 69, 76, 69, 67, 84, 0, 0, 115, 101, 108, 101, 99, 116, 0, 0, 70, 82, 79, 77,
              0, 0, 0, 0, 102, 114, 111, 109, 0, 0, 0, 0, 87, 72, 69, 82, 69, 0, 0, 0, 119, 104,
              101, 114, 101, 0, 0, 0, 76, 79, 65, 68, 0, 0, 0, 0, 108, 111, 97, 100, 0, 0, 0, 0,
              87, 73, 84, 72, 0, 0, 0, 0, 119, 105, 116, 104, 0, 0, 0, 0, 73, 78, 68, 69, 88, 0,
              0, 0, 105, 110, 100, 101, 120, 0, 0, 0, 81, 85, 73, 84, 0, 0, 0, 0, 113, 117, 105,
              116, 0, 0, 0, 0, 69, 88, 73, 84, 0, 0, 0, 0, 101, 120, 105, 116, 0, 0, 0, 0, 67,
              79, 85, 78, 84, 40, 42, 41, 99, 111, 117, 110, 116, 40, 42, 41, 65, 78, 68, 0, 0,
              0, 0, 0, 97, 110, 100, 0, 0, 0, 0, 0, 79, 82, 0, 0, 0, 0, 0, 0, 111, 114, 0, 0, 0,
              0, 0, 0, 61, 0, 0, 0, 0, 0, 0, 0, 60, 62, 0, 0, 0, 0, 0, 0, 62, 0, 0, 0, 0, 0, 0,
              0, 60, 0, 0, 0, 0, 0, 0, 0, 62, 61, 0, 0, 0, 0, 0, 0, 60, 61, 0, 0, 0, 0, 0, 0,
              44, 0, 0, 0, 0, 0, 0, 0, 42, 0, 0, 0, 0, 0, 0, 0, 10, 0, 0, 0, 0, 0, 0, 0, 13, 10,
              0, 0, 0, 0, 0, 0, 59, 0, 0, 0, 0, 0, 0, 0>>

\* The state behind each character.
KeyStates == <<26, 55, 75, 93, 102, 107, 0, 0, 36, 65, 84, 98, 105, 107, 0, 0, 21, 50, 71, 89,
               0, 0, 0, 0, 31, 61, 80, 89, 0, 0, 0, 0, 27, 56, 76, 94, 103, 0, 0, 0, 37, 66, 85,
               99, 103, 0, 0, 0, 23, 52, 73, 91, 0, 0, 0, 0, 33, 63, 82, 91, 0, 0, 0, 0, 27, 57,
               77, 95, 0, 0, 0, 0, 37, 67, 86, 95, 0, 0, 0, 0, 22, 51, 72, 90, 101, 0, 0, 0, 32,
               62, 81, 97, 101, 0, 0, 0, 25, 54, 74, 92, 0, 0, 0, 0, 35, 64, 83, 92, 0, 0, 0, 0,
               20, 49, 70, 88, 0, 0, 0, 0, 30, 60, 79, 88, 0, 0, 0, 0, 19, 48, 69, 87, 100, 106,
               109, 111, 29, 59, 78, 96, 104, 108, 110, 111, 17, 47, 68, 0, 0, 0, 0, 0, 28, 58,
               68, 0, 0, 0, 0, 0, 24, 53, 0, 0, 0, 0, 0, 0, 34, 53, 0, 0, 0, 0, 0, 0, 15, 0, 0,
               0, 0, 0, 0, 0, 14, 44, 0, 0, 0, 0, 0, 0, 16, 0, 0, 0, 0, 0, 0, 0, 14, 0, 0, 0, 0,
               0, 0, 0, 16, 45, 0, 0, 0, 0, 0, 0, 14, 43, 0, 0, 0, 0, 0, 0, 10, 0, 0, 0, 0, 0,
               0, 0, 9, 0, 0, 0, 0, 0, 0, 0, 6, 0, 0, 0, 0, 0, 0, 0, 7, 39, 0, 0, 0, 0, 0, 0,
               13, 0, 0, 0, 0, 0, 0, 0>>

\* The other rows that begin with the same character as this one: none, one or
\* two.
Kin1 == <<1, 2, 3, 4, 9, 10, 7, 8, 5, 6, 11, 12, 13, 14, 15, 16, 17, 18, 19, 20, 21, 22, 23, 26,
          27, 24, 25, 24, 29, 30, 31, 32, 33>>
Kin2 == <<1, 2, 3, 4, 5, 6, 7, 8, 9, 10, 11, 12, 13, 14, 15, 16, 17, 18, 19, 20, 21, 22, 23, 28,
          25, 28, 27, 26, 29, 30, 31, 32, 33>>

\* The rule that each row belongs to.
KeyRule == <<1, 1, 2, 2, 3, 3, 4, 4, 5, 5, 6, 6, 7, 7, 8, 8, 9, 9, 10, 10, 11, 11, 12, 13, 14,
             15, 16, 17, 21, 22, 23, 23, 24>>

\* The class of each character.
KeyClasses == <<30, 20, 24, 20, 18, 31, 0, 0, 49, 39, 43, 39, 37, 50, 0, 0, 21, 29, 27, 25, 0,
                0, 0, 0, 40, 48, 46, 44, 0, 0, 0, 0, 33, 22, 20, 29, 20, 0, 0, 0, 52, 41, 39,
                48, 39, 0, 0, 0, 24, 27, 16, 19, 0, 0, 0, 0, 43, 46, 36, 38, 0, 0, 0, 0, 33, 23,
                31, 22, 0, 0, 0, 0, 52, 42, 50, 41, 0, 0, 0, 0, 23, 26, 19, 20, 34, 0, 0, 0, 42,
                45, 38, 39, 53, 0, 0, 0, 28, 32, 23, 31, 0, 0, 0, 0, 47, 51, 42, 50, 0, 0, 0, 0,
                20, 34, 23, 31, 0, 0, 0, 0, 39, 53, 42, 50, 0, 0, 0, 0, 18, 27, 32, 26, 31, 6,
                8, 7, 37, 46, 51, 45, 50, 6, 8, 7, 16, 26, 19, 0, 0, 0, 0, 0, 36, 45, 38, 0, 0,
                0, 0, 0, 27, 29, 0, 0, 0, 0, 0, 0, 46, 48, 0, 0, 0, 0, 0, 0, 14, 0, 0, 0, 0, 0,
                0, 0, 13, 15, 0, 0, 0, 0, 0, 0, 15, 0, 0, 0, 0, 0, 0, 0, 13, 0, 0, 0, 0, 0, 0,
                0, 15, 14, 0, 0, 0, 0, 0, 0, 13, 14, 0, 0, 0, 0, 0, 0, 9, 0, 0, 0, 0, 0, 0, 0,
                8, 0, 0, 0, 0, 0, 0, 0, 3, 0, 0, 0, 0, 0, 0, 0, 4, 3, 0, 0, 0, 0, 0, 0, 12, 0,
                0, 0, 0, 0, 0, 0>>
Keys == 1 .. 33

\* Character i of row k, its class, and the state behind it.
KeyChar(k, i) == KeyChars[8 * (k - 1) + i]
KeyCl(k, i) == KeyClasses[8 * (k - 1) + i]
KeyState(k, i) == KeyStates[8 * (k - 1) + i]

\* The states in which what was read is the beginning of a name; the classes of
\* the characters that a name goes on with; what a keyword is left for.
IdStates == (17 .. 37) \cup (46 .. 105) \cup {107}
IdClasses == {10, 11} \cup (16 .. 53)
Fallen(s, x) == IF s \in IdStates /\ x \in IdClasses THEN 46 ELSE 112

\* No keyword is longer than COUNT(*).
LEMMA KeyLengths == \A k \in Keys : KeyLen[k] \in 1 .. 8
BY DEF Keys, KeyLen

\* The characters that keywords and signs are made of.
LEMMA KeyCharacters ==
  ASSUME NEW k \in Keys, NEW i \in 1 .. 8, i <= KeyLen[k]
  PROVE  KeyChar(k, i) \in {10, 13, 40, 41, 42, 44, 59, 60, 61, 62} \cup (65 .. 90) \cup (97 .. 122)
BY DEF Keys, KeyLen, KeyChar, KeyChars

\* No other character has the class of a keyword's character: yy_ec keeps them
\* apart.
LEMMA KeyClass ==
  ASSUME NEW k \in Keys, NEW i \in 1 .. 8, i <= KeyLen[k], NEW c \in 1 .. 255
  PROVE  yy_ec(c) = KeyCl(k, i) <=> c = KeyChar(k, i)
<1>1. PICK d : d = KeyChar(k, i)
  OBVIOUS
<1>2. PICK x : x = KeyCl(k, i)
  OBVIOUS
<1>3. (d = 10 /\ x = 3) \/ (d = 13 /\ x = 4) \/ (d \in 40 .. 42 /\ x = d - 34) \/ (d \in 59 .. 62 /\ x = d - 47)
      \/ (d = 44 /\ x = 9) \/ (d \in 65 .. 90 /\ x = Upper[d - 64] /\ x # 17) \/ (d \in 97 .. 122 /\ x = Lower[d - 96] /\ x # 17)
  BY <1>1, <1>2 DEF Keys, KeyChar, KeyCl, KeyLen, KeyChars, KeyClasses, Upper, Lower
<1>4. QED
  BY <1>1, <1>2, <1>3 DEF Keys, yy_ec, Upper, Lower

\* The first character of a keyword leads from the start to its first state.
LEMMA KeyStarts ==
  ASSUME NEW k \in Keys
  PROVE  Follow(1, KeyCl(k, 1)) = KeyState(k, 1)
BY DEF Keys, KeyCl, KeyState, KeyClasses, KeyStates, Follow, Own, Nxt, Default, Meta, yy_chk,
   yy_nxt, yy_base, yy_def, yy_meta

\* Each further character leads to the next state of the keyword.
LEMMA KeyGoesOn ==
  ASSUME NEW k \in Keys, NEW n \in 1 .. 7, n < KeyLen[k]
  PROVE  Follow(KeyState(k, n), KeyCl(k, n + 1)) = KeyState(k, n + 1)
<1>1. Own(KeyState(k, n), KeyCl(k, n + 1)) /\ Nxt(KeyState(k, n), KeyCl(k, n + 1)) = KeyState(k, n + 1)
  BY DEF Keys, KeyLen, KeyCl, KeyState, KeyClasses, KeyStates, Own, Nxt, yy_chk, yy_nxt, yy_base
<1>2. QED
  BY <1>1 DEF Follow

\* The template of the names, state 114, goes to 46 on the classes of IdClasses,
\* and state 112 ends everything.
LEMMA Templates ==
  /\ \A x \in 1 .. 53 : /\ yy_meta[x + 1] \in {1, 2} /\ (yy_meta[x + 1] = 2 <=> x \in IdClasses)
                        /\ Nxt(112, x) = 112
  /\ ~Own(114, 1) /\ Own(114, 2) /\ Nxt(114, 2) = 46
BY DEF Nxt, Own, yy_chk, yy_nxt, yy_base, yy_meta, IdClasses

\* A state without an entry of its own falls to its template.
LEMMA LeftTo ==
  ASSUME NEW s \in States, NEW x \in 1 .. 53, ~Own(s, x),
         s \in IdStates => Default(s) = 114, s \notin IdStates => Default(s) = 112
  PROVE  Follow(s, x) = Fallen(s, x)
<1>1. x \in Classes /\ 1 \in 1 .. 53 /\ 2 \in 1 .. 53
  BY DEF Classes
<1>2. CASE s \notin IdStates
  <2>1. Default(s) = 112 /\ Meta(s, x) = x /\ Own(112, x) /\ Nxt(112, x) = 112
    BY <1>1, <1>2, Defaults, Templates DEF Meta
  <2>2. QED
    BY <1>2, <2>1 DEF Follow, Fallen
<1>3. CASE s \in IdStates /\ x \in IdClasses
  <2>1. Default(s) = 114 /\ Meta(s, x) = 2
    BY <1>3, Templates DEF Meta
  <2>2. QED
    BY <1>3, <2>1, Templates DEF Follow, Fallen
<1>4. CASE s \in IdStates /\ x \notin IdClasses
  <2>1. Default(s) = 114 /\ Meta(s, x) = 1
    BY <1>4, Templates DEF Meta
  <2>2. Nxt(112, 1) = 112
    BY <1>1, Templates
  <2>3. QED
    BY <1>4, <2>1, <2>2, Templates DEF Follow, Fallen
<1>5. QED
  BY <1>2, <1>3, <1>4

\* The template of a keyword's state is that of the names, or state 112.
LEMMA KeyDefault ==
  ASSUME NEW k \in Keys, NEW n \in 1 .. 8, n <= KeyLen[k]
  PROVE  /\ KeyState(k, n) \in States
         /\ KeyState(k, n) \in IdStates => Default(KeyState(k, n)) = 114
         /\ KeyState(k, n) \notin IdStates => Default(KeyState(k, n)) = 112
BY DEF Keys, KeyLen, KeyState, KeyStates, States, IdStates, Default, yy_def

\* Behind two characters or more, any character but the keyword's next leads out
\* of it: into a name, or nowhere.
LEMMA KeyIsLeft ==
  ASSUME NEW k \in Keys, NEW n \in 2 .. 8, n <= KeyLen[k], NEW x \in 1 .. 53,
         ~(n < KeyLen[k] /\ x = KeyCl(k, n + 1))
  PROVE  Follow(KeyState(k, n), x) = Fallen(KeyState(k, n), x)
<1>1. ~Own(KeyState(k, n), x)
  BY SMTT(60) DEF Keys, KeyLen, KeyState, KeyCl, KeyClasses, KeyStates, Own, yy_chk, yy_base
<1>2. n \in 1 .. 8
  OBVIOUS
<1>3. QED
  BY <1>1, <1>2, KeyDefault, LeftTo

\* Behind one character, so does any that goes on with none of the rows that
\* begin alike.
LEMMA KeyIsLeftFirst ==
  ASSUME NEW k \in Keys, NEW x \in 1 .. 53, ~(1 < KeyLen[k] /\ x = KeyCl(k, 2)),
         ~(1 < KeyLen[Kin1[k]] /\ x = KeyCl(Kin1[k], 2)),
         ~(1 < KeyLen[Kin2[k]] /\ x = KeyCl(Kin2[k], 2))
  PROVE  Follow(KeyState(k, 1), x) = Fallen(KeyState(k, 1), x)
<1>1. ~Own(KeyState(k, 1), x)
  BY SMTT(60) DEF Keys, KeyLen, KeyState, KeyCl, KeyClasses, KeyStates, Own, yy_chk, yy_base,
     Kin1, Kin2
<1>2. 1 \in 1 .. 8 /\ 1 <= KeyLen[k]
  BY KeyLengths
<1>3. QED
  BY <1>1, <1>2, KeyDefault, LeftTo

\* The rows of Kin1 and Kin2 begin with the same character.
LEMMA KinStart ==
  ASSUME NEW k \in Keys
  PROVE  KeyChar(Kin1[k], 1) = KeyChar(k, 1) /\ KeyChar(Kin2[k], 1) = KeyChar(k, 1)
BY DEF Keys, KeyChars, KeyChar, Kin1, Kin2

-----------------------------------------------------------------------------
(* The classes and the states of the rules that have no fixed text *)

\* The characters of a name.
InId(c) == Letter(c) \/ Digit(c) \/ c \in {MINUS, 95}

\* The classes with which keywords and signs begin.
FirstClasses == {3, 4, 8, 9} \cup (12 .. 16) \cup {18, 20, 21, 23, 24, 27, 28, 30, 33, 36, 37, 39, 40, 42, 43, 46, 47, 49, 52}

\* What yy_ec tells of a character: whether it is a letter, a digit, a minus, a
\* quote, a blank, or may be in a name.
LEMMA Classify ==
  ASSUME NEW c \in 1 .. 255
  PROVE  /\ yy_ec(c) \in 1 .. 53
         /\ yy_ec(c) \in IdClasses <=> InId(c)
         /\ yy_ec(c) \in (16 .. 53) \ {35} <=> Letter(c)
         /\ yy_ec(c) = 11 <=> Digit(c)
         /\ yy_ec(c) = 10 <=> c = MINUS
         /\ yy_ec(c) = 5 <=> c = QUOTE
         /\ yy_ec(c) = 2 <=> c \in {9, 32}
<1>1. CASE c \in 65 .. 90
  BY <1>1 DEF yy_ec, IdClasses, InId, Letter, Digit, MINUS, QUOTE, Upper
<1>2. CASE c \in 97 .. 122
  BY <1>2 DEF yy_ec, IdClasses, InId, Letter, Digit, MINUS, QUOTE, Lower
<1>3. CASE c \notin 65 .. 90 /\ c \notin 97 .. 122
  BY <1>3 DEF yy_ec, IdClasses, InId, Letter, Digit, MINUS, QUOTE
<1>4. QED
  BY <1>1, <1>2, <1>3

\* The mark has a class of its own.
LEMMA ClassOfMark == yy_ec(0) = 0
BY DEF yy_ec

\* The first state of a text that begins like no keyword: a blank, a quote, a
\* minus, a digit, a name or any other character.
LEMMA FirstState ==
  ASSUME NEW x \in (1 .. 53) \ FirstClasses
  PROVE  Follow(1, x) = IF x = 2 THEN 5 ELSE IF x = 5 THEN 8 ELSE IF x = 10 THEN 11 ELSE IF x = 11 THEN 12
                        ELSE IF x \in (16 .. 53) \ {35} THEN 18 ELSE 4
BY SMTT(180) DEF FirstClasses, Follow, Own, Nxt, Default, Meta, yy_chk, yy_nxt, yy_base,
   yy_def, yy_meta

\* Each of FirstClasses begins a keyword or sign.
LEMMA FirstKeys == \A x \in FirstClasses : \E k \in Keys : KeyCl(k, 1) = x
<1>1. /\ KeyCl(31, 1) = 3 /\ KeyCl(32, 1) = 4 /\ KeyCl(30, 1) = 8 /\ KeyCl(29, 1) = 9 /\ KeyCl(33, 1) = 12 /\ KeyCl(24, 1) = 13 /\ KeyCl(23, 1) = 14 /\ KeyCl(25, 1) = 15
      /\ KeyCl(19, 1) = 16 /\ KeyCl(17, 1) = 18 /\ KeyCl(15, 1) = 20 /\ KeyCl(3, 1) = 21 /\ KeyCl(11, 1) = 23 /\ KeyCl(7, 1) = 24 /\ KeyCl(21, 1) = 27
      /\ KeyCl(13, 1) = 28 /\ KeyCl(1, 1) = 30 /\ KeyCl(5, 1) = 33 /\ KeyCl(20, 1) = 36 /\ KeyCl(18, 1) = 37 /\ KeyCl(16, 1) = 39 /\ KeyCl(4, 1) = 40
      /\ KeyCl(12, 1) = 42 /\ KeyCl(8, 1) = 43 /\ KeyCl(22, 1) = 46 /\ KeyCl(14, 1) = 47 /\ KeyCl(2, 1) = 49 /\ KeyCl(6, 1) = 52
  BY DEF KeyCl, KeyClasses
<1>2. QED
  BY <1>1 DEF FirstClasses, Keys

\* How the states of names, integers, strings and blanks go on, and that the
\* other states end.
LEMMA Shapes ==
  ASSUME NEW x \in 1 .. 53
  PROVE  /\ \A s \in {18, 46} : (x \in IdClasses => Follow(s, x) = 46) /\ (x \notin IdClasses => Follow(s, x) = 112)
         /\ \A s \in {11, 12, 42} : (x = 11 => Follow(s, x) = 42) /\ (x # 11 => Follow(s, x) = 112)
         /\ \A s \in {8, 40} : (x = 5 => Follow(s, x) = 41) /\ (x # 5 => Follow(s, x) = 40)
         /\ \A s \in {5, 38} : (x = 2 => Follow(s, x) = 38) /\ (x # 2 => Follow(s, x) = 112)
         /\ \A s \in {4, 41, 112} : Follow(s, x) = 112
<1>1. \A s \in {18, 46} : (x \in IdClasses => Follow(s, x) = 46) /\ (x \notin IdClasses => Follow(s, x) = 112)
  BY DEF IdClasses, Follow, Own, Nxt, Default, Meta, yy_chk, yy_nxt, yy_base, yy_def, yy_meta
<1>2. \A s \in {11, 12, 42} : (x = 11 => Follow(s, x) = 42) /\ (x # 11 => Follow(s, x) = 112)
  BY DEF IdClasses, Follow, Own, Nxt, Default, Meta, yy_chk, yy_nxt, yy_base, yy_def, yy_meta
<1>3. \A s \in {8, 40} : (x = 5 => Follow(s, x) = 41) /\ (x # 5 => Follow(s, x) = 40)
  BY DEF IdClasses, Follow, Own, Nxt, Default, Meta, yy_chk, yy_nxt, yy_base, yy_def, yy_meta
<1>4. \A s \in {5, 38} : (x = 2 => Follow(s, x) = 38) /\ (x # 2 => Follow(s, x) = 112)
  BY DEF IdClasses, Follow, Own, Nxt, Default, Meta, yy_chk, yy_nxt, yy_base, yy_def, yy_meta
<1>5. \A s \in {4, 41, 112} : Follow(s, x) = 112
  BY DEF IdClasses, Follow, Own, Nxt, Default, Meta, yy_chk, yy_nxt, yy_base, yy_def, yy_meta
<1>6. QED
  BY <1>1, <1>2, <1>3, <1>4, <1>5

\* Rows that begin with the same character are kin.
LEMMA KinOf ==
  ASSUME NEW k \in Keys, NEW j \in Keys, KeyChar(k, 1) = KeyChar(j, 1)
  PROVE  j \in {k, Kin1[k], Kin2[k]}
BY SMTT(60) DEF Keys, KeyChar, KeyChars, Kin1, Kin2

\* Two rows of at least two characters that agree in the first two are the same
\* row.
LEMMA Twins ==
  ASSUME NEW k \in Keys, NEW j \in Keys, KeyLen[k] >= 2, KeyLen[j] >= 2,
         KeyChar(k, 1) = KeyChar(j, 1), KeyChar(k, 2) = KeyChar(j, 2)
  PROVE  j = k
<1>1. j \in {k, Kin1[k], Kin2[k]}
  BY KinOf
<1>2. QED
  BY <1>1 DEF Keys, KeyLen, KeyChar, KeyChars, Kin1, Kin2

\* A keyword's letters make a name, and COUNT(*) does up to its parenthesis: the
\* states say so.
LEMMA KeyIsId ==
  ASSUME NEW k \in Keys, NEW n \in 1 .. 8, n <= KeyLen[k]
  PROVE  /\ KeyState(k, n) \in IdStates <=> k <= 22 /\ ~(k \in {17, 18} /\ n > 5)
         /\ InId(KeyChar(k, n)) <=> k <= 22 /\ ~(k \in {17, 18} /\ n > 5)
         /\ InId(KeyChar(k, n)) <=> Letter(KeyChar(k, n))
         /\ KeyState(k, n) # 112
BY DEF Keys, KeyLen, KeyState, KeyStates, IdStates, KeyChar, KeyChars, InId, Letter, Digit, MINUS

-----------------------------------------------------------------------------
(* What a state says of the text that has been read.  Says(s, t, n): behind   *)
(* the first n characters of t the automaton may be in s.                      *)

\* The texts: sequences of characters without NUL, which ends the buffer.
Bytes == 1 .. 255
Texts == Seq(Bytes)

\* The characters of a text are codes.
LEMMA Elements ==
  ASSUME NEW t \in Texts
  PROVE  Len(t) \in Nat /\ DOMAIN t = 1 .. Len(t) /\ \A i \in 1 .. Len(t) : t[i] \in 1 .. 255
<1>1. \A i \in 1 .. Len(t) : t[i] \in Bytes
  BY DEF Texts
<1>2. QED
  BY <1>1 DEF Texts, Bytes

\* The first n characters of t begin the row k, or the text of a rule without a
\* fixed text; a sign without digits, one character that begins nothing, and a
\* text that no rule matches and that can become none.
Begins(k, t, n) == n <= KeyLen[k] /\ \A i \in 1 .. n : t[i] = KeyChar(k, i)
NoKey(t, n)     == \A k \in Keys : ~Begins(k, t, n)
IdTo(t, n)      == Letter(t[1]) /\ \A i \in 1 .. n : InId(t[i])
IntTo(t, n)     == (Digit(t[1]) \/ (n >= 2 /\ t[1] = MINUS)) /\ \A i \in 2 .. n : Digit(t[i])
OpenTo(t, n)    == t[1] = QUOTE /\ \A i \in 2 .. n : t[i] # QUOTE
QuotedTo(t, n)  == n >= 2 /\ OpenTo(t, n - 1) /\ t[n] = QUOTE
BlankTo(t, n)   == \A i \in 1 .. n : t[i] \in {9, 32}
Sign(t, n)      == n = 1 /\ t[1] = MINUS
Other(t, n)     == n = 1 /\ ~Letter(t[1]) /\ ~Digit(t[1]) /\ t[1] \notin {9, 32, MINUS, QUOTE}
Dead(t, n)      == /\ n >= 2 /\ NoKey(t, n)
                   /\ ~IdTo(t, n) /\ ~IntTo(t, n) /\ ~OpenTo(t, n) /\ ~QuotedTo(t, n) /\ ~BlankTo(t, n)

\* The state s is behind the first n characters of t: in a keyword, or in the
\* text of another rule.
KeySays(s, t, n) == \E k \in Keys : Begins(k, t, n) /\ s = KeyState(k, n)
ShapeSays(s, t, n) ==
  \/ IdTo(t, n) /\ s \in {18, 46}
  \/ IntTo(t, n) /\ s \in {12, 42}
  \/ Sign(t, n) /\ s = 11
  \/ OpenTo(t, n) /\ s = (IF n = 1 THEN 8 ELSE 40)
  \/ QuotedTo(t, n) /\ s = 41
  \/ BlankTo(t, n) /\ s \in {5, 38}
  \/ Other(t, n) /\ s = 4
  \/ Dead(t, n) /\ s = 112
Says(s, t, n) == KeySays(s, t, n) \/ (NoKey(t, n) /\ ShapeSays(s, t, n))

\* Each of these shapes for n + 1 characters follows from those for n and from
\* the character that comes.
LEMMA Longer ==
  ASSUME NEW t \in Texts, NEW n \in 1 .. Len(t) - 1
  PROVE  /\ IdTo(t, n + 1) <=> IdTo(t, n) /\ InId(t[n + 1])
         /\ IntTo(t, n + 1) <=> (IntTo(t, n) \/ Sign(t, n)) /\ Digit(t[n + 1])
         /\ OpenTo(t, n + 1) <=> OpenTo(t, n) /\ t[n + 1] # QUOTE
         /\ QuotedTo(t, n + 1) <=> OpenTo(t, n) /\ t[n + 1] = QUOTE
         /\ BlankTo(t, n + 1) <=> BlankTo(t, n) /\ t[n + 1] \in {9, 32}
         /\ \A k \in Keys : Begins(k, t, n + 1) <=> Begins(k, t, n) /\ n < KeyLen[k] /\ t[n + 1] = KeyChar(k, n + 1)
<1>1. n \in Nat /\ n >= 1 /\ n + 1 >= 2 /\ n + 1 # 1
  BY Elements
<1>2. 1 .. n + 1 = 1 .. n \cup {n + 1} /\ 2 .. n + 1 = 2 .. n \cup {n + 1}
  BY <1>1
<1>3. IdTo(t, n + 1) <=> IdTo(t, n) /\ InId(t[n + 1])
  BY <1>2 DEF IdTo
<1>4. IntTo(t, n + 1) <=> (IntTo(t, n) \/ Sign(t, n)) /\ Digit(t[n + 1])
  <2>1. IntTo(t, n + 1) <=> (Digit(t[1]) \/ t[1] = MINUS) /\ (\A i \in 2 .. n : Digit(t[i])) /\ Digit(t[n + 1])
    BY <1>1, <1>2 DEF IntTo
  <2>2. ~Digit(MINUS)
    BY DEF Digit, MINUS
  <2>3. IntTo(t, n) \/ Sign(t, n) <=> (Digit(t[1]) \/ t[1] = MINUS) /\ \A i \in 2 .. n : Digit(t[i])
    <3>1. CASE n = 1
      BY <3>1 DEF IntTo, Sign
    <3>2. CASE n >= 2
      BY <3>2 DEF IntTo, Sign
    <3>3. QED
      BY <1>1, <3>1, <3>2
  <2>4. QED
    BY <2>1, <2>3
<1>5. OpenTo(t, n + 1) <=> OpenTo(t, n) /\ t[n + 1] # QUOTE
  BY <1>1, <1>2 DEF OpenTo
<1>6. QuotedTo(t, n + 1) <=> OpenTo(t, n) /\ t[n + 1] = QUOTE
  BY <1>1 DEF QuotedTo
<1>7. BlankTo(t, n + 1) <=> BlankTo(t, n) /\ t[n + 1] \in {9, 32}
  BY <1>2 DEF BlankTo
<1>8. ASSUME NEW k \in Keys
      PROVE  Begins(k, t, n + 1) <=> Begins(k, t, n) /\ n < KeyLen[k] /\ t[n + 1] = KeyChar(k, n + 1)
  <2>1. PICK m : m = KeyLen[k]
    OBVIOUS
  <2>2. m \in 1 .. 8
    BY <1>8, <2>1, KeyLengths
  <2>3. n + 1 <= m <=> n <= m /\ n < m
    BY <1>1, <2>2
  <2>4. QED
    BY <1>2, <2>1, <2>3 DEF Begins
<1>9. QED
  BY <1>3, <1>4, <1>5, <1>6, <1>7, <1>8

\* The first character tells the shapes apart.
LEMMA Exclusive ==
  ASSUME NEW t \in Texts, NEW n \in 1 .. Len(t)
  PROVE  /\ IdTo(t, n) => Letter(t[1])
         /\ IntTo(t, n) \/ Sign(t, n) => Digit(t[1]) \/ t[1] = MINUS
         /\ OpenTo(t, n) \/ QuotedTo(t, n) => t[1] = QUOTE
         /\ BlankTo(t, n) => t[1] \in {9, 32}
         /\ ~(OpenTo(t, n) /\ QuotedTo(t, n))
         /\ ~(IntTo(t, n) /\ Sign(t, n))
BY DEF IdTo, IntTo, OpenTo, QuotedTo, BlankTo, Sign, Digit, MINUS

\* The kinds of characters exclude each other.
LEMMA CharKinds ==
  ASSUME NEW c \in 1 .. 255
  PROVE  /\ Letter(c) => ~Digit(c) /\ c \notin {9, 32, MINUS, QUOTE} /\ InId(c)
         /\ Digit(c) => c \notin {9, 32, MINUS, QUOTE} /\ InId(c)
         /\ MINUS \notin {9, 32, QUOTE} /\ QUOTE \notin {9, 32}
BY DEF Letter, Digit, MINUS, QUOTE, InId

\* No keyword begins with a digit, a minus, a quote or a blank.
LEMMA KeyFirst ==
  ASSUME NEW k \in Keys
  PROVE  ~Digit(KeyChar(k, 1)) /\ KeyChar(k, 1) \notin {9, 32, MINUS, QUOTE}
BY DEF Keys, KeyChar, KeyChars, Digit, MINUS, QUOTE

\* The first transition leads to a state that is right about the first character.
LEMMA FirstSays ==
  ASSUME NEW t \in Texts, Len(t) >= 1
  PROVE  Says(Follow(1, yy_ec(t[1])), t, 1)
<1>1. t[1] \in 1 .. 255
  BY Elements
<1>2. CASE \E k \in Keys : t[1] = KeyChar(k, 1)
  <2>1. PICK k \in Keys : t[1] = KeyChar(k, 1)
    BY <1>2
  <2>2. Begins(k, t, 1)
    <3>1. KeyLen[k] \in 1 .. 8
      BY KeyLengths
    <3>2. \A i \in 1 .. 1 : i = 1
      OBVIOUS
    <3>3. QED
      BY <2>1, <3>1, <3>2 DEF Begins
  <2>3. yy_ec(t[1]) = KeyCl(k, 1)
    <3>1. KeyLen[k] \in 1 .. 8
      BY KeyLengths
    <3>2. 1 \in 1 .. 8 /\ 1 <= KeyLen[k]
      BY <3>1
    <3>3. QED
      BY <1>1, <2>1, <3>2, KeyClass
  <2>4. Follow(1, yy_ec(t[1])) = KeyState(k, 1)
    BY <2>3, KeyStarts
  <2>5. QED
    BY <2>2, <2>4 DEF Says, KeySays
<1>3. CASE \A k \in Keys : t[1] # KeyChar(k, 1)
  <2>1. NoKey(t, 1)
    BY <1>3 DEF NoKey, Begins
  <2>2. yy_ec(t[1]) \notin FirstClasses
    <3>1. SUFFICES ASSUME yy_ec(t[1]) \in FirstClasses PROVE FALSE
      OBVIOUS
    <3>2. PICK k \in Keys : KeyCl(k, 1) = yy_ec(t[1])
      BY <3>1, FirstKeys
    <3>3. KeyLen[k] \in 1 .. 8
      BY KeyLengths
    <3>4. 1 \in 1 .. 8 /\ 1 <= KeyLen[k]
      BY <3>3
    <3>5. t[1] = KeyChar(k, 1)
      BY <1>1, <3>2, <3>4, KeyClass
    <3>6. QED
      BY <1>3, <3>5
  <2>3. PICK c, x : c = t[1] /\ x = yy_ec(t[1])
    OBVIOUS
  <2>4. c \in 1 .. 255 /\ x \in (1 .. 53) \ FirstClasses
    BY <1>1, <2>2, <2>3, Classify
  <2>5. Follow(1, x) = IF c \in {9, 32} THEN 5 ELSE IF c = QUOTE THEN 8 ELSE IF c = MINUS THEN 11 ELSE IF Digit(c) THEN 12
                        ELSE IF Letter(c) THEN 18 ELSE 4
    BY <2>3, <2>4, FirstState, Classify
  <2>6. /\ IdTo(t, 1) <=> Letter(c)
        /\ IntTo(t, 1) <=> Digit(c)
        /\ Sign(t, 1) <=> c = MINUS
        /\ OpenTo(t, 1) <=> c = QUOTE
        /\ BlankTo(t, 1) <=> c \in {9, 32}
        /\ Other(t, 1) <=> ~Letter(c) /\ ~Digit(c) /\ c \notin {9, 32, MINUS, QUOTE}
    <3>1. (\A i \in 1 .. 1 : i = 1) /\ \A i \in 2 .. 1 : FALSE
      OBVIOUS
    <3>2. Letter(c) => InId(c)
      BY <2>4, CharKinds
    <3>3. QED
      BY <2>3, <3>1, <3>2 DEF IdTo, IntTo, Sign, OpenTo, BlankTo, Other
  <2>7. ShapeSays(Follow(1, x), t, 1)
    BY <2>4, <2>5, <2>6, CharKinds DEF ShapeSays
  <2>8. QED
    BY <2>1, <2>3, <2>7 DEF Says
<1>4. QED
  BY <1>2, <1>3

\* Rows that begin alike share their first state.
LEMMA KinStates ==
  ASSUME NEW k \in Keys
  PROVE  \A j \in {Kin1[k], Kin2[k]} : j \in Keys /\ KeyChar(j, 1) = KeyChar(k, 1) /\ KeyState(j, 1) = KeyState(k, 1)
BY DEF Keys, Kin1, Kin2, KeyChar, KeyChars, KeyState, KeyStates

\* Of a text that begins like a row, the rows that begin alike begin with it too.
LEMMA KinBegins ==
  ASSUME NEW t, NEW k \in Keys, t[1] = KeyChar(k, 1)
  PROVE  \A j \in {k, Kin1[k], Kin2[k]} : Begins(j, t, 1)
<1>1. ASSUME NEW j \in {k, Kin1[k], Kin2[k]} PROVE Begins(j, t, 1)
  <2>1. j \in Keys /\ KeyChar(j, 1) = KeyChar(k, 1)
    BY <1>1, KinStates
  <2>2. KeyLen[j] \in 1 .. 8
    BY <2>1, KeyLengths
  <2>3. QED
    BY <2>1, <2>2 DEF Begins
<1>2. QED
  BY <1>1

\* A text that begins a keyword is a name as far as its state says, and nothing
\* else.
LEMMA KeyShape ==
  ASSUME NEW t \in Texts, NEW n \in 1 .. Len(t), NEW k \in Keys, Begins(k, t, n)
  PROVE  /\ n \in 1 .. 8 /\ n <= KeyLen[k] /\ t[1] = KeyChar(k, 1)
         /\ IdTo(t, n) <=> KeyState(k, n) \in IdStates
         /\ ~IntTo(t, n) /\ ~OpenTo(t, n) /\ ~QuotedTo(t, n) /\ ~BlankTo(t, n) /\ ~Sign(t, n)
<1>1. KeyLen[k] \in 1 .. 8
  BY KeyLengths
<1>2. n \in 1 .. 8 /\ n <= KeyLen[k] /\ \A i \in 1 .. n : t[i] = KeyChar(k, i)
  BY <1>1, Elements DEF Begins
<1>3. t[1] = KeyChar(k, 1)
  BY <1>2
<1>4. \A i \in 1 .. n : /\ KeyState(k, i) \in IdStates <=> k <= 22 /\ ~(k \in {17, 18} /\ i > 5)
                        /\ InId(KeyChar(k, i)) <=> k <= 22 /\ ~(k \in {17, 18} /\ i > 5)
                        /\ InId(KeyChar(k, i)) <=> Letter(KeyChar(k, i))
  BY <1>1, <1>2, KeyIsId, SMTT(30)
<1>5. IdTo(t, n) <=> \A i \in 1 .. n : InId(KeyChar(k, i))
  BY <1>2, <1>4 DEF IdTo
<1>6. (\A i \in 1 .. n : InId(KeyChar(k, i))) <=> InId(KeyChar(k, n))
  BY <1>2, <1>4
<1>7. ~Digit(t[1]) /\ t[1] \notin {9, 32, MINUS, QUOTE}
  BY <1>3, KeyFirst
<1>8. QED
  BY <1>2, <1>3, <1>4, <1>5, <1>6, <1>7, Exclusive

\* A transition from a state of a keyword leads to a state that is right about
\* the longer text.
LEMMA FromKey ==
  ASSUME NEW t \in Texts, NEW n \in 1 .. Len(t) - 1, NEW k \in Keys, Begins(k, t, n)
  PROVE  Says(Follow(KeyState(k, n), yy_ec(t[n + 1])), t, n + 1)
<1> DEFINE c == t[n + 1]
<1>1. n \in 1 .. Len(t) /\ n + 1 \in 1 .. Len(t) /\ c \in 1 .. 255
  BY Elements
<1>2. /\ n \in 1 .. 8 /\ n <= KeyLen[k] /\ t[1] = KeyChar(k, 1)
      /\ IdTo(t, n) <=> KeyState(k, n) \in IdStates
      /\ ~IntTo(t, n) /\ ~OpenTo(t, n) /\ ~QuotedTo(t, n) /\ ~BlankTo(t, n) /\ ~Sign(t, n)
  BY <1>1, KeyShape
<1>3. yy_ec(c) \in 1 .. 53 /\ (yy_ec(c) \in IdClasses <=> InId(c))
  BY <1>1, Classify
<1>4. ASSUME NEW j \in Keys, Begins(j, t, n + 1)
      PROVE  /\ Begins(j, t, n) /\ n < KeyLen[j] /\ n \in 1 .. 7 /\ c = KeyChar(j, n + 1) /\ yy_ec(c) = KeyCl(j, n + 1)
             /\ j = k \/ (n = 1 /\ j \in {Kin1[k], Kin2[k]})
  <2>1. Begins(j, t, n) /\ n < KeyLen[j] /\ c = KeyChar(j, n + 1)
    BY <1>4, Longer
  <2>2. KeyLen[j] \in 1 .. 8 /\ n + 1 \in 1 .. 8 /\ n + 1 <= KeyLen[j] /\ n \in 1 .. 7
    BY <1>2, <2>1, KeyLengths
  <2>3. yy_ec(c) = KeyCl(j, n + 1)
    BY <1>1, <2>1, <2>2, KeyClass
  <2>4. t[1] = KeyChar(j, 1)
    BY <1>1, <2>1, KeyShape
  <2>5. j \in {k, Kin1[k], Kin2[k]}
    BY <1>2, <2>4, KinOf
  <2>6. CASE n = 1
    BY <2>1, <2>2, <2>3, <2>5, <2>6
  <2>7. CASE n # 1
    <3>1. 2 \in 1 .. n /\ KeyLen[k] >= 2 /\ KeyLen[j] >= 2
      BY <1>2, <2>2, <2>7, KeyLengths
    <3>2. t[2] = KeyChar(j, 2) /\ t[2] = KeyChar(k, 2)
      BY <2>1, <3>1 DEF Begins
    <3>3. j = k
      BY <1>2, <2>4, <3>1, <3>2, Twins
    <3>4. QED
      BY <2>1, <2>2, <2>3, <3>3
  <2>8. QED
    BY <2>6, <2>7
<1>5. CASE \E j \in Keys : Begins(j, t, n + 1)
  <2>1. PICK j \in Keys : Begins(j, t, n + 1)
    BY <1>5
  <2>2. /\ Begins(j, t, n) /\ n < KeyLen[j] /\ n \in 1 .. 7 /\ yy_ec(c) = KeyCl(j, n + 1)
        /\ j = k \/ (n = 1 /\ j \in {Kin1[k], Kin2[k]})
    BY <1>4, <2>1
  <2>3. KeyState(j, n) = KeyState(k, n)
    <3>1. CASE j = k
      BY <3>1
    <3>2. CASE n = 1 /\ j \in {Kin1[k], Kin2[k]}
      BY <3>2, KinStates
    <3>3. QED
      BY <2>2, <3>1, <3>2
  <2>4. Follow(KeyState(j, n), KeyCl(j, n + 1)) = KeyState(j, n + 1)
    BY <2>2, KeyGoesOn
  <2>5. QED
    BY <2>1, <2>2, <2>3, <2>4 DEF Says, KeySays
<1>6. CASE \A j \in Keys : ~Begins(j, t, n + 1)
  <2>1. NoKey(t, n + 1)
    BY <1>6 DEF NoKey
  <2>2. Follow(KeyState(k, n), yy_ec(c)) = Fallen(KeyState(k, n), yy_ec(c))
    <3>1. ASSUME NEW j \in Keys, Begins(j, t, n), n < KeyLen[j] PROVE yy_ec(c) # KeyCl(j, n + 1)
      <4>1. n + 1 \in 1 .. 8 /\ n + 1 <= KeyLen[j]
        BY <1>2, <3>1, KeyLengths
      <4>2. c # KeyChar(j, n + 1)
        BY <1>6, <3>1, Longer
      <4>3. QED
        BY <1>1, <4>1, <4>2, KeyClass
    <3>2. CASE n = 1
      <4>1. \A j \in {k, Kin1[k], Kin2[k]} : j \in Keys /\ Begins(j, t, 1)
        BY <1>2, KinStates, KinBegins
      <4>2. \A j \in {k, Kin1[k], Kin2[k]} : ~(1 < KeyLen[j] /\ yy_ec(c) = KeyCl(j, 2))
        BY <3>1, <3>2, <4>1
      <4>3. QED
        BY <1>3, <3>2, <4>2, KeyIsLeftFirst
    <3>3. CASE n # 1
      <4>1. n \in 2 .. 8
        BY <1>2, <3>3
      <4>2. ~(n < KeyLen[k] /\ yy_ec(c) = KeyCl(k, n + 1))
        BY <3>1
      <4>3. QED
        BY <1>2, <1>3, <4>1, <4>2, KeyIsLeft
    <3>4. QED
      BY <3>2, <3>3
  <2>3. CASE IdTo(t, n) /\ InId(c)
    <3>1. IdTo(t, n + 1)
      BY <2>3, Longer
    <3>2. Follow(KeyState(k, n), yy_ec(c)) = 46
      BY <1>2, <1>3, <2>2, <2>3 DEF Fallen
    <3>3. QED
      BY <2>1, <3>1, <3>2 DEF Says, ShapeSays
  <2>4. CASE ~(IdTo(t, n) /\ InId(c))
    <3>1. Follow(KeyState(k, n), yy_ec(c)) = 112
      BY <1>2, <1>3, <2>2, <2>4 DEF Fallen
    <3>2. ~IdTo(t, n + 1) /\ ~IntTo(t, n + 1) /\ ~OpenTo(t, n + 1) /\ ~QuotedTo(t, n + 1) /\ ~BlankTo(t, n + 1)
      BY <1>2, <2>4, Longer
    <3>3. Dead(t, n + 1)
      BY <1>2, <2>1, <3>2 DEF Dead
    <3>4. QED
      BY <2>1, <3>1, <3>3 DEF Says, ShapeSays
  <2>5. QED
    BY <2>3, <2>4
<1>7. QED
  BY <1>5, <1>6

\* So does a transition from a state of the other rules.
LEMMA FromShape ==
  ASSUME NEW t \in Texts, NEW n \in 1 .. Len(t) - 1, NEW s, NoKey(t, n), ShapeSays(s, t, n)
  PROVE  Says(Follow(s, yy_ec(t[n + 1])), t, n + 1)
<1>1. n \in 1 .. Len(t) /\ n + 1 \in 1 .. Len(t) /\ t[1] \in 1 .. 255 /\ t[n + 1] \in 1 .. 255
  BY Elements
<1>2. NoKey(t, n + 1)
  BY Longer DEF NoKey
<1>3. PICK c, x, m : c = t[n + 1] /\ x = yy_ec(c) /\ m = n + 1
  OBVIOUS
<1>4. /\ x \in 1 .. 53 /\ (x \in IdClasses <=> InId(c)) /\ (x = 11 <=> Digit(c))
      /\ (x = 5 <=> c = QUOTE) /\ (x = 2 <=> c \in {9, 32})
  BY <1>1, <1>3, Classify
<1>5. /\ IdTo(t, m) <=> IdTo(t, n) /\ InId(c)
      /\ IntTo(t, m) <=> (IntTo(t, n) \/ Sign(t, n)) /\ Digit(c)
      /\ OpenTo(t, m) <=> OpenTo(t, n) /\ c # QUOTE
      /\ QuotedTo(t, m) <=> OpenTo(t, n) /\ c = QUOTE
      /\ BlankTo(t, m) <=> BlankTo(t, n) /\ c \in {9, 32}
  BY <1>3, Longer
<1>6. m >= 2 /\ m # 1
  BY <1>3, Elements
<1>7. /\ IdTo(t, n) => ~IntTo(t, n) /\ ~Sign(t, n) /\ ~OpenTo(t, n) /\ ~QuotedTo(t, n) /\ ~BlankTo(t, n)
      /\ IntTo(t, n) \/ Sign(t, n) => ~OpenTo(t, n) /\ ~QuotedTo(t, n) /\ ~BlankTo(t, n)
      /\ OpenTo(t, n) => ~QuotedTo(t, n) /\ ~BlankTo(t, n)
      /\ QuotedTo(t, n) => ~BlankTo(t, n)
  <2>1. /\ Letter(t[1]) => ~Digit(t[1]) /\ t[1] \notin {9, 32, MINUS, QUOTE}
        /\ Digit(t[1]) => t[1] \notin {9, 32, MINUS, QUOTE}
        /\ MINUS \notin {9, 32, QUOTE} /\ QUOTE \notin {9, 32}
    BY <1>1, CharKinds, ZenonT(60)
  <2>2. /\ IdTo(t, n) => Letter(t[1])
        /\ IntTo(t, n) \/ Sign(t, n) => Digit(t[1]) \/ t[1] = MINUS
        /\ OpenTo(t, n) \/ QuotedTo(t, n) => t[1] = QUOTE
        /\ BlankTo(t, n) => t[1] \in {9, 32}
        /\ ~(OpenTo(t, n) /\ QuotedTo(t, n))
    BY <1>1, Exclusive
  <2>3. QED
    BY <2>1, <2>2
<1>8. ASSUME ~IdTo(t, m), ~IntTo(t, m), ~OpenTo(t, m), ~QuotedTo(t, m), ~BlankTo(t, m), Follow(s, x) = 112
      PROVE  ShapeSays(Follow(s, x), t, m)
  <2>1. Dead(t, m)
    BY <1>2, <1>3, <1>6, <1>8 DEF Dead
  <2>2. QED
    BY <1>8, <2>1 DEF ShapeSays
<1>9. ShapeSays(Follow(s, x), t, m)
  <2>1. CASE IdTo(t, n) /\ s \in {18, 46}
    <3>1. s \in {18, 46} /\ (x \in IdClasses => Follow(s, x) = 46) /\ (x \notin IdClasses => Follow(s, x) = 112)
      <4>1. s \in {18, 46}
        BY <2>1
      <4>2. QED
        BY <1>4, <4>1, Shapes, ZenonT(60)
    <3>2. CASE InId(c)
      <4>1. Follow(s, x) = 46 /\ IdTo(t, m)
        BY <1>4, <1>5, <2>1, <3>1, <3>2
      <4>2. QED
        BY <4>1 DEF ShapeSays
    <3>3. CASE ~InId(c)
      BY <1>4, <1>5, <1>7, <1>8, <2>1, <3>1, <3>3
    <3>4. QED
      BY <3>2, <3>3
  <2>2. CASE (IntTo(t, n) /\ s \in {12, 42}) \/ (Sign(t, n) /\ s = 11)
    <3>1. s \in {11, 12, 42} /\ (x = 11 => Follow(s, x) = 42) /\ (x # 11 => Follow(s, x) = 112)
      <4>1. s \in {11, 12, 42}
        BY <2>2
      <4>2. QED
        BY <1>4, <4>1, Shapes, ZenonT(60)
    <3>2. ~IdTo(t, n)
      BY <1>7, <2>2
    <3>3. CASE Digit(c)
      <4>1. Follow(s, x) = 42 /\ IntTo(t, m)
        BY <1>4, <1>5, <2>2, <3>1, <3>3
      <4>2. QED
        BY <4>1 DEF ShapeSays
    <3>4. CASE ~Digit(c)
      BY <1>4, <1>5, <1>7, <1>8, <2>2, <3>1, <3>2, <3>4
    <3>5. QED
      BY <3>3, <3>4
  <2>3. CASE OpenTo(t, n) /\ s = (IF n = 1 THEN 8 ELSE 40)
    <3>1. s \in {8, 40} /\ (x = 5 => Follow(s, x) = 41) /\ (x # 5 => Follow(s, x) = 40)
      <4>1. s \in {8, 40}
        BY <2>3
      <4>2. QED
        BY <1>4, <4>1, Shapes, ZenonT(60)
    <3>2. CASE c = QUOTE
      <4>1. Follow(s, x) = 41 /\ QuotedTo(t, m)
        BY <1>4, <1>5, <2>3, <3>1, <3>2
      <4>2. QED
        BY <4>1 DEF ShapeSays
    <3>3. CASE c # QUOTE
      <4>1. Follow(s, x) = 40 /\ OpenTo(t, m)
        BY <1>4, <1>5, <2>3, <3>1, <3>3
      <4>2. QED
        BY <1>6, <4>1 DEF ShapeSays
    <3>4. QED
      BY <3>2, <3>3
  <2>4. CASE BlankTo(t, n) /\ s \in {5, 38}
    <3>1. s \in {5, 38} /\ (x = 2 => Follow(s, x) = 38) /\ (x # 2 => Follow(s, x) = 112)
      <4>1. s \in {5, 38}
        BY <2>4
      <4>2. QED
        BY <1>4, <4>1, Shapes, ZenonT(60)
    <3>2. CASE c \in {9, 32}
      <4>1. Follow(s, x) = 38 /\ BlankTo(t, m)
        BY <1>4, <1>5, <2>4, <3>1, <3>2
      <4>2. QED
        BY <4>1 DEF ShapeSays
    <3>3. CASE c \notin {9, 32}
      BY <1>4, <1>5, <1>7, <1>8, <2>4, <3>1, <3>3
    <3>4. QED
      BY <3>2, <3>3
  <2>5. CASE QuotedTo(t, n) /\ s = 41
    <3>1. Follow(s, x) = 112
      BY <1>4, <2>5, Shapes
    <3>2. QED
      BY <1>5, <1>7, <1>8, <2>5, <3>1
  <2>6. CASE Other(t, n) /\ s = 4
    <3>1. Follow(s, x) = 112
      BY <1>4, <2>6, Shapes
    <3>2. ~IdTo(t, n) /\ ~IntTo(t, n) /\ ~Sign(t, n) /\ ~OpenTo(t, n) /\ ~QuotedTo(t, n) /\ ~BlankTo(t, n)
      BY <1>1, <2>6, Exclusive DEF Other
    <3>3. QED
      BY <1>5, <1>8, <3>1, <3>2
  <2>7. CASE Dead(t, n) /\ s = 112
    <3>1. Follow(s, x) = 112
      BY <1>4, <2>7, Shapes
    <3>2. ~IdTo(t, n) /\ ~IntTo(t, n) /\ ~Sign(t, n) /\ ~OpenTo(t, n) /\ ~QuotedTo(t, n) /\ ~BlankTo(t, n)
      BY <1>1, <2>7 DEF Dead, Sign
    <3>3. QED
      BY <1>5, <1>8, <3>1, <3>2
  <2>8. QED
    BY <2>1, <2>2, <2>3, <2>4, <2>5, <2>6, <2>7 DEF ShapeSays
<1>10. QED
  BY <1>2, <1>3, <1>9 DEF Says

\* One transition keeps the state right about the text.
LEMMA StepSays ==
  ASSUME NEW t \in Texts, NEW n \in 1 .. Len(t) - 1, NEW s, Says(s, t, n)
  PROVE  Says(Follow(s, yy_ec(t[n + 1])), t, n + 1)
<1>1. CASE KeySays(s, t, n)
  BY <1>1, FromKey DEF KeySays
<1>2. CASE NoKey(t, n) /\ ShapeSays(s, t, n)
  BY <1>2, FromShape
<1>3. QED
  BY <1>1, <1>2 DEF Says

\* Rule r matches the first n characters of t.
MatchesTo(r, t, n) ==
  \/ \E k \in Keys : KeyRule[k] = r /\ KeyLen[k] = n /\ Begins(k, t, n)
  \/ r = 18 /\ IntTo(t, n)
  \/ r = 19 /\ QuotedTo(t, n)
  \/ r = 20 /\ IdTo(t, n)
  \/ r = 25 /\ BlankTo(t, n)
  \/ r = 26 /\ n = 1 /\ t[1] # NEWLINE

\* No rule does.
NoToken(t, n) == \A r \in Rules : ~MatchesTo(r, t, n)

\* What a state accepts, and whether it ends the loop of sqllex.
Accepts(s) == yy_accept[s + 1]
Stuck(s)   == yy_base[s + 1] = 145

\* Behind a whole keyword its rule is accepted, within it a name or nothing.
LEMMA KeyAccepts ==
  ASSUME NEW k \in Keys, NEW n \in 2 .. 8, n <= KeyLen[k]
  PROVE  /\ n = KeyLen[k] => Accepts(KeyState(k, n)) = KeyRule[k]
         /\ n # KeyLen[k] => Accepts(KeyState(k, n)) = (IF KeyState(k, n) \in IdStates THEN 20 ELSE 0)
BY DEF Keys, KeyLen, KeyState, KeyStates, KeyRule, Accepts, yy_accept, IdStates

\* Behind one character, the sign that is this character, or a name, or any
\* character.
LEMMA KeyAcceptsFirst ==
  ASSUME NEW k \in Keys
  PROVE  \/ KeyLen[k] = 1 /\ Accepts(KeyState(k, 1)) = KeyRule[k]
         \/ KeyLen[Kin1[k]] = 1 /\ Accepts(KeyState(k, 1)) = KeyRule[Kin1[k]]
         \/ KeyLen[Kin2[k]] = 1 /\ Accepts(KeyState(k, 1)) = KeyRule[Kin2[k]]
         \/ /\ KeyLen[k] # 1 /\ KeyLen[Kin1[k]] # 1 /\ KeyLen[Kin2[k]] # 1
            /\ Accepts(KeyState(k, 1)) = (IF KeyState(k, 1) \in IdStates THEN 20 ELSE 26)
BY DEF Keys, KeyLen, KeyState, KeyStates, KeyRule, Accepts, yy_accept, IdStates, Kin1, Kin2

\* The rules that keywords have come before those of names and integers.
LEMMA KeyRules ==
  ASSUME NEW k \in Keys
  PROVE  KeyRule[k] \in (1 .. 17) \cup {21, 22, 23, 24} /\ (k <= 22 <=> KeyRule[k] <= 11)

BY DEF Keys, KeyRule

\* What the states of the other rules accept, and which of them end the loop.
LEMMA ShapeAccepts ==
  /\ \A s \in {18, 46} : Accepts(s) = 20 /\ ~Stuck(s)
  /\ \A s \in {12, 42} : Accepts(s) = 18 /\ ~Stuck(s)
  /\ \A s \in {5, 38} : Accepts(s) = 25 /\ ~Stuck(s)
  /\ Accepts(11) = 26 /\ Accepts(8) = 26 /\ Accepts(40) = 0 /\ Accepts(41) = 19 /\ Accepts(4) = 26 /\ Accepts(112) = 0
  /\ ~Stuck(11) /\ ~Stuck(8) /\ ~Stuck(40) /\ Stuck(41) /\ Stuck(4) /\ Stuck(112) /\ Accepts(1) = 0 /\ ~Stuck(1)
BY DEF Accepts, Stuck, yy_accept, yy_base

\* A state of a keyword ends the loop only behind the whole keyword, and only if
\* no longer text is matched.
LEMMA KeyStuck ==
  ASSUME NEW k \in Keys, NEW n \in 1 .. 8, n <= KeyLen[k]
  PROVE  /\ Stuck(KeyState(k, n)) => n = KeyLen[k] /\ (k >= 23 \/ k \in {17, 18}) /\ (n = 1 => KeyLen[Kin1[k]] = 1 /\ KeyLen[Kin2[k]] = 1)
         /\ ~Stuck(KeyState(k, n)) =>
              \/ n < KeyLen[k]
              \/ k <= 22 /\ ~(k \in {17, 18})
              \/ n = 1 /\ KeyLen[Kin1[k]] = 2
BY DEF Keys, KeyLen, KeyState, KeyStates, Stuck, yy_base, Kin1, Kin2

-----------------------------------------------------------------------------
(* What a state accepts is the first rule that matches *)

\* Two rows of one character that agree are the same row.
LEMMA OneTwins ==
  ASSUME NEW k \in Keys, NEW j \in Keys, KeyLen[k] = 1, KeyLen[j] = 1, KeyChar(k, 1) = KeyChar(j, 1)
  PROVE  j = k
<1>1. j \in {k, Kin1[k], Kin2[k]}
  BY KinOf
<1>2. QED
  BY <1>1 DEF Keys, KeyLen, Kin1, Kin2

\* Rule 26 leaves the newline out, and the newline is a row of its own.
LEMMA NewlineKey == /\ \A k \in Keys : KeyChar(k, 1) = NEWLINE => KeyLen[k] = 1
                    /\ 31 \in Keys /\ KeyChar(31, 1) = NEWLINE /\ KeyLen[31] = 1
BY DEF Keys, KeyChar, KeyChars, KeyLen, NEWLINE

\* A row of one character is a sign.
LEMMA OneKeys == \A k \in Keys : KeyLen[k] = 1 => KeyRule[k] > 11 /\ k > 22
BY DEF Keys, KeyLen, KeyRule

\* The number a is the first rule that matches the first n characters of t, or 0
\* when none does.
Judges(a, t, n) ==
  /\ a # 0 => a \in Rules /\ MatchesTo(a, t, n) /\ \A r \in Rules : MatchesTo(r, t, n) => a <= r
  /\ a = 0 => NoToken(t, n)

\* In a keyword, yy_accept is the first rule that matches: a keyword before a
\* name.
LEMMA KeyMeans ==
  ASSUME NEW t \in Texts, NEW n \in 1 .. Len(t), NEW k \in Keys, Begins(k, t, n)
  PROVE  Judges(Accepts(KeyState(k, n)), t, n)
<1>1. /\ n \in 1 .. 8 /\ n <= KeyLen[k] /\ t[1] = KeyChar(k, 1)
      /\ IdTo(t, n) <=> KeyState(k, n) \in IdStates
      /\ ~IntTo(t, n) /\ ~OpenTo(t, n) /\ ~QuotedTo(t, n) /\ ~BlankTo(t, n) /\ ~Sign(t, n)
  BY KeyShape
<1>2. PICK a : a = Accepts(KeyState(k, n))
  OBVIOUS
<1>3. ASSUME NEW j \in Keys, KeyLen[j] = n, Begins(j, t, n) PROVE t[1] = KeyChar(j, 1) /\ j \in {k, Kin1[k], Kin2[k]}
  <2>1. t[1] = KeyChar(j, 1)
    BY <1>3, KeyShape
  <2>2. QED
    BY <1>1, <2>1, KinOf
<1>4. KeyLen[k] \in 1 .. 8 /\ KeyRule[k] \in (1 .. 17) \cup {21, 22, 23, 24} /\ (k <= 22 <=> KeyRule[k] <= 11)
  BY KeyLengths, KeyRules
<1>5. IdTo(t, n) => k <= 22
  BY <1>1, KeyIsId
<1>6. CASE n # 1
  <2>1. n \in 2 .. 8
    BY <1>1, <1>6
  <2>2. ASSUME NEW j \in Keys, KeyLen[j] = n, Begins(j, t, n) PROVE j = k
    <3>1. 2 \in 1 .. n /\ KeyLen[k] >= 2 /\ KeyLen[j] >= 2
      BY <1>1, <1>4, <2>1, <2>2
    <3>2. t[2] = KeyChar(j, 2) /\ t[2] = KeyChar(k, 2)
      BY <2>2, <3>1 DEF Begins
    <3>3. QED
      BY <1>1, <1>3, <2>2, <3>1, <3>2, Twins
  <2>3. CASE n = KeyLen[k]
    <3>1. a = KeyRule[k]
      BY <1>2, <2>1, <2>3, KeyAccepts
    <3>2. a \in Rules /\ a # 0 /\ MatchesTo(a, t, n)
      BY <1>4, <2>3, <3>1 DEF MatchesTo, Rules
    <3>3. ASSUME NEW r \in Rules, MatchesTo(r, t, n) PROVE a <= r
      <4>1. r = KeyRule[k] \/ (r = 20 /\ IdTo(t, n))
        BY <1>1, <1>6, <2>2, <3>3 DEF MatchesTo
      <4>2. QED
        BY <1>4, <1>5, <3>1, <4>1
    <3>4. QED
      BY <1>2, <3>2, <3>3 DEF Judges
  <2>4. CASE n # KeyLen[k]
    <3>1. (IdTo(t, n) => a = 20) /\ (~IdTo(t, n) => a = 0)
      BY <1>1, <1>2, <2>1, <2>4, KeyAccepts
    <3>2. \A r \in Rules : MatchesTo(r, t, n) <=> r = 20 /\ IdTo(t, n)
      BY <1>1, <1>6, <2>2, <2>4 DEF MatchesTo
    <3>3. 20 \in Rules
      BY DEF Rules
    <3>4. QED
      BY <1>2, <3>1, <3>2, <3>3, SMTT(30) DEF Judges, NoToken, Rules
  <2>5. QED
    BY <2>3, <2>4
<1>7. CASE n = 1
  <2>1. ASSUME NEW j \in {k, Kin1[k], Kin2[k]}, KeyLen[j] = 1, a = KeyRule[j]
        PROVE  a \in Rules /\ a # 0 /\ MatchesTo(a, t, n) /\ \A r \in Rules : MatchesTo(r, t, n) => a <= r
    <3>1. j \in Keys /\ KeyChar(j, 1) = t[1] /\ Begins(j, t, 1)
      BY <1>1, <2>1, KinStates, KinBegins
    <3>2. a \in (1 .. 17) \cup {21, 22, 23, 24} /\ a > 11
      BY <2>1, <3>1, KeyRules, OneKeys
    <3>3. a \in Rules /\ a # 0 /\ MatchesTo(a, t, n)
      BY <1>7, <2>1, <3>1, <3>2 DEF MatchesTo, Rules
    <3>4. ~IdTo(t, n)
      <4>1. j > 22
        BY <2>1, <3>1, OneKeys
      <4>2. IdTo(t, n) <=> KeyState(j, n) \in IdStates
        BY <1>7, <3>1, KeyShape
      <4>3. KeyState(j, n) \in IdStates => j <= 22
        BY <1>7, <2>1, <3>1, KeyIsId
      <4>4. QED
        BY <3>1, <4>1, <4>2, <4>3 DEF Keys
    <3>5. ASSUME NEW r \in Rules, MatchesTo(r, t, n) PROVE a <= r
      <4>1. CASE \E i \in Keys : KeyRule[i] = r /\ KeyLen[i] = n /\ Begins(i, t, n)
        <5>1. PICK i \in Keys : KeyRule[i] = r /\ KeyLen[i] = n /\ Begins(i, t, n)
          BY <4>1
        <5>2. t[1] = KeyChar(i, 1)
          BY <1>3, <5>1
        <5>3. i = j
          BY <1>7, <2>1, <3>1, <5>1, <5>2, OneTwins
        <5>4. QED
          BY <2>1, <3>2, <5>1, <5>3
      <4>2. CASE r = 26
        BY <3>2, <4>2
      <4>3. QED
        BY <1>1, <3>4, <3>5, <4>1, <4>2 DEF MatchesTo
    <3>6. QED
      BY <3>3, <3>5
  <2>2. CASE \E j \in {k, Kin1[k], Kin2[k]} : KeyLen[j] = 1 /\ a = KeyRule[j]
    BY <1>2, <2>1, <2>2 DEF Judges
  <2>3. CASE ~\E j \in {k, Kin1[k], Kin2[k]} : KeyLen[j] = 1 /\ a = KeyRule[j]
    <3>1. /\ \A j \in {k, Kin1[k], Kin2[k]} : KeyLen[j] # 1
          /\ (IdTo(t, n) => a = 20) /\ (~IdTo(t, n) => a = 26)
      BY <1>1, <1>2, <1>7, <2>3, KeyAcceptsFirst
    <3>2. t[1] # NEWLINE
      BY <1>1, <3>1, NewlineKey
    <3>3. \A r \in Rules : MatchesTo(r, t, n) <=> (r = 20 /\ IdTo(t, n)) \/ r = 26
      BY <1>1, <1>3, <1>7, <3>1, <3>2 DEF MatchesTo
    <3>4. 20 \in Rules /\ 26 \in Rules
      BY DEF Rules
    <3>5. QED
      BY <1>2, <3>1, <3>3, <3>4, SMTT(30) DEF Judges, Rules
  <2>4. QED
    BY <2>2, <2>3
<1>8. QED
  BY <1>6, <1>7

\* A text has one shape at most.
LEMMA ShapeExcludes ==
  ASSUME NEW t \in Texts, NEW n \in 1 .. Len(t)
  PROVE  /\ IdTo(t, n) => ~IntTo(t, n) /\ ~Sign(t, n) /\ ~OpenTo(t, n) /\ ~QuotedTo(t, n) /\ ~BlankTo(t, n)
         /\ IntTo(t, n) \/ Sign(t, n) => ~OpenTo(t, n) /\ ~QuotedTo(t, n) /\ ~BlankTo(t, n)
         /\ IntTo(t, n) => ~Sign(t, n)
         /\ OpenTo(t, n) => ~QuotedTo(t, n) /\ ~BlankTo(t, n)
         /\ QuotedTo(t, n) => ~BlankTo(t, n)
         /\ Other(t, n) \/ Dead(t, n) => /\ ~IdTo(t, n) /\ ~IntTo(t, n) /\ ~Sign(t, n) /\ ~OpenTo(t, n)
                                         /\ ~QuotedTo(t, n) /\ ~BlankTo(t, n)
<1>1. t[1] \in 1 .. 255
  BY Elements
<1>2. /\ Letter(t[1]) => ~Digit(t[1]) /\ t[1] \notin {9, 32, MINUS, QUOTE}
      /\ Digit(t[1]) => t[1] \notin {9, 32, MINUS, QUOTE}
      /\ MINUS \notin {9, 32, QUOTE} /\ QUOTE \notin {9, 32}
  BY <1>1, CharKinds
<1>3. /\ IdTo(t, n) => Letter(t[1])
      /\ IntTo(t, n) \/ Sign(t, n) => Digit(t[1]) \/ t[1] = MINUS
      /\ OpenTo(t, n) \/ QuotedTo(t, n) => t[1] = QUOTE
      /\ BlankTo(t, n) => t[1] \in {9, 32}
      /\ ~(OpenTo(t, n) /\ QuotedTo(t, n))
      /\ ~(IntTo(t, n) /\ Sign(t, n))
  BY Exclusive
<1>4. Other(t, n) => ~Letter(t[1]) /\ ~Digit(t[1]) /\ t[1] \notin {9, 32, MINUS, QUOTE}
  BY DEF Other
<1>5. Dead(t, n) => ~IdTo(t, n) /\ ~IntTo(t, n) /\ ~Sign(t, n) /\ ~OpenTo(t, n) /\ ~QuotedTo(t, n) /\ ~BlankTo(t, n)
  BY Elements DEF Dead, Sign
<1>6. QED
  BY <1>2, <1>3, <1>4, <1>5

\* In the other states yy_accept is the first rule that matches, too.
LEMMA ShapeMeans ==
  ASSUME NEW t \in Texts, NEW n \in 1 .. Len(t), NEW s, NoKey(t, n), ShapeSays(s, t, n)
  PROVE  Judges(Accepts(s), t, n)
<1>1. PICK a : a = Accepts(s)
  OBVIOUS
<1>2. n = 1 => t[1] # NEWLINE
  <2>1. SUFFICES ASSUME n = 1, t[1] = NEWLINE PROVE FALSE
    OBVIOUS
  <2>2. Begins(31, t, 1)
    BY <2>1, NewlineKey DEF Begins
  <2>3. QED
    BY <2>1, <2>2, NewlineKey DEF NoKey
<1>3. \A r \in Rules :
        MatchesTo(r, t, n) <=>
          \/ r = 18 /\ IntTo(t, n)
          \/ r = 19 /\ QuotedTo(t, n)
          \/ r = 20 /\ IdTo(t, n)
          \/ r = 25 /\ BlankTo(t, n)
          \/ r = 26 /\ n = 1
  <2>1. ~\E k \in Keys : Begins(k, t, n)
    BY DEF NoKey
  <2>2. QED
    BY <1>2, <2>1 DEF MatchesTo
<1>4. ASSUME NEW q \in {18, 19, 20, 25}, a = q, \A r \in Rules : MatchesTo(r, t, n) <=> r = q \/ (r = 26 /\ n = 1)
      PROVE  Judges(a, t, n)
  <2>1. q \in Rules /\ q # 0 /\ q <= 26 /\ q <= q
    BY DEF Rules
  <2>2. QED
    BY <1>4, <2>1 DEF Judges
<1>5. CASE IdTo(t, n) /\ s \in {18, 46}
  <2>1. ~IntTo(t, n) /\ ~QuotedTo(t, n) /\ ~BlankTo(t, n)
    BY <1>5, ShapeExcludes
  <2>2. a = 20
    BY <1>1, <1>5, ShapeAccepts
  <2>3. QED
    BY <1>1, <1>3, <1>4, <1>5, <2>1, <2>2
<1>6. CASE IntTo(t, n) /\ s \in {12, 42}
  <2>1. ~IdTo(t, n) /\ ~QuotedTo(t, n) /\ ~BlankTo(t, n)
    BY <1>6, ShapeExcludes
  <2>2. a = 18
    BY <1>1, <1>6, ShapeAccepts
  <2>3. QED
    BY <1>1, <1>3, <1>4, <1>6, <2>1, <2>2
<1>7. CASE QuotedTo(t, n) /\ s = 41
  <2>1. ~IdTo(t, n) /\ ~IntTo(t, n) /\ ~BlankTo(t, n)
    BY <1>7, ShapeExcludes
  <2>2. a = 19
    BY <1>1, <1>7, ShapeAccepts
  <2>3. QED
    BY <1>1, <1>3, <1>4, <1>7, <2>1, <2>2
<1>8. CASE BlankTo(t, n) /\ s \in {5, 38}
  <2>1. ~IdTo(t, n) /\ ~IntTo(t, n) /\ ~QuotedTo(t, n)
    BY <1>8, ShapeExcludes
  <2>2. a = 25
    BY <1>1, <1>8, ShapeAccepts
  <2>3. QED
    BY <1>1, <1>3, <1>4, <1>8, <2>1, <2>2
<1>9. ASSUME ~IdTo(t, n), ~IntTo(t, n), ~QuotedTo(t, n), ~BlankTo(t, n), n = 1 => a = 26, n # 1 => a = 0
      PROVE  Judges(a, t, n)
  <2>1. \A r \in Rules : MatchesTo(r, t, n) <=> r = 26 /\ n = 1
    BY <1>3, <1>9
  <2>2. CASE n = 1
    <3>1. a = 26 /\ 26 \in Rules
      BY <1>9, <2>2 DEF Rules
    <3>2. QED
      BY <2>1, <2>2, <3>1 DEF Judges
  <2>3. CASE n # 1
    BY <1>9, <2>1, <2>3 DEF Judges, NoToken
  <2>4. QED
    BY <2>2, <2>3
<1>10. CASE \/ Sign(t, n) /\ s = 11
            \/ OpenTo(t, n) /\ s = (IF n = 1 THEN 8 ELSE 40)
            \/ Other(t, n) /\ s = 4
            \/ Dead(t, n) /\ s = 112
  <2>1. ~IdTo(t, n) /\ ~IntTo(t, n) /\ ~QuotedTo(t, n) /\ ~BlankTo(t, n)
    BY <1>10, ShapeExcludes
  <2>2. (Sign(t, n) => n = 1) /\ (Other(t, n) => n = 1) /\ (Dead(t, n) => n # 1)
    BY DEF Sign, Other, Dead
  <2>3. (n = 1 => a = 26) /\ (n # 1 => a = 0)
    BY <1>1, <1>10, <2>2, ShapeAccepts
  <2>4. QED
    BY <1>1, <1>9, <2>1, <2>3
<1>11. QED
  BY <1>1, <1>5, <1>6, <1>7, <1>8, <1>10 DEF ShapeSays

\* A keyword's states lie behind a text, and each accepts something behind one
\* character: any one character is a token.
LEMMA KeyRange ==
  ASSUME NEW k \in Keys, NEW n \in 1 .. 8, n <= KeyLen[k]
  PROVE  KeyState(k, n) \in 4 .. 112 /\ (n = 1 => Accepts(KeyState(k, n)) # 0)
BY DEF Keys, KeyState, KeyStates, KeyLen, Accepts, yy_accept

\* What the automaton accepts behind n characters is the first rule that matches
\* them, and the first character is always accepted.
LEMMA Means ==
  ASSUME NEW t \in Texts, NEW n \in 1 .. Len(t), NEW s, Says(s, t, n)
  PROVE  /\ s \in 4 .. 112
         /\ Accepts(s) # 0 => /\ Accepts(s) \in Rules /\ MatchesTo(Accepts(s), t, n)
                              /\ \A r \in Rules : MatchesTo(r, t, n) => Accepts(s) <= r
         /\ Accepts(s) = 0 => NoToken(t, n) /\ n # 1
<1>1. CASE KeySays(s, t, n)
  <2>1. PICK k \in Keys : Begins(k, t, n) /\ s = KeyState(k, n)
    BY <1>1 DEF KeySays
  <2>2. n \in 1 .. 8 /\ n <= KeyLen[k]
    BY <2>1, KeyShape
  <2>3. s \in 4 .. 112 /\ (n = 1 => Accepts(s) # 0)
    BY <2>1, <2>2, KeyRange
  <2>4. QED
    BY <2>1, <2>3, KeyMeans DEF Judges
<1>2. CASE NoKey(t, n) /\ ShapeSays(s, t, n)
  <2>1. s \in 4 .. 112
    BY <1>2 DEF ShapeSays
  <2>2. n = 1 => Accepts(s) # 0
    BY <1>2, ShapeAccepts DEF ShapeSays, QuotedTo, Dead
  <2>3. QED
    BY <1>2, <2>1, <2>2, ShapeMeans DEF Judges
<1>3. QED
  BY <1>1, <1>2 DEF Says

-----------------------------------------------------------------------------
(* A text that is longer *)

\* A text of one of these shapes has the shape when it is cut.
LEMMA Shorter ==
  ASSUME NEW t \in Texts, NEW n \in 1 .. Len(t), NEW m \in 1 .. Len(t), n < m
  PROVE  /\ IdTo(t, m) => IdTo(t, n)
         /\ IntTo(t, m) => IntTo(t, n) \/ Sign(t, n)
         /\ QuotedTo(t, m) => OpenTo(t, n)
         /\ BlankTo(t, m) => BlankTo(t, n)
         /\ \A k \in Keys : Begins(k, t, m) => Begins(k, t, n) /\ n < KeyLen[k]
<1>1. n \in Nat /\ m \in Nat /\ n >= 1 /\ m >= 2 /\ n <= m - 1 /\ m - 1 \in Nat
  BY Elements
<1>2. 1 .. n \subseteq 1 .. m /\ 2 .. n \subseteq 2 .. m /\ 2 .. n \subseteq 2 .. m - 1
  BY <1>1
<1>3. IdTo(t, m) => IdTo(t, n)
  BY <1>2 DEF IdTo
<1>4. IntTo(t, m) => IntTo(t, n) \/ Sign(t, n)
  <2>1. CASE n = 1
    BY <1>2, <2>1 DEF IntTo, Sign
  <2>2. CASE n >= 2
    BY <1>2, <2>2 DEF IntTo
  <2>3. QED
    BY <1>1, <2>1, <2>2
<1>5. QuotedTo(t, m) => OpenTo(t, n)
  BY <1>2 DEF QuotedTo, OpenTo
<1>6. BlankTo(t, m) => BlankTo(t, n)
  BY <1>2 DEF BlankTo
<1>7. ASSUME NEW k \in Keys, Begins(k, t, m) PROVE Begins(k, t, n) /\ n < KeyLen[k]
  <2>1. KeyLen[k] \in 1 .. 8 /\ m <= KeyLen[k] /\ \A i \in 1 .. m : t[i] = KeyChar(k, i)
    BY <1>7, KeyLengths DEF Begins
  <2>2. n < KeyLen[k] /\ n <= KeyLen[k]
    BY <1>1, <2>1
  <2>3. QED
    BY <1>2, <2>1, <2>2 DEF Begins
<1>8. QED
  BY <1>3, <1>4, <1>5, <1>6, <1>7

\* When the loop of sqllex ends, no longer text is a token, so that it stops
\* early without losing one.
LEMMA StuckIsLast ==
  ASSUME NEW t \in Texts, NEW n \in 1 .. Len(t), NEW s, Says(s, t, n), Stuck(s),
         NEW m \in 1 .. Len(t), n < m
  PROVE  NoToken(t, m)
<1>1. n \in Nat /\ m \in Nat /\ n >= 1 /\ m # 1
  BY Elements
<1>2. ASSUME ~IdTo(t, n), ~IntTo(t, n), ~Sign(t, n), ~OpenTo(t, n), ~BlankTo(t, n),
             \A k \in Keys : Begins(k, t, n) => ~(n < KeyLen[k])
      PROVE  NoToken(t, m)
  <2>1. ~IdTo(t, m) /\ ~IntTo(t, m) /\ ~QuotedTo(t, m) /\ ~BlankTo(t, m) /\ \A k \in Keys : ~Begins(k, t, m)
    BY <1>2, Shorter
  <2>2. QED
    BY <1>1, <2>1 DEF NoToken, MatchesTo
<1>3. CASE KeySays(s, t, n)
  <2>1. PICK k \in Keys : Begins(k, t, n) /\ s = KeyState(k, n)
    BY <1>3 DEF KeySays
  <2>2. /\ n \in 1 .. 8 /\ n <= KeyLen[k] /\ t[1] = KeyChar(k, 1)
        /\ IdTo(t, n) <=> KeyState(k, n) \in IdStates
        /\ ~IntTo(t, n) /\ ~OpenTo(t, n) /\ ~BlankTo(t, n) /\ ~Sign(t, n)
    BY <2>1, KeyShape
  <2>3. n = KeyLen[k] /\ (k >= 23 \/ k \in {17, 18}) /\ (n = 1 => KeyLen[Kin1[k]] = 1 /\ KeyLen[Kin2[k]] = 1)
    BY <2>1, <2>2, KeyStuck
  <2>4. k \in {17, 18} => n = 8
    <3>1. KeyLen[17] = 8 /\ KeyLen[18] = 8
      BY DEF KeyLen
    <3>2. QED
      BY <2>3, <3>1
  <2>5. ~IdTo(t, n)
    <3>1. IdTo(t, n) => k <= 22 /\ ~(k \in {17, 18} /\ n > 5)
      BY <2>2, KeyIsId
    <3>2. ~(k >= 23 /\ k <= 22)
      BY DEF Keys
    <3>3. QED
      BY <2>3, <2>4, <3>1, <3>2
  <2>6. ASSUME NEW j \in Keys, Begins(j, t, n), n < KeyLen[j] PROVE FALSE
    <3>1. t[1] = KeyChar(j, 1) /\ j \in {k, Kin1[k], Kin2[k]}
      BY <2>2, <2>6, KeyShape, KinOf
    <3>2. CASE n = 1
      <4>1. KeyLen[k] = 1 /\ KeyLen[Kin1[k]] = 1 /\ KeyLen[Kin2[k]] = 1 /\ 1 < KeyLen[j]
        BY <2>3, <2>6, <3>2
      <4>2. KeyLen[j] = 1
        BY <3>1, <4>1
      <4>3. QED
        BY <4>1, <4>2
    <3>3. CASE n # 1
      <4>1. 2 \in 1 .. n /\ KeyLen[k] >= 2 /\ KeyLen[j] >= 2
        BY <2>2, <2>3, <2>6, <3>3, KeyLengths
      <4>2. t[2] = KeyChar(j, 2) /\ t[2] = KeyChar(k, 2)
        BY <2>1, <2>6, <4>1 DEF Begins
      <4>3. j = k
        BY <2>2, <3>1, <4>1, <4>2, Twins
      <4>4. QED
        BY <2>2, <2>3, <2>6, <4>3
    <3>4. QED
      BY <3>2, <3>3
  <2>7. QED
    BY <1>2, <2>2, <2>5, <2>6
<1>4. CASE NoKey(t, n) /\ ShapeSays(s, t, n)
  <2>1. QuotedTo(t, n) \/ Other(t, n) \/ Dead(t, n)
    <3>1. ~Stuck(IF n = 1 THEN 8 ELSE 40)
      BY ShapeAccepts
    <3>2. QED
      BY <1>4, <3>1, ShapeAccepts DEF ShapeSays
  <2>2. ~IdTo(t, n) /\ ~IntTo(t, n) /\ ~Sign(t, n) /\ ~OpenTo(t, n) /\ ~BlankTo(t, n)
    BY <2>1, ShapeExcludes
  <2>3. QED
    BY <1>2, <1>4, <2>2 DEF NoKey
<1>5. QED
  BY <1>3, <1>4 DEF Says

\* The first n characters of a text.
LEMMA PrefixIs ==
  ASSUME NEW t \in Texts, NEW n \in 0 .. Len(t)
  PROVE  /\ SubSeq(t, 1, n) \in Texts /\ Len(SubSeq(t, 1, n)) = n
         /\ \A i \in 1 .. n : SubSeq(t, 1, n)[i] = t[i]
BY DEF Texts

-----------------------------------------------------------------------------
(* The rules as SqlRules states them *)

\* The text w is the row k.
Spelled(w, k) == Len(w) = KeyLen[k] /\ \A i \in 1 .. KeyLen[k] : w[i] = KeyChar(k, i)

\* A tuple is its length and its elements.
LEMMA Tuple1 ==
  ASSUME NEW w \in Texts, NEW x1
  PROVE  w = <<x1>> <=> Len(w) = 1 /\ w[1] = x1
BY DEF Texts

\* The same for two.
LEMMA Tuple2 ==
  ASSUME NEW w \in Texts, NEW x1, NEW x2
  PROVE  w = <<x1, x2>> <=> Len(w) = 2 /\ w[1] = x1 /\ w[2] = x2
BY DEF Texts

\* The same for three.
LEMMA Tuple3 ==
  ASSUME NEW w \in Texts, NEW x1, NEW x2, NEW x3
  PROVE  w = <<x1, x2, x3>> <=> Len(w) = 3 /\ w[1] = x1 /\ w[2] = x2 /\ w[3] = x3
BY DEF Texts

\* The same for four.
LEMMA Tuple4 ==
  ASSUME NEW w \in Texts, NEW x1, NEW x2, NEW x3, NEW x4
  PROVE  w = <<x1, x2, x3, x4>> <=> Len(w) = 4 /\ w[1] = x1 /\ w[2] = x2 /\ w[3] = x3 /\ w[4] = x4
BY DEF Texts

\* The same for five.
LEMMA Tuple5 ==
  ASSUME NEW w \in Texts, NEW x1, NEW x2, NEW x3, NEW x4, NEW x5
  PROVE  w = <<x1, x2, x3, x4, x5>> <=> Len(w) = 5 /\ w[1] = x1 /\ w[2] = x2 /\ w[3] = x3 /\ w[4] = x4 /\ w[5] = x5
BY DEF Texts

\* The same for six.
LEMMA Tuple6 ==
  ASSUME NEW w \in Texts, NEW x1, NEW x2, NEW x3, NEW x4, NEW x5, NEW x6
  PROVE  w = <<x1, x2, x3, x4, x5, x6>> <=> Len(w) = 6 /\ w[1] = x1 /\ w[2] = x2 /\ w[3] = x3 /\ w[4] = x4 /\ w[5] = x5 /\ w[6] = x6
BY DEF Texts

\* The same for eight, the length of COUNT(*).
LEMMA Tuple8 ==
  ASSUME NEW w \in Texts, NEW x1, NEW x2, NEW x3, NEW x4, NEW x5, NEW x6, NEW x7, NEW x8
  PROVE  w = <<x1, x2, x3, x4, x5, x6, x7, x8>> <=> Len(w) = 8 /\ w[1] = x1 /\ w[2] = x2 /\ w[3] = x3 /\ w[4] = x4 /\ w[5] = x5 /\ w[6] = x6 /\ w[7] = x7 /\ w[8] = x8
BY DEF Texts

\* The rows of KeyChars are the words of SqlRules.
LEMMA Spelling ==
  ASSUME NEW w \in Texts
  PROVE  /\ Spelled(w, 1) <=> w = <<83, 69, 76, 69, 67, 84>>
         /\ Spelled(w, 2) <=> w = <<115, 101, 108, 101, 99, 116>>
         /\ Spelled(w, 3) <=> w = <<70, 82, 79, 77>>
         /\ Spelled(w, 4) <=> w = <<102, 114, 111, 109>>
         /\ Spelled(w, 5) <=> w = <<87, 72, 69, 82, 69>>
         /\ Spelled(w, 6) <=> w = <<119, 104, 101, 114, 101>>
         /\ Spelled(w, 7) <=> w = <<76, 79, 65, 68>>
         /\ Spelled(w, 8) <=> w = <<108, 111, 97, 100>>
         /\ Spelled(w, 9) <=> w = <<87, 73, 84, 72>>
         /\ Spelled(w, 10) <=> w = <<119, 105, 116, 104>>
         /\ Spelled(w, 11) <=> w = <<73, 78, 68, 69, 88>>
         /\ Spelled(w, 12) <=> w = <<105, 110, 100, 101, 120>>
         /\ Spelled(w, 13) <=> w = <<81, 85, 73, 84>>
         /\ Spelled(w, 14) <=> w = <<113, 117, 105, 116>>
         /\ Spelled(w, 15) <=> w = <<69, 88, 73, 84>>
         /\ Spelled(w, 16) <=> w = <<101, 120, 105, 116>>
         /\ Spelled(w, 17) <=> w = <<67, 79, 85, 78, 84, 40, 42, 41>>
         /\ Spelled(w, 18) <=> w = <<99, 111, 117, 110, 116, 40, 42, 41>>
         /\ Spelled(w, 19) <=> w = <<65, 78, 68>>
         /\ Spelled(w, 20) <=> w = <<97, 110, 100>>
         /\ Spelled(w, 21) <=> w = <<79, 82>>
         /\ Spelled(w, 22) <=> w = <<111, 114>>
         /\ Spelled(w, 23) <=> w = <<61>>
         /\ Spelled(w, 24) <=> w = <<60, 62>>
         /\ Spelled(w, 25) <=> w = <<62>>
         /\ Spelled(w, 26) <=> w = <<60>>
         /\ Spelled(w, 27) <=> w = <<62, 61>>
         /\ Spelled(w, 28) <=> w = <<60, 61>>
         /\ Spelled(w, 29) <=> w = <<44>>
         /\ Spelled(w, 30) <=> w = <<42>>
         /\ Spelled(w, 31) <=> w = <<10>>
         /\ Spelled(w, 32) <=> w = <<13, 10>>
         /\ Spelled(w, 33) <=> w = <<59>>

<1>1. Spelled(w, 1) <=> Len(w) = 6 /\ w[1] = 83 /\ w[2] = 69 /\ w[3] = 76 /\ w[4] = 69 /\ w[5] = 67 /\ w[6] = 84
  BY DEF Spelled, KeyLen, KeyChar, KeyChars

<1>2. Spelled(w, 2) <=> Len(w) = 6 /\ w[1] = 115 /\ w[2] = 101 /\ w[3] = 108 /\ w[4] = 101 /\ w[5] = 99 /\ w[6] = 116
  BY DEF Spelled, KeyLen, KeyChar, KeyChars

<1>3. Spelled(w, 3) <=> Len(w) = 4 /\ w[1] = 70 /\ w[2] = 82 /\ w[3] = 79 /\ w[4] = 77
  BY DEF Spelled, KeyLen, KeyChar, KeyChars

<1>4. Spelled(w, 4) <=> Len(w) = 4 /\ w[1] = 102 /\ w[2] = 114 /\ w[3] = 111 /\ w[4] = 109
  BY DEF Spelled, KeyLen, KeyChar, KeyChars

<1>5. Spelled(w, 5) <=> Len(w) = 5 /\ w[1] = 87 /\ w[2] = 72 /\ w[3] = 69 /\ w[4] = 82 /\ w[5] = 69
  BY DEF Spelled, KeyLen, KeyChar, KeyChars

<1>6. Spelled(w, 6) <=> Len(w) = 5 /\ w[1] = 119 /\ w[2] = 104 /\ w[3] = 101 /\ w[4] = 114 /\ w[5] = 101
  BY DEF Spelled, KeyLen, KeyChar, KeyChars

<1>7. Spelled(w, 7) <=> Len(w) = 4 /\ w[1] = 76 /\ w[2] = 79 /\ w[3] = 65 /\ w[4] = 68
  BY DEF Spelled, KeyLen, KeyChar, KeyChars

<1>8. Spelled(w, 8) <=> Len(w) = 4 /\ w[1] = 108 /\ w[2] = 111 /\ w[3] = 97 /\ w[4] = 100
  BY DEF Spelled, KeyLen, KeyChar, KeyChars

<1>9. Spelled(w, 9) <=> Len(w) = 4 /\ w[1] = 87 /\ w[2] = 73 /\ w[3] = 84 /\ w[4] = 72
  BY DEF Spelled, KeyLen, KeyChar, KeyChars

<1>10. Spelled(w, 10) <=> Len(w) = 4 /\ w[1] = 119 /\ w[2] = 105 /\ w[3] = 116 /\ w[4] = 104
  BY DEF Spelled, KeyLen, KeyChar, KeyChars

<1>11. Spelled(w, 11) <=> Len(w) = 5 /\ w[1] = 73 /\ w[2] = 78 /\ w[3] = 68 /\ w[4] = 69 /\ w[5] = 88
  BY DEF Spelled, KeyLen, KeyChar, KeyChars

<1>12. Spelled(w, 12) <=> Len(w) = 5 /\ w[1] = 105 /\ w[2] = 110 /\ w[3] = 100 /\ w[4] = 101 /\ w[5] = 120
  BY DEF Spelled, KeyLen, KeyChar, KeyChars

<1>13. Spelled(w, 13) <=> Len(w) = 4 /\ w[1] = 81 /\ w[2] = 85 /\ w[3] = 73 /\ w[4] = 84
  BY DEF Spelled, KeyLen, KeyChar, KeyChars

<1>14. Spelled(w, 14) <=> Len(w) = 4 /\ w[1] = 113 /\ w[2] = 117 /\ w[3] = 105 /\ w[4] = 116
  BY DEF Spelled, KeyLen, KeyChar, KeyChars

<1>15. Spelled(w, 15) <=> Len(w) = 4 /\ w[1] = 69 /\ w[2] = 88 /\ w[3] = 73 /\ w[4] = 84
  BY DEF Spelled, KeyLen, KeyChar, KeyChars

<1>16. Spelled(w, 16) <=> Len(w) = 4 /\ w[1] = 101 /\ w[2] = 120 /\ w[3] = 105 /\ w[4] = 116
  BY DEF Spelled, KeyLen, KeyChar, KeyChars

<1>17. Spelled(w, 17) <=> Len(w) = 8 /\ w[1] = 67 /\ w[2] = 79 /\ w[3] = 85 /\ w[4] = 78 /\ w[5] = 84 /\ w[6] = 40 /\ w[7] = 42 /\ w[8] = 41
  BY DEF Spelled, KeyLen, KeyChar, KeyChars

<1>18. Spelled(w, 18) <=> Len(w) = 8 /\ w[1] = 99 /\ w[2] = 111 /\ w[3] = 117 /\ w[4] = 110 /\ w[5] = 116 /\ w[6] = 40 /\ w[7] = 42 /\ w[8] = 41
  BY DEF Spelled, KeyLen, KeyChar, KeyChars

<1>19. Spelled(w, 19) <=> Len(w) = 3 /\ w[1] = 65 /\ w[2] = 78 /\ w[3] = 68
  BY DEF Spelled, KeyLen, KeyChar, KeyChars

<1>20. Spelled(w, 20) <=> Len(w) = 3 /\ w[1] = 97 /\ w[2] = 110 /\ w[3] = 100
  BY DEF Spelled, KeyLen, KeyChar, KeyChars

<1>21. Spelled(w, 21) <=> Len(w) = 2 /\ w[1] = 79 /\ w[2] = 82
  BY DEF Spelled, KeyLen, KeyChar, KeyChars

<1>22. Spelled(w, 22) <=> Len(w) = 2 /\ w[1] = 111 /\ w[2] = 114
  BY DEF Spelled, KeyLen, KeyChar, KeyChars

<1>23. Spelled(w, 23) <=> Len(w) = 1 /\ w[1] = 61
  BY DEF Spelled, KeyLen, KeyChar, KeyChars

<1>24. Spelled(w, 24) <=> Len(w) = 2 /\ w[1] = 60 /\ w[2] = 62
  BY DEF Spelled, KeyLen, KeyChar, KeyChars

<1>25. Spelled(w, 25) <=> Len(w) = 1 /\ w[1] = 62
  BY DEF Spelled, KeyLen, KeyChar, KeyChars

<1>26. Spelled(w, 26) <=> Len(w) = 1 /\ w[1] = 60
  BY DEF Spelled, KeyLen, KeyChar, KeyChars

<1>27. Spelled(w, 27) <=> Len(w) = 2 /\ w[1] = 62 /\ w[2] = 61
  BY DEF Spelled, KeyLen, KeyChar, KeyChars

<1>28. Spelled(w, 28) <=> Len(w) = 2 /\ w[1] = 60 /\ w[2] = 61
  BY DEF Spelled, KeyLen, KeyChar, KeyChars

<1>29. Spelled(w, 29) <=> Len(w) = 1 /\ w[1] = 44
  BY DEF Spelled, KeyLen, KeyChar, KeyChars

<1>30. Spelled(w, 30) <=> Len(w) = 1 /\ w[1] = 42
  BY DEF Spelled, KeyLen, KeyChar, KeyChars

<1>31. Spelled(w, 31) <=> Len(w) = 1 /\ w[1] = 10
  BY DEF Spelled, KeyLen, KeyChar, KeyChars

<1>32. Spelled(w, 32) <=> Len(w) = 2 /\ w[1] = 13 /\ w[2] = 10
  BY DEF Spelled, KeyLen, KeyChar, KeyChars

<1>33. Spelled(w, 33) <=> Len(w) = 1 /\ w[1] = 59
  BY DEF Spelled, KeyLen, KeyChar, KeyChars

<1>34. QED
  BY <1>1, <1>2, <1>3, <1>4, <1>5, <1>6, <1>7, <1>8, <1>9, <1>10, <1>11, <1>12, <1>13, <1>14,
     <1>15, <1>16, <1>17, <1>18, <1>19, <1>20, <1>21, <1>22, <1>23, <1>24, <1>25, <1>26, <1>27,
     <1>28, <1>29, <1>30, <1>31, <1>32, <1>33, Tuple1, Tuple2, Tuple3, Tuple4, Tuple5, Tuple6,
     Tuple8

\* A text is one of a rule's words exactly when it is one of the rule's rows.
LEMMA WordsAreKeys ==
  ASSUME NEW w \in Texts, NEW r \in Rules
  PROVE  w \in WordCodes[r] <=> \E k \in Keys : KeyRule[k] = r /\ Spelled(w, k)

<1>1. CASE r = 1
  <2>1. w \in WordCodes[r] <=> Spelled(w, 1) \/ Spelled(w, 2)
    BY <1>1, Spelling DEF WordCodes
  <2>2. \A k \in Keys : KeyRule[k] = r <=> k \in {1, 2}
    BY <1>1 DEF Keys, KeyRule
  <2>3. QED
    BY <2>1, <2>2 DEF Keys

<1>2. CASE r = 2
  <2>1. w \in WordCodes[r] <=> Spelled(w, 3) \/ Spelled(w, 4)
    BY <1>2, Spelling DEF WordCodes
  <2>2. \A k \in Keys : KeyRule[k] = r <=> k \in {3, 4}
    BY <1>2 DEF Keys, KeyRule
  <2>3. QED
    BY <2>1, <2>2 DEF Keys

<1>3. CASE r = 3
  <2>1. w \in WordCodes[r] <=> Spelled(w, 5) \/ Spelled(w, 6)
    BY <1>3, Spelling DEF WordCodes
  <2>2. \A k \in Keys : KeyRule[k] = r <=> k \in {5, 6}
    BY <1>3 DEF Keys, KeyRule
  <2>3. QED
    BY <2>1, <2>2 DEF Keys

<1>4. CASE r = 4
  <2>1. w \in WordCodes[r] <=> Spelled(w, 7) \/ Spelled(w, 8)
    BY <1>4, Spelling DEF WordCodes
  <2>2. \A k \in Keys : KeyRule[k] = r <=> k \in {7, 8}
    BY <1>4 DEF Keys, KeyRule
  <2>3. QED
    BY <2>1, <2>2 DEF Keys

<1>5. CASE r = 5
  <2>1. w \in WordCodes[r] <=> Spelled(w, 9) \/ Spelled(w, 10)
    BY <1>5, Spelling DEF WordCodes
  <2>2. \A k \in Keys : KeyRule[k] = r <=> k \in {9, 10}
    BY <1>5 DEF Keys, KeyRule
  <2>3. QED
    BY <2>1, <2>2 DEF Keys

<1>6. CASE r = 6
  <2>1. w \in WordCodes[r] <=> Spelled(w, 11) \/ Spelled(w, 12)
    BY <1>6, Spelling DEF WordCodes
  <2>2. \A k \in Keys : KeyRule[k] = r <=> k \in {11, 12}
    BY <1>6 DEF Keys, KeyRule
  <2>3. QED
    BY <2>1, <2>2 DEF Keys

<1>7. CASE r = 7
  <2>1. w \in WordCodes[r] <=> Spelled(w, 13) \/ Spelled(w, 14)
    BY <1>7, Spelling DEF WordCodes
  <2>2. \A k \in Keys : KeyRule[k] = r <=> k \in {13, 14}
    BY <1>7 DEF Keys, KeyRule
  <2>3. QED
    BY <2>1, <2>2 DEF Keys

<1>8. CASE r = 8
  <2>1. w \in WordCodes[r] <=> Spelled(w, 15) \/ Spelled(w, 16)
    BY <1>8, Spelling DEF WordCodes
  <2>2. \A k \in Keys : KeyRule[k] = r <=> k \in {15, 16}
    BY <1>8 DEF Keys, KeyRule
  <2>3. QED
    BY <2>1, <2>2 DEF Keys

<1>9. CASE r = 9
  <2>1. w \in WordCodes[r] <=> Spelled(w, 17) \/ Spelled(w, 18)
    BY <1>9, Spelling DEF WordCodes
  <2>2. \A k \in Keys : KeyRule[k] = r <=> k \in {17, 18}
    BY <1>9 DEF Keys, KeyRule
  <2>3. QED
    BY <2>1, <2>2 DEF Keys

<1>10. CASE r = 10
  <2>1. w \in WordCodes[r] <=> Spelled(w, 19) \/ Spelled(w, 20)
    BY <1>10, Spelling DEF WordCodes
  <2>2. \A k \in Keys : KeyRule[k] = r <=> k \in {19, 20}
    BY <1>10 DEF Keys, KeyRule
  <2>3. QED
    BY <2>1, <2>2 DEF Keys

<1>11. CASE r = 11
  <2>1. w \in WordCodes[r] <=> Spelled(w, 21) \/ Spelled(w, 22)
    BY <1>11, Spelling DEF WordCodes
  <2>2. \A k \in Keys : KeyRule[k] = r <=> k \in {21, 22}
    BY <1>11 DEF Keys, KeyRule
  <2>3. QED
    BY <2>1, <2>2 DEF Keys

<1>12. CASE r = 12
  <2>1. w \in WordCodes[r] <=> Spelled(w, 23)
    BY <1>12, Spelling DEF WordCodes
  <2>2. \A k \in Keys : KeyRule[k] = r <=> k \in {23}
    BY <1>12 DEF Keys, KeyRule
  <2>3. QED
    BY <2>1, <2>2 DEF Keys

<1>13. CASE r = 13
  <2>1. w \in WordCodes[r] <=> Spelled(w, 24)
    BY <1>13, Spelling DEF WordCodes
  <2>2. \A k \in Keys : KeyRule[k] = r <=> k \in {24}
    BY <1>13 DEF Keys, KeyRule
  <2>3. QED
    BY <2>1, <2>2 DEF Keys

<1>14. CASE r = 14
  <2>1. w \in WordCodes[r] <=> Spelled(w, 25)
    BY <1>14, Spelling DEF WordCodes
  <2>2. \A k \in Keys : KeyRule[k] = r <=> k \in {25}
    BY <1>14 DEF Keys, KeyRule
  <2>3. QED
    BY <2>1, <2>2 DEF Keys

<1>15. CASE r = 15
  <2>1. w \in WordCodes[r] <=> Spelled(w, 26)
    BY <1>15, Spelling DEF WordCodes
  <2>2. \A k \in Keys : KeyRule[k] = r <=> k \in {26}
    BY <1>15 DEF Keys, KeyRule
  <2>3. QED
    BY <2>1, <2>2 DEF Keys

<1>16. CASE r = 16
  <2>1. w \in WordCodes[r] <=> Spelled(w, 27)
    BY <1>16, Spelling DEF WordCodes
  <2>2. \A k \in Keys : KeyRule[k] = r <=> k \in {27}
    BY <1>16 DEF Keys, KeyRule
  <2>3. QED
    BY <2>1, <2>2 DEF Keys

<1>17. CASE r = 17
  <2>1. w \in WordCodes[r] <=> Spelled(w, 28)
    BY <1>17, Spelling DEF WordCodes
  <2>2. \A k \in Keys : KeyRule[k] = r <=> k \in {28}
    BY <1>17 DEF Keys, KeyRule
  <2>3. QED
    BY <2>1, <2>2 DEF Keys

<1>18. CASE r = 21
  <2>1. w \in WordCodes[r] <=> Spelled(w, 29)
    BY <1>18, Spelling DEF WordCodes
  <2>2. \A k \in Keys : KeyRule[k] = r <=> k \in {29}
    BY <1>18 DEF Keys, KeyRule
  <2>3. QED
    BY <2>1, <2>2 DEF Keys

<1>19. CASE r = 22
  <2>1. w \in WordCodes[r] <=> Spelled(w, 30)
    BY <1>19, Spelling DEF WordCodes
  <2>2. \A k \in Keys : KeyRule[k] = r <=> k \in {30}
    BY <1>19 DEF Keys, KeyRule
  <2>3. QED
    BY <2>1, <2>2 DEF Keys

<1>20. CASE r = 23
  <2>1. w \in WordCodes[r] <=> Spelled(w, 31) \/ Spelled(w, 32)
    BY <1>20, Spelling DEF WordCodes
  <2>2. \A k \in Keys : KeyRule[k] = r <=> k \in {31, 32}
    BY <1>20 DEF Keys, KeyRule
  <2>3. QED
    BY <2>1, <2>2 DEF Keys

<1>21. CASE r = 24
  <2>1. w \in WordCodes[r] <=> Spelled(w, 33)
    BY <1>21, Spelling DEF WordCodes
  <2>2. \A k \in Keys : KeyRule[k] = r <=> k \in {33}
    BY <1>21 DEF Keys, KeyRule
  <2>3. QED
    BY <2>1, <2>2 DEF Keys

<1>22. CASE r \in {18, 19, 20, 25, 26}
  <2>1. w \notin WordCodes[r]
    BY <1>22 DEF WordCodes
  <2>2. \A k \in Keys : KeyRule[k] # r
    BY <1>22 DEF Keys, KeyRule
  <2>3. QED
    BY <2>1, <2>2
<1>23. QED
  BY <1>1, <1>2, <1>3, <1>4, <1>5, <1>6, <1>7, <1>8, <1>9, <1>10, <1>11, <1>12, <1>13, <1>14,
     <1>15, <1>16, <1>17, <1>18, <1>19, <1>20, <1>21, <1>22 DEF Rules

\* The shapes are those of the rules of SqlParser.l without a fixed text.
LEMMA ShapesMatch ==
  ASSUME NEW t \in Texts, NEW n \in 1 .. Len(t), NEW w \in Texts, Len(w) = n,
         \A i \in 1 .. n : w[i] = t[i]
  PROVE  /\ Integer(w) <=> IntTo(t, n)
         /\ Opened(w) <=> OpenTo(t, n)
         /\ Quoted(w) <=> QuotedTo(t, n)
         /\ Id(w) <=> IdTo(t, n)
         /\ Blank(w) <=> BlankTo(t, n)
<1>1. n \in Nat /\ n >= 1 /\ DOMAIN w = 1 .. n /\ w # << >> /\ w[1] = t[1] /\ 1 \in 1 .. n
  BY Elements
<1>2. Opened(w) <=> OpenTo(t, n)
  BY <1>1 DEF Opened, OpenTo
<1>3. Id(w) <=> IdTo(t, n)
  BY <1>1 DEF Id, IdTo, All, InId
<1>4. Blank(w) <=> BlankTo(t, n)
  BY <1>1 DEF Blank, BlankTo, All
<1>5. Integer(w) <=> IntTo(t, n)
  <2>1. CASE w[1] # MINUS
    <3>1. Integer(w) <=> \A i \in 1 .. n : Digit(t[i])
      BY <1>1, <2>1 DEF Integer, All
    <3>2. 1 .. n = {1} \cup 2 .. n
      BY <1>1
    <3>3. QED
      BY <1>1, <2>1, <3>1, <3>2 DEF IntTo
  <2>2. CASE w[1] = MINUS
    <3>1. PICK d : d = Tail(w)
      OBVIOUS
    <3>2. Len(d) = n - 1 /\ DOMAIN d = 1 .. n - 1 /\ \A i \in 1 .. n - 1 : d[i] = w[i + 1]
      BY <1>1, <3>1 DEF Texts
    <3>3. d # << >> <=> n >= 2
      <4>1. d \in Seq(Bytes)
        BY <1>1, <3>1 DEF Texts
      <4>2. QED
        BY <1>1, <3>2, <4>1
    <3>4. (\A i \in 1 .. n - 1 : Digit(d[i])) <=> \A i \in 2 .. n : Digit(t[i])
      <4>1. ASSUME \A i \in 1 .. n - 1 : Digit(d[i]) PROVE \A i \in 2 .. n : Digit(t[i])
        <5>1. TAKE i \in 2 .. n
        <5>2. i - 1 \in 1 .. n - 1 /\ (i - 1) + 1 = i /\ i \in 1 .. n
          BY <1>1
        <5>3. d[i - 1] = t[i]
          BY <3>2, <5>2
        <5>4. QED
          BY <4>1, <5>2, <5>3
      <4>2. ASSUME \A i \in 2 .. n : Digit(t[i]) PROVE \A i \in 1 .. n - 1 : Digit(d[i])
        <5>1. TAKE i \in 1 .. n - 1
        <5>2. i + 1 \in 2 .. n /\ i + 1 \in 1 .. n
          BY <1>1
        <5>3. QED
          BY <3>2, <4>2, <5>2
      <4>3. QED
        BY <4>1, <4>2
    <3>5. Integer(w) <=> d # << >> /\ \A i \in 1 .. n - 1 : Digit(d[i])
      BY <2>2, <3>1, <3>2 DEF Integer, All
    <3>6. ~Digit(MINUS)
      BY DEF Digit, MINUS
    <3>7. QED
      BY <1>1, <2>2, <3>3, <3>4, <3>5, <3>6 DEF IntTo
  <2>3. QED
    BY <2>1, <2>2
<1>6. Quoted(w) <=> QuotedTo(t, n)
  <2>1. CASE n < 2
    BY <1>1, <2>1 DEF Quoted, QuotedTo
  <2>2. CASE n >= 2
    <3>1. PICK v : v = SubSeq(w, 1, n - 1)
      OBVIOUS
    <3>2. n - 1 \in 0 .. Len(w)
      BY <1>1
    <3>3. v \in Texts /\ Len(v) = n - 1 /\ \A i \in 1 .. n - 1 : v[i] = w[i]
      BY <3>1, <3>2, PrefixIs
    <3>4. v[1] = t[1] /\ \A i \in 2 .. n - 1 : v[i] = t[i]
      BY <1>1, <2>2, <3>3
    <3>5. Opened(v) <=> OpenTo(t, n - 1)
      BY <3>3, <3>4 DEF Opened, OpenTo
    <3>6. w[n] = t[n]
      BY <1>1
    <3>7. QED
      BY <2>2, <3>1, <3>5, <3>6 DEF Quoted, QuotedTo
  <2>3. QED
    BY <1>1, <2>1, <2>2
<1>7. QED
  BY <1>2, <1>3, <1>4, <1>5, <1>6

\* A text is a row when it begins the row and is as long.
LEMMA SpelledIs ==
  ASSUME NEW t \in Texts, NEW n \in 1 .. Len(t), NEW w \in Texts, Len(w) = n,
         \A i \in 1 .. n : w[i] = t[i], NEW k \in Keys
  PROVE  Spelled(w, k) <=> KeyLen[k] = n /\ Begins(k, t, n)
<1>1. KeyLen[k] \in 1 .. 8
  BY KeyLengths
<1>2. QED
  BY <1>1 DEF Spelled, Begins

\* MatchesTo is what SqlRules says of a rule and a text.
LEMMA Matching ==
  ASSUME NEW t \in Texts, NEW n \in 1 .. Len(t), NEW r \in Rules
  PROVE  Matches(r, SubSeq(t, 1, n)) <=> MatchesTo(r, t, n)
<1>1. PICK w : w = SubSeq(t, 1, n)
  OBVIOUS
<1>2. n \in 0 .. Len(t) /\ n >= 1 /\ n \in Nat
  BY Elements
<1>3. w \in Texts /\ Len(w) = n /\ \A i \in 1 .. n : w[i] = t[i]
  BY <1>1, <1>2, PrefixIs
<1>4. /\ Integer(w) <=> IntTo(t, n)
      /\ Quoted(w) <=> QuotedTo(t, n)
      /\ Id(w) <=> IdTo(t, n)
      /\ Blank(w) <=> BlankTo(t, n)
  BY <1>3, ShapesMatch
<1>5. w \in WordCodes[r] <=> \E k \in Keys : KeyRule[k] = r /\ KeyLen[k] = n /\ Begins(k, t, n)
  BY <1>3, WordsAreKeys, SpelledIs
<1>6. (Len(w) = 1 /\ w # <<NEWLINE>>) <=> (n = 1 /\ t[1] # NEWLINE)
  <2>1. w = <<NEWLINE>> <=> Len(w) = 1 /\ w[1] = NEWLINE
    BY <1>3, Tuple1
  <2>2. w[1] = t[1]
    BY <1>2, <1>3
  <2>3. QED
    BY <1>3, <2>1, <2>2
<1>7. QED
  BY <1>1, <1>4, <1>5, <1>6 DEF Matches, MatchesTo

\* A state in which the loop goes on has a text that is not yet a token, or may
\* become a longer one.
LEMMA OpenIsExtendable ==
  ASSUME NEW t \in Texts, NEW n \in 1 .. Len(t), NEW s, Says(s, t, n), ~Stuck(s)
  PROVE  Extendable(SubSeq(t, 1, n))
<1>1. PICK w : w = SubSeq(t, 1, n)
  OBVIOUS
<1>2. n \in 0 .. Len(t) /\ n >= 1 /\ n \in Nat
  BY Elements
<1>3. w \in Texts /\ Len(w) = n /\ \A i \in 1 .. n : w[i] = t[i]
  BY <1>1, <1>2, PrefixIs
<1>4. ASSUME NEW k \in Keys, Begins(k, t, n), n < KeyLen[k] PROVE Extendable(w)
  <2>1. PICK v : v = [i \in 1 .. KeyLen[k] |-> KeyChar(k, i)]
    OBVIOUS
  <2>2. KeyLen[k] \in 1 .. 8 /\ \A i \in 1 .. KeyLen[k] : KeyChar(k, i) \in Bytes
    <3>1. KeyLen[k] \in 1 .. 8
      BY KeyLengths
    <3>2. ASSUME NEW i \in 1 .. KeyLen[k] PROVE KeyChar(k, i) \in Bytes
      <4>1. i \in 1 .. 8 /\ i <= KeyLen[k]
        BY <3>1
      <4>2. KeyChar(k, i) \in {10, 13, 40, 41, 42, 44, 59, 60, 61, 62} \cup (65 .. 90) \cup (97 .. 122)
        BY <4>1, KeyCharacters
      <4>3. QED
        BY <4>2 DEF Bytes
    <3>3. QED
      BY <3>1, <3>2
  <2>3. v \in Texts /\ Len(v) = KeyLen[k] /\ \A i \in 1 .. KeyLen[k] : v[i] = KeyChar(k, i)
    BY <2>1, <2>2 DEF Texts
  <2>4. Spelled(v, k)
    BY <2>3 DEF Spelled
  <2>5. PICK r \in Rules : r = KeyRule[k]
    BY KeyRules DEF Rules
  <2>6. v \in WordCodes[r]
    BY <2>3, <2>4, <2>5, WordsAreKeys
  <2>7. n \in 0 .. Len(v) /\ n \in 1 .. Len(v) /\ n # Len(v)
    BY <1>2, <1>4, <2>2, <2>3
  <2>8. w = SubSeq(v, 1, n)
    <3>1. PICK u : u = SubSeq(v, 1, n)
      OBVIOUS
    <3>2. u \in Texts /\ Len(u) = n /\ \A i \in 1 .. n : u[i] = v[i]
      BY <2>3, <2>7, <3>1, PrefixIs
    <3>3. \A i \in 1 .. n : w[i] = u[i]
      BY <1>2, <1>3, <1>4, <2>2, <2>3, <3>2 DEF Begins
    <3>4. w = u
      BY <1>3, <3>2, <3>3 DEF Texts
    <3>5. QED
      BY <3>1, <3>4
  <2>9. w \in Prefixes(v) /\ w # v
    BY <1>3, <2>7, <2>8 DEF Prefixes
  <2>10. QED
    BY <2>6, <2>9 DEF Extendable
<1>5. /\ Integer(w) <=> IntTo(t, n)
      /\ Opened(w) <=> OpenTo(t, n)
      /\ Id(w) <=> IdTo(t, n)
      /\ Blank(w) <=> BlankTo(t, n)
  BY <1>3, ShapesMatch
<1>6. CASE KeySays(s, t, n)
  <2>1. PICK k \in Keys : Begins(k, t, n) /\ s = KeyState(k, n)
    BY <1>6 DEF KeySays
  <2>2. n \in 1 .. 8 /\ n <= KeyLen[k] /\ t[1] = KeyChar(k, 1) /\ (IdTo(t, n) <=> KeyState(k, n) \in IdStates)
    BY <2>1, KeyShape
  <2>3. \/ n < KeyLen[k]
        \/ k <= 22 /\ ~(k \in {17, 18})
        \/ n = 1 /\ KeyLen[Kin1[k]] = 2
    BY <2>1, <2>2, KeyStuck
  <2>4. CASE n < KeyLen[k]
    BY <1>1, <1>4, <2>1, <2>4
  <2>5. CASE k <= 22 /\ ~(k \in {17, 18})
    <3>1. Id(w)
      BY <1>5, <2>2, <2>5, KeyIsId
    <3>2. QED
      BY <1>1, <3>1 DEF Extendable
  <2>6. CASE n = 1 /\ KeyLen[Kin1[k]] = 2
    <3>1. PICK j \in Keys : j = Kin1[k] /\ Begins(j, t, 1)
      BY <2>2, KinStates, KinBegins
    <3>2. Begins(j, t, n) /\ n < KeyLen[j]
      BY <2>6, <3>1
    <3>3. QED
      BY <1>1, <1>4, <3>2
  <2>7. QED
    BY <2>3, <2>4, <2>5, <2>6
<1>7. CASE NoKey(t, n) /\ ShapeSays(s, t, n)
  <2>1. IdTo(t, n) \/ IntTo(t, n) \/ Sign(t, n) \/ OpenTo(t, n) \/ BlankTo(t, n)
    BY <1>7, ShapeAccepts DEF ShapeSays
  <2>2. CASE Sign(t, n)
    <3>1. w = <<MINUS>>
      <4>1. w = <<MINUS>> <=> Len(w) = 1 /\ w[1] = MINUS
        BY <1>3, Tuple1
      <4>2. QED
        BY <1>2, <1>3, <2>2, <4>1 DEF Sign
    <3>2. QED
      BY <1>1, <3>1 DEF Extendable
  <2>3. CASE IdTo(t, n) \/ IntTo(t, n) \/ OpenTo(t, n) \/ BlankTo(t, n)
    BY <1>1, <1>5, <2>3 DEF Extendable
  <2>4. QED
    BY <2>1, <2>2, <2>3
<1>8. QED
  BY <1>6, <1>7 DEF Says

\* The greatest of a set, once it is known.
LEMMA MaxIs ==
  ASSUME NEW S \in SUBSET Nat, NEW m \in S, \A x \in S : x <= m
  PROVE  Max(S) = m
<1>1. ASSUME NEW y \in S, \A x \in S : y >= x PROVE y = m
  <2>1. y >= m /\ y <= m /\ y \in Nat /\ m \in Nat
    BY <1>1
  <2>2. QED
    BY <2>1
<1>2. \A x \in S : m >= x
  <2>1. TAKE x \in S
  <2>2. x \in Nat /\ m \in Nat /\ x <= m
    OBVIOUS
  <2>3. QED
    BY <2>2
<1>3. QED
  BY <1>1, <1>2 DEF Max

\* The least of a set, once it is known.
LEMMA MinIs ==
  ASSUME NEW S \in SUBSET Nat, NEW m \in S, \A x \in S : m <= x
  PROVE  Min(S) = m
<1>1. ASSUME NEW y \in S, \A x \in S : y <= x PROVE y = m
  <2>1. y <= m /\ m <= y /\ y \in Nat /\ m \in Nat
    BY <1>1
  <2>2. QED
    BY <2>1
<1>2. QED
  BY <1>1 DEF Min

\* A text whose first rule is known, and behind which no longer text is a token,
\* is the longest token with the first rule.
LEMMA TokenIs ==
  ASSUME NEW t \in Texts, NEW n \in 1 .. Len(t), NEW a, a # 0, Judges(a, t, n),
         \A m \in n + 1 .. Len(t) : NoToken(t, m)
  PROVE  n = Longest(t) /\ a = FirstRule(SubSeq(t, 1, n))
<1>1. n \in Nat /\ n >= 1 /\ Len(t) \in Nat
  BY Elements
<1>2. a \in Rules /\ MatchesTo(a, t, n) /\ \A r \in Rules : MatchesTo(r, t, n) => a <= r
  BY DEF Judges
<1>3. a = FirstRule(SubSeq(t, 1, n))
  <2>1. PICK S : S = { r \in Rules : Matches(r, SubSeq(t, 1, n)) }
    OBVIOUS
  <2>2. S = { r \in Rules : MatchesTo(r, t, n) }
    BY <2>1, Matching
  <2>3. S \in SUBSET Nat /\ a \in S /\ \A x \in S : a <= x
    <3>1. Rules \subseteq Nat
      BY DEF Rules
    <3>2. QED
      BY <1>2, <2>2, <3>1
  <2>4. Min(S) = a
    BY <2>3, MinIs
  <2>5. QED
    BY <2>1, <2>4 DEF FirstRule
<1>4. n = Longest(t)
  <2>1. PICK S : S = { Len(v) : v \in { p \in Prefixes(t) : \E r \in Rules : Matches(r, p) } }
    OBVIOUS
  <2>2. \A m \in 1 .. Len(t) : SubSeq(t, 1, m) \in Prefixes(t) /\ Len(SubSeq(t, 1, m)) = m
    BY <1>1, PrefixIs DEF Prefixes
  <2>3. n \in S
    BY <1>2, <2>1, <2>2, Matching
  <2>4. ASSUME NEW x \in S PROVE x \in Nat /\ x <= n
    <3>1. PICK p \in Prefixes(t) : x = Len(p) /\ \E r \in Rules : Matches(r, p)
      BY <2>1
    <3>2. PICK m \in 1 .. Len(t) : p = SubSeq(t, 1, m)
      BY <3>1 DEF Prefixes
    <3>3. x = m /\ \E r \in Rules : MatchesTo(r, t, m)
      BY <2>2, <3>1, <3>2, Matching
    <3>4. m \notin n + 1 .. Len(t)
      BY <3>3 DEF NoToken
    <3>5. QED
      BY <1>1, <3>3, <3>4
  <2>5. Max(S) = n
    BY <2>3, <2>4, MaxIs
  <2>6. QED
    BY <2>1, <2>5 DEF Longest
<1>5. QED
  BY <1>3, <1>4

-----------------------------------------------------------------------------
(* The loops that follow the automaton *)

\* A set of places has a least one.
LEMMA Least ==
  ASSUME NEW n \in Nat, NEW Z \in SUBSET (1 .. n), Z # {}
  PROVE  Min(Z) \in Z /\ \A y \in Z : Min(Z) =< y
<1> DEFINE R == StrictSubsetOrdering(1 .. n)
           U == { 1 .. k : k \in Z }
<1>1. IsFiniteSet(1 .. n)
  BY FS_Interval
<1>2. IsWellFoundedOn(R, SUBSET (1 .. n))
  BY <1>1, FS_StrictSubsetOrderingWellFounded, FS_FiniteSubsetsOfFinite
<1>3. U \subseteq SUBSET (1 .. n) /\ U # {}
  <2>1. \A k \in Z : 1 .. k \subseteq 1 .. n
    OBVIOUS
  <2>2. QED
    BY <2>1
<1>4. PICK u \in U : \A v \in U : <<v, u>> \notin R
  <2> HIDE DEF R, U
  <2>1. QED
    BY <1>2, <1>3, WFMin
<1>5. PICK x \in Z : u = 1 .. x
  OBVIOUS
<1>6. ASSUME NEW y \in Z, y < x
      PROVE  FALSE
  <2>1. 1 .. y \in U /\ 1 .. y \subseteq 1 .. x /\ x \in 1 .. x /\ x \notin 1 .. y
    BY <1>6
  <2>2. <<1 .. y, u>> \in R
    BY <1>3, <1>5, <2>1 DEF StrictSubsetOrdering
  <2>3. QED
    BY <1>4, <2>1, <2>2
<1>7. x \in Z /\ \A y \in Z : x =< y
  BY <1>6
<1>8. QED
  BY <1>7 DEF Min

\* Induction up to n: a set that has 0 and with each number the next one.
LEMMA UpTo ==
  ASSUME NEW n \in Nat, NEW Z, 0 \in Z,
         \A k \in 0 .. n - 1 : k \in Z => k + 1 \in Z
  PROVE  0 .. n \subseteq Z
<1> DEFINE U == { k \in 1 .. n : k \notin Z }
<1>1. SUFFICES ASSUME U # {} PROVE FALSE
  OBVIOUS
<1>2. Min(U) \in U /\ \A y \in U : Min(U) =< y
  <2>1. U \in SUBSET (1 .. n)
    OBVIOUS
  <2> HIDE DEF U
  <2>2. QED
    BY <1>1, <2>1, Least
<1>3. PICK x \in 1 .. n : x \notin Z /\ x - 1 \notin U
  <2>1. PICK x \in U : \A y \in U : x =< y
    BY <1>2
  <2>2. x - 1 \notin U
    BY <2>1
  <2>3. QED
    BY <2>2
<1>4. x - 1 \in 0 .. n - 1 /\ (x - 1) + 1 = x
  OBVIOUS
<1>5. x - 1 \in Z
  BY <1>3, <1>4
<1>6. QED
  BY <1>3, <1>4, <1>5

\* The runs of a loop of n steps, each of which has its own function: the state
\* it begins with and the one after each step.
Loops(S, n, b, F) ==
  { g \in [0 .. n -> S] : g[0] = b /\ \A i \in 1 .. n : g[i] = F[i][g[i - 1]] }

\* Such a loop runs to its end.
LEMMA LoopEnds ==
  ASSUME NEW S, NEW n \in Nat, NEW b \in S, NEW F \in [1 .. n -> [S -> S]]
  PROVE  Loops(S, n, b, F) # {}
<1> DEFINE Going(k, g) == g[0] = b /\ \A i \in 1 .. k : g[i] = F[i][g[i - 1]]
           Z == { k \in 0 .. n : \E g \in [0 .. k -> S] : Going(k, g) }
<1>1. 0 \in Z
  <2>1. [i \in 0 .. 0 |-> b] \in [0 .. 0 -> S] /\ Going(0, [i \in 0 .. 0 |-> b])
    OBVIOUS
  <2>2. 0 \in 0 .. n
    OBVIOUS
  <2> HIDE DEF Going
  <2>3. QED
    BY <2>1, <2>2
<1>2. ASSUME NEW k \in 0 .. n - 1, k \in Z
      PROVE  k + 1 \in Z
  <2>1. PICK g \in [0 .. k -> S] : Going(k, g)
    BY <1>2
  <2> DEFINE h == [i \in 0 .. k + 1 |-> IF i =< k THEN g[i] ELSE F[k + 1][g[k]]]
  <2>2. g[k] \in S /\ k + 1 \in 1 .. n
    OBVIOUS
  <2>3. F[k + 1][g[k]] \in S
    BY <2>2
  <2>4. h \in [0 .. k + 1 -> S]
    BY <2>3
  <2>5. h[0] = b
    BY <2>1
  <2>6. ASSUME NEW i \in 1 .. k + 1 PROVE h[i] = F[i][h[i - 1]]
    <3>1. CASE i = k + 1
      BY <3>1
    <3>2. CASE i # k + 1
      <4>1. i \in 1 .. k /\ i =< k /\ i - 1 =< k /\ i - 1 \in 0 .. k + 1 /\ i \in 0 .. k + 1
        BY <3>2
      <4>2. h[i] = g[i] /\ h[i - 1] = g[i - 1]
        BY <4>1
      <4>3. QED
        BY <2>1, <4>1, <4>2
    <3>3. QED
      BY <3>1, <3>2
  <2> HIDE DEF h
  <2>7. QED
    BY <2>2, <2>4, <2>5, <2>6
<1>3. 0 .. n \subseteq Z
  <2> HIDE DEF Z
  <2>1. QED
    BY <1>1, <1>2, UpTo
<1>4. n \in Z
  BY <1>3
<1>5. QED
  BY <1>4 DEF Loops

\* The runs of the automaton.
Scans == [state : 1 .. 112, cp : Nat, last : (0 .. 112) \X Nat]

\* One turn of the loop makes the transition of the tables.
LEMMA TurnScans ==
  ASSUME NEW y \in Scans, NEW c \in 0 .. 255
  PROVE  Turn(y, c).state = Follow(y.state, yy_ec(c)) /\ Turn(y, c) \in Scans
<1>1. PICK s, x : s = yy_next[<<y.state, x>>] /\ x = yy_ec(c)
  OBVIOUS
<1>2. x \in 0 .. 53 /\ (x = 0 \/ x \in 1 .. 53)
  <2>1. CASE c = 0
    BY <1>1, <2>1, ClassOfMark
  <2>2. CASE c # 0
    <3>1. c \in 1 .. 255
      BY <2>2
    <3>2. yy_ec(c) \in 1 .. 53
      BY <3>1, Classify
    <3>3. QED
      BY <1>1, <3>2
  <2>3. QED
    BY <2>1, <2>2
<1>3. PICK q : q = y.state
  OBVIOUS
<1>4. q \in States /\ q \in 1 .. 114
  BY <1>3 DEF Scans, States
<1>5. s = Follow(q, x)
  BY <1>1, <1>2, <1>3, <1>4, NextIs DEF Classes
<1>6. s \in 1 .. 112
  <2>1. CASE x = 0
    <3>1. Follow(q, 0) = 112 \/ Follow(q, 0) = 3
      BY <1>4, MarkStates
    <3>2. QED
      BY <1>5, <2>1, <3>1
  <2>2. CASE x \in 1 .. 53
    <3>1. Follow(q, x) \in 4 .. 112
      BY <1>4, <2>2, CharStates
    <3>2. QED
      BY <1>5, <3>1
  <2>3. QED
    BY <1>2, <2>1, <2>2
<1>7. y.cp + 1 \in Nat /\ <<y.state, y.cp>> \in (0 .. 112) \X Nat /\ y.last \in (0 .. 112) \X Nat
  BY DEF Scans
<1>8. QED
  BY <1>1, <1>3, <1>5, <1>6, <1>7 DEF Turn, Scans

\* f are the steps of a run from x over w, one that stops when it jams or one
\* that does not.
Follows(f, stops, x, w, L) ==
  /\ f \in [0 .. L -> Scans] /\ f[0] = x
  /\ \A n \in 1 .. L :
       /\ stops /\ Jammed(f[n - 1]) => f[n] = f[n - 1]
       /\ ~(stops /\ Jammed(f[n - 1])) => f[n] = Turn(f[n - 1], w[n])

\* Run makes these steps, whether it stops or not.
LEMMA RunSteps ==
  ASSUME NEW b \in BOOLEAN,
         NEW x \in Scans, NEW w, NEW L \in Nat, Len(w) = L, \A i \in 1 .. L : w[i] \in 0 .. 255
  PROVE  \E f : Follows(f, b, x, w, L) /\ Run(x, w, LAMBDA y : b /\ Jammed(y)) = f[L]
<1> DEFINE E(y, n) == IF b /\ Jammed(y) THEN y ELSE Turn(y, w[n])
           G(run) == [n \in 0 .. L |-> IF n = 0 THEN x ELSE CHOOSE z \in { E(y, n) : y \in {run[n - 1]} } : TRUE]
<1>1. PICK h : Run(x, w, LAMBDA y : b /\ Jammed(y)) = h[L] /\ h = CHOOSE run : run = G(run)
  BY DEF Run
<1>2. \A y \in Scans, n \in 1 .. L : E(y, n) \in Scans
  BY TurnScans
<1> HIDE DEF E
<1>3. \A run : G(run) = [n \in 0 .. L |-> IF n = 0 THEN x ELSE E(run[n - 1], n)]
  <2>1. \A v : (CHOOSE z \in {v} : TRUE) = v
    OBVIOUS
  <2>2. \A run : \A n \in 0 .. L : { E(y, n) : y \in {run[n - 1]} } = {E(run[n - 1], n)}
    OBVIOUS
  <2>3. QED
    BY <2>1, <2>2
<1> HIDE DEF G
<1>4. \E g : g = G(g)
  <2> DEFINE F == [n \in 1 .. L |-> [y \in Scans |-> E(y, n)]]
  <2>1. F \in [1 .. L -> [Scans -> Scans]]
    BY <1>2
  <2>2. \A n \in 1 .. L, y \in Scans : F[n][y] = E(y, n)
    OBVIOUS
  <2> HIDE DEF F
  <2>3. PICK g \in Loops(Scans, L, x, F) : TRUE
    BY <2>1, LoopEnds
  <2>4. g \in [0 .. L -> Scans] /\ g[0] = x /\ \A n \in 1 .. L : g[n] = F[n][g[n - 1]]
    BY <2>3 DEF Loops
  <2>5. \A n \in 0 .. L : g[n] = IF n = 0 THEN x ELSE E(g[n - 1], n)
    BY <2>2, <2>4
  <2>6. g = [n \in 0 .. L |-> g[n]]
    BY <2>4
  <2>7. g = [n \in 0 .. L |-> IF n = 0 THEN x ELSE E(g[n - 1], n)]
    BY <2>5, <2>6
  <2>8. QED
    BY <1>3, <2>7
<1>5. h = G(h)
  BY <1>1, <1>4
<1>6. h = [n \in 0 .. L |-> IF n = 0 THEN x ELSE E(h[n - 1], n)]
  BY <1>3, <1>5
<1>7. h[0] = x /\ (\A n \in 1 .. L : h[n] = E(h[n - 1], n)) /\ h = [n \in 0 .. L |-> h[n]]
  BY <1>6
<1>8. \A n \in 0 .. L : h[n] \in Scans
  <2> DEFINE Z == { n \in 0 .. L : h[n] \in Scans }
  <2>1. 0 \in Z
    BY <1>7
  <2>2. ASSUME NEW k \in 0 .. L - 1, k \in Z PROVE k + 1 \in Z
    <3>1. k + 1 \in 1 .. L /\ (k + 1) - 1 = k /\ h[k] \in Scans
      BY <2>2
    <3>2. h[k + 1] = E(h[k], k + 1)
      BY <1>7, <3>1
    <3>3. QED
      BY <1>2, <3>1, <3>2
  <2>3. 0 .. L \subseteq Z
    <3> HIDE DEF Z
    <3>1. QED
      BY <2>1, <2>2, UpTo
  <2>4. QED
    BY <2>3
<1>9. h \in [0 .. L -> Scans]
  BY <1>7, <1>8
<1>10. \A n \in 1 .. L :
         /\ b /\ Jammed(h[n - 1]) => h[n] = h[n - 1]
         /\ ~(b /\ Jammed(h[n - 1])) => h[n] = Turn(h[n - 1], w[n])
  <2>1. \A y, n : (b /\ Jammed(y) => E(y, n) = y) /\ (~(b /\ Jammed(y)) => E(y, n) = Turn(y, w[n]))
    BY DEF E
  <2>2. QED
    BY <1>7, <2>1
<1>11. QED
  BY <1>1, <1>7, <1>9, <1>10 DEF Follows

\* The two ways of running, as the model has them.
LEMMA RunSame ==
  ASSUME NEW b \in BOOLEAN, NEW x, NEW w
  PROVE  /\ b => Run(x, w, LAMBDA y : b /\ Jammed(y)) = Run(x, w, Jammed)
         /\ ~b => Run(x, w, LAMBDA y : b /\ Jammed(y)) = Run(x, w, LAMBDA y : FALSE)
<1>1. CASE b = TRUE
  BY <1>1 DEF Run, Jammed
<1>2. CASE b = FALSE
  BY <1>2 DEF Run, Jammed
<1>3. QED
  BY <1>1, <1>2

\* The steps of yy_match.
LEMMA StoppingRun ==
  ASSUME NEW x \in Scans, NEW w, NEW L \in Nat, Len(w) = L, \A i \in 1 .. L : w[i] \in 0 .. 255
  PROVE  \E f : Follows(f, TRUE, x, w, L) /\ Run(x, w, Jammed) = f[L]
<1>1. PICK b \in BOOLEAN : b = TRUE
  OBVIOUS
<1>2. PICK f : Follows(f, b, x, w, L) /\ Run(x, w, LAMBDA y : b /\ Jammed(y)) = f[L]
  BY RunSteps
<1>3. Run(x, w, Jammed) = f[L]
  BY <1>1, <1>2, RunSame
<1>4. QED
  BY <1>1, <1>2, <1>3

\* The steps of yy_get_previous_state.
LEMMA WholeRun ==
  ASSUME NEW x \in Scans, NEW w, NEW L \in Nat, Len(w) = L, \A i \in 1 .. L : w[i] \in 0 .. 255
  PROVE  \E f : Follows(f, FALSE, x, w, L) /\ Run(x, w, LAMBDA y : FALSE) = f[L]
<1>1. PICK b \in BOOLEAN : b = FALSE
  OBVIOUS
<1>2. PICK f : Follows(f, b, x, w, L) /\ Run(x, w, LAMBDA y : b /\ Jammed(y)) = f[L]
  BY RunSteps
<1>3. Run(x, w, LAMBDA y : FALSE) = f[L]
  BY <1>1, <1>2, RunSame
<1>4. QED
  BY <1>1, <1>2, <1>3

-----------------------------------------------------------------------------
(* The run over the buffer and its two marks *)

\* The pair l is what is remembered of a token of m characters that begins at b,
\* and no text of up to n characters is a longer one.
Kept(l, b, t, m, n) == /\ l[1] \in 4 .. 112 /\ l[2] = b + m
                       /\ Accepts(l[1]) # 0 /\ Judges(Accepts(l[1]), t, m)
                       /\ \A i \in m + 1 .. n : NoToken(t, i)

\* Behind n characters something is remembered.
Remembers(l, b, t, n) == n >= 1 => \E m \in 1 .. n : Kept(l, b, t, m, n)

\* The state s is behind n characters, or at the start.
Reaches(s, t, n) == (n = 0 /\ s = 1) \/ (n >= 1 /\ Says(s, t, n))

\* The run y is behind n characters of the text t whose token begins at b.
Scan(y, b, t, n) == y \in Scans /\ y.cp = b + n /\ Reaches(y.state, t, n) /\ Remembers(y.last, b, t, n - 1)

\* After the last accepting state and its place are noted, they are those of the
\* longest token so far.
LEMMA Remember ==
  ASSUME NEW t \in Texts, NEW b \in Nat, NEW n \in 1 .. Len(t), NEW s, NEW l, Says(s, t, n),
         Remembers(l, b, t, n - 1)
  PROVE  Remembers(IF Accepts(s) # 0 THEN <<s, b + n>> ELSE l, b, t, n)
<1>1. n \in Nat /\ n >= 1
  BY Elements
<1>2. s \in 4 .. 112 /\ Judges(Accepts(s), t, n) /\ (Accepts(s) = 0 => NoToken(t, n) /\ n # 1)
  BY Means DEF Judges
<1>3. CASE Accepts(s) # 0
  <2>1. Kept(<<s, b + n>>, b, t, n, n)
    <3>1. n + 1 .. n = {}
      BY <1>1
    <3>2. QED
      BY <1>2, <1>3, <3>1 DEF Kept
  <2>2. n \in 1 .. n
    BY <1>1
  <2>3. Remembers(<<s, b + n>>, b, t, n)
    BY <2>1, <2>2 DEF Remembers
  <2>4. QED
    BY <1>3, <2>3
<1>4. CASE Accepts(s) = 0
  <2>1. n - 1 >= 1
    BY <1>1, <1>2, <1>4
  <2>2. PICK m \in 1 .. n - 1 : Kept(l, b, t, m, n - 1)
    BY <2>1 DEF Remembers
  <2>3. m \in 1 .. n /\ \A i \in m + 1 .. n : i \in m + 1 .. n - 1 \/ i = n
    BY <1>1
  <2>4. Kept(l, b, t, m, n)
    BY <1>2, <1>4, <2>2, <2>3 DEF Kept
  <2>5. Remembers(l, b, t, n)
    BY <2>3, <2>4 DEF Remembers
  <2>6. QED
    BY <1>4, <2>5
<1>5. QED
  BY <1>3, <1>4

\* A transition from a state that is reached.
LEMMA ReachNext ==
  ASSUME NEW t \in Texts, NEW n \in 0 .. Len(t) - 1, NEW s, Reaches(s, t, n)
  PROVE  Says(Follow(s, yy_ec(t[n + 1])), t, n + 1)
<1>1. CASE n = 0
  <2>1. s = 1 /\ Len(t) >= 1
    BY <1>1, Elements DEF Reaches
  <2>2. QED
    BY <1>1, <2>1, FirstSays
<1>2. CASE n # 0
  <2>1. n \in 1 .. Len(t) - 1 /\ Says(s, t, n)
    BY <1>2, Elements DEF Reaches
  <2>2. QED
    BY <2>1, StepSays
<1>3. QED
  BY <1>1, <1>2

\* One turn of the loop carries the run on to the next character.
LEMMA TurnOn ==
  ASSUME NEW t \in Texts, NEW b \in Nat, NEW n \in 0 .. Len(t) - 1, NEW y, Scan(y, b, t, n)
  PROVE  Scan(Turn(y, t[n + 1]), b, t, n + 1)
<1>1. PICK c, z : c = t[n + 1] /\ z = Turn(y, c)
  OBVIOUS
<1>2. n \in Nat /\ n + 1 \in 1 .. Len(t) /\ c \in 1 .. 255 /\ c \in 0 .. 255
  <2>1. n + 1 \in 1 .. Len(t)
    BY Elements
  <2>2. c \in 1 .. 255
    BY <1>1, <2>1, Elements
  <2>3. QED
    BY <2>1, <2>2, Elements
<1>3. y \in Scans /\ y.cp = b + n /\ Reaches(y.state, t, n) /\ Remembers(y.last, b, t, n - 1)
  BY DEF Scan
<1>4. z \in Scans /\ z.state = Follow(y.state, yy_ec(c))
  BY <1>1, <1>2, <1>3, TurnScans
<1>5. Reaches(z.state, t, n + 1)
  <2>1. Says(z.state, t, n + 1)
    BY <1>1, <1>3, <1>4, ReachNext
  <2>2. QED
    BY <1>2, <2>1 DEF Reaches
<1>6. z.cp = y.cp + 1 /\ z.last = IF Accepts(y.state) # 0 THEN <<y.state, y.cp>> ELSE y.last
  BY <1>1 DEF Turn, Accepts
<1>7. Remembers(z.last, b, t, n)
  <2>1. CASE n = 0
    BY <2>1 DEF Remembers
  <2>2. CASE n # 0
    <3>1. n \in 1 .. Len(t) /\ Says(y.state, t, n)
      BY <1>2, <1>3, <2>2, Elements DEF Reaches
    <3>2. Remembers(IF Accepts(y.state) # 0 THEN <<y.state, b + n>> ELSE y.last, b, t, n)
      BY <1>3, <3>1, Remember
    <3>3. QED
      BY <1>3, <1>6, <3>2
  <2>3. QED
    BY <2>1, <2>2
<1>8. z.cp = b + (n + 1) /\ (n + 1) - 1 = n
  BY <1>2, <1>3, <1>6
<1>9. QED
  BY <1>1, <1>4, <1>5, <1>7, <1>8 DEF Scan

\* The loop ends in the states that are stuck.
LEMMA JammedIs ==
  ASSUME NEW y
  PROVE  Jammed(y) <=> Stuck(y.state)
BY DEF Jammed, Stuck, JAM

\* At the two marks the automaton goes to state 3, notes the place of the first
\* mark, and to the jam state.
LEMMA TurnMarks ==
  ASSUME NEW y \in Scans, y.state # 3
  PROVE  /\ Turn(y, 0).state = 3 /\ Turn(y, 0).cp = y.cp + 1
         /\ ~Jammed(Turn(y, 0))
         /\ LET z == Turn(Turn(y, 0), 0)
            IN z \in Scans /\ z.state = 112 /\ z.cp = y.cp + 2 /\ z.last = <<3, y.cp + 1>>
<1>1. PICK u : u = Turn(y, 0)
  OBVIOUS
<1>2. PICK z : z = Turn(u, 0)
  OBVIOUS
<1>3. y.state \in States /\ y.cp \in Nat /\ 0 \in 0 .. 255
  BY DEF Scans, States
<1>4. u \in Scans /\ u.state = Follow(y.state, 0)
  BY <1>1, <1>3, TurnScans, ClassOfMark
<1>5. u.state = 3
  BY <1>3, <1>4, MarkStates
<1>6. z \in Scans /\ z.state = Follow(3, 0)
  BY <1>2, <1>3, <1>4, <1>5, TurnScans, ClassOfMark
<1>7. z.state = 112
  <2>1. 3 \in States
    BY DEF States
  <2>2. QED
    BY <1>6, <2>1, MarkStates
<1>8. Accepts(3) # 0 /\ ~Stuck(3)
  BY DEF Accepts, Stuck, yy_accept, yy_base
<1>9. u.cp = y.cp + 1 /\ z.cp = u.cp + 1 /\ z.last = <<3, u.cp>>
  BY <1>1, <1>2, <1>5, <1>8 DEF Turn, Accepts
<1>10. z.cp = y.cp + 2
  BY <1>3, <1>9
<1>11. QED
  BY <1>1, <1>2, <1>5, <1>6, <1>7, <1>8, <1>9, <1>10, JammedIs

\* Within a text the automaton is never in the mark's state, and it jams only
\* behind a character.
LEMMA ReachKnown ==
  ASSUME NEW t \in Texts, NEW n \in 0 .. Len(t), NEW s, Reaches(s, t, n)
  PROVE  s # 3 /\ (Stuck(s) => n >= 1)
<1>1. CASE n = 0
  BY <1>1, ShapeAccepts DEF Reaches
<1>2. CASE n # 0
  <2>1. n \in 1 .. Len(t) /\ Says(s, t, n) /\ n >= 1
    BY <1>2, Elements DEF Reaches
  <2>2. s \in 4 .. 112
    BY <2>1, Means
  <2>3. QED
    BY <2>1, <2>2
<1>3. QED
  BY <1>1, <1>2

\* The run has stopped in the text, or at the second of the marks behind L
\* characters.
Stopped(y, b, t, L) == \E n \in 1 .. L : Scan(y, b, t, n) /\ Stuck(y.state)
AtMark(y, b, L) == y \in Scans /\ y.state = 112 /\ y.cp = b + L + 2 /\ y.last = <<3, b + L + 1>>

\* yy_match, from wherever a run stands in the buffer, stops behind a text that
\* cannot become longer, or at the marks with a text that can.
LEMMA MatchRuns ==
  ASSUME NEW t \in Texts, NEW b \in Nat, NEW L \in 0 .. Len(t), NEW p \in 0 .. L, NEW x,
         Scan(x, b, t, p),
         NEW w, Len(w) = L - p + 2, \A i \in 1 .. L - p : w[i] = t[p + i], w[L - p + 1] = 0, w[L - p + 2] = 0
  PROVE  LET y == Run(x, w, Jammed)
         IN Stopped(y, b, t, L) \/ (AtMark(y, b, L) /\ \E s : Reaches(s, t, L) /\ ~Stuck(s))
<1>1. PICK K : K = L - p
  OBVIOUS
<1>2. K \in Nat /\ K + 2 \in Nat /\ L \in Nat /\ p \in Nat /\ Len(w) = K + 2 /\ p + K = L
  BY <1>1, Elements
<1>3. \A i \in 1 .. K + 2 : w[i] \in 0 .. 255
  <2>1. TAKE i \in 1 .. K + 2
  <2>2. CASE i \in 1 .. K
    <3>1. p + i \in 1 .. Len(t)
      BY <1>2, <2>2, Elements
    <3>2. t[p + i] \in 1 .. 255
      BY <3>1, Elements
    <3>3. w[i] = t[p + i]
      BY <1>1, <2>2
    <3>4. QED
      BY <3>2, <3>3
  <2>3. CASE i \notin 1 .. K
    <3>1. i = K + 1 \/ i = K + 2
      BY <1>2, <2>3
    <3>2. w[K + 1] = 0 /\ w[K + 2] = 0
      BY <1>1
    <3>3. w[i] = 0
      BY <3>1, <3>2
    <3>4. QED
      BY <3>3
  <2>4. QED
    BY <2>2, <2>3
<1>4. x \in Scans
  BY DEF Scan
<1>5. PICK f : Follows(f, TRUE, x, w, K + 2) /\ Run(x, w, Jammed) = f[K + 2]
  <2>1. PICK N \in Nat : N = K + 2
    BY <1>2
  <2>2. Len(w) = N /\ \A i \in 1 .. N : w[i] \in 0 .. 255
    BY <1>2, <1>3, <2>1
  <2>3. PICK f : Follows(f, TRUE, x, w, N) /\ Run(x, w, Jammed) = f[N]
    BY <1>4, <2>2, StoppingRun, ZenonT(60)
  <2>4. QED
    BY <2>1, <2>3
<1>6. f \in [0 .. K + 2 -> Scans] /\ f[0] = x
  BY <1>5 DEF Follows
<1>7. \A n \in 1 .. K + 2 : /\ Stuck(f[n - 1].state) => f[n] = f[n - 1]
                            /\ ~Stuck(f[n - 1].state) => f[n] = Turn(f[n - 1], w[n])
  <2>1. \A n \in 1 .. K + 2 : /\ Jammed(f[n - 1]) => f[n] = f[n - 1]
                              /\ ~Jammed(f[n - 1]) => f[n] = Turn(f[n - 1], w[n])
    BY <1>5 DEF Follows
  <2>2. QED
    BY <2>1, JammedIs
<1>8. \A j \in 0 .. K : Stopped(f[j], b, t, L) \/ Scan(f[j], b, t, p + j)
  <2> DEFINE Z == { j \in 0 .. K : Stopped(f[j], b, t, L) \/ Scan(f[j], b, t, p + j) }
  <2>1. 0 \in Z
    BY <1>2, <1>6
  <2>2. ASSUME NEW j \in 0 .. K - 1, j \in Z PROVE j + 1 \in Z
    <3>1. /\ j + 1 \in 1 .. K /\ j + 1 \in 0 .. K /\ j + 1 \in 1 .. K + 2 /\ (j + 1) - 1 = j
          /\ p + j \in 0 .. Len(t) - 1 /\ p + j \in 0 .. L /\ p + (j + 1) = (p + j) + 1 /\ p + j \in 0 .. Len(t)
      BY <1>2, <2>2, Elements
    <3>2. CASE Stopped(f[j], b, t, L)
      <4>1. Stuck(f[j].state)
        BY <3>2 DEF Stopped
      <4>2. f[j + 1] = f[j]
        BY <1>7, <3>1, <4>1
      <4>3. QED
        BY <3>1, <3>2, <4>2
    <3>3. CASE Scan(f[j], b, t, p + j) /\ Stuck(f[j].state)
      <4>1. p + j >= 1
        BY <3>1, <3>3, ReachKnown DEF Scan
      <4>2. p + j \in 1 .. L
        BY <3>1, <4>1
      <4>3. Stopped(f[j], b, t, L)
        BY <3>3, <4>2 DEF Stopped
      <4>4. f[j + 1] = f[j]
        BY <1>7, <3>1, <3>3
      <4>5. QED
        BY <3>1, <4>3, <4>4
    <3>4. CASE Scan(f[j], b, t, p + j) /\ ~Stuck(f[j].state)
      <4>1. f[j + 1] = Turn(f[j], w[j + 1])
        BY <1>7, <3>1, <3>4
      <4>2. w[j + 1] = t[(p + j) + 1]
        BY <1>1, <3>1
      <4>3. Scan(f[j + 1], b, t, (p + j) + 1)
        BY <3>1, <3>4, <4>1, <4>2, TurnOn
      <4>4. QED
        BY <3>1, <4>3
    <3>5. QED
      BY <2>2, <3>2, <3>3, <3>4
  <2>3. 0 .. K \subseteq Z
    <3> HIDE DEF Z
    <3>1. QED
      BY <1>2, <2>1, <2>2, UpTo
  <2>4. QED
    BY <2>3
<1>9. /\ K + 1 \in 1 .. K + 2 /\ K + 2 \in 1 .. K + 2 /\ (K + 1) - 1 = K /\ (K + 2) - 1 = K + 1
      /\ w[K + 1] = 0 /\ w[K + 2] = 0 /\ K \in 0 .. K /\ f[K] \in Scans
  BY <1>1, <1>2, <1>6
<1>10. CASE Stopped(f[K], b, t, L)
  <2>1. Stuck(f[K].state)
    BY <1>10 DEF Stopped
  <2>2. f[K + 1] = f[K]
    BY <1>7, <1>9, <2>1
  <2>3. f[K + 2] = f[K + 1]
    BY <1>7, <1>9, <2>1, <2>2
  <2>4. QED
    BY <1>5, <1>10, <2>2, <2>3
<1>11. CASE Scan(f[K], b, t, L) /\ Stuck(f[K].state)
  <2>1. L >= 1
    BY <1>11, ReachKnown DEF Scan
  <2>2. L \in 1 .. L
    BY <1>2, <2>1
  <2>3. Stopped(f[K], b, t, L)
    BY <1>11, <2>2 DEF Stopped
  <2>4. QED
    BY <1>10, <2>3
<1>12. CASE Scan(f[K], b, t, L) /\ ~Stuck(f[K].state)
  <2>1. f[K].state # 3 /\ Reaches(f[K].state, t, L) /\ f[K].cp = b + L
    BY <1>12, ReachKnown DEF Scan
  <2>2. PICK u : u = Turn(f[K], 0)
    OBVIOUS
  <2>3. f[K + 1] = u
    BY <1>7, <1>9, <1>12, <2>2
  <2>4. ~Stuck(u.state) /\ u.cp = b + L + 1
    BY <1>2, <1>9, <2>1, <2>2, TurnMarks, JammedIs
  <2>5. f[K + 2] = Turn(u, 0)
    BY <1>7, <1>9, <2>3, <2>4
  <2>6. AtMark(f[K + 2], b, L)
    <3>1. /\ Turn(u, 0) \in Scans /\ Turn(u, 0).state = 112 /\ Turn(u, 0).cp = f[K].cp + 2
          /\ Turn(u, 0).last = <<3, f[K].cp + 1>>
      BY <1>9, <2>1, <2>2, TurnMarks
    <3>2. QED
      BY <2>1, <2>5, <3>1 DEF AtMark
  <2>7. QED
    BY <1>5, <1>12, <2>1, <2>6
<1>13. QED
  BY <1>2, <1>8, <1>9, <1>10, <1>11, <1>12

\* yy_get_previous_state runs over the characters that are kept, and what it
\* remembers are their tokens.
LEMMA PreviousRuns ==
  ASSUME NEW t \in Texts, NEW L \in 0 .. Len(t), NEW x \in Scans, x.state = 1, x.cp = 0,
         NEW w, Len(w) = L, \A i \in 1 .. L : w[i] = t[i]
  PROVE  Scan(Run(x, w, LAMBDA y : FALSE), 0, t, L)
<1>1. L \in Nat /\ \A i \in 1 .. L : w[i] \in 0 .. 255
  <2>1. L \in Nat /\ L <= Len(t) /\ Len(t) \in Nat
    BY Elements
  <2>2. ASSUME NEW i \in 1 .. L PROVE w[i] \in 1 .. 255
    <3>1. i \in 1 .. Len(t)
      BY <2>1
    <3>2. t[i] \in 1 .. 255
      BY <3>1, Elements
    <3>3. QED
      BY <3>2
  <2>3. QED
    BY <2>1, <2>2
<1>2. PICK f : Follows(f, FALSE, x, w, L) /\ Run(x, w, LAMBDA y : FALSE) = f[L]
  BY <1>1, WholeRun
<1>3. f[0] = x /\ \A n \in 1 .. L : f[n] = Turn(f[n - 1], w[n])
  BY <1>2 DEF Follows
<1> DEFINE Z == { n \in 0 .. L : Scan(f[n], 0, t, n) }
<1>4. 0 \in Z
  <2>1. Scan(x, 0, t, 0)
    BY DEF Scan, Reaches, Remembers
  <2>2. QED
    BY <1>1, <1>3, <2>1
<1>5. ASSUME NEW n \in 0 .. L - 1, n \in Z PROVE n + 1 \in Z
  <2>1. n + 1 \in 1 .. L /\ n + 1 \in 0 .. L /\ (n + 1) - 1 = n /\ n \in 0 .. Len(t) - 1
    BY <1>1, <1>5, Elements
  <2>2. f[n + 1] = Turn(f[n], t[n + 1])
    BY <1>3, <2>1
  <2>3. Scan(f[n + 1], 0, t, n + 1)
    BY <1>5, <2>1, <2>2, TurnOn
  <2>4. QED
    BY <2>1, <2>3
<1>6. 0 .. L \subseteq Z
  <2> HIDE DEF Z
  <2>1. QED
    BY <1>1, <1>4, <1>5, UpTo
<1>7. QED
  BY <1>1, <1>2, <1>6

-----------------------------------------------------------------------------
(* The text that is left is cut from the front and kept by a read *)

\* The input from the token at hand on: what is in the buffer, and what is not
\* read yet.
Text == Pending \o input

\* What is left of a text.
LEMMA PartOf ==
  ASSUME NEW u \in Texts, NEW k \in 0 .. Len(u)
  PROVE  /\ SubSeq(u, k + 1, Len(u)) \in Texts /\ Len(SubSeq(u, k + 1, Len(u))) = Len(u) - k
         /\ \A i \in 1 .. Len(u) - k : SubSeq(u, k + 1, Len(u))[i] = u[k + i]
BY DEF Texts

\* Two texts, one behind the other.
LEMMA Joined ==
  ASSUME NEW u \in Texts, NEW v \in Texts
  PROVE  /\ u \o v \in Texts /\ Len(u \o v) = Len(u) + Len(v)
         /\ \A i \in 1 .. Len(u) : (u \o v)[i] = u[i]
         /\ \A i \in 1 .. Len(v) : (u \o v)[Len(u) + i] = v[i]
BY DEF Texts

\* Texts with the same characters are the same.
LEMMA Same ==
  ASSUME NEW u \in Texts, NEW v \in Texts, Len(u) = Len(v), \A i \in 1 .. Len(u) : u[i] = v[i]
  PROVE  u = v
BY DEF Texts

\* The empty text.
LEMMA EmptyIs == << >> \in Texts /\ Len(<< >>) = 0 /\ \A u \in Texts : u = << >> <=> Len(u) = 0
BY DEF Texts

\* What lies behind the first m characters of u \o v, for m inside of u.
LEMMA RestOf ==
  ASSUME NEW u \in Texts, NEW v \in Texts, NEW m \in 0 .. Len(u)
  PROVE  SubSeq(u, m + 1, Len(u)) \o v = SubSeq(u \o v, m + 1, Len(u \o v))
<1>1. Len(u) \in Nat /\ Len(v) \in Nat /\ m \in Nat
  BY Elements
<1>2. PICK r, z, y, x : r = SubSeq(u, m + 1, Len(u)) /\ z = u \o v /\ y = r \o v /\ x = SubSeq(z, m + 1, Len(z))
  OBVIOUS
<1>3. r \in Texts /\ Len(r) = Len(u) - m /\ \A i \in 1 .. Len(u) - m : r[i] = u[m + i]
  BY <1>2, PartOf
<1>4. z \in Texts /\ Len(z) = Len(u) + Len(v) /\ (\A i \in 1 .. Len(u) : z[i] = u[i]) /\ \A i \in 1 .. Len(v) : z[Len(u) + i] = v[i]
  BY <1>2, Joined
<1>5. y \in Texts /\ Len(y) = Len(r) + Len(v) /\ (\A i \in 1 .. Len(r) : y[i] = r[i]) /\ \A i \in 1 .. Len(v) : y[Len(r) + i] = v[i]
  BY <1>2, <1>3, Joined
<1>6. m \in 0 .. Len(z)
  BY <1>1, <1>4
<1>7. x \in Texts /\ Len(x) = Len(z) - m /\ \A i \in 1 .. Len(z) - m : x[i] = z[m + i]
  BY <1>2, <1>4, <1>6, PartOf
<1>8. ASSUME NEW i \in 1 .. Len(y) PROVE y[i] = x[i]
  <2>1. i \in Nat /\ i >= 1 /\ i <= Len(u) - m + Len(v) /\ i \in 1 .. Len(z) - m
    BY <1>1, <1>3, <1>4, <1>5
  <2>2. x[i] = z[m + i]
    BY <1>7, <2>1
  <2>3. CASE i <= Len(u) - m
    <3>1. i \in 1 .. Len(r) /\ i \in 1 .. Len(u) - m /\ m + i \in 1 .. Len(u)
      BY <1>1, <1>3, <2>1, <2>3
    <3>2. QED
      BY <1>3, <1>4, <1>5, <2>2, <3>1
  <2>4. CASE i > Len(u) - m
    <3>1. PICK j \in 1 .. Len(v) : i = Len(r) + j /\ m + i = Len(u) + j
      <4>1. i - Len(r) \in 1 .. Len(v) /\ i = Len(r) + (i - Len(r)) /\ m + i = Len(u) + (i - Len(r))
        BY <1>1, <1>3, <2>1, <2>4
      <4>2. QED
        BY <4>1
    <3>2. y[i] = v[j] /\ z[m + i] = v[j]
      BY <1>4, <1>5, <3>1
    <3>3. QED
      BY <2>2, <3>2
  <2>5. QED
    BY <1>1, <1>3, <2>1, <2>3, <2>4
<1>9. y = x
  <2>1. Len(y) = Len(x)
    BY <1>1, <1>3, <1>4, <1>5, <1>7
  <2>2. QED
    BY <1>5, <1>7, <1>8, <2>1, Same
<1>10. QED
  BY <1>2, <1>9

\* It is the same text wherever it is cut into what is read and what is not.
LEMMA Assoc ==
  ASSUME NEW u \in Texts, NEW v \in Texts, NEW g \in 0 .. Len(v)
  PROVE  (u \o SubSeq(v, 1, g)) \o SubSeq(v, g + 1, Len(v)) = u \o v
<1>1. PICK x, y : x = SubSeq(v, 1, g) /\ y = SubSeq(v, g + 1, Len(v))
  OBVIOUS
<1>2. x \in Seq(Bytes) /\ y \in Seq(Bytes) /\ u \in Seq(Bytes) /\ v \in Seq(Bytes)
  BY <1>1, PartOf, PrefixIs DEF Texts
<1>3. (u \o x) \o y = u \o (x \o y)
  BY <1>2, ConcatAssociative
<1>4. x \o y = SubSeq(v, 1, Len(v))
  <2>1. Len(v) \in Nat /\ 1 \in 1 .. Len(v) + 1 /\ g \in 1 - 1 .. Len(v) /\ Len(v) \in g .. Len(v)
    BY Elements
  <2>2. QED
    BY <1>1, <1>2, <2>1, ConcatAdjacentSubSeq
<1>5. SubSeq(v, 1, Len(v)) = v
  BY <1>2, SubSeqFull
<1>6. QED
  BY <1>1, <1>3, <1>4, <1>5

\* The first of two parts.
LEMMA FrontOf ==
  ASSUME NEW u \in Texts, NEW v \in Texts
  PROVE  SubSeq(u \o v, 1, Len(u)) = u
BY DEF Texts

-----------------------------------------------------------------------------
(* The inductive invariant *)

\* yy_match has stopped where no further character makes a longer token: in the
\* text, or at the end of the file; or it has met the mark.
Settled == \E n \in 1 .. Len(Pending) : /\ Scan(yy, yytext, Text, n)
                                        /\ Stuck(yy.state) \/ (input = << >> /\ n = Len(Pending))
AtEnd == AtMark(yy, yytext, Len(Pending)) /\ \E s : Reaches(s, Text, Len(Pending)) /\ ~Stuck(s)

\* The types, as the proofs need them.
Typed == /\ input \in Texts /\ yy_ch_buf \in Texts /\ yy_buf_size \in Nat /\ eof_pending \in BOOLEAN
         /\ yytext \in 0 .. Len(yy_ch_buf) /\ yy \in Scans /\ yy.cp \in yytext .. Len(yy_ch_buf) + 2
         /\ pc \in {"match", "find", "done", "exited"}

\* The inductive invariant: a run stands in the text at hand and remembers its
\* longest token so far, across reads and moves of the buffer; after yy_match it
\* is settled or at the mark.
ScanInv == /\ Typed /\ BufferFits
           /\ eof_pending => input = << >>
           /\ pc = "match" => \E n \in 0 .. Len(Pending) : Scan(yy, yytext, Text, n)
           /\ pc = "find" => Settled \/ AtEnd

\* The characters of the token at hand, and the text.
LEMMA PendingIs ==
  ASSUME Typed
  PROVE  /\ Pending \in Texts /\ Len(Pending) = Len(yy_ch_buf) - yytext
         /\ \A i \in 1 .. Len(yy_ch_buf) - yytext : Pending[i] = yy_ch_buf[yytext + i]
         /\ Text \in Texts /\ Len(Text) = Len(Pending) + Len(input)
         /\ Len(Pending) \in Nat /\ Len(input) \in Nat /\ Len(yy_ch_buf) \in Nat /\ yytext \in Nat
         /\ Len(Pending) \in 0 .. Len(Text)
<1>1. Pending \in Texts /\ Len(Pending) = Len(yy_ch_buf) - yytext
      /\ \A i \in 1 .. Len(yy_ch_buf) - yytext : Pending[i] = yy_ch_buf[yytext + i]
  BY PartOf DEF Pending, Typed
<1>2. Text \in Texts /\ Len(Text) = Len(Pending) + Len(input)
  BY <1>1, Joined DEF Text, Typed
<1>3. Len(Pending) \in Nat /\ Len(input) \in Nat /\ Len(yy_ch_buf) \in Nat /\ yytext \in Nat
  BY <1>1, Elements DEF Typed
<1>4. QED
  BY <1>1, <1>2, <1>3

\* yy_find_action, where the run has settled: the longest token with its first
\* rule, and never the mark's action.
LEMMA FoundSettled ==
  ASSUME Typed, Settled
  PROVE  /\ yy_act # YY_END_OF_BUFFER
         /\ Found \in Scans
         /\ \E m \in 1 .. Len(Pending) : /\ Found.cp = yytext + m /\ yy_act # 0 /\ Judges(yy_act, Text, m)
                                         /\ \A i \in m + 1 .. Len(Text) : NoToken(Text, i)
<1>1. PICK n \in 1 .. Len(Pending) : /\ Scan(yy, yytext, Text, n)
                                     /\ Stuck(yy.state) \/ (input = << >> /\ n = Len(Pending))
  BY DEF Settled
<1>2. Text \in Texts /\ Len(Text) = Len(Pending) + Len(input) /\ Len(Pending) \in Nat /\ Len(input) \in Nat /\ yytext \in Nat
  BY PendingIs
<1>3. n \in 1 .. Len(Text) /\ n \in Nat /\ n >= 1 /\ Len(Text) \in Nat
  BY <1>2
<1>4. yy \in Scans /\ yy.cp = yytext + n /\ Says(yy.state, Text, n) /\ Remembers(yy.last, yytext, Text, n - 1)
  BY <1>1, <1>3 DEF Scan, Reaches
<1>5. Remembers(IF Accepts(yy.state) # 0 THEN <<yy.state, yytext + n>> ELSE yy.last, yytext, Text, n)
  BY <1>2, <1>3, <1>4, Remember
<1>6. PICK l : l = IF Accepts(yy.state) # 0 THEN <<yy.state, yytext + n>> ELSE yy.last
  OBVIOUS
<1>7. PICK m \in 1 .. n : Kept(l, yytext, Text, m, n)
  BY <1>3, <1>5, <1>6 DEF Remembers
<1>8. Found.state = l[1] /\ Found.cp = l[2] /\ Found.last = yy.last
  BY <1>4, <1>6 DEF Found, BackUp, Accepts, Scans
<1>9. l[1] \in 4 .. 112 /\ l[2] = yytext + m /\ Accepts(l[1]) # 0 /\ Judges(Accepts(l[1]), Text, m)
      /\ \A i \in m + 1 .. n : NoToken(Text, i)
  BY <1>7 DEF Kept
<1>10. yy_act = Accepts(l[1])
  BY <1>8 DEF yy_act, Accepts
<1>11. yy_act # YY_END_OF_BUFFER
  <2>1. yy_act \in Rules
    BY <1>9, <1>10 DEF Judges
  <2>2. QED
    BY <2>1 DEF Rules, YY_END_OF_BUFFER
<1>12. Found \in Scans
  <2>1. Found = [yy EXCEPT !.state = l[1], !.cp = l[2]]
    BY <1>4, <1>6 DEF Found, BackUp, Accepts, Scans
  <2>2. l[1] \in 1 .. 112 /\ l[2] \in Nat
    BY <1>2, <1>3, <1>9
  <2>3. QED
    BY <1>4, <2>1, <2>2 DEF Scans
<1>13. \A i \in m + 1 .. Len(Text) : NoToken(Text, i)
  <2>1. TAKE i \in m + 1 .. Len(Text)
  <2>2. CASE i <= n
    BY <1>3, <1>9, <2>2
  <2>3. CASE i > n /\ Stuck(yy.state)
    <3>1. i \in 1 .. Len(Text)
      BY <1>3, <2>3
    <3>2. QED
      BY <1>2, <1>3, <1>4, <2>3, <3>1, StuckIsLast
  <2>4. CASE i > n /\ input = << >> /\ n = Len(Pending)
    BY <1>2, <1>3, <2>4, EmptyIs
  <2>5. QED
    BY <1>1, <1>3, <2>2, <2>3, <2>4
<1>14. m \in 1 .. Len(Pending)
  BY <1>2, <1>3
<1>15. QED
  BY <1>8, <1>9, <1>10, <1>11, <1>12, <1>13, <1>14

\* yy_find_action at the mark: its action, with the place of the mark.
LEMMA FoundAtEnd ==
  ASSUME Typed, AtEnd
  PROVE  yy_act = YY_END_OF_BUFFER /\ Found \in Scans /\ Found.cp = yytext + Len(Pending) + 1
<1>1. yy \in Scans /\ yy.state = 112 /\ yy.last = <<3, yytext + Len(Pending) + 1>>
  BY DEF AtEnd, AtMark
<1>2. yy_accept[113] = 0 /\ yy_accept[4] = 27 /\ 112 + 1 = 113 /\ 3 + 1 = 4
  BY DEF yy_accept
<1>3. Found = [yy EXCEPT !.state = 3, !.cp = yytext + Len(Pending) + 1]
  BY <1>1, <1>2 DEF Found, BackUp
<1>4. yytext + Len(Pending) + 1 \in Nat
  BY PendingIs
<1>5. Found \in Scans /\ Found.cp = yytext + Len(Pending) + 1 /\ Found.state = 3
  <2>1. PICK q, c : q = 3 /\ c = yytext + Len(Pending) + 1
    OBVIOUS
  <2>2. q \in 1 .. 112 /\ c \in Nat /\ Found = [yy EXCEPT !.state = q, !.cp = c]
    BY <1>3, <1>4, <2>1
  <2>3. Found \in Scans /\ Found.cp = c /\ Found.state = q
    BY <1>1, <2>2 DEF Scans
  <2>4. QED
    BY <2>1, <2>3
<1>6. QED
  BY <1>2, <1>5 DEF yy_act, YY_END_OF_BUFFER

\* At the mark, the text in the buffer may become a token or a longer one.
LEMMA ReachesText ==
  ASSUME Typed, AtEnd
  PROVE  Extendable(Pending)
<1>1. PICK s : Reaches(s, Text, Len(Pending)) /\ ~Stuck(s)
  BY DEF AtEnd
<1>2. /\ Pending \in Texts /\ input \in Texts /\ Text \in Texts /\ Len(Pending) \in Nat
      /\ Len(Pending) \in 0 .. Len(Text)
  BY PendingIs DEF Typed
<1>3. CASE Len(Pending) = 0
  BY <1>2, <1>3, EmptyIs DEF Extendable
<1>4. CASE Len(Pending) # 0
  <2>1. Len(Pending) \in 1 .. Len(Text) /\ Says(s, Text, Len(Pending))
    BY <1>1, <1>2, <1>4 DEF Reaches
  <2>2. Extendable(SubSeq(Text, 1, Len(Pending)))
    BY <1>1, <1>2, <2>1, OpenIsExtendable
  <2>3. SubSeq(Text, 1, Len(Pending)) = Pending
    BY <1>2, FrontOf DEF Text
  <2>4. QED
    BY <2>2, <2>3
<1>5. QED
  BY <1>3, <1>4

\* After what is kept was moved to the front, the run over it stands at its end.
LEMMA Previous ==
  ASSUME Typed
  PROVE  Scan(yy_get_previous_state(Pending), 0, Text, Len(Pending))
<1>1. PICK x : x = Start(0)
  OBVIOUS
<1>2. x \in Scans /\ x.state = 1 /\ x.cp = 0
  BY <1>1 DEF Start, Scans, INITIAL, Typed
<1>3. /\ Pending \in Texts /\ input \in Texts /\ Text \in Texts /\ Len(Pending) \in 0 .. Len(Text)
  BY PendingIs DEF Typed
<1>4. \A i \in 1 .. Len(Pending) : Pending[i] = Text[i]
  BY <1>3, Joined DEF Text
<1>5. PICK w, L : w = Pending /\ L = Len(Pending)
  OBVIOUS
<1>6. PICK t : t = Text
  OBVIOUS
<1>7. Scan(Run(x, w, LAMBDA y : FALSE), 0, t, L)
  <2>1. t \in Texts /\ L \in 0 .. Len(t) /\ Len(w) = L /\ \A i \in 1 .. L : w[i] = t[i]
    BY <1>3, <1>4, <1>5, <1>6
  <2>2. QED
    BY <1>2, <2>1, PreviousRuns
<1>8. QED
  BY <1>1, <1>5, <1>6, <1>7 DEF yy_get_previous_state

\* The loop that doubles the buffer ends with room for one character at least.
LEMMA GrownIs ==
  ASSUME Typed, BufferFits
  PROVE  Grown \in Nat /\ Grown - Len(Pending) - 1 >= 1
<1>1. PICK L, z : L = Len(Pending) /\ z = yy_buf_size
  OBVIOUS
<1>2. L \in Nat /\ z \in Nat /\ L < z
  BY <1>1, PendingIs DEF Typed, BufferFits
<1> DEFINE P(n) == n - L - 1 > 0 /\ (n > z => (n \div 2) - L - 1 <= 0)
           G == { z * 2 ^ k : k \in 0 .. L + 1 }
<1>3. \E n \in G : P(n)
  <2>1. 2 ^ 0 = 1 /\ 2 ^ 1 = 2
    OBVIOUS
  <2>2. z * 1 \in G /\ z * 2 \in G
    <3>1. 0 \in 0 .. L + 1 /\ 1 \in 0 .. L + 1
      BY <1>2
    <3>2. QED
      BY <2>1, <3>1
  <2>3. z * 1 = z /\ (z * 2) \div 2 = z
    BY <1>2
  <2>4. CASE L < z - 1
    <3>1. P(z * 1)
      BY <1>2, <2>3, <2>4
    <3>2. QED
      BY <2>2, <3>1
  <2>5. CASE L = z - 1
    <3>1. P(z * 2)
      BY <1>2, <2>3, <2>5
    <3>2. QED
      BY <2>2, <3>1
  <2>6. QED
    BY <1>2, <2>4, <2>5
<1>4. Grown = CHOOSE n \in G : P(n)
  BY <1>1 DEF Grown
<1>5. Grown \in G /\ P(Grown)
  <2> HIDE DEF G, P
  <2>1. QED
    BY <1>3, <1>4
<1>6. G \subseteq Int
  BY <1>2
<1>7. Grown \in Int /\ Grown - L - 1 > 0
  <2> HIDE DEF G
  <2>1. QED
    BY <1>5, <1>6
<1>8. QED
  BY <1>1, <1>2, <1>7

\* A read gives at least one character and at most as many as asked for, from the
\* front of the input.
LEMMA GivenIs ==
  ASSUME input \in Texts, input # << >>, NEW max \in Nat, max >= 1
  PROVE  \E g \in 1 .. Len(input) : g <= max /\ Given(max) = SubSeq(input, 1, g)
<1>1. Len(input) \in Nat /\ Len(input) >= 1
  BY Elements, EmptyIs
<1>2. PICK h : h = IF max < Len(input) THEN max ELSE Len(input)
  OBVIOUS
<1>3. h \in 1 .. Len(input) /\ h <= max /\ h \in 0 .. Len(input) /\ h \in Nat
  BY <1>1, <1>2
<1>4. PICK most : most = SubSeq(input, 1, h)
  OBVIOUS
<1>5. most \in Texts /\ Len(most) = h /\ \A i \in 1 .. h : most[i] = input[i]
  BY <1>3, <1>4, PrefixIs
<1>6. PICK lines : lines = { i \in DOMAIN most : most[i] = 10 }
  OBVIOUS
<1>7. PICK i : i = CHOOSE j \in lines : \A k \in lines : j <= k
  OBVIOUS
<1>8. Given(max) = IF yy_is_interactive /\ lines # {} THEN SubSeq(most, 1, i) ELSE most
  BY <1>2, <1>4, <1>6, <1>7 DEF Given
<1>9. CASE lines # {}
  <2>1. lines \in SUBSET (1 .. h)
    BY <1>5, <1>6, Elements
  <2>2. Min(lines) \in lines /\ \A j \in lines : Min(lines) =< j
    BY <1>3, <1>9, <2>1, Least
  <2>3. i \in lines
    BY <1>7, <2>2
  <2>4. i \in 1 .. h /\ i \in 1 .. Len(input) /\ i <= max /\ i \in 0 .. Len(most) /\ i \in 0 .. Len(input)
    BY <1>1, <1>3, <1>5, <2>1, <2>3
  <2>5. SubSeq(most, 1, i) = SubSeq(input, 1, i)
    <3>1. PICK u, v : u = SubSeq(most, 1, i) /\ v = SubSeq(input, 1, i)
      OBVIOUS
    <3>2. u \in Texts /\ Len(u) = i /\ \A j \in 1 .. i : u[j] = most[j]
      BY <1>5, <2>4, <3>1, PrefixIs
    <3>3. v \in Texts /\ Len(v) = i /\ \A j \in 1 .. i : v[j] = input[j]
      BY <2>4, <3>1, PrefixIs
    <3>4. \A j \in 1 .. i : u[j] = v[j]
      BY <1>3, <1>5, <2>4, <3>2, <3>3
    <3>5. QED
      BY <3>1, <3>2, <3>3, <3>4, Same
  <2>6. QED
    BY <1>3, <1>4, <1>8, <2>4, <2>5
<1>10. CASE lines = {}
  BY <1>3, <1>4, <1>8, <1>10
<1>11. QED
  BY <1>9, <1>10

-----------------------------------------------------------------------------
(* The steps *)

\* The invariant holds at the start.
LEMMA InitScans ==
  ASSUME Init
  PROVE  ScanInv
<1>1. input \in Texts
  BY InputAssumption DEF Init, Texts, Bytes
<1>2. yy_ch_buf = << >> /\ yytext = 0 /\ yy = [state |-> 1, cp |-> 0, last |-> <<0, 0>>] /\ pc = "match"
      /\ eof_pending = FALSE /\ yy_buf_size \in Nat \ {0, 1}
  BY SizeAssumption DEF Init, INITIAL
<1>3. << >> \in Texts /\ Len(<< >>) = 0
  BY EmptyIs
<1>4. yy \in Scans
  BY <1>2 DEF Scans
<1>5. Typed
  <2>1. yy.cp = 0 /\ 0 \in 0 .. 0 /\ 0 \in 0 .. 0 + 2
    BY <1>2
  <2>2. yytext \in 0 .. Len(yy_ch_buf) /\ yy.cp \in yytext .. Len(yy_ch_buf) + 2
    BY <1>2, <1>3, <2>1
  <2>3. QED
    BY <1>1, <1>2, <1>3, <1>4, <2>2 DEF Typed
<1>6. BufferFits
  BY <1>2, <1>3 DEF BufferFits
<1>7. Scan(yy, yytext, Text, 0)
  BY <1>2, <1>4 DEF Scan, Reaches, Remembers
<1>8. 0 \in 0 .. Len(Pending)
  BY <1>5, PendingIs
<1>9. QED
  BY <1>2, <1>5, <1>6, <1>7, <1>8 DEF ScanInv

\* A sequence with the two marks behind it.
LEMMA WithMarks ==
  ASSUME NEW S, NEW r \in Seq(S), NEW z \in S
  PROVE  /\ Len(r \o <<z, z>>) = Len(r) + 2
         /\ \A i \in 1 .. Len(r) : (r \o <<z, z>>)[i] = r[i]
         /\ (r \o <<z, z>>)[Len(r) + 1] = z /\ (r \o <<z, z>>)[Len(r) + 2] = z
<1>1. <<z, z>> \in Seq(S) /\ Len(<<z, z>>) = 2 /\ <<z, z>>[1] = z /\ <<z, z>>[2] = z
  OBVIOUS
<1>2. PICK v : v = <<z, z>>
  OBVIOUS
<1>3. Len(r) \in Nat
  OBVIOUS
<1>4. Len(r \o v) = Len(r) + 2
  BY <1>1, <1>2
<1>5. \A i \in 1 .. Len(r) : (r \o v)[i] = r[i]
  BY <1>1, <1>2
<1>6. (r \o v)[Len(r) + 1] = z /\ (r \o v)[Len(r) + 2] = z
  BY <1>1, <1>2, <1>3
<1>7. QED
  BY <1>2, <1>4, <1>5, <1>6

\* What yy_match runs over: the rest of the buffer and the two marks.
LEMMA MatchWord ==
  ASSUME NEW u \in Texts, NEW k \in 0 .. Len(u), NEW w, w = SubSeq(u, k + 1, Len(u)) \o <<0, 0>>
  PROVE  /\ Len(w) = Len(u) - k + 2
         /\ \A i \in 1 .. Len(u) - k : w[i] = u[k + i]
         /\ w[Len(u) - k + 1] = 0 /\ w[Len(u) - k + 2] = 0
<1>1. PICK r : r = SubSeq(u, k + 1, Len(u))
  OBVIOUS
<1>2. r \in Texts /\ Len(r) = Len(u) - k /\ Len(r) \in Nat /\ \A i \in 1 .. Len(u) - k : r[i] = u[k + i]
  BY <1>1, PartOf, Elements
<1>3. PICK S : S = Bytes \cup {0}
  OBVIOUS
<1>4. r \in Seq(S) /\ 0 \in S
  <2>1. Bytes \subseteq S
    BY <1>3
  <2>2. r \in Seq(S)
    BY <1>2, <2>1, SeqMonotonic DEF Texts
  <2>3. QED
    BY <1>3, <2>2
<1>5. /\ Len(r \o <<0, 0>>) = Len(r) + 2
      /\ \A i \in 1 .. Len(r) : (r \o <<0, 0>>)[i] = r[i]
      /\ (r \o <<0, 0>>)[Len(r) + 1] = 0 /\ (r \o <<0, 0>>)[Len(r) + 2] = 0
  BY <1>4, WithMarks
<1>6. QED
  BY <1>1, <1>2, <1>5

\* yy_match keeps the invariant.
LEMMA MatchStep ==
  ASSUME ScanInv, yy_match
  PROVE  ScanInv'
<1>1. Typed /\ BufferFits /\ (eof_pending => input = << >>) /\ pc = "match"
  BY DEF ScanInv, yy_match
<1>2. /\ Pending \in Texts /\ Len(Pending) = Len(yy_ch_buf) - yytext
      /\ \A i \in 1 .. Len(yy_ch_buf) - yytext : Pending[i] = yy_ch_buf[yytext + i]
      /\ Text \in Texts /\ Len(Text) = Len(Pending) + Len(input)
      /\ Len(Pending) \in Nat /\ Len(input) \in Nat /\ Len(yy_ch_buf) \in Nat /\ yytext \in Nat
      /\ Len(Pending) \in 0 .. Len(Text)
  BY <1>1, PendingIs
<1>3. PICK n \in 0 .. Len(Pending) : Scan(yy, yytext, Text, n)
  BY DEF ScanInv, yy_match
<1>4. PICK w : w = SubSeq(yy_ch_buf, yy.cp + 1, Len(yy_ch_buf)) \o <<0, 0>>
  OBVIOUS
<1>5. yy.cp = yytext + n /\ yy.cp \in 0 .. Len(yy_ch_buf) /\ Len(yy_ch_buf) - yy.cp = Len(Pending) - n
  BY <1>2, <1>3 DEF Scan
<1>6. /\ Len(w) = Len(yy_ch_buf) - yy.cp + 2
      /\ \A i \in 1 .. Len(yy_ch_buf) - yy.cp : w[i] = yy_ch_buf[yy.cp + i]
      /\ w[Len(yy_ch_buf) - yy.cp + 1] = 0 /\ w[Len(yy_ch_buf) - yy.cp + 2] = 0
  BY <1>1, <1>4, <1>5, MatchWord DEF Typed
<1>7. PICK L, t, b : L = Len(Pending) /\ t = Text /\ b = yytext
  OBVIOUS
<1>8. Len(w) = L - n + 2 /\ (\A i \in 1 .. L - n : w[i] = t[n + i]) /\ w[L - n + 1] = 0 /\ w[L - n + 2] = 0
  <2>1. ASSUME NEW i \in 1 .. L - n PROVE w[i] = t[n + i]
    <3>1. i \in 1 .. Len(yy_ch_buf) - yy.cp /\ n + i \in 1 .. Len(Pending) /\ n + i \in 1 .. Len(yy_ch_buf) - yytext
          /\ yytext + (n + i) = yy.cp + i
      BY <1>2, <1>5, <1>7
    <3>2. w[i] = yy_ch_buf[yy.cp + i]
      BY <1>6, <3>1
    <3>3. Pending[n + i] = yy_ch_buf[yytext + (n + i)]
      BY <1>2, <3>1
    <3>4. Text[n + i] = Pending[n + i]
      BY <1>1, <1>2, <3>1, Joined DEF Text, Typed
    <3>5. QED
      BY <1>7, <3>1, <3>2, <3>3, <3>4
  <2>2. QED
    BY <1>5, <1>6, <1>7, <2>1
<1>9. PICK y : y = Run(yy, w, Jammed)
  OBVIOUS
<1>10. Stopped(y, b, t, L) \/ (AtMark(y, b, L) /\ \E s : Reaches(s, t, L) /\ ~Stuck(s))
  <2>1. t \in Texts /\ b \in Nat /\ L \in 0 .. Len(t) /\ n \in 0 .. L /\ Scan(yy, b, t, n)
    BY <1>2, <1>3, <1>7
  <2>2. QED
    BY <1>8, <1>9, <2>1, MatchRuns
<1>11. yy' = y
  BY <1>4, <1>9 DEF yy_match, Match
<1>12. /\ pc' = "find" /\ input' = input /\ yy_ch_buf' = yy_ch_buf /\ yy_buf_size' = yy_buf_size
       /\ eof_pending' = eof_pending /\ yytext' = yytext
  BY DEF yy_match, buffer
<1>13. Pending' = Pending /\ Text' = Text
  BY <1>12 DEF Pending, Text
<1>14. y \in Scans /\ y.cp \in b .. Len(yy_ch_buf) + 2
  <2>1. CASE Stopped(y, b, t, L)
    <3>1. PICK m \in 1 .. L : Scan(y, b, t, m)
      BY <2>1 DEF Stopped
    <3>2. QED
      BY <1>2, <1>7, <3>1 DEF Scan
  <2>2. CASE AtMark(y, b, L)
    BY <1>2, <1>7, <2>2 DEF AtMark
  <2>3. QED
    BY <1>10, <2>1, <2>2
<1>15. Typed' /\ BufferFits' /\ (eof_pending => input = << >>)'
  BY <1>1, <1>7, <1>11, <1>12, <1>14 DEF Typed, BufferFits
<1>16. Settled' \/ AtEnd'
  <2>1. CASE Stopped(y, b, t, L)
    <3>1. PICK m \in 1 .. L : Scan(y, b, t, m) /\ Stuck(y.state)
      BY <2>1 DEF Stopped
    <3>2. m \in 1 .. Len(Pending') /\ Scan(yy', yytext', Text', m) /\ Stuck(yy'.state)
      BY <1>7, <1>11, <1>12, <1>13, <3>1
    <3>3. QED
      BY <3>2 DEF Settled
  <2>2. CASE AtMark(y, b, L) /\ \E s : Reaches(s, t, L) /\ ~Stuck(s)
    BY <1>7, <1>11, <1>12, <1>13, <2>2 DEF AtEnd
  <2>3. QED
    BY <1>10, <2>1, <2>2
<1>17. QED
  BY <1>12, <1>15, <1>16 DEF ScanInv

\* A rule's action cuts the longest token off the text and keeps the invariant.
LEMMA RuleStep ==
  ASSUME ScanInv, rule_action
  PROVE  ScanInv' /\ T!Cut
<1>1. Typed /\ BufferFits /\ (eof_pending => input = << >>) /\ pc = "find" /\ yy_act # YY_END_OF_BUFFER
  BY DEF ScanInv, rule_action
<1>2. /\ Pending \in Texts /\ Len(Pending) = Len(yy_ch_buf) - yytext
      /\ \A i \in 1 .. Len(yy_ch_buf) - yytext : Pending[i] = yy_ch_buf[yytext + i]
      /\ Text \in Texts /\ Len(Text) = Len(Pending) + Len(input)
      /\ Len(Pending) \in Nat /\ Len(input) \in Nat /\ Len(yy_ch_buf) \in Nat /\ yytext \in Nat
  BY <1>1, PendingIs
<1>3. Settled
  BY <1>1, FoundAtEnd DEF ScanInv
<1>4. PICK m \in 1 .. Len(Pending) : /\ Found.cp = yytext + m /\ yy_act # 0 /\ Judges(yy_act, Text, m)
                                     /\ \A i \in m + 1 .. Len(Text) : NoToken(Text, i)
  BY <1>1, <1>3, FoundSettled
<1>5. Found \in Scans
  BY <1>1, <1>3, FoundSettled
<1>6. /\ input' = input /\ yy_ch_buf' = yy_ch_buf /\ yy_buf_size' = yy_buf_size /\ eof_pending' = eof_pending
      /\ yytext' = yytext + m /\ pc' = "match" /\ yy' = [Found EXCEPT !.state = 1, !.cp = yytext + m]
  BY <1>4 DEF rule_action, Next_c_buf_p, INITIAL
<1>7. yytext + m \in 0 .. Len(yy_ch_buf) /\ yytext + m \in Nat /\ m \in 0 .. Len(Pending) /\ m \in Nat /\ m >= 1
      /\ m \in 1 .. Len(Text)
  BY <1>2
<1>8. yy' \in Scans /\ yy'.state = 1 /\ yy'.cp = yytext + m
  <2>1. PICK q, c : q = 1 /\ c = yytext + m
    OBVIOUS
  <2>2. q \in 1 .. 112 /\ c \in Nat /\ yy' = [Found EXCEPT !.state = q, !.cp = c]
    BY <1>6, <1>7, <2>1
  <2>3. yy' \in Scans /\ yy'.cp = c /\ yy'.state = q
    BY <1>5, <2>2 DEF Scans
  <2>4. QED
    BY <2>1, <2>3
<1>9. Typed'
  <2>1. yy'.cp \in yytext' .. Len(yy_ch_buf') + 2
    BY <1>2, <1>6, <1>7, <1>8
  <2>2. QED
    BY <1>1, <1>6, <1>7, <1>8, <2>1 DEF Typed
<1>10. Scan(yy', yytext', Text', 0)
  <2>1. yytext' = yytext' + 0
    BY <1>6, <1>7
  <2>2. QED
    BY <1>6, <1>8, <2>1 DEF Scan, Reaches, Remembers
<1>11. ScanInv'
  <2>1. 0 \in 0 .. Len(Pending')
    <3>1. Pending' \in Texts
      <4>1. Pending' = SubSeq(yy_ch_buf, (yytext + m) + 1, Len(yy_ch_buf))
        BY <1>6 DEF Pending
      <4>2. yy_ch_buf \in Texts
        BY <1>1 DEF Typed
      <4>3. QED
        BY <1>7, <4>1, <4>2, PartOf
    <3>2. QED
      BY <3>1, Elements
  <2>2. BufferFits' /\ (eof_pending => input = << >>)'
    BY <1>1, <1>6 DEF BufferFits
  <2>3. QED
    BY <1>6, <1>9, <1>10, <2>1, <2>2 DEF ScanInv
<1>12. Pending' = SubSeq(Pending, m + 1, Len(Pending))
  <2>1. PICK u, v, x : u = yy_ch_buf /\ v = SubSeq(u, (yytext + m) + 1, Len(u)) /\ x = SubSeq(Pending, m + 1, Len(Pending))
    OBVIOUS
  <2>2. u \in Texts
    BY <1>1, <2>1 DEF Typed
  <2>3. v \in Texts /\ Len(v) = Len(u) - (yytext + m) /\ \A i \in 1 .. Len(u) - (yytext + m) : v[i] = u[(yytext + m) + i]
    BY <1>7, <2>1, <2>2, PartOf
  <2>4. x \in Texts /\ Len(x) = Len(Pending) - m /\ \A i \in 1 .. Len(Pending) - m : x[i] = Pending[m + i]
    BY <1>2, <1>7, <2>1, PartOf
  <2>5. Len(v) = Len(x)
    BY <1>2, <1>7, <2>1, <2>3, <2>4
  <2>6. ASSUME NEW i \in 1 .. Len(v) PROVE v[i] = x[i]
    <3>1. i \in 1 .. Len(u) - (yytext + m) /\ i \in 1 .. Len(Pending) - m /\ m + i \in 1 .. Len(yy_ch_buf) - yytext
          /\ yytext + (m + i) = (yytext + m) + i
      BY <1>2, <1>7, <2>1, <2>3, <2>4, <2>5
    <3>2. Pending[m + i] = yy_ch_buf[yytext + (m + i)]
      BY <1>2, <3>1
    <3>3. QED
      BY <2>1, <2>3, <2>4, <3>1, <3>2
  <2>7. v = x
    BY <2>3, <2>4, <2>5, <2>6, Same
  <2>8. Pending' = v
    BY <1>6, <2>1 DEF Pending
  <2>9. QED
    BY <2>1, <2>7, <2>8
<1>13. Text' = SubSeq(Text, m + 1, Len(Text))
  <2>1. input \in Texts
    BY <1>1 DEF Typed
  <2>2. SubSeq(Pending, m + 1, Len(Pending)) \o input = SubSeq(Text, m + 1, Len(Text))
    BY <1>2, <1>7, <2>1, RestOf DEF Text
  <2>3. Text' = Pending' \o input
    BY <1>6 DEF Text
  <2>4. QED
    BY <1>12, <2>2, <2>3
<1>14. m = Longest(Text) /\ yy_act = FirstRule(SubSeq(Text, 1, m))
  <2>1. PICK a, t : a = yy_act /\ t = Text
    OBVIOUS
  <2>2. t \in Texts /\ m \in 1 .. Len(t) /\ a # 0 /\ Judges(a, t, m) /\ \A i \in m + 1 .. Len(t) : NoToken(t, i)
    BY <1>2, <1>4, <1>7, <2>1
  <2>3. m = Longest(t) /\ a = FirstRule(SubSeq(t, 1, m))
    BY <2>2, TokenIs
  <2>4. QED
    BY <2>1, <2>3
<1>15. Len(Text) - Len(Text') = m
  <2>1. m \in 0 .. Len(Text) /\ Len(Text) \in Nat
    BY <1>2, <1>7
  <2>2. Len(SubSeq(Text, m + 1, Len(Text))) = Len(Text) - m
    BY <1>2, <2>1, PartOf
  <2>3. QED
    BY <1>7, <1>13, <2>1, <2>2
<1>16. SubSeq(yy_ch_buf, yytext + 1, Found.cp) = SubSeq(Text, 1, m)
  <2>1. PICK u, v, x : u = yy_ch_buf /\ v = SubSeq(u, yytext + 1, yytext + m) /\ x = SubSeq(Text, 1, m)
    OBVIOUS
  <2>2. u \in Seq(Bytes) /\ yytext + 1 \in 1 .. Len(u) + 1 /\ yytext + m \in yytext .. Len(u)
    BY <1>1, <1>2, <1>7, <2>1 DEF Typed, Texts
  <2>3. v \in Texts /\ Len(v) = m /\ \A i \in 1 .. m : v[i] = u[yytext + i]
    BY <1>2, <1>7, <2>1, <2>2 DEF Texts
  <2>4. x \in Texts /\ Len(x) = m /\ \A i \in 1 .. m : x[i] = Text[i]
    <3>1. m \in 0 .. Len(Text)
      BY <1>2, <1>7
    <3>2. QED
      BY <1>2, <2>1, <3>1, PrefixIs
  <2>5. ASSUME NEW i \in 1 .. m PROVE v[i] = x[i]
    <3>1. i \in 1 .. Len(Pending) /\ i \in 1 .. Len(yy_ch_buf) - yytext
      BY <1>2, <1>7
    <3>2. Text[i] = Pending[i] /\ Pending[i] = u[yytext + i]
      BY <1>1, <1>2, <2>1, <3>1, Joined DEF Text, Typed
    <3>3. QED
      BY <2>3, <2>4, <3>2
  <2>6. v = x
    BY <2>3, <2>4, <2>5, Same
  <2>7. QED
    BY <1>4, <2>1, <2>6
<1>17. token'.rule = yy_act /\ token'.text = SubSeq(Text, 1, m)
  BY <1>16 DEF rule_action
<1>18. T!Cut
  <2>1. /\ Len(Pending \o input) - Len((Pending \o input)') = m /\ m > 0
        /\ (Pending \o input)' = SubSeq(Pending \o input, m + 1, Len(Pending \o input))
        /\ m = Longest(Pending \o input)
        /\ token'.rule = FirstRule(SubSeq(Pending \o input, 1, m))
        /\ token'.text = SubSeq(Pending \o input, 1, m)
    BY <1>7, <1>13, <1>14, <1>15, <1>17 DEF Text
  <2>2. QED
    BY <2>1 DEF T!Cut
<1>19. QED
  BY <1>11, <1>18

\* A step that leaves the text and the token.
SameText == Text' = Text /\ token' = token

\* The smaller of two sizes.
LEMMA MinOf ==
  ASSUME NEW a \in Nat, NEW b \in Nat, a >= 1, b >= 1
  PROVE  \E m \in Nat : m = (IF a > b THEN b ELSE a) /\ m >= 1 /\ m <= a
<1>1. CASE a > b
  BY <1>1
<1>2. CASE ~(a > b)
  BY <1>2
<1>3. QED
  BY <1>1, <1>2

\* A text from its first character on.
LEMMA AtFront ==
  ASSUME NEW u \in Texts
  PROVE  SubSeq(u, 0 + 1, Len(u)) = u
BY SubSeqFull DEF Texts

\* After a step that moves what is kept to the front, the run stands at its end.
LEMMA KeptInFront ==
  ASSUME ScanInv, NEW n,
         yytext' = 0, yy' = yy_get_previous_state(Pending),
         Text' = Text, n = Len(Pending)
  PROVE  Scan(yy', yytext', Text', n)
BY Previous DEF ScanInv

\* A read keeps the invariant and the text, and it happens only when the text at
\* hand may become a longer token.
LEMMA ReadStep ==
  ASSUME ScanInv, read_more
  PROVE  ScanInv' /\ SameText /\ Extendable(Pending)
<1>1. /\ Typed /\ BufferFits /\ (eof_pending => input = << >>) /\ pc = "find"
      /\ yy_act = YY_END_OF_BUFFER /\ ~eof_pending /\ input # << >>
  BY DEF ScanInv, read_more
<1>2. AtEnd
  BY <1>1, FoundSettled DEF ScanInv
<1>3. /\ Pending \in Texts /\ Len(Pending) \in Nat /\ input \in Texts
  BY <1>1, PendingIs DEF Typed
<1>4. PICK G : G = Grown
  OBVIOUS
<1>5. G \in Nat /\ G - Len(Pending) - 1 >= 1
  BY <1>1, <1>4, GrownIs
<1>6. NumToRead(G) \in Nat /\ NumToRead(G) >= 1 /\ NumToRead(G) = G - Len(Pending) - 1
  BY <1>3, <1>5 DEF NumToRead
<1>7. YY_READ_BUF_SIZE \in Nat /\ YY_READ_BUF_SIZE >= 1
  BY SizeAssumption
<1>8. PICK max \in Nat : /\ max = (IF NumToRead(G) > YY_READ_BUF_SIZE THEN YY_READ_BUF_SIZE ELSE NumToRead(G))
                         /\ max >= 1 /\ max <= NumToRead(G)
  BY <1>6, <1>7, MinOf
<1>9. PICK g \in 1 .. Len(input) : g <= max /\ Given(max) = SubSeq(input, 1, g)
  BY <1>1, <1>3, <1>8, GivenIs
<1>10. PICK got : got = SubSeq(input, 1, g)
  OBVIOUS
<1>11. g \in 0 .. Len(input) /\ g \in Nat
  BY <1>3, <1>9, Elements
<1>12. got \in Texts /\ Len(got) = g
  BY <1>3, <1>10, <1>11, PrefixIs
<1>13. /\ input' = SubSeq(input, g + 1, Len(input)) /\ yy_ch_buf' = Pending \o got
       /\ yy_buf_size' = G /\ yytext' = 0 /\ yy' = yy_get_previous_state(Pending) /\ pc' = "match"
       /\ eof_pending' = eof_pending /\ token' = token
  BY <1>4, <1>8, <1>9, <1>10, <1>12 DEF read_more, Moved
<1>14. yy_ch_buf' \in Texts /\ Len(yy_ch_buf') = Len(Pending) + g /\ Len(yy_ch_buf') \in Nat
  BY <1>3, <1>12, <1>13, Joined, Elements
<1>15. Pending' = yy_ch_buf'
  BY <1>13, <1>14, AtFront DEF Pending
<1>16. Text' = Text
  <2>1. Text' = yy_ch_buf' \o input'
    BY <1>15 DEF Text
  <2>2. QED
    BY <1>3, <1>10, <1>11, <1>13, <2>1, Assoc DEF Text
<1>17. Scan(yy', yytext', Text', Len(Pending))
  BY <1>13, <1>16, KeptInFront
<1>18. Typed'
  <2>1. input' \in Texts
    BY <1>3, <1>11, <1>13, PartOf
  <2>2. yy' \in Scans /\ yy'.cp = 0 + Len(Pending)
    BY <1>13, <1>17 DEF Scan
  <2>3. yytext' \in 0 .. Len(yy_ch_buf') /\ yy'.cp \in yytext' .. Len(yy_ch_buf') + 2
    BY <1>3, <1>11, <1>13, <1>14, <2>2
  <2>4. QED
    BY <1>1, <1>5, <1>13, <1>14, <2>1, <2>2, <2>3 DEF Typed
<1>19. BufferFits'
  <2>1. Len(yy_ch_buf') < yy_buf_size'
    BY <1>3, <1>5, <1>6, <1>8, <1>9, <1>11, <1>13, <1>14
  <2>2. QED
    BY <2>1 DEF BufferFits
<1>20. ScanInv'
  <2>1. Len(Pending) \in 0 .. Len(Pending')
    BY <1>3, <1>11, <1>14, <1>15
  <2>2. QED
    BY <1>1, <1>13, <1>17, <1>18, <1>19, <2>1 DEF ScanInv
<1>21. QED
  BY <1>1, <1>2, <1>13, <1>16, <1>20, ReachesText DEF SameText

\* The end of the file with text left: the run settles with what there is.
LEMMA LastStep ==
  ASSUME ScanInv, last_match
  PROVE  ScanInv' /\ SameText /\ Extendable(Pending) /\ input' = input
<1>1. /\ Typed /\ BufferFits /\ (eof_pending => input = << >>) /\ pc = "find"
      /\ yy_act = YY_END_OF_BUFFER /\ Pending # << >> /\ input = << >>
  BY DEF ScanInv, last_match
<1>2. AtEnd
  BY <1>1, FoundSettled DEF ScanInv
<1>3. Pending \in Texts /\ Len(Pending) \in Nat /\ input \in Texts /\ Len(Pending) = Len(yy_ch_buf) - yytext
      /\ Len(yy_ch_buf) \in Nat /\ yytext \in Nat
  BY <1>1, PendingIs DEF Typed
<1>4. Grown \in Nat /\ Grown - Len(Pending) - 1 >= 1
  BY <1>1, GrownIs
<1>5. /\ input' = input /\ yy_ch_buf' = Pending /\ eof_pending' = TRUE
      /\ yytext' = 0 /\ yy' = yy_get_previous_state(Pending) /\ pc' = "find" /\ token' = token
      /\ eof_pending => yy_buf_size' = yy_buf_size
      /\ ~eof_pending => yy_buf_size' = Grown
  BY <1>1 DEF last_match, Moved
<1>6. Pending' = Pending
  BY <1>3, <1>5, AtFront DEF Pending
<1>7. Text' = Text
  BY <1>5, <1>6 DEF Text
<1>8. Scan(yy', yytext', Text', Len(Pending))
  BY <1>5, <1>7, KeptInFront
<1>9. yy_buf_size' \in Nat /\ Len(Pending) < yy_buf_size'
  <2>1. CASE eof_pending
    BY <1>1, <1>3, <1>5, <2>1 DEF Typed, BufferFits
  <2>2. CASE ~eof_pending
    BY <1>3, <1>4, <1>5, <2>2
  <2>3. QED
    BY <1>1, <2>1, <2>2 DEF Typed
<1>10. Typed' /\ BufferFits'
  <2>1. yy' \in Scans /\ yy'.cp = 0 + Len(Pending)
    BY <1>5, <1>8 DEF Scan
  <2>2. yytext' \in 0 .. Len(yy_ch_buf') /\ yy'.cp \in yytext' .. Len(yy_ch_buf') + 2
    BY <1>3, <1>5, <2>1
  <2>3. QED
    BY <1>3, <1>5, <1>9, <2>1, <2>2 DEF Typed, BufferFits
<1>11. Settled'
  <2>1. Len(Pending) # 0
    BY <1>1, <1>3, EmptyIs
  <2>2. Len(Pending) \in 1 .. Len(Pending') /\ Len(Pending) = Len(Pending')
    BY <1>3, <1>6, <2>1
  <2>3. QED
    BY <1>1, <1>5, <1>8, <2>2 DEF Settled
<1>12. ScanInv'
  BY <1>1, <1>5, <1>10, <1>11 DEF ScanInv
<1>13. QED
  BY <1>1, <1>2, <1>5, <1>7, <1>12, ReachesText DEF SameText

\* The end of the file keeps the invariant.
LEMMA EndStep ==
  ASSUME ScanInv, end_of_file
  PROVE  ScanInv' /\ SameText /\ input' = input /\ eof_pending' = FALSE
<1>1. /\ Typed /\ BufferFits /\ (eof_pending => input = << >>) /\ pc = "find"
      /\ yy_act = YY_END_OF_BUFFER /\ Pending = << >> /\ input = << >>
  BY DEF ScanInv, end_of_file
<1>2. Found \in Scans
  BY <1>1, FoundSettled, FoundAtEnd DEF ScanInv
<1>3. /\ input' = input /\ yy_ch_buf' = << >> /\ eof_pending' = FALSE /\ yytext' = 0
      /\ yy' = [Found EXCEPT !.state = 1, !.cp = 0] /\ pc' = "done" /\ yy_buf_size' = yy_buf_size /\ token' = token
  BY <1>1 DEF end_of_file, INITIAL
<1>4. << >> \in Texts /\ Len(<< >>) = 0
  BY EmptyIs
<1>5. Pending' = << >>
  BY <1>3, <1>4, AtFront DEF Pending
<1>6. Text' = Text
  BY <1>1, <1>3, <1>5 DEF Text
<1>7. yy' \in Scans /\ yy'.cp = 0
  <2>1. PICK q, c : q = 1 /\ c = 0
    OBVIOUS
  <2>2. q \in 1 .. 112 /\ c \in Nat /\ yy' = [Found EXCEPT !.state = q, !.cp = c]
    BY <1>3, <2>1
  <2>3. yy' \in Scans /\ yy'.cp = c
    BY <1>2, <2>2 DEF Scans
  <2>4. QED
    BY <2>1, <2>3
<1>8. Typed'
  <2>1. yytext' \in 0 .. Len(yy_ch_buf') /\ yy'.cp \in yytext' .. Len(yy_ch_buf') + 2
    <3>1. 0 \in 0 .. 0 /\ 0 \in 0 .. 0 + 2
      OBVIOUS
    <3>2. QED
      BY <1>3, <1>4, <1>7, <3>1
  <2>2. QED
    BY <1>1, <1>3, <1>4, <1>7, <2>1 DEF Typed
<1>9. BufferFits'
  <2>1. Len(yy_ch_buf) \in Nat /\ yy_buf_size \in Nat /\ Len(yy_ch_buf) < yy_buf_size
    BY <1>1, PendingIs DEF Typed, BufferFits
  <2>2. QED
    BY <1>3, <1>4, <2>1 DEF BufferFits
<1>10. ScanInv'
  BY <1>1, <1>3, <1>8, <1>9 DEF ScanInv
<1>11. QED
  BY <1>3, <1>6, <1>10 DEF SameText

\* So does a read that fails.
LEMMA FatalStep ==
  ASSUME ScanInv, yy_fatal_error
  PROVE  ScanInv' /\ SameText /\ input' = input /\ eof_pending' = eof_pending
<1>1. /\ pc' = "exited" /\ input' = input /\ yy_ch_buf' = yy_ch_buf /\ yy_buf_size' = yy_buf_size
      /\ eof_pending' = eof_pending /\ yytext' = yytext /\ yy' = yy /\ token' = token
  BY DEF yy_fatal_error, buffer
<1>2. Typed' /\ BufferFits'
  BY <1>1 DEF ScanInv, Typed, BufferFits
<1>3. ScanInv'
  BY <1>1, <1>2 DEF ScanInv
<1>4. QED
  BY <1>1, <1>3 DEF SameText, Text, Pending

\* So does a step of others.
LEMMA StutterStep ==
  ASSUME ScanInv, UNCHANGED vars
  PROVE  ScanInv' /\ SameText /\ input' = input /\ eof_pending' = eof_pending
<1>1. /\ pc' = pc /\ input' = input /\ yy_ch_buf' = yy_ch_buf /\ yy_buf_size' = yy_buf_size
      /\ eof_pending' = eof_pending /\ yytext' = yytext /\ yy' = yy /\ token' = token
  BY DEF vars
<1>2. Typed' /\ BufferFits'
  BY <1>1 DEF ScanInv, Typed, BufferFits
<1>3. Pending' = Pending /\ Text' = Text
  BY <1>1 DEF Text, Pending
<1>4. (pc = "match" => \E n \in 0 .. Len(Pending) : Scan(yy, yytext, Text, n))'
  BY <1>1, <1>3 DEF ScanInv
<1>5. (pc = "find" => Settled \/ AtEnd)'
  BY <1>1, <1>3 DEF ScanInv, Settled, AtEnd
<1>6. ScanInv'
  BY <1>1, <1>2, <1>4, <1>5 DEF ScanInv
<1>7. QED
  BY <1>1, <1>3, <1>6 DEF SameText

\* yy_match leaves the text and the token.
LEMMA MatchKeeps ==
  ASSUME ScanInv, yy_match
  PROVE  SameText /\ input' = input /\ eof_pending' = eof_pending
<1>1. /\ input' = input /\ yy_ch_buf' = yy_ch_buf /\ eof_pending' = eof_pending /\ yytext' = yytext /\ token' = token
  BY DEF yy_match, buffer
<1>2. QED
  BY <1>1 DEF SameText, Text, Pending

\* A step reads only when it must; and the variables of SqlTokens.
ReadsOnly == input' # input \/ (eof_pending' /\ ~eof_pending) => Extendable(Pending)
TextVars  == <<Pending \o input, [rule |-> token.rule, text |-> token.text]>>

\* One step of sqllex keeps the invariant, reads only when it must, and cuts a
\* token off the text or leaves it.
LEMMA OneStep ==
  ASSUME ScanInv, [Next]_vars
  PROVE  ScanInv' /\ ReadsOnly /\ (T!Cut \/ UNCHANGED TextVars)
<1>1. SameText => UNCHANGED TextVars
  BY DEF SameText, Text, TextVars
<1>2. CASE yy_match
  BY <1>1, <1>2, MatchStep, MatchKeeps DEF ReadsOnly
<1>3. CASE rule_action
  <2>1. input' = input /\ eof_pending' = eof_pending
    BY <1>3 DEF rule_action
  <2>2. QED
    BY <1>3, <2>1, RuleStep DEF ReadsOnly
<1>4. CASE read_more
  BY <1>1, <1>4, ReadStep DEF ReadsOnly
<1>5. CASE last_match
  BY <1>1, <1>5, LastStep DEF ReadsOnly
<1>6. CASE end_of_file
  BY <1>1, <1>6, EndStep DEF ReadsOnly
<1>7. CASE yy_fatal_error
  BY <1>1, <1>7, FatalStep DEF ReadsOnly
<1>8. CASE UNCHANGED vars
  BY <1>1, <1>8, StutterStep DEF ReadsOnly
<1>9. QED
  BY <1>2, <1>3, <1>4, <1>5, <1>6, <1>7, <1>8 DEF Next

\* The type invariant follows from the inductive one.
LEMMA ScanTypes ==
  ASSUME ScanInv
  PROVE  TypeOK
<1>1. Typed
  BY DEF ScanInv
<1>2. yy.state \in 1 .. 112 /\ yy.last \in (0 .. 112) \X Nat
  BY <1>1 DEF Typed, Scans
<1>3. ASSUME pc = "find" PROVE Found.cp \in yytext + 1 .. Len(yy_ch_buf) + 1
  <2>1. Len(Pending) = Len(yy_ch_buf) - yytext /\ Len(Pending) \in Nat /\ Len(yy_ch_buf) \in Nat /\ yytext \in Nat
    BY <1>1, PendingIs
  <2>2. CASE Settled
    <3>1. PICK m \in 1 .. Len(Pending) : Found.cp = yytext + m
      BY <1>1, <2>2, FoundSettled
    <3>2. QED
      BY <2>1, <3>1
  <2>3. CASE AtEnd
    <3>1. Found.cp = yytext + Len(Pending) + 1
      BY <1>1, <2>3, FoundAtEnd
    <3>2. QED
      BY <2>1, <3>1
  <2>4. QED
    BY <1>3, <2>2, <2>3 DEF ScanInv
<1>4. QED
  BY <1>1, <1>2, <1>3 DEF Typed, TypeOK

\* The inductive invariant, for the scanner of lex.sql.c in every reachable
\* state.
THEOREM Invariant == FairSpec => []ScanInv
<1>1. Init => ScanInv
  BY InitScans
<1>2. ScanInv /\ [Next]_vars => ScanInv'
  BY OneStep
<1>3. QED
  BY <1>1, <1>2, PTL DEF FairSpec

\* TypeOK: the automaton and its backing up stay inside the buffer and the token
\* at hand.
THEOREM TypeCorrect == FairSpec => []TypeOK
<1>1. ScanInv => TypeOK
  BY ScanTypes
<1>2. QED
  BY <1>1, Invariant, PTL

\* BufferFits: yy_get_next_buffer keeps a place free in the buffer, whatever the
\* tokens and the reads.
THEOREM Fits == FairSpec => []BufferFits
<1>1. ScanInv => BufferFits
  BY DEF ScanInv
<1>2. QED
  BY <1>1, Invariant, PTL

\* ReadsWhenNeeded: yy_get_next_buffer reads only when the text at hand may
\* become a longer token.
THEOREM ReadsAsNeeded == FairSpec => ReadsWhenNeeded
<1>1. ScanInv /\ [Next]_vars => [ReadsOnly]_vars
  BY OneStep
<1>2. QED
  BY <1>1, Invariant, PTL DEF FairSpec, ReadsWhenNeeded, ReadsOnly

\* ImplementsTokens: sqllex cuts the input into the longest tokens with their
\* first rules, as SqlTokens says.
THEOREM ImplementsTokensSpec == FairSpec => ImplementsTokens
<1>1. Init => T!TokensInit
  BY DEF Init, T!TokensInit, T!Nothing
<1>2. ScanInv /\ [Next]_vars => [T!Cut]_TextVars
  BY OneStep
<1>3. QED
  BY <1>1, <1>2, Invariant, PTL DEF FairSpec, ImplementsTokens, T!TokensSpec, TextVars
==============================================================================
