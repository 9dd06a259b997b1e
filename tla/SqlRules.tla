------------------------------ MODULE SqlRules ------------------------------
(***************************************************************************)
(* The rules of SqlParser.l, as the texts they match.                      *)
(***************************************************************************)
EXTENDS Integers, Sequences, FiniteSetsExt

\* Characters are their codes, so that a text can be taken apart.
Letter(c) == c \in 65 .. 90 \cup 97 .. 122
Digit(c)  == c \in 48 .. 57
QUOTE     == 39
MINUS     == 45
NEWLINE   == 10

\* The fixed texts of the rules, by number; a word in capitals or in small letters
WordCodes ==
  <<{<<83, 69, 76, 69, 67, 84>>, <<115, 101, 108, 101, 99, 116>>},                \* SELECT
    {<<70, 82, 79, 77>>, <<102, 114, 111, 109>>},                                 \* FROM
    {<<87, 72, 69, 82, 69>>, <<119, 104, 101, 114, 101>>},                        \* WHERE
    {<<76, 79, 65, 68>>, <<108, 111, 97, 100>>},                                  \* LOAD
    {<<87, 73, 84, 72>>, <<119, 105, 116, 104>>},                                 \* WITH
    {<<73, 78, 68, 69, 88>>, <<105, 110, 100, 101, 120>>},                        \* INDEX
    {<<81, 85, 73, 84>>, <<113, 117, 105, 116>>},                                 \* QUIT
    {<<69, 88, 73, 84>>, <<101, 120, 105, 116>>},                                 \* EXIT
    {<<67, 79, 85, 78, 84, 40, 42, 41>>, <<99, 111, 117, 110, 116, 40, 42, 41>>}, \* COUNT(*)
    {<<65, 78, 68>>, <<97, 110, 100>>},                                           \* AND
    {<<79, 82>>, <<111, 114>>},                                                   \* OR
    {<<61>>}, {<<60, 62>>}, {<<62>>}, {<<60>>}, {<<62, 61>>}, {<<60, 61>>},       \* =  <>  >  <  >=  <=
    {}, {}, {},
    {<<44>>}, {<<42>>}, {<<10>>, <<13, 10>>}, {<<59>>},                           \* ,  *  LF  ;
    {}, {}>>

All(P(_), w) == \A i \in DOMAIN w : P(w[i])
Integer(w)   == LET digits == IF w[1] = MINUS THEN Tail(w) ELSE w
                IN digits # << >> /\ All(Digit, digits)
Opened(w)    == w[1] = QUOTE /\ \A i \in 2 .. Len(w) : w[i] # QUOTE
Quoted(w)    == Len(w) >= 2 /\ Opened(SubSeq(w, 1, Len(w) - 1)) /\ w[Len(w)] = QUOTE
Id(w)        == Letter(w[1]) /\ All(LAMBDA c : Letter(c) \/ Digit(c) \/ c \in {MINUS, 95}, w)
Blank(w)     == All(LAMBDA c : c \in {9, 32}, w)

\* Rule r matches the text w, which is not empty.
Matches(r, w) == \/ w \in WordCodes[r]
                 \/ r = 18 /\ Integer(w)
                 \/ r = 19 /\ Quoted(w)
                 \/ r = 20 /\ Id(w)
                 \/ r = 25 /\ Blank(w)
                 \/ r = 26 /\ Len(w) = 1 /\ w # <<NEWLINE>>
Rules == 1 .. 26

Prefixes(w)  == { SubSeq(w, 1, n) : n \in 1 .. Len(w) }
Longest(w)   == Max({ Len(v) : v \in { p \in Prefixes(w) : \E r \in Rules : Matches(r, p) } })
FirstRule(w) == Min({ r \in Rules : Matches(r, w) })

\* A text that is not yet a token, or may become a longer one
Extendable(w) ==
  \/ w = << >>
  \/ \E r \in Rules : \E v \in WordCodes[r] : w \in Prefixes(v) \ {v}
  \/ w = <<MINUS>> \/ Integer(w) \/ Opened(w) \/ Id(w) \/ Blank(w)
=============================================================================
