----------------------------- MODULE SqlTokens -----------------------------
(***************************************************************************)
(* What the scanner of SqlParser.l promises: the input is cut into tokens  *)
(* from the left, each the longest text that a rule matches, by the first  *)
(* rule that matches it; no character is lost or seen twice.               *)
(***************************************************************************)
EXTENDS Integers, Sequences

CONSTANTS Longest(_),   \* how long the longest token is at the start of a text
          FirstRule(_)  \* the first rule that matches a text

VARIABLES text,   \* the input from the next token on
          token   \* the last token: its rule, and its text

Nothing == [rule |-> 0, text |-> << >>]

TokensInit == token = Nothing
\* The text loses its longest token, and nothing else.
Cut == LET n == Len(text) - Len(text')
       IN /\ n > 0 /\ n = Longest(text)
          /\ text' = SubSeq(text, n + 1, Len(text))
          /\ token' = [rule |-> FirstRule(SubSeq(text, 1, n)), text |-> SubSeq(text, 1, n)]

TokensSpec == TokensInit /\ [][Cut]_<<text, token>>
=============================================================================
