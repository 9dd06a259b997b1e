---------------------------- MODULE MCSqlScanner ----------------------------
(* A small instance of SqlScanner: texts of up to three pieces. *)
EXTENDS SqlScanner

\* The code of a character
Printable == " !_#$%&'()*+,-./0123456789:;<=>?@ABCDEFGHIJKLMNOPQRSTUVWXYZ"
Small     == "abcdefghijklmnopqrstuvwxyz"
Place(c, s) == { i \in 1 .. Len(s) : SubSeq(s, i, i) = c }
Code(c)   == CASE c = "\t" -> 9 [] c = "\n" -> 10 [] c = "\r" -> 13 [] c = "_" -> 95
               [] Place(c, Small) # {} -> 96 + Max(Place(c, Small))
               [] OTHER -> 31 + Max(Place(c, Printable))
Codes(s)  == [i \in 1 .. Len(s) |-> Code(SubSeq(s, i, i))]

\* The words of SqlParser.l, which SqlRules has as codes
Words == <<{"SELECT", "select"}, {"FROM", "from"}, {"WHERE", "where"}, {"LOAD", "load"},
           {"WITH", "with"}, {"INDEX", "index"}, {"QUIT", "quit"}, {"EXIT", "exit"},
           {"COUNT(*)", "count(*)"}, {"AND", "and"}, {"OR", "or"}, {"="}, {"<>"}, {">"}, {"<"},
           {">="}, {"<="}, {}, {}, {}, {","}, {"*"}, {"\n", "\r\n"}, {";"}, {}, {}>>
ASSUME WordsAreSpelled == WordCodes = [r \in Rules |-> { Codes(w) : w \in Words[r] }]

\* Texts that touch every rule, its beginnings, and what is close to it
Piece == {"", "SELECT", "select", "from", "FROM", "where", "WHERE", "load", "LOAD", "with", "WITH",
          "index", "INDEX", "quit", "QUIT", "exit", "EXIT", "count(*)", "COUNT(*)", "count(", "Count",
          "and", "AND", "or", "OR", "=", "<", ">", "-", "12", "'a b'", "'", "x_1", ",", "*", "(",
          "\r", "\n", ";", " ", "\t", "!"}
Ending == {"", "\n", "x\n", "\r\n", "-1"}
MCInput == { Codes(a \o b \o c) : a, b \in Piece, c \in Ending }
=============================================================================
