---------------------------- MODULE MCSqlParser ----------------------------
(* A small instance of SqlParser. *)
EXTENDS SqlParser

MCString == 1 .. 3
\* A second condition compares like the first or by <, and no table is named
\* like an attribute.
MCOffered(toks, t) ==
  /\ t.sym \in Comparator /\ Len(toks) > 7 => t.sym \in {toks[7].sym, 21}
  /\ t.text \in {"key", "value"} /\ toks # << >> => Last(toks).sym \notin {T_FROM, T_LOAD}
=============================================================================
