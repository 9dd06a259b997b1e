---------------------------- MODULE MCSqlEngine ----------------------------
(***************************************************************************)
(* An instance of SqlEngine: load files and queries that meet every branch *)
(* of load and select, with ints of three bits.                            *)
(***************************************************************************)
EXTENDS SqlEngine

MCUninit == {0, 1, NoWhere}

R(k, v) == [key |-> k, value |-> v]
MCRow == [key : -1 .. 2, value : 1 .. 2]
MCOldRow  == {R(0, 1), R(2, 2)}
MCOldLeaf == {<<[key |-> 1, val |-> 2], [key |-> 2, val |-> 1]>>}
MCFile ==
  { <<R(2, 2), R(1, 1)>>,
    <<NoComma, R(-1, 1)>>,
    <<R(0, 1), TooLong, R(2, 1)>> }

OnKeyIs(comp, k)   == [attr |-> 1, comp |-> comp, value |-> k]
OnValueIs(comp, v) == [attr |-> 2, comp |-> comp, value |-> v]
WrongIs(comp)      == [attr |-> 0, comp |-> comp, value |-> 1]

MCConds ==
  { <<OnKeyIs("NE", 1), OnValueIs("EQ", 1)>>,
    <<OnKeyIs("GE", 1), OnKeyIs("LE", 2), OnValueIs("NE", 1)>>,
    <<OnKeyIs("LT", 2), OnKeyIs("EQ", 1)>>,
    <<OnKeyIs("GT", -1), OnValueIs("EQ", 1)>>,
    <<OnKeyIs("EQ", -1)>>,
    <<WrongIs("EQ")>> }
MCQuery == [attr : {3}, conds : MCConds] \cup [attr : {4}, conds : {<< >>}]
=============================================================================
