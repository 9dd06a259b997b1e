--------------------------- MODULE MCRecordFile ----------------------------
(* A small instance of RecordFile: pages of two records, and values of which *)
(* one is too long for its slot.                                             *)
EXTENDS RecordFile

CutTo(v) == IF v = "long" THEN "cut" ELSE v
MCRid == [pid : {-1, 0, 1, 2, 3}, sid : {-1, 0, 1, 2}]
=============================================================================
