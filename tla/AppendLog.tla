----------------------------- MODULE AppendLog -----------------------------
(***************************************************************************)
(* What RecordFile promises: an append-only log.  "append a new record at  *)
(* the end of the file ... append is the only way to write a record"; the  *)
(* id it returns names that record for ever after.                         *)
(***************************************************************************)
EXTENDS Bruinbase, Sequences

CONSTANTS Rec, NoRec

VARIABLES
  log,   \* the records, oldest first
  out    \* the last call's code, the position it speaks of and what it read

Said(rc, n, r) == [rc |-> rc, at |-> n, rec |-> r]

LogInit == log = << >> /\ out = Said(0, 0, NoRec)

LogAppend(r) == /\ log' = Append(log, r)
                /\ out' = Said(0, Len(log) + 1, NoRec)

LogRead(n) == out' = Said(0, n, log[n]) /\ UNCHANGED log

LogOther == /\ \E rc \in RC : out' = Said(rc, 0, NoRec)
            /\ UNCHANGED log

LogNext == \/ \E r \in Rec : LogAppend(r)
           \/ \E n \in DOMAIN log : LogRead(n)
           \/ LogOther

LogSpec == LogInit /\ [][LogNext]_<<log, out>>
=============================================================================
