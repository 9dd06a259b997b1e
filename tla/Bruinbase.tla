----------------------------- MODULE Bruinbase -----------------------------
(***************************************************************************)
(* The result codes every layer returns (Bruinbase.h).  Callers disagree   *)
(* on how they test them: RecordFile tests "rc < 0", the node and index    *)
(* layers test "rc != 0", so the sign of a code matters.                   *)
(***************************************************************************)
EXTENDS Integers

RC_FILE_OPEN_FAILED  == -1001
RC_FILE_CLOSE_FAILED == -1002
RC_FILE_READ_FAILED  == -1004
RC_FILE_WRITE_FAILED == -1005
RC_INVALID_PID       == -1007
RC_INVALID_RID       == -1008
RC_NODE_FULL         == -1010
RC_INVALID_CURSOR    == -1011
RC_NO_SUCH_RECORD    == -1012

(***************************************************************************)
(* What a failed seek becomes.  "rc = seek(pid) < 0" parses as             *)
(* "rc = (seek(pid) < 0)", so the -1003 of RC_FILE_SEEK_FAILED reaches the *)
(* caller of pf_read and pf_write as the truth value 1.                    *)
(***************************************************************************)
SEEK_FAILED_RC == 1

RC == { RC_FILE_OPEN_FAILED, RC_FILE_CLOSE_FAILED, RC_FILE_READ_FAILED,
        RC_FILE_WRITE_FAILED, RC_INVALID_PID, RC_INVALID_RID, RC_NODE_FULL,
        RC_INVALID_CURSOR, RC_NO_SUCH_RECORD, SEEK_FAILED_RC, 0 }

=============================================================================
