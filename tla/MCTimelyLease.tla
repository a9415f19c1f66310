--------------------------- MODULE MCTimelyLease ---------------------------
(* The Lease when passes renew in time, and with one process that does not.*)
EXTENDS TimelyLease

CONSTANTS ctl, job, late

MCProc == {ctl, job}
(* With a third process whose passes may outlive their terms.              *)
MCProcLate == {ctl, job, late}
MCControllers == {ctl}
MCDuration == [p \in MCProc |-> IF p = ctl THEN 3 ELSE 2]
MCSkew == [p \in MCProc |-> IF p = ctl THEN 1 ELSE 0]
MCDurationLate == [p \in MCProcLate |-> 1]
MCSkewLate == [p \in MCProcLate |-> 0]
=============================================================================
