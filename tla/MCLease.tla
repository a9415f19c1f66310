------------------------------ MODULE MCLease ------------------------------
(* The Lease on unrestricted schedules: passes may outlive their terms.    *)
EXTENDS Lease

CONSTANTS ctl, job    \* a controller and a `sync`

MCProc == {ctl, job}
MCControllers == {ctl}
(* Terms are of one tick; the clock of the sync is one tick ahead.         *)
MCUnitDuration == [p \in MCProc |-> 1]
MCSkew == [p \in MCProc |-> IF p = ctl THEN 0 ELSE 1]
=============================================================================
