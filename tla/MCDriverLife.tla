---------------------------- MODULE MCDriverLife ----------------------------
(* Instances of DriverLife for TLC: which calls of DriverEntry may fail.   *)
EXTENDS DriverLife

\* All that DriverEntry reports, but the last.
ReportedCalls == Resources \ {"env", "rules"}

=============================================================================
