------------------------------ MODULE MCJobLog ------------------------------
(* An instance of JobLog: two jobs, of which one may run at a time, one tab. *)
EXTENDS JobLog

CONSTANTS j1, j2, c1
=============================================================================
