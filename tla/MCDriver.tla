------------------------------ MODULE MCDriver ------------------------------
(* Three threads that call SchedulingDriver::requestSchedule. *)
EXTENDS SchedulingDriver
=============================================================================
