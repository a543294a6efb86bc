------------------------------ MODULE MCAlarm ------------------------------
(* One worker calls every method; what several workers may do to the
   invariants is proved in AlarmProofs. *)
EXTENDS Alarm
============================================================================
