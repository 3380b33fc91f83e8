---------------------------- MODULE MCReminders ----------------------------
(* Model values of Reminders are given in the configurations. *)
EXTENDS Reminders
=============================================================================
