----------------------------- MODULE MCRecordings -----------------------------
(* One recording for TLC. *)
EXTENDS Recordings
===============================================================================
