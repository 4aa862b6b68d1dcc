---------------------------- MODULE MCLiveEvents ----------------------------
(* One instance of LiveEvents: one caller, one socket on a channel of one  *)
(* event, two waits for one slot, and edits by other programs.             *)
EXTENDS LiveEvents
=============================================================================
