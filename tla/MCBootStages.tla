---------------------------- MODULE MCBootStages ----------------------------
(* BootStages for TLC.  The times are those of the code, in seconds.        *)
EXTENDS BootStages
=============================================================================
