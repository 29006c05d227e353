------------------------- MODULE MCRuntimeSession ---------------------------
(* Instance of RuntimeSession for TLC.  With a token the first action is       *)
(* allowed and the second is held with nobody to ask.                          *)
EXTENDS RuntimeSession

MCActions ==
  { {"approval-required"},                              \* held, then approved
    {"environment-not-allowed", "approval-required"} }  \* a hold that hides a deny
=============================================================================
