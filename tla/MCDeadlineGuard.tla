--------------------------- MODULE MCDeadlineGuard ---------------------------
(* One metadata request with redirects and several addresses per host.       *)
EXTENDS DeadlineGuard
==============================================================================
