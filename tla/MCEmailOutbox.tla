--------------------------- MODULE MCEmailOutbox ---------------------------
(***************************************************************************)
(* The instance of EmailOutbox that TLC checks.                            *)
(***************************************************************************)
EXTENDS EmailOutbox

\* A short back-off and a longer one that later attempts reuse.
MCRetries == <<1, 2>>
=============================================================================
