---------------------------- MODULE MCFillControl ----------------------------
(***************************************************************************)
(* TLC instance of FillControl, with what the repository says of the        *)
(* dashboard that its code does not do.                                     *)
(***************************************************************************)
EXTENDS FillControl

\* README.md:212 "System auto-stops pump when target reached", the loop of the
\* dashboard included.
AutoStopAlways == Due /\ (~latched \/ ~wasFlowing) ~> pin \/ ~Due
====
