------------------------------- MODULE Option -------------------------------
(* What is not there: the None of the code's options.                      *)
CONSTANT None
=============================================================================
