------------------------------- MODULE WordOps -------------------------------
(***************************************************************************)
(* The operators & and ^ of C on unsigned words.  They are constants, so    *)
(* that what is proved rests on no more than what an assumption says of     *)
(* them; the instances for TLC give them their values.                      *)
(***************************************************************************)
CONSTANTS WordAnd(_, _), WordXor(_, _)
=============================================================================
