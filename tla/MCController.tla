----------------------------- MODULE MCController -----------------------------
(* Three memory clock edges per CPU cycle are the fewest that let a read be   *)
(* noticed and served; three register bits give a first, a middle and a last.  *)
(* Of the bytes written, 2 has strobe low with another bit set.               *)
EXTENDS Controller

MCByte == {0, 1, 2}
=============================================================================
