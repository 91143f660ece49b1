----------------------------- MODULE MCTimelogChat -----------------------------
(* TimelogChat on small instances, which the cfg files give; connections   *)
(* are interchangeable, but the runs check liveness and use no symmetry.   *)
EXTENDS TimelogChat
=============================================================================
