--------------------------- MODULE MCGroupStream ---------------------------
(***************************************************************************)
(* Instances of GroupStream for TLC: messages 1, 2, ... are published in   *)
(* any order, so that the order of the log and of the dates differ.        *)
(***************************************************************************)
EXTENDS GroupStream

MCDateOf == [m \in Msgs |-> m]
============================================================================
