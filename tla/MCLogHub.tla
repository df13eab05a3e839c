------------------------------ MODULE MCLogHub ------------------------------
(* Instances of LogHub for TLC: a buffer size below 1 and one of 2, and     *)
(* three events, two of them from one publisher.                            *)
EXTENDS LogHub

CONSTANTS
  Small,   (* the subscriber that asks for a buffer of size 0              *)
  Busy     (* the publisher of two events                                  *)

Buffers == [s \in Subs |-> IF s = Small THEN 0 ELSE 2]
Events  == [p \in Publishers |-> IF p = Busy THEN 2 ELSE 1]
=============================================================================
