------------------------------ MODULE MCResources ------------------------------
(* An actor with limits on its CPU and memory, and one with the other limits too. *)
EXTENDS Resources

CONSTANTS busy, large

MCUsage == [a \in Actor |-> IF a = busy THEN {"cpu", "mem"} ELSE {"mem", "spc", "net"}]
================================================================================
