------------------------------ MODULE MCComponent ------------------------------
(* Instances of Component for TLC: the inputs and their order. *)
EXTENDS Component

CONSTANTS in1, in2, group1, timer1

MCPrio ==
  [i \in Input |-> CASE i = in1 -> 0 [] i = in2 -> 1 [] i = timer1 -> 2 [] OTHER -> 3]

MCModel ==
  {[scheduler |-> "default", inputs |-> {in1, timer1}],
   [scheduler |-> "default", inputs |-> {in1, group1}],
   [scheduler |-> "rr", inputs |-> {in1, in2, group1}],
   [scheduler |-> "priority", inputs |-> {in1, in2}]}
================================================================================
