------------------------------ MODULE MCDiscovery ------------------------------
(***************************************************************************)
(* A small network for TLC: the first actor serves a key on node n1 and    *)
(* needs it, as a component that publishes and subscribes the same message *)
(* does, and the second one needs it on node n2.                           *)
(***************************************************************************)
EXTENDS Discovery, TLC

CONSTANTS n1, n2, first, second, k

MCHome == (first :> n1 @@ second :> n2)
MCServes == (first :> {k} @@ second :> {})
MCNeeds == [a \in Actor |-> {k}]

================================================================================
