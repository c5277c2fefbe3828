-------------------------------- MODULE MCPorts --------------------------------
(* Instances of Ports for TLC: who talks to whom, and whose sockets have the same identity. *)
EXTENDS Ports

CONSTANTS req1, clt1, rep1, rep2, qry1, qry2, qry3, ans1, sub1, pub1, pub2, plug1, plug2,
          ins1

MCWorld ==
  {{req1, clt1, rep1}, {req1, rep1, rep2}, {clt1, rep1, rep2},
   {qry1, qry2, ans1}, {qry1, qry3, ans1}, {sub1, pub1, pub2},
   {plug1, plug2, ins1}}

\* qry1 and qry2 are in processes whose objects have the same address.  So is plug1, but
\* it meets neither of them.
MCIdentity ==
  [c \in Conn |-> IF c \in {qry1, qry2, plug1} THEN 1 ELSE IF c = qry3 THEN 3 ELSE 2]
================================================================================
