---------------------------- MODULE MCAutoBlock ----------------------------
(* Instances of AutoBlock.                                                  *)
EXTENDS AutoBlock

MCSkew == [g \in Gateways |-> 0]

=============================================================================
