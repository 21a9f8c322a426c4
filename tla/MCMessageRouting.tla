-------------------------- MODULE MCMessageRouting --------------------------
(* A host's module and another one on a bus; the other also has a radio,    *)
(* with a third module behind it.                                           *)
EXTENDS MessageRouting, TLC
MCOn == "bus" :> {"gate", "relay"} @@ "radio" :> {"relay", "far"}

(* What the theorems assume of the topology.                                *)
ASSUME Tree /\ Acyclic /\ HostsConnected
=============================================================================
