--------------------------- MODULE SlotLifecycle ----------------------------
(***************************************************************************)
(* What a program manager promises of its slots, whatever the programs do: *)
(* each slot is idle or runs one program that fits it. Only while it takes *)
(* messages are programs started, replaced and cancelled; while the slots  *)
(* take their turns a program ends only if it is one of the finite ones.   *)
(***************************************************************************)
CONSTANTS Slots, Programs, Finite, Fits, Idle

VARIABLES running, phase

Init == running = [s \in Slots |-> Idle] /\ phase = "messages"

(* A message puts program p on the slots S; one it does not fit is idle.    *)
Start(S, p) == /\ phase = "messages" /\ UNCHANGED phase
               /\ running' = [s \in Slots |->
                    IF s \notin S THEN running[s]
                    ELSE IF <<s, p>> \in Fits THEN p ELSE Idle]

Cancel(S) == /\ phase = "messages" /\ UNCHANGED phase
             /\ running' = [s \in Slots |-> IF s \in S THEN Idle ELSE running[s]]

Complete(s) == /\ phase = "turns" /\ UNCHANGED phase
               /\ running[s] \in Finite
               /\ running' = [running EXCEPT ![s] = Idle]

Switch == /\ phase' = IF phase = "turns" THEN "messages" ELSE "turns"
          /\ UNCHANGED running

Next == \/ \E S \in SUBSET Slots : Cancel(S) \/ \E p \in Programs : Start(S, p)
        \/ \E s \in Slots : Complete(s)
        \/ Switch

Spec == Init /\ [][Next]_<<running, phase>>
=============================================================================
