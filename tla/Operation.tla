------------------------------ MODULE Operation ------------------------------
(***************************************************************************)
(* What DefaultAudioVideoController expects of a group of tasks it runs:    *)
(* the promise of the operation is settled once, and always in the end.     *)
(* After an attempt that failed another one may follow.                     *)
(***************************************************************************)
VARIABLE phase   \* of the promise: none, pending, kept, broken

Init == phase = "none"

Begin == phase = "none" /\ phase' = "pending"
Complete == phase = "pending" /\ phase' = "kept"
Fail == phase = "pending" /\ phase' = "broken"
Retry == phase = "broken" /\ phase' = "none"

Next == Begin \/ Complete \/ Fail \/ Retry

Spec == Init /\ [][Next]_phase /\ WF_phase(Complete \/ Fail)
==============================================================================
