---------------------------- MODULE CallProtocol ----------------------------
(***************************************************************************)
(* What the executor promises about calls, without memory or instructions: *)
(* the activations of functions form a stack.  Every activation is started *)
(* once, by the one below it, and is completed at most once, when it is on  *)
(* top; the run is over when main, the first, completes, or it breaks off. *)
(***************************************************************************)
EXTENDS Integers, Sequences

VARIABLES
  made,     \* activations started so far
  pending,  \* those not completed, the newest last
  phase     \* "idle", "running", "over" (main has answered) or "broken"

pvars == <<made, pending, phase>>

Top == pending[Len(pending)]

PInit == made = 0 /\ pending = <<>> /\ phase = "idle"

Start  == phase = "idle" /\ phase' = "running" /\ made' = 1 /\ pending' = <<1>>
Invoke == /\ phase = "running"
          /\ made' = made + 1
          /\ pending' = Append(pending, made + 1)
          /\ UNCHANGED phase
Answer == /\ phase = "running" /\ Len(pending) > 1
          /\ pending' = SubSeq(pending, 1, Len(pending) - 1)
          /\ UNCHANGED <<made, phase>>
Finish == /\ phase = "running" /\ Len(pending) = 1
          /\ pending' = <<>> /\ phase' = "over"
          /\ UNCHANGED made
Break  == /\ phase \in {"idle", "running"}
          /\ phase' = "broken"
          /\ UNCHANGED <<made, pending>>

PNext == Start \/ Invoke \/ Answer \/ Finish \/ Break
PSpec == PInit /\ [][PNext]_pvars
=============================================================================
