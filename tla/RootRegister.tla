---------------------------- MODULE RootRegister ----------------------------
(***************************************************************************)
(* What the root of trust on disk is meant to be: one register that is     *)
(* written where there is nothing, survives kills, is emptied only under a *)
(* licence to do so, and is what every server that comes up serves.  A     *)
(* write that is cut short may spoil it; a spoilt register serves nobody   *)
(* until it is emptied.                                                    *)
(***************************************************************************)
CONSTANTS
  Root,    \* roots
  Proc,    \* server processes
  Empty,   \* nothing is stored, or nothing is served
  Spoilt   \* what is stored cannot be used

VARIABLES
  stored,  \* the register
  serving, \* serving[p]: the root that process p serves with, or Empty
  licence  \* somebody is under way who may discard what is stored

vars == <<stored, serving, licence>>

Init == stored = Empty /\ serving = [p \in Proc |-> Empty] /\ licence = FALSE

\* A root is generated and persisted, where there was none.
Write(r) == stored = Empty /\ stored' = r /\ UNCHANGED serving

\* The write is cut short.
Spoil == stored = Empty /\ stored' = Spoilt /\ UNCHANGED serving

\* What is there is discarded by somebody who may.
Discard == licence /\ stored # Empty /\ stored' = Empty /\ UNCHANGED serving

\* A server comes up with the root that is stored at this moment.
Up(p) ==
  /\ serving[p] = Empty /\ stored \in Root
  /\ serving' = [serving EXCEPT ![p] = stored]
  /\ UNCHANGED stored

Down(p) ==
  /\ serving' = [serving EXCEPT ![p] = Empty]
  /\ UNCHANGED stored

\* A licence comes and goes with the run that has it, at any step of that run.
Next ==
  /\ licence' \in BOOLEAN
  /\ \/ \E r \in Root : Write(r)
     \/ Spoil \/ Discard
     \/ \E p \in Proc : Up(p) \/ Down(p)
     \/ UNCHANGED <<stored, serving>>

Spec == Init /\ [][Next]_vars
=============================================================================
