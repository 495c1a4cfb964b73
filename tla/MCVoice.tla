------------------------------ MODULE MCVoice ------------------------------
(* Small instances of Voice for TLC: the sessions are one person's devices. *)
EXTENDS Voice, TLC

CONSTANT u1

MCUserOf == [s \in Sessions |-> u1]

\* One person's sessions are alike: no session is named in the specification.
Devices == Permutations(Sessions)
=============================================================================
