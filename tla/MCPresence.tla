---------------------------- MODULE MCPresence ----------------------------
(* Small instances of Presence for TLC. *)
EXTENDS Presence

CONSTANT Second     \* the device only a person with two of them has

\* Whether this is a person with one device, in rooms and a DM, or one with two
\* devices, in rooms only.
VARIABLE devices

MCInit == Init /\ devices \in {1, 2}

\* Two devices share what one may do.  They are alike, so the first of two to connect has a name of its own.
MCNext ==
  /\ Next
  /\ devices = 1 \/ opens = 0 => rec'[Second] = NoRecord
  /\ devices = 2 => \A s \in Sessions : {said'[s].room, rec'[s].room} \cap DMs = {}
  /\ devices = 2 => frames' + backs' <= MaxFrames
  /\ UNCHANGED devices

MCSpec == MCInit /\ [][MCNext]_<<vars, devices>> /\ WF_<<vars, devices>>(Progress /\ UNCHANGED devices)
===========================================================================
