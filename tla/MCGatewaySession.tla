-------------------------- MODULE MCGatewaySession --------------------------
(* Small instances of GatewaySession for TLC. *)
EXTENDS GatewaySession

\* One event in the middle of the feed is not this person's.
MCHidden == {2}

\* One thing goes wrong: a connection is cut, or the sign-ins are ended.
MCNext == Next /\ Cardinality(cut') + gen' <= 1

MCFairSpec == Init /\ [][MCNext]_vars /\ WF_vars(Progress)
=============================================================================
