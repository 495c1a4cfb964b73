-------------------------------- MODULE Feed --------------------------------
(***************************************************************************)
(* What the gateway promises an app: the events published for it form one  *)
(* feed, and what the app knows of it is always a whole prefix.  The app   *)
(* may jump forward (a fresh snapshot) but never skips an event, and never *)
(* loses one it had.  GatewaySession implements this.                      *)
(***************************************************************************)
EXTENDS Naturals

CONSTANTS MaxFrames,  \* the most events ever published
          Hidden      \* events the fan-out rules keep from this person

VARIABLES bus,        \* how many events have been published: 1..bus
          knows       \* the visible events whose effect the app has

\* The visible events among the first c.
Visible(c) == (1..c) \ Hidden

Init == bus = 0 /\ knows = {}

Publish == bus < MaxFrames /\ bus' = bus + 1 /\ UNCHANGED knows

\* The app catches up to some point of the feed, whole.
Learn == \E c \in 0..bus : /\ knows \subseteq Visible(c)
                           /\ knows' = Visible(c)
                           /\ UNCHANGED bus

Next == Publish \/ Learn

Spec == Init /\ [][Next]_<<bus, knows>>
=============================================================================
