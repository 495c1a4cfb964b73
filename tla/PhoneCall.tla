----------------------------- MODULE PhoneCall -----------------------------
(***************************************************************************)
(* The connection of a phone's call to the forwarding server, kept up by   *)
(* two sides that cross: the server makes every offer (linger-sfu), the    *)
(* phone answers on one connection (lib/pageVoice.ts, offer) and asks for  *)
(* a fresh start by its own rules (lib/voiceRestarts.ts).                  *)
(*                                                                         *)
(* An offer is the number of the server's connection it is for: its ICE    *)
(* username fragment.  The phone's frames reach the server at once, or not *)
(* at all; offers are on their way for a while.  The rules' clock is the   *)
(* three waits they know of, each over or not.                             *)
(***************************************************************************)
EXTENDS Naturals, Sequences

CONSTANT MaxTroubles  \* bound: things that go wrong, and people who come and go

ASSUME PhoneCallAssumption == MaxTroubles \in Nat

VARIABLES
  \* the server's connection for this session
  sfu,        \* its number, whether its offer is out (pending), whether it was answered
              \* (ok), and whether more is to be offered (more)
  offers,     \* offers on their way
  link,       \* whether the gateway's socket is up
  \* the phone's Call
  conn,       \* its connection: the number it was opened as, the offer it is for, whether
              \* it was answered, and its state.  NoConn for none
  opened,     \* connections opened
  handling,   \* calls of offer on their way
  rules,      \* Restarts
  wake,       \* the waits the timer is set for, {} for no timer
  troubles

callVars == <<sfu, offers, link, conn, opened, handling, rules, wake, troubles>>

NoConn == [id |-> 0, ufrag |-> 0, answered |-> FALSE, ice |-> "new"]
Quiet == [disconnected |-> "no", asked |-> "no", recent |-> FALSE, wanted |-> FALSE]

\* A join has just been sent and taken: the first offer is on its way.
Init ==
  /\ sfu = [id |-> 1, out |-> TRUE, ok |-> FALSE, more |-> FALSE] /\ offers = <<1>> /\ link = TRUE
  /\ conn = NoConn /\ opened = 0 /\ handling = {} /\ rules = Quiet /\ wake = {} /\ troubles = 0

Trouble == troubles < MaxTroubles /\ troubles' = troubles + 1
-----------------------------------------------------------------------------
(* The forwarding server                                                   *)

\* An offer goes out.  Over a dropped socket it is only replayed, and then not handed over.
Offered(in, n) == IF link THEN Append(in, n) ELSE in

\* negotiate: one offer is out at a time.
SomebodyComes ==
  /\ Trouble
  /\ IF sfu.out THEN sfu' = [sfu EXCEPT !.more = TRUE] /\ UNCHANGED offers
     ELSE sfu' = [sfu EXCEPT !.out = TRUE] /\ offers' = Offered(offers, sfu.id)
  /\ UNCHANGED <<link, conn, opened, handling, rules, wake>>

\* accept: the offer that's out is taken for answered, and one that doesn't fit it is an
\* error, which nothing follows.
SendAnswer(n) ==
  IF ~link \/ ~sfu.out THEN UNCHANGED <<sfu, offers>>
  ELSE IF n # sfu.id THEN sfu' = [sfu EXCEPT !.out = FALSE] /\ UNCHANGED offers
  ELSE /\ sfu' = [sfu EXCEPT !.ok = TRUE, !.out = sfu.more, !.more = FALSE]
       /\ offers' = IF sfu.more THEN Offered(offers, sfu.id) ELSE offers

\* voice_restart, and the forwarding server's join: the connection starts afresh.
SendRestart ==
  IF link THEN /\ sfu' = [id |-> sfu.id + 1, out |-> TRUE, ok |-> FALSE, more |-> FALSE]
               /\ offers' = Offered(offers, sfu.id + 1)
  ELSE UNCHANGED <<sfu, offers>>

\* sweep: its connection ended by itself.
Sweep ==
  /\ sfu.ok /\ Trouble /\ sfu' = [sfu EXCEPT !.ok = FALSE, !.out = FALSE, !.more = FALSE]
  /\ UNCHANGED <<offers, link, conn, opened, handling, rules, wake>>
-----------------------------------------------------------------------------
(* Restarts                                                                *)

\* on: what an event changes.
On(r, event) ==
  CASE event = "connected" -> [r EXCEPT !.disconnected = "no", !.wanted = FALSE]
    [] event = "disconnected" /\ r.disconnected = "no" -> [r EXCEPT !.disconnected = "yes"]
    [] event = "failed" -> [r EXCEPT !.disconnected = "no", !.wanted = TRUE]
    [] event = "answered" -> [r EXCEPT !.asked = "no", !.wanted = FALSE, !.disconnected = "no"]
    [] event = "gateway-resumed" -> [r EXCEPT !.wanted = TRUE]
    [] OTHER -> r

\* Mutant: a restart that got no offer is still waited for.
AskedOnce(r) == IF r.disconnected = "long" THEN [r EXCEPT !.wanted = TRUE] ELSE r

\* plan: what the clock makes of it.
Overdue(r) ==
  LET again == IF r.asked = "long" THEN [r EXCEPT !.asked = "no", !.wanted = TRUE] ELSE r
  IN IF again.disconnected = "long" THEN [again EXCEPT !.wanted = TRUE] ELSE again

\* Mutant: restarts are not kept apart.
PlanAtOnce(r) ==
  LET due == Overdue(r) IN
  IF due.wanted /\ due.asked = "no"
  THEN [rules |-> [Quiet EXCEPT !.asked = "yes", !.recent = TRUE], restart |-> TRUE, wake |-> {"asked"}]
  ELSE [rules |-> due, restart |-> FALSE,
        wake |-> (IF due.asked = "no" THEN {} ELSE {"asked"})
                 \union (IF due.disconnected = "no" THEN {} ELSE {"disconnected"})]

\* Mutant: a restart put off is not woken for.
PlanForgets(r) ==
  LET due == Overdue(r) IN
  IF due.wanted /\ due.asked = "no" /\ ~due.recent
  THEN [rules |-> [Quiet EXCEPT !.asked = "yes", !.recent = TRUE], restart |-> TRUE, wake |-> {"asked"}]
  ELSE [rules |-> due, restart |-> FALSE,
        wake |-> (IF due.asked = "no" THEN {} ELSE {"asked"})
                 \union (IF due.disconnected = "no" THEN {} ELSE {"disconnected"})]

\* plan: the rules after an event, whether to restart, and what to wake for.
Plan(r) ==
  LET due == Overdue(r) IN
  IF due.wanted /\ due.asked = "no"
  THEN IF due.recent THEN [rules |-> due, restart |-> FALSE, wake |-> {"recent"}]
       ELSE [rules |-> [Quiet EXCEPT !.asked = "yes", !.recent = TRUE],
             restart |-> TRUE, wake |-> {"asked"}]
  ELSE [rules |-> due, restart |-> FALSE,
        wake |-> (IF due.asked = "no" THEN {} ELSE {"asked"})
                 \union (IF due.disconnected = "no" THEN {} ELSE {"disconnected"})]

\* steer: the timer is set anew, and a restart closes the connection and asks.
Steer(event, c) ==
  LET plan == Plan(On(rules, event)) IN
  /\ rules' = plan.rules /\ wake' = plan.wake
  /\ IF plan.restart THEN conn' = NoConn /\ SendRestart
     ELSE conn' = c /\ UNCHANGED <<sfu, offers>>

\* Bound: making an answer and handing it to the shell takes less than the rules' waits, than
\* ICE takes to give up and than a resume.
Handed == \A h \in handling : h.at # "sent" /\ (h.at = "local" => h.on # conn.id)

\* Time passes: three seconds since the last restart, two since the connection was lost.
\* Three seconds with an offer still on its way is one of the troubles.
SinceRestart ==
  /\ rules.recent /\ Handed
  /\ IF offers = <<>> /\ handling = {} THEN UNCHANGED troubles ELSE Trouble
  /\ rules' = [rules EXCEPT !.recent = FALSE, !.asked = IF @ = "yes" THEN "long" ELSE @]
  /\ UNCHANGED <<sfu, offers, link, conn, opened, handling, wake>>

SinceDisconnected ==
  /\ rules.disconnected = "yes" /\ Handed /\ rules' = [rules EXCEPT !.disconnected = "long"]
  /\ UNCHANGED <<sfu, offers, link, conn, opened, handling, wake, troubles>>

Tick ==
  /\ \/ "recent" \in wake /\ ~rules.recent
     \/ "asked" \in wake /\ rules.asked = "long"
     \/ "disconnected" \in wake /\ rules.disconnected = "long"
  /\ Steer("tick", conn)
  /\ UNCHANGED <<link, opened, handling, troubles>>
-----------------------------------------------------------------------------
(* The phone's connection                                                  *)

\* offer: a connection for another of the server's is closed.
Keeps(n) == IF conn.ufrag \notin {0, n} THEN NoConn ELSE conn

OfferArrives ==
  LET n == Head(offers) kept == Keeps(n) IN
  /\ offers # <<>> /\ offers' = Tail(offers)
  /\ IF kept = NoConn THEN conn' = [NoConn EXCEPT !.id = opened + 1] /\ opened' = opened + 1
     ELSE conn' = kept /\ UNCHANGED opened
  /\ handling' = handling \union {[ufrag |-> n, on |-> conn'.id, fresh |-> kept = NoConn, at |-> "remote"]}
  /\ UNCHANGED <<sfu, link, rules, wake, troubles>>

Goes(h, at) == handling' = (handling \ {h}) \union {[h EXCEPT !.at = at]}
Returns(h) == handling' = handling \ {h}

\* setRemoteDescription: a connection takes them one at a time, in order.
RemoteSet(h) ==
  /\ h \in handling /\ h.at = "remote"
  /\ \A o \in handling : o.on = h.on /\ o.at = "remote" => o.ufrag >= h.ufrag /\ (o.fresh => h.fresh)
  /\ IF conn.id # h.on THEN Returns(h) /\ UNCHANGED conn
     ELSE Goes(h, "local") /\ conn' = [conn EXCEPT !.ufrag = h.ufrag]
  /\ UNCHANGED <<sfu, offers, link, opened, rules, wake, troubles>>

\* The answer is made, and sent.
AnswerGoes(h) ==
  /\ h \in handling /\ h.at = "local"
  /\ IF conn.id # h.on THEN Returns(h) /\ UNCHANGED <<conn, sfu, offers>>
     ELSE Goes(h, "sent") /\ conn' = [conn EXCEPT !.answered = TRUE] /\ SendAnswer(h.ufrag)
  /\ UNCHANGED <<link, opened, rules, wake, troubles>>

\* A new connection answered is the reply to the restart in flight.
Answered(h) ==
  /\ h \in handling /\ h.at = "sent" /\ Returns(h)
  /\ IF h.fresh THEN Steer("answered", conn) ELSE UNCHANGED <<conn, rules, wake, sfu, offers>>
  /\ UNCHANGED <<link, opened, troubles>>

\* Whether both ends are of one connection.
Meets == conn.ufrag = sfu.id /\ conn.answered /\ sfu.ok

\* connectionstatechange
Connects ==
  /\ Meets /\ conn.ice \in {"new", "disconnected"}
  /\ Steer("connected", [conn EXCEPT !.ice = "connected"])
  /\ UNCHANGED <<link, opened, handling, troubles>>

Disconnects ==
  /\ conn.ice = "connected" /\ (IF Meets THEN Trouble ELSE UNCHANGED troubles)
  /\ Steer("disconnected", [conn EXCEPT !.ice = "disconnected"])
  /\ UNCHANGED <<link, opened, handling>>

Fails ==
  /\ Handed
  /\ conn.answered /\ conn.ice \in {"new", "disconnected"}
  /\ IF Meets THEN Trouble ELSE UNCHANGED troubles
  /\ Steer("failed", [conn EXCEPT !.ice = "failed"])
  /\ UNCHANGED <<link, opened, handling>>

Drop ==
  /\ link /\ Trouble /\ link' = FALSE /\ offers' = <<>>
  /\ UNCHANGED <<sfu, conn, opened, handling, rules, wake>>

\* gatewayResumed: what the socket missed is replayed, and not handed over.
Resumed ==
  /\ ~link /\ Handed /\ link' = TRUE
  /\ LET plan == Plan(On(rules, "gateway-resumed")) IN
     /\ rules' = plan.rules /\ wake' = plan.wake
     /\ IF plan.restart
        THEN /\ conn' = NoConn
             /\ sfu' = [id |-> sfu.id + 1, out |-> TRUE, ok |-> FALSE, more |-> FALSE]
             /\ offers' = <<sfu.id + 1>>
        ELSE UNCHANGED <<conn, sfu, offers>>
  /\ UNCHANGED <<opened, handling, troubles>>
-----------------------------------------------------------------------------
Mends ==
  \/ OfferArrives \/ \E h \in handling : RemoteSet(h) \/ AnswerGoes(h) \/ Answered(h)
  \/ Connects \/ Disconnects \/ Fails \/ Resumed

Clock == SinceRestart \/ SinceDisconnected \/ Tick

Next == Mends \/ Clock \/ SomebodyComes \/ Sweep \/ Drop

Spec == Init /\ [][Next]_callVars

FairSpec == Spec /\ WF_callVars(Mends /\ UNCHANGED troubles) /\ WF_callVars(Clock /\ UNCHANGED troubles)
-----------------------------------------------------------------------------
(* Properties                                                              *)

Numbers == 0..2 * MaxTroubles + 1

\* The rules' wait for a connection that went quiet ends with it: offer closes one without
\* telling the rules, and none that follows is started afresh because of it.
WaitFollowsConnection == rules.disconnected # "no" => conn.ice = "disconnected"

\* The parts of the call have their types, whatever the rules wait for, a timer is set
\* for (no event forgets what an earlier one was waiting for), and waits are not carried over.
TypeOK ==
  /\ sfu \in [id : Numbers, out : BOOLEAN, ok : BOOLEAN, more : BOOLEAN]
  /\ offers \in Seq(Numbers) /\ link \in BOOLEAN
  /\ conn \in [id : Nat, ufrag : Numbers, answered : BOOLEAN, ice : {"new", "connected", "disconnected", "failed"}]
  /\ rules \in [disconnected : {"no", "yes", "long"}, asked : {"no", "yes", "long"},
                recent : BOOLEAN, wanted : BOOLEAN]
  /\ wake \subseteq {"recent", "asked", "disconnected"}
  /\ rules.wanted \/ rules.asked # "no" \/ rules.disconnected # "no" => wake # {}
  /\ WaitFollowsConnection

\* Restarts don't stack (Restarts, voiceRestarts.ts): whatever offers, answers, drops and
\* waits cross, a call is started afresh at most twice for each thing that went wrong.
FewRestarts == sfu.id <= 2 * troubles + 1

\* However offers, answers, restarts and drops cross, a call that lost its connection has
\* one again, whose two ends are of one start (#656).
CallComesBack == ~(Meets /\ conn.ice = "connected") ~> Meets /\ conn.ice = "connected"
=============================================================================
