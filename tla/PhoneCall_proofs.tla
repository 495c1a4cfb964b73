------------------------- MODULE PhoneCall_proofs -------------------------
(***************************************************************************)
(* What is proved of PhoneCall for any number of troubles: the types, with *)
(* them that a timer is set for whatever the rules wait for; that a call   *)
(* is started afresh at most twice for each trouble (FewRestarts); and     *)
(* that the rules' wait for a connection that went quiet ends with it      *)
(* (WaitFollowsConnection).                                                *)
(*                                                                         *)
(* The second is an account of restarts: those a call may still need when  *)
(* nothing more goes wrong (Ahead).  A healthy one needs none.  The third  *)
(* rests on the order offers come in.  Handed, the bound on how long an    *)
(* answer takes to hand over, is not used.                                 *)
(***************************************************************************)
EXTENDS PhoneCall, SequenceTheorems, TLAPS

Ids == 0..sfu.id
Rules == [disconnected : {"no", "yes", "long"}, asked : {"no", "yes", "long"},
          recent : BOOLEAN, wanted : BOOLEAN]
Waits == {"recent", "asked", "disconnected"}
Conn == [id : Nat, ufrag : Nat, answered : BOOLEAN, ice : {"new", "connected", "disconnected", "failed"}]
Call == [ufrag : Nat, on : Nat, fresh : BOOLEAN, at : {"remote", "local", "sent"}]

(* The types, as the steps keep them: a number is one the server has given. *)
Shape ==
  /\ sfu \in [id : Nat, out : BOOLEAN, ok : BOOLEAN, more : BOOLEAN]
  /\ offers \in Seq(Nat) /\ link \in BOOLEAN
  /\ conn \in Conn /\ opened \in Nat /\ handling \subseteq Call
  /\ rules \in Rules /\ wake \subseteq Waits /\ troubles \in 0..MaxTroubles

Numbered ==
  /\ \A i \in DOMAIN offers : offers[i] \in Ids
  /\ conn.ufrag \in Ids /\ conn.id <= opened /\ (conn.id = 0 => conn = NoConn)
  /\ \A h \in handling : h.ufrag \in Ids /\ h.on \in 1..opened

(* What the rules wait for has a timer, a restart in flight is a recent one, and a socket *)
(* that is down has nothing on its way. *)
Waiting(r) == r.wanted \/ r.asked # "no" \/ r.disconnected # "no"

Timed ==
  /\ Waiting(rules) => wake # {}
  /\ rules.asked = "yes" => rules.recent
  /\ ~link => offers = <<>>

(* A call that needs no restart: everything on its way is of the server's newest start,   *)
(* what was answered is up, and a restart in flight has its offer coming or being answered. *)
Live(h) == h.on = conn.id

OneStart ==
  /\ \A i \in DOMAIN offers : offers[i] = sfu.id
  /\ conn.ufrag \in {0, sfu.id}
  /\ \A h \in handling : Live(h) => h.ufrag = sfu.id /\ (h.at = "local" => conn.ufrag = sfu.id)

Up ==
  /\ conn.ice \in {"new", "connected"}
  /\ conn.answered \/ conn.ice = "connected" => Meets

Awaited ==
  /\ offers # <<>> \/ (\E h \in handling : Live(h) /\ h.at # "sent") => sfu.out \/ sfu.ok
  /\ rules.asked = "yes" =>
       IF conn = NoConn THEN offers # <<>> ELSE \E h \in handling : Live(h) /\ h.fresh

Healthy ==
  /\ link /\ ~rules.wanted /\ rules.disconnected = "no" /\ rules.asked # "long"
  /\ OneStart /\ Up /\ Awaited

(* The restarts that may still come without a trouble: one puts a broken call right, or   *)
(* two, if it goes out beside an offer that the restart makes an old one. *)
Pending == offers # <<>> \/ handling # {}

Ahead == IF Healthy THEN 0 ELSE IF link /\ ~rules.recent /\ Pending THEN 2 ELSE 1

PhoneInv ==
  /\ Shape /\ Numbered /\ Timed
  /\ sfu.id + Ahead <= 2 * troubles + 1

-----------------------------------------------------------------------------
(* The rules                                                               *)

Started == [Quiet EXCEPT !.asked = "yes", !.recent = TRUE]

\* An event (on) leaves a restart in flight recent.
LEMMA OnIs ==
  ASSUME NEW r \in Rules, NEW event
  PROVE  /\ On(r, event) \in Rules /\ On(r, event).recent = r.recent
         /\ On(r, event).asked \in {r.asked, "no"}
         /\ event \in {"tick", "connected", "answered"} =>
              /\ On(r, event).wanted => r.wanted
              /\ On(r, event).disconnected \in {r.disconnected, "no"}
         /\ event = "answered" => ~Waiting(On(r, event))
  <1>1. CASE event = "connected"  BY <1>1 DEF On, Rules, Waiting
  <1>2. CASE event = "disconnected" /\ r.disconnected = "no"  BY <1>2 DEF On, Rules, Waiting
  <1>3. CASE event = "failed"  BY <1>3 DEF On, Rules, Waiting
  <1>4. CASE event = "answered"  BY <1>4 DEF On, Rules, Waiting
  <1>5. CASE event = "gateway-resumed"  BY <1>5 DEF On, Rules, Waiting
  <1>6. CASE /\ event \notin {"connected", "failed", "answered", "gateway-resumed"}
             /\ ~(event = "disconnected" /\ r.disconnected = "no")
    BY <1>6 DEF On, Rules, Waiting
  <1>. QED  BY <1>1, <1>2, <1>3, <1>4, <1>5, <1>6

\* The rules make a restart only when something was wanted and none is recent, and
\* set a timer for whatever they wait for (plan).
LEMMA PlanIs ==
  ASSUME NEW r \in Rules, r.asked = "yes" => r.recent
  PROVE  LET p == Plan(r)
         IN /\ p.restart \in BOOLEAN /\ p.wake \subseteq Waits /\ p.rules \in Rules
            /\ Waiting(p.rules) => p.wake # {}
            /\ p.rules.asked = "yes" => p.rules.recent
            /\ p.restart => p.rules = Started /\ ~r.recent
            /\ ~p.restart => p.rules.recent = r.recent /\ p.rules.disconnected = r.disconnected
            /\ ~r.wanted /\ r.disconnected # "long" /\ r.asked # "long" => ~p.restart /\ p.rules = r
            /\ r.wanted /\ ~r.recent => p.restart
  <1>. DEFINE due == Overdue(r)
  <1>1. /\ due \in Rules /\ due.recent = r.recent /\ due.disconnected = r.disconnected /\ due.asked \in {r.asked, "no"} /\ due.asked # "long"
        /\ r.wanted => due.wanted
        /\ r.asked = "long" => due.asked = "no"
        /\ ~r.wanted /\ r.disconnected # "long" /\ r.asked # "long" => due = r
    BY DEF Overdue, Rules
  <1>2. Started \in Rules /\ Started.asked = "yes" /\ Started.recent
    BY DEF Started, Quiet, Rules
  <1>. HIDE DEF due
  <1>3. CASE due.wanted /\ due.asked = "no" /\ due.recent
    BY <1>1, <1>3 DEF Plan, due, Waits, Waiting
  <1>4. CASE due.wanted /\ due.asked = "no" /\ ~due.recent
    BY <1>1, <1>2, <1>4 DEF Plan, due, Started, Waits, Waiting
  <1>5. CASE ~(due.wanted /\ due.asked = "no")
    BY <1>1, <1>5 DEF Plan, due, Waits, Waiting, Rules
  <1>. QED  BY <1>1, <1>3, <1>4, <1>5

-----------------------------------------------------------------------------
(* Queues of offers                                                        *)

LEMMA AddedTo ==
  ASSUME NEW q \in Seq(Nat), NEW n \in Nat
  PROVE  /\ Append(q, n) \in Seq(Nat) /\ Append(q, n) # <<>>
         /\ \A i \in DOMAIN Append(q, n) : Append(q, n)[i] = n \/ \E j \in DOMAIN q : Append(q, n)[i] = q[j]
  <1>1. Append(q, n) \in Seq(Nat) /\ Append(q, n) # <<>> /\ Len(Append(q, n)) = Len(q) + 1
    BY AppendProperties
  <1>2. ASSUME NEW i \in DOMAIN Append(q, n), Append(q, n)[i] # n
        PROVE  \E j \in DOMAIN q : Append(q, n)[i] = q[j]
    <2>1. i \in 1..Len(q) /\ Append(q, n)[i] = q[i]  BY <1>1, <1>2, AppendProperties
    <2>. QED  BY <2>1
  <1>. QED  BY <1>1, <1>2

LEMMA TakenFrom ==
  ASSUME NEW q \in Seq(Nat), q # <<>>
  PROVE  /\ Head(q) \in Nat /\ Tail(q) \in Seq(Nat) /\ \E j \in DOMAIN q : Head(q) = q[j]
         /\ \A i \in DOMAIN Tail(q) : \E j \in DOMAIN q : Tail(q)[i] = q[j]
  <1>1. Head(q) \in Nat /\ Tail(q) \in Seq(Nat) /\ Len(Tail(q)) = Len(q) - 1 /\ Len(q) \in Nat /\ Len(q) >= 1
    BY HeadTailProperties, EmptySeq, LenProperties
  <1>2. Head(q) = q[1] /\ 1 \in DOMAIN q  BY <1>1
  <1>3. ASSUME NEW i \in DOMAIN Tail(q) PROVE \E j \in DOMAIN q : Tail(q)[i] = q[j]
    <2>1. i \in 1..(Len(q) - 1) /\ Tail(q)[i] = q[i + 1]  BY <1>1, HeadTailProperties
    <2>2. i + 1 \in DOMAIN q  BY <1>1, <2>1
    <2>. QED  BY <2>1, <2>2
  <1>. QED  BY <1>1, <1>2, <1>3

-----------------------------------------------------------------------------
(* The account                                                             *)

\* A step that starts nothing afresh: a trouble pays for whatever it broke.
LEMMA Accounted ==
  ASSUME PhoneInv, sfu'.id = sfu.id,
         \/ troubles' = troubles + 1
         \/ /\ troubles' = troubles /\ (Healthy => Healthy')
            /\ link' /\ ~rules'.recent /\ Pending' => link /\ ~rules.recent /\ Pending
  PROVE  sfu'.id + Ahead' <= 2 * troubles' + 1
  <1>1. sfu.id \in Nat /\ troubles \in Nat /\ sfu.id + Ahead <= 2 * troubles + 1
    BY DEF PhoneInv, Shape
  <1>2. Ahead \in {0, 1, 2} /\ Ahead' \in {0, 1, 2}  BY DEF Ahead
  <1>3. CASE troubles' = troubles + 1  BY <1>1, <1>2, <1>3
  <1>4. CASE troubles' = troubles /\ Ahead' <= Ahead  BY <1>1, <1>2, <1>4
  <1>5. ASSUME troubles' = troubles PROVE Ahead' <= Ahead
    <2>0. troubles' # troubles + 1  BY <1>1, <1>5
    <2>1. CASE Healthy  BY <1>2, <2>0, <2>1 DEF Ahead
    <2>2. CASE ~Healthy /\ Ahead' = 2  BY <2>0, <2>2 DEF Ahead
    <2>3. CASE ~Healthy /\ Ahead' # 2  BY <1>2, <2>3 DEF Ahead
    <2>. QED  BY <2>1, <2>2, <2>3
  <1>. QED  BY <1>3, <1>4, <1>5

\* The server has started the call afresh: the phone has no connection, and a restart
\* in flight.
Restarted ==
  /\ ~rules.recent /\ rules' = Started /\ conn' = NoConn /\ link'
  /\ sfu' = [id |-> sfu.id + 1, out |-> TRUE, ok |-> FALSE, more |-> FALSE]
  /\ offers' = Append(offers, sfu.id + 1)

\* A restart with no old offer before its own leaves a healthy call; one with such an
\* offer may be followed by another.  A healthy call is only restarted by a trouble.
LEMMA RestartCounts ==
  ASSUME PhoneInv, Restarted, handling' \subseteq handling, opened' = opened, wake' \subseteq Waits, wake' # {},
         troubles' \in 0..MaxTroubles, troubles' = troubles + 1 \/ (troubles' = troubles /\ ~Healthy)
  PROVE  PhoneInv'
  <1>. USE DEF PhoneInv
  <1>0. /\ rules' \in Rules /\ rules'.asked = "yes" /\ rules'.recent /\ ~rules'.wanted
        /\ rules'.disconnected = "no"
    BY DEF Restarted, Started, Quiet, Rules
  <1>1. /\ sfu.id \in Nat /\ troubles \in Nat /\ sfu'.id = sfu.id + 1 /\ offers \in Seq(Nat) /\ sfu'.out
        /\ conn'.id = 0 /\ conn'.ufrag = 0 /\ ~conn'.answered /\ conn'.ice = "new"
        /\ rules' \in Rules /\ rules'.asked = "yes" /\ rules'.recent /\ ~rules'.wanted
        /\ rules'.disconnected = "no"
    BY <1>0 DEF Shape, Restarted, NoConn
  <1>2. /\ offers' \in Seq(Nat) /\ offers' # <<>>
        /\ \A i \in DOMAIN offers' : offers'[i] = sfu'.id \/ \E j \in DOMAIN offers : offers'[i] = offers[j]
    BY <1>1, AddedTo DEF Restarted
  <1>3. Shape'  BY <1>1, <1>2 DEF Shape, Restarted, Conn, NoConn
  <1>4. Numbered'
    <2>1. \A n \in Ids : n \in Ids'  BY <1>1 DEF Ids
    <2>2. sfu'.id \in Ids' /\ 0 \in Ids'  BY <1>1 DEF Ids
    <2>3. \A i \in DOMAIN offers' : offers'[i] \in Ids'  BY <1>2, <2>1, <2>2 DEF Numbered
    <2>4. conn'.ufrag \in Ids' /\ conn'.id <= opened' /\ conn' = NoConn
      BY <1>1, <2>2 DEF Restarted, Shape
    <2>. QED  BY <2>1, <2>3, <2>4 DEF Numbered
  <1>5. Timed'  BY <1>1 DEF Timed, Restarted
  <1>6. offers = <<>> => Healthy'
    <2>1. \A h \in handling' : ~Live(h)'  BY <1>1 DEF Numbered, Live, Shape
    <2>2. offers = <<>> => OneStart'  BY <1>1, <1>2, <2>1 DEF OneStart
    <2>3. Up'  BY <1>1 DEF Up
    <2>4. Awaited'  BY <1>1, <1>2 DEF Awaited, Restarted
    <2>. QED  BY <1>1, <2>2, <2>3, <2>4 DEF Healthy, Restarted
  <1>7. sfu'.id + Ahead' <= 2 * troubles' + 1
    <2>1. Ahead \in {0, 1, 2} /\ Ahead' \in {0, 1} /\ sfu.id + Ahead <= 2 * troubles + 1
      BY <1>1 DEF Ahead
    <2>2. CASE troubles' = troubles + 1  BY <1>1, <2>1, <2>2
    <2>3. CASE troubles' = troubles /\ offers = <<>>
      <3>1. Ahead' = 0 /\ Ahead # 0  BY <1>6, <2>3, <1>1 DEF Ahead
      <3>. QED  BY <1>1, <2>1, <2>3, <3>1
    <2>4. CASE troubles' = troubles /\ offers # <<>>
      <3>1. Ahead = 2  BY <1>1, <2>4 DEF Ahead, Pending, Timed, Restarted
      <3>. QED  BY <1>1, <2>1, <2>4, <3>1
    <2>. QED  BY <2>2, <2>3, <2>4
  <1>. QED  BY <1>3, <1>4, <1>5, <1>7

\* An event the rules hear (steer): what it leaves is asked only of a healthy call, which
\* it does not start afresh.
LEMMA SteerKeeps ==
  ASSUME PhoneInv, NEW event, NEW c \in Conn, c.id = conn.id, c.ufrag = conn.ufrag, c.id = 0 => c = NoConn,
         Steer(event, c), UNCHANGED <<link, opened>>, handling' \subseteq handling, troubles' \in 0..MaxTroubles,
         \/ troubles' = troubles + 1
         \/ /\ troubles' = troubles
            /\ Healthy => event \in {"tick", "connected", "answered"}
            /\ Healthy /\ UNCHANGED <<sfu, offers>> /\ conn' = c /\ rules' = On(rules, event) => Healthy'
  PROVE  PhoneInv'
  <1>. USE DEF PhoneInv
  <1>. DEFINE r == On(rules, event)
              p == Plan(r)
  <1>0. rules \in Rules /\ sfu.id \in Nat /\ troubles \in Nat  BY DEF Shape
  <1>1. /\ r \in Rules /\ r.recent = rules.recent /\ (r.asked = "yes" => r.recent)
        /\ r.asked \in {rules.asked, "no"}
        /\ event \in {"tick", "connected", "answered"} =>
             (r.wanted => rules.wanted) /\ r.disconnected \in {rules.disconnected, "no"}
    BY <1>0, OnIs DEF Timed
  <1>. HIDE DEF r
  <1>2. /\ p.restart \in BOOLEAN /\ p.wake \subseteq Waits /\ p.rules \in Rules
        /\ Waiting(p.rules) => p.wake # {}
        /\ p.rules.asked = "yes" => p.rules.recent
        /\ p.restart => p.rules = Started /\ ~r.recent
        /\ ~p.restart => p.rules.recent = r.recent
        /\ ~r.wanted /\ r.disconnected # "long" /\ r.asked # "long" => ~p.restart /\ p.rules = r
    BY <1>1, PlanIs
  <1>3. /\ rules' = p.rules /\ wake' = p.wake
        /\ IF p.restart THEN conn' = NoConn /\ SendRestart ELSE conn' = c /\ UNCHANGED <<sfu, offers>>
    BY DEF Steer, r
  <1>. HIDE DEF p
  <1>4. Started.asked = "yes" /\ Started.recent  BY DEF Started, Quiet
  <1>5. ASSUME Healthy, troubles' = troubles PROVE ~p.restart /\ rules' = r
    <2>1. event \in {"tick", "connected", "answered"}  BY <1>0, <1>5
    <2>2. ~r.wanted /\ r.disconnected # "long" /\ r.asked # "long"  BY <1>1, <1>5, <2>1 DEF Healthy
    <2>. QED  BY <1>2, <1>3, <2>2
  <1>6. CASE p.restart /\ link
    <2>0. ~rules.recent /\ rules' = Started
      <3>1. ~r.recent /\ p.rules = Started  BY <1>2, <1>6
      <3>. QED  BY <1>1, <1>3, <3>1
    <2>1. Restarted  BY <1>3, <1>6, <2>0 DEF Restarted, SendRestart, Offered
    <2>2. wake' \subseteq Waits /\ wake' # {}  BY <1>2, <1>3, <1>4, <1>6 DEF Waiting
    <2>3. troubles' = troubles + 1 \/ (troubles' = troubles /\ ~Healthy)  BY <1>2, <1>5, <1>6
    <2>. QED  BY <2>1, <2>2, <2>3, RestartCounts
  <1>7. CASE ~(p.restart /\ link)
    <2>1. UNCHANGED <<sfu, offers>> /\ conn' \in {NoConn, c}
      BY <1>3, <1>7 DEF SendRestart
    <2>2. conn' \in Conn /\ conn'.ufrag \in {0, conn.ufrag} /\ conn'.id \in {0, conn.id}
          /\ (conn'.id = 0 => conn' = NoConn)
      <3>1. NoConn \in Conn /\ NoConn.ufrag = 0 /\ NoConn.id = 0  BY DEF Conn, NoConn
      <3>. QED  BY <2>1, <3>1
    <2>3. Shape'  BY <1>2, <1>3, <2>1, <2>2 DEF Shape
    <2>4. Numbered'
      <3>1. Ids' = Ids /\ 0 \in Ids  BY <1>0, <2>1 DEF Ids
      <3>. QED  BY <2>1, <2>2, <3>1 DEF Numbered, Shape
    <2>5. Timed'  BY <1>2, <1>3, <2>1 DEF Timed
    <2>6. sfu'.id + Ahead' <= 2 * troubles' + 1
      <3>1. ASSUME troubles' = troubles, Healthy PROVE Healthy'
        <4>1. ~p.restart /\ rules' = On(rules, event)  BY <1>5, <3>1 DEF r
        <4>. QED  BY <1>0, <1>3, <3>1, <4>1
      <3>2. p.restart => ~link'  BY <1>7
      <3>3. link' /\ ~rules'.recent /\ Pending' => link /\ ~rules.recent /\ Pending
        BY <1>1, <1>2, <1>3, <2>1, <3>2 DEF Pending
      <3>. QED  BY <2>1, <3>1, <3>3, Accounted
    <2>. QED  BY <2>3, <2>4, <2>5, <2>6
  <1>. QED  BY <1>6, <1>7

-----------------------------------------------------------------------------
(* The steps                                                               *)

LEMMA PhoneInit == Init => PhoneInv
  <1>. SUFFICES ASSUME Init PROVE PhoneInv  OBVIOUS
  <1>1. /\ sfu.id = 1 /\ sfu.out /\ offers = <<1>> /\ link /\ conn = NoConn /\ handling = {} /\ rules = Quiet
        /\ troubles = 0
    BY DEF Init
  <1>2. Shape  BY PhoneCallAssumption DEF Init, Shape, Conn, NoConn, Rules, Quiet, Waits
  <1>3. DOMAIN offers = {1} /\ offers[1] = 1  BY <1>1
  <1>4. Numbered  BY <1>1, <1>3 DEF Init, Numbered, Ids, NoConn
  <1>5. Timed  BY <1>1 DEF Timed, Waiting, Quiet
  <1>6. Healthy
    BY <1>1, <1>3 DEF Healthy, OneStart, Up, Awaited, Live, NoConn, Quiet
  <1>7. sfu.id + Ahead <= 2 * troubles + 1  BY <1>1, <1>6 DEF Ahead
  <1>. QED  BY <1>2, <1>4, <1>5, <1>7 DEF PhoneInv

\* A step of the clock: a restart in flight becomes an old one for free only with nothing
\* on its way, which a healthy call's has (SinceRestart, SinceDisconnected, Tick).
LEMMA ClockKeeps == ASSUME PhoneInv, Clock PROVE PhoneInv'
  <1>. USE DEF PhoneInv
  <1>0. troubles \in Nat /\ troubles \in 0..MaxTroubles /\ MaxTroubles \in Nat
    BY PhoneCallAssumption DEF Shape
  <1>1. CASE SinceRestart
    <2>1. /\ UNCHANGED <<sfu, offers, link, conn, opened, handling, wake>>
          /\ rules' = [rules EXCEPT !.recent = FALSE, !.asked = IF @ = "yes" THEN "long" ELSE @]
          /\ IF offers = <<>> /\ handling = {} THEN troubles' = troubles
             ELSE troubles < MaxTroubles /\ troubles' = troubles + 1
      BY <1>1 DEF SinceRestart, Trouble
    <2>2. /\ rules' \in Rules /\ ~rules'.recent /\ rules'.wanted = rules.wanted
          /\ rules'.disconnected = rules.disconnected
          /\ rules'.asked = (IF rules.asked = "yes" THEN "long" ELSE rules.asked)
      BY <2>1 DEF Shape, Rules
    <2>3. Shape'  BY <1>0, <2>1, <2>2 DEF Shape
    <2>4. Numbered'  BY <2>1 DEF Numbered, Ids
    <2>5. Timed'  BY <2>1, <2>2 DEF Timed, Waiting
    <2>6. ASSUME Healthy, offers = <<>>, handling = {} PROVE Healthy'
      <3>1. rules.asked = "no"  BY <2>6 DEF Healthy, Awaited, Shape, Rules
      <3>2. OneStart' /\ Up'  BY <2>1, <2>6 DEF Healthy, OneStart, Up, Meets, Live
      <3>3. Awaited'  BY <2>1, <2>2, <2>6, <3>1 DEF Awaited
      <3>. QED  BY <2>1, <2>2, <2>6, <3>1, <3>2, <3>3 DEF Healthy
    <2>7. sfu'.id + Ahead' <= 2 * troubles' + 1
      BY <2>1, <2>6, Accounted DEF Pending
    <2>. QED  BY <2>3, <2>4, <2>5, <2>7
  <1>2. CASE SinceDisconnected
    <2>1. /\ UNCHANGED <<sfu, offers, link, conn, opened, handling, wake, troubles>>
          /\ rules.disconnected = "yes" /\ rules' = [rules EXCEPT !.disconnected = "long"]
      BY <1>2 DEF SinceDisconnected
    <2>2. /\ rules' \in Rules /\ rules'.recent = rules.recent /\ rules'.asked = rules.asked
      BY <2>1 DEF Shape, Rules
    <2>3. Shape'  BY <2>1, <2>2 DEF Shape
    <2>4. Numbered'  BY <2>1 DEF Numbered, Ids
    <2>5. Timed'  BY <2>1, <2>2 DEF Timed, Waiting
    <2>6. ~Healthy  BY <2>1 DEF Healthy
    <2>7. sfu'.id + Ahead' <= 2 * troubles' + 1
      BY <2>1, <2>2, <2>6, Accounted DEF Pending
    <2>. QED  BY <2>3, <2>4, <2>5, <2>7
  <1>3. CASE Tick
    <2>1. Steer("tick", conn) /\ UNCHANGED <<link, opened, handling, troubles>>  BY <1>3 DEF Tick
    <2>2. On(rules, "tick") = rules  BY DEF On
    <2>3. UNCHANGED <<sfu, offers, conn, rules>> /\ Healthy => Healthy'
      BY <2>1 DEF Healthy, OneStart, Up, Awaited, Live, Meets
    <2>4. conn \in Conn /\ (conn.id = 0 => conn = NoConn)  BY DEF Shape, Numbered
    <2>. QED  BY <1>0, <2>1, <2>2, <2>3, <2>4, SteerKeeps
  <1>. QED  BY <1>1, <1>2, <1>3 DEF Clock

\* What the server's half does by itself (SomebodyComes, Sweep) is a trouble, and so is a
\* drop.
LEMMA ServerKeeps == ASSUME PhoneInv, SomebodyComes \/ Sweep \/ Drop PROVE PhoneInv'
  <1>. USE DEF PhoneInv
  <1>0. troubles \in 0..MaxTroubles /\ MaxTroubles \in Nat /\ sfu.id \in Nat /\ offers \in Seq(Nat)
    BY PhoneCallAssumption DEF Shape
  <1>0a. sfu \in [id : Nat, out : BOOLEAN, ok : BOOLEAN, more : BOOLEAN] /\ link \in BOOLEAN  BY DEF Shape
  <1>1. /\ troubles' = troubles + 1 /\ troubles' \in 0..MaxTroubles /\ sfu'.id = sfu.id
        /\ sfu' \in [id : Nat, out : BOOLEAN, ok : BOOLEAN, more : BOOLEAN]
        /\ UNCHANGED <<conn, opened, handling, rules, wake>>
    <2>1. Trouble /\ UNCHANGED <<conn, opened, handling, rules, wake>>
      BY DEF SomebodyComes, Sweep, Drop
    <2>2. sfu' \in {sfu, [sfu EXCEPT !.more = TRUE], [sfu EXCEPT !.out = TRUE],
                    [sfu EXCEPT !.ok = FALSE, !.out = FALSE, !.more = FALSE]}
      BY DEF SomebodyComes, Sweep, Drop
    <2>3. sfu'.id = sfu.id /\ sfu' \in [id : Nat, out : BOOLEAN, ok : BOOLEAN, more : BOOLEAN]
      BY <1>0a, <2>2
    <2>. QED  BY <1>0, <2>1, <2>3 DEF Trouble
  <1>2. /\ link' \in BOOLEAN /\ (link' => link)
        /\ \/ link' = link /\ offers' \in {offers, Offered(offers, sfu.id)}
           \/ offers' = <<>>
    <2>1. CASE SomebodyComes  BY <1>0a, <2>1 DEF SomebodyComes
    <2>2. CASE Sweep  BY <1>0a, <2>2 DEF Sweep
    <2>3. CASE Drop  BY <1>0a, <2>3 DEF Drop
    <2>. QED  BY <2>1, <2>2, <2>3
  <1>3. /\ offers' \in Seq(Nat) /\ (~link' => offers' = <<>>)
        /\ \A i \in DOMAIN offers' : offers'[i] = sfu.id \/ \E j \in DOMAIN offers : offers'[i] = offers[j]
    <2>1. CASE link' = link /\ offers' = offers  BY <1>0, <2>1 DEF Timed
    <2>2. CASE offers' = <<>>  BY <2>2
    <2>3. CASE link' /\ offers' = Append(offers, sfu.id)  BY <1>0, <2>3, AddedTo
    <2>4. CASE link' = link /\ offers' = Offered(offers, sfu.id)  BY <2>1, <2>3, <2>4 DEF Offered
    <2>. QED  BY <1>2, <2>1, <2>2, <2>4
  <1>4. Shape'  BY <1>1, <1>2, <1>3 DEF Shape
  <1>5. Numbered'
    <2>1. Ids' = Ids /\ sfu.id \in Ids  BY <1>0, <1>1 DEF Ids
    <2>. QED  BY <1>1, <1>3, <2>1 DEF Numbered
  <1>6. Timed'  BY <1>1, <1>3 DEF Timed, Waiting
  <1>7. sfu'.id + Ahead' <= 2 * troubles' + 1  BY <1>1, Accounted
  <1>. QED  BY <1>4, <1>5, <1>6, <1>7

\* The phone's half moves on by what came (offer): no timer, nothing restarted.  The parts
\* of the invariant such a step cannot disturb.
LEMMA MovesOn ==
  ASSUME PhoneInv, UNCHANGED <<link, rules, wake, troubles>>, sfu'.id = sfu.id, ~link => offers' = <<>>
  PROVE  Timed' /\ (link' /\ ~rules'.recent => link /\ ~rules.recent)
  BY DEF PhoneInv, Timed, Waiting

\* An offer arrives: it is answered on the connection there is, or on a new one.
LEMMA OfferKeeps == ASSUME PhoneInv, OfferArrives PROVE PhoneInv'
  <1>. USE DEF PhoneInv
  <1>. DEFINE n == Head(offers)
              kept == Keeps(n)
              h == [ufrag |-> n, on |-> conn'.id, fresh |-> kept = NoConn, at |-> "remote"]
  <1>1. /\ offers # <<>> /\ offers' = Tail(offers) /\ offers \in Seq(Nat)
        /\ handling' = handling \union {h} /\ UNCHANGED <<sfu, link, rules, wake, troubles>>
    BY DEF OfferArrives, Shape
  <1>2. /\ n \in Nat /\ offers' \in Seq(Nat) /\ (\E j \in DOMAIN offers : n = offers[j])
        /\ \A i \in DOMAIN offers' : \E j \in DOMAIN offers : offers'[i] = offers[j]
    BY <1>1, TakenFrom
  <1>. HIDE DEF n
  <1>3. /\ NoConn \in Conn /\ NoConn.id = 0 /\ NoConn.ufrag = 0 /\ ~NoConn.answered /\ NoConn.ice = "new"
        /\ conn \in Conn /\ conn.id <= opened /\ (conn.id = 0 => conn = NoConn) /\ opened \in Nat
    BY DEF NoConn, Conn, Shape, Numbered
  <1>4. \/ /\ kept = NoConn /\ conn' = [NoConn EXCEPT !.id = opened + 1] /\ opened' = opened + 1
        \/ kept = conn /\ conn # NoConn /\ conn' = conn /\ opened' = opened
    BY DEF OfferArrives, Keeps, n
  <1>5. /\ conn' \in Conn /\ opened' \in Nat /\ conn'.id \in 1..opened' /\ conn' # NoConn
        /\ conn'.ufrag \in {0, conn.ufrag} /\ opened <= opened'
    <2>1. CASE kept = NoConn /\ conn' = [NoConn EXCEPT !.id = opened + 1] /\ opened' = opened + 1
      <3>1. conn' = [id |-> opened + 1, ufrag |-> 0, answered |-> FALSE, ice |-> "new"]
        BY <2>1 DEF NoConn
      <3>2. conn'.id = opened + 1 /\ conn'.ufrag = 0 /\ conn' \in Conn  BY <1>3, <3>1 DEF Conn
      <3>3. opened + 1 # 0 /\ opened + 1 \in 1..(opened + 1) /\ opened + 1 \in Nat /\ opened <= opened + 1
        BY <1>3
      <3>. QED  BY <1>3, <2>1, <3>2, <3>3
    <2>2. CASE kept = conn /\ conn # NoConn /\ conn' = conn /\ opened' = opened
      BY <1>3, <2>2 DEF Conn
    <2>. QED  BY <1>4, <2>1, <2>2
  <1>6. h \in Call /\ h.ufrag = n /\ h.on = conn'.id /\ h.at = "remote" /\ h.fresh = (kept = NoConn)
    BY <1>2, <1>5 DEF Call, Conn
  <1>. HIDE DEF h, kept
  <1>7. Shape'  BY <1>1, <1>2, <1>5, <1>6 DEF Shape
  <1>8. Numbered'
    <2>1. Ids' = Ids /\ 0 \in Ids  BY <1>1 DEF Ids, Shape
    <2>2. n \in Ids  BY <1>2 DEF Numbered
    <2>3. \A i \in DOMAIN offers' : offers'[i] \in Ids'  BY <1>2, <2>1 DEF Numbered
    <2>4. conn'.ufrag \in Ids' /\ conn'.id <= opened' /\ conn'.id # 0
      BY <1>5, <2>1 DEF Numbered, Conn
    <2>5. ASSUME NEW o \in handling' PROVE o.ufrag \in Ids' /\ o.on \in 1..opened'
      <3>1. CASE o = h  BY <1>5, <1>6, <2>1, <2>2, <3>1
      <3>2. CASE o \in handling
        <4>1. o.ufrag \in Ids /\ o.on \in 1..opened  BY <3>2 DEF Numbered
        <4>. QED  BY <1>3, <1>5, <2>1, <4>1
      <3>. QED  BY <1>1, <2>5, <3>1, <3>2
    <2>. QED  BY <2>3, <2>4, <2>5 DEF Numbered
  <1>9. ~link => offers' = <<>>  BY <1>1 DEF Timed
  <1>10. Timed' /\ (link' /\ ~rules'.recent => link /\ ~rules.recent)  BY <1>1, <1>9, MovesOn
  <1>11. ASSUME Healthy PROVE Healthy'
    <2>1. n = sfu.id /\ conn.ufrag \in {0, sfu.id}  BY <1>2, <1>11 DEF Healthy, OneStart
    <2>2. \/ conn = NoConn /\ kept = NoConn /\ conn' = [NoConn EXCEPT !.id = opened + 1]
          \/ conn # NoConn /\ kept = conn /\ conn' = conn
      BY <1>4, <2>1 DEF Keeps, kept
    <2>3. /\ conn'.ufrag = conn.ufrag /\ conn'.answered = conn.answered /\ conn'.ice = conn.ice
          /\ conn = NoConn => \A o \in handling : ~Live(o)'
          /\ conn # NoConn => \A o \in handling : Live(o)' = Live(o)
      <3>1. CASE conn = NoConn
        <4>1. conn'.id = opened + 1 /\ conn'.ufrag = 0 /\ conn'.answered = FALSE /\ conn'.ice = "new"
          BY <2>2, <3>1 DEF NoConn
        <4>3. conn.ufrag = 0 /\ conn.answered = FALSE /\ conn.ice = "new"  BY <3>1 DEF NoConn
        <4>2. \A o \in handling : o.on \in 1..opened  BY DEF Numbered
        <4>4. \A o \in handling : o.on # conn'.id  BY <1>3, <4>1, <4>2
        <4>. QED  BY <3>1, <4>1, <4>3, <4>4 DEF Live
      <3>2. CASE conn # NoConn  BY <2>2, <3>2 DEF Live
      <3>. QED  BY <3>1, <3>2
    <2>4. OneStart'
      <3>1. \A i \in DOMAIN offers' : offers'[i] = sfu'.id  BY <1>1, <1>2, <1>11 DEF Healthy, OneStart
      <3>2. \A o \in handling' : Live(o)' => o.ufrag = sfu'.id /\ (o.at = "local" => conn'.ufrag = sfu'.id)
        BY <1>1, <1>6, <1>11, <2>1, <2>3 DEF Healthy, OneStart
      <3>. QED  BY <1>1, <2>1, <2>3, <3>1, <3>2 DEF OneStart
    <2>5. Up'
      <3>1. Meets' = Meets  BY <1>1, <2>3 DEF Meets
      <3>. QED  BY <1>11, <2>3, <3>1 DEF Healthy, Up
    <2>6. Awaited'
      <3>1. sfu'.out \/ sfu'.ok  BY <1>1, <1>11 DEF Healthy, Awaited
      <3>2. rules'.asked = "yes" => \E o \in handling' : Live(o)' /\ o.fresh
        <4>1. CASE conn = NoConn
          <5>1. h \in handling' /\ h.on = conn'.id /\ h.fresh  BY <1>1, <1>6, <2>2, <4>1
          <5>. QED  BY <5>1 DEF Live
        <4>2. CASE conn # NoConn  BY <1>1, <1>11, <2>3, <4>2 DEF Healthy, Awaited
        <4>. QED  BY <4>1, <4>2
      <3>. QED  BY <1>5, <3>1, <3>2 DEF Awaited
    <2>. QED  BY <1>1, <1>11, <2>4, <2>5, <2>6 DEF Healthy
  <1>12. sfu'.id + Ahead' <= 2 * troubles' + 1
    BY <1>1, <1>10, <1>11, Accounted DEF Pending
  <1>. QED  BY <1>7, <1>8, <1>10, <1>12

\* A call of offer goes one step on, on a connection that is still the phone's.
LEMMA GoesIs ==
  ASSUME NEW h \in Call, NEW at \in {"local", "sent"}
  PROVE  LET g == [h EXCEPT !.at = at]
         IN g \in Call /\ g.ufrag = h.ufrag /\ g.on = h.on /\ g.fresh = h.fresh /\ g.at = at
  BY DEF Call

\* A call of offer for a connection that is gone returns.
LEMMA ReturnKeeps ==
  ASSUME PhoneInv, NEW h \in handling, ~(Live(h) /\ h.fresh) \/ rules.asked # "yes", Returns(h),
         UNCHANGED <<conn, sfu, offers, link, opened, rules, wake, troubles>>
  PROVE  PhoneInv'
  <1>. USE DEF PhoneInv
  <1>1. handling' = handling \ {h}  BY DEF Returns
  <1>2. Shape'  BY <1>1 DEF Shape
  <1>3. Numbered'  BY <1>1 DEF Numbered, Ids
  <1>4. Timed'  BY DEF Timed, Waiting
  <1>5. ASSUME Healthy PROVE Healthy'
    <2>1. OneStart' /\ Up'  BY <1>1, <1>5 DEF Healthy, OneStart, Up, Meets, Live
    <2>2. Awaited'  BY <1>1, <1>5 DEF Healthy, Awaited, Live
    <2>. QED  BY <1>5, <2>1, <2>2 DEF Healthy
  <1>6. sfu'.id + Ahead' <= 2 * troubles' + 1  BY <1>1, <1>5, Accounted DEF Pending
  <1>. QED  BY <1>2, <1>3, <1>4, <1>6

\* The offer is the connection's (RemoteSet).
LEMMA RemoteKeeps == ASSUME PhoneInv, NEW h \in handling, RemoteSet(h) PROVE PhoneInv'
  <1>. USE DEF PhoneInv
  <1>1. CASE conn.id # h.on
    BY <1>1, ReturnKeeps DEF RemoteSet, Live
  <1>2. CASE conn.id = h.on
    <2>. DEFINE g == [h EXCEPT !.at = "local"]
    <2>1. /\ h.at = "remote" /\ conn' = [conn EXCEPT !.ufrag = h.ufrag]
          /\ handling' = (handling \ {h}) \union {g}
          /\ UNCHANGED <<sfu, offers, link, opened, rules, wake, troubles>>
      BY <1>2 DEF RemoteSet, Goes
    <2>2. g \in Call /\ g.ufrag = h.ufrag /\ g.on = h.on /\ g.fresh = h.fresh /\ g.at = "local"
      BY GoesIs DEF Shape
    <2>. HIDE DEF g
    <2>3. /\ conn \in Conn /\ conn.id \in 1..opened /\ opened \in Nat /\ h.ufrag \in Ids /\ h.ufrag \in Nat
          /\ NoConn.id = 0
      BY <1>2, <2>2 DEF Shape, Numbered, Call, NoConn
    <2>4. /\ conn' \in Conn /\ conn'.id = conn.id /\ conn'.ufrag = h.ufrag /\ conn'.answered = conn.answered
          /\ conn'.ice = conn.ice
      BY <2>1, <2>3 DEF Conn
    <2>4a. conn'.id \in 1..opened /\ conn # NoConn /\ conn' # NoConn  BY <2>3, <2>4
    <2>5. Shape'  BY <2>1, <2>2, <2>4 DEF Shape
    <2>6. Numbered'
      <3>1. Ids' = Ids  BY <2>1 DEF Ids
      <3>2. conn'.id <= opened' /\ conn'.id # 0  BY <2>1, <2>3, <2>4a
      <3>. QED  BY <2>1, <2>2, <2>4, <2>3, <3>1, <3>2 DEF Numbered
    <2>7. Timed' /\ (link' /\ ~rules'.recent => link /\ ~rules.recent)  BY <2>1, MovesOn DEF Timed
    <2>8. ASSUME Healthy PROVE Healthy'
      <3>1. Live(h) /\ h.ufrag = sfu.id /\ \A o \in handling : Live(o)' = Live(o)
        BY <1>2, <2>4, <2>8 DEF Healthy, OneStart, Live
      <3>2. OneStart'  BY <2>1, <2>2, <2>4, <2>8, <3>1 DEF Healthy, OneStart
      <3>3. Up'  BY <2>1, <2>4, <2>8, <3>1 DEF Healthy, Up, Meets
      <3>4. Awaited'
        <4>1. sfu.out \/ sfu.ok  BY <2>1, <2>8, <3>1 DEF Healthy, Awaited
        <4>2. rules.asked = "yes" => \E o \in handling : Live(o) /\ o.fresh
          BY <2>4a, <2>8 DEF Healthy, Awaited
        <4>3. rules.asked = "yes" => \E o \in handling' : Live(o)' /\ o.fresh
          <5>1. Live(g)' = Live(h)  BY <2>2, <2>4 DEF Live
          <5>. QED  BY <2>1, <2>2, <3>1, <4>2, <5>1
        <4>. QED  BY <2>1, <2>4a, <4>1, <4>3 DEF Awaited
      <3>. QED  BY <2>1, <2>8, <3>2, <3>3, <3>4 DEF Healthy
    <2>9. sfu'.id + Ahead' <= 2 * troubles' + 1  BY <2>1, <2>7, <2>8, Accounted DEF Pending
    <2>. QED  BY <2>5, <2>6, <2>7, <2>9
  <1>. QED  BY <1>1, <1>2

\* The answer goes: of a healthy call it is to the server's newest start, which is up then.
LEMMA AnswerKeeps == ASSUME PhoneInv, NEW h \in handling, AnswerGoes(h) PROVE PhoneInv'
  <1>. USE DEF PhoneInv
  <1>1. CASE conn.id # h.on
    BY <1>1, ReturnKeeps DEF AnswerGoes, Live
  <1>2. CASE conn.id = h.on
    <2>. DEFINE g == [h EXCEPT !.at = "sent"]
    <2>1. /\ h.at = "local" /\ conn' = [conn EXCEPT !.answered = TRUE] /\ SendAnswer(h.ufrag)
          /\ handling' = (handling \ {h}) \union {g}
          /\ UNCHANGED <<link, opened, rules, wake, troubles>>
      BY <1>2 DEF AnswerGoes, Goes
    <2>2. g \in Call /\ g.ufrag = h.ufrag /\ g.on = h.on /\ g.fresh = h.fresh /\ g.at = "sent"
      BY GoesIs DEF Shape
    <2>. HIDE DEF g
    <2>3. /\ conn \in Conn /\ conn.id \in 1..opened /\ opened \in Nat /\ NoConn.id = 0
          /\ sfu \in [id : Nat, out : BOOLEAN, ok : BOOLEAN, more : BOOLEAN] /\ offers \in Seq(Nat)
          /\ link \in BOOLEAN
      BY <1>2 DEF Shape, Numbered, NoConn
    <2>4. /\ conn' \in Conn /\ conn'.id = conn.id /\ conn'.ufrag = conn.ufrag /\ conn'.answered = TRUE
          /\ conn'.ice = conn.ice
      BY <2>1, <2>3 DEF Conn
    <2>4a. conn'.id \in 1..opened /\ conn # NoConn /\ conn' # NoConn  BY <2>3, <2>4
    <2>4b. /\ sfu'.id = sfu.id /\ sfu' \in [id : Nat, out : BOOLEAN, ok : BOOLEAN, more : BOOLEAN]
           /\ offers' = offers \/ (link /\ offers' = Append(offers, sfu.id))
           /\ link /\ (sfu.out \/ sfu.ok) /\ h.ufrag = sfu.id => sfu'.ok
      <3>1. CASE ~link \/ ~sfu.out  BY <2>1, <2>3, <3>1 DEF SendAnswer
      <3>2. CASE link /\ sfu.out /\ h.ufrag # sfu.id  BY <2>1, <2>3, <3>2 DEF SendAnswer
      <3>3. CASE link /\ sfu.out /\ h.ufrag = sfu.id
        <4>1. /\ sfu' = [sfu EXCEPT !.ok = TRUE, !.out = sfu.more, !.more = FALSE]
              /\ offers' = offers \/ (link /\ offers' = Append(offers, sfu.id))
          BY <2>1, <3>3 DEF SendAnswer, Offered
        <4>. QED  BY <2>3, <4>1
      <3>. QED  BY <2>3, <3>1, <3>2, <3>3
    <2>4c. /\ offers' \in Seq(Nat) /\ (~link => offers' = <<>>)
           /\ \A i \in DOMAIN offers' : offers'[i] = sfu.id \/ \E j \in DOMAIN offers : offers'[i] = offers[j]
      <3>1. CASE offers' = offers  BY <2>3, <3>1 DEF Timed
      <3>2. CASE link /\ offers' = Append(offers, sfu.id)  BY <2>3, <3>2, AddedTo
      <3>. QED  BY <2>4b, <3>1, <3>2
    <2>5. Shape'  BY <2>1, <2>2, <2>4, <2>4b, <2>4c DEF Shape
    <2>6. Numbered'
      <3>1. Ids' = Ids /\ sfu.id \in Ids  BY <2>3, <2>4b DEF Ids
      <3>2. conn'.id <= opened' /\ conn'.id # 0  BY <2>1, <2>3, <2>4a
      <3>. QED  BY <2>1, <2>2, <2>4, <2>4c, <3>1, <3>2 DEF Numbered
    <2>7. Timed' /\ (link' /\ ~rules'.recent => link /\ ~rules.recent)  BY <2>1, <2>4b, <2>4c, MovesOn
    <2>8. ASSUME Healthy PROVE Healthy'
      <3>1. Live(h) /\ h.ufrag = sfu.id /\ conn.ufrag = sfu.id /\ \A o \in handling : Live(o)' = Live(o)
        BY <1>2, <2>1, <2>4, <2>8 DEF Healthy, OneStart, Live
      <3>2. OneStart'
        <4>1. \A i \in DOMAIN offers' : offers'[i] = sfu'.id  BY <2>4b, <2>4c, <2>8 DEF Healthy, OneStart
        <4>. QED  BY <2>1, <2>2, <2>4, <2>4b, <2>8, <3>1, <4>1 DEF Healthy, OneStart
      <3>3. sfu'.ok  BY <2>1, <2>4b, <2>8, <3>1 DEF Healthy, Awaited
      <3>4. Up'  BY <2>4, <2>4b, <2>8, <3>1, <3>3 DEF Healthy, Up, Meets
      <3>5. Awaited'
        <4>2. rules.asked = "yes" => \E o \in handling : Live(o) /\ o.fresh
          BY <2>4a, <2>8 DEF Healthy, Awaited
        <4>3. rules.asked = "yes" => \E o \in handling' : Live(o)' /\ o.fresh
          <5>1. Live(g)' = Live(h)  BY <2>2, <2>4 DEF Live
          <5>. QED  BY <2>1, <2>2, <3>1, <4>2, <5>1
        <4>. QED  BY <2>1, <2>4a, <3>3, <4>3 DEF Awaited
      <3>. QED  BY <2>1, <2>8, <3>2, <3>4, <3>5 DEF Healthy
    <2>8a. Pending  BY DEF Pending
    <2>9. sfu'.id + Ahead' <= 2 * troubles' + 1  BY <2>1, <2>4b, <2>7, <2>8, <2>8a, Accounted
    <2>. QED  BY <2>5, <2>6, <2>7, <2>9
  <1>. QED  BY <1>1, <1>2

\* The rules hear of an answer on a new connection, and of nothing else (Answered).
LEMMA AnsweredKeeps == ASSUME PhoneInv, NEW h \in handling, Answered(h) PROVE PhoneInv'
  <1>. USE DEF PhoneInv
  <1>1. CASE ~h.fresh
    BY <1>1, ReturnKeeps DEF Answered
  <1>2. CASE h.fresh
    <2>1. handling' = handling \ {h} /\ Steer("answered", conn) /\ UNCHANGED <<link, opened, troubles>>
      BY <1>2 DEF Answered, Returns
    <2>2. /\ conn \in Conn /\ (conn.id = 0 => conn = NoConn) /\ rules \in Rules /\ troubles \in 0..MaxTroubles
      BY DEF Shape, Numbered
    <2>3. ~Waiting(On(rules, "answered"))  BY <2>2, OnIs
    <2>4. ASSUME Healthy, UNCHANGED <<sfu, offers>>, conn' = conn, rules' = On(rules, "answered") PROVE Healthy'
      <3>1. OneStart' /\ Up'  BY <2>1, <2>4 DEF Healthy, OneStart, Up, Meets, Live
      <3>2. Awaited'  BY <2>1, <2>3, <2>4 DEF Healthy, Awaited, Live, Waiting
      <3>. QED  BY <2>1, <2>3, <2>4, <3>1, <3>2 DEF Healthy, Waiting
    <2>. QED  BY <2>1, <2>2, <2>4, SteerKeeps
  <1>. QED  BY <1>1, <1>2

\* The connection's state changes: for the worse, of a healthy call, only by a trouble.
LEMMA StateKeeps == ASSUME PhoneInv, Connects \/ Disconnects \/ Fails PROVE PhoneInv'
  <1>. USE DEF PhoneInv
  <1>0. /\ conn \in Conn /\ (conn.id = 0 => conn = NoConn) /\ rules \in Rules
        /\ troubles \in 0..MaxTroubles /\ MaxTroubles \in Nat
    BY PhoneCallAssumption DEF Shape, Numbered
  <1>1. NoConn.ufrag = 0 /\ NoConn.answered = FALSE /\ NoConn.ice = "new" /\ NoConn.id = 0  BY DEF NoConn
  <1>2. CASE Connects
    <2>. DEFINE c == [conn EXCEPT !.ice = "connected"]
    <2>1. Meets /\ Steer("connected", c) /\ UNCHANGED <<link, opened, handling, troubles>>
      BY <1>2 DEF Connects
    <2>2. c \in Conn /\ c.id = conn.id /\ c.ufrag = conn.ufrag /\ c.answered = conn.answered /\ c.ice = "connected"
      BY <1>0 DEF Conn
    <2>. HIDE DEF c
    <2>3. conn.answered /\ conn # NoConn /\ conn.id # 0  BY <1>0, <1>1, <2>1 DEF Meets
    <2>3a. c # NoConn  BY <1>1, <2>2
    <2>4. /\ On(rules, "connected").wanted = FALSE /\ On(rules, "connected").disconnected = "no"
          /\ On(rules, "connected").asked = rules.asked
      BY <1>0 DEF On, Rules
    <2>5. ASSUME Healthy, UNCHANGED <<sfu, offers>>, conn' = c, rules' = On(rules, "connected") PROVE Healthy'
      <3>1. Meets'  BY <2>1, <2>2, <2>5 DEF Meets
      <3>2. \A o \in handling : Live(o)' = Live(o)  BY <2>2, <2>5 DEF Live
      <3>3. OneStart' /\ Up'  BY <2>1, <2>2, <2>5, <3>1, <3>2 DEF Healthy, OneStart, Up
      <3>4. Awaited'  BY <2>1, <2>3, <2>3a, <2>4, <2>5, <3>2 DEF Healthy, Awaited
      <3>. QED  BY <2>1, <2>4, <2>5, <3>3, <3>4 DEF Healthy
    <2>. QED  BY <1>0, <2>1, <2>2, <2>3, <2>5, SteerKeeps
  <1>3. CASE Disconnects
    <2>. DEFINE c == [conn EXCEPT !.ice = "disconnected"]
    <2>1. /\ conn.ice = "connected" /\ Steer("disconnected", c) /\ UNCHANGED <<link, opened, handling>>
          /\ IF Meets THEN Trouble ELSE UNCHANGED troubles
      BY <1>3 DEF Disconnects
    <2>2. c \in Conn /\ c.id = conn.id /\ c.ufrag = conn.ufrag  BY <1>0 DEF Conn
    <2>. HIDE DEF c
    <2>3. conn.id # 0  BY <1>0, <1>1, <2>1
    <2>4. /\ troubles' \in 0..MaxTroubles
          /\ troubles' = troubles + 1 \/ (troubles' = troubles /\ ~Healthy)
      BY <1>0, <2>1 DEF Trouble, Healthy, Up
    <2>. QED  BY <2>1, <2>2, <2>3, <2>4, SteerKeeps
  <1>4. CASE Fails
    <2>. DEFINE c == [conn EXCEPT !.ice = "failed"]
    <2>1. /\ conn.answered /\ Steer("failed", c) /\ UNCHANGED <<link, opened, handling>>
          /\ IF Meets THEN Trouble ELSE UNCHANGED troubles
      BY <1>4 DEF Fails
    <2>2. c \in Conn /\ c.id = conn.id /\ c.ufrag = conn.ufrag  BY <1>0 DEF Conn
    <2>. HIDE DEF c
    <2>3. conn.id # 0  BY <1>0, <1>1, <2>1
    <2>4. /\ troubles' \in 0..MaxTroubles
          /\ troubles' = troubles + 1 \/ (troubles' = troubles /\ ~Healthy)
      BY <1>0, <2>1 DEF Trouble, Healthy, Up
    <2>. QED  BY <2>1, <2>2, <2>3, <2>4, SteerKeeps
  <1>. QED  BY <1>2, <1>3, <1>4

\* A resume asks for a restart, now or when the last one is not recent any more.
LEMMA ResumedKeeps == ASSUME PhoneInv, Resumed PROVE PhoneInv'
  <1>. USE DEF PhoneInv
  <1>. DEFINE r == On(rules, "gateway-resumed")
              p == Plan(r)
  <1>0. /\ rules \in Rules /\ sfu.id \in Nat /\ ~link /\ link' = TRUE /\ offers = <<>> /\ offers \in Seq(Nat)
        /\ UNCHANGED <<opened, handling, troubles>> /\ troubles \in 0..MaxTroubles
    BY DEF Resumed, Shape, Timed
  <1>1. r \in Rules /\ r.recent = rules.recent /\ r.wanted /\ (r.asked = "yes" => r.recent)
    <2>1. r = [rules EXCEPT !.wanted = TRUE]  BY DEF On
    <2>. QED  BY <1>0, <2>1 DEF Rules, Timed
  <1>. HIDE DEF r
  <1>2. /\ p.restart \in BOOLEAN /\ p.wake \subseteq Waits /\ p.rules \in Rules
        /\ Waiting(p.rules) => p.wake # {}
        /\ p.rules.asked = "yes" => p.rules.recent
        /\ p.restart => p.rules = Started /\ ~r.recent
        /\ ~p.restart => p.rules.recent = r.recent
        /\ r.wanted /\ ~r.recent => p.restart
    BY <1>1, PlanIs
  <1>3. /\ rules' = p.rules /\ wake' = p.wake
        /\ IF p.restart
           THEN /\ conn' = NoConn /\ offers' = <<sfu.id + 1>>
                /\ sfu' = [id |-> sfu.id + 1, out |-> TRUE, ok |-> FALSE, more |-> FALSE]
           ELSE UNCHANGED <<conn, sfu, offers>>
    BY DEF Resumed, r
  <1>. HIDE DEF p
  <1>4. Started.asked = "yes" /\ ~Healthy  BY <1>0 DEF Started, Quiet, Healthy
  <1>5. CASE p.restart
    <2>1. offers' = Append(offers, sfu.id + 1)  BY <1>0, <1>3, <1>5
    <2>2. ~rules.recent /\ rules' = Started
      <3>1. ~r.recent /\ p.rules = Started  BY <1>2, <1>5
      <3>. QED  BY <1>1, <1>3, <3>1
    <2>3. Restarted  BY <1>0, <1>3, <1>5, <2>1, <2>2 DEF Restarted
    <2>4. wake' \subseteq Waits /\ wake' # {}  BY <1>2, <1>3, <1>4, <1>5 DEF Waiting
    <2>. QED  BY <1>0, <1>4, <2>3, <2>4, RestartCounts
  <1>6. CASE ~p.restart
    <2>1. UNCHANGED <<conn, sfu, offers>> /\ rules'.recent  BY <1>1, <1>2, <1>3, <1>6
    <2>2. Shape'  BY <1>0, <1>2, <1>3, <2>1 DEF Shape
    <2>3. Numbered'  BY <1>0, <2>1 DEF Numbered, Ids
    <2>4. Timed'  BY <1>0, <1>2, <1>3, <2>1 DEF Timed
    <2>5. sfu'.id + Ahead' <= 2 * troubles' + 1  BY <1>0, <1>4, <2>1, Accounted
    <2>. QED  BY <2>2, <2>3, <2>4, <2>5
  <1>. QED  BY <1>2, <1>5, <1>6

LEMMA PhoneStep == PhoneInv /\ [Next]_callVars => PhoneInv'
  <1>. SUFFICES ASSUME PhoneInv, [Next]_callVars PROVE PhoneInv'  OBVIOUS
  <1>1. CASE Clock  BY <1>1, ClockKeeps
  <1>2. CASE SomebodyComes \/ Sweep \/ Drop  BY <1>2, ServerKeeps
  <1>3. CASE OfferArrives  BY <1>3, OfferKeeps
  <1>4. CASE \E h \in handling : RemoteSet(h) \/ AnswerGoes(h) \/ Answered(h)
    BY <1>4, RemoteKeeps, AnswerKeeps, AnsweredKeeps
  <1>5. CASE Connects \/ Disconnects \/ Fails  BY <1>5, StateKeeps
  <1>6. CASE Resumed  BY <1>6, ResumedKeeps
  <1>7. CASE UNCHANGED callVars
    <2>1. Shape' /\ Numbered' /\ Timed'
      BY <1>7 DEF callVars, PhoneInv, Shape, Numbered, Ids, Timed, Waiting
    <2>2. Healthy => Healthy'
      BY <1>7 DEF callVars, Healthy, OneStart, Up, Awaited, Meets, Live
    <2>3. sfu'.id + Ahead' <= 2 * troubles' + 1
      BY <1>7, <2>2, Accounted DEF callVars, Pending
    <2>. QED  BY <2>1, <2>3 DEF PhoneInv
  <1>. QED  BY <1>1, <1>2, <1>3, <1>4, <1>5, <1>6, <1>7 DEF Next, Mends

LEMMA PhoneInvariant == Spec => []PhoneInv
  <1>. QED  BY PhoneInit, PhoneStep, PTL DEF Spec

-----------------------------------------------------------------------------
(* Offers come in the order of their starts                                *)

InOrder(q) == \A i, j \in DOMAIN q : i <= j => q[i] <= q[j]

\* What is on its way is of no earlier start than what the phone has taken, and a
\* connection that was up is of the server's newest start: no offer closes it.
OrderInv ==
  /\ InOrder(offers)
  /\ \A i \in DOMAIN offers : conn.ufrag <= offers[i] /\ \A h \in handling : h.ufrag <= offers[i]
  /\ \A h \in handling : Live(h) /\ h.at = "remote" => conn.ufrag <= h.ufrag
  /\ conn.ice \in {"connected", "disconnected"} => conn.ufrag = sfu.id
  /\ WaitFollowsConnection

\* Another offer keeps the queue in order if it is of the newest start.
LEMMA OrderGrows ==
  ASSUME PhoneInv, OrderInv, sfu'.id \in Nat, sfu.id <= sfu'.id,
         offers' \in {offers, <<>>, Append(offers, sfu'.id)},
         conn'.ufrag = 0 \/ conn'.ufrag = conn.ufrag \/ (\E h \in handling : conn'.ufrag = h.ufrag),
         \A h \in handling' : \E o \in handling : h.ufrag = o.ufrag
  PROVE  /\ InOrder(offers)'
         /\ (\A i \in DOMAIN offers : conn.ufrag <= offers[i] /\ \A h \in handling : h.ufrag <= offers[i])'
  <1>. USE DEF PhoneInv
  <1>1. /\ sfu.id \in Nat /\ offers \in Seq(Nat) /\ conn.ufrag \in Ids /\ \A h \in handling : h.ufrag \in Ids
        /\ \A i \in DOMAIN offers : offers[i] \in Ids
    BY DEF Shape, Numbered
  <1>2. \A n \in Ids : n \in Nat /\ n <= sfu'.id  BY <1>1 DEF Ids
  <1>3. /\ conn'.ufrag \in Nat /\ conn'.ufrag <= sfu'.id
        /\ \A h \in handling' : h.ufrag \in Nat /\ h.ufrag <= sfu'.id
        /\ \A i \in DOMAIN offers : conn'.ufrag <= offers[i] /\ \A h \in handling' : h.ufrag <= offers[i]
    <2>1. \A i \in DOMAIN offers : offers[i] \in Nat /\ 0 <= offers[i]  BY <1>1, <1>2
    <2>2. /\ 0 \in Ids /\ conn'.ufrag \in Ids
          /\ \A i \in DOMAIN offers : conn'.ufrag <= offers[i]
      BY <1>1, <2>1 DEF OrderInv, Ids
    <2>3. ASSUME NEW h \in handling'
          PROVE  h.ufrag \in Ids /\ \A i \in DOMAIN offers : h.ufrag <= offers[i]
      BY <1>1 DEF OrderInv
    <2>. QED  BY <1>2, <2>2, <2>3
  <1>4. CASE offers' = offers  BY <1>3, <1>4 DEF OrderInv, InOrder
  <1>5. CASE offers' = <<>>  BY <1>5 DEF InOrder
  <1>6. CASE offers' = Append(offers, sfu'.id)
    <2>. DEFINE l == Len(offers)
    <2>1. /\ l \in Nat /\ DOMAIN offers = 1..l /\ DOMAIN offers' = 1..(l + 1) /\ offers'[l + 1] = sfu'.id
          /\ \A i \in 1..l : offers'[i] = offers[i]
      BY <1>1, <1>6
    <2>. HIDE DEF l
    <2>2. \A i \in DOMAIN offers' : i = l + 1 \/ i \in 1..l  BY <2>1
    <2>3. \A i \in DOMAIN offers' : offers'[i] \in Nat /\ offers'[i] <= sfu'.id
      BY <1>1, <1>2, <2>1, <2>2
    <2>4. InOrder(offers')
      <3>. SUFFICES ASSUME NEW i \in DOMAIN offers', NEW j \in DOMAIN offers', i <= j
                    PROVE  offers'[i] <= offers'[j]
        BY DEF InOrder
      <3>1. CASE j = l + 1  BY <2>1, <2>3, <3>1
      <3>2. CASE j \in 1..l
        <4>1. i \in 1..l  BY <2>1, <2>2, <3>2
        <4>. QED  BY <2>1, <3>2, <4>1 DEF OrderInv, InOrder
      <3>. QED  BY <2>2, <3>1, <3>2
    <2>5. \A i \in DOMAIN offers' : conn'.ufrag <= offers'[i] /\ \A h \in handling' : h.ufrag <= offers'[i]
      BY <1>3, <2>1, <2>2
    <2>. QED  BY <2>4, <2>5
  <1>. QED  BY <1>4, <1>5, <1>6

\* What the rules hear: their wait is the connection's own, or the connection is closed.
LEMMA SteerOrder ==
  ASSUME PhoneInv, OrderInv, NEW event, NEW c, c.id = conn.id, c.ufrag = conn.ufrag,
         c.ice \in {"connected", "disconnected"} => c.ufrag = sfu.id,
         On(rules, event).disconnected # "no" => c.ice = "disconnected",
         Steer(event, c), link' = link, handling' \subseteq handling
  PROVE  OrderInv'
  <1>. DEFINE r == On(rules, event)
              p == Plan(r)
  <1>0. rules \in Rules /\ sfu.id \in Nat  BY DEF PhoneInv, Shape
  <1>1. r \in Rules /\ (r.asked = "yes" => r.recent)
    <2>1. r \in Rules /\ r.recent = rules.recent /\ r.asked \in {rules.asked, "no"}  BY <1>0, OnIs
    <2>. QED  BY <2>1 DEF PhoneInv, Timed
  <1>. HIDE DEF r
  <1>2. /\ p.restart \in BOOLEAN /\ (p.restart => p.rules = Started)
        /\ ~p.restart => p.rules.disconnected = r.disconnected
    BY <1>1, PlanIs
  <1>3. /\ rules' = p.rules
        /\ IF p.restart THEN conn' = NoConn /\ SendRestart ELSE conn' = c /\ UNCHANGED <<sfu, offers>>
    BY DEF Steer, r
  <1>. HIDE DEF p
  <1>4. NoConn.id = 0 /\ NoConn.ufrag = 0 /\ NoConn.ice = "new" /\ Started.disconnected = "no"
    BY DEF NoConn, Started, Quiet
  <1>5. CASE p.restart
    <2>1. /\ sfu'.id \in Nat /\ sfu.id <= sfu'.id
          /\ offers' \in {offers, Append(offers, sfu'.id)}
      BY <1>0, <1>3, <1>5 DEF SendRestart, Offered
    <2>2. conn'.ufrag = 0 /\ conn'.id = 0 /\ conn'.ice = "new" /\ rules'.disconnected = "no"
      BY <1>2, <1>3, <1>4, <1>5
    <2>3. \A h \in handling' : ~Live(h)'  BY <2>2 DEF Live, PhoneInv, Numbered, Shape
    <2>4. /\ InOrder(offers)'
          /\ (\A i \in DOMAIN offers : conn.ufrag <= offers[i] /\ \A h \in handling : h.ufrag <= offers[i])'
      BY <2>1, <2>2, OrderGrows
    <2>. QED  BY <2>2, <2>3, <2>4 DEF OrderInv, WaitFollowsConnection
  <1>6. CASE ~p.restart
    <2>1. conn' = c /\ UNCHANGED <<sfu, offers>> /\ rules'.disconnected = r.disconnected
      BY <1>2, <1>3, <1>6
    <2>2. \A h \in handling' : Live(h)' = Live(h)  BY <2>1 DEF Live
    <2>3. /\ InOrder(offers)'
          /\ (\A i \in DOMAIN offers : conn.ufrag <= offers[i] /\ \A h \in handling : h.ufrag <= offers[i])'
      BY <1>0, <2>1, OrderGrows
    <2>. QED  BY <2>1, <2>2, <2>3 DEF OrderInv, WaitFollowsConnection, r
  <1>. QED  BY <1>2, <1>5, <1>6

\* Every other step.
LEMMA OrderStep == PhoneInv /\ OrderInv /\ [Next]_callVars => OrderInv'
  <1>. SUFFICES ASSUME PhoneInv, OrderInv, [Next]_callVars PROVE OrderInv'  OBVIOUS
  <1>. USE DEF PhoneInv
  <1>0. /\ rules \in Rules /\ sfu.id \in Nat /\ conn \in Conn /\ handling \subseteq Call /\ offers \in Seq(Nat)
        /\ opened \in Nat /\ conn.id <= opened /\ (~link => offers = <<>>)
        /\ \A h \in handling : h.on \in 1..opened
    BY DEF Shape, Numbered, Timed
  <1>1. ASSUME UNCHANGED conn, sfu'.id = sfu.id, offers' \in {offers, <<>>, Append(offers, sfu.id)},
               handling' \subseteq handling, rules'.disconnected # "no" => rules.disconnected # "no"
        PROVE  OrderInv'
    <2>1. /\ InOrder(offers)'
          /\ (\A i \in DOMAIN offers : conn.ufrag <= offers[i] /\ \A h \in handling : h.ufrag <= offers[i])'
      BY <1>0, <1>1, OrderGrows
    <2>2. \A h \in handling : Live(h)' = Live(h)  BY <1>1 DEF Live
    <2>. QED  BY <1>1, <2>1, <2>2 DEF OrderInv, WaitFollowsConnection
  <1>2. CASE SomebodyComes \/ Sweep \/ Drop
    <2>1. UNCHANGED <<conn, handling, rules>> /\ offers' \in {offers, <<>>, Append(offers, sfu.id)}
      BY <1>2 DEF SomebodyComes, Sweep, Drop, Offered
    <2>2. sfu' \in {sfu, [sfu EXCEPT !.more = TRUE], [sfu EXCEPT !.out = TRUE],
                    [sfu EXCEPT !.ok = FALSE, !.out = FALSE, !.more = FALSE]}
      BY <1>2 DEF SomebodyComes, Sweep, Drop
    <2>3. sfu'.id = sfu.id  BY <2>2 DEF Shape
    <2>. QED  BY <1>1, <2>1, <2>3
  <1>3. CASE SinceRestart \/ UNCHANGED callVars
    <2>1. UNCHANGED <<conn, handling, sfu, offers>> /\ rules'.disconnected = rules.disconnected
      BY <1>0, <1>3 DEF SinceRestart, callVars, Rules
    <2>. QED  BY <1>1, <2>1
  <1>4. CASE SinceDisconnected
    <2>1. UNCHANGED <<conn, handling, sfu, offers>> /\ rules.disconnected = "yes"
      BY <1>4 DEF SinceDisconnected
    <2>. QED  BY <1>1, <2>1
  <1>5. CASE Tick
    <2>1. Steer("tick", conn) /\ UNCHANGED <<link, handling>>  BY <1>5 DEF Tick
    <2>2. On(rules, "tick") = rules  BY DEF On
    <2>. QED  BY <2>1, <2>2, SteerOrder DEF OrderInv, WaitFollowsConnection
  <1>6. CASE OfferArrives
    <2>. DEFINE n == Head(offers)
                h == [ufrag |-> n, on |-> conn'.id, fresh |-> Keeps(n) = NoConn, at |-> "remote"]
    <2>1. /\ offers # <<>> /\ offers' = Tail(offers) /\ handling' = handling \union {h}
          /\ UNCHANGED <<sfu, rules>>
      BY <1>6 DEF OfferArrives
    <2>2. /\ InOrder(offers') /\ \A i \in DOMAIN offers' : n <= offers'[i] /\ conn.ufrag <= offers'[i]
          /\ \A i \in DOMAIN offers' : \A o \in handling : o.ufrag <= offers'[i]
          /\ n \in Nat /\ conn.ufrag <= n
      <3>. DEFINE l == Len(offers)
      <3>1. /\ l \in Nat \ {0} /\ DOMAIN offers = 1..l /\ n = offers[1] /\ DOMAIN offers' = 1..(l - 1)
            /\ \A i \in 1..(l - 1) : offers'[i] = offers[i + 1]
        BY <1>0, <2>1
      <3>1a. n \in Nat  BY <1>0, <2>1, TakenFrom
      <3>. HIDE DEF l, n
      <3>2. 1 \in 1..l /\ \A i \in 1..(l - 1) : i + 1 \in 1..l /\ 1 <= i + 1  BY <3>1
      <3>3. InOrder(offers')
        <4>. SUFFICES ASSUME NEW i \in 1..(l - 1), NEW j \in 1..(l - 1), i <= j
                      PROVE  offers'[i] <= offers'[j]
          BY <3>1 DEF InOrder
        <4>1. i + 1 <= j + 1  BY <3>1
        <4>. QED  BY <3>1, <3>2, <4>1 DEF OrderInv, InOrder
      <3>4. n \in Nat /\ conn.ufrag <= n  BY <3>1, <3>1a, <3>2 DEF OrderInv
      <3>5. \A i \in 1..(l - 1) : n <= offers'[i]  BY <3>1, <3>2 DEF OrderInv, InOrder
      <3>. QED  BY <3>1, <3>2, <3>3, <3>4, <3>5 DEF OrderInv
    <2>3. h.ufrag = n /\ h.on = conn'.id /\ h.at = "remote"  OBVIOUS
    <2>. HIDE DEF h
    <2>4. CASE Keeps(n) = NoConn /\ ~(conn.ufrag \in {0, n} /\ conn # NoConn)
      <3>1. conn' = [NoConn EXCEPT !.id = opened + 1]  BY <1>6, <2>4 DEF OfferArrives
      <3>2. conn'.id = opened + 1 /\ conn'.ufrag = 0 /\ conn'.ice = "new"  BY <3>1 DEF NoConn
      <3>3. \A o \in handling : ~Live(o)'  BY <1>0, <3>2 DEF Live
      <3>4. rules.disconnected = "no"
        <4>1. CASE conn.ice = "disconnected"
          <5>1. conn.ufrag = sfu.id  BY <4>1 DEF OrderInv
          <5>2. \E i \in DOMAIN offers : n = offers[i]  BY <1>0, <2>1, TakenFrom
          <5>3. n \in Ids  BY <5>2 DEF Numbered
          <5>4. n = conn.ufrag  BY <1>0, <2>2, <5>1, <5>3 DEF Ids
          <5>5. conn = NoConn  BY <2>4, <5>4
          <5>. QED  BY <4>1, <5>5 DEF NoConn
        <4>2. CASE conn.ice # "disconnected"  BY <4>2 DEF OrderInv, WaitFollowsConnection
        <4>. QED  BY <4>1, <4>2
      <3>5. \A i \in DOMAIN offers' : conn'.ufrag <= offers'[i] /\ \A o \in handling' : o.ufrag <= offers'[i]
        <4>1. \A i \in DOMAIN offers' : 0 <= offers'[i]
          BY <1>0, <2>1, TakenFrom
        <4>. QED  BY <2>1, <2>2, <2>3, <3>2, <4>1
      <3>6. \A o \in handling' : Live(o)' /\ o.at = "remote" => conn'.ufrag <= o.ufrag
        BY <2>1, <2>2, <2>3, <3>2, <3>3
      <3>. QED  BY <2>1, <2>2, <3>2, <3>4, <3>5, <3>6 DEF OrderInv, WaitFollowsConnection
    <2>5. CASE conn.ufrag \in {0, n} /\ conn # NoConn
      <3>1. conn' = conn  BY <1>6, <2>5 DEF OfferArrives, Keeps
      <3>2. \A o \in handling : Live(o)' = Live(o)  BY <3>1 DEF Live
      <3>3. \A i \in DOMAIN offers' : conn'.ufrag <= offers'[i] /\ \A o \in handling' : o.ufrag <= offers'[i]
        BY <2>1, <2>2, <2>3, <3>1
      <3>4. \A o \in handling' : Live(o)' /\ o.at = "remote" => conn'.ufrag <= o.ufrag
        BY <2>1, <2>2, <2>3, <3>1, <3>2 DEF OrderInv
      <3>. QED  BY <2>1, <2>2, <3>1, <3>3, <3>4 DEF OrderInv, WaitFollowsConnection
    <2>6. Keeps(n) = NoConn \/ (conn.ufrag \in {0, n} /\ conn # NoConn)  BY DEF Keeps
    <2>. QED  BY <2>4, <2>5, <2>6
  <1>7. ASSUME NEW h \in handling, RemoteSet(h) PROVE OrderInv'
    <2>1. CASE conn.id # h.on
      <3>1. UNCHANGED <<conn, sfu, offers, rules>> /\ handling' \subseteq handling
        BY <1>7, <2>1 DEF RemoteSet, Returns
      <3>. QED  BY <1>1, <3>1
    <2>2. CASE conn.id = h.on
      <3>. DEFINE g == [h EXCEPT !.at = "local"]
      <3>1. /\ h.at = "remote" /\ conn' = [conn EXCEPT !.ufrag = h.ufrag]
            /\ handling' = (handling \ {h}) \union {g} /\ UNCHANGED <<sfu, offers, rules>>
            /\ \A o \in handling : o.on = h.on /\ o.at = "remote" => o.ufrag >= h.ufrag
        BY <1>7, <2>2 DEF RemoteSet, Goes
      <3>2. g.ufrag = h.ufrag /\ g.at = "local"  BY <1>0, GoesIs
      <3>. HIDE DEF g
      <3>3. conn'.id = conn.id /\ conn'.ufrag = h.ufrag /\ conn'.ice = conn.ice  BY <1>0, <3>1 DEF Conn
      <3>4. \A o \in handling : Live(o)' = Live(o)  BY <3>3 DEF Live
      <3>5. /\ InOrder(offers)'
            /\ (\A i \in DOMAIN offers : conn.ufrag <= offers[i] /\ \A o \in handling : o.ufrag <= offers[i])'
        <4>1. \A o \in handling' : \E k \in handling : o.ufrag = k.ufrag  BY <3>1, <3>2
        <4>. QED  BY <1>0, <3>1, <3>3, <4>1, OrderGrows
      <3>6. \A o \in handling' : Live(o)' /\ o.at = "remote" => conn'.ufrag <= o.ufrag
        <4>1. \A o \in handling : o.ufrag \in Nat  BY <1>0 DEF Call
        <4>2. ASSUME NEW o \in handling, Live(o), o.at = "remote" PROVE h.ufrag <= o.ufrag
          <5>1. o.ufrag >= h.ufrag  BY <2>2, <3>1, <4>2 DEF Live
          <5>. QED  BY <4>1, <5>1
        <4>. QED  BY <3>1, <3>2, <3>3, <3>4, <4>2
      <3>7. conn.ice \in {"connected", "disconnected"} => h.ufrag = sfu.id
        <4>1. conn.ufrag <= h.ufrag  BY <2>2, <3>1 DEF OrderInv, Live
        <4>2. h.ufrag \in Nat /\ h.ufrag <= sfu.id  BY <1>0 DEF Numbered, Ids
        <4>. QED  BY <1>0, <4>1, <4>2 DEF OrderInv
      <3>. QED  BY <3>1, <3>3, <3>5, <3>6, <3>7 DEF OrderInv, WaitFollowsConnection
    <2>. QED  BY <2>1, <2>2
  <1>8. ASSUME NEW h \in handling, AnswerGoes(h) PROVE OrderInv'
    <2>1. CASE conn.id # h.on
      <3>1. UNCHANGED <<conn, sfu, offers, rules>> /\ handling' \subseteq handling
        BY <1>8, <2>1 DEF AnswerGoes, Returns
      <3>. QED  BY <1>1, <3>1
    <2>2. CASE conn.id = h.on
      <3>. DEFINE g == [h EXCEPT !.at = "sent"]
      <3>1. /\ conn' = [conn EXCEPT !.answered = TRUE] /\ SendAnswer(h.ufrag)
            /\ handling' = (handling \ {h}) \union {g} /\ UNCHANGED rules
        BY <1>8, <2>2 DEF AnswerGoes, Goes
      <3>2. g.ufrag = h.ufrag /\ g.at = "sent"  BY <1>0, GoesIs
      <3>. HIDE DEF g
      <3>3. conn'.id = conn.id /\ conn'.ufrag = conn.ufrag /\ conn'.ice = conn.ice  BY <1>0, <3>1 DEF Conn
      <3>4. \A o \in handling : Live(o)' = Live(o)  BY <3>3 DEF Live
      <3>5. sfu'.id = sfu.id /\ offers' \in {offers, Append(offers, sfu.id)}
        <4>1. /\ sfu' \in {sfu, [sfu EXCEPT !.out = FALSE],
                            [sfu EXCEPT !.ok = TRUE, !.out = sfu.more, !.more = FALSE]}
              /\ offers' \in {offers, Append(offers, sfu.id)}
          BY <3>1 DEF SendAnswer, Offered
        <4>. QED  BY <4>1 DEF Shape
      <3>6. /\ InOrder(offers)'
            /\ (\A i \in DOMAIN offers : conn.ufrag <= offers[i] /\ \A o \in handling : o.ufrag <= offers[i])'
        <4>1. \A o \in handling' : \E k \in handling : o.ufrag = k.ufrag  BY <3>1, <3>2
        <4>. QED  BY <1>0, <3>3, <3>5, <4>1, OrderGrows
      <3>7. \A o \in handling' : Live(o)' /\ o.at = "remote" => conn'.ufrag <= o.ufrag
        BY <3>1, <3>2, <3>3, <3>4 DEF OrderInv
      <3>. QED  BY <3>1, <3>3, <3>5, <3>6, <3>7 DEF OrderInv, WaitFollowsConnection
    <2>. QED  BY <2>1, <2>2
  <1>9. ASSUME NEW h \in handling, Answered(h) PROVE OrderInv'
    <2>1. CASE ~h.fresh
      <3>1. UNCHANGED <<conn, sfu, offers, rules>> /\ handling' \subseteq handling
        BY <1>9, <2>1 DEF Answered, Returns
      <3>. QED  BY <1>1, <3>1
    <2>2. CASE h.fresh
      <3>1. Steer("answered", conn) /\ link' = link /\ handling' \subseteq handling
        BY <1>9, <2>2 DEF Answered, Returns
      <3>2. On(rules, "answered").disconnected = "no"  BY <1>0, OnIs DEF Waiting
      <3>. QED  BY <3>1, <3>2, SteerOrder DEF OrderInv
    <2>. QED  BY <2>1, <2>2
  <1>10. CASE Connects \/ Disconnects \/ Fails
    <2>1. CASE Connects
      <3>. DEFINE c == [conn EXCEPT !.ice = "connected"]
      <3>1. conn.ufrag = sfu.id /\ Steer("connected", c) /\ UNCHANGED <<link, handling>>
        BY <2>1 DEF Connects, Meets
      <3>2. c.id = conn.id /\ c.ufrag = conn.ufrag /\ c.ice = "connected"  BY <1>0 DEF Conn
      <3>3. On(rules, "connected").disconnected = "no"  BY <1>0 DEF On, Rules
      <3>. HIDE DEF c
      <3>. QED  BY <3>1, <3>2, <3>3, SteerOrder
    <2>2. CASE Disconnects
      <3>. DEFINE c == [conn EXCEPT !.ice = "disconnected"]
      <3>1. conn.ice = "connected" /\ Steer("disconnected", c) /\ UNCHANGED <<link, handling>>
        BY <2>2 DEF Disconnects
      <3>2. c.id = conn.id /\ c.ufrag = conn.ufrag /\ c.ice = "disconnected"  BY <1>0 DEF Conn
      <3>. HIDE DEF c
      <3>. QED  BY <3>1, <3>2, SteerOrder DEF OrderInv
    <2>3. CASE Fails
      <3>. DEFINE c == [conn EXCEPT !.ice = "failed"]
      <3>1. Steer("failed", c) /\ UNCHANGED <<link, handling>>  BY <2>3 DEF Fails
      <3>2. c.id = conn.id /\ c.ufrag = conn.ufrag /\ c.ice = "failed"  BY <1>0 DEF Conn
      <3>3. On(rules, "failed").disconnected = "no"  BY <1>0 DEF On, Rules
      <3>. HIDE DEF c
      <3>. QED  BY <3>1, <3>2, <3>3, SteerOrder
    <2>. QED  BY <1>10, <2>1, <2>2, <2>3
  <1>11. CASE Resumed
    <2>. DEFINE r == On(rules, "gateway-resumed")
                p == Plan(r)
    <2>1. /\ ~link /\ rules' = p.rules /\ UNCHANGED handling
          /\ IF p.restart
             THEN /\ conn' = NoConn /\ offers' = <<sfu.id + 1>>
                  /\ sfu' = [id |-> sfu.id + 1, out |-> TRUE, ok |-> FALSE, more |-> FALSE]
             ELSE UNCHANGED <<conn, sfu, offers>>
      BY <1>11 DEF Resumed
    <2>2. r \in Rules /\ r.disconnected = rules.disconnected /\ (r.asked = "yes" => r.recent)
      <3>1. r = [rules EXCEPT !.wanted = TRUE]  BY DEF On
      <3>. QED  BY <1>0, <3>1 DEF Rules, Timed
    <2>. HIDE DEF r
    <2>3. /\ p.restart \in BOOLEAN /\ (p.restart => p.rules = Started)
          /\ ~p.restart => p.rules.disconnected = r.disconnected
      BY <2>2, PlanIs
    <2>. HIDE DEF p
    <2>4. CASE p.restart
      <3>1. /\ sfu'.id = sfu.id + 1 /\ offers' = Append(offers, sfu'.id)
            /\ conn'.ufrag = 0 /\ conn'.id = 0 /\ conn'.ice = "new" /\ rules'.disconnected = "no"
        <4>1. sfu'.id = sfu.id + 1 /\ offers = <<>> /\ offers' = <<sfu.id + 1>>  BY <1>0, <2>1, <2>4
        <4>2. offers' = Append(offers, sfu.id + 1)  BY <4>1
        <4>3. rules'.disconnected = "no"  BY <2>1, <2>3, <2>4 DEF Started, Quiet
        <4>. QED  BY <2>1, <2>4, <4>1, <4>2, <4>3 DEF NoConn
      <3>2. \A h \in handling' : ~Live(h)'  BY <1>0, <2>1, <3>1 DEF Live
      <3>3. /\ InOrder(offers)'
            /\ (\A i \in DOMAIN offers : conn.ufrag <= offers[i] /\ \A h \in handling : h.ufrag <= offers[i])'
        BY <1>0, <2>1, <3>1, OrderGrows
      <3>. QED  BY <3>1, <3>2, <3>3 DEF OrderInv, WaitFollowsConnection
    <2>5. CASE ~p.restart  BY <1>1, <2>1, <2>2, <2>3, <2>5
    <2>. QED  BY <2>3, <2>4, <2>5
  <1>. QED
    BY <1>2, <1>3, <1>4, <1>5, <1>6, <1>7, <1>8, <1>9, <1>10, <1>11 DEF Next, Mends, Clock

-----------------------------------------------------------------------------
(* The theorems                                                            *)

\* A call is started afresh at most twice for each thing that went wrong, for any number
\* of them and in whatever order offers, answers, drops and waits come (Restarts,
\* voiceRestarts.ts; offer, pageVoice.ts).
THEOREM RestartsAreFew == Spec => []FewRestarts
  <1>1. PhoneInv => FewRestarts
    <2>. SUFFICES ASSUME PhoneInv PROVE FewRestarts  OBVIOUS
    <2>1. sfu.id \in Nat /\ troubles \in Nat /\ sfu.id + Ahead <= 2 * troubles + 1
      BY DEF PhoneInv, Shape
    <2>2. Ahead \in {0, 1, 2}  BY DEF Ahead
    <2>. QED  BY <2>1, <2>2 DEF FewRestarts
  <1>. QED  BY <1>1, PhoneInvariant, PTL

\* A wait for a connection that went quiet is never carried over to another one (offer,
\* pageVoice.ts; on, voiceRestarts.ts): no offer closes a connection that was up.
THEOREM WaitsAreOwn == Spec => []WaitFollowsConnection
  <1>1. Init => OrderInv
    <2>. SUFFICES ASSUME Init PROVE OrderInv  OBVIOUS
    <2>1. /\ offers = <<1>> /\ conn = NoConn /\ handling = {} /\ rules = Quiet  BY DEF Init
    <2>2. DOMAIN offers = {1} /\ offers[1] = 1  BY <2>1
    <2>. QED  BY <2>1, <2>2 DEF OrderInv, InOrder, NoConn, Quiet, WaitFollowsConnection
  <1>2. OrderInv => WaitFollowsConnection  BY DEF OrderInv
  <1>. QED  BY <1>1, <1>2, PhoneInvariant, OrderStep, PTL DEF Spec

\* The parts of a call keep their types, a timer is set for whatever the rules wait for
\* (plan, steer), and a wait for a connection ends with it.
THEOREM PhoneTypes == Spec => []TypeOK
  <1>1. PhoneInv /\ WaitFollowsConnection => TypeOK
    <2>. SUFFICES ASSUME PhoneInv, WaitFollowsConnection PROVE TypeOK  OBVIOUS
    <2>1. Shape /\ Numbered /\ Timed  BY DEF PhoneInv
    <2>2. Ids \subseteq Numbers
      <3>1. sfu.id \in Nat /\ troubles \in 0..MaxTroubles /\ MaxTroubles \in Nat
            /\ sfu.id + Ahead <= 2 * troubles + 1
        BY PhoneCallAssumption DEF PhoneInv, Shape
      <3>2. Ahead \in {0, 1, 2}  BY DEF Ahead
      <3>3. sfu.id <= 2 * MaxTroubles + 1  BY <3>1, <3>2
      <3>. QED  BY <3>1, <3>3 DEF Ids, Numbers
    <2>3. sfu \in [id : Numbers, out : BOOLEAN, ok : BOOLEAN, more : BOOLEAN]
      <3>1. sfu.id \in Ids  BY <2>1 DEF Ids, Shape
      <3>. QED  BY <2>1, <2>2, <3>1 DEF Shape
    <2>4. offers \in Seq(Numbers)
      <3>1. offers \in Seq(Nat) /\ \A i \in 1..Len(offers) : offers[i] \in Numbers
        BY <2>1, <2>2 DEF Shape, Numbered
      <3>. QED  BY <3>1, ElementOfSeq, LenProperties, SeqDef
    <2>5. conn \in [id : Nat, ufrag : Numbers, answered : BOOLEAN,
                    ice : {"new", "connected", "disconnected", "failed"}]
      BY <2>1, <2>2 DEF Shape, Numbered, Conn
    <2>. QED  BY <2>1, <2>3, <2>4, <2>5 DEF TypeOK, Shape, Timed, Waiting, Rules, Waits
  <1>. QED  BY <1>1, PhoneInvariant, WaitsAreOwn, PTL

=============================================================================
