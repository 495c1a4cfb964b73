--------------------------- MODULE Voice_proofs ---------------------------
(***************************************************************************)
(* What is proved of Voice for any number of sessions, rooms, people,      *)
(* frames and people taken out.  The invariant has four parts: the shape   *)
(* of the maps and of each thread's work (ShapeOK), the numbers of the     *)
(* seats (NumberOK), who has still to tell a room (ToldOK), and what of a  *)
(* session's requests is still on its way, in the order it will be done:   *)
(* its turn's, what is held, what its app asked last (FollowOK, OfferOK).  *)
(***************************************************************************)
EXTENDS Voice, SequenceTheorems, FiniteSetTheorems, TLAPS

Steps == {"rest", "look", "change", "take", "seat", "say", "publish", "clear", "out"}

Jobs == [pc : Steps, want : [room : Rooms \union {NoRoom}, muted : BOOLEAN], churned : BOOLEAN,
         say : Seq(Rooms), after : {"none", "line", "restart"}, num : Nat,
         read : SUBSET [s : Sessions, muted : BOOLEAN], out : SUBSET Sessions]

(* A seat is taken in a room that will be told; a line is about a seat there was. *)
JobOK(j) ==
  /\ j \in Jobs
  /\ j.pc = "seat" => j.want \in Joins /\ \E i \in DOMAIN j.say : j.say[i] = j.want.room
  /\ j.pc = "publish" => j.say # <<>>
  /\ j.pc = "out" => j.want.room \in Rooms
  /\ j.after # "none" => j.want \in Joins
  /\ j.after = "line" => j.num # 0

ShapeOK ==
  /\ TypeOK
  /\ job \in [Threads -> Jobs]
  /\ \A a \in Threads : JobOK(job[a]) /\ (a # Host => job[a].want \in Requests)

(* A turn seats the living, and the end of a session is the end of a dead one. *)
EndsOK == \A s \in Sessions :
  /\ job[Turn(s)] # Rest => s \in alive
  /\ job[End(s)] # Rest => s \notin alive

(* A seat has a number of its own, counted up to, and not given up. *)
NumberOK ==
  /\ givenUp \subseteq 1..seats
  /\ \A s \in Sessions : seat[s] # NoSeat => seat[s].num \in (1..seats) \ givenUp
  /\ \A s, t \in Sessions : (seat[s] # NoSeat /\ seat[s].num = seat[t].num) => s = t

(* A thread that will read the list of r, to tell it. *)
WillTell(j, r) ==
  \E i \in DOMAIN j.say : j.say[i] = r /\ (j.pc \in {"seat", "say"} \/ (j.pc = "publish" /\ i > 1))

ToldOK ==
  /\ outs \in Nat
  /\ outs = 0 => /\ job[Host] = Rest
                 /\ \A r \in unread : \E a \in Threads : WillTell(job[a], r)

(* The room a session will be in once its turn is done, and what is held is. *)
AfterTurn(s) ==
  IF job[Turn(s)].pc \in {"take", "seat"} THEN job[Turn(s)].want.room ELSE seat[s].room
AfterHeld(s) ==
  IF held[s] # NotHeld THEN held[s].wanted.room ELSE AfterTurn(s)

Asked(s) == job[Handler(s)].pc \in {"look", "change", "take", "seat"}
Taking(s) == job[Handler(s)].pc \in {"take", "seat", "say", "publish"}

(* The end of what is on its way is where the app is. *)
FollowOK(s) ==
  /\ Taking(s) => held[s] = NotHeld /\ job[Turn(s)] = Rest
  /\ held[s] # NotHeld => held[s].last = held[s].wanted.room
  /\ job[Turn(s)].pc \in {"say", "publish"} => seat[s].room = job[Turn(s)].want.room
  /\ link[s] = IF Asked(s) THEN job[Handler(s)].want.room ELSE AfterHeld(s)

(* What will make the app a fresh offer: a seat taken, or its offer made again. *)
TurnOffers(s) ==
  \/ /\ job[Turn(s)].pc = "take" /\ job[Turn(s)].want # Leave
     /\ job[Turn(s)].churned \/ seat[s].room # job[Turn(s)].want.room
  \/ job[Turn(s)].pc = "seat"
  \/ job[Turn(s)].pc \in {"say", "publish"} /\ job[Turn(s)].after = "restart"
HeldOffers(s) ==
  /\ held[s] # NotHeld /\ held[s].wanted # Leave
  /\ held[s].churned = "yes" \/ AfterTurn(s) # held[s].wanted.room
AskOffers(s) ==
  \/ job[Handler(s)].pc \in {"look", "change", "take"} /\ job[Handler(s)].want.room # AfterHeld(s)
  \/ job[Handler(s)].pc = "seat"

OfferOK(s) ==
  s \in waiting => link[s] # NoRoom /\ (TurnOffers(s) \/ HeldOffers(s) \/ AskOffers(s))

SessionOK(s) == FollowOK(s) /\ OfferOK(s)

VInv ==
  /\ ShapeOK /\ EndsOK /\ NumberOK /\ ToldOK
  /\ \A s \in alive \ unsure : SessionOK(s)

-----------------------------------------------------------------------------
(* The threads, and their work *)

\* No thread is another's.
LEMMA ThreadsAre ==
  /\ Host \in Threads
  /\ \A s \in Sessions : {Handler(s), Turn(s), End(s)} \subseteq Threads
  /\ \A s \in Sessions : Handler(s) # Host /\ Turn(s) # Host /\ End(s) # Host
  /\ \A s, t \in Sessions : Handler(s) # Turn(t) /\ Handler(s) # End(t) /\ Turn(s) # End(t)
  /\ \A s, t \in Sessions : s # t => Handler(s) # Handler(t) /\ Turn(s) # Turn(t) /\ End(s) # End(t)
  BY DEF Threads, Host, Handler, Turn, End

LEMMA LeaveIs == Leave \notin Joins /\ \A w \in Requests : w # Leave => w \in Joins /\ w.room \in Rooms
  BY VoiceAssumption DEF Leave, Joins, Requests

LEMMA RequestIs ==
  ASSUME NEW w \in Requests
  PROVE  w \in [room : Rooms \union {NoRoom}, muted : BOOLEAN]
  <1>1. Leave \in [room : Rooms \union {NoRoom}, muted : BOOLEAN]  BY DEF Leave
  <1>2. Mutes \subseteq BOOLEAN  BY VoiceAssumption
  <1>3. w \in Joins => w \in [room : Rooms \union {NoRoom}, muted : BOOLEAN]  BY <1>2 DEF Joins
  <1>. QED  BY <1>1, <1>3 DEF Requests

LEMMA RestIs == Rest \in Jobs /\ JobOK(Rest) /\ Rest.pc = "rest" /\ Rest.want = Leave /\ Rest.want \in Requests
  <1>1. <<>> \in Seq(Rooms)  OBVIOUS
  <1>2. Rest \in Jobs  BY <1>1 DEF Rest, Jobs, Leave, Steps
  <1>. QED  BY <1>2 DEF JobOK, Rest, Requests

\* A thread with its work cut out.
LEMMA WorkIs ==
  ASSUME NEW pc \in Steps \ {"seat", "publish", "out"}, NEW w \in [room : Rooms \union {NoRoom}, muted : BOOLEAN]
  PROVE  /\ Work(pc, w) \in Jobs /\ JobOK(Work(pc, w)) /\ Work(pc, w).pc = pc /\ Work(pc, w).want = w
         /\ Work(pc, w).say = <<>> /\ Work(pc, w).after = "none" /\ Work(pc, w).churned = FALSE
  <1>1. Rest \in Jobs /\ Rest.say = <<>> /\ Rest.after = "none" /\ Rest.churned = FALSE
    BY RestIs DEF Rest
  <1>2. /\ Work(pc, w) \in Jobs /\ Work(pc, w).pc = pc /\ Work(pc, w).want = w
        /\ Work(pc, w).say = <<>> /\ Work(pc, w).after = "none" /\ Work(pc, w).churned = FALSE
    BY <1>1 DEF Work, Jobs
  <1>. QED  BY <1>2 DEF JobOK

LEMMA WorkToLeave ==
  ASSUME NEW pc \in Steps \ {"seat", "publish", "out"}
  PROVE  /\ Work(pc, Leave) \in Jobs /\ JobOK(Work(pc, Leave)) /\ Work(pc, Leave).pc = pc
         /\ Work(pc, Leave).want = Leave /\ Work(pc, Leave).after = "none" /\ Leave \in Requests
  <1>1. Leave \in Requests /\ Leave \in [room : Rooms \union {NoRoom}, muted : BOOLEAN]
    BY RequestIs DEF Requests
  <1>2. Rest \in Jobs /\ Rest.after = "none"  BY RestIs DEF Rest
  <1>3. /\ Work(pc, Leave) \in Jobs /\ Work(pc, Leave).pc = pc /\ Work(pc, Leave).want = Leave
        /\ Work(pc, Leave).after = "none"
    BY <1>1, <1>2 DEF Work, Jobs
  <1>. QED  BY <1>1, <1>3 DEF JobOK

\* A session has a room, a number, or none of either.
LEMMA SeatIs ==
  ASSUME TypeOK, NEW s \in Sessions
  PROVE  /\ seat[s].muted \in BOOLEAN /\ seat[s].room \in Rooms \union {NoRoom} /\ seat[s].num \in Nat
         /\ seat[s] = NoSeat <=> seat[s].room = NoRoom
         /\ seat[s] = NoSeat <=> seat[s].num = 0
  <1>1. NoRoom \notin Rooms  BY VoiceAssumption
  <1>2. NoSeat.room = NoRoom /\ NoSeat.num = 0 /\ NoSeat.muted = FALSE  BY DEF NoSeat
  <1>3. seat[s] \in [room : Rooms, num : Nat \ {0}, muted : BOOLEAN] \/ seat[s] = NoSeat
    BY DEF TypeOK
  <1>4. CASE seat[s] = NoSeat
    <2>1. seat[s].room = NoRoom /\ seat[s].num = 0  BY <1>2, <1>4
    <2>2. NoSeat.muted \in BOOLEAN  BY DEF NoSeat
    <2>3. seat[s].muted \in BOOLEAN  BY <1>4, <2>2
    <2>. QED  BY <1>4, <2>1, <2>3
  <1>5. CASE seat[s] \in [room : Rooms, num : Nat \ {0}, muted : BOOLEAN]
    <2>1. seat[s].room \in Rooms /\ seat[s].num \in Nat \ {0} /\ seat[s].muted \in BOOLEAN  BY <1>5
    <2>. QED  BY <2>1, <1>1, <1>2
  <1>. QED  BY <1>3, <1>4, <1>5

\* Who is in a room.
LEMMA PeersAre ==
  ASSUME ShapeOK, NEW r
  PROVE  Peers(r) \in SUBSET [s : Sessions, muted : BOOLEAN]
  <1>1. \A s \in Sessions : seat[s].muted \in BOOLEAN  BY SeatIs DEF ShapeOK
  <1>2. \A s \in Sessions : [s |-> s, muted |-> seat[s].muted] \in [s : Sessions, muted : BOOLEAN]  BY <1>1
  <1>. QED  BY <1>2 DEF Peers

\* One thread's work changes.
LEMMA JobSet ==
  ASSUME job \in [Threads -> Jobs], \A a \in Threads : JobOK(job[a]) /\ (a # Host => job[a].want \in Requests),
         NEW a \in Threads, NEW j, JobOK(j), a # Host => j.want \in Requests, job' = [job EXCEPT ![a] = j]
  PROVE  /\ job' \in [Threads -> Jobs]
         /\ \A b \in Threads : JobOK(job'[b]) /\ (b # Host => job'[b].want \in Requests)
         /\ job'[a] = j /\ \A b \in Threads : b # a => job'[b] = job[b]
  BY DEF JobOK

-----------------------------------------------------------------------------
(* What each step does to the shape, and to the work of its thread *)

OnlyJob(a) == \A b \in Threads : b # a => job'[b] = job[b]

LEMMA ShapeFollows ==
  ASSUME ShapeOK, TypeOK', NEW a \in Threads, NEW j, JobOK(j), a # Host => j.want \in Requests,
         job' = [job EXCEPT ![a] = j]
  PROVE  ShapeOK' /\ OnlyJob(a) /\ job'[a] = j
  <1>1. /\ job' \in [Threads -> Jobs]
        /\ \A b \in Threads : JobOK(job'[b]) /\ (b # Host => job'[b].want \in Requests)
        /\ job'[a] = j /\ \A b \in Threads : b # a => job'[b] = job[b]
    BY JobSet DEF ShapeOK
  <1>. QED  BY <1>1 DEF ShapeOK, OnlyJob, JobOK, Requests, Joins, Jobs, Threads, Host, Handler, Turn, End

\* A thread of a session's.
LEMMA ThreadIs ==
  ASSUME ShapeOK, NEW s \in Sessions, NEW a \in {Handler(s), Turn(s), End(s)}
  PROVE  /\ a \in Threads /\ a # Host /\ job[a] \in Jobs /\ job[a].want \in Requests /\ JobOK(job[a])
         /\ DOMAIN job = Threads
  <1>1. a \in Threads /\ a # Host  BY ThreadsAre
  <1>. QED  BY <1>1 DEF ShapeOK

\* A seat left.
LEMMA LeaveTypes ==
  ASSUME TypeOK, NEW s \in Sessions, VoiceLeave(s)
  PROVE  /\ seat' \in [Sessions -> [room : Rooms, num : Nat \ {0}, muted : BOOLEAN] \union {NoSeat}]
         /\ givenUp' \subseteq Nat \ {0} /\ unread' \subseteq Rooms
         /\ seat'[s] = NoSeat /\ \A t \in Sessions : t # s => seat'[t] = seat[t]
  BY SeatIs DEF VoiceLeave, TypeOK

LEMMA PartDoes ==
  ASSUME ShapeOK, NEW s \in Sessions, NEW a \in {Handler(s), Turn(s), End(s)}, Part(a, s)
  PROVE  /\ ShapeOK' /\ OnlyJob(a)
         /\ job'[a].want = Leave /\ job'[a].after = "none" /\ job'[a].pc \in {"rest", "say"}
         /\ seat[s] # NoSeat => job'[a].pc = "say" /\ job'[a].say = <<seat[s].room>>
         /\ VoiceLeave(s) /\ UNCHANGED <<alive, held, sleeping, seats, stays, told, apps>>
  <1>. DEFINE w == [Work("say", Leave) EXCEPT !.say = PartTells(s)]
  <1>0. a \in Threads /\ a # Host /\ TypeOK  BY ThreadIs DEF ShapeOK
  <1>1. VoiceLeave(s) /\ UNCHANGED <<alive, held, sleeping, seats, stays, told, apps>>
        /\ job' = [job EXCEPT ![a] = Left(w)]
    BY DEF Part
  <1>2. TypeOK'
    BY <1>0, <1>1, LeaveTypes DEF TypeOK, stays, apps
  <1>3. Leave \in Requests /\ Leave \in [room : Rooms \union {NoRoom}, muted : BOOLEAN] /\ "say" \in Steps \ {"seat", "publish", "out"}
    BY RequestIs DEF Requests, Steps
  <1>4. PartTells(s) \in Seq(Rooms)
    <2>1. seat[s] # NoSeat => seat[s].room \in Rooms  BY <1>0, SeatIs
    <2>2. seat[s] # NoSeat => <<seat[s].room>> \in Seq(Rooms)  BY <2>1
    <2>3. <<>> \in Seq(Rooms)  OBVIOUS
    <2>. QED  BY <2>2, <2>3 DEF PartTells
  <1>4a. /\ Work("say", Leave) \in Jobs /\ Work("say", Leave).pc = "say"
         /\ Work("say", Leave).want = Leave /\ Work("say", Leave).after = "none"
    BY ONLY <1>3, WorkToLeave
  <1>5. /\ w \in Jobs /\ w.pc = "say" /\ w.want = Leave /\ w.after = "none" /\ w.say = PartTells(s)
    BY <1>4, <1>4a DEF Jobs
  <1>. HIDE DEF w
  <1>6. JobOK(w)  BY <1>5 DEF JobOK
  <1>7. Left(w) = (IF PartTells(s) = <<>> THEN Rest ELSE w)  BY <1>5 DEF Left
  <1>8. JobOK(Left(w)) /\ Left(w).want = Leave /\ Left(w).want \in Requests
    BY <1>3, <1>5, <1>6, <1>7, RestIs
  <1>9. ShapeOK' /\ OnlyJob(a) /\ job'[a] = Left(w)
    BY <1>0, <1>1, <1>2, <1>8, ShapeFollows
  <1>10. seat[s] # NoSeat => PartTells(s) = <<seat[s].room>> /\ PartTells(s) # <<>>
    BY DEF PartTells
  <1>11. Left(w).after = "none" /\ Left(w).pc \in {"rest", "say"}
    BY <1>5, <1>7, RestIs DEF Rest
  <1>12. seat[s] # NoSeat => Left(w).pc = "say" /\ Left(w).say = <<seat[s].room>>
    BY <1>5, <1>7, <1>10
  <1>. QED  BY <1>1, <1>8, <1>9, <1>11, <1>12

LEMMA JoinAgainDoes ==
  ASSUME ShapeOK, NEW s \in Sessions, NEW a \in {Handler(s), Turn(s), End(s)}, JoinAgain(a, s)
  PROVE  LET w == job[a].want IN
         /\ ShapeOK' /\ OnlyJob(a) /\ job[a].pc = "take" /\ w \in Joins /\ seat[s].room = w.room
         /\ job'[a].pc \in {"rest", "say"} /\ (job'[a].pc = "say" => job'[a].want = w)
         /\ job[a].churned => job'[a].pc = "say" /\ job'[a].after = "restart"
         /\ unread' \subseteq unread \union {w.room}
         /\ unread' # unread => WillTell(job'[a], w.room)
         /\ seat'[s].room = seat[s].room /\ seat'[s].num = seat[s].num
         /\ \A t \in Sessions : t # s => seat'[t] = seat[t]
         /\ UNCHANGED <<alive, held, sleeping, seats, givenUp, stays, told, apps>>
  <1>. DEFINE w == job[a].want
              changed == w.muted # seat[s].muted
              j == [Work("say", w) EXCEPT !.say = IF changed THEN <<w.room>> ELSE <<>>,
                                          !.after = IF job[a].churned THEN "restart" ELSE "none"]
  <1>0. a \in Threads /\ a # Host /\ TypeOK /\ w \in Requests  BY ThreadIs DEF ShapeOK
  <1>1. /\ job[a].pc = "take" /\ w # Leave /\ seat[s].room = w.room
        /\ seat' = [seat EXCEPT ![s].muted = w.muted]
        /\ unread' = IF changed THEN unread \union {w.room} ELSE unread
        /\ job' = [job EXCEPT ![a] = Left(j)]
        /\ UNCHANGED <<alive, held, sleeping, seats, givenUp, stays, told, apps>>
    BY DEF JoinAgain
  <1>2. w \in Joins /\ w.room \in Rooms  BY <1>0, <1>1, LeaveIs
  <1>3. w \in [room : Rooms \union {NoRoom}, muted : BOOLEAN] /\ "say" \in Steps \ {"seat", "publish", "out"}
    BY <1>0, RequestIs DEF Steps
  <1>4. seat[s] \in [room : Rooms, num : Nat \ {0}, muted : BOOLEAN]
    BY <1>0, <1>1, <1>2, VoiceAssumption, SeatIs DEF TypeOK
  <1>5. /\ seat'[s] = [room |-> seat[s].room, num |-> seat[s].num, muted |-> w.muted]
        /\ \A t \in Sessions : t # s => seat'[t] = seat[t]
    BY <1>0, <1>1, <1>4 DEF TypeOK
  <1>6. seat' \in [Sessions -> [room : Rooms, num : Nat \ {0}, muted : BOOLEAN] \union {NoSeat}]
    <2>1. seat'[s] \in [room : Rooms, num : Nat \ {0}, muted : BOOLEAN]  BY <1>3, <1>4, <1>5
    <2>. QED  BY <1>0, <1>1, <1>5, <2>1 DEF TypeOK
  <1>7. unread' \subseteq Rooms  BY <1>0, <1>1, <1>2 DEF TypeOK
  <1>8. TypeOK'  BY <1>0, <1>1, <1>6, <1>7 DEF TypeOK, stays, apps
  <1>. DEFINE say == IF changed THEN <<w.room>> ELSE <<>>
              after == IF job[a].churned THEN "restart" ELSE "none"
  <1>9. say \in Seq(Rooms)
    <2>1. <<w.room>> \in Seq(Rooms) /\ <<>> \in Seq(Rooms)  BY <1>2
    <2>. QED  BY <2>1
  <1>9a. after \in {"none", "restart"} /\ (job[a].churned => after = "restart")  OBVIOUS
  <1>9b. changed => say = <<w.room>> /\ say # <<>>  OBVIOUS
  <1>9c. j = [Work("say", w) EXCEPT !.say = say, !.after = after]  OBVIOUS
  <1>. HIDE DEF say, after, w, changed, j
  <1>10. j \in Jobs /\ j.pc = "say" /\ j.want = w /\ j.say = say /\ j.after = after
    <2>1. Work("say", w) \in Jobs /\ Work("say", w).pc = "say" /\ Work("say", w).want = w
      BY ONLY <1>3, WorkIs
    <2>. QED  BY <1>9, <1>9a, <1>9c, <2>1 DEF Jobs
  <1>11. JobOK(j)  BY <1>2, <1>9a, <1>10 DEF JobOK
  <1>12. Left(j) = (IF say = <<>> /\ after = "none" THEN Rest ELSE j)  BY <1>10 DEF Left
  <1>13. JobOK(Left(j)) /\ Left(j).want \in Requests  BY <1>0, <1>10, <1>11, <1>12, RestIs
  <1>14. ShapeOK' /\ OnlyJob(a) /\ job'[a] = Left(j)
    BY <1>0, <1>1, <1>8, <1>13, ShapeFollows
  <1>15. Left(j).pc \in {"rest", "say"} /\ (Left(j).pc = "say" => Left(j).want = w)
    BY <1>10, <1>12, RestIs
  <1>16. job[a].churned => Left(j) = j  BY <1>9a, <1>12
  <1>17. changed => WillTell(Left(j), w.room)
    <2>1. changed => Left(j) = j /\ j.say = <<w.room>>  BY <1>9b, <1>10, <1>12
    <2>2. 1 \in DOMAIN <<w.room>> /\ <<w.room>>[1] = w.room  OBVIOUS
    <2>. QED  BY <2>1, <2>2, <1>10 DEF WillTell
  <1>18. seat'[s].room = seat[s].room /\ seat'[s].num = seat[s].num  BY <1>5
  <1>. QED  BY <1>1, <1>2, <1>5, <1>9a, <1>10, <1>14, <1>15, <1>16, <1>17, <1>18 DEF w

LEMMA JoinRefusedDoes ==
  ASSUME ShapeOK, NEW s \in Sessions, NEW a \in {Handler(s), Turn(s), End(s)}, JoinRefused(a, s)
  PROVE  /\ ShapeOK' /\ OnlyJob(a) /\ job[a].pc = "take" /\ job'[a] = Rest /\ unsure' = unsure \union {s}
         /\ UNCHANGED <<gateway, givenUp, stays, lists, link, waiting, asks, outs>>
  <1>0. a \in Threads /\ a # Host /\ TypeOK  BY ThreadIs DEF ShapeOK
  <1>1. /\ job[a].pc = "take" /\ job' = [job EXCEPT ![a] = Rest] /\ unsure' = unsure \union {s}
        /\ UNCHANGED <<gateway, givenUp, stays, lists, link, waiting, asks, outs>>
    BY DEF JoinRefused
  <1>2. TypeOK'  BY <1>0, <1>1 DEF TypeOK, gateway, stays, lists
  <1>. QED  BY <1>0, <1>1, <1>2, RestIs, ShapeFollows

LEMMA JoinLeavesDoes ==
  ASSUME ShapeOK, NEW s \in Sessions, NEW a \in {Handler(s), Turn(s), End(s)}, JoinLeaves(a, s)
  PROVE  /\ ShapeOK' /\ OnlyJob(a) /\ job[a].pc = "take"
         /\ job'[a].pc = "seat" /\ job'[a].want = job[a].want
         /\ job[a].want \in Joins /\ seat[s].room # job[a].want.room
         /\ seat[s] # NoSeat => WillTell(job'[a], seat[s].room)
         /\ VoiceLeave(s) /\ UNCHANGED <<alive, held, sleeping, seats, stays, told, apps>>
  <1>. DEFINE w == job[a].want
              say == Tells(s, w.room)
              j == [job[a] EXCEPT !.pc = "seat", !.say = say]
  <1>0. a \in Threads /\ a # Host /\ TypeOK /\ w \in Requests /\ job[a] \in Jobs /\ JobOK(job[a])
    BY ThreadIs DEF ShapeOK
  <1>1. /\ job[a].pc = "take" /\ w # Leave /\ seat[s].room # w.room /\ VoiceLeave(s)
        /\ job' = [job EXCEPT ![a].pc = "seat", ![a].say = say]
        /\ UNCHANGED <<alive, held, sleeping, seats, stays, told, apps>>
    BY DEF JoinLeaves
  <1>2. w \in Joins /\ w.room \in Rooms  BY <1>0, <1>1, LeaveIs
  <1>3. TypeOK'  BY <1>0, <1>1, LeaveTypes DEF TypeOK, stays, apps
  <1>4. say \in Seq(Rooms)
    <2>1. seat[s] # NoSeat => seat[s].room \in Rooms  BY <1>0, SeatIs
    <2>2. seat[s] # NoSeat => <<seat[s].room, w.room>> \in Seq(Rooms)  BY <2>1, <1>2
    <2>3. <<w.room>> \in Seq(Rooms)  BY <1>2
    <2>. QED  BY <2>2, <2>3 DEF Tells
  <1>5. /\ \E i \in DOMAIN say : say[i] = w.room
        /\ seat[s] # NoSeat => \E i \in DOMAIN say : say[i] = seat[s].room
    <2>1. CASE seat[s] = NoSeat
      <3>1. say = <<w.room>> /\ 1 \in DOMAIN <<w.room>> /\ <<w.room>>[1] = w.room  BY <2>1 DEF Tells
      <3>. QED  BY <2>1, <3>1
    <2>2. CASE seat[s] # NoSeat
      <3>. DEFINE q == <<seat[s].room, w.room>>
      <3>1. say = q  BY <2>2 DEF Tells
      <3>2. 1 \in DOMAIN q /\ q[1] = seat[s].room /\ 2 \in DOMAIN q /\ q[2] = w.room  OBVIOUS
      <3>. HIDE DEF say, q
      <3>. QED  BY <3>1, <3>2
    <2>. QED  BY <2>1, <2>2
  <1>6. job' = [job EXCEPT ![a] = j]  BY <1>0, <1>1 DEF ShapeOK, Jobs
  <1>. HIDE DEF say
  <1>7. j \in Jobs /\ j.pc = "seat" /\ j.want = w /\ j.say = say /\ j.after = job[a].after /\ j.num = job[a].num
    BY <1>0, <1>4 DEF Jobs, Steps
  <1>. HIDE DEF j
  <1>8. JobOK(j)
    <2>1. (j.after # "none" => j.want \in Joins) /\ (j.after = "line" => j.num # 0)
      BY <1>0, <1>7 DEF JobOK
    <2>2. j.want \in Joins /\ \E i \in DOMAIN j.say : j.say[i] = j.want.room  BY <1>2, <1>5, <1>7
    <2>. QED  BY <1>7, <2>1, <2>2 DEF JobOK
  <1>9. ShapeOK' /\ OnlyJob(a) /\ job'[a] = j
    BY <1>0, <1>3, <1>6, <1>7, <1>8, ShapeFollows
  <1>10. seat[s] # NoSeat => WillTell(j, seat[s].room)  BY <1>5, <1>7 DEF WillTell
  <1>. QED  BY <1>1, <1>2, <1>7, <1>9, <1>10

LEMMA TakeSeatDoes ==
  ASSUME ShapeOK, NEW s \in Sessions, NEW a \in {Handler(s), Turn(s), End(s)}, TakeSeat(a, s)
  PROVE  /\ ShapeOK' /\ OnlyJob(a) /\ job[a].pc = "seat" /\ job[a].want \in Joins
         /\ job'[a].pc = "say" /\ job'[a].want = job[a].want /\ job'[a].after = "line"
         /\ job'[a].say = job[a].say
         /\ seats' = seats + 1 /\ seat'[s].num = seats + 1 /\ seat'[s].room = job[a].want.room
         /\ seat'[s] # NoSeat /\ \A t \in Sessions : t # s => seat'[t] = seat[t]
         /\ unread' = unread \union {job[a].want.room} /\ WillTell(job'[a], job[a].want.room)
         /\ waiting' = waiting \ {s}
         /\ UNCHANGED <<alive, held, sleeping, givenUp, stays, told, link, unsure, asks, outs>>
  <1>. DEFINE w == job[a].want
              j == [job[a] EXCEPT !.pc = "say", !.after = "line", !.num = seats + 1]
  <1>0. a \in Threads /\ a # Host /\ TypeOK /\ w \in Requests /\ job[a] \in Jobs /\ JobOK(job[a])
    BY ThreadIs DEF ShapeOK
  <1>1. /\ job[a].pc = "seat" /\ seats' = seats + 1
        /\ seat' = [seat EXCEPT ![s] = [room |-> w.room, num |-> seats + 1, muted |-> w.muted]]
        /\ unread' = unread \union {w.room}
        /\ job' = [job EXCEPT ![a].pc = "say", ![a].after = "line", ![a].num = seats + 1]
        /\ waiting' = waiting \ {s}
        /\ UNCHANGED <<alive, held, sleeping, givenUp, stays, told, link, unsure, asks, outs>>
    BY DEF TakeSeat, SeatNumber
  <1>2. w \in Joins /\ w.room \in Rooms /\ w.muted \in BOOLEAN
    <2>1. w \in Joins  BY <1>0, <1>1 DEF JobOK
    <2>. QED  BY <2>1, VoiceAssumption DEF Joins
  <1>3. seats + 1 \in Nat \ {0}  BY <1>0 DEF TypeOK
  <1>4. /\ seat'[s] = [room |-> w.room, num |-> seats + 1, muted |-> w.muted]
        /\ \A t \in Sessions : t # s => seat'[t] = seat[t]
    BY <1>0, <1>1 DEF TypeOK
  <1>5. [room |-> w.room, num |-> seats + 1, muted |-> w.muted] \in [room : Rooms, num : Nat \ {0}, muted : BOOLEAN]
    BY <1>2, <1>3
  <1>6. TypeOK'
    <2>1. seat' \in [Sessions -> [room : Rooms, num : Nat \ {0}, muted : BOOLEAN] \union {NoSeat}]
      BY <1>0, <1>1, <1>5 DEF TypeOK
    <2>. QED  BY <1>0, <1>1, <1>2, <1>3, <2>1 DEF TypeOK, stays
  <1>7. job' = [job EXCEPT ![a] = j]  BY <1>0, <1>1 DEF ShapeOK, Jobs
  <1>8. /\ j \in Jobs /\ j.pc = "say" /\ j.want = w /\ j.say = job[a].say /\ j.after = "line"
        /\ j.num = seats + 1
    BY <1>0, <1>3 DEF Jobs, Steps
  <1>. HIDE DEF j
  <1>9. JobOK(j)  BY <1>2, <1>3, <1>8 DEF JobOK
  <1>10. ShapeOK' /\ OnlyJob(a) /\ job'[a] = j
    BY <1>0, <1>6, <1>7, <1>8, <1>9, ShapeFollows
  <1>11. WillTell(j, w.room)  BY <1>0, <1>1, <1>8 DEF WillTell, JobOK
  <1>12. seat'[s] # NoSeat
    <2>1. seat'[s].num # 0 /\ NoSeat.num = 0  BY <1>3, <1>4 DEF NoSeat
    <2>. QED  BY <2>1
  <1>13. seat'[s].num = seats + 1 /\ seat'[s].room = w.room  BY <1>4
  <1>. HIDE DEF w
  <1>14. /\ ShapeOK' /\ OnlyJob(a) /\ job[a].pc = "seat" /\ w \in Joins
         /\ job'[a].pc = "say" /\ job'[a].want = w /\ job'[a].after = "line"
         /\ job'[a].say = job[a].say
         /\ seats' = seats + 1 /\ seat'[s].num = seats + 1 /\ seat'[s].room = w.room
         /\ seat'[s] # NoSeat /\ \A t \in Sessions : t # s => seat'[t] = seat[t]
         /\ unread' = unread \union {w.room} /\ WillTell(job'[a], w.room)
    BY <1>1, <1>2, <1>4, <1>8, <1>10, <1>11, <1>12, <1>13
  <1>. QED  BY <1>1, <1>14 DEF w

LEMMA ReadPeersDoes ==
  ASSUME ShapeOK, NEW a \in Threads, ReadPeers(a)
  PROVE  /\ ShapeOK' /\ OnlyJob(a) /\ job[a].pc = "say" /\ job[a].say # <<>>
         /\ job'[a].pc = "publish" /\ job'[a].want = job[a].want /\ job'[a].after = job[a].after
         /\ job'[a].say = job[a].say
         /\ unread' = unread \ {Head(job[a].say)}
         /\ UNCHANGED <<gateway, givenUp, stays, told, apps>>
  <1>. DEFINE read == Peers(Head(job[a].say))
              j == [job[a] EXCEPT !.pc = "publish", !.read = read]
  <1>0. TypeOK /\ job[a] \in Jobs /\ JobOK(job[a]) /\ (a # Host => job[a].want \in Requests)
    BY DEF ShapeOK
  <1>1. /\ job[a].pc = "say" /\ job[a].say # <<>>
        /\ job' = [job EXCEPT ![a].pc = "publish", ![a].read = read]
        /\ unread' = unread \ {Head(job[a].say)}
        /\ UNCHANGED <<gateway, givenUp, stays, told, apps>>
    BY DEF ReadPeers
  <1>2. read \in SUBSET [s : Sessions, muted : BOOLEAN]  BY PeersAre
  <1>3. TypeOK'  BY <1>0, <1>1 DEF TypeOK, gateway, stays, apps
  <1>4. job' = [job EXCEPT ![a] = j]  BY <1>0, <1>1 DEF ShapeOK, Jobs
  <1>. HIDE DEF read
  <1>5. /\ j \in Jobs /\ j.pc = "publish" /\ j.want = job[a].want /\ j.say = job[a].say
        /\ j.after = job[a].after /\ j.num = job[a].num
    BY <1>0, <1>2 DEF Jobs, Steps
  <1>. HIDE DEF j
  <1>6. JobOK(j)  BY <1>0, <1>1, <1>5 DEF JobOK
  <1>7. ShapeOK' /\ OnlyJob(a) /\ job'[a] = j
    BY <1>0, <1>3, <1>4, <1>5, <1>6, ShapeFollows
  <1>. QED  BY <1>1, <1>5, <1>7

LEMMA PublishDoes ==
  ASSUME ShapeOK, NEW a \in Threads, Publish(a)
  PROVE  /\ ShapeOK' /\ OnlyJob(a) /\ job[a].pc = "publish"
         /\ \/ job'[a] = Rest /\ Tail(job[a].say) = <<>> /\ job[a].after = "none"
            \/ /\ job'[a].pc = "say" /\ job'[a].want = job[a].want /\ job'[a].after = job[a].after
               /\ job'[a].say = Tail(job[a].say)
         /\ UNCHANGED <<gateway, givenUp, stays, unread, apps>>
  <1>. DEFINE j == [job[a] EXCEPT !.pc = "say", !.say = Tail(job[a].say), !.read = {}]
  <1>0. TypeOK /\ job[a] \in Jobs /\ JobOK(job[a]) /\ (a # Host => job[a].want \in Requests)
    BY DEF ShapeOK
  <1>1. /\ job[a].pc = "publish" /\ job' = [job EXCEPT ![a] = Left(j)]
        /\ UNCHANGED <<gateway, givenUp, stays, unread, apps>>
    BY DEF Publish
  <1>2. TypeOK'  BY <1>0, <1>1 DEF TypeOK, gateway, stays, apps
  <1>3. Tail(job[a].say) \in Seq(Rooms)
    <2>1. job[a].say \in Seq(Rooms) /\ job[a].say # <<>>  BY <1>0, <1>1 DEF JobOK, Jobs
    <2>. QED  BY <2>1
  <1>4. /\ j \in Jobs /\ j.pc = "say" /\ j.want = job[a].want /\ j.say = Tail(job[a].say)
        /\ j.after = job[a].after /\ j.num = job[a].num
    BY <1>0, <1>3 DEF Jobs, Steps
  <1>. HIDE DEF j
  <1>5. JobOK(j)  BY <1>0, <1>4 DEF JobOK
  <1>6. Left(j) = (IF j.say = <<>> /\ j.after = "none" THEN Rest ELSE j)  BY DEF Left
  <1>7. JobOK(Left(j)) /\ (a # Host => Left(j).want \in Requests)
    BY <1>0, <1>4, <1>5, <1>6, RestIs
  <1>8. ShapeOK' /\ OnlyJob(a) /\ job'[a] = Left(j)
    BY <1>0, <1>1, <1>2, <1>7, ShapeFollows
  <1>. QED  BY <1>1, <1>4, <1>6, <1>8

LEMMA FinishDoes ==
  ASSUME ShapeOK, NEW s \in Sessions, NEW a \in {Handler(s), Turn(s), End(s)}, Finish(a, s)
  PROVE  /\ ShapeOK' /\ OnlyJob(a) /\ job[a].pc = "say" /\ job[a].say = <<>> /\ job'[a] = Rest
         /\ waiting' \subseteq waiting
         /\ job[a].after = "restart" /\ seat[s] # NoSeat => waiting' = waiting \ {s}
         /\ UNCHANGED <<gateway, givenUp, lines, lists, link, unsure, asks, outs>>
  <1>0. a \in Threads /\ a # Host /\ TypeOK /\ job[a] \in Jobs /\ JobOK(job[a])
    BY ThreadIs DEF ShapeOK
  <1>1. /\ job[a].pc = "say" /\ job[a].say = <<>> /\ job' = [job EXCEPT ![a] = Rest]
        /\ staying' = IF job[a].after = "line"
                      THEN staying \union {[s |-> s, room |-> job[a].want.room, num |-> job[a].num]}
                      ELSE staying
        /\ waiting' = IF job[a].after = "restart" /\ seat[s] # NoSeat THEN waiting \ {s} ELSE waiting
        /\ UNCHANGED <<gateway, givenUp, lines, lists, link, unsure, asks, outs>>
    BY DEF Finish
  <1>2. staying' \subseteq [s : Sessions, room : Rooms, num : Nat \ {0}]
    <2>1. CASE job[a].after = "line"
      <3>1. job[a].want.room \in Rooms /\ job[a].num \in Nat \ {0}
        BY <1>0, <2>1 DEF JobOK, Joins, Jobs
      <3>. QED  BY <1>0, <1>1, <2>1, <3>1 DEF TypeOK
    <2>2. CASE job[a].after # "line"  BY <1>0, <1>1, <2>2 DEF TypeOK
    <2>. QED  BY <2>1, <2>2
  <1>3. waiting' \subseteq waiting  BY <1>1
  <1>4. TypeOK'  BY <1>0, <1>1, <1>2, <1>3 DEF TypeOK, gateway, lists
  <1>. QED  BY <1>0, <1>1, <1>3, <1>4, RestIs, ShapeFollows

LEMMA AskDoes ==
  ASSUME ShapeOK, NEW s \in Sessions, NEW w \in Joins \union {Leave}, Ask(s, w)
  PROVE  /\ ShapeOK' /\ OnlyJob(Handler(s)) /\ job[Handler(s)] = Rest /\ s \in alive
         /\ job'[Handler(s)].pc \in {"look", "change"} /\ job'[Handler(s)].want = w
         /\ link'[s] = w.room /\ \A t \in Sessions : t # s => link'[t] = link[t]
         /\ waiting' = IF w = Leave THEN waiting \ {s}
                       ELSE IF link[s] # w.room THEN waiting \union {s} ELSE waiting
         /\ UNCHANGED <<gateway, givenUp, stays, lists, unsure, outs>>
  <1>. DEFINE pc == IF w = Leave THEN "change" ELSE "look"
  <1>0. Handler(s) \in Threads /\ Handler(s) # Host /\ TypeOK  BY ThreadsAre DEF ShapeOK
  <1>1. /\ s \in alive /\ job[Handler(s)] = Rest /\ asks' = asks + 1
        /\ job' = [job EXCEPT ![Handler(s)] = Work(pc, w)]
        /\ link' = [link EXCEPT ![s] = w.room]
        /\ waiting' = IF w = Leave THEN waiting \ {s}
                      ELSE IF link[s] # w.room THEN waiting \union {s} ELSE waiting
        /\ UNCHANGED <<gateway, givenUp, stays, lists, unsure, outs>>
    BY DEF Ask
  <1>2. pc \in Steps \ {"seat", "publish", "out"} /\ pc \in {"look", "change"}  BY DEF Steps
  <1>. HIDE DEF pc
  <1>3. w \in Requests  BY DEF Requests
  <1>4. w \in [room : Rooms \union {NoRoom}, muted : BOOLEAN]  BY <1>3, RequestIs
  <1>5. JobOK(Work(pc, w)) /\ Work(pc, w).pc = pc /\ Work(pc, w).want = w
    BY ONLY <1>2, <1>4, WorkIs
  <1>6. w.room \in Rooms \union {NoRoom}  BY <1>4
  <1>7. link' \in [Sessions -> Rooms \union {NoRoom}] /\ waiting' \subseteq Sessions
    BY <1>0, <1>1, <1>6 DEF TypeOK
  <1>8. TypeOK'  BY <1>0, <1>1, <1>7 DEF TypeOK, gateway, stays, lists
  <1>9. ShapeOK' /\ OnlyJob(Handler(s)) /\ job'[Handler(s)] = Work(pc, w)
    BY <1>0, <1>1, <1>3, <1>5, <1>8, ShapeFollows
  <1>10. link'[s] = w.room /\ \A t \in Sessions : t # s => link'[t] = link[t]
    BY <1>0, <1>1 DEF TypeOK
  <1>. QED  BY <1>1, <1>2, <1>5, <1>9, <1>10

LEMMA LookedUpDoes ==
  ASSUME ShapeOK, NEW s \in Sessions, LookedUp(s)
  PROVE  /\ ShapeOK' /\ OnlyJob(Handler(s)) /\ job[Handler(s)].pc = "look"
         /\ \/ /\ job'[Handler(s)].pc = "change" /\ job'[Handler(s)].want = job[Handler(s)].want
               /\ unsure' = unsure
            \/ job'[Handler(s)] = Rest /\ unsure' = unsure \union {s}
         /\ UNCHANGED <<gateway, givenUp, stays, lists, link, waiting, asks, outs>>
  <1>. DEFINE h == Handler(s)
              j == [job[h] EXCEPT !.pc = "change"]
  <1>0. h \in Threads /\ h # Host /\ TypeOK /\ job[h] \in Jobs /\ JobOK(job[h]) /\ job[h].want \in Requests
    BY ThreadsAre DEF ShapeOK
  <1>1. /\ job[h].pc = "look"
        /\ UNCHANGED <<gateway, givenUp, stays, lists, link, waiting, asks, outs>>
        /\ \/ job' = [job EXCEPT ![h].pc = "change"] /\ unsure' = unsure
           \/ job' = [job EXCEPT ![h] = Rest] /\ unsure' = unsure \union {s}
    BY DEF LookedUp
  <1>2. unsure' \subseteq Sessions  BY <1>0, <1>1 DEF TypeOK
  <1>3. TypeOK'  BY <1>0, <1>1, <1>2 DEF TypeOK, gateway, stays, lists
  <1>4. /\ j \in Jobs /\ j.pc = "change" /\ j.want = job[h].want /\ j.after = job[h].after /\ j.num = job[h].num
    BY <1>0 DEF Jobs, Steps
  <1>5. job' = [job EXCEPT ![h].pc = "change"] => job' = [job EXCEPT ![h] = j]  OBVIOUS
  <1>. HIDE DEF j, h
  <1>6. JobOK(j)  BY <1>0, <1>4 DEF JobOK
  <1>7. CASE job' = [job EXCEPT ![h].pc = "change"] /\ unsure' = unsure
    <2>1. ShapeOK' /\ OnlyJob(h) /\ job'[h] = j
      BY <1>0, <1>3, <1>4, <1>5, <1>6, <1>7, ShapeFollows
    <2>. QED  BY <1>1, <1>4, <1>7, <2>1 DEF h
  <1>8. CASE job' = [job EXCEPT ![h] = Rest] /\ unsure' = unsure \union {s}
    <2>1. ShapeOK' /\ OnlyJob(h) /\ job'[h] = Rest
      BY <1>0, <1>3, <1>8, RestIs, ShapeFollows
    <2>. QED  BY <1>1, <1>8, <2>1 DEF h
  <1>. QED  BY <1>1, <1>7, <1>8

\* What is held of a session.
LEMMA HeldIs ==
  ASSUME TypeOK, NEW s \in Sessions
  PROVE  /\ held[s].last \in Rooms \union {NoRoom} /\ held[s].wanted \in Requests
         /\ held[s] # NotHeld =>
              held[s] \in [wanted : Requests, last : Rooms \union {NoRoom}, churned : {"yes", "no"}]
         /\ \A w \in Requests, h \in {held[s], [NotHeld EXCEPT !.last = seat[s].room]} :
              /\ Newest(h, w) \in [wanted : Requests, last : Rooms \union {NoRoom}, churned : {"yes", "no"}]
              /\ Newest(h, w) # NotHeld /\ Newest(h, w).wanted = w /\ Newest(h, w).last = w.room
              /\ Newest(h, w).churned = "yes" <=> w = Leave \/ w.room # h.last \/ h.churned = "yes"
  <1>1. NotHeld.wanted = Leave /\ NotHeld.last = NoRoom /\ NotHeld.churned = "not held"  BY DEF NotHeld
  <1>2. Leave \in Requests  BY DEF Requests
  <1>3. held[s] = NotHeld \/ held[s] \in [wanted : Requests, last : Rooms \union {NoRoom}, churned : {"yes", "no"}]
    BY DEF TypeOK
  <1>4. ASSUME NEW w \in Requests, NEW h
        PROVE  /\ Newest(h, w) \in [wanted : Requests, last : Rooms \union {NoRoom}, churned : {"yes", "no"}]
               /\ Newest(h, w) # NotHeld /\ Newest(h, w).wanted = w /\ Newest(h, w).last = w.room
               /\ Newest(h, w).churned = "yes" <=> w = Leave \/ w.room # h.last \/ h.churned = "yes"
    <2>1. w.room \in Rooms \union {NoRoom}  BY RequestIs
    <2>2. Newest(h, w).churned # "not held"  BY DEF Newest
    <2>3. Newest(h, w) # NotHeld  BY <1>1, <2>2
    <2>. QED  BY <2>1, <2>3 DEF Newest
  <1>5. held[s].last \in Rooms \union {NoRoom} /\ held[s].wanted \in Requests
    BY <1>1, <1>2, <1>3
  <1>. QED  BY <1>3, <1>4, <1>5

LEMMA ChangeVoiceDoes ==
  ASSUME ShapeOK, NEW s \in Sessions, ChangeVoice(s)
  PROVE  LET h == Handler(s)  w == job[Handler(s)].want  first == [NotHeld EXCEPT !.last = seat[s].room] IN
         /\ ShapeOK' /\ OnlyJob(h) /\ job[h].pc = "change"
         /\ \/ held[s] # NotHeld /\ held'[s] = Newest(held[s], w) /\ job'[h] = Rest
            \/ held[s] = NotHeld /\ held'[s] = Newest(first, w) /\ job'[h] = Rest
            \/ /\ held[s] = NotHeld /\ job[Turn(s)] = Rest /\ held'[s] = held[s]
               /\ job'[h].pc = "take" /\ job'[h].want = w
         /\ \A t \in Sessions : t # s => held'[t] = held[t]
         /\ UNCHANGED <<alive, seat, seats, givenUp, stays, lists, apps>>
  <1>. DEFINE h == Handler(s)
              w == job[h].want
              first == [NotHeld EXCEPT !.last = seat[s].room]
              j == [job[h] EXCEPT !.pc = "take"]
  <1>0. h \in Threads /\ h # Host /\ TypeOK /\ job[h] \in Jobs /\ JobOK(job[h]) /\ w \in Requests
    BY ThreadsAre DEF ShapeOK
  <1>1. /\ job[h].pc = "change"
        /\ UNCHANGED <<alive, seat, seats, givenUp, stays, lists, apps>>
        /\ \/ /\ held[s] # NotHeld /\ held' = [held EXCEPT ![s] = Newest(held[s], w)]
              /\ job' = [job EXCEPT ![h] = Rest] /\ UNCHANGED sleeping
           \/ /\ held[s] = NotHeld /\ held' = [held EXCEPT ![s] = Newest(first, w)]
              /\ sleeping' = [sleeping EXCEPT ![s] = @ + 1]
              /\ job' = [job EXCEPT ![h] = Rest]
           \/ /\ held[s] = NotHeld /\ job[Turn(s)] = Rest
              /\ job' = [job EXCEPT ![h].pc = "take"] /\ UNCHANGED <<held, sleeping>>
    BY DEF ChangeVoice, MayGrant
  <1>. DEFINE Held == [wanted : Requests, last : Rooms \union {NoRoom}, churned : {"yes", "no"}]
  <1>2. Newest(held[s], w) \in Held /\ Newest(first, w) \in Held  BY <1>0, HeldIs
  <1>3. /\ job'[h] = Rest /\ job' = [job EXCEPT ![h] = Rest] => ShapeOK'
        /\ held' \in [Sessions -> Held \union {NotHeld}]
    <2>1. held' \in [Sessions -> Held \union {NotHeld}]  BY <1>0, <1>1, <1>2 DEF TypeOK
    <2>2. sleeping' \in [Sessions -> Nat]  BY <1>0, <1>1 DEF TypeOK
    <2>3. TypeOK'  BY <1>0, <1>1, <2>1, <2>2 DEF TypeOK, stays, lists, apps
    <2>. QED  BY <1>0, <2>1, <2>3, RestIs, ShapeFollows
  <1>4. sleeping' \in [Sessions -> Nat]  BY <1>0, <1>1 DEF TypeOK
  <1>5. TypeOK'  BY <1>0, <1>1, <1>3, <1>4 DEF TypeOK, stays, lists, apps
  <1>6. /\ j \in Jobs /\ j.pc = "take" /\ j.want = w /\ j.after = job[h].after /\ j.num = job[h].num
    BY <1>0 DEF Jobs, Steps
  <1>7. job' = [job EXCEPT ![h].pc = "take"] => job' = [job EXCEPT ![h] = j]  OBVIOUS
  <1>8. JobOK(j)  BY <1>0, <1>1, <1>6 DEF JobOK
  <1>9. \A t \in Sessions : t # s => held'[t] = held[t]  BY <1>0, <1>1 DEF TypeOK
  <1>. HIDE DEF j, h, first, w
  <1>10. CASE job' = [job EXCEPT ![h] = Rest]
    <2>1. ShapeOK' /\ OnlyJob(h) /\ job'[h] = Rest  BY <1>0, <1>5, <1>10, RestIs, ShapeFollows
    <2>2. \/ held[s] # NotHeld /\ held'[s] = Newest(held[s], w)
          \/ held[s] = NotHeld /\ held'[s] = Newest(first, w)
          \/ held[s] = NotHeld /\ job' = [job EXCEPT ![h].pc = "take"]
      BY <1>0, <1>1 DEF TypeOK
    <2>3. Rest.pc = "rest" /\ (job' = [job EXCEPT ![h].pc = "take"] => job'[h].pc = "take")
      BY <1>0, <1>6, <1>7, RestIs DEF ShapeOK
    <2>. QED  BY <1>1, <1>9, <2>1, <2>2, <2>3 DEF h, first, w
  <1>11. CASE job' = [job EXCEPT ![h].pc = "take"] /\ held[s] = NotHeld /\ job[Turn(s)] = Rest /\ held' = held
    <2>1. ShapeOK' /\ OnlyJob(h) /\ job'[h] = j  BY <1>0, <1>5, <1>6, <1>7, <1>8, <1>11, ShapeFollows
    <2>. QED  BY <1>1, <1>6, <1>9, <1>11, <2>1 DEF h, first, w
  <1>. QED  BY <1>1, <1>10, <1>11

LEMMA TurnComesDoes ==
  ASSUME ShapeOK, NEW s \in Sessions, TurnComes(s)
  PROVE  /\ ShapeOK' /\ OnlyJob(Turn(s)) /\ job[Turn(s)] = Rest
         /\ held'[s] = NotHeld /\ \A t \in Sessions : t # s => held'[t] = held[t]
         /\ \/ ~(s \in alive /\ held[s] # NotHeld) /\ job' = job
            \/ /\ s \in alive /\ held[s] # NotHeld
               /\ job'[Turn(s)].pc = "take" /\ job'[Turn(s)].want = held[s].wanted
               /\ job'[Turn(s)].churned = (held[s].churned = "yes")
         /\ UNCHANGED <<alive, seat, seats, givenUp, stays, lists, apps>>
  <1>. DEFINE b == Turn(s)
              w == held[s].wanted
              churned == held[s].churned = "yes"
              j == [Work("take", w) EXCEPT !.churned = churned]
  <1>0. b \in Threads /\ b # Host /\ TypeOK /\ w \in Requests  BY ThreadsAre, HeldIs DEF ShapeOK
  <1>1. /\ job[b] = Rest /\ held' = [held EXCEPT ![s] = NotHeld] /\ sleeping[s] > 0
        /\ sleeping' = [sleeping EXCEPT ![s] = @ - 1]
        /\ job' = IF s \in alive /\ held[s] # NotHeld THEN [job EXCEPT ![b] = j] ELSE job
        /\ UNCHANGED <<alive, seat, seats, givenUp, stays, lists, apps>>
    BY DEF TurnComes, HeldAfterTurn
  <1>2. sleeping' \in [Sessions -> Nat]
    <2>1. sleeping[s] - 1 \in Nat  BY <1>0, <1>1 DEF TypeOK
    <2>. QED  BY <1>0, <1>1, <2>1 DEF TypeOK
  <1>3. TypeOK'  BY <1>0, <1>1, <1>2 DEF TypeOK, stays, lists, apps
  <1>4. held'[s] = NotHeld /\ \A t \in Sessions : t # s => held'[t] = held[t]
    BY <1>0, <1>1 DEF TypeOK
  <1>5. w \in [room : Rooms \union {NoRoom}, muted : BOOLEAN] /\ "take" \in Steps \ {"seat", "publish", "out"}
    BY <1>0, RequestIs DEF Steps
  <1>6. churned \in BOOLEAN  OBVIOUS
  <1>. HIDE DEF w, churned
  <1>6a. Rest \in Jobs /\ Rest.after = "none"  BY RestIs DEF Rest
  <1>7. /\ Work("take", w) \in Jobs /\ Work("take", w).pc = "take" /\ Work("take", w).want = w
        /\ Work("take", w).after = "none"
    BY ONLY <1>5, <1>6a DEF Work, Jobs
  <1>8. j \in Jobs /\ j.pc = "take" /\ j.want = w /\ j.after = "none" /\ j.churned = churned
    BY <1>6, <1>7 DEF Jobs
  <1>. HIDE DEF j
  <1>9. JobOK(j)  BY <1>8 DEF JobOK
  <1>10. CASE s \in alive /\ held[s] # NotHeld
    <2>1. ShapeOK' /\ OnlyJob(b) /\ job'[b] = j  BY <1>0, <1>1, <1>3, <1>8, <1>9, <1>10, ShapeFollows
    <2>. QED  BY <1>1, <1>4, <1>8, <1>10, <2>1 DEF w, churned
  <1>11. CASE ~(s \in alive /\ held[s] # NotHeld)
    <2>1. job' = job  BY <1>1, <1>11
    <2>2. ShapeOK'  BY <1>3, <2>1 DEF ShapeOK, JobOK, Jobs, Requests, Joins, Threads, Host
    <2>. QED  BY <1>1, <1>4, <1>11, <2>1, <2>2 DEF OnlyJob
  <1>. QED  BY <1>10, <1>11

LEMMA GoodbyeDoes ==
  ASSUME ShapeOK, NEW s \in Sessions, Goodbye(s)
  PROVE  /\ ShapeOK' /\ OnlyJob(Handler(s)) /\ job[Handler(s)] = Rest
         /\ job'[Handler(s)].pc = "take" /\ job'[Handler(s)].want = Leave
         /\ held'[s] = NotHeld /\ \A t \in Sessions : t # s => held'[t] = held[t]
         /\ link'[s] = NoRoom /\ \A t \in Sessions : t # s => link'[t] = link[t]
         /\ waiting' = waiting \ {s} /\ unsure \subseteq unsure'
         /\ s \notin unsure' => job[Turn(s)] = Rest
         /\ UNCHANGED <<alive, seat, sleeping, seats, givenUp, stays, lists, asks, outs>>
  <1>. DEFINE h == Handler(s)
  <1>0. h \in Threads /\ h # Host /\ TypeOK  BY ThreadsAre DEF ShapeOK
  <1>1. /\ job[h] = Rest /\ held' = [held EXCEPT ![s] = NotHeld]
        /\ job' = [job EXCEPT ![h] = Work("take", Leave)]
        /\ link' = [link EXCEPT ![s] = NoRoom] /\ waiting' = waiting \ {s}
        /\ unsure' = IF job[Turn(s)] = Rest THEN unsure ELSE unsure \union {s}
        /\ UNCHANGED <<alive, seat, sleeping, seats, givenUp, stays, lists, asks, outs>>
    BY DEF Goodbye
  <1>2. TypeOK'  BY <1>0, <1>1 DEF TypeOK, stays, lists
  <1>3. "take" \in Steps \ {"seat", "publish", "out"}  BY DEF Steps
  <1>4. /\ JobOK(Work("take", Leave)) /\ Work("take", Leave).pc = "take" /\ Work("take", Leave).want = Leave
        /\ Leave \in Requests
    BY ONLY <1>3, WorkToLeave
  <1>5. ShapeOK' /\ OnlyJob(h) /\ job'[h] = Work("take", Leave)
    BY <1>0, <1>1, <1>2, <1>4, ShapeFollows
  <1>6. /\ held'[s] = NotHeld /\ \A t \in Sessions : t # s => held'[t] = held[t]
        /\ link'[s] = NoRoom /\ \A t \in Sessions : t # s => link'[t] = link[t]
    BY <1>0, <1>1 DEF TypeOK
  <1>. QED  BY <1>1, <1>4, <1>5, <1>6

LEMMA SessionEndsDoes ==
  ASSUME ShapeOK, NEW s \in Sessions, SessionEnds(s)
  PROVE  /\ ShapeOK' /\ OnlyJob(End(s)) /\ s \in alive /\ alive' = alive \ {s} /\ job[Turn(s)] = Rest
         /\ job'[End(s)].pc = "clear"
         /\ UNCHANGED <<seat, held, sleeping, seats, givenUp, stays, lists, apps>>
  <1>. DEFINE e == End(s)
  <1>0. e \in Threads /\ e # Host /\ TypeOK  BY ThreadsAre DEF ShapeOK
  <1>1. /\ s \in alive /\ job[Turn(s)] = Rest /\ alive' = alive \ {s}
        /\ job' = [job EXCEPT ![e] = Work("clear", Leave)]
        /\ UNCHANGED <<seat, held, sleeping, seats, givenUp, stays, lists, apps>>
    BY DEF SessionEnds, EndMayGo
  <1>2. TypeOK'  BY <1>0, <1>1 DEF TypeOK, stays, lists, apps
  <1>3. "clear" \in Steps \ {"seat", "publish", "out"}  BY DEF Steps
  <1>4. /\ JobOK(Work("clear", Leave)) /\ Work("clear", Leave).pc = "clear"
        /\ Work("clear", Leave).want = Leave /\ Leave \in Requests
    BY ONLY <1>3, WorkToLeave
  <1>5. ShapeOK' /\ OnlyJob(e) /\ job'[e] = Work("clear", Leave)
    BY <1>0, <1>1, <1>2, <1>4, ShapeFollows
  <1>. QED  BY <1>1, <1>4, <1>5

LEMMA EndClearsDoes ==
  ASSUME ShapeOK, NEW s \in Sessions, EndClears(s)
  PROVE  /\ ShapeOK' /\ OnlyJob(End(s)) /\ job[End(s)].pc = "clear" /\ job'[End(s)].pc = "take"
         /\ held'[s] = NotHeld /\ \A t \in Sessions : t # s => held'[t] = held[t]
         /\ UNCHANGED <<alive, seat, sleeping, seats, givenUp, stays, lists, apps>>
  <1>. DEFINE e == End(s)
              j == [job[e] EXCEPT !.pc = "take"]
  <1>0. e \in Threads /\ e # Host /\ TypeOK /\ job[e] \in Jobs /\ JobOK(job[e]) /\ job[e].want \in Requests
    BY ThreadsAre DEF ShapeOK
  <1>1. /\ job[e].pc = "clear" /\ held' = [held EXCEPT ![s] = NotHeld]
        /\ job' = [job EXCEPT ![e].pc = "take"]
        /\ UNCHANGED <<alive, seat, sleeping, seats, givenUp, stays, lists, apps>>
    BY DEF EndClears
  <1>2. TypeOK'  BY <1>0, <1>1 DEF TypeOK, stays, lists, apps
  <1>3. /\ j \in Jobs /\ j.pc = "take" /\ j.want = job[e].want /\ j.after = job[e].after /\ j.num = job[e].num
    BY <1>0 DEF Jobs, Steps
  <1>4. job' = [job EXCEPT ![e] = j]  BY <1>1
  <1>. HIDE DEF j
  <1>5. JobOK(j)  BY <1>0, <1>3 DEF JobOK
  <1>6. ShapeOK' /\ OnlyJob(e) /\ job'[e] = j
    BY <1>0, <1>2, <1>3, <1>4, <1>5, ShapeFollows
  <1>7. held'[s] = NotHeld /\ \A t \in Sessions : t # s => held'[t] = held[t]
    BY <1>0, <1>1 DEF TypeOK
  <1>. QED  BY <1>1, <1>3, <1>6, <1>7

LEMMA TakeOutDoes ==
  ASSUME ShapeOK, NEW u \in Users, NEW r \in Rooms, TakeOut(u, r)
  PROVE  /\ ShapeOK' /\ OnlyJob(Host) /\ outs' = outs + 1
         /\ UNCHANGED <<gateway, givenUp, stays, lists, link, waiting, unsure, asks>>
  <1>. DEFINE out == {s \in Sessions : UserOf[s] = u /\ seat[s].room = r}
              w == [room |-> r, muted |-> FALSE]
              j == [Work("out", w) EXCEPT !.out = out]
  <1>0. Host \in Threads /\ TypeOK  BY ThreadsAre DEF ShapeOK
  <1>1. /\ outs' = outs + 1 /\ job' = [job EXCEPT ![Host] = j]
        /\ UNCHANGED <<gateway, givenUp, stays, lists, link, waiting, unsure, asks>>
    BY DEF TakeOut
  <1>2. TypeOK'  BY <1>0, <1>1 DEF TypeOK, gateway, stays, lists
  <1>3. out \in SUBSET Sessions  OBVIOUS
  <1>4. w \in [room : Rooms \union {NoRoom}, muted : BOOLEAN] /\ w.room \in Rooms  OBVIOUS
  <1>5. Rest \in Jobs /\ Rest.after = "none"  BY RestIs DEF Rest
  <1>. HIDE DEF w, out
  <1>6. "out" \in Steps  BY DEF Steps
  <1>7. j \in Jobs /\ j.pc = "out" /\ j.want = w /\ j.after = "none"
    BY <1>3, <1>4, <1>5, <1>6 DEF Work, Jobs
  <1>. HIDE DEF j
  <1>8. JobOK(j)  BY <1>4, <1>7 DEF JobOK
  <1>. QED  BY <1>0, <1>1, <1>2, <1>8, ShapeFollows

LEMMA TakeOutOneDoes ==
  ASSUME ShapeOK, NEW s \in Sessions, TakeOutOne(s)
  PROVE  /\ ShapeOK' /\ OnlyJob(Host) /\ job[Host].pc = "out" /\ unsure' = unsure \union {s}
         /\ VoiceLeave(s)
         /\ UNCHANGED <<alive, held, sleeping, seats, stays, told, link, waiting, asks, outs>>
  <1>. DEFINE j == [job[Host] EXCEPT !.out = job[Host].out \ {s}]
  <1>0. Host \in Threads /\ TypeOK /\ job[Host] \in Jobs /\ JobOK(job[Host])
    BY ThreadsAre DEF ShapeOK
  <1>1. /\ job[Host].pc = "out" /\ VoiceLeave(s) /\ unsure' = unsure \union {s}
        /\ job' = [job EXCEPT ![Host].out = @ \ {s}]
        /\ UNCHANGED <<alive, held, sleeping, seats, stays, told, link, waiting, asks, outs>>
    BY DEF TakeOutOne
  <1>2. unsure' \subseteq Sessions  BY <1>0, <1>1 DEF TypeOK
  <1>3. TypeOK'  BY <1>0, <1>1, <1>2, LeaveTypes DEF TypeOK, stays
  <1>4. job' = [job EXCEPT ![Host] = j]  BY <1>0, <1>1 DEF ShapeOK, Jobs
  <1>5. /\ j \in Jobs /\ j.pc = "out" /\ j.want = job[Host].want /\ j.after = job[Host].after
        /\ j.num = job[Host].num
    BY <1>0, <1>1 DEF Jobs
  <1>. HIDE DEF j
  <1>6. JobOK(j)  BY <1>0, <1>1, <1>5 DEF JobOK
  <1>. QED  BY <1>0, <1>1, <1>3, <1>4, <1>6, ShapeFollows

LEMMA TakenOutDoes ==
  ASSUME ShapeOK, TakenOut
  PROVE  /\ ShapeOK' /\ OnlyJob(Host) /\ job[Host].pc = "out"
         /\ UNCHANGED <<gateway, givenUp, stays, lists, apps>>
  <1>. DEFINE r == job[Host].want.room
              j == [job[Host] EXCEPT !.pc = "say", !.say = <<r>>]
  <1>0. Host \in Threads /\ TypeOK /\ job[Host] \in Jobs /\ JobOK(job[Host])
    BY ThreadsAre DEF ShapeOK
  <1>1. /\ job[Host].pc = "out" /\ job' = [job EXCEPT ![Host].pc = "say", ![Host].say = <<r>>]
        /\ UNCHANGED <<gateway, givenUp, stays, lists, apps>>
    BY DEF TakenOut
  <1>2. TypeOK'  BY <1>0, <1>1 DEF TypeOK, gateway, stays, lists, apps
  <1>3. r \in Rooms  BY <1>0, <1>1 DEF JobOK
  <1>4. <<r>> \in Seq(Rooms)  BY <1>3
  <1>5. job' = [job EXCEPT ![Host] = j]  BY <1>0, <1>1 DEF ShapeOK, Jobs
  <1>. HIDE DEF r
  <1>6. /\ j \in Jobs /\ j.pc = "say" /\ j.want = job[Host].want /\ j.after = job[Host].after
        /\ j.num = job[Host].num
    BY <1>0, <1>4 DEF Jobs, Steps
  <1>. HIDE DEF j
  <1>7. JobOK(j)  BY <1>0, <1>6 DEF JobOK
  <1>. QED  BY <1>0, <1>1, <1>2, <1>5, <1>7, ShapeFollows

LEMMA StayedOnDoes ==
  ASSUME ShapeOK, NEW p \in staying, StayedOn(p)
  PROVE  /\ ShapeOK' /\ lines' \ lines \subseteq {p.num} /\ UNCHANGED <<gateway, job, givenUp, lists, apps>>
         /\ lines' # lines => HoldsSeat(p) /\ p.s \in Sessions /\ p.num \in Nat \ {0}
  <1>0. TypeOK  BY DEF ShapeOK
  <1>1. /\ staying' = staying \ {p} /\ UNCHANGED <<gateway, job, givenUp, lists, apps>>
        /\ (HoldsSeat(p) /\ lines' = lines \union {p.num}) \/ lines' = lines
    BY DEF StayedOn
  <1>2. p.s \in Sessions /\ p.num \in Nat \ {0}  BY <1>0 DEF TypeOK
  <1>3. staying' \subseteq [s : Sessions, room : Rooms, num : Nat \ {0}] /\ lines' \subseteq Nat \ {0}
    BY <1>0, <1>1, <1>2 DEF TypeOK
  <1>4. TypeOK'  BY <1>0, <1>1, <1>3 DEF TypeOK, gateway, lists, apps
  <1>5. ShapeOK'  BY <1>1, <1>4 DEF ShapeOK, JobOK, Jobs, Requests, Joins, Threads, Host
  <1>. QED  BY <1>1, <1>2, <1>5

-----------------------------------------------------------------------------
(* Every step keeps the shape *)

\* The steps there are.
LEMMA StepIs ==
  ASSUME Next
  PROVE  \/ \E s \in Sessions : \E a \in {Handler(s), Turn(s), End(s)} :
              \/ Part(a, s) \/ JoinAgain(a, s) \/ JoinRefused(a, s) \/ JoinLeaves(a, s)
              \/ TakeSeat(a, s) \/ Finish(a, s)
         \/ \E s \in Sessions : LookedUp(s) \/ ChangeVoice(s) \/ TurnComes(s) \/ EndClears(s)
                                \/ TakeOutOne(s) \/ Goodbye(s) \/ SessionEnds(s)
         \/ \E s \in Sessions, w \in Joins \union {Leave} : Ask(s, w)
         \/ \E a \in Threads : ReadPeers(a) \/ Publish(a)
         \/ TakenOut
         \/ \E u \in Users, r \in Rooms : TakeOut(u, r)
         \/ \E p \in staying : StayedOn(p)
  BY DEF Next, Progress, Environment, Seating

LEMMA ShapeStep ==
  ASSUME ShapeOK, Next
  PROVE  ShapeOK'
  <1>1. ASSUME NEW s \in Sessions, NEW a \in {Handler(s), Turn(s), End(s)},
               \/ Part(a, s) \/ JoinAgain(a, s) \/ JoinRefused(a, s) \/ JoinLeaves(a, s)
               \/ TakeSeat(a, s) \/ Finish(a, s)
        PROVE  ShapeOK'
    BY <1>1, PartDoes, JoinAgainDoes, JoinRefusedDoes, JoinLeavesDoes, TakeSeatDoes, FinishDoes
  <1>2. ASSUME NEW s \in Sessions,
               LookedUp(s) \/ ChangeVoice(s) \/ TurnComes(s) \/ EndClears(s)
               \/ TakeOutOne(s) \/ Goodbye(s) \/ SessionEnds(s)
        PROVE  ShapeOK'
    BY <1>2, LookedUpDoes, ChangeVoiceDoes, TurnComesDoes, EndClearsDoes, TakeOutOneDoes,
       GoodbyeDoes, SessionEndsDoes
  <1>3. ASSUME NEW s \in Sessions, NEW w \in Joins \union {Leave}, Ask(s, w)
        PROVE  ShapeOK'
    BY <1>3, AskDoes
  <1>4. ASSUME NEW a \in Threads, ReadPeers(a) \/ Publish(a)
        PROVE  ShapeOK'
    BY <1>4, ReadPeersDoes, PublishDoes
  <1>5. ASSUME NEW u \in Users, NEW r \in Rooms, TakeOut(u, r)
        PROVE  ShapeOK'
    BY <1>5, TakeOutDoes
  <1>6. ASSUME NEW p \in staying, StayedOn(p)
        PROVE  ShapeOK'
    BY <1>6, StayedOnDoes
  <1>. QED  BY <1>1, <1>2, <1>3, <1>4, <1>5, <1>6, TakenOutDoes, StepIs

-----------------------------------------------------------------------------
(* Every step seats the living, and numbers a seat once *)

\* A step of a thread that is at work, or is no turn and no end.
LEMMA EndsKept ==
  ASSUME EndsOK, NEW a \in Threads, OnlyJob(a), alive' = alive,
         \A s \in Sessions : a \in {Turn(s), End(s)} => job[a] # Rest \/ job'[a] = Rest
  PROVE  EndsOK'
  <1>. SUFFICES ASSUME NEW s \in Sessions
                PROVE  /\ job'[Turn(s)] # Rest => s \in alive
                       /\ job'[End(s)] # Rest => s \notin alive
    BY DEF EndsOK
  <1>1. job'[Turn(s)] # Rest => job[Turn(s)] # Rest  BY ThreadsAre DEF OnlyJob
  <1>2. job'[End(s)] # Rest => job[End(s)] # Rest  BY ThreadsAre DEF OnlyJob
  <1>. QED  BY <1>1, <1>2 DEF EndsOK

LEMMA EndsStep ==
  ASSUME ShapeOK, EndsOK, Next
  PROVE  EndsOK'
  <1>0. Rest.pc = "rest"  BY RestIs
  <1>1. ASSUME NEW s \in Sessions, NEW a \in {Handler(s), Turn(s), End(s)},
               \/ Part(a, s) \/ JoinAgain(a, s) \/ JoinRefused(a, s) \/ JoinLeaves(a, s)
               \/ TakeSeat(a, s) \/ Finish(a, s)
        PROVE  EndsOK'
    <2>1. job[a] # Rest
      BY <1>0, <1>1 DEF Part, JoinAgain, JoinRefused, JoinLeaves, TakeSeat, Finish
    <2>2. OnlyJob(a) /\ alive' = alive
      <3>1. CASE Part(a, s) \/ JoinLeaves(a, s)  BY <3>1, PartDoes, JoinLeavesDoes
      <3>2. CASE JoinAgain(a, s)  BY <3>2, JoinAgainDoes
      <3>3. CASE TakeSeat(a, s)  BY <3>3, TakeSeatDoes
      <3>4. CASE JoinRefused(a, s) \/ Finish(a, s)  BY <3>4, JoinRefusedDoes, FinishDoes DEF gateway
      <3>. QED  BY <1>1, <3>1, <3>2, <3>3, <3>4
    <2>3. a \in Threads  BY ThreadsAre
    <2>. QED  BY <2>1, <2>2, <2>3, EndsKept
  <1>2. ASSUME NEW s \in Sessions, LookedUp(s) \/ ChangeVoice(s) \/ Goodbye(s)
        PROVE  EndsOK'
    <2>1. OnlyJob(Handler(s)) /\ alive' = alive
      BY <1>2, LookedUpDoes, ChangeVoiceDoes, GoodbyeDoes DEF gateway
    <2>2. \A t \in Sessions : Handler(s) \notin {Turn(t), End(t)}  BY ThreadsAre
    <2>3. Handler(s) \in Threads  BY ThreadsAre
    <2>. QED  BY <2>1, <2>2, <2>3, EndsKept
  <1>3. ASSUME NEW s \in Sessions, NEW w \in Joins \union {Leave}, Ask(s, w)
        PROVE  EndsOK'
    <2>1. OnlyJob(Handler(s)) /\ alive' = alive  BY <1>3, AskDoes DEF gateway
    <2>2. \A t \in Sessions : Handler(s) \notin {Turn(t), End(t)}  BY ThreadsAre
    <2>3. Handler(s) \in Threads  BY ThreadsAre
    <2>. QED  BY <2>1, <2>2, <2>3, EndsKept
  <1>4. ASSUME NEW s \in Sessions, EndClears(s)
        PROVE  EndsOK'
    <2>1. OnlyJob(End(s)) /\ alive' = alive /\ job[End(s)] # Rest  BY <1>0, <1>4, EndClearsDoes
    <2>2. End(s) \in Threads  BY ThreadsAre
    <2>. QED  BY <2>1, <2>2, EndsKept
  <1>5. ASSUME NEW s \in Sessions, TakeOutOne(s)
        PROVE  EndsOK'
    <2>1. OnlyJob(Host) /\ alive' = alive  BY <1>5, TakeOutOneDoes
    <2>. QED  BY <2>1, ThreadsAre, EndsKept
  <1>6. ASSUME NEW a \in Threads, ReadPeers(a) \/ Publish(a)
        PROVE  EndsOK'
    <2>1. OnlyJob(a) /\ alive' = alive /\ job[a] # Rest
      BY <1>0, <1>6, ReadPeersDoes, PublishDoes DEF gateway
    <2>. QED  BY <2>1, EndsKept
  <1>7. ASSUME NEW u \in Users, NEW r \in Rooms, TakeOut(u, r)
        PROVE  EndsOK'
    <2>1. OnlyJob(Host) /\ alive' = alive  BY <1>7, TakeOutDoes DEF gateway
    <2>. QED  BY <2>1, ThreadsAre, EndsKept
  <1>8. CASE TakenOut
    <2>1. OnlyJob(Host) /\ alive' = alive  BY <1>8, TakenOutDoes DEF gateway
    <2>. QED  BY <2>1, ThreadsAre, EndsKept
  <1>9. ASSUME NEW p \in staying, StayedOn(p)
        PROVE  EndsOK'
    <2>1. job' = job /\ alive' = alive  BY <1>9, StayedOnDoes DEF gateway
    <2>. QED  BY <2>1 DEF EndsOK, Turn, End
  <1>10. ASSUME NEW s \in Sessions, TurnComes(s)
        PROVE  EndsOK'
    <2>1. OnlyJob(Turn(s)) /\ alive' = alive /\ (s \in alive \/ job' = job)  BY <1>10, TurnComesDoes
    <2>2. ASSUME NEW t \in Sessions
          PROVE  /\ job'[Turn(t)] # Rest => t \in alive
                 /\ job'[End(t)] # Rest => t \notin alive
      <3>1. job'[End(t)] = job[End(t)]  BY <2>1, ThreadsAre DEF OnlyJob
      <3>2. t # s => job'[Turn(t)] = job[Turn(t)]  BY <2>1, ThreadsAre DEF OnlyJob
      <3>. QED  BY <2>1, <3>1, <3>2 DEF EndsOK
    <2>. QED  BY <2>1, <2>2 DEF EndsOK
  <1>11. ASSUME NEW s \in Sessions, SessionEnds(s)
        PROVE  EndsOK'
    <2>1. OnlyJob(End(s)) /\ alive' = alive \ {s} /\ job[Turn(s)] = Rest  BY <1>11, SessionEndsDoes
    <2>2. ASSUME NEW t \in Sessions
          PROVE  /\ job'[Turn(t)] # Rest => t \in alive'
                 /\ job'[End(t)] # Rest => t \notin alive'
      <3>1. job'[Turn(t)] = job[Turn(t)]  BY <2>1, ThreadsAre DEF OnlyJob
      <3>2. t # s => job'[End(t)] = job[End(t)]  BY <2>1, ThreadsAre DEF OnlyJob
      <3>. QED  BY <2>1, <3>1, <3>2 DEF EndsOK
    <2>. QED  BY <2>2 DEF EndsOK
  <1>. QED  BY <1>1, <1>2, <1>3, <1>4, <1>5, <1>6, <1>7, <1>8, <1>9, <1>10, <1>11, StepIs

\* A seat given up.
LEMMA NumberLeaves ==
  ASSUME TypeOK, NumberOK, NEW s \in Sessions, VoiceLeave(s), seats' = seats
  PROVE  NumberOK'
  <1>1. seat'[s] = NoSeat /\ \A t \in Sessions : t # s => seat'[t] = seat[t]  BY LeaveTypes
  <1>2. givenUp' = givenUp \union ({seat[s].num} \ {0})  BY DEF VoiceLeave
  <1>3. seat[s] = NoSeat <=> seat[s].num = 0  BY SeatIs
  <1>4. givenUp' \subseteq 1..seats
    <2>1. seat[s].num # 0 => seat[s].num \in 1..seats  BY <1>3 DEF NumberOK
    <2>. QED  BY <1>2, <2>1 DEF NumberOK
  <1>5. ASSUME NEW t \in Sessions, seat'[t] # NoSeat
        PROVE  seat'[t].num \in (1..seats) \ givenUp'
    <2>1. t # s /\ seat'[t] = seat[t] /\ seat[t] # NoSeat  BY <1>1, <1>5
    <2>2. seat[t].num \in (1..seats) \ givenUp  BY <2>1 DEF NumberOK
    <2>3. seat[t].num # seat[s].num  BY <2>1 DEF NumberOK
    <2>. QED  BY <1>2, <2>1, <2>2, <2>3
  <1>6. ASSUME NEW t \in Sessions, NEW q \in Sessions, seat'[t] # NoSeat, seat'[t].num = seat'[q].num
        PROVE  t = q
    <2>1. t # s /\ seat'[t] = seat[t] /\ seat[t] # NoSeat  BY <1>1, <1>6
    <2>2. seat[t].num # 0  BY <2>1, SeatIs
    <2>3. q # s  BY <1>1, <1>6, <2>1, <2>2 DEF NoSeat
    <2>. QED  BY <1>1, <1>6, <2>1, <2>3 DEF NumberOK
  <1>. QED  BY <1>4, <1>5, <1>6 DEF NumberOK

LEMMA NumberTaken ==
  ASSUME TypeOK, NumberOK, NEW s \in Sessions, seats' = seats + 1, givenUp' = givenUp,
         seat'[s].num = seats + 1, \A t \in Sessions : t # s => seat'[t] = seat[t]
  PROVE  NumberOK'
  <1>0. seats \in Nat /\ givenUp \subseteq 1..seats /\ seats' = seats + 1  BY DEF TypeOK, NumberOK
  <1>1. givenUp' \subseteq 1..seats'  BY <1>0
  <1>2. seats + 1 \in (1..seats') \ givenUp'  BY <1>0
  <1>3. \A t \in Sessions : seat[t] # NoSeat => seat[t].num \in (1..seats) \ givenUp  BY DEF NumberOK
  <1>4. \A t \in Sessions : seat[t].num # seats + 1
    <2>1. \A t \in Sessions : seat[t] = NoSeat <=> seat[t].num = 0  BY SeatIs
    <2>. QED  BY <1>0, <1>3, <2>1
  <1>5. ASSUME NEW t \in Sessions, seat'[t] # NoSeat
        PROVE  seat'[t].num \in (1..seats') \ givenUp'
    <2>1. CASE t = s  BY <1>2, <2>1
    <2>2. CASE t # s
      <3>1. seat[t].num \in (1..seats) \ givenUp /\ seat'[t] = seat[t]  BY <1>3, <1>5, <2>2
      <3>. QED  BY <1>0, <3>1
    <2>. QED  BY <2>1, <2>2
  <1>6. ASSUME NEW t \in Sessions, NEW q \in Sessions, seat'[t] # NoSeat, seat'[t].num = seat'[q].num
        PROVE  t = q
    BY <1>4, <1>6 DEF NumberOK
  <1>. QED  BY <1>1, <1>5, <1>6 DEF NumberOK

\* The seats are where they were, and their numbers.
LEMMA NumberKept ==
  ASSUME NumberOK, \A s \in Sessions : (seat'[s] = NoSeat <=> seat[s] = NoSeat) /\ seat'[s].num = seat[s].num,
         seats' = seats, givenUp' = givenUp
  PROVE  NumberOK'
  BY DEF NumberOK

LEMMA NumberStep ==
  ASSUME ShapeOK, NumberOK, Next
  PROVE  NumberOK'
  <1>0. TypeOK  BY DEF ShapeOK
  <1>1. ASSUME NEW s \in Sessions, NEW a \in {Handler(s), Turn(s), End(s)}, Part(a, s) \/ JoinLeaves(a, s)
        PROVE  NumberOK'
    BY <1>0, <1>1, PartDoes, JoinLeavesDoes, NumberLeaves
  <1>2. ASSUME NEW s \in Sessions, NEW a \in {Handler(s), Turn(s), End(s)}, JoinAgain(a, s)
        PROVE  NumberOK'
    <2>1. /\ ShapeOK' /\ seat'[s].num = seat[s].num /\ \A t \in Sessions : t # s => seat'[t] = seat[t]
          /\ seats' = seats /\ givenUp' = givenUp
      BY <1>2, JoinAgainDoes
    <2>2. seat'[s] = NoSeat <=> seat'[s].num = 0
      <3>1. TypeOK'  BY <2>1 DEF ShapeOK
      <3>2. seat'[s] \in [room : Rooms, num : Nat \ {0}, muted : BOOLEAN] \/ seat'[s] = NoSeat
        BY <3>1 DEF TypeOK
      <3>. QED  BY <3>2 DEF NoSeat
    <2>3. seat[s] = NoSeat <=> seat[s].num = 0  BY <1>0, SeatIs
    <2>. QED  BY <2>1, <2>2, <2>3, NumberKept
  <1>3. ASSUME NEW s \in Sessions, NEW a \in {Handler(s), Turn(s), End(s)}, TakeSeat(a, s)
        PROVE  NumberOK'
    <2>1. /\ seat'[s].num = seats + 1 /\ \A t \in Sessions : t # s => seat'[t] = seat[t]
          /\ seats' = seats + 1 /\ givenUp' = givenUp
      BY <1>3, TakeSeatDoes
    <2>. QED  BY <1>0, <2>1, NumberTaken
  <1>4. ASSUME NEW s \in Sessions, NEW a \in {Handler(s), Turn(s), End(s)}, JoinRefused(a, s) \/ Finish(a, s)
        PROVE  NumberOK'
    <2>1. seat' = seat /\ seats' = seats /\ givenUp' = givenUp
      BY <1>4, JoinRefusedDoes, FinishDoes DEF gateway
    <2>. QED  BY <2>1, NumberKept
  <1>5. ASSUME NEW s \in Sessions,
               LookedUp(s) \/ ChangeVoice(s) \/ TurnComes(s) \/ EndClears(s) \/ Goodbye(s) \/ SessionEnds(s)
        PROVE  NumberOK'
    <2>1. seat' = seat /\ seats' = seats /\ givenUp' = givenUp
      BY <1>5, LookedUpDoes, ChangeVoiceDoes, TurnComesDoes, EndClearsDoes, GoodbyeDoes, SessionEndsDoes
         DEF gateway
    <2>. QED  BY <2>1, NumberKept
  <1>6. ASSUME NEW s \in Sessions, TakeOutOne(s)
        PROVE  NumberOK'
    BY <1>0, <1>6, TakeOutOneDoes, NumberLeaves
  <1>7. ASSUME NEW s \in Sessions, NEW w \in Joins \union {Leave}, Ask(s, w)
        PROVE  NumberOK'
    <2>1. seat' = seat /\ seats' = seats /\ givenUp' = givenUp  BY <1>7, AskDoes DEF gateway
    <2>. QED  BY <2>1, NumberKept
  <1>8. ASSUME NEW a \in Threads, ReadPeers(a) \/ Publish(a)
        PROVE  NumberOK'
    <2>1. seat' = seat /\ seats' = seats /\ givenUp' = givenUp
      BY <1>8, ReadPeersDoes, PublishDoes DEF gateway
    <2>. QED  BY <2>1, NumberKept
  <1>9. ASSUME NEW u \in Users, NEW r \in Rooms, TakeOut(u, r)
        PROVE  NumberOK'
    <2>1. seat' = seat /\ seats' = seats /\ givenUp' = givenUp  BY <1>9, TakeOutDoes DEF gateway
    <2>. QED  BY <2>1, NumberKept
  <1>10. CASE TakenOut
    <2>1. seat' = seat /\ seats' = seats /\ givenUp' = givenUp  BY <1>10, TakenOutDoes DEF gateway
    <2>. QED  BY <2>1, NumberKept
  <1>11. ASSUME NEW p \in staying, StayedOn(p)
        PROVE  NumberOK'
    <2>1. seat' = seat /\ seats' = seats /\ givenUp' = givenUp  BY <1>11, StayedOnDoes DEF gateway
    <2>. QED  BY <2>1, NumberKept
  <1>. QED  BY <1>1, <1>2, <1>3, <1>4, <1>5, <1>6, <1>7, <1>8, <1>9, <1>10, <1>11, StepIs

-----------------------------------------------------------------------------
(* Every step leaves somebody to tell what changed *)

\* A step of one thread: what is unread, somebody else will tell, or it will.
LEMMA ToldKept ==
  ASSUME ToldOK, NEW a \in Threads, OnlyJob(a), outs' = outs, outs = 0 => job'[Host] = Rest,
         \A r \in unread' : WillTell(job'[a], r) \/ (r \in unread /\ ~WillTell(job[a], r))
  PROVE  ToldOK'
  <1>. SUFFICES ASSUME outs = 0, NEW r \in unread'
                PROVE  \E b \in Threads : WillTell(job'[b], r)
    BY DEF ToldOK
  <1>1. CASE WillTell(job'[a], r)  BY <1>1
  <1>2. CASE r \in unread /\ ~WillTell(job[a], r)
    <2>1. PICK b \in Threads : WillTell(job[b], r)  BY <1>2 DEF ToldOK
    <2>2. b # a /\ job'[b] = job[b]  BY <1>2, <2>1 DEF OnlyJob
    <2>. QED  BY <2>1, <2>2
  <1>. QED  BY <1>1, <1>2

\* A thread with nothing to read, yet or ever.
LEMMA TellsNobody ==
  ASSUME NEW j, NEW r, j.pc \notin {"seat", "say", "publish"} \/ j.say = <<>>
  PROVE  ~WillTell(j, r)
  BY DEF WillTell

\* Only the host's own steps change the host's work.
LEMMA HostKept ==
  ASSUME ToldOK, NEW a \in Threads, OnlyJob(a), a # Host
  PROVE  outs = 0 => job'[Host] = Rest
  BY ThreadsAre DEF ToldOK, OnlyJob

LEMMA ToldReads ==
  ASSUME ShapeOK, ToldOK, NEW a \in Threads, ReadPeers(a)
  PROVE  ToldOK'
  <1>1. /\ OnlyJob(a) /\ job[a].pc = "say" /\ job[a].say # <<>>
        /\ job'[a].pc = "publish" /\ job'[a].say = job[a].say
        /\ unread' = unread \ {Head(job[a].say)} /\ outs' = outs
    BY ReadPeersDoes DEF apps
  <1>2. job[a].say \in Seq(Rooms)  BY DEF ShapeOK, Jobs
  <1>3. ASSUME NEW r \in unread', WillTell(job[a], r)
        PROVE  WillTell(job'[a], r)
    <2>1. PICK i \in DOMAIN job[a].say : job[a].say[i] = r  BY <1>3 DEF WillTell
    <2>2. i # 1  BY <1>1, <1>2, <1>3, <2>1
    <2>3. i > 1  BY <1>2, <2>2
    <2>. QED  BY <1>1, <2>1, <2>3 DEF WillTell
  <1>4. a = Host => outs # 0
    <2>1. Rest.pc = "rest"  BY RestIs
    <2>. QED  BY <1>1, <2>1 DEF ToldOK
  <1>5. outs = 0 => job'[Host] = Rest  BY <1>1, <1>4, HostKept
  <1>. QED  BY <1>1, <1>3, <1>5, ToldKept

LEMMA ToldPublishes ==
  ASSUME ShapeOK, ToldOK, NEW a \in Threads, Publish(a)
  PROVE  ToldOK'
  <1>1. /\ OnlyJob(a) /\ job[a].pc = "publish" /\ unread' = unread /\ outs' = outs
        /\ \/ Tail(job[a].say) = <<>>
           \/ job'[a].pc = "say" /\ job'[a].say = Tail(job[a].say)
    BY PublishDoes DEF apps
  <1>2. job[a].say \in Seq(Rooms) /\ job[a].say # <<>>  BY <1>1 DEF ShapeOK, Jobs, JobOK
  <1>3. ASSUME NEW r \in unread', WillTell(job[a], r)
        PROVE  WillTell(job'[a], r)
    <2>. DEFINE say == job[a].say
    <2>1. PICK i \in DOMAIN say : say[i] = r /\ i > 1  BY <1>1, <1>3 DEF WillTell
    <2>2. Len(say) \in Nat /\ DOMAIN say = 1..Len(say)  BY <1>2
    <2>3. Len(Tail(say)) = Len(say) - 1 /\ Tail(say) \in Seq(Rooms)  BY <1>2
    <2>4. i - 1 \in 1..Len(Tail(say))  BY <2>1, <2>2, <2>3
    <2>5. Tail(say)[i - 1] = r
      <3>1. Tail(say)[i - 1] = say[(i - 1) + 1]  BY <1>2, <2>4
      <3>2. (i - 1) + 1 = i  BY <2>1, <2>2
      <3>. QED  BY <2>1, <3>1, <3>2
    <2>6. i - 1 \in DOMAIN Tail(say)  BY <2>3, <2>4
    <2>7. Tail(say) # <<>>  BY <2>2, <2>3, <2>4
    <2>. QED  BY <1>1, <2>5, <2>6, <2>7 DEF WillTell
  <1>4. a = Host => outs # 0
    <2>1. Rest.pc = "rest"  BY RestIs
    <2>. QED  BY <1>1, <2>1 DEF ToldOK
  <1>5. outs = 0 => job'[Host] = Rest  BY <1>1, <1>4, HostKept
  <1>. QED  BY <1>1, <1>3, <1>5, ToldKept

LEMMA ToldSeating ==
  ASSUME ShapeOK, ToldOK, NEW s \in Sessions, NEW a \in {Handler(s), Turn(s), End(s)},
         \/ Part(a, s) \/ JoinAgain(a, s) \/ JoinRefused(a, s) \/ JoinLeaves(a, s)
         \/ TakeSeat(a, s) \/ Finish(a, s)
  PROVE  ToldOK'
  <1>0. a \in Threads /\ a # Host /\ TypeOK  BY ThreadsAre DEF ShapeOK
  <1>1. CASE Part(a, s)
    <2>1. /\ OnlyJob(a) /\ outs' = outs /\ VoiceLeave(s)
          /\ seat[s] # NoSeat => job'[a].pc = "say" /\ job'[a].say = <<seat[s].room>>
      BY <1>1, PartDoes DEF apps
    <2>2. job[a].pc = "take" /\ unread' = unread \union ({seat[s].room} \ {NoRoom})
      BY <1>1, <2>1 DEF Part, VoiceLeave
    <2>3. seat[s] = NoSeat <=> seat[s].room = NoRoom  BY <1>0, SeatIs
    <2>4. seat[s] # NoSeat => WillTell(job'[a], seat[s].room)
      <3>. DEFINE q == <<seat[s].room>>
      <3>1. 1 \in DOMAIN q /\ q[1] = seat[s].room  OBVIOUS
      <3>. QED  BY <2>1, <3>1 DEF WillTell
    <2>5. \A r \in unread' : WillTell(job'[a], r) \/ (r \in unread /\ ~WillTell(job[a], r))
      BY <2>2, <2>3, <2>4, TellsNobody
    <2>. QED  BY <1>0, <2>1, <2>5, HostKept, ToldKept
  <1>2. CASE JoinAgain(a, s)
    <2>. DEFINE w == job[a].want
    <2>1. /\ OnlyJob(a) /\ job[a].pc = "take" /\ unread' \subseteq unread \union {w.room}
          /\ unread' # unread => WillTell(job'[a], w.room)
          /\ outs' = outs
      BY <1>2, JoinAgainDoes DEF apps
    <2>2. \A r \in unread' : WillTell(job'[a], r) \/ (r \in unread /\ ~WillTell(job[a], r))
      BY <2>1, TellsNobody
    <2>. QED  BY <1>0, <2>1, <2>2, HostKept, ToldKept
  <1>3. CASE JoinRefused(a, s)
    <2>1. OnlyJob(a) /\ job[a].pc = "take" /\ unread' = unread /\ outs' = outs
      BY <1>3, JoinRefusedDoes DEF lists
    <2>. QED  BY <1>0, <2>1, HostKept, ToldKept, TellsNobody
  <1>4. CASE JoinLeaves(a, s)
    <2>1. /\ OnlyJob(a) /\ job[a].pc = "take" /\ outs' = outs /\ VoiceLeave(s)
          /\ seat[s] # NoSeat => WillTell(job'[a], seat[s].room)
      BY <1>4, JoinLeavesDoes DEF apps
    <2>2. unread' = unread \union ({seat[s].room} \ {NoRoom})  BY <2>1 DEF VoiceLeave
    <2>3. seat[s] = NoSeat <=> seat[s].room = NoRoom  BY <1>0, SeatIs
    <2>4. \A r \in unread' : WillTell(job'[a], r) \/ (r \in unread /\ ~WillTell(job[a], r))
      BY <2>1, <2>2, <2>3, TellsNobody
    <2>. QED  BY <1>0, <2>1, <2>4, HostKept, ToldKept
  <1>5. CASE TakeSeat(a, s)
    <2>. DEFINE w == job[a].want
    <2>1. /\ OnlyJob(a) /\ job[a].pc = "seat" /\ job'[a].pc = "say" /\ job'[a].say = job[a].say
          /\ unread' = unread \union {w.room} /\ WillTell(job'[a], w.room) /\ outs' = outs
      BY <1>5, TakeSeatDoes
    <2>2. \A r : WillTell(job[a], r) => WillTell(job'[a], r)  BY <2>1 DEF WillTell
    <2>. QED  BY <1>0, <2>1, <2>2, HostKept, ToldKept
  <1>6. CASE Finish(a, s)
    <2>1. OnlyJob(a) /\ job[a].say = <<>> /\ unread' = unread /\ outs' = outs
      BY <1>6, FinishDoes DEF lists
    <2>. QED  BY <1>0, <2>1, HostKept, ToldKept, TellsNobody
  <1>. QED  BY <1>1, <1>2, <1>3, <1>4, <1>5, <1>6

LEMMA ToldStep ==
  ASSUME ShapeOK, EndsOK, ToldOK, Next
  PROVE  ToldOK'
  <1>0. Rest.pc = "rest"  BY RestIs
  <1>1. ASSUME NEW s \in Sessions, LookedUp(s) \/ ChangeVoice(s) \/ Goodbye(s)
        PROVE  ToldOK'
    <2>. DEFINE h == Handler(s)
    <2>1. OnlyJob(h) /\ job[h].pc \in {"look", "change", "rest"} /\ unread' = unread /\ outs' = outs
      BY <1>0, <1>1, LookedUpDoes, ChangeVoiceDoes, GoodbyeDoes DEF lists, apps
    <2>2. h \in Threads /\ h # Host  BY ThreadsAre
    <2>. QED  BY <2>1, <2>2, HostKept, ToldKept, TellsNobody
  <1>2. ASSUME NEW s \in Sessions, NEW w \in Joins \union {Leave}, Ask(s, w)
        PROVE  ToldOK'
    <2>. DEFINE h == Handler(s)
    <2>1. OnlyJob(h) /\ job[h].pc = "rest" /\ unread' = unread /\ outs' = outs
      BY <1>0, <1>2, AskDoes DEF lists
    <2>2. h \in Threads /\ h # Host  BY ThreadsAre
    <2>. QED  BY <2>1, <2>2, HostKept, ToldKept, TellsNobody
  <1>3. ASSUME NEW s \in Sessions, TurnComes(s)
        PROVE  ToldOK'
    <2>. DEFINE b == Turn(s)
    <2>1. OnlyJob(b) /\ job[b].pc = "rest" /\ unread' = unread /\ outs' = outs
      BY <1>0, <1>3, TurnComesDoes DEF lists, apps
    <2>2. b \in Threads /\ b # Host  BY ThreadsAre
    <2>. QED  BY <2>1, <2>2, HostKept, ToldKept, TellsNobody
  <1>4. ASSUME NEW s \in Sessions, EndClears(s)
        PROVE  ToldOK'
    <2>. DEFINE e == End(s)
    <2>1. OnlyJob(e) /\ job[e].pc = "clear" /\ unread' = unread /\ outs' = outs
      BY <1>4, EndClearsDoes DEF lists, apps
    <2>2. e \in Threads /\ e # Host  BY ThreadsAre
    <2>. QED  BY <2>1, <2>2, HostKept, ToldKept, TellsNobody
  <1>5. ASSUME NEW s \in Sessions, SessionEnds(s)
        PROVE  ToldOK'
    <2>. DEFINE e == End(s)
    <2>1. OnlyJob(e) /\ unread' = unread /\ outs' = outs /\ job'[e].pc = "clear"
      BY <1>5, SessionEndsDoes DEF lists, apps
    <2>2. job[e].pc = "rest"  BY <1>0, <1>5 DEF SessionEnds, EndsOK
    <2>3. e \in Threads /\ e # Host  BY ThreadsAre
    <2>. QED  BY <2>1, <2>2, <2>3, HostKept, ToldKept, TellsNobody
  <1>6. ASSUME NEW s \in Sessions, TakeOutOne(s)
        PROVE  ToldOK'
    <2>1. job[Host].pc = "out" /\ outs' = outs  BY <1>6, TakeOutOneDoes
    <2>. QED  BY <1>0, <2>1 DEF ToldOK
  <1>7. CASE TakenOut
    <2>1. job[Host].pc = "out" /\ outs' = outs  BY <1>7, TakenOutDoes DEF apps
    <2>. QED  BY <1>0, <2>1 DEF ToldOK
  <1>8. ASSUME NEW u \in Users, NEW r \in Rooms, TakeOut(u, r)
        PROVE  ToldOK'
    <2>1. outs' = outs + 1  BY <1>8, TakeOutDoes
    <2>2. outs \in Nat  BY DEF ToldOK
    <2>. QED  BY <2>1, <2>2 DEF ToldOK
  <1>9. ASSUME NEW p \in staying, StayedOn(p)
        PROVE  ToldOK'
    <2>1. job' = job /\ unread' = unread /\ outs' = outs  BY <1>9, StayedOnDoes DEF lists, apps
    <2>. QED  BY <2>1 DEF ToldOK, Threads, Host
  <1>. QED  BY <1>1, <1>2, <1>3, <1>4, <1>5, <1>6, <1>7, <1>8, <1>9, ToldSeating, ToldReads,
               ToldPublishes, StepIs

-----------------------------------------------------------------------------
(* Every step leaves a session's requests on their way to where its app is *)

\* A step that is none of the session's.
LEMMA ElseKept ==
  ASSUME NEW s \in Sessions, SessionOK(s),
         job'[Handler(s)] = job[Handler(s)], job'[Turn(s)] = job[Turn(s)],
         seat'[s].room = seat[s].room, held'[s] = held[s], link'[s] = link[s],
         s \in waiting' => s \in waiting
  PROVE  SessionOK(s)'
  <1>1. AfterTurn(s)' = AfterTurn(s)  BY DEF AfterTurn
  <1>2. AfterHeld(s)' = AfterHeld(s)  BY <1>1 DEF AfterHeld
  <1>3. Asked(s)' = Asked(s) /\ Taking(s)' = Taking(s)  BY DEF Asked, Taking
  <1>4. FollowOK(s)'  BY <1>2, <1>3 DEF SessionOK, FollowOK
  <1>5. /\ TurnOffers(s)' <=> TurnOffers(s)
        /\ HeldOffers(s)' <=> HeldOffers(s)
        /\ AskOffers(s)' <=> AskOffers(s)
    BY <1>1, <1>2 DEF TurnOffers, HeldOffers, AskOffers
  <1>6. OfferOK(s)'  BY <1>5 DEF SessionOK, OfferOK
  <1>. QED  BY <1>4, <1>6 DEF SessionOK

\* A step of the handler, that leaves alone what is held and the turn, and where the
\* session will be then.
LEMMA HandlerKept ==
  ASSUME NEW s \in Sessions, SessionOK(s), job'[Turn(s)] = job[Turn(s)],
         held'[s] = held[s], link'[s] = link[s],
         Taking(s)' => held[s] = NotHeld /\ job[Turn(s)] = Rest,
         seat'[s].room = seat[s].room \/ (held[s] = NotHeld /\ job[Turn(s)] = Rest),
         link[s] = IF Asked(s)' THEN job'[Handler(s)].want.room ELSE AfterHeld(s)',
         s \in waiting' => s \in waiting /\ (AskOffers(s) => AskOffers(s)')
  PROVE  SessionOK(s)'
  <1>0. Rest.pc = "rest"  BY RestIs
  <1>1. FollowOK(s)
    BY DEF SessionOK
  <1>2. job[Turn(s)] = Rest \/ seat'[s].room = seat[s].room  OBVIOUS
  <1>3. FollowOK(s)'  BY <1>0, <1>1, <1>2 DEF FollowOK
  <1>4. TurnOffers(s) => TurnOffers(s)'  BY <1>0, <1>2 DEF TurnOffers
  <1>5. HeldOffers(s) => HeldOffers(s)'
    <2>1. HeldOffers(s) => held[s] # NotHeld  BY DEF HeldOffers
    <2>2. held[s] # NotHeld => AfterTurn(s)' = AfterTurn(s)  BY DEF AfterTurn
    <2>. QED  BY <2>1, <2>2 DEF HeldOffers
  <1>6. OfferOK(s)'  BY <1>4, <1>5 DEF SessionOK, OfferOK
  <1>. QED  BY <1>3, <1>6 DEF SessionOK

\* A step of the turn: it leads where it did, and makes the offer it would have made.
LEMMA TurnKept ==
  ASSUME NEW s \in Sessions, SessionOK(s), job'[Handler(s)] = job[Handler(s)],
         held'[s] = held[s], link'[s] = link[s], ~Taking(s),
         AfterTurn(s)' = AfterTurn(s),
         job'[Turn(s)].pc \in {"say", "publish"} => seat'[s].room = job'[Turn(s)].want.room,
         s \in waiting' => s \in waiting /\ (TurnOffers(s) => TurnOffers(s)')
  PROVE  SessionOK(s)'
  <1>1. FollowOK(s)  BY DEF SessionOK
  <1>2. AfterHeld(s)' = AfterHeld(s)  BY DEF AfterHeld
  <1>3. Asked(s)' = Asked(s) /\ ~Taking(s)'  BY DEF Asked, Taking
  <1>4. FollowOK(s)'  BY <1>1, <1>2, <1>3 DEF FollowOK
  <1>5. HeldOffers(s) => HeldOffers(s)'  BY DEF HeldOffers
  <1>6. AskOffers(s) => AskOffers(s)'
    <2>1. job[Handler(s)].pc # "seat"  BY DEF Taking
    <2>. QED  BY <1>2, <2>1 DEF AskOffers
  <1>7. OfferOK(s)'  BY <1>5, <1>6 DEF SessionOK, OfferOK
  <1>. QED  BY <1>4, <1>7 DEF SessionOK

\* A turn at work is alone with the session's seat.
LEMMA TurnAlone ==
  ASSUME NEW s \in Sessions, SessionOK(s), job[Turn(s)] # Rest
  PROVE  ~Taking(s)
  BY DEF SessionOK, FollowOK

\* A handler taking a seat is alone with it.
LEMMA HandlerAlone ==
  ASSUME NEW s \in Sessions, SessionOK(s), Taking(s)
  PROVE  held[s] = NotHeld /\ job[Turn(s)] = Rest
  BY DEF SessionOK, FollowOK

LEMMA HandlerSeats ==
  ASSUME ShapeOK, NEW s \in Sessions, SessionOK(s),
         LET h == Handler(s) IN
           \/ Part(h, s) \/ JoinAgain(h, s) \/ JoinLeaves(h, s) \/ TakeSeat(h, s) \/ Finish(h, s)
  PROVE  SessionOK(s)'
  <1>. DEFINE h == Handler(s)
  <1>0. Rest.pc = "rest" /\ TypeOK  BY RestIs DEF ShapeOK
  <1>1. Taking(s)  BY DEF Taking, Part, JoinAgain, JoinLeaves, TakeSeat, Finish
  <1>2. held[s] = NotHeld /\ job[Turn(s)] = Rest  BY <1>1, HandlerAlone
  <1>3. AfterHeld(s) = seat[s].room  BY <1>0, <1>2 DEF AfterHeld, AfterTurn
  <1>4. link[s] = IF Asked(s) THEN job[h].want.room ELSE seat[s].room
    BY <1>3 DEF SessionOK, FollowOK
  <1>5. OnlyJob(h) /\ link' = link /\ held' = held
    <2>1. CASE Part(h, s) \/ JoinLeaves(h, s)  BY <2>1, PartDoes, JoinLeavesDoes DEF apps
    <2>2. CASE JoinAgain(h, s)  BY <2>2, JoinAgainDoes DEF apps
    <2>3. CASE TakeSeat(h, s)  BY <2>3, TakeSeatDoes
    <2>4. CASE Finish(h, s)  BY <2>4, FinishDoes DEF gateway
    <2>. QED  BY <2>1, <2>2, <2>3, <2>4
  <1>6. job'[Turn(s)] = job[Turn(s)] /\ held'[s] = held[s] /\ link'[s] = link[s]
    BY <1>5, ThreadsAre DEF OnlyJob
  <1>7. AfterHeld(s)' = seat'[s].room  BY <1>0, <1>2, <1>6 DEF AfterHeld, AfterTurn
  <1>8. CASE Part(h, s)
    <2>1. /\ job[h].pc = "take" /\ job[h].want = Leave /\ job'[h].pc \in {"rest", "say"} /\ waiting' = waiting
          /\ VoiceLeave(s)
      BY <1>8, PartDoes DEF Part, apps
    <2>2. seat'[s].room = NoRoom  BY <1>0, <2>1, LeaveTypes DEF NoSeat
    <2>3. link[s] = NoRoom  BY <1>4, <2>1 DEF Asked, Leave
    <2>4. s \notin waiting  BY <2>3 DEF SessionOK, OfferOK
    <2>5. ~Asked(s)'  BY <2>1 DEF Asked
    <2>. QED  BY <1>2, <1>6, <1>7, <2>1, <2>2, <2>3, <2>4, <2>5, HandlerKept
  <1>9. CASE JoinAgain(h, s)
    <2>1. /\ job[h].pc = "take" /\ seat[s].room = job[h].want.room /\ job'[h].pc \in {"rest", "say"}
          /\ seat'[s].room = seat[s].room /\ waiting' = waiting
      BY <1>9, JoinAgainDoes DEF apps
    <2>2. link[s] = seat[s].room  BY <1>4, <2>1 DEF Asked
    <2>3. ~AskOffers(s)  BY <1>3, <2>1 DEF AskOffers
    <2>4. ~Asked(s)'  BY <2>1 DEF Asked
    <2>. QED  BY <1>2, <1>6, <1>7, <2>1, <2>2, <2>3, <2>4, HandlerKept
  <1>10. CASE JoinLeaves(h, s)
    <2>1. /\ job[h].pc = "take" /\ job'[h].pc = "seat" /\ job'[h].want = job[h].want /\ waiting' = waiting
      BY <1>10, JoinLeavesDoes DEF apps
    <2>2. Asked(s) /\ Asked(s)' /\ AskOffers(s)'  BY <2>1 DEF Asked, AskOffers
    <2>. QED  BY <1>2, <1>4, <1>6, <2>1, <2>2, HandlerKept
  <1>11. CASE TakeSeat(h, s)
    <2>1. /\ job[h].pc = "seat" /\ job'[h].pc = "say" /\ seat'[s].room = job[h].want.room
          /\ waiting' = waiting \ {s}
      BY <1>11, TakeSeatDoes
    <2>2. link[s] = seat'[s].room  BY <1>4, <2>1 DEF Asked
    <2>3. ~Asked(s)'  BY <2>1 DEF Asked
    <2>. QED  BY <1>2, <1>6, <1>7, <2>1, <2>2, <2>3, HandlerKept
  <1>12. CASE Finish(h, s)
    <2>1. job[h].pc = "say" /\ job'[h] = Rest /\ waiting' \subseteq waiting /\ seat' = seat
      BY <1>12, FinishDoes DEF gateway
    <2>2. ~Asked(s) /\ ~Asked(s)' /\ ~AskOffers(s)  BY <1>0, <2>1 DEF Asked, AskOffers
    <2>. QED  BY <1>2, <1>4, <1>6, <1>7, <2>1, <2>2, HandlerKept
  <1>. QED  BY <1>8, <1>9, <1>10, <1>11, <1>12

LEMMA TurnSeats ==
  ASSUME ShapeOK, NEW s \in Sessions, SessionOK(s),
         LET b == Turn(s) IN
           \/ Part(b, s) \/ JoinAgain(b, s) \/ JoinLeaves(b, s) \/ TakeSeat(b, s) \/ Finish(b, s)
  PROVE  SessionOK(s)'
  <1>. DEFINE b == Turn(s)
  <1>0. Rest.pc = "rest" /\ TypeOK  BY RestIs DEF ShapeOK
  <1>1. job[b] # Rest  BY <1>0 DEF Part, JoinAgain, JoinLeaves, TakeSeat, Finish
  <1>2. ~Taking(s)  BY <1>1, TurnAlone
  <1>5. OnlyJob(b) /\ link' = link /\ held' = held
    <2>1. CASE Part(b, s) \/ JoinLeaves(b, s)  BY <2>1, PartDoes, JoinLeavesDoes DEF apps
    <2>2. CASE JoinAgain(b, s)  BY <2>2, JoinAgainDoes DEF apps
    <2>3. CASE TakeSeat(b, s)  BY <2>3, TakeSeatDoes
    <2>4. CASE Finish(b, s)  BY <2>4, FinishDoes DEF gateway
    <2>. QED  BY <2>1, <2>2, <2>3, <2>4
  <1>6. job'[Handler(s)] = job[Handler(s)] /\ held'[s] = held[s] /\ link'[s] = link[s]
    BY <1>5, ThreadsAre DEF OnlyJob
  <1>8. CASE Part(b, s)
    <2>1. /\ job[b].pc = "take" /\ job[b].want = Leave /\ job'[b].pc \in {"rest", "say"}
          /\ job'[b].want = Leave /\ waiting' = waiting /\ VoiceLeave(s)
      BY <1>8, PartDoes DEF Part, apps
    <2>2. seat'[s].room = NoRoom /\ Leave.room = NoRoom  BY <1>0, <2>1, LeaveTypes DEF NoSeat, Leave
    <2>3. AfterTurn(s)' = AfterTurn(s)  BY <2>1, <2>2 DEF AfterTurn
    <2>4. ~TurnOffers(s)  BY <2>1 DEF TurnOffers
    <2>. QED  BY <1>2, <1>6, <2>1, <2>2, <2>3, <2>4, TurnKept
  <1>9. CASE JoinAgain(b, s)
    <2>1. /\ job[b].pc = "take" /\ seat[s].room = job[b].want.room /\ job'[b].pc \in {"rest", "say"}
          /\ job'[b].pc = "say" => job'[b].want = job[b].want
          /\ job[b].churned => job'[b].pc = "say" /\ job'[b].after = "restart"
          /\ seat'[s].room = seat[s].room /\ waiting' = waiting
      BY <1>9, JoinAgainDoes DEF apps
    <2>2. AfterTurn(s)' = AfterTurn(s)  BY <2>1 DEF AfterTurn
    <2>3. TurnOffers(s) => TurnOffers(s)'  BY <2>1 DEF TurnOffers
    <2>. QED  BY <1>2, <1>6, <2>1, <2>2, <2>3, TurnKept
  <1>10. CASE JoinLeaves(b, s)
    <2>1. /\ job[b].pc = "take" /\ job'[b].pc = "seat" /\ job'[b].want = job[b].want /\ waiting' = waiting
      BY <1>10, JoinLeavesDoes DEF apps
    <2>2. AfterTurn(s)' = AfterTurn(s) /\ TurnOffers(s)'  BY <2>1 DEF AfterTurn, TurnOffers
    <2>. QED  BY <1>2, <1>6, <2>1, <2>2, TurnKept
  <1>11. CASE TakeSeat(b, s)
    <2>1. /\ job[b].pc = "seat" /\ job'[b].pc = "say" /\ seat'[s].room = job[b].want.room
          /\ job'[b].want = job[b].want /\ waiting' = waiting \ {s}
      BY <1>11, TakeSeatDoes
    <2>2. AfterTurn(s)' = AfterTurn(s)  BY <2>1 DEF AfterTurn
    <2>. QED  BY <1>2, <1>6, <2>1, <2>2, TurnKept
  <1>12. CASE Finish(b, s)
    <2>1. /\ job[b].pc = "say" /\ job'[b] = Rest /\ waiting' \subseteq waiting /\ seat' = seat
          /\ job[b].after = "restart" /\ seat[s] # NoSeat => waiting' = waiting \ {s}
      BY <1>12, FinishDoes DEF gateway
    <2>2. AfterTurn(s)' = AfterTurn(s)  BY <1>0, <2>1 DEF AfterTurn
    <2>3. job[b].after = "restart" => seat[s] # NoSeat
      <3>1. JobOK(job[b]) /\ seat[s].room = job[b].want.room
        BY <2>1, ThreadIs DEF SessionOK, FollowOK
      <3>2. job[b].after = "restart" => job[b].want \in Joins  BY <3>1 DEF JobOK
      <3>3. job[b].after = "restart" => seat[s].room \in Rooms  BY <3>1, <3>2 DEF Joins
      <3>4. seat[s] = NoSeat <=> seat[s].room = NoRoom  BY <1>0, SeatIs
      <3>. QED  BY <3>3, <3>4, VoiceAssumption
    <2>4. s \in waiting' => ~TurnOffers(s)  BY <2>1, <2>3 DEF TurnOffers
    <2>. QED  BY <1>0, <1>2, <1>6, <2>1, <2>2, <2>4, TurnKept
  <1>. QED  BY <1>8, <1>9, <1>10, <1>11, <1>12

\* A room told, by the handler, the turn or anybody else.
LEMMA TellingKeeps ==
  ASSUME ShapeOK, NEW s \in Sessions, SessionOK(s), NEW a \in Threads, ReadPeers(a) \/ Publish(a)
  PROVE  SessionOK(s)'
  <1>0. Rest.pc = "rest"  BY RestIs
  <1>1. OnlyJob(a) /\ seat' = seat /\ held' = held /\ link' = link /\ waiting' = waiting
    BY ReadPeersDoes, PublishDoes DEF gateway, apps
  <1>2. /\ job[a].pc \in {"say", "publish"} /\ job[a] # Rest
        /\ \/ job'[a] = Rest /\ job[a].after = "none"
           \/ /\ job'[a].pc \in {"say", "publish"} /\ job'[a].want = job[a].want
              /\ job'[a].after = job[a].after
    BY <1>0, ReadPeersDoes, PublishDoes
  <1>3. CASE a = Handler(s)
    <2>1. Taking(s)  BY <1>2, <1>3 DEF Taking
    <2>2. held[s] = NotHeld /\ job[Turn(s)] = Rest  BY <2>1, HandlerAlone
    <2>3. job'[Turn(s)] = job[Turn(s)]  BY <1>1, <1>3, ThreadsAre DEF OnlyJob
    <2>4. ~Asked(s) /\ ~Asked(s)' /\ ~AskOffers(s)  BY <1>0, <1>2, <1>3 DEF Asked, AskOffers
    <2>5. link[s] = AfterHeld(s)'
      <3>1. link[s] = AfterHeld(s)  BY <2>4 DEF SessionOK, FollowOK
      <3>. QED  BY <1>1, <2>3, <3>1 DEF AfterHeld, AfterTurn
    <2>. QED  BY <1>1, <2>2, <2>3, <2>4, <2>5, HandlerKept
  <1>4. CASE a = Turn(s)
    <2>1. ~Taking(s)  BY <1>2, <1>4, TurnAlone
    <2>2. job'[Handler(s)] = job[Handler(s)]  BY <1>1, <1>4, ThreadsAre DEF OnlyJob
    <2>3. AfterTurn(s)' = AfterTurn(s)  BY <1>0, <1>1, <1>2, <1>4 DEF AfterTurn
    <2>4. TurnOffers(s) => TurnOffers(s)'  BY <1>2, <1>4 DEF TurnOffers
    <2>5. job'[a].pc \in {"say", "publish"} => seat'[s].room = job'[a].want.room
      BY <1>0, <1>1, <1>2, <1>4 DEF SessionOK, FollowOK
    <2>. QED  BY <1>1, <1>4, <2>1, <2>2, <2>3, <2>4, <2>5, TurnKept
  <1>5. CASE a # Handler(s) /\ a # Turn(s)
    <2>1. job'[Handler(s)] = job[Handler(s)] /\ job'[Turn(s)] = job[Turn(s)]
      BY <1>1, <1>5, ThreadsAre DEF OnlyJob
    <2>. QED  BY <1>1, <2>1, ElseKept
  <1>. QED  BY <1>3, <1>4, <1>5

\* A request is asked: what its app waits for is what it will be offered there, or it
\* is on its way already.
LEMMA AskKeeps ==
  ASSUME ShapeOK, NEW s \in Sessions, SessionOK(s), NEW w \in Joins \union {Leave}, Ask(s, w)
  PROVE  SessionOK(s)'
  <1>. DEFINE h == Handler(s)
  <1>0. Rest.pc = "rest"  BY RestIs
  <1>1. /\ OnlyJob(h) /\ job[h] = Rest /\ job'[h].pc \in {"look", "change"} /\ job'[h].want = w
        /\ link'[s] = w.room /\ held' = held /\ seat' = seat
        /\ waiting' = IF w = Leave THEN waiting \ {s}
                      ELSE IF link[s] # w.room THEN waiting \union {s} ELSE waiting
    BY AskDoes DEF gateway
  <1>2. job'[Turn(s)] = job[Turn(s)]  BY <1>1, ThreadsAre DEF OnlyJob
  <1>3. AfterTurn(s)' = AfterTurn(s) /\ AfterHeld(s)' = AfterHeld(s)
    BY <1>1, <1>2 DEF AfterTurn, AfterHeld
  <1>4. Asked(s)' /\ ~Asked(s) /\ ~Taking(s)' /\ ~AskOffers(s)
    BY <1>0, <1>1 DEF Asked, Taking, AskOffers
  <1>5. link[s] = AfterHeld(s)  BY <1>4 DEF SessionOK, FollowOK
  <1>6. FollowOK(s)'  BY <1>1, <1>2, <1>4 DEF SessionOK, FollowOK
  <1>7. ASSUME s \in waiting'
        PROVE  link'[s] # NoRoom /\ (TurnOffers(s)' \/ HeldOffers(s)' \/ AskOffers(s)')
    <2>1. w \in Joins /\ w.room \in Rooms  BY <1>1, <1>7, LeaveIs DEF Requests
    <2>2. link'[s] # NoRoom  BY <1>1, <2>1, VoiceAssumption
    <2>3. CASE link[s] # w.room  BY <1>1, <1>3, <1>5, <2>2, <2>3 DEF AskOffers
    <2>4. CASE link[s] = w.room
      <3>1. s \in waiting  BY <1>1, <1>7, <2>4
      <3>2. TurnOffers(s) \/ HeldOffers(s)  BY <1>4, <3>1 DEF SessionOK, OfferOK
      <3>3. TurnOffers(s)' \/ HeldOffers(s)'  BY <1>1, <1>2, <1>3, <3>2 DEF TurnOffers, HeldOffers
      <3>. QED  BY <2>2, <3>3
    <2>. QED  BY <2>3, <2>4
  <1>8. OfferOK(s)'  BY <1>7 DEF OfferOK
  <1>. QED  BY <1>6, <1>8 DEF SessionOK

LEMMA LookedUpKeeps ==
  ASSUME ShapeOK, NEW s \in Sessions, SessionOK(s), LookedUp(s), s \notin unsure'
  PROVE  SessionOK(s)'
  <1>. DEFINE h == Handler(s)
  <1>1. /\ OnlyJob(h) /\ job[h].pc = "look" /\ job'[h].pc = "change" /\ job'[h].want = job[h].want
        /\ held' = held /\ seat' = seat /\ link' = link /\ waiting' = waiting
    BY LookedUpDoes DEF gateway
  <1>2. job'[Turn(s)] = job[Turn(s)]  BY <1>1, ThreadsAre DEF OnlyJob
  <1>3. AfterHeld(s)' = AfterHeld(s)  BY <1>1, <1>2 DEF AfterTurn, AfterHeld
  <1>4. Asked(s)' /\ Asked(s) /\ ~Taking(s)' /\ (AskOffers(s) => AskOffers(s)')
    BY <1>1, <1>3 DEF Asked, Taking, AskOffers
  <1>5. link[s] = job'[h].want.room  BY <1>1, <1>4 DEF SessionOK, FollowOK
  <1>. QED  BY <1>1, <1>2, <1>4, <1>5, HandlerKept

\* A request is held: behind another that is, or alone; or it is granted.
LEMMA ChangeVoiceKeeps ==
  ASSUME ShapeOK, NEW s \in Sessions, SessionOK(s), ChangeVoice(s)
  PROVE  SessionOK(s)'
  <1>. DEFINE h == Handler(s)
              w == job[h].want
              first == [NotHeld EXCEPT !.last = seat[s].room]
              n == Newest(held[s], w)
              f == Newest(first, w)
  <1>0. Rest.pc = "rest" /\ TypeOK /\ w \in Requests  BY RestIs, ThreadIs DEF ShapeOK
  <1>1. /\ OnlyJob(h) /\ job[h].pc = "change"
        /\ \/ held[s] # NotHeld /\ held'[s] = n /\ job'[h] = Rest
           \/ held[s] = NotHeld /\ held'[s] = f /\ job'[h] = Rest
           \/ /\ held[s] = NotHeld /\ job[Turn(s)] = Rest /\ held'[s] = held[s]
              /\ job'[h].pc = "take" /\ job'[h].want = w
        /\ seat' = seat /\ link' = link /\ waiting' = waiting
    BY ChangeVoiceDoes DEF apps
  <1>2. /\ n # NotHeld /\ n.wanted = w /\ n.last = w.room
        /\ n.churned = "yes" <=> w = Leave \/ w.room # held[s].last \/ held[s].churned = "yes"
        /\ f # NotHeld /\ f.wanted = w /\ f.last = w.room
    BY <1>0, HeldIs
  <1>3. job'[Turn(s)] = job[Turn(s)]  BY <1>1, ThreadsAre DEF OnlyJob
  <1>4. AfterTurn(s)' = AfterTurn(s)  BY <1>1, <1>3 DEF AfterTurn
  <1>5. Asked(s) /\ link[s] = w.room /\ ~Taking(s)
    BY <1>1 DEF Asked, Taking, SessionOK, FollowOK
  <1>6. w.room # NoRoom => w # Leave  BY DEF Leave
  <1>7. TurnOffers(s) => TurnOffers(s)'  BY <1>1, <1>3 DEF TurnOffers
  <1>. HIDE DEF n, f, w, h, first
  <1>8. ASSUME held'[s] # NotHeld, held'[s].wanted = w, held'[s].last = w.room, job'[h] = Rest
        PROVE  FollowOK(s)'
    <2>1. ~Asked(s)' /\ ~Taking(s)'  BY <1>0, <1>8 DEF Asked, Taking, h
    <2>2. AfterHeld(s)' = w.room  BY <1>8 DEF AfterHeld
    <2>3. job'[Turn(s)].pc \in {"say", "publish"} => seat'[s].room = job'[Turn(s)].want.room
      BY <1>1, <1>3 DEF SessionOK, FollowOK
    <2>. QED  BY <1>1, <1>5, <1>8, <2>1, <2>2, <2>3 DEF FollowOK
  <1>9. CASE held[s] # NotHeld /\ held'[s] = n /\ job'[h] = Rest
    <2>1. FollowOK(s)'  BY <1>2, <1>8, <1>9
    <2>2. held[s].last = held[s].wanted.room  BY <1>9 DEF SessionOK, FollowOK
    <2>3. ASSUME s \in waiting, HeldOffers(s) \/ AskOffers(s)
          PROVE  HeldOffers(s)'
      <3>1. w # Leave  BY <1>5, <1>6, <2>3 DEF SessionOK, OfferOK
      <3>2. AskOffers(s) => w.room # held[s].last
        BY <1>1, <1>9, <2>2 DEF AskOffers, AfterHeld, w, h
      <3>3. HeldOffers(s) => held[s].churned = "yes" \/ AfterTurn(s) # held[s].last
        BY <2>2 DEF HeldOffers
      <3>4. n.churned = "yes" \/ AfterTurn(s) # w.room  BY <1>2, <2>3, <3>2, <3>3
      <3>. QED  BY <1>2, <1>4, <1>9, <3>1, <3>4 DEF HeldOffers
    <2>4. OfferOK(s)'  BY <1>1, <1>7, <2>3 DEF SessionOK, OfferOK
    <2>. QED  BY <2>1, <2>4 DEF SessionOK
  <1>10. CASE held[s] = NotHeld /\ held'[s] = f /\ job'[h] = Rest
    <2>1. FollowOK(s)'  BY <1>2, <1>8, <1>10
    <2>3. ASSUME s \in waiting, HeldOffers(s) \/ AskOffers(s)
          PROVE  HeldOffers(s)'
      <3>1. w # Leave  BY <1>5, <1>6, <2>3 DEF SessionOK, OfferOK
      <3>2. AskOffers(s)  BY <1>10, <2>3 DEF HeldOffers
      <3>3. w.room # AfterTurn(s)  BY <1>1, <1>10, <3>2 DEF AskOffers, AfterHeld, w, h
      <3>. QED  BY <1>2, <1>4, <1>10, <3>1, <3>3 DEF HeldOffers
    <2>4. OfferOK(s)'  BY <1>1, <1>7, <2>3 DEF SessionOK, OfferOK
    <2>. QED  BY <2>1, <2>4 DEF SessionOK
  <1>11. CASE /\ held[s] = NotHeld /\ job[Turn(s)] = Rest /\ held'[s] = held[s]
              /\ job'[h].pc = "take" /\ job'[h].want = w
    <2>1. AfterHeld(s)' = AfterHeld(s)  BY <1>4, <1>11 DEF AfterHeld
    <2>2. Asked(s)' /\ (AskOffers(s) => AskOffers(s)')
      BY <1>1, <1>11, <2>1 DEF Asked, AskOffers, h, w
    <2>. QED  BY <1>1, <1>3, <1>5, <1>11, <2>2, HandlerKept DEF h
  <1>. QED  BY <1>1, <1>9, <1>10, <1>11

\* A turn takes what was held.
LEMMA TurnComesKeeps ==
  ASSUME ShapeOK, NEW s \in Sessions, SessionOK(s), s \in alive, TurnComes(s)
  PROVE  SessionOK(s)'
  <1>. DEFINE b == Turn(s)
  <1>0. Rest.pc = "rest"  BY RestIs
  <1>1. /\ OnlyJob(b) /\ job[b] = Rest /\ held'[s] = NotHeld
        /\ \/ held[s] = NotHeld /\ job' = job
           \/ /\ held[s] # NotHeld
              /\ job'[b].pc = "take" /\ job'[b].want = held[s].wanted
              /\ job'[b].churned = (held[s].churned = "yes")
        /\ seat' = seat /\ link' = link /\ waiting' = waiting
    BY TurnComesDoes DEF apps
  <1>2. job'[Handler(s)] = job[Handler(s)]  BY <1>1, ThreadsAre DEF OnlyJob
  <1>3. CASE held[s] = NotHeld /\ job' = job
    <2>1. held'[s] = held[s] /\ job'[Turn(s)] = job[Turn(s)]  BY <1>1, <1>3
    <2>. QED  BY <1>1, <1>2, <2>1, ElseKept
  <1>4. CASE /\ held[s] # NotHeld
             /\ job'[b].pc = "take" /\ job'[b].want = held[s].wanted
             /\ job'[b].churned = (held[s].churned = "yes")
    <2>1. ~Taking(s) /\ ~Taking(s)' /\ Asked(s)' = Asked(s)
      BY <1>2, <1>4, HandlerAlone DEF Taking, Asked
    <2>2. AfterHeld(s)' = AfterHeld(s)  BY <1>1, <1>4 DEF AfterHeld, AfterTurn
    <2>3. FollowOK(s)'  BY <1>1, <1>2, <1>4, <2>1, <2>2 DEF SessionOK, FollowOK
    <2>4. HeldOffers(s) => TurnOffers(s)'
      BY <1>0, <1>1, <1>4 DEF HeldOffers, AfterTurn, TurnOffers
    <2>5. ~TurnOffers(s)  BY <1>0, <1>1 DEF TurnOffers
    <2>6. AskOffers(s) => AskOffers(s)'  BY <1>2, <2>2 DEF AskOffers
    <2>7. OfferOK(s)'  BY <1>1, <2>4, <2>5, <2>6 DEF SessionOK, OfferOK
    <2>. QED  BY <2>3, <2>7 DEF SessionOK
  <1>. QED  BY <1>1, <1>3, <1>4

LEMMA GoodbyeKeeps ==
  ASSUME ShapeOK, NEW s \in Sessions, SessionOK(s), Goodbye(s), s \notin unsure'
  PROVE  SessionOK(s)'
  <1>. DEFINE h == Handler(s)
  <1>0. Rest.pc = "rest"  BY RestIs
  <1>1. /\ OnlyJob(h) /\ job'[h].pc = "take" /\ job'[h].want = Leave /\ held'[s] = NotHeld
        /\ link'[s] = NoRoom /\ s \notin waiting' /\ job[Turn(s)] = Rest
    BY GoodbyeDoes
  <1>2. job'[Turn(s)] = Rest  BY <1>1, ThreadsAre DEF OnlyJob
  <1>3. Asked(s)' /\ Leave.room = NoRoom  BY <1>1 DEF Asked, Leave
  <1>4. FollowOK(s)'  BY <1>0, <1>1, <1>2, <1>3 DEF FollowOK
  <1>. QED  BY <1>1, <1>4 DEF SessionOK, OfferOK

\* A thread that is not the session's handler or turn.
LEMMA OthersKeep ==
  ASSUME NEW s \in Sessions, SessionOK(s), NEW a \in Threads, a # Handler(s), a # Turn(s), OnlyJob(a),
         seat'[s].room = seat[s].room, held'[s] = held[s], link'[s] = link[s],
         s \in waiting' => s \in waiting
  PROVE  SessionOK(s)'
  <1>1. job'[Handler(s)] = job[Handler(s)] /\ job'[Turn(s)] = job[Turn(s)]
    BY ThreadsAre DEF OnlyJob
  <1>. QED  BY <1>1, ElseKept

\* A session that is alive and sure of itself was.
LEMMA SureWas ==
  ASSUME ShapeOK, Next
  PROVE  alive' \subseteq alive /\ unsure \subseteq unsure'
  <1>1. ASSUME NEW s \in Sessions, NEW a \in {Handler(s), Turn(s), End(s)},
               \/ Part(a, s) \/ JoinAgain(a, s) \/ JoinRefused(a, s) \/ JoinLeaves(a, s)
               \/ TakeSeat(a, s) \/ Finish(a, s)
        PROVE  alive' \subseteq alive /\ unsure \subseteq unsure'
    BY <1>1 DEF Part, JoinAgain, JoinRefused, JoinLeaves, TakeSeat, Finish, gateway, apps
  <1>2. ASSUME NEW s \in Sessions,
               LookedUp(s) \/ ChangeVoice(s) \/ TurnComes(s) \/ EndClears(s)
               \/ TakeOutOne(s) \/ Goodbye(s) \/ SessionEnds(s)
        PROVE  alive' \subseteq alive /\ unsure \subseteq unsure'
    BY <1>2, LookedUpDoes, ChangeVoiceDoes, TurnComesDoes, EndClearsDoes, TakeOutOneDoes,
       GoodbyeDoes, SessionEndsDoes DEF gateway, apps
  <1>3. ASSUME NEW s \in Sessions, NEW w \in Joins \union {Leave}, Ask(s, w)
        PROVE  alive' \subseteq alive /\ unsure \subseteq unsure'
    BY <1>3, AskDoes DEF gateway
  <1>4. ASSUME NEW a \in Threads, ReadPeers(a) \/ Publish(a)
        PROVE  alive' \subseteq alive /\ unsure \subseteq unsure'
    BY <1>4, ReadPeersDoes, PublishDoes DEF gateway, apps
  <1>5. ASSUME NEW u \in Users, NEW r \in Rooms, TakeOut(u, r)
        PROVE  alive' \subseteq alive /\ unsure \subseteq unsure'
    BY <1>5, TakeOutDoes DEF gateway
  <1>6. ASSUME NEW p \in staying, StayedOn(p)
        PROVE  alive' \subseteq alive /\ unsure \subseteq unsure'
    BY <1>6, StayedOnDoes DEF gateway, apps
  <1>7. CASE TakenOut  BY <1>7, TakenOutDoes DEF gateway, apps
  <1>. QED  BY <1>1, <1>2, <1>3, <1>4, <1>5, <1>6, <1>7, StepIs

\* Who a seating step is about: the session itself, by its handler or its turn, or
\* another; its end does not come while it is alive.
LEMMA SeatingKeeps ==
  ASSUME ShapeOK, EndsOK, NEW s \in alive, s \notin unsure', SessionOK(s),
         NEW t \in Sessions, NEW a \in {Handler(t), Turn(t), End(t)},
         \/ Part(a, t) \/ JoinAgain(a, t) \/ JoinRefused(a, t) \/ JoinLeaves(a, t)
         \/ TakeSeat(a, t) \/ Finish(a, t)
  PROVE  SessionOK(s)'
  <1>0. Rest.pc = "rest" /\ TypeOK /\ s \in Sessions /\ a \in Threads
    BY RestIs, ThreadsAre DEF ShapeOK, TypeOK
  <1>1. CASE t = s
    <2>1. ~JoinRefused(a, s)
      <3>1. JoinRefused(a, s) => s \in unsure'  BY <1>1, JoinRefusedDoes
      <3>. QED  BY <3>1
    <2>2. a # End(s)
      <3>1. job[End(s)] = Rest  BY <1>0 DEF EndsOK
      <3>2. job[a].pc # "rest"  BY DEF Part, JoinAgain, JoinRefused, JoinLeaves, TakeSeat, Finish
      <3>. QED  BY <1>0, <3>1, <3>2
    <2>3. CASE a = Handler(s)  BY <1>0, <1>1, <2>1, <2>3, HandlerSeats
    <2>4. CASE a = Turn(s)  BY <1>0, <1>1, <2>1, <2>4, TurnSeats
    <2>. QED  BY <1>1, <2>2, <2>3, <2>4
  <1>2. CASE t # s
    <2>1. a # Handler(s) /\ a # Turn(s)  BY <1>0, <1>2, ThreadsAre
    <2>2. CASE Part(a, t) \/ JoinLeaves(a, t)
      <3>1. OnlyJob(a) /\ VoiceLeave(t) /\ held' = held /\ link' = link /\ waiting' = waiting
        BY <2>2, PartDoes, JoinLeavesDoes DEF apps
      <3>2. seat'[s] = seat[s]  BY <1>0, <1>2, <3>1, LeaveTypes
      <3>. QED  BY <1>0, <2>1, <3>1, <3>2, OthersKeep
    <2>3. CASE JoinAgain(a, t)
      <3>1. OnlyJob(a) /\ seat'[s] = seat[s] /\ held' = held /\ link' = link /\ waiting' = waiting
        BY <1>0, <1>2, <2>3, JoinAgainDoes DEF apps
      <3>. QED  BY <1>0, <2>1, <3>1, OthersKeep
    <2>4. CASE TakeSeat(a, t)
      <3>1. OnlyJob(a) /\ seat'[s] = seat[s] /\ held' = held /\ link' = link /\ waiting' = waiting \ {t}
        BY <1>0, <1>2, <2>4, TakeSeatDoes
      <3>. QED  BY <1>0, <2>1, <3>1, OthersKeep
    <2>5. CASE JoinRefused(a, t) \/ Finish(a, t)
      <3>1. OnlyJob(a) /\ seat' = seat /\ held' = held /\ link' = link /\ waiting' \subseteq waiting
        BY <2>5, JoinRefusedDoes, FinishDoes DEF gateway
      <3>. QED  BY <1>0, <2>1, <3>1, OthersKeep
    <2>. QED  BY <2>2, <2>3, <2>4, <2>5
  <1>. QED  BY <1>1, <1>2

LEMMA SessionStep ==
  ASSUME ShapeOK, EndsOK, Next, NEW s \in alive' \ unsure',
         \A t \in alive \ unsure : SessionOK(t)
  PROVE  SessionOK(s)'
  <1>0. /\ Rest.pc = "rest" /\ TypeOK /\ s \in Sessions /\ s \in alive /\ s \notin unsure
        /\ s \in alive' /\ s \notin unsure' /\ SessionOK(s)
    BY RestIs, SureWas DEF ShapeOK, TypeOK
  <1>1. ASSUME NEW t \in Sessions, NEW a \in {Handler(t), Turn(t), End(t)},
               \/ Part(a, t) \/ JoinAgain(a, t) \/ JoinRefused(a, t) \/ JoinLeaves(a, t)
               \/ TakeSeat(a, t) \/ Finish(a, t)
        PROVE  SessionOK(s)'
    BY <1>0, <1>1, SeatingKeeps
  <1>2. ASSUME NEW t \in Sessions, LookedUp(t) \/ ChangeVoice(t) \/ TurnComes(t) \/ Goodbye(t)
        PROVE  SessionOK(s)'
    <2>1. CASE t = s  BY <1>0, <1>2, <2>1, LookedUpKeeps, ChangeVoiceKeeps, TurnComesKeeps, GoodbyeKeeps
    <2>2. CASE t # s
      <3>1. /\ Handler(t) # Handler(s) /\ Handler(t) # Turn(s) /\ Turn(t) # Handler(s) /\ Turn(t) # Turn(s)
            /\ Handler(t) \in Threads /\ Turn(t) \in Threads
        BY <1>0, <2>2, ThreadsAre
      <3>2. CASE LookedUp(t)
        <4>1. OnlyJob(Handler(t)) /\ seat' = seat /\ held' = held /\ link' = link /\ waiting' = waiting
          BY <3>2, LookedUpDoes DEF gateway
        <4>. QED  BY <1>0, <3>1, <4>1, OthersKeep
      <3>3. CASE ChangeVoice(t)
        <4>1. /\ OnlyJob(Handler(t)) /\ seat' = seat /\ held'[s] = held[s] /\ link' = link
              /\ waiting' = waiting
          BY <1>0, <2>2, <3>3, ChangeVoiceDoes DEF apps
        <4>. QED  BY <1>0, <3>1, <4>1, OthersKeep
      <3>4. CASE TurnComes(t)
        <4>1. /\ OnlyJob(Turn(t)) /\ seat' = seat /\ held'[s] = held[s] /\ link' = link
              /\ waiting' = waiting
          BY <1>0, <2>2, <3>4, TurnComesDoes DEF apps
        <4>. QED  BY <1>0, <3>1, <4>1, OthersKeep
      <3>5. CASE Goodbye(t)
        <4>1. /\ OnlyJob(Handler(t)) /\ seat' = seat /\ held'[s] = held[s] /\ link'[s] = link[s]
              /\ waiting' = waiting \ {t}
          BY <1>0, <2>2, <3>5, GoodbyeDoes
        <4>. QED  BY <1>0, <3>1, <4>1, OthersKeep
      <3>. QED  BY <1>2, <3>2, <3>3, <3>4, <3>5
    <2>. QED  BY <2>1, <2>2
  <1>3. ASSUME NEW t \in Sessions, NEW w \in Joins \union {Leave}, Ask(t, w)
        PROVE  SessionOK(s)'
    <2>1. CASE t = s  BY <1>0, <1>3, <2>1, AskKeeps
    <2>2. CASE t # s
      <3>1. /\ Handler(t) # Handler(s) /\ Handler(t) # Turn(s) /\ Handler(t) \in Threads
        BY <1>0, <2>2, ThreadsAre
      <3>2. /\ OnlyJob(Handler(t)) /\ seat' = seat /\ held' = held /\ link'[s] = link[s]
            /\ s \in waiting' => s \in waiting
        BY <1>0, <1>3, <2>2, AskDoes DEF gateway
      <3>. QED  BY <1>0, <3>1, <3>2, OthersKeep
    <2>. QED  BY <2>1, <2>2
  <1>4. ASSUME NEW a \in Threads, ReadPeers(a) \/ Publish(a)
        PROVE  SessionOK(s)'
    BY <1>0, <1>4, TellingKeeps
  <1>5. ASSUME NEW t \in Sessions, EndClears(t)
        PROVE  SessionOK(s)'
    <2>1. End(t) # Handler(s) /\ End(t) # Turn(s) /\ End(t) \in Threads  BY <1>0, ThreadsAre
    <2>2. OnlyJob(End(t)) /\ job[End(t)].pc = "clear"  BY <1>5, EndClearsDoes
    <2>3. t # s  BY <1>0, <2>2 DEF EndsOK
    <2>4. seat' = seat /\ held'[s] = held[s] /\ link' = link /\ waiting' = waiting
      BY <1>0, <1>5, <2>3, EndClearsDoes DEF apps
    <2>. QED  BY <1>0, <2>1, <2>2, <2>4, OthersKeep
  <1>6. ASSUME NEW t \in Sessions, SessionEnds(t)
        PROVE  SessionOK(s)'
    <2>1. End(t) # Handler(s) /\ End(t) # Turn(s) /\ End(t) \in Threads  BY <1>0, ThreadsAre
    <2>2. OnlyJob(End(t)) /\ seat' = seat /\ held' = held /\ link' = link /\ waiting' = waiting
      BY <1>6, SessionEndsDoes DEF apps
    <2>. QED  BY <1>0, <2>1, <2>2, OthersKeep
  <1>7. Host # Handler(s) /\ Host # Turn(s) /\ Host \in Threads  BY <1>0, ThreadsAre
  <1>8. ASSUME NEW t \in Sessions, TakeOutOne(t)
        PROVE  SessionOK(s)'
    <2>1. /\ OnlyJob(Host) /\ unsure' = unsure \union {t} /\ VoiceLeave(t)
          /\ held' = held /\ link' = link /\ waiting' = waiting
      BY <1>8, TakeOutOneDoes
    <2>2. seat'[s] = seat[s]  BY <1>0, <2>1, LeaveTypes
    <2>. QED  BY <1>0, <1>7, <2>1, <2>2, OthersKeep
  <1>9. CASE TakenOut
    <2>1. OnlyJob(Host) /\ seat' = seat /\ held' = held /\ link' = link /\ waiting' = waiting
      BY <1>9, TakenOutDoes DEF gateway, apps
    <2>. QED  BY <1>0, <1>7, <2>1, OthersKeep
  <1>10. ASSUME NEW u \in Users, NEW r \in Rooms, TakeOut(u, r)
         PROVE  SessionOK(s)'
    <2>1. OnlyJob(Host) /\ seat' = seat /\ held' = held /\ link' = link /\ waiting' = waiting
      BY <1>10, TakeOutDoes DEF gateway
    <2>. QED  BY <1>0, <1>7, <2>1, OthersKeep
  <1>11. ASSUME NEW p \in staying, StayedOn(p)
         PROVE  SessionOK(s)'
    <2>1. job' = job /\ seat' = seat /\ held' = held /\ link' = link /\ waiting' = waiting
      BY <1>11, StayedOnDoes DEF gateway, apps
    <2>. QED  BY <1>0, <2>1, ElseKept
  <1>. QED  BY <1>1, <1>2, <1>3, <1>4, <1>5, <1>6, <1>8, <1>9, <1>10, <1>11, StepIs

-----------------------------------------------------------------------------
(* What holds of every execution *)

LEMMA VInvInit ==
  ASSUME Init
  PROVE  VInv
  <1>0. JobOK(Rest) /\ Rest \in Jobs /\ Rest.want \in Requests /\ Rest.pc = "rest"  BY RestIs
  <1>1. \A a \in Threads : job[a] = Rest  BY DEF Init
  <1>2. \A s \in Sessions : /\ seat[s] = NoSeat /\ held[s] = NotHeld /\ link[s] = NoRoom
                            /\ job[Turn(s)] = Rest /\ job[Handler(s)] = Rest /\ job[End(s)] = Rest
    BY <1>1, ThreadsAre DEF Init
  <1>3. ShapeOK
    <2>1. TypeOK  BY DEF Init, TypeOK
    <2>2. job \in [Threads -> Jobs]  BY <1>0 DEF Init
    <2>. QED  BY <1>0, <1>1, <2>1, <2>2 DEF ShapeOK
  <1>4. EndsOK  BY <1>2 DEF EndsOK, Init
  <1>5. NumberOK  BY <1>2 DEF NumberOK, Init
  <1>6. ToldOK  BY <1>1, ThreadsAre DEF ToldOK, Init
  <1>7. ASSUME NEW s \in Sessions
        PROVE  SessionOK(s)
    <2>1. ~Asked(s) /\ ~Taking(s)  BY <1>0, <1>2 DEF Asked, Taking
    <2>2. AfterHeld(s) = NoRoom  BY <1>0, <1>2 DEF AfterHeld, AfterTurn, NoSeat
    <2>3. FollowOK(s)  BY <1>0, <1>2, <2>1, <2>2 DEF FollowOK
    <2>4. s \notin waiting  BY DEF Init
    <2>. QED  BY <2>3, <2>4 DEF SessionOK, OfferOK
  <1>8. alive \subseteq Sessions  BY DEF Init
  <1>. QED  BY <1>3, <1>4, <1>5, <1>6, <1>7, <1>8 DEF VInv

LEMMA VInvStep ==
  ASSUME VInv, [Next]_vars
  PROVE  VInv'
  <1>1. CASE Next
    <2>1. ShapeOK' /\ EndsOK' /\ NumberOK' /\ ToldOK'
      BY <1>1, ShapeStep, EndsStep, NumberStep, ToldStep DEF VInv
    <2>2. \A s \in alive' \ unsure' : SessionOK(s)'
      BY <1>1, SessionStep DEF VInv
    <2>. QED  BY <2>1, <2>2 DEF VInv
  <1>2. CASE UNCHANGED vars
    <2>. USE <1>2 DEF vars, gateway, stays, lists, apps
    <2>1. ShapeOK'
      BY DEF VInv, ShapeOK, TypeOK, Threads, Host, JobOK, Jobs, Requests, Joins
    <2>2. EndsOK' /\ NumberOK' /\ ToldOK'
      BY DEF VInv, EndsOK, NumberOK, ToldOK, Turn, End, Threads, Host
    <2>3. ASSUME NEW s \in alive \ unsure
          PROVE  SessionOK(s)'
      BY ElseKept DEF VInv, ShapeOK, TypeOK
    <2>. QED  BY <2>1, <2>2, <2>3 DEF VInv
  <1>. QED  BY <1>1, <1>2

LEMMA VInvHolds == Spec => []VInv
  <1>1. Init => VInv  BY VInvInit
  <1>2. VInv /\ [Next]_vars => VInv'  BY VInvStep
  <1>. QED  BY <1>1, <1>2, PTL DEF Spec

\* The maps of the gateway keep their shape: a seat's number is never zero.
THEOREM VoiceTypes == Spec => []TypeOK
  <1>1. VInv => TypeOK  BY DEF VInv, ShapeOK
  <1>. QED  BY <1>1, VInvHolds, PTL

\* Once nothing of a session's is under way or held, its seat is where its app's last
\* frame said, and an app with a seat is not left waiting for an offer, whatever was
\* granted, held, churned, refused or hung up on the way (voice_held, HeldVoice::newest,
\* voice_restart).
THEOREM SeatIsWhereAsked == Spec => []SeatFollows
  <1>1. VInv => SeatFollows
    <2>. SUFFICES ASSUME VInv, NEW s \in Sessions, Settled(s), s \notin unsure
                  PROVE  seat[s].room = link[s] /\ (seat[s] # NoSeat => s \notin waiting)
      BY DEF SeatFollows
    <2>0. Rest.pc = "rest"  BY RestIs
    <2>1. SessionOK(s) /\ held[s] = NotHeld /\ job[Handler(s)] = Rest /\ job[Turn(s)] = Rest
      BY DEF VInv, Settled
    <2>2. ~Asked(s) /\ AfterHeld(s) = seat[s].room
      BY <2>0, <2>1 DEF Asked, AfterHeld, AfterTurn
    <2>3. seat[s].room = link[s]  BY <2>1, <2>2 DEF SessionOK, FollowOK
    <2>4. ~TurnOffers(s) /\ ~HeldOffers(s) /\ ~AskOffers(s)
      BY <2>0, <2>1 DEF TurnOffers, HeldOffers, AskOffers
    <2>. QED  BY <2>1, <2>3, <2>4 DEF SessionOK, OfferOK
  <1>. QED  BY <1>1, VInvHolds, PTL

\* Once nothing is under way, and as long as nobody was taken out, no room has a list
\* that changed since it was last read to be told (voice_part, voice_join,
\* announce_voice).
THEOREM EveryChangeIsTold == Spec => []ChangesAreTold
  <1>1. VInv => ChangesAreTold
    <2>1. Rest.pc = "rest"  BY RestIs
    <2>2. \A r : ~WillTell(Rest, r)  BY <2>1 DEF WillTell
    <2>. QED  BY <2>2 DEF VInv, ToldOK, ChangesAreTold, Quiet
  <1>. QED  BY <1>1, VInvHolds, PTL

\* A held turn takes a seat only for a session still in the map: its entry is held
\* while it does, and the end waits for it.
THEOREM NoTurnSeatsTheGone == Spec => TurnSeatsLiving
  <1>1. VInv /\ [Next]_vars =>
          [\A s \in Sessions : job[Turn(s)].pc = "seat" /\ job'[Turn(s)].pc = "say" => s \in alive]_vars
    <2>1. Rest.pc = "rest"  BY RestIs
    <2>. QED  BY <2>1 DEF VInv, EndsOK
  <1>. QED  BY <1>1, VInvHolds, PTL DEF Spec, TurnSeatsLiving

\* A join line is written only about a seat that has never been given up
\* (join_line.rs, Gateway::holds_seat).
THEOREM LineIsOfOneWhoStayed == Spec => LineMeansStayed
  <1>1. VInv /\ [Next]_vars => [lines' \ lines \subseteq (1..seats) \ givenUp]_vars
    <2>. SUFFICES ASSUME VInv, Next
                  PROVE  lines' \ lines \subseteq (1..seats) \ givenUp
      OBVIOUS
    <2>0. ShapeOK /\ TypeOK  BY DEF VInv, ShapeOK
    <2>1. CASE lines' = lines  BY <2>1
    <2>2. ASSUME NEW p \in staying, StayedOn(p)
          PROVE  lines' \ lines \subseteq (1..seats) \ givenUp
      <3>1. /\ lines' \ lines \subseteq {p.num}
            /\ lines' # lines => HoldsSeat(p) /\ p.s \in Sessions /\ p.num \in Nat \ {0}
        BY <2>0, <2>2, StayedOnDoes
      <3>2. lines' # lines => seat[p.s].num = p.num /\ seat[p.s] # NoSeat
        BY <2>0, <3>1, SeatIs DEF HoldsSeat
      <3>3. lines' # lines => p.num \in (1..seats) \ givenUp
        BY <3>1, <3>2 DEF VInv, NumberOK
      <3>. QED  BY <3>1, <3>3
    <2>3. lines' = lines \/ \E p \in staying : StayedOn(p)
      <3>1. ASSUME NEW s \in Sessions, NEW a \in {Handler(s), Turn(s), End(s)},
                   \/ Part(a, s) \/ JoinAgain(a, s) \/ JoinRefused(a, s) \/ JoinLeaves(a, s)
                   \/ TakeSeat(a, s) \/ Finish(a, s)
            PROVE  lines' = lines
        BY <3>1 DEF Part, JoinAgain, JoinRefused, JoinLeaves, TakeSeat, Finish, stays
      <3>2. ASSUME NEW s \in Sessions,
                   LookedUp(s) \/ ChangeVoice(s) \/ TurnComes(s) \/ EndClears(s)
                   \/ TakeOutOne(s) \/ Goodbye(s) \/ SessionEnds(s)
            PROVE  lines' = lines
        BY <3>2 DEF LookedUp, ChangeVoice, TurnComes, EndClears, TakeOutOne, Goodbye, SessionEnds, stays
      <3>3. ASSUME NEW s \in Sessions, NEW w \in Joins \union {Leave}, Ask(s, w)
            PROVE  lines' = lines
        BY <3>3 DEF Ask, stays
      <3>4. ASSUME NEW a \in Threads, ReadPeers(a) \/ Publish(a)
            PROVE  lines' = lines
        BY <3>4 DEF ReadPeers, Publish, stays
      <3>5. ASSUME NEW u \in Users, NEW r \in Rooms, TakeOut(u, r)
            PROVE  lines' = lines
        BY <3>5 DEF TakeOut, stays
      <3>6. TakenOut => lines' = lines  BY DEF TakenOut, stays
      <3>. QED  BY <3>1, <3>2, <3>3, <3>4, <3>5, <3>6, StepIs
    <2>. QED  BY <2>1, <2>2, <2>3
  <1>. QED  BY <1>1, VInvHolds, PTL DEF Spec, LineMeansStayed

=============================================================================
