------------------------------- MODULE Voice -------------------------------
(***************************************************************************)
(* Voice seats: Gateway::voice and voice_held (gateway/mod.rs), the frames *)
(* that take and leave them (gateway/socket.rs change_voice, take_seat)    *)
(* and the line a room gets about a join (join_line.rs).                   *)
(*                                                                         *)
(* Several threads work on the maps at once, each map operation atomic:    *)
(* the socket handler of each session, its held turn, its task as it ends, *)
(* and a host taking somebody out.  Each has a job, and a job's steps are  *)
(* the map operations of the code.  The rate limiter and the clock are     *)
(* nondeterministic.                                                       *)
(***************************************************************************)
EXTENDS Naturals, Sequences, FiniteSets

CONSTANTS Sessions, Rooms, Users,
          UserOf,        \* whose session each is
          Forwarding,    \* sessions whose app takes voice through the server
          Mutes,         \* the controls a join may carry
          MaxPeers,      \* MAX_VOICE_PEERS
          MaxAsks,       \* bound: voice frames the apps send
          MaxTakeOuts,   \* bound: times the host takes somebody out
          NoRoom         \* Option::None for a room

ASSUME VoiceAssumption ==
  /\ UserOf \in [Sessions -> Users] /\ Forwarding \subseteq Sessions
  /\ Mutes \subseteq BOOLEAN /\ MaxPeers \in Nat /\ MaxAsks \in Nat /\ MaxTakeOuts \in Nat
  /\ NoRoom \notin Rooms

VARIABLES
  alive,     \* the sessions in Gateway::sessions
  seat,      \* Gateway::voice: [room, num, muted], NoSeat for none
  held,      \* Gateway::voice_held: [wanted, last, churned], NotHeld for none
  sleeping,  \* how many spawned turns of a session wait for RATE_VOICE_SEAT
  seats,     \* Gateway::seats: the last seat number given
  job,       \* what each thread is doing
  staying,   \* join_line: seats whose wait has not ended
  givenUp,   \* history: the numbers of the seats given up
  lines,     \* history: the numbers of the seats a line was written about
  unread,    \* rooms whose list changed since it was last read to be told
  told,      \* the newest voice.state of a room
  link,      \* the room an app has a connection for, or waits for one
  waiting,   \* apps waiting for an offer since they closed their connection
  unsure,    \* apps one of whose requests was ignored, refused or undone
  asks, outs

gateway == <<alive, seat, held, sleeping, seats>>
stays == <<staying, lines>>
lists == <<unread, told>>
apps == <<link, waiting, unsure, asks, outs>>
vars == <<gateway, job, givenUp, stays, lists, apps>>

NoSeat == [room |-> NoRoom, num |-> 0, muted |-> FALSE]
\* A request is the seat wanted; Leave is voice.leave.
Leave == [room |-> NoRoom, muted |-> FALSE]
Joins == [room : Rooms, muted : Mutes]
NotHeld == [wanted |-> Leave, last |-> NoRoom, churned |-> "not held"]

Handler(s) == <<"handler", s>>
Turn(s) == <<"turn", s>>
End(s) == <<"end", s>>
Host == <<"host", "any">>
Threads == ({"handler", "turn", "end"} \X Sessions) \union {Host}

\* A thread at rest, and one with its work cut out.
Rest == [pc |-> "rest", want |-> Leave, churned |-> FALSE, say |-> <<>>, after |-> "none", num |-> 0,
         read |-> {}, out |-> {}]
Work(pc, want) == [Rest EXCEPT !.pc = pc, !.want = want]
\* A thread with nothing left to tell or do is at rest.
Left(j) == IF j.say = <<>> /\ j.after = "none" THEN Rest ELSE j

Peers(r) == {[s |-> s, muted |-> seat[s].muted] : s \in {t \in Sessions : seat[t].room = r}}

Init ==
  /\ alive = Sessions
  /\ seat = [s \in Sessions |-> NoSeat] /\ held = [s \in Sessions |-> NotHeld]
  /\ sleeping = [s \in Sessions |-> 0] /\ seats = 0
  /\ job = [a \in Threads |-> Rest]
  /\ staying = {} /\ givenUp = {} /\ lines = {} /\ unread = {} /\ told = [r \in Rooms |-> {}]
  /\ link = [s \in Sessions |-> NoRoom] /\ waiting = {} /\ unsure = {}
  /\ asks = 0 /\ outs = 0
-----------------------------------------------------------------------------
(* Taking and leaving a seat                                               *)

\* Gateway::voice_leave: the seat goes, and nobody is told here.
VoiceLeave(s) ==
  /\ seat' = [seat EXCEPT ![s] = NoSeat]
  /\ givenUp' = givenUp \union ({seat[s].num} \ {0})
  /\ unread' = unread \union ({seat[s].room} \ {NoRoom})

\* RATE_VOICE_SEAT may refuse at any time.  It cannot grant while a held turn is
\* taking a seat: a turn came because nothing was left of the allowance, takes the
\* one second's worth there is, and is done long before the next.
MayGrant(s) == job[Turn(s)] = Rest

\* Who is told of s leaving: its room, if it was in one.
PartTells(s) == IF seat[s] = NoSeat THEN <<>> ELSE <<seat[s].room>>

\* Gateway::voice_part: leave, then tell the room.
Part(a, s) ==
  /\ job[a].pc = "take" /\ job[a].want = Leave
  /\ VoiceLeave(s)
  /\ job' = [job EXCEPT ![a] = Left([Work("say", Leave) EXCEPT !.say = PartTells(s)])]
  /\ UNCHANGED <<alive, held, sleeping, seats, stays, told, apps>>

\* Gateway::voice_join, in a room the session has a seat in: at most its controls
\* change.
JoinAgain(a, s) ==
  LET w == job[a].want
      changed == w.muted # seat[s].muted
  IN
  /\ job[a].pc = "take" /\ w # Leave /\ seat[s].room = w.room /\ s \in Forwarding
  /\ seat' = [seat EXCEPT ![s].muted = w.muted]
  /\ unread' = IF changed THEN unread \union {w.room} ELSE unread
  /\ job' = [job EXCEPT ![a] = Left([Work("say", w) EXCEPT
               !.say = IF changed THEN <<w.room>> ELSE <<>>,
               !.after = IF job[a].churned THEN "restart" ELSE "none"])]
  /\ UNCHANGED <<alive, held, sleeping, seats, givenUp, stays, told, apps>>

\* Gateway::voice_join answers Refused, and changes nothing.
JoinRefused(a, s) ==
  LET w == job[a].want IN
  /\ job[a].pc = "take" /\ w # Leave
  /\ \/ s \notin Forwarding
     \/ seat[s].room # w.room /\ Cardinality(Peers(w.room)) >= MaxPeers
  /\ job' = [job EXCEPT ![a] = Rest]
  /\ unsure' = unsure \union {s}
  /\ UNCHANGED <<gateway, givenUp, stays, lists, link, waiting, asks, outs>>

\* Mutant: a move tells only the room it ends in.
TellsNew(s, r) == <<r>>

\* Who is told of s taking a seat in r: the room it left first.
Tells(s, r) == IF seat[s] = NoSeat THEN <<r>> ELSE <<seat[s].room, r>>

\* There is room, and the session leaves wherever it was; its new seat is not taken
\* yet.  (Counting and leaving are one step: no property here is about how many seats
\* a room has, so a join that comes between them cannot be told from one before.)
JoinLeaves(a, s) ==
  LET w == job[a].want IN
  /\ job[a].pc = "take" /\ w # Leave /\ s \in Forwarding
  /\ seat[s].room # w.room /\ Cardinality(Peers(w.room)) < MaxPeers
  /\ VoiceLeave(s)
  /\ job' = [job EXCEPT ![a].pc = "seat", ![a].say = Tells(s, w.room)]
  /\ UNCHANGED <<alive, held, sleeping, seats, stays, told, apps>>

\* Mutant: the counter's value is used before it is counted up.
SeatNumberEarly == seats

\* Gateway::seats counts from 1.
SeatNumber == seats + 1

\* The seat is taken, and the forwarding server makes a fresh offer.
TakeSeat(a, s) ==
  LET w == job[a].want IN
  /\ job[a].pc = "seat"
  /\ seats' = seats + 1
  /\ seat' = [seat EXCEPT ![s] = [room |-> w.room, num |-> SeatNumber, muted |-> w.muted]]
  /\ unread' = unread \union {w.room}
  /\ job' = [job EXCEPT ![a].pc = "say", ![a].after = "line", ![a].num = SeatNumber]
  /\ waiting' = waiting \ {s}
  /\ UNCHANGED <<alive, held, sleeping, givenUp, stays, told, link, unsure, asks, outs>>

\* announce_voice reads the room's list ...
ReadPeers(a) ==
  LET r == Head(job[a].say) IN
  /\ job[a].pc = "say" /\ job[a].say # <<>>
  /\ job' = [job EXCEPT ![a].pc = "publish", ![a].read = Peers(r)]
  /\ unread' = unread \ {r}
  /\ UNCHANGED <<gateway, givenUp, stays, told, apps>>

\* ... and publishes what it read.
Publish(a) ==
  LET r == Head(job[a].say) IN
  /\ job[a].pc = "publish"
  /\ told' = [told EXCEPT ![r] = job[a].read]
  /\ job' = [job EXCEPT ![a] = Left([job[a] EXCEPT !.pc = "say", !.say = Tail(job[a].say), !.read = {}])]
  /\ UNCHANGED <<gateway, givenUp, stays, unread, apps>>

\* What take_seat does with the answer: the join line's wait starts, or a session
\* that churned while it was held gets its fresh offer (voice_restart).
Finish(a, s) ==
  /\ job[a].pc = "say" /\ job[a].say = <<>>
  /\ job' = [job EXCEPT ![a] = Rest]
  /\ staying' = IF job[a].after = "line"
                THEN staying \union {[s |-> s, room |-> job[a].want.room, num |-> job[a].num]}
                ELSE staying
  /\ waiting' = IF job[a].after = "restart" /\ seat[s] # NoSeat THEN waiting \ {s} ELSE waiting
  /\ UNCHANGED <<gateway, givenUp, lines, lists, link, unsure, asks, outs>>
-----------------------------------------------------------------------------
(* The frames of an app, and the turn a held one waits for                 *)

\* The app asks: voice.join for a room (or its controls there), or voice.leave.
\* Leaving, or joining anywhere else, closes its connection, and a join then waits
\* for an offer.
Ask(s, w) ==
  /\ s \in alive /\ job[Handler(s)] = Rest /\ asks < MaxAsks
  /\ asks' = asks + 1
  /\ job' = [job EXCEPT ![Handler(s)] = Work(IF w = Leave THEN "change" ELSE "look", w)]
  /\ link' = [link EXCEPT ![s] = w.room]
  /\ waiting' = IF w = Leave THEN waiting \ {s}
                ELSE IF link[s] # w.room THEN waiting \union {s} ELSE waiting
  /\ UNCHANGED <<gateway, givenUp, stays, lists, unsure, outs>>

\* The database says whether this person can see the room; no, and the frame is
\* ignored.
LookedUp(s) ==
  LET h == Handler(s) IN
  /\ job[h].pc = "look"
  /\ \/ job' = [job EXCEPT ![h].pc = "change"] /\ UNCHANGED unsure
     \/ job' = [job EXCEPT ![h] = Rest] /\ unsure' = unsure \union {s}
  /\ UNCHANGED <<gateway, givenUp, stays, lists, link, waiting, asks, outs>>

\* Mutant: only where the newest request ends up counts, against the seat.
NewestForgets(h, w) ==
  [wanted |-> w, last |-> h.last,
   churned |-> IF w = Leave \/ w.room # h.last THEN "yes" ELSE "no"]

\* HeldVoice::newest: it is the one the turn takes.  A leave, or a join anywhere but
\* where the app already is, closes the app's connection, and that is not forgotten.
Newest(h, w) ==
  [wanted |-> w, last |-> w.room,
   churned |-> IF w = Leave \/ w.room # h.last \/ h.churned = "yes" THEN "yes" ELSE "no"]

\* change_voice
ChangeVoice(s) ==
  LET h == Handler(s)
      w == job[h].want
  IN
  /\ job[h].pc = "change"
  /\ \/ /\ held[s] # NotHeld
        /\ held' = [held EXCEPT ![s] = Newest(@, w)]
        /\ job' = [job EXCEPT ![h] = Rest]
        /\ UNCHANGED sleeping
     \/ /\ held[s] = NotHeld
        /\ held' = [held EXCEPT ![s] = Newest([NotHeld EXCEPT !.last = seat[s].room], w)]
        /\ sleeping' = [sleeping EXCEPT ![s] = @ + 1]
        /\ job' = [job EXCEPT ![h] = Rest]
     \/ /\ held[s] = NotHeld /\ MayGrant(s)
        /\ job' = [job EXCEPT ![h].pc = "take"]
        /\ UNCHANGED <<held, sleeping>>
  /\ UNCHANGED <<alive, seat, seats, givenUp, stays, lists, apps>>

\* Mutant: a turn whose session is gone leaves what was held behind.
HeldAfterTurnKept(s) == IF s \in alive THEN [held EXCEPT ![s] = NotHeld] ELSE held

\* A turn takes what was held out of the map, whatever it then does with it.
HeldAfterTurn(s) == [held EXCEPT ![s] = NotHeld]

\* A spawned turn gets its grant.  A session that is gone, or whose app said goodbye,
\* has nothing to take; otherwise the turn holds the session's entry while it takes
\* the seat.
TurnComes(s) ==
  /\ sleeping[s] > 0 /\ job[Turn(s)] = Rest
  /\ sleeping' = [sleeping EXCEPT ![s] = @ - 1]
  /\ held' = HeldAfterTurn(s)
  /\ job' = IF s \in alive /\ held[s] # NotHeld
            THEN [job EXCEPT ![Turn(s)] =
                    [Work("take", held[s].wanted) EXCEPT !.churned = held[s].churned = "yes"]]
            ELSE job
  /\ UNCHANGED <<alive, seat, seats, givenUp, stays, lists, apps>>

\* The app says goodbye: what was held goes, and the seat.  The session stays, and
\* may be resumed.  (A turn already taking a seat is not stopped: it seats an app
\* that has gone, until its session ends.)
Goodbye(s) ==
  /\ s \in alive /\ job[Handler(s)] = Rest /\ link[s] # NoRoom
  /\ held' = [held EXCEPT ![s] = NotHeld]
  /\ job' = [job EXCEPT ![Handler(s)] = Work("take", Leave)]
  /\ link' = [link EXCEPT ![s] = NoRoom] /\ waiting' = waiting \ {s}
  /\ unsure' = IF job[Turn(s)] = Rest THEN unsure ELSE unsure \union {s}
  /\ UNCHANGED <<alive, seat, sleeping, seats, givenUp, stays, lists, asks, outs>>

\* Mutant: the session's end doesn't wait for the turn that holds its entry.
EndWaitsForNobody(s) == TRUE

\* The turn holds the session's entry in the map while it takes the seat.
EndMayGo(s) == job[Turn(s)] = Rest

\* A session's task ends: it goes from the map ...
SessionEnds(s) ==
  /\ s \in alive /\ EndMayGo(s)
  /\ alive' = alive \ {s}
  /\ job' = [job EXCEPT ![End(s)] = Work("clear", Leave)]
  /\ UNCHANGED <<seat, held, sleeping, seats, givenUp, stays, lists, apps>>

\* ... with what it had held, and then leaves voice.
EndClears(s) ==
  /\ job[End(s)].pc = "clear"
  /\ held' = [held EXCEPT ![s] = NotHeld]
  /\ job' = [job EXCEPT ![End(s)].pc = "take"]
  /\ UNCHANGED <<alive, seat, sleeping, seats, givenUp, stays, lists, apps>>

\* voice_take_out: the seats a person has in a room are collected ...
TakeOut(u, r) ==
  LET out == {s \in Sessions : UserOf[s] = u /\ seat[s].room = r} IN
  /\ job[Host] = Rest /\ outs < MaxTakeOuts /\ out # {}
  /\ outs' = outs + 1
  /\ job' = [job EXCEPT ![Host] =
       [Work("out", [room |-> r, muted |-> FALSE]) EXCEPT !.out = out]]
  /\ UNCHANGED <<gateway, givenUp, stays, lists, link, waiting, unsure, asks>>

\* ... each is told why, and leaves ...
TakeOutOne(s) ==
  /\ job[Host].pc = "out" /\ s \in job[Host].out
  /\ VoiceLeave(s)
  /\ unsure' = unsure \union {s}
  /\ job' = [job EXCEPT ![Host].out = @ \ {s}]
  /\ UNCHANGED <<alive, held, sleeping, seats, stays, told, link, waiting, asks, outs>>

\* ... and the room is told once.
TakenOut ==
  /\ job[Host].pc = "out" /\ job[Host].out = {}
  /\ job' = [job EXCEPT ![Host].pc = "say", ![Host].say = <<job[Host].want.room>>]
  /\ UNCHANGED <<gateway, givenUp, stays, lists, apps>>

\* Mutant: any seat of the session in the room will do.
HoldsAnySeat(p) == seat[p.s].room = p.room

\* Gateway::holds_seat: the same seat, never left in between.
HoldsSeat(p) == seat[p.s].room = p.room /\ seat[p.s].num = p.num

\* The wait of a join line ends, and if they stayed the line is written, unless one
\* is recent, the room is archived, or the database fails.
StayedOn(p) ==
  /\ staying' = staying \ {p}
  /\ \/ HoldsSeat(p) /\ lines' = lines \union {p.num}
     \/ UNCHANGED lines
  /\ UNCHANGED <<gateway, job, givenUp, lists, apps>>

\* The steps of a thread that takes or leaves a seat for session s.
Seating(a, s) ==
  \/ Part(a, s) \/ JoinAgain(a, s) \/ JoinRefused(a, s) \/ JoinLeaves(a, s)
  \/ TakeSeat(a, s) \/ Finish(a, s)

Progress ==
  \/ \E s \in Sessions :
       \/ Seating(Handler(s), s) \/ Seating(Turn(s), s) \/ Seating(End(s), s)
       \/ LookedUp(s) \/ ChangeVoice(s) \/ TurnComes(s) \/ EndClears(s) \/ TakeOutOne(s)
  \/ \E a \in Threads : ReadPeers(a) \/ Publish(a)
  \/ TakenOut
  \/ \E p \in staying : StayedOn(p)

Environment ==
  \/ \E s \in Sessions :
       \/ \E w \in Joins \union {Leave} : Ask(s, w)
       \/ Goodbye(s) \/ SessionEnds(s)
  \/ \E u \in Users, r \in Rooms : TakeOut(u, r)

Next == Progress \/ Environment

Spec == Init /\ [][Next]_vars

FairSpec == Spec /\ WF_vars(Progress)
-----------------------------------------------------------------------------
(* Properties                                                              *)

Requests == Joins \union {Leave}

\* The shape of the maps and the threads: a seat's number is never zero.
TypeOK ==
  /\ alive \subseteq Sessions
  /\ seat \in [Sessions -> [room : Rooms, num : Nat \ {0}, muted : BOOLEAN] \union {NoSeat}]
  /\ held \in [Sessions -> [wanted : Requests, last : Rooms \union {NoRoom},
                            churned : {"yes", "no"}] \union {NotHeld}]
  /\ sleeping \in [Sessions -> Nat] /\ seats \in Nat
  /\ DOMAIN job = Threads
  /\ staying \subseteq [s : Sessions, room : Rooms, num : Nat \ {0}]
  /\ givenUp \subseteq Nat \ {0} /\ lines \subseteq Nat \ {0}
  /\ unread \subseteq Rooms
  /\ link \in [Sessions -> Rooms \union {NoRoom}]
  /\ waiting \subseteq Sessions /\ unsure \subseteq Sessions

\* Nothing is under way.
Quiet == \A a \in Threads : job[a] = Rest

\* Nothing is under way for session s, and nothing it asked is held.
Settled(s) ==
  /\ s \in alive /\ held[s] = NotHeld
  /\ \A a \in {Handler(s), Turn(s), End(s), Host} : job[a] = Rest

\* A burst of joins and leaves ends where its last frame said (#527), through held
\* requests, turns, goodbyes and resumes; and an app that closed its connection on the way
\* has been made a fresh offer, even when its seat never moved because the requests were
\* held.
SeatFollows ==
  \A s \in Sessions : Settled(s) /\ s \notin unsure =>
    seat[s].room = link[s] /\ (seat[s] # NoSeat => s \notin waiting)

\* Every change of a room's list is told: some voice.state sent since was read after
\* it.  (Not once the host has taken somebody out: TakeOutOne leaves whatever room
\* the session is in by then, and only the room it was taken out of is told.)
ChangesAreTold == Quiet /\ outs = 0 => unread = {}

\* A held turn never seats a session that is gone.
TurnSeatsLiving ==
  [][\A s \in Sessions :
       job[Turn(s)].pc = "seat" /\ job'[Turn(s)].pc = "say" => s \in alive]_vars

\* A join line is about somebody who stayed: when it is written its seat was never
\* given up, not even to take another in the same room (#473).
LineMeansStayed == [][lines' \ lines \subseteq (1..seats) \ givenUp]_vars

\* Nothing stays held: a turn comes, or the session's end clears it, and no request
\* is left in the map behind a session that is gone.
HeldIsTaken == \A s \in Sessions : held[s] # NotHeld ~> held[s] = NotHeld

\* PROTOCOL: "a client can act on the newest one it has": once nothing is under way, the
\* voice.state a room was last told (announce_voice) is who is in it.
NewestListIsRight == Quiet => \A r \in Rooms : told[r] = Peers(r)

\* PROTOCOL: "A session that ends leaves the voice room it was in": once nothing is under
\* way, no seat is left behind by a session whose task has ended.
EndedLeavesVoice ==
  Quiet => \A s \in Sessions : s \notin alive => seat[s] = NoSeat
=============================================================================
