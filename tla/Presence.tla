------------------------------ MODULE Presence ------------------------------
(***************************************************************************)
(* Where one person is, and what everybody is told of it: the presence     *)
(* maps of gateway/mod.rs, the tellers of gateway/socket.rs, and the app's *)
(* own side of it (client/src/lib/presence.ts, watchPresence.ts).          *)
(*                                                                         *)
(* A person has a session per device.  An operation on what a session said *)
(* holds the person's entry in session_presence, so it is one step; only   *)
(* the end of their last session holds it for longer.  Telling everybody   *)
(* happens after, in the thread of whoever made the change, and takes      *)
(* several steps that other threads come between.  Away messages and       *)
(* entrance sounds are left out; the rate limiters and the clocks are      *)
(* nondeterministic.                                                       *)
(***************************************************************************)
EXTENDS Naturals, FiniteSets

CONSTANTS Sessions, Rooms,
          DMs,         \* the rooms that are DMs
          NoRoom,      \* Option::None for a room
          MaxOpens,    \* bound: sockets opened
          MaxFrames,   \* bound: frames the apps send
          MaxBacks     \* bound: times the saved away is cleared

ASSUME PresenceAssumption ==
  /\ DMs \subseteq Rooms /\ NoRoom \notin Rooms
  /\ MaxOpens \in Nat /\ MaxFrames \in Nat /\ MaxBacks \in Nat

VARIABLES
  rec,           \* session_presence: what each session said, NoRecord for none
  presence,      \* Gateway::presence, Offline for none
  told,          \* focus_told, NoRoom for none
  presenceHeld, focusHeld,  \* whether a turn is coming
  order,         \* presence_order
  drops,         \* Gateway::drops
  timers,        \* the grace periods not over: <<session, drop>>
  job,           \* what each thread is telling
  heard,         \* the last presence.update everybody got
  standing,      \* the rooms everybody was told this person is in
  up,            \* the apps with a live socket
  stale,         \* how many sockets of a session its app has given up
  said,          \* what each app believes it has said
  replaced,      \* history: sessions resumed before the old socket was found gone
  cameBack,      \* history: sessions whose away ended somewhere else
  forgot,        \* history: a room told was forgotten by a teller that was late
  opens, frames, backs

maps == <<rec, presence, told>>
held == <<presenceHeld, focusHeld>>
numbers == <<order, drops, timers>>
everybody == <<heard, standing>>
apps == <<up, stale, said, replaced, cameBack>>
bounds == <<opens, frames, backs>>
vars == <<maps, held, numbers, job, everybody, apps, forgot, bounds>>

States == {"around", "idle", "away"}

\* SessionPresence::arrived; dropped is 0 for None.
Arrived == [room |-> NoRoom, state |-> "around", moved |-> 0, sockets |-> 0, dropped |-> 0,
            over |-> FALSE]
NoRecord == [Arrived EXCEPT !.state = "none"]
Offline == [state |-> "offline", room |-> NoRoom]
Entry(state, room) == [state |-> state, room |-> room]

\* What an app starts from on every ready and resumed (setPresenceLive).
Fresh == [room |-> NoRoom, state |-> "around"]

\* The threads that tell: a session's socket handler, the end of its grace period,
\* the two held turns, and the request that clears the saved away.
Handler(s) == <<"handler", s>>
Timer(s) == <<"timer", s>>
PresenceTurn == <<"turn", "presence">>
FocusTurn == <<"turn", "focus">>
Patch == <<"patch", "me">>
Threads == ({"handler", "timer"} \X Sessions) \union {PresenceTurn, FocusTurn, Patch}

\* "by": whether the thread tells a presence, a move, or the end of the last session.
Rest == [pc |-> "rest", by |-> "none", now |-> NoRoom, copy |-> Offline]
Telling(by, pc) == [Rest EXCEPT !.by = by, !.pc = pc]

Init ==
  /\ rec = [s \in Sessions |-> NoRecord] /\ presence = Offline /\ told = NoRoom
  /\ presenceHeld = FALSE /\ focusHeld = FALSE
  /\ order = 0 /\ drops = 0 /\ timers = {}
  /\ job = [a \in Threads |-> Rest]
  /\ heard = Offline /\ standing = {}
  /\ up = {} /\ stale = [s \in Sessions |-> 0] /\ said = [s \in Sessions |-> Fresh]
  /\ replaced = {} /\ cameBack = {} /\ forgot = FALSE
  /\ opens = 0 /\ frames = 0 /\ backs = 0
-----------------------------------------------------------------------------
(* The locks                                                               *)

\* session_presence: held through the end of the last session.
RecordsFree == \A a \in Threads : job[a].by # "gone"

\* The entry of focus_told: held through a telling.
FocusFree ==
  \A a \in Threads : job[a].by \in {"focus", "gone"} => job[a].pc \notin {"rooms", "tell", "publish"}

\* Mutant: the entry is copied, and let go before it is published.
PresenceFreeAlways == TRUE

\* The entry of presence: held while it is published.
PresenceFree == \A a \in Threads : job[a].pc # "publish"
-----------------------------------------------------------------------------
(* What the sessions say, put together                                     *)

\* merge
Merge(R) ==
  LET here == {s \in Sessions : R[s] # NoRecord}
      rooms == {s \in here : R[s].room # NoRoom}
      newest == CHOOSE s \in rooms : \A t \in rooms : R[t].moved <= R[s].moved
      state == IF \E s \in here : R[s].state = "around" THEN "around" ELSE "idle"
  IN
  IF here = {} THEN Offline
  ELSE IF \E s \in here : R[s].state = "away" THEN Entry("away", NoRoom)
  ELSE IF rooms # {} THEN Entry("in_room", R[newest].room)
  ELSE Entry(state, NoRoom)

\* remerge: the records are R now, and presence what they come to.
Remerge(R) ==
  /\ rec' = R
  /\ presence' = Merge(R)
  /\ presence' # presence => PresenceFree

\* How what Remerge did is told (tell_merged).
TellMerged ==
  CASE presence' = presence -> Rest
    [] presence'.room # presence.room -> Telling("focus", "held")
    [] OTHER -> Telling("presence", "held")

\* Mutant: what it said before the drop stands for good.
SpeaksAgainKeeps(own) == [own EXCEPT !.over = FALSE]

\* SessionPresence::speaks_again: an app held over starts where apps start.
SpeaksAgain(own) ==
  IF own.over THEN [Arrived EXCEPT !.sockets = own.sockets, !.dropped = own.dropped] ELSE own

\* session_gone, for thread a: another session speaks for the person now, or they
\* begin to go offline, out of any room.
SessionGone(a, s) ==
  LET R == [rec EXCEPT ![s] = NoRecord] IN
  \/ /\ \E t \in Sessions : R[t] # NoRecord
     /\ Remerge(R)
     /\ job' = [job EXCEPT ![a] = TellMerged]
  \/ /\ \A t \in Sessions : R[t] = NoRecord
     /\ rec' = R
     /\ PresenceFree
     /\ presence' = IF presence.room = NoRoom THEN presence ELSE Entry("around", NoRoom)
     /\ job' = [job EXCEPT ![a] = [Telling("gone", "leave") EXCEPT !.now = presence.room]]
-----------------------------------------------------------------------------
(* Sockets                                                                 *)

\* Mutant: a resume ends the grace period it came in.
OpenedClears(own) ==
  [own EXCEPT !.over = @ \/ (own.sockets = 0 /\ own.dropped # 0), !.sockets = @ + 1,
              !.dropped = IF own.sockets = 0 THEN 0 ELSE @]

\* What connection_opened does to a session's record: inside the grace period after a
\* drop it is kept, and held over.
Opened(own) ==
  [own EXCEPT !.over = @ \/ (own.sockets = 0 /\ own.dropped # 0), !.sockets = @ + 1]

\* connection_opened: an app's socket is let in, and it starts afresh.  A change is
\* told at once.
ConnectionOpened(s) ==
  /\ s \notin up /\ opens < MaxOpens /\ RecordsFree
  /\ Remerge([rec EXCEPT ![s] = Opened(IF @ = NoRecord THEN Arrived ELSE @)])
  /\ heard' = IF presence' = presence THEN heard ELSE presence'
  /\ up' = up \union {s} /\ said' = [said EXCEPT ![s] = Fresh]
  /\ replaced' = IF rec[s].sockets > 0 THEN replaced \union {s} ELSE replaced \ {s}
  /\ cameBack' = cameBack \ {s}
  /\ opens' = opens + 1
  /\ UNCHANGED <<told, held, numbers, job, standing, stale, forgot, frames, backs>>

\* The app gives its socket up; the server has yet to notice.
Vanish(s) ==
  /\ s \in up
  /\ up' = up \ {s} /\ stale' = [stale EXCEPT ![s] = @ + 1]
  /\ UNCHANGED <<maps, held, numbers, job, everybody, said, replaced, cameBack, forgot, bounds>>

\* Mutant: a session already waiting keeps the drop it is waiting for.
DropNumberFirst(own) == IF own.dropped = 0 THEN drops + 1 ELSE own.dropped

\* The number of a drop is its own: only its own grace period ends the record.
DropNumber(own) == drops + 1

\* connection_dropped: the session's last socket starts a grace period, and nobody is
\* told anything.
ConnectionDropped(s) ==
  LET left == rec[s].sockets - 1 IN
  /\ stale[s] > 0 /\ job[Handler(s)] = Rest /\ RecordsFree
  /\ stale' = [stale EXCEPT ![s] = @ - 1]
  /\ \/ /\ rec[s] = NoRecord
        /\ UNCHANGED <<rec, drops, timers>>
     \/ /\ rec[s] # NoRecord /\ left > 0
        /\ rec' = [rec EXCEPT ![s].sockets = left]
        /\ UNCHANGED <<drops, timers>>
     \/ /\ rec[s] # NoRecord /\ left = 0
        /\ rec' = [rec EXCEPT ![s].sockets = 0, ![s].dropped = DropNumber(rec[s])]
        /\ drops' = drops + 1
        /\ timers' = timers \union {<<s, drops + 1>>}
  /\ UNCHANGED <<presence, told, held, order, job, everybody, up, said, replaced, cameBack,
                 forgot, bounds>>

\* connection_closed: the app says goodbye, or its session hangs up on it.
ConnectionClosed(s) ==
  /\ s \in up /\ job[Handler(s)] = Rest /\ RecordsFree
  /\ up' = up \ {s}
  /\ \/ /\ rec[s].sockets > 1
        /\ rec' = [rec EXCEPT ![s].sockets = @ - 1]
        /\ UNCHANGED <<presence, job>>
     \/ /\ rec[s].sockets = 1
        /\ SessionGone(Handler(s), s)
  /\ UNCHANGED <<told, held, numbers, everybody, stale, said, replaced, cameBack, forgot, bounds>>

\* grace_over
GraceOver(s, n) ==
  LET own == [rec[s] EXCEPT !.dropped = 0] IN
  /\ <<s, n>> \in timers /\ job[Timer(s)] = Rest /\ RecordsFree
  /\ timers' = timers \ {<<s, n>>}
  /\ \/ /\ rec[s] = NoRecord \/ rec[s].dropped # n
        /\ UNCHANGED <<rec, presence, job>>
     \/ /\ rec[s] # NoRecord /\ rec[s].dropped = n /\ own.sockets = 0
        /\ SessionGone(Timer(s), s)
     \/ /\ rec[s] # NoRecord /\ rec[s].dropped = n /\ own.sockets > 0
        /\ Remerge([rec EXCEPT ![s] = SpeaksAgain(own)])
        /\ job' = [job EXCEPT ![Timer(s)] = TellMerged]
  /\ UNCHANGED <<told, held, order, drops, everybody, apps, forgot, bounds>>
-----------------------------------------------------------------------------
(* What an app says, and when (decide, applySent)                          *)

\* An app says where it is when that is not what it said, and nothing while away ...
DecidesRoom(s, r) == r # said[s].room /\ said[s].state # "away"

\* ... leaves its room before it goes idle or away, and comes back before anything
\* else.
DecidesState(s, state) ==
  /\ state # said[s].state
  /\ state # "around" => said[s].room = NoRoom
  /\ said[s].state = "away" => state = "around"

\* What it has said once it has moved to r; in_room is the server's around.
SentRoom(r) == [room |-> r, state |-> "around"]

\* room.focus, to move_to: the session moves, and no other.  Moving ends its idle and
\* not its away.  The app is in rooms its person can see.
RoomFocus(s, r) ==
  LET own == SpeaksAgain(rec[s]) IN
  /\ s \in up /\ job[Handler(s)] = Rest /\ RecordsFree /\ frames < MaxFrames
  /\ DecidesRoom(s, r)
  /\ frames' = frames + 1
  /\ said' = [said EXCEPT ![s] = SentRoom(r)]
  /\ \/ /\ ~rec[s].over /\ own.room = r
        /\ UNCHANGED <<rec, presence, order, job>>
     \/ /\ rec[s].over \/ own.room # r
        /\ order' = order + 1
        /\ Remerge([rec EXCEPT ![s] = [own EXCEPT !.room = r, !.moved = order + 1,
                                         !.state = IF @ = "idle" THEN "around" ELSE @]])
        /\ job' = [job EXCEPT ![Handler(s)] = TellMerged]
  /\ UNCHANGED <<told, held, drops, timers, everybody, up, stale, replaced, cameBack, forgot,
                 opens, backs>>

\* presence.update, to update_presence.
PresenceUpdate(s, state) ==
  LET own == SpeaksAgain(rec[s]) IN
  /\ s \in up /\ job[Handler(s)] = Rest /\ RecordsFree /\ frames < MaxFrames
  /\ DecidesState(s, state)
  /\ frames' = frames + 1
  /\ said' = [said EXCEPT ![s].state = state]
  /\ cameBack' = cameBack \ {s}
  /\ \/ /\ ~rec[s].over /\ own.state = state
        /\ UNCHANGED <<rec, presence, job>>
     \/ /\ rec[s].over \/ own.state # state
        /\ Remerge([rec EXCEPT ![s] = [own EXCEPT !.state = state]])
        /\ job' = [job EXCEPT ![Handler(s)] = TellMerged]
  /\ UNCHANGED <<told, held, numbers, everybody, up, stale, replaced, forgot, opens, backs>>

\* back_everywhere: the saved away is cleared, and away ends on every session.
BackEverywhere ==
  LET away == {s \in Sessions : rec[s].state = "away"} IN
  /\ away # {} /\ job[Patch] = Rest /\ RecordsFree /\ backs < MaxBacks
  /\ backs' = backs + 1
  /\ Remerge([s \in Sessions |-> IF s \in away THEN [rec[s] EXCEPT !.state = "around"] ELSE rec[s]])
  /\ job' = [job EXCEPT ![Patch] = TellMerged]
  /\ cameBack' = cameBack \union away
  /\ UNCHANGED <<told, held, numbers, everybody, up, stale, said, replaced, forgot, opens, frames>>
-----------------------------------------------------------------------------
(* Telling everybody                                                       *)

\* A turn is already coming, and it tells this change too.
HeldAlready(a) ==
  /\ job[a].pc = "held"
  /\ job' = [job EXCEPT ![a] = IF (job[a].by = "presence" /\ presenceHeld)
                                  \/ (job[a].by = "focus" /\ focusHeld)
                               THEN Rest ELSE [@ EXCEPT !.pc = "limit"]]
  /\ UNCHANGED <<maps, held, numbers, everybody, apps, forgot, bounds>>

\* Mutant: past the limit a change is dropped.
PresenceHoldDrops == presenceHeld

\* Past the limit a change is held for the turn this spawns, or one there is already.
PresenceHold == TRUE

\* The limiter lets it be told now, or it is held.
Limit(a) ==
  /\ job[a].pc = "limit"
  /\ \/ /\ job' = [job EXCEPT ![a].pc = IF job[a].by = "focus" THEN "sound" ELSE "tell"]
        /\ UNCHANGED held
     \/ /\ job' = [job EXCEPT ![a] = Rest]
        /\ presenceHeld' = IF job[a].by = "presence" THEN PresenceHold ELSE presenceHeld
        /\ focusHeld' = IF job[a].by = "focus" THEN TRUE ELSE focusHeld
  /\ UNCHANGED <<maps, numbers, everybody, apps, forgot, bounds>>

\* A turn comes: it lets go first, and then tells.
PresenceTurnComes ==
  /\ presenceHeld /\ job[PresenceTurn] = Rest
  /\ presenceHeld' = FALSE
  /\ job' = [job EXCEPT ![PresenceTurn] = Telling("presence", "tell")]
  /\ UNCHANGED <<maps, focusHeld, numbers, everybody, apps, forgot, bounds>>

FocusTurnComes ==
  /\ focusHeld /\ job[FocusTurn] = Rest
  /\ focusHeld' = FALSE
  /\ job' = [job EXCEPT ![FocusTurn] = Telling("focus", "sound")]
  /\ UNCHANGED <<maps, presenceHeld, numbers, everybody, apps, forgot, bounds>>

\* tell_focus, once the database has answered with the entrance sound: where they are
\* now, or nowhere, when the end of their last session has told everybody.
TellFocus(a) ==
  /\ job[a].pc = "sound" /\ FocusFree
  /\ job' = [job EXCEPT ![a] = IF presence = Offline THEN [@ EXCEPT !.pc = "forget"]
                               ELSE [@ EXCEPT !.pc = "rooms", !.now = presence.room]]
  /\ UNCHANGED <<maps, held, numbers, everybody, apps, forgot, bounds>>

\* ... and then the entry it made in focus_told goes, whatever is in it by now.
Forget(a) ==
  /\ job[a].pc = "forget" /\ FocusFree
  /\ told' = NoRoom /\ forgot' = (forgot \/ told # NoRoom)
  /\ job' = [job EXCEPT ![a] = Rest]
  /\ UNCHANGED <<rec, presence, held, numbers, everybody, apps, bounds>>

\* Mutant: a move tells only where it goes.
LeavesNothing == {}

\* The room left, by what was last told.
Leaves == {told}

\* Mutant: a DM is entered as any room is.
EntersAny(now) == {now} \ {NoRoom}

\* The room entered.
Enters(now) == {now} \ (DMs \union {NoRoom})

\* room.leave and room.enter; nothing is said of a DM.  (Each is followed by the
\* room's occupancy, which is left out.)
TellRooms(a) ==
  LET now == job[a].now IN
  /\ job[a].pc = "rooms"
  /\ told' = now
  /\ standing' = IF told = now THEN standing
                 ELSE (standing \ (Leaves \ DMs)) \union Enters(now)
  /\ job' = [job EXCEPT ![a].pc = "tell"]
  /\ UNCHANGED <<rec, presence, held, numbers, heard, apps, forgot, bounds>>

\* The presence, read and published while its entry is held: nothing, if they have
\* gone offline.
ReadPresence(a) ==
  /\ job[a].pc = "tell"
  /\ job' = [job EXCEPT ![a] = IF presence = Offline THEN Rest
                               ELSE [@ EXCEPT !.pc = "publish", !.copy = presence]]
  /\ UNCHANGED <<maps, held, numbers, everybody, apps, forgot, bounds>>

Publish(a) ==
  /\ job[a].pc = "publish"
  /\ heard' = job[a].copy
  /\ job' = [job EXCEPT ![a] = IF job[a].by = "gone" THEN Telling("gone", "told") ELSE Rest]
  /\ UNCHANGED <<maps, held, numbers, standing, apps, forgot, bounds>>

\* The last session has gone: out of the room, when one was told or moved out of ...
GoneLeaves(a) ==
  /\ job[a].pc = "leave" /\ FocusFree
  /\ job' = [job EXCEPT ![a] = Telling("gone", IF job[a].now # NoRoom \/ told # NoRoom
                                               THEN "rooms" ELSE "told")]
  /\ UNCHANGED <<maps, held, numbers, everybody, apps, forgot, bounds>>

\* ... focus_told forgets them ...
GoneForgets(a) ==
  /\ job[a].pc = "told" /\ FocusFree
  /\ told' = NoRoom
  /\ job' = [job EXCEPT ![a].pc = "offline"]
  /\ UNCHANGED <<rec, presence, held, numbers, everybody, apps, forgot, bounds>>

\* ... and they are offline, and everybody is told.
GoneOffline(a) ==
  /\ job[a].pc = "offline" /\ PresenceFree
  /\ presence' = Offline /\ heard' = Offline
  /\ job' = [job EXCEPT ![a] = Rest]
  /\ UNCHANGED <<rec, told, held, numbers, standing, apps, forgot, bounds>>

\* What the server does by itself.
Progress ==
  \/ \E s \in Sessions : ConnectionDropped(s)
  \/ \E p \in timers : GraceOver(p[1], p[2])
  \/ \E a \in Threads :
       \/ HeldAlready(a) \/ Limit(a) \/ TellFocus(a) \/ Forget(a) \/ TellRooms(a)
       \/ ReadPresence(a) \/ Publish(a) \/ GoneLeaves(a) \/ GoneForgets(a) \/ GoneOffline(a)
  \/ PresenceTurnComes \/ FocusTurnComes

\* What people and their networks do.
Environment ==
  \/ \E s \in Sessions :
       \/ ConnectionOpened(s) \/ Vanish(s) \/ ConnectionClosed(s)
       \/ \E r \in Rooms \union {NoRoom} : RoomFocus(s, r)
       \/ \E state \in States : PresenceUpdate(s, state)
  \/ BackEverywhere

Next == Progress \/ Environment

Spec == Init /\ [][Next]_vars

FairSpec == Spec /\ WF_vars(Progress)
-----------------------------------------------------------------------------
(* Properties                                                              *)

Records == [room : Rooms \union {NoRoom}, state : States, moved : Nat, sockets : Nat,
            dropped : Nat, over : BOOLEAN]
Entries == [state : States \union {"in_room", "offline"}, room : Rooms \union {NoRoom}]

\* The shape of the maps and the threads.
TypeOK ==
  /\ rec \in [Sessions -> Records \union {NoRecord}]
  /\ presence \in Entries /\ told \in Rooms \union {NoRoom}
  /\ presenceHeld \in BOOLEAN /\ focusHeld \in BOOLEAN
  /\ order \in Nat /\ drops \in Nat /\ timers \subseteq Sessions \X Nat
  /\ DOMAIN job = Threads
  /\ heard \in Entries /\ standing \subseteq Rooms \ DMs
  /\ up \subseteq Sessions /\ stale \in [Sessions -> Nat]
  /\ said \in [Sessions -> [room : Rooms \union {NoRoom}, state : States]]

\* Everything has been told.
Quiet == ~presenceHeld /\ ~focusHeld /\ \A a \in Threads : job[a] = Rest

\* Once everything has been told, everybody's last word on this person is what their
\* sessions say: no change is lost to the limits, to a turn that was coming, or to
\* two tellers passing each other (#497, #527, #653).
HeardIsRight == Quiet => heard = Merge(rec)

\* Offline is the last word until the person is back: no teller that was under way
\* makes somebody who has left look online again.
OfflineStays == presence = Offline => heard = Offline

\* Once everything has been told, everybody has seen this person leave every room but
\* the one they are in, and enter that one.
RoomsAreRight ==
  Quiet /\ ~forgot =>
    /\ told = presence.room
    /\ standing = {presence.room} \ (DMs \union {NoRoom})

\* A session whose app vanished keeps its part for a whole grace period after its last
\* drop: an earlier drop's timer never ends it (#654).
WholeGrace ==
  \A s \in Sessions :
    rec[s] # NoRecord /\ rec[s].sockets = 0 =>
      /\ <<s, rec[s].dropped>> \in timers
      /\ \A p \in timers : p[1] = s => p[2] <= rec[s].dropped

\* A session held over is not held over for good: its app speaks, or the grace period
\* ends and it is around in no room (#654).
HeldOverEnds == \A s \in Sessions : rec[s].over ~> ~rec[s].over

\* An app counts from around in no room on every resume and says only where it
\* differs, and the server ends up where the app is.
AppIsBelieved(s) ==
  s \in up /\ stale[s] = 0 /\ ~rec[s].over /\ s \notin cameBack =>
    rec[s].room = said[s].room /\ rec[s].state = said[s].state

\* ... unless the resume came before the old socket was found gone.  And an app with a
\* live socket is never taken for gone, whichever of its sockets the server was slow to let
\* go of (#451).
AppsAreBelieved ==
  /\ \A s \in up : rec[s] # NoRecord
  /\ \A s \in Sessions \ replaced : AppIsBelieved(s)

\* PROTOCOL: "A session that says nothing by the end of the grace period is `around`
\* in no room from then."
SilenceIsAround ==
  \A s \in Sessions : (\A p \in timers : p[1] # s) => AppIsBelieved(s)
=============================================================================
