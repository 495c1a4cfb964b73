------------------------------ MODULE Screens ------------------------------
(***************************************************************************)
(* Sharing a screen in a voice room, and watching one: the windows that    *)
(* share (lib/screen/share.ts), the window that watches (watch.ts), the    *)
(* socket each opens of its own (socket.ts, the server's screen_socket.rs) *)
(* and the server's board of who shares and watches (screens.rs).          *)
(*                                                                         *)
(* One room that no more people share in than may, one watching session,   *)
(* and one format, which every app makes and plays; without sound.  A      *)
(* share's pictures come from the page's own track.  A frame is whether it *)
(* is a key frame; an encoder's and a decoder's output comes at once, and  *)
(* a frame reaches the server at once or not at all.  The room's           *)
(* voice.state is Voice's.                                                 *)
(***************************************************************************)
EXTENDS Naturals, Sequences

CONSTANTS Sharers,      \* sessions that may share
          Watcher,      \* the session that watches
          OnAir,        \* the session that shares, and is watched, at the start
          MaxEvents,    \* bound: what people press, and things that go wrong
          Retries,      \* RETRIES: tries at a dropped socket
          WatchQueue    \* SCREEN_WATCH_QUEUE: frames the server holds for a watcher

Nobody == "nobody"

ASSUME ScreensAssumption ==
  /\ {MaxEvents, Retries} \subseteq Nat
  /\ WatchQueue \in Nat \ {0}
  /\ OnAir \in Sharers
  /\ Watcher \notin Sharers /\ Nobody \notin Sharers \union {Watcher}

VARIABLES
  seated,     \* sessions with a seat in voice
  shares,     \* Board: each session's share
  watch,      \* Board: what the watcher watches
  wires,      \* the screen sockets, by their numbers
  asks,       \* calls of startSharing waiting for the picker, or for the encoders' answer
  picking,    \* picking: the ask a window waits for
  run,        \* running: each sharing window's Sharing
  capturing,  \* the captures of a screen that are live
  presses,    \* calls of startWatching waiting for the player's answer
  view,       \* running: the watching window's Watching
  shown,      \* shown: what its screen says
  events

sharing == <<asks, picking, run, capturing>>
watching == <<presses, view, shown>>
screenVars == <<seated, shares, watch, wires, sharing, watching, events>>

NoShare == [wire |-> 0, wanted |-> FALSE, asked |-> FALSE]
NoWatch == [wire |-> 0, target |-> Nobody, codec |-> FALSE, gated |-> FALSE]
NoRun == [n |-> 0, at |-> "off", wire |-> 0, tries |-> 0, wanted |-> FALSE, enc |-> "none", latest |-> FALSE]
NoView == [at |-> "off", wire |-> 0, target |-> Nobody, tries |-> 0, dec |-> FALSE, waiting |-> TRUE]
Dark == [status |-> "none", target |-> Nobody]

\* A socket as its window dials it: its end in the window, how far the server is with it,
\* whether the board has closed it, whether the line is cut, and what is on its way.
Dialled(who, aim) ==
  [who |-> who, aim |-> aim, page |-> "opening", at |-> "dialled", over |-> FALSE, cut |-> FALSE,
   says |-> <<>>, frames |-> <<>>, up |-> <<>>]
Dead == [Dialled(Nobody, Nobody) EXCEPT !.page = "gone", !.at = "gone"]
Buried(w) == IF w.page = "gone" /\ w.at = "gone" THEN Dead ELSE w

\* One share is under way, and watched: both sockets were opened, and a picture shown.
Running(s) == [Dialled(s, Nobody) EXCEPT !.page = "open", !.at = "on"]

Init ==
  /\ seated = Sharers \union {Watcher} /\ wires = <<Running(OnAir), [Running(Watcher) EXCEPT !.aim = OnAir]>>
  /\ shares = [s \in Sharers |-> IF s = OnAir THEN [wire |-> 1, wanted |-> TRUE, asked |-> FALSE] ELSE NoShare]
  /\ watch = [wire |-> 2, target |-> OnAir, codec |-> TRUE, gated |-> FALSE]
  /\ asks = {} /\ picking = [s \in Sharers |-> 0] /\ capturing = {<<OnAir, 0>>}
  /\ run = [s \in Sharers |->
             IF s = OnAir THEN [n |-> 0, at |-> "wire", wire |-> 1, tries |-> 0, wanted |-> TRUE,
                                enc |-> "on", latest |-> TRUE]
             ELSE NoRun]
  /\ presses = <<>> /\ shown = [status |-> "showing", target |-> OnAir]
  /\ view = [at |-> "wire", wire |-> 2, target |-> OnAir, tries |-> 0, dec |-> TRUE, waiting |-> FALSE]
  /\ events = 0

Event == events < MaxEvents /\ events' = events + 1
-----------------------------------------------------------------------------
(* The board: each operation makes a board of a board                      *)

Board == [shares |-> shares, watch |-> watch, wires |-> wires]
Holds(b) == shares' = b.shares /\ watch' = b.watch /\ wires' = b.wires

Want(on) == [op |-> "want", on |-> on]
Keyframe == [op |-> "keyframe"]
Showing(t) == [op |-> "showing", target |-> t]
Closing(why) == [op |-> "close", why |-> why]

\* Said on a socket, which may have nobody at its end any more.
Say(b, k, m) ==
  [b EXCEPT !.wires[k].says = IF b.wires[k].page = "gone" \/ b.wires[k].cut THEN @ ELSE Append(@, m),
            !.wires[k].over = @ \/ m.op = "close"]

\* ask_keyframe: not again so soon.
AskKeyframe(b, s) ==
  IF b.shares[s].wire = 0 \/ b.shares[s].asked THEN b
  ELSE Say([b EXCEPT !.shares[s].asked = TRUE], b.shares[s].wire, Keyframe)

\* settle: what the share is to make, told to whom it changes for.
Settle(b, s) ==
  LET on == b.watch.target = s
      told == IF on /\ ~b.watch.codec
              THEN Say([b EXCEPT !.watch.codec = TRUE, !.watch.gated = TRUE], b.watch.wire, Showing(s))
              ELSE b
      made == IF told.shares[s].wanted # on
              THEN Say([told EXCEPT !.shares[s].wanted = on], b.shares[s].wire, Want(on))
              ELSE told
  IN CASE b.shares[s].wire = 0 -> b
       [] b.shares[s].wire # 0 /\ on /\ made.watch.gated -> AskKeyframe(made, s)
       [] OTHER -> made

SettleIf(b, s) == IF s = Nobody THEN b ELSE Settle(b, s)

\* share: the session shares on socket k now; its watchers start again on a key frame.
Share(b, k) ==
  LET s == b.wires[k].who
      old == b.shares[s].wire
      put == [b EXCEPT !.shares[s] = [NoShare EXCEPT !.wire = k],
                       !.watch.codec = @ /\ b.watch.target # s]
  IN Settle(Say(IF old = 0 THEN put ELSE Say(put, old, Closing("replaced")), k, Want(FALSE)), s)

\* A share gone from the board: its watchers stay, with nothing to show.
WithoutShare(b, s) ==
  LET gone == [b EXCEPT !.shares[s] = NoShare] IN
  IF b.watch.target # s THEN gone
  ELSE Say([gone EXCEPT !.watch.target = Nobody, !.watch.codec = FALSE], b.watch.wire, Showing(Nobody))

\* unshare: of the socket that has it.
Unshare(b, k) ==
  LET s == b.wires[k].who IN IF b.shares[s].wire = k THEN WithoutShare(b, s) ELSE b

\* watch, of a share there is: in place of another socket's watching.
StartWatch(b, k) ==
  LET t == b.wires[k].aim
      before == b.watch.target
      put == [b EXCEPT !.watch = [wire |-> k, target |-> t, codec |-> FALSE, gated |-> TRUE]]
      replaced == IF b.watch.wire = 0 THEN put ELSE Say(put, b.watch.wire, Closing("replaced"))
  IN Settle(IF before = t THEN replaced ELSE SettleIf(replaced, before), t)

\* switch, on the same socket.  The frames it was still to be sent stay in its queue.
Switch(b, k, t) ==
  LET there == b.shares[t].wire # 0
      before == b.watch.target
      put == [b EXCEPT !.watch = [wire |-> k, target |-> IF there THEN t ELSE Nobody,
                                  codec |-> FALSE, gated |-> TRUE]]
      told == IF there THEN put ELSE Say(put, k, Showing(Nobody))
      left == IF before = t THEN told ELSE SettleIf(told, before)
  IN IF b.watch.wire # k THEN b ELSE IF there THEN Settle(left, t) ELSE left

\* unwatch
Unwatch(b, k) ==
  IF b.watch.wire = k THEN SettleIf([b EXCEPT !.watch = NoWatch], b.watch.target) ELSE b

\* keyframe: a watcher lost its place.
LostPlace(b, k) ==
  CASE b.watch.wire # k -> b
    [] b.watch.wire = k /\ b.watch.codec -> AskKeyframe([b EXCEPT !.watch.gated = TRUE], b.watch.target)
    [] OTHER -> [b EXCEPT !.watch.gated = TRUE]

\* leave: a share and a watch end with the seat.
EndedWith(b, s) ==
  IF s = Watcher
  THEN IF b.watch.wire = 0 THEN b
       ELSE SettleIf(Say([b EXCEPT !.watch = NoWatch], b.watch.wire, Closing("ended")), b.watch.target)
  ELSE IF b.shares[s].wire = 0 THEN b
       ELSE WithoutShare(Say(b, b.shares[s].wire, Closing("ended")), s)

\* Mutant: one more frame than fits is waited with.
FullLate(b) == Len(b.wires[b.watch.wire].frames) > WatchQueue

\* The watcher's queue is full.
Full(b) == Len(b.wires[b.watch.wire].frames) >= WatchQueue

\* Mutant: nothing is asked for a watcher that waits for a key frame.
NeverAsks(b, s) == b

\* frame_at, of a frame nothing goes to a gated watcher for: one is asked for on its
\* behalf, once it has room.
AskedFor(b, s) == IF Full(b) THEN b ELSE AskKeyframe(b, s)

\* frame_at
FrameAt(b, k, key, over) ==
  LET s == b.wires[k].who
      w == b.watch.wire
      goes == b.shares[s].wire = k /\ b.shares[s].wanted /\ b.watch.target = s /\ b.watch.codec
      waits == b.watch.gated /\ ~key
  IN CASE ~goes -> b
       [] goes /\ (over \/ (~waits /\ Full(b))) -> [b EXCEPT !.watch.gated = TRUE]
       [] goes /\ ~over /\ waits -> AskedFor(b, s)
       [] OTHER -> [b EXCEPT !.watch.gated = FALSE,
                             !.wires[w].frames = IF b.wires[w].page = "gone" \/ b.wires[w].cut THEN @
                                                 ELSE Append(@, [from |-> s, key |-> key])]
-----------------------------------------------------------------------------
(* The server's end of a socket                                            *)

Reaches(k) == wires[k].page = "open" /\ ~wires[k].cut

\* Closed before its loop: what the board said on it meanwhile is never sent.
Refused(b, k, why) ==
  [Say([b EXCEPT !.wires[k].says = <<>>], k, Closing(why)) EXCEPT !.wires[k].at = "ending"]

\* sign: the session has a seat.  Or it said too many hellos.
HelloArrives(k) ==
  /\ wires[k].at = "hello" /\ ~wires[k].cut
  /\ \/ /\ UNCHANGED events
        /\ Holds(IF wires[k].who \in seated THEN [Board EXCEPT !.wires[k].at = "signed"]
                 ELSE Refused(Board, k, "not-in-voice"))
     \/ Event /\ Holds(Refused(Board, k, "busy"))
  /\ UNCHANGED <<seated, sharing, watching>>

\* The board takes it.
OnBoard(k) ==
  /\ wires[k].at = "signed"
  /\ LET listed == [Board EXCEPT !.wires[k].at = "listed"] IN
     Holds(CASE wires[k].who # Watcher -> Share(listed, k)
             [] wires[k].who = Watcher /\ shares[wires[k].aim].wire # 0 -> StartWatch(listed, k)
             [] OTHER -> Refused(Board, k, "nothing-to-watch"))
  /\ UNCHANGED <<seated, sharing, watching, events>>

\* Taken off the board again, by socket.
OffBoard(b, k) == IF b.wires[k].who = Watcher THEN Unwatch(b, k) ELSE Unshare(b, k)

\* Mutant: the seat is only looked at before.
SeatedBefore(k) == TRUE

\* still_seated
StillSeated(k) == wires[k].who \in seated

SeatChecked(k) ==
  /\ wires[k].at = "listed"
  /\ Holds(IF StillSeated(k) THEN [Board EXCEPT !.wires[k].at = "on"]
           ELSE Refused(OffBoard(Board, k), k, "not-in-voice"))
  /\ UNCHANGED <<seated, sharing, watching, events>>

\* What a watcher asks arrives.
Received(k) ==
  LET m == Head(wires[k].up)
      b == [Board EXCEPT !.wires[k].up = Tail(@)]
  IN
  /\ wires[k].at = "on" /\ ~wires[k].over /\ wires[k].up # <<>>
  /\ Holds(IF m.op = "watch" THEN Switch(b, k, m.target) ELSE LostPlace(b, k))
  /\ UNCHANGED <<seated, sharing, watching, events>>

\* The socket's loop ends: the board closed it, or its window or its line has gone.
ServerEnds(k) ==
  LET w == wires[k]
      off == IF w.at \in {"on", "ending"} THEN OffBoard(Board, k) ELSE Board
  IN
  /\ \/ w.at = "ending" \/ (w.at = "on" /\ w.over)
     \/ w.at = "hello" /\ w.cut
     \/ w.at = "on" /\ w.up = <<>> /\ (w.page = "gone" \/ w.cut)
  /\ Holds([off EXCEPT !.wires[k] = Buried([@ EXCEPT !.at = "gone"])])
  /\ UNCHANGED <<seated, sharing, watching, events>>

\* SCREEN_KEYFRAME_EVERY_MS since a key frame was asked for.  Bound: the sharer is told in
\* less.
AskedLongAgo(s) ==
  /\ shares[s].asked /\ wires[shares[s].wire].says = <<>>
  /\ shares' = [shares EXCEPT ![s].asked = FALSE]
  /\ UNCHANGED <<seated, watch, wires, sharing, watching, events>>

\* voice_leave, and a seat taken again.
LeaveVoice(s) ==
  /\ s \in seated /\ Event /\ seated' = seated \ {s} /\ Holds(EndedWith(Board, s))
  /\ UNCHANGED <<sharing, watching>>

JoinVoice(s) ==
  /\ s \notin seated /\ seated' = seated \union {s}
  /\ UNCHANGED <<shares, watch, wires, sharing, watching, events>>

\* A line dies, or is never there.
Cut(k) ==
  /\ wires[k].page # "gone" /\ wires[k].at \in {"dialled", "hello", "on"} /\ ~wires[k].cut /\ Event
  /\ wires' = [wires EXCEPT ![k].cut = TRUE, ![k].says = <<>>, ![k].frames = <<>>, ![k].up = <<>>]
  /\ UNCHANGED <<seated, shares, watch, sharing, watching>>
-----------------------------------------------------------------------------
(* A window's end of a socket                                              *)

\* close: what was on its way to the window goes nowhere.
LetGoOf(w) ==
  Buried([w EXCEPT !.page = "gone", !.says = <<>>, !.frames = <<>>,
                   !.at = IF @ = "dialled" THEN "gone" ELSE @])

LetGo(ws, k) == IF k = 0 THEN ws ELSE [ws EXCEPT ![k] = LetGoOf(@)]

\* The socket opens, and its hello goes.
Opens(k) ==
  /\ wires[k].page = "opening" /\ ~wires[k].cut
  /\ wires' = [wires EXCEPT ![k].page = "open", ![k].at = "hello"]
  /\ UNCHANGED <<seated, shares, watch, sharing, watching, events>>

\* What the board says is sent once the socket's loop runs, or has ended with it.
Sends(k) == wires[k].at \notin {"signed", "listed"}

\* The loop reads what the window sends.
Runs(b, k) == b.wires[k].at = "on" /\ ~b.wires[k].over /\ ~b.wires[k].cut

\* A window sends on a socket that is open.
Sent(ws, k, m) ==
  IF k = 0 THEN ws
  ELSE IF ws[k].page # "open" \/ ws[k].cut THEN ws ELSE [ws EXCEPT ![k].up = Append(@, m)]
-----------------------------------------------------------------------------
(* Sharing                                                                 *)

\* Mutant: a share that ends leaves its tracks running.
FinishLive(s) == UNCHANGED capturing

\* finish: the tracks stopped.
TracksStop(s) == capturing' = capturing \ {<<s, run[s].n>>}

\* finish: everything of the share that runs ends.
Finish(s) ==
  /\ TracksStop(s) /\ run' = [run EXCEPT ![s] = NoRun]
  /\ wires' = LetGo(wires, run[s].wire)

\* startSharing, up to the picker: a share that runs ends.
PressShare(s) ==
  /\ Event /\ Finish(s)
  /\ asks' = asks \union {[s |-> s, n |-> events', at |-> "picker"]}
  /\ picking' = [picking EXCEPT ![s] = events']
  /\ UNCHANGED <<seated, shares, watch, watching>>

\* The picker answers: nothing, or a screen, whose capture is live from here on.
PickerClosed(a) ==
  /\ a \in asks /\ a.at = "picker" /\ asks' = asks \ {a}
  /\ picking' = [picking EXCEPT ![a.s] = IF @ = a.n THEN 0 ELSE @]
  /\ UNCHANGED <<seated, shares, watch, wires, run, capturing, watching, events>>

Picked(a) ==
  /\ a \in asks /\ a.at = "picker" /\ asks' = (asks \ {a}) \union {[a EXCEPT !.at = "making"]}
  /\ capturing' = capturing \union {<<a.s, a.n>>}
  /\ UNCHANGED <<seated, shares, watch, wires, picking, run, watching, events>>

\* What can be encoded is known: the share starts, unless it was stopped meanwhile, or there
\* is nothing to encode it with.
Made(a, able) ==
  /\ a \in asks /\ a.at = "making" /\ asks' = asks \ {a}
  /\ picking' = [picking EXCEPT ![a.s] = IF @ = a.n THEN 0 ELSE @]
  /\ IF picking[a.s] = a.n /\ able
     THEN run' = [run EXCEPT ![a.s] = [NoRun EXCEPT !.n = a.n, !.at = "token"]] /\ UNCHANGED capturing
     ELSE capturing' = capturing \ {<<a.s, a.n>>} /\ UNCHANGED run
  /\ IF able THEN UNCHANGED events ELSE Event
  /\ UNCHANGED <<seated, shares, watch, wires, watching>>

\* stopSharing, the system's own Stop, and no picture in time.
StopSharing(s) ==
  /\ picking[s] # 0 \/ run[s] # NoRun
  /\ Event /\ Finish(s) /\ picking' = [picking EXCEPT ![s] = 0]
  /\ UNCHANGED <<seated, shares, watch, asks, watching>>

\* connect, once the wait before a try is over and there is a token; without one the share
\* ends.
ShareConnects(s) ==
  /\ run[s].at = "token"
  /\ run' = [run EXCEPT ![s].at = "wire", ![s].wire = Len(wires) + 1]
  /\ wires' = Append(wires, Dialled(s, Nobody))
  /\ UNCHANGED <<seated, shares, watch, asks, picking, capturing, watching, events>>

NoToken(s) ==
  /\ run[s].at = "token" /\ Event /\ Finish(s)
  /\ UNCHANGED <<seated, shares, watch, asks, picking, watching>>

\* closed: after a drop it is tried again, otherwise it ends.
ShareClosed(s, why) ==
  IF why = "dropped" /\ run[s].tries < Retries
  THEN /\ run' = [run EXCEPT ![s].at = "token", ![s].wire = 0, ![s].tries = @ + 1]
       /\ wires' = LetGo(wires, run[s].wire) /\ UNCHANGED capturing
  ELSE Finish(s)

\* encode: the share r once it has made a frame, and the board b once it has it.
Encoded(b, r, force) ==
  LET key == force \/ r.enc # "on" IN
  IF r.wire = 0 \/ ~r.wanted THEN [run |-> r, board |-> b]
  ELSE IF b.wires[r.wire].page # "open" THEN [run |-> r, board |-> b]
  ELSE [run |-> [r EXCEPT !.enc = "on"],
        board |-> IF Runs(b, r.wire) THEN FrameAt(b, r.wire, key, FALSE) ELSE b]

\* said: a format is wanted or not, or a key frame is.
Heeding(r, m) ==
  IF m.op = "want" THEN [r EXCEPT !.tries = 0, !.wanted = m.on, !.enc = IF m.on THEN @ ELSE "none"]
  ELSE [r EXCEPT !.enc = IF @ = "on" THEN "key" ELSE @]

\* The picture there is goes again, unless the line is behind.
ShareHears(s) ==
  LET k == run[s].wire
      m == Head(wires[k].says)
      b == [Board EXCEPT !.wires[k].says = Tail(@)]
      r == Heeding(run[s], m)
      e == Encoded(b, r, TRUE)
  IN
  /\ k # 0 /\ Sends(k) /\ wires[k].says # <<>>
  /\ \/ /\ m.op = "close" /\ ShareClosed(s, m.why) /\ UNCHANGED <<shares, watch, events>>
     \/ /\ m.op # "close" /\ r.latest /\ UNCHANGED <<capturing, events>>
        /\ run' = [run EXCEPT ![s] = e.run] /\ Holds(e.board)
     \/ /\ m.op # "close" /\ run' = [run EXCEPT ![s] = r] /\ Holds(b) /\ UNCHANGED capturing
        /\ IF r.latest THEN Event ELSE UNCHANGED events
  /\ UNCHANGED <<seated, asks, picking, watching>>

\* onSilence, and a close with no code.
ShareSilent(s) ==
  /\ run[s].wire # 0 /\ wires[run[s].wire].cut /\ ShareClosed(s, "dropped")
  /\ UNCHANGED <<seated, shares, watch, asks, picking, watching, events>>

\* frame: a picture of the screen; after KEYFRAME_EVERY_MS it is a key frame anyway.
Picture(s, due) ==
  LET e == Encoded(Board, [run[s] EXCEPT !.latest = TRUE], due) IN
  /\ run[s] # NoRun
  /\ run' = [run EXCEPT ![s] = e.run] /\ Holds(e.board)
  /\ UNCHANGED <<seated, asks, picking, capturing, watching, events>>

\* A frame the server drops: the share is over its ceiling.
OverCeiling(s) ==
  LET k == run[s].wire IN
  /\ run[s].enc # "none" /\ k # 0 /\ Runs(Board, k) /\ Event
  /\ run' = [run EXCEPT ![s].enc = "on"] /\ Holds(FrameAt(Board, k, FALSE, TRUE))
  /\ UNCHANGED <<seated, asks, picking, capturing, watching>>

\* failed: an encoder is made again, or given up on; or a frame is too big to send.
EncoderFails(s) ==
  /\ run[s].enc # "none" /\ Event
  /\ \/ run' = [run EXCEPT ![s].enc = "none"] /\ UNCHANGED <<wires, capturing>>
     \/ run' = [run EXCEPT ![s].enc = "key"] /\ UNCHANGED <<wires, capturing>>
     \/ Finish(s)
  /\ UNCHANGED <<seated, shares, watch, asks, picking, watching>>
-----------------------------------------------------------------------------
(* Watching                                                                *)

Shows(status, t) == shown' = [status |-> status, target |-> t]

\* switchTo: on the socket there is; one not open yet would name the share before.
SwitchTo(t) ==
  LET v == [view EXCEPT !.target = t, !.waiting = TRUE, !.dec = FALSE] IN
  /\ Shows("connecting", t)
  /\ IF view.wire # 0 /\ wires[view.wire].page = "opening"
     THEN view' = [v EXCEPT !.at = "token", !.wire = 0] /\ wires' = LetGo(wires, view.wire)
     ELSE view' = v /\ wires' = Sent(wires, view.wire, [op |-> "watch", target |-> t])

\* startWatching, and watchNext: a window that watches switches, or the player is asked.
PressWatch(t) ==
  /\ Event
  /\ IF view # NoView THEN SwitchTo(t) /\ UNCHANGED presses
     ELSE presses' = Append(presses, t) /\ UNCHANGED <<view, shown, wires>>
  /\ UNCHANGED <<seated, shares, watch, sharing>>

\* The player's answer: the later press is the one that counts.
PlayerAnswers ==
  /\ presses # <<>> /\ presses' = Tail(presses)
  /\ wires' = LetGo(wires, view.wire)
  /\ view' = [NoView EXCEPT !.at = "token", !.target = Head(presses)]
  /\ Shows("connecting", Head(presses))
  /\ UNCHANGED <<seated, shares, watch, sharing, events>>

WatchFinishes(status) ==
  /\ view' = NoView /\ wires' = LetGo(wires, view.wire)
  /\ Shows(status, IF status = "none" THEN Nobody ELSE shown.target)

\* stopWatching
StopWatching ==
  /\ view # NoView /\ Event /\ WatchFinishes("none")
  /\ UNCHANGED <<seated, shares, watch, sharing, presses>>

\* connect, as for a share.
WatchConnects ==
  /\ view.at = "token"
  /\ view' = [view EXCEPT !.at = "wire", !.wire = Len(wires) + 1]
  /\ wires' = Append(wires, Dialled(Watcher, view.target))
  /\ UNCHANGED <<seated, shares, watch, sharing, presses, shown, events>>

WatchNoToken ==
  /\ view.at = "token" /\ Event /\ WatchFinishes("ended")
  /\ UNCHANGED <<seated, shares, watch, sharing, presses>>

\* closed: after a drop it is tried again; leaving voice, or another window's watch, ends it
\* as Close would; otherwise the screen says what went.
WatchClosed(why) ==
  CASE why = "dropped" /\ view.tries < Retries ->
         /\ view' = [view EXCEPT !.at = "token", !.wire = 0, !.tries = @ + 1, !.waiting = TRUE]
         /\ wires' = LetGo(wires, view.wire) /\ UNCHANGED shown
    [] view.tries = 0 /\ why \in {"ended", "replaced"} -> WatchFinishes("none")
    [] OTHER -> WatchFinishes(IF why \in {"dropped", "busy"} \/ view.tries > 0 THEN "lost" ELSE "ended")

\* said
WatchHears ==
  LET k == view.wire
      m == Head(wires[k].says)
  IN
  /\ k # 0 /\ Sends(k) /\ wires[k].says # <<>>
  /\ IF m.op = "close" THEN WatchClosed(m.why)
     ELSE /\ wires' = [wires EXCEPT ![k].says = Tail(@)]
          /\ IF m.target = Nobody
             THEN view' = [view EXCEPT !.tries = 0, !.dec = FALSE] /\ Shows("ended", shown.target)
             ELSE /\ view' = [view EXCEPT !.tries = 0, !.target = m.target, !.dec = TRUE, !.waiting = TRUE]
                  /\ IF shown = [status |-> "showing", target |-> m.target] THEN UNCHANGED shown
                     ELSE Shows("waiting", m.target)
  /\ UNCHANGED <<seated, shares, watch, sharing, presses, events>>

WatchSilent ==
  /\ view.wire # 0 /\ wires[view.wire].cut /\ WatchClosed("dropped")
  /\ UNCHANGED <<seated, shares, watch, sharing, presses, events>>

\* frame: played and shown; or the player is behind or broken, and asks for a key frame.
FrameComes ==
  LET k == view.wire
      f == Head(wires[k].frames)
      ws == [wires EXCEPT ![k].frames = Tail(@)]
  IN
  /\ k # 0 /\ Sends(k) /\ wires[k].says = <<>> /\ wires[k].frames # <<>>
  /\ IF ~view.dec \/ (view.waiting /\ ~f.key)
     THEN wires' = ws /\ UNCHANGED <<view, shown, events>>
     ELSE \/ /\ view' = [view EXCEPT !.waiting = FALSE]
             /\ Shows("showing", shown.target) /\ wires' = ws /\ UNCHANGED events
          \/ /\ Event /\ view' = [view EXCEPT !.waiting = TRUE]
             /\ wires' = Sent(ws, k, Keyframe) /\ UNCHANGED shown
  /\ UNCHANGED <<seated, shares, watch, sharing, presses>>
-----------------------------------------------------------------------------
ServerStep(k) ==
  HelloArrives(k) \/ OnBoard(k) \/ SeatChecked(k) \/ Received(k) \/ ServerEnds(k)

WatcherStep == PlayerAnswers \/ WatchConnects \/ WatchHears \/ WatchSilent

People ==
  \/ \E s \in Sharers : PressShare(s) \/ StopSharing(s) \/ PressWatch(s)
  \/ \E a \in asks : PickerClosed(a) \/ Picked(a) \/ \E able \in BOOLEAN : Made(a, able)
  \/ StopWatching
  \/ \E s \in Sharers \union {Watcher} : LeaveVoice(s) \/ JoinVoice(s)

GoesWrong ==
  \/ \E s \in Sharers : NoToken(s) \/ EncoderFails(s) \/ OverCeiling(s)
  \/ WatchNoToken \/ \E k \in DOMAIN wires : Cut(k)

\* What each side does with what has come: these steps run out ...
Handled ==
  \/ \E k \in DOMAIN wires : ServerStep(k) \/ Opens(k)
  \/ \E s \in Sharers : ShareConnects(s) \/ ShareSilent(s)
  \/ WatcherStep

\* ... and these go round for as long as pictures come.
Played == FrameComes \/ \E s \in Sharers : ShareHears(s) \/ AskedLongAgo(s)

Next ==
  \/ Handled \/ Played \/ People \/ GoesWrong
  \/ \E s \in Sharers, due \in BOOLEAN : Picture(s, due)

Spec == Init /\ [][Next]_screenVars

\* Sockets open, both ends of a line read it, timers end, and the shared screens change.
Fairness ==
  /\ WF_screenVars(Handled) /\ WF_screenVars(Played)
  /\ WF_screenVars(\E s \in Sharers : Picture(s, FALSE))

FairSpec == Spec /\ Fairness
-----------------------------------------------------------------------------
(* Properties                                                              *)

\* What the board says on a socket, and what a watcher asks on its own.
Told == [op : {"want"}, on : BOOLEAN] \union {Keyframe}
        \union [op : {"showing"}, target : Sharers \union {Nobody}]
        \union [op : {"close"}, why : {"replaced", "ended", "not-in-voice", "busy", "nothing-to-watch"}]
Asked == {Keyframe} \union [op : {"watch"}, target : Sharers]

Wire == [who : Sharers \union {Watcher, Nobody}, aim : Sharers \union {Nobody},
         page : {"opening", "open", "gone"},
         at : {"dialled", "hello", "signed", "listed", "on", "ending", "gone"},
         over : BOOLEAN, cut : BOOLEAN,
         says : Seq(Told), frames : Seq([from : Sharers, key : BOOLEAN]), up : Seq(Asked)]

\* The shape of the board, the sockets and the windows; and no more frames wait for a
\* watcher than may.
TypeOK ==
  /\ seated \subseteq Sharers \union {Watcher}
  /\ shares \in [Sharers -> [wire : Nat, wanted : BOOLEAN, asked : BOOLEAN]]
  /\ watch \in [wire : Nat, target : Sharers \union {Nobody}, codec : BOOLEAN, gated : BOOLEAN]
  /\ wires \in Seq(Wire)
  /\ \A k \in DOMAIN wires : Len(wires[k].frames) <= WatchQueue
  /\ asks \subseteq [s : Sharers, n : 1..MaxEvents, at : {"picker", "making"}]
  /\ picking \in [Sharers -> 0..MaxEvents]
  /\ run \in [Sharers -> [n : 0..MaxEvents, at : {"off", "token", "wire"}, wire : Nat, tries : 0..Retries,
                          wanted : BOOLEAN, enc : {"none", "on", "key"}, latest : BOOLEAN]]
  /\ capturing \subseteq Sharers \X (0..MaxEvents)
  /\ presses \in Seq(Sharers)
  /\ view \in [at : {"off", "token", "wire"}, wire : Nat, target : Sharers \union {Nobody},
               tries : 0..Retries, dec : BOOLEAN, waiting : BOOLEAN]
  /\ shown \in [status : {"none", "connecting", "waiting", "showing", "ended", "lost"},
                target : Sharers \union {Nobody}]
  /\ events \in 0..MaxEvents

\* However Share, Stop, the picker, a drop and a failing encoder cross, the only screens being
\* captured are the ones of a share that runs, and of an ask that has yet to look (SPEC 4.20).
CaptureEnds ==
  capturing = {<<s, run[s].n>> : s \in {t \in Sharers : run[t] # NoRun}}
              \union {<<a.s, a.n>> : a \in {b \in asks : b.at = "making"}}

\* Nothing is on its way on any socket.
Settled ==
  \A k \in DOMAIN wires :
    wires[k] = Dead \/ (wires[k].at = "on" /\ Reaches(k) /\ wires[k].says = <<>> /\ wires[k].up = <<>>)

\* Whatever order sockets, seats and windows come and go in, no share and no watching is on
\* the board without a seat but for the moment still_seated looks; and once all is quiet the
\* board has the shares the windows make, and the watching the watcher's screen shows.
BoardAgrees ==
  /\ \A s \in Sharers \ seated : shares[s].wire # 0 => wires[shares[s].wire].at = "listed"
  /\ Watcher \notin seated /\ watch.wire # 0 => wires[watch.wire].at = "listed"
  /\ Settled =>
       /\ \A s \in Sharers : shares[s].wire = run[s].wire
       /\ watch.wire = view.wire
       /\ watch.wire # 0 => watch.target = IF shown.status = "ended" THEN Nobody ELSE view.target
       /\ \A s \in Sharers : shares[s].wire # 0 => run[s].wanted = (watch.target = s)

\* A watcher that waits for a picture, or for a key frame after losing its place, gets one
\* or is told why not, through drops, switches, a full queue and a share over its ceiling.
Waits == shown.status \in {"connecting", "waiting"} \/ (view.dec /\ view.waiting)
PictureComes == Waits ~> ~Waits
=============================================================================
