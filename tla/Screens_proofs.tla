-------------------------- MODULE Screens_proofs --------------------------
(***************************************************************************)
(* What is proved of Screens for any number of sharers, sockets, presses,  *)
(* failures, tries and frames.                                             *)
(*                                                                         *)
(* The invariant, ScreensInv, has four parts.  CaptureInv: which asks and  *)
(* shares own which capture.  WindowsAre: a window that has not let a      *)
(* socket go uses it.  ViewIs: the shape of the watching window.  Steady:  *)
(* the board between its operations, which is that of each socket's two    *)
(* ends (WireOK), of who has a place (Placed, Listed), of what is wanted   *)
(* of whom (Matched), and that a window has been told, or will be by what  *)
(* is on its way (AllTold).                                                *)
(*                                                                         *)
(* An operation of the board goes through boards that are not steady: a    *)
(* share that has still to be settled, a socket still to be listed, a      *)
(* window still to be told.  Steady takes those as parameters, and each    *)
(* operation has a lemma that says which it leaves.                        *)
(***************************************************************************)
EXTENDS Screens, SequenceTheorems, TLAPS

RunSet == [n : 0..MaxEvents, at : {"off", "token", "wire"}, wire : Nat, tries : 0..Retries,
           wanted : BOOLEAN, enc : {"none", "on", "key"}, latest : BOOLEAN]
ViewSet == [at : {"off", "token", "wire"}, wire : Nat, target : Sharers \union {Nobody},
            tries : 0..Retries, dec : BOOLEAN, waiting : BOOLEAN]
ShareSet == [wire : Nat, wanted : BOOLEAN, asked : BOOLEAN]
WatchSet == [wire : Nat, target : Sharers \union {Nobody}, codec : BOOLEAN, gated : BOOLEAN]
AskSet == [s : Sharers, n : 1..MaxEvents, at : {"picker", "making"}]

(* The windows that share: what they wait for, what they run, and its captures.  An ask   *)
(* has a number of its own, which the share it becomes keeps.                             *)
SharingTypes ==
  /\ asks \subseteq AskSet
  /\ picking \in [Sharers -> 0..MaxEvents]
  /\ run \in [Sharers -> RunSet]
  /\ capturing \subseteq Sharers \X (0..MaxEvents)
  /\ events \in 0..MaxEvents

(* A share that runs has a socket, or waits to dial one. *)
RunsAre ==
  \A s \in Sharers :
    /\ run[s].wire # 0 <=> run[s].at = "wire"
    /\ run[s] = NoRun <=> run[s].at = "off"

AsksAre ==
  /\ \A a \in asks : a.n <= events
  /\ \A a, b \in asks : a.n = b.n => a = b
  /\ \A a \in asks : run[a.s] # NoRun => run[a.s].n # a.n
  /\ \A s \in Sharers : picking[s] # 0 => run[s] = NoRun

CaptureInv == SharingTypes /\ RunsAre /\ AsksAre /\ CaptureEnds

-----------------------------------------------------------------------------
(* The captures of a screen *)

LEMMA NoRunIs ==
  /\ NoRun \in RunSet
  /\ NoRun.n = 0 /\ NoRun.at = "off" /\ NoRun.wire = 0 /\ NoRun.enc = "none" /\ ~NoRun.wanted
  <1>1. 0 \in 0..Retries /\ 0 \in 0..MaxEvents  BY ScreensAssumption
  <1>2. NoRun \in RunSet  BY <1>1 DEF NoRun, RunSet
  <1>. QED  BY <1>2 DEF NoRun

\* A capture is of a share that runs, or of an ask past its picker.
LEMMA CapturesAre ==
  CaptureEnds <=>
    \A p : p \in capturing <=> \/ \E s \in Sharers : run[s] # NoRun /\ p = <<s, run[s].n>>
                               \/ \E a \in asks : a.at = "making" /\ p = <<a.s, a.n>>
  BY DEF CaptureEnds

\* Nothing of the sharing windows changes but what a share does with its socket and its encoder.
LEMMA RunGoesOn ==
  ASSUME CaptureInv, asks' = asks, picking' = picking, capturing' = capturing,
         events' \in events..MaxEvents,
         run' \in [Sharers -> RunSet],
         \A s \in Sharers :
           \/ run'[s] = run[s]
           \/ /\ run[s] # NoRun /\ run'[s].n = run[s].n
              /\ run'[s].at # "off" /\ (run'[s].wire # 0 <=> run'[s].at = "wire")
  PROVE  CaptureInv'
  <1>1. SharingTypes'
    BY DEF CaptureInv, SharingTypes
  <1>2. RunsAre'
    BY NoRunIs DEF CaptureInv, RunsAre
  <1>3. \A s \in Sharers : (run'[s] # NoRun <=> run[s] # NoRun) /\ run'[s].n = run[s].n
    BY <1>2, NoRunIs DEF CaptureInv, RunsAre
  <1>4. AsksAre'
    <2>1. \A a \in asks : a.s \in Sharers /\ a.n \in Nat  BY DEF CaptureInv, SharingTypes, AskSet
    <2>2. events \in Nat /\ events' \in Nat /\ events <= events'
      BY ScreensAssumption DEF CaptureInv, SharingTypes
    <2>. QED  BY <1>3, <2>1, <2>2 DEF CaptureInv, AsksAre
  <1>5. CaptureEnds'
    BY <1>3 DEF CaptureInv, CaptureEnds
  <1>. QED  BY <1>1, <1>2, <1>4, <1>5 DEF CaptureInv

\* The sharing windows do nothing.
LEMMA CaptureKept ==
  ASSUME CaptureInv, UNCHANGED sharing, events' \in events..MaxEvents
  PROVE  CaptureInv'
  BY RunGoesOn DEF CaptureInv, SharingTypes, sharing

\* A share ends, or there is none.
LEMMA CaptureFinishes ==
  ASSUME CaptureInv, NEW s \in Sharers, asks' = asks,
         picking' = picking \/ picking' = [picking EXCEPT ![s] = 0],
         events' \in events..MaxEvents, TracksStop(s), run' = [run EXCEPT ![s] = NoRun]
  PROVE  CaptureInv'
  <1>0. /\ run \in [Sharers -> RunSet] /\ picking \in [Sharers -> 0..MaxEvents]
        /\ events \in Nat /\ events' \in Nat /\ events <= events' /\ events' \in 0..MaxEvents
    BY ScreensAssumption DEF CaptureInv, SharingTypes
  <1>1. 0 \in 0..MaxEvents  BY ScreensAssumption
  <1>2. picking' \in [Sharers -> 0..MaxEvents] /\ \A t \in Sharers : picking'[t] # 0 => picking'[t] = picking[t]
    BY <1>0, <1>1
  <1>3. run' \in [Sharers -> RunSet] /\ run'[s] = NoRun /\ \A t \in Sharers : t # s => run'[t] = run[t]
    BY <1>0, NoRunIs
  <1>4. capturing' = capturing \ {<<s, run[s].n>>}  BY DEF TracksStop
  <1>5. SharingTypes'
    BY <1>0, <1>2, <1>3, <1>4 DEF CaptureInv, SharingTypes
  <1>6. RunsAre'  BY <1>3, NoRunIs DEF CaptureInv, RunsAre
  <1>7. AsksAre'
    <2>1. \A a \in asks : a.s \in Sharers /\ a.n \in Nat  BY DEF CaptureInv, SharingTypes, AskSet
    <2>. QED  BY <1>0, <1>2, <1>3, <2>1 DEF CaptureInv, AsksAre
  <1>8. CaptureEnds'
    <2>1. ASSUME NEW a \in asks
          PROVE  <<a.s, a.n>> # <<s, run[s].n>>
      <3>1. a.n # 0  BY DEF CaptureInv, SharingTypes, AskSet
      <3>2. run[s] = NoRun => run[s].n = 0  BY NoRunIs
      <3>3. a.s = s /\ run[s] # NoRun => run[s].n # a.n  BY DEF CaptureInv, AsksAre
      <3>. QED  BY <3>1, <3>2, <3>3
    <2>. QED  BY <1>3, <1>4, <2>1 DEF CaptureInv, CaptureEnds
  <1>. QED  BY <1>5, <1>6, <1>7, <1>8 DEF CaptureInv

\* A press of Share: the share that runs ends, and the new ask has a number of its own.
LEMMA CapturePress ==
  ASSUME CaptureInv, NEW s \in Sharers, PressShare(s)
  PROVE  CaptureInv'
  <1>. DEFINE new == [s |-> s, n |-> events', at |-> "picker"]
  <1>0. /\ run \in [Sharers -> RunSet] /\ picking \in [Sharers -> 0..MaxEvents] /\ asks \subseteq AskSet
        /\ MaxEvents \in Nat /\ events \in 0..MaxEvents /\ events' = events + 1 /\ events' \in 1..MaxEvents
    BY ScreensAssumption DEF CaptureInv, SharingTypes, PressShare, Event
  <1>1. /\ capturing' = capturing \ {<<s, run[s].n>>} /\ run' = [run EXCEPT ![s] = NoRun]
        /\ asks' = asks \union {new} /\ picking' = [picking EXCEPT ![s] = events']
    BY DEF PressShare, Finish, TracksStop
  <1>2. new \in AskSet /\ new.s = s /\ new.n = events' /\ new.at = "picker"  BY <1>0 DEF AskSet
  <1>. HIDE DEF new
  <1>3. run' \in [Sharers -> RunSet] /\ run'[s] = NoRun /\ \A t \in Sharers : t # s => run'[t] = run[t]
    BY <1>0, <1>1, NoRunIs
  <1>4. picking' \in [Sharers -> 0..MaxEvents] /\ \A t \in Sharers : t # s => picking'[t] = picking[t]
    BY <1>0, <1>1
  <1>5. SharingTypes'
    BY <1>0, <1>1, <1>2, <1>3, <1>4 DEF CaptureInv, SharingTypes
  <1>6. RunsAre'  BY <1>3, NoRunIs DEF CaptureInv, RunsAre
  <1>7. AsksAre'
    <2>1. \A a \in asks : a.s \in Sharers /\ a.n \in Nat /\ a.n < events'
      BY <1>0 DEF CaptureInv, SharingTypes, AskSet, AsksAre
    <2>2. \A a \in asks' : a.n <= events'  BY <1>0, <1>1, <1>2, <2>1
    <2>3. \A a, b \in asks' : a.n = b.n => a = b
      BY <1>0, <1>1, <1>2, <2>1 DEF CaptureInv, AsksAre
    <2>4. \A a \in asks' : run'[a.s] # NoRun => run'[a.s].n # a.n
      BY <1>1, <1>2, <1>3, <2>1 DEF CaptureInv, AsksAre
    <2>5. \A t \in Sharers : picking'[t] # 0 => run'[t] = NoRun
      BY <1>3, <1>4 DEF CaptureInv, AsksAre
    <2>. QED  BY <2>2, <2>3, <2>4, <2>5 DEF AsksAre
  <1>8. CaptureEnds'
    <2>1. ASSUME NEW a \in asks
          PROVE  <<a.s, a.n>> # <<s, run[s].n>>
      <3>1. a.n # 0  BY DEF CaptureInv, SharingTypes, AskSet
      <3>2. run[s] = NoRun => run[s].n = 0  BY NoRunIs
      <3>3. a.s = s /\ run[s] # NoRun => run[s].n # a.n  BY DEF CaptureInv, AsksAre
      <3>. QED  BY <3>1, <3>2, <3>3
    <2>2. \A p : (\E a \in asks' : a.at = "making" /\ p = <<a.s, a.n>>)
                  <=> \E a \in asks : a.at = "making" /\ p = <<a.s, a.n>>
      BY <1>1, <1>2
    <2>3. \A p : p \in capturing' <=> \/ \E t \in Sharers : run'[t] # NoRun /\ p = <<t, run'[t].n>>
                                      \/ \E a \in asks' : a.at = "making" /\ p = <<a.s, a.n>>
      BY <1>1, <1>3, <2>1, <2>2, CapturesAre DEF CaptureInv
    <2>. QED  BY <2>3 DEF CaptureEnds
  <1>. QED  BY <1>5, <1>6, <1>7, <1>8 DEF CaptureInv

\* The picker is closed.
LEMMA CapturePickerClosed ==
  ASSUME CaptureInv, NEW a \in asks, PickerClosed(a)
  PROVE  CaptureInv'
  <1>0. /\ run \in [Sharers -> RunSet] /\ picking \in [Sharers -> 0..MaxEvents] /\ asks \subseteq AskSet
        /\ a.s \in Sharers /\ 0 \in 0..MaxEvents
    BY ScreensAssumption DEF CaptureInv, SharingTypes, AskSet
  <1>1. /\ a.at = "picker" /\ asks' = asks \ {a} /\ UNCHANGED <<run, capturing, events>>
        /\ picking' = [picking EXCEPT ![a.s] = IF @ = a.n THEN 0 ELSE @]
    BY DEF PickerClosed
  <1>2. picking' \in [Sharers -> 0..MaxEvents] /\ \A t \in Sharers : picking'[t] # 0 => picking'[t] = picking[t]
    BY <1>0, <1>1
  <1>3. SharingTypes'  BY <1>1, <1>2 DEF CaptureInv, SharingTypes
  <1>4. RunsAre' /\ AsksAre'  BY <1>1, <1>2 DEF CaptureInv, RunsAre, AsksAre
  <1>5. CaptureEnds'
    <2>1. {b \in asks' : b.at = "making"} = {b \in asks : b.at = "making"}  BY <1>1
    <2>. QED  BY <1>1, <2>1 DEF CaptureInv, CaptureEnds
  <1>. QED  BY <1>3, <1>4, <1>5 DEF CaptureInv

\* A screen is picked: its capture is the ask's.
LEMMA CapturePicked ==
  ASSUME CaptureInv, NEW a \in asks, Picked(a)
  PROVE  CaptureInv'
  <1>. DEFINE new == [a EXCEPT !.at = "making"]
  <1>0. /\ asks \subseteq AskSet /\ a \in AskSet /\ a.s \in Sharers /\ a.n \in 1..MaxEvents
        /\ MaxEvents \in Nat
    BY ScreensAssumption DEF CaptureInv, SharingTypes, AskSet
  <1>1. /\ a.at = "picker" /\ asks' = (asks \ {a}) \union {new} /\ UNCHANGED <<run, picking, events>>
        /\ capturing' = capturing \union {<<a.s, a.n>>}
    BY DEF Picked
  <1>2. new \in AskSet /\ new.s = a.s /\ new.n = a.n /\ new.at = "making"  BY <1>0 DEF AskSet
  <1>. HIDE DEF new
  <1>3. SharingTypes'
    <2>1. <<a.s, a.n>> \in Sharers \X (0..MaxEvents)  BY <1>0
    <2>. QED  BY <1>0, <1>1, <1>2, <2>1 DEF CaptureInv, SharingTypes
  <1>4. RunsAre'  BY <1>1 DEF CaptureInv, RunsAre
  <1>5. AsksAre'
    BY <1>1, <1>2 DEF CaptureInv, AsksAre
  <1>6. CaptureEnds'
    <2>1. \A p : (\E b \in asks' : b.at = "making" /\ p = <<b.s, b.n>>)
                  <=> (p = <<a.s, a.n>> \/ \E b \in asks : b.at = "making" /\ p = <<b.s, b.n>>)
      BY <1>1, <1>2
    <2>2. \A p : p \in capturing' <=> \/ \E t \in Sharers : run'[t] # NoRun /\ p = <<t, run'[t].n>>
                                      \/ \E b \in asks' : b.at = "making" /\ p = <<b.s, b.n>>
      BY <1>1, <2>1, CapturesAre DEF CaptureInv
    <2>. QED  BY <2>2 DEF CaptureEnds
  <1>. QED  BY <1>3, <1>4, <1>5, <1>6 DEF CaptureInv

\* The encoders have answered: the ask is a share now, or its capture ends.
LEMMA CaptureMade ==
  ASSUME CaptureInv, NEW a \in asks, NEW able \in BOOLEAN, Made(a, able)
  PROVE  CaptureInv'
  <1>. DEFINE new == [NoRun EXCEPT !.n = a.n, !.at = "token"]
  <1>0. /\ run \in [Sharers -> RunSet] /\ picking \in [Sharers -> 0..MaxEvents]
        /\ asks \subseteq AskSet /\ a \in AskSet /\ a.s \in Sharers /\ a.n \in 1..MaxEvents
        /\ MaxEvents \in Nat /\ 0 \in 0..MaxEvents /\ events \in 0..MaxEvents
    BY ScreensAssumption DEF CaptureInv, SharingTypes, AskSet
  <1>1. /\ a.at = "making" /\ asks' = asks \ {a}
        /\ picking' = [picking EXCEPT ![a.s] = IF @ = a.n THEN 0 ELSE @]
    BY DEF Made
  <1>2. events' \in events..MaxEvents /\ events' \in 0..MaxEvents /\ events <= events'
    BY <1>0 DEF Made, Event
  <1>3. picking' \in [Sharers -> 0..MaxEvents] /\ \A t \in Sharers : picking'[t] # 0 => picking'[t] = picking[t] /\ (t = a.s => picking[t] # a.n)
    BY <1>0, <1>1
  <1>4. new \in RunSet /\ new.n = a.n /\ new.at = "token" /\ new.wire = 0 /\ new # NoRun
    <2>1. a.n \in 0..MaxEvents  BY <1>0
    <2>2. NoRun \in RunSet /\ NoRun.wire = 0  BY NoRunIs
    <2>3. new \in RunSet /\ new.n = a.n /\ new.at = "token" /\ new.wire = 0
      BY ONLY <2>1, <2>2 DEF RunSet
    <2>. QED  BY <2>3, NoRunIs
  <1>. HIDE DEF new
  <1>5. /\ \A b \in asks' : b \in asks /\ b # a /\ b.s \in Sharers /\ b.n # a.n
        /\ \A b \in asks : b # a => b \in asks'
        /\ \A b \in asks : b.n \in Nat /\ b.n <= events'
    BY <1>0, <1>1, <1>2 DEF CaptureInv, AsksAre, SharingTypes, AskSet
  <1>6. CASE picking[a.s] = a.n /\ able
    <2>1. run' = [run EXCEPT ![a.s] = new] /\ capturing' = capturing
      BY <1>6 DEF Made, new
    <2>2. run' \in [Sharers -> RunSet] /\ run'[a.s] = new /\ \A t \in Sharers : t # a.s => run'[t] = run[t]
      BY <1>0, <1>4, <2>1
    <2>3. run[a.s] = NoRun
      <3>1. picking[a.s] # 0  BY <1>0, <1>6
      <3>. QED  BY <1>0, <3>1 DEF CaptureInv, AsksAre
    <2>4. SharingTypes'  BY <1>0, <1>1, <1>2, <1>3, <2>1, <2>2 DEF CaptureInv, SharingTypes
    <2>5. RunsAre'  BY <1>4, <2>2, NoRunIs DEF CaptureInv, RunsAre
    <2>6. AsksAre'
      <3>1. \A b \in asks' : run'[b.s] # NoRun => run'[b.s].n # b.n
        BY <1>4, <1>5, <2>2 DEF CaptureInv, AsksAre
      <3>2. \A t \in Sharers : picking'[t] # 0 => run'[t] = NoRun
        BY <1>3, <1>6, <2>2 DEF CaptureInv, AsksAre
      <3>3. \A b, c \in asks' : b.n = c.n => b = c  BY <1>5 DEF CaptureInv, AsksAre
      <3>. QED  BY <1>5, <3>1, <3>2, <3>3 DEF AsksAre
    <2>7. \A p : p \in capturing' <=> \/ \E t \in Sharers : run'[t] # NoRun /\ p = <<t, run'[t].n>>
                                      \/ \E b \in asks' : b.at = "making" /\ p = <<b.s, b.n>>
      <3>1. \A p : (\E t \in Sharers : run'[t] # NoRun /\ p = <<t, run'[t].n>>)
                    <=> (p = <<a.s, a.n>> \/ \E t \in Sharers : run[t] # NoRun /\ p = <<t, run[t].n>>)
        BY <1>0, <1>4, <2>2, <2>3
      <3>2. \A p : (\E b \in asks : b.at = "making" /\ p = <<b.s, b.n>>)
                    <=> (p = <<a.s, a.n>> \/ \E b \in asks' : b.at = "making" /\ p = <<b.s, b.n>>)
        BY <1>1, <1>5
      <3>. QED  BY <2>1, <3>1, <3>2, CapturesAre DEF CaptureInv
    <2>8. CaptureEnds'  BY <2>7 DEF CaptureEnds
    <2>. QED  BY <2>4, <2>5, <2>6, <2>8 DEF CaptureInv
  <1>7. CASE ~(picking[a.s] = a.n /\ able)
    <2>1. run' = run /\ capturing' = capturing \ {<<a.s, a.n>>}
      BY <1>7 DEF Made
    <2>2. SharingTypes'  BY <1>0, <1>1, <1>2, <1>3, <2>1 DEF CaptureInv, SharingTypes
    <2>3. RunsAre'  BY <2>1 DEF CaptureInv, RunsAre
    <2>4. AsksAre'
      <3>1. \A b \in asks' : run'[b.s] # NoRun => run'[b.s].n # b.n
        BY <1>5, <2>1 DEF CaptureInv, AsksAre
      <3>2. \A t \in Sharers : picking'[t] # 0 => run'[t] = NoRun
        BY <1>3, <2>1 DEF CaptureInv, AsksAre
      <3>3. \A b, c \in asks' : b.n = c.n => b = c  BY <1>5 DEF CaptureInv, AsksAre
      <3>. QED  BY <1>5, <3>1, <3>2, <3>3 DEF AsksAre
    <2>5. \A p : p \in capturing' <=> \/ \E t \in Sharers : run'[t] # NoRun /\ p = <<t, run'[t].n>>
                                      \/ \E b \in asks' : b.at = "making" /\ p = <<b.s, b.n>>
      <3>1. \A t \in Sharers : run[t] # NoRun => <<t, run[t].n>> # <<a.s, a.n>>
        BY DEF CaptureInv, AsksAre
      <3>2. \A b \in asks' : <<b.s, b.n>> # <<a.s, a.n>>
        BY <1>5
      <3>3. \A p : (\E b \in asks : b.at = "making" /\ p = <<b.s, b.n>>)
                    <=> (p = <<a.s, a.n>> \/ \E b \in asks' : b.at = "making" /\ p = <<b.s, b.n>>)
        BY <1>1, <1>5
      <3>. QED  BY <2>1, <3>1, <3>2, <3>3, CapturesAre DEF CaptureInv
    <2>6. CaptureEnds'  BY <2>5 DEF CaptureEnds
    <2>. QED  BY <2>2, <2>3, <2>4, <2>6 DEF CaptureInv
  <1>. QED  BY <1>6, <1>7

-----------------------------------------------------------------------------
(* What is on its way on a socket *)

(* The last message of its kind on its way is m; or none of the kind is. *)
LastIs(q, op, m) ==
  \E i \in 1..Len(q) : q[i].op = op /\ q[i] = m /\ \A j \in (i + 1)..Len(q) : q[j].op # op
NoneOf(q, op) == \A i \in 1..Len(q) : q[i].op # op

LEMMA ToldIs ==
  /\ \A on \in BOOLEAN : Want(on) \in Told /\ Want(on).op = "want" /\ Want(on).on = on
  /\ Keyframe \in Told /\ Keyframe \in Asked /\ Keyframe.op = "keyframe"
  /\ \A t \in Sharers \union {Nobody} :
       Showing(t) \in Told /\ Showing(t).op = "showing" /\ Showing(t).target = t
  /\ \A why \in {"replaced", "ended", "not-in-voice", "busy", "nothing-to-watch"} :
       Closing(why) \in Told /\ Closing(why).op = "close" /\ Closing(why).why = why
  BY DEF Told, Asked, Want, Keyframe, Showing, Closing

LEMMA ToldKinds ==
  ASSUME NEW m \in Told
  PROVE  /\ m.op \in {"want", "keyframe", "showing", "close"}
         /\ m.op = "want" => m.on \in BOOLEAN /\ m = Want(m.on)
         /\ m.op = "showing" => m.target \in Sharers \union {Nobody} /\ m = Showing(m.target)
  <1>1. CASE m \in [op : {"want"}, on : BOOLEAN]
    <2>1. m.op = "want" /\ m.on \in BOOLEAN /\ m = [op |-> "want", on |-> m.on]  BY <1>1
    <2>. QED  BY <2>1 DEF Want
  <1>2. CASE m = Keyframe  BY <1>2 DEF Keyframe
  <1>3. CASE m \in [op : {"showing"}, target : Sharers \union {Nobody}]
    <2>1. m.op = "showing" /\ m.target \in Sharers \union {Nobody} /\ m = [op |-> "showing", target |-> m.target]
      BY <1>3
    <2>. QED  BY <2>1 DEF Showing
  <1>4. CASE m \in [op : {"close"}, why : {"replaced", "ended", "not-in-voice", "busy", "nothing-to-watch"}]
    BY <1>4
  <1>. QED  BY <1>1, <1>2, <1>3, <1>4 DEF Told

LEMMA NoneIsOnEmpty == \A op : NoneOf(<<>>, op)
  BY DEF NoneOf

\* A message is the last of its own kind, and no word on another kind.
LEMMA Appended ==
  ASSUME NEW T, NEW q \in Seq(T), NEW m \in T
  PROVE  /\ LastIs(Append(q, m), m.op, m)
         /\ \A op, x : m.op # op /\ LastIs(q, op, x) => LastIs(Append(q, m), op, x)
         /\ \A op : m.op # op /\ NoneOf(q, op) => NoneOf(Append(q, m), op)
         /\ \A op : NoneOf(Append(q, m), op) => NoneOf(q, op) /\ m.op # op
  <1>1. /\ Len(Append(q, m)) = Len(q) + 1 /\ Append(q, m)[Len(q) + 1] = m /\ Len(q) \in Nat
        /\ \A i \in 1..Len(q) : Append(q, m)[i] = q[i]
    BY AppendProperties
  <1>. DEFINE p == Append(q, m)
  <1>. HIDE DEF p
  <1>2. Len(p) = Len(q) + 1 /\ p[Len(q) + 1] = m /\ \A i \in 1..Len(q) : p[i] = q[i]
    BY <1>1 DEF p
  <1>3. LastIs(p, m.op, m)
    <2>1. Len(q) + 1 \in 1..Len(p) /\ \A j \in (Len(q) + 1 + 1)..Len(p) : p[j].op # m.op
      BY <1>1, <1>2
    <2>. QED  BY <1>2, <2>1 DEF LastIs
  <1>4. ASSUME NEW op, NEW x, m.op # op, LastIs(q, op, x)
        PROVE  LastIs(p, op, x)
    <2>1. PICK i \in 1..Len(q) : q[i].op = op /\ q[i] = x /\ \A j \in (i + 1)..Len(q) : q[j].op # op
      BY <1>4 DEF LastIs
    <2>2. \A j \in (i + 1)..Len(p) : p[j].op # op
      BY <1>1, <1>2, <1>4, <2>1
    <2>3. i \in 1..Len(p) /\ p[i] = q[i]  BY <1>1, <1>2
    <2>. QED  BY <2>1, <2>2, <2>3 DEF LastIs
  <1>5. ASSUME NEW op, m.op # op, NoneOf(q, op)
        PROVE  NoneOf(p, op)
    BY <1>1, <1>2, <1>5 DEF NoneOf
  <1>6. ASSUME NEW op, NoneOf(p, op)
        PROVE  NoneOf(q, op) /\ m.op # op
    BY <1>1, <1>2, <1>6 DEF NoneOf
  <1>. QED  BY <1>3, <1>4, <1>5, <1>6 DEF p

\* Once the first is taken, the last of a kind is still on its way, or was it.
LEMMA Taken ==
  ASSUME NEW T, NEW q \in Seq(T), q # <<>>
  PROVE  /\ \A op, x : LastIs(q, op, x) => \/ LastIs(Tail(q), op, x)
                                           \/ NoneOf(Tail(q), op) /\ Head(q) = x /\ Head(q).op = op
         /\ \A op : NoneOf(q, op) => NoneOf(Tail(q), op) /\ Head(q).op # op
         /\ \A op : NoneOf(Tail(q), op) /\ Head(q).op # op => NoneOf(q, op)
  <1>1. /\ Len(q) \in Nat /\ Len(q) # 0 /\ Len(Tail(q)) = Len(q) - 1 /\ Head(q) = q[1]
        /\ \A i \in 1..Len(Tail(q)) : Tail(q)[i] = q[i + 1]
    BY HeadTailProperties, EmptySeq
  <1>. DEFINE p == Tail(q)
  <1>. HIDE DEF p
  <1>2. Len(p) = Len(q) - 1 /\ \A i \in 1..Len(p) : p[i] = q[i + 1]
    BY <1>1 DEF p
  <1>3. ASSUME NEW op, NEW x, LastIs(q, op, x)
        PROVE  LastIs(p, op, x) \/ (NoneOf(p, op) /\ q[1] = x /\ q[1].op = op)
    <2>1. PICK i \in 1..Len(q) : q[i].op = op /\ q[i] = x /\ \A j \in (i + 1)..Len(q) : q[j].op # op
      BY <1>3 DEF LastIs
    <2>2. CASE i = 1
      <3>1. \A j \in 1..Len(p) : p[j].op # op  BY <1>1, <1>2, <2>1, <2>2
      <3>. QED  BY <2>1, <2>2, <3>1 DEF NoneOf
    <2>3. CASE i # 1
      <3>1. i - 1 \in 1..Len(p) /\ p[i - 1] = q[i]  BY <1>1, <1>2, <2>3
      <3>2. \A j \in (i - 1 + 1)..Len(p) : p[j].op # op  BY <1>1, <1>2, <2>1, <2>3
      <3>. QED  BY <2>1, <3>1, <3>2 DEF LastIs
    <2>. QED  BY <2>2, <2>3
  <1>4. ASSUME NEW op, NoneOf(q, op)
        PROVE  NoneOf(p, op) /\ q[1].op # op
    BY <1>1, <1>2, <1>4 DEF NoneOf
  <1>5. ASSUME NEW op, NoneOf(p, op), q[1].op # op
        PROVE  NoneOf(q, op)
    <2>1. ASSUME NEW i \in 1..Len(q)
          PROVE  q[i].op # op
      <3>1. CASE i = 1  BY <1>5, <3>1
      <3>2. CASE i # 1
        <4>1. i - 1 \in 1..Len(p) /\ p[i - 1] = q[i - 1 + 1] /\ i - 1 + 1 = i  BY <1>1, <1>2, <3>2
        <4>. QED  BY <1>5, <4>1 DEF NoneOf
      <3>. QED  BY <3>1, <3>2
    <2>. QED  BY <2>1 DEF NoneOf
  <1>. QED  BY <1>1, <1>3, <1>4, <1>5 DEF p

-----------------------------------------------------------------------------
(* The board, and what is steady of it between its operations.  In the middle of one:     *)
(* the shares of S have still to be settled, the sockets of X to be listed, and the       *)
(* sessions of Q to be told.                                                              *)

Boards == [shares : [Sharers -> ShareSet], watch : WatchSet, wires : Seq(Wire)]

On == {"listed", "on"}
Early == {"dialled", "hello", "signed"}
Listens(w) == w.page # "gone" /\ ~w.cut

(* A socket is of a session, until it is gone; and what is said to a watcher. *)
WireOK(w) ==
  /\ w.at # "gone" => \/ w.who \in Sharers
                      \/ w.who = Watcher /\ w.aim \in Sharers
  /\ w.page = "opening" <=> w.at = "dialled"
  /\ w.at = "on" /\ ~w.over => w.who \in seated
  /\ w.at \in Early => ~w.over /\ w.says = <<>>
  /\ w.over /\ Listens(w) => ~NoneOf(w.says, "close")
  /\ w.who = Watcher => NoneOf(w.says, "want") /\ NoneOf(w.says, "keyframe")
  /\ Len(w.frames) <= WatchQueue

(* What has a place on the board has a socket there that is listed and not closed. *)
Placed(b) ==
  /\ \A s \in Sharers :
       /\ b.shares[s].wire # 0 =>
            /\ b.shares[s].wire \in DOMAIN b.wires /\ b.wires[b.shares[s].wire].who = s
            /\ b.wires[b.shares[s].wire].at \in On /\ ~b.wires[b.shares[s].wire].over
       /\ b.shares[s].wire = 0 => b.shares[s] = NoShare
  /\ b.watch.wire # 0 =>
       /\ b.watch.wire \in DOMAIN b.wires /\ b.wires[b.watch.wire].who = Watcher
       /\ b.wires[b.watch.wire].at \in On /\ ~b.wires[b.watch.wire].over
  /\ b.watch.wire = 0 => b.watch = NoWatch
  /\ b.watch.target # Nobody => b.shares[b.watch.target].wire # 0

OnIt(b, k) == \/ b.wires[k].who \in Sharers /\ b.shares[b.wires[k].who].wire = k
              \/ b.wires[k].who = Watcher /\ b.watch.wire = k

(* A socket that is listed and not closed has a place. *)
Listed(b, X) ==
  \A k \in DOMAIN b.wires \ X : b.wires[k].at \in On /\ ~b.wires[k].over => OnIt(b, k)

(* A share's format is wanted when somebody watches it, and a watcher has its codec. *)
Matched(b, S) ==
  /\ \A s \in Sharers \ S : b.shares[s].wire # 0 => b.shares[s].wanted = (b.watch.target = s)
  /\ b.watch.codec => b.watch.target # Nobody
  /\ b.watch.target \notin S \union {Nobody} => b.watch.codec

(* The window that shares knows what is wanted of it, or will. *)
SharerTold(b, s) ==
  LET w == b.wires[b.shares[s].wire] IN
  b.shares[s].wire # 0 /\ Listens(w) =>
    \/ LastIs(w.says, "want", Want(b.shares[s].wanted))
    \/ NoneOf(w.says, "want") /\ run[s].wanted = b.shares[s].wanted

(* The window that watches shows what it watches, or will. *)
Sees(t) == IF shown.status = "ended" THEN t = Nobody ELSE t = view.target
WatcherTold(b) ==
  LET w == b.wires[b.watch.wire] IN
  /\ b.watch.wire # 0 /\ Listens(w) /\ NoneOf(w.up, "watch")
  /\ b.watch.codec \/ b.watch.target = Nobody
  => \/ LastIs(w.says, "showing", Showing(b.watch.target))
     \/ NoneOf(w.says, "showing") /\ Sees(b.watch.target)

AllTold(b, Q) ==
  /\ \A s \in Sharers \ Q : SharerTold(b, s)
  /\ Watcher \notin Q => WatcherTold(b)

Steady(b, S, X, Q) ==
  /\ b \in Boards
  /\ \A k \in DOMAIN b.wires : WireOK(b.wires[k])
  /\ Placed(b) /\ Listed(b, X) /\ Matched(b, S) /\ AllTold(b, Q)

(* The ends of the sockets are as they were. *)
SameEnd(w, v) ==
  v.who = w.who /\ v.aim = w.aim /\ v.page = w.page /\ v.at = w.at /\ v.cut = w.cut /\ v.up = w.up
SameEnds(b, c) ==
  DOMAIN c.wires = DOMAIN b.wires /\ \A k \in DOMAIN b.wires : SameEnd(b.wires[k], c.wires[k])

LEMMA BoardIs ==
  ASSUME NEW b \in Boards
  PROVE  /\ b.shares \in [Sharers -> ShareSet] /\ b.watch \in WatchSet /\ b.wires \in Seq(Wire)
         /\ b.watch.wire \in Nat /\ b.watch.target \in Sharers \union {Nobody}
         /\ b.watch.codec \in BOOLEAN /\ b.watch.gated \in BOOLEAN
         /\ \A s \in Sharers : b.shares[s] \in ShareSet
         /\ \A s \in Sharers : b.shares[s].wire \in Nat /\ b.shares[s].wanted \in BOOLEAN
                               /\ b.shares[s].asked \in BOOLEAN
         /\ DOMAIN b.wires = 1..Len(b.wires) /\ Len(b.wires) \in Nat
         /\ \A k \in DOMAIN b.wires : b.wires[k] \in Wire
  <1>1. b.shares \in [Sharers -> ShareSet] /\ b.watch \in WatchSet /\ b.wires \in Seq(Wire)
    BY DEF Boards
  <1>2. \A s \in Sharers : b.shares[s] \in ShareSet  BY <1>1
  <1>3. /\ b.watch.wire \in Nat /\ b.watch.target \in Sharers \union {Nobody}
        /\ b.watch.codec \in BOOLEAN /\ b.watch.gated \in BOOLEAN
    BY <1>1 DEF WatchSet
  <1>4. DOMAIN b.wires = 1..Len(b.wires) /\ Len(b.wires) \in Nat /\ \A k \in DOMAIN b.wires : b.wires[k] \in Wire
    BY <1>1, LenProperties
  <1>5. \A s \in Sharers : b.shares[s].wire \in Nat /\ b.shares[s].wanted \in BOOLEAN /\ b.shares[s].asked \in BOOLEAN
    BY <1>2 DEF ShareSet
  <1>. QED  BY <1>1, <1>2, <1>3, <1>4, <1>5

LEMMA WireIs ==
  ASSUME NEW w \in Wire
  PROVE  /\ w.who \in Sharers \union {Watcher, Nobody} /\ w.aim \in Sharers \union {Nobody}
         /\ w.page \in {"opening", "open", "gone"}
         /\ w.at \in {"dialled", "hello", "signed", "listed", "on", "ending", "gone"}
         /\ w.over \in BOOLEAN /\ w.cut \in BOOLEAN
         /\ w.says \in Seq(Told) /\ w.frames \in Seq([from : Sharers, key : BOOLEAN]) /\ w.up \in Seq(Asked)
  BY DEF Wire

\* Something is said on a socket.
LEMMA SayDoes ==
  ASSUME NEW b \in Boards, NEW k \in DOMAIN b.wires, NEW m \in Told
  PROVE  /\ Say(b, k, m) \in Boards
         /\ Say(b, k, m).shares = b.shares /\ Say(b, k, m).watch = b.watch
         /\ DOMAIN Say(b, k, m).wires = DOMAIN b.wires
         /\ \A j \in DOMAIN b.wires : j # k => Say(b, k, m).wires[j] = b.wires[j]
         /\ SameEnd(b.wires[k], Say(b, k, m).wires[k])
         /\ Say(b, k, m).wires[k].frames = b.wires[k].frames
         /\ Listens(b.wires[k]) => Say(b, k, m).wires[k].says = Append(b.wires[k].says, m)
         /\ ~Listens(b.wires[k]) => Say(b, k, m).wires[k].says = b.wires[k].says
         /\ Say(b, k, m).wires[k].over <=> b.wires[k].over \/ m.op = "close"
  <1>. DEFINE w == b.wires[k]
              says == IF w.page = "gone" \/ w.cut THEN w.says ELSE Append(w.says, m)
              v == [w EXCEPT !.says = says, !.over = w.over \/ m.op = "close"]
              c == [b EXCEPT !.wires = [b.wires EXCEPT ![k] = v]]
  <1>1. w \in Wire /\ w.says \in Seq(Told) /\ w.over \in BOOLEAN  BY BoardIs, WireIs
  <1>2. says \in Seq(Told)  BY <1>1, AppendProperties
  <1>3. /\ Listens(w) => says = Append(w.says, m)
        /\ ~Listens(w) => says = w.says
    BY DEF Listens
  <1>4. Say(b, k, m) = c
    BY DEF Say
  <1>. HIDE DEF says
  <1>5. v \in Wire
    BY <1>1, <1>2 DEF Wire
  <1>6. SameEnd(w, v) /\ v.frames = w.frames /\ v.says = says
    BY <1>1 DEF Wire, SameEnd
  <1>7. v.over <=> w.over \/ m.op = "close"
    BY <1>1 DEF Wire
  <1>. HIDE DEF v
  <1>8. /\ b.wires \in Seq(Wire) /\ b.shares \in [Sharers -> ShareSet] /\ b.watch \in WatchSet
    BY BoardIs
  <1>9. /\ [b.wires EXCEPT ![k] = v] \in Seq(Wire)
        /\ DOMAIN [b.wires EXCEPT ![k] = v] = DOMAIN b.wires
        /\ [b.wires EXCEPT ![k] = v][k] = v
        /\ \A j \in DOMAIN b.wires : j # k => [b.wires EXCEPT ![k] = v][j] = b.wires[j]
    BY <1>5, <1>8, ExceptSeq
  <1>10. c \in Boards /\ c.shares = b.shares /\ c.watch = b.watch /\ c.wires = [b.wires EXCEPT ![k] = v]
    BY <1>8, <1>9 DEF Boards
  <1>. HIDE DEF c
  <1>. QED  BY <1>3, <1>4, <1>6, <1>7, <1>9, <1>10

LEMMA SaidWireOK ==
  ASSUME NEW w \in Wire, NEW v \in Wire, NEW m \in Told, WireOK(w), w.at \notin Early,
         w.who = Watcher => m.op \in {"showing", "close"},
         SameEnd(w, v), v.frames = w.frames,
         Listens(w) => v.says = Append(w.says, m), ~Listens(w) => v.says = w.says,
         v.over <=> w.over \/ m.op = "close"
  PROVE  WireOK(v) /\ (Listens(v) <=> Listens(w))
  <1>1. /\ v.who = w.who /\ v.aim = w.aim /\ v.page = w.page /\ v.at = w.at /\ v.cut = w.cut /\ v.up = w.up
    BY DEF SameEnd
  <1>2. Listens(v) <=> Listens(w)  BY <1>1 DEF Listens
  <1>3. /\ v.over /\ Listens(v) => ~NoneOf(v.says, "close")
        /\ v.who = Watcher => NoneOf(v.says, "want") /\ NoneOf(v.says, "keyframe")
    <2>1. CASE Listens(w)
      <3>1. /\ \A op : m.op # op /\ NoneOf(w.says, op) => NoneOf(v.says, op)
            /\ \A op : NoneOf(v.says, op) => NoneOf(w.says, op) /\ m.op # op
        <4>1. w.says \in Seq(Told) /\ v.says = Append(w.says, m)  BY <2>1, WireIs
        <4>. QED  BY <4>1, Appended
      <3>. QED  BY <1>1, <2>1, <3>1 DEF WireOK
    <2>2. CASE ~Listens(w)
      BY <1>1, <1>2, <2>2 DEF WireOK
    <2>. QED  BY <2>1, <2>2
  <1>4. /\ v.at = "on" /\ ~v.over => v.who \in seated
        /\ v.at \notin Early /\ Len(v.frames) <= WatchQueue
    BY <1>1 DEF WireOK
  <1>. QED  BY <1>1, <1>2, <1>3, <1>4 DEF WireOK

\* Saying a thing leaves the board steady: a key frame, what is wanted or shown, or a close
\* on a socket that has lost its place.
LEMMA SaySteady ==
  ASSUME NEW b, NEW S, NEW X, NEW Q, Steady(b, S, X, Q),
         NEW k \in DOMAIN b.wires, NEW m \in Told, b.wires[k].at \notin Early,
         b.wires[k].who = Watcher => m.op \in {"showing", "close"},
         m.op = "close" => ~OnIt(b, k),
         m.op = "want" => \A s \in Sharers \ Q : b.shares[s].wire = k => m = Want(b.shares[s].wanted),
         m.op = "showing" /\ b.watch.wire = k /\ Watcher \notin Q => m = Showing(b.watch.target)
  PROVE  /\ Steady(Say(b, k, m), S, X, Q)
         /\ m.op = "close" => Steady(Say(b, k, m), S, X \ {k}, Q)
         /\ SameEnds(b, Say(b, k, m))
         /\ Say(b, k, m).shares = b.shares /\ Say(b, k, m).watch = b.watch
  <1>. DEFINE c == Say(b, k, m)
  <1>0. b \in Boards  BY DEF Steady
  <1>1. /\ c \in Boards
        /\ c.shares = b.shares /\ c.watch = b.watch
        /\ DOMAIN c.wires = DOMAIN b.wires
        /\ \A j \in DOMAIN b.wires : j # k => c.wires[j] = b.wires[j]
        /\ SameEnd(b.wires[k], c.wires[k])
        /\ c.wires[k].frames = b.wires[k].frames
        /\ Listens(b.wires[k]) => c.wires[k].says = Append(b.wires[k].says, m)
        /\ ~Listens(b.wires[k]) => c.wires[k].says = b.wires[k].says
        /\ c.wires[k].over <=> b.wires[k].over \/ m.op = "close"
    BY <1>0, SayDoes
  <1>. HIDE DEF c
  <1>2. SameEnds(b, c)  BY <1>1 DEF SameEnds, SameEnd
  <1>3. /\ b.wires[k] \in Wire /\ c.wires[k] \in Wire /\ WireOK(b.wires[k])
    BY <1>0, <1>1, BoardIs DEF Steady
  <1>4. WireOK(c.wires[k]) /\ (Listens(c.wires[k]) <=> Listens(b.wires[k]))
    BY <1>1, <1>3, SaidWireOK
  <1>5. \A j \in DOMAIN c.wires : WireOK(c.wires[j])
    BY <1>1, <1>4 DEF Steady
  <1>6. \A j \in DOMAIN b.wires : /\ c.wires[j].who = b.wires[j].who /\ c.wires[j].at = b.wires[j].at
                                  /\ c.wires[j].up = b.wires[j].up
                                  /\ (Listens(c.wires[j]) <=> Listens(b.wires[j]))
                                  /\ c.wires[j].over <=> (b.wires[j].over \/ (j = k /\ m.op = "close"))
    BY <1>1, <1>2, <1>4 DEF SameEnds, SameEnd
  <1>7. Placed(c)
    <2>1. \A s \in Sharers : b.shares[s].wire = k /\ b.shares[s].wire # 0 => m.op # "close"
      BY DEF Steady, Placed, OnIt
    <2>2. b.watch.wire = k /\ b.watch.wire # 0 => m.op # "close"
      BY DEF Steady, Placed, OnIt
    <2>3. Placed(b)  BY DEF Steady
    <2>4. ASSUME NEW s \in Sharers
          PROVE  /\ c.shares[s].wire # 0 =>
                    /\ c.shares[s].wire \in DOMAIN c.wires /\ c.wires[c.shares[s].wire].who = s
                    /\ c.wires[c.shares[s].wire].at \in On /\ ~c.wires[c.shares[s].wire].over
                 /\ c.shares[s].wire = 0 => c.shares[s] = NoShare
      BY <1>1, <1>6, <2>1, <2>3 DEF Placed
    <2>5. /\ c.watch.wire # 0 =>
             /\ c.watch.wire \in DOMAIN c.wires /\ c.wires[c.watch.wire].who = Watcher
             /\ c.wires[c.watch.wire].at \in On /\ ~c.wires[c.watch.wire].over
      BY <1>1, <1>6, <2>2, <2>3 DEF Placed
    <2>. QED  BY <1>1, <2>3, <2>4, <2>5 DEF Placed
  <1>8. Listed(c, X) /\ (m.op = "close" => Listed(c, X \ {k}))
    BY <1>1, <1>6 DEF Listed, OnIt, Steady
  <1>9. Matched(c, S)  BY <1>1 DEF Matched, Steady
  <1>10. ASSUME NEW s \in Sharers \ Q
         PROVE  SharerTold(c, s)
    <2>1. SharerTold(b, s)  BY DEF Steady, AllTold
    <2>2. SUFFICES ASSUME c.shares[s].wire # 0, Listens(c.wires[c.shares[s].wire])
                   PROVE  \/ LastIs(c.wires[c.shares[s].wire].says, "want", Want(c.shares[s].wanted))
                          \/ NoneOf(c.wires[c.shares[s].wire].says, "want") /\ run[s].wanted = c.shares[s].wanted
      BY DEF SharerTold
    <2>3. b.shares[s].wire # 0 /\ b.shares[s].wire \in DOMAIN b.wires /\ Listens(b.wires[b.shares[s].wire])
      BY <1>1, <1>6, <2>2 DEF Steady, Placed
    <2>4. \/ LastIs(b.wires[b.shares[s].wire].says, "want", Want(b.shares[s].wanted))
          \/ NoneOf(b.wires[b.shares[s].wire].says, "want") /\ run[s].wanted = b.shares[s].wanted
      BY <2>1, <2>3 DEF SharerTold
    <2>5. CASE b.shares[s].wire # k  BY <1>1, <2>3, <2>4, <2>5
    <2>6. CASE b.shares[s].wire = k
      <3>1. c.wires[k].says = Append(b.wires[k].says, m)  BY <1>1, <2>3, <2>6
      <3>2. b.wires[k].says \in Seq(Told)  BY <1>3, WireIs
      <3>3. CASE m.op = "want"
        <4>1. m = Want(b.shares[s].wanted)  BY <2>6, <3>3
        <4>2. LastIs(c.wires[k].says, "want", m)  BY <3>1, <3>2, <3>3, Appended
        <4>. QED  BY <1>1, <2>6, <4>1, <4>2
      <3>4. CASE m.op # "want"
        <4>1. \A x : LastIs(b.wires[k].says, "want", x) => LastIs(c.wires[k].says, "want", x)
          BY <3>1, <3>2, <3>4, Appended
        <4>2. NoneOf(b.wires[k].says, "want") => NoneOf(c.wires[k].says, "want")
          BY <3>1, <3>2, <3>4, Appended
        <4>. QED  BY <1>1, <2>4, <2>6, <4>1, <4>2
      <3>. QED  BY <3>3, <3>4
    <2>. QED  BY <2>5, <2>6
  <1>11. ASSUME Watcher \notin Q
         PROVE  WatcherTold(c)
    <2>1. WatcherTold(b)  BY <1>11 DEF Steady, AllTold
    <2>2. SUFFICES ASSUME c.watch.wire # 0, Listens(c.wires[c.watch.wire]), NoneOf(c.wires[c.watch.wire].up, "watch"),
                          c.watch.codec \/ c.watch.target = Nobody
                   PROVE  \/ LastIs(c.wires[c.watch.wire].says, "showing", Showing(c.watch.target))
                          \/ NoneOf(c.wires[c.watch.wire].says, "showing") /\ Sees(c.watch.target)
      BY DEF WatcherTold
    <2>3. /\ b.watch.wire # 0 /\ b.watch.wire \in DOMAIN b.wires /\ Listens(b.wires[b.watch.wire])
          /\ NoneOf(b.wires[b.watch.wire].up, "watch")
          /\ b.watch.codec \/ b.watch.target = Nobody
      BY <1>1, <1>6, <2>2 DEF Steady, Placed
    <2>4. \/ LastIs(b.wires[b.watch.wire].says, "showing", Showing(b.watch.target))
          \/ NoneOf(b.wires[b.watch.wire].says, "showing") /\ Sees(b.watch.target)
      BY <2>1, <2>3 DEF WatcherTold
    <2>5. CASE b.watch.wire # k  BY <1>1, <2>3, <2>4, <2>5
    <2>6. CASE b.watch.wire = k
      <3>1. c.wires[k].says = Append(b.wires[k].says, m)  BY <1>1, <2>3, <2>6
      <3>2. b.wires[k].says \in Seq(Told)  BY <1>3, WireIs
      <3>3. CASE m.op = "showing"
        <4>1. m = Showing(b.watch.target)  BY <1>11, <2>6, <3>3
        <4>2. LastIs(c.wires[k].says, "showing", m)  BY <3>1, <3>2, <3>3, Appended
        <4>. QED  BY <1>1, <2>6, <4>1, <4>2
      <3>4. CASE m.op # "showing"
        <4>1. \A x : LastIs(b.wires[k].says, "showing", x) => LastIs(c.wires[k].says, "showing", x)
          BY <3>1, <3>2, <3>4, Appended
        <4>2. NoneOf(b.wires[k].says, "showing") => NoneOf(c.wires[k].says, "showing")
          BY <3>1, <3>2, <3>4, Appended
        <4>. QED  BY <1>1, <2>4, <2>6, <4>1, <4>2
      <3>. QED  BY <3>3, <3>4
    <2>. QED  BY <2>5, <2>6
  <1>12. AllTold(c, Q)  BY <1>10, <1>11 DEF AllTold
  <1>13. Steady(c, S, X, Q)  BY <1>1, <1>5, <1>7, <1>8, <1>9, <1>12 DEF Steady
  <1>14. m.op = "close" => Steady(c, S, X \ {k}, Q)
    BY <1>1, <1>5, <1>7, <1>8, <1>9, <1>12 DEF Steady
  <1>. QED  BY <1>1, <1>2, <1>13, <1>14 DEF c

\* A share's words change, and not its place.
LEMMA ShareReworded ==
  ASSUME NEW b, NEW S, NEW X, NEW Q, Steady(b, S, X, Q), NEW s \in Sharers, NEW c \in Boards,
         c.wires = b.wires, c.watch = b.watch, b.shares[s].wire # 0,
         c.shares[s].wire = b.shares[s].wire, \A t \in Sharers : t # s => c.shares[t] = b.shares[t]
  PROVE  /\ Placed(c) /\ Listed(c, X) /\ \A k \in DOMAIN c.wires : WireOK(c.wires[k])
         /\ \A t \in Sharers \ (Q \union {s}) : SharerTold(c, t)
         /\ Watcher \notin Q => WatcherTold(c)
         /\ \A t \in Sharers \ (S \union {s}) : c.shares[t].wire # 0 => c.shares[t].wanted = (c.watch.target = t)
         /\ c.watch.codec => c.watch.target # Nobody
         /\ c.watch.target \notin S \union {Nobody} => c.watch.codec
  <1>0. b \in Boards  BY DEF Steady
  <1>4. \A t \in Sharers : c.shares[t].wire = b.shares[t].wire  OBVIOUS
  <1>5. Placed(c)
    <2>1. Placed(b)  BY DEF Steady
    <2>2. b.watch.target # Nobody => b.watch.target \in Sharers  BY <1>0, BoardIs
    <2>3. \A t \in Sharers : c.shares[t].wire = 0 => c.shares[t] = NoShare
      BY <1>4, <2>1 DEF Placed
    <2>. QED  BY <1>4, <2>1, <2>2, <2>3 DEF Placed
  <1>6. Listed(c, X)
    <2>1. Listed(b, X)  BY DEF Steady
    <2>. QED  BY <1>4, <2>1 DEF Listed, OnIt
  <1>7. /\ \A k \in DOMAIN c.wires : WireOK(c.wires[k])
        /\ \A t \in Sharers \ (Q \union {s}) : SharerTold(c, t)
        /\ Watcher \notin Q => WatcherTold(c)
    <2>1. /\ \A k \in DOMAIN b.wires : WireOK(b.wires[k])
          /\ \A t \in Sharers \ Q : SharerTold(b, t)
          /\ Watcher \notin Q => WatcherTold(b)
      BY DEF Steady, AllTold
    <2>2. \A t \in Sharers \ (Q \union {s}) : SharerTold(c, t)
      BY <2>1 DEF SharerTold
    <2>. QED  BY <2>1, <2>2 DEF WatcherTold
  <1>8. /\ \A t \in Sharers \ (S \union {s}) : c.shares[t].wire # 0 => c.shares[t].wanted = (c.watch.target = t)
        /\ c.watch.codec => c.watch.target # Nobody
        /\ c.watch.target \notin S \union {Nobody} => c.watch.codec
    <2>1. Matched(b, S)  BY DEF Steady
    <2>. QED  BY <2>1 DEF Matched
  <1>. QED  BY <1>5, <1>6, <1>7, <1>8

\* What is wanted of it stays.
LEMMA ShareKept ==
  ASSUME NEW b, NEW S, NEW X, NEW Q, Steady(b, S, X, Q), NEW s \in Sharers, NEW c \in Boards,
         c.wires = b.wires, c.watch = b.watch, b.shares[s].wire # 0,
         c.shares[s].wire = b.shares[s].wire, c.shares[s].wanted = b.shares[s].wanted,
         \A t \in Sharers : t # s => c.shares[t] = b.shares[t]
  PROVE  Steady(c, S, X, Q)
  <1>1. /\ Placed(c) /\ Listed(c, X) /\ \A k \in DOMAIN c.wires : WireOK(c.wires[k])
        /\ \A t \in Sharers \ (Q \union {s}) : SharerTold(c, t)
        /\ Watcher \notin Q => WatcherTold(c)
        /\ \A t \in Sharers \ (S \union {s}) : c.shares[t].wire # 0 => c.shares[t].wanted = (c.watch.target = t)
        /\ c.watch.codec => c.watch.target # Nobody
        /\ c.watch.target \notin S \union {Nobody} => c.watch.codec
    BY ShareReworded
  <1>2. s \notin Q => SharerTold(c, s)
    <2>1. s \notin Q => SharerTold(b, s)  BY DEF Steady, AllTold
    <2>. QED  BY <2>1 DEF SharerTold
  <1>3. s \notin S => (c.shares[s].wire # 0 => c.shares[s].wanted = (c.watch.target = s))
    <2>1. Matched(b, S)  BY DEF Steady
    <2>. QED  BY <2>1 DEF Matched
  <1>4. Matched(c, S)  BY <1>1, <1>3 DEF Matched
  <1>5. AllTold(c, Q)  BY <1>1, <1>2 DEF AllTold
  <1>. QED  BY <1>1, <1>4, <1>5 DEF Steady

\* What is wanted of it is what it should be, and it has still to be told.
LEMMA ShareSettled ==
  ASSUME NEW b, NEW S, NEW X, NEW Q, Steady(b, S, X, Q), NEW s \in Sharers, NEW c \in Boards,
         c.wires = b.wires, c.watch = b.watch, b.shares[s].wire # 0,
         c.shares[s].wire = b.shares[s].wire, \A t \in Sharers : t # s => c.shares[t] = b.shares[t],
         c.shares[s].wanted <=> b.watch.target = s, b.watch.target = s => b.watch.codec
  PROVE  Steady(c, S \ {s}, X, Q \union {s})
  <1>1. /\ Placed(c) /\ Listed(c, X) /\ \A k \in DOMAIN c.wires : WireOK(c.wires[k])
        /\ \A t \in Sharers \ (Q \union {s}) : SharerTold(c, t)
        /\ Watcher \notin Q => WatcherTold(c)
        /\ \A t \in Sharers \ (S \union {s}) : c.shares[t].wire # 0 => c.shares[t].wanted = (c.watch.target = t)
        /\ c.watch.codec => c.watch.target # Nobody
        /\ c.watch.target \notin S \union {Nobody} => c.watch.codec
    BY ShareReworded
  <1>2. c.shares[s].wanted \in BOOLEAN  BY BoardIs
  <1>3. c.shares[s].wanted = (c.watch.target = s)  BY <1>2
  <1>4. Matched(c, S \ {s})  BY <1>1, <1>3 DEF Matched
  <1>5. AllTold(c, Q \union {s})  BY <1>1 DEF AllTold
  <1>. QED  BY <1>1, <1>4, <1>5 DEF Steady

\* What is known of a watcher's place changes, and not what it watches.
LEMMA WatchReworded ==
  ASSUME NEW b, NEW S, NEW X, NEW Q, Steady(b, S, X, Q), NEW c \in Boards,
         c.wires = b.wires, c.shares = b.shares, b.watch.wire # 0,
         c.watch.wire = b.watch.wire, c.watch.target = b.watch.target,
         b.watch.codec => c.watch.codec, c.watch.codec => c.watch.target # Nobody
  PROVE  Steady(c, S, X, Q \union {Watcher})
  <1>2. Placed(c)
    <2>1. Placed(b)  BY DEF Steady
    <2>. QED  BY <2>1 DEF Placed
  <1>3. Listed(c, X)
    <2>1. Listed(b, X)  BY DEF Steady
    <2>. QED  BY <2>1 DEF Listed, OnIt
  <1>4. Matched(c, S)
    <2>1. Matched(b, S)  BY DEF Steady
    <2>. QED  BY <2>1 DEF Matched
  <1>5. \A k \in DOMAIN c.wires : WireOK(c.wires[k])  BY DEF Steady
  <1>6. \A s \in Sharers \ Q : SharerTold(c, s)
    <2>1. \A s \in Sharers \ Q : SharerTold(b, s)  BY DEF Steady, AllTold
    <2>. QED  BY <2>1 DEF SharerTold
  <1>7. AllTold(c, Q \union {Watcher})  BY <1>6 DEF AllTold
  <1>. QED  BY <1>2, <1>3, <1>4, <1>5, <1>7 DEF Steady

\* It waits for a key frame, or no longer does.
LEMMA WatchGated ==
  ASSUME NEW b, NEW S, NEW X, NEW Q, Steady(b, S, X, Q), NEW c \in Boards,
         c.wires = b.wires, c.shares = b.shares, b.watch.wire # 0,
         c.watch.wire = b.watch.wire, c.watch.target = b.watch.target, c.watch.codec <=> b.watch.codec
  PROVE  Steady(c, S, X, Q)
  <1>1. c.watch.codec => c.watch.target # Nobody  BY DEF Steady, Matched
  <1>2. Steady(c, S, X, Q \union {Watcher})  BY <1>1, WatchReworded
  <1>3. Watcher \notin Q => WatcherTold(b)  BY DEF Steady, AllTold
  <1>4. Watcher \notin Q => WatcherTold(c)  BY <1>3 DEF WatcherTold
  <1>5. AllTold(c, Q)
    <2>1. \A s \in Sharers \ (Q \union {Watcher}) : SharerTold(c, s)  BY <1>2 DEF Steady, AllTold
    <2>2. Watcher \notin Sharers  BY ScreensAssumption
    <2>. QED  BY <1>4, <2>1, <2>2 DEF AllTold
  <1>. QED  BY <1>2, <1>5 DEF Steady

LEMMA SteadyMono ==
  ASSUME NEW b, NEW S, NEW X, NEW Q, Steady(b, S, X, Q),
         NEW S2, S \subseteq S2, NEW X2, X \subseteq X2, NEW Q2, Q \subseteq Q2
  PROVE  Steady(b, S2, X2, Q2)
  <1>1. Listed(b, X2)  BY DEF Steady, Listed
  <1>2. Matched(b, S2)  BY DEF Steady, Matched
  <1>3. AllTold(b, Q2)  BY DEF Steady, AllTold
  <1>. QED  BY <1>1, <1>2, <1>3 DEF Steady

\* The socket of a share, and of the watcher.
LEMMA PlaceIs ==
  ASSUME NEW b, NEW S, NEW X, NEW Q, Steady(b, S, X, Q)
  PROVE  /\ \A s \in Sharers : b.shares[s].wire # 0 =>
              /\ b.shares[s].wire \in DOMAIN b.wires /\ b.wires[b.shares[s].wire].who = s
              /\ b.wires[b.shares[s].wire].at \notin Early
              /\ b.wires[b.shares[s].wire].who # Watcher
              /\ b.watch.wire # b.shares[s].wire
         /\ b.watch.wire # 0 =>
              /\ b.watch.wire \in DOMAIN b.wires /\ b.wires[b.watch.wire].who = Watcher
              /\ b.wires[b.watch.wire].at \notin Early
         /\ b.watch.target # Nobody => b.watch.target \in Sharers /\ b.watch.wire # 0
                                       /\ b.shares[b.watch.target].wire # 0
  <1>1. Placed(b) /\ b \in Boards  BY DEF Steady
  <1>2. \A s \in Sharers : b.shares[s].wire # 0 =>
              /\ b.shares[s].wire \in DOMAIN b.wires /\ b.wires[b.shares[s].wire].who = s
              /\ b.wires[b.shares[s].wire].at \notin Early
              /\ b.wires[b.shares[s].wire].who # Watcher
    BY <1>1, ScreensAssumption DEF Placed, On, Early
  <1>3. b.watch.wire # 0 =>
              /\ b.watch.wire \in DOMAIN b.wires /\ b.wires[b.watch.wire].who = Watcher
              /\ b.wires[b.watch.wire].at \notin Early
    BY <1>1 DEF Placed, On, Early
  <1>4. b.watch.wire = 0 => b.watch.target = Nobody
    BY <1>1 DEF Placed, NoWatch
  <1>5. b.watch.target \in Sharers \union {Nobody}  BY <1>1, BoardIs
  <1>6. \A s \in Sharers : b.shares[s].wire # 0 => b.watch.wire # b.shares[s].wire
    BY <1>2, <1>3
  <1>. QED  BY <1>1, <1>2, <1>3, <1>4, <1>5, <1>6 DEF Placed

\* The window that shares is told what is wanted of it.
LEMMA SayWants ==
  ASSUME NEW b, NEW S, NEW X, NEW Q, Steady(b, S, X, Q), NEW s \in Sharers, b.shares[s].wire # 0,
         NEW on \in BOOLEAN, on = b.shares[s].wanted
  PROVE  /\ Steady(Say(b, b.shares[s].wire, Want(on)), S, X, Q \ {s})
         /\ SameEnds(b, Say(b, b.shares[s].wire, Want(on)))
         /\ Say(b, b.shares[s].wire, Want(on)).shares = b.shares
         /\ Say(b, b.shares[s].wire, Want(on)).watch = b.watch
  <1>. DEFINE k == b.shares[s].wire
              m == Want(on)
              c == Say(b, k, m)
  <1>1. k \in DOMAIN b.wires /\ b.wires[k].at \notin Early /\ b.wires[k].who = s /\ b.wires[k].who # Watcher
    BY PlaceIs
  <1>2. m \in Told /\ m.op = "want" /\ m = Want(b.shares[s].wanted)  BY ToldIs
  <1>3. \A t \in Sharers \ Q : b.shares[t].wire = k => m = Want(b.shares[t].wanted)
    <2>1. \A t \in Sharers : b.shares[t].wire = k => t = s
      BY <1>1, PlaceIs
    <2>. QED  BY <1>2, <2>1
  <1>. HIDE DEF m
  <1>. HIDE DEF k
  <1>4. /\ Steady(c, S, X, Q) /\ SameEnds(b, c) /\ c.shares = b.shares /\ c.watch = b.watch
    <2>0. Steady(b, S, X, Q)  OBVIOUS
    <2>1. /\ b.wires[k].who = Watcher => m.op \in {"showing", "close"}
          /\ m.op = "close" => ~OnIt(b, k)
          /\ m.op = "showing" /\ b.watch.wire = k /\ Watcher \notin Q => m = Showing(b.watch.target)
      BY <1>1, <1>2
    <2>2. m.op = "want" => \A t \in Sharers \ Q : b.shares[t].wire = k => m = Want(b.shares[t].wanted)
      BY <1>3
    <2>3. m \in Told /\ k \in DOMAIN b.wires /\ b.wires[k].at \notin Early  BY <1>1, <1>2
    <2>. HIDE DEF c
    <2>4. /\ Steady(Say(b, k, m), S, X, Q) /\ SameEnds(b, Say(b, k, m))
          /\ Say(b, k, m).shares = b.shares /\ Say(b, k, m).watch = b.watch
      BY ONLY <2>0, <2>1, <2>2, <2>3, SaySteady
    <2>. QED  BY ONLY <2>4 DEF c
  <1>10. Listens(b.wires[k]) => c.wires[k].says = Append(b.wires[k].says, m)
    BY <1>1, <1>2, SayDoes DEF Steady
  <1>5. SharerTold(c, s)
    <2>1. ASSUME Listens(c.wires[k])
          PROVE  LastIs(c.wires[k].says, "want", m)
      <3>1. Listens(b.wires[k])  BY <1>1, <1>4, <2>1 DEF Listens, SameEnds, SameEnd
      <3>2. c.wires[k].says = Append(b.wires[k].says, m)  BY <1>10, <3>1
      <3>3. b.wires[k].says \in Seq(Told)  BY <1>1, BoardIs, WireIs DEF Steady
      <3>4. LastIs(Append(b.wires[k].says, m), m.op, m)  BY <1>2, <3>3, Appended
      <3>. QED  BY <1>2, <3>2, <3>4
    <2>2. c.shares[s].wire = k /\ Want(c.shares[s].wanted) = m  BY <1>2, <1>4 DEF k
    <2>. QED  BY <2>1, <2>2 DEF SharerTold
  <1>6. Steady(c, S, X, Q \ {s})
    <2>1. AllTold(c, Q \ {s})
      <3>1. Watcher # s  BY ScreensAssumption
      <3>. QED  BY <1>4, <1>5, <3>1 DEF Steady, AllTold
    <2>. QED  BY <1>4, <2>1 DEF Steady
  <1>. QED  BY <1>4, <1>6 DEF k, m

\* The window that watches is told what it has.
LEMMA SayShows ==
  ASSUME NEW b, NEW S, NEW X, NEW Q, Steady(b, S, X, Q), b.watch.wire # 0,
         NEW t, t = b.watch.target
  PROVE  /\ Steady(Say(b, b.watch.wire, Showing(t)), S, X, Q \ {Watcher})
         /\ SameEnds(b, Say(b, b.watch.wire, Showing(t)))
         /\ Say(b, b.watch.wire, Showing(t)).shares = b.shares
         /\ Say(b, b.watch.wire, Showing(t)).watch = b.watch
  <1>. DEFINE k == b.watch.wire
              m == Showing(t)
              c == Say(b, k, m)
  <1>1. k \in DOMAIN b.wires /\ b.wires[k].at \notin Early  BY PlaceIs
  <1>2. m \in Told /\ m.op = "showing" /\ m = Showing(b.watch.target)
    <2>1. t \in Sharers \union {Nobody}  BY BoardIs DEF Steady
    <2>. QED  BY <2>1, ToldIs
  <1>. HIDE DEF m
  <1>. HIDE DEF k
  <1>4. /\ Steady(c, S, X, Q) /\ SameEnds(b, c) /\ c.shares = b.shares /\ c.watch = b.watch
    <2>0. Steady(b, S, X, Q)  OBVIOUS
    <2>1. /\ b.wires[k].who = Watcher => m.op \in {"showing", "close"}
          /\ m.op = "close" => ~OnIt(b, k)
          /\ m.op = "showing" /\ b.watch.wire = k /\ Watcher \notin Q => m = Showing(b.watch.target)
          /\ m.op = "want" => \A s \in Sharers \ Q : b.shares[s].wire = k => m = Want(b.shares[s].wanted)
      BY <1>2
    <2>3. m \in Told /\ k \in DOMAIN b.wires /\ b.wires[k].at \notin Early  BY <1>1, <1>2
    <2>. HIDE DEF c
    <2>4. /\ Steady(Say(b, k, m), S, X, Q) /\ SameEnds(b, Say(b, k, m))
          /\ Say(b, k, m).shares = b.shares /\ Say(b, k, m).watch = b.watch
      BY ONLY <2>0, <2>1, <2>3, SaySteady
    <2>. QED  BY ONLY <2>4 DEF c
  <1>10. Listens(b.wires[k]) => c.wires[k].says = Append(b.wires[k].says, m)
    BY <1>1, <1>2, SayDoes DEF Steady
  <1>5. WatcherTold(c)
    <2>1. ASSUME Listens(c.wires[k])
          PROVE  LastIs(c.wires[k].says, "showing", m)
      <3>1. Listens(b.wires[k])  BY <1>1, <1>4, <2>1 DEF Listens, SameEnds, SameEnd
      <3>2. c.wires[k].says = Append(b.wires[k].says, m)  BY <1>10, <3>1
      <3>3. b.wires[k].says \in Seq(Told)  BY <1>1, BoardIs, WireIs DEF Steady
      <3>. QED  BY <1>2, <3>2, <3>3, Appended
    <2>2. c.watch.wire = k /\ Showing(c.watch.target) = m  BY <1>2, <1>4 DEF k
    <2>. QED  BY <2>1, <2>2 DEF WatcherTold
  <1>6. Steady(c, S, X, Q \ {Watcher})
    <2>1. AllTold(c, Q \ {Watcher})
      <3>1. Watcher \notin Sharers  BY ScreensAssumption
      <3>. QED  BY <1>4, <1>5, <3>1 DEF Steady, AllTold
    <2>. QED  BY <1>4, <2>1 DEF Steady
  <1>. QED  BY <1>4, <1>6 DEF k, m

(* What an operation leaves of the places on the board. *)
SamePlaces(b, c) ==
  /\ \A s \in Sharers : c.shares[s].wire = b.shares[s].wire
  /\ c.watch.wire = b.watch.wire /\ c.watch.target = b.watch.target

\* ask_keyframe leaves the board steady.
LEMMA AskKeyframeSteady ==
  ASSUME NEW b, NEW S, NEW X, NEW Q, Steady(b, S, X, Q), NEW s \in Sharers
  PROVE  /\ Steady(AskKeyframe(b, s), S, X, Q)
         /\ SameEnds(b, AskKeyframe(b, s)) /\ SamePlaces(b, AskKeyframe(b, s))
  <1>1. CASE b.shares[s].wire = 0 \/ b.shares[s].asked
    BY <1>1 DEF AskKeyframe, SameEnds, SameEnd, SamePlaces
  <1>2. CASE ~(b.shares[s].wire = 0 \/ b.shares[s].asked)
    <2>. DEFINE q == [b.shares[s] EXCEPT !.asked = TRUE]
                c == [b EXCEPT !.shares[s] = q]
                k == b.shares[s].wire
                d == Say(c, k, Keyframe)
    <2>0. b \in Boards  BY DEF Steady
    <2>1. q \in ShareSet /\ q.wire = k /\ q.wanted = b.shares[s].wanted
      <3>1. b.shares[s] \in ShareSet  BY <2>0, BoardIs
      <3>. QED  BY <3>1 DEF ShareSet
    <2>2. AskKeyframe(b, s) = d  BY <1>2 DEF AskKeyframe
    <2>. HIDE DEF q
    <2>3. /\ Steady(c, S, X, Q) /\ c.wires = b.wires /\ c.watch = b.watch
          /\ \A t \in Sharers : c.shares[t].wire = b.shares[t].wire
      <3>1. /\ c \in Boards /\ c.wires = b.wires /\ c.watch = b.watch
            /\ c.shares[s] = q /\ \A t \in Sharers : t # s => c.shares[t] = b.shares[t]
        BY <2>0, <2>1 DEF Boards
      <3>2. b.shares[s].wire # 0 /\ q.wire = b.shares[s].wire  BY <1>2, <2>1
      <3>. HIDE DEF c
      <3>3. Steady(c, S, X, Q)  BY <2>1, <3>1, <3>2, ShareKept
      <3>. QED  BY <3>1, <3>2, <3>3
    <2>4. k \in DOMAIN b.wires /\ b.wires[k].at \notin Early /\ b.wires[k].who # Watcher
      BY <1>2, PlaceIs
    <2>5. Keyframe \in Told /\ Keyframe.op = "keyframe"  BY ToldIs
    <2>. HIDE DEF c
    <2>. HIDE DEF k
    <2>6. Steady(d, S, X, Q) /\ SameEnds(c, d) /\ d.shares = c.shares /\ d.watch = c.watch
      <3>1. k \in DOMAIN c.wires /\ c.wires[k].at \notin Early /\ c.wires[k].who # Watcher
        BY <2>3, <2>4
      <3>2. /\ c.wires[k].who = Watcher => Keyframe.op \in {"showing", "close"}
            /\ Keyframe.op = "close" => ~OnIt(c, k)
            /\ Keyframe.op = "showing" /\ c.watch.wire = k /\ Watcher \notin Q => Keyframe = Showing(c.watch.target)
            /\ Keyframe.op = "want" => \A t \in Sharers \ Q : c.shares[t].wire = k => Keyframe = Want(c.shares[t].wanted)
        BY <2>5, <3>1
      <3>. QED  BY ONLY <2>3, <2>5, <3>1, <3>2, SaySteady
    <2>7. SameEnds(b, d)  BY <2>3, <2>6 DEF SameEnds
    <2>8. SamePlaces(b, d)  BY <2>3, <2>6 DEF SamePlaces
    <2>. QED  BY <2>2, <2>6, <2>7, <2>8
  <1>. QED  BY <1>1, <1>2

LEMMA SameEndsChain ==
  ASSUME NEW b, NEW c, NEW d, SameEnds(b, c), SameEnds(c, d)
  PROVE  SameEnds(b, d)
  BY DEF SameEnds, SameEnd

LEMMA SameEndsItself ==
  ASSUME NEW b
  PROVE  SameEnds(b, b) /\ SamePlaces(b, b)
  BY DEF SameEnds, SameEnd, SamePlaces

WithCodec(b) == [b EXCEPT !.watch.codec = TRUE, !.watch.gated = TRUE]
WithWanted(b, s, on) == [b EXCEPT !.shares[s].wanted = on]

\* settle, first: the watcher of a share has its codec.
LEMMA SettleTells ==
  ASSUME NEW b, NEW S, NEW X, NEW Q, Steady(b, S, X, Q), NEW s \in Sharers,
         b.watch.target = s, ~b.watch.codec,
         NEW d, d = Say(WithCodec(b), b.watch.wire, Showing(s))
  PROVE  /\ Steady(d, S, X, Q) /\ SameEnds(b, d) /\ d.shares = b.shares /\ d.watch.codec
         /\ d.watch.wire = b.watch.wire /\ d.watch.target = b.watch.target
  <1>. DEFINE q == [b.watch EXCEPT !.codec = TRUE, !.gated = TRUE]
              c == [b EXCEPT !.watch = q]
  <1>0. b \in Boards /\ b.watch \in WatchSet  BY BoardIs DEF Steady
  <1>1. q \in WatchSet /\ q.wire = b.watch.wire /\ q.target = b.watch.target /\ q.codec
    BY <1>0 DEF WatchSet
  <1>2. d = Say(c, b.watch.wire, Showing(s))  BY DEF WithCodec
  <1>. HIDE DEF q
  <1>3. c \in Boards /\ c.wires = b.wires /\ c.shares = b.shares /\ c.watch = q
    BY <1>0, <1>1 DEF Boards
  <1>. HIDE DEF c
  <1>4. b.watch.wire # 0 /\ s # Nobody  BY ScreensAssumption, PlaceIs
  <1>5. Steady(c, S, X, Q \union {Watcher})
    <2>1. c.watch.codec => c.watch.target # Nobody  BY <1>1, <1>3, <1>4
    <2>2. b.watch.codec => c.watch.codec  BY <1>1, <1>3
    <2>3. c.watch.wire = b.watch.wire /\ c.watch.target = b.watch.target  BY <1>1, <1>3
    <2>. QED  BY <1>3, <1>4, <2>1, <2>2, <2>3, WatchReworded
  <1>6. c.watch.wire # 0 /\ s = c.watch.target /\ d = Say(c, c.watch.wire, Showing(s))
    BY <1>1, <1>2, <1>3, <1>4
  <1>7. /\ Steady(d, S, X, (Q \union {Watcher}) \ {Watcher})
        /\ SameEnds(c, d) /\ d.shares = c.shares /\ d.watch = c.watch
    BY ONLY <1>5, <1>6, SayShows
  <1>8. Steady(d, S, X, Q)
    <2>1. (Q \union {Watcher}) \ {Watcher} \subseteq Q /\ S \subseteq S /\ X \subseteq X  OBVIOUS
    <2>. QED  BY ONLY <1>7, <2>1, SteadyMono
  <1>9. SameEnds(b, d)  BY <1>3, <1>7 DEF SameEnds
  <1>. QED  BY <1>1, <1>3, <1>7, <1>8, <1>9

\* Then: its sharer makes it while somebody watches.
LEMMA SettleMakes ==
  ASSUME NEW b, NEW S, NEW X, NEW Q, Steady(b, S, X, Q), NEW s \in Sharers, b.shares[s].wire # 0,
         NEW on \in BOOLEAN, on <=> b.watch.target = s, on => b.watch.codec,
         NEW d, d = Say(WithWanted(b, s, on), b.shares[s].wire, Want(on))
  PROVE  Steady(d, S \ {s}, X, Q) /\ SameEnds(b, d) /\ SamePlaces(b, d) /\ d.watch = b.watch
  <1>. DEFINE q == [b.shares[s] EXCEPT !.wanted = on]
              c == [b EXCEPT !.shares[s] = q]
  <1>0. b \in Boards /\ b.shares[s] \in ShareSet  BY BoardIs DEF Steady
  <1>1. q \in ShareSet /\ q.wire = b.shares[s].wire /\ q.wanted = on
    BY <1>0 DEF ShareSet
  <1>2. d = Say(c, b.shares[s].wire, Want(on))  BY DEF WithWanted
  <1>. HIDE DEF q
  <1>3. /\ c \in Boards /\ c.wires = b.wires /\ c.watch = b.watch
        /\ c.shares[s] = q /\ \A t \in Sharers : t # s => c.shares[t] = b.shares[t]
    BY <1>0, <1>1 DEF Boards
  <1>. HIDE DEF c
  <1>4. Steady(c, S \ {s}, X, Q \union {s})
    <2>1. c.shares[s].wire = b.shares[s].wire /\ (c.shares[s].wanted <=> b.watch.target = s)
      BY <1>1, <1>3
    <2>. QED  BY <1>3, <2>1, ShareSettled
  <1>5. c.shares[s].wire # 0 /\ on = c.shares[s].wanted /\ d = Say(c, c.shares[s].wire, Want(on))
    BY <1>1, <1>2, <1>3
  <1>6. s \in Sharers /\ on \in BOOLEAN  OBVIOUS
  <1>7. /\ Steady(d, S \ {s}, X, (Q \union {s}) \ {s})
        /\ SameEnds(c, d) /\ d.shares = c.shares /\ d.watch = c.watch
    BY ONLY <1>4, <1>5, <1>6, SayWants
  <1>8. Steady(d, S \ {s}, X, Q)
    <2>1. (Q \union {s}) \ {s} \subseteq Q /\ S \ {s} \subseteq S \ {s} /\ X \subseteq X  OBVIOUS
    <2>. QED  BY ONLY <1>7, <2>1, SteadyMono
  <1>9. SameEnds(b, d)  BY <1>3, <1>7 DEF SameEnds
  <1>10. SamePlaces(b, d)  BY <1>1, <1>3, <1>7 DEF SamePlaces
  <1>. QED  BY <1>3, <1>7, <1>8, <1>9, <1>10

\* settle leaves the share settled.
LEMMA SettleSteady ==
  ASSUME NEW b, NEW S, NEW X, NEW Q, Steady(b, S, X, Q), NEW s \in Sharers
  PROVE  /\ Steady(Settle(b, s), S \ {s}, X, Q)
         /\ SameEnds(b, Settle(b, s)) /\ SamePlaces(b, Settle(b, s))
  <1>. DEFINE on == b.watch.target = s
              told == IF on /\ ~b.watch.codec
                      THEN Say(WithCodec(b), b.watch.wire, Showing(s))
                      ELSE b
              made == IF told.shares[s].wanted # on
                      THEN Say(WithWanted(told, s, on), b.shares[s].wire, Want(on))
                      ELSE told
  <1>0. b \in Boards  BY DEF Steady
  <1>3. on \in BOOLEAN  OBVIOUS
  <1>1. CASE b.shares[s].wire = 0
    <2>1. Settle(b, s) = b
      <3>. HIDE DEF made
      <3>. QED  BY <1>1 DEF Settle
    <2>2. b.watch.target # s  BY <1>1, ScreensAssumption, PlaceIs
    <2>3. Matched(b, S \ {s})  BY <1>1, <2>2 DEF Steady, Matched
    <2>4. Steady(b, S \ {s}, X, Q)  BY <2>3 DEF Steady
    <2>. QED  BY <2>1, <2>4, SameEndsItself
  <1>2. CASE b.shares[s].wire # 0
    <2>1. Settle(b, s) = IF on /\ made.watch.gated THEN AskKeyframe(made, s) ELSE made
      BY <1>2 DEF Settle, WithCodec, WithWanted
    <2>. HIDE DEF made
    <2>2. /\ Steady(told, S, X, Q) /\ SameEnds(b, told) /\ told.shares = b.shares /\ (on => told.watch.codec)
          /\ told.watch.wire = b.watch.wire /\ told.watch.target = b.watch.target
      <3>1. CASE on /\ ~b.watch.codec
        <4>1. told = Say(WithCodec(b), b.watch.wire, Showing(s))
          BY <3>1
        <4>2. b.watch.target = s /\ ~b.watch.codec  BY <3>1
        <4>3. s \in Sharers /\ Steady(b, S, X, Q)  OBVIOUS
        <4>. HIDE DEF told
        <4>4. /\ Steady(told, S, X, Q) /\ SameEnds(b, told) /\ told.shares = b.shares /\ told.watch.codec
              /\ told.watch.wire = b.watch.wire /\ told.watch.target = b.watch.target
          BY ONLY <4>1, <4>2, <4>3, SettleTells
        <4>. QED  BY <4>4
      <3>2. CASE ~(on /\ ~b.watch.codec)
        <4>1. told = b /\ (on => b.watch.codec)  BY <3>2
        <4>. HIDE DEF told
        <4>. QED  BY <4>1, SameEndsItself
      <3>. QED  BY <3>1, <3>2
    <2>. HIDE DEF told
    <2>3. on <=> told.watch.target = s  BY <2>2
    <2>. HIDE DEF on
    <2>4. Steady(made, S \ {s}, X, Q) /\ SameEnds(told, made) /\ SamePlaces(told, made)
      <3>0. told \in Boards /\ told.shares[s].wire # 0 /\ told.shares[s].wanted \in BOOLEAN
        BY <1>2, <2>2, BoardIs DEF Steady
      <3>1. CASE told.shares[s].wanted # on
        <4>1. made = Say(WithWanted(told, s, on), told.shares[s].wire, Want(on))
          BY <2>2, <3>1 DEF made
        <4>2. on => told.watch.codec  BY <2>2
        <4>. QED  BY <1>3, <2>2, <2>3, <3>0, <4>1, <4>2, SettleMakes
      <3>2. CASE told.shares[s].wanted = on
        <4>1. made = told  BY <3>2 DEF made
        <4>2. Steady(told, S \ {s}, X, Q)
          <5>1. Matched(told, S)  BY <2>2 DEF Steady
          <5>2. told.shares[s].wanted = (told.watch.target = s)  BY <1>3, <2>3, <3>0, <3>2
          <5>3. told.watch.target = s => told.watch.codec  BY <2>2, <2>3
          <5>4. Matched(told, S \ {s})  BY <5>1, <5>2, <5>3 DEF Matched
          <5>. QED  BY <2>2, <5>4 DEF Steady
        <4>. QED  BY <4>1, <4>2, SameEndsItself
      <3>. QED  BY <3>1, <3>2
    <2>5. SameEnds(b, made) /\ SamePlaces(b, made)
      BY <2>2, <2>4, SameEndsChain DEF SamePlaces
    <2>6. CASE on /\ made.watch.gated
      <3>1. /\ Steady(AskKeyframe(made, s), S \ {s}, X, Q)
            /\ SameEnds(made, AskKeyframe(made, s)) /\ SamePlaces(made, AskKeyframe(made, s))
        BY <2>4, AskKeyframeSteady
      <3>2. SameEnds(b, AskKeyframe(made, s)) /\ SamePlaces(b, AskKeyframe(made, s))
        BY <2>5, <3>1, SameEndsChain DEF SamePlaces
      <3>. QED  BY <2>1, <2>6, <3>1, <3>2
    <2>7. CASE ~(on /\ made.watch.gated)
      BY <2>1, <2>4, <2>5, <2>7
    <2>. QED  BY <2>6, <2>7
  <1>. QED  BY <1>1, <1>2

LEMMA SettleIfSteady ==
  ASSUME NEW b, NEW S, NEW X, NEW Q, Steady(b, S, X, Q), NEW s \in Sharers \union {Nobody}
  PROVE  /\ Steady(SettleIf(b, s), S \ {s}, X, Q)
         /\ SameEnds(b, SettleIf(b, s)) /\ SamePlaces(b, SettleIf(b, s))
  <1>1. CASE s = Nobody
    <2>1. SettleIf(b, s) = b  BY <1>1 DEF SettleIf
    <2>2. Steady(b, S \ {s}, X, Q)
      <3>1. Nobody \notin Sharers  BY ScreensAssumption
      <3>2. Matched(b, S \ {s})
        BY <1>1, <3>1, BoardIs DEF Steady, Matched
      <3>. QED  BY <3>2 DEF Steady
    <2>. QED  BY <2>1, <2>2, SameEndsItself
  <1>2. CASE s # Nobody
    <2>1. SettleIf(b, s) = Settle(b, s) /\ s \in Sharers  BY <1>2 DEF SettleIf
    <2>. QED  BY <2>1, SettleSteady
  <1>. QED  BY <1>1, <1>2

\* What is watched changes, to a share there is or to nothing: both shares have still to be
\* settled, and the watcher has something to be told when it is nothing.
LEMMA Rewatched ==
  ASSUME NEW b, NEW S, NEW X, NEW Q, Steady(b, S, X, Q), NEW c \in Boards,
         c.wires = b.wires, c.shares = b.shares, ~c.watch.codec,
         c.watch.wire = 0 => c.watch = NoWatch,
         c.watch.wire # 0 => /\ c.watch.wire \in DOMAIN b.wires /\ b.wires[c.watch.wire].who = Watcher
                             /\ b.wires[c.watch.wire].at \in On /\ ~b.wires[c.watch.wire].over,
         c.watch.target # Nobody => b.shares[c.watch.target].wire # 0,
         NEW Y, \A k \in DOMAIN b.wires : k \in X \union {b.watch.wire} /\ k # c.watch.wire => k \in Y
  PROVE  /\ Steady(c, S \union {b.watch.target, c.watch.target}, Y, Q \union {Watcher})
         /\ c.watch.wire = 0 \/ c.watch.target # Nobody
              => Steady(c, S \union {b.watch.target, c.watch.target}, Y, Q \ {Watcher})
  <1>0. b \in Boards  BY DEF Steady
  <1>1. Placed(c)
    <2>1. Placed(b)  BY DEF Steady
    <2>. QED  BY <2>1 DEF Placed
  <1>2. Listed(c, Y)
    <2>1. \A k \in DOMAIN b.wires \ X : b.wires[k].at \in On /\ ~b.wires[k].over => OnIt(b, k)
      BY DEF Steady, Listed
    <2>2. ASSUME NEW k \in DOMAIN c.wires \ Y, c.wires[k].at \in On, ~c.wires[k].over
          PROVE  OnIt(c, k)
      <3>1. k = c.watch.wire \/ (k \notin X /\ k # b.watch.wire)  BY <2>2
      <3>2. CASE k = c.watch.wire
        <4>1. b.wires[k].who = Watcher
          <5>1. k # 0  BY <1>0, <2>2, BoardIs
          <5>. QED  BY <3>2, <5>1
        <4>. QED  BY <3>2, <4>1 DEF OnIt
      <3>3. CASE k \notin X /\ k # b.watch.wire
        <4>1. OnIt(b, k)  BY <2>1, <2>2, <3>3
        <4>. QED  BY <3>3, <4>1 DEF OnIt
      <3>. QED  BY <3>1, <3>2, <3>3
    <2>. QED  BY <2>2 DEF Listed
  <1>3. Matched(c, S \union {b.watch.target, c.watch.target})
    <2>1. Matched(b, S)  BY DEF Steady
    <2>2. ASSUME NEW s \in Sharers \ (S \union {b.watch.target, c.watch.target}), c.shares[s].wire # 0
          PROVE  c.shares[s].wanted = (c.watch.target = s)
      <3>1. b.shares[s].wanted = (b.watch.target = s)  BY <2>1, <2>2 DEF Matched
      <3>2. b.watch.target # s /\ c.watch.target # s  BY <2>2
      <3>. QED  BY <3>1, <3>2
    <2>. QED  BY <2>2 DEF Matched
  <1>4. \A k \in DOMAIN c.wires : WireOK(c.wires[k])  BY DEF Steady
  <1>5. \A s \in Sharers \ Q : SharerTold(c, s)
    <2>1. \A s \in Sharers \ Q : SharerTold(b, s)  BY DEF Steady, AllTold
    <2>. QED  BY <2>1 DEF SharerTold
  <1>6. AllTold(c, Q \union {Watcher})  BY <1>5 DEF AllTold
  <1>7. c.watch.wire = 0 \/ c.watch.target # Nobody => AllTold(c, Q \ {Watcher})
    <2>1. c.watch.wire = 0 \/ c.watch.target # Nobody => WatcherTold(c)  BY DEF WatcherTold
    <2>2. Watcher \notin Sharers  BY ScreensAssumption
    <2>. QED  BY <1>5, <2>1, <2>2 DEF AllTold
  <1>. QED  BY <1>1, <1>2, <1>3, <1>4, <1>6, <1>7 DEF Steady

\* A close on a socket that has lost its place, or has never had one.
LEMMA SayCloses ==
  ASSUME NEW b, NEW S, NEW X, NEW Q, Steady(b, S, X, Q), NEW k \in DOMAIN b.wires,
         b.wires[k].at \notin Early, ~OnIt(b, k),
         NEW why \in {"replaced", "ended", "not-in-voice", "busy", "nothing-to-watch"}
  PROVE  /\ Steady(Say(b, k, Closing(why)), S, X \ {k}, Q)
         /\ SameEnds(b, Say(b, k, Closing(why)))
         /\ Say(b, k, Closing(why)).shares = b.shares /\ Say(b, k, Closing(why)).watch = b.watch
         /\ \A j \in DOMAIN b.wires : j # k => Say(b, k, Closing(why)).wires[j] = b.wires[j]
  <1>. DEFINE m == Closing(why)
  <1>1. m \in Told /\ m.op = "close"  BY ToldIs
  <1>. HIDE DEF m
  <1>2. /\ b.wires[k].who = Watcher => m.op \in {"showing", "close"}
        /\ m.op = "close" => ~OnIt(b, k)
        /\ m.op = "showing" /\ b.watch.wire = k /\ Watcher \notin Q => m = Showing(b.watch.target)
        /\ m.op = "want" => \A s \in Sharers \ Q : b.shares[s].wire = k => m = Want(b.shares[s].wanted)
    BY <1>1
  <1>3. Steady(b, S, X, Q) /\ m \in Told /\ k \in DOMAIN b.wires /\ b.wires[k].at \notin Early  BY <1>1
  <1>4. /\ m.op = "close" => Steady(Say(b, k, m), S, X \ {k}, Q)
        /\ SameEnds(b, Say(b, k, m))
        /\ Say(b, k, m).shares = b.shares /\ Say(b, k, m).watch = b.watch
    BY ONLY <1>2, <1>3, SaySteady
  <1>5. \A j \in DOMAIN b.wires : j # k => Say(b, k, m).wires[j] = b.wires[j]
    BY <1>3, SayDoes DEF Steady
  <1>. QED  BY <1>1, <1>4, <1>5 DEF m

\* watch: a socket that is listed takes the watcher's place.
LEMMA StartWatchSteady ==
  ASSUME NEW b, NEW k, Steady(b, {}, {k}, {}), k \in DOMAIN b.wires,
         b.wires[k].who = Watcher, b.wires[k].at \in On, ~b.wires[k].over,
         b.wires[k].aim \in Sharers, b.shares[b.wires[k].aim].wire # 0, b.watch.wire # k
  PROVE  Steady(StartWatch(b, k), {}, {}, {}) /\ SameEnds(b, StartWatch(b, k))
  <1>. DEFINE t == b.wires[k].aim
              before == b.watch.target
              old == b.watch.wire
              q == [wire |-> k, target |-> t, codec |-> FALSE, gated |-> TRUE]
              put == [b EXCEPT !.watch = q]
              replaced == IF old = 0 THEN put ELSE Say(put, old, Closing("replaced"))
              left == IF before = t THEN replaced ELSE SettleIf(replaced, before)
  <1>0. /\ b \in Boards /\ k \in Nat /\ k # 0 /\ before \in Sharers \union {Nobody}
        /\ Nobody \notin Sharers /\ Watcher \notin Sharers
    BY BoardIs, ScreensAssumption DEF Steady
  <1>1. q \in WatchSet /\ q.wire = k /\ q.target = t /\ ~q.codec
    BY <1>0 DEF WatchSet
  <1>2. StartWatch(b, k) = Settle(left, t)  BY DEF StartWatch
  <1>. HIDE DEF left
  <1>. HIDE DEF replaced
  <1>. HIDE DEF q
  <1>3. put \in Boards /\ put.wires = b.wires /\ put.shares = b.shares /\ put.watch = q
    BY <1>0, <1>1 DEF Boards
  <1>. HIDE DEF put
  <1>4. Steady(put, {before, t}, {old}, {})
    <2>1. ~put.watch.codec /\ put.watch.wire = k /\ put.watch.target = t /\ t # Nobody
      BY <1>0, <1>1, <1>3
    <2>2. \A j \in DOMAIN b.wires : j \in {k} \union {b.watch.wire} /\ j # put.watch.wire => j \in {old}
      BY <2>1
    <2>3. /\ put.watch.wire = 0 => put.watch = NoWatch
          /\ put.watch.wire # 0 => /\ put.watch.wire \in DOMAIN b.wires /\ b.wires[put.watch.wire].who = Watcher
                                   /\ b.wires[put.watch.wire].at \in On /\ ~b.wires[put.watch.wire].over
          /\ put.watch.target # Nobody => b.shares[put.watch.target].wire # 0
      BY <1>0, <2>1
    <2>4. Steady(put, {} \union {b.watch.target, put.watch.target}, {old}, {} \ {Watcher})
      BY <1>3, <2>1, <2>2, <2>3, Rewatched
    <2>5. {} \union {b.watch.target, put.watch.target} \subseteq {before, t} /\ {old} \subseteq {old} /\ {} \ {Watcher} \subseteq {}
      BY <2>1
    <2>. QED  BY ONLY <2>4, <2>5, SteadyMono
  <1>5. Steady(replaced, {before, t}, {}, {}) /\ SameEnds(put, replaced)
    <2>1. CASE old = 0
      <3>1. replaced = put  BY <2>1 DEF replaced
      <3>2. Listed(put, {})
        <4>1. Listed(put, {old})  BY <1>4 DEF Steady
        <4>2. old \notin DOMAIN put.wires  BY <1>3, <2>1, BoardIs
        <4>. QED  BY <4>1, <4>2 DEF Listed
      <3>3. Steady(put, {before, t}, {}, {})  BY <1>4, <3>2 DEF Steady
      <3>. QED  BY <3>1, <3>3, SameEndsItself
    <2>2. CASE old # 0
      <3>1. replaced = Say(put, old, Closing("replaced"))  BY <2>2 DEF replaced
      <3>2. old \in DOMAIN b.wires /\ b.wires[old].who = Watcher /\ b.wires[old].at \notin Early
        BY <2>2, PlaceIs
      <3>3. old \in DOMAIN put.wires /\ put.wires[old].at \notin Early /\ ~OnIt(put, old)
        BY <1>0, <1>1, <1>3, <3>2 DEF OnIt
      <3>4. Steady(replaced, {before, t}, {old} \ {old}, {}) /\ SameEnds(put, replaced)
        BY <1>4, <3>1, <3>3, SayCloses
      <3>5. {old} \ {old} = {}  OBVIOUS
      <3>. QED  BY <3>4, <3>5
    <2>. QED  BY <2>1, <2>2
  <1>. HIDE DEF before
  <1>. HIDE DEF t
  <1>6. Steady(left, {t}, {}, {}) /\ SameEnds(replaced, left)
    <2>1. CASE before = t
      <3>1. left = replaced /\ {before, t} = {t}  BY <2>1 DEF left
      <3>. QED  BY <1>5, <3>1, SameEndsItself
    <2>2. CASE before # t
      <3>1. left = SettleIf(replaced, before) /\ {before, t} \ {before} = {t}  BY <2>2 DEF left
      <3>2. Steady(left, {before, t} \ {before}, {}, {}) /\ SameEnds(replaced, left)
        BY <1>0, <1>5, <3>1, SettleIfSteady
      <3>. QED  BY <3>1, <3>2
    <2>. QED  BY <2>1, <2>2
  <1>7. Steady(Settle(left, t), {}, {}, {}) /\ SameEnds(left, Settle(left, t))
    <2>1. t \in Sharers  BY DEF t
    <2>2. Steady(Settle(left, t), {t} \ {t}, {}, {}) /\ SameEnds(left, Settle(left, t))
      BY <1>6, <2>1, SettleSteady
    <2>3. {t} \ {t} = {}  OBVIOUS
    <2>. QED  BY <2>2, <2>3
  <1>8. SameEnds(b, put)  BY <1>3 DEF SameEnds, SameEnd
  <1>9. SameEnds(b, Settle(left, t))  BY <1>5, <1>6, <1>7, <1>8 DEF SameEnds, SameEnd
  <1>. QED  BY <1>2, <1>7, <1>9

\* switch, on the socket that watches: what the window asked for counts from here on.
LEMMA SwitchSteady ==
  ASSUME NEW b, NEW k, NEW t \in Sharers, Steady(b, {}, {}, {Watcher}), k # 0, b.watch.wire = k
  PROVE  Steady(Switch(b, k, t), {}, {}, {}) /\ SameEnds(b, Switch(b, k, t))
  <1>. DEFINE there == b.shares[t].wire # 0
              before == b.watch.target
              to == IF there THEN t ELSE Nobody
              q == [wire |-> k, target |-> to, codec |-> FALSE, gated |-> TRUE]
              put == [b EXCEPT !.watch = q]
              told == IF there THEN put ELSE Say(put, k, Showing(Nobody))
              left == IF before = t THEN told ELSE SettleIf(told, before)
  <1>0. /\ b \in Boards /\ k \in Nat /\ k # 0 /\ before \in Sharers \union {Nobody}
        /\ Nobody \notin Sharers /\ Watcher \notin Sharers /\ to \in Sharers \union {Nobody}
    BY BoardIs, ScreensAssumption DEF Steady
  <1>1. q \in WatchSet /\ q.wire = k /\ q.target = to /\ ~q.codec
    BY <1>0 DEF WatchSet
  <1>2. Switch(b, k, t) = IF there THEN Settle(left, t) ELSE left  BY DEF Switch
  <1>. HIDE DEF left
  <1>. HIDE DEF told
  <1>. HIDE DEF q
  <1>3. put \in Boards /\ put.wires = b.wires /\ put.shares = b.shares /\ put.watch = q
    BY <1>0, <1>1 DEF Boards
  <1>. HIDE DEF put
  <1>4. /\ Steady(put, {before, to}, {}, {Watcher})
        /\ to # Nobody => Steady(put, {before, to}, {}, {})
    <2>1. ~put.watch.codec /\ put.watch.wire = k /\ put.watch.target = to
      BY <1>1, <1>3
    <2>2. \A j \in DOMAIN b.wires : j \in {} \union {b.watch.wire} /\ j # put.watch.wire => j \in {}
      BY <2>1
    <2>3. b.watch.wire \in DOMAIN b.wires /\ b.wires[k].who = Watcher /\ b.wires[k].at \in On /\ ~b.wires[k].over
      BY <1>0 DEF Steady, Placed
    <2>4. /\ put.watch.wire = 0 => put.watch = NoWatch
          /\ put.watch.wire # 0 => /\ put.watch.wire \in DOMAIN b.wires /\ b.wires[put.watch.wire].who = Watcher
                                   /\ b.wires[put.watch.wire].at \in On /\ ~b.wires[put.watch.wire].over
          /\ put.watch.target # Nobody => b.shares[put.watch.target].wire # 0
      BY <1>0, <2>1, <2>3
    <2>5. /\ Steady(put, {} \union {b.watch.target, put.watch.target}, {}, {Watcher} \union {Watcher})
          /\ put.watch.wire = 0 \/ put.watch.target # Nobody
               => Steady(put, {} \union {b.watch.target, put.watch.target}, {}, {Watcher} \ {Watcher})
      BY <1>3, <2>1, <2>2, <2>4, Rewatched
    <2>6. /\ {} \union {b.watch.target, put.watch.target} = {before, to}
          /\ {Watcher} \union {Watcher} = {Watcher} /\ {Watcher} \ {Watcher} = {}
      BY <2>1
    <2>. QED  BY <2>1, <2>5, <2>6
  <1>5. Steady(told, {before, to}, {}, {}) /\ SameEnds(put, told)
    <2>1. CASE there
      <3>1. told = put /\ to # Nobody  BY <1>0, <2>1 DEF told
      <3>. QED  BY <1>4, <3>1, SameEndsItself
    <2>2. CASE ~there
      <3>1. told = Say(put, put.watch.wire, Showing(Nobody)) /\ put.watch.wire # 0 /\ Nobody = put.watch.target
        BY <1>0, <1>1, <1>3, <2>2 DEF told
      <3>2. Steady(told, {before, to}, {}, {Watcher} \ {Watcher}) /\ SameEnds(put, told)
        BY <1>4, <3>1, SayShows
      <3>3. {Watcher} \ {Watcher} = {}  OBVIOUS
      <3>. QED  BY <3>2, <3>3
    <2>. QED  BY <2>1, <2>2
  <1>6. before = t => there
    BY <1>0, PlaceIs
  <1>. HIDE DEF before
  <1>. HIDE DEF to
  <1>7. Steady(left, {to}, {}, {}) /\ SameEnds(told, left)
    <2>1. CASE before = t
      <3>1. left = told /\ {before, to} = {to}  BY <1>6, <2>1 DEF left, to
      <3>. QED  BY <1>5, <3>1, SameEndsItself
    <2>2. CASE before # t
      <3>1. left = SettleIf(told, before)  BY <2>2 DEF left
      <3>2. Steady(left, {before, to} \ {before}, {}, {}) /\ SameEnds(told, left)
        BY <1>0, <1>5, <3>1, SettleIfSteady
      <3>3. {before, to} \ {before} \subseteq {to} /\ {} \subseteq {}  OBVIOUS
      <3>4. Steady(left, {to}, {}, {})  BY ONLY <3>2, <3>3, SteadyMono
      <3>. QED  BY <3>2, <3>4
    <2>. QED  BY <2>1, <2>2
  <1>8. Steady(Switch(b, k, t), {}, {}, {}) /\ SameEnds(left, Switch(b, k, t))
    <2>1. CASE there
      <3>1. Switch(b, k, t) = Settle(left, t) /\ to = t  BY <1>2, <2>1 DEF to
      <3>2. Steady(Settle(left, t), {t} \ {t}, {}, {}) /\ SameEnds(left, Settle(left, t))
        BY <1>7, <3>1, SettleSteady
      <3>3. {t} \ {t} = {}  OBVIOUS
      <3>. QED  BY <3>1, <3>2, <3>3
    <2>2. CASE ~there
      <3>1. Switch(b, k, t) = left /\ to = Nobody  BY <1>2, <2>2 DEF to
      <3>2. Matched(left, {})
        <4>1. Matched(left, {Nobody})  BY <1>7, <3>1 DEF Steady
        <4>. QED  BY <1>0, <4>1 DEF Matched
      <3>3. Steady(left, {}, {}, {})  BY <1>7, <3>2 DEF Steady
      <3>. QED  BY <3>1, <3>3, SameEndsItself
    <2>. QED  BY <2>1, <2>2
  <1>9. SameEnds(b, put)  BY <1>3 DEF SameEnds, SameEnd
  <1>10. SameEnds(b, left)  BY <1>5, <1>7, <1>9, SameEndsChain
  <1>11. SameEnds(b, Switch(b, k, t))  BY <1>8, <1>10, SameEndsChain
  <1>. QED  BY <1>8, <1>11

\* The watcher's place is given up, of a socket that is listed still.
LEMMA WatchGone ==
  ASSUME NEW b, NEW Q, Steady(b, {}, {}, Q), b.watch.wire # 0,
         NEW c, c = [b EXCEPT !.watch = NoWatch]
  PROVE  /\ Steady(c, {b.watch.target}, {b.watch.wire}, Q \ {Watcher})
         /\ SameEnds(b, c) /\ c.shares = b.shares /\ c.wires = b.wires /\ c.watch = NoWatch
  <1>0. b \in Boards  BY DEF Steady
  <1>1. NoWatch \in WatchSet /\ NoWatch.wire = 0 /\ NoWatch.target = Nobody /\ ~NoWatch.codec
    BY DEF NoWatch, WatchSet
  <1>2. c \in Boards /\ c.wires = b.wires /\ c.shares = b.shares /\ c.watch = NoWatch
    BY <1>0, <1>1 DEF Boards
  <1>3. /\ ~c.watch.codec /\ c.watch.wire = 0 /\ c.watch.target = Nobody
        /\ \A j \in DOMAIN b.wires : j \in {} \union {b.watch.wire} /\ j # c.watch.wire => j \in {b.watch.wire}
    BY <1>1, <1>2
  <1>4. Steady(c, {} \union {b.watch.target, c.watch.target}, {b.watch.wire}, Q \ {Watcher})
    BY <1>2, <1>3, Rewatched
  <1>5. Steady(c, {b.watch.target}, {b.watch.wire}, Q \ {Watcher})
    <2>1. Matched(c, {} \union {b.watch.target, c.watch.target})  BY <1>4 DEF Steady
    <2>2. Matched(c, {b.watch.target})
      <3>1. Nobody \notin Sharers  BY ScreensAssumption
      <3>. QED  BY <1>3, <2>1, <3>1 DEF Matched
    <2>. QED  BY <1>4, <2>2 DEF Steady
  <1>6. SameEnds(b, c)  BY <1>2 DEF SameEnds, SameEnd
  <1>. QED  BY <1>2, <1>5, <1>6

\* unwatch
LEMMA UnwatchSteady ==
  ASSUME NEW b, NEW k, Steady(b, {}, {}, {}), k # 0
  PROVE  /\ Steady(Unwatch(b, k), {}, {k}, {}) /\ SameEnds(b, Unwatch(b, k))
         /\ Unwatch(b, k).watch.wire # k
         /\ \A s \in Sharers : Unwatch(b, k).shares[s].wire = b.shares[s].wire
  <1>1. CASE b.watch.wire = k
    <2>. DEFINE c == [b EXCEPT !.watch = NoWatch]
                d == SettleIf(c, b.watch.target)
    <2>1. Unwatch(b, k) = d  BY <1>1 DEF Unwatch
    <2>2. /\ Steady(c, {b.watch.target}, {k}, {} \ {Watcher})
          /\ SameEnds(b, c) /\ c.shares = b.shares /\ c.watch = NoWatch
      BY <1>1, WatchGone
    <2>. HIDE DEF c
    <2>3. b.watch.target \in Sharers \union {Nobody}  BY BoardIs DEF Steady
    <2>4. Steady(d, {b.watch.target} \ {b.watch.target}, {k}, {} \ {Watcher}) /\ SameEnds(c, d) /\ SamePlaces(c, d)
      BY <2>2, <2>3, SettleIfSteady
    <2>5. {b.watch.target} \ {b.watch.target} = {} /\ {} \ {Watcher} = {}  OBVIOUS
    <2>6. d.watch.wire # k /\ \A s \in Sharers : d.shares[s].wire = b.shares[s].wire
      BY <2>2, <2>4 DEF SamePlaces, NoWatch
    <2>7. SameEnds(b, d)  BY <2>2, <2>4, SameEndsChain
    <2>. QED  BY <2>1, <2>4, <2>5, <2>6, <2>7
  <1>2. CASE b.watch.wire # k
    <2>1. Unwatch(b, k) = b  BY <1>2 DEF Unwatch
    <2>2. Steady(b, {}, {k}, {})  BY SteadyMono
    <2>. QED  BY <1>2, <2>1, <2>2, SameEndsItself
  <1>. QED  BY <1>1, <1>2

\* keyframe leaves the board steady.
LEMMA LostPlaceSteady ==
  ASSUME NEW b, NEW k, Steady(b, {}, {}, {}), k # 0
  PROVE  Steady(LostPlace(b, k), {}, {}, {}) /\ SameEnds(b, LostPlace(b, k))
  <1>. DEFINE c == [b EXCEPT !.watch.gated = TRUE]
  <1>1. CASE b.watch.wire # k
    <2>1. LostPlace(b, k) = b  BY <1>1 DEF LostPlace
    <2>. QED  BY <2>1, SameEndsItself
  <1>2. CASE b.watch.wire = k
    <2>1. b \in Boards /\ b.watch \in WatchSet  BY BoardIs DEF Steady
    <2>2. /\ c \in Boards /\ c.wires = b.wires /\ c.shares = b.shares
          /\ c.watch.wire = b.watch.wire /\ c.watch.target = b.watch.target
      BY <2>1 DEF Boards, WatchSet
    <2>3. c.watch.codec <=> b.watch.codec  BY <2>1 DEF Boards, WatchSet
    <2>4. LostPlace(b, k) = IF b.watch.codec THEN AskKeyframe(c, b.watch.target) ELSE c
      BY <1>2 DEF LostPlace
    <2>. HIDE DEF c
    <2>5. Steady(c, {}, {}, {}) /\ SameEnds(b, c)
      BY <1>2, <2>2, <2>3, WatchGated DEF SameEnds, SameEnd
    <2>6. CASE b.watch.codec
      <3>1. b.watch.target \in Sharers
        <4>1. b.watch.target # Nobody  BY <2>6 DEF Steady, Matched
        <4>. QED  BY <2>1, <4>1, BoardIs
      <3>2. /\ Steady(AskKeyframe(c, b.watch.target), {}, {}, {})
            /\ SameEnds(c, AskKeyframe(c, b.watch.target))
        BY <2>5, <3>1, AskKeyframeSteady
      <3>. QED  BY <2>4, <2>5, <2>6, <3>2, SameEndsChain
    <2>7. CASE ~b.watch.codec
      BY <2>4, <2>5, <2>7
    <2>. QED  BY <2>6, <2>7
  <1>. QED  BY <1>1, <1>2

(* A share gone from the board, before its watcher is told. *)
Cleared(b, s) ==
  IF b.watch.target # s THEN [b EXCEPT !.shares[s] = NoShare]
  ELSE [b EXCEPT !.shares[s] = NoShare, !.watch.target = Nobody, !.watch.codec = FALSE]

\* The shares without one, and the watch without what it watched.
Unshared(b, s) == [b.shares EXCEPT ![s] = NoShare]
Unwatched(b) == [b.watch EXCEPT !.target = Nobody, !.codec = FALSE]

LEMMA ClearedIs ==
  ASSUME NEW b \in Boards, NEW s \in Sharers
  PROVE  /\ Cleared(b, s) \in Boards /\ Cleared(b, s).wires = b.wires
         /\ Cleared(b, s).shares = Unshared(b, s)
         /\ Cleared(b, s).shares[s] = NoShare
         /\ \A t \in Sharers : t # s => Cleared(b, s).shares[t] = b.shares[t]
         /\ Cleared(b, s).watch.wire = b.watch.wire
         /\ b.watch.target # s => Cleared(b, s).watch = b.watch
         /\ b.watch.target = s => /\ Cleared(b, s).watch.target = Nobody /\ ~Cleared(b, s).watch.codec
                                  /\ Cleared(b, s).watch = Unwatched(b)
         /\ WithoutShare(b, s) = IF b.watch.target # s THEN Cleared(b, s)
                                 ELSE Say(Cleared(b, s), b.watch.wire, Showing(Nobody))
  <1>. DEFINE c == Cleared(b, s)
              q == Unwatched(b)
              u == Unshared(b, s)
  <1>0. b.shares \in [Sharers -> ShareSet] /\ b.watch \in WatchSet /\ b.wires \in Seq(Wire)  BY BoardIs
  <1>1. NoShare \in ShareSet  BY DEF NoShare, ShareSet
  <1>2. q \in WatchSet /\ q.wire = b.watch.wire /\ q.target = Nobody /\ ~q.codec
    BY <1>0 DEF WatchSet, Unwatched
  <1>3. u \in [Sharers -> ShareSet] /\ u[s] = NoShare /\ \A t \in Sharers : t # s => u[t] = b.shares[t]
    BY <1>0, <1>1 DEF Unshared
  <1>4. CASE b.watch.target # s
    <2>1. c = [b EXCEPT !.shares = u]  BY <1>4 DEF Cleared, Unshared
    <2>. HIDE DEF u
    <2>2. c \in Boards /\ c.wires = b.wires /\ c.watch = b.watch /\ c.shares = u
      BY <1>0, <1>3, <2>1 DEF Boards
    <2>3. WithoutShare(b, s) = c  BY <1>4 DEF WithoutShare, Cleared
    <2>. HIDE DEF c
    <2>4. c.shares[s] = NoShare /\ \A t \in Sharers : t # s => c.shares[t] = b.shares[t]
      BY <1>3, <2>2
    <2>. QED  BY <1>4, <2>2, <2>3, <2>4 DEF c, u
  <1>5. CASE b.watch.target = s
    <2>1. c = [b EXCEPT !.shares = u, !.watch = q]  BY <1>5 DEF Cleared, Unshared, Unwatched
    <2>. HIDE DEF q, u
    <2>2. c \in Boards /\ c.wires = b.wires /\ c.watch = q /\ c.shares = u
      BY <1>0, <1>2, <1>3, <2>1 DEF Boards
    <2>3. WithoutShare(b, s) = Say(c, b.watch.wire, Showing(Nobody))
      BY <1>0, <1>5 DEF WithoutShare, Cleared, Boards
    <2>. HIDE DEF c
    <2>4. c.shares[s] = NoShare /\ \A t \in Sharers : t # s => c.shares[t] = b.shares[t]
      BY <1>3, <2>2
    <2>5. c.watch = Unwatched(b)  BY <2>2 DEF q
    <2>. QED  BY <1>2, <1>5, <2>2, <2>3, <2>4, <2>5 DEF c, u
  <1>. QED  BY <1>4, <1>5

LEMMA ClearedSteady ==
  ASSUME NEW b, NEW s \in Sharers, Steady(b, {}, {}, {}), b.shares[s].wire # 0
  PROVE  /\ Steady(Cleared(b, s), {}, {b.shares[s].wire}, {Watcher})
         /\ b.watch.target # s => Steady(Cleared(b, s), {}, {b.shares[s].wire}, {})
  <1>. DEFINE c == Cleared(b, s)
              k == b.shares[s].wire
  <1>0. b \in Boards /\ Nobody \notin Sharers /\ Watcher \notin Sharers
    BY ScreensAssumption DEF Steady
  <1>1. /\ c \in Boards /\ c.wires = b.wires /\ c.shares[s] = NoShare
        /\ \A t \in Sharers : t # s => c.shares[t] = b.shares[t]
        /\ c.watch.wire = b.watch.wire
        /\ b.watch.target # s => c.watch = b.watch
        /\ b.watch.target = s => c.watch.target = Nobody /\ ~c.watch.codec
    BY <1>0, ClearedIs
  <1>2. NoShare.wire = 0 /\ ~NoShare.wanted  BY DEF NoShare
  <1>. HIDE DEF c
  <1>3. c.watch.target # Nobody => c.watch.target # s /\ c.watch.target = b.watch.target /\ c.watch.target \in Sharers
    BY <1>0, <1>1, PlaceIs
  <1>4. Placed(c)
    <2>1. Placed(b)  BY DEF Steady
    <2>2. c.watch.wire = 0 => c.watch = NoWatch
      <3>1. b.watch.wire = 0 => b.watch.target # s  BY <1>0, PlaceIs
      <3>. QED  BY <1>1, <2>1, <3>1 DEF Placed
    <2>3. \A t \in Sharers : c.shares[t].wire # 0 => t # s  BY <1>1, <1>2
    <2>. QED  BY <1>1, <1>2, <1>3, <2>1, <2>2, <2>3 DEF Placed
  <1>5. Listed(c, {k})
    <2>1. Listed(b, {})  BY DEF Steady
    <2>2. ASSUME NEW j \in DOMAIN c.wires \ {k}, c.wires[j].at \in On, ~c.wires[j].over
          PROVE  OnIt(c, j)
      <3>1. OnIt(b, j)  BY <1>1, <2>1, <2>2 DEF Listed
      <3>2. c.wires[j].who = s /\ s \in Sharers => b.shares[s].wire # j  BY <2>2
      <3>3. c.wires[j].who = Watcher => c.wires[j].who \notin Sharers  BY <1>0
      <3>. QED  BY <1>1, <3>1, <3>2, <3>3 DEF OnIt
    <2>. QED  BY <2>2 DEF Listed
  <1>6. Matched(c, {})
    <2>1. Matched(b, {})  BY DEF Steady
    <2>2. ASSUME NEW t \in Sharers, c.shares[t].wire # 0
          PROVE  c.shares[t].wanted = (c.watch.target = t)
      <3>1. t # s /\ c.shares[t] = b.shares[t]  BY <1>1, <1>2, <2>2
      <3>2. b.shares[t].wanted = (b.watch.target = t)  BY <2>1, <2>2, <3>1 DEF Matched
      <3>3. (c.watch.target = t) <=> (b.watch.target = t)  BY <1>0, <1>1, <3>1
      <3>. QED  BY <3>1, <3>2, <3>3
    <2>3. c.watch.codec => c.watch.target # Nobody  BY <1>1, <2>1 DEF Matched
    <2>4. c.watch.target # Nobody => c.watch.codec  BY <1>1, <2>1 DEF Matched
    <2>. QED  BY <2>2, <2>3, <2>4 DEF Matched
  <1>7. \A j \in DOMAIN c.wires : WireOK(c.wires[j])  BY <1>1 DEF Steady
  <1>8. \A t \in Sharers : SharerTold(c, t)
    <2>1. \A t \in Sharers : SharerTold(b, t)  BY DEF Steady, AllTold
    <2>2. SharerTold(c, s)  BY <1>1, <1>2 DEF SharerTold
    <2>. QED  BY <1>1, <2>1, <2>2 DEF SharerTold
  <1>9. Steady(c, {}, {k}, {Watcher})
    <2>1. AllTold(c, {Watcher})  BY <1>8 DEF AllTold
    <2>. QED  BY <1>1, <1>4, <1>5, <1>6, <1>7, <2>1 DEF Steady
  <1>10. ASSUME b.watch.target # s
         PROVE  Steady(c, {}, {k}, {})
    <2>1. WatcherTold(b)  BY DEF Steady, AllTold
    <2>2. WatcherTold(c)  BY <1>1, <1>10, <2>1 DEF WatcherTold
    <2>3. AllTold(c, {})  BY <1>8, <2>2 DEF AllTold
    <2>. QED  BY <1>1, <1>4, <1>5, <1>6, <1>7, <2>3 DEF Steady
  <1>. QED  BY <1>9, <1>10 DEF c

\* A share gone from the board, its watcher told; its socket is listed still.
LEMMA WithoutShareSteady ==
  ASSUME NEW b, NEW s \in Sharers, Steady(b, {}, {}, {}), b.shares[s].wire # 0
  PROVE  /\ Steady(WithoutShare(b, s), {}, {b.shares[s].wire}, {})
         /\ SameEnds(b, WithoutShare(b, s))
         /\ WithoutShare(b, s).shares[s] = NoShare
         /\ \A t \in Sharers : t # s => WithoutShare(b, s).shares[t] = b.shares[t]
         /\ WithoutShare(b, s).watch.wire = b.watch.wire
  <1>. DEFINE c == Cleared(b, s)
              d == WithoutShare(b, s)
  <1>0. b \in Boards  BY DEF Steady
  <1>1. /\ c.wires = b.wires /\ c.shares[s] = NoShare
        /\ \A t \in Sharers : t # s => c.shares[t] = b.shares[t]
        /\ c.watch.wire = b.watch.wire
        /\ b.watch.target = s => c.watch.target = Nobody
        /\ d = IF b.watch.target # s THEN c ELSE Say(c, b.watch.wire, Showing(Nobody))
    BY <1>0, ClearedIs
  <1>2. /\ Steady(c, {}, {b.shares[s].wire}, {Watcher})
        /\ b.watch.target # s => Steady(c, {}, {b.shares[s].wire}, {})
    BY ClearedSteady
  <1>. HIDE DEF c
  <1>3. SameEnds(b, c)  BY <1>1 DEF SameEnds, SameEnd
  <1>4. CASE b.watch.target # s
    BY <1>1, <1>2, <1>3, <1>4
  <1>5. CASE b.watch.target = s
    <2>1. c.watch.wire # 0 /\ Nobody = c.watch.target /\ d = Say(c, c.watch.wire, Showing(Nobody))
      BY <1>0, <1>1, <1>5, ScreensAssumption, PlaceIs
    <2>. HIDE DEF d
    <2>2. /\ Steady(d, {}, {b.shares[s].wire}, {Watcher} \ {Watcher})
          /\ SameEnds(c, d) /\ d.shares = c.shares /\ d.watch = c.watch
      BY <1>2, <2>1, SayShows
    <2>3. {Watcher} \ {Watcher} = {}  OBVIOUS
    <2>4. SameEnds(b, d)  BY <1>3, <2>2, SameEndsChain
    <2>. QED  BY <1>1, <2>2, <2>3, <2>4 DEF d
  <1>. QED  BY <1>4, <1>5

\* unshare
LEMMA UnshareSteady ==
  ASSUME NEW b, NEW k \in DOMAIN b.wires, Steady(b, {}, {}, {}), b.wires[k].who \in Sharers
  PROVE  /\ Steady(Unshare(b, k), {}, {k}, {}) /\ SameEnds(b, Unshare(b, k))
         /\ \A s \in Sharers : /\ Unshare(b, k).shares[s].wire # k
                               /\ Unshare(b, k).shares[s].wire \in {0, b.shares[s].wire}
         /\ Unshare(b, k).watch.wire = b.watch.wire
  <1>. DEFINE s == b.wires[k].who
              d == Unshare(b, k)
  <1>0. k # 0 /\ b \in Boards  BY BoardIs DEF Steady
  <1>1. \A t \in Sharers : b.shares[t].wire = k => t = s  BY <1>0, PlaceIs
  <1>2. CASE b.shares[s].wire = k
    <2>1. d = WithoutShare(b, s)  BY <1>2 DEF Unshare
    <2>. HIDE DEF s
    <2>2. s \in Sharers  BY DEF s
    <2>3. /\ Steady(d, {}, {k}, {}) /\ SameEnds(b, d) /\ d.shares[s] = NoShare
          /\ \A t \in Sharers : t # s => d.shares[t] = b.shares[t]
          /\ d.watch.wire = b.watch.wire
      BY <1>0, <1>2, <2>1, <2>2, WithoutShareSteady
    <2>4. NoShare.wire = 0  BY DEF NoShare
    <2>5. \A t \in Sharers : d.shares[t].wire # k /\ d.shares[t].wire \in {0, b.shares[t].wire}
      BY <1>0, <1>1, <2>3, <2>4
    <2>. QED  BY <2>3, <2>5
  <1>3. CASE b.shares[s].wire # k
    <2>1. d = b  BY <1>3 DEF Unshare
    <2>2. Steady(b, {}, {k}, {})  BY SteadyMono
    <2>3. \A t \in Sharers : b.shares[t].wire # k  BY <1>1, <1>3
    <2>. QED  BY <2>1, <2>2, <2>3, SameEndsItself
  <1>. QED  BY <1>2, <1>3

(* A share put on the board, before anybody is told. *)
Put(b, k) ==
  [b EXCEPT !.shares[b.wires[k].who] = [NoShare EXCEPT !.wire = k],
            !.watch.codec = @ /\ b.watch.target # b.wires[k].who]

LEMMA PutIs ==
  ASSUME NEW b \in Boards, NEW k \in Nat, NEW s \in Sharers, s = b.wires[k].who
  PROVE  /\ Put(b, k) \in Boards /\ Put(b, k).wires = b.wires
         /\ Put(b, k).shares[s].wire = k /\ ~Put(b, k).shares[s].wanted
         /\ \A t \in Sharers : t # s => Put(b, k).shares[t] = b.shares[t]
         /\ Put(b, k).watch.wire = b.watch.wire /\ Put(b, k).watch.target = b.watch.target
         /\ Put(b, k).watch.codec <=> b.watch.codec /\ b.watch.target # s
         /\ ~b.watch.codec => Put(b, k).watch = b.watch
  <1>. DEFINE c == Put(b, k)
              p == [NoShare EXCEPT !.wire = k]
              q == [b.watch EXCEPT !.codec = b.watch.codec /\ b.watch.target # s]
  <1>0. b.shares \in [Sharers -> ShareSet] /\ b.watch \in WatchSet /\ b.wires \in Seq(Wire)
    BY BoardIs
  <1>1. p \in ShareSet /\ p.wire = k /\ ~p.wanted  BY DEF NoShare, ShareSet
  <1>2. q \in WatchSet /\ q.wire = b.watch.wire /\ q.target = b.watch.target
    BY <1>0 DEF WatchSet
  <1>3. q.codec <=> b.watch.codec /\ b.watch.target # s
    BY <1>0 DEF WatchSet
  <1>4. c = [b EXCEPT !.shares = [b.shares EXCEPT ![s] = p], !.watch = q]  BY DEF Put
  <1>5. ~b.watch.codec => q = b.watch
    <2>1. q = [b.watch EXCEPT !.codec = q.codec]  BY <1>0 DEF WatchSet
    <2>2. [b.watch EXCEPT !.codec = b.watch.codec] = b.watch  BY <1>0 DEF WatchSet
    <2>3. q.codec \in BOOLEAN /\ b.watch.codec \in BOOLEAN  BY <1>0, <1>2 DEF WatchSet
    <2>. HIDE DEF q
    <2>4. ~b.watch.codec => q.codec = b.watch.codec  BY <1>3, <2>3
    <2>. QED  BY <2>1, <2>2, <2>4
  <1>. HIDE DEF p
  <1>. HIDE DEF q
  <1>6. [b.shares EXCEPT ![s] = p] \in [Sharers -> ShareSet]  BY <1>0, <1>1
  <1>7. c \in Boards /\ c.wires = b.wires /\ c.watch = q /\ c.shares = [b.shares EXCEPT ![s] = p]
    BY <1>0, <1>2, <1>4, <1>6 DEF Boards
  <1>. HIDE DEF c
  <1>8. c.shares[s] = p /\ \A t \in Sharers : t # s => c.shares[t] = b.shares[t]
    BY <1>0, <1>7
  <1>. QED  BY <1>1, <1>2, <1>3, <1>5, <1>7, <1>8 DEF c

LEMMA PutSteady ==
  ASSUME NEW b, NEW k, Steady(b, {}, {k}, {}), k \in DOMAIN b.wires,
         NEW s \in Sharers, s = b.wires[k].who, b.wires[k].at \in On, ~b.wires[k].over,
         b.shares[s].wire # k
  PROVE  Steady(Put(b, k), {s}, {b.shares[s].wire}, {s})
  <1>. DEFINE c == Put(b, k)
              old == b.shares[s].wire
  <1>0. b \in Boards /\ k \in Nat /\ k # 0 /\ Nobody \notin Sharers /\ Watcher \notin Sharers
    BY BoardIs, ScreensAssumption DEF Steady
  <1>1. c.shares[s].wire = k /\ ~c.shares[s].wanted  BY <1>0, PutIs
  <1>2. c.watch.wire = b.watch.wire /\ c.watch.target = b.watch.target  BY <1>0, PutIs
  <1>3. c.watch.codec <=> b.watch.codec /\ b.watch.target # s  BY <1>0, PutIs
  <1>6. c \in Boards /\ c.wires = b.wires  BY <1>0, PutIs
  <1>7. \A t \in Sharers : t # s => c.shares[t] = b.shares[t]  BY <1>0, PutIs
  <1>4. ~b.watch.codec => c.watch = b.watch  BY <1>0, PutIs
  <1>. HIDE DEF c
  <1>8. Placed(c)
    <2>1. Placed(b)  BY DEF Steady
    <2>2. b.watch.target # Nobody => b.watch.target \in Sharers  BY <1>0, BoardIs
    <2>3. c.watch.target # Nobody => c.shares[c.watch.target].wire # 0
      BY <1>0, <1>1, <1>2, <1>6, <1>7, <2>1, <2>2 DEF Placed
    <2>4. c.watch.wire = 0 => c.watch = NoWatch
      <3>1. b.watch.wire = 0 => b.watch = NoWatch  BY <2>1 DEF Placed
      <3>2. b.watch = NoWatch => ~b.watch.codec  BY DEF NoWatch
      <3>. QED  BY <1>2, <1>4, <3>1, <3>2
    <2>5. ASSUME NEW t \in Sharers
          PROVE  /\ c.shares[t].wire # 0 =>
                    /\ c.shares[t].wire \in DOMAIN c.wires /\ c.wires[c.shares[t].wire].who = t
                    /\ c.wires[c.shares[t].wire].at \in On /\ ~c.wires[c.shares[t].wire].over
                 /\ c.shares[t].wire = 0 => c.shares[t] = NoShare
      <3>1. CASE t = s  BY <1>0, <1>1, <1>6, <1>7, <3>1
      <3>2. CASE t # s  BY <1>6, <1>7, <2>1, <3>2 DEF Placed
      <3>. QED  BY <3>1, <3>2
    <2>6. c.watch.wire # 0 =>
             /\ c.watch.wire \in DOMAIN c.wires /\ c.wires[c.watch.wire].who = Watcher
             /\ c.wires[c.watch.wire].at \in On /\ ~c.wires[c.watch.wire].over
      BY <1>2, <1>6, <2>1 DEF Placed
    <2>. QED  BY <2>3, <2>4, <2>5, <2>6 DEF Placed
  <1>9. Listed(c, {old})
    <2>1. Listed(b, {k})  BY DEF Steady
    <2>2. ASSUME NEW j \in DOMAIN c.wires \ {old}, c.wires[j].at \in On, ~c.wires[j].over
          PROVE  OnIt(c, j)
      <3>1. CASE j = k  BY <1>1, <1>6, <1>7, <3>1 DEF OnIt
      <3>2. CASE j # k
        <4>1. OnIt(b, j)  BY <1>6, <2>1, <2>2, <3>2 DEF Listed
        <4>2. b.wires[j].who = s => b.shares[s].wire # j  BY <2>2
        <4>. QED  BY <1>0, <1>2, <1>6, <1>7, <4>1, <4>2 DEF OnIt
      <3>. QED  BY <3>1, <3>2
    <2>. QED  BY <2>2 DEF Listed
  <1>10. Matched(c, {s})
    <2>1. Matched(b, {})  BY DEF Steady
    <2>2. ASSUME NEW t \in Sharers \ {s}, c.shares[t].wire # 0
          PROVE  c.shares[t].wanted = (c.watch.target = t)
      BY <1>2, <1>6, <1>7, <2>1, <2>2 DEF Matched
    <2>3. c.watch.codec => c.watch.target # Nobody  BY <1>2, <1>3, <1>6, <2>1 DEF Matched
    <2>4. c.watch.target \notin {s} \union {Nobody} => c.watch.codec  BY <1>2, <1>3, <1>6, <2>1 DEF Matched
    <2>. QED  BY <2>2, <2>3, <2>4 DEF Matched
  <1>11. AllTold(c, {s})
    <2>1. (\A t \in Sharers : SharerTold(b, t)) /\ WatcherTold(b)
      BY <1>0 DEF Steady, AllTold
    <2>2. \A t \in Sharers \ {s} : SharerTold(c, t)  BY <1>6, <1>7, <2>1 DEF SharerTold
    <2>3. WatcherTold(c)
      <3>1. CASE b.watch.target = s
        <4>1. ~c.watch.codec /\ c.watch.target # Nobody  BY <1>0, <1>2, <1>3, <1>6, <3>1
        <4>. QED  BY <4>1 DEF WatcherTold
      <3>2. CASE b.watch.target # s
        <4>1. (c.watch.codec <=> b.watch.codec) /\ c.watch.target = b.watch.target /\ c.watch.wire = b.watch.wire
          BY <1>2, <1>3, <1>6, <3>2
        <4>. QED  BY <1>6, <2>1, <4>1 DEF WatcherTold
      <3>. QED  BY <3>1, <3>2
    <2>. QED  BY <1>0, <2>2, <2>3 DEF AllTold
  <1>12. \A j \in DOMAIN c.wires : WireOK(c.wires[j])  BY <1>6 DEF Steady
  <1>. QED  BY <1>6, <1>8, <1>9, <1>10, <1>11, <1>12 DEF Steady, c

\* share: a socket that is listed takes its session's place.
LEMMA ShareSteady ==
  ASSUME NEW b, NEW k, Steady(b, {}, {k}, {}), k \in DOMAIN b.wires,
         NEW s \in Sharers, s = b.wires[k].who, b.wires[k].at \in On, ~b.wires[k].over,
         b.shares[s].wire # k
  PROVE  Steady(Share(b, k), {}, {}, {}) /\ SameEnds(b, Share(b, k))
  <1>. DEFINE old == b.shares[s].wire
              c == Put(b, k)
              closed == IF old = 0 THEN c ELSE Say(c, old, Closing("replaced"))
              told == Say(closed, k, Want(FALSE))
  <1>0. b \in Boards /\ k \in Nat /\ k # 0 /\ Watcher \notin Sharers
    BY BoardIs, ScreensAssumption DEF Steady
  <1>1. Share(b, k) = Settle(told, s)  BY DEF Share, Put
  <1>2. /\ Steady(c, {s}, {old}, {s}) /\ c.wires = b.wires /\ c.shares[s].wire = k /\ ~c.shares[s].wanted
        /\ c.watch.wire = b.watch.wire
    <2>1. /\ Steady(b, {}, {k}, {}) /\ k \in DOMAIN b.wires /\ s \in Sharers /\ s = b.wires[k].who
          /\ b.wires[k].at \in On /\ ~b.wires[k].over /\ b.shares[s].wire # k
      OBVIOUS
    <2>2. Steady(c, {s}, {old}, {s})  BY ONLY <2>1, PutSteady
    <2>3. /\ c.wires = b.wires /\ c.shares[s].wire = k /\ ~c.shares[s].wanted
          /\ c.watch.wire = b.watch.wire
      BY <1>0, PutIs
    <2>. QED  BY ONLY <2>2, <2>3
  <1>3. SameEnds(b, c)  BY <1>2 DEF SameEnds, SameEnd
  <1>. HIDE DEF c
  <1>4. Steady(closed, {s}, {}, {s}) /\ SameEnds(c, closed) /\ closed.shares = c.shares
    <2>1. CASE old = 0
      <3>1. closed = c  BY <2>1
      <3>2. Listed(c, {})
        <4>1. Listed(c, {old})  BY <1>2 DEF Steady
        <4>2. old \notin DOMAIN c.wires  BY <1>0, <1>2, <2>1, BoardIs
        <4>. QED  BY <4>1, <4>2 DEF Listed
      <3>3. Steady(c, {s}, {}, {s})  BY <1>2, <3>2 DEF Steady
      <3>. QED  BY <3>1, <3>3, SameEndsItself
    <2>2. CASE old # 0
      <3>1. closed = Say(c, old, Closing("replaced"))  BY <2>2
      <3>2. old \in DOMAIN b.wires /\ b.wires[old].who = s /\ b.wires[old].at \notin Early /\ b.watch.wire # old
        <4>1. Steady(b, {}, {k}, {}) /\ s \in Sharers  OBVIOUS
        <4>. QED  BY ONLY <2>2, <4>1, PlaceIs
      <3>. HIDE DEF closed
      <3>3. old \in DOMAIN c.wires /\ c.wires[old].at \notin Early /\ ~OnIt(c, old)
        BY <1>0, <1>2, <3>2 DEF OnIt
      <3>. HIDE DEF old
      <3>4. /\ Steady(closed, {s}, {old} \ {old}, {s}) /\ SameEnds(c, closed) /\ closed.shares = c.shares
        BY <1>2, <3>1, <3>3, SayCloses
      <3>5. {old} \ {old} = {}  OBVIOUS
      <3>. QED  BY <3>4, <3>5
    <2>. QED  BY <2>1, <2>2
  <1>. HIDE DEF closed
  <1>5. Steady(told, {s}, {}, {}) /\ SameEnds(closed, told)
    <2>1. told = Say(closed, closed.shares[s].wire, Want(FALSE)) /\ closed.shares[s].wire # 0
      BY <1>0, <1>2, <1>4
    <2>2. FALSE = closed.shares[s].wanted /\ FALSE \in BOOLEAN  BY <1>2, <1>4, BoardIs DEF Steady
    <2>. HIDE DEF told
    <2>3. Steady(told, {s}, {}, {s} \ {s}) /\ SameEnds(closed, told)
      BY <1>4, <2>1, <2>2, SayWants
    <2>4. {s} \ {s} = {}  OBVIOUS
    <2>. QED  BY <2>3, <2>4
  <1>. HIDE DEF told
  <1>6. Steady(Settle(told, s), {s} \ {s}, {}, {}) /\ SameEnds(told, Settle(told, s))
    BY <1>5, SettleSteady
  <1>7. {s} \ {s} = {}  OBVIOUS
  <1>8. SameEnds(b, Settle(told, s))
    <2>1. SameEnds(b, closed)  BY <1>3, <1>4, SameEndsChain
    <2>2. SameEnds(b, told)  BY <1>5, <2>1, SameEndsChain
    <2>. QED  BY <1>6, <2>2, SameEndsChain
  <1>. QED  BY <1>1, <1>6, <1>7, <1>8

(* A message said on a socket of a list of them. *)
SaidOn(ws, k, m) ==
  [ws EXCEPT ![k] = [ws[k] EXCEPT !.says = IF ws[k].page = "gone" \/ ws[k].cut THEN @ ELSE Append(@, m),
                                  !.over = @ \/ m.op = "close"]]

LEMMA SayIs ==
  ASSUME NEW b \in Boards, NEW k, NEW m
  PROVE  Say(b, k, m).wires = SaidOn(b.wires, k, m)
  BY DEF Say, SaidOn, Boards

\* It does not matter whether a share is gone before its socket is closed, or after.
LEMMA ClearedAndClosed ==
  ASSUME NEW b \in Boards, NEW s \in Sharers, NEW k \in DOMAIN b.wires, NEW m \in Told
  PROVE  Cleared(Say(b, k, m), s) = Say(Cleared(b, s), k, m)
  <1>. DEFINE c == Cleared(Say(b, k, m), s)
              d == Say(Cleared(b, s), k, m)
  <1>1. /\ Say(b, k, m) \in Boards /\ Say(b, k, m).wires = SaidOn(b.wires, k, m)
        /\ Say(b, k, m).shares = b.shares /\ Say(b, k, m).watch = b.watch
    BY SayDoes, SayIs
  <1>2. /\ Cleared(b, s) \in Boards /\ Cleared(b, s).wires = b.wires
        /\ Cleared(b, s).shares = [b.shares EXCEPT ![s] = NoShare]
        /\ b.watch.target # s => Cleared(b, s).watch = b.watch
        /\ b.watch.target = s => Cleared(b, s).watch = [b.watch EXCEPT !.target = Nobody, !.codec = FALSE]
    BY ClearedIs DEF Unshared, Unwatched
  <1>3. /\ c \in Boards /\ c.wires = SaidOn(b.wires, k, m)
        /\ c.shares = [b.shares EXCEPT ![s] = NoShare]
        /\ b.watch.target # s => c.watch = b.watch
        /\ b.watch.target = s => c.watch = [b.watch EXCEPT !.target = Nobody, !.codec = FALSE]
    <2>. DEFINE e == Say(b, k, m)
    <2>. HIDE DEF e
    <2>1. e \in Boards /\ e.wires = SaidOn(b.wires, k, m) /\ e.shares = b.shares /\ e.watch = b.watch
      BY <1>1 DEF e
    <2>2. /\ Cleared(e, s) \in Boards /\ Cleared(e, s).wires = e.wires
          /\ Cleared(e, s).shares = [e.shares EXCEPT ![s] = NoShare]
          /\ e.watch.target # s => Cleared(e, s).watch = e.watch
          /\ e.watch.target = s => Cleared(e, s).watch = [e.watch EXCEPT !.target = Nobody, !.codec = FALSE]
      BY <2>1, ClearedIs DEF Unshared, Unwatched
    <2>. QED  BY <2>1, <2>2 DEF e
  <1>4. /\ d \in Boards /\ d.wires = SaidOn(b.wires, k, m) /\ d.shares = [b.shares EXCEPT ![s] = NoShare]
        /\ d.watch = Cleared(b, s).watch
    <2>. DEFINE e == Cleared(b, s)
    <2>. HIDE DEF e
    <2>1. e \in Boards /\ e.wires = b.wires /\ e.shares = [b.shares EXCEPT ![s] = NoShare]
      BY <1>2 DEF e
    <2>2. k \in DOMAIN e.wires  BY <2>1
    <2>3. /\ Say(e, k, m) \in Boards /\ Say(e, k, m).wires = SaidOn(e.wires, k, m)
          /\ Say(e, k, m).shares = e.shares /\ Say(e, k, m).watch = e.watch
      BY <2>1, <2>2, SayDoes, SayIs
    <2>. QED  BY <2>1, <2>3 DEF e
  <1>. HIDE DEF c
  <1>. HIDE DEF d
  <1>5. c.wires = d.wires /\ c.shares = d.shares /\ c.watch = d.watch
    BY <1>2, <1>3, <1>4
  <1>6. c = d  BY <1>3, <1>4, <1>5 DEF Boards
  <1>. QED  BY <1>6 DEF c, d

\* A share ends with its session's seat: its socket is closed.
LEMMA ShareEndedSteady ==
  ASSUME NEW b, NEW s \in Sharers, Steady(b, {}, {}, {}), b.shares[s].wire # 0
  PROVE  /\ Steady(EndedWith(b, s), {}, {}, {}) /\ SameEnds(b, EndedWith(b, s))
         /\ EndedWith(b, s).shares[s].wire = 0
  <1>. DEFINE k == b.shares[s].wire
              m == Closing("ended")
              e == Say(b, k, m)
              c == Cleared(b, s)
              d == Say(c, k, m)
              r == WithoutShare(e, s)
  <1>0. /\ b \in Boards /\ k \in DOMAIN b.wires /\ b.wires[k].who = s /\ b.wires[k].at \notin Early
        /\ b.wires[k].who # Watcher /\ s # Watcher /\ m \in Told /\ b.watch.wire # k
    BY ScreensAssumption, PlaceIs, ToldIs DEF Steady
  <1>1. EndedWith(b, s) = r  BY <1>0 DEF EndedWith
  <1>2. e \in Boards /\ e.watch = b.watch  BY <1>0, SayDoes
  <1>3. d = Cleared(e, s)  BY <1>0, ClearedAndClosed
  <1>4. /\ c \in Boards /\ c.wires = b.wires /\ c.shares[s] = NoShare
        /\ c.watch.wire = b.watch.wire
        /\ \A t \in Sharers : t # s => c.shares[t] = b.shares[t]
        /\ b.watch.target = s => c.watch.target = Nobody
    BY <1>0, ClearedIs
  <1>5. Steady(c, {}, {k}, {Watcher}) /\ (b.watch.target # s => Steady(c, {}, {k}, {}))
    BY ClearedSteady
  <1>6. r = IF b.watch.target # s THEN d ELSE Say(d, b.watch.wire, Showing(Nobody))
    <2>. HIDE DEF e
    <2>. HIDE DEF d
    <2>1. WithoutShare(e, s) = IF e.watch.target # s THEN Cleared(e, s)
                               ELSE Say(Cleared(e, s), e.watch.wire, Showing(Nobody))
      BY <1>2, ClearedIs
    <2>. QED  BY <1>2, <1>3, <2>1
  <1>. HIDE DEF c
  <1>. HIDE DEF r
  <1>7. NoShare.wire = 0  BY DEF NoShare
  <1>8. k \in DOMAIN c.wires /\ c.wires[k].at \notin Early /\ ~OnIt(c, k)
    BY <1>0, <1>4, <1>7 DEF OnIt
  <1>. HIDE DEF k
  <1>9. SameEnds(b, c)  BY <1>4 DEF SameEnds, SameEnd
  <1>10. /\ Steady(d, {}, {}, {Watcher}) /\ (b.watch.target # s => Steady(d, {}, {}, {}))
         /\ SameEnds(c, d) /\ d.shares = c.shares /\ d.watch = c.watch
    <2>1. {k} \ {k} = {}  OBVIOUS
    <2>2. /\ Steady(d, {}, {k} \ {k}, {Watcher})
          /\ SameEnds(c, d) /\ d.shares = c.shares /\ d.watch = c.watch
      BY <1>5, <1>8, SayCloses DEF m
    <2>3. b.watch.target # s => Steady(d, {}, {k} \ {k}, {})
      BY <1>5, <1>8, SayCloses DEF m
    <2>. QED  BY <2>1, <2>2, <2>3
  <1>. HIDE DEF d
  <1>11. SameEnds(b, d)  BY <1>9, <1>10, SameEndsChain
  <1>12. CASE b.watch.target # s
    BY <1>1, <1>4, <1>6, <1>7, <1>10, <1>11, <1>12
  <1>13. CASE b.watch.target = s
    <2>1. s # Nobody  BY ScreensAssumption
    <2>2. d.watch.wire # 0 /\ Nobody = d.watch.target /\ r = Say(d, d.watch.wire, Showing(Nobody))
      BY <1>4, <1>6, <1>10, <1>13, <2>1, PlaceIs
    <2>3. /\ Steady(r, {}, {}, {Watcher} \ {Watcher}) /\ SameEnds(d, r) /\ r.shares = d.shares
      BY <1>10, <2>2, SayShows
    <2>4. {Watcher} \ {Watcher} = {}  OBVIOUS
    <2>5. SameEnds(b, r)  BY <1>11, <2>3, SameEndsChain
    <2>. QED  BY <1>1, <1>4, <1>7, <1>10, <2>3, <2>4, <2>5
  <1>. QED  BY <1>12, <1>13

\* leave: what the session has on the board ends with its seat.
LEMMA EndedWithSteady ==
  ASSUME NEW b, NEW s \in Sharers \union {Watcher}, Steady(b, {}, {}, {})
  PROVE  /\ Steady(EndedWith(b, s), {}, {}, {}) /\ SameEnds(b, EndedWith(b, s))
         /\ s \in Sharers => EndedWith(b, s).shares[s].wire = 0
         /\ s = Watcher => EndedWith(b, s).watch.wire = 0
  <1>0. Watcher \notin Sharers  BY ScreensAssumption
  <1>1. CASE s \in Sharers
    <2>1. s # Watcher  BY <1>0, <1>1
    <2>2. CASE b.shares[s].wire = 0
      <3>1. EndedWith(b, s) = b  BY <2>1, <2>2 DEF EndedWith
      <3>. QED  BY <2>1, <2>2, <3>1, SameEndsItself
    <2>3. CASE b.shares[s].wire # 0
      BY <1>1, <2>1, <2>3, ShareEndedSteady
    <2>. QED  BY <2>2, <2>3
  <1>2. CASE s = Watcher /\ b.watch.wire = 0
    <2>1. EndedWith(b, s) = b  BY <1>2 DEF EndedWith
    <2>. QED  BY <1>0, <1>2, <2>1, SameEndsItself
  <1>3. CASE s = Watcher /\ b.watch.wire # 0
    <2>. DEFINE k == b.watch.wire
                t == b.watch.target
                c == [b EXCEPT !.watch = NoWatch]
                d == Say(c, k, Closing("ended"))
                e == SettleIf(d, t)
    <2>0. EndedWith(b, s) = e  BY <1>3 DEF EndedWith
    <2>1. k \in DOMAIN b.wires /\ b.wires[k].who = Watcher /\ b.wires[k].at \notin Early
      BY <1>3, PlaceIs
    <2>2. t \in Sharers \union {Nobody}  BY BoardIs DEF Steady
    <2>3. /\ Steady(c, {t}, {k}, {} \ {Watcher})
          /\ SameEnds(b, c) /\ c.shares = b.shares /\ c.wires = b.wires /\ c.watch = NoWatch
      BY <1>3, WatchGone
    <2>. HIDE DEF c
    <2>4. NoWatch.wire = 0  BY DEF NoWatch
    <2>. HIDE DEF t
    <2>5. k \in DOMAIN c.wires /\ c.wires[k].at \notin Early /\ ~OnIt(c, k)
      <3>1. k # 0  BY <1>3
      <3>. QED  BY <1>0, <2>1, <2>3, <2>4, <3>1 DEF OnIt
    <2>. HIDE DEF k
    <2>6. /\ Steady(d, {t}, {k} \ {k}, {} \ {Watcher}) /\ SameEnds(c, d) /\ d.watch = c.watch
      BY <2>3, <2>5, SayCloses
    <2>. HIDE DEF d
    <2>7. Steady(e, {t} \ {t}, {k} \ {k}, {} \ {Watcher}) /\ SameEnds(d, e) /\ SamePlaces(d, e)
      BY <2>2, <2>6, SettleIfSteady
    <2>8. {t} \ {t} = {} /\ {k} \ {k} = {} /\ {} \ {Watcher} = {}  OBVIOUS
    <2>. HIDE DEF e
    <2>9. SameEnds(b, e)
      <3>1. SameEnds(b, d)  BY <2>3, <2>6, SameEndsChain
      <3>. QED  BY <2>7, <3>1, SameEndsChain
    <2>10. e.watch.wire = 0  BY <2>3, <2>4, <2>6, <2>7 DEF SamePlaces
    <2>. QED  BY <1>0, <1>3, <2>0, <2>7, <2>8, <2>9, <2>10
  <1>. QED  BY <1>1, <1>2, <1>3

-----------------------------------------------------------------------------
(* One socket changes, and the places on the board do not *)

LEMMA SocketSteady ==
  ASSUME NEW b, NEW S, NEW X, NEW Q, NEW k, NEW c, NEW Y, NEW P,
         Steady(b, S, X, Q), k \in DOMAIN b.wires,
         c \in Boards, c.shares = b.shares, c.watch = b.watch, DOMAIN c.wires = DOMAIN b.wires,
         \A j \in DOMAIN b.wires : j # k => c.wires[j] = b.wires[j],
         WireOK(c.wires[k]),
         OnIt(b, k) => c.wires[k].who = b.wires[k].who /\ c.wires[k].at \in On /\ ~c.wires[k].over,
         \A j \in X : j # k => j \in Y,
         k \in Y \/ OnIt(b, k) \/ c.wires[k].at \notin On \/ c.wires[k].over,
         Q \subseteq P,
         OnIt(b, k) /\ Listens(c.wires[k]) =>
           /\ Listens(b.wires[k])
           /\ b.wires[k].who \notin P => c.wires[k].says = b.wires[k].says
           /\ Watcher \notin P /\ NoneOf(c.wires[k].up, "watch") => NoneOf(b.wires[k].up, "watch")
  PROVE  Steady(c, S, Y, P)
  <1>0. b \in Boards /\ k # 0  BY BoardIs DEF Steady
  <1>1. Placed(b)  BY DEF Steady
  <1>2. (\A s \in Sharers : b.shares[s].wire = k => OnIt(b, k) /\ b.wires[k].who = s)
        /\ (b.watch.wire = k => OnIt(b, k) /\ b.wires[k].who = Watcher)
    BY <1>0, <1>1 DEF Placed, OnIt
  <1>3. Placed(c)
    <2>1. ASSUME NEW s \in Sharers
          PROVE  /\ c.shares[s].wire # 0 =>
                    /\ c.shares[s].wire \in DOMAIN c.wires /\ c.wires[c.shares[s].wire].who = s
                    /\ c.wires[c.shares[s].wire].at \in On /\ ~c.wires[c.shares[s].wire].over
                 /\ c.shares[s].wire = 0 => c.shares[s] = NoShare
      <3>1. CASE b.shares[s].wire = k  BY <1>0, <1>2, <3>1
      <3>2. CASE b.shares[s].wire # k  BY <1>1, <3>2 DEF Placed
      <3>. QED  BY <3>1, <3>2
    <2>2. c.watch.wire # 0 =>
             /\ c.watch.wire \in DOMAIN c.wires /\ c.wires[c.watch.wire].who = Watcher
             /\ c.wires[c.watch.wire].at \in On /\ ~c.wires[c.watch.wire].over
      <3>1. CASE b.watch.wire = k  BY <1>0, <1>2, <3>1
      <3>2. CASE b.watch.wire # k  BY <1>1, <3>2 DEF Placed
      <3>. QED  BY <3>1, <3>2
    <2>3. /\ c.watch.wire = 0 => c.watch = NoWatch
          /\ c.watch.target # Nobody => c.shares[c.watch.target].wire # 0
      BY <1>1 DEF Placed
    <2>. QED  BY <2>1, <2>2, <2>3 DEF Placed
  <1>4. Listed(c, Y)
    <2>1. Listed(b, X)  BY DEF Steady
    <2>2. ASSUME NEW j \in DOMAIN c.wires \ Y, c.wires[j].at \in On, ~c.wires[j].over
          PROVE  OnIt(c, j)
      <3>1. CASE j = k
        <4>1. OnIt(b, k)  BY <2>2, <3>1
        <4>. QED  BY <3>1, <4>1 DEF OnIt
      <3>2. CASE j # k
        <4>1. j \notin X /\ c.wires[j] = b.wires[j]  BY <2>2, <3>2
        <4>2. OnIt(b, j)  BY <2>1, <2>2, <4>1 DEF Listed
        <4>. QED  BY <4>1, <4>2 DEF OnIt
      <3>. QED  BY <3>1, <3>2
    <2>. QED  BY <2>2 DEF Listed
  <1>5. Matched(c, S)  BY DEF Steady, Matched
  <1>6. \A j \in DOMAIN c.wires : WireOK(c.wires[j])  BY DEF Steady
  <1>7. ASSUME NEW s \in Sharers \ P
        PROVE  SharerTold(c, s)
    <2>1. SharerTold(b, s)  BY DEF Steady, AllTold
    <2>2. CASE b.shares[s].wire = k
      <3>1. OnIt(b, k) /\ b.wires[k].who \notin P  BY <1>2, <1>7, <2>2
      <3>2. Listens(c.wires[k]) => Listens(b.wires[k]) /\ c.wires[k].says = b.wires[k].says  BY <3>1
      <3>. QED  BY <2>1, <2>2, <3>2 DEF SharerTold
    <2>3. CASE b.shares[s].wire # k
      <3>1. b.shares[s].wire # 0 => c.wires[b.shares[s].wire] = b.wires[b.shares[s].wire]
        BY <1>1, <2>3 DEF Placed
      <3>. QED  BY <2>1, <3>1 DEF SharerTold
    <2>. QED  BY <2>2, <2>3
  <1>8. ASSUME Watcher \notin P
        PROVE  WatcherTold(c)
    <2>1. WatcherTold(b)  BY <1>8 DEF Steady, AllTold
    <2>2. CASE b.watch.wire = k
      <3>1. OnIt(b, k) /\ b.wires[k].who \notin P  BY <1>2, <1>8, <2>2
      <3>2. Listens(c.wires[k]) => Listens(b.wires[k]) /\ c.wires[k].says = b.wires[k].says  BY <3>1
      <3>3. Listens(c.wires[k]) /\ NoneOf(c.wires[k].up, "watch") => NoneOf(b.wires[k].up, "watch")
        BY <1>8, <3>1
      <3>. QED  BY <2>1, <2>2, <3>2, <3>3 DEF WatcherTold
    <2>3. CASE b.watch.wire # k
      <3>1. b.watch.wire # 0 => c.wires[b.watch.wire] = b.wires[b.watch.wire]
        BY <1>1, <2>3 DEF Placed
      <3>. QED  BY <2>1, <3>1 DEF WatcherTold
    <2>. QED  BY <2>2, <2>3
  <1>9. AllTold(c, P)  BY <1>7, <1>8 DEF AllTold
  <1>. QED  BY <1>3, <1>4, <1>5, <1>6, <1>9 DEF Steady

\* The board with another socket in a place of its list.
At(b, k, w) == [b EXCEPT !.wires = [b.wires EXCEPT ![k] = w]]

LEMMA AtIs ==
  ASSUME NEW b \in Boards, NEW k \in DOMAIN b.wires, NEW w \in Wire
  PROVE  /\ At(b, k, w) \in Boards /\ At(b, k, w).shares = b.shares /\ At(b, k, w).watch = b.watch
         /\ DOMAIN At(b, k, w).wires = DOMAIN b.wires /\ At(b, k, w).wires[k] = w
         /\ \A j \in DOMAIN b.wires : j # k => At(b, k, w).wires[j] = b.wires[j]
  <1>1. b.wires \in Seq(Wire) /\ b.shares \in [Sharers -> ShareSet] /\ b.watch \in WatchSet  BY BoardIs
  <1>2. /\ [b.wires EXCEPT ![k] = w] \in Seq(Wire)
        /\ DOMAIN [b.wires EXCEPT ![k] = w] = DOMAIN b.wires
        /\ [b.wires EXCEPT ![k] = w][k] = w
        /\ \A j \in DOMAIN b.wires : j # k => [b.wires EXCEPT ![k] = w][j] = b.wires[j]
    BY <1>1, ExceptSeq
  <1>3. /\ At(b, k, w) \in Boards /\ At(b, k, w).shares = b.shares /\ At(b, k, w).watch = b.watch
        /\ At(b, k, w).wires = [b.wires EXCEPT ![k] = w]
    BY <1>1, <1>2 DEF Boards, At
  <1>. QED  BY <1>2, <1>3

-----------------------------------------------------------------------------
(* Frames *)

(* No more than a key frame is asked of a sharer, whose place and format stay. *)
SameWords(b, c) ==
  /\ \A t \in Sharers : c.shares[t].wire = b.shares[t].wire /\ c.shares[t].wanted = b.shares[t].wanted
  /\ \A j \in DOMAIN b.wires :
       c.wires[j].says = b.wires[j].says \/ c.wires[j].says = Append(b.wires[j].says, Keyframe)

LEMMA AskKeyframeWords ==
  ASSUME NEW b, NEW S, NEW X, NEW Q, Steady(b, S, X, Q), NEW s \in Sharers
  PROVE  SameWords(b, AskKeyframe(b, s))
  <1>1. CASE b.shares[s].wire = 0 \/ b.shares[s].asked
    BY <1>1 DEF AskKeyframe, SameWords
  <1>2. CASE ~(b.shares[s].wire = 0 \/ b.shares[s].asked)
    <2>. DEFINE q == [b.shares[s] EXCEPT !.asked = TRUE]
                c == [b EXCEPT !.shares[s] = q]
                k == b.shares[s].wire
    <2>0. b \in Boards  BY DEF Steady
    <2>1. q \in ShareSet /\ q.wire = k /\ q.wanted = b.shares[s].wanted
      <3>1. b.shares[s] \in ShareSet  BY <2>0, BoardIs
      <3>. QED  BY <3>1 DEF ShareSet
    <2>2. AskKeyframe(b, s) = Say(c, k, Keyframe)  BY <1>2 DEF AskKeyframe
    <2>3. k \in DOMAIN b.wires  BY <1>2, PlaceIs
    <2>. HIDE DEF q
    <2>. HIDE DEF k
    <2>4. /\ c \in Boards /\ c.wires = b.wires /\ c.watch = b.watch
          /\ c.shares[s] = q /\ \A t \in Sharers : t # s => c.shares[t] = b.shares[t]
      BY <2>0, <2>1 DEF Boards
    <2>. HIDE DEF c
    <2>5. k \in DOMAIN c.wires /\ Keyframe \in Told  BY <2>3, <2>4, ToldIs
    <2>6. /\ Say(c, k, Keyframe).shares = c.shares
          /\ \A j \in DOMAIN c.wires : j # k => Say(c, k, Keyframe).wires[j] = c.wires[j]
          /\ Listens(c.wires[k]) => Say(c, k, Keyframe).wires[k].says = Append(c.wires[k].says, Keyframe)
          /\ ~Listens(c.wires[k]) => Say(c, k, Keyframe).wires[k].says = c.wires[k].says
      BY <2>4, <2>5, SayDoes
    <2>. DEFINE d == Say(c, k, Keyframe)
    <2>7. AskKeyframe(b, s) = d  BY <2>2
    <2>. HIDE DEF d
    <2>8. \A t \in Sharers : d.shares[t].wire = b.shares[t].wire /\ d.shares[t].wanted = b.shares[t].wanted
      BY <2>1, <2>4, <2>6 DEF d, k
    <2>9. \A j \in DOMAIN b.wires :
             d.wires[j].says = b.wires[j].says \/ d.wires[j].says = Append(b.wires[j].says, Keyframe)
      BY <2>4, <2>6 DEF d
    <2>. QED  BY <2>7, <2>8, <2>9 DEF SameWords
  <1>. QED  BY <1>1, <1>2

LEMMA SameWordsItself ==
  ASSUME NEW b
  PROVE  SameWords(b, b)
  BY DEF SameWords

(* What the board knows of the watcher's place in the pictures. *)
Gated(b, on) == [b EXCEPT !.watch.gated = on]

LEMMA GatedSteady ==
  ASSUME NEW b, NEW S, NEW X, NEW Q, Steady(b, S, X, Q), b.watch.wire # 0, NEW on \in BOOLEAN
  PROVE  /\ Steady(Gated(b, on), S, X, Q) /\ SameEnds(b, Gated(b, on)) /\ SameWords(b, Gated(b, on))
         /\ Gated(b, on).wires = b.wires /\ Gated(b, on).shares = b.shares
         /\ Gated(b, on).watch.wire = b.watch.wire
  <1>. DEFINE c == Gated(b, on)
  <1>1. b \in Boards /\ b.watch \in WatchSet  BY BoardIs DEF Steady
  <1>2. /\ c \in Boards /\ c.wires = b.wires /\ c.shares = b.shares
        /\ c.watch.wire = b.watch.wire /\ c.watch.target = b.watch.target
    BY <1>1 DEF Boards, WatchSet, Gated
  <1>3. c.watch.codec <=> b.watch.codec  BY <1>1 DEF Boards, WatchSet, Gated
  <1>. HIDE DEF c
  <1>4. Steady(c, S, X, Q)  BY <1>2, <1>3, WatchGated
  <1>5. SameEnds(b, c) /\ SameWords(b, c)  BY <1>2 DEF SameEnds, SameEnd, SameWords
  <1>. QED  BY <1>2, <1>4, <1>5 DEF c

(* A frame is on its way to the watcher. *)
WithFrame(w, f) ==
  [w EXCEPT !.frames = IF w.page = "gone" \/ w.cut THEN @ ELSE Append(@, f)]

LEMMA WithFrameIs ==
  ASSUME NEW w \in Wire, WireOK(w), Len(w.frames) < WatchQueue,
         NEW f \in [from : Sharers, key : BOOLEAN]
  PROVE  /\ WithFrame(w, f) \in Wire /\ WireOK(WithFrame(w, f)) /\ SameEnd(w, WithFrame(w, f))
         /\ WithFrame(w, f).says = w.says /\ (WithFrame(w, f).over <=> w.over)
  <1>. DEFINE fs == IF w.page = "gone" \/ w.cut THEN w.frames ELSE Append(w.frames, f)
              v == [w EXCEPT !.frames = fs]
  <1>0. WatchQueue \in Nat  BY ScreensAssumption
  <1>1. w.frames \in Seq([from : Sharers, key : BOOLEAN])  BY WireIs
  <1>2. fs \in Seq([from : Sharers, key : BOOLEAN]) /\ Len(fs) <= WatchQueue
    <2>1. Append(w.frames, f) \in Seq([from : Sharers, key : BOOLEAN])
          /\ Len(Append(w.frames, f)) = Len(w.frames) + 1
      BY <1>1, AppendProperties
    <2>2. Len(w.frames) \in Nat  BY <1>1, LenProperties
    <2>3. fs = w.frames \/ fs = Append(w.frames, f)  OBVIOUS
    <2>. HIDE DEF fs
    <2>4. CASE fs = w.frames  BY <1>0, <1>1, <2>2, <2>4
    <2>5. CASE fs = Append(w.frames, f)
      <3>1. Len(w.frames) + 1 <= WatchQueue  BY <1>0, <2>2
      <3>. QED  BY <2>1, <2>5, <3>1
    <2>. QED  BY <2>3, <2>4, <2>5
  <1>3. WithFrame(w, f) = v  BY DEF WithFrame
  <1>. HIDE DEF fs
  <1>4. v \in Wire  BY <1>2 DEF Wire
  <1>5. SameEnd(w, v) /\ v.says = w.says /\ v.over = w.over /\ v.frames = fs
    BY DEF Wire, SameEnd
  <1>. HIDE DEF v
  <1>6. WireOK(v)
    <2>1. v.who = w.who /\ v.aim = w.aim /\ v.page = w.page /\ v.at = w.at /\ v.cut = w.cut
      BY <1>5 DEF SameEnd
    <2>. QED  BY <1>2, <1>5, <2>1 DEF WireOK, Listens
  <1>. QED  BY <1>3, <1>4, <1>5, <1>6

LEMMA FrameGoes ==
  ASSUME NEW b, NEW S, NEW X, NEW Q, Steady(b, S, X, Q), b.watch.wire # 0,
         ~Full(b), NEW f \in [from : Sharers, key : BOOLEAN],
         NEW k, k = b.watch.wire
  PROVE  /\ Steady(At(b, k, WithFrame(b.wires[k], f)), S, X, Q)
         /\ SameEnds(b, At(b, k, WithFrame(b.wires[k], f)))
         /\ SameWords(b, At(b, k, WithFrame(b.wires[k], f)))
  <1>. DEFINE v == WithFrame(b.wires[k], f)
              c == At(b, k, v)
  <1>1. b \in Boards /\ k \in DOMAIN b.wires  BY PlaceIs DEF Steady
  <1>2. b.wires[k] \in Wire /\ WireOK(b.wires[k])  BY <1>1, BoardIs DEF Steady
  <1>3. Len(b.wires[k].frames) < WatchQueue
    <2>1. Len(b.wires[k].frames) \in Nat  BY <1>2, WireIs, LenProperties
    <2>2. ~(Len(b.wires[k].frames) >= WatchQueue)  BY DEF Full
    <2>. QED  BY <2>1, <2>2, ScreensAssumption
  <1>4. /\ v \in Wire /\ WireOK(v) /\ SameEnd(b.wires[k], v) /\ v.says = b.wires[k].says /\ (v.over <=> b.wires[k].over)
    BY <1>2, <1>3, WithFrameIs
  <1>. HIDE DEF v
  <1>5. /\ c \in Boards /\ c.shares = b.shares /\ c.watch = b.watch
        /\ DOMAIN c.wires = DOMAIN b.wires /\ c.wires[k] = v
        /\ \A j \in DOMAIN b.wires : j # k => c.wires[j] = b.wires[j]
    BY <1>1, <1>4, AtIs
  <1>. HIDE DEF c
  <1>6. v.who = b.wires[k].who /\ v.at = b.wires[k].at /\ v.up = b.wires[k].up /\ (Listens(v) <=> Listens(b.wires[k]))
    BY <1>4 DEF SameEnd, Listens
  <1>7. OnIt(b, k) => b.wires[k].at \in On /\ ~b.wires[k].over
    BY <1>1, BoardIs DEF Steady, Placed, OnIt
  <1>8. k \in X \/ OnIt(b, k) \/ b.wires[k].at \notin On \/ b.wires[k].over
    BY <1>1 DEF Steady, Listed
  <1>9. Steady(c, S, X, Q)
    <2>0. Steady(b, S, X, Q)  OBVIOUS
    <2>1. WireOK(c.wires[k])  BY <1>4, <1>5
    <2>2. OnIt(b, k) => c.wires[k].who = b.wires[k].who /\ c.wires[k].at \in On /\ ~c.wires[k].over
      BY <1>4, <1>5, <1>6, <1>7
    <2>3. (\A j \in X : j # k => j \in X) /\ Q \subseteq Q  OBVIOUS
    <2>4. k \in X \/ OnIt(b, k) \/ c.wires[k].at \notin On \/ c.wires[k].over
      BY <1>4, <1>5, <1>6, <1>8
    <2>5. OnIt(b, k) /\ Listens(c.wires[k]) =>
           /\ Listens(b.wires[k])
           /\ b.wires[k].who \notin Q => c.wires[k].says = b.wires[k].says
           /\ Watcher \notin Q /\ NoneOf(c.wires[k].up, "watch") => NoneOf(b.wires[k].up, "watch")
      BY <1>4, <1>5, <1>6
    <2>. QED  BY ONLY <1>1, <1>5, <2>0, <2>1, <2>2, <2>3, <2>4, <2>5, SocketSteady
  <1>10. SameEnds(b, c)  BY <1>4, <1>5 DEF SameEnds, SameEnd
  <1>11. SameWords(b, c)  BY <1>4, <1>5 DEF SameWords
  <1>. QED  BY <1>9, <1>10, <1>11 DEF c, v

LEMMA SameWordsChain ==
  ASSUME NEW b, NEW c, NEW d, SameWords(b, c), SameEnds(b, c), c.wires = b.wires, SameWords(c, d)
  PROVE  SameWords(b, d)
  BY DEF SameWords

\* frame_at leaves the board steady.
LEMMA FrameAtSteady ==
  ASSUME NEW b, NEW S, NEW X, NEW Q, Steady(b, S, X, Q), NEW k \in DOMAIN b.wires,
         b.wires[k].who \in Sharers, NEW key \in BOOLEAN, NEW over \in BOOLEAN
  PROVE  /\ Steady(FrameAt(b, k, key, over), S, X, Q)
         /\ SameEnds(b, FrameAt(b, k, key, over)) /\ SameWords(b, FrameAt(b, k, key, over))
  <1>. DEFINE s == b.wires[k].who
              w == b.watch.wire
              goes == b.shares[s].wire = k /\ b.shares[s].wanted /\ b.watch.target = s /\ b.watch.codec
              waits == b.watch.gated /\ ~key
              f == [from |-> s, key |-> key]
              d == FrameAt(b, k, key, over)
  <1>0. b \in Boards  BY DEF Steady
  <1>1. CASE ~goes
    <2>1. d = b  BY <1>1 DEF FrameAt
    <2>. QED  BY <2>1, SameEndsItself, SameWordsItself
  <1>2. ASSUME goes
        PROVE  w # 0 /\ s # Nobody
    BY <1>2, PlaceIs, ScreensAssumption
  <1>3. CASE goes /\ (over \/ (~waits /\ Full(b)))
    <2>1. d = Gated(b, TRUE)  BY <1>3 DEF FrameAt, Gated
    <2>. QED  BY <1>2, <1>3, <2>1, GatedSteady
  <1>4. CASE goes /\ ~over /\ waits
    <2>1. d = AskedFor(b, s)  BY <1>4 DEF FrameAt
    <2>2. CASE Full(b)
      <3>1. d = b  BY <2>1, <2>2 DEF AskedFor
      <3>. QED  BY <3>1, SameEndsItself, SameWordsItself
    <2>3. CASE ~Full(b)
      <3>1. d = AskKeyframe(b, s)  BY <2>1, <2>3 DEF AskedFor
      <3>. QED  BY <3>1, AskKeyframeSteady, AskKeyframeWords
    <2>. QED  BY <2>2, <2>3
  <1>5. CASE goes /\ ~over /\ ~waits /\ ~Full(b)
    <2>. DEFINE g == Gated(b, FALSE)
                v == WithFrame(b.wires[w], f)
    <2>1. /\ Steady(g, S, X, Q) /\ SameEnds(b, g) /\ SameWords(b, g)
          /\ g.wires = b.wires /\ g.shares = b.shares /\ g.watch.wire = w
      BY <1>2, <1>5, GatedSteady
    <2>2. d = At(g, w, v)
      <3>1. d = [b EXCEPT !.watch.gated = FALSE,
                          !.wires[w].frames = IF b.wires[w].page = "gone" \/ b.wires[w].cut THEN @ ELSE Append(@, f)]
        BY <1>5 DEF FrameAt
      <3>2. [b EXCEPT !.watch.gated = FALSE,
                      !.wires[w].frames = IF b.wires[w].page = "gone" \/ b.wires[w].cut THEN @ ELSE Append(@, f)]
            = At(Gated(b, FALSE), w, WithFrame(b.wires[w], f))
        BY <1>0 DEF At, Gated, WithFrame, Boards
      <3>. QED  BY <3>1, <3>2
    <2>. HIDE DEF g
    <2>3. ~Full(g) /\ g.watch.wire # 0 /\ w = g.watch.wire  BY <1>2, <1>5, <2>1 DEF Full
    <2>4. f \in [from : Sharers, key : BOOLEAN]  OBVIOUS
    <2>5. v = WithFrame(g.wires[w], f)  BY <2>1
    <2>. HIDE DEF f
    <2>. HIDE DEF v
    <2>6. Steady(At(g, w, v), S, X, Q) /\ SameEnds(g, At(g, w, v)) /\ SameWords(g, At(g, w, v))
      BY <2>1, <2>3, <2>4, <2>5, FrameGoes
    <2>7. SameEnds(b, At(g, w, v)) /\ SameWords(b, At(g, w, v))
      BY <2>1, <2>6, SameEndsChain, SameWordsChain
    <2>. QED  BY <2>2, <2>6, <2>7
  <1>. QED  BY <1>1, <1>3, <1>4, <1>5

LEMMA AtSteady ==
  ASSUME NEW b, NEW S, NEW X, NEW Q, NEW k, NEW v, NEW Y, NEW P,
         Steady(b, S, X, Q), k \in DOMAIN b.wires, v \in Wire, WireOK(v),
         OnIt(b, k) => v.who = b.wires[k].who /\ v.at \in On /\ ~v.over,
         \A j \in X : j # k => j \in Y,
         k \in Y \/ OnIt(b, k) \/ v.at \notin On \/ v.over,
         Q \subseteq P,
         OnIt(b, k) /\ Listens(v) =>
           /\ Listens(b.wires[k])
           /\ b.wires[k].who \notin P => v.says = b.wires[k].says
           /\ Watcher \notin P /\ NoneOf(v.up, "watch") => NoneOf(b.wires[k].up, "watch")
  PROVE  Steady(At(b, k, v), S, Y, P)
  <1>. DEFINE c == At(b, k, v)
  <1>1. b \in Boards  BY DEF Steady
  <1>2. /\ c \in Boards /\ c.shares = b.shares /\ c.watch = b.watch
        /\ DOMAIN c.wires = DOMAIN b.wires /\ c.wires[k] = v
        /\ \A j \in DOMAIN b.wires : j # k => c.wires[j] = b.wires[j]
    BY <1>1, AtIs
  <1>. HIDE DEF c
  <1>3. WireOK(c.wires[k])  BY <1>2
  <1>5. OnIt(b, k) => c.wires[k].who = b.wires[k].who /\ c.wires[k].at \in On /\ ~c.wires[k].over
    BY <1>2
  <1>6. k \in Y \/ OnIt(b, k) \/ c.wires[k].at \notin On \/ c.wires[k].over  BY <1>2
  <1>7. OnIt(b, k) /\ Listens(c.wires[k]) =>
             /\ Listens(b.wires[k])
             /\ b.wires[k].who \notin P => c.wires[k].says = b.wires[k].says
             /\ Watcher \notin P /\ NoneOf(c.wires[k].up, "watch") => NoneOf(b.wires[k].up, "watch")
    BY <1>2
  <1>8. Steady(b, S, X, Q)  OBVIOUS
  <1>9. k \in DOMAIN b.wires  OBVIOUS
  <1>10. \A j \in X : j # k => j \in Y  OBVIOUS
  <1>11. Q \subseteq P  OBVIOUS
  <1>4. Steady(c, S, Y, P)  BY ONLY <1>2, <1>3, <1>5, <1>6, <1>7, <1>8, <1>9, <1>10, <1>11, SocketSteady
  <1>. QED  BY <1>4 DEF c

\* The server gets further with a socket, or takes what came on it.
LEMMA MovesSteady ==
  ASSUME NEW b, NEW S, NEW X, NEW Q, NEW k, NEW v, NEW Y, NEW P,
         Steady(b, S, X, Q), k \in DOMAIN b.wires, v \in Wire, v.who = b.wires[k].who, v.aim = b.wires[k].aim, v.page = b.wires[k].page,
         v.cut = b.wires[k].cut, v.says = b.wires[k].says, v.over <=> b.wires[k].over,
         v.frames = b.wires[k].frames,
         v.at = "dialled" <=> b.wires[k].at = "dialled", b.wires[k].at = "gone" => v.at = "gone",
         v.at \in Early => b.wires[k].at \in Early,
         v.at = "on" /\ ~v.over => v.who \in seated,
         OnIt(b, k) => v.at \in On,
         \A j \in X : j # k => j \in Y,
         k \in Y \/ OnIt(b, k) \/ v.at \notin On \/ v.over,
         Q \subseteq P,
         OnIt(b, k) /\ Watcher \notin P /\ NoneOf(v.up, "watch") => NoneOf(b.wires[k].up, "watch")
  PROVE  Steady(At(b, k, v), S, Y, P)
  <1>. DEFINE w == b.wires[k]
  <1>1. b \in Boards /\ WireOK(w)  BY DEF Steady
  <1>2. WireOK(v)  BY <1>1 DEF WireOK, Listens
  <1>3. OnIt(b, k) => ~v.over
    BY <1>1, BoardIs DEF Steady, Placed, OnIt
  <1>4. Listens(v) => Listens(w)  BY DEF Listens
  <1>. HIDE DEF w
  <1>5. /\ OnIt(b, k) => v.who = b.wires[k].who /\ v.at \in On /\ ~v.over
        /\ OnIt(b, k) /\ Listens(v) =>
             /\ Listens(b.wires[k])
             /\ b.wires[k].who \notin P => v.says = b.wires[k].says
             /\ Watcher \notin P /\ NoneOf(v.up, "watch") => NoneOf(b.wires[k].up, "watch")
    BY <1>3, <1>4 DEF w
  <1>6. /\ Steady(b, S, X, Q) /\ k \in DOMAIN b.wires /\ v \in Wire /\ Q \subseteq P
        /\ \A j \in X : j # k => j \in Y
        /\ k \in Y \/ OnIt(b, k) \/ v.at \notin On \/ v.over
    OBVIOUS
  <1>. QED  BY ONLY <1>2, <1>5, <1>6, AtSteady

(* A socket as the server, the window or the line leaves it. *)
MovedTo(w, at) == [w EXCEPT !.at = at]
WithoutAsk(w) == [w EXCEPT !.up = Tail(@)]
Refusal(w, why) ==
  [w EXCEPT !.says = IF w.page = "gone" \/ w.cut THEN <<>> ELSE Append(<<>>, Closing(why)),
            !.over = TRUE, !.at = "ending"]
Ended(w) == Buried([w EXCEPT !.at = "gone"])
CutOff(w) == [w EXCEPT !.cut = TRUE, !.says = <<>>, !.frames = <<>>, !.up = <<>>]
Opened(w) == [w EXCEPT !.page = "open", !.at = "hello"]
Heard(w) == [w EXCEPT !.says = Tail(@)]
FrameTaken(w) == [w EXCEPT !.frames = Tail(@)]
Asking(w, m) == [w EXCEPT !.up = Append(@, m)]

LEMMA DeadIs ==
  /\ Dead \in Wire /\ WireOK(Dead) /\ ~Listens(Dead) /\ Dead.at = "gone" /\ Dead.page = "gone"
  /\ Dead.who = Nobody /\ Dead.at \notin On
  <1>1. <<>> \in Seq(Told) /\ <<>> \in Seq(Asked) /\ <<>> \in Seq([from : Sharers, key : BOOLEAN])
        /\ Len(<<>>) = 0
    OBVIOUS
  <1>. DEFINE d == Dialled(Nobody, Nobody)
  <1>5. d = [who |-> Nobody, aim |-> Nobody, page |-> "opening", at |-> "dialled", over |-> FALSE, cut |-> FALSE,
             says |-> <<>>, frames |-> <<>>, up |-> <<>>]
    BY DEF Dialled
  <1>. HIDE DEF d
  <1>6. Dead = [d EXCEPT !.page = "gone", !.at = "gone"]  BY DEF Dead, d
  <1>2. Dead = [who |-> Nobody, aim |-> Nobody, page |-> "gone", at |-> "gone", over |-> FALSE, cut |-> FALSE,
                says |-> <<>>, frames |-> <<>>, up |-> <<>>]
    BY <1>5, <1>6
  <1>3. Dead \in Wire  BY <1>1, <1>2 DEF Wire
  <1>4. WireOK(Dead)
    BY <1>1, <1>2, ScreensAssumption DEF WireOK, Early, Listens
  <1>. QED  BY <1>2, <1>3, <1>4 DEF Listens, On

LEMMA MovedIs ==
  ASSUME NEW w \in Wire, NEW at \in {"signed", "listed", "on"}
  PROVE  /\ MovedTo(w, at) \in Wire /\ MovedTo(w, at).at = at
         /\ MovedTo(w, at).who = w.who /\ MovedTo(w, at).aim = w.aim /\ MovedTo(w, at).page = w.page
         /\ MovedTo(w, at).cut = w.cut /\ MovedTo(w, at).says = w.says /\ MovedTo(w, at).up = w.up
         /\ MovedTo(w, at).frames = w.frames /\ (MovedTo(w, at).over <=> w.over)
  BY DEF MovedTo, Wire

LEMMA WithoutAskIs ==
  ASSUME NEW w \in Wire, w.up # <<>>
  PROVE  /\ WithoutAsk(w) \in Wire /\ WithoutAsk(w).up = Tail(w.up)
         /\ WithoutAsk(w).who = w.who /\ WithoutAsk(w).aim = w.aim /\ WithoutAsk(w).page = w.page
         /\ WithoutAsk(w).cut = w.cut /\ WithoutAsk(w).says = w.says /\ WithoutAsk(w).at = w.at
         /\ WithoutAsk(w).frames = w.frames /\ (WithoutAsk(w).over <=> w.over)
  <1>1. Tail(w.up) \in Seq(Asked)  BY WireIs, HeadTailProperties
  <1>. QED  BY <1>1 DEF WithoutAsk, Wire

LEMMA RefusalIs ==
  ASSUME NEW w \in Wire, WireOK(w), w.at \notin {"gone", "dialled"},
         NEW why \in {"replaced", "ended", "not-in-voice", "busy", "nothing-to-watch"}
  PROVE  /\ Refusal(w, why) \in Wire /\ WireOK(Refusal(w, why)) /\ Refusal(w, why).at = "ending"
         /\ Refusal(w, why).over /\ Refusal(w, why).page = w.page /\ Refusal(w, why).who = w.who
         /\ Refusal(w, why).cut = w.cut
  <1>. DEFINE q == IF w.page = "gone" \/ w.cut THEN <<>> ELSE Append(<<>>, Closing(why))
              v == [w EXCEPT !.says = q, !.over = TRUE, !.at = "ending"]
  <1>1. Closing(why) \in Told /\ Closing(why).op = "close"  BY ToldIs
  <1>2. <<>> \in Seq(Told)  OBVIOUS
  <1>3. /\ Append(<<>>, Closing(why)) \in Seq(Told)
        /\ ~NoneOf(Append(<<>>, Closing(why)), "close")
        /\ \A op : op # "close" => NoneOf(Append(<<>>, Closing(why)), op)
    BY <1>1, <1>2, AppendProperties, Appended, NoneIsOnEmpty
  <1>4. /\ q \in Seq(Told) /\ NoneOf(q, "want") /\ NoneOf(q, "keyframe")
        /\ ~(w.page = "gone" \/ w.cut) => ~NoneOf(q, "close")
    BY <1>2, <1>3, NoneIsOnEmpty
  <1>5. Refusal(w, why) = v  BY DEF Refusal
  <1>. HIDE DEF q
  <1>6. v \in Wire  BY <1>4 DEF Wire
  <1>7. /\ v.says = q /\ v.over /\ v.at = "ending" /\ v.who = w.who /\ v.aim = w.aim /\ v.page = w.page
        /\ v.cut = w.cut /\ v.frames = w.frames
    BY DEF Wire
  <1>. HIDE DEF v
  <1>8. WireOK(v)
    BY <1>4, <1>7 DEF WireOK, Listens, Early
  <1>. QED  BY <1>5, <1>6, <1>7, <1>8

\* Closed before its loop: it has no place.
LEMMA RefusedSteady ==
  ASSUME NEW b, NEW k, Steady(b, {}, {k}, {}), k \in DOMAIN b.wires, ~OnIt(b, k),
         b.wires[k].at \notin {"gone", "dialled"},
         NEW why \in {"replaced", "ended", "not-in-voice", "busy", "nothing-to-watch"}
  PROVE  /\ Steady(Refused(b, k, why), {}, {}, {})
         /\ Refused(b, k, why) = At(b, k, Refusal(b.wires[k], why))
  <1>. DEFINE w == b.wires[k]
              v == Refusal(w, why)
  <1>1. b \in Boards /\ w \in Wire /\ WireOK(w)  BY BoardIs DEF Steady
  <1>2. Refused(b, k, why) = At(b, k, v)
    <2>1. Closing(why).op = "close"  BY ToldIs
    <2>2. b.wires \in Seq(Wire) /\ b.shares \in [Sharers -> ShareSet] /\ b.watch \in WatchSet  BY <1>1, BoardIs
    <2>. DEFINE c == [b EXCEPT !.wires[k].says = <<>>]
                u == [w EXCEPT !.says = <<>>]
                m == Closing(why)
                q == IF w.page = "gone" \/ w.cut THEN <<>> ELSE Append(<<>>, m)
                x == [u EXCEPT !.says = q, !.over = TRUE]
                y == [x EXCEPT !.at = "ending"]
                d == At(c, k, x)
    <2>3. c = At(b, k, u)  BY <1>1, <2>2 DEF At, Boards
    <2>4. u \in Wire /\ u.page = w.page /\ u.cut = w.cut /\ u.says = <<>>
      <3>1. w \in Wire /\ <<>> \in Seq(Told)  BY <1>1
      <3>. QED  BY ONLY <3>1 DEF Wire
    <2>5. c \in Boards /\ c.wires[k] = u /\ k \in DOMAIN c.wires  BY <1>1, <2>3, <2>4, AtIs
    <2>6. q \in Seq(Told)  BY ToldIs, AppendProperties
    <2>9. y = [w EXCEPT !.says = q, !.over = TRUE, !.at = "ending"]
      <3>. HIDE DEF q
      <3>. QED  BY <1>1 DEF Wire
    <2>10. Refusal(w, why) = [w EXCEPT !.says = q, !.over = TRUE, !.at = "ending"]  BY DEF Refusal
    <2>. HIDE DEF c
    <2>. HIDE DEF u
    <2>11. Say(c, k, m) = d
      <3>. HIDE DEF m
      <3>1. m.op = "close"  BY <2>1 DEF m
      <3>2. Say(c, k, m) = [c EXCEPT !.wires[k].says = q, !.wires[k].over = TRUE]
        BY <2>4, <2>5, <3>1 DEF Say
      <3>. HIDE DEF q
      <3>3. [c EXCEPT !.wires[k].says = q, !.wires[k].over = TRUE] = d
        BY <2>5, BoardIs DEF At, Boards
      <3>. QED  BY <3>2, <3>3
    <2>. HIDE DEF q
    <2>12. x \in Wire  BY <2>4, <2>6 DEF Wire
    <2>. HIDE DEF x
    <2>13. d \in Boards /\ d.wires[k] = x /\ k \in DOMAIN d.wires  BY <2>5, <2>12, AtIs
    <2>. HIDE DEF d
    <2>14. Refused(b, k, why) = [d EXCEPT !.wires[k].at = "ending"]  BY <2>11 DEF Refused, c, m
    <2>15. [d EXCEPT !.wires[k].at = "ending"] = At(d, k, y)
      BY <2>13, BoardIs DEF At, Boards
    <2>16. At(d, k, y) = At(c, k, y)  BY <2>5, BoardIs DEF d, At, Boards
    <2>17. At(c, k, y) = At(b, k, y)  BY <1>1, <2>3, BoardIs DEF At, Boards
    <2>. QED  BY <2>9, <2>10, <2>14, <2>15, <2>16, <2>17
  <1>3. v \in Wire /\ WireOK(v) /\ v.at = "ending"  BY <1>1, RefusalIs
  <1>. HIDE DEF v
  <1>4. /\ OnIt(b, k) => v.who = b.wires[k].who /\ v.at \in On /\ ~v.over
        /\ \A j \in {k} : j # k => j \in {}
        /\ k \in {} \/ OnIt(b, k) \/ v.at \notin On \/ v.over
        /\ {} \subseteq {}
        /\ OnIt(b, k) /\ Listens(v) =>
             /\ Listens(b.wires[k])
             /\ b.wires[k].who \notin {} => v.says = b.wires[k].says
             /\ Watcher \notin {} /\ NoneOf(v.up, "watch") => NoneOf(b.wires[k].up, "watch")
    BY <1>3 DEF On
  <1>5. Steady(b, {}, {k}, {}) /\ k \in DOMAIN b.wires  OBVIOUS
  <1>6. Steady(At(b, k, v), {}, {}, {})  BY ONLY <1>3, <1>4, <1>5, AtSteady
  <1>. QED  BY <1>2, <1>6 DEF v

LEMMA EndedIs ==
  ASSUME NEW w \in Wire, WireOK(w), w.at # "dialled"
  PROVE  /\ Ended(w) \in Wire /\ WireOK(Ended(w)) /\ Ended(w).at = "gone" /\ Ended(w).page = w.page
         /\ w.page # "gone" => Ended(w).who = w.who
  <1>. DEFINE v == [w EXCEPT !.at = "gone"]
  <1>1. v \in Wire  BY DEF Wire
  <1>2. /\ v.at = "gone" /\ v.who = w.who /\ v.page = w.page /\ v.says = w.says /\ v.over = w.over
        /\ v.cut = w.cut /\ v.frames = w.frames
    BY DEF Wire
  <1>3. Ended(w) = Buried(v)  BY DEF Ended
  <1>. HIDE DEF v
  <1>4. WireOK(v)  BY <1>2 DEF WireOK, Listens, Early
  <1>5. CASE w.page = "gone"
    <2>1. Ended(w) = Dead  BY <1>2, <1>3, <1>5 DEF Buried
    <2>. QED  BY <1>5, <2>1, DeadIs
  <1>6. CASE w.page # "gone"
    <2>1. Ended(w) = v  BY <1>2, <1>3, <1>6 DEF Buried
    <2>. QED  BY <1>1, <1>2, <1>4, <2>1
  <1>. QED  BY <1>5, <1>6

\* The socket's loop ends, once the socket has no place.
LEMMA EndedSteady ==
  ASSUME NEW b, NEW k, Steady(b, {}, {k}, {}), k \in DOMAIN b.wires, ~OnIt(b, k),
         b.wires[k].at # "dialled"
  PROVE  Steady(At(b, k, Ended(b.wires[k])), {}, {}, {})
  <1>. DEFINE w == b.wires[k]
              v == Ended(w)
  <1>1. b \in Boards /\ w \in Wire /\ WireOK(w)  BY BoardIs DEF Steady
  <1>3. v \in Wire /\ WireOK(v) /\ v.at = "gone"  BY <1>1, EndedIs
  <1>. HIDE DEF v
  <1>4. OnIt(b, k) => v.who = b.wires[k].who /\ v.at \in On /\ ~v.over  OBVIOUS
  <1>5. \A j \in {k} : j # k => j \in {}  OBVIOUS
  <1>6. k \in {} \/ OnIt(b, k) \/ v.at \notin On \/ v.over  BY <1>3 DEF On
  <1>7. {} \subseteq {}  OBVIOUS
  <1>8. OnIt(b, k) /\ Listens(v) =>
             /\ Listens(b.wires[k])
             /\ b.wires[k].who \notin {} => v.says = b.wires[k].says
             /\ Watcher \notin {} /\ NoneOf(v.up, "watch") => NoneOf(b.wires[k].up, "watch")
    OBVIOUS
  <1>9. Steady(b, {}, {k}, {})  OBVIOUS
  <1>10. k \in DOMAIN b.wires  OBVIOUS
  <1>11. Steady(At(b, k, v), {}, {}, {})
    BY ONLY <1>3, <1>4, <1>5, <1>6, <1>7, <1>8, <1>9, <1>10, AtSteady
  <1>. QED  BY <1>11 DEF v

LEMMA LetGoOfIs ==
  ASSUME NEW w \in Wire, WireOK(w)
  PROVE  /\ LetGoOf(w) \in Wire /\ WireOK(LetGoOf(w)) /\ LetGoOf(w).page = "gone"
         /\ w.at \in On => LetGoOf(w).at = w.at /\ LetGoOf(w).who = w.who /\ (LetGoOf(w).over <=> w.over)
         /\ w.at \notin On => LetGoOf(w).at \notin On
  <1>. DEFINE at == IF w.at = "dialled" THEN "gone" ELSE w.at
              v == [w EXCEPT !.page = "gone", !.says = <<>>, !.frames = <<>>, !.at = at]
  <1>1. /\ at \in {"dialled", "hello", "signed", "listed", "on", "ending", "gone"} /\ at # "dialled"
        /\ w.at \in On => at = w.at
        /\ w.at \notin On => at \notin On
        /\ at \in Early => w.at \in Early
        /\ at = "on" => w.at = "on"
        /\ at # "gone" => w.at # "gone"
    BY WireIs DEF On, Early
  <1>0. <<>> \in Seq(Told) /\ <<>> \in Seq([from : Sharers, key : BOOLEAN]) /\ Len(<<>>) = 0  OBVIOUS
  <1>2. LetGoOf(w) = Buried(v)  BY DEF LetGoOf
  <1>. HIDE DEF at
  <1>3. v \in Wire  BY <1>0, <1>1 DEF Wire
  <1>4. /\ v.at = at /\ v.who = w.who /\ v.aim = w.aim /\ v.page = "gone" /\ v.says = <<>> /\ v.over = w.over
        /\ v.cut = w.cut /\ v.frames = <<>>
    BY DEF Wire
  <1>. HIDE DEF v
  <1>5. WireOK(v)
    <2>1. \A op : NoneOf(v.says, op)  BY <1>4, NoneIsOnEmpty
    <2>2. Len(v.frames) <= WatchQueue  BY <1>0, <1>4, ScreensAssumption
    <2>. QED  BY <1>1, <1>4, <2>1, <2>2 DEF WireOK, Listens
  <1>6. CASE at = "gone"
    <2>1. LetGoOf(w) = Dead  BY <1>2, <1>4, <1>6 DEF Buried
    <2>2. w.at \notin On  BY <1>1, <1>6 DEF On
    <2>. QED  BY <2>1, <2>2, DeadIs
  <1>7. CASE at # "gone"
    <2>1. LetGoOf(w) = v  BY <1>2, <1>4, <1>7 DEF Buried
    <2>. QED  BY <1>1, <1>3, <1>4, <1>5, <2>1
  <1>. QED  BY <1>6, <1>7

\* A window lets its socket go.
LEMMA LetGoSteady ==
  ASSUME NEW b, NEW Q, Steady(b, {}, {}, Q), NEW k \in DOMAIN b.wires
  PROVE  Steady(At(b, k, LetGoOf(b.wires[k])), {}, {}, Q)
  <1>. DEFINE w == b.wires[k]
              v == LetGoOf(w)
  <1>1. b \in Boards /\ w \in Wire /\ WireOK(w)  BY BoardIs DEF Steady
  <1>2. /\ v \in Wire /\ WireOK(v) /\ v.page = "gone"
        /\ w.at \in On => v.at = w.at /\ v.who = w.who /\ (v.over <=> w.over)
        /\ w.at \notin On => v.at \notin On
    BY <1>1, LetGoOfIs
  <1>. HIDE DEF v
  <1>3. OnIt(b, k) => w.at \in On /\ ~w.over
    BY <1>1, BoardIs DEF Steady, Placed, OnIt
  <1>4. OnIt(b, k) => v.who = b.wires[k].who /\ v.at \in On /\ ~v.over  BY <1>2, <1>3
  <1>5. \A j \in {} : j # k => j \in {}  OBVIOUS
  <1>6. k \in {} \/ OnIt(b, k) \/ v.at \notin On \/ v.over
    <2>1. w.at \in On /\ ~w.over => OnIt(b, k)  BY DEF Steady, Listed
    <2>. QED  BY <1>2, <2>1
  <1>7. Q \subseteq Q  OBVIOUS
  <1>8. OnIt(b, k) /\ Listens(v) =>
             /\ Listens(b.wires[k])
             /\ b.wires[k].who \notin Q => v.says = b.wires[k].says
             /\ Watcher \notin Q /\ NoneOf(v.up, "watch") => NoneOf(b.wires[k].up, "watch")
    BY <1>2 DEF Listens
  <1>9. Steady(b, {}, {}, Q)  OBVIOUS
  <1>10. k \in DOMAIN b.wires  OBVIOUS
  <1>11. v \in Wire /\ WireOK(v)  BY <1>2
  <1>12. Steady(At(b, k, v), {}, {}, Q)
    BY ONLY <1>11, <1>4, <1>5, <1>6, <1>7, <1>8, <1>9, <1>10, AtSteady
  <1>. QED  BY <1>12 DEF v

LEMMA CutOffIs ==
  ASSUME NEW w \in Wire, WireOK(w)
  PROVE  /\ CutOff(w) \in Wire /\ WireOK(CutOff(w)) /\ CutOff(w).cut /\ CutOff(w).page = w.page
         /\ CutOff(w).at = w.at /\ CutOff(w).who = w.who /\ (CutOff(w).over <=> w.over)
  <1>0. /\ <<>> \in Seq(Told) /\ <<>> \in Seq([from : Sharers, key : BOOLEAN]) /\ <<>> \in Seq(Asked)
        /\ Len(<<>>) = 0
    OBVIOUS
  <1>. DEFINE v == CutOff(w)
  <1>1. v \in Wire  BY <1>0 DEF CutOff, Wire
  <1>2. /\ v.at = w.at /\ v.who = w.who /\ v.aim = w.aim /\ v.page = w.page /\ v.says = <<>> /\ v.over = w.over
        /\ v.cut /\ v.frames = <<>>
    BY DEF Wire, CutOff
  <1>. HIDE DEF v
  <1>3. WireOK(v)
    <2>1. \A op : NoneOf(v.says, op)  BY <1>2, NoneIsOnEmpty
    <2>2. Len(v.frames) <= WatchQueue  BY <1>0, <1>2, ScreensAssumption
    <2>. QED  BY <1>2, <2>1, <2>2 DEF WireOK, Listens
  <1>. QED  BY <1>1, <1>2, <1>3 DEF v

\* A line dies.
LEMMA CutSteady ==
  ASSUME NEW b, Steady(b, {}, {}, {}), NEW k \in DOMAIN b.wires
  PROVE  Steady(At(b, k, CutOff(b.wires[k])), {}, {}, {})
  <1>. DEFINE w == b.wires[k]
              v == CutOff(w)
  <1>1. b \in Boards /\ w \in Wire /\ WireOK(w)  BY BoardIs DEF Steady
  <1>2. /\ v \in Wire /\ WireOK(v) /\ v.cut /\ v.at = w.at /\ v.who = w.who /\ (v.over <=> w.over)
    BY <1>1, CutOffIs
  <1>. HIDE DEF v
  <1>3. OnIt(b, k) => w.at \in On /\ ~w.over
    BY <1>1, BoardIs DEF Steady, Placed, OnIt
  <1>4. OnIt(b, k) => v.who = b.wires[k].who /\ v.at \in On /\ ~v.over  BY <1>2, <1>3
  <1>5. \A j \in {} : j # k => j \in {}  OBVIOUS
  <1>6. k \in {} \/ OnIt(b, k) \/ v.at \notin On \/ v.over
    <2>1. w.at \in On /\ ~w.over => OnIt(b, k)  BY DEF Steady, Listed
    <2>. QED  BY <1>2, <2>1
  <1>7. {} \subseteq {}  OBVIOUS
  <1>8. OnIt(b, k) /\ Listens(v) =>
             /\ Listens(b.wires[k])
             /\ b.wires[k].who \notin {} => v.says = b.wires[k].says
             /\ Watcher \notin {} /\ NoneOf(v.up, "watch") => NoneOf(b.wires[k].up, "watch")
    BY <1>2 DEF Listens
  <1>9. Steady(b, {}, {}, {})  OBVIOUS
  <1>10. k \in DOMAIN b.wires  OBVIOUS
  <1>11. v \in Wire /\ WireOK(v)  BY <1>2
  <1>12. Steady(At(b, k, v), {}, {}, {})
    BY ONLY <1>11, <1>4, <1>5, <1>6, <1>7, <1>8, <1>9, <1>10, AtSteady
  <1>. QED  BY <1>12 DEF v

LEMMA OpenedIs ==
  ASSUME NEW w \in Wire, WireOK(w), w.page = "opening"
  PROVE  /\ Opened(w) \in Wire /\ WireOK(Opened(w)) /\ Opened(w).page = "open"
         /\ Opened(w).at = "hello" /\ Opened(w).who = w.who /\ w.at = "dialled"
  <1>. DEFINE v == Opened(w)
  <1>1. v \in Wire  BY DEF Opened, Wire
  <1>2. /\ v.at = "hello" /\ v.who = w.who /\ v.aim = w.aim /\ v.page = "open" /\ v.says = w.says /\ v.over = w.over
        /\ v.cut = w.cut /\ v.frames = w.frames
    BY DEF Wire, Opened
  <1>. HIDE DEF v
  <1>3. w.at = "dialled"  BY DEF WireOK
  <1>4. WireOK(v)
    BY <1>2, <1>3 DEF WireOK, Listens, Early
  <1>. QED  BY <1>1, <1>2, <1>3, <1>4 DEF v

\* It opens.
LEMMA OpensSteady ==
  ASSUME NEW b, Steady(b, {}, {}, {}), NEW k \in DOMAIN b.wires, b.wires[k].page = "opening"
  PROVE  Steady(At(b, k, Opened(b.wires[k])), {}, {}, {})
  <1>. DEFINE w == b.wires[k]
              v == Opened(w)
  <1>1. b \in Boards /\ w \in Wire /\ WireOK(w)  BY BoardIs DEF Steady
  <1>2. v \in Wire /\ WireOK(v) /\ v.at = "hello" /\ w.at = "dialled"
    BY <1>1, OpenedIs
  <1>. HIDE DEF v
  <1>3. ~OnIt(b, k)
    <2>1. OnIt(b, k) => w.at \in On  BY <1>1, BoardIs DEF Steady, Placed, OnIt
    <2>. QED  BY <1>2, <2>1 DEF On
  <1>5. \A j \in {} : j # k => j \in {}  OBVIOUS
  <1>6. k \in {} \/ OnIt(b, k) \/ v.at \notin On \/ v.over  BY <1>2 DEF On
  <1>7. {} \subseteq {}  OBVIOUS
  <1>8. /\ OnIt(b, k) => v.who = b.wires[k].who /\ v.at \in On /\ ~v.over
        /\ OnIt(b, k) /\ Listens(v) =>
             /\ Listens(b.wires[k])
             /\ b.wires[k].who \notin {} => v.says = b.wires[k].says
             /\ Watcher \notin {} /\ NoneOf(v.up, "watch") => NoneOf(b.wires[k].up, "watch")
    BY <1>3
  <1>9. Steady(b, {}, {}, {})  OBVIOUS
  <1>10. k \in DOMAIN b.wires  OBVIOUS
  <1>11. v \in Wire /\ WireOK(v)  BY <1>2
  <1>12. Steady(At(b, k, v), {}, {}, {})
    BY ONLY <1>11, <1>5, <1>6, <1>7, <1>8, <1>9, <1>10, AtSteady
  <1>. QED  BY <1>12 DEF v

LEMMA HeardIs ==
  ASSUME NEW w \in Wire, WireOK(w), w.says # <<>>, Head(w.says).op # "close"
  PROVE  /\ Heard(w) \in Wire /\ WireOK(Heard(w)) /\ SameEnd(w, Heard(w))
         /\ Heard(w).says = Tail(w.says) /\ (Heard(w).over <=> w.over)
  <1>. DEFINE v == Heard(w)
  <1>1. w.says \in Seq(Told) /\ Tail(w.says) \in Seq(Told)  BY WireIs, HeadTailProperties
  <1>2. v \in Wire  BY <1>1 DEF Heard, Wire
  <1>3. /\ SameEnd(w, v) /\ v.says = Tail(w.says) /\ v.over = w.over /\ v.frames = w.frames
    BY DEF Wire, Heard, SameEnd
  <1>. HIDE DEF v
  <1>4. /\ \A op : NoneOf(w.says, op) => NoneOf(v.says, op)
        /\ NoneOf(v.says, "close") => NoneOf(w.says, "close")
    BY <1>1, <1>3, Taken
  <1>5. WireOK(v)
    <2>1. v.who = w.who /\ v.aim = w.aim /\ v.page = w.page /\ v.at = w.at /\ v.cut = w.cut
      BY <1>3 DEF SameEnd
    <2>2. v.at \notin Early  BY <2>1 DEF WireOK
    <2>. QED  BY <1>3, <1>4, <2>1, <2>2 DEF WireOK, Listens
  <1>. QED  BY <1>2, <1>3, <1>5 DEF v

\* A window takes what it is told.
LEMMA HeardSteady ==
  ASSUME NEW b, Steady(b, {}, {}, {}), NEW k \in DOMAIN b.wires,
         b.wires[k].says # <<>>, Head(b.wires[k].says).op # "close"
  PROVE  Steady(At(b, k, Heard(b.wires[k])), {}, {}, {b.wires[k].who})
  <1>. DEFINE w == b.wires[k]
              v == Heard(w)
              P == {w.who}
  <1>1. b \in Boards /\ w \in Wire /\ WireOK(w)  BY BoardIs DEF Steady
  <1>2. v \in Wire /\ WireOK(v) /\ SameEnd(w, v) /\ (v.over <=> w.over)
    BY <1>1, HeardIs
  <1>. HIDE DEF v
  <1>3. OnIt(b, k) => w.at \in On /\ ~w.over
    BY <1>1, BoardIs DEF Steady, Placed, OnIt
  <1>4. OnIt(b, k) => v.who = b.wires[k].who /\ v.at \in On /\ ~v.over  BY <1>2, <1>3 DEF SameEnd
  <1>5. \A j \in {} : j # k => j \in {}  OBVIOUS
  <1>6. k \in {} \/ OnIt(b, k) \/ v.at \notin On \/ v.over
    <2>1. w.at \in On /\ ~w.over => OnIt(b, k)  BY DEF Steady, Listed
    <2>. QED  BY <1>2, <2>1 DEF SameEnd
  <1>7. {} \subseteq P  OBVIOUS
  <1>8. OnIt(b, k) /\ Listens(v) =>
             /\ Listens(b.wires[k])
             /\ b.wires[k].who \notin P => v.says = b.wires[k].says
             /\ Watcher \notin P /\ NoneOf(v.up, "watch") => NoneOf(b.wires[k].up, "watch")
    BY <1>2 DEF Listens, SameEnd
  <1>9. Steady(b, {}, {}, {})  OBVIOUS
  <1>10. k \in DOMAIN b.wires  OBVIOUS
  <1>11. v \in Wire /\ WireOK(v)  BY <1>2
  <1>. HIDE DEF P
  <1>12. Steady(At(b, k, v), {}, {}, P)
    BY ONLY <1>11, <1>4, <1>5, <1>6, <1>7, <1>8, <1>9, <1>10, AtSteady
  <1>. QED  BY <1>12 DEF v, P

LEMMA FrameTakenIs ==
  ASSUME NEW w \in Wire, WireOK(w), w.frames # <<>>
  PROVE  /\ FrameTaken(w) \in Wire /\ WireOK(FrameTaken(w)) /\ SameEnd(w, FrameTaken(w))
         /\ FrameTaken(w).says = w.says /\ (FrameTaken(w).over <=> w.over)
  <1>. DEFINE v == FrameTaken(w)
  <1>1. /\ Tail(w.frames) \in Seq([from : Sharers, key : BOOLEAN]) /\ Len(w.frames) \in Nat
        /\ Len(Tail(w.frames)) = Len(w.frames) - 1
    BY WireIs, HeadTailProperties, LenProperties
  <1>2. v \in Wire  BY <1>1 DEF FrameTaken, Wire
  <1>3. SameEnd(w, v) /\ v.says = w.says /\ v.over = w.over /\ v.frames = Tail(w.frames)
    BY DEF Wire, FrameTaken, SameEnd
  <1>. HIDE DEF v
  <1>4. Len(v.frames) <= WatchQueue
    <2>1. Len(w.frames) <= WatchQueue  BY DEF WireOK
    <2>. QED  BY <1>1, <1>3, <2>1, ScreensAssumption
  <1>5. WireOK(v)
    <2>1. v.who = w.who /\ v.aim = w.aim /\ v.page = w.page /\ v.at = w.at /\ v.cut = w.cut
      BY <1>3 DEF SameEnd
    <2>. QED  BY <1>3, <1>4, <2>1 DEF WireOK, Listens
  <1>. QED  BY <1>2, <1>3, <1>5 DEF v

LEMMA AskingIs ==
  ASSUME NEW w \in Wire, WireOK(w), NEW m \in Asked
  PROVE  /\ Asking(w, m) \in Wire /\ WireOK(Asking(w, m)) /\ Asking(w, m).up = Append(w.up, m)
         /\ Asking(w, m).who = w.who /\ Asking(w, m).aim = w.aim /\ Asking(w, m).page = w.page
         /\ Asking(w, m).at = w.at /\ Asking(w, m).cut = w.cut /\ (Asking(w, m).over <=> w.over)
         /\ Asking(w, m).says = w.says /\ Asking(w, m).frames = w.frames
  <1>. DEFINE v == Asking(w, m)
  <1>1. Append(w.up, m) \in Seq(Asked)  BY WireIs, AppendProperties
  <1>2. v \in Wire  BY <1>1 DEF Asking, Wire
  <1>3. /\ v.up = Append(w.up, m) /\ v.who = w.who /\ v.aim = w.aim /\ v.page = w.page /\ v.at = w.at
        /\ v.cut = w.cut /\ v.over = w.over /\ v.says = w.says /\ v.frames = w.frames
    BY DEF Wire, Asking
  <1>. HIDE DEF v
  <1>4. WireOK(v)  BY <1>3 DEF WireOK, Listens
  <1>. QED  BY <1>2, <1>3, <1>4 DEF v

\* The window that watches takes a frame, or asks for something.
LEMMA WindowSteady ==
  ASSUME NEW b, NEW k, NEW v, Steady(b, {}, {}, {}), k \in DOMAIN b.wires, v \in Wire, WireOK(v),
         v.who = b.wires[k].who, v.page = b.wires[k].page, v.at = b.wires[k].at, v.cut = b.wires[k].cut,
         v.over <=> b.wires[k].over, v.says = b.wires[k].says,
         NoneOf(v.up, "watch") => NoneOf(b.wires[k].up, "watch")
  PROVE  Steady(At(b, k, v), {}, {}, {})
  <1>. DEFINE w == b.wires[k]
  <1>1. b \in Boards  BY DEF Steady
  <1>3. OnIt(b, k) => w.at \in On /\ ~w.over
    BY <1>1, BoardIs DEF Steady, Placed, OnIt
  <1>4. OnIt(b, k) => v.who = b.wires[k].who /\ v.at \in On /\ ~v.over  BY <1>3
  <1>5. \A j \in {} : j # k => j \in {}  OBVIOUS
  <1>6. k \in {} \/ OnIt(b, k) \/ v.at \notin On \/ v.over
    <2>1. w.at \in On /\ ~w.over => OnIt(b, k)  BY DEF Steady, Listed
    <2>. QED  BY <2>1
  <1>7. {} \subseteq {}  OBVIOUS
  <1>8. OnIt(b, k) /\ Listens(v) =>
             /\ Listens(b.wires[k])
             /\ b.wires[k].who \notin {} => v.says = b.wires[k].says
             /\ Watcher \notin {} /\ NoneOf(v.up, "watch") => NoneOf(b.wires[k].up, "watch")
    BY DEF Listens
  <1>9. Steady(b, {}, {}, {})  OBVIOUS
  <1>10. k \in DOMAIN b.wires  OBVIOUS
  <1>11. v \in Wire /\ WireOK(v)  OBVIOUS
  <1>. QED
    BY ONLY <1>11, <1>4, <1>5, <1>6, <1>7, <1>8, <1>9, <1>10, AtSteady

(* A socket is dialled. *)
Dialling(b, w) == [b EXCEPT !.wires = Append(b.wires, w)]

LEMMA DialledIs ==
  ASSUME NEW who \in Sharers \union {Watcher}, NEW aim \in Sharers \union {Nobody},
         who = Watcher => aim \in Sharers
  PROVE  /\ Dialled(who, aim) \in Wire /\ WireOK(Dialled(who, aim)) /\ Dialled(who, aim).who = who
         /\ Dialled(who, aim).page = "opening" /\ Dialled(who, aim).at = "dialled"
  <1>. DEFINE v == Dialled(who, aim)
  <1>0. /\ <<>> \in Seq(Told) /\ <<>> \in Seq([from : Sharers, key : BOOLEAN]) /\ <<>> \in Seq(Asked)
        /\ Len(<<>>) = 0
    OBVIOUS
  <1>1. v = [who |-> who, aim |-> aim, page |-> "opening", at |-> "dialled", over |-> FALSE, cut |-> FALSE,
             says |-> <<>>, frames |-> <<>>, up |-> <<>>]
    BY DEF Dialled
  <1>. HIDE DEF v
  <1>2. v \in Wire  BY <1>0, <1>1 DEF Wire
  <1>3. WireOK(v)
    <2>1. Len(v.frames) <= WatchQueue  BY <1>0, <1>1, ScreensAssumption
    <2>2. NoneOf(v.says, "want") /\ NoneOf(v.says, "keyframe")  BY <1>1, NoneIsOnEmpty
    <2>. QED  BY <1>1, <2>1, <2>2 DEF WireOK, Early, Listens
  <1>. QED  BY <1>1, <1>2, <1>3 DEF v

LEMMA DiallingSteady ==
  ASSUME NEW b, Steady(b, {}, {}, {}), NEW w \in Wire, WireOK(w), w.at = "dialled",
         NEW c, c = Dialling(b, w)
  PROVE  /\ Steady(c, {}, {}, {}) /\ c.shares = b.shares /\ c.watch = b.watch
         /\ c.wires = Append(b.wires, w)
         /\ DOMAIN c.wires = DOMAIN b.wires \union {Len(b.wires) + 1} /\ Len(b.wires) + 1 \notin DOMAIN b.wires
         /\ c.wires[Len(b.wires) + 1] = w /\ \A k \in DOMAIN b.wires : c.wires[k] = b.wires[k]
  <1>1. /\ b \in Boards /\ b.wires \in Seq(Wire) /\ b.shares \in [Sharers -> ShareSet] /\ b.watch \in WatchSet
        /\ Len(b.wires) \in Nat /\ DOMAIN b.wires = 1..Len(b.wires)
    BY BoardIs DEF Steady
  <1>. DEFINE n == Len(b.wires) + 1
              ws == Append(b.wires, w)
  <1>2. /\ ws \in Seq(Wire) /\ ws[n] = w /\ Len(ws) = n
        /\ \A k \in 1..Len(b.wires) : ws[k] = b.wires[k]
    BY <1>1, AppendProperties
  <1>3. DOMAIN ws = 1..n  BY <1>2, LenProperties
  <1>. HIDE DEF ws
  <1>4. c \in Boards /\ c.wires = ws /\ c.shares = b.shares /\ c.watch = b.watch
    BY <1>1, <1>2 DEF Boards, Dialling, ws
  <1>5. /\ DOMAIN c.wires = DOMAIN b.wires \union {n} /\ n \notin DOMAIN b.wires
        /\ c.wires[n] = w /\ \A k \in DOMAIN b.wires : c.wires[k] = b.wires[k]
    BY <1>1, <1>2, <1>3, <1>4
  <1>. HIDE DEF n
  <1>6. Placed(c)
    <2>1. Placed(b)  BY DEF Steady
    <2>. QED  BY <1>4, <1>5, <2>1 DEF Placed
  <1>7. Listed(c, {})
    <2>1. Listed(b, {})  BY DEF Steady
    <2>2. ASSUME NEW k \in DOMAIN c.wires, c.wires[k].at \in On, ~c.wires[k].over
          PROVE  OnIt(c, k)
      <3>1. k # n  BY <1>5, <2>2 DEF On
      <3>2. k \in DOMAIN b.wires /\ c.wires[k] = b.wires[k]  BY <1>5, <3>1
      <3>3. OnIt(b, k)  BY <2>1, <2>2, <3>2 DEF Listed
      <3>. QED  BY <1>4, <3>2, <3>3 DEF OnIt
    <2>. QED  BY <2>2 DEF Listed
  <1>8. Matched(c, {})  BY <1>4 DEF Steady, Matched
  <1>9. \A k \in DOMAIN c.wires : WireOK(c.wires[k])  BY <1>5 DEF Steady
  <1>10. AllTold(c, {})
    <2>1. AllTold(b, {}) /\ Placed(b)  BY DEF Steady
    <2>2. ASSUME NEW s \in Sharers
          PROVE  SharerTold(c, s)
      <3>1. SharerTold(b, s)  BY <2>1 DEF AllTold
      <3>2. b.shares[s].wire # 0 => c.wires[b.shares[s].wire] = b.wires[b.shares[s].wire]
        BY <1>5, <2>1 DEF Placed
      <3>. QED  BY <1>4, <3>1, <3>2 DEF SharerTold
    <2>3. WatcherTold(c)
      <3>1. WatcherTold(b)  BY <2>1 DEF AllTold
      <3>2. b.watch.wire # 0 => c.wires[b.watch.wire] = b.wires[b.watch.wire]
        BY <1>5, <2>1 DEF Placed
      <3>. QED  BY <1>4, <3>1, <3>2 DEF WatcherTold
    <2>. QED  BY <2>2, <2>3 DEF AllTold
  <1>11. Steady(c, {}, {}, {})  BY <1>4, <1>6, <1>7, <1>8, <1>9, <1>10 DEF Steady
  <1>. QED  BY <1>4, <1>5, <1>11 DEF ws, n

-----------------------------------------------------------------------------
(* The invariant *)

ShownSet == [status : {"none", "connecting", "waiting", "showing", "ended", "lost"},
             target : Sharers \union {Nobody}]

(* A socket a window has not let go is the one it uses. *)
WindowsAre ==
  /\ \A s \in Sharers : run[s].wire # 0 =>
       /\ run[s].wire \in DOMAIN wires /\ wires[run[s].wire].who = s
       /\ wires[run[s].wire].page # "gone"
  /\ view.wire # 0 =>
       /\ view.wire \in DOMAIN wires /\ wires[view.wire].who = Watcher
       /\ wires[view.wire].page # "gone"
  /\ \A k \in DOMAIN wires : wires[k].page # "gone" =>
       \/ wires[k].who \in Sharers /\ run[wires[k].who].wire = k
       \/ wires[k].who = Watcher /\ view.wire = k

(* A window that watches has a socket, or waits to dial one; it plays nothing once told of *)
(* nothing.                                                                                *)
ViewIs ==
  /\ view \in ViewSet /\ shown \in ShownSet /\ presses \in Seq(Sharers)
  /\ view.wire # 0 <=> view.at = "wire"
  /\ view = NoView <=> view.at = "off"
  /\ view.at # "off" => view.target # Nobody
  /\ shown.status = "ended" => ~view.dec

ScreensInv ==
  /\ CaptureInv
  /\ seated \subseteq Sharers \union {Watcher}
  /\ WindowsAre /\ ViewIs
  /\ Steady(Board, {}, {}, {})

LEMMA BoardFields ==
  /\ Board.shares = shares /\ Board.watch = watch /\ Board.wires = wires
  /\ (Board.shares)' = shares' /\ (Board.watch)' = watch' /\ (Board.wires)' = wires'
  BY DEF Board

\* A steady board is steady still after a step, if those who leave have no place, and a
\* window that listens knows as much as before of what it was told, or what it still waited for.
LEMMA SteadyThen ==
  ASSUME NEW b, NEW Q, Steady(b, {}, {}, Q), Holds(b),
         \A k \in DOMAIN b.wires :
           b.wires[k].at = "on" /\ ~b.wires[k].over /\ b.wires[k].who \in seated => b.wires[k].who \in seated',
         \A s \in Sharers \ Q : b.shares[s].wire # 0 /\ Listens(b.wires[b.shares[s].wire]) =>
           run'[s].wanted = run[s].wanted,
         \A s \in Sharers \intersect Q : b.shares[s].wire # 0 /\ Listens(b.wires[b.shares[s].wire]) =>
           \/ LastIs(b.wires[b.shares[s].wire].says, "want", Want(b.shares[s].wanted))
           \/ /\ NoneOf(b.wires[b.shares[s].wire].says, "want")
              /\ run'[s].wanted = b.shares[s].wanted,
         Watcher \notin Q => WatcherTold(b),
         /\ b.watch.wire # 0 /\ Listens(b.wires[b.watch.wire]) /\ NoneOf(b.wires[b.watch.wire].up, "watch")
         /\ b.watch.codec \/ b.watch.target = Nobody
         => IF Watcher \notin Q
            THEN view'.target = view.target /\ (shown'.status = "ended" <=> shown.status = "ended")
            ELSE \/ LastIs(b.wires[b.watch.wire].says, "showing", Showing(b.watch.target))
                 \/ /\ NoneOf(b.wires[b.watch.wire].says, "showing")
                    /\ IF shown'.status = "ended" THEN b.watch.target = Nobody
                       ELSE b.watch.target = view'.target
  PROVE  Steady(Board, {}, {}, {})'
  <1>1. Board' = b
    <2>1. b \in Boards  BY DEF Steady
    <2>. QED  BY <2>1 DEF Holds, Board, Boards
  <1>2. b \in Boards /\ Placed(b) /\ Listed(b, {}) /\ Matched(b, {}) /\ \A k \in DOMAIN b.wires : WireOK(b.wires[k])
    BY DEF Steady
  <1>3. (Board \in Boards)'  BY <1>1, <1>2
  <1>4. Placed(Board)'  BY <1>1, <1>2 DEF Placed
  <1>5. Listed(Board, {})'  BY <1>1, <1>2 DEF Listed, OnIt
  <1>6. Matched(Board, {})'  BY <1>1, <1>2 DEF Matched
  <1>7. ASSUME NEW k \in DOMAIN b.wires
        PROVE  WireOK(b.wires[k])'
    BY <1>2 DEF WireOK
  <1>8. (\A k \in DOMAIN Board.wires : WireOK(Board.wires[k]))'  BY <1>1, <1>7
  <1>9. ASSUME NEW s \in Sharers
        PROVE  SharerTold(b, s)'
    <2>1. CASE s \notin Q
      <3>1. SharerTold(b, s)  BY <2>1 DEF Steady, AllTold
      <3>2. b.shares[s].wire # 0 /\ Listens(b.wires[b.shares[s].wire]) => run'[s].wanted = run[s].wanted
        BY <2>1
      <3>. QED  BY <3>1, <3>2 DEF SharerTold
    <2>2. CASE s \in Q
      <3>1. b.shares[s].wire # 0 /\ Listens(b.wires[b.shares[s].wire]) =>
           \/ LastIs(b.wires[b.shares[s].wire].says, "want", Want(b.shares[s].wanted))
           \/ /\ NoneOf(b.wires[b.shares[s].wire].says, "want")
              /\ run'[s].wanted = b.shares[s].wanted
        BY <2>2
      <3>. QED  BY <3>1 DEF SharerTold
    <2>. QED  BY <2>1, <2>2
  <1>10. WatcherTold(b)'
    <2>1. CASE Watcher \notin Q
      <3>1. WatcherTold(b)  BY <2>1
      <3>. QED  BY <2>1, <3>1 DEF WatcherTold, Sees
    <2>2. CASE Watcher \in Q  BY <2>2 DEF WatcherTold, Sees
    <2>. QED  BY <2>1, <2>2
  <1>11. AllTold(Board, {})'  BY <1>1, <1>9, <1>10 DEF AllTold
  <1>. QED  BY <1>3, <1>4, <1>5, <1>6, <1>8, <1>11 DEF Steady

\* The windows go on as they are.
LEMMA SteadyStep ==
  ASSUME NEW b, Steady(b, {}, {}, {}), Holds(b),
         seated' = seated, UNCHANGED <<view, shown>>, \A s \in Sharers : run'[s].wanted = run[s].wanted
  PROVE  Steady(Board, {}, {}, {})'
  <1>1. Watcher \notin {} => WatcherTold(b)  BY DEF Steady, AllTold
  <1>2. \A k \in DOMAIN b.wires :
           b.wires[k].at = "on" /\ ~b.wires[k].over /\ b.wires[k].who \in seated => b.wires[k].who \in seated'
    OBVIOUS
  <1>3. \A s \in Sharers \ {} : b.shares[s].wire # 0 /\ Listens(b.wires[b.shares[s].wire]) =>
           run'[s].wanted = run[s].wanted
    OBVIOUS
  <1>4. \A s \in Sharers \intersect {} : b.shares[s].wire # 0 /\ Listens(b.wires[b.shares[s].wire]) =>
           \/ LastIs(b.wires[b.shares[s].wire].says, "want", Want(b.shares[s].wanted))
           \/ /\ NoneOf(b.wires[b.shares[s].wire].says, "want")
              /\ run'[s].wanted = b.shares[s].wanted
    OBVIOUS
  <1>5. /\ b.watch.wire # 0 /\ Listens(b.wires[b.watch.wire]) /\ NoneOf(b.wires[b.watch.wire].up, "watch")
        /\ b.watch.codec \/ b.watch.target = Nobody
        => IF Watcher \notin {}
           THEN view'.target = view.target /\ (shown'.status = "ended" <=> shown.status = "ended")
           ELSE \/ LastIs(b.wires[b.watch.wire].says, "showing", Showing(b.watch.target))
                \/ /\ NoneOf(b.wires[b.watch.wire].says, "showing")
                   /\ IF shown'.status = "ended" THEN b.watch.target = Nobody
                      ELSE b.watch.target = view'.target
    OBVIOUS
  <1>6. Steady(b, {}, {}, {}) /\ Holds(b)  OBVIOUS
  <1>. QED  BY ONLY <1>1, <1>2, <1>3, <1>4, <1>5, <1>6, SteadyThen

\* No window lets a socket go, dials one, or watches something else.
LEMMA WindowsKept ==
  ASSUME WindowsAre, DOMAIN wires' = DOMAIN wires,
         \A k \in DOMAIN wires : /\ wires'[k].page = "gone" <=> wires[k].page = "gone"
                                 /\ wires[k].page # "gone" => wires'[k].who = wires[k].who,
         \A s \in Sharers : run'[s].wire = run[s].wire, view'.wire = view.wire
  PROVE  WindowsAre'
  BY DEF WindowsAre

LEMMA ViewKept ==
  ASSUME ViewIs, UNCHANGED watching
  PROVE  ViewIs'
  BY DEF ViewIs, watching

\* The server does something: the windows' ends of the sockets stay.
LEMMA ServerStepIs ==
  ASSUME ScreensInv, NEW b, Steady(b, {}, {}, {}), Holds(b), seated' = seated,
         UNCHANGED <<sharing, watching>>, events' \in events..MaxEvents,
         DOMAIN b.wires = DOMAIN wires,
         \A k \in DOMAIN wires : /\ b.wires[k].page = "gone" <=> wires[k].page = "gone"
                                 /\ wires[k].page # "gone" => b.wires[k].who = wires[k].who
  PROVE  ScreensInv'
  <1>1. CaptureInv'  BY CaptureKept DEF ScreensInv
  <1>2. wires' = b.wires /\ run' = run /\ view' = view /\ shown' = shown  BY DEF Holds, sharing, watching
  <1>3. WindowsAre'  BY <1>2, WindowsKept DEF ScreensInv
  <1>4. ViewIs'  BY ViewKept DEF ScreensInv
  <1>5. Steady(Board, {}, {}, {})'  BY <1>2, SteadyStep
  <1>. QED  BY <1>1, <1>3, <1>4, <1>5 DEF ScreensInv

LEMMA EventsGoOn ==
  ASSUME CaptureInv, Event \/ UNCHANGED events
  PROVE  events' \in events..MaxEvents
  BY ScreensAssumption DEF CaptureInv, SharingTypes, Event

-----------------------------------------------------------------------------
(* The server's steps *)

\* What the invariant says of a socket, and of the board it is on.
LEMMA InvIs ==
  ASSUME ScreensInv, NEW k \in DOMAIN wires
  PROVE  /\ Steady(Board, {}, {}, {}) /\ Board \in Boards /\ Board.wires = wires /\ k \in DOMAIN Board.wires
         /\ k # 0 /\ wires[k] \in Wire /\ WireOK(wires[k])
         /\ OnIt(Board, k) => wires[k].at \in On /\ ~wires[k].over
         /\ wires[k].at \in On /\ ~wires[k].over => OnIt(Board, k)
  <1>1. Steady(Board, {}, {}, {}) /\ Board.wires = wires  BY BoardFields DEF ScreensInv
  <1>2. Board \in Boards  BY <1>1 DEF Steady
  <1>3. k \in DOMAIN Board.wires  BY <1>1
  <1>4. k # 0 /\ Board.wires[k] \in Wire  BY <1>2, <1>3, BoardIs
  <1>5. WireOK(Board.wires[k]) /\ Placed(Board) /\ Listed(Board, {})  BY <1>1, <1>3 DEF Steady
  <1>6. OnIt(Board, k) => Board.wires[k].at \in On /\ ~Board.wires[k].over
    BY <1>4, <1>5 DEF OnIt, Placed
  <1>7. Board.wires[k].at \in On /\ ~Board.wires[k].over => OnIt(Board, k)
    BY <1>3, <1>5 DEF Listed
  <1>. QED  BY <1>1, <1>2, <1>3, <1>4, <1>5, <1>6, <1>7

LEMMA OnlyEnds ==
  ASSUME NEW b, NEW c, SameEnds(b, c)
  PROVE  /\ DOMAIN c.wires = DOMAIN b.wires
         /\ \A k \in DOMAIN b.wires : /\ c.wires[k].page = b.wires[k].page /\ c.wires[k].who = b.wires[k].who
                                      /\ c.wires[k].at = b.wires[k].at /\ c.wires[k].aim = b.wires[k].aim
  BY DEF SameEnds, SameEnd

LEMMA RefusedEnds ==
  ASSUME NEW b, NEW k, Steady(b, {}, {k}, {}), k \in DOMAIN b.wires, ~OnIt(b, k),
         b.wires[k].at \notin {"gone", "dialled"},
         NEW why \in {"replaced", "ended", "not-in-voice", "busy", "nothing-to-watch"}
  PROVE  /\ Steady(Refused(b, k, why), {}, {}, {})
         /\ DOMAIN Refused(b, k, why).wires = DOMAIN b.wires
         /\ \A j \in DOMAIN b.wires : /\ Refused(b, k, why).wires[j].page = b.wires[j].page
                                      /\ Refused(b, k, why).wires[j].who = b.wires[j].who
  <1>. DEFINE v == Refusal(b.wires[k], why)
              c == Refused(b, k, why)
  <1>1. Steady(c, {}, {}, {}) /\ c = At(b, k, v)  BY RefusedSteady
  <1>2. b \in Boards /\ b.wires[k] \in Wire /\ WireOK(b.wires[k])  BY BoardIs DEF Steady
  <1>3. v \in Wire /\ v.page = b.wires[k].page /\ v.who = b.wires[k].who  BY <1>2, RefusalIs
  <1>. HIDE DEF v
  <1>. HIDE DEF c
  <1>4. /\ DOMAIN c.wires = DOMAIN b.wires /\ c.wires[k] = v
        /\ \A j \in DOMAIN b.wires : j # k => c.wires[j] = b.wires[j]
    BY <1>1, <1>2, <1>3, AtIs
  <1>. QED  BY <1>1, <1>3, <1>4 DEF c

LEMMA HelloStep ==
  ASSUME ScreensInv, NEW k \in DOMAIN wires, HelloArrives(k)
  PROVE  ScreensInv'
  <1>1. /\ Steady(Board, {}, {}, {}) /\ Board \in Boards /\ Board.wires = wires /\ k \in DOMAIN Board.wires
        /\ k # 0 /\ wires[k] \in Wire /\ WireOK(wires[k])
        /\ OnIt(Board, k) => wires[k].at \in On /\ ~wires[k].over
    BY InvIs
  <1>2. wires[k].at = "hello" /\ seated' = seated /\ UNCHANGED <<sharing, watching>>
    BY DEF HelloArrives
  <1>3. events' \in events..MaxEvents  BY EventsGoOn DEF ScreensInv, HelloArrives
  <1>4. ~OnIt(Board, k)  BY <1>1, <1>2 DEF On
  <1>. DEFINE v == MovedTo(wires[k], "signed")
              c == At(Board, k, v)
  <1>5. CASE Holds(c)
    <2>1. /\ v \in Wire /\ v.at = "signed" /\ v.who = wires[k].who /\ v.aim = wires[k].aim
          /\ v.page = wires[k].page /\ v.cut = wires[k].cut /\ v.says = wires[k].says /\ v.up = wires[k].up
          /\ v.frames = wires[k].frames /\ (v.over <=> wires[k].over)
      BY <1>1, MovedIs
    <2>. HIDE DEF v
    <2>2. /\ DOMAIN c.wires = DOMAIN wires /\ c.wires[k] = v
          /\ \A j \in DOMAIN wires : j # k => c.wires[j] = wires[j]
      BY <1>1, <2>1, AtIs
    <2>3. Steady(c, {}, {}, {})
      <3>1. /\ v.at = "dialled" <=> Board.wires[k].at = "dialled"
            /\ Board.wires[k].at = "gone" => v.at = "gone"
            /\ v.at \in Early => Board.wires[k].at \in Early
            /\ v.at = "on" /\ ~v.over => v.who \in seated
            /\ OnIt(Board, k) => v.at \in On
            /\ \A j \in {} : j # k => j \in {}
            /\ k \in {} \/ OnIt(Board, k) \/ v.at \notin On \/ v.over
            /\ {} \subseteq {}
            /\ OnIt(Board, k) /\ Watcher \notin {} /\ NoneOf(v.up, "watch") => NoneOf(Board.wires[k].up, "watch")
        BY <1>1, <1>2, <1>4, <2>1 DEF Early, On
      <3>. QED  BY <1>1, <2>1, <3>1, MovesSteady
    <2>4. \A j \in DOMAIN wires : /\ c.wires[j].page = "gone" <=> wires[j].page = "gone"
                                  /\ wires[j].page # "gone" => c.wires[j].who = wires[j].who
      BY <2>1, <2>2
    <2>. HIDE DEF c
    <2>. QED  BY <1>2, <1>3, <1>5, <2>2, <2>3, <2>4, ServerStepIs
  <1>6. ASSUME NEW why \in {"not-in-voice", "busy"}, Holds(Refused(Board, k, why))
        PROVE  ScreensInv'
    <2>. DEFINE d == Refused(Board, k, why)
    <2>1. Steady(Board, {}, {k}, {})  BY <1>1, SteadyMono
    <2>2. /\ Steady(d, {}, {}, {}) /\ DOMAIN d.wires = DOMAIN wires
          /\ \A j \in DOMAIN wires : d.wires[j].page = wires[j].page /\ d.wires[j].who = wires[j].who
      BY <1>1, <1>2, <1>4, <2>1, RefusedEnds
    <2>. HIDE DEF d
    <2>3. Holds(d)  BY <1>6 DEF d
    <2>. QED  BY <1>2, <1>3, <2>2, <2>3, ServerStepIs
  <1>7. Holds(c) \/ \E why \in {"not-in-voice", "busy"} : Holds(Refused(Board, k, why))
    <2>1. [Board EXCEPT !.wires[k].at = "signed"] = c  BY <1>1 DEF At, MovedTo, Boards
    <2>. HIDE DEF c
    <2>. QED  BY <2>1 DEF HelloArrives
  <1>. QED  BY <1>5, <1>6, <1>7

LEMMA OnBoardStep ==
  ASSUME ScreensInv, NEW k \in DOMAIN wires, OnBoard(k)
  PROVE  ScreensInv'
  <1>1. /\ Steady(Board, {}, {}, {}) /\ Board \in Boards /\ Board.wires = wires /\ k \in DOMAIN Board.wires
        /\ k # 0 /\ wires[k] \in Wire /\ WireOK(wires[k])
        /\ OnIt(Board, k) => wires[k].at \in On /\ ~wires[k].over
    BY InvIs
  <1>2. /\ wires[k].at = "signed" /\ seated' = seated /\ UNCHANGED <<sharing, watching>> /\ UNCHANGED events
    BY DEF OnBoard
  <1>3. events' \in events..MaxEvents  BY <1>2, EventsGoOn DEF ScreensInv
  <1>4. ~OnIt(Board, k)  BY <1>1, <1>2 DEF On
  <1>. DEFINE v == MovedTo(wires[k], "listed")
              c == At(Board, k, v)
  <1>5. /\ v \in Wire /\ v.at = "listed" /\ v.who = wires[k].who /\ v.aim = wires[k].aim
        /\ v.page = wires[k].page /\ v.cut = wires[k].cut /\ v.says = wires[k].says /\ v.up = wires[k].up
        /\ v.frames = wires[k].frames /\ (v.over <=> wires[k].over)
    BY <1>1, MovedIs
  <1>6. [Board EXCEPT !.wires[k].at = "listed"] = c  BY <1>1 DEF At, MovedTo, Boards
  <1>. HIDE DEF v
  <1>7. /\ DOMAIN c.wires = DOMAIN wires /\ c.wires[k] = v /\ c.shares = shares /\ c.watch = watch
        /\ \A j \in DOMAIN wires : j # k => c.wires[j] = wires[j]
    BY <1>1, <1>5, AtIs, BoardFields
  <1>8. Steady(c, {}, {k}, {})
    <2>1. /\ v.at = "dialled" <=> Board.wires[k].at = "dialled"
          /\ Board.wires[k].at = "gone" => v.at = "gone"
          /\ v.at \in Early => Board.wires[k].at \in Early
          /\ v.at = "on" /\ ~v.over => v.who \in seated
          /\ OnIt(Board, k) => v.at \in On
          /\ \A j \in {} : j # k => j \in {k}
          /\ k \in {k} \/ OnIt(Board, k) \/ v.at \notin On \/ v.over
          /\ {} \subseteq {}
          /\ OnIt(Board, k) /\ Watcher \notin {} /\ NoneOf(v.up, "watch") => NoneOf(Board.wires[k].up, "watch")
      BY <1>1, <1>2, <1>4, <1>5 DEF Early, On
    <2>. QED  BY <1>1, <1>5, <2>1, MovesSteady
  <1>9. \A j \in DOMAIN wires : c.wires[j].page = wires[j].page /\ c.wires[j].who = wires[j].who
    BY <1>5, <1>7
  <1>. HIDE DEF c
  <1>10. /\ ~OnIt(c, k) /\ c.wires[k].at \in On /\ ~c.wires[k].over
         /\ c.wires[k].who = wires[k].who /\ c.wires[k].aim = wires[k].aim
         /\ wires[k].who \in Sharers \/ (wires[k].who = Watcher /\ wires[k].aim \in Sharers)
    <2>1. ~OnIt(c, k)  BY <1>1, <1>4, <1>5, <1>7, BoardFields DEF OnIt
    <2>2. ~wires[k].over  BY <1>1, <1>2 DEF WireOK, Early
    <2>. QED  BY <1>1, <1>2, <1>5, <1>7, <2>1, <2>2 DEF On, WireOK
  <1>11. ASSUME NEW d, Steady(d, {}, {}, {}), DOMAIN d.wires = DOMAIN c.wires,
                \A j \in DOMAIN c.wires : d.wires[j].page = c.wires[j].page /\ d.wires[j].who = c.wires[j].who,
                Holds(d)
         PROVE  ScreensInv'
    <2>1. /\ DOMAIN d.wires = DOMAIN wires
          /\ \A j \in DOMAIN wires : /\ d.wires[j].page = "gone" <=> wires[j].page = "gone"
                                     /\ wires[j].page # "gone" => d.wires[j].who = wires[j].who
      BY <1>7, <1>9, <1>11
    <2>2. Steady(d, {}, {}, {}) /\ Holds(d)  BY <1>11
    <2>. QED  BY <1>2, <1>3, <2>1, <2>2, ServerStepIs
  <1>12. CASE wires[k].who # Watcher
    <2>. DEFINE s == wires[k].who
    <2>1. Holds(Share(c, k))  BY <1>6, <1>12 DEF OnBoard
    <2>2. s \in Sharers /\ s = c.wires[k].who /\ c.shares[s].wire # k
      BY <1>10, <1>12 DEF OnIt
    <2>. HIDE DEF s
    <2>3. Steady(Share(c, k), {}, {}, {}) /\ SameEnds(c, Share(c, k))
      BY <1>1, <1>7, <1>8, <1>10, <2>2, ShareSteady
    <2>. QED  BY <1>11, <2>1, <2>3, OnlyEnds
  <1>13. CASE wires[k].who = Watcher /\ shares[wires[k].aim].wire # 0
    <2>1. Holds(StartWatch(c, k))  BY <1>6, <1>13 DEF OnBoard
    <2>2. c.wires[k].aim \in Sharers /\ c.shares[c.wires[k].aim].wire # 0 /\ c.watch.wire # k
      BY <1>7, <1>10, <1>13, ScreensAssumption DEF OnIt
    <2>3. Steady(StartWatch(c, k), {}, {}, {}) /\ SameEnds(c, StartWatch(c, k))
      BY <1>1, <1>7, <1>8, <1>10, <1>13, <2>2, StartWatchSteady
    <2>. QED  BY <1>11, <2>1, <2>3, OnlyEnds
  <1>14. CASE wires[k].who = Watcher /\ shares[wires[k].aim].wire = 0
    <2>. DEFINE d == Refused(Board, k, "nothing-to-watch")
    <2>1. Holds(d)  BY <1>14 DEF OnBoard
    <2>2. Steady(Board, {}, {k}, {})  BY <1>1, SteadyMono
    <2>3. /\ Steady(d, {}, {}, {}) /\ DOMAIN d.wires = DOMAIN wires
          /\ \A j \in DOMAIN wires : d.wires[j].page = wires[j].page /\ d.wires[j].who = wires[j].who
      BY <1>1, <1>2, <1>4, <2>2, RefusedEnds
    <2>. HIDE DEF d
    <2>. QED  BY <1>2, <1>3, <2>1, <2>3, ServerStepIs
  <1>. QED  BY <1>12, <1>13, <1>14

\* Off the board again, by socket.
LEMMA OffBoardSteady ==
  ASSUME NEW b, NEW k, Steady(b, {}, {}, {}), k \in DOMAIN b.wires,
         b.wires[k].who \in Sharers \union {Watcher}
  PROVE  /\ Steady(OffBoard(b, k), {}, {k}, {}) /\ SameEnds(b, OffBoard(b, k))
         /\ ~OnIt(OffBoard(b, k), k)
  <1>1. b \in Boards /\ k # 0 /\ Watcher \notin Sharers  BY BoardIs, ScreensAssumption DEF Steady
  <1>2. CASE b.wires[k].who = Watcher
    <2>1. OffBoard(b, k) = Unwatch(b, k)  BY <1>2 DEF OffBoard
    <2>. DEFINE d == Unwatch(b, k)
    <2>2. Steady(d, {}, {k}, {}) /\ SameEnds(b, d) /\ d.watch.wire # k
      BY <1>1, UnwatchSteady
    <2>. HIDE DEF d
    <2>3. ~OnIt(d, k)  BY <1>1, <1>2, <2>2, OnlyEnds DEF OnIt
    <2>. QED  BY <2>1, <2>2, <2>3 DEF d
  <1>3. CASE b.wires[k].who # Watcher
    <2>1. OffBoard(b, k) = Unshare(b, k)  BY <1>3 DEF OffBoard
    <2>. DEFINE d == Unshare(b, k)
    <2>2. /\ Steady(d, {}, {k}, {}) /\ SameEnds(b, d)
          /\ \A s \in Sharers : d.shares[s].wire # k
      BY <1>3, UnshareSteady
    <2>. HIDE DEF d
    <2>3. ~OnIt(d, k)  BY <1>3, <2>2, OnlyEnds DEF OnIt
    <2>. QED  BY <2>1, <2>2, <2>3 DEF d
  <1>. QED  BY <1>2, <1>3

\* What still_seated finds.
LEMMA SeatStep ==
  ASSUME ScreensInv, NEW k \in DOMAIN wires, SeatChecked(k)
  PROVE  ScreensInv'
  <1>1. /\ Steady(Board, {}, {}, {}) /\ Board \in Boards /\ Board.wires = wires /\ k \in DOMAIN Board.wires
        /\ k # 0 /\ wires[k] \in Wire /\ WireOK(wires[k])
        /\ wires[k].at \in On /\ ~wires[k].over => OnIt(Board, k)
    BY InvIs
  <1>2. /\ wires[k].at = "listed" /\ seated' = seated /\ UNCHANGED <<sharing, watching>> /\ UNCHANGED events
    BY DEF SeatChecked
  <1>3. events' \in events..MaxEvents  BY <1>2, EventsGoOn DEF ScreensInv
  <1>4. CASE StillSeated(k)
    <2>. DEFINE v == MovedTo(wires[k], "on")
                c == At(Board, k, v)
    <2>1. /\ v \in Wire /\ v.at = "on" /\ v.who = wires[k].who /\ v.aim = wires[k].aim
          /\ v.page = wires[k].page /\ v.cut = wires[k].cut /\ v.says = wires[k].says /\ v.up = wires[k].up
          /\ v.frames = wires[k].frames /\ (v.over <=> wires[k].over)
      BY <1>1, MovedIs
    <2>2. [Board EXCEPT !.wires[k].at = "on"] = c  BY <1>1 DEF At, MovedTo, Boards
    <2>. HIDE DEF v
    <2>3. /\ DOMAIN c.wires = DOMAIN wires /\ c.wires[k] = v
          /\ \A j \in DOMAIN wires : j # k => c.wires[j] = wires[j]
      BY <1>1, <2>1, AtIs
    <2>4. Steady(c, {}, {}, {})
      <3>1. /\ v.at = "dialled" <=> Board.wires[k].at = "dialled"
            /\ Board.wires[k].at = "gone" => v.at = "gone"
            /\ v.at \in Early => Board.wires[k].at \in Early
            /\ v.at = "on" /\ ~v.over => v.who \in seated
            /\ OnIt(Board, k) => v.at \in On
            /\ \A j \in {} : j # k => j \in {}
            /\ k \in {} \/ OnIt(Board, k) \/ v.at \notin On \/ v.over
            /\ {} \subseteq {}
            /\ OnIt(Board, k) /\ Watcher \notin {} /\ NoneOf(v.up, "watch") => NoneOf(Board.wires[k].up, "watch")
        BY <1>1, <1>2, <1>4, <2>1 DEF Early, On, StillSeated
      <3>. QED  BY <1>1, <2>1, <3>1, MovesSteady
    <2>5. \A j \in DOMAIN wires : /\ c.wires[j].page = "gone" <=> wires[j].page = "gone"
                                  /\ wires[j].page # "gone" => c.wires[j].who = wires[j].who
      BY <2>1, <2>3
    <2>. HIDE DEF c
    <2>6. Holds(c)  BY <1>4, <2>2 DEF SeatChecked
    <2>. QED  BY <1>2, <1>3, <2>3, <2>4, <2>5, <2>6, ServerStepIs
  <1>5. CASE ~StillSeated(k)
    <2>. DEFINE c == OffBoard(Board, k)
                d == Refused(c, k, "not-in-voice")
    <2>1. wires[k].who \in Sharers \union {Watcher}  BY <1>1, <1>2 DEF WireOK
    <2>2. Steady(c, {}, {k}, {}) /\ SameEnds(Board, c) /\ ~OnIt(c, k)
      BY <1>1, <2>1, OffBoardSteady
    <2>. HIDE DEF c
    <2>3. /\ DOMAIN c.wires = DOMAIN wires
          /\ \A j \in DOMAIN wires : /\ c.wires[j].page = wires[j].page /\ c.wires[j].who = wires[j].who
                                     /\ c.wires[j].at = wires[j].at
      BY <1>1, <2>2, OnlyEnds
    <2>4. k \in DOMAIN c.wires /\ c.wires[k].at \notin {"gone", "dialled"}  BY <1>2, <2>3
    <2>5. /\ Steady(d, {}, {}, {}) /\ DOMAIN d.wires = DOMAIN c.wires
          /\ \A j \in DOMAIN c.wires : d.wires[j].page = c.wires[j].page /\ d.wires[j].who = c.wires[j].who
      BY <2>2, <2>4, RefusedEnds
    <2>6. Holds(d)  BY <1>5 DEF SeatChecked, c
    <2>. HIDE DEF d
    <2>. QED  BY <1>2, <1>3, <2>3, <2>5, <2>6, ServerStepIs
  <1>. QED  BY <1>4, <1>5

\* What the watcher asks for.
LEMMA ReceivedStep ==
  ASSUME ScreensInv, NEW k \in DOMAIN wires, Received(k)
  PROVE  ScreensInv'
  <1>1. /\ Steady(Board, {}, {}, {}) /\ Board \in Boards /\ Board.wires = wires /\ k \in DOMAIN Board.wires
        /\ k # 0 /\ wires[k] \in Wire /\ WireOK(wires[k])
        /\ OnIt(Board, k) => wires[k].at \in On /\ ~wires[k].over
        /\ wires[k].at \in On /\ ~wires[k].over => OnIt(Board, k)
    BY InvIs
  <1>. DEFINE m == Head(wires[k].up)
              v == WithoutAsk(wires[k])
              c == At(Board, k, v)
  <1>2. /\ wires[k].at = "on" /\ ~wires[k].over /\ wires[k].up # <<>>
        /\ seated' = seated /\ UNCHANGED <<sharing, watching>> /\ UNCHANGED events
    BY DEF Received
  <1>3. events' \in events..MaxEvents  BY <1>2, EventsGoOn DEF ScreensInv
  <1>4. /\ v \in Wire /\ v.up = Tail(wires[k].up) /\ v.who = wires[k].who /\ v.aim = wires[k].aim
        /\ v.page = wires[k].page /\ v.cut = wires[k].cut /\ v.says = wires[k].says /\ v.at = wires[k].at
        /\ v.frames = wires[k].frames /\ (v.over <=> wires[k].over)
    BY <1>1, <1>2, WithoutAskIs
  <1>5. [Board EXCEPT !.wires[k].up = Tail(@)] = c  BY <1>1 DEF At, WithoutAsk, Boards
  <1>. HIDE DEF v
  <1>6. /\ DOMAIN c.wires = DOMAIN wires /\ c.wires[k] = v /\ c.shares = shares /\ c.watch = watch
        /\ \A j \in DOMAIN wires : j # k => c.wires[j] = wires[j]
    BY <1>1, <1>4, AtIs, BoardFields
  <1>7. wires[k].up \in Seq(Asked) /\ m \in Asked /\ Tail(wires[k].up) \in Seq(Asked)
    BY <1>1, <1>2, WireIs, HeadTailProperties
  <1>8. m.op # "watch" /\ NoneOf(v.up, "watch") => NoneOf(wires[k].up, "watch")
    BY <1>2, <1>4, <1>7, Taken
  <1>9. ASSUME NEW P, Watcher \in P \/ ~OnIt(Board, k) \/ m.op # "watch"
        PROVE  Steady(c, {}, {}, P)
    <2>1. /\ v.at = "dialled" <=> Board.wires[k].at = "dialled"
          /\ Board.wires[k].at = "gone" => v.at = "gone"
          /\ v.at \in Early => Board.wires[k].at \in Early
          /\ v.at = "on" /\ ~v.over => v.who \in seated
          /\ OnIt(Board, k) => v.at \in On
          /\ \A j \in {} : j # k => j \in {}
          /\ k \in {} \/ OnIt(Board, k) \/ v.at \notin On \/ v.over
          /\ {} \subseteq P
          /\ OnIt(Board, k) /\ Watcher \notin P /\ NoneOf(v.up, "watch") => NoneOf(Board.wires[k].up, "watch")
      BY <1>1, <1>2, <1>4, <1>8, <1>9 DEF Early, On, WireOK
    <2>. QED  BY <1>1, <1>4, <2>1, MovesSteady
  <1>10. \A j \in DOMAIN wires : c.wires[j].page = wires[j].page /\ c.wires[j].who = wires[j].who
    BY <1>4, <1>6
  <1>. HIDE DEF c
  <1>. HIDE DEF m
  <1>11. ASSUME NEW d, Steady(d, {}, {}, {}), SameEnds(c, d), Holds(d)
         PROVE  ScreensInv'
    <2>1. /\ DOMAIN d.wires = DOMAIN wires
          /\ \A j \in DOMAIN wires : /\ d.wires[j].page = "gone" <=> wires[j].page = "gone"
                                     /\ wires[j].page # "gone" => d.wires[j].who = wires[j].who
      BY <1>6, <1>10, <1>11, OnlyEnds
    <2>2. Steady(d, {}, {}, {}) /\ Holds(d)  BY <1>11
    <2>. QED  BY <1>2, <1>3, <2>1, <2>2, ServerStepIs
  <1>12. Holds(IF m.op = "watch" THEN Switch(c, k, m.target) ELSE LostPlace(c, k))
    BY <1>5 DEF Received, m
  <1>13. CASE m.op = "watch" /\ watch.wire = k
    <2>1. m.target \in Sharers  BY <1>7, <1>13 DEF Asked, Keyframe
    <2>2. Steady(c, {}, {}, {Watcher})  BY <1>9
    <2>3. Steady(Switch(c, k, m.target), {}, {}, {}) /\ SameEnds(c, Switch(c, k, m.target))
      BY <1>1, <1>6, <1>13, <2>1, <2>2, SwitchSteady
    <2>. QED  BY <1>11, <1>12, <1>13, <2>3
  <1>14. CASE m.op = "watch" /\ watch.wire # k
    <2>1. Switch(c, k, m.target) = c  BY <1>6, <1>14 DEF Switch
    <2>2. Steady(c, {}, {}, {})
      <3>1. wires[k].who = Watcher => ~OnIt(Board, k)
        BY <1>14, BoardFields, ScreensAssumption, <1>1 DEF OnIt
      <3>2. CASE wires[k].who = Watcher  BY <1>9, <3>1, <3>2
      <3>3. CASE wires[k].who # Watcher
        <4>1. Steady(c, {}, {}, {Watcher})  BY <1>9
        <4>2. WatcherTold(c)
          <5>1. WatcherTold(Board)  BY <1>1 DEF Steady, AllTold
          <5>2. watch.wire # 0 => watch.wire \in DOMAIN wires  BY <1>1, PlaceIs, BoardFields
          <5>. QED  BY <1>6, <1>14, <5>1, <5>2, BoardFields, <1>1 DEF WatcherTold
        <4>3. AllTold(c, {})
          <5>1. AllTold(c, {Watcher}) /\ Watcher \notin Sharers  BY <4>1, ScreensAssumption DEF Steady
          <5>. QED  BY <4>2, <5>1 DEF AllTold
        <4>. QED  BY <4>1, <4>3 DEF Steady
      <3>. QED  BY <3>2, <3>3
    <2>. QED  BY <1>11, <1>12, <1>14, <2>1, <2>2, SameEndsItself
  <1>15. CASE m.op # "watch"
    <2>1. Steady(c, {}, {}, {})  BY <1>9, <1>15
    <2>2. Steady(LostPlace(c, k), {}, {}, {}) /\ SameEnds(c, LostPlace(c, k))
      BY <1>1, <2>1, LostPlaceSteady
    <2>. QED  BY <1>11, <1>12, <1>15, <2>2
  <1>. QED  BY <1>13, <1>14, <1>15

LEMMA ServerEndsStep ==
  ASSUME ScreensInv, NEW k \in DOMAIN wires, ServerEnds(k)
  PROVE  ScreensInv'
  <1>1. /\ Steady(Board, {}, {}, {}) /\ Board \in Boards /\ Board.wires = wires /\ k \in DOMAIN Board.wires
        /\ k # 0 /\ wires[k] \in Wire /\ WireOK(wires[k])
        /\ OnIt(Board, k) => wires[k].at \in On /\ ~wires[k].over
    BY InvIs
  <1>. DEFINE off == IF wires[k].at \in {"on", "ending"} THEN OffBoard(Board, k) ELSE Board
  <1>2. /\ wires[k].at \in {"ending", "on", "hello"}
        /\ seated' = seated /\ UNCHANGED <<sharing, watching>> /\ UNCHANGED events
        /\ Holds([off EXCEPT !.wires[k] = Buried([@ EXCEPT !.at = "gone"])])
    BY DEF ServerEnds
  <1>3. events' \in events..MaxEvents  BY <1>2, EventsGoOn DEF ScreensInv
  <1>4. Steady(off, {}, {k}, {}) /\ SameEnds(Board, off) /\ ~OnIt(off, k)
    <2>1. CASE wires[k].at \in {"on", "ending"}
      <3>1. off = OffBoard(Board, k)  BY <2>1
      <3>2. wires[k].who \in Sharers \union {Watcher}  BY <1>1, <2>1 DEF WireOK
      <3>. QED  BY <1>1, <3>1, <3>2, OffBoardSteady
    <2>2. CASE wires[k].at \notin {"on", "ending"}
      <3>1. off = Board  BY <2>2
      <3>2. Steady(Board, {}, {k}, {})  BY <1>1, SteadyMono
      <3>3. ~OnIt(Board, k)  BY <1>1, <1>2, <2>2 DEF On
      <3>. QED  BY <3>1, <3>2, <3>3, SameEndsItself
    <2>. QED  BY <2>1, <2>2
  <1>. HIDE DEF off
  <1>5. /\ DOMAIN off.wires = DOMAIN wires
        /\ \A j \in DOMAIN wires : /\ off.wires[j].page = wires[j].page /\ off.wires[j].who = wires[j].who
                                   /\ off.wires[j].at = wires[j].at
    BY <1>1, <1>4, OnlyEnds
  <1>6. off \in Boards /\ off.wires[k] \in Wire /\ WireOK(off.wires[k])
    BY <1>1, <1>4, <1>5, BoardIs DEF Steady
  <1>. DEFINE v == Ended(off.wires[k])
              c == At(off, k, v)
  <1>7. Holds(c)
    <2>1. [off EXCEPT !.wires[k] = Buried([@ EXCEPT !.at = "gone"])] = c  BY <1>6 DEF At, Ended, Boards
    <2>. QED  BY <1>2, <2>1
  <1>8. off.wires[k].at # "dialled"  BY <1>1, <1>2, <1>5
  <1>9. v \in Wire /\ v.page = wires[k].page /\ (wires[k].page # "gone" => v.who = wires[k].who)
    BY <1>1, <1>5, <1>6, <1>8, EndedIs
  <1>10. Steady(c, {}, {}, {})  BY <1>1, <1>4, <1>5, <1>8, EndedSteady
  <1>. HIDE DEF v
  <1>11. /\ DOMAIN c.wires = DOMAIN off.wires /\ c.wires[k] = v
         /\ \A j \in DOMAIN off.wires : j # k => c.wires[j] = off.wires[j]
    BY <1>1, <1>5, <1>6, <1>9, AtIs
  <1>12. \A j \in DOMAIN wires : /\ c.wires[j].page = "gone" <=> wires[j].page = "gone"
                                 /\ wires[j].page # "gone" => c.wires[j].who = wires[j].who
    BY <1>5, <1>9, <1>11
  <1>. HIDE DEF c
  <1>. QED  BY <1>2, <1>3, <1>5, <1>7, <1>10, <1>11, <1>12, ServerStepIs

\* Seats change, and the board with them.
LEMMA SeatsStepIs ==
  ASSUME ScreensInv, NEW b, Steady(b, {}, {}, {}), Holds(b), seated' \subseteq Sharers \union {Watcher},
         \A k \in DOMAIN b.wires :
           b.wires[k].at = "on" /\ ~b.wires[k].over /\ b.wires[k].who \in seated => b.wires[k].who \in seated',
         UNCHANGED <<sharing, watching>>, events' \in events..MaxEvents,
         DOMAIN b.wires = DOMAIN wires,
         \A k \in DOMAIN wires : /\ b.wires[k].page = "gone" <=> wires[k].page = "gone"
                                 /\ wires[k].page # "gone" => b.wires[k].who = wires[k].who
  PROVE  ScreensInv'
  <1>1. CaptureInv'  BY CaptureKept DEF ScreensInv
  <1>2. wires' = b.wires /\ run' = run /\ view' = view /\ shown' = shown  BY DEF Holds, sharing, watching
  <1>3. WindowsAre'  BY <1>2, WindowsKept DEF ScreensInv
  <1>4. ViewIs'  BY ViewKept DEF ScreensInv
  <1>5. Steady(Board, {}, {}, {})'
    <2>1. Watcher \notin {} => WatcherTold(b)  BY DEF Steady, AllTold
    <2>2. \A s \in Sharers \ {} : b.shares[s].wire # 0 /\ Listens(b.wires[b.shares[s].wire]) =>
             run'[s].wanted = run[s].wanted
      BY <1>2
    <2>3. \A s \in Sharers \intersect {} : b.shares[s].wire # 0 /\ Listens(b.wires[b.shares[s].wire]) =>
             \/ LastIs(b.wires[b.shares[s].wire].says, "want", Want(b.shares[s].wanted))
             \/ /\ NoneOf(b.wires[b.shares[s].wire].says, "want")
                /\ run'[s].wanted = b.shares[s].wanted
      OBVIOUS
    <2>4. /\ b.watch.wire # 0 /\ Listens(b.wires[b.watch.wire]) /\ NoneOf(b.wires[b.watch.wire].up, "watch")
          /\ b.watch.codec \/ b.watch.target = Nobody
          => IF Watcher \notin {}
             THEN view'.target = view.target /\ (shown'.status = "ended" <=> shown.status = "ended")
             ELSE \/ LastIs(b.wires[b.watch.wire].says, "showing", Showing(b.watch.target))
                  \/ /\ NoneOf(b.wires[b.watch.wire].says, "showing")
                     /\ IF shown'.status = "ended" THEN b.watch.target = Nobody
                        ELSE b.watch.target = view'.target
      BY <1>2
    <2>5. /\ Steady(b, {}, {}, {}) /\ Holds(b)
          /\ \A k \in DOMAIN b.wires :
               b.wires[k].at = "on" /\ ~b.wires[k].over /\ b.wires[k].who \in seated => b.wires[k].who \in seated'
      OBVIOUS
    <2>. QED  BY ONLY <2>1, <2>2, <2>3, <2>4, <2>5, SteadyThen
  <1>. QED  BY <1>1, <1>3, <1>4, <1>5 DEF ScreensInv

\* A seat is left, and the share and the watching with it.
LEMMA LeaveStep ==
  ASSUME ScreensInv, NEW s \in Sharers \union {Watcher}, LeaveVoice(s)
  PROVE  ScreensInv'
  <1>. DEFINE b == EndedWith(Board, s)
  <1>1. /\ Steady(b, {}, {}, {}) /\ SameEnds(Board, b)
        /\ s \in Sharers => b.shares[s].wire = 0
        /\ s = Watcher => b.watch.wire = 0
    BY EndedWithSteady DEF ScreensInv
  <1>2. Holds(b) /\ seated' = seated \ {s} /\ UNCHANGED <<sharing, watching>> /\ Event
    BY DEF LeaveVoice
  <1>3. events' \in events..MaxEvents  BY <1>2, EventsGoOn DEF ScreensInv
  <1>4. seated' \subseteq Sharers \union {Watcher}  BY <1>2 DEF ScreensInv
  <1>. HIDE DEF b
  <1>5. /\ DOMAIN b.wires = DOMAIN wires
        /\ \A k \in DOMAIN wires : b.wires[k].page = wires[k].page /\ b.wires[k].who = wires[k].who
    BY <1>1, OnlyEnds, BoardFields
  <1>6. ASSUME NEW k \in DOMAIN b.wires, b.wires[k].at = "on", ~b.wires[k].over, b.wires[k].who \in seated
        PROVE  b.wires[k].who \in seated'
    <2>1. OnIt(b, k)  BY <1>1, <1>6 DEF Steady, Listed, On
    <2>2. k # 0  BY <1>1, BoardIs DEF Steady
    <2>3. b.wires[k].who # s  BY <1>1, <2>1, <2>2 DEF OnIt
    <2>. QED  BY <1>2, <1>6, <2>3
  <1>7. \A k \in DOMAIN wires : /\ b.wires[k].page = "gone" <=> wires[k].page = "gone"
                                /\ wires[k].page # "gone" => b.wires[k].who = wires[k].who
    BY <1>5
  <1>. QED  BY <1>1, <1>2, <1>3, <1>4, <1>5, <1>6, <1>7, SeatsStepIs

LEMMA JoinStep ==
  ASSUME ScreensInv, NEW s \in Sharers \union {Watcher}, JoinVoice(s)
  PROVE  ScreensInv'
  <1>1. /\ seated' = seated \union {s} /\ UNCHANGED <<sharing, watching>> /\ UNCHANGED events
        /\ shares' = shares /\ watch' = watch /\ wires' = wires
    BY DEF JoinVoice
  <1>2. Steady(Board, {}, {}, {}) /\ Holds(Board)  BY <1>1 DEF ScreensInv, Holds, Board
  <1>3. events' \in events..MaxEvents  BY <1>1, EventsGoOn DEF ScreensInv
  <1>4. seated' \subseteq Sharers \union {Watcher} /\ seated \subseteq seated'  BY <1>1 DEF ScreensInv
  <1>5. /\ DOMAIN Board.wires = DOMAIN wires
        /\ \A k \in DOMAIN wires : /\ Board.wires[k].page = "gone" <=> wires[k].page = "gone"
                                   /\ wires[k].page # "gone" => Board.wires[k].who = wires[k].who
    BY BoardFields
  <1>6. \A k \in DOMAIN Board.wires : Board.wires[k].at = "on" /\ ~Board.wires[k].over
           /\ Board.wires[k].who \in seated => Board.wires[k].who \in seated'
    BY <1>4
  <1>. QED  BY ONLY ScreensInv, <1>1, <1>2, <1>3, <1>4, <1>5, <1>6, SeatsStepIs

\* A key frame may be asked for again.
LEMMA AskedStep ==
  ASSUME ScreensInv, NEW s \in Sharers, AskedLongAgo(s)
  PROVE  ScreensInv'
  <1>1. /\ shares[s].asked /\ shares' = [shares EXCEPT ![s].asked = FALSE]
        /\ watch' = watch /\ wires' = wires /\ seated' = seated /\ UNCHANGED <<sharing, watching>>
        /\ UNCHANGED events
    BY DEF AskedLongAgo
  <1>2. Steady(Board, {}, {}, {}) /\ Board \in Boards  BY DEF ScreensInv, Steady
  <1>3. shares \in [Sharers -> ShareSet] /\ watch \in WatchSet /\ wires \in Seq(Wire)
    BY <1>2, BoardIs, BoardFields
  <1>4. shares[s].wire # 0
    <2>1. shares[s].wire = 0 => shares[s] = NoShare  BY <1>2, BoardFields DEF Steady, Placed
    <2>. QED  BY <1>1, <2>1 DEF NoShare
  <1>. DEFINE q == [shares[s] EXCEPT !.asked = FALSE]
              c == [Board EXCEPT !.shares = shares']
  <1>5. q \in ShareSet /\ q.wire = shares[s].wire /\ q.wanted = shares[s].wanted
    <2>1. shares[s] \in ShareSet  BY <1>3
    <2>. QED  BY <2>1 DEF ShareSet
  <1>6. shares' \in [Sharers -> ShareSet] /\ shares'[s] = q /\ \A t \in Sharers : t # s => shares'[t] = shares[t]
    <2>1. shares' = [shares EXCEPT ![s] = q]  BY <1>1
    <2>. HIDE DEF q
    <2>. QED  BY <1>3, <1>5, <2>1
  <1>. HIDE DEF q
  <1>7. c \in Boards /\ c.shares = shares' /\ c.watch = watch /\ c.wires = wires
    BY <1>3, <1>6 DEF Boards, Board
  <1>. HIDE DEF c
  <1>8. Steady(c, {}, {}, {})
    <2>1. /\ c.wires = Board.wires /\ c.watch = Board.watch /\ Board.shares[s].wire # 0
          /\ c.shares[s].wire = Board.shares[s].wire /\ c.shares[s].wanted = Board.shares[s].wanted
          /\ \A t \in Sharers : t # s => c.shares[t] = Board.shares[t]
      BY <1>4, <1>5, <1>6, <1>7, BoardFields
    <2>. QED  BY <1>2, <1>7, <2>1, ShareKept
  <1>9. Holds(c)  BY <1>1, <1>7 DEF Holds
  <1>10. events' \in events..MaxEvents  BY <1>1, EventsGoOn DEF ScreensInv
  <1>. QED  BY <1>1, <1>7, <1>8, <1>9, <1>10, ServerStepIs

\* A line dies.
LEMMA CutStep ==
  ASSUME ScreensInv, NEW k \in DOMAIN wires, Cut(k)
  PROVE  ScreensInv'
  <1>1. /\ Steady(Board, {}, {}, {}) /\ Board \in Boards /\ Board.wires = wires /\ k \in DOMAIN Board.wires
        /\ wires[k] \in Wire /\ WireOK(wires[k])
    BY InvIs
  <1>. DEFINE v == CutOff(wires[k])
              c == At(Board, k, v)
  <1>2. /\ wires' = [wires EXCEPT ![k].cut = TRUE, ![k].says = <<>>, ![k].frames = <<>>, ![k].up = <<>>]
        /\ shares' = shares /\ watch' = watch /\ seated' = seated /\ UNCHANGED <<sharing, watching>> /\ Event
    BY DEF Cut
  <1>3. events' \in events..MaxEvents  BY <1>2, EventsGoOn DEF ScreensInv
  <1>4. v \in Wire /\ v.page = wires[k].page /\ v.who = wires[k].who  BY <1>1, CutOffIs
  <1>5. wires' = [wires EXCEPT ![k] = v]  BY <1>2 DEF CutOff
  <1>6. Steady(c, {}, {}, {})  BY <1>1, CutSteady
  <1>. HIDE DEF v
  <1>7. /\ DOMAIN c.wires = DOMAIN wires /\ c.wires[k] = v /\ c.shares = shares /\ c.watch = watch
        /\ \A j \in DOMAIN wires : j # k => c.wires[j] = wires[j]
    BY <1>1, <1>4, AtIs, BoardFields
  <1>8. Holds(c)
    <2>1. c.wires = [wires EXCEPT ![k] = v]  BY <1>1 DEF At, Boards
    <2>. QED  BY <1>2, <1>5, <1>7, <2>1 DEF Holds
  <1>9. \A j \in DOMAIN wires : /\ c.wires[j].page = "gone" <=> wires[j].page = "gone"
                                /\ wires[j].page # "gone" => c.wires[j].who = wires[j].who
    BY <1>4, <1>7
  <1>. HIDE DEF c
  <1>. QED  BY <1>2, <1>3, <1>6, <1>7, <1>8, <1>9, ServerStepIs

\* A socket opens.
LEMMA OpensStep ==
  ASSUME ScreensInv, NEW k \in DOMAIN wires, Opens(k)
  PROVE  ScreensInv'
  <1>1. /\ Steady(Board, {}, {}, {}) /\ Board \in Boards /\ Board.wires = wires /\ k \in DOMAIN Board.wires
        /\ wires[k] \in Wire /\ WireOK(wires[k])
    BY InvIs
  <1>. DEFINE v == Opened(wires[k])
              c == At(Board, k, v)
  <1>2. /\ wires' = [wires EXCEPT ![k].page = "open", ![k].at = "hello"] /\ wires[k].page = "opening"
        /\ shares' = shares /\ watch' = watch /\ seated' = seated /\ UNCHANGED <<sharing, watching>>
        /\ UNCHANGED events
    BY DEF Opens
  <1>3. events' \in events..MaxEvents  BY <1>2, EventsGoOn DEF ScreensInv
  <1>4. v \in Wire /\ v.page = "open" /\ v.who = wires[k].who  BY <1>1, <1>2, OpenedIs
  <1>5. wires' = [wires EXCEPT ![k] = v]  BY <1>2 DEF Opened
  <1>6. Steady(c, {}, {}, {})  BY <1>1, <1>2, OpensSteady
  <1>. HIDE DEF v
  <1>7. /\ DOMAIN c.wires = DOMAIN wires /\ c.wires[k] = v /\ c.shares = shares /\ c.watch = watch
        /\ \A j \in DOMAIN wires : j # k => c.wires[j] = wires[j]
    BY <1>1, <1>4, AtIs, BoardFields
  <1>8. Holds(c)
    <2>1. c.wires = [wires EXCEPT ![k] = v]  BY <1>1 DEF At, Boards
    <2>. QED  BY <1>2, <1>5, <1>7, <2>1 DEF Holds
  <1>9. \A j \in DOMAIN wires : /\ c.wires[j].page = "gone" <=> wires[j].page = "gone"
                                /\ wires[j].page # "gone" => c.wires[j].who = wires[j].who
    BY <1>2, <1>4, <1>7
  <1>. HIDE DEF c
  <1>. QED  BY <1>2, <1>3, <1>6, <1>7, <1>8, <1>9, ServerStepIs

-----------------------------------------------------------------------------
(* The steps of the windows that share *)

\* A window lets its socket go, if it has one.
LetGone(b, k) == IF k = 0 THEN b ELSE At(b, k, LetGoOf(b.wires[k]))

LEMMA LetGoneIs ==
  ASSUME ScreensInv, NEW k, k # 0 => k \in DOMAIN wires
  PROVE  /\ Steady(LetGone(Board, k), {}, {}, {})
         /\ LetGone(Board, k).shares = shares /\ LetGone(Board, k).watch = watch
         /\ LetGone(Board, k).wires = LetGo(wires, k)
         /\ DOMAIN LetGone(Board, k).wires = DOMAIN wires
         /\ \A j \in DOMAIN wires : j # k => LetGone(Board, k).wires[j] = wires[j]
         /\ k # 0 => LetGone(Board, k).wires[k].page = "gone"
  <1>1. Steady(Board, {}, {}, {})  BY DEF ScreensInv
  <1>2. CASE k = 0
    <2>1. LetGone(Board, k) = Board /\ LetGo(wires, k) = wires  BY <1>2 DEF LetGone, LetGo
    <2>. QED  BY <1>1, <1>2, <2>1, BoardFields
  <1>3. CASE k # 0
    <2>. DEFINE v == LetGoOf(wires[k])
                c == At(Board, k, v)
    <2>1. /\ Board \in Boards /\ Board.wires = wires /\ k \in DOMAIN Board.wires
          /\ wires[k] \in Wire /\ WireOK(wires[k])
      BY <1>3, InvIs
    <2>2. LetGone(Board, k) = c  BY <1>3, <2>1 DEF LetGone
    <2>3. v \in Wire /\ v.page = "gone"  BY <2>1, LetGoOfIs
    <2>4. LetGo(wires, k) = [wires EXCEPT ![k] = v]  BY <1>3 DEF LetGo
    <2>5. Steady(c, {}, {}, {})  BY <1>1, <2>1, LetGoSteady
    <2>. HIDE DEF v
    <2>6. /\ DOMAIN c.wires = DOMAIN wires /\ c.wires[k] = v /\ c.shares = shares /\ c.watch = watch
          /\ \A j \in DOMAIN wires : j # k => c.wires[j] = wires[j]
      BY <2>1, <2>3, AtIs, BoardFields
    <2>7. c.wires = [wires EXCEPT ![k] = v]  BY <2>1 DEF At, Boards
    <2>. HIDE DEF c
    <2>. QED  BY <2>2, <2>3, <2>4, <2>5, <2>6, <2>7
  <1>. QED  BY <1>2, <1>3

\* A window's sharing goes on, and what happens on the board leaves it steady.
LEMMA RunStepIs ==
  ASSUME ScreensInv, NEW b, Steady(b, {}, {}, {}), Holds(b), seated' = seated, UNCHANGED watching,
         CaptureInv', DOMAIN b.wires = DOMAIN wires,
         \A k \in DOMAIN wires : b.wires[k].page = wires[k].page /\ b.wires[k].who = wires[k].who,
         \A t \in Sharers : run'[t].wire = run[t].wire /\ run'[t].wanted = run[t].wanted
  PROVE  ScreensInv'
  <1>1. view' = view /\ shown' = shown  BY DEF watching
  <1>2. wires' = b.wires  BY DEF Holds
  <1>3. WindowsAre'  BY <1>1, <1>2, WindowsKept DEF ScreensInv
  <1>4. ViewIs'  BY ViewKept DEF ScreensInv
  <1>5. Steady(Board, {}, {}, {})'  BY <1>1, SteadyStep
  <1>6. seated' \subseteq Sharers \union {Watcher}  BY DEF ScreensInv
  <1>. QED  BY <1>3, <1>4, <1>5, <1>6 DEF ScreensInv

\* The board and the sockets stay.
LEMMA RunOnlyIs ==
  ASSUME ScreensInv, UNCHANGED <<seated, shares, watch, wires, watching>>, CaptureInv',
         \A t \in Sharers : run'[t].wire = run[t].wire /\ run'[t].wanted = run[t].wanted
  PROVE  ScreensInv'
  <1>1. Steady(Board, {}, {}, {}) /\ Holds(Board)  BY DEF ScreensInv, Holds, Board
  <1>2. /\ DOMAIN Board.wires = DOMAIN wires
        /\ \A k \in DOMAIN wires : Board.wires[k].page = wires[k].page /\ Board.wires[k].who = wires[k].who
    BY BoardFields
  <1>. QED  BY <1>1, <1>2, RunStepIs

\* The only socket of a session that shares that its window listens on is the one it uses.
LEMMA LetGoShareIs ==
  ASSUME ScreensInv, NEW s \in Sharers, wires' = LetGo(wires, run[s].wire),
         UNCHANGED <<seated, shares, watch, watching>>, CaptureInv',
         run'[s].wire = 0, \A t \in Sharers : t # s => run'[t] = run[t]
  PROVE  ScreensInv'
  <1>. DEFINE k == run[s].wire
              b == LetGone(Board, k)
  <1>0. /\ WindowsAre /\ view' = view /\ shown' = shown /\ Watcher \notin Sharers
        /\ Steady(Board, {}, {}, {})
    BY ScreensAssumption DEF ScreensInv, watching
  <1>1. k # 0 => k \in DOMAIN wires /\ wires[k].who = s  BY <1>0 DEF WindowsAre
  <1>2. /\ Steady(b, {}, {}, {}) /\ b.shares = shares /\ b.watch = watch /\ b.wires = LetGo(wires, k)
        /\ DOMAIN b.wires = DOMAIN wires
        /\ \A j \in DOMAIN wires : j # k => b.wires[j] = wires[j]
        /\ k # 0 => b.wires[k].page = "gone"
    BY <1>1, LetGoneIs
  <1>. HIDE DEF b
  <1>3. Holds(b) /\ wires' = b.wires  BY <1>2 DEF Holds
  <1>4. \A j \in DOMAIN wires : b.wires[j].page # "gone" => j # k /\ b.wires[j] = wires[j] /\ wires[j].who # s
    <2>1. ASSUME NEW j \in DOMAIN wires, b.wires[j].page # "gone"
          PROVE  j # k /\ b.wires[j] = wires[j] /\ wires[j].who # s
      <3>1. j # 0  BY <1>0, BoardIs, BoardFields DEF Steady
      <3>2. j # k /\ b.wires[j] = wires[j]  BY <1>2, <2>1, <3>1
      <3>3. wires[j].who # s  BY <1>0, <2>1, <3>2 DEF WindowsAre
      <3>. QED  BY <3>2, <3>3
    <2>. QED  BY <2>1
  <1>5. WindowsAre'
    <2>1. \A t \in Sharers : run'[t].wire # 0 =>
             t # s /\ run'[t] = run[t] /\ run[t].wire # k
      BY <1>0, <1>1 DEF WindowsAre
    <2>2. view.wire # 0 => view.wire # k
      BY <1>0, <1>1 DEF WindowsAre
    <2>3. \A t \in Sharers : run'[t].wire # 0 =>
             /\ run'[t].wire \in DOMAIN wires' /\ wires'[run'[t].wire].who = t
             /\ wires'[run'[t].wire].page # "gone"
      BY <1>0, <1>2, <1>3, <2>1 DEF WindowsAre
    <2>4. view'.wire # 0 =>
             /\ view'.wire \in DOMAIN wires' /\ wires'[view'.wire].who = Watcher
             /\ wires'[view'.wire].page # "gone"
      BY <1>0, <1>2, <1>3, <2>2 DEF WindowsAre
    <2>5. \A j \in DOMAIN wires' : wires'[j].page # "gone" =>
             \/ wires'[j].who \in Sharers /\ run'[wires'[j].who].wire = j
             \/ wires'[j].who = Watcher /\ view'.wire = j
      BY <1>0, <1>2, <1>3, <1>4 DEF WindowsAre
    <2>. QED  BY <2>3, <2>4, <2>5 DEF WindowsAre
  <1>6. ViewIs'  BY ViewKept DEF ScreensInv
  <1>7. Steady(Board, {}, {}, {})'
    <2>. DEFINE Q == {s}
    <2>1. Steady(b, {}, {}, Q)
      BY <1>2, SteadyMono
    <2>2. Watcher \notin Q => WatcherTold(b)  BY <1>2 DEF Steady, AllTold
    <2>3. \A j \in DOMAIN b.wires :
             b.wires[j].at = "on" /\ ~b.wires[j].over /\ b.wires[j].who \in seated => b.wires[j].who \in seated'
      OBVIOUS
    <2>4. \A t \in Sharers \ Q : b.shares[t].wire # 0 /\ Listens(b.wires[b.shares[t].wire]) =>
             run'[t].wanted = run[t].wanted
      OBVIOUS
    <2>5. \A t \in Sharers \intersect Q : ~(b.shares[t].wire # 0 /\ Listens(b.wires[b.shares[t].wire]))
      <3>1. b.shares[s].wire # 0 => b.shares[s].wire \in DOMAIN wires /\ wires[b.shares[s].wire].who = s
        BY <1>0, <1>2, PlaceIs, BoardFields
      <3>. QED  BY <1>4, <3>1 DEF Listens
    <2>6. \A t \in Sharers \intersect Q : b.shares[t].wire # 0 /\ Listens(b.wires[b.shares[t].wire]) =>
             \/ LastIs(b.wires[b.shares[t].wire].says, "want", Want(b.shares[t].wanted))
             \/ /\ NoneOf(b.wires[b.shares[t].wire].says, "want")
                /\ run'[t].wanted = b.shares[t].wanted
      BY <2>5
    <2>7. /\ b.watch.wire # 0 /\ Listens(b.wires[b.watch.wire]) /\ NoneOf(b.wires[b.watch.wire].up, "watch")
          /\ b.watch.codec \/ b.watch.target = Nobody
          => IF Watcher \notin Q
             THEN view'.target = view.target /\ (shown'.status = "ended" <=> shown.status = "ended")
             ELSE \/ LastIs(b.wires[b.watch.wire].says, "showing", Showing(b.watch.target))
                  \/ /\ NoneOf(b.wires[b.watch.wire].says, "showing")
                     /\ IF shown'.status = "ended" THEN b.watch.target = Nobody
                        ELSE b.watch.target = view'.target
      BY <1>0
    <2>. HIDE DEF Q
    <2>. QED  BY ONLY <1>3, <2>1, <2>2, <2>3, <2>4, <2>6, <2>7, SteadyThen
  <1>8. seated' \subseteq Sharers \union {Watcher}  BY DEF ScreensInv
  <1>. QED  BY <1>5, <1>6, <1>7, <1>8 DEF ScreensInv

\* What the invariant says of a share.
LEMMA RunIs ==
  ASSUME ScreensInv, NEW s \in Sharers
  PROVE  /\ run \in [Sharers -> RunSet] /\ run[s] \in RunSet /\ picking \in [Sharers -> 0..MaxEvents]
         /\ run[s].n \in 0..MaxEvents /\ run[s].at \in {"off", "token", "wire"} /\ run[s].wire \in Nat
         /\ run[s].tries \in 0..Retries /\ run[s].wanted \in BOOLEAN /\ run[s].enc \in {"none", "on", "key"}
         /\ run[s].latest \in BOOLEAN
         /\ run[s].wire # 0 <=> run[s].at = "wire"
         /\ run[s] = NoRun <=> run[s].at = "off"
  <1>1. run \in [Sharers -> RunSet] /\ picking \in [Sharers -> 0..MaxEvents]
    BY DEF ScreensInv, CaptureInv, SharingTypes
  <1>2. run[s] \in RunSet  BY <1>1
  <1>3. /\ run[s].n \in 0..MaxEvents /\ run[s].at \in {"off", "token", "wire"} /\ run[s].wire \in Nat
        /\ run[s].tries \in 0..Retries /\ run[s].wanted \in BOOLEAN /\ run[s].enc \in {"none", "on", "key"}
        /\ run[s].latest \in BOOLEAN
    BY <1>2 DEF RunSet
  <1>4. (run[s].wire # 0 <=> run[s].at = "wire") /\ (run[s] = NoRun <=> run[s].at = "off")
    BY DEF ScreensInv, CaptureInv, RunsAre
  <1>. QED  BY <1>1, <1>2, <1>3, <1>4

\* Everything of a share ends.
LEMMA FinishIs ==
  ASSUME ScreensInv, NEW s \in Sharers, Finish(s), UNCHANGED <<seated, shares, watch, watching>>,
         CaptureInv'
  PROVE  ScreensInv'
  <1>1. run' = [run EXCEPT ![s] = NoRun] /\ wires' = LetGo(wires, run[s].wire)  BY DEF Finish
  <1>2. run'[s] = NoRun /\ \A t \in Sharers : t # s => run'[t] = run[t]  BY <1>1, RunIs
  <1>3. run'[s].wire = 0  BY <1>2, NoRunIs
  <1>. QED  BY <1>1, <1>2, <1>3, LetGoShareIs

LEMMA PressStep ==
  ASSUME ScreensInv, NEW s \in Sharers, PressShare(s)
  PROVE  ScreensInv'
  <1>1. CaptureInv'  BY CapturePress DEF ScreensInv
  <1>. QED  BY <1>1, FinishIs DEF PressShare

LEMMA StopStep ==
  ASSUME ScreensInv, NEW s \in Sharers, StopSharing(s)
  PROVE  ScreensInv'
  <1>1. CaptureInv'
    <2>1. events' \in events..MaxEvents  BY EventsGoOn DEF ScreensInv, StopSharing
    <2>. QED  BY <2>1, CaptureFinishes DEF ScreensInv, StopSharing, Finish
  <1>. QED  BY <1>1, FinishIs DEF StopSharing

\* A share ends of itself.
LEMMA ShareEnds ==
  ASSUME ScreensInv, NEW s \in Sharers, Finish(s), UNCHANGED <<seated, shares, watch, asks, picking, watching>>,
         Event \/ UNCHANGED events
  PROVE  ScreensInv'
  <1>1. CaptureInv'
    <2>1. events' \in events..MaxEvents  BY EventsGoOn DEF ScreensInv
    <2>. QED  BY <2>1, CaptureFinishes DEF ScreensInv, Finish
  <1>. QED  BY <1>1, FinishIs

LEMMA NoTokenStep ==
  ASSUME ScreensInv, NEW s \in Sharers, NoToken(s)
  PROVE  ScreensInv'
  BY ShareEnds DEF NoToken

\* A share is as it was but for what its encoder does, or for its tries.
LEMMA CaptureWith ==
  ASSUME ScreensInv, NEW s \in Sharers, NEW r \in RunSet, run' = [run EXCEPT ![s] = r],
         UNCHANGED <<asks, picking, capturing>>, Event \/ UNCHANGED events,
         run[s] # NoRun, r.n = run[s].n, r.at # "off", r.wire # 0 <=> r.at = "wire"
  PROVE  CaptureInv' /\ run'[s] = r /\ \A t \in Sharers : t # s => run'[t] = run[t]
  <1>1. run' \in [Sharers -> RunSet] /\ run'[s] = r /\ \A t \in Sharers : t # s => run'[t] = run[t]
    BY RunIs
  <1>2. events' \in events..MaxEvents  BY EventsGoOn DEF ScreensInv
  <1>3. CaptureInv  BY DEF ScreensInv
  <1>4. \A t \in Sharers :
           \/ run'[t] = run[t]
           \/ /\ run[t] # NoRun /\ run'[t].n = run[t].n
              /\ run'[t].at # "off" /\ (run'[t].wire # 0 <=> run'[t].at = "wire")
    BY <1>1
  <1>5. CaptureInv'  BY ONLY <1>1, <1>2, <1>3, <1>4, RunGoesOn, UNCHANGED <<asks, picking, capturing>>
  <1>. QED  BY <1>1, <1>5

LEMMA EncoderStep ==
  ASSUME ScreensInv, NEW s \in Sharers, EncoderFails(s)
  PROVE  ScreensInv'
  <1>1. /\ run[s].enc # "none" /\ Event /\ UNCHANGED <<seated, shares, watch, asks, picking, watching>>
        /\ \/ Finish(s)
           \/ \E enc \in {"none", "key"} :
                run' = [run EXCEPT ![s].enc = enc] /\ UNCHANGED <<wires, capturing>>
    BY DEF EncoderFails
  <1>2. run[s] # NoRun  BY <1>1, NoRunIs
  <1>3. ASSUME NEW enc \in {"none", "key"}, run' = [run EXCEPT ![s].enc = enc], UNCHANGED <<wires, capturing>>
        PROVE  ScreensInv'
    <2>. DEFINE r == [run[s] EXCEPT !.enc = enc]
    <2>1. r \in RunSet /\ r.n = run[s].n /\ r.at = run[s].at /\ r.wire = run[s].wire /\ r.wanted = run[s].wanted
      <3>1. run[s] \in RunSet  BY RunIs
      <3>. QED  BY <3>1 DEF RunSet
    <2>2. run' = [run EXCEPT ![s] = r]  BY <1>3
    <2>. HIDE DEF r
    <2>3. run[s] # NoRun /\ r.at # "off" /\ (r.wire # 0 <=> r.at = "wire")  BY <1>2, <2>1, RunIs
    <2>4. UNCHANGED <<asks, picking, capturing>> /\ (Event \/ UNCHANGED events)  BY <1>1, <1>3
    <2>5. CaptureInv' /\ run'[s] = r /\ \A t \in Sharers : t # s => run'[t] = run[t]
      BY ONLY ScreensInv, s \in Sharers, <2>1, <2>2, <2>3, <2>4, CaptureWith
    <2>6. \A t \in Sharers : run'[t].wire = run[t].wire /\ run'[t].wanted = run[t].wanted
      BY <2>1, <2>5
    <2>7. UNCHANGED <<seated, shares, watch, wires, watching>>  BY <1>1, <1>3
    <2>. QED  BY ONLY ScreensInv, <2>5, <2>6, <2>7, RunOnlyIs
  <1>. QED  BY <1>1, <1>3, ShareEnds

\* The socket of a share is closed: it is tried again, or the share ends.
LEMMA ShareClosedIs ==
  ASSUME ScreensInv, NEW s \in Sharers, NEW why, ShareClosed(s, why), run[s].wire # 0,
         UNCHANGED <<seated, shares, watch, asks, picking, watching, events>>
  PROVE  ScreensInv'
  <1>1. CASE why = "dropped" /\ run[s].tries < Retries
    <2>1. /\ run' = [run EXCEPT ![s].at = "token", ![s].wire = 0, ![s].tries = @ + 1]
          /\ wires' = LetGo(wires, run[s].wire) /\ UNCHANGED capturing
      BY <1>1 DEF ShareClosed
    <2>. DEFINE r == [run[s] EXCEPT !.at = "token", !.wire = 0, !.tries = run[s].tries + 1]
    <2>2. run[s] \in RunSet /\ run[s] # NoRun /\ run[s].tries + 1 \in 0..Retries
      BY <1>1, RunIs, NoRunIs, ScreensAssumption
    <2>3. r \in RunSet /\ r.n = run[s].n /\ r.at = "token" /\ r.wire = 0
      BY <2>2 DEF RunSet
    <2>4. run' = [run EXCEPT ![s] = r]  BY <2>1
    <2>. HIDE DEF r
    <2>5. CaptureInv' /\ run'[s] = r /\ \A t \in Sharers : t # s => run'[t] = run[t]
      BY <2>1, <2>2, <2>3, <2>4, CaptureWith
    <2>6. run'[s].wire = 0  BY <2>3, <2>5
    <2>. QED  BY <2>1, <2>5, <2>6, LetGoShareIs
  <1>2. CASE ~(why = "dropped" /\ run[s].tries < Retries)
    <2>1. Finish(s)  BY <1>2 DEF ShareClosed
    <2>. QED  BY <2>1, ShareEnds
  <1>. QED  BY <1>1, <1>2

LEMMA ShareSilentStep ==
  ASSUME ScreensInv, NEW s \in Sharers, ShareSilent(s)
  PROVE  ScreensInv'
  BY ShareClosedIs DEF ShareSilent

LEMMA PickerStep ==
  ASSUME ScreensInv, NEW a \in asks, PickerClosed(a) \/ Picked(a)
  PROVE  ScreensInv'
  <1>1. CaptureInv'  BY CapturePickerClosed, CapturePicked DEF ScreensInv
  <1>2. run' = run /\ UNCHANGED <<seated, shares, watch, wires, watching>>  BY DEF PickerClosed, Picked
  <1>. QED  BY <1>1, <1>2, RunOnlyIs

LEMMA MadeStep ==
  ASSUME ScreensInv, NEW a \in asks, NEW able \in BOOLEAN, Made(a, able)
  PROVE  ScreensInv'
  <1>1. CaptureInv'  BY CaptureMade DEF ScreensInv
  <1>2. UNCHANGED <<seated, shares, watch, wires, watching>>  BY DEF Made
  <1>3. \A t \in Sharers : run'[t].wire = run[t].wire /\ run'[t].wanted = run[t].wanted
    <2>1. CASE picking[a.s] = a.n /\ able
      <3>. DEFINE new == [NoRun EXCEPT !.n = a.n, !.at = "token"]
      <3>1. run' = [run EXCEPT ![a.s] = new]  BY <2>1 DEF Made
      <3>2. new.wire = NoRun.wire /\ new.wanted = NoRun.wanted  BY DEF NoRun
      <3>. HIDE DEF new
      <3>3. a.s \in Sharers /\ a.n # 0  BY DEF ScreensInv, CaptureInv, SharingTypes, AskSet
      <3>4. run[a.s] = NoRun  BY <2>1, <3>3 DEF ScreensInv, CaptureInv, AsksAre
      <3>5. run'[a.s] = new /\ \A t \in Sharers : t # a.s => run'[t] = run[t]  BY <3>1, <3>3, RunIs
      <3>. QED  BY <3>2, <3>4, <3>5
    <2>2. CASE ~(picking[a.s] = a.n /\ able)
      <3>1. run' = run  BY <2>2 DEF Made
      <3>. QED  BY <3>1
    <2>. QED  BY <2>1, <2>2
  <1>. QED  BY <1>1, <1>2, <1>3, RunOnlyIs

\* A share dials its socket.
LEMMA ShareConnectsStep ==
  ASSUME ScreensInv, NEW s \in Sharers, ShareConnects(s)
  PROVE  ScreensInv'
  <1>. DEFINE w == Dialled(s, Nobody)
              n == Len(wires) + 1
              c == Dialling(Board, w)
              r == [run[s] EXCEPT !.at = "wire", !.wire = n]
  <1>1. /\ run[s].at = "token" /\ run' = [run EXCEPT ![s].at = "wire", ![s].wire = n]
        /\ wires' = Append(wires, w)
        /\ UNCHANGED <<seated, shares, watch, asks, picking, capturing, watching, events>>
    BY DEF ShareConnects
  <1>2. w \in Wire /\ WireOK(w) /\ w.who = s /\ w.page = "opening" /\ w.at = "dialled"
    BY ScreensAssumption, DialledIs
  <1>3. Steady(Board, {}, {}, {}) /\ wires \in Seq(Wire) /\ n \in Nat \ {0}
    <2>1. Steady(Board, {}, {}, {})  BY DEF ScreensInv
    <2>2. wires \in Seq(Wire)  BY <2>1, BoardIs, BoardFields DEF Steady
    <2>. QED  BY <2>1, <2>2, LenProperties
  <1>. HIDE DEF w
  <1>4. /\ Steady(c, {}, {}, {}) /\ c.shares = shares /\ c.watch = watch /\ c.wires = Append(wires, w)
        /\ DOMAIN c.wires = DOMAIN wires \union {n} /\ n \notin DOMAIN wires
        /\ c.wires[n] = w /\ \A k \in DOMAIN wires : c.wires[k] = wires[k]
    <2>1. Board.wires = wires /\ Board.shares = shares /\ Board.watch = watch  BY BoardFields
    <2>. HIDE DEF c
    <2>2. c = Dialling(Board, w)  BY DEF c
    <2>. QED  BY <1>2, <1>3, <2>1, <2>2, DiallingSteady
  <1>. HIDE DEF c
  <1>5. Holds(c) /\ wires' = c.wires  BY <1>1, <1>4 DEF Holds
  <1>. HIDE DEF n
  <1>6. /\ run[s] # NoRun /\ r \in RunSet /\ r.n = run[s].n /\ r.at = "wire" /\ r.wire = n
        /\ r.wanted = run[s].wanted /\ run[s].wire = 0
    <2>1. run[s] \in RunSet /\ run[s] # NoRun /\ run[s].wire = 0  BY <1>1, RunIs, NoRunIs
    <2>. QED  BY <1>3, <2>1 DEF RunSet
  <1>7. run' = [run EXCEPT ![s] = r]  BY <1>1
  <1>. HIDE DEF r
  <1>8. CaptureInv' /\ run'[s] = r /\ \A t \in Sharers : t # s => run'[t] = run[t]
    BY <1>1, <1>3, <1>6, <1>7, CaptureWith
  <1>9. view' = view /\ shown' = shown /\ Watcher \notin Sharers  BY <1>1, ScreensAssumption DEF watching
  <1>10. WindowsAre'
    <2>0. WindowsAre  BY DEF ScreensInv
    <2>1. \A t \in Sharers : run'[t].wire # 0 =>
             /\ run'[t].wire \in DOMAIN wires' /\ wires'[run'[t].wire].who = t
             /\ wires'[run'[t].wire].page # "gone"
      BY <1>2, <1>4, <1>5, <1>6, <1>8, <2>0 DEF WindowsAre
    <2>2. view'.wire # 0 =>
             /\ view'.wire \in DOMAIN wires' /\ wires'[view'.wire].who = Watcher
             /\ wires'[view'.wire].page # "gone"
      BY <1>4, <1>5, <1>9, <2>0 DEF WindowsAre
    <2>3. \A j \in DOMAIN wires' : wires'[j].page # "gone" =>
             \/ wires'[j].who \in Sharers /\ run'[wires'[j].who].wire = j
             \/ wires'[j].who = Watcher /\ view'.wire = j
      <3>1. ASSUME NEW j \in DOMAIN wires, wires[j].page # "gone"
            PROVE  \/ wires[j].who \in Sharers /\ run'[wires[j].who].wire = j
                   \/ wires[j].who = Watcher /\ view'.wire = j
        <4>1. j # 0  BY <1>3, LenProperties
        <4>2. wires[j].who # s  BY <1>6, <1>9, <2>0, <3>1, <4>1 DEF WindowsAre
        <4>. QED  BY <1>8, <1>9, <2>0, <3>1, <4>2 DEF WindowsAre
      <3>. QED  BY <1>2, <1>4, <1>5, <1>6, <1>8, <3>1
    <2>. QED  BY <2>1, <2>2, <2>3 DEF WindowsAre
  <1>11. ViewIs'  BY <1>1, ViewKept DEF ScreensInv
  <1>12. Steady(Board, {}, {}, {})'
    <2>1. \A t \in Sharers : run'[t].wanted = run[t].wanted  BY <1>6, <1>8
    <2>. QED  BY <1>1, <1>4, <1>5, <1>9, <2>1, SteadyStep
  <1>13. seated' \subseteq Sharers \union {Watcher}  BY <1>1 DEF ScreensInv
  <1>. QED  BY <1>8, <1>10, <1>11, <1>12, <1>13 DEF ScreensInv

\* A share's encoder makes a frame, or there is nothing to make it for.
LEMMA EncodedIs ==
  ASSUME NEW b, NEW Q, NEW r, NEW force, Steady(b, {}, {}, Q), r \in RunSet, force \in BOOLEAN,
         r.wire # 0 => r.wire \in DOMAIN b.wires /\ b.wires[r.wire].who \in Sharers
  PROVE  /\ Encoded(b, r, force).run \in RunSet
         /\ Encoded(b, r, force).run.n = r.n /\ Encoded(b, r, force).run.at = r.at
         /\ Encoded(b, r, force).run.wire = r.wire /\ Encoded(b, r, force).run.wanted = r.wanted
         /\ Steady(Encoded(b, r, force).board, {}, {}, Q)
         /\ SameEnds(b, Encoded(b, r, force).board) /\ SameWords(b, Encoded(b, r, force).board)
  <1>. DEFINE e == Encoded(b, r, force)
              key == force \/ r.enc # "on"
              x == [r EXCEPT !.enc = "on"]
              f == FrameAt(b, r.wire, key, FALSE)
              d == IF Runs(b, r.wire) THEN f ELSE b
  <1>1. e = [run |-> r, board |-> b] \/ (r.wire # 0 /\ e = [run |-> x, board |-> d])
    BY DEF Encoded
  <1>2. SameEnds(b, b) /\ SameWords(b, b)  BY SameEndsItself, SameWordsItself
  <1>3. CASE e = [run |-> r, board |-> b]
    <2>. HIDE DEF e
    <2>1. e.run = r /\ e.board = b  BY <1>3
    <2>2. /\ e.run \in RunSet /\ e.run.n = r.n /\ e.run.at = r.at /\ e.run.wire = r.wire
          /\ e.run.wanted = r.wanted /\ Steady(e.board, {}, {}, Q)
          /\ SameEnds(b, e.board) /\ SameWords(b, e.board)
      BY <1>2, <2>1
    <2>. QED  BY <2>2 DEF e
  <1>4. CASE r.wire # 0 /\ e = [run |-> x, board |-> d]
    <2>. HIDE DEF e
    <2>1. x \in RunSet /\ x.n = r.n /\ x.at = r.at /\ x.wire = r.wire /\ x.wanted = r.wanted
      BY DEF RunSet
    <2>2. Steady(f, {}, {}, Q) /\ SameEnds(b, f) /\ SameWords(b, f)
      <3>1. r.wire \in DOMAIN b.wires /\ b.wires[r.wire].who \in Sharers  BY <1>4
      <3>2. key \in BOOLEAN /\ FALSE \in BOOLEAN  OBVIOUS
      <3>. HIDE DEF key
      <3>. QED  BY <3>1, <3>2, FrameAtSteady
    <2>. HIDE DEF f
    <2>3. Steady(d, {}, {}, Q) /\ SameEnds(b, d) /\ SameWords(b, d)  BY <1>2, <2>2
    <2>. HIDE DEF d
    <2>. HIDE DEF x
    <2>4. e.run = x /\ e.board = d  BY <1>4
    <2>5. /\ e.run \in RunSet /\ e.run.n = r.n /\ e.run.at = r.at /\ e.run.wire = r.wire
          /\ e.run.wanted = r.wanted /\ Steady(e.board, {}, {}, Q)
          /\ SameEnds(b, e.board) /\ SameWords(b, e.board)
      BY <2>1, <2>3, <2>4
    <2>. QED  BY <2>5 DEF e
  <1>. QED  BY <1>1, <1>3, <1>4

\* A picture goes, or the server drops one.
LEMMA RunAndBoard ==
  ASSUME ScreensInv, NEW s \in Sharers, NEW r, NEW b, r \in RunSet, run[s] # NoRun,
         run' = [run EXCEPT ![s] = r], r.n = run[s].n, r.at = run[s].at, r.wire = run[s].wire,
         r.wanted = run[s].wanted, Steady(b, {}, {}, {}), SameEnds(Board, b), Holds(b),
         UNCHANGED <<seated, asks, picking, capturing, watching>>, Event \/ UNCHANGED events
  PROVE  ScreensInv'
  <1>1. r.at # "off" /\ (r.wire # 0 <=> r.at = "wire")  BY RunIs
  <1>2. UNCHANGED <<asks, picking, capturing>>  OBVIOUS
  <1>3. CaptureInv' /\ run'[s] = r /\ \A t \in Sharers : t # s => run'[t] = run[t]
    BY <1>1, <1>2, CaptureWith
  <1>4. \A t \in Sharers : run'[t].wire = run[t].wire /\ run'[t].wanted = run[t].wanted  BY <1>3
  <1>5. /\ DOMAIN b.wires = DOMAIN wires
        /\ \A k \in DOMAIN wires : b.wires[k].page = wires[k].page /\ b.wires[k].who = wires[k].who
    BY OnlyEnds, BoardFields
  <1>. QED  BY <1>3, <1>4, <1>5, RunStepIs

LEMMA PictureStep ==
  ASSUME ScreensInv, NEW s \in Sharers, NEW due \in BOOLEAN, Picture(s, due)
  PROVE  ScreensInv'
  <1>. DEFINE r == [run[s] EXCEPT !.latest = TRUE]
              e == Encoded(Board, r, due)
  <1>1. /\ run[s] # NoRun /\ run' = [run EXCEPT ![s] = e.run] /\ Holds(e.board)
        /\ UNCHANGED <<seated, asks, picking, capturing, watching, events>>
    BY DEF Picture
  <1>2. r \in RunSet /\ r.n = run[s].n /\ r.at = run[s].at /\ r.wire = run[s].wire /\ r.wanted = run[s].wanted
    <2>1. run[s] \in RunSet  BY RunIs
    <2>. QED  BY <2>1 DEF RunSet
  <1>. HIDE DEF r
  <1>3. Steady(Board, {}, {}, {})  BY DEF ScreensInv
  <1>4. r.wire # 0 => r.wire \in DOMAIN Board.wires /\ Board.wires[r.wire].who \in Sharers
    BY <1>2, BoardFields DEF ScreensInv, WindowsAre
  <1>5. /\ e.run \in RunSet /\ e.run.n = r.n /\ e.run.at = r.at /\ e.run.wire = r.wire
        /\ e.run.wanted = r.wanted /\ Steady(e.board, {}, {}, {}) /\ SameEnds(Board, e.board)
    BY <1>2, <1>3, <1>4, EncodedIs
  <1>. HIDE DEF e
  <1>. QED  BY <1>1, <1>2, <1>5, RunAndBoard

LEMMA OverCeilingStep ==
  ASSUME ScreensInv, NEW s \in Sharers, OverCeiling(s)
  PROVE  ScreensInv'
  <1>. DEFINE k == run[s].wire
              r == [run[s] EXCEPT !.enc = "on"]
              d == FrameAt(Board, k, FALSE, TRUE)
  <1>1. /\ run[s].enc # "none" /\ k # 0 /\ run' = [run EXCEPT ![s] = r] /\ Holds(d) /\ Event
        /\ UNCHANGED <<seated, asks, picking, capturing, watching>>
    BY DEF OverCeiling
  <1>2. r \in RunSet /\ r.n = run[s].n /\ r.at = run[s].at /\ r.wire = run[s].wire /\ r.wanted = run[s].wanted
    <2>1. run[s] \in RunSet  BY RunIs
    <2>. QED  BY <2>1 DEF RunSet
  <1>. HIDE DEF r
  <1>3. Steady(Board, {}, {}, {})  BY DEF ScreensInv
  <1>4. k \in DOMAIN Board.wires /\ Board.wires[k].who \in Sharers
    BY <1>1, BoardFields DEF ScreensInv, WindowsAre
  <1>5. Steady(d, {}, {}, {}) /\ SameEnds(Board, d)
    <2>. HIDE DEF k
    <2>1. TRUE \in BOOLEAN /\ FALSE \in BOOLEAN  OBVIOUS
    <2>. QED  BY <1>3, <1>4, <2>1, FrameAtSteady
  <1>6. run[s] # NoRun  BY <1>1, NoRunIs
  <1>. HIDE DEF d
  <1>. QED  BY <1>1, <1>2, <1>5, <1>6, RunAndBoard

\* What a share hears on its socket.
LEMMA ShareHearsStep ==
  ASSUME ScreensInv, NEW s \in Sharers, ShareHears(s)
  PROVE  ScreensInv'
  <1>. DEFINE k == run[s].wire
              m == Head(wires[k].says)
              r == Heeding(run[s], m)
              b == At(Board, k, Heard(wires[k]))
              e == Encoded(b, r, TRUE)
  <1>0. /\ WindowsAre /\ Watcher \notin Sharers /\ Steady(Board, {}, {}, {})
    BY ScreensAssumption DEF ScreensInv
  <1>c. [Board EXCEPT !.wires[k].says = Tail(@)] = b
    <2>1. Board \in Boards /\ Board.wires = wires  BY <1>0, BoardFields DEF Steady
    <2>. QED  BY <2>1 DEF At, Heard, Boards
  <1>. HIDE DEF b
  <1>h. /\ k # 0 /\ wires[k].says # <<>> /\ UNCHANGED <<seated, asks, picking, watching>>
        /\ \/ m.op = "close" /\ ShareClosed(s, m.why) /\ UNCHANGED <<shares, watch, events>>
           \/ /\ m.op # "close" /\ UNCHANGED <<capturing, events>>
              /\ run' = [run EXCEPT ![s] = e.run] /\ Holds(e.board)
           \/ /\ m.op # "close" /\ UNCHANGED capturing /\ (Event \/ UNCHANGED events)
              /\ run' = [run EXCEPT ![s] = r] /\ Holds(b)
    <2>1. k = run[s].wire /\ m = Head(wires[k].says) /\ r = Heeding(run[s], m) /\ e = Encoded(b, r, TRUE)
      OBVIOUS
    <2>. HIDE DEF e, r, m, k
    <2>2. b = [Board EXCEPT !.wires[k].says = Tail(@)]  BY <1>c
    <2>. QED  BY ONLY ShareHears(s), <2>1, <2>2, Zenon DEF ShareHears
  <1>. HIDE DEF e
  <1>1. k # 0 /\ wires[k].says # <<>> /\ UNCHANGED <<seated, asks, picking, watching>>
    BY <1>h
  <1>2. k \in DOMAIN wires /\ wires[k].who = s  BY <1>0, <1>1 DEF WindowsAre
  <1>3. /\ Board \in Boards /\ Board.wires = wires /\ k \in DOMAIN Board.wires
        /\ wires[k] \in Wire /\ WireOK(wires[k])
    BY <1>2, InvIs
  <1>4. CASE m.op = "close"
    <2>1. ShareClosed(s, m.why) /\ UNCHANGED <<shares, watch, events>>
      BY <1>4, <1>h
    <2>. QED  BY <1>1, <2>1, ShareClosedIs
  <1>5. CASE m.op # "close"
    <2>1. wires[k].says \in Seq(Told) /\ m \in Told /\ Tail(wires[k].says) \in Seq(Told)
      BY <1>1, <1>3, WireIs, HeadTailProperties
    <2>2. /\ r \in RunSet /\ r.n = run[s].n /\ r.at = run[s].at /\ r.wire = k
          /\ r.wanted = IF m.op = "want" THEN m.on ELSE run[s].wanted
      <3>1. run[s] \in RunSet /\ 0 \in 0..Retries  BY RunIs, ScreensAssumption
      <3>2. m.op = "want" => m.on \in BOOLEAN  BY <2>1, ToldKinds
      <3>. HIDE DEF m
      <3>3. CASE m.op = "want"
        <4>. DEFINE enc == IF m.on THEN run[s].enc ELSE "none"
        <4>1. r = [run[s] EXCEPT !.tries = 0, !.wanted = m.on, !.enc = enc]  BY <3>3 DEF Heeding
        <4>2. enc \in {"none", "on", "key"}  BY <3>1 DEF RunSet
        <4>. HIDE DEF enc
        <4>. QED  BY <3>1, <3>2, <3>3, <4>1, <4>2 DEF RunSet
      <3>4. CASE m.op # "want"
        <4>. DEFINE enc == IF run[s].enc = "on" THEN "key" ELSE run[s].enc
        <4>1. r = [run[s] EXCEPT !.enc = enc]  BY <3>4 DEF Heeding
        <4>2. enc \in {"none", "on", "key"}  BY <3>1 DEF RunSet
        <4>. HIDE DEF enc
        <4>. QED  BY <3>1, <3>4, <4>1, <4>2 DEF RunSet
      <3>. QED  BY <3>3, <3>4
    <2>. HIDE DEF r
    <2>4. PICK x, d : /\ run' = [run EXCEPT ![s] = x] /\ Holds(d) /\ UNCHANGED capturing
                      /\ Event \/ UNCHANGED events
                      /\ (x = r /\ d = b) \/ (x = e.run /\ d = e.board)
      <3>. HIDE DEF m
      <3>1. \/ run' = [run EXCEPT ![s] = e.run] /\ Holds(e.board) /\ UNCHANGED capturing /\ UNCHANGED events
            \/ run' = [run EXCEPT ![s] = r] /\ Holds(b) /\ UNCHANGED capturing /\ (Event \/ UNCHANGED events)
        BY <1>5, <1>h
      <3>. QED  BY <3>1, Zenon
    <2>5. Steady(b, {}, {}, {s})
      <3>1. Head(Board.wires[k].says).op # "close" /\ Board.wires[k].says # <<>> /\ Board.wires[k].who = s
        BY <1>1, <1>2, <1>3, <1>5
      <3>2. Steady(At(Board, k, Heard(Board.wires[k])), {}, {}, {Board.wires[k].who})
        BY <1>0, <1>3, <3>1, HeardSteady
      <3>. QED  BY <1>2, <1>3, <3>2 DEF b
    <2>6. /\ Heard(wires[k]) \in Wire /\ SameEnd(wires[k], Heard(wires[k]))
          /\ Heard(wires[k]).says = Tail(wires[k].says)
      BY <1>1, <1>3, <1>5, HeardIs
    <2>7. /\ DOMAIN b.wires = DOMAIN wires /\ b.wires[k] = Heard(wires[k])
          /\ b.shares = shares /\ b.watch = watch
          /\ \A j \in DOMAIN wires : j # k => b.wires[j] = wires[j]
      BY <1>3, <2>6, AtIs, BoardFields DEF b
    <2>8. /\ e.run \in RunSet /\ e.run.n = r.n /\ e.run.at = r.at /\ e.run.wire = r.wire
          /\ e.run.wanted = r.wanted /\ Steady(e.board, {}, {}, {s})
          /\ SameEnds(b, e.board) /\ SameWords(b, e.board)
      <3>1. r.wire # 0 => r.wire \in DOMAIN b.wires /\ b.wires[r.wire].who \in Sharers
        BY <1>2, <2>2, <2>6, <2>7 DEF SameEnd
      <3>2. TRUE \in BOOLEAN /\ s \in Sharers /\ r \in RunSet  BY <2>2
      <3>. DEFINE Q == {s}
      <3>3. Steady(b, {}, {}, Q)  BY <2>5
      <3>. HIDE DEF Q
      <3>4. ASSUME NEW on, on \in BOOLEAN
            PROVE  /\ Encoded(b, r, on).run \in RunSet
                   /\ Encoded(b, r, on).run.n = r.n /\ Encoded(b, r, on).run.at = r.at
                   /\ Encoded(b, r, on).run.wire = r.wire /\ Encoded(b, r, on).run.wanted = r.wanted
                   /\ Steady(Encoded(b, r, on).board, {}, {}, Q)
                   /\ SameEnds(b, Encoded(b, r, on).board) /\ SameWords(b, Encoded(b, r, on).board)
        BY ONLY <3>1, <3>2, <3>3, <3>4, EncodedIs
      <3>5. /\ e.run \in RunSet /\ e.run.n = r.n /\ e.run.at = r.at /\ e.run.wire = r.wire
            /\ e.run.wanted = r.wanted /\ Steady(e.board, {}, {}, Q)
            /\ SameEnds(b, e.board) /\ SameWords(b, e.board)
        BY <3>2, <3>4, Zenon DEF e
      <3>. QED  BY <3>5 DEF Q
    <2>9. /\ x \in RunSet /\ x.n = run[s].n /\ x.at = run[s].at /\ x.wire = k /\ x.wanted = r.wanted
          /\ Steady(d, {}, {}, {s}) /\ SameEnds(b, d) /\ SameWords(b, d)
      BY <2>2, <2>4, <2>5, <2>8, SameEndsItself, SameWordsItself
    <2>10. /\ DOMAIN d.wires = DOMAIN wires
           /\ \A j \in DOMAIN wires : d.wires[j].page = wires[j].page /\ d.wires[j].who = wires[j].who
                                      /\ d.wires[j].cut = wires[j].cut
      <3>1. \A j \in DOMAIN wires : SameEnd(wires[j], b.wires[j])  BY <2>6, <2>7 DEF SameEnd
      <3>. QED  BY <2>7, <2>9, <3>1 DEF SameEnds, SameEnd
    <2>11. CaptureInv' /\ run'[s] = x /\ \A t \in Sharers : t # s => run'[t] = run[t]
      <3>1. x.at # "off" /\ (x.wire # 0 <=> x.at = "wire") /\ run[s] # NoRun  BY <1>1, <2>9, RunIs
      <3>2. UNCHANGED <<asks, picking, capturing>> /\ (Event \/ UNCHANGED events)  BY <1>1, <2>4
      <3>3. x \in RunSet /\ x.n = run[s].n /\ run' = [run EXCEPT ![s] = x]  BY <2>4, <2>9
      <3>. QED  BY ONLY ScreensInv, s \in Sharers, <3>1, <3>2, <3>3, CaptureWith
    <2>12. view' = view /\ shown' = shown /\ wires' = d.wires  BY <1>1, <2>4 DEF watching, Holds
    <2>13. WindowsAre'
      <3>1. \A t \in Sharers : run'[t].wire = run[t].wire  BY <2>9, <2>11
      <3>2. view'.wire = view.wire /\ DOMAIN wires' = DOMAIN wires
            /\ \A j \in DOMAIN wires : /\ wires'[j].page = "gone" <=> wires[j].page = "gone"
                                       /\ wires[j].page # "gone" => wires'[j].who = wires[j].who
        BY <2>10, <2>12
      <3>. QED  BY <1>0, <3>1, <3>2, WindowsKept
    <2>14. ViewIs' /\ seated' \subseteq Sharers \union {Watcher}  BY <1>1, ViewKept DEF ScreensInv
    <2>15. LET says == d.wires[d.shares[s].wire].says IN
           d.shares[s].wire # 0 /\ Listens(d.wires[d.shares[s].wire]) =>
             \/ LastIs(says, "want", Want(d.shares[s].wanted))
             \/ NoneOf(says, "want") /\ run'[s].wanted = d.shares[s].wanted
      <3>. DEFINE W == shares[s].wanted
      <3>0. d.shares[s].wire = shares[s].wire /\ d.shares[s].wanted = W
        BY <2>7, <2>9 DEF SameWords
      <3>1. SUFFICES ASSUME shares[s].wire # 0, Listens(d.wires[shares[s].wire])
                     PROVE  \/ LastIs(d.wires[k].says, "want", Want(W))
                            \/ NoneOf(d.wires[k].says, "want") /\ x.wanted = W
        <4>1. shares[s].wire # 0 /\ Listens(d.wires[shares[s].wire]) => shares[s].wire = k
          <5>1. shares[s].wire # 0 => shares[s].wire \in DOMAIN wires /\ wires[shares[s].wire].who = s
            BY <1>0, PlaceIs, BoardFields
          <5>. QED  BY <1>0, <2>10, <5>1 DEF Listens, WindowsAre
        <4>. QED  BY <2>11, <3>0, <4>1
      <3>2. shares[s].wire = k /\ Listens(wires[k])
        <4>1. shares[s].wire \in DOMAIN wires /\ wires[shares[s].wire].who = s
          BY <1>0, <3>1, PlaceIs, BoardFields
        <4>. QED  BY <1>0, <2>10, <3>1, <4>1 DEF Listens, WindowsAre
      <3>3. SharerTold(Board, s)  BY <1>0 DEF Steady, AllTold
      <3>4. LastIs(wires[k].says, "want", Want(W)) \/ (NoneOf(wires[k].says, "want") /\ run[s].wanted = W)
        BY <1>1, <3>2, <3>3, BoardFields DEF SharerTold
      <3>5. W \in BOOLEAN  BY <1>3, BoardIs, BoardFields
      <3>6. \/ LastIs(Tail(wires[k].says), "want", Want(W))
            \/ NoneOf(Tail(wires[k].says), "want") /\ x.wanted = W
        <4>1. /\ \A op, y : LastIs(wires[k].says, op, y) =>
                   \/ LastIs(Tail(wires[k].says), op, y)
                   \/ NoneOf(Tail(wires[k].says), op) /\ m = y /\ m.op = op
              /\ \A op : NoneOf(wires[k].says, op) => NoneOf(Tail(wires[k].says), op) /\ m.op # op
          BY <1>1, <2>1, Taken
        <4>2. m = Want(W) => m.on = W  BY <3>5, ToldIs
        <4>3. x.wanted = IF m.op = "want" THEN m.on ELSE run[s].wanted  BY <2>2, <2>9
        <4>. HIDE DEF W
        <4>. HIDE DEF m
        <4>. QED  BY <3>4, <4>1, <4>2, <4>3
      <3>7. d.wires[k].says = Tail(wires[k].says) \/ d.wires[k].says = Append(Tail(wires[k].says), Keyframe)
        <4>1. b.wires[k].says = Tail(wires[k].says) /\ k \in DOMAIN b.wires  BY <1>2, <2>6, <2>7
        <4>2. d.wires[k].says = b.wires[k].says \/ d.wires[k].says = Append(b.wires[k].says, Keyframe)
          BY <2>9, <4>1 DEF SameWords
        <4>. HIDE DEF k
        <4>. QED  BY ONLY <4>1, <4>2
      <3>8. /\ LastIs(Tail(wires[k].says), "want", Want(W)) =>
                 LastIs(Append(Tail(wires[k].says), Keyframe), "want", Want(W))
            /\ NoneOf(Tail(wires[k].says), "want") => NoneOf(Append(Tail(wires[k].says), Keyframe), "want")
        <4>. DEFINE q == Tail(wires[k].says)
        <4>1. Keyframe \in Told /\ Keyframe.op # "want" /\ q \in Seq(Told)  BY <2>1, ToldIs
        <4>. HIDE DEF q
        <4>2. /\ \A op, y : Keyframe.op # op /\ LastIs(q, op, y) => LastIs(Append(q, Keyframe), op, y)
              /\ \A op : Keyframe.op # op /\ NoneOf(q, op) => NoneOf(Append(q, Keyframe), op)
          BY <4>1, Appended
        <4>3. /\ LastIs(q, "want", Want(W)) => LastIs(Append(q, Keyframe), "want", Want(W))
              /\ NoneOf(q, "want") => NoneOf(Append(q, Keyframe), "want")
          BY <4>1, <4>2
        <4>. QED  BY <4>3 DEF q
      <3>. HIDE DEF W
      <3>. QED  BY <3>6, <3>7, <3>8
    <2>16. Steady(Board, {}, {}, {})'
      <3>. DEFINE Q == {s}
      <3>1. Steady(d, {}, {}, Q) /\ Holds(d)  BY <2>4, <2>9
      <3>2. Watcher \notin Q => WatcherTold(d)  BY <2>9 DEF Steady, AllTold
      <3>3. \A j \in DOMAIN d.wires :
              d.wires[j].at = "on" /\ ~d.wires[j].over /\ d.wires[j].who \in seated => d.wires[j].who \in seated'
        BY <1>1
      <3>4. \A t \in Sharers \ Q : d.shares[t].wire # 0 /\ Listens(d.wires[d.shares[t].wire]) =>
              run'[t].wanted = run[t].wanted
        BY <2>11
      <3>5. \A t \in Sharers \intersect Q : d.shares[t].wire # 0 /\ Listens(d.wires[d.shares[t].wire]) =>
              \/ LastIs(d.wires[d.shares[t].wire].says, "want", Want(d.shares[t].wanted))
              \/ /\ NoneOf(d.wires[d.shares[t].wire].says, "want")
                 /\ run'[t].wanted = d.shares[t].wanted
        BY <2>15
      <3>6. /\ d.watch.wire # 0 /\ Listens(d.wires[d.watch.wire]) /\ NoneOf(d.wires[d.watch.wire].up, "watch")
            /\ d.watch.codec \/ d.watch.target = Nobody
            => IF Watcher \notin Q
               THEN view'.target = view.target /\ (shown'.status = "ended" <=> shown.status = "ended")
               ELSE \/ LastIs(d.wires[d.watch.wire].says, "showing", Showing(d.watch.target))
                    \/ /\ NoneOf(d.wires[d.watch.wire].says, "showing")
                       /\ IF shown'.status = "ended" THEN d.watch.target = Nobody
                          ELSE d.watch.target = view'.target
        BY <1>0, <2>12
      <3>. HIDE DEF Q
      <3>. QED  BY ONLY <3>1, <3>2, <3>3, <3>4, <3>5, <3>6, SteadyThen
    <2>. QED  BY <2>11, <2>13, <2>14, <2>16 DEF ScreensInv
  <1>. QED  BY <1>4, <1>5

-----------------------------------------------------------------------------
(* The steps of the window that watches *)

\* The only socket of the watcher that its window listens on is the one it uses.
LEMMA ListensOnItsOwn ==
  ASSUME ScreensInv
  PROVE  /\ watch.wire # 0 => /\ watch.wire \in DOMAIN wires
                              /\ wires[watch.wire].page # "gone" => watch.wire = view.wire
         /\ view.wire # 0 => view.wire \in DOMAIN wires /\ wires[view.wire].who = Watcher
                             /\ wires[view.wire].page # "gone"
  <1>1. Steady(Board, {}, {}, {}) /\ WindowsAre /\ Watcher \notin Sharers
    BY ScreensAssumption DEF ScreensInv
  <1>2. watch.wire # 0 => watch.wire \in DOMAIN wires /\ wires[watch.wire].who = Watcher
    BY <1>1, PlaceIs, BoardFields
  <1>. QED  BY <1>1, <1>2 DEF WindowsAre

LEMMA ViewFields ==
  ASSUME ScreensInv
  PROVE  /\ view \in ViewSet /\ shown \in ShownSet /\ presses \in Seq(Sharers)
         /\ view.at \in {"off", "token", "wire"} /\ view.wire \in Nat /\ view.target \in Sharers \union {Nobody}
         /\ view.tries \in 0..Retries /\ view.dec \in BOOLEAN /\ view.waiting \in BOOLEAN
         /\ shown.status \in {"none", "connecting", "waiting", "showing", "ended", "lost"}
         /\ shown.target \in Sharers \union {Nobody}
         /\ view.wire # 0 <=> view.at = "wire"
         /\ view = NoView <=> view.at = "off"
         /\ view.at # "off" => view.target # Nobody
         /\ shown.status = "ended" => ~view.dec
  <1>1. ViewIs  BY DEF ScreensInv
  <1>2. view \in ViewSet /\ shown \in ShownSet /\ presses \in Seq(Sharers)  BY <1>1 DEF ViewIs
  <1>3. /\ view.at \in {"off", "token", "wire"} /\ view.wire \in Nat /\ view.target \in Sharers \union {Nobody}
        /\ view.tries \in 0..Retries /\ view.dec \in BOOLEAN /\ view.waiting \in BOOLEAN
    BY <1>2 DEF ViewSet
  <1>4. /\ shown.status \in {"none", "connecting", "waiting", "showing", "ended", "lost"}
        /\ shown.target \in Sharers \union {Nobody}
    BY <1>2 DEF ShownSet
  <1>. QED  BY <1>1, <1>2, <1>3, <1>4 DEF ViewIs

LEMMA NoViewIs ==
  /\ NoView \in ViewSet /\ NoView.at = "off" /\ NoView.wire = 0 /\ ~NoView.dec
  /\ \A t \in Sharers \union {Nobody}, status \in {"none", "connecting", "waiting", "showing", "ended", "lost"} :
       [status |-> status, target |-> t] \in ShownSet
  <1>1. 0 \in 0..Retries  BY ScreensAssumption
  <1>. QED  BY <1>1 DEF NoView, ViewSet, ShownSet

\* What a window does with its watching goes with the board it leaves.
LEMMA ViewStepIs ==
  ASSUME ScreensInv, NEW b, NEW Q, Q \in {{}, {Watcher}}, Steady(b, {}, {}, Q), Holds(b),
         UNCHANGED <<seated, sharing>>, events' \in events..MaxEvents, ViewIs', WindowsAre',
         /\ b.watch.wire # 0 /\ Listens(b.wires[b.watch.wire]) /\ NoneOf(b.wires[b.watch.wire].up, "watch")
         /\ b.watch.codec \/ b.watch.target = Nobody
         => IF Watcher \notin Q
            THEN view'.target = view.target /\ (shown'.status = "ended" <=> shown.status = "ended")
            ELSE \/ LastIs(b.wires[b.watch.wire].says, "showing", Showing(b.watch.target))
                 \/ /\ NoneOf(b.wires[b.watch.wire].says, "showing")
                    /\ IF shown'.status = "ended" THEN b.watch.target = Nobody
                       ELSE b.watch.target = view'.target
  PROVE  ScreensInv'
  <1>1. CaptureInv'  BY CaptureKept DEF ScreensInv
  <1>2. run' = run /\ seated' = seated /\ Watcher \notin Sharers  BY ScreensAssumption DEF sharing
  <1>3. Steady(Board, {}, {}, {})'
    <2>1. Steady(b, {}, {}, Q) /\ Holds(b)  OBVIOUS
    <2>2. Watcher \notin Q => WatcherTold(b)  BY DEF Steady, AllTold
    <2>3. \A j \in DOMAIN b.wires :
             b.wires[j].at = "on" /\ ~b.wires[j].over /\ b.wires[j].who \in seated => b.wires[j].who \in seated'
      BY <1>2
    <2>4. \A t \in Sharers \ Q : b.shares[t].wire # 0 /\ Listens(b.wires[b.shares[t].wire]) =>
             run'[t].wanted = run[t].wanted
      BY <1>2
    <2>5. \A t \in Sharers \intersect Q : b.shares[t].wire # 0 /\ Listens(b.wires[b.shares[t].wire]) =>
             \/ LastIs(b.wires[b.shares[t].wire].says, "want", Want(b.shares[t].wanted))
             \/ /\ NoneOf(b.wires[b.shares[t].wire].says, "want")
                /\ run'[t].wanted = b.shares[t].wanted
      BY <1>2
    <2>6. /\ b.watch.wire # 0 /\ Listens(b.wires[b.watch.wire]) /\ NoneOf(b.wires[b.watch.wire].up, "watch")
          /\ b.watch.codec \/ b.watch.target = Nobody
          => IF Watcher \notin Q
             THEN view'.target = view.target /\ (shown'.status = "ended" <=> shown.status = "ended")
             ELSE \/ LastIs(b.wires[b.watch.wire].says, "showing", Showing(b.watch.target))
                  \/ /\ NoneOf(b.wires[b.watch.wire].says, "showing")
                     /\ IF shown'.status = "ended" THEN b.watch.target = Nobody
                        ELSE b.watch.target = view'.target
      OBVIOUS
    <2>. QED  BY ONLY <2>1, <2>2, <2>3, <2>4, <2>5, <2>6, SteadyThen
  <1>4. seated' \subseteq Sharers \union {Watcher}  BY <1>2 DEF ScreensInv
  <1>. QED  BY <1>1, <1>3, <1>4 DEF ScreensInv

\* The window lets its socket go.
LEMMA LetGoWatchIs ==
  ASSUME ScreensInv, wires' = LetGo(wires, view.wire), UNCHANGED <<seated, shares, watch, sharing>>,
         events' \in events..MaxEvents, ViewIs', view'.wire = 0
  PROVE  ScreensInv'
  <1>. DEFINE k == view.wire
              b == LetGone(Board, k)
              Q == {Watcher}
  <1>0. WindowsAre /\ run' = run /\ Watcher \notin Sharers /\ Steady(Board, {}, {}, {})
    BY ScreensAssumption DEF ScreensInv, sharing
  <1>1. k # 0 => k \in DOMAIN wires /\ wires[k].who = Watcher  BY <1>0 DEF WindowsAre
  <1>2. /\ Steady(b, {}, {}, {}) /\ b.shares = shares /\ b.watch = watch /\ b.wires = LetGo(wires, k)
        /\ DOMAIN b.wires = DOMAIN wires
        /\ \A j \in DOMAIN wires : j # k => b.wires[j] = wires[j]
        /\ k # 0 => b.wires[k].page = "gone"
    BY <1>1, LetGoneIs
  <1>. HIDE DEF b
  <1>3. Holds(b) /\ wires' = b.wires  BY <1>2 DEF Holds
  <1>4. \A j \in DOMAIN wires : b.wires[j].page # "gone" =>
           j # k /\ b.wires[j] = wires[j] /\ wires[j].who # Watcher
    <2>1. ASSUME NEW j \in DOMAIN wires, b.wires[j].page # "gone"
          PROVE  j # k /\ b.wires[j] = wires[j] /\ wires[j].who # Watcher
      <3>1. j # 0  BY <1>0, BoardIs, BoardFields DEF Steady
      <3>2. j # k /\ b.wires[j] = wires[j]  BY <1>2, <2>1, <3>1
      <3>3. wires[j].who # Watcher  BY <1>0, <2>1, <3>2 DEF WindowsAre
      <3>. QED  BY <3>2, <3>3
    <2>. QED  BY <2>1
  <1>5. WindowsAre'
    <2>1. \A t \in Sharers : run'[t].wire # 0 =>
             /\ run'[t].wire \in DOMAIN wires' /\ wires'[run'[t].wire].who = t
             /\ wires'[run'[t].wire].page # "gone"
      BY <1>0, <1>1, <1>2, <1>3 DEF WindowsAre
    <2>2. \A j \in DOMAIN wires' : wires'[j].page # "gone" =>
             \/ wires'[j].who \in Sharers /\ run'[wires'[j].who].wire = j
             \/ wires'[j].who = Watcher /\ view'.wire = j
      BY <1>0, <1>2, <1>3, <1>4 DEF WindowsAre
    <2>. QED  BY <2>1, <2>2 DEF WindowsAre
  <1>6. ~(b.watch.wire # 0 /\ Listens(b.wires[b.watch.wire]))
    <2>1. b.watch.wire # 0 => b.watch.wire \in DOMAIN wires /\ wires[b.watch.wire].who = Watcher
      BY <1>0, <1>2, PlaceIs, BoardFields
    <2>. QED  BY <1>4, <2>1 DEF Listens
  <1>7. Steady(b, {}, {}, Q)  BY <1>2, SteadyMono
  <1>8. Q \in {{}, {Watcher}}  OBVIOUS
  <1>9. /\ b.watch.wire # 0 /\ Listens(b.wires[b.watch.wire]) /\ NoneOf(b.wires[b.watch.wire].up, "watch")
        /\ b.watch.codec \/ b.watch.target = Nobody
        => IF Watcher \notin Q
           THEN view'.target = view.target /\ (shown'.status = "ended" <=> shown.status = "ended")
           ELSE \/ LastIs(b.wires[b.watch.wire].says, "showing", Showing(b.watch.target))
                \/ /\ NoneOf(b.wires[b.watch.wire].says, "showing")
                   /\ IF shown'.status = "ended" THEN b.watch.target = Nobody
                      ELSE b.watch.target = view'.target
    BY <1>6
  <1>10. ScreensInv /\ UNCHANGED <<seated, sharing>> /\ events' \in events..MaxEvents /\ ViewIs'
    OBVIOUS
  <1>. HIDE DEF Q
  <1>. QED  BY ONLY <1>3, <1>5, <1>7, <1>8, <1>9, <1>10, ViewStepIs

\* Something of the socket it uses changes, that is neither its ends nor what it is told.
LEMMA WatchWireIs ==
  ASSUME ScreensInv, NEW v, NEW k, k = view.wire, k # 0, v \in Wire, WireOK(v),
         v.who = wires[k].who, v.page = wires[k].page, v.at = wires[k].at, v.cut = wires[k].cut,
         v.over <=> wires[k].over, v.says = wires[k].says,
         NoneOf(v.up, "watch") => NoneOf(wires[k].up, "watch"),
         wires' = [wires EXCEPT ![k] = v], UNCHANGED <<seated, shares, watch, sharing>>,
         events' \in events..MaxEvents, ViewIs', view'.wire = view.wire,
         Listens(v) /\ NoneOf(v.up, "watch") =>
           view'.target = view.target /\ (shown'.status = "ended" <=> shown.status = "ended")
  PROVE  ScreensInv'
  <1>. DEFINE b == At(Board, k, v)
              Q == {}
  <1>0. k \in DOMAIN wires /\ Steady(Board, {}, {}, {}) /\ WindowsAre /\ run' = run
    BY ListensOnItsOwn DEF ScreensInv, sharing
  <1>1. Board \in Boards /\ Board.wires = wires  BY <1>0, InvIs
  <1>2. /\ DOMAIN b.wires = DOMAIN wires /\ b.wires[k] = v /\ b.shares = shares /\ b.watch = watch
        /\ \A j \in DOMAIN wires : j # k => b.wires[j] = wires[j]
    BY <1>0, <1>1, AtIs, BoardFields
  <1>3. b.wires = [wires EXCEPT ![k] = v]  BY <1>1 DEF At, Boards
  <1>4. Steady(b, {}, {}, {})
    <2>1. /\ v.who = Board.wires[k].who /\ v.page = Board.wires[k].page /\ v.at = Board.wires[k].at
          /\ v.cut = Board.wires[k].cut /\ (v.over <=> Board.wires[k].over) /\ v.says = Board.wires[k].says
          /\ NoneOf(v.up, "watch") => NoneOf(Board.wires[k].up, "watch")
          /\ k \in DOMAIN Board.wires /\ v \in Wire /\ WireOK(v)
      BY <1>0, <1>1
    <2>. QED  BY ONLY <1>0, <2>1, WindowSteady
  <1>. HIDE DEF b
  <1>5. Holds(b) /\ wires' = b.wires  BY <1>2, <1>3 DEF Holds
  <1>6. WindowsAre'
    <2>1. /\ DOMAIN wires' = DOMAIN wires
          /\ \A j \in DOMAIN wires : /\ wires'[j].page = "gone" <=> wires[j].page = "gone"
                                     /\ wires[j].page # "gone" => wires'[j].who = wires[j].who
      BY <1>2, <1>5
    <2>2. \A s \in Sharers : run'[s].wire = run[s].wire  BY <1>0
    <2>. QED  BY <1>0, <2>1, <2>2, WindowsKept
  <1>7. b.watch.wire # 0 /\ Listens(b.wires[b.watch.wire]) => b.watch.wire = k
    <2>1. b.watch.wire # 0 => b.watch.wire \in DOMAIN wires
                              /\ (wires[b.watch.wire].page # "gone" => b.watch.wire = k)
      BY <1>2, ListensOnItsOwn
    <2>. QED  BY <1>2, <2>1 DEF Listens
  <1>8. /\ b.watch.wire # 0 /\ Listens(b.wires[b.watch.wire]) /\ NoneOf(b.wires[b.watch.wire].up, "watch")
        /\ b.watch.codec \/ b.watch.target = Nobody
        => IF Watcher \notin Q
           THEN view'.target = view.target /\ (shown'.status = "ended" <=> shown.status = "ended")
           ELSE \/ LastIs(b.wires[b.watch.wire].says, "showing", Showing(b.watch.target))
                \/ /\ NoneOf(b.wires[b.watch.wire].says, "showing")
                   /\ IF shown'.status = "ended" THEN b.watch.target = Nobody
                      ELSE b.watch.target = view'.target
    BY <1>2, <1>7
  <1>9. Q \in {{}, {Watcher}} /\ Steady(b, {}, {}, Q)  BY <1>4
  <1>10. ScreensInv /\ UNCHANGED <<seated, sharing>> /\ events' \in events..MaxEvents /\ ViewIs'
    OBVIOUS
  <1>. HIDE DEF Q
  <1>. QED  BY ONLY <1>5, <1>6, <1>8, <1>9, <1>10, ViewStepIs

\* No socket changes.
LEMMA ViewOnlyIs ==
  ASSUME ScreensInv, UNCHANGED <<seated, shares, watch, wires, sharing>>,
         events' \in events..MaxEvents, ViewIs', view'.wire = view.wire,
         view.wire # 0 => view'.target = view.target /\ (shown'.status = "ended" <=> shown.status = "ended")
  PROVE  ScreensInv'
  <1>. DEFINE Q == {}
  <1>1. Steady(Board, {}, {}, {}) /\ Holds(Board) /\ run' = run /\ wires' = wires
    BY DEF ScreensInv, Holds, Board, sharing
  <1>2. WindowsAre'  BY <1>1, WindowsKept DEF ScreensInv
  <1>3. Board.watch.wire # 0 /\ Listens(Board.wires[Board.watch.wire]) => view.wire # 0
    BY ListensOnItsOwn, BoardFields DEF Listens
  <1>4. /\ Board.watch.wire # 0 /\ Listens(Board.wires[Board.watch.wire])
        /\ NoneOf(Board.wires[Board.watch.wire].up, "watch")
        /\ Board.watch.codec \/ Board.watch.target = Nobody
        => IF Watcher \notin Q
           THEN view'.target = view.target /\ (shown'.status = "ended" <=> shown.status = "ended")
           ELSE \/ LastIs(Board.wires[Board.watch.wire].says, "showing", Showing(Board.watch.target))
                \/ /\ NoneOf(Board.wires[Board.watch.wire].says, "showing")
                   /\ IF shown'.status = "ended" THEN Board.watch.target = Nobody
                      ELSE Board.watch.target = view'.target
    BY <1>3
  <1>5. Q \in {{}, {Watcher}} /\ Steady(Board, {}, {}, Q)  BY <1>1
  <1>6. ScreensInv /\ UNCHANGED <<seated, sharing>> /\ events' \in events..MaxEvents /\ ViewIs'
    OBVIOUS
  <1>. HIDE DEF Q
  <1>. QED  BY ONLY <1>1, <1>2, <1>4, <1>5, <1>6, ViewStepIs

\* The watching is over.
LEMMA WatchFinishesIs ==
  ASSUME ScreensInv, NEW status, status \in {"none", "ended", "lost"}, WatchFinishes(status),
         UNCHANGED <<seated, shares, watch, sharing, presses>>, events' \in events..MaxEvents
  PROVE  ScreensInv'
  <1>. DEFINE t == IF status = "none" THEN Nobody ELSE shown.target
  <1>1. /\ wires' = LetGo(wires, view.wire) /\ view' = NoView /\ shown' = [status |-> status, target |-> t]
        /\ presses' = presses
    BY DEF WatchFinishes, Shows
  <1>2. t \in Sharers \union {Nobody} /\ presses \in Seq(Sharers)  BY ViewFields
  <1>. HIDE DEF t
  <1>3. shown' \in ShownSet  BY <1>1, <1>2, NoViewIs
  <1>4. ViewIs' /\ view'.wire = 0
    BY <1>1, <1>2, <1>3, NoViewIs DEF ViewIs
  <1>. QED  BY <1>1, <1>4, LetGoWatchIs

LEMMA StopWatchingStep ==
  ASSUME ScreensInv, StopWatching
  PROVE  ScreensInv'
  <1>1. WatchFinishes("none") /\ UNCHANGED <<seated, shares, watch, sharing, presses>> /\ Event
    BY DEF StopWatching
  <1>2. events' \in events..MaxEvents  BY <1>1, EventsGoOn DEF ScreensInv
  <1>. QED  BY <1>1, <1>2, WatchFinishesIs

LEMMA WatchNoTokenStep ==
  ASSUME ScreensInv, WatchNoToken
  PROVE  ScreensInv'
  <1>1. WatchFinishes("ended") /\ UNCHANGED <<seated, shares, watch, sharing, presses>> /\ Event
    BY DEF WatchNoToken
  <1>2. events' \in events..MaxEvents  BY <1>1, EventsGoOn DEF ScreensInv
  <1>. QED  BY <1>1, <1>2, WatchFinishesIs

\* Its socket was closed.
LEMMA WatchClosedIs ==
  ASSUME ScreensInv, NEW why, WatchClosed(why), view.wire # 0,
         UNCHANGED <<seated, shares, watch, sharing, presses, events>>
  PROVE  ScreensInv'
  <1>. DEFINE again == why = "dropped" /\ view.tries < Retries
              leaves == view.tries = 0 /\ why \in {"ended", "replaced"}
              status == IF why \in {"dropped", "busy"} \/ view.tries > 0 THEN "lost" ELSE "ended"
              v == [view EXCEPT !.at = "token", !.wire = 0, !.tries = @ + 1, !.waiting = TRUE]
  <1>0. events' \in events..MaxEvents
    BY EventsGoOn DEF ScreensInv
  <1>1. /\ again => view' = v /\ wires' = LetGo(wires, view.wire) /\ UNCHANGED shown
        /\ leaves /\ ~again => WatchFinishes("none")
        /\ ~again /\ ~leaves => WatchFinishes(status)
    <2>1. ~(again /\ leaves)  OBVIOUS
    <2>. QED  BY <2>1 DEF WatchClosed
  <1>2. CASE again
    <2>1. /\ view.at = "wire" /\ view.target # Nobody /\ view \in ViewSet /\ view.tries \in 0..Retries
          /\ shown \in ShownSet /\ presses \in Seq(Sharers) /\ view.dec \in BOOLEAN
          /\ shown.status = "ended" => ~view.dec
      BY ViewFields
    <2>2. view.tries + 1 \in 0..Retries  BY <1>2, <2>1, ScreensAssumption
    <2>3. v \in ViewSet /\ v.at = "token" /\ v.wire = 0 /\ v.target = view.target /\ (v.dec <=> view.dec)
      BY <2>1, <2>2 DEF ViewSet
    <2>. HIDE DEF v
    <2>4. view' = v /\ wires' = LetGo(wires, view.wire) /\ shown' = shown /\ presses' = presses
      BY <1>1, <1>2
    <2>5. v # NoView  BY <2>3, NoViewIs
    <2>6. ViewIs'  BY <2>1, <2>3, <2>4, <2>5 DEF ViewIs
    <2>. QED  BY <1>0, <2>3, <2>4, <2>6, LetGoWatchIs
  <1>3. CASE ~again
    <2>1. status \in {"none", "ended", "lost"} /\ "none" \in {"none", "ended", "lost"}  OBVIOUS
    <2>. HIDE DEF status, again, leaves
    <2>2. WatchFinishes("none") \/ WatchFinishes(status)  BY <1>1, <1>3
    <2>. QED  BY <1>0, <2>1, <2>2, WatchFinishesIs
  <1>. QED  BY <1>2, <1>3

LEMMA WatchSilentStep ==
  ASSUME ScreensInv, WatchSilent
  PROVE  ScreensInv'
  BY WatchClosedIs DEF WatchSilent

\* The player answers.
LEMMA PlayerAnswersStep ==
  ASSUME ScreensInv, PlayerAnswers
  PROVE  ScreensInv'
  <1>. DEFINE t == Head(presses)
              v == [NoView EXCEPT !.at = "token", !.target = t]
  <1>1. /\ presses # <<>> /\ presses' = Tail(presses) /\ wires' = LetGo(wires, view.wire) /\ view' = v
        /\ shown' = [status |-> "connecting", target |-> t]
        /\ UNCHANGED <<seated, shares, watch, sharing, events>>
    BY DEF PlayerAnswers, Shows
  <1>2. presses \in Seq(Sharers)  BY ViewFields
  <1>3. t \in Sharers /\ Tail(presses) \in Seq(Sharers)  BY <1>1, <1>2, HeadTailProperties
  <1>. HIDE DEF t
  <1>4. v \in ViewSet /\ v.at = "token" /\ v.wire = 0 /\ v.target = t
    BY <1>3, NoViewIs DEF ViewSet
  <1>. HIDE DEF v
  <1>5. v # NoView /\ t # Nobody  BY <1>3, <1>4, NoViewIs, ScreensAssumption
  <1>6. shown' \in ShownSet /\ shown'.status = "connecting"  BY <1>1, <1>3, NoViewIs
  <1>7. ViewIs'  BY <1>1, <1>3, <1>4, <1>5, <1>6 DEF ViewIs
  <1>8. events' \in events..MaxEvents  BY <1>1, EventsGoOn DEF ScreensInv
  <1>9. view'.wire = 0  BY <1>1, <1>4
  <1>. QED  BY <1>1, <1>7, <1>8, <1>9, LetGoWatchIs

\* The window dials its socket.
LEMMA WatchConnectsStep ==
  ASSUME ScreensInv, WatchConnects
  PROVE  ScreensInv'
  <1>. DEFINE w == Dialled(Watcher, view.target)
              n == Len(wires) + 1
              c == Dialling(Board, w)
              v == [view EXCEPT !.at = "wire", !.wire = n]
              Q == {}
  <1>1. /\ view.at = "token" /\ view' = v
        /\ wires' = Append(wires, w)
        /\ UNCHANGED <<seated, shares, watch, sharing, presses, shown, events>>
    BY DEF WatchConnects
  <1>f. /\ view \in ViewSet /\ shown \in ShownSet /\ presses \in Seq(Sharers)
        /\ view.target \in Sharers /\ view.wire = 0 /\ view.dec \in BOOLEAN
        /\ shown.status = "ended" => ~view.dec
    <2>1. view.target \in Sharers \union {Nobody} /\ view.target # Nobody /\ ~(view.wire # 0)
      BY <1>1, ViewFields
    <2>. QED  BY <2>1, ViewFields
  <1>2. w \in Wire /\ WireOK(w) /\ w.who = Watcher /\ w.page = "opening" /\ w.at = "dialled"
    BY <1>f, DialledIs
  <1>3. Steady(Board, {}, {}, {}) /\ wires \in Seq(Wire) /\ n \in Nat \ {0}
    <2>1. Steady(Board, {}, {}, {})  BY DEF ScreensInv
    <2>2. wires \in Seq(Wire)  BY <2>1, BoardIs, BoardFields DEF Steady
    <2>. QED  BY <2>1, <2>2, LenProperties
  <1>. HIDE DEF w
  <1>4. /\ Steady(c, {}, {}, {}) /\ c.shares = shares /\ c.watch = watch /\ c.wires = Append(wires, w)
        /\ DOMAIN c.wires = DOMAIN wires \union {n} /\ n \notin DOMAIN wires
        /\ c.wires[n] = w /\ \A k \in DOMAIN wires : c.wires[k] = wires[k]
    <2>1. Board.wires = wires /\ Board.shares = shares /\ Board.watch = watch  BY BoardFields
    <2>. HIDE DEF c
    <2>2. c = Dialling(Board, w)  BY DEF c
    <2>. QED  BY <1>2, <1>3, <2>1, <2>2, DiallingSteady
  <1>. HIDE DEF c
  <1>5. Holds(c) /\ wires' = c.wires  BY <1>1, <1>4 DEF Holds
  <1>. HIDE DEF n
  <1>6. /\ v \in ViewSet /\ v.at = "wire" /\ v.wire = n /\ v.target = view.target /\ (v.dec <=> view.dec)
    BY <1>3, <1>f DEF ViewSet
  <1>. HIDE DEF v
  <1>7. run' = run /\ shown' = shown /\ presses' = presses /\ view' = v /\ v # NoView /\ view.target # Nobody
        /\ Watcher \notin Sharers
    BY <1>1, <1>6, <1>f, NoViewIs, ScreensAssumption DEF sharing
  <1>8. ViewIs'  BY <1>3, <1>6, <1>7, <1>f DEF ViewIs
  <1>10. WindowsAre'
    <2>0. WindowsAre  BY DEF ScreensInv
    <2>1. \A t \in Sharers : run'[t].wire # 0 =>
             /\ run'[t].wire \in DOMAIN wires' /\ wires'[run'[t].wire].who = t
             /\ wires'[run'[t].wire].page # "gone"
      BY <1>4, <1>5, <1>7, <2>0 DEF WindowsAre
    <2>2. view'.wire # 0 =>
             /\ view'.wire \in DOMAIN wires' /\ wires'[view'.wire].who = Watcher
             /\ wires'[view'.wire].page # "gone"
      BY <1>2, <1>4, <1>5, <1>6, <1>7
    <2>3. \A j \in DOMAIN wires' : wires'[j].page # "gone" =>
             \/ wires'[j].who \in Sharers /\ run'[wires'[j].who].wire = j
             \/ wires'[j].who = Watcher /\ view'.wire = j
      <3>1. ASSUME NEW j \in DOMAIN wires, wires[j].page # "gone"
            PROVE  wires[j].who \in Sharers /\ run'[wires[j].who].wire = j
        <4>1. j # 0  BY <1>3, LenProperties
        <4>. QED  BY <1>7, <1>f, <2>0, <3>1, <4>1 DEF WindowsAre
      <3>. QED  BY <1>2, <1>4, <1>5, <1>6, <1>7, <3>1
    <2>. QED  BY <2>1, <2>2, <2>3 DEF WindowsAre
  <1>11. Q \in {{}, {Watcher}} /\ Steady(c, {}, {}, Q)  BY <1>4
  <1>12. ScreensInv /\ UNCHANGED <<seated, sharing>> /\ events' \in events..MaxEvents
    BY <1>1, EventsGoOn DEF ScreensInv
  <1>13. view'.target = view.target /\ (shown'.status = "ended" <=> shown.status = "ended")
    BY <1>6, <1>7
  <1>14. /\ c.watch.wire # 0 /\ Listens(c.wires[c.watch.wire]) /\ NoneOf(c.wires[c.watch.wire].up, "watch")
         /\ c.watch.codec \/ c.watch.target = Nobody
         => IF Watcher \notin Q
            THEN view'.target = view.target /\ (shown'.status = "ended" <=> shown.status = "ended")
            ELSE \/ LastIs(c.wires[c.watch.wire].says, "showing", Showing(c.watch.target))
                 \/ /\ NoneOf(c.wires[c.watch.wire].says, "showing")
                    /\ IF shown'.status = "ended" THEN c.watch.target = Nobody
                       ELSE c.watch.target = view'.target
    BY <1>13
  <1>. HIDE DEF Q
  <1>. QED  BY ONLY <1>5, <1>8, <1>10, <1>11, <1>12, <1>14, ViewStepIs

\* startWatching, and the next share: a window that watches switches.
LEMMA PressWatchStep ==
  ASSUME ScreensInv, NEW t \in Sharers, PressWatch(t)
  PROVE  ScreensInv'
  <1>. DEFINE k == view.wire
              v == [view EXCEPT !.target = t, !.waiting = TRUE, !.dec = FALSE]
              u == [v EXCEPT !.at = "token", !.wire = 0]
              m == [op |-> "watch", target |-> t]
              w == wires[k]
  <1>1. /\ Event /\ UNCHANGED <<seated, shares, watch, sharing>>
        /\ view # NoView => SwitchTo(t) /\ UNCHANGED presses
        /\ view = NoView => presses' = Append(presses, t) /\ UNCHANGED <<view, shown, wires>>
    BY DEF PressWatch
  <1>2. events' \in events..MaxEvents  BY <1>1, EventsGoOn DEF ScreensInv
  <1>3. CASE view = NoView
    <2>1. presses' \in Seq(Sharers)  BY <1>1, <1>3, ViewFields, AppendProperties
    <2>2. ViewIs /\ UNCHANGED <<view, shown, wires>>  BY <1>1, <1>3 DEF ScreensInv
    <2>3. ViewIs'  BY <2>1, <2>2 DEF ViewIs
    <2>. QED  BY <1>1, <1>2, <2>2, <2>3, ViewOnlyIs
  <1>4. CASE view # NoView
    <2>1. view \in ViewSet /\ presses \in Seq(Sharers) /\ view.at \in {"token", "wire"}
          /\ (k # 0 <=> view.at = "wire") /\ k \in Nat
      BY <1>4, ViewFields
    <2>2. v \in ViewSet /\ v.at = view.at /\ v.wire = k /\ v.target = t /\ ~v.dec
      BY <2>1 DEF ViewSet
    <2>. HIDE DEF v
    <2>3. u \in ViewSet /\ u.at = "token" /\ u.wire = 0 /\ u.target = t /\ ~u.dec
      BY <2>2 DEF ViewSet
    <2>. HIDE DEF u
    <2>4. /\ shown' = [status |-> "connecting", target |-> t] /\ presses' = presses
          /\ k # 0 /\ w.page = "opening" => view' = u /\ wires' = LetGo(wires, k)
          /\ ~(k # 0 /\ w.page = "opening") => view' = v /\ wires' = Sent(wires, k, m)
      BY <1>1, <1>4 DEF SwitchTo, Shows, u, v
    <2>5. shown' \in ShownSet /\ shown'.status = "connecting"  BY <2>4, NoViewIs
    <2>6. t # Nobody /\ u # NoView /\ v # NoView  BY <2>1, <2>2, <2>3, NoViewIs, ScreensAssumption
    <2>7. CASE k # 0 /\ w.page = "opening"
      <3>1. ViewIs'  BY <2>1, <2>3, <2>4, <2>5, <2>6, <2>7 DEF ViewIs
      <3>. QED  BY <1>1, <1>2, <2>3, <2>4, <2>7, <3>1, LetGoWatchIs
    <2>8. CASE ~(k # 0 /\ w.page = "opening")
      <3>1. view' = v /\ wires' = Sent(wires, k, m)  BY <2>4, <2>8
      <3>2. ViewIs'  BY <2>1, <2>2, <2>4, <2>5, <2>6, <3>1 DEF ViewIs
      <3>3. CASE k = 0
        <4>1. wires' = wires  BY <3>1, <3>3 DEF Sent
        <4>2. view'.wire = view.wire  BY <2>2, <3>1
        <4>. QED  BY <1>1, <1>2, <3>2, <3>3, <4>1, <4>2, ViewOnlyIs
      <3>4. CASE k # 0
        <4>1. k \in DOMAIN wires /\ w.page # "gone"  BY <3>4, ListensOnItsOwn
        <4>2. w \in Wire /\ WireOK(w) /\ wires \in Seq(Wire)
          BY <4>1, InvIs, BoardIs
        <4>3. w.page = "open"  BY <2>8, <3>4, <4>1, <4>2, WireIs
        <4>4. view'.wire = view.wire  BY <2>2, <3>1
        <4>5. CASE w.cut
          <5>1. wires' = [wires EXCEPT ![k] = w]
            <6>1. wires' = wires  BY <3>1, <3>4, <4>5 DEF Sent
            <6>2. wires = [wires EXCEPT ![k] = w]  BY <4>1, <4>2
            <6>. QED  BY <6>1, <6>2
          <5>2. ~Listens(w)  BY <4>5 DEF Listens
          <5>3. k = view.wire /\ (w.over <=> w.over) /\ w = wires[k]  OBVIOUS
          <5>. HIDE DEF k, w
          <5>. QED  BY <1>1, <1>2, <3>2, <3>4, <4>2, <4>4, <5>1, <5>2, <5>3, WatchWireIs
        <4>6. CASE ~w.cut
          <5>. DEFINE x == Asking(w, m)
          <5>1. m \in Asked /\ m.op = "watch"  BY DEF Asked
          <5>2. wires' = [wires EXCEPT ![k] = x]
            BY <3>1, <3>4, <4>1, <4>2, <4>3, <4>6 DEF Sent, Asking
          <5>. HIDE DEF m
          <5>3. /\ x \in Wire /\ WireOK(x) /\ x.up = Append(w.up, m)
                /\ x.who = w.who /\ x.page = w.page
                /\ x.at = w.at /\ x.cut = w.cut /\ (x.over <=> w.over)
                /\ x.says = w.says
            BY <4>2, <5>1, AskingIs
          <5>4. w.up \in Seq(Asked)  BY <4>2, WireIs
          <5>5. ~NoneOf(x.up, "watch")  BY <5>1, <5>3, <5>4, Appended
          <5>6. k = view.wire /\ w = wires[k]  OBVIOUS
          <5>. HIDE DEF k, w, x
          <5>. QED  BY <1>1, <1>2, <3>2, <3>4, <4>4, <5>2, <5>3, <5>5, <5>6, WatchWireIs
        <4>. QED  BY <4>5, <4>6
      <3>. QED  BY <3>3, <3>4
    <2>. QED  BY <2>7, <2>8
  <1>. QED  BY <1>3, <1>4

\* A frame comes: it is played, or its place is lost.
LEMMA FrameComesStep ==
  ASSUME ScreensInv, FrameComes
  PROVE  ScreensInv'
  <1>. DEFINE k == view.wire
              w == wires[k]
              f == Head(w.frames)
              x == FrameTaken(w)
              ws == [wires EXCEPT ![k].frames = Tail(@)]
              plays == ~(~view.dec \/ (view.waiting /\ ~f.key))
  <1>1. /\ k # 0 /\ w.frames # <<>>
        /\ \/ ~plays /\ wires' = ws /\ UNCHANGED <<view, shown, events>>
           \/ /\ plays /\ view' = [view EXCEPT !.waiting = FALSE]
              /\ shown' = [status |-> "showing", target |-> shown.target] /\ wires' = ws /\ UNCHANGED events
           \/ /\ plays /\ Event /\ view' = [view EXCEPT !.waiting = TRUE]
              /\ wires' = Sent(ws, k, Keyframe) /\ UNCHANGED shown
        /\ UNCHANGED <<seated, shares, watch, sharing, presses>>
    BY DEF FrameComes, Shows
  <1>2. k \in DOMAIN wires  BY <1>1, ListensOnItsOwn
  <1>3. w \in Wire /\ WireOK(w) /\ wires \in Seq(Wire)
    BY <1>2, InvIs, BoardIs
  <1>4. /\ x \in Wire /\ WireOK(x) /\ SameEnd(w, x) /\ x.says = w.says /\ (x.over <=> w.over)
    BY <1>1, <1>3, FrameTakenIs
  <1>5. /\ x.who = w.who /\ x.page = w.page /\ x.at = w.at /\ x.cut = w.cut /\ x.up = w.up
    BY <1>4 DEF SameEnd
  <1>6. ws = [wires EXCEPT ![k] = x]  BY <1>2, <1>3 DEF FrameTaken
  <1>. HIDE DEF ws
  <1>7. events' \in events..MaxEvents  BY <1>1, EventsGoOn DEF ScreensInv
  <1>8. /\ view \in ViewSet /\ shown \in ShownSet /\ presses \in Seq(Sharers) /\ view.dec \in BOOLEAN
        /\ view.at = "wire" /\ view.target # Nobody /\ shown.target \in Sharers \union {Nobody}
        /\ view # NoView /\ presses' = presses
        /\ shown.status = "ended" => ~view.dec
    BY <1>1, ViewFields
  <1>9. PICK on \in BOOLEAN : view' = [view EXCEPT !.waiting = on] \/ (view' = view /\ on = view.waiting)
    <2>1. TRUE \in BOOLEAN /\ FALSE \in BOOLEAN /\ view.waiting \in BOOLEAN  BY ViewFields
    <2>. HIDE DEF plays
    <2>. QED  BY <1>1, <2>1
  <1>10. view' \in ViewSet /\ view'.wire = k /\ view'.at = "wire" /\ view'.target = view.target
         /\ (view'.dec <=> view.dec)
    BY <1>8, <1>9, <1>1, ViewFields DEF ViewSet
  <1>11. shown' \in ShownSet /\ (shown'.status = "ended" <=> shown.status = "ended")
    <2>1. plays => view.dec  BY <1>8
    <2>. HIDE DEF plays
    <2>2. CASE shown' = shown  BY <1>8, <2>2
    <2>3. CASE plays /\ shown' = [status |-> "showing", target |-> shown.target]
      BY <1>8, <2>1, <2>3, NoViewIs
    <2>. QED  BY <1>1, <2>2, <2>3
  <1>12. ViewIs'
    <2>1. view' # NoView  BY <1>10, NoViewIs
    <2>. QED  BY <1>1, <1>8, <1>10, <1>11, <2>1 DEF ViewIs
  <1>13. /\ k = view.wire /\ k # 0 /\ w = wires[k] /\ view'.wire = view.wire
         /\ UNCHANGED <<seated, shares, watch, sharing>>
    BY <1>1, <1>10
  <1>14. CASE wires' = ws
    <2>. HIDE DEF k, w, x
    <2>. QED  BY <1>4, <1>5, <1>6, <1>7, <1>10, <1>11, <1>12, <1>13, <1>14, WatchWireIs
  <1>15. CASE wires' = Sent(ws, k, Keyframe)
    <2>. DEFINE y == Asking(x, Keyframe)
    <2>1. ws[k] = x /\ k \in DOMAIN ws  BY <1>2, <1>3, <1>6
    <2>2. CASE x.page = "open" /\ ~x.cut
      <3>1. wires' = [ws EXCEPT ![k] = y]
        BY <1>13, <1>15, <2>1, <2>2 DEF Sent, Asking
      <3>2. wires' = [wires EXCEPT ![k] = y]
        BY <1>2, <1>3, <1>6, <3>1
      <3>3. /\ y \in Wire /\ WireOK(y) /\ y.up = Append(x.up, Keyframe)
            /\ y.who = x.who /\ y.page = x.page
            /\ y.at = x.at /\ y.cut = x.cut /\ (y.over <=> x.over)
            /\ y.says = x.says
        BY <1>4, ToldIs, AskingIs
      <3>4. NoneOf(y.up, "watch") => NoneOf(w.up, "watch")
        <4>1. x.up \in Seq(Asked) /\ Keyframe \in Asked  BY <1>4, WireIs, ToldIs
        <4>. QED  BY <1>5, <3>3, <4>1, Appended
      <3>5. /\ y.who = w.who /\ y.page = w.page /\ y.at = w.at /\ y.cut = w.cut /\ (y.over <=> w.over)
            /\ y.says = w.says
        BY <1>4, <1>5, <3>3
      <3>. HIDE DEF k, w, x, y
      <3>. QED  BY <1>7, <1>10, <1>11, <1>12, <1>13, <3>2, <3>3, <3>4, <3>5, WatchWireIs
    <2>3. CASE ~(x.page = "open" /\ ~x.cut)
      <3>1. wires' = [wires EXCEPT ![k] = x]  BY <1>6, <1>13, <1>15, <2>1, <2>3 DEF Sent
      <3>. HIDE DEF k, w, x
      <3>. QED  BY <1>4, <1>5, <1>7, <1>10, <1>11, <1>12, <1>13, <3>1, WatchWireIs
    <2>. QED  BY <2>2, <2>3
  <1>16. wires' = ws \/ wires' = Sent(ws, k, Keyframe)  BY <1>1
  <1>. QED  BY <1>14, <1>15, <1>16

\* What the window hears of its watching.
LEMMA WatchHearsStep ==
  ASSUME ScreensInv, WatchHears
  PROVE  ScreensInv'
  <1>. DEFINE k == view.wire
              m == Head(wires[k].says)
              b == At(Board, k, Heard(wires[k]))
              v == IF m.target = Nobody THEN [view EXCEPT !.tries = 0, !.dec = FALSE]
                   ELSE [view EXCEPT !.tries = 0, !.target = m.target, !.dec = TRUE, !.waiting = TRUE]
              W == watch.target
              Q == {Watcher}
  <1>0. WindowsAre /\ Watcher \notin Sharers /\ Nobody \notin Sharers /\ Steady(Board, {}, {}, {}) /\ 0 \in 0..Retries
    BY ScreensAssumption DEF ScreensInv
  <1>1. /\ k # 0 /\ wires[k].says # <<>>
        /\ UNCHANGED <<seated, shares, watch, sharing, presses, events>>
        /\ m.op = "close" => WatchClosed(m.why)
        /\ m.op # "close" =>
             /\ wires' = [wires EXCEPT ![k].says = Tail(@)] /\ view' = v
             /\ m.target = Nobody => shown' = [status |-> "ended", target |-> shown.target]
             /\ m.target # Nobody =>
                  \/ shown = [status |-> "showing", target |-> m.target] /\ shown' = shown
                  \/ shown' = [status |-> "waiting", target |-> m.target]
    BY DEF WatchHears, Shows
  <1>2. k \in DOMAIN wires /\ wires[k].who = Watcher  BY <1>1, ListensOnItsOwn
  <1>3. /\ Board \in Boards /\ Board.wires = wires /\ k \in DOMAIN Board.wires
        /\ wires[k] \in Wire /\ WireOK(wires[k])
    BY <1>2, InvIs
  <1>4. CASE m.op = "close"
    <2>. HIDE DEF m
    <2>1. WatchClosed(m.why) /\ view.wire # 0  BY <1>1, <1>4
    <2>. QED  BY <1>1, <2>1, WatchClosedIs
  <1>5. CASE m.op # "close"
    <2>1. wires[k].says \in Seq(Told) /\ m \in Told /\ Tail(wires[k].says) \in Seq(Told)
      BY <1>1, <1>3, WireIs, HeadTailProperties
    <2>2. m.op = "showing" /\ m.target \in Sharers \union {Nobody} /\ m = Showing(m.target)
      <3>1. NoneOf(wires[k].says, "want") /\ NoneOf(wires[k].says, "keyframe")
        BY <1>2, <1>3 DEF WireOK
      <3>2. \A op : NoneOf(wires[k].says, op) => m.op # op  BY <1>1, <2>1, Taken
      <3>. HIDE DEF m
      <3>3. m.op # "want" /\ m.op # "keyframe"  BY <3>1, <3>2
      <3>. QED  BY <1>5, <2>1, <3>3, ToldKinds
    <2>3. Steady(b, {}, {}, Q)
      <3>1. Head(Board.wires[k].says).op # "close" /\ Board.wires[k].says # <<>> /\ Board.wires[k].who = Watcher
        BY <1>1, <1>2, <1>3, <1>5
      <3>2. Steady(At(Board, k, Heard(Board.wires[k])), {}, {}, {Board.wires[k].who})
        BY <1>0, <1>3, <3>1, HeardSteady
      <3>. QED  BY <1>2, <1>3, <3>2
    <2>4. /\ Heard(wires[k]) \in Wire /\ SameEnd(wires[k], Heard(wires[k]))
          /\ Heard(wires[k]).says = Tail(wires[k].says)
      BY <1>1, <1>3, <1>5, HeardIs
    <2>5. /\ DOMAIN b.wires = DOMAIN wires /\ b.wires[k] = Heard(wires[k])
          /\ b.shares = shares /\ b.watch = watch
          /\ \A j \in DOMAIN wires : j # k => b.wires[j] = wires[j]
      BY <1>3, <2>4, AtIs, BoardFields
    <2>6. b.wires = [wires EXCEPT ![k].says = Tail(@)]
      BY <1>2, <1>3 DEF At, Heard, Boards
    <2>. HIDE DEF b
    <2>7. Holds(b) /\ wires' = b.wires  BY <1>1, <1>5, <2>5, <2>6 DEF Holds
    <2>8. /\ view \in ViewSet /\ shown \in ShownSet /\ presses \in Seq(Sharers)
          /\ view.at = "wire" /\ view.target # Nobody /\ view.target \in Sharers \union {Nobody}
          /\ shown.target \in Sharers \union {Nobody}
      BY <1>1, ViewFields
    <2>. HIDE DEF m
    <2>9. view' = v  BY <1>1, <1>5
    <2>10. /\ v \in ViewSet /\ v.at = "wire" /\ v.wire = k
           /\ v.target = IF m.target = Nobody THEN view.target ELSE m.target
           /\ m.target = Nobody => ~v.dec
      <3>1. CASE m.target = Nobody  BY <1>0, <2>8, <3>1 DEF ViewSet
      <3>2. CASE m.target # Nobody  BY <1>0, <2>2, <2>8, <3>2 DEF ViewSet
      <3>. QED  BY <3>1, <3>2
    <2>. HIDE DEF v
    <2>11. /\ shown' \in ShownSet /\ presses' = presses
           /\ shown'.status = "ended" <=> m.target = Nobody
      <3>0. presses' = presses  BY <1>1
      <3>1. CASE m.target = Nobody
        <4>1. shown' = [status |-> "ended", target |-> shown.target]  BY <1>1, <1>5, <3>1
        <4>. QED  BY <2>8, <3>0, <3>1, <4>1, NoViewIs
      <3>2. CASE m.target # Nobody
        <4>1. CASE shown' = [status |-> "waiting", target |-> m.target]
          BY <1>1, <2>2, <3>2, <4>1, NoViewIs
        <4>2. CASE shown = [status |-> "showing", target |-> m.target] /\ shown' = shown
          BY <1>1, <2>8, <3>2, <4>2
        <4>. QED  BY <1>1, <1>5, <3>2, <4>1, <4>2
      <3>. QED  BY <3>1, <3>2
    <2>12. v # NoView /\ v.target # Nobody  BY <2>8, <2>10, NoViewIs
    <2>13. ViewIs'  BY <1>1, <2>8, <2>9, <2>10, <2>11, <2>12 DEF ViewIs
    <2>14. WindowsAre'
      <3>1. /\ DOMAIN wires' = DOMAIN wires
            /\ \A j \in DOMAIN wires : /\ wires'[j].page = "gone" <=> wires[j].page = "gone"
                                       /\ wires[j].page # "gone" => wires'[j].who = wires[j].who
        BY <2>4, <2>5, <2>7 DEF SameEnd
      <3>2. \A s \in Sharers : run'[s].wire = run[s].wire  BY <1>1 DEF sharing
      <3>3. view'.wire = view.wire  BY <2>9, <2>10
      <3>. QED  BY <1>0, <3>1, <3>2, <3>3, WindowsKept
    <2>15. /\ b.watch.wire # 0 /\ Listens(b.wires[b.watch.wire]) /\ NoneOf(b.wires[b.watch.wire].up, "watch")
           /\ b.watch.codec \/ b.watch.target = Nobody
           => IF Watcher \notin Q
              THEN view'.target = view.target /\ (shown'.status = "ended" <=> shown.status = "ended")
              ELSE \/ LastIs(b.wires[b.watch.wire].says, "showing", Showing(b.watch.target))
                   \/ /\ NoneOf(b.wires[b.watch.wire].says, "showing")
                      /\ IF shown'.status = "ended" THEN b.watch.target = Nobody
                         ELSE b.watch.target = view'.target
      <3>1. SUFFICES ASSUME watch.wire # 0, Listens(b.wires[watch.wire]), NoneOf(b.wires[watch.wire].up, "watch"),
                            watch.codec \/ watch.target = Nobody
                     PROVE  \/ LastIs(b.wires[watch.wire].says, "showing", Showing(W))
                            \/ /\ NoneOf(b.wires[watch.wire].says, "showing")
                               /\ IF shown'.status = "ended" THEN W = Nobody ELSE W = view'.target
        BY <2>5
      <3>2. watch.wire = k /\ Listens(wires[k]) /\ NoneOf(wires[k].up, "watch")
            /\ b.wires[watch.wire].says = Tail(wires[k].says)
        <4>1. watch.wire \in DOMAIN wires /\ (wires[watch.wire].page # "gone" => watch.wire = k)
          BY <3>1, ListensOnItsOwn
        <4>2. watch.wire = k
          BY <2>5, <3>1, <4>1 DEF Listens
        <4>. QED  BY <2>4, <2>5, <3>1, <4>2 DEF Listens, SameEnd
      <3>3. WatcherTold(Board)  BY <1>0 DEF Steady, AllTold
      <3>4. LastIs(wires[k].says, "showing", Showing(W)) \/ NoneOf(wires[k].says, "showing")
        BY <1>1, <3>1, <3>2, <3>3, BoardFields DEF WatcherTold
      <3>5. /\ \A op, y : LastIs(wires[k].says, op, y) =>
                   \/ LastIs(Tail(wires[k].says), op, y)
                   \/ NoneOf(Tail(wires[k].says), op) /\ m = y /\ m.op = op
            /\ \A op : NoneOf(wires[k].says, op) => m.op # op
        BY <1>1, <2>1, Taken DEF m
      <3>6. W \in Sharers \union {Nobody} /\ Showing(W).target = W
        <4>1. W \in Sharers \union {Nobody}  BY <1>3, BoardIs, BoardFields
        <4>. HIDE DEF W
        <4>. QED  BY <4>1, ToldIs
      <3>7. \/ LastIs(Tail(wires[k].says), "showing", Showing(W))
            \/ NoneOf(Tail(wires[k].says), "showing") /\ m.target = W
        <4>. HIDE DEF W
        <4>. QED  BY <2>2, <3>4, <3>5, <3>6
      <3>8. m.target = W => IF shown'.status = "ended" THEN W = Nobody ELSE W = view'.target
        BY <2>9, <2>10, <2>11
      <3>. QED  BY <3>2, <3>7, <3>8
    <2>16. Q \in {{}, {Watcher}}  OBVIOUS
    <2>17. ScreensInv /\ UNCHANGED <<seated, sharing>> /\ events' \in events..MaxEvents
      BY <1>1, EventsGoOn DEF ScreensInv
    <2>. HIDE DEF Q
    <2>. QED  BY ONLY <2>3, <2>7, <2>13, <2>14, <2>15, <2>16, <2>17, ViewStepIs
  <1>. QED  BY <1>4, <1>5

-----------------------------------------------------------------------------
(* The start, and every step *)

(* A socket that was opened, and is listened on. *)
OnWire(who, aim) == [Running(who) EXCEPT !.aim = aim]

LEMMA OnWireIs ==
  ASSUME NEW who, NEW aim
  PROVE  /\ OnWire(who, aim) = [who |-> who, aim |-> aim, page |-> "open", at |-> "on", over |-> FALSE, cut |-> FALSE,
                                says |-> <<>>, frames |-> <<>>, up |-> <<>>]
         /\ Running(who) = [who |-> who, aim |-> Nobody, page |-> "open", at |-> "on", over |-> FALSE, cut |-> FALSE,
                            says |-> <<>>, frames |-> <<>>, up |-> <<>>]
  <1>. DEFINE d == Dialled(who, Nobody)
              r == Running(who)
  <1>1. d = [who |-> who, aim |-> Nobody, page |-> "opening", at |-> "dialled", over |-> FALSE, cut |-> FALSE,
             says |-> <<>>, frames |-> <<>>, up |-> <<>>]
    BY DEF Dialled
  <1>. HIDE DEF d
  <1>2. r = [d EXCEPT !.page = "open", !.at = "on"]  BY DEF Running, d
  <1>. HIDE DEF r
  <1>3. r = [who |-> who, aim |-> Nobody, page |-> "open", at |-> "on", over |-> FALSE, cut |-> FALSE,
             says |-> <<>>, frames |-> <<>>, up |-> <<>>]
    BY <1>1, <1>2
  <1>4. OnWire(who, aim) = [r EXCEPT !.aim = aim]  BY DEF r, OnWire
  <1>5. OnWire(who, aim) = [who |-> who, aim |-> aim, page |-> "open", at |-> "on", over |-> FALSE, cut |-> FALSE,
                            says |-> <<>>, frames |-> <<>>, up |-> <<>>]
    BY ONLY <1>3, <1>4
  <1>. QED  BY <1>3, <1>5 DEF r

LEMMA RunningIs ==
  ASSUME NEW who, NEW aim, who \in Sharers \union {Watcher}, aim \in Sharers \union {Nobody},
         who = Watcher => aim \in Sharers, who \in seated
  PROVE  /\ OnWire(who, aim) \in Wire /\ WireOK(OnWire(who, aim)) /\ OnWire(who, aim).who = who
         /\ OnWire(who, aim).page = "open" /\ OnWire(who, aim).at = "on" /\ ~OnWire(who, aim).over
         /\ OnWire(who, aim).says = <<>> /\ OnWire(who, aim).up = <<>>
  <1>0. /\ <<>> \in Seq(Told) /\ <<>> \in Seq([from : Sharers, key : BOOLEAN]) /\ <<>> \in Seq(Asked)
        /\ Len(<<>>) = 0
    OBVIOUS
  <1>. DEFINE w == OnWire(who, aim)
  <1>4. w = [who |-> who, aim |-> aim, page |-> "open", at |-> "on", over |-> FALSE, cut |-> FALSE,
             says |-> <<>>, frames |-> <<>>, up |-> <<>>]
    BY OnWireIs
  <1>. HIDE DEF w
  <1>5. w \in Wire  BY <1>0, <1>4 DEF Wire
  <1>6. WireOK(w)
    <2>1. Len(w.frames) <= WatchQueue  BY <1>0, <1>4, ScreensAssumption
    <2>2. NoneOf(w.says, "want") /\ NoneOf(w.says, "keyframe")  BY <1>4, NoneIsOnEmpty
    <2>. QED  BY <1>4, <2>1, <2>2 DEF WireOK, Early, Listens
  <1>. QED  BY <1>4, <1>5, <1>6 DEF w

LEMMA InitInv == Init => ScreensInv
  <1>. DEFINE w1 == Running(OnAir)
              w2 == OnWire(Watcher, OnAir)
              on == [wire |-> 1, wanted |-> TRUE, asked |-> FALSE]
              out == [n |-> 0, at |-> "wire", wire |-> 1, tries |-> 0, wanted |-> TRUE, enc |-> "on", latest |-> TRUE]
  <1>. SUFFICES ASSUME Init PROVE ScreensInv  OBVIOUS
  <1>0. /\ OnAir \in Sharers /\ Watcher \notin Sharers /\ Nobody \notin Sharers /\ Watcher # Nobody
        /\ 0 \in 0..Retries /\ 0 \in 0..MaxEvents
    BY ScreensAssumption
  <1>1. /\ seated = Sharers \union {Watcher} /\ wires = <<w1, w2>>
        /\ shares = [s \in Sharers |-> IF s = OnAir THEN on ELSE NoShare]
        /\ watch = [wire |-> 2, target |-> OnAir, codec |-> TRUE, gated |-> FALSE]
        /\ asks = {} /\ picking = [s \in Sharers |-> 0] /\ capturing = {<<OnAir, 0>>}
        /\ run = [s \in Sharers |-> IF s = OnAir THEN out ELSE NoRun]
        /\ presses = <<>> /\ shown = [status |-> "showing", target |-> OnAir]
        /\ view = [at |-> "wire", wire |-> 2, target |-> OnAir, tries |-> 0, dec |-> TRUE, waiting |-> FALSE]
        /\ events = 0
    BY DEF Init, OnWire
  <1>a. w1 = OnWire(OnAir, Nobody)  BY OnWireIs
  <1>b. w2 = OnWire(Watcher, OnAir)  OBVIOUS
  <1>. HIDE DEF w1, w2
  <1>2. /\ w1 \in Wire /\ WireOK(w1) /\ w1.who = OnAir /\ w1.page = "open" /\ w1.at = "on" /\ ~w1.over
        /\ w1.says = <<>> /\ w1.up = <<>>
    <2>3. OnAir \in Sharers \union {Watcher} /\ Nobody \in Sharers \union {Nobody} /\ OnAir \in seated
          /\ (OnAir = Watcher => Nobody \in Sharers)
      BY <1>0, <1>1
    <2>. QED  BY ONLY <1>a, <2>3, RunningIs
  <1>3. /\ w2 \in Wire /\ WireOK(w2) /\ w2.who = Watcher /\ w2.page = "open" /\ w2.at = "on" /\ ~w2.over
        /\ w2.says = <<>> /\ w2.up = <<>>
    <2>2. Watcher \in Sharers \union {Watcher} /\ OnAir \in Sharers \union {Nobody} /\ Watcher \in seated
      BY <1>0, <1>1
    <2>3. Watcher = Watcher => OnAir \in Sharers  BY <1>0
    <2>. QED  BY ONLY <1>b, <2>2, <2>3, RunningIs
  <1>4. /\ wires \in Seq(Wire) /\ DOMAIN wires = {1, 2} /\ wires[1] = w1 /\ wires[2] = w2
    BY <1>1, <1>2, <1>3
  <1>5. out \in RunSet /\ out # NoRun
    BY <1>0, NoRunIs DEF RunSet
  <1>6. /\ run \in [Sharers -> RunSet] /\ run[OnAir] = out /\ out.n = 0 /\ out.at = "wire" /\ out.wire = 1 /\ out.wanted
        /\ \A s \in Sharers : s # OnAir => run[s] = NoRun
    BY <1>0, <1>1, <1>5, NoRunIs
  <1>. HIDE DEF out
  <1>7. CaptureInv
    <2>1. SharingTypes
      <3>1. picking \in [Sharers -> 0..MaxEvents] /\ asks \subseteq AskSet /\ events \in 0..MaxEvents
        BY <1>0, <1>1
      <3>2. capturing \subseteq Sharers \X (0..MaxEvents)  BY <1>0, <1>1
      <3>. QED  BY <1>6, <3>1, <3>2 DEF SharingTypes
    <2>2. RunsAre
      <3>1. ASSUME NEW s \in Sharers
            PROVE  (run[s].wire # 0 <=> run[s].at = "wire") /\ (run[s] = NoRun <=> run[s].at = "off")
        <4>1. CASE s = OnAir  BY <1>5, <1>6, <4>1
        <4>2. CASE s # OnAir  BY <1>6, <4>2, NoRunIs
        <4>. QED  BY <4>1, <4>2
      <3>. QED  BY <3>1 DEF RunsAre
    <2>3. AsksAre  BY <1>1 DEF AsksAre
    <2>4. CaptureEnds
      <3>1. \A p : p \in capturing <=> \/ \E s \in Sharers : run[s] # NoRun /\ p = <<s, run[s].n>>
                                       \/ \E a \in asks : a.at = "making" /\ p = <<a.s, a.n>>
        BY <1>0, <1>1, <1>5, <1>6
      <3>. QED  BY <3>1, CapturesAre
    <2>. QED  BY <2>1, <2>2, <2>3, <2>4 DEF CaptureInv
  <1>8. WindowsAre
    <2>1. view.wire = 2  BY <1>1
    <2>2. \A s \in Sharers : run[s].wire # 0 => s = OnAir /\ run[s].wire = 1
      BY <1>6, NoRunIs
    <2>. QED  BY <1>0, <1>2, <1>3, <1>4, <1>6, <2>1, <2>2 DEF WindowsAre
  <1>9. ViewIs
    <2>1. view \in ViewSet  BY <1>0, <1>1 DEF ViewSet
    <2>2. shown \in ShownSet /\ shown.status = "showing"  BY <1>0, <1>1, NoViewIs
    <2>3. presses \in Seq(Sharers)  BY <1>1
    <2>4. view.at = "wire" /\ view.wire = 2 /\ view.target = OnAir  BY <1>1
    <2>5. view # NoView  BY <2>4, NoViewIs
    <2>. QED  BY <1>0, <2>1, <2>2, <2>3, <2>4, <2>5 DEF ViewIs
  <1>10. Steady(Board, {}, {}, {})
    <2>0. Board.shares = shares /\ Board.watch = watch /\ Board.wires = wires  BY BoardFields
    <2>1. /\ on \in ShareSet /\ NoShare \in ShareSet /\ on.wire = 1 /\ on.wanted /\ NoShare.wire = 0
      BY DEF ShareSet, NoShare
    <2>2. /\ shares \in [Sharers -> ShareSet] /\ shares[OnAir] = on
          /\ \A s \in Sharers : s # OnAir => shares[s] = NoShare
      BY <1>0, <1>1, <2>1
    <2>. HIDE DEF on
    <2>3. /\ watch \in WatchSet /\ watch.wire = 2 /\ watch.target = OnAir /\ watch.codec
      BY <1>0, <1>1 DEF WatchSet
    <2>4. Board \in Boards  BY <1>4, <2>2, <2>3 DEF Board, Boards
    <2>5. \A k \in DOMAIN wires : WireOK(wires[k])  BY <1>2, <1>3, <1>4
    <2>6. Placed(Board)
      <3>1. \A s \in Sharers : shares[s].wire # 0 => s = OnAir /\ shares[s].wire = 1  BY <2>1, <2>2
      <3>2. \A s \in Sharers : shares[s].wire = 0 => shares[s] = NoShare  BY <2>1, <2>2
      <3>. QED  BY <1>0, <1>2, <1>3, <1>4, <2>0, <2>1, <2>2, <2>3, <3>1, <3>2 DEF Placed, On
    <2>7. Listed(Board, {})  BY <1>0, <1>2, <1>3, <1>4, <2>0, <2>1, <2>2, <2>3 DEF Listed, OnIt
    <2>8. Matched(Board, {})
      <3>1. shares[OnAir].wanted = (watch.target = OnAir)  BY <2>1, <2>2, <2>3
      <3>. QED  BY <1>0, <2>0, <2>1, <2>2, <2>3, <3>1 DEF Matched
    <2>9. AllTold(Board, {})
      <3>1. ASSUME NEW s \in Sharers
            PROVE  SharerTold(Board, s)
        <4>1. CASE s = OnAir
          <5>1. shares[s].wire = 1 /\ (run[s].wanted <=> shares[s].wanted)  BY <1>6, <2>1, <2>2, <4>1
          <5>2. NoneOf(wires[1].says, "want")  BY <1>2, <1>4, NoneIsOnEmpty
          <5>3. run[s].wanted \in BOOLEAN /\ shares[s].wanted \in BOOLEAN  BY <1>6, <2>2 DEF RunSet, ShareSet
          <5>4. run[s].wanted = shares[s].wanted  BY <5>1, <5>3
          <5>. QED  BY <2>0, <5>1, <5>2, <5>4 DEF SharerTold
        <4>2. CASE s # OnAir  BY <2>0, <2>1, <2>2, <4>2 DEF SharerTold
        <4>. QED  BY <4>1, <4>2
      <3>2. WatcherTold(Board)
        <4>1. NoneOf(wires[2].says, "showing")  BY <1>3, <1>4, NoneIsOnEmpty
        <4>2. Sees(OnAir)  BY <1>1 DEF Sees
        <4>. QED  BY <2>0, <2>3, <4>1, <4>2 DEF WatcherTold
      <3>. QED  BY <3>1, <3>2 DEF AllTold
    <2>. QED  BY <2>0, <2>4, <2>5, <2>6, <2>7, <2>8, <2>9 DEF Steady
  <1>11. seated \subseteq Sharers \union {Watcher}  BY <1>1
  <1>. QED  BY <1>7, <1>8, <1>9, <1>10, <1>11 DEF ScreensInv

\* Nothing happens.
LEMMA StandsStill == ScreensInv /\ UNCHANGED screenVars => ScreensInv'
  <1>. SUFFICES ASSUME ScreensInv, UNCHANGED screenVars PROVE ScreensInv'  OBVIOUS
  <1>1. UNCHANGED <<seated, shares, watch, wires, sharing, watching, events>>  BY DEF screenVars
  <1>2. Steady(Board, {}, {}, {}) /\ Holds(Board)  BY <1>1 DEF ScreensInv, Holds, Board
  <1>3. events' \in events..MaxEvents  BY <1>1, EventsGoOn DEF ScreensInv
  <1>4. Board.wires = wires  BY BoardFields
  <1>. QED  BY <1>1, <1>2, <1>3, <1>4, ServerStepIs

LEMMA NextInv == ScreensInv /\ [Next]_screenVars => ScreensInv'
  <1>. SUFFICES ASSUME ScreensInv, Next PROVE ScreensInv'  BY StandsStill
  <1>1. CASE Handled
    <2>1. ASSUME NEW k \in DOMAIN wires, ServerStep(k) \/ Opens(k) PROVE ScreensInv'
      BY <2>1, HelloStep, OnBoardStep, SeatStep, ReceivedStep, ServerEndsStep, OpensStep DEF ServerStep
    <2>2. ASSUME NEW s \in Sharers, ShareConnects(s) \/ ShareSilent(s) PROVE ScreensInv'
      BY <2>2, ShareConnectsStep, ShareSilentStep
    <2>3. CASE WatcherStep
      BY <2>3, PlayerAnswersStep, WatchConnectsStep, WatchHearsStep, WatchSilentStep DEF WatcherStep
    <2>. QED  BY <1>1, <2>1, <2>2, <2>3 DEF Handled
  <1>2. CASE Played
    <2>1. ASSUME NEW s \in Sharers, ShareHears(s) \/ AskedLongAgo(s) PROVE ScreensInv'
      BY <2>1, ShareHearsStep, AskedStep
    <2>. QED  BY <1>2, <2>1, FrameComesStep DEF Played
  <1>3. CASE People
    <2>1. ASSUME NEW s \in Sharers, PressShare(s) \/ StopSharing(s) \/ PressWatch(s) PROVE ScreensInv'
      BY <2>1, PressStep, StopStep, PressWatchStep
    <2>2. ASSUME NEW a \in asks, PickerClosed(a) \/ Picked(a) \/ \E able \in BOOLEAN : Made(a, able)
          PROVE  ScreensInv'
      BY <2>2, PickerStep, MadeStep
    <2>3. ASSUME NEW s \in Sharers \union {Watcher}, LeaveVoice(s) \/ JoinVoice(s) PROVE ScreensInv'
      BY <2>3, LeaveStep, JoinStep
    <2>. QED  BY <1>3, <2>1, <2>2, <2>3, StopWatchingStep DEF People
  <1>4. CASE GoesWrong
    <2>1. ASSUME NEW s \in Sharers, NoToken(s) \/ EncoderFails(s) \/ OverCeiling(s) PROVE ScreensInv'
      BY <2>1, NoTokenStep, EncoderStep, OverCeilingStep
    <2>2. ASSUME NEW k \in DOMAIN wires, Cut(k) PROVE ScreensInv'
      BY <2>2, CutStep
    <2>. QED  BY <1>4, <2>1, <2>2, WatchNoTokenStep DEF GoesWrong
  <1>5. ASSUME NEW s \in Sharers, NEW due \in BOOLEAN, Picture(s, due) PROVE ScreensInv'
    BY <1>5, PictureStep
  <1>. QED  BY <1>1, <1>2, <1>3, <1>4, <1>5 DEF Next

LEMMA ScreensInvariant == Spec => []ScreensInv
  BY InitInv, NextInv, PTL DEF Spec

-----------------------------------------------------------------------------
(* What is proved *)

\* The board, the sockets and the windows keep their types, whatever is pressed, dropped or
\* crossed; and no more than SCREEN_WATCH_QUEUE frames ever wait for a watcher (frame_at).
THEOREM ScreenTypes == Spec => []TypeOK
  <1>1. ScreensInv => TypeOK
    <2>. SUFFICES ASSUME ScreensInv PROVE TypeOK  OBVIOUS
    <2>1. SharingTypes /\ seated \subseteq Sharers \union {Watcher}  BY DEF ScreensInv, CaptureInv
    <2>2. Steady(Board, {}, {}, {}) /\ Board \in Boards  BY DEF ScreensInv, Steady
    <2>3. wires \in Seq(Wire) /\ shares \in [Sharers -> ShareSet] /\ watch \in WatchSet
      BY <2>2, BoardIs, BoardFields
    <2>4. \A k \in DOMAIN wires : Len(wires[k].frames) <= WatchQueue
      BY <2>2, BoardFields DEF Steady, WireOK
    <2>5. view \in ViewSet /\ shown \in ShownSet /\ presses \in Seq(Sharers)  BY ViewFields
    <2>. QED
      BY <2>1, <2>3, <2>4, <2>5 DEF TypeOK, SharingTypes, ShareSet, WatchSet, ViewSet, ShownSet, RunSet, AskSet
  <1>. QED  BY <1>1, ScreensInvariant, PTL

\* However Share, Stop, the picker, a drop and a failing encoder cross (share.ts), a screen is
\* captured only for a share that runs or for an ask that has yet to look what it can encode.
THEOREM NothingElseIsCaptured == Spec => []CaptureEnds
  <1>1. ScreensInv => CaptureEnds  BY DEF ScreensInv, CaptureInv
  <1>. QED  BY <1>1, ScreensInvariant, PTL

\* No share and no watching is on the board without a seat but for the moment still_seated
\* looks; and once nothing is on its way, the board (screens.rs) has the shares the windows
\* make (share.ts), wants of each what its window makes, and has the watching the watcher's
\* screen shows (watch.ts).
THEOREM BoardIsRight == Spec => []BoardAgrees
  <1>1. ScreensInv => BoardAgrees
    <2>. SUFFICES ASSUME ScreensInv PROVE BoardAgrees  OBVIOUS
    <2>0. /\ Watcher \notin Sharers /\ Nobody \notin Sharers /\ Watcher # Nobody /\ WindowsAre
          /\ Steady(Board, {}, {}, {})
          /\ Board.shares = shares /\ Board.watch = watch /\ Board.wires = wires
      BY ScreensAssumption, BoardFields DEF ScreensInv
    <2>1. Placed(Board) /\ Listed(Board, {}) /\ Matched(Board, {}) /\ AllTold(Board, {}) /\ Board \in Boards
          /\ \A k \in DOMAIN wires : WireOK(wires[k])
      BY <2>0 DEF Steady
    <2>2. \A s \in Sharers : shares[s].wire # 0 =>
             /\ shares[s].wire \in DOMAIN wires /\ wires[shares[s].wire].who = s
             /\ wires[shares[s].wire].at \in On /\ ~wires[shares[s].wire].over
      BY <2>0, <2>1 DEF Placed
    <2>3. watch.wire # 0 =>
             /\ watch.wire \in DOMAIN wires /\ wires[watch.wire].who = Watcher
             /\ wires[watch.wire].at \in On /\ ~wires[watch.wire].over
      BY <2>0, <2>1 DEF Placed
    <2>4. \A s \in Sharers \ seated : shares[s].wire # 0 => wires[shares[s].wire].at = "listed"
      BY <2>1, <2>2 DEF WireOK, On
    <2>5. Watcher \notin seated /\ watch.wire # 0 => wires[watch.wire].at = "listed"
      BY <2>1, <2>3 DEF WireOK, On
    <2>6. ASSUME Settled
          PROVE  /\ \A s \in Sharers : shares[s].wire = run[s].wire
                 /\ watch.wire = view.wire
                 /\ watch.wire # 0 => watch.target = IF shown.status = "ended" THEN Nobody ELSE view.target
                 /\ \A s \in Sharers : shares[s].wire # 0 => run[s].wanted = (watch.target = s)
      <3>1. ASSUME NEW k \in DOMAIN wires, wires[k].page # "gone" \/ wires[k].who # Nobody
            PROVE  /\ wires[k].at = "on" /\ Listens(wires[k]) /\ ~wires[k].over /\ wires[k].page # "gone"
                   /\ wires[k].says = <<>> /\ wires[k].up = <<>> /\ OnIt(Board, k)
        <4>1. wires[k] # Dead  BY <3>1, DeadIs
        <4>2. /\ wires[k].at = "on" /\ Reaches(k) /\ wires[k].says = <<>> /\ wires[k].up = <<>>
          BY <2>6, <4>1 DEF Settled
        <4>3. Listens(wires[k]) /\ wires[k].page # "gone"  BY <4>2 DEF Reaches, Listens
        <4>4. ~wires[k].over  BY <2>1, <4>2, <4>3, NoneIsOnEmpty DEF WireOK
        <4>5. OnIt(Board, k)  BY <2>0, <2>1, <4>2, <4>4 DEF Listed, On
        <4>. QED  BY <4>2, <4>3, <4>4, <4>5
      <3>2. ASSUME NEW s \in Sharers
            PROVE  shares[s].wire = run[s].wire
        <4>1. CASE shares[s].wire # 0
          <5>1. shares[s].wire \in DOMAIN wires /\ wires[shares[s].wire].who = s  BY <2>2, <4>1
          <5>2. wires[shares[s].wire].page # "gone"  BY <2>0, <3>1, <5>1
          <5>. QED  BY <2>0, <5>1, <5>2 DEF WindowsAre
        <4>2. CASE run[s].wire # 0
          <5>1. /\ run[s].wire \in DOMAIN wires /\ wires[run[s].wire].who = s
                /\ wires[run[s].wire].page # "gone"
            BY <2>0, <4>2 DEF WindowsAre
          <5>. QED  BY <2>0, <3>1, <5>1 DEF OnIt
        <4>. QED  BY <4>1, <4>2
      <3>3. watch.wire = view.wire
        <4>1. CASE watch.wire # 0
          <5>1. watch.wire \in DOMAIN wires /\ wires[watch.wire].who = Watcher  BY <2>3, <4>1
          <5>2. wires[watch.wire].page # "gone"  BY <2>0, <3>1, <5>1
          <5>. QED  BY <2>0, <5>1, <5>2 DEF WindowsAre
        <4>2. CASE view.wire # 0
          <5>1. /\ view.wire \in DOMAIN wires /\ wires[view.wire].who = Watcher
                /\ wires[view.wire].page # "gone"
            BY <2>0, <4>2 DEF WindowsAre
          <5>. QED  BY <2>0, <3>1, <5>1 DEF OnIt
        <4>. QED  BY <4>1, <4>2
      <3>4. watch.wire # 0 => watch.target = IF shown.status = "ended" THEN Nobody ELSE view.target
        <4>1. SUFFICES ASSUME watch.wire # 0
                       PROVE  Sees(watch.target)
          BY DEF Sees
        <4>2. /\ Listens(wires[watch.wire]) /\ wires[watch.wire].says = <<>> /\ wires[watch.wire].up = <<>>
          BY <2>0, <2>3, <3>1, <4>1
        <4>3. watch.codec \/ watch.target = Nobody  BY <2>0, <2>1 DEF Matched
        <4>4. NoneOf(wires[watch.wire].up, "watch")  BY <4>2, NoneIsOnEmpty
        <4>5. ~LastIs(wires[watch.wire].says, "showing", Showing(watch.target))
          BY <4>2 DEF LastIs
        <4>. QED  BY <2>0, <2>1, <4>1, <4>2, <4>3, <4>4, <4>5 DEF AllTold, WatcherTold
      <3>5. ASSUME NEW s \in Sharers, shares[s].wire # 0
            PROVE  run[s].wanted = (watch.target = s)
        <4>1. Listens(wires[shares[s].wire]) /\ wires[shares[s].wire].says = <<>>
          BY <2>0, <2>2, <3>1, <3>5
        <4>2. ~LastIs(wires[shares[s].wire].says, "want", Want(shares[s].wanted))
          BY <4>1 DEF LastIs
        <4>3. run[s].wanted = shares[s].wanted
          BY <2>0, <2>1, <3>5, <4>1, <4>2 DEF AllTold, SharerTold
        <4>4. shares[s].wanted = (watch.target = s)  BY <2>0, <2>1, <3>5 DEF Matched
        <4>. QED  BY <4>3, <4>4
      <3>. QED  BY <3>2, <3>3, <3>4, <3>5
    <2>. QED  BY <2>4, <2>5, <2>6 DEF BoardAgrees
  <1>. QED  BY <1>1, ScreensInvariant, PTL

=============================================================================
