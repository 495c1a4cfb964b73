--------------------------- MODULE SignIn_proofs ---------------------------
(***************************************************************************)
(* What is proved of SignIn for any number of tokens, connections, kills,  *)
(* ends and runs.  Basic and WayOK are its types and what a connection's   *)
(* three requests allow of each other; ShareInv is the share window's, and *)
(* neither cares what people do meanwhile.  The rest is of an app in which *)
(* nobody signs in or out with an answer on its way (~Overlap): which      *)
(* tokens are of one family (FamilyInv), that one connection is in use at  *)
(* a time (LineInv), and that what it holds, or what is coming to it, can  *)
(* be carried on with (CarriedInv).                                        *)
(***************************************************************************)
EXTENDS SignIn, SequenceTheorems, TLAPS

-----------------------------------------------------------------------------
(* The inductive invariant                                                 *)

\* Requests and connections whose tokens are among the first m given.
ReqOf(m) == [pc : {"idle", "wire", "answered", "asking", "refused", "failed", "before"},
             tok : 0..m, ans : 0..m, gen : 0..MaxEnds + 1]
ConnOf(m) == [tok : 1..m, acc : 0..MaxEnds + 1, ren : ReqOf(m), chg : ReqOf(m),
              wants : BOOLEAN, ask : ReqOf(m), after : BOOLEAN]
RunOf(m, n) == [pc : {"idle", "ask", "save", "end"}, c : 0..n, signedIn : BOOLEAN, tok : 0..m]
QueuedOf(n) == [pc : {"idle"}, c : 0..n, signedIn : BOOLEAN, tok : {None}]
ChainOf(m, n) == [pc : {"idle", "health", "refresh", "me", "renewing", "me again"},
                  req : ReqOf(m), c : 0..n]
RetryOf(n) == [is : {"none", "busy", "timer"}, api : 0..n]

\* The server's side: families are older than their tokens.
ServerTypes ==
  /\ fam \in Seq(Nat) /\ Len(fam) <= MaxTokens
  /\ \A t \in Tokens : fam[t] \in 1..t
  /\ live \subseteq Tokens /\ gen \in 1..MaxEnds + 1

\* The app's side, with tokens among the first m and connections among the first n.
PageAt(m, n) ==
  /\ keyring \in 0..m /\ kept \in 0..m
  /\ conns \in Seq(ConnOf(m))
  /\ chain \in ChainOf(m, n) /\ retry \in RetryOf(n)
  /\ list \in 0..n /\ waiting \in {"none", "trying", "failed"}
  /\ run \in RunOf(m, n) /\ queue \in Seq(QueuedOf(n))
  /\ up \in BOOLEAN /\ forgotten \in BOOLEAN /\ blocked \in BOOLEAN
  /\ looked \in BOOLEAN /\ excused \in BOOLEAN

PageTypes == PageAt(Len(fam), Len(conns))

\* An ask is the one run's, and a renewal and an ask never carry a token at once.
AskIn(k) ==
  /\ k.ask = Idle => ~k.after /\ k.ren.pc # "asking"
  /\ k.ask # Idle => k.ask.pc \in {"before", "wire", "answered"}
  /\ k.ask # Idle /\ k.ask.pc # "before" => ~k.after
  /\ k.ask # Idle /\ ~k.after => k.ren.pc \in {"idle", "asking"}
  /\ k.after => k.ren # Idle /\ k.ren.pc # "asking"
  /\ k.ren.pc = "idle" => k.ren = Idle
  /\ k.chg.pc = "idle" => k.chg = Idle

AsksOK ==
  \A c \in C : AskIn(conns[c]) /\ (conns[c].ask # Idle => run.pc = "ask" /\ run.c = c)

\* The newest thing the share window was told is on its way to be done.
ShareInv ==
  keys = <<FALSE, FALSE>> =>
    IF queue # <<>> THEN ~queue[Len(queue)].signedIn
    ELSE (run # NoRun /\ ~run.signedIn) \/ (run = NoRun /\ kept = None)

\* Tokens of different families; None is of none.
Apart(f, t, u) == t # None /\ u # None => f[t] # f[u]
Split(f, A, B) == \A t \in A, u \in B : Apart(f, t, u)

\* The tokens of a connection, of the app's own sign-in, and of the share window's.
TokensOf(k) == {k.tok, k.ren.tok, k.ren.ans, k.chg.ans, k.ask.tok}
Ours == {keyring, chain.req.tok, chain.req.ans} \union UNION {TokensOf(conns[c]) : c \in C}
Shares == {kept, run.tok} \union {conns[c].ask.ans : c \in C}

\* Within one connection: what a change brings is a sign-in of its own, what a renewal or an
\* ask carries is the token held or of a sign-in that was changed, and a request carries one.
Kin(f, k) ==
  /\ Split(f, {k.chg.ans}, {k.tok, k.ren.tok, k.ren.ans, k.ask.tok})
  /\ k.ren.tok # k.tok => Apart(f, k.ren.tok, k.tok)
  /\ k.ask.tok # k.tok => Apart(f, k.ask.tok, k.tok)
  /\ k.ren.pc = "wire" => k.ren.tok # None
  /\ k.ask.pc = "wire" => k.ask.tok # None
  /\ k.ask.tok # None => k.ask.pc \in {"wire", "answered"}

FamilyInv ==
  /\ Split(fam, Ours, Shares)
  /\ \A c \in C, d \in C : c # d => Split(fam, TokensOf(conns[c]), TokensOf(conns[d]))
  /\ \A c \in C : Kin(fam, conns[c])
  /\ run.pc = "save" => run.tok # None

\* One way in at a time: the last connection built is the one shown, tried or busy.
N == Len(conns)
BusyInv == \A c \in C : Busy(c) => c = N
SessInv ==
  /\ {list, chain.c, retry.api} \subseteq {0, N}
  /\ chain # NoChain \/ retry.is = "timer" => list = 0
  /\ chain.pc \in {"health", "refresh"} => N = 0
  /\ retry.is = "timer" => chain = NoChain /\ (retry.api = 0 => N = 0)
  /\ list # 0 => ~forgotten
  /\ chain.pc = "idle" => chain = NoChain
  /\ ~up => N = 0 /\ chain = NoChain /\ list = 0 /\ retry = NoRetry
LineInv == BusyInv /\ SessInv

\* The connection the app uses, or may come to use, and what it can carry on with.
Uses == N # 0 /\ ~forgotten /\ N \in {list, chain.c, retry.api}
Comes(k) == k.chg.pc = "answered" /\ k.chg.ans # None
Held(k) == IF k.ren.pc = "answered" /\ Newest(k) THEN k.ren.ans ELSE k.tok

Carries(k, L) ==
  IF Comes(k) THEN k.chg.ans \in L
  ELSE Held(k) \in L /\ (k.ren.pc = "refused" => ~Newest(k))

CarriedInv ==
  ~excused =>
    /\ Uses => keyring = conns[N].tok /\ Carries(conns[N], live)
    /\ chain.pc = "refresh" /\ chain.req.pc = "answered" /\ ~forgotten /\ chain.req.ans # None
         => chain.req.ans \in live

-----------------------------------------------------------------------------
(* Requests and connections                                                *)

LEMMA Sizes == MaxTokens \in Nat /\ MaxEnds \in Nat /\ MaxConns \in Nat
  BY SignInAssumption

\* What is well-formed with few tokens is with more.
LEMMA WiderReq == ASSUME NEW m \in Nat, NEW m2 \in Nat, m <= m2 PROVE ReqOf(m) \subseteq ReqOf(m2)
  BY DEF ReqOf

LEMMA WiderConn == ASSUME NEW m \in Nat, NEW m2 \in Nat, m <= m2 PROVE ConnOf(m) \subseteq ConnOf(m2)
  BY WiderReq DEF ConnOf

LEMMA WiderRun ==
  ASSUME NEW m \in Nat, NEW m2 \in Nat, m <= m2, NEW n \in Nat, NEW n2 \in Nat, n <= n2
  PROVE  RunOf(m, n) \subseteq RunOf(m2, n2)
  BY DEF RunOf

LEMMA WiderQueued == ASSUME NEW n \in Nat, NEW n2 \in Nat, n <= n2 PROVE QueuedOf(n) \subseteq QueuedOf(n2)
  BY DEF QueuedOf

LEMMA WiderChain ==
  ASSUME NEW m \in Nat, NEW m2 \in Nat, m <= m2, NEW n \in Nat, NEW n2 \in Nat, n <= n2
  PROVE  ChainOf(m, n) \subseteq ChainOf(m2, n2)
  <1>1. ReqOf(m) \subseteq ReqOf(m2)  BY WiderReq
  <1>2. 0..n \subseteq 0..n2  OBVIOUS
  <1>. QED  BY <1>1, <1>2 DEF ChainOf

\* The app's side is well-formed with more tokens and connections too.
LEMMA Wider ==
  ASSUME NEW m \in Nat, NEW m2 \in Nat, m <= m2, NEW n \in Nat, NEW n2 \in Nat, n <= n2, PageAt(m, n)
  PROVE  PageAt(m2, n2)
  <1>1. conns \in Seq(ConnOf(m2))  BY WiderConn, SeqMonotonic DEF PageAt
  <1>2. run \in RunOf(m2, n2) /\ queue \in Seq(QueuedOf(n2))
    BY WiderRun, WiderQueued, SeqMonotonic DEF PageAt
  <1>3. chain \in ChainOf(m2, n2)  BY WiderChain DEF PageAt
  <1>4. retry \in RetryOf(n2)  BY DEF PageAt, RetryOf
  <1>5. keyring \in 0..m2 /\ kept \in 0..m2 /\ list \in 0..n2  BY DEF PageAt
  <1>. QED  BY <1>1, <1>2, <1>3, <1>4, <1>5 DEF PageAt

LEMMA IdleIs ==
  ASSUME NEW m \in Nat
  PROVE  Idle \in ReqOf(m) /\ Idle.pc = "idle" /\ Idle.tok = None /\ Idle.ans = None
  BY Sizes DEF Idle, ReqOf, None

LEMMA SentIs ==
  ASSUME NEW m \in Nat, NEW t \in 0..m
  PROVE  /\ Sent(t) \in ReqOf(m) /\ Sent(t).pc = "wire" /\ Sent(t).tok = t /\ Sent(t).ans = None
         /\ Sent(t) # Idle
  <1>1. Sent(t).pc = "wire" /\ Sent(t).tok = t /\ Sent(t).ans = None  BY DEF Sent, Idle
  <1>2. Sent(t).pc # Idle.pc  BY <1>1 DEF Idle
  <1>3. Sent(t) \in ReqOf(m)  BY IdleIs DEF Sent, ReqOf
  <1>. QED  BY <1>1, <1>2, <1>3

LEMMA ConnIs ==
  ASSUME NEW m \in Nat, NEW t \in 1..m, NEW g \in 0..MaxEnds + 1
  PROVE  /\ Conn(t, g) \in ConnOf(m)
         /\ Conn(t, g).tok = t /\ Conn(t, g).ren = Idle /\ Conn(t, g).chg = Idle
         /\ Conn(t, g).ask = Idle /\ ~Conn(t, g).after
  BY IdleIs DEF Conn, ConnOf

-----------------------------------------------------------------------------
(* What the handlers make of a connection                                  *)

Asking == [Idle EXCEPT !.pc = "asking"]
WithRen(k, r) == [k EXCEPT !.ren = r]
WithChg(k, r) == [k EXCEPT !.chg = r]
WithAsk(k, r) == [k EXCEPT !.ask = r]
Stopped(r, how) == [r EXCEPT !.pc = how]

LEMMA AskingIs ==
  ASSUME NEW m \in Nat
  PROVE  /\ Asking \in ReqOf(m) /\ Asking.pc = "asking" /\ Asking.tok = None /\ Asking.ans = None
         /\ Asking # Idle
  <1>1. Asking.pc = "asking" /\ Asking.tok = None /\ Asking.ans = None  BY DEF Asking, Idle
  <1>2. Asking \in ReqOf(m)  BY IdleIs DEF Asking, ReqOf
  <1>. QED  BY <1>1, <1>2, IdleIs

LEMMA WithRenIs ==
  ASSUME NEW m, NEW k \in ConnOf(m), NEW r \in ReqOf(m)
  PROVE  /\ WithRen(k, r) \in ConnOf(m)
         /\ WithRen(k, r).tok = k.tok /\ WithRen(k, r).ren = r /\ WithRen(k, r).chg = k.chg
         /\ WithRen(k, r).ask = k.ask /\ WithRen(k, r).after = k.after
         /\ WithRen(k, r).wants = k.wants
  BY DEF WithRen, ConnOf

LEMMA WithChgIs ==
  ASSUME NEW m, NEW k \in ConnOf(m), NEW r \in ReqOf(m)
  PROVE  /\ WithChg(k, r) \in ConnOf(m)
         /\ WithChg(k, r).tok = k.tok /\ WithChg(k, r).ren = k.ren /\ WithChg(k, r).chg = r
         /\ WithChg(k, r).ask = k.ask /\ WithChg(k, r).after = k.after
  BY DEF WithChg, ConnOf

LEMMA WithAskIs ==
  ASSUME NEW m, NEW k \in ConnOf(m), NEW r \in ReqOf(m)
  PROVE  /\ WithAsk(k, r) \in ConnOf(m)
         /\ WithAsk(k, r).tok = k.tok /\ WithAsk(k, r).ren = k.ren /\ WithAsk(k, r).chg = k.chg
         /\ WithAsk(k, r).ask = r /\ WithAsk(k, r).after = k.after
  BY DEF WithAsk, ConnOf

LEMMA StoppedIs ==
  ASSUME NEW m, NEW r \in ReqOf(m), NEW how \in {"refused", "failed"}
  PROVE  /\ Stopped(r, how) \in ReqOf(m) /\ Stopped(r, how).pc = how
         /\ Stopped(r, how).tok = r.tok /\ Stopped(r, how).ans = r.ans
  BY DEF Stopped, ReqOf

LEMMA DoneIs ==
  ASSUME NEW m \in Nat, NEW k \in ConnOf(m)
  PROVE  /\ Done(k) \in ConnOf(m)
         /\ Done(k).tok = k.tok /\ Done(k).ren = Idle /\ Done(k).chg = k.chg
         /\ Done(k).ask = k.ask /\ ~Done(k).after /\ Done(k).wants = k.wants
  BY IdleIs DEF Done, ConnOf

\* A renewal starts, waits for the ask, or is under way.
LEMMA StartRotateIs ==
  ASSUME NEW m \in Nat, NEW k \in ConnOf(m)
  PROVE  /\ StartRotate(k) \in ConnOf(m)
         /\ StartRotate(k).tok = k.tok /\ StartRotate(k).chg = k.chg
         /\ StartRotate(k).ask = k.ask /\ StartRotate(k).after = k.after
         /\ StartRotate(k).ren = IF k.ren # Idle THEN k.ren
                                 ELSE IF k.ask = Idle THEN Sent(k.tok) ELSE Asking
  <1>1. k.tok \in 0..m  BY DEF ConnOf
  <1>2. CASE k.ren # Idle  BY <1>2 DEF StartRotate
  <1>3. CASE k.ren = Idle /\ k.ask = Idle
    <2>1. StartRotate(k) = WithRen(k, Sent(k.tok))  BY <1>3 DEF StartRotate, WithRen
    <2>. QED  BY <1>1, <1>3, <2>1, SentIs, WithRenIs
  <1>4. CASE k.ren = Idle /\ k.ask # Idle
    <2>1. StartRotate(k) = WithRen(k, Asking)  BY <1>4 DEF StartRotate, WithRen, Asking
    <2>. QED  BY <1>4, <2>1, AskingIs, WithRenIs
  <1>. QED  BY <1>2, <1>3, <1>4

LEMMA RenewedIs ==
  ASSUME NEW m \in Nat, NEW k \in ConnOf(m)
  PROVE  /\ Renewed(k) \in ConnOf(m)
         /\ Renewed(k).tok = k.tok /\ Renewed(k).chg = k.chg
         /\ Renewed(k).ask = k.ask /\ Renewed(k).after = k.after
         /\ Renewed(k).ren = IF k.ren # Idle \/ k.chg # Idle THEN k.ren
                             ELSE IF k.ask = Idle THEN Sent(k.tok) ELSE Asking
  <1>1. CASE k.ren = Idle /\ k.chg # Idle  BY <1>1 DEF Renewed, ConnOf
  <1>2. CASE ~(k.ren = Idle /\ k.chg # Idle)
    <2>1. Renewed(k) = StartRotate(k)  BY <1>2 DEF Renewed
    <2>. QED  BY <1>2, <2>1, StartRotateIs
  <1>. QED  BY <1>1, <1>2

WithTok(k, t, g) == [k EXCEPT !.tok = t, !.acc = g]
Wanting(k) == [k EXCEPT !.wants = TRUE]
Stale(k) == [k EXCEPT !.acc = 0]
Before == [Idle EXCEPT !.pc = "before"]
AskBegun(k) == [k EXCEPT !.ask = Before, !.after = k.ren # Idle]
AskDone(k) == [k EXCEPT !.ask = Idle, !.ren = IF k.ren.pc = "asking" THEN Sent(k.tok) ELSE k.ren]
Waits(k) == k.ren.pc \in {"refused", "failed"}
Freed(k) == [(IF Waits(k) THEN Done(k) ELSE k) EXCEPT !.chg = Idle, !.wants = FALSE]
Ended(k, changed) == IF ~changed /\ k.wants THEN StartRotate(Freed(k)) ELSE Freed(k)

LEMMA WithTokIs ==
  ASSUME NEW m \in Nat, NEW k \in ConnOf(m), NEW t \in 1..m, NEW g \in 0..MaxEnds + 1
  PROVE  /\ WithTok(k, t, g) \in ConnOf(m)
         /\ WithTok(k, t, g).tok = t /\ WithTok(k, t, g).ren = k.ren /\ WithTok(k, t, g).chg = k.chg
         /\ WithTok(k, t, g).ask = k.ask /\ WithTok(k, t, g).after = k.after
         /\ WithTok(k, t, g).wants = k.wants
  BY DEF WithTok, ConnOf

LEMMA WantingIs ==
  ASSUME NEW m, NEW k \in ConnOf(m)
  PROVE  /\ Wanting(k) \in ConnOf(m)
         /\ Wanting(k).tok = k.tok /\ Wanting(k).ren = k.ren /\ Wanting(k).chg = k.chg
         /\ Wanting(k).ask = k.ask /\ Wanting(k).after = k.after
  BY DEF Wanting, ConnOf

LEMMA StaleIs ==
  ASSUME NEW m, NEW k \in ConnOf(m)
  PROVE  /\ Stale(k) \in ConnOf(m)
         /\ Stale(k).tok = k.tok /\ Stale(k).ren = k.ren /\ Stale(k).chg = k.chg
         /\ Stale(k).ask = k.ask /\ Stale(k).after = k.after
  BY Sizes DEF Stale, ConnOf

LEMMA BeforeIs ==
  ASSUME NEW m \in Nat
  PROVE  /\ Before \in ReqOf(m) /\ Before.pc = "before" /\ Before.tok = None /\ Before.ans = None
         /\ Before # Idle
  <1>1. Before.pc = "before" /\ Before.tok = None /\ Before.ans = None  BY DEF Before, Idle
  <1>2. Before \in ReqOf(m)  BY IdleIs DEF Before, ReqOf
  <1>. QED  BY <1>1, <1>2, IdleIs

LEMMA AskBegunIs ==
  ASSUME NEW m \in Nat, NEW k \in ConnOf(m)
  PROVE  /\ AskBegun(k) \in ConnOf(m)
         /\ AskBegun(k).tok = k.tok /\ AskBegun(k).ren = k.ren /\ AskBegun(k).chg = k.chg
         /\ AskBegun(k).ask = Before /\ (AskBegun(k).after <=> k.ren # Idle)
  <1>. DEFINE a == k.ren # Idle
  <1>1. a \in BOOLEAN  OBVIOUS
  <1>2. AskBegun(k) = [k EXCEPT !.ask = Before, !.after = a]  BY DEF AskBegun
  <1>. HIDE DEF a
  <1>3. /\ AskBegun(k) \in ConnOf(m)
        /\ AskBegun(k).tok = k.tok /\ AskBegun(k).ren = k.ren /\ AskBegun(k).chg = k.chg
        /\ AskBegun(k).ask = Before /\ AskBegun(k).after = a
    BY <1>1, <1>2, BeforeIs DEF ConnOf
  <1>. QED  BY <1>3 DEF a

LEMMA AskDoneIs ==
  ASSUME NEW m \in Nat, NEW k \in ConnOf(m)
  PROVE  /\ AskDone(k) \in ConnOf(m)
         /\ AskDone(k).tok = k.tok /\ AskDone(k).chg = k.chg
         /\ AskDone(k).ask = Idle /\ AskDone(k).after = k.after
         /\ AskDone(k).ren = IF k.ren.pc = "asking" THEN Sent(k.tok) ELSE k.ren
  <1>. DEFINE r == IF k.ren.pc = "asking" THEN Sent(k.tok) ELSE k.ren
  <1>1. r \in ReqOf(m)
    <2>1. k.tok \in 0..m /\ k.ren \in ReqOf(m)  BY DEF ConnOf
    <2>. QED  BY <2>1, SentIs
  <1>2. AskDone(k) = [k EXCEPT !.ask = Idle, !.ren = r]  BY DEF AskDone
  <1>. HIDE DEF r
  <1>3. /\ AskDone(k) \in ConnOf(m)
        /\ AskDone(k).tok = k.tok /\ AskDone(k).chg = k.chg
        /\ AskDone(k).ask = Idle /\ AskDone(k).after = k.after /\ AskDone(k).ren = r
    BY <1>1, <1>2, IdleIs DEF ConnOf
  <1>. QED  BY <1>3 DEF r

LEMMA FreedIs ==
  ASSUME NEW m \in Nat, NEW k \in ConnOf(m)
  PROVE  /\ Freed(k) \in ConnOf(m)
         /\ Freed(k).tok = k.tok /\ Freed(k).chg = Idle /\ Freed(k).ask = k.ask
         /\ Waits(k) => Freed(k).ren = Idle /\ ~Freed(k).after
         /\ ~Waits(k) => Freed(k).ren = k.ren /\ Freed(k).after = k.after
  <1>. DEFINE j == IF Waits(k) THEN Done(k) ELSE k
  <1>1. j \in ConnOf(m) /\ j.tok = k.tok /\ j.ask = k.ask  BY DoneIs
  <1>2. Waits(k) => j.ren = Idle /\ ~j.after  BY DoneIs
  <1>3. ~Waits(k) => j.ren = k.ren /\ j.after = k.after  OBVIOUS
  <1>4. Freed(k) = [j EXCEPT !.chg = Idle, !.wants = FALSE]  BY DEF Freed
  <1>. HIDE DEF j
  <1>5. /\ Freed(k) \in ConnOf(m)
        /\ Freed(k).tok = j.tok /\ Freed(k).chg = Idle /\ Freed(k).ask = j.ask
        /\ Freed(k).ren = j.ren /\ Freed(k).after = j.after
    BY <1>1, <1>4, IdleIs DEF ConnOf
  <1>. QED  BY <1>1, <1>2, <1>3, <1>5

LEMMA EndedIs ==
  ASSUME NEW m \in Nat, NEW k \in ConnOf(m), NEW changed
  PROVE  /\ Ended(k, changed) \in ConnOf(m)
         /\ Ended(k, changed).tok = k.tok /\ Ended(k, changed).chg = Idle
         /\ Ended(k, changed).ask = k.ask
         /\ Waits(k) => ~Ended(k, changed).after
         /\ ~Waits(k) => Ended(k, changed).after = k.after
         /\ \/ Ended(k, changed).ren = IF Waits(k) THEN Idle ELSE k.ren
            \/ /\ ~changed /\ (Waits(k) \/ k.ren = Idle)
               /\ Ended(k, changed).ren = IF k.ask = Idle THEN Sent(k.tok) ELSE Asking
  <1>1. CASE ~changed /\ k.wants
    <2>1. Ended(k, changed) = StartRotate(Freed(k))  BY <1>1 DEF Ended
    <2>. QED  BY <1>1, <2>1, FreedIs, StartRotateIs
  <1>2. CASE ~(~changed /\ k.wants)
    <2>1. Ended(k, changed) = Freed(k)  BY <1>2 DEF Ended
    <2>. QED  BY <2>1, FreedIs
  <1>. QED  BY <1>1, <1>2

-----------------------------------------------------------------------------
(* The server's answers                                                    *)

\* A token is given, of family f.
Grown(f) ==
  /\ fam' \in Seq(Nat) /\ Len(fam') = Len(fam) + 1 /\ Len(fam') <= MaxTokens
  /\ \A t \in Tokens : fam'[t] = fam[t]
  /\ fam'[New] = f

LEMMA Grows ==
  ASSUME ServerTypes, CanGive, NEW f \in 1..New, fam' = Append(fam, f)
  PROVE  Grown(f) /\ \A t \in Tokens' : fam'[t] \in 1..t
  <1>1. Len(fam) \in Nat /\ Len(fam) + 1 <= MaxTokens  BY Sizes, LenProperties DEF ServerTypes, CanGive
  <1>2. f \in Nat  BY <1>1 DEF New
  <1>3. /\ fam' \in Seq(Nat) /\ Len(fam') = Len(fam) + 1
        /\ \A t \in 1..Len(fam) : fam'[t] = fam[t]
        /\ fam'[Len(fam) + 1] = f
    BY <1>1, <1>2, AppendProperties DEF ServerTypes
  <1>4. Grown(f)  BY <1>1, <1>3 DEF Grown, Tokens, New
  <1>5. ASSUME NEW t \in 1..Len(fam) + 1 PROVE fam'[t] \in 1..t
    <2>1. CASE t = Len(fam) + 1  BY <1>3, <2>1 DEF New
    <2>2. CASE t \in 1..Len(fam)  BY <1>3, <2>2 DEF ServerTypes, Tokens
    <2>. QED  BY <1>1, <2>1, <2>2
  <1>. QED  BY <1>3, <1>4, <1>5 DEF Tokens

\* rotate_refresh gives the next token of the family, or ends it.
LEMMA RotateIs ==
  ASSUME ServerTypes, NEW r, Rotate(r)
  PROVE  /\ ServerTypes' /\ gen' = gen
         /\ \/ /\ r.tok \in live /\ Grown(fam[r.tok])
               /\ live' = (live \ {r.tok}) \union {New}
            \/ r.tok \notin live /\ fam' = fam /\ live' = live \ Family(r.tok)
  <1>0. Len(fam) \in Nat  BY LenProperties DEF ServerTypes
  <1>1. CASE r.tok \in live
    <2>1. CanGive /\ fam' = Append(fam, fam[r.tok]) /\ live' = (live \ {r.tok}) \union {New} /\ gen' = gen
      BY <1>1 DEF Rotate
    <2>2. fam[r.tok] \in 1..New
      <3>1. r.tok \in Tokens  BY <1>1 DEF ServerTypes
      <3>2. fam[r.tok] \in 1..r.tok  BY <3>1 DEF ServerTypes
      <3>. QED  BY <1>0, <3>1, <3>2 DEF Tokens, New
    <2>3. Grown(fam[r.tok]) /\ \A t \in Tokens' : fam'[t] \in 1..t  BY <2>1, <2>2, Grows
    <2>4. live' \subseteq Tokens'
      <3>1. live \subseteq 1..Len(fam) /\ Len(fam') = Len(fam) + 1
        BY <2>3 DEF ServerTypes, Tokens, Grown
      <3>2. live' \subseteq live \union {Len(fam) + 1}  BY <2>1 DEF New
      <3>3. live' \subseteq 1..Len(fam')  BY ONLY <1>0, <3>1, <3>2
      <3>. QED  BY <3>3 DEF Tokens
    <2>5. fam' \in Seq(Nat) /\ Len(fam') <= MaxTokens  BY <2>3 DEF Grown
    <2>. QED  BY <1>1, <2>1, <2>3, <2>4, <2>5 DEF ServerTypes
  <1>2. CASE r.tok \notin live
    <2>1. fam' = fam /\ gen' = gen /\ live' = live \ Family(r.tok)  BY <1>2 DEF Rotate
    <2>. QED  BY <1>2, <2>1 DEF ServerTypes, Tokens
  <1>. QED  BY <1>1, <1>2

\* A sign-in of its own is given a new family.
LEMMA GivesIs ==
  ASSUME ServerTypes, CanGive, fam' = Append(fam, NewFamily),
         live' \subseteq live \union {New}, gen' \in 1..MaxEnds + 1
  PROVE  ServerTypes' /\ Grown(New)
  <1>0. Len(fam) \in Nat  BY LenProperties DEF ServerTypes
  <1>1. New \in 1..New  BY <1>0 DEF New
  <1>2. Grown(New) /\ \A t \in Tokens' : fam'[t] \in 1..t  BY <1>1, Grows DEF NewFamily
  <1>3. live' \subseteq Tokens'  BY <1>0, <1>2 DEF ServerTypes, Tokens, New, Grown
  <1>4. fam' \in Seq(Nat) /\ Len(fam') <= MaxTokens  BY <1>2 DEF Grown
  <1>. QED  BY <1>2, <1>3, <1>4 DEF ServerTypes

LEMMA AnsweredIs ==
  ASSUME ServerTypes, ServerTypes', Len(fam') \in {Len(fam), Len(fam) + 1}, NEW r \in ReqOf(Len(fam))
  PROVE  /\ Answered(r) \in ReqOf(Len(fam')) /\ Answered(r).pc = "answered" /\ Answered(r).tok = r.tok
         /\ Answered(r).ans = IF Len(fam') > Len(fam) THEN New ELSE None
         /\ Answered(r) # Idle
  <1>. DEFINE a == IF Len(fam') > Len(fam) THEN New ELSE None
  <1>0. Len(fam) \in Nat /\ Len(fam') \in Nat  BY LenProperties DEF ServerTypes
  <1>1. a \in 0..Len(fam')  BY <1>0 DEF New, None
  <1>2. gen' \in 0..MaxEnds + 1  BY Sizes DEF ServerTypes
  <1>3. r \in ReqOf(Len(fam'))  BY <1>0, WiderReq
  <1>4. Answered(r) = [r EXCEPT !.pc = "answered", !.ans = a, !.gen = gen']  BY DEF Answered
  <1>. HIDE DEF a
  <1>5. /\ Answered(r) \in ReqOf(Len(fam')) /\ Answered(r).pc = "answered" /\ Answered(r).tok = r.tok
        /\ Answered(r).ans = a
    BY <1>1, <1>2, <1>3, <1>4 DEF ReqOf
  <1>6. Answered(r) # Idle  BY <1>0, <1>5, IdleIs
  <1>. QED  BY <1>5, <1>6 DEF a

-----------------------------------------------------------------------------
(* One connection's turn, and what it settles                              *)

LEMMA OneConnIs ==
  ASSUME NEW m, conns \in Seq(ConnOf(m)), NEW c \in C, NEW k2 \in ConnOf(m),
         conns' = [conns EXCEPT ![c] = k2]
  PROVE  /\ conns' \in Seq(ConnOf(m)) /\ Len(conns') = Len(conns)
         /\ conns'[c] = k2 /\ \A d \in C : d # c => conns'[d] = conns[d]
  BY ExceptSeq DEF C

LEMMA ConnTyped == ASSUME NEW m, conns \in Seq(ConnOf(m)), NEW c \in C PROVE conns[c] \in ConnOf(m)
  BY ElementOfSeq DEF C

MeAgain == [chain EXCEPT !.pc = "me again"]
Mine(c) == chain.pc = "renewing" /\ chain.c = c
SignedOutNow ==
  /\ keyring' = None /\ list' = 0 /\ ~blocked' /\ blocked' \in BOOLEAN
  /\ waiting' = "none" /\ retry' = NoRetry
Timed(c) == waiting' = "failed" /\ retry' = [is |-> "timer", api |-> IF c # 0 THEN c ELSE retry.api]

LEMMA SettleIs ==
  ASSUME NEW c, NEW how, NEW key, Settle(c, how, key)
  PROVE  /\ \/ ~Mine(c) /\ chain' = chain
            \/ Mine(c) /\ how = "ok" /\ chain' = MeAgain
            \/ Mine(c) /\ how # "ok" /\ chain' = NoChain
         /\ \/ /\ how # "refused" /\ keyring' = key /\ UNCHANGED <<list, blocked>>
               /\ \/ UNCHANGED <<waiting, retry>>
                  \/ how = "failed" /\ Mine(c) /\ Timed(c)
            \/ how = "refused" /\ forgotten /\ UNCHANGED <<keyring, list, blocked, waiting, retry>>
            \/ how = "refused" /\ ~forgotten /\ SignedOutNow
  BY Zenon DEF Settle, Mine, MeAgain, OnSignedOut, StopWaiting, SignedOutNow, Wait, Timed

-----------------------------------------------------------------------------
(* Types and asks                                                          *)

Typed == ServerTypes /\ PageTypes
Basic == Typed /\ AsksOK

LEMMA Counts == ASSUME Typed PROVE Len(fam) \in Nat /\ Len(conns) \in Nat /\ C = 1..Len(conns)
  BY LenProperties DEF Typed, ServerTypes, PageTypes, PageAt, C

\* The app's side is well-formed with the tokens there are now.
LEMMA StillTyped ==
  ASSUME Typed, ServerTypes', Len(fam') \in {Len(fam), Len(fam) + 1}
  PROVE  PageAt(Len(fam'), Len(conns))
  BY Counts, Wider, LenProperties DEF Typed, ServerTypes, PageTypes

LEMMA ServerStays == ASSUME ServerTypes, UNCHANGED server PROVE ServerTypes'
  BY DEF ServerTypes, server, Tokens

\* A connection's turn is well-formed.
LEMMA TurnTyped ==
  ASSUME Typed, ServerTypes', Len(fam') \in {Len(fam), Len(fam) + 1},
         NEW c \in C, NEW k2 \in ConnOf(Len(fam')), conns' = [conns EXCEPT ![c] = k2],
         keyring' \in 0..Len(fam'), chain' \in ChainOf(Len(fam'), Len(conns)),
         retry' \in RetryOf(Len(conns)), list' \in 0..Len(conns),
         waiting' \in {"none", "trying", "failed"}, run' \in RunOf(Len(fam'), Len(conns)),
         queue' \in Seq(QueuedOf(Len(conns))),
         blocked' \in BOOLEAN, excused' \in BOOLEAN, UNCHANGED <<kept, up, forgotten, looked>>
  PROVE  /\ Typed' /\ Len(conns') = Len(conns) /\ C' = C
         /\ conns'[c] = k2 /\ \A d \in C : d # c => conns'[d] = conns[d]
  <1>1. PageAt(Len(fam'), Len(conns))  BY StillTyped
  <1>2. conns \in Seq(ConnOf(Len(fam')))  BY <1>1 DEF PageAt
  <1>3. /\ conns' \in Seq(ConnOf(Len(fam'))) /\ Len(conns') = Len(conns)
        /\ conns'[c] = k2 /\ \A d \in C : d # c => conns'[d] = conns[d]
    BY <1>2, OneConnIs
  <1>4. kept' \in 0..Len(fam') /\ up' \in BOOLEAN /\ forgotten' \in BOOLEAN /\ looked' \in BOOLEAN
    BY <1>1 DEF PageAt
  <1>5. PageTypes'  BY <1>3, <1>4 DEF PageTypes, PageAt
  <1>. QED  BY <1>3, <1>5 DEF Typed, C

\* What it makes of an ask.
Turn(k, k2) == AskIn(k2) /\ (k2.ask # Idle => k.ask # Idle)

LEMMA TurnAsks ==
  ASSUME AsksOK, NEW c \in C, C' = C, \A d \in C : d # c => conns'[d] = conns[d],
         AskIn(conns'[c]), conns'[c].ask # Idle => conns[c].ask # Idle, run' = run
  PROVE  AsksOK'
  <1>1. ASSUME NEW d \in C' PROVE AskIn(conns'[d]) /\ (conns'[d].ask # Idle => run'.pc = "ask" /\ run'.c = d)
    BY DEF AsksOK
  <1>2. \A d \in C' : AskIn(conns'[d]) /\ (conns'[d].ask # Idle => run'.pc = "ask" /\ run'.c = d)
    BY <1>1
  <1>. QED  BY <1>2 DEF AsksOK, AskIn

LEMMA RenewedTurn ==
  ASSUME NEW m \in Nat, NEW k \in ConnOf(m), AskIn(k) PROVE Turn(k, Renewed(k))
  <1>. DEFINE k2 == Renewed(k)
  <1>1. k2.ask = k.ask /\ (k2.after <=> k.after) /\ k2.chg = k.chg  BY RenewedIs
  <1>2. \/ k2.ren = k.ren
        \/ k.ren = Idle /\ k.ask = Idle /\ k2.ren = Sent(k.tok)
        \/ k.ren = Idle /\ k.ask # Idle /\ k2.ren = Asking
    BY RenewedIs
  <1>3. Sent(k.tok).pc = "wire" /\ Asking.pc = "asking" /\ Idle.pc = "idle"  BY SentIs, AskingIs, IdleIs DEF ConnOf
  <1>. HIDE DEF k2
  <1>4. AskIn(k2)  BY <1>1, <1>2, <1>3 DEF AskIn
  <1>. QED  BY <1>1, <1>4 DEF Turn, k2

LEMMA StartRotateTurn ==
  ASSUME NEW m \in Nat, NEW k \in ConnOf(m), AskIn(k) PROVE Turn(k, StartRotate(k))
  <1>. DEFINE k2 == StartRotate(k)
  <1>1. k2.ask = k.ask /\ k2.after = k.after /\ k2.chg = k.chg  BY StartRotateIs
  <1>2. \/ k2.ren = k.ren
        \/ k.ren = Idle /\ k.ask = Idle /\ k2.ren = Sent(k.tok)
        \/ k.ren = Idle /\ k.ask # Idle /\ k2.ren = Asking
    BY StartRotateIs
  <1>3. Sent(k.tok).pc = "wire" /\ Asking.pc = "asking" /\ Idle.pc = "idle"  BY SentIs, AskingIs, IdleIs DEF ConnOf
  <1>. HIDE DEF k2
  <1>4. AskIn(k2)  BY <1>1, <1>2, <1>3 DEF AskIn
  <1>. QED  BY <1>1, <1>4 DEF Turn, k2

LEMMA DoneTurn ==
  ASSUME NEW m \in Nat, NEW k \in ConnOf(m), AskIn(k) PROVE Turn(k, Done(k))
  BY DoneIs, IdleIs DEF Turn, AskIn, ConnOf

LEMMA FreedTurn ==
  ASSUME NEW m \in Nat, NEW k \in ConnOf(m), AskIn(k) PROVE Turn(k, Freed(k))
  <1>. DEFINE k2 == Freed(k)
  <1>1. k2.ask = k.ask /\ k2.chg = Idle  BY FreedIs
  <1>2. Waits(k) => k2.ren = Idle /\ ~k2.after  BY FreedIs
  <1>3. ~Waits(k) => k2.ren = k.ren /\ (k2.after <=> k.after)  BY FreedIs
  <1>4. Idle.pc = "idle"  BY IdleIs
  <1>5. k.ask # Idle => k.ask.pc \in {"before", "wire", "answered"}  BY DEF AskIn
  <1>. HIDE DEF k2
  <1>6. CASE Waits(k)
    <2>1. k2.ren = Idle /\ ~k2.after  BY <1>2, <1>6
    <2>2. AskIn(k2)  BY ONLY <1>1, <1>4, <1>5, <2>1 DEF AskIn
    <2>. QED  BY <1>1, <2>2 DEF Turn, k2
  <1>7. CASE ~Waits(k)
    <2>1. k2.ren = k.ren /\ (k2.after <=> k.after)  BY <1>3, <1>7
    <2>2. AskIn(k2)  BY ONLY AskIn(k), <1>1, <1>4, <2>1 DEF AskIn
    <2>. QED  BY <1>1, <2>2 DEF Turn, k2
  <1>. QED  BY <1>6, <1>7

LEMMA EndedTurn ==
  ASSUME NEW m \in Nat, NEW k \in ConnOf(m), AskIn(k), NEW changed PROVE Turn(k, Ended(k, changed))
  <1>1. Freed(k) \in ConnOf(m)  BY FreedIs
  <1>2. Turn(k, Freed(k))  BY FreedTurn
  <1>3. Turn(Freed(k), StartRotate(Freed(k)))  BY <1>1, <1>2, StartRotateTurn DEF Turn
  <1>. QED  BY <1>2, <1>3 DEF Ended, Turn

LEMMA AskDoneTurn ==
  ASSUME NEW m \in Nat, NEW k \in ConnOf(m), AskIn(k), k.ask # Idle, k.ask.pc # "before"
  PROVE  AskIn(AskDone(k))
  BY AskDoneIs, SentIs, IdleIs DEF AskIn, ConnOf

LEMMA AskBegunTurn ==
  ASSUME NEW m \in Nat, NEW k \in ConnOf(m), AskIn(k), k.ask = Idle
  PROVE  AskIn(AskBegun(k))
  <1>. DEFINE k2 == AskBegun(k)
  <1>1. k2.ren = k.ren /\ k2.chg = k.chg /\ k2.ask = Before /\ (k2.after <=> k.ren # Idle)
    BY AskBegunIs
  <1>2. Before # Idle /\ Before.pc = "before" /\ Idle.pc = "idle"  BY BeforeIs, IdleIs
  <1>. HIDE DEF k2
  <1>3. AskIn(k2)  BY <1>1, <1>2 DEF AskIn
  <1>. QED  BY <1>3 DEF k2

\* What a step leaves of the connections.
TurnOf(c, k2) ==
  /\ c \in C /\ C' = C /\ Len(conns') = Len(conns)
  /\ conns'[c] = k2 /\ \A d \in C : d # c => conns'[d] = conns[d]

SessionTyped ==
  /\ keyring' \in 0..Len(fam) /\ chain' \in ChainOf(Len(fam), Len(conns))
  /\ retry' \in RetryOf(Len(conns)) /\ list' \in 0..Len(conns)
  /\ waiting' \in {"none", "trying", "failed"} /\ blocked' \in BOOLEAN

LEMMA SameSession ==
  ASSUME Typed, UNCHANGED <<keyring, chain, retry, list, waiting, blocked>>
  PROVE  SessionTyped
  BY DEF Typed, PageTypes, PageAt, SessionTyped

\* A turn of a connection that the server and the share window take no part in.
LEMMA QuietTurn ==
  ASSUME Basic, NEW c \in C, NEW k2 \in ConnOf(Len(fam)), conns' = [conns EXCEPT ![c] = k2],
         UNCHANGED <<server, sharing, up, forgotten>>, SessionTyped, excused' \in BOOLEAN,
         Turn(conns[c], k2)
  PROVE  Basic' /\ TurnOf(c, k2)
  <1>1. ServerTypes' /\ fam' = fam  BY ServerStays DEF Basic, Typed, server
  <1>2. UNCHANGED <<kept, looked, queue, run>>  BY DEF sharing
  <1>3. run \in RunOf(Len(fam), Len(conns)) /\ queue \in Seq(QueuedOf(Len(conns)))
    BY DEF Basic, Typed, PageTypes, PageAt
  <1>4. /\ Typed' /\ Len(conns') = Len(conns) /\ C' = C
        /\ conns'[c] = k2 /\ \A d \in C : d # c => conns'[d] = conns[d]
    BY <1>1, <1>2, <1>3, TurnTyped DEF Basic, SessionTyped
  <1>5. AsksOK'  BY <1>2, <1>4, TurnAsks DEF Basic, Turn
  <1>. QED  BY <1>4, <1>5 DEF Basic, TurnOf

LEMMA ChainMoves ==
  ASSUME Typed, NEW x \in {"idle", "health", "refresh", "me", "renewing", "me again"}
  PROVE  /\ [chain EXCEPT !.pc = x] \in ChainOf(Len(fam), Len(conns))
         /\ [chain EXCEPT !.pc = x].pc = x /\ [chain EXCEPT !.pc = x].req = chain.req
         /\ [chain EXCEPT !.pc = x].c = chain.c
  <1>1. chain \in ChainOf(Len(fam), Len(conns))  BY DEF Typed, PageTypes, PageAt
  <1>. QED  BY <1>1 DEF ChainOf

LEMMA NoChainIs ==
  ASSUME Typed
  PROVE  /\ NoChain \in ChainOf(Len(fam), Len(conns)) /\ NoChain.pc = "idle" /\ NoChain.req = Idle
         /\ NoChain.c = 0
  BY Counts, IdleIs DEF NoChain, ChainOf

LEMMA TimerIs ==
  ASSUME Typed, NEW c \in 0..Len(conns)
  PROVE  [is |-> "timer", api |-> IF c # 0 THEN c ELSE retry.api] \in RetryOf(Len(conns))
  BY DEF Typed, PageTypes, PageAt, RetryOf

LEMMA NoRetryIs == ASSUME Typed PROVE NoRetry \in RetryOf(Len(conns)) /\ NoRetry.is = "none" /\ NoRetry.api = 0
  BY Counts DEF NoRetry, RetryOf

LEMMA SettleTyped ==
  ASSUME Typed, NEW c \in C, NEW how, NEW key \in 0..Len(fam), Settle(c, how, key)
  PROVE  SessionTyped
  <1>1. /\ \/ ~Mine(c) /\ chain' = chain
           \/ Mine(c) /\ how = "ok" /\ chain' = MeAgain
           \/ Mine(c) /\ how # "ok" /\ chain' = NoChain
        /\ \/ /\ how # "refused" /\ keyring' = key /\ UNCHANGED <<list, blocked>>
              /\ \/ UNCHANGED <<waiting, retry>>
                 \/ how = "failed" /\ Mine(c) /\ Timed(c)
           \/ how = "refused" /\ forgotten /\ UNCHANGED <<keyring, list, blocked, waiting, retry>>
           \/ how = "refused" /\ ~forgotten /\ SignedOutNow
    BY SettleIs
  <1>2. chain' \in ChainOf(Len(fam), Len(conns))
    BY <1>1, ChainMoves, NoChainIs DEF MeAgain, Typed, PageTypes, PageAt
  <1>3. c \in 0..Len(conns)  BY DEF C
  <1>4. Timed(c) => retry' \in RetryOf(Len(conns)) /\ waiting' = "failed"
    BY <1>3, TimerIs DEF Timed
  <1>5. SignedOutNow => retry' \in RetryOf(Len(conns)) /\ waiting' = "none" /\ list' = 0 /\ keyring' = 0
                        /\ blocked' \in BOOLEAN
    BY NoRetryIs DEF SignedOutNow, None
  <1>6. Len(fam) \in Nat /\ Len(conns) \in Nat  BY Counts
  <1>. QED  BY <1>1, <1>2, <1>4, <1>5, <1>6 DEF SessionTyped, Typed, PageTypes, PageAt

-----------------------------------------------------------------------------
(* The turns of a connection                                               *)

Arrived(k) == IF Newest(k) THEN WithTok(Done(k), k.ren.ans, k.ren.gen) ELSE Done(k)
Failed(k, how) == IF k.chg # Idle THEN WithRen(k, Stopped(k.ren, how)) ELSE Done(k)
Lost(k) == IF k.chg.pc = "answered" /\ k.chg.ans = None THEN Wanting(k) ELSE k

LEMMA ConnHere ==
  ASSUME Basic, NEW c \in C
  PROVE  /\ conns[c] \in ConnOf(Len(fam)) /\ AskIn(conns[c])
         /\ conns[c].tok \in 1..Len(fam) /\ conns[c].acc \in 0..MaxEnds + 1
         /\ conns[c].ren \in ReqOf(Len(fam)) /\ conns[c].chg \in ReqOf(Len(fam))
         /\ conns[c].ask \in ReqOf(Len(fam))
  <1>1. conns[c] \in ConnOf(Len(fam))  BY ConnTyped DEF Basic, Typed, PageTypes, PageAt
  <1>2. AskIn(conns[c])  BY DEF Basic, AsksOK
  <1>. QED  BY <1>1, <1>2 DEF ConnOf

LEMMA RenewTurns ==
  ASSUME Basic, NEW c \in C, Renew(c)
  PROVE  Basic' /\ TurnOf(c, Renewed(conns[c]))
  <1>1. /\ conns' = [conns EXCEPT ![c] = Renewed(conns[c])]
        /\ UNCHANGED <<server, keyring, up, sessions, chain, sharing, excused, counts>>
    BY DEF Renew
  <1>2. Renewed(conns[c]) \in ConnOf(Len(fam)) /\ Turn(conns[c], Renewed(conns[c]))
    BY Counts, ConnHere, RenewedIs, RenewedTurn DEF Basic
  <1>3. SessionTyped  BY <1>1, SameSession DEF Basic, sessions
  <1>4. excused' \in BOOLEAN  BY <1>1 DEF Basic, Typed, PageTypes, PageAt
  <1>. QED  BY <1>1, <1>2, <1>3, <1>4, QuietTurn DEF sessions

LEMMA MeRefusedTurns ==
  ASSUME Basic, MeRefused, chain.c \in C
  PROVE  Basic' /\ TurnOf(chain.c, Renewed(conns[chain.c]))
  <1>. DEFINE c == chain.c
  <1>1. /\ conns' = [conns EXCEPT ![c] = Renewed(conns[c])]
        /\ chain' = [chain EXCEPT !.pc = "renewing"]
        /\ UNCHANGED <<server, keyring, up, sessions, sharing, excused, counts>>
    BY DEF MeRefused
  <1>2. Renewed(conns[c]) \in ConnOf(Len(fam)) /\ Turn(conns[c], Renewed(conns[c]))
    BY Counts, ConnHere, RenewedIs, RenewedTurn DEF Basic
  <1>3. SessionTyped
    <2>1. chain' \in ChainOf(Len(fam), Len(conns))  BY <1>1, ChainMoves DEF Basic
    <2>. QED  BY <1>1, <2>1 DEF Basic, Typed, PageTypes, PageAt, SessionTyped, sessions
  <1>4. excused' \in BOOLEAN  BY <1>1 DEF Basic, Typed, PageTypes, PageAt
  <1>. QED  BY <1>1, <1>2, <1>3, <1>4, QuietTurn DEF sessions

LEMMA ExpiresTurns ==
  ASSUME Basic, NEW c \in C, Expires(c)
  PROVE  Basic' /\ TurnOf(c, Stale(conns[c]))
  <1>1. /\ conns' = [conns EXCEPT ![c] = Stale(conns[c])]
        /\ UNCHANGED <<server, keyring, up, sessions, chain, sharing, excused, counts>>
    BY DEF Expires, Stale
  <1>2. Stale(conns[c]) \in ConnOf(Len(fam)) /\ Turn(conns[c], Stale(conns[c]))
    <2>1. conns[c] \in ConnOf(Len(fam)) /\ AskIn(conns[c])  BY ConnHere
    <2>. QED  BY <2>1, StaleIs DEF Turn, AskIn
  <1>3. SessionTyped  BY <1>1, SameSession DEF Basic, sessions
  <1>4. excused' \in BOOLEAN  BY <1>1 DEF Basic, Typed, PageTypes, PageAt
  <1>. QED  BY <1>1, <1>2, <1>3, <1>4, QuietTurn DEF sessions

LEMMA ChangePasswordTurns ==
  ASSUME Basic, NEW c \in C, ChangePassword(c)
  PROVE  /\ Basic' /\ \E r \in ReqOf(Len(fam)) : /\ TurnOf(c, WithChg(conns[c], r))
                                                /\ r.pc = "wire" /\ r.tok = None /\ r.ans = None
  <1>. DEFINE r == [Sent(None) EXCEPT !.gen = conns[c].acc]
  <1>1. /\ conns' = [conns EXCEPT ![c] = WithChg(conns[c], r)]
        /\ UNCHANGED <<server, keyring, up, sessions, chain, sharing, excused, counts>>
    BY DEF ChangePassword, WithChg
  <1>2. r \in ReqOf(Len(fam)) /\ r.pc = "wire" /\ r.tok = None /\ r.ans = None
    <2>1. None \in 0..Len(fam) /\ Len(fam) \in Nat  BY Counts DEF Basic, None
    <2>2. Sent(None) \in ReqOf(Len(fam)) /\ Sent(None).pc = "wire" /\ Sent(None).tok = None
          /\ Sent(None).ans = None
      BY <2>1, SentIs
    <2>. QED  BY <2>2, ConnHere DEF ReqOf
  <1>. HIDE DEF r
  <1>3. WithChg(conns[c], r) \in ConnOf(Len(fam)) /\ Turn(conns[c], WithChg(conns[c], r))
    <2>1. conns[c] \in ConnOf(Len(fam)) /\ AskIn(conns[c])  BY ConnHere
    <2>. QED  BY <1>2, <2>1, WithChgIs DEF Turn, AskIn
  <1>4. SessionTyped  BY <1>1, SameSession DEF Basic, sessions
  <1>5. excused' \in BOOLEAN  BY <1>1 DEF Basic, Typed, PageTypes, PageAt
  <1>. QED  BY <1>1, <1>2, <1>3, <1>4, <1>5, QuietTurn DEF sessions

LEMMA AskGoesTurns ==
  ASSUME Basic, NEW c \in C, AskGoes(c)
  PROVE  Basic' /\ TurnOf(c, WithAsk(conns[c], Sent(conns[c].tok)))
  <1>. DEFINE r == Sent(conns[c].tok)
  <1>1. /\ conns' = [conns EXCEPT ![c] = WithAsk(conns[c], r)]
        /\ conns[c].ask.pc = "before" /\ ~conns[c].after
        /\ UNCHANGED <<server, keyring, up, sessions, chain, sharing, excused, counts>>
    BY DEF AskGoes, WithAsk
  <1>2. conns[c] \in ConnOf(Len(fam)) /\ AskIn(conns[c])  BY ConnHere
  <1>3. r \in ReqOf(Len(fam)) /\ r.pc = "wire"  BY ConnHere, Counts, SentIs DEF Basic
  <1>. HIDE DEF r
  <1>4. WithAsk(conns[c], r) \in ConnOf(Len(fam)) /\ Turn(conns[c], WithAsk(conns[c], r))
    BY <1>1, <1>2, <1>3, WithAskIs, IdleIs DEF Turn, AskIn
  <1>5. SessionTyped  BY <1>1, SameSession DEF Basic, sessions
  <1>6. excused' \in BOOLEAN  BY <1>1 DEF Basic, Typed, PageTypes, PageAt
  <1>7. Basic' /\ TurnOf(c, WithAsk(conns[c], r))
    BY <1>1, <1>4, <1>5, <1>6, QuietTurn DEF sessions
  <1>. QED  BY <1>7 DEF r

LEMMA RotateArrivesIs ==
  ASSUME NEW c, RotateArrives(c)
  PROVE  /\ conns' = [conns EXCEPT ![c] = Arrived(conns[c])]
         /\ conns[c].ren.pc = "answered" /\ conns[c].ren.ans # None
         /\ Settle(c, "ok", IF Newest(conns[c]) THEN conns[c].ren.ans ELSE keyring)
         /\ UNCHANGED <<server, up, forgotten, sharing, excused, counts>>
  BY DEF RotateArrives, Arrived, WithTok

LEMMA ArrivedIs ==
  ASSUME NEW m \in Nat, NEW k \in ConnOf(m), k.ren.ans # None
  PROVE  /\ Arrived(k) \in ConnOf(m)
         /\ Arrived(k).tok = IF Newest(k) THEN k.ren.ans ELSE k.tok
         /\ Arrived(k).ren = Idle /\ Arrived(k).chg = k.chg
         /\ Arrived(k).ask = k.ask /\ ~Arrived(k).after
  <1>1. k.ren.ans \in 1..m /\ k.ren.gen \in 0..MaxEnds + 1
    <2>1. k.ren \in ReqOf(m)  BY DEF ConnOf
    <2>. QED  BY <2>1 DEF ReqOf, None
  <1>2. /\ Done(k) \in ConnOf(m)
        /\ Done(k).tok = k.tok /\ Done(k).ren = Idle /\ Done(k).chg = k.chg
        /\ Done(k).ask = k.ask /\ ~Done(k).after
    BY DoneIs
  <1>3. CASE Newest(k)
    <2>1. Arrived(k) = WithTok(Done(k), k.ren.ans, k.ren.gen)  BY <1>3 DEF Arrived
    <2>. QED  BY <1>1, <1>2, <1>3, <2>1, WithTokIs
  <1>4. CASE ~Newest(k)  BY <1>2, <1>4 DEF Arrived
  <1>. QED  BY <1>3, <1>4

LEMMA ArrivedTurn ==
  ASSUME NEW m \in Nat, NEW k \in ConnOf(m), AskIn(k), k.ren.ans # None
  PROVE  Turn(k, Arrived(k))
  <1>1. /\ Arrived(k).ren = Done(k).ren /\ Arrived(k).chg = Done(k).chg
        /\ Arrived(k).ask = Done(k).ask /\ ~Arrived(k).after /\ ~Done(k).after
    BY ArrivedIs, DoneIs
  <1>2. Turn(k, Done(k))  BY DoneTurn
  <1>. QED  BY ONLY <1>1, <1>2 DEF Turn, AskIn

LEMMA RotateArrivesTurns ==
  ASSUME Basic, NEW c \in C, RotateArrives(c)
  PROVE  Basic' /\ TurnOf(c, Arrived(conns[c]))
  <1>1. /\ conns' = [conns EXCEPT ![c] = Arrived(conns[c])]
        /\ conns[c].ren.pc = "answered" /\ conns[c].ren.ans # None
        /\ Settle(c, "ok", IF Newest(conns[c]) THEN conns[c].ren.ans ELSE keyring)
        /\ UNCHANGED <<server, up, forgotten, sharing, excused, counts>>
    BY RotateArrivesIs
  <1>2. Arrived(conns[c]) \in ConnOf(Len(fam)) /\ Turn(conns[c], Arrived(conns[c]))
    BY <1>1, Counts, ConnHere, ArrivedIs, ArrivedTurn DEF Basic
  <1>3. SessionTyped
    <2>1. conns[c].ren.ans \in 0..Len(fam) /\ keyring \in 0..Len(fam)
      BY ConnHere DEF ReqOf, Basic, Typed, PageTypes, PageAt
    <2>2. (IF Newest(conns[c]) THEN conns[c].ren.ans ELSE keyring) \in 0..Len(fam)  BY <2>1
    <2>. QED  BY <1>1, <2>2, SettleTyped DEF Basic
  <1>4. excused' \in BOOLEAN  BY <1>1 DEF Basic, Typed, PageTypes, PageAt
  <1>. QED  BY <1>1, <1>2, <1>3, <1>4, QuietTurn

LEMMA RotateFailsIs ==
  ASSUME NEW c, NEW how \in {"refused", "failed"}, RotateFails(c, how)
  PROVE  /\ conns' = [conns EXCEPT ![c] = Failed(conns[c], how)]
         /\ \/ how = "refused" /\ conns[c].ren.pc = "answered" /\ conns[c].ren.ans = None
            \/ how = "failed" /\ conns[c].ren.pc \in {"wire", "answered"}
         /\ excused' = (excused \/ (how = "failed" /\ conns[c].ren.pc = "answered"))
         /\ \/ conns[c].chg # Idle /\ UNCHANGED <<keyring, list, blocked, waiting, retry, chain>>
            \/ conns[c].chg = Idle /\ Settle(c, IF Newest(conns[c]) THEN how ELSE "ok", keyring)
         /\ UNCHANGED <<server, up, forgotten, sharing, counts>>
  BY DEF RotateFails, Failed, WithRen, Stopped

LEMMA FailedIs ==
  ASSUME NEW m \in Nat, NEW k \in ConnOf(m), NEW how \in {"refused", "failed"}
  PROVE  /\ Failed(k, how) \in ConnOf(m)
         /\ Failed(k, how).tok = k.tok /\ Failed(k, how).chg = k.chg /\ Failed(k, how).ask = k.ask
         /\ \/ Failed(k, how) = Done(k) /\ Failed(k, how).ren = Idle
            \/ /\ k.chg # Idle /\ Failed(k, how).ren = Stopped(k.ren, how)
               /\ Failed(k, how).after = k.after
         /\ k.chg = Idle => Failed(k, how).ren = Idle
  <1>1. CASE k.chg # Idle
    <2>1. Failed(k, how) = WithRen(k, Stopped(k.ren, how))  BY <1>1 DEF Failed
    <2>2. Stopped(k.ren, how) \in ReqOf(m)  BY StoppedIs DEF ConnOf
    <2>. QED  BY <1>1, <2>1, <2>2, WithRenIs
  <1>2. CASE k.chg = Idle
    <2>1. Failed(k, how) = Done(k)  BY <1>2 DEF Failed
    <2>. QED  BY <1>2, <2>1, DoneIs
  <1>. QED  BY <1>1, <1>2

LEMMA FailedTurn ==
  ASSUME NEW m \in Nat, NEW k \in ConnOf(m), AskIn(k), NEW how \in {"refused", "failed"},
         k.ren.pc \in {"wire", "answered"}
  PROVE  Turn(k, Failed(k, how))
  <1>. DEFINE k2 == Failed(k, how)
  <1>1. k2 = Done(k) \/ (k2.ren = Stopped(k.ren, how) /\ (k2.after <=> k.after))  BY FailedIs
  <1>2. k2.chg = k.chg /\ k2.ask = k.ask  BY FailedIs
  <1>3. Turn(k, Done(k))  BY DoneTurn
  <1>4. Stopped(k.ren, how).pc = how /\ Idle.pc = "idle"  BY StoppedIs, IdleIs DEF ConnOf
  <1>. HIDE DEF k2
  <1>5. CASE k2 = Done(k)  BY <1>3, <1>5 DEF k2
  <1>6. CASE k2.ren = Stopped(k.ren, how) /\ (k2.after <=> k.after)
    <2>1. AskIn(k2)  BY <1>2, <1>4, <1>6 DEF AskIn
    <2>. QED  BY <1>2, <2>1 DEF Turn, k2
  <1>. QED  BY <1>1, <1>5, <1>6

LEMMA RotateFailsTurns ==
  ASSUME Basic, NEW c \in C, NEW how \in {"refused", "failed"}, RotateFails(c, how)
  PROVE  Basic' /\ TurnOf(c, Failed(conns[c], how))
  <1>1. /\ conns' = [conns EXCEPT ![c] = Failed(conns[c], how)]
        /\ conns[c].ren.pc \in {"wire", "answered"}
        /\ excused' = (excused \/ (how = "failed" /\ conns[c].ren.pc = "answered"))
        /\ \/ UNCHANGED <<keyring, list, blocked, waiting, retry, chain>>
           \/ Settle(c, IF Newest(conns[c]) THEN how ELSE "ok", keyring)
        /\ UNCHANGED <<server, up, forgotten, sharing, counts>>
    BY RotateFailsIs
  <1>2. Failed(conns[c], how) \in ConnOf(Len(fam)) /\ Turn(conns[c], Failed(conns[c], how))
    BY <1>1, Counts, ConnHere, FailedIs, FailedTurn DEF Basic
  <1>3. SessionTyped
    <2>1. keyring \in 0..Len(fam)  BY DEF Basic, Typed, PageTypes, PageAt
    <2>2. UNCHANGED <<keyring, list, blocked, waiting, retry, chain>> => SessionTyped
      BY SameSession DEF Basic
    <2>. QED  BY <1>1, <2>1, <2>2, SettleTyped DEF Basic
  <1>4. excused' \in BOOLEAN  BY <1>1
  <1>. QED  BY <1>1, <1>2, <1>3, <1>4, QuietTurn

\* What a change that has settled leaves of the rest.
Settles(c, k, changed, key) ==
  \/ keyring' = key /\ UNCHANGED <<list, blocked, waiting, retry, chain>>
  \/ Settle(c, "ok", key)
  \/ ~changed /\ Waits(k) /\ Newest(k) /\ Settle(c, k.ren.pc, key)

LEMMA ChangeSettlesIs ==
  ASSUME NEW c, NEW k, NEW changed \in BOOLEAN, NEW key, ChangeSettles(c, k, changed, key)
  PROVE  conns' = [conns EXCEPT ![c] = Ended(k, changed)] /\ Settles(c, k, changed, key)
  <1>1. conns' = [conns EXCEPT ![c] = Ended(k, changed)]
    BY DEF ChangeSettles, Ended, Freed, Waits
  <1>2. \/ changed /\ Settle(c, "ok", key)
        \/ ~changed /\ Waits(k) /\ Settle(c, IF Newest(k) THEN k.ren.pc ELSE "ok", key)
        \/ keyring' = key /\ UNCHANGED <<list, blocked, waiting, retry, chain>>
    BY DEF ChangeSettles, Waits
  <1>. QED  BY <1>1, <1>2 DEF Settles

Taken(k) == WithTok(k, k.chg.ans, k.chg.gen)

LEMMA ChangeArrivesIs ==
  ASSUME NEW c, ChangeArrives(c)
  PROVE  /\ conns' = [conns EXCEPT ![c] = Ended(Taken(conns[c]), TRUE)]
         /\ conns[c].chg.pc = "answered" /\ conns[c].chg.ans # None
         /\ \/ /\ keyring' = conns[c].chg.ans
               /\ UNCHANGED <<list, blocked, waiting, retry, chain>>
            \/ Settle(c, "ok", conns[c].chg.ans)
         /\ UNCHANGED <<server, up, forgotten, sharing, excused, counts>>
  <1>. DEFINE k == conns[c]  t == Taken(k)
  <1>1. /\ k.chg.pc = "answered" /\ k.chg.ans # None
        /\ \E b \in {TRUE} : ChangeSettles(c, t, b, k.chg.ans)
        /\ UNCHANGED <<server, up, forgotten, sharing, excused, counts>>
    BY DEF ChangeArrives, Taken, WithTok
  <1>. HIDE DEF t
  <1>2. PICK b \in {TRUE} : ChangeSettles(c, t, b, k.chg.ans)  BY <1>1
  <1>3. b \in BOOLEAN  OBVIOUS
  <1>4. conns' = [conns EXCEPT ![c] = Ended(t, b)] /\ Settles(c, t, b, k.chg.ans)
    BY ONLY <1>2, <1>3, ChangeSettlesIs
  <1>. QED  BY <1>1, <1>4 DEF Settles, t

LEMMA ChangeFailsIs ==
  ASSUME NEW c, ChangeFails(c)
  PROVE  /\ conns' = [conns EXCEPT ![c] = Ended(Lost(conns[c]), FALSE)]
         /\ conns[c].chg # Idle
         /\ excused' = (excused \/ (conns[c].chg.pc = "answered" /\ conns[c].chg.ans # None))
         /\ \/ keyring' = keyring /\ UNCHANGED <<list, blocked, waiting, retry, chain>>
            \/ Settle(c, "ok", keyring)
            \/ /\ Waits(Lost(conns[c])) /\ Newest(Lost(conns[c]))
               /\ Settle(c, Lost(conns[c]).ren.pc, keyring)
         /\ UNCHANGED <<server, up, forgotten, sharing, counts>>
  <1>. DEFINE k == conns[c]  t == Lost(k)
  <1>1. /\ k.chg # Idle
        /\ \E b \in {FALSE} : ChangeSettles(c, t, b, keyring)
        /\ excused' = (excused \/ (k.chg.pc = "answered" /\ k.chg.ans # None))
        /\ UNCHANGED <<server, up, forgotten, sharing, counts>>
    BY DEF ChangeFails, Lost, Wanting
  <1>. HIDE DEF t
  <1>2. PICK b \in {FALSE} : ChangeSettles(c, t, b, keyring)  BY <1>1
  <1>3. b \in BOOLEAN  OBVIOUS
  <1>4. conns' = [conns EXCEPT ![c] = Ended(t, b)] /\ Settles(c, t, b, keyring)
    BY ONLY <1>2, <1>3, ChangeSettlesIs
  <1>. QED  BY <1>1, <1>4 DEF Settles, t

LEMMA TakenIs ==
  ASSUME NEW m \in Nat, NEW k \in ConnOf(m), k.chg.ans # None
  PROVE  /\ Taken(k) \in ConnOf(m)
         /\ Taken(k).tok = k.chg.ans /\ Taken(k).ren = k.ren /\ Taken(k).chg = k.chg
         /\ Taken(k).ask = k.ask /\ Taken(k).after = k.after
  <1>1. k.chg.ans \in 1..m /\ k.chg.gen \in 0..MaxEnds + 1
    <2>1. k.chg \in ReqOf(m)  BY DEF ConnOf
    <2>. QED  BY <2>1 DEF ReqOf, None
  <1>. QED  BY <1>1, WithTokIs DEF Taken

LEMMA LostIs ==
  ASSUME NEW m, NEW k \in ConnOf(m)
  PROVE  /\ Lost(k) \in ConnOf(m)
         /\ Lost(k).tok = k.tok /\ Lost(k).ren = k.ren /\ Lost(k).chg = k.chg
         /\ Lost(k).ask = k.ask /\ Lost(k).after = k.after
  BY WantingIs DEF Lost

\* A connection that differs in its token and what it wants only has the same asks.
LEMMA SameTurn ==
  ASSUME NEW k, NEW k2, AskIn(k), k2.ren = k.ren, k2.chg = k.chg, k2.ask = k.ask, k2.after = k.after
  PROVE  Turn(k, k2)
  BY DEF Turn, AskIn

LEMMA ChangeArrivesTurns ==
  ASSUME Basic, NEW c \in C, ChangeArrives(c)
  PROVE  Basic' /\ TurnOf(c, Ended(Taken(conns[c]), TRUE))
  <1>. DEFINE k == conns[c]  t == Taken(k)  k2 == Ended(t, TRUE)
  <1>1. /\ conns' = [conns EXCEPT ![c] = k2]
        /\ k.chg.ans # None
        /\ \/ keyring' = k.chg.ans /\ UNCHANGED <<list, blocked, waiting, retry, chain>>
           \/ Settle(c, "ok", k.chg.ans)
        /\ UNCHANGED <<server, up, forgotten, sharing, excused, counts>>
    BY ChangeArrivesIs
  <1>2. t \in ConnOf(Len(fam)) /\ Turn(k, t)  BY <1>1, Counts, ConnHere, TakenIs, SameTurn DEF Basic
  <1>. HIDE DEF t
  <1>3. k2 \in ConnOf(Len(fam)) /\ Turn(t, k2)  BY <1>2, Counts, EndedIs, EndedTurn DEF Basic, Turn
  <1>. HIDE DEF k2
  <1>4. Turn(k, k2)  BY <1>2, <1>3 DEF Turn
  <1>5. SessionTyped
    <2>1. k.chg.ans \in 0..Len(fam)  BY ConnHere DEF ReqOf
    <2>2. keyring' = k.chg.ans /\ UNCHANGED <<list, blocked, waiting, retry, chain>> => SessionTyped
      BY <2>1 DEF Basic, Typed, PageTypes, PageAt, SessionTyped
    <2>. QED  BY <1>1, <2>1, <2>2, SettleTyped DEF Basic
  <1>6. excused' \in BOOLEAN  BY <1>1 DEF Basic, Typed, PageTypes, PageAt
  <1>7. Basic' /\ TurnOf(c, k2)  BY <1>1, <1>3, <1>4, <1>5, <1>6, QuietTurn
  <1>. QED  BY <1>7 DEF k2, t

LEMMA ChangeFailsTurns ==
  ASSUME Basic, NEW c \in C, ChangeFails(c)
  PROVE  Basic' /\ TurnOf(c, Ended(Lost(conns[c]), FALSE))
  <1>. DEFINE k == conns[c]  t == Lost(k)  k2 == Ended(t, FALSE)
  <1>1. /\ conns' = [conns EXCEPT ![c] = k2]
        /\ excused' \in BOOLEAN
        /\ \/ keyring' = keyring /\ UNCHANGED <<list, blocked, waiting, retry, chain>>
           \/ Settle(c, "ok", keyring)
           \/ Settle(c, t.ren.pc, keyring)
        /\ UNCHANGED <<server, up, forgotten, sharing, counts>>
    BY ChangeFailsIs
  <1>2. t \in ConnOf(Len(fam)) /\ Turn(k, t)  BY Counts, ConnHere, LostIs, SameTurn DEF Basic
  <1>. HIDE DEF t
  <1>3. k2 \in ConnOf(Len(fam)) /\ Turn(t, k2)  BY <1>2, Counts, EndedIs, EndedTurn DEF Basic, Turn
  <1>. HIDE DEF k2
  <1>4. Turn(k, k2)  BY <1>2, <1>3 DEF Turn
  <1>5. SessionTyped
    <2>1. keyring \in 0..Len(fam)  BY DEF Basic, Typed, PageTypes, PageAt
    <2>2. keyring' = keyring /\ UNCHANGED <<list, blocked, waiting, retry, chain>> => SessionTyped
      BY SameSession DEF Basic
    <2>. QED  BY <1>1, <2>1, <2>2, SettleTyped DEF Basic
  <1>6. Basic' /\ TurnOf(c, k2)  BY <1>1, <1>3, <1>4, <1>5, QuietTurn
  <1>. QED  BY <1>6 DEF k2, t

LEMMA AskSettlesIs ==
  ASSUME Basic, NEW c \in C, NEW lost \in BOOLEAN, AskSettles(c, lost)
  PROVE  /\ conns' = [conns EXCEPT ![c] = AskDone(conns[c])]
         /\ conns[c].ask.pc \in {"wire", "answered"} /\ conns[c].ask # Idle
         /\ run.pc = "ask" /\ run.c = c
         /\ run' \in RunOf(Len(fam), Len(conns)) /\ run'.pc \in {"end", "save"}
         /\ (run'.signedIn <=> run.signedIn) /\ run'.tok \in {None, conns[c].ask.ans}
         /\ UNCHANGED <<server, keyring, up, sessions, chain, kept, looked, keys, queue, excused, counts>>
  <1>. DEFINE k == conns[c]
              a == IF lost THEN None ELSE k.ask.ans
              pc == IF a = None THEN "end" ELSE "save"
  <1>1. /\ conns' = [conns EXCEPT ![c] = AskDone(k)]
        /\ k.ask.pc \in {"wire", "answered"}
        /\ UNCHANGED <<server, keyring, up, sessions, chain, kept, looked, keys, queue, excused, counts>>
    BY DEF AskSettles, AskDone
  <1>2. run' = [run EXCEPT !.pc = pc, !.tok = a]  BY DEF AskSettles
  <1>3. a \in 0..Len(fam) /\ a \in {None, k.ask.ans} /\ pc \in {"end", "save"}
    <2>1. k.ask.ans \in 0..Len(fam)  BY ConnHere DEF ReqOf
    <2>. QED  BY <2>1, Counts DEF None, Basic
  <1>4. run \in RunOf(Len(fam), Len(conns))  BY DEF Basic, Typed, PageTypes, PageAt
  <1>. HIDE DEF a, pc
  <1>5. /\ run' \in RunOf(Len(fam), Len(conns)) /\ run'.pc = pc
        /\ run'.signedIn = run.signedIn /\ run'.tok = a
    BY <1>2, <1>3, <1>4 DEF RunOf
  <1>6. k.ask # Idle  BY <1>1, IdleIs
  <1>7. run.pc = "ask" /\ run.c = c  BY <1>6 DEF Basic, AsksOK
  <1>. QED  BY <1>1, <1>3, <1>5, <1>6, <1>7

LEMMA AskSettlesTurns ==
  ASSUME Basic, NEW c \in C, NEW lost \in BOOLEAN, AskSettles(c, lost)
  PROVE  Basic' /\ TurnOf(c, AskDone(conns[c]))
  <1>1. /\ conns' = [conns EXCEPT ![c] = AskDone(conns[c])]
        /\ conns[c].ask.pc \in {"wire", "answered"} /\ conns[c].ask # Idle
        /\ run.pc = "ask" /\ run.c = c
        /\ run' \in RunOf(Len(fam), Len(conns))
        /\ UNCHANGED <<server, keyring, up, sessions, chain, kept, looked, keys, queue, excused, counts>>
    BY AskSettlesIs
  <1>2. AskDone(conns[c]) \in ConnOf(Len(fam)) /\ AskIn(AskDone(conns[c])) /\ AskDone(conns[c]).ask = Idle
    BY <1>1, Counts, ConnHere, AskDoneIs, AskDoneTurn DEF Basic
  <1>3. ServerTypes' /\ fam' = fam  BY <1>1, ServerStays DEF Basic, Typed, server
  <1>4. Typed' /\ TurnOf(c, AskDone(conns[c]))
    <2>1. SessionTyped  BY <1>1, SameSession DEF Basic, sessions
    <2>2. queue' \in Seq(QueuedOf(Len(conns))) /\ excused' \in BOOLEAN
      BY <1>1, <1>3 DEF Basic, Typed, PageTypes, PageAt
    <2>. QED  BY <1>1, <1>2, <1>3, <2>1, <2>2, TurnTyped DEF Basic, SessionTyped, TurnOf, sessions
  <1>5. ASSUME NEW d \in C' PROVE AskIn(conns'[d]) /\ conns'[d].ask = Idle
    <2>1. CASE d = c  BY <1>2, <1>4, <2>1 DEF TurnOf
    <2>2. CASE d # c  BY <1>1, <1>4, <2>2 DEF TurnOf, Basic, AsksOK
    <2>. QED  BY <2>1, <2>2
  <1>6. \A d \in C' : AskIn(conns'[d]) /\ (conns'[d].ask # Idle => run'.pc = "ask" /\ run'.c = d)
    BY <1>5
  <1>7. AsksOK'  BY <1>6 DEF AsksOK, AskIn
  <1>. QED  BY <1>4, <1>7 DEF Basic

\* The queue's first run is taken.
LEMMA QueueTaken ==
  ASSUME NEW S, NEW s \in Seq(S), s # <<>>,
         NEW s2, s2 = SubSeq(s, 1, NextRun - 1) \o SubSeq(s, NextRun + 1, Len(s))
  PROVE  /\ s2 \in Seq(S) /\ Len(s2) = Len(s) - 1 /\ s[NextRun] \in S /\ NextRun \in 1..Len(s)
         /\ \A i \in 1..Len(s) - 1 : s2[i] = s[i + 1]
  <1>1. Len(s) \in Nat \ {0}  BY EmptySeq
  <1>2. NextRun = 1 /\ NextRun \in 1..Len(s)  BY <1>1 DEF NextRun
  <1>3. \A i \in 1..Len(s) : s[i] \in S  BY ElementOfSeq
  <1>4. SubSeq(s, 1, NextRun - 1) = <<>>  BY <1>2, SubSeqEmpty
  <1>5. SubSeq(s, NextRun + 1, Len(s)) = Tail(s)  BY <1>2, TailIsSubSeq
  <1>6. Tail(s) \in Seq(S) /\ Len(Tail(s)) = Len(s) - 1 /\ \A i \in 1..Len(Tail(s)) : Tail(s)[i] = s[i + 1]
    BY HeadTailProperties
  <1>7. s2 = Tail(s)
    <2>1. s2 = <<>> \o Tail(s)  BY <1>4, <1>5
    <2>. QED  BY <1>6, <2>1, ConcatEmptySeq
  <1>. QED  BY <1>2, <1>3, <1>6, <1>7

LEMMA RunStartsIs ==
  ASSUME Basic, NEW old \in BOOLEAN, RunStarts(old)
  PROVE  /\ run = NoRun /\ queue # <<>> /\ 1 \in 1..Len(queue) /\ Len(queue) \in Nat
         /\ queue' \in Seq(QueuedOf(Len(conns))) /\ Len(queue') = Len(queue) - 1
         /\ \A i \in 1..Len(queue) - 1 : queue'[i] = queue[i + 1]
         /\ run' \in RunOf(Len(fam), Len(conns)) /\ (run'.signedIn <=> queue[1].signedIn)
         /\ run'.tok = None
         /\ \/ run'.pc = "end" /\ conns' = conns
            \/ /\ run'.pc = "ask" /\ run'.c \in C
               /\ conns' = [conns EXCEPT ![run'.c] = AskBegun(conns[run'.c])]
         /\ UNCHANGED <<server, keyring, up, sessions, chain, kept, looked, keys, excused, counts>>
  <1>. DEFINE r == queue[NextRun]
              asks == r.c # 0 /\ (kept = None \/ old)
              pc == IF asks THEN "ask" ELSE "end"
  <1>1. /\ run = NoRun /\ queue # <<>>
        /\ queue' = SubSeq(queue, 1, NextRun - 1) \o SubSeq(queue, NextRun + 1, Len(queue))
        /\ run' = [r EXCEPT !.pc = pc]
        /\ UNCHANGED <<server, keyring, up, sessions, chain, kept, looked, keys, excused, counts>>
    BY DEF RunStarts
  <1>2. conns' = IF asks THEN [conns EXCEPT ![r.c] = AskBegun(conns[r.c])] ELSE conns
    BY DEF RunStarts, AskBegun, Before
  <1>3. /\ queue' \in Seq(QueuedOf(Len(conns))) /\ Len(queue') = Len(queue) - 1
        /\ r \in QueuedOf(Len(conns)) /\ NextRun \in 1..Len(queue)
        /\ \A i \in 1..Len(queue) - 1 : queue'[i] = queue[i + 1]
    <2>1. queue \in Seq(QueuedOf(Len(conns)))  BY DEF Basic, Typed, PageTypes, PageAt
    <2>. QED  BY <1>1, <2>1, QueueTaken
  <1>4. r = queue[1] /\ 1 \in 1..Len(queue) /\ Len(queue) \in Nat
    <2>1. Len(queue) \in Nat  BY LenProperties DEF Basic, Typed, PageTypes, PageAt
    <2>. QED  BY <1>3, <2>1 DEF NextRun
  <1>5. pc \in {"ask", "end"} /\ (asks => pc = "ask" /\ r.c # 0) /\ (~asks => pc = "end")  OBVIOUS
  <1>6. r.c \in 0..Len(conns) /\ r.signedIn \in BOOLEAN  BY <1>3 DEF QueuedOf
  <1>. HIDE DEF r, asks, pc
  <1>7. /\ run' \in RunOf(Len(fam), Len(conns)) /\ run'.pc = pc /\ run'.c = r.c
        /\ run'.signedIn = r.signedIn /\ run'.tok = None
    <2>1. 0 \in 0..Len(fam)  BY Counts DEF Basic
    <2>. QED  BY <1>1, <1>3, <1>5, <2>1 DEF QueuedOf, RunOf, None
  <1>8. asks => r.c \in C  BY <1>5, <1>6, Counts DEF Basic
  <1>9. \/ run'.pc = "end" /\ conns' = conns
        \/ /\ run'.pc = "ask" /\ run'.c \in C
           /\ conns' = [conns EXCEPT ![run'.c] = AskBegun(conns[run'.c])]
    BY <1>2, <1>5, <1>7, <1>8
  <1>. QED  BY <1>1, <1>3, <1>4, <1>7, <1>9

\* The one run that could ask is the one that does.
LEMMA RunStartsTurns ==
  ASSUME Basic, NEW old \in BOOLEAN, RunStarts(old)
  PROVE  /\ Basic'
         /\ (conns' = conns \/ TurnOf(run'.c, AskBegun(conns[run'.c])))
  <1>1. /\ run = NoRun
        /\ queue' \in Seq(QueuedOf(Len(conns)))
        /\ run' \in RunOf(Len(fam), Len(conns))
        /\ \/ run'.pc = "end" /\ conns' = conns
           \/ /\ run'.pc = "ask" /\ run'.c \in C
              /\ conns' = [conns EXCEPT ![run'.c] = AskBegun(conns[run'.c])]
        /\ UNCHANGED <<server, keyring, up, sessions, chain, kept, looked, keys, excused, counts>>
    BY RunStartsIs
  <1>2. \A d \in C : conns[d].ask = Idle /\ AskIn(conns[d])
    <2>1. run.pc # "ask"  BY <1>1 DEF NoRun
    <2>. QED  BY <2>1 DEF Basic, AsksOK
  <1>3. ServerTypes' /\ fam' = fam  BY <1>1, ServerStays DEF Basic, Typed, server
  <1>4. SessionTyped /\ excused' \in BOOLEAN
    BY <1>1, SameSession DEF Basic, sessions, Typed, PageTypes, PageAt
  <1>5. CASE run'.pc = "end" /\ conns' = conns
    <2>1. Typed'  BY <1>1, <1>3, <1>5 DEF Basic, Typed, PageTypes, PageAt, sessions
    <2>2. C' = C /\ \A d \in C' : AskIn(conns'[d]) /\ (conns'[d].ask # Idle => run'.pc = "ask" /\ run'.c = d)
      BY <1>2, <1>5 DEF C
    <2>3. AsksOK'  BY <2>2 DEF AsksOK, AskIn
    <2>. QED  BY <1>5, <2>1, <2>3 DEF Basic
  <1>6. CASE /\ run'.pc = "ask" /\ run'.c \in C
             /\ conns' = [conns EXCEPT ![run'.c] = AskBegun(conns[run'.c])]
    <2>. DEFINE c == run'.c  k2 == AskBegun(conns[run'.c])
    <2>1. k2 \in ConnOf(Len(fam)) /\ AskIn(k2)
      BY <1>2, <1>6, Counts, ConnHere, AskBegunIs, AskBegunTurn DEF Basic
    <2>. HIDE DEF k2
    <2>2. conns' = [conns EXCEPT ![c] = k2]  BY <1>6 DEF k2
    <2>. HIDE DEF c
    <2>3. c \in C  BY <1>6 DEF c
    <2>4. Typed' /\ TurnOf(c, k2)
      BY <1>1, <1>3, <1>4, <2>1, <2>2, <2>3, TurnTyped DEF Basic, SessionTyped, TurnOf, sessions
    <2>5. ASSUME NEW d \in C'
          PROVE  AskIn(conns'[d]) /\ (conns'[d].ask # Idle => run'.pc = "ask" /\ run'.c = d)
      <3>1. CASE d = c  BY <1>6, <2>1, <2>4, <3>1 DEF TurnOf, c
      <3>2. CASE d # c  BY <1>2, <2>4, <3>2 DEF TurnOf
      <3>. QED  BY <3>1, <3>2
    <2>6. \A d \in C' : AskIn(conns'[d]) /\ (conns'[d].ask # Idle => run'.pc = "ask" /\ run'.c = d)
      BY <2>5
    <2>7. AsksOK'  BY <2>6 DEF AsksOK, AskIn
    <2>. QED  BY <2>4, <2>7 DEF Basic, c, k2
  <1>. QED  BY <1>1, <1>5, <1>6

\* The server answers a connection's request.
LEMMA AnswerTurns ==
  ASSUME Basic, ServerTypes', Len(fam') \in {Len(fam), Len(fam) + 1},
         NEW c \in C, NEW k2 \in ConnOf(Len(fam')), conns' = [conns EXCEPT ![c] = k2],
         UNCHANGED <<keyring, up, sessions, chain, sharing, excused>>, Turn(conns[c], k2)
  PROVE  Basic' /\ TurnOf(c, k2)
  <1>1. PageAt(Len(fam'), Len(conns))  BY StillTyped DEF Basic
  <1>2. /\ keyring' \in 0..Len(fam') /\ chain' \in ChainOf(Len(fam'), Len(conns))
        /\ retry' \in RetryOf(Len(conns)) /\ list' \in 0..Len(conns)
        /\ waiting' \in {"none", "trying", "failed"} /\ run' \in RunOf(Len(fam'), Len(conns))
        /\ queue' \in Seq(QueuedOf(Len(conns)))
        /\ blocked' \in BOOLEAN /\ excused' \in BOOLEAN
    BY <1>1 DEF PageAt, sessions, sharing
  <1>3. UNCHANGED <<kept, up, forgotten, looked, run>>  BY DEF sessions, sharing
  <1>4. /\ Typed' /\ Len(conns') = Len(conns) /\ C' = C
        /\ conns'[c] = k2 /\ \A d \in C : d # c => conns'[d] = conns[d]
    BY <1>2, <1>3, TurnTyped DEF Basic
  <1>5. AsksOK'  BY <1>3, <1>4, TurnAsks DEF Basic, Turn
  <1>. QED  BY <1>4, <1>5 DEF Basic, TurnOf

RenAnswered(k) == WithRen(k, Answered(k.ren))
ChgAnswered(k) == WithChg(k, Answered(k.chg))
AskAnswered(k) == WithAsk(k, Answered(k.ask))

LEMMA ServerRotatesTurns ==
  ASSUME Basic, NEW c \in C, ServerRotates(c)
  PROVE  /\ Basic' /\ TurnOf(c, RenAnswered(conns[c]))
         /\ RenAnswered(conns[c]) = WithRen(conns[c], Answered(conns[c].ren))
         /\ UNCHANGED <<keyring, up, sessions, chain, sharing, excused, counts>>
  <1>. DEFINE k == conns[c]  k2 == RenAnswered(k)
  <1>1. /\ k.ren.pc = "wire" /\ Rotate(k.ren) /\ conns' = [conns EXCEPT ![c] = k2]
        /\ UNCHANGED <<keyring, up, sessions, chain, sharing, excused, counts>>
    BY DEF ServerRotates, RenAnswered, WithRen
  <1>2. ServerTypes' /\ Len(fam') \in {Len(fam), Len(fam) + 1}
    BY <1>1, RotateIs DEF Basic, Typed, Grown
  <1>3. k \in ConnOf(Len(fam)) /\ AskIn(k) /\ k.ren \in ReqOf(Len(fam))  BY ConnHere
  <1>4. k \in ConnOf(Len(fam'))  BY <1>2, <1>3, Counts, WiderConn DEF Basic
  <1>5. Answered(k.ren) \in ReqOf(Len(fam')) /\ Answered(k.ren).pc = "answered"
    BY <1>2, <1>3, AnsweredIs DEF Basic, Typed
  <1>6. /\ k2 \in ConnOf(Len(fam')) /\ k2.ren = Answered(k.ren) /\ k2.chg = k.chg
        /\ k2.ask = k.ask /\ (k2.after <=> k.after)
    BY <1>4, <1>5, WithRenIs DEF RenAnswered
  <1>. HIDE DEF k2
  <1>7. Turn(k, k2)  BY <1>1, <1>3, <1>5, <1>6, IdleIs DEF Turn, AskIn
  <1>8. Basic' /\ TurnOf(c, k2)  BY <1>1, <1>2, <1>6, <1>7, AnswerTurns
  <1>. QED  BY <1>1, <1>8 DEF k2, RenAnswered

LEMMA ServerChangesIs ==
  ASSUME NEW c, ServerChanges(c)
  PROVE  /\ conns[c].chg.pc = "wire" /\ conns' = [conns EXCEPT ![c] = ChgAnswered(conns[c])]
         /\ \/ /\ CanGive /\ gen <= MaxEnds
               /\ fam' = Append(fam, NewFamily) /\ live' = {New} /\ gen' = gen + 1
            \/ UNCHANGED server
         /\ UNCHANGED <<keyring, up, sessions, chain, sharing, excused, counts>>
  BY DEF ServerChanges, ChgAnswered, WithChg

LEMMA ServerChangesTurns ==
  ASSUME Basic, NEW c \in C, ServerChanges(c)
  PROVE  /\ Basic' /\ TurnOf(c, ChgAnswered(conns[c]))
         /\ \/ Grown(New) /\ live' = {New}
            \/ fam' = fam /\ live' = live
  <1>. DEFINE k == conns[c]  k2 == ChgAnswered(k)
  <1>1. /\ k.chg.pc = "wire" /\ conns' = [conns EXCEPT ![c] = k2]
        /\ \/ /\ CanGive /\ gen <= MaxEnds
              /\ fam' = Append(fam, NewFamily) /\ live' = {New} /\ gen' = gen + 1
           \/ UNCHANGED server
        /\ UNCHANGED <<keyring, up, sessions, chain, sharing, excused, counts>>
    BY ServerChangesIs
  <1>2. ServerTypes' /\ ((Grown(New) /\ live' = {New}) \/ (fam' = fam /\ live' = live))
    <2>1. CASE /\ CanGive /\ gen <= MaxEnds
               /\ fam' = Append(fam, NewFamily) /\ live' = {New} /\ gen' = gen + 1
      <3>1. gen' \in 1..MaxEnds + 1  BY <2>1, Sizes DEF Basic, Typed, ServerTypes
      <3>2. live' \subseteq live \union {New} /\ ServerTypes  BY <2>1 DEF Basic, Typed
      <3>3. CanGive /\ fam' = Append(fam, NewFamily)  BY <2>1
      <3>4. ServerTypes' /\ Grown(New)  BY ONLY <3>1, <3>2, <3>3, GivesIs
      <3>. QED  BY <2>1, <3>4
    <2>2. CASE UNCHANGED server  BY <2>2, ServerStays DEF Basic, Typed, server
    <2>. QED  BY <1>1, <2>1, <2>2
  <1>3. Len(fam') \in {Len(fam), Len(fam) + 1}  BY <1>2 DEF Grown
  <1>4. k \in ConnOf(Len(fam)) /\ AskIn(k) /\ k.chg \in ReqOf(Len(fam))  BY ConnHere
  <1>5. k \in ConnOf(Len(fam'))  BY <1>2, <1>3, <1>4, Counts, WiderConn, LenProperties DEF Basic, ServerTypes
  <1>6. Answered(k.chg) \in ReqOf(Len(fam')) /\ Answered(k.chg).pc = "answered"
    BY <1>2, <1>3, <1>4, AnsweredIs DEF Basic, Typed
  <1>7. /\ k2 \in ConnOf(Len(fam')) /\ k2.ren = k.ren /\ k2.chg = Answered(k.chg)
        /\ k2.ask = k.ask /\ (k2.after <=> k.after)
    BY <1>5, <1>6, WithChgIs DEF ChgAnswered
  <1>. HIDE DEF k2
  <1>8. Turn(k, k2)  BY <1>4, <1>6, <1>7 DEF Turn, AskIn
  <1>9. Basic' /\ TurnOf(c, k2)  BY <1>1, <1>2, <1>3, <1>7, <1>8, AnswerTurns
  <1>. QED  BY <1>2, <1>9 DEF k2

LEMMA ServerSharesIs ==
  ASSUME NEW c, ServerShares(c)
  PROVE  /\ conns[c].ask.pc = "wire" /\ conns' = [conns EXCEPT ![c] = AskAnswered(conns[c])]
         /\ \/ /\ conns[c].ask.tok \in live /\ CanGive
               /\ fam' = Append(fam, NewFamily) /\ live' = live \union {New}
            \/ /\ conns[c].ask.tok \notin live
               /\ fam' = fam /\ live' = live \ Family(conns[c].ask.tok)
         /\ UNCHANGED <<gen, keyring, up, sessions, chain, sharing, excused, counts>>
  BY DEF ServerShares, AskAnswered, WithAsk

LEMMA ServerSharesTurns ==
  ASSUME Basic, NEW c \in C, ServerShares(c)
  PROVE  /\ Basic' /\ TurnOf(c, AskAnswered(conns[c]))
         /\ \/ Grown(New) /\ live' = live \union {New}
            \/ /\ conns[c].ask.tok \notin live
               /\ fam' = fam /\ live' = live \ Family(conns[c].ask.tok)
  <1>. DEFINE k == conns[c]  k2 == AskAnswered(k)
  <1>1. /\ k.ask.pc = "wire" /\ conns' = [conns EXCEPT ![c] = k2]
        /\ \/ /\ CanGive
              /\ fam' = Append(fam, NewFamily) /\ live' = live \union {New}
           \/ /\ k.ask.tok \notin live
              /\ fam' = fam /\ live' = live \ Family(k.ask.tok)
        /\ UNCHANGED <<gen, keyring, up, sessions, chain, sharing, excused, counts>>
    BY ServerSharesIs
  <1>2. /\ ServerTypes'
        /\ \/ Grown(New) /\ live' = live \union {New}
           \/ k.ask.tok \notin live /\ fam' = fam /\ live' = live \ Family(k.ask.tok)
    <2>1. CASE CanGive /\ fam' = Append(fam, NewFamily) /\ live' = live \union {New}
      <3>1. gen' \in 1..MaxEnds + 1  BY <1>1 DEF Basic, Typed, ServerTypes
      <3>. QED  BY <2>1, <3>1, GivesIs DEF Basic, Typed
    <2>2. CASE k.ask.tok \notin live /\ fam' = fam /\ live' = live \ Family(k.ask.tok)
      BY <1>1, <2>2 DEF Basic, Typed, ServerTypes, Tokens
    <2>. QED  BY <1>1, <2>1, <2>2
  <1>3. Len(fam') \in {Len(fam), Len(fam) + 1}  BY <1>2 DEF Grown
  <1>4. k \in ConnOf(Len(fam)) /\ AskIn(k) /\ k.ask \in ReqOf(Len(fam))  BY ConnHere
  <1>5. k \in ConnOf(Len(fam'))  BY <1>2, <1>3, <1>4, Counts, WiderConn, LenProperties DEF Basic, ServerTypes
  <1>6. Answered(k.ask) \in ReqOf(Len(fam')) /\ Answered(k.ask).pc = "answered"
    BY <1>2, <1>3, <1>4, AnsweredIs DEF Basic, Typed
  <1>7. /\ k2 \in ConnOf(Len(fam')) /\ k2.ren = k.ren /\ k2.chg = k.chg
        /\ k2.ask = Answered(k.ask) /\ (k2.after <=> k.after)
    BY <1>5, <1>6, WithAskIs DEF AskAnswered
  <1>. HIDE DEF k2
  <1>8. Turn(k, k2)  BY <1>1, <1>4, <1>6, <1>7, IdleIs DEF Turn, AskIn
  <1>9. Basic' /\ TurnOf(c, k2)  BY <1>1, <1>2, <1>3, <1>7, <1>8, AnswerTurns
  <1>. QED  BY <1>2, <1>9 DEF k2

-----------------------------------------------------------------------------
(* Steps that no connection takes                                          *)

\* The app's side but for the connections.
RestTyped(m, n) ==
  /\ keyring' \in 0..m /\ kept' \in 0..m
  /\ chain' \in ChainOf(m, n) /\ retry' \in RetryOf(n)
  /\ list' \in 0..n /\ waiting' \in {"none", "trying", "failed"}
  /\ run' \in RunOf(m, n) /\ queue' \in Seq(QueuedOf(n))
  /\ up' \in BOOLEAN /\ forgotten' \in BOOLEAN /\ blocked' \in BOOLEAN
  /\ looked' \in BOOLEAN /\ excused' \in BOOLEAN

LEMMA StillBasic ==
  ASSUME Basic, UNCHANGED <<fam, conns, gen>>, live' \subseteq Tokens, RestTyped(Len(fam), Len(conns)),
         run' = run \/ run.pc # "ask"
  PROVE  Basic' /\ C' = C
  <1>1. Typed'  BY DEF Basic, Typed, ServerTypes, Tokens, PageTypes, PageAt, RestTyped
  <1>2. ASSUME NEW d \in C' PROVE AskIn(conns'[d]) /\ (conns'[d].ask # Idle => run'.pc = "ask" /\ run'.c = d)
    BY DEF Basic, AsksOK, C
  <1>3. \A d \in C' : AskIn(conns'[d]) /\ (conns'[d].ask # Idle => run'.pc = "ask" /\ run'.c = d)
    BY <1>2
  <1>4. AsksOK'  BY <1>3 DEF AsksOK, AskIn
  <1>. QED  BY <1>1, <1>4 DEF Basic, C

LEMMA Rest == ASSUME Basic PROVE PageAt(Len(fam), Len(conns)) /\ live \subseteq Tokens
  BY DEF Basic, Typed, ServerTypes, PageTypes

LEMMA HealthSaysTyped ==
  ASSUME Basic, NEW b \in BOOLEAN, HealthSays(b) PROVE Basic' /\ C' = C
  <1>1. UNCHANGED <<server, keyring, up, forgotten, conns, sharing, excused, counts>>
    BY DEF HealthSays
  <1>2. \/ /\ chain' = NoChain /\ (blocked' = blocked \/ blocked' = TRUE)
           /\ (retry' = NoRetry /\ UNCHANGED waiting) \/ (waiting' = "none" /\ retry' = NoRetry)
           /\ list' \in {list, 0}
        \/ /\ chain' = [chain EXCEPT !.pc = "refresh", !.req = Sent(chain.req.tok)]
           /\ UNCHANGED <<list, waiting, blocked, retry>>
    BY DEF HealthSays, StopWaiting
  <1>3. chain.req.tok \in 0..Len(fam) /\ chain \in ChainOf(Len(fam), Len(conns))
    BY Rest DEF PageAt, ChainOf, ReqOf
  <1>4. Sent(chain.req.tok) \in ReqOf(Len(fam))  BY <1>3, Counts, SentIs DEF Basic
  <1>5. [chain EXCEPT !.pc = "refresh", !.req = Sent(chain.req.tok)] \in ChainOf(Len(fam), Len(conns))
    BY <1>3, <1>4 DEF ChainOf
  <1>6. NoChain \in ChainOf(Len(fam), Len(conns)) /\ NoRetry \in RetryOf(Len(conns)) /\ 0 \in 0..Len(conns)
    BY NoChainIs, NoRetryIs, Counts DEF Basic
  <1>7. RestTyped(Len(fam), Len(conns))
    BY <1>1, <1>2, <1>5, <1>6, Rest DEF PageAt, RestTyped, sharing
  <1>. QED  BY <1>1, <1>7, StillBasic, Rest DEF server, sharing

LEMMA RefreshFailsTyped ==
  ASSUME Basic, RefreshFails PROVE Basic' /\ C' = C
  <1>1. /\ UNCHANGED <<server, keyring, up, forgotten, list, blocked, conns, sharing, counts>>
        /\ chain' = NoChain /\ waiting' = "failed" /\ retry' = [is |-> "timer", api |-> retry.api]
        /\ excused' \in BOOLEAN
    BY DEF RefreshFails, Wait
  <1>2. NoChain \in ChainOf(Len(fam), Len(conns))  BY NoChainIs DEF Basic
  <1>3. retry' \in RetryOf(Len(conns))  BY <1>1, Rest DEF PageAt, RetryOf
  <1>4. RestTyped(Len(fam), Len(conns))  BY <1>1, <1>2, <1>3, Rest DEF PageAt, RestTyped, sharing
  <1>. QED  BY <1>1, <1>4, StillBasic, Rest DEF server, sharing

LEMMA AgainTyped ==
  ASSUME Basic, Again PROVE Basic' /\ C' = C
  <1>1. /\ UNCHANGED <<server, keyring, up, forgotten, list, blocked, conns, sharing, excused, counts>>
        /\ \/ /\ chain' = [NoChain EXCEPT !.pc = "me", !.c = retry.api]
              /\ retry' = [retry EXCEPT !.is = "busy"] /\ waiting' = "trying"
           \/ waiting' = "none" /\ retry' = NoRetry /\ chain' = chain
           \/ /\ chain' = [NoChain EXCEPT !.pc = "health", !.req.tok = keyring]
              /\ retry' = [retry EXCEPT !.is = "busy"] /\ waiting' = "trying"
    BY DEF Again, StopWaiting
  <1>2. retry.api \in 0..Len(conns) /\ keyring \in 0..Len(fam) /\ retry \in RetryOf(Len(conns))
    BY Rest DEF PageAt, RetryOf
  <1>3. NoRetry \in RetryOf(Len(conns)) /\ [retry EXCEPT !.is = "busy"] \in RetryOf(Len(conns))
    BY <1>2, NoRetryIs DEF Basic, RetryOf
  <1>4. [NoChain EXCEPT !.pc = "me", !.c = retry.api] \in ChainOf(Len(fam), Len(conns))
    BY <1>2, NoChainIs DEF Basic, ChainOf
  <1>5. [NoChain EXCEPT !.pc = "health", !.req.tok = keyring] \in ChainOf(Len(fam), Len(conns))
    BY <1>2, NoChainIs, IdleIs DEF Basic, ChainOf, ReqOf
  <1>6. RestTyped(Len(fam), Len(conns))
    BY <1>1, <1>3, <1>4, <1>5, Rest DEF PageAt, RestTyped, sharing
  <1>. QED  BY <1>1, <1>6, StillBasic, Rest DEF server, sharing

LEMMA MeAnswersTyped ==
  ASSUME Basic, MeAnswers PROVE Basic' /\ C' = C
  <1>1. /\ UNCHANGED <<fam, gen, keyring, up, forgotten, conns, sharing, excused, counts>>
        /\ chain' = NoChain /\ live' \subseteq live
        /\ \/ UNCHANGED <<list, blocked, waiting, retry>>
           \/ list' = chain.c /\ blocked' = FALSE /\ waiting' = "none" /\ retry' = NoRetry
    BY DEF MeAnswers, Arrive, StopWaiting
  <1>2. NoChain \in ChainOf(Len(fam), Len(conns)) /\ NoRetry \in RetryOf(Len(conns))
    BY NoChainIs, NoRetryIs DEF Basic
  <1>3. chain.c \in 0..Len(conns)  BY Rest DEF PageAt, ChainOf
  <1>4. RestTyped(Len(fam), Len(conns))
    BY <1>1, <1>2, <1>3, Rest DEF PageAt, RestTyped, sharing
  <1>5. live' \subseteq Tokens  BY <1>1, Rest
  <1>. QED  BY <1>1, <1>4, <1>5, StillBasic DEF sharing

LEMMA MeFailsTyped ==
  ASSUME Basic, MeFails PROVE Basic' /\ C' = C
  <1>1. /\ UNCHANGED <<server, keyring, up, forgotten, list, blocked, conns, sharing, excused, counts>>
        /\ chain' = NoChain /\ waiting' = "failed"
        /\ retry' = [is |-> "timer", api |-> IF chain.c # 0 THEN chain.c ELSE retry.api]
    BY DEF MeFails, Wait
  <1>2. chain.c \in 0..Len(conns)  BY Rest DEF PageAt, ChainOf
  <1>3. NoChain \in ChainOf(Len(fam), Len(conns)) /\ retry' \in RetryOf(Len(conns))
    BY <1>1, <1>2, NoChainIs, TimerIs DEF Basic
  <1>4. RestTyped(Len(fam), Len(conns))  BY <1>1, <1>3, Rest DEF PageAt, RestTyped, sharing
  <1>. QED  BY <1>1, <1>4, StillBasic, Rest DEF server, sharing

LEMMA MeRefusedAgainTyped ==
  ASSUME Basic, MeRefusedAgain PROVE Basic' /\ C' = C
  <1>1. chain' = NoChain /\ UNCHANGED <<server, keyring, up, sessions, conns, sharing, excused, counts>>
    BY DEF MeRefusedAgain
  <1>2. NoChain \in ChainOf(Len(fam), Len(conns))  BY NoChainIs DEF Basic
  <1>3. RestTyped(Len(fam), Len(conns))  BY <1>1, <1>2, Rest DEF PageAt, RestTyped, sharing, sessions
  <1>. QED  BY <1>1, <1>3, StillBasic, Rest DEF server, sharing

LEMMA BlockTyped ==
  ASSUME Basic, Block PROVE Basic' /\ C' = C
  <1>1. /\ UNCHANGED <<server, keyring, up, forgotten, chain, conns, sharing, excused, counts>>
        /\ retry' = NoRetry /\ waiting' \in {waiting, "none"} /\ list' \in {list, 0}
        /\ (blocked' = blocked \/ blocked' = TRUE)
    BY DEF Block, StopWaiting
  <1>2. NoRetry \in RetryOf(Len(conns)) /\ 0 \in 0..Len(conns)  BY NoRetryIs, Counts DEF Basic
  <1>3. RestTyped(Len(fam), Len(conns))  BY <1>1, <1>2, Rest DEF PageAt, RestTyped, sharing
  <1>. QED  BY <1>1, <1>3, StillBasic, Rest DEF server, sharing

LEMMA SignOutTyped ==
  ASSUME Basic, SignOut PROVE Basic' /\ C' = C
  <1>1. /\ UNCHANGED <<fam, gen, up, chain, conns, sharing, excused, counts>>
        /\ forgotten' = TRUE /\ list' = 0 /\ blocked' = FALSE /\ waiting' = "none" /\ retry' = NoRetry
        /\ keyring' = None /\ live' \subseteq live
    BY DEF SignOut, StopWaiting
  <1>2. NoRetry \in RetryOf(Len(conns)) /\ 0 \in 0..Len(conns) /\ None \in 0..Len(fam)
    BY NoRetryIs, Counts DEF Basic, None
  <1>3. RestTyped(Len(fam), Len(conns))  BY <1>1, <1>2, Rest DEF PageAt, RestTyped, sharing
  <1>4. live' \subseteq Tokens  BY <1>1, Rest
  <1>. QED  BY <1>1, <1>3, <1>4, StillBasic DEF sharing

LEMMA EndsElsewhereTyped ==
  ASSUME Basic, EndsElsewhere PROVE Basic' /\ C' = C
  <1>1. /\ live' = {} /\ gen' = gen + 1 /\ gen <= MaxEnds /\ excused' = TRUE
        /\ UNCHANGED <<fam, keyring, up, sessions, chain, conns, sharing, counts>>
    BY DEF EndsElsewhere
  <1>2. gen' \in 1..MaxEnds + 1  BY <1>1, Sizes DEF Basic, Typed, ServerTypes
  <1>3. ServerTypes'  BY <1>1, <1>2 DEF Basic, Typed, ServerTypes, Tokens
  <1>4. Typed'  BY <1>1, <1>3 DEF Basic, Typed, PageTypes, PageAt, sessions, sharing
  <1>5. C' = C /\ \A d \in C' : AskIn(conns'[d]) /\ (conns'[d].ask # Idle => run'.pc = "ask" /\ run'.c = d)
    BY <1>1 DEF Basic, AsksOK, C, sharing
  <1>6. AsksOK'  BY <1>5 DEF AsksOK, AskIn
  <1>. QED  BY <1>4, <1>5, <1>6 DEF Basic

Queued == [NoRun EXCEPT !.c = IF looked THEN 0 ELSE list, !.signedIn = SignedIn]

LEMMA QueuedIs ==
  ASSUME Basic
  PROVE  Queued \in QueuedOf(Len(conns)) /\ (Queued.signedIn <=> SignedIn)
  <1>. DEFINE c == IF looked THEN 0 ELSE list  b == SignedIn
  <1>1. c \in 0..Len(conns)  BY Rest, Counts DEF PageAt, Basic
  <1>2. b \in BOOLEAN  BY Rest DEF SignedIn, PageAt
  <1>3. Queued = [NoRun EXCEPT !.c = c, !.signedIn = b]  BY DEF Queued
  <1>. HIDE DEF c, b
  <1>4. Queued \in QueuedOf(Len(conns)) /\ Queued.signedIn = b
    BY <1>1, <1>2, <1>3 DEF NoRun, QueuedOf
  <1>. QED  BY <1>4 DEF b

LEMMA LookTyped ==
  ASSUME Basic, Look
  PROVE  /\ Basic' /\ C' = C /\ queue' = Append(queue, Queued)
         /\ keys' = <<list # 0, SignedIn>>
  <1>1. /\ queue' = Append(queue, Queued) /\ looked' = (looked \/ list # 0)
        /\ keys' = <<list # 0, SignedIn>>
        /\ UNCHANGED <<server, keyring, up, sessions, chain, conns, kept, run, excused, kills>>
    BY DEF Look, Queued
  <1>2. queue' \in Seq(QueuedOf(Len(conns)))
    BY <1>1, Rest, QueuedIs, AppendProperties DEF PageAt
  <1>3. looked' \in BOOLEAN  BY <1>1
  <1>4. RestTyped(Len(fam), Len(conns))  BY <1>1, <1>2, <1>3, Rest DEF PageAt, RestTyped, sessions
  <1>. QED  BY <1>1, <1>4, StillBasic, Rest DEF server

LEMMA LookAgainTyped ==
  ASSUME Basic, LookAgain PROVE Basic' /\ C' = C
  <1>1. /\ looked' = FALSE
        /\ UNCHANGED <<server, keyring, up, sessions, chain, conns, kept, queue, run, excused, counts>>
    BY DEF LookAgain
  <1>2. RestTyped(Len(fam), Len(conns))  BY <1>1, Rest DEF PageAt, RestTyped, sessions
  <1>. QED  BY <1>1, <1>2, StillBasic, Rest DEF server

LEMMA RunSavesIs ==
  ASSUME Basic, NEW refused \in BOOLEAN, RunSaves(refused)
  PROVE  /\ run.pc = "save" /\ kept' \in {kept, run.tok} /\ live' \subseteq live
         /\ live \ live' \subseteq Revoked(kept) \union Family(run.tok)
         /\ kept = None => live \ live' \subseteq Family(run.tok)
         /\ run' \in RunOf(Len(fam), Len(conns)) /\ run'.pc = "end" /\ run'.tok = run.tok
         /\ (run'.signedIn <=> run.signedIn)
         /\ UNCHANGED <<fam, gen, keyring, up, sessions, chain, conns, looked, keys, queue, excused, counts>>
  <1>1. /\ run.pc = "save" /\ kept' \in {kept, run.tok} /\ live' \subseteq live
        /\ live \ live' \subseteq Revoked(kept) \union Family(run.tok)
        /\ kept = None => live \ live' \subseteq Family(run.tok)
        /\ UNCHANGED <<fam, gen, keyring, up, sessions, chain, conns, looked, keys, queue, excused, counts>>
    BY DEF RunSaves, Revoked
  <1>2. run' = [run EXCEPT !.pc = "end"]  BY DEF RunSaves
  <1>3. run \in RunOf(Len(fam), Len(conns))  BY Rest DEF PageAt
  <1>4. run' \in RunOf(Len(fam), Len(conns)) /\ run'.pc = "end" /\ run'.signedIn = run.signedIn
        /\ run'.tok = run.tok
    BY <1>2, <1>3 DEF RunOf
  <1>. QED  BY <1>1, <1>4

LEMMA RunSavesTyped ==
  ASSUME Basic, NEW refused \in BOOLEAN, RunSaves(refused) PROVE Basic' /\ C' = C
  <1>1. /\ run.pc = "save" /\ kept' \in {kept, run.tok} /\ live' \subseteq live
        /\ run' \in RunOf(Len(fam), Len(conns))
        /\ UNCHANGED <<fam, gen, keyring, up, sessions, chain, conns, looked, keys, queue, excused, counts>>
    BY RunSavesIs
  <1>2. run.tok \in 0..Len(fam)  BY Rest DEF PageAt, RunOf
  <1>3. RestTyped(Len(fam), Len(conns))  BY <1>1, <1>2, Rest DEF PageAt, RestTyped, sessions
  <1>4. live' \subseteq Tokens /\ run.pc # "ask"  BY <1>1, Rest
  <1>. QED  BY <1>1, <1>3, <1>4, StillBasic

LEMMA RunEndsTyped ==
  ASSUME Basic, RunEnds PROVE Basic' /\ C' = C
  <1>1. /\ run.pc = "end" /\ run' = NoRun /\ kept' \in {kept, None} /\ live' \subseteq live
        /\ UNCHANGED <<fam, gen, keyring, up, sessions, chain, conns, looked, keys, queue, excused, counts>>
    BY DEF RunEnds
  <1>2. NoRun \in RunOf(Len(fam), Len(conns)) /\ None \in 0..Len(fam)
    BY Counts DEF NoRun, RunOf, None, Basic
  <1>3. RestTyped(Len(fam), Len(conns))  BY <1>1, <1>2, Rest DEF PageAt, RestTyped, sessions
  <1>4. live' \subseteq Tokens /\ run.pc # "ask"  BY <1>1, Rest
  <1>. QED  BY <1>1, <1>3, <1>4, StillBasic

LEMMA ServerRefreshesIs ==
  ASSUME Basic, ServerRefreshes
  PROVE  /\ chain.pc = "refresh" /\ chain.req.pc = "wire" /\ Rotate(chain.req)
         /\ ServerTypes' /\ Len(fam') \in {Len(fam), Len(fam) + 1}
         /\ chain' \in ChainOf(Len(fam'), Len(conns)) /\ chain'.pc = "refresh" /\ chain'.c = chain.c
         /\ chain'.req = Answered(chain.req)
         /\ UNCHANGED <<keyring, up, sessions, conns, sharing, excused, counts>>
  <1>1. /\ chain.pc = "refresh" /\ chain.req.pc = "wire" /\ Rotate(chain.req)
        /\ chain' = [chain EXCEPT !.req = Answered(chain.req)]
        /\ UNCHANGED <<keyring, up, sessions, conns, sharing, excused, counts>>
    BY DEF ServerRefreshes
  <1>2. ServerTypes' /\ Len(fam') \in {Len(fam), Len(fam) + 1}
    BY <1>1, RotateIs DEF Basic, Typed, Grown
  <1>3. chain.req \in ReqOf(Len(fam))  BY Rest DEF PageAt, ChainOf
  <1>4. Answered(chain.req) \in ReqOf(Len(fam'))  BY <1>2, <1>3, AnsweredIs DEF Basic, Typed
  <1>5. chain \in ChainOf(Len(fam'), Len(conns))  BY <1>2, StillTyped DEF Basic, PageAt
  <1>6. /\ chain' \in ChainOf(Len(fam'), Len(conns)) /\ chain'.pc = chain.pc /\ chain'.c = chain.c
        /\ chain'.req = Answered(chain.req)
    BY <1>1, <1>4, <1>5 DEF ChainOf
  <1>. QED  BY <1>1, <1>2, <1>6

LEMMA ServerRefreshesTyped ==
  ASSUME Basic, ServerRefreshes PROVE Basic' /\ C' = C
  <1>1. /\ ServerTypes' /\ Len(fam') \in {Len(fam), Len(fam) + 1}
        /\ chain' \in ChainOf(Len(fam'), Len(conns))
        /\ UNCHANGED <<keyring, up, sessions, conns, sharing, excused, counts>>
    BY ServerRefreshesIs
  <1>2. PageAt(Len(fam'), Len(conns))  BY <1>1, StillTyped DEF Basic
  <1>3. Typed'  BY <1>1, <1>2 DEF Typed, PageTypes, PageAt, sessions, sharing
  <1>4. C' = C /\ \A d \in C' : AskIn(conns'[d]) /\ (conns'[d].ask # Idle => run'.pc = "ask" /\ run'.c = d)
    BY <1>1 DEF Basic, AsksOK, C, sharing
  <1>5. AsksOK'  BY <1>4 DEF AsksOK, AskIn
  <1>. QED  BY <1>3, <1>4, <1>5 DEF Basic

\* A connection is built.
LEMMA Built ==
  ASSUME Basic, ServerTypes', Len(fam') \in {Len(fam), Len(fam) + 1},
         NEW t \in 1..Len(fam'), NEW g \in 0..MaxEnds + 1,
         conns' = Append(conns, Conn(t, g)), RestTyped(Len(fam'), Len(conns) + 1), run' = run
  PROVE  /\ Basic' /\ Len(conns') = Len(conns) + 1 /\ conns'[Len(conns) + 1] = Conn(t, g)
         /\ \A d \in C : conns'[d] = conns[d]
  <1>1. Len(fam') \in Nat /\ Len(conns) \in Nat  BY Counts, LenProperties DEF Basic, ServerTypes
  <1>2. conns \in Seq(ConnOf(Len(fam')))  BY StillTyped DEF Basic, PageAt
  <1>3. /\ Conn(t, g) \in ConnOf(Len(fam')) /\ Conn(t, g).ask = Idle /\ ~Conn(t, g).after
        /\ Conn(t, g).ren = Idle /\ Conn(t, g).chg = Idle
    BY <1>1, ConnIs
  <1>4. /\ conns' \in Seq(ConnOf(Len(fam'))) /\ Len(conns') = Len(conns) + 1
        /\ conns'[Len(conns) + 1] = Conn(t, g) /\ \A d \in 1..Len(conns) : conns'[d] = conns[d]
    BY <1>2, <1>3, AppendProperties
  <1>5. Typed'  BY <1>4 DEF Typed, PageTypes, PageAt, RestTyped
  <1>6. ASSUME NEW d \in C' PROVE AskIn(conns'[d]) /\ (conns'[d].ask # Idle => run'.pc = "ask" /\ run'.c = d)
    <2>1. CASE d = Len(conns) + 1  BY <1>3, <1>4, <2>1, IdleIs DEF AskIn
    <2>2. CASE d \in C  BY <1>4, <2>2 DEF Basic, AsksOK, C
    <2>3. d \in 1..Len(conns) + 1  BY <1>4 DEF C
    <2>. QED  BY <1>1, <2>1, <2>2, <2>3 DEF C
  <1>7. \A d \in C' : AskIn(conns'[d]) /\ (conns'[d].ask # Idle => run'.pc = "ask" /\ run'.c = d)
    BY <1>6
  <1>8. AsksOK'  BY <1>7 DEF AsksOK, AskIn
  <1>. QED  BY <1>4, <1>5, <1>8 DEF Basic, C

Builds == [NoChain EXCEPT !.pc = "me", !.c = Len(conns) + 1]

LEMMA RefreshedIs ==
  ASSUME Refreshed
  PROVE  /\ chain.pc = "refresh" /\ chain.req.pc = "answered"
         /\ \/ /\ chain.req.ans = None /\ keyring' = None /\ chain' = NoChain
               /\ waiting' = "none" /\ retry' = NoRetry /\ UNCHANGED <<live, conns>>
            \/ /\ forgotten /\ chain' = NoChain /\ live' \subseteq live
               /\ waiting' = "none" /\ retry' = NoRetry /\ UNCHANGED <<keyring, conns>>
            \/ /\ chain.req.ans # None /\ ~forgotten /\ keyring' = chain.req.ans
               /\ conns' = Append(conns, Conn(chain.req.ans, chain.req.gen))
               /\ chain' = Builds /\ UNCHANGED <<live, waiting, retry>>
         /\ UNCHANGED <<fam, gen, up, forgotten, list, blocked, sharing, excused, counts>>
  BY DEF Refreshed, StopWaiting, Wanted, Builds

LEMMA WiderNow ==
  ASSUME Basic PROVE PageAt(Len(fam), Len(conns) + 1)
  BY Rest, Counts, Wider DEF Basic

LEMMA BuildsIs ==
  ASSUME Basic
  PROVE  /\ Builds \in ChainOf(Len(fam), Len(conns) + 1) /\ Builds.pc = "me" /\ Builds.req = Idle
         /\ Builds.c = Len(conns) + 1
  <1>1. ChainOf(Len(fam), Len(conns)) \subseteq ChainOf(Len(fam), Len(conns) + 1)
    BY Counts, WiderChain DEF Basic
  <1>2. NoChain \in ChainOf(Len(fam), Len(conns) + 1) /\ NoChain.req = Idle
    BY <1>1, NoChainIs DEF Basic
  <1>3. Len(conns) + 1 \in 0..Len(conns) + 1  BY Counts DEF Basic
  <1>. QED  BY <1>2, <1>3 DEF Builds, ChainOf

LEMMA RefreshedTyped ==
  ASSUME Basic, Refreshed
  PROVE  /\ Basic'
         /\ \/ conns' = conns
            \/ /\ Len(conns') = Len(conns) + 1 /\ \A d \in C : conns'[d] = conns[d]
               /\ conns'[Len(conns) + 1] = Conn(chain.req.ans, chain.req.gen)
  <1>1. UNCHANGED <<fam, gen, up, forgotten, list, blocked, sharing, excused, counts>>  BY RefreshedIs
  <1>2. chain.req \in ReqOf(Len(fam))  BY Rest DEF PageAt, ChainOf
  <1>3. /\ NoChain \in ChainOf(Len(fam), Len(conns)) /\ NoRetry \in RetryOf(Len(conns))
        /\ None \in 0..Len(fam)
    BY NoChainIs, NoRetryIs, Counts DEF Basic, None
  <1>4. CASE /\ keyring' \in {keyring, None} /\ chain' = NoChain /\ live' \subseteq live
             /\ waiting' = "none" /\ retry' = NoRetry /\ UNCHANGED conns
    <2>1. RestTyped(Len(fam), Len(conns))
      BY <1>1, <1>3, <1>4, Rest DEF PageAt, RestTyped, sharing
    <2>2. live' \subseteq Tokens  BY <1>4, Rest
    <2>. QED  BY <1>1, <1>4, <2>1, <2>2, StillBasic DEF sharing
  <1>5. CASE /\ chain.req.ans # None /\ keyring' = chain.req.ans
             /\ conns' = Append(conns, Conn(chain.req.ans, chain.req.gen))
             /\ chain' = Builds /\ UNCHANGED <<live, waiting, retry>>
    <2>1. chain.req.ans \in 1..Len(fam) /\ chain.req.gen \in 0..MaxEnds + 1
      BY <1>2, <1>5 DEF ReqOf, None
    <2>2. RestTyped(Len(fam), Len(conns) + 1)
      BY <1>1, <1>5, <2>1, WiderNow, BuildsIs DEF PageAt, RestTyped, sharing
    <2>3. ServerTypes'  BY <1>1, <1>5, ServerStays DEF Basic, Typed, server
    <2>4. fam' = fam /\ run' = run  BY <1>1 DEF sharing
    <2>. QED  BY <1>5, <2>1, <2>2, <2>3, <2>4, Built
  <1>6. \/ /\ keyring' \in {keyring, None} /\ chain' = NoChain /\ live' \subseteq live
           /\ waiting' = "none" /\ retry' = NoRetry /\ UNCHANGED conns
        \/ /\ chain.req.ans # None /\ keyring' = chain.req.ans
           /\ conns' = Append(conns, Conn(chain.req.ans, chain.req.gen))
           /\ chain' = Builds /\ UNCHANGED <<live, waiting, retry>>
    BY RefreshedIs
  <1>. QED  BY <1>4, <1>5, <1>6

LEMMA AddServerIs ==
  ASSUME AddServer
  PROVE  /\ up /\ CanGive /\ (Overlap \/ (chain = NoChain /\ \A c \in C : ~Busy(c)))
         /\ fam' = Append(fam, NewFamily) /\ live' = live \union {New}
         /\ ~forgotten' /\ forgotten' \in BOOLEAN /\ keyring' = New
         /\ conns' = Append(conns, Conn(New, gen)) /\ list' = Len(conns) + 1
         /\ blocked' \in BOOLEAN /\ waiting' = "none" /\ retry' = NoRetry
         /\ UNCHANGED <<gen, up, chain, sharing, excused, counts>>
  BY DEF AddServer, Arrive, StopWaiting

LEMMA AddServerTyped ==
  ASSUME Basic, AddServer
  PROVE  /\ Basic' /\ Grown(New)
         /\ Len(conns') = Len(conns) + 1 /\ \A d \in C : conns'[d] = conns[d]
         /\ conns'[Len(conns) + 1] = Conn(New, gen)
  <1>1. /\ CanGive /\ fam' = Append(fam, NewFamily) /\ live' = live \union {New}
        /\ forgotten' \in BOOLEAN /\ keyring' = New
        /\ conns' = Append(conns, Conn(New, gen)) /\ list' = Len(conns) + 1
        /\ blocked' \in BOOLEAN /\ waiting' = "none" /\ retry' = NoRetry
        /\ UNCHANGED <<gen, up, chain, sharing, excused, counts>>
    BY AddServerIs
  <1>2. gen \in 1..MaxEnds + 1  BY DEF Basic, Typed, ServerTypes
  <1>3. ServerTypes' /\ Grown(New)  BY <1>1, <1>2, GivesIs DEF Basic, Typed
  <1>4. Len(fam) \in Nat /\ Len(conns) \in Nat /\ Len(fam') = Len(fam) + 1  BY <1>3, Counts DEF Basic, Grown
  <1>5. New \in 1..Len(fam') /\ gen \in 0..MaxEnds + 1  BY <1>2, <1>4, Sizes DEF New
  <1>6. PageAt(Len(fam'), Len(conns) + 1)  BY <1>4, Rest, Wider
  <1>7. NoRetry \in RetryOf(Len(conns) + 1)  BY <1>4 DEF NoRetry, RetryOf
  <1>8. RestTyped(Len(fam'), Len(conns) + 1)
    BY <1>1, <1>4, <1>5, <1>6, <1>7 DEF PageAt, RestTyped, sharing
  <1>9. run' = run  BY <1>1 DEF sharing
  <1>. QED  BY <1>1, <1>3, <1>4, <1>5, <1>8, <1>9, Built

Tried == [NoChain EXCEPT !.pc = "health", !.req.tok = keyring]

LEMMA TriedIs ==
  ASSUME Basic
  PROVE  /\ Tried \in ChainOf(Len(fam), Len(conns)) /\ Tried.pc = "health" /\ Tried.c = 0
         /\ Tried.req.tok = keyring /\ Tried.req.ans = None /\ Tried.req.pc = "idle"
  <1>1. keyring \in 0..Len(fam) /\ Len(conns) \in Nat  BY Rest, Counts DEF PageAt, Basic
  <1>. QED  BY <1>1, NoChainIs, IdleIs, Counts DEF Basic, ChainOf, ReqOf, Tried

LEMMA LaunchIs ==
  ASSUME Basic, Launch
  PROVE  /\ ~up /\ up' /\ up' \in BOOLEAN
         /\ UNCHANGED <<server, keyring, forgotten, list, blocked, conns, sharing, excused, counts>>
         /\ \/ UNCHANGED <<waiting, retry, chain>>
            \/ /\ waiting' = "trying" /\ retry'.is = "busy" /\ retry'.api = 0
               /\ retry' \in RetryOf(Len(conns))
               /\ chain' \in ChainOf(Len(fam), Len(conns)) /\ chain'.pc = "health" /\ chain'.c = 0
               /\ chain'.req.tok = keyring /\ chain'.req.ans = None /\ chain'.req.pc = "idle"
  <1>1. /\ ~up /\ up' = TRUE
        /\ UNCHANGED <<server, keyring, forgotten, list, blocked, conns, sharing, excused, counts>>
        /\ \/ UNCHANGED <<waiting, retry, chain>>
           \/ /\ waiting' = "trying" /\ retry' = [is |-> "busy", api |-> 0]
              /\ chain' = Tried
    BY DEF Launch, Tried
  <1>2. keyring \in 0..Len(fam) /\ Len(conns) \in Nat  BY Rest, Counts DEF PageAt, Basic
  <1>3. [is |-> "busy", api |-> 0] \in RetryOf(Len(conns))  BY <1>2 DEF RetryOf
  <1>4. /\ Tried \in ChainOf(Len(fam), Len(conns)) /\ Tried.pc = "health" /\ Tried.c = 0
        /\ Tried.req.tok = keyring /\ Tried.req.ans = None /\ Tried.req.pc = "idle"
    BY TriedIs
  <1>5. [is |-> "busy", api |-> 0].is = "busy" /\ [is |-> "busy", api |-> 0].api = 0  OBVIOUS
  <1>. QED  BY <1>1, <1>3, <1>4, <1>5

LEMMA LaunchTyped ==
  ASSUME Basic, Launch PROVE Basic' /\ C' = C
  <1>1. /\ up' \in BOOLEAN
        /\ UNCHANGED <<server, keyring, forgotten, list, blocked, conns, sharing, excused, counts>>
        /\ \/ UNCHANGED <<waiting, retry, chain>>
           \/ /\ waiting' = "trying" /\ retry' \in RetryOf(Len(conns))
              /\ chain' \in ChainOf(Len(fam), Len(conns))
    BY LaunchIs
  <1>2. RestTyped(Len(fam), Len(conns))  BY <1>1, Rest DEF PageAt, RestTyped, sharing
  <1>. QED  BY <1>1, <1>2, StillBasic, Rest DEF server, sharing

LEMMA KillIs ==
  ASSUME Kill
  PROVE  /\ ~up' /\ up' \in BOOLEAN /\ (excused => excused') /\ excused' \in BOOLEAN
         /\ forgotten' \in BOOLEAN /\ ~forgotten'
         /\ list' = 0 /\ waiting' = "none" /\ blocked' \in BOOLEAN
         /\ retry' = NoRetry /\ chain' = NoChain /\ conns' = <<>>
         /\ looked' \in BOOLEAN /\ keys' = <<>> /\ queue' = <<>> /\ run' = NoRun
         /\ UNCHANGED <<server, keyring, kept>>
  <1>1. excused' \in BOOLEAN /\ (excused => excused')  BY DEF Kill
  <1>2. /\ up' = FALSE /\ forgotten' = FALSE /\ blocked' = FALSE /\ looked' = FALSE
        /\ list' = 0 /\ waiting' = "none"
        /\ retry' = NoRetry /\ chain' = NoChain /\ conns' = <<>>
        /\ keys' = <<>> /\ queue' = <<>> /\ run' = NoRun
        /\ UNCHANGED <<server, keyring, kept>>
    BY DEF Kill
  <1>. QED  BY <1>1, <1>2

LEMMA KillTyped ==
  ASSUME Basic, Kill PROVE Basic' /\ Len(conns') = 0
  <1>1. /\ up' \in BOOLEAN /\ excused' \in BOOLEAN /\ forgotten' \in BOOLEAN
        /\ list' = 0 /\ waiting' = "none" /\ blocked' \in BOOLEAN
        /\ retry' = NoRetry /\ chain' = NoChain /\ conns' = <<>>
        /\ looked' \in BOOLEAN /\ queue' = <<>> /\ run' = NoRun
        /\ UNCHANGED <<server, keyring, kept>>
    BY KillIs
  <1>2. ServerTypes' /\ fam' = fam  BY <1>1, ServerStays DEF Basic, Typed, server
  <1>3. conns' \in Seq(ConnOf(Len(fam'))) /\ Len(conns') = 0 /\ queue' \in Seq(QueuedOf(0))
    BY <1>1, EmptySeq
  <1>4. /\ NoRetry \in RetryOf(0) /\ NoChain \in ChainOf(Len(fam), 0) /\ NoRun \in RunOf(Len(fam), 0)
    <2>1. Len(fam) \in Nat /\ Idle \in ReqOf(Len(fam))  BY Counts, IdleIs DEF Basic
    <2>. QED  BY <2>1 DEF NoRetry, NoChain, NoRun, RetryOf, ChainOf, RunOf, None
  <1>5. Typed'
    BY <1>1, <1>2, <1>3, <1>4, Rest DEF Typed, PageTypes, PageAt
  <1>6. C' = {}  BY <1>3 DEF C
  <1>7. AsksOK'  BY <1>6 DEF AsksOK
  <1>. QED  BY <1>3, <1>5, <1>7 DEF Basic

-----------------------------------------------------------------------------
(* The types and the asks are inductive                                    *)

\* The steps: a connection's, with the server or the page; the share window's; the rest.
TurnStep(c) ==
  \/ Renew(c) \/ Expires(c) \/ ChangePassword(c) \/ AskGoes(c)
  \/ RotateArrives(c) \/ ChangeArrives(c) \/ ChangeFails(c)
  \/ \E how \in {"refused", "failed"} : RotateFails(c, how)
  \/ \E lost \in BOOLEAN : AskSettles(c, lost)
ServerStep(c) == ServerRotates(c) \/ ServerChanges(c) \/ ServerShares(c)
ShareStep ==
  \/ Look \/ LookAgain \/ RunEnds
  \/ \E b \in BOOLEAN : RunStarts(b) \/ RunSaves(b)
ChainStep ==
  \/ \E b \in BOOLEAN : HealthSays(b)
  \/ ServerRefreshes \/ Refreshed \/ RefreshFails \/ Again
  \/ MeAnswers \/ MeFails \/ MeRefused \/ MeRefusedAgain
PeopleStep == Launch \/ Kill \/ AddServer \/ SignOut \/ Block \/ EndsElsewhere

LEMMA NextIs ==
  ASSUME Next
  PROVE  \/ \E c \in C : TurnStep(c) \/ ServerStep(c)
         \/ ShareStep \/ ChainStep \/ PeopleStep
  <1>1. \A c \in C : AskSettles(c, TRUE) \/ AskSettles(c, FALSE) => \E lost \in BOOLEAN : AskSettles(c, lost)
    BY Zenon
  <1>. QED  BY <1>1, Zenon DEF Next, Progress, People, TurnStep, ServerStep, ShareStep, ChainStep, PeopleStep

\* A server that is being come back to has a connection.
WayOK == chain.pc \in {"me", "renewing", "me again"} => chain.c # 0

LEMMA WayKept ==
  ASSUME WayOK,
         \/ chain' = chain \/ chain'.pc \in {"idle", "health", "refresh"}
         \/ chain'.pc \in {"renewing", "me again"} /\ chain'.c = chain.c /\ chain.pc \in {"me", "renewing"}
         \/ chain'.c # 0
  PROVE  WayOK'
  BY DEF WayOK

LEMMA SettleWay ==
  ASSUME Typed, WayOK, NEW c, NEW how, NEW key, Settle(c, how, key) PROVE WayOK'
  <1>1. \/ chain' = chain
        \/ Mine(c) /\ (chain' = MeAgain \/ chain' = NoChain)
    BY SettleIs
  <1>2. MeAgain.pc = "me again" /\ MeAgain.c = chain.c /\ NoChain.pc = "idle"
    BY ChainMoves, NoChainIs DEF MeAgain
  <1>. QED  BY <1>1, <1>2, WayKept DEF Mine

LEMMA WayTurn == ASSUME Basic, WayOK, NEW c \in C, TurnStep(c) PROVE WayOK'
  <1>1. CASE chain' = chain  BY <1>1, WayKept
  <1>2. CASE RotateArrives(c)  BY <1>2, RotateArrivesIs, SettleWay DEF Basic
  <1>3. CASE ChangeArrives(c)
    <2>1. chain' = chain \/ Settle(c, "ok", conns[c].chg.ans)  BY <1>3, ChangeArrivesIs
    <2>. QED  BY <2>1, WayKept, SettleWay DEF Basic
  <1>4. CASE ChangeFails(c)
    <2>1. \/ chain' = chain \/ Settle(c, "ok", keyring)
          \/ Settle(c, Lost(conns[c]).ren.pc, keyring)
      BY <1>4, ChangeFailsIs
    <2>. QED  BY <2>1, WayKept, SettleWay DEF Basic
  <1>5. ASSUME NEW how \in {"refused", "failed"}, RotateFails(c, how) PROVE WayOK'
    <2>1. chain' = chain \/ Settle(c, IF Newest(conns[c]) THEN how ELSE "ok", keyring)
      BY <1>5, RotateFailsIs
    <2>. QED  BY <2>1, WayKept, SettleWay DEF Basic
  <1>6. \/ chain' = chain \/ RotateArrives(c) \/ ChangeArrives(c) \/ ChangeFails(c)
        \/ \E how \in {"refused", "failed"} : RotateFails(c, how)
    BY DEF TurnStep, Renew, Expires, ChangePassword, AskGoes, AskSettles
  <1>. QED  BY <1>1, <1>2, <1>3, <1>4, <1>5, <1>6

LEMMA WayChain == ASSUME Basic, WayOK, ChainStep PROVE WayOK'
  <1>0. NoChain.pc = "idle" /\ chain \in ChainOf(Len(fam), Len(conns)) /\ Len(conns) \in Nat
    BY NoChainIs, Rest, Counts DEF Basic, PageAt
  <1>1. ASSUME NEW b \in BOOLEAN, HealthSays(b) PROVE WayOK'
    <2>1. \/ chain' = NoChain
          \/ chain' = [chain EXCEPT !.pc = "refresh", !.req = Sent(chain.req.tok)]
      BY <1>1 DEF HealthSays
    <2>2. [chain EXCEPT !.pc = "refresh", !.req = Sent(chain.req.tok)].pc = "refresh"
      BY <1>0 DEF ChainOf
    <2>. QED  BY <1>0, <2>1, <2>2, WayKept
  <1>2. CASE ServerRefreshes  BY <1>2, ServerRefreshesIs, WayKept
  <1>3. CASE Refreshed
    <2>1. chain' = NoChain \/ chain' = Builds  BY <1>3, RefreshedIs
    <2>2. Builds.c # 0
      <3>1. Builds.c = Len(conns) + 1  BY BuildsIs
      <3>. QED  BY <1>0, <3>1
    <2>. QED  BY <1>0, <2>1, <2>2, WayKept
  <1>4. CASE RefreshFails  BY <1>0, <1>4, WayKept DEF RefreshFails
  <1>5. CASE Again
    <2>1. \/ chain' = chain
          \/ retry.api # 0 /\ chain' = [NoChain EXCEPT !.pc = "me", !.c = retry.api]
          \/ chain' = [NoChain EXCEPT !.pc = "health", !.req.tok = keyring]
      BY <1>5 DEF Again
    <2>2. /\ [NoChain EXCEPT !.pc = "me", !.c = retry.api].c = retry.api
          /\ [NoChain EXCEPT !.pc = "health", !.req.tok = keyring].pc = "health"
      BY NoChainIs DEF Basic, ChainOf
    <2>. QED  BY <2>1, <2>2, WayKept
  <1>6. CASE MeAnswers \/ MeFails \/ MeRefusedAgain
    BY <1>0, <1>6, WayKept DEF MeAnswers, MeFails, MeRefusedAgain
  <1>7. CASE MeRefused
    <2>1. chain.pc = "me" /\ chain' = [chain EXCEPT !.pc = "renewing"]  BY <1>7 DEF MeRefused
    <2>. QED  BY <2>1, ChainMoves, WayKept DEF Basic
  <1>. QED  BY <1>1, <1>2, <1>3, <1>4, <1>5, <1>6, <1>7 DEF ChainStep

LEMMA WayPeople == ASSUME Basic, WayOK, PeopleStep PROVE WayOK'
  <1>1. CASE Launch  BY <1>1, LaunchIs, WayKept
  <1>2. CASE Kill  BY <1>2, KillIs, NoChainIs, WayKept DEF Basic
  <1>3. CASE AddServer \/ SignOut \/ Block \/ EndsElsewhere
    BY <1>3, WayKept DEF AddServer, SignOut, Block, EndsElsewhere
  <1>. QED  BY <1>1, <1>2, <1>3 DEF PeopleStep

LEMMA WayInductive == Basic /\ WayOK /\ [Next]_vars => WayOK'
  <1>. SUFFICES ASSUME Basic, WayOK, [Next]_vars PROVE WayOK'  OBVIOUS
  <1>1. CASE UNCHANGED vars  BY <1>1, WayKept DEF vars
  <1>2. ASSUME NEW c \in C, TurnStep(c) PROVE WayOK'  BY <1>2, WayTurn
  <1>3. ASSUME NEW c \in C, ServerStep(c) PROVE WayOK'
    BY <1>3, WayKept DEF ServerStep, ServerRotates, ServerChanges, ServerShares
  <1>4. CASE ShareStep
    BY <1>4, WayKept DEF ShareStep, Look, LookAgain, RunEnds, RunStarts, RunSaves
  <1>. QED  BY <1>1, <1>2, <1>3, <1>4, WayChain, WayPeople, NextIs

LEMMA BasicTurn == ASSUME Basic, NEW c \in C, TurnStep(c) PROVE Basic'
  <1>1. CASE Renew(c)  BY <1>1, RenewTurns
  <1>2. CASE Expires(c)  BY <1>2, ExpiresTurns
  <1>3. CASE ChangePassword(c)  BY <1>3, ChangePasswordTurns
  <1>4. CASE AskGoes(c)  BY <1>4, AskGoesTurns
  <1>5. CASE RotateArrives(c)  BY <1>5, RotateArrivesTurns
  <1>6. CASE ChangeArrives(c)  BY <1>6, ChangeArrivesTurns
  <1>7. CASE ChangeFails(c)  BY <1>7, ChangeFailsTurns
  <1>8. ASSUME NEW how \in {"refused", "failed"}, RotateFails(c, how) PROVE Basic'
    BY <1>8, RotateFailsTurns
  <1>9. ASSUME NEW lost \in BOOLEAN, AskSettles(c, lost) PROVE Basic'
    BY <1>9, AskSettlesTurns
  <1>. QED  BY <1>1, <1>2, <1>3, <1>4, <1>5, <1>6, <1>7, <1>8, <1>9 DEF TurnStep

LEMMA BasicShare == ASSUME Basic, ShareStep PROVE Basic'
  <1>1. CASE Look  BY <1>1, LookTyped
  <1>2. CASE LookAgain  BY <1>2, LookAgainTyped
  <1>3. CASE RunEnds  BY <1>3, RunEndsTyped
  <1>4. ASSUME NEW b \in BOOLEAN, RunStarts(b) PROVE Basic'  BY <1>4, RunStartsTurns
  <1>5. ASSUME NEW b \in BOOLEAN, RunSaves(b) PROVE Basic'  BY <1>5, RunSavesTyped
  <1>. QED  BY <1>1, <1>2, <1>3, <1>4, <1>5 DEF ShareStep

LEMMA BasicChain == ASSUME Basic, WayOK, ChainStep PROVE Basic'
  <1>1. ASSUME NEW b \in BOOLEAN, HealthSays(b) PROVE Basic'  BY <1>1, HealthSaysTyped
  <1>2. CASE ServerRefreshes  BY <1>2, ServerRefreshesTyped
  <1>3. CASE Refreshed  BY <1>3, RefreshedTyped
  <1>4. CASE RefreshFails  BY <1>4, RefreshFailsTyped
  <1>5. CASE Again  BY <1>5, AgainTyped
  <1>6. CASE MeAnswers  BY <1>6, MeAnswersTyped
  <1>7. CASE MeFails  BY <1>7, MeFailsTyped
  <1>8. CASE MeRefused
    <2>1. chain.pc = "me"  BY <1>8 DEF MeRefused
    <2>2. chain.c \in C
      <3>1. chain.c \in 0..Len(conns)  BY Rest DEF PageAt, ChainOf
      <3>2. chain.c # 0  BY <2>1 DEF WayOK
      <3>3. C = 1..Len(conns) /\ Len(conns) \in Nat  BY Counts DEF Basic
      <3>. QED  BY ONLY <3>1, <3>2, <3>3
    <2>. QED  BY <1>8, <2>2, MeRefusedTurns
  <1>9. CASE MeRefusedAgain  BY <1>9, MeRefusedAgainTyped
  <1>. QED  BY <1>1, <1>2, <1>3, <1>4, <1>5, <1>6, <1>7, <1>8, <1>9 DEF ChainStep

LEMMA BasicPeople == ASSUME Basic, PeopleStep PROVE Basic'
  <1>1. CASE Launch  BY <1>1, LaunchTyped
  <1>2. CASE Kill  BY <1>2, KillTyped
  <1>3. CASE AddServer  BY <1>3, AddServerTyped
  <1>4. CASE SignOut  BY <1>4, SignOutTyped
  <1>5. CASE Block  BY <1>5, BlockTyped
  <1>6. CASE EndsElsewhere  BY <1>6, EndsElsewhereTyped
  <1>. QED  BY <1>1, <1>2, <1>3, <1>4, <1>5, <1>6 DEF PeopleStep

LEMMA BasicInductive == Basic /\ WayOK /\ [Next]_vars => Basic'
  <1>. SUFFICES ASSUME Basic, WayOK, [Next]_vars PROVE Basic'  OBVIOUS
  <1>1. CASE UNCHANGED vars
    <2>1. UNCHANGED <<fam, conns, gen, run>> /\ live' \subseteq Tokens /\ RestTyped(Len(fam), Len(conns))
      BY <1>1, Rest DEF vars, server, sessions, sharing, RestTyped, PageAt
    <2>. QED  BY <2>1, StillBasic
  <1>2. ASSUME NEW c \in C, TurnStep(c) PROVE Basic'  BY <1>2, BasicTurn
  <1>3. ASSUME NEW c \in C, ServerStep(c) PROVE Basic'
    BY <1>3, ServerRotatesTurns, ServerChangesTurns, ServerSharesTurns DEF ServerStep
  <1>. QED  BY <1>1, <1>2, <1>3, BasicShare, BasicChain, BasicPeople, NextIs

LEMMA BasicInit == Init => Basic /\ WayOK
  <1>. SUFFICES ASSUME Init PROVE Basic /\ WayOK  OBVIOUS
  <1>1. fam = <<1>> /\ live = {1} /\ gen = 1 /\ keyring = 1 /\ kept = None /\ conns = <<>> /\ queue = <<>>
        /\ list = 0 /\ waiting = "none" /\ retry = NoRetry /\ chain = NoChain /\ run = NoRun
    BY DEF Init
  <1>2. up \in BOOLEAN /\ forgotten \in BOOLEAN /\ blocked \in BOOLEAN
        /\ looked \in BOOLEAN /\ excused \in BOOLEAN
    BY DEF Init
  <1>3. Len(fam) = 1 /\ fam \in Seq(Nat) /\ fam[1] = 1  BY <1>1
  <1>4. MaxTokens >= 1 /\ MaxEnds \in Nat  BY SignInAssumption
  <1>5. ServerTypes  BY <1>1, <1>3, <1>4, Sizes DEF ServerTypes, Tokens
  <1>6. Len(conns) = 0 /\ conns \in Seq(ConnOf(1)) /\ queue \in Seq(QueuedOf(0))
    BY <1>1, EmptySeq
  <1>7. /\ NoRetry \in RetryOf(0) /\ NoChain \in ChainOf(1, 0) /\ NoRun \in RunOf(1, 0)
        /\ NoChain.pc = "idle"
    <2>1. Idle \in ReqOf(1)  BY IdleIs
    <2>. QED  BY <2>1 DEF NoRetry, NoChain, NoRun, RetryOf, ChainOf, RunOf, None
  <1>8. PageTypes  BY <1>1, <1>2, <1>3, <1>6, <1>7 DEF PageTypes, PageAt, None
  <1>9. C = {}  BY <1>6 DEF C
  <1>. QED  BY <1>1, <1>5, <1>7, <1>8, <1>9 DEF Basic, Typed, AsksOK, WayOK

-----------------------------------------------------------------------------
(* The share window's sign-in ends                                         *)

LEMMA ShareKept == ASSUME ShareInv, UNCHANGED sharing PROVE ShareInv'
  BY DEF ShareInv, sharing

\* Only an ask that settles, among a connection's turns, is the share window's.
LEMMA TurnShares == ASSUME NEW c, TurnStep(c), \A lost \in BOOLEAN : ~AskSettles(c, lost) PROVE UNCHANGED sharing
  <1>1. CASE Renew(c) \/ Expires(c) \/ ChangePassword(c) \/ AskGoes(c)
    BY <1>1 DEF Renew, Expires, ChangePassword, AskGoes
  <1>2. CASE RotateArrives(c)  BY <1>2, RotateArrivesIs
  <1>3. CASE ChangeArrives(c)  BY <1>3, ChangeArrivesIs
  <1>4. CASE ChangeFails(c)  BY <1>4, ChangeFailsIs
  <1>5. ASSUME NEW how \in {"refused", "failed"}, RotateFails(c, how) PROVE UNCHANGED sharing
    BY <1>5, RotateFailsIs
  <1>. QED  BY <1>1, <1>2, <1>3, <1>4, <1>5 DEF TurnStep

LEMMA ShareAskSettles == ASSUME Basic, ShareInv, NEW c \in C, NEW lost \in BOOLEAN, AskSettles(c, lost) PROVE ShareInv'
  <1>1. /\ run.pc = "ask" /\ run'.pc \in {"end", "save"} /\ (run'.signedIn <=> run.signedIn)
        /\ UNCHANGED <<kept, keys, queue>>
    BY AskSettlesIs
  <1>2. run # NoRun /\ run' # NoRun
    <2>1. NoRun.pc = "idle"  BY DEF NoRun
    <2>. QED  BY <1>1, <2>1
  <1>. QED  BY <1>1, <1>2 DEF ShareInv

LEMMA ShareRunSaves == ASSUME Basic, ShareInv, NEW b \in BOOLEAN, RunSaves(b) PROVE ShareInv'
  <1>1. /\ run.pc = "save" /\ run'.pc = "end" /\ (run'.signedIn <=> run.signedIn)
        /\ UNCHANGED <<keys, queue>>
    BY RunSavesIs
  <1>2. run # NoRun /\ run' # NoRun
    <2>1. NoRun.pc = "idle"  BY DEF NoRun
    <2>. QED  BY <1>1, <2>1
  <1>. QED  BY <1>1, <1>2 DEF ShareInv

LEMMA ShareRunEnds == ASSUME ShareInv, RunEnds PROVE ShareInv'
  <1>1. /\ run.pc = "end" /\ run' = NoRun /\ UNCHANGED <<keys, queue>>
        /\ run.signedIn \/ kept' = None
    BY DEF RunEnds
  <1>2. run # NoRun  BY <1>1 DEF NoRun
  <1>. QED  BY <1>1, <1>2 DEF ShareInv

LEMMA ShareRunStarts == ASSUME Basic, ShareInv, NEW b \in BOOLEAN, RunStarts(b) PROVE ShareInv'
  <1>1. /\ run = NoRun /\ queue # <<>> /\ Len(queue) \in Nat /\ 1 \in 1..Len(queue)
        /\ queue' \in Seq(QueuedOf(Len(conns))) /\ Len(queue') = Len(queue) - 1
        /\ \A i \in 1..Len(queue) - 1 : queue'[i] = queue[i + 1]
        /\ (run'.signedIn <=> queue[1].signedIn) /\ run'.pc \in {"end", "ask"}
        /\ UNCHANGED <<kept, keys>>
    BY RunStartsIs
  <1>2. run' # NoRun
    <2>1. NoRun.pc = "idle"  BY DEF NoRun
    <2>. QED  BY <1>1, <2>1
  <1>. SUFFICES ASSUME keys = <<FALSE, FALSE>>
                PROVE  IF queue' # <<>> THEN ~queue'[Len(queue')].signedIn
                       ELSE (run' # NoRun /\ ~run'.signedIn) \/ (run' = NoRun /\ kept' = None)
    BY <1>1 DEF ShareInv
  <1>3. ~queue[Len(queue)].signedIn  BY <1>1 DEF ShareInv
  <1>4. CASE Len(queue) = 1
    <2>1. ~run'.signedIn  BY <1>1, <1>3, <1>4
    <2>2. queue' = <<>>  BY <1>1, <1>4, EmptySeq
    <2>. QED  BY <1>2, <2>1, <2>2
  <1>5. CASE Len(queue) # 1
    <2>1. Len(queue') \in 1..Len(queue) - 1 /\ Len(queue') + 1 = Len(queue)  BY <1>1, <1>5
    <2>2. ~queue'[Len(queue')].signedIn  BY <1>1, <1>3, <2>1
    <2>3. queue' # <<>>  BY <2>1, EmptySeq
    <2>. QED  BY <2>2, <2>3
  <1>. QED  BY <1>4, <1>5

LEMMA ShareLook == ASSUME Basic, Look PROVE ShareInv'
  <1>1. queue' = Append(queue, Queued) /\ keys' = <<list # 0, SignedIn>>  BY LookTyped
  <1>2. Queued \in QueuedOf(Len(conns)) /\ (Queued.signedIn <=> SignedIn)  BY QueuedIs
  <1>3. queue \in Seq(QueuedOf(Len(conns)))  BY Rest DEF PageAt
  <1>4. Len(queue') = Len(queue) + 1 /\ queue'[Len(queue) + 1] = Queued /\ queue' # <<>>
    BY <1>1, <1>2, <1>3, AppendProperties
  <1>. DEFINE shown == list # 0  signed == SignedIn
  <1>5. shown \in BOOLEAN /\ signed \in BOOLEAN  BY Rest DEF SignedIn, PageAt
  <1>6. keys' = <<shown, signed>>  BY <1>1
  <1>7. signed <=> SignedIn  OBVIOUS
  <1>. HIDE DEF shown, signed
  <1>8. keys' = <<FALSE, FALSE>> => ~SignedIn  BY <1>5, <1>6, <1>7
  <1>. QED  BY <1>2, <1>4, <1>8 DEF ShareInv

LEMMA ShareInductive == Basic /\ ShareInv /\ [Next]_vars => ShareInv'
  <1>. SUFFICES ASSUME Basic, ShareInv, [Next]_vars PROVE ShareInv'  OBVIOUS
  <1>1. CASE UNCHANGED vars  BY <1>1, ShareKept DEF vars
  <1>2. ASSUME NEW c \in C, TurnStep(c) PROVE ShareInv'
    BY <1>2, TurnShares, ShareKept, ShareAskSettles
  <1>3. ASSUME NEW c \in C, ServerStep(c) PROVE ShareInv'
    BY <1>3, ShareKept DEF ServerStep, ServerRotates, ServerChanges, ServerShares
  <1>4. CASE ShareStep
    <2>1. CASE LookAgain
      <3>1. keys' = <<>>  BY <2>1 DEF LookAgain
      <3>. QED  BY <3>1 DEF ShareInv
    <2>. QED  BY <1>4, <2>1, ShareLook, ShareRunStarts, ShareRunSaves, ShareRunEnds DEF ShareStep
  <1>5. CASE ChainStep
    BY <1>5, ShareKept DEF ChainStep, HealthSays, ServerRefreshes, Refreshed, RefreshFails, Again, MeAnswers,
       MeFails, MeRefused, MeRefusedAgain
  <1>6. CASE PeopleStep
    <2>1. CASE Kill
      <3>1. keys' = <<>>  BY <2>1, KillIs
      <3>. QED  BY <3>1 DEF ShareInv
    <2>2. CASE Launch \/ AddServer \/ SignOut \/ Block \/ EndsElsewhere
      BY <2>2, ShareKept DEF Launch, AddServer, SignOut, Block, EndsElsewhere
    <2>. QED  BY <1>6, <2>1, <2>2 DEF PeopleStep
  <1>. QED  BY <1>1, <1>2, <1>3, <1>4, <1>5, <1>6, NextIs

-----------------------------------------------------------------------------
(* What holds of every sign-in                                             *)

LEMMA ShareInit == Init => ShareInv
  BY DEF Init, ShareInv

LEMMA BasicAlways == Spec => [](Basic /\ WayOK /\ ShareInv)
  <1>1. Init => Basic /\ WayOK /\ ShareInv  BY BasicInit, ShareInit
  <1>2. Basic /\ WayOK /\ ShareInv /\ [Next]_vars => (Basic /\ WayOK /\ ShareInv)'
    BY BasicInductive, WayInductive, ShareInductive
  <1>. QED  BY <1>1, <1>2, PTL DEF Spec

LEMMA BasicTypes == Basic => TypeOK
  <1>. SUFFICES ASSUME Basic PROVE TypeOK  OBVIOUS
  <1>1. Len(fam) \in 0..MaxTokens /\ Len(conns) \in Nat /\ C = 1..Len(conns)
    <2>1. Len(fam) <= MaxTokens  BY DEF Basic, Typed, ServerTypes
    <2>. QED  BY <2>1, Counts DEF Basic
  <1>2. ReqOf(Len(fam)) \subseteq Requests  BY <1>1, Sizes DEF ReqOf, Requests
  <1>3. ConnOf(Len(fam)) \subseteq Conns  BY <1>1, <1>2, Sizes DEF ConnOf, Conns
  <1>4. conns \in Seq(Conns)  BY <1>3, Rest, SeqMonotonic DEF PageAt
  <1>5. \A c \in C : conns[c].tok \in Tokens  BY ConnHere DEF Tokens
  <1>6. live \subseteq Tokens /\ gen \in 1..MaxEnds + 1  BY DEF Basic, Typed, ServerTypes
  <1>7. {keyring, kept} \subseteq Tokens \union {None}
    <2>1. keyring \in 0..Len(fam) /\ kept \in 0..Len(fam)  BY Rest DEF PageAt
    <2>. QED  BY <1>1, <2>1 DEF Tokens, None
  <1>8. list \in C \union {0} /\ retry.api \in C \union {0} /\ chain.c \in C \union {0}
    <2>1. list \in 0..Len(conns) /\ retry.api \in 0..Len(conns) /\ chain.c \in 0..Len(conns)
      BY Rest DEF PageAt, RetryOf, ChainOf
    <2>. QED  BY <1>1, <2>1
  <1>9. /\ waiting \in {"none", "trying", "failed"} /\ retry.is \in {"none", "busy", "timer"}
        /\ {up, forgotten, blocked, looked, excused} \subseteq BOOLEAN
    BY Rest DEF PageAt, RetryOf
  <1>. QED  BY <1>4, <1>5, <1>6, <1>7, <1>8, <1>9 DEF TypeOK

\* The shape of the state, whatever sign-ins, renewals, changes and asks cross: what the
\* keyring, the connections and the share window hold is a token the server gave.
THEOREM SignInTypes == Spec => []TypeOK
  BY BasicAlways, BasicTypes, PTL

\* Signing out ends the share window's sign-in too: once its runs are done, none is kept
\* for a server the app is signed out of (useShareSignIns, keepShareSignIns).
THEOREM ShareSignInEnds == Spec => []ShareEnds
  <1>1. ShareInv => ShareEnds  BY DEF ShareInv, ShareEnds
  <1>. QED  BY <1>1, BasicAlways, PTL

-----------------------------------------------------------------------------
(* One way in at a time                                                    *)

\* The list and the way back are left as they are, or let go of.
Lets ==
  /\ UNCHANGED <<up, forgotten>>
  /\ list' \in {list, 0} /\ chain'.c \in {chain.c, 0} /\ retry'.api \in {retry.api, chain.c, 0}
  /\ chain'.req \in {chain.req, Idle}

LEMMA SessKept ==
  ASSUME SessInv, Len(conns') = Len(conns), UNCHANGED <<up, forgotten, list, retry, chain>>
  PROVE  SessInv' /\ Lets
  BY DEF SessInv, Lets, N

LEMMA SettleLets ==
  ASSUME Typed, SessInv, NEW c \in C, NEW how, NEW key, Settle(c, how, key),
         UNCHANGED <<up, forgotten>>, Len(conns') = Len(conns)
  PROVE  /\ SessInv' /\ Lets /\ keyring' \in {key, keyring, None}
         /\ how # "refused" => keyring' = key
         /\ how = "refused" => forgotten \/ (list' = 0 /\ retry' = NoRetry)
  <1>1. /\ \/ ~Mine(c) /\ chain' = chain
           \/ Mine(c) /\ how = "ok" /\ chain' = MeAgain
           \/ Mine(c) /\ how # "ok" /\ chain' = NoChain
        /\ \/ /\ how # "refused" /\ keyring' = key /\ UNCHANGED <<list, blocked>>
              /\ \/ UNCHANGED <<waiting, retry>>
                 \/ how = "failed" /\ Mine(c) /\ Timed(c)
           \/ how = "refused" /\ forgotten /\ UNCHANGED <<keyring, list, blocked, waiting, retry>>
           \/ how = "refused" /\ ~forgotten /\ SignedOutNow
    BY SettleIs
  <1>2. MeAgain.pc = "me again" /\ MeAgain.c = chain.c /\ MeAgain.req = chain.req
    BY ChainMoves DEF MeAgain
  <1>3. NoChain.pc = "idle" /\ NoChain.c = 0 /\ NoChain.req = Idle /\ NoRetry.is = "none" /\ NoRetry.api = 0
    BY NoChainIs, NoRetryIs
  <1>4. C = 1..Len(conns) /\ Len(conns) \in Nat  BY Counts
  <1>5. c # 0 /\ N # 0 /\ up  BY <1>4 DEF SessInv, N
  <1>6. Mine(c) => chain # NoChain /\ chain.c = c /\ list = 0  BY <1>3 DEF Mine, SessInv
  <1>7. chain' = chain \/ (Mine(c) /\ chain'.pc \in {"me again", "idle"} /\ chain'.c \in {chain.c, 0}
                            /\ chain'.req \in {chain.req, Idle} /\ (chain'.pc = "idle" => chain' = NoChain))
    BY <1>1, <1>2, <1>3
  <1>8. \/ retry' = retry
        \/ retry' = NoRetry /\ list' = 0
        \/ Mine(c) /\ retry'.is = "timer" /\ retry'.api = c
    BY <1>1, <1>5 DEF Timed, SignedOutNow
  <1>9. list' \in {list, 0}  BY <1>1 DEF SignedOutNow
  <1>10. keyring' \in {key, keyring, None}  BY <1>1 DEF SignedOutNow
  <1>11. Lets  BY <1>3, <1>6, <1>7, <1>8, <1>9 DEF Lets
  <1>12. N' = N /\ up' = up /\ forgotten' = forgotten  BY DEF N
  <1>13. SessInv'
    <2>1. {list', chain'.c, retry'.api} \subseteq {0, N}  BY <1>3, <1>6, <1>7, <1>8, <1>9 DEF SessInv
    <2>2. chain' # NoChain \/ retry'.is = "timer" => list' = 0
      BY <1>3, <1>6, <1>7, <1>8, <1>9 DEF SessInv
    <2>3. chain'.pc \in {"health", "refresh"} => N = 0  BY <1>7 DEF SessInv
    <2>4. retry'.is = "timer" => chain' = NoChain /\ (retry'.api = 0 => N = 0)
      <3>1. CASE retry' = retry
        <4>1. retry'.is = "timer" => chain = NoChain /\ (retry'.api = 0 => N = 0)  BY <3>1 DEF SessInv
        <4>. QED  BY <1>6, <1>7, <4>1
      <3>2. CASE retry' = NoRetry  BY <1>3, <3>2
      <3>3. CASE Mine(c) /\ retry'.is = "timer" /\ retry'.api = c
        <4>1. retry.is # "timer"  BY <1>6, <3>3 DEF SessInv
        <4>2. retry' # retry /\ retry' # NoRetry  BY <1>3, <3>3, <4>1
        <4>3. how # "ok"  BY <1>1, <4>2 DEF SignedOutNow
        <4>. QED  BY <1>1, <1>5, <3>3, <4>3
      <3>. QED  BY <1>8, <3>1, <3>2, <3>3
    <2>5. list' # 0 => ~forgotten  BY <1>9 DEF SessInv
    <2>6. chain'.pc = "idle" => chain' = NoChain  BY <1>7 DEF SessInv
    <2>. QED  BY <1>5, <1>12, <2>1, <2>2, <2>3, <2>4, <2>5, <2>6 DEF SessInv
  <1>14. how = "refused" => forgotten \/ (list' = 0 /\ retry' = NoRetry)  BY <1>1 DEF SignedOutNow
  <1>15. how # "refused" => keyring' = key  BY <1>1
  <1>. QED  BY <1>10, <1>11, <1>13, <1>14, <1>15

-----------------------------------------------------------------------------
(* A connection's turn and the families                                    *)

LEMMA HereApart ==
  ASSUME NEW f, NEW t, NEW u, Apart(f, t, u) PROVE Apart(f, u, t)
  BY DEF Apart

LEMMA TokensIn ==
  ASSUME Basic
  PROVE  /\ Ours \subseteq 0..Len(fam) /\ Shares \subseteq 0..Len(fam)
         /\ \A c \in C : TokensOf(conns[c]) \subseteq 0..Len(fam)
         /\ 0 \in 0..Len(fam)
  <1>1. ASSUME NEW c \in C PROVE TokensOf(conns[c]) \subseteq 0..Len(fam) /\ conns[c].ask.ans \in 0..Len(fam)
    <2>1. /\ conns[c].tok \in 1..Len(fam) /\ conns[c].ren \in ReqOf(Len(fam))
          /\ conns[c].chg \in ReqOf(Len(fam)) /\ conns[c].ask \in ReqOf(Len(fam))
      BY ConnHere
    <2>. QED  BY <2>1, Counts DEF TokensOf, ReqOf, Basic
  <1>2. keyring \in 0..Len(fam) /\ kept \in 0..Len(fam) /\ run.tok \in 0..Len(fam)
    BY Rest DEF PageAt, RunOf
  <1>3. chain.req.tok \in 0..Len(fam) /\ chain.req.ans \in 0..Len(fam)
    BY Rest DEF PageAt, ChainOf, ReqOf
  <1>. QED  BY <1>1, <1>2, <1>3, Counts DEF Ours, Shares, Basic

\* No two tokens that were apart are of one family now.
Keeps == \A t \in 0..Len(fam), u \in 0..Len(fam) : Apart(fam, t, u) => Apart(fam', t, u)

LEMMA GrownKeeps == ASSUME NEW f, Grown(f) PROVE Keeps
  BY DEF Grown, Keeps, Apart, Tokens, None

\* A turn of connection c, which may be given the token x, or the share window the token y.
LEMMA TurnFamily ==
  ASSUME Basic, FamilyInv, Keeps, NEW c \in C, NEW x, NEW y,
         C' = C, \A d \in C : d # c => conns'[d] = conns[d],
         TokensOf(conns'[c]) \subseteq TokensOf(conns[c]) \union {None, x},
         conns'[c].ask.ans \in {conns[c].ask.ans, None, y},
         Kin(fam', conns'[c]),
         keyring' \in {keyring, None} \union TokensOf(conns[c]), chain'.req \in {chain.req, Idle},
         kept' = kept, run'.tok \in {run.tok, None, conns[c].ask.ans}, run'.pc = "save" => run'.tok # None,
         \A u \in Shares : Apart(fam', x, u),
         \A d \in C \ {c} : \A u \in TokensOf(conns[d]) : Apart(fam', x, u),
         \A t \in Ours : Apart(fam', t, y), Apart(fam', x, y)
  PROVE  FamilyInv'
  <1>. DEFINE O == Ours \union {None, x}  H == Shares \union {None, y}
  <1>1. Split(fam', O, H)
    <2>. SUFFICES ASSUME NEW t \in O, NEW u \in H PROVE Apart(fam', t, u)  BY DEF Split
    <2>1. CASE t = None \/ u = None  BY <2>1 DEF Apart
    <2>2. CASE t \in Ours /\ u \in Shares
      <3>1. Apart(fam, t, u)  BY <2>2 DEF FamilyInv, Split
      <3>. QED  BY <2>2, <3>1, TokensIn DEF Keeps
    <2>. QED  BY <2>1, <2>2
  <1>2. Ours' \subseteq O
    <2>1. TokensOf(conns[c]) \subseteq Ours  BY DEF Ours
    <2>2. ASSUME NEW d \in C PROVE TokensOf(conns'[d]) \subseteq O
      <3>1. CASE d = c  BY <2>1, <3>1
      <3>2. CASE d # c  BY <3>2 DEF Ours
      <3>. QED  BY <3>1, <3>2
    <2>3. {keyring', chain'.req.tok, chain'.req.ans} \subseteq O
      <3>1. Idle.tok = None /\ Idle.ans = None  BY DEF Idle
      <3>2. {keyring, chain.req.tok, chain.req.ans} \subseteq Ours  BY DEF Ours
      <3>. QED  BY <2>1, <3>1, <3>2
    <2>4. Ours' = {keyring', chain'.req.tok, chain'.req.ans} \union UNION {TokensOf(conns'[d]) : d \in C'}
      BY DEF Ours, TokensOf
    <2>. HIDE DEF O
    <2>. QED  BY <2>2, <2>3, <2>4
  <1>3. Shares' \subseteq H
    <2>1. conns[c].ask.ans \in Shares /\ kept \in Shares /\ run.tok \in Shares  BY DEF Shares
    <2>2. ASSUME NEW d \in C PROVE conns'[d].ask.ans \in H
      <3>1. CASE d = c  BY <2>1, <3>1
      <3>2. CASE d # c  BY <3>2 DEF Shares
      <3>. QED  BY <3>1, <3>2
    <2>3. {kept', run'.tok} \subseteq H  BY <2>1
    <2>4. Shares' = {kept', run'.tok} \union {conns'[d].ask.ans : d \in C'}  BY DEF Shares
    <2>. HIDE DEF H
    <2>. QED  BY <2>2, <2>3, <2>4
  <1>4. Split(fam', Ours', Shares')  BY <1>1, <1>2, <1>3 DEF Split
  <1>5. ASSUME NEW a \in C', NEW b \in C', a # b PROVE Split(fam', TokensOf(conns'[a]), TokensOf(conns'[b]))
    <2>1. ASSUME NEW d \in C, d # c PROVE Split(fam', TokensOf(conns'[c]), TokensOf(conns'[d]))
      <3>. SUFFICES ASSUME NEW t \in TokensOf(conns'[c]), NEW u \in TokensOf(conns'[d]) PROVE Apart(fam', t, u)
        BY DEF Split
      <3>1. u \in TokensOf(conns[d])  BY <2>1
      <3>2. CASE t \in TokensOf(conns[c])
        <4>1. Apart(fam, t, u)  BY <2>1, <3>1, <3>2 DEF FamilyInv, Split
        <4>2. t \in 0..Len(fam) /\ u \in 0..Len(fam)  BY <3>1, <3>2, TokensIn
        <4>. QED  BY <4>1, <4>2 DEF Keeps
      <3>3. CASE t = None  BY <3>3 DEF Apart
      <3>4. CASE t = x  BY <2>1, <3>1, <3>4
      <3>. QED  BY <3>2, <3>3, <3>4
    <2>2. CASE a = c  BY <1>5, <2>1, <2>2
    <2>3. CASE b = c
      <3>1. Split(fam', TokensOf(conns'[c]), TokensOf(conns'[a]))  BY <1>5, <2>1, <2>3
      <3>. QED  BY <2>3, <3>1, HereApart DEF Split
    <2>4. CASE a # c /\ b # c
      <3>1. conns'[a] = conns[a] /\ conns'[b] = conns[b]  BY <2>4
      <3>2. Split(fam, TokensOf(conns[a]), TokensOf(conns[b]))  BY <1>5 DEF FamilyInv
      <3>3. TokensOf(conns[a]) \subseteq 0..Len(fam) /\ TokensOf(conns[b]) \subseteq 0..Len(fam)  BY TokensIn
      <3>. QED  BY <3>1, <3>2, <3>3 DEF Split, Keeps
    <2>. QED  BY <2>2, <2>3, <2>4
  <1>6. ASSUME NEW d \in C' PROVE Kin(fam', conns'[d])
    <2>1. CASE d = c  BY <2>1
    <2>2. CASE d # c
      <3>1. conns'[d] = conns[d] /\ Kin(fam, conns[d])  BY <2>2 DEF FamilyInv
      <3>2. TokensOf(conns[d]) \subseteq 0..Len(fam)  BY TokensIn
      <3>3. Kin(fam', conns[d])  BY <3>1, <3>2 DEF Kin, Split, Keeps, TokensOf
      <3>. QED  BY <3>1, <3>3
    <2>. QED  BY <2>1, <2>2
  <1>7. \A a \in C', b \in C' : a # b => Split(fam', TokensOf(conns'[a]), TokensOf(conns'[b]))  BY <1>5
  <1>8. \A d \in C' : Kin(fam', conns'[d])  BY <1>6
  <1>. QED  BY <1>4, <1>7, <1>8 DEF FamilyInv, TokensOf, Kin, Split, Apart

-----------------------------------------------------------------------------
(* The turns that the server takes no part in                              *)

\* What becomes of a connection's tokens.
Moves(f, k, k2) ==
  /\ TokensOf(k2) \subseteq TokensOf(k) \union {None}
  /\ k2.ask.ans \in {k.ask.ans, None} /\ Kin(f, k2)

\* The app's sign-in can be carried on with by connection c, if it could.
CarriesOn(c) ==
  c = N /\ Uses /\ ~excused' /\ keyring = conns[c].tok /\ Carries(conns[c], live)
    => keyring' = conns'[c].tok /\ Carries(conns'[c], live)

\* Such a turn of connection c.
Fine(c) ==
  /\ C' = C /\ Len(conns') = Len(conns) /\ \A d \in C : d # c => conns'[d] = conns[d]
  /\ fam' = fam /\ live' = live /\ kept' = kept
  /\ Moves(fam, conns[c], conns'[c])
  /\ keyring' \in {keyring, None} \union TokensOf(conns[c])
  /\ run'.tok \in {run.tok, None, conns[c].ask.ans} /\ (run'.pc = "save" => run'.tok # None)
  /\ SessInv' /\ Lets /\ (excused => excused') /\ (c # N => keyring' = keyring)
  /\ conns'[c].ren # Idle \/ conns'[c].chg # Idle => c = N
  /\ CarriesOn(c)

FamilyGood == Basic /\ LineInv /\ FamilyInv

LEMMA FineInductive ==
  ASSUME FamilyGood, CarriedInv, NEW c \in C, Fine(c)
  PROVE  LineInv' /\ FamilyInv' /\ CarriedInv'
  <1>1. N' = N /\ N # 0 /\ N \in C
    <2>1. C = 1..Len(conns) /\ Len(conns) \in Nat  BY Counts DEF FamilyGood, Basic
    <2>2. Len(conns') = Len(conns)  BY DEF Fine
    <2>. QED  BY <2>1, <2>2 DEF N
  <1>2. BusyInv'
    <2>1. ASSUME NEW d \in C', conns'[d].ren # Idle \/ conns'[d].chg # Idle PROVE d = N
      <3>1. CASE d = c  BY <2>1, <3>1 DEF Fine
      <3>2. CASE d # c
        <4>1. d \in C /\ conns'[d] = conns[d]  BY <3>2 DEF Fine
        <4>. QED  BY <2>1, <4>1 DEF FamilyGood, LineInv, BusyInv, Busy
      <3>. QED  BY <3>1, <3>2
    <2>2. \A d \in C' : conns'[d].ren # Idle \/ conns'[d].chg # Idle => d = N'  BY <1>1, <2>1
    <2>. QED  BY <2>2 DEF BusyInv, Busy
  <1>3. SessInv'  BY DEF Fine
  <1>4. FamilyInv'
    <2>1. Keeps  BY DEF Fine, Keeps
    <2>2. /\ C' = C /\ \A d \in C : d # c => conns'[d] = conns[d]
          /\ TokensOf(conns'[c]) \subseteq TokensOf(conns[c]) \union {None}
          /\ conns'[c].ask.ans \in {conns[c].ask.ans, None} /\ Kin(fam', conns'[c])
          /\ keyring' \in {keyring, None} \union TokensOf(conns[c]) /\ chain'.req \in {chain.req, Idle}
          /\ kept' = kept /\ run'.tok \in {run.tok, None, conns[c].ask.ans}
          /\ run'.pc = "save" => run'.tok # None
      BY DEF Fine, Moves, Lets
    <2>3. \A u : Apart(fam', None, u) /\ Apart(fam', u, None)  BY DEF Apart
    <2>4. PICK x \in {None} : TRUE  OBVIOUS
    <2>5. /\ TokensOf(conns'[c]) \subseteq TokensOf(conns[c]) \union {None, x}
          /\ conns'[c].ask.ans \in {conns[c].ask.ans, None, x}
          /\ \A u \in Shares : Apart(fam', x, u)
          /\ \A d \in C \ {c} : \A u \in TokensOf(conns[d]) : Apart(fam', x, u)
          /\ \A t \in Ours : Apart(fam', t, x)
          /\ Apart(fam', x, x)
      BY <2>2, <2>3
    <2>6. Basic /\ FamilyInv  BY DEF FamilyGood
    <2>. QED  BY <2>1, <2>2, <2>5, <2>6, TurnFamily
  <1>5. CarriedInv'
    <2>1. chain'.pc # "refresh"  BY <1>1, <1>3 DEF SessInv
    <2>. SUFFICES ASSUME ~excused', Uses' PROVE keyring' = conns'[N].tok /\ Carries(conns'[N], live')
      BY <1>1, <2>1 DEF CarriedInv, Carries, Comes, Held, Newest
    <2>2. ~excused  BY DEF Fine
    <2>3. Uses
      <3>1. ~forgotten' /\ N \in {list', chain'.c, retry'.api}  BY <1>1 DEF Uses
      <3>. QED  BY <1>1, <3>1 DEF Uses, Fine, Lets
    <2>4. keyring = conns[N].tok /\ Carries(conns[N], live)  BY <2>2, <2>3 DEF CarriedInv
    <2>5. CASE c = N  BY <2>3, <2>4, <2>5 DEF Fine, CarriesOn
    <2>6. CASE c # N
      <3>1. conns'[N] = conns[N] /\ keyring' = keyring /\ live' = live  BY <1>1, <2>6 DEF Fine
      <3>. QED  BY <2>4, <3>1
    <2>. QED  BY <2>5, <2>6
  <1>. QED  BY <1>2, <1>3, <1>4, <1>5 DEF LineInv

\* A connection whose token stays, whatever its requests.
LEMMA StayMoves ==
  ASSUME NEW f, NEW k, NEW k2, Kin(f, k), k2.tok = k.tok, k2.tok # None, k2.chg.ans \in {k.chg.ans, None},
         \/ k2.ren.tok = k.ren.tok /\ k2.ren.ans = k.ren.ans /\ k2.ren.pc \in {k.ren.pc, "refused", "failed"}
         \/ k2.ren.ans = None /\ k2.ren.tok = k.tok
         \/ k2.ren.ans = None /\ k2.ren.tok = None /\ k2.ren.pc # "wire",
         \/ k2.ask = k.ask
         \/ k2.ask.tok = k.tok /\ k2.ask.ans = None /\ k2.ask.pc = "wire"
         \/ k2.ask.tok = None /\ k2.ask.ans \in {None, k.ask.ans} /\ k2.ask.pc # "wire"
  PROVE  Moves(f, k, k2)
  <1>1. TokensOf(k2) \subseteq TokensOf(k) \union {None}  BY DEF TokensOf
  <1>2. k2.ask.ans \in {k.ask.ans, None}  OBVIOUS
  <1>3. \A t \in {k.tok, k.ren.tok, k.ren.ans, k.ask.tok} : Apart(f, k.chg.ans, t)  BY DEF Kin, Split
  <1>4. Split(f, {k2.chg.ans}, {k2.tok, k2.ren.tok, k2.ren.ans, k2.ask.tok})
    <2>1. \A t : Apart(f, None, t) /\ Apart(f, t, None)  BY DEF Apart
    <2>2. {k2.tok, k2.ren.tok, k2.ren.ans, k2.ask.tok} \subseteq {k.tok, k.ren.tok, k.ren.ans, k.ask.tok, None}
      OBVIOUS
    <2>. QED  BY <1>3, <2>1, <2>2 DEF Split
  <1>5. k2.ren.tok # k2.tok => Apart(f, k2.ren.tok, k2.tok)  BY DEF Kin, Apart
  <1>6. k2.ask.tok # k2.tok => Apart(f, k2.ask.tok, k2.tok)  BY DEF Kin, Apart
  <1>7. /\ k2.ren.pc = "wire" => k2.ren.tok # None
        /\ k2.ask.pc = "wire" => k2.ask.tok # None
        /\ k2.ask.tok # None => k2.ask.pc \in {"wire", "answered"}
    BY DEF Kin
  <1>. QED  BY <1>1, <1>2, <1>4, <1>5, <1>6, <1>7 DEF Moves, Kin

LEMMA KinHere ==
  ASSUME FamilyGood, NEW c \in C
  PROVE  /\ conns[c] \in ConnOf(Len(fam)) /\ AskIn(conns[c]) /\ Kin(fam, conns[c])
         /\ conns[c].tok # None /\ Len(fam) \in Nat /\ conns[c].tok \in 0..Len(fam)
         /\ Busy(c) => c = N
  <1>1. conns[c].tok \in 1..Len(fam) /\ Len(fam) \in Nat  BY ConnHere, Counts DEF FamilyGood, Basic
  <1>2. conns[c].tok # None  BY <1>1 DEF None
  <1>. QED  BY <1>1, <1>2, ConnHere DEF FamilyGood, FamilyInv, LineInv, BusyInv

\* A turn that leaves the sessions and the server alone.
LEMMA StillFine ==
  ASSUME FamilyGood, NEW c \in C, NEW k2, TurnOf(c, k2),
         UNCHANGED <<server, keyring, up, sessions, chain, kept, excused>>,
         run'.tok \in {run.tok, None, conns[c].ask.ans}, run'.pc = "save" => run'.tok # None,
         Moves(fam, conns[c], k2), k2.tok = conns[c].tok,
         k2.ren # Idle \/ k2.chg # Idle => Busy(c) \/ c = N,
         Carries(conns[c], live) => Carries(k2, live)
  PROVE  Fine(c)
  <1>1. conns'[c] = k2 /\ C' = C /\ Len(conns') = Len(conns) /\ \A d \in C : d # c => conns'[d] = conns[d]
    BY DEF TurnOf
  <1>2. SessInv' /\ Lets  BY <1>1, SessKept DEF FamilyGood, LineInv, sessions
  <1>3. fam' = fam /\ live' = live  BY DEF server
  <1>4. CarriesOn(c)  BY <1>1 DEF CarriesOn
  <1>5. k2.ren # Idle \/ k2.chg # Idle => c = N  BY KinHere
  <1>6. keyring' \in {keyring, None} \union TokensOf(conns[c])  OBVIOUS
  <1>. QED  BY <1>1, <1>2, <1>3, <1>4, <1>5, <1>6 DEF Fine

\* What is asked of a request or a connection by its step.
LEMMA HeldIsTok ==
  ASSUME NEW k, NEW L, k.ren.pc # "answered", k.ren.pc # "refused", ~Comes(k)
  PROVE  Carries(k, L) <=> k.tok \in L
  BY DEF Carries, Held

LEMMA RenewedCarries ==
  ASSUME NEW m \in Nat, NEW k \in ConnOf(m), NEW f, Kin(f, k), k.tok # None, NEW L
  PROVE  /\ Moves(f, k, Renewed(k)) /\ Renewed(k).tok = k.tok
         /\ Renewed(k).ren # Idle \/ Renewed(k).chg # Idle
         /\ Carries(k, L) => Carries(Renewed(k), L)
  <1>. DEFINE k2 == Renewed(k)
  <1>1. k2.tok = k.tok /\ k2.chg = k.chg /\ k2.ask = k.ask  BY RenewedIs
  <1>2. k2.ren = IF k.ren # Idle \/ k.chg # Idle THEN k.ren ELSE IF k.ask = Idle THEN Sent(k.tok) ELSE Asking
    BY RenewedIs
  <1>3. k.tok \in 0..m  BY DEF ConnOf
  <1>4. Sent(k.tok).pc = "wire" /\ Sent(k.tok).tok = k.tok /\ Sent(k.tok).ans = None /\ Sent(k.tok) # Idle
    BY <1>3, SentIs
  <1>5. Asking.pc = "asking" /\ Asking.tok = None /\ Asking.ans = None /\ Asking # Idle  BY AskingIs
  <1>6. Idle.pc = "idle"  BY IdleIs
  <1>. HIDE DEF k2
  <1>7. CASE k2.ren = k.ren
    <2>1. Moves(f, k, k2)  BY <1>1, <1>7, StayMoves
    <2>2. Carries(k, L) => Carries(k2, L)  BY <1>1, <1>7 DEF Carries, Comes, Held, Newest
    <2>3. k2.ren # Idle \/ k2.chg # Idle  BY <1>1, <1>2, <1>4, <1>5
    <2>. QED  BY <1>1, <2>1, <2>2, <2>3 DEF k2
  <1>8. CASE k.ren = Idle /\ k.chg = Idle
    <2>1. k2.ren = Sent(k.tok) \/ k2.ren = Asking  BY <1>2, <1>8
    <2>2. k2.ren.ans = None /\ (k2.ren.tok = k.tok \/ (k2.ren.tok = None /\ k2.ren.pc # "wire"))
          /\ k2.ren.pc \in {"wire", "asking"} /\ k2.ren # Idle
      BY <1>4, <1>5, <2>1
    <2>3. Moves(f, k, k2)  BY <1>1, <2>2, StayMoves
    <2>4. ~Comes(k) /\ ~Comes(k2)  BY <1>1, <1>6, <1>8 DEF Comes
    <2>5. k.ren.pc = "idle"  BY <1>6, <1>8
    <2>6. (Carries(k, L) <=> k.tok \in L) /\ (Carries(k2, L) <=> k2.tok \in L)
      BY <2>2, <2>4, <2>5, HeldIsTok
    <2>. QED  BY <1>1, <2>2, <2>3, <2>6 DEF k2
  <1>. QED  BY <1>2, <1>7, <1>8

\* The session the app shows or comes back to is of the last connection.
LEMMA ListIsLast ==
  ASSUME FamilyGood, NEW c \in C, c \in {list, chain.c, retry.api} PROVE c = N
  <1>1. c # 0  BY Counts DEF FamilyGood, Basic
  <1>. QED  BY <1>1 DEF FamilyGood, LineInv, SessInv

LEMMA RunHere ==
  ASSUME FamilyGood PROVE run.pc = "save" => run.tok # None
  BY DEF FamilyGood, FamilyInv

LEMMA RenewFine == ASSUME FamilyGood, NEW c \in C, Renew(c) PROVE Fine(c)
  <1>. DEFINE k2 == Renewed(conns[c])
  <1>1. c = list /\ UNCHANGED <<server, keyring, up, sessions, chain, sharing, excused>>  BY DEF Renew
  <1>2. TurnOf(c, k2)  BY RenewTurns DEF FamilyGood
  <1>3. /\ Moves(fam, conns[c], k2) /\ k2.tok = conns[c].tok
        /\ Carries(conns[c], live) => Carries(k2, live)
    BY KinHere, RenewedCarries
  <1>. HIDE DEF k2
  <1>4. c = N  BY <1>1, ListIsLast
  <1>5. run' = run /\ kept' = kept  BY <1>1 DEF sharing
  <1>. QED  BY <1>1, <1>2, <1>3, <1>4, <1>5, RunHere, StillFine

LEMMA ExpiresFine == ASSUME FamilyGood, NEW c \in C, Expires(c) PROVE Fine(c)
  <1>. DEFINE k2 == Stale(conns[c])
  <1>1. c = retry.api /\ UNCHANGED <<server, keyring, up, sessions, chain, sharing, excused>>  BY DEF Expires
  <1>2. TurnOf(c, k2)  BY ExpiresTurns DEF FamilyGood
  <1>3. k2.tok = conns[c].tok /\ k2.ren = conns[c].ren /\ k2.chg = conns[c].chg /\ k2.ask = conns[c].ask
    BY KinHere, StaleIs
  <1>. HIDE DEF k2
  <1>4. Moves(fam, conns[c], k2)  BY <1>3, KinHere, StayMoves
  <1>5. Carries(conns[c], live) => Carries(k2, live)  BY <1>3 DEF Carries, Comes, Held, Newest
  <1>6. c = N  BY <1>1, ListIsLast
  <1>7. run' = run /\ kept' = kept  BY <1>1 DEF sharing
  <1>. QED  BY <1>1, <1>2, <1>3, <1>4, <1>5, <1>6, <1>7, RunHere, StillFine

LEMMA ChangePasswordFine == ASSUME FamilyGood, NEW c \in C, ChangePassword(c) PROVE Fine(c)
  <1>1. /\ c = list /\ conns[c].chg = Idle
        /\ UNCHANGED <<server, keyring, up, sessions, chain, sharing, excused>>
    BY DEF ChangePassword
  <1>2. PICK r \in ReqOf(Len(fam)) : /\ TurnOf(c, WithChg(conns[c], r))
                                     /\ r.pc = "wire" /\ r.tok = None /\ r.ans = None
    BY ChangePasswordTurns DEF FamilyGood
  <1>. DEFINE k2 == WithChg(conns[c], r)
  <1>3. k2.tok = conns[c].tok /\ k2.ren = conns[c].ren /\ k2.chg = r /\ k2.ask = conns[c].ask
    BY KinHere, WithChgIs
  <1>4. TurnOf(c, k2)  BY <1>2
  <1>. HIDE DEF k2
  <1>5. Moves(fam, conns[c], k2)  BY <1>2, <1>3, KinHere, StayMoves
  <1>6. Carries(conns[c], live) => Carries(k2, live)
    BY <1>1, <1>2, <1>3, IdleIs DEF Carries, Comes, Held, Newest
  <1>7. c = N  BY <1>1, ListIsLast
  <1>8. run' = run /\ kept' = kept  BY <1>1 DEF sharing
  <1>. QED  BY <1>1, <1>3, <1>4, <1>5, <1>6, <1>7, <1>8, RunHere, StillFine

LEMMA AskGoesFine == ASSUME FamilyGood, NEW c \in C, AskGoes(c) PROVE Fine(c)
  <1>. DEFINE r == Sent(conns[c].tok)  k2 == WithAsk(conns[c], r)
  <1>1. UNCHANGED <<server, keyring, up, sessions, chain, sharing, excused>>  BY DEF AskGoes
  <1>2. TurnOf(c, k2)  BY AskGoesTurns DEF FamilyGood
  <1>3. r \in ReqOf(Len(fam)) /\ r.pc = "wire" /\ r.tok = conns[c].tok /\ r.ans = None  BY KinHere, SentIs
  <1>. HIDE DEF r
  <1>4. k2.tok = conns[c].tok /\ k2.ren = conns[c].ren /\ k2.chg = conns[c].chg /\ k2.ask = r
    BY <1>3, KinHere, WithAskIs
  <1>. HIDE DEF k2
  <1>5. Moves(fam, conns[c], k2)  BY <1>3, <1>4, KinHere, StayMoves
  <1>6. Carries(conns[c], live) => Carries(k2, live)  BY <1>4 DEF Carries, Comes, Held, Newest
  <1>7. run' = run /\ kept' = kept  BY <1>1 DEF sharing
  <1>. QED  BY <1>1, <1>2, <1>4, <1>5, <1>6, <1>7, RunHere, StillFine DEF Busy

LEMMA AskSettlesFine == ASSUME FamilyGood, NEW c \in C, NEW lost \in BOOLEAN, AskSettles(c, lost) PROVE Fine(c)
  <1>. DEFINE k == conns[c]  k2 == AskDone(k)
  <1>1. /\ run'.tok \in {None, k.ask.ans}
        /\ UNCHANGED <<server, keyring, up, sessions, chain, kept, excused>>
    BY AskSettlesIs DEF FamilyGood
  <1>2. run'.pc = "save" => run'.tok # None
    <2>. DEFINE a == IF lost THEN None ELSE k.ask.ans  pc == IF a = None THEN "end" ELSE "save"
    <2>1. run' = [run EXCEPT !.pc = pc, !.tok = a]  BY DEF AskSettles
    <2>2. pc = "save" => a # None  OBVIOUS
    <2>3. run \in RunOf(Len(fam), Len(conns))  BY Rest DEF PageAt, FamilyGood
    <2>. HIDE DEF a, pc
    <2>. QED  BY <2>1, <2>2, <2>3 DEF RunOf
  <1>3. TurnOf(c, k2)  BY AskSettlesTurns DEF FamilyGood
  <1>4. /\ k2.tok = k.tok /\ k2.chg = k.chg /\ k2.ask = Idle
        /\ k2.ren = IF k.ren.pc = "asking" THEN Sent(k.tok) ELSE k.ren
    BY KinHere, AskDoneIs
  <1>5. Sent(k.tok).pc = "wire" /\ Sent(k.tok).tok = k.tok /\ Sent(k.tok).ans = None  BY KinHere, SentIs
  <1>6. Idle.pc = "idle" /\ Idle.tok = None /\ Idle.ans = None  BY IdleIs
  <1>. HIDE DEF k2
  <1>7. k2.ren # Idle => k.ren # Idle  BY <1>4, <1>6
  <1>8. Moves(fam, k, k2)  BY <1>4, <1>5, <1>6, KinHere, StayMoves
  <1>9. Carries(k, live) => Carries(k2, live)  BY <1>4, <1>5 DEF Carries, Comes, Held, Newest
  <1>. HIDE DEF k
  <1>10. k = conns[c]  BY DEF k
  <1>. QED  BY <1>1, <1>2, <1>3, <1>4, <1>7, <1>8, <1>9, <1>10, StillFine DEF Busy

LEMMA RunStartsFine ==
  ASSUME FamilyGood, NEW b \in BOOLEAN, RunStarts(b), conns' # conns
  PROVE  run'.c \in C /\ Fine(run'.c)
  <1>. DEFINE c == run'.c  k == conns[c]  k2 == AskBegun(k)
  <1>1. /\ c \in C /\ run'.tok = None /\ run'.pc = "ask"
        /\ UNCHANGED <<server, keyring, up, sessions, chain, kept, excused>>
    BY RunStartsIs DEF FamilyGood
  <1>2. TurnOf(c, k2)  BY RunStartsTurns DEF FamilyGood
  <1>. HIDE DEF c
  <1>3. /\ k2.tok = k.tok /\ k2.ren = k.ren /\ k2.chg = k.chg /\ k2.ask = Before
    BY <1>1, KinHere, AskBegunIs
  <1>4. Before.pc = "before" /\ Before.tok = None /\ Before.ans = None  BY <1>1, KinHere, BeforeIs
  <1>. HIDE DEF k2
  <1>5. Moves(fam, k, k2)  BY <1>1, <1>3, <1>4, KinHere, StayMoves
  <1>6. Carries(k, live) => Carries(k2, live)  BY <1>3 DEF Carries, Comes, Held, Newest
  <1>7. Fine(c)  BY <1>1, <1>2, <1>3, <1>5, <1>6, StillFine DEF Busy
  <1>. QED  BY <1>1, <1>7 DEF c

\* A turn that settles something for whoever waits.
LEMMA SettledFine ==
  ASSUME FamilyGood, NEW c \in C, NEW k2, TurnOf(c, k2), UNCHANGED <<server, sharing>>,
         SessInv', Lets, excused => excused', c = N,
         keyring' \in {keyring, None} \union TokensOf(conns[c]),
         Moves(fam, conns[c], k2),
         Uses /\ ~excused' /\ keyring = conns[c].tok /\ Carries(conns[c], live)
           => keyring' = k2.tok /\ Carries(k2, live)
  PROVE  Fine(c)
  <1>1. conns'[c] = k2 /\ C' = C /\ Len(conns') = Len(conns) /\ \A d \in C : d # c => conns'[d] = conns[d]
    BY DEF TurnOf
  <1>2. fam' = fam /\ live' = live /\ kept' = kept /\ run' = run  BY DEF server, sharing
  <1>3. CarriesOn(c)  BY <1>1, <1>2 DEF CarriesOn
  <1>. QED  BY <1>1, <1>2, <1>3, RunHere DEF Fine

\* A step that settles leaves the sessions as they are, or as Settle does.
LEMMA SettlesLets ==
  ASSUME Typed, SessInv, NEW c \in C, NEW how, NEW key,
         (keyring' = key /\ UNCHANGED <<list, retry, chain>>) \/ Settle(c, how, key),
         UNCHANGED <<up, forgotten>>, Len(conns') = Len(conns)
  PROVE  /\ SessInv' /\ Lets /\ keyring' \in {key, keyring, None}
         /\ how # "refused" => keyring' = key
  BY SettleLets, SessKept

LEMMA GoodParts == ASSUME FamilyGood PROVE Typed /\ Basic /\ SessInv
  BY DEF FamilyGood, Basic, LineInv

LEMMA MeRefusedFine == ASSUME FamilyGood, WayOK, MeRefused PROVE chain.c \in C /\ Fine(chain.c)
  <1>. DEFINE c == chain.c  k2 == Renewed(conns[c])
  <1>0. /\ chain.pc = "me" /\ chain' = [chain EXCEPT !.pc = "renewing"]
        /\ UNCHANGED <<server, keyring, up, sessions, sharing, excused>>
    BY DEF MeRefused
  <1>1. c \in C
    <2>1. chain.c \in 0..Len(conns)  BY Rest, GoodParts DEF PageAt, ChainOf
    <2>2. chain.c # 0  BY <1>0 DEF WayOK
    <2>3. C = 1..Len(conns) /\ Len(conns) \in Nat  BY Counts, GoodParts
    <2>. QED  BY ONLY <2>1, <2>2, <2>3
  <1>2. TurnOf(c, k2)  BY <1>1, MeRefusedTurns, GoodParts
  <1>3. chain'.pc = "renewing" /\ chain'.c = chain.c /\ chain'.req = chain.req
    BY <1>0, ChainMoves, GoodParts
  <1>4. c = N  BY <1>1, ListIsLast
  <1>5. SessInv' /\ Lets
    <2>1. NoChain.pc = "idle"  BY NoChainIs, GoodParts
    <2>2. chain # NoChain /\ chain' # NoChain  BY <1>0, <1>3, <2>1
    <2>3. UNCHANGED <<list, retry, up, forgotten>>  BY <1>0 DEF sessions
    <2>4. Len(conns') = Len(conns)  BY <1>2 DEF TurnOf
    <2>. QED  BY <1>3, <2>2, <2>3, <2>4, GoodParts DEF SessInv, Lets, N
  <1>6. /\ Moves(fam, conns[c], k2) /\ k2.tok = conns[c].tok
        /\ Carries(conns[c], live) => Carries(k2, live)
    BY <1>1, KinHere, RenewedCarries
  <1>. HIDE DEF k2
  <1>7. keyring' = keyring /\ excused' = excused  BY <1>0
  <1>8. Fine(c)  BY <1>0, <1>1, <1>2, <1>4, <1>5, <1>6, <1>7, SettledFine
  <1>. QED  BY <1>1, <1>8

LEMMA RotateArrivesFine == ASSUME FamilyGood, NEW c \in C, RotateArrives(c) PROVE Fine(c)
  <1>. DEFINE k == conns[c]  k2 == Arrived(k)
  <1>1. /\ k.ren.pc = "answered" /\ k.ren.ans # None
        /\ Settle(c, "ok", IF Newest(k) THEN k.ren.ans ELSE keyring)
        /\ UNCHANGED <<server, up, forgotten, sharing, excused, counts>>
    BY RotateArrivesIs
  <1>2. TurnOf(c, k2)  BY RotateArrivesTurns, GoodParts
  <1>3. /\ k2.tok = (IF Newest(k) THEN k.ren.ans ELSE k.tok)
        /\ k2.ren = Idle /\ k2.chg = k.chg /\ k2.ask = k.ask
    BY <1>1, KinHere, ArrivedIs
  <1>4. Idle.pc = "idle" /\ Idle.tok = None /\ Idle.ans = None  BY IdleIs
  <1>5. Kin(fam, k) /\ AskIn(k) /\ k.tok # None /\ (Busy(c) => c = N)  BY KinHere
  <1>6. c = N  BY <1>1, <1>4, <1>5 DEF Busy
  <1>7. Len(conns') = Len(conns)  BY <1>2 DEF TurnOf
  <1>. DEFINE key == IF Newest(k) THEN k.ren.ans ELSE keyring
  <1>8. Settle(c, "ok", key)  BY <1>1
  <1>9. (Newest(k) => key = k.ren.ans) /\ (~Newest(k) => key = keyring)  OBVIOUS
  <1>. HIDE DEF key
  <1>10. PICK ok \in {"ok"} : Settle(c, ok, key)  BY <1>8
  <1>11. SessInv' /\ Lets /\ keyring' = key
    <2>1. ok # "refused"  OBVIOUS
    <2>2. UNCHANGED <<up, forgotten>>  BY <1>1
    <2>. QED  BY <1>7, <1>10, <2>1, <2>2, SettleLets, GoodParts
  <1>12. keyring' \in {keyring, None} \union TokensOf(k)  BY <1>9, <1>11 DEF TokensOf
  <1>. HIDE DEF k2
  <1>13. Moves(fam, k, k2)
    <2>1. CASE ~Newest(k)  BY <1>3, <1>4, <1>5, <2>1, StayMoves
    <2>2. CASE Newest(k)
      <3>1. k.ask.tok = None
        <4>1. k.ask.tok # None => k.ask.pc \in {"wire", "answered"}  BY <1>5 DEF Kin
        <4>2. k.ask.pc \in {"wire", "answered"} => k.ask # Idle  BY <1>4
        <4>. QED  BY <1>1, <1>5, <4>1, <4>2 DEF AskIn
      <3>2. TokensOf(k2) \subseteq TokensOf(k) \union {None}  BY <1>3, <1>4, <2>2 DEF TokensOf
      <3>3. Kin(fam, k2)
        BY <1>3, <1>4, <1>5, <2>2, <3>1 DEF Kin, Split, Apart
      <3>. QED  BY <1>3, <3>2, <3>3 DEF Moves
    <2>. QED  BY <2>1, <2>2
  <1>14. Uses /\ ~excused' /\ keyring = k.tok /\ Carries(k, live) => keyring' = k2.tok /\ Carries(k2, live)
    BY <1>1, <1>3, <1>4, <1>9, <1>11 DEF Carries, Comes, Held
  <1>15. excused' = excused /\ UNCHANGED <<server, sharing>>  BY <1>1
  <1>. QED  BY <1>2, <1>6, <1>11, <1>12, <1>13, <1>14, <1>15, SettledFine

LEMMA ChangeArrivesFine == ASSUME FamilyGood, NEW c \in C, ChangeArrives(c) PROVE Fine(c)
  <1>. DEFINE k == conns[c]  t == Taken(k)  k2 == Ended(t, TRUE)
  <1>1. /\ k.chg.pc = "answered" /\ k.chg.ans # None
        /\ \/ keyring' = k.chg.ans /\ UNCHANGED <<list, blocked, waiting, retry, chain>>
           \/ Settle(c, "ok", k.chg.ans)
        /\ UNCHANGED <<server, up, forgotten, sharing, excused, counts>>
    BY ChangeArrivesIs
  <1>2. TurnOf(c, k2)  BY ChangeArrivesTurns, GoodParts
  <1>3. /\ t \in ConnOf(Len(fam)) /\ t.tok = k.chg.ans /\ t.ren = k.ren /\ t.ask = k.ask
    BY <1>1, KinHere, TakenIs
  <1>4. Idle.pc = "idle" /\ Idle.tok = None /\ Idle.ans = None  BY IdleIs
  <1>. HIDE DEF t
  <1>5. /\ k2.tok = k.chg.ans /\ k2.chg = Idle /\ k2.ask = k.ask
        /\ k2.ren = (IF Waits(t) THEN Idle ELSE k.ren)
    <2>1. PICK b \in {TRUE} : k2 = Ended(t, b)  OBVIOUS
    <2>2. b  OBVIOUS
    <2>. HIDE DEF k2
    <2>. QED  BY <1>3, <2>1, <2>2, KinHere, EndedIs
  <1>6. Kin(fam, k) /\ AskIn(k) /\ k.tok # None /\ (Busy(c) => c = N)  BY KinHere
  <1>7. c = N  BY <1>1, <1>4, <1>6 DEF Busy
  <1>8. Len(conns') = Len(conns)  BY <1>2 DEF TurnOf
  <1>9. SessInv' /\ Lets /\ keyring' = k.chg.ans
    <2>1. PICK ok \in {"ok"} : (keyring' = k.chg.ans /\ UNCHANGED <<list, retry, chain>>) \/ Settle(c, ok, k.chg.ans)
      BY <1>1
    <2>2. ok # "refused"  OBVIOUS
    <2>3. UNCHANGED <<up, forgotten>>  BY <1>1
    <2>. QED  BY <1>8, <2>1, <2>2, <2>3, SettlesLets, GoodParts
  <1>10. keyring' \in {keyring, None} \union TokensOf(k)  BY <1>9 DEF TokensOf
  <1>. HIDE DEF k2
  <1>11. Apart(fam, k.chg.ans, k.ren.tok) /\ Apart(fam, k.chg.ans, k.ask.tok)  BY <1>6 DEF Kin, Split
  <1>12. Moves(fam, k, k2)
    <2>1. TokensOf(k2) \subseteq TokensOf(k) \union {None}  BY <1>4, <1>5 DEF TokensOf
    <2>2. Apart(fam, k2.ren.tok, k2.tok) /\ Apart(fam, k2.ask.tok, k2.tok)
      BY <1>4, <1>5, <1>11 DEF Apart
    <2>3. Split(fam, {k2.chg.ans}, {k2.tok, k2.ren.tok, k2.ren.ans, k2.ask.tok})
      BY <1>4, <1>5 DEF Split, Apart
    <2>4. /\ k2.ren.pc = "wire" => k2.ren.tok # None
          /\ k2.ask.pc = "wire" => k2.ask.tok # None
          /\ k2.ask.tok # None => k2.ask.pc \in {"wire", "answered"}
      BY <1>4, <1>5, <1>6 DEF Kin
    <2>. QED  BY <1>5, <2>1, <2>2, <2>3, <2>4 DEF Moves, Kin
  <1>13. Uses /\ ~excused' /\ keyring = k.tok /\ Carries(k, live) => keyring' = k2.tok /\ Carries(k2, live)
    <2>1. Comes(k) /\ ~Comes(k2)  BY <1>1, <1>4, <1>5 DEF Comes
    <2>2. k2.ren.pc # "refused"  BY <1>3, <1>4, <1>5 DEF Waits
    <2>3. k2.tok # k2.ren.tok  BY <1>1, <1>4, <1>5, <1>11 DEF Apart
    <2>. QED  BY <1>5, <1>9, <2>1, <2>2, <2>3 DEF Carries, Held, Newest
  <1>14. excused' = excused /\ UNCHANGED <<server, sharing>>  BY <1>1
  <1>. QED  BY <1>2, <1>7, <1>9, <1>10, <1>12, <1>13, <1>14, SettledFine

LEMMA ChangeFailsFine == ASSUME FamilyGood, NEW c \in C, ChangeFails(c) PROVE Fine(c)
  <1>. DEFINE k == conns[c]  t == Lost(k)  k2 == Ended(t, FALSE)
  <1>1. /\ k.chg # Idle
        /\ excused' = (excused \/ (k.chg.pc = "answered" /\ k.chg.ans # None))
        /\ \/ keyring' = keyring /\ UNCHANGED <<list, blocked, waiting, retry, chain>>
           \/ Settle(c, "ok", keyring)
           \/ Waits(t) /\ Newest(t) /\ Settle(c, t.ren.pc, keyring)
        /\ UNCHANGED <<server, up, forgotten, sharing, counts>>
    BY ChangeFailsIs
  <1>2. TurnOf(c, k2)  BY ChangeFailsTurns, GoodParts
  <1>3. t \in ConnOf(Len(fam)) /\ t.tok = k.tok /\ t.ren = k.ren /\ t.ask = k.ask  BY KinHere, LostIs
  <1>4. Idle.pc = "idle" /\ Idle.tok = None /\ Idle.ans = None  BY IdleIs
  <1>5. Asking.pc = "asking" /\ Asking.tok = None /\ Asking.ans = None  BY KinHere, AskingIs
  <1>6. Sent(k.tok).pc = "wire" /\ Sent(k.tok).tok = k.tok /\ Sent(k.tok).ans = None  BY KinHere, SentIs
  <1>. HIDE DEF t
  <1>7. /\ k2.tok = k.tok /\ k2.chg = Idle /\ k2.ask = k.ask
        /\ \/ k2.ren = (IF Waits(t) THEN Idle ELSE k.ren)
           \/ (Waits(t) \/ k.ren = Idle) /\ k2.ren \in {Sent(k.tok), Asking}
    <2>1. ASSUME NEW g
          PROVE  /\ Ended(t, g).tok = t.tok /\ Ended(t, g).chg = Idle /\ Ended(t, g).ask = t.ask
                 /\ \/ Ended(t, g).ren = IF Waits(t) THEN Idle ELSE t.ren
                    \/ /\ Waits(t) \/ t.ren = Idle
                       /\ Ended(t, g).ren = IF t.ask = Idle THEN Sent(t.tok) ELSE Asking
      <3>1. t \in ConnOf(Len(fam)) /\ Len(fam) \in Nat  BY <1>3, KinHere
      <3>. QED  BY ONLY <3>1, EndedIs
    <2>2. PICK b \in {FALSE} : k2 = Ended(t, b)  OBVIOUS
    <2>. HIDE DEF k2
    <2>. QED  BY <1>3, <2>1, <2>2
  <1>8. Kin(fam, k) /\ k.tok # None /\ (Busy(c) => c = N)  BY KinHere
  <1>9. c = N  BY <1>1, <1>8 DEF Busy
  <1>10. Len(conns') = Len(conns)  BY <1>2 DEF TurnOf
  <1>11. PICK how \in {"ok", k.ren.pc} :
           /\ (keyring' = keyring /\ UNCHANGED <<list, retry, chain>>) \/ Settle(c, how, keyring)
           /\ how = "refused" => Newest(k) /\ k.ren.pc = "refused"
    <2>1. CASE keyring' = keyring /\ UNCHANGED <<list, blocked, waiting, retry, chain>>
      BY <2>1, Zenon
    <2>2. CASE Settle(c, "ok", keyring)  BY <2>2
    <2>3. CASE Waits(t) /\ Newest(t) /\ Settle(c, t.ren.pc, keyring)
      BY <1>3, <2>3 DEF Newest
    <2>. QED  BY <1>1, <2>1, <2>2, <2>3
  <1>12. UNCHANGED <<up, forgotten>>  BY <1>1
  <1>13. SessInv' /\ Lets /\ keyring' \in {keyring, None} /\ (how # "refused" => keyring' = keyring)
    BY <1>10, <1>11, <1>12, SettlesLets, GoodParts
  <1>14. keyring' \in {keyring, None} \union TokensOf(k)  BY <1>13
  <1>. HIDE DEF k2
  <1>15. Waits(t) <=> k.ren.pc \in {"refused", "failed"}  BY <1>3 DEF Waits
  <1>16. k2.ren = k.ren \/ k2.ren \in {Idle, Sent(k.tok), Asking}  BY <1>7
  <1>17. Moves(fam, k, k2)
    <2>1. CASE k2.ren = k.ren  BY <1>4, <1>7, <1>8, <2>1, StayMoves
    <2>2. CASE k2.ren \in {Idle, Sent(k.tok), Asking}
      <3>1. k2.ren.ans = None /\ (k2.ren.tok = k.tok \/ (k2.ren.tok = None /\ k2.ren.pc # "wire"))
        BY <1>4, <1>5, <1>6, <2>2
      <3>. QED  BY <1>4, <1>7, <1>8, <3>1, StayMoves
    <2>. QED  BY <1>16, <2>1, <2>2
  <1>18. Uses /\ ~excused' /\ keyring = k.tok /\ Carries(k, live) => keyring' = k2.tok /\ Carries(k2, live)
    <2>. SUFFICES ASSUME ~excused', keyring = k.tok, Carries(k, live) PROVE keyring' = k2.tok /\ Carries(k2, live)
      OBVIOUS
    <2>1. ~Comes(k) /\ ~Comes(k2)  BY <1>1, <1>4, <1>7 DEF Comes
    <2>2. how # "refused"  BY <1>11, <2>1 DEF Carries
    <2>3. keyring' = k2.tok  BY <1>7, <1>13, <2>2
    <2>4. CASE k2.ren = k.ren  BY <1>7, <2>1, <2>3, <2>4 DEF Carries, Held, Newest
    <2>5. CASE k2.ren # k.ren
      <3>1. k.ren.pc \in {"refused", "failed", "idle"}  BY <1>4, <1>7, <1>15, <2>5
      <3>2. k.tok \in live  BY <2>1, <3>1 DEF Carries, Held
      <3>3. k2.ren.pc \in {"idle", "wire", "asking"}  BY <1>4, <1>5, <1>6, <1>16, <2>5
      <3>. QED  BY <1>7, <2>1, <2>3, <3>2, <3>3 DEF Carries, Held
    <2>. QED  BY <2>4, <2>5
  <1>19. (excused => excused') /\ UNCHANGED <<server, sharing>>  BY <1>1
  <1>. QED  BY <1>2, <1>9, <1>13, <1>14, <1>17, <1>18, <1>19, SettledFine

LEMMA RotateFailsFine ==
  ASSUME FamilyGood, NEW c \in C, NEW how \in {"refused", "failed"}, RotateFails(c, how) PROVE Fine(c)
  <1>. DEFINE k == conns[c]  k2 == Failed(k, how)
  <1>1. /\ \/ how = "refused" /\ k.ren.pc = "answered" /\ k.ren.ans = None
           \/ how = "failed" /\ k.ren.pc \in {"wire", "answered"}
        /\ excused' = (excused \/ (how = "failed" /\ k.ren.pc = "answered"))
        /\ \/ k.chg # Idle /\ UNCHANGED <<keyring, list, blocked, waiting, retry, chain>>
           \/ k.chg = Idle /\ Settle(c, IF Newest(k) THEN how ELSE "ok", keyring)
        /\ UNCHANGED <<server, up, forgotten, sharing, counts>>
    BY RotateFailsIs
  <1>2. TurnOf(c, k2)  BY RotateFailsTurns, GoodParts
  <1>3. /\ k2.tok = k.tok /\ k2.chg = k.chg /\ k2.ask = k.ask
        /\ \/ k2.ren = Idle
           \/ k2.ren = Stopped(k.ren, how)
        /\ k.chg = Idle => k2.ren = Idle
    BY KinHere, FailedIs
  <1>4. Idle.pc = "idle" /\ Idle.tok = None /\ Idle.ans = None  BY IdleIs
  <1>5. Stopped(k.ren, how).pc = how /\ Stopped(k.ren, how).tok = k.ren.tok /\ Stopped(k.ren, how).ans = k.ren.ans
    BY KinHere, StoppedIs DEF ConnOf
  <1>6. Kin(fam, k) /\ k.tok # None /\ (Busy(c) => c = N)  BY KinHere
  <1>7. c = N  BY <1>1, <1>4, <1>6 DEF Busy
  <1>8. Len(conns') = Len(conns)  BY <1>2 DEF TurnOf
  <1>9. PICK end \in {"ok", how} :
           /\ (keyring' = keyring /\ UNCHANGED <<list, retry, chain>>) \/ Settle(c, end, keyring)
           /\ end = "refused" => Newest(k) /\ k.chg = Idle /\ how = "refused"
    <2>1. CASE k.chg # Idle /\ UNCHANGED <<keyring, list, blocked, waiting, retry, chain>>
      BY <2>1, Zenon
    <2>2. CASE k.chg = Idle /\ Settle(c, IF Newest(k) THEN how ELSE "ok", keyring)
      <3>1. CASE Newest(k)  BY <2>2, <3>1
      <3>2. CASE ~Newest(k)  BY <2>2, <3>2
      <3>. QED  BY <3>1, <3>2
    <2>. QED  BY <1>1, <2>1, <2>2
  <1>10. UNCHANGED <<up, forgotten>>  BY <1>1
  <1>11. SessInv' /\ Lets /\ keyring' \in {keyring, None} /\ (end # "refused" => keyring' = keyring)
    BY <1>8, <1>9, <1>10, SettlesLets, GoodParts
  <1>12. keyring' \in {keyring, None} \union TokensOf(k)  BY <1>11
  <1>. HIDE DEF k2
  <1>13. Moves(fam, k, k2)
    <2>1. CASE k2.ren = Idle  BY <1>3, <1>4, <1>6, <2>1, StayMoves
    <2>2. CASE k2.ren = Stopped(k.ren, how)  BY <1>3, <1>5, <1>6, <2>2, StayMoves
    <2>. QED  BY <1>3, <2>1, <2>2
  <1>14. Uses /\ ~excused' /\ keyring = k.tok /\ Carries(k, live) => keyring' = k2.tok /\ Carries(k2, live)
    <2>. SUFFICES ASSUME ~excused', keyring = k.tok, Carries(k, live) PROVE keyring' = k2.tok /\ Carries(k2, live)
      OBVIOUS
    <2>1. None \notin live
      <3>1. live \subseteq 1..Len(fam)  BY Rest, GoodParts DEF Tokens
      <3>. QED  BY <3>1 DEF None
    <2>2. Comes(k2) <=> Comes(k)  BY <1>3 DEF Comes
    <2>3. how = "refused" => Comes(k) \/ (~Newest(k) /\ k.tok \in live)
      BY <1>1, <2>1 DEF Carries, Held
    <2>4. how = "failed" => Comes(k) \/ k.tok \in live  BY <1>1 DEF Carries, Held
    <2>5. end # "refused"  BY <1>4, <1>9, <2>3 DEF Comes
    <2>6. keyring' = k2.tok  BY <1>3, <1>11, <2>5
    <2>7. CASE Comes(k)  BY <1>3, <2>2, <2>6, <2>7 DEF Carries
    <2>8. CASE ~Comes(k)
      <3>1. k2.tok \in live  BY <1>3, <2>3, <2>4, <2>8
      <3>2. k2.ren.pc # "answered"  BY <1>3, <1>4, <1>5
      <3>3. k2.ren.pc = "refused" => ~Newest(k2)
        BY <1>3, <1>4, <1>5, <2>3, <2>8 DEF Newest
      <3>. QED  BY <2>2, <2>6, <2>8, <3>1, <3>2, <3>3 DEF Carries, Held
    <2>. QED  BY <2>7, <2>8
  <1>15. (excused => excused') /\ UNCHANGED <<server, sharing>>  BY <1>1
  <1>. QED  BY <1>2, <1>7, <1>11, <1>12, <1>13, <1>14, <1>15, SettledFine

-----------------------------------------------------------------------------
(* The server's turns                                                      *)

LEMMA AnswerLine ==
  ASSUME FamilyGood, NEW c \in C, NEW k2, TurnOf(c, k2), UNCHANGED <<up, sessions, chain>>,
         k2.ren # Idle \/ k2.chg # Idle => Busy(c)
  PROVE  LineInv' /\ N' = N /\ N # 0 /\ N \in C
  <1>1. C' = C /\ Len(conns') = Len(conns) /\ conns'[c] = k2 /\ \A d \in C : d # c => conns'[d] = conns[d]
    BY DEF TurnOf
  <1>2. SessInv'  BY <1>1, SessKept, GoodParts DEF sessions
  <1>3. \A d \in C : conns'[d].ren # Idle \/ conns'[d].chg # Idle => d = N
    BY <1>1 DEF FamilyGood, LineInv, BusyInv, Busy
  <1>4. N' = N  BY <1>1 DEF N
  <1>5. BusyInv'  BY <1>1, <1>3, <1>4 DEF BusyInv, Busy
  <1>6. C = 1..Len(conns) /\ Len(conns) \in Nat  BY Counts, GoodParts
  <1>7. N # 0 /\ N \in C  BY <1>6 DEF N
  <1>. QED  BY <1>2, <1>4, <1>5, <1>7 DEF LineInv

LEMMA AnswerCarried ==
  ASSUME FamilyGood, CarriedInv, NEW c \in C, NEW k2, TurnOf(c, k2), LineInv', N' = N, N # 0,
         UNCHANGED <<keyring, sessions, chain, excused>>,
         conns'[N].tok = conns[N].tok,
         Uses /\ Carries(conns[N], live) => Carries(conns'[N], live')
  PROVE  CarriedInv'
  <1>1. chain'.pc # "refresh"  BY DEF LineInv, SessInv
  <1>2. Uses' <=> Uses  BY DEF Uses, sessions
  <1>3. ~excused' /\ Uses' => keyring' = conns'[N].tok /\ Carries(conns'[N], live')
    BY <1>2 DEF CarriedInv
  <1>. QED  BY <1>1, <1>3 DEF CarriedInv, Carries, Comes, Held, Newest

\* A new token is of its family's, or of a family of its own.
LEMMA SameFamilyNew ==
  ASSUME NEW t \in Tokens, Grown(fam[t]), t # None, NEW u \in 0..Len(fam), Apart(fam, t, u)
  PROVE  Apart(fam', New, u)
  <1>1. u # None => u \in Tokens  BY DEF Tokens, None
  <1>2. u # None => fam'[u] = fam[u]  BY <1>1 DEF Grown
  <1>3. fam'[New] = fam[t]  BY DEF Grown
  <1>. QED  BY <1>2, <1>3 DEF Apart

LEMMA FreshNew ==
  ASSUME ServerTypes, Grown(New), NEW u \in 0..Len(fam)
  PROVE  Apart(fam', New, u) /\ Apart(fam', u, New)
  <1>1. Len(fam) \in Nat  BY LenProperties DEF ServerTypes
  <1>2. CASE u = None  BY <1>2 DEF Apart
  <1>3. CASE u # None
    <2>1. u \in Tokens  BY <1>3 DEF Tokens, None
    <2>2. fam'[u] \in 1..u  BY <2>1 DEF Grown, ServerTypes
    <2>3. fam'[u] < New  BY <1>1, <2>1, <2>2 DEF Tokens, New
    <2>4. fam'[New] = New  BY DEF Grown
    <2>. QED  BY <2>2, <2>3, <2>4 DEF Apart
  <1>. QED  BY <1>2, <1>3

LEMMA NoneApart == ASSUME NEW f, NEW t PROVE Apart(f, None, t) /\ Apart(f, t, None)
  BY DEF Apart

LEMMA ServerRotatesGood ==
  ASSUME FamilyGood, CarriedInv, NEW c \in C, ServerRotates(c)
  PROVE  LineInv' /\ FamilyInv' /\ CarriedInv'
  <1>. DEFINE k == conns[c]  r == k.ren  a == Answered(r)  k2 == RenAnswered(k)  x == a.ans
  <1>1. r.pc = "wire" /\ Rotate(r)  BY DEF ServerRotates
  <1>2. /\ Basic' /\ TurnOf(c, k2) /\ k2 = WithRen(k, a)
        /\ UNCHANGED <<keyring, up, sessions, chain, sharing, excused, counts>>
    BY ServerRotatesTurns, GoodParts
  <1>3. /\ \/ /\ r.tok \in live /\ Grown(fam[r.tok])
              /\ live' = (live \ {r.tok}) \union {New}
           \/ r.tok \notin live /\ fam' = fam /\ live' = live \ Family(r.tok)
    BY <1>1, RotateIs, GoodParts DEF Typed
  <1>4. Kin(fam, k) /\ k.tok # None /\ (Busy(c) => c = N) /\ k \in ConnOf(Len(fam)) /\ Len(fam) \in Nat
    BY KinHere
  <1>5. c = N  BY <1>1, <1>4, IdleIs DEF Busy
  <1>6. a.pc = "answered" /\ a.tok = r.tok /\ x = (IF Len(fam') > Len(fam) THEN New ELSE None)
        /\ a \in ReqOf(Len(fam'))
    <2>1. ServerTypes /\ ServerTypes'  BY <1>2, GoodParts DEF Basic, Typed
    <2>2. Len(fam') \in {Len(fam), Len(fam) + 1}  BY <1>3 DEF Grown
    <2>3. r \in ReqOf(Len(fam))  BY <1>4 DEF ConnOf
    <2>. QED  BY <2>1, <2>2, <2>3, AnsweredIs
  <1>7. Len(fam') \in {Len(fam), Len(fam) + 1}  BY <1>3 DEF Grown
  <1>8. k2.tok = k.tok /\ k2.ren = a /\ k2.chg = k.chg /\ k2.ask = k.ask
    <2>1. ConnOf(Len(fam)) \subseteq ConnOf(Len(fam'))  BY <1>4, <1>7, WiderConn
    <2>. QED  BY <1>2, <1>4, <1>6, <2>1, WithRenIs
  <1>. HIDE DEF a, k2
  <1>9. LineInv' /\ N' = N /\ N # 0 /\ N \in C
    <2>1. Busy(c)  BY <1>1, IdleIs, <1>4 DEF Busy
    <2>. QED  BY <1>2, <2>1, AnswerLine
  <1>10. /\ Keeps
         /\ \A u \in 0..Len(fam) : Apart(fam, r.tok, u) => Apart(fam', x, u)
    <2>1. CASE r.tok \in live /\ Grown(fam[r.tok])
      <3>1. Keeps  BY <2>1, GrownKeeps
      <3>2. r.tok \in Tokens /\ r.tok # None  BY <2>1, GoodParts DEF Typed, ServerTypes, Tokens, None
      <3>3. x = New  BY <1>4, <1>6, <2>1 DEF Grown
      <3>. QED  BY <2>1, <3>1, <3>2, <3>3, SameFamilyNew
    <2>2. CASE fam' = fam
      <3>1. x = None  BY <1>4, <1>6, <2>2
      <3>. QED  BY <2>2, <3>1, NoneApart DEF Keeps
    <2>. QED  BY <1>3, <2>1, <2>2
  <1>. HIDE DEF x
  <1>11. x = a.ans  BY DEF x
  <1>12. /\ Ours \subseteq 0..Len(fam) /\ Shares \subseteq 0..Len(fam)
         /\ \A d \in C : TokensOf(conns[d]) \subseteq 0..Len(fam)
         /\ 0 \in 0..Len(fam)
    BY TokensIn, GoodParts
  <1>13. TokensOf(k) \subseteq Ours /\ r.tok \in TokensOf(k)  BY DEF Ours, TokensOf
  <1>14. Kin(fam', k2)
    <2>1. TokensOf(k) \subseteq 0..Len(fam)  BY <1>12
    <2>2. Kin(fam', k)  BY <1>4, <1>10, <2>1 DEF Kin, Split, Keeps, TokensOf
    <2>3. Apart(fam', k.chg.ans, x)
      <3>1. Apart(fam, k.ren.tok, k.chg.ans)  BY <1>4, HereApart DEF Kin, Split
      <3>2. k.chg.ans \in 0..Len(fam)  BY <2>1 DEF TokensOf
      <3>. QED  BY <1>10, <3>1, <3>2, HereApart
    <2>. QED  BY <1>6, <1>8, <1>11, <2>2, <2>3 DEF Kin, Split
  <1>15. FamilyInv'
    <2>1. /\ C' = C /\ \A d \in C : d # c => conns'[d] = conns[d]
          /\ conns'[c] = k2
      BY <1>2 DEF TurnOf
    <2>2. /\ TokensOf(k2) \subseteq TokensOf(k) \union {None, x} /\ k2.ask.ans \in {k.ask.ans, None}
      BY <1>6, <1>8, <1>11 DEF TokensOf
    <2>3. \A u \in Shares : Apart(fam', x, u)
      <3>1. ASSUME NEW u \in Shares PROVE Apart(fam', x, u)
        <4>1. Apart(fam, r.tok, u)  BY <1>13, GoodParts DEF FamilyGood, FamilyInv, Split
        <4>. QED  BY <1>10, <1>12, <4>1
      <3>. QED  BY <3>1
    <2>4. \A d \in C \ {c} : \A u \in TokensOf(conns[d]) : Apart(fam', x, u)
      <3>1. ASSUME NEW d \in C \ {c}, NEW u \in TokensOf(conns[d]) PROVE Apart(fam', x, u)
        <4>1. Apart(fam, r.tok, u)  BY <1>13 DEF FamilyGood, FamilyInv, Split
        <4>. QED  BY <1>10, <1>12, <4>1
      <3>. QED  BY <3>1
    <2>5. PICK y \in {None} : TRUE  OBVIOUS
    <2>6. (\A t \in Ours : Apart(fam', t, y)) /\ Apart(fam', x, y)  BY NoneApart
    <2>7. /\ keyring' \in {keyring, None} \union TokensOf(conns[c]) /\ chain'.req \in {chain.req, Idle}
          /\ kept' = kept /\ run'.tok \in {run.tok, None, conns[c].ask.ans}
          /\ run'.pc = "save" => run'.tok # None
      BY <1>2, RunHere DEF sharing
    <2>8. /\ TokensOf(conns'[c]) \subseteq TokensOf(conns[c]) \union {None, x}
          /\ conns'[c].ask.ans \in {conns[c].ask.ans, None, y} /\ Kin(fam', conns'[c])
      BY <1>14, <2>1, <2>2
    <2>9. Basic /\ FamilyInv  BY DEF FamilyGood
    <2>. QED  BY <1>10, <2>1, <2>3, <2>4, <2>6, <2>7, <2>8, <2>9, TurnFamily
  <1>16. Carries(k, live) => Carries(k2, live')
    <2>. SUFFICES ASSUME Carries(k, live) PROVE Carries(k2, live')  OBVIOUS
    <2>1. r.tok # None  BY <1>1, <1>4 DEF Kin
    <2>2. Comes(k2) <=> Comes(k)  BY <1>8 DEF Comes
    <2>3. /\ Comes(k) => Apart(fam, k.chg.ans, r.tok) /\ k.chg.ans # None /\ k.chg.ans \in live
          /\ ~Comes(k) => k.tok \in live
      BY <1>1, <1>4 DEF Kin, Split, Comes, Carries, Held
    <2>4. k.tok # r.tok => Apart(fam, k.tok, r.tok)  BY <1>4, HereApart DEF Kin
    <2>5. \A t \in live : t # None /\ Apart(fam, t, r.tok) => t \in live'
      BY <1>3, <2>1 DEF Family, Apart
    <2>6. Comes(k) => k2.chg.ans \in live'  BY <1>8, <2>3, <2>5
    <2>7. ~Comes(k) => Held(k2) \in live'
      <3>1. CASE k.tok # r.tok
        <4>1. ~Newest(k2)  BY <1>6, <1>8, <3>1 DEF Newest
        <4>2. Held(k2) = k.tok  BY <1>8, <4>1 DEF Held
        <4>. QED  BY <1>4, <2>3, <2>4, <2>5, <3>1, <4>2
      <3>2. CASE k.tok = r.tok /\ ~Comes(k)
        <4>1. Grown(fam[r.tok]) /\ live' = (live \ {r.tok}) \union {New}  BY <1>3, <2>3, <3>2
        <4>2. x = New  BY <1>4, <1>6, <1>11, <4>1 DEF Grown
        <4>3. Held(k2) = New  BY <1>6, <1>8, <1>11, <3>2, <4>2 DEF Held, Newest
        <4>. QED  BY <4>1, <4>3
      <3>. QED  BY <3>1, <3>2
    <2>8. k2.ren.pc # "refused"  BY <1>6, <1>8
    <2>. QED  BY <2>2, <2>6, <2>7, <2>8 DEF Carries
  <1>17. CarriedInv'
    <2>1. conns'[N] = k2 /\ conns[N] = k  BY <1>2, <1>5 DEF TurnOf
    <2>2. conns'[N].tok = conns[N].tok /\ (Uses /\ Carries(conns[N], live) => Carries(conns'[N], live'))
      BY <1>8, <1>16, <2>1
    <2>. QED  BY <1>2, <1>9, <2>2, AnswerCarried
  <1>. QED  BY <1>9, <1>15, <1>17

\* A request answered with a sign-in of its own, or with none.
LEMMA FreshAnswer ==
  ASSUME Basic, ServerTypes', NEW r \in ReqOf(Len(fam)), Grown(New) \/ fam' = fam
  PROVE  /\ Answered(r) \in ReqOf(Len(fam')) /\ Answered(r).pc = "answered" /\ Answered(r).tok = r.tok
         /\ Len(fam') \in {Len(fam), Len(fam) + 1} /\ Keeps
         /\ Grown(New) => Answered(r).ans = New
         /\ fam' = fam => Answered(r).ans = None
         /\ \A u \in 0..Len(fam) : Apart(fam', Answered(r).ans, u) /\ Apart(fam', u, Answered(r).ans)
  <1>. DEFINE a == Answered(r)
  <1>1. Len(fam') \in {Len(fam), Len(fam) + 1} /\ Len(fam) \in Nat /\ ServerTypes
    BY Counts DEF Grown, Basic, Typed
  <1>2. /\ a \in ReqOf(Len(fam')) /\ a.pc = "answered" /\ a.tok = r.tok
        /\ a.ans = IF Len(fam') > Len(fam) THEN New ELSE None
    BY <1>1, AnsweredIs
  <1>. HIDE DEF a
  <1>3. (Grown(New) => a.ans = New) /\ (fam' = fam => a.ans = None)  BY <1>1, <1>2 DEF Grown
  <1>4. Keeps  BY GrownKeeps DEF Keeps
  <1>5. ASSUME NEW u \in 0..Len(fam) PROVE Apart(fam', a.ans, u) /\ Apart(fam', u, a.ans)
    BY <1>1, <1>3, FreshNew, NoneApart
  <1>. QED  BY <1>1, <1>2, <1>3, <1>4, <1>5 DEF a

LEMMA ServerChangesGood ==
  ASSUME FamilyGood, CarriedInv, NEW c \in C, ServerChanges(c)
  PROVE  LineInv' /\ FamilyInv' /\ CarriedInv'
  <1>. DEFINE k == conns[c]  r == k.chg  a == Answered(r)  k2 == ChgAnswered(k)
  <1>1. r.pc = "wire" /\ UNCHANGED <<keyring, up, sessions, chain, sharing, excused, counts>>
    BY ServerChangesIs
  <1>2. /\ Basic' /\ TurnOf(c, k2)
        /\ (Grown(New) /\ live' = {New}) \/ (fam' = fam /\ live' = live)
    BY ServerChangesTurns, GoodParts
  <1>3. Kin(fam, k) /\ (Busy(c) => c = N) /\ k \in ConnOf(Len(fam)) /\ Len(fam) \in Nat  BY KinHere
  <1>4. Busy(c)  BY <1>1, <1>3, IdleIs DEF Busy
  <1>5. c = N  BY <1>3, <1>4
  <1>6. /\ a \in ReqOf(Len(fam')) /\ a.pc = "answered" /\ Len(fam') \in {Len(fam), Len(fam) + 1} /\ Keeps
        /\ (Grown(New) => a.ans = New) /\ (fam' = fam => a.ans = None)
        /\ \A u \in 0..Len(fam) : Apart(fam', a.ans, u) /\ Apart(fam', u, a.ans)
    <2>1. ServerTypes' /\ r \in ReqOf(Len(fam))  BY <1>2, <1>3 DEF Basic, Typed, ConnOf
    <2>2. Grown(New) \/ fam' = fam  BY <1>2
    <2>. QED  BY <2>1, <2>2, FreshAnswer, GoodParts
  <1>7. k2.tok = k.tok /\ k2.ren = k.ren /\ k2.chg = a /\ k2.ask = k.ask
    <2>1. ConnOf(Len(fam)) \subseteq ConnOf(Len(fam'))  BY <1>3, <1>6, WiderConn
    <2>. QED  BY <1>3, <1>6, <2>1, WithChgIs DEF ChgAnswered
  <1>. HIDE DEF a, k2
  <1>8. LineInv' /\ N' = N /\ N # 0 /\ N \in C  BY <1>1, <1>2, <1>4, AnswerLine
  <1>9. /\ Ours \subseteq 0..Len(fam) /\ Shares \subseteq 0..Len(fam)
        /\ \A d \in C : TokensOf(conns[d]) \subseteq 0..Len(fam)
    BY TokensIn, GoodParts
  <1>10. Kin(fam', k2)
    <2>1. TokensOf(k) \subseteq 0..Len(fam)  BY <1>9
    <2>2. Kin(fam', k)  BY <1>3, <1>6, <2>1 DEF Kin, Split, Keeps, TokensOf
    <2>3. Split(fam', {a.ans}, {k.tok, k.ren.tok, k.ren.ans, k.ask.tok})
      BY <1>6, <2>1 DEF Split, TokensOf
    <2>. QED  BY <1>7, <2>2, <2>3 DEF Kin
  <1>11. FamilyInv'
    <2>. DEFINE x == a.ans
    <2>1. C' = C /\ (\A d \in C : d # c => conns'[d] = conns[d]) /\ conns'[c] = k2
      BY <1>2 DEF TurnOf
    <2>2. TokensOf(k2) \subseteq TokensOf(k) \union {None, x} /\ k2.ask.ans \in {k.ask.ans, None}
      BY <1>7 DEF TokensOf
    <2>3. /\ \A u \in Shares : Apart(fam', x, u)
          /\ \A d \in C \ {c} : \A u \in TokensOf(conns[d]) : Apart(fam', x, u)
      BY <1>6, <1>9
    <2>. HIDE DEF x
    <2>4. PICK y \in {None} : TRUE  OBVIOUS
    <2>5. (\A t \in Ours : Apart(fam', t, y)) /\ Apart(fam', x, y)  BY NoneApart
    <2>6. /\ keyring' \in {keyring, None} \union TokensOf(conns[c]) /\ chain'.req \in {chain.req, Idle}
          /\ kept' = kept /\ run'.tok \in {run.tok, None, conns[c].ask.ans}
          /\ run'.pc = "save" => run'.tok # None
      BY <1>1, RunHere DEF sharing
    <2>7. /\ TokensOf(conns'[c]) \subseteq TokensOf(conns[c]) \union {None, x}
          /\ conns'[c].ask.ans \in {conns[c].ask.ans, None, y} /\ Kin(fam', conns'[c])
      BY <1>10, <2>1, <2>2
    <2>8. Basic /\ FamilyInv /\ Keeps  BY <1>6 DEF FamilyGood
    <2>. QED  BY <2>1, <2>3, <2>5, <2>6, <2>7, <2>8, TurnFamily
  <1>12. Carries(k, live) => Carries(k2, live')
    <2>1. CASE Grown(New) /\ live' = {New}
      <3>1. a.ans = New /\ New # None  BY <1>3, <1>6, <2>1 DEF New, None
      <3>2. Comes(k2)  BY <1>6, <1>7, <3>1 DEF Comes
      <3>. QED  BY <1>7, <2>1, <3>1, <3>2 DEF Carries
    <2>2. CASE fam' = fam /\ live' = live
      <3>1. ~Comes(k) /\ ~Comes(k2)  BY <1>1, <1>6, <1>7, <2>2 DEF Comes
      <3>. QED  BY <1>7, <2>2, <3>1 DEF Carries, Held, Newest
    <2>. QED  BY <1>2, <2>1, <2>2
  <1>13. CarriedInv'
    <2>1. conns'[N] = k2 /\ conns[N] = k  BY <1>2, <1>5 DEF TurnOf
    <2>2. conns'[N].tok = conns[N].tok /\ (Uses /\ Carries(conns[N], live) => Carries(conns'[N], live'))
      BY <1>7, <1>12, <2>1
    <2>. QED  BY <1>1, <1>2, <1>8, <2>2, AnswerCarried
  <1>. QED  BY <1>8, <1>11, <1>13

\* What is apart from a token is not of its family.
LEMMA OutOfFamily ==
  ASSUME NEW t, NEW u, t # None, u # None, Apart(fam, t, u) PROVE u \notin Family(t)
  BY DEF Apart, Family

LEMMA ServerSharesGood ==
  ASSUME FamilyGood, CarriedInv, NEW c \in C, ServerShares(c)
  PROVE  LineInv' /\ FamilyInv' /\ CarriedInv'
  <1>. DEFINE k == conns[c]  r == k.ask  a == Answered(r)  k2 == AskAnswered(k)  y == a.ans
  <1>1. r.pc = "wire" /\ UNCHANGED <<keyring, up, sessions, chain, sharing, excused, counts>>
    BY ServerSharesIs
  <1>2. /\ Basic' /\ TurnOf(c, k2)
        /\ \/ Grown(New) /\ live' = live \union {New}
           \/ r.tok \notin live /\ fam' = fam /\ live' = live \ Family(r.tok)
    BY ServerSharesTurns, GoodParts
  <1>3. Kin(fam, k) /\ AskIn(k) /\ k \in ConnOf(Len(fam)) /\ Len(fam) \in Nat  BY KinHere
  <1>4. /\ a \in ReqOf(Len(fam')) /\ a.pc = "answered" /\ a.tok = r.tok
        /\ Len(fam') \in {Len(fam), Len(fam) + 1} /\ Keeps
        /\ \A u \in 0..Len(fam) : Apart(fam', y, u) /\ Apart(fam', u, y)
    <2>1. ServerTypes' /\ r \in ReqOf(Len(fam))  BY <1>2, <1>3 DEF Basic, Typed, ConnOf
    <2>2. Grown(New) \/ fam' = fam  BY <1>2
    <2>. QED  BY <2>1, <2>2, FreshAnswer, GoodParts
  <1>5. k2.tok = k.tok /\ k2.ren = k.ren /\ k2.chg = k.chg /\ k2.ask = a
    <2>1. ConnOf(Len(fam)) \subseteq ConnOf(Len(fam'))  BY <1>3, <1>4, WiderConn
    <2>. QED  BY <1>3, <1>4, <2>1, WithAskIs DEF AskAnswered
  <1>. HIDE DEF a, k2
  <1>6. LineInv' /\ N' = N /\ N # 0 /\ N \in C  BY <1>1, <1>2, <1>5, AnswerLine DEF Busy
  <1>7. /\ Ours \subseteq 0..Len(fam) /\ Shares \subseteq 0..Len(fam)
        /\ \A d \in C : TokensOf(conns[d]) \subseteq 0..Len(fam)
    BY TokensIn, GoodParts
  <1>8. Kin(fam', k2)
    <2>1. TokensOf(k) \subseteq 0..Len(fam)  BY <1>7
    <2>2. Kin(fam', k)  BY <1>3, <1>4, <2>1 DEF Kin, Split, Keeps, TokensOf
    <2>. QED  BY <1>4, <1>5, <2>2 DEF Kin
  <1>9. FamilyInv'
    <2>1. C' = C /\ (\A d \in C : d # c => conns'[d] = conns[d]) /\ conns'[c] = k2
      BY <1>2 DEF TurnOf
    <2>2. \A t \in Ours : Apart(fam', t, y)  BY <1>4, <1>7
    <2>3. k2.ask.ans = y  BY <1>5
    <2>. HIDE DEF y
    <2>4. PICK x \in {None} : TRUE  OBVIOUS
    <2>5. TokensOf(k2) \subseteq TokensOf(k) \union {None, x}
      BY <1>4, <1>5 DEF TokensOf
    <2>6. /\ \A u \in Shares : Apart(fam', x, u)
          /\ \A d \in C \ {c} : \A u \in TokensOf(conns[d]) : Apart(fam', x, u)
          /\ Apart(fam', x, y)
      BY NoneApart
    <2>7. /\ keyring' \in {keyring, None} \union TokensOf(conns[c]) /\ chain'.req \in {chain.req, Idle}
          /\ kept' = kept /\ run'.tok \in {run.tok, None, conns[c].ask.ans}
          /\ run'.pc = "save" => run'.tok # None
      BY <1>1, RunHere DEF sharing
    <2>8. /\ TokensOf(conns'[c]) \subseteq TokensOf(conns[c]) \union {None, x}
          /\ conns'[c].ask.ans \in {conns[c].ask.ans, None, y} /\ Kin(fam', conns'[c])
      BY <1>8, <2>1, <2>3, <2>5
    <2>9. Basic /\ FamilyInv /\ Keeps  BY <1>4 DEF FamilyGood
    <2>. QED  BY <2>1, <2>2, <2>6, <2>7, <2>8, <2>9, TurnFamily
  <1>10. ASSUME Carries(conns[N], live) PROVE Carries(conns[N], live')
    <2>. DEFINE n == conns[N]
    <2>1. CASE live \subseteq live'  BY <1>10, <2>1 DEF Carries
    <2>2. CASE r.tok \notin live /\ live' = live \ Family(r.tok)
      <3>1. r.tok # None  BY <1>1, <1>3 DEF Kin
      <3>2. \A u \in live : u # None /\ Apart(fam, r.tok, u) => u \in live'
        BY <2>2, <3>1, OutOfFamily
      <3>3. None \notin live
        <4>1. live \subseteq 1..Len(fam)  BY Rest, GoodParts DEF Tokens
        <4>. QED  BY <4>1 DEF None
      <3>4. CASE c # N
        <4>1. Split(fam, TokensOf(k), TokensOf(n))  BY <1>6, <3>4 DEF FamilyGood, FamilyInv
        <4>2. r.tok \in TokensOf(k) /\ {n.tok, n.ren.ans, n.chg.ans} \subseteq TokensOf(n)  BY DEF TokensOf
        <4>3. \A u \in {n.tok, n.ren.ans, n.chg.ans} : Apart(fam, r.tok, u)  BY <4>1, <4>2 DEF Split
        <4>4. Comes(n) => n.chg.ans \in live'  BY <1>10, <3>2, <3>3, <4>3 DEF Carries
        <4>5. ~Comes(n) => Held(n) \in live'  BY <1>10, <3>2, <3>3, <4>3 DEF Carries, Held
        <4>. QED  BY <1>10, <4>4, <4>5 DEF Carries
      <3>5. CASE c = N
        <4>1. n = k  BY <3>5
        <4>2. k.ren.pc \in {"idle", "asking"}  BY <1>1, <1>3, IdleIs DEF AskIn
        <4>3. Held(k) = k.tok  BY <4>2 DEF Held
        <4>4. Comes(k) => k.chg.ans \in live'
          <5>1. Apart(fam, r.tok, k.chg.ans)  BY <1>3, HereApart DEF Kin, Split
          <5>. QED  BY <1>10, <3>2, <3>3, <4>1, <5>1 DEF Carries
        <4>5. ~Comes(k) => k.tok \in live'
          <5>1. ~Comes(k) => k.tok \in live /\ k.tok # r.tok  BY <1>10, <2>2, <4>1, <4>3 DEF Carries
          <5>2. k.tok # r.tok => Apart(fam, r.tok, k.tok)  BY <1>3 DEF Kin
          <5>. QED  BY <3>2, <3>3, <5>1, <5>2
        <4>. QED  BY <1>10, <4>1, <4>3, <4>4, <4>5 DEF Carries
      <3>. QED  BY <3>4, <3>5
    <2>. QED  BY <1>2, <2>1, <2>2
  <1>11. CarriedInv'
    <2>1. conns'[N] = (IF c = N THEN k2 ELSE conns[N])  BY <1>2, <1>6 DEF TurnOf
    <2>2. conns'[N].tok = conns[N].tok  BY <1>5, <2>1
    <2>3. Carries(conns'[N], live') <=> Carries(conns[N], live')
      BY <1>5, <2>1 DEF Carries, Comes, Held, Newest
    <2>4. Uses /\ Carries(conns[N], live) => Carries(conns'[N], live')  BY <1>10, <2>3
    <2>. QED  BY <1>1, <1>2, <1>6, <2>2, <2>4, AnswerCarried
  <1>. QED  BY <1>6, <1>9, <1>11

-----------------------------------------------------------------------------
(* The steps that no connection takes                                      *)

\* The app's own tokens stay as they are.
OursStay == \A t \in Ours : t # None /\ t \in live => t \in live'

LEMMA RestGood ==
  ASSUME FamilyGood, CarriedInv, conns' = conns, fam' = fam, SessInv', excused => excused',
         keyring' \in {keyring, None},
         chain'.req.tok \in {chain.req.tok, None, keyring}, chain'.req.ans \in {chain.req.ans, None},
         kept' \in {kept, run.tok, None}, run'.tok \in {run.tok, None}, run'.pc = "save" => run'.tok # None,
         ~excused' /\ Uses' => Uses /\ keyring' = keyring /\ OursStay,
         ~excused' /\ chain'.pc = "refresh" /\ chain'.req.pc = "answered" /\ ~forgotten'
           => chain' = chain /\ ~forgotten /\ OursStay
  PROVE  LineInv' /\ FamilyInv' /\ CarriedInv'
  <1>1. C' = C /\ N' = N  BY DEF C, N
  <1>2. LineInv'
    <2>1. BusyInv'  BY <1>1 DEF FamilyGood, LineInv, BusyInv, Busy
    <2>. QED  BY <2>1 DEF LineInv
  <1>3. FamilyInv'
    <2>1. Ours' \subseteq Ours \union {None}
      <3>1. Ours' = {keyring', chain'.req.tok, chain'.req.ans} \union UNION {TokensOf(conns[d]) : d \in C}
        BY <1>1 DEF Ours, TokensOf
      <3>2. {keyring, chain.req.tok, chain.req.ans} \subseteq Ours
            /\ UNION {TokensOf(conns[d]) : d \in C} \subseteq Ours
        BY DEF Ours
      <3>. QED  BY <3>1, <3>2
    <2>2. Shares' \subseteq Shares \union {None}
      <3>1. Shares' = {kept', run'.tok} \union {conns[d].ask.ans : d \in C}  BY <1>1 DEF Shares
      <3>2. {kept, run.tok} \subseteq Shares /\ {conns[d].ask.ans : d \in C} \subseteq Shares  BY DEF Shares
      <3>. QED  BY <3>1, <3>2
    <2>3. Split(fam, Ours', Shares')
      <3>1. Split(fam, Ours, Shares)  BY DEF FamilyGood, FamilyInv
      <3>. QED  BY <2>1, <2>2, <3>1, NoneApart DEF Split
    <2>4. /\ \A c \in C, d \in C : c # d => Split(fam, TokensOf(conns[c]), TokensOf(conns[d]))
          /\ \A c \in C : Kin(fam, conns[c])
      BY DEF FamilyGood, FamilyInv
    <2>. QED  BY <1>1, <2>3, <2>4 DEF FamilyInv, Split, Apart, TokensOf, Kin
  <1>4. CarriedInv'
    <2>1. ASSUME ~excused', Uses' PROVE keyring' = conns'[N].tok /\ Carries(conns[N], live')
      <3>1. Uses /\ keyring' = keyring /\ OursStay /\ ~excused  BY <2>1
      <3>2. keyring = conns[N].tok /\ Carries(conns[N], live)  BY <3>1 DEF CarriedInv
      <3>3. N \in C
        <4>1. C = 1..Len(conns) /\ Len(conns) \in Nat  BY Counts, GoodParts
        <4>. QED  BY <3>1, <4>1 DEF Uses, N
      <3>4. {conns[N].tok, conns[N].ren.ans, conns[N].chg.ans} \subseteq Ours
        BY <3>3 DEF Ours, TokensOf
      <3>5. None \notin live
        <4>1. live \subseteq 1..Len(fam)  BY Rest, GoodParts DEF Tokens
        <4>. QED  BY <4>1 DEF None
      <3>6. Carries(conns[N], live')
        BY <3>1, <3>2, <3>4, <3>5 DEF Carries, Held, OursStay
      <3>. QED  BY <3>1, <3>2, <3>6
    <2>2. ASSUME ~excused', chain'.pc = "refresh", chain'.req.pc = "answered", ~forgotten', chain'.req.ans # None
          PROVE  chain'.req.ans \in live'
      <3>1. chain' = chain /\ ~forgotten /\ OursStay /\ ~excused  BY <2>2
      <3>2. chain.req.ans \in live  BY <2>2, <3>1 DEF CarriedInv
      <3>3. chain.req.ans \in Ours  BY DEF Ours
      <3>. QED  BY <2>2, <3>1, <3>2, <3>3 DEF OursStay
    <2>3. ~excused' /\ Uses' => keyring' = conns'[N].tok /\ Carries(conns[N], live')  BY <2>1
    <2>. QED  BY <1>1, <2>2, <2>3 DEF CarriedInv, Carries, Comes, Held, Newest
  <1>. QED  BY <1>2, <1>3, <1>4

LEMMA IdleChain == NoChain.req = Idle /\ NoChain.pc = "idle" /\ NoChain.c = 0 /\ Idle.tok = None /\ Idle.ans = None
                   /\ Idle.pc = "idle" /\ NoRetry.is = "none" /\ NoRetry.api = 0
  BY DEF NoChain, Idle, NoRetry

\* The way back, before a connection is built.
LEMMA NoneUses == ASSUME N' = 0 PROVE ~Uses'
  BY DEF Uses

LEMMA HealthSaysGood ==
  ASSUME FamilyGood, CarriedInv, NEW b \in BOOLEAN, HealthSays(b) PROVE LineInv' /\ FamilyInv' /\ CarriedInv'
  <1>1. /\ chain.pc = "health"
        /\ UNCHANGED <<server, keyring, up, forgotten, conns, sharing, excused, counts>>
        /\ \/ chain' = NoChain /\ retry' = NoRetry /\ list' \in {list, 0}
           \/ /\ chain' = [chain EXCEPT !.pc = "refresh", !.req = Sent(chain.req.tok)]
              /\ UNCHANGED <<list, retry>>
    BY DEF HealthSays, StopWaiting
  <1>2. N = 0 /\ N' = 0  BY <1>1, GoodParts DEF SessInv, N
  <1>3. chain \in ChainOf(Len(fam), Len(conns)) /\ chain.req.tok \in 0..Len(fam) /\ Len(fam) \in Nat
    BY Rest, Counts, GoodParts DEF PageAt, ChainOf, ReqOf
  <1>4. Sent(chain.req.tok).tok = chain.req.tok /\ Sent(chain.req.tok).ans = None /\ Sent(chain.req.tok).pc = "wire"
    BY <1>3, SentIs
  <1>5. \/ chain' = NoChain /\ retry' = NoRetry /\ list' \in {list, 0}
        \/ /\ chain'.pc = "refresh" /\ chain'.req = Sent(chain.req.tok) /\ chain'.c = chain.c
           /\ UNCHANGED <<list, retry>>
    BY <1>1, <1>3 DEF ChainOf
  <1>6. list = 0 /\ up  BY <1>1, IdleChain, GoodParts DEF SessInv
  <1>7. SessInv'  BY <1>1, <1>2, <1>5, <1>6, IdleChain, GoodParts DEF SessInv
  <1>8. chain'.req.tok \in {chain.req.tok, None} /\ chain'.req.ans = None /\ chain'.req.pc # "answered"
    BY <1>4, <1>5, IdleChain
  <1>9. fam' = fam /\ kept' = kept /\ run' = run /\ keyring' = keyring /\ conns' = conns
    BY <1>1 DEF server, sharing
  <1>. QED  BY <1>1, <1>2, <1>7, <1>8, <1>9, NoneUses, RunHere, RestGood

LEMMA RefreshFailsGood ==
  ASSUME FamilyGood, CarriedInv, RefreshFails PROVE LineInv' /\ FamilyInv' /\ CarriedInv'
  <1>1. /\ chain.pc = "refresh" /\ (excused => excused')
        /\ UNCHANGED <<server, keyring, up, forgotten, list, blocked, conns, sharing, counts>>
        /\ chain' = NoChain /\ retry' = [is |-> "timer", api |-> retry.api]
    BY DEF RefreshFails, Wait
  <1>2. N = 0 /\ N' = 0  BY <1>1, GoodParts DEF SessInv, N
  <1>3. list = 0 /\ up  BY <1>1, IdleChain, GoodParts DEF SessInv
  <1>4. retry'.is = "timer" /\ retry'.api = retry.api  BY <1>1
  <1>5. SessInv'  BY <1>1, <1>2, <1>3, <1>4, IdleChain, GoodParts DEF SessInv
  <1>6. chain'.req.tok = None /\ chain'.req.ans = None /\ chain'.pc # "refresh"  BY <1>1, IdleChain
  <1>7. fam' = fam /\ kept' = kept /\ run' = run /\ keyring' = keyring /\ conns' = conns
    BY <1>1 DEF server, sharing
  <1>. QED  BY <1>1, <1>2, <1>5, <1>6, <1>7, NoneUses, RunHere, RestGood

LEMMA AgainGood ==
  ASSUME FamilyGood, CarriedInv, Again PROVE LineInv' /\ FamilyInv' /\ CarriedInv'
  <1>1. /\ retry.is = "timer" /\ chain = NoChain
        /\ UNCHANGED <<server, keyring, up, forgotten, list, blocked, conns, sharing, excused, counts>>
        /\ \/ /\ retry.api # 0 /\ chain' = [NoChain EXCEPT !.pc = "me", !.c = retry.api]
              /\ retry' = [retry EXCEPT !.is = "busy"]
           \/ retry' = NoRetry /\ chain' = chain
           \/ /\ retry.api = 0 /\ chain' = [NoChain EXCEPT !.pc = "health", !.req.tok = keyring]
              /\ retry' = [retry EXCEPT !.is = "busy"]
    BY DEF Again, StopWaiting
  <1>2. retry \in RetryOf(Len(conns))  BY Rest, GoodParts DEF PageAt
  <1>3. \/ /\ retry.api # 0 /\ chain'.pc = "me" /\ chain'.c = retry.api /\ chain'.req = Idle
           /\ retry'.is = "busy" /\ retry'.api = retry.api
        \/ retry' = NoRetry /\ chain' = chain
        \/ /\ retry.api = 0 /\ chain'.pc = "health" /\ chain'.c = 0
           /\ chain'.req.tok = keyring /\ chain'.req.ans = None
           /\ retry'.is = "busy" /\ retry'.api = retry.api
    <2>1. NoChain \in ChainOf(Len(fam), Len(conns))  BY NoChainIs, GoodParts
    <2>2. [NoChain EXCEPT !.pc = "me", !.c = retry.api].pc = "me"
          /\ [NoChain EXCEPT !.pc = "me", !.c = retry.api].c = retry.api
          /\ [NoChain EXCEPT !.pc = "me", !.c = retry.api].req = Idle
      BY <2>1, IdleChain DEF ChainOf
    <2>3. [retry EXCEPT !.is = "busy"].is = "busy" /\ [retry EXCEPT !.is = "busy"].api = retry.api
      BY <1>2 DEF RetryOf
    <2>4. /\ Tried.pc = "health" /\ Tried.c = 0 /\ Tried.req.tok = keyring /\ Tried.req.ans = None
      BY TriedIs, GoodParts
    <2>5. Tried = [NoChain EXCEPT !.pc = "health", !.req.tok = keyring]  BY DEF Tried
    <2>. QED  BY <1>1, <2>2, <2>3, <2>4, <2>5
  <1>4. list = 0 /\ up /\ (retry.api = 0 => N = 0)
    BY <1>1, IdleChain, GoodParts DEF SessInv
  <1>5. N' = N  BY <1>1 DEF N
  <1>6. SessInv'
    <2>1. {list', chain'.c, retry'.api} \subseteq {0, N}  BY <1>1, <1>3, <1>4, IdleChain, GoodParts DEF SessInv
    <2>2. /\ list' = 0 /\ up' /\ (chain'.pc = "idle" => chain' = NoChain)
          /\ retry'.is # "timer" /\ (chain'.pc \in {"health", "refresh"} => N = 0)
      BY <1>1, <1>3, <1>4, IdleChain
    <2>. QED  BY <1>5, <2>1, <2>2 DEF SessInv
  <1>7. /\ chain'.req.tok \in {chain.req.tok, None, keyring} /\ chain'.req.ans \in {chain.req.ans, None}
        /\ chain'.pc # "refresh"
    BY <1>1, <1>3, IdleChain
  <1>8. fam' = fam /\ live' = live /\ kept' = kept /\ run' = run /\ keyring' = keyring /\ conns' = conns
    BY <1>1 DEF server, sharing
  <1>9. OursStay  BY <1>8 DEF OursStay
  <1>10. Uses' => Uses  BY <1>1, <1>3, <1>5, IdleChain DEF Uses
  <1>. QED  BY <1>1, <1>6, <1>7, <1>8, <1>9, <1>10, RunHere, RestGood

LEMMA MeAnswersGood ==
  ASSUME FamilyGood, CarriedInv, MeAnswers PROVE LineInv' /\ FamilyInv' /\ CarriedInv'
  <1>1. /\ chain.pc \in {"me", "me again"} /\ chain' = NoChain
        /\ UNCHANGED <<fam, gen, keyring, up, forgotten, conns, sharing, excused, counts>>
        /\ \/ forgotten /\ UNCHANGED <<list, retry>>
           \/ ~forgotten /\ list' = chain.c /\ retry' = NoRetry /\ live' = live
    BY DEF MeAnswers, Arrive, StopWaiting
  <1>2. chain # NoChain /\ list = 0 /\ up /\ N' = N  BY <1>1, IdleChain, GoodParts DEF SessInv, N
  <1>3. SessInv'  BY <1>1, <1>2, IdleChain, GoodParts DEF SessInv
  <1>4. chain'.req.tok = None /\ chain'.req.ans = None /\ chain'.pc # "refresh"  BY <1>1, IdleChain
  <1>5. kept' = kept /\ run' = run  BY <1>1 DEF sharing
  <1>6. Uses' => Uses /\ OursStay  BY <1>1, <1>2, IdleChain DEF Uses, OursStay
  <1>. QED  BY <1>1, <1>3, <1>4, <1>5, <1>6, RunHere, RestGood

LEMMA MeFailsGood ==
  ASSUME FamilyGood, WayOK, CarriedInv, MeFails PROVE LineInv' /\ FamilyInv' /\ CarriedInv'
  <1>1. /\ chain.pc \in {"me", "me again"} /\ chain' = NoChain
        /\ UNCHANGED <<server, keyring, up, forgotten, list, blocked, conns, sharing, excused, counts>>
        /\ retry' = [is |-> "timer", api |-> IF chain.c # 0 THEN chain.c ELSE retry.api]
    BY DEF MeFails, Wait
  <1>2. chain # NoChain /\ list = 0 /\ up /\ N' = N  BY <1>1, IdleChain, GoodParts DEF SessInv, N
  <1>3. chain.c # 0  BY <1>1 DEF WayOK
  <1>4. retry'.is = "timer" /\ retry'.api = chain.c  BY <1>1, <1>3
  <1>5. SessInv'  BY <1>1, <1>2, <1>3, <1>4, IdleChain, GoodParts DEF SessInv
  <1>6. chain'.req.tok = None /\ chain'.req.ans = None /\ chain'.pc # "refresh"  BY <1>1, IdleChain
  <1>7. fam' = fam /\ live' = live /\ kept' = kept /\ run' = run /\ keyring' = keyring
    BY <1>1 DEF server, sharing
  <1>8. Uses' => Uses /\ OursStay  BY <1>1, <1>2, <1>4, <1>7, IdleChain DEF Uses, OursStay
  <1>. QED  BY <1>1, <1>5, <1>6, <1>7, <1>8, RunHere, RestGood

LEMMA MeRefusedAgainGood ==
  ASSUME FamilyGood, CarriedInv, MeRefusedAgain PROVE LineInv' /\ FamilyInv' /\ CarriedInv'
  <1>1. /\ chain.pc = "me again" /\ chain' = NoChain
        /\ UNCHANGED <<server, keyring, up, sessions, conns, sharing, excused, counts>>
    BY DEF MeRefusedAgain
  <1>2. chain # NoChain /\ list = 0 /\ up /\ N' = N  BY <1>1, IdleChain, GoodParts DEF SessInv, N
  <1>3. UNCHANGED <<list, retry, forgotten>>  BY <1>1 DEF sessions
  <1>4. SessInv'  BY <1>1, <1>2, <1>3, IdleChain, GoodParts DEF SessInv
  <1>5. chain'.req.tok = None /\ chain'.req.ans = None /\ chain'.pc # "refresh"  BY <1>1, IdleChain
  <1>6. fam' = fam /\ live' = live /\ kept' = kept /\ run' = run  BY <1>1 DEF server, sharing
  <1>7. Uses' => Uses /\ OursStay  BY <1>1, <1>2, <1>3, <1>6, IdleChain DEF Uses, OursStay
  <1>. QED  BY <1>1, <1>4, <1>5, <1>6, <1>7, RunHere, RestGood

LEMMA LookGood ==
  ASSUME FamilyGood, CarriedInv, Look \/ LookAgain PROVE LineInv' /\ FamilyInv' /\ CarriedInv'
  <1>1. UNCHANGED <<server, keyring, up, sessions, chain, conns, kept, run, excused>>
    BY DEF Look, LookAgain
  <1>2. UNCHANGED <<fam, live, list, retry, forgotten>>  BY <1>1 DEF server, sessions
  <1>3. SessInv'  BY <1>1, <1>2, SessKept, GoodParts
  <1>4. (Uses' => Uses) /\ OursStay  BY <1>1, <1>2 DEF Uses, N, OursStay
  <1>. QED  BY <1>1, <1>2, <1>3, <1>4, RunHere, RestGood

LEMMA RunStartsGood ==
  ASSUME FamilyGood, CarriedInv, NEW b \in BOOLEAN, RunStarts(b), conns' = conns
  PROVE  LineInv' /\ FamilyInv' /\ CarriedInv'
  <1>1. UNCHANGED <<server, keyring, up, sessions, chain, kept, excused>>  BY DEF RunStarts
  <1>2. run'.tok = None /\ run'.pc # "save"  BY RunStartsIs, GoodParts
  <1>3. UNCHANGED <<fam, live, list, retry, forgotten>>  BY <1>1 DEF server, sessions
  <1>4. SessInv'  BY <1>1, <1>3, SessKept, GoodParts
  <1>5. (Uses' => Uses) /\ OursStay  BY <1>1, <1>3 DEF Uses, N, OursStay
  <1>. QED  BY <1>1, <1>2, <1>3, <1>4, <1>5, RestGood

\* What the share window ends is not the app's.
LEMMA SharesEnd ==
  ASSUME FamilyGood, NEW t, t \in Shares, t # None, NEW u \in Ours, u # None PROVE u \notin Family(t)
  <1>1. Apart(fam, t, u)  BY HereApart DEF FamilyGood, FamilyInv, Split
  <1>. QED  BY <1>1, OutOfFamily

LEMMA RunSavesGood ==
  ASSUME FamilyGood, CarriedInv, NEW b \in BOOLEAN, RunSaves(b) PROVE LineInv' /\ FamilyInv' /\ CarriedInv'
  <1>1. /\ run.pc = "save" /\ kept' \in {kept, run.tok}
        /\ live \ live' \subseteq Revoked(kept) \union Family(run.tok)
        /\ run'.pc = "end" /\ run'.tok = run.tok
        /\ UNCHANGED <<fam, gen, keyring, up, sessions, chain, conns, looked, keys, queue, excused, counts>>
    BY RunSavesIs, GoodParts
  <1>2. UNCHANGED <<list, retry, forgotten>>  BY <1>1 DEF sessions
  <1>3. SessInv'  BY <1>1, <1>2, SessKept, GoodParts
  <1>4. OursStay
    <2>. SUFFICES ASSUME NEW t \in Ours, t # None, t \in live PROVE t \in live'  BY DEF OursStay
    <2>1. run.tok # None /\ run.tok \in Shares /\ kept \in Shares  BY <1>1, RunHere DEF Shares
    <2>2. t \notin Family(run.tok)  BY <2>1, SharesEnd
    <2>3. t \notin Revoked(kept)  BY <2>1, SharesEnd DEF Revoked
    <2>. QED  BY <1>1, <2>2, <2>3
  <1>5. Uses' => Uses  BY <1>1, <1>2 DEF Uses, N
  <1>. QED  BY <1>1, <1>2, <1>3, <1>4, <1>5, RestGood

LEMMA RunEndsGood ==
  ASSUME FamilyGood, CarriedInv, RunEnds PROVE LineInv' /\ FamilyInv' /\ CarriedInv'
  <1>1. /\ run' = NoRun /\ kept' \in {kept, None} /\ live \ live' \subseteq Revoked(kept)
        /\ UNCHANGED <<fam, gen, keyring, up, sessions, chain, conns, looked, keys, queue, excused, counts>>
    BY DEF RunEnds
  <1>2. UNCHANGED <<list, retry, forgotten>>  BY <1>1 DEF sessions
  <1>3. SessInv'  BY <1>1, <1>2, SessKept, GoodParts
  <1>4. OursStay
    <2>. SUFFICES ASSUME NEW t \in Ours, t # None, t \in live PROVE t \in live'  BY DEF OursStay
    <2>1. kept \in Shares  BY DEF Shares
    <2>2. t \notin Revoked(kept)  BY <2>1, SharesEnd DEF Revoked
    <2>. QED  BY <1>1, <2>2
  <1>5. Uses' => Uses  BY <1>1, <1>2 DEF Uses, N
  <1>6. run'.tok = None /\ run'.pc = "idle"  BY <1>1 DEF NoRun
  <1>. QED  BY <1>1, <1>2, <1>3, <1>4, <1>5, <1>6, RestGood

LEMMA BlockGood ==
  ASSUME FamilyGood, CarriedInv, Block PROVE LineInv' /\ FamilyInv' /\ CarriedInv'
  <1>1. /\ list # 0 /\ UNCHANGED <<server, keyring, up, forgotten, chain, conns, sharing, excused, counts>>
        /\ forgotten \/ (list' = 0 /\ retry' = NoRetry)
    BY DEF Block, StopWaiting
  <1>2. ~forgotten /\ chain = NoChain /\ up  BY <1>1, GoodParts DEF SessInv
  <1>3. list' = 0 /\ retry' = NoRetry /\ N' = N  BY <1>1, <1>2 DEF N
  <1>4. SessInv'  BY <1>1, <1>2, <1>3, IdleChain, GoodParts DEF SessInv
  <1>5. ~Uses'  BY <1>1, <1>2, <1>3, IdleChain DEF Uses
  <1>6. fam' = fam /\ kept' = kept /\ run' = run /\ chain'.pc # "refresh"
    BY <1>1, <1>2, IdleChain DEF server, sharing
  <1>. QED  BY <1>1, <1>4, <1>5, <1>6, RunHere, RestGood

LEMMA SignOutGood ==
  ASSUME FamilyGood, CarriedInv, SignOut PROVE LineInv' /\ FamilyInv' /\ CarriedInv'
  <1>1. /\ forgotten' = TRUE /\ list' = 0 /\ retry' = NoRetry /\ keyring' = None
        /\ UNCHANGED <<fam, gen, up, chain, conns, sharing, excused, counts>>
    BY DEF SignOut, StopWaiting
  <1>2. forgotten' /\ N' = N  BY <1>1 DEF N
  <1>3. SessInv'  BY <1>1, <1>2, IdleChain, GoodParts DEF SessInv
  <1>4. ~Uses'  BY <1>2 DEF Uses
  <1>5. kept' = kept /\ run' = run  BY <1>1 DEF sharing
  <1>. QED  BY <1>1, <1>2, <1>3, <1>4, <1>5, RunHere, RestGood

LEMMA EndsElsewhereGood ==
  ASSUME FamilyGood, CarriedInv, EndsElsewhere PROVE LineInv' /\ FamilyInv' /\ CarriedInv'
  <1>1. excused' /\ UNCHANGED <<fam, keyring, up, sessions, chain, conns, sharing, counts>>
    BY DEF EndsElsewhere
  <1>2. UNCHANGED <<list, retry, forgotten>>  BY <1>1 DEF sessions
  <1>3. SessInv'  BY <1>1, <1>2, SessKept, GoodParts
  <1>4. kept' = kept /\ run' = run  BY <1>1 DEF sharing
  <1>. QED  BY <1>1, <1>3, <1>4, RunHere, RestGood

LEMMA LaunchGood ==
  ASSUME FamilyGood, CarriedInv, Launch PROVE LineInv' /\ FamilyInv' /\ CarriedInv'
  <1>1. /\ ~up /\ up'
        /\ UNCHANGED <<server, keyring, forgotten, list, blocked, conns, sharing, excused, counts>>
        /\ \/ UNCHANGED <<waiting, retry, chain>>
           \/ /\ retry'.is = "busy" /\ retry'.api = 0
              /\ chain'.pc = "health" /\ chain'.c = 0 /\ chain'.req.tok = keyring /\ chain'.req.ans = None
    BY LaunchIs, GoodParts
  <1>2. N = 0 /\ chain = NoChain /\ list = 0 /\ retry = NoRetry /\ N' = 0
    BY <1>1, GoodParts DEF SessInv, N
  <1>3. /\ list' = 0 /\ chain'.c = 0 /\ retry'.api = 0 /\ retry'.is # "timer"
        /\ chain'.pc = "idle" => chain' = NoChain
        /\ chain'.req.tok \in {None, keyring} /\ chain'.req.ans = None /\ chain'.pc # "refresh"
    BY <1>1, <1>2, IdleChain
  <1>4. SessInv'  BY <1>1, <1>2, <1>3 DEF SessInv
  <1>5. fam' = fam /\ kept' = kept /\ run' = run  BY <1>1 DEF server, sharing
  <1>. QED  BY <1>1, <1>2, <1>3, <1>4, <1>5, NoneUses, RunHere, RestGood

LEMMA RefreshedGood ==
  ASSUME FamilyGood, CarriedInv, Refreshed, conns' = conns PROVE LineInv' /\ FamilyInv' /\ CarriedInv'
  <1>1. /\ chain.pc = "refresh"
        /\ UNCHANGED <<fam, gen, up, forgotten, list, blocked, sharing, excused, counts>>
        /\ \/ keyring' \in {keyring, None} /\ chain' = NoChain /\ retry' = NoRetry
           \/ conns' = Append(conns, Conn(chain.req.ans, chain.req.gen))
    BY RefreshedIs
  <1>2. conns' # Append(conns, Conn(chain.req.ans, chain.req.gen))
    <2>1. conns \in Seq(ConnOf(Len(fam))) /\ Len(conns) \in Nat  BY Rest, Counts, GoodParts DEF PageAt
    <2>2. Len(conns') # Len(conns) + 1  BY <2>1
    <2>3. Len(Append(conns, Conn(chain.req.ans, chain.req.gen))) = Len(conns) + 1
      BY <2>1
    <2>. QED  BY <2>2, <2>3
  <1>3. keyring' \in {keyring, None} /\ chain' = NoChain /\ retry' = NoRetry  BY <1>1, <1>2
  <1>4. N = 0 /\ N' = 0 /\ list = 0 /\ up  BY <1>1, IdleChain, GoodParts DEF SessInv, N
  <1>5. SessInv'  BY <1>1, <1>3, <1>4, IdleChain DEF SessInv
  <1>6. chain'.req.tok = None /\ chain'.req.ans = None /\ chain'.pc # "refresh"  BY <1>3, IdleChain
  <1>7. kept' = kept /\ run' = run  BY <1>1 DEF sharing
  <1>. QED  BY <1>1, <1>3, <1>4, <1>5, <1>6, <1>7, NoneUses, RunHere, RestGood

LEMMA ServerRefreshesGood ==
  ASSUME FamilyGood, CarriedInv, ServerRefreshes PROVE LineInv' /\ FamilyInv' /\ CarriedInv'
  <1>. DEFINE r == chain.req  a == Answered(r)  x == a.ans
  <1>1. /\ chain.pc = "refresh" /\ Rotate(r)
        /\ ServerTypes' /\ Len(fam') \in {Len(fam), Len(fam) + 1}
        /\ chain'.pc = "refresh" /\ chain'.c = chain.c /\ chain'.req = a
        /\ UNCHANGED <<keyring, up, sessions, conns, sharing, excused, counts>>
    BY ServerRefreshesIs, GoodParts
  <1>2. \/ r.tok \in live /\ Grown(fam[r.tok]) /\ live' = (live \ {r.tok}) \union {New}
        \/ fam' = fam
    BY <1>1, RotateIs, GoodParts DEF Typed
  <1>3. /\ N = 0 /\ N' = 0 /\ C' = C /\ C = {} /\ list = 0 /\ up /\ Len(fam) \in Nat
    BY <1>1, IdleChain, Counts, GoodParts DEF SessInv, N, C
  <1>4. a.tok = r.tok /\ x = (IF Len(fam') > Len(fam) THEN New ELSE None)
    <2>1. ServerTypes  BY GoodParts DEF Typed
    <2>2. r \in ReqOf(Len(fam))  BY Rest, GoodParts DEF PageAt, ChainOf
    <2>. QED  BY <1>1, <2>1, <2>2, AnsweredIs
  <1>. HIDE DEF a
  <1>5. /\ Keeps
        /\ \A u \in 0..Len(fam) : Apart(fam, r.tok, u) => Apart(fam', x, u)
        /\ x # None => x \in live'
    <2>1. CASE r.tok \in live /\ Grown(fam[r.tok]) /\ live' = (live \ {r.tok}) \union {New}
      <3>1. Keeps  BY <2>1, GrownKeeps
      <3>2. r.tok \in Tokens /\ r.tok # None  BY <2>1, GoodParts DEF Typed, ServerTypes, Tokens, None
      <3>3. x = New  BY <1>3, <1>4, <2>1 DEF Grown
      <3>. QED  BY <2>1, <3>1, <3>2, <3>3, SameFamilyNew
    <2>2. CASE fam' = fam
      <3>1. x = None  BY <1>3, <1>4, <2>2
      <3>. QED  BY <2>2, <3>1, NoneApart DEF Keeps
    <2>. QED  BY <1>2, <2>1, <2>2
  <1>6. UNCHANGED <<list, retry, forgotten, kept, run>>  BY <1>1 DEF sessions, sharing
  <1>7. LineInv'
    <2>1. BusyInv'  BY <1>3 DEF BusyInv
    <2>2. SessInv'  BY <1>1, <1>3, <1>6, IdleChain, GoodParts DEF SessInv
    <2>. QED  BY <2>1, <2>2 DEF LineInv
  <1>8. FamilyInv'
    <2>1. Ours \subseteq 0..Len(fam) /\ Shares \subseteq 0..Len(fam)  BY TokensIn, GoodParts
    <2>2. Split(fam', Ours, Shares) /\ \A u \in Shares : Apart(fam', x, u)
      <3>1. Split(fam, Ours, Shares)  BY DEF FamilyGood, FamilyInv
      <3>2. r.tok \in Ours  BY DEF Ours
      <3>3. Split(fam', Ours, Shares)  BY <1>5, <2>1, <3>1 DEF Split, Keeps
      <3>4. \A u \in Shares : Apart(fam', x, u)  BY <1>5, <2>1, <3>1, <3>2 DEF Split
      <3>. QED  BY <3>3, <3>4
    <2>3. Ours' \subseteq Ours \union {x}
      <3>1. Ours' = {keyring', chain'.req.tok, chain'.req.ans} \union UNION {TokensOf(conns'[d]) : d \in C'}
        BY DEF Ours, TokensOf
      <3>2. {keyring, r.tok} \subseteq Ours  BY DEF Ours
      <3>. QED  BY <1>1, <1>3, <1>4, <3>1, <3>2
    <2>4. Shares' = Shares  BY <1>1, <1>3, <1>6 DEF Shares
    <2>5. Split(fam', Ours', Shares')  BY <2>2, <2>3, <2>4 DEF Split
    <2>. QED  BY <1>3, <1>6, <2>5, RunHere DEF FamilyInv, Split, Apart
  <1>9. CarriedInv'
    <2>1. chain'.req.ans # None => chain'.req.ans \in live'  BY <1>1, <1>5
    <2>. QED  BY <1>3, <2>1, NoneUses DEF CarriedInv
  <1>. QED  BY <1>7, <1>8, <1>9

\* A connection is built, with a token of a sign-in that no other holds.
LEMMA Added ==
  ASSUME FamilyGood, NEW t \in 1..Len(fam'), NEW g \in 0..MaxEnds + 1, Len(fam') \in Nat,
         Len(conns') = Len(conns) + 1, conns'[Len(conns) + 1] = Conn(t, g),
         \A d \in C : conns'[d] = conns[d] /\ ~Busy(d),
         Keeps, \A u \in Shares : Apart(fam', t, u),
         \A d \in C : \A u \in TokensOf(conns[d]) : Apart(fam', t, u),
         keyring' = t, chain'.req \in {chain.req, Idle}, kept' = kept, run' = run,
         SessInv', ~excused' => t \in live'
  PROVE  LineInv' /\ FamilyInv' /\ CarriedInv'
  <1>. DEFINE n == N + 1  k == conns'[n]
  <1>1. N' = n /\ C' = C \union {n} /\ n \notin C /\ C = 1..N /\ N \in Nat
    <2>1. C = 1..Len(conns) /\ Len(conns) \in Nat  BY Counts, GoodParts
    <2>. QED  BY <2>1 DEF N, C
  <1>2. /\ k.tok = t /\ k.ren = Idle /\ k.chg = Idle /\ k.ask = Idle /\ t # None
        /\ Idle.pc = "idle" /\ Idle.tok = None /\ Idle.ans = None
    <2>1. Idle.pc = "idle" /\ Idle.tok = None /\ Idle.ans = None  BY IdleChain
    <2>2. k = Conn(t, g)  BY DEF N
    <2>3. t # None  BY DEF None
    <2>. QED  BY <2>1, <2>2, <2>3, ConnIs
  <1>. HIDE DEF k
  <1>3. LineInv'
    <2>1. \A d \in C' : conns'[d].ren # Idle \/ conns'[d].chg # Idle => d = N'
      BY <1>1 DEF Busy
    <2>2. BusyInv'  BY <2>1 DEF BusyInv, Busy
    <2>. QED  BY <2>2 DEF LineInv
  <1>4. TokensOf(k) = {t, None}  BY <1>2 DEF TokensOf
  <1>5. Kin(fam', k)  BY <1>2, NoneApart DEF Kin, Split
  <1>6. FamilyInv'
    <2>1. /\ Ours \subseteq 0..Len(fam) /\ Shares \subseteq 0..Len(fam)
          /\ \A d \in C : TokensOf(conns[d]) \subseteq 0..Len(fam)
      BY TokensIn, GoodParts
    <2>2. Split(fam', Ours \union {t, None}, Shares \union {None})
      <3>1. Split(fam, Ours, Shares)  BY DEF FamilyGood, FamilyInv
      <3>2. Split(fam', Ours, Shares)  BY <2>1, <3>1 DEF Split, Keeps
      <3>. QED  BY <3>2, NoneApart DEF Split
    <2>3. Ours' \subseteq Ours \union {t, None}
      <3>1. Ours' = {keyring', chain'.req.tok, chain'.req.ans} \union UNION {TokensOf(conns'[d]) : d \in C'}
        BY DEF Ours, TokensOf
      <3>2. {chain.req.tok, chain.req.ans} \subseteq Ours /\ \A d \in C : TokensOf(conns[d]) \subseteq Ours
        BY DEF Ours
      <3>3. TokensOf(conns'[n]) = {t, None}  BY <1>4 DEF k
      <3>4. \A d \in C' : TokensOf(conns'[d]) \subseteq Ours \union {t, None}  BY <1>1, <3>2, <3>3
      <3>5. {keyring', chain'.req.tok, chain'.req.ans} \subseteq Ours \union {t, None}  BY <1>2, <3>2
      <3>. QED  BY <3>1, <3>4, <3>5
    <2>4. Shares' \subseteq Shares \union {None}
      <3>1. Shares' = {kept', run'.tok} \union {conns'[d].ask.ans : d \in C'}  BY DEF Shares
      <3>2. {kept, run.tok} \subseteq Shares /\ \A d \in C : conns[d].ask.ans \in Shares  BY DEF Shares
      <3>3. conns'[n].ask.ans = None  BY <1>2 DEF k
      <3>4. \A d \in C' : conns'[d].ask.ans \in Shares \union {None}  BY <1>1, <3>2, <3>3
      <3>. QED  BY <3>1, <3>2, <3>4
    <2>5. Split(fam', Ours', Shares')  BY <2>2, <2>3, <2>4 DEF Split
    <2>6. \A d \in C : Split(fam', TokensOf(k), TokensOf(conns[d])) /\ Split(fam', TokensOf(conns[d]), TokensOf(k))
      BY <1>4, NoneApart, HereApart DEF Split
    <2>7. \A c \in C, d \in C : c # d => Split(fam', TokensOf(conns[c]), TokensOf(conns[d]))
      BY <2>1 DEF FamilyGood, FamilyInv, Split, Keeps
    <2>8. ASSUME NEW c \in C', NEW d \in C', c # d PROVE Split(fam', TokensOf(conns'[c]), TokensOf(conns'[d]))
      <3>1. CASE c = n  BY <1>1, <2>6, <2>8, <3>1 DEF k
      <3>2. CASE d = n  BY <1>1, <2>6, <2>8, <3>2 DEF k
      <3>3. CASE c \in C /\ d \in C  BY <2>7, <2>8, <3>3
      <3>. QED  BY <1>1, <3>1, <3>2, <3>3
    <2>9. ASSUME NEW c \in C' PROVE Kin(fam', conns'[c])
      <3>1. CASE c = n  BY <1>5, <3>1 DEF k
      <3>2. CASE c \in C
        <4>1. Kin(fam, conns[c]) /\ TokensOf(conns[c]) \subseteq 0..Len(fam)
          BY <2>1, <3>2 DEF FamilyGood, FamilyInv
        <4>2. Kin(fam', conns[c])  BY <4>1 DEF Kin, Split, Keeps, TokensOf
        <4>. QED  BY <3>2, <4>2
      <3>. QED  BY <1>1, <3>1, <3>2
    <2>10. \A c \in C', d \in C' : c # d => Split(fam', TokensOf(conns'[c]), TokensOf(conns'[d]))  BY <2>8
    <2>11. \A c \in C' : Kin(fam', conns'[c])  BY <2>9
    <2>12. run'.pc = "save" => run'.tok # None  BY RunHere
    <2>. QED  BY <2>5, <2>10, <2>11, <2>12 DEF FamilyInv, TokensOf, Kin, Split, Apart
  <1>7. CarriedInv'
    <2>1. chain'.pc # "refresh"  BY <1>1 DEF SessInv
    <2>2. ~Comes(k) /\ Held(k) = t /\ k.ren.pc # "refused"  BY <1>2 DEF Comes, Held
    <2>3. ~excused' => keyring' = k.tok /\ Carries(k, live')  BY <1>2, <2>2 DEF Carries
    <2>4. ~excused' => keyring' = conns'[N'].tok /\ Carries(conns'[N'], live')  BY <1>1, <2>3 DEF k
    <2>. QED  BY <2>1, <2>4 DEF CarriedInv, Carries, Comes, Held, Newest
  <1>. QED  BY <1>3, <1>6, <1>7

LEMMA RefreshedBuilds ==
  ASSUME FamilyGood, CarriedInv, Refreshed, conns' # conns PROVE LineInv' /\ FamilyInv' /\ CarriedInv'
  <1>. DEFINE t == chain.req.ans  g == chain.req.gen
  <1>1. /\ chain.pc = "refresh" /\ chain.req.pc = "answered"
        /\ t # None /\ ~forgotten /\ keyring' = t /\ chain' = Builds /\ UNCHANGED <<live, retry>>
        /\ UNCHANGED <<fam, up, forgotten, list, sharing, excused>>
    BY RefreshedIs
  <1>2. Len(conns') = Len(conns) + 1 /\ conns'[Len(conns) + 1] = Conn(t, g) /\ \A d \in C : conns'[d] = conns[d]
    BY RefreshedTyped, GoodParts
  <1>3. N = 0 /\ C = {} /\ list = 0 /\ up /\ Len(fam) \in Nat /\ retry.api = 0 /\ N' = 1
    BY <1>1, <1>2, IdleChain, Counts, GoodParts DEF SessInv, N, C
  <1>4. t \in 1..Len(fam') /\ g \in 0..MaxEnds + 1
    <2>1. chain.req \in ReqOf(Len(fam))  BY Rest, GoodParts DEF PageAt, ChainOf
    <2>. QED  BY <1>1, <1>3, <2>1 DEF ReqOf, None
  <1>5. chain'.pc = "me" /\ chain'.c = 1 /\ chain'.req = Idle
    BY <1>1, <1>3, BuildsIs, GoodParts DEF N
  <1>6. retry.is # "timer" \/ list = 0  BY <1>3
  <1>7. SessInv'
    BY <1>1, <1>3, <1>5, IdleChain, GoodParts DEF SessInv
  <1>8. \A u \in Shares : Apart(fam', t, u)
    <2>1. t \in Ours  BY DEF Ours
    <2>. QED  BY <1>1, <2>1 DEF FamilyGood, FamilyInv, Split
  <1>9. ~excused' => t \in live'  BY <1>1 DEF CarriedInv
  <1>10. Keeps  BY <1>1 DEF Keeps
  <1>11. kept' = kept /\ run' = run /\ Len(fam') \in Nat  BY <1>1, <1>3 DEF sharing
  <1>12. /\ \A d \in C : conns'[d] = conns[d] /\ ~Busy(d)
         /\ \A d \in C : \A u \in TokensOf(conns[d]) : Apart(fam', t, u)
    BY <1>3
  <1>13. keyring' = t /\ chain'.req \in {chain.req, Idle}  BY <1>1, <1>5
  <1>. HIDE DEF t, g
  <1>. QED  BY ONLY FamilyGood, <1>2, <1>4, <1>7, <1>8, <1>9, <1>10, <1>11, <1>12, <1>13, Added

LEMMA AddServerGood ==
  ASSUME FamilyGood, CarriedInv, AddServer, ~Overlap PROVE LineInv' /\ FamilyInv' /\ CarriedInv'
  <1>1. /\ up /\ chain = NoChain /\ \A c \in C : ~Busy(c)
        /\ live' = live \union {New} /\ ~forgotten' /\ keyring' = New
        /\ list' = Len(conns) + 1 /\ retry' = NoRetry
        /\ UNCHANGED <<gen, up, chain, sharing, excused, counts>>
    BY AddServerIs
  <1>2. /\ Basic' /\ Grown(New)
        /\ Len(conns') = Len(conns) + 1 /\ \A d \in C : conns'[d] = conns[d]
        /\ conns'[Len(conns) + 1] = Conn(New, gen)
    BY AddServerTyped, GoodParts
  <1>3. ServerTypes /\ Len(fam) \in Nat /\ Len(conns) \in Nat  BY Counts, GoodParts DEF Typed
  <1>4. New \in 1..Len(fam') /\ Len(fam') \in Nat /\ gen \in 0..MaxEnds + 1
    BY <1>2, <1>3, Sizes DEF New, Grown, ServerTypes
  <1>5. N' = Len(conns) + 1 /\ N' # 0  BY <1>2, <1>3 DEF N
  <1>6. SessInv'  BY <1>1, <1>5, IdleChain DEF SessInv
  <1>7. /\ Ours \subseteq 0..Len(fam) /\ Shares \subseteq 0..Len(fam)
        /\ \A d \in C : TokensOf(conns[d]) \subseteq 0..Len(fam)
    BY TokensIn, GoodParts
  <1>8. /\ \A u \in Shares : Apart(fam', New, u)
        /\ \A d \in C : \A u \in TokensOf(conns[d]) : Apart(fam', New, u)
    BY <1>2, <1>3, <1>7, FreshNew
  <1>9. Keeps  BY <1>2, GrownKeeps
  <1>10. kept' = kept /\ run' = run /\ chain'.req \in {chain.req, Idle}  BY <1>1 DEF sharing
  <1>11. \A d \in C : conns'[d] = conns[d] /\ ~Busy(d)  BY <1>1, <1>2
  <1>12. keyring' = New /\ (~excused' => New \in live')  BY <1>1
  <1>13. Len(conns') = Len(conns) + 1 /\ conns'[Len(conns) + 1] = Conn(New, gen)  BY <1>2
  <1>. QED  BY ONLY FamilyGood, <1>4, <1>6, <1>8, <1>9, <1>10, <1>11, <1>12, <1>13, Added

LEMMA KillGood ==
  ASSUME FamilyGood, Kill PROVE LineInv' /\ FamilyInv' /\ CarriedInv'
  <1>1. /\ list' = 0 /\ retry' = NoRetry /\ chain' = NoChain /\ run' = NoRun
        /\ UNCHANGED <<server, keyring, kept>>
    BY KillIs
  <1>2. N' = 0 /\ C' = {}
    <2>1. Len(conns') = 0  BY KillTyped, GoodParts
    <2>. QED  BY <2>1 DEF N, C
  <1>3. BusyInv'  BY <1>2 DEF BusyInv
  <1>4. SessInv'  BY <1>1, <1>2, IdleChain DEF SessInv
  <1>5. NoRun.tok = None /\ NoRun.pc = "idle" /\ fam' = fam  BY <1>1 DEF NoRun, server
  <1>6. FamilyInv'
    <2>1. Ours' \subseteq {keyring, None}
      <3>1. Ours' = {keyring', chain'.req.tok, chain'.req.ans} \union UNION {TokensOf(conns'[d]) : d \in C'}
        BY DEF Ours, TokensOf
      <3>. QED  BY <1>1, <1>2, <3>1, IdleChain
    <2>2. Shares' \subseteq {kept, None}  BY <1>1, <1>2, <1>5 DEF Shares
    <2>3. Apart(fam, keyring, kept)
      <3>1. keyring \in Ours /\ kept \in Shares  BY DEF Ours, Shares
      <3>. QED  BY <3>1 DEF FamilyGood, FamilyInv, Split
    <2>4. Split(fam', Ours', Shares')  BY <1>5, <2>1, <2>2, <2>3, NoneApart DEF Split
    <2>. QED  BY <1>1, <1>2, <1>5, <2>4 DEF FamilyInv, Split, Apart
  <1>7. CarriedInv'  BY <1>1, <1>2, NoneUses, IdleChain DEF CarriedInv
  <1>. QED  BY <1>3, <1>4, <1>6, <1>7 DEF LineInv

-----------------------------------------------------------------------------
(* The families, the one way in and what is carried are inductive          *)

Owned == LineInv /\ FamilyInv /\ CarriedInv

LEMMA OwnedTurn == ASSUME FamilyGood, CarriedInv, NEW c \in C, TurnStep(c) PROVE Owned'
  <1>1. CASE Renew(c)  BY <1>1, RenewFine, FineInductive DEF Owned
  <1>2. CASE Expires(c)  BY <1>2, ExpiresFine, FineInductive DEF Owned
  <1>3. CASE ChangePassword(c)  BY <1>3, ChangePasswordFine, FineInductive DEF Owned
  <1>4. CASE AskGoes(c)  BY <1>4, AskGoesFine, FineInductive DEF Owned
  <1>5. CASE RotateArrives(c)  BY <1>5, RotateArrivesFine, FineInductive DEF Owned
  <1>6. CASE ChangeArrives(c)  BY <1>6, ChangeArrivesFine, FineInductive DEF Owned
  <1>7. CASE ChangeFails(c)  BY <1>7, ChangeFailsFine, FineInductive DEF Owned
  <1>8. ASSUME NEW how \in {"refused", "failed"}, RotateFails(c, how) PROVE Owned'
    BY <1>8, RotateFailsFine, FineInductive DEF Owned
  <1>9. ASSUME NEW lost \in BOOLEAN, AskSettles(c, lost) PROVE Owned'
    BY <1>9, AskSettlesFine, FineInductive DEF Owned
  <1>. QED  BY <1>1, <1>2, <1>3, <1>4, <1>5, <1>6, <1>7, <1>8, <1>9 DEF TurnStep

LEMMA OwnedShare == ASSUME FamilyGood, CarriedInv, ShareStep PROVE Owned'
  <1>1. CASE Look \/ LookAgain  BY <1>1, LookGood DEF Owned
  <1>2. CASE RunEnds  BY <1>2, RunEndsGood DEF Owned
  <1>3. ASSUME NEW b \in BOOLEAN, RunStarts(b) PROVE Owned'
    <2>1. CASE conns' = conns  BY <1>3, <2>1, RunStartsGood DEF Owned
    <2>2. CASE conns' # conns
      <3>1. run'.c \in C /\ Fine(run'.c)  BY <1>3, <2>2, RunStartsFine
      <3>2. PICK c \in C : c = run'.c  BY <3>1
      <3>. QED  BY <3>1, <3>2, FineInductive DEF Owned
    <2>. QED  BY <2>1, <2>2
  <1>4. ASSUME NEW b \in BOOLEAN, RunSaves(b) PROVE Owned'  BY <1>4, RunSavesGood DEF Owned
  <1>. QED  BY <1>1, <1>2, <1>3, <1>4 DEF ShareStep

LEMMA OwnedChain == ASSUME FamilyGood, WayOK, CarriedInv, ChainStep PROVE Owned'
  <1>1. ASSUME NEW b \in BOOLEAN, HealthSays(b) PROVE Owned'  BY <1>1, HealthSaysGood DEF Owned
  <1>2. CASE ServerRefreshes  BY <1>2, ServerRefreshesGood DEF Owned
  <1>3. CASE Refreshed  BY <1>3, RefreshedGood, RefreshedBuilds DEF Owned
  <1>4. CASE RefreshFails  BY <1>4, RefreshFailsGood DEF Owned
  <1>5. CASE Again  BY <1>5, AgainGood DEF Owned
  <1>6. CASE MeAnswers  BY <1>6, MeAnswersGood DEF Owned
  <1>7. CASE MeFails  BY <1>7, MeFailsGood DEF Owned
  <1>8. CASE MeRefused
    <2>1. chain.c \in C /\ Fine(chain.c)  BY <1>8, MeRefusedFine
    <2>. QED  BY <2>1, FineInductive DEF Owned
  <1>9. CASE MeRefusedAgain  BY <1>9, MeRefusedAgainGood DEF Owned
  <1>. QED  BY <1>1, <1>2, <1>3, <1>4, <1>5, <1>6, <1>7, <1>8, <1>9 DEF ChainStep

LEMMA OwnedPeople == ASSUME FamilyGood, CarriedInv, PeopleStep, ~Overlap PROVE Owned'
  <1>1. CASE Launch  BY <1>1, LaunchGood DEF Owned
  <1>2. CASE Kill  BY <1>2, KillGood DEF Owned
  <1>3. CASE AddServer  BY <1>3, AddServerGood DEF Owned
  <1>4. CASE SignOut  BY <1>4, SignOutGood DEF Owned
  <1>5. CASE Block  BY <1>5, BlockGood DEF Owned
  <1>6. CASE EndsElsewhere  BY <1>6, EndsElsewhereGood DEF Owned
  <1>. QED  BY <1>1, <1>2, <1>3, <1>4, <1>5, <1>6 DEF PeopleStep

LEMMA OwnedInductive == ~Overlap /\ Basic /\ WayOK /\ Owned /\ [Next]_vars => Owned'
  <1>. SUFFICES ASSUME ~Overlap, Basic, WayOK, Owned, [Next]_vars PROVE Owned'  OBVIOUS
  <1>1. FamilyGood /\ CarriedInv  BY DEF Owned, FamilyGood
  <1>2. CASE UNCHANGED vars
    <2>1. UNCHANGED <<fam, live, keyring, up, forgotten, list, retry, chain, conns, kept, run, excused>>
      BY <1>2 DEF vars, server, sessions, sharing
    <2>2. SessInv'  BY <1>1, <2>1, SessKept, GoodParts
    <2>3. (Uses' => Uses) /\ OursStay  BY <2>1 DEF Uses, N, OursStay
    <2>. QED  BY <1>1, <2>1, <2>2, <2>3, RunHere, RestGood DEF Owned
  <1>3. ASSUME NEW c \in C, TurnStep(c) PROVE Owned'  BY <1>1, <1>3, OwnedTurn
  <1>4. ASSUME NEW c \in C, ServerStep(c) PROVE Owned'
    BY <1>1, <1>4, ServerRotatesGood, ServerChangesGood, ServerSharesGood DEF ServerStep, Owned
  <1>. QED  BY <1>1, <1>2, <1>3, <1>4, OwnedShare, OwnedChain, OwnedPeople, NextIs

LEMMA OwnedInit == Init => Owned
  <1>. SUFFICES ASSUME Init PROVE Owned  OBVIOUS
  <1>1. keyring = 1 /\ kept = None /\ conns = <<>> /\ list = 0 /\ retry = NoRetry /\ chain = NoChain /\ run = NoRun
    BY DEF Init
  <1>2. N = 0 /\ C = {}  BY <1>1 DEF N, C
  <1>3. NoRun.tok = None /\ NoRun.pc = "idle"  BY DEF NoRun
  <1>4. LineInv  BY <1>1, <1>2, IdleChain DEF LineInv, BusyInv, SessInv
  <1>5. Shares = {None}  BY <1>1, <1>2, <1>3 DEF Shares
  <1>6. FamilyInv  BY <1>1, <1>2, <1>3, <1>5, NoneApart DEF FamilyInv, Split
  <1>7. CarriedInv  BY <1>1, <1>2, IdleChain DEF CarriedInv, Uses
  <1>. QED  BY <1>4, <1>6, <1>7 DEF Owned

LEMMA OwnedAlways == ~Overlap => (Spec => [](Basic /\ WayOK /\ Owned))
  <1>1. Init => Basic /\ WayOK /\ Owned  BY BasicInit, OwnedInit
  <1>2. ~Overlap => (Basic /\ WayOK /\ Owned /\ [Next]_vars => (Basic /\ WayOK /\ Owned)')
    BY BasicInductive, WayInductive, OwnedInductive
  <1>3. ASSUME ~Overlap PROVE Spec => [](Basic /\ WayOK /\ Owned)
    <2>1. Basic /\ WayOK /\ Owned /\ [Next]_vars => (Basic /\ WayOK /\ Owned)'  BY <1>2, <1>3
    <2>. QED  BY <1>1, <2>1, PTL DEF Spec
  <1>. QED  BY <1>3

-----------------------------------------------------------------------------
(* The stored token, and who signs the app out                             *)

\* The connection shown is the last, and what it carries on with is live.
LEMMA ListUses ==
  ASSUME Basic, Owned, list # 0
  PROVE  /\ list = N /\ N \in C /\ ~forgotten /\ up /\ chain = NoChain
         /\ ~excused => keyring = conns[N].tok /\ Carries(conns[N], live)
  <1>1. list = N /\ ~forgotten /\ chain = NoChain /\ up  BY DEF Owned, LineInv, SessInv
  <1>2. N \in C
    <2>1. C = 1..Len(conns) /\ Len(conns) \in Nat  BY Counts DEF Basic
    <2>. QED  BY <1>1, <2>1 DEF N
  <1>3. Uses  BY <1>1 DEF Uses
  <1>. QED  BY <1>1, <1>2, <1>3 DEF Owned, CarriedInv

LEMMA OwnedStored == Basic /\ Owned => StoredIsLive
  <1>. SUFFICES ASSUME Basic, Owned, Still, ~excused, list # 0 PROVE keyring \in live  BY DEF StoredIsLive
  <1>. DEFINE k == conns[N]
  <1>1. N \in C /\ keyring = k.tok /\ Carries(k, live)  BY ListUses
  <1>2. k.ren = Idle /\ k.chg = Idle  BY <1>1 DEF Still, Busy
  <1>3. k.ren.pc = "idle" /\ k.chg.pc = "idle"  BY <1>2, IdleChain
  <1>. QED  BY <1>1, <1>3 DEF Carries, Comes, Held

\* The app is signed out by itself.
LetGo == list # 0 /\ list' = 0 /\ ~forgotten' /\ ~blocked' /\ up'

LEMMA TurnLetsGo == ASSUME Basic, Owned, NEW c \in C, TurnStep(c), LetGo PROVE excused'
  <1>. SUFFICES ASSUME ~excused' PROVE FALSE  OBVIOUS
  <1>. DEFINE k == conns[c]
  <1>1. list # 0 /\ list' # list /\ FamilyGood /\ AskIn(k) /\ Typed
    BY DEF LetGo, FamilyGood, Owned, Basic, AsksOK
  <1>2. ~ \/ Renew(c) \/ Expires(c) \/ ChangePassword(c) \/ AskGoes(c)
          \/ \E lost \in BOOLEAN : AskSettles(c, lost)
    BY <1>1 DEF Renew, Expires, ChangePassword, AskGoes, AskSettles, sessions
  <1>3. Busy(c) /\ ~excused => c = N /\ Carries(k, live)  BY <1>1, KinHere, ListUses
  <1>4. CASE RotateArrives(c)
    <2>1. \E how \in {"ok"} : Settle(c, how, IF Newest(k) THEN k.ren.ans ELSE keyring)
      BY <1>4, RotateArrivesIs
    <2>2. PICK how \in {"ok"} : Settle(c, how, IF Newest(k) THEN k.ren.ans ELSE keyring)  BY <2>1
    <2>. QED  BY <1>1, <2>2, SettleIs
  <1>5. CASE ChangeArrives(c)
    <2>1. UNCHANGED list \/ \E how \in {"ok"} : Settle(c, how, k.chg.ans)
      BY <1>5, ChangeArrivesIs
    <2>2. PICK how \in {"ok"} : Settle(c, how, k.chg.ans)  BY <1>1, <2>1
    <2>. QED  BY <1>1, <2>2, SettleIs
  <1>6. ASSUME NEW how \in {"refused", "failed"}, RotateFails(c, how) PROVE FALSE
    <2>1. /\ \/ how = "refused" /\ k.ren.pc = "answered" /\ k.ren.ans = None
             \/ how = "failed" /\ k.ren.pc \in {"wire", "answered"}
          /\ excused => excused'
          /\ k.chg = Idle /\ Settle(c, IF Newest(k) THEN how ELSE "ok", keyring)
      BY <1>1, <1>6, RotateFailsIs
    <2>2. PICK told \in {"ok", "refused", "failed"} : told = (IF Newest(k) THEN how ELSE "ok")  OBVIOUS
    <2>3. Settle(c, told, keyring)  BY <2>1, <2>2
    <2>4. told = "refused"  BY <1>1, <2>3, SettleIs
    <2>5. how = "refused" /\ Newest(k) /\ k.ren.pc = "answered" /\ k.ren.ans = None  BY <2>1, <2>2, <2>4
    <2>6. Busy(c) /\ ~excused /\ ~Comes(k)  BY <2>1, <2>5, IdleChain DEF Busy, Comes
    <2>7. None \in live  BY <1>3, <2>5, <2>6 DEF Carries, Held
    <2>8. live \subseteq 1..Len(fam)  BY Rest DEF Tokens
    <2>. QED  BY <2>7, <2>8 DEF None
  <1>7. CASE ChangeFails(c)
    <2>1. /\ k.chg # Idle /\ (excused => excused') /\ ~Comes(k)
          /\ \/ Settle(c, "ok", keyring)
             \/ Newest(Lost(k)) /\ Settle(c, Lost(k).ren.pc, keyring)
      BY <1>1, <1>7, ChangeFailsIs DEF Comes
    <2>2. Lost(k).ren = k.ren /\ Lost(k).tok = k.tok
      <3>1. k \in ConnOf(Len(fam))  BY ConnHere
      <3>. QED  BY <3>1, LostIs, Counts DEF Basic
    <2>3. \E told \in {"ok", k.ren.pc} : Settle(c, told, keyring) /\ (told = "ok" \/ Newest(k))
      BY <2>1, <2>2 DEF Newest
    <2>4. PICK told \in {"ok", k.ren.pc} : Settle(c, told, keyring) /\ (told = "ok" \/ Newest(k))  BY <2>3
    <2>5. told = "refused"  BY <1>1, <2>4, SettleIs
    <2>6. k.ren.pc = "refused" /\ Newest(k)  BY <2>4, <2>5
    <2>7. Carries(k, live)  BY <1>3, <2>1 DEF Busy
    <2>. QED  BY <2>1, <2>6, <2>7 DEF Carries
  <1>. QED  BY <1>2, <1>4, <1>5, <1>6, <1>7 DEF TurnStep

LEMMA RestLetsGo ==
  ASSUME Basic, Owned, LetGo, ShareStep \/ ChainStep \/ PeopleStep \/ (\E c \in C : ServerStep(c)) \/ UNCHANGED vars
  PROVE  FALSE
  <1>1. /\ list # 0 /\ list' # list /\ list' = 0 /\ ~forgotten /\ ~forgotten' /\ ~blocked' /\ up'
        /\ chain.pc = "idle" /\ chain = NoChain
    BY ListUses, IdleChain DEF LetGo
  <1>2. ~ShareStep
    BY <1>1 DEF ShareStep, Look, LookAgain, RunEnds, RunStarts, RunSaves, sessions
  <1>3. ~ChainStep
    <2>1. ~(\E b \in BOOLEAN : HealthSays(b))  BY <1>1 DEF HealthSays
    <2>2. ~ServerRefreshes /\ ~Refreshed /\ ~RefreshFails /\ ~MeAnswers /\ ~MeFails /\ ~MeRefused /\ ~MeRefusedAgain
      BY <1>1 DEF ServerRefreshes, Refreshed, RefreshFails, MeAnswers, MeFails, MeRefused, MeRefusedAgain
    <2>3. ~Again  BY <1>1 DEF Again
    <2>. QED  BY <2>1, <2>2, <2>3 DEF ChainStep
  <1>4. ~PeopleStep
    <2>1. ~Launch /\ ~EndsElsewhere  BY <1>1 DEF Launch, EndsElsewhere, sessions
    <2>2. ~Kill /\ ~SignOut  BY <1>1 DEF Kill, SignOut
    <2>3. ~Block  BY <1>1 DEF Block
    <2>4. ~AddServer
      <3>1. Len(conns) + 1 # 0  BY Counts DEF Basic
      <3>. QED  BY <1>1, <3>1, AddServerIs
    <2>. QED  BY <2>1, <2>2, <2>3, <2>4 DEF PeopleStep
  <1>5. \A c \in C : ~ServerStep(c)
    BY <1>1 DEF ServerStep, ServerRotates, ServerChanges, ServerShares, sessions
  <1>6. ~UNCHANGED vars  BY <1>1 DEF vars, sessions
  <1>. QED  BY <1>2, <1>3, <1>4, <1>5, <1>6

LEMMA OwnedSignsOut == Basic /\ Owned /\ [Next]_vars => [LetGo => excused']_vars
  <1>. SUFFICES ASSUME Basic, Owned, [Next]_vars, LetGo PROVE excused'  OBVIOUS
  <1>1. ASSUME NEW c \in C, TurnStep(c) PROVE excused'  BY <1>1, TurnLetsGo
  <1>2. (\E c \in C : TurnStep(c)) \/ ShareStep \/ ChainStep \/ PeopleStep
        \/ (\E c \in C : ServerStep(c)) \/ UNCHANGED vars
    BY NextIs
  <1>. QED  BY <1>1, <1>2, RestLetsGo

\* "The stored token is always the live one" (connect, onTokens): while nothing is on its
\* way, a sign-in nobody ended can be carried on with, by this launch and by the next one,
\* unless an answer was lost.  Overlap is the renewal that lands on a server signed out of.
THEOREM StoredTokenIsLive == ~Overlap => (Spec => []StoredIsLive)
  BY OwnedAlways, OwnedStored, PTL

\* The app signs itself out only of a sign-in that is over, whatever renewals, changes and
\* asks of its own crossed (RotatingTokens), unless an answer was lost.
THEOREM SignedOutOnlyWhenOver == ~Overlap => (Spec => OnlyEndedSignsOut)
  <1>1. ASSUME ~Overlap PROVE Spec => OnlyEndedSignsOut
    <2>1. Spec => [](Basic /\ WayOK /\ Owned)  BY <1>1, OwnedAlways
    <2>2. Basic /\ Owned /\ [Next]_vars => [LetGo => excused']_vars  BY OwnedSignsOut
    <2>. QED  BY <2>1, <2>2, PTL DEF Spec, OnlyEndedSignsOut, LetGo
  <1>. QED  BY <1>1

=============================================================================
