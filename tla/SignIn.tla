------------------------------- MODULE SignIn -------------------------------
(***************************************************************************)
(* One person's sign-in on one server, on one device: refresh tokens that  *)
(* rotate (auth.rs), the page's token source (lib/api.ts RotatingTokens),  *)
(* the list of servers that comes back on every launch (lib/session.ts),   *)
(* and the iPhone share window's own sign-in (next/core/shareWindow.ts).   *)
(*                                                                         *)
(* A request is sent, handled by the server, and answered, each a step of  *)
(* its own; it fails before the server handles it, or its answer is lost.  *)
(* A write to the keyring lands at once.  The token's 30 days, the rate    *)
(* limits and the development build's second mount are left out.           *)
(***************************************************************************)
EXTENDS Naturals, Sequences

CONSTANTS MaxTokens,   \* bound: refresh tokens the server gives
          MaxConns,    \* bound: connections (AuthedApi) the page builds in a launch
          MaxKills,    \* bound: times the app is killed
          MaxEnds,     \* bound: password changes, here and elsewhere
          MaxRuns,     \* bound: share runs queued in a launch
          Overlap      \* bound: whether somebody signs out or in with an answer on its way

ASSUME SignInAssumption ==
  /\ {MaxTokens, MaxConns, MaxKills, MaxEnds, MaxRuns} \subseteq Nat
  /\ MaxTokens >= 1 /\ MaxConns >= 1 /\ Overlap \in BOOLEAN

VARIABLES
  live,       \* refresh_tokens: the tokens not revoked
  fam,        \* refresh_tokens: each token's family, in the order the tokens were given
  gen,        \* users.token_generation
  keyring,    \* the refresh token stored for the server, None for none
  kept,       \* the share window's token in the Keychain, None for none
  up,         \* whether the app is running
  forgotten, list, waiting, blocked, retry,  \* useSessions: list is the connection shown
  chain,      \* the way back of a saved server: refreshSaved, then open
  conns,      \* the connections built, each with its RotatingTokens
  looked, keys, queue, run,  \* useShareSignIns: what it last ran for, and its runs
  excused,    \* history: an answer was lost, or the sign-ins ended elsewhere
  kills, runs

None == 0
Tokens == 1..Len(fam)
server == <<live, fam, gen>>
sessions == <<forgotten, list, waiting, blocked, retry>>
sharing == <<kept, looked, keys, queue, run>>
counts == <<kills, runs>>
vars == <<server, keyring, up, sessions, chain, conns, sharing, excused, counts>>

\* A request: where it is, the token it carries, and what the server answered.
Idle == [pc |-> "idle", tok |-> None, ans |-> None, gen |-> 0]
Sent(tok) == [Idle EXCEPT !.pc = "wire", !.tok = tok]

\* AuthedApi with its RotatingTokens: #tokens, #refreshing, #changing and #asking.
\* wants: a renewal waits for the change.  after: the ask waits for the renewal.
Conn(tok, g) == [tok |-> tok, acc |-> g, ren |-> Idle, chg |-> Idle, wants |-> FALSE,
                 ask |-> Idle, after |-> FALSE]

NoRetry == [is |-> "none", api |-> 0]
NoChain == [pc |-> "idle", req |-> Idle, c |-> 0]
NoRun == [pc |-> "idle", c |-> 0, signedIn |-> TRUE, tok |-> None]

C == 1..Len(conns)
SignedIn == list # 0 \/ waiting # "none" \/ blocked

Init ==
  /\ live = {1} /\ fam = <<1>> /\ gen = 1
  /\ keyring = 1 /\ kept = None
  /\ up = FALSE /\ forgotten = FALSE /\ list = 0 /\ waiting = "none" /\ blocked = FALSE
  /\ retry = NoRetry /\ chain = NoChain /\ conns = <<>>
  /\ looked = FALSE /\ keys = <<>> /\ queue = <<>> /\ run = NoRun
  /\ excused = FALSE /\ kills = 0 /\ runs = 0
-----------------------------------------------------------------------------
(* The server                                                              *)

Family(t) == {u \in Tokens : fam[u] = fam[t]}
CanGive == Len(fam) < MaxTokens
\* The next token; a new family has its first token's name.
New == Len(fam) + 1
NewFamily == New

\* rotate_refresh: a live token is spent for the next; a spent one ends its family.
Rotate(r) ==
  IF r.tok \in live
  THEN /\ CanGive
       /\ fam' = Append(fam, fam[r.tok]) /\ live' = (live \ {r.tok}) \union {New}
       /\ UNCHANGED gen
  ELSE live' = live \ Family(r.tok) /\ UNCHANGED <<fam, gen>>

\* revoke_family
Revoked(t) == IF t = None THEN {} ELSE Family(t)

\* Mutant: a refusal is read for a token too.
AnsweredAlways(r) == [r EXCEPT !.pc = "answered", !.ans = New, !.gen = gen']

\* What the server answered the request, None for UNAUTHENTICATED.
Answered(r) ==
  [r EXCEPT !.pc = "answered", !.ans = IF Len(fam') > Len(fam) THEN New ELSE None, !.gen = gen']
-----------------------------------------------------------------------------
(* The list of servers: useSessions                                        *)

\* stopWaiting
StopWaiting == waiting' = "none" /\ retry' = NoRetry

\* Mutant: the server is left being tried.
WaitUntold(api) ==
  /\ UNCHANGED waiting
  /\ retry' = [is |-> "timer", api |-> IF api # 0 THEN api ELSE retry.api]

\* wait: a try failed without ending the sign-in; it is tried again later.
Wait(api) ==
  /\ waiting' = "failed"
  /\ retry' = [is |-> "timer", api |-> IF api # 0 THEN api ELSE retry.api]

\* onSignedOut: unless signed out on purpose already.
OnSignedOut ==
  IF forgotten THEN UNCHANGED <<keyring, list, blocked, waiting, retry>>
  ELSE /\ keyring' = None /\ list' = 0 /\ blocked' = FALSE /\ StopWaiting

\* arrive: in the list, and off the others.
Arrive(c) == list' = c /\ blocked' = FALSE /\ StopWaiting

\* restore, on launch: each saved server's first try, a look at /health before it.
Launch ==
  /\ ~up /\ up' = TRUE
  /\ IF keyring = None THEN UNCHANGED <<waiting, retry, chain>>
     ELSE /\ waiting' = "trying" /\ retry' = [is |-> "busy", api |-> 0]
          /\ chain' = [NoChain EXCEPT !.pc = "health", !.req.tok = keyring]
  /\ UNCHANGED <<server, keyring, forgotten, list, blocked, conns, sharing, excused, counts>>

\* The app is killed, or quit: what it held is gone, and an answer on its way is lost.
Kill ==
  /\ up /\ kills < MaxKills /\ kills' = kills + 1 /\ up' = FALSE
  /\ excused' = (excused \/ chain.req.pc = "answered"
                   \/ \E c \in C : "answered" \in {conns[c].ren.pc, conns[c].chg.pc})
  /\ forgotten' = FALSE /\ list' = 0 /\ waiting' = "none" /\ blocked' = FALSE
  /\ retry' = NoRetry /\ chain' = NoChain /\ conns' = <<>>
  /\ looked' = FALSE /\ keys' = <<>> /\ queue' = <<>> /\ run' = NoRun
  /\ runs' = 0 /\ UNCHANGED <<server, keyring, kept>>

\* newerAppFor: the server needs a newer app, or doesn't, or doesn't say.
HealthSays(needsNewer) ==
  /\ chain.pc = "health"
  /\ IF needsNewer
     THEN /\ chain' = NoChain
          /\ IF forgotten THEN UNCHANGED blocked ELSE blocked' = TRUE
          /\ IF forgotten THEN retry' = NoRetry /\ UNCHANGED waiting ELSE StopWaiting
          /\ IF forgotten THEN UNCHANGED list ELSE list' = 0
     ELSE /\ chain' = [chain EXCEPT !.pc = "refresh", !.req = Sent(chain.req.tok)]
          /\ UNCHANGED <<list, waiting, blocked, retry>>
  /\ UNCHANGED <<server, keyring, up, forgotten, conns, sharing, excused, counts>>

ServerRefreshes ==
  /\ chain.pc = "refresh" /\ chain.req.pc = "wire"
  /\ Rotate(chain.req)
  /\ chain' = [chain EXCEPT !.req = Answered(chain.req)]
  /\ UNCHANGED <<keyring, up, sessions, conns, sharing, excused, counts>>

\* refreshSaved: whether the fresh token is still wanted once it is here.
Wanted == ~forgotten

\* refreshSaved and follow, answered: the token is saved and the connection built, or
\* ended again if the server was signed out of; a refused one is forgotten.
Refreshed ==
  LET a == chain.req.ans IN
  /\ chain.pc = "refresh" /\ chain.req.pc = "answered"
  /\ \/ /\ a = None
        /\ keyring' = None /\ StopWaiting /\ chain' = NoChain
        /\ UNCHANGED <<live, conns>>
     \/ /\ a # None /\ ~Wanted
        /\ live' \in {live, live \ Family(a)}
        /\ StopWaiting /\ chain' = NoChain /\ UNCHANGED <<keyring, conns>>
     \/ /\ a # None /\ Wanted /\ Len(conns) < MaxConns
        /\ keyring' = a /\ conns' = Append(conns, Conn(a, chain.req.gen))
        /\ chain' = [NoChain EXCEPT !.pc = "me", !.c = Len(conns) + 1]
        /\ UNCHANGED <<live, waiting, retry>>
  /\ UNCHANGED <<fam, gen, up, forgotten, list, blocked, sharing, excused, counts>>

\* No answer, or not one it could read: the sign-in is kept.
RefreshFails ==
  /\ chain.pc = "refresh"
  /\ excused' = (excused \/ chain.req.pc = "answered")
  /\ Wait(0) /\ chain' = NoChain
  /\ UNCHANGED <<server, keyring, up, forgotten, list, blocked, conns, sharing, counts>>

\* again: the timer, or the button; with the token the keyring holds now.
Again ==
  /\ retry.is = "timer" /\ chain = NoChain
  /\ IF retry.api # 0
     THEN /\ chain' = [NoChain EXCEPT !.pc = "me", !.c = retry.api]
          /\ retry' = [retry EXCEPT !.is = "busy"] /\ waiting' = "trying"
     ELSE IF keyring = None \/ forgotten
     THEN StopWaiting /\ UNCHANGED chain
     ELSE /\ chain' = [NoChain EXCEPT !.pc = "health", !.req.tok = keyring]
          /\ retry' = [retry EXCEPT !.is = "busy"] /\ waiting' = "trying"
  /\ UNCHANGED <<server, keyring, up, forgotten, list, blocked, conns, sharing, excused, counts>>

\* open: me answers, and the server is in the list, or signed out of meanwhile.
MeAnswers ==
  /\ chain.pc \in {"me", "me again"} /\ conns[chain.c].acc = gen
  /\ chain' = NoChain
  /\ IF forgotten
     THEN /\ live' \in {live, live \ Family(conns[chain.c].tok)}
          /\ UNCHANGED <<list, blocked, waiting, retry>>
     ELSE Arrive(chain.c) /\ UNCHANGED live
  /\ UNCHANGED <<fam, gen, keyring, up, forgotten, conns, sharing, excused, counts>>

\* open: me can't be reached.
MeFails ==
  /\ chain.pc \in {"me", "me again"}
  /\ Wait(chain.c) /\ chain' = NoChain
  /\ UNCHANGED <<server, keyring, up, forgotten, list, blocked, conns, sharing, excused, counts>>

\* block: the server says while connected that it needs a newer app.
Block ==
  /\ list # 0
  /\ IF forgotten THEN retry' = NoRetry /\ UNCHANGED <<list, waiting, blocked>>
     ELSE list' = 0 /\ blocked' = TRUE /\ StopWaiting
  /\ UNCHANGED <<server, keyring, up, forgotten, chain, conns, sharing, excused, counts>>

\* A connection with a renewal or a password change on its way.
Busy(c) == conns[c].ren # Idle \/ conns[c].chg # Idle

\* addServer: signed in with a password, for the first time or again.
AddServer ==
  /\ up /\ CanGive /\ Len(conns) < MaxConns
  /\ Overlap \/ (chain = NoChain /\ \A c \in C : ~Busy(c))
  /\ fam' = Append(fam, NewFamily) /\ live' = live \union {New}
  /\ forgotten' = FALSE /\ keyring' = New
  /\ conns' = Append(conns, Conn(New, gen))
  /\ Arrive(Len(conns) + 1)
  /\ UNCHANGED <<gen, up, chain, sharing, excused, counts>>

\* signOut: forgotten here, and the family ended at the server if it can be reached.
SignOut ==
  /\ SignedIn /\ (Overlap \/ \A c \in C : ~Busy(c))
  /\ forgotten' = TRUE /\ list' = 0 /\ blocked' = FALSE /\ StopWaiting
  /\ keyring' = None
  /\ live' \in {live, live \ (IF list = 0 THEN {} ELSE Family(conns[list].tok))}
  /\ UNCHANGED <<fam, gen, up, chain, conns, sharing, excused, counts>>
-----------------------------------------------------------------------------
(* Renewing: RotatingTokens                                                *)

\* Mutant: a renewal doesn't wait for an ask that carries the token it spends.
RotateAtOnce(k) == IF k.ren # Idle THEN k ELSE [k EXCEPT !.ren = Sent(k.tok)]

\* #rotate: one at a time, once an ask proving the token has finished.
StartRotate(k) ==
  IF k.ren # Idle THEN k
  ELSE [k EXCEPT !.ren = IF k.ask = Idle THEN Sent(k.tok) ELSE [Idle EXCEPT !.pc = "asking"]]

\* renew: the one under way, or the password change under way, is the renewal.
Renewed(k) ==
  IF k.ren = Idle /\ k.chg # Idle THEN [k EXCEPT !.wants = TRUE] ELSE StartRotate(k)

\* Somebody waiting for connection c's renewal hears how it went: open's call of me runs
\* again, or is given up.  The keyring then holds key, unless the sign-in is over.
Settle(c, how, key) ==
  LET mine == chain.pc = "renewing" /\ chain.c = c IN
  /\ chain' = IF ~mine THEN chain
              ELSE IF how = "ok" THEN [chain EXCEPT !.pc = "me again"] ELSE NoChain
  /\ IF how = "refused" THEN OnSignedOut
     ELSE /\ keyring' = key /\ UNCHANGED <<list, blocked>>
          /\ IF how = "failed" /\ mine THEN Wait(c) ELSE UNCHANGED <<waiting, retry>>

\* A request of the page comes back UNAUTHENTICATED, or its token is about to expire.
Renew(c) ==
  /\ c = list /\ conns' = [conns EXCEPT ![c] = Renewed(@)] /\ conns' # conns
  /\ UNCHANGED <<server, keyring, up, sessions, chain, sharing, excused, counts>>

\* open: me is refused, and the token renewed, once.
MeRefused ==
  /\ chain.pc = "me" /\ conns[chain.c].acc # gen
  /\ conns' = [conns EXCEPT ![chain.c] = Renewed(@)]
  /\ chain' = [chain EXCEPT !.pc = "renewing"]
  /\ UNCHANGED <<server, keyring, up, sessions, sharing, excused, counts>>

\* open: refused again, and nothing more is done.
MeRefusedAgain ==
  /\ chain.pc = "me again" /\ conns[chain.c].acc # gen
  /\ chain' = NoChain
  /\ UNCHANGED <<server, keyring, up, sessions, conns, sharing, excused, counts>>

\* The access token's 15 minutes are over while the server is waited for.
Expires(c) ==
  /\ c = retry.api /\ retry.is = "timer" /\ conns[c].acc # 0
  /\ conns' = [conns EXCEPT ![c].acc = 0]
  /\ UNCHANGED <<server, keyring, up, sessions, chain, sharing, excused, counts>>

ServerRotates(c) ==
  /\ conns[c].ren.pc = "wire"
  /\ Rotate(conns[c].ren)
  /\ conns' = [conns EXCEPT ![c].ren = Answered(@)]
  /\ UNCHANGED <<keyring, up, sessions, chain, sharing, excused, counts>>

\* Mutant: the renewal's pair is carried on with whatever landed meanwhile.
NewestAlways(k) == TRUE

\* Whether the token the renewal spent is still the one held: no change landed.
Newest(k) == k.tok = k.ren.tok

\* The connection once its renewal has settled: an ask that waited for it goes on.
Done(k) == [k EXCEPT !.ren = Idle, !.after = FALSE]

\* The answer: the pair is carried on with and saved, unless a change's is newer.
RotateArrives(c) ==
  LET k == conns[c] a == k.ren.ans IN
  /\ k.ren.pc = "answered" /\ a # None
  /\ conns' = [conns EXCEPT ![c] =
       IF Newest(k) THEN [Done(k) EXCEPT !.tok = a, !.acc = k.ren.gen] ELSE Done(k)]
  /\ Settle(c, "ok", IF Newest(k) THEN a ELSE keyring)
  /\ UNCHANGED <<server, up, forgotten, sharing, excused, counts>>

\* Refused, or failed: a password change under way is waited for; one that landed is the
\* renewal; otherwise a refusal is the end of the sign-in.
RotateFails(c, how) ==
  LET k == conns[c] IN
  /\ \/ how = "refused" /\ k.ren.pc = "answered" /\ k.ren.ans = None
     \/ how = "failed" /\ k.ren.pc \in {"wire", "answered"}
  /\ excused' = (excused \/ (how = "failed" /\ k.ren.pc = "answered"))
  /\ IF k.chg # Idle
     THEN /\ conns' = [conns EXCEPT ![c].ren.pc = how]
          /\ UNCHANGED <<keyring, list, blocked, waiting, retry, chain>>
     ELSE /\ conns' = [conns EXCEPT ![c] = Done(k)]
          /\ Settle(c, IF Newest(k) THEN how ELSE "ok", keyring)
  /\ UNCHANGED <<server, up, forgotten, sharing, counts>>

\* changePassword, through replace.
ChangePassword(c) ==
  /\ c = list /\ conns[c].chg = Idle /\ gen <= MaxEnds
  /\ conns' = [conns EXCEPT ![c].chg = [Sent(None) EXCEPT !.gen = conns[c].acc]]
  /\ UNCHANGED <<server, keyring, up, sessions, chain, sharing, excused, counts>>

\* change_password: every sign-in ends, and the device that asked gets a new one.
ServerChanges(c) ==
  /\ conns[c].chg.pc = "wire"
  /\ IF conns[c].chg.gen = gen
     THEN /\ CanGive /\ gen <= MaxEnds
          /\ fam' = Append(fam, NewFamily) /\ live' = {New} /\ gen' = gen + 1
     ELSE UNCHANGED server
  /\ conns' = [conns EXCEPT ![c].chg = Answered(@)]
  /\ UNCHANGED <<keyring, up, sessions, chain, sharing, excused, counts>>

\* What waited for the change goes on: a renewal that failed meanwhile, and one that was
\* asked for, which starts now if the change brought no pair.
ChangeSettles(c, k, changed, key) ==
  LET waits == k.ren.pc \in {"refused", "failed"}
      free == [(IF waits THEN Done(k) ELSE k) EXCEPT !.chg = Idle, !.wants = FALSE]
      rotate == ~changed /\ k.wants
  IN
  /\ conns' = [conns EXCEPT ![c] = IF rotate THEN StartRotate(free) ELSE free]
  /\ IF changed /\ (waits \/ k.wants) THEN Settle(c, "ok", key)
     ELSE IF waits THEN Settle(c, IF Newest(k) THEN k.ren.pc ELSE "ok", key)
     ELSE keyring' = key /\ UNCHANGED <<list, blocked, waiting, retry, chain>>

\* replace: the pair the change came back with is carried on with, and saved.
ChangeArrives(c) ==
  LET k == conns[c] a == k.chg.ans IN
  /\ k.chg.pc = "answered" /\ a # None
  /\ ChangeSettles(c, [k EXCEPT !.tok = a, !.acc = k.chg.gen], TRUE, a)
  /\ UNCHANGED <<server, up, forgotten, sharing, excused, counts>>

\* The change failed, or was refused for its access token, which is renewed (withAuth).
ChangeFails(c) ==
  LET k == conns[c] IN
  /\ k.chg # Idle
  /\ excused' = (excused \/ (k.chg.pc = "answered" /\ k.chg.ans # None))
  /\ ChangeSettles(c, IF k.chg.pc = "answered" /\ k.chg.ans = None THEN [k EXCEPT !.wants = TRUE] ELSE k,
                   FALSE, keyring)
  /\ UNCHANGED <<server, up, forgotten, sharing, counts>>

\* A password change or a removal somewhere else.
EndsElsewhere ==
  /\ gen <= MaxEnds
  /\ live' = {} /\ gen' = gen + 1 /\ excused' = TRUE
  /\ UNCHANGED <<fam, keyring, up, sessions, chain, conns, sharing, counts>>
-----------------------------------------------------------------------------
(* The share window's sign-in: useShareSignIns and keepShareSignIns        *)

\* The effect runs when the servers or the sign-ins changed, or it is time to look again:
\* a run is queued, to ask for a server not looked at, and to end what isn't wanted.
Look ==
  /\ up /\ runs < MaxRuns /\ runs' = runs + 1
  /\ keys # <<list # 0, SignedIn>> /\ keys' = <<list # 0, SignedIn>>
  /\ looked' = (looked \/ list # 0)
  /\ queue' = Append(queue, [NoRun EXCEPT !.c = IF looked THEN 0 ELSE list, !.signedIn = SignedIn])
  /\ UNCHANGED <<server, keyring, up, sessions, chain, conns, kept, run, excused, kills>>

LookAgain ==
  /\ up /\ runs < MaxRuns /\ keys # <<>>
  /\ looked' = FALSE /\ keys' = <<>>
  /\ UNCHANGED <<server, keyring, up, sessions, chain, conns, kept, queue, run, excused, counts>>

\* Mutant: runs overlap, and the newest goes first.
NewestFirst == Len(queue)

\* oneAtATime: which run goes next.
NextRun == 1

\* A run starts: it asks for a sign-in unless one is kept that isn't old.
RunStarts(old) ==
  LET r == queue[NextRun]
      asks == r.c # 0 /\ (kept = None \/ old)
  IN
  /\ run = NoRun /\ queue # <<>>
  /\ queue' = SubSeq(queue, 1, NextRun - 1) \o SubSeq(queue, NextRun + 1, Len(queue))
  /\ run' = [r EXCEPT !.pc = IF asks THEN "ask" ELSE "end"]
  /\ conns' = IF asks THEN [conns EXCEPT ![r.c].ask = [Idle EXCEPT !.pc = "before"],
                                         ![r.c].after = conns[r.c].ren # Idle]
              ELSE conns
  /\ UNCHANGED <<server, keyring, up, sessions, chain, kept, looked, keys, excused, counts>>

\* shareSignIn: never with a token on its way to being spent or replaced.
AskGoes(c) ==
  /\ conns[c].ask.pc = "before" /\ ~conns[c].after /\ conns[c].chg = Idle
  /\ conns' = [conns EXCEPT ![c].ask = Sent(conns[c].tok)]
  /\ UNCHANGED <<server, keyring, up, sessions, chain, sharing, excused, counts>>

\* share_family: a live token isn't spent; a spent one ends its family.
ServerShares(c) ==
  LET t == conns[c].ask.tok IN
  /\ conns[c].ask.pc = "wire"
  /\ IF t \in live
     THEN CanGive /\ fam' = Append(fam, NewFamily) /\ live' = live \union {New}
     ELSE live' = live \ Family(t) /\ UNCHANGED fam
  /\ UNCHANGED gen
  /\ conns' = [conns EXCEPT ![c].ask = Answered(@)]
  /\ UNCHANGED <<keyring, up, sessions, chain, sharing, excused, counts>>

\* The ask settles, and a renewal that waited for it goes.  The run saves what it got.
AskSettles(c, lost) ==
  LET k == conns[c] a == IF lost THEN None ELSE k.ask.ans IN
  /\ k.ask.pc \in (IF lost THEN {"wire", "answered"} ELSE {"answered"})
  /\ conns' = [conns EXCEPT ![c] =
       [k EXCEPT !.ask = Idle, !.ren = IF @.pc = "asking" THEN Sent(k.tok) ELSE @]]
  /\ run' = [run EXCEPT !.pc = IF a = None THEN "end" ELSE "save", !.tok = a]
  /\ UNCHANGED <<server, keyring, up, sessions, chain, kept, looked, keys, queue, excused, counts>>

\* The sign-in is kept, and the one it replaces signed out, if the server can be reached;
\* or the Keychain refuses, and the new one is signed out unless an old one is there.
RunSaves(refused) ==
  LET gone == IF ~refused THEN Revoked(kept) ELSE IF kept = None THEN Family(run.tok) ELSE {} IN
  /\ run.pc = "save"
  /\ kept' = IF refused THEN kept ELSE run.tok
  /\ live' \in {live, live \ gone}
  /\ run' = [run EXCEPT !.pc = "end"]
  /\ UNCHANGED <<fam, gen, keyring, up, sessions, chain, conns, looked, keys, queue, excused, counts>>

\* The run's last part: signed out of a server the app no longer is.
RunEnds ==
  /\ run.pc = "end" /\ run' = NoRun
  /\ IF run.signedIn THEN UNCHANGED <<kept, live>>
     ELSE kept' = None /\ live' \in {live, live \ Revoked(kept)}
  /\ UNCHANGED <<fam, gen, keyring, up, sessions, chain, conns, looked, keys, queue, excused, counts>>
-----------------------------------------------------------------------------
\* What happens by itself: every request is answered or runs out of its 30 seconds, and
\* every timer fires.
Progress ==
  \/ \E b \in BOOLEAN : HealthSays(b) \/ RunStarts(b) \/ RunSaves(b)
  \/ ServerRefreshes \/ Refreshed \/ RefreshFails \/ Again
  \/ MeAnswers \/ MeFails \/ MeRefused \/ MeRefusedAgain
  \/ \E c \in C :
       \/ ServerRotates(c) \/ RotateArrives(c) \/ RotateFails(c, "refused") \/ RotateFails(c, "failed")
       \/ ServerChanges(c) \/ ChangeArrives(c) \/ ChangeFails(c)
       \/ AskGoes(c) \/ ServerShares(c) \/ AskSettles(c, TRUE) \/ AskSettles(c, FALSE)
  \/ Look \/ RunEnds

People ==
  \/ Launch \/ Kill \/ AddServer \/ SignOut \/ Block \/ EndsElsewhere \/ LookAgain
  \/ \E c \in C : Renew(c) \/ ChangePassword(c) \/ Expires(c)

Next == Progress \/ People

Spec == Init /\ [][Next]_vars

FairSpec == Spec /\ WF_vars(Progress)
-----------------------------------------------------------------------------
(* Properties                                                              *)

Requests == [pc : {"idle", "wire", "answered", "asking", "refused", "failed", "before"},
             tok : 0..MaxTokens, ans : 0..MaxTokens, gen : 0..MaxEnds + 1]
Conns == [tok : 1..MaxTokens, acc : 0..MaxEnds + 1, ren : Requests, chg : Requests,
          wants : BOOLEAN, ask : Requests, after : BOOLEAN]

\* The shape of the state; what is stored and held is a token the server gave.
TypeOK ==
  /\ live \subseteq Tokens /\ {keyring, kept} \subseteq Tokens \union {None}
  /\ gen \in 1..MaxEnds + 1
  /\ conns \in Seq(Conns) /\ \A c \in C : conns[c].tok \in Tokens
  /\ list \in C \union {0} /\ retry.api \in C \union {0} /\ chain.c \in C \union {0}
  /\ waiting \in {"none", "trying", "failed"} /\ retry.is \in {"none", "busy", "timer"}
  /\ {up, forgotten, blocked, looked, excused} \subseteq BOOLEAN

\* Nothing of the sign-in is on its way.
Still == chain.req = Idle /\ \A c \in C : ~Busy(c)

\* "The stored token is always the live one": whatever renewals, password changes, share
\* asks and kills came together, a sign-in nobody ended can be carried on with, now and by
\* the next launch, unless an answer was lost (connect, onTokens).
StoredIsLive == Still /\ ~excused /\ list # 0 => keyring \in live

\* The app signs itself out only of a sign-in that is over: never because a renewal, an
\* ask and a password change of its own crossed (#496, #820), unless an answer was lost.
OnlyEndedSignsOut ==
  [][list # 0 /\ list' = 0 /\ ~forgotten' /\ ~blocked' /\ up' => excused']_vars

\* A sign-out is the share window's too (#822): once its runs are done, none is kept for a
\* server the app is signed out of, though a run was asking for one when it happened.
ShareEnds ==
  up /\ ~SignedIn /\ keys = <<FALSE, FALSE>> /\ queue = <<>> /\ run = NoRun => kept = None

\* A server that is being tried comes back, or says why it hasn't (wait, arrive), unless
\* it was signed out of meanwhile or its sign-ins ended elsewhere: then open may return
\* without either.
TryEnds == waiting = "trying" ~> waiting # "trying" \/ forgotten \/ excused
=============================================================================
