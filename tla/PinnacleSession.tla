--------------------------- MODULE PinnacleSession ---------------------------
(* How the sidecar holds the account's session with Pinnacle.  Two objects     *)
(* share one event loop: PinnacleBrowserSession (pinnacle_session.py) captures *)
(* the credentials the page sends, reloads the page and submits the login      *)
(* form; the adapter (pinnacle_adapter.py) proves what was captured, runs the  *)
(* MQTT feed with it and decides from refused calls that it is dead.           *)
(* Tokens are numbered as the venue issues them, 0 stands for none; the suffix *)
(* of the feed's password is numbered by the token it was issued with.  Every  *)
(* clock (cooldown, grace, throttle) is a choice of the step it delays.        *)
EXTENDS Integers, FiniteSets

CONSTANTS MaxToken,       \* bound: tokens the venue issues
          LoginMaxFails,  \* PINNACLE_LOGIN_MAX_FAILS
          AuthGiveup,     \* refused CONNECTs before the feed stops retrying
          RemintCap,      \* reloads one outage of the feed may ask for
          RestGiveup,     \* refused authed calls before a death check
          MassLogout,     \* guest redirects that make a burst
          WindowRead,     \* the page's own socket is read as well
          MaxKnocks       \* bound: submits counted in knocks

ASSUME SessionAssumption ==
  /\ {MaxToken, LoginMaxFails, AuthGiveup, RestGiveup, MassLogout, MaxKnocks} \subseteq Nat \ {0}
  /\ RemintCap \in Nat
  /\ WindowRead \in BOOLEAN

VARIABLES
  world,   \* the venue's token, tokens issued, the page, what it replays
  br,      \* the browser session's fields
  ad,      \* the adapter's session fields
  knocks   \* submits since a live session was last captured (history)

vars == <<world, br, ad, knocks>>
Tokens == 0 .. MaxToken

Init ==
  /\ world = [token |-> 0, issued |-> 0, page |-> "off", sends |-> 0, submitted |-> FALSE]
  /\ \E age \in BOOLEAN :      \* the login stamp of an earlier run, if there is one
       br = [open |-> FALSE, tasks |-> FALSE, sess |-> 0, suffix |-> 0, user |-> FALSE,
             ws |-> FALSE, logged |-> FALSE, streak |-> 0, scored |-> TRUE, locked |-> FALSE,
             out |-> FALSE, age |-> age, noted |-> FALSE, remint |-> FALSE]
  /\ ad = [ready |-> FALSE, proven |-> FALSE, expired |-> FALSE, gaveUp |-> FALSE,
           started |-> FALSE, client |-> "none", stray |-> FALSE, connected |-> FALSE,
           rejects |-> 0, remints |-> 0, fails |-> 0, redirects |-> 0,
           probe |-> "none", polling |-> FALSE]
  /\ knocks = 0

(* ---- the venue and the operator ------------------------------------------ *)
Issue(w) == [w EXCEPT !.issued = @ + 1, !.token = w.issued + 1, !.sends = w.issued + 1]

VenueLogsOut ==
  /\ world.token # 0
  /\ world' = [world EXCEPT !.token = 0]
  /\ UNCHANGED <<br, ad, knocks>>

\* The page renews its token by itself, or the operator signs in by hand.
VenueRotates ==
  /\ world.page # "off" /\ world.issued < MaxToken
  /\ world' = [Issue(world) EXCEPT !.page = "board"]
  /\ UNCHANGED <<br, ad, knocks>>

VenueAnswersLogin ==
  /\ world.submitted
  /\ \/ world' = [world EXCEPT !.submitted = FALSE]
     \/ /\ world.issued < MaxToken
        /\ world' = [Issue(world) EXCEPT !.submitted = FALSE, !.page = "board"]
  /\ UNCHANGED <<br, ad, knocks>>

(* ---- the adapter's handlers, as functions of its fields ------------------ *)
\* A feed that stopped for good is let go: the next /odds starts another.
Recovered(a) == [a EXCEPT !.gaveUp = FALSE, !.started = FALSE]

\* on_creds: fresh: the session became ready or its token changed.
OnBrowserCreds(a, ready, rotated, passChanged) ==
  LET fresh == ready /\ (~a.ready \/ rotated)
      b == [a EXCEPT !.ready = ready, !.proven = @ /\ ready]
      c == IF ~fresh THEN b
           ELSE [(IF b.gaveUp THEN Recovered(b) ELSE b) EXCEPT
                   !.expired = FALSE, !.rejects = 0, !.fails = 0,
                   !.probe = IF @ = "none" THEN "settling" ELSE @]
  IN IF c.gaveUp /\ ready /\ passChanged
     THEN [Recovered(c) EXCEPT !.rejects = 0, !.remints = 0, !.expired = FALSE]
     ELSE c

\* The client's network thread is told to stop from another thread.
GiveUpWs(a) ==
  IF a.gaveUp THEN a
  ELSE [a EXCEPT !.gaveUp = TRUE, !.connected = FALSE,
                 !.client = IF @ = "up" THEN "stopping" ELSE @]

OnSessionOpening(a) ==
  [a EXCEPT !.gaveUp = FALSE, !.started = FALSE, !.expired = FALSE, !.rejects = 0, !.fails = 0]
OnSessionClosed(a) == GiveUpWs([a EXCEPT !.ready = FALSE])

\* authed REST is refused: while a socket is up this is only a stale replay.
RestDeathCheck(a, alive) ==
  IF alive THEN [a EXCEPT !.fails = 0]
  ELSE GiveUpWs([a EXCEPT !.expired = TRUE, !.ready = FALSE, !.proven = FALSE])

StartWs(a) ==
  [a EXCEPT !.started = TRUE, !.client = "up", !.stray = @ \/ a.client = "up"]

(* ---- the browser session's handlers --------------------------------------- *)
HasCreds(b) == b.sess # 0 /\ b.user /\ b.suffix # 0
Emit(a, b, c) ==        \* c: the browser session after the capture
  OnBrowserCreds(a, HasCreds(c), c.sess # b.sess,
                 c.sess # 0 /\ c.suffix # 0 /\ <<c.sess, c.suffix>> # <<b.sess, b.suffix>>)

\* The login's age is measured once, when a logout is first reported.
NoteLoginAgeOnLogout(b) == [b EXCEPT !.age = FALSE]
NoteLoggedOutAge(b) ==
  IF b.noted THEN b ELSE [NoteLoginAgeOnLogout(b) EXCEPT !.noted = TRUE]
NoteLoggedOut(b) == IF b.out THEN b ELSE NoteLoggedOutAge([b EXCEPT !.out = TRUE])

\* The feed stops uncleanly: the login watcher is told.
Told(a, b) == IF ~ad.gaveUp /\ a.gaveUp THEN NoteLoggedOut(b) ELSE b

\* A submit of ours was followed by a capture: the login's clock starts.
NoteLoginEstablished(b) == IF b.scored THEN b ELSE [b EXCEPT !.age = TRUE]

\* A request of the page with its x-session.  Only the first one ever captured
\* counts as a login: it clears the breaker and the report of a logout.
OnRequest ==
  /\ br.open /\ world.sends # 0
  /\ LET c == [br EXCEPT !.sess = world.sends]
         d == IF br.logged THEN c
              ELSE [NoteLoginEstablished(c) EXCEPT !.logged = TRUE, !.streak = 0,
                                                   !.scored = TRUE, !.out = FALSE, !.noted = FALSE]
     IN /\ c # br \/ d # c
        /\ br' = d
        /\ ad' = IF c # br THEN Emit(ad, br, c) ELSE ad
        /\ knocks' = IF world.sends = world.token THEN 0 ELSE knocks
  /\ UNCHANGED world

\* The page opens its odds socket, which a logged-out one does not do: the
\* CONNECT carries the account and the suffix.
HandleConnectBytes ==
  /\ br.open /\ world.page = "board" /\ world.token # 0
  /\ ~br.ws \/ br.suffix # world.sends
  /\ br' = [br EXCEPT !.ws = TRUE, !.user = TRUE, !.suffix = world.sends]
  /\ ad' = Emit(ad, br, br')
  /\ UNCHANGED <<world, knocks>>

\* Until the session is captured the suffix is looked for in the page's storage.
ProbeStorage ==
  /\ br.tasks /\ ~HasCreds(br) /\ ~br.ws
  /\ br.sess # 0 /\ br.sess = world.sends /\ br.suffix = 0
  /\ br' = [br EXCEPT !.suffix = br.sess]
  /\ ad' = Emit(ad, br, br')
  /\ UNCHANGED <<world, knocks>>

Reloaded(w) ==     \* a reload keeps, renews or has lost the session
  {[w EXCEPT !.page = p, !.submitted = FALSE] :
      p \in IF w.token = 0 THEN {"board", "form"} ELSE {"board"}}
  \cup (IF w.token # 0 /\ w.issued < MaxToken
        THEN {[Issue(w) EXCEPT !.page = "board", !.submitted = FALSE]} ELSE {})

\* The session-refresh loop (what defers it is in PinnacleBets).
SessionRefresh ==
  /\ br.tasks /\ world.page # "off"
  /\ world' \in Reloaded(world)
  /\ UNCHANGED <<br, ad, knocks>>

\* The reload a refused CONNECT or a burst of redirects asked for.
ForceRemint ==
  /\ br.remint /\ world.page # "off"
  /\ br' = [br EXCEPT !.remint = FALSE]
  /\ world' \in Reloaded(world)
  /\ UNCHANGED <<ad, knocks>>

\* No form on the page: a LOG IN control, or a logout reported by the REST side
\* (which first goes to the login page), may bring one up.
OpenLoginForm ==
  /\ br.tasks /\ world.page = "board" /\ ~br.locked
  /\ \/ world.token = 0 /\ br' = [br EXCEPT !.ws = FALSE]
     \/ world.token = 0 /\ br.out /\ br' = br
  /\ world' = [world EXCEPT !.page = "form", !.submitted = FALSE]
  /\ UNCHANGED <<ad, knocks>>

\* The form is sent, or autofill left it empty and there is nothing to type.
Submitted(w) == {[w EXCEPT !.submitted = TRUE], w}

\* The form is up and nothing says the session is live.  The cooldown between
\* two submits is longer than the time after which the first one is judged.
EnsureLoggedIn ==
  /\ br.tasks /\ world.page = "form" /\ br.scored /\ ~br.locked
  /\ br' = [br EXCEPT !.scored = FALSE]
  /\ world' \in Submitted(world)
  /\ knocks' = IF knocks < MaxKnocks THEN knocks + 1 ELSE knocks
  /\ UNCHANGED ad

\* Mutant: the last failure the breaker allows is still retried.
MutScoreLoginAttempt ==
  /\ br.tasks /\ ~br.scored /\ ~br.locked
  /\ br' = IF br.logged \/ br.streak >= LoginMaxFails
           THEN [br EXCEPT !.scored = TRUE, !.locked = ~br.logged]
           ELSE [br EXCEPT !.scored = TRUE, !.streak = @ + 1]
  /\ UNCHANGED <<world, ad, knocks>>
\* The last submit is judged.  The breaker's stop() cancels the task it runs in,
\* so the loops end and the window stays.
ScoreLoginAttempt ==
  /\ br.tasks /\ ~br.scored /\ ~br.locked
  /\ LET b == [br EXCEPT !.scored = TRUE]
     IN br' = IF b.logged THEN b
              ELSE IF b.streak + 1 < LoginMaxFails THEN [b EXCEPT !.streak = @ + 1]
              ELSE [b EXCEPT !.streak = @ + 1, !.locked = TRUE, !.tasks = FALSE]
  /\ UNCHANGED <<world, ad, knocks>>

\* The schedule opens and closes the browser, with the adapter's two hooks.
Start ==
  /\ ~br.open
  /\ br' = [br EXCEPT !.open = TRUE, !.tasks = TRUE]
  /\ world' \in {[world EXCEPT !.page = p] : p \in {"board"} \cup IF world.token = 0 THEN {"form"} ELSE {}}
  /\ ad' = OnSessionOpening(ad)
  /\ UNCHANGED knocks
Stop ==
  /\ br.open
  /\ br' = [br EXCEPT !.open = FALSE, !.tasks = FALSE]
  /\ world' = [world EXCEPT !.page = "off", !.submitted = FALSE]
  /\ ad' = OnSessionClosed(ad)
  /\ UNCHANGED knocks

(* ---- the adapter ----------------------------------------------------------- *)
\* /odds seeds the new leagues first, then starts the feed if none was started.
OddsPolled ==
  /\ ad.ready /\ ~ad.started /\ ~ad.polling
  /\ ad' = [ad EXCEPT !.polling = TRUE]
  /\ UNCHANGED <<world, br, knocks>>
OddsSeeded ==
  /\ ad.polling
  /\ ad' = [(IF ad.started THEN ad ELSE StartWs(ad)) EXCEPT !.polling = FALSE]
  /\ UNCHANGED <<world, br, knocks>>

\* The client's thread reports a CONNECT: accepted, refused, or not answered.
WsAccepted == world.token # 0 /\ br.sess = world.token /\ br.suffix = world.token
\* Mutant: any connection revives the feed.
MutOnConnect ==
  /\ ad.client \in {"up", "stopping"} \/ ad.stray
  /\ ~ad.connected /\ WsAccepted
  /\ ad' = [ad EXCEPT !.connected = TRUE, !.gaveUp = FALSE, !.rejects = 0, !.remints = 0]
  /\ UNCHANGED <<world, br, knocks>>
OnConnect ==
  /\ ad.client \in {"up", "stopping"} \/ ad.stray
  /\ ~ad.connected /\ WsAccepted
  /\ ad' = [ad EXCEPT !.connected = TRUE, !.rejects = 0, !.remints = 0]
  /\ UNCHANGED <<world, br, knocks>>
OnReject ==
  /\ ~ad.connected /\ ad.rejects < AuthGiveup
  /\ \/ ad.client \in {"up", "stopping"} /\ ~WsAccepted
     \/ ad.stray
  /\ LET a == [ad EXCEPT !.rejects = @ + 1] IN
       IF a.rejects < AuthGiveup THEN ad' = a /\ br' = br
       ELSE IF br.sess # 0 /\ a.remints < RemintCap
       THEN \/ ad' = [a EXCEPT !.rejects = 0] /\ br' = br               \* throttled
            \/ /\ ad' = [a EXCEPT !.rejects = 0, !.remints = @ + 1]
               /\ br' = [br EXCEPT !.remint = TRUE]
       ELSE ad' = GiveUpWs(a) /\ br' = Told(ad', br)
  /\ UNCHANGED <<world, knocks>>
OnDisconnect ==
  /\ ad.connected
  /\ ad' = [ad EXCEPT !.connected = FALSE]
  /\ UNCHANGED <<world, br, knocks>>
LoopStopped ==      \* loop_stop() has run: no callback fires any more
  /\ ad.client = "stopping"
  /\ ad' = [ad EXCEPT !.client = "stopped"]
  /\ UNCHANGED <<world, br, knocks>>

\* An authed call is answered: 200, a refusal, or a redirect to the guest side.
\* {the adapter's fields, whether a re-login is asked for}
Answers(a, ok) ==
  LET alive == {a.connected} \cup IF WindowRead THEN {TRUE} ELSE {}
      refused == [a EXCEPT !.fails = @ + 1]
      led == [a EXCEPT !.redirects = @ + 1]
  IN IF ok THEN {<<[a EXCEPT !.fails = 0], FALSE>>}
     ELSE (IF refused.fails < RestGiveup THEN {<<refused, FALSE>>}
           ELSE {<<RestDeathCheck(refused, x), FALSE>> : x \in alive})
          \cup (IF led.redirects < MassLogout THEN {<<RestDeathCheck(led, x), FALSE>> : x \in alive}
                ELSE {<<[led EXCEPT !.redirects = 0], TRUE>>, <<[led EXCEPT !.redirects = @ - 1], FALSE>>})
Asked(b, force) == IF force THEN [b EXCEPT !.remint = TRUE] ELSE b

\* The keepalive's re-fetch of a league, held until the session is proven.
SessionKeepalive ==
  /\ ad.started /\ ~ad.gaveUp /\ ad.proven
  /\ \E r \in Answers(ad, br.sess = world.token) :
       ad' = r[1] /\ br' = Asked(Told(r[1], br), r[2])
  /\ UNCHANGED <<world, knocks>>
RedirectsAge ==
  /\ ad.redirects > 0
  /\ ad' = [ad EXCEPT !.redirects = 0]
  /\ UNCHANGED <<world, br, knocks>>

\* The probe of a captured session: the wallet is asked once the site settled,
\* and the verdict is written when the answer is back.
ProbeSent ==
  /\ ad.probe = "settling"
  /\ \E r \in Answers(ad, br.sess = world.token) :
       /\ ad' = [r[1] EXCEPT !.probe = IF br.sess = world.token THEN "alive" ELSE "dead"]
       /\ br' = Asked(Told(r[1], br), r[2])
  /\ UNCHANGED <<world, knocks>>
ValidateCapture ==
  /\ ad.probe \in {"alive", "dead"}
  /\ ad' = [ad EXCEPT !.probe = "none", !.proven = ad.probe = "alive",
                      !.expired = @ \/ ad.probe = "dead"]
  /\ UNCHANGED <<world, br, knocks>>

Next ==
  \/ VenueLogsOut \/ VenueRotates \/ VenueAnswersLogin
  \/ OnRequest \/ HandleConnectBytes \/ ProbeStorage
  \/ SessionRefresh \/ ForceRemint \/ OpenLoginForm \/ EnsureLoggedIn \/ ScoreLoginAttempt
  \/ Start \/ Stop
  \/ OddsPolled \/ OddsSeeded \/ OnConnect \/ OnReject \/ OnDisconnect \/ LoopStopped
  \/ SessionKeepalive \/ RedirectsAge \/ ProbeSent \/ ValidateCapture

Spec == Init /\ [][Next]_vars

(* ---- properties ------------------------------------------------------------ *)
TypeOK ==
  /\ world \in [token : Tokens, issued : Tokens, page : {"off", "board", "form"},
                sends : Tokens, submitted : BOOLEAN]
  /\ world.sends <= world.issued /\ world.token \in {0, world.issued}
  /\ br \in [open : BOOLEAN, tasks : BOOLEAN, sess : Tokens, suffix : Tokens, user : BOOLEAN,
             ws : BOOLEAN, logged : BOOLEAN, streak : 0 .. LoginMaxFails, scored : BOOLEAN,
             locked : BOOLEAN, out : BOOLEAN, age : BOOLEAN, noted : BOOLEAN, remint : BOOLEAN]
  /\ ad \in [ready : BOOLEAN, proven : BOOLEAN, expired : BOOLEAN, gaveUp : BOOLEAN,
             started : BOOLEAN, client : {"none", "up", "stopping", "stopped"},
             stray : BOOLEAN, connected : BOOLEAN, rejects : 0 .. AuthGiveup,
             remints : 0 .. RemintCap, fails : Nat, redirects : 0 .. MassLogout,
             probe : {"none", "settling", "alive", "dead"}, polling : BOOLEAN]
  /\ br.sess <= world.issued /\ knocks \in 0 .. MaxKnocks

\* Until a session has been captured the credentials are not submitted more
\* often than the breaker allows.
FirstLoginBounded == ~br.logged => knocks <= LoginMaxFails

\* A logout that was reported leaves no login clock running: the age the next
\* logout is measured with is never that of an earlier login.
LogoutStopsClock == br.out => ~br.age

\* The venue does not see a feed that keeps offering a refused password: a feed
\* that is still trying has fewer refusals behind it than it may have.
RefusalsBounded == ~ad.gaveUp => ad.rejects < AuthGiveup

\* A feed that stopped because the session died comes back only with other
\* credentials or with a new browser window, never by itself.
DeadStaysDown ==
  [][ad.gaveUp /\ ~ad'.gaveUp =>
       \/ ~br.open /\ br'.open
       \/ <<br.sess, br.suffix, br.user>> # <<br'.sess, br'.suffix, br'.user>>]_vars

\* With no window open nothing reads as a live feed (_feed_live), whatever the
\* client's thread still reports.
FeedLive == ad.ready /\ ~ad.expired /\ ad.connected
DarkIsDark == ~br.open => ~FeedLive

\* Neither the login nor the feed hammers the venue, and neither survives its session.
SessionSound ==
  TypeOK /\ FirstLoginBounded /\ LogoutStopsClock /\ RefusalsBounded /\ DarkIsDark
=============================================================================
