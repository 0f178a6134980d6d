---------------------------- MODULE SessionProofs ----------------------------
(* What the sidecar's steps preserve of its session with Pinnacle, for any      *)
(* number of tokens and any limits: the breaker of the first login, the login   *)
(* clock, the refusals of the feed, and that a feed given up stays down.        *)
EXTENDS PinnacleSession, TLAPS

Worlds ==
  [token : Tokens, issued : Tokens, page : {"off", "board", "form"}, sends : Tokens,
   submitted : BOOLEAN]
Sessions ==
  [open : BOOLEAN, tasks : BOOLEAN, sess : Tokens, suffix : Tokens, user : BOOLEAN,
   ws : BOOLEAN, logged : BOOLEAN, streak : 0 .. LoginMaxFails, scored : BOOLEAN,
   locked : BOOLEAN, out : BOOLEAN, age : BOOLEAN, noted : BOOLEAN, remint : BOOLEAN]
Adapters ==
  [ready : BOOLEAN, proven : BOOLEAN, expired : BOOLEAN, gaveUp : BOOLEAN, started : BOOLEAN,
   client : {"none", "up", "stopping", "stopped"}, stray : BOOLEAN, connected : BOOLEAN,
   rejects : 0 .. AuthGiveup, remints : 0 .. RemintCap, fails : Nat, redirects : 0 .. MassLogout,
   probe : {"none", "settling", "alive", "dead"}, polling : BOOLEAN]

LEMMA Limits ==
  /\ MaxToken \in Nat /\ LoginMaxFails \in Nat /\ AuthGiveup \in Nat /\ RemintCap \in Nat
  /\ RestGiveup \in Nat /\ MassLogout \in Nat /\ MaxKnocks \in Nat
  /\ LoginMaxFails # 0 /\ AuthGiveup # 0 /\ MassLogout # 0
BY SessionAssumption, Zenon DEF SessionAssumption

LEMMA Zeros ==
  /\ 0 \in 0 .. AuthGiveup /\ 0 \in 0 .. RemintCap /\ 0 \in 0 .. MassLogout /\ 0 \in Tokens
  /\ 0 < AuthGiveup
BY Limits DEF Tokens

-----------------------------------------------------------------------------
(* The adapter's handlers.  An adapter is sound when it has its type and a feed  *)
(* that still tries has refusals left.                                           *)

AdSound(a) == a \in Adapters /\ (~a.gaveUp => a.rejects < AuthGiveup)

LEMMA ReadyTyped ==
  ASSUME NEW a \in Adapters, NEW r \in BOOLEAN
  PROVE  LET b == [a EXCEPT !.ready = r, !.proven = @ /\ r]
         IN  b \in Adapters /\ b.ready = r /\ b.gaveUp = a.gaveUp /\ b.rejects = a.rejects
<1> DEFINE p == a.proven /\ r
           b == [a EXCEPT !.ready = r, !.proven = p]
<1>1. p \in BOOLEAN
  OBVIOUS
<1> HIDE DEF p
<1>2. b \in Adapters /\ b.ready = r /\ b.gaveUp = a.gaveUp /\ b.rejects = a.rejects
  BY <1>1 DEF Adapters
<1> QED
  BY <1>2, Zenon DEF p

LEMMA RecoveredTyped ==
  ASSUME NEW a \in Adapters
  PROVE  /\ Recovered(a) \in Adapters /\ Recovered(a).ready = a.ready
         /\ Recovered(a).rejects = a.rejects /\ Recovered(a).gaveUp = FALSE
BY DEF Adapters, Recovered

LEMMA FreshTyped ==
  ASSUME NEW a \in Adapters
  PROVE  LET c == [a EXCEPT !.expired = FALSE, !.rejects = 0, !.fails = 0,
                            !.probe = IF @ = "none" THEN "settling" ELSE @]
         IN  c \in Adapters /\ c.ready = a.ready /\ c.gaveUp = a.gaveUp /\ c.rejects = 0
<1> DEFINE p == IF a.probe = "none" THEN "settling" ELSE a.probe
           c == [a EXCEPT !.expired = FALSE, !.rejects = 0, !.fails = 0, !.probe = p]
<1>1. p \in {"none", "settling", "alive", "dead"}
  BY DEF Adapters
<1> HIDE DEF p
<1>2. c \in Adapters /\ c.ready = a.ready /\ c.gaveUp = a.gaveUp /\ c.rejects = 0
  BY <1>1, Zeros DEF Adapters
<1> QED
  BY <1>2, Zenon DEF p

LEMMA RenewedTyped ==
  ASSUME NEW a \in Adapters
  PROVE  LET c == [a EXCEPT !.rejects = 0, !.remints = 0, !.expired = FALSE]
         IN  c \in Adapters /\ c.ready = a.ready /\ c.gaveUp = a.gaveUp /\ c.rejects = 0
BY Zeros DEF Adapters

\* Captured credentials: the session is ready when they are whole, and a feed that was
\* given up is let go only for a fresh session or a fresh password.
LEMMA CredsSound ==
  ASSUME NEW a, AdSound(a), NEW r \in BOOLEAN, NEW rot \in BOOLEAN, NEW pass \in BOOLEAN
  PROVE  LET d == OnBrowserCreds(a, r, rot, pass)
         IN  /\ AdSound(d) /\ d.ready = r
             /\ a.gaveUp /\ ~d.gaveUp => r /\ (~a.ready \/ rot \/ pass)
<1> DEFINE b == [a EXCEPT !.ready = r, !.proven = @ /\ r]
           fresh == r /\ (~a.ready \/ rot)
           e == IF b.gaveUp THEN Recovered(b) ELSE b
           c == IF ~fresh THEN b
                ELSE [e EXCEPT !.expired = FALSE, !.rejects = 0, !.fails = 0,
                               !.probe = IF @ = "none" THEN "settling" ELSE @]
           d == IF c.gaveUp /\ r /\ pass
                THEN [Recovered(c) EXCEPT !.rejects = 0, !.remints = 0, !.expired = FALSE]
                ELSE c
<1>0. OnBrowserCreds(a, r, rot, pass) = d
  BY Zenon DEF OnBrowserCreds
<1>1. a \in Adapters /\ a.gaveUp \in BOOLEAN
  BY DEF AdSound, Adapters
<1>2. b \in Adapters /\ b.ready = r /\ b.gaveUp = a.gaveUp /\ b.rejects = a.rejects
  BY <1>1, ReadyTyped
<1> HIDE DEF b
<1>3. e \in Adapters /\ e.ready = r
  BY <1>2, RecoveredTyped
<1> HIDE DEF e
<1>4. /\ c \in Adapters /\ c.ready = r /\ (fresh => c.rejects = 0)
      /\ ~fresh => c.gaveUp = a.gaveUp /\ c.rejects = a.rejects
  <2>1. CASE fresh
    BY <2>1, <1>3, FreshTyped
  <2>2. CASE ~fresh
    BY <2>2, <1>2
  <2> QED
    BY <2>1, <2>2
<1> HIDE DEF c
<1>5. CASE c.gaveUp /\ r /\ pass
  <2>1. Recovered(c) \in Adapters /\ Recovered(c).ready = r /\ Recovered(c).gaveUp = FALSE
    BY <1>4, RecoveredTyped
  <2>2. d \in Adapters /\ d.ready = r /\ d.gaveUp = FALSE /\ d.rejects = 0
    BY <2>1, <1>5, RenewedTyped
  <2> HIDE DEF d
  <2> QED
    BY <1>0, <1>5, <2>2, Limits DEF AdSound
<1>6. CASE ~(c.gaveUp /\ r /\ pass)
  <2>1. d = c
    BY <1>6
  <2> HIDE DEF d
  <2>2. ~c.gaveUp => c.rejects < AuthGiveup
    BY <1>4, Limits DEF AdSound
  <2> QED
    BY <1>0, <1>4, <2>1, <2>2 DEF AdSound
<1> QED
  BY <1>5, <1>6

LEMMA GiveUpSound ==
  ASSUME NEW a \in Adapters
  PROVE  AdSound(GiveUpWs(a)) /\ GiveUpWs(a).ready = a.ready /\ GiveUpWs(a).gaveUp = TRUE
<1> DEFINE s == IF a.client = "up" THEN "stopping" ELSE a.client
           b == [a EXCEPT !.gaveUp = TRUE, !.connected = FALSE, !.client = s]
<1>1. s \in {"none", "up", "stopping", "stopped"}
  BY DEF Adapters
<1> HIDE DEF s
<1>2. b \in Adapters /\ b.ready = a.ready /\ b.gaveUp = TRUE
  BY <1>1 DEF Adapters
<1>3. GiveUpWs(a) = IF a.gaveUp THEN a ELSE b
  BY Zenon DEF GiveUpWs, s
<1> HIDE DEF b
<1>4. a.gaveUp \in BOOLEAN
  BY DEF Adapters
<1> QED
  BY <1>2, <1>3, <1>4 DEF AdSound

\* A refused call never makes a session ready nor revives a feed.
Worn(a, b) == AdSound(b) /\ (b.ready => a.ready) /\ (a.gaveUp => b.gaveUp)

LEMMA DeathSound ==
  ASSUME NEW a, AdSound(a), NEW alive \in BOOLEAN
  PROVE  Worn(a, RestDeathCheck(a, alive))
<1>0. a \in Adapters /\ a.gaveUp \in BOOLEAN /\ a.ready \in BOOLEAN
  BY DEF AdSound, Adapters
<1>1. CASE alive
  <2> DEFINE b == [a EXCEPT !.fails = 0]
  <2>1. b \in Adapters /\ b.ready = a.ready /\ b.gaveUp = a.gaveUp /\ b.rejects = a.rejects
    BY <1>0 DEF Adapters
  <2>2. RestDeathCheck(a, alive) = b
    BY <1>1, Zenon DEF RestDeathCheck
  <2> HIDE DEF b
  <2> QED
    BY <2>1, <2>2 DEF Worn, AdSound
<1>2. CASE ~alive
  <2> DEFINE b == [a EXCEPT !.expired = TRUE, !.ready = FALSE, !.proven = FALSE]
  <2>1. b \in Adapters /\ b.ready = FALSE
    BY <1>0 DEF Adapters
  <2>2. RestDeathCheck(a, alive) = GiveUpWs(b)
    BY <1>2, Zenon DEF RestDeathCheck
  <2> HIDE DEF b
  <2> QED
    BY <2>1, <2>2, GiveUpSound DEF Worn
<1> QED
  BY <1>1, <1>2

\* Whatever an authed call is answered.
LEMMA AnswersSound ==
  ASSUME NEW a, AdSound(a), NEW ok \in BOOLEAN, NEW r \in Answers(a, ok)
  PROVE  Worn(a, r[1]) /\ r[2] \in BOOLEAN
<1> DEFINE alive == {a.connected} \cup IF WindowRead THEN {TRUE} ELSE {}
           refused == [a EXCEPT !.fails = @ + 1]
           led == [a EXCEPT !.redirects = @ + 1]
           reset == [led EXCEPT !.redirects = 0]
           back == [led EXCEPT !.redirects = @ - 1]
           fine == [a EXCEPT !.fails = 0]
           calm == (IF refused.fails < RestGiveup THEN {<<refused, FALSE>>}
                    ELSE {<<RestDeathCheck(refused, x), FALSE>> : x \in alive})
           burst == (IF led.redirects < MassLogout
                     THEN {<<RestDeathCheck(led, x), FALSE>> : x \in alive}
                     ELSE {<<reset, TRUE>>, <<back, FALSE>>})
<1>1. a \in Adapters /\ a.gaveUp \in BOOLEAN /\ a.ready \in BOOLEAN /\ a.connected \in BOOLEAN
  BY DEF AdSound, Adapters
<1>2. alive \subseteq BOOLEAN
  BY <1>1
<1>3. Worn(a, fine)
  BY <1>1 DEF Worn, AdSound, Adapters
<1>4. AdSound(refused) /\ refused.ready = a.ready /\ refused.gaveUp = a.gaveUp
  BY <1>1 DEF AdSound, Adapters
<1>5. led.ready = a.ready /\ led.gaveUp = a.gaveUp /\ led.redirects = a.redirects + 1
  BY <1>1 DEF Adapters
<1>6. led.redirects < MassLogout => AdSound(led)
  BY <1>1, <1>5, Limits DEF AdSound, Adapters
<1>7. Worn(a, reset)
  BY <1>1, Zeros DEF Worn, AdSound, Adapters
<1>8. Worn(a, back)
  <2> DEFINE Loose == [ready : BOOLEAN, proven : BOOLEAN, expired : BOOLEAN, gaveUp : BOOLEAN,
                       started : BOOLEAN, client : {"none", "up", "stopping", "stopped"},
                       stray : BOOLEAN, connected : BOOLEAN, rejects : 0 .. AuthGiveup,
                       remints : 0 .. RemintCap, fails : Nat, redirects : Nat,
                       probe : {"none", "settling", "alive", "dead"}, polling : BOOLEAN]
  <2>1. led \in Loose /\ led.rejects = a.rejects
    BY <1>1, Limits DEF Adapters
  <2>2. led.redirects - 1 \in 0 .. MassLogout
    BY <1>1, <1>5, Limits DEF Adapters
  <2> DEFINE m == led.redirects - 1
  <2> HIDE DEF led, m
  <2>3. [led EXCEPT !.redirects = m] \in Adapters
    BY <2>1, <2>2 DEF Adapters, m
  <2>4. /\ [led EXCEPT !.redirects = m].ready = a.ready
        /\ [led EXCEPT !.redirects = m].gaveUp = a.gaveUp
        /\ [led EXCEPT !.redirects = m].rejects = a.rejects
    BY <1>5, <2>1
  <2>5. back = [led EXCEPT !.redirects = m]
    BY Zenon DEF m
  <2> HIDE DEF back
  <2> QED
    BY <2>3, <2>4, <2>5 DEF Worn, AdSound
<1>9. Answers(a, ok) = IF ok THEN {<<fine, FALSE>>} ELSE calm \cup burst
  BY Zenon DEF Answers
<1> HIDE DEF fine, alive, refused, led, reset, back
<1>10. CASE r = <<fine, FALSE>> \/ r = <<reset, TRUE>> \/ r = <<back, FALSE>>
  <2> HIDE DEF calm, burst
  <2>1. CASE r = <<fine, FALSE>>
    BY <2>1, <1>3
  <2>2. CASE r = <<reset, TRUE>>
    BY <2>2, <1>7
  <2>3. CASE r = <<back, FALSE>>
    BY <2>3, <1>8
  <2> QED
    BY <1>10, <2>1, <2>2, <2>3
<1>11. CASE r = <<refused, FALSE>>
  BY <1>11, <1>4 DEF Worn
<1>12. CASE \E x \in alive : r = <<RestDeathCheck(refused, x), FALSE>>
  <2> PICK x \in alive : r = <<RestDeathCheck(refused, x), FALSE>>
    BY <1>12
  <2>1. Worn(refused, RestDeathCheck(refused, x))
    BY <1>2, <1>4, DeathSound
  <2> QED
    BY <2>1, <1>4 DEF Worn
<1>13. CASE \E x \in alive : r = <<RestDeathCheck(led, x), FALSE>> /\ led.redirects < MassLogout
  <2> PICK x \in alive : r = <<RestDeathCheck(led, x), FALSE>> /\ led.redirects < MassLogout
    BY <1>13
  <2>1. Worn(led, RestDeathCheck(led, x))
    BY <1>2, <1>6, DeathSound
  <2> QED
    BY <2>1, <1>5 DEF Worn
<1>14. r \in IF ok THEN {<<fine, FALSE>>} ELSE calm \cup burst
  BY <1>9, Zenon
<1>15. r = <<fine, FALSE>> \/ r \in calm \/ r \in burst
  BY <1>14, Zenon
<1>16. CASE r \in calm
  BY <1>16, <1>11, <1>12, Zenon
<1>17. CASE r \in burst
  BY <1>17, <1>10, <1>13, Zenon
<1> QED
  BY <1>10, <1>15, <1>16, <1>17, Zenon

-----------------------------------------------------------------------------
(* The venue: tokens are issued in turn, and a live token is the last one.       *)

World(w) == w \in Worlds /\ w.sends = w.issued /\ w.token \in {0, w.issued}
Onward(w, v) ==
  World(v) /\ w.issued <= v.issued /\ (v.issued = w.issued => v.token \in {0, w.token})

Alike(w, v) == v.token = w.token /\ v.issued = w.issued /\ v.sends = w.sends

LEMMA PageTyped ==
  ASSUME NEW w \in Worlds, NEW p \in {"off", "board", "form"}, NEW s \in BOOLEAN
  PROVE  /\ [w EXCEPT !.page = p, !.submitted = s] \in Worlds
         /\ Alike(w, [w EXCEPT !.page = p, !.submitted = s])
         /\ [w EXCEPT !.submitted = s, !.page = p] \in Worlds
         /\ Alike(w, [w EXCEPT !.submitted = s, !.page = p])
         /\ [w EXCEPT !.page = p] \in Worlds /\ Alike(w, [w EXCEPT !.page = p])
         /\ [w EXCEPT !.submitted = s] \in Worlds /\ Alike(w, [w EXCEPT !.submitted = s])
<1>1. /\ [w EXCEPT !.page = p, !.submitted = s] \in Worlds
      /\ Alike(w, [w EXCEPT !.page = p, !.submitted = s])
  BY DEF Worlds, Alike
<1>2. /\ [w EXCEPT !.submitted = s, !.page = p] \in Worlds
      /\ Alike(w, [w EXCEPT !.submitted = s, !.page = p])
  BY DEF Worlds, Alike
<1>3. [w EXCEPT !.page = p] \in Worlds /\ Alike(w, [w EXCEPT !.page = p])
  BY DEF Worlds, Alike
<1>4. [w EXCEPT !.submitted = s] \in Worlds /\ Alike(w, [w EXCEPT !.submitted = s])
  BY DEF Worlds, Alike
<1> QED
  BY <1>1, <1>2, <1>3, <1>4

LEMMA AlikeOnward ==
  ASSUME NEW w, World(w), NEW v \in Worlds, Alike(w, v)
  PROVE  Onward(w, v)
<1>1. w.issued \in Nat
  BY Limits DEF World, Worlds, Tokens
<1> QED
  BY <1>1 DEF Onward, World, Alike

LEMMA PageOnward ==
  ASSUME NEW w, World(w), NEW p \in {"off", "board", "form"}, NEW s \in BOOLEAN
  PROVE  /\ Onward(w, [w EXCEPT !.page = p, !.submitted = s])
         /\ Onward(w, [w EXCEPT !.page = p]) /\ Onward(w, [w EXCEPT !.submitted = s])
         /\ Onward(w, w)
<1>1. w \in Worlds /\ Alike(w, w)
  BY DEF World, Alike
<1> QED
  BY <1>1, PageTyped, AlikeOnward

LEMMA IssueOnward ==
  ASSUME NEW w, World(w), w.issued < MaxToken
  PROVE  /\ World(Issue(w)) /\ Issue(w).issued = w.issued + 1
<1> DEFINE n == w.issued + 1
           v == [w EXCEPT !.issued = n, !.token = n, !.sends = n]
<1>1. n \in Tokens
  BY Limits DEF World, Worlds, Tokens
<1>2. Issue(w) = v
  BY DEF Issue
<1> HIDE DEF n
<1>3. v \in Worlds /\ v.sends = n /\ v.token = n /\ v.issued = n
  BY <1>1 DEF World, Worlds
<1> HIDE DEF v
<1> QED
  BY <1>2, <1>3 DEF World, n

LEMMA RenewedOnward ==
  ASSUME NEW w, World(w), w.issued < MaxToken, NEW p \in {"off", "board", "form"}, NEW s \in BOOLEAN
  PROVE  /\ Onward(w, [Issue(w) EXCEPT !.page = p, !.submitted = s])
         /\ Onward(w, [Issue(w) EXCEPT !.page = p])
         /\ Onward(w, [Issue(w) EXCEPT !.submitted = s, !.page = p])
<1> DEFINE v == Issue(w)
<1>1. World(v) /\ v.issued = w.issued + 1 /\ w.issued \in Nat /\ v \in Worlds
  BY IssueOnward, Limits DEF World, Worlds, Tokens
<1> HIDE DEF v
<1>2. ASSUME NEW u \in Worlds, Alike(v, u)
      PROVE  Onward(w, u)
  BY <1>1, <1>2 DEF Onward, World, Alike
<1> QED
  BY <1>1, <1>2, PageTyped DEF v

LEMMA ReloadedOnward ==
  ASSUME NEW w, World(w), NEW v \in Reloaded(w)
  PROVE  Onward(w, v)
<1>1. v \in {[w EXCEPT !.page = p, !.submitted = FALSE] : p \in {"board", "form"}}
        => Onward(w, v)
  BY PageOnward
<1>2. w.issued < MaxToken => Onward(w, [Issue(w) EXCEPT !.page = "board", !.submitted = FALSE])
  BY RenewedOnward
<1> QED
  BY <1>1, <1>2 DEF Reloaded

-----------------------------------------------------------------------------
(* The browser session.                                                          *)

\* The breaker: until a first capture every submit is one of the streak or waits for its
\* judgement, and the streak ends in the lock.
Breaker(b, k) ==
  /\ b.locked => b.scored
  /\ ~b.logged => b.locked \/ b.streak < LoginMaxFails
  /\ ~b.logged => k <= b.streak + 1 /\ (b.scored => k <= b.streak)

\* The clock runs from a login to the report of its logout.
Clock(b) == (b.noted => ~b.age) /\ (b.out => b.noted)

\* A page that lost its socket reads the next suffix from a later token.
Suffix(b, w) ==
  /\ b.sess <= w.issued /\ b.suffix <= w.issued
  /\ b.user => b.suffix # 0
  /\ ~b.ws /\ b.user /\ w.token # 0 => b.suffix # w.issued

BrSound(b, w, k) ==
  b \in Sessions /\ (b.tasks => b.open) /\ Breaker(b, k) /\ Clock(b) /\ Suffix(b, w)

SessionInv ==
  /\ World(world) /\ BrSound(br, world, knocks) /\ knocks \in 0 .. MaxKnocks
  /\ AdSound(ad) /\ (ad.ready => br.open)

LEMMA BrTyped ==
  ASSUME NEW b \in Sessions
  PROVE  /\ b.open \in BOOLEAN /\ b.tasks \in BOOLEAN /\ b.user \in BOOLEAN /\ b.ws \in BOOLEAN
         /\ b.logged \in BOOLEAN /\ b.scored \in BOOLEAN /\ b.locked \in BOOLEAN
         /\ b.out \in BOOLEAN /\ b.age \in BOOLEAN /\ b.noted \in BOOLEAN /\ b.remint \in BOOLEAN
         /\ b.sess \in Tokens /\ b.suffix \in Tokens /\ b.streak \in 0 .. LoginMaxFails
BY DEF Sessions

LEMMA LaterWorld ==
  ASSUME NEW b, NEW w, NEW v, NEW k, World(w), BrSound(b, w, k), Onward(w, v)
  PROVE  BrSound(b, v, k)
<1>1. /\ w.issued \in Nat /\ v.issued \in Nat /\ b.sess \in Nat /\ b.suffix \in Nat
      /\ w.token \in {0, w.issued} /\ v.token \in {0, v.issued}
      /\ w.issued <= v.issued /\ (v.issued = w.issued => v.token \in {0, w.token})
  BY Limits DEF Onward, World, Worlds, BrSound, Sessions, Tokens
<1>2. Suffix(b, w)
  BY DEF BrSound
<1>3. Suffix(b, v)
  BY <1>1, <1>2 DEF Suffix
<1> QED
  BY <1>3 DEF BrSound

\* Being told of a logout, or asked for a reload, touches nothing but the clock.
Same(b, c) ==
  /\ c.open = b.open /\ c.tasks = b.tasks /\ c.sess = b.sess /\ c.suffix = b.suffix
  /\ c.user = b.user /\ c.ws = b.ws /\ c.logged = b.logged /\ c.streak = b.streak
  /\ c.scored = b.scored /\ c.locked = b.locked

LEMMA SameSound ==
  ASSUME NEW b, NEW w, NEW k, BrSound(b, w, k), NEW c \in Sessions, Same(b, c), Clock(c)
  PROVE  BrSound(c, w, k)
BY DEF BrSound, Same, Breaker, Suffix

LEMMA NotedSound ==
  ASSUME NEW b \in Sessions, Clock(b)
  PROVE  NoteLoggedOut(b) \in Sessions /\ Same(b, NoteLoggedOut(b)) /\ Clock(NoteLoggedOut(b))
<1> DEFINE c == [b EXCEPT !.out = TRUE]
           d == [[c EXCEPT !.age = FALSE] EXCEPT !.noted = TRUE]
<1>1. c \in Sessions /\ Same(b, c) /\ c.noted = b.noted /\ c.age = b.age /\ c.out = TRUE
  BY DEF Sessions, Same
<1>2. d \in Sessions /\ Same(b, d) /\ d.noted = TRUE /\ d.age = FALSE
  <2> HIDE DEF c
  <2> QED
    BY <1>1 DEF Sessions, Same
<1>3. NoteLoggedOut(b) = IF b.out THEN b ELSE IF c.noted THEN c ELSE d
  BY Zenon DEF NoteLoggedOut, NoteLoggedOutAge, NoteLoginAgeOnLogout
<1> HIDE DEF c, d
<1>4. b.out \in BOOLEAN /\ b.noted \in BOOLEAN /\ b.age \in BOOLEAN
  BY BrTyped
<1> QED
  BY <1>1, <1>2, <1>3, <1>4 DEF Clock, Same

LEMMA ToldSound ==
  ASSUME NEW b \in Sessions, Clock(b), NEW a, NEW f \in BOOLEAN
  PROVE  /\ Told(a, b) \in Sessions /\ Same(b, Told(a, b)) /\ Clock(Told(a, b))
         /\ Asked(Told(a, b), f) \in Sessions /\ Same(b, Asked(Told(a, b), f))
         /\ Clock(Asked(Told(a, b), f))
<1> DEFINE c == Told(a, b)
<1>1. c \in Sessions /\ Same(b, c) /\ Clock(c)
  BY NotedSound DEF Told, Same
<1> HIDE DEF c
<1>2. [c EXCEPT !.remint = TRUE] \in Sessions /\ Same(b, [c EXCEPT !.remint = TRUE])
      /\ Clock([c EXCEPT !.remint = TRUE])
  BY <1>1 DEF Sessions, Same, Clock
<1> QED
  BY <1>1, <1>2 DEF Asked, c

-----------------------------------------------------------------------------
(* The steps.                                                                    *)

Revived ==
  ad.gaveUp /\ ~ad'.gaveUp =>
    \/ ~br.open /\ br'.open
    \/ <<br.sess, br.suffix, br.user>> # <<br'.sess, br'.suffix, br'.user>>
Kept == SessionInv' /\ Revived

LEMMA AdTyped ==
  ASSUME NEW a \in Adapters
  PROVE  /\ a.ready \in BOOLEAN /\ a.gaveUp \in BOOLEAN /\ a.proven \in BOOLEAN
         /\ a.expired \in BOOLEAN /\ a.started \in BOOLEAN /\ a.stray \in BOOLEAN
         /\ a.connected \in BOOLEAN /\ a.polling \in BOOLEAN /\ a.rejects \in 0 .. AuthGiveup
BY DEF Adapters

\* The venue's moves and the page's reloads leave the sidecar's fields alone.
LEMMA WorldStep ==
  ASSUME SessionInv, Onward(world, world'), br' = br, ad' = ad, knocks' = knocks
  PROVE  Kept
<1>1. BrSound(br, world', knocks)
  BY LaterWorld DEF SessionInv
<1> QED
  BY <1>1 DEF SessionInv, Kept, Revived, Onward

LEMMA VenueKeeps ==
  ASSUME SessionInv, VenueLogsOut \/ VenueRotates \/ VenueAnswersLogin \/ SessionRefresh
  PROVE  Kept
<1>0. World(world)
  BY DEF SessionInv
<1>1. CASE VenueLogsOut
  <2>1. [world EXCEPT !.token = 0] \in Worlds
    BY <1>0, Zeros DEF World, Worlds
  <2>2. Onward(world, [world EXCEPT !.token = 0])
    BY <1>0, <2>1, Limits DEF Onward, World, Worlds, Tokens
  <2> QED
    BY <1>1, <2>2, WorldStep DEF VenueLogsOut
<1>2. CASE VenueRotates
  <2>1. Onward(world, [Issue(world) EXCEPT !.page = "board"])
    BY <1>0, <1>2, RenewedOnward DEF VenueRotates
  <2> QED
    BY <1>2, <2>1, WorldStep, Zenon DEF VenueRotates
<1>3. CASE VenueAnswersLogin
  <2>1. Onward(world, [world EXCEPT !.submitted = FALSE])
    BY <1>0, PageOnward
  <2>2. world.issued < MaxToken =>
          Onward(world, [Issue(world) EXCEPT !.submitted = FALSE, !.page = "board"])
    BY <1>0, RenewedOnward
  <2>3. Onward(world, world') /\ UNCHANGED <<br, ad, knocks>>
    BY <1>3, <2>1, <2>2, Zenon DEF VenueAnswersLogin
  <2> QED
    BY <2>3, WorldStep
<1>4. CASE SessionRefresh
  <2>1. Onward(world, world')
    BY <1>0, <1>4, ReloadedOnward DEF SessionRefresh
  <2> QED
    BY <1>4, <2>1, WorldStep DEF SessionRefresh
<1> QED
  BY <1>1, <1>2, <1>3, <1>4

\* A step of the adapter alone that neither revives the feed nor makes it ready.
LEMMA AdapterStep ==
  ASSUME SessionInv, Worn(ad, ad'), UNCHANGED <<world, br, knocks>>
  PROVE  Kept
BY DEF SessionInv, Kept, Revived, Worn

LEMMA AdapterKeeps ==
  ASSUME SessionInv,
         \/ OddsPolled \/ OddsSeeded \/ OnConnect \/ OnDisconnect \/ LoopStopped \/ RedirectsAge
         \/ ValidateCapture
  PROVE  Kept
<1>0. ad \in Adapters /\ AdSound(ad)
  BY DEF SessionInv, AdSound
<1> DEFINE Moved(b) == b.ready = ad.ready /\ b.gaveUp = ad.gaveUp /\ b.rejects \in {0, ad.rejects}
<1>1. ASSUME NEW b \in Adapters, Moved(b) PROVE Worn(ad, b)
  BY <1>0, <1>1, Limits DEF Worn, AdSound
<1> SUFFICES ad' \in Adapters /\ Moved(ad') /\ UNCHANGED <<world, br, knocks>>
  BY <1>1, AdapterStep
<1>2. CASE OddsPolled \/ OnDisconnect \/ LoopStopped
  BY <1>0, <1>2 DEF OddsPolled, OnDisconnect, LoopStopped, Adapters
<1>3. CASE OddsSeeded
  <2> DEFINE st == ad.stray \/ ad.client = "up"
             b == [ad EXCEPT !.started = TRUE, !.client = "up", !.stray = st]
             c == [b EXCEPT !.polling = FALSE]
             d == [ad EXCEPT !.polling = FALSE]
  <2>1. st \in BOOLEAN
    OBVIOUS
  <2> HIDE DEF st
  <2>2. b \in Adapters /\ Moved(b)
    BY <1>0, <2>1 DEF Adapters
  <2> HIDE DEF b
  <2>3. c \in Adapters /\ Moved(c)
    BY <2>2 DEF Adapters
  <2>4. d \in Adapters /\ Moved(d)
    BY <1>0 DEF Adapters
  <2>5. ad' = (IF ad.started THEN d ELSE c) /\ UNCHANGED <<world, br, knocks>>
    <3>1. CASE ad.started
      BY <1>3, <3>1, Zenon DEF OddsSeeded, b, st
    <3>2. CASE ~ad.started
      BY <1>3, <3>2, Zenon DEF OddsSeeded, StartWs, b, st
    <3> QED
      BY <3>1, <3>2
  <2> HIDE DEF c, d
  <2> QED
    BY <2>3, <2>4, <2>5
<1>4. CASE OnConnect
  BY <1>0, <1>4, Zeros DEF OnConnect, Adapters
<1>5. CASE RedirectsAge
  BY <1>0, <1>5, Zeros DEF RedirectsAge, Adapters
<1>6. CASE ValidateCapture
  <2> DEFINE p == ad.probe = "alive"
             e == ad.expired \/ ad.probe = "dead"
             b == [ad EXCEPT !.probe = "none", !.proven = p, !.expired = e]
  <2>1. p \in BOOLEAN /\ e \in BOOLEAN
    OBVIOUS
  <2>2. ad' = b /\ UNCHANGED <<world, br, knocks>>
    BY <1>6, Zenon DEF ValidateCapture
  <2> HIDE DEF p, e
  <2>3. b \in Adapters /\ Moved(b)
    BY <1>0, <2>1 DEF Adapters
  <2> HIDE DEF b
  <2> QED
    BY <2>2, <2>3
<1> QED
  BY <1>2, <1>3, <1>4, <1>5, <1>6

\* A step of the adapter that may report a logout or ask for a reload.
LEMMA ReportStep ==
  ASSUME SessionInv, Worn(ad, ad'), br' \in Sessions, Same(br, br'), Clock(br'),
         UNCHANGED <<world, knocks>>
  PROVE  Kept
<1>1. BrSound(br', world, knocks)
  BY SameSound DEF SessionInv
<1> QED
  BY <1>1 DEF SessionInv, Kept, Revived, Worn, Same

LEMMA CallKeeps ==
  ASSUME SessionInv, SessionKeepalive \/ ProbeSent
  PROVE  Kept
<1>0. AdSound(ad) /\ br \in Sessions /\ Clock(br) /\ (br.sess = world.token) \in BOOLEAN
  BY DEF SessionInv, BrSound
<1>1. CASE SessionKeepalive
  <2>1. PICK r \in Answers(ad, br.sess = world.token) :
          ad' = r[1] /\ br' = Asked(Told(r[1], br), r[2])
    BY <1>1, Zenon DEF SessionKeepalive
  <2>2. Worn(ad, r[1]) /\ r[2] \in BOOLEAN
    BY <1>0, AnswersSound
  <2>3. br' \in Sessions /\ Same(br, br') /\ Clock(br')
    BY <1>0, <2>1, <2>2, ToldSound
  <2>4. UNCHANGED <<world, knocks>>
    BY <1>1 DEF SessionKeepalive
  <2> QED
    BY <2>1, <2>2, <2>3, <2>4, ReportStep
<1>2. CASE ProbeSent
  <2> DEFINE p == IF br.sess = world.token THEN "alive" ELSE "dead"
  <2>1. PICK r \in Answers(ad, br.sess = world.token) :
          ad' = [r[1] EXCEPT !.probe = p] /\ br' = Asked(Told(r[1], br), r[2])
    BY <1>2, Zenon DEF ProbeSent
  <2>2. Worn(ad, r[1]) /\ r[2] \in BOOLEAN
    BY <1>0, AnswersSound
  <2>3. br' \in Sessions /\ Same(br, br') /\ Clock(br')
    BY <1>0, <2>1, <2>2, ToldSound
  <2>4. UNCHANGED <<world, knocks>>
    BY <1>2 DEF ProbeSent
  <2>5. p \in {"alive", "dead"}
    OBVIOUS
  <2> HIDE DEF p
  <2> DEFINE a == r[1]
  <2> HIDE DEF a
  <2>6. Worn(ad, [a EXCEPT !.probe = p])
    BY <2>2, <2>5 DEF Worn, AdSound, Adapters, a
  <2> QED
    BY <2>1, <2>3, <2>4, <2>6, ReportStep DEF a
<1> QED
  BY <1>1, <1>2

LEMMA RejectKeeps ==
  ASSUME SessionInv, OnReject
  PROVE  Kept
<1> DEFINE a == [ad EXCEPT !.rejects = @ + 1]
           t == [a EXCEPT !.rejects = 0]
           m == [a EXCEPT !.rejects = 0, !.remints = @ + 1]
           asked == [br EXCEPT !.remint = TRUE]
<1>0. /\ ad \in Adapters /\ AdSound(ad) /\ br \in Sessions /\ Clock(br)
      /\ Same(br, br) /\ ad.rejects < AuthGiveup /\ UNCHANGED <<world, knocks>>
  BY DEF SessionInv, BrSound, AdSound, OnReject, Same
<1>1. /\ a \in Adapters /\ a.ready = ad.ready /\ a.gaveUp = ad.gaveUp
      /\ a.remints = ad.remints /\ a.rejects = ad.rejects + 1
  BY <1>0, Limits DEF Adapters
<1>2. asked \in Sessions /\ Same(br, asked) /\ Clock(asked)
  BY <1>0 DEF Sessions, Same, Clock
<1>3. \/ a.rejects < AuthGiveup /\ ad' = a /\ br' = br
      \/ ad' = t /\ br' = br
      \/ a.remints < RemintCap /\ ad' = m /\ br' = asked
      \/ ad' = GiveUpWs(a) /\ br' = Told(ad', br)
  BY Zenon DEF OnReject
<1> HIDE DEF a, asked
<1>4. t \in Adapters /\ t.ready = a.ready /\ t.gaveUp = a.gaveUp /\ t.rejects = 0
  BY <1>1, Zeros DEF Adapters
<1>5. a.remints < RemintCap =>
        m \in Adapters /\ m.ready = a.ready /\ m.gaveUp = a.gaveUp /\ m.rejects = 0
  <2> SUFFICES ASSUME a.remints < RemintCap
               PROVE  m \in Adapters /\ m.ready = a.ready /\ m.gaveUp = a.gaveUp /\ m.rejects = 0
    OBVIOUS
  <2> DEFINE n == a.remints + 1
  <2>1. n \in 0 .. RemintCap
    BY <1>1, Limits DEF Adapters
  <2> HIDE DEF n
  <2>2. /\ [a EXCEPT !.rejects = 0, !.remints = n] \in Adapters
        /\ [a EXCEPT !.rejects = 0, !.remints = n].ready = a.ready
        /\ [a EXCEPT !.rejects = 0, !.remints = n].gaveUp = a.gaveUp
        /\ [a EXCEPT !.rejects = 0, !.remints = n].rejects = 0
    BY <1>1, <2>1, Zeros DEF Adapters
  <2> QED
    BY <2>2 DEF n
<1> HIDE DEF t, m
<1>6. CASE a.rejects < AuthGiveup /\ ad' = a /\ br' = br
  BY <1>0, <1>1, <1>6, ReportStep DEF Worn, AdSound
<1>7. CASE ad' = t /\ br' = br
  BY <1>0, <1>1, <1>4, <1>7, Zeros, ReportStep DEF Worn, AdSound
<1>8. CASE a.remints < RemintCap /\ ad' = m /\ br' = asked
  BY <1>0, <1>1, <1>2, <1>5, <1>8, Zeros, ReportStep DEF Worn, AdSound
<1>9. CASE ad' = GiveUpWs(a) /\ br' = Told(ad', br)
  <2>1. br' \in Sessions /\ Same(br, br') /\ Clock(br')
    BY <1>0, <1>9, ToldSound
  <2>2. Worn(ad, ad')
    BY <1>1, <1>9, GiveUpSound DEF Worn
  <2> QED
    BY <1>0, <2>1, <2>2, ReportStep
<1> QED
  BY <1>3, <1>6, <1>7, <1>8, <1>9

\* The reload that was asked for.
LEMMA RemintKeeps ==
  ASSUME SessionInv, ForceRemint
  PROVE  Kept
<1> DEFINE c == [br EXCEPT !.remint = FALSE]
<1>1. World(world) /\ BrSound(br, world, knocks) /\ br \in Sessions /\ Clock(br)
  BY DEF SessionInv, BrSound
<1>2. c \in Sessions /\ Same(br, c) /\ Clock(c)
  BY <1>1 DEF Sessions, Same, Clock
<1>3. br' = c /\ Onward(world, world') /\ ad' = ad /\ knocks' = knocks
  BY <1>1, ReloadedOnward DEF ForceRemint
<1> HIDE DEF c
<1>4. BrSound(br', world', knocks)
  BY <1>1, <1>2, <1>3, SameSound, LaterWorld
<1> QED
  BY <1>2, <1>3, <1>4 DEF SessionInv, Kept, Revived, Onward, Same

\* The login form: opened only while no token is live, sent only within the breaker.
LEMMA FormKeeps ==
  ASSUME SessionInv, OpenLoginForm
  PROVE  Kept
<1> DEFINE c == [br EXCEPT !.ws = FALSE]
<1>1. World(world) /\ BrSound(br, world, knocks) /\ br \in Sessions /\ world.token = 0
  BY DEF SessionInv, BrSound, OpenLoginForm
<1>2. c \in Sessions /\ Same(br, [c EXCEPT !.ws = br.ws]) /\ c.ws = FALSE
      /\ c.out = br.out /\ c.age = br.age /\ c.noted = br.noted
      /\ c.open = br.open /\ c.tasks = br.tasks /\ c.sess = br.sess /\ c.suffix = br.suffix
      /\ c.user = br.user /\ c.logged = br.logged /\ c.streak = br.streak
      /\ c.scored = br.scored /\ c.locked = br.locked
  BY <1>1 DEF Sessions, Same
<1>3. (br' = c \/ br' = br) /\ ad' = ad /\ knocks' = knocks
  BY DEF OpenLoginForm
<1>4. world' = [world EXCEPT !.page = "form", !.submitted = FALSE]
  BY DEF OpenLoginForm
<1>5. Onward(world, world') /\ world'.token = 0
  BY <1>1, <1>4, PageOnward DEF World, Worlds
<1> HIDE DEF c
<1>6. BrSound(c, world, knocks)
  BY <1>1, <1>2 DEF BrSound, Breaker, Clock, Suffix
<1>7. BrSound(br', world', knocks)
  BY <1>1, <1>3, <1>5, <1>6, LaterWorld
<1> QED
  BY <1>2, <1>3, <1>5, <1>7 DEF SessionInv, Kept, Revived, Onward

LEMMA SubmitKeeps ==
  ASSUME SessionInv, EnsureLoggedIn
  PROVE  Kept
<1> DEFINE c == [br EXCEPT !.scored = FALSE]
           k == IF knocks < MaxKnocks THEN knocks + 1 ELSE knocks
<1>1. /\ World(world) /\ BrSound(br, world, knocks) /\ br \in Sessions /\ knocks \in 0 .. MaxKnocks
      /\ br.scored = TRUE /\ br.locked = FALSE
  BY BrTyped DEF SessionInv, BrSound, EnsureLoggedIn
<1>2. /\ c \in Sessions /\ c.scored = FALSE /\ c.locked = FALSE
      /\ c.out = br.out /\ c.age = br.age /\ c.noted = br.noted
      /\ c.open = br.open /\ c.tasks = br.tasks /\ c.sess = br.sess /\ c.suffix = br.suffix
      /\ c.user = br.user /\ c.ws = br.ws /\ c.logged = br.logged /\ c.streak = br.streak
  BY <1>1 DEF Sessions
<1>3. br' = c /\ ad' = ad /\ knocks' = k
  BY DEF EnsureLoggedIn
<1>4. k \in 0 .. MaxKnocks /\ k <= knocks + 1 /\ knocks \in Nat
  BY <1>1, Limits
<1>5. Onward(world, world')
  BY <1>1, PageOnward DEF EnsureLoggedIn, Submitted
<1> HIDE DEF c, k
<1>6. Breaker(c, k)
  <2>1. br.streak \in Nat
    BY <1>1, Limits DEF Sessions
  <2>2. Breaker(br, knocks)
    BY <1>1 DEF BrSound
  <2> QED
    BY <1>1, <1>2, <1>4, <2>1, <2>2 DEF Breaker
<1>7. BrSound(c, world, k)
  BY <1>1, <1>2, <1>6 DEF BrSound, Clock, Suffix
<1>8. BrSound(c, world', k)
  BY <1>1, <1>5, <1>7, LaterWorld
<1> QED
  BY <1>2, <1>3, <1>4, <1>5, <1>8 DEF SessionInv, Kept, Revived, Onward

LEMMA ScoreKeeps ==
  ASSUME SessionInv, ScoreLoginAttempt
  PROVE  Kept
<1> DEFINE n == br.streak + 1
           b == [br EXCEPT !.scored = TRUE]
           c == [b EXCEPT !.streak = n]
           d == [b EXCEPT !.streak = n, !.locked = TRUE, !.tasks = FALSE]
<1>1. /\ World(world) /\ BrSound(br, world, knocks) /\ br \in Sessions /\ knocks \in Nat
      /\ br.scored = FALSE /\ br.locked = FALSE /\ br.logged \in BOOLEAN
      /\ br.tasks = TRUE /\ br.open = TRUE
  BY BrTyped, Limits DEF SessionInv, BrSound, ScoreLoginAttempt
<1>2. /\ Breaker(br, knocks) /\ br.streak \in 0 .. LoginMaxFails
  BY <1>1, BrTyped DEF BrSound
<1>3. ~br.logged => n \in 0 .. LoginMaxFails /\ knocks <= n
  BY <1>1, <1>2, Limits DEF Breaker
<1>4. /\ \/ br.logged /\ br' = b
         \/ ~br.logged /\ n < LoginMaxFails /\ br' = c
         \/ ~br.logged /\ br' = d
      /\ UNCHANGED <<world, ad, knocks>>
  <2>1. b.logged = br.logged /\ b.streak = br.streak
    BY <1>1 DEF Sessions
  <2> HIDE DEF b
  <2> QED
    BY <2>1, <1>1 DEF ScoreLoginAttempt, b
<1> DEFINE Rest(e) == /\ e.out = br.out /\ e.age = br.age /\ e.noted = br.noted
                      /\ e.open = br.open /\ e.sess = br.sess /\ e.suffix = br.suffix
                      /\ e.user = br.user /\ e.ws = br.ws /\ e.logged = br.logged
                      /\ e.scored = TRUE
<1>5. /\ b \in Sessions /\ Rest(b) /\ b.locked = FALSE /\ b.tasks = TRUE
  BY <1>1 DEF Sessions
<1> HIDE DEF n, b
<1>6. ~br.logged => c \in Sessions /\ Rest(c) /\ c.locked = FALSE /\ c.tasks = TRUE /\ c.streak = n
  BY <1>3, <1>5 DEF Sessions
<1>7. ~br.logged => d \in Sessions /\ Rest(d) /\ d.locked = TRUE /\ d.tasks = FALSE /\ d.streak = n
  BY <1>3, <1>5 DEF Sessions
<1> HIDE DEF c, d
<1>8. /\ br' \in Sessions /\ Rest(br') /\ Breaker(br', knocks)
  <2>1. CASE br.logged /\ br' = b
    BY <1>5, <2>1 DEF Breaker
  <2>2. CASE ~br.logged /\ n < LoginMaxFails /\ br' = c
    <3>1. c.scored = TRUE /\ c.streak < LoginMaxFails /\ knocks <= c.streak /\ c.locked = FALSE
          /\ c.streak \in Nat /\ knocks \in Nat
      BY <1>1, <1>3, <1>6, <2>2, Limits
    <3>2. Breaker(c, knocks)
      BY <3>1 DEF Breaker
    <3> QED
      BY <1>6, <2>2, <3>2
  <2>3. CASE ~br.logged /\ br' = d
    <3>1. d.scored = TRUE /\ knocks <= d.streak /\ d.locked = TRUE
          /\ d.streak \in Nat /\ knocks \in Nat
      BY <1>1, <1>3, <1>7, <2>3, Limits
    <3>2. Breaker(d, knocks)
      BY <3>1 DEF Breaker
    <3> QED
      BY <1>7, <2>3, <3>2
  <2> QED
    BY <1>4, <2>1, <2>2, <2>3
<1>9. BrSound(br', world, knocks)
  BY <1>1, <1>8 DEF BrSound, Clock, Suffix
<1> QED
  BY <1>4, <1>8, <1>9 DEF SessionInv, Kept, Revived

\* The window opens and closes with the adapter's hooks.
LEMMA WindowKeeps ==
  ASSUME SessionInv, Start \/ Stop
  PROVE  Kept
<1> DEFINE up == [br EXCEPT !.open = TRUE, !.tasks = TRUE]
           down == [br EXCEPT !.open = FALSE, !.tasks = FALSE]
           opening == OnSessionOpening(ad)
           shut == [ad EXCEPT !.ready = FALSE]
           Rest(e) == /\ e.out = br.out /\ e.age = br.age /\ e.noted = br.noted
                      /\ e.sess = br.sess /\ e.suffix = br.suffix /\ e.streak = br.streak
                      /\ e.user = br.user /\ e.ws = br.ws /\ e.logged = br.logged
                      /\ e.scored = br.scored /\ e.locked = br.locked
<1>1. /\ World(world) /\ BrSound(br, world, knocks) /\ br \in Sessions /\ ad \in Adapters
      /\ knocks \in 0 .. MaxKnocks /\ br.open \in BOOLEAN
  BY BrTyped DEF SessionInv, BrSound, AdSound
<1>2. up \in Sessions /\ Rest(up) /\ up.open = TRUE
  BY <1>1 DEF Sessions
<1>3. down \in Sessions /\ Rest(down) /\ down.open = FALSE /\ down.tasks = FALSE
  BY <1>1 DEF Sessions
<1>4. AdSound(opening)
  BY <1>1, Zeros DEF OnSessionOpening, AdSound, Adapters
<1>5. shut \in Adapters /\ shut.ready = FALSE
  BY <1>1 DEF Adapters
<1>6. OnSessionClosed(ad) = GiveUpWs(shut)
  BY Zenon DEF OnSessionClosed
<1> HIDE DEF up, down, opening, shut
<1>7. BrSound(up, world, knocks) /\ BrSound(down, world, knocks)
  BY <1>1, <1>2, <1>3 DEF BrSound, Breaker, Clock, Suffix
<1>8. CASE Start
  <2>1. br' = up /\ ad' = opening /\ knocks' = knocks /\ ~br.open
    BY <1>8, Zenon DEF Start, up, opening
  <2>2. Onward(world, world')
    BY <1>1, <1>8, PageOnward, ZenonT(40) DEF Start
  <2>3. BrSound(br', world', knocks)
    BY <1>1, <1>7, <2>1, <2>2, LaterWorld
  <2> QED
    BY <1>1, <1>2, <1>4, <2>1, <2>2, <2>3 DEF SessionInv, Kept, Revived, Onward
<1>9. CASE Stop
  <2>1. br' = down /\ ad' = GiveUpWs(shut) /\ knocks' = knocks
    BY <1>6, <1>9, Zenon DEF Stop, down
  <2>2. Onward(world, world')
    BY <1>1, <1>9, PageOnward DEF Stop
  <2>3. BrSound(br', world', knocks)
    BY <1>1, <1>7, <2>1, <2>2, LaterWorld
  <2>4. AdSound(ad') /\ ad'.ready = FALSE /\ ad'.gaveUp = TRUE
    BY <1>5, <2>1, GiveUpSound
  <2> QED
    BY <1>1, <2>1, <2>2, <2>3, <2>4 DEF SessionInv, Kept, Revived, Onward
<1> QED
  BY <1>8, <1>9

\* A capture with an open window: the session is ready only with whole credentials, and
\* the adapter hears of a fresh session or password only when they changed.
LEMMA EmitSound ==
  ASSUME AdSound(ad), NEW b \in Sessions, NEW c \in Sessions
  PROVE  /\ AdSound(Emit(ad, b, c))
         /\ ad.gaveUp /\ ~Emit(ad, b, c).gaveUp =>
              HasCreds(c) /\ (~ad.ready \/ <<b.sess, b.suffix>> # <<c.sess, c.suffix>>)
<1> DEFINE r == HasCreds(c)
           rot == c.sess # b.sess
           pass == c.sess # 0 /\ c.suffix # 0 /\ <<c.sess, c.suffix>> # <<b.sess, b.suffix>>
<1>1. r \in BOOLEAN /\ rot \in BOOLEAN /\ pass \in BOOLEAN
  BY BrTyped DEF HasCreds
<1>2. Emit(ad, b, c) = OnBrowserCreds(ad, r, rot, pass)
  BY Zenon DEF Emit
<1>3. rot \/ pass => <<b.sess, b.suffix>> # <<c.sess, c.suffix>>
  OBVIOUS
<1> HIDE DEF r, rot, pass
<1>4. /\ AdSound(Emit(ad, b, c))
      /\ ad.gaveUp /\ ~Emit(ad, b, c).gaveUp => r /\ (~ad.ready \/ rot \/ pass)
  <2> DEFINE d == OnBrowserCreds(ad, r, rot, pass)
  <2>1. AdSound(d) /\ (ad.gaveUp /\ ~d.gaveUp => r /\ (~ad.ready \/ rot \/ pass))
    BY <1>1, CredsSound, Zenon
  <2> QED
    BY <1>2, <2>1, Zenon
<1> QED
  BY <1>3, <1>4, Zenon DEF r

LEMMA RequestKeeps ==
  ASSUME SessionInv, OnRequest
  PROVE  Kept
<1> DEFINE c == [br EXCEPT !.sess = world.sends]
           e == NoteLoginEstablished(c)
           f == [e EXCEPT !.logged = TRUE, !.streak = 0, !.scored = TRUE, !.out = FALSE,
                          !.noted = FALSE]
           d == IF br.logged THEN c ELSE f
           Rest(x) == /\ x.open = br.open /\ x.tasks = br.tasks /\ x.user = br.user
                      /\ x.ws = br.ws /\ x.locked = br.locked /\ x.sess = world.sends
                      /\ x.suffix = br.suffix
<1>1. /\ World(world) /\ BrSound(br, world, knocks) /\ br \in Sessions /\ AdSound(ad)
      /\ knocks \in 0 .. MaxKnocks /\ br.open = TRUE /\ br.logged \in BOOLEAN
  BY BrTyped DEF SessionInv, BrSound, OnRequest
<1>2. /\ br' = d /\ world' = world
      /\ ad' = IF c # br THEN Emit(ad, br, c) ELSE ad
      /\ knocks' = IF world.sends = world.token THEN 0 ELSE knocks
  BY Zenon DEF OnRequest
<1>3. /\ c \in Sessions /\ Rest(c) /\ c.logged = br.logged /\ c.streak = br.streak
      /\ c.scored = br.scored /\ c.out = br.out /\ c.age = br.age /\ c.noted = br.noted
  BY <1>1 DEF Sessions, World, Worlds
<1>4. c # br => br.sess # world.sends
  BY <1>1 DEF Sessions
<1> HIDE DEF c
<1>5. e \in Sessions /\ Rest(e)
  BY <1>3, ZenonT(40) DEF NoteLoginEstablished, Sessions
<1> HIDE DEF e
<1>6. /\ f \in Sessions /\ Rest(f) /\ f.logged = TRUE /\ f.streak = 0 /\ f.scored = TRUE
      /\ f.out = FALSE /\ f.noted = FALSE
  <2>1. 0 \in 0 .. LoginMaxFails
    BY Limits
  <2> QED
    BY <1>5, <2>1 DEF Sessions
<1> HIDE DEF f
<1>7. d \in Sessions /\ Rest(d)
  BY <1>1, <1>3, <1>6
<1>8. knocks' \in 0 .. MaxKnocks /\ knocks' <= knocks
  BY <1>1, <1>2, Limits
<1>9. Suffix(d, world)
  <2>1. Suffix(br, world) /\ world.sends = world.issued
    BY <1>1 DEF BrSound, World
  <2>2. world.issued \in Nat
    BY <1>1, Limits DEF World, Worlds, Tokens
  <2> HIDE DEF d
  <2> QED
    BY <1>7, <2>1, <2>2 DEF Suffix
<1>10. Breaker(d, knocks') /\ Clock(d)
  <2>1. Breaker(br, knocks) /\ Clock(br) /\ br.streak \in Nat /\ knocks \in Nat /\ knocks' \in Nat
    BY <1>1, <1>8, Limits DEF BrSound, Sessions
  <2>2. CASE br.logged
    <3>1. d = c
      BY <2>2
    <3> HIDE DEF d
    <3> QED
      BY <1>3, <2>1, <2>2, <3>1 DEF Breaker, Clock
  <2>3. CASE ~br.logged
    <3>1. d = f
      BY <2>3
    <3> HIDE DEF d
    <3> QED
      BY <1>6, <3>1 DEF Breaker, Clock
  <2> QED
    BY <1>1, <2>2, <2>3
<1> HIDE DEF d
<1>11. BrSound(br', world', knocks')
  BY <1>1, <1>2, <1>7, <1>9, <1>10 DEF BrSound
<1>12. /\ AdSound(ad')
       /\ ad.gaveUp /\ ~ad'.gaveUp => br.sess # world.sends
  BY <1>1, <1>2, <1>3, <1>4, EmitSound
<1> QED
  BY <1>1, <1>2, <1>7, <1>8, <1>11, <1>12 DEF SessionInv, Kept, Revived

LEMMA SuffixKeeps ==
  ASSUME SessionInv, HandleConnectBytes \/ ProbeStorage
  PROVE  Kept
<1>1. /\ World(world) /\ BrSound(br, world, knocks) /\ br \in Sessions /\ AdSound(ad)
      /\ knocks \in 0 .. MaxKnocks /\ Suffix(br, world) /\ world.sends = world.issued
      /\ world.issued \in Nat /\ world.token \in {0, world.issued}
      /\ br.open = TRUE
  BY Limits, BrTyped DEF SessionInv, BrSound, World, Worlds, Tokens, HandleConnectBytes, ProbeStorage
<1> DEFINE Rest(x) == /\ x.open = br.open /\ x.tasks = br.tasks /\ x.locked = br.locked
                      /\ x.sess = br.sess /\ x.logged = br.logged /\ x.streak = br.streak
                      /\ x.scored = br.scored /\ x.out = br.out /\ x.age = br.age
                      /\ x.noted = br.noted
<1>2. ASSUME br' \in Sessions, Rest(br'), Suffix(br', world), UNCHANGED <<world, knocks>>,
             ad' = Emit(ad, br, br'),
             <<br.sess, br.suffix, br.user>> # <<br'.sess, br'.suffix, br'.user>>
      PROVE  Kept
  <2>1. BrSound(br', world, knocks)
    BY <1>1, <1>2 DEF BrSound, Breaker, Clock
  <2>2. AdSound(ad')
    BY <1>1, <1>2, EmitSound
  <2> QED
    BY <1>1, <1>2, <2>1, <2>2 DEF SessionInv, Kept, Revived
<1>3. CASE HandleConnectBytes
  <2> DEFINE c == [br EXCEPT !.ws = TRUE, !.user = TRUE, !.suffix = world.sends]
  <2>1. br' = c /\ ad' = Emit(ad, br, br') /\ UNCHANGED <<world, knocks>>
    BY <1>3 DEF HandleConnectBytes
  <2>2. c \in Sessions /\ Rest(c) /\ c.ws = TRUE /\ c.user = TRUE /\ c.suffix = world.sends
    BY <1>1 DEF Sessions, World, Worlds
  <2>3. world.token # 0 /\ (~br.ws \/ br.suffix # world.sends)
    BY <1>3 DEF HandleConnectBytes
  <2> HIDE DEF c
  <2>4. Suffix(c, world)
    BY <1>1, <2>2, <2>3 DEF Suffix
  <2>5. br.suffix # c.suffix \/ ~br.user
    BY <1>1, <2>2, <2>3 DEF Suffix
  <2>6. <<br.sess, br.suffix, br.user>> # <<c.sess, c.suffix, c.user>>
    BY <2>2, <2>5
  <2> QED
    BY <1>2, <2>1, <2>2, <2>4, <2>6
<1>4. CASE ProbeStorage
  <2> DEFINE c == [br EXCEPT !.suffix = br.sess]
  <2>1. /\ br' = c /\ ad' = Emit(ad, br, br') /\ UNCHANGED <<world, knocks>>
        /\ br.sess # 0 /\ br.suffix = 0
    BY <1>4 DEF ProbeStorage
  <2>2. c \in Sessions /\ Rest(c) /\ c.ws = br.ws /\ c.user = br.user /\ c.suffix = br.sess
    BY <1>1 DEF Sessions
  <2> HIDE DEF c
  <2>3. Suffix(c, world)
    BY <1>1, <2>1, <2>2 DEF Suffix
  <2> QED
    BY <1>2, <2>1, <2>2, <2>3
<1> QED
  BY <1>3, <1>4

-----------------------------------------------------------------------------
(* The session.                                                                  *)

LEMMA SessionStarts == Init => SessionInv
<1> SUFFICES ASSUME Init PROVE SessionInv
  OBVIOUS
<1>1. World(world)
  BY Zeros DEF Init, World, Worlds
<1>2. PICK age \in BOOLEAN :
        br = [open |-> FALSE, tasks |-> FALSE, sess |-> 0, suffix |-> 0, user |-> FALSE,
              ws |-> FALSE, logged |-> FALSE, streak |-> 0, scored |-> TRUE, locked |-> FALSE,
              out |-> FALSE, age |-> age, noted |-> FALSE, remint |-> FALSE]
  BY Zenon DEF Init
<1>3. br \in Sessions
  <2>1. 0 \in 0 .. LoginMaxFails
    BY Limits
  <2> QED
    BY <1>2, <2>1, Zeros DEF Sessions
<1>4. BrSound(br, world, knocks)
  <2>1. /\ br.tasks = FALSE /\ br.locked = FALSE /\ br.streak = 0 /\ br.scored = TRUE
        /\ br.noted = FALSE /\ br.out = FALSE /\ br.sess = 0 /\ br.suffix = 0 /\ br.user = FALSE
        /\ world.issued = 0 /\ knocks = 0
    BY <1>2 DEF Init
  <2>2. Breaker(br, knocks) /\ Clock(br) /\ Suffix(br, world)
    BY <2>1, Limits DEF Breaker, Clock, Suffix
  <2> QED
    BY <1>3, <2>1, <2>2 DEF BrSound
<1>5. AdSound(ad) /\ ad.ready = FALSE
  BY Zeros DEF Init, AdSound, Adapters
<1> QED
  BY <1>1, <1>4, <1>5, Limits DEF SessionInv, Init

LEMMA SessionMoves == SessionInv /\ [Next]_vars => Kept
<1> SUFFICES ASSUME SessionInv, [Next]_vars PROVE Kept
  OBVIOUS
<1>1. CASE VenueLogsOut \/ VenueRotates \/ VenueAnswersLogin \/ SessionRefresh
  BY <1>1, VenueKeeps
<1>2. CASE OnRequest
  BY <1>2, RequestKeeps
<1>3. CASE HandleConnectBytes \/ ProbeStorage
  BY <1>3, SuffixKeeps
<1>4. CASE ForceRemint
  BY <1>4, RemintKeeps
<1>5. CASE OpenLoginForm
  BY <1>5, FormKeeps
<1>6. CASE EnsureLoggedIn
  BY <1>6, SubmitKeeps
<1>7. CASE ScoreLoginAttempt
  BY <1>7, ScoreKeeps
<1>8. CASE Start \/ Stop
  BY <1>8, WindowKeeps
<1>9. CASE \/ OddsPolled \/ OddsSeeded \/ OnConnect \/ OnDisconnect \/ LoopStopped
           \/ RedirectsAge \/ ValidateCapture
  BY <1>9, AdapterKeeps
<1>10. CASE OnReject
  BY <1>10, RejectKeeps
<1>11. CASE SessionKeepalive \/ ProbeSent
  BY <1>11, CallKeeps
<1>12. CASE UNCHANGED vars
  BY <1>12 DEF vars, SessionInv, Kept, Revived
<1> QED
  BY <1>1, <1>2, <1>3, <1>4, <1>5, <1>6, <1>7, <1>8, <1>9, <1>10, <1>11, <1>12, Zenon DEF Next

LEMMA SessionImplies == SessionInv => SessionSound
<1> SUFFICES ASSUME SessionInv PROVE SessionSound
  OBVIOUS
<1>1. world.issued \in Nat /\ br \in Sessions /\ ad \in Adapters /\ Breaker(br, knocks)
  BY Limits DEF SessionInv, World, Worlds, Tokens, BrSound, AdSound
<1>2. TypeOK
  <2>1. /\ world \in Worlds /\ world.sends <= world.issued /\ world.token \in {0, world.issued}
        /\ br.sess <= world.issued /\ knocks \in 0 .. MaxKnocks
    BY <1>1 DEF SessionInv, World, BrSound, Suffix
  <2> QED
    BY <1>1, <2>1, Zenon DEF TypeOK, Worlds, Sessions, Adapters
<1>3. FirstLoginBounded
  <2>1. br.streak \in 0 .. LoginMaxFails /\ knocks \in Nat /\ br.scored \in BOOLEAN
    BY <1>1, BrTyped, Limits DEF SessionInv
  <2> QED
    BY <1>1, <2>1, Limits DEF FirstLoginBounded, Breaker
<1>4. LogoutStopsClock
  BY DEF SessionInv, BrSound, Clock, LogoutStopsClock
<1>5. RefusalsBounded /\ DarkIsDark
  BY DEF SessionInv, AdSound, RefusalsBounded, DarkIsDark, FeedLive
<1> QED
  BY <1>2, <1>3, <1>4, <1>5 DEF SessionSound

\* SessionSound: whatever the browser captures, the venue answers and the operator does,
\* the credentials are not submitted more often than the breaker allows until a first
\* session is captured, a reported logout leaves no login clock, a feed that still tries
\* has refusals left, and nothing reads as a live feed while the window is closed.
THEOREM SessionHeld == Spec => []SessionSound
<1>1. SessionInv /\ [Next]_vars => SessionInv'
  BY SessionMoves DEF Kept
<1>2. Spec => []SessionInv
  BY <1>1, SessionStarts, PTL DEF Spec
<1> QED
  BY <1>2, SessionImplies, PTL

\* DeadStaysDown: no answer, connection or verdict that comes late revives a feed that was
\* given up: only another session, suffix or account, or a new window does.
THEOREM DeadKeptDown == Spec => DeadStaysDown
<1> DEFINE Down ==
      ad.gaveUp /\ ~ad'.gaveUp =>
        \/ ~br.open /\ br'.open
        \/ <<br.sess, br.suffix, br.user>> # <<br'.sess, br'.suffix, br'.user>>
<1>1. SessionInv /\ [Next]_vars => SessionInv' /\ [Down]_vars
  BY SessionMoves DEF Kept, Revived
<1>2. Spec => [][Down]_vars
  BY <1>1, SessionStarts, PTL DEF Spec
<1> QED
  BY <1>2, PTL DEF DeadStaysDown
=============================================================================
