---------------------------- MODULE BetInAsiaFeed -----------------------------
(* The BetInAsia feed (betinasia_ws.py): the books a price frame leaves, the    *)
(* orders an "api" frame leaves, and, in the direct transport, the socket with  *)
(* its subscriptions and its session.  In the browser transport the feed opens  *)
(* nothing: the page's own frames are handed to it (betinasia_observer.py).     *)
EXTENDS Integers, FiniteSets

CONSTANTS Events,    \* matches
          MaxFaults  \* bound: failures of the socket, of a send, of the session, of a login

ASSUME FeedAssumption == IsFiniteSet(Events) /\ MaxFaults \in Nat

VARIABLES
  mode,   \* the transport: "browser" or "direct"
  book,   \* for each match its board price; 0: no market, or pulled
  conn    \* the direct transport: socket, session, subscriptions

Prices == 1 .. 2
Quiet == [up |-> FALSE, ready |-> FALSE, broken |-> FALSE, session |-> "none",
          subs |-> {}, queue |-> {}, server |-> {}, faults |-> 0]

FeedInit ==
  /\ mode \in {"browser", "direct"}
  /\ book = [e \in Events |-> 0]
  /\ conn = [Quiet EXCEPT !.session = IF mode = "direct" THEN "live" ELSE "none"]

\* _on_offers: a market's prices replace what was there, a null pulls it.
OnOffers(e, p) == book' = [book EXCEPT ![e] = p]

Fault == conn.faults < MaxFaults
Direct == mode = "direct"

(* ---- subscribing: watch, _send_watch -------------------------------------- *)
\* A batch that cannot be sent is logged and dropped: the socket is broken then.
Sent(c, es) == [c EXCEPT !.server = @ \cup es]
Lost(c) == [c EXCEPT !.broken = TRUE, !.faults = @ + 1]

\* What a poll of the odds names is remembered, and sent when there is a socket.
Watch(e) ==
  /\ Direct /\ e \notin conn.subs
  /\ LET c == [conn EXCEPT !.subs = @ \cup {e}] IN
       \/ conn' = IF conn.up /\ ~conn.broken THEN Sent(c, {e}) ELSE c
       \/ conn.up /\ Fault /\ conn' = Lost(c)
  /\ UNCHANGED <<mode, book>>

(* ---- the socket: _run ------------------------------------------------------ *)
Connect ==
  /\ Direct /\ ~conn.up /\ conn.session = "live"
  /\ conn' = [conn EXCEPT !.up = TRUE, !.ready = FALSE, !.broken = FALSE, !.server = {}, !.queue = {}]
  /\ UNCHANGED <<mode, book>>

\* Everything ever watched is read under the lock and sent again, in batches.
Resubscribe ==
  /\ Direct /\ conn.up /\ ~conn.ready
  /\ conn' = [conn EXCEPT !.ready = TRUE, !.queue = conn.subs]
  /\ UNCHANGED <<mode, book>>

SendBatch(e) ==
  /\ Direct /\ conn.up /\ e \in conn.queue /\ ~conn.broken
  /\ \/ conn' = [Sent(conn, {e}) EXCEPT !.queue = @ \ {e}]
     \/ Fault /\ conn' = [Lost(conn) EXCEPT !.queue = {}]
  /\ UNCHANGED <<mode, book>>

\* The reader ends with its socket, or the venue with the session.
Closed(s) ==
  /\ Direct /\ conn.up /\ (conn.broken \/ Fault)
  /\ conn' = [conn EXCEPT !.up = FALSE, !.ready = FALSE, !.server = {}, !.queue = {}, !.session = s,
                          !.faults = IF conn.broken THEN @ ELSE @ + 1]
  /\ UNCHANGED <<mode, book>>
Disconnected == Closed(conn.session) \/ (Fault /\ Closed("dead"))

\* validate_session, then login: before every new attempt.
\* Mutant: the dead session is tried again.
MutRelogin == FALSE /\ UNCHANGED <<mode, book, conn>>
Relogin ==
  /\ Direct /\ ~conn.up /\ conn.session = "dead"
  /\ \/ conn' = [conn EXCEPT !.session = "live"]
     \/ Fault /\ conn' = [conn EXCEPT !.faults = @ + 1]
  /\ UNCHANGED <<mode, book>>

Push(e, p) ==
  /\ Direct /\ conn.up /\ e \in conn.server
  /\ OnOffers(e, p)
  /\ UNCHANGED <<mode, conn>>

FeedNext ==
  \/ \E e \in Events : Watch(e) \/ SendBatch(e) \/ \E p \in Prices \cup {0} : Push(e, p)
  \/ Connect \/ Resubscribe \/ Disconnected \/ Relogin

FeedVars == <<mode, book, conn>>
FeedFair ==
  /\ WF_FeedVars(Connect) /\ WF_FeedVars(Resubscribe) /\ WF_FeedVars(Relogin)
  /\ WF_FeedVars(conn.broken /\ Disconnected)
  /\ \A e \in Events : WF_FeedVars(SendBatch(e))

FeedTypeOK ==
  /\ mode \in {"browser", "direct"} /\ book \in [Events -> Prices \cup {0}]
  /\ conn.session \in {"none", "live", "dead"} /\ conn.server \subseteq conn.subs
  /\ conn.queue \subseteq conn.subs /\ conn.faults \in 0 .. MaxFaults

\* What was ever asked for is subscribed, to be sent, or waits for the next socket: it
\* is nowhere forgotten while the socket stands (watch against _run's resubscription).
NothingForgotten ==
  conn.up /\ conn.ready /\ ~conn.broken => conn.subs \subseteq conn.server \cup conn.queue

\* A match the host polls is subscribed in the end, whatever failed in between: the
\* socket, a send, the session, a login (_run's loop).
PolledIsWatched == \A e \in Events : (e \in conn.subs) ~> (e \in conn.server)
===============================================================================
