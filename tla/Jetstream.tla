----------------------------- MODULE Jetstream -----------------------------
(***************************************************************************)
(* subscribe() of src/static/jetstream.js: one WebSocket subscription that *)
(* is to survive failures, hidden tabs and an unhealthy host.              *)
(*                                                                         *)
(* Everything runs on one thread, but in five kinds of callback that the   *)
(* browser may interleave in any order: open, error and close events of    *)
(* every socket ever made, timers, and visibilitychange.  No handler is    *)
(* ever removed and no timer cancelled: a generation counter tells the     *)
(* live ones from the retired.                                             *)
(*                                                                         *)
(* Time is abstract: a pending timer may fire at any moment.  A message    *)
(* event changes nothing here (see Dashboard and Wall in the README).      *)
(***************************************************************************)
EXTENDS Naturals, FiniteSets

CONSTANTS
  Sock,          \* WebSocket objects in existence at one time
  NoSocket,      \* `socket === null`
  BackoffMin,    \* BACKOFF_MIN_MS
  BackoffMax,    \* BACKOFF_MAX_MS
  MaxFailures,   \* bound on failed or closed connections
  MaxToggles     \* bound on visibility changes

ASSUME JetstreamAssumption ==
  /\ NoSocket \notin Sock
  /\ BackoffMin \in Nat /\ BackoffMax \in Nat /\ BackoffMin <= BackoffMax
  /\ MaxFailures \in Nat /\ MaxToggles \in Nat

VARIABLES
  \* the closure of subscribe()
  socket, host, backoff, generation, paused,
  \* the browser
  sock,       \* every WebSocket object: its state and what connect() closed over
  timers,     \* pending timers, by the generation they were scheduled in
  hidden,     \* document.hidden
  started,    \* subscribe() has run
  tried,      \* history: host of the last connection attempt
  failures, toggles

closure == <<socket, host, backoff, generation, paused>>
vars == <<socket, host, backoff, generation, paused,
          sock, timers, hidden, started, tried, failures, toggles>>

-----------------------------------------------------------------------------
(* A socket with events still to come: "failing" will fire error and then
   close, "ended" will fire close.  "gone" has no more to fire. *)
SockState == {"gone", "connecting", "open", "failing", "ended"}

Gone == [state |-> "gone", mine |-> 0]

(* live(): the handler belongs to the current generation. *)
Live(s) == sock[s].mine = generation

(* close() on a socket w: a connection that is not open yet is failed. *)
Closed(w) ==
  CASE w.state = "connecting" -> [w EXCEPT !.state = "failing"]
    [] w.state = "open" -> [w EXCEPT !.state = "ended"]
    [] OTHER -> w

(* The mutant of Doubled: no ceiling. *)
DoubledUncapped(b) == 2 * b

Doubled(b) == IF 2 * b < BackoffMax THEN 2 * b ELSE BackoffMax

Init ==
  /\ socket = NoSocket
  /\ host = 0
  /\ backoff = BackoffMin
  /\ generation = 0
  /\ paused = FALSE
  /\ sock = [s \in Sock |-> Gone]
  /\ timers = {}
  /\ hidden \in BOOLEAN
  /\ started = FALSE
  /\ tried = 0
  /\ failures = 0
  /\ toggles = 0

(* The mutant of Drop: forgets the socket without closing it. *)
DropUnclosed(now) ==
  generation' = generation + 1 /\ socket' = NoSocket /\ sock' = now

(* drop(): retire the generation, close the socket. `now` is the sockets as
   the event being handled leaves them. *)
Drop(now) ==
  /\ generation' = generation + 1
  /\ socket' = NoSocket
  /\ sock' = IF socket = NoSocket THEN now ELSE [now EXCEPT ![socket] = Closed(@)]

(* The mutant of Retry: `scheduled` is read before drop() retires it. *)
RetryRetired(now, pending, wait) ==
  /\ Drop(now)
  /\ IF paused'
       THEN /\ timers' = pending /\ backoff' = wait /\ UNCHANGED host
       ELSE /\ timers' = pending \cup {generation}
            /\ backoff' = Doubled(wait)
            /\ host' = host + 1

(* retry(), with the timers and the backoff as its caller leaves them. *)
Retry(now, pending, wait) ==
  /\ Drop(now)
  /\ IF paused'
       THEN /\ timers' = pending /\ backoff' = wait /\ UNCHANGED host
       ELSE /\ timers' = pending \cup {generation + 1}
            /\ backoff' = Doubled(wait)
            /\ host' = host + 1

(* connect(): a new socket bound to the current generation, or a constructor
   that throws. *)
Connect(pending, wait) ==
  /\ tried' = host
  /\ \/ /\ \E s \in Sock :
             /\ sock[s].state = "gone"
             /\ socket' = s
             /\ sock' = [sock EXCEPT ![s] = [state |-> "connecting", mine |-> generation]]
        /\ timers' = pending
        /\ backoff' = wait
        /\ UNCHANGED <<host, generation, failures>>
     \/ /\ failures < MaxFailures
        /\ failures' = failures + 1
        /\ Retry(sock, pending, wait)

-----------------------------------------------------------------------------
(* The last line of subscribe(). *)
Start ==
  /\ ~started
  /\ started' = TRUE
  /\ paused' = paused
  /\ Connect(timers, backoff)
  /\ UNCHANGED <<hidden, toggles>>

(* The open event. *)
OpenEvent(s) ==
  /\ sock[s].state = "connecting"
  /\ sock' = [sock EXCEPT ![s].state = "open"]
  /\ backoff' = IF Live(s) THEN BackoffMin ELSE backoff
  /\ UNCHANGED <<socket, host, generation, paused, timers, hidden, started, tried,
                 failures, toggles>>

(* The network or the server ends a connection. *)
Break(s, how) ==
  /\ failures < MaxFailures
  /\ \/ sock[s].state = "connecting" /\ how = "failing"
     \/ sock[s].state = "open"
  /\ failures' = failures + 1
  /\ sock' = [sock EXCEPT ![s].state = how]
  /\ UNCHANGED <<closure, timers, hidden, started, tried, toggles>>

(* The mutant of Handle: no live() check, the first version's two reconnects. *)
HandleRetired(s, state) ==
  /\ paused' = paused
  /\ Retry([sock EXCEPT ![s].state = state], timers, backoff)
  /\ UNCHANGED <<hidden, started, tried, failures, toggles>>

(* What the error and close handlers share. *)
Handle(s, state) ==
  LET now == [sock EXCEPT ![s].state = state] IN
  /\ paused' = paused
  /\ IF Live(s)
       THEN Retry(now, timers, backoff)
       ELSE sock' = now /\ UNCHANGED <<socket, host, backoff, generation, timers>>
  /\ UNCHANGED <<hidden, started, tried, failures, toggles>>

ErrorEvent(s) == sock[s].state = "failing" /\ Handle(s, "ended")

CloseEvent(s) == sock[s].state = "ended" /\ Handle(s, "gone")

(* The mutant of Fire: a pause no longer retires the attempt. *)
FirePaused(scheduled) ==
  /\ scheduled \in timers
  /\ paused' = paused
  /\ Connect(timers \ {scheduled}, backoff)
  /\ UNCHANGED <<hidden, started, toggles>>

(* The callback of setTimeout in retry(). *)
Fire(scheduled) ==
  /\ scheduled \in timers
  /\ paused' = paused
  /\ IF paused \/ scheduled # generation
       THEN /\ timers' = timers \ {scheduled}
            /\ UNCHANGED <<socket, host, backoff, generation, sock, tried, failures>>
       ELSE Connect(timers \ {scheduled}, backoff)
  /\ UNCHANGED <<hidden, started, toggles>>

(* The mutant of Hide: drop() left to the timers and events still to come. *)
HideUndropped ==
  /\ started /\ ~hidden /\ toggles < MaxToggles
  /\ hidden' = TRUE
  /\ toggles' = toggles + 1
  /\ paused' = TRUE
  /\ UNCHANGED <<socket, host, backoff, generation, sock, timers, started, tried, failures>>

(* visibilitychange, in its two directions. *)
Hide ==
  /\ started /\ ~hidden /\ toggles < MaxToggles
  /\ hidden' = TRUE
  /\ toggles' = toggles + 1
  /\ paused' = TRUE
  /\ Drop(sock)
  /\ UNCHANGED <<host, backoff, timers, started, tried, failures>>

Show ==
  /\ started /\ hidden /\ toggles < MaxToggles
  /\ hidden' = FALSE
  /\ toggles' = toggles + 1
  /\ paused' = FALSE
  /\ IF paused
       THEN Connect(timers, BackoffMin)
       ELSE UNCHANGED <<socket, host, backoff, generation, sock, timers, tried, failures>>
  /\ UNCHANGED started

-----------------------------------------------------------------------------
Next ==
  \/ Start \/ Hide \/ Show
  \/ \E s \in Sock :
       \/ OpenEvent(s) \/ ErrorEvent(s) \/ CloseEvent(s)
       \/ \E how \in {"failing", "ended"} : Break(s, how)
  \/ \E scheduled \in timers : Fire(scheduled)

Spec == Init /\ [][Next]_vars

(* The browser delivers the events it owes, runs the timers it was given and
   lets a connection that does not fail open. Nobody has to look at the tab,
   and the network has to fail only as often as MaxFailures says. *)
Fairness ==
  /\ WF_vars(Start)
  /\ \A s \in Sock : WF_vars(OpenEvent(s)) /\ WF_vars(ErrorEvent(s)) /\ WF_vars(CloseEvent(s))
  /\ \A g \in 0..(MaxFailures + MaxToggles) : WF_vars(Fire(g))

FairSpec == Spec /\ Fairness

-----------------------------------------------------------------------------
(* The types of the state. The wait before a retry stays between the two
   bounds of jetstream.js:31-32, and no timer is of a generation to come. *)
TypeOK ==
  /\ socket \in Sock \cup {NoSocket}
  /\ host \in Nat /\ backoff \in BackoffMin..BackoffMax /\ generation \in Nat /\ paused \in BOOLEAN
  /\ sock \in [Sock -> [state : SockState, mine : Nat]]
  /\ timers \in SUBSET (0..generation)
  /\ hidden \in BOOLEAN /\ started \in BOOLEAN
  /\ tried \in Nat /\ failures \in Nat /\ toggles \in Nat

(* No socket is leaked: one that is connecting or open, and so still holds a
   connection, is the one `socket` names and belongs to the current
   generation. Nothing ever overwrites `socket` without closing it first. *)
NoLeakedSocket ==
  \A s \in Sock : sock[s].state \in {"connecting", "open"} => s = socket /\ Live(s)

(* A timer that would reconnect: not retired by a pause or a later failure. *)
RetryPending == ~paused /\ generation \in timers

(* "A reconnect that must not fire twice" (jetstream.js:6), nor not at all: a
   running subscription that is not paused has a socket or exactly one timer
   that will reconnect, never both and never neither. While it is paused
   it has none of the two. *)
NeverStranded ==
  started =>
    /\ paused => socket = NoSocket /\ generation \notin timers
    /\ ~paused => (socket # NoSocket <=> generation \notin timers)

(* "Alternate hosts, so one unhealthy instance is not retried forever"
   (jetstream.js:125): one failure, though it fires two events, moves on by
   exactly one host before the next attempt. *)
RetryUsesNextHost == RetryPending => host = tried + 1

(* A visible tab is subscribed again once the network stops failing. *)
Resubscribes ==
  started /\ ~hidden ~> hidden \/ (socket # NoSocket /\ sock[socket].state = "open")

(* "Nothing to watch while the tab is hidden" (jetstream.js:136): a tab that
   was hidden holds no connection and waits for none. A tab that was never
   shown is the exception: subscribe() starts unpaused (jetstream.js:149). *)
HiddenTabIsQuiet == hidden /\ toggles > 0 => socket = NoSocket /\ ~RetryPending
=============================================================================
