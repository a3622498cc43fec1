-------------------------- MODULE Jetstream_proofs --------------------------
(***************************************************************************)
(* Proofs about Jetstream: for any number of sockets, failures and changes *)
(* of visibility.                                                          *)
(*                                                                         *)
(* The strengthening says what the generation counter is worth: no socket  *)
(* is of a later generation, a socket of the current one that has events   *)
(* left is the one `socket` names, and while there is such a socket `host` *)
(* is the host it was made for.                                            *)
(***************************************************************************)
EXTENDS Jetstream, TLAPS

Retired == \A s \in Sock : sock[s].mine <= generation

OnlySocketIsLive == \A s \in Sock : Live(s) /\ sock[s].state # "gone" => s = socket

SocketIsLive ==
  socket # NoSocket => Live(socket) /\ sock[socket].state # "gone" /\ host = tried

NotStarted ==
  ~started => socket = NoSocket /\ ~paused /\ timers = {}

Inv ==
  /\ TypeOK /\ NoLeakedSocket /\ NeverStranded /\ RetryUsesNextHost
  /\ Retired /\ OnlySocketIsLive /\ SocketIsLive /\ NotStarted

-----------------------------------------------------------------------------
(* Doubling keeps the wait between its bounds. *)
LEMMA DoubledType ==
  ASSUME NEW b \in BackoffMin..BackoffMax
  PROVE  Doubled(b) \in BackoffMin..BackoffMax
BY JetstreamAssumption DEF Doubled

(* close() keeps a socket's generation and leaves it neither connecting nor
   open. *)
LEMMA ClosedType ==
  ASSUME NEW w \in [state : SockState, mine : Nat]
  PROVE  /\ Closed(w) \in [state : SockState, mine : Nat]
         /\ Closed(w).mine = w.mine
         /\ Closed(w).state \notin {"connecting", "open"}
<1>1. CASE w.state = "connecting"
  BY <1>1 DEF Closed, SockState
<1>2. CASE w.state = "open"
  BY <1>2 DEF Closed, SockState
<1>3. CASE w.state \notin {"connecting", "open"}
  <2>1. Closed(w) = w
    BY <1>3 DEF Closed
  <2> QED BY <1>3, <2>1
<1> QED BY <1>1, <1>2, <1>3

(* After drop(), called while only `socket` may hold a connection, none does
   and no handler of any socket is live. *)
LEMMA DropStep ==
  ASSUME TypeOK, Retired,
         NEW now \in [Sock -> [state : SockState, mine : Nat]],
         \A s \in Sock : now[s].mine = sock[s].mine,
         \A s \in Sock : now[s].state \in {"connecting", "open"} => s = socket,
         Drop(now)
  PROVE  /\ socket' = NoSocket
         /\ generation' = generation + 1
         /\ sock' \in [Sock -> [state : SockState, mine : Nat]]
         /\ \A s \in Sock : sock'[s].mine <= generation
         /\ \A s \in Sock : sock'[s].state \notin {"connecting", "open"}
<1>1. CASE socket = NoSocket
  BY <1>1, JetstreamAssumption DEF Drop, TypeOK, Retired
<1>2. CASE socket \in Sock
  <2>1. sock' = [now EXCEPT ![socket] = Closed(now[socket])]
    BY <1>2, JetstreamAssumption DEF Drop
  <2>2. /\ Closed(now[socket]) \in [state : SockState, mine : Nat]
        /\ Closed(now[socket]).mine = now[socket].mine
        /\ Closed(now[socket]).state \notin {"connecting", "open"}
    BY <1>2, ClosedType
  <2> QED BY <1>2, <2>1, <2>2 DEF Drop, TypeOK, Retired
<1> QED BY <1>1, <1>2 DEF TypeOK

(* retry(), called when the running subscription has just lost its
   connection or failed to make one, restores the invariant. *)
LEMMA RetryStep ==
  ASSUME TypeOK, Retired,
         NEW now \in [Sock -> [state : SockState, mine : Nat]],
         \A s \in Sock : now[s].mine = sock[s].mine,
         \A s \in Sock : now[s].state \in {"connecting", "open"} => s = socket,
         NEW pending \in SUBSET timers,
         NEW wait \in BackoffMin..BackoffMax,
         Retry(now, pending, wait),
         paused' = FALSE, host = tried', started' = TRUE,
         hidden' \in BOOLEAN, tried' \in Nat, failures' \in Nat, toggles' \in Nat
  PROVE  Inv'
<1>1. /\ socket' = NoSocket
      /\ generation' = generation + 1
      /\ sock' \in [Sock -> [state : SockState, mine : Nat]]
      /\ \A s \in Sock : sock'[s].mine <= generation
      /\ \A s \in Sock : sock'[s].state \notin {"connecting", "open"}
  BY DropStep DEF Retry
<1>2. /\ timers' = pending \cup {generation + 1}
      /\ backoff' = Doubled(wait)
      /\ host' = host + 1
  BY DEF Retry
<1>3. backoff' \in BackoffMin..BackoffMax
  BY <1>2, DoubledType
<1>4. \A s \in Sock : sock'[s].mine \in Nat /\ sock'[s].mine <= generation'
                      /\ sock'[s].mine # generation'
  BY <1>1 DEF TypeOK
<1>5. TypeOK'
  <2>1. timers' \in SUBSET (0..generation')
    BY <1>1, <1>2 DEF TypeOK
  <2>2. host' \in Nat /\ generation' \in Nat
    <3>1. host \in Nat /\ generation \in Nat
      BY DEF TypeOK
    <3> QED BY <1>1, <1>2, <3>1
  <2>3. paused' \in BOOLEAN /\ started' \in BOOLEAN
    OBVIOUS
  <2> QED BY <1>1, <1>3, <2>1, <2>2, <2>3 DEF TypeOK
<1>6. NoLeakedSocket' /\ Retired' /\ OnlySocketIsLive' /\ SocketIsLive'
  BY <1>1, <1>4 DEF NoLeakedSocket, Retired, OnlySocketIsLive, SocketIsLive, Live
<1>7. NeverStranded' /\ RetryUsesNextHost' /\ NotStarted'
  BY <1>1, <1>2 DEF NeverStranded, RetryUsesNextHost, RetryPending, NotStarted
<1> QED BY <1>5, <1>6, <1>7 DEF Inv

(* connect(), called when the running subscription has neither a socket nor a
   retry pending, restores the invariant. *)
LEMMA ConnectStep ==
  ASSUME Inv, socket = NoSocket,
         NEW pending \in SUBSET timers, generation \notin pending,
         NEW wait \in BackoffMin..BackoffMax,
         Connect(pending, wait),
         paused' = FALSE, started' = TRUE, hidden' \in BOOLEAN, toggles' \in Nat
  PROVE  Inv'
<1>1. tried' = host /\ tried' \in Nat
  BY DEF Connect, Inv, TypeOK
<1>2. ASSUME NEW s \in Sock,
             sock[s].state = "gone",
             socket' = s,
             sock' = [sock EXCEPT ![s] = [state |-> "connecting", mine |-> generation]],
             timers' = pending, backoff' = wait,
             UNCHANGED <<host, generation, failures>>
      PROVE  Inv'
  <2>1. s # NoSocket
    BY JetstreamAssumption
  <2>2. TypeOK'
    BY <1>1, <1>2 DEF Inv, TypeOK, SockState
  <2>3. sock'[s] = [state |-> "connecting", mine |-> generation]
        /\ \A r \in Sock \ {s} : sock'[r] = sock[r]
    BY <1>2 DEF Inv, TypeOK
  <2>4. \A r \in Sock : ~(Live(r) /\ sock[r].state # "gone")
    BY JetstreamAssumption DEF Inv, OnlySocketIsLive
  <2>5. \A r \in Sock : sock[r].state \notin {"connecting", "open"}
    BY JetstreamAssumption DEF Inv, NoLeakedSocket
  <2>6. NoLeakedSocket' /\ Retired' /\ OnlySocketIsLive' /\ SocketIsLive'
    BY <1>1, <1>2, <2>3, <2>4, <2>5
    DEF NoLeakedSocket, Retired, OnlySocketIsLive, SocketIsLive, Live, Inv, TypeOK
  <2>7. NeverStranded' /\ RetryUsesNextHost' /\ NotStarted'
    BY <1>2, <2>1 DEF NeverStranded, RetryUsesNextHost, RetryPending, NotStarted
  <2> QED BY <2>2, <2>6, <2>7 DEF Inv
<1>3. ASSUME failures' = failures + 1, Retry(sock, pending, wait)
      PROVE  Inv'
  <2>1. failures' \in Nat
    BY <1>3 DEF Inv, TypeOK
  <2> QED BY <1>1, <1>3, <2>1, RetryStep DEF Inv, TypeOK, NoLeakedSocket
<1> QED BY <1>2, <1>3 DEF Connect

-----------------------------------------------------------------------------
(* The invariant holds before subscribe() runs. *)
LEMMA InitInv == Init => Inv
<1> SUFFICES ASSUME Init PROVE Inv
  OBVIOUS
<1>1. TypeOK
  <2>1. sock \in [Sock -> [state : SockState, mine : Nat]]
    BY DEF Init, Gone, SockState
  <2>2. backoff \in BackoffMin..BackoffMax
    BY JetstreamAssumption DEF Init
  <2>3. hidden \in BOOLEAN /\ started \in BOOLEAN /\ paused \in BOOLEAN
    BY Zenon DEF Init
  <2> QED BY <2>1, <2>2, <2>3 DEF Init, TypeOK
<1>2. \A s \in Sock : sock[s].state = "gone" /\ sock[s].mine = 0
  BY DEF Init, Gone
<1>3. NoLeakedSocket /\ Retired /\ OnlySocketIsLive /\ SocketIsLive
  BY <1>2 DEF Init, NoLeakedSocket, Retired, OnlySocketIsLive, SocketIsLive
<1>4. NeverStranded /\ RetryUsesNextHost /\ NotStarted
  BY DEF Init, NeverStranded, RetryUsesNextHost, RetryPending, NotStarted
<1> QED BY <1>1, <1>3, <1>4 DEF Inv

(* An error or close event, live or retired, preserves the invariant. *)
LEMMA HandleStep ==
  ASSUME Inv, NEW s \in Sock, NEW state \in {"ended", "gone"},
         sock[s].state \in {"failing", "ended"},
         Handle(s, state)
  PROVE  Inv'
<1> DEFINE now == [sock EXCEPT ![s].state = state]
<1>1. /\ now \in [Sock -> [state : SockState, mine : Nat]]
      /\ \A r \in Sock : now[r].mine = sock[r].mine
      /\ \A r \in Sock : now[r].state = IF r = s THEN state ELSE sock[r].state
  BY DEF Inv, TypeOK, SockState
<1>2. \A r \in Sock : now[r].state \in {"connecting", "open"} => r = socket
  BY <1>1 DEF Inv, NoLeakedSocket
<1> HIDE DEF now
<1>3. CASE Live(s)
  <2>1. socket = s /\ socket # NoSocket
    BY <1>3, JetstreamAssumption DEF Inv, OnlySocketIsLive
  <2>2. started /\ ~paused /\ host = tried
    BY <2>1 DEF Inv, NotStarted, NeverStranded, SocketIsLive
  <2>3. Retry(now, timers, backoff)
    BY <1>3 DEF Handle, now
  <2>4. paused' = FALSE /\ host = tried' /\ started' = TRUE /\ hidden' \in BOOLEAN
        /\ tried' \in Nat /\ failures' \in Nat /\ toggles' \in Nat
    BY <2>2 DEF Handle, Inv, TypeOK
  <2> QED BY <1>1, <1>2, <2>3, <2>4, RetryStep DEF Inv, TypeOK
<1>4. CASE ~Live(s)
  <2>1. sock' = now /\ UNCHANGED <<socket, host, backoff, generation, timers, paused,
                                   hidden, started, tried, failures, toggles>>
    BY <1>4 DEF Handle, now
  <2>2. TypeOK'
    BY <1>1, <2>1 DEF Inv, TypeOK
  <2>3. NoLeakedSocket' /\ Retired' /\ OnlySocketIsLive'
    BY <1>1, <1>2, <1>4, <2>1
    DEF Inv, NoLeakedSocket, Retired, OnlySocketIsLive, Live
  <2>4. SocketIsLive'
    BY <1>1, <1>4, <2>1 DEF Inv, TypeOK, SocketIsLive, Live
  <2>5. NeverStranded' /\ RetryUsesNextHost' /\ NotStarted'
    BY <2>1 DEF Inv, NeverStranded, RetryUsesNextHost, RetryPending, NotStarted
  <2> QED BY <2>2, <2>3, <2>4, <2>5 DEF Inv
<1> QED BY <1>3, <1>4

(* Every callback preserves the invariant. *)
LEMMA NextInv == Inv /\ [Next]_vars => Inv'
<1> SUFFICES ASSUME Inv, [Next]_vars PROVE Inv'
  OBVIOUS
<1>1. CASE Start
  <2>1. socket = NoSocket /\ ~paused /\ timers = {}
    BY <1>1 DEF Start, Inv, NotStarted
  <2> QED BY <1>1, <2>1, ConnectStep DEF Start, Inv, TypeOK
<1>2. CASE Hide
  <2>1. Drop(sock)
    BY <1>2 DEF Hide
  <2>2. /\ socket' = NoSocket
        /\ generation' = generation + 1
        /\ sock' \in [Sock -> [state : SockState, mine : Nat]]
        /\ \A s \in Sock : sock'[s].mine <= generation
        /\ \A s \in Sock : sock'[s].state \notin {"connecting", "open"}
    BY <2>1, DropStep DEF Inv, TypeOK, NoLeakedSocket
  <2>3. TypeOK'
    BY <1>2, <2>2 DEF Hide, Inv, TypeOK
  <2>4. \A s \in Sock : sock'[s].mine <= generation' /\ sock'[s].mine # generation'
    BY <2>2 DEF Inv, TypeOK
  <2>5. NoLeakedSocket' /\ Retired' /\ OnlySocketIsLive' /\ SocketIsLive'
    BY <2>2, <2>4 DEF NoLeakedSocket, Retired, OnlySocketIsLive, SocketIsLive, Live
  <2>6. generation' \notin timers'
    BY <1>2, <2>2 DEF Hide, Inv, TypeOK
  <2>7. NeverStranded' /\ RetryUsesNextHost' /\ NotStarted'
    BY <1>2, <2>2, <2>6
    DEF Hide, NeverStranded, RetryUsesNextHost, RetryPending, NotStarted
  <2> QED BY <2>3, <2>5, <2>7 DEF Inv
<1>3. CASE Show
  <2>1. CASE paused
    <3>1. socket = NoSocket /\ generation \notin timers
      BY <1>3, <2>1 DEF Show, Inv, NeverStranded
    <3>2. BackoffMin \in BackoffMin..BackoffMax
      BY JetstreamAssumption
    <3>3. Connect(timers, BackoffMin)
      BY <1>3, <2>1 DEF Show
    <3>4. paused' = FALSE /\ started' = TRUE /\ hidden' \in BOOLEAN
      BY <1>3, Zenon DEF Show, Inv, TypeOK
    <3>5. toggles' \in Nat
      BY <1>3 DEF Show, Inv, TypeOK
    <3> QED BY <3>1, <3>2, <3>3, <3>4, <3>5, ConnectStep
  <2>2. CASE ~paused
    <3>1. UNCHANGED <<socket, host, backoff, generation, paused, sock, timers, started,
                      tried, failures>>
      <4>1. paused' = paused
        BY <1>3, <2>2, Zenon DEF Show, Inv, TypeOK
      <4> QED BY <1>3, <2>2, <4>1 DEF Show
    <3>2. hidden' \in BOOLEAN
      BY <1>3 DEF Show
    <3>3. toggles' \in Nat
      BY <1>3 DEF Show, Inv, TypeOK
    <3>4. TypeOK'
      BY <3>1, <3>2, <3>3 DEF Inv, TypeOK
    <3>5. NoLeakedSocket' /\ Retired' /\ OnlySocketIsLive' /\ SocketIsLive'
      BY <3>1 DEF Inv, NoLeakedSocket, Retired, OnlySocketIsLive, SocketIsLive, Live
    <3>6. NeverStranded' /\ RetryUsesNextHost' /\ NotStarted'
      BY <3>1 DEF Inv, NeverStranded, RetryUsesNextHost, RetryPending, NotStarted
    <3> QED BY <3>4, <3>5, <3>6 DEF Inv
  <2> QED BY <2>1, <2>2
<1>4. ASSUME NEW s \in Sock, OpenEvent(s)
      PROVE  Inv'
  <2>1. /\ sock' = [sock EXCEPT ![s].state = "open"]
        /\ sock[s].state = "connecting"
        /\ UNCHANGED <<socket, host, generation, paused, timers, hidden, started, tried,
                       failures, toggles>>
    BY <1>4 DEF OpenEvent
  <2>2. backoff' \in BackoffMin..BackoffMax
    BY <1>4, JetstreamAssumption DEF OpenEvent, Inv, TypeOK
  <2>3. TypeOK'
    BY <2>1, <2>2 DEF Inv, TypeOK, SockState
  <2>4. \A r \in Sock : /\ sock'[r].mine = sock[r].mine
                        /\ sock'[r].state = IF r = s THEN "open" ELSE sock[r].state
    BY <2>1 DEF Inv, TypeOK
  <2>5. NoLeakedSocket' /\ Retired' /\ OnlySocketIsLive' /\ SocketIsLive'
    BY <2>1, <2>4
    DEF Inv, TypeOK, NoLeakedSocket, Retired, OnlySocketIsLive, SocketIsLive, Live
  <2>6. NeverStranded' /\ RetryUsesNextHost' /\ NotStarted'
    BY <2>1 DEF Inv, NeverStranded, RetryUsesNextHost, RetryPending, NotStarted
  <2> QED BY <2>3, <2>5, <2>6 DEF Inv
<1>5. ASSUME NEW s \in Sock, NEW how \in {"failing", "ended"}, Break(s, how)
      PROVE  Inv'
  <2>1. /\ sock' = [sock EXCEPT ![s].state = how]
        /\ sock[s].state # "gone"
        /\ failures' = failures + 1
        /\ UNCHANGED <<closure, timers, hidden, started, tried, toggles>>
    BY <1>5 DEF Break
  <2>2. TypeOK'
    BY <2>1 DEF Inv, TypeOK, SockState, closure
  <2>3. \A r \in Sock : /\ sock'[r].mine = sock[r].mine
                        /\ sock'[r].state = IF r = s THEN how ELSE sock[r].state
    BY <2>1 DEF Inv, TypeOK
  <2>4. NoLeakedSocket' /\ Retired' /\ OnlySocketIsLive' /\ SocketIsLive'
    BY <2>1, <2>3
    DEF Inv, TypeOK, NoLeakedSocket, Retired, OnlySocketIsLive, SocketIsLive, Live, closure
  <2>5. NeverStranded' /\ RetryUsesNextHost' /\ NotStarted'
    BY <2>1 DEF Inv, NeverStranded, RetryUsesNextHost, RetryPending, NotStarted, closure
  <2> QED BY <2>2, <2>4, <2>5 DEF Inv
<1>6. ASSUME NEW s \in Sock, ErrorEvent(s) \/ CloseEvent(s)
      PROVE  Inv'
  BY <1>6, HandleStep DEF ErrorEvent, CloseEvent
<1>7. ASSUME NEW scheduled \in timers, Fire(scheduled)
      PROVE  Inv'
  <2>1. started
    BY DEF Inv, NotStarted
  <2>2. CASE paused \/ scheduled # generation
    <3>1. /\ timers' = timers \ {scheduled}
          /\ UNCHANGED <<socket, host, backoff, generation, paused, sock, tried, failures,
                         hidden, started, toggles>>
      BY <1>7, <2>2 DEF Fire
    <3>2. TypeOK'
      BY <3>1 DEF Inv, TypeOK
    <3>3. NoLeakedSocket' /\ Retired' /\ OnlySocketIsLive' /\ SocketIsLive'
      BY <3>1 DEF Inv, NoLeakedSocket, Retired, OnlySocketIsLive, SocketIsLive, Live
    <3>4. NeverStranded' /\ RetryUsesNextHost' /\ NotStarted'
      BY <2>1, <2>2, <3>1
      DEF Inv, NeverStranded, RetryUsesNextHost, RetryPending, NotStarted
    <3> QED BY <3>2, <3>3, <3>4 DEF Inv
  <2>3. CASE ~paused /\ scheduled = generation
    <3>1. Connect(timers \ {generation}, backoff) /\ paused' = FALSE /\ started' = TRUE
          /\ hidden' \in BOOLEAN /\ toggles' \in Nat
      BY <1>7, <2>1, <2>3 DEF Fire, Inv, TypeOK
    <3>2. socket = NoSocket
      BY <2>1, <2>3 DEF Inv, NeverStranded
    <3>3. backoff \in BackoffMin..BackoffMax
      BY DEF Inv, TypeOK
    <3> QED BY <3>1, <3>2, <3>3, ConnectStep
  <2> QED BY <2>2, <2>3
<1>8. CASE UNCHANGED vars
  BY <1>8
  DEF vars, Inv, TypeOK, NoLeakedSocket, NeverStranded, RetryUsesNextHost, RetryPending,
      Retired, OnlySocketIsLive, SocketIsLive, NotStarted, Live
<1> QED BY <1>1, <1>2, <1>3, <1>4, <1>5, <1>6, <1>7, <1>8 DEF Next

(* Inv is an invariant of the subscription, whatever its fairness. *)
THEOREM Invariance == Spec => []Inv
<1>1. Inv /\ UNCHANGED vars => Inv'
  BY NextInv
<1> QED BY InitInv, NextInv, PTL DEF Spec

(* The types hold: the wait never leaves its bounds. *)
THEOREM TypeCorrect == Spec => []TypeOK
BY Invariance, PTL DEF Inv

(* No callback order leaks a socket: drop() retires and closes together. *)
THEOREM NoLeakedSocketHolds == Spec => []NoLeakedSocket
BY Invariance, PTL DEF Inv

(* No callback order leaves a running subscription with two ways to reconnect
   or with none. *)
THEOREM NeverStrandedHolds == Spec => []NeverStranded
BY Invariance, PTL DEF Inv

(* However the events of a failed socket interleave with the rest, the next
   attempt is at the next host. *)
THEOREM RetryUsesNextHostHolds == Spec => []RetryUsesNextHost
BY Invariance, PTL DEF Inv

(* Once visibility has changed, paused is what the tab is: hidden. *)
PausedIsHidden == toggles > 0 => started /\ paused = hidden

LEMMA PausedIsHiddenHolds == Spec => []PausedIsHidden
<1>1. Init => PausedIsHidden
  BY DEF Init, PausedIsHidden
<1>2. ASSUME TypeOK, PausedIsHidden, [Next]_vars
      PROVE  PausedIsHidden'
  <2>1. CASE Hide \/ Show
    <3>1. started' = started /\ started /\ paused' = hidden'
      BY <2>1 DEF Hide, Show
    <3> QED BY <3>1 DEF PausedIsHidden
  <2>2. CASE Start \/ \E scheduled \in timers : Fire(scheduled)
    BY <1>2, <2>2 DEF Start, Fire, PausedIsHidden
  <2>3. CASE \E s \in Sock : OpenEvent(s) \/ \E how \in {"failing", "ended"} : Break(s, how)
    BY <1>2, <2>3 DEF OpenEvent, Break, closure, PausedIsHidden
  <2>4. CASE \E s \in Sock : ErrorEvent(s) \/ CloseEvent(s)
    BY <1>2, <2>4 DEF ErrorEvent, CloseEvent, Handle, PausedIsHidden
  <2>5. CASE UNCHANGED vars
    BY <1>2, <2>5 DEF vars, PausedIsHidden
  <2> QED BY <1>2, <2>1, <2>2, <2>3, <2>4, <2>5 DEF Next
<1> QED BY <1>1, <1>2, TypeCorrect, PTL DEF Spec

(* A tab hidden by a change of visibility keeps no connection and no retry. *)
THEOREM HiddenTabIsQuietHolds == Spec => []HiddenTabIsQuiet
<1>1. Inv /\ PausedIsHidden => HiddenTabIsQuiet
  BY DEF Inv, TypeOK, PausedIsHidden, NeverStranded, HiddenTabIsQuiet, RetryPending
<1> QED BY <1>1, Invariance, PausedIsHiddenHolds, PTL
=============================================================================
