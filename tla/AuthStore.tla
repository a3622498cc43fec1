----------------------------- MODULE AuthStore -----------------------------
(***************************************************************************)
(* What a session store promises the code that calls it through the enum   *)
(* AuthStore (src/src/session/mod.rs), whichever variant is behind it:     *)
(* calls take effect one at a time, a call answered Ok has everything in   *)
(* effect so far on stable storage, a call answered with an error has its  *)
(* effect in this run of the process but perhaps not in the next, and a    *)
(* restart brings back what is on stable storage less the authorization    *)
(* requests that have expired.                                             *)
(*                                                                         *)
(* Nothing here knows of locks, temporary files or renames.                *)
(***************************************************************************)
EXTENDS SessionData

CONSTANTS Task, NoCall, Nobody, Startup, MaxNow

VARIABLES
  phase,     \* "down", "opening" or "up"
  live,      \* what reads return
  durable,   \* what a restart would bring back
  pending,   \* pending[t]: the call t waits for
  turn,      \* whose call is in effect and not yet answered
  now

vars == <<phase, live, durable, pending, turn, now>>

Init ==
  /\ phase = "down"
  /\ live = EmptyStore
  /\ durable = EmptyStore
  /\ pending = [t \in Task |-> NoCall]
  /\ turn = Nobody
  /\ now = 0

Start ==
  /\ phase = "down"
  /\ phase' = "opening"
  /\ live' = Retain(durable, now)
  /\ turn' = Startup
  /\ UNCHANGED <<durable, pending, now>>

Started ==
  /\ phase = "opening"
  /\ phase' = "up"
  /\ durable' = live
  /\ turn' = Nobody
  /\ UNCHANGED <<live, pending, now>>

Stop ==
  /\ phase # "down"
  /\ phase' = "down"
  /\ live' = EmptyStore
  /\ pending' = [t \in Task |-> NoCall]
  /\ turn' = Nobody
  /\ UNCHANGED <<durable, now>>

Submit(t) ==
  /\ phase = "up"
  /\ pending[t] = NoCall
  /\ \E c \in Call : pending' = [pending EXCEPT ![t] = c]
  /\ UNCHANGED <<phase, live, durable, turn, now>>

Apply(t) ==
  /\ phase = "up"
  /\ pending[t] # NoCall
  /\ turn = Nobody
  /\ turn' = t
  /\ live' = Retain(Effect(live, pending[t], now), now)
  /\ UNCHANGED <<phase, durable, pending, now>>

AnswerOk(t) ==
  /\ turn = t
  /\ durable' = live
  /\ pending' = [pending EXCEPT ![t] = NoCall]
  /\ turn' = Nobody
  /\ UNCHANGED <<phase, live, now>>

AnswerError(t) ==
  /\ turn = t
  /\ pending' = [pending EXCEPT ![t] = NoCall]
  /\ turn' = Nobody
  /\ UNCHANGED <<phase, live, durable, now>>

SetClock == now' \in 0..MaxNow /\ UNCHANGED <<phase, live, durable, pending, turn>>

Next ==
  \/ Start \/ Started \/ Stop \/ SetClock
  \/ \E t \in Task : Submit(t) \/ Apply(t) \/ AnswerOk(t) \/ AnswerError(t)

Spec == Init /\ [][Next]_vars
=============================================================================
