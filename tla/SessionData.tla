---------------------------- MODULE SessionData ----------------------------
(***************************************************************************)
(* What a session store holds, and what each call of the ClientAuthStore   *)
(* trait does to it.  Shared by the abstract store (AuthStore) and by its  *)
(* implementations, so that they disagree only about storage and timing,   *)
(* never about the meaning of a call.                                      *)
(*                                                                         *)
(* Payloads are opaque to the store, so a session is a member of Value and *)
(* an authorization request is the time at which it was saved.             *)
(***************************************************************************)
EXTENDS Integers

CONSTANTS
  Session,   \* session keys, `{did}|{session_id}`
  Value,     \* session payloads (token sets)
  State,     \* OAuth `state` parameters
  None,      \* no entry
  TTL        \* AUTH_REQUEST_TTL, in clock ticks

ASSUME DataAssumption ==
  /\ None \notin Value
  /\ None \notin Nat
  /\ Session \cap State = {}
  /\ TTL \in Nat

Key == Session \cup State

(* struct Persisted: two maps, absent keys mapping to None. *)
Persisted ==
  [sessions : [Session -> Value \cup {None}],
   auth_requests : [State -> Nat \cup {None}]]

EmptyStore ==
  [sessions |-> [k \in Session |-> None], auth_requests |-> [s \in State |-> None]]

(* created_at < now.saturating_sub(TTL): an entry exactly TTL old is still
   valid, and a clock near zero expires nothing. *)
is_expired(created_at, now) == now > TTL /\ created_at < now - TTL

(* The reaping pass of `persist`. *)
Retain(d, now) ==
  [d EXCEPT !.auth_requests =
     [s \in State |->
        IF d.auth_requests[s] # None /\ is_expired(d.auth_requests[s], now)
          THEN None ELSE d.auth_requests[s]]]

-----------------------------------------------------------------------------
(* The four calls that change the store. *)
UpsertSession == [op : {"upsert_session"}, key : Session, value : Value]
DeleteSession == [op : {"delete_session"}, key : Session, value : {None}]
SaveAuthReq   == [op : {"save_auth_req_info"}, key : State, value : {None}]
DeleteAuthReq == [op : {"delete_auth_req_info"}, key : State, value : {None}]

Call == UpsertSession \cup DeleteSession \cup SaveAuthReq \cup DeleteAuthReq

(* Mutant: a request is stamped with the oldest time still valid, which is
   before the epoch on a clock near zero. *)
EffectBackdated(d, c, now) ==
  IF c.op \in {"upsert_session", "delete_session"}
    THEN [d EXCEPT !.sessions[c.key] = c.value]
    ELSE [d EXCEPT !.auth_requests[c.key] =
            IF c.op = "save_auth_req_info" THEN now - TTL ELSE None]

(* What call c leaves in a store d when it runs at time now. *)
Effect(d, c, now) ==
  IF c.op \in {"upsert_session", "delete_session"}
    THEN [d EXCEPT !.sessions[c.key] = c.value]
    ELSE [d EXCEPT !.auth_requests[c.key] =
            IF c.op = "save_auth_req_info" THEN now ELSE None]

(* The two reads.  Expiry is enforced here as well as by the reaping pass. *)
get_session(d, k) == d.sessions[k]

get_auth_req_info(d, s, now) ==
  IF d.auth_requests[s] # None /\ is_expired(d.auth_requests[s], now)
    THEN None ELSE d.auth_requests[s]

(* What a reader of d is told about key k. *)
Lookup(d, k, now) ==
  IF k \in Session THEN get_session(d, k) ELSE get_auth_req_info(d, k, now)
=============================================================================
