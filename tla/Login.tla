------------------------------- MODULE Login -------------------------------
(***************************************************************************)
(* Signing in, staying signed in and signing out (src/src/auth.rs,         *)
(* src/src/api/logout.rs, src/src/api/ui.rs), over the DynamoDB session    *)
(* store, for one browser and one account.                                 *)
(*                                                                         *)
(* Every request the browser sends runs as a task; tasks interleave at     *)
(* each await, any of them may find the store or the authorization server  *)
(* unavailable, and any may be dropped by the request timeout or have its  *)
(* reply lost. What jacquard's OAuthClient does between the handler and    *)
(* the store, and the authorization server itself, are external.           *)
(***************************************************************************)
EXTENDS DynamoStore

CONSTANTS
  Task,       \* requests in flight at once
  Old,        \* value of a cookie from before, naming no session
  NoId,       \* no session cookie
  CookieAge,  \* SESSION_MAX_AGE
  Loopback    \* base_url.is_loopback()

ASSUME LoginAssumption ==
  /\ Old # NoId /\ {Old, NoId} \cap Login = {}
  /\ CookieAge \in Nat \ {0} /\ CookieAge < SessionTTL
  /\ Loopback \in BOOLEAN

VARIABLES
  cookie,    \* the browser's cookie of each name: its value and when it expires
  task,      \* the requests in flight
  begun,     \* external: deadline of the authorization request of each login, or 0
  used,      \* external: logins whose authorization code has been exchanged
  live,      \* external: sessions the authorization server honours
  last,      \* history: the login whose cookie came last; Old before, NoId once signed out
  revoked    \* history: sessions that a completed logout has revoked

external == <<begun, used, live>>
history == <<last, revoked>>
vars == <<table, behind, now, cookie, task, begun, used, live, last, revoked>>

Name == {"__Host-session", "session"}
Id == Login \cup {Old, NoId}
Page == {"home", "dashboard"}
NoCookie == [id |-> NoId, until |-> 0]

(* The name this deployment sets. *)
cookie_name == IF Loopback THEN "session" ELSE "__Host-session"

Held(n) == cookie[n].until > now

(* The mutant of session_cookie_value: the older name first. *)
PlainNameFirst ==
  IF Held("session") THEN cookie["session"].id
  ELSE IF Held("__Host-session") THEN cookie["__Host-session"].id ELSE NoId

(* The first name that is present wins, valid or not. *)
session_cookie_value ==
  IF Held("__Host-session") THEN cookie["__Host-session"].id
  ELSE IF Held("session") THEN cookie["session"].id ELSE NoId

(* parse_session_cookie, and the DID it must hold. *)
parse_session_cookie(id) == id \in Login

Idle == [kind |-> "none", step |-> "idle", id |-> NoId, out |-> "pending", late |-> FALSE]
Request(kind, id) == [Idle EXCEPT !.kind = kind, !.step = "sent", !.id = id]

Init ==
  /\ StoreInit
  /\ cookie = [n \in Name |-> IF n = cookie_name THEN NoCookie
                              ELSE [id |-> Old, until |-> CookieAge]]
  /\ task = [t \in Task |-> Idle]
  /\ begun = [l \in Login |-> 0]
  /\ used = {}
  /\ live = {}
  /\ last = Old
  /\ revoked = {}

At(t, kinds, step) == task[t].kind \in kinds /\ task[t].step = step
Goto(t, step) == task' = [task EXCEPT ![t].step = step]
Reply(t, out) == task' = [task EXCEPT ![t].step = "reply", ![t].out = out]

-----------------------------------------------------------------------------
(* login(): start_auth pushes the authorization request and saves it. *)
StartLogin(l) ==
  /\ begun[l] = 0
  /\ begun' = [begun EXCEPT ![l] = now + AuthTTL]
  /\ put(auth_key(l), AuthTTL)
  /\ UNCHANGED <<now, cookie, task, used, live, history>>

(* The user agrees and the browser comes back, or reloads the callback URL. *)
Return(t, l) ==
  /\ task[t] = Idle /\ begun[l] # 0
  /\ task' = [task EXCEPT ![t] = Request("callback", l)]
  /\ UNCHANGED <<storeVars, now, cookie, external, history>>

(* oauth_callback() and complete_login(), as jacquard's callback() runs: read
   the authorization request, delete it, exchange the code, save the session.
   When one of them fails the answer is 502 and the rest is not done: for the
   browser's cookies and the store that is Abandon. *)
CallbackRead(t) ==
  /\ At(t, {"callback"}, "sent")
  /\ TRUE \in get(auth_key(task[t].id))
  /\ Goto(t, "consume")
  /\ UNCHANGED <<storeVars, now, cookie, external, history>>

CallbackConsume(t) ==
  /\ At(t, {"callback"}, "consume")
  /\ remove(auth_key(task[t].id))
  /\ Goto(t, "exchange")
  /\ UNCHANGED <<now, cookie, external, history>>

CallbackExchange(t) ==
  /\ At(t, {"callback"}, "exchange")
  /\ task[t].id \notin used
  /\ used' = used \cup {task[t].id}
  /\ live' = live \cup {task[t].id}
  /\ Goto(t, "save")
  /\ UNCHANGED <<storeVars, now, cookie, begun, history>>

(* The mutant of CallbackSave: the session's row gets the short lifetime. *)
CallbackSaveShort(t) ==
  /\ At(t, {"callback"}, "save")
  /\ put(session_key(task[t].id), AuthTTL)
  /\ Reply(t, "ok")
  /\ UNCHANGED <<now, cookie, external, history>>

CallbackSave(t) ==
  /\ At(t, {"callback"}, "save")
  /\ put(session_key(task[t].id), SessionTTL)
  /\ Reply(t, "ok")
  /\ UNCHANGED <<now, cookie, external, history>>

-----------------------------------------------------------------------------
(* A request for a page, or to log out, with the cookies the browser holds. *)
Open(t, kind) ==
  /\ task[t] = Idle
  /\ task' = [task EXCEPT ![t] = Request(kind, session_cookie_value)]
  /\ UNCHANGED <<storeVars, now, cookie, external, history>>

(* authenticate() and revoke() go on with a session that was restored. *)
Restored(t) ==
  IF task[t].kind = "logout" THEN Goto(t, "revoke") ELSE Reply(t, "ok")

(* restore(): the session's row is read, and its tokens are refreshed first if
   they are about to expire. Whatever goes wrong is Unauthorized. *)
Restore(t) ==
  /\ At(t, Page \cup {"logout"}, "sent")
  /\ \/ /\ parse_session_cookie(task[t].id)
        /\ TRUE \in get(session_key(task[t].id))
        /\ \/ Restored(t)
           \/ task[t].id \in live /\ Goto(t, "refreshed")
     \/ Reply(t, "unauthorized")
  /\ UNCHANGED <<storeVars, now, cookie, external, history>>

(* External: the refreshed tokens are written back. *)
SaveRefreshed(t) ==
  /\ At(t, Page \cup {"logout"}, "refreshed")
  /\ \/ put(session_key(task[t].id), SessionTTL) /\ Restored(t)
     \/ Reply(t, "unauthorized") /\ UNCHANGED storeVars
  /\ UNCHANGED <<now, cookie, external, history>>

(* The mutant of Revoke: no call of the revocation endpoint. *)
RevokeRowOnly(t) ==
  /\ At(t, {"logout"}, "revoke")
  /\ Goto(t, "dropping")
  /\ UNCHANGED <<storeVars, now, cookie, external, history>>

(* revoke() of a session that was restored: the authorization server first,
   then the row; an error of either is logged and forgotten. *)
Revoke(t) ==
  /\ At(t, {"logout"}, "revoke")
  /\ \/ live' = live \ {task[t].id} /\ Goto(t, "dropping")
     \/ UNCHANGED live /\ Reply(t, "failed")
  /\ UNCHANGED <<storeVars, now, cookie, begun, used, history>>

DropSession(t) ==
  /\ At(t, {"logout"}, "dropping")
  /\ \/ remove(session_key(task[t].id)) /\ Reply(t, "ok")
     \/ Reply(t, "failed") /\ UNCHANGED storeVars
  /\ UNCHANGED <<now, cookie, external, history>>

-----------------------------------------------------------------------------
(* The mutant of clear_session: only the name this deployment sets. *)
ClearConfigured == [cookie EXCEPT ![cookie_name] = NoCookie]

clear_session == [n \in Name |-> NoCookie]

(* session_cookie() in the answer of a callback. *)
session_cookie(l) == [cookie EXCEPT ![cookie_name] = [id |-> l, until |-> now + CookieAge]]

(* logout(): whatever revoke() came to, the cookies are cleared. *)
logout(t) == task[t].kind = "logout"

(* Where an answer sends the browser next. *)
Redirect(t) ==
  CASE task[t].kind = "home" /\ task[t].out = "ok" -> "dashboard"
    [] task[t].kind = "dashboard" /\ task[t].out # "ok" -> "home"
    [] logout(t) -> "home"
    [] task[t].kind = "callback" /\ task[t].out = "ok" -> "home"
    [] OTHER -> "none"

(* The mutant of Clears: the dashboard leaves a cookie it could not use. *)
ClearsOnLogout(t) == logout(t)

Clears(t) == logout(t) \/ (task[t].kind = "dashboard" /\ task[t].out # "ok")

(* An answer arrives: cookies are set or cleared, a redirect is followed. *)
Deliver(t) ==
  /\ task[t].step = "reply"
  /\ UNCHANGED <<storeVars, now, external>>
  /\ cookie' = IF task[t].kind = "callback" /\ task[t].out = "ok" THEN session_cookie(task[t].id)
               ELSE IF Clears(t) THEN clear_session ELSE cookie
  /\ last' = IF task[t].kind = "callback" /\ task[t].out = "ok" THEN task[t].id
             ELSE IF Clears(t) THEN NoId ELSE last
  /\ revoked' = IF task[t].kind = "logout" /\ task[t].out = "ok"
                  THEN revoked \cup {task[t].id} ELSE revoked
  /\ task' = [task EXCEPT ![t] = IF Redirect(t) = "none" THEN Idle
                                 ELSE Request(Redirect(t), session_cookie_value')]

(* A handler ends without an effect on the browser: what it awaits fails and
   it answers with an error, the request timeout drops it, or its answer is
   lost. *)
Abandon(t) ==
  /\ task[t] # Idle
  /\ task' = [task EXCEPT ![t] = Idle]
  /\ UNCHANGED <<storeVars, now, cookie, external, history>>

(* A tick is much longer than the request timeout, so no request sees two. *)
Tick ==
  /\ now < MaxNow
  /\ \A t \in Task : ~task[t].late
  /\ now' = now + 1
  /\ task' = [t \in Task |-> [task[t] EXCEPT !.late = task[t] # Idle]]
  /\ UNCHANGED <<storeVars, cookie, external, history>>

Handle(t) ==
  \/ CallbackRead(t) \/ CallbackConsume(t) \/ CallbackExchange(t) \/ CallbackSave(t)
  \/ Restore(t) \/ SaveRefreshed(t) \/ Revoke(t) \/ DropSession(t) \/ Deliver(t)

Browse(t) == (\E l \in Login : Return(t, l)) \/ (\E k \in Page \cup {"logout"} : Open(t, k))

Next ==
  \/ \E t \in Task : Handle(t) \/ Browse(t) \/ Abandon(t)
  \/ \E l \in Login : StartLogin(l)
  \/ \E k \in Key : Sweep(k) /\ UNCHANGED <<cookie, task, external, history>>
  \/ Tick

Spec == Init /\ [][Next]_vars

(* The runtime polls every handler; nothing is assumed of the user, of the
   clock or of the store's success. *)
FairSpec == Spec /\ \A t \in Task : WF_vars(Handle(t))

-----------------------------------------------------------------------------
TypeOK ==
  /\ table \in [Key -> Nat] /\ behind \in [Key -> Nat] /\ now \in Nat
  /\ cookie \in [Name -> [id : Id, until : Nat]]
  /\ task \in [Task -> [kind : Page \cup {"logout", "callback", "none"},
       step : {"idle", "sent", "consume", "exchange", "save", "refreshed", "revoke",
               "dropping", "reply"},
       id : Id, out : {"pending", "ok", "failed", "unauthorized"}, late : BOOLEAN]]
  /\ begun \in [Login -> Nat] /\ used \subseteq Login
  /\ live \subseteq Login /\ revoked \subseteq Login /\ last \in Id

(* The login that came back last is the one the next request uses, whatever
   older cookie the browser still holds (session_cookie_value). *)
LatestLoginWins ==
  last \in Login /\ Held(cookie_name) => session_cookie_value = last

(* After an answer that signs the browser out, and until another login comes
   back, no request carries a session, under either name: neither an older
   cookie nor the answer of an overlapping request brings one back
   (clear_session). *)
SignedOutStaysOut ==
  last = NoId => session_cookie_value = NoId

(* "the store never expires a session the browser still considers current":
   while the browser holds the cookie of a login, the table holds its row,
   unless the session was being signed out by some request. *)
StoreOutlivesCookie ==
  \A n \in Name : LET l == cookie[n].id IN
    Held(n) /\ l \in live /\ l \in Login => table[session_key(l)] > now

(* A callback that goes ahead was begun less than AUTH_REQUEST_TTL ago, though
   the table still held, or a stale read still showed, the expired row. *)
ExpiryIsReal ==
  \A t \in Task :
    task[t].kind = "callback" /\ task[t].step \in {"consume", "exchange", "save"}
      /\ ~task[t].late => now < begun[task[t].id]

(* A session that a completed logout has revoked acts for nobody again, even
   when a stale read or a refresh that raced with the logout has put its row
   back: the authorization server was asked first (revoke). *)
RevokedIsDead == revoked \cap live = {}

(* "No live session to revoke; clearing the cookie is all there is": a logout
   that gives up before revoking was for a session that is not live. *)
NothingLeftToRevoke ==
  \A t \in Task : task[t].kind = "logout" /\ task[t].out = "unauthorized"
    /\ task[t].id \in live => table[session_key(task[t].id)] <= now

(* "an infinite redirect loop": a visit of the home page or the dashboard ends
   with a page, however restoring the session succeeds and fails between the
   redirects (home, dashboard). *)
VisitsSettle == \A t \in Task : task[t].kind \in Page ~> task[t] = Idle
=============================================================================
