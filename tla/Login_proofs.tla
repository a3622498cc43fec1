---------------------------- MODULE Login_proofs ----------------------------
(***************************************************************************)
(* Proofs about Login: for any number of requests in flight, logins,       *)
(* lifetimes and clock readings.                                           *)
(*                                                                         *)
(* The properties follow from what each part of the flow leaves for the    *)
(* next one: rows are of logins whose code was exchanged, a handler past a *)
(* step has its outcome behind it, a row outlives every cookie made from   *)
(* it. None of this needs a read to be consistent: `behind` is under the   *)
(* same invariants as `table`.                                             *)
(***************************************************************************)
EXTENDS Login, TLAPS

(* Rows, and the handlers that have seen one, are of logins that went
   through; an authorization request expires with its row. *)
Rows ==
  \A l \in Login :
    /\ table[session_key(l)] # NoRow \/ behind[session_key(l)] # NoRow => l \in used
    /\ table[auth_key(l)] <= begun[l] /\ behind[auth_key(l)] <= begun[l]

(* How far a handler is tells what has happened to its login. *)
Progress ==
  \A t \in Task :
    /\ task[t].kind = "callback" => task[t].id \in Login
    /\ task[t].step \in {"refreshed", "revoke"} => task[t].id \in used
    /\ task[t].kind = "callback" /\ task[t].step = "save" => task[t].id \in used
    /\ task[t].kind = "callback" /\ task[t].step = "reply" => task[t].id \in used
    /\ task[t].step = "dropping" => task[t].id \in used \ live
    /\ task[t].kind = "logout" /\ task[t].step = "reply" /\ task[t].out = "ok" =>
         task[t].id \in used \ live

Dead == live \subseteq used /\ revoked \subseteq used \ live

(* What the browser holds is what the answer that came last left it with. *)
Cookies ==
  /\ last \in Login /\ ~Loopback => cookie[cookie_name].id = last
  /\ last = NoId => \A n \in Name : cookie[n] = NoCookie
  /\ \A n \in Name : cookie[n].id \in used \cup {Old, NoId}

(* A row that is alive outlives each cookie that names it, or that an answer
   on its way will set. *)
Outlives ==
  /\ \A n \in Name : cookie[n].until <= now + CookieAge
  /\ \A n \in Name : cookie[n].id \in live => 
       cookie[n].until <= now \/ cookie[n].until <= table[session_key(cookie[n].id)]
  /\ \A t \in Task :
       task[t].kind = "callback" /\ task[t].step = "reply" /\ task[t].id \in live =>
         table[session_key(task[t].id)] >= now + CookieAge + (IF task[t].late THEN 0 ELSE 1)

Inv ==
  /\ TypeOK /\ Rows /\ Progress /\ Dead /\ Cookies /\ Outlives /\ ExpiryIsReal
-----------------------------------------------------------------------------
(* Keys of rows differ as their kinds and logins do. *)
LEMMA Keys ==
  \A l, m \in Login :
    /\ session_key(l) \in Key /\ auth_key(l) \in Key
    /\ session_key(l) # auth_key(m)
    /\ l # m => session_key(l) # session_key(m) /\ auth_key(l) # auth_key(m)
BY DEF Key, session_key, auth_key

(* A write changes the row and keeps the one before it. *)
LEMMA WriteStep ==
  ASSUME TypeOK, NEW k \in Key, NEW e \in Nat, Write(k, e)
  PROVE  /\ table' \in [Key -> Nat] /\ behind' \in [Key -> Nat]
         /\ table'[k] = e /\ behind'[k] = table[k]
         /\ \A j \in Key : j # k => table'[j] = table[j] /\ behind'[j] = behind[j]
BY DEF TypeOK, Write

(* The type of a handler in TypeOK. *)
Handler ==
  [kind : Page \cup {"logout", "callback", "none"},
   step : {"idle", "sent", "consume", "exchange", "save", "refreshed", "revoke",
           "dropping", "reply"},
   id : Id, out : {"pending", "ok", "failed", "unauthorized"}, late : BOOLEAN]

(* A reply changes a handler's step and outcome only. *)
LEMMA ReplyStep ==
  ASSUME TypeOK, NEW t \in Task, NEW o \in {"ok", "failed", "unauthorized"},
         task' = [task EXCEPT ![t].step = "reply", ![t].out = o]
  PROVE  /\ task' \in [Task -> Handler]
         /\ task'[t].step = "reply" /\ task'[t].out = o
         /\ \A u \in Task :
              /\ task'[u].kind = task[u].kind /\ task'[u].id = task[u].id
              /\ task'[u].late = task[u].late
              /\ u # t => task'[u] = task[u]
<1>1. task \in [Task -> Handler]
  BY DEF TypeOK, Handler
<1> HIDE DEF Handler
<1>2. ASSUME NEW h \in Handler
      PROVE  /\ [h EXCEPT !.step = "reply", !.out = o] \in Handler
             /\ [h EXCEPT !.step = "reply", !.out = o].step = "reply"
             /\ [h EXCEPT !.step = "reply", !.out = o].out = o
             /\ [h EXCEPT !.step = "reply", !.out = o].kind = h.kind
             /\ [h EXCEPT !.step = "reply", !.out = o].id = h.id
             /\ [h EXCEPT !.step = "reply", !.out = o].late = h.late
  BY DEF Handler
<1>3. task'[t] = [task[t] EXCEPT !.step = "reply", !.out = o] /\ task[t] \in Handler
  BY <1>1
<1>4. task'[t] \in Handler /\ task'[t].step = "reply" /\ task'[t].out = o
      /\ task'[t].kind = task[t].kind /\ task'[t].id = task[t].id /\ task'[t].late = task[t].late
  BY <1>2, <1>3
<1>5. \A u \in Task : u # t => task'[u] = task[u]
  BY <1>1
<1>6. task' \in [Task -> Handler]
  BY <1>1, <1>4, <1>5
<1> QED BY <1>4, <1>5, <1>6

(* A request is a handler at its first step. *)
LEMMA RequestType ==
  ASSUME NEW kind \in Page \cup {"logout", "callback"}, NEW id \in Id
  PROVE  /\ Request(kind, id) \in Handler
         /\ Request(kind, id).kind = kind /\ Request(kind, id).step = "sent"
<1>1. Idle \in Handler
  BY DEF Idle, Handler, Id
<1>2. ASSUME NEW h \in Handler
      PROVE  /\ [h EXCEPT !.kind = kind, !.step = "sent", !.id = id] \in Handler
             /\ [h EXCEPT !.kind = kind, !.step = "sent", !.id = id].kind = kind
             /\ [h EXCEPT !.kind = kind, !.step = "sent", !.id = id].step = "sent"
  BY DEF Handler
<1> QED BY <1>1, <1>2 DEF Request

(* The browser starts with at most a cookie that names no session. *)
LEMMA InitInv == Init => Inv
<1> SUFFICES ASSUME Init PROVE Inv
  OBVIOUS
<1>1. table = [k \in Key |-> 0] /\ behind = table /\ now = 0
  BY DEF Init, StoreInit, NoRow
<1>2. TypeOK
  BY <1>1, LoginAssumption DEF Init, TypeOK, NoCookie, Idle, Id, Name, cookie_name
<1>3. Rows
  <2>1. ASSUME NEW l \in Login
        PROVE  /\ table[session_key(l)] = 0 /\ behind[session_key(l)] = 0
               /\ table[auth_key(l)] = 0 /\ behind[auth_key(l)] = 0 /\ begun[l] = 0
    <3>1. session_key(l) \in Key /\ auth_key(l) \in Key
      BY Keys
    <3> QED BY <1>1, <3>1 DEF Init
  <2>2. ASSUME NEW l \in Login
        PROVE  /\ table[session_key(l)] # NoRow \/ behind[session_key(l)] # NoRow => l \in used
               /\ table[auth_key(l)] <= begun[l] /\ behind[auth_key(l)] <= begun[l]
    BY <2>1 DEF NoRow
  <2> QED BY <2>2 DEF Rows
<1>4. Progress /\ Dead /\ ExpiryIsReal
  BY DEF Init, Progress, Dead, ExpiryIsReal, Idle
<1>5. Cookies /\ Outlives
  BY <1>1, LoginAssumption DEF Init, Cookies, Outlives, NoCookie, Idle, Name, cookie_name
<1> QED BY <1>2, <1>3, <1>4, <1>5 DEF Inv

(* A save of a session keeps every cookie's row alive for longer than the
   cookie: CookieAge is less than SessionTTL. *)
LEMMA SessionWrite ==
  ASSUME Inv, NEW l \in Login, Write(session_key(l), now + SessionTTL),
         UNCHANGED <<now, cookie, live>>,
         \A u \in Task :
           /\ task'[u].kind = task[u].kind /\ task'[u].id = task[u].id
           /\ task'[u].late = task[u].late
           /\ task'[u].kind = "callback" =>
                task'[u].step = task[u].step \/ task[u].id = l
  PROVE  Outlives'
<1>1. session_key(l) \in Key /\ now + SessionTTL \in Nat
  BY Keys, StoreAssumption DEF Inv, TypeOK
<1>2. table'[session_key(l)] = now + SessionTTL
  BY <1>1, WriteStep DEF Inv
<1>3. \A m \in Login : m # l => table'[session_key(m)] = table[session_key(m)]
  BY <1>1, WriteStep, Keys DEF Inv
<1>4. live \subseteq Login /\ now \in Nat /\ now + CookieAge + 1 <= now + SessionTTL
  BY LoginAssumption, StoreAssumption DEF Inv, TypeOK
<1>5. ASSUME NEW n \in Name, cookie[n].id \in live
      PROVE  cookie[n].until <= now \/ cookie[n].until <= table'[session_key(cookie[n].id)]
  <2>1. CASE cookie[n].id = l
    BY <1>2, <1>4, <2>1, LoginAssumption, StoreAssumption DEF Inv, Outlives, TypeOK
  <2>2. CASE cookie[n].id # l
    BY <1>3, <1>4, <1>5, <2>2 DEF Inv, Outlives
  <2> QED BY <2>1, <2>2
<1>6. ASSUME NEW u \in Task, task'[u].kind = "callback", task'[u].step = "reply", task'[u].id \in live
      PROVE  table'[session_key(task'[u].id)] >= now + CookieAge + (IF task'[u].late THEN 0 ELSE 1)
  <2>1. CASE task'[u].id = l
    BY <1>2, <1>4, <2>1, LoginAssumption, StoreAssumption
  <2>2. CASE task'[u].id # l
    BY <1>3, <1>4, <1>6, <2>2 DEF Inv, Outlives
  <2> QED BY <2>1, <2>2
<1> QED BY <1>5, <1>6 DEF Inv, Outlives

(* The browser sends a value it was given. *)
LEMMA CookieType == TypeOK => session_cookie_value \in Id
BY DEF TypeOK, session_cookie_value, Name, Id

(* A handler that goes on after restore(), or gives up, with no effect on
   anything else. *)
LEMMA RestoredStep ==
  ASSUME Inv, NEW t \in Task, task[t].kind # "callback",
         \/ /\ task[t].id \in used
            /\ task' = [task EXCEPT ![t].step = "refreshed"] \/ Restored(t)
         \/ task' = [task EXCEPT ![t].step = "reply", ![t].out = "unauthorized"],
         task[t].kind \in Page \cup {"logout"},
         UNCHANGED <<table, behind, now, cookie, begun, used, live, last, revoked>>
  PROVE  Inv'
<1> USE DEF Inv
<1>1. TypeOK'
  BY DEF TypeOK, Restored, Goto, Reply
<1>2. Rows' /\ Dead' /\ Cookies'
  BY DEF Rows, Dead, Cookies
<1>3. Progress'
  BY DEF Progress, TypeOK, Restored, Goto, Reply
<1>4. Outlives' /\ ExpiryIsReal'
  BY DEF Outlives, ExpiryIsReal, TypeOK, Restored, Goto, Reply
<1> QED BY <1>1, <1>2, <1>3, <1>4

(* Every await of every handler, and everything around them, keeps Inv. *)
LEMMA NextInv ==
  ASSUME Inv, Next
  PROVE  Inv'
<1> USE DEF Inv
<1>1. ASSUME NEW l \in Login, StartLogin(l) PROVE Inv'
  <2>1. Write(auth_key(l), now + AuthTTL) /\ begun' = [begun EXCEPT ![l] = now + AuthTTL]
    BY <1>1 DEF StartLogin, put
  <2>2. now + AuthTTL \in Nat /\ begun[l] = 0 /\ auth_key(l) \in Key
    BY <1>1, StoreAssumption, Keys DEF StartLogin, TypeOK
  <2>3. UNCHANGED <<now, cookie, task, used, live, last, revoked>>
    BY <1>1 DEF StartLogin, history
  <2>4. TypeOK'
    BY <2>1, <2>2, <2>3, WriteStep DEF TypeOK
  <2>5. Rows'
    BY <2>1, <2>2, <2>3, WriteStep, Keys DEF Rows, TypeOK, NoRow
  <2>6. Progress' /\ Dead' /\ Cookies'
    BY <2>3 DEF Progress, Dead, Cookies
  <2>7. Outlives'
    BY <2>1, <2>2, <2>3, WriteStep, Keys DEF Outlives, TypeOK
  <2>8. ExpiryIsReal'
    BY <2>1, <2>2, <2>3 DEF ExpiryIsReal, TypeOK, Progress
  <2> QED BY <2>4, <2>5, <2>6, <2>7, <2>8
<1>2. ASSUME NEW t \in Task, NEW l \in Login, Return(t, l) PROVE Inv'
  <2>1. /\ task[t] = Idle /\ task' = [task EXCEPT ![t] = Request("callback", l)]
        /\ UNCHANGED <<table, behind, now, cookie, begun, used, live, last, revoked>>
    BY <1>2 DEF Return, storeVars, external, history
  <2>2. TypeOK'
    BY <2>1 DEF TypeOK, Request, Idle, Id
  <2>3. Rows' /\ Dead' /\ Cookies'
    BY <2>1 DEF Rows, Dead, Cookies
  <2>4. Progress' /\ Outlives' /\ ExpiryIsReal'
    BY <2>1 DEF Progress, Outlives, ExpiryIsReal, TypeOK, Request, Idle
  <2> QED BY <2>2, <2>3, <2>4
<1>3. ASSUME NEW t \in Task, CallbackRead(t) PROVE Inv'
  <2>1. /\ task[t].kind = "callback" /\ task' = [task EXCEPT ![t].step = "consume"]
        /\ task[t].id \in Login /\ TRUE \in get(auth_key(task[t].id))
        /\ UNCHANGED <<table, behind, now, cookie, begun, used, live, last, revoked>>
    BY <1>3 DEF CallbackRead, At, Goto, storeVars, external, history, Progress
  <2>2. TypeOK'
    BY <2>1 DEF TypeOK
  <2>3. Rows' /\ Dead' /\ Cookies'
    BY <2>1 DEF Rows, Dead, Cookies
  <2>4. Progress' /\ Outlives'
    BY <2>1 DEF Progress, Outlives, TypeOK
  <2>5. now < begun[task[t].id]
    <3>1. PICK e \in {table[auth_key(task[t].id)], behind[auth_key(task[t].id)]} : e > now
      BY <2>1 DEF get
    <3>2. auth_key(task[t].id) \in Key
      BY <2>1, Keys
    <3> QED BY <2>1, <3>1, <3>2 DEF Rows, TypeOK
  <2>6. ExpiryIsReal'
    BY <2>1, <2>5 DEF ExpiryIsReal, TypeOK
  <2> QED BY <2>2, <2>3, <2>4, <2>6
<1>4. ASSUME NEW t \in Task, CallbackConsume(t) PROVE Inv'
  <2> DEFINE l == task[t].id
  <2>1. /\ task[t].kind = "callback" /\ task[t].step = "consume" /\ l \in Login
        /\ task' = [task EXCEPT ![t].step = "exchange"] /\ Write(auth_key(l), 0)
        /\ UNCHANGED <<now, cookie, begun, used, live, last, revoked>>
    BY <1>4 DEF CallbackConsume, At, Goto, remove, NoRow, external, history, Progress
  <2>2. auth_key(l) \in Key
    BY <2>1, Keys
  <2> HIDE DEF l
  <2>3. TypeOK'
    BY <2>1, <2>2, WriteStep DEF TypeOK
  <2>4. Rows'
    BY <2>1, <2>2, WriteStep, Keys DEF Rows, TypeOK, NoRow
  <2>5. Dead' /\ Cookies' /\ Progress' /\ ExpiryIsReal'
    BY <2>1 DEF Dead, Cookies, Progress, ExpiryIsReal, TypeOK, l
  <2>6. \A m \in Login : table'[session_key(m)] = table[session_key(m)]
    BY <2>1, <2>2, WriteStep, Keys
  <2>7. Outlives'
    BY <2>1, <2>6 DEF Outlives, TypeOK
  <2> QED BY <2>3, <2>4, <2>5, <2>7
<1>5. ASSUME NEW t \in Task, CallbackExchange(t) PROVE Inv'
  <2> DEFINE l == task[t].id
  <2>1. /\ task[t].kind = "callback" /\ task[t].step = "exchange" /\ l \in Login /\ l \notin used
        /\ used' = used \cup {l} /\ live' = live \cup {l}
        /\ task' = [task EXCEPT ![t].step = "save"]
        /\ UNCHANGED <<table, behind, now, cookie, begun, last, revoked>>
    BY <1>5 DEF CallbackExchange, At, Goto, storeVars, history, Progress
  <2> HIDE DEF l
  <2>2. TypeOK'
    BY <2>1 DEF TypeOK
  <2>3. Rows' /\ Dead' /\ Cookies'
    BY <2>1 DEF Rows, Dead, Cookies
  <2>4. Progress' /\ ExpiryIsReal'
    BY <2>1 DEF Progress, ExpiryIsReal, TypeOK, l
  <2>5. \A n \in Name : cookie[n].id # l
    BY <2>1, LoginAssumption DEF Cookies
  <2>6. \A u \in Task : u # t /\ task[u].kind = "callback" /\ task[u].step = "reply" => task[u].id # l
    BY <2>1 DEF Progress
  <2>7. Outlives'
    BY <2>1, <2>5, <2>6 DEF Outlives, TypeOK
  <2> QED BY <2>2, <2>3, <2>4, <2>7
<1>6. ASSUME NEW t \in Task, CallbackSave(t) PROVE Inv'
  <2> DEFINE l == task[t].id
  <2>1. /\ task[t].kind = "callback" /\ task[t].step = "save" /\ l \in Login /\ l \in used
        /\ task' = [task EXCEPT ![t].step = "reply", ![t].out = "ok"]
        /\ Write(session_key(l), now + SessionTTL)
        /\ UNCHANGED <<now, cookie, begun, used, live, last, revoked>>
    BY <1>6 DEF CallbackSave, At, Reply, put, external, history, Progress
  <2>2. session_key(l) \in Key /\ now + SessionTTL \in Nat
    BY <2>1, Keys, StoreAssumption DEF TypeOK
  <2> HIDE DEF l
  <2>3. TypeOK'
    <3>1. table' \in [Key -> Nat] /\ behind' \in [Key -> Nat]
      BY <2>1, <2>2, WriteStep
    <3>2. task' \in [Task -> Handler]
      BY <2>1, ReplyStep
    <3> QED BY <2>1, <3>1, <3>2 DEF TypeOK, Handler
  <2>4. Rows'
    BY <2>1, <2>2, WriteStep, Keys DEF Rows, TypeOK, NoRow
  <2>5. Dead' /\ Cookies' /\ Progress' /\ ExpiryIsReal'
    BY <2>1 DEF Dead, Cookies, Progress, ExpiryIsReal, TypeOK, l
  <2>6. Outlives'
    <3>1. \A u \in Task :
            /\ task'[u].kind = task[u].kind /\ task'[u].id = task[u].id
            /\ task'[u].late = task[u].late
            /\ task'[u].kind = "callback" => task'[u].step = task[u].step \/ task[u].id = l
      BY <2>1 DEF TypeOK, l
    <3> QED BY <2>1, <3>1, SessionWrite
  <2> QED BY <2>3, <2>4, <2>5, <2>6
<1>7. ASSUME NEW t \in Task, NEW kind \in Page \cup {"logout"}, Open(t, kind) PROVE Inv'
  <2>1. /\ task[t] = Idle /\ task' = [task EXCEPT ![t] = Request(kind, session_cookie_value)]
        /\ UNCHANGED <<table, behind, now, cookie, begun, used, live, last, revoked>>
    BY <1>7 DEF Open, storeVars, external, history
  <2>2. session_cookie_value \in Id /\ kind # "callback"
    BY CookieType, LoginAssumption DEF Page
  <2>3. TypeOK'
    BY <2>1, <2>2 DEF TypeOK, Request, Idle
  <2>4. Rows' /\ Dead' /\ Cookies'
    BY <2>1 DEF Rows, Dead, Cookies
  <2>5. Progress' /\ Outlives' /\ ExpiryIsReal'
    BY <2>1, <2>2 DEF Progress, Outlives, ExpiryIsReal, TypeOK, Request, Idle
  <2> QED BY <2>3, <2>4, <2>5
<1>8. ASSUME NEW t \in Task, Restore(t) PROVE Inv'
  <2>1. /\ task[t].kind \in Page \cup {"logout"} /\ task[t].kind # "callback"
        /\ UNCHANGED <<table, behind, now, cookie, begun, used, live, last, revoked>>
    BY <1>8 DEF Restore, At, Page, storeVars, external, history
  <2>2. \/ /\ task[t].id \in used
           /\ \/ task' = [task EXCEPT ![t].step = "refreshed"]
              \/ Restored(t)
        \/ task' = [task EXCEPT ![t].step = "reply", ![t].out = "unauthorized"]
    <3>1. CASE parse_session_cookie(task[t].id) /\ TRUE \in get(session_key(task[t].id))
      <4>1. PICK e \in {table[session_key(task[t].id)], behind[session_key(task[t].id)]} : e > now
        BY <3>1 DEF get
      <4>2. task[t].id \in Login /\ session_key(task[t].id) \in Key
        BY <3>1, Keys DEF parse_session_cookie
      <4>3. task[t].id \in used
        BY <4>1, <4>2 DEF Rows, TypeOK, NoRow
      <4> QED BY <1>8, <4>3 DEF Restore, Goto, Reply
    <3> QED BY <1>8, <3>1 DEF Restore, Reply
  <2> QED BY <2>1, <2>2, RestoredStep
<1>9. ASSUME NEW t \in Task, SaveRefreshed(t) PROVE Inv'
  <2> DEFINE l == task[t].id
  <2>1. /\ task[t].kind \in Page \cup {"logout"} /\ task[t].kind # "callback" /\ l \in used
        /\ task[t].step = "refreshed"
        /\ UNCHANGED <<now, cookie, begun, used, live, last, revoked>>
    BY <1>9 DEF SaveRefreshed, At, Page, external, history, Progress
  <2>2. CASE Write(session_key(l), now + SessionTTL) /\ Restored(t)
    <3>1. l \in Login /\ session_key(l) \in Key /\ now + SessionTTL \in Nat
      BY <2>1, Keys, StoreAssumption DEF TypeOK
    <3>2. TypeOK' /\ Progress' /\ ExpiryIsReal'
      <4>1. table' \in [Key -> Nat] /\ behind' \in [Key -> Nat]
        BY <2>2, <3>1, WriteStep
      <4>2. CASE task[t].kind = "logout"
        <5>1. task' = [task EXCEPT ![t].step = "revoke"]
          BY <2>2, <4>2 DEF Restored, Goto
        <5> QED BY <2>1, <4>1, <5>1 DEF TypeOK, Progress, ExpiryIsReal
      <4>3. CASE task[t].kind # "logout"
        <5>1. task' = [task EXCEPT ![t].step = "reply", ![t].out = "ok"]
          BY <2>2, <4>3 DEF Restored, Reply
        <5>2. task' \in [Task -> Handler]
          BY <5>1, ReplyStep
        <5>3. TypeOK'
          BY <2>1, <4>1, <5>2 DEF TypeOK, Handler
        <5>4. Progress' /\ ExpiryIsReal'
          <6>1. /\ task'[t].step = "reply" /\ task'[t].kind = task[t].kind
                /\ \A u \in Task : u # t => task'[u] = task[u]
            BY <5>1, ReplyStep
          <6> QED BY <2>1, <4>3, <6>1 DEF Progress, ExpiryIsReal
        <5> QED BY <5>3, <5>4
      <4> QED BY <4>2, <4>3
    <3> HIDE DEF l
    <3>3. Rows'
      BY <2>1, <2>2, <3>1, WriteStep, Keys DEF Rows, TypeOK, NoRow
    <3>4. Dead' /\ Cookies'
      BY <2>1 DEF Dead, Cookies
    <3>5. Outlives'
      <4>1. \A u \in Task : task'[u].kind = task[u].kind /\ task'[u].id = task[u].id
             /\ task'[u].late = task[u].late
             /\ (task'[u].kind = "callback" => task'[u].step = task[u].step)
        <5>1. \/ task' = [task EXCEPT ![t].step = "revoke"]
              \/ task' = [task EXCEPT ![t].step = "reply", ![t].out = "ok"]
          BY <2>2 DEF Restored, Goto, Reply
        <5> QED BY <2>1, <5>1 DEF TypeOK
      <4> QED BY <2>1, <2>2, <3>1, <4>1, SessionWrite
    <3> QED BY <3>2, <3>3, <3>4, <3>5
  <2>3. CASE Reply(t, "unauthorized") /\ UNCHANGED storeVars
    BY <2>1, <2>3, RestoredStep DEF Reply, storeVars
  <2> QED BY <1>9, <2>2, <2>3 DEF SaveRefreshed, put
<1>10. ASSUME NEW t \in Task, Revoke(t) PROVE Inv'
  <2> DEFINE l == task[t].id
  <2>1. /\ task[t].kind = "logout" /\ task[t].step = "revoke" /\ l \in used
        /\ UNCHANGED <<table, behind, now, cookie, begun, used, last, revoked>>
    BY <1>10 DEF Revoke, At, storeVars, history, Progress
  <2>2. CASE live' = live \ {l} /\ task' = [task EXCEPT ![t].step = "dropping"]
    <3>1. TypeOK'
      BY <2>1, <2>2 DEF TypeOK
    <3>2. Rows' /\ Dead' /\ Cookies'
      BY <2>1, <2>2 DEF Rows, Dead, Cookies
    <3>3. Progress' /\ ExpiryIsReal'
      BY <2>1, <2>2 DEF Progress, ExpiryIsReal, TypeOK
    <3>4. Outlives'
      BY <2>1, <2>2 DEF Outlives, TypeOK
    <3> QED BY <3>1, <3>2, <3>3, <3>4
  <2>3. CASE UNCHANGED live /\ task' = [task EXCEPT ![t].step = "reply", ![t].out = "failed"]
    <3>1. /\ task' \in [Task -> Handler]
          /\ task'[t].step = "reply" /\ task'[t].out = "failed" /\ task'[t].kind = task[t].kind
          /\ \A u \in Task : u # t => task'[u] = task[u]
      BY <2>3, ReplyStep
    <3>2. TypeOK'
      BY <2>1, <2>3, <3>1 DEF TypeOK, Handler
    <3>3. Rows' /\ Dead' /\ Cookies'
      BY <2>1, <2>3 DEF Rows, Dead, Cookies
    <3>4. Progress' /\ Outlives' /\ ExpiryIsReal'
      BY <2>1, <2>3, <3>1 DEF Progress, Outlives, ExpiryIsReal
    <3> QED BY <3>2, <3>3, <3>4
  <2> QED BY <1>10, <2>2, <2>3 DEF Revoke, Goto, Reply
<1>11. ASSUME NEW t \in Task, DropSession(t) PROVE Inv'
  <2> DEFINE l == task[t].id
  <2>1. /\ task[t].kind = "logout" /\ l \in used \ live
        /\ UNCHANGED <<now, cookie, begun, used, live, last, revoked>>
    BY <1>11 DEF DropSession, At, external, history, Progress
  <2>2. PICK o \in {"ok", "failed"} :
          /\ task' = [task EXCEPT ![t].step = "reply", ![t].out = o]
          /\ Write(session_key(l), 0) \/ UNCHANGED <<table, behind>>
    BY <1>11 DEF DropSession, Reply, remove, NoRow, storeVars
  <2>3. /\ task' \in [Task -> Handler]
        /\ task'[t].step = "reply" /\ task'[t].kind = task[t].kind /\ task'[t].id = l
        /\ \A u \in Task : u # t => task'[u] = task[u]
    BY <2>2, ReplyStep
  <2>4. l \in Login /\ session_key(l) \in Key
    BY <2>1, Keys DEF TypeOK
  <2> HIDE DEF l
  <2>5. /\ table' \in [Key -> Nat] /\ behind' \in [Key -> Nat]
        /\ \A j \in Key : j # session_key(l) => table'[j] = table[j] /\ behind'[j] = behind[j]
    BY <2>2, <2>4, WriteStep DEF TypeOK
  <2>6. TypeOK'
    BY <2>1, <2>3, <2>5 DEF TypeOK, Handler
  <2>7. Rows'
    BY <2>1, <2>4, <2>5, Keys DEF Rows, TypeOK, NoRow
  <2>8. Dead' /\ Cookies'
    BY <2>1 DEF Dead, Cookies
  <2>9. Progress' /\ ExpiryIsReal'
    BY <2>1, <2>3 DEF Progress, ExpiryIsReal
  <2>10. \A m \in live : table'[session_key(m)] = table[session_key(m)]
    BY <2>1, <2>4, <2>5, Keys DEF TypeOK
  <2>11. Outlives'
    BY <2>1, <2>3, <2>10 DEF Outlives
  <2> QED BY <2>6, <2>7, <2>8, <2>9, <2>11
<1>12. ASSUME NEW t \in Task, Deliver(t) PROVE Inv'
  <2>1. /\ task[t].step = "reply"
        /\ UNCHANGED <<table, behind, now, begun, used, live>>
    BY <1>12 DEF Deliver, storeVars, external
  <2> DEFINE h == IF Redirect(t) = "none" THEN Idle
                  ELSE Request(Redirect(t), session_cookie_value')
  <2>2. /\ task' = [task EXCEPT ![t] = h]
        /\ Redirect(t) \in {"none", "home", "dashboard"}
    BY <1>12 DEF Deliver, Redirect
  <2> HIDE DEF h
  <2>3. /\ revoked' \subseteq used \ live
        /\ \/ /\ task[t].kind = "callback"
              /\ cookie' = session_cookie(task[t].id) /\ last' = task[t].id
           \/ cookie' = clear_session /\ last' = NoId
           \/ UNCHANGED <<cookie, last>>
    BY <1>12, <2>1 DEF Deliver, Progress, Dead
  <2>4. /\ cookie' \in [Name -> [id : Id, until : Nat]] /\ last' \in Id
        /\ Cookies' /\ \A n \in Name : cookie'[n].until <= now + CookieAge
        /\ \A n \in Name : cookie'[n].id \in live =>
             cookie'[n].until <= now \/ cookie'[n].until <= table[session_key(cookie'[n].id)]
    <3>1. CASE /\ task[t].kind = "callback"
               /\ cookie' = session_cookie(task[t].id) /\ last' = task[t].id
      <4> DEFINE l == task[t].id
      <4>1. l \in Login /\ l \in used /\ cookie_name \in Name /\ now + CookieAge \in Nat
            /\ l # NoId
        BY <2>1, <3>1, LoginAssumption DEF Progress, TypeOK, cookie_name, Name
      <4>2. l \in live => now + CookieAge <= table[session_key(l)]
        <5>1. SUFFICES ASSUME l \in live PROVE now + CookieAge <= table[session_key(l)]
          OBVIOUS
        <5>2. table[session_key(l)] \in Nat
          BY <4>1, Keys DEF TypeOK
        <5>3. table[session_key(l)] >= now + CookieAge + (IF task[t].late THEN 0 ELSE 1)
          BY <2>1, <3>1, <5>1 DEF Outlives
        <5> QED BY <4>1, <5>2, <5>3
      <4>3. cookie' = [cookie EXCEPT ![cookie_name] = [id |-> l, until |-> now + CookieAge]]
        BY <3>1 DEF session_cookie
      <4> HIDE DEF l
      <4>4. cookie' \in [Name -> [id : Id, until : Nat]] /\ last' \in Id
        BY <3>1, <4>1, <4>3 DEF TypeOK, Id, l
      <4>5. /\ cookie'[cookie_name] = [id |-> l, until |-> now + CookieAge]
            /\ \A n \in Name : n # cookie_name => cookie'[n] = cookie[n]
        BY <4>1, <4>3 DEF TypeOK
      <4>6. UNCHANGED cookie_name
        BY DEF cookie_name
      <4>7. Cookies'
        BY <2>1, <3>1, <4>1, <4>5, <4>6 DEF Cookies, l
      <4> QED BY <4>1, <4>2, <4>4, <4>5, <4>7 DEF Outlives
    <3>2. CASE cookie' = clear_session /\ last' = NoId
      <4>1. \A n \in Name : cookie'[n] = [id |-> NoId, until |-> 0]
        BY <3>2 DEF clear_session, NoCookie
      <4>2. cookie' \in [Name -> [id : Id, until : Nat]] /\ last' \in Id
        BY <3>2 DEF clear_session, NoCookie, Id
      <4>3. Cookies'
        BY <3>2, <4>1, LoginAssumption DEF Cookies, NoCookie
      <4> QED BY <4>1, <4>2, <4>3, LoginAssumption DEF TypeOK
    <3>3. CASE UNCHANGED <<cookie, last>>
      BY <2>1, <3>3 DEF TypeOK, Cookies, Outlives
    <3> QED BY <2>3, <3>1, <3>2, <3>3
  <2>5. h \in Handler /\ h.kind \in Page \cup {"none"} /\ h.step \in {"idle", "sent"}
    <3>1. session_cookie_value' \in Id
      BY <2>4, LoginAssumption DEF session_cookie_value, Name, Id
    <3>2. CASE Redirect(t) = "none"
      BY <3>2 DEF h, Handler, Idle, Id
    <3>3. CASE Redirect(t) \in Page
      BY <3>1, <3>3, RequestType DEF h, Page
    <3> QED BY <2>2, <3>2, <3>3 DEF Page
  <2>6. TypeOK'
    BY <2>1, <2>2, <2>3, <2>4, <2>5 DEF TypeOK, Handler
  <2>7. Rows' /\ Dead'
    BY <2>1, <2>3 DEF Rows, Dead
  <2>8. Progress' /\ ExpiryIsReal'
    BY <2>1, <2>2, <2>5 DEF Progress, ExpiryIsReal, TypeOK, Page
  <2>9. Outlives'
    BY <2>1, <2>2, <2>4, <2>5 DEF Outlives, TypeOK, Page
  <2> QED BY <2>4, <2>6, <2>7, <2>8, <2>9
<1>13. ASSUME NEW t \in Task, Abandon(t) PROVE Inv'
  <2>1. /\ task' = [task EXCEPT ![t] = Idle]
        /\ UNCHANGED <<table, behind, now, cookie, begun, used, live, last, revoked>>
    BY <1>13 DEF Abandon, storeVars, external, history
  <2>2. TypeOK'
    BY <2>1 DEF TypeOK, Idle, Id
  <2>3. Rows' /\ Dead' /\ Cookies'
    BY <2>1 DEF Rows, Dead, Cookies
  <2>4. Progress' /\ Outlives' /\ ExpiryIsReal'
    BY <2>1 DEF Progress, Outlives, ExpiryIsReal, TypeOK, Idle
  <2> QED BY <2>2, <2>3, <2>4
<1>14. ASSUME NEW k \in Key, Sweep(k), UNCHANGED <<cookie, task, external, history>> PROVE Inv'
  <2>1. /\ table[k] <= now /\ Write(k, 0)
        /\ UNCHANGED <<now, cookie, task, begun, used, live, last, revoked>>
    BY <1>14 DEF Sweep, NoRow, external, history
  <2>2. /\ table' \in [Key -> Nat] /\ behind' \in [Key -> Nat]
        /\ table'[k] = 0 /\ behind'[k] = table[k]
        /\ \A j \in Key : j # k => table'[j] = table[j] /\ behind'[j] = behind[j]
    BY <2>1, WriteStep
  <2>3. TypeOK'
    BY <2>1, <2>2 DEF TypeOK
  <2>4. Rows'
    BY <2>1, <2>2, Keys DEF Rows, TypeOK, NoRow
  <2>5. Progress' /\ Dead' /\ Cookies' /\ ExpiryIsReal'
    BY <2>1 DEF Progress, Dead, Cookies, ExpiryIsReal
  <2>6. \A m \in live : \/ table'[session_key(m)] = table[session_key(m)]
                        \/ table[session_key(m)] \in Nat /\ table[session_key(m)] <= now
    BY <2>1, <2>2, Keys DEF TypeOK
  <2>7. ASSUME NEW n \in Name, cookie[n].id \in live
        PROVE  cookie[n].until <= now \/ cookie[n].until <= table'[session_key(cookie[n].id)]
    BY <2>1, <2>6, <2>7 DEF Outlives, TypeOK
  <2>8. ASSUME NEW u \in Task, task[u].kind = "callback", task[u].step = "reply",
               task[u].id \in live
        PROVE  table'[session_key(task[u].id)] = table[session_key(task[u].id)]
    BY <2>6, <2>8, LoginAssumption DEF Outlives, TypeOK
  <2>9. Outlives'
    BY <2>1, <2>7, <2>8 DEF Outlives
  <2> QED BY <2>3, <2>4, <2>5, <2>9
<1>15. ASSUME Tick PROVE Inv'
  <2>1. /\ now' = now + 1 /\ now \in Nat
        /\ \A t \in Task : ~task[t].late
        /\ task' = [t \in Task |-> [task[t] EXCEPT !.late = task[t] # Idle]]
        /\ UNCHANGED <<table, behind, cookie, begun, used, live, last, revoked>>
    BY <1>15 DEF Tick, TypeOK, storeVars, external, history
  <2>2. \A t \in Task :
          /\ task'[t] \in Handler
          /\ task'[t].kind = task[t].kind /\ task'[t].step = task[t].step
          /\ task'[t].id = task[t].id /\ task'[t].out = task[t].out
          /\ task'[t].late = (task[t] # Idle)
    BY <2>1 DEF TypeOK, Handler
  <2>3. TypeOK'
    <3>1. task' \in [Task -> Handler]
      BY <2>1, <2>2
    <3> QED BY <2>1, <3>1 DEF TypeOK, Handler
  <2>4. Rows' /\ Dead' /\ Cookies'
    BY <2>1 DEF Rows, Dead, Cookies
  <2>5. Progress'
    BY <2>1, <2>2 DEF Progress
  <2>6. \A t \in Task : task[t].kind = "callback" => task'[t].late
    <3> SUFFICES ASSUME NEW t \in Task, task[t].kind = "callback" PROVE task'[t].late
      OBVIOUS
    <3>1. task[t] # Idle
      BY DEF Idle
    <3> QED BY <2>2, <3>1
  <2>7. ExpiryIsReal'
    BY <2>2, <2>6 DEF ExpiryIsReal
  <2>8. Outlives'
    BY <2>1, <2>2, <2>6, Keys, LoginAssumption DEF Outlives, TypeOK
  <2> QED BY <2>3, <2>4, <2>5, <2>7, <2>8
<1> QED
  BY <1>1, <1>2, <1>3, <1>4, <1>5, <1>6, <1>7, <1>8, <1>9, <1>10, <1>11, <1>12, <1>13,
     <1>14, <1>15
  DEF Next, Handle, Browse

(* Inv is an invariant of signing in and out, whatever the fairness. *)
THEOREM Invariance == Spec => []Inv
<1>1. Inv /\ UNCHANGED vars => Inv'
  BY DEF vars, Inv, TypeOK, Rows, Progress, Dead, Cookies, Outlives, ExpiryIsReal,
     NoRow, cookie_name
<1> QED BY <1>1, InitInv, NextInv, PTL DEF Spec

(* The types of the table, the cookies and the handlers hold. *)
THEOREM TypeCorrect == Spec => []TypeOK
BY Invariance, PTL DEF Inv

(* Where the deployment uses the prefixed cookie name, a request carries the
   session of the login that came back last, whatever else the browser holds. *)
THEOREM LatestLoginWinsHolds ==
  ASSUME Loopback = FALSE
  PROVE  Spec => []LatestLoginWins
<1>1. Inv => LatestLoginWins
  BY DEF Inv, Cookies, LatestLoginWins, session_cookie_value, cookie_name
<1> QED BY <1>1, Invariance, PTL

(* A browser that was signed out carries no session until a login comes back. *)
THEOREM SignedOutStaysOutHolds == Spec => []SignedOutStaysOut
<1>1. Inv => SignedOutStaysOut
  BY DEF Inv, Cookies, SignedOutStaysOut, session_cookie_value, NoCookie, Name
<1> QED BY <1>1, Invariance, PTL

(* No browser holds the cookie of a live session whose row has expired. *)
THEOREM StoreOutlivesCookieHolds == Spec => []StoreOutlivesCookie
<1>1. Inv => StoreOutlivesCookie
  <2> SUFFICES ASSUME Inv, NEW n \in Name, Held(n), cookie[n].id \in live
               PROVE  table[session_key(cookie[n].id)] > now
    BY DEF StoreOutlivesCookie
  <2>1. cookie[n].id \in Login /\ session_key(cookie[n].id) \in Key
    BY Keys DEF Inv, TypeOK
  <2> QED BY <2>1 DEF Inv, Outlives, TypeOK, Held
<1> QED BY <1>1, Invariance, PTL

(* No callback goes on with an authorization request that has expired, though
   its row may still be read. *)
THEOREM ExpiryIsRealHolds == Spec => []ExpiryIsReal
BY Invariance, PTL DEF Inv

(* A session that a completed logout has revoked stays dead, however refreshes
   and stale reads put its row back. *)
THEOREM RevokedIsDeadHolds == Spec => []RevokedIsDead
<1>1. Inv => RevokedIsDead
  BY DEF Inv, Dead, RevokedIsDead
<1> QED BY <1>1, Invariance, PTL
=============================================================================
