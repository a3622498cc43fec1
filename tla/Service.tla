------------------------------ MODULE Service ------------------------------
(***************************************************************************)
(* One instance of the program (src/src/lib.rs): it starts from its        *)
(* configuration, then answers requests, each of which may go through the  *)
(* rate limiter, up to seven calls of other servers, the request timeout   *)
(* and the error pages, and be kept by a cache in front of it.             *)
(*                                                                         *)
(* Handlers share only the limiter, so one request in flight shows what    *)
(* they can do. The code under one short link stands for all of them. A    *)
(* tick is one http_timeout: a call that hangs fails when it is over.      *)
(***************************************************************************)
EXTENDS Domain, Startup, ErrorPage

CONSTANTS
  Elsewhere,   \* destinations that another client may write into the record
  Submitted,   \* destinations that users submit here
  RelayLag,    \* ticks by which the relay's copy of a repository may be late
  Budget,      \* request_timeout_ms, in ticks
  HandleHops,  \* calls in one resolve_handle: DNS, the well-known document, the PDS
  Sender,      \* who sends requests, told apart by an address
  Anonymous,   \* the senders whose address cannot be determined
  Burst        \* rate_limit.burst_size; one more request per tick

VARIABLES
  phase,    \* "starting", "panicked", or the session store that was opened
  given,    \* the sources the configuration is loaded from: Config.toml, ATPR__
  config,   \* the configuration the process runs with
  account,  \* external: whether the handle in the address is somebody's
  value,    \* external: the record in the owner's repository, as another client sees it
  idle,     \* history: ticks since each value was last the record, up to a cap
  tokens,   \* the limiter: requests each key may still send at once
  quiet,    \* history: ticks since each sender's last limited request, up to Burst
  cached,   \* external: the entry a shared cache holds for the short link
  req       \* the request in flight

world == <<account, value, idle>>
limiter == <<tokens, quiet>>
vars == <<phase, given, config, account, value, idle, tokens, quiet, cached, req>>

Up == phase \in {"Memory", "File", "Dynamo"}
NoRecord == [len |-> 0, grows |-> 0, kind |-> "none"]
Value == {NoRecord} \cup Elsewhere \cup {Serialized(s) : s \in Submitted}
Usable(v) == v # NoRecord /\ ParseTarget(v) = "ok"
Least(a, b) == IF a < b THEN a ELSE b

MaxAges == Settings.max_age \cup {Default.max_age}

ASSUME ServiceAssumption ==
  /\ Elsewhere \cup Submitted \subseteq RawUrl
  /\ RelayLag \in Nat /\ Budget \in Nat \ {0} /\ HandleHops \in Nat \ {0}
  /\ Anonymous \subseteq Sender /\ Burst \in Nat \ {0} /\ "shared" \notin Sender
  /\ MaxAges \subseteq Nat /\ \E a \in MaxAges : \A b \in MaxAges : b <= a

Cap == RelayLag + 1 + CHOOSE a \in MaxAges : \A b \in MaxAges : b <= a

LinkRoutes == {"link", "info"}
WriteRoutes == {"shorten", "update", "delete"}
OtherLimited == {"login", "logout", "links", "callback"}
Plain == {"qr", "static", "metadata", "unknown"}
Route ==
  LinkRoutes \cup WriteRoutes \cup OtherLimited \cup Plain \cup {"health", "home", "dashboard"}
Limited == WriteRoutes \cup OtherLimited
under_api(route) == route \in (Limited \ {"callback"}) \cup {"health"}

Relay == {"slingshot_handle", "slingshot_record", "describe", "ping"}
Direct == {"resolve_handle", "resolve_did_doc", "fetch_record", "did_handle"}
Owner == {"restore", "store", "other"}

NoAnswer == Response(0, "none", -1)
NoRequest ==
  [route |-> "none", client |-> "other", refused |-> "nobody", step |-> "none", age |-> 0,
   hop |-> 0, failed |-> FALSE, slow |-> 0, rested |-> FALSE, target |-> NoRecord,
   resp |-> NoAnswer]
NoEntry == [resp |-> NoAnswer, target |-> NoRecord, left |-> 0]

(* ClientIpKeyExtractor; its mutant is the one bucket it replaced. *)
GlobalKey(s) == "shared"
extract(s) == IF s \in Anonymous THEN "shared" ELSE s

Init ==
  /\ phase = "starting"
  /\ given \in (Source \cup {Malformed}) \X Source
  /\ config = Default
  /\ account \in BOOLEAN
  /\ value = NoRecord
  /\ idle = [v \in Value |-> IF v = value THEN 0 ELSE Cap]
  /\ tokens = [k \in Sender \cup {"shared"} |-> Burst]
  /\ quiet = [s \in Sender |-> Burst]
  /\ cached = NoEntry
  /\ req = NoRequest

(* router(): load(), build_state(), router_with_state(). *)
Boot ==
  /\ phase = "starting"
  /\ LET c == load(given[1], given[2]) IN
       IF c = Panic THEN phase' = "panicked" /\ UNCHANGED config
       ELSE /\ \E s \in SessionStore(c) : phase' = IF s = Panic THEN "panicked" ELSE s
            /\ config' = c
  /\ given' = <<Nothing, Nothing>>
  /\ UNCHANGED <<world, limiter, cached, req>>

-----------------------------------------------------------------------------
(* An answer on its way out, through the layers around the router. *)
Answered(r, target, failed) ==
  req' = [req EXCEPT !.step = "answered", !.hop = 0, !.target = target, !.failed = failed,
            !.resp = Layers(req.client, under_api(req.route), is_loopback(config), r)]

Answer(r) == Answered(r, NoRecord, req.failed)
Error(e) == Answer(into_response(e))
FailedAtSource(e) == Answered(into_response(e), NoRecord, TRUE)
Call(step) == req' = [req EXCEPT !.step = step, !.hop = 0]

At(step) == req.step = step
Quietly == UNCHANGED <<phase, given, config, limiter, cached>>

(* The mutant of cache_control: as if the redirect were permanent. *)
cache_control_permanent(max_age) == Cap + 1

(* cache_control(): no header when caching is off. *)
cache_control(max_age) == IF max_age = 0 THEN -1 ELSE max_age

(* resolve() and info(), of a link that was found. *)
redirect == Response(307, "none", cache_control(config.max_age))
preview == Response(200, "html", -1)

Found(v) ==
  Answered(IF req.route = "link" THEN redirect ELSE preview, Serialized(v), req.failed)

(* The mutant of getrecord_failure: any 4xx is a missing record. *)
getrecord_by_status(f) == IF f = "transport" THEN "Upstream" ELSE "NotFound"

(* getrecord_failure(): a 404, or a 400 with the name RecordNotFound in it. *)
getrecord_failure(f) == IF f \in {"404", "RecordNotFound"} THEN "NotFound" ELSE "Upstream"

(* What a getRecord of v comes to, in any way it may answer. *)
link_from_get_record(v) ==
  IF v = NoRecord THEN {getrecord_failure(f) : f \in {"404", "RecordNotFound"}}
  ELSE IF ParseTarget(v) = "ok" THEN {"ok"} ELSE {"NotFound"}

Unreachable == {getrecord_failure(f) : f \in {"other name", "no name", "transport"}}

(* The mutant of is_not_found: every failure of the relay is final. *)
always_final(e) == e # "ok"
is_not_found(e) == e \in {"NotFound", "HandleNotFound"}

(* Chained: what cannot be answered by the relay is asked of the PDS. *)
FallBack(e) == IF is_not_found(e) THEN Error(e) ELSE Call("resolve_handle")

(* Slingshot, two hops *)
SlingshotHandle ==
  /\ At("slingshot_handle")
  /\ \/ account /\ Call("slingshot_record")
     \/ ~account /\ FallBack("HandleNotFound")
     \/ FallBack("Upstream")
  /\ Quietly /\ UNCHANGED world

SlingshotRecord ==
  /\ At("slingshot_record")
  /\ \/ \E v \in {u \in Value : idle[u] <= RelayLag} : \E e \in link_from_get_record(v) :
          IF e = "ok" THEN Found(v) ELSE FallBack(e)
     \/ \E e \in Unreachable : FallBack(e)
  /\ Quietly /\ UNCHANGED world

(* Direct: a lookup of the handle that got nowhere cannot tell a handle that
   does not exist from one whose every source is unreachable. *)
ResolveHandle ==
  /\ At("resolve_handle")
  /\ \/ account /\ Call("resolve_did_doc")
     \/ ~account /\ Error("HandleNotFound")
     \/ \E e \in {"HandleNotFound", "Upstream"} : FailedAtSource(e)
  /\ Quietly /\ UNCHANGED world

ResolveDidDoc ==
  /\ At("resolve_did_doc")
  /\ Call("fetch_record") \/ FailedAtSource("Upstream")
  /\ Quietly /\ UNCHANGED world

FetchRecord ==
  /\ At("fetch_record")
  /\ \/ \E e \in link_from_get_record(value) : IF e = "ok" THEN Found(value) ELSE Error(e)
     \/ \E e \in Unreachable : FailedAtSource(e)
  /\ Quietly /\ UNCHANGED world

(* handle_for(): the relay's describeRepo, then the DID document. A dashboard
   does without a name, an answer to shorten cannot. *)
Named == Answer(Response(200, IF req.route = "dashboard" THEN "html" ELSE "json", -1))

Describe ==
  /\ At("describe")
  /\ Named \/ Call("did_handle")
  /\ Quietly /\ UNCHANGED world

DidHandle ==
  /\ At("did_handle")
  /\ Named \/ (req.route = "shorten" /\ FailedAtSource("Upstream"))
  /\ Quietly /\ UNCHANGED world

(* health() pings the relay. *)
Ping ==
  /\ At("ping")
  /\ \E s \in {200, 503} : Answer(Response(s, "json", -1))
  /\ Quietly /\ UNCHANGED world

-----------------------------------------------------------------------------
SetRecord(v) ==
  /\ value' = v
  /\ idle' = [idle EXCEPT ![v] = 0]
  /\ UNCHANGED account

(* authenticate() (Login), then the handler: its inputs are parsed before the
   store is asked. *)
Restore ==
  /\ At("restore")
  /\ \/ IF req.route = "dashboard" THEN Answer(Response(303, "none", -1))
        ELSE Error("Unauthorized")
     \/ req.route = "dashboard" /\ Call("describe")
     \/ /\ req.route \in WriteRoutes
        /\ \E c \in RawCode : ParseCode(c) # "ok" /\ Error("BadRequest")
     \/ /\ req.route \in WriteRoutes
        /\ \E s \in Submitted :
             IF ParseTarget(s) = "ok"
               THEN req' = [req EXCEPT !.step = "store", !.hop = 0, !.target = Serialized(s)]
               ELSE Error("BadRequest")
  /\ Quietly /\ UNCHANGED world

(* A call of put() or delete() of PdsLinkStore (LinkStore): a failed one may
   have been carried out. *)
Stored(v) == SetRecord(v) \/ UNCHANGED world

Shorten ==
  /\ At("store") /\ req.route = "shorten"
  /\ \/ value # NoRecord /\ Error("Conflict") /\ UNCHANGED world
     \/ value = NoRecord /\ SetRecord(req.target) /\ Call("describe")
     \/ FailedAtSource("Upstream") /\ value = NoRecord /\ Stored(req.target)
     \/ FailedAtSource("Upstream") /\ value # NoRecord /\ UNCHANGED world
  /\ Quietly

UpdateLink ==
  /\ At("store") /\ req.route = "update"
  /\ \/ SetRecord(req.target) /\ Answer(Response(204, "none", -1))
     \/ FailedAtSource("Upstream") /\ Stored(req.target)
  /\ Quietly

DeleteLink ==
  /\ At("store") /\ req.route = "delete"
  /\ \/ SetRecord(NoRecord) /\ Answer(Response(204, "none", -1))
     \/ FailedAtSource("Upstream") /\ Stored(NoRecord)
  /\ Quietly

(* What the rest comes to; Login and LinkStore tell how. *)
login == {into_response("Upstream"), Response(303, "none", -1)}
logout == {Response(303, "none", -1)}
oauth_callback == {into_response("Upstream"), Response(307, "none", -1)}
home == {Response(303, "none", -1), Response(200, "html", -1)}
list_links ==
  {into_response("Unauthorized"), into_response("Upstream"), Response(200, "json", -1)}

Other ==
  /\ At("other")
  /\ \E r \in CASE req.route = "login" -> login [] req.route = "logout" -> logout
            [] req.route = "links" -> list_links [] req.route = "home" -> home
            [] req.route = "callback" -> oauth_callback :
       Answer(r)
  /\ Quietly /\ UNCHANGED world

(* The routes that need nobody else. *)
qr_code == {Response(200, "svg", 86400), into_response("Internal")}
static_file == {Response(200, "asset", 15), Response(404, "empty", -1)}
client_metadata == {Response(200, "json", -1)}
not_found == {into_response("NotFound")}

Immediate(route) ==
  CASE route = "qr" -> qr_code [] route = "static" -> static_file
    [] route = "metadata" -> client_metadata [] route = "unknown" -> not_found

First(route) ==
  CASE route \in LinkRoutes -> "slingshot_handle"
    [] route \in WriteRoutes \cup {"dashboard"} -> "restore"
    [] route \in OtherLimited \cup {"home"} -> "other"
    [] route = "health" -> "ping"
    [] OTHER -> "immediate"

(* The router and the handlers without an await. A wrong method or body never
   reaches a handler, nor does an address that is not one. *)
Routed ==
  /\ At("routed")
  /\ \/ \E s \in {400, 405, 413, 415, 422} : Answer(Rejection(s))
     \/ req.route \in LinkRoutes /\ Error("BadRequest")
     \/ IF First(req.route) = "immediate"
          THEN \E r \in Immediate(req.route) : Answer(r) ELSE Call(First(req.route))
  /\ Quietly /\ UNCHANGED world

(* A request arrives; the limiter is the first to see it. *)
Arrive(route, client) ==
  /\ Up /\ req = NoRequest
  /\ route \notin Limited
  /\ req' = [NoRequest EXCEPT !.route = route, !.client = client, !.step = "routed"]
  /\ UNCHANGED <<phase, given, config, world, limiter, cached>>

ArriveLimited(route, client, s) ==
  /\ Up /\ req = NoRequest
  /\ route \in Limited
  /\ quiet' = [quiet EXCEPT ![s] = 0]
  /\ LET r == [NoRequest EXCEPT !.route = route, !.client = client, !.step = "routed"] IN
     IF tokens[extract(s)] > 0
       THEN tokens' = [tokens EXCEPT ![extract(s)] = @ - 1] /\ req' = r
       ELSE /\ UNCHANGED tokens
            /\ req' = [r EXCEPT !.step = "answered", !.refused = s, !.rested = quiet[s] >= Burst,
                 !.resp = Layers(client, under_api(route), is_loopback(config), TooManyRequests)]
  /\ UNCHANGED <<phase, given, config, world, cached>>

(* TimeoutLayer *)
Timeout ==
  /\ req.step \notin {"none", "answered"} /\ req.age >= Budget
  /\ Answer(GatewayTimeout)
  /\ Quietly /\ UNCHANGED world

(* External: a cache in front keeps what it was told it may, and a 404 that
   says nothing; it answers later requests for the link. *)
Storable(r) == r.cache > 0 \/ (r.cache = -1 /\ r.status = 404)

Deliver ==
  /\ At("answered")
  /\ req' = NoRequest
  /\ \/ /\ req.route = "link" /\ cached = NoEntry /\ Storable(req.resp)
        /\ cached' = [resp |-> req.resp, target |-> req.target,
                      left |-> IF req.resp.cache > 0 THEN req.resp.cache ELSE Cap]
     \/ UNCHANGED cached
  /\ UNCHANGED <<phase, given, config, world, limiter>>

Hit(client) ==
  /\ Up /\ req = NoRequest /\ cached # NoEntry
  /\ req' = [NoRequest EXCEPT !.route = "link", !.client = client, !.step = "answered",
               !.target = cached.target, !.resp = cached.resp]
  /\ Quietly /\ UNCHANGED world

(* External: another client of the owner writes the record. *)
OtherWrite ==
  /\ \E v \in Elsewhere \cup {NoRecord} : v # value /\ SetRecord(v)
  /\ UNCHANGED <<phase, given, config, limiter, cached, req>>

-----------------------------------------------------------------------------
(* The mutant of Patience: no timeout in the HTTP client. *)
PatienceUnbounded(step) == Budget + 1

(* http_client(): how long a step may hang, all its calls together. *)
Patience(step) ==
  CASE step = "resolve_handle" -> HandleHops
    [] step \in Owner -> Budget
    [] step \in Relay \cup (Direct \ {"resolve_handle"}) -> 1
    [] OTHER -> 0

Tick ==
  /\ Up
  /\ req = NoRequest \/ (req.hop < Patience(req.step) /\ req.age < Budget)
  /\ req' = IF req = NoRequest THEN req
            ELSE [req EXCEPT !.age = @ + 1, !.hop = @ + 1,
                    !.slow = IF req.step \in Direct THEN @ + 1 ELSE @]
  /\ idle' = [v \in Value |-> IF v = value THEN 0 ELSE Least(idle[v] + 1, Cap)]
  /\ tokens' = [k \in DOMAIN tokens |-> Least(tokens[k] + 1, Burst)]
  /\ quiet' = [s \in Sender |-> Least(quiet[s] + 1, Burst)]
  /\ cached' = IF cached.left > 0 THEN [cached EXCEPT !.left = @ - 1] ELSE NoEntry
  /\ UNCHANGED <<phase, given, config, account, value>>

Handle ==
  \/ Routed \/ SlingshotHandle \/ SlingshotRecord \/ ResolveHandle \/ ResolveDidDoc
  \/ FetchRecord \/ Describe \/ DidHandle \/ Ping \/ Restore
  \/ Shorten \/ UpdateLink \/ DeleteLink \/ Other \/ Timeout

Next ==
  \/ Boot \/ Handle \/ Deliver \/ OtherWrite \/ Tick
  \/ \E c \in Client : Hit(c)
  \/ \E r \in Route, c \in Client : Arrive(r, c) \/ \E s \in Sender : ArriveLimited(r, c, s)

Spec == Init /\ [][Next]_vars

-----------------------------------------------------------------------------
TypeOK ==
  /\ phase \in {"starting", "panicked", "Memory", "File", "Dynamo"}
  /\ given \in (Source \cup {Malformed}) \X Source
  /\ config \in [base : BaseUrl, max_age : MaxAges, per_second : Nat \ {0},
                 session_file : Settings.session_file \cup {""}]
  /\ value \in Value /\ idle \in [Value -> 0..Cap] /\ account \in BOOLEAN
  /\ tokens \in [Sender \cup {"shared"} -> 0..Burst] /\ quiet \in [Sender -> 0..Burst]
  /\ req.route \in Route \cup {"none"} /\ req.client \in Client
  /\ req.step \in Relay \cup Direct \cup Owner \cup {"none", "routed", "answered"}
  /\ req.age \in 0..Budget /\ req.slow \in 0..req.age

OnLink == At("answered") /\ req.route \in LinkRoutes

(* A visitor is told that there is no link only when the owner's repository,
   or the relay's copy of it, had no usable one; and that there is no account
   only when there is none or every way of finding it failed. A failure of the
   relay, of whatever kind, is never read as an answer (getrecord_failure). *)
NotFoundIsTrue ==
  OnLink /\ req.resp.status = 404 =>
    IF req.resp.detail = "HandleNotFound" THEN ~account \/ req.failed
    ELSE \E v \in Value : ~Usable(v) /\ idle[v] <= RelayLag

(* A failure is not kept: one who looked for a code before it was made does not
   go on getting the 404 (into_response, render). *)
NoCachedError == cached # NoEntry => cached.resp.status < 400

(* A redirect goes where the link pointed at most redirect_cache_max_age before,
   and the relay's lag: an edit or a delete takes no longer to reach everyone. *)
StaleRedirectBounded ==
  OnLink /\ req.resp.status = 307 =>
    \E v \in Value : Serialized(v) = req.target /\ idle[v] <= RelayLag + config.max_age

(* The relay is no single point of failure: a link is answered with 502 only
   when something on the way to the owner's PDS failed too (Chained). And a
   relay that hangs uses up its own two calls and no more: a link answered with
   504 had the rest of the budget for the way to the PDS (http_client). *)
RelayOutageIsSurvived ==
  OnLink =>
    /\ req.resp.status = 502 => req.failed
    /\ req.resp.status = 504 => req.slow >= Budget - 2

(* A browser that navigates gets every failure as a page that nobody keeps, the
   timeout's 504, the limiter's 429 and axum's own rejections included. Any
   client that is slowed down is told for how long, page or not: the rewrite
   keeps the headers that are on the answer (render). *)
FailuresFitTheClient ==
  At("answered") /\ req.resp.status >= 400 =>
    /\ req.client = "navigation" =>
         /\ req.resp.type = "html" /\ req.resp.cache = 0 /\ req.resp.length = "html"
         /\ req.resp.secured
    /\ req.resp.status = 429 => req.resp.retry

(* A client that was quiet for a while is let in, whatever others do, if it has
   an address (ClientIpKeyExtractor). *)
NoisyNeighbour ==
  At("answered") /\ req.resp.status = 429 => ~req.rested \/ req.refused \in Anonymous

(* The process serves with every setting it was given, the environment before
   Config.toml, or does not serve: it never falls back to a default, least of
   all to sessions that a restart loses. *)
BootsOnlyAsConfigured ==
  [][phase = "starting" /\ Up' =>
       /\ given[1] # Malformed
       /\ \A f \in Field : given[2][f] # Absent => config'[f] = given[2][f]
       /\ \A f \in Field : given[1][f] # Absent /\ given[2][f] = Absent => config'[f] = given[1][f]
       /\ (phase' = "Memory") <=> (config'.session_file = "")]_vars

(* "the serialized form is at most [`TargetUrl::MAX_LEN`] bytes": what the
   service stores is a destination that it accepts when it reads it back, and
   that the lexicon allows. *)
StoredTargetFits ==
  At("store") /\ req.route # "delete" =>
    ParseTarget(req.target) = "ok" /\ ValidRecord(req.target)
=============================================================================
