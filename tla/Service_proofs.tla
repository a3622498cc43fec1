--------------------------- MODULE Service_proofs ---------------------------
(***************************************************************************)
(* Proofs about Service: for any configuration, any number of senders, any *)
(* lag of the relay and any budget.                                        *)
(*                                                                         *)
(* The strengthening follows a request: where it may be (Places), how long *)
(* it can have taken to get there (Timing), what its answer may be         *)
(* (AnswerOK); and what waits for the next one: the entry in the cache     *)
(* (Kept) and the limiter's buckets (Buckets).                             *)
(***************************************************************************)
EXTENDS Service, TLAPS

IsResponse(r) ==
  /\ r = [status |-> r.status, type |-> r.type, cache |-> r.cache, detail |-> r.detail,
          retry |-> r.retry, length |-> r.length, secured |-> r.secured, hsts |-> r.hsts,
          heading |-> r.heading]
  /\ r.status \in Nat /\ r.cache \in Int

(* A record with the current one's value, or the relay's view of it, within
   `left` of what the redirect's age allows, pointed at the target. *)
Fresh(target, left) ==
  \E v \in Value : Serialized(v) = target /\ idle[v] + left <= RelayLag + config.max_age

(* A 404 with this detail is true. *)
True404(detail, failed) ==
  IF detail = "HandleNotFound" THEN ~account \/ failed
  ELSE \E v \in Value : ~Usable(v) /\ idle[v] <= RelayLag

Hops == {"slingshot_handle", "slingshot_record", "resolve_handle", "resolve_did_doc", "fetch_record"}

World ==
  /\ phase \in {"starting", "panicked", "Memory", "File", "Dynamo"}
  /\ given \in (Source \cup {Malformed}) \X Source
  /\ config \in [base : BaseUrl, max_age : MaxAges, per_second : Nat \ {0},
                 session_file : Settings.session_file \cup {""}]
  /\ value \in Value /\ idle \in [Value -> 0..Cap] /\ account \in BOOLEAN
  /\ idle[value] = 0

Buckets ==
  /\ tokens \in [Sender \cup {"shared"} -> 0..Burst] /\ quiet \in [Sender -> 0..Burst]
  /\ \A s \in Sender \ Anonymous : tokens[s] >= quiet[s]

Kept ==
  cached # NoEntry =>
    /\ cached = [resp |-> cached.resp, target |-> cached.target, left |-> cached.left]
    /\ IsResponse(cached.resp) /\ cached.resp.status = 307 /\ cached.left \in Nat
    /\ Fresh(cached.target, cached.left)

Shape ==
  req = [route |-> req.route, client |-> req.client, refused |-> req.refused,
         step |-> req.step, age |-> req.age, hop |-> req.hop, failed |-> req.failed,
         slow |-> req.slow, rested |-> req.rested, target |-> req.target, resp |-> req.resp]

Places ==
  /\ Shape
  /\ req.route \in Route \cup {"none"} /\ req.client \in Client
  /\ req.step \in Relay \cup Direct \cup Owner \cup {"none", "routed", "answered"}
  /\ req.step = "none" => req = NoRequest
  /\ ~Up => req = NoRequest /\ cached = NoEntry
  /\ req.step \in Hops => req.route \in LinkRoutes
  /\ req.route \in LinkRoutes => req.step \in Hops \cup {"routed", "answered"}
  /\ req.step = "store" => req.target \in Value
  /\ req.step # "none" => req.route \in Route
  /\ req.step = "other" => req.route \in OtherLimited \cup {"home"}

Timing ==
  /\ req.age \in 0..Budget /\ req.slow \in 0..req.age /\ req.hop \in Nat
  /\ req.step = "routed" => req.age = 0
  /\ req.step \in {"routed", "answered"} => req.hop = 0
  /\ req.step = "slingshot_handle" => req.slow = 0 /\ req.age <= req.hop /\ req.hop <= 1
  /\ req.step = "slingshot_record" => req.slow = 0 /\ req.age <= 1 + req.hop /\ req.hop <= 1
  /\ req.step \in {"resolve_handle", "resolve_did_doc", "fetch_record"} => req.age <= 2 + req.slow

(* An answer before the layers: what a handler may return for this request. *)
Fits(r, target, failed) ==
  /\ IsResponse(r) /\ r.status # 429
  /\ r.status >= 400 => r.type # "html"
  /\ req.route \in LinkRoutes =>
       /\ r.status = 502 => failed
       /\ r.status = 504 => req.slow >= Budget - 2
       /\ r.status = 404 => r.cache = 0 /\ True404(r.detail, failed)
       /\ r.cache > 0 => r.status = 307
       /\ r.status = 307 => Fresh(target, 0) /\ (r.cache > 0 => Fresh(target, r.cache))

AnswerOK ==
  req.step = "answered" =>
    /\ IsResponse(req.resp)
    /\ req.client = "navigation" /\ req.resp.status >= 400 =>
         /\ req.resp.type = "html" /\ req.resp.cache = 0 /\ req.resp.length = "html"
         /\ req.resp.secured
    /\ req.resp.status = 429 => req.resp.retry /\ (~req.rested \/ req.refused \in Anonymous)
    /\ req.route \in LinkRoutes =>
         /\ req.resp.status = 502 => req.failed
         /\ req.resp.status = 504 => req.slow >= Budget - 2
         /\ req.resp.status = 404 => req.resp.cache = 0 /\ True404(req.resp.detail, req.failed)
         /\ req.resp.cache > 0 => req.resp.status = 307
         /\ req.resp.status = 307 => Fresh(req.target, 0)
         /\ req.resp.cache > 0 /\ cached = NoEntry => Fresh(req.target, req.resp.cache)

Inv == World /\ Buckets /\ Kept /\ Places /\ Timing /\ AnswerOK
-----------------------------------------------------------------------------
(* The cap of the history is a number. *)
LEMMA CapType == Cap \in Nat
<1>1. \E a \in MaxAges : \A b \in MaxAges : b <= a
  BY ServiceAssumption
<1>2. (CHOOSE a \in MaxAges : \A b \in MaxAges : b <= a) \in Nat
  BY <1>1, ServiceAssumption
<1> QED BY <1>2, ServiceAssumption DEF Cap

(* What render() and SetHeaders() change of a response. *)
LEMMA Rendered ==
  ASSUME NEW r, IsResponse(r), NEW p, p = render(r)
  PROVE  p = [status |-> r.status, type |-> "html", cache |-> 0, detail |-> r.detail,
              retry |-> r.retry, length |-> "html", secured |-> r.secured,
              hsts |-> r.hsts, heading |-> copy_for_detail(r)]
<1>1. PICK h : h = copy_for_detail(r)
  OBVIOUS
<1>2. p = [r EXCEPT !.type = "html", !.cache = 0, !.length = "html", !.heading = h]
  BY <1>1 DEF render
<1>3. p = [status |-> r.status, type |-> "html", cache |-> 0, detail |-> r.detail,
           retry |-> r.retry, length |-> "html", secured |-> r.secured,
           hsts |-> r.hsts, heading |-> h]
  BY <1>2 DEF IsResponse
<1> QED BY <1>1, <1>3

LEMMA HeadersSet ==
  ASSUME NEW r, IsResponse(r), NEW loop, NEW p, p = SetHeaders(r, loop)
  PROVE  p = [status |-> r.status, type |-> r.type, cache |-> r.cache, detail |-> r.detail,
              retry |-> r.retry, length |-> r.length, secured |-> TRUE, hsts |-> ~loop,
              heading |-> r.heading]
<1>1. PICK h : h = ~loop
  OBVIOUS
<1>2. p = [r EXCEPT !.secured = TRUE, !.hsts = h]
  BY <1>1 DEF SetHeaders
<1>3. p = [status |-> r.status, type |-> r.type, cache |-> r.cache, detail |-> r.detail,
           retry |-> r.retry, length |-> r.length, secured |-> TRUE, hsts |-> h,
           heading |-> r.heading]
  BY <1>2 DEF IsResponse
<1> QED BY <1>1, <1>3

(* The layers keep the status and what a client needs; a browser that navigates
   gets a page. *)
LEMMA Layered ==
  ASSUME NEW client, NEW api, NEW loop, NEW r, NEW l,
         IsResponse(r), r.status >= 400 => r.type # "html",
         l = Layers(client, api, loop, r)
  PROVE  /\ IsResponse(l) /\ l.status = r.status /\ l.retry = r.retry /\ l.detail = r.detail
         /\ l.secured
         /\ l.cache > 0 => l.cache = r.cache
         /\ r.cache = 0 => l.cache = 0
         /\ client = "navigation" /\ r.status >= 400 =>
              l.type = "html" /\ l.cache = 0 /\ l.length = "html"
<1>1. PICK p : p = html_errors(client, api, r)
  OBVIOUS
<1>2. l = SetHeaders(p, loop)
  BY <1>1 DEF Layers
<1>3. CASE wants_html(client, api) /\ r.status >= 400 /\ r.type # "html"
  <2>1. p = render(r)
    BY <1>1, <1>3 DEF html_errors
  <2>2. /\ IsResponse(p) /\ p.status = r.status /\ p.retry = r.retry /\ p.detail = r.detail
        /\ p.length = "html" /\ p.type = "html" /\ p.cache = 0
    BY <2>1, Rendered DEF IsResponse
  <2>3. l = [status |-> p.status, type |-> p.type, cache |-> p.cache, detail |-> p.detail,
             retry |-> p.retry, length |-> p.length, secured |-> TRUE, hsts |-> ~loop,
             heading |-> p.heading]
    BY <1>2, <2>2, HeadersSet
  <2> QED BY <2>2, <2>3 DEF IsResponse
<1>4. CASE ~(wants_html(client, api) /\ r.status >= 400 /\ r.type # "html")
  <2>1. p = r
    BY <1>1, <1>4 DEF html_errors
  <2>2. l = [status |-> r.status, type |-> r.type, cache |-> r.cache, detail |-> r.detail,
             retry |-> r.retry, length |-> r.length, secured |-> TRUE, hsts |-> ~loop,
             heading |-> r.heading]
    BY <1>2, <2>1, HeadersSet
  <2>3. ~(client = "navigation" /\ r.status >= 400)
    BY <1>4 DEF wants_html
  <2> QED BY <2>2, <2>3 DEF IsResponse
<1> QED BY <1>3, <1>4

(* What may happen to the world while a handler runs. *)
WorldStep ==
  /\ UNCHANGED <<phase, given, config, account>>
  /\ UNCHANGED <<value, idle>> \/ \E v \in Value : SetRecord(v)

(* A write makes no value older, so what was fresh stays fresh. *)
LEMMA WorldKept ==
  ASSUME World, WorldStep
  PROVE  /\ World'
         /\ \A target : \A left \in Nat : Fresh(target, left) => Fresh(target, left)'
         /\ \A detail, failed : True404(detail, failed) => True404(detail, failed)'
<1>1. /\ World' /\ \A v \in Value : idle'[v] <= idle[v]
      /\ UNCHANGED <<account, config, phase, given>>
  <2>1. Cap \in Nat
    BY CapType
  <2>4. idle \in [Value -> 0..Cap]
    BY DEF World
  <2>5. \A v \in Value : idle[v] \in 0..Cap
    BY <2>4
  <2>6. \A v \in Value : idle[v] \in Nat
    BY <2>1, <2>5
  <2>2. CASE UNCHANGED <<value, idle>>
    <3>1. \A v \in Value : idle'[v] <= idle[v]
      BY <2>2, <2>6
    <3> QED BY <2>2, <3>1 DEF World, WorldStep
  <2>3. ASSUME NEW v \in Value, SetRecord(v)
        PROVE  /\ value' = v /\ idle' \in [Value -> 0..Cap] /\ idle'[v] = 0
               /\ \A u \in Value : idle'[u] <= idle[u]
    <3>2. idle' = [idle EXCEPT ![v] = 0] /\ idle \in [Value -> 0..Cap]
      BY <2>3 DEF SetRecord, World
    <3>3. 0 \in 0..Cap
      BY <2>1
    <3> QED BY <2>3, <2>6, <3>2, <3>3 DEF SetRecord
  <2> QED BY <2>2, <2>3 DEF World, WorldStep
<1>2. \A v \in Value : idle[v] \in Nat /\ idle'[v] \in Nat
  <2>1. \A v \in Value : idle[v] \in 0..Cap /\ idle'[v] \in 0..Cap
    BY <1>1 DEF World
  <2> QED BY <2>1, CapType
<1>3. config.max_age \in Nat /\ RelayLag \in Nat
  BY ServiceAssumption DEF World
<1>4. ASSUME NEW target, NEW left \in Nat, Fresh(target, left)
      PROVE  Fresh(target, left)'
  BY <1>1, <1>2, <1>3, <1>4 DEF Fresh
<1>5. ASSUME NEW detail, NEW failed, True404(detail, failed)
      PROVE  True404(detail, failed)'
  BY <1>1, <1>2, <1>3, <1>5 DEF True404
<1> QED BY <1>1, <1>4, <1>5

(* What Answered() changes of the request. *)
LEMMA AnsweredShape ==
  ASSUME Shape, NEW r, NEW target, NEW failed, NEW l, Answered(r, target, failed),
         l = Layers(req.client, under_api(req.route), is_loopback(config), r)
  PROVE  req' = [route |-> req.route, client |-> req.client, refused |-> req.refused,
                 step |-> "answered", age |-> req.age, hop |-> 0, failed |-> failed,
                 slow |-> req.slow, rested |-> req.rested, target |-> target, resp |-> l]
<1>1. PICK q : q = req'
  OBVIOUS
<1>2. q = [req EXCEPT !.step = "answered", !.hop = 0, !.target = target, !.failed = failed,
             !.resp = l]
  BY <1>1 DEF Answered
<1>3. q = [route |-> req.route, client |-> req.client, refused |-> req.refused,
           step |-> "answered", age |-> req.age, hop |-> 0, failed |-> failed,
           slow |-> req.slow, rested |-> req.rested, target |-> target, resp |-> l]
  BY <1>2 DEF Shape
<1> QED BY <1>1, <1>3

(* A step that leaves the cache alone keeps its entry true. *)
LEMMA EntryKept ==
  ASSUME World, Kept, WorldStep, UNCHANGED cached
  PROVE  Kept'
<1>1. SUFFICES ASSUME cached # NoEntry
               PROVE  Fresh(cached.target, cached.left)'
  BY DEF Kept
<1>2. Fresh(cached.target, cached.left) /\ cached.left \in Nat
  BY <1>1 DEF Kept
<1>3. PICK t, n : t = cached.target /\ n = cached.left /\ n \in Nat
  BY <1>2
<1>4. Fresh(t, n)'
  BY <1>2, <1>3, WorldKept
<1>5. cached'.target = t /\ cached'.left = n
  BY <1>3
<1> QED BY <1>4, <1>5 DEF Fresh

(* An answer that fits the request keeps the invariant. *)
LEMMA AnsweredStep ==
  ASSUME Inv, Up, req.step \notin {"none", "answered"},
         NEW r, NEW target, NEW failed, Fits(r, target, failed),
         Answered(r, target, failed), WorldStep, UNCHANGED <<limiter, cached>>
  PROVE  Inv'
<1>1. PICK l : l = Layers(req.client, under_api(req.route), is_loopback(config), r)
  OBVIOUS
<1>2. req' = [route |-> req.route, client |-> req.client, refused |-> req.refused,
              step |-> "answered", age |-> req.age, hop |-> 0, failed |-> failed,
              slow |-> req.slow, rested |-> req.rested, target |-> target, resp |-> l]
  BY <1>1, AnsweredShape DEF Inv, Places
<1>3. /\ req'.route = req.route /\ req'.client = req.client /\ req'.step = "answered"
      /\ req'.age = req.age /\ req'.hop = 0 /\ req'.failed = failed /\ req'.slow = req.slow
      /\ req'.target = target /\ req'.resp = l
  BY <1>2
<1>4. World' /\ Kept' /\ Buckets'
  BY WorldKept, EntryKept DEF Inv, Buckets, limiter
<1>5. Shape'
  BY <1>2, <1>3 DEF Shape
<1>6. Places'
  <2>1. req.route \in Route /\ req.client \in Client
    BY DEF Inv, Places
  <2>2. Up' /\ req'.step \notin Hops \cup {"none", "store", "other"}
    BY <1>3 DEF Up, WorldStep, Hops
  <2> QED BY <1>3, <1>5, <2>1, <2>2 DEF Places
<1>7. Timing'
  BY <1>3 DEF Inv, Timing
<1>8. AnswerOK'
  <2>1. IsResponse(r) /\ (r.status >= 400 => r.type # "html") /\ r.status # 429
    BY DEF Fits
  <2>2. /\ IsResponse(l) /\ l.status = r.status /\ l.detail = r.detail
        /\ l.secured
        /\ l.cache > 0 => l.cache = r.cache
        /\ r.cache = 0 => l.cache = 0
        /\ req.client = "navigation" /\ r.status >= 400 =>
              l.type = "html" /\ l.cache = 0 /\ l.length = "html"
    BY <1>1, <2>1, Layered
  <2>3. ASSUME req.route \in LinkRoutes
        PROVE  /\ l.status = 502 => failed
               /\ l.status = 504 => req.slow >= Budget - 2
               /\ l.status = 404 => l.cache = 0 /\ True404(l.detail, failed)'
               /\ l.cache > 0 => l.status = 307
               /\ l.status = 307 => Fresh(target, 0)'
               /\ l.cache > 0 => Fresh(target, l.cache)'
    <3>1. l.cache \in Int /\ 0 \in Nat /\ (l.cache > 0 => l.cache \in Nat)
      BY <2>2 DEF IsResponse
    <3>2. PICK d, n : d = l.detail /\ n = l.cache
      OBVIOUS
    <3>3. l.status = 404 => True404(d, failed)'
      BY <2>2, <2>3, <3>2, WorldKept DEF Inv, Fits
    <3>4. l.status = 307 => Fresh(target, 0)'
      BY <2>2, <2>3, <3>1, WorldKept DEF Inv, Fits
    <3>5. n > 0 => Fresh(target, n)'
      BY <2>2, <2>3, <3>1, <3>2, WorldKept DEF Inv, Fits
    <3> QED BY <2>2, <2>3, <3>2, <3>3, <3>4, <3>5 DEF Fits
  <2>4. IsResponse(req'.resp)
    BY <1>3, <2>2
  <2>5. /\ Fresh(req.target, 0)' <=> Fresh(target, 0)'
        /\ Fresh(req.target, req.resp.cache)' <=> Fresh(target, l.cache)'
        /\ True404(req.resp.detail, req.failed)' <=> True404(l.detail, failed)'
    BY <1>3 DEF Fresh, True404
  <2> QED BY <1>3, <2>1, <2>2, <2>3, <2>4, <2>5 DEF AnswerOK
<1> QED BY <1>4, <1>6, <1>7, <1>8 DEF Inv

(* The request goes on to its next step, with a target for the store. *)
Moved(step, target) ==
  req' = [route |-> req.route, client |-> req.client, refused |-> req.refused,
          step |-> step, age |-> req.age, hop |-> 0, failed |-> req.failed,
          slow |-> req.slow, rested |-> req.rested, target |-> target, resp |-> req.resp]

LEMMA CallShape ==
  ASSUME Shape, NEW step, Call(step)
  PROVE  Moved(step, req.target)
<1>1. PICK q : q = req'
  OBVIOUS
<1>2. q = [req EXCEPT !.step = step, !.hop = 0]
  BY <1>1 DEF Call
<1> QED BY <1>1, <1>2 DEF Shape, Moved

(* Where a request may go next, and how late. *)
MayMove(step, target) ==
  /\ step \in Relay \cup Direct \cup Owner
  /\ step \in Hops <=> req.route \in LinkRoutes
  /\ step = "store" => target \in Value
  /\ step = "other" => req.route \in OtherLimited \cup {"home"}
  /\ step = "slingshot_handle" => req.slow = 0 /\ req.age = 0
  /\ step = "slingshot_record" => req.slow = 0 /\ req.age <= 1
  /\ step \in {"resolve_handle", "resolve_did_doc", "fetch_record"} => req.age <= 2 + req.slow

(* A step to a place where the request may be keeps the invariant. *)
LEMMA MovedStep ==
  ASSUME Inv, Up, req.step \notin {"none", "answered"},
         NEW step, NEW target, MayMove(step, target),
         Moved(step, target), WorldStep, UNCHANGED <<limiter, cached>>
  PROVE  Inv'
<1>1. /\ req'.route = req.route /\ req'.client = req.client /\ req'.step = step
      /\ req'.age = req.age /\ req'.hop = 0 /\ req'.failed = req.failed /\ req'.slow = req.slow
      /\ req'.target = target /\ req'.resp = req.resp
  BY DEF Moved
<1>2. World' /\ Kept' /\ Buckets'
  BY WorldKept, EntryKept DEF Inv, Buckets, limiter
<1>3. Shape'
  BY <1>1 DEF Shape, Moved
<1>4. step \notin {"none", "routed", "answered"}
  BY DEF MayMove, Relay, Direct, Owner
<1>5. Places'
  <2>1. req.route \in Route /\ req.client \in Client
    BY DEF Inv, Places
  <2>2. Up'
    BY DEF Up, WorldStep
  <2>3. step \in Relay \cup Direct \cup Owner \cup {"none", "routed", "answered"}
    BY DEF MayMove
  <2> QED BY <1>1, <1>3, <1>4, <2>1, <2>2, <2>3 DEF Places, MayMove
<1>6. Timing'
  <2>1. req.age \in Nat /\ req.slow \in Nat
    BY ServiceAssumption DEF Inv, Timing
  <2> QED BY <1>1, <1>4, <2>1 DEF Inv, Timing, MayMove
<1>7. AnswerOK'
  BY <1>1, <1>4 DEF AnswerOK
<1> QED BY <1>2, <1>5, <1>6, <1>7 DEF Inv
-----------------------------------------------------------------------------
(* An error of the program, with what makes it true. *)
LEMMA ErrorFits ==
  ASSUME NEW e \in AppError, NEW target, NEW failed,
         req.route \in LinkRoutes =>
           /\ e = "Upstream" => failed
           /\ e \in {"NotFound", "HandleNotFound"} => True404(e, failed)
  PROVE  Fits(into_response(e), target, failed)
<1>1. PICK r : r = into_response(e)
  OBVIOUS
<1>2. PICK n : n = status(e)
  OBVIOUS
<1>3. PICK b : b = Response(n, "json", 0)
  OBVIOUS
<1>4. r = [b EXCEPT !.detail = e]
  BY <1>1, <1>2, <1>3 DEF into_response
<1>5. b = [status |-> n, type |-> "json", cache |-> 0, detail |-> "none",
           retry |-> FALSE, length |-> "json", secured |-> FALSE, hsts |-> FALSE,
           heading |-> "none"]
  BY <1>3 DEF Response
<1>6. r = [status |-> n, type |-> "json", cache |-> 0, detail |-> e,
           retry |-> FALSE, length |-> "json", secured |-> FALSE, hsts |-> FALSE,
           heading |-> "none"]
  BY <1>4, <1>5
<1>7. /\ n \in {404, 400, 401, 409, 502, 500}
      /\ n = 502 <=> e = "Upstream"
      /\ n = 404 <=> e \in {"NotFound", "HandleNotFound"}
  BY <1>2 DEF AppError, status
<1>8. IsResponse(r)
  BY <1>6, <1>7 DEF IsResponse
<1>9. True404(r.detail, failed) <=> True404(e, failed)
  BY <1>6
<1> QED BY <1>1, <1>6, <1>7, <1>8, <1>9 DEF Fits

(* An answer that is none of those a property of links is about. *)
LEMMA OtherFits ==
  ASSUME NEW n \in Nat, NEW type, NEW cache \in Int, NEW target, NEW failed,
         n # 429, n >= 400 => type # "html",
         req.route \in LinkRoutes => n \notin {502, 504, 404, 307} /\ cache <= 0
  PROVE  Fits(Response(n, type, cache), target, failed)
<1>1. PICK r : r = Response(n, type, cache)
  OBVIOUS
<1>2. r = [status |-> n, type |-> type, cache |-> cache, detail |-> "none",
           retry |-> FALSE, length |-> type, secured |-> FALSE, hsts |-> FALSE,
           heading |-> "none"]
  BY <1>1 DEF Response
<1>3. IsResponse(r)
  BY <1>2 DEF IsResponse
<1> QED BY <1>1, <1>2, <1>3 DEF Fits

(* The redirect of a link that was read in time. *)
LEMMA FoundFits ==
  ASSUME World, NEW v \in Value, idle[v] <= RelayLag, NEW failed
  PROVE  /\ Fits(redirect, Serialized(v), failed)
         /\ Fits(preview, Serialized(v), failed)
<1>1. config.max_age \in Nat /\ RelayLag \in Nat
  BY ServiceAssumption DEF World
<1>2. idle[v] \in Nat
  <2>1. idle[v] \in 0..Cap
    BY DEF World
  <2> QED BY <2>1, CapType
<1>3. PICK n : n = cache_control(config.max_age)
  OBVIOUS
<1>4. n \in Int /\ (n > 0 => n = config.max_age)
  BY <1>1, <1>3 DEF cache_control
<1>5. PICK r : r = Response(307, "none", n)
  OBVIOUS
<1>6. r = [status |-> 307, type |-> "none", cache |-> n, detail |-> "none",
           retry |-> FALSE, length |-> "none", secured |-> FALSE, hsts |-> FALSE,
           heading |-> "none"]
  BY <1>5 DEF Response
<1>7. IsResponse(r)
  BY <1>4, <1>6 DEF IsResponse
<1>8. Fresh(Serialized(v), 0) /\ (n > 0 => Fresh(Serialized(v), n))
  BY <1>1, <1>2, <1>4 DEF Fresh
<1>9. Fresh(Serialized(v), r.cache) <=> Fresh(Serialized(v), n)
  BY <1>6
<1>10. Fits(r, Serialized(v), failed)
  <2>1. PICK t : t = Serialized(v)
    OBVIOUS
  <2> QED BY <1>6, <1>7, <1>8, <1>9, <2>1 DEF Fits
<1>11. redirect = r
  BY <1>3, <1>5 DEF redirect
<1> QED BY <1>10, <1>11, OtherFits DEF preview
-----------------------------------------------------------------------------
(* The process serves while a request is in it. *)
LEMMA Serving ==
  ASSUME Inv, req.step # "none"
  PROVE  Up
<1>1. NoRequest.step = "none"
  BY DEF NoRequest
<1> QED BY <1>1 DEF Inv, Places

(* Handlers leave the world to the other clients, and the rest alone. *)
LEMMA QuietStep ==
  ASSUME Quietly, UNCHANGED world
  PROVE  WorldStep /\ UNCHANGED <<limiter, cached>>
BY DEF Quietly, world, limiter, WorldStep

(* Errors answered by a handler: what it knows for certain, and what may be
   the fault of a server on the way to the PDS. *)
LEMMA ErrorStep ==
  ASSUME Inv, req.step \notin {"none", "answered"}, NEW e \in AppError, Error(e),
         WorldStep, UNCHANGED <<limiter, cached>>,
         req.route \in LinkRoutes =>
           e # "Upstream" /\ (e \in {"NotFound", "HandleNotFound"} => True404(e, req.failed))
  PROVE  Inv'
<1>1. PICK f : f = req.failed
  OBVIOUS
<1>2. Fits(into_response(e), NoRecord, f)
  BY <1>1, ErrorFits
<1> QED BY <1>1, <1>2, Serving, AnsweredStep DEF Error, Answer

LEMMA FailedStep ==
  ASSUME Inv, req.step \notin {"none", "answered"}, NEW e \in {"HandleNotFound", "Upstream"},
         FailedAtSource(e), WorldStep, UNCHANGED <<limiter, cached>>
  PROVE  Inv'
<1>1. Fits(into_response(e), NoRecord, TRUE)
  BY ErrorFits DEF True404, AppError
<1> QED BY <1>1, Serving, AnsweredStep DEF FailedAtSource

(* A handler's plain answer. *)
LEMMA AnswerStep ==
  ASSUME Inv, req.step \notin {"none", "answered"}, NEW r, Answer(r),
         Fits(r, NoRecord, req.failed), WorldStep, UNCHANGED <<limiter, cached>>
  PROVE  Inv'
BY Serving, AnsweredStep DEF Answer

(* A handler's next call. *)
LEMMA CallStep ==
  ASSUME Inv, req.step \notin {"none", "answered"}, NEW step, Call(step),
         MayMove(step, req.target), WorldStep, UNCHANGED <<limiter, cached>>
  PROVE  Inv'
<1>1. Moved(step, req.target)
  BY CallShape DEF Inv, Places
<1> QED BY <1>1, Serving, MovedStep

(* Where the steps of a link's lookup are, and how long they took. *)
LEMMA LookupAt ==
  ASSUME Inv, req.step \in Hops
  PROVE  /\ req.route \in LinkRoutes /\ req.step \notin {"none", "answered"}
         /\ req.age \in Nat /\ req.slow \in Nat
         /\ req.step = "slingshot_handle" => req.slow = 0 /\ req.age <= 1
         /\ req.step = "slingshot_record" => req.slow = 0 /\ req.age <= 2
         /\ req.step \in {"resolve_handle", "resolve_did_doc", "fetch_record"} =>
              req.age <= 2 + req.slow
<1>1. req.age \in Nat /\ req.slow \in Nat
  BY ServiceAssumption DEF Inv, Timing
<1> QED BY <1>1 DEF Inv, Places, Timing, Hops

(* The fall back: an answer if it is final, the direct path if not. *)
LEMMA FallBackStep ==
  ASSUME Inv, req.step \in {"slingshot_handle", "slingshot_record"},
         NEW e \in {"NotFound", "HandleNotFound", "Upstream"}, FallBack(e),
         e # "Upstream" => True404(e, req.failed), WorldStep, UNCHANGED <<limiter, cached>>
  PROVE  Inv'
<1>1. /\ req.route \in LinkRoutes /\ req.step \notin {"none", "answered"}
      /\ req.slow = 0 /\ req.age <= 2
  BY LookupAt DEF Hops
<1>2. CASE is_not_found(e)
  <2>1. Error(e) /\ e \in AppError /\ e # "Upstream"
    BY <1>2 DEF FallBack, is_not_found, AppError
  <2> QED BY <1>1, <2>1, ErrorStep
<1>3. CASE ~is_not_found(e)
  <2>1. Call("resolve_handle")
    BY <1>3 DEF FallBack
  <2>2. MayMove("resolve_handle", req.target)
    BY <1>1 DEF MayMove, Direct, Hops
  <2> QED BY <1>1, <2>1, <2>2, CallStep
<1> QED BY <1>2, <1>3

LEMMA SlingshotHandleInv ==
  ASSUME Inv, SlingshotHandle
  PROVE  Inv'
<1>1. /\ req.route \in LinkRoutes /\ req.step \notin {"none", "answered"}
      /\ req.slow = 0 /\ req.age <= 1 /\ req.step = "slingshot_handle"
  BY LookupAt DEF Hops, SlingshotHandle, At
<1>2. WorldStep /\ UNCHANGED <<limiter, cached>>
  BY QuietStep DEF SlingshotHandle
<1>3. CASE Call("slingshot_record")
  <2>1. MayMove("slingshot_record", req.target)
    BY <1>1 DEF MayMove, Relay, Hops
  <2> QED BY <1>1, <1>2, <1>3, <2>1, CallStep
<1>4. CASE ~account /\ FallBack("HandleNotFound")
  <2>1. True404("HandleNotFound", req.failed)
    BY <1>4 DEF True404
  <2> QED BY <1>1, <1>2, <1>4, <2>1, FallBackStep
<1>5. CASE FallBack("Upstream")
  BY <1>1, <1>2, <1>5, FallBackStep
<1> QED BY <1>3, <1>4, <1>5 DEF SlingshotHandle

(* What a getRecord of v comes to is said of v. *)
LEMMA GetRecord ==
  ASSUME NEW v \in Value, idle[v] <= RelayLag, NEW e \in link_from_get_record(v), NEW failed
  PROVE  e = "ok" \/ (e = "NotFound" /\ True404(e, failed))
<1>1. CASE v # NoRecord /\ ParseTarget(v) = "ok"
  BY <1>1 DEF link_from_get_record
<1>2. CASE ~(v # NoRecord /\ ParseTarget(v) = "ok")
  <2>1. e = "NotFound"
    BY <1>2 DEF link_from_get_record, getrecord_failure
  <2>2. ~Usable(v)
    BY <1>2 DEF Usable
  <2> QED BY <2>1, <2>2 DEF True404
<1> QED BY <1>1, <1>2

(* A link that was found is answered. *)
LEMMA FoundStep ==
  ASSUME Inv, req.step \in Hops, NEW v \in Value, idle[v] <= RelayLag, Found(v),
         WorldStep, UNCHANGED <<limiter, cached>>
  PROVE  Inv'
<1>1. Up /\ req.step \notin {"none", "answered"}
  BY LookupAt, Serving
<1>2. PICK f, t : f = req.failed /\ t = Serialized(v)
  OBVIOUS
<1>3. Fits(redirect, t, f) /\ Fits(preview, t, f)
  BY <1>2, FoundFits DEF Inv
<1>4. Answered(redirect, t, f) \/ Answered(preview, t, f)
  BY <1>2 DEF Found
<1> QED BY <1>1, <1>3, <1>4, AnsweredStep

LEMMA SlingshotRecordInv ==
  ASSUME Inv, SlingshotRecord
  PROVE  Inv'
<1>1. req.step = "slingshot_record" /\ req.step \in Hops
  BY DEF SlingshotRecord, At, Hops
<1>2. WorldStep /\ UNCHANGED <<limiter, cached>>
  BY QuietStep DEF SlingshotRecord
<1>3. ASSUME NEW v \in Value, idle[v] <= RelayLag, NEW e \in link_from_get_record(v),
             IF e = "ok" THEN Found(v) ELSE FallBack(e)
      PROVE  Inv'
  <2>1. e = "ok" \/ (e = "NotFound" /\ True404(e, req.failed))
    <3>1. PICK f : f = req.failed
      OBVIOUS
    <3> QED BY <1>3, <3>1, GetRecord
  <2>2. CASE e = "ok"
    BY <1>1, <1>2, <1>3, <2>2, FoundStep
  <2>3. CASE e # "ok"
    BY <1>1, <1>2, <1>3, <2>1, <2>3, FallBackStep
  <2> QED BY <2>2, <2>3
<1>4. ASSUME NEW e \in Unreachable, FallBack(e)
      PROVE  Inv'
  <2>1. e = "Upstream"
    BY <1>4 DEF Unreachable, getrecord_failure
  <2> QED BY <1>1, <1>2, <1>4, <2>1, FallBackStep
<1> QED BY <1>3, <1>4 DEF SlingshotRecord

LEMMA ResolveHandleInv ==
  ASSUME Inv, ResolveHandle
  PROVE  Inv'
<1>1. /\ req.route \in LinkRoutes /\ req.step \notin {"none", "answered"}
      /\ req.age <= 2 + req.slow
  BY LookupAt DEF Hops, ResolveHandle, At
<1>2. WorldStep /\ UNCHANGED <<limiter, cached>>
  BY QuietStep DEF ResolveHandle
<1>3. CASE Call("resolve_did_doc")
  <2>1. MayMove("resolve_did_doc", req.target)
    BY <1>1 DEF MayMove, Direct, Hops
  <2> QED BY <1>1, <1>2, <1>3, <2>1, CallStep
<1>4. CASE ~account /\ Error("HandleNotFound")
  BY <1>1, <1>2, <1>4, ErrorStep DEF True404, AppError
<1>5. ASSUME NEW e \in {"HandleNotFound", "Upstream"}, FailedAtSource(e)
      PROVE  Inv'
  BY <1>1, <1>2, <1>5, FailedStep
<1> QED BY <1>3, <1>4, <1>5 DEF ResolveHandle

LEMMA ResolveDidDocInv ==
  ASSUME Inv, ResolveDidDoc
  PROVE  Inv'
<1>1. /\ req.route \in LinkRoutes /\ req.step \notin {"none", "answered"}
      /\ req.age <= 2 + req.slow
  BY LookupAt DEF Hops, ResolveDidDoc, At
<1>2. WorldStep /\ UNCHANGED <<limiter, cached>>
  BY QuietStep DEF ResolveDidDoc
<1>3. CASE Call("fetch_record")
  <2>1. MayMove("fetch_record", req.target)
    BY <1>1 DEF MayMove, Direct, Hops
  <2> QED BY <1>1, <1>2, <1>3, <2>1, CallStep
<1>4. CASE FailedAtSource("Upstream")
  BY <1>1, <1>2, <1>4, FailedStep
<1> QED BY <1>3, <1>4 DEF ResolveDidDoc

LEMMA FetchRecordInv ==
  ASSUME Inv, FetchRecord
  PROVE  Inv'
<1>1. req.step \in Hops /\ req.route \in LinkRoutes /\ req.step \notin {"none", "answered"}
  BY LookupAt DEF Hops, FetchRecord, At
<1>2. WorldStep /\ UNCHANGED <<limiter, cached>>
  BY QuietStep DEF FetchRecord
<1>3. PICK v : v = value
  OBVIOUS
<1>4. v \in Value /\ idle[v] <= RelayLag
  <2>1. value \in Value /\ idle[value] = 0
    BY DEF Inv, World
  <2> QED BY <1>3, <2>1, ServiceAssumption
<1>5. ASSUME NEW e \in link_from_get_record(v), IF e = "ok" THEN Found(v) ELSE Error(e)
      PROVE  Inv'
  <2>1. e = "ok" \/ (e = "NotFound" /\ True404(e, req.failed))
    <3>1. PICK f : f = req.failed
      OBVIOUS
    <3> QED BY <1>4, <1>5, <3>1, GetRecord
  <2>2. CASE e = "ok"
    BY <1>1, <1>2, <1>4, <1>5, <2>2, FoundStep
  <2>3. CASE e # "ok"
    BY <1>1, <1>2, <1>5, <2>1, <2>3, ErrorStep DEF AppError
  <2> QED BY <2>2, <2>3
<1>6. ASSUME NEW e \in Unreachable, FailedAtSource(e)
      PROVE  Inv'
  <2>1. e = "Upstream"
    BY <1>6 DEF Unreachable, getrecord_failure
  <2> QED BY <1>1, <1>2, <1>6, <2>1, FailedStep
<1> QED BY <1>3, <1>5, <1>6 DEF FetchRecord

(* The properties of links are not about the other routes. *)
LEMMA OtherRoute ==
  ASSUME Inv, req.step \in {"describe", "did_handle", "ping", "restore", "store", "other"}
  PROVE  /\ req.route \notin LinkRoutes /\ req.step \notin {"none", "answered"}
         /\ req.age \in Nat /\ req.slow \in Nat
<1>1. req.age \in Nat /\ req.slow \in Nat
  BY ServiceAssumption DEF Inv, Timing
<1> QED BY <1>1 DEF Inv, Places, Hops

LEMMA NamedStep ==
  ASSUME Inv, req.step \notin {"none", "answered"}, req.route \notin LinkRoutes, Named,
         WorldStep, UNCHANGED <<limiter, cached>>
  PROVE  Inv'
<1>1. PICK t, f : t = (IF req.route = "dashboard" THEN "html" ELSE "json") /\ f = req.failed
  OBVIOUS
<1>2. Fits(Response(200, t, -1), NoRecord, f)
  BY OtherFits
<1>3. Answer(Response(200, t, -1))
  BY <1>1 DEF Named
<1> QED BY <1>1, <1>2, <1>3, AnswerStep

LEMMA DescribeInv ==
  ASSUME Inv, Describe
  PROVE  Inv'
<1>1. req.route \notin LinkRoutes /\ req.step \notin {"none", "answered"}
  BY OtherRoute DEF Describe, At
<1>2. WorldStep /\ UNCHANGED <<limiter, cached>>
  BY QuietStep DEF Describe
<1>3. MayMove("did_handle", req.target)
  BY <1>1 DEF MayMove, Direct, Hops
<1> QED BY <1>1, <1>2, <1>3, NamedStep, CallStep DEF Describe

LEMMA DidHandleInv ==
  ASSUME Inv, DidHandle
  PROVE  Inv'
<1>1. req.route \notin LinkRoutes /\ req.step \notin {"none", "answered"}
  BY OtherRoute DEF DidHandle, At
<1>2. WorldStep /\ UNCHANGED <<limiter, cached>>
  BY QuietStep DEF DidHandle
<1> QED BY <1>1, <1>2, NamedStep, FailedStep DEF DidHandle

LEMMA PingInv ==
  ASSUME Inv, Ping
  PROVE  Inv'
<1>1. req.route \notin LinkRoutes /\ req.step \notin {"none", "answered"}
  BY OtherRoute DEF Ping, At
<1>2. WorldStep /\ UNCHANGED <<limiter, cached>>
  BY QuietStep DEF Ping
<1>3. PICK n \in {200, 503} : Answer(Response(n, "json", -1))
  BY DEF Ping
<1>4. PICK f : f = req.failed
  OBVIOUS
<1>5. Fits(Response(n, "json", -1), NoRecord, f)
  BY <1>1, OtherFits
<1> QED BY <1>1, <1>2, <1>3, <1>4, <1>5, AnswerStep

LEMMA RestoreInv ==
  ASSUME Inv, Restore
  PROVE  Inv'
<1>1. req.route \notin LinkRoutes /\ req.step \notin {"none", "answered"}
  BY OtherRoute DEF Restore, At
<1>2. WorldStep /\ UNCHANGED <<limiter, cached>>
  BY QuietStep DEF Restore
<1>3. CASE Answer(Response(303, "none", -1))
  <2>1. PICK f : f = req.failed
    OBVIOUS
  <2>2. Fits(Response(303, "none", -1), NoRecord, f)
    BY <1>1, OtherFits
  <2> QED BY <1>1, <1>2, <1>3, <2>1, <2>2, AnswerStep
<1>4. CASE Error("Unauthorized") \/ Error("BadRequest")
  BY <1>1, <1>2, <1>4, ErrorStep DEF AppError
<1>5. CASE Call("describe")
  <2>1. MayMove("describe", req.target)
    BY <1>1 DEF MayMove, Relay, Hops
  <2> QED BY <1>1, <1>2, <1>5, <2>1, CallStep
<1>6. ASSUME NEW s \in Submitted,
             req' = [req EXCEPT !.step = "store", !.hop = 0, !.target = Serialized(s)]
      PROVE  Inv'
  <2>1. PICK t : t = Serialized(s)
    OBVIOUS
  <2>2. PICK q : q = req'
    OBVIOUS
  <2>3. q = [req EXCEPT !.step = "store", !.hop = 0, !.target = t]
    BY <1>6, <2>1, <2>2
  <2>4. Shape
    BY DEF Inv, Places
  <2>5. Moved("store", t)
    BY <2>2, <2>3, <2>4 DEF Shape, Moved
  <2>6. t \in Value
    BY <2>1 DEF Value
  <2>7. MayMove("store", t)
    BY <1>1, <2>6 DEF MayMove, Owner, Hops
  <2> QED BY <1>1, <1>2, <2>5, <2>7, Serving, MovedStep
<1> QED BY <1>3, <1>4, <1>5, <1>6 DEF Restore

(* A write of the store changes the world, and nothing else. *)
LEMMA StoreStep ==
  ASSUME Quietly, NEW v \in Value, SetRecord(v) \/ UNCHANGED world
  PROVE  WorldStep /\ UNCHANGED <<limiter, cached>>
BY DEF Quietly, SetRecord, world, limiter, WorldStep

LEMMA ShortenInv ==
  ASSUME Inv, Shorten
  PROVE  Inv'
<1>1. /\ req.route \notin LinkRoutes /\ req.step \notin {"none", "answered"}
      /\ req.target \in Value
  BY OtherRoute DEF Shorten, At, Inv, Places
<1>2. PICK t : t = req.target
  OBVIOUS
<1>3. WorldStep /\ UNCHANGED <<limiter, cached>>
  BY <1>1, <1>2, StoreStep DEF Shorten, Stored
<1>4. CASE Error("Conflict")
  BY <1>1, <1>3, <1>4, ErrorStep DEF AppError
<1>5. CASE Call("describe")
  <2>1. MayMove("describe", req.target)
    BY <1>1 DEF MayMove, Relay, Hops
  <2> QED BY <1>1, <1>3, <1>5, <2>1, CallStep
<1>6. CASE FailedAtSource("Upstream")
  BY <1>1, <1>3, <1>6, FailedStep
<1> QED BY <1>4, <1>5, <1>6 DEF Shorten

LEMMA WriteInv ==
  ASSUME Inv, UpdateLink \/ DeleteLink
  PROVE  Inv'
<1>1. /\ req.route \notin LinkRoutes /\ req.step \notin {"none", "answered"}
      /\ req.target \in Value
  BY OtherRoute DEF UpdateLink, DeleteLink, At, Inv, Places
<1>2. PICK t : t = req.target
  OBVIOUS
<1>3. NoRecord \in Value
  BY DEF Value
<1>4. WorldStep /\ UNCHANGED <<limiter, cached>>
  BY <1>1, <1>2, <1>3, StoreStep DEF UpdateLink, DeleteLink, Stored
<1>5. CASE Answer(Response(204, "none", -1))
  <2>1. PICK f : f = req.failed
    OBVIOUS
  <2>2. Fits(Response(204, "none", -1), NoRecord, f)
    BY <1>1, OtherFits
  <2> QED BY <1>1, <1>4, <1>5, <2>1, <2>2, AnswerStep
<1>6. CASE FailedAtSource("Upstream")
  BY <1>1, <1>4, <1>6, FailedStep
<1> QED BY <1>5, <1>6 DEF UpdateLink, DeleteLink

LEMMA OtherInv ==
  ASSUME Inv, Other
  PROVE  Inv'
<1>1. /\ req.route \notin LinkRoutes /\ req.step \notin {"none", "answered"}
      /\ req.route \in OtherLimited \cup {"home"}
  BY OtherRoute DEF Other, At, Inv, Places
<1>2. WorldStep /\ UNCHANGED <<limiter, cached>>
  BY QuietStep DEF Other
<1>3. \/ \E e \in {"Unauthorized", "Upstream"} : Answer(into_response(e))
      \/ \E n \in {200, 303, 307} : \E t \in {"none", "json", "html"} :
           Answer(Response(n, t, -1))
  BY <1>1 DEF Other, OtherLimited, login, logout, list_links, oauth_callback, home
<1>4. ASSUME NEW e \in {"Unauthorized", "Upstream"}, Answer(into_response(e))
      PROVE  Inv'
  <2>1. PICK f : f = req.failed
    OBVIOUS
  <2>2. Fits(into_response(e), NoRecord, f)
    BY <1>1, ErrorFits DEF AppError
  <2> QED BY <1>1, <1>2, <1>4, <2>1, <2>2, AnswerStep
<1>5. ASSUME NEW n \in {200, 303, 307}, NEW t \in {"none", "json", "html"},
             Answer(Response(n, t, -1))
      PROVE  Inv'
  <2>1. PICK f : f = req.failed
    OBVIOUS
  <2>2. Fits(Response(n, t, -1), NoRecord, f)
    BY <1>1, OtherFits
  <2> QED BY <1>1, <1>2, <1>5, <2>1, <2>2, AnswerStep
<1> QED BY <1>3, <1>4, <1>5

LEMMA RoutedInv ==
  ASSUME Inv, Routed
  PROVE  Inv'
<1>1. /\ req.step = "routed" /\ req.step \notin {"none", "answered"} /\ req.route \in Route
      /\ req.age = 0 /\ req.slow = 0
  <2>1. req.step = "routed" /\ req.step \notin {"none", "answered"} /\ req.route \in Route
        /\ req.age = 0
    BY DEF Routed, At, Inv, Places, Timing
  <2>2. req.slow \in 0..0
    BY <2>1 DEF Inv, Timing
  <2> QED BY <2>1, <2>2
<1>2. WorldStep /\ UNCHANGED <<limiter, cached>>
  BY QuietStep DEF Routed
<1>3. PICK f : f = req.failed
  OBVIOUS
<1>4. ASSUME NEW s \in {400, 405, 413, 415, 422}, Answer(Rejection(s))
      PROVE  Inv'
  <2>1. Fits(Rejection(s), NoRecord, f)
    BY OtherFits DEF Rejection
  <2> QED BY <1>1, <1>2, <1>3, <1>4, <2>1, AnswerStep
<1>5. CASE Error("BadRequest")
  BY <1>1, <1>2, <1>5, ErrorStep DEF AppError
<1>6. ASSUME First(req.route) = "immediate", NEW r \in Immediate(req.route), Answer(r)
      PROVE  Inv'
  <2>1. req.route \in Plain
    BY <1>1, <1>6 DEF First, Route, LinkRoutes, WriteRoutes, OtherLimited, Plain
  <2>2. req.route \notin LinkRoutes
    BY <2>1 DEF Plain, LinkRoutes
  <2>3. \/ \E e \in {"Internal", "NotFound"} : r = into_response(e)
        \/ \E n \in {200, 404} : \E t \in {"svg", "asset", "json", "empty"} :
             \E c \in {-1, 15, 86400} : r = Response(n, t, c)
    BY <1>6, <2>1 DEF Plain, Immediate, qr_code, static_file, client_metadata, not_found
  <2>4. ASSUME NEW e \in {"Internal", "NotFound"}, r = into_response(e)
        PROVE  Fits(r, NoRecord, f)
    BY <2>2, <2>4, ErrorFits DEF AppError
  <2>5. ASSUME NEW n \in {200, 404}, NEW t \in {"svg", "asset", "json", "empty"},
               NEW c \in {-1, 15, 86400}, r = Response(n, t, c)
        PROVE  Fits(r, NoRecord, f)
    BY <2>2, <2>5, OtherFits
  <2> QED BY <1>1, <1>2, <1>3, <1>6, <2>3, <2>4, <2>5, AnswerStep
<1>7. ASSUME First(req.route) # "immediate", Call(First(req.route))
      PROVE  Inv'
  <2>1. PICK step : step = First(req.route)
    OBVIOUS
  <2>2. /\ step \in Relay \cup Direct \cup Owner
        /\ step \in Hops <=> req.route \in LinkRoutes
        /\ step # "store" /\ step \notin {"slingshot_record", "resolve_handle", "resolve_did_doc", "fetch_record"}
        /\ step = "other" => req.route \in OtherLimited \cup {"home"}
    BY <1>1, <1>7, <2>1
    DEF First, Route, LinkRoutes, WriteRoutes, OtherLimited, Plain, Relay, Direct, Owner, Hops
  <2>3. MayMove(step, req.target)
    BY <1>1, <2>2 DEF MayMove
  <2> QED BY <1>1, <1>2, <1>7, <2>1, <2>3, CallStep
<1> QED BY <1>4, <1>5, <1>6, <1>7 DEF Routed

(* The deadline: what has gone before tells who used up the budget. *)
LEMMA TimeoutInv ==
  ASSUME Inv, Timeout
  PROVE  Inv'
<1>1. req.step \notin {"none", "answered"} /\ req.age >= Budget
  BY DEF Timeout
<1>2. WorldStep /\ UNCHANGED <<limiter, cached>>
  BY QuietStep DEF Timeout
<1>3. req.route \in LinkRoutes => req.slow >= Budget - 2
  <2>1. SUFFICES ASSUME req.route \in LinkRoutes
                 PROVE  req.slow >= Budget - 2
    OBVIOUS
  <2>2. req.step \in Hops \cup {"routed"}
    BY <1>1, <2>1 DEF Inv, Places
  <2>3. req.age \in Nat /\ req.slow \in Nat /\ Budget \in Nat \ {0}
    BY ServiceAssumption DEF Inv, Timing
  <2>4. req.step # "routed"
    BY <1>1, <2>3 DEF Inv, Timing
  <2> QED BY <1>1, <2>2, <2>3, <2>4, LookupAt DEF Hops
<1>4. PICK f : f = req.failed
  OBVIOUS
<1>5. PICK r : r = GatewayTimeout
  OBVIOUS
<1>6. r = [status |-> 504, type |-> "empty", cache |-> -1, detail |-> "none",
           retry |-> FALSE, length |-> "empty", secured |-> FALSE, hsts |-> FALSE,
           heading |-> "none"]
  BY <1>5 DEF GatewayTimeout, Response
<1>7. IsResponse(r)
  BY <1>6 DEF IsResponse
<1>8. Fits(r, NoRecord, f)
  BY <1>3, <1>6, <1>7 DEF Fits
<1> QED BY <1>1, <1>2, <1>4, <1>5, <1>8, AnswerStep DEF Timeout
-----------------------------------------------------------------------------
(* A request that arrives, or is answered before it reaches a handler. *)
Arrived(route, client, refused, step, rested, target, resp) ==
  req' = [route |-> route, client |-> client, refused |-> refused, step |-> step, age |-> 0,
          hop |-> 0, failed |-> FALSE, slow |-> 0, rested |-> rested, target |-> target,
          resp |-> resp]

(* It has taken no time and is where a request begins or ends. *)
LEMMA ArrivedStep ==
  ASSUME World, Up, NEW route \in Route, NEW client \in Client, NEW refused,
         NEW step \in {"routed", "answered"}, NEW rested, NEW target, NEW resp,
         Arrived(route, client, refused, step, rested, target, resp), phase' = phase
  PROVE  Places' /\ Timing'
<1>1. /\ req'.route = route /\ req'.client = client /\ req'.step = step
      /\ req'.age = 0 /\ req'.hop = 0 /\ req'.slow = 0
  BY DEF Arrived
<1>2. Shape'
  BY <1>1 DEF Shape, Arrived
<1>3. Up' /\ step \notin Hops \cup {"none", "store", "other"}
  BY DEF Up, Hops
<1>4. Places'
  BY <1>1, <1>2, <1>3 DEF Places
<1>5. 0 \in 0..Budget /\ 0 \in 0..0 /\ 0 \in Nat
  BY ServiceAssumption
<1>6. Timing'
  BY <1>1, <1>5 DEF Timing
<1> QED BY <1>4, <1>6

(* Nothing else changes. *)
LEMMA WorldSame ==
  ASSUME World, Kept, UNCHANGED <<phase, given, config, world, cached>>
  PROVE  World' /\ Kept'
<1>1. WorldStep
  BY DEF WorldStep, world
<1> QED BY <1>1, WorldKept, EntryKept

LEMMA ArriveInv ==
  ASSUME Inv, NEW route \in Route, NEW client \in Client, Arrive(route, client)
  PROVE  Inv'
<1>1. Arrived(route, client, "nobody", "routed", FALSE, NoRecord, NoAnswer)
  <2>1. PICK q, n, a : q = req' /\ n = NoRecord /\ a = NoAnswer
    OBVIOUS
  <2>2. PICK r : r = NoRequest
    OBVIOUS
  <2>3. q = [r EXCEPT !.route = route, !.client = client, !.step = "routed"]
    BY <2>1, <2>2 DEF Arrive
  <2>4. r = [route |-> "none", client |-> "other", refused |-> "nobody", step |-> "none",
             age |-> 0, hop |-> 0, failed |-> FALSE, slow |-> 0, rested |-> FALSE,
             target |-> n, resp |-> a]
    BY <2>1, <2>2 DEF NoRequest
  <2>5. q = [route |-> route, client |-> client, refused |-> "nobody", step |-> "routed",
             age |-> 0, hop |-> 0, failed |-> FALSE, slow |-> 0, rested |-> FALSE,
             target |-> n, resp |-> a]
    BY <2>3, <2>4
  <2> QED BY <2>1, <2>5 DEF Arrived
<1>2. Places' /\ Timing'
  <2>1. PICK n, a : n = NoRecord /\ a = NoAnswer
    OBVIOUS
  <2> QED BY <1>1, <2>1, ArrivedStep DEF Arrive, Inv
<1>3. World' /\ Kept' /\ Buckets'
  BY WorldSame DEF Arrive, Inv, Buckets, limiter
<1>4. AnswerOK'
  BY <1>1 DEF Arrived, AnswerOK
<1> QED BY <1>2, <1>3, <1>4 DEF Inv

LEMMA TooManyShape ==
  TooManyRequests =
    [status |-> 429, type |-> "text", cache |-> -1, detail |-> "none",
     retry |-> TRUE, length |-> "text", secured |-> FALSE, hsts |-> FALSE,
     heading |-> "none"]
<1>1. PICK p, t, yes, no :
        p = Response(429, "text", -1) /\ t = TooManyRequests /\ yes = TRUE /\ no = FALSE
  OBVIOUS
<1>2. p = [status |-> 429, type |-> "text", cache |-> -1, detail |-> "none",
           retry |-> no, length |-> "text", secured |-> no, hsts |-> no,
           heading |-> "none"]
  BY <1>1 DEF Response
<1>3. t = [p EXCEPT !.retry = yes]
  BY <1>1 DEF TooManyRequests, Rejection
<1>4. t = [status |-> 429, type |-> "text", cache |-> -1, detail |-> "none",
           retry |-> yes, length |-> "text", secured |-> no, hsts |-> no,
           heading |-> "none"]
  BY <1>2, <1>3
<1> QED BY <1>1, <1>4

(* A bucket holds at least what its client's silence has earned it. *)
LEMMA ArriveLimitedInv ==
  ASSUME Inv, NEW route \in Route, NEW client \in Client, NEW s \in Sender,
         ArriveLimited(route, client, s)
  PROVE  Inv'
<1>1. /\ Up /\ route \in Limited /\ route \notin LinkRoutes
      /\ UNCHANGED <<phase, given, config, world, cached>>
  BY DEF ArriveLimited, Limited, WriteRoutes, OtherLimited, LinkRoutes
<1>2. World' /\ Kept'
  BY <1>1, WorldSame DEF Inv
<1>3. PICK k : k = extract(s)
  OBVIOUS
<1>4. k \in Sender \cup {"shared"} /\ (s \notin Anonymous => k = s)
      /\ (k \in Sender \ Anonymous => k = s)
  BY <1>3, ServiceAssumption DEF extract
<1>5. /\ tokens \in [Sender \cup {"shared"} -> 0..Burst] /\ quiet \in [Sender -> 0..Burst]
      /\ \A u \in Sender \ Anonymous : tokens[u] >= quiet[u]
      /\ Burst \in Nat \ {0}
  BY ServiceAssumption DEF Inv, Buckets
<1>6. tokens[k] \in 0..Burst /\ quiet[s] \in 0..Burst
  BY <1>4, <1>5
<1>7. quiet' = [quiet EXCEPT ![s] = 0]
  BY DEF ArriveLimited
<1>8. PICK l : l = Layers(client, under_api(route), is_loopback(config), TooManyRequests)
  OBVIOUS
<1>9. PICK q, r, n, a : q = req' /\ r = NoRequest /\ n = NoRecord /\ a = NoAnswer
  OBVIOUS
<1>10. r = [route |-> "none", client |-> "other", refused |-> "nobody", step |-> "none",
            age |-> 0, hop |-> 0, failed |-> FALSE, slow |-> 0, rested |-> FALSE,
            target |-> n, resp |-> a]
  BY <1>9 DEF NoRequest
<1>11. PICK b : b = [r EXCEPT !.route = route, !.client = client, !.step = "routed"]
  OBVIOUS
<1>12. b = [route |-> route, client |-> client, refused |-> "nobody", step |-> "routed",
            age |-> 0, hop |-> 0, failed |-> FALSE, slow |-> 0, rested |-> FALSE,
            target |-> n, resp |-> a]
  BY <1>10, <1>11
<1>13. \/ tokens[k] > 0 /\ tokens' = [tokens EXCEPT ![k] = tokens[k] - 1] /\ q = b
       \/ /\ ~(tokens[k] > 0) /\ UNCHANGED tokens
          /\ \E rested : /\ rested = (quiet[s] >= Burst)
                         /\ q = [b EXCEPT !.step = "answered", !.refused = s, !.rested = rested,
                                          !.resp = l]
  BY <1>3, <1>8, <1>9, <1>11 DEF ArriveLimited
<1>14. CASE tokens[k] > 0 /\ tokens' = [tokens EXCEPT ![k] = tokens[k] - 1] /\ q = b
  <2>1. Arrived(route, client, "nobody", "routed", FALSE, n, a)
    BY <1>9, <1>12, <1>14 DEF Arrived
  <2>2. Places' /\ Timing'
    BY <1>1, <2>1, ArrivedStep DEF Inv
  <2>3. AnswerOK'
    BY <2>1 DEF Arrived, AnswerOK
  <2>4. Buckets'
    <3>1. tokens[k] - 1 \in 0..Burst /\ 0 \in 0..Burst
      BY <1>5, <1>6, <1>14
    <3>2. tokens' \in [Sender \cup {"shared"} -> 0..Burst] /\ quiet' \in [Sender -> 0..Burst]
      BY <1>5, <1>7, <1>14, <3>1
    <3>3. ASSUME NEW u \in Sender \ Anonymous
          PROVE  tokens'[u] >= quiet'[u]
      <4>1. CASE u = s
        <5>1. quiet'[u] = 0 /\ tokens'[u] \in 0..Burst
          BY <1>5, <1>7, <3>2, <4>1
        <5> QED BY <1>5, <5>1
      <4>2. CASE u # s
        <5>1. u # k
          BY <1>4, <4>2
        <5> QED BY <1>5, <1>7, <1>14, <4>2, <5>1
      <4> QED BY <4>1, <4>2
    <3> QED BY <3>2, <3>3 DEF Buckets
  <2> QED BY <1>2, <2>2, <2>3, <2>4 DEF Inv
<1>15. ASSUME ~(tokens[k] > 0), UNCHANGED tokens, NEW rested, rested = (quiet[s] >= Burst),
              q = [b EXCEPT !.step = "answered", !.refused = s, !.rested = rested, !.resp = l]
       PROVE  Inv'
  <2>1. q = [route |-> route, client |-> client, refused |-> s, step |-> "answered",
             age |-> 0, hop |-> 0, failed |-> FALSE, slow |-> 0, rested |-> rested,
             target |-> n, resp |-> l]
    BY <1>12, <1>15
  <2>2. Arrived(route, client, s, "answered", rested, n, l)
    BY <1>9, <2>1 DEF Arrived
  <2>3. Places' /\ Timing'
    BY <1>1, <2>2, ArrivedStep DEF Inv
  <2>4. Buckets'
    <3>1. 0 \in 0..Burst
      BY <1>5
    <3>2. quiet' \in [Sender -> 0..Burst]
      BY <1>5, <1>7, <3>1
    <3>3. ASSUME NEW u \in Sender \ Anonymous
          PROVE  tokens'[u] >= quiet'[u]
      <4>1. tokens[u] \in 0..Burst
        BY <1>5
      <4> QED BY <1>5, <1>7, <1>15, <4>1
    <3> QED BY <1>5, <1>15, <3>2, <3>3 DEF Buckets
  <2>5. rested => s \in Anonymous
    <3>1. SUFFICES ASSUME s \notin Anonymous
                   PROVE  ~(quiet[s] >= Burst)
      BY <1>15
    <3>2. tokens[s] >= quiet[s] /\ k = s
      BY <1>4, <1>5, <3>1
    <3> QED BY <1>5, <1>6, <1>15, <3>2
  <2>6. PICK t : t = TooManyRequests
    OBVIOUS
  <2>7. t = [status |-> 429, type |-> "text", cache |-> -1, detail |-> "none",
             retry |-> TRUE, length |-> "text", secured |-> FALSE, hsts |-> FALSE,
             heading |-> "none"]
    BY <2>6, TooManyShape
  <2>8. IsResponse(t)
    BY <2>7 DEF IsResponse
  <2>9. /\ IsResponse(l) /\ l.status = 429 /\ l.retry /\ l.secured
        /\ client = "navigation" => l.type = "html" /\ l.cache = 0 /\ l.length = "html"
    <3>1. PICK api, loop : api = under_api(route) /\ loop = is_loopback(config)
      OBVIOUS
    <3>2. l = Layers(client, api, loop, t)
      BY <1>8, <2>6, <3>1
    <3> QED BY <2>7, <2>8, <3>2, Layered
  <2>10. AnswerOK'
    <3>1. /\ req'.route = route /\ req'.client = client /\ req'.refused = s
          /\ req'.rested = rested /\ req'.resp = l
      BY <2>2 DEF Arrived
    <3>2. IsResponse(req'.resp)
      BY <2>9, <3>1
    <3> QED BY <1>1, <2>5, <2>9, <3>1, <3>2 DEF AnswerOK
  <2> QED BY <1>2, <2>3, <2>4, <2>10 DEF Inv
<1> QED BY <1>13, <1>14, <1>15

(* Between requests nothing is under way. *)
LEMMA Rest ==
  ASSUME req' = NoRequest, Up'
  PROVE  Places' /\ Timing' /\ AnswerOK'
<1>1. PICK q, n, a : q = req' /\ n = NoRecord /\ a = NoAnswer
  OBVIOUS
<1>2. q = [route |-> "none", client |-> "other", refused |-> "nobody", step |-> "none",
           age |-> 0, hop |-> 0, failed |-> FALSE, slow |-> 0, rested |-> FALSE,
           target |-> n, resp |-> a]
  BY <1>1 DEF NoRequest
<1>3. /\ req'.route = "none" /\ req'.client = "other" /\ req'.step = "none"
      /\ req'.age = 0 /\ req'.hop = 0 /\ req'.slow = 0
  BY <1>1, <1>2
<1>4. Shape'
  BY <1>1, <1>2 DEF Shape
<1>5. Places'
  BY <1>3, <1>4 DEF Places, Client, LinkRoutes, Hops
<1>6. 0 \in 0..Budget /\ 0 \in 0..0 /\ 0 \in Nat
  BY ServiceAssumption
<1>7. Timing'
  BY <1>3, <1>6 DEF Timing
<1>8. AnswerOK'
  BY <1>3 DEF AnswerOK
<1> QED BY <1>5, <1>7, <1>8

(* A cache keeps nothing but redirects, and those no longer than they are true. *)
LEMMA DeliverInv ==
  ASSUME Inv, Deliver
  PROVE  Inv'
<1>1. /\ req.step = "answered" /\ req' = NoRequest
      /\ UNCHANGED <<phase, given, config, world, limiter>>
  BY DEF Deliver, At
<1>2. Up /\ Up'
  BY <1>1, Serving DEF Up
<1>3. Places' /\ Timing' /\ AnswerOK'
  BY <1>1, <1>2, Rest
<1>4. World' /\ Buckets'
  BY <1>1 DEF Inv, World, Buckets, world, limiter
<1>5. CASE UNCHANGED cached
  <2>1. Kept'
    BY <1>1, <1>5, WorldSame DEF Inv
  <2> QED BY <1>3, <1>4, <2>1 DEF Inv
<1>6. CASE /\ req.route = "link" /\ cached = NoEntry /\ Storable(req.resp)
           /\ cached' = [resp |-> req.resp, target |-> req.target,
                         left |-> IF req.resp.cache > 0 THEN req.resp.cache ELSE Cap]
  <2>1. PICK r, t, n : r = req.resp /\ t = req.target /\ n = req.resp.cache
    OBVIOUS
  <2>2. /\ IsResponse(r) /\ n = r.cache
        /\ r.status = 404 => n = 0
        /\ n > 0 => r.status = 307 /\ Fresh(t, n)
    <3>1. req.route \in LinkRoutes
      BY <1>6 DEF LinkRoutes
    <3>2. IsResponse(req.resp)
      BY <1>1 DEF Inv, AnswerOK
    <3>3. /\ req.resp.status = 404 => req.resp.cache = 0
          /\ req.resp.cache > 0 => req.resp.status = 307
          /\ req.resp.cache > 0 => Fresh(req.target, req.resp.cache)
      BY <1>1, <1>6, <3>1 DEF Inv, AnswerOK
    <3> QED BY <2>1, <3>2, <3>3
  <2>3. n \in Nat /\ n > 0
    BY <1>6, <2>1, <2>2 DEF Storable, IsResponse
  <2>4. cached' = [resp |-> r, target |-> t, left |-> n]
    BY <1>6, <2>1, <2>3
  <2>5. cached'.resp = r /\ cached'.target = t /\ cached'.left = n
    BY <2>4
  <2>6. Fresh(t, n)'
    BY <1>1, <2>2, <2>3 DEF Fresh, world
  <2>7. Fresh(cached.target, cached.left)'
    BY <2>5, <2>6 DEF Fresh
  <2>8. Kept'
    BY <2>2, <2>3, <2>4, <2>5, <2>7 DEF Kept
  <2> QED BY <1>3, <1>4, <2>8 DEF Inv
<1> QED BY <1>5, <1>6 DEF Deliver

(* What the cache answers is still true. *)
LEMMA HitInv ==
  ASSUME Inv, NEW client \in Client, Hit(client)
  PROVE  Inv'
<1>1. /\ Up /\ cached # NoEntry /\ UNCHANGED <<phase, given, config, world, limiter, cached>>
  BY DEF Hit, Quietly
<1>2. PICK r, t, n : r = cached.resp /\ t = cached.target /\ n = cached.left
  OBVIOUS
<1>3. IsResponse(r) /\ r.status = 307 /\ n \in Nat /\ Fresh(t, n)
  BY <1>1, <1>2 DEF Inv, Kept
<1>4. Arrived("link", client, "nobody", "answered", FALSE, t, r)
  <2>1. PICK q, p, m, a : q = req' /\ p = NoRequest /\ m = NoRecord /\ a = NoAnswer
    OBVIOUS
  <2>2. q = [p EXCEPT !.route = "link", !.client = client, !.step = "answered",
                      !.target = t, !.resp = r]
    BY <1>2, <2>1 DEF Hit
  <2>3. p = [route |-> "none", client |-> "other", refused |-> "nobody", step |-> "none",
             age |-> 0, hop |-> 0, failed |-> FALSE, slow |-> 0, rested |-> FALSE,
             target |-> m, resp |-> a]
    BY <2>1 DEF NoRequest
  <2>4. q = [route |-> "link", client |-> client, refused |-> "nobody", step |-> "answered",
             age |-> 0, hop |-> 0, failed |-> FALSE, slow |-> 0, rested |-> FALSE,
             target |-> t, resp |-> r]
    BY <2>2, <2>3
  <2> QED BY <2>1, <2>4 DEF Arrived
<1>5. Places' /\ Timing'
  BY <1>1, <1>4, ArrivedStep DEF Inv, Route, LinkRoutes
<1>6. World' /\ Kept' /\ Buckets'
  BY <1>1, WorldSame DEF Inv, Buckets, limiter
<1>7. AnswerOK'
  <2>1. Fresh(t, 0)'
    <3>1. config.max_age \in Nat /\ RelayLag \in Nat
      BY ServiceAssumption DEF Inv, World
    <3>2. \A v \in Value : idle[v] \in Nat
      <4>1. \A v \in Value : idle[v] \in 0..Cap
        BY DEF Inv, World
      <4> QED BY <4>1, CapType
    <3> QED BY <1>1, <1>3, <3>1, <3>2 DEF Fresh, world
  <2>2. /\ req'.route = "link" /\ req'.client = client /\ req'.resp = r /\ req'.target = t
    BY <1>4 DEF Arrived
  <2>3. Fresh(req.target, 0)' /\ IsResponse(req'.resp) /\ req'.resp.status = 307
    BY <1>3, <2>1, <2>2 DEF Fresh
  <2>4. cached' # NoEntry
    BY <1>1
  <2> QED BY <2>3, <2>4 DEF AnswerOK
<1> QED BY <1>5, <1>6, <1>7 DEF Inv

(* What was true of an answer stays true when the record changes. *)
LEMMA OtherWriteInv ==
  ASSUME Inv, OtherWrite
  PROVE  Inv'
<1>1. UNCHANGED <<phase, given, config, limiter, cached, req>>
  BY DEF OtherWrite
<1>2. WorldStep
  BY DEF OtherWrite, WorldStep, Value, SetRecord
<1>3. World' /\ Kept' /\ Buckets' /\ Places' /\ Timing'
  BY <1>1, <1>2, WorldKept, EntryKept
  DEF Inv, Buckets, limiter, Places, Shape, Timing, Up
<1>4. AnswerOK'
  <2>1. PICK t, d, f, n : /\ t = req.target /\ d = req.resp.detail /\ f = req.failed
                          /\ n = req.resp.cache
    OBVIOUS
  <2>2. /\ True404(d, f) => True404(d, f)'
        /\ Fresh(t, 0) => Fresh(t, 0)'
        /\ n \in Nat /\ Fresh(t, n) => Fresh(t, n)'
    BY <1>2, WorldKept DEF Inv
  <2>3. /\ True404(req.resp.detail, req.failed)' <=> True404(d, f)'
        /\ Fresh(req.target, 0)' <=> Fresh(t, 0)'
        /\ Fresh(req.target, req.resp.cache)' <=> Fresh(t, n)'
    BY <1>1, <2>1 DEF True404, Fresh
  <2>4. SUFFICES ASSUME req.step = "answered"
                 PROVE  AnswerOK'
    BY <1>1 DEF AnswerOK
  <2>5. IsResponse(req.resp)
    BY <2>4 DEF Inv, AnswerOK
  <2>6. n \in Int
    BY <2>1, <2>5 DEF IsResponse
  <2>7. n > 0 => n \in Nat
    BY <2>6
  <2> QED BY <1>1, <2>1, <2>2, <2>3, <2>4, <2>5, <2>7 DEF Inv, AnswerOK
<1> QED BY <1>3, <1>4 DEF Inv

(* A tick makes every value at most one tick older. *)
LEMMA TickWorld ==
  ASSUME World, Tick
  PROVE  /\ World' /\ \A v \in Value : idle[v] \in Nat /\ idle'[v] \in Nat /\ idle'[v] <= idle[v] + 1
         /\ UNCHANGED <<phase, given, config, account, value>>
<1>1. Cap \in Nat
  BY CapType
<1>2. /\ idle' = [v \in Value |-> IF v = value THEN 0 ELSE Least(idle[v] + 1, Cap)]
      /\ UNCHANGED <<phase, given, config, account, value>>
  BY DEF Tick
<1>3. idle \in [Value -> 0..Cap]
  BY DEF World
<1>4. ASSUME NEW v \in Value
      PROVE  idle[v] \in Nat /\ idle'[v] \in 0..Cap /\ idle'[v] \in Nat /\ idle'[v] <= idle[v] + 1
  <2>1. idle[v] \in 0..Cap
    BY <1>3
  <2> QED BY <1>1, <1>2, <2>1 DEF Least
<1>5. idle' \in [Value -> 0..Cap]
  BY <1>2, <1>4
<1>6. value \in Value /\ idle'[value] = 0
  BY <1>2 DEF World
<1> QED BY <1>2, <1>4, <1>5, <1>6 DEF World

LEMMA TickBuckets ==
  ASSUME Buckets, Tick
  PROVE  Buckets'
<1>1. /\ tokens' = [k \in DOMAIN tokens |-> Least(tokens[k] + 1, Burst)]
      /\ quiet' = [s \in Sender |-> Least(quiet[s] + 1, Burst)]
  BY DEF Tick
<1>2. /\ tokens \in [Sender \cup {"shared"} -> 0..Burst] /\ quiet \in [Sender -> 0..Burst]
      /\ \A s \in Sender \ Anonymous : tokens[s] >= quiet[s]
      /\ Burst \in Nat \ {0}
  BY ServiceAssumption DEF Buckets
<1>3. ASSUME NEW n \in 0..Burst
      PROVE  Least(n + 1, Burst) \in 0..Burst
  BY <1>2 DEF Least
<1>4. \A k \in Sender \cup {"shared"} : tokens[k] \in 0..Burst
  BY <1>2
<1>5. \A s \in Sender : quiet[s] \in 0..Burst
  BY <1>2
<1>6. tokens' \in [Sender \cup {"shared"} -> 0..Burst]
  BY <1>1, <1>2, <1>3, <1>4
<1>7. quiet' \in [Sender -> 0..Burst]
  BY <1>1, <1>3, <1>5
<1>8. ASSUME NEW s \in Sender \ Anonymous
      PROVE  tokens'[s] >= quiet'[s]
  <2>1. tokens'[s] = Least(tokens[s] + 1, Burst) /\ quiet'[s] = Least(quiet[s] + 1, Burst)
    BY <1>1, <1>2
  <2> QED BY <1>2, <1>4, <1>5, <2>1 DEF Least
<1> QED BY <1>6, <1>7, <1>8 DEF Buckets

LEMMA TickKept ==
  ASSUME World, Kept, Tick
  PROVE  Kept'
<1>1. SUFFICES ASSUME cached' # NoEntry
               PROVE  Kept'
  BY DEF Kept
<1>2. cached.left > 0 /\ cached' = [cached EXCEPT !.left = cached.left - 1]
  BY <1>1 DEF Tick
<1>3. cached # NoEntry
  BY <1>2 DEF NoEntry
<1>4. PICK c, r, t, n : c = cached' /\ r = cached.resp /\ t = cached.target /\ n = cached.left
  OBVIOUS
<1>5. /\ cached = [resp |-> r, target |-> t, left |-> n]
      /\ IsResponse(r) /\ r.status = 307 /\ n \in Nat /\ Fresh(t, n)
  BY <1>3, <1>4 DEF Kept
<1>6. c = [resp |-> r, target |-> t, left |-> n - 1]
  BY <1>2, <1>4, <1>5
<1>7. Fresh(t, n - 1)'
  <2>1. config.max_age \in Nat /\ RelayLag \in Nat /\ config' = config
    BY TickWorld, ServiceAssumption DEF World
  <2> QED BY <1>5, <2>1, TickWorld DEF Fresh
<1>8. cached'.resp = r /\ cached'.target = t /\ cached'.left = n - 1
  BY <1>4, <1>6
<1>9. Fresh(cached.target, cached.left)'
  BY <1>7, <1>8 DEF Fresh
<1>10. n - 1 \in Nat
  BY <1>2, <1>4, <1>5
<1>11. cached' = [resp |-> cached'.resp, target |-> cached'.target, left |-> cached'.left]
  BY <1>4, <1>6, <1>8
<1> QED BY <1>5, <1>8, <1>9, <1>10, <1>11 DEF Kept

(* No step takes longer than it has patience, and one on the direct path
   counts as slow for as long as it takes. *)
LEMMA TickRequest ==
  ASSUME Inv, Tick, req # NoRequest
  PROVE  Places' /\ Timing' /\ AnswerOK'
<1>1. req.hop < Patience(req.step) /\ req.age < Budget /\ Up /\ Up'
  BY DEF Tick, Up
<1>2. req.step \in Relay \cup Direct \cup Owner
  <2>1. req.step \notin {"routed", "answered"}
    <3>1. SUFFICES ASSUME req.step \in {"routed", "answered"}
                   PROVE  FALSE
      OBVIOUS
    <3>2. req.hop = 0 /\ Patience(req.step) = 0
      BY <3>1 DEF Inv, Timing, Patience, Relay, Direct, Owner
    <3> QED BY <1>1, <3>2
  <2> QED BY <2>1 DEF Inv, Places
<1>3. req.age \in Nat /\ req.slow \in 0..req.age /\ req.hop \in Nat /\ Budget \in Nat \ {0}
  BY ServiceAssumption DEF Inv, Timing
<1>4. PICK n : n = IF req.step \in Direct THEN req.slow + 1 ELSE req.slow
  OBVIOUS
<1>5. req' = [route |-> req.route, client |-> req.client, refused |-> req.refused,
              step |-> req.step, age |-> req.age + 1, hop |-> req.hop + 1,
              failed |-> req.failed, slow |-> n, rested |-> req.rested,
              target |-> req.target, resp |-> req.resp]
  <2>1. PICK q : q = req'
    OBVIOUS
  <2>2. q = [req EXCEPT !.age = req.age + 1, !.hop = req.hop + 1, !.slow = n]
    BY <1>4, <2>1 DEF Tick
  <2> QED BY <2>1, <2>2 DEF Inv, Places, Shape
<1>6. /\ req'.route = req.route /\ req'.client = req.client /\ req'.step = req.step
      /\ req'.age = req.age + 1 /\ req'.hop = req.hop + 1 /\ req'.slow = n
      /\ req'.target = req.target
  BY <1>5
<1>7. Shape'
  BY <1>5, <1>6 DEF Shape
<1>8. req.step \notin {"none", "routed", "answered"}
  BY <1>2 DEF Relay, Direct, Owner
<1>9. Places'
  BY <1>1, <1>6, <1>7, <1>8 DEF Inv, Places
<1>10. Timing'
  <2>1. n \in 0..(req.age + 1)
    BY <1>3, <1>4
  <2>2. CASE req.step \in {"slingshot_handle", "slingshot_record"}
    <3>1. req.hop < 1 /\ n = req.slow
      BY <1>1, <1>4, <2>2 DEF Patience, Relay, Direct, Owner
    <3> QED BY <1>1, <1>3, <1>6, <2>1, <2>2, <3>1 DEF Inv, Timing
  <2>3. CASE req.step \notin {"slingshot_handle", "slingshot_record"}
    <3>1. req.step \in {"resolve_handle", "resolve_did_doc", "fetch_record"} => n = req.slow + 1
      BY <1>4 DEF Direct
    <3> QED BY <1>1, <1>3, <1>6, <1>8, <2>1, <2>3, <3>1 DEF Inv, Timing
  <2> QED BY <2>2, <2>3
<1>11. AnswerOK'
  BY <1>6, <1>8 DEF AnswerOK
<1> QED BY <1>9, <1>10, <1>11

LEMMA TickInv ==
  ASSUME Inv, Tick
  PROVE  Inv'
<1>1. World' /\ Buckets' /\ Kept'
  BY TickWorld, TickBuckets, TickKept DEF Inv
<1>2. CASE req = NoRequest
  <2>1. req' = NoRequest /\ Up'
    BY <1>2 DEF Tick, Up
  <2> QED BY <1>1, <2>1, Rest DEF Inv
<1>3. CASE req # NoRequest
  BY <1>1, <1>3, TickRequest DEF Inv
<1> QED BY <1>2, <1>3
-----------------------------------------------------------------------------
(* A source says of each setting nothing, or one of its values. *)
LEMMA SourceType ==
  ASSUME NEW s \in Source, NEW f \in Field
  PROVE  s[f] = Absent \/ s[f] \in Settings[f]
<1>1. CASE s = Nothing
  BY <1>1 DEF Nothing
<1>2. ASSUME NEW g \in Field, NEW v \in Settings[g], s = [Nothing EXCEPT ![g] = v]
      PROVE  s[f] = Absent \/ s[f] \in Settings[f]
  BY <1>2 DEF Nothing
<1> QED BY <1>1, <1>2 DEF Source

(* What is loaded is what was given, and is valid. *)
LEMMA Loaded ==
  ASSUME given \in (Source \cup {Malformed}) \X Source, NEW c,
         c = load(given[1], given[2]), c # Panic
  PROVE  /\ given[1] # Malformed /\ given[1] \in Source /\ given[2] \in Source
         /\ c = Merge(given[1], given[2])
         /\ c \in [base : BaseUrl, max_age : MaxAges, per_second : Nat \ {0},
                    session_file : Settings.session_file \cup {""}]
<1>1. given[1] \in Source \cup {Malformed} /\ given[2] \in Source
  OBVIOUS
<1>2. given[1] # Malformed /\ Valid(Merge(given[1], given[2])) /\ c = Merge(given[1], given[2])
  BY DEF load
<1>3. PICK a \in Source, b \in Source : a = given[1] /\ b = given[2]
  BY <1>1, <1>2
<1>4. Field = {"base", "max_age", "per_second", "session_file"}
  BY StartupAssumption DEF Field
<1>5. c = [f \in Field |-> IF b[f] # Absent THEN b[f]
                           ELSE IF a[f] # Absent THEN a[f] ELSE Default[f]]
  BY <1>2, <1>3 DEF Merge
<1>6. \A f \in Field : c[f] = Default[f] \/ c[f] \in Settings[f]
  BY <1>5, SourceType
<1>7. Valid(c)
  BY <1>2
<1>8. /\ c["base"] \in BaseUrl /\ c["max_age"] \in MaxAges
      /\ c["per_second"] \in Nat \ {0} /\ c["session_file"] \in Settings.session_file \cup {""}
  <2>1. c["max_age"] \in MaxAges
    BY <1>4, <1>6 DEF MaxAges
  <2>2. c["per_second"] \in Nat
    <3>1. c["per_second"] = Default["per_second"] \/ c["per_second"] \in Settings["per_second"]
      BY <1>4, <1>6
    <3>2. Default["per_second"] \in Nat
      BY DEF Default
    <3>3. Settings["per_second"] \subseteq Nat
      BY StartupAssumption
    <3> QED BY <3>1, <3>2, <3>3
  <2>3. c["session_file"] \in Settings.session_file \cup {""}
    BY <1>4, <1>6 DEF Default
  <2> QED BY <1>7, <2>1, <2>2, <2>3 DEF Valid
<1>9. c \in [base : BaseUrl, max_age : MaxAges, per_second : Nat \ {0},
             session_file : Settings.session_file \cup {""}]
  BY <1>4, <1>5, <1>8
<1> QED BY <1>1, <1>2, <1>9

LEMMA BootInv ==
  ASSUME Inv, Boot
  PROVE  Inv'
<1>1. /\ ~Up /\ req = NoRequest /\ cached = NoEntry /\ UNCHANGED <<world, limiter, cached, req>>
  BY DEF Boot, Up, Inv, Places
<1>2. given' \in (Source \cup {Malformed}) \X Source
  BY DEF Boot, Source
<1>3. PICK c : c = load(given[1], given[2])
  OBVIOUS
<1>4. /\ phase' \in {"starting", "panicked", "Memory", "File", "Dynamo"}
      /\ config' \in [base : BaseUrl, max_age : MaxAges, per_second : Nat \ {0},
                      session_file : Settings.session_file \cup {""}]
  <2>1. CASE c = Panic
    BY <1>3, <2>1 DEF Boot, Inv, World
  <2>2. CASE c # Panic
    <3>1. PICK s \in SessionStore(c) : phase' = IF s = Panic THEN "panicked" ELSE s
      BY <1>3, <2>2 DEF Boot
    <3>2. s \in {"Memory", "File", "Dynamo", Panic}
      BY DEF SessionStore
    <3>3. config' = c
      BY <1>3, <2>2 DEF Boot
    <3> QED BY <1>3, <2>2, <3>1, <3>2, <3>3, Loaded DEF Inv, World
  <2> QED BY <2>1, <2>2
<1>5. World' /\ Buckets' /\ Kept'
  BY <1>1, <1>2, <1>4 DEF Inv, World, Buckets, Kept, world, limiter
<1>6. Places' /\ Timing' /\ AnswerOK'
  <2>1. Timing' /\ AnswerOK'
    <3>1. req.step = "none"
      BY <1>1 DEF NoRequest
    <3> QED BY <1>1, <3>1 DEF Inv, Timing, AnswerOK
  <2>2. Places'
    BY <1>1 DEF Inv, Places, Shape
  <2> QED BY <2>1, <2>2
<1> QED BY <1>5, <1>6 DEF Inv

LEMMA InitInv == Init => Inv
<1>1. SUFFICES ASSUME Init
               PROVE  Inv
  OBVIOUS
<1>2. Cap \in Nat /\ Burst \in Nat \ {0} /\ Budget \in Nat \ {0}
  BY CapType, ServiceAssumption
<1>3. World
  <2>1. 0 \in 0..Cap /\ Cap \in 0..Cap
    BY <1>2
  <2>2. value \in Value /\ idle \in [Value -> 0..Cap] /\ idle[value] = 0
    BY <1>1, <2>1 DEF Init, Value
  <2>3. config \in [base : BaseUrl, max_age : MaxAges, per_second : Nat \ {0},
                    session_file : Settings.session_file \cup {""}]
    <3>1. config = [base |-> "https", max_age |-> 1, per_second |-> 2, session_file |-> ""]
      BY <1>1 DEF Init, Default
    <3>2. 1 \in MaxAges
      BY DEF MaxAges, Default
    <3>3. 2 \in Nat \ {0} /\ "https" \in BaseUrl
      BY DEF BaseUrl
    <3>4. PICK A, B, N, S : A = MaxAges /\ B = BaseUrl /\ N = Nat \ {0}
                            /\ S = Settings.session_file \cup {""}
      OBVIOUS
    <3>5. config \in [base : B, max_age : A, per_second : N, session_file : S]
      <4>1. "https" \in B /\ 1 \in A /\ 2 \in N /\ "" \in S
        BY <3>2, <3>3, <3>4
      <4>2. PICK one, two, empty : one = 1 /\ two = 2 /\ empty = ""
        OBVIOUS
      <4>3. config = [base |-> "https", max_age |-> one, per_second |-> two, session_file |-> empty]
        BY <3>1, <4>2
      <4> QED BY <4>1, <4>2, <4>3
    <3> QED BY <3>4, <3>5
  <2> QED BY <1>1, <2>2, <2>3 DEF Init, World
<1>4. Buckets
  BY <1>1, <1>2 DEF Init, Buckets
<1>5. Kept
  BY <1>1 DEF Init, Kept
<1>6. Places /\ Timing /\ AnswerOK
  <2>1. PICK n, a : n = NoRecord /\ a = NoAnswer
    OBVIOUS
  <2>2. req = [route |-> "none", client |-> "other", refused |-> "nobody", step |-> "none",
               age |-> 0, hop |-> 0, failed |-> FALSE, slow |-> 0, rested |-> FALSE,
               target |-> n, resp |-> a]
    BY <1>1, <2>1 DEF Init, NoRequest
  <2>3. /\ req.route = "none" /\ req.client = "other" /\ req.step = "none"
        /\ req.age = 0 /\ req.hop = 0 /\ req.slow = 0
    BY <2>2
  <2>4. Shape
    BY <2>2 DEF Shape
  <2>5. ~Up /\ req = NoRequest /\ cached = NoEntry
    BY <1>1 DEF Init, Up
  <2>6. Places
    BY <2>3, <2>4, <2>5 DEF Places, Client, LinkRoutes, Hops
  <2>7. 0 \in 0..Budget /\ 0 \in 0..0 /\ 0 \in Nat
    BY <1>2
  <2> QED BY <2>3, <2>6, <2>7 DEF Timing, AnswerOK
<1> QED BY <1>3, <1>4, <1>5, <1>6 DEF Inv

LEMMA NextInv ==
  ASSUME Inv, [Next]_vars
  PROVE  Inv'
<1>1. CASE Boot
  BY <1>1, BootInv
<1>2. CASE Routed \/ Timeout
  BY <1>2, RoutedInv, TimeoutInv
<1>3. CASE SlingshotHandle \/ SlingshotRecord
  BY <1>3, SlingshotHandleInv, SlingshotRecordInv
<1>4. CASE ResolveHandle \/ ResolveDidDoc \/ FetchRecord
  BY <1>4, ResolveHandleInv, ResolveDidDocInv, FetchRecordInv
<1>5. CASE Describe \/ DidHandle \/ Ping \/ Other
  BY <1>5, DescribeInv, DidHandleInv, PingInv, OtherInv
<1>6. CASE Restore \/ Shorten \/ UpdateLink \/ DeleteLink
  BY <1>6, RestoreInv, ShortenInv, WriteInv
<1>7. CASE Deliver \/ OtherWrite \/ Tick \/ \E c \in Client : Hit(c)
  BY <1>7, DeliverInv, OtherWriteInv, TickInv, HitInv
<1>8. CASE \E r \in Route, c \in Client :
             Arrive(r, c) \/ \E s \in Sender : ArriveLimited(r, c, s)
  BY <1>8, ArriveInv, ArriveLimitedInv
<1>9. CASE UNCHANGED vars
  <2>1. /\ UNCHANGED <<phase, given, config, world, limiter, cached>> /\ req' = req
        /\ UNCHANGED <<account, value, idle, tokens, quiet>>
    BY <1>9 DEF vars, world, limiter
  <2>2. World' /\ Buckets' /\ Kept'
    BY <2>1, WorldSame DEF Inv, Buckets
  <2>3. Places' /\ Timing'
    BY <2>1 DEF Inv, Places, Shape, Timing, Up
  <2>4. AnswerOK'
    BY <2>1 DEF Inv, AnswerOK, Fresh, True404
  <2> QED BY <2>2, <2>3, <2>4 DEF Inv
<1> QED BY <1>1, <1>2, <1>3, <1>4, <1>5, <1>6, <1>7, <1>8, <1>9 DEF Next, Handle

(* Inv is an invariant of the service. *)
THEOREM Invariance == Spec => []Inv
BY InitInv, NextInv, PTL DEF Spec

(* The types hold: a request is never older than its budget, and a bucket
   never holds more than the burst. *)
THEOREM TypeCorrect == Spec => []TypeOK
<1>1. Inv => TypeOK
  BY DEF Inv, World, Buckets, Places, Timing, TypeOK
<1> QED BY <1>1, Invariance, PTL

(* No cache in front of the service comes to hold a failure. *)
THEOREM NoCachedErrorHolds == Spec => []NoCachedError
<1>1. Inv => NoCachedError
  BY DEF Inv, Kept, NoCachedError
<1> QED BY <1>1, Invariance, PTL

(* A 404 is about the owner's repository or the account, and never about a
   server that failed. *)
THEOREM NotFoundIsTrueHolds == Spec => []NotFoundIsTrue
<1>1. Inv => NotFoundIsTrue
  BY DEF Inv, AnswerOK, NotFoundIsTrue, OnLink, At, True404
<1> QED BY <1>1, Invariance, PTL

(* However lookups, caches and writes interleave, no redirect is older than
   the cache lifetime and the relay's lag together. *)
THEOREM StaleRedirectBoundedHolds == Spec => []StaleRedirectBounded
<1>1. ASSUME Inv
      PROVE  StaleRedirectBounded
  <2>1. SUFFICES ASSUME OnLink, req.resp.status = 307
                 PROVE  Fresh(req.target, 0)
    <3>1. \A v \in Value : idle[v] \in Nat
      <4>1. \A v \in Value : idle[v] \in 0..Cap
        BY <1>1 DEF Inv, World
      <4> QED BY <4>1, CapType
    <3> QED BY <3>1 DEF StaleRedirectBounded, Fresh
  <2> QED BY <1>1, <2>1 DEF Inv, AnswerOK, OnLink, At
<1> QED BY <1>1, Invariance, PTL

(* A 502 on a link means that the direct path failed, not just the relay, and a
   relay that hangs costs two hops of the budget. *)
THEOREM RelayOutageIsSurvivedHolds == Spec => []RelayOutageIsSurvived
<1>1. Inv => RelayOutageIsSurvived
  BY DEF Inv, AnswerOK, RelayOutageIsSurvived, OnLink, At
<1> QED BY <1>1, Invariance, PTL

(* Every failure reaches a browser as a page that is not kept, and every 429
   says when to come back. *)
THEOREM FailuresFitTheClientHolds == Spec => []FailuresFitTheClient
<1>1. Inv => FailuresFitTheClient
  BY DEF Inv, AnswerOK, FailuresFitTheClient, At
<1> QED BY <1>1, Invariance, PTL

(* No client is refused for what another one sends. *)
THEOREM NoisyNeighbourHolds == Spec => []NoisyNeighbour
<1>1. Inv => NoisyNeighbour
  BY DEF Inv, AnswerOK, NoisyNeighbour, At
<1> QED BY <1>1, Invariance, PTL

(* The process that comes up runs with every setting it was given. *)
THEOREM BootsOnlyAsConfiguredHolds == Spec => BootsOnlyAsConfigured
<1>1. ASSUME Inv, [Next]_vars, phase = "starting", Up'
      PROVE  /\ given[1] # Malformed
             /\ \A f \in Field : given[2][f] # Absent => config'[f] = given[2][f]
             /\ \A f \in Field : given[1][f] # Absent /\ given[2][f] = Absent =>
                  config'[f] = given[1][f]
             /\ (phase' = "Memory") <=> (config'.session_file = "")
  <2>1. ~Up /\ phase' # phase
    BY <1>1 DEF Up
  <2>2. Boot
    BY <1>1, <2>1
    DEF Next, vars, Handle, Routed, Timeout, SlingshotHandle, SlingshotRecord, ResolveHandle,
        ResolveDidDoc, FetchRecord, Describe, DidHandle, Ping, Other, Restore, Shorten,
        UpdateLink, DeleteLink, Deliver, OtherWrite, Tick, Hit, Arrive, ArriveLimited, Quietly
  <2>3. PICK c : c = load(given[1], given[2])
    OBVIOUS
  <2>4. c # Panic /\ config' = c
    BY <1>1, <2>2, <2>3 DEF Boot, Up
  <2>5. given[1] # Malformed /\ c = Merge(given[1], given[2])
    BY <1>1, <2>3, <2>4, Loaded DEF Inv, World
  <2>6. PICK s \in SessionStore(c) : phase' = IF s = Panic THEN "panicked" ELSE s
    BY <2>2, <2>3, <2>4 DEF Boot
  <2>7. (phase' = "Memory") <=> (c.session_file = "")
    BY <1>1, <2>6 DEF SessionStore, Up
  <2> QED BY <2>4, <2>5, <2>7 DEF Merge
<1>2. Inv /\ [Next]_vars =>
        [phase = "starting" /\ Up' =>
          /\ given[1] # Malformed
          /\ \A f \in Field : given[2][f] # Absent => config'[f] = given[2][f]
          /\ \A f \in Field : given[1][f] # Absent /\ given[2][f] = Absent => config'[f] = given[1][f]
          /\ (phase' = "Memory") <=> (config'.session_file = "")]_vars
  BY <1>1
<1> QED BY <1>2, Invariance, PTL DEF Spec, BootsOnlyAsConfigured
=============================================================================
