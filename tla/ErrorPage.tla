----------------------------- MODULE ErrorPage -----------------------------
(***************************************************************************)
(* What the client gets when a handler fails (src/src/error.rs), and the   *)
(* layers around the router that rewrite it (src/src/api/error_page.rs and *)
(* router_with_state in src/src/lib.rs).                                   *)
(***************************************************************************)
EXTENDS Integers

(* The ways a client says what it wants: a navigation of a current browser
   (Sec-Fetch-Dest: document), an older browser (Accept: text/html), and any
   other client. *)
Client == {"navigation", "browser", "other"}

AppError == {"NotFound", "HandleNotFound", "BadRequest", "Unauthorized", "Conflict",
             "Upstream", "Internal"}

status(e) ==
  CASE e \in {"NotFound", "HandleNotFound"} -> 404
    [] e = "BadRequest" -> 400
    [] e = "Unauthorized" -> 401
    [] e = "Conflict" -> 409
    [] e = "Upstream" -> 502
    [] e = "Internal" -> 500

(* A response: the parts that some layer sets or some property looks at.
   cache is -1 for no Cache-Control, 0 for no-store, else a max-age; length is
   the body that the Content-Length was counted for. *)
Response(s, type, cache) ==
  [status |-> s, type |-> type, cache |-> cache, detail |-> "none",
   retry |-> FALSE, length |-> type, secured |-> FALSE, hsts |-> FALSE,
   heading |-> "none"]

(* The mutant of into_response: no cache policy on failures. *)
into_response_bare(e) == [Response(status(e), "json", -1) EXCEPT !.detail = e]

into_response(e) == [Response(status(e), "json", 0) EXCEPT !.detail = e]

(* Errors that never pass through AppError. *)
Rejection(s) == Response(s, "text", -1)
TooManyRequests == [Rejection(429) EXCEPT !.retry = TRUE]
GatewayTimeout == Response(504, "empty", -1)

-----------------------------------------------------------------------------
wants_html(client, under_api) ==
  client = "navigation" \/ (client = "browser" /\ ~under_api)

copy_for(s) ==
  CASE s = 404 -> "No link here"
    [] s = 400 -> "That address isn't valid"
    [] s = 401 -> "You're signed out"
    [] s = 409 -> "That short code is taken"
    [] s = 429 -> "Too fast"
    [] s \in {405, 415} -> "That didn't arrive in a form we can read"
    [] s \in {502, 503, 504} -> "The network isn't answering"
    [] s >= 500 /\ s \notin {502, 503, 504} -> "Something broke on our side"
    [] OTHER -> "That request didn't work"

copy_for_detail(r) ==
  IF r.status = 404 /\ r.detail = "HandleNotFound" THEN "No such account"
  ELSE copy_for(r.status)

(* The mutants of render: the length of the body that was replaced is left on
   the page; a fresh response, without what was already on the old one. *)
render_stale_length(r) ==
  [r EXCEPT !.type = "html", !.cache = 0, !.heading = copy_for_detail(r)]
render_fresh(r) ==
  [Response(r.status, "html", 0) EXCEPT !.heading = copy_for_detail(r)]

render(r) ==
  [r EXCEPT !.type = "html", !.cache = 0, !.length = "html",
            !.heading = copy_for_detail(r)]

html_errors(client, under_api, r) ==
  IF wants_html(client, under_api) /\ r.status >= 400 /\ r.type # "html"
    THEN render(r) ELSE r

(* The response headers every answer gets. *)
SetHeaders(r, loopback) == [r EXCEPT !.secured = TRUE, !.hsts = ~loopback]

(* The mutant of Layers: the pages inside the timeout. *)
LayersSwapped(client, under_api, loopback, r) ==
  SetHeaders(IF r = GatewayTimeout THEN r ELSE html_errors(client, under_api, r), loopback)

(* The layers, from the timeout outwards. *)
Layers(client, under_api, loopback, r) ==
  SetHeaders(html_errors(client, under_api, r), loopback)
=============================================================================
