----------------------------- MODULE LinkStore -----------------------------
(***************************************************************************)
(* The write side of atpr.to: POST, PUT and DELETE /api/shorten and        *)
(* GET /api/links, over PdsLinkStore, whose records live in the user's     *)
(* repository on a remote PDS.                                             *)
(*                                                                         *)
(* Several requests of one user run at once (tabs, retries). Each sends    *)
(* one call to the PDS and waits; the call may be served late, refused, or *)
(* its reply lost, and the 25-second TimeoutLayer may drop the handler at  *)
(* any point while the PDS goes on. A dashboard meanwhile pages through    *)
(* the list, following cursors.                                            *)
(*                                                                         *)
(* Every request writes a destination of its own, named by its number.     *)
(***************************************************************************)
EXTENDS Integers, Sequences, FiniteSets, FiniteSetsExt

CONSTANTS
  Codes,        \* record keys, in the order listRecords lists them
  NoRecord,     \* what a free record key holds
  Unusable,     \* a record another app put there, whose destination is no URL here
  Older,        \* a link made before the requests below
  MaxPageSize,  \* MAX_PAGE_SIZE
  Limits,       \* values of ?limit= that callers send
  MaxRequests,  \* bound on write requests
  MaxFailures   \* bound on list calls that fail

ASSUME LinkAssumption ==
  /\ Codes \in Nat /\ MaxPageSize \in Nat \ {0}
  /\ Limits \subseteq Nat
  /\ {NoRecord, Unusable, Older} \cap Nat = {}
  /\ Cardinality({NoRecord, Unusable, Older}) = 3
  /\ MaxRequests \in Nat /\ MaxFailures \in Nat

VARIABLES
  repo,       \* external: the collection to.atpr.link of the user's repo
  request,    \* the write requests made so far
  walk,       \* a client paging through GET /api/links
  throughout, \* history: codes with a usable record ever since the walk began
  failures

vars == <<repo, request, walk, throughout, failures>>

Code == 1..Codes
NoCursor == 0

(* What a record key holds. A request's link is the request's number. *)
Record == {NoRecord, Unusable, Older} \cup 1..MaxRequests

Usable == {c \in Code : repo[c] \notin {NoRecord, Unusable}}

-----------------------------------------------------------------------------
(* The PDS. putRecord is an upsert, unless "swapRecord": null asks it to fail
   when the key is taken; deleteRecord succeeds whether or not there is a
   record. `effect` is what was done, "unserved" as long as nothing was. *)
Op == {"shorten", "update", "delete"}
Effect == {"unserved", "nothing", "created", "replaced", "removed"}

(* PutMode: POST creates only, PUT overwrites. *)
CreateOnly(op) == op = "shorten"

(* The mutant of Write: without the explicit null, putRecord is an upsert. *)
WriteUpsert(op, held) ==
  CASE op = "delete" -> IF held THEN "removed" ELSE "nothing"
    [] OTHER -> IF held THEN "replaced" ELSE "created"

Write(op, held) ==
  CASE op = "delete" -> IF held THEN "removed" ELSE "nothing"
    [] CreateOnly(op) /\ held -> "nothing"
    [] OTHER -> IF held THEN "replaced" ELSE "created"

(* InMemoryLinkStore::put and delete: what the store that the tests use in
   place of PdsLinkStore makes of the same request. *)
InMemory(op, held) ==
  CASE op = "delete" -> IF held THEN 204 ELSE 404
    [] op = "shorten" -> IF held THEN 409 ELSE 200
    [] op = "update" -> 204

(* listRecords: up to `limit` records after the cursor, a cursor whenever
   there was a record, and an error for a limit it does not accept. *)
Listed(limit, cursor) ==
  LET after == {c \in Code : repo[c] # NoRecord /\ c > cursor}
  IN  {c \in after : Cardinality({d \in after : d < c}) < limit}

-----------------------------------------------------------------------------
(* The mutant of Clamped: no lower bound, so ?limit=0 reaches the PDS. *)
ClampedAbove(limit) == Min({limit, MaxPageSize})

(* page.limit.clamp(1, MAX_PAGE_SIZE) *)
Clamped(limit) == Max({1, Min({limit, MaxPageSize})})

(* The mutant of NextCursor: counted on the links, not on the records. *)
NextCursorOfLinks(records, limit) ==
  IF Cardinality({c \in DOMAIN records : records[c] # Unusable}) < limit
    THEN NoCursor ELSE Max(DOMAIN records)

(* "A short page is the last page." *)
NextCursor(records, limit) ==
  IF Cardinality(DOMAIN records) < limit THEN NoCursor ELSE Max(DOMAIN records)

-----------------------------------------------------------------------------
Init ==
  /\ repo \in [Code -> {NoRecord, Unusable, Older}]
  /\ request = <<>>
  /\ walk = [step |-> "new", limit |-> MaxPageSize, cursor |-> NoCursor,
             records |-> <<>>, shown |-> [c \in Code |-> 0]]
  /\ throughout = {}
  /\ failures = 0

(* The requests already answered when one is made. *)
Earlier == {q \in DOMAIN request : request[q].step = "answered"}

(* The mutant of Made: the handler answers without awaiting the PDS. *)
MadeDetached(op, c, valid) ==
  [op |-> op, code |-> c, after |-> Earlier, effect |-> "unserved", step |-> "answered",
   wire |-> IF valid THEN "sent" ELSE "none",
   status |-> IF ~valid THEN 400 ELSE IF op = "shorten" THEN 200 ELSE 204]

(* shorten(), update_link() and delete_link() up to their call of the PDS: a
   code or destination that does not parse is answered at once. *)
Made(op, c, valid) ==
  [op |-> op, code |-> c, after |-> Earlier, effect |-> "unserved",
   step |-> IF valid THEN "sent" ELSE "answered",
   wire |-> IF valid THEN "sent" ELSE "none",
   status |-> IF valid THEN 0 ELSE 400]

Make(op, c, valid) ==
  /\ Len(request) < MaxRequests
  /\ request' = Append(request, Made(op, c, valid))
  /\ UNCHANGED <<repo, walk, throughout, failures>>

(* The PDS serves a call, whether or not anyone still waits for the reply. *)
Serve(r) ==
  LET c == request[r].code
      effect == Write(request[r].op, repo[c] # NoRecord) IN
  /\ request[r].wire = "sent"
  /\ request' = [request EXCEPT ![r].effect = effect,
       ![r].wire = IF effect = "nothing" /\ request[r].op # "delete" THEN "swap" ELSE "ok"]
  /\ repo' = IF effect \in {"created", "replaced"} THEN [repo EXCEPT ![c] = r]
             ELSE IF effect = "removed" THEN [repo EXCEPT ![c] = NoRecord]
             ELSE repo
  /\ throughout' = throughout \ (IF effect = "removed" THEN {c} ELSE {})
  /\ UNCHANGED <<walk, failures>>

(* The PDS rejects a call, for any reason but a failed swap. *)
Reject(r) ==
  /\ request[r].wire = "sent"
  /\ request' = [request EXCEPT ![r].wire = "error"]
  /\ UNCHANGED <<repo, walk, throughout, failures>>

Answer(r, status) ==
  /\ request' = [request EXCEPT ![r].step = "answered", ![r].status = status]
  /\ UNCHANGED <<repo, walk, throughout, failures>>

(* The mutants of Receive: an answer of any kind counts as success; delete()
   does without into_output(), and takes a refusal for a deletion. *)
ReceiveUnchecked(r) ==
  /\ request[r].step = "sent"
  /\ request[r].wire \in {"ok", "swap", "error"}
  /\ Answer(r, IF request[r].op = "shorten" THEN 200 ELSE 204)

ReceiveDeleteUnchecked(r) ==
  /\ request[r].step = "sent"
  /\ \/ request[r].wire = "ok" /\ request[r].op = "shorten"
        /\ request' = [request EXCEPT ![r].step = "naming"]
        /\ UNCHANGED <<repo, walk, throughout, failures>>
     \/ request[r].wire = "ok" /\ request[r].op # "shorten" /\ Answer(r, 204)
     \/ request[r].wire = "swap" /\ Answer(r, 409)
     \/ request[r].wire = "error" /\ Answer(r, IF request[r].op = "delete" THEN 204 ELSE 502)

(* The reply reaches the handler: into_output() and the match on it. shorten()
   goes on to resolve the handle its answer needs. *)
Receive(r) ==
  /\ request[r].step = "sent"
  /\ \/ request[r].wire = "ok" /\ request[r].op = "shorten"
        /\ request' = [request EXCEPT ![r].step = "naming"]
        /\ UNCHANGED <<repo, walk, throughout, failures>>
     \/ request[r].wire = "ok" /\ request[r].op # "shorten" /\ Answer(r, 204)
     \/ request[r].wire = "swap" /\ Answer(r, 409)
     \/ request[r].wire = "error" /\ Answer(r, 502)

(* handle_for() returns, with a handle or without. *)
Named(r) ==
  request[r].step = "naming" /\ \E status \in {200, 502} : Answer(r, status)

(* The mutant of Disconnect: a call whose reply is lost is sent once more. *)
DisconnectResent(r) ==
  /\ request[r].step = "sent"
  /\ request' = [request EXCEPT ![r].wire = "sent"]
  /\ UNCHANGED <<repo, walk, throughout, failures>>

(* send() fails: the call or its reply is lost, and the handler cannot tell
   which. *)
Disconnect(r) == request[r].step = "sent" /\ Answer(r, 502)

(* TimeoutLayer drops the handler's future. A call already made is not recalled. *)
Timeout(r) == request[r].step \in {"sent", "naming"} /\ Answer(r, 504)

-----------------------------------------------------------------------------
(* list_links() and PdsLinkStore::list, up to the call. *)
AskPage(limit) ==
  /\ walk.step \in {"new", "next"}
  /\ walk' = [walk EXCEPT !.step = "asked", !.limit = Clamped(limit)]
  /\ throughout' = IF walk.step = "new" THEN Usable ELSE throughout
  /\ UNCHANGED <<repo, request, failures>>

(* The PDS lists. *)
ServePage ==
  LET page == Listed(walk.limit, walk.cursor) IN
  /\ walk.step = "asked" /\ walk.limit \in 1..MaxPageSize
  /\ walk' = [walk EXCEPT !.step = "listed", !.records = [c \in page |-> repo[c]]]
  /\ UNCHANGED <<repo, request, throughout, failures>>

(* The call fails or times out: 502 or 504, and the client asks again. *)
FailPage ==
  /\ walk.step \in {"asked", "listed"} /\ failures < MaxFailures
  /\ failures' = failures + 1
  /\ walk' = [walk EXCEPT !.step = "next", !.records = <<>>]
  /\ UNCHANGED <<repo, request, throughout>>

(* The rest of list(), and the page reaches the client. *)
ShowPage ==
  LET cursor == NextCursor(walk.records, walk.limit) IN
  /\ walk.step = "listed"
  /\ walk' = [walk EXCEPT
       !.step = IF cursor = NoCursor THEN "done" ELSE "next",
       !.cursor = cursor,
       !.records = <<>>,
       !.shown = [c \in Code |->
          IF c \in DOMAIN walk.records /\ walk.records[c] # Unusable
            THEN walk.shown[c] + 1 ELSE walk.shown[c]]]
  /\ UNCHANGED <<repo, request, throughout, failures>>

-----------------------------------------------------------------------------
Next ==
  \/ \E op \in Op, c \in Code, valid \in BOOLEAN : Make(op, c, valid)
  \/ \E r \in DOMAIN request :
       Serve(r) \/ Reject(r) \/ Receive(r) \/ Named(r) \/ Disconnect(r) \/ Timeout(r)
  \/ \E limit \in Limits : AskPage(limit)
  \/ ServePage \/ FailPage \/ ShowPage

Spec == Init /\ [][Next]_vars

(* The client goes on asking and the PDS, which fails a list call no more than
   MaxFailures times, answers in the end. Nothing is assumed of writes. *)
Fairness ==
  /\ WF_vars(\E limit \in Limits : AskPage(limit))
  /\ WF_vars(ServePage) /\ WF_vars(ShowPage)

FairSpec == Spec /\ Fairness

-----------------------------------------------------------------------------
(* The types of the state. A limit the PDS would refuse is never asked for. *)
TypeOK ==
  /\ repo \in [Code -> Record]
  /\ request \in Seq([op : Op, code : Code, after : SUBSET (1..MaxRequests),
       effect : Effect, step : {"sent", "naming", "answered"},
       wire : {"none", "sent", "ok", "swap", "error"},
       status : {0, 200, 204, 400, 409, 502, 504}])
  /\ walk.step \in {"new", "next", "asked", "listed", "done"}
  /\ walk.limit \in 1..MaxPageSize /\ walk.cursor \in Code \cup {NoCursor}
  /\ DOMAIN walk.records \subseteq Code
  /\ walk.shown \in [Code -> Nat]
  /\ throughout \subseteq Code /\ failures \in 0..MaxFailures

Writes(c) == {r \in DOMAIN request : request[r].code = c /\ request[r].status # 400}

Final(r) == request[r].status \notin {0, 502, 504}

(* An answer tells what became of the request. 200 and 204 say the PDS served
   it: a link was created, or written, or is gone, found there or not; never
   that a call was refused or is still on its way. 409 says the PDS served it
   and changed nothing, 400 that it never was sent. Only 502 and 504 leave it
   open, which is why shorten.rs:62 logs a record written without an answer. *)
TruthfulAnswers ==
  \A r \in DOMAIN request :
    /\ request[r].status \in {200, 204} =>
         request[r].effect \in
           (CASE request[r].op = "shorten" -> {"created"}
              [] request[r].op = "update" -> {"created", "replaced"}
              [] OTHER -> {"removed", "nothing"})
    /\ request[r].status = 409 => request[r].effect = "nothing" /\ request[r].wire # "sent"
    /\ request[r].status = 400 => request[r].effect = "unserved" /\ request[r].wire = "none"

(* "Re-using a code returns 409 rather than silently destroying the link that
   was already there" (shorten.rs:49): however POSTs for one code race, only one
   succeeds for each time the code is free. *)
OneCreator ==
  \A c \in Code :
    Cardinality({r \in Writes(c) : request[r].op = "shorten" /\ request[r].status = 200})
      <= 1 + Cardinality({r \in Writes(c) : request[r].effect = "removed"})

(* Once every write to a code has a final answer, the record is what one of the
   last of them left: no successful write is undone by one that was answered
   before it was made. Writes answered 502 or 504 are out of this promise. *)
SettledValue ==
  \A c \in Code :
    LET won == {r \in Writes(c) : request[r].status # 409} IN
    won # {} /\ (\A r \in Writes(c) : Final(r)) =>
      \E r \in won :
        /\ \A q \in won : r \notin request[q].after
        /\ repo[c] = IF request[r].op = "delete" THEN NoRecord ELSE r

(* Following cursors shows every link that was there all along, whatever is
   written meanwhile and however many unusable records lie between ("a page
   that arrived full is still a full page", store.rs:303), and none twice. *)
WalkIsComplete ==
  /\ \A c \in Code : walk.shown[c] <= 1
  /\ walk.step = "done" => \A c \in throughout : walk.shown[c] = 1

(* A client that keeps following cursors reaches the end, whatever limit it
   sends. *)
WalkEnds == <>(walk.step = "done")

-----------------------------------------------------------------------------
(* What became of a request, and what its client was told. *)
Outcome(q) ==
  CASE q.wire = "sent" -> "open"
    [] q.wire = "ok" -> "done"
    [] q.wire = "swap" -> "taken"
    [] OTHER -> "never"

Told(q) ==
  CASE q.status = 0 -> "none"
    [] q.status \in {200, 204} -> "success"
    [] q.status = 400 -> "invalid"
    [] q.status = 409 -> "conflict"
    [] OTHER -> "unknown"

Promised(q) == [op |-> q.op, code |-> q.code, outcome |-> Outcome(q), answer |-> Told(q)]

Promise == INSTANCE LinkPromise WITH
  Free <- NoRecord, Before <- {Unusable, Older},
  request <- [r \in DOMAIN request |-> Promised(request[r])]

(* The write API keeps the promise of LinkPromise: "a compare-and-swap rather
   than a read-then-write race" (put), carried out once and by itself however
   requests overlap and whenever their handlers are dropped, and an answer that
   claims something comes after the fact (into_output). *)
WritesAreAtomic == Promise!Spec

-----------------------------------------------------------------------------
(* DELETE is answered as the store of the tests answers it, which for a code
   without a record is 404 (tests/authed_api.rs:414 with store.rs:44). *)
DeleteMissingIs404 ==
  \A r \in DOMAIN request :
    request[r].op = "delete" /\ request[r].status = 204 =>
      request[r].status = InMemory("delete", request[r].effect = "removed")
=============================================================================
