---------------------------- MODULE LinkPromise ----------------------------
(***************************************************************************)
(* What the write API promises the tabs and the apps that call it: a       *)
(* request is carried out at most once, in one step, at some moment after  *)
(* it was made, or never. An answer that says what became of it is true    *)
(* and comes after that moment. "I cannot tell" (502, 504) may come at any *)
(* moment, and the request be carried out later all the same. POST takes   *)
(* free codes only.                                                        *)
(*                                                                         *)
(* Nothing here knows of calls, replies, timeouts or handle lookups.       *)
(***************************************************************************)
EXTENDS Integers, Sequences

CONSTANTS
  Codes,   \* codes are 1..Codes
  Free,    \* what a code without a record holds
  Before   \* the records there may be before the first request

VARIABLES
  repo,     \* the record under each code
  request   \* the requests made: what is asked, what became of it, what was told

vars == <<repo, request>>

Code == 1..Codes

Init == repo \in [Code -> Before \cup {Free}] /\ request = <<>>

Asked(op, c, outcome, answer) ==
  [op |-> op, code |-> c, outcome |-> outcome, answer |-> answer]

Ask(op, c) == request' = Append(request, Asked(op, c, "open", "none")) /\ UNCHANGED repo

(* A request that makes no sense is answered at once and never carried out. *)
Refuse(op, c) == request' = Append(request, Asked(op, c, "never", "invalid")) /\ UNCHANGED repo

Becomes(r, outcome) == request' = [request EXCEPT ![r].outcome = outcome]
Holds(c, record) == repo' = [repo EXCEPT ![c] = record]

(* The one step in which a request is carried out; the record is named by it. *)
Perform(r) ==
  LET op == request[r].op
      c == request[r].code
  IN  /\ request[r].outcome = "open"
      /\ \/ op = "shorten" /\ repo[c] = Free /\ Holds(c, r) /\ Becomes(r, "done")
         \/ op = "shorten" /\ repo[c] # Free /\ UNCHANGED repo /\ Becomes(r, "taken")
         \/ op = "update" /\ Holds(c, r) /\ Becomes(r, "done")
         \/ op = "delete" /\ Holds(c, Free) /\ Becomes(r, "done")

GiveUp(r) == request[r].outcome = "open" /\ Becomes(r, "never") /\ UNCHANGED repo

(* A request is answered once. *)
Answer(r) ==
  /\ request[r].answer = "none"
  /\ \E answer \in {"success", "conflict", "unknown"} :
       /\ answer = "success" => request[r].outcome = "done"
       /\ answer = "conflict" => request[r].outcome = "taken"
       /\ request' = [request EXCEPT ![r].answer = answer]
  /\ UNCHANGED repo

(* That the sequence grows is what TLC looks at before it tries each request. *)
Next ==
  \/ \E r \in DOMAIN request : Perform(r) \/ GiveUp(r) \/ Answer(r)
  \/ /\ Len(request') > Len(request)
     /\ \E op \in {"shorten", "update", "delete"}, c \in Code : Ask(op, c) \/ Refuse(op, c)

Spec == Init /\ [][Next]_vars
=============================================================================
