------------------------- MODULE LinkPromise_proofs -------------------------
(***************************************************************************)
(* LinkStore implements LinkPromise, for any number of codes and requests, *)
(* from the agreement of answers with effects that LinkStore_proofs        *)
(* establishes: a request is carried out as the PDS serves its call, given *)
(* up as the PDS rejects it, and answered as its handler answers. The      *)
(* walk, and the handle lookup between reply and answer, are stutters.     *)
(***************************************************************************)
EXTENDS LinkStore_proofs, SequenceTheorems

(* The requests as the abstract specification sees them. *)
Seen == [r \in DOMAIN request |-> Promised(request[r])]

(* What the invariant says of each request. *)
LEMMA Types ==
  ASSUME WriteInv
  PROVE  /\ request \in Seq(Requested) /\ repo \in [Code -> Record]
         /\ \A r \in DOMAIN request : request[r] \in Requested /\ Agrees(request[r])
<1>1. request \in Seq(Requested) /\ repo \in [Code -> Record]
  BY DEF WriteInv, TypeOK, Requested
<1>2. \A r \in DOMAIN request : request[r] \in Requested
  BY <1>1
<1> QED BY <1>1, <1>2 DEF WriteInv, Agreement

(* LinkStore starts where LinkPromise starts. *)
LEMMA InitRefines == Init => Promise!Init
<1> SUFFICES ASSUME Init PROVE Promise!Init
  OBVIOUS
<1>1. repo \in [Code -> {Unusable, Older} \cup {NoRecord}]
  BY DEF Init
<1>2. Seen = <<>>
  BY DEF Init, Seen
<1> QED BY <1>1, <1>2 DEF Promise!Init, Promise!Code, Code, Seen

(* One request changes: so it does above. *)
LEMMA Reflected ==
  ASSUME request \in Seq(Requested), NEW r \in DOMAIN request, NEW q,
         request' = [request EXCEPT ![r] = q]
  PROVE  /\ DOMAIN Seen = DOMAIN request /\ Seen[r] = Promised(request[r])
         /\ Seen' = [Seen EXCEPT ![r] = Promised(q)]
<1>1. /\ DOMAIN request' = DOMAIN request /\ request'[r] = q
      /\ \A s \in DOMAIN request : s # r => request'[s] = request[s]
  OBVIOUS
<1>2. DOMAIN Seen = DOMAIN request /\ \A s \in DOMAIN request : Seen[s] = Promised(request[s])
  BY DEF Seen
<1>3. Seen' = [s \in DOMAIN request |-> IF s = r THEN Promised(q) ELSE Promised(request[s])]
  <2>1. Seen' = [s \in DOMAIN request |-> Promised(request'[s])]
    BY <1>1 DEF Seen, Promised, Outcome, Told
  <2>2. \A s \in DOMAIN request :
          Promised(request'[s]) = IF s = r THEN Promised(q) ELSE Promised(request[s])
    BY <1>1
  <2> QED BY <2>1, <2>2
<1>4. [Seen EXCEPT ![r] = Promised(q)] =
        [s \in DOMAIN request |-> IF s = r THEN Promised(q) ELSE Promised(request[s])]
  BY <1>2 DEF Seen
<1> QED BY <1>2, <1>3, <1>4

(* Two fields of one request change as one request changes: what was done and
   the reply to it. *)
LEMMA NestedReply ==
  ASSUME request \in Seq(Requested), NEW r \in DOMAIN request, NEW a, NEW b
  PROVE  [request EXCEPT ![r].effect = a, ![r].wire = b] =
           [request EXCEPT ![r] = [request[r] EXCEPT !.effect = a, !.wire = b]]
<1>1. PICK h : h = request[r] /\ h \in Requested
  OBVIOUS
<1>2. PICK p : p = [h EXCEPT !.effect = a]
  OBVIOUS
<1>3. PICK q : q = [h EXCEPT !.effect = a, !.wire = b]
  OBVIOUS
<1>4. q = [p EXCEPT !.wire = b]
  BY <1>1, <1>2, <1>3 DEF Requested
<1>5. PICK one : one = [request EXCEPT ![r].effect = a]
  OBVIOUS
<1>6. one = [s \in DOMAIN request |-> IF s = r THEN p ELSE request[s]]
  BY <1>1, <1>2, <1>5
<1>7. [one EXCEPT ![r].wire = b] = [s \in DOMAIN request |-> IF s = r THEN q ELSE request[s]]
  BY <1>4, <1>6
<1>8. [request EXCEPT ![r] = q] = [s \in DOMAIN request |-> IF s = r THEN q ELSE request[s]]
  OBVIOUS
<1>9. [request EXCEPT ![r].effect = a, ![r].wire = b] = [one EXCEPT ![r].wire = b]
  BY <1>5
<1> QED BY <1>1, <1>3, <1>7, <1>8, <1>9

(* ... or its step and its answer. *)
LEMMA NestedAnswer ==
  ASSUME request \in Seq(Requested), NEW r \in DOMAIN request, NEW a, NEW b
  PROVE  [request EXCEPT ![r].step = a, ![r].status = b] =
           [request EXCEPT ![r] = [request[r] EXCEPT !.step = a, !.status = b]]
<1>1. PICK h : h = request[r] /\ h \in Requested
  OBVIOUS
<1>2. PICK p : p = [h EXCEPT !.step = a]
  OBVIOUS
<1>3. PICK q : q = [h EXCEPT !.step = a, !.status = b]
  OBVIOUS
<1>4. q = [p EXCEPT !.status = b]
  BY <1>1, <1>2, <1>3 DEF Requested
<1>5. PICK one : one = [request EXCEPT ![r].step = a]
  OBVIOUS
<1>6. one = [s \in DOMAIN request |-> IF s = r THEN p ELSE request[s]]
  BY <1>1, <1>2, <1>5
<1>7. [one EXCEPT ![r].status = b] = [s \in DOMAIN request |-> IF s = r THEN q ELSE request[s]]
  BY <1>4, <1>6
<1>8. [request EXCEPT ![r] = q] = [s \in DOMAIN request |-> IF s = r THEN q ELSE request[s]]
  OBVIOUS
<1>9. [request EXCEPT ![r].step = a, ![r].status = b] = [one EXCEPT ![r].status = b]
  BY <1>5
<1> QED BY <1>1, <1>3, <1>7, <1>8, <1>9

(* A request that is made is asked for, or refused. *)
LEMMA MakeRefines ==
  ASSUME WriteInv, NEW op \in Op, NEW c \in Code, NEW valid \in BOOLEAN, Make(op, c, valid)
  PROVE  Promise!Next
<1> DEFINE q == Made(op, c, valid)
<1>1. request \in Seq(Requested) /\ request' = Append(request, q) /\ UNCHANGED repo
  BY Types DEF Make
<1>2. Promised(q) = Promise!Asked(op, c, IF valid THEN "open" ELSE "never",
                                  IF valid THEN "none" ELSE "invalid")
  BY DEF Made, Promised, Outcome, Told, Promise!Asked
<1> HIDE DEF q
<1> DEFINE n == Len(request) + 1
<1>3. /\ DOMAIN request = 1..Len(request) /\ DOMAIN request' = 1..n /\ Len(request) \in Nat
      /\ request'[n] = q /\ \A s \in DOMAIN request : request'[s] = request[s]
  BY <1>1
<1>4. Len(Seen) = Len(request) /\ Len(Seen') = n
  BY <1>3 DEF Seen
<1>5. Seen' = Append(Seen, Promised(q))
  <2> DEFINE P == {Seen[s] : s \in DOMAIN request} \cup {Promised(q)}
  <2>1. Seen \in Seq(P) /\ Promised(q) \in P
    BY <1>3 DEF Seen
  <2>2. \A s \in 1..n : Seen'[s] = IF s = n THEN Promised(q) ELSE Seen[s]
    BY <1>3 DEF Seen
  <2>3. Seen' \in Seq(P)
    <3>1. \A s \in 1..n : Seen'[s] \in P
      BY <1>3, <2>2
    <3>2. Seen' = [s \in 1..n |-> Seen'[s]]
      BY <1>3 DEF Seen
    <3> HIDE DEF P
    <3> QED BY <1>3, <3>1, <3>2
  <2> HIDE DEF P
  <2>4. /\ Append(Seen, Promised(q)) \in Seq(P) /\ Len(Append(Seen, Promised(q))) = n
        /\ \A s \in 1..n : Append(Seen, Promised(q))[s] = IF s = n THEN Promised(q) ELSE Seen[s]
    BY <1>3, <1>4, <2>1, AppendProperties
  <2> QED BY <1>4, <2>2, <2>3, <2>4, SeqEqual
<1>6. Len(Seen') > Len(Seen)
  BY <1>3, <1>4
<1>7. Promise!Ask(op, c) \/ Promise!Refuse(op, c)
  BY <1>1, <1>2, <1>5 DEF Promise!Ask, Promise!Refuse, Seen
<1>8. op \in {"shorten", "update", "delete"} /\ c \in Promise!Code
  BY DEF Op, Code, Promise!Code
<1> QED BY <1>6, <1>7, <1>8 DEF Promise!Next, Seen

(* A call that is served carries its request out. *)
LEMMA ServeRefines ==
  ASSUME WriteInv, NEW r \in DOMAIN request, Serve(r)
  PROVE  Promise!Next
<1>h. PICK c, op, effect : c = request[r].code /\ op = request[r].op
                           /\ effect = Write(op, repo[c] # NoRecord)
  OBVIOUS
<1>w. PICK wire : wire = IF effect = "nothing" /\ op # "delete" THEN "swap" ELSE "ok"
  OBVIOUS
<1>q. PICK q : q = [request[r] EXCEPT !.effect = effect, !.wire = wire]
  OBVIOUS
<1>1. request \in Seq(Requested) /\ repo \in [Code -> Record] /\ request[r] \in Requested
  BY Types
<1>2. op \in Op /\ c \in Code /\ request[r].wire = "sent"
  BY <1>1, <1>h DEF Requested, Serve
<1>3. request' = [request EXCEPT ![r] = q]
  <2>1. request' = [request EXCEPT ![r].effect = effect, ![r].wire = wire]
    BY <1>h, <1>w DEF Serve
  <2> QED BY <1>1, <1>q, <2>1, NestedReply
<1>4. /\ Seen[r] = Promised(request[r]) /\ DOMAIN Seen = DOMAIN request
      /\ Seen' = [Seen EXCEPT ![r] = Promised(q)]
  BY <1>1, <1>3, Reflected
<1>5. /\ Seen[r] = [op |-> op, code |-> c, outcome |-> "open", answer |-> Told(request[r])]
      /\ Promised(q) = [op |-> op, code |-> c, outcome |-> IF wire = "ok" THEN "done" ELSE "taken",
                        answer |-> Told(request[r])]
  <2>1. Seen[r] = [op |-> op, code |-> c, outcome |-> "open", answer |-> Told(request[r])]
    BY <1>2, <1>4, <1>h DEF Promised, Outcome
  <2>2. wire \in {"ok", "swap"}
    BY <1>w
  <2>3. q.op = op /\ q.code = c /\ q.wire = wire /\ q.status = request[r].status
    BY <1>1, <1>h, <1>q DEF Requested
  <2>4. Promised(q) = [op |-> op, code |-> c, outcome |-> IF wire = "ok" THEN "done" ELSE "taken",
                       answer |-> Told(request[r])]
    BY <2>2, <2>3 DEF Promised, Outcome, Told
  <2> QED BY <2>1, <2>4
<1>6. /\ wire = "ok" => Seen' = [Seen EXCEPT ![r].outcome = "done"]
      /\ wire # "ok" => Seen' = [Seen EXCEPT ![r].outcome = "taken"]
  <2>1. wire = "ok" => Promised(q) = [Seen[r] EXCEPT !.outcome = "done"]
    BY <1>5
  <2>2. wire # "ok" => Promised(q) = [Seen[r] EXCEPT !.outcome = "taken"]
    BY <1>5
  <2> QED BY <1>4, <2>1, <2>2
<1>7. repo' = IF effect \in {"created", "replaced"} THEN [repo EXCEPT ![c] = r]
              ELSE IF effect = "removed" THEN [repo EXCEPT ![c] = NoRecord]
              ELSE repo
  BY <1>h DEF Serve
<1>8. LET above == [s \in DOMAIN request |-> Promised(request[s])] IN
        above[r].op = op /\ above[r].code = c /\ above[r].outcome = "open"
  BY <1>5 DEF Seen
<1>9. Promise!Perform(r)
  <2>1. CASE op = "shorten" /\ repo[c] = NoRecord
    <3>1. effect = "created" /\ wire = "ok"
      BY <1>h, <1>w, <2>1 DEF Write, CreateOnly
    <3>2. repo' = [repo EXCEPT ![c] = r] /\ Seen' = [Seen EXCEPT ![r].outcome = "done"]
      BY <1>6, <1>7, <3>1
    <3>3. Promise!Holds(c, r) /\ Promise!Becomes(r, "done")
      BY <3>2 DEF Promise!Holds, Promise!Becomes, Seen
    <3> QED BY <1>8, <2>1, <3>3 DEF Promise!Perform
  <2>2. CASE op = "shorten" /\ repo[c] # NoRecord
    <3>1. effect = "nothing" /\ wire = "swap"
      BY <1>h, <1>w, <2>2 DEF Write, CreateOnly
    <3>2. repo' = repo /\ Seen' = [Seen EXCEPT ![r].outcome = "taken"]
      BY <1>6, <1>7, <3>1
    <3>3. Promise!Becomes(r, "taken") /\ UNCHANGED repo
      BY <3>2 DEF Promise!Becomes, Seen
    <3> QED BY <1>8, <2>2, <3>3 DEF Promise!Perform
  <2>3. CASE op = "update"
    <3>1. effect \in {"created", "replaced"} /\ wire = "ok"
      BY <1>h, <1>w, <2>3 DEF Write, CreateOnly
    <3>2. repo' = [repo EXCEPT ![c] = r] /\ Seen' = [Seen EXCEPT ![r].outcome = "done"]
      BY <1>6, <1>7, <3>1
    <3>3. Promise!Holds(c, r) /\ Promise!Becomes(r, "done")
      BY <3>2 DEF Promise!Holds, Promise!Becomes, Seen
    <3> QED BY <1>8, <2>3, <3>3 DEF Promise!Perform
  <2>4. CASE op = "delete"
    <3>1. effect = (IF repo[c] # NoRecord THEN "removed" ELSE "nothing") /\ wire = "ok"
      <4>1. effect = IF repo[c] # NoRecord THEN "removed" ELSE "nothing"
        BY <1>h, <2>4 DEF Write, CreateOnly
      <4>2. wire = "ok"
        BY <1>w, <2>4
      <4> QED BY <4>1, <4>2
    <3>2. repo' = [repo EXCEPT ![c] = NoRecord]
      BY <1>1, <1>2, <1>7, <3>1
    <3>3. Seen' = [Seen EXCEPT ![r].outcome = "done"]
      BY <1>6, <3>1
    <3>4. Promise!Holds(c, NoRecord) /\ Promise!Becomes(r, "done")
      BY <3>2, <3>3 DEF Promise!Holds, Promise!Becomes, Seen
    <3> QED BY <1>8, <2>4, <3>4 DEF Promise!Perform
  <2> QED BY <1>2, <2>1, <2>2, <2>3, <2>4 DEF Op
<1> QED BY <1>4, <1>9 DEF Promise!Next, Seen

(* A call that is rejected is given up. *)
LEMMA RejectRefines ==
  ASSUME WriteInv, NEW r \in DOMAIN request, Reject(r)
  PROVE  Promise!Next
<1>q. PICK q : q = [request[r] EXCEPT !.wire = "error"]
  OBVIOUS
<1>1. request \in Seq(Requested) /\ request[r] \in Requested
  BY Types
<1>2. request' = [request EXCEPT ![r] = q] /\ UNCHANGED repo /\ request[r].wire = "sent"
  BY <1>1, <1>q DEF Reject
<1>3. /\ Seen[r] = Promised(request[r]) /\ DOMAIN Seen = DOMAIN request
      /\ Seen' = [Seen EXCEPT ![r] = Promised(q)]
  BY <1>1, <1>2, Reflected
<1>4. Seen[r].outcome = "open" /\ Promised(q) = [Seen[r] EXCEPT !.outcome = "never"]
  <2>1. Seen[r] = [op |-> request[r].op, code |-> request[r].code, outcome |-> "open",
                   answer |-> Told(request[r])]
    BY <1>2, <1>3 DEF Promised, Outcome
  <2>2. /\ q.op = request[r].op /\ q.code = request[r].code
        /\ q.wire = "error" /\ q.status = request[r].status
    BY <1>1, <1>q DEF Requested
  <2>3. Promised(q) = [op |-> request[r].op, code |-> request[r].code, outcome |-> "never",
                       answer |-> Told(request[r])]
    BY <2>2 DEF Promised, Outcome, Told
  <2> QED BY <2>1, <2>3
<1>5. Seen' = [Seen EXCEPT ![r].outcome = "never"]
  BY <1>3, <1>4
<1>6. Promise!GiveUp(r)
  BY <1>2, <1>4, <1>5 DEF Promise!GiveUp, Promise!Becomes, Seen
<1> QED BY <1>3, <1>6 DEF Promise!Next, Seen

Answers == {200, 204, 409, 502, 504}

(* An answer that claims something is true by then. *)
LEMMA AnswerRefines ==
  ASSUME WriteInv, NEW r \in DOMAIN request, NEW status \in Answers,
         Fits(r, status), Answer(r, status)
  PROVE  Promise!Next
<1>q. PICK q : q = [request[r] EXCEPT !.step = "answered", !.status = status]
  OBVIOUS
<1>a. PICK answer : answer = IF status \in {200, 204} THEN "success"
                             ELSE IF status = 409 THEN "conflict" ELSE "unknown"
  OBVIOUS
<1>1. request \in Seq(Requested) /\ request[r] \in Requested
  BY Types
<1>b. request[r].status = 0
  BY Types DEF Agrees, Fits
<1>2. request' = [request EXCEPT ![r] = q] /\ UNCHANGED repo
  <2>1. request' = [request EXCEPT ![r].step = "answered", ![r].status = status] /\ UNCHANGED repo
    BY DEF Answer
  <2>2. [request EXCEPT ![r].step = "answered", ![r].status = status] =
          [request EXCEPT ![r] = [request[r] EXCEPT !.step = "answered", !.status = status]]
    BY <1>1, NestedAnswer
  <2> QED BY <1>q, <2>1, <2>2
<1>3. /\ Seen[r] = Promised(request[r]) /\ DOMAIN Seen = DOMAIN request
      /\ Seen' = [Seen EXCEPT ![r] = Promised(q)]
  BY <1>1, <1>2, Reflected
<1>4. Seen[r].answer = "none" /\ Promised(q) = [Seen[r] EXCEPT !.answer = answer]
  <2>1. Seen[r] = [op |-> request[r].op, code |-> request[r].code,
                   outcome |-> Outcome(request[r]), answer |-> "none"]
    BY <1>b, <1>3 DEF Promised, Told
  <2>2. /\ q.op = request[r].op /\ q.code = request[r].code
        /\ q.wire = request[r].wire /\ q.status = status
    BY <1>1, <1>q DEF Requested
  <2>3. Told(q) = answer
    BY <1>a, <2>2 DEF Told, Answers
  <2>4. Promised(q) = [op |-> request[r].op, code |-> request[r].code,
                       outcome |-> Outcome(request[r]), answer |-> answer]
    BY <2>2, <2>3 DEF Promised, Outcome
  <2> QED BY <2>1, <2>4
<1>5. Seen' = [Seen EXCEPT ![r].answer = answer]
  BY <1>3, <1>4
<1>6. /\ answer \in {"success", "conflict", "unknown"}
      /\ answer = "success" => Seen[r].outcome = "done"
      /\ answer = "conflict" => Seen[r].outcome = "taken"
  BY <1>3, <1>a DEF Promised, Outcome, Fits
<1>7. LET above == [s \in DOMAIN request |-> Promised(request[s])] IN
        /\ above[r].answer = "none"
        /\ answer = "success" => above[r].outcome = "done"
        /\ answer = "conflict" => above[r].outcome = "taken"
        /\ above' = [above EXCEPT ![r].answer = answer]
  BY <1>4, <1>5, <1>6 DEF Seen
<1>8. Promise!Answer(r)
  BY <1>2, <1>6, <1>7 DEF Promise!Answer
<1> QED BY <1>3, <1>8 DEF Promise!Next, Seen

(* The handler's steps: the lookup of the handle begins, or an answer is given. *)
LEMMA HandlerRefines ==
  ASSUME WriteInv, NEW r \in DOMAIN request,
         Receive(r) \/ Named(r) \/ Disconnect(r) \/ Timeout(r)
  PROVE  Promise!Next \/ UNCHANGED Promise!vars
<1>1. /\ request \in Seq(Requested) /\ request[r] \in Requested
      /\ request[r].step = "naming" => request[r].wire = "ok"
  BY Types DEF Agrees
<1>2. CASE Receive(r)
  <2>1. CASE request' = [request EXCEPT ![r].step = "naming"] /\ UNCHANGED repo
    <3>q. PICK q : q = [request[r] EXCEPT !.step = "naming"]
      OBVIOUS
    <3>1. request' = [request EXCEPT ![r] = q]
      BY <1>1, <2>1, <3>q
    <3>2. Promised(q) = Promised(request[r])
      <4>1. /\ q.op = request[r].op /\ q.code = request[r].code
            /\ q.wire = request[r].wire /\ q.status = request[r].status
        BY <1>1, <3>q DEF Requested
      <4> QED BY <4>1 DEF Promised, Outcome, Told
    <3>3. Seen' = Seen
      <4>1. Seen[r] = Promised(q) /\ Seen' = [Seen EXCEPT ![r] = Promised(q)]
        BY <1>1, <3>1, <3>2, Reflected
      <4> QED BY <4>1 DEF Seen
    <3> QED BY <2>1, <3>3 DEF Promise!vars, Seen
  <2>2. CASE request[r].wire = "ok" /\ Answer(r, 204)
    BY <1>2, <2>2, AnswerRefines DEF Receive, Fits, Answers
  <2>3. CASE request[r].wire = "swap" /\ Answer(r, 409)
    BY <1>2, <2>3, AnswerRefines DEF Receive, Fits, Answers
  <2>4. CASE request[r].wire = "error" /\ Answer(r, 502)
    BY <1>2, <2>4, AnswerRefines DEF Receive, Fits, Answers
  <2> QED BY <1>2, <2>1, <2>2, <2>3, <2>4 DEF Receive
<1>3. CASE Named(r)
  <2>1. PICK status \in {200, 502} : Answer(r, status)
    BY <1>3 DEF Named
  <2> QED BY <1>1, <1>3, <2>1, AnswerRefines DEF Named, Fits, Answers
<1>4. CASE Disconnect(r)
  BY <1>4, AnswerRefines DEF Disconnect, Fits, Answers
<1>5. CASE Timeout(r)
  BY <1>5, AnswerRefines DEF Timeout, Fits, Answers
<1> QED BY <1>2, <1>3, <1>4, <1>5

(* Every step of LinkStore is one of LinkPromise or leaves it unchanged. *)
LEMMA StepRefines == Inv /\ [Next]_vars => [Promise!Next]_(Promise!vars)
<1> SUFFICES ASSUME Inv, [Next]_vars PROVE Promise!Next \/ UNCHANGED Promise!vars
  OBVIOUS
<1>1. WriteInv
  BY DEF Inv
<1>2. ASSUME NEW op \in Op, NEW c \in Code, NEW valid \in BOOLEAN, Make(op, c, valid)
      PROVE  Promise!Next
  BY <1>1, <1>2, MakeRefines
<1>3. ASSUME NEW r \in DOMAIN request, Serve(r) PROVE Promise!Next
  BY <1>1, <1>3, ServeRefines
<1>4. ASSUME NEW r \in DOMAIN request, Reject(r) PROVE Promise!Next
  BY <1>1, <1>4, RejectRefines
<1>5. ASSUME NEW r \in DOMAIN request, Receive(r) \/ Named(r) \/ Disconnect(r) \/ Timeout(r)
      PROVE  Promise!Next \/ UNCHANGED Promise!vars
  BY <1>1, <1>5, HandlerRefines
<1>6. ASSUME UNCHANGED <<repo, request>> PROVE UNCHANGED Promise!vars
  BY <1>6 DEF Promise!vars
<1>7. ASSUME NEW limit \in Limits, AskPage(limit) PROVE UNCHANGED Promise!vars
  BY <1>6, <1>7 DEF AskPage
<1>8. CASE ServePage \/ FailPage \/ ShowPage
  BY <1>6, <1>8 DEF ServePage, FailPage, ShowPage
<1>9. CASE UNCHANGED vars
  BY <1>6, <1>9 DEF vars
<1> QED BY <1>2, <1>3, <1>4, <1>5, <1>7, <1>8, <1>9 DEF Next

(* The write API keeps its promise: each write is carried out at most once, by
   itself, and before any answer that says what became of it (put, delete,
   into_output). *)
THEOREM WritesAreAtomicHolds == Spec => WritesAreAtomic
BY InitRefines, StepRefines, Invariance, PTL DEF Spec, WritesAreAtomic, Promise!Spec
=============================================================================
