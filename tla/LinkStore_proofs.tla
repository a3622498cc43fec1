-------------------------- MODULE LinkStore_proofs --------------------------
(***************************************************************************)
(* Proofs about LinkStore: for any number of codes, requests, failures and *)
(* page sizes.                                                             *)
(*                                                                         *)
(* Two independent strengthenings. Of the writes: what a request knows     *)
(* (`wire`, `status`) agrees with what was done (`effect`), creations of a *)
(* code alternate with its removals, and the write that was served last    *)
(* was not answered before another one was made. Of the listing: the       *)
(* cursor separates the links the client was shown from those it will be.  *)
(***************************************************************************)
EXTENDS LinkStore, FiniteSetTheorems, WellFoundedInduction, TLAPS

Requested ==
  [op : Op, code : Code, after : SUBSET (1..MaxRequests),
   effect : Effect, step : {"sent", "naming", "answered"},
   wire : {"none", "sent", "ok", "swap", "error"},
   status : {0, 200, 204, 400, 409, 502, 504}]

(* What a served call of each operation may have done. *)
Done(op) ==
  CASE op = "shorten" -> {"created"}
    [] op = "update" -> {"created", "replaced"}
    [] op = "delete" -> {"removed", "nothing"}

(* A request's answer, its reply and what the PDS did agree. *)
Agrees(q) ==
  /\ q.step = "answered" <=> q.status # 0
  /\ q.step = "naming" => q.wire = "ok" /\ q.op = "shorten"
  /\ q.wire = "none" <=> q.status = 400
  /\ q.wire = "sent" => q.status \in {0, 502, 504}
  /\ q.wire \in {"none", "sent", "error"} => q.effect = "unserved"
  /\ q.wire = "swap" => q.effect = "nothing"
  /\ q.wire = "ok" => q.effect \in Done(q.op)
  /\ q.status \in {200, 204} => q.wire = "ok"
  /\ q.status = 409 => q.wire = "swap"

Agreement ==
  /\ Len(request) <= MaxRequests
  /\ \A r \in DOMAIN request : Agrees(request[r])

Created(c) == {r \in DOMAIN request : request[r].code = c /\ request[r].effect = "created"}
Removed(c) == {r \in DOMAIN request : request[r].code = c /\ request[r].effect = "removed"}

Alternation ==
  \A c \in Code :
    Cardinality(Created(c)) <= Cardinality(Removed(c)) + (IF repo[c] = NoRecord THEN 0 ELSE 1)

AfterAnswered ==
  \A q \in DOMAIN request : \A r \in request[q].after :
    r \in DOMAIN request /\ request[r].step = "answered"

Served(c) == {r \in DOMAIN request : request[r].code = c /\ request[r].wire = "ok"}
Left(r) == IF request[r].op = "delete" THEN NoRecord ELSE r

(* Every answer about a code is definite. *)
Clean(c) == \A r \in DOMAIN request : request[r].code = c => request[r].status \notin {502, 504}

LastWord ==
  \A c \in Code :
    Clean(c) /\ Served(c) # {} =>
      \E r \in Served(c) : repo[c] = Left(r) /\ \A q \in Served(c) : r \notin request[q].after

WalkShape ==
  /\ walk = [step |-> walk.step, limit |-> walk.limit, cursor |-> walk.cursor,
             records |-> walk.records, shown |-> walk.shown]
  /\ walk.step = "new" => walk.cursor = 0 /\ throughout = {} /\ \A c \in Code : walk.shown[c] = 0

(* The links shown are those up to the cursor. *)
Frontier ==
  /\ \A c \in Code : walk.shown[c] <= 1
  /\ \A c \in Code : walk.shown[c] = 1 /\ walk.step # "done" => c <= walk.cursor
  /\ \A c \in throughout : repo[c] \notin {NoRecord, Unusable}
  /\ \A c \in throughout : walk.step = "done" \/ c <= walk.cursor => walk.shown[c] = 1

(* A page in hand holds every link after the cursor that was there all along,
   or is full and ends before it. *)
PageInHand ==
  walk.step = "listed" =>
    LET page == DOMAIN walk.records IN
    /\ \A p \in page : p > walk.cursor
    /\ \A c \in throughout : c > walk.cursor =>
         \/ c \in page /\ walk.records[c] # Unusable
         \/ Cardinality(page) >= walk.limit /\ \A p \in page : p < c

WriteInv == TypeOK /\ Agreement /\ Alternation /\ AfterAnswered /\ LastWord
WalkInv == WalkShape /\ Frontier /\ PageInHand
Inv == WriteInv /\ WalkInv
-----------------------------------------------------------------------------
(* A non-empty set of codes has a greatest element, and Max finds it. *)
LEMMA LeastOne ==
  ASSUME NEW S \in SUBSET Nat, S # {}
  PROVE  \E x \in S : \A y \in S : x <= y
<1>1. IsWellFoundedOn(OpToRel(<, Nat), Nat)
  BY NatLessThanWellFounded
<1>2. PICK x \in S : \A y \in S : <<y, x>> \notin OpToRel(<, Nat)
  BY <1>1, WFMin
<1>3. OpToRel(<, Nat) = {ss \in Nat \X Nat : ss[1] < ss[2]}
  BY DEF OpToRel
<1>4. ASSUME NEW y \in S PROVE x <= y
  <2>1. <<y, x>> \in Nat \X Nat => ~(y < x)
    BY <1>2, <1>3
  <2> QED BY <2>1
<1> QED BY <1>4

LEMMA MaxOfCodes ==
  ASSUME NEW S \in SUBSET Code, S # {}
  PROVE  Max(S) \in S /\ \A y \in S : y <= Max(S)
<1> DEFINE D == {Codes - y : y \in S}
<1>1. D \in SUBSET Nat /\ D # {}
  <2>1. \A y \in S : Codes - y \in Nat
    BY LinkAssumption DEF Code
  <2>2. PICK y \in S : TRUE
    OBVIOUS
  <2>3. Codes - y \in D
    BY <2>2
  <2> QED BY <2>1, <2>3
<1>2. PICK d \in D : \A e \in D : d <= e
  BY <1>1, LeastOne
<1>3. PICK x \in S : d = Codes - x
  BY <1>2
<1>4. \A y \in S : x >= y
  BY <1>2, <1>3, LinkAssumption DEF Code
<1>5. Max(S) \in S /\ \A y \in S : Max(S) >= y
  BY <1>3, <1>4 DEF Max
<1> QED BY <1>5 DEF Code

(* Whatever limit a caller sends, the PDS is asked for one it accepts. *)
LEMMA ClampedIn ==
  ASSUME NEW limit \in Limits
  PROVE  Clamped(limit) \in 1..MaxPageSize
<1>1. limit \in Nat /\ MaxPageSize \in Nat /\ MaxPageSize >= 1
  BY LinkAssumption
<1> DEFINE m == Min({limit, MaxPageSize})
<1>2. m \in {limit, MaxPageSize} /\ m <= limit /\ m <= MaxPageSize
  <2>1. \E x \in {limit, MaxPageSize} : \A y \in {limit, MaxPageSize} : x <= y
    BY <1>1
  <2> QED BY <2>1 DEF Min
<1> HIDE DEF m
<1>3. Max({1, m}) \in {1, m} /\ Max({1, m}) >= 1 /\ Max({1, m}) >= m
  <2>1. \E x \in {1, m} : \A y \in {1, m} : x >= y
    BY <1>1, <1>2
  <2> QED BY <2>1 DEF Max
<1>4. Clamped(limit) = Max({1, m})
  BY DEF Clamped, m
<1> QED BY <1>1, <1>2, <1>3, <1>4

(* Replacing one request leaves the others. *)
LEMMA Changed ==
  ASSUME NEW R, request \in Seq(R), NEW r \in DOMAIN request, NEW q \in R,
         request' = [request EXCEPT ![r] = q]
  PROVE  /\ request' \in Seq(R) /\ Len(request') = Len(request)
         /\ DOMAIN request' = DOMAIN request
         /\ request'[r] = q
         /\ \A s \in DOMAIN request : s # r => request'[s] = request[s]
OBVIOUS

(* The requests are finitely many. *)
LEMMA Finite ==
  ASSUME request \in Seq(Requested)
  PROVE  \A S \in SUBSET (DOMAIN request) : IsFiniteSet(S) /\ Cardinality(S) \in Nat
<1>1. DOMAIN request = 1..Len(request) /\ Len(request) \in Nat
  OBVIOUS
<1>2. IsFiniteSet(DOMAIN request)
  BY <1>1, FS_Interval
<1> QED BY <1>2, FS_Subset, FS_CardinalityType

(* A step of one request that changes neither the record nor what was done. *)
LEMMA QuietStep ==
  ASSUME WriteInv, NEW r \in DOMAIN request, NEW q \in Requested, Agrees(q),
         q.op = request[r].op, q.code = request[r].code, q.after = request[r].after,
         q.effect = request[r].effect,
         q.wire = "ok" <=> request[r].wire = "ok",
         request[r].step = "answered" => q.step = "answered" /\ q.status = request[r].status,
         request' = [request EXCEPT ![r] = q],
         UNCHANGED <<repo, walk, throughout, failures>>
  PROVE  WriteInv'
<1> USE DEF WriteInv
<1>1. request \in Seq(Requested)
  BY DEF TypeOK, Requested
<1>2. /\ request' \in Seq(Requested) /\ Len(request') = Len(request)
      /\ DOMAIN request' = DOMAIN request
      /\ request'[r] = q
      /\ \A s \in DOMAIN request : s # r => request'[s] = request[s]
  BY <1>1, Changed
<1>3. TypeOK'
  BY <1>2 DEF TypeOK, Requested
<1>4. Agreement'
  BY <1>2 DEF Agreement
<1>5. AfterAnswered'
  BY <1>2 DEF AfterAnswered
<1>6. \A c \in Code : /\ Created(c)' = Created(c) /\ Removed(c)' = Removed(c)
                     /\ Served(c)' = Served(c)
  BY <1>2 DEF Created, Removed, Served
<1>7. Alternation'
  BY <1>6 DEF Alternation
<1>8. \A c \in Code : Clean(c)' => Clean(c)
  <2>1. request[r].status # 0 => q.status = request[r].status
    BY DEF Agreement, Agrees
  <2> QED BY <1>2, <2>1 DEF Clean
<1>9. LastWord'
  <2>1. \A s \in DOMAIN request : Left(s)' = Left(s) /\ request'[s].after = request[s].after
    BY <1>2 DEF Left
  <2>2. \A c \in Code : Served(c) \subseteq DOMAIN request
    BY DEF Served
  <2> QED BY <1>6, <1>8, <2>1, <2>2 DEF LastWord
<1> QED BY <1>3, <1>4, <1>5, <1>7, <1>9

(* A page holds codes after the cursor, of records. A record it leaves out is
   after all of it, and then the page is full. *)
LEMMA PageOfRecords ==
  ASSUME TypeOK, NEW limit \in Nat, NEW cursor \in Nat
  PROVE  LET page == Listed(limit, cursor) IN
         /\ page \subseteq Code
         /\ \A p \in page : p > cursor /\ repo[p] # NoRecord
         /\ \A c \in Code : c > cursor /\ repo[c] # NoRecord /\ c \notin page =>
              Cardinality(page) >= limit /\ \A p \in page : p < c
<1> DEFINE after == {c \in Code : repo[c] # NoRecord /\ c > cursor}
           below(c) == {d \in after : d < c}
           page == {c \in after : Cardinality(below(c)) < limit}
<1>1. Listed(limit, cursor) = page
  BY DEF Listed
<1>2. after \subseteq Code /\ Code \subseteq Nat /\ IsFiniteSet(Code)
  <2>1. 1 \in Int /\ Codes \in Int
    BY LinkAssumption
  <2> QED BY <2>1, FS_Interval DEF Code
<1>3. \A T \in SUBSET after : IsFiniteSet(T) /\ Cardinality(T) \in Nat
  BY <1>2, FS_Subset, FS_CardinalityType
<1>4. \A c, d \in after : d <= c => Cardinality(below(d)) <= Cardinality(below(c))
  <2> TAKE c, d \in after
  <2> HAVE d <= c
  <2>1. below(d) \subseteq below(c)
    <3> SUFFICES ASSUME NEW x \in after, x < d PROVE x < c
      OBVIOUS
    <3>1. x \in Nat /\ d \in Nat /\ c \in Nat
      BY <1>2
    <3> QED BY <3>1
  <2>2. below(c) \in SUBSET after
    OBVIOUS
  <2> HIDE DEF below
  <2> QED BY <2>1, <2>2, <1>3, FS_Subset
<1>5. ASSUME NEW c \in after, c \notin page
      PROVE  Cardinality(page) >= limit /\ \A p \in page : p < c
  <2>1. \A p \in page : p < c
    <3> SUFFICES ASSUME NEW p \in page, ~(p < c) PROVE FALSE
      OBVIOUS
    <3>1. p \in after /\ c <= p
      BY <1>2
    <3>2. Cardinality(below(c)) <= Cardinality(below(p))
      BY <1>4, <3>1
    <3>3. Cardinality(below(c)) \in Nat /\ Cardinality(below(p)) \in Nat
      BY <1>3
    <3>4. Cardinality(below(p)) < limit /\ ~(Cardinality(below(c)) < limit)
      BY <1>5
    <3> HIDE DEF below
    <3> QED BY <3>2, <3>3, <3>4
  <2> DEFINE missing == {m \in after : m \notin page}
  <2>2. missing \in SUBSET Nat /\ missing # {}
    BY <1>2, <1>5
  <2>3. PICK m \in missing : \A y \in missing : m <= y
    BY <2>2, LeastOne
  <2>4. below(m) \subseteq page
    <3> SUFFICES ASSUME NEW x \in after, x < m, x \notin page PROVE FALSE
      OBVIOUS
    <3>1. m <= x /\ x \in Nat /\ m \in Nat
      BY <1>2, <2>3
    <3> QED BY <3>1
  <2>5. Cardinality(below(m)) >= limit
    <3>1. Cardinality(below(m)) \in Nat /\ ~(Cardinality(below(m)) < limit)
      BY <1>3, <2>3
    <3> HIDE DEF below
    <3> QED BY <3>1
  <2>6. IsFiniteSet(page) /\ Cardinality(page) \in Nat /\ Cardinality(below(m)) \in Nat
    BY <1>3
  <2>7. Cardinality(below(m)) <= Cardinality(page)
    <3> HIDE DEF below, page
    <3> QED BY <2>4, <2>6, FS_Subset
  <2> HIDE DEF below, page
  <2> QED BY <2>1, <2>5, <2>6, <2>7
<1> HIDE DEF below
<1> QED BY <1>1, <1>2, <1>5
-----------------------------------------------------------------------------
(* The initial state satisfies the strengthening. *)
LEMMA InitHolds == Init => Inv
<1> SUFFICES ASSUME Init PROVE Inv
  OBVIOUS
<1> USE DEF Init
<1>1. TypeOK
  <2>1. <<>> \in Seq(Requested)
    OBVIOUS
  <2> QED BY <2>1, LinkAssumption DEF TypeOK, Requested, Record, Code, NoCursor
<1>2. Agreement /\ AfterAnswered
  BY LinkAssumption DEF Agreement, AfterAnswered
<1>3. \A c \in Code : Created(c) = {} /\ Removed(c) = {} /\ Served(c) = {}
  BY DEF Created, Removed, Served
<1>4. Alternation
  <2>1. Cardinality({}) = 0
    BY FS_EmptySet
  <2>2. \A c \in Code : 0 <= 0 + (IF repo[c] = NoRecord THEN 0 ELSE 1)
    OBVIOUS
  <2> QED BY <1>3, <2>1, <2>2 DEF Alternation
<1>5. LastWord
  BY <1>3 DEF LastWord
<1>6. WalkInv
  BY DEF WalkInv, WalkShape, Frontier, PageInHand, NoCursor
<1> QED BY <1>1, <1>2, <1>4, <1>5, <1>6 DEF Inv, WriteInv

(* A request is made: it comes after those answered, and has done nothing. *)
LEMMA MakeStep ==
  ASSUME WriteInv, NEW op \in Op, NEW c \in Code, NEW valid \in BOOLEAN, Make(op, c, valid)
  PROVE  WriteInv'
<1> USE DEF WriteInv
<1> DEFINE q == Made(op, c, valid)
           n == Len(request) + 1
<1>1. request \in Seq(Requested) /\ n \in 1..MaxRequests /\ DOMAIN request = 1..(n - 1)
  BY LinkAssumption DEF TypeOK, Requested, Make
<1>2. q \in Requested
  <2>1. Earlier \subseteq 1..MaxRequests
    BY <1>1, LinkAssumption DEF Earlier
  <2> QED BY <2>1 DEF Made, Requested, Effect
<1>3. Agrees(q) /\ q.effect = "unserved" /\ q.wire # "ok" /\ q.code = c /\ q.after = Earlier
      /\ q.status \notin {502, 504}
  BY DEF Made, Agrees
<1> HIDE DEF q
<1>4. request' = Append(request, q)
  BY DEF Make, q
<1>5. /\ request' \in Seq(Requested) /\ Len(request') = n
      /\ DOMAIN request' = DOMAIN request \cup {n} /\ n \notin DOMAIN request
      /\ request'[n] = q
      /\ \A s \in DOMAIN request : request'[s] = request[s]
  BY <1>1, <1>2, <1>4
<1>6. TypeOK'
  BY <1>5 DEF TypeOK, Requested, Make
<1>7. Agreement'
  BY <1>1, <1>3, <1>5 DEF Agreement
<1>8. AfterAnswered'
  BY <1>3, <1>5 DEF AfterAnswered, Earlier
<1>9. \A d \in Code : /\ Created(d)' = Created(d) /\ Removed(d)' = Removed(d)
                     /\ Served(d)' = Served(d)
  BY <1>3, <1>5 DEF Created, Removed, Served
<1>10. Alternation'
  BY <1>9 DEF Alternation, Make
<1>11. LastWord'
  <2>1. \A s \in DOMAIN request : Left(s)' = Left(s) /\ request'[s].after = request[s].after
    BY <1>5 DEF Left
  <2>2. \A d \in Code : Served(d) \subseteq DOMAIN request /\ (Clean(d)' => Clean(d))
    BY <1>5 DEF Served, Clean
  <2>3. repo' = repo
    BY DEF Make
  <2> QED BY <1>9, <2>1, <2>2, <2>3 DEF LastWord
<1> QED BY <1>6, <1>7, <1>8, <1>10, <1>11

(* What the PDS did and replied makes a request of the same type. *)
LEMMA Replied ==
  ASSUME NEW q \in Requested, NEW e \in Effect,
         NEW w \in {"none", "sent", "ok", "swap", "error"}
  PROVE  [q EXCEPT !.effect = e, !.wire = w] \in Requested
<1>1. [q EXCEPT !.effect = e] \in Requested
  BY DEF Requested
<1>2. ASSUME NEW p \in Requested PROVE [p EXCEPT !.wire = w] \in Requested
  BY DEF Requested
<1>3. [q EXCEPT !.effect = e, !.wire = w] = [[q EXCEPT !.effect = e] EXCEPT !.wire = w]
  BY DEF Requested
<1> QED BY <1>1, <1>2, <1>3

(* The PDS serves a call. Of the writes answered without 502 or 504, none was
   made after the answer to this one: it has none. *)
LEMMA ServeStep ==
  ASSUME WriteInv, NEW r \in DOMAIN request, Serve(r)
  PROVE  WriteInv'
<1> USE DEF WriteInv
<1>a. PICK c : c = request[r].code
  OBVIOUS
<1>b. PICK op : op = request[r].op
  OBVIOUS
<1>c. PICK effect : effect = Write(op, repo[c] # NoRecord)
  OBVIOUS
<1>d. PICK wire : wire = IF effect = "nothing" /\ op # "delete" THEN "swap" ELSE "ok"
  OBVIOUS
<1> DEFINE q == [request[r] EXCEPT !.effect = effect, !.wire = wire]
<1>1. request \in Seq(Requested) /\ request[r] \in Requested /\ repo \in [Code -> Record]
  <2>1. request \in Seq(Requested) /\ repo \in [Code -> Record]
    BY DEF TypeOK, Requested
  <2>2. request[r] \in Requested
    BY <2>1
  <2> QED BY <2>1, <2>2
<1>2. /\ c \in Code /\ op \in Op /\ effect \in Effect \ {"unserved"} /\ wire \in {"ok", "swap"}
      /\ effect \in {"created", "removed", "replaced"} => wire = "ok" /\ effect \in Done(op)
      /\ effect = "nothing" => wire = "swap" \/ (wire = "ok" /\ op = "delete")
      /\ effect = "created" => repo[c] = NoRecord /\ op # "delete"
      /\ effect = "replaced" => repo[c] # NoRecord /\ op # "delete"
      /\ effect = "removed" => repo[c] # NoRecord /\ op = "delete"
      /\ effect = "nothing" /\ op = "delete" => repo[c] = NoRecord
  <2>1. c \in Code /\ op \in Op
    BY <1>1, <1>a, <1>b DEF Requested
  <2>2. CASE op = "delete"
    <3>1. effect = IF repo[c] # NoRecord THEN "removed" ELSE "nothing"
      BY <1>c, <2>2 DEF Write, CreateOnly
    <3>2. wire = "ok"
      BY <1>d, <2>2
    <3>3. Done(op) = {"removed", "nothing"}
      BY <2>2 DEF Done
    <3> QED BY <2>1, <2>2, <3>1, <3>2, <3>3 DEF Effect
  <2>3. CASE op = "shorten"
    BY <1>c, <1>d, <2>1, <2>3 DEF Write, Op, Effect, Done, CreateOnly
  <2>4. CASE op = "update"
    BY <1>c, <1>d, <2>1, <2>4 DEF Write, Op, Effect, Done, CreateOnly
  <2> QED BY <2>1, <2>2, <2>3, <2>4 DEF Op
<1>3. /\ q \in Requested /\ q.op = op /\ q.code = c /\ q.after = request[r].after
      /\ q.step = request[r].step /\ q.status = request[r].status
      /\ q.effect = effect /\ q.wire = wire
  <2>1. effect \in Effect /\ wire \in {"none", "sent", "ok", "swap", "error"}
    BY <1>2
  <2>2. q \in Requested
    BY <1>1, <2>1, Replied DEF q
  <2>3. /\ q.op = op /\ q.code = c /\ q.after = request[r].after
        /\ q.step = request[r].step /\ q.status = request[r].status
        /\ q.effect = effect /\ q.wire = wire
    BY <1>1, <1>a, <1>b DEF Requested
  <2> QED BY <2>2, <2>3
<1>4. request[r].wire = "sent" /\ request' = [request EXCEPT ![r] = q]
  <2>1. /\ request[r].wire = "sent"
        /\ request' = [request EXCEPT ![r].effect = effect, ![r].wire = wire]
    BY <1>a, <1>b, <1>c, <1>d DEF Serve
  <2>2. [request EXCEPT ![r].effect = effect, ![r].wire = wire] = [request EXCEPT ![r] = q]
    BY <1>1 DEF Requested
  <2> QED BY <2>1, <2>2
<1>5. /\ request[r].effect = "unserved" /\ request[r].status \in {0, 502, 504}
      /\ request[r].step # "naming" /\ (request[r].step = "answered" <=> request[r].status # 0)
  BY <1>4 DEF Agreement, Agrees
<1>6. /\ effect \in {"created", "replaced"} => repo' = [repo EXCEPT ![c] = r]
      /\ effect = "removed" => repo' = [repo EXCEPT ![c] = NoRecord]
      /\ effect = "nothing" => repo' = repo
      /\ throughout' \subseteq throughout /\ UNCHANGED <<walk, failures>>
  BY <1>2, <1>a, <1>b, <1>c DEF Serve, Effect
<1>7. r \in 1..MaxRequests /\ r \in Nat /\ r # NoRecord
  BY <1>1, LinkAssumption DEF Agreement
<1> HIDE DEF q
<1>8. /\ request' \in Seq(Requested) /\ Len(request') = Len(request)
      /\ DOMAIN request' = DOMAIN request
      /\ request'[r] = q
      /\ \A s \in DOMAIN request : s # r => request'[s] = request[s]
  BY <1>1, <1>3, <1>4, Changed
<1>9. /\ \A d \in Code : d # c => repo'[d] = repo[d]
      /\ effect \in {"created", "replaced"} => repo'[c] = r
      /\ effect = "removed" => repo'[c] = NoRecord
      /\ effect = "nothing" => repo'[c] = repo[c]
      /\ repo' \in [Code -> Record]
  <2>1. r \in Record /\ NoRecord \in Record
    BY <1>7 DEF Record
  <2> QED BY <1>1, <1>2, <1>6, <2>1 DEF Effect
<1>10. TypeOK'
  BY <1>6, <1>8, <1>9 DEF TypeOK, Requested
<1>11. Agreement'
  <2>1. Agrees(q)
    BY <1>2, <1>3, <1>5 DEF Agrees, Done, Op, Effect
  <2> QED BY <1>8, <2>1 DEF Agreement
<1>12. AfterAnswered'
  BY <1>3, <1>8 DEF AfterAnswered
<1>13. Alternation'
  <2>1. \A d \in Code : Created(d) \in SUBSET (DOMAIN request) /\ Removed(d) \in SUBSET (DOMAIN request)
    BY DEF Created, Removed
  <2>2. \A d \in Code :
          /\ IsFiniteSet(Created(d)) /\ Cardinality(Created(d)) \in Nat
          /\ IsFiniteSet(Removed(d)) /\ Cardinality(Removed(d)) \in Nat
    BY <1>1, <2>1, Finite
  <2>3. r \notin Created(c) /\ r \notin Removed(c)
    BY <1>5 DEF Created, Removed
  <2>4. ASSUME NEW d \in Code, d # c
        PROVE  Created(d)' = Created(d) /\ Removed(d)' = Removed(d)
    <3>1. request[r].code # d /\ request'[r].code # d
      BY <1>3, <1>8, <1>a, <2>4
    <3> QED BY <1>8, <3>1 DEF Created, Removed
  <2>5. /\ Created(c)' = IF effect = "created" THEN Created(c) \cup {r} ELSE Created(c)
        /\ Removed(c)' = IF effect = "removed" THEN Removed(c) \cup {r} ELSE Removed(c)
    <3>1. request'[r].code = c /\ request'[r].effect = effect
      BY <1>3, <1>8
    <3>2. request[r].effect = "unserved" /\ request[r].code = c
      BY <1>5, <1>a
    <3> QED BY <1>8, <3>1, <3>2 DEF Created, Removed
  <2>6. /\ effect = "created" => Cardinality(Created(c)') = Cardinality(Created(c)) + 1
        /\ effect # "created" => Cardinality(Created(c)') = Cardinality(Created(c))
    <3>1. Cardinality(Created(c) \cup {r}) = Cardinality(Created(c)) + 1
      BY <1>2, <2>2, <2>3, FS_AddElement
    <3> QED BY <2>5, <3>1
  <2>7. /\ effect = "removed" => Cardinality(Removed(c)') = Cardinality(Removed(c)) + 1
        /\ effect # "removed" => Cardinality(Removed(c)') = Cardinality(Removed(c))
    <3>1. Cardinality(Removed(c) \cup {r}) = Cardinality(Removed(c)) + 1
      BY <1>2, <2>2, <2>3, FS_AddElement
    <3> QED BY <2>5, <3>1
  <2>8. Cardinality(Created(c)) <= Cardinality(Removed(c)) + (IF repo[c] = NoRecord THEN 0 ELSE 1)
    BY <1>2 DEF Alternation
  <2>9. Cardinality(Created(c)') <= Cardinality(Removed(c)') + (IF repo'[c] = NoRecord THEN 0 ELSE 1)
    <3>1. Cardinality(Created(c)) \in Nat /\ Cardinality(Removed(c)) \in Nat
      BY <1>2, <2>2
    <3>2. CASE effect = "created"
      BY <1>2, <1>7, <1>9, <2>6, <2>7, <2>8, <3>1, <3>2
    <3>3. CASE effect = "removed"
      BY <1>2, <1>9, <2>6, <2>7, <2>8, <3>1, <3>3
    <3>4. CASE effect = "replaced"
      BY <1>2, <1>7, <1>9, <2>6, <2>7, <2>8, <3>1, <3>4
    <3>5. CASE effect = "nothing"
      BY <1>2, <1>9, <2>6, <2>7, <2>8, <3>1, <3>5
    <3> QED BY <1>2, <3>2, <3>3, <3>4, <3>5 DEF Effect
  <2>10. ASSUME NEW d \in Code, d # c
         PROVE  Cardinality(Created(d)') <= Cardinality(Removed(d)') + (IF repo'[d] = NoRecord THEN 0 ELSE 1)
    BY <1>9, <2>4, <2>10 DEF Alternation
  <2> QED BY <2>9, <2>10 DEF Alternation
<1>14. \A d \in Code : Clean(d)' => Clean(d)
  <2>1. \A s \in DOMAIN request : request'[s].code = request[s].code /\ request'[s].status = request[s].status
    BY <1>3, <1>8, <1>a
  <2> QED BY <1>8, <2>1 DEF Clean
<1>15. \A s \in DOMAIN request : Left(s)' = Left(s) /\ request'[s].after = request[s].after
  BY <1>3, <1>8, <1>b DEF Left
<1>16. \A d \in Code : Served(d) \subseteq DOMAIN request /\ Served(d)' \subseteq DOMAIN request
  BY <1>8 DEF Served
<1>17. LastWord'
  <2>1. ASSUME NEW d \in Code, d # c \/ wire # "ok", Clean(d)', Served(d)' # {}
        PROVE  \E s \in Served(d)' : repo'[d] = Left(s)' /\ \A p \in Served(d)' : s \notin request'[p].after
    <3>1. Served(d)' = Served(d)
      <4>1. ~(request[r].code = d /\ request[r].wire = "ok") /\ ~(request'[r].code = d /\ request'[r].wire = "ok")
        BY <1>3, <1>4, <1>8, <1>a, <2>1
      <4> QED BY <1>8, <4>1 DEF Served
    <3>2. repo'[d] = repo[d]
      BY <1>2, <1>9, <2>1 DEF Effect
    <3>3. PICK s \in Served(d) : repo[d] = Left(s) /\ \A p \in Served(d) : s \notin request[p].after
      BY <1>14, <2>1, <3>1 DEF LastWord
    <3> QED BY <1>15, <1>16, <3>1, <3>2, <3>3
  <2>2. ASSUME wire = "ok", Clean(c)'
        PROVE  r \in Served(c)' /\ repo'[c] = Left(r)' /\ \A p \in Served(c)' : r \notin request'[p].after
    <3>1. r \in Served(c)'
      BY <1>3, <1>8, <2>2 DEF Served
    <3>2. Left(r)' = IF op = "delete" THEN NoRecord ELSE r
      BY <1>3, <1>8 DEF Left
    <3>3. repo'[c] = Left(r)'
      BY <1>2, <1>9, <2>2, <3>2 DEF Effect
    <3>4. request[r].status = 0
      BY <1>3, <1>5, <1>8, <2>2 DEF Clean
    <3>5. \A p \in DOMAIN request : r \notin request[p].after
      BY <1>5, <3>4 DEF AfterAnswered
    <3>6. \A p \in Served(c)' : r \notin request'[p].after
      BY <1>15, <1>16, <1>2, <3>5
    <3> QED BY <3>1, <3>3, <3>6
  <2> QED BY <1>2, <2>1, <2>2 DEF LastWord
<1> QED BY <1>10, <1>11, <1>12, <1>13, <1>17

(* An answer fits what the handler knows. *)
Fits(r, status) ==
  /\ request[r].step # "answered"
  /\ request[r].wire = "sent" => status \in {502, 504}
  /\ status \in {200, 204} => request[r].wire = "ok"
  /\ status = 409 => request[r].wire = "swap"

(* An answer that fits the reply keeps the strengthening. *)
LEMMA AnswerStep ==
  ASSUME WriteInv, NEW r \in DOMAIN request, NEW status \in {200, 204, 409, 502, 504},
         Fits(r, status), Answer(r, status)
  PROVE  WriteInv'
<1>h. PICK h : h = request[r]
  OBVIOUS
<1>q. PICK q : q = [h EXCEPT !.step = "answered", !.status = status]
  OBVIOUS
<1>1. request \in Seq(Requested)
  BY DEF WriteInv, TypeOK, Requested
<1>2. h \in Requested
  BY <1>1, <1>h
<1>3. /\ q \in Requested /\ q.step = "answered" /\ q.status = status
      /\ q.op = h.op /\ q.code = h.code /\ q.after = h.after
      /\ q.effect = h.effect /\ q.wire = h.wire
  <2>1. PICK p : p = [h EXCEPT !.step = "answered"]
    OBVIOUS
  <2>2. p \in Requested
    BY <1>2, <2>1 DEF Requested
  <2>3. q = [p EXCEPT !.status = status]
    BY <1>2, <1>q, <2>1 DEF Requested
  <2>4. q \in Requested
    BY <2>2, <2>3 DEF Requested
  <2>5. /\ q.step = "answered" /\ q.status = status
        /\ q.op = h.op /\ q.code = h.code /\ q.after = h.after
        /\ q.effect = h.effect /\ q.wire = h.wire
    BY <1>2, <1>q DEF Requested
  <2> QED BY <2>4, <2>5
<1>4. UNCHANGED <<repo, walk, throughout, failures>>
  BY DEF Answer
<1>5. request' = [request EXCEPT ![r] = q]
  <2>1. request' = [request EXCEPT ![r].step = "answered", ![r].status = status]
    BY DEF Answer
  <2>2. request' = [s \in DOMAIN request |-> IF s = r THEN q ELSE request[s]]
    <3>1. PICK p : p = [h EXCEPT !.step = "answered"]
      OBVIOUS
    <3>2. PICK one : one = [request EXCEPT ![r].step = "answered"]
      OBVIOUS
    <3>3. one = [s \in DOMAIN request |-> IF s = r THEN p ELSE request[s]]
      BY <1>1, <1>h, <3>1, <3>2
    <3>4. request' = [one EXCEPT ![r].status = status]
      BY <1>1, <2>1, <3>2
    <3>5. q = [p EXCEPT !.status = status]
      BY <1>2, <1>q, <3>1 DEF Requested
    <3> QED BY <1>1, <3>3, <3>4, <3>5
  <2>3. [request EXCEPT ![r] = q] = [s \in DOMAIN request |-> IF s = r THEN q ELSE request[s]]
    BY <1>1
  <2> QED BY <2>2, <2>3
<1>6. Agrees(h)
  BY <1>h DEF WriteInv, Agreement
<1>7. Agrees(q)
  BY <1>2, <1>3, <1>6, <1>h DEF Agrees, Requested, Fits
<1>8. request[r].step # "answered"
  BY DEF Fits
<1>9. /\ q.op = request[r].op /\ q.code = request[r].code /\ q.after = request[r].after
      /\ q.effect = request[r].effect /\ (q.wire = "ok" <=> request[r].wire = "ok")
      /\ request[r].step = "answered" => q.step = "answered" /\ q.status = request[r].status
  BY <1>h, <1>3, <1>8
<1>10. q \in Requested
  BY <1>3
<1> QED BY <1>4, <1>5, <1>7, <1>9, <1>10, QuietStep

(* The actions of a handler and of its call, other than the PDS's write. *)
LEMMA HandlerStep ==
  ASSUME WriteInv, NEW r \in DOMAIN request,
         Reject(r) \/ Receive(r) \/ Named(r) \/ Disconnect(r) \/ Timeout(r)
  PROVE  WriteInv'
<1>1. request \in Seq(Requested)
  BY DEF WriteInv, TypeOK, Requested
<1>2. request[r] \in Requested
  BY <1>1
<1>3. Agrees(request[r])
  BY DEF WriteInv, Agreement
<1>4. CASE Reject(r)
  <2> DEFINE q == [request[r] EXCEPT !.wire = "error"]
  <2>1. q \in Requested
    BY <1>2 DEF Requested
  <2>2. /\ q.op = request[r].op /\ q.code = request[r].code /\ q.after = request[r].after
        /\ q.effect = request[r].effect /\ q.wire = "error"
        /\ q.step = request[r].step /\ q.status = request[r].status
    BY <1>2 DEF Requested
  <2>3. request' = [request EXCEPT ![r] = q] /\ UNCHANGED <<repo, walk, throughout, failures>>
        /\ request[r].wire = "sent"
    BY <1>1, <1>4 DEF Reject
  <2> HIDE DEF q
  <2>4. Agrees(q)
    BY <1>3, <2>2, <2>3 DEF Agrees
  <2> QED BY <2>1, <2>2, <2>3, <2>4, QuietStep
<1>5. CASE Receive(r)
  <2>1. request[r].step = "sent"
    BY <1>5 DEF Receive
  <2>2. CASE request[r].wire = "ok" /\ request[r].op = "shorten"
    <3> DEFINE q == [request[r] EXCEPT !.step = "naming"]
    <3>1. q \in Requested
      BY <1>2 DEF Requested
    <3>2. /\ q.op = request[r].op /\ q.code = request[r].code /\ q.after = request[r].after
          /\ q.effect = request[r].effect /\ q.wire = request[r].wire
          /\ q.step = "naming" /\ q.status = request[r].status
      BY <1>2 DEF Requested
    <3>3. request' = [request EXCEPT ![r] = q] /\ UNCHANGED <<repo, walk, throughout, failures>>
      BY <1>1, <1>5, <2>2 DEF Receive
    <3> HIDE DEF q
    <3>4. Agrees(q)
      BY <1>3, <2>1, <2>2, <3>2 DEF Agrees
    <3> QED BY <2>1, <3>1, <3>2, <3>3, <3>4, QuietStep
  <2>3. CASE request[r].wire = "ok" /\ request[r].op # "shorten" /\ Answer(r, 204)
    BY <2>1, <2>3, AnswerStep DEF Fits
  <2>4. CASE request[r].wire = "swap" /\ Answer(r, 409)
    BY <2>1, <2>4, AnswerStep DEF Fits
  <2>5. CASE request[r].wire = "error" /\ Answer(r, 502)
    BY <2>1, <2>5, AnswerStep DEF Fits
  <2> QED BY <1>5, <2>2, <2>3, <2>4, <2>5 DEF Receive
<1>6. CASE Named(r)
  <2>1. request[r].wire = "ok" /\ request[r].step = "naming"
    BY <1>3, <1>6 DEF Named, Agrees
  <2>2. CASE Answer(r, 200)
    BY <2>1, <2>2, AnswerStep DEF Fits
  <2>3. CASE Answer(r, 502)
    BY <2>1, <2>3, AnswerStep DEF Fits
  <2> QED BY <1>6, <2>2, <2>3 DEF Named
<1>7. CASE Disconnect(r)
  BY <1>7, AnswerStep DEF Fits, Disconnect
<1>8. CASE Timeout(r)
  BY <1>8, AnswerStep DEF Fits, Timeout
<1> QED BY <1>4, <1>5, <1>6, <1>7, <1>8

(* No write changes the walk; only a deletion takes a link from `throughout`. *)
LEMMA WriteKeepsWalk ==
  ASSUME Inv, WriteInv',
         UNCHANGED <<repo, walk, throughout>> \/ \E r \in DOMAIN request : Serve(r)
  PROVE  WalkInv'
<1>1. CASE UNCHANGED <<repo, walk, throughout>>
  BY <1>1 DEF Inv, WalkInv, WalkShape, Frontier, PageInHand
<1>2. ASSUME NEW r \in DOMAIN request, Serve(r)
      PROVE  WalkInv'
  <2>1. walk' = walk /\ throughout' \subseteq throughout
    BY <1>2 DEF Serve
  <2>2. r \in Nat /\ r # NoRecord /\ r # Unusable
    BY LinkAssumption DEF Inv, WriteInv, TypeOK
  <2>3. \A c \in throughout' : repo'[c] \notin {NoRecord, Unusable}
    <3> TAKE c \in throughout'
    <3>1. repo \in [Code -> Record] /\ c \in Code /\ repo[c] \notin {NoRecord, Unusable}
      BY <2>1 DEF Inv, WriteInv, TypeOK, WalkInv, Frontier
    <3>2. PICK d, e : d = request[r].code /\ e = Write(request[r].op, repo[d] # NoRecord)
      OBVIOUS
    <3>3. CASE e \in {"created", "replaced"}
      <4>1. repo' = [repo EXCEPT ![d] = r]
        BY <1>2, <3>2, <3>3 DEF Serve
      <4> QED BY <2>2, <3>1, <4>1
    <3>4. CASE e = "removed"
      <4>1. repo' = [repo EXCEPT ![d] = NoRecord] /\ throughout' = throughout \ {d}
        BY <1>2, <3>2, <3>4 DEF Serve
      <4> QED BY <3>1, <4>1
    <3>5. CASE e \notin {"created", "replaced", "removed"}
      <4>1. repo' = repo
        BY <1>2, <3>2, <3>5 DEF Serve
      <4> QED BY <3>1, <4>1
    <3> QED BY <3>3, <3>4, <3>5
  <2>4. WalkShape'
    BY <2>1 DEF Inv, WalkInv, WalkShape
  <2>5. Frontier'
    BY <2>1, <2>3 DEF Inv, WalkInv, Frontier
  <2>6. PageInHand'
    BY <2>1 DEF Inv, WalkInv, PageInHand
  <2> QED BY <2>4, <2>5, <2>6 DEF WalkInv
<1> QED BY <1>1, <1>2
-----------------------------------------------------------------------------
(* The steps of the walk leave the writes alone. *)
LEMMA WalkKeepsWrites ==
  ASSUME WriteInv, TypeOK', UNCHANGED <<repo, request>>
  PROVE  WriteInv'
<1>1. Agreement' /\ AfterAnswered'
  BY DEF WriteInv, Agreement, AfterAnswered
<1>2. \A c \in Code : Created(c)' = Created(c) /\ Removed(c)' = Removed(c) /\ Served(c)' = Served(c)
                      /\ (Clean(c)' <=> Clean(c))
  BY DEF Created, Removed, Served, Clean
<1>3. Alternation'
  BY <1>2 DEF WriteInv, Alternation
<1>4. LastWord'
  <2>1. \A r : Left(r)' = Left(r)
    BY DEF Left
  <2> QED BY <1>2, <2>1 DEF WriteInv, LastWord
<1> QED BY <1>1, <1>3, <1>4 DEF WriteInv

(* A page is asked for, with a limit the PDS accepts. *)
LEMMA AskPageStep ==
  ASSUME Inv, NEW limit \in Limits, AskPage(limit)
  PROVE  Inv'
<1>1. /\ walk'.step = "asked" /\ walk'.limit = Clamped(limit) /\ walk'.cursor = walk.cursor
      /\ walk'.records = walk.records /\ walk'.shown = walk.shown
      /\ walk' = [step |-> walk'.step, limit |-> walk'.limit, cursor |-> walk'.cursor,
                  records |-> walk'.records, shown |-> walk'.shown]
  BY DEF AskPage, Inv, WalkInv, WalkShape
<1>2. /\ walk.step \in {"new", "next"} /\ UNCHANGED <<repo, request, failures>>
      /\ throughout' = IF walk.step = "new" THEN Usable ELSE throughout
  BY DEF AskPage
<1>3. TypeOK'
  BY <1>1, <1>2, ClampedIn DEF Inv, WriteInv, TypeOK, Usable
<1>4. WalkShape' /\ PageInHand'
  BY <1>1 DEF WalkShape, PageInHand
<1>5. Frontier'
  <2>1. \A c \in Code : c \in Nat /\ c > 0
    BY DEF Code
  <2>2. CASE walk.step = "new"
    BY <1>1, <1>2, <2>1, <2>2 DEF Inv, WalkInv, WalkShape, Frontier, Usable
  <2>3. CASE walk.step = "next"
    BY <1>1, <1>2, <2>3 DEF Inv, WalkInv, Frontier
  <2> QED BY <1>2, <2>2, <2>3
<1> QED BY <1>2, <1>3, <1>4, <1>5, WalkKeepsWrites DEF Inv, WalkInv

(* The PDS lists: what a page leaves out of the links after the cursor comes
   after all of the page, and the page is full. *)
LEMMA ServePageStep ==
  ASSUME Inv, ServePage
  PROVE  Inv'
<1>a. PICK page : page = Listed(walk.limit, walk.cursor)
  OBVIOUS
<1>1. /\ walk'.step = "listed" /\ walk'.limit = walk.limit /\ walk'.cursor = walk.cursor
      /\ walk'.records = [c \in page |-> repo[c]] /\ walk'.shown = walk.shown
      /\ walk' = [step |-> walk'.step, limit |-> walk'.limit, cursor |-> walk'.cursor,
                  records |-> walk'.records, shown |-> walk'.shown]
  BY <1>a DEF ServePage, Inv, WalkInv, WalkShape
<1>2. UNCHANGED <<repo, request, throughout, failures>> /\ walk.step = "asked"
  BY DEF ServePage
<1>3. walk.limit \in Nat /\ walk.cursor \in Nat /\ TypeOK
  BY LinkAssumption DEF Inv, WriteInv, TypeOK, Code, NoCursor
<1>4. /\ page \subseteq Code
      /\ \A p \in page : p > walk.cursor /\ repo[p] # NoRecord
      /\ \A c \in Code : c > walk.cursor /\ repo[c] # NoRecord /\ c \notin page =>
           Cardinality(page) >= walk.limit /\ \A p \in page : p < c
  BY <1>a, <1>3, PageOfRecords
<1>5. DOMAIN walk'.records = page /\ \A c \in page : walk'.records[c] = repo[c]
  BY <1>1
<1>6. TypeOK'
  BY <1>1, <1>2, <1>4, <1>5 DEF Inv, WriteInv, TypeOK
<1>7. WalkShape'
  BY <1>1 DEF WalkShape
<1>8. Frontier'
  BY <1>1, <1>2 DEF Inv, WalkInv, Frontier
<1>9. PageInHand'
  <2>1. \A c \in throughout : c \in Code /\ repo[c] \notin {NoRecord, Unusable}
    BY <1>3 DEF Inv, WalkInv, Frontier, TypeOK
  <2> QED BY <1>1, <1>2, <1>4, <1>5, <2>1 DEF PageInHand
<1> QED BY <1>2, <1>6, <1>7, <1>8, <1>9, WalkKeepsWrites DEF Inv, WalkInv

(* A failed list call leaves the client where it was. *)
LEMMA FailPageStep ==
  ASSUME Inv, FailPage
  PROVE  Inv'
<1>1. /\ walk'.step = "next" /\ walk'.limit = walk.limit /\ walk'.cursor = walk.cursor
      /\ walk'.records = <<>> /\ walk'.shown = walk.shown
      /\ walk' = [step |-> walk'.step, limit |-> walk'.limit, cursor |-> walk'.cursor,
                  records |-> walk'.records, shown |-> walk'.shown]
  BY DEF FailPage, Inv, WalkInv, WalkShape
<1>2. /\ UNCHANGED <<repo, request, throughout>> /\ walk.step \in {"asked", "listed"}
      /\ failures < MaxFailures /\ failures' = failures + 1
  BY DEF FailPage
<1>3. TypeOK'
  <2>1. DOMAIN walk'.records \subseteq Code
    BY <1>1
  <2>2. failures' \in 0..MaxFailures
    BY <1>2, LinkAssumption DEF Inv, WriteInv, TypeOK
  <2> QED BY <1>1, <1>2, <2>1, <2>2 DEF Inv, WriteInv, TypeOK
<1>4. WalkShape' /\ PageInHand'
  BY <1>1 DEF WalkShape, PageInHand
<1>5. Frontier'
  BY <1>1, <1>2 DEF Inv, WalkInv, Frontier
<1> QED BY <1>2, <1>3, <1>4, <1>5, WalkKeepsWrites DEF Inv, WalkInv

(* The client gets a page: the links shown are again those up to the cursor. *)
LEMMA ShowPageStep ==
  ASSUME Inv, ShowPage
  PROVE  Inv'
<1>a. PICK page : page = DOMAIN walk.records
  OBVIOUS
<1>b. PICK usable : usable = {c \in page : walk.records[c] # Unusable}
  OBVIOUS
<1>c. PICK cursor : cursor = NextCursor(walk.records, walk.limit)
  OBVIOUS
<1>1. /\ walk'.step = IF cursor = NoCursor THEN "done" ELSE "next"
      /\ walk'.limit = walk.limit /\ walk'.cursor = cursor /\ walk'.records = <<>>
      /\ walk'.shown = [c \in Code |-> IF c \in usable THEN walk.shown[c] + 1 ELSE walk.shown[c]]
      /\ walk' = [step |-> walk'.step, limit |-> walk'.limit, cursor |-> walk'.cursor,
                  records |-> walk'.records, shown |-> walk'.shown]
  BY <1>a, <1>b, <1>c DEF ShowPage, Inv, WalkInv, WalkShape
<1>2. walk.step = "listed" /\ UNCHANGED <<repo, request, throughout, failures>>
  BY DEF ShowPage
<1>3. /\ walk.cursor \in Nat /\ walk.limit \in Nat /\ walk.limit >= 1
      /\ walk.shown \in [Code -> Nat] /\ page \subseteq Code /\ throughout \subseteq Code
  BY <1>a, LinkAssumption DEF Inv, WriteInv, TypeOK, Code, NoCursor
<1>4. IsFiniteSet(page) /\ Cardinality(page) \in Nat
  <2>1. IsFiniteSet(Code)
    BY LinkAssumption, FS_Interval DEF Code
  <2> QED BY <1>3, <2>1, FS_Subset, FS_CardinalityType
<1>5. /\ \A c \in Code : walk.shown[c] <= 1
      /\ \A c \in Code : walk.shown[c] = 1 => c <= walk.cursor
      /\ \A c \in throughout : repo[c] \notin {NoRecord, Unusable}
      /\ \A c \in throughout : c <= walk.cursor => walk.shown[c] = 1
      /\ \A p \in page : p > walk.cursor
      /\ \A c \in throughout : c > walk.cursor =>
           \/ c \in usable
           \/ Cardinality(page) >= walk.limit /\ \A p \in page : p < c
  BY <1>a, <1>b, <1>2 DEF Inv, WalkInv, Frontier, PageInHand
<1>6. \A c \in Code : c \in Nat /\ c > 0
  BY DEF Code
<1>7. /\ Cardinality(page) < walk.limit => cursor = NoCursor
      /\ ~(Cardinality(page) < walk.limit) => cursor \in page /\ \A p \in page : p <= cursor
  <2>1. CASE Cardinality(page) < walk.limit
    BY <1>a, <1>c, <2>1 DEF NextCursor
  <2>2. CASE ~(Cardinality(page) < walk.limit)
    <3>1. page # {}
      BY <1>3, <2>2, FS_EmptySet
    <3>2. cursor = Max(page)
      BY <1>a, <1>c, <2>2 DEF NextCursor
    <3> QED BY <1>3, <2>2, <3>1, <3>2, MaxOfCodes
  <2> QED BY <2>1, <2>2
<1>8. TypeOK'
  <2>1. walk'.shown \in [Code -> Nat]
    BY <1>1, <1>3
  <2>2. walk'.cursor \in Code \cup {NoCursor} /\ walk'.step \in {"next", "done"}
    BY <1>1, <1>3, <1>7
  <2>3. DOMAIN walk'.records \subseteq Code
    BY <1>1
  <2> QED BY <1>1, <1>2, <2>1, <2>2, <2>3 DEF Inv, WriteInv, TypeOK
<1>9. WalkShape' /\ PageInHand'
  BY <1>1 DEF WalkShape, PageInHand
<1>10. \A c \in Code : /\ c \in usable => walk'.shown[c] = 1 /\ walk.shown[c] = 0
                       /\ c \notin usable => walk'.shown[c] = walk.shown[c]
  <2> TAKE c \in Code
  <2>1. CASE c \in usable
    <3>1. c > walk.cursor
      BY <1>b, <1>5, <2>1
    <3>2. walk.shown[c] = 0
      BY <1>3, <1>5, <1>6, <3>1
    <3> QED BY <1>1, <2>1, <3>2
  <2>2. CASE c \notin usable
    BY <1>1, <2>2
  <2> QED BY <2>1, <2>2
<1>11. Frontier'
  <2>1. \A c \in Code : walk'.shown[c] <= 1
    BY <1>5, <1>10
  <2>2. \A c \in Code : walk'.shown[c] = 1 /\ walk'.step # "done" => c <= walk'.cursor
    <3> SUFFICES ASSUME NEW c \in Code, walk'.shown[c] = 1, walk'.step # "done"
                 PROVE  c <= cursor
      BY <1>1
    <3>1. cursor \in page /\ \A p \in page : p <= cursor
      BY <1>1, <1>7
    <3>2. CASE c \in usable
      BY <1>b, <3>1, <3>2
    <3>3. CASE c \notin usable
      <4>1. c <= walk.cursor /\ walk.cursor < cursor /\ cursor \in Nat
        BY <1>3, <1>5, <1>6, <1>10, <3>1, <3>3
      <4> QED BY <1>3, <1>6, <4>1
    <3> QED BY <3>2, <3>3
  <2>3. \A c \in throughout : walk'.step = "done" \/ c <= cursor => walk'.shown[c] = 1
    <3> SUFFICES ASSUME NEW c \in throughout, walk'.step = "done" \/ c <= cursor
                 PROVE  walk'.shown[c] = 1
      OBVIOUS
    <3>1. c \in Code /\ c \in Nat
      BY <1>3, <1>6
    <3>2. CASE c <= walk.cursor
      BY <1>5, <1>10, <3>1, <3>2
    <3>3. CASE c > walk.cursor
      <4>1. CASE c \in usable
        BY <1>10, <3>1, <4>1
      <4>2. CASE c \notin usable
        <5>1. Cardinality(page) >= walk.limit /\ \A p \in page : p < c
          BY <1>5, <3>3, <4>2
        <5>2. ~(Cardinality(page) < walk.limit)
          BY <1>3, <1>4, <5>1
        <5>3. cursor \in page /\ cursor \in Nat /\ cursor > 0
          BY <1>3, <1>6, <1>7, <5>2
        <5>4. walk'.step # "done"
          BY <1>1, <5>3 DEF NoCursor
        <5>5. c <= cursor /\ cursor < c
          BY <5>1, <5>3, <5>4
        <5> QED BY <3>1, <5>3, <5>5
      <4> QED BY <4>1, <4>2
    <3> QED BY <1>3, <3>1, <3>2, <3>3
  <2> QED BY <1>1, <1>2, <1>5, <2>1, <2>2, <2>3 DEF Frontier
<1> QED BY <1>2, <1>8, <1>9, <1>11, WalkKeepsWrites DEF Inv, WalkInv
-----------------------------------------------------------------------------
(* Every step preserves the strengthening. *)
LEMMA NextInv == Inv /\ [Next]_vars => Inv'
<1> SUFFICES ASSUME Inv, [Next]_vars PROVE Inv'
  OBVIOUS
<1>1. WriteInv /\ WalkInv
  BY DEF Inv
<1>2. CASE UNCHANGED vars
  <2>1. TypeOK'
    BY <1>1, <1>2 DEF WriteInv, TypeOK, vars
  <2>2. WriteInv'
    BY <1>1, <1>2, <2>1, WalkKeepsWrites DEF vars
  <2> QED BY <1>2, <2>2, WriteKeepsWalk DEF vars, Inv
<1>3. ASSUME NEW op \in Op, NEW c \in Code, NEW valid \in BOOLEAN, Make(op, c, valid)
      PROVE  Inv'
  <2>1. WriteInv'
    BY <1>1, <1>3, MakeStep
  <2> QED BY <1>3, <2>1, WriteKeepsWalk DEF Make, Inv
<1>4. ASSUME NEW r \in DOMAIN request, Serve(r)
      PROVE  Inv'
  <2>1. WriteInv'
    BY <1>1, <1>4, ServeStep
  <2> QED BY <1>4, <2>1, WriteKeepsWalk DEF Inv
<1>5. ASSUME NEW r \in DOMAIN request,
             Reject(r) \/ Receive(r) \/ Named(r) \/ Disconnect(r) \/ Timeout(r)
      PROVE  Inv'
  <2>1. WriteInv'
    BY <1>1, <1>5, HandlerStep
  <2>2. UNCHANGED <<repo, walk, throughout>>
    BY <1>5 DEF Reject, Receive, Named, Disconnect, Timeout, Answer
  <2> QED BY <2>1, <2>2, WriteKeepsWalk DEF Inv
<1>6. ASSUME NEW limit \in Limits, AskPage(limit)
      PROVE  Inv'
  BY <1>6, AskPageStep
<1>7. CASE ServePage
  BY <1>7, ServePageStep
<1>8. CASE FailPage
  BY <1>8, FailPageStep
<1>9. CASE ShowPage
  BY <1>9, ShowPageStep
<1> QED BY <1>2, <1>3, <1>4, <1>5, <1>6, <1>7, <1>8, <1>9 DEF Next

(* The strengthening holds in every reachable state. *)
THEOREM Invariance == Spec => []Inv
BY InitHolds, NextInv, PTL DEF Spec

(* The state keeps its types; in particular the PDS is never asked for a page of
   a size it refuses. *)
THEOREM TypeCorrect == Spec => []TypeOK
<1>1. Inv => TypeOK
  BY DEF Inv, WriteInv
<1> QED BY <1>1, Invariance, PTL

(* An answer of the write API tells what became of the request: success is only
   said of a call that the PDS served. *)
THEOREM TruthfulAnswersHolds == Spec => []TruthfulAnswers
<1>1. Inv => TruthfulAnswers
  <2> SUFFICES ASSUME Inv, NEW r \in DOMAIN request
               PROVE  /\ request[r].status \in {200, 204} =>
                           request[r].effect \in
                             (CASE request[r].op = "shorten" -> {"created"}
                                [] request[r].op = "update" -> {"created", "replaced"}
                                [] OTHER -> {"removed", "nothing"})
                      /\ request[r].status = 409 =>
                           request[r].effect = "nothing" /\ request[r].wire # "sent"
                      /\ request[r].status = 400 =>
                           request[r].effect = "unserved" /\ request[r].wire = "none"
    BY DEF TruthfulAnswers
  <2>1. Agrees(request[r])
    BY DEF Inv, WriteInv, Agreement
  <2>2. request[r].op \in Op
    <3>1. request \in Seq(Requested)
      BY DEF Inv, WriteInv, TypeOK, Requested
    <3>2. request[r] \in Requested
      BY <3>1
    <3> QED BY <3>2 DEF Requested
  <2>3. /\ request[r].status = 409 => request[r].effect = "nothing" /\ request[r].wire # "sent"
        /\ request[r].status = 400 => request[r].effect = "unserved" /\ request[r].wire = "none"
    BY <2>1 DEF Agrees
  <2>4. request[r].status \in {200, 204} => request[r].effect \in Done(request[r].op)
    BY <2>1 DEF Agrees
  <2>5. Done(request[r].op) = CASE request[r].op = "shorten" -> {"created"}
                                [] request[r].op = "update" -> {"created", "replaced"}
                                [] OTHER -> {"removed", "nothing"}
    BY <2>2 DEF Done, Op
  <2> QED BY <2>3, <2>4, <2>5
<1> QED BY <1>1, Invariance, PTL

(* However creations of one code race, one succeeds for each time it is free. *)
THEOREM OneCreatorHolds == Spec => []OneCreator
<1>1. Inv => OneCreator
  <2> SUFFICES ASSUME Inv, NEW c \in Code
               PROVE  Cardinality({r \in Writes(c) : request[r].op = "shorten" /\ request[r].status = 200})
                        <= 1 + Cardinality({r \in Writes(c) : request[r].effect = "removed"})
    BY DEF OneCreator
  <2> DEFINE Won == {r \in Writes(c) : request[r].op = "shorten" /\ request[r].status = 200}
             Gone == {r \in Writes(c) : request[r].effect = "removed"}
  <2>1. request \in Seq(Requested) /\ \A r \in DOMAIN request : Agrees(request[r])
    BY DEF Inv, WriteInv, TypeOK, Requested, Agreement
  <2>2. Won \subseteq Created(c)
    <3> SUFFICES ASSUME NEW r \in Won PROVE r \in Created(c)
      OBVIOUS
    <3>1. r \in DOMAIN request /\ request[r].code = c /\ request[r].op = "shorten" /\ request[r].status = 200
      BY DEF Writes
    <3>2. request[r].effect \in {"created"}
      BY <2>1, <3>1 DEF Agrees, Done
    <3> QED BY <3>1, <3>2 DEF Created
  <2>3. Removed(c) = Gone
    <3>1. \A r \in DOMAIN request : request[r].effect = "removed" => request[r].status # 400
      BY <2>1 DEF Agrees
    <3> QED BY <3>1 DEF Removed, Writes
  <2>4. /\ Created(c) \in SUBSET (DOMAIN request) /\ Removed(c) \in SUBSET (DOMAIN request)
        /\ Won \in SUBSET (DOMAIN request)
    BY <2>2 DEF Created, Removed
  <2>5. /\ IsFiniteSet(Created(c)) /\ Cardinality(Created(c)) \in Nat
        /\ Cardinality(Removed(c)) \in Nat /\ Cardinality(Won) \in Nat
    BY <2>1, <2>4, Finite
  <2>6. Cardinality(Won) <= Cardinality(Created(c))
    BY <2>2, <2>5, FS_Subset
  <2>7. Cardinality(Created(c)) <= Cardinality(Removed(c)) + (IF repo[c] = NoRecord THEN 0 ELSE 1)
    BY DEF Inv, WriteInv, Alternation
  <2> HIDE DEF Won, Gone
  <2>8. Cardinality(Won) <= 1 + Cardinality(Gone)
    BY <2>3, <2>5, <2>6, <2>7
  <2> QED BY <2>8 DEF Won, Gone
<1> QED BY <1>1, Invariance, PTL

(* When every answer about a code is definite, the record is what one of the
   last writes left: an acknowledged write is not undone by an earlier one. *)
THEOREM SettledValueHolds == Spec => []SettledValue
<1>1. Inv => SettledValue
  <2> SUFFICES ASSUME Inv, NEW c \in Code,
                      \A r \in Writes(c) : Final(r),
                      {r \in Writes(c) : request[r].status # 409} # {}
               PROVE  \E r \in {r \in Writes(c) : request[r].status # 409} :
                        /\ \A q \in {r1 \in Writes(c) : request[r1].status # 409} : r \notin request[q].after
                        /\ repo[c] = IF request[r].op = "delete" THEN NoRecord ELSE r
    BY DEF SettledValue
  <2>1. \A r \in DOMAIN request : Agrees(request[r])
                                  /\ request[r].status \in {0, 200, 204, 400, 409, 502, 504}
    <3>1. request \in Seq(Requested)
      BY DEF Inv, WriteInv, TypeOK, Requested
    <3>2. \A r \in DOMAIN request : request[r] \in Requested
      BY <3>1
    <3> QED BY <3>2 DEF Inv, WriteInv, Agreement, Requested
  <2>2. Clean(c)
    BY DEF Clean, Writes, Final
  <2>3. ASSUME NEW r \in DOMAIN request, request[r].code = c
        PROVE  r \in Served(c) <=> r \in Writes(c) /\ request[r].status # 409
    <3>1. request[r].wire = "ok" => request[r].status # 400 /\ request[r].status # 409
      BY <2>1 DEF Agrees
    <3>2. request[r].status \in {200, 204} => request[r].wire = "ok"
      BY <2>1 DEF Agrees
    <3>3. r \in Writes(c) => request[r].status \in {200, 204, 409}
      BY <2>1 DEF Writes, Final
    <3> QED BY <2>3, <3>1, <3>2, <3>3 DEF Served, Writes
  <2>4. Served(c) = {r \in Writes(c) : request[r].status # 409}
    BY <2>3 DEF Served, Writes
  <2>5. \E r \in Served(c) : repo[c] = Left(r) /\ \A q \in Served(c) : r \notin request[q].after
    BY <2>2, <2>4 DEF Inv, WriteInv, LastWord
  <2> QED BY <2>4, <2>5 DEF Left
<1> QED BY <1>1, Invariance, PTL

(* Following cursors shows every link that was there all along, once. *)
THEOREM WalkIsCompleteHolds == Spec => []WalkIsComplete
<1>1. Inv => WalkIsComplete
  BY DEF Inv, WalkInv, Frontier, WalkIsComplete
<1> QED BY <1>1, Invariance, PTL
=============================================================================
