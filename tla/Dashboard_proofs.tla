-------------------------- MODULE Dashboard_proofs --------------------------
(***************************************************************************)
(* Proofs about Dashboard: for any number of codes, writes and calls in    *)
(* flight and any page size, with and without lost commits.                *)
(*                                                                         *)
(* A link is in one of three states: the list agrees with the repository   *)
(* about it, or a commit about it is on its way, or it is in doubt. The    *)
(* same is true of each answer on its way, with its missed for the doubt.  *)
(***************************************************************************)
EXTENDS Dashboard, FiniteSetTheorems, SequenceTheorems, TLAPS

-----------------------------------------------------------------------------
(* Sets of numbers in their order. *)

(* A finite set of numbers has an enumeration in ascending order, each element
   once: the place of an element is how many are smaller. *)
LEMMA AscendingExists ==
  ASSUME NEW S \in SUBSET Int, IsFiniteSet(S)
  PROVE  \E p \in [1..Cardinality(S) -> S] :
           \A i, j \in 1..Cardinality(S) : i < j => p[i] < p[j]
<1> DEFINE n == Cardinality(S)
           below(c) == {d \in S : d < c}
           place == [c \in S |-> Cardinality(below(c)) + 1]
<1>0. \A c \in S : c \in Int
  OBVIOUS
<1>1. n \in Nat
  BY FS_CardinalityType
<1>2. \A c \in S : IsFiniteSet(below(c)) /\ Cardinality(below(c)) \in Nat
  <2> TAKE c \in S
  <2>1. below(c) \in SUBSET S
    OBVIOUS
  <2>2. IsFiniteSet(below(c))
    BY <2>1, FS_Subset
  <2> QED BY <2>2, FS_CardinalityType
<1>3. \A c \in S : Cardinality(below(c)) < n
  <2> TAKE c \in S
  <2>1. below(c) \in SUBSET S /\ below(c) # S
    OBVIOUS
  <2>2. Cardinality(below(c)) <= n /\ Cardinality(below(c)) # n
    BY <2>1, FS_Subset
  <2> QED BY <1>1, <1>2, <2>2
<1>4. \A c, d \in S : c < d => place[c] < place[d]
  <2> SUFFICES ASSUME NEW c \in S, NEW d \in S, c < d
               PROVE  place[c] < place[d]
    OBVIOUS
  <2>0. c \in Int /\ d \in Int /\ \A e \in S : e \in Int
    BY <1>0
  <2>1. below(c) \in SUBSET below(d) /\ c \in below(d) /\ c \notin below(c)
    <3>1. ASSUME NEW e \in below(c) PROVE e \in below(d)
      BY <2>0
    <3>2. c \in below(d) /\ c \notin below(c)
      BY <2>0
    <3> QED BY <3>1, <3>2
  <2>2. below(c) # below(d)
    BY <2>1
  <2> HIDE DEF below
  <2>3. Cardinality(below(c)) <= Cardinality(below(d)) /\ Cardinality(below(c)) # Cardinality(below(d))
    BY <1>2, <2>1, <2>2, FS_Subset
  <2> QED BY <1>2, <2>3
<1>5. place \in [S -> 1..n]
  <2> HIDE DEF n, below
  <2> QED BY <1>1, <1>2, <1>3
<1>6. \A c, d \in S : place[c] = place[d] => c = d
  <2> HIDE DEF place
  <2> QED BY <1>4, <1>5, <1>1
<1>7. place \in Injection(S, 1..n)
  BY <1>5, <1>6 DEF Injection, IsInjective
<1>8. IsFiniteSet(1..n) /\ Cardinality(1..n) = n
  BY <1>1, FS_Interval
<1>9. place \in Surjection(S, 1..n)
  BY <1>7, <1>8, FS_Injection
<1>10. \A i \in 1..n : \E c \in S : place[c] = i
  BY <1>9 DEF Surjection
<1> DEFINE p == [i \in 1..n |-> CHOOSE c \in S : place[c] = i]
<1> HIDE DEF place
<1>11. \A i \in 1..n : p[i] \in S /\ place[p[i]] = i
  BY <1>10
<1> HIDE DEF p
<1>12. \A i, j \in 1..n : i < j => p[i] < p[j]
  <2> SUFFICES ASSUME NEW i \in 1..n, NEW j \in 1..n, i < j, ~(p[i] < p[j])
               PROVE  FALSE
    OBVIOUS
  <2>0. p[i] \in Int /\ p[j] \in Int
    BY <1>0, <1>11
  <2>1. p[j] < p[i] \/ p[j] = p[i]
    BY <2>0
  <2>2. place[p[j]] < place[p[i]] \/ p[j] = p[i]
    BY <1>4, <1>11, <2>1
  <2> QED BY <1>11, <2>2
<1>13. p \in [1..n -> S]
  BY <1>11 DEF p
<1> QED BY <1>12, <1>13

LEMMA AscendingFacts ==
  ASSUME NEW S \in SUBSET Int, IsFiniteSet(S)
  PROVE  /\ Cardinality(S) \in Nat
         /\ Ascending(S) \in [1..Cardinality(S) -> S]
         /\ \A i, j \in 1..Cardinality(S) : Ascending(S)[i] = Ascending(S)[j] => i = j
         /\ \A x \in S : \E i \in 1..Cardinality(S) : Ascending(S)[i] = x
<1> DEFINE n == Cardinality(S)
           p == Ascending(S)
<1>1. n \in Nat
  BY FS_CardinalityType
<1>2. p \in [1..n -> S] /\ \A i, j \in 1..n : i < j => p[i] < p[j]
  BY AscendingExists DEF Ascending
<1> HIDE DEF n, p
<1>3. \A i, j \in 1..n : p[i] = p[j] => i = j
  <2> SUFFICES ASSUME NEW i \in 1..n, NEW j \in 1..n, p[i] = p[j], i # j
               PROVE  FALSE
    OBVIOUS
  <2>1. p[i] \in Int
    BY <1>2
  <2>2. i < j \/ j < i
    OBVIOUS
  <2> QED BY <1>2, <2>1, <2>2
<1>4. p \in Injection(1..n, S)
  BY <1>2, <1>3 DEF Injection, IsInjective
<1>5. IsFiniteSet(1..n) /\ Cardinality(1..n) = n
  BY <1>1, FS_Interval
<1>6. p \in Surjection(1..n, S)
  BY <1>4, <1>5, FS_Injection DEF n
<1>7. \A x \in S : \E i \in 1..n : p[i] = x
  BY <1>6 DEF Surjection
<1> QED BY <1>1, <1>2, <1>3, <1>7 DEF n, p

-----------------------------------------------------------------------------
(* What the operations on a list do to the entries under one code. *)
Link == [code : Code, url : 1..MaxWrites]
At(list, c) == {i \in DOMAIN list : list[i].code = c}
Urls(list, c) == {list[i].url : i \in At(list, c)}
Once(list, c) == \A i, j \in At(list, c) : i = j
Same(list, new, c) == Urls(new, c) = Urls(list, c) /\ (Once(list, c) => Once(new, c))

LEMMA UrlsFacts == \A list, c : At(list, c) # {} <=> Urls(list, c) # {}
BY DEF Urls

(* A list is a function on an interval to links. *)
LEMMA ListFacts ==
  /\ \A list \in Seq(Link) : /\ Len(list) \in Nat /\ DOMAIN list = 1..Len(list)
                             /\ \A i \in DOMAIN list : list[i] \in Link
  /\ \A n \in Nat : \A list \in [1..n -> Link] : list \in Seq(Link)
  /\ \A list \in Seq(Link) : IsFiniteSet(DOMAIN list) /\ DOMAIN list \in SUBSET Int
<1>1. \A list \in Seq(Link) : /\ Len(list) \in Nat /\ DOMAIN list = 1..Len(list)
                               /\ \A i \in DOMAIN list : list[i] \in Link
  OBVIOUS
<1>2. \A n \in Nat : \A list \in [1..n -> Link] : list \in Seq(Link)
  OBVIOUS
<1>3. \A list \in Seq(Link) : IsFiniteSet(DOMAIN list) /\ DOMAIN list \in SUBSET Int
  BY <1>1, FS_Interval
<1> QED BY <1>1, <1>2, <1>3

(* Keep: what is kept whole is the same, what is dropped is gone. *)
LEMMA KeepFacts ==
  ASSUME links \in Seq(Link), NEW S \in SUBSET DOMAIN links
  PROVE  /\ Keep(S) \in Seq(Link)
         /\ \A c : At(links, c) \subseteq S => Same(links, Keep(S), c)
         /\ \A c : At(links, c) \cap S = {} => Urls(Keep(S), c) = {} /\ Once(Keep(S), c)
         /\ \A c : Once(links, c) => Once(Keep(S), c)
<1> DEFINE n == Cardinality(S)
           p == Ascending(S)
           new == Keep(S)
<1>1. S \in SUBSET Int /\ IsFiniteSet(S)
  BY ListFacts, FS_Subset
<1>2. /\ n \in Nat /\ p \in [1..n -> S]
      /\ \A i, j \in 1..n : p[i] = p[j] => i = j
      /\ \A x \in S : \E i \in 1..n : p[i] = x
  BY <1>1, AscendingFacts
<1>3. new = [i \in 1..n |-> links[p[i]]]
  BY DEF Keep
<1> HIDE DEF n, p, new
<1>4. \A x \in DOMAIN links : links[x] \in Link
  BY ListFacts
<1>5. DOMAIN new = 1..n /\ \A i \in 1..n : new[i] = links[p[i]] /\ p[i] \in S
  BY <1>2, <1>3
<1>6. new \in Seq(Link)
  <2>1. new \in [1..n -> Link]
    BY <1>2, <1>3, <1>4
  <2> QED BY <1>2, <2>1, ListFacts
<1>7. \A c : \A i \in At(new, c) : p[i] \in At(links, c) \cap S
  BY <1>5 DEF At
<1>8. \A c : \A x \in At(links, c) \cap S : \E i \in At(new, c) : p[i] = x
  BY <1>2, <1>5 DEF At
<1>9. \A c : Once(links, c) => Once(new, c)
  <2> SUFFICES ASSUME NEW c, Once(links, c), NEW i \in At(new, c), NEW j \in At(new, c)
               PROVE  i = j
    BY DEF Once
  <2>1. p[i] = p[j]
    BY <1>7 DEF Once
  <2>2. i \in 1..n /\ j \in 1..n
    BY <1>5 DEF At
  <2> QED BY <1>2, <2>1, <2>2
<1>10. ASSUME NEW c, At(links, c) \subseteq S
       PROVE  Urls(new, c) = Urls(links, c)
  <2>1. ASSUME NEW u \in Urls(new, c) PROVE u \in Urls(links, c)
    <3>1. PICK i \in At(new, c) : new[i].url = u
      BY <2>1 DEF Urls
    <3>2. p[i] \in At(links, c) /\ links[p[i]].url = u
      BY <3>1, <1>5, <1>7 DEF At
    <3> QED BY <3>2 DEF Urls
  <2>2. ASSUME NEW u \in Urls(links, c) PROVE u \in Urls(new, c)
    <3>1. PICK x \in At(links, c) : links[x].url = u
      BY <2>2 DEF Urls
    <3>2. PICK i \in At(new, c) : p[i] = x
      BY <1>8, <1>10
    <3>3. new[i].url = u
      BY <3>1, <3>2, <1>5 DEF At
    <3> QED BY <3>2, <3>3 DEF Urls
  <2> QED BY <2>1, <2>2
<1>11. ASSUME NEW c, At(links, c) \cap S = {}
       PROVE  Urls(new, c) = {} /\ Once(new, c)
  <2>1. At(new, c) = {}
    BY <1>7, <1>11
  <2> QED BY <2>1 DEF Urls, Once
<1> QED BY <1>6, <1>9, <1>10, <1>11 DEF Same, new

(* Replacing the first entry under a code leaves the other codes alone. *)
Replaced(e, really) ==
  [i \in DOMAIN links |-> IF really /\ i \in First(e.code) THEN e ELSE links[i]]

LEMMA ReplaceFacts ==
  ASSUME links \in Seq(Link), NEW e \in Link, NEW really \in BOOLEAN, NEW new, new = Replaced(e, really)
  PROVE  /\ new \in Seq(Link)
         /\ \A c : At(new, c) = At(links, c)
         /\ \A c : c # e.code => Same(links, new, c)
         /\ \A c : Once(links, c) => Once(new, c)
         /\ ~really => new = links
         /\ really /\ Once(links, e.code) => Urls(new, e.code) \subseteq {e.url}
<1>1. /\ Len(links) \in Nat /\ DOMAIN links = 1..Len(links)
      /\ \A i \in DOMAIN links : links[i] \in Link
  BY ListFacts
<1>2. /\ DOMAIN new = DOMAIN links
      /\ \A i \in DOMAIN links : new[i] = IF really /\ i \in First(e.code) THEN e ELSE links[i]
  BY DEF Replaced
<1>3. new \in Seq(Link)
  <2>1. new \in [1..Len(links) -> Link]
    BY <1>1 DEF Replaced
  <2> QED BY <1>1, <2>1, ListFacts
<1>4. First(e.code) \subseteq At(links, e.code) /\ \A i \in First(e.code) : links[i].code = e.code
  BY DEF First, Position, At
<1>5. \A c : At(new, c) = At(links, c)
  <2>1. \A i \in DOMAIN links : new[i].code = links[i].code
    BY <1>2, <1>4
  <2> QED BY <1>2, <2>1 DEF At
<1>6. \A c : Once(links, c) => Once(new, c)
  BY <1>5 DEF Once
<1>7. ASSUME NEW c, c # e.code PROVE Urls(new, c) = Urls(links, c)
  <2>1. \A i \in At(links, c) : new[i] = links[i]
    BY <1>2, <1>4, <1>7 DEF At
  <2> QED BY <1>5, <2>1 DEF Urls
<1>8. ~really => new = links
  BY <1>1, <1>2 DEF Replaced
<1>9. ASSUME really, Once(links, e.code) PROVE Urls(new, e.code) \subseteq {e.url}
  <2>1. At(links, e.code) \subseteq First(e.code)
    BY <1>1, <1>9 DEF First, Position, At, Once
  <2>2. \A i \in At(new, e.code) : new[i] = e
    BY <1>2, <1>5, <1>9, <2>1 DEF At
  <2> QED BY <2>2 DEF Urls
<1> QED BY <1>3, <1>5, <1>6, <1>7, <1>8, <1>9 DEF Same

(* A list after another: each code has the entries of both. *)
LEMMA ConcatFacts ==
  ASSUME NEW s \in Seq(Link), NEW t \in Seq(Link)
  PROVE  /\ s \o t \in Seq(Link)
         /\ \A c : Urls(s \o t, c) = Urls(s, c) \cup Urls(t, c)
         /\ \A c : Once(s, c) /\ Once(t, c) /\ (Urls(s, c) = {} \/ Urls(t, c) = {}) => Once(s \o t, c)
<1> DEFINE m == Len(s)
           n == Len(t)
           new == s \o t
<1>1. new \in Seq(Link)
  OBVIOUS
<1>2. /\ m \in Nat /\ n \in Nat /\ Len(new) = m + n /\ DOMAIN new = 1..(m + n)
      /\ DOMAIN s = 1..m /\ DOMAIN t = 1..n
      /\ \A i \in 1..(m + n) : new[i] = IF i <= m THEN s[i] ELSE t[i - m]
  OBVIOUS
<1> HIDE DEF m, n, new
<1>3. ASSUME NEW c PROVE Urls(new, c) = Urls(s, c) \cup Urls(t, c)
  <2>1. ASSUME NEW i \in At(new, c) PROVE new[i].url \in Urls(s, c) \cup Urls(t, c)
    <3>1. i \in 1..(m + n) /\ new[i].code = c
      BY <1>2 DEF At
    <3>2. CASE i <= m
      <4>1. i \in At(s, c) /\ new[i] = s[i]
        BY <1>2, <3>1, <3>2 DEF At
      <4> QED BY <4>1 DEF Urls
    <3>3. CASE ~(i <= m)
      <4>1. i - m \in At(t, c) /\ new[i] = t[i - m]
        BY <1>2, <3>1, <3>3 DEF At
      <4> QED BY <4>1 DEF Urls
    <3> QED BY <3>2, <3>3
  <2>2. ASSUME NEW i \in At(s, c) PROVE s[i].url \in Urls(new, c)
    <3>1. i \in At(new, c) /\ new[i] = s[i]
      BY <1>2 DEF At
    <3> QED BY <3>1 DEF Urls
  <2>3. ASSUME NEW i \in At(t, c) PROVE t[i].url \in Urls(new, c)
    <3>1. i + m \in At(new, c) /\ new[i + m] = t[i]
      BY <1>2 DEF At
    <3> QED BY <3>1 DEF Urls
  <2> QED BY <2>1, <2>2, <2>3 DEF Urls
<1>4. ASSUME NEW c, Once(s, c), Once(t, c), Urls(s, c) = {} \/ Urls(t, c) = {}
      PROVE  Once(new, c)
  <2> SUFFICES ASSUME NEW i \in At(new, c), NEW j \in At(new, c) PROVE i = j
    BY DEF Once
  <2>1. At(s, c) = {} \/ At(t, c) = {}
    BY <1>4 DEF Urls
  <2>2. /\ i \in At(s, c) \/ i - m \in At(t, c)
        /\ j \in At(s, c) \/ j - m \in At(t, c)
    BY <1>2 DEF At
  <2>3. CASE i \in At(s, c) /\ j \in At(s, c)
    BY <2>3, <1>4 DEF Once
  <2>4. CASE i - m \in At(t, c) /\ j - m \in At(t, c)
    <3>1. i - m = j - m
      BY <2>4, <1>4 DEF Once
    <3>2. i \in Int /\ j \in Int
      BY <1>2 DEF At
    <3> QED BY <1>2, <3>1, <3>2
  <2> QED BY <2>1, <2>2, <2>3, <2>4
<1> QED BY <1>1, <1>3, <1>4 DEF new

(* A new entry at the front. *)
LEMMA PrependFacts ==
  ASSUME links \in Seq(Link), NEW e \in Link
  PROVE  /\ <<e>> \o links \in Seq(Link)
         /\ \A c : c # e.code => Same(links, <<e>> \o links, c)
         /\ Urls(links, e.code) = {} =>
              Once(<<e>> \o links, e.code) /\ Urls(<<e>> \o links, e.code) = {e.url}
<1> DEFINE s == <<e>>
<1>1. s \in Seq(Link) /\ DOMAIN s = {1} /\ s[1] = e
  OBVIOUS
<1> HIDE DEF s
<1>2. At(s, e.code) = {1} /\ \A c : c # e.code => At(s, c) = {}
  BY <1>1 DEF At
<1>3. \A c : Once(s, c)
  BY <1>2 DEF Once
<1>4. Urls(s, e.code) = {e.url} /\ \A c : c # e.code => Urls(s, c) = {}
  BY <1>1, <1>2 DEF Urls
<1>5. /\ s \o links \in Seq(Link)
      /\ \A c : Urls(s \o links, c) = Urls(s, c) \cup Urls(links, c)
      /\ \A c : Once(links, c) /\ (Urls(s, c) = {} \/ Urls(links, c) = {}) => Once(s \o links, c)
  BY <1>1, <1>3, ConcatFacts
<1>6. Urls(links, e.code) = {} => Once(links, e.code)
  BY DEF Urls, Once
<1> QED BY <1>4, <1>5, <1>6 DEF Same, s

(* A page has each of its codes once. *)
PageOf(at, seen) == [i \in 1..Cardinality(at) |-> Entry(Ascending(at)[i], seen[Ascending(at)[i]])]

LEMMA PageFacts ==
  ASSUME NEW at \in SUBSET Code, NEW seen, \A c \in at : seen[c] \in 1..MaxWrites, NEW list,
         list = PageOf(at, seen)
  PROVE  /\ list \in Seq(Link)
         /\ \A c : Once(list, c)
         /\ \A c \in at : Urls(list, c) = {seen[c]}
         /\ \A c : c \notin at => Urls(list, c) = {}
<1> DEFINE n == Cardinality(at)
           p == Ascending(at)
<1>1. at \in SUBSET Int /\ IsFiniteSet(at)
  <2>1. IsFiniteSet(Code) /\ Code \in SUBSET Int
    BY FS_Interval, DashboardAssumption DEF Code
  <2> QED BY <2>1, FS_Subset
<1>2. /\ n \in Nat /\ p \in [1..n -> at]
      /\ \A i, j \in 1..n : p[i] = p[j] => i = j
      /\ \A x \in at : \E i \in 1..n : p[i] = x
  BY <1>1, AscendingFacts
<1>3. list = [i \in 1..n |-> Entry(p[i], seen[p[i]])]
  BY DEF PageOf
<1> HIDE DEF n, p
<1>4. DOMAIN list = 1..n /\ \A i \in 1..n : list[i] = Entry(p[i], seen[p[i]])
  BY <1>3
<1>5. \A i \in 1..n : p[i] \in at /\ list[i].code = p[i] /\ list[i].url = seen[p[i]]
  <2> TAKE i \in 1..n
  <2>1. p[i] \in at
    BY <1>2
  <2> QED BY <1>4, <2>1 DEF Entry
<1>6. \A c : Once(list, c)
  <2> SUFFICES ASSUME NEW c, NEW i \in At(list, c), NEW j \in At(list, c) PROVE i = j
    BY DEF Once
  <2>1. i \in 1..n /\ j \in 1..n /\ p[i] = p[j]
    BY <1>4, <1>5 DEF At
  <2> QED BY <1>2, <2>1
<1>7. ASSUME NEW c \in at PROVE Urls(list, c) = {seen[c]}
  <2>1. \A i \in At(list, c) : list[i].url = seen[c]
    <3> TAKE i \in At(list, c)
    <3>1. i \in 1..n /\ list[i].code = c
      BY <1>4 DEF At
    <3> QED BY <1>5, <3>1
  <2>2. PICK i \in 1..n : p[i] = c
    BY <1>2
  <2>3. i \in At(list, c)
    BY <1>4, <1>5, <2>2 DEF At
  <2> QED BY <2>1, <2>3 DEF Urls
<1>8. ASSUME NEW c, c \notin at PROVE Urls(list, c) = {}
  <2>1. At(list, c) = {}
    BY <1>4, <1>5, <1>8 DEF At
  <2> QED BY <2>1 DEF Urls
<1>9. list \in Seq(Link)
  <2>1. \A i \in 1..n : Entry(p[i], seen[p[i]]) \in Link
    <3> TAKE i \in 1..n
    <3>1. p[i] \in Code /\ seen[p[i]] \in 1..MaxWrites
      BY <1>5
    <3> QED BY <3>1 DEF Entry, Link
  <2>2. list \in [1..n -> Link]
    BY <1>3, <2>1
  <2> QED BY <1>2, <2>2, ListFacts
<1> QED BY <1>6, <1>7, <1>8, <1>9
-----------------------------------------------------------------------------
(* The inductive invariant. *)

(* Calls and the form are about a code, and an answer to a write tells of it. *)
Sensible ==
  /\ edit # NoEdit => edit.code \in Code
  /\ \A k \in Calls :
       /\ call[k].kind \in {"post", "put", "delete"} => call[k].code \in Code
       /\ call[k].kind \in {"load", "reload"} => call[k].code = 0
       /\ call[k].form => call[k].kind = "put"
       /\ call[k].ok /\ call[k].kind = "delete" => call[k].seen[call[k].code] = 0

(* The last commit on its way about a code is what the repository holds. *)
FeedCatchesUp ==
  \A i \in DOMAIN feed :
    (\A j \in DOMAIN feed : i < j => feed[j].code # feed[i].code) => feed[i].url = repo[feed[i].code]

(* An answer on its way is right, or will be corrected, or has missed it. *)
AnswersHold ==
  \A k \in Calls : call[k].ok =>
    \A c \in Scope(call[k]) :
      call[k].seen[c] = repo[c] \/ Pending(c) \/ c \in call[k].missed

(* A repointing's answer finds the link its form was opened on in the list only
   while its own commit is on its way, or was lost. *)
EchoComes ==
  \A k \in Calls :
    call[k].ok /\ call[k].kind = "put" /\ call[k].listed => Pending(call[k].code) \/ call[k].code \in doubt

(* What the list says about a code. *)
Right(c) ==
  /\ Urls(links, c) \subseteq {repo[c]}
  /\ repo[c] # 0 /\ Reached(c) => Urls(links, c) # {}

ListHolds == \A c \in Code \ doubt : Pending(c) \/ Right(c)

Inv == TypeOK /\ Sensible /\ FeedCatchesUp /\ AnswersHold /\ EchoComes /\ ListHolds

-----------------------------------------------------------------------------
(* The commits on their way. *)
LEMMA CommitFacts ==
  ASSUME TypeOK, FeedCatchesUp, NEW c \in Code, NEW url \in 0..MaxWrites, Commit(c, url)
  PROVE  /\ feed' \in Seq([code : Code, url : 0..MaxWrites]) /\ FeedCatchesUp'
         /\ \A d : Pending(d)' <=> Pending(d) \/ d = c
         /\ repo' \in [Code -> 0..MaxWrites] /\ repo'[c] = url
         /\ \A d \in Code : d # c => repo'[d] = repo[d]
<1> DEFINE n == Len(feed)
<1>1. feed \in Seq([code : Code, url : 0..MaxWrites]) /\ repo \in [Code -> 0..MaxWrites]
  BY DEF TypeOK
<1>2. n \in Nat /\ DOMAIN feed = 1..n /\ \A i \in 1..n : feed[i].code \in Code
  <2>1. n \in Nat /\ DOMAIN feed = 1..n
    BY <1>1, LenProperties
  <2>2. \A i \in 1..n : feed[i] \in [code : Code, url : 0..MaxWrites]
    BY <1>1, ElementOfSeq
  <2> QED BY <2>1, <2>2
<1>3. Entry(c, url) \in [code : Code, url : 0..MaxWrites] /\ Entry(c, url).code = c /\ Entry(c, url).url = url
  BY DEF Entry
<1>4. feed' \in Seq([code : Code, url : 0..MaxWrites])
  BY <1>1, <1>3 DEF Commit
<1>5. /\ DOMAIN feed' = 1..(n + 1) /\ feed'[n + 1] = Entry(c, url)
      /\ \A i \in 1..n : feed'[i] = feed[i]
  <2>1. feed' = Append(feed, Entry(c, url))
    BY DEF Commit
  <2>2. /\ Len(feed') = n + 1 /\ feed'[n + 1] = Entry(c, url)
        /\ \A i \in 1..n : feed'[i] = feed[i]
    BY <1>1, <1>3, <2>1, AppendProperties
  <2>3. DOMAIN feed' = 1..Len(feed')
    BY <1>4, LenProperties
  <2> QED BY <2>2, <2>3
<1>6. /\ repo' \in [Code -> 0..MaxWrites] /\ repo'[c] = url
      /\ \A d \in Code : d # c => repo'[d] = repo[d]
  BY <1>1 DEF Commit
<1> HIDE DEF n
<1>7. \A d : Pending(d)' <=> Pending(d) \/ d = c
  <2> TAKE d
  <2>1. ASSUME Pending(d)' PROVE Pending(d) \/ d = c
    <3>1. PICK i \in DOMAIN feed' : feed'[i].code = d
      BY <2>1 DEF Pending
    <3>2. CASE i = n + 1
      BY <3>1, <3>2, <1>3, <1>5
    <3>3. CASE i # n + 1
      <4>1. i \in 1..n /\ feed[i].code = d
        BY <3>1, <3>3, <1>2, <1>5
      <4> QED BY <4>1, <1>2 DEF Pending
    <3> QED BY <3>2, <3>3
  <2>2. ASSUME Pending(d) PROVE Pending(d)'
    <3>1. PICK i \in 1..n : feed[i].code = d
      BY <2>2, <1>2 DEF Pending
    <3>2. i \in DOMAIN feed' /\ feed'[i].code = d
      BY <3>1, <1>2, <1>5
    <3> QED BY <3>2 DEF Pending
  <2>3. ASSUME d = c PROVE Pending(d)'
    <3>1. n + 1 \in DOMAIN feed' /\ feed'[n + 1].code = d
      BY <2>3, <1>2, <1>3, <1>5
    <3> QED BY <3>1 DEF Pending
  <2> QED BY <2>1, <2>2, <2>3
<1>8. FeedCatchesUp'
  <2> SUFFICES ASSUME NEW i \in DOMAIN feed',
                      \A j \in DOMAIN feed' : i < j => feed'[j].code # feed'[i].code
               PROVE  feed'[i].url = repo'[feed'[i].code]
    BY DEF FeedCatchesUp
  <2>1. CASE i = n + 1
    BY <2>1, <1>3, <1>5, <1>6
  <2>2. CASE i # n + 1
    <3>1. i \in 1..n /\ feed'[i] = feed[i] /\ i < n + 1
      BY <2>2, <1>2, <1>5
    <3>2. feed[i].code # c /\ feed[i].code \in Code
      BY <3>1, <1>2, <1>3, <1>5
    <3>3. \A j \in DOMAIN feed : i < j => feed[j].code # feed[i].code
      BY <3>1, <1>2, <1>5
    <3>4. feed[i].url = repo[feed[i].code]
      BY <3>1, <3>3, <1>2 DEF FeedCatchesUp
    <3> QED BY <3>1, <3>2, <3>4, <1>6
  <2> QED BY <2>1, <2>2
<1> QED BY <1>4, <1>6, <1>7, <1>8

(* A commit leaves the feed: it was the last of its code or another one is
   still to come. *)
LEMMA GoneFacts ==
  ASSUME TypeOK, FeedCatchesUp, feed # <<>>, feed' = Tail(feed), repo' = repo
  PROVE  /\ Head(feed) \in [code : Code, url : 0..MaxWrites]
         /\ feed' \in Seq([code : Code, url : 0..MaxWrites]) /\ FeedCatchesUp'
         /\ Len(feed') < Len(feed)
         /\ \A d : Pending(d)' => Pending(d)
         /\ \A d : Pending(d) /\ d # Head(feed).code => Pending(d)'
         /\ \A d : d = Head(feed).code => Pending(d)' \/ repo[d] = Head(feed).url
<1> DEFINE n == Len(feed)
<1>1. feed \in Seq([code : Code, url : 0..MaxWrites])
  BY DEF TypeOK
<1>2. n \in Nat /\ n # 0 /\ DOMAIN feed = 1..n /\ Head(feed) = feed[1]
  BY <1>1
<1>3. /\ feed' \in Seq([code : Code, url : 0..MaxWrites])
      /\ Head(feed) \in [code : Code, url : 0..MaxWrites]
  BY <1>1, HeadTailProperties
<1>4. /\ Len(feed') = n - 1 /\ DOMAIN feed' = 1..(n - 1)
      /\ \A i \in 1..(n - 1) : feed'[i] = feed[i + 1]
  <2>1. Len(feed') = n - 1 /\ \A i \in 1..Len(feed') : feed'[i] = feed[i + 1]
    BY <1>1, HeadTailProperties
  <2>2. DOMAIN feed' = 1..Len(feed')
    BY <1>3, LenProperties
  <2> QED BY <2>1, <2>2
<1> HIDE DEF n
<1>5. \A d : Pending(d)' => Pending(d)
  <2> SUFFICES ASSUME NEW d, NEW i \in DOMAIN feed', feed'[i].code = d PROVE Pending(d)
    BY DEF Pending
  <2>1. i + 1 \in DOMAIN feed /\ feed[i + 1].code = d
    BY <1>2, <1>4
  <2> QED BY <2>1 DEF Pending
<1>6. \A d : \A i \in 2..n : feed[i].code = d => Pending(d)'
  <2> SUFFICES ASSUME NEW d, NEW i \in 2..n, feed[i].code = d PROVE Pending(d)'
    OBVIOUS
  <2>1. i - 1 \in DOMAIN feed' /\ feed'[i - 1].code = d
    BY <1>2, <1>4
  <2> QED BY <2>1 DEF Pending
<1>7. \A d : Pending(d) /\ d # Head(feed).code => Pending(d)'
  <2> SUFFICES ASSUME NEW d, d # Head(feed).code, NEW i \in DOMAIN feed, feed[i].code = d
               PROVE  Pending(d)'
    BY DEF Pending
  <2>1. i \in 2..n
    BY <1>2
  <2> QED BY <2>1, <1>6
<1>8. \A d : d = Head(feed).code => Pending(d)' \/ repo[d] = Head(feed).url
  <2> SUFFICES ASSUME NEW d, d = Head(feed).code, ~Pending(d)' PROVE repo[d] = Head(feed).url
    OBVIOUS
  <2>1. \A i \in 2..n : feed[i].code # feed[1].code
    BY <1>2, <1>6
  <2>2. 1 \in DOMAIN feed /\ \A j \in DOMAIN feed : 1 < j => feed[j].code # feed[1].code
    BY <1>2, <2>1
  <2> QED BY <1>2, <2>2 DEF FeedCatchesUp
<1>9. FeedCatchesUp'
  <2> SUFFICES ASSUME NEW i \in DOMAIN feed',
                      \A j \in DOMAIN feed' : i < j => feed'[j].code # feed'[i].code
               PROVE  feed'[i].url = repo'[feed'[i].code]
    BY DEF FeedCatchesUp
  <2>1. i + 1 \in DOMAIN feed /\ feed[i + 1] = feed'[i]
    BY <1>2, <1>4
  <2>2. ASSUME NEW j \in DOMAIN feed, i + 1 < j PROVE feed[j].code # feed[i + 1].code
    <3>1. j - 1 \in DOMAIN feed' /\ i < j - 1 /\ feed'[j - 1] = feed[j]
      BY <1>2, <1>4, <2>2
    <3> QED BY <2>1, <3>1
  <2>3. feed[i + 1].url = repo[feed[i + 1].code]
    BY <2>1, <2>2 DEF FeedCatchesUp
  <2> QED BY <2>1, <2>3
<1>10. Len(feed') < Len(feed)
  BY <1>2, <1>4 DEF n
<1> QED BY <1>3, <1>5, <1>7, <1>8, <1>9, <1>10
-----------------------------------------------------------------------------
(* Calls. *)

(* The same answer, or the same lack of one. *)
SameAnswer(d, e) ==
  /\ e.kind = d.kind /\ e.code = d.code /\ e.ok = d.ok /\ e.next = d.next
  /\ e.seen = d.seen /\ e.missed = d.missed

Alike(d, e) == SameAnswer(d, e) /\ e.listed = d.listed /\ e.form = d.form

(* A call that is not answered yet, or not in flight. *)
Fresh(d) ==
  /\ ~d.ok
  /\ d.kind \in {"post", "put", "delete"} => d.code \in Code
  /\ d.kind \in {"load", "reload"} => d.code = 0
  /\ d.listed => Position(d.code) # {}
  /\ d.form => d.kind = "put" /\ edit = [code |-> d.code, listed |-> d.listed]

LEMMA CallFacts ==
  ASSUME NEW kind \in Listing \cup {"none", "post", "put", "delete"}, NEW c \in 0..Codes,
         NEW listed \in BOOLEAN
  PROVE  /\ Call(kind, c, listed) \in CallType /\ ~Call(kind, c, listed).ok
         /\ Call(kind, c, listed).kind = kind /\ Call(kind, c, listed).code = c
         /\ Call(kind, c, listed).listed = listed
         /\ Call(kind, c, listed).form <=> kind = "put"
<1>1. [d \in Code |-> 0] \in [Code -> 0..MaxWrites] /\ 0 \in 0..Codes /\ {} \in SUBSET Code
  BY DashboardAssumption
<1>2. (kind = "put") \in BOOLEAN
  OBVIOUS
<1>3. Call(kind, c, listed) \in CallType
  BY <1>1, <1>2 DEF Call, CallType
<1>4. Call(kind, c, listed).kind = kind /\ Call(kind, c, listed).code = c
  BY DEF Call
<1>5. ~Call(kind, c, listed).ok /\ Call(kind, c, listed).listed = listed
  BY Zenon DEF Call
<1>6. Call(kind, c, listed).form <=> kind = "put"
  BY Zenon DEF Call
<1> QED BY <1>3, <1>4, <1>5, <1>6

LEMMA IdleFacts == Idle \in CallType /\ Idle.kind = "none" /\ ~Idle.form /\ ~Idle.ok /\ ~Idle.listed /\ Fresh(Idle)
<1>1. 0 \in 0..Codes /\ FALSE \in BOOLEAN
  BY DashboardAssumption
<1>2. "none" \in Listing \cup {"none", "post", "put", "delete"} /\ "none" # "put"
  OBVIOUS
<1>3. /\ Idle \in CallType /\ ~Idle.ok /\ Idle.kind = "none"
      /\ Idle.listed = FALSE /\ (Idle.form <=> "none" = "put")
  BY <1>1, <1>2, CallFacts, Zenon DEF Idle
<1>4. ~Idle.listed /\ ~Idle.form
  BY <1>2, <1>3, Zenon
<1> HIDE DEF Idle
<1> QED BY <1>3, <1>4 DEF Fresh

(* What Scope looks at. *)
LEMMA SameScope ==
  ASSUME NEW d, NEW e, SameAnswer(d, e)
  PROVE  Scope(e) = Scope(d)
BY DEF SameAnswer, Scope

LEMMA ScopeFacts ==
  /\ \A d : Scope(d) \subseteq Code
  /\ \A d : d.kind = "delete" /\ d.code \in Code => Scope(d) = {d.code}
BY DEF Scope, Listing

(* A callback's end clears forms and links, and nothing else. *)
LEMMA OverFacts ==
  ASSUME TypeOK, NEW k \in Calls, NEW forgotten, Over(k, forgotten)
  PROVE  /\ call' \in [Calls -> CallType] /\ call'[k] = Idle
         /\ \A d \in Calls \ {k} :
              /\ SameAnswer(call[d], call'[d]) /\ ~call'[d].form
              /\ call'[d].listed <=> call[d].listed /\ call[d].code \notin forgotten
<1> DEFINE Cleared(h) == [h EXCEPT !.form = FALSE, !.listed = @ /\ h.code \notin forgotten]
<1>1. call \in [Calls -> CallType]
  BY DEF TypeOK
<1>2. ASSUME NEW h \in CallType
      PROVE  /\ Cleared(h) \in CallType /\ SameAnswer(h, Cleared(h)) /\ ~Cleared(h).form
             /\ Cleared(h).listed <=> h.listed /\ h.code \notin forgotten
  BY DEF CallType, SameAnswer
<1>3. call' = [d \in Calls |-> IF d = k THEN Idle ELSE Cleared(call[d])]
  BY DEF Over
<1> HIDE DEF Cleared
<1>4. \A d \in Calls : call'[d] = IF d = k THEN Idle ELSE Cleared(call[d])
  BY <1>3
<1>5. call' \in [Calls -> CallType]
  BY <1>1, <1>2, <1>3, IdleFacts
<1>6. ASSUME NEW d \in Calls \ {k}
      PROVE  /\ SameAnswer(call[d], call'[d]) /\ ~call'[d].form
             /\ call'[d].listed <=> call[d].listed /\ call[d].code \notin forgotten
  <2>1. call[d] \in CallType /\ call'[d] = Cleared(call[d])
    BY <1>1, <1>4
  <2> QED BY <1>2, <2>1, Zenon
<1> QED BY <1>4, <1>5, <1>6

(* An answer tells what the repository holds then. *)
LEMMA AnswerFacts ==
  ASSUME TypeOK, NEW k \in Calls, NEW n \in 0..Codes, Answer(k, n), repo' \in [Code -> 0..MaxWrites]
  PROVE  /\ call' \in [Calls -> CallType]
         /\ \A d \in Calls : d # k => call'[d] = call[d]
         /\ call'[k].kind = call[k].kind /\ call'[k].code = call[k].code
         /\ call'[k].listed = call[k].listed /\ call'[k].form = call[k].form
         /\ \A c \in Scope(call'[k]) : call'[k].seen[c] = repo'[c]
<1> DEFINE h == call[k]
           d == [h EXCEPT !.served = TRUE, !.ok = TRUE, !.next = n]
           g == [d EXCEPT !.seen = [c \in Code |-> IF c \in Scope(d) THEN repo'[c] ELSE 0]]
<1>1. call \in [Calls -> CallType] /\ h \in CallType
  BY DEF TypeOK
<1>2. call' = [call EXCEPT ![k] = g]
  BY DEF Answer
<1> HIDE DEF h
<1>3. /\ d \in CallType /\ d.kind = h.kind /\ d.code = h.code /\ d.listed = h.listed
      /\ d.form = h.form
  BY <1>1 DEF CallType
<1> HIDE DEF d
<1>4. [c \in Code |-> IF c \in Scope(d) THEN repo'[c] ELSE 0] \in [Code -> 0..MaxWrites]
  BY DashboardAssumption
<1>5. /\ g \in CallType /\ g.kind = d.kind /\ g.code = d.code /\ g.listed = d.listed
      /\ g.form = d.form /\ g.next = d.next
      /\ g.seen = [c \in Code |-> IF c \in Scope(d) THEN repo'[c] ELSE 0]
  BY <1>3, <1>4 DEF CallType
<1>6. Scope(g) = Scope(d)
  BY <1>5 DEF Scope
<1>7. \A c \in Scope(g) : g.seen[c] = repo'[c]
  BY <1>5, <1>6, ScopeFacts
<1> HIDE DEF g
<1>8. call' \in [Calls -> CallType] /\ call'[k] = g /\ \A j \in Calls : j # k => call'[j] = call[j]
  BY <1>1, <1>2, <1>5
<1> QED BY <1>3, <1>5, <1>7, <1>8 DEF h

LEMMA ErrorFacts ==
  ASSUME TypeOK, NEW k \in Calls, Error(k)
  PROVE  /\ call' \in [Calls -> CallType]
         /\ \A d \in Calls : Alike(call[d], call'[d])
<1>1. call \in [Calls -> CallType] /\ call[k] \in CallType
  BY DEF TypeOK
<1>2. ASSUME NEW h \in CallType
      PROVE  [h EXCEPT !.served = TRUE] \in CallType /\ Alike(h, [h EXCEPT !.served = TRUE])
  BY DEF CallType, SameAnswer, Alike
<1>3. call' = [call EXCEPT ![k] = [call[k] EXCEPT !.served = TRUE]]
  BY DEF Error
<1>4. \A d \in Calls : call'[d] = IF d = k THEN [call[k] EXCEPT !.served = TRUE] ELSE call[d]
  BY <1>1, <1>3
<1>5. \A d \in Calls : Alike(call[d], call[d])
  BY DEF Alike, SameAnswer
<1>6. call' \in [Calls -> CallType]
  BY <1>1, <1>2, <1>3
<1> QED BY <1>1, <1>2, <1>4, <1>5, <1>6

(* Answers stay right while the repository and its feed do not move. *)
LEMMA AnswersStay ==
  ASSUME AnswersHold, UNCHANGED <<repo, feed>>,
         \A k \in Calls : SameAnswer(call[k], call'[k]) \/ ~call'[k].ok
  PROVE  AnswersHold'
<1> SUFFICES ASSUME NEW k \in Calls, call'[k].ok, NEW c \in Scope(call'[k])
             PROVE  call'[k].seen[c] = repo'[c] \/ Pending(c)' \/ c \in call'[k].missed
  BY DEF AnswersHold
<1>1. SameAnswer(call[k], call'[k])
  OBVIOUS
<1>2. call[k].ok /\ c \in Scope(call[k])
  BY <1>1, SameScope DEF SameAnswer
<1>3. call[k].seen[c] = repo[c] \/ Pending(c) \/ c \in call[k].missed
  BY <1>2 DEF AnswersHold
<1> QED BY <1>1, <1>3 DEF SameAnswer, Pending

LEMMA PageStays ==
  ASSUME Inv, UNCHANGED page
  PROVE  UNCHANGED <<links, cursor, rows, edit, doubt>> /\ dialog' \in 0..Codes
BY DEF Inv, TypeOK, page

(* A step of the calls and the dialog alone. *)
LEMMA CallsStep ==
  ASSUME Inv, UNCHANGED <<server, links, cursor, rows, edit, doubt>>, dialog' \in 0..Codes,
         call' \in [Calls -> CallType],
         \A k \in Calls : Alike(call[k], call'[k]) \/ Fresh(call'[k])
  PROVE  Inv'
<1>1. /\ UNCHANGED <<repo, feed, writes>>
      /\ UNCHANGED <<links, cursor, rows, edit, doubt>>
  BY DEF server
<1>2. \A c : Position(c)' = Position(c)
  BY <1>1 DEF Position
<1>3. \A k \in Calls :
        /\ call'[k].listed => Position(call'[k].code) # {}
        /\ call'[k].form => edit = [code |-> call'[k].code, listed |-> call'[k].listed]
  BY DEF Inv, TypeOK, Alike, SameAnswer, Fresh
<1>4. TypeOK'
  BY <1>1, <1>2, <1>3 DEF Inv, TypeOK
<1>5. Sensible'
  BY <1>1 DEF Inv, Sensible, Alike, SameAnswer, Fresh
<1>6. FeedCatchesUp'
  BY <1>1 DEF Inv, FeedCatchesUp
<1>7. AnswersHold'
  BY <1>1, AnswersStay DEF Inv, Alike, Fresh
<1>8. ListHolds'
  BY <1>1 DEF Inv, ListHolds, Pending, Right, Reached
<1>9. EchoComes'
  BY <1>1 DEF Inv, EchoComes, Pending, Alike, SameAnswer, Fresh
<1> QED BY <1>4, <1>5, <1>6, <1>7, <1>8, <1>9 DEF Inv

(* One call takes another's place, or none does. *)
LEMMA PlaceStep ==
  ASSUME Inv, UNCHANGED <<server, links, cursor, rows, edit, doubt>>, dialog' \in 0..Codes,
         NEW k \in Calls, NEW d \in CallType, Fresh(d), call' = [call EXCEPT ![k] = d]
  PROVE  Inv'
<1>1. call \in [Calls -> CallType]
  BY DEF Inv, TypeOK
<1>2. call' \in [Calls -> CallType] /\ \A j \in Calls : call'[j] = IF j = k THEN d ELSE call[j]
  BY <1>1
<1>3. \A j \in Calls : Alike(call[j], call'[j]) \/ Fresh(call'[j])
  BY <1>2 DEF Alike, SameAnswer
<1> QED BY <1>2, <1>3, CallsStep

LEMMA FailedStep ==
  ASSUME Inv, NEW k \in Calls, Failed(k), UNCHANGED server
  PROVE  Inv'
BY PlaceStep, IdleFacts, PageStays DEF Failed

LEMMA SendStep ==
  ASSUME Inv, UNCHANGED <<server, links, cursor, rows, edit, doubt>>, dialog' \in 0..Codes,
         NEW d \in CallType, Fresh(d), Send(d)
  PROVE  Inv'
BY PlaceStep DEF Send

(* More, Make, Save, Confirm: a call about a code, or about the cursor. *)
LEMMA MoreStep == Inv /\ More => Inv'
<1> SUFFICES ASSUME Inv, More PROVE Inv'
  OBVIOUS
<1> DEFINE d == Call("more", cursor, FALSE)
<1>1. cursor \in 0..Codes /\ "more" \in Listing /\ FALSE \in BOOLEAN
  BY DEF Inv, TypeOK, Listing
<1>2. "more" \notin {"post", "put", "delete"} /\ "more" \notin {"load", "reload"}
  OBVIOUS
<1>3. d \in CallType /\ ~d.ok /\ d.kind = "more" /\ d.listed = FALSE /\ (d.form <=> "more" = "put")
  BY <1>1, CallFacts, Zenon
<1>4. Send(d) /\ UNCHANGED <<server, page>>
  BY DEF More
<1> HIDE DEF d
<1>5. ~d.listed
  BY <1>3, Zenon
<1>6. ~d.form
  BY <1>2, <1>3, Zenon
<1>7. Fresh(d)
  BY <1>2, <1>3, <1>5, <1>6 DEF Fresh
<1> QED BY <1>3, <1>4, <1>7, SendStep, PageStays

LEMMA MakeStep == ASSUME Inv, NEW c \in Code, Make(c) PROVE Inv'
<1> DEFINE d == Call("post", c, FALSE)
<1>1. c \in 0..Codes /\ FALSE \in BOOLEAN
  BY DashboardAssumption DEF Code
<1>2. "post" # "put"
  OBVIOUS
<1>3. /\ d \in CallType /\ ~d.ok /\ d.kind = "post" /\ d.code = c /\ d.listed = FALSE
      /\ (d.form <=> "post" = "put")
  BY <1>1, CallFacts, Zenon
<1>4. Send(d) /\ UNCHANGED <<server, page>>
  BY DEF Make
<1> HIDE DEF d
<1>5. ~d.listed /\ ~d.form
  BY <1>2, <1>3, Zenon
<1>6. Fresh(d)
  BY <1>3, <1>5 DEF Fresh
<1> QED BY <1>3, <1>4, <1>6, SendStep, PageStays

(* The dialog opens and closes. *)
LEMMA DialogStep ==
  ASSUME Inv, UNCHANGED <<server, links, cursor, rows, edit, doubt, call>>, dialog' \in 0..Codes
  PROVE  Inv'
<1>1. call' \in [Calls -> CallType] /\ \A k \in Calls : Alike(call[k], call'[k])
  BY DEF Inv, TypeOK, Alike, SameAnswer
<1> QED BY <1>1, CallsStep

LEMMA AskDeleteStep == ASSUME Inv, NEW c \in Code, AskDelete(c) PROVE Inv'
<1>1. dialog' \in 0..Codes
  BY DashboardAssumption DEF AskDelete, Code
<1> QED BY <1>1, DialogStep DEF AskDelete

LEMMA DismissStep == Inv /\ Dismiss => Inv'
<1> SUFFICES ASSUME Inv, Dismiss PROVE Inv'
  OBVIOUS
<1>1. dialog' \in 0..Codes
  BY DashboardAssumption DEF Dismiss
<1> QED BY <1>1, DialogStep DEF Dismiss

LEMMA ConfirmStep == Inv /\ Confirm => Inv'
<1> SUFFICES ASSUME Inv, Confirm PROVE Inv'
  OBVIOUS
<1> DEFINE c == dialog
           d == Call("delete", c, FALSE)
<1>1. c \in 0..Codes /\ c \in Code /\ FALSE \in BOOLEAN
  BY DashboardAssumption DEF Inv, TypeOK, Confirm, Code
<1>2. "delete" # "put"
  OBVIOUS
<1>3. /\ d \in CallType /\ ~d.ok /\ d.kind = "delete" /\ d.code = c /\ d.listed = FALSE
      /\ (d.form <=> "delete" = "put")
  BY <1>1, CallFacts, Zenon
<1>4. Send(d) /\ UNCHANGED <<server, links, cursor, rows, edit, doubt>> /\ dialog' \in 0..Codes
  <2>1. dialog' \in 0..Codes
    BY DashboardAssumption DEF Confirm
  <2>2. Send(d) /\ UNCHANGED <<server, links, cursor, rows, edit, doubt>>
    BY DEF Confirm
  <2> QED BY <2>1, <2>2
<1> HIDE DEF c, d
<1>5. ~d.listed /\ ~d.form
  BY <1>2, <1>3, Zenon
<1>6. Fresh(d)
  BY <1>1, <1>3, <1>5 DEF Fresh
<1> QED BY <1>3, <1>4, <1>6, SendStep

LEMMA SaveStep == Inv /\ Save => Inv'
<1> SUFFICES ASSUME Inv, Save PROVE Inv'
  OBVIOUS
<1> DEFINE d == Call("put", edit.code, edit.listed)
<1>1. /\ edit \in [code : 0..Codes, listed : BOOLEAN] /\ edit.code \in Code
      /\ edit.listed => Position(edit.code) # {}
  BY DEF Inv, TypeOK, Sensible, Save
<1>2. edit.code \in 0..Codes /\ edit.listed \in BOOLEAN
  BY <1>1
<1>3. /\ d \in CallType /\ ~d.ok /\ d.kind = "put" /\ d.code = edit.code
      /\ d.listed = edit.listed
  <2>1. ASSUME NEW c \in 0..Codes, NEW listed \in BOOLEAN
        PROVE  /\ Call("put", c, listed) \in CallType /\ ~Call("put", c, listed).ok
               /\ Call("put", c, listed).kind = "put" /\ Call("put", c, listed).code = c
               /\ Call("put", c, listed).listed = listed
    BY CallFacts
  <2> QED BY <1>2, <2>1, Zenon
<1>4. Send(d) /\ UNCHANGED <<server, page>>
  BY DEF Save
<1> HIDE DEF d
<1>5. edit = [code |-> d.code, listed |-> d.listed]
  BY <1>1, <1>3
<1>6. Fresh(d)
  BY <1>1, <1>3, <1>5 DEF Fresh
<1> QED BY <1>3, <1>4, <1>6, SendStep, PageStays

LEMMA MadeAnswerStep == ASSUME Inv, NEW k \in Calls, MadeAnswer(k) PROVE Inv'
<1> DEFINE d == IF call[k].ok THEN Call("reload", 0, FALSE) ELSE Idle
           r == Call("reload", 0, FALSE)
<1>1. 0 \in 0..Codes /\ FALSE \in BOOLEAN /\ "reload" \in Listing
  BY DashboardAssumption DEF Listing
<1>2. "reload" # "put" /\ "reload" \notin {"post", "put", "delete"}
  OBVIOUS
<1>3. /\ r \in CallType /\ ~r.ok /\ r.kind = "reload" /\ r.code = 0 /\ r.listed = FALSE
      /\ (r.form <=> "reload" = "put")
  BY <1>1, CallFacts, Zenon
<1>4. Fresh(r)
  <2> HIDE DEF r
  <2>1. ~r.listed /\ ~r.form
    BY <1>2, <1>3, Zenon
  <2> QED BY <1>2, <1>3, <2>1 DEF Fresh
<1>5. d \in CallType /\ Fresh(d)
  BY <1>3, <1>4, IdleFacts
<1>6. call' = [call EXCEPT ![k] = d] /\ UNCHANGED <<server, page>>
  BY DEF MadeAnswer
<1> QED BY <1>5, <1>6, PlaceStep, PageStays

(* No form is open, so that no call has one. *)
LEMMA NoForm ==
  ASSUME Inv, edit = NoEdit
  PROVE  \A k \in Calls : ~call[k].form
<1>1. \A k \in Calls : call[k].form => call[k].code = 0 /\ call[k].code \in Code
  BY DEF Inv, TypeOK, Sensible, NoEdit
<1> QED BY <1>1, DashboardAssumption DEF Code

LEMMA OpenEditStep == ASSUME Inv, NEW c \in Code, OpenEdit(c) PROVE Inv'
<1>1. /\ edit = NoEdit /\ Position(c) # {} /\ edit' = [code |-> c, listed |-> TRUE]
      /\ UNCHANGED <<repo, writes, feed, links, cursor, rows, dialog, call, doubt>>
  BY DEF OpenEdit, server
<1>2. \A k \in Calls : ~call[k].form
  BY <1>1, NoForm
<1>3. edit' \in [code : 0..Codes, listed : BOOLEAN] /\ edit'.code = c
  BY <1>1, DashboardAssumption DEF Code
<1>4. TypeOK'
  BY <1>1, <1>2, <1>3 DEF Inv, TypeOK, Position
<1>5. Sensible'
  BY <1>1, <1>3 DEF Inv, Sensible
<1>6. FeedCatchesUp' /\ ListHolds' /\ EchoComes'
  BY <1>1 DEF Inv, FeedCatchesUp, ListHolds, EchoComes, Pending, Right, Reached
<1>7. AnswersHold'
  BY <1>1, AnswersStay DEF Inv, SameAnswer
<1> QED BY <1>4, <1>5, <1>6, <1>7 DEF Inv

(* Cancel, and Redraw. *)
LEMMA ClosedStep ==
  ASSUME Inv, UNCHANGED <<server, links, cursor, dialog, doubt>>, rows' \subseteq Code,
         edit' = NoEdit, call' = [d \in Calls |-> [call[d] EXCEPT !.form = FALSE]]
  PROVE  Inv'
<1>1. UNCHANGED <<repo, writes, feed, links, cursor, dialog, doubt>>
  BY DEF server
<1>2. call \in [Calls -> CallType]
  BY DEF Inv, TypeOK
<1>3. ASSUME NEW h \in CallType
      PROVE  /\ [h EXCEPT !.form = FALSE] \in CallType /\ SameAnswer(h, [h EXCEPT !.form = FALSE])
             /\ ~[h EXCEPT !.form = FALSE].form /\ [h EXCEPT !.form = FALSE].listed = h.listed
  BY DEF CallType, SameAnswer
<1>4. call' \in [Calls -> CallType]
  BY <1>1, <1>2, <1>3
<1>5. \A k \in Calls : SameAnswer(call[k], call'[k]) /\ ~call'[k].form /\ call'[k].listed = call[k].listed
  BY <1>1, <1>2, <1>3
<1>6. edit' \in [code : 0..Codes, listed : BOOLEAN] /\ ~edit'.listed
  BY DashboardAssumption DEF NoEdit
<1>7. TypeOK'
  BY <1>1, <1>4, <1>5, <1>6 DEF Inv, TypeOK, Position, SameAnswer
<1>8. Sensible'
  BY <1>1, <1>5 DEF Inv, Sensible, SameAnswer
<1>9. FeedCatchesUp' /\ ListHolds'
  BY <1>1 DEF Inv, FeedCatchesUp, ListHolds, Pending, Right, Reached
<1>10. AnswersHold'
  BY <1>1, <1>5, AnswersStay DEF Inv
<1>11. EchoComes'
  BY <1>1, <1>5 DEF Inv, EchoComes, Pending, SameAnswer
<1> QED BY <1>7, <1>8, <1>9, <1>10, <1>11 DEF Inv

LEMMA CancelStep == Inv /\ Cancel => Inv'
<1> SUFFICES ASSUME Inv, Cancel PROVE Inv'
  OBVIOUS
<1>1. rows' \subseteq Code
  BY DEF Inv, TypeOK, Cancel
<1> QED BY <1>1, ClosedStep DEF Cancel

LEMMA RedrawStep == Inv /\ Redraw => Inv'
<1> SUFFICES ASSUME Inv, Redraw PROVE Inv'
  OBVIOUS
<1>1. links \in Seq(Link)
  BY DEF Inv, TypeOK, Link
<1>2. \A i \in DOMAIN links : links[i].code \in Code
  BY <1>1, ListFacts DEF Link
<1>3. rows' \subseteq Code
  BY <1>2 DEF Redraw, Draw
<1> QED BY <1>3, ClosedStep DEF Redraw, Draw

(* The page opens: one call in flight, and everything in doubt. *)
LEMMA InitInv == Init => Inv
<1> SUFFICES ASSUME Init PROVE Inv
  OBVIOUS
<1>1. PICK k \in Calls : call = [d \in Calls |-> IF d = k THEN Call("load", 0, FALSE) ELSE Idle]
  BY DEF Init
<1> DEFINE l == Call("load", 0, FALSE)
<1>2. 0 \in 0..Codes /\ FALSE \in BOOLEAN /\ "load" \in Listing /\ "load" # "put"
  BY DashboardAssumption DEF Listing
<1>3. /\ l \in CallType /\ ~l.ok /\ l.kind = "load" /\ l.code = 0 /\ l.listed = FALSE
      /\ (l.form <=> "load" = "put")
  BY <1>2, CallFacts, Zenon
<1>4. ~l.listed /\ ~l.form
  BY <1>2, <1>3, Zenon
<1> HIDE DEF l
<1>5. call \in [Calls -> CallType] /\ \A d \in Calls : call[d] = l \/ call[d] = Idle
  BY <1>1, <1>3, IdleFacts DEF l
<1>6. \A d \in Calls :
        /\ ~call[d].ok /\ ~call[d].listed /\ ~call[d].form
        /\ call[d].kind \notin {"post", "put", "delete"}
        /\ call[d].kind \in {"load", "reload"} => call[d].code = 0
  <2> TAKE d \in Calls
  <2>1. CASE call[d] = l
    BY <2>1, <1>3, <1>4, Zenon
  <2>2. CASE call[d] = Idle
    BY <2>2, IdleFacts, Zenon
  <2> QED BY <1>5, <2>1, <2>2
<1>7. edit = NoEdit /\ NoEdit \in [code : 0..Codes, listed : BOOLEAN] /\ ~NoEdit.listed
  BY DashboardAssumption DEF Init, NoEdit
<1>8. /\ repo \in [Code -> 0..MaxWrites] /\ writes \in 1..MaxWrites /\ feed = <<>> /\ links = <<>>
      /\ rows = {} /\ cursor \in 0..Codes /\ dialog \in 0..Codes /\ doubt = Code
  BY DashboardAssumption DEF Init
<1>9. TypeOK
  BY <1>5, <1>6, <1>7, <1>8 DEF TypeOK
<1>10. Sensible
  BY <1>6, <1>7 DEF Sensible
<1>11. FeedCatchesUp
  BY <1>8 DEF FeedCatchesUp
<1>12. AnswersHold
  BY <1>6 DEF AnswersHold
<1>13. ListHolds
  BY <1>8 DEF ListHolds
<1>14. EchoComes
  BY <1>6 DEF EchoComes
<1> QED BY <1>9, <1>10, <1>11, <1>12, <1>13, <1>14 DEF Inv

-----------------------------------------------------------------------------
(* The server: what moves in the repository is announced by the feed, and an
   answer tells what is there now. *)
LEMMA ServedStep ==
  ASSUME Inv, UNCHANGED page,
         repo' \in [Code -> 0..MaxWrites], writes' \in 1..MaxWrites,
         feed' \in Seq([code : Code, url : 0..MaxWrites]), FeedCatchesUp',
         \A c \in Code : repo'[c] = repo[c] \/ Pending(c)', \A c : Pending(c) => Pending(c)',
         call' \in [Calls -> CallType],
         \A k \in Calls :
           \/ Alike(call[k], call'[k])
           \/ /\ call'[k].kind = call[k].kind /\ call'[k].code = call[k].code
              /\ call'[k].listed = call[k].listed /\ call'[k].form = call[k].form
              /\ \A c \in Scope(call'[k]) : call'[k].seen[c] = repo'[c]
              /\ call[k].kind = "put" => Pending(call[k].code)'
              /\ call[k].kind = "delete" => call'[k].seen[call[k].code] = 0
  PROVE  Inv'
<1>1. UNCHANGED <<links, cursor, rows, edit, dialog, doubt>>
  BY DEF page
<1>2. \A k \in Calls :
        /\ call'[k].kind = call[k].kind /\ call'[k].code = call[k].code
        /\ call'[k].listed = call[k].listed /\ call'[k].form = call[k].form
  BY DEF Alike, SameAnswer
<1>3. TypeOK'
  <2>1. \A c : Position(c)' = Position(c)
    BY <1>1 DEF Position
  <2>2. \A k \in Calls :
          /\ call'[k].listed => Position(call'[k].code) # {}
          /\ call'[k].form => edit = [code |-> call'[k].code, listed |-> call'[k].listed]
    BY <1>2 DEF Inv, TypeOK
  <2> QED BY <1>1, <2>1, <2>2 DEF Inv, TypeOK
<1>4. Sensible'
  <2>1. ASSUME NEW k \in Calls, call'[k].ok, call'[k].kind = "delete"
        PROVE  call'[k].seen[call'[k].code] = 0
    BY <1>2, <2>1 DEF Inv, Sensible, Alike, SameAnswer
  <2> QED BY <1>1, <1>2, <2>1 DEF Inv, Sensible
<1>5. AnswersHold'
  <2> SUFFICES ASSUME NEW k \in Calls, call'[k].ok, NEW c \in Scope(call'[k])
               PROVE  call'[k].seen[c] = repo'[c] \/ Pending(c)' \/ c \in call'[k].missed
    BY DEF AnswersHold
  <2>1. ASSUME Alike(call[k], call'[k])
        PROVE  call'[k].seen[c] = repo'[c] \/ Pending(c)' \/ c \in call'[k].missed
    <3>1. SameAnswer(call[k], call'[k]) /\ call[k].ok /\ c \in Scope(call[k])
      BY <2>1, SameScope DEF Alike, SameAnswer
    <3>2. call[k].seen[c] = repo[c] \/ Pending(c) \/ c \in call[k].missed
      BY <3>1 DEF Inv, AnswersHold
    <3>3. c \in Code
      BY ScopeFacts
    <3> QED BY <3>1, <3>2, <3>3 DEF SameAnswer
  <2> QED BY <2>1
<1>6. ListHolds'
  <2> SUFFICES ASSUME NEW c \in Code \ doubt, ~Pending(c)'
               PROVE  Right(c)'
    BY <1>1 DEF Inv, ListHolds
  <2>1. repo'[c] = repo[c] /\ Right(c)
    BY DEF Inv, ListHolds
  <2> QED BY <1>1, <2>1 DEF Right, Reached
<1>7. EchoComes'
  <2> SUFFICES ASSUME NEW k \in Calls, call'[k].ok, call'[k].kind = "put", call'[k].listed
               PROVE  Pending(call[k].code)' \/ call'[k].code \in doubt'
    BY DEF EchoComes
  <2>1. CASE Alike(call[k], call'[k])
    BY <1>1, <2>1 DEF Inv, EchoComes, Alike, SameAnswer
  <2> QED BY <1>2, <2>1
<1> QED BY <1>3, <1>4, <1>5, <1>6, <1>7 DEF Inv

(* A write or a deletion, served or made elsewhere. *)
LEMMA CommittedStep ==
  ASSUME Inv, UNCHANGED page, NEW c \in Code, NEW url \in 0..MaxWrites, Commit(c, url),
         writes' \in 1..MaxWrites,
         \/ UNCHANGED call
         \/ \E k \in Calls : /\ call[k].kind \in {"post", "put", "delete"} /\ call[k].code = c
                             /\ call[k].kind = "delete" <=> url = 0
                             /\ Answer(k, 0) \/ Error(k)
  PROVE  Inv'
<1>1. TypeOK /\ FeedCatchesUp /\ call \in [Calls -> CallType]
  BY DEF Inv, TypeOK
<1>2. /\ feed' \in Seq([code : Code, url : 0..MaxWrites]) /\ FeedCatchesUp'
      /\ \A d : Pending(d)' <=> Pending(d) \/ d = c
      /\ repo' \in [Code -> 0..MaxWrites] /\ repo'[c] = url
      /\ \A d \in Code : d # c => repo'[d] = repo[d]
  BY <1>1, CommitFacts
<1>3. CASE UNCHANGED call
  <2>1. \A k \in Calls : Alike(call[k], call'[k])
    BY <1>3 DEF Alike, SameAnswer
  <2> QED BY <1>1, <1>2, <1>3, <2>1, ServedStep
<1>4. ASSUME NEW k \in Calls, Error(k) PROVE Inv'
  <2>1. call' \in [Calls -> CallType] /\ \A d \in Calls : Alike(call[d], call'[d])
    BY <1>1, <1>4, ErrorFacts
  <2> QED BY <1>2, <2>1, ServedStep
<1>5. ASSUME NEW k \in Calls, call[k].kind \in {"post", "put", "delete"}, call[k].code = c,
             call[k].kind = "delete" <=> url = 0, Answer(k, 0)
      PROVE  Inv'
  <2>1. 0 \in 0..Codes
    BY DashboardAssumption
  <2>2. /\ call' \in [Calls -> CallType]
        /\ \A d \in Calls : d # k => call'[d] = call[d]
        /\ call'[k].kind = call[k].kind /\ call'[k].code = call[k].code
        /\ call'[k].listed = call[k].listed /\ call'[k].form = call[k].form
        /\ \A d \in Scope(call'[k]) : call'[k].seen[d] = repo'[d]
    BY <1>1, <1>2, <1>5, <2>1, AnswerFacts
  <2>3. call[k].kind = "delete" => Scope(call'[k]) = {c}
    BY <1>5, <2>2, ScopeFacts
  <2>4. call[k].kind = "delete" => call'[k].seen[call[k].code] = url
    BY <1>2, <1>5, <2>2, <2>3
  <2>6. call[k].kind = "put" => Pending(call[k].code)'
    BY <1>2, <1>5, <2>2
  <2>5. \A d \in Calls : d # k => Alike(call[d], call'[d])
    BY <2>2 DEF Alike, SameAnswer
  <2> QED BY <1>2, <1>5, <2>2, <2>4, <2>5, <2>6, ServedStep
<1> QED BY <1>3, <1>4, <1>5

LEMMA ServeStep == ASSUME Inv, NEW k \in Calls, Serve(k) PROVE Inv'
<1> DEFINE d == call[k]
<1>1. TypeOK /\ FeedCatchesUp /\ call \in [Calls -> CallType] /\ UNCHANGED page
  BY DEF Inv, TypeOK, Serve
<1>2. /\ repo \in [Code -> 0..MaxWrites] /\ writes \in 1..MaxWrites
      /\ feed \in Seq([code : Code, url : 0..MaxWrites])
      /\ d.kind \in {"post", "put", "delete"} => d.code \in Code
  BY DEF Inv, TypeOK, Sensible
<1>3. ASSUME d.kind \in Listing, UNCHANGED server, NEW n \in 0..Codes, Answer(k, n)
      PROVE  Inv'
  <2>1. UNCHANGED <<repo, writes, feed>>
    BY <1>3 DEF server
  <2>2. /\ call' \in [Calls -> CallType]
        /\ \A h \in Calls : h # k => call'[h] = call[h]
        /\ call'[k].kind = call[k].kind /\ call'[k].code = call[k].code
        /\ call'[k].listed = call[k].listed /\ call'[k].form = call[k].form
        /\ \A c \in Scope(call'[k]) : call'[k].seen[c] = repo'[c]
    BY <1>1, <1>2, <1>3, <2>1, AnswerFacts
  <2>3. \A h \in Calls : h # k => Alike(call[h], call'[h])
    BY <2>2 DEF Alike, SameAnswer
  <2>4. d.kind # "put" /\ d.kind # "delete"
    BY <1>3 DEF Listing
  <2>5. FeedCatchesUp' /\ \A c : Pending(c) <=> Pending(c)'
    BY <1>1, <2>1 DEF FeedCatchesUp, Pending
  <2> QED BY <1>1, <1>2, <2>1, <2>2, <2>3, <2>4, <2>5, ServedStep
<1>4. ASSUME d.kind \in {"post", "put"}, writes < MaxWrites, writes' = writes + 1,
             Commit(d.code, writes'), Answer(k, 0) \/ Error(k)
      PROVE  Inv'
  <2>1. writes' \in 1..MaxWrites /\ writes' # 0 /\ writes' \in 0..MaxWrites
    BY <1>2, <1>4, DashboardAssumption
  <2>2. d.code \in Code /\ d.kind \in {"post", "put", "delete"} /\ d.kind # "delete"
    BY <1>2, <1>4
  <2> QED BY <1>1, <1>4, <2>1, <2>2, CommittedStep
<1>5. ASSUME d.kind = "delete", UNCHANGED writes, Commit(d.code, 0), Answer(k, 0) \/ Error(k)
      PROVE  Inv'
  <2>1. writes' \in 1..MaxWrites /\ 0 \in 0..MaxWrites
    BY <1>2, <1>5, DashboardAssumption
  <2>2. d.code \in Code /\ d.kind \in {"post", "put", "delete"}
    BY <1>2, <1>5
  <2> QED BY <1>1, <1>5, <2>1, <2>2, CommittedStep
<1>6. ASSUME d.kind = "delete", repo[d.code] = 0, UNCHANGED server, Answer(k, 0)
      PROVE  Inv'
  <2>0. 0 \in 0..Codes
    BY DashboardAssumption
  <2>1. UNCHANGED <<repo, writes, feed>>
    BY <1>6 DEF server
  <2>2. /\ call' \in [Calls -> CallType]
        /\ \A h \in Calls : h # k => call'[h] = call[h]
        /\ call'[k].kind = call[k].kind /\ call'[k].code = call[k].code
        /\ call'[k].listed = call[k].listed /\ call'[k].form = call[k].form
        /\ \A c \in Scope(call'[k]) : call'[k].seen[c] = repo'[c]
    BY <1>1, <1>2, <1>6, <2>0, <2>1, AnswerFacts
  <2>3. \A h \in Calls : h # k => Alike(call[h], call'[h])
    BY <2>2 DEF Alike, SameAnswer
  <2>4. Scope(call'[k]) = {d.code} /\ d.kind # "put"
    BY <1>2, <1>6, <2>2, ScopeFacts
  <2>5. FeedCatchesUp' /\ \A c : Pending(c) <=> Pending(c)'
    BY <1>1, <2>1 DEF FeedCatchesUp, Pending
  <2>6. call'[k].seen[d.code] = 0
    BY <1>2, <1>6, <2>1, <2>2, <2>4
  <2> QED BY <1>1, <1>2, <2>1, <2>2, <2>3, <2>4, <2>5, <2>6, ServedStep
<1>7. ASSUME UNCHANGED server, Error(k) PROVE Inv'
  <2>1. call' \in [Calls -> CallType] /\ \A h \in Calls : Alike(call[h], call'[h])
    BY <1>1, <1>7, ErrorFacts
  <2> QED BY <1>1, <1>7, <2>1, CallsStep, PageStays
<1>8. \/ d.kind \in Listing /\ UNCHANGED server /\ \E n \in 0..Codes : Answer(k, n)
      \/ /\ d.kind \in {"post", "put"} /\ writes < MaxWrites
         /\ writes' = writes + 1 /\ Commit(d.code, writes')
         /\ Answer(k, 0) \/ Error(k)
      \/ /\ d.kind = "delete" /\ UNCHANGED writes
         /\ \/ repo[d.code] = 0 /\ UNCHANGED server
            \/ Commit(d.code, 0)
         /\ Answer(k, 0) \/ Error(k)
      \/ UNCHANGED server /\ Error(k)
  BY DEF Serve, list_links, shorten, update_link, delete_link, Written, Refused, server
<1> QED BY <1>3, <1>4, <1>5, <1>6, <1>7, <1>8

LEMMA ElsewhereStep == ASSUME Inv, NEW c \in Code, Elsewhere(c) PROVE Inv'
<1>1. UNCHANGED page /\ UNCHANGED call /\ writes < MaxWrites /\ writes' = writes + 1
  BY DEF Elsewhere
<1>2. writes \in 1..MaxWrites
  BY DEF Inv, TypeOK
<1>3. writes' \in 1..MaxWrites /\ writes' \in 0..MaxWrites /\ 0 \in 0..MaxWrites
  BY <1>1, <1>2, DashboardAssumption
<1>4. Commit(c, writes') \/ Commit(c, 0)
  BY DEF Elsewhere
<1> QED BY <1>1, <1>3, <1>4, CommittedStep
-----------------------------------------------------------------------------
(* Callbacks that draw the list again. *)
LEMMA PositionFacts ==
  /\ \A c : Position(c) # {} <=> Urls(links, c) # {}
  /\ links \in Seq(Link) =>
       \A c : (Position(c) # {} => c \in Code) /\ (Once(links, c) => Position(c) \subseteq First(c))
<1>1. \A c : Position(c) = At(links, c)
  BY DEF Position, At
<1>2. \A c : At(links, c) # {} <=> Urls(links, c) # {}
  BY DEF Urls
<1>3. ASSUME links \in Seq(Link), NEW c, Position(c) # {} PROVE c \in Code
  <2>1. PICK i \in DOMAIN links : links[i].code = c
    BY <1>3 DEF Position
  <2>2. links[i] \in Link
    BY <1>3, ListFacts
  <2> QED BY <2>1, <2>2 DEF Link
<1>4. ASSUME links \in Seq(Link), NEW c, Once(links, c) PROVE Position(c) \subseteq First(c)
  <2> SUFFICES ASSUME NEW i \in Position(c) PROVE i \in First(c)
    OBVIOUS
  <2>1. \A j \in Position(c) : j = i
    BY <1>1, <1>4 DEF Once
  <2>2. i \in Int
    BY <1>4, ListFacts DEF Position
  <2> QED BY <2>1, <2>2 DEF First
<1> QED BY <1>1, <1>2, <1>3, <1>4

(* What a list that is drawn must be: right about what is not in doubt by then,
   and with every link that the other calls closed over. *)
Drawable(list) ==
  /\ list \in Seq(Link)
  /\ \A c \in Code \ doubt' :
       \/ Pending(c)
       \/ /\ Urls(list, c) \subseteq {repo[c]}
          /\ repo[c] # 0 /\ (cursor' = 0 \/ c <= cursor') => Urls(list, c) # {}

Keeps(list, forgotten) == \A c \in Code \ forgotten : Urls(links, c) # {} => Urls(list, c) # {}

LEMMA DrawStep ==
  ASSUME Inv, UNCHANGED server, NEW k \in Calls, NEW forgotten, Over(k, forgotten),
         NEW list, Drawable(list), Keeps(list, forgotten), Draw(list),
         cursor' \in 0..Codes, UNCHANGED dialog,
         doubt' \subseteq Code, doubt \subseteq doubt' \cup forgotten
  PROVE  Inv'
<1>1. /\ UNCHANGED <<repo, writes, feed>> /\ links' = list /\ edit' = NoEdit
      /\ rows' = {list[i].code : i \in DOMAIN list} /\ list \in Seq(Link)
  BY DEF server, Draw, Drawable
<1>2. /\ call' \in [Calls -> CallType] /\ call'[k] = Idle
      /\ \A d \in Calls \ {k} :
           /\ SameAnswer(call[d], call'[d]) /\ ~call'[d].form
           /\ call'[d].listed <=> call[d].listed /\ call[d].code \notin forgotten
  BY OverFacts DEF Inv
<1>3. rows' \subseteq Code
  <2>1. \A i \in DOMAIN list : list[i].code \in Code
    BY <1>1, ListFacts DEF Link
  <2> QED BY <1>1, <2>1
<1>4. edit' \in [code : 0..Codes, listed : BOOLEAN] /\ ~edit'.listed
  BY <1>1, DashboardAssumption DEF NoEdit
<1>5. \A d \in Calls : ~call'[d].form
  BY <1>2, IdleFacts
<1>6. ASSUME NEW d \in Calls, call'[d].listed PROVE Position(call[d].code)' # {}
  <2>1. d # k
    BY <1>2, <1>6, IdleFacts, Zenon
  <2>2. call[d].listed /\ call[d].code \notin forgotten /\ call'[d].code = call[d].code
    BY <1>2, <1>6, <2>1 DEF SameAnswer
  <2>3. links \in Seq(Link) /\ Position(call[d].code) # {}
    BY <2>2 DEF Inv, TypeOK, Link
  <2>4. Urls(list, call[d].code) # {}
    BY <2>2, <2>3, PositionFacts DEF Keeps
  <2>5. At(list, call[d].code) # {}
    BY <2>4 DEF Urls
  <2> QED BY <1>1, <2>2, <2>5 DEF Position, At
<1>7. TypeOK'
  <2>1. \A d \in Calls : call'[d].listed => Position(call[d].code)' # {}
    BY <1>6
  <2>2. links' \in Seq([code : Code, url : 1..MaxWrites])
    BY <1>1 DEF Link
  <2> QED BY <1>1, <1>2, <1>3, <1>4, <1>5, <2>1, <2>2 DEF Inv, TypeOK
<1>8. Sensible'
  BY <1>1, <1>2, <1>5, IdleFacts DEF Inv, Sensible, SameAnswer
<1>9. FeedCatchesUp'
  BY <1>1 DEF Inv, FeedCatchesUp
<1>10. AnswersHold'
  BY <1>1, <1>2, IdleFacts, AnswersStay DEF Inv
<1>11. ListHolds'
  BY <1>1 DEF ListHolds, Pending, Right, Reached, Drawable
<1>12. EchoComes'
  <2> SUFFICES ASSUME NEW d \in Calls, call'[d].ok, call'[d].kind = "put", call'[d].listed
               PROVE  Pending(call[d].code)' \/ call'[d].code \in doubt'
    BY DEF EchoComes
  <2>1. d # k
    BY <1>2, IdleFacts, Zenon
  <2>2. /\ call[d].listed /\ call[d].code \notin forgotten /\ call'[d].code = call[d].code
        /\ call[d].ok /\ call[d].kind = "put"
    BY <1>2, <2>1 DEF SameAnswer
  <2>3. Pending(call[d].code) \/ call[d].code \in doubt
    BY <2>2 DEF Inv, EchoComes
  <2> QED BY <1>1, <2>2, <2>3 DEF Pending
<1> QED BY <1>7, <1>8, <1>9, <1>10, <1>11, <1>12 DEF Inv

LEMMA SaveAnswerStep == ASSUME Inv, NEW k \in Calls, SaveAnswer(k) PROVE Inv'
<1> DEFINE d == call[k]
<1>1. CASE Failed(k)
  BY <1>1, FailedStep DEF SaveAnswer
<1>2. ASSUME NEW url \in 1..MaxWrites, d.ok, Draw(Saved(d, url)), Over(k, {}),
             UNCHANGED <<cursor, dialog, doubt>>
      PROVE  Inv'
  <2> DEFINE e == Entry(d.code, url)
             list == Saved(d, url)
  <2>1. d.kind = "put" /\ UNCHANGED server
    BY DEF SaveAnswer
  <2>2. d \in CallType /\ links \in Seq(Link) /\ doubt \subseteq Code /\ cursor \in 0..Codes
    BY DEF Inv, TypeOK, Link
  <2>3. d.code \in Code /\ d.listed \in BOOLEAN
    BY <2>1, <2>2 DEF Inv, Sensible, CallType
  <2>4. e \in Link /\ e.code = d.code
    BY <2>3 DEF Entry, Link
  <2>5. list = Replaced(e, d.listed)
    BY <2>4 DEF Saved, Replaced
  <2>6. d.listed => Pending(d.code) \/ d.code \in doubt
    BY <1>2, <2>1 DEF Inv, EchoComes
  <2> HIDE DEF d, e, list
  <2>7. /\ list \in Seq(Link)
        /\ \A c : At(list, c) = At(links, c)
        /\ \A c : c # e.code => Same(links, list, c)
        /\ ~d.listed => list = links
    BY <2>2, <2>3, <2>4, <2>5, ReplaceFacts
  <2>8. \A c : Urls(links, c) # {} <=> Urls(list, c) # {}
    BY <2>7, UrlsFacts
  <2>9. ASSUME NEW c \in Code \ doubt'
        PROVE  \/ Pending(c)
               \/ /\ Urls(list, c) \subseteq {repo[c]}
                  /\ repo[c] # 0 /\ (cursor' = 0 \/ c <= cursor') => Urls(list, c) # {}
    <3>1. c \notin doubt
      BY <1>2, <2>9
    <3>2. Pending(c) \/ Right(c)
      BY <3>1, <2>9 DEF Inv, ListHolds
    <3>3. CASE c = e.code /\ d.listed
      BY <3>1, <3>2, <3>3, <2>4, <2>6, <2>7
    <3>4. CASE ~(c = e.code /\ d.listed)
      <4>1. Urls(list, c) = Urls(links, c)
        BY <3>4, <2>7 DEF Same
      <4> QED BY <1>2, <3>2, <4>1, <2>8 DEF Right, Reached
    <3> QED BY <3>3, <3>4
  <2>10. doubt' \subseteq Code /\ cursor' \in 0..Codes /\ doubt \subseteq doubt' \cup {}
    BY <1>2, <2>2
  <2>11. Drawable(list) /\ Keeps(list, {})
    BY <2>7, <2>8, <2>9 DEF Drawable, Keeps
  <2> QED BY <1>2, <2>1, <2>10, <2>11, DrawStep DEF list
<1> QED BY <1>1, <1>2 DEF SaveAnswer

LEMMA DeleteAnswerStep == ASSUME Inv, NEW k \in Calls, DeleteAnswer(k) PROVE Inv'
<1> DEFINE d == call[k]
           list == Without(d.code)
<1>1. CASE Failed(k)
  BY <1>1, FailedStep DEF DeleteAnswer
<1>2. CASE d.ok /\ Draw(list) /\ Over(k, {d.code})
  <2>1. /\ d.kind = "delete" /\ cursor' = cursor /\ UNCHANGED <<dialog, server>>
        /\ doubt' = (doubt \ {d.code}) \cup d.missed
    BY <1>2 DEF DeleteAnswer, Failed
  <2>2. d \in CallType /\ links \in Seq(Link) /\ doubt \subseteq Code /\ cursor \in 0..Codes
    BY DEF Inv, TypeOK, Link
  <2>3. d.code \in Code /\ d.seen[d.code] = 0 /\ d.missed \subseteq Code
    <3>1. d.code \in Code /\ d.seen[d.code] = 0
      BY <1>2, <2>1 DEF Inv, Sensible
    <3> QED BY <3>1, <2>2 DEF CallType
  <2>4. d.code \in Scope(d)
    BY <2>1, <2>3 DEF Scope, Listing
  <2>5. d.seen[d.code] = repo[d.code] \/ Pending(d.code) \/ d.code \in d.missed
    BY <1>2, <2>4 DEF Inv, AnswersHold
  <2> DEFINE S == DOMAIN links \ Position(d.code)
  <2>6. list = Keep(S)
    BY DEF Without
  <2>7. At(links, d.code) \cap S = {} /\ \A c : c # d.code => At(links, c) \subseteq S
    BY DEF At, Position
  <2> HIDE DEF d, list, S
  <2>8. S \in SUBSET DOMAIN links
    BY DEF S
  <2>9. /\ list \in Seq(Link)
        /\ \A c : c # d.code => Same(links, list, c)
        /\ Urls(list, d.code) = {}
    BY <2>2, <2>6, <2>7, <2>8, KeepFacts
  <2>10. \A c \in Code \ {d.code} : Urls(links, c) # {} => Urls(list, c) # {}
    BY <2>9 DEF Same
  <2>11. ASSUME NEW c \in Code \ doubt'
         PROVE  \/ Pending(c)
                \/ /\ Urls(list, c) \subseteq {repo[c]}
                   /\ repo[c] # 0 /\ (cursor' = 0 \/ c <= cursor') => Urls(list, c) # {}
    <3>1. CASE c = d.code
      BY <3>1, <2>1, <2>3, <2>5, <2>9, <2>11
    <3>2. CASE c # d.code
      <4>1. c \notin doubt
        BY <2>1, <2>11, <3>2
      <4>2. Pending(c) \/ Right(c)
        BY <4>1, <2>11 DEF Inv, ListHolds
      <4> QED BY <3>2, <4>2, <2>1, <2>9 DEF Same, Right, Reached
    <3> QED BY <3>1, <3>2
  <2>12. doubt' \subseteq Code /\ cursor' \in 0..Codes /\ doubt \subseteq doubt' \cup {d.code}
    BY <2>1, <2>2, <2>3
  <2>13. Drawable(list) /\ Keeps(list, {d.code})
    BY <2>9, <2>10, <2>11 DEF Drawable, Keeps
  <2> QED BY <1>2, <2>1, <2>12, <2>13, DrawStep
<1> QED BY <1>1, <1>2 DEF DeleteAnswer

OnPage(d) == {c \in Scope(d) : d.seen[c] # 0}

(* The links of a page are links, each of them once. *)
LEMMA LandedFacts ==
  ASSUME Inv, NEW k \in Calls, call[k].kind \in Listing, NEW at, NEW list,
         at = OnPage(call[k]), list = PageOf(at, call[k].seen)
  PROVE  /\ list \in Seq(Link)
         /\ \A c : Once(list, c)
         /\ \A c \in at : Urls(list, c) = {call[k].seen[c]}
         /\ \A c : c \notin at => Urls(list, c) = {}
<1> DEFINE seen == call[k].seen
<1>1. seen \in [Code -> 0..MaxWrites] /\ MaxWrites \in Nat
  BY DashboardAssumption DEF Inv, TypeOK, CallType
<1>2. at \in SUBSET Code
  BY ScopeFacts DEF OnPage
<1>3. \A c \in at : seen[c] \in 1..MaxWrites
  <2>1. \A c \in Code : seen[c] \in 0..MaxWrites
    BY <1>1
  <2>2. \A c \in at : seen[c] # 0
    BY DEF OnPage
  <2> HIDE DEF seen
  <2> QED BY <1>1, <1>2, <2>1, <2>2
<1>4. list = PageOf(at, seen)
  OBVIOUS
<1> HIDE DEF seen
<1>5. /\ list \in Seq(Link)
      /\ \A c : Once(list, c)
      /\ \A c \in at : Urls(list, c) = {seen[c]}
      /\ \A c : c \notin at => Urls(list, c) = {}
  BY <1>2, <1>3, <1>4, PageFacts
<1> QED BY <1>2, <1>5 DEF seen

(* What a page says of the codes it tells of, and of the others. *)
LEMMA LandedStep == ASSUME Inv, NEW k \in Calls, Loaded(k), Landed(k) PROVE Inv'
<1> DEFINE d == call[k]
           at == {c \in Scope(d) : d.seen[c] # 0}
           list == [i \in 1..Cardinality(at) |-> Entry(Ascending(at)[i], d.seen[Ascending(at)[i]])]
           skipped == {c \in Code : cursor # 0 /\ cursor < c /\ c <= d.code}
<1>1. d.ok /\ cursor' = d.next /\ UNCHANGED <<dialog, server>> /\ d.kind \in Listing
  BY DEF Landed, Loaded, Failed
<1>2. \/ /\ d.kind = "more" /\ Draw(links \o list) /\ Over(k, {})
         /\ doubt' = doubt \cup d.missed \cup skipped
      \/ d.kind # "more" /\ Draw(list) /\ Over(k, Code) /\ doubt' = d.missed
  BY DEF Landed
<1>3. d \in CallType /\ links \in Seq(Link) /\ doubt \subseteq Code /\ cursor \in 0..Codes
  BY DEF Inv, TypeOK, Link
<1>4. /\ d.code \in 0..Codes /\ d.next \in 0..Codes /\ d.seen \in [Code -> 0..MaxWrites]
      /\ d.missed \subseteq Code
  BY <1>3 DEF CallType
<1>5. Scope(d) = {c \in Code : d.code < c /\ (d.next = 0 \/ c <= d.next)}
  BY <1>1 DEF Scope, Listing
<1>6. d.kind # "more" => d.code = 0
  BY <1>1 DEF Inv, Sensible, Listing
<1>7. \A c \in Scope(d) : d.seen[c] = repo[c] \/ Pending(c) \/ c \in d.missed
  BY <1>1, <1>5 DEF Inv, AnswersHold
<1>8. \A c \in Code : c \notin at /\ c \in Scope(d) => d.seen[c] = 0
  OBVIOUS
<1>9. at \subseteq Scope(d)
  OBVIOUS
<1>10. \A c \in Code : c \notin skipped => cursor = 0 \/ c <= cursor \/ d.code < c
  BY <1>3, <1>4 DEF Code
<1>11. skipped \subseteq Code
  OBVIOUS
<1>12. \A c \in Code : c \notin Scope(d) => c <= d.code \/ (d.next # 0 /\ ~(c <= d.next))
  BY <1>4, <1>5 DEF Code
<1>13. d.kind \in Listing /\ at = OnPage(d) /\ list = PageOf(at, d.seen)
  BY <1>1 DEF PageOf, OnPage
<1> HIDE DEF at, list, skipped
<1>14. /\ list \in Seq(Link)
       /\ \A c \in at : Urls(list, c) = {d.seen[c]}
       /\ \A c : c \notin at => Urls(list, c) = {}
  <2>1. list \in Seq(Link)
    BY <1>13, LandedFacts
  <2>2. \A c \in at : Urls(list, c) = {d.seen[c]}
    BY <1>13, LandedFacts
  <2>3. \A c : c \notin at => Urls(list, c) = {}
    BY <1>13, LandedFacts
  <2> QED BY <2>1, <2>2, <2>3
<1> HIDE DEF d
<1>15. CASE d.kind = "more"
  <2> DEFINE new == links \o list
  <2>1. /\ new \in Seq(Link)
        /\ \A c : Urls(new, c) = Urls(links, c) \cup Urls(list, c)
    BY <1>3, <1>14, ConcatFacts
  <2> HIDE DEF new
  <2>2. ASSUME NEW c \in Code \ doubt'
        PROVE  \/ Pending(c)
               \/ /\ Urls(new, c) \subseteq {repo[c]}
                  /\ repo[c] # 0 /\ (cursor' = 0 \/ c <= cursor') => Urls(new, c) # {}
    <3>1. c \notin doubt /\ c \notin d.missed /\ c \notin skipped
      BY <1>2, <1>15, <2>2
    <3>2. Pending(c) \/ Right(c)
      BY <2>2, <3>1 DEF Inv, ListHolds
    <3>3. CASE c \in at
      <4>1. Urls(new, c) = Urls(links, c) \cup {d.seen[c]}
        BY <1>14, <2>1, <3>3
      <4>2. d.seen[c] = repo[c] \/ Pending(c)
        BY <1>7, <1>9, <3>1, <3>3
      <4> QED BY <3>2, <4>1, <4>2 DEF Right
    <3>4. CASE c \notin at
      <4>1. Urls(new, c) = Urls(links, c)
        BY <1>14, <2>1, <3>4
      <4>2. ASSUME repo[c] # 0, cursor' = 0 \/ c <= cursor', ~Pending(c)
            PROVE  Urls(links, c) # {}
        <5>1. c \notin Scope(d)
          BY <1>7, <1>8, <3>1, <3>4, <4>2
        <5>2. c <= d.code
          BY <1>1, <1>12, <4>2, <5>1
        <5>3. Reached(c)
          <6>1. c \in Int /\ d.code \in Int /\ ~(d.code < c)
            BY <1>4, <5>2 DEF Code
          <6> QED BY <1>10, <3>1, <6>1 DEF Reached
        <5> QED BY <3>2, <4>2, <5>3 DEF Right
      <4> QED BY <3>2, <4>1, <4>2 DEF Right
    <3> QED BY <3>3, <3>4
  <2>3. doubt' \subseteq Code /\ cursor' \in 0..Codes /\ doubt \subseteq doubt' \cup {}
    BY <1>1, <1>2, <1>3, <1>4, <1>11, <1>15
  <2>4. \A c \in Code : Urls(links, c) # {} => Urls(new, c) # {}
    BY <2>1
  <2>5. Drawable(new) /\ Keeps(new, {})
    BY <2>1, <2>2, <2>4 DEF Drawable, Keeps
  <2>6. Draw(new) /\ Over(k, {})
    BY <1>2, <1>15 DEF new
  <2> QED BY <1>1, <2>3, <2>5, <2>6, DrawStep
<1>16. CASE d.kind # "more"
  <2>1. ASSUME NEW c \in Code \ doubt'
        PROVE  \/ Pending(c)
               \/ /\ Urls(list, c) \subseteq {repo[c]}
                  /\ repo[c] # 0 /\ (cursor' = 0 \/ c <= cursor') => Urls(list, c) # {}
    <3>1. c \notin d.missed
      BY <1>2, <1>16, <2>1
    <3>2. CASE c \in at
      BY <1>7, <1>9, <1>14, <3>1, <3>2
    <3>3. CASE c \notin at
      <4>1. ASSUME repo[c] # 0, cursor' = 0 \/ c <= cursor' PROVE Pending(c)
        <5>1. c \in Scope(d)
          <6>1. ~(c <= d.code)
            BY <1>6, <1>16 DEF Code
          <6> QED BY <1>1, <1>12, <4>1, <6>1
        <5> QED BY <1>7, <1>8, <3>1, <3>3, <4>1, <5>1
      <4> QED BY <1>14, <3>3, <4>1
    <3> QED BY <3>2, <3>3
  <2>2. doubt' \subseteq Code /\ cursor' \in 0..Codes /\ doubt \subseteq doubt' \cup Code
    BY <1>1, <1>2, <1>3, <1>4, <1>16
  <2>3. Drawable(list) /\ Keeps(list, Code)
    BY <1>14, <2>1 DEF Drawable, Keeps
  <2>4. Draw(list) /\ Over(k, Code)
    BY <1>2, <1>16
  <2> QED BY <1>1, <2>2, <2>3, <2>4, DrawStep
<1> QED BY <1>15, <1>16

LEMMA LoadedStep == ASSUME Inv, NEW k \in Calls, Loaded(k) PROVE Inv'
BY LandedStep, FailedStep DEF Loaded

-----------------------------------------------------------------------------
(* Commits that arrive, and those that do not. *)

(* Whatever is done to the list for a commit is done to its code alone, and
   heals it where it was listed once. *)
LEMMA SplicedFacts ==
  ASSUME links \in Seq(Link), NEW e \in [code : Code, url : 0..MaxWrites], NEW list,
         list = IF e.url = 0 /\ Position(e.code) = {} THEN links ELSE Spliced(e)
  PROVE  /\ list \in Seq(Link)
         /\ \A c : c # e.code => Same(links, list, c)
         /\ Position(e.code) \subseteq First(e.code) =>
              Once(list, e.code) /\ Urls(list, e.code) = IF e.url = 0 THEN {} ELSE {e.url}
<1>1. Position(e.code) = At(links, e.code) /\ First(e.code) \subseteq At(links, e.code)
  BY DEF Position, At, First
<1>2. At(links, e.code) = {} => Urls(links, e.code) = {} /\ Once(links, e.code)
  BY DEF Urls, Once
<1>3. CASE e.url = 0 /\ Position(e.code) = {}
  <2>1. list = links
    BY <1>3
  <2> QED BY <1>1, <1>2, <1>3, <2>1 DEF Same
<1>4. CASE e.url = 0 /\ Position(e.code) # {}
  <2> DEFINE S == DOMAIN links \ First(e.code)
  <2>1. list = Keep(S) /\ S \in SUBSET DOMAIN links
    BY <1>4 DEF Spliced
  <2>2. \A c : c # e.code => At(links, c) \subseteq S
    BY <1>1 DEF At
  <2>3. Position(e.code) \subseteq First(e.code) => At(links, e.code) \cap S = {}
    BY <1>1
  <2> HIDE DEF S
  <2>4. /\ list \in Seq(Link)
        /\ \A c : At(links, c) \subseteq S => Same(links, list, c)
        /\ \A c : At(links, c) \cap S = {} => Urls(list, c) = {} /\ Once(list, c)
    BY <2>1, KeepFacts
  <2> QED BY <1>4, <2>2, <2>3, <2>4
<1>5. ASSUME e.url # 0, Position(e.code) = {}
      PROVE  /\ list \in Seq(Link)
             /\ \A c : c # e.code => Same(links, list, c)
             /\ Once(list, e.code) /\ Urls(list, e.code) = {e.url}
  <2>1. list = <<e>> \o links
    BY <1>5 DEF Spliced
  <2>2. e \in Link
    BY <1>5 DEF Link
  <2> QED BY <1>1, <1>2, <1>5, <2>1, <2>2, PrependFacts
<1>6. ASSUME e.url # 0, Position(e.code) # {}
      PROVE  /\ list \in Seq(Link)
             /\ \A c : c # e.code => Same(links, list, c)
             /\ Position(e.code) \subseteq First(e.code) =>
                  Once(list, e.code) /\ Urls(list, e.code) = {e.url}
  <2> DEFINE really == TRUE
  <2>1. list = Replaced(e, really)
    BY <1>6 DEF Spliced, Replaced
  <2>2. e \in Link /\ really \in BOOLEAN /\ really
    BY <1>6 DEF Link
  <2> HIDE DEF really
  <2>3. /\ list \in Seq(Link)
        /\ \A c : At(list, c) = At(links, c)
        /\ \A c : c # e.code => Same(links, list, c)
        /\ \A c : Once(links, c) => Once(list, c)
        /\ really /\ Once(links, e.code) => Urls(list, e.code) \subseteq {e.url}
    BY <2>1, <2>2, ReplaceFacts
  <2>4. ASSUME Position(e.code) \subseteq First(e.code) PROVE Once(links, e.code)
    <3> SUFFICES ASSUME NEW i \in At(links, e.code), NEW j \in At(links, e.code) PROVE i = j
      BY DEF Once
    <3>1. i <= j /\ j <= i
      BY <1>1, <2>4 DEF First
    <3>2. i \in Int /\ j \in Int
      BY ListFacts DEF At
    <3> QED BY <3>1, <3>2
  <2>5. Urls(list, e.code) # {}
    <3>1. At(list, e.code) # {}
      BY <1>1, <1>6, <2>3
    <3> QED BY <3>1, UrlsFacts
  <2> QED BY <2>2, <2>3, <2>4, <2>5
<1> QED BY <1>3, <1>4, <1>5, <1>6

(* The same call after a commit went from the feed. *)
Told(d, new, e) ==
  /\ new.kind = d.kind /\ new.code = d.code /\ new.next = d.next
  /\ new.ok = d.ok /\ new.seen = d.seen /\ new.form = d.form
  /\ new.missed = Missed(d, e)

LEMMA ToldFacts ==
  ASSUME NEW h \in CallType, NEW e \in [code : Code, url : 0..MaxWrites]
  PROVE  /\ [h EXCEPT !.missed = Missed(h, e)] \in CallType
         /\ Told(h, [h EXCEPT !.missed = Missed(h, e)], e)
         /\ [h EXCEPT !.missed = Missed(h, e)].listed = h.listed
<1> DEFINE m == Missed(h, e)
<1>1. m \in SUBSET Code
  BY DEF CallType, Missed
<1>2. m = Missed(h, e)
  OBVIOUS
<1> HIDE DEF m
<1>3. [h EXCEPT !.missed = m] \in CallType /\ Told(h, [h EXCEPT !.missed = m], e)
  BY <1>1, <1>2 DEF CallType, Told
<1>4. [h EXCEPT !.missed = m].listed = h.listed
  BY DEF CallType
<1> QED BY <1>3, <1>4 DEF m

LEMMA ToldAndDropped ==
  ASSUME NEW h \in CallType, NEW e \in [code : Code, url : 0..MaxWrites], NEW drop, NEW g,
         g = [h EXCEPT !.missed = Missed(h, e), !.listed = @ /\ h.code # drop]
  PROVE  g \in CallType /\ Told(h, g, e) /\ (g.listed <=> h.listed /\ h.code # drop)
<1> DEFINE m == Missed(h, e)
           l == h.listed /\ h.code # drop
<1>1. m \in SUBSET Code /\ l \in BOOLEAN
  BY DEF CallType, Missed
<1>2. m = Missed(h, e) /\ g = [h EXCEPT !.missed = m, !.listed = l]
  OBVIOUS
<1>3. l <=> h.listed /\ h.code # drop
  OBVIOUS
<1> HIDE DEF m, l
<1>4. g \in CallType /\ Told(h, g, e)
  BY <1>1, <1>2 DEF CallType, Told
<1>5. g.listed = l
  BY <1>2 DEF CallType
<1> QED BY <1>3, <1>4, <1>5

(* Taken or not, a commit is agreed with by the answers on their way, or they
   have missed it. *)
LEMMA MissedFacts ==
  ASSUME Inv, feed # <<>>, feed' = Tail(feed), UNCHANGED repo,
         \A d \in Calls : Told(call[d], call'[d], Head(feed))
  PROVE  AnswersHold'
<1> DEFINE e == Head(feed)
<1>1. TypeOK /\ FeedCatchesUp
  BY DEF Inv, TypeOK
<1>2. /\ \A d : Pending(d) /\ d # e.code => Pending(d)'
      /\ \A d : d = e.code => Pending(d)' \/ repo[d] = e.url
  BY <1>1, GoneFacts
<1> HIDE DEF e
<1> SUFFICES ASSUME NEW k \in Calls, call'[k].ok, NEW c \in Scope(call'[k])
             PROVE  call'[k].seen[c] = repo[c] \/ Pending(c)' \/ c \in call'[k].missed
  BY DEF AnswersHold
<1> DEFINE d == call[k]
           new == call'[k]
<1>3. Told(d, new, e)
  BY DEF e
<1>4. d.ok /\ c \in Scope(d) /\ new.seen = d.seen /\ new.missed = Missed(d, e)
  BY <1>3 DEF Told, Scope
<1>5. d.seen[c] = repo[c] \/ Pending(c) \/ c \in d.missed
  BY <1>4 DEF Inv, AnswersHold
<1>6. CASE c = e.code
  <2>1. d.seen[c] = e.url \/ c \in Missed(d, e)
    BY <1>4, <1>6 DEF Missed
  <2> QED BY <1>2, <1>4, <1>6, <2>1
<1>7. CASE c # e.code
  <2>1. c \in d.missed => c \in Missed(d, e)
    BY <1>7 DEF Missed
  <2> QED BY <1>2, <1>4, <1>5, <1>7, <2>1
<1> QED BY <1>6, <1>7

(* What the two have in common. *)
LEMMA GoneStep ==
  ASSUME Inv, feed # <<>>, feed' = Tail(feed), UNCHANGED <<repo, writes, cursor, dialog>>,
         links' \in Seq(Link), rows' \subseteq Code, doubt' \subseteq Code,
         \A c \in Code \ {Head(feed).code} : Same(links, links', c),
         doubt \subseteq doubt' \cup {Head(feed).code},
         Head(feed).code \notin doubt' =>
           Urls(links', Head(feed).code) = IF Head(feed).url = 0 THEN {} ELSE {Head(feed).url},
         call' \in [Calls -> CallType],
         \A d \in Calls : Told(call[d], call'[d], Head(feed)),
         \A d \in Calls : call'[d].listed => call[d].listed /\ Urls(links', call[d].code) # {},
         edit' \in [code : 0..Codes, listed : BOOLEAN], edit'.code = edit.code,
         edit = NoEdit => edit' = NoEdit,
         edit'.listed => Urls(links', edit.code) # {},
         \A d \in Calls : call[d].form => (call'[d].listed <=> edit'.listed),
         \A d \in Calls : call'[d].listed => call[d].code # Head(feed).code \/ Head(feed).code \in doubt'
  PROVE  Inv'
<1> DEFINE e == Head(feed)
<1>1. TypeOK /\ FeedCatchesUp /\ \A d \in Calls : call[d].form => edit = [code |-> call[d].code, listed |-> call[d].listed]
  BY DEF Inv, TypeOK
<1>2. /\ e \in [code : Code, url : 0..MaxWrites]
      /\ feed' \in Seq([code : Code, url : 0..MaxWrites]) /\ FeedCatchesUp'
      /\ \A d : Pending(d) /\ d # e.code => Pending(d)'
      /\ \A d : d = e.code => Pending(d)' \/ repo[d] = e.url
  BY <1>1, GoneFacts
<1>3. AnswersHold'
  BY MissedFacts
<1>4. \A c : Urls(links', c) # {} => Position(c)' # {}
  BY DEF Urls, At, Position
<1>5. TypeOK'
  <2>1. \A d \in Calls : call'[d].listed => Position(call[d].code)' # {}
    <3> TAKE d \in Calls
    <3>1. call'[d].code = call[d].code
      BY DEF Told
    <3> QED BY <3>1, <1>4 DEF Position
  <2>2. edit'.listed => Position(edit.code)' # {}
    BY <1>4 DEF Position
  <2>3. \A d \in Calls : call'[d].form => edit' = [code |-> call'[d].code, listed |-> call'[d].listed]
    <3> SUFFICES ASSUME NEW d \in Calls, call'[d].form
                 PROVE  edit' = [code |-> call'[d].code, listed |-> call'[d].listed]
      OBVIOUS
    <3>1. call[d].form /\ call'[d].code = call[d].code
      BY DEF Told
    <3>2. edit'.code = call'[d].code
      BY <1>1, <3>1
    <3>3. call'[d].listed \in BOOLEAN /\ edit'.listed \in BOOLEAN /\ (call'[d].listed <=> edit'.listed)
      BY <3>1 DEF CallType
    <3>4. edit'.listed = call'[d].listed
      BY <3>3
    <3> QED BY <3>2, <3>4
  <2> QED BY <1>1, <1>2, <2>1, <2>2, <2>3 DEF TypeOK, Link
<1>6. Sensible'
  <2>1. edit' # NoEdit => edit'.code \in Code
    BY DEF Inv, Sensible
  <2>2. \A d \in Calls :
          /\ call'[d].kind = call[d].kind /\ call'[d].code = call[d].code
          /\ call'[d].form = call[d].form /\ call'[d].ok = call[d].ok /\ call'[d].seen = call[d].seen
    BY DEF Told
  <2> QED BY <2>1, <2>2 DEF Inv, Sensible
<1>7. ListHolds'
  <2> SUFFICES ASSUME NEW c \in Code \ doubt'
               PROVE  Pending(c)' \/ Right(c)'
    BY DEF ListHolds
  <2>1. CASE c = e.code
    <3>1. Urls(links', c) = IF e.url = 0 THEN {} ELSE {e.url}
      BY <2>1
    <3> QED BY <1>2, <2>1, <3>1 DEF Right
  <2>2. CASE c # e.code
    <3>1. c \in Code \ doubt /\ Same(links, links', c)
      BY <2>2
    <3>2. Pending(c) \/ Right(c)
      BY <3>1 DEF Inv, ListHolds
    <3> QED BY <1>2, <2>2, <3>1, <3>2 DEF Same, Right, Reached
  <2> QED BY <2>1, <2>2
<1>8. EchoComes'
  <2> SUFFICES ASSUME NEW d \in Calls, call'[d].ok, call'[d].kind = "put", call'[d].listed
               PROVE  Pending(call[d].code)' \/ call'[d].code \in doubt'
    BY DEF EchoComes
  <2> DEFINE c == call[d].code
             new == call'[d].code
  <2>1. call[d].ok /\ call[d].kind = "put" /\ call[d].listed /\ new = c
    BY DEF Told
  <2>2. Pending(c) \/ c \in doubt
    BY <2>1 DEF Inv, EchoComes
  <2>3. c # e.code \/ e.code \in doubt'
    OBVIOUS
  <2>4. Pending(c) /\ c # e.code => \E i \in DOMAIN feed' : feed'[i].code = new
    <3>1. \A h : Pending(h) /\ h # e.code => \E i \in DOMAIN feed' : feed'[i].code = h
      BY <1>2 DEF Pending
    <3> QED BY <2>1, <3>1
  <2>5. c \in doubt => c \in doubt' \/ c = e.code
    OBVIOUS
  <2>6. (\E i \in DOMAIN feed' : feed'[i].code = new) \/ new \in doubt'
    BY <2>1, <2>2, <2>3, <2>4, <2>5
  <2> QED BY <2>6 DEF Pending
<1> QED BY <1>2, <1>3, <1>5, <1>6, <1>7, <1>8 DEF Inv

LEMMA LostStep == Inv /\ Lost => Inv'
<1> SUFFICES ASSUME Inv, Lost PROVE Inv'
  OBVIOUS
<1> DEFINE e == Head(feed)
<1>1. /\ feed # <<>> /\ feed' = Tail(feed) /\ doubt' = doubt \cup {e.code}
      /\ UNCHANGED <<repo, writes, links, cursor, rows, edit, dialog>>
      /\ call' = [d \in Calls |-> [call[d] EXCEPT !.missed = Missed(call[d], e)]]
  BY DEF Lost
<1>2. /\ TypeOK /\ FeedCatchesUp /\ call \in [Calls -> CallType] /\ links \in Seq(Link)
      /\ rows \subseteq Code /\ doubt \subseteq Code /\ edit \in [code : 0..Codes, listed : BOOLEAN]
      /\ edit.listed => Position(edit.code) # {}
      /\ \A d \in Calls : /\ call[d].listed => Position(call[d].code) # {}
                          /\ call[d].form => edit = [code |-> call[d].code, listed |-> call[d].listed]
  BY DEF Inv, TypeOK, Link
<1>3. e \in [code : Code, url : 0..MaxWrites] /\ e.code \in Code
  BY <1>1, <1>2, GoneFacts
<1> HIDE DEF e
<1>4. call' \in [Calls -> CallType] /\ \A d \in Calls : Told(call[d], call'[d], e) /\ call'[d].listed = call[d].listed
  BY <1>1, <1>2, <1>3, ToldFacts
<1>5. \A d \in Calls :
        /\ call'[d].listed => call[d].listed /\ Urls(links', call[d].code) # {}
        /\ call[d].form => (call'[d].listed <=> edit'.listed)
  <2> TAKE d \in Calls
  <2>1. call'[d].listed => call[d].listed /\ Urls(links', call[d].code) # {}
    BY <1>1, <1>2, <1>4, PositionFacts
  <2>2. ASSUME call[d].form PROVE call'[d].listed <=> edit'.listed
    <3>1. edit.listed = call[d].listed
      BY <1>2, <2>2
    <3> QED BY <1>1, <1>4, <3>1
  <2> QED BY <2>1, <2>2
<1>6. edit'.listed => Urls(links', edit.code) # {}
  BY <1>1, <1>2, PositionFacts
<1>7. \A c : Same(links, links', c)
  BY <1>1 DEF Same
<1>8. doubt' \subseteq Code /\ e.code \in doubt' /\ doubt \subseteq doubt' \cup {e.code}
  BY <1>1, <1>2, <1>3
<1> QED BY <1>1, <1>2, <1>4, <1>5, <1>6, <1>7, <1>8, GoneStep DEF e

LEMMA ApplyRemoteStep == Inv /\ ApplyRemote => Inv'
<1> SUFFICES ASSUME Inv, ApplyRemote PROVE Inv'
  OBVIOUS
<1> DEFINE e == Head(feed)
           quiet == e.url = 0 /\ Position(e.code) = {}
           list == IF quiet THEN links ELSE Spliced(e)
<1>1. /\ feed # <<>> /\ feed' = Tail(feed) /\ UNCHANGED <<repo, writes, cursor, dialog>>
      /\ call' = [d \in Calls |-> [call[d] EXCEPT !.missed = Missed(call[d], e),
                                                  !.listed = @ /\ call[d].code # e.code]]
      /\ doubt' = IF Position(e.code) \subseteq First(e.code) THEN doubt \ {e.code}
                  ELSE doubt \cup {e.code}
      /\ IF quiet THEN UNCHANGED <<links, rows, edit>> ELSE Rebuilt(e.code, Spliced(e))
  BY DEF ApplyRemote
<1>2. /\ TypeOK /\ FeedCatchesUp /\ call \in [Calls -> CallType] /\ links \in Seq(Link)
      /\ rows \subseteq Code /\ doubt \subseteq Code /\ edit \in [code : 0..Codes, listed : BOOLEAN]
      /\ edit.listed => Position(edit.code) # {}
      /\ \A d \in Calls : /\ call[d].listed => Position(call[d].code) # {}
                          /\ call[d].form => edit = [code |-> call[d].code, listed |-> call[d].listed]
  BY DEF Inv, TypeOK, Link
<1>3. e \in [code : Code, url : 0..MaxWrites] /\ e.code \in Code
  BY <1>1, <1>2, GoneFacts
<1>4. list = IF e.url = 0 /\ Position(e.code) = {} THEN links ELSE Spliced(e)
  OBVIOUS
<1> HIDE DEF e, list
<1>5. /\ list \in Seq(Link)
      /\ \A c : c # e.code => Same(links, list, c)
      /\ Position(e.code) \subseteq First(e.code) =>
           Once(list, e.code) /\ Urls(list, e.code) = IF e.url = 0 THEN {} ELSE {e.url}
  BY <1>2, <1>3, <1>4, SplicedFacts
<1>6. \A d \in Calls :
        /\ call'[d] \in CallType /\ Told(call[d], call'[d], e)
        /\ call'[d].listed <=> call[d].listed /\ call[d].code # e.code
  <2> TAKE d \in Calls
  <2> DEFINE h == call[d]
             drop == e.code
  <2>1. h \in CallType
    BY <1>2
  <2>2. call'[d] = [h EXCEPT !.missed = Missed(h, e), !.listed = @ /\ h.code # drop]
    BY <1>1
  <2> HIDE DEF h, drop
  <2>3. call'[d] \in CallType /\ Told(h, call'[d], e) /\ (call'[d].listed <=> h.listed /\ h.code # drop)
    BY <1>3, <2>1, <2>2, ToldAndDropped
  <2> QED BY <2>3 DEF h, drop
<1>7. call' \in [Calls -> CallType]
  <2>1. call' = [d \in Calls |-> call'[d]]
    BY <1>1
  <2> QED BY <1>6, <2>1
<1>8. \A d \in Calls : Told(call[d], call'[d], e) /\ (call'[d].listed <=> call[d].listed /\ call[d].code # e.code)
  BY <1>6
<1>9. /\ links' = list /\ rows' \subseteq Code
      /\ edit'.code = edit.code /\ edit' \in [code : 0..Codes, listed : BOOLEAN]
      /\ edit'.listed <=> edit.listed /\ edit.code # e.code
      /\ edit = NoEdit => edit' = NoEdit
  <2>1. CASE quiet
    <3>1. edit.listed => edit.code # e.code
      BY <1>2, <2>1
    <3> QED BY <1>1, <1>2, <2>1, <3>1 DEF list
  <2>2. CASE ~quiet
    <3>1. list = Spliced(e) /\ Rebuilt(e.code, list)
      BY <1>1, <2>2 DEF list
    <3>2. CASE edit = NoEdit
      <4>1. links' = list /\ edit' = NoEdit /\ rows' = {list[i].code : i \in DOMAIN list}
        BY <3>1, <3>2 DEF Rebuilt, Draw
      <4>2. \A i \in DOMAIN list : list[i].code \in Code
        BY <1>5, ListFacts DEF Link
      <4>3. ~NoEdit.listed
        BY DEF NoEdit
      <4> QED BY <1>2, <3>2, <4>1, <4>2, <4>3
    <3>3. CASE edit # NoEdit
      <4>1. links' = list /\ rows' = rows /\ edit' = [edit EXCEPT !.listed = @ /\ edit.code # e.code]
        BY <3>1, <3>3 DEF Rebuilt
      <4> QED BY <1>2, <3>3, <4>1
    <3> QED BY <3>2, <3>3
  <2> QED BY <2>1, <2>2
<1>10. \A c \in Code \ {e.code} : Same(links, links', c)
  BY <1>5, <1>9
<1>11. \A c : c # e.code /\ Position(c) # {} => Urls(links', c) # {}
  BY <1>5, <1>9, PositionFacts DEF Same
<1>12. edit'.listed => Urls(links', edit.code) # {}
  BY <1>2, <1>9, <1>11
<1>13. \A d \in Calls : call'[d].listed => call[d].listed /\ Urls(links', call[d].code) # {}
  BY <1>2, <1>8, <1>11
<1>14. \A d \in Calls : call[d].form => (call'[d].listed <=> edit'.listed)
  <2> SUFFICES ASSUME NEW d \in Calls, call[d].form PROVE call'[d].listed <=> edit'.listed
    OBVIOUS
  <2>1. edit.code = call[d].code /\ edit.listed = call[d].listed
    BY <1>2
  <2> QED BY <1>8, <1>9, <2>1
<1>15. doubt' \subseteq Code /\ doubt \subseteq doubt' \cup {e.code}
  BY <1>1, <1>2, <1>3
<1>16. e.code \notin doubt' => Position(e.code) \subseteq First(e.code)
  BY <1>1
<1>17. e.code \notin doubt' => Urls(links', e.code) = IF e.url = 0 THEN {} ELSE {e.url}
  BY <1>5, <1>9, <1>16
<1>18. links' \in Seq(Link)
  BY <1>5, <1>9
<1> QED
  BY <1>1, <1>7, <1>8, <1>9, <1>10, <1>12, <1>13, <1>14, <1>15, <1>17, <1>18, GoneStep DEF e

-----------------------------------------------------------------------------
(* Every step keeps the invariant. *)
LEMMA NextStep == Inv /\ [Next]_vars => Inv'
<1> SUFFICES ASSUME Inv, [Next]_vars PROVE Inv'
  OBVIOUS
<1>1. ASSUME NEW k \in Calls, Serve(k) PROVE Inv'
  BY <1>1, ServeStep
<1>2. ASSUME NEW k \in Calls, Loaded(k) PROVE Inv'
  BY <1>2, LoadedStep
<1>3. ASSUME NEW k \in Calls, MadeAnswer(k) PROVE Inv'
  BY <1>3, MadeAnswerStep
<1>4. ASSUME NEW k \in Calls, SaveAnswer(k) PROVE Inv'
  BY <1>4, SaveAnswerStep
<1>5. ASSUME NEW k \in Calls, DeleteAnswer(k) PROVE Inv'
  BY <1>5, DeleteAnswerStep
<1>6. ASSUME NEW c \in Code, Elsewhere(c) PROVE Inv'
  BY <1>6, ElsewhereStep
<1>7. ASSUME NEW c \in Code, Make(c) PROVE Inv'
  BY <1>7, MakeStep
<1>8. ASSUME NEW c \in Code, OpenEdit(c) PROVE Inv'
  BY <1>8, OpenEditStep
<1>9. ASSUME NEW c \in Code, AskDelete(c) PROVE Inv'
  BY <1>9, AskDeleteStep
<1>10. CASE More
  BY <1>10, MoreStep
<1>11. CASE Cancel \/ Redraw
  BY <1>11, CancelStep, RedrawStep
<1>12. CASE Save \/ Confirm \/ Dismiss
  BY <1>12, SaveStep, ConfirmStep, DismissStep
<1>13. CASE ApplyRemote
  BY <1>13, ApplyRemoteStep
<1>14. CASE Lost
  BY <1>14, LostStep
<1>15. CASE UNCHANGED vars
  <2>1. UNCHANGED <<server, page>> /\ UNCHANGED call
    BY <1>15 DEF vars, server, page
  <2>2. call \in [Calls -> CallType] /\ \A k \in Calls : Alike(call[k], call[k])
    BY DEF Inv, TypeOK, Alike, SameAnswer
  <2> QED BY <2>1, <2>2, CallsStep, PageStays
<1> QED BY <1>1, <1>2, <1>3, <1>4, <1>5, <1>6, <1>7, <1>8, <1>9, <1>10, <1>11, <1>12, <1>13, <1>14, <1>15
        DEF Next

LEMMA Invariance == Spec => []Inv
<1>1. Init => Inv
  BY InitInv
<1>2. Inv /\ [Next]_vars => Inv'
  BY NextStep
<1> QED BY <1>1, <1>2, PTL DEF Spec

-----------------------------------------------------------------------------
(* Forms and calls that count as being about a listed link are about one, and
   no more than the open form has its PUT on the way (openEdit, submit). *)
THEOREM TypeCorrect == Spec => []TypeOK
<1>1. Inv => TypeOK
  BY DEF Inv
<1> QED BY <1>1, Invariance, PTL

(* What the list shows is what the repository holds, but for commits that are on
   their way and for the links in doubt: a commit about them was lost or reached
   one of two rows only, or a page or an answer was wrong about them (save,
   applyRemote, load). *)
THEOREM ListIsTrueHolds == Spec => []ListIsTrue
<1>1. Inv => ListIsTrue
  <2> SUFFICES ASSUME Inv, NEW i \in DOMAIN links, links[i].code \notin doubt
               PROVE  Pending(links[i].code) \/ links[i].url = repo[links[i].code]
    BY DEF ListIsTrue
  <2> DEFINE c == links[i].code
  <2>1. c \in Code
    <3>1. links \in Seq(Link)
      BY DEF Inv, TypeOK, Link
    <3> QED BY <3>1, ListFacts DEF Link
  <2>2. Pending(c) \/ Right(c)
    BY <2>1 DEF Inv, ListHolds
  <2>3. links[i].url \in Urls(links, c)
    BY DEF Urls, At
  <2> QED BY <2>2, <2>3 DEF Right
<1> QED BY <1>1, Invariance, PTL

(* No link of the pages loaded so far is left out of the list, with the same
   exceptions (load, applyRemote). *)
THEOREM ListIsCompleteHolds == Spec => []ListIsComplete
<1>1. Inv => ListIsComplete
  <2> SUFFICES ASSUME Inv, NEW c \in Code \ doubt, repo[c] # 0, Reached(c), ~Pending(c)
               PROVE  Position(c) # {}
    BY DEF ListIsComplete
  <2>1. Right(c)
    BY DEF Inv, ListHolds
  <2> QED BY <2>1, PositionFacts DEF Right
<1> QED BY <1>1, Invariance, PTL

(* A list in which a code has no second entry before a step and one after it. *)
LEMMA TwiceFacts ==
  ASSUME links \in Seq(Link), links' \in Seq(Link), NEW c \in Twice' \ Twice
  PROVE  c \in Code /\ Once(links, c) /\ ~Once(links', c)
<1>1. PICK i, j \in DOMAIN links' : i < j /\ links'[i].code = c /\ links'[j].code = c
  BY DEF Twice
<1>2. i \in Int /\ j \in Int /\ i \in At(links', c) /\ j \in At(links', c)
  BY <1>1, ListFacts DEF At
<1>3. ~Once(links', c)
  BY <1>1, <1>2 DEF Once
<1>4. c \in Code /\ \A a, b \in DOMAIN links : links[a].code = c /\ links[b].code = c => ~(a < b)
  BY DEF Twice
<1>5. ASSUME NEW a \in At(links, c), NEW b \in At(links, c) PROVE a = b
  <2>1. a \in Int /\ b \in Int
    BY ListFacts DEF At
  <2> QED BY <1>4, <2>1 DEF At
<1> QED BY <1>3, <1>4, <1>5 DEF Once

(* Neither the answer to a repointing or a deletion nor a commit lists a code
   twice that was listed once, and a page does so only when it extends the list. *)
LEMMA SavedOnce ==
  ASSUME Inv, NEW k \in Calls, SaveAnswer(k), NEW c, Once(links, c)
  PROVE  Once(links', c)
<1> DEFINE d == call[k]
<1>1. CASE Failed(k)
  BY <1>1 DEF Failed, page
<1>2. ASSUME NEW url \in 1..MaxWrites, Draw(Saved(d, url)) PROVE Once(links', c)
  <2> DEFINE e == Entry(d.code, url)
             list == Saved(d, url)
  <2>1. d \in CallType /\ links \in Seq(Link) /\ d.kind = "put"
    BY DEF Inv, TypeOK, Link, SaveAnswer
  <2>2. d.code \in Code /\ d.listed \in BOOLEAN
    BY <2>1 DEF Inv, Sensible, CallType
  <2>3. e \in Link /\ e.code = d.code
    BY <2>2 DEF Entry, Link
  <2>4. list = Replaced(e, d.listed)
    BY <2>3 DEF Saved, Replaced
  <2>5. links' = list
    BY <1>2 DEF Draw
  <2> HIDE DEF d, e, list
  <2> QED BY <2>1, <2>2, <2>3, <2>4, <2>5, ReplaceFacts
<1> QED BY <1>1, <1>2 DEF SaveAnswer

LEMMA DeletedOnce ==
  ASSUME Inv, NEW k \in Calls, DeleteAnswer(k), NEW c, Once(links, c)
  PROVE  Once(links', c)
<1>1. CASE Failed(k)
  BY <1>1 DEF Failed, page
<1>2. CASE Draw(Without(call[k].code))
  <2> DEFINE S == DOMAIN links \ Position(call[k].code)
  <2>1. links' = Keep(S) /\ S \in SUBSET DOMAIN links
    BY <1>2 DEF Draw, Without
  <2>2. links \in Seq(Link)
    BY DEF Inv, TypeOK, Link
  <2> HIDE DEF S
  <2> QED BY <2>1, <2>2, KeepFacts
<1> QED BY <1>1, <1>2 DEF DeleteAnswer

LEMMA RemoteOnce ==
  ASSUME Inv, ApplyRemote, NEW c, Once(links, c)
  PROVE  Once(links', c)
<1> DEFINE e == Head(feed)
           list == IF e.url = 0 /\ Position(e.code) = {} THEN links ELSE Spliced(e)
<1>1. TypeOK /\ FeedCatchesUp /\ links \in Seq(Link) /\ feed # <<>> /\ feed' = Tail(feed) /\ repo' = repo
  BY DEF Inv, TypeOK, Link, ApplyRemote
<1>2. e \in [code : Code, url : 0..MaxWrites]
  BY <1>1, GoneFacts
<1>3. links' = list
  BY DEF ApplyRemote, Rebuilt, Draw
<1>4. list = IF e.url = 0 /\ Position(e.code) = {} THEN links ELSE Spliced(e)
  OBVIOUS
<1> HIDE DEF e, list
<1>5. /\ \A d : d # e.code => Same(links, list, d)
      /\ Position(e.code) \subseteq First(e.code) => Once(list, e.code)
  BY <1>1, <1>2, <1>4, SplicedFacts
<1>6. CASE c = e.code
  BY <1>1, <1>3, <1>5, <1>6, PositionFacts
<1>7. CASE c # e.code
  BY <1>3, <1>5, <1>7 DEF Same
<1> QED BY <1>6, <1>7

LEMMA LoadedOnce ==
  ASSUME Inv, NEW k \in Calls, Loaded(k), NEW c \in Code, Once(links, c), ~Once(links', c)
  PROVE  call[k].kind = "more" /\ call[k].seen[c] # 0 /\ c \in Scope(call[k]) /\ call'[k] = Idle
<1> DEFINE d == call[k]
           at == {b \in Scope(d) : d.seen[b] # 0}
           list == [i \in 1..Cardinality(at) |-> Entry(Ascending(at)[i], d.seen[Ascending(at)[i]])]
<1>1. Landed(k)
  BY DEF Loaded, Failed, page
<1>2. \/ d.kind = "more" /\ links' = links \o list /\ Over(k, {})
      \/ d.kind # "more" /\ links' = list
  BY <1>1 DEF Landed, Draw
<1>3. d.kind \in Listing /\ at = OnPage(d) /\ list = PageOf(at, d.seen)
  BY DEF Loaded, PageOf, OnPage
<1>4. TypeOK /\ links \in Seq(Link)
  BY DEF Inv, TypeOK, Link
<1> HIDE DEF at, list
<1>5. /\ list \in Seq(Link) /\ \A b : Once(list, b)
      /\ \A b : b \notin at => Urls(list, b) = {}
  BY <1>3, LandedFacts
<1>6. d.kind = "more" /\ links' = links \o list /\ Over(k, {})
  BY <1>2, <1>5
<1>7. Urls(list, c) # {}
  BY <1>4, <1>5, <1>6, ConcatFacts
<1>8. c \in at
  BY <1>5, <1>7
<1>9. call'[k] = Idle
  BY <1>4, <1>6, OverFacts
<1> QED BY <1>3, <1>6, <1>8, <1>9 DEF OnPage

(* A link gets a second row only from a page of "Load more" that holds it, not
   from a commit, the echo of one's own write included, nor from the answer to a
   repointing or a deletion or a reload (load, save, applyRemote). *)
THEOREM ListedOnceHolds == Spec => ListedOnce
<1>1. Inv /\ Inv' /\ [Next]_vars =>
        [\A c \in Twice' \ Twice :
           \E k \in Calls : /\ call[k].kind = "more" /\ call[k].seen[c] # 0
                            /\ c \in Scope(call[k]) /\ call'[k] = Idle]_vars
  <2> SUFFICES ASSUME Inv, Inv', Next, NEW c \in Twice' \ Twice
               PROVE  \E k \in Calls : /\ call[k].kind = "more" /\ call[k].seen[c] # 0
                                       /\ c \in Scope(call[k]) /\ call'[k] = Idle
    OBVIOUS
  <2>1. links \in Seq(Link) /\ links' \in Seq(Link)
    BY DEF Inv, TypeOK, Link
  <2>2. c \in Code /\ Once(links, c) /\ ~Once(links', c)
    BY <2>1, TwiceFacts
  <2>3. ASSUME UNCHANGED links PROVE FALSE
    BY <2>2, <2>3
  <2>4. ASSUME NEW k \in Calls, Loaded(k)
        PROVE  /\ call[k].kind = "more" /\ call[k].seen[c] # 0
               /\ c \in Scope(call[k]) /\ call'[k] = Idle
    BY <2>2, <2>4, LoadedOnce
  <2>5. ASSUME NEW k \in Calls, SaveAnswer(k) \/ DeleteAnswer(k) PROVE FALSE
    BY <2>2, <2>5, SavedOnce, DeletedOnce
  <2>6. CASE ApplyRemote
    BY <2>2, <2>6, RemoteOnce
  <2>7. ASSUME NEW k \in Calls, Serve(k) \/ MadeAnswer(k) PROVE FALSE
    BY <2>3, <2>7 DEF Serve, MadeAnswer, page
  <2>8. ASSUME NEW d \in Code, Elsewhere(d) \/ Make(d) \/ OpenEdit(d) \/ AskDelete(d) PROVE FALSE
    BY <2>3, <2>8 DEF Elsewhere, Make, OpenEdit, AskDelete, page
  <2>9. CASE More \/ Redraw \/ Cancel \/ Save \/ Confirm \/ Dismiss \/ Lost
    BY <2>3, <2>9 DEF More, Redraw, Draw, Cancel, Save, Confirm, Dismiss, Lost, page
  <2> QED BY <2>4, <2>5, <2>6, <2>7, <2>8, <2>9 DEF Next
<1> QED BY <1>1, Invariance, PTL DEF Spec, ListedOnce
=============================================================================
