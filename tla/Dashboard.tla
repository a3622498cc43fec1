----------------------------- MODULE Dashboard -----------------------------
(***************************************************************************)
(* The owner's list of links (src/static/dashboard.js): it is loaded page  *)
(* by page, changed by what the owner does here, and by commits that other *)
(* clients of the same repository make, which arrive over the subscription *)
(* (Jetstream) or, while that is paused or reconnecting, do not. Each      *)
(* answer and each commit runs one callback, in any order the network      *)
(* chooses; the server answers a call at some moment between its being     *)
(* sent and its callback.                                                  *)
(*                                                                         *)
(* One edit form is open at a time. A link's destination is the number of  *)
(* its write.                                                              *)
(*                                                                         *)
(* Two parts of the state are history, which no handler reads: a call's    *)
(* missed and the list's doubt, the codes of which the one and the other   *)
(* may say something that is no longer so.                                 *)
(***************************************************************************)
EXTENDS Integers, Sequences, FiniteSets

CONSTANTS
  Codes,      \* record keys are 1..Codes, in the order in which they are listed
  PageSize,   \* PAGE
  MaxWrites,  \* bound on writes
  Calls,      \* what tells apart the calls in flight at one time
  Lossy       \* whether commits pass by while nobody is subscribed

ASSUME DashboardAssumption ==
  /\ Codes \in Nat \ {0} /\ PageSize \in Nat \ {0} /\ MaxWrites \in Nat \ {0}
  /\ Lossy \in BOOLEAN

VARIABLES
  repo,    \* external: the destination under each code, or 0
  writes,  \* how many writes there were
  feed,    \* external: commits on their way to the subscription
  links,   \* the list in memory
  cursor,  \* where the next page starts, or 0
  rows,    \* the rack: the codes of the rows in the document
  edit,    \* the open edit form: its code, and whether its link is in the list
  dialog,  \* the code that the open dialog asks about deleting, or 0
  call,    \* the calls in flight
  doubt    \* history: codes the list may be wrong about

vars == <<repo, writes, feed, links, cursor, rows, edit, dialog, call, doubt>>
server == <<repo, writes, feed>>
page == <<links, cursor, rows, edit, dialog, doubt>>

Code == 1..Codes
NoEdit == [code |-> 0, listed |-> FALSE]
Entry(c, url) == [code |-> c, url |-> url]

(* The elements of a set of numbers in their order. *)
Ascending(S) ==
  CHOOSE p \in [1..Cardinality(S) -> S] :
    \A i, j \in 1..Cardinality(S) : i < j => p[i] < p[j]

(* A call: what it is about, whether its link is (still) in the list and its
   form (still) open, and, once it was served, what the repository held then. *)
Call(kind, c, listed) ==
  [kind |-> kind, code |-> c, listed |-> listed, form |-> kind = "put",
   served |-> FALSE, ok |-> FALSE, next |-> 0, seen |-> [d \in Code |-> 0], missed |-> {}]

Idle == Call("none", 0, FALSE)
Listing == {"load", "reload", "more"}

Send(new) == \E k \in Calls : call[k] = Idle /\ call' = [call EXCEPT ![k] = new]

(* load(false) as the page opens *)
Init ==
  /\ repo \in [Code -> 0..1] /\ writes = 1
  /\ feed = <<>> /\ links = <<>> /\ cursor = 0 /\ rows = {} /\ edit = NoEdit
  /\ dialog = 0
  /\ \E k \in Calls : call = [d \in Calls |-> IF d = k THEN Call("load", 0, FALSE) ELSE Idle]
  /\ doubt = Code

-----------------------------------------------------------------------------
(* The server, and the repository behind it. *)
Commit(c, url) ==
  /\ repo' = [repo EXCEPT ![c] = url]
  /\ feed' = Append(feed, Entry(c, url))

(* What a call's answer tells of: the codes of its page, or the one deleted. *)
Scope(d) ==
  {c \in Code : \/ d.kind \in Listing /\ d.code < c /\ (d.next = 0 \/ c <= d.next)
                \/ d.kind = "delete" /\ c = d.code}

(* Where a page ends: PageSize links after the call's cursor, and the last one's
   code as the next cursor unless the page is short. *)
EndsPage(d, n) ==
  LET after == {c \in Code : repo[c] # 0 /\ c > d.code} IN
  IF n = 0 THEN Cardinality(after) < PageSize
  ELSE n \in after /\ Cardinality({c \in after : c <= n}) = PageSize

Answer(k, n) ==
  LET d == [call[k] EXCEPT !.served = TRUE, !.ok = TRUE, !.next = n] IN
  call' = [call EXCEPT ![k] =
             [d EXCEPT !.seen = [c \in Code |-> IF c \in Scope(d) THEN repo'[c] ELSE 0]]]

Error(k) == call' = [call EXCEPT ![k].served = TRUE]

list_links(k) ==
  /\ call[k].kind \in Listing /\ UNCHANGED server
  /\ \E n \in 0..Codes : EndsPage(call[k], n) /\ Answer(k, n)

(* A write: POST creates only, PUT overwrites. It may take effect and its answer
   be an error all the same. *)
Written(k) ==
  /\ writes < MaxWrites /\ writes' = writes + 1
  /\ Commit(call[k].code, writes')
  /\ Answer(k, 0) \/ Error(k)

shorten(k) == call[k].kind = "post" /\ repo[call[k].code] = 0 /\ Written(k)
update_link(k) == call[k].kind = "put" /\ Written(k)

delete_link(k) ==
  /\ call[k].kind = "delete"
  /\ IF repo[call[k].code] = 0 THEN UNCHANGED <<repo, feed>> ELSE Commit(call[k].code, 0)
  /\ Answer(k, 0) \/ Error(k)
  /\ UNCHANGED writes

(* Refused on the way, or a POST's code is taken. *)
Refused(k) == call[k].kind # "none" /\ Error(k) /\ UNCHANGED server

Serve(k) ==
  /\ ~call[k].served
  /\ list_links(k) \/ shorten(k) \/ update_link(k) \/ delete_link(k) \/ Refused(k)
  /\ UNCHANGED page

(* Another client writes or deletes a link. *)
Elsewhere(c) ==
  /\ writes < MaxWrites /\ writes' = writes + 1
  /\ Commit(c, writes') \/ (repo[c] # 0 /\ Commit(c, 0))
  /\ UNCHANGED <<page, call>>

-----------------------------------------------------------------------------
(* draw(): the rack is emptied first, an edit form in it included. *)
Draw(list) ==
  /\ links' = list /\ rows' = {list[i].code : i \in DOMAIN list}
  /\ edit' = NoEdit

(* The list as it is, but for the entries at some places. *)
Keep(places) ==
  LET at == Ascending(places) IN [i \in 1..Cardinality(places) |-> links[at[i]]]

Position(c) == {i \in DOMAIN links : links[i].code = c}
First(c) == {i \in Position(c) : \A j \in Position(c) : i <= j}
Without(c) == Keep(DOMAIN links \ Position(c))

(* A callback is over: all forms are closed, and the links with some codes are
   no longer those that the other calls closed over. *)
Over(k, forgotten) ==
  call' = [d \in Calls |-> IF d = k THEN Idle
             ELSE [call[d] EXCEPT !.form = FALSE, !.listed = @ /\ call[d].code \notin forgotten]]

(* An answer that is an error changes nothing but the message shown. *)
Failed(k) == ~call[k].ok /\ call' = [call EXCEPT ![k] = Idle] /\ UNCHANGED page

(* load(): the answer replaces the list or extends it, with links that are
   listed already too. What lies between the cursor and its start is not shown. *)
Landed(k) ==
  LET d == call[k]
      at == {c \in Scope(d) : d.seen[c] # 0}
      list == [i \in 1..Cardinality(at) |-> Entry(Ascending(at)[i], d.seen[Ascending(at)[i]])]
      skipped == {c \in Code : cursor # 0 /\ cursor < c /\ c <= d.code}
  IN  /\ d.ok /\ cursor' = d.next
      /\ IF d.kind = "more"
           THEN /\ Draw(links \o list) /\ Over(k, {})
                /\ doubt' = doubt \cup d.missed \cup skipped
           ELSE Draw(list) /\ Over(k, Code) /\ doubt' = d.missed

Loaded(k) ==
  /\ call[k].served /\ call[k].kind \in Listing
  /\ (Landed(k) /\ UNCHANGED dialog) \/ Failed(k)
  /\ UNCHANGED server

(* What follows, up to Dismiss, is done by the visitor, who reaches nothing but
   the dialog while that is open. *)
More ==
  /\ dialog = 0 /\ cursor # 0 /\ \A d \in Calls : call[d].kind # "more"
  /\ Send(Call("more", cursor, FALSE))
  /\ UNCHANGED <<server, page>>

(* The form: POST, and a reload once it has succeeded; its button is disabled
   until both are over. *)
Make(c) ==
  /\ dialog = 0 /\ \A d \in Calls : call[d].kind \notin {"post", "reload"}
  /\ Send(Call("post", c, FALSE))
  /\ UNCHANGED <<server, page>>

(* openEdit(): of a row whose code is in the list. *)
OpenEdit(c) ==
  /\ dialog = 0 /\ edit = NoEdit /\ Position(c) # {} /\ c \in rows
  /\ edit' = [code |-> c, listed |-> TRUE]
  /\ UNCHANGED <<server, links, cursor, rows, dialog, call, doubt>>

(* The filter or the order changes: draw(), of what is listed already. *)
Redraw ==
  /\ dialog = 0 /\ Draw(links)
  /\ call' = [d \in Calls |-> [call[d] EXCEPT !.form = FALSE]]
  /\ UNCHANGED <<server, cursor, dialog, doubt>>

(* Cancel removes the form and nothing else. *)
Cancel ==
  /\ dialog = 0 /\ edit # NoEdit /\ edit' = NoEdit
  /\ call' = [d \in Calls |-> [call[d] EXCEPT !.form = FALSE]]
  /\ UNCHANGED <<server, links, cursor, rows, dialog, doubt>>

(* The form's button is disabled while its own PUT is on its way; closed, the
   form leaves the PUT behind. *)
Save ==
  /\ dialog = 0 /\ edit # NoEdit /\ \A d \in Calls : ~call[d].form
  /\ Send(Call("put", edit.code, edit.listed))
  /\ UNCHANGED <<server, page>>

(* askDelete(): the dialog opens over a row whose code is in the list, and may
   still be open when a commit has changed or removed the link. *)
AskDelete(c) ==
  /\ dialog = 0 /\ Position(c) # {} /\ c \in rows
  /\ dialog' = c
  /\ UNCHANGED <<server, links, cursor, rows, edit, call, doubt>>

Confirm ==
  /\ dialog # 0 /\ dialog' = 0
  /\ Send(Call("delete", dialog, FALSE))
  /\ UNCHANGED <<server, links, cursor, rows, edit, doubt>>

Dismiss ==
  /\ dialog # 0 /\ dialog' = 0
  /\ UNCHANGED <<server, links, cursor, rows, edit, call, doubt>>

MadeAnswer(k) ==
  /\ call[k].served /\ call[k].kind = "post"
  /\ call' = [call EXCEPT ![k] = IF call[k].ok THEN Call("reload", 0, FALSE) ELSE Idle]
  /\ UNCHANGED <<server, page>>

(* The mutant of Saved: whatever link has the code by now. *)
SavedByCode(d, url) ==
  [i \in DOMAIN links |-> IF i \in First(d.code) THEN Entry(d.code, url) ELSE links[i]]

(* The destination is set in the link the form was opened on, wherever it is. *)
Saved(d, url) ==
  [i \in DOMAIN links |-> IF d.listed /\ i \in First(d.code) THEN Entry(d.code, url) ELSE links[i]]

(* It is read from the form's field as the answer arrives: that may be another
   one than was sent, since the visitor can go on typing. *)
SaveAnswer(k) ==
  LET d == call[k] IN
  /\ d.served /\ d.kind = "put"
  /\ \/ /\ d.ok /\ \E url \in 1..MaxWrites : Draw(Saved(d, url))
        /\ Over(k, {}) /\ UNCHANGED <<cursor, dialog, doubt>>
     \/ Failed(k)
  /\ UNCHANGED server

DeleteAnswer(k) ==
  LET d == call[k] IN
  /\ d.served /\ d.kind = "delete"
  /\ \/ /\ d.ok /\ Draw(Without(d.code)) /\ Over(k, {d.code})
        /\ doubt' = (doubt \ {d.code}) \cup d.missed
        /\ UNCHANGED <<cursor, dialog>>
     \/ Failed(k)
  /\ UNCHANGED server

-----------------------------------------------------------------------------
(* An edit in progress holds something the visitor typed: the list changes and
   the rows do not. *)
Rebuilt(c, list) ==
  IF edit = NoEdit THEN Draw(list)
  ELSE /\ links' = list /\ UNCHANGED rows
       /\ edit' = [edit EXCEPT !.listed = @ /\ edit.code # c]

(* A mutant of Spliced: a deletion is taken for a write without a URL. *)
SplicedAsWrite(e) ==
  IF Position(e.code) = {} THEN <<e>> \o links
  ELSE [i \in DOMAIN links |-> IF i \in First(e.code) THEN e ELSE links[i]]

(* A mutant of Spliced: a link that is not listed is not added. *)
SplicedInPlace(e) ==
  IF e.url = 0 THEN Keep(DOMAIN links \ First(e.code))
  ELSE [i \in DOMAIN links |-> IF i \in First(e.code) THEN e ELSE links[i]]

(* A mutant of Spliced: a write always goes to the front, as if no echo of one's
   own came for a link that is listed. *)
SplicedInFront(e) ==
  IF e.url = 0 THEN Keep(DOMAIN links \ First(e.code)) ELSE <<e>> \o links

(* The first entry with the code is replaced or removed, a new one goes to the
   front. *)
Spliced(e) ==
  IF e.url = 0 THEN Keep(DOMAIN links \ First(e.code))
  ELSE IF Position(e.code) = {} THEN <<e>> \o links
  ELSE [i \in DOMAIN links |-> IF i \in First(e.code) THEN e ELSE links[i]]

(* What a served call missed once a commit is gone: what contradicts its answer. *)
Missed(d, e) ==
  IF ~d.ok \/ e.code \notin Scope(d) THEN d.missed
  ELSE IF d.seen[e.code] = e.url THEN d.missed \ {e.code}
  ELSE d.missed \cup {e.code}

(* applyRemote(): a commit is right about its link; where that is listed twice,
   the second entry stays as it was. *)
ApplyRemote ==
  LET e == Head(feed) IN
  /\ feed # <<>> /\ feed' = Tail(feed)
  /\ IF e.url = 0 /\ Position(e.code) = {} THEN UNCHANGED <<links, rows, edit>>
     ELSE Rebuilt(e.code, Spliced(e))
  /\ call' = [d \in Calls |-> [call[d] EXCEPT !.missed = Missed(call[d], e),
                                              !.listed = @ /\ call[d].code # e.code]]
  /\ doubt' = IF Position(e.code) \subseteq First(e.code) THEN doubt \ {e.code}
            ELSE doubt \cup {e.code}
  /\ UNCHANGED <<repo, writes, cursor, dialog>>

(* The subscription is paused or reconnecting as a commit passes by. *)
Lost ==
  LET e == Head(feed) IN
  /\ Lossy /\ feed # <<>> /\ feed' = Tail(feed)
  /\ call' = [d \in Calls |-> [call[d] EXCEPT !.missed = Missed(call[d], e)]]
  /\ doubt' = doubt \cup {e.code}
  /\ UNCHANGED <<repo, writes, links, cursor, rows, edit, dialog>>

Next ==
  \/ \E k \in Calls :
       Serve(k) \/ Loaded(k) \/ MadeAnswer(k) \/ SaveAnswer(k) \/ DeleteAnswer(k)
  \/ \E c \in Code : Elsewhere(c) \/ Make(c) \/ OpenEdit(c) \/ AskDelete(c)
  \/ More \/ Redraw \/ Cancel \/ Save \/ Confirm \/ Dismiss \/ ApplyRemote \/ Lost

Spec == Init /\ [][Next]_vars

-----------------------------------------------------------------------------
CallType ==
  [kind : Listing \cup {"none", "post", "put", "delete"}, code : 0..Codes, listed : BOOLEAN,
   form : BOOLEAN, served : BOOLEAN, ok : BOOLEAN, next : 0..Codes,
   seen : [Code -> 0..MaxWrites], missed : SUBSET Code]

(* A form, or a call from one, that counts as being about a link in the list
   is, and a call whose form is open is a PUT of what that form is about. *)
TypeOK ==
  /\ repo \in [Code -> 0..MaxWrites] /\ writes \in 1..MaxWrites
  /\ feed \in Seq([code : Code, url : 0..MaxWrites])
  /\ links \in Seq([code : Code, url : 1..MaxWrites]) /\ rows \subseteq Code /\ cursor \in 0..Codes
  /\ edit \in [code : 0..Codes, listed : BOOLEAN] /\ dialog \in 0..Codes
  /\ call \in [Calls -> CallType] /\ doubt \subseteq Code
  /\ edit.listed => Position(edit.code) # {}
  /\ \A k \in Calls :
       /\ call[k].listed => Position(call[k].code) # {}
       /\ call[k].form => edit = [code |-> call[k].code, listed |-> call[k].listed]

Pending(c) == \E i \in DOMAIN feed : feed[i].code = c
Reached(c) == cursor = 0 \/ c <= cursor

(* What the list shows is what the repository holds, once every commit has
   arrived and whatever answers are still to come: neither the answer to a
   repointing, overtaken by a write or a deletion elsewhere or by what was typed
   meanwhile, nor the echo of one's own write brings back a destination that has
   been replaced (save, applyRemote). Not claimed of a link in doubt: a commit
   about it was lost, it changed after the server had answered a call whose
   answer was still to come, or after a page had listed it a second time. Doubt
   ends with the next load of the list, one's own deletion of the link, or a
   commit about it while it is listed once. *)
ListIsTrue ==
  \A i \in DOMAIN links : LET c == links[i].code IN
    c \notin doubt => Pending(c) \/ links[i].url = repo[c]

(* Nor is a link left out, of the pages loaded so far: not by a deletion
   followed by a new link under the same code, nor between two pages. *)
ListIsComplete ==
  \A c \in Code \ doubt :
    repo[c] # 0 /\ Reached(c) /\ ~Pending(c) => Position(c) # {}

(* A link gets a second row only from a page of "Load more" that holds it: not
   from the echo of one's own write ("Replacing it in place is idempotent",
   applyRemote), whether it comes before or after the reload that shows the new
   link, nor from an answer to a repointing or a deletion. *)
Twice == {c \in Code : \E i, j \in DOMAIN links : i < j /\ links[i].code = c /\ links[j].code = c}
ListedOnce ==
  [][\A c \in Twice' \ Twice :
       \E k \in Calls : /\ call[k].kind = "more" /\ call[k].seen[c] # 0
                        /\ c \in Scope(call[k]) /\ call'[k] = Idle]_vars

(* "delete a link elsewhere and this page would happily offer to delete it
   again" is what the subscription is there to end: once every call has been
   answered and every commit has arrived, no row is of a deleted link. *)
Quiet == (\A k \in Calls : call[k] = Idle) /\ feed = <<>> /\ edit = NoEdit
NoDeadRow == Quiet => \A c \in rows : repo[c] # 0
=============================================================================
