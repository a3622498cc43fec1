---------------------------- MODULE MCLinkStore ----------------------------
(* Limits for LinkStore: below, within and above what the PDS accepts, or no
   walk at all. *)
EXTENDS LinkStore

EdgeLimits == {0, 1, MaxPageSize + 1}
NoLimits == {}

(* Either requests race on one code of a repository, or a client walks the
   list while at most one request is served, whose handler goes on waiting: what
   it answers is nothing to the walk. *)
Scenario ==
  \/ Len(request) <= 1 /\ \A r \in DOMAIN request : request[r].step = "sent"
  \/ /\ walk.step = "new"
     /\ \A r \in DOMAIN request : request[r].code = 1
     /\ \A c \in Code \ {1} : repo[c] = NoRecord
=============================================================================
