----------------------------- MODULE MCService -----------------------------
EXTENDS Service

MCSettings ==
  [base |-> {"loopback", "http", "no URL"}, max_age |-> {0}, per_second |-> {0},
   session_file |-> {"dynamodb://", "dynamodb://t", "sessions.json"}]

Url(len, grows, kind) == [len |-> len, grows |-> grows, kind |-> kind]
Links == {Url(1, 0, "web")}
BadRecords == {Url(1, 0, "other")}
GrowingLinks == {Url(2, 1, "web")}

(* The store that was opened makes no difference to what is modelled here. *)
Serving == phase \notin {"File", "Dynamo"}
=============================================================================
