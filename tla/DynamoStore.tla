---------------------------- MODULE DynamoStore ----------------------------
(***************************************************************************)
(* The DynamoDB session store (src/src/session/dynamo.rs). All instances   *)
(* of the program share one table with one string key, so a request may be *)
(* answered by any of them; but GetItem is sent without ConsistentRead, so *)
(* what it reads may be a write behind, and the table's own TTL deletes an *)
(* expired row at some later time or never.                                *)
(*                                                                         *)
(* A row is told by its expires_at alone: its payload is a function of its *)
(* key, and a row that expired at time 0 is no row.                        *)
(***************************************************************************)
EXTENDS Integers

CONSTANTS
  Login,       \* OAuth `state` values; the session id of a login is its state
  SessionTTL,  \* SESSION_TTL_SECS
  AuthTTL,     \* AUTH_REQUEST_TTL
  MaxNow       \* bound on the clock

ASSUME StoreAssumption ==
  SessionTTL \in Nat \ {0} /\ AuthTTL \in Nat \ {0} /\ MaxNow \in Nat

VARIABLES
  table,    \* the table: expires_at of each row
  behind,   \* each row before its last write, which a read may return instead
  now       \* Unix time, in ticks much longer than a request

storeVars == <<table, behind>>

session_key(l) == <<"session", l>>
auth_key(l) == <<"authreq", l>>

Key == {"session", "authreq"} \X Login
NoRow == 0

StoreInit ==
  /\ table = [k \in Key |-> NoRow]
  /\ behind = table
  /\ now = 0

(* The mutant of get: the table is trusted to have deleted what expired. *)
getUnfiltered(k) == {e # NoRow : e \in {table[k], behind[k]}}

(* get(): whether a read of k may find a row. Expiry is enforced here. *)
get(k) == {e > now : e \in {table[k], behind[k]}}

Write(k, expires_at) ==
  /\ table' = [table EXCEPT ![k] = expires_at]
  /\ behind' = [behind EXCEPT ![k] = table[k]]

(* The mutant of put: the deadline counts from the other end. *)
putBackdated(k, ttl) == Write(k, now - ttl)

put(k, ttl) == Write(k, now + ttl)
remove(k) == Write(k, NoRow)

(* External: the table's own TTL. *)
Sweep(k) ==
  /\ table[k] # NoRow /\ table[k] <= now
  /\ Write(k, NoRow)
  /\ UNCHANGED now
=============================================================================
