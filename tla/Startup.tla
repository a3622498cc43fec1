------------------------------ MODULE Startup ------------------------------
(***************************************************************************)
(* From the configuration sources to a serving process (src/src/config.rs, *)
(* src/src/main.rs, and the composition root in src/src/lib.rs).           *)
(*                                                                         *)
(* A source is a partial assignment of the settings that matter here; the  *)
(* file may also not parse at all. Settings are merged first and validated *)
(* together, so a bad value that a later source overrides does no harm.    *)
(***************************************************************************)
EXTENDS Integers

CONSTANTS
  Absent,     \* a setting that a source does not mention
  Malformed,  \* a Config.toml that does not parse, or has an unknown key
  Panic,      \* the process refuses to start
  Settings    \* the values a source gives each setting: a record of sets

ASSUME StartupAssumption ==
  /\ DOMAIN Settings = {"base", "max_age", "per_second", "session_file"}
  /\ Settings.per_second \subseteq Nat

Field == DOMAIN Settings
Nothing == [f \in Field |-> Absent]

(* A source that says one thing, or nothing. *)
Source ==
  {Nothing} \cup UNION {{[Nothing EXCEPT ![f] = v] : v \in Settings[f]} : f \in Field}

(* max_age is in units of the clock that reads it, scaled down. *)
Default ==
  [base |-> "https", max_age |-> 1, per_second |-> 2, session_file |-> ""]

(* Defaults, then Config.toml, then ATPR__ variables: the last one wins. *)
Merge(toml, env) ==
  [f \in Field |-> IF env[f] # Absent THEN env[f]
                   ELSE IF toml[f] # Absent THEN toml[f] ELSE Default[f]]

(* What BaseUrl::deserialize accepts: any text that Url parses. Of the scheme
   and the host nothing is asked, so plain http that is not loopback boots. *)
BaseUrl == {"https", "loopback", "http"}

(* The mutant of Valid: the rate is a plain number again, and a zero passes. *)
ValidUnchecked(c) == c.base \in BaseUrl /\ c.session_file # "dynamodb://"

(* BaseUrl::deserialize, NonZeroU64 and SessionStore::deserialize *)
Valid(c) ==
  /\ c.base \in BaseUrl
  /\ c.per_second # 0
  /\ c.session_file # "dynamodb://"

(* Opening the store in build_oauth_client; a file that cannot be read is
   refused here, at startup, and not on the first login. *)
SessionStore(c) ==
  CASE c.session_file = "" -> {"Memory"}
    [] c.session_file = "dynamodb://t" -> {"Dynamo"}
    [] OTHER -> {"File", Panic}

(* The mutant of load: what cannot be parsed is replaced by the defaults. *)
load_or_default(toml, env) ==
  IF toml = Malformed \/ ~Valid(Merge(toml, env)) THEN Default ELSE Merge(toml, env)

(* load() *)
load(toml, env) ==
  IF toml = Malformed \/ ~Valid(Merge(toml, env)) THEN Panic ELSE Merge(toml, env)

is_loopback(c) == c.base = "loopback"
=============================================================================
