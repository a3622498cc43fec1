------------------------------- MODULE Domain -------------------------------
(***************************************************************************)
(* What a short code and a destination are (src/src/domain.rs), and what   *)
(* the lexicon says of a record (src/src/generated/to_atpr/link.rs).       *)
(*                                                                         *)
(* A string is told by what the parsers look at. A destination has a       *)
(* length, the number of bytes that Url adds when it serialises it (a path *)
(* of "/", percent-encoding), and a kind: "web" is http or https.          *)
(***************************************************************************)
EXTENDS Integers

CONSTANTS
  MaxCodeLen,   \* ShortCode::MAX_LEN
  MaxTargetLen  \* TargetUrl::MAX_LEN, and maxLength in the lexicon

ASSUME DomainAssumption == MaxCodeLen \in Nat \ {0} /\ MaxTargetLen \in Nat \ {0}

RawCode == [len : 0..MaxCodeLen + 1, clean : BOOLEAN]
RawUrl == [len : 1..MaxTargetLen + 2, grows : 0..1, kind : {"web", "other", "none"}]

ParseCode(s) ==
  IF s.len = 0 THEN "Empty"
  ELSE IF s.len > MaxCodeLen THEN "TooLong"
  ELSE IF ~s.clean THEN "IllegalCharacter" ELSE "ok"

ParseTarget(s) ==
  IF s.len > MaxTargetLen THEN "TooLong"
  ELSE CASE s.kind = "none" -> "NotAUrl"
         [] s.kind = "other" -> "DisallowedScheme"
         [] s.kind = "web" -> "ok"

(* TargetUrl::as_str, which is what is stored and redirected to. *)
Serialized(s) == [s EXCEPT !.len = @ + s.grows, !.grows = 0]

(* Link::validate *)
ValidRecord(s) == s.len <= MaxTargetLen
=============================================================================
