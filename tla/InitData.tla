------------------------------- MODULE InitData --------------------------------
(***************************************************************************)
(* The init data of a Telegram mini app and its validation                 *)
(* (src/tma/validate-init-data.ts and the middlewares beside it).          *)
(*                                                                         *)
(* Raw init data is a query string: a sequence of pairs of a key and a     *)
(* value, in which a key may occur more than once.  URLSearchParams.get    *)
(* returns the first value of a key; parseInitData keeps the last one.     *)
(* A value is a sequence: <<>> is a text that is no number (of auth_date)  *)
(* and no user (of user).  The HMAC is ideal: the digest of pairs under a  *)
(* token is the bag of the pairs together with the token.                  *)
(***************************************************************************)
EXTENDS Integers, Sequences, FiniteSets

CONSTANTS MaxAge,   \* maxAgeSeconds; 0: init data never expires
          Leeway    \* 60 s that another clock may be ahead

ASSUME InitDataAssumption == MaxAge \in Nat /\ Leeway \in Nat

Pair(key, value) == <<key, value>>

\* The places of a key, and the value at the first and at the last of them.
Places(raw, key) == {i \in DOMAIN raw : raw[i][1] = key}
FirstValue(raw, key) ==
  raw[CHOOSE i \in Places(raw, key) : \A j \in Places(raw, key) : i <= j][2]
LastValue(raw, key) ==
  raw[CHOOSE i \in Places(raw, key) : \A j \in Places(raw, key) : j <= i][2]

\* The HMAC of the pairs at some places under the key that is derived from a token.
Signature(raw, places, token) ==
  [token |-> token,
   pairs |-> [pair \in {raw[i] : i \in places} |->
                Cardinality({i \in places : raw[i] = pair})]]

\* Defect: the hash is part of what is hashed.
DigestOfAll(raw, token) == Signature(raw, DOMAIN raw, token)

\* computeInitDataHash: of the pairs, in any order, without every hash.
Digest(raw, token) == Signature(raw, DOMAIN raw \ Places(raw, "hash"), token)

\* The replay check; now and the date are in seconds.
Expired(date, now) == MaxAge > 0 /\ (now - date > MaxAge \/ now - date < -Leeway)

\* parseAndValidateInitData: the first check that fails decides.
Verdict(raw, token, now) ==
  IF raw = <<>> THEN "MALFORMED"
  ELSE IF Places(raw, "hash") = {} THEN "MISSING_HASH"
  ELSE IF Places(raw, "auth_date") = {} THEN "MISSING_AUTH_DATE"
  ELSE IF FirstValue(raw, "auth_date") = <<>> THEN "MALFORMED"
  ELSE IF Expired(FirstValue(raw, "auth_date")[1], now) THEN "EXPIRED"
  ELSE IF FirstValue(raw, "hash") # <<Digest(raw, token)>> THEN "HASH_MISMATCH"
  ELSE "valid"

\* parseInitData: the user, and the date (0 if there is none).
Parsed(raw) ==
  [user |-> IF Places(raw, "user") = {} THEN <<>> ELSE LastValue(raw, "user"),
   date |-> IF Places(raw, "auth_date") = {} THEN <<0>> ELSE LastValue(raw, "auth_date")]

\* tmaExpressMiddleware, tmaHonoMiddleware, validateNextJsTmaRequest: who the rest
\* of the application is told the request is from.  `header` is <<>>, or <<raw>>
\* as x-telegram-init-data or "tma <raw>" in authorization.
AuthenticatedUser(header, token, now) ==
  IF header = <<>> \/ header = <<<<>>>> THEN <<>>
  ELSE IF Verdict(header[1], token, now) = "valid" THEN Parsed(header[1]).user
  ELSE <<>>

===============================================================================
