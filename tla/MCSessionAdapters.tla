-------------------------- MODULE MCSessionAdapters --------------------------
(***************************************************************************)
(* Model-checking instances of SessionAdapters: init data as Telegram signs *)
(* it for two users and at four times, and what may become of it.          *)
(***************************************************************************)
EXTENDS SessionAdapters, TLC

CallSymmetry == Permutations(Calls)

Unsigned(user, date) == <<Pair("auth_date", <<date>>), Pair("user", <<user>>)>>
Signed(pairs, token) == Append(pairs, Pair("hash", <<Signature(pairs, DOMAIN pairs, token)>>))

MCRawInitData ==
  LET good == Signed(Unsigned(1, 10), "token")
  IN  { Signed(Unsigned(user, date), token) :
          user \in {1, 2}, date \in {7, 8, 11, 12}, token \in {"token", "other"} }
      \cup { good, <<>>, Unsigned(1, 10),
             <<good[2], good[3]>>,                           \* no date
             Signed(<<Pair("auth_date", <<>>), good[2]>>, "token"),
             <<good[1], Pair("user", <<2>>), good[3]>>,  \* altered
             Append(good, Pair("user", <<2>>)),
             Append(good, good[3]) }                         \* two hashes
===============================================================================
