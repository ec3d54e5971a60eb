--------------------------- MODULE MCRateLimiter ---------------------------
(***************************************************************************)
(* Callers, keys and rates for checking RateLimiter with TLC: those that   *)
(* load_auth and authenticate (Auth) give to the clients of some tokens.   *)
(***************************************************************************)
EXTENDS RateLimiter, Auth

\* MONTY_API_TOKENS: two tokens with one name and different rates, and one with its
\* own name.
TokenEntries == <<<<"shared", "slow", "0">>, <<"shared", "fast", "2">>, <<"own", "other", "0">>>>

Rpm(text) == CASE text = "0" -> 0 [] text = "2" -> 2 [] OTHER -> Unparsed

TokenCallers == {"slow", "fast", "other"}

Names == {<<"name", "shared">>, <<"name", "own">>}

TokenNames == [c \in TokenCallers |-> <<"name", IF c = "other" THEN "own" ELSE "shared">>]

TokenRates == [c \in TokenCallers |-> IF c = "fast" THEN 2 ELSE 0]

NameWidest == [k \in Names |-> IF k = <<"name", "shared">> THEN 2 ELSE 1]

ASSUME CallersAuthenticate ==
    \A c \in TokenCallers :
        LET client == [header    |-> <<[scheme |-> "Bearer", token |-> c]>>,
                       forwarded |-> <<>>,
                       socket    |-> "address"]
        IN  Authenticate(LoadAuth(TokenEntries), client)
                = <<[id |-> TokenNames[c], rate |-> TokenRates[c]]>>
=============================================================================
