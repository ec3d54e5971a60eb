-------------------------------- MODULE Auth --------------------------------
(***************************************************************************)
(* Who a request comes from: load_auth (src/config.rs) and the middleware  *)
(* `authenticate` (src/auth.rs).  An entry of MONTY_API_TOKENS is the      *)
(* sequence of its parts; the text it is split from is left out.           *)
(*                                                                         *)
(* A definition commented as faulty stands for a plausible bug in the one  *)
(* after it; it is not part of the specification.                          *)
(***************************************************************************)
EXTENDS Naturals, Sequences

CONSTANTS Number(_),      \* str::parse::<u32>, or Unparsed
          Unparsed,
          DefaultRate     \* MONTY_RATE_LIMIT_RPM

\* Auth: a policy, or the ConfigError that keeps the server from starting.
Policy(mode, tokens) == [mode |-> mode, tokens |-> tokens]

NoTokens == [t \in {} |-> [name |-> "", rate |-> 0]]

ConfigError == Policy("error", NoTokens)

Principal(entry) ==
    [name |-> entry[1], rate |-> IF Len(entry) = 3 THEN Number(entry[3]) ELSE DefaultRate]

Token(entry) == IF Len(entry) = 1 THEN entry[1] ELSE entry[2]

\* HashMap::insert replaces the principal of a token listed before.
\* (Faulty: the first one stays.)
InsertedOnce(tokens, entry) ==
    [t \in {Token(entry)} \cup DOMAIN tokens |->
        IF t \in DOMAIN tokens THEN tokens[t] ELSE Principal(entry)]

Inserted(tokens, entry) ==
    [t \in {Token(entry)} \cup DOMAIN tokens |->
        IF t = Token(entry) THEN Principal(entry) ELSE tokens[t]]

\* load_auth: `token`, `name:token` or `name:token:rpm`, and no policy of tokens
\* without one.
LoadAuth(entries) ==
    LET bad(entry) == Len(entry) \notin 1..3 \/ Principal(entry).rate = Unparsed
        tokens[n \in 0 .. Len(entries)] ==
            IF n = 0 THEN NoTokens ELSE Inserted(tokens[n - 1], entries[n])
    IN  IF \E i \in DOMAIN entries : bad(entries[i]) THEN ConfigError
        ELSE IF entries = <<>> THEN Policy("disabled", NoTokens)
        ELSE Policy("tokens", tokens[Len(entries)])

-----------------------------------------------------------------------------

\* A client: its Authorization header if it sends one, X-Forwarded-For, and the
\* address of its socket.
\* client_ip.
ClientIp(client) ==
    IF client.forwarded # <<>> /\ client.forwarded[1] # "" THEN client.forwarded[1]
    ELSE client.socket

\* bearer_token, as an Option.
BearerToken(client) ==
    IF client.header # <<>> /\ client.header[1].scheme \in {"Bearer", "bearer", "BEARER"}
    THEN <<client.header[1].token>>
    ELSE <<>>

\* authenticate: the Caller, or nothing when the answer is 401.  The id of an
\* address is prefixed by "ip:".
Authenticate(policy, client) ==
    IF policy.mode = "disabled"
    THEN <<[id |-> <<"ip", ClientIp(client)>>, rate |-> DefaultRate]>>
    ELSE LET token == BearerToken(client)
         IN  IF token # <<>> /\ token[1] \in DOMAIN policy.tokens
             THEN <<[id   |-> <<"name", policy.tokens[token[1]].name>>,
                     rate |-> policy.tokens[token[1]].rate]>>
             ELSE <<>>
=============================================================================
