------------------------------ MODULE Requests ------------------------------
(***************************************************************************)
(* Clients drive one session: they start a program, from its code or from  *)
(* a compiled snapshot, and answer its pauses.  The specification follows  *)
(* a request from the client that it comes from (Auth) through the body it *)
(* is written in and its conversion (Bodies), check_resume and             *)
(* apply_resume, into the interpreter, and the step (Steps) back.  One     *)
(* request is in flight at a time; SessionApi is about several.            *)
(*                                                                         *)
(* What a client means by an answer is the ResumeInput it wants to arrive. *)
(* Definitions commented as faulty are not part of the specification.      *)
(***************************************************************************)
EXTENDS Steps, Bodies, Auth

CONSTANTS Entries,        \* values of MONTY_API_TOKENS
          Clients,        \* the clients, by what their requests carry
          Written(_, _),  \* external: how a client writes a value, in a style
          Styles,         \* the styles
          Object(_, _),   \* external: an object with some keys and items, as parsed
          Same(_, _),     \* external: whether two values are equal for a program
          Answers,        \* the answers clients mean
          Bindings,       \* the inputs clients mean: functions of names
          ResumeBodies,   \* resume bodies of clients that mean nothing in particular
          SourceBodies    \* and the bodies they create sessions with

IsList(s) == s \in Seq(Range(s))

\* A value that was parsed: its parts are in an order, and an object has a key for
\* each of them.
IsParsed(json) ==
    /\ IsList(json.keys) /\ IsList(json.items)
    /\ json.kind = "object" => Len(json.keys) = Len(json.items)

ASSUME EntriesAssumption == \A list \in Entries : IsList(list)

ASSUME BodiesAssumption ==
    /\ \A body \in ResumeBodies : body.futures # None => IsList(body.futures[1])
    /\ \A body \in SourceBodies : body.inputs # None => IsParsed(body.inputs[1])

\* What clients mean: an answer has a value, outcomes, or neither.
ASSUME AnswersAssumption ==
    \A answer \in Answers :
        \/ /\ answer.variant \in {"return", "raise", "name"}
           /\ \E value \in Range(answer.values) : answer = Input(answer.variant, <<value>>, <<>>)
        \/ answer = Input("pending", <<>>, <<>>)
        \/ answer = Input("name_undefined", <<>>, <<>>)
        \/ /\ answer = Input("futures", <<>>, answer.outcomes)
           /\ IsList(answer.outcomes)
           /\ \A i \in DOMAIN answer.outcomes : answer.outcomes[i].variant \in {"return", "raise"}

VARIABLES entries,    \* MONTY_API_TOKENS
          starter,    \* the client that the session was created by, if there is one
          owner,      \* SessionEntry::owner
          sender,     \* the client that the resume in flight comes from
          snapshot,   \* the names compiled into the snapshot, if there is one
          bindings,   \* the inputs that the client means, if any
          created,    \* the body that its program was created with
          bound,      \* and the SourceSpec it was started with
          meant,      \* the answer that the client means, if any
          sent,       \* the resume body the server has not yet converted
          input,      \* what into_input made of it
          delivered,  \* what the interpreter was resumed with
          pause,      \* the pause the client was told of
          status      \* of the latest response; 0 while there is none

identityVars == <<entries, starter, owner>>

clientVars == <<snapshot, bindings, meant>>

requestVars == <<sender, sent, input, delivered, pause, status>>

sourceVars == <<created, bound>>

requestsVars == <<stepVars, identityVars, clientVars, requestVars, sourceVars>>

RequestsInit ==
    /\ StepsInit
    /\ entries \in Entries /\ LoadAuth(entries) # ConfigError
    /\ starter = None /\ owner = None /\ sender = None
    /\ snapshot = None /\ bindings = None /\ created = None /\ bound = BadSpec
    /\ meant = None /\ sent = None /\ input = None /\ delivered = None
    /\ pause = "none" /\ status = 0

\* No response is awaited, and there is no program or it is paused.
Free == program = "none" /\ step = NoStep /\ sent = None /\ status = 0

\* Authenticate, as an Option of the Caller.
CallerOf(client) == Authenticate(LoadAuth(entries), client)

\* A request of a client without a valid token changes nothing.
Unauthorized ==
    /\ Free
    /\ \E client \in Clients : CallerOf(client) = None
    /\ status' = 401
    /\ UNCHANGED <<stepVars, identityVars, clientVars, sourceVars, sender, sent, input,
                   delivered, pause>>

-----------------------------------------------------------------------------
(* Starting a program.                                                     *)

Orders(names) ==
    {order \in [1 .. Cardinality(names) -> names] : Range(order) = names}

\* An object is parsed with each member under its key, in whichever order.
ASSUME ObjectAssumption ==
    \A inputs \in Bindings :
        /\ IsFiniteSet(DOMAIN inputs)
        /\ \A order \in Orders(DOMAIN inputs), style \in Styles :
             LET object == Object(order, [i \in DOMAIN order |-> Written(inputs[order[i]], style)])
             IN  /\ object.kind = "object"
                 /\ IsParsed(object)
                 /\ Range(object.keys) = DOMAIN inputs
                 /\ \A i \in DOMAIN object.keys :
                       object.items[i] = Written(inputs[object.keys[i]], style)

\* POST /v1/compile with the names of the inputs, in any order.
Compile(names) ==
    /\ Free /\ pause = "none"
    /\ \E client \in Clients : CallerOf(client) # None
    /\ snapshot' = Some(names)
    /\ UNCHANGED <<stepVars, identityVars, bindings, meant, requestVars, sourceVars>>

\* How a client writes its inputs: for code an object, with its members in any
\* order; for a snapshot an array, in the order of its names.
CodeBody(inputs, order, style) ==
    [code |-> Some("code"), snapshot |-> None,
     inputs |-> Some(Object(order, [i \in DOMAIN order |-> Written(inputs[order[i]], style)]))]

SnapshotBody(inputs, names, style) ==
    [code |-> None, snapshot |-> Some([valid |-> TRUE, names |-> names]),
     inputs |-> Some([kind |-> "array", atom |-> "", keys |-> <<>>,
                      items |-> [i \in DOMAIN names |-> Written(inputs[names[i]], style)]])]

\* The handler of POST /v1/sessions: into_spec, compile and start_session; the
\* caller becomes the owner.
Start(client, body) ==
    /\ CallerOf(client) # None
    /\ created' = Some(body)
    /\ bound' = IntoSpec(body)
    /\ IF IntoSpec(body).ok
       THEN /\ BeginStep
            /\ starter' = Some(client)
            /\ owner' = Some(CallerOf(client)[1].id)
            /\ UNCHANGED status
       ELSE UNCHANGED <<stepVars, starter, owner>> /\ status' = 400
    /\ UNCHANGED <<entries, snapshot, meant, sender, sent, input, delivered, pause>>

Create ==
    /\ Free /\ pause = "none"
    /\ \E client \in Clients :
       \/ \E inputs \in Bindings, style \in Styles :
            /\ bindings' = Some(inputs)
            /\ \/ \E order \in Orders(DOMAIN inputs) :
                    Start(client, CodeBody(inputs, order, style))
               \/ /\ snapshot # None /\ Range(snapshot[1]) = DOMAIN inputs
                  /\ Start(client, SnapshotBody(inputs, snapshot[1], style))
       \/ \E body \in SourceBodies : bindings' = None /\ Start(client, body)

-----------------------------------------------------------------------------
(* Answering a pause.                                                      *)

NoFields ==
    [return |-> None, exception |-> None, pending |-> None, value |-> None,
     undefined |-> None, futures |-> None]

FutureBody(outcome, style) ==
    [call_id   |-> outcome.call_id,
     return    |-> IF outcome.variant = "return" THEN Some(Written(outcome.value, style)) ELSE None,
     exception |-> IF outcome.variant = "raise" THEN Some(outcome.value.atom) ELSE None]

\* The field for each answer (README.md, "Set exactly one field").
ResumeBody(answer, style) ==
    CASE answer.variant = "return"  -> [NoFields EXCEPT !.return = Some(Written(answer.values[1], style))]
      [] answer.variant = "raise"   -> [NoFields EXCEPT !.exception = Some(answer.values[1].atom)]
      [] answer.variant = "pending" -> [NoFields EXCEPT !.pending = Some(TRUE)]
      [] answer.variant = "name"    -> [NoFields EXCEPT !.value = Some(Written(answer.values[1], style))]
      [] answer.variant = "name_undefined" -> [NoFields EXCEPT !.undefined = Some(TRUE)]
      [] answer.variant = "futures" ->
           [NoFields EXCEPT !.futures = Some([i \in DOMAIN answer.outcomes |->
                                                FutureBody(answer.outcomes[i], style)])]

Send ==
    /\ Free /\ pause \in PauseKind
    /\ \/ \E answer \in Answers, style \in Styles :
            sent' = Some(ResumeBody(answer, style)) /\ meant' = Some(answer)
       \/ \E body \in ResumeBodies : sent' = Some(body) /\ meant' = None
    /\ \E client \in Clients : CallerOf(client) # None /\ sender' = Some(client)
    /\ UNCHANGED <<stepVars, identityVars, snapshot, bindings, sourceVars, input, delivered,
                   pause, status>>

\* The request is answered with an error.
Refuse(code) == sender' = None /\ sent' = None /\ input' = None /\ status' = code

\* The resume handler converts the body, and then looks for the session.
Receive ==
    /\ sent # None /\ input = None
    /\ LET converted == IntoInput(sent[1])
           found == Some(CallerOf(sender[1])[1].id) = owner
       IN  \/ converted = BadRequest /\ Refuse(400)
           \/ converted = Internal /\ Refuse(500)
           \/ /\ converted \notin {BadRequest, Internal}
              /\ \/ ~found /\ Refuse(404)
                 \/ found /\ input' = Some(converted) /\ UNCHANGED <<sender, sent, status>>
    /\ UNCHANGED <<stepVars, identityVars, clientVars, sourceVars, delivered, pause>>

\* apply_resume has an arm for this progress and input; the one for all others
\* is unreachable!.
Applies(kind, variant) ==
    \/ kind = "function_call" /\ variant \in {"return", "raise", "pending"}
    \/ kind = "name_lookup" /\ variant \in {"name", "name_undefined"}
    \/ kind = "resolve_futures" /\ variant = "futures"

\* resume_session: a mismatch is answered 400; a match is consumed.
Resume ==
    /\ input # None
    /\ LET answer == input[1] IN
       IF ~CheckResume([kind |-> pause, seq |-> 0], answer.variant)
       THEN Refuse(400) /\ UNCHANGED <<stepVars, delivered, pause>>
       ELSE /\ pause' = "none"
            /\ IF Applies(pause, answer.variant)
               THEN /\ delivered' = Some(answer)
                    /\ BeginStep
                    /\ sender' = None /\ sent' = None /\ input' = None
                    /\ UNCHANGED status
               ELSE Refuse(500) /\ UNCHANGED <<stepVars, delivered>>
    /\ UNCHANGED <<identityVars, clientVars, sourceVars>>

-----------------------------------------------------------------------------

\* render and describe_pause.
Respond ==
    /\ step # NoStep
    /\ status' = IF step.pause \in PauseKind \cup {"complete", "exception"} THEN 200 ELSE 500
    /\ pause' = IF step.status = "paused" THEN step.pause ELSE "none"
    /\ IF step.status = "paused" THEN UNCHANGED <<starter, owner>>
       ELSE starter' = None /\ owner' = None
    /\ step' = NoStep /\ printed' = 0
    /\ UNCHANGED <<program, fragments, entries, clientVars, sourceVars, sender, sent, input,
                   delivered>>

\* The client reads the response, and what it meant is history.
Read ==
    /\ status # 0
    /\ status' = 0
    /\ created' = None /\ bound' = BadSpec
    /\ snapshot' = None /\ bindings' = None /\ meant' = None /\ delivered' = None
    /\ UNCHANGED <<stepVars, identityVars, sender, sent, input, pause>>

RequestsNext ==
    \/ Unauthorized
    \/ \E inputs \in Bindings : \E order \in Orders(DOMAIN inputs) : Compile(order)
    \/ Create
    \/ Send
    \/ Receive
    \/ Resume
    \/ StepsNext /\ UNCHANGED <<identityVars, clientVars, requestVars, sourceVars>>
    \/ Respond
    \/ Read

RequestsSpec == RequestsInit /\ [][RequestsNext]_requestsVars

-----------------------------------------------------------------------------

\* The answers that README.md lists for each pause.
Fits(kind, answer) ==
    answer.variant \in CASE kind = "function_call"   -> {"return", "raise", "pending"}
                         [] kind = "name_lookup"     -> {"name", "name_undefined"}
                         [] kind = "resolve_futures" -> {"futures"}

\* The answer is, or one of its futures returns, None.
ReturnsNone(answer) ==
    \/ \E i \in DOMAIN answer.values : answer.values[i].kind = "None"
    \/ \E i \in DOMAIN answer.outcomes : answer.outcomes[i].value.kind = "None"

SameInput(answer, other) ==
    /\ answer.variant = other.variant
    /\ Len(answer.values) = Len(other.values) /\ Len(answer.outcomes) = Len(other.outcomes)
    /\ \A i \in DOMAIN answer.values : Same(answer.values[i], other.values[i])
    /\ \A i \in DOMAIN answer.outcomes :
          /\ answer.outcomes[i].call_id = other.outcomes[i].call_id
          /\ answer.outcomes[i].variant = other.outcomes[i].variant
          /\ Same(answer.outcomes[i].value, other.outcomes[i].value)

Converts(value) ==
    \A style \in Styles :
        LET json == Written(value, style)
        IN  /\ ToMonty(json) # Failed /\ Same(ToMonty(json), value)
            /\ json.kind = "null" => value.kind = "None"

Raises(value) ==
    ToException(value.atom) # Failed /\ Same(ToException(value.atom), value)

\* A value that a client writes is read as that value, in every style of writing
\* it, and only None is written as null ("The value format", README.md).
FormatRoundTrips ==
    /\ meant # None =>
         /\ \A value \in Range(meant[1].values) :
              IF meant[1].variant = "raise" THEN Raises(value) ELSE Converts(value)
         /\ \A outcome \in Range(meant[1].outcomes) :
              IF outcome.variant = "raise" THEN Raises(outcome.value) ELSE Converts(outcome.value)
    /\ bindings # None => \A value \in Range(bindings[1]) : Converts(value)

\* What the client means arrives as it was meant, in every style of writing it.
\* Only an answer that does not fit the pause, or is null, is refused.
AnswerArrives ==
    meant # None =>
        /\ delivered # None => SameInput(delivered[1], meant[1])
        /\ status = 400 => ~Fits(pause, meant[1]) \/ ReturnsNone(meant[1])

\* "The function's return value (any JSON value)" (README.md).
AnyAnswerAccepted == meant # None /\ status = 400 => ~Fits(pause, meant[1])

\* How many things the client said, and how many arrived.
Said(body) ==
    Cardinality(FieldsSet(body))
    + IF body.futures = None THEN 0
      ELSE LET futures == body.futures[1]
           IN  Cardinality({i \in DOMAIN futures : Option(futures[i].return) # None})
               + Cardinality({i \in DOMAIN futures : futures[i].exception # None})

Heard(answer) == 1 + Len(answer.outcomes)

\* "Set exactly one field" (README.md): a body is converted as a whole or refused;
\* no part of it is ignored.
NothingIgnored ==
    /\ sent # None /\ input # None => Said(sent[1]) = Heard(input[1])
    /\ bound.ok /\ Option(created[1].inputs) # None =>
            Len(bound.inputs) = Len(created[1].inputs[1].items)

\* "Compile once, then run the snapshot many times" (README.md): from code or from
\* a snapshot, every input is bound to the value that the client means for it.
InputsBound ==
    bindings # None =>
        /\ status # 400
        /\ bound.ok => /\ Range(bound.names) = DOMAIN bindings[1]
                       /\ Len(bound.names) = Len(bound.inputs)
                       /\ \A i \in DOMAIN bound.names :
                            Same(bound.inputs[i], bindings[1][bound.names[i]])

\* The id that a client goes by: the name in the last entry of its token, or its
\* address where there are no entries.
Identity(client) ==
    LET listed == {i \in DOMAIN entries : BearerToken(client) = Some(Token(entries[i]))}
    IN  IF entries = <<>> THEN <<"ip", ClientIp(client)>>
        ELSE <<"name", entries[CHOOSE i \in listed : \A j \in listed : j <= i][1]>>

\* "Sessions are owned by the API token that created them" (api/sessions.rs), by
\* its name: whoever reaches a session has the identity of its creator.
OwnerReaches ==
    /\ owner # None => owner = Some(Identity(starter[1]))
    /\ input # None => Identity(sender[1]) = Identity(starter[1])

\* The branches that the comments of into_input, apply_resume and describe_pause
\* call unreachable are, whatever the client sends and the program does.
NoInternalError == status # 500
=============================================================================
