---------------------------- MODULE RequestsProofs ----------------------------
(***************************************************************************)
(* Proofs about Requests, for all clients, bodies and programs: which      *)
(* branches are unreachable, what a step reports, who reaches a session,   *)
(* and that what clients mean arrives, provided that the value format      *)
(* loses nothing (FormatRoundTrips).                                       *)
(***************************************************************************)
EXTENDS RequestsLemmas

\* apply_resume has an arm for all that check_resume lets pass.
LEMMA CheckedApplies ==
    ASSUME NEW kind, NEW variant, CheckResume([kind |-> kind, seq |-> 0], variant)
    PROVE  Applies(kind, variant)
BY DEF CheckResume, Applies

\* A step that render is given is one that it can show.
Showable ==
    step # NoStep => step.pause \in PauseKind \cup {"complete", "exception"}

ErrorInv == NoInternalError /\ Showable

LEMMA ErrorInit == RequestsInit => ErrorInv
BY DEF RequestsInit, StepsInit, ErrorInv, NoInternalError, Showable

LEMMA ErrorNext == ErrorInv /\ [RequestsNext]_requestsVars => ErrorInv'
<1> SUFFICES ASSUME ErrorInv, [RequestsNext]_requestsVars PROVE ErrorInv'
    OBVIOUS
<1> USE DEF ErrorInv, NoInternalError, Showable
<1>1. CASE Unauthorized
      BY <1>1 DEF Unauthorized, stepVars
<1>2. CASE \E inputs \in Bindings : \E order \in Orders(DOMAIN inputs) : Compile(order)
      BY <1>2 DEF Compile, stepVars, requestVars
<1>3. CASE Create
  <2>1. PICK client, body : Start(client, body)
        BY <1>3 DEF Create
  <2>2. CASE IntoSpec(body).ok
        BY <2>1, <2>2 DEF Start, BeginStep
  <2>3. CASE ~IntoSpec(body).ok
        BY <2>1, <2>3 DEF Start, stepVars
  <2> QED BY <2>2, <2>3
<1>4. CASE Send
      BY <1>4 DEF Send, stepVars
<1>5. CASE Receive
  <2>1. IntoInput(sent[1]) # Internal
        BY IntoInputDecides
  <2>2. status' # 500
        BY <1>5, <2>1 DEF Receive, Refuse
  <2> QED BY <1>5, <2>2 DEF Receive, stepVars
<1>6. CASE Resume
  <2>1. CASE ~CheckResume([kind |-> pause, seq |-> 0], input[1].variant)
        BY <1>6, <2>1 DEF Resume, Refuse, stepVars
  <2>2. CASE CheckResume([kind |-> pause, seq |-> 0], input[1].variant)
    <3>1. Applies(pause, input[1].variant)
          BY <2>2, CheckedApplies
    <3> QED BY <1>6, <2>2, <3>1 DEF Resume, BeginStep
  <2> QED BY <2>1, <2>2
<1>7. CASE StepsNext /\ UNCHANGED <<identityVars, clientVars, requestVars, sourceVars>>
  <2>1. status' = status
        BY <1>7 DEF requestVars
  <2>2. Showable'
    <3>1. CASE EndStep
          BY <3>1 DEF EndStep, Settled, Yielded
    <3>2. CASE UNCHANGED step
          BY <3>2
    <3> QED BY <1>7, <3>1, <3>2 DEF StepsNext, Write, Yield, DenyOsCall
  <2> QED BY <2>1, <2>2
<1>8. CASE Respond
      BY <1>8 DEF Respond
<1>9. CASE Read
      BY <1>9 DEF Read, stepVars
<1>10. CASE UNCHANGED requestsVars
      BY <1>10 DEF requestsVars, stepVars, requestVars
<1> QED BY <1>1, <1>2, <1>3, <1>4, <1>5, <1>6, <1>7, <1>8, <1>9, <1>10 DEF RequestsNext

-----------------------------------------------------------------------------

\* No client reaches the branches of into_input, apply_resume and
\* describe_pause that the code calls unreachable, whatever it sends and
\* however its values convert.
THEOREM BranchesUnreachable == RequestsSpec => []NoInternalError
<1>1. ErrorInv => NoInternalError
      BY DEF ErrorInv
<1> QED BY <1>1, ErrorInit, ErrorNext, PTL DEF RequestsSpec

-----------------------------------------------------------------------------
(* What a step reports *)

\* What any action does to a step: nothing, begin it, go on with it, or hand it
\* to the client.
LEMMA StepEffect ==
    ASSUME [RequestsNext]_requestsVars
    PROVE  \/ UNCHANGED stepVars
           \/ BeginStep
           \/ StepsNext
           \/ step' = NoStep /\ printed' = 0 /\ step # NoStep /\ UNCHANGED <<program, fragments>>
<1>1. CASE Unauthorized
  BY <1>1 DEF Unauthorized
<1>2. CASE \E inputs \in Bindings : \E order \in Orders(DOMAIN inputs) : Compile(order)
  BY <1>2 DEF Compile
<1>3. CASE Create
  <2>1. PICK client, body : Start(client, body)
    BY <1>3 DEF Create
  <2> QED BY <2>1 DEF Start
<1>4. CASE Send
  BY <1>4 DEF Send
<1>5. CASE Receive
  BY <1>5 DEF Receive
<1>6. CASE Resume
  BY <1>6 DEF Resume
<1>7. CASE StepsNext /\ UNCHANGED <<identityVars, clientVars, requestVars, sourceVars>>
  BY <1>7
<1>8. CASE Respond
  BY <1>8 DEF Respond
<1>9. CASE Read
  BY <1>9 DEF Read
<1>10. CASE UNCHANGED requestsVars
  BY <1>10 DEF requestsVars
<1> QED BY <1>1, <1>2, <1>3, <1>4, <1>5, <1>6, <1>7, <1>8, <1>9, <1>10 DEF RequestsNext

\* Of a step that runs or was settled, `fragments` holds all that was printed, in
\* order; a step that has ended has shared it out to its streams.
PrintInv ==
    /\ fragments \in Seq(Fragment)
    /\ \A i \in 1 .. Len(fragments) : fragments[i].text = i
    /\ program # "none" => printed = Len(fragments) /\ step = NoStep
    /\ step # NoStep => Shared(step.stdout, step.stderr, printed)

LEMMA NothingPrinted == <<>> \in Seq(Fragment) /\ Len(<<>>) = 0 /\ 1 .. 0 = {}
OBVIOUS

LEMMA PrintNext == PrintInv /\ [RequestsNext]_requestsVars => PrintInv'
<1> SUFFICES ASSUME PrintInv, [RequestsNext]_requestsVars
             PROVE  PrintInv'
  OBVIOUS
<1>1. CASE UNCHANGED stepVars
  BY <1>1 DEF PrintInv, stepVars
<1>2. CASE BeginStep
  BY <1>2, NothingPrinted DEF BeginStep, PrintInv
<1>3. CASE step' = NoStep /\ printed' = 0 /\ step # NoStep /\ UNCHANGED <<program, fragments>>
  BY <1>3 DEF PrintInv
<1>4. ASSUME NEW stream \in Stream, Write(stream)
      PROVE  PrintInv'
  <2> DEFINE n == Len(fragments)
             new == [stream |-> stream, text |-> n + 1]
  <2>1. program = "running" /\ printed = n /\ step = NoStep
    BY <1>4 DEF Write, PrintInv
  <2>2. n \in Nat /\ new \in Fragment /\ fragments \in Seq(Fragment)
    BY LenProperties DEF PrintInv, Fragment
  <2>3. fragments' = Append(fragments, new) /\ printed' = n + 1 /\ UNCHANGED <<program, step>>
    BY <1>4, <2>1 DEF Write
  <2> HIDE DEF new
  <2>4. /\ fragments' \in Seq(Fragment)
        /\ Len(fragments') = n + 1
        /\ \A i \in 1 .. n : fragments'[i] = fragments[i]
        /\ fragments'[n + 1] = new
    BY <2>2, <2>3, AppendProperties
  <2>5. \A i \in 1 .. n + 1 : fragments'[i].text = i
    <3>1. \A i \in 1 .. n + 1 : i = n + 1 \/ i \in 1 .. n
      BY <2>2
    <3>2. new.text = n + 1
      BY DEF new
    <3> QED BY <2>4, <3>1, <3>2 DEF PrintInv
  <2> QED BY <2>1, <2>3, <2>4, <2>5 DEF PrintInv
<1>5. ASSUME NEW progress \in Yielded, Yield(progress)
      PROVE  PrintInv'
  BY <1>5 DEF Yield, PrintInv
<1>6. CASE DenyOsCall
  BY <1>6 DEF DenyOsCall, PrintInv
<1>7. CASE EndStep
  <2>1. program # "none"
    BY <1>7 DEF EndStep, Settled, Yielded, PauseKind
  <2>2. Shared(Joined("stdout"), Joined("stderr"), Len(fragments))
    BY StreamsShare DEF PrintInv
  <2>3. /\ step'.stdout = Joined("stdout") /\ step'.stderr = Joined("stderr")
        /\ program' = "none" /\ fragments' = <<>> /\ printed' = printed
    BY <1>7 DEF EndStep
  <2>4. Shared(step'.stdout, step'.stderr, printed')
    BY <2>1, <2>2, <2>3 DEF PrintInv
  <2> QED BY <2>3, <2>4, NothingPrinted DEF PrintInv
<1> QED BY <1>1, <1>2, <1>3, <1>4, <1>5, <1>6, <1>7, StepEffect DEF StepsNext

\* A step that shares out the fragments reports each of them, once and in order.
LEMMA SharedIsComplete ==
    ASSUME PrintInv, step # NoStep
    PROVE  OutputComplete
<1> DEFINE out == step.stdout
           err == step.stderr
<1>1. Shared(out, err, printed)
  BY DEF PrintInv
<1>2. /\ out \in Seq(Nat) /\ DOMAIN out = 1 .. Len(out)
      /\ err \in Seq(Nat) /\ DOMAIN err = 1 .. Len(err)
  BY <1>1, LenProperties DEF Shared, Ascending
<1>3. step["stdout"] = out /\ step["stderr"] = err
  OBVIOUS
<1>4. Len(out) + Len(err) = printed
  BY <1>1 DEF Shared
<1>5. ASSUME NEW n \in 1 .. printed
      PROVE  \E stream \in Stream : \E i \in DOMAIN step[stream] : step[stream][i] = n
  <2>1. CASE Occurs(n, out)
    BY <1>2, <1>3, <2>1 DEF Occurs, Stream
  <2>2. CASE Occurs(n, err)
    BY <1>2, <1>3, <2>2 DEF Occurs, Stream
  <2> QED BY <1>1, <2>1, <2>2 DEF Shared
<1>6. ASSUME NEW stream \in Stream
      PROVE  \A i, j \in DOMAIN step[stream] : i < j => step[stream][i] < step[stream][j]
  BY <1>1, <1>2, <1>3 DEF Shared, Ascending, Stream
<1> QED BY <1>4, <1>5, <1>6 DEF OutputComplete

\* A step reports each fragment that its program printed once and in order,
\* however many OS calls were denied in it and however it ended (settle,
\* finish_step, join_streams).
THEOREM OutputsComplete == RequestsSpec => []OutputComplete
<1>1. RequestsInit => PrintInv
  BY NothingPrinted DEF RequestsInit, StepsInit, PrintInv
<1>2. PrintInv => OutputComplete
  BY SharedIsComplete DEF OutputComplete
<1> QED BY <1>1, <1>2, PrintNext, PTL DEF RequestsSpec

-----------------------------------------------------------------------------
(* Who reaches a session *)

\* A request in flight comes from a client that is authenticated, and nothing
\* runs meanwhile.
FlightInv ==
    /\ entries \in Entries /\ LoadAuth(entries) # ConfigError
    /\ sender # None => CallerOf(sender[1]) # None
    /\ input # None => sent # None
    /\ sent # None => sender # None /\ program = "none" /\ step = NoStep

LEMMA SomeIsSome == \A x : Some(x) # None /\ Some(x)[1] = x
BY DEF Some, None

LEMMA FlightNext == FlightInv /\ [RequestsNext]_requestsVars => FlightInv'
<1> SUFFICES ASSUME FlightInv, [RequestsNext]_requestsVars
             PROVE  FlightInv'
  OBVIOUS
<1>1. entries' = entries
  BY DEF RequestsNext, Unauthorized, Compile, Create, Start, Send, Receive, Resume, Respond, Read,
         requestsVars, identityVars
<1>2. \A client : CallerOf(client)' = CallerOf(client)
  BY <1>1 DEF CallerOf
<1>3. LoadAuth(entries)' # ConfigError
  BY <1>1 DEF FlightInv
<1> DEFINE Flight == /\ sender' # None => CallerOf(sender[1])' # None
                     /\ input' # None => sent' # None
                     /\ sent' # None => sender' # None /\ program' = "none" /\ step' = NoStep
<1>4. SUFFICES Flight
  BY <1>1, <1>3 DEF FlightInv
<1>5. CASE UNCHANGED <<sender, sent, input>> /\ (sent # None => UNCHANGED <<program, step>>)
  BY <1>2, <1>5 DEF FlightInv
<1>6. CASE Unauthorized
  BY <1>5, <1>6 DEF Unauthorized, stepVars
<1>7. CASE \E inputs \in Bindings : \E order \in Orders(DOMAIN inputs) : Compile(order)
  BY <1>5, <1>7 DEF Compile, stepVars, requestVars
<1>8. CASE Create
  <2>1. PICK client, body : Start(client, body)
    BY <1>8 DEF Create
  <2>2. sent = None
    BY <1>8 DEF Create, Free
  <2>3. UNCHANGED <<sender, sent, input>>
    BY <2>1 DEF Start
  <2> QED BY <1>5, <2>2, <2>3
<1>9. CASE Send
  <2>1. PICK client : CallerOf(client) # None /\ sender' = Some(client)
    BY <1>9 DEF Send
  <2>2. input = None /\ input' = None /\ program' = "none" /\ step' = NoStep
    BY <1>9 DEF Send, Free, FlightInv, stepVars
  <2> QED BY <1>2, <2>1, <2>2, SomeIsSome
<1>10. CASE Receive
  <2>1. sent # None /\ UNCHANGED stepVars
    BY <1>10 DEF Receive
  <2>2. CASE UNCHANGED <<sender, sent>>
    BY <1>2, <2>1, <2>2 DEF FlightInv, stepVars
  <2>3. CASE \E code : Refuse(code)
    BY <2>3 DEF Refuse
  <2> QED BY <1>10, <2>2, <2>3 DEF Receive
<1>11. CASE Resume
  <2>1. sender' = None /\ sent' = None /\ input' = None
    BY <1>11 DEF Resume, Refuse
  <2> QED BY <2>1
<1>12. CASE StepsNext /\ UNCHANGED <<identityVars, clientVars, requestVars, sourceVars>>
  <2>1. program # "none"
    BY <1>12 DEF StepsNext, Write, Yield, DenyOsCall, EndStep, Settled, Yielded, PauseKind
  <2> QED BY <1>5, <1>12, <2>1 DEF FlightInv, requestVars
<1>13. CASE Respond
  BY <1>5, <1>13 DEF Respond, FlightInv
<1>14. CASE Read
  BY <1>5, <1>14 DEF Read, stepVars
<1>15. CASE UNCHANGED requestsVars
  BY <1>5, <1>15 DEF requestsVars, requestVars, stepVars
<1> QED BY <1>6, <1>7, <1>8, <1>9, <1>10, <1>11, <1>12, <1>13, <1>14, <1>15 DEF RequestsNext

LEMMA OwnerNext == FlightInv /\ OwnerReaches /\ [RequestsNext]_requestsVars => OwnerReaches'
<1> SUFFICES ASSUME FlightInv, OwnerReaches, [RequestsNext]_requestsVars
             PROVE  OwnerReaches'
  OBVIOUS
<1>1. entries' = entries
  BY DEF RequestsNext, Unauthorized, Compile, Create, Start, Send, Receive, Resume, Respond, Read,
         requestsVars, identityVars
<1>2. \A client : Identity(client)' = Identity(client)
  BY <1>1 DEF Identity
<1>3. CASE UNCHANGED <<starter, owner, sender, input>>
  BY <1>2, <1>3 DEF OwnerReaches
<1>4. CASE UNCHANGED <<starter, owner>> /\ input' = None
  BY <1>2, <1>4 DEF OwnerReaches
<1>5. CASE Unauthorized
  BY <1>3, <1>5 DEF Unauthorized, identityVars
<1>6. CASE \E inputs \in Bindings : \E order \in Orders(DOMAIN inputs) : Compile(order)
  BY <1>3, <1>6 DEF Compile, identityVars, requestVars
<1>7. CASE Create
  <2>1. PICK client, body : Start(client, body)
    BY <1>7 DEF Create
  <2>2. sent = None /\ input = None /\ UNCHANGED <<sender, input>>
    BY <1>7, <2>1 DEF Create, Free, Start, FlightInv
  <2>3. CASE starter' = Some(client) /\ owner' = Some(CallerOf(client)[1].id)
    <3>1. CallerOf(client)[1].id = Identity(client)
      BY <2>1, CallerIsIdentity DEF Start, FlightInv
    <3> QED BY <1>2, <2>2, <2>3, <3>1, SomeIsSome DEF OwnerReaches
  <2>4. CASE UNCHANGED <<starter, owner>>
    BY <1>3, <2>2, <2>4
  <2> QED BY <2>1, <2>3, <2>4 DEF Start
<1>8. CASE Send
  <2>1. input' = None
    BY <1>8 DEF Send, Free, FlightInv
  <2> QED BY <1>4, <1>8, <2>1 DEF Send, identityVars
<1>9. CASE Receive
  <2>1. sent # None /\ UNCHANGED <<starter, owner>>
    BY <1>9 DEF Receive, identityVars
  <2>2. CASE \E code : Refuse(code)
    BY <1>4, <2>1, <2>2 DEF Refuse
  <2>3. CASE Some(CallerOf(sender[1])[1].id) = owner /\ UNCHANGED sender
    <3>1. CallerOf(sender[1]) # None
      BY <2>1 DEF FlightInv
    <3>2. CallerOf(sender[1])[1].id = Identity(sender[1])
      BY <3>1, CallerIsIdentity DEF FlightInv
    <3>3. Identity(sender[1]) = Identity(starter[1])
      <4>1. owner # None /\ owner = Some(Identity(starter[1]))
        BY <2>3, SomeIsSome DEF OwnerReaches
      <4>2. Some(Identity(sender[1])) = Some(Identity(starter[1]))
        BY <2>3, <3>2, <4>1
      <4> QED BY <4>2, SomeIsSome
    <3> QED BY <1>2, <2>1, <2>3, <3>3 DEF OwnerReaches
  <2> QED BY <1>9, <2>2, <2>3 DEF Receive
<1>10. CASE Resume
  BY <1>4, <1>10 DEF Resume, Refuse, identityVars
<1>11. CASE StepsNext /\ UNCHANGED <<identityVars, clientVars, requestVars, sourceVars>>
  BY <1>3, <1>11 DEF identityVars, requestVars
<1>12. CASE Respond
  <2>1. input = None /\ UNCHANGED <<sender, input>>
    BY <1>12 DEF Respond, FlightInv
  <2>2. CASE owner' = None
    BY <2>1, <2>2 DEF OwnerReaches
  <2> QED BY <1>3, <1>12, <2>1, <2>2 DEF Respond
<1>13. CASE Read
  BY <1>3, <1>13 DEF Read, identityVars
<1>14. CASE UNCHANGED requestsVars
  BY <1>3, <1>14 DEF requestsVars, identityVars, requestVars
<1> QED BY <1>5, <1>6, <1>7, <1>8, <1>9, <1>10, <1>11, <1>12, <1>13, <1>14 DEF RequestsNext

\* Whoever reaches a session goes by the identity of its creator, for every list
\* of tokens that the server starts with, and every client (load_auth,
\* authenticate, SessionStore::get).
THEOREM OwnersReach == RequestsSpec => []OwnerReaches
<1>1. RequestsInit => FlightInv /\ OwnerReaches
  BY DEF RequestsInit, StepsInit, FlightInv, OwnerReaches
<1> QED BY <1>1, FlightNext, OwnerNext, PTL DEF RequestsSpec

-----------------------------------------------------------------------------
(* Nothing a body says is ignored *)

LEMMA OrderIsList ==
    ASSUME NEW inputs \in Bindings, NEW order \in Orders(DOMAIN inputs)
    PROVE  /\ IsList(order)
           /\ Len(order) \in Nat
           /\ DOMAIN order = 1 .. Len(order)
<1> DEFINE n == Cardinality(DOMAIN inputs)
<1>1. n \in Nat
  BY ObjectAssumption, FS_CardinalityType
<1>2. order = [i \in 1 .. n |-> order[i]]
  BY DEF Orders
<1> HIDE DEF n
<1>3. IsList(order)
  BY <1>1, <1>2, LengthOf DEF IsList
<1> QED BY <1>3, LenProperties DEF IsList

\* The bodies of clients that mean something are parsed.
LEMMA MeantBodiesParsed ==
    /\ \A inputs \in Bindings : \A order \in Orders(DOMAIN inputs) : \A style \in Styles :
          IsParsed(CodeBody(inputs, order, style).inputs[1])
    /\ \A inputs, names, style :
          IsList(names) => IsParsed(SnapshotBody(inputs, names, style).inputs[1])
    /\ \A answer \in Answers : \A style \in Styles :
          ResumeBody(answer, style).futures # None =>
              IsList(ResumeBody(answer, style).futures[1])
<1>1. ASSUME NEW inputs \in Bindings, NEW order \in Orders(DOMAIN inputs), NEW style \in Styles
      PROVE  IsParsed(CodeBody(inputs, order, style).inputs[1])
  <2> DEFINE object == Object(order, [i \in DOMAIN order |-> Written(inputs[order[i]], style)])
  <2>1. IsParsed(object)
    BY ObjectAssumption
  <2>2. CodeBody(inputs, order, style).inputs = Some(object)
    BY DEF CodeBody
  <2> HIDE DEF object
  <2> QED BY <2>1, <2>2, SomeIsSome
<1>2. ASSUME NEW inputs, NEW names, NEW style, IsList(names)
      PROVE  IsParsed(SnapshotBody(inputs, names, style).inputs[1])
  <2> DEFINE items == [i \in DOMAIN names |-> Written(inputs[names[i]], style)]
             json == [kind |-> "array", atom |-> "", keys |-> <<>>, items |-> items]
  <2>1. Len(names) \in Nat /\ DOMAIN names = 1 .. Len(names)
    BY <1>2, LenProperties DEF IsList
  <2>2. items = [i \in 1 .. Len(names) |-> items[i]]
    BY <2>1
  <2>3. SnapshotBody(inputs, names, style).inputs = Some(json)
    BY DEF SnapshotBody
  <2> HIDE DEF items
  <2>4. IsList(items) /\ IsList(<<>>)
    BY <2>1, <2>2, LengthOf DEF IsList
  <2>5. IsParsed(json)
    BY <2>4 DEF IsParsed
  <2> HIDE DEF json
  <2> QED BY <2>3, <2>5, SomeIsSome
<1>3. ASSUME NEW answer \in Answers, NEW style \in Styles,
             ResumeBody(answer, style).futures # None
      PROVE  IsList(ResumeBody(answer, style).futures[1])
  <2> DEFINE futures == [i \in DOMAIN answer.outcomes |-> FutureBody(answer.outcomes[i], style)]
  <2>1. answer.variant = "futures" /\ IsList(answer.outcomes)
    BY <1>3, AnswersAssumption DEF ResumeBody, NoFields, Input
  <2>2. ResumeBody(answer, style).futures = Some(futures)
    BY <2>1 DEF ResumeBody, NoFields
  <2>3. Len(answer.outcomes) \in Nat /\ DOMAIN answer.outcomes = 1 .. Len(answer.outcomes)
    BY <2>1, LenProperties DEF IsList
  <2>4. futures = [i \in 1 .. Len(answer.outcomes) |-> futures[i]]
    BY <2>3
  <2> HIDE DEF futures
  <2>5. IsList(futures)
    BY <2>3, <2>4, LengthOf DEF IsList
  <2> QED BY <2>2, <2>5, SomeIsSome
<1> QED BY <1>1, <1>2, <1>3

\* Bodies in flight are parsed, and what was made of them is what into_input and
\* into_spec make of them.
SentInv ==
    /\ sent # None /\ sent[1].futures # None => IsList(sent[1].futures[1])
    /\ input # None => /\ sent # None
                       /\ input[1] = IntoInput(sent[1])
                       /\ IntoInput(sent[1]) # BadRequest

CreatedInv ==
    /\ snapshot # None => IsList(snapshot[1])
    /\ created # None => /\ bound = IntoSpec(created[1])
                         /\ created[1].inputs # None => IsParsed(created[1].inputs[1])
    /\ created = None => bound = BadSpec

LEMMA SentNext == SentInv /\ [RequestsNext]_requestsVars => SentInv'
<1> SUFFICES ASSUME SentInv, [RequestsNext]_requestsVars
             PROVE  SentInv'
  OBVIOUS
<1>1. CASE UNCHANGED <<sent, input>>
  BY <1>1 DEF SentInv
<1>2. CASE Unauthorized
  BY <1>1, <1>2 DEF Unauthorized
<1>3. CASE \E inputs \in Bindings : \E order \in Orders(DOMAIN inputs) : Compile(order)
  BY <1>1, <1>3 DEF Compile, requestVars
<1>4. CASE Create
  BY <1>1, <1>4 DEF Create, Start
<1>5. CASE Send
  <2>1. input = None /\ input' = None
    BY <1>5 DEF Send, Free, SentInv
  <2>2. CASE \E answer \in Answers, style \in Styles : sent' = Some(ResumeBody(answer, style))
    BY <2>1, <2>2, MeantBodiesParsed, SomeIsSome DEF SentInv
  <2>3. CASE \E body \in ResumeBodies : sent' = Some(body)
    BY <2>1, <2>3, BodiesAssumption, SomeIsSome DEF SentInv
  <2> QED BY <1>5, <2>2, <2>3 DEF Send
<1>6. CASE Receive
  <2>1. CASE \E code : Refuse(code)
    BY <2>1 DEF Refuse, SentInv
  <2>2. CASE /\ IntoInput(sent[1]) # BadRequest
             /\ input' = Some(IntoInput(sent[1])) /\ UNCHANGED sent
    BY <1>6, <2>2, SomeIsSome DEF Receive, SentInv
  <2> QED BY <1>6, <2>1, <2>2 DEF Receive
<1>7. CASE Resume
  BY <1>7 DEF Resume, Refuse, SentInv
<1>8. CASE StepsNext /\ UNCHANGED <<identityVars, clientVars, requestVars, sourceVars>>
  BY <1>1, <1>8 DEF requestVars
<1>9. CASE Respond
  BY <1>1, <1>9 DEF Respond
<1>10. CASE Read
  BY <1>1, <1>10 DEF Read
<1>11. CASE UNCHANGED requestsVars
  BY <1>1, <1>11 DEF requestsVars, requestVars
<1> QED BY <1>2, <1>3, <1>4, <1>5, <1>6, <1>7, <1>8, <1>9, <1>10, <1>11 DEF RequestsNext

LEMMA CreatedNext == CreatedInv /\ [RequestsNext]_requestsVars => CreatedInv'
<1> SUFFICES ASSUME CreatedInv, [RequestsNext]_requestsVars
             PROVE  CreatedInv'
  OBVIOUS
<1>1. CASE UNCHANGED <<snapshot, created, bound>>
  BY <1>1 DEF CreatedInv
<1>2. CASE Unauthorized
  BY <1>1, <1>2 DEF Unauthorized, clientVars, sourceVars
<1>3. CASE \E inputs \in Bindings : \E order \in Orders(DOMAIN inputs) : Compile(order)
  <2>1. PICK inputs \in Bindings : \E order \in Orders(DOMAIN inputs) : Compile(order)
    BY <1>3
  <2>2. PICK order \in Orders(DOMAIN inputs) : Compile(order)
    BY <2>1
  <2>3. snapshot' = Some(order) /\ UNCHANGED <<created, bound>>
    BY <2>2 DEF Compile, sourceVars
  <2>4. IsList(order)
    BY OrderIsList
  <2> QED BY <2>3, <2>4, SomeIsSome DEF CreatedInv
<1>4. CASE Create
  <2>1. PICK client, body :
           /\ Start(client, body)
           /\ body.inputs # None => IsParsed(body.inputs[1])
    <3>1. ASSUME NEW client, NEW inputs \in Bindings, NEW order \in Orders(DOMAIN inputs),
                 NEW style \in Styles, Start(client, CodeBody(inputs, order, style))
          PROVE  \E c, b : Start(c, b) /\ (b.inputs # None => IsParsed(b.inputs[1]))
      BY <3>1, MeantBodiesParsed
    <3>2. ASSUME NEW client, NEW inputs \in Bindings, NEW style \in Styles, snapshot # None,
                 Start(client, SnapshotBody(inputs, snapshot[1], style))
          PROVE  \E c, b : Start(c, b) /\ (b.inputs # None => IsParsed(b.inputs[1]))
      BY <3>2, MeantBodiesParsed DEF CreatedInv
    <3>3. ASSUME NEW client, NEW body \in SourceBodies, Start(client, body)
          PROVE  \E c, b : Start(c, b) /\ (b.inputs # None => IsParsed(b.inputs[1]))
      BY <3>3, BodiesAssumption
    <3> QED BY <1>4, <3>1, <3>2, <3>3 DEF Create
  <2>2. created' = Some(body) /\ bound' = IntoSpec(body) /\ snapshot' = snapshot
    BY <2>1 DEF Start
  <2> QED BY <2>1, <2>2, SomeIsSome DEF CreatedInv
<1>5. CASE Send
  BY <1>1, <1>5 DEF Send, sourceVars
<1>6. CASE Receive
  BY <1>1, <1>6 DEF Receive, clientVars, sourceVars
<1>7. CASE Resume
  BY <1>1, <1>7 DEF Resume, clientVars, sourceVars
<1>8. CASE StepsNext /\ UNCHANGED <<identityVars, clientVars, requestVars, sourceVars>>
  BY <1>1, <1>8 DEF clientVars, sourceVars
<1>9. CASE Respond
  BY <1>1, <1>9 DEF Respond, clientVars, sourceVars
<1>10. CASE Read
  BY <1>10 DEF Read, CreatedInv
<1>11. CASE UNCHANGED requestsVars
  BY <1>1, <1>11 DEF requestsVars, clientVars, sourceVars
<1> QED BY <1>2, <1>3, <1>4, <1>5, <1>6, <1>7, <1>8, <1>9, <1>10, <1>11 DEF RequestsNext

LEMMA BodiesInvariance == RequestsSpec => [](SentInv /\ CreatedInv)
<1>1. RequestsInit => SentInv /\ CreatedInv
  BY DEF RequestsInit, SentInv, CreatedInv
<1> QED BY <1>1, SentNext, CreatedNext, PTL DEF RequestsSpec

\* Whatever a body says is converted, each of its futures and inputs included, or
\* the body is refused (into_input, into_outcome, into_spec).
THEOREM BodiesHeardInFull == RequestsSpec => []NothingIgnored
<1>1. SentInv /\ CreatedInv => NothingIgnored
  <2> SUFFICES ASSUME SentInv, CreatedInv PROVE NothingIgnored
    OBVIOUS
  <2>1. sent # None /\ input # None => Said(sent[1]) = Heard(input[1])
    BY HeardInFull DEF SentInv
  <2>2. bound.ok /\ Option(created[1].inputs) # None =>
          Len(bound.inputs) = Len(created[1].inputs[1].items)
    BY BoundInFull DEF CreatedInv, BadSpec
  <2> QED BY <2>1, <2>2 DEF NothingIgnored
<1> QED BY <1>1, BodiesInvariance, PTL

-----------------------------------------------------------------------------
(* What a client means arrives *)

\* The values of an answer convert, each to itself.
Convertible(answer) ==
    /\ \A value \in Range(answer.values) :
         IF answer.variant = "raise" THEN Raises(value) ELSE Converts(value)
    /\ \A outcome \in Range(answer.outcomes) :
         IF outcome.variant = "raise" THEN Raises(outcome.value) ELSE Converts(outcome.value)

\* Nothing but null is refused; everything else arrives.
Arrives(input_, answer) ==
    \/ input_ = BadRequest /\ ReturnsNone(answer)
    \/ input_ # BadRequest /\ SameInput(input_, answer)

\* An answer that consists of one value, or of none.
LEMMA ValueArrives ==
    ASSUME NEW variant, NEW value, NEW result, Same(result, value), variant # "bad_request"
    PROVE  /\ Input(variant, <<result>>, <<>>) # BadRequest
           /\ SameInput(Input(variant, <<result>>, <<>>), Input(variant, <<value>>, <<>>))
<1>1. /\ Input(variant, <<result>>, <<>>).variant = variant
      /\ Input(variant, <<value>>, <<>>).variant = variant
      /\ Input(variant, <<result>>, <<>>).values = <<result>>
      /\ Input(variant, <<value>>, <<>>).values = <<value>>
      /\ Input(variant, <<result>>, <<>>).outcomes = <<>>
      /\ Input(variant, <<value>>, <<>>).outcomes = <<>>
      /\ BadRequest.variant = "bad_request"
  BY DEF Input, BadRequest
<1>2. /\ Len(<<result>>) = Len(<<value>>) /\ Len(<<>>) = 0
      /\ \A i \in DOMAIN <<result>> : Same(<<result>>[i], <<value>>[i])
      /\ DOMAIN <<>> = {}
  OBVIOUS
<1> DEFINE arrived == Input(variant, <<result>>, <<>>)
           wanted == Input(variant, <<value>>, <<>>)
<1> HIDE DEF arrived, wanted
<1>3. SameInput(arrived, wanted)
  BY <1>1, <1>2 DEF SameInput, arrived, wanted
<1> QED BY <1>1, <1>3 DEF arrived, wanted

LEMMA NoValueArrives ==
    ASSUME NEW variant, variant # "bad_request"
    PROVE  /\ Input(variant, <<>>, <<>>) # BadRequest
           /\ SameInput(Input(variant, <<>>, <<>>), Input(variant, <<>>, <<>>))
<1>1. /\ Input(variant, <<>>, <<>>).variant = variant
      /\ Input(variant, <<>>, <<>>).values = <<>>
      /\ Input(variant, <<>>, <<>>).outcomes = <<>>
      /\ BadRequest.variant = "bad_request"
  BY DEF Input, BadRequest
<1> QED BY <1>1 DEF SameInput

\* A future of an answer (into_outcome).
LEMMA FutureArrives ==
    ASSUME NEW outcome, NEW style \in Styles, outcome.variant \in {"return", "raise"},
           IF outcome.variant = "raise" THEN Raises(outcome.value) ELSE Converts(outcome.value)
    PROVE  \/ IntoOutcome(FutureBody(outcome, style)) = BadRequest /\ outcome.value.kind = "None"
           \/ /\ IntoOutcome(FutureBody(outcome, style)) # BadRequest
              /\ \E result :
                   /\ IntoOutcome(FutureBody(outcome, style)).outcomes =
                        <<[call_id |-> outcome.call_id, variant |-> outcome.variant, value |-> result]>>
                   /\ Same(result, outcome.value)
<1> DEFINE future == FutureBody(outcome, style)
<1>1. ASSUME NEW variant, NEW result, result # Failed
      PROVE  /\ Outcome(outcome.call_id, variant, result) # BadRequest
             /\ Outcome(outcome.call_id, variant, result).outcomes =
                  <<[call_id |-> outcome.call_id, variant |-> variant, value |-> result]>>
  BY <1>1 DEF Outcome, BadRequest, Input
<1>2. CASE outcome.variant = "return"
  <2> DEFINE json == Written(outcome.value, style)
  <2>1. ToMonty(json) # Failed /\ Same(ToMonty(json), outcome.value)
        /\ (json.kind = "null" => outcome.value.kind = "None")
    BY <1>2 DEF Converts
  <2>2. future.call_id = outcome.call_id /\ future.return = Some(json) /\ future.exception = None
    BY <1>2 DEF FutureBody
  <2> HIDE DEF json, future
  <2>3. CASE json.kind = "null"
    <3>1. Option(future.return) = None
      BY <2>2, <2>3, SomeIsSome DEF Option
    <3>2. IntoOutcome(future) = BadRequest
      BY <2>2, <3>1 DEF IntoOutcome
    <3> QED BY <2>1, <2>3, <3>2 DEF future
  <2>4. CASE json.kind # "null"
    <3>1. Option(future.return) = Some(json)
      BY <2>2, <2>4, SomeIsSome DEF Option
    <3>2. IntoOutcome(future) = Outcome(outcome.call_id, "return", ToMonty(json))
      BY <2>2, <3>1, SomeIsSome DEF IntoOutcome
    <3> QED BY <1>1, <1>2, <2>1, <3>2 DEF future
  <2> QED BY <2>3, <2>4
<1>3. CASE outcome.variant = "raise"
  <2> DEFINE raised == ToException(outcome.value.atom)
  <2>1. raised # Failed /\ Same(raised, outcome.value)
    BY <1>3 DEF Raises
  <2>2. /\ future.call_id = outcome.call_id /\ future.return = None
        /\ future.exception = Some(outcome.value.atom)
    BY <1>3 DEF FutureBody
  <2> HIDE DEF future
  <2>3. Option(future.return) = None
    BY <2>2 DEF Option
  <2>4. IntoOutcome(future) = Outcome(outcome.call_id, "raise", raised)
    BY <2>2, <2>3, SomeIsSome DEF IntoOutcome
  <2> HIDE DEF raised
  <2> QED BY <1>1, <1>3, <2>1, <2>4 DEF future
<1> QED BY <1>2, <1>3

\* What into_input makes of a body with one field set, or none.
LEMMA FieldDecides ==
    ASSUME NEW request, NEW f, FieldsSet(request) = {f}
    PROVE  /\ f = "return" => IntoInput(request) = Converted("return", ToMonty(request.return[1]))
           /\ f = "exception" =>
                IntoInput(request) = Converted("raise", ToException(request.exception[1]))
           /\ f = "pending" => IntoInput(request) = Input("pending", <<>>, <<>>)
           /\ f = "value" => IntoInput(request) = Converted("name", ToMonty(request.value[1]))
           /\ f = "undefined" => IntoInput(request) = Input("name_undefined", <<>>, <<>>)
           /\ f = "futures" => IntoInput(request) = IntoOutcomes(request.futures[1])
<1>1. Cardinality(FieldsSet(request)) = 1
  BY FS_Singleton
<1>2. /\ f = "return" <=> Option(request.return) # None
      /\ f = "exception" <=> request.exception # None
      /\ f = "pending" <=> request.pending = Some(TRUE)
      /\ f = "value" <=> Option(request.value) # None
      /\ f = "undefined" <=> request.undefined = Some(TRUE)
      /\ f = "futures" <=> request.futures # None
  BY DEF FieldsSet
<1> QED BY <1>1, <1>2 DEF IntoInput

LEMMA NoFieldSet ==
    ASSUME NEW request, FieldsSet(request) = {}
    PROVE  IntoInput(request) = BadRequest
<1>1. Cardinality({}) = 0
  BY FS_EmptySet
<1>2. Cardinality(FieldsSet(request)) # 1
  BY <1>1
<1> QED BY <1>2 DEF IntoInput

\* Which fields of a body count as set.
LEMMA FieldCounts ==
    ASSUME NEW request, NEW f
    PROVE  f \in FieldsSet(request) <=>
             \/ f = "return" /\ Option(request.return) # None
             \/ f = "value" /\ Option(request.value) # None
             \/ f = "exception" /\ request.exception # None
             \/ f = "futures" /\ request.futures # None
             \/ f = "pending" /\ request.pending = Some(TRUE)
             \/ f = "undefined" /\ request.undefined = Some(TRUE)
BY DEF FieldsSet

\* In a body of one field, the others do not count.
LEMMA OtherFields == Option(None) = None /\ None # Some(TRUE)
BY DEF Option, None, Some

\* A body with one value.
LEMMA OneValueArrives ==
    ASSUME NEW variant \in {"return", "raise", "name"}, NEW value, NEW style \in Styles,
           IF variant = "raise" THEN Raises(value) ELSE Converts(value)
    PROVE  Arrives(IntoInput(ResumeBody(Input(variant, <<value>>, <<>>), style)),
                   Input(variant, <<value>>, <<>>))
<1> DEFINE answer == Input(variant, <<value>>, <<>>)
           request == ResumeBody(answer, style)
           json == Written(value, style)
<1> SUFFICES Arrives(IntoInput(request), answer)
  OBVIOUS
<1>1. /\ answer.variant = variant /\ answer.values = <<value>>
      /\ answer.values[1] = value
  BY DEF Input
<1> HIDE DEF answer
<1>2. ASSUME NEW result, result # Failed, Same(result, value),
             IntoInput(request) = Converted(variant, result)
      PROVE  Arrives(IntoInput(request), answer)
  <2>1. IntoInput(request) = Input(variant, <<result>>, <<>>)
    BY <1>2 DEF Converted
  <2>2. variant # "bad_request"
    OBVIOUS
  <2> QED BY <1>2, <2>1, <2>2, ValueArrives DEF Arrives, answer
<1>3. ASSUME IntoInput(request) = BadRequest, value.kind = "None"
      PROVE  Arrives(IntoInput(request), answer)
  <2>1. ReturnsNone(answer)
    BY <1>1, <1>3 DEF ReturnsNone
  <2> QED BY <1>3, <2>1 DEF Arrives
<1>4. CASE variant = "raise"
  <2>1. request = [NoFields EXCEPT !.exception = Some(value.atom)]
    BY <1>1, <1>4 DEF ResumeBody
  <2>2. /\ request.exception = Some(value.atom)
        /\ request.return = None /\ request.value = None /\ request.futures = None
        /\ request.pending = None /\ request.undefined = None
    BY <2>1 DEF NoFields
  <2>3. FieldsSet(request) = {"exception"} /\ request.exception[1] = value.atom
    <3> HIDE DEF request
    <3>1. \A f : f \in FieldsSet(request) <=> f = "exception"
      BY <2>2, FieldCounts, OtherFields, SomeIsSome
    <3> QED BY <2>2, <3>1, SomeIsSome
  <2> HIDE DEF request
  <2>4. IntoInput(request) = Converted("raise", ToException(value.atom))
    BY <2>3, FieldDecides
  <2> QED BY <1>2, <1>4, <2>4 DEF Raises
<1>5. CASE variant # "raise"
  <2> DEFINE f == IF variant = "return" THEN "return" ELSE "value"
  <2>1. /\ ToMonty(json) # Failed /\ Same(ToMonty(json), value)
        /\ json.kind = "null" => value.kind = "None"
    BY <1>5 DEF Converts
  <2>2. request = IF variant = "return" THEN [NoFields EXCEPT !.return = Some(json)]
                  ELSE [NoFields EXCEPT !.value = Some(json)]
    BY <1>1, <1>5 DEF ResumeBody
  <2>3. /\ variant = "return" => request.return = Some(json) /\ request.value = None
        /\ variant = "name" => request.return = None /\ request.value = Some(json)
        /\ request.exception = None /\ request.futures = None
        /\ request.pending = None /\ request.undefined = None
    BY <1>5, <2>2 DEF NoFields
  <2>4. \/ f = "return" /\ variant = "return"
        \/ f = "value" /\ variant = "name"
    BY <1>5
  <2> HIDE DEF json, request, f
  <2>5. CASE json.kind = "null"
    <3>1. Option(Some(json)) = None
      BY <2>5, SomeIsSome DEF Option
    <3>2. \A g : ~(g \in FieldsSet(request))
      BY <2>3, <2>4, <3>1, FieldCounts, OtherFields
    <3>3. IntoInput(request) = BadRequest
      BY <3>2, NoFieldSet
    <3> QED BY <1>3, <2>1, <2>5, <3>3
  <2>6. CASE json.kind # "null"
    <3>1. Option(Some(json)) = Some(json)
      BY <2>6, SomeIsSome DEF Option
    <3>2. \A g : g \in FieldsSet(request) <=> g = f
      BY <2>3, <2>4, <3>1, FieldCounts, OtherFields, SomeIsSome
    <3>3. FieldsSet(request) = {f}
      BY <3>2
    <3>4. IntoInput(request) = Converted(variant, ToMonty(json))
      BY <2>3, <2>4, <3>3, FieldDecides, SomeIsSome
    <3> QED BY <1>2, <2>1, <3>4
  <2> QED BY <2>5, <2>6
<1> QED BY <1>4, <1>5

\* A body with a flag.
LEMMA FlagArrives ==
    ASSUME NEW variant \in {"pending", "name_undefined"}, NEW style
    PROVE  Arrives(IntoInput(ResumeBody(Input(variant, <<>>, <<>>), style)),
                   Input(variant, <<>>, <<>>))
<1> DEFINE answer == Input(variant, <<>>, <<>>)
           request == ResumeBody(answer, style)
           f == IF variant = "pending" THEN "pending" ELSE "undefined"
<1> SUFFICES Arrives(IntoInput(request), answer)
  OBVIOUS
<1>1. answer.variant = variant
  BY DEF Input
<1> HIDE DEF answer
<1>2. request = IF variant = "pending" THEN [NoFields EXCEPT !.pending = Some(TRUE)]
                ELSE [NoFields EXCEPT !.undefined = Some(TRUE)]
  BY <1>1 DEF ResumeBody
<1>3. /\ request.return = None /\ request.value = None
      /\ request.exception = None /\ request.futures = None
      /\ variant = "pending" => request.pending = Some(TRUE) /\ request.undefined = None
      /\ variant = "name_undefined" => request.pending = None /\ request.undefined = Some(TRUE)
  BY <1>2 DEF NoFields
<1>4. \/ f = "pending" /\ variant = "pending"
      \/ f = "undefined" /\ variant = "name_undefined"
  OBVIOUS
<1> HIDE DEF request, f
<1>5. \A g : g \in FieldsSet(request) <=> g = f
  BY <1>3, <1>4, FieldCounts, OtherFields
<1>6. FieldsSet(request) = {f}
  BY <1>5
<1>7. IntoInput(request) = answer
  BY <1>4, <1>6, FieldDecides DEF answer
<1> QED BY <1>7, NoValueArrives DEF Arrives, answer

\* A body with futures: all of them arrive, in their order, or one is null.
LEMMA FuturesArrive ==
    ASSUME NEW outcomes, IsList(outcomes), NEW style \in Styles,
           \A i \in DOMAIN outcomes : outcomes[i].variant \in {"return", "raise"},
           Convertible(Input("futures", <<>>, outcomes)),
           NEW request, request = ResumeBody(Input("futures", <<>>, outcomes), style),
           IsList(request.futures[1])
    PROVE  Arrives(IntoInput(request), Input("futures", <<>>, outcomes))
<1> DEFINE answer == Input("futures", <<>>, outcomes)
           futures == request.futures[1]
           n == Len(outcomes)
<1> SUFFICES Arrives(IntoInput(request), answer)
  OBVIOUS
<1>1. /\ answer.variant = "futures" /\ answer.values = <<>> /\ answer.outcomes = outcomes
  BY DEF Input
<1>2. n \in Nat /\ DOMAIN outcomes = 1 .. n
  BY LenProperties DEF IsList
<1> HIDE DEF answer, n
<1>3. request = [NoFields EXCEPT !.futures = Some([i \in 1 .. n |-> FutureBody(outcomes[i], style)])]
  BY <1>1, <1>2 DEF ResumeBody, answer
<1>4. /\ request.return = None /\ request.value = None /\ request.exception = None
      /\ request.pending = None /\ request.undefined = None
      /\ request.futures = Some([i \in 1 .. n |-> FutureBody(outcomes[i], style)])
  BY <1>3 DEF NoFields
<1>5. futures = [i \in 1 .. n |-> FutureBody(outcomes[i], style)]
  BY <1>4, SomeIsSome
<1>6. IntoInput(request) = IntoOutcomes(futures)
  <2>1. /\ Option(request.return) = None /\ Option(request.value) = None
        /\ request.exception = None /\ request.futures # None
        /\ request.pending # Some(TRUE) /\ request.undefined # Some(TRUE)
    BY <1>4, OtherFields, SomeIsSome
  <2>2. \A g : g \in FieldsSet(request) <=> g = "futures"
    <3> TAKE g
    <3> QED BY <2>1, FieldCounts
  <2>3. FieldsSet(request) = {"futures"}
    BY <2>2
  <2> QED BY <2>3, FieldDecides
<1> HIDE DEF futures
<1>7. IsList(futures) /\ DOMAIN futures = 1 .. n /\ Len(futures) = n
  <2>1. IsList(futures)
    BY DEF futures
  <2> QED BY <1>2, <1>5, <2>1, LengthOf
<1>8. ASSUME NEW i \in 1 .. n
      PROVE  \/ IntoOutcome(futures[i]) = BadRequest /\ outcomes[i].value.kind = "None"
             \/ /\ IntoOutcome(futures[i]) # BadRequest
                /\ \E result :
                     /\ IntoOutcome(futures[i]).outcomes =
                          <<[call_id |-> outcomes[i].call_id, variant |-> outcomes[i].variant,
                             value |-> result]>>
                     /\ Same(result, outcomes[i].value)
  <2>1. outcomes[i].variant \in {"return", "raise"}
    BY <1>2
  <2>2. outcomes[i] \in Range(outcomes)
    BY <1>2 DEF Range
  <2>3. IF outcomes[i].variant = "raise" THEN Raises(outcomes[i].value)
        ELSE Converts(outcomes[i].value)
    BY <1>1, <2>2 DEF Convertible, answer
  <2>4. futures[i] = FutureBody(outcomes[i], style)
    BY <1>5
  <2> QED BY <2>1, <2>3, <2>4, FutureArrives
<1>9. CASE IntoOutcomes(futures) = BadRequest
  <2> DEFINE outcome == [i \in DOMAIN futures |-> IntoOutcome(futures[i])]
  <2>1. BadRequest.variant # "futures" /\ \A o : Input("futures", <<>>, o).variant = "futures"
    BY DEF BadRequest, Input
  <2>2. \A o : Input("futures", <<>>, o) # BadRequest
    BY <2>1
  <2>3. BadRequest \in Range(outcome)
    BY <1>9, <2>2 DEF IntoOutcomes
  <2>4. PICK i \in 1 .. n : outcome[i] = BadRequest
    BY <1>7, <2>3 DEF Range
  <2>5. outcomes[i].value.kind = "None"
    BY <1>7, <1>8, <2>4
  <2>6. ReturnsNone(answer)
    BY <1>1, <1>2, <2>5 DEF ReturnsNone
  <2> QED BY <1>6, <1>9, <2>6 DEF Arrives
<1>10. CASE IntoOutcomes(futures) # BadRequest
  <2> DEFINE arrived == [i \in 1 .. n |-> IntoOutcome(futures[i]).outcomes[1]]
             result == Input("futures", <<>>, arrived)
  <2>1. /\ IntoOutcomes(futures) = result
        /\ \A i \in 1 .. n : IntoOutcome(futures[i]) # BadRequest
    BY <1>7, <1>10, OutcomesOfFutures
  <2>2. Len(arrived) = n
    <3>1. arrived = [i \in 1 .. n |-> arrived[i]]
      OBVIOUS
    <3> HIDE DEF arrived
    <3> QED BY <1>2, <3>1, LengthOf
  <2>3. ASSUME NEW i \in 1 .. n
        PROVE  /\ arrived[i].call_id = outcomes[i].call_id
               /\ arrived[i].variant = outcomes[i].variant
               /\ Same(arrived[i].value, outcomes[i].value)
    <3>1. PICK x :
             /\ IntoOutcome(futures[i]).outcomes =
                  <<[call_id |-> outcomes[i].call_id, variant |-> outcomes[i].variant, value |-> x]>>
             /\ Same(x, outcomes[i].value)
      BY <1>8, <2>1
    <3>2. arrived[i] =
            [call_id |-> outcomes[i].call_id, variant |-> outcomes[i].variant, value |-> x]
      BY <3>1
    <3> HIDE DEF arrived
    <3> QED BY <3>1, <3>2
  <2>4. DOMAIN arrived = 1 .. n
    OBVIOUS
  <2> HIDE DEF arrived
  <2>5. result.variant = "futures" /\ result.values = <<>> /\ result.outcomes = arrived
    BY DEF Input
  <2>6. DOMAIN <<>> = {} /\ Len(<<>>) = 0
    OBVIOUS
  <2> HIDE DEF result
  <2>7. SameInput(result, answer)
    BY <1>1, <2>2, <2>3, <2>4, <2>5, <2>6 DEF SameInput, n
  <2> QED BY <1>6, <1>10, <2>1, <2>7 DEF Arrives
<1> QED BY <1>9, <1>10

\* ResumeRequest::into_input, for whatever a client means.
LEMMA BodyArrives ==
    ASSUME NEW answer \in Answers, NEW style \in Styles, Convertible(answer)
    PROVE  Arrives(IntoInput(ResumeBody(answer, style)), answer)
<1>1. ASSUME answer.variant \in {"return", "raise", "name"},
             NEW value \in Range(answer.values), answer = Input(answer.variant, <<value>>, <<>>)
      PROVE  Arrives(IntoInput(ResumeBody(answer, style)), answer)
  <2>1. IF answer.variant = "raise" THEN Raises(value) ELSE Converts(value)
    BY DEF Convertible
  <2> QED BY <1>1, <2>1, OneValueArrives
<1>2. CASE answer = Input("futures", <<>>, answer.outcomes) /\ IsList(answer.outcomes)
           /\ \A i \in DOMAIN answer.outcomes : answer.outcomes[i].variant \in {"return", "raise"}
  <2> DEFINE request == ResumeBody(answer, style)
  <2>1. answer.variant = "futures"
    BY <1>2 DEF Input
  <2>2. request.futures # None
    BY <2>1, SomeIsSome DEF ResumeBody, NoFields
  <2>3. IsList(request.futures[1])
    BY <2>2, MeantBodiesParsed
  <2> HIDE DEF request
  <2>4. Arrives(IntoInput(request), answer)
    BY <1>2, <2>3, FuturesArrive DEF request
  <2> QED BY <2>4 DEF request
<1>3. CASE answer = Input("pending", <<>>, <<>>) \/ answer = Input("name_undefined", <<>>, <<>>)
  BY <1>3, FlagArrives
<1> QED BY <1>1, <1>2, <1>3, AnswersAssumption

\* A request is in flight or answered while something is meant by it.
MeantInv ==
    /\ Free => meant = None /\ delivered = None /\ bindings = None
    /\ meant # None => meant[1] \in Answers
    /\ sent # None => /\ status = 0 /\ pause \in PauseKind /\ bindings = None
                      /\ meant # None => \E style \in Styles : sent[1] = ResumeBody(meant[1], style)

LEMMA MeantInit == RequestsInit => MeantInv
BY DEF RequestsInit, MeantInv

LEMMA MeantNext == FlightInv /\ MeantInv /\ [RequestsNext]_requestsVars => MeantInv'
<1> SUFFICES ASSUME FlightInv, MeantInv, [RequestsNext]_requestsVars
             PROVE  MeantInv'
  OBVIOUS
<1>1. CASE Unauthorized
  BY <1>1 DEF Unauthorized, clientVars, Free, MeantInv
<1>2. CASE \E inputs \in Bindings : \E order \in Orders(DOMAIN inputs) : Compile(order)
  BY <1>2 DEF Compile, requestVars, stepVars, Free, MeantInv
<1>3. CASE Create
  <2>1. PICK client, body : Start(client, body)
    BY <1>3 DEF Create
  <2>2. sent = None /\ meant = None
    BY <1>3 DEF Create, Free, MeantInv
  <2>3. UNCHANGED <<meant, sent>>
    BY <2>1 DEF Start
  <2>4. ~Free'
    <3>1. program' = "running" \/ status' = 400
      BY <2>1 DEF Start, BeginStep
    <3> QED BY <3>1 DEF Free
  <2> QED BY <2>2, <2>3, <2>4 DEF MeantInv
<1>4. CASE Send
  <2>1. /\ Free /\ pause \in PauseKind /\ status = 0
        /\ UNCHANGED <<bindings, delivered, pause, status>>
    BY <1>4 DEF Send, Free
  <2>2. bindings' = None
    BY <2>1 DEF MeantInv
  <2>3. \/ \E answer \in Answers, style \in Styles :
             sent' = Some(ResumeBody(answer, style)) /\ meant' = Some(answer)
        \/ \E body : sent' = Some(body) /\ meant' = None
    BY <1>4 DEF Send
  <2>4. sent' # None /\ (meant' # None => /\ meant'[1] \in Answers
                                          /\ \E style \in Styles :
                                               sent'[1] = ResumeBody(meant'[1], style))
    BY <2>3, SomeIsSome
  <2>5. ~Free'
    BY <2>4 DEF Free
  <2> QED BY <2>1, <2>2, <2>4, <2>5 DEF MeantInv
<1>5. CASE Receive
  <2>1. sent # None /\ UNCHANGED <<stepVars, clientVars, delivered, pause>>
    BY <1>5 DEF Receive
  <2>2. CASE UNCHANGED <<sent, status>>
    BY <2>1, <2>2 DEF MeantInv, Free, clientVars, stepVars
  <2>3. CASE Refuse(400) \/ Refuse(404) \/ Refuse(500)
    BY <2>1, <2>3 DEF Refuse, MeantInv, Free, clientVars
  <2> QED BY <1>5, <2>2, <2>3 DEF Receive
<1>6. CASE Resume
  <2>1. /\ sent' = None
        /\ program' = "running" \/ status' \in {400, 500}
        /\ UNCHANGED clientVars
    BY <1>6 DEF Resume, Refuse, BeginStep
  <2> QED BY <2>1 DEF MeantInv, Free, clientVars
<1>7. CASE StepsNext /\ UNCHANGED <<identityVars, clientVars, requestVars, sourceVars>>
  <2>1. program # "none" /\ (program' # "none" \/ step' # NoStep)
    <3>1. CASE EndStep
      <4>1. program # "none"
        BY <3>1 DEF EndStep, Settled, Yielded, PauseKind
      <4>2. step'.status # "none"
        BY <3>1 DEF EndStep
      <4>3. NoStep.status = "none"
        BY DEF NoStep
      <4> QED BY <4>1, <4>2, <4>3
    <3> QED BY <1>7, <3>1 DEF StepsNext, Write, Yield, DenyOsCall, Yielded, PauseKind
  <2>2. sent = None
    BY <2>1 DEF FlightInv
  <2> QED BY <1>7, <2>1, <2>2 DEF MeantInv, Free, clientVars, requestVars
<1>8. CASE Respond
  <2>1. status' # 0 /\ UNCHANGED <<meant, sent>> /\ step # NoStep
    BY <1>8 DEF Respond, clientVars
  <2>2. sent = None
    BY <2>1 DEF FlightInv
  <2> QED BY <2>1, <2>2 DEF MeantInv, Free
<1>9. CASE Read
  <2>1. /\ bindings' = None /\ meant' = None /\ delivered' = None
        /\ UNCHANGED sent /\ status # 0
    BY <1>9 DEF Read
  <2> QED BY <2>1 DEF MeantInv
<1>10. CASE UNCHANGED requestsVars
  BY <1>10 DEF requestsVars, requestVars, clientVars, stepVars, MeantInv, Free
<1> QED BY <1>1, <1>2, <1>3, <1>4, <1>5, <1>6, <1>7, <1>8, <1>9, <1>10 DEF RequestsNext

LEMMA MeantInvariance == RequestsSpec => [](FlightInv /\ MeantInv /\ SentInv /\ CreatedInv)
<1>1. RequestsInit => FlightInv
  BY DEF RequestsInit, StepsInit, FlightInv
<1> QED BY <1>1, FlightNext, MeantInit, MeantNext, BodiesInvariance, PTL DEF RequestsSpec

\* An answer that does not fit is one that check_resume hands back.
LEMMA UnfitRefused ==
    ASSUME NEW kind \in PauseKind, NEW answer, NEW other, SameInput(other, answer),
           ~CheckResume([kind |-> kind, seq |-> 0], other.variant)
    PROVE  ~Fits(kind, answer)
BY DEF CheckResume, Fits, PauseKind, SameInput

LEMMA AnswerNext ==
    /\ FlightInv /\ MeantInv /\ SentInv /\ FormatRoundTrips /\ AnswerArrives
    /\ [RequestsNext]_requestsVars
    => AnswerArrives'
<1> SUFFICES ASSUME FlightInv, MeantInv, SentInv, FormatRoundTrips, AnswerArrives,
                    [RequestsNext]_requestsVars
             PROVE  AnswerArrives'
  OBVIOUS
<1>1. CASE UNCHANGED <<meant, delivered, pause, status>>
  BY <1>1 DEF AnswerArrives
<1>2. CASE meant' = None
  BY <1>2 DEF AnswerArrives
<1>3. CASE UNCHANGED <<meant, delivered>> /\ status' # 400
  BY <1>3 DEF AnswerArrives
<1>4. CASE Unauthorized
  BY <1>3, <1>4 DEF Unauthorized, clientVars
<1>5. CASE \E inputs \in Bindings : \E order \in Orders(DOMAIN inputs) : Compile(order)
  BY <1>1, <1>5 DEF Compile, requestVars
<1>6. CASE Create
  <2>1. PICK client, body : Start(client, body)
    BY <1>6 DEF Create
  <2>2. meant' = None
    BY <1>6, <2>1 DEF Create, Start, MeantInv
  <2> QED BY <1>2, <2>2
<1>7. CASE Send
  <2>1. delivered' = None /\ status' = 0
    BY <1>7 DEF Send, Free, MeantInv
  <2> QED BY <2>1 DEF AnswerArrives
<1>8. ASSUME sent # None, meant # None
      PROVE  Arrives(IntoInput(sent[1]), meant[1])
  <2>1. PICK style \in Styles : sent[1] = ResumeBody(meant[1], style)
    BY <1>8 DEF MeantInv
  <2>2. Convertible(meant[1]) /\ meant[1] \in Answers
    BY <1>8 DEF FormatRoundTrips, Convertible, MeantInv
  <2> QED BY <2>1, <2>2, BodyArrives
<1>9. CASE Receive
  <2>1. sent # None /\ UNCHANGED <<meant, delivered, pause>>
    BY <1>9 DEF Receive, clientVars
  <2>2. CASE UNCHANGED status
    BY <1>1, <2>1, <2>2
  <2>3. CASE IntoInput(sent[1]) = BadRequest /\ Refuse(400)
    <3>1. SUFFICES ASSUME meant # None PROVE ReturnsNone(meant[1])
      BY <2>1 DEF AnswerArrives
    <3> QED BY <1>8, <2>1, <2>3, <3>1 DEF Arrives
  <2>4. CASE Refuse(404) \/ Refuse(500)
    BY <1>3, <2>1, <2>4 DEF Refuse
  <2> QED BY <1>9, <2>2, <2>3, <2>4 DEF Receive
<1>10. CASE Resume
  <2>1. input # None /\ sent # None /\ pause \in PauseKind /\ meant' = meant /\ status = 0
    BY <1>10 DEF Resume, clientVars, FlightInv, MeantInv
  <2>2. SUFFICES ASSUME meant # None PROVE AnswerArrives'
    BY <1>2, <2>1
  <2>3. SameInput(input[1], meant[1])
    BY <1>8, <2>1, <2>2 DEF SentInv, Arrives
  <2>4. CASE ~CheckResume([kind |-> pause, seq |-> 0], input[1].variant)
    <3>1. ~Fits(pause, meant[1])
      BY <2>1, <2>3, <2>4, UnfitRefused
    <3>2. UNCHANGED <<delivered, pause>>
      BY <1>10, <2>4 DEF Resume
    <3> QED BY <2>1, <3>1, <3>2 DEF AnswerArrives
  <2>5. CASE CheckResume([kind |-> pause, seq |-> 0], input[1].variant)
    <3>1. Applies(pause, input[1].variant)
      BY <2>5, CheckedApplies
    <3>2. delivered' = Some(input[1]) /\ status' = status
      BY <1>10, <2>5, <3>1 DEF Resume
    <3>3. delivered'[1] = input[1] /\ status' # 400
      BY <2>1, <3>2, SomeIsSome
    <3> QED BY <2>1, <2>3, <3>3 DEF AnswerArrives
  <2> QED BY <2>4, <2>5
<1>11. CASE StepsNext /\ UNCHANGED <<identityVars, clientVars, requestVars, sourceVars>>
  BY <1>1, <1>11 DEF clientVars, requestVars
<1>12. CASE Respond
  BY <1>3, <1>12 DEF Respond, clientVars
<1>13. CASE Read
  BY <1>2, <1>13 DEF Read
<1>14. CASE UNCHANGED requestsVars
  BY <1>1, <1>14 DEF requestsVars, clientVars, requestVars
<1> QED BY <1>4, <1>5, <1>6, <1>7, <1>9, <1>10, <1>11, <1>12, <1>13, <1>14 DEF RequestsNext

\* Where the value format is as documented, a client's answer reaches the
\* interpreter as it was meant, whatever it is and however it is written; an
\* answer is refused only because it does not fit the pause, or is null
\* (into_input, into_outcome, check_resume, apply_resume).
THEOREM AnswersArrive == RequestsSpec /\ []FormatRoundTrips => []AnswerArrives
<1>1. RequestsInit => AnswerArrives
  BY DEF RequestsInit, AnswerArrives
<1> QED BY <1>1, MeantInvariance, AnswerNext, PTL DEF RequestsSpec

-----------------------------------------------------------------------------
(* What is bound to a program's inputs *)

\* The inputs that are meant are bound to their names.
BoundTo(spec, inputs) ==
    /\ spec.ok
    /\ Range(spec.names) = DOMAIN inputs
    /\ Len(spec.names) = Len(spec.inputs)
    /\ \A i \in DOMAIN spec.names : Same(spec.inputs[i], inputs[spec.names[i]])

\* Items that are written in the order of some names.
LEMMA ItemsBound ==
    ASSUME NEW inputs, \A value \in Range(inputs) : Converts(value),
           NEW style \in Styles, NEW names, IsList(names), Range(names) = DOMAIN inputs,
           NEW items, IsList(items), Len(items) = Len(names),
           \A i \in DOMAIN names : items[i] = Written(inputs[names[i]], style)
    PROVE  /\ Failed \notin Range(EachInput(items))
           /\ BoundTo(Spec(names, EachInput(items)), inputs)
<1> DEFINE each == EachInput(items)
           n == Len(names)
<1>1. n \in Nat /\ DOMAIN names = 1 .. n
  BY LenProperties DEF IsList
<1>2. /\ Len(each) = n
      /\ \A i \in 1 .. n : each[i] = ToMonty(items[i])
  BY EachInputLength
<1>3. DOMAIN each = 1 .. n
  BY <1>1, EachInputLength DEF EachInput
<1>4. ASSUME NEW i \in 1 .. n
      PROVE  each[i] # Failed /\ Same(each[i], inputs[names[i]])
  <2>1. names[i] \in DOMAIN inputs
    BY <1>1 DEF Range
  <2>2. Converts(inputs[names[i]])
    BY <2>1 DEF Range
  <2>3. each[i] = ToMonty(Written(inputs[names[i]], style))
    BY <1>1, <1>2
  <2> QED BY <2>2, <2>3 DEF Converts
<1>5. Failed \notin Range(each)
  BY <1>3, <1>4 DEF Range
<1>6. /\ Spec(names, each).ok
      /\ Spec(names, each).names = names
      /\ Spec(names, each).inputs = each
  BY DEF Spec
<1> HIDE DEF each, n
<1>7. BoundTo(Spec(names, each), inputs)
  BY <1>1, <1>2, <1>4, <1>6 DEF BoundTo, n
<1> QED BY <1>5, <1>7 DEF each

\* inputs_for_code.
LEMMA CodeBound ==
    ASSUME NEW inputs \in Bindings, \A value \in Range(inputs) : Converts(value),
           NEW order \in Orders(DOMAIN inputs), NEW style \in Styles
    PROVE  BoundTo(IntoSpec(CodeBody(inputs, order, style)), inputs)
<1> DEFINE object == Object(order, [i \in DOMAIN order |-> Written(inputs[order[i]], style)])
           body == CodeBody(inputs, order, style)
<1>1. /\ object.kind = "object"
      /\ IsParsed(object)
      /\ Range(object.keys) = DOMAIN inputs
      /\ \A i \in DOMAIN object.keys : object.items[i] = Written(inputs[object.keys[i]], style)
  BY ObjectAssumption
<1>2. body.code # None /\ body.snapshot = None /\ body.inputs = Some(object)
  BY SomeIsSome DEF CodeBody
<1> SUFFICES BoundTo(IntoSpec(body), inputs)
  OBVIOUS
<1> HIDE DEF object, body
<1>3. Option(body.inputs) = Some(object)
  BY <1>1, <1>2, SomeIsSome DEF Option
<1>4. IntoSpec(body) = InputsForCode(Some(object))
  BY <1>2, <1>3 DEF IntoSpec
<1>5. IsList(object.keys) /\ IsList(object.items) /\ Len(object.items) = Len(object.keys)
  BY <1>1 DEF IsParsed
<1>6. /\ Failed \notin Range(EachInput(object.items))
      /\ BoundTo(Spec(object.keys, EachInput(object.items)), inputs)
  BY <1>1, <1>5, ItemsBound
<1>7. InputsForCode(Some(object)) = Spec(object.keys, EachInput(object.items))
  BY <1>1, <1>6, SomeIsSome DEF InputsForCode
<1> QED BY <1>4, <1>6, <1>7

\* inputs_for_snapshot.
LEMMA SnapshotBound ==
    ASSUME NEW inputs, \A value \in Range(inputs) : Converts(value),
           NEW names, IsList(names), Range(names) = DOMAIN inputs, NEW style \in Styles
    PROVE  BoundTo(IntoSpec(SnapshotBody(inputs, names, style)), inputs)
<1> DEFINE items == [i \in DOMAIN names |-> Written(inputs[names[i]], style)]
           json == [kind |-> "array", atom |-> "", keys |-> <<>>, items |-> items]
           body == SnapshotBody(inputs, names, style)
<1>1. Len(names) \in Nat /\ DOMAIN names = 1 .. Len(names)
  BY LenProperties DEF IsList
<1>2. items = [i \in 1 .. Len(names) |-> items[i]]
  BY <1>1
<1>3. \A i \in DOMAIN names : items[i] = Written(inputs[names[i]], style)
  OBVIOUS
<1>4. /\ body.code = None /\ body.snapshot = Some([valid |-> TRUE, names |-> names])
      /\ body.inputs = Some(json)
  BY DEF SnapshotBody
<1>5. json.kind = "array" /\ json.items = items
  OBVIOUS
<1> SUFFICES BoundTo(IntoSpec(body), inputs)
  OBVIOUS
<1> HIDE DEF items, json, body
<1>6. IsList(items) /\ Len(items) = Len(names)
  BY <1>1, <1>2, LengthOf DEF IsList
<1>7. Option(body.inputs) = Some(json)
  BY <1>4, <1>5, SomeIsSome DEF Option
<1>8. body.snapshot # None /\ body.snapshot[1].valid /\ body.snapshot[1].names = names
  BY <1>4, SomeIsSome
<1>9. IntoSpec(body) = InputsForSnapshot(names, Some(json))
  BY <1>4, <1>7, <1>8 DEF IntoSpec
<1>10. /\ Failed \notin Range(EachInput(items))
       /\ BoundTo(Spec(names, EachInput(items)), inputs)
  BY <1>3, <1>6, ItemsBound
<1>11. InputsForSnapshot(names, Some(json)) = Spec(names, EachInput(items))
  BY <1>5, <1>10, SomeIsSome DEF InputsForSnapshot
<1> QED BY <1>9, <1>10, <1>11

LEMMA InputsNext ==
    /\ FlightInv /\ MeantInv /\ CreatedInv /\ FormatRoundTrips' /\ InputsBound
    /\ [RequestsNext]_requestsVars
    => InputsBound'
<1> SUFFICES ASSUME FlightInv, MeantInv, CreatedInv, FormatRoundTrips', InputsBound,
                    [RequestsNext]_requestsVars
             PROVE  InputsBound'
  OBVIOUS
<1>1. CASE UNCHANGED <<bindings, bound>> /\ (status' = status \/ status' # 400)
  BY <1>1 DEF InputsBound
<1>2. CASE bindings' = None
  BY <1>2 DEF InputsBound
<1>3. CASE sent # None /\ UNCHANGED bindings
  BY <1>2, <1>3 DEF MeantInv
<1>4. CASE Unauthorized
  BY <1>1, <1>4 DEF Unauthorized, clientVars, sourceVars
<1>5. CASE \E inputs \in Bindings : \E order \in Orders(DOMAIN inputs) : Compile(order)
  BY <1>1, <1>5 DEF Compile, requestVars, sourceVars
<1>6. CASE Create
  <2>1. ASSUME NEW client, NEW body, NEW inputs, Start(client, body),
               bindings' = Some(inputs), BoundTo(IntoSpec(body), inputs)
        PROVE  InputsBound'
    <3>1. IntoSpec(body).ok /\ status = 0
      BY <1>6, <2>1 DEF BoundTo, Create, Free
    <3>2. bound' = IntoSpec(body) /\ status' # 400
      BY <2>1, <3>1 DEF Start
    <3>3. bindings'[1] = inputs
      BY <2>1, SomeIsSome
    <3> QED BY <2>1, <3>2, <3>3 DEF InputsBound, BoundTo
  <2>2. ASSUME NEW client, NEW inputs \in Bindings, NEW order \in Orders(DOMAIN inputs),
               NEW style \in Styles, bindings' = Some(inputs),
               Start(client, CodeBody(inputs, order, style))
        PROVE  InputsBound'
    <3>1. \A value \in Range(inputs) : Converts(value)
      BY <2>2, SomeIsSome DEF FormatRoundTrips
    <3> QED BY <2>1, <2>2, <3>1, CodeBound
  <2>3. ASSUME NEW client, NEW inputs \in Bindings, NEW style \in Styles,
               bindings' = Some(inputs), snapshot # None, Range(snapshot[1]) = DOMAIN inputs,
               Start(client, SnapshotBody(inputs, snapshot[1], style))
        PROVE  InputsBound'
    <3>1. \A value \in Range(inputs) : Converts(value)
      BY <2>3, SomeIsSome DEF FormatRoundTrips
    <3>2. IsList(snapshot[1])
      BY <2>3 DEF CreatedInv
    <3>3. BoundTo(IntoSpec(SnapshotBody(inputs, snapshot[1], style)), inputs)
      BY <2>3, <3>1, <3>2, SnapshotBound
    <3> QED BY <2>1, <2>3, <3>3
  <2> QED BY <1>2, <1>6, <2>2, <2>3 DEF Create
<1>7. CASE Send
  BY <1>1, <1>7 DEF Send, sourceVars
<1>8. CASE Receive
  BY <1>3, <1>8 DEF Receive, clientVars
<1>9. CASE Resume
  BY <1>3, <1>9 DEF Resume, clientVars, FlightInv
<1>10. CASE StepsNext /\ UNCHANGED <<identityVars, clientVars, requestVars, sourceVars>>
  BY <1>1, <1>10 DEF clientVars, requestVars, sourceVars
<1>11. CASE Respond
  BY <1>1, <1>11 DEF Respond, clientVars, sourceVars
<1>12. CASE Read
  BY <1>2, <1>12 DEF Read
<1>13. CASE UNCHANGED requestsVars
  BY <1>1, <1>13 DEF requestsVars, clientVars, requestVars, sourceVars
<1> QED BY <1>4, <1>5, <1>6, <1>7, <1>8, <1>9, <1>10, <1>11, <1>12, <1>13 DEF RequestsNext

\* Where the value format is as documented, a program is started with each input
\* bound to the value that the client means for it, from code as from a snapshot,
\* in whichever order the members of an object are parsed (into_spec).
THEOREM InputsReach == RequestsSpec /\ []FormatRoundTrips => []InputsBound
<1>1. RequestsInit => InputsBound
  BY DEF RequestsInit, InputsBound
<1> QED BY <1>1, MeantInvariance, InputsNext, PTL DEF RequestsSpec

=============================================================================
