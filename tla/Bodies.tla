------------------------------- MODULE Bodies -------------------------------
(***************************************************************************)
(* What the server makes of the bodies of requests: ResumeRequest of       *)
(* src/api/sessions.rs and SourceFields of src/api/dto.rs.  An Option is a *)
(* sequence of at most one element.  The conversion of a single value      *)
(* (src/convert.rs) is a parameter.                                        *)
(*                                                                         *)
(* Definitions commented as faulty are not part of the specification: each *)
(* stands for a plausible bug in the definition after it.                  *)
(***************************************************************************)
EXTENDS Naturals, Sequences, FiniteSets, Functions

CONSTANTS ToMonty(_),      \* json_to_monty
          ToException(_),  \* exception_from_parts
          Failed           \* what either returns when it fails

None == <<>>

Some(x) == <<x>>

\* serde reads a field that is null as one that is not there, also where the
\* field may hold any value.
Option(field) == IF field # None /\ field[1].kind = "null" THEN None ELSE field

-----------------------------------------------------------------------------

\* ResumeInput, and the answers of into_input that are none.
Input(variant, values, outcomes) ==
    [variant |-> variant, values |-> values, outcomes |-> outcomes]

BadRequest == Input("bad_request", <<>>, <<>>)

Internal == Input("internal", <<>>, <<>>)

\* A value that must convert before the input is built.
Converted(variant, value) ==
    IF value = Failed THEN BadRequest ELSE Input(variant, <<value>>, <<>>)

Outcome(call_id, variant, value) ==
    IF value = Failed THEN BadRequest
    ELSE Input("futures", <<>>, <<[call_id |-> call_id, variant |-> variant, value |-> value]>>)

\* FutureInput::into_outcome, as an input with one outcome.
\* (Faulty: a value is taken whether or not there is an exception.)
IntoOutcomeLax(future) ==
    LET result == Option(future.return)
    IN  CASE result # None ->
               Outcome(future.call_id, "return", ToMonty(result[1]))
          [] result = None /\ future.exception # None ->
               Outcome(future.call_id, "raise", ToException(future.exception[1]))
          [] OTHER -> BadRequest

IntoOutcome(future) ==
    LET result == Option(future.return)
    IN  CASE result # None /\ future.exception = None ->
               Outcome(future.call_id, "return", ToMonty(result[1]))
          [] result = None /\ future.exception # None ->
               Outcome(future.call_id, "raise", ToException(future.exception[1]))
          [] OTHER -> BadRequest

\* The futures of a resume, all of them or none.
IntoOutcomes(futures) ==
    LET outcome == [i \in DOMAIN futures |-> IntoOutcome(futures[i])]
    IN  IF BadRequest \in Range(outcome) THEN BadRequest
        ELSE Input("futures", <<>>, [i \in DOMAIN futures |-> outcome[i].outcomes[1]])

\* The fields that count as set; a flag counts when it is true.
\* (Faulty: a flag counts when it is there.)
FieldsSetByPresence(request) ==
    {f \in {"return", "value"} : Option(request[f]) # None}
    \cup {f \in {"exception", "futures", "pending", "undefined"} : request[f] # None}

FieldsSet(request) ==
    {f \in {"return", "value"} : Option(request[f]) # None}
    \cup {f \in {"exception", "futures"} : request[f] # None}
    \cup {f \in {"pending", "undefined"} : request[f] = Some(TRUE)}

\* ResumeRequest::into_input.
IntoInput(request) ==
    IF Cardinality(FieldsSet(request)) # 1 THEN BadRequest
    ELSE CASE Option(request.return) # None -> Converted("return", ToMonty(request.return[1]))
           [] request.exception # None -> Converted("raise", ToException(request.exception[1]))
           [] request.pending = Some(TRUE) -> Input("pending", <<>>, <<>>)
           [] Option(request.value) # None -> Converted("name", ToMonty(request.value[1]))
           [] request.undefined = Some(TRUE) -> Input("name_undefined", <<>>, <<>>)
           [] request.futures # None -> IntoOutcomes(request.futures[1])
           [] OTHER -> Internal

-----------------------------------------------------------------------------

\* SourceSpec: the names of a program's inputs and their values by position.
\* The names of a snapshot are those it was compiled with.
Spec(names, inputs) == [ok |-> TRUE, names |-> names, inputs |-> inputs]

BadSpec == [ok |-> FALSE, names |-> <<>>, inputs |-> <<>>]

\* (Faulty: the values are taken from the end.)
EachInputReversed(items) == [i \in DOMAIN items |-> ToMonty(items[Len(items) + 1 - i])]

EachInput(items) == [i \in DOMAIN items |-> ToMonty(items[i])]

\* inputs_for_code, and inputs_for_snapshot for a snapshot with `names`.
InputsForCode(inputs) ==
    CASE inputs = None -> Spec(<<>>, <<>>)
      [] inputs # None /\ inputs[1].kind = "object" ->
           IF Failed \in Range(EachInput(inputs[1].items)) THEN BadSpec
           ELSE Spec(inputs[1].keys, EachInput(inputs[1].items))
      [] inputs # None /\ inputs[1].kind = "array" /\ inputs[1].items = <<>> -> Spec(<<>>, <<>>)
      [] OTHER -> BadSpec

InputsForSnapshot(names, inputs) ==
    CASE inputs = None -> Spec(names, <<>>)
      [] inputs # None /\ inputs[1].kind = "array" ->
           IF Failed \in Range(EachInput(inputs[1].items)) THEN BadSpec
           ELSE Spec(names, EachInput(inputs[1].items))
      [] inputs # None /\ inputs[1].kind = "object" /\ inputs[1].keys = <<>> -> Spec(names, <<>>)
      [] OTHER -> BadSpec

\* SourceFields::into_spec.  A snapshot is the names compiled into it, or does
\* not decode.
IntoSpec(fields) ==
    CASE fields.code # None /\ fields.snapshot = None -> InputsForCode(Option(fields.inputs))
      [] fields.code = None /\ fields.snapshot # None /\ fields.snapshot[1].valid ->
           InputsForSnapshot(fields.snapshot[1].names, Option(fields.inputs))
      [] OTHER -> BadSpec
=============================================================================
