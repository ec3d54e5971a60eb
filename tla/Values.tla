------------------------------- MODULE Values -------------------------------
(***************************************************************************)
(* The conversion of JSON values to values of the interpreter              *)
(* (src/convert.rs), and how a client writes a value (README.md, "The      *)
(* value format").  A value of either side is a record of its kind, its    *)
(* text when it is a scalar, and its parts.  The kinds of the interpreter  *)
(* that JSON lacks are named by their tags.                                *)
(*                                                                         *)
(* A definition commented as faulty stands for a plausible bug in the one  *)
(* after it; it is not part of the conversion.                             *)
(***************************************************************************)
EXTENDS Naturals, Sequences, Functions, TLC

\* serde_json::Value and MontyObject.  The keys of a JSON object are strings,
\* those of a dict are values.
Json(kind, atom, keys, items) ==
    [kind |-> kind, atom |-> atom, keys |-> keys, items |-> items]

MontyObject(kind, atom, keys, items) ==
    [kind |-> kind, atom |-> atom, keys |-> keys, items |-> items]

\* Numbers are their literals.  A whole number fits i64, u64, or neither; one
\* that fits neither is not modelled.
Byte == {"0", "255"}

U64 == Byte \cup {"256", "2^63"}

I64 == Byte \cup {"256", "-1"}

\* Base64 text and the bytes it stands for.
Base64 == ("" :> <<>>) @@ ("AP8=" :> <<"0", "255">>)

SequenceTags == {"$tuple", "$set", "$frozenset"}

\* Strings that begin with `$`.
DollarStrings == SequenceTags
    \cup {"$bytes", "$ellipsis", "$float", "$dict", "$function", "$path", "$other"}

-----------------------------------------------------------------------------

Scalar(kind, atom) == MontyObject(kind, atom, <<>>, <<>>)

ConvertError == Scalar("error", "")

\* Iterator::collect into a Result: one part that fails fails the whole.
Collect(kind, keys, items) ==
    IF ConvertError \in Range(keys) \cup Range(items) THEN ConvertError
    ELSE MontyObject(kind, "", keys, items)

NumberToMonty(literal) ==
    CASE literal \in I64 -> Scalar("int", literal)
      [] literal \in U64 \ I64 -> ConvertError
      [] OTHER -> Scalar("float", literal)

BytesToMonty(body) ==
    LET Bytes(bytes) ==
            MontyObject("$bytes", "", <<>>, [i \in DOMAIN bytes |-> Scalar("int", bytes[i])])
        Literals == [i \in DOMAIN body.items |-> body.items[i].atom]
    IN  CASE body.kind = "string" /\ body.atom \in DOMAIN Base64 -> Bytes(Base64[body.atom])
          [] body.kind = "array" /\ \A i \in DOMAIN body.items :
                                       body.items[i].kind = "number" /\ Literals[i] \in Byte
               -> Bytes(Literals)
          [] OTHER -> ConvertError

\* single_dollar_tag.
\* (Faulty: an object with more keys counts when its first one begins with `$`.)
IsTaggedByFirst(object) == object.keys # <<>> /\ object.keys[1] \in DollarStrings

IsTagged(object) == Len(object.keys) = 1 /\ object.keys[1] \in DollarStrings

RECURSIVE JsonToMonty(_)

EachToMonty(items) == [i \in DOMAIN items |-> JsonToMonty(items[i])]

\* dict_tag_to_monty: an array of pairs, whose keys are values as well.
DictToMonty(body) ==
    IF body.kind = "array" /\ \A i \in DOMAIN body.items :
                                 body.items[i].kind = "array" /\ Len(body.items[i].items) = 2
    THEN LET half(n) == [i \in DOMAIN body.items |-> JsonToMonty(body.items[i].items[n])]
         IN  Collect("dict", half(1), half(2))
    ELSE ConvertError

TaggedToMonty(tag, body) ==
    CASE tag \in SequenceTags /\ body.kind = "array" -> Collect(tag, <<>>, EachToMonty(body.items))
      [] tag = "$bytes" -> BytesToMonty(body)
      [] tag = "$ellipsis" -> Scalar(tag, "")
      [] tag = "$float" /\ body.kind = "string" /\ body.atom \in {"nan", "inf", "-inf"}
           -> Scalar("float", body.atom)
      [] tag = "$dict" -> DictToMonty(body)
      [] tag \in {"$function", "$path"} /\ body.kind = "string" -> Scalar(tag, body.atom)
      [] OTHER -> ConvertError

ObjectToMonty(object) ==
    IF IsTagged(object) THEN TaggedToMonty(object.keys[1], object.items[1])
    ELSE Collect("dict", [i \in DOMAIN object.keys |-> Scalar("str", object.keys[i])],
                 EachToMonty(object.items))

JsonToMonty(json) ==
    CASE json.kind = "null"   -> Scalar("None", "")
      [] json.kind = "bool"   -> Scalar("bool", json.atom)
      [] json.kind = "number" -> NumberToMonty(json.atom)
      [] json.kind = "string" -> Scalar("str", json.atom)
      [] json.kind = "array"  -> Collect("list", <<>>, EachToMonty(json.items))
      [] json.kind = "object" -> ObjectToMonty(json)

\* exception_from_parts, of the type of an exception; its message is left out.
ExceptionFromParts(exc_type) ==
    IF exc_type \in {"ValueError", "KeyError"} THEN Scalar("exception", exc_type) ELSE ConvertError

-----------------------------------------------------------------------------
(* What a client writes for a value, after the table in README.md.  Two    *)
(* styles: the shortest form, and the one that is always explicit.         *)

JString(text) == Json("string", text, <<>>, <<>>)

JArray(items) == Json("array", "", <<>>, items)

\* The keys of objects, sorted: serde_json::Map is (Cargo.lock has it without the
\* feature preserve_order), so whatever the order in which a client writes the
\* members of an object, the server sees them in this one.
KeyOrder == <<"$bytes", "$dict", "$ellipsis", "$float", "$frozenset", "$function", "$other",
              "$path", "$set", "$tuple", "a", "x", "y">>

JObject(keys, items) ==
    LET Present(key) == key \in Range(keys)
        sorted == SelectSeq(KeyOrder, Present)
    IN  Json("object", "", sorted,
             [i \in DOMAIN sorted |-> items[CHOOSE j \in DOMAIN keys : keys[j] = sorted[i]]])

Tagged(tag, body) == JObject(<<tag>>, <<body>>)

Texts(keys) == [i \in DOMAIN keys |-> keys[i].atom]

\* "dict with non-string keys" need `$dict`, and so does a dict that would be
\* taken for a tag.
HasPlainForm(dict) ==
    /\ \A i \in DOMAIN dict.keys : dict.keys[i].kind = "str"
    /\ Len(dict.keys) = 1 => dict.keys[1].atom \notin DollarStrings

\* The == of Python, for which the order of the members of a dict does not count.
RECURSIVE Equal(_, _)

Equal(value, other) ==
    /\ value.kind = other.kind /\ value.atom = other.atom
    /\ Len(value.items) = Len(other.items)
    /\ \A i \in DOMAIN value.items :
          IF value.kind = "dict"
          THEN \E j \in DOMAIN other.items : /\ Equal(value.keys[i], other.keys[j])
                                            /\ Equal(value.items[i], other.items[j])
          ELSE Equal(value.items[i], other.items[i])

RECURSIVE Form(_, _)

Forms(items, style) == [i \in DOMAIN items |-> Form(items[i], style)]

DictForm(dict, style) ==
    IF HasPlainForm(dict) /\ style = "short"
    THEN JObject(Texts(dict.keys), Forms(dict.items, style))
    ELSE Tagged("$dict", JArray([i \in DOMAIN dict.keys |->
                    JArray(<<Form(dict.keys[i], style), Form(dict.items[i], style)>>)]))

BytesForm(bytes, style) ==
    LET text == {t \in DOMAIN Base64 : Base64[t] = Texts(bytes.items)}
    IN  Tagged("$bytes", IF style = "short" /\ text # {} THEN JString(CHOOSE t \in text : TRUE)
                         ELSE JArray(Forms(bytes.items, style)))

Form(value, style) ==
    CASE value.kind = "None"  -> Json("null", "", <<>>, <<>>)
      [] value.kind = "bool"  -> Json("bool", value.atom, <<>>, <<>>)
      [] value.kind = "int"   -> Json("number", value.atom, <<>>, <<>>)
      [] value.kind = "float" -> IF value.atom \in {"nan", "inf", "-inf"}
                                 THEN Tagged("$float", JString(value.atom))
                                 ELSE Json("number", value.atom, <<>>, <<>>)
      [] value.kind = "str"   -> JString(value.atom)
      [] value.kind = "list"  -> JArray(Forms(value.items, style))
      [] value.kind = "dict"  -> DictForm(value, style)
      [] value.kind = "$bytes" -> BytesForm(value, style)
      [] value.kind \in SequenceTags -> Tagged(value.kind, JArray(Forms(value.items, style)))
      [] value.kind = "$ellipsis" -> Tagged(value.kind, JString("..."))
      [] value.kind \in {"$function", "$path"} -> Tagged(value.kind, JString(value.atom))
=============================================================================
