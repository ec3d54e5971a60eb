----------------------------- MODULE MCRequests -----------------------------
(***************************************************************************)
(* Values, answers and bodies for checking Requests with TLC: the          *)
(* conversion of Values, every scalar, and structures of two levels.       *)
(***************************************************************************)
EXTENDS Requests, Values

Scalars ==
    {Scalar("None", ""), Scalar("bool", "true"), Scalar("$ellipsis", "")}
    \cup {Scalar("int", n) : n \in I64}
    \cup {Scalar("float", x) : x \in {"1.5", "1e30", "nan", "-inf"}}
    \cup {Scalar("str", s) : s \in {"", "a", "$set", "nan"}}
    \cup {Scalar("$function", "f"), Scalar("$path", "p")}
    \cup {MontyObject("$bytes", "", <<>>, [i \in DOMAIN b |-> Scalar("int", b[i])])
             : b \in {<<>>, <<"0", "255">>, <<"255">>}}

\* Keys of dicts: strings, some of which begin with `$`, and others.
DictKeys == {Scalar("str", "a"), Scalar("str", "$tuple"), Scalar("str", "$other"),
             Scalar("int", "-1"), MontyObject("$tuple", "", <<>>, <<Scalar("None", "")>>)}

SequenceKinds == {"list"} \cup SequenceTags

\* Structures with parts from `parts`; dicts have at most two members.
Structures(parts) ==
    {MontyObject(kind, "", <<>>, items) : kind \in SequenceKinds,
        items \in {<<>>} \cup {<<p>> : p \in parts} \cup {<<p, Scalar("int", "0")>> : p \in parts}}
    \cup {MontyObject("dict", "", <<>>, <<>>)}
    \cup {MontyObject("dict", "", <<k>>, <<p>>) : k \in DictKeys, p \in parts}
    \cup {MontyObject("dict", "", <<k, l>>, <<p, Scalar("None", "")>>)
            : k \in DictKeys \ {Scalar("str", "a")}, l \in {Scalar("str", "a")}, p \in parts}
    \cup {MontyObject("dict", "", <<k, l>>, <<p, Scalar("None", "")>>)
            : k \in DictKeys, l \in {Scalar("str", "$set")}, p \in parts}

\* Parts that have to be told apart within a structure.
Inner == {Scalar("None", ""), Scalar("float", "nan"), Scalar("str", "$set"),
          MontyObject("list", "", <<>>, <<Scalar("bool", "true")>>),
          MontyObject("dict", "", <<Scalar("str", "$float")>>, <<Scalar("str", "nan")>>),
          MontyObject("dict", "", <<Scalar("str", "$set"), Scalar("str", "a")>>,
                                  <<Scalar("None", ""), Scalar("None", "")>>)}

PythonValues == Scalars \cup Structures(Inner)

Exceptions == {Scalar("exception", "ValueError")}

Outcomes(call_id) ==
    {[call_id |-> call_id, variant |-> "return", value |-> v] : v \in Inner}
    \cup {[call_id |-> call_id, variant |-> "raise", value |-> e] : e \in Exceptions}

ClientAnswers ==
    {Input(variant, <<v>>, <<>>) : variant \in {"return", "name"}, v \in PythonValues}
    \cup {Input("raise", <<e>>, <<>>) : e \in Exceptions}
    \cup {Input(variant, <<>>, <<>>) : variant \in {"pending", "name_undefined"}}
    \cup {Input("futures", <<>>, outcomes) : outcomes \in
            {<<>>} \cup {<<o>> : o \in Outcomes(1)} \cup Outcomes(1) \X Outcomes(2)}

\* Inputs of programs, the names of which never are what they stand for.
ClientBindings ==
    UNION {[names -> {Scalar("None", ""), Scalar("str", "a"),
                      MontyObject("$tuple", "", <<>>, <<Scalar("int", "0")>>)}]
             : names \in {{}, {"x", "y"}}}

\* Tokens one of which is listed twice, under names that two of them share; and
\* none, for which clients go by their addresses.
TokenLists ==
    {<<>>, <<<<"a", "t1">>, <<"b", "t2", "0">>, <<"b", "t1", "2">>, <<"t3">>>>,
     <<<<"a", "t1", "many">>>>}

Rpm(text) == CASE text = "0" -> 0 [] text = "2" -> 2 [] OTHER -> Unparsed

Client(header, forwarded, socket) ==
    [header |-> header, forwarded |-> forwarded, socket |-> socket]

Bearer(scheme, token) == Some([scheme |-> scheme, token |-> token])

ClientSet ==
    {Client(Bearer("Bearer", "t1"), <<>>, "ip1"), Client(Bearer("bearer", "t3"), <<>>, "ip1"),
     Client(Bearer("BEARER", "t2"), <<"ip1", "ip2">>, "ip2"),
     Client(Bearer("Basic", "t1"), <<"">>, "ip2"), Client(None, <<>>, "ip1")}

-----------------------------------------------------------------------------
(* Bodies that no reader of the documentation would write, or would: fields *)
(* set together, set to null or false, and values that do not convert.     *)

JNull == Json("null", "", <<>>, <<>>)

BadValues == {JNull, Json("number", "2^63", <<>>, <<>>), Tagged("$other", JNull),
              Tagged("$set", JNull), Tagged("$float", JString("1.5")),
              Tagged("$bytes", JArray(<<Json("number", "256", <<>>, <<>>)>>)),
              Tagged("$dict", JArray(<<JArray(<<JNull>>)>>)),
              JArray(<<JString("a"), Tagged("$path", JNull)>>)}

Optional(S) == {None} \cup {Some(x) : x \in S}

OddFutures ==
    {<<[call_id |-> 1, return |-> r, exception |-> e]>> :
        r \in Optional(BadValues \cup {JString("a")}), e \in Optional({"ValueError", "Unknown"})}

OddBodies ==
    [return : Optional({JNull, JString("a")}), exception : Optional({"ValueError"}),
     pending : Optional(BOOLEAN), value : Optional({JNull, JString("a")}),
     undefined : Optional(BOOLEAN), futures : Optional({<<>>})]
    \cup {[NoFields EXCEPT !.return = Some(j)] : j \in BadValues}
    \cup {[NoFields EXCEPT !.value = Some(j), !.pending = Some(FALSE)] : j \in BadValues}
    \cup {[NoFields EXCEPT !.exception = Some("Unknown")]}
    \cup {[NoFields EXCEPT !.futures = Some(futures)] : futures \in OddFutures}

OddSources ==
    [code : Optional({"code"}),
     snapshot : Optional({[valid |-> valid, names |-> <<"x">>] : valid \in BOOLEAN}),
     inputs : Optional({JNull, JString("a"), JArray(<<>>), JObject(<<>>, <<>>),
                        JObject(<<"x", "y">>, <<JNull, Tagged("$set", JNull)>>),
                        JArray(<<Tagged("$set", JNull)>>), JArray(<<JString("a")>>)})]
=============================================================================
