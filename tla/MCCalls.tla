------------------------------- MODULE MCCalls -------------------------------
(***************************************************************************)
(* An instance of Calls for TLC: integer fields of 8 values (-4..3 or      *)
(* 0..7), int64 of 64 (-32..31), numbers that fit them, overflow one or    *)
(* both of them or have a fraction, and a machine that makes of a number   *)
(* beyond its registers what amd64 does.                                   *)
(***************************************************************************)
EXTENDS Calls

AllOf(k) == [registry \in {"tools", "resources", "prompts"} |-> k]
MCConfigurations == {AllOf("static"), AllOf("dynamic"), AllOf("no provider")}

MCFloat64 == -256..256

\* Every number up to 8 halves, every second one up to 16, every fourth up to 32.
MCFloat32 == -8..8 \cup {2 * m : m \in -8..8} \cup {4 * m : m \in -8..8}

MCBeyondInt64(halves) == -(WordSize \div 2)

MCBeyondUint64(halves) ==
  LET n == Whole(Value("float64", halves))
  IN IF n \in Int64 THEN n + WordSize ELSE WordSize \div 2

NoDefault == [text |-> "other", v |-> 0]
Field(go, tag, type, pointer, default) ==
  [go |-> go, tag |-> tag, kind |-> type, size |-> 8, pointer |-> pointer, default |-> default]

\* A required int with a name of its own, a required uint that has a default, a float
\* behind a pointer, a slice, a field that is left out, and two fields of one name:
\* both have the property of the second, a default of 3.
StructTool ==
  [name |-> "struct", via |-> "struct", inputs |-> <<>>, handler |-> "fit",
   fields |->
    << Field("a", <<"x", "", "required">>, "int", FALSE, NoDefault),
       Field("count", <<"", "required", "default">>, "uint", FALSE, [text |-> "number", v |-> 5]),
       Field("ratio", <<>>, "float32", TRUE, NoDefault),
       Field("names", <<>>, "slice", FALSE, NoDefault),
       Field("hidden", <<"-">>, "chan", FALSE, NoDefault),
       Field("n", <<"n", "", "default">>, "float64", FALSE, [text |-> "number", v |-> 9]),
       Field("m", <<"n", "", "default">>, "int", FALSE, [text |-> "number", v |-> 3]) >>]

\* A default that cannot be stored, and a handler of the wrong type.
OddTool ==
  [name |-> "odd", via |-> "struct", inputs |-> <<>>, handler |-> "misfit",
   fields |-> << Field("flag", <<"", "", "default">>, "bool", FALSE, NoDefault),
                 Field("text", <<>>, "string", FALSE, NoDefault) >>]

\* Not registrable: a channel, and a handler that is no function of the right arity.
Refusables ==
  { [name |-> "channel", via |-> "struct", inputs |-> <<>>, handler |-> "fit",
     fields |-> <<Field("c", <<>>, "chan", FALSE, NoDefault)>>],
    [name |-> "arity", via |-> "struct", inputs |-> <<>>, handler |-> "unfit", fields |-> <<>>] }

\* A parameter that is required and was never added, one added twice.
BuilderTool ==
  [name |-> "built", via |-> "builder", fields |-> <<>>, handler |-> "fit",
   inputs |-> << [name |-> "x", required |-> TRUE, default |-> Null, added |-> FALSE],
                 [name |-> "y", required |-> FALSE, default |-> Value("int64", 1), added |-> TRUE],
                 [name |-> "y", required |-> FALSE, default |-> Value("int64", 2), added |-> TRUE] >>]

MCDefinitions == {StructTool, OddTool, BuilderTool} \cup Refusables

Number(halves) == Value("float64", halves)
None == [n \in {} |-> Null]

Request(method, name, args) ==
  [id |-> Number(2), method |-> method, object |-> TRUE, name |-> name, args |-> args]

StructCalls ==
  {Request("tools/call", "struct", args) : args \in
     { None, [x |-> Null], [x |-> Number(-8), count |-> Number(3), n |-> Number(3)],
       [x |-> Number(20), count |-> Number(-2), other |-> Null],
       [x |-> Value("string", 1)], [x |-> Number(6), ratio |-> Number(3)],
       [x |-> Number(2), count |-> Null, n |-> Number(3)],
       [x |-> Number(2), count |-> Number(4), ratio |-> Number(12)],
       [x |-> Number(2), names |-> Value("array", 1)],
       [x |-> Number(200), count |-> Number(-200), ratio |-> Number(11)] }}

OtherCalls ==
  { Request("tools/call", "odd", None),
    Request("tools/call", "odd", [flag |-> Value("bool", 1), text |-> Number(1)]),
    Request("tools/call", "built", [x |-> Null]),
    Request("tools/call", "built", [x |-> Null, y |-> Value("string", 1)]),
    Request("tools/call", "built", None), Request("tools/call", "none", None),
    Request("tools/call", NoName, None), Request("tools/call", "built", NotAnObject) }

OtherRequests ==
  { Request("tools/get", "built", None), Request("resources/read", "u", None),
    Request("resources/subscribe", "u", None), Request("resources/unsubscribe", "u", None),
    Request("prompts/get", "p", None), Request("prompts/get", "p", [a |-> Value("string", 1)]),
    Request("prompts/get", "p", [b |-> Value("string", 1), a |-> Number(1)]),
    [id |-> Value("string", 1), method |-> "ping", object |-> TRUE, name |-> NoName, args |-> None],
    [id |-> Number(200), method |-> "ping", object |-> FALSE, name |-> NoName, args |-> None],
    [id |-> Number(3), method |-> "nonsense", object |-> FALSE, name |-> NoName, args |-> None],
    [id |-> Null, method |-> "tools/get", object |-> FALSE, name |-> NoName, args |-> None] }

MCRequests == StructCalls \cup OtherCalls \cup OtherRequests

MCPrompts == [p \in {"p"} |-> {"a"}]
=============================================================================
