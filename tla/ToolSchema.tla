------------------------------ MODULE ToolSchema ------------------------------
(***************************************************************************)
(* The input of tools: schemas generated from the fields of a Go struct    *)
(* (pkg/resources/reflection.go) or collected by a builder                 *)
(* (pkg/resources/builder.go), the checks and defaults that CallTool       *)
(* derives from them (pkg/resources/static_registry.go), and the           *)
(* conversion of parameters to struct fields.                              *)
(*                                                                         *)
(* A value is [type, v]. A JSON number is a float64, counted in halves so  *)
(* that some of them have a fraction; the other numbers are whole. Of a    *)
(* string, an array or an object, v only tells which one it is. Parameters *)
(* are a function from some names to values.                               *)
(*                                                                         *)
(* The fields of a struct are a sequence of records; two of them may have  *)
(* the same name. A field has:                                             *)
(*   go       its name, in lower case                                      *)
(*   tag      the parts of its mcp tag between commas; a part default=...  *)
(*            is "default"                                                 *)
(*   default  the text after default=, as [text, v]: the decimal text of   *)
(*            the whole number v, of a truth value, or any other text      *)
(*   kind     its Go type behind a pointer, if it is one                   *)
(*   size     number of values of an integer type: 2^8 to 2^64             *)
(*   pointer  whether it is a pointer                                      *)
(* A slice, object or interface type has the kind that it accepts: "any",  *)
(* "anyslice" ([]interface{}) and "anymap" (map[string]interface{}) take   *)
(* what a JSON decoder makes; "slice" and "object" are all other slices,   *)
(* maps and structs (slices of bytes and runes and arrays left out).       *)
(***************************************************************************)
EXTENDS Integers, Sequences

CONSTANTS
  WordSize,          \* number of values of int64 and of uint64
  Float64, Float32,  \* the numbers that these types hold, in halves
  BeyondInt64(_),    \* what the machine makes of a float64 that int64 does not
  BeyondUint64(_)    \* hold, or uint64 (left to the implementation by Go)

ASSUME WordAssumption == WordSize \in Nat \ {0} /\ WordSize % 2 = 0
ASSUME FloatAssumption == Float32 \subseteq Float64 /\ Float64 \subseteq Int

Int64  == -(WordSize \div 2)..(WordSize \div 2 - 1)
Uint64 == 0..(WordSize - 1)

Kinds == {"string", "int", "uint", "float64", "float32", "bool", "slice", "object",
          "any", "anyslice", "anymap", "chan"}

Numbers == {"float64", "int64", "uint64"}
JsonTypes == {"null", "string", "float64", "bool", "array", "map"}
ValueTypes == Numbers \cup JsonTypes

Value(type, v) == [type |-> type, v |-> v]
Null == Value("null", 0)

-----------------------------------------------------------------------------
(* Schemas.                                                                *)

Skipped(f) == f.tag = <<"-">>
NameOf(f) == IF f.tag = <<>> \/ f.tag[1] = "" THEN f.go ELSE f.tag[1]

\* The first two parts are the name and the description, whatever they say.
Options(f) == {f.tag[i] : i \in 3..Len(f.tag)}

\* The JSON schema type; a type without one cannot be part of a struct tool.
SchemaType(kind) ==
  CASE kind = "string" -> "string"
    [] kind \in {"int", "uint"} -> "integer"
    [] kind \in {"float64", "float32"} -> "number"
    [] kind = "bool" -> "boolean"
    [] kind \in {"slice", "anyslice"} -> "array"
    [] kind \in {"object", "anymap", "any"} -> "object"
    [] OTHER -> "unsupported"

\* The positions of the fields that the schema shows.
Shown(fields) == {i \in DOMAIN fields : ~Skipped(fields[i])}

Typeable(fields) == \A i \in Shown(fields) : SchemaType(fields[i].kind) # "unsupported"

\* A default that does not parse as the type of its field stays a string.
ParseDefaultValue(f) ==
  CASE f.kind = "int" /\ f.default.text = "number" /\ f.default.v \in Int64
         -> Value("int64", f.default.v)
    [] f.kind = "uint" /\ f.default.text = "number" /\ f.default.v \in Uint64
         -> Value("uint64", f.default.v)
    [] f.kind \in {"float64", "float32"} /\ f.default.text = "number"
         -> Value("float64", 2 * f.default.v)
    [] f.kind = "bool" /\ f.default.text = "truth" -> Value("bool", f.default.v)
    [] OTHER -> Value("string", f.default.v)

NamesOf(fields) == {NameOf(fields[i]) : i \in Shown(fields)}

\* The property of a name is that of the last field that has it.
LastNamed(fields, n) ==
  fields[CHOOSE i \in Shown(fields) :
           NameOf(fields[i]) = n /\ \A j \in Shown(fields) : NameOf(fields[j]) = n => j <= i]

Requiring(fields, n) ==
  \E i \in Shown(fields) : NameOf(fields[i]) = n /\ "required" \in Options(fields[i])

\* A schema as far as CallTool uses it: the required names, and the defaults of
\* the properties that have one.
Schema(required, defaults) == [required |-> required, defaults |-> defaults]

GenerateSchemaFromStruct(fields) ==
  LET defaulted == {n \in NamesOf(fields) : "default" \in Options(LastNamed(fields, n))}
  IN Schema({n \in NamesOf(fields) : Requiring(fields, n)},
            [n \in defaulted |-> ParseDefaultValue(LastNamed(fields, n))])

\* The builder's inputs in order, as [name, required, default, added]. Required
\* takes effect at once, a property with its default only when it is added, and
\* the last one added under a name replaces the others. Null is no default.
Build(inputs) ==
  LET last(n) == CHOOSE i \in DOMAIN inputs :
                   /\ inputs[i].added /\ inputs[i].name = n
                   /\ \A j \in DOMAIN inputs : j > i => ~(inputs[j].added /\ inputs[j].name = n)
      added == {inputs[i].name : i \in {j \in DOMAIN inputs : inputs[j].added}}
  IN Schema({inputs[i].name : i \in {j \in DOMAIN inputs : inputs[j].required}},
            [n \in {m \in added : inputs[last(m)].default # Null} |-> inputs[last(n)].default])

\* CallTool: what is required must be there before defaults are filled in.
LacksRequired(schema, params) == ~(schema.required \subseteq DOMAIN params)

\* Fault: a default replaces what was sent.
WithDefaultsForced(schema, params) ==
  [n \in DOMAIN params \cup DOMAIN schema.defaults |->
     IF n \in DOMAIN schema.defaults THEN schema.defaults[n] ELSE params[n]]

WithDefaults(schema, params) ==
  [n \in DOMAIN params \cup DOMAIN schema.defaults |->
     IF n \in DOMAIN params THEN params[n] ELSE schema.defaults[n]]

-----------------------------------------------------------------------------
(* Struct fields. What a field holds is a value too, of type "nil" when it *)
(* is a pointer, slice, map or interface that nothing was stored in.       *)

Nilable(f) == f.pointer \/ f.kind \in {"slice", "object", "any", "anyslice", "anymap"}
Zero(f) == Value(IF Nilable(f) THEN "nil" ELSE f.kind, 0)

\* A float64 in halves cut to a whole number, other numbers as they are.
Whole(x) ==
  IF x.type # "float64" THEN x.v
  ELSE IF x.v >= 0 THEN x.v \div 2 ELSE -((-x.v) \div 2)

\* int64(x) and uint64(x): integers wrap when they are stored, see Converted.
ToInt64(x) ==
  IF x.type # "float64" \/ Whole(x) \in Int64 THEN Whole(x) ELSE BeyondInt64(x.v)

ToUint64(x) ==
  IF x.type # "float64" \/ Whole(x) \in Uint64 THEN Whole(x) ELSE BeyondUint64(x.v)

\* Two's complement of that many values.
Wrap(n, size) == IF n % size < size \div 2 THEN n % size ELSE (n % size) - size

Distance(v, w) == IF v >= w THEN v - w ELSE w - v

\* Rounded to a number of the type; a tie goes to one of the two.
Rounded(v, type) == CHOOSE w \in type : \A u \in type : Distance(v, w) <= Distance(v, u)

\* A number as a float64, in halves.
ToFloat64(x) == IF x.type = "float64" THEN x.v ELSE Rounded(2 * x.v, Float64)

Refused == Value("refused", 0)

\* Assignable or convertible by reflect's rules, or through the switch on the
\* kind of the field that follows them.
Converted(f, x) ==
  CASE f.kind = "int" /\ x.type \in Numbers -> Value("int", Wrap(ToInt64(x), f.size))
    [] f.kind = "uint" /\ x.type \in Numbers -> Value("uint", ToUint64(x) % f.size)
    [] f.kind = "float64" /\ x.type \in Numbers -> Value("float64", ToFloat64(x))
    [] f.kind = "float32" /\ x.type \in Numbers
         -> Value("float32", Rounded(ToFloat64(x), Float32))
    [] f.kind = "bool" /\ x.type = "bool" -> Value("bool", x.v)
    [] f.kind = "string" -> IF x.type = "string" THEN Value("string", x.v)
                            ELSE Value("formatted", x.v)
    [] f.kind = "any" -> x
    [] f.kind = "anyslice" /\ x.type = "array" -> x
    [] f.kind = "anymap" /\ x.type = "map" -> x
    [] OTHER -> Refused

\* A null leaves the field as it is.
SetFieldValue(f, x) == IF x = Null THEN Zero(f) ELSE Converted(f, x)

FieldOutcome(f, params) ==
  IF NameOf(f) \in DOMAIN params THEN SetFieldValue(f, params[NameOf(f)]) ELSE Zero(f)

\* UnmarshalParams: the struct it makes of the parameters, or its error. Fields of
\* one name are all set; names that belong to no field are ignored.
UnmarshalParams(fields, params) ==
  [i \in Shown(fields) |-> FieldOutcome(fields[i], params)]

Unmarshals(fields, params) ==
  \A i \in Shown(fields) : UnmarshalParams(fields, params)[i] # Refused

-----------------------------------------------------------------------------
\* What a caller may rely on: a value of the field's type arrives as it is. Of a
\* float32 these are the numbers that it holds exactly, the others are rounded.
Representable(f, x) ==
  \/ f.kind = "int" /\ x.type \in Numbers /\ (x.type = "float64" => x.v % 2 = 0)
       /\ Whole(x) \in -(f.size \div 2)..(f.size \div 2 - 1)
  \/ f.kind = "uint" /\ x.type \in Numbers /\ (x.type = "float64" => x.v % 2 = 0)
       /\ Whole(x) \in 0..(f.size - 1)
  \/ f.kind = "float64" /\ x.type = "float64"
  \/ f.kind = "float32" /\ x.type = "float64" /\ x.v \in Float32
  \/ f.kind = x.type /\ f.kind \in {"string", "bool"}

Represented(f, x) ==
  Value(f.kind, IF f.kind \in {"int", "uint"} THEN Whole(x) ELSE x.v)
=============================================================================
