----------------------------- MODULE ToolArguments -----------------------------
(***************************************************************************)
(* validateToolCall: the arguments of a tool call are converted to the     *)
(* types the tool's schema asks for and then validated.                    *)
(*                                                                         *)
(* A value has a type, the text it prints as, and members: the items of an *)
(* array or the properties of an object.  A schema's const, its bounds,    *)
(* pattern and the like are one set, the atoms it allows, where {} allows  *)
(* every atom.                                                             *)
(***************************************************************************)
EXTENDS Naturals, Functions, SequencesExt

CONSTANTS
  Schemas,   \* schemas of the tool called
  Arguments  \* arguments a model may send

Atom(type, text) == [type |-> type, text |-> text, members |-> <<>>]
Object(members)  == [type |-> "object", text |-> "", members |-> members]
Array(items)     == [type |-> "array", text |-> "", members |-> items]
Null             == Atom("null", "")

AnySchema == [types |-> <<>>, allOf |-> <<>>, anyOf |-> <<>>, oneOf |-> <<>>,
              not |-> <<>>, allowed |-> {}, properties |-> <<>>, required |-> {},
              closed |-> FALSE, items |-> <<>>]
Type(type)   == [AnySchema EXCEPT !.types = <<type>>]

VARIABLES
  schema,
  arguments, \* as the model sent them
  prepared,  \* what the tool and the approval see; the error is Error
  stage      \* sent or prepared

argumentVars == <<schema, arguments, prepared, stage>>

Error == Atom("error", "")

\* The texts that strconv.ParseFloat reads, each with what FormatFloat writes
\* for the float64 read.
Formatted ==
  "0" :> "0" @@ "0.5" :> "0.5" @@ "1" :> "1" @@ "1.0" :> "1" @@ "+1" :> "1"
    @@ "1e3" :> "1000" @@ "1000" :> "1000"
    @@ "9007199254740992" :> "9007199254740992" @@ "9007199254740993" :> "9007199254740992"
    @@ "Inf" :> "+Inf" @@ "+Inf" :> "+Inf"
Numbers   == DOMAIN Formatted
Infinite  == {"Inf", "+Inf"}
Fractions == {"0.5"}
\* Read by json.Number.Int64; no number of a JSON text.
Integers  == Numbers \ ({"0.5", "1.0", "1e3"} \cup Infinite)
NoJSON    == {"+1"} \cup Infinite

\* A number by its float64.
normalizeComparable(value) ==
  IF value.type = "number" THEN [value EXCEPT !.text = Formatted[@]] ELSE value

matchesJSONType(value, type) ==
  \/ value.type = type /\ type # "integer"
  \/ value.type = "number" /\ type = "integer" /\ value.text \in Integers

\* A string keeps its text as a number; as an integer it is written anew.
coercePrimitive(value, type) ==
  CASE type \in {"number", "integer"} /\ value.type = "null" -> Atom("number", "0")
    [] type \in {"number", "integer"} /\ value.type = "boolean" ->
         Atom("number", IF value.text = "true" THEN "1" ELSE "0")
    [] type = "number" /\ value.type = "string" /\ value.text \in Numbers \ Infinite ->
         Atom("number", value.text)
    [] type = "integer" /\ value.type = "string" /\ value.text \in Numbers \ Fractions ->
         Atom("number", Formatted[value.text])
    [] type = "boolean" /\ value.type = "null" -> Atom("boolean", "false")
    [] type = "boolean" /\ value.type = "string" /\ value.text \in {"true", "false"} ->
         Atom("boolean", value.text)
    [] type = "boolean" /\ value.type = "number" /\ Formatted[value.text] \in {"0", "1"} ->
         Atom("boolean", IF Formatted[value.text] = "1" THEN "true" ELSE "false")
    [] type = "string" /\ value.type \in {"null", "number", "boolean"} ->
         Atom("string", value.text)
    [] type = "null" /\ normalizeComparable(value) \in
         {Atom("string", ""), Atom("boolean", "false"), Atom("number", "0")} -> Null
    [] OTHER -> value

\* The type whose rules apply: the only one, or the first that matches.
TypeFor(s, value) ==
  IF Len(s.types) = 1 THEN s.types[1]
  ELSE LET fits == {i \in DOMAIN s.types : matchesJSONType(value, s.types[i])}
       IN  IF fits = {} THEN "" ELSE s.types[Min(fits)]

RECURSIVE validateSchemaValue(_, _)
validateSchemaValue(s, value) ==
  LET accepts(list) == {i \in DOMAIN list : validateSchemaValue(list[i], value)}
      type == TypeFor(s, value)
  IN  /\ accepts(s.allOf) = DOMAIN s.allOf
      /\ s.anyOf # <<>> => accepts(s.anyOf) # {}
      /\ s.oneOf # <<>> => \E i \in DOMAIN s.oneOf : accepts(s.oneOf) = {i}
      /\ accepts(s.not) = {}
      /\ s.types # <<>> => type # "" /\ matchesJSONType(value, type)
      /\ type = "object" =>
           /\ s.required \subseteq DOMAIN value.members
           /\ s.closed => DOMAIN value.members \subseteq DOMAIN s.properties
           /\ \A key \in DOMAIN value.members \cap DOMAIN s.properties :
                validateSchemaValue(s.properties[key], value.members[key])
      /\ type = "array" /\ s.items # <<>> =>
           \A i \in DOMAIN value.members : validateSchemaValue(s.items[1], value.members[i])
      /\ s.allowed # {} => \E a \in s.allowed :
                             normalizeComparable(a) = normalizeComparable(value)

\* A slip, for the check of the properties: a value that one of the types
\* accepts is converted all the same.
BadRetyped(value, types) ==
  LET changing == {i \in DOMAIN types : coercePrimitive(value, types[i]) # value}
  IN  IF changing = {} THEN value ELSE coercePrimitive(value, types[Min(changing)])

\* The first type that changes the value converts it, unless one of several
\* types is its own.
Retyped(value, types) ==
  LET changing == {i \in DOMAIN types : coercePrimitive(value, types[i]) # value}
      own      == Len(types) > 1 /\ \E i \in DOMAIN types : matchesJSONType(value, types[i])
  IN  IF own \/ changing = {} THEN value
      ELSE coercePrimitive(value, types[Min(changing)])

RECURSIVE coerceWithJSONSchema(_, _)
coerceWithJSONSchema(value, s) ==
  LET First(v, list) ==
        LET fits == {i \in DOMAIN list :
                       validateSchemaValue(list[i], coerceWithJSONSchema(v, list[i]))}
        IN  IF fits = {} THEN v ELSE coerceWithJSONSchema(v, list[Min(fits)])
      all   == FoldLeft(coerceWithJSONSchema, value, s.allOf)
      typed == Retyped(First(First(all, s.anyOf), s.oneOf), s.types)
      types == ToSet(s.types)
  IN  IF typed.type = "object" /\ "object" \in types
      THEN [typed EXCEPT !.members = [key \in DOMAIN @ |->
              IF key \in DOMAIN s.properties
              THEN coerceWithJSONSchema(@[key], s.properties[key]) ELSE @[key]]]
      ELSE IF typed.type = "array" /\ "array" \in types /\ s.items # <<>>
      THEN [typed EXCEPT !.members = [i \in DOMAIN @ |-> coerceWithJSONSchema(@[i], s.items[1])]]
      ELSE typed

\* edit takes one replacement without the list.
WithEdits(value) ==
  IF value.type = "object" /\ {"oldText", "newText"} \subseteq DOMAIN value.members
     /\ "edits" \notin DOMAIN value.members
  THEN Object([key \in (DOMAIN value.members \ {"oldText", "newText"}) \cup {"edits"} |->
         IF key = "edits" THEN Array(<<Object(Restrict(value.members, {"oldText", "newText"}))>>)
         ELSE value.members[key]])
  ELSE value

\* json.Marshal fails on a number that JSON cannot write.
RECURSIVE Marshals(_)
Marshals(value) ==
  /\ value.type = "number" => value.text \notin NoJSON
  /\ \A member \in Range(value.members) : Marshals(member)

ArgumentsInit ==
  /\ schema \in Schemas
  /\ arguments \in Arguments
  /\ prepared = Null
  /\ stage = "sent"

validateToolCall ==
  /\ stage = "sent"
  /\ LET value == coerceWithJSONSchema(WithEdits(arguments), schema)
     IN  prepared' = IF validateSchemaValue(schema, value) /\ Marshals(value)
                     THEN value ELSE Error
  /\ stage' = "prepared"
  /\ UNCHANGED <<schema, arguments>>

ArgumentsSpec == ArgumentsInit /\ [][validateToolCall]_argumentVars

-----------------------------------------------------------------------------
(* Properties.                                                             *)

\* No alternatives anywhere in the schema.
RECURSIVE Decided(_)
Decided(s) ==
  /\ s.anyOf = <<>> /\ s.oneOf = <<>>
  /\ \A sub \in Range(s.allOf) \cup Range(s.items) \cup Range(s.properties) : Decided(sub)

\* The same text, or two texts of one float64.
ReadsTheSame(text, other) ==
  \/ text = other
  \/ {text, other} \subseteq Numbers /\ Formatted[text] = Formatted[other]

\* The value kept its form: the leaves that its schema accepts are the same.
RECURSIVE KeepsLeaves(_, _, _)
KeepsLeaves(s, before, after) ==
  CASE validateSchemaValue(s, before) -> after = before
    [] before.type = "object" /\ after.type = "object" ->
         /\ DOMAIN after.members = DOMAIN before.members
         /\ \A key \in DOMAIN before.members :
              IF key \in DOMAIN s.properties
              THEN KeepsLeaves(s.properties[key], before.members[key], after.members[key])
              ELSE after.members[key] = before.members[key]
    [] before.type = "array" /\ after.type = "array" ->
         /\ Len(after.members) = Len(before.members)
         /\ \A i \in DOMAIN before.members :
              s.items # <<>> =>
                KeepsLeaves(s.items[1], before.members[i], after.members[i])
    [] OTHER -> \/ ReadsTheSame(after.text, before.text)
                \/ Null \in {before, after}
                \/ {before.type, after.type} \subseteq {"boolean", "number"}

\* A call reaches its tool only with arguments that the schema accepts, and the
\* conversion touches nothing that was accepted as it came: it changes only
\* values of a type the schema does not list, into values of the same text or
\* of the same float64 (null and the truth values of numbers excepted).  The
\* text may change: an integer sent as a string is written anew, and beyond
\* 2^53 it becomes the float64 next to it, another integer.  Schemas with
\* alternatives are left out: there the first alternative that a converted
\* value fits takes it, even if a later one accepts the value as it is.
ArgumentsKept ==
  stage = "prepared" /\ prepared # Error =>
    /\ validateSchemaValue(schema, prepared)
    /\ Decided(schema) => KeepsLeaves(schema, WithEdits(arguments), prepared)
=============================================================================
