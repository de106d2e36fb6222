----------------------------- MODULE ToolSchema -----------------------------
(***************************************************************************)
(* What arguments a tool may be called with: the schema a server declares, *)
(* normalized into RTQ's dialect (packages/mcp schemas.ts), and the        *)
(* validator of that dialect, which capabilities use too (core schema.ts). *)
(*                                                                         *)
(* A schema is a function from its keywords; "types" stands for an array   *)
(* of types, "additional" for a schema of additional fields, "tuple" for   *)
(* items in tuple form; none declares a variant twice.  A value has a      *)
(* kind, a size (the length of a string, the number itself), items and     *)
(* fields.  A pattern is the set of sizes it matches.                      *)
(***************************************************************************)
EXTENDS Naturals, Sequences, FiniteSets, TLC

CONSTANTS RawSchemas,     \* the schemas servers declare
          ToolArguments,  \* the values tools are called with
          SizeCap,        \* maxStringLength, maxItems
          PropertyCap     \* maxProperties

ASSUME SchemaConstants == SizeCap \in Nat /\ PropertyCap \in Nat

VARIABLE declared  \* the schema the server has declared for its tool

Unsafe == {"constructor"}    \* __proto__, constructor, prototype
Inherited == {"toString"}    \* names `in` finds in every object

Types == {"string", "number", "integer", "boolean", "null", "object", "array", "any"}
Has(node, keyword) == keyword \in DOMAIN node
Get(node, keyword, default) == IF Has(node, keyword) THEN node[keyword] ELSE default
Without(node, keywords) == [k \in DOMAIN node \ keywords |-> node[k]]
Keep(node, keywords) == [k \in DOMAIN node \cap keywords |-> node[k]]
Capped(limit) == IF limit < SizeCap THEN limit ELSE SizeCap

(***************************************************************************)
(* normalizeNode: the keywords that make a schema incomplete, and the      *)
(* schema it is rewritten to.  An array of types is rewritten to variants, *)
(* and taken as incomplete all the same.                                   *)
(***************************************************************************)
Simple(variant) == Has(variant, "type") /\ DOMAIN variant \subseteq {"type", "description"}
SimpleUnion(node) == Has(node, "anyOf") /\ node.anyOf # <<>>
                       /\ \A i \in DOMAIN node.anyOf : Simple(node.anyOf[i])

RECURSIVE Incomplete(_)
Incomplete(node) ==
    \/ DOMAIN node \cap {"$ref", "if", "allOf", "not", "badType", "badRequired", "types"} # {}
    \/ Has(node, "anyOf") /\ (~SimpleUnion(node) \/ \E i \in DOMAIN node.anyOf : Incomplete(node.anyOf[i]))
    \/ Has(node, "type") /\ node.type \notin Types
    \/ DOMAIN node \cap {"type", "enum", "const", "anyOf"} = {}
    \/ /\ Get(node, "type", "any") = "object"
       /\ \/ Get(node, "additionalProperties", "false") = "true"
          \/ Has(node, "additional") /\ Incomplete(node.additional)
          \/ \E key \in DOMAIN Get(node, "properties", <<>>) :
                key \in Unsafe \/ Incomplete(node.properties[key])
    \/ /\ Get(node, "type", "any") = "array"
       /\ \/ Has(node, "tuple")
          \/ Has(node, "items") /\ Incomplete(node.items)

Literals(values) == {[type |-> "literal", value |-> v] : v \in values}
Null == [type |-> "null"]
OneOf(variants) == [oneOf |-> variants]

RECURSIVE Normalized(_)
\* An object takes no fields it does not declare.
OtherFields(node) ==
    IF Has(node, "additional") THEN [additional |-> Normalized(node.additional)]
    ELSE [additionalProperties |-> "false"]

\* The constraints that go with a type.
Typed(node) ==
    CASE node.type = "object" ->
           [type |-> "object", required |-> Get(node, "required", {}) \ Unsafe,
            properties |-> [key \in DOMAIN Get(node, "properties", <<>>) \ Unsafe |->
                              Normalized(node.properties[key])]] @@ OtherFields(node)
      [] node.type = "array" ->
           [type |-> "array", maxItems |-> Capped(Get(node, "maxItems", SizeCap))]
             @@ Keep(node, {"minItems"})
             @@ IF Has(node, "items") THEN [items |-> Normalized(node.items)] ELSE <<>>
      [] node.type = "string" ->
           [type |-> "string", maxLength |-> Capped(Get(node, "maxLength", SizeCap))]
             @@ Keep(node, {"minLength", "pattern", "enum"})
      [] node.type \in {"number", "integer"} ->
           [type |-> "number", integer |-> node.type = "integer"] @@ Keep(node, {"min", "max", "enum"})
      [] OTHER -> [type |-> IF node.type \in Types THEN node.type ELSE "any"]

\* An enum no type has taken, then a const, which takes the place of all else,
\* then null as one more variant.
WithEnum(node, out) ==
    IF Has(node, "enum") /\ ~Has(out, "enum") /\ ~Has(out, "oneOf")
    THEN out @@ OneOf(Literals(node.enum)) ELSE out
WithConst(node, out) ==
    IF Has(node, "const")
    THEN [type |-> "literal", value |-> node.const] @@ Without(out, {"enum", "oneOf", "type", "value"})
    ELSE out
\* Mutant: beside null the variant has lost its limits.
Limits == {"minLength", "maxLength", "pattern", "enum", "min", "max", "minItems", "maxItems"}
WithNullBare(node, out) ==
    IF ~Has(node, "nullable") THEN out
    ELSE IF Has(out, "type") /\ out.type # "null" THEN OneOf({Without(out, Limits), Null})
    ELSE IF Has(out, "oneOf") THEN OneOf(out.oneOf \cup {Null}) @@ Without(out, {"oneOf"})
    ELSE out
WithNull(node, out) ==
    IF ~Has(node, "nullable") THEN out
    ELSE IF Has(out, "type") /\ out.type # "null" THEN OneOf({out, Null}) @@ Without(out, {"type"})
    ELSE IF Has(out, "oneOf") THEN OneOf(out.oneOf \cup {Null}) @@ Without(out, {"oneOf"})
    ELSE out

Normalized(node) ==
    LET Only(type) == [type |-> type]
        union == IF SimpleUnion(node)
                 THEN OneOf({Normalized(node.anyOf[i]) : i \in DOMAIN node.anyOf}) ELSE <<>>
        typed == IF Has(node, "types")
                 THEN OneOf({Normalized(Only(t)) : t \in node.types \cap Types}) @@ Only("any")
                 ELSE IF Has(node, "type") THEN Typed(node) ELSE <<>>
        out == WithNull(node, WithConst(node, WithEnum(node, typed @@ union)))
    IN  IF DOMAIN out = {} THEN Only("any") ELSE out

\* normalizeToolSchema.  A schema that is not an object, too deep, or has unsafe
\* keys or non-finite numbers is replaced; without a type it is an object's, and
\* only its properties and required are read.
Unreadable(raw) ==
    \/ DOMAIN raw \cap {"unreadable", "types", "badType"} # {}
    \/ Get(raw, "type", "object") # "object"
    \/ Cardinality(DOMAIN Get(raw, "properties", <<>>)) > PropertyCap
TopNode(raw) ==
    IF Has(raw, "type") THEN raw
    ELSE [type |-> "object"] @@ Keep(raw, {"properties", "required", "badRequired"})
Empty == [type |-> "object", properties |-> <<>>, required |-> {}, additionalProperties |-> "false"]
ToolSchemaOf(raw) == IF Unreadable(raw) THEN Empty ELSE Normalized(TopNode(raw))
FailsClosed(raw) == Unreadable(raw) \/ Incomplete(TopNode(raw))

(***************************************************************************)
(* validateValue.                                                          *)
(***************************************************************************)
Between(size, low, high) == low <= size /\ size <= high

\* `in`: a name the object has, or inherits.
In(key, names) == key \in names \cup Inherited \cup Unsafe

RECURSIVE Valid(_, _)
OneOfMatches(value, variants) == Cardinality({v \in variants : Valid(value, v)}) = 1

ValidString(value, s) ==
    /\ value.kind = "string"
    /\ Between(value.size, Get(s, "minLength", 0), Get(s, "maxLength", value.size))
    /\ value \in Get(s, "enum", {value})
    /\ value.size \in Get(s, "pattern", {value.size})

\* A number's enum is not looked at.
ValidNumber(value, s) ==
    /\ value.kind = "number"
    /\ Get(s, "integer", FALSE) => value.whole
    /\ Between(value.size, Get(s, "min", 0), Get(s, "max", value.size))

ValidArray(value, s) ==
    /\ value.kind = "array"
    /\ Between(Len(value.items), Get(s, "minItems", 0), Get(s, "maxItems", Len(value.items)))
    /\ Has(s, "items") => \A i \in DOMAIN value.items : Valid(value.items[i], s.items)

\* Without a list of required fields an object needs a policy for other fields.
ValidObject(value, s) ==
    /\ value.kind = "object"
    /\ DOMAIN s \cap {"required", "additional", "additionalProperties"} # {}
    /\ \A key \in Get(s, "required", {}) : In(key, DOMAIN value.fields)
    /\ \A key \in DOMAIN value.fields :
          /\ key \notin Unsafe
          /\ key \in DOMAIN s.properties => Valid(value.fields[key], s.properties[key])
          /\ ~In(key, DOMAIN s.properties) =>
                IF Has(s, "additional") THEN Valid(value.fields[key], s.additional)
                ELSE ~Has(s, "additionalProperties")

Valid(value, s) ==
    IF Has(s, "oneOf") THEN OneOfMatches(value, s.oneOf)
    ELSE IF Has(s, "enum") /\ ~Has(s, "type") THEN value \in s.enum
    ELSE CASE s.type = "literal" -> value = s.value /\ value.kind \notin {"array", "object"}
           [] s.type = "any" -> TRUE
           [] s.type = "string" -> ValidString(value, s)
           [] s.type = "number" -> ValidNumber(value, s)
           [] s.type \in {"boolean", "null"} -> value.kind = s.type
           [] s.type = "array" -> ValidArray(value, s)
           [] s.type = "object" -> ValidObject(value, s)

SchemaInit == declared \in RawSchemas

(* Properties *)
\* What a schema, as the server wrote it, says of a value.
KindIs(value, type) ==
    type \in {"any", value.kind} \/ (type = "integer" /\ value.kind = "number" /\ value.whole)
SaysString(raw, value) ==
    /\ Between(value.size, Get(raw, "minLength", 0), Capped(Get(raw, "maxLength", SizeCap)))
    /\ value.size \in Get(raw, "pattern", {value.size})
SaysNumber(raw, value) == Between(value.size, Get(raw, "min", 0), Get(raw, "max", value.size))
RECURSIVE Says(_, _)
SaysArray(raw, value) ==
    /\ Between(Len(value.items), Get(raw, "minItems", 0), Capped(Get(raw, "maxItems", SizeCap)))
    /\ Has(raw, "items") => \A i \in DOMAIN value.items : Says(raw.items, value.items[i])
SaysObject(raw, value) ==
    /\ Get(raw, "required", {}) \subseteq DOMAIN value.fields
    /\ \A key \in DOMAIN value.fields \ Inherited :
          IF key \in DOMAIN Get(raw, "properties", <<>>)
          THEN Says(raw.properties[key], value.fields[key])
          ELSE Has(raw, "additional") /\ Says(raw.additional, value.fields[key])
SaysTyped(raw, value) ==
    /\ KindIs(value, raw.type)
    /\ value.kind # "number" => value \in Get(raw, "enum", {value})
    /\ value.kind = "string" /\ raw.type = "string" => SaysString(raw, value)
    /\ value.kind = "number" /\ raw.type # "any" => SaysNumber(raw, value)
    /\ value.kind = "array" /\ raw.type = "array" => SaysArray(raw, value)
    /\ value.kind = "object" /\ raw.type = "object" => SaysObject(raw, value)

\* A constraint nobody reads lets nothing through.
Says(raw, value) ==
    IF DOMAIN raw \cap {"$ref", "if", "allOf", "not"} # {} THEN FALSE
    ELSE IF Has(raw, "nullable") /\ value.kind = "null" THEN TRUE
    ELSE IF Has(raw, "const") THEN value = raw.const
    ELSE IF Has(raw, "anyOf") THEN \E i \in DOMAIN raw.anyOf : KindIs(value, raw.anyOf[i].type)
    ELSE IF Has(raw, "type") THEN SaysTyped(raw, value)
    ELSE value \in raw.enum

\* What a tool's schema, as the server wrote it, says of the arguments, which are an
\* object's.
Declares(raw, arguments) ==
    Says(IF Has(raw, "type") THEN raw ELSE [type |-> "object"] @@ raw, arguments)

\* The constraints of a tool's schema without a type, which normalizeToolSchema()
\* drops without a reason where normalizeNode() would give one or apply them.
Unread == {"$ref", "if", "allOf", "not", "anyOf", "enum", "const"}
LosesConstraints(raw) == ~Has(raw, "type") /\ DOMAIN raw \cap Unread # {}

\* The arguments accepted for a schema RTQ takes as complete are of the types,
\* sizes and fields the server declared and within the caps.  Left out are
\* what the code lets through: whatever a tool's schema without a type says beside
\* properties and required, though schemas.ts:11-13 promises that what is not
\* supported marks it incomplete; an enum of numbers, constraints beside an
\* anyOf, and fields with inherited names.
AcceptedIsDeclared ==
    ~FailsClosed(declared) /\ ~LosesConstraints(declared) =>
      \A arguments \in ToolArguments :
         Valid(arguments, ToolSchemaOf(declared)) => Declares(declared, arguments)
=============================================================================
