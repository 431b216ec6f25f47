------------------------------ MODULE Payloads ------------------------------
(***************************************************************************)
(* Request bodies: DecodeAndValidatePayload (apis/shared.go) and the       *)
(* payloads that it fills (payloads/*.go), which ToRecord and ToMessage    *)
(* turn into what a repository is called with.  A body is known by what it *)
(* has at the places where the payload has a field; what stands there is   *)
(* known by how the decoder and the validator tell values apart.           *)
(***************************************************************************)
EXTENDS Integers, Sequences

VARIABLES kind,    \* of the payload that the endpoint takes
          root,    \* the body as a whole
          body,    \* body[p]: what the body has at p
          pc, status,
          message  \* message[m]: what the repository is called with

vars == <<kind, root, body, pc, status, message>>

\* In a body: nothing at this place, null, a value of another JSON type, an empty
\* string or list, a string that the field's own rule refuses, any other value.
Values == {"absent", "null", "wrong", "empty", "other", "given"}

Field(path, type, required) ==
    [path |-> path, type |-> type, required |-> required, rule |-> FALSE]

\* A string that has a rule of its own: oneof, hostname_rfc1123, or
\* routepathstartswithslash.
Ruled(path, required) ==
    [path |-> path, type |-> "string", required |-> required, rule |-> TRUE]

Guid(path) ==   \* Relationship, RelationshipData
    {Field(Append(path, "data"), "pointer", TRUE),
     Field(path \o <<"data", "guid">>, "string", TRUE)}

\* Labels and annotations have no rules.
Metadata == {Field(<<"metadata">>, "map", FALSE)}

Lifecycle ==
    {Field(<<"lifecycle">>, "pointer", FALSE),
     Field(<<"lifecycle", "type">>, "string", TRUE),
     Field(<<"lifecycle", "data">>, "struct", TRUE),
     Field(<<"lifecycle", "data", "buildpacks">>, "list", TRUE),
     Field(<<"lifecycle", "data", "stack">>, "string", TRUE)}

Related(name) == Guid(<<"relationships", name>>) \cup
    {Field(<<"relationships">>, "struct", TRUE), Field(<<"relationships", name>>, "struct", TRUE)}

AppCreate == Related("space") \cup Lifecycle \cup Metadata \cup
    {Field(<<"name">>, "string", TRUE), Field(<<"environment_variables">>, "map", FALSE)}

\* A variant that does not require the droplet.
AppSetCurrentDropletLax ==
    {Field(<<"data">>, "pointer", FALSE), Field(<<"data", "guid">>, "string", TRUE)}

AppSetCurrentDroplet == Guid(<<>>)

PackageCreate ==
    {Ruled(<<"type">>, TRUE),
     Field(<<"relationships">>, "pointer", TRUE),
     Field(<<"relationships", "app">>, "pointer", TRUE)}
    \cup Guid(<<"relationships", "app">>)

BuildCreate == Lifecycle \cup Metadata \cup
    {Field(<<"package">>, "pointer", TRUE), Field(<<"package", "guid">>, "string", TRUE),
     Field(<<"staging_memory_in_mb">>, "number", FALSE),
     Field(<<"staging_disk_in_mb">>, "number", FALSE)}

RouteCreate == Related("domain") \cup Related("space") \cup Metadata \cup
    {Ruled(<<"host">>, TRUE), Ruled(<<"path">>, FALSE)}

OrgCreate == Metadata \cup
    {Field(<<"name">>, "string", TRUE), Field(<<"suspended">>, "bool", FALSE)}

SpaceCreate == Related("organization") \cup Metadata \cup {Field(<<"name">>, "string", TRUE)}

\* A field that no payload has.
Unknown == Field(<<"description">>, "unknown", FALSE)

Kinds == {"app", "currentDroplet", "package", "build", "route", "org", "space"}

Fields(k) == {Unknown} \cup
    CASE k = "app" -> AppCreate
      [] k = "currentDroplet" -> AppSetCurrentDroplet
      [] k = "package" -> PackageCreate
      [] k = "build" -> BuildCreate
      [] k = "route" -> RouteCreate
      [] k = "org" -> OrgCreate
      [] k = "space" -> SpaceCreate

Nested == {"struct", "pointer"}

\* What can stand at a field.
ValuesOf(field) ==
    CASE field.type \in Nested -> {"null", "wrong", "given"}
      [] field.type = "string" /\ ~field.rule -> {"null", "wrong", "empty", "given"}
      [] field.type = "string" /\ field.rule -> {"null", "wrong", "empty", "other", "given"}
      [] field.type = "list" -> {"null", "wrong", "empty", "given"}
      [] field.type \in {"map", "number", "bool"} -> {"null", "wrong", "given"}
      [] field.type = "unknown" -> {"given"}

Paths(k) == {field.path : field \in Fields(k)}

\* The places that a place lies within.
Above(p) == {SubSeq(p, 1, n) : n \in 1..(Len(p) - 1)}

Init ==
    /\ kind \in Kinds
    /\ root \in {"malformed", "null", "wrong", "given"}
    /\ body = [p \in Paths(kind) |-> "absent"]
    /\ pc = "compose" /\ status = "Pending" /\ message = <<>>
-----------------------------------------------------------------------------
(***************************************************************************)
(* The client writes the body, field by field, and sends it                *)
(***************************************************************************)
Write(field, value) ==
    /\ pc = "compose" /\ root = "given"
    /\ body[field.path] = "absent" /\ value \in ValuesOf(field)
    /\ \A p \in Above(field.path) : body[p] = "given"
    /\ body' = [body EXCEPT ![field.path] = value]
    /\ UNCHANGED <<kind, root, pc, status, message>>

Send ==
    /\ pc = "compose"
    /\ pc' = "decode"
    /\ UNCHANGED <<kind, root, body, status, message>>
-----------------------------------------------------------------------------
(***************************************************************************)
(* DecodeAndValidatePayload                                                *)
(***************************************************************************)
Reply(answer) ==
    /\ pc' = "done" /\ status' = answer
    /\ UNCHANGED <<kind, root, body, message>>

Go(next) ==
    /\ pc' = next
    /\ UNCHANGED <<kind, root, body, status, message>>

\* An UnmarshalTypeError, or an unknown field; decoding null is no error.
DecodeError ==
    \/ root = "wrong"
    \/ \E p \in Paths(kind) : body[p] = "wrong"
    \/ body[Unknown.path] # "absent"

Decode ==
    /\ pc = "decode"
    /\ \/ root = "malformed" /\ Reply("MessageParseError")
       \/ root # "malformed" /\ DecodeError /\ Reply("UnprocessableEntity")
       \/ root # "malformed" /\ ~DecodeError /\ Go("validate")

Present(p) == body[p] \notin {"absent", "null"}

\* A variant that takes a struct whose key is not there for one that is not to be
\* looked into.
ReachedIfThere(field) ==
    \A p \in Above(field.path) : Present(p)

\* The validator looks into every struct, and into the pointers that are not nil.
Reached(field) ==
    \A above \in Fields(kind) :
        (above.path \in Above(field.path) /\ above.type = "pointer") => Present(above.path)

\* "required" is about nil for a pointer, a list or a map, about the zero value for a
\* string, and about nothing for a struct.  A rule is asked of every string; that of
\* the path lets the empty one pass.
Satisfied(field) ==
    /\ (field.required /\ field.type \in {"pointer", "list"}) => Present(field.path)
    /\ (field.required /\ field.type = "string") => body[field.path] \in {"other", "given"}
    /\ field.rule => body[field.path] # "other"

\* v.Struct, and the type assertion on its error.  When the body was null there is
\* no struct to validate, the error is of another type, and the handler panics.
Validate ==
    /\ pc = "validate"
    /\ \/ root = "null" /\ Reply("ConnectionLost")
       \/ /\ root # "null"
          /\ \E field \in Fields(kind) : Reached(field) /\ ~Satisfied(field)
          /\ Reply("UnprocessableEntity")
       \/ /\ root # "null"
          /\ \A field \in Fields(kind) : Reached(field) => Satisfied(field)
          /\ Go("convert")
-----------------------------------------------------------------------------
(***************************************************************************)
(* ToRecord, ToMessage                                                     *)
(***************************************************************************)
\* The fields of the message, and where the conversion reads them.
Reads(k) ==
    CASE k = "app" -> [name |-> <<"name">>,
                       space |-> <<"relationships", "space", "data", "guid">>]
      [] k = "currentDroplet" -> [droplet |-> <<"data", "guid">>]
      [] k = "package" -> [type |-> <<"type">>,
                           app |-> <<"relationships", "app", "data", "guid">>]
      [] k = "build" -> [package |-> <<"package", "guid">>]
      [] k = "route" -> [host |-> <<"host">>, path |-> <<"path">>,
                         domain |-> <<"relationships", "domain", "data", "guid">>,
                         space |-> <<"relationships", "space", "data", "guid">>]
      [] k = "org" -> [name |-> <<"name">>]
      [] k = "space" -> [name |-> <<"name">>,
                         org |-> <<"relationships", "organization", "data", "guid">>]

\* A variant without the default of the configuration.
StackUnconfigured ==
    CASE kind = "app" ->
            [stack |-> IF Present(<<"lifecycle">>) THEN body[<<"lifecycle", "data", "stack">>]
                       ELSE ""]
      [] kind = "build" -> [stack |-> "default"]
      [] OTHER -> <<>>

\* AppCreate.ToRecord: the stack of the lifecycle that was sent, or the default of the
\* configuration; BuildCreate.ToMessage takes the default whatever was sent.
Stack ==
    CASE kind = "app" ->
            [stack |-> IF Present(<<"lifecycle">>) THEN body[<<"lifecycle", "data", "stack">>]
                       ELSE "default"]
      [] kind = "build" -> [stack |-> "default"]
      [] OTHER -> <<>>

\* A pointer that is nil is dereferenced.
NilRead ==
    \E m \in DOMAIN Reads(kind) : \E field \in Fields(kind) :
        /\ field.path \in Above(Reads(kind)[m])
        /\ field.type = "pointer" /\ ~Present(field.path)

Merge(f, g) == [m \in DOMAIN f \cup DOMAIN g |-> IF m \in DOMAIN f THEN f[m] ELSE g[m]]

Convert ==
    /\ pc = "convert"
    /\ \/ NilRead /\ Reply("ConnectionLost")
       \/ /\ ~NilRead
          /\ message' = Merge([m \in DOMAIN Reads(kind) |-> body[Reads(kind)[m]]], Stack)
          /\ pc' = "done" /\ status' = "Accepted"
          /\ UNCHANGED <<kind, root, body>>

Done == pc = "done" /\ UNCHANGED vars

Next ==
    \/ \E field \in Fields(kind) : \E value \in ValuesOf(field) : Write(field, value)
    \/ Send \/ Decode \/ Validate \/ Convert \/ Done

Spec == Init /\ [][Next]_vars
-----------------------------------------------------------------------------
(***************************************************************************)
(* Properties                                                              *)
(***************************************************************************)
\* What a repository is called with is complete: every name, GUID, type, host and stack
\* was given and keeps its rule, whichever objects around it the client left out, sent
\* as null or as empty; only the path of a route may be empty.
AcceptedIsComplete ==
    status = "Accepted" =>
        \A m \in DOMAIN message :
            message[m] \in {"given", "default"} \/ (m = "path" /\ message[m] # "other")

\* A body that goes through the decoder and the validator never has the conversion, or
\* the handler after it, dereference a pointer that the client left out: no connection
\* is dropped but for the body null.
NoNilRead == status = "ConnectionLost" => root = "null"

\* What the API asks of a body, told from the endpoints' side: the needed places are
\* given and well formed, a lifecycle is whole or not there, and nothing is of
\* another type or unknown.
Needed(k) ==
    CASE k = "app" -> {<<"name">>, <<"relationships", "space", "data", "guid">>}
      [] k = "currentDroplet" -> {<<"data", "guid">>}
      [] k = "package" -> {<<"type">>, <<"relationships", "app", "data", "guid">>}
      [] k = "build" -> {<<"package", "guid">>}
      [] k = "route" -> {<<"host">>, <<"relationships", "domain", "data", "guid">>,
                         <<"relationships", "space", "data", "guid">>}
      [] k = "org" -> {<<"name">>}
      [] k = "space" -> {<<"name">>, <<"relationships", "organization", "data", "guid">>}

WholeLifecycle ==
    \/ ~Present(<<"lifecycle">>)
    \/ /\ body[<<"lifecycle", "type">>] = "given"
       /\ body[<<"lifecycle", "data", "stack">>] = "given"
       /\ body[<<"lifecycle", "data", "buildpacks">>] \in {"empty", "given"}

Acceptable ==
    /\ root = "given"
    /\ \A p \in Needed(kind) : body[p] = "given"
    /\ \A p \in Paths(kind) : body[p] \notin {"wrong", "other"}
    /\ body[Unknown.path] = "absent"
    /\ kind \in {"app", "build"} => WholeLifecycle

\* A body is accepted exactly when it has what the API asks for, wherever in it
\* something is missing: "required" means different things for structs, pointers, lists
\* and strings, and the tags are spread over nested types that payloads share.
AcceptedIfAcceptable ==
    pc = "done" => ((status = "Accepted") <=> Acceptable)

\* "the request body is invalid with missing required name field": a body that is JSON
\* and does not have what is required is answered 422 (apis/app_handler_test.go:259).
MissingIsUnprocessable ==
    (pc = "done" /\ root # "malformed" /\ ~Acceptable) => status = "UnprocessableEntity"
=============================================================================
