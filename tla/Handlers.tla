------------------------------ MODULE Handlers ------------------------------
(***************************************************************************)
(* The request handlers of the shim.  net/http serves every request in a   *)
(* goroutine of its own, so a handler is a sequence of calls to the        *)
(* cluster or the registry, each atomic at the far end, and the calls of   *)
(* different requests interleave.                                          *)
(*                                                                         *)
(* pc[r] names the next call of r's handler and status[r] the answer its   *)
(* client has, "Pending" until there is one.  A call can fail.  A write    *)
(* can be refused by the far end, or its answer can be lost: the handler   *)
(* then reports an error while the write may still take effect, now or     *)
(* later, or be dropped; a request keeps the pc of such a write until its  *)
(* fate is settled.  The server may crash between any two calls.           *)
(***************************************************************************)
CONSTANT Requests  \* each served once
VARIABLES pc, status

\* apis/shared.go: the answers the handlers can present, and a lost connection.
Statuses == {"Pending", "OK", "Created", "MessageParseError", "InvalidRequest",
             "Unauthorized", "ResourceNotFound", "UnprocessableEntity",
             "UniquenessError", "PackageBitsAlreadyUploaded", "UnknownError", "ConnectionLost"}

\* DecodeAndValidatePayload: the body is no JSON, or a payload that the decoder or
\* the validator refuses, or null, at which it panics (see Payloads).
PayloadErrors == {"MessageParseError", "UnprocessableEntity", "ConnectionLost"}

Arrived(r) == pc[r] # "idle"
Pending(r) == status[r] = "Pending"
InFlight(r) == Arrived(r) /\ Pending(r)

\* The handler of r is running and its next call is p.
At(r, p) == pc[r] = p /\ Pending(r)

Call(r, p) ==
    /\ pc' = [pc EXCEPT ![r] = p]
    /\ UNCHANGED status

Reply(r, answer) ==
    /\ pc' = [pc EXCEPT ![r] = "done"]
    /\ status' = [status EXCEPT ![r] = answer]

\* The far end is done with the write of r; a handler that still waits answers.
Landed(r, answer) ==
    Reply(r, IF Pending(r) THEN answer ELSE status[r])

\* The answer to a write is lost (connection reset, request context cancelled):
\* the handler reports an error while the write is still on its way.
AnswerLost(r) ==
    /\ status' = [status EXCEPT ![r] = "UnknownError"]
    /\ UNCHANGED pc

\* The server dies with every handler in it; writes already sent may still land.
Crashed(writes) ==
    /\ \E r \in Requests : InFlight(r)
    /\ status' = [r \in Requests |-> IF InFlight(r) THEN "ConnectionLost" ELSE status[r]]
    /\ pc' = [r \in Requests |->
                 IF InFlight(r) /\ pc[r] \notin writes THEN "done" ELSE pc[r]]
=============================================================================
