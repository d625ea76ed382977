-------------------------------- MODULE Intake --------------------------------
(***************************************************************************)
(* What a Register request goes through before it is a row: the gateway or   *)
(* the gRPC transport, the log interceptor, the validator and the mapping to *)
(* Storage.Add.  None of it keeps state, so these are functions of a request. *)
(*                                                                          *)
(* A request is a record: via the transport, trace the X-Trace-ID header, or  *)
(* none, garbled whether its body cannot be decoded, and the fields of        *)
(* RegisterRequest.  A string stands for itself; Runes is its length.         *)
(***************************************************************************)
EXTENDS Integers, Sequences

CONSTANTS Runes,       \* the length of every string a request carries
          FastPathTime \* the longest delay that is not left to the cron

ASSUME IntakeAssumption == FastPathTime \in Nat

-------------------------------------------------------------------------------
\* The gateway decodes the body (an empty one is an empty request), or answers
\* InvalidArgument itself; so does the gRPC handler.
Decodes(req) == ~req.garbled

(* RegisterRequest.validate: every rule in the order of the fields; Data has  *)
(* none, a Struct does not validate itself.                                  *)

FieldOrder == <<"Schema", "Url", "Path", "DelayTime", "Timeout", "Backoff">>
SchemaInLookup == {"FMT", "HTTP", "HTTPS", "GRPC"}

Broken(req) ==
  [Schema    |-> req.schema \notin SchemaInLookup,
   Url       |-> Runes[req.url] < 1 \/ Runes[req.url] > 255,
   Path      |-> Runes[req.path] < 1 \/ Runes[req.path] > 255,
   DelayTime |-> req.delay < 0 \/ req.delay > 86400,
   Timeout   |-> req.timeout < 0 \/ req.timeout > 3600,
   Backoff   |-> Len(req.backoff) > 20]

\* Validate stops at the first error, ValidateAll collects them: an error is the
\* place of its field in the order of the rules.
Validate(req, all) ==
  LET errors == {i \in DOMAIN FieldOrder : Broken(req)[FieldOrder[i]]}
  IN IF all THEN errors ELSE {i \in errors : \A j \in errors : i <= j}

\* camelToSnake, and the messages the descriptor has for the names it gives.
Snake == [Schema |-> "schema", Url |-> "url", Path |-> "path", Backoff |-> "backoff",
          DelayTime |-> "delay_time", Timeout |-> "timeout"]
CustomError == {"schema", "url", "path", "delay_time", "timeout", "backoff"}

\* getFieldCustomError: the message of the field, or the generated reason.
Message(f) == IF Snake[f] \in CustomError THEN <<Snake[f], "custom">> ELSE <<f, "reason">>

\* Mutant: the interceptor calls Validate.
VerdictFirst(req) ==
  {<<FieldOrder[i], Message(FieldOrder[i])>> : i \in Validate(req, FALSE)}

\* ValidateWithCustomError: a map from field to message, joined in any order.
Verdict(req) ==
  {<<FieldOrder[i], Message(FieldOrder[i])>> : i \in Validate(req, TRUE)}

-------------------------------------------------------------------------------
(* Trace ids: a context carries a sequence of them, joined with commas.      *)

NoTrace == <<>>
Append2(trace, id) == IF id = NoTrace THEN trace ELSE trace \o id

\* The log interceptor: the id in the metadata, or a generated one when there
\* is none or it is empty.  The gateway does not forward the header (external:
\* its default matcher passes permanent headers and Grpc-Metadata- ones).
TraceOf(req, generated) ==
  IF req.via = "grpc" /\ req.trace # NoTrace THEN req.trace ELSE generated

-------------------------------------------------------------------------------
(* Storage.Add: every option is given, so its defaults are never used.       *)

FastPath(req) == req.delay <= FastPathTime

\* The row; fail_count starts at -1 because the cron counts before it submits.
NewRow(req, trace) ==
  [status |-> IF FastPath(req) THEN 1 ELSE 0,
   count  |-> IF FastPath(req) THEN 0 ELSE -1,
   msgs   |-> <<>>,
   trace  |-> trace]

-------------------------------------------------------------------------------
(* The payload, as the adapters read it.                                     *)

\* http.go:70-73: a URL that does not start with "http" gets the schema; one
\* that does is taken as it is, be it the name of a host.
UrlOf(req) ==
  CASE req.host = "url"   -> "complete"
    [] req.host = "plain" -> "complete" \* schema://host
    [] req.host = "http"  -> "noscheme" \* a host named http..., left alone

\* Fmt.Request and example.Valid answer with the string result of the data.
FmtReply(req) == IF req.result # "none" THEN req.result ELSE "FAIL"

\* Trimmed of quotes, the body is compared with SUCCESS.
IsSuccess(reply, err) == ~err /\ reply \in {"SUCCESS", "'SUCCESS'"}
=============================================================================
