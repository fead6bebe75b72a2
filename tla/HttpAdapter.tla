----------------------------- MODULE HttpAdapter ----------------------------
(***************************************************************************)
(* ReqwestHttpClient: the configuration of a client and one call of        *)
(* `execute'.  A server may answer at any time or never, with any length   *)
(* header or none, in chunks of any size.  A value is known by what the    *)
(* encoders ask of it, a body of bytes by its length.                      *)
(***************************************************************************)
EXTENDS Naturals, SequencesExt

CONSTANTS
  Bases,         \* the base URLs considered
  Requests,      \* the resolved requests considered
  Limit,         \* max_response_body_bytes
  MaxChunk,      \* bound: bytes in one chunk, and content length over Limit
  MaxJsonDepth   \* MAX_JSON_DEPTH

(***************************************************************************)
(* Resolved values and requests.  "control" is a text that no header can   *)
(* carry.  A JSON value is the set of its nodes; `fault' names the first   *)
(* check on the text of the path that fails.                               *)
(***************************************************************************)
ResolvedValues == {"text", "control", "number", "infinite", "null", "complex"}
JsonNodes == [depth : Nat, kind : {"scalar", "infinite", "container"}, empty : BOOLEAN]
PathFaults == {"empty", "whitespace", "absolute", "query", "fragment", "control"}

Request ==
  [path    : [fault : PathFaults \cup {"none"}, segments : Seq(STRING)],
   headers : Seq([name : STRING, value : ResolvedValues]),
   query   : SUBSET ResolvedValues,
   body    : [kind : {"none", "json", "text", "form", "octets"},
              nodes : SUBSET JsonNodes, values : SUBSET ResolvedValues],
   timeout : {"none", "own", "zero"}]

(***************************************************************************)
(* Base URLs.  A path is the sequence of its segments, the last one empty  *)
(* if the text ends in a slash; the path of a parsed URL has one at least. *)
(***************************************************************************)
BaseFaults == {"whitespace", "malformed", "scheme", "host", "credentials", "query", "fragment"}
ConfigFaults == {"zero_timeout", "zero_limit"}

Base == [fault : BaseFaults \cup ConfigFaults \cup {"none"}, path : Seq(STRING) \ {<<>>}]

ASSUME BoundsAssumption == {Limit, MaxChunk, MaxJsonDepth} \subseteq Nat
ASSUME RequestsAssumption == Requests \subseteq Request
ASSUME BasesAssumption == Bases \subseteq Base

VARIABLES
  phase,      \* "new", "idle", "sending", "reading" or "done"
  base,       \* the base URL; its path is normalized by NewClient
  request,    \* the argument of execute
  timeout,    \* what bounds the call: "default", "own" or "none"
  wire,       \* the requests that left, in order
  declared,   \* the Content-Length of the response, or Unknown
  mime,       \* the class of its Content-Type
  delivered,  \* bytes the server delivered
  body,       \* bytes that were kept
  result      \* "pending", an error, or the class of the response body

httpVars == <<phase, base, request, timeout, wire, declared, mime, delivered, body, result>>

-----------------------------------------------------------------------------
(***************************************************************************)
(* Paths.                                                                  *)
(***************************************************************************)
\* Faulty: the missing slash is not added.
AsTyped(path) == path

Normalized(path) == IF Last(path) = "" THEN path ELSE Append(path, "")

EnterSegment(directories, segment) ==
  CASE segment = "." -> directories
    [] segment = ".." -> IF directories = <<>> THEN <<>> ELSE Front(directories)
    [] OTHER -> Append(directories, segment)

\* Url::join
Join(path, segments) ==
  LET directories == FoldLeft(EnterSegment, Front(path), segments)
  IN IF Last(segments) \in {".", ".."} THEN Append(directories, "") ELSE directories

StaysBelow(path, directory) ==
  Len(path) >= Len(directory) /\ IsPrefix(Front(directory), path)

ResolvesUrl(path) ==
  /\ path.fault \notin PathFaults
  /\ StaysBelow(Join(base.path, path.segments), base.path)

-----------------------------------------------------------------------------
(***************************************************************************)
(* What the encoders accept.                                               *)
(***************************************************************************)
WireScalar(value, allowNull) ==
  value \in {"text", "control", "number"} \cup (IF allowNull THEN {"null"} ELSE {})

\* Faulty: of two spellings of a name the later one wins.
EncodesHeadersLoosely(headers) ==
  \A i \in DOMAIN headers :
     /\ headers[i].name # "invalid"
     /\ WireScalar(headers[i].value, FALSE) /\ headers[i].value # "control"

\* Names are compared in lower case.
EncodesHeaders(headers) ==
  \A i \in DOMAIN headers :
     /\ headers[i].name # "invalid"
     /\ \A j \in DOMAIN headers : j < i => headers[j].name # headers[i].name
     /\ WireScalar(headers[i].value, FALSE)
     /\ headers[i].value # "control"

\* An empty container is not entered, however deep it is.
EncodesJson(nodes) ==
  \A n \in nodes :
     /\ n.kind # "infinite"
     /\ n.kind = "container" /\ n.depth >= MaxJsonDepth => n.empty

EncodesBody(b) ==
  CASE b.kind = "json" -> EncodesJson(b.nodes)
    [] b.kind = "form" -> \A v \in b.values : WireScalar(v, TRUE)
    [] OTHER -> TRUE

IsValid(r) ==
  /\ r.timeout # "zero"
  /\ ResolvesUrl(r.path)
  /\ \A v \in r.query : WireScalar(v, TRUE)
  /\ EncodesHeaders(r.headers)
  /\ EncodesBody(r.body)

HeaderMap(headers) ==
  LET names == {headers[i].name : i \in DOMAIN headers}
      last(n) == CHOOSE i \in DOMAIN headers :
                   headers[i].name = n /\ \A j \in DOMAIN headers :
                                             headers[j].name = n => j <= i
  IN [n \in names |-> headers[last(n)].value]

\* A body gets the content type of its kind unless the request names one.
WithContentType(headers, b) ==
  IF b.kind = "none" \/ "content-type" \in DOMAIN headers THEN headers
  ELSE [n \in DOMAIN headers \cup {"content-type"} |->
          IF n = "content-type" THEN b.kind ELSE headers[n]]

Encoded(r) ==
  [path    |-> Join(base.path, r.path.segments),
   headers |-> WithContentType(HeaderMap(r.headers), r.body)]

-----------------------------------------------------------------------------
(***************************************************************************)
(* Responses.                                                              *)
(***************************************************************************)
Unknown == [known |-> FALSE, length |-> 0]
Length(n) == [known |-> TRUE, length |-> n]
ContentLengths == {Unknown} \cup {Length(n) : n \in 0 .. Limit + MaxChunk}

Mimes == {"absent", "unparsable", "json", "text", "other"}
Errors == {"invalid_base", "invalid_request", "connection", "timeout",
           "too_large", "invalid_response"}
BodyKinds == {"empty", "json", "text", "binary"}

TooLong(length) == length.known /\ length.length > Limit

\* Faulty: every chunk is compared with the whole limit.
ExceedsAlone(chunk) == chunk > Limit

\* Faulty: a body of exactly the limit is refused.
ExceedsEarly(chunk) == body + chunk >= Limit

\* limit.saturating_sub(body.len())
Exceeds(chunk) == chunk > IF body >= Limit THEN 0 ELSE Limit - body

\* valid: the bytes parse as what the content type announces
Classify(valid) ==
  CASE body = 0 -> "empty"
    [] body > 0 /\ mime \in {"absent", "other"} -> "binary"
    [] body > 0 /\ mime \in {"json", "text"} /\ valid -> mime
    [] OTHER -> "invalid_response"

-----------------------------------------------------------------------------
HttpInit ==
  /\ phase = "new"
  /\ base \in Bases
  /\ request \in Requests
  /\ timeout = "none"
  /\ wire = <<>>
  /\ declared = Unknown
  /\ mime = "absent"
  /\ delivered = 0
  /\ body = 0
  /\ result = "pending"

Finish(outcome) == phase' = "done" /\ result' = outcome

\* HttpClientConfig::new, with_default_timeout, with_max_response_body_bytes
RefuseConfig ==
  /\ phase = "new"
  /\ base.fault \in BaseFaults \cup ConfigFaults
  /\ Finish(IF base.fault \in BaseFaults THEN "invalid_base" ELSE "invalid_request")
  /\ UNCHANGED <<base, request, timeout, wire, declared, mime, delivered, body>>

\* Faulty: the client has no deadline of its own.
NewClientWithoutTimeout ==
  /\ phase = "new"
  /\ base.fault \notin BaseFaults \cup ConfigFaults
  /\ base' = [base EXCEPT !.path = Normalized(@)]
  /\ phase' = "idle"
  /\ UNCHANGED <<request, timeout, wire, declared, mime, delivered, body, result>>

NewClient ==
  /\ phase = "new"
  /\ base.fault \notin BaseFaults \cup ConfigFaults
  /\ base' = [base EXCEPT !.path = Normalized(@)]
  /\ timeout' = "default"
  /\ phase' = "idle"
  /\ UNCHANGED <<request, wire, declared, mime, delivered, body, result>>

RefuseRequest ==
  /\ phase = "idle"
  /\ ~ IsValid(request)
  /\ Finish("invalid_request")
  /\ UNCHANGED <<base, request, timeout, wire, declared, mime, delivered, body>>

SendRequest ==
  /\ phase = "idle"
  /\ IsValid(request)
  /\ timeout' = IF request.timeout = "own" THEN "own" ELSE timeout
  /\ wire' = Append(wire, Encoded(request))
  /\ phase' = "sending"
  /\ UNCHANGED <<base, request, declared, mime, delivered, body, result>>

\* The status line and the headers arrive; a redirect is a response like any.
ReceiveHead ==
  /\ phase = "sending"
  /\ declared' \in ContentLengths
  /\ mime' \in Mimes
  /\ IF TooLong(declared')
     THEN Finish("too_large")
     ELSE phase' = "reading" /\ UNCHANGED result
  /\ UNCHANGED <<base, request, timeout, wire, delivered, body>>

\* A chunk may be empty, and the length header may lie.
ReceiveChunk ==
  /\ phase = "reading"
  /\ \E chunk \in 0 .. MaxChunk :
       /\ delivered' = delivered + chunk
       /\ IF Exceeds(chunk)
          THEN Finish("too_large") /\ UNCHANGED body
          ELSE body' = body + chunk /\ UNCHANGED <<phase, result>>
  /\ UNCHANGED <<base, request, timeout, wire, declared, mime>>

EndBody ==
  /\ phase = "reading"
  /\ \E valid \in BOOLEAN : Finish(Classify(valid))
  /\ UNCHANGED <<base, request, timeout, wire, declared, mime, delivered, body>>

\* HttpError::from_reqwest: reqwest may refuse the request it is given, and it
\* decides whether a broken body is a decoding error.
BreakConnection ==
  /\ \/ phase = "sending" /\ \E e \in {"connection", "invalid_request"} : Finish(e)
     \/ phase = "reading" /\ \E e \in {"connection", "invalid_response"} : Finish(e)
  /\ UNCHANGED <<base, request, timeout, wire, declared, mime, delivered, body>>

\* The deadline covers the connection, the head and the whole body.
Expire ==
  /\ phase \in {"sending", "reading"}
  /\ timeout # "none"
  /\ Finish("timeout")
  /\ UNCHANGED <<base, request, timeout, wire, declared, mime, delivered, body>>

Prepare == RefuseConfig \/ NewClient \/ RefuseRequest \/ SendRequest
Server == ReceiveHead \/ ReceiveChunk \/ EndBody \/ BreakConnection
HttpNext == Prepare \/ Server \/ Expire

(***************************************************************************)
(* The adapter is polled and the clock goes on; the server owes nothing.   *)
(***************************************************************************)
HttpFairness == WF_httpVars(Prepare) /\ WF_httpVars(Expire)

HttpSpec == HttpInit /\ [][HttpNext]_httpVars /\ HttpFairness

-----------------------------------------------------------------------------
(***************************************************************************)
(* Properties.                                                             *)
(***************************************************************************)

\* The variables of a call range over what their Rust types allow.
HttpTypeOK ==
  /\ phase \in {"new", "idle", "sending", "reading", "done"}
  /\ request \in Requests
  /\ timeout \in {"none", "default", "own"}
  /\ declared \in ContentLengths
  /\ mime \in Mimes
  /\ delivered \in Nat /\ body \in 0 .. Limit
  /\ result \in {"pending"} \cup Errors \cup BodyKinds
  /\ result = "pending" <=> phase # "done"

\* read_body never keeps more than the limit, whatever length the response
\* declared and however it is cut in chunks; a response that is returned has
\* every byte that was delivered, and a body is refused as too large only if
\* it is, or says it is.
BodiesAreWhole ==
  /\ body <= Limit
  /\ result # "too_large" => body = delivered
  /\ result = "too_large" => TooLong(declared) \/ delivered > Limit

\* A request on the wire is the one asked for, under this base path.
Carries(sent, path, asked) ==
  LET typed == IF Last(path) = "" THEN Front(path) ELSE path
      names == {asked.headers[i].name : i \in DOMAIN asked.headers}
  IN /\ IsStrictPrefix(typed, sent.path)
     /\ \A i \in DOMAIN asked.headers :
          sent.headers[asked.headers[i].name] = asked.headers[i].value
     /\ DOMAIN sent.headers \ names
          = IF asked.body.kind = "none" THEN {} ELSE {"content-type"} \ names

\* What is sent is what was asked for: a path below the directory that the
\* user typed as the base URL, every header of the request with its own
\* value, and besides them only the content type of a body (execute,
\* encode_headers, resolve_url).
WireCarriesRequest == \A k \in DOMAIN wire : Carries(wire[k], base.path, request)

\* A call keeps the promise of the port: one request at most, one end, and a
\* response only from a request that left.
Port == INSTANCE HttpPort WITH
          call <- IF result = "pending" THEN "called"
                  ELSE IF result \in Errors THEN "failed" ELSE "answered",
          sent <- Len(wire),
          bytes <- body

ImplementsPort == Port!Init /\ [][Port!Next]_(Port!vars)

\* Every call ends, even if the server never answers or never stops sending:
\* there is always a deadline.  This is why Execution may assume an answer.
EveryCallEnds == <>(phase = "done")
=============================================================================
