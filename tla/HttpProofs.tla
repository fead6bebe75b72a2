----------------------------- MODULE HttpProofs -----------------------------
(***************************************************************************)
(* Theorems of module HttpAdapter, for any limits, base URLs and requests. *)
(***************************************************************************)
EXTENDS HttpAdapter, SequenceTheorems, TLAPS

(***************************************************************************)
(* A request leaves between the phases "idle" and "sending" and only       *)
(* there, and a call that has not begun to read holds no body.             *)
(***************************************************************************)
TrafficFollowsPhase ==
  /\ phase \in {"new", "idle"} => wire = <<>>
  /\ phase \in {"sending", "reading"} => Len(wire) = 1
  /\ result \in BodyKinds => Len(wire) = 1

HttpInv == HttpTypeOK /\ BodiesAreWhole /\ TrafficFollowsPhase

\* A chunk that is accepted fits.
LEMMA AcceptedChunkFits ==
  ASSUME body \in 0 .. Limit, Limit \in Nat, NEW chunk \in Nat
  PROVE  ~ Exceeds(chunk) <=> body + chunk <= Limit
BY DEF Exceeds

\* A body is classified as a response or as an invalid one.
LEMMA ClassifyType ==
  ASSUME body \in Nat, mime \in Mimes, NEW valid \in BOOLEAN
  PROVE  Classify(valid) \in BodyKinds \cup {"invalid_response"}
BY DEF Classify, BodyKinds, Mimes

\* A call that was not made yet satisfies the invariant.
LEMMA HttpInitial == HttpInit => HttpInv
<1>1. Unknown \in ContentLengths
  BY DEF ContentLengths
<1> QED
  BY <1>1, BoundsAssumption
     DEF HttpInit, HttpInv, HttpTypeOK, BodiesAreWhole, TrafficFollowsPhase,
         Mimes, BodyKinds, Errors, TooLong, Unknown

\* Every step of a call keeps the invariant; one case per action.
LEMMA HttpStep == HttpInv /\ [HttpNext]_httpVars => HttpInv'
<1> SUFFICES ASSUME HttpInv, [HttpNext]_httpVars
             PROVE  HttpInv'
  OBVIOUS
<1> USE BoundsAssumption DEF HttpInv, HttpTypeOK, TrafficFollowsPhase, BodiesAreWhole
<1>1. CASE RefuseConfig
  BY <1>1 DEF RefuseConfig, Finish, Errors, BodyKinds
<1>2. CASE NewClient
  BY <1>2 DEF NewClient
<1>3. CASE RefuseRequest
  BY <1>3 DEF RefuseRequest, Finish, Errors, BodyKinds
<1>4. CASE SendRequest
  <2>1. Len(wire') = 1
    <3> DEFINE one == Encoded(request)
    <3>1. wire' = Append(<<>>, one)
      BY <1>4 DEF SendRequest
    <3>2. Len(Append(<<>>, one)) = 1
      OBVIOUS
    <3> QED
      BY <3>1, <3>2
  <2> QED
    BY <1>4, <2>1 DEF SendRequest, Errors, BodyKinds
<1>5. CASE ReceiveHead
  <2>1. CASE TooLong(declared')
    BY <1>5, <2>1 DEF ReceiveHead, Finish, Errors, BodyKinds, TooLong
  <2>2. CASE ~ TooLong(declared')
    BY <1>5, <2>2 DEF ReceiveHead, TooLong
  <2> QED
    BY <2>1, <2>2
<1>6. CASE ReceiveChunk
  <2>1. PICK chunk \in 0 .. MaxChunk :
          /\ delivered' = delivered + chunk
          /\ IF Exceeds(chunk)
             THEN Finish("too_large") /\ UNCHANGED body
             ELSE body' = body + chunk /\ UNCHANGED <<phase, result>>
    BY <1>6 DEF ReceiveChunk
  <2>2. chunk \in Nat /\ result = "pending" /\ body = delivered
    BY <1>6 DEF ReceiveChunk
  <2>3. ~ Exceeds(chunk) <=> body + chunk <= Limit
    BY <2>2, AcceptedChunkFits
  <2>4. CASE Exceeds(chunk)
    BY <1>6, <2>1, <2>2, <2>3, <2>4 DEF ReceiveChunk, Finish, Errors, BodyKinds, TooLong
  <2>5. CASE ~ Exceeds(chunk)
    BY <1>6, <2>1, <2>2, <2>3, <2>5 DEF ReceiveChunk, Errors, BodyKinds, TooLong
  <2> QED
    BY <2>4, <2>5
<1>7. CASE EndBody
  <2>1. PICK valid \in BOOLEAN : result' = Classify(valid)
    BY <1>7 DEF EndBody, Finish
  <2>2. Classify(valid) \in BodyKinds \cup {"invalid_response"}
    BY ClassifyType
  <2> QED
    BY <1>7, <2>1, <2>2 DEF EndBody, Finish, Errors, BodyKinds, TooLong
<1>8. CASE BreakConnection
  BY <1>8 DEF BreakConnection, Finish, Errors, BodyKinds, TooLong
<1>9. CASE Expire
  BY <1>9 DEF Expire, Finish, Errors, BodyKinds, TooLong
<1>10. CASE UNCHANGED httpVars
  BY <1>10 DEF httpVars, TooLong
<1> QED
  BY <1>1, <1>2, <1>3, <1>4, <1>5, <1>6, <1>7, <1>8, <1>9, <1>10
     DEF HttpNext, Prepare, Server

\* The invariant holds throughout every call.
LEMMA HttpInvariance == HttpSpec => []HttpInv
BY HttpInitial, HttpStep, PTL DEF HttpSpec

\* For any limits: the variables of a call keep their types
\* (ReqwestHttpClient::execute).
THEOREM CallTypeCorrect == HttpSpec => []HttpTypeOK
BY HttpInvariance, PTL DEF HttpInv

\* For any body limit and any chunks: what is kept never exceeds the limit, a
\* response is complete, and only a body that is too large is refused as such
\* (read_body).
THEOREM ResponsesAreBoundedAndWhole == HttpSpec => []BodiesAreWhole
BY HttpInvariance, PTL DEF HttpInv

(***************************************************************************)
(* What is on the wire.  Only SendRequest writes it, once, and what bounds *)
(* the wire's first request then (the base URL and the argument) does not  *)
(* change any more.                                                        *)
(***************************************************************************)
BaseFollowsPhase ==
  /\ phase = "new" => base \in Base
  /\ phase = "idle" => /\ base.path \in Seq(STRING \cup {""}) \ {<<>>}
                       /\ Last(base.path) = ""

WireInv == HttpInv /\ BaseFollowsPhase /\ WireCarriesRequest

\* A longer alphabet has the sequences of a shorter one.
LEMMA SequencesWiden ==
  ASSUME NEW S, NEW T, S \subseteq T, NEW s \in Seq(S)
  PROVE  s \in Seq(T) /\ Len(s) \in Nat
BY SeqMonotonic

\* A sequence ends in the element that was appended to it.
LEMMA AppendedIsLast ==
  ASSUME NEW S, NEW s \in Seq(S), NEW e \in S
  PROVE  /\ Append(s, e) \in Seq(S) \ {<<>>}
         /\ Last(Append(s, e)) = e
<1>1. /\ Append(s, e) \in Seq(S)
      /\ Len(Append(s, e)) = Len(s) + 1
      /\ Append(s, e)[Len(s) + 1] = e
      /\ Len(s) \in Nat
  OBVIOUS
<1>2. Append(s, e) # <<>>
  BY <1>1
<1> QED
  BY <1>1, <1>2 DEF Last

\* A normalized path is not empty and ends in a slash.
LEMMA NormalizedEndsInSlash ==
  ASSUME NEW path \in Seq(STRING) \ {<<>>}
  PROVE  /\ Normalized(path) \in Seq(STRING \cup {""}) \ {<<>>}
         /\ Last(Normalized(path)) = ""
<1>1. path \in Seq(STRING \cup {""})
  BY SequencesWiden
<1>2. CASE Last(path) = ""
  BY <1>1, <1>2 DEF Normalized
<1>3. CASE Last(path) # ""
  <2>1. "" \in STRING \cup {""}
    OBVIOUS
  <2>2. /\ Append(path, "") \in Seq(STRING \cup {""}) \ {<<>>}
        /\ Last(Append(path, "")) = ""
    BY <1>1, <2>1, AppendedIsLast
  <2> QED
    BY <1>3, <2>2 DEF Normalized
<1> QED
  BY <1>2, <1>3

\* A path that stays below a directory is longer than the directory's name.
LEMMA BelowIsLonger ==
  ASSUME NEW path, NEW S, NEW directory \in Seq(S) \ {<<>>},
         StaysBelow(path, directory)
  PROVE  IsStrictPrefix(Front(directory), path)
<1>1. Len(directory) \in Nat /\ Len(directory) > 0
  OBVIOUS
<1>2. Len(Front(directory)) = Len(directory) - 1
  <2>1. Len(directory) - 1 \in Nat /\ Len(directory) - 1 <= Len(directory)
    BY <1>1
  <2>2. Len(SubSeq(directory, 1, Len(directory) - 1)) = Len(directory) - 1
    <3>1. \A i \in 1 .. (Len(directory) - 1) : directory[i] \in S
      BY <2>1, ElementOfSeq
    <3>2. Len(directory) - 1 \in Int /\ 1 \in Int
      BY <2>1
    <3>3. Len(SubSeq(directory, 1, Len(directory) - 1))
            = IF 1 <= Len(directory) - 1 THEN (Len(directory) - 1) - 1 + 1 ELSE 0
      BY <3>1, <3>2, SubSeqProperties
    <3> DEFINE size == Len(directory)
               short == Len(SubSeq(directory, 1, Len(directory) - 1))
    <3>4. size \in Nat /\ size > 0 /\ short = IF 1 <= size - 1 THEN (size - 1) - 1 + 1 ELSE 0
      BY <1>1, <3>3
    <3>5. short = size - 1
      <4> HIDE DEF size, short
      <4> QED
        BY <3>4
    <3> QED
      BY <3>5
  <2> QED
    BY <2>2 DEF Front
<1>3. Len(path) >= Len(directory) /\ IsPrefix(Front(directory), path)
  BY DEF StaysBelow
<1> QED
  BY <1>1, <1>2, <1>3 DEF IsStrictPrefix

\* If no name is spelled twice, every header keeps its own value.
LEMMA HeaderMapKeepsValues ==
  ASSUME NEW H, NEW headers \in Seq(H), EncodesHeaders(headers)
  PROVE  /\ DOMAIN HeaderMap(headers) = {headers[i].name : i \in DOMAIN headers}
         /\ \A i \in DOMAIN headers :
              HeaderMap(headers)[headers[i].name] = headers[i].value
<1> DEFINE names == {headers[i].name : i \in DOMAIN headers}
           last(n) == CHOOSE i \in DOMAIN headers :
                        headers[i].name = n /\ \A j \in DOMAIN headers :
                                                  headers[j].name = n => j <= i
<1>1. HeaderMap(headers) = [n \in names |-> headers[last(n)].value]
  BY DEF HeaderMap
<1>2. DOMAIN headers \subseteq Nat
  OBVIOUS
<1>3. \A i, j \in DOMAIN headers : headers[i].name = headers[j].name => i = j
  <2>1. \A i, j \in DOMAIN headers : j < i => headers[j].name # headers[i].name
    BY DEF EncodesHeaders
  <2> QED
    BY <1>2, <2>1
<1>4. ASSUME NEW i \in DOMAIN headers
      PROVE  last(headers[i].name) = i
  <2>1. \A j \in DOMAIN headers : headers[j].name = headers[i].name => j <= i
    BY <1>2, <1>3
  <2>2. /\ last(headers[i].name) \in DOMAIN headers
        /\ headers[last(headers[i].name)].name = headers[i].name
    BY <2>1
  <2> QED
    BY <1>3, <2>2
<1>5. \A i \in DOMAIN headers : headers[i].name \in names
  OBVIOUS
<1> HIDE DEF last, names
<1>6. \A i \in DOMAIN headers :
        HeaderMap(headers)[headers[i].name] = headers[i].value
  BY <1>1, <1>4, <1>5
<1>7. DOMAIN HeaderMap(headers) = names
  BY <1>1
<1> QED
  BY <1>6, <1>7 DEF names

\* Besides the headers of the request, a body's content type is all that is
\* added, and it replaces none of them.
LEMMA ContentTypeIsAdded ==
  ASSUME NEW headers, NEW b
  PROVE  LET sent == WithContentType(headers, b) IN
         /\ \A n \in DOMAIN headers : sent[n] = headers[n]
         /\ DOMAIN sent \ DOMAIN headers
              = IF b.kind = "none" THEN {} ELSE {"content-type"} \ DOMAIN headers
<1>1. CASE b.kind = "none" \/ "content-type" \in DOMAIN headers
  BY <1>1 DEF WithContentType
<1>2. CASE ~ (b.kind = "none" \/ "content-type" \in DOMAIN headers)
  BY <1>2 DEF WithContentType
<1> QED
  BY <1>1, <1>2

\* A call that was not made yet has sent nothing.
LEMMA WireInitial == HttpInit => WireInv
<1> SUFFICES ASSUME HttpInit PROVE WireInv
  OBVIOUS
<1>1. HttpInv
  BY HttpInitial
<1>2. BaseFollowsPhase
  BY BasesAssumption DEF HttpInit, BaseFollowsPhase
<1>3. DOMAIN wire = {}
  BY DEF HttpInit
<1> QED
  BY <1>1, <1>2, <1>3 DEF WireInv, WireCarriesRequest

\* The one request that leaves is the one that was asked for.
LEMMA SentAsAsked ==
  ASSUME WireInv, SendRequest
  PROVE  WireCarriesRequest'
<1> DEFINE sent  == Encoded(request)
           asked == {request.headers[i].name : i \in DOMAIN request.headers}
           map   == HeaderMap(request.headers)
<1>1. DOMAIN wire' = {1} /\ wire'[1] = sent
  <2>1. wire = <<>>
    BY DEF WireInv, HttpInv, TrafficFollowsPhase, SendRequest
  <2>2. wire' = Append(<<>>, sent)
    BY <2>1 DEF SendRequest
  <2> HIDE DEF sent
  <2> QED
    BY <2>2
<1>2. /\ base' = base /\ request' = request /\ IsValid(request)
      /\ base.path \in Seq(STRING \cup {""}) \ {<<>>} /\ Last(base.path) = ""
  BY DEF WireInv, BaseFollowsPhase, SendRequest
<1>3. request.headers \in Seq([name : STRING, value : ResolvedValues])
  BY RequestsAssumption DEF WireInv, HttpInv, HttpTypeOK, Request
<1>4. IsStrictPrefix(Front(base.path), sent.path)
  <2>1. StaysBelow(sent.path, base.path)
    BY <1>2 DEF IsValid, ResolvesUrl, Encoded
  <2> QED
    BY <1>2, <2>1, BelowIsLonger
<1>5. DOMAIN map = asked /\ \A i \in DOMAIN request.headers :
                             map[request.headers[i].name] = request.headers[i].value
  BY <1>2, <1>3, HeaderMapKeepsValues DEF IsValid
<1>6. sent.headers = WithContentType(map, request.body)
  BY DEF Encoded
<1>7. \A i \in DOMAIN request.headers :
        sent.headers[request.headers[i].name] = request.headers[i].value
  BY <1>5, <1>6, ContentTypeIsAdded
<1>8. DOMAIN sent.headers \ asked
        = IF request.body.kind = "none" THEN {} ELSE {"content-type"} \ asked
  BY <1>5, <1>6, ContentTypeIsAdded
<1>9. Carries(sent, base.path, request)
  BY <1>2, <1>4, <1>7, <1>8 DEF Carries
<1> HIDE DEF sent
<1> QED
  BY <1>1, <1>2, <1>9 DEF WireCarriesRequest

\* Every step keeps it; the steps after SendRequest leave the wire, the base
\* URL and the argument alone.
LEMMA WireStep == WireInv /\ [HttpNext]_httpVars => WireInv'
<1> SUFFICES ASSUME WireInv, [HttpNext]_httpVars
             PROVE  WireInv'
  OBVIOUS
<1>1. HttpInv'
  BY HttpStep DEF WireInv
<1>2. CASE NewClient
  <2>1. base \in Base
    BY <1>2 DEF WireInv, BaseFollowsPhase, NewClient
  <2>2. base'.path = Normalized(base.path)
    BY <1>2, <2>1 DEF NewClient, Base
  <2>3. BaseFollowsPhase'
    BY <1>2, <2>1, <2>2, NormalizedEndsInSlash DEF NewClient, BaseFollowsPhase, Base
  <2>4. DOMAIN wire' = {}
    BY <1>2 DEF WireInv, HttpInv, TrafficFollowsPhase, NewClient
  <2>5. WireCarriesRequest'
    BY <2>4 DEF WireCarriesRequest
  <2> QED
    BY <1>1, <2>3, <2>5 DEF WireInv
<1>3. CASE SendRequest
  <2>1. BaseFollowsPhase'
    BY <1>3 DEF SendRequest, BaseFollowsPhase
  <2> QED
    BY <1>1, <1>3, <2>1, SentAsAsked DEF WireInv
<1>4. CASE RefuseConfig \/ RefuseRequest \/ Server \/ Expire \/ UNCHANGED httpVars
  <2>1. UNCHANGED <<wire, base, request>>
    BY <1>4 DEF RefuseConfig, RefuseRequest, Server, ReceiveHead, ReceiveChunk, EndBody,
                BreakConnection, Expire, httpVars
  <2>2. phase' \in {"reading", "done"} \/ phase' = phase
    BY <1>4 DEF RefuseConfig, RefuseRequest, Server, ReceiveHead, ReceiveChunk, EndBody,
                BreakConnection, Expire, httpVars, Finish
  <2>3. BaseFollowsPhase'
    BY <2>1, <2>2 DEF WireInv, BaseFollowsPhase
  <2>4. WireCarriesRequest'
    BY <2>1 DEF WireInv, WireCarriesRequest
  <2> QED
    BY <1>1, <2>3, <2>4 DEF WireInv
<1> QED
  BY <1>2, <1>3, <1>4 DEF HttpNext, Prepare

\* For any base URLs and requests: what leaves is what was asked for, below
\* the directory that the user named and with every header's own value
\* (resolve_url, encode_headers, execute).
THEOREM WireIsFaithful == HttpSpec => []WireCarriesRequest
<1>1. HttpSpec => []WireInv
  BY WireInitial, WireStep, PTL DEF HttpSpec
<1> QED
  BY <1>1, PTL DEF WireInv

\* Every step of the adapter is a step of the port, or none.
LEMMA StepKeepsPromise ==
  ASSUME HttpInv, [HttpNext]_httpVars, HttpInv'
  PROVE  [Port!Next]_(Port!vars)
<1> USE DEF HttpInv, HttpTypeOK, TrafficFollowsPhase, Port!Next, Port!vars
<1>1. CASE RefuseConfig
  BY <1>1 DEF RefuseConfig, Finish, Errors, Port!Fail
<1>2. CASE NewClient
  BY <1>2 DEF NewClient
<1>3. CASE RefuseRequest
  BY <1>3 DEF RefuseRequest, Finish, Errors, Port!Fail
<1>4. CASE SendRequest
  <2>1. Len(wire) = 0 /\ Len(wire') = 1
    BY <1>4 DEF SendRequest
  <2> QED
    BY <1>4, <2>1 DEF SendRequest, Port!Send
<1>5. CASE ReceiveHead
  BY <1>5 DEF ReceiveHead, Finish, Errors, Port!Fail
<1>6. CASE ReceiveChunk
  <2>1. PICK chunk \in 0 .. MaxChunk :
          IF Exceeds(chunk)
          THEN Finish("too_large") /\ UNCHANGED body
          ELSE body' = body + chunk /\ UNCHANGED <<phase, result>>
    BY <1>6 DEF ReceiveChunk
  <2>2. wire' = wire /\ Len(wire) = 1 /\ result = "pending"
    BY <1>6 DEF ReceiveChunk
  <2>3. CASE Exceeds(chunk)
    BY <2>1, <2>2, <2>3 DEF Finish, Errors, Port!Fail
  <2>4. CASE ~ Exceeds(chunk)
    BY <2>1, <2>2, <2>4, BoundsAssumption DEF Port!Receive
  <2> QED
    BY <2>3, <2>4
<1>7. CASE EndBody
  <2>1. PICK valid \in BOOLEAN : result' = Classify(valid)
    BY <1>7 DEF EndBody, Finish
  <2>2. Classify(valid) \in BodyKinds \cup {"invalid_response"}
    BY ClassifyType, BoundsAssumption
  <2> QED
    BY <1>7, <2>1, <2>2 DEF EndBody, Finish, Errors, BodyKinds, Port!Fail, Port!Answer
<1>8. CASE BreakConnection
  BY <1>8 DEF BreakConnection, Finish, Errors, Port!Fail
<1>9. CASE Expire
  BY <1>9 DEF Expire, Finish, Errors, Port!Fail
<1>10. CASE UNCHANGED httpVars
  BY <1>10 DEF httpVars
<1> QED
  BY <1>1, <1>2, <1>3, <1>4, <1>5, <1>6, <1>7, <1>8, <1>9, <1>10
     DEF HttpNext, Prepare, Server

\* For any limits, base URLs and requests: a call of the adapter is a call of
\* the port, with one request at most and a bounded body (HttpClient).
THEOREM AdapterKeepsPromise == HttpSpec => ImplementsPort
<1>1. HttpInit => Port!Init
  BY DEF HttpInit, Port!Init
<1>2. HttpInv /\ [HttpNext]_httpVars /\ HttpInv' => [Port!Next]_(Port!vars)
  BY StepKeepsPromise
<1> QED
  BY <1>1, <1>2, HttpInvariance, PTL DEF HttpSpec, ImplementsPort
=============================================================================
