-------------------------- MODULE HttpRequestHelper --------------------------
(***************************************************************************)
(* A call of the request helper: parameters in a URL (restCallPostAsync,   *)
(* and restCallGet on its way out) and the answer of restCallGet.  Module  *)
(* HttpRequestBody adds the bodies, which cJSON.c prints.                  *)
(***************************************************************************)
EXTENDS HttpTexts

CONSTANTS
  Url,         \* where the calls go
  Params,      \* the parameters of the calls looked at
  Responses    \* what an answer may hold

ASSUME HelperAssumption ==
  /\ Url \in Seq(CharByte) /\ \A i \in DOMAIN Url : Url[i] # Question
  /\ \A map \in Params :
       /\ IsFiniteSet(map) /\ map \subseteq Seq(CharByte) \X Seq(CharByte)
       /\ \A p, q \in map : p[1] = q[1] => p = q
  /\ Responses \subseteq Seq(CharByte)

VARIABLES
  request,   \* the call made: "none", "form" or "answer"
  params,    \* its parameters
  response,  \* what the other side answered
  wire       \* the URL, or what arrived of the answer

helperVars == <<request, params, response, wire>>

HelperInit == request = "none" /\ params = {} /\ response = <<>> /\ wire = <<>>

\* restCallPostAsync up to curl_easy_perform.
PostForm ==
  \E map \in Params :
    /\ request = "none"
    /\ request' = "form"
    /\ params' = map
    /\ wire' = escapeParams(Url, map)
    /\ UNCHANGED response

\* The other side's answer.
Whole(chars) == ResponseStart \o chars \o <<Quote, CloseObject>>

\* An answer arrives at restCallGet, all of it or a part.
AnswerArrives ==
  \E chars \in Responses :
    /\ request = "none"
    /\ request' = "answer"
    /\ response' = chars
    /\ wire' \in {SubSeq(Whole(chars), 1, n) : n \in 0 .. Len(Whole(chars))}
    /\ UNCHANGED params

HelperNext == PostForm \/ AnswerArrives

HelperSpec == HelperInit /\ [][HelperNext]_helperVars

-----------------------------------------------------------------------------
\* Whoever takes a URL apart, at the question mark, the ampersands and the first equals
\* sign of each part, and decodes what is between, has the parameters, each once and
\* whatever separators they contain (http_request_helper.h:83-105, 119-128).
UrlMeansParams ==
  request = "form" =>
    LET query == Past(wire, Question)
        Param(t) == <<Unescape(Ahead(t, Equals)), Unescape(Past(t, Equals))>>
    IN  /\ Ahead(wire, Question) = Url
        /\ IF params = {} THEN wire = Url
           ELSE /\ {Param(t) : t \in Parts(query, Ampersand)} = params
                /\ Cardinality(Marks(query, Ampersand)) + 1 = Cardinality(params)

\* An answer that came whole gives its response, also an empty one; of one that broke
\* off nothing in front of the response is taken for it (http_request_helper.h:72-81).
ResponseIsFound ==
  request = "answer" =>
    LET r == getResponseFromJson(wire)
    IN  /\ wire = Whole(response) => ~r.thrown /\ r.chars = response
        /\ ~r.thrown => IsPrefix(r.chars, response \o <<Quote>>)
=============================================================================
