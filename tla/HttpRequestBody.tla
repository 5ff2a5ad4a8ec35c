--------------------------- MODULE HttpRequestBody ---------------------------
(***************************************************************************)
(* The request helper with the bodies of restCallPostJsonAsync: parameters *)
(* as a JSON object, by way of cJSON.c.  One call is looked at.            *)
(***************************************************************************)
EXTENDS CJsonText, HttpRequestHelper

CONSTANT Bodies   \* the parameters of the JSON calls looked at

\* history: the parameters for which an allocation of cJSON_AddStringToObject failed, the
\* item's, the value's or the name's
VARIABLE failed

bodyVars == <<vars, helperVars, failed>>

Members(entries) == ObjectOf([i \in DOMAIN entries |-> <<entries[i][1], StringOf(entries[i][2])>>])

\* Mutated form: the loop ends at the first parameter that cannot be added.
ObjectUpToFailure(map, missing) ==
  LET walk == InOrder(map)
      added == {n \in 0 .. Len(walk) : \A i \in 1 .. n : walk[i] \notin missing}
  IN  Members(SubSeq(walk, 1, CHOOSE n \in added : \A k \in added : k <= n))

\* The loop of restCallPostJsonAsync: what cJSON_AddStringToObject could not add is
\* left out without a word, what follows is added all the same.
ObjectOfParams(map, missing) ==
  LET CanAdd(p) == p \notin missing
  IN  Members(SelectSeq(InOrder(map), CanAdd))

\* restCallPostJsonAsync up to curl_easy_perform.
PostJson ==
  \E map \in Bodies, fuel \in Fuel : \E missing \in SUBSET map :
    LET root == ObjectOfParams(map, missing)
    IN  /\ request = "none"
        /\ Returns("json", root, FALSE, default_buffer_size, print(root, FALSE, reallocate, fuel))
        /\ request' = "json"
        /\ params' = map
        /\ failed' = missing
        /\ UNCHANGED <<response, wire>>

BodyInit == Init /\ HelperInit /\ failed = {}

\* A text of cJSON's, a body among them, or a call with a URL or an answer.
BodyNext ==
  \/ request \in {"none", "json"} /\ Next /\ UNCHANGED <<helperVars, failed>>
  \/ PostJson
  \/ call = "none" /\ HelperNext /\ UNCHANGED <<vars, failed>>

BodySpec == BodyInit /\ [][BodyNext]_bodyVars

-----------------------------------------------------------------------------
\* A body that is posted parses to an object that has every parameter of the caller, each
\* once and with its value, but for those whose own allocations failed: one that could
\* not be added takes no other with it (http_request_helper.h:137-151).
BodyMeansParams ==
  LET Told(members) == {<<members[i][1], members[i][2].chars>> : i \in DOMAIN members}
      Gave(p) == p.ok /\ Told(p.item.members) = params \ failed
                      /\ Len(p.item.members) = Cardinality(params \ failed)
  IN  call = "json" /\ printed.ok => Gave(Parse(text, TRUE, Enough))
=============================================================================
