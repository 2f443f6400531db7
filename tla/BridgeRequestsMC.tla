-------------------------- MODULE BridgeRequestsMC --------------------------
(* BridgeRequests for TLC, and its refinement of RestService.                *)
EXTENDS BridgeRequests

(* The request being served: from the moment it gets its id until its answer *)
(* is on its way to the client.  A request refused with id 0 is not one.     *)
serving ==
    IF pc["http"] \in {"idle", "crashed"} \/ \E i \in DOMAIN replies : replies[i].to = mid["http"]
    THEN 0 ELSE mid["http"]

(* What a client sees of an answer: whose it is, and the text, if any. *)
AbstractReply(r) == [to |-> r.to, body |-> r.body.mid, mixed |-> r.body.mixed]

answered == [i \in DOMAIN replies |-> AbstractReply(replies[i])]

kept == IF torn THEN "none" ELSE IF Undisturbed THEN "prompt" ELSE "own"

Rest == INSTANCE RestService WITH
            submitted <- Len(reqs), current <- serving, answers <- answered,
            promise <- kept

(* With nothing but REST requests, the two threads, the mutex, the condition *)
(* variable and the two unlocked globals implement the service: one request  *)
(* at a time and one answer of its own to each, until a message is torn      *)
(* apart; and in time, until an event or a loss of the link may have         *)
(* swallowed a response.                                                     *)
ImplementsRestService == Rest!Service

=============================================================================
