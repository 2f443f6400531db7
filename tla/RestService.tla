----------------------------- MODULE RestService ----------------------------
(* What the REST interface of the bridge promises its clients: one request   *)
(* is served at a time, in order, and each gets one answer of its own: the   *)
(* text of the runtime's response to it, or an error without a text.  The    *)
(* promise is kept in full until a message may have been lost, which may     *)
(* have been the answer; and not at all once one was torn apart.             *)
EXTENDS Naturals, Sequences

VARIABLES
    submitted,   \* how many requests were accepted; they are named 1, 2, ...
    current,     \* the request being served, 0 when there is none
    answers,     \* the answers given, [to, body, mixed]; body 0 is an error
    promise      \* "prompt", "own" (an answer may fail to come), or "none"

svars == <<submitted, current, answers, promise>>

SInit == submitted = 0 /\ current = 0 /\ answers = <<>> /\ promise = "prompt"

Submit ==
    /\ current = 0
    /\ submitted' = submitted + 1
    /\ current' = submitted'
    /\ UNCHANGED <<answers, promise>>

Answer ==
    /\ current # 0
    /\ \E body \in {0, current} :
          answers' = Append(answers, [to |-> current, body |-> body, mixed |-> FALSE])
    /\ current' = 0
    /\ UNCHANGED <<submitted, promise>>

(* A client whose request was refused before it had a name; its answer is    *)
(* that of no request, and never comes between a request and its answer.     *)
TurnAway ==
    /\ current = 0
    /\ answers' = Append(answers, [to |-> 0, body |-> 0, mixed |-> FALSE])
    /\ UNCHANGED <<submitted, current, promise>>

Weaken == promise' \in {"own", "none"} /\ UNCHANGED <<submitted, current, answers>>

Kept == promise # "none" /\ (Submit \/ Answer \/ TurnAway \/ Weaken)
Void == promise = "none" /\ promise' = "none"

SNext == Kept \/ Void

(* As long as nothing is lost, a request that was accepted is answered. *)
Service == SInit /\ [][SNext]_svars /\ WF_svars(promise = "prompt" /\ Answer)

=============================================================================
