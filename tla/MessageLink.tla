----------------------------- MODULE MessageLink ----------------------------
(* What a message link promises: messages come out whole, in the order they  *)
(* went in and none of them twice.  An exact link delivers every one in the  *)
(* end; one that turned lossy may skip some.                                 *)
EXTENDS Naturals, Sequences

VARIABLES
    sent,   \* how many messages went in; they are named 1, 2, ...
    got,    \* the messages that came out
    exact   \* whether the link may not skip any

lvars == <<sent, got, exact>>

Newest == IF got = <<>> THEN 0 ELSE got[Len(got)]

LInit == sent = 0 /\ got = <<>> /\ exact \in BOOLEAN

Accept == sent' = sent + 1 /\ UNCHANGED <<got, exact>>

Deliver ==
    /\ \E m \in Newest + 1 .. (IF exact THEN Newest + 1 ELSE sent) :
          m <= sent /\ got' = Append(got, m)
    /\ UNCHANGED <<sent, exact>>

TurnLossy == exact' = FALSE /\ UNCHANGED <<sent, got>>

Link == LInit /\ [][Accept \/ Deliver \/ TurnLossy]_lvars

Promise == Link /\ WF_lvars(exact /\ Deliver)

=============================================================================
