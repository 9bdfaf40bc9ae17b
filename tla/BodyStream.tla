----------------------------- MODULE BodyStream -----------------------------
(***************************************************************************)
(* What the module promises the handler about the request body: it reads   *)
(* the body it was sent, once and in order, then its end; a read that      *)
(* consumes nothing shows what comes next; and nothing of the body is read *)
(* once the request is refused, whether before the handler runs or when    *)
(* its response is denied: the end it sees then may come early.            *)
(***************************************************************************)
EXTENDS Integers, Sequences

CONSTANT Bodies   \* the bodies a client may send

VARIABLES
    sent,     \* the body of the request
    got,      \* what the handler has read
    ended,    \* the handler has seen the end of the body
    shown,    \* what the last speculative read showed
    refused   \* the request was denied, or failed in the hook

vars == <<sent, got, ended, shown, refused>>

Init ==
    /\ sent \in Bodies
    /\ got = <<>>
    /\ ended = FALSE
    /\ shown = <<>>
    /\ refused = FALSE

(* The end may come with the last bytes or by itself.                      *)
Read ==
    /\ ~refused
    /\ \E n \in Len(got) .. Len(sent) :
         /\ got' = SubSeq(sent, 1, n)
         /\ ended' \in {ended, n = Len(sent)}
         /\ ended => ended'
    /\ UNCHANGED <<sent, shown, refused>>

Peek ==
    /\ ~refused
    /\ \E n \in Len(got) .. Len(sent) : shown' = SubSeq(sent, Len(got) + 1, n)
    /\ UNCHANGED <<sent, got, ended, refused>>

Refuse ==
    /\ refused' = TRUE
    /\ UNCHANGED <<sent, got, ended, shown>>

(* Whoever still reads is told that nothing more comes.                    *)
CutOff ==
    /\ refused
    /\ ended' = TRUE
    /\ UNCHANGED <<sent, got, shown, refused>>

Next == Read \/ Peek \/ Refuse \/ CutOff

Spec == Init /\ [][Next]_vars
=============================================================================
