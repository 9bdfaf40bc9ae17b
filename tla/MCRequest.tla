----------------------------- MODULE MCRequest -----------------------------
(* Small instances of CorazaRequest for TLC.                               *)
EXTENDS CorazaRequest

(* A bare drop, a drop in nginx's spelling, a deny that asks for a success *)
(* status, and a redirect.                                                 *)
MCInterventions ==
    {[action |-> "drop", status |-> 0], [action |-> "deny", status |-> 444],
     [action |-> "deny", status |-> 200], [action |-> "redirect", status |-> 302]}

MCHandlerErrors == {404}
=============================================================================
