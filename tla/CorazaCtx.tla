----------------------------- MODULE CorazaCtx -----------------------------
(***************************************************************************)
(* What the hooks and filters of one client request share: the request_rec *)
(* chain, the per-request context of mod_coraza.h, the connection, and     *)
(* what has reached the client and the engine.  The operators are the      *)
(* functions of mod_coraza.c that every phase calls, and the few httpd     *)
(* services (ap_die, the internal redirect, the filters below CORAZA_OUT)  *)
(* they rely on.                                                           *)
(*                                                                         *)
(* One request is served by one thread, so one variable pc says which      *)
(* piece of code runs next.  The request being served is the last of reqs: *)
(* an internal redirect appends a request_rec whose prev is the one before *)
(* it, and nothing that runs after the nested request returns can reach    *)
(* the client or the engine any more, except the logging of reqs[1].       *)
(***************************************************************************)
EXTENDS Integers, Sequences

CONSTANTS
    Interventions,   \* what the rules may decide: records [action, status]
    HandlerErrors,   \* statuses a handler or another module may return
    MaxReqs,         \* bound: request_recs in one redirect chain
    MaxChunks,       \* bound: data buckets one handler passes
    MaxBody,         \* bound: chunks of the request body
    MaxDelayedBody,  \* CORAZA_MAX_DELAYED_BODY, in buckets
    LateErrors       \* may a response break after its first bytes?

HTTP_OK == 200
HTTP_BAD_REQUEST == 400
HTTP_FORBIDDEN == 403
HTTP_INTERNAL_SERVER_ERROR == 500
HTTP_BAD_GATEWAY == 502

ASSUME InterventionsAssumption ==
    Interventions \subseteq [action : STRING, status : Nat]
ASSUME HandlerErrorsAssumption == HandlerErrors \subseteq 400..599
ASSUME BoundsAssumption ==
    /\ MaxReqs \in Nat \ {0}
    /\ MaxChunks \in Nat
    /\ MaxBody \in Nat
    /\ MaxDelayedBody \in Nat
ASSUME LateErrorsAssumption == LateErrors \in BOOLEAN

VARIABLES
    pc,      \* the piece of code that runs next
    client,  \* what the client asked for: [header_only]
    reqs,    \* the request_rec chain, reqs[i].prev being reqs[i - 1]
    ctx,     \* the coraza_request_ctx_t of the request
    body,    \* the request body on its way from the client to the handler
    bb,      \* the brigade the output filter is working on
    conn,    \* the conn_rec fields coraza_drop_connection sets
    wire,    \* what the client has received
    engine,  \* what libcoraza has been asked to do
    hist     \* how the response left the filter, and which request was denied

vars == <<pc, client, reqs, ctx, body, bb, conn, wire, engine, hist>>

---------------------------------------------------------------------------
cur == Len(reqs)
req == reqs[cur]

(* A request_rec with the status it inherits from the one it replaces, and *)
(* the index of the request_rec where the error being handled began: what  *)
(* ap_die finds by walking back from it over prev->status # HTTP_OK.       *)
NewRequest(on, status, first) ==
    [enable |-> on, hasCtx |-> FALSE, inFilter |-> FALSE, outFilter |-> FALSE,
     status |-> status, first |-> first, passed |-> 0, eos_sent |-> FALSE]

(* What apr_pcalloc leaves in a new coraza_request_ctx_t.                  *)
FreshCtx ==
    [transaction |-> FALSE, headers_delayed |-> FALSE, pending |-> <<>>,
     pending_len |-> 0, phase2_done |-> FALSE, phase3_done |-> FALSE,
     phase4_done |-> FALSE, logged |-> FALSE, intervention_triggered |-> FALSE,
     response_body_processable |-> FALSE, drop_connection |-> FALSE]

EmptyBrigade == [todo |-> <<>>, done |-> <<>>, eos |-> FALSE, err |-> FALSE]

(* The engine keeps the status it was told to record, how often each phase *)
(* was evaluated, the response chunks it was given and its audit entries.  *)
FreshEngine ==
    [txs |-> 0, status |-> 0, ran |-> [p \in 1..4 |-> 0], seen |-> <<>>,
     headersOf |-> 0, enforced |-> 0, audit |-> <<>>]

ThisRequest(f) == [reqs EXCEPT ![cur] = f]

---------------------------------------------------------------------------
(* The filters below CORAZA_OUT: the first brigade sends the status line   *)
(* of the request_rec, a HEAD response has no body, and the core filter    *)
(* drops everything once the connection is aborted.                        *)
Sent(i, status, data) ==
    IF conn.aborted THEN wire
    ELSE [hdr    |-> IF wire.hdr = 0 THEN i ELSE wire.hdr,
          status |-> IF wire.hdr = 0 THEN status ELSE wire.status,
          body   |-> IF client.header_only THEN wire.body
                     ELSE wire.body \o data]

(* ap_internal_redirect: a new request_rec in any scope, with the status   *)
(* of the old one and without its content-level filters.                   *)
InternalRedirect(rs) ==
    /\ Len(rs) < MaxReqs
    /\ LET last == rs[Len(rs)]
           first == IF last.status = HTTP_OK THEN Len(rs) + 1 ELSE last.first
       IN  \E on \in BOOLEAN : reqs' = Append(rs, NewRequest(on, last.status, first))
    /\ pc' = "fixups"
    /\ wire' = wire

Page(i) == <<[req |-> i, n |-> 0]>>

(* ap_send_error_response: the canned page, past every content filter.     *)
SendErrorResponse(i, rs) ==
    /\ reqs' = [rs EXCEPT ![Len(rs)].outFilter = FALSE,
                          ![Len(rs)].eos_sent = TRUE]
    /\ wire' = Sent(i, rs[i].status, Page(i))
    /\ pc' = "log"

(* ap_die(type) with the error already being handled (HTTP_OK: none).  The *)
(* first error may have an ErrorDocument; a second one gets the canned     *)
(* page of the first.                                                      *)
ap_die(type, recursive_error, rs) ==
    LET dead == [rs EXCEPT ![Len(rs)].status = type] IN
    \/ recursive_error = HTTP_OK /\ InternalRedirect(dead)
    \/ SendErrorResponse(IF recursive_error = HTTP_OK THEN Len(rs)
                         ELSE rs[Len(rs)].first, dead)

(* httpd calls ap_die for what a hook or handler returns: with HTTP_OK for *)
(* the request the client sent, with the inherited status for a redirected *)
(* one.                                                                    *)
ReturnStatus(type) ==
    ap_die(type, IF cur = 1 THEN HTTP_OK ELSE req.status, reqs)

(* ap_pass_brigade to the next filter.  An error bucket that reaches the   *)
(* header filter before the status line is sent becomes ap_die().          *)
PassBrigade(err, data, rs, next) ==
    IF err /\ wire.hdr = 0 /\ ~conn.aborted
    THEN ap_die(HTTP_BAD_GATEWAY, rs[Len(rs)].status, rs)
    ELSE /\ wire' = Sent(Len(rs), rs[Len(rs)].status, data)
         /\ reqs' = rs
         /\ pc' = next

---------------------------------------------------------------------------
(* coraza_process_intervention: the decision.                              *)
IsDrop(iv) == iv.action = "drop" \/ iv.status = 444

EnforcedStatus(iv) ==
    IF IsDrop(iv) \/ (iv.status < 300 /\ iv.status \notin {201, 204})
    THEN HTTP_FORBIDDEN
    ELSE iv.status

(* Mutant: the audit entry is written whether or not there is one.         *)
LogsAgain(r, c) == r.enable /\ r.hasCtx

(* coraza_log_transaction(r): its guards, and the phase 5 call.            *)
Logs(r, c) == r.enable /\ r.hasCtx /\ ~c.logged

coraza_process_logging(e) == [e EXCEPT !.audit = Append(@, e.status)]

(* Mutant: the early audit entry comes before the status it should record. *)
EngineLogsFirst(e0, iv, early) ==
    LET e == IF early /\ Logs(req, ctx) THEN coraza_process_logging(e0) ELSE e0
    IN  [e EXCEPT !.status = EnforcedStatus(iv), !.enforced = @ + 1]

(* Mutant: the denial is enforced but not remembered.                      *)
CtxForgetsDenial(c, iv, early) ==
    [c EXCEPT !.drop_connection = @ \/ IsDrop(iv), !.logged = @ \/ early]

(* coraza_process_intervention: its effect on the engine (the status to    *)
(* record comes before the early audit entry) and on the context.          *)
EngineAfterIntervention(e0, iv, early) ==
    LET e == [e0 EXCEPT !.status = EnforcedStatus(iv), !.enforced = @ + 1]
    IN  IF early /\ Logs(req, ctx) THEN coraza_process_logging(e) ELSE e

CtxAfterIntervention(c, iv, early) ==
    [c EXCEPT !.drop_connection = @ \/ IsDrop(iv),
                !.logged = @ \/ early,
                !.intervention_triggered = TRUE]

(* Mutant: only the keep-alive is turned off.                              *)
CloseWithoutAbort == conn' = [keepalive |-> "close", aborted |-> FALSE]

coraza_drop_connection == conn' = [keepalive |-> "close", aborted |-> TRUE]

---------------------------------------------------------------------------
(* coraza_create_ctx, once a WAF has been found for the request.           *)
coraza_create_ctx ==
    /\ ctx' = [FreshCtx EXCEPT !.transaction = TRUE]
    /\ engine' = [engine EXCEPT !.txs = @ + 1]
    /\ reqs' = ThisRequest([req EXCEPT !.hasCtx = TRUE])

(* coraza_log_transaction for the request the client sent, then the        *)
(* destruction of the request pool (coraza_cleanup_transaction).           *)
coraza_log_transaction ==
    /\ pc = "log"
    /\ engine' = IF Logs(reqs[1], ctx) THEN coraza_process_logging(engine)
                 ELSE engine
    /\ ctx' = [ctx EXCEPT !.logged = @ \/ Logs(reqs[1], ctx),
                          !.transaction = FALSE]
    /\ pc' = "done"
    /\ UNCHANGED <<client, reqs, body, bb, conn, wire, hist>>
=============================================================================
