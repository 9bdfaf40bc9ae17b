--------------------------- MODULE CorazaRequest ---------------------------
(***************************************************************************)
(* One client request from the first fixups hook to the destruction of its *)
(* pool: the module's hooks and filters (CorazaPhase1, CorazaFilterOut)    *)
(* driven by httpd and a content handler, which are not in this repository *)
(* and may do whatever their interfaces allow: pass any brigades, set an   *)
(* error status, fail, or redirect internally.                             *)
(***************************************************************************)
EXTENDS CorazaFilterOut

Init ==
    /\ pc = "fixups"
    /\ client \in [header_only : BOOLEAN]
    /\ \E on \in BOOLEAN : reqs = <<NewRequest(on, HTTP_OK, 1)>>
    /\ ctx = FreshCtx
    /\ \E sent \in 0..MaxBody :
         body = [sent |-> sent, read |-> 0, inspect |-> FALSE, submitted |-> {},
                 saved |-> <<>>, app |-> <<>>, eof |-> 0]
    /\ bb = EmptyBrigade
    /\ conn = [keepalive |-> "unknown", aborted |-> FALSE]
    /\ wire = [hdr |-> 0, status |-> 0, body |-> <<>>]
    /\ engine = FreshEngine
    /\ hist = [route |-> "none", denied |-> 0]

---------------------------------------------------------------------------
(* A hook that runs before fixups (access, authentication) refuses.        *)
EarlierHookFails ==
    /\ pc = "fixups"
    /\ \E status \in HandlerErrors : ReturnStatus(status)
    /\ UNCHANGED <<client, ctx, body, bb, conn, engine, hist>>

HandlerReads ==
    /\ pc = "handler"
    /\ req.status = HTTP_OK
    /\ req.passed = 0
    /\ body.eof # cur
    /\ coraza_input_filter
    /\ UNCHANGED <<pc, client, reqs, ctx, bb, conn, wire, engine, hist>>

(* The handler chooses an error status for the response it will generate.  *)
HandlerSetsStatus ==
    /\ pc = "handler"
    /\ req.status = HTTP_OK
    /\ req.passed = 0
    /\ \E status \in HandlerErrors :
         reqs' = ThisRequest([req EXCEPT !.status = status])
    /\ UNCHANGED <<pc, client, ctx, body, bb, conn, wire, engine, hist>>

(* The handler passes k more data buckets, the last ones with the EOS.  An *)
(* upstream that breaks (mod_proxy) puts an error bucket before the EOS.   *)
HandlerPasses ==
    /\ pc = "handler"
    /\ \E k \in 0..(MaxChunks - req.passed), eos, err \in BOOLEAN :
         LET data == [i \in 1..k |-> [req |-> cur, n |-> req.passed + i]]
             rs == ThisRequest([req EXCEPT !.passed = @ + k, !.eos_sent = eos])
         IN
         /\ k > 0 \/ eos
         /\ err => LateErrors /\ eos
         /\ \/ /\ req.outFilter
               /\ bb' = [EmptyBrigade EXCEPT !.todo = data, !.eos = eos, !.err = err]
               /\ reqs' = rs
               /\ pc' = "filter"
               /\ wire' = wire
            \/ /\ ~req.outFilter
               /\ PassBrigade(err, data, rs, IF eos THEN "log" ELSE "handler")
               /\ bb' = bb
    /\ UNCHANGED <<client, ctx, body, conn, engine, hist>>

(* The handler returns an error status, before it has passed any output    *)
(* or, when LateErrors, after.                                             *)
HandlerFails ==
    /\ pc = "handler"
    /\ req.passed = 0 \/ LateErrors
    /\ \E status \in HandlerErrors : ReturnStatus(status)
    /\ UNCHANGED <<client, ctx, body, bb, conn, engine, hist>>

(* The handler is an internal redirect (mod_rewrite in a directory).       *)
HandlerRedirects ==
    /\ pc = "handler"
    /\ req.passed = 0
    /\ InternalRedirect(reqs)
    /\ UNCHANGED <<client, ctx, body, bb, conn, engine, hist>>

(* The output filter returned an error.  The handler returns OK, and httpd *)
(* passes an EOS if none was passed yet; or it returns the filter error,   *)
(* and httpd serves a 500 if the status line has not been sent.            *)
HandlerStops ==
    /\ pc = "filter_error"
    /\ \/ /\ wire' = IF req.eos_sent THEN wire ELSE Sent(cur, req.status, <<>>)
          /\ pc' = "log"
          /\ reqs' = reqs
       \/ /\ wire.hdr = 0
          /\ ReturnStatus(HTTP_INTERNAL_SERVER_ERROR)
       \/ /\ wire.hdr # 0
          /\ pc' = "log"
          /\ UNCHANGED <<reqs, wire>>
    /\ UNCHANGED <<client, ctx, body, bb, conn, engine, hist>>

Done == pc = "done" /\ UNCHANGED vars

Fixups ==
    \/ Declined \/ ReuseTransaction \/ CreateCtx
    \/ ProcessConnection \/ ProcessUri \/ ProcessHeaders
    \/ SetupClientBlock \/ ReadChunk \/ ReadError \/ EndOfBody
    \/ ProcessRequestBody

OutputFilter ==
    \/ FilterStepsAside \/ FilterReenters
    \/ ProcessResponseHeaders \/ ResponseHeadersFail
    \/ FinalizeUninspected \/ StreamSse \/ BeginDelay
    \/ FlushAtCap \/ InspectBucket \/ BucketFails
    \/ ProcessResponseBody \/ EndOfBrigade

Handler ==
    \/ EarlierHookFails \/ HandlerReads \/ HandlerSetsStatus \/ HandlerPasses
    \/ HandlerFails \/ HandlerRedirects \/ HandlerStops

Next == Fixups \/ OutputFilter \/ Handler \/ coraza_log_transaction \/ Done

Spec == Init /\ [][Next]_vars /\ WF_vars(Next)

---------------------------------------------------------------------------
Requests ==
    [enable : BOOLEAN, hasCtx : BOOLEAN, inFilter : BOOLEAN, outFilter : BOOLEAN,
     status : Nat, first : 1..MaxReqs, passed : 0..MaxChunks, eos_sent : BOOLEAN]

Buckets == [req : 1..MaxReqs, n : 0..MaxChunks]

Contexts ==
    [transaction : BOOLEAN, headers_delayed : BOOLEAN, pending : Seq(Buckets),
     pending_len : Nat, phase2_done : BOOLEAN, phase3_done : BOOLEAN,
     phase4_done : BOOLEAN, logged : BOOLEAN, intervention_triggered : BOOLEAN,
     response_body_processable : BOOLEAN, drop_connection : BOOLEAN]

Bodies ==
    [sent : 0..MaxBody, read : 0..MaxBody, inspect : BOOLEAN,
     submitted : SUBSET (1..MaxBody), saved : Seq(1..MaxBody),
     app : Seq(1..MaxBody), eof : 0..MaxReqs]

Engines ==
    [txs : Nat, status : Nat, ran : [1..4 -> Nat], seen : Seq(Buckets),
     headersOf : 0..MaxReqs, enforced : Nat, audit : Seq(Nat)]

PCs == {"fixups", "connection", "uri", "headers", "setup", "read", "finish",
        "handler", "filter", "phase4", "delay", "loop", "filter_error",
        "log", "done"}

(* The type of every variable.                                             *)
TypeOK ==
    /\ pc \in PCs
    /\ client \in [header_only : BOOLEAN]
    /\ reqs \in Seq(Requests) /\ Len(reqs) \in 1..MaxReqs
    /\ \A i \in 1..Len(reqs) : reqs[i].first <= i
    /\ ctx \in Contexts
    /\ body \in Bodies /\ body.read <= body.sent
    /\ bb \in [todo : Seq(Buckets), done : Seq(Buckets), eos : BOOLEAN, err : BOOLEAN]
    /\ conn \in [keepalive : {"unknown", "close"}, aborted : BOOLEAN]
    /\ wire \in [hdr : 0..MaxReqs, status : Nat, body : Seq(Buckets)]
    /\ engine \in Engines
    /\ hist \in [route : {"none", "held", "nodelay", "uninspected", "sse", "cap"},
                 denied : 0..MaxReqs]

---------------------------------------------------------------------------
(* One client request is one transaction, however many internal redirects  *)
(* it goes through and wherever Coraza is on or off along the chain        *)
(* (coraza_ctx_from_prev, phase1.c:131-149).                               *)
OneTransaction == engine.txs <= 1

(* No handler runs for an inspected request before phases 1 and 2 have     *)
(* been evaluated on all of it: the whole body has been taken from the     *)
(* connection and, when body access is on, every chunk the handler will be *)
(* given was submitted to the engine (coraza_post_read_request).           *)
HandlerSeesInspectedRequest ==
    pc = "handler" /\ req.hasCtx /\ req.status = HTTP_OK =>
        /\ ctx.phase2_done
        /\ ~ctx.intervention_triggered
        /\ body.read = body.sent
        /\ body.inspect =>
             \A i \in DOMAIN body.saved : body.saved[i] \in body.submitted

(* A transaction that has denied is never denied again, so serving its own *)
(* error page cannot loop (phase1.c:137-139, the guard of the filter).     *)
NoSecondDeny == engine.enforced <= 1

(* Once the request or its response is denied or failed closed, no byte of *)
(* the denied response is on the wire, except when the response was never  *)
(* held back (HEAD, or an error status), where it may be cut short.        *)
DeniedBodyWithheld ==
    hist.denied # 0 /\ hist.route # "nodelay" =>
        \A i \in DOMAIN wire.body :
            wire.body[i].n = 0 \/ wire.body[i].req > hist.denied

(* A held response is released only after the engine was given every one   *)
(* of its bytes and evaluated phase 4 on them (coraza_output_filter).      *)
ReleasedAfterInspection ==
    hist.route = "held" =>
        \A i \in DOMAIN wire.body :
            wire.body[i].n > 0 /\ wire.body[i].req = engine.headersOf =>
                /\ engine.ran[4] = 1
                /\ \E j \in DOMAIN engine.seen : engine.seen[j] = wire.body[i]

(* What the client receives is one response: a prefix of what one handler  *)
(* generated, in order and without gaps, under the status line of that     *)
(* request, or one canned page.                                            *)
WireIsOneResponse ==
    \/ wire.body = Page(wire.hdr)
    \/ \A i \in DOMAIN wire.body : wire.body[i] = [req |-> wire.hdr, n |-> i]

(* A response that was not denied reaches the client completely: nothing   *)
(* stays behind in the pending brigade.                                    *)
CompleteDelivery ==
    pc = "done" /\ hist.denied = 0 =>
        /\ wire.hdr # 0
        /\ \/ client.header_only
           \/ wire.body = Page(wire.hdr)
           \/ Len(wire.body) = reqs[wire.hdr].passed

(* Every request is answered, dropped on purpose, or cut short because its *)
(* response was not held back.                                             *)
AnsweredOrDropped ==
    pc = "done" => wire.hdr # 0 \/ conn.aborted \/ hist.route = "nodelay"

(* A drop puts nothing on the wire, not even a status line, unless the     *)
(* response was already streaming (coraza_drop_connection).                *)
DropIsSilent ==
    ctx.drop_connection =>
        /\ conn = [keepalive |-> "close", aborted |-> TRUE]
        /\ wire.hdr = 0 \/ hist.route = "nodelay"

(* The client of a denied request sees the enforced status.  When an error *)
(* was being handled already, httpd reports that one instead if the hook   *)
(* denies its ErrorDocument, or if the error page of the denial fails in   *)
(* turn; a denial in the filter is always a first error (coraza_die).      *)
DenyStatusServed ==
    pc = "done" /\ engine.enforced = 1 /\ ~conn.aborted /\ hist.route # "nodelay" =>
        \/ wire.status = engine.status
        \/ /\ ~ctx.phase3_done \/ cur > hist.denied
           /\ \E i \in 1..(hist.denied - 1) : wire.status = reqs[i].status

(* The transaction of the request the client sent has exactly one audit    *)
(* entry when the request is over, early or late (ctx->logged).            *)
OneAuditEntry ==
    /\ Len(engine.audit) <= 1
    /\ pc = "done" /\ reqs[1].hasCtx => Len(engine.audit) = 1

(* The audit entry of a denied transaction carries the enforced status:    *)
(* coraza_update_status_code comes before the early log.                   *)
AuditShowsDenial ==
    engine.enforced = 1 /\ engine.audit # <<>> => engine.audit[1] = engine.status

(* Phase 5 is the last thing a transaction does: nothing is submitted to   *)
(* the engine, evaluated or enforced once the audit entry is written.      *)
NothingAfterLogging == [][engine.audit = <<>>]_engine

(* The rules of each phase are evaluated at most once, in order.           *)
PhasesOnceInOrder ==
    /\ \A p \in 1..4 : engine.ran[p] <= 1
    /\ engine.ran[2] <= engine.ran[1]
    /\ engine.ran[4] <= engine.ran[3]

(* A response that the handler of an inspected request generated has been  *)
(* through phase 3, also after an internal redirect.                       *)
ServedResponseInspected ==
    wire.hdr # 0 /\ hist.denied = 0 =>
        (reqs[wire.hdr].hasCtx /\ reqs[wire.hdr].passed > 0
            => engine.headersOf = wire.hdr)

(* The handler of the request whose body the hook read gets that body, once *)
(* and in order, before it sees the end of its input (CORAZA_IN).          *)
BodyReplayed ==
    body.eof # 0 =>
        (reqs[body.eof].inFilter => body.app = [i \in 1..body.sent |-> i])

(* Every request runs to its end: its audit entry is written and its       *)
(* transaction is freed.                                                   *)
Terminates == <>(pc = "done" /\ ~ctx.transaction)

---------------------------------------------------------------------------
(* phase1.c:339-340: "the application behind the WAF receives the body it  *)
(* was sent", whichever request_rec of an inspected chain serves it.       *)
BodyReachesHandler ==
    body.eof # 0 =>
        (reqs[body.eof].hasCtx => body.app = [i \in 1..body.sent |-> i])

(* filter_out.c:80-83: a response that is not delayed when the filter      *)
(* fails closed has its headers "already on the wire".                     *)
HeadersOnWireUnlessDelayed ==
    pc = "filter_error" /\ engine.enforced = 0 => wire.hdr # 0

(* README.md:191-195: an internal redirect reuses the transaction and      *)
(* "there is one audit entry".                                             *)
EveryTransactionAudited ==
    pc = "done" /\ engine.txs > 0 /\ hist.denied = 0 => Len(engine.audit) = 1
---------------------------------------------------------------------------
(* The inductive invariant behind OneTransaction, NoSecondDeny, the audit  *)
(* properties and HandlerSeesInspectedRequest (CorazaRequestProofs).       *)

(* Some request_rec of the chain has the context.                          *)
Inspected == \E i \in 1..Len(reqs) : reqs[i].hasCtx

(* The control points at which the engine can report an intervention.      *)
HookPCs == {"connection", "uri", "headers", "setup", "read", "finish"}
FilterPCs == {"phase4", "delay", "loop"}

(* The context is shared along the chain, only where Coraza is on.         *)
ChainInv ==
    /\ \A i \in 1..Len(reqs) :
         /\ reqs[i].hasCtx => reqs[i].enable
         /\ reqs[i].outFilter => reqs[i].hasCtx
    /\ pc = "fixups" => ~req.hasCtx
    /\ pc \in HookPCs \cup FilterPCs \cup {"filter"} => req.hasCtx

(* One transaction for the chain, created with a clean record.             *)
TransactionInv ==
    /\ Inspected => engine.txs = 1
    /\ ~Inspected => /\ engine.txs = 0
                     /\ engine.enforced = 0
                     /\ engine.audit = <<>>
                     /\ body.saved = <<>>
                     /\ ~ctx.logged
                     /\ ~ctx.intervention_triggered

(* Where an intervention can be found, none has been yet.                  *)
DenyInv ==
    /\ engine.enforced \in {0, 1}
    /\ engine.enforced = 1 => ctx.intervention_triggered
    /\ pc \in HookPCs \cup FilterPCs => ~ctx.intervention_triggered

(* ctx->logged says whether the audit entry has been written.              *)
LogInv ==
    /\ ~ctx.logged => engine.audit = <<>>
    /\ ctx.logged => /\ Len(engine.audit) = 1
                     /\ ctx.intervention_triggered \/ pc = "done"
                     /\ engine.enforced = 1 => engine.audit[1] = engine.status
    /\ pc = "done" /\ reqs[1].hasCtx => ctx.logged

SavedIsSubmitted ==
    body.inspect => \A i \in 1..Len(body.saved) : body.saved[i] \in body.submitted

(* A request that is still being served normally has been inspected whole. *)
BodyInv ==
    /\ pc \in {"connection", "uri", "headers", "setup"} => body.saved = <<>>
    /\ pc \in {"read", "finish"} => SavedIsSubmitted
    /\ pc = "finish" => body.read = body.sent
    /\ pc \in {"fixups", "handler", "filter"} \cup FilterPCs =>
         (Inspected /\ req.status = HTTP_OK =>
            /\ ctx.phase2_done
            /\ ~ctx.intervention_triggered
            /\ body.read = body.sent
            /\ SavedIsSubmitted)

IInv == ChainInv /\ TransactionInv /\ DenyInv /\ LogInv /\ BodyInv
=============================================================================
