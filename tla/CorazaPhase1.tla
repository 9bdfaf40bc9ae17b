---------------------------- MODULE CorazaPhase1 ----------------------------
(***************************************************************************)
(* mod_coraza_phase1.c: the fixups hook coraza_post_read_request.  It      *)
(* finds or creates the transaction, feeds it the connection, the request  *)
(* line and the headers, attaches CORAZA_OUT, then reads, keeps and        *)
(* inspects the request body.  Each step is one engine call with the poll  *)
(* for an intervention that follows it.  Also the input filter that        *)
(* replays the kept body (mod_coraza_body_in.c), one unit at a time.       *)
(***************************************************************************)
EXTENDS CorazaCtx

(* Mutant: only the request_rec just before this one is looked at.         *)
CtxFromLastPrev == cur > 1 /\ reqs[cur - 1].hasCtx

(* The context of the nearest earlier request_rec that has one.            *)
coraza_ctx_from_prev == \E i \in 1..(cur - 1) : reqs[i].hasCtx

(* An engine or storage failure: refuse the request with a 500.            *)
FailClosed ==
    /\ ctx' = [ctx EXCEPT !.intervention_triggered = TRUE]
    /\ hist' = [hist EXCEPT !.denied = cur]
    /\ ReturnStatus(HTTP_INTERNAL_SERVER_ERROR)
    /\ UNCHANGED <<client, bb, conn>>

(* coraza_process_intervention(.., early_log = 1) found an intervention;   *)
(* coraza_enforce_intervention turns it into what the hook returns.  For a *)
(* drop that is DONE: no handler, no error page, only the logging.         *)
coraza_enforce_intervention(iv, c, e) ==
    /\ ctx' = CtxAfterIntervention(c, iv, TRUE)
    /\ engine' = EngineAfterIntervention(e, iv, TRUE)
    /\ hist' = [hist EXCEPT !.denied = cur]
    /\ \/ /\ IsDrop(iv)
          /\ coraza_drop_connection
          /\ reqs' = ThisRequest([req EXCEPT !.status = HTTP_FORBIDDEN])
          /\ pc' = "log"
          /\ wire' = wire
       \/ /\ ~IsDrop(iv)
          /\ ReturnStatus(EnforcedStatus(iv))
          /\ conn' = conn
    /\ UNCHANGED <<client, bb>>

Intervenes(c, e) ==
    \E iv \in Interventions : coraza_enforce_intervention(iv, c, e)

Ran(e, phase) == [e EXCEPT !.ran[phase] = @ + 1]

Proceed(next) ==
    /\ pc' = next
    /\ UNCHANGED <<client, ctx, bb, conn, wire, hist>>

---------------------------------------------------------------------------
(* The guards of the hook: Coraza Off, or an internal redirect of an       *)
(* inspected request, which shares its transaction and gets CORAZA_OUT.    *)
Declined ==
    /\ pc = "fixups"
    /\ ~req.enable
    /\ Proceed("handler")
    /\ UNCHANGED <<reqs, body, engine>>

(* Mutant: the redirected request is left without the output filter.       *)
ReuseWithoutFilter ==
    /\ pc = "fixups"
    /\ req.enable
    /\ coraza_ctx_from_prev
    /\ reqs' = ThisRequest([req EXCEPT !.hasCtx = TRUE])
    /\ Proceed("handler")
    /\ UNCHANGED <<body, engine>>

ReuseTransaction ==
    /\ pc = "fixups"
    /\ req.enable
    /\ coraza_ctx_from_prev
    /\ reqs' = ThisRequest([req EXCEPT !.hasCtx = TRUE, !.outFilter = TRUE])
    /\ Proceed("handler")
    /\ UNCHANGED <<body, engine>>

(* coraza_create_ctx returns NULL (no WAF, or no transaction): 500.        *)
CreateCtx ==
    /\ pc = "fixups"
    /\ req.enable
    /\ ~coraza_ctx_from_prev
    /\ \/ /\ coraza_create_ctx
          /\ pc' = "connection"
          /\ wire' = wire
       \/ /\ ReturnStatus(HTTP_INTERNAL_SERVER_ERROR)
          /\ UNCHANGED <<ctx, engine>>
    /\ UNCHANGED <<client, body, bb, conn, hist>>

ProcessConnection ==
    /\ pc = "connection"
    /\ \/ FailClosed /\ engine' = engine
       \/ Intervenes(ctx, engine)
       \/ Proceed("uri") /\ UNCHANGED <<reqs, engine>>
    /\ body' = body

ProcessUri ==
    /\ pc = "uri"
    /\ \/ FailClosed /\ engine' = engine
       \/ Intervenes(ctx, engine)
       \/ Proceed("headers") /\ UNCHANGED <<reqs, engine>>
    /\ body' = body

(* The headers go to the engine in one batch or one by one (any failure    *)
(* of the second way fails closed); then phase 1 is evaluated.             *)
ProcessHeaders ==
    /\ pc = "headers"
    /\ \/ FailClosed /\ engine' = engine
       \/ Intervenes(ctx, Ran(engine, 1))
       \/ /\ Proceed("setup")
          /\ engine' = Ran(engine, 1)
          /\ reqs' = ThisRequest([req EXCEPT !.outFilter = TRUE])
    /\ body' = body

---------------------------------------------------------------------------
(* Mutant: a read of zero bytes is taken for a chunk (nread >= 0).         *)
ZeroIsMore == body.read <= body.sent

MoreBody == body.read < body.sent

(* ap_setup_client_block refuses the body; ap_should_client_block tells    *)
(* whether one is announced, which may turn out empty (chunked).           *)
SetupClientBlock ==
    /\ pc = "setup"
    /\ \/ /\ ReturnStatus(HTTP_BAD_REQUEST)
          /\ UNCHANGED <<client, ctx, body, bb, conn, hist>>
       \/ \E access \in BOOLEAN :
            /\ body' = [body EXCEPT !.inspect = access]
            /\ Proceed("read")
            /\ reqs' = reqs
       \/ /\ ~MoreBody
          /\ Proceed("finish")
          /\ UNCHANGED <<reqs, body>>
    /\ engine' = engine

(* Mutant: a body the engine does not look at is not kept either.          *)
KeepInspectedOnly ==
    [body EXCEPT !.read = @ + 1,
                 !.saved = IF body.inspect THEN Append(@, body.read + 1) ELSE @]

KeepChunk == [body EXCEPT !.read = @ + 1, !.saved = Append(@, body.read + 1)]

(* One ap_get_client_block: a chunk is kept for the replay, then submitted *)
(* to the engine when SecRequestBodyAccess is on.                          *)
ReadChunk ==
    LET kept == KeepChunk
        submitted == [kept EXCEPT !.submitted = @ \cup {body.read + 1}]
    IN
    /\ pc = "read"
    /\ MoreBody
    /\ \/ /\ FailClosed                                \* brigade, spool file
          /\ body' = [body EXCEPT !.read = @ + 1]
          /\ engine' = engine
       \/ /\ body.inspect
          /\ FailClosed                                \* the engine refuses it
          /\ body' = kept
          /\ engine' = engine
       \/ body.inspect /\ Intervenes(ctx, engine) /\ body' = submitted
       \/ /\ Proceed("read")
          /\ body' = IF body.inspect THEN submitted ELSE kept
          /\ UNCHANGED <<reqs, engine>>

(* Mutant: a failed read is taken for the end of the body.                 *)
ReadErrorIgnored ==
    /\ pc = "read"
    /\ reqs' = ThisRequest([req EXCEPT !.inFilter = TRUE])
    /\ Proceed("finish")
    /\ UNCHANGED <<body, engine>>

(* ap_get_client_block returns -1: a 400 that is no denial.                *)
ReadError ==
    /\ pc = "read"
    /\ ReturnStatus(HTTP_BAD_REQUEST)
    /\ UNCHANGED <<client, ctx, body, bb, conn, engine, hist>>

(* End of the body: the replay gets its EOS and CORAZA_IN is attached.     *)
EndOfBody ==
    /\ pc = "read"
    /\ ~MoreBody
    /\ reqs' = ThisRequest([req EXCEPT !.inFilter = TRUE])
    /\ Proceed("finish")
    /\ UNCHANGED <<body, engine>>

(* coraza_process_request_body, with or without a body.                    *)
ProcessRequestBody ==
    LET done == [ctx EXCEPT !.phase2_done = TRUE] IN
    /\ pc = "finish"
    /\ \/ FailClosed /\ engine' = engine
       \/ Intervenes(done, Ran(engine, 2))
       \/ /\ ctx' = done
          /\ engine' = Ran(engine, 2)
          /\ pc' = "handler"
          /\ UNCHANGED <<client, reqs, bb, conn, wire, hist>>
    /\ body' = body

---------------------------------------------------------------------------
(* The handler reads its input.  coraza_input_filter replays the kept      *)
(* body, then lets the connection answer; without the filter the handler   *)
(* reads the connection, where what the hook consumed is gone.             *)
coraza_input_filter ==
    LET replays == req.inFilter /\ ~ctx.intervention_triggered IN
    \/ /\ replays
       /\ body.saved # <<>>
       /\ body' = [body EXCEPT !.app = Append(@, Head(body.saved)),
                              !.saved = Tail(@)]
    \/ /\ ~(replays /\ body.saved # <<>>)
       /\ body.read < body.sent
       /\ body' = [body EXCEPT !.app = Append(@, body.read + 1),
                              !.read = @ + 1]
    \/ /\ ~(replays /\ body.saved # <<>>)
       /\ body.read = body.sent
       /\ body' = [body EXCEPT !.eof = cur]
=============================================================================
