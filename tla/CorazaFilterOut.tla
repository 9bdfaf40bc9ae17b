-------------------------- MODULE CorazaFilterOut --------------------------
(***************************************************************************)
(* mod_coraza_filter_out.c: the output filter CORAZA_OUT, phases 3 and 4.  *)
(* The handler hands it one brigade after another (bb); the filter         *)
(* evaluates phase 3 on the first, holds the response back while it feeds  *)
(* the body to the engine, and releases it once phase 4 is clean.  A       *)
(* brigade is worked through bucket by bucket: bb.todo is still to be      *)
(* read, bb.done has been.                                                 *)
(***************************************************************************)
EXTENDS CorazaPhase1

(* Mutant: the filter stays in the chain.                                  *)
FilterStays == reqs

WithoutFilter == ThisRequest([req EXCEPT !.outFilter = FALSE])

Returned == IF bb.eos THEN "log" ELSE "handler"

(* Hand data to the filter below with the request_rec chain rs.            *)
PassOn(data, rs) == PassBrigade(bb.err, data, rs, Returned)

(* Mutant: the status is not cleared.                                      *)
DieUncleared(status) ==
    ap_die(status, req.status, ThisRequest([req EXCEPT !.outFilter = FALSE]))

(* coraza_die: clear the status, so that ap_die does not take the denial   *)
(* for an error on top of the one it is handling.                          *)
coraza_die(status) ==
    ap_die(status, HTTP_OK,
           ThisRequest([req EXCEPT !.outFilter = FALSE, !.status = HTTP_OK]))

(* Forget a held response and mark the transaction denied.                 *)
Deny(c) ==
    /\ ctx' = [c EXCEPT !.intervention_triggered = TRUE,
                        !.headers_delayed = FALSE,
                        !.pending = IF c.headers_delayed THEN <<>> ELSE @]
    /\ hist' = [hist EXCEPT !.denied = cur]
    /\ bb' = EmptyBrigade

(* The filter returns an error without having produced a response.         *)
ErrorToHandler(status) ==
    /\ reqs' = ThisRequest([req EXCEPT !.outFilter = FALSE, !.status = status])
    /\ pc' = "filter_error"
    /\ wire' = wire

(* Mutant: what could not be inspected is let through.                     *)
FailOpen(c) ==
    /\ Deny(c)
    /\ PassOn(c.pending \o bb.done \o bb.todo, WithoutFilter)
    /\ UNCHANGED <<client, body, conn, engine>>

(* Mutant: a held response is abandoned without an error page.             *)
FailSilently(c) ==
    /\ Deny(c)
    /\ ErrorToHandler(HTTP_INTERNAL_SERVER_ERROR)
    /\ UNCHANGED <<client, body, conn, engine>>

coraza_fail_closed_response(c) ==
    /\ Deny(c)
    /\ IF ctx.headers_delayed THEN coraza_die(HTTP_INTERNAL_SERVER_ERROR)
       ELSE ErrorToHandler(HTTP_INTERNAL_SERVER_ERROR)
    /\ UNCHANGED <<client, body, conn, engine>>

coraza_fail_closed_headers ==
    /\ Deny(ctx)
    /\ coraza_die(HTTP_INTERNAL_SERVER_ERROR)
    /\ UNCHANGED <<client, body, conn, engine>>

coraza_drop_response ==
    /\ coraza_drop_connection
    /\ ErrorToHandler(HTTP_FORBIDDEN)

(* An intervention found in phase 3 or 4: a drop, an error page while      *)
(* nothing has been sent, or a response cut short.                         *)
FilterIntervenes(c, e, unsent) ==
    \E iv \in Interventions :
        /\ Deny(CtxAfterIntervention(c, iv, FALSE))
        /\ engine' = EngineAfterIntervention(e, iv, FALSE)
        /\ \/ IsDrop(iv) /\ coraza_drop_response
           \/ /\ ~IsDrop(iv)
              /\ conn' = conn
              /\ IF unsent THEN coraza_die(EnforcedStatus(iv))
                 ELSE ErrorToHandler(EnforcedStatus(iv))
        /\ UNCHANGED <<client, body>>

---------------------------------------------------------------------------
(* Mutant: the filter does not look at the intervention flag.              *)
NeverAside == FALSE

(* A transaction that has already denied: step aside.                      *)
MustStepAside == ctx.intervention_triggered

FilterStepsAside ==
    /\ pc = "filter"
    /\ MustStepAside
    /\ PassOn(bb.todo, WithoutFilter)
    /\ bb' = EmptyBrigade
    /\ UNCHANGED <<client, ctx, body, conn, engine, hist>>

FilterReenters ==
    /\ pc = "filter"
    /\ ~MustStepAside
    /\ ctx.phase3_done
    /\ pc' = "loop"
    /\ UNCHANGED <<client, reqs, ctx, body, bb, conn, wire, engine, hist>>

(* Phase 3, on the first brigade.  The response headers reach the engine   *)
(* as the request headers do.                                              *)
ProcessResponseHeaders ==
    LET evaluated == [Ran(engine, 3) EXCEPT !.headersOf = cur] IN
    /\ pc = "filter"
    /\ ~MustStepAside
    /\ ~ctx.phase3_done
    /\ \E processable \in BOOLEAN :
         LET c == [ctx EXCEPT !.phase3_done = TRUE,
                              !.response_body_processable = processable] IN
         \/ FilterIntervenes(c, evaluated, TRUE)
         \/ /\ ctx' = c
            /\ engine' = evaluated
            /\ pc' = IF processable THEN "delay" ELSE "phase4"
            /\ UNCHANGED <<client, reqs, body, bb, conn, wire, hist>>

ResponseHeadersFail ==
    /\ pc = "filter"
    /\ ~MustStepAside
    /\ ~ctx.phase3_done
    /\ Deny([ctx EXCEPT !.phase3_done = TRUE])
    /\ coraza_die(HTTP_INTERNAL_SERVER_ERROR)
    /\ UNCHANGED <<client, body, conn, engine>>

(* The body will not be inspected: finalize phase 4 before any header goes *)
(* out and let the response stream.                                        *)
FinalizeUninspected ==
    LET c == [ctx EXCEPT !.phase4_done = TRUE] IN
    /\ pc = "phase4"
    /\ \/ coraza_fail_closed_headers
       \/ FilterIntervenes(c, Ran(engine, 4), TRUE)
       \/ /\ PassOn(bb.todo, WithoutFilter)
          /\ ctx' = c
          /\ bb' = EmptyBrigade
          /\ engine' = Ran(engine, 4)
          /\ hist' = [hist EXCEPT !.route = "uninspected"]
          /\ UNCHANGED <<client, body, conn>>

(* coraza_is_sse_response: an endless body is not held back.               *)
StreamSse ==
    /\ pc = "delay"
    /\ PassOn(bb.todo, WithoutFilter)
    /\ bb' = EmptyBrigade
    /\ hist' = [hist EXCEPT !.route = "sse"]
    /\ UNCHANGED <<client, ctx, body, conn, engine>>

(* Hold the response back, except for HEAD and for an error response.      *)
BeginDelay ==
    LET delays == ~client.header_only /\ req.status < 400 IN
    /\ pc = "delay"
    /\ ctx' = [ctx EXCEPT !.headers_delayed = delays]
    /\ hist' = [hist EXCEPT !.route = IF delays THEN "held" ELSE "nodelay"]
    /\ pc' = "loop"
    /\ UNCHANGED <<client, reqs, body, bb, conn, wire, engine>>

---------------------------------------------------------------------------
(* Phase 4, one data bucket of the brigade.                                *)
OverCap == ctx.headers_delayed /\ ctx.pending_len + 1 > MaxDelayedBody

Counted == [ctx EXCEPT !.pending_len = IF ctx.headers_delayed THEN @ + 1 ELSE @]

(* Mutant: the brigades held earlier are forgotten.                        *)
FlushThisBrigade == bb.done \o bb.todo

FlushedBody == ctx.pending \o bb.done \o bb.todo

(* The delayed body passed the cap: flush it and step out of the chain.    *)
FlushAtCap ==
    /\ pc = "loop"
    /\ bb.todo # <<>>
    /\ OverCap
    /\ PassOn(FlushedBody, WithoutFilter)
    /\ ctx' = [Counted EXCEPT !.headers_delayed = FALSE, !.pending = <<>>]
    /\ bb' = EmptyBrigade
    /\ hist' = [hist EXCEPT !.route = "cap"]
    /\ UNCHANGED <<client, body, conn, engine>>

(* Mutant: only a response that streams is given to the engine.            *)
SubmitStreamed(b) ==
    IF ctx.response_body_processable /\ ~ctx.headers_delayed
    THEN [engine EXCEPT !.seen = Append(@, b)] ELSE engine

SubmitBucket(b) ==
    IF ctx.response_body_processable
    THEN [engine EXCEPT !.seen = Append(@, b)] ELSE engine

InspectBucket ==
    LET b == Head(bb.todo)
        submitted == SubmitBucket(b)
    IN
    /\ pc = "loop"
    /\ bb.todo # <<>>
    /\ ~OverCap
    /\ \/ /\ ctx.response_body_processable
          /\ FilterIntervenes(Counted, submitted, ctx.headers_delayed)
       \/ /\ ctx' = Counted
          /\ engine' = submitted
          /\ bb' = [bb EXCEPT !.done = Append(@, b), !.todo = Tail(@)]
          /\ UNCHANGED <<pc, client, reqs, body, conn, wire, hist>>

(* The bucket cannot be read, or the engine refuses it.                    *)
BucketFails ==
    /\ pc = "loop"
    /\ bb.todo # <<>>
    /\ \/ coraza_fail_closed_response(ctx)
       \/ /\ ~OverCap
          /\ ctx.response_body_processable
          /\ coraza_fail_closed_response(Counted)

(* Mutant: the held brigades are appended to the last one.                 *)
ReleaseAfter == bb.done \o (IF ctx.headers_delayed THEN ctx.pending ELSE <<>>)

ReleasedBody == (IF ctx.headers_delayed THEN ctx.pending ELSE <<>>) \o bb.done

(* The whole body has been seen: evaluate phase 4.                         *)
ProcessResponseBody ==
    LET c == [ctx EXCEPT !.phase4_done = TRUE] IN
    /\ pc = "loop"
    /\ bb.todo = <<>>
    /\ bb.eos
    /\ \/ coraza_fail_closed_response(ctx)
       \/ FilterIntervenes(c, Ran(engine, 4), ctx.headers_delayed)
       \/ /\ PassOn(ReleasedBody, WithoutFilter)
          /\ ctx' = [c EXCEPT !.headers_delayed = FALSE,
                              !.pending = IF ctx.headers_delayed THEN <<>> ELSE @]
          /\ engine' = Ran(engine, 4)
          /\ bb' = EmptyBrigade
          /\ UNCHANGED <<client, body, conn, hist>>

(* Mutant: the EOS is not looked for while the response is held.           *)
HoldForever ==
    /\ pc = "loop"
    /\ bb.todo = <<>>
    /\ ctx.headers_delayed
    /\ ctx' = [ctx EXCEPT !.pending = @ \o bb.done]
    /\ bb' = EmptyBrigade
    /\ pc' = "handler"
    /\ UNCHANGED <<client, reqs, body, conn, wire, engine, hist>>

(* Not the last brigade: set it aside while the response is held, or let   *)
(* it through.                                                             *)
EndOfBrigade ==
    /\ pc = "loop"
    /\ bb.todo = <<>>
    /\ ~bb.eos
    /\ \/ ctx.headers_delayed /\ coraza_fail_closed_response(ctx)
       \/ /\ ctx.headers_delayed
          /\ ctx' = [ctx EXCEPT !.pending = @ \o bb.done]
          /\ bb' = EmptyBrigade
          /\ pc' = "handler"
          /\ UNCHANGED <<client, reqs, body, conn, wire, engine, hist>>
       \/ /\ ~ctx.headers_delayed
          /\ PassOn(bb.done, reqs)
          /\ bb' = EmptyBrigade
          /\ UNCHANGED <<client, ctx, body, conn, engine, hist>>
=============================================================================
