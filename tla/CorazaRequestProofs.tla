------------------------ MODULE CorazaRequestProofs ------------------------
(***************************************************************************)
(* The safety of CorazaRequest, for every value of the constants.          *)
(*                                                                         *)
(* The proof that IInv is inductive rests on two lemmas: a step that       *)
(* denies preserves it (DenyStep), and so does a step that only moves the  *)
(* response on (MoveStep).  Both see the chain through its contexts only.  *)
(***************************************************************************)
EXTENDS CorazaRequest, TLAPS

---------------------------------------------------------------------------
(* Type correctness, and what the services of httpd leave in the           *)
(* variables they change.                                                  *)

(* What the redirect chain, the wire and pc may be after an httpd service. *)
ChainOK(rs) ==
    /\ rs \in Seq(Requests)
    /\ Len(rs) \in 1..MaxReqs
    /\ \A i \in 1..Len(rs) : rs[i].first <= i

Wires == [hdr : 0..MaxReqs, status : Nat, body : Seq(Buckets)]

(* Replacing the request_rec being served keeps the chain well formed.     *)
LEMMA ThisRequestType ==
    ASSUME ChainOK(reqs), NEW f \in Requests, f.first = req.first
    PROVE  /\ ChainOK(ThisRequest(f))
           /\ Len(ThisRequest(f)) = Len(reqs)
           /\ ThisRequest(f)[Len(reqs)] = f
           /\ \A i \in 1..Len(reqs) : i # Len(reqs) => ThisRequest(f)[i] = reqs[i]
  BY DEF ChainOK, ThisRequest, req, cur

(* The request_rec being served is one.                                    *)
LEMMA ReqType ==
    ASSUME ChainOK(reqs)
    PROVE  req \in Requests /\ cur \in 1..MaxReqs /\ req.first <= cur
  BY DEF ChainOK, req, cur

LEMMA OkIsNat == HTTP_OK \in Nat
  BY SMT DEF HTTP_OK

(* What is put on the wire is a status line and buckets.                   *)
LEMMA SentType ==
    ASSUME wire \in Wires, NEW i \in 1..MaxReqs, NEW status \in Nat,
           NEW data \in Seq(Buckets)
    PROVE  Sent(i, status, data) \in Wires
  BY DEF Sent, Wires

(* An internal redirect appends a well-formed request_rec.                 *)
LEMMA InternalRedirectType ==
    ASSUME wire \in Wires, NEW rs, ChainOK(rs), InternalRedirect(rs)
    PROVE  ChainOK(reqs') /\ wire' \in Wires /\ pc' \in PCs
<1> DEFINE last == rs[Len(rs)]
           first == IF last.status = HTTP_OK THEN Len(rs) + 1 ELSE last.first
<1>1. PICK on \in BOOLEAN : reqs' = Append(rs, NewRequest(on, last.status, first))
  BY DEF InternalRedirect
<1>2. Len(rs) \in 1..MaxReqs /\ Len(rs) < MaxReqs /\ MaxReqs \in Nat
  BY BoundsAssumption DEF InternalRedirect, ChainOK
<1>3. last \in Requests /\ last.first <= Len(rs)
  BY <1>2 DEF ChainOK
<1>4. first \in 1..MaxReqs /\ first <= Len(rs) + 1
  BY <1>2, <1>3 DEF Requests
<1>5. NewRequest(on, last.status, first) \in Requests
  BY <1>3, <1>4, BoundsAssumption DEF NewRequest, Requests
<1>6. NewRequest(on, last.status, first).first = first
  BY DEF NewRequest
<1> HIDE DEF first, last
<1>7. ChainOK(reqs')
  BY <1>1, <1>2, <1>4, <1>5, <1>6 DEF ChainOK
<1>8. QED
  BY <1>7 DEF InternalRedirect, PCs

(* So does ap_die, or it ends the request with a page.                     *)
LEMMA ApDieType ==
    ASSUME wire \in Wires, NEW rs, ChainOK(rs), NEW type \in Nat, NEW rec,
           ap_die(type, rec, rs)
    PROVE  ChainOK(reqs') /\ wire' \in Wires /\ pc' \in PCs
<1> DEFINE dead == [rs EXCEPT ![Len(rs)].status = type]
           i == IF rec = HTTP_OK THEN Len(rs) ELSE rs[Len(rs)].first
<1> DEFINE last == [rs[Len(rs)] EXCEPT !.status = type]
<1>0. /\ Len(rs) \in 1..MaxReqs /\ MaxReqs \in Nat
      /\ rs[Len(rs)] \in Requests /\ rs[Len(rs)].first <= Len(rs)
  BY BoundsAssumption DEF ChainOK
<1>a. last \in Requests /\ last.first = rs[Len(rs)].first
  BY <1>0 DEF Requests
<1>1. ChainOK(dead) /\ Len(dead) = Len(rs)
  <2>1. dead = [rs EXCEPT ![Len(rs)] = last]
    BY <1>0 DEF ChainOK
  <2> HIDE DEF last
  <2>2. QED
    BY <1>0, <1>a, <2>1 DEF ChainOK
<1>2. i \in 1..Len(rs) /\ i \in 1..MaxReqs
  BY <1>0 DEF Requests
<1>3. CASE InternalRedirect(dead)
  BY <1>1, <1>3, InternalRedirectType
<1>4. CASE SendErrorResponse(i, dead)
  <2> HIDE DEF dead, i
  <2>1. dead[i] \in Requests
    BY <1>1, <1>2 DEF ChainOK
  <2>2. Page(i) \in Seq(Buckets)
    BY <1>2, BoundsAssumption DEF Page, Buckets
  <2>3. wire' \in Wires
    BY <1>2, <1>4, <2>1, <2>2, SentType DEF SendErrorResponse, Requests
  <2>4. ChainOK(reqs')
    <3> DEFINE n == Len(dead)
               page == [dead[n] EXCEPT !.outFilter = FALSE, !.eos_sent = TRUE]
    <3>1. n \in 1..MaxReqs /\ dead[n] \in Requests /\ dead[n].first <= n
      BY <1>0, <1>1 DEF ChainOK
    <3>2. page \in Requests /\ page.first = dead[n].first
      BY <3>1 DEF Requests
    <3>3. reqs' = [dead EXCEPT ![n] = page]
      BY <1>1, <1>4, <3>1 DEF SendErrorResponse, ChainOK
    <3> HIDE DEF page
    <3>4. QED
      BY <1>1, <3>1, <3>2, <3>3 DEF ChainOK
  <2>5. QED
    BY <1>4, <2>3, <2>4 DEF SendErrorResponse, PCs
<1>5. QED
  BY <1>3, <1>4 DEF ap_die

(* Passing a brigade down sends it, or dies of the error bucket in it.     *)
LEMMA PassBrigadeType ==
    ASSUME wire \in Wires, NEW rs, ChainOK(rs), NEW data \in Seq(Buckets),
           NEW next \in PCs, NEW err, PassBrigade(err, data, rs, next)
    PROVE  ChainOK(reqs') /\ wire' \in Wires /\ pc' \in PCs
<1>1. rs[Len(rs)].status \in Nat /\ Len(rs) \in 1..MaxReqs
  <2>1. Len(rs) \in 1..MaxReqs /\ rs[Len(rs)] \in Requests
    BY BoundsAssumption DEF ChainOK
  <2>2. QED
    BY <2>1 DEF Requests
<1>2. CASE ap_die(HTTP_BAD_GATEWAY, rs[Len(rs)].status, rs)
  BY <1>2, ApDieType DEF HTTP_BAD_GATEWAY
<1>3. CASE /\ wire' = Sent(Len(rs), rs[Len(rs)].status, data)
           /\ reqs' = rs
           /\ pc' = next
  BY <1>1, <1>3, SentType
<1>4. QED
  BY <1>2, <1>3 DEF PassBrigade

---------------------------------------------------------------------------
Brigades == [todo : Seq(Buckets), done : Seq(Buckets), eos : BOOLEAN, err : BOOLEAN]
Histories == [route : {"none", "held", "nodelay", "uninspected", "sse", "cap"},
              denied : 0..MaxReqs]

(* What the last conjuncts of an action have to establish.                 *)
Served == ChainOK(reqs') /\ wire' \in Wires /\ pc' \in PCs

(* The type invariant, in the terms of these lemmas.                       *)
LEMMA TypeOKParts ==
    TypeOK <=> /\ ChainOK(reqs) /\ wire \in Wires /\ pc \in PCs
               /\ client \in [header_only : BOOLEAN]
               /\ ctx \in Contexts
               /\ body \in Bodies /\ body.read <= body.sent
               /\ bb \in Brigades
               /\ conn \in [keepalive : {"unknown", "close"}, aborted : BOOLEAN]
               /\ engine \in Engines
               /\ hist \in Histories
  BY DEF TypeOK, ChainOK, Wires, Brigades, Histories

(* The same, for the next state.                                           *)
LEMMA TypeOKPartsPrime ==
    TypeOK' <=> /\ ChainOK(reqs') /\ wire' \in Wires /\ pc' \in PCs
                /\ client' \in [header_only : BOOLEAN]
                /\ ctx' \in Contexts
                /\ body' \in Bodies /\ body'.read <= body'.sent
                /\ bb' \in Brigades
                /\ conn' \in [keepalive : {"unknown", "close"}, aborted : BOOLEAN]
                /\ engine' \in Engines
                /\ hist' \in Histories
  BY DEF TypeOK, ChainOK, Wires, Brigades, Histories

(* The status enforced for an intervention is a status, and not 200.       *)
LEMMA EnforcedStatusType ==
    ASSUME NEW iv \in Interventions
    PROVE  EnforcedStatus(iv) \in Nat \ {HTTP_OK}
<1>1. iv.status \in Nat
  BY InterventionsAssumption
<1>2. QED
  BY <1>1 DEF EnforcedStatus, HTTP_OK, HTTP_FORBIDDEN

(* Evaluating a phase leaves the engine well formed.                       *)
LEMMA RanType ==
    ASSUME NEW e \in Engines, NEW p \in 1..4
    PROVE  Ran(e, p) \in Engines
<1>1. e.ran \in [1..4 -> Nat]
  BY DEF Engines
<1>2. [e.ran EXCEPT ![p] = @ + 1] \in [1..4 -> Nat]
  BY <1>1
<1>3. Ran(e, p) = [e EXCEPT !.ran = [e.ran EXCEPT ![p] = @ + 1]]
  BY DEF Ran, Engines
<1> DEFINE ran == [e.ran EXCEPT ![p] = @ + 1]
<1> HIDE DEF ran
<1>4. [e EXCEPT !.ran = ran] \in Engines
  BY <1>2 DEF Engines, ran
<1>5. QED
  BY <1>3, <1>4 DEF ran

(* So does recording an intervention, logged early or not.                 *)
LEMMA EngineAfterInterventionType ==
    ASSUME NEW e \in Engines, NEW iv \in Interventions, NEW early
    PROVE  EngineAfterIntervention(e, iv, early) \in Engines
<1> DEFINE u == [e EXCEPT !.status = EnforcedStatus(iv), !.enforced = @ + 1]
<1>0. EnforcedStatus(iv) \in Nat /\ e.enforced + 1 \in Nat
  BY EnforcedStatusType DEF Engines
<1>1. u \in Engines
  BY <1>0 DEF Engines
<1>2. coraza_process_logging(u) \in Engines
  <2> HIDE DEF u
  <2>1. Append(u.audit, u.status) \in Seq(Nat)
    BY <1>1 DEF Engines
  <2>2. QED
    BY <1>1, <2>1 DEF coraza_process_logging, Engines
<1>3. QED
  BY <1>1, <1>2 DEF EngineAfterIntervention

(* The context stays well formed when an intervention is recorded in it.   *)
LEMMA CtxAfterInterventionType ==
    ASSUME NEW c \in Contexts, NEW iv, NEW early \in BOOLEAN
    PROVE  CtxAfterIntervention(c, iv, early) \in Contexts
<1>1. (c.drop_connection \/ IsDrop(iv)) \in BOOLEAN /\ (c.logged \/ early) \in BOOLEAN
  OBVIOUS
<1>2. QED
  BY <1>1 DEF CtxAfterIntervention, Contexts

(* What a hook or handler returns leaves a well-formed chain.              *)
LEMMA ReturnStatusType ==
    ASSUME TypeOK, NEW type \in Nat, ReturnStatus(type)
    PROVE  Served
  BY TypeOKParts, ApDieType DEF ReturnStatus, Served

(* The request being served may be recorded as the denied one.             *)
LEMMA HistoryType ==
    ASSUME TypeOK
    PROVE  [hist EXCEPT !.denied = cur] \in Histories
<1>1. cur \in 0..MaxReqs
  BY TypeOKParts, ReqType, BoundsAssumption
<1>2. QED
  BY <1>1, TypeOKParts DEF Histories

(* Failing closed in the hook keeps the types.                             *)
LEMMA FailClosedType ==
    ASSUME TypeOK, FailClosed, engine' \in Engines,
           body' \in Bodies, body'.read <= body'.sent
    PROVE  TypeOK'
<1>1. ctx' \in Contexts
  BY TypeOKParts DEF FailClosed, Contexts
<1>2. Served
  BY ReturnStatusType DEF FailClosed, HTTP_INTERNAL_SERVER_ERROR
<1>3. hist' \in Histories
  BY HistoryType DEF FailClosed
<1>4. QED
  BY <1>1, <1>2, <1>3, TypeOKParts, TypeOKPartsPrime DEF FailClosed, Served

(* Enforcing an intervention in the hook keeps the types.                  *)
LEMMA IntervenesType ==
    ASSUME TypeOK, NEW c \in Contexts, NEW e \in Engines, Intervenes(c, e),
           body' \in Bodies, body'.read <= body'.sent
    PROVE  TypeOK'
<1>1. PICK iv \in Interventions : coraza_enforce_intervention(iv, c, e)
  BY DEF Intervenes
<1>2. ctx' \in Contexts
  BY <1>1, CtxAfterInterventionType DEF coraza_enforce_intervention
<1>3. engine' \in Engines
  BY <1>1, EngineAfterInterventionType DEF coraza_enforce_intervention
<1>4. hist' \in Histories
  BY <1>1, HistoryType DEF coraza_enforce_intervention
<1>5. Served /\ conn' \in [keepalive : {"unknown", "close"}, aborted : BOOLEAN]
  <2>1. CASE IsDrop(iv)
    <3>1. [req EXCEPT !.status = HTTP_FORBIDDEN] \in Requests
          /\ [req EXCEPT !.status = HTTP_FORBIDDEN].first = req.first
      BY TypeOKParts, ReqType DEF Requests, HTTP_FORBIDDEN
    <3>2. /\ reqs' = ThisRequest([req EXCEPT !.status = HTTP_FORBIDDEN])
          /\ pc' = "log" /\ wire' = wire
          /\ conn' = [keepalive |-> "close", aborted |-> TRUE]
      BY <1>1, <2>1 DEF coraza_enforce_intervention, coraza_drop_connection
    <3>3. ChainOK(reqs')
      BY <3>1, <3>2, TypeOKParts, ThisRequestType
    <3>4. QED
      BY <3>2, <3>3, TypeOKParts DEF Served, PCs
  <2>2. CASE ~IsDrop(iv)
    BY <1>1, <2>2, EnforcedStatusType, ReturnStatusType, TypeOKParts
    DEF coraza_enforce_intervention
  <2>3. QED
    BY <2>1, <2>2
<1>6. QED
  BY <1>1, <1>2, <1>3, <1>4, <1>5, TypeOKParts, TypeOKPartsPrime
  DEF coraza_enforce_intervention, Served

(* A request_rec whose flags change keeps its place in the chain.          *)
LEMMA FlagsType ==
    ASSUME TypeOK, NEW f \in Requests, f.first = req.first,
           reqs' = ThisRequest(f)
    PROVE  ChainOK(reqs')
  BY TypeOKParts, ThisRequestType

(* A step of the hook that goes on keeps the types.                        *)
LEMMA ProceedType ==
    ASSUME TypeOK, NEW next \in PCs, Proceed(next), ChainOK(reqs'),
           engine' \in Engines, body' \in Bodies, body'.read <= body'.sent
    PROVE  TypeOK'
  BY TypeOKParts, TypeOKPartsPrime DEF Proceed

(* The fixups hook keeps the types.                                        *)
LEMMA FixupsType ==
    ASSUME TypeOK, Fixups
    PROVE  TypeOK'
<1> USE TypeOKParts
<1>0. /\ req \in Requests
      /\ body \in Bodies /\ body.read <= body.sent
      /\ ctx \in Contexts /\ engine \in Engines /\ ChainOK(reqs)
  BY ReqType
<1>1. CASE Declined
  <2>1. "handler" \in PCs
    BY DEF PCs
  <2>2. QED
    BY <1>0, <1>1, <2>1, ProceedType DEF Declined
<1>2. CASE ReuseTransaction
  <2> DEFINE f == [req EXCEPT !.hasCtx = TRUE, !.outFilter = TRUE]
  <2>1. f \in Requests /\ f.first = req.first /\ "handler" \in PCs
    BY <1>0 DEF Requests, PCs
  <2>2. ChainOK(reqs')
    BY <1>2, <2>1, FlagsType DEF ReuseTransaction
  <2>3. QED
    BY <1>0, <1>2, <2>1, <2>2, ProceedType DEF ReuseTransaction
<1>3. CASE CreateCtx
  <2>1. CASE coraza_create_ctx /\ pc' = "connection" /\ wire' = wire
    <3> DEFINE f == [req EXCEPT !.hasCtx = TRUE]
    <3>1. f \in Requests /\ f.first = req.first
      BY <1>0 DEF Requests
    <3>2. ChainOK(reqs')
      BY <2>1, <3>1, FlagsType DEF coraza_create_ctx
    <3>3. ctx' \in Contexts
      <4>1. <<>> \in Seq(Buckets)
        OBVIOUS
      <4>2. QED
        BY <2>1, <4>1 DEF coraza_create_ctx, FreshCtx, Contexts
    <3>4. engine' \in Engines
      <4>1. engine.txs + 1 \in Nat
        BY <1>0 DEF Engines
      <4>2. QED
        BY <1>0, <2>1, <4>1 DEF coraza_create_ctx, Engines
    <3>5. QED
      BY <1>3, <2>1, <3>2, <3>3, <3>4, TypeOKPartsPrime DEF CreateCtx, PCs
  <2>2. CASE ReturnStatus(HTTP_INTERNAL_SERVER_ERROR) /\ UNCHANGED <<ctx, engine>>
    <3>1. Served
      BY <2>2, ReturnStatusType DEF HTTP_INTERNAL_SERVER_ERROR
    <3>2. QED
      BY <1>3, <2>2, <3>1, TypeOKPartsPrime DEF CreateCtx, Served
  <2>3. QED
    BY <1>3, <2>1, <2>2 DEF CreateCtx
<1>4. CASE ProcessConnection
  <2>1. "uri" \in PCs
    BY DEF PCs
  <2>2. QED
    BY <1>0, <1>4, <2>1, FailClosedType, IntervenesType, ProceedType DEF ProcessConnection
<1>5. CASE ProcessUri
  <2>1. "headers" \in PCs
    BY DEF PCs
  <2>2. QED
    BY <1>0, <1>5, <2>1, FailClosedType, IntervenesType, ProceedType DEF ProcessUri
<1>6. CASE ProcessHeaders
  <2> DEFINE f == [req EXCEPT !.outFilter = TRUE]
  <2>1. f \in Requests /\ f.first = req.first /\ "setup" \in PCs
    BY <1>0 DEF Requests, PCs
  <2>2. Ran(engine, 1) \in Engines
    BY <1>0, RanType
  <2>3. CASE reqs' = ThisRequest(f) /\ Proceed("setup") /\ engine' = Ran(engine, 1)
    <3>1. ChainOK(reqs')
      BY <2>1, <2>3, FlagsType
    <3>2. QED
      BY <1>0, <1>6, <2>1, <2>2, <2>3, <3>1, ProceedType DEF ProcessHeaders
  <2>4. QED
    BY <1>0, <1>6, <2>2, <2>3, FailClosedType, IntervenesType DEF ProcessHeaders
<1>7. CASE SetupClientBlock
  <2>0. "read" \in PCs /\ "finish" \in PCs
    BY DEF PCs
  <2>1. CASE /\ ReturnStatus(HTTP_BAD_REQUEST)
             /\ UNCHANGED <<client, ctx, body, bb, conn, hist>>
    <3>1. Served
      BY <2>1, ReturnStatusType DEF HTTP_BAD_REQUEST
    <3>2. QED
      BY <1>7, <2>1, <3>1, TypeOKPartsPrime DEF SetupClientBlock, Served
  <2>2. ASSUME NEW access \in BOOLEAN, body' = [body EXCEPT !.inspect = access],
               Proceed("read"), reqs' = reqs
        PROVE  TypeOK'
    <3>1. body' \in Bodies /\ body'.read <= body'.sent
      BY <1>0, <2>2 DEF Bodies
    <3>2. QED
      BY <1>0, <1>7, <2>0, <2>2, <3>1, ProceedType DEF SetupClientBlock
  <2>3. CASE Proceed("finish") /\ UNCHANGED <<reqs, body>>
    BY <1>0, <1>7, <2>0, <2>3, ProceedType DEF SetupClientBlock
  <2>4. QED
    BY <1>7, <2>1, <2>2, <2>3 DEF SetupClientBlock
<1>8. CASE ReadChunk
  <2> DEFINE submitted == [KeepChunk EXCEPT !.submitted = @ \cup {body.read + 1}]
             lost == [body EXCEPT !.read = @ + 1]
  <2>1. body.read + 1 \in 1..MaxBody /\ body.read + 1 <= body.sent
    BY <1>0, <1>8, BoundsAssumption DEF ReadChunk, MoreBody, Bodies
  <2>2. KeepChunk \in Bodies /\ KeepChunk.read <= KeepChunk.sent
    <3>1. Append(body.saved, body.read + 1) \in Seq(1..MaxBody)
      BY <1>0, <2>1 DEF Bodies
    <3>2. body.read + 1 \in 0..MaxBody
      BY <2>1
    <3>3. QED
      BY <1>0, <2>1, <3>1, <3>2 DEF KeepChunk, Bodies
  <2>3. submitted \in Bodies /\ submitted.read <= submitted.sent
    <3>1. KeepChunk.submitted \cup {body.read + 1} \in SUBSET (1..MaxBody)
      BY <2>1, <2>2 DEF Bodies
    <3>2. QED
      BY <2>2, <3>1 DEF Bodies
  <2>a. lost \in Bodies /\ lost.read <= lost.sent
    <3>1. body.read + 1 \in 0..MaxBody
      BY <2>1
    <3>2. QED
      BY <1>0, <2>1, <3>1 DEF Bodies
  <2>4. "read" \in PCs
    BY DEF PCs
  <2> HIDE DEF submitted, lost
  <2>5. body' \in {KeepChunk, submitted, lost}
    BY <1>8 DEF ReadChunk, submitted, lost
  <2>6. body' \in Bodies /\ body'.read <= body'.sent
    BY <2>2, <2>3, <2>5, <2>a
  <2>7. CASE FailClosed /\ engine' = engine
    BY <1>0, <2>6, <2>7, FailClosedType
  <2>8. CASE Intervenes(ctx, engine)
    BY <1>0, <2>6, <2>8, IntervenesType
  <2>9. CASE Proceed("read") /\ UNCHANGED <<reqs, engine>>
    BY <1>0, <2>4, <2>6, <2>9, ProceedType
  <2>10. QED
    BY <1>8, <2>7, <2>8, <2>9 DEF ReadChunk
<1>9. CASE ReadError
  <2>1. Served
    BY <1>9, ReturnStatusType DEF ReadError, HTTP_BAD_REQUEST
  <2>2. QED
    BY <1>9, <2>1, TypeOKPartsPrime DEF ReadError, Served
<1>10. CASE EndOfBody
  <2> DEFINE f == [req EXCEPT !.inFilter = TRUE]
  <2>1. f \in Requests /\ f.first = req.first /\ "finish" \in PCs
    BY <1>0 DEF Requests, PCs
  <2>2. ChainOK(reqs')
    BY <1>10, <2>1, FlagsType DEF EndOfBody
  <2>3. QED
    BY <1>0, <1>10, <2>1, <2>2, ProceedType DEF EndOfBody
<1>11. CASE ProcessRequestBody
  <2> DEFINE done == [ctx EXCEPT !.phase2_done = TRUE]
  <2>0. Ran(engine, 2) \in Engines
    BY <1>0, RanType
  <2>1. done \in Contexts /\ Ran(engine, 2) \in Engines
    BY <1>0, <2>0 DEF Contexts
  <2>2. CASE FailClosed /\ engine' = engine
    BY <1>0, <1>11, <2>2, FailClosedType DEF ProcessRequestBody
  <2>3. CASE Intervenes(done, Ran(engine, 2))
    BY <1>0, <1>11, <2>1, <2>3, IntervenesType DEF ProcessRequestBody
  <2>4. CASE /\ ctx' = done /\ engine' = Ran(engine, 2) /\ pc' = "handler"
             /\ UNCHANGED <<client, reqs, bb, conn, wire, hist>>
    <3> HIDE DEF done
    <3>1. QED
      BY <1>0, <1>11, <2>1, <2>4, TypeOKPartsPrime DEF ProcessRequestBody, PCs
  <2>5. QED
    BY <1>11, <2>2, <2>3, <2>4 DEF ProcessRequestBody
<1>12. QED
  BY <1>1, <1>2, <1>3, <1>4, <1>5, <1>6, <1>7, <1>8, <1>9, <1>10, <1>11 DEF Fixups

---------------------------------------------------------------------------
(* Taking CORAZA_OUT out of the chain keeps it well formed.                *)
LEMMA WithoutFilterType ==
    ASSUME TypeOK
    PROVE  ChainOK(WithoutFilter)
<1> DEFINE f == [req EXCEPT !.outFilter = FALSE]
<1>1. f \in Requests /\ f.first = req.first
  BY TypeOKParts, ReqType DEF Requests
<1>2. QED
  BY <1>1, TypeOKParts, ThisRequestType DEF WithoutFilter

(* The filter hands a brigade on.                                          *)
LEMMA PassOnType ==
    ASSUME TypeOK, NEW rs, ChainOK(rs), NEW data \in Seq(Buckets), PassOn(data, rs)
    PROVE  Served
<1>1. Returned \in PCs
  BY DEF Returned, PCs
<1>2. QED
  BY <1>1, TypeOKParts, PassBrigadeType DEF PassOn, Served

(* coraza_die leaves a well-formed chain.                                  *)
LEMMA CorazaDieType ==
    ASSUME TypeOK, NEW status \in Nat, coraza_die(status)
    PROVE  Served
<1> DEFINE f == [req EXCEPT !.outFilter = FALSE, !.status = HTTP_OK]
<1>1. f \in Requests /\ f.first = req.first
  BY TypeOKParts, ReqType, OkIsNat DEF Requests
<1>2. ChainOK(ThisRequest(f))
  BY <1>1, TypeOKParts, ThisRequestType
<1>3. QED
  BY <1>2, TypeOKParts, ApDieType DEF coraza_die, Served

(* So does an error returned to the handler.                               *)
LEMMA ErrorToHandlerType ==
    ASSUME TypeOK, NEW status \in Nat, ErrorToHandler(status)
    PROVE  Served
<1> DEFINE f == [req EXCEPT !.outFilter = FALSE, !.status = status]
<1>1. f \in Requests /\ f.first = req.first
  BY TypeOKParts, ReqType DEF Requests
<1>2. ChainOK(reqs')
  BY <1>1, FlagsType DEF ErrorToHandler
<1>3. QED
  BY <1>2, TypeOKParts DEF ErrorToHandler, Served, PCs

(* The brigade of a filter that is not running.                            *)
LEMMA EmptyBrigadeType == EmptyBrigade \in Brigades
<1>1. <<>> \in Seq(Buckets)
  OBVIOUS
<1>2. QED
  BY <1>1 DEF EmptyBrigade, Brigades

(* Forgetting the held response keeps the types.                           *)
LEMMA DenyType ==
    ASSUME TypeOK, NEW c \in Contexts, Deny(c)
    PROVE  ctx' \in Contexts /\ hist' \in Histories /\ bb' \in Brigades
<1>1. (IF c.headers_delayed THEN <<>> ELSE c.pending) \in Seq(Buckets)
  BY DEF Contexts
<1>2. ctx' \in Contexts
  BY <1>1 DEF Deny, Contexts
<1>3. QED
  BY <1>2, HistoryType, EmptyBrigadeType DEF Deny

(* Failing closed in the filter keeps the types.                           *)
LEMMA FailClosedResponseType ==
    ASSUME TypeOK, NEW c \in Contexts, coraza_fail_closed_response(c)
    PROVE  TypeOK'
<1>1. ctx' \in Contexts /\ hist' \in Histories /\ bb' \in Brigades
  BY DenyType DEF coraza_fail_closed_response
<1>2. Served
  BY CorazaDieType, ErrorToHandlerType
  DEF coraza_fail_closed_response, HTTP_INTERNAL_SERVER_ERROR
<1>3. QED
  BY <1>1, <1>2, TypeOKParts, TypeOKPartsPrime DEF coraza_fail_closed_response, Served

(* Enforcing an intervention in the filter keeps the types.                *)
LEMMA FilterIntervenesType ==
    ASSUME TypeOK, NEW c \in Contexts, NEW e \in Engines, NEW unsent,
           FilterIntervenes(c, e, unsent)
    PROVE  TypeOK'
<1>1. PICK iv \in Interventions :
        /\ Deny(CtxAfterIntervention(c, iv, FALSE))
        /\ engine' = EngineAfterIntervention(e, iv, FALSE)
        /\ \/ IsDrop(iv) /\ coraza_drop_response
           \/ /\ ~IsDrop(iv)
              /\ conn' = conn
              /\ IF unsent THEN coraza_die(EnforcedStatus(iv))
                 ELSE ErrorToHandler(EnforcedStatus(iv))
        /\ UNCHANGED <<client, body>>
  BY DEF FilterIntervenes
<1>2. ctx' \in Contexts /\ hist' \in Histories /\ bb' \in Brigades
  BY <1>1, CtxAfterInterventionType, DenyType
<1>3. engine' \in Engines
  BY <1>1, EngineAfterInterventionType
<1>4. Served /\ conn' \in [keepalive : {"unknown", "close"}, aborted : BOOLEAN]
  <2>1. CASE coraza_drop_response
    <3>1. Served
      BY <2>1, ErrorToHandlerType DEF coraza_drop_response, HTTP_FORBIDDEN
    <3>2. QED
      BY <2>1, <3>1 DEF coraza_drop_response, coraza_drop_connection
  <2>2. CASE ~coraza_drop_response
    <3>1. EnforcedStatus(iv) \in Nat
      BY EnforcedStatusType
    <3>2. QED
      BY <1>1, <2>2, <3>1, CorazaDieType, ErrorToHandlerType, TypeOKParts
  <2>3. QED
    BY <2>1, <2>2
<1>5. QED
  BY <1>1, <1>2, <1>3, <1>4, TypeOKParts, TypeOKPartsPrime DEF Served

(* The output filter keeps the types.                                      *)
LEMMA OutputFilterType ==
    ASSUME TypeOK, OutputFilter
    PROVE  TypeOK'
<1> USE TypeOKParts
<1>0. /\ req \in Requests /\ cur \in 1..MaxReqs /\ ChainOK(reqs)
      /\ ctx \in Contexts /\ engine \in Engines
      /\ bb \in Brigades /\ EmptyBrigade \in Brigades
  BY ReqType, EmptyBrigadeType
<1>a. bb.todo \in Seq(Buckets) /\ bb.done \in Seq(Buckets) /\ ctx.pending \in Seq(Buckets)
  BY <1>0 DEF Brigades, Contexts
<1>b. \A p \in 1..4 : Ran(engine, p) \in Engines
  BY <1>0, RanType
<1>c. [ctx EXCEPT !.phase4_done = TRUE] \in Contexts
  BY <1>0 DEF Contexts
<1>d. Counted \in Contexts
  <2>1. ctx.pending_len + 1 \in Nat
    BY <1>0 DEF Contexts
  <2>2. QED
    BY <1>0, <2>1 DEF Counted, Contexts
<1>e. \A route \in {"held", "nodelay", "uninspected", "sse", "cap"} :
        [hist EXCEPT !.route = route] \in Histories
  BY DEF Histories
<1>1. CASE FilterStepsAside
  <2>1. Served
    BY <1>1, <1>a, PassOnType, WithoutFilterType DEF FilterStepsAside
  <2>2. QED
    BY <1>0, <1>1, <2>1, TypeOKPartsPrime DEF FilterStepsAside, Served
<1>2. CASE FilterReenters
  BY <1>2, TypeOKPartsPrime DEF FilterReenters, PCs
<1>3. CASE ProcessResponseHeaders
  <2> DEFINE evaluated == [Ran(engine, 3) EXCEPT !.headersOf = cur]
             c(p) == [ctx EXCEPT !.phase3_done = TRUE, !.response_body_processable = p]
  <2>1. evaluated \in Engines
    <3>1. cur \in 0..MaxReqs
      BY <1>0
    <3>2. Ran(engine, 3) \in Engines
      BY <1>b
    <3>3. QED
      BY <3>1, <3>2 DEF Engines
  <2>2. \A p \in BOOLEAN : c(p) \in Contexts
    BY <1>0 DEF Contexts
  <2>3. PICK p \in BOOLEAN :
          \/ FilterIntervenes(c(p), evaluated, TRUE)
          \/ /\ ctx' = c(p) /\ engine' = evaluated
             /\ pc' = IF p THEN "delay" ELSE "phase4"
             /\ UNCHANGED <<client, reqs, body, bb, conn, wire, hist>>
    BY <1>3 DEF ProcessResponseHeaders
  <2> HIDE DEF evaluated, c
  <2>4. CASE FilterIntervenes(c(p), evaluated, TRUE)
    BY <2>1, <2>2, <2>4, FilterIntervenesType
  <2>5. CASE /\ ctx' = c(p) /\ engine' = evaluated
             /\ pc' = IF p THEN "delay" ELSE "phase4"
             /\ UNCHANGED <<client, reqs, body, bb, conn, wire, hist>>
    <3>1. pc' \in PCs
      BY <2>5 DEF PCs
    <3>2. QED
      BY <2>1, <2>2, <2>5, <3>1, TypeOKPartsPrime
  <2>6. QED
    BY <2>3, <2>4, <2>5
<1>4. CASE ResponseHeadersFail
  <2>1. [ctx EXCEPT !.phase3_done = TRUE] \in Contexts
    BY <1>0 DEF Contexts
  <2>2. ctx' \in Contexts /\ hist' \in Histories /\ bb' \in Brigades
    BY <1>4, <2>1, DenyType DEF ResponseHeadersFail
  <2>3. Served
    BY <1>4, CorazaDieType DEF ResponseHeadersFail, HTTP_INTERNAL_SERVER_ERROR
  <2>4. QED
    BY <1>4, <2>2, <2>3, TypeOKPartsPrime DEF ResponseHeadersFail, Served
<1>5. CASE FinalizeUninspected
  <2> DEFINE c == [ctx EXCEPT !.phase4_done = TRUE]
  <2>1. CASE coraza_fail_closed_headers
    <3>1. ctx' \in Contexts /\ hist' \in Histories /\ bb' \in Brigades
      BY <1>0, <2>1, DenyType DEF coraza_fail_closed_headers
    <3>2. Served
      BY <2>1, CorazaDieType DEF coraza_fail_closed_headers, HTTP_INTERNAL_SERVER_ERROR
    <3>3. QED
      BY <2>1, <3>1, <3>2, TypeOKPartsPrime DEF coraza_fail_closed_headers, Served
  <2>2. CASE FilterIntervenes(c, Ran(engine, 4), TRUE)
    <3>1. Ran(engine, 4) \in Engines
      BY <1>b
    <3>2. QED
      BY <1>c, <2>2, <3>1, FilterIntervenesType
  <2>3. CASE /\ PassOn(bb.todo, WithoutFilter)
             /\ ctx' = c /\ bb' = EmptyBrigade /\ engine' = Ran(engine, 4)
             /\ hist' = [hist EXCEPT !.route = "uninspected"]
             /\ UNCHANGED <<client, body, conn>>
    <3>1. Served
      BY <1>a, <2>3, PassOnType, WithoutFilterType
    <3>2. hist' \in Histories /\ engine' \in Engines
      BY <1>b, <1>e, <2>3
    <3>3. QED
      BY <1>0, <1>c, <2>3, <3>1, <3>2, TypeOKPartsPrime DEF Served
  <2>4. QED
    BY <1>5, <2>1, <2>2, <2>3 DEF FinalizeUninspected
<1>6. CASE StreamSse
  <2>1. Served
    BY <1>6, <1>a, PassOnType, WithoutFilterType DEF StreamSse
  <2>2. hist' \in Histories
    BY <1>6, <1>e DEF StreamSse
  <2>3. QED
    BY <1>0, <1>6, <2>1, <2>2, TypeOKPartsPrime DEF StreamSse, Served
<1>7. CASE BeginDelay
  <2> DEFINE delays == ~client.header_only /\ req.status < 400
  <2>1. delays \in BOOLEAN
    OBVIOUS
  <2>a. ctx' = [ctx EXCEPT !.headers_delayed = delays]
    BY <1>7 DEF BeginDelay
  <2> HIDE DEF delays
  <2>2. ctx' \in Contexts
    BY <1>0, <2>1, <2>a DEF Contexts
  <2>3. hist' \in Histories
    BY <1>7, <1>e DEF BeginDelay
  <2>4. QED
    BY <1>7, <2>2, <2>3, TypeOKPartsPrime DEF BeginDelay, PCs
<1>8. CASE FlushAtCap
  <2>1. FlushedBody \in Seq(Buckets)
    BY <1>a DEF FlushedBody
  <2>2. Served
    BY <1>8, <2>1, PassOnType, WithoutFilterType DEF FlushAtCap
  <2>3. ctx' \in Contexts
    <3>1. <<>> \in Seq(Buckets)
      OBVIOUS
    <3>2. QED
      BY <1>8, <1>d, <3>1 DEF FlushAtCap, Contexts
  <2>4. hist' \in Histories
    BY <1>8, <1>e DEF FlushAtCap
  <2>5. QED
    BY <1>0, <1>8, <2>2, <2>3, <2>4, TypeOKPartsPrime DEF FlushAtCap, Served
<1>9. CASE InspectBucket
  <2> DEFINE b == Head(bb.todo)
  <2>1. b \in Buckets /\ Tail(bb.todo) \in Seq(Buckets)
    BY <1>9, <1>a DEF InspectBucket
  <2>2. SubmitBucket(b) \in Engines
    <3>1. Append(engine.seen, b) \in Seq(Buckets)
      BY <1>0, <2>1 DEF Engines
    <3>2. QED
      BY <1>0, <3>1 DEF SubmitBucket, Engines
  <2>3. CASE FilterIntervenes(Counted, SubmitBucket(b), ctx.headers_delayed)
    BY <1>d, <2>2, <2>3, FilterIntervenesType
  <2>4. CASE /\ ctx' = Counted
             /\ engine' = SubmitBucket(b)
             /\ bb' = [bb EXCEPT !.done = Append(@, b), !.todo = Tail(@)]
             /\ UNCHANGED <<pc, client, reqs, body, conn, wire, hist>>
    <3>1. Append(bb.done, b) \in Seq(Buckets)
      BY <1>a, <2>1
    <3>2. bb' \in Brigades
      BY <1>0, <2>1, <2>4, <3>1 DEF Brigades
    <3>3. QED
      BY <1>d, <2>2, <2>4, <3>2, TypeOKPartsPrime
  <2>5. QED
    BY <1>9, <2>3, <2>4 DEF InspectBucket
<1>10. CASE BucketFails
  BY <1>0, <1>10, <1>d, FailClosedResponseType DEF BucketFails
<1>11. CASE ProcessResponseBody
  <2> DEFINE c == [ctx EXCEPT !.phase4_done = TRUE]
  <2>1. Ran(engine, 4) \in Engines
    BY <1>b
  <2>2. CASE coraza_fail_closed_response(ctx)
    BY <1>0, <2>2, FailClosedResponseType
  <2>3. CASE FilterIntervenes(c, Ran(engine, 4), ctx.headers_delayed)
    BY <1>c, <2>1, <2>3, FilterIntervenesType
  <2>4. CASE /\ PassOn(ReleasedBody, WithoutFilter)
             /\ ctx' = [c EXCEPT !.headers_delayed = FALSE,
                                 !.pending = IF ctx.headers_delayed THEN <<>> ELSE @]
             /\ engine' = Ran(engine, 4)
             /\ bb' = EmptyBrigade
             /\ UNCHANGED <<client, body, conn, hist>>
    <3>1. (IF ctx.headers_delayed THEN ctx.pending ELSE <<>>) \in Seq(Buckets)
      BY <1>a
    <3>2. ReleasedBody \in Seq(Buckets)
      BY <1>a, <3>1 DEF ReleasedBody
    <3>3. Served
      BY <2>4, <3>2, PassOnType, WithoutFilterType
    <3>4. (IF ctx.headers_delayed THEN <<>> ELSE ctx.pending) \in Seq(Buckets)
      BY <1>a
    <3>5. ctx' \in Contexts
      BY <1>0, <2>4, <3>4 DEF Contexts
    <3>6. QED
      BY <1>0, <2>1, <2>4, <3>3, <3>5, TypeOKPartsPrime DEF Served
  <2>5. QED
    BY <1>11, <2>2, <2>3, <2>4 DEF ProcessResponseBody
<1>12. CASE EndOfBrigade
  <2>1. CASE coraza_fail_closed_response(ctx)
    BY <1>0, <2>1, FailClosedResponseType
  <2>2. CASE /\ ctx' = [ctx EXCEPT !.pending = @ \o bb.done]
             /\ bb' = EmptyBrigade
             /\ pc' = "handler"
             /\ UNCHANGED <<client, reqs, body, conn, wire, engine, hist>>
    <3>1. ctx.pending \o bb.done \in Seq(Buckets)
      BY <1>a
    <3>2. ctx' \in Contexts
      BY <1>0, <2>2, <3>1 DEF Contexts
    <3>3. QED
      BY <1>0, <2>2, <3>2, TypeOKPartsPrime DEF PCs
  <2>3. CASE /\ PassOn(bb.done, reqs)
             /\ bb' = EmptyBrigade
             /\ UNCHANGED <<client, ctx, body, conn, engine, hist>>
    <3>1. Served
      BY <1>0, <1>a, <2>3, PassOnType
    <3>2. QED
      BY <1>0, <2>3, <3>1, TypeOKPartsPrime DEF Served
  <2>4. QED
    BY <1>12, <2>1, <2>2, <2>3 DEF EndOfBrigade
<1>13. QED
  BY <1>1, <1>2, <1>3, <1>4, <1>5, <1>6, <1>7, <1>8, <1>9, <1>10, <1>11, <1>12
  DEF OutputFilter

---------------------------------------------------------------------------
(* The head and the tail of a nonempty sequence.                           *)
LEMMA HeadTailType ==
    ASSUME NEW S, NEW s \in Seq(S), s # <<>>
    PROVE  Head(s) \in S /\ Tail(s) \in Seq(S)
  OBVIOUS

(* httpd and the handler keep the types.                                   *)
LEMMA HandlerType ==
    ASSUME TypeOK, Handler
    PROVE  TypeOK'
<1> USE TypeOKParts
<1>0. /\ req \in Requests /\ cur \in 1..MaxReqs /\ ChainOK(reqs)
      /\ body \in Bodies /\ body.read <= body.sent
      /\ HandlerErrors \subseteq Nat
  BY ReqType, HandlerErrorsAssumption
<1>1. CASE EarlierHookFails
  <2>1. Served
    BY <1>0, <1>1, ReturnStatusType DEF EarlierHookFails
  <2>2. QED
    BY <1>1, <2>1, TypeOKPartsPrime DEF EarlierHookFails, Served
<1>2. CASE HandlerReads
  <2>1. body' \in Bodies /\ body'.read <= body'.sent
    <3>1. CASE /\ body.saved # <<>>
               /\ body' = [body EXCEPT !.app = Append(@, Head(body.saved)),
                                      !.saved = Tail(@)]
      <4>0. body.saved \in Seq(1..MaxBody)
        BY <1>0 DEF Bodies
      <4>1. /\ Head(body.saved) \in 1..MaxBody
            /\ Tail(body.saved) \in Seq(1..MaxBody)
        BY <3>1, <4>0, HeadTailType
      <4>2. Append(body.app, Head(body.saved)) \in Seq(1..MaxBody)
        BY <1>0, <4>1 DEF Bodies
      <4>3. QED
        BY <1>0, <3>1, <4>1, <4>2 DEF Bodies
    <3>2. CASE /\ body.read < body.sent
               /\ body' = [body EXCEPT !.app = Append(@, body.read + 1),
                                      !.read = @ + 1]
      <4>1. /\ body.read + 1 \in 1..MaxBody /\ body.read + 1 \in 0..MaxBody
            /\ body.read + 1 <= body.sent
        BY <1>0, <3>2, BoundsAssumption DEF Bodies
      <4>2. Append(body.app, body.read + 1) \in Seq(1..MaxBody)
        BY <1>0, <4>1 DEF Bodies
      <4>3. QED
        BY <1>0, <3>2, <4>1, <4>2 DEF Bodies
    <3>3. CASE body' = [body EXCEPT !.eof = cur]
      <4>1. cur \in 0..MaxReqs
        BY <1>0
      <4>2. QED
        BY <1>0, <3>3, <4>1 DEF Bodies
    <3>4. QED
      BY <1>2, <3>1, <3>2, <3>3 DEF HandlerReads, coraza_input_filter
  <2>2. QED
    BY <1>2, <2>1, TypeOKPartsPrime DEF HandlerReads
<1>3. CASE HandlerSetsStatus
  <2>1. PICK status \in HandlerErrors : reqs' = ThisRequest([req EXCEPT !.status = status])
    BY <1>3 DEF HandlerSetsStatus
  <2>2. /\ [req EXCEPT !.status = status] \in Requests
        /\ [req EXCEPT !.status = status].first = req.first
    BY <1>0 DEF Requests
  <2>3. ChainOK(reqs')
    BY <2>1, <2>2, FlagsType
  <2>4. QED
    BY <1>3, <2>3, TypeOKPartsPrime DEF HandlerSetsStatus
<1>4. CASE HandlerPasses
  <2> DEFINE Data(k) == [i \in 1..k |-> [req |-> cur, n |-> req.passed + i]]
             f(k, eos) == [req EXCEPT !.passed = @ + k, !.eos_sent = eos]
  <2>1. PICK k \in 0..(MaxChunks - req.passed), eos \in BOOLEAN, err \in BOOLEAN :
          \/ /\ bb' = [EmptyBrigade EXCEPT !.todo = Data(k), !.eos = eos, !.err = err]
             /\ reqs' = ThisRequest(f(k, eos))
             /\ pc' = "filter"
             /\ wire' = wire
          \/ /\ PassBrigade(err, Data(k), ThisRequest(f(k, eos)),
                            IF eos THEN "log" ELSE "handler")
             /\ bb' = bb
    BY <1>4 DEF HandlerPasses
  <2>2. k \in Nat /\ req.passed + k \in 0..MaxChunks /\ req.passed \in Nat
    BY <1>0, BoundsAssumption DEF Requests
  <2>3. Data(k) \in Seq(Buckets)
    <3>1. \A i \in 1..k : [req |-> cur, n |-> req.passed + i] \in Buckets
      <4>1. ASSUME NEW i \in 1..k
            PROVE  req.passed + i \in 0..MaxChunks
        BY <2>2, BoundsAssumption
      <4>2. QED
        BY <1>0, <4>1 DEF Buckets
    <3>2. QED
      BY <2>2, <3>1
  <2>4. f(k, eos) \in Requests /\ f(k, eos).first = req.first
    BY <1>0, <2>2 DEF Requests
  <2>5. ChainOK(ThisRequest(f(k, eos)))
    BY <2>4, ThisRequestType
  <2> HIDE DEF Data, f
  <2>6. CASE /\ bb' = [EmptyBrigade EXCEPT !.todo = Data(k), !.eos = eos, !.err = err]
             /\ reqs' = ThisRequest(f(k, eos))
             /\ pc' = "filter"
             /\ wire' = wire
    <3>1. bb' \in Brigades
      BY <2>3, <2>6, EmptyBrigadeType DEF Brigades
    <3>2. QED
      BY <1>4, <2>5, <2>6, <3>1, TypeOKPartsPrime DEF HandlerPasses, PCs
  <2>7. CASE /\ PassBrigade(err, Data(k), ThisRequest(f(k, eos)),
                            IF eos THEN "log" ELSE "handler")
             /\ bb' = bb
    <3>1. (IF eos THEN "log" ELSE "handler") \in PCs
      BY DEF PCs
    <3>2. ChainOK(reqs') /\ wire' \in Wires /\ pc' \in PCs
      BY <2>3, <2>5, <2>7, <3>1, PassBrigadeType
    <3>3. QED
      BY <1>4, <2>7, <3>2, TypeOKPartsPrime DEF HandlerPasses
  <2>8. QED
    BY <2>1, <2>6, <2>7
<1>5. CASE HandlerFails
  <2>1. Served
    BY <1>0, <1>5, ReturnStatusType DEF HandlerFails
  <2>2. QED
    BY <1>5, <2>1, TypeOKPartsPrime DEF HandlerFails, Served
<1>6. CASE HandlerRedirects
  <2>1. ChainOK(reqs') /\ wire' \in Wires /\ pc' \in PCs
    BY <1>0, <1>6, InternalRedirectType DEF HandlerRedirects
  <2>2. QED
    BY <1>6, <2>1, TypeOKPartsPrime DEF HandlerRedirects
<1>7. CASE HandlerStops
  <2>1. CASE ReturnStatus(HTTP_INTERNAL_SERVER_ERROR)
    <3>1. Served
      BY <2>1, ReturnStatusType DEF HTTP_INTERNAL_SERVER_ERROR
    <3>2. QED
      BY <1>7, <3>1, TypeOKPartsPrime DEF HandlerStops, Served
  <2>2. CASE ~ReturnStatus(HTTP_INTERNAL_SERVER_ERROR)
    <3>1. req.status \in Nat /\ <<>> \in Seq(Buckets)
      BY <1>0 DEF Requests
    <3>2. Sent(cur, req.status, <<>>) \in Wires
      BY <1>0, <3>1, SentType
    <3>3. wire' \in Wires /\ reqs' = reqs /\ pc' = "log"
      BY <1>7, <2>2, <3>2 DEF HandlerStops
    <3>4. QED
      BY <1>0, <1>7, <3>3, TypeOKPartsPrime DEF HandlerStops, PCs
  <2>3. QED
    BY <2>1, <2>2
<1>8. QED
  BY <1>1, <1>2, <1>3, <1>4, <1>5, <1>6, <1>7 DEF Handler

(* The logging hook keeps the types.                                       *)
LEMMA LogType ==
    ASSUME TypeOK, coraza_log_transaction
    PROVE  TypeOK'
<1> USE TypeOKParts
<1>1. engine' \in Engines
  <2>1. Append(engine.audit, engine.status) \in Seq(Nat)
    BY DEF Engines
  <2>2. coraza_process_logging(engine) \in Engines
    BY <2>1 DEF coraza_process_logging, Engines
  <2>3. QED
    BY <2>2 DEF coraza_log_transaction
<1>2. ctx' \in Contexts
  <2>1. (ctx.logged \/ Logs(reqs[1], ctx)) \in BOOLEAN
    OBVIOUS
  <2>2. QED
    BY <2>1 DEF coraza_log_transaction, Contexts
<1>3. QED
  BY <1>1, <1>2, TypeOKPartsPrime DEF coraza_log_transaction, PCs

(* The initial states have the types.                                      *)
LEMMA InitType ==
    ASSUME Init
    PROVE  TypeOK
<1>1. PICK on \in BOOLEAN : reqs = <<NewRequest(on, HTTP_OK, 1)>>
  BY DEF Init
<1>2. NewRequest(on, HTTP_OK, 1) \in Requests /\ NewRequest(on, HTTP_OK, 1).first = 1
  BY BoundsAssumption DEF NewRequest, Requests, HTTP_OK
<1>3. ChainOK(reqs)
  BY <1>1, <1>2, BoundsAssumption DEF ChainOK
<1>4. <<>> \in Seq(Buckets) /\ <<>> \in Seq(Nat) /\ <<>> \in Seq(1..MaxBody)
  OBVIOUS
<1>5. ctx \in Contexts /\ bb \in Brigades
  BY <1>4, EmptyBrigadeType DEF Init, FreshCtx, Contexts
<1>6. engine \in Engines
  BY <1>4, BoundsAssumption DEF Init, FreshEngine, Engines
<1>7. body \in Bodies /\ body.read <= body.sent
  BY <1>4, BoundsAssumption DEF Init, Bodies
<1>8. wire \in Wires /\ hist \in Histories /\ pc \in PCs
  BY <1>4, BoundsAssumption DEF Init, Wires, Histories, PCs
<1>9. QED
  BY <1>3, <1>5, <1>6, <1>7, <1>8, TypeOKParts DEF Init

(* So does a step that changes nothing.                                    *)
LEMMA StutterType ==
    ASSUME TypeOK, UNCHANGED vars
    PROVE  TypeOK'
  BY TypeOKParts, TypeOKPartsPrime DEF vars

(* Every variable keeps its type, whatever the rules, the handler and the  *)
(* redirect chain do.                                                      *)
THEOREM TypeCorrect == Spec => []TypeOK
<1>1. Init => TypeOK
  BY InitType
<1>2. TypeOK /\ [Next]_vars => TypeOK'
  <2> SUFFICES ASSUME TypeOK, [Next]_vars PROVE TypeOK'
    OBVIOUS
  <2>1. QED
    BY FixupsType, OutputFilterType, HandlerType, LogType, StutterType DEF Next, Done
<1>3. QED
  BY <1>1, <1>2, PTL DEF Spec

---------------------------------------------------------------------------
(* The safety invariants.                                                  *)

(* rs is the chain with other statuses and maybe without CORAZA_OUT.       *)
Alike(rs) ==
    /\ Len(rs) = Len(reqs)
    /\ \A i \in 1..Len(reqs) :
         /\ rs[i].hasCtx = reqs[i].hasCtx
         /\ rs[i].enable = reqs[i].enable
         /\ rs[i].outFilter => reqs[i].outFilter

(* No request_rec gains or loses the context, new ones do not have it.     *)
SameContexts ==
    /\ Len(reqs) <= Len(reqs')
    /\ \A i \in 1..Len(reqs) :
         /\ reqs'[i].hasCtx = reqs[i].hasCtx
         /\ reqs'[i].enable = reqs[i].enable
         /\ reqs'[i].outFilter => reqs[i].outFilter
    /\ \A i \in (Len(reqs) + 1)..Len(reqs') :
         ~reqs'[i].hasCtx /\ ~reqs'[i].outFilter

LastStatus == reqs'[Len(reqs')].status

(* Replacing the current request_rec by one with the same context.         *)
LEMMA ThisRequestAlike ==
    ASSUME ChainOK(reqs), NEW f \in Requests, f.first = req.first,
           f.hasCtx = req.hasCtx, f.enable = req.enable,
           f.outFilter => req.outFilter
    PROVE  Alike(ThisRequest(f)) /\ ChainOK(ThisRequest(f))
           /\ ThisRequest(f)[Len(reqs)].status = f.status
<1>1. /\ ChainOK(ThisRequest(f))
      /\ Len(ThisRequest(f)) = Len(reqs)
      /\ ThisRequest(f)[Len(reqs)] = f
      /\ \A i \in 1..Len(reqs) : i # Len(reqs) => ThisRequest(f)[i] = reqs[i]
  BY ThisRequestType
<1>2. QED
  BY <1>1 DEF Alike, req, cur

(* An internal redirect of such a chain.                                   *)
LEMMA RedirectEffect ==
    ASSUME ChainOK(reqs), NEW rs, ChainOK(rs), Alike(rs), InternalRedirect(rs)
    PROVE  /\ SameContexts /\ pc' = "fixups" /\ Len(reqs') = Len(reqs) + 1
           /\ LastStatus = rs[Len(rs)].status
<1> DEFINE last == rs[Len(rs)]
           first == IF last.status = HTTP_OK THEN Len(rs) + 1 ELSE last.first
<1>1. PICK on \in BOOLEAN : reqs' = Append(rs, NewRequest(on, last.status, first))
  BY DEF InternalRedirect
<1>2. /\ NewRequest(on, last.status, first).hasCtx = FALSE
      /\ NewRequest(on, last.status, first).outFilter = FALSE
      /\ NewRequest(on, last.status, first).status = last.status
  BY DEF NewRequest
<1> DEFINE new == NewRequest(on, last.status, first)
<1> HIDE DEF new
<1>3. /\ Len(reqs') = Len(rs) + 1 /\ reqs'[Len(rs) + 1] = new
      /\ \A i \in 1..Len(rs) : reqs'[i] = rs[i]
  BY <1>1 DEF ChainOK, new
<1>4. Len(rs) = Len(reqs) /\ Len(rs) \in Nat
  BY DEF Alike, ChainOK
<1>5. QED
  BY <1>2, <1>3, <1>4 DEF SameContexts, Alike, LastStatus, InternalRedirect, new

(* ap_die redirects to a new request_rec with the error's status, or ends  *)
(* the request.                                                            *)
LEMMA DieEffect ==
    ASSUME ChainOK(reqs), NEW rs, ChainOK(rs), Alike(rs), NEW type \in Nat, NEW rec,
           ap_die(type, rec, rs)
    PROVE  /\ SameContexts
           /\ \/ pc' = "log"
              \/ pc' = "fixups" /\ Len(reqs') = Len(reqs) + 1 /\ LastStatus = type
<1> DEFINE n == Len(rs)
           last == [rs[n] EXCEPT !.status = type]
           dead == [rs EXCEPT ![n].status = type]
<1>1. n \in 1..MaxReqs /\ rs[n] \in Requests /\ n = Len(reqs)
  BY BoundsAssumption DEF ChainOK, Alike
<1>2. /\ last \in Requests /\ last.hasCtx = rs[n].hasCtx /\ last.enable = rs[n].enable
      /\ last.outFilter = rs[n].outFilter /\ last.first = rs[n].first /\ last.status = type
  BY <1>1 DEF Requests
<1>3. dead = [rs EXCEPT ![n] = last]
  BY <1>1 DEF ChainOK
<1> HIDE DEF last, dead
<1>4. ChainOK(dead) /\ Alike(dead) /\ Len(dead) = n /\ dead[n] = last
  BY <1>1, <1>2, <1>3 DEF ChainOK, Alike
<1>5. CASE InternalRedirect(dead)
  BY <1>2, <1>4, <1>5, RedirectEffect
<1>6. ASSUME NEW i, SendErrorResponse(i, dead)
      PROVE  SameContexts /\ pc' = "log"
  <2> DEFINE page == [dead[n] EXCEPT !.outFilter = FALSE, !.eos_sent = TRUE]
  <2>1. dead[n] \in Requests
    BY <1>2, <1>4
  <2>2. page.hasCtx = dead[n].hasCtx /\ page.enable = dead[n].enable /\ page.outFilter = FALSE
    BY <2>1 DEF Requests
  <2>3. reqs' = [dead EXCEPT ![n] = page]
    BY <1>1, <1>4, <1>6 DEF SendErrorResponse, ChainOK
  <2> HIDE DEF page
  <2>4. Len(reqs') = n /\ reqs'[n] = page
        /\ \A j \in 1..n : j # n => reqs'[j] = dead[j]
    BY <1>1, <1>4, <2>3 DEF ChainOK
  <2>5. SameContexts
    BY <1>1, <1>4, <2>2, <2>4 DEF SameContexts, Alike
  <2>6. QED
    BY <1>6, <2>5 DEF SendErrorResponse
<1>7. QED
  BY <1>5, <1>6 DEF ap_die, dead

(* A brigade that is passed on leaves the chain, or dies with a 502.       *)
LEMMA PassEffect ==
    ASSUME ChainOK(reqs), NEW rs, ChainOK(rs), Alike(rs), NEW data, NEW next, NEW err,
           PassBrigade(err, data, rs, next)
    PROVE  /\ SameContexts
           /\ \/ pc' = "log"
              \/ pc' = "fixups" /\ Len(reqs') = Len(reqs) + 1 /\ LastStatus = HTTP_BAD_GATEWAY
              \/ pc' = next /\ reqs' = rs
<1>1. CASE ap_die(HTTP_BAD_GATEWAY, rs[Len(rs)].status, rs)
  BY <1>1, DieEffect DEF HTTP_BAD_GATEWAY
<1>2. CASE reqs' = rs /\ pc' = next
  BY <1>2 DEF SameContexts, Alike, ChainOK
<1>3. QED
  BY <1>1, <1>2 DEF PassBrigade

(* What the chain keeps when no request_rec gains or loses the context.    *)
LEMMA SameContextsKeep ==
    ASSUME TypeOK, TypeOK', ChainInv, SameContexts
    PROVE  /\ Inspected' <=> Inspected
           /\ \A i \in 1..Len(reqs') : /\ reqs'[i].hasCtx => reqs'[i].enable
                                       /\ reqs'[i].outFilter => reqs'[i].hasCtx
           /\ reqs'[1].hasCtx = reqs[1].hasCtx
           /\ Len(reqs') = Len(reqs) => req'.hasCtx = req.hasCtx
           /\ Len(reqs') = Len(reqs) + 1 => ~req'.hasCtx
<1>1. Len(reqs) \in Nat /\ Len(reqs') \in Nat /\ Len(reqs) >= 1 /\ Len(reqs') >= 1
  BY DEF TypeOK
<1>2. QED
  BY <1>1 DEF SameContexts, ChainInv, Inspected, req, cur

(* A step that denies: it starts where none was denied before, and leaves  *)
(* for the error page, the logging or the handler.                         *)
LEMMA DenyStep ==
    ASSUME TypeOK, TypeOK', IInv, SameContexts,
           pc \in HookPCs \cup FilterPCs \cup {"filter"},
           ~ctx.intervention_triggered,
           pc' \in {"fixups", "log", "filter_error"},
           pc' = "fixups" => Len(reqs') = Len(reqs) + 1 /\ LastStatus # HTTP_OK,
           ctx'.intervention_triggered,
           engine'.txs = engine.txs, engine'.enforced \in {0, 1},
           \/ ctx'.logged = ctx.logged /\ engine'.audit = engine.audit
           \/ ctx'.logged /\ engine'.audit = <<engine'.status>>
    PROVE  IInv'
<1>1. /\ Inspected /\ Inspected'
      /\ \A i \in 1..Len(reqs') : /\ reqs'[i].hasCtx => reqs'[i].enable
                                  /\ reqs'[i].outFilter => reqs'[i].hasCtx
      /\ Len(reqs') = Len(reqs) + 1 => ~req'.hasCtx
  <2>1. req.hasCtx /\ Len(reqs) \in 1..MaxReqs
    BY DEF IInv, ChainInv, TypeOK
  <2>2. Inspected
    BY <2>1 DEF Inspected, req, cur
  <2>3. QED
    BY <2>2, SameContextsKeep DEF IInv
<1>2. ~ctx.logged /\ engine.audit = <<>>
  BY DEF IInv, LogInv, HookPCs, FilterPCs
<1>3. ChainInv'
  BY <1>1 DEF ChainInv, HookPCs, FilterPCs
<1>4. TransactionInv'
  BY <1>1 DEF IInv, TransactionInv
<1>5. DenyInv'
  BY DEF DenyInv, HookPCs, FilterPCs
<1>6. LogInv'
  <2>1. CASE ctx'.logged = ctx.logged /\ engine'.audit = engine.audit
    BY <1>2, <2>1 DEF LogInv
  <2>2. CASE ctx'.logged /\ engine'.audit = <<engine'.status>>
    BY <2>2 DEF LogInv
  <2>3. QED
    BY <2>1, <2>2
<1>7. BodyInv'
  BY DEF BodyInv, LastStatus, req, cur, FilterPCs, HookPCs
<1>8. QED
  BY <1>3, <1>4, <1>5, <1>6, <1>7 DEF IInv

(* A step that moves the response on: from the handler or the filter to    *)
(* one of them, to a new request_rec, or to the logging.                   *)
LEMMA MoveStep ==
    ASSUME TypeOK, TypeOK', IInv, SameContexts,
           pc \in {"fixups", "handler", "filter", "filter_error"} \cup HookPCs \cup FilterPCs,
           body' = body,
           ctx'.intervention_triggered = ctx.intervention_triggered,
           ctx'.logged = ctx.logged, ctx'.phase2_done = ctx.phase2_done,
           engine'.txs = engine.txs, engine'.enforced = engine.enforced,
           engine'.audit = engine.audit, engine'.status = engine.status,
           \/ pc' \in {"log", "filter_error"}
           \/ /\ pc' = "fixups" /\ Len(reqs') = Len(reqs) + 1
              /\ LastStatus # HTTP_OK \/ (pc = "handler" /\ LastStatus = req.status)
           \/ /\ pc \in {"handler", "filter"} \cup FilterPCs
              /\ pc' \in {"handler", "filter"} \cup FilterPCs
              /\ Len(reqs') = Len(reqs)
              /\ LastStatus = HTTP_OK => req.status = HTTP_OK
              /\ pc' \in FilterPCs => ~ctx.intervention_triggered
              /\ pc' \in FilterPCs \cup {"filter"} => req.hasCtx
    PROVE  IInv'
<1>1. /\ Inspected' <=> Inspected
      /\ \A i \in 1..Len(reqs') : /\ reqs'[i].hasCtx => reqs'[i].enable
                                  /\ reqs'[i].outFilter => reqs'[i].hasCtx
      /\ Len(reqs') = Len(reqs) => req'.hasCtx = req.hasCtx
      /\ Len(reqs') = Len(reqs) + 1 => ~req'.hasCtx
  BY SameContextsKeep DEF IInv
<1>2. ChainInv'
  BY <1>1 DEF ChainInv, HookPCs, FilterPCs
<1>3. TransactionInv'
  BY <1>1 DEF IInv, TransactionInv
<1>4. DenyInv'
  BY DEF IInv, DenyInv, HookPCs, FilterPCs
<1>5. LogInv'
  BY DEF IInv, LogInv, HookPCs, FilterPCs
<1>6. BodyInv'
  <2>1. SavedIsSubmitted' <=> SavedIsSubmitted
    BY DEF SavedIsSubmitted
  <2>2. LastStatus = req'.status
    BY DEF LastStatus, req, cur
  <2>3. QED
    BY <1>1, <2>1, <2>2 DEF IInv, BodyInv, HookPCs, FilterPCs
<1>7. QED
  BY <1>2, <1>3, <1>4, <1>5, <1>6 DEF IInv

(* What a hook or handler returns goes through ap_die.                     *)
LEMMA ReturnStatusEffect ==
    ASSUME TypeOK, NEW type \in Nat, ReturnStatus(type)
    PROVE  /\ SameContexts
           /\ \/ pc' = "log"
              \/ pc' = "fixups" /\ Len(reqs') = Len(reqs) + 1 /\ LastStatus = type
<1>1. ChainOK(reqs) /\ Alike(reqs)
  BY TypeOKParts DEF Alike
<1>2. QED
  BY <1>1, DieEffect DEF ReturnStatus

(* Failing closed in the hook.                                             *)
LEMMA FailClosedInv ==
    ASSUME TypeOK, TypeOK', IInv, FailClosed, pc \in HookPCs, engine' = engine
    PROVE  IInv'
<1>1. /\ SameContexts
      /\ \/ pc' = "log"
         \/ pc' = "fixups" /\ Len(reqs') = Len(reqs) + 1 /\ LastStatus = 500
  BY ReturnStatusEffect DEF FailClosed, HTTP_INTERNAL_SERVER_ERROR
<1>2. ctx'.intervention_triggered /\ ctx'.logged = ctx.logged
  BY TypeOKParts DEF FailClosed, Contexts
<1>3. ~ctx.intervention_triggered /\ engine.enforced \in {0, 1}
  BY DEF IInv, DenyInv
<1>4. QED
  BY <1>1, <1>2, <1>3, DenyStep DEF HTTP_OK

(* An intervention is counted; the hook also logs it at once.              *)
LEMMA DeniedEngine ==
    ASSUME NEW e \in Engines, NEW iv \in Interventions
    PROVE  LET late  == EngineAfterIntervention(e, iv, FALSE)
               early == EngineAfterIntervention(e, iv, TRUE)
           IN  /\ late.txs = e.txs
               /\ late.enforced = e.enforced + 1
               /\ late.audit = e.audit
               /\ Logs(req, ctx) => /\ early.txs = e.txs
                                    /\ early.enforced = e.enforced + 1
                                    /\ early.audit = Append(e.audit, early.status)
<1> DEFINE status == EnforcedStatus(iv)
           u == [e EXCEPT !.status = status, !.enforced = @ + 1]
<1>0. status \in Nat /\ e.enforced + 1 \in Nat
  BY EnforcedStatusType DEF Engines
<1> HIDE DEF status
<1>1. u \in Engines
  BY <1>0 DEF Engines
<1>2. u.txs = e.txs /\ u.audit = e.audit /\ u.enforced = e.enforced + 1
  BY DEF Engines
<1>3. EngineAfterIntervention(e, iv, FALSE) = u
  BY DEF EngineAfterIntervention, status
<1>4. Logs(req, ctx) => EngineAfterIntervention(e, iv, TRUE) = coraza_process_logging(u)
  BY DEF EngineAfterIntervention, status
<1> HIDE DEF u
<1>5. /\ coraza_process_logging(u).txs = u.txs
      /\ coraza_process_logging(u).enforced = u.enforced
      /\ coraza_process_logging(u).status = u.status
      /\ coraza_process_logging(u).audit = Append(u.audit, u.status)
  BY <1>1 DEF coraza_process_logging, Engines
<1>6. QED
  BY <1>2, <1>3, <1>4, <1>5

(* An intervention found by the hook.                                      *)
LEMMA IntervenesInv ==
    ASSUME TypeOK, TypeOK', IInv, pc \in HookPCs,
           NEW c \in Contexts, NEW e \in Engines, Intervenes(c, e),
           e.txs = engine.txs, e.enforced = engine.enforced, e.audit = engine.audit
    PROVE  IInv'
<1>1. PICK iv \in Interventions : coraza_enforce_intervention(iv, c, e)
  BY DEF Intervenes
<1>2. /\ ~ctx.intervention_triggered /\ engine.enforced = 0
      /\ ~ctx.logged /\ engine.audit = <<>>
      /\ req.enable /\ req.hasCtx
  <2>1. ~ctx.intervention_triggered /\ engine.enforced = 0
    BY DEF IInv, DenyInv
  <2>2. ~ctx.logged /\ engine.audit = <<>>
    BY <2>1 DEF IInv, LogInv, HookPCs
  <2>3. req.hasCtx /\ Len(reqs) \in 1..MaxReqs
    BY DEF IInv, ChainInv, TypeOK
  <2>4. req.enable
    BY <2>3 DEF IInv, ChainInv, req, cur
  <2>5. QED
    BY <2>1, <2>2, <2>3, <2>4
<1>3. ctx'.intervention_triggered /\ ctx'.logged
  BY <1>1 DEF coraza_enforce_intervention, CtxAfterIntervention, Contexts
<1>4. /\ engine'.txs = engine.txs /\ engine'.enforced = 1
      /\ engine'.audit = <<engine'.status>>
  <2>1. Logs(req, ctx)
    BY <1>2 DEF Logs
  <2>2. engine' = EngineAfterIntervention(e, iv, TRUE)
    BY <1>1 DEF coraza_enforce_intervention
  <2>3. /\ engine'.txs = e.txs /\ engine'.enforced = e.enforced + 1
        /\ engine'.audit = Append(e.audit, engine'.status)
    BY <2>1, <2>2, DeniedEngine
  <2>4. Append(<<>>, engine'.status) = <<engine'.status>>
    OBVIOUS
  <2>5. e.enforced = 0 /\ e.audit = <<>>
    BY <1>2
  <2>6. QED
    BY <2>3, <2>4, <2>5
<1>5. /\ SameContexts /\ pc' \in {"fixups", "log"}
      /\ pc' = "fixups" => Len(reqs') = Len(reqs) + 1 /\ LastStatus # HTTP_OK
  <2>1. CASE IsDrop(iv)
    <3> DEFINE f == [req EXCEPT !.status = HTTP_FORBIDDEN]
    <3>1. /\ f \in Requests /\ f.first = req.first /\ f.hasCtx = req.hasCtx
          /\ f.enable = req.enable /\ f.outFilter = req.outFilter
      BY TypeOKParts, ReqType DEF Requests, HTTP_FORBIDDEN
    <3>2. reqs' = ThisRequest(f) /\ pc' = "log"
      BY <1>1, <2>1 DEF coraza_enforce_intervention
    <3> HIDE DEF f
    <3>3. Alike(reqs') /\ ChainOK(reqs')
      BY <3>1, <3>2, TypeOKParts, ThisRequestAlike
    <3>4. QED
      BY <3>2, <3>3, TypeOKParts DEF SameContexts, Alike, ChainOK
  <2>2. CASE ~IsDrop(iv)
    <3>1. EnforcedStatus(iv) \in Nat /\ EnforcedStatus(iv) # HTTP_OK
      BY EnforcedStatusType
    <3>2. QED
      BY <1>1, <2>2, <3>1, ReturnStatusEffect DEF coraza_enforce_intervention
  <2>3. QED
    BY <2>1, <2>2
<1>6. QED
  BY <1>2, <1>3, <1>4, <1>5, DenyStep
---------------------------------------------------------------------------
(* The filter dies with an error page, or returns an error to the handler. *)
LEMMA FilterDiesEffect ==
    ASSUME TypeOK, NEW status \in Nat, coraza_die(status) \/ ErrorToHandler(status)
    PROVE  /\ SameContexts
           /\ pc' \in {"fixups", "log", "filter_error"}
           /\ pc' = "fixups" => Len(reqs') = Len(reqs) + 1 /\ LastStatus = status
<1>1. CASE coraza_die(status)
  <2> DEFINE f == [req EXCEPT !.outFilter = FALSE, !.status = HTTP_OK]
  <2>1. /\ f \in Requests /\ f.first = req.first /\ f.hasCtx = req.hasCtx
        /\ f.enable = req.enable /\ f.outFilter = FALSE
    BY TypeOKParts, ReqType, OkIsNat DEF Requests
  <2>2. ap_die(status, HTTP_OK, ThisRequest(f))
    BY <1>1 DEF coraza_die
  <2> HIDE DEF f
  <2>3. Alike(ThisRequest(f)) /\ ChainOK(ThisRequest(f))
    BY <2>1, TypeOKParts, ThisRequestAlike
  <2>4. QED
    BY <2>2, <2>3, TypeOKParts, DieEffect
<1>2. CASE ErrorToHandler(status)
  <2> DEFINE f == [req EXCEPT !.outFilter = FALSE, !.status = status]
  <2>1. /\ f \in Requests /\ f.first = req.first /\ f.hasCtx = req.hasCtx
        /\ f.enable = req.enable /\ f.outFilter = FALSE
    BY TypeOKParts, ReqType DEF Requests
  <2>2. reqs' = ThisRequest(f) /\ pc' = "filter_error"
    BY <1>2 DEF ErrorToHandler
  <2> HIDE DEF f
  <2>3. Alike(reqs') /\ ChainOK(reqs')
    BY <2>1, <2>2, TypeOKParts, ThisRequestAlike
  <2>4. QED
    BY <2>2, <2>3, TypeOKParts DEF SameContexts, Alike, ChainOK
<1>3. QED
  BY <1>1, <1>2

(* A denial in the filter, whatever its cause.                             *)
LEMMA FilterDenies ==
    ASSUME TypeOK, TypeOK', IInv, pc \in FilterPCs \cup {"filter"},
           ~ctx.intervention_triggered,
           NEW c \in Contexts, c.logged = ctx.logged, Deny(c),
           NEW status \in Nat, status # HTTP_OK,
           coraza_die(status) \/ ErrorToHandler(status),
           engine'.txs = engine.txs, engine'.audit = engine.audit,
           engine'.enforced \in {0, 1}
    PROVE  IInv'
<1>1. ctx'.intervention_triggered /\ ctx'.logged = ctx.logged
  BY DEF Deny, Contexts
<1>2. QED
  BY <1>1, FilterDiesEffect, DenyStep

(* Where the filter works, nothing has been denied or logged.              *)
LEMMA FilterClean ==
    ASSUME TypeOK, IInv, pc \in FilterPCs \/ (pc = "filter" /\ ~MustStepAside)
    PROVE  /\ ~ctx.intervention_triggered /\ engine.enforced = 0
           /\ ctx \in Contexts /\ engine \in Engines
           /\ pc \in FilterPCs \cup {"filter"}
  BY DEF IInv, DenyInv, MustStepAside, TypeOK

(* Failing closed in the filter.                                           *)
LEMMA FailClosedResponseInv ==
    ASSUME TypeOK, TypeOK', IInv, pc \in FilterPCs,
           NEW c \in Contexts, c.logged = ctx.logged,
           coraza_fail_closed_response(c)
    PROVE  IInv'
<1>1. /\ Deny(c) /\ engine' = engine
      /\ coraza_die(500) \/ ErrorToHandler(500)
  BY DEF coraza_fail_closed_response, HTTP_INTERNAL_SERVER_ERROR
<1>2. QED
  BY <1>1, FilterClean, FilterDenies DEF HTTP_OK

(* An intervention found by the filter.                                    *)
LEMMA FilterIntervenesInv ==
    ASSUME TypeOK, TypeOK', IInv,
           pc \in FilterPCs \/ (pc = "filter" /\ ~MustStepAside),
           NEW c \in Contexts, c.logged = ctx.logged,
           NEW e \in Engines, e.txs = engine.txs, e.enforced = engine.enforced,
           e.audit = engine.audit,
           NEW unsent, FilterIntervenes(c, e, unsent)
    PROVE  IInv'
<1>1. PICK iv \in Interventions :
        /\ Deny(CtxAfterIntervention(c, iv, FALSE))
        /\ engine' = EngineAfterIntervention(e, iv, FALSE)
        /\ \/ IsDrop(iv) /\ coraza_drop_response
           \/ /\ ~IsDrop(iv)
              /\ conn' = conn
              /\ IF unsent THEN coraza_die(EnforcedStatus(iv))
                 ELSE ErrorToHandler(EnforcedStatus(iv))
  BY DEF FilterIntervenes
<1> DEFINE d == CtxAfterIntervention(c, iv, FALSE)
<1>2. d.logged = ctx.logged
  BY DEF CtxAfterIntervention, Contexts
<1>3. d \in Contexts
  BY CtxAfterInterventionType
<1>4. PICK status \in Nat \ {HTTP_OK} : coraza_die(status) \/ ErrorToHandler(status)
  <2>1. CASE IsDrop(iv)
    BY <1>1, <2>1 DEF coraza_drop_response, HTTP_FORBIDDEN, HTTP_OK
  <2>2. CASE ~IsDrop(iv)
    <3>1. EnforcedStatus(iv) \in Nat \ {HTTP_OK}
      BY EnforcedStatusType
    <3>2. coraza_die(EnforcedStatus(iv)) \/ ErrorToHandler(EnforcedStatus(iv))
      BY <1>1, <2>2
    <3>3. QED
      BY <3>1, <3>2
  <2>3. QED
    BY <2>1, <2>2
<1>5. engine'.txs = engine.txs /\ engine'.audit = engine.audit /\ engine'.enforced = 1
  <2>1. engine.enforced = 0
    BY FilterClean
  <2>2. /\ engine'.txs = e.txs /\ engine'.audit = e.audit
        /\ engine'.enforced = e.enforced + 1
    <3>1. engine' = EngineAfterIntervention(e, iv, FALSE)
      BY <1>1
    <3>2. QED
      BY <3>1, DeniedEngine
  <2>3. QED
    BY <2>1, <2>2
<1> HIDE DEF d
<1>6. Deny(d)
  BY <1>1 DEF d
<1>7. QED
  BY <1>2, <1>3, <1>4, <1>5, <1>6, FilterClean, FilterDenies
(* What MoveStep asks of the context and the engine.                       *)
Untouched(c, e) ==
    /\ c.intervention_triggered = ctx.intervention_triggered
    /\ c.logged = ctx.logged
    /\ c.phase2_done = ctx.phase2_done
    /\ e.txs = engine.txs
    /\ e.enforced = engine.enforced
    /\ e.audit = engine.audit
    /\ e.status = engine.status

(* Evaluating a phase changes nothing else.                                *)
LEMMA RanEffect ==
    ASSUME TypeOK, NEW p \in 1..4
    PROVE  LET e == Ran(engine, p) IN
           /\ e.txs = engine.txs /\ e.enforced = engine.enforced
           /\ e.audit = engine.audit /\ e.status = engine.status
<1>1. Ran(engine, p) = [engine EXCEPT !.ran = [engine.ran EXCEPT ![p] = @ + 1]]
  BY TypeOKParts DEF Ran, Engines
<1> DEFINE ran == [engine.ran EXCEPT ![p] = @ + 1]
<1> HIDE DEF ran
<1>2. Ran(engine, p) = [engine EXCEPT !.ran = ran]
  BY <1>1 DEF ran
<1>3. QED
  BY <1>2, TypeOKParts DEF Engines

(* The filter hands a brigade on and returns.                              *)
LEMMA PassOnInv ==
    ASSUME TypeOK, TypeOK', IInv, pc \in FilterPCs \cup {"filter"},
           NEW data, NEW rs, rs \in {reqs, WithoutFilter}, PassOn(data, rs),
           body' = body, Untouched(ctx', engine')
    PROVE  IInv'
<1> DEFINE f == [req EXCEPT !.outFilter = FALSE]
<1>1. /\ f \in Requests /\ f.first = req.first /\ f.hasCtx = req.hasCtx
      /\ f.enable = req.enable /\ f.outFilter = FALSE /\ f.status = req.status
  BY TypeOKParts, ReqType DEF Requests
<1> HIDE DEF f
<1>2. WithoutFilter = ThisRequest(f)
  BY DEF WithoutFilter, f
<1>3. Alike(rs) /\ ChainOK(rs) /\ rs[Len(reqs)].status = req.status /\ Len(rs) = Len(reqs)
  <2>1. CASE rs = reqs
    BY <2>1, TypeOKParts DEF Alike, req, cur
  <2>2. CASE rs = WithoutFilter
    BY <1>1, <1>2, <2>2, TypeOKParts, ThisRequestAlike DEF Alike
  <2>3. QED
    BY <2>1, <2>2
<1>4. PassBrigade(bb.err, data, rs, Returned)
  BY DEF PassOn
<1>5. /\ SameContexts
      /\ \/ pc' = "log"
         \/ pc' = "fixups" /\ Len(reqs') = Len(reqs) + 1 /\ LastStatus = HTTP_BAD_GATEWAY
         \/ pc' = Returned /\ reqs' = rs
  BY <1>3, <1>4, TypeOKParts, PassEffect
<1>6. CASE pc' = Returned /\ reqs' = rs
  <2>1. pc' \in {"log", "handler"} /\ Len(reqs') = Len(reqs) /\ LastStatus = req.status
    BY <1>3, <1>6 DEF Returned, LastStatus
  <2>2. QED
    BY <1>5, <2>1, MoveStep DEF Untouched, FilterPCs
<1>7. QED
  BY <1>5, <1>6, MoveStep DEF Untouched, HTTP_BAD_GATEWAY, HTTP_OK

(* The filter works on, or returns without passing anything.               *)
LEMMA WorkOnInv ==
    ASSUME TypeOK, TypeOK', IInv,
           pc \in FilterPCs \/ (pc = "filter" /\ ~MustStepAside),
           pc' \in FilterPCs \cup {"handler"},
           reqs' = reqs, body' = body, Untouched(ctx', engine')
    PROVE  IInv'
<1>1. SameContexts /\ LastStatus = req.status /\ Len(reqs') = Len(reqs)
  BY TypeOKParts DEF SameContexts, LastStatus, req, cur, ChainOK
<1>2. req.hasCtx
  BY DEF IInv, ChainInv
<1>3. QED
  BY <1>1, <1>2, FilterClean, MoveStep DEF Untouched, FilterPCs

(* The output filter preserves the invariant.                              *)
LEMMA OutputFilterInv ==
    ASSUME TypeOK, IInv, OutputFilter
    PROVE  IInv'
<1>0. TypeOK'
  BY OutputFilterType
<1>a. ctx \in Contexts /\ engine \in Engines
  BY TypeOKParts
<1>b. \A p \in 1..4 : /\ Ran(engine, p) \in Engines
                      /\ Ran(engine, p).txs = engine.txs
                      /\ Ran(engine, p).enforced = engine.enforced
                      /\ Ran(engine, p).audit = engine.audit
                      /\ Ran(engine, p).status = engine.status
  BY <1>a, RanType, RanEffect
<1> DEFINE c4 == [ctx EXCEPT !.phase4_done = TRUE]
<1>c. /\ c4 \in Contexts /\ c4.logged = ctx.logged
      /\ c4.intervention_triggered = ctx.intervention_triggered
      /\ c4.phase2_done = ctx.phase2_done
  BY <1>a DEF Contexts
<1>d. /\ Counted \in Contexts /\ Counted.logged = ctx.logged
      /\ Counted.intervention_triggered = ctx.intervention_triggered
      /\ Counted.phase2_done = ctx.phase2_done
  <2>1. ctx.pending_len + 1 \in Nat
    BY <1>a DEF Contexts
  <2>2. QED
    BY <1>a, <2>1 DEF Counted, Contexts
<1>1. CASE FilterStepsAside
  BY <1>0, <1>1, PassOnInv DEF FilterStepsAside, Untouched
<1>2. CASE FilterReenters
  BY <1>0, <1>2, WorkOnInv DEF FilterReenters, Untouched, FilterPCs
<1>3. CASE ProcessResponseHeaders
  <2> DEFINE evaluated == [Ran(engine, 3) EXCEPT !.headersOf = cur]
             c(p) == [ctx EXCEPT !.phase3_done = TRUE, !.response_body_processable = p]
  <2>1. /\ evaluated.txs = engine.txs /\ evaluated.enforced = engine.enforced
        /\ evaluated.audit = engine.audit /\ evaluated.status = engine.status
        /\ evaluated \in Engines
    <3>1. cur \in 0..MaxReqs
      BY TypeOKParts, ReqType
    <3>2. Ran(engine, 3) \in Engines
      BY <1>b
    <3> DEFINE e == Ran(engine, 3)
    <3>3. /\ e.txs = engine.txs /\ e.enforced = engine.enforced
          /\ e.audit = engine.audit /\ e.status = engine.status
      BY <1>b
    <3> HIDE DEF e
    <3>4. [e EXCEPT !.headersOf = cur] \in Engines
      BY <3>1, <3>2 DEF Engines, e
    <3>5. /\ [e EXCEPT !.headersOf = cur].txs = e.txs
          /\ [e EXCEPT !.headersOf = cur].enforced = e.enforced
          /\ [e EXCEPT !.headersOf = cur].audit = e.audit
          /\ [e EXCEPT !.headersOf = cur].status = e.status
      BY <3>2 DEF Engines, e
    <3>6. QED
      BY <3>3, <3>4, <3>5 DEF e
  <2>2. \A p \in BOOLEAN : /\ c(p) \in Contexts /\ c(p).logged = ctx.logged
                           /\ c(p).intervention_triggered = ctx.intervention_triggered
                           /\ c(p).phase2_done = ctx.phase2_done
    BY <1>a DEF Contexts
  <2>3. PICK p \in BOOLEAN :
          \/ FilterIntervenes(c(p), evaluated, TRUE)
          \/ /\ ctx' = c(p) /\ engine' = evaluated
             /\ pc' = IF p THEN "delay" ELSE "phase4"
             /\ UNCHANGED <<client, reqs, body, bb, conn, wire, hist>>
    BY <1>3 DEF ProcessResponseHeaders
  <2>4. pc = "filter" /\ ~MustStepAside
    BY <1>3 DEF ProcessResponseHeaders
  <2> HIDE DEF evaluated, c
  <2>5. CASE FilterIntervenes(c(p), evaluated, TRUE)
    BY <1>0, <2>1, <2>2, <2>4, <2>5, FilterIntervenesInv
  <2>6. CASE /\ ctx' = c(p) /\ engine' = evaluated
             /\ pc' = IF p THEN "delay" ELSE "phase4"
             /\ UNCHANGED <<client, reqs, body, bb, conn, wire, hist>>
    <3>1. pc' \in FilterPCs /\ Untouched(ctx', engine')
      BY <2>1, <2>2, <2>6 DEF FilterPCs, Untouched
    <3>2. QED
      BY <1>0, <2>4, <2>6, <3>1, WorkOnInv
  <2>7. QED
    BY <2>3, <2>5, <2>6
<1>4. CASE ResponseHeadersFail
  <2> DEFINE c == [ctx EXCEPT !.phase3_done = TRUE]
  <2>1. c \in Contexts /\ c.logged = ctx.logged
    BY <1>a DEF Contexts
  <2>2. pc = "filter" /\ ~MustStepAside /\ Deny(c) /\ coraza_die(500) /\ engine' = engine
    BY <1>4 DEF ResponseHeadersFail, HTTP_INTERNAL_SERVER_ERROR
  <2> HIDE DEF c
  <2>3. QED
    BY <1>0, <2>1, <2>2, FilterClean, FilterDenies DEF HTTP_OK
<1>5. CASE FinalizeUninspected
  <2>0. pc \in FilterPCs
    BY <1>5 DEF FinalizeUninspected, FilterPCs
  <2>1. CASE coraza_fail_closed_headers
    <3>1. Deny(ctx) /\ coraza_die(500) /\ engine' = engine
      BY <2>1 DEF coraza_fail_closed_headers, HTTP_INTERNAL_SERVER_ERROR
    <3>2. QED
      BY <1>0, <1>a, <2>0, <3>1, FilterClean, FilterDenies DEF HTTP_OK
  <2>2. CASE FilterIntervenes(c4, Ran(engine, 4), TRUE)
    <3> DEFINE e == Ran(engine, 4)
    <3>1. /\ e \in Engines /\ e.txs = engine.txs /\ e.enforced = engine.enforced
          /\ e.audit = engine.audit
      BY <1>b
    <3> HIDE DEF c4, e
    <3>2. FilterIntervenes(c4, e, TRUE)
      BY <2>2 DEF e
    <3>3. QED
      BY <1>0, <1>c, <2>0, <3>1, <3>2, FilterIntervenesInv
  <2>3. CASE /\ PassOn(bb.todo, WithoutFilter) /\ ctx' = c4
             /\ engine' = Ran(engine, 4) /\ body' = body
    <3>0. 4 \in 1..4
      OBVIOUS
    <3>a. /\ engine'.txs = engine.txs /\ engine'.enforced = engine.enforced
          /\ engine'.audit = engine.audit /\ engine'.status = engine.status
      BY <1>b, <2>3, <3>0
    <3>1. Untouched(ctx', engine')
      BY <1>c, <2>3, <3>a DEF Untouched
    <3>2. QED
      BY <1>0, <2>0, <2>3, <3>1, PassOnInv
  <2>4. QED
    BY <1>5, <2>1, <2>2, <2>3 DEF FinalizeUninspected
<1>6. CASE StreamSse
  BY <1>0, <1>6, PassOnInv DEF StreamSse, Untouched, FilterPCs
<1>7. CASE BeginDelay
  <2>1. Untouched(ctx', engine')
    BY <1>7, <1>a DEF BeginDelay, Untouched, Contexts
  <2>2. QED
    BY <1>0, <1>7, <2>1, WorkOnInv DEF BeginDelay, FilterPCs
<1>8. CASE FlushAtCap
  <2>1. Untouched(ctx', engine')
    BY <1>8, <1>d DEF FlushAtCap, Untouched, Contexts
  <2>2. QED
    BY <1>0, <1>8, <2>1, PassOnInv DEF FlushAtCap, FilterPCs
<1>9. CASE InspectBucket
  <2> DEFINE b == Head(bb.todo)
  <2>0. pc \in FilterPCs
    BY <1>9 DEF InspectBucket, FilterPCs
  <2>1. /\ SubmitBucket(b) \in Engines
        /\ SubmitBucket(b).txs = engine.txs /\ SubmitBucket(b).enforced = engine.enforced
        /\ SubmitBucket(b).audit = engine.audit /\ SubmitBucket(b).status = engine.status
    <3>1. bb.todo \in Seq(Buckets) /\ bb.todo # <<>> /\ engine.seen \in Seq(Buckets)
      BY <1>9, <1>a, TypeOKParts DEF InspectBucket, Brigades, Engines
    <3>2. b \in Buckets
      BY <3>1, HeadTailType
    <3> DEFINE seen == Append(engine.seen, b)
    <3> HIDE DEF b
    <3>3. seen \in Seq(Buckets)
      BY <3>1, <3>2
    <3> HIDE DEF seen
    <3>4. SubmitBucket(b) \in {engine, [engine EXCEPT !.seen = seen]}
      BY DEF SubmitBucket, seen
    <3>5. QED
      BY <1>a, <3>3, <3>4 DEF Engines
  <2>2. CASE FilterIntervenes(Counted, SubmitBucket(b), ctx.headers_delayed)
    BY <1>0, <1>d, <2>0, <2>1, <2>2, FilterIntervenesInv
  <2>3. CASE /\ ctx' = Counted
             /\ engine' = SubmitBucket(b)
             /\ UNCHANGED <<pc, client, reqs, body, conn, wire, hist>>
    <3>1. Untouched(ctx', engine')
      BY <1>d, <2>1, <2>3 DEF Untouched
    <3>2. QED
      BY <1>0, <2>0, <2>3, <3>1, WorkOnInv
  <2>4. QED
    BY <1>9, <2>2, <2>3 DEF InspectBucket
<1>10. CASE BucketFails
  <2>1. pc \in FilterPCs
    BY <1>10 DEF BucketFails, FilterPCs
  <2>2. QED
    BY <1>0, <1>10, <1>a, <1>d, <2>1, FailClosedResponseInv DEF BucketFails
<1>11. CASE ProcessResponseBody
  <2>0. pc \in FilterPCs
    BY <1>11 DEF ProcessResponseBody, FilterPCs
  <2>1. CASE coraza_fail_closed_response(ctx)
    BY <1>0, <1>a, <2>0, <2>1, FailClosedResponseInv
  <2>2. CASE FilterIntervenes(c4, Ran(engine, 4), ctx.headers_delayed)
    <3> HIDE DEF c4
    <3>1. QED
      BY <1>0, <1>b, <1>c, <2>0, <2>2, FilterIntervenesInv
  <2>3. CASE /\ PassOn(ReleasedBody, WithoutFilter)
             /\ ctx' = [c4 EXCEPT !.headers_delayed = FALSE,
                                  !.pending = IF ctx.headers_delayed THEN <<>> ELSE @]
             /\ engine' = Ran(engine, 4)
             /\ body' = body
    <3>1. /\ ctx'.intervention_triggered = ctx.intervention_triggered
          /\ ctx'.logged = ctx.logged /\ ctx'.phase2_done = ctx.phase2_done
      BY <1>a, <2>3 DEF Contexts
    <3>2. Untouched(ctx', engine')
      BY <1>b, <2>3, <3>1 DEF Untouched
    <3>3. QED
      BY <1>0, <2>0, <2>3, <3>2, PassOnInv
  <2>4. QED
    BY <1>11, <2>1, <2>2, <2>3 DEF ProcessResponseBody
<1>12. CASE EndOfBrigade
  <2>0. pc \in FilterPCs
    BY <1>12 DEF EndOfBrigade, FilterPCs
  <2>1. CASE coraza_fail_closed_response(ctx)
    BY <1>0, <1>a, <2>0, <2>1, FailClosedResponseInv
  <2>2. CASE /\ ctx' = [ctx EXCEPT !.pending = @ \o bb.done]
             /\ pc' = "handler"
             /\ UNCHANGED <<reqs, body, engine>>
    <3>1. Untouched(ctx', engine')
      BY <1>a, <2>2 DEF Untouched, Contexts
    <3>2. QED
      BY <1>0, <2>0, <2>2, <3>1, WorkOnInv
  <2>3. CASE PassOn(bb.done, reqs) /\ UNCHANGED <<ctx, body, engine>>
    BY <1>0, <2>0, <2>3, PassOnInv DEF Untouched
  <2>4. QED
    BY <1>12, <2>1, <2>2, <2>3 DEF EndOfBrigade
<1>13. QED
  BY <1>1, <1>2, <1>3, <1>4, <1>5, <1>6, <1>7, <1>8, <1>9, <1>10, <1>11, <1>12
  DEF OutputFilter
---------------------------------------------------------------------------
(* The hook goes on: only the flags of the current request_rec change.     *)
LEMMA HookStep ==
    ASSUME TypeOK, TypeOK', IInv, pc \in HookPCs, pc' \in HookPCs \cup {"handler"},
           NEW f \in Requests, reqs' = ThisRequest(f), f.first = req.first,
           f.hasCtx = req.hasCtx, f.enable = req.enable,
           ctx'.intervention_triggered = ctx.intervention_triggered,
           ctx'.logged = ctx.logged,
           engine'.txs = engine.txs, engine'.enforced = engine.enforced,
           engine'.audit = engine.audit, engine'.status = engine.status,
           BodyInv'
    PROVE  IInv'
<1>1. /\ Len(reqs') = Len(reqs) /\ reqs'[Len(reqs)] = f
      /\ \A i \in 1..Len(reqs) : i # Len(reqs) => reqs'[i] = reqs[i]
      /\ Len(reqs) \in 1..MaxReqs
  BY TypeOKParts, ThisRequestType DEF ChainOK
<1>2. req.hasCtx /\ req.enable
  <2>1. req.hasCtx
    BY DEF IInv, ChainInv
  <2>2. QED
    BY <1>1, <2>1 DEF IInv, ChainInv, req, cur
<1>a. f.hasCtx /\ f.enable
  BY <1>2
<1>b. req' = f /\ 1 <= Len(reqs)
  BY <1>1 DEF req, cur
<1>3. Inspected /\ Inspected' /\ req'.hasCtx
  BY <1>1, <1>2, <1>a, <1>b DEF Inspected, req, cur
<1>4. ChainInv'
  BY <1>1, <1>2, <1>3 DEF IInv, ChainInv, HookPCs
<1>5. TransactionInv'
  BY <1>3 DEF IInv, TransactionInv
<1>6. DenyInv' /\ LogInv'
  BY DEF IInv, DenyInv, LogInv, HookPCs, FilterPCs
<1>7. QED
  BY <1>4, <1>5, <1>6 DEF IInv

(* The request_rec with none of its flags changed.                         *)
LEMMA ThisRequestSame ==
    ASSUME TypeOK
    PROVE  req \in Requests /\ ThisRequest(req) = reqs
<1>1. reqs \in [1..Len(reqs) -> Requests] /\ Len(reqs) \in 1..Len(reqs)
  BY TypeOKParts, BoundsAssumption DEF ChainOK
<1> DEFINE n == Len(reqs)
<1> HIDE DEF n
<1>2. [reqs EXCEPT ![n] = reqs[n]] = reqs
  BY <1>1 DEF n
<1>3. QED
  BY <1>1, <1>2 DEF ThisRequest, req, cur, n

(* The fixups hook preserves the invariant.                                *)
LEMMA FixupsInv ==
    ASSUME TypeOK, IInv, Fixups
    PROVE  IInv'
<1>0. TypeOK'
  BY FixupsType
<1>a. /\ req \in Requests /\ ctx \in Contexts /\ engine \in Engines /\ body \in Bodies
      /\ ChainOK(reqs) /\ cur = Len(reqs) /\ cur \in 1..MaxReqs
      /\ reqs = ThisRequest(req)
  BY TypeOKParts, ReqType, ThisRequestSame DEF cur
<1>b. \A p \in 1..4 : /\ Ran(engine, p) \in Engines
                      /\ Ran(engine, p).txs = engine.txs
                      /\ Ran(engine, p).enforced = engine.enforced
                      /\ Ran(engine, p).audit = engine.audit
                      /\ Ran(engine, p).status = engine.status
  BY <1>a, RanType, RanEffect
<1>c. ASSUME NEW p \in {"connection", "uri", "headers", "setup", "read", "finish"}, pc = p
      PROVE  pc \in HookPCs
  BY <1>c DEF HookPCs
<1>1. CASE Declined
  <2>1. pc = "fixups" /\ pc' = "handler" /\ UNCHANGED <<reqs, ctx, body, engine>>
    BY <1>1 DEF Declined, Proceed
  <2>2. ChainInv' /\ TransactionInv' /\ DenyInv' /\ LogInv'
    BY <2>1 DEF IInv, ChainInv, TransactionInv, DenyInv, LogInv, HookPCs, FilterPCs,
       Inspected
  <2>3. BodyInv'
    BY <2>1 DEF IInv, BodyInv, SavedIsSubmitted, Inspected, FilterPCs, req, cur
  <2>4. QED
    BY <2>2, <2>3 DEF IInv
<1>2. CASE ReuseTransaction
  <2> DEFINE f == [req EXCEPT !.hasCtx = TRUE, !.outFilter = TRUE]
  <2>1. /\ f \in Requests /\ f.first = req.first /\ f.hasCtx = TRUE
        /\ f.enable = req.enable /\ f.status = req.status
    BY <1>a DEF Requests
  <2>2. /\ pc = "fixups" /\ pc' = "handler" /\ UNCHANGED <<ctx, body, engine>>
        /\ reqs' = ThisRequest(f) /\ req.enable /\ coraza_ctx_from_prev
    BY <1>2 DEF ReuseTransaction, Proceed
  <2> HIDE DEF f
  <2>3. /\ Len(reqs') = Len(reqs) /\ reqs'[Len(reqs)] = f
        /\ \A i \in 1..Len(reqs) : i # Len(reqs) => reqs'[i] = reqs[i]
    BY <1>a, <2>1, <2>2, ThisRequestType
  <2>4. Inspected /\ Inspected' /\ req'.status = req.status
    <3>1. PICK i \in 1..(cur - 1) : reqs[i].hasCtx
      BY <2>2 DEF coraza_ctx_from_prev
    <3>2. i \in 1..Len(reqs) /\ i # Len(reqs)
      BY <1>a
    <3>3. QED
      BY <2>1, <2>3, <3>1, <3>2 DEF Inspected, req, cur
  <2>5. ChainInv'
    BY <2>1, <2>2, <2>3 DEF IInv, ChainInv, HookPCs, FilterPCs
  <2>6. TransactionInv'
    BY <2>2, <2>4 DEF IInv, TransactionInv
  <2>7. DenyInv' /\ LogInv'
    BY <2>2 DEF IInv, DenyInv, LogInv, HookPCs, FilterPCs
  <2>8. BodyInv'
    BY <2>2, <2>4 DEF IInv, BodyInv, SavedIsSubmitted, FilterPCs
  <2>9. QED
    BY <2>5, <2>6, <2>7, <2>8 DEF IInv
<1>3. CASE CreateCtx
  <2>1. CASE coraza_create_ctx /\ pc' = "connection"
    <3> DEFINE f == [req EXCEPT !.hasCtx = TRUE]
    <3>1. /\ f \in Requests /\ f.first = req.first /\ f.hasCtx = TRUE
          /\ f.enable = req.enable /\ f.outFilter = req.outFilter
      BY <1>a DEF Requests
    <3>2. /\ pc = "fixups" /\ body' = body /\ reqs' = ThisRequest(f) /\ req.enable
          /\ ~coraza_ctx_from_prev
          /\ ctx' = [FreshCtx EXCEPT !.transaction = TRUE]
          /\ engine' = [engine EXCEPT !.txs = @ + 1]
      BY <1>3, <2>1 DEF CreateCtx, coraza_create_ctx
    <3> HIDE DEF f
    <3>3. /\ Len(reqs') = Len(reqs) /\ reqs'[Len(reqs)] = f
          /\ \A i \in 1..Len(reqs) : i # Len(reqs) => reqs'[i] = reqs[i]
      BY <1>a, <3>1, <3>2, ThisRequestType
    <3>4. ~Inspected /\ Inspected' /\ req'.hasCtx
      <4>1. ~req.hasCtx
        BY <3>2 DEF IInv, ChainInv
      <4>2. ASSUME NEW i \in 1..Len(reqs), reqs[i].hasCtx
            PROVE  FALSE
        BY <1>a, <3>2, <4>1, <4>2 DEF coraza_ctx_from_prev, req, cur
      <4>3. QED
        BY <1>a, <3>1, <3>3, <4>2 DEF Inspected, req, cur
    <3>5. /\ engine'.txs = 1 /\ engine'.enforced = 0 /\ engine'.audit = <<>>
          /\ body'.saved = <<>> /\ ~ctx'.logged /\ ~ctx'.intervention_triggered
      BY <1>a, <3>2, <3>4 DEF IInv, TransactionInv, Engines, FreshCtx
    <3>6. ChainInv'
      BY <2>1, <3>1, <3>2, <3>3, <3>4 DEF IInv, ChainInv, HookPCs, FilterPCs
    <3>7. TransactionInv' /\ DenyInv' /\ LogInv' /\ BodyInv'
      BY <2>1, <3>4, <3>5 DEF TransactionInv, DenyInv, LogInv, BodyInv, FilterPCs
    <3>8. QED
      BY <3>6, <3>7 DEF IInv
  <2>2. CASE ReturnStatus(HTTP_INTERNAL_SERVER_ERROR) /\ UNCHANGED <<ctx, engine>>
    <3>1. /\ SameContexts
          /\ \/ pc' = "log"
             \/ pc' = "fixups" /\ Len(reqs') = Len(reqs) + 1 /\ LastStatus = 500
      BY <2>2, ReturnStatusEffect DEF HTTP_INTERNAL_SERVER_ERROR
    <3>2. QED
      BY <1>0, <1>3, <2>2, <3>1, MoveStep DEF CreateCtx, HTTP_OK
  <2>3. QED
    BY <1>3, <2>1, <2>2 DEF CreateCtx
<1>4. CASE ProcessConnection
  <2>1. CASE Proceed("uri") /\ UNCHANGED <<reqs, engine, body>>
    <3>1. BodyInv'
      BY <1>4, <2>1 DEF IInv, BodyInv, Proceed, ProcessConnection, FilterPCs
    <3>2. QED
      BY <1>0, <1>4, <1>a, <2>1, <3>1, HookStep DEF ProcessConnection, Proceed, HookPCs
  <2>2. QED
    BY <1>0, <1>4, <1>a, <1>c, <2>1, FailClosedInv, IntervenesInv DEF ProcessConnection
<1>5. CASE ProcessUri
  <2>1. CASE Proceed("headers") /\ UNCHANGED <<reqs, engine, body>>
    <3>1. BodyInv'
      BY <1>5, <2>1 DEF IInv, BodyInv, Proceed, ProcessUri, FilterPCs
    <3>2. QED
      BY <1>0, <1>5, <1>a, <2>1, <3>1, HookStep DEF ProcessUri, Proceed, HookPCs
  <2>2. QED
    BY <1>0, <1>5, <1>a, <1>c, <2>1, FailClosedInv, IntervenesInv DEF ProcessUri
<1>6. CASE ProcessHeaders
  <2> DEFINE f == [req EXCEPT !.outFilter = TRUE]
             e == Ran(engine, 1)
  <2>0. /\ pc = "headers" /\ body' = body /\ pc \in HookPCs
        /\ e \in Engines /\ e.txs = engine.txs /\ e.enforced = engine.enforced
        /\ e.audit = engine.audit /\ e.status = engine.status
    BY <1>6, <1>b, <1>c DEF ProcessHeaders
  <2>1. f \in Requests /\ f.first = req.first /\ f.hasCtx = req.hasCtx /\ f.enable = req.enable
    BY <1>a DEF Requests
  <2> HIDE DEF f, e
  <2>2. CASE Proceed("setup") /\ engine' = e /\ reqs' = ThisRequest(f)
    <3>1. BodyInv'
      BY <2>0, <2>2 DEF IInv, BodyInv, Proceed, FilterPCs
    <3>2. QED
      BY <1>0, <2>0, <2>1, <2>2, <3>1, HookStep DEF Proceed, HookPCs
  <2>3. CASE Intervenes(ctx, e)
    BY <1>0, <1>a, <2>0, <2>3, IntervenesInv
  <2>4. CASE FailClosed /\ engine' = engine
    BY <1>0, <2>0, <2>4, FailClosedInv
  <2>5. QED
    BY <1>6, <2>2, <2>3, <2>4 DEF ProcessHeaders, f, e
<1>7. CASE SetupClientBlock
  <2>0. pc = "setup" /\ pc \in HookPCs /\ engine' = engine
    BY <1>7, <1>c DEF SetupClientBlock
  <2>1. CASE ReturnStatus(HTTP_BAD_REQUEST) /\ UNCHANGED <<ctx, body>>
    <3>1. /\ SameContexts
          /\ \/ pc' = "log"
             \/ pc' = "fixups" /\ Len(reqs') = Len(reqs) + 1 /\ LastStatus = 400
      BY <2>1, ReturnStatusEffect DEF HTTP_BAD_REQUEST
    <3>2. QED
      BY <1>0, <2>0, <2>1, <3>1, MoveStep DEF HTTP_OK
  <2>2. ASSUME NEW access \in BOOLEAN, body' = [body EXCEPT !.inspect = access],
               Proceed("read"), reqs' = reqs
        PROVE  IInv'
    <3>1. body'.saved = <<>> /\ pc' = "read"
      BY <1>a, <2>0, <2>2 DEF IInv, BodyInv, Bodies, Proceed
    <3>2. BodyInv'
      BY <3>1 DEF BodyInv, SavedIsSubmitted, FilterPCs
    <3>3. QED
      BY <1>0, <1>a, <2>0, <2>2, <3>2, HookStep DEF Proceed, HookPCs
  <2>3. CASE ~MoreBody /\ Proceed("finish") /\ UNCHANGED <<reqs, body>>
    <3>1. body.read = body.sent
      BY <1>a, <2>3, TypeOKParts DEF MoreBody, Bodies
    <3>2. body.saved = <<>>
      BY <2>0 DEF IInv, BodyInv
    <3>3. BodyInv'
      BY <2>3, <3>1, <3>2 DEF BodyInv, SavedIsSubmitted, Proceed, FilterPCs
    <3>4. QED
      BY <1>0, <1>a, <2>0, <2>3, <3>3, HookStep DEF Proceed, HookPCs
  <2>4. QED
    BY <1>7, <2>1, <2>2, <2>3 DEF SetupClientBlock
<1>8. CASE ReadChunk
  <2> DEFINE submitted == [KeepChunk EXCEPT !.submitted = @ \cup {body.read + 1}]
  <2>0. pc = "read" /\ pc \in HookPCs
    BY <1>8, <1>c DEF ReadChunk
  <2>1. CASE FailClosed /\ engine' = engine
    BY <1>0, <2>0, <2>1, FailClosedInv
  <2>2. CASE Intervenes(ctx, engine)
    BY <1>0, <1>a, <2>0, <2>2, IntervenesInv
  <2>3. CASE /\ Proceed("read") /\ body' = IF body.inspect THEN submitted ELSE KeepChunk
             /\ UNCHANGED <<reqs, engine>>
    <3>1. SavedIsSubmitted'
      <4>1. CASE body.inspect
        <5> DEFINE n == body.read + 1
        <5>1. /\ body'.saved = Append(body.saved, n)
              /\ body'.submitted = body.submitted \cup {n}
          BY <1>a, <2>3, <4>1 DEF KeepChunk, Bodies
        <5>2. SavedIsSubmitted
          BY <2>0 DEF IInv, BodyInv
        <5>3. /\ Len(Append(body.saved, n)) = Len(body.saved) + 1
              /\ \A i \in 1..(Len(body.saved) + 1) :
                   Append(body.saved, n)[i] = IF i = Len(body.saved) + 1 THEN n ELSE body.saved[i]
              /\ Len(body.saved) \in Nat
          BY <1>a DEF Bodies
        <5> HIDE DEF n
        <5>4. QED
          BY <4>1, <5>1, <5>2, <5>3 DEF SavedIsSubmitted
      <4>2. CASE ~body.inspect
        <5>1. body'.inspect = body.inspect
          BY <1>a, <2>3, <4>2 DEF KeepChunk, Bodies
        <5>2. QED
          BY <4>2, <5>1 DEF SavedIsSubmitted
      <4>3. QED
        BY <4>1, <4>2
    <3>2. BodyInv'
      BY <2>3, <3>1 DEF BodyInv, Proceed, FilterPCs
    <3>3. QED
      BY <1>0, <1>a, <2>0, <2>3, <3>2, HookStep DEF Proceed, HookPCs
  <2>4. QED
    BY <1>8, <2>1, <2>2, <2>3 DEF ReadChunk
<1>9. CASE ReadError
  <2>0. pc = "read" /\ pc \in HookPCs /\ UNCHANGED <<ctx, body, engine>>
    BY <1>9, <1>c DEF ReadError
  <2>1. /\ SameContexts
        /\ \/ pc' = "log"
           \/ pc' = "fixups" /\ Len(reqs') = Len(reqs) + 1 /\ LastStatus = 400
    BY <1>9, ReturnStatusEffect DEF ReadError, HTTP_BAD_REQUEST
  <2>2. QED
    BY <1>0, <2>0, <2>1, MoveStep DEF HTTP_OK
<1>10. CASE EndOfBody
  <2> DEFINE f == [req EXCEPT !.inFilter = TRUE]
  <2>0. /\ pc = "read" /\ pc \in HookPCs /\ ~MoreBody /\ Proceed("finish")
        /\ reqs' = ThisRequest(f) /\ UNCHANGED <<body, engine>>
    BY <1>10, <1>c DEF EndOfBody
  <2>1. f \in Requests /\ f.first = req.first /\ f.hasCtx = req.hasCtx /\ f.enable = req.enable
    BY <1>a DEF Requests
  <2> HIDE DEF f
  <2>2. body.read = body.sent /\ SavedIsSubmitted
    BY <1>a, <2>0, TypeOKParts DEF MoreBody, Bodies, IInv, BodyInv
  <2>3. BodyInv'
    BY <2>0, <2>2 DEF BodyInv, SavedIsSubmitted, Proceed, FilterPCs
  <2>4. QED
    BY <1>0, <2>0, <2>1, <2>3, HookStep DEF Proceed, HookPCs
<1>11. CASE ProcessRequestBody
  <2> DEFINE done == [ctx EXCEPT !.phase2_done = TRUE]
             e == Ran(engine, 2)
  <2>0. /\ pc = "finish" /\ pc \in HookPCs /\ body' = body
        /\ e \in Engines /\ e.txs = engine.txs /\ e.enforced = engine.enforced
        /\ e.audit = engine.audit /\ e.status = engine.status
    BY <1>11, <1>b, <1>c DEF ProcessRequestBody
  <2>1. /\ done \in Contexts /\ done.logged = ctx.logged /\ done.phase2_done
        /\ done.intervention_triggered = ctx.intervention_triggered
    BY <1>a DEF Contexts
  <2> HIDE DEF done, e
  <2>2. CASE FailClosed /\ engine' = engine
    BY <1>0, <2>0, <2>2, FailClosedInv
  <2>3. CASE Intervenes(done, e)
    BY <1>0, <2>0, <2>1, <2>3, IntervenesInv
  <2>4. CASE ctx' = done /\ engine' = e /\ pc' = "handler" /\ reqs' = reqs
    <3>1. /\ ~ctx.intervention_triggered /\ body.read = body.sent /\ SavedIsSubmitted
      BY <2>0 DEF IInv, DenyInv, BodyInv
    <3>2. BodyInv'
      BY <2>0, <2>1, <2>4, <3>1 DEF BodyInv, SavedIsSubmitted
    <3>3. QED
      BY <1>0, <1>a, <2>0, <2>1, <2>4, <3>2, HookStep
  <2>5. QED
    BY <1>11, <2>2, <2>3, <2>4 DEF ProcessRequestBody, done, e
<1>12. QED
  BY <1>1, <1>2, <1>3, <1>4, <1>5, <1>6, <1>7, <1>8, <1>9, <1>10, <1>11 DEF Fixups
---------------------------------------------------------------------------
(* httpd and the handler preserve the invariant.                           *)
LEMMA HandlerInv ==
    ASSUME TypeOK, IInv, Handler
    PROVE  IInv'
<1>0. TypeOK'
  BY HandlerType
<1>a. /\ req \in Requests /\ ChainOK(reqs) /\ Alike(reqs) /\ body \in Bodies
      /\ \A status \in HandlerErrors : status \in Nat /\ status # HTTP_OK
  BY TypeOKParts, ReqType, HandlerErrorsAssumption DEF Alike, HTTP_OK
<1>b. ASSUME NEW status \in Nat, status # HTTP_OK, ReturnStatus(status),
             pc \in {"fixups", "handler", "filter_error"},
             UNCHANGED <<ctx, body, engine>>
      PROVE  IInv'
  <2>1. /\ SameContexts
        /\ \/ pc' = "log"
           \/ pc' = "fixups" /\ Len(reqs') = Len(reqs) + 1 /\ LastStatus = status
    BY <1>b, ReturnStatusEffect
  <2>2. QED
    BY <1>0, <1>b, <2>1, MoveStep
<1>1. CASE EarlierHookFails
  BY <1>1, <1>a, <1>b DEF EarlierHookFails
<1>2. CASE HandlerReads
  <2>0. /\ pc = "handler" /\ pc' = "handler" /\ req.status = HTTP_OK
        /\ UNCHANGED <<reqs, ctx, engine>> /\ req' = req
        /\ Inspected' <=> Inspected
    BY <1>2 DEF HandlerReads, Inspected, req, cur
  <2>1. ChainInv' /\ DenyInv' /\ LogInv'
    BY <2>0 DEF IInv, ChainInv, DenyInv, LogInv, HookPCs, FilterPCs
  <2>2. Inspected => /\ ctx.phase2_done /\ ~ctx.intervention_triggered
                     /\ body.read = body.sent /\ SavedIsSubmitted
    BY <2>0 DEF IInv, BodyInv
  <2>3. ~Inspected => body.saved = <<>>
    BY DEF IInv, TransactionInv
  <2>4. /\ ~Inspected => body'.saved = <<>>
        /\ Inspected => body'.read = body'.sent /\ SavedIsSubmitted'
    <3>1. CASE /\ body.saved # <<>>
               /\ body' = [body EXCEPT !.app = Append(@, Head(body.saved)),
                                      !.saved = Tail(@)]
      <4>1. Inspected
        BY <2>3, <3>1
      <4>2. /\ body'.saved = Tail(body.saved) /\ body'.inspect = body.inspect
            /\ body'.submitted = body.submitted
            /\ body'.read = body.read /\ body'.sent = body.sent
        BY <1>a, <3>1 DEF Bodies
      <4>3. /\ Len(Tail(body.saved)) = Len(body.saved) - 1
            /\ Len(body.saved) \in Nat
            /\ \A i \in 1..(Len(body.saved) - 1) : Tail(body.saved)[i] = body.saved[i + 1]
        BY <1>a, <3>1 DEF Bodies
      <4>4. SavedIsSubmitted'
        BY <2>2, <4>1, <4>2, <4>3 DEF SavedIsSubmitted
      <4>5. QED
        BY <2>2, <4>1, <4>2, <4>4
    <3>2. CASE /\ body.read < body.sent
               /\ body' = [body EXCEPT !.app = Append(@, body.read + 1),
                                      !.read = @ + 1]
      <4>1. ~Inspected
        BY <1>a, <2>2, <3>2 DEF Bodies
      <4>2. body'.saved = body.saved
        BY <1>a, <3>2 DEF Bodies
      <4>3. QED
        BY <2>3, <4>1, <4>2
    <3>3. CASE body' = [body EXCEPT !.eof = cur]
      <4>1. /\ body'.saved = body.saved /\ body'.inspect = body.inspect
            /\ body'.submitted = body.submitted
            /\ body'.read = body.read /\ body'.sent = body.sent
        BY <1>a, <3>3 DEF Bodies
      <4>2. QED
        BY <2>2, <2>3, <4>1 DEF SavedIsSubmitted
    <3>4. QED
      BY <1>2, <3>1, <3>2, <3>3 DEF HandlerReads, coraza_input_filter
  <2>5. TransactionInv'
    BY <2>0, <2>4 DEF IInv, TransactionInv
  <2>6. BodyInv'
    BY <2>0, <2>2, <2>4 DEF BodyInv
  <2>7. QED
    BY <2>1, <2>5, <2>6 DEF IInv
<1>3. CASE HandlerSetsStatus
  <2>1. PICK status \in HandlerErrors : reqs' = ThisRequest([req EXCEPT !.status = status])
    BY <1>3 DEF HandlerSetsStatus
  <2> DEFINE f == [req EXCEPT !.status = status]
  <2>2. /\ f \in Requests /\ f.first = req.first /\ f.hasCtx = req.hasCtx
        /\ f.enable = req.enable /\ f.outFilter = req.outFilter /\ f.status = status
    BY <1>a DEF Requests
  <2>3. reqs' = ThisRequest(f)
    BY <2>1
  <2> HIDE DEF f
  <2>4. Alike(reqs') /\ reqs'[Len(reqs)].status = status
    BY <1>a, <2>2, <2>3, ThisRequestAlike
  <2>5. SameContexts /\ Len(reqs') = Len(reqs) /\ LastStatus # HTTP_OK
    BY <1>a, <2>4 DEF SameContexts, Alike, LastStatus, ChainOK
  <2>6. QED
    BY <1>0, <1>3, <2>5, MoveStep DEF HandlerSetsStatus, FilterPCs
<1>4. CASE HandlerPasses
  <2> DEFINE Data(k) == [i \in 1..k |-> [req |-> cur, n |-> req.passed + i]]
             g(k, eos) == [req EXCEPT !.passed = @ + k, !.eos_sent = eos]
  <2>1. PICK k \in 0..(MaxChunks - req.passed), eos \in BOOLEAN, err \in BOOLEAN :
          \/ /\ req.outFilter
             /\ reqs' = ThisRequest(g(k, eos))
             /\ pc' = "filter"
          \/ PassBrigade(err, Data(k), ThisRequest(g(k, eos)),
                         IF eos THEN "log" ELSE "handler")
    BY <1>4 DEF HandlerPasses
  <2> DEFINE f == g(k, eos)
             data == Data(k)
  <2>2. /\ f \in Requests /\ f.first = req.first /\ f.hasCtx = req.hasCtx
        /\ f.enable = req.enable /\ f.outFilter = req.outFilter /\ f.status = req.status
    <3>1. req.passed + k \in 0..MaxChunks
      BY <1>a, BoundsAssumption DEF Requests
    <3>2. QED
      BY <1>a, <3>1 DEF Requests
  <2>3. \/ req.outFilter /\ reqs' = ThisRequest(f) /\ pc' = "filter"
        \/ PassBrigade(err, data, ThisRequest(f), IF eos THEN "log" ELSE "handler")
    BY <2>1
  <2> HIDE DEF f, data
  <2>4. /\ Alike(ThisRequest(f)) /\ ChainOK(ThisRequest(f))
        /\ ThisRequest(f)[Len(reqs)].status = req.status
        /\ Len(ThisRequest(f)) = Len(reqs)
    BY <1>a, <2>2, ThisRequestAlike DEF Alike
  <2>5. pc = "handler" /\ UNCHANGED <<ctx, body, engine>>
    BY <1>4 DEF HandlerPasses
  <2>6. CASE req.outFilter /\ reqs' = ThisRequest(f) /\ pc' = "filter"
    <3>1. req.hasCtx
      BY <1>a, <2>6 DEF IInv, ChainInv, req, cur, ChainOK
    <3>2. SameContexts /\ Len(reqs') = Len(reqs) /\ LastStatus = req.status
      BY <1>a, <2>4, <2>6 DEF SameContexts, Alike, LastStatus, ChainOK
    <3>3. QED
      BY <1>0, <2>5, <2>6, <3>1, <3>2, MoveStep DEF FilterPCs
  <2>7. CASE PassBrigade(err, data, ThisRequest(f), IF eos THEN "log" ELSE "handler")
    <3>1. /\ SameContexts
          /\ \/ pc' = "log"
             \/ pc' = "fixups" /\ Len(reqs') = Len(reqs) + 1 /\ LastStatus = HTTP_BAD_GATEWAY
             \/ /\ pc' = IF eos THEN "log" ELSE "handler"
                /\ reqs' = ThisRequest(f)
      BY <1>a, <2>4, <2>7, PassEffect
    <3>2. CASE pc' = "log" \/ (pc' = "fixups" /\ Len(reqs') = Len(reqs) + 1
                               /\ LastStatus = HTTP_BAD_GATEWAY)
      BY <1>0, <2>5, <3>1, <3>2, MoveStep DEF HTTP_BAD_GATEWAY, HTTP_OK
    <3>3. CASE pc' = "handler" /\ reqs' = ThisRequest(f)
      <4>1. Len(reqs') = Len(reqs) /\ LastStatus = req.status
        BY <2>4, <3>3 DEF LastStatus
      <4>2. QED
        BY <1>0, <2>5, <3>1, <3>3, <4>1, MoveStep DEF FilterPCs
    <3>4. QED
      BY <3>1, <3>2, <3>3
  <2>8. QED
    BY <2>3, <2>6, <2>7
<1>5. CASE HandlerFails
  BY <1>5, <1>a, <1>b DEF HandlerFails
<1>6. CASE HandlerRedirects
  <2>1. /\ SameContexts /\ pc' = "fixups" /\ Len(reqs') = Len(reqs) + 1
        /\ LastStatus = reqs[Len(reqs)].status
    BY <1>6, <1>a, RedirectEffect DEF HandlerRedirects
  <2>2. LastStatus = req.status
    BY <2>1 DEF req, cur
  <2>3. QED
    BY <1>0, <1>6, <2>1, <2>2, MoveStep DEF HandlerRedirects
<1>7. CASE HandlerStops
  <2>1. CASE ReturnStatus(HTTP_INTERNAL_SERVER_ERROR)
    BY <1>7, <1>b, <2>1 DEF HandlerStops, HTTP_INTERNAL_SERVER_ERROR, HTTP_OK
  <2>2. CASE ~ReturnStatus(HTTP_INTERNAL_SERVER_ERROR)
    <3>1. pc = "filter_error" /\ pc' = "log" /\ UNCHANGED <<reqs, ctx, body, engine>>
      BY <1>7, <2>2 DEF HandlerStops
    <3>2. SameContexts
      BY <1>a, <3>1 DEF SameContexts, ChainOK
    <3>3. QED
      BY <1>0, <3>1, <3>2, MoveStep
  <2>3. QED
    BY <2>1, <2>2
<1>8. QED
  BY <1>1, <1>2, <1>3, <1>4, <1>5, <1>6, <1>7 DEF Handler

(* The logging hook preserves the invariant.                               *)
LEMMA LogTransactionInv ==
    ASSUME TypeOK, IInv, coraza_log_transaction
    PROVE  IInv'
<1>0. /\ pc = "log" /\ pc' = "done" /\ UNCHANGED <<reqs, body>>
      /\ Inspected' <=> Inspected
  BY DEF coraza_log_transaction, Inspected
<1>a. /\ ctx'.intervention_triggered = ctx.intervention_triggered
      /\ ctx'.logged <=> ctx.logged \/ Logs(reqs[1], ctx)
  <2>1. (ctx.logged \/ Logs(reqs[1], ctx)) \in BOOLEAN
    OBVIOUS
  <2>2. QED
    BY <2>1, TypeOKParts DEF coraza_log_transaction, Contexts
<1>b. /\ engine'.txs = engine.txs /\ engine'.enforced = engine.enforced
      /\ engine'.status = engine.status
      /\ engine'.audit = IF Logs(reqs[1], ctx) THEN Append(engine.audit, engine.status)
                         ELSE engine.audit
  BY TypeOKParts DEF coraza_log_transaction, coraza_process_logging, Engines
<1>c. /\ 1 \in 1..Len(reqs)
      /\ reqs[1].hasCtx => reqs[1].enable
  BY TypeOKParts, BoundsAssumption DEF IInv, ChainInv, ChainOK
<1>1. ChainInv'
  BY <1>0 DEF IInv, ChainInv, HookPCs, FilterPCs
<1>2. DenyInv'
  BY <1>0, <1>a, <1>b DEF IInv, DenyInv, HookPCs, FilterPCs
<1>3. BodyInv'
  BY <1>0 DEF BodyInv, FilterPCs
<1>4. CASE Logs(reqs[1], ctx)
  <2>1. ~ctx.logged /\ reqs[1].hasCtx
    BY <1>4 DEF Logs
  <2>2. Inspected
    BY <1>c, <2>1 DEF Inspected
  <2>3. engine.audit = <<>> /\ engine'.audit = Append(engine.audit, engine.status)
    BY <1>4, <1>b, <2>1 DEF IInv, LogInv
  <2>4. Append(<<>>, engine.status) = <<engine.status>>
    OBVIOUS
  <2>5. engine'.audit = <<engine.status>>
    BY <2>3, <2>4
  <2>6. TransactionInv'
    BY <1>0, <1>b, <2>2 DEF IInv, TransactionInv
  <2>7. LogInv'
    BY <1>0, <1>4, <1>a, <1>b, <2>5 DEF LogInv
  <2>8. QED
    BY <1>1, <1>2, <1>3, <2>6, <2>7 DEF IInv
<1>5. CASE ~Logs(reqs[1], ctx)
  <2>1. engine'.audit = engine.audit /\ (ctx'.logged <=> ctx.logged)
    BY <1>5, <1>a, <1>b
  <2>2. reqs[1].hasCtx => ctx.logged
    BY <1>5, <1>c DEF Logs
  <2>3. TransactionInv'
    BY <1>0, <1>a, <1>b, <2>1 DEF IInv, TransactionInv
  <2>4. LogInv'
    BY <1>0, <1>a, <1>b, <2>1, <2>2 DEF IInv, LogInv
  <2>5. QED
    BY <1>1, <1>2, <1>3, <2>3, <2>4 DEF IInv
<1>6. QED
  BY <1>4, <1>5

---------------------------------------------------------------------------
(* The inductive invariant holds: along any redirect chain the context is  *)
(* shared and only where Coraza is on, the record of the denial and of the *)
(* audit entry agree with the engine, and what is served normally has been *)
(* inspected whole.                                                        *)
THEOREM Invariance == Spec => [](TypeOK /\ IInv)
<1>1. Init => TypeOK /\ IInv
  <2> SUFFICES ASSUME Init PROVE TypeOK /\ IInv
    OBVIOUS
  <2>1. PICK on \in BOOLEAN : reqs = <<NewRequest(on, HTTP_OK, 1)>>
    BY DEF Init
  <2>2. /\ Len(reqs) = 1 /\ ~reqs[1].hasCtx /\ ~reqs[1].outFilter
    BY <2>1 DEF NewRequest
  <2>3. pc = "fixups" /\ ~Inspected
    BY <2>2 DEF Init, Inspected
  <2>4. ChainInv
    BY <2>2, <2>3 DEF ChainInv, HookPCs, FilterPCs, req, cur
  <2>5. /\ engine.txs = 0 /\ engine.enforced = 0 /\ engine.audit = <<>>
        /\ body.saved = <<>> /\ ~ctx.logged /\ ~ctx.intervention_triggered
    BY DEF Init, FreshEngine, FreshCtx
  <2>6. TransactionInv /\ DenyInv /\ LogInv /\ BodyInv
    BY <2>2, <2>3, <2>5 DEF TransactionInv, DenyInv, LogInv, BodyInv, FilterPCs, HookPCs
  <2>7. TypeOK
    BY InitType
  <2>8. QED
    BY <2>4, <2>6, <2>7 DEF IInv
<1>2. TypeOK /\ IInv /\ [Next]_vars => (TypeOK /\ IInv)'
  <2> SUFFICES ASSUME TypeOK, IInv, [Next]_vars PROVE TypeOK' /\ IInv'
    OBVIOUS
  <2>1. CASE UNCHANGED vars
    <3>1. TypeOK'
      BY <2>1, StutterType
    <3>2. IInv'
      BY <2>1 DEF vars, IInv, ChainInv, TransactionInv, DenyInv, LogInv, BodyInv,
         SavedIsSubmitted, Inspected, req, cur
    <3>3. QED
      BY <3>1, <3>2
  <2>2. CASE Fixups
    BY <2>2, FixupsType, FixupsInv
  <2>3. CASE OutputFilter
    BY <2>3, OutputFilterType, OutputFilterInv
  <2>4. CASE Handler
    BY <2>4, HandlerType, HandlerInv
  <2>5. CASE coraza_log_transaction
    BY <2>5, LogType, LogTransactionInv
  <2>6. QED
    BY <2>1, <2>2, <2>3, <2>4, <2>5 DEF Next, Done
<1>3. QED
  BY <1>1, <1>2, PTL DEF Spec

(* One client request is one transaction, along any redirect chain.        *)
THEOREM OneTransactionHolds == Spec => []OneTransaction
<1>1. TypeOK /\ IInv => OneTransaction
  BY DEF IInv, TransactionInv, OneTransaction
<1>2. QED
  BY <1>1, Invariance, PTL

(* No transaction is denied twice.                                         *)
THEOREM NoSecondDenyHolds == Spec => []NoSecondDeny
<1>1. TypeOK /\ IInv => NoSecondDeny
  BY DEF IInv, DenyInv, NoSecondDeny
<1>2. QED
  BY <1>1, Invariance, PTL

(* The handler of an inspected request runs only after phases 1 and 2, and *)
(* is given nothing the engine has not seen.                               *)
THEOREM HandlerSeesInspectedRequestHolds == Spec => []HandlerSeesInspectedRequest
<1>1. TypeOK /\ IInv => HandlerSeesInspectedRequest
  <2> SUFFICES ASSUME TypeOK, IInv, pc = "handler", req.hasCtx, req.status = HTTP_OK
               PROVE  /\ ctx.phase2_done
                      /\ ~ctx.intervention_triggered
                      /\ body.read = body.sent
                      /\ body.inspect =>
                           \A i \in DOMAIN body.saved : body.saved[i] \in body.submitted
    BY DEF HandlerSeesInspectedRequest
  <2>1. Inspected
    BY TypeOKParts, BoundsAssumption DEF Inspected, req, cur, ChainOK
  <2>2. /\ ctx.phase2_done /\ ~ctx.intervention_triggered
        /\ body.read = body.sent /\ SavedIsSubmitted
    BY <2>1 DEF IInv, BodyInv
  <2>3. DOMAIN body.saved = 1..Len(body.saved)
    BY TypeOKParts DEF Bodies
  <2>4. QED
    BY <2>2, <2>3 DEF SavedIsSubmitted
<1>2. QED
  BY <1>1, Invariance, PTL

(* The transaction of the client's request has one audit entry at the end. *)
THEOREM OneAuditEntryHolds == Spec => []OneAuditEntry
<1>1. TypeOK /\ IInv => OneAuditEntry
  <2> SUFFICES ASSUME TypeOK, IInv PROVE OneAuditEntry
    OBVIOUS
  <2>1. ctx.logged => Len(engine.audit) = 1
    BY DEF IInv, LogInv
  <2>2. ~ctx.logged => Len(engine.audit) = 0
    BY DEF IInv, LogInv
  <2>3. pc = "done" /\ reqs[1].hasCtx => ctx.logged
    BY DEF IInv, LogInv
  <2>4. Len(engine.audit) <= 1
    <3>1. Len(engine.audit) \in {0, 1}
      BY <2>1, <2>2
    <3>2. \A n \in {0, 1} : n <= 1
      OBVIOUS
    <3>3. QED
      BY <3>1, <3>2
  <2>5. QED
    BY <2>1, <2>3, <2>4 DEF OneAuditEntry
<1>2. QED
  BY <1>1, Invariance, PTL

(* The audit entry of a denied transaction carries the enforced status.    *)
THEOREM AuditShowsDenialHolds == Spec => []AuditShowsDenial
<1>1. TypeOK /\ IInv => AuditShowsDenial
  BY DEF IInv, LogInv, AuditShowsDenial
<1>2. QED
  BY <1>1, Invariance, PTL

(* The engine is left alone once the audit entry is written: a step that   *)
(* changes it starts from an empty audit log.                              *)
THEOREM NothingAfterLoggingHolds == Spec => NothingAfterLogging
<1>1. TypeOK /\ IInv /\ [Next]_vars => [engine.audit = <<>>]_engine
  <2> SUFFICES ASSUME TypeOK, IInv, Next, engine' # engine PROVE engine.audit = <<>>
    BY DEF vars
  <2>1. CASE pc \in HookPCs \cup FilterPCs
    BY <2>1 DEF IInv, DenyInv, LogInv, HookPCs, FilterPCs
  <2>2. CASE pc = "filter" /\ ~MustStepAside
    BY <2>2 DEF IInv, LogInv, MustStepAside
  <2>3. CASE CreateCtx
    <3>1. /\ pc = "fixups" /\ ~coraza_ctx_from_prev /\ Len(reqs) \in 1..MaxReqs
      BY <2>3, TypeOKParts DEF CreateCtx, ChainOK
    <3>2. ~Inspected
      <4>1. ~req.hasCtx
        BY <3>1 DEF IInv, ChainInv
      <4>2. ASSUME NEW i \in 1..Len(reqs), reqs[i].hasCtx
            PROVE  FALSE
        BY <3>1, <4>1, <4>2, BoundsAssumption DEF coraza_ctx_from_prev, req, cur
      <4>3. QED
        BY <4>2 DEF Inspected
    <3>3. QED
      BY <3>2 DEF IInv, TransactionInv
  <2>4. CASE coraza_log_transaction
    BY <2>4 DEF coraza_log_transaction, Logs, IInv, LogInv
  <2>5. QED
    <3>1. CASE Fixups
      BY <2>1, <2>3, <3>1 DEF Fixups, HookPCs, Declined, ReuseTransaction,
         ProcessConnection, ProcessUri, ProcessHeaders, SetupClientBlock, ReadChunk,
         ReadError, EndOfBody, ProcessRequestBody
    <3>2. CASE OutputFilter
      BY <2>1, <2>2, <3>2 DEF OutputFilter, FilterPCs, FilterStepsAside, FilterReenters,
         ProcessResponseHeaders, ResponseHeadersFail, FinalizeUninspected, StreamSse,
         BeginDelay, FlushAtCap, InspectBucket, BucketFails, ProcessResponseBody,
         EndOfBrigade
    <3>3. CASE Handler
      BY <3>3 DEF Handler, EarlierHookFails, HandlerReads, HandlerSetsStatus,
         HandlerPasses, HandlerFails, HandlerRedirects, HandlerStops
    <3>4. QED
      BY <2>4, <3>1, <3>2, <3>3 DEF Next, Done, vars
<1>2. QED
  BY <1>1, Invariance, PTL DEF Spec, NothingAfterLogging
=============================================================================
