------------------------- MODULE CorazaReplayProofs -------------------------
(***************************************************************************)
(* The handler gets the body the hook has read (BodyReplayed), for every   *)
(* value of the constants; and what the services of httpd do to the chain  *)
(* and to the wire, which this proof and CorazaResponseProofs share.       *)
(***************************************************************************)
EXTENDS CorazaRequestProofs

(* qs begins with the chain rs, whose last request_rec may have got        *)
(* another status and lost CORAZA_OUT.                                     *)
Carries(rs, qs) ==
    /\ Len(rs) <= Len(qs)
    /\ \A i \in 1..Len(rs) :
         /\ qs[i].hasCtx = rs[i].hasCtx
         /\ qs[i].inFilter = rs[i].inFilter
         /\ qs[i].passed = rs[i].passed
         /\ qs[i].first = rs[i].first
         /\ i # Len(rs) => qs[i].status = rs[i].status

(* An internal redirect of rs, whose last request_rec has the status.      *)
Redirects(rs, status) ==
    /\ pc' = "fixups" /\ wire' = wire
    /\ Carries(rs, reqs') /\ Len(reqs') = Len(rs) + 1
    /\ reqs'[Len(rs)].status = status
    /\ LET new == reqs'[Len(rs) + 1] IN
       /\ ~new.hasCtx /\ ~new.inFilter /\ ~new.outFilter
       /\ new.passed = 0 /\ new.status = status
       /\ new.first = IF status = HTTP_OK THEN Len(rs) + 1 ELSE rs[Len(rs)].first

(* The canned page of request_rec i.                                       *)
Pages(rs, i, status) ==
    /\ pc' = "log" /\ wire' = Sent(i, reqs'[i].status, Page(i))
    /\ Carries(rs, reqs') /\ Len(reqs') = Len(rs)
    /\ reqs'[Len(rs)].status = status /\ ~reqs'[Len(rs)].outFilter

(* ap_internal_redirect does the first.                                    *)
LEMMA RedirectOutcome ==
    ASSUME NEW rs, ChainOK(rs), InternalRedirect(rs)
    PROVE  Redirects(rs, rs[Len(rs)].status)
<1> DEFINE last == rs[Len(rs)]
           first == IF last.status = HTTP_OK THEN Len(rs) + 1 ELSE last.first
<1>1. PICK on \in BOOLEAN : reqs' = Append(rs, NewRequest(on, last.status, first))
  BY DEF InternalRedirect
<1> DEFINE new == NewRequest(on, last.status, first)
<1>2. /\ ~new.hasCtx /\ ~new.inFilter /\ ~new.outFilter
      /\ new.passed = 0 /\ new.status = last.status /\ new.first = first
  BY DEF NewRequest
<1> HIDE DEF new
<1>3. /\ Len(reqs') = Len(rs) + 1 /\ reqs'[Len(rs) + 1] = new
      /\ \A i \in 1..Len(rs) : reqs'[i] = rs[i]
  BY <1>1 DEF ChainOK, new
<1>4. Len(rs) \in Nat /\ Len(rs) >= 1
  BY BoundsAssumption DEF ChainOK
<1>5. Carries(rs, reqs') /\ reqs'[Len(rs)].status = last.status
  BY <1>3, <1>4 DEF Carries
<1>6. QED
  BY <1>2, <1>3, <1>5 DEF Redirects, InternalRedirect

(* ap_die does one of the two.                                             *)
LEMMA DieOutcome ==
    ASSUME NEW rs, ChainOK(rs), NEW type \in Nat, NEW rec, ap_die(type, rec, rs)
    PROVE  \/ rec = HTTP_OK /\ Redirects(rs, type)
           \/ Pages(rs, IF rec = HTTP_OK THEN Len(rs) ELSE rs[Len(rs)].first, type)
<1> DEFINE n == Len(rs)
           last == [rs[n] EXCEPT !.status = type]
           dead == [rs EXCEPT ![n].status = type]
           i == IF rec = HTTP_OK THEN n ELSE rs[n].first
<1>1. n \in 1..MaxReqs /\ rs[n] \in Requests /\ rs[n].first <= n /\ rs \in Seq(Requests)
  BY BoundsAssumption DEF ChainOK
<1>2. /\ last \in Requests /\ last.hasCtx = rs[n].hasCtx
      /\ last.inFilter = rs[n].inFilter /\ last.passed = rs[n].passed
      /\ last.first = rs[n].first /\ last.status = type
  BY <1>1 DEF Requests
<1>3. dead = [rs EXCEPT ![n] = last]
  BY <1>1
<1> HIDE DEF last, dead
<1>4. /\ ChainOK(dead) /\ Len(dead) = n /\ dead[n] = last /\ dead \in Seq(Requests)
      /\ \A j \in 1..n : j # n => dead[j] = rs[j]
  BY <1>1, <1>2, <1>3 DEF ChainOK
<1>5. Carries(rs, dead)
  BY <1>1, <1>2, <1>4 DEF Carries
<1>6. CASE rec = HTTP_OK /\ InternalRedirect(dead)
  <2>1. Redirects(dead, type)
    BY <1>2, <1>4, <1>6, RedirectOutcome
  <2>2. Carries(rs, reqs')
    BY <1>1, <1>4, <1>5, <2>1 DEF Redirects, Carries
  <2>3. Redirects(rs, type)
    BY <1>2, <1>4, <2>1, <2>2 DEF Redirects
  <2>4. QED
    BY <1>6, <2>3
<1>7. CASE SendErrorResponse(i, dead)
  <2> DEFINE page == [dead[n] EXCEPT !.outFilter = FALSE, !.eos_sent = TRUE]
  <2>1. dead[n] \in Requests
    BY <1>2, <1>4
  <2>2. /\ page.hasCtx = dead[n].hasCtx /\ page.inFilter = dead[n].inFilter
        /\ page.passed = dead[n].passed /\ page.first = dead[n].first
        /\ page.status = dead[n].status /\ page.outFilter = FALSE
    BY <2>1 DEF Requests
  <2>3. reqs' = [dead EXCEPT ![n] = page]
    BY <1>1, <1>4, <1>7 DEF SendErrorResponse
  <2> HIDE DEF page
  <2>4. Len(reqs') = n /\ reqs'[n] = page
        /\ \A j \in 1..n : j # n => reqs'[j] = dead[j]
    BY <1>1, <1>4, <2>3
  <2>5. Carries(rs, reqs') /\ reqs'[n].status = type /\ ~reqs'[n].outFilter
    BY <1>1, <1>2, <1>4, <1>5, <2>2, <2>4 DEF Carries
  <2>6. i \in 1..n
    BY <1>1 DEF Requests
  <2>7. reqs'[i].status = dead[i].status
    BY <1>4, <2>2, <2>4, <2>6
  <2> HIDE DEF i
  <2>8. pc' = "log" /\ wire' = Sent(i, reqs'[i].status, Page(i))
    BY <1>7, <2>7 DEF SendErrorResponse
  <2>9. Pages(rs, i, type)
    BY <2>4, <2>5, <2>8 DEF Pages
  <2>10. QED
    BY <2>9 DEF i
<1>8. QED
  BY <1>6, <1>7 DEF ap_die, dead

---------------------------------------------------------------------------
(* rs is a chain of the same request_recs, with the same contexts and      *)
(* input filters.                                                          *)
SameMarks(rs) ==
    /\ ChainOK(rs) /\ Len(rs) = Len(reqs)
    /\ \A i \in 1..Len(reqs) :
         rs[i].hasCtx = reqs[i].hasCtx /\ rs[i].inFilter = reqs[i].inFilter

(* No request_rec gains or loses either, and a new one has none.           *)
SameReplay ==
    /\ Len(reqs) <= Len(reqs')
    /\ \A i \in 1..Len(reqs) :
         reqs'[i].hasCtx = reqs[i].hasCtx /\ reqs'[i].inFilter = reqs[i].inFilter
    /\ \A i \in (Len(reqs) + 1)..Len(reqs') : ~reqs'[i].hasCtx /\ ~reqs'[i].inFilter

(* What the services do to such a chain.                                   *)
LEMMA OutcomeReplay ==
    ASSUME TypeOK, NEW rs, SameMarks(rs), NEW i, NEW status,
           Redirects(rs, status) \/ Pages(rs, i, status) \/ reqs' = rs
    PROVE  SameReplay
<1>1. Len(reqs) \in Nat /\ Len(rs) = Len(reqs)
  BY TypeOKParts DEF ChainOK, SameMarks
<1>2. CASE Redirects(rs, status)
  BY <1>1, <1>2 DEF Redirects, Carries, SameMarks, SameReplay
<1>3. CASE Pages(rs, i, status)
  BY <1>1, <1>3 DEF Pages, Carries, SameMarks, SameReplay
<1>4. CASE reqs' = rs
  BY <1>1, <1>4 DEF SameMarks, SameReplay
<1>5. QED
  BY <1>2, <1>3, <1>4

(* Changing the other fields of the request_rec being served.              *)
LEMMA ThisRequestMarks ==
    ASSUME TypeOK, NEW f \in Requests, f.first = req.first,
           f.hasCtx = req.hasCtx, f.inFilter = req.inFilter
    PROVE  SameMarks(ThisRequest(f))
<1>1. ChainOK(reqs)
  BY TypeOKParts
<1>2. /\ ChainOK(ThisRequest(f))
      /\ Len(ThisRequest(f)) = Len(reqs)
      /\ ThisRequest(f)[Len(reqs)] = f
      /\ \A i \in 1..Len(reqs) : i # Len(reqs) => ThisRequest(f)[i] = reqs[i]
  BY <1>1, ThisRequestType
<1>3. QED
  BY <1>2 DEF SameMarks, req, cur

(* ap_die, ap_pass_brigade and the two ways the filter fails.              *)
LEMMA DieReplay ==
    ASSUME TypeOK, NEW rs, SameMarks(rs), NEW type \in Nat, NEW rec, ap_die(type, rec, rs)
    PROVE  /\ SameReplay
           /\ pc' \in {"log", "fixups"}
           /\ pc' = "fixups" => Len(reqs') = Len(reqs) + 1
<1> DEFINE i == IF rec = HTTP_OK THEN Len(rs) ELSE rs[Len(rs)].first
<1>1. Redirects(rs, type) \/ Pages(rs, i, type)
  BY DieOutcome DEF SameMarks
<1> HIDE DEF i
<1>2. SameReplay
  BY <1>1, OutcomeReplay
<1>3. QED
  BY <1>1, <1>2 DEF Redirects, Pages, SameMarks

LEMMA PassReplay ==
    ASSUME TypeOK, NEW rs, SameMarks(rs), NEW data, NEW next, NEW err,
           PassBrigade(err, data, rs, next)
    PROVE  /\ SameReplay
           /\ pc' \in {"log", "fixups", next}
           /\ pc' = "fixups" => Len(reqs') = Len(reqs) + 1 \/ pc' = next
<1>1. CASE ap_die(HTTP_BAD_GATEWAY, rs[Len(rs)].status, rs)
  BY <1>1, DieReplay DEF HTTP_BAD_GATEWAY
<1>2. CASE reqs' = rs /\ pc' = next
  BY <1>2, OutcomeReplay
<1>3. QED
  BY <1>1, <1>2 DEF PassBrigade

LEMMA ReturnStatusReplay ==
    ASSUME TypeOK, NEW type \in Nat, ReturnStatus(type)
    PROVE  /\ SameReplay
           /\ pc' \in {"log", "fixups"}
           /\ pc' = "fixups" => Len(reqs') = Len(reqs) + 1
<1>1. SameMarks(reqs)
  BY TypeOKParts DEF SameMarks
<1>2. QED
  BY <1>1, DieReplay DEF ReturnStatus

LEMMA FilterDiesReplay ==
    ASSUME TypeOK, NEW status \in Nat, coraza_die(status) \/ ErrorToHandler(status)
    PROVE  /\ SameReplay
           /\ pc' \in {"log", "fixups", "filter_error"}
           /\ pc' = "fixups" => Len(reqs') = Len(reqs) + 1
<1>1. CASE coraza_die(status)
  <2> DEFINE f == [req EXCEPT !.outFilter = FALSE, !.status = HTTP_OK]
  <2>1. /\ f \in Requests /\ f.first = req.first /\ f.hasCtx = req.hasCtx
        /\ f.inFilter = req.inFilter
    BY TypeOKParts, ReqType, OkIsNat DEF Requests
  <2>2. ap_die(status, HTTP_OK, ThisRequest(f))
    BY <1>1 DEF coraza_die
  <2> HIDE DEF f
  <2>3. SameMarks(ThisRequest(f))
    BY <2>1, ThisRequestMarks
  <2>4. QED
    BY <2>2, <2>3, DieReplay
<1>2. CASE ErrorToHandler(status)
  <2> DEFINE f == [req EXCEPT !.outFilter = FALSE, !.status = status]
  <2>1. /\ f \in Requests /\ f.first = req.first /\ f.hasCtx = req.hasCtx
        /\ f.inFilter = req.inFilter
    BY TypeOKParts, ReqType DEF Requests
  <2>2. reqs' = ThisRequest(f) /\ pc' = "filter_error"
    BY <1>2 DEF ErrorToHandler
  <2> HIDE DEF f
  <2>3. SameMarks(ThisRequest(f))
    BY <2>1, ThisRequestMarks
  <2>4. QED
    BY <2>2, <2>3, OutcomeReplay
<1>3. QED
  BY <1>1, <1>2
---------------------------------------------------------------------------
(* The inductive invariant behind BodyReplayed.                            *)

(* s is the numbers from + 1, from + 2, ...                                *)
Counts(s, from) == \A j \in 1..Len(s) : s[j] = from + j

(* One more number keeps such a sequence one.                              *)
LEMMA CountsAppend ==
    ASSUME NEW S, NEW s \in Seq(S), NEW t \in Seq(S), Counts(s, Len(t)),
           NEW r, Len(t) + Len(s) = r
    PROVE  /\ Counts(Append(s, r + 1), Len(t))
           /\ Len(t) + Len(Append(s, r + 1)) = r + 1
<1> DEFINE x == r + 1
<1>1. /\ Len(Append(s, x)) = Len(s) + 1 /\ Len(s) \in Nat /\ Len(t) \in Nat
      /\ \A j \in 1..(Len(s) + 1) :
           Append(s, x)[j] = IF j = Len(s) + 1 THEN x ELSE s[j]
  OBVIOUS
<1>2. QED
  BY <1>1, SMTT(40) DEF Counts

(* What the handler has been given and what is kept for it is what has     *)
(* been read, in order.                                                    *)
InOrder ==
    /\ Counts(body.app, 0)
    /\ Counts(body.saved, Len(body.app))
    /\ Len(body.app) + Len(body.saved) = body.read

(* Some request_rec of the chain has CORAZA_IN.                            *)
HasReplay == \E i \in 1..Len(reqs) : reqs[i].inFilter

(* CORAZA_IN is added to one request_rec of the chain, once the whole body *)
(* has been kept.                                                          *)
ReplayInv ==
    /\ body.eof <= Len(reqs)
    /\ pc \in {"fixups"} \cup HookPCs => body.eof < Len(reqs)
    /\ \A i \in 1..Len(reqs) : reqs[i].inFilter => reqs[i].hasCtx
    /\ \A i, j \in 1..Len(reqs) : reqs[i].inFilter /\ reqs[j].inFilter => i = j
    /\ pc \in HookPCs \ {"finish"} => ~HasReplay
    /\ ~Inspected \/ pc \in HookPCs \/ HasReplay => InOrder
    /\ HasReplay => body.read = body.sent
    /\ body.eof # 0 => (reqs[body.eof].inFilter => body.saved = <<>>)

(* The inspected chain stays inspected, and CORAZA_IN where it is.         *)
LEMMA SameReplayKeeps ==
    ASSUME TypeOK, TypeOK', SameReplay
    PROVE  /\ Inspected' <=> Inspected
           /\ HasReplay' <=> HasReplay
           /\ \A i \in 1..Len(reqs') : reqs'[i].inFilter =>
                i \in 1..Len(reqs) /\ reqs[i].inFilter /\ reqs'[i].hasCtx = reqs[i].hasCtx
<1>1. Len(reqs) \in Nat /\ Len(reqs') \in Nat
  BY TypeOKParts, TypeOKPartsPrime DEF ChainOK
<1>2. \A i \in 1..Len(reqs') : i \in 1..Len(reqs) \/ i \in (Len(reqs) + 1)..Len(reqs')
  BY <1>1
<1>3. \A i \in 1..Len(reqs) : i \in 1..Len(reqs')
  BY <1>1 DEF SameReplay
<1>4. QED
  BY <1>2, <1>3 DEF SameReplay, Inspected, HasReplay

(* A step that leaves the body alone.                                      *)
LEMMA ReplayKept ==
    ASSUME TypeOK, TypeOK', ReplayInv, SameReplay,
           body'.app = body.app, body'.saved = body.saved, body'.read = body.read,
           body'.sent = body.sent, body'.eof = body.eof,
           pc' = "fixups" => Len(reqs') = Len(reqs) + 1,
           pc' \in HookPCs => pc \in HookPCs,
           pc' \in HookPCs \ {"finish"} => pc \in HookPCs \ {"finish"}
    PROVE  ReplayInv'
<1>1. /\ Len(reqs) \in Nat /\ Len(reqs') \in Nat /\ Len(reqs) <= Len(reqs')
      /\ body.eof \in Nat
  BY TypeOKParts, TypeOKPartsPrime, BoundsAssumption DEF ChainOK, SameReplay, Bodies
<1>2. /\ Inspected' <=> Inspected
      /\ HasReplay' <=> HasReplay
      /\ \A i \in 1..Len(reqs') : reqs'[i].inFilter =>
           i \in 1..Len(reqs) /\ reqs[i].inFilter /\ reqs'[i].hasCtx = reqs[i].hasCtx
  BY SameReplayKeeps
<1>3. InOrder' <=> InOrder
  BY DEF InOrder, Counts
<1>4. /\ body'.eof <= Len(reqs')
      /\ pc' \in {"fixups"} \cup HookPCs => body'.eof < Len(reqs')
  BY <1>1 DEF ReplayInv
<1>5. body'.eof # 0 => (reqs'[body'.eof].inFilter => body'.saved = <<>>)
  BY <1>1, <1>2, <1>4 DEF ReplayInv
<1>6. QED
  BY <1>2, <1>3, <1>4, <1>5 DEF ReplayInv

(* A step that gives up while the body is being read, with what has been   *)
(* read of it.                                                             *)
LEMMA ReplayLost ==
    ASSUME TypeOK, TypeOK', IInv, ReplayInv, SameReplay, pc = "read",
           body'.eof = body.eof, pc' \in {"log", "fixups"}
    PROVE  ReplayInv'
<1>1. Inspected /\ ~HasReplay
  <2>1. req.hasCtx /\ Len(reqs) \in 1..Len(reqs)
    BY TypeOKParts, BoundsAssumption DEF IInv, ChainInv, HookPCs, ChainOK
  <2>2. QED
    BY <2>1 DEF Inspected, req, cur, ReplayInv, HookPCs
<1>2. /\ Inspected' /\ ~HasReplay'
  BY <1>1, SameReplayKeeps
<1>3. /\ Len(reqs) \in Nat /\ Len(reqs') \in Nat /\ Len(reqs) <= Len(reqs')
      /\ body.eof \in Nat
  BY TypeOKParts, TypeOKPartsPrime, BoundsAssumption DEF ChainOK, SameReplay, Bodies
<1>4. body'.eof < Len(reqs')
  BY <1>3 DEF ReplayInv, HookPCs
<1>5. QED
  BY <1>2, <1>3, <1>4 DEF ReplayInv, HasReplay, HookPCs

(* What an intervention found by the hook leaves.                          *)
LEMMA IntervenesReplay ==
    ASSUME TypeOK, NEW c, NEW e, Intervenes(c, e)
    PROVE  /\ SameReplay
           /\ pc' \in {"log", "fixups"}
           /\ pc' = "fixups" => Len(reqs') = Len(reqs) + 1
<1>1. PICK iv \in Interventions : coraza_enforce_intervention(iv, c, e)
  BY DEF Intervenes
<1>2. CASE IsDrop(iv)
  <2> DEFINE f == [req EXCEPT !.status = HTTP_FORBIDDEN]
  <2>1. /\ f \in Requests /\ f.first = req.first /\ f.hasCtx = req.hasCtx
        /\ f.inFilter = req.inFilter
    BY TypeOKParts, ReqType DEF Requests, HTTP_FORBIDDEN
  <2>2. reqs' = ThisRequest(f) /\ pc' = "log"
    BY <1>1, <1>2 DEF coraza_enforce_intervention
  <2> HIDE DEF f
  <2>3. SameMarks(ThisRequest(f))
    BY <2>1, ThisRequestMarks
  <2>4. QED
    BY <2>2, <2>3, OutcomeReplay
<1>3. CASE ~IsDrop(iv)
  <2>1. EnforcedStatus(iv) \in Nat
    BY EnforcedStatusType
  <2>2. QED
    BY <1>1, <1>3, <2>1, ReturnStatusReplay DEF coraza_enforce_intervention
<1>4. QED
  BY <1>2, <1>3

(* The output filter does not touch the request body.                      *)
LEMMA OutputFilterReplay ==
    ASSUME TypeOK, OutputFilter
    PROVE  /\ SameReplay /\ body' = body
           /\ pc' \in {"log", "fixups", "filter_error", "handler"} \cup FilterPCs
           /\ pc' = "fixups" => Len(reqs') = Len(reqs) + 1
<1> DEFINE Goal == /\ SameReplay /\ body' = body
                   /\ pc' \in {"log", "fixups", "filter_error", "handler"} \cup FilterPCs
                   /\ pc' = "fixups" => Len(reqs') = Len(reqs) + 1
<1> SUFFICES Goal
  OBVIOUS
<1>a. SameMarks(reqs) /\ SameMarks(WithoutFilter)
  <2> DEFINE f == [req EXCEPT !.outFilter = FALSE]
  <2>1. /\ f \in Requests /\ f.first = req.first /\ f.hasCtx = req.hasCtx
        /\ f.inFilter = req.inFilter
    BY TypeOKParts, ReqType DEF Requests
  <2> HIDE DEF f
  <2>2. SameMarks(ThisRequest(f))
    BY <2>1, ThisRequestMarks
  <2>3. SameMarks(reqs)
    BY TypeOKParts DEF SameMarks
  <2>4. QED
    BY <2>2, <2>3 DEF WithoutFilter, f
<1>b. ASSUME NEW data, NEW rs \in {reqs, WithoutFilter}, PassOn(data, rs), body' = body
      PROVE  Goal
  <2>1. PassBrigade(bb.err, data, rs, Returned)
    BY <1>b DEF PassOn
  <2>2. Returned \in {"log", "handler"}
    BY DEF Returned
  <2>3. QED
    BY <1>a, <1>b, <2>1, <2>2, PassReplay
<1>c. ASSUME NEW status \in Nat, coraza_die(status) \/ ErrorToHandler(status), body' = body
      PROVE  Goal
  BY <1>c, FilterDiesReplay
<1>d. ASSUME NEW c, NEW e, NEW unsent, FilterIntervenes(c, e, unsent)
      PROVE  Goal
  <2>1. PICK iv \in Interventions :
          /\ \/ IsDrop(iv) /\ coraza_drop_response
             \/ /\ ~IsDrop(iv)
                /\ IF unsent THEN coraza_die(EnforcedStatus(iv))
                   ELSE ErrorToHandler(EnforcedStatus(iv))
          /\ body' = body
    BY <1>d DEF FilterIntervenes
  <2>2. EnforcedStatus(iv) \in Nat /\ HTTP_FORBIDDEN \in Nat
    BY EnforcedStatusType DEF HTTP_FORBIDDEN
  <2>3. QED
    BY <1>c, <2>1, <2>2 DEF coraza_drop_response
<1>e. ASSUME NEW c, coraza_fail_closed_response(c)
      PROVE  Goal
  BY <1>c, <1>e DEF coraza_fail_closed_response, HTTP_INTERNAL_SERVER_ERROR
<1>f. ASSUME reqs' = reqs, body' = body, pc' \in {"handler"} \cup FilterPCs
      PROVE  Goal
  BY <1>a, <1>f, OutcomeReplay DEF FilterPCs
<1> HIDE DEF Goal
<1>1. CASE FilterStepsAside
  BY <1>1, <1>b DEF FilterStepsAside
<1>2. CASE FilterReenters
  BY <1>2, <1>f DEF FilterReenters, FilterPCs
<1>3. CASE ProcessResponseHeaders
  BY <1>3, <1>d, <1>f DEF ProcessResponseHeaders, FilterPCs
<1>4. CASE ResponseHeadersFail
  BY <1>4, <1>c DEF ResponseHeadersFail, HTTP_INTERNAL_SERVER_ERROR
<1>5. CASE FinalizeUninspected
  <2>1. CASE coraza_fail_closed_headers
    BY <1>c, <2>1 DEF coraza_fail_closed_headers, HTTP_INTERNAL_SERVER_ERROR
  <2>2. CASE PassOn(bb.todo, WithoutFilter) /\ body' = body
    BY <1>b, <2>2
  <2>3. QED
    BY <1>5, <1>d, <2>1, <2>2 DEF FinalizeUninspected
<1>6. CASE StreamSse
  BY <1>6, <1>b DEF StreamSse
<1>7. CASE BeginDelay
  BY <1>7, <1>f DEF BeginDelay, FilterPCs
<1>8. CASE FlushAtCap
  BY <1>8, <1>b DEF FlushAtCap
<1>9. CASE InspectBucket
  BY <1>9, <1>d, <1>f DEF InspectBucket, FilterPCs
<1>10. CASE BucketFails
  BY <1>10, <1>e DEF BucketFails
<1>11. CASE ProcessResponseBody
  BY <1>11, <1>b, <1>d, <1>e DEF ProcessResponseBody
<1>12. CASE EndOfBrigade
  BY <1>12, <1>b, <1>e, <1>f DEF EndOfBrigade
<1>13. QED
  BY <1>1, <1>2, <1>3, <1>4, <1>5, <1>6, <1>7, <1>8, <1>9, <1>10, <1>11, <1>12
  DEF OutputFilter, Goal

---------------------------------------------------------------------------
(* The fixups hook keeps the body in order.                                *)
LEMMA FixupsReplay ==
    ASSUME TypeOK, IInv, ReplayInv, Fixups
    PROVE  ReplayInv'
<1>0. TypeOK'
  BY FixupsType
<1>a. /\ req \in Requests /\ body \in Bodies /\ ChainOK(reqs)
      /\ Len(reqs) \in Nat /\ Len(reqs) >= 1 /\ cur = Len(reqs) /\ req = reqs[Len(reqs)]
      /\ SameMarks(reqs) /\ body.read \in Nat /\ body.sent \in Nat /\ body.eof \in Nat
  BY TypeOKParts, ReqType, BoundsAssumption DEF SameMarks, ChainOK, req, cur, Bodies
<1>b. ASSUME SameReplay, pc' \in {"log", "fixups"},
             pc' = "fixups" => Len(reqs') = Len(reqs) + 1, body' = body
      PROVE  ReplayInv'
  BY <1>0, <1>b, ReplayKept DEF HookPCs
<1>c. ASSUME NEW status \in Nat, ReturnStatus(status), body' = body
      PROVE  ReplayInv'
  BY <1>b, <1>c, ReturnStatusReplay
<1>d. ASSUME FailClosed, body' = body
      PROVE  ReplayInv'
  BY <1>c, <1>d DEF FailClosed, HTTP_INTERNAL_SERVER_ERROR
<1>e. ASSUME NEW c, NEW e, Intervenes(c, e), body' = body
      PROVE  ReplayInv'
  BY <1>b, <1>e, IntervenesReplay
<1>f. ASSUME NEW f \in Requests, f.first = req.first, f.hasCtx = req.hasCtx,
             f.inFilter = req.inFilter, reqs' = ThisRequest(f)
      PROVE  SameReplay
  BY <1>f, ThisRequestMarks, OutcomeReplay
<1>g. ASSUME reqs' = reqs
      PROVE  SameReplay
  BY <1>a, <1>g, OutcomeReplay
<1>1. CASE Declined
  BY <1>0, <1>1, <1>g, ReplayKept DEF Declined, Proceed, HookPCs
<1>2. CASE ReuseTransaction
  <2> DEFINE f == [req EXCEPT !.hasCtx = TRUE, !.outFilter = TRUE]
  <2>1. /\ f \in Requests /\ f.first = req.first /\ f.hasCtx /\ f.inFilter = req.inFilter
    BY <1>a DEF Requests
  <2>2. /\ pc = "fixups" /\ pc' = "handler" /\ body' = body /\ reqs' = ThisRequest(f)
        /\ coraza_ctx_from_prev
    BY <1>2 DEF ReuseTransaction, Proceed
  <2> HIDE DEF f
  <2>3. /\ Len(reqs') = Len(reqs) /\ reqs'[Len(reqs)] = f
        /\ \A i \in 1..Len(reqs) : i # Len(reqs) => reqs'[i] = reqs[i]
    BY <1>a, <2>1, <2>2, ThisRequestType
  <2>4. Inspected /\ Inspected'
    <3>1. PICK i \in 1..(cur - 1) : reqs[i].hasCtx
      BY <2>2 DEF coraza_ctx_from_prev
    <3>2. i \in 1..Len(reqs) /\ i # Len(reqs)
      BY <1>a
    <3>3. QED
      BY <2>3, <3>1, <3>2 DEF Inspected
  <2>5. \A i \in 1..Len(reqs) : reqs'[i].inFilter = reqs[i].inFilter
    BY <1>a, <2>1, <2>3
  <2>6. (HasReplay' <=> HasReplay) /\ (InOrder' <=> InOrder)
    BY <2>2, <2>3, <2>5 DEF HasReplay, InOrder, Counts
  <2>7. body'.eof # 0 => (reqs'[body'.eof].inFilter => body'.saved = <<>>)
    BY <1>a, <2>2, <2>5 DEF ReplayInv
  <2>8. \A i \in 1..Len(reqs) : reqs'[i].inFilter => reqs'[i].hasCtx
    BY <1>a, <2>1, <2>3, <2>5 DEF ReplayInv
  <2>9. QED
    BY <2>2, <2>3, <2>4, <2>5, <2>6, <2>7, <2>8 DEF ReplayInv, HookPCs
<1>3. CASE CreateCtx
  <2>1. CASE coraza_create_ctx /\ pc' = "connection"
    <3> DEFINE f == [req EXCEPT !.hasCtx = TRUE]
    <3>1. /\ f \in Requests /\ f.first = req.first /\ f.inFilter = req.inFilter
      BY <1>a DEF Requests
    <3>2. /\ pc = "fixups" /\ body' = body /\ reqs' = ThisRequest(f)
          /\ ~coraza_ctx_from_prev
      BY <1>3, <2>1 DEF CreateCtx, coraza_create_ctx
    <3> HIDE DEF f
    <3>3. /\ Len(reqs') = Len(reqs) /\ reqs'[Len(reqs)] = f
          /\ \A i \in 1..Len(reqs) : i # Len(reqs) => reqs'[i] = reqs[i]
      BY <1>a, <3>1, <3>2, ThisRequestType
    <3>4. ~Inspected
      <4>1. ~req.hasCtx
        BY <3>2 DEF IInv, ChainInv
      <4>2. ASSUME NEW i \in 1..Len(reqs), reqs[i].hasCtx
            PROVE  FALSE
        BY <1>a, <3>2, <4>1, <4>2 DEF coraza_ctx_from_prev
      <4>3. QED
        BY <4>2 DEF Inspected
    <3>5. \A i \in 1..Len(reqs) : ~reqs[i].inFilter
      BY <3>4 DEF ReplayInv, Inspected
    <3>6. \A i \in 1..Len(reqs') : ~reqs'[i].inFilter
      BY <1>a, <3>1, <3>3, <3>5
    <3>7. ~HasReplay' /\ InOrder'
      BY <3>2, <3>4, <3>6 DEF HasReplay, ReplayInv, InOrder, Counts
    <3>8. /\ body'.eof < Len(reqs') /\ body'.eof \in Nat
      BY <1>a, <3>2, <3>3 DEF ReplayInv
    <3>9. QED
      BY <1>a, <3>3, <3>6, <3>7, <3>8 DEF ReplayInv
  <2>2. CASE ReturnStatus(HTTP_INTERNAL_SERVER_ERROR) /\ body' = body
    BY <1>c, <2>2 DEF HTTP_INTERNAL_SERVER_ERROR
  <2>3. QED
    BY <1>3, <2>1, <2>2 DEF CreateCtx
<1>4. CASE ProcessConnection
  <2>1. CASE Proceed("uri") /\ UNCHANGED <<reqs, body>>
    BY <1>0, <1>4, <1>g, <2>1, ReplayKept DEF Proceed, ProcessConnection, HookPCs
  <2>2. QED
    BY <1>4, <1>d, <1>e, <2>1 DEF ProcessConnection
<1>5. CASE ProcessUri
  <2>1. CASE Proceed("headers") /\ UNCHANGED <<reqs, body>>
    BY <1>0, <1>5, <1>g, <2>1, ReplayKept DEF Proceed, ProcessUri, HookPCs
  <2>2. QED
    BY <1>5, <1>d, <1>e, <2>1 DEF ProcessUri
<1>6. CASE ProcessHeaders
  <2> DEFINE f == [req EXCEPT !.outFilter = TRUE]
  <2>1. /\ f \in Requests /\ f.first = req.first /\ f.hasCtx = req.hasCtx
        /\ f.inFilter = req.inFilter
    BY <1>a DEF Requests
  <2> HIDE DEF f
  <2>2. CASE Proceed("setup") /\ reqs' = ThisRequest(f) /\ body' = body
    BY <1>0, <1>6, <1>f, <2>1, <2>2, ReplayKept DEF Proceed, ProcessHeaders, HookPCs
  <2>3. QED
    BY <1>6, <1>d, <1>e, <2>2 DEF ProcessHeaders, f
<1>7. CASE SetupClientBlock
  <2>1. CASE ReturnStatus(HTTP_BAD_REQUEST) /\ body' = body
    BY <1>c, <2>1 DEF HTTP_BAD_REQUEST
  <2>2. ASSUME NEW access \in BOOLEAN, body' = [body EXCEPT !.inspect = access],
               Proceed("read"), reqs' = reqs
        PROVE  ReplayInv'
    <3>1. /\ body'.app = body.app /\ body'.saved = body.saved /\ body'.read = body.read
          /\ body'.sent = body.sent /\ body'.eof = body.eof
      BY <1>a, <2>2 DEF Bodies
    <3>2. QED
      BY <1>0, <1>7, <1>g, <2>2, <3>1, ReplayKept DEF Proceed, SetupClientBlock, HookPCs
  <2>3. CASE Proceed("finish") /\ UNCHANGED <<reqs, body>>
    BY <1>0, <1>7, <1>g, <2>3, ReplayKept DEF Proceed, SetupClientBlock, HookPCs
  <2>4. QED
    BY <1>7, <2>1, <2>2, <2>3 DEF SetupClientBlock
<1>8. CASE ReadChunk
  <2> DEFINE n == body.read + 1
             kept == [body EXCEPT !.read = n, !.saved = Append(@, n)]
             submitted == [kept EXCEPT !.submitted = @ \cup {n}]
  <2>0. pc = "read" /\ KeepChunk = kept
    BY <1>8 DEF ReadChunk, KeepChunk
  <2>1. /\ kept.eof = body.eof /\ submitted.eof = body.eof
        /\ [body EXCEPT !.read = n].eof = body.eof
        /\ \A b \in {kept, submitted} :
             /\ b.saved = Append(body.saved, n) /\ b.app = body.app
             /\ b.read = n /\ b.sent = body.sent
    BY <1>a DEF Bodies
  <2>2. ASSUME FailClosed \/ Intervenes(ctx, engine), body'.eof = body.eof
        PROVE  ReplayInv'
    <3>1. SameReplay /\ pc' \in {"log", "fixups"}
      BY <2>2, IntervenesReplay, ReturnStatusReplay
      DEF FailClosed, HTTP_INTERNAL_SERVER_ERROR
    <3>2. QED
      BY <1>0, <2>0, <2>2, <3>1, ReplayLost
  <2>3. ASSUME Proceed("read"), body' \in {kept, submitted}, reqs' = reqs
        PROVE  ReplayInv'
    <3>1. /\ body'.saved = Append(body.saved, n) /\ body'.app = body.app
          /\ body'.read = n /\ body'.sent = body.sent /\ body'.eof = body.eof
      BY <2>1, <2>3
    <3> HIDE DEF kept, submitted
    <3>2. InOrder /\ ~HasReplay
      BY <2>0 DEF ReplayInv, HookPCs
    <3>3. body.saved \in Seq(1..MaxBody) /\ body.app \in Seq(1..MaxBody)
      BY <1>a DEF Bodies
    <3>4. /\ Counts(Append(body.saved, n), Len(body.app))
          /\ Len(body.app) + Len(Append(body.saved, n)) = n
      BY <3>2, <3>3, CountsAppend DEF InOrder
    <3>5. InOrder'
      <4>1. Counts(body.app, 0)
        BY <3>2 DEF InOrder
      <4> HIDE DEF n
      <4>2. QED
        BY <3>1, <3>4, <4>1 DEF InOrder, Counts
    <3>6. ~HasReplay' /\ (Inspected' <=> Inspected) /\ pc' = "read"
      BY <2>3, <3>2 DEF HasReplay, Inspected, Proceed
    <3>7. body'.eof # 0 => ~reqs'[body'.eof].inFilter
      BY <1>a, <2>3, <3>1, <3>2 DEF HasReplay, ReplayInv
    <3>8. QED
      BY <2>0, <2>3, <3>1, <3>5, <3>6, <3>7 DEF ReplayInv, HookPCs
  <2>4. ReadChunk => \/ FailClosed /\ body' = [body EXCEPT !.read = n]
                     \/ FailClosed /\ body' = kept
                     \/ Intervenes(ctx, engine) /\ body' = submitted
                     \/ Proceed("read") /\ body' \in {kept, submitted} /\ reqs' = reqs
    BY <2>0 DEF ReadChunk
  <2> HIDE DEF kept, submitted
  <2>5. QED
    BY <1>8, <2>1, <2>2, <2>3, <2>4
<1>9. CASE ReadError
  BY <1>9, <1>c DEF ReadError, HTTP_BAD_REQUEST
<1>10. CASE EndOfBody
  <2> DEFINE f == [req EXCEPT !.inFilter = TRUE]
  <2>0. /\ pc = "read" /\ ~MoreBody /\ pc' = "finish"
        /\ reqs' = ThisRequest(f) /\ body' = body
    BY <1>10 DEF EndOfBody, Proceed
  <2>1. f \in Requests /\ f.first = req.first /\ f.hasCtx = req.hasCtx /\ f.inFilter
    BY <1>a DEF Requests
  <2> HIDE DEF f
  <2>2. /\ Len(reqs') = Len(reqs) /\ reqs'[Len(reqs)] = f
        /\ \A i \in 1..Len(reqs) : i # Len(reqs) => reqs'[i] = reqs[i]
    BY <1>a, <2>0, <2>1, ThisRequestType
  <2>3. /\ InOrder' /\ body'.read = body'.sent /\ body'.eof < Len(reqs')
    <3>1. InOrder /\ body.eof < Len(reqs)
      BY <2>0 DEF ReplayInv, HookPCs
    <3>2. body.read = body.sent
      BY <1>a, <2>0, TypeOKParts DEF MoreBody
    <3>3. QED
      BY <2>0, <2>2, <3>1, <3>2 DEF InOrder, Counts
  <2>4. \A i \in 1..Len(reqs) : ~reqs[i].inFilter
    BY <2>0 DEF ReplayInv, HookPCs, HasReplay
  <2>5. req.hasCtx
    BY <2>0 DEF IInv, ChainInv, HookPCs
  <2>6. \A i \in 1..Len(reqs') : reqs'[i].inFilter => i = Len(reqs) /\ reqs'[i].hasCtx
    BY <1>a, <2>1, <2>2, <2>4, <2>5
  <2>7. body'.eof # 0 => ~reqs'[body'.eof].inFilter
    BY <1>a, <2>0, <2>2, <2>3, <2>6
  <2>8. QED
    BY <2>0, <2>2, <2>3, <2>6, <2>7 DEF ReplayInv, HookPCs
<1>11. CASE ProcessRequestBody
  <2>1. CASE pc' = "handler" /\ UNCHANGED <<reqs, body>>
    BY <1>0, <1>g, <2>1, ReplayKept DEF HookPCs
  <2>2. QED
    BY <1>11, <1>d, <1>e, <2>1 DEF ProcessRequestBody
<1>12. QED
  BY <1>1, <1>2, <1>3, <1>4, <1>5, <1>6, <1>7, <1>8, <1>9, <1>10, <1>11 DEF Fixups

(* Taking the first of the kept numbers.                                   *)
LEMMA CountsMove ==
    ASSUME NEW S, NEW s \in Seq(S), NEW t \in Seq(S), s # <<>>,
           Counts(t, 0), Counts(s, Len(t))
    PROVE  /\ Counts(Append(t, Head(s)), 0)
           /\ Counts(Tail(s), Len(Append(t, Head(s))))
           /\ Len(Append(t, Head(s))) + Len(Tail(s)) = Len(t) + Len(s)
<1>1. /\ Len(s) \in Nat /\ Len(s) >= 1 /\ Len(t) \in Nat /\ Head(s) = s[1]
      /\ Len(Append(t, Head(s))) = Len(t) + 1 /\ Len(Tail(s)) = Len(s) - 1
  OBVIOUS
<1>2. \A j \in 1..(Len(t) + 1) :
        Append(t, Head(s))[j] = IF j = Len(t) + 1 THEN Head(s) ELSE t[j]
  BY <1>1
<1>3. \A j \in 1..(Len(s) - 1) : Tail(s)[j] = s[j + 1]
  BY <1>1
<1>4. Head(s) = Len(t) + 1
  BY <1>1 DEF Counts
<1>5. Counts(Append(t, Head(s)), 0)
  BY <1>1, <1>2, <1>4 DEF Counts
<1>6. \A j \in 1..(Len(s) - 1) : Tail(s)[j] = Len(t) + 1 + j
  BY <1>1, <1>3 DEF Counts
<1>7. Counts(Tail(s), Len(Append(t, Head(s))))
  BY <1>1, <1>6 DEF Counts
<1>8. QED
  BY <1>1, <1>5, <1>7

(* The handler reads from CORAZA_IN or from the connection.                *)
LEMMA HandlerReadsReplay ==
    ASSUME TypeOK, IInv, ReplayInv, HandlerReads
    PROVE  ReplayInv'
<1>1. /\ pc = "handler" /\ pc' = "handler" /\ reqs' = reqs /\ req.status = HTTP_OK
      /\ coraza_input_filter
  BY DEF HandlerReads
<1>2. /\ body \in Bodies /\ body.saved \in Seq(1..MaxBody) /\ body.app \in Seq(1..MaxBody)
      /\ body.read \in Nat /\ body.sent \in Nat /\ body.eof \in Nat
      /\ Len(reqs) \in Nat /\ Len(reqs) >= 1 /\ req = reqs[Len(reqs)]
  BY TypeOKParts, BoundsAssumption DEF Bodies, ChainOK, req, cur
<1>3. (HasReplay' <=> HasReplay) /\ (Inspected' <=> Inspected)
  BY <1>1 DEF HasReplay, Inspected
<1>4. req.inFilter => Inspected /\ HasReplay
  BY <1>2 DEF ReplayInv, Inspected, HasReplay
<1>5. req.inFilter => ~ctx.intervention_triggered
  BY <1>1, <1>4 DEF IInv, BodyInv
<1>6. ~Inspected => body.saved = <<>>
  BY DEF IInv, TransactionInv
<1>7. CASE /\ req.inFilter /\ body.saved # <<>>
           /\ body' = [body EXCEPT !.app = Append(@, Head(body.saved)), !.saved = Tail(@)]
  <2>1. /\ body'.app = Append(body.app, Head(body.saved)) /\ body'.saved = Tail(body.saved)
        /\ body'.read = body.read /\ body'.sent = body.sent /\ body'.eof = body.eof
    BY <1>2, <1>7 DEF Bodies
  <2>2. InOrder /\ HasReplay
    BY <1>4, <1>7 DEF ReplayInv
  <2>3. InOrder'
    <3>1. /\ Counts(Append(body.app, Head(body.saved)), 0)
          /\ Counts(Tail(body.saved), Len(Append(body.app, Head(body.saved))))
          /\ Len(Append(body.app, Head(body.saved))) + Len(Tail(body.saved))
               = Len(body.app) + Len(body.saved)
      BY <1>2, <1>7, <2>2, CountsMove DEF InOrder
    <3>2. QED
      BY <2>1, <2>2, <3>1 DEF InOrder, Counts
  <2>4. body.eof # 0 => ~reqs[body.eof].inFilter
    BY <1>7 DEF ReplayInv
  <2>5. QED
    BY <1>1, <1>3, <2>1, <2>2, <2>3, <2>4 DEF ReplayInv, HookPCs
<1>8. CASE /\ body.read < body.sent
           /\ body' = [body EXCEPT !.app = Append(@, body.read + 1), !.read = @ + 1]
  <2>1. /\ body'.app = Append(body.app, body.read + 1) /\ body'.saved = body.saved
        /\ body'.read = body.read + 1 /\ body'.sent = body.sent /\ body'.eof = body.eof
    BY <1>2, <1>8 DEF Bodies
  <2>2. ~HasReplay
    BY <1>2, <1>8 DEF ReplayInv
  <2>3. ~Inspected => InOrder'
    <3> SUFFICES ASSUME ~Inspected PROVE InOrder'
      OBVIOUS
    <3>1. /\ Counts(body.app, 0) /\ Len(body.app) + Len(body.saved) = body.read
          /\ body.saved = <<>>
      BY <1>6 DEF ReplayInv, InOrder
    <3>2. Len(body.app) = body.read
      BY <1>2, <3>1
    <3>3. /\ Len(Append(body.app, body.read + 1)) = body.read + 1
          /\ \A j \in 1..(body.read + 1) : Append(body.app, body.read + 1)[j]
               = IF j = body.read + 1 THEN body.read + 1 ELSE body.app[j]
      BY <1>2, <3>2, SMTT(40)
    <3>4. Counts(body'.app, 0) /\ Len(body'.app) = body'.read
      BY <1>2, <2>1, <3>1, <3>2, <3>3 DEF Counts
    <3>5. body'.saved = <<>>
      BY <2>1, <3>1
    <3>6. Len(body'.saved) = 0 /\ body'.read \in Nat
      BY <1>2, <2>1, <3>5
    <3>7. QED
      BY <3>4, <3>6 DEF InOrder, Counts
  <2>4. body.eof # 0 => ~reqs[body.eof].inFilter
    BY <1>2, <2>2 DEF ReplayInv, HasReplay
  <2>5. QED
    BY <1>1, <1>3, <2>1, <2>2, <2>3, <2>4 DEF ReplayInv, HookPCs
<1>9. CASE /\ ~(req.inFilter /\ body.saved # <<>>)
           /\ body' = [body EXCEPT !.eof = cur]
  <2>1. /\ body'.app = body.app /\ body'.saved = body.saved /\ body'.read = body.read
        /\ body'.sent = body.sent /\ body'.eof = Len(reqs)
    BY <1>2, <1>9 DEF Bodies, cur
  <2>2. InOrder' <=> InOrder
    BY <2>1 DEF InOrder, Counts
  <2>3. reqs'[body'.eof].inFilter => body'.saved = <<>>
    BY <1>1, <1>2, <1>9, <2>1
  <2>4. QED
    BY <1>1, <1>2, <1>3, <2>1, <2>2, <2>3 DEF ReplayInv, HookPCs
<1>10. QED
  BY <1>1, <1>5, <1>7, <1>8, <1>9 DEF coraza_input_filter

(* httpd and the content handler keep the body in order.                   *)
LEMMA HandlerReplay ==
    ASSUME TypeOK, IInv, ReplayInv, Handler
    PROVE  ReplayInv'
<1>0. TypeOK'
  BY HandlerType
<1>a. SameMarks(reqs) /\ req \in Requests /\ ChainOK(reqs) /\ Len(reqs) \in Nat
  BY TypeOKParts, ReqType DEF SameMarks, ChainOK
<1>b. ASSUME SameReplay, body' = body, pc' = "fixups" => Len(reqs') = Len(reqs) + 1,
             pc' \notin HookPCs
      PROVE  ReplayInv'
  BY <1>0, <1>b, ReplayKept
<1>c. ASSUME NEW status \in Nat, ReturnStatus(status), body' = body
      PROVE  ReplayInv'
  BY <1>b, <1>c, ReturnStatusReplay DEF HookPCs
<1>d. \A status \in HandlerErrors : status \in Nat
  BY HandlerErrorsAssumption
<1>1. CASE EarlierHookFails
  BY <1>1, <1>c, <1>d DEF EarlierHookFails
<1>2. CASE HandlerReads
  BY <1>2, HandlerReadsReplay
<1>3. CASE HandlerSetsStatus
  <2>1. PICK status \in HandlerErrors : reqs' = ThisRequest([req EXCEPT !.status = status])
    BY <1>3 DEF HandlerSetsStatus
  <2> DEFINE f == [req EXCEPT !.status = status]
  <2>2. /\ f \in Requests /\ f.first = req.first /\ f.hasCtx = req.hasCtx
        /\ f.inFilter = req.inFilter
    BY <1>a, <1>d DEF Requests
  <2> HIDE DEF f
  <2>3. SameReplay
    BY <2>1, <2>2, ThisRequestMarks, OutcomeReplay DEF f
  <2>4. QED
    BY <1>3, <1>b, <2>3 DEF HandlerSetsStatus, HookPCs
<1>4. CASE HandlerPasses
  <2>1. PICK k \in 0..(MaxChunks - req.passed), eos \in BOOLEAN, err \in BOOLEAN :
          LET data == [i \in 1..k |-> [req |-> cur, n |-> req.passed + i]]
              rs == ThisRequest([req EXCEPT !.passed = @ + k, !.eos_sent = eos])
          IN  \/ reqs' = rs /\ pc' = "filter"
              \/ PassBrigade(err, data, rs, IF eos THEN "log" ELSE "handler")
    BY <1>4 DEF HandlerPasses
  <2> DEFINE f == [req EXCEPT !.passed = @ + k, !.eos_sent = eos]
             next == IF eos THEN "log" ELSE "handler"
  <2>2. req.passed \in 0..MaxChunks
    BY <1>a DEF Requests
  <2>3. req.passed + k \in 0..MaxChunks
    BY <2>2, BoundsAssumption
  <2>4. /\ f \in Requests /\ f.first = req.first /\ f.hasCtx = req.hasCtx
        /\ f.inFilter = req.inFilter
    BY <1>a, <2>3 DEF Requests
  <2>5. next \in {"log", "handler"}
    OBVIOUS
  <2> HIDE DEF f, next
  <2>6. SameMarks(ThisRequest(f))
    BY <2>4, ThisRequestMarks
  <2>7. \/ reqs' = ThisRequest(f) /\ pc' = "filter"
        \/ \E data : PassBrigade(err, data, ThisRequest(f), next)
    BY <2>1 DEF f, next
  <2>8. SameReplay /\ (pc' = "fixups" => Len(reqs') = Len(reqs) + 1) /\ pc' \notin HookPCs
    BY <2>5, <2>6, <2>7, PassReplay, OutcomeReplay DEF HookPCs
  <2>9. QED
    BY <1>4, <1>b, <2>8 DEF HandlerPasses
<1>5. CASE HandlerFails
  BY <1>5, <1>c, <1>d DEF HandlerFails
<1>6. CASE HandlerRedirects
  <2>1. Redirects(reqs, req.status)
    BY <1>6, <1>a, RedirectOutcome DEF HandlerRedirects, req, cur
  <2>2. QED
    BY <1>6, <1>a, <1>b, <2>1, OutcomeReplay DEF HandlerRedirects, Redirects, HookPCs
<1>7. CASE HandlerStops
  <2>1. CASE reqs' = reqs /\ pc' = "log"
    BY <1>7, <1>a, <1>b, <2>1, OutcomeReplay DEF HandlerStops, HookPCs
  <2>2. QED
    BY <1>7, <1>c, <2>1 DEF HandlerStops, HTTP_INTERNAL_SERVER_ERROR
<1>8. QED
  BY <1>1, <1>2, <1>3, <1>4, <1>5, <1>6, <1>7 DEF Handler

---------------------------------------------------------------------------
(* The body the module has taken from the client is in order, in the hands *)
(* of the handler or of CORAZA_IN, in every state of every behaviour.      *)
THEOREM ReplayInvariance == Spec => []ReplayInv
<1>1. Init => ReplayInv
  <2> SUFFICES ASSUME Init PROVE ReplayInv
    OBVIOUS
  <2>1. PICK on \in BOOLEAN : reqs = <<NewRequest(on, HTTP_OK, 1)>>
    BY DEF Init
  <2> DEFINE r == NewRequest(on, HTTP_OK, 1)
  <2>2. ~r.inFilter /\ ~r.hasCtx
    BY DEF NewRequest
  <2> HIDE DEF r
  <2>3. Len(reqs) = 1 /\ \A i \in 1..1 : reqs[i] = r
    BY <2>1 DEF r
  <2>4. ~HasReplay
    BY <2>2, <2>3 DEF HasReplay
  <2>5. /\ body.app = <<>> /\ body.saved = <<>> /\ body.read = 0 /\ body.eof = 0
        /\ pc = "fixups"
    BY DEF Init
  <2>6. InOrder
    BY <2>5 DEF InOrder, Counts
  <2>7. QED
    BY <2>3, <2>4, <2>5, <2>6 DEF ReplayInv, HookPCs, HasReplay
<1>2. TypeOK /\ IInv /\ ReplayInv /\ [Next]_vars => ReplayInv'
  <2> SUFFICES ASSUME TypeOK, IInv, ReplayInv, [Next]_vars PROVE ReplayInv'
    OBVIOUS
  <2>1. CASE Fixups
    BY <2>1, FixupsReplay
  <2>2. CASE OutputFilter
    <3>1. TypeOK'
      BY <2>2, OutputFilterType
    <3>2. /\ SameReplay /\ body' = body /\ pc' \notin HookPCs
          /\ pc' = "fixups" => Len(reqs') = Len(reqs) + 1
      BY <2>2, OutputFilterReplay DEF HookPCs, FilterPCs
    <3>3. QED
      BY <3>1, <3>2, ReplayKept
  <2>3. CASE Handler
    BY <2>3, HandlerReplay
  <2>4. CASE coraza_log_transaction
    BY <2>4 DEF coraza_log_transaction, ReplayInv, HasReplay, Inspected, InOrder, Counts,
                HookPCs
  <2>5. CASE UNCHANGED vars
    BY <2>5 DEF vars, ReplayInv, HasReplay, Inspected, InOrder, Counts
  <2>6. QED
    BY <2>1, <2>2, <2>3, <2>4, <2>5 DEF Next, Done
<1>3. QED
  BY <1>1, <1>2, Invariance, PTL DEF Spec

(* The handler of the request_rec that has CORAZA_IN is given the whole    *)
(* body, once and in order, before it sees the end of its input.           *)
THEOREM BodyReplayedHolds == Spec => []BodyReplayed
<1>1. TypeOK /\ ReplayInv => BodyReplayed
  <2> SUFFICES ASSUME TypeOK, ReplayInv, body.eof # 0, reqs[body.eof].inFilter
               PROVE  body.app = [i \in 1..body.sent |-> i]
    BY DEF BodyReplayed
  <2>1. /\ body.app \in Seq(1..MaxBody) /\ body.eof \in Nat /\ Len(reqs) \in Nat
        /\ body.sent \in Nat
    BY TypeOKParts, BoundsAssumption DEF Bodies, ChainOK
  <2>2. HasReplay /\ InOrder /\ body.read = body.sent /\ body.saved = <<>>
    BY <2>1 DEF HasReplay, ReplayInv
  <2>3. Len(body.app) = body.sent
    <3>1. Len(body.app) + Len(body.saved) = body.sent /\ Len(body.app) \in Nat
      BY <2>1, <2>2 DEF InOrder
    <3>2. Len(body.saved) = 0
      BY <2>2
    <3>3. QED
      BY <2>1, <3>1, <3>2
  <2>4. \A i \in 1..body.sent : body.app[i] = i
    BY <2>1, <2>2, <2>3 DEF InOrder, Counts
  <2>5. body.app = [i \in 1..Len(body.app) |-> body.app[i]]
    BY <2>1
  <2>6. QED
    BY <2>3, <2>4, <2>5
<1>2. QED
  BY <1>1, ReplayInvariance, Invariance, PTL
=============================================================================
