------------------------ MODULE CorazaResponseProofs ------------------------
(***************************************************************************)
(* What reaches the client, for every value of the constants: one          *)
(* response, complete, inspected, withheld when it is denied.  The         *)
(* theorems are about upstreams that do not break after their first bytes  *)
(* (~LateErrors); the runs late_errors and late_inspected show what        *)
(* remains true of the others and what does not.                           *)
(***************************************************************************)
EXTENDS CorazaReplayProofs

Denied == ctx.intervention_triggered
Blank == wire.hdr = 0 /\ wire.body = <<>>

(* s is the buckets from + 1, from + 2, ... of the response of request r.  *)
Run(s, r, from) == \A j \in 1..Len(s) : s[j].req = r /\ s[j].n = from + j

(* The engine has been given every bucket of s.                            *)
AllSeen(s) ==
    \A j \in 1..Len(s) : \E k \in 1..Len(engine.seen) : engine.seen[k] = s[j]

(* The wire carries one response or one page; until a handler produces     *)
(* output it carries nothing.                                              *)
WireInv ==
    /\ wire.hdr <= Len(reqs)
    /\ wire.hdr = 0 => wire.body = <<>>
    /\ wire.body = Page(wire.hdr) \/ Run(wire.body, wire.hdr, 0)
    /\ client.header_only => wire.body = <<>>
    /\ pc \in {"fixups", "phase4", "delay"} \cup HookPCs => Blank

(* Who is denied, what a drop has done to the connection, and what the     *)
(* client may have received of it.                                         *)
DropInv ==
    /\ Denied <=> hist.denied # 0
    /\ hist.denied <= Len(reqs)
    /\ ~Inspected => ~ctx.drop_connection
    /\ conn.aborted <=> ctx.drop_connection
    /\ conn.aborted => /\ conn.keepalive = "close"
                       /\ Denied
                       /\ Blank \/ hist.route = "nodelay"
                       /\ Blank \/ pc \in {"filter_error", "log", "done"}
    /\ pc = "filter_error" => /\ Denied
                              /\ hist.denied = Len(reqs)
                              /\ conn.aborted \/ hist.route = "nodelay"
    /\ Denied => pc \in {"filter_error", "log", "done"} \/ hist.denied < Len(reqs)
    /\ Denied /\ hist.route # "nodelay" =>
         \/ wire.body = <<>>
         \/ wire.body = Page(wire.hdr)
         \/ wire.hdr > hist.denied

(* Which phases have been evaluated where.                                 *)
PhaseInv ==
    /\ PhasesOnceInOrder
    /\ ~Inspected => ~ctx.phase3_done /\ \A p \in 1..4 : engine.ran[p] = 0
    /\ pc \in {"connection", "uri", "headers"} => engine.ran[1] = 0
    /\ pc \in {"setup", "read", "finish"} => engine.ran[1] = 1
    /\ pc \in HookPCs => engine.ran[2] = 0 /\ ~ctx.phase3_done
    /\ ~ctx.phase3_done => engine.ran[3] = 0 /\ engine.ran[4] = 0
    /\ pc \in FilterPCs => ctx.phase3_done /\ engine.ran[3] = 1 /\ engine.ran[4] = 0

(* How the filter treats the response: a held one is nowhere on the wire,  *)
(* and the filter stays in the chain only while it holds or watches.       *)
Watched == hist.route = IF ctx.headers_delayed THEN "held" ELSE "nodelay"

RouteInv ==
    /\ ~ctx.phase3_done => hist.route = "none"
    /\ ~ctx.headers_delayed => ctx.pending = <<>>
    /\ ctx.headers_delayed =>
         /\ hist.route = "held" /\ ctx.response_body_processable /\ ~client.header_only
         /\ pc \in {"handler", "filter", "loop"} /\ req.outFilter
         /\ Blank /\ ctx.phase3_done /\ ~Denied
    /\ ctx.phase3_done /\ ~Denied =>
         /\ engine.headersOf = Len(reqs)
         /\ pc \in {"handler", "filter", "log", "done"} \cup FilterPCs
    /\ pc = "loop" => Watched
    /\ pc \in {"phase4", "delay"} => hist.route = "none"
    /\ pc \in {"handler", "filter"} /\ ctx.phase3_done /\ ~Denied /\ req.outFilter =>
         Watched /\ engine.ran[3] = 1 /\ engine.ran[4] = 0

(* The first m buckets of the handler being served are held, or on the     *)
(* wire (a HEAD response shows none, an aborted connection nothing).       *)
Gone(m) ==
    IF ctx.headers_delayed THEN Len(ctx.pending) = m /\ Run(ctx.pending, Len(reqs), 0)
    ELSE IF m = 0 \/ conn.aborted THEN Blank
    ELSE /\ wire.hdr = Len(reqs)
         /\ Run(wire.body, Len(reqs), 0)
         /\ client.header_only \/ Len(wire.body) = m

(* The brigade is the buckets after them.                                  *)
Brigade(m) ==
    /\ Gone(m)
    /\ Run(bb.done, Len(reqs), m)
    /\ Run(bb.todo, Len(reqs), m + Len(bb.done))
    /\ m + Len(bb.done) + Len(bb.todo) = req.passed

(* Nothing a handler passes gets lost between the brigade, the pending     *)
(* brigade and the wire.                                                   *)
FlowInv ==
    /\ \A i \in 1..(Len(reqs) - 1) : reqs[i].passed = 0 \/ i = hist.denied
    /\ pc \in {"fixups"} \cup HookPCs => req.passed = 0
    /\ pc \in {"setup", "read", "finish"} => req.outFilter
    /\ pc = "handler" => Gone(req.passed)
    /\ pc = "handler" /\ req.passed = 0 =>
         /\ ctx.phase3_done => Denied
         /\ req.hasCtx => req.outFilter
    /\ pc = "handler" /\ req.passed > 0 /\ req.outFilter => ctx.phase3_done /\ ~Denied
    /\ pc \in {"filter"} \cup FilterPCs =>
         /\ req.outFilter
         /\ ~bb.err
         /\ bb.eos \/ req.passed > 0
         /\ \E m \in 0..req.passed : Brigade(m)
    /\ pc \in {"filter", "phase4", "delay"} => bb.done = <<>>
    /\ pc \in {"phase4", "delay"} \/ (pc = "filter" /\ ~ctx.phase3_done) => Brigade(0)
    /\ pc = "delay" => ctx.response_body_processable

(* The engine has seen what is held, and what was held and is released.    *)
SeenInv ==
    /\ ctx.headers_delayed => AllSeen(ctx.pending)
    /\ pc = "loop" /\ ctx.headers_delayed => AllSeen(bb.done)
    /\ hist.route = "held" /\ ~Denied /\ ~ctx.headers_delayed =>
         /\ pc \in {"log", "done"}
         /\ engine.ran[4] = 1
         /\ AllSeen(wire.body)
    /\ engine.headersOf <= Len(reqs)
    /\ Denied => engine.headersOf <= hist.denied

(* A request that is over has been answered.                               *)
EndInv ==
    /\ pc \in {"log", "done"} => wire.hdr # 0 \/ conn.aborted \/ hist.route = "nodelay"
    /\ pc \in {"log", "done"} /\ ~Denied =>
         /\ wire.hdr # 0
         /\ \/ client.header_only
            \/ wire.body = Page(wire.hdr)
            \/ Len(wire.body) = reqs[wire.hdr].passed
    /\ wire.hdr # 0 /\ ~Denied =>
         (reqs[wire.hdr].hasCtx /\ reqs[wire.hdr].passed > 0 => engine.headersOf = wire.hdr)

ResponseInv == WireInv /\ DropInv /\ PhaseInv /\ RouteInv /\ FlowInv /\ SeenInv /\ EndInv

---------------------------------------------------------------------------
(* Runs of buckets.                                                        *)
LEMMA RunEmpty == ASSUME NEW r, NEW from PROVE Run(<<>>, r, from)
  BY DEF Run

LEMMA RunConcat ==
    ASSUME NEW S, NEW s \in Seq(S), NEW t \in Seq(S), NEW r, NEW from \in Nat,
           Run(s, r, from), Run(t, r, from + Len(s))
    PROVE  /\ Run(s \o t, r, from) /\ s \o t \in Seq(S)
           /\ Len(s \o t) = Len(s) + Len(t)
<1>1. /\ Len(s) \in Nat /\ Len(t) \in Nat /\ s \o t \in Seq(S)
      /\ Len(s \o t) = Len(s) + Len(t)
  OBVIOUS
<1>2. \A j \in 1..(Len(s) + Len(t)) :
        (s \o t)[j] = IF j <= Len(s) THEN s[j] ELSE t[j - Len(s)]
  BY <1>1
<1>3. ASSUME NEW j \in 1..(Len(s) + Len(t))
      PROVE  (s \o t)[j].req = r /\ (s \o t)[j].n = from + j
  <2>1. CASE j <= Len(s)
    BY <1>1, <1>2, <2>1 DEF Run
  <2>2. CASE j > Len(s)
    <3>1. j - Len(s) \in 1..Len(t) /\ (s \o t)[j] = t[j - Len(s)]
      BY <1>1, <1>2, <2>2
    <3>2. t[j - Len(s)].req = r /\ t[j - Len(s)].n = from + Len(s) + (j - Len(s))
      BY <3>1 DEF Run
    <3>3. QED
      BY <1>1, <3>1, <3>2
  <2>3. QED
    BY <1>1, <2>1, <2>2
<1>4. QED
  BY <1>1, <1>3 DEF Run

(* The buckets a handler makes.                                            *)
LEMMA RunMade ==
    ASSUME NEW S, NEW r, NEW p \in Nat, NEW k \in Nat,
           \A i \in 1..k : [req |-> r, n |-> p + i] \in S
    PROVE  LET d == [i \in 1..k |-> [req |-> r, n |-> p + i]] IN
           d \in Seq(S) /\ Len(d) = k /\ Run(d, r, p)
<1> DEFINE d == [i \in 1..k |-> [req |-> r, n |-> p + i]]
<1>1. d \in Seq(S)
  OBVIOUS
<1>2. \A j \in 1..k : d[j].req = r /\ d[j].n = p + j
  OBVIOUS
<1>3. Len(d) = k
  OBVIOUS
<1> HIDE DEF d
<1>4. Run(d, r, p)
  BY <1>2, <1>3 DEF Run
<1>5. QED
  BY <1>1, <1>3, <1>4 DEF d

(* Moving the first bucket of t to the end of s.                           *)
LEMMA RunMove ==
    ASSUME NEW S, NEW s \in Seq(S), NEW t \in Seq(S), t # <<>>, NEW r, NEW from \in Nat,
           Run(s, r, from), Run(t, r, from + Len(s))
    PROVE  /\ Append(s, Head(t)) \in Seq(S) /\ Tail(t) \in Seq(S)
           /\ Len(Append(s, Head(t))) = Len(s) + 1
           /\ Len(Tail(t)) = Len(t) - 1 /\ Len(t) >= 1
           /\ Run(Append(s, Head(t)), r, from)
           /\ Run(Tail(t), r, from + Len(s) + 1)
<1>1. /\ Append(s, Head(t)) \in Seq(S) /\ Tail(t) \in Seq(S)
      /\ Len(Append(s, Head(t))) = Len(s) + 1
      /\ Len(Tail(t)) = Len(t) - 1 /\ Len(t) \in Nat /\ Len(s) \in Nat /\ Len(t) >= 1
      /\ Head(t) = t[1]
  OBVIOUS
<1>2. /\ \A j \in 1..(Len(s) + 1) :
           Append(s, Head(t))[j] = IF j = Len(s) + 1 THEN t[1] ELSE s[j]
      /\ \A j \in 1..(Len(t) - 1) : Tail(t)[j] = t[j + 1]
  BY <1>1
<1>3. t[1].req = r /\ t[1].n = from + Len(s) + 1
  BY <1>1 DEF Run
<1>4. Run(Append(s, Head(t)), r, from)
  <2>1. ASSUME NEW j \in 1..(Len(s) + 1)
        PROVE  Append(s, Head(t))[j].req = r /\ Append(s, Head(t))[j].n = from + j
    <3>1. CASE j = Len(s) + 1
      BY <1>1, <1>2, <1>3, <3>1
    <3>2. CASE j \in 1..Len(s)
      BY <1>1, <1>2, <3>2 DEF Run
    <3>3. QED
      BY <1>1, <3>1, <3>2
  <2>2. QED
    BY <1>1, <2>1 DEF Run
<1>5. Run(Tail(t), r, from + Len(s) + 1)
  <2>1. ASSUME NEW j \in 1..(Len(t) - 1)
        PROVE  Tail(t)[j].req = r /\ Tail(t)[j].n = from + Len(s) + 1 + j
    <3>1. j + 1 \in 1..Len(t) /\ Tail(t)[j] = t[j + 1]
      BY <1>1, <1>2
    <3>2. t[j + 1].req = r /\ t[j + 1].n = from + Len(s) + (j + 1)
      BY <3>1 DEF Run
    <3>3. QED
      BY <1>1, <3>1, <3>2
  <2>2. QED
    BY <1>1, <2>1 DEF Run
<1>6. QED
  BY <1>1, <1>4, <1>5

LEMMA MoveSum ==
    ASSUME NEW S, NEW s \in Seq(S), NEW t \in Seq(S), t # <<>>, NEW m \in Nat, NEW p \in Nat,
           m + Len(s) + Len(t) = p
    PROVE  /\ m + Len(Append(s, Head(t))) = m + Len(s) + 1
           /\ m + Len(Append(s, Head(t))) + Len(Tail(t)) = p
  OBVIOUS


(* What the engine has seen when it is given one more bucket.              *)
LEMMA SeenMore ==
    ASSUME NEW S, NEW seen \in Seq(S), NEW b, NEW s \in Seq(S),
           \A j \in 1..Len(s) : \E k \in 1..Len(seen) : seen[k] = s[j]
    PROVE  /\ \A j \in 1..Len(s) :
                \E k \in 1..Len(Append(seen, b)) : Append(seen, b)[k] = s[j]
           /\ \A j \in 1..Len(Append(s, b)) :
                \E k \in 1..Len(Append(seen, b)) : Append(seen, b)[k] = Append(s, b)[j]
<1>1. /\ Len(seen) \in Nat /\ Len(s) \in Nat
      /\ Len(Append(seen, b)) = Len(seen) + 1 /\ Len(Append(s, b)) = Len(s) + 1
      /\ \A k \in 1..Len(seen) : Append(seen, b)[k] = seen[k]
      /\ Append(seen, b)[Len(seen) + 1] = b
      /\ \A k \in 1..Len(s) : Append(s, b)[k] = s[k]
      /\ Append(s, b)[Len(s) + 1] = b
  OBVIOUS
<1>2. ASSUME NEW j \in 1..Len(s)
      PROVE  \E k \in 1..Len(Append(seen, b)) : Append(seen, b)[k] = s[j]
  <2>1. PICK k \in 1..Len(seen) : seen[k] = s[j]
    OBVIOUS
  <2>2. k \in 1..Len(Append(seen, b)) /\ Append(seen, b)[k] = s[j]
    BY <1>1, <2>1
  <2>3. QED
    BY <2>2
<1>3. ASSUME NEW j \in 1..Len(Append(s, b))
      PROVE  \E k \in 1..Len(Append(seen, b)) : Append(seen, b)[k] = Append(s, b)[j]
  <2>1. CASE j = Len(s) + 1
    BY <1>1, <2>1
  <2>2. CASE j \in 1..Len(s)
    BY <1>1, <1>2, <2>2
  <2>3. QED
    BY <1>1, <2>1, <2>2
<1>4. QED
  BY <1>2, <1>3

LEMMA SeenAppend ==
    ASSUME NEW S, NEW seen \in Seq(S), NEW b, NEW s \in Seq(S), NEW more, NEW t,
           more = Append(seen, b), t = Append(s, b),
           \A j \in 1..Len(s) : \E k \in 1..Len(seen) : seen[k] = s[j]
    PROVE  \A j \in 1..Len(t) : \E k \in 1..Len(more) : more[k] = t[j]
  BY SeenMore

(* What has been seen of two sequences has been seen of both.              *)
LEMMA SeenConcat ==
    ASSUME NEW S, NEW s \in Seq(S), NEW t \in Seq(S), AllSeen(s), AllSeen(t)
    PROVE  AllSeen(s \o t)
<1>1. /\ Len(s) \in Nat /\ Len(t) \in Nat /\ Len(s \o t) = Len(s) + Len(t)
      /\ \A j \in 1..(Len(s) + Len(t)) :
           (s \o t)[j] = IF j <= Len(s) THEN s[j] ELSE t[j - Len(s)]
  OBVIOUS
<1>2. ASSUME NEW j \in 1..Len(s \o t)
      PROVE  \E k \in 1..Len(engine.seen) : engine.seen[k] = (s \o t)[j]
  <2>1. CASE j <= Len(s)
    BY <1>1, <2>1 DEF AllSeen
  <2>2. CASE j > Len(s)
    <3>1. j - Len(s) \in 1..Len(t) /\ (s \o t)[j] = t[j - Len(s)]
      BY <1>1, <2>2
    <3>2. QED
      BY <3>1 DEF AllSeen
  <2>3. QED
    BY <1>1, <2>1, <2>2
<1>3. QED
  BY <1>2 DEF AllSeen

---------------------------------------------------------------------------
(* What the filters below CORAZA_OUT make of a brigade.                    *)
LEMMA SentBlank ==
    ASSUME TypeOK, Blank, NEW i, NEW status, NEW data \in Seq(Buckets)
    PROVE  LET w == Sent(i, status, data) IN
           /\ conn.aborted => w = wire
           /\ ~conn.aborted => /\ w.hdr = i
                               /\ w.body = IF client.header_only THEN <<>> ELSE data
<1>1. <<>> \o data = data
  OBVIOUS
<1>2. QED
  BY <1>1 DEF Sent, Blank

(* The next buckets of a response follow the ones before them.             *)
LEMMA SentRun ==
    ASSUME TypeOK, ~conn.aborted, NEW m \in Nat, NEW r \in 1..MaxReqs, NEW status,
           NEW data \in Seq(Buckets), Run(data, r, m),
           client.header_only => wire.body = <<>>,
           \/ m = 0 /\ Blank
           \/ /\ wire.hdr = r /\ Run(wire.body, r, 0)
              /\ client.header_only \/ Len(wire.body) = m
    PROVE  LET w == Sent(r, status, data) IN
           /\ w.hdr = r
           /\ Run(w.body, r, 0)
           /\ client.header_only => w.body = <<>>
           /\ client.header_only \/ Len(w.body) = m + Len(data)
<1>1. wire.body \in Seq(Buckets)
  BY TypeOKParts DEF Wires
<1>2. CASE Blank /\ m = 0
  BY <1>2, SentBlank, RunEmpty
<1>3. CASE client.header_only /\ wire.hdr = r
  <2>1. Sent(r, status, data).hdr = r /\ Sent(r, status, data).body = wire.body
    BY <1>3 DEF Sent
  <2>2. QED
    BY <1>3, <2>1, RunEmpty
<1>4. CASE /\ ~client.header_only /\ wire.hdr = r /\ Run(wire.body, r, 0)
           /\ Len(wire.body) = m
  <2>1. /\ Sent(r, status, data).hdr = r
        /\ Sent(r, status, data).body = wire.body \o data
    BY <1>4 DEF Sent
  <2>2. Run(wire.body \o data, r, 0) /\ Len(wire.body \o data) = m + Len(data)
    BY <1>1, <1>4, RunConcat
  <2>3. QED
    BY <1>4, <2>1, <2>2
<1>5. QED
  BY <1>2, <1>3, <1>4

---------------------------------------------------------------------------
(* The numbers and the sequences of a state.                               *)
LEMMA Sizes ==
    ASSUME TypeOK
    PROVE  /\ Len(reqs) \in Nat /\ Len(reqs) >= 1 /\ Len(reqs) \in 1..MaxReqs
           /\ req = reqs[Len(reqs)] /\ cur = Len(reqs) /\ req \in Requests
           /\ \A i \in 1..Len(reqs) : reqs[i].passed \in Nat
           /\ wire.hdr \in Nat /\ hist.denied \in Nat /\ engine.headersOf \in Nat
           /\ bb.todo \in Seq(Buckets) /\ bb.done \in Seq(Buckets)
           /\ Len(bb.todo) \in Nat /\ Len(bb.done) \in Nat
           /\ ctx.pending \in Seq(Buckets) /\ wire.body \in Seq(Buckets)
           /\ engine.seen \in Seq(Buckets)
<1>1. ChainOK(reqs) /\ req \in Requests
  BY TypeOKParts, ReqType
<1>2. /\ Len(reqs) \in Nat /\ Len(reqs) >= 1 /\ Len(reqs) \in 1..MaxReqs
      /\ req = reqs[Len(reqs)] /\ cur = Len(reqs)
  BY <1>1, BoundsAssumption DEF ChainOK, req, cur
<1>3. \A i \in 1..Len(reqs) : reqs[i].passed \in Nat
  <2>1. \A i \in 1..Len(reqs) : reqs[i] \in Requests
    BY <1>1 DEF ChainOK
  <2>2. \A r \in Requests : r.passed \in Nat
    BY BoundsAssumption DEF Requests
  <2>3. QED
    BY <2>1, <2>2
<1>4. /\ bb.todo \in Seq(Buckets) /\ bb.done \in Seq(Buckets)
      /\ ctx.pending \in Seq(Buckets) /\ wire.body \in Seq(Buckets)
      /\ engine.seen \in Seq(Buckets)
  BY TypeOKParts DEF Brigades, Contexts, Wires, Engines
<1>5. Len(bb.todo) \in Nat /\ Len(bb.done) \in Nat
  BY <1>4
<1>6. wire.hdr \in Nat /\ hist.denied \in Nat /\ engine.headersOf \in Nat
  BY TypeOKParts, BoundsAssumption DEF Wires, Histories, Engines
<1>7. QED
  BY <1>1, <1>2, <1>3, <1>4, <1>5, <1>6

(* rs is a chain of the same request_recs that have passed as much.        *)
SameFlow(rs) ==
    /\ ChainOK(rs) /\ Len(rs) = Len(reqs)
    /\ \A i \in 1..Len(reqs) :
         rs[i].hasCtx = reqs[i].hasCtx /\ rs[i].passed = reqs[i].passed

(* The evaluations of a step that ends the inspection of a request_rec.    *)
PhasesKept ==
    /\ PhasesOnceInOrder'
    /\ ~ctx'.phase3_done => /\ ~ctx.phase3_done
                            /\ engine'.ran[3] = 0 /\ engine'.ran[4] = 0
    /\ ~Inspected' => ~ctx'.phase3_done /\ \A p \in 1..4 : engine'.ran[p] = 0

(* A page or an ErrorDocument takes the place of a response of which the   *)
(* client has nothing.                                                     *)
LEMMA DieKeeps ==
    ASSUME TypeOK, TypeOK', ResponseInv, Blank,
           NEW rs, SameFlow(rs), NEW i \in 1..Len(reqs), NEW status,
           Redirects(rs, status) \/ Pages(rs, i, status),
           client' = client, conn' = conn, hist'.route = hist.route,
           ctx'.drop_connection = ctx.drop_connection,
           ~ctx'.headers_delayed, ctx'.pending = <<>>, PhasesKept,
           Denied => Denied' /\ hist'.denied = hist.denied,
           \/ /\ Denied' /\ hist'.denied = Len(reqs)
              /\ engine'.headersOf <= Len(reqs)
           \/ /\ Denied' <=> Denied
              /\ hist'.denied = hist.denied /\ engine'.headersOf = engine.headersOf
              /\ req.passed = 0 /\ (ctx'.phase3_done => Denied')
    PROVE  ResponseInv'
<1>0. /\ Len(reqs) \in Nat /\ Len(reqs) >= 1 /\ req = reqs[Len(reqs)]
      /\ \A j \in 1..Len(reqs) : reqs[j].passed \in Nat
      /\ hist.denied \in Nat /\ engine.headersOf \in Nat
      /\ Len(rs) = Len(reqs)
  BY Sizes DEF SameFlow
<1>1. /\ WireInv /\ DropInv /\ PhaseInv /\ RouteInv /\ FlowInv /\ SeenInv /\ EndInv
  BY DEF ResponseInv
<1>2. /\ pc' \in {"fixups", "log"}
      /\ pc' = "fixups" => Len(reqs') = Len(reqs) + 1
      /\ pc' = "log" => Len(reqs') = Len(reqs)
  BY <1>0 DEF Redirects, Pages
<1>3. \A j \in 1..Len(reqs) :
        reqs'[j].passed = reqs[j].passed /\ reqs'[j].hasCtx = reqs[j].hasCtx
  BY <1>0 DEF Redirects, Pages, Carries, SameFlow
<1>4. pc' = "fixups" => /\ reqs'[Len(reqs')].passed = 0 /\ ~reqs'[Len(reqs')].hasCtx
                        /\ wire' = wire
  BY <1>0 DEF Redirects, Pages
<1>5. Inspected' <=> Inspected
  <2>1. ASSUME NEW j \in 1..Len(reqs'), reqs'[j].hasCtx
        PROVE  j \in 1..Len(reqs) /\ reqs[j].hasCtx
    BY <1>0, <1>2, <1>3, <1>4, <2>1
  <2>2. ASSUME NEW j \in 1..Len(reqs)
        PROVE  j \in 1..Len(reqs')
    BY <1>0, <1>2
  <2>3. QED
    BY <1>3, <2>1, <2>2 DEF Inspected
<1>6. /\ Page(i) \in Seq(Buckets) /\ i \in Nat /\ i # 0
  <2>1. i \in 1..MaxReqs
    BY Sizes, BoundsAssumption
  <2>2. QED
    BY <1>0, <2>1, BoundsAssumption DEF Page, Buckets
<1>7. pc' = "log" =>
        /\ conn.aborted => wire' = wire
        /\ ~conn.aborted =>
             /\ wire'.hdr = i
             /\ wire'.body = IF client.header_only THEN <<>> ELSE Page(i)
  BY <1>6, SentBlank DEF Redirects, Pages
<1>8. Denied \/ ~Denied' \/ hist.denied = 0
  BY <1>1 DEF DropInv
<1>9. WireInv'
  <2>1. Run(<<>>, wire'.hdr, 0)
    BY RunEmpty
  <2>2. CASE pc' = "fixups" \/ conn.aborted
    <3>1. wire' = wire
      BY <1>2, <1>4, <1>7, <2>2
    <3>2. QED
      BY <1>0, <1>2, <2>1, <3>1 DEF WireInv, Blank, HookPCs
  <2>3. CASE pc' = "log" /\ ~conn.aborted
    BY <1>0, <1>2, <1>6, <1>7, <2>1, <2>3 DEF WireInv, HookPCs
  <2>4. QED
    BY <1>2, <2>2, <2>3
<1>10. DropInv'
  <2>1. /\ Denied' <=> hist'.denied # 0
        /\ hist'.denied <= Len(reqs') /\ (pc' = "fixups" => hist'.denied < Len(reqs'))
    BY <1>0, <1>1, <1>2 DEF DropInv
  <2>2. conn.aborted => wire' = wire /\ Denied'
    BY <1>1, <1>2, <1>4, <1>7 DEF DropInv
  <2>3. wire'.body = <<>> \/ wire'.body = Page(wire'.hdr)
    BY <1>2, <1>4, <1>7 DEF Blank
  <2>4. QED
    BY <1>1, <1>2, <1>5, <2>1, <2>2, <2>3 DEF DropInv, Blank
<1>11. PhaseInv'
  BY <1>2 DEF PhasesKept, PhaseInv, HookPCs, FilterPCs
<1>12. RouteInv'
  <2>1. ctx'.phase3_done => Denied'
    BY <1>1 DEF RouteInv
  <2>2. ~ctx'.phase3_done => hist'.route = "none"
    BY <1>1 DEF PhasesKept, RouteInv
  <2>3. QED
    BY <1>2, <2>1, <2>2 DEF RouteInv, Denied
<1>13. FlowInv'
  <2>1. \A j \in 1..(Len(reqs') - 1) : reqs'[j].passed = 0 \/ j = hist'.denied
    <3>1. ASSUME NEW j \in 1..(Len(reqs) - 1)
          PROVE  reqs'[j].passed = 0 \/ j = hist'.denied
      BY <1>0, <1>1, <1>3, <1>8 DEF FlowInv
    <3>2. reqs'[Len(reqs)].passed = 0 \/ Len(reqs) = hist'.denied
      BY <1>0, <1>3
    <3>3. QED
      BY <1>0, <1>2, <3>1, <3>2
  <2>2. pc' = "fixups" => req'.passed = 0
    BY <1>4 DEF req, cur
  <2>3. QED
    BY <1>2, <2>1, <2>2 DEF FlowInv, HookPCs, FilterPCs
<1>14. SeenInv'
  <2>1. hist'.route = "held" => Denied'
    BY <1>1 DEF RouteInv, SeenInv, PhasesKept
  <2>2. Denied' => engine'.headersOf <= hist'.denied
    BY <1>1 DEF SeenInv
  <2>3. engine'.headersOf <= Len(reqs')
    <3>1. engine'.headersOf <= Len(reqs) /\ engine'.headersOf \in Nat
      BY <1>0, <1>1, TypeOKPartsPrime, BoundsAssumption, ZenonT(40), SMTT(40) DEF SeenInv, Engines
    <3>2. QED
      BY <1>0, <1>2, <3>1
  <2>4. QED
    BY <1>2, <2>1, <2>2, <2>3 DEF SeenInv, Denied
<1>15. EndInv'
  <2>1. pc' = "log" => wire'.hdr # 0 \/ conn'.aborted
    BY <1>6, <1>7
  <2>2. ~Denied' => ~conn.aborted
    BY <1>1 DEF DropInv
  <2>3. ~Denied' /\ wire'.hdr # 0 => reqs'[wire'.hdr].passed = 0
    <3> SUFFICES ASSUME ~Denied', wire'.hdr # 0 PROVE reqs'[wire'.hdr].passed = 0
      OBVIOUS
    <3>1. wire'.hdr = i
      BY <1>2, <1>4, <1>7, <2>2 DEF Blank
    <3>2. reqs[i].passed = 0
      BY <1>0, <1>1 DEF FlowInv, DropInv
    <3>3. QED
      BY <1>3, <3>1, <3>2
  <2>4. QED
    BY <1>2, <1>4, <1>6, <1>7, <2>1, <2>2, <2>3 DEF EndInv, Blank, Denied
<1>16. QED
  BY <1>9, <1>10, <1>11, <1>12, <1>13, <1>14, <1>15 DEF ResponseInv

(* A response is abandoned without a page: the connection is dropped, or   *)
(* the response was not held back.                                         *)
LEMMA DropKeeps ==
    ASSUME TypeOK, TypeOK', ResponseInv, SameFlow(reqs'), wire' = wire, client' = client,
           hist'.route = hist.route, ~Denied, Denied', hist'.denied = Len(reqs),
           ~ctx'.headers_delayed, ctx'.pending = <<>>, PhasesKept,
           engine'.headersOf <= Len(reqs),
           pc' \in {"log", "filter_error"},
           ctx'.drop_connection => Inspected',
           \/ /\ conn'.aborted /\ conn'.keepalive = "close" /\ ctx'.drop_connection
              /\ Blank \/ hist.route = "nodelay"
           \/ /\ conn' = conn /\ ctx'.drop_connection = ctx.drop_connection
              /\ hist.route = "nodelay" /\ pc' = "filter_error"
    PROVE  ResponseInv'
<1>0. /\ Len(reqs) \in Nat /\ Len(reqs) >= 1 /\ Len(reqs') = Len(reqs)
  BY Sizes DEF SameFlow
<1>1. /\ WireInv /\ DropInv /\ PhaseInv /\ RouteInv /\ FlowInv /\ SeenInv /\ EndInv
  BY DEF ResponseInv
<1>2. WireInv'
  BY <1>0, <1>1 DEF WireInv, Blank, HookPCs, Run
<1>3. DropInv'
  BY <1>0, <1>1 DEF DropInv, Blank
<1>4. PhaseInv'
  BY DEF PhasesKept, PhaseInv, HookPCs, FilterPCs
<1>5. RouteInv'
  <2>1. ~ctx'.phase3_done => hist'.route = "none"
    BY <1>1 DEF PhasesKept, RouteInv
  <2>2. QED
    BY <2>1 DEF RouteInv, Denied
<1>6. FlowInv'
  <2>1. \A j \in 1..(Len(reqs') - 1) : reqs'[j].passed = 0 \/ j = hist'.denied
    <3>1. hist.denied = 0
      BY <1>1 DEF DropInv
    <3>2. ASSUME NEW j \in 1..(Len(reqs) - 1)
          PROVE  reqs'[j].passed = 0
      BY <1>0, <1>1, <3>1 DEF FlowInv, SameFlow
    <3>3. QED
      BY <1>0, <3>2
  <2>2. /\ pc' \notin {"fixups"} \cup HookPCs /\ pc' \notin {"filter"} \cup FilterPCs
        /\ pc' \notin {"setup", "read", "finish", "handler", "filter", "phase4", "delay"}
    BY DEF HookPCs, FilterPCs
  <2>3. QED
    BY <2>1, <2>2 DEF FlowInv
<1>7. SeenInv'
  BY <1>0 DEF SeenInv, Denied
<1>8. EndInv'
  BY DEF EndInv, Denied
<1>9. QED
  BY <1>2, <1>3, <1>4, <1>5, <1>6, <1>7, <1>8 DEF ResponseInv

(* What the handler has passed is on the wire, all of it.                  *)
LEMMA PassedOn ==
    ASSUME TypeOK, TypeOK', ResponseInv,
           pc \in {"handler", "filter"} \cup FilterPCs, pc' \in {"log", "handler"},
           client' = client, conn' = conn,
           ctx'.drop_connection = ctx.drop_connection,
           Denied' <=> Denied, hist'.denied = hist.denied,
           Len(reqs') = Len(reqs),
           \A i \in 1..Len(reqs) : /\ reqs'[i].hasCtx = reqs[i].hasCtx
                                   /\ i # Len(reqs) => reqs'[i].passed = reqs[i].passed,
           pc' = "handler" => req'.passed > 0,
           conn.aborted => wire' = wire,
           ~conn.aborted => /\ wire'.hdr = Len(reqs) /\ Run(wire'.body, Len(reqs), 0)
                            /\ client.header_only => wire'.body = <<>>
                            /\ client.header_only \/ Len(wire'.body) = req'.passed,
           ~ctx'.headers_delayed, ctx'.pending = <<>>, PhasesKept,
           ctx'.phase3_done = ctx.phase3_done, engine'.ran[3] = engine.ran[3],
           engine'.headersOf = engine.headersOf,
           ~ctx.phase3_done \/ Denied => hist'.route = hist.route,
           pc' = "handler" /\ req'.outFilter =>
               /\ ctx.phase3_done /\ ~Denied /\ hist'.route = "nodelay"
               /\ engine'.ran[3] = 1 /\ engine'.ran[4] = 0,
           hist'.route = "held" /\ ~Denied =>
               pc' = "log" /\ engine'.ran[4] = 1 /\ AllSeen(wire.body)',
           ~Denied /\ req.hasCtx => engine.headersOf = Len(reqs)
    PROVE  ResponseInv'
<1>0. /\ Len(reqs) \in Nat /\ Len(reqs) >= 1 /\ req = reqs[Len(reqs)]
      /\ hist.denied \in Nat /\ engine.headersOf \in Nat
      /\ req' = reqs'[Len(reqs)]
  BY Sizes DEF req, cur
<1>1. /\ WireInv /\ DropInv /\ PhaseInv /\ RouteInv /\ FlowInv /\ SeenInv /\ EndInv
  BY DEF ResponseInv
<1>2. Inspected' <=> Inspected
  BY DEF Inspected
<1>3. conn.aborted => Blank /\ Denied
  BY <1>1 DEF DropInv, FilterPCs
<1>4. WireInv'
  <2>1. CASE conn.aborted
    BY <1>0, <1>1, <2>1 DEF WireInv, Blank, HookPCs, Run
  <2>2. CASE ~conn.aborted
    BY <1>0, <2>2 DEF WireInv, HookPCs
  <2>3. QED
    BY <2>1, <2>2
<1>5. DropInv'
  <2>1. Denied => hist.denied < Len(reqs)
    BY <1>1 DEF DropInv, FilterPCs
  <2>2. Denied /\ ~conn.aborted => wire'.hdr > hist'.denied
    BY <1>0, <2>1
  <2>3. conn.aborted => Blank'
    BY <1>3 DEF Blank
  <2>4. QED
    BY <1>0, <1>1, <1>2, <1>3, <2>1, <2>2, <2>3 DEF DropInv, Blank
<1>6. PhaseInv'
  BY DEF PhasesKept, PhaseInv, HookPCs, FilterPCs
<1>7. RouteInv'
  <2>1. ~ctx'.phase3_done => hist'.route = "none"
    BY <1>1 DEF RouteInv
  <2>2. ctx'.phase3_done /\ ~Denied' => engine'.headersOf = Len(reqs')
    BY <1>1 DEF RouteInv
  <2>3. QED
    BY <2>1, <2>2 DEF RouteInv, Watched
<1>8. FlowInv'
  <2>1. \A i \in 1..(Len(reqs') - 1) : reqs'[i].passed = 0 \/ i = hist'.denied
    BY <1>0, <1>1 DEF FlowInv
  <2>2. pc' = "handler" => Gone(req.passed)'
    BY <1>0, <1>3 DEF Gone, Blank
  <2>3. /\ pc' \notin {"fixups"} \cup HookPCs /\ pc' \notin {"filter"} \cup FilterPCs
        /\ pc' \notin {"setup", "read", "finish", "filter", "phase4", "delay"}
    BY DEF HookPCs, FilterPCs
  <2>4. pc' = "handler" => ~(req'.passed = 0)
    BY <1>0
  <2>5. QED
    BY <2>1, <2>2, <2>3, <2>4 DEF FlowInv
<1>9. SeenInv'
  BY <1>1 DEF SeenInv
<1>10. EndInv'
  <2>1. wire'.hdr # 0 \/ conn'.aborted
    BY <1>0
  <2>2. ~Denied' => ~conn.aborted
    BY <1>3
  <2>3. ~Denied' => wire'.hdr = Len(reqs) /\ reqs'[wire'.hdr] = req' /\ wire'.hdr # 0
    BY <1>0, <2>2
  <2>4. ~Denied' /\ req'.hasCtx => engine'.headersOf = wire'.hdr
    BY <1>0, <2>3
  <2>5. QED
    BY <2>1, <2>2, <2>3, <2>4 DEF EndInv
<1>11. QED
  BY <1>4, <1>5, <1>6, <1>7, <1>8, <1>9, <1>10 DEF ResponseInv

(* The fixups hook goes on: nothing has been passed yet.                   *)
LEMMA HookKeeps ==
    ASSUME TypeOK, TypeOK', ResponseInv,
           pc \in {"fixups"} \cup HookPCs, pc' \in HookPCs \cup {"handler"},
           client' = client, conn' = conn, wire' = wire, hist' = hist,
           ctx'.drop_connection = ctx.drop_connection,
           Denied' <=> Denied, pc \in HookPCs \/ pc' \in HookPCs => ~Denied,
           ctx'.headers_delayed = ctx.headers_delayed, ctx'.pending = ctx.pending,
           ctx'.phase3_done = ctx.phase3_done, engine'.headersOf = engine.headersOf,
           Len(reqs') = Len(reqs),
           \A i \in 1..Len(reqs) : reqs'[i].passed = reqs[i].passed,
           Inspected => Inspected',
           pc' \in {"setup", "read", "finish"} => req'.outFilter,
           pc' = "handler" => (req'.hasCtx => req'.outFilter),
           PhaseInv'
    PROVE  ResponseInv'
<1>0. /\ Len(reqs) \in Nat /\ Len(reqs) >= 1 /\ req = reqs[Len(reqs)]
      /\ req' = reqs'[Len(reqs)]
  BY Sizes DEF req, cur
<1>1. /\ WireInv /\ DropInv /\ PhaseInv /\ RouteInv /\ FlowInv /\ SeenInv /\ EndInv
  BY DEF ResponseInv
<1>2. Blank /\ Blank' /\ req'.passed = 0
  BY <1>0, <1>1 DEF WireInv, FlowInv, Blank
<1>3. WireInv'
  BY <1>1, <1>2 DEF WireInv, Blank, HookPCs, Run
<1>4. DropInv'
  BY <1>1, <1>2 DEF DropInv, HookPCs
<1>5. (ctx'.phase3_done => Denied') /\ ~ctx'.headers_delayed
  BY <1>1 DEF RouteInv, HookPCs, FilterPCs
<1>6. RouteInv'
  BY <1>1, <1>5 DEF RouteInv, HookPCs
<1>7. FlowInv'
  <2>1. Gone(req.passed)'
    BY <1>2, <1>5 DEF Gone
  <2>2. \A i \in 1..(Len(reqs') - 1) : reqs'[i].passed = 0 \/ i = hist'.denied
    BY <1>0, <1>1 DEF FlowInv
  <2>3. /\ pc' \notin {"filter"} \cup FilterPCs /\ pc' \notin {"filter", "phase4", "delay"}
        /\ pc' # "filter" /\ pc' # "delay"
    BY DEF HookPCs, FilterPCs
  <2>4. ~(req'.passed > 0)
    BY <1>2
  <2>5. QED
    BY <1>2, <1>5, <2>1, <2>2, <2>3, <2>4 DEF FlowInv
<1>8. SeenInv'
  BY <1>1, <1>5 DEF SeenInv, HookPCs, RouteInv
<1>9. EndInv'
  BY <1>2 DEF EndInv, Blank, HookPCs
<1>10. QED
  BY <1>3, <1>4, <1>6, <1>7, <1>8, <1>9 DEF ResponseInv

---------------------------------------------------------------------------
(* Evaluating a phase counts it, and changes nothing else the client could *)
(* notice.                                                                 *)
LEMMA RanFields ==
    ASSUME NEW e \in Engines, NEW p \in 1..4
    PROVE  LET f == Ran(e, p) IN
           /\ f \in Engines /\ f.seen = e.seen /\ f.headersOf = e.headersOf
           /\ f.ran[p] = e.ran[p] + 1
           /\ \A q \in 1..4 : q # p => f.ran[q] = e.ran[q]
<1> DEFINE ran == [e.ran EXCEPT ![p] = @ + 1]
<1>1. Ran(e, p) \in Engines
  BY RanType
<1>2. e.ran \in [1..4 -> Nat]
  BY DEF Engines
<1>3. ran[p] = e.ran[p] + 1 /\ \A q \in 1..4 : q # p => ran[q] = e.ran[q]
  BY <1>2
<1>4. Ran(e, p) = [e EXCEPT !.ran = ran]
  BY DEF Ran, Engines
<1> HIDE DEF ran
<1>5. Ran(e, p).seen = e.seen /\ Ran(e, p).headersOf = e.headersOf /\ Ran(e, p).ran = ran
  BY <1>4 DEF Engines
<1>6. QED
  BY <1>1, <1>3, <1>5

(* So does recording an intervention.                                      *)
LEMMA InterventionFields ==
    ASSUME NEW e \in Engines, NEW iv \in Interventions, NEW early
    PROVE  LET f == EngineAfterIntervention(e, iv, early) IN
           f.seen = e.seen /\ f.headersOf = e.headersOf /\ f.ran = e.ran
<1> DEFINE u == [e EXCEPT !.status = EnforcedStatus(iv), !.enforced = @ + 1]
<1>1. /\ u.seen = e.seen /\ u.headersOf = e.headersOf /\ u.ran = e.ran
      /\ DOMAIN u = DOMAIN e
  BY DEF Engines
<1>2. u \in Engines
  <2>1. EnforcedStatus(iv) \in Nat /\ e.enforced + 1 \in Nat
    BY EnforcedStatusType DEF Engines
  <2>2. QED
    BY <2>1 DEF Engines
<1> HIDE DEF u
<1>3. LET f == coraza_process_logging(u) IN
      f.seen = u.seen /\ f.headersOf = u.headersOf /\ f.ran = u.ran
  BY <1>2 DEF coraza_process_logging, Engines
<1>4. EngineAfterIntervention(e, iv, early) \in {u, coraza_process_logging(u)}
  BY DEF EngineAfterIntervention, u
<1>5. QED
  BY <1>1, <1>3, <1>4

LEMMA ContextFields ==
    ASSUME NEW c \in Contexts, NEW iv, NEW early \in BOOLEAN
    PROVE  LET d == CtxAfterIntervention(c, iv, early) IN
           /\ d \in Contexts
           /\ d.intervention_triggered
           /\ d.drop_connection = (c.drop_connection \/ IsDrop(iv))
           /\ d.headers_delayed = c.headers_delayed /\ d.pending = c.pending
           /\ d.phase3_done = c.phase3_done
<1> DEFINE drop == c.drop_connection \/ IsDrop(iv)
           log  == c.logged \/ early
<1>1. CtxAfterIntervention(c, iv, early) \in Contexts
  BY CtxAfterInterventionType
<1>2. CtxAfterIntervention(c, iv, early)
        = [c EXCEPT !.drop_connection = drop, !.logged = log,
                    !.intervention_triggered = TRUE]
  BY DEF CtxAfterIntervention, Contexts
<1> HIDE DEF drop, log
<1>3. LET d == CtxAfterIntervention(c, iv, early) IN
      /\ d.intervention_triggered = TRUE
      /\ d.drop_connection = drop
      /\ d.headers_delayed = c.headers_delayed /\ d.pending = c.pending
      /\ d.phase3_done = c.phase3_done
  BY <1>2 DEF Contexts
<1>4. QED
  BY <1>1, <1>3 DEF drop

(* What httpd does with an error status, and coraza_die.                   *)
LEMMA ReturnStatusOutcome ==
    ASSUME TypeOK, NEW type \in Nat, ReturnStatus(type)
    PROVE  /\ SameFlow(reqs)
           /\ \E i \in 1..Len(reqs) : Redirects(reqs, type) \/ Pages(reqs, i, type)
<1> DEFINE rec == IF cur = 1 THEN HTTP_OK ELSE req.status
           i == IF rec = HTTP_OK THEN Len(reqs) ELSE reqs[Len(reqs)].first
<1>1. ap_die(type, rec, reqs) /\ ChainOK(reqs)
  BY TypeOKParts DEF ReturnStatus
<1> HIDE DEF rec
<1>2. Redirects(reqs, type) \/ Pages(reqs, i, type)
  BY <1>1, DieOutcome
<1>3. i \in 1..Len(reqs)
  <2>1. /\ Len(reqs) \in 1..Len(reqs) /\ reqs[Len(reqs)] \in Requests
        /\ reqs[Len(reqs)].first <= Len(reqs)
    BY <1>1, BoundsAssumption DEF ChainOK
  <2>2. reqs[Len(reqs)].first \in 1..Len(reqs)
    BY <2>1, Sizes, BoundsAssumption DEF Requests
  <2>3. QED
    BY <2>1, <2>2
<1> HIDE DEF i
<1>4. QED
  BY <1>1, <1>2, <1>3 DEF SameFlow

LEMMA CorazaDieOutcome ==
    ASSUME TypeOK, NEW status \in Nat, coraza_die(status)
    PROVE  \E rs : \E i \in 1..Len(reqs) :
             SameFlow(rs) /\ (Redirects(rs, status) \/ Pages(rs, i, status))
<1> DEFINE f == [req EXCEPT !.outFilter = FALSE, !.status = HTTP_OK]
           rs == ThisRequest(f)
<1>1. /\ f \in Requests /\ f.first = req.first /\ f.hasCtx = req.hasCtx
      /\ f.passed = req.passed
  BY Sizes, OkIsNat DEF Requests
<1>2. ap_die(status, HTTP_OK, rs)
  BY DEF coraza_die
<1> HIDE DEF f
<1>3. /\ ChainOK(rs) /\ Len(rs) = Len(reqs) /\ rs[Len(reqs)] = f
      /\ \A i \in 1..Len(reqs) : i # Len(reqs) => rs[i] = reqs[i]
  BY <1>1, TypeOKParts, ThisRequestType
<1>4. SameFlow(rs)
  BY <1>1, <1>3, Sizes DEF SameFlow
<1> HIDE DEF rs
<1>5. Redirects(rs, status) \/ Pages(rs, Len(reqs), status)
  BY <1>2, <1>3, DieOutcome
<1>6. Len(reqs) \in 1..Len(reqs)
  BY Sizes
<1>7. QED
  BY <1>4, <1>5, <1>6

(* A request_rec that has passed nothing makes way for another or for a    *)
(* page.                                                                   *)
LEMMA AbandonedKeeps ==
    ASSUME TypeOK, TypeOK', ResponseInv, Blank, ~ctx.headers_delayed,
           NEW status, NEW i \in 1..Len(reqs),
           Redirects(reqs, status) \/ Pages(reqs, i, status),
           UNCHANGED <<client, ctx, conn, engine, hist>>,
           \/ Denied /\ hist.denied = Len(reqs)
           \/ req.passed = 0 /\ (ctx.phase3_done => Denied)
    PROVE  ResponseInv'
<1>1. Redirects(reqs, status) \/ Pages(reqs, i, status)
  OBVIOUS
<1>2. SameFlow(reqs)
  BY TypeOKParts DEF SameFlow
<1>3. SeenInv /\ RouteInv /\ PhaseInv
  BY DEF ResponseInv
<1>4. PhasesKept
  <2>1. Inspected' <=> Inspected
    <3>1. /\ Len(reqs) \in Nat /\ Len(reqs') >= Len(reqs) /\ Len(reqs') \in Nat
          /\ \A j \in 1..Len(reqs) : reqs'[j].hasCtx = reqs[j].hasCtx
          /\ \A j \in 1..Len(reqs') : j \notin 1..Len(reqs) => ~reqs'[j].hasCtx
      BY <1>1, Sizes, ZenonT(40), SMTT(40) DEF Redirects, Pages, Carries
    <3>2. \A j \in 1..Len(reqs) : j \in 1..Len(reqs')
      BY <3>1
    <3>3. QED
      BY <3>1, <3>2 DEF Inspected
  <2>2. QED
    BY <1>3, <2>1 DEF PhasesKept, PhaseInv, PhasesOnceInOrder
<1>5. /\ ctx'.pending = <<>> /\ (Denied' <=> Denied)
      /\ Denied /\ hist.denied = Len(reqs) => engine.headersOf <= Len(reqs)
  BY <1>3 DEF RouteInv, SeenInv, Denied
<1>6. QED
  BY <1>1, <1>2, <1>4, <1>5, DieKeeps

(* An error that is no denial, before anything has been passed.            *)
LEMMA ErrorKeeps ==
    ASSUME TypeOK, TypeOK', ResponseInv, Blank, ~ctx.headers_delayed,
           NEW status \in Nat, ReturnStatus(status),
           UNCHANGED <<client, ctx, conn, engine, hist>>,
           \/ Denied /\ hist.denied = Len(reqs)
           \/ req.passed = 0 /\ (ctx.phase3_done => Denied)
    PROVE  ResponseInv'
  BY ReturnStatusOutcome, AbandonedKeeps

(* Dying keeps the contexts of the chain.                                  *)
LEMMA OutcomeInspected ==
    ASSUME TypeOK, NEW rs, SameFlow(rs), NEW i, NEW status,
           Redirects(rs, status) \/ Pages(rs, i, status)
    PROVE  Inspected' <=> Inspected
<1>1. /\ Len(reqs) \in Nat /\ Len(reqs') >= Len(reqs) /\ Len(reqs') \in Nat
      /\ \A j \in 1..Len(reqs) : reqs'[j].hasCtx = reqs[j].hasCtx
      /\ \A j \in 1..Len(reqs') : j \notin 1..Len(reqs) => ~reqs'[j].hasCtx
  BY Sizes DEF Redirects, Pages, Carries, SameFlow
<1>2. \A j \in 1..Len(reqs) : j \in 1..Len(reqs')
  BY <1>1
<1>3. QED
  BY <1>1, <1>2 DEF Inspected

(* A denial by the hook: the engine e has evaluated at most phases 1 and 2. *)
LEMMA HookDenies ==
    ASSUME TypeOK, TypeOK', IInv, ResponseInv, pc \in HookPCs,
           NEW c \in Contexts, NEW e \in Engines,
           \/ FailClosed /\ engine' = engine
           \/ Intervenes(c, e),
           c.drop_connection = ctx.drop_connection,
           c.headers_delayed = ctx.headers_delayed, c.pending = ctx.pending,
           c.phase3_done = ctx.phase3_done, e.headersOf = engine.headersOf,
           e.ran[1] <= 1, e.ran[2] <= e.ran[1], e.ran[3] = 0, e.ran[4] = 0
    PROVE  ResponseInv'
<1>0. /\ Len(reqs) \in Nat /\ Len(reqs) >= 1 /\ req = reqs[Len(reqs)] /\ cur = Len(reqs)
      /\ hist.denied \in Nat /\ engine.headersOf \in Nat /\ req \in Requests
      /\ ctx \in Contexts /\ hist \in Histories /\ ChainOK(reqs)
      /\ engine \in Engines
  BY Sizes, TypeOKParts
<1>1. /\ WireInv /\ DropInv /\ PhaseInv /\ RouteInv /\ FlowInv /\ SeenInv /\ EndInv
  BY DEF ResponseInv
<1>2. /\ Blank /\ ~Denied /\ ~ctx.phase3_done /\ ~ctx.headers_delayed /\ ctx.pending = <<>>
      /\ ~conn.aborted /\ ~ctx.drop_connection /\ Inspected /\ hist.denied = 0
      /\ hist.route = "none"
  <2>1. req.hasCtx /\ ~Denied
    BY DEF IInv, ChainInv, DenyInv, Denied
  <2>2. Inspected
    BY <1>0, <2>1 DEF Inspected
  <2>3. QED
    BY <1>0, <1>1, <2>1, <2>2 DEF WireInv, DropInv, PhaseInv, RouteInv
<1>3. hist'.denied = Len(reqs) /\ hist'.route = hist.route /\ client' = client
  BY <1>0 DEF FailClosed, Intervenes, coraza_enforce_intervention, Histories
<1>4. /\ engine'.headersOf <= Len(reqs)
      /\ engine'.ran[1] <= 1 /\ engine'.ran[2] <= engine'.ran[1]
      /\ engine'.ran[3] = 0 /\ engine'.ran[4] = 0
      /\ engine'.ran \in [1..4 -> Nat]
  <2>1. engine.headersOf <= Len(reqs)
    BY <1>1 DEF SeenInv
  <2>2. CASE engine' = engine
    BY <1>0, <1>1, <1>2, <2>1, <2>2 DEF PhaseInv, PhasesOnceInOrder, Engines
  <2>3. CASE Intervenes(c, e)
    <3>1. PICK iv \in Interventions : engine' = EngineAfterIntervention(e, iv, TRUE)
      BY <2>3 DEF Intervenes, coraza_enforce_intervention
    <3>a. engine'.headersOf = e.headersOf /\ engine'.ran = e.ran
      BY <3>1, InterventionFields
    <3>2. e.ran \in [1..4 -> Nat]
      BY DEF Engines
    <3>3. QED
      BY <2>1, <3>a, <3>2
  <2>4. QED
    BY <2>2, <2>3
<1>5. ~ctx'.phase3_done /\ Denied' /\ ~ctx'.headers_delayed /\ ctx'.pending = <<>>
  <2>1. CASE FailClosed
    BY <1>0, <1>2, <2>1 DEF FailClosed, Contexts, Denied
  <2>2. CASE Intervenes(c, e)
    <3>1. PICK iv \in Interventions : ctx' = CtxAfterIntervention(c, iv, TRUE)
      BY <2>2 DEF Intervenes, coraza_enforce_intervention
    <3>2. QED
      BY <1>2, <3>1, ContextFields DEF Denied
  <2>3. QED
    BY <2>1, <2>2
<1>6. Inspected' => PhasesKept
  BY <1>2, <1>4, <1>5 DEF PhasesKept, PhasesOnceInOrder
<1>7. ASSUME NEW status \in Nat, ReturnStatus(status), conn' = conn,
             ctx'.drop_connection = ctx.drop_connection
      PROVE  ResponseInv'
  <2>1. PICK i \in 1..Len(reqs) : Redirects(reqs, status) \/ Pages(reqs, i, status)
    BY <1>7, ReturnStatusOutcome
  <2>2. SameFlow(reqs)
    BY <1>7, ReturnStatusOutcome
  <2>3. Inspected'
    BY <1>2, <2>1, <2>2, OutcomeInspected
  <2>4. QED
    BY <1>2, <1>3, <1>4, <1>5, <1>6, <1>7, <2>1, <2>2, <2>3, DieKeeps
<1>8. CASE FailClosed
  <2>1. ctx'.drop_connection = ctx.drop_connection
    BY <1>0, <1>8 DEF FailClosed, Contexts
  <2>2. QED
    BY <1>7, <1>8, <2>1 DEF FailClosed, HTTP_INTERNAL_SERVER_ERROR
<1>9. CASE Intervenes(c, e)
  <2>1. PICK iv \in Interventions : coraza_enforce_intervention(iv, c, e)
    BY <1>9 DEF Intervenes
  <2>2. ctx'.drop_connection = (ctx.drop_connection \/ IsDrop(iv))
    BY <2>1, ContextFields DEF coraza_enforce_intervention
  <2>3. CASE IsDrop(iv)
    <3> DEFINE f == [req EXCEPT !.status = HTTP_FORBIDDEN]
    <3>1. /\ f \in Requests /\ f.first = req.first /\ f.hasCtx = req.hasCtx
          /\ f.passed = req.passed
      BY <1>0 DEF Requests, HTTP_FORBIDDEN
    <3>2. /\ reqs' = ThisRequest(f) /\ pc' = "log" /\ wire' = wire
          /\ conn' = [keepalive |-> "close", aborted |-> TRUE]
      BY <2>1, <2>3 DEF coraza_enforce_intervention, coraza_drop_connection
    <3> HIDE DEF f
    <3>3. SameFlow(reqs')
      BY <1>0, <3>1, <3>2, ThisRequestType DEF SameFlow
    <3>4. Inspected'
      BY <1>2, <3>3 DEF SameFlow, Inspected
    <3>5. conn'.aborted /\ conn'.keepalive = "close" /\ ctx'.drop_connection
      BY <2>2, <2>3, <3>2
    <3>6. QED
      BY <1>2, <1>3, <1>4, <1>5, <1>6, <3>2, <3>3, <3>4, <3>5, DropKeeps
  <2>4. CASE ~IsDrop(iv)
    <3>1. EnforcedStatus(iv) \in Nat
      BY EnforcedStatusType
    <3>2. ctx'.drop_connection = ctx.drop_connection
      BY <2>2, <2>4, <1>0 DEF Contexts
    <3>3. QED
      BY <1>7, <2>1, <2>4, <3>1, <3>2 DEF coraza_enforce_intervention
  <2>5. QED
    BY <2>3, <2>4
<1>10. QED
  BY <1>8, <1>9

---------------------------------------------------------------------------
(* The fixups hook.                                                        *)
LEMMA FixupsResponse ==
    ASSUME TypeOK, IInv, ResponseInv, Fixups
    PROVE  ResponseInv'
<1>0. TypeOK'
  BY FixupsType
<1>a. /\ Len(reqs) \in Nat /\ Len(reqs) >= 1 /\ req = reqs[Len(reqs)] /\ cur = Len(reqs)
      /\ req \in Requests /\ ctx \in Contexts /\ engine \in Engines /\ ChainOK(reqs)
      /\ body \in Bodies /\ engine.ran \in [1..4 -> Nat]
  BY Sizes, TypeOKParts DEF Engines
<1>b. /\ WireInv /\ DropInv /\ PhaseInv /\ RouteInv /\ FlowInv /\ SeenInv /\ EndInv
  BY DEF ResponseInv
<1>c. pc \in {"fixups"} \cup HookPCs =>
        /\ Blank /\ req.passed = 0 /\ ~ctx.headers_delayed /\ (ctx.phase3_done => Denied)
  BY <1>b DEF WireInv, FlowInv, RouteInv, HookPCs, FilterPCs
<1>d. pc \in HookPCs => ~Denied /\ req.hasCtx /\ Inspected /\ ~ctx.phase3_done
                        /\ engine.ran[2] = 0 /\ engine.ran[3] = 0 /\ engine.ran[4] = 0
  <2>1. pc \in HookPCs => ~Denied /\ req.hasCtx
    BY DEF IInv, ChainInv, DenyInv, Denied
  <2>2. QED
    BY <1>a, <1>b, <2>1 DEF Inspected, PhaseInv
<1>e. ASSUME NEW status \in Nat, ReturnStatus(status), pc \in {"fixups"} \cup HookPCs,
             UNCHANGED <<client, ctx, conn, engine, hist>>
      PROVE  ResponseInv'
  BY <1>0, <1>c, <1>e, ErrorKeeps
<1>f. ASSUME NEW f \in Requests, f.first = req.first, f.passed = req.passed,
             req.hasCtx => f.hasCtx, reqs' = ThisRequest(f)
      PROVE  /\ Len(reqs') = Len(reqs) /\ req' = f
             /\ \A i \in 1..Len(reqs) : reqs'[i].passed = reqs[i].passed
             /\ Inspected => Inspected'
             /\ f.hasCtx => Inspected'
             /\ f.hasCtx = req.hasCtx => (Inspected' <=> Inspected)
  <2>1. /\ Len(reqs') = Len(reqs) /\ reqs'[Len(reqs)] = f
        /\ \A i \in 1..Len(reqs) : i # Len(reqs) => reqs'[i] = reqs[i]
    BY <1>a, <1>f, ThisRequestType
  <2>2. Len(reqs) \in 1..Len(reqs)
    BY <1>a
  <2>3. QED
    BY <1>a, <1>f, <2>1, <2>2 DEF Inspected, req, cur
<1>g. ASSUME reqs' = reqs
      PROVE  /\ Len(reqs') = Len(reqs) /\ req' = req
             /\ \A i \in 1..Len(reqs) : reqs'[i].passed = reqs[i].passed
             /\ Inspected' <=> Inspected
  BY <1>g DEF Inspected, req, cur
<1>h. /\ engine.ran[1] <= 1 /\ engine.ran[2] <= engine.ran[1]
  BY <1>b DEF PhaseInv, PhasesOnceInOrder
<1>i. ASSUME pc \in HookPCs, (FailClosed /\ engine' = engine) \/ Intervenes(ctx, engine)
      PROVE  ResponseInv'
  BY <1>0, <1>a, <1>d, <1>h, <1>i, HookDenies
<1>1. CASE Declined
  <2>1. /\ pc = "fixups" /\ pc' = "handler" /\ ~req.enable
        /\ UNCHANGED <<client, ctx, conn, wire, hist, reqs, engine>>
    BY <1>1 DEF Declined, Proceed
  <2>2. ~req'.hasCtx /\ req' = req
    BY <2>1 DEF IInv, ChainInv, req, cur
  <2>3. PhaseInv'
    BY <1>b, <1>g, <2>1 DEF PhaseInv, PhasesOnceInOrder, HookPCs, FilterPCs
  <2>4. QED
    BY <1>0, <1>g, <2>1, <2>2, <2>3, HookKeeps DEF HookPCs, Denied
<1>2. CASE ReuseTransaction
  <2> DEFINE f == [req EXCEPT !.hasCtx = TRUE, !.outFilter = TRUE]
  <2>1. /\ f \in Requests /\ f.first = req.first /\ f.passed = req.passed
        /\ f.hasCtx /\ f.outFilter
    BY <1>a DEF Requests
  <2>2. /\ pc = "fixups" /\ pc' = "handler" /\ reqs' = ThisRequest(f)
        /\ UNCHANGED <<client, ctx, conn, wire, hist, engine>>
    BY <1>2 DEF ReuseTransaction, Proceed
  <2> HIDE DEF f
  <2>3. /\ Len(reqs') = Len(reqs) /\ req' = f
        /\ \A i \in 1..Len(reqs) : reqs'[i].passed = reqs[i].passed
        /\ Inspected'
    BY <1>f, <2>1, <2>2
  <2>4. PhaseInv'
    BY <1>b, <2>2, <2>3 DEF PhaseInv, PhasesOnceInOrder, HookPCs, FilterPCs
  <2>5. QED
    BY <1>0, <2>1, <2>2, <2>3, <2>4, HookKeeps DEF HookPCs, Denied
<1>3. CASE CreateCtx
  <2>1. CASE coraza_create_ctx /\ pc' = "connection" /\ wire' = wire
    <3> DEFINE f == [req EXCEPT !.hasCtx = TRUE]
    <3>1. /\ f \in Requests /\ f.first = req.first /\ f.passed = req.passed /\ f.hasCtx
      BY <1>a DEF Requests
    <3>2. /\ pc = "fixups" /\ reqs' = ThisRequest(f) /\ ~coraza_ctx_from_prev
          /\ UNCHANGED <<client, conn, hist>>
      BY <1>3, <2>1 DEF CreateCtx, coraza_create_ctx
    <3> HIDE DEF f
    <3>3. /\ Len(reqs') = Len(reqs) /\ req' = f
          /\ \A i \in 1..Len(reqs) : reqs'[i].passed = reqs[i].passed
          /\ Inspected'
      BY <1>f, <3>1, <3>2
    <3>4. ~Inspected
      <4>1. ~req.hasCtx
        BY <3>2 DEF IInv, ChainInv
      <4>2. ASSUME NEW i \in 1..Len(reqs), reqs[i].hasCtx
            PROVE  FALSE
        BY <1>a, <3>2, <4>1, <4>2 DEF coraza_ctx_from_prev
      <4>3. QED
        BY <4>2 DEF Inspected
    <3>5. /\ ~ctx'.intervention_triggered /\ ~ctx'.headers_delayed /\ ~ctx'.phase3_done
          /\ ~ctx'.drop_connection /\ ctx'.pending = <<>>
      BY <2>1 DEF coraza_create_ctx, FreshCtx
    <3>6. engine'.ran = engine.ran /\ engine'.headersOf = engine.headersOf
      BY <1>a, <2>1 DEF coraza_create_ctx, Engines
    <3>7. /\ ~ctx.phase3_done /\ ~ctx.headers_delayed /\ ctx.pending = <<>>
          /\ ~ctx.drop_connection /\ ~Denied /\ \A p \in 1..4 : engine.ran[p] = 0
      BY <1>b, <3>4 DEF PhaseInv, RouteInv, DropInv, IInv, TransactionInv, Denied
    <3>8. /\ ctx'.headers_delayed = ctx.headers_delayed /\ ctx'.phase3_done = ctx.phase3_done
          /\ ctx'.drop_connection = ctx.drop_connection /\ ctx'.pending = ctx.pending
          /\ ~Denied'
      <4>1. ctx' \in Contexts
        BY <1>0, TypeOKPartsPrime
      <4>2. QED
        BY <1>a, <3>5, <3>7, <4>1 DEF Contexts, Denied
    <3>9. PhaseInv'
      BY <2>1, <3>3, <3>5, <3>6, <3>7 DEF PhaseInv, PhasesOnceInOrder, HookPCs, FilterPCs
    <3>10. QED
      BY <1>0, <2>1, <3>2, <3>3, <3>6, <3>7, <3>8, <3>9, HookKeeps DEF HookPCs
  <2>2. CASE ReturnStatus(HTTP_INTERNAL_SERVER_ERROR) /\ UNCHANGED <<ctx, engine>>
    BY <1>3, <1>e, <2>2 DEF CreateCtx, HTTP_INTERNAL_SERVER_ERROR
  <2>3. QED
    BY <1>3, <2>1, <2>2 DEF CreateCtx
<1>4. ASSUME pc \in HookPCs, NEW next \in HookPCs, Proceed(next), engine' = engine,
             reqs' = reqs,
             next \in {"connection", "uri", "headers"}
               <=> pc \in {"connection", "uri", "headers"}
      PROVE  ResponseInv'
  <2>1. PhaseInv'
    <3>1. next \in {"setup", "read", "finish"} => pc \in {"setup", "read", "finish"}
      BY <1>4 DEF HookPCs
    <3>2. next \notin FilterPCs
      BY DEF HookPCs, FilterPCs
    <3>3. QED
      BY <1>b, <1>4, <1>g, <3>1, <3>2 DEF PhaseInv, PhasesOnceInOrder, Proceed
  <2>2. next \in {"setup", "read", "finish"} => req'.outFilter
    BY <1>b, <1>4, <1>g DEF HookPCs, FlowInv
  <2>3. next # "handler"
    BY DEF HookPCs
  <2>4. QED
    BY <1>0, <1>d, <1>4, <1>g, <2>1, <2>2, <2>3, HookKeeps DEF Proceed, Denied
<1>5. CASE ProcessConnection
  BY <1>4, <1>5, <1>i DEF ProcessConnection, HookPCs
<1>6. CASE ProcessUri
  BY <1>4, <1>6, <1>i DEF ProcessUri, HookPCs
<1>7. CASE ProcessHeaders
  <2> DEFINE f == [req EXCEPT !.outFilter = TRUE]
             e == Ran(engine, 1)
  <2>1. /\ f \in Requests /\ f.first = req.first /\ f.passed = req.passed
        /\ f.hasCtx = req.hasCtx /\ f.outFilter
    BY <1>a DEF Requests
  <2>2. /\ e \in Engines /\ e.headersOf = engine.headersOf /\ e.ran[1] = engine.ran[1] + 1
        /\ e.ran[2] = engine.ran[2] /\ e.ran[3] = engine.ran[3] /\ e.ran[4] = engine.ran[4]
    BY <1>a, RanFields
  <2>3. pc = "headers" /\ engine.ran[1] = 0 /\ pc \in HookPCs
    BY <1>7, <1>b DEF ProcessHeaders, PhaseInv, HookPCs
  <2> HIDE DEF f, e
  <2>4. CASE Intervenes(ctx, e)
    BY <1>0, <1>a, <1>d, <2>2, <2>3, <2>4, HookDenies
  <2>5. CASE Proceed("setup") /\ engine' = e /\ reqs' = ThisRequest(f)
    <3>1. /\ Len(reqs') = Len(reqs) /\ req' = f
          /\ \A i \in 1..Len(reqs) : reqs'[i].passed = reqs[i].passed
          /\ Inspected' <=> Inspected
      BY <1>f, <2>1, <2>5
    <3>2. PhaseInv'
      BY <1>b, <1>d, <2>2, <2>3, <2>5, <3>1
      DEF PhaseInv, PhasesOnceInOrder, Proceed, HookPCs, FilterPCs
    <3>3. QED
      BY <1>0, <1>d, <2>1, <2>2, <2>3, <2>5, <3>1, <3>2, HookKeeps
      DEF Proceed, HookPCs, Denied
  <2>6. QED
    BY <1>7, <1>i, <2>3, <2>4, <2>5 DEF ProcessHeaders, e, f
<1>8. CASE SetupClientBlock
  <2>1. CASE ReturnStatus(HTTP_BAD_REQUEST) /\ UNCHANGED <<client, ctx, conn, hist>>
    BY <1>8, <1>e, <2>1 DEF SetupClientBlock, HTTP_BAD_REQUEST, HookPCs
  <2>2. QED
    BY <1>8, <1>4, <2>1 DEF SetupClientBlock, HookPCs
<1>9. CASE ReadChunk
  BY <1>9, <1>4, <1>i DEF ReadChunk, HookPCs
<1>10. CASE ReadError
  BY <1>10, <1>e DEF ReadError, HTTP_BAD_REQUEST, HookPCs
<1>11. CASE EndOfBody
  <2> DEFINE f == [req EXCEPT !.inFilter = TRUE]
  <2>1. /\ f \in Requests /\ f.first = req.first /\ f.passed = req.passed
        /\ f.hasCtx = req.hasCtx /\ f.outFilter = req.outFilter
    BY <1>a DEF Requests
  <2>2. /\ pc = "read" /\ pc' = "finish" /\ reqs' = ThisRequest(f)
        /\ UNCHANGED <<client, ctx, conn, wire, hist, engine>>
    BY <1>11 DEF EndOfBody, Proceed
  <2> HIDE DEF f
  <2>3. /\ Len(reqs') = Len(reqs) /\ req' = f
        /\ \A i \in 1..Len(reqs) : reqs'[i].passed = reqs[i].passed
        /\ Inspected' <=> Inspected
    BY <1>f, <2>1, <2>2
  <2>4. PhaseInv'
    BY <1>b, <2>2, <2>3 DEF PhaseInv, PhasesOnceInOrder, HookPCs, FilterPCs
  <2>5. req'.outFilter
    BY <1>b, <2>1, <2>2, <2>3 DEF FlowInv
  <2>6. QED
    BY <1>0, <1>d, <2>2, <2>3, <2>4, <2>5, HookKeeps DEF HookPCs, Denied
<1>12. CASE ProcessRequestBody
  <2> DEFINE c == [ctx EXCEPT !.phase2_done = TRUE]
             e == Ran(engine, 2)
  <2>1. /\ c \in Contexts /\ c.drop_connection = ctx.drop_connection
        /\ c.headers_delayed = ctx.headers_delayed /\ c.pending = ctx.pending
        /\ c.phase3_done = ctx.phase3_done
        /\ c.intervention_triggered = ctx.intervention_triggered
    BY <1>a DEF Contexts
  <2>2. /\ e \in Engines /\ e.headersOf = engine.headersOf /\ e.ran[2] = engine.ran[2] + 1
        /\ e.ran[1] = engine.ran[1] /\ e.ran[3] = engine.ran[3] /\ e.ran[4] = engine.ran[4]
    BY <1>a, RanFields
  <2>3. pc = "finish" /\ engine.ran[1] = 1 /\ pc \in HookPCs /\ req.outFilter
    BY <1>12, <1>b DEF ProcessRequestBody, PhaseInv, FlowInv, HookPCs
  <2> HIDE DEF c, e
  <2>4. CASE Intervenes(c, e)
    BY <1>0, <1>a, <1>d, <2>1, <2>2, <2>3, <2>4, HookDenies
  <2>5. CASE /\ ctx' = c /\ engine' = e /\ pc' = "handler"
             /\ UNCHANGED <<client, reqs, conn, wire, hist>>
    <3>1. PhaseInv'
      BY <1>b, <1>d, <1>g, <2>1, <2>2, <2>3, <2>5
      DEF PhaseInv, PhasesOnceInOrder, HookPCs, FilterPCs
    <3>2. QED
      BY <1>0, <1>d, <1>g, <2>1, <2>2, <2>3, <2>5, <3>1, HookKeeps DEF HookPCs, Denied
  <2>6. QED
    BY <1>12, <1>i, <2>3, <2>4, <2>5 DEF ProcessRequestBody, c, e
<1>13. QED
  BY <1>1, <1>2, <1>3, <1>5, <1>6, <1>7, <1>8, <1>9, <1>10, <1>11, <1>12 DEF Fixups

---------------------------------------------------------------------------
(* A denial by the filter.                                                 *)
LEMMA FilterDeniesResponse ==
    ASSUME TypeOK, TypeOK', IInv, ResponseInv, ~Denied, pc \in {"filter"} \cup FilterPCs,
           NEW c \in Contexts, Deny(c), c.phase3_done,
           c.headers_delayed = ctx.headers_delayed, c.pending = ctx.pending,
           client' = client, engine'.headersOf <= Len(reqs), PhasesOnceInOrder',
           NEW status \in Nat,
           \/ /\ coraza_die(status) /\ Blank
              /\ conn' = conn /\ c.drop_connection = ctx.drop_connection
           \/ /\ ErrorToHandler(status)
              /\ \/ /\ coraza_drop_connection /\ c.drop_connection
                    /\ Blank \/ hist.route = "nodelay"
                 \/ /\ conn' = conn /\ c.drop_connection = ctx.drop_connection
                    /\ hist.route = "nodelay"
    PROVE  ResponseInv'
<1>0. /\ Len(reqs) \in Nat /\ Len(reqs) >= 1 /\ req = reqs[Len(reqs)] /\ cur = Len(reqs)
      /\ req \in Requests /\ hist \in Histories /\ ChainOK(reqs)
  BY Sizes, TypeOKParts
<1>1. DropInv /\ RouteInv
  BY DEF ResponseInv
<1>2. hist'.denied = Len(reqs) /\ hist'.route = hist.route
  BY <1>0 DEF Deny, Histories
<1>3. /\ Denied' /\ ~ctx'.headers_delayed /\ ctx'.pending = <<>> /\ ctx'.phase3_done
      /\ ctx'.drop_connection = c.drop_connection
  <2> DEFINE pend == IF c.headers_delayed THEN <<>> ELSE c.pending
  <2>1. ctx' = [c EXCEPT !.intervention_triggered = TRUE, !.headers_delayed = FALSE,
                         !.pending = pend]
    BY DEF Deny, Contexts
  <2>2. pend = <<>>
    BY <1>1 DEF RouteInv
  <2> HIDE DEF pend
  <2>3. QED
    BY <2>1, <2>2 DEF Contexts, Denied
<1>4. Inspected
  <2>1. req.hasCtx
    BY DEF IInv, ChainInv
  <2>2. QED
    BY <1>0, <2>1 DEF Inspected
<1>5. Inspected' => PhasesKept
  BY <1>3 DEF PhasesKept
<1>6. CASE coraza_die(status) /\ Blank /\ conn' = conn /\ c.drop_connection = ctx.drop_connection
  <2>1. PICK rs : \E i \in 1..Len(reqs) :
          SameFlow(rs) /\ (Redirects(rs, status) \/ Pages(rs, i, status))
    BY <1>6, CorazaDieOutcome
  <2>2. PICK i \in 1..Len(reqs) :
          SameFlow(rs) /\ (Redirects(rs, status) \/ Pages(rs, i, status))
    BY <2>1
  <2>3. Inspected'
    BY <1>4, <2>2, OutcomeInspected
  <2>4. QED
    BY <1>2, <1>3, <1>5, <1>6, <2>2, <2>3, DieKeeps
<1>7. CASE ErrorToHandler(status)
  <2> DEFINE f == [req EXCEPT !.outFilter = FALSE, !.status = status]
  <2>1. /\ f \in Requests /\ f.first = req.first /\ f.hasCtx = req.hasCtx
        /\ f.passed = req.passed
    BY <1>0 DEF Requests
  <2>2. reqs' = ThisRequest(f) /\ pc' = "filter_error" /\ wire' = wire
    BY <1>7 DEF ErrorToHandler
  <2> HIDE DEF f
  <2>3. SameFlow(reqs')
    BY <1>0, <2>1, <2>2, ThisRequestType DEF SameFlow
  <2>4. Inspected'
    BY <1>4, <2>3 DEF SameFlow, Inspected
  <2>5. CASE /\ coraza_drop_connection /\ c.drop_connection
             /\ Blank \/ hist.route = "nodelay"
    <3>1. conn'.aborted /\ conn'.keepalive = "close" /\ ctx'.drop_connection
      BY <1>3, <2>5 DEF coraza_drop_connection
    <3>2. QED
      BY <1>2, <1>3, <1>5, <2>2, <2>3, <2>4, <2>5, <3>1, DropKeeps
  <2>6. CASE /\ conn' = conn /\ c.drop_connection = ctx.drop_connection
             /\ hist.route = "nodelay"
    BY <1>2, <1>3, <1>5, <2>2, <2>3, <2>4, <2>6, DropKeeps
  <2>7. CASE coraza_die(status)
    <3>1. pc' # "filter_error"
      <4>1. PICK rs : \E i \in 1..Len(reqs) :
              SameFlow(rs) /\ (Redirects(rs, status) \/ Pages(rs, i, status))
        BY <2>7, CorazaDieOutcome
      <4>2. QED
        BY <4>1 DEF Redirects, Pages
    <3>2. QED
      BY <2>2, <3>1
  <2>8. QED
    BY <2>5, <2>6, <2>7
<1>8. QED
  BY <1>6, <1>7

(* Where the filter may deny: nothing is on the wire, or the response is   *)
(* not held back.                                                          *)
LEMMA FilterWhere ==
    ASSUME TypeOK, IInv, ResponseInv, pc \in FilterPCs \/ (pc = "filter" /\ ~MustStepAside)
    PROVE  /\ ~Denied /\ ~conn.aborted /\ ~ctx.drop_connection
           /\ pc = "filter" /\ ~ctx.phase3_done => Blank
           /\ pc = "phase4" => Blank
           /\ pc = "loop" /\ ctx.headers_delayed => Blank
           /\ pc = "loop" /\ ~ctx.headers_delayed => hist.route = "nodelay"
<1>1. /\ WireInv /\ DropInv /\ PhaseInv /\ RouteInv /\ FlowInv
  BY DEF ResponseInv
<1>2. ~Denied
  BY DEF IInv, DenyInv, MustStepAside, Denied
<1>3. pc = "filter" /\ ~ctx.phase3_done => Blank
  <2> SUFFICES ASSUME pc = "filter", ~ctx.phase3_done PROVE Blank
    OBVIOUS
  <2>1. Brigade(0) /\ ~ctx.headers_delayed
    BY <1>1 DEF FlowInv, RouteInv
  <2>2. QED
    BY <2>1 DEF Brigade, Gone
<1>4. QED
  BY <1>1, <1>2, <1>3 DEF WireInv, DropInv, RouteInv, Watched

(* An intervention found by the filter.                                    *)
LEMMA FilterIntervenesResponse ==
    ASSUME TypeOK, TypeOK', IInv, ResponseInv,
           pc \in FilterPCs \/ (pc = "filter" /\ ~MustStepAside),
           NEW c \in Contexts, NEW e \in Engines, NEW unsent,
           FilterIntervenes(c, e, unsent), c.phase3_done,
           c.headers_delayed = ctx.headers_delayed, c.pending = ctx.pending,
           c.drop_connection = ctx.drop_connection,
           e.headersOf <= Len(reqs),
           \A p \in 1..4 : e.ran[p] <= 1, e.ran[2] <= e.ran[1], e.ran[4] <= e.ran[3],
           unsent => Blank, ~unsent => hist.route = "nodelay"
    PROVE  ResponseInv'
<1>1. PICK iv \in Interventions :
        /\ Deny(CtxAfterIntervention(c, iv, FALSE))
        /\ engine' = EngineAfterIntervention(e, iv, FALSE)
        /\ \/ IsDrop(iv) /\ coraza_drop_response
           \/ /\ ~IsDrop(iv) /\ conn' = conn
              /\ IF unsent THEN coraza_die(EnforcedStatus(iv))
                 ELSE ErrorToHandler(EnforcedStatus(iv))
        /\ UNCHANGED <<client, body>>
  BY DEF FilterIntervenes
<1> DEFINE d == CtxAfterIntervention(c, iv, FALSE)
<1>2. /\ d \in Contexts /\ d.drop_connection = (c.drop_connection \/ IsDrop(iv))
      /\ d.headers_delayed = c.headers_delayed /\ d.pending = c.pending
      /\ d.phase3_done = c.phase3_done
  BY ContextFields
<1>3. engine'.headersOf = e.headersOf /\ engine'.ran = e.ran
  BY <1>1, InterventionFields
<1>4. PhasesOnceInOrder'
  BY <1>3 DEF PhasesOnceInOrder
<1>5. EnforcedStatus(iv) \in Nat /\ HTTP_FORBIDDEN \in Nat
  BY EnforcedStatusType DEF HTTP_FORBIDDEN
<1>6. ~Denied /\ ~ctx.drop_connection /\ pc \in {"filter"} \cup FilterPCs
  BY FilterWhere
<1>7. Deny(d) /\ client' = client
  BY <1>1
<1> HIDE DEF d
<1>8. CASE IsDrop(iv) /\ coraza_drop_response
  BY <1>2, <1>3, <1>4, <1>5, <1>6, <1>7, <1>8, FilterDeniesResponse DEF coraza_drop_response
<1>9. CASE ~IsDrop(iv)
  <2>1. d.drop_connection = ctx.drop_connection
    <3>1. ctx \in Contexts
      BY TypeOKParts
    <3>2. QED
      BY <1>2, <1>9, <3>1 DEF Contexts
  <2>2. QED
    BY <1>1, <1>2, <1>3, <1>4, <1>5, <1>6, <1>7, <1>9, <2>1, FilterDeniesResponse
<1>10. QED
  BY <1>1, <1>8, <1>9

(* Failing closed in phase 4.                                              *)
LEMMA FailClosedResponseKeeps ==
    ASSUME TypeOK, TypeOK', IInv, ResponseInv, pc = "loop",
           NEW c \in Contexts, coraza_fail_closed_response(c), c.phase3_done,
           c.headers_delayed = ctx.headers_delayed, c.pending = ctx.pending,
           c.drop_connection = ctx.drop_connection
    PROVE  ResponseInv'
<1>1. /\ ~Denied /\ pc \in {"filter"} \cup FilterPCs
      /\ ctx.headers_delayed => Blank
      /\ ~ctx.headers_delayed => hist.route = "nodelay"
  BY FilterWhere DEF FilterPCs
<1>2. engine' = engine /\ conn' = conn /\ client' = client /\ Deny(c)
  BY DEF coraza_fail_closed_response
<1>3. engine'.headersOf <= Len(reqs) /\ PhasesOnceInOrder'
  BY <1>2 DEF ResponseInv, SeenInv, PhaseInv, PhasesOnceInOrder
<1>4. HTTP_INTERNAL_SERVER_ERROR \in Nat
  BY DEF HTTP_INTERNAL_SERVER_ERROR
<1>5. QED
  BY <1>1, <1>2, <1>3, <1>4, FilterDeniesResponse DEF coraza_fail_closed_response

---------------------------------------------------------------------------
(* What the client has of a response of which m buckets have been let      *)
(* through.                                                                *)
Shown(m) ==
    \/ m = 0 /\ Blank
    \/ /\ wire.hdr = Len(reqs) /\ Run(wire.body, Len(reqs), 0)
       /\ client.header_only \/ Len(wire.body) = m

LEMMA GoneShown ==
    ASSUME ~conn.aborted, ~ctx.headers_delayed, NEW m, Gone(m)
    PROVE  Shown(m)
  BY DEF Gone, Shown

(* The filter hands the next buckets down, with or without itself in the   *)
(* chain.                                                                  *)
LEMMA PassOnOutcome ==
    ASSUME TypeOK, ResponseInv, pc \in {"filter"} \cup FilterPCs,
           NEW data \in Seq(Buckets), NEW rs \in {reqs, WithoutFilter}, PassOn(data, rs),
           NEW m \in Nat, Run(data, Len(reqs), m), m + Len(data) = req.passed,
           ~conn.aborted => Shown(m)
    PROVE  /\ pc' \in {"log", "handler"}
           /\ bb.eos => pc' = "log"
           /\ Len(reqs') = Len(reqs)
           /\ \A i \in 1..Len(reqs) :
                /\ reqs'[i].hasCtx = reqs[i].hasCtx
                /\ reqs'[i].passed = reqs[i].passed
           /\ req'.passed = req.passed
           /\ rs = reqs => req' = req
           /\ rs = WithoutFilter => ~req'.outFilter
           /\ pc' = "handler" => req'.passed > 0
           /\ conn.aborted => wire' = wire
           /\ ~conn.aborted => /\ wire'.hdr = Len(reqs) /\ Run(wire'.body, Len(reqs), 0)
                               /\ client.header_only => wire'.body = <<>>
                               /\ client.header_only \/ Len(wire'.body) = req'.passed
           /\ ~conn.aborted /\ Blank /\ ~client.header_only => wire'.body = data
<1>0. /\ Len(reqs) \in Nat /\ Len(reqs) >= 1 /\ Len(reqs) \in 1..MaxReqs
      /\ req = reqs[Len(reqs)] /\ req \in Requests /\ ChainOK(reqs)
      /\ Len(reqs) \in 1..Len(reqs)
  BY Sizes, TypeOKParts
<1>1. ~bb.err /\ (bb.eos \/ req.passed > 0) /\ (client.header_only => wire.body = <<>>)
  BY DEF ResponseInv, FlowInv, WireInv
<1>2. /\ wire' = Sent(Len(rs), rs[Len(rs)].status, data)
      /\ reqs' = rs /\ pc' = IF bb.eos THEN "log" ELSE "handler"
  BY <1>1 DEF PassOn, PassBrigade, Returned
<1>3. /\ Len(rs) = Len(reqs)
      /\ \A i \in 1..Len(reqs) :
           rs[i].hasCtx = reqs[i].hasCtx /\ rs[i].passed = reqs[i].passed
      /\ rs = WithoutFilter => ~rs[Len(reqs)].outFilter
  <2> DEFINE f == [req EXCEPT !.outFilter = FALSE]
  <2>1. /\ f \in Requests /\ f.first = req.first /\ f.hasCtx = req.hasCtx
        /\ f.passed = req.passed /\ ~f.outFilter
    BY <1>0 DEF Requests
  <2> HIDE DEF f
  <2>2. CASE rs = ThisRequest(f)
    <3>1. /\ Len(rs) = Len(reqs) /\ rs[Len(reqs)] = f
          /\ \A i \in 1..Len(reqs) : i # Len(reqs) => rs[i] = reqs[i]
      BY <1>0, <2>1, <2>2, ThisRequestType
    <3>2. QED
      BY <1>0, <2>1, <3>1
  <2>3. rs = WithoutFilter => rs = ThisRequest(f)
    BY DEF WithoutFilter, f
  <2>4. QED
    BY <2>2, <2>3
<1>4. req' = rs[Len(reqs)] /\ req'.passed = req.passed
  BY <1>0, <1>2, <1>3 DEF req, cur
<1>5. pc' = "handler" => req'.passed > 0
  <2>1. pc' = "handler" => ~bb.eos
    BY <1>2
  <2>2. ~bb.eos => req.passed > 0
    BY <1>1
  <2>3. req'.passed = req.passed
    BY <1>4
  <2>4. QED
    BY <2>1, <2>2, <2>3
<1>6. conn.aborted => wire' = wire
  <2>1. wire' = Sent(Len(rs), rs[Len(rs)].status, data)
    BY <1>2
  <2>2. QED
    BY <2>1 DEF Sent
<1>7. ~conn.aborted => /\ wire'.hdr = Len(reqs) /\ Run(wire'.body, Len(reqs), 0)
                       /\ client.header_only => wire'.body = <<>>
                       /\ client.header_only \/ Len(wire'.body) = req'.passed
  <2> SUFFICES ASSUME ~conn.aborted
               PROVE  /\ wire'.hdr = Len(reqs) /\ Run(wire'.body, Len(reqs), 0)
                      /\ client.header_only => wire'.body = <<>>
                      /\ client.header_only \/ Len(wire'.body) = req'.passed
    OBVIOUS
  <2>1. /\ wire'.hdr = Len(reqs) /\ Run(wire'.body, Len(reqs), 0)
        /\ client.header_only => wire'.body = <<>>
        /\ client.header_only \/ Len(wire'.body) = m + Len(data)
    BY <1>0, <1>1, <1>2, <1>3, SentRun DEF Shown
  <2>2. QED
    BY <1>4, <2>1
<1>8. ~conn.aborted /\ Blank /\ ~client.header_only => wire'.body = data
  BY <1>2, SentBlank
<1>9. /\ pc' \in {"log", "handler"} /\ (bb.eos => pc' = "log")
      /\ Len(reqs') = Len(reqs)
      /\ \A i \in 1..Len(reqs) :
           reqs'[i].hasCtx = reqs[i].hasCtx /\ reqs'[i].passed = reqs[i].passed
      /\ rs = reqs => req' = req
      /\ rs = WithoutFilter => ~req'.outFilter
  BY <1>0, <1>2, <1>3, <1>4
<1>10. QED
  BY <1>4, <1>5, <1>6, <1>7, <1>8, <1>9

(* The filter goes on with a response it holds or watches.                 *)
LEMMA WorkKeeps ==
    ASSUME TypeOK, TypeOK', ResponseInv, ~Denied, ~Denied',
           pc \in {"filter"} \cup FilterPCs, pc' \in FilterPCs \cup {"handler"},
           UNCHANGED <<client, reqs, conn, wire>>, hist'.denied = hist.denied,
           ctx'.drop_connection = ctx.drop_connection,
           pc' \in {"phase4", "delay"} => Blank,
           PhaseInv', RouteInv',
           pc' \in FilterPCs => /\ ~bb'.err /\ (bb'.eos \/ req.passed > 0)
                                /\ \E m \in 0..req.passed : Brigade(m)',
           pc' \in {"phase4", "delay"} => bb'.done = <<>> /\ Brigade(0)',
           pc' = "delay" => ctx'.response_body_processable,
           pc' = "handler" => /\ Gone(req.passed)' /\ req.passed > 0
                              /\ ctx'.phase3_done,
           ctx'.headers_delayed => AllSeen(ctx.pending)',
           pc' = "loop" /\ ctx'.headers_delayed => AllSeen(bb.done)',
           hist'.route = "held" => ctx'.headers_delayed,
           engine'.headersOf <= Len(reqs),
           wire.hdr # 0 => engine'.headersOf = engine.headersOf
    PROVE  ResponseInv'
<1>1. /\ WireInv /\ DropInv /\ PhaseInv /\ RouteInv /\ FlowInv /\ SeenInv /\ EndInv
  BY DEF ResponseInv
<1>2. req' = req /\ (Inspected' <=> Inspected)
  BY DEF req, cur, Inspected
<1>3. req.outFilter /\ req.passed \in Nat
  BY <1>1, Sizes DEF FlowInv
<1>4. WireInv'
  BY <1>1 DEF WireInv, HookPCs, FilterPCs, Blank, Run
<1>5. DropInv'
  BY <1>1, <1>2 DEF DropInv, FilterPCs
<1>6. FlowInv'
  <2>1. \A i \in 1..(Len(reqs') - 1) : reqs'[i].passed = 0 \/ i = hist'.denied
    BY <1>1 DEF FlowInv
  <2>2. /\ pc' \notin {"fixups"} \cup HookPCs /\ pc' # "filter"
        /\ pc' \notin {"setup", "read", "finish"}
    BY DEF HookPCs, FilterPCs
  <2>3. pc' \in {"filter"} \cup FilterPCs =>
          /\ req'.outFilter /\ ~bb'.err /\ (bb'.eos \/ req'.passed > 0)
          /\ (\E m \in 0..req.passed : Brigade(m))'
    BY <1>2, <1>3, <2>2
  <2>4. pc' \in {"filter", "phase4", "delay"} => bb'.done = <<>>
    BY <2>2
  <2>5. pc' = "handler" => /\ Gone(req.passed)' /\ ~(req'.passed = 0)
                           /\ ctx'.phase3_done
    BY <1>2, <1>3
  <2>6. QED
    BY <2>1, <2>2, <2>3, <2>4, <2>5 DEF FlowInv
<1>7. SeenInv'
  BY <1>1 DEF SeenInv
<1>8. EndInv'
  BY <1>1 DEF EndInv, FilterPCs
<1>9. QED
  BY <1>4, <1>5, <1>6, <1>7, <1>8 DEF ResponseInv

(* Counting a held bucket changes nothing the client could notice.         *)
LEMMA CountedFields ==
    ASSUME TypeOK
    PROVE  /\ Counted \in Contexts
           /\ Counted.intervention_triggered = ctx.intervention_triggered
           /\ Counted.drop_connection = ctx.drop_connection
           /\ Counted.headers_delayed = ctx.headers_delayed
           /\ Counted.pending = ctx.pending /\ Counted.phase3_done = ctx.phase3_done
           /\ Counted.response_body_processable = ctx.response_body_processable
<1> DEFINE n == IF ctx.headers_delayed THEN ctx.pending_len + 1 ELSE ctx.pending_len
<1>1. ctx \in Contexts
  BY TypeOKParts
<1>2. n \in Nat
  BY <1>1 DEF Contexts
<1>3. Counted = [ctx EXCEPT !.pending_len = n]
  BY <1>1 DEF Counted, Contexts
<1> HIDE DEF n
<1>4. QED
  BY <1>1, <1>2, <1>3 DEF Contexts

---------------------------------------------------------------------------
(* The output filter.                                                      *)
LEMMA OutputFilterResponse ==
    ASSUME TypeOK, IInv, ResponseInv, OutputFilter
    PROVE  ResponseInv'
<1>0. TypeOK'
  BY OutputFilterType
<1>a. /\ Len(reqs) \in Nat /\ Len(reqs) >= 1 /\ req = reqs[Len(reqs)] /\ cur = Len(reqs)
      /\ req \in Requests /\ ctx \in Contexts /\ engine \in Engines /\ hist \in Histories
      /\ bb \in Brigades /\ engine.ran \in [1..4 -> Nat] /\ req.passed \in Nat
      /\ bb.todo \in Seq(Buckets) /\ bb.done \in Seq(Buckets) /\ ctx.pending \in Seq(Buckets)
      /\ engine.headersOf \in Nat /\ engine.seen \in Seq(Buckets)
      /\ Len(bb.todo) \in Nat /\ Len(bb.done) \in Nat
  <2>1. req.passed \in Nat
    BY Sizes
  <2>2. QED
    BY <2>1, Sizes, TypeOKParts DEF Engines
<1>b. /\ WireInv /\ DropInv /\ PhaseInv /\ RouteInv /\ FlowInv /\ SeenInv /\ EndInv
  BY DEF ResponseInv
<1>c. pc \in {"filter"} \cup FilterPCs
  BY DEF OutputFilter, FilterStepsAside, FilterReenters, ProcessResponseHeaders,
         ResponseHeadersFail, FinalizeUninspected, StreamSse, BeginDelay, FlushAtCap,
         InspectBucket, BucketFails, ProcessResponseBody, EndOfBrigade, FilterPCs
<1>d. PICK m \in 0..req.passed : Brigade(m)
  BY <1>b, <1>c DEF FlowInv
<1>e. /\ m \in Nat /\ Gone(m) /\ Run(bb.done, Len(reqs), m)
      /\ Run(bb.todo, Len(reqs), m + Len(bb.done))
      /\ m + Len(bb.done) + Len(bb.todo) = req.passed
  BY <1>a, <1>d DEF Brigade
<1>f. req.hasCtx /\ Inspected /\ req.outFilter
  <2>1. req.hasCtx
    BY <1>c DEF IInv, ChainInv
  <2>2. QED
    BY <1>a, <1>b, <1>c, <2>1 DEF Inspected, FlowInv
<1>g. /\ \A p \in 1..4 : engine.ran[p] <= 1
      /\ engine.ran[2] <= engine.ran[1] /\ engine.ran[4] <= engine.ran[3]
      /\ engine.headersOf <= Len(reqs)
  BY <1>b DEF PhaseInv, PhasesOnceInOrder, SeenInv
<1>h. ASSUME Len(reqs') = Len(reqs),
             \A i \in 1..Len(reqs) : reqs'[i].hasCtx = reqs[i].hasCtx,
             ctx'.phase3_done = ctx.phase3_done,
             ~ctx.phase3_done => engine'.ran = engine.ran,
             PhasesOnceInOrder'
      PROVE  PhasesKept
  <2>1. Inspected'
    BY <1>f, <1>h DEF Inspected
  <2>2. QED
    BY <1>b, <1>h, <2>1 DEF PhasesKept, PhaseInv
<1>i. engine' = engine => PhasesOnceInOrder'
  BY <1>b DEF PhaseInv, PhasesOnceInOrder
<1>j. bb.done = <<>> => /\ Run(bb.todo, Len(reqs), m)
                        /\ m + Len(bb.todo) = req.passed
  <2> SUFFICES ASSUME bb.done = <<>>
               PROVE  /\ Run(bb.todo, Len(reqs), m)
                      /\ m + Len(bb.todo) = req.passed
    OBVIOUS
  <2>1. Len(bb.done) = 0
    OBVIOUS
  <2>2. m + Len(bb.done) = m
    BY <1>e, <2>1
  <2>3. QED
    BY <1>e, <2>2
<1>1. CASE FilterStepsAside
  <2>1. /\ pc = "filter" /\ Denied /\ PassOn(bb.todo, WithoutFilter)
        /\ UNCHANGED <<client, ctx, conn, engine, hist>>
    BY <1>1 DEF FilterStepsAside, MustStepAside, Denied
  <2>2. bb.done = <<>> /\ ~ctx.headers_delayed /\ ctx.pending = <<>>
    BY <1>b, <2>1 DEF FlowInv, RouteInv
  <2>3. ~conn.aborted => Shown(m)
    BY <1>e, <2>2, GoneShown
  <2>4. /\ pc' \in {"log", "handler"} /\ Len(reqs') = Len(reqs)
        /\ \A i \in 1..Len(reqs) :
             reqs'[i].hasCtx = reqs[i].hasCtx /\ reqs'[i].passed = reqs[i].passed
        /\ ~req'.outFilter /\ (pc' = "handler" => req'.passed > 0)
        /\ conn.aborted => wire' = wire
        /\ ~conn.aborted => /\ wire'.hdr = Len(reqs) /\ Run(wire'.body, Len(reqs), 0)
                            /\ client.header_only => wire'.body = <<>>
                            /\ client.header_only \/ Len(wire'.body) = req'.passed
    BY <1>a, <1>c, <1>e, <1>j, <2>1, <2>2, <2>3, PassOnOutcome
  <2>5. PhasesKept
    BY <1>h, <1>i, <2>1, <2>4
  <2>6. Denied' <=> Denied
    BY <2>1 DEF Denied
  <2>7. QED
    BY <1>0, <2>1, <2>2, <2>4, <2>5, <2>6, PassedOn
<1>2. CASE FilterReenters
  <2>1. /\ pc = "filter" /\ ~Denied /\ ctx.phase3_done /\ pc' = "loop"
        /\ UNCHANGED <<client, reqs, ctx, bb, conn, wire, engine, hist>>
    BY <1>2 DEF FilterReenters, MustStepAside, Denied
  <2>2. /\ Watched /\ engine.ran[3] = 1 /\ engine.ran[4] = 0 /\ bb.done = <<>>
        /\ ~bb.err /\ (bb.eos \/ req.passed > 0)
    BY <1>b, <1>f, <2>1 DEF RouteInv, FlowInv
  <2>3. PhaseInv'
    BY <1>b, <2>1, <2>2
    DEF PhaseInv, PhasesOnceInOrder, HookPCs, FilterPCs, Inspected
  <2>4. RouteInv'
    BY <1>b, <2>1, <2>2 DEF RouteInv, Watched, Blank, req, cur, Denied, FilterPCs
  <2>5. Brigade(m)'
    BY <1>d, <2>1 DEF Brigade, Gone, Run, Blank, req, cur
  <2>6. /\ ctx'.headers_delayed => AllSeen(ctx.pending)'
        /\ AllSeen(bb.done)'
    BY <1>b, <2>1, <2>2 DEF SeenInv, AllSeen
  <2>7. hist'.route = "held" => ctx'.headers_delayed
    BY <2>1, <2>2 DEF Watched
  <2>8. QED
    BY <1>0, <1>d, <1>g, <2>1, <2>2, <2>3, <2>4, <2>5, <2>6, <2>7, WorkKeeps
    DEF FilterPCs, Denied
<1>3. CASE ProcessResponseHeaders
  <2> DEFINE e == [Ran(engine, 3) EXCEPT !.headersOf = cur]
  <2>1. PICK processable \in BOOLEAN :
          LET c == [ctx EXCEPT !.phase3_done = TRUE,
                               !.response_body_processable = processable] IN
          \/ FilterIntervenes(c, e, TRUE)
          \/ /\ ctx' = c
             /\ engine' = e
             /\ pc' = IF processable THEN "delay" ELSE "phase4"
             /\ UNCHANGED <<client, reqs, body, bb, conn, wire, hist>>
    BY <1>3 DEF ProcessResponseHeaders
  <2> DEFINE c == [ctx EXCEPT !.phase3_done = TRUE,
                              !.response_body_processable = processable]
  <2>2. /\ pc = "filter" /\ ~MustStepAside /\ ~Denied /\ ~ctx.phase3_done
    BY <1>3 DEF ProcessResponseHeaders, MustStepAside, Denied
  <2>3. /\ c \in Contexts /\ c.phase3_done /\ c.headers_delayed = ctx.headers_delayed
        /\ c.pending = ctx.pending /\ c.drop_connection = ctx.drop_connection
        /\ c.intervention_triggered = ctx.intervention_triggered
        /\ c.response_body_processable = processable
    BY <1>a DEF Contexts
  <2>4. /\ e \in Engines /\ e.headersOf = Len(reqs) /\ e.seen = engine.seen
        /\ e.ran[3] = 1 /\ e.ran[4] = 0
        /\ e.ran[1] = engine.ran[1] /\ e.ran[2] = engine.ran[2]
    <3> DEFINE f == Ran(engine, 3)
    <3>1. /\ f \in Engines /\ f.seen = engine.seen /\ f.ran[3] = engine.ran[3] + 1
          /\ f.ran[1] = engine.ran[1] /\ f.ran[2] = engine.ran[2]
          /\ f.ran[4] = engine.ran[4]
      BY <1>a, RanFields
    <3> HIDE DEF f
    <3>2. cur \in 0..MaxReqs
      BY Sizes, BoundsAssumption
    <3>3. /\ [f EXCEPT !.headersOf = cur] \in Engines
          /\ [f EXCEPT !.headersOf = cur].seen = f.seen
          /\ [f EXCEPT !.headersOf = cur].ran = f.ran
          /\ [f EXCEPT !.headersOf = cur].headersOf = cur
      BY <3>1, <3>2 DEF Engines
    <3>4. engine.ran[3] = 0 /\ engine.ran[4] = 0
      BY <1>b, <2>2 DEF PhaseInv
    <3>5. QED
      BY <1>a, <3>1, <3>3, <3>4 DEF f
  <2>5. /\ Blank /\ Brigade(0) /\ bb.done = <<>> /\ ~ctx.headers_delayed /\ ctx.pending = <<>>
        /\ hist.route = "none" /\ ~bb.err /\ (bb.eos \/ req.passed > 0)
    BY <1>b, <1>c, <2>2, FilterWhere DEF RouteInv, FlowInv
  <2> HIDE DEF e, c
  <2>6. CASE FilterIntervenes(c, e, TRUE)
    <3>1. \A p \in 1..4 : e.ran[p] <= 1
      <4>1. \A p \in 1..4 : p = 1 \/ p = 2 \/ p = 3 \/ p = 4
        OBVIOUS
      <4>2. QED
        BY <1>g, <2>4, <4>1
    <3>2. /\ e.ran[2] <= e.ran[1] /\ e.ran[4] <= e.ran[3] /\ e.headersOf <= Len(reqs)
      BY <1>a, <1>g, <2>4
    <3>3. QED
      BY <1>0, <2>2, <2>3, <2>4, <2>5, <2>6, <3>1, <3>2, FilterIntervenesResponse
  <2>7. CASE /\ ctx' = c /\ engine' = e
             /\ pc' = IF processable THEN "delay" ELSE "phase4"
             /\ UNCHANGED <<client, reqs, bb, conn, wire, hist>>
    <3>0. pc' \in {"phase4", "delay"} /\ (pc' = "delay" => ctx'.response_body_processable)
          /\ ~Denied'
      BY <2>2, <2>3, <2>7 DEF Denied
    <3>1. PhaseInv'
      <4>1. Inspected'
        BY <1>f, <2>7 DEF Inspected
      <4>2. PhasesOnceInOrder'
        <5>1. \A p \in 1..4 : p = 1 \/ p = 2 \/ p = 3 \/ p = 4
          OBVIOUS
        <5>2. QED
          BY <1>g, <2>4, <2>7, <5>1 DEF PhasesOnceInOrder
      <4>3. QED
        BY <2>3, <2>4, <2>7, <3>0, <4>1, <4>2 DEF PhaseInv, HookPCs
    <3>2. RouteInv'
      BY <2>3, <2>4, <2>5, <2>7, <3>0 DEF RouteInv, FilterPCs
    <3>3. Brigade(0)'
      BY <2>3, <2>5, <2>7 DEF Brigade, Gone, Run, Blank, req, cur
    <3>4. 0 \in 0..req.passed
      BY <1>a
    <3>5. ~ctx'.headers_delayed /\ hist'.route # "held"
      BY <2>3, <2>5, <2>7
    <3>6. QED
      BY <1>0, <1>a, <1>c, <2>2, <2>3, <2>4, <2>5, <2>7, <3>0, <3>1, <3>2, <3>3, <3>4, <3>5,
         WorkKeeps DEF Blank, FilterPCs
  <2>8. QED
    BY <2>1, <2>6, <2>7 DEF c
<1>4. CASE ResponseHeadersFail
  <2> DEFINE c == [ctx EXCEPT !.phase3_done = TRUE]
  <2>1. /\ pc = "filter" /\ ~MustStepAside /\ ~Denied /\ ~ctx.phase3_done
        /\ Deny(c) /\ coraza_die(HTTP_INTERNAL_SERVER_ERROR)
        /\ UNCHANGED <<client, body, conn, engine>>
    BY <1>4 DEF ResponseHeadersFail, MustStepAside, Denied
  <2>2. /\ c \in Contexts /\ c.phase3_done /\ c.headers_delayed = ctx.headers_delayed
        /\ c.pending = ctx.pending /\ c.drop_connection = ctx.drop_connection
    BY <1>a DEF Contexts
  <2>3. Blank
    BY <2>1, FilterWhere
  <2>4. HTTP_INTERNAL_SERVER_ERROR \in Nat
    BY DEF HTTP_INTERNAL_SERVER_ERROR
  <2> HIDE DEF c
  <2>5. QED
    BY <1>0, <1>c, <1>g, <1>i, <2>1, <2>2, <2>3, <2>4, FilterDeniesResponse
<1>5. CASE FinalizeUninspected
  <2> DEFINE c == [ctx EXCEPT !.phase4_done = TRUE]
             e == Ran(engine, 4)
  <2>1. pc = "phase4" /\ pc \in FilterPCs
    BY <1>5 DEF FinalizeUninspected, FilterPCs
  <2>2. /\ c \in Contexts /\ c.phase3_done = ctx.phase3_done
        /\ c.headers_delayed = ctx.headers_delayed
        /\ c.pending = ctx.pending /\ c.drop_connection = ctx.drop_connection
        /\ c.intervention_triggered = ctx.intervention_triggered
    BY <1>a DEF Contexts
  <2>3. /\ e \in Engines /\ e.headersOf = engine.headersOf /\ e.ran[4] = engine.ran[4] + 1
        /\ e.ran[1] = engine.ran[1] /\ e.ran[2] = engine.ran[2] /\ e.ran[3] = engine.ran[3]
    BY <1>a, RanFields
  <2>4. /\ ctx.phase3_done /\ engine.ran[3] = 1 /\ engine.ran[4] = 0 /\ Blank /\ ~Denied
        /\ ~conn.aborted /\ ~ctx.headers_delayed /\ ctx.pending = <<>>
        /\ engine.headersOf = Len(reqs) /\ Brigade(0) /\ bb.done = <<>>
    BY <1>b, <2>1, FilterWhere DEF PhaseInv, RouteInv, FlowInv
  <2>5. /\ \A p \in 1..4 : e.ran[p] <= 1
        /\ e.ran[2] <= e.ran[1] /\ e.ran[4] <= e.ran[3] /\ e.headersOf <= Len(reqs)
    <3>1. \A p \in 1..4 : p = 1 \/ p = 2 \/ p = 3 \/ p = 4
      OBVIOUS
    <3>2. QED
      BY <1>a, <1>g, <2>3, <2>4, <3>1
  <2> HIDE DEF c, e
  <2>6. CASE coraza_fail_closed_headers
    <3>1. HTTP_INTERNAL_SERVER_ERROR \in Nat
      BY DEF HTTP_INTERNAL_SERVER_ERROR
    <3>2. QED
      BY <1>0, <1>a, <1>c, <1>g, <1>i, <2>4, <2>6, <3>1, FilterDeniesResponse
      DEF coraza_fail_closed_headers
  <2>7. CASE FilterIntervenes(c, e, TRUE)
    BY <1>0, <2>1, <2>2, <2>3, <2>4, <2>5, <2>7, FilterIntervenesResponse
  <2>8. CASE /\ PassOn(bb.todo, WithoutFilter) /\ ctx' = c /\ engine' = e
             /\ hist' = [hist EXCEPT !.route = "uninspected"]
             /\ UNCHANGED <<client, conn>>
    <3>1. /\ Run(bb.todo, Len(reqs), 0) /\ 0 + Len(bb.todo) = req.passed
      <4>1. Run(bb.todo, Len(reqs), 0 + Len(bb.done)) /\ Len(bb.done) = 0
            /\ 0 + Len(bb.done) + Len(bb.todo) = req.passed
        BY <2>4 DEF Brigade
      <4>2. 0 + Len(bb.done) = 0
        BY <4>1
      <4>3. QED
        BY <4>1, <4>2
    <3>2. Shown(0)
      BY <2>4 DEF Shown
    <3>3. /\ pc' \in {"log", "handler"} /\ Len(reqs') = Len(reqs)
          /\ \A i \in 1..Len(reqs) :
               reqs'[i].hasCtx = reqs[i].hasCtx /\ reqs'[i].passed = reqs[i].passed
          /\ ~req'.outFilter /\ (pc' = "handler" => req'.passed > 0)
          /\ wire'.hdr = Len(reqs) /\ Run(wire'.body, Len(reqs), 0)
          /\ client.header_only => wire'.body = <<>>
          /\ client.header_only \/ Len(wire'.body) = req'.passed
      BY <1>a, <1>c, <2>4, <2>8, <3>1, <3>2, PassOnOutcome
    <3>4. PhasesKept
      BY <1>h, <2>2, <2>4, <2>5, <2>8, <3>3 DEF PhasesOnceInOrder
    <3>5. hist'.denied = hist.denied /\ hist'.route = "uninspected"
      BY <1>a, <2>8 DEF Histories
    <3>6. Denied' <=> Denied
      BY <2>2, <2>8 DEF Denied
    <3>7. QED
      BY <1>0, <1>c, <2>2, <2>3, <2>4, <2>8, <3>3, <3>4, <3>5, <3>6, PassedOn
  <2>9. QED
    BY <1>5, <2>6, <2>7, <2>8 DEF FinalizeUninspected, c, e
<1>6. CASE StreamSse
  <2>1. /\ pc = "delay" /\ pc \in FilterPCs /\ PassOn(bb.todo, WithoutFilter)
        /\ hist' = [hist EXCEPT !.route = "sse"]
        /\ UNCHANGED <<client, ctx, conn, engine>>
    BY <1>6 DEF StreamSse, FilterPCs
  <2>2. /\ ctx.phase3_done /\ Blank /\ ~Denied
        /\ ~conn.aborted /\ ~ctx.headers_delayed /\ ctx.pending = <<>>
        /\ engine.headersOf = Len(reqs) /\ bb.done = <<>> /\ Brigade(0)
    BY <1>b, <2>1, FilterWhere DEF PhaseInv, RouteInv, FlowInv, WireInv
  <2>3. /\ Run(bb.todo, Len(reqs), 0) /\ 0 + Len(bb.todo) = req.passed
    <3>1. Run(bb.todo, Len(reqs), 0 + Len(bb.done)) /\ Len(bb.done) = 0
          /\ 0 + Len(bb.done) + Len(bb.todo) = req.passed
      BY <2>2 DEF Brigade
    <3>2. 0 + Len(bb.done) = 0
      BY <3>1
    <3>3. QED
      BY <3>1, <3>2
  <2>4. Shown(0)
    BY <2>2 DEF Shown
  <2>5. /\ pc' \in {"log", "handler"} /\ Len(reqs') = Len(reqs)
        /\ \A i \in 1..Len(reqs) :
             reqs'[i].hasCtx = reqs[i].hasCtx /\ reqs'[i].passed = reqs[i].passed
        /\ ~req'.outFilter /\ (pc' = "handler" => req'.passed > 0)
        /\ wire'.hdr = Len(reqs) /\ Run(wire'.body, Len(reqs), 0)
        /\ client.header_only => wire'.body = <<>>
        /\ client.header_only \/ Len(wire'.body) = req'.passed
    BY <1>a, <1>c, <2>1, <2>2, <2>3, <2>4, PassOnOutcome
  <2>6. PhasesKept
    BY <1>h, <1>i, <2>1, <2>5
  <2>7. hist'.denied = hist.denied /\ hist'.route = "sse"
    BY <1>a, <2>1 DEF Histories
  <2>8. Denied' <=> Denied
    BY <2>1 DEF Denied
  <2>9. QED
    BY <1>0, <1>c, <2>1, <2>2, <2>5, <2>6, <2>7, <2>8, PassedOn
<1>7. CASE BeginDelay
  <2> DEFINE delays == ~client.header_only /\ req.status < 400
  <2>1. /\ pc = "delay" /\ pc \in FilterPCs /\ pc' = "loop"
        /\ ctx' = [ctx EXCEPT !.headers_delayed = delays]
        /\ hist' = [hist EXCEPT !.route = IF delays THEN "held" ELSE "nodelay"]
        /\ UNCHANGED <<client, reqs, bb, conn, wire, engine>>
    BY <1>7 DEF BeginDelay, FilterPCs
  <2>2. /\ ctx.phase3_done /\ Blank /\ ~Denied
        /\ ~conn.aborted /\ ~ctx.headers_delayed /\ ctx.pending = <<>>
        /\ engine.headersOf = Len(reqs) /\ bb.done = <<>> /\ Brigade(0)
        /\ engine.ran[3] = 1 /\ engine.ran[4] = 0 /\ ctx.response_body_processable
        /\ ~bb.err /\ (bb.eos \/ req.passed > 0)
    BY <1>b, <1>c, <2>1, FilterWhere DEF PhaseInv, RouteInv, FlowInv, WireInv
  <2>3. delays \in BOOLEAN
    OBVIOUS
  <2>4. delays => ~client.header_only
    OBVIOUS
  <2> HIDE DEF delays
  <2>5. /\ ctx'.headers_delayed = delays /\ ctx'.pending = <<>> /\ ctx'.phase3_done
        /\ ctx'.response_body_processable /\ ~Denied'
        /\ ctx'.drop_connection = ctx.drop_connection
        /\ hist'.denied = hist.denied /\ hist'.route = IF delays THEN "held" ELSE "nodelay"
    BY <1>a, <2>1, <2>2, <2>3 DEF Contexts, Histories, Denied
  <2>6. PhaseInv'
    <3>1. Inspected' /\ PhasesOnceInOrder'
      BY <1>f, <1>i, <2>1 DEF Inspected
    <3>2. QED
      BY <2>1, <2>2, <2>5, <3>1 DEF PhaseInv, HookPCs, FilterPCs
  <2>7. req' = req
    BY <2>1 DEF req, cur
  <2>8. RouteInv'
    BY <1>f, <2>1, <2>2, <2>4, <2>5, <2>7 DEF RouteInv, Watched, Blank, FilterPCs
  <2>9. Brigade(0)'
    <3>1. Gone(0)'
      <4>1. ctx'.headers_delayed => Len(ctx'.pending) = 0 /\ Run(ctx'.pending, Len(reqs'), 0)
        BY <2>5, RunEmpty
      <4>2. QED
        BY <2>1, <2>2, <4>1 DEF Gone, Blank
    <3>2. QED
      BY <2>1, <2>2, <2>7, <3>1 DEF Brigade, Run
  <2>10. AllSeen(ctx.pending)' /\ AllSeen(bb.done)'
    BY <2>1, <2>2, <2>5 DEF AllSeen
  <2>11. 0 \in 0..req.passed
    BY <1>a
  <2>12. hist'.route = "held" => ctx'.headers_delayed
    BY <2>5
  <2>13. QED
    BY <1>0, <1>c, <1>g, <2>1, <2>2, <2>5, <2>6, <2>8, <2>9, <2>10, <2>11, <2>12, WorkKeeps
    DEF FilterPCs
<1>8. CASE FlushAtCap
  <2> DEFINE data == ctx.pending \o bb.done \o bb.todo
  <2>1. /\ pc = "loop" /\ pc \in FilterPCs /\ ctx.headers_delayed
        /\ PassOn(data, WithoutFilter)
        /\ ctx' = [Counted EXCEPT !.headers_delayed = FALSE, !.pending = <<>>]
        /\ hist' = [hist EXCEPT !.route = "cap"]
        /\ UNCHANGED <<client, conn, engine>>
    BY <1>8 DEF FlushAtCap, OverCap, FlushedBody, FilterPCs
  <2>2. /\ ctx.phase3_done /\ Blank /\ ~Denied /\ ~conn.aborted
        /\ engine.headersOf = Len(reqs)
    BY <1>b, <2>1, FilterWhere DEF PhaseInv, RouteInv
  <2>3. /\ data \in Seq(Buckets) /\ Run(data, Len(reqs), 0) /\ Len(data) = req.passed
    <3>1. Len(ctx.pending) = m /\ Run(ctx.pending, Len(reqs), 0)
      BY <1>e, <2>1 DEF Gone
    <3>2. 0 + Len(ctx.pending) = m
      BY <1>e, <3>1
    <3> DEFINE pd == ctx.pending \o bb.done
    <3>3. pd \in Seq(Buckets) /\ Run(pd, Len(reqs), 0) /\ Len(pd) = m + Len(bb.done)
      BY <1>a, <1>e, <3>1, <3>2, RunConcat
    <3>4. 0 + Len(pd) = m + Len(bb.done)
      <4>1. Len(pd) \in Nat
        BY <3>3
      <4>2. QED
        BY <3>3, <4>1
    <3> HIDE DEF pd
    <3>5. /\ pd \o bb.todo \in Seq(Buckets) /\ Run(pd \o bb.todo, Len(reqs), 0)
          /\ Len(pd \o bb.todo) = Len(pd) + Len(bb.todo)
      BY <1>a, <1>e, <3>3, <3>4, RunConcat
    <3>6. QED
      BY <1>e, <3>3, <3>5 DEF pd
  <2>4. 0 + Len(data) = req.passed /\ Shown(0)
    BY <1>a, <2>2, <2>3 DEF Shown
  <2> HIDE DEF data
  <2>5. /\ pc' \in {"log", "handler"} /\ Len(reqs') = Len(reqs)
        /\ \A i \in 1..Len(reqs) :
             reqs'[i].hasCtx = reqs[i].hasCtx /\ reqs'[i].passed = reqs[i].passed
        /\ ~req'.outFilter /\ (pc' = "handler" => req'.passed > 0)
        /\ wire'.hdr = Len(reqs) /\ Run(wire'.body, Len(reqs), 0)
        /\ client.header_only => wire'.body = <<>>
        /\ client.header_only \/ Len(wire'.body) = req'.passed
    BY <1>a, <1>c, <2>1, <2>2, <2>3, <2>4, PassOnOutcome
  <2>6. /\ ctx'.phase3_done = ctx.phase3_done /\ ~ctx'.headers_delayed
        /\ ctx'.pending = <<>> /\ ctx'.drop_connection = ctx.drop_connection
        /\ Denied' <=> Denied
    <3>1. Counted \in Contexts /\ Counted.phase3_done = ctx.phase3_done
          /\ Counted.drop_connection = ctx.drop_connection
          /\ Counted.intervention_triggered = ctx.intervention_triggered
      BY CountedFields
    <3>2. QED
      BY <2>1, <3>1 DEF Contexts, Denied
  <2>7. PhasesKept
    BY <1>h, <1>i, <2>1, <2>5, <2>6
  <2>8. hist'.denied = hist.denied /\ hist'.route = "cap"
    BY <1>a, <2>1 DEF Histories
  <2>9. QED
    BY <1>0, <1>c, <2>1, <2>2, <2>5, <2>6, <2>7, <2>8, PassedOn
<1>9. CASE InspectBucket
  <2> DEFINE b == Head(bb.todo)
             e == SubmitBucket(b)
  <2>1. /\ pc = "loop" /\ pc \in FilterPCs /\ bb.todo # <<>>
        /\ \/ FilterIntervenes(Counted, e, ctx.headers_delayed)
           \/ /\ ctx' = Counted /\ engine' = e
              /\ bb' = [bb EXCEPT !.done = Append(@, b), !.todo = Tail(@)]
              /\ UNCHANGED <<pc, client, reqs, conn, wire, hist>>
    BY <1>9 DEF InspectBucket, FilterPCs
  <2>2. /\ ctx.phase3_done /\ ~Denied /\ ~conn.aborted
        /\ engine.headersOf = Len(reqs) /\ engine.ran[3] = 1 /\ engine.ran[4] = 0
        /\ ctx.headers_delayed => Blank
        /\ ~ctx.headers_delayed => hist.route = "nodelay"
        /\ ctx.headers_delayed => ctx.response_body_processable
        /\ Watched
    BY <1>b, <2>1, FilterWhere DEF PhaseInv, RouteInv
  <2>3. b \in Buckets
    BY <1>a, <2>1
  <2>4. /\ e \in Engines /\ e.headersOf = engine.headersOf /\ e.ran = engine.ran
        /\ ctx.headers_delayed => e.seen = Append(engine.seen, b)
    <3>1. Append(engine.seen, b) \in Seq(Buckets)
      BY <1>a, <2>3
    <3> HIDE DEF b
    <3> DEFINE s == Append(engine.seen, b)
    <3>2. s \in Seq(Buckets)
      BY <3>1
    <3> HIDE DEF s
    <3>3. /\ [engine EXCEPT !.seen = s] \in Engines
          /\ [engine EXCEPT !.seen = s].headersOf = engine.headersOf
          /\ [engine EXCEPT !.seen = s].ran = engine.ran
          /\ [engine EXCEPT !.seen = s].seen = s
      BY <1>a, <3>2 DEF Engines
    <3>4. e = IF ctx.response_body_processable THEN [engine EXCEPT !.seen = s] ELSE engine
      BY DEF SubmitBucket, s
    <3>5. QED
      BY <1>a, <2>2, <3>3, <3>4 DEF s
  <2>5. CASE FilterIntervenes(Counted, e, ctx.headers_delayed)
    <3> HIDE DEF e, b
    <3>1. /\ Counted \in Contexts /\ Counted.drop_connection = ctx.drop_connection
          /\ Counted.headers_delayed = ctx.headers_delayed
          /\ Counted.pending = ctx.pending /\ Counted.phase3_done
      BY <2>2, CountedFields
    <3>2. QED
      BY <1>0, <1>g, <2>1, <2>2, <2>4, <2>5, <3>1, FilterIntervenesResponse
  <2>6. CASE /\ ctx' = Counted /\ engine' = e
             /\ bb' = [bb EXCEPT !.done = Append(@, b), !.todo = Tail(@)]
             /\ UNCHANGED <<pc, client, reqs, conn, wire, hist>>
    <3> DEFINE d == Append(bb.done, b)
               t == Tail(bb.todo)
    <3>1. /\ d \in Seq(Buckets) /\ t \in Seq(Buckets)
          /\ Run(d, Len(reqs), m) /\ Run(t, Len(reqs), m + Len(d))
          /\ m + Len(d) + Len(t) = req.passed
      <4>1. /\ d \in Seq(Buckets) /\ t \in Seq(Buckets)
            /\ Run(d, Len(reqs), m) /\ Run(t, Len(reqs), m + Len(bb.done) + 1)
        BY <1>a, <1>e, <2>1, RunMove
      <4>2. /\ m + Len(d) = m + Len(bb.done) + 1
            /\ m + Len(d) + Len(t) = req.passed
        <5> DEFINE x == bb.done
                   y == bb.todo
                   p == req.passed
        <5>1. /\ x \in Seq(Buckets) /\ y \in Seq(Buckets) /\ y # <<>>
              /\ m \in Nat /\ p \in Nat /\ m + Len(x) + Len(y) = p
          BY <1>a, <1>e, <2>1
        <5> HIDE DEF x, y, p
        <5>2. /\ m + Len(Append(x, Head(y))) = m + Len(x) + 1
              /\ m + Len(Append(x, Head(y))) + Len(Tail(y)) = p
          BY <5>1, MoveSum
        <5>3. QED
          BY <5>2 DEF x, y, p
      <4>3. Run(t, Len(reqs), m + Len(d))
        BY <4>1, <4>2
      <4>4. QED
        BY <4>1, <4>2, <4>3
    <3>2. ctx.headers_delayed => AllSeen(ctx.pending) /\ AllSeen(bb.done)
      BY <1>b, <2>1 DEF SeenInv
    <3>3. bb' = [bb EXCEPT !.done = d, !.todo = t] /\ d = Append(bb.done, b)
      BY <2>6
    <3> HIDE DEF d, t, e, b
    <3>4. ctx.headers_delayed =>
            \A j \in 1..Len(ctx.pending) :
                 \E k \in 1..Len(e.seen) : e.seen[k] = ctx.pending[j]
      <4> DEFINE x == ctx.pending
                 y == engine.seen
      <4>1. x \in Seq(Buckets) /\ y \in Seq(Buckets)
        BY <1>a
      <4>2. ctx.headers_delayed =>
              /\ \A j \in 1..Len(x) : \E k \in 1..Len(y) : y[k] = x[j]
              /\ e.seen = Append(y, b)
        BY <2>4, <3>2 DEF AllSeen
      <4> HIDE DEF x, y
      <4>3. ctx.headers_delayed =>
              \A j \in 1..Len(x) : \E k \in 1..Len(Append(y, b)) : Append(y, b)[k] = x[j]
        BY <4>1, <4>2, SeenMore
      <4>4. QED
        BY <4>2, <4>3 DEF x
    <3>5. ctx.headers_delayed =>
            \A j \in 1..Len(d) : \E k \in 1..Len(e.seen) : e.seen[k] = d[j]
      <4>1. bb.done \in Seq(Buckets) /\ engine.seen \in Seq(Buckets)
        BY <1>a
      <4>2. ctx.headers_delayed =>
              /\ \A j \in 1..Len(bb.done) :
                   \E k \in 1..Len(engine.seen) : engine.seen[k] = bb.done[j]
              /\ e.seen = Append(engine.seen, b)
        BY <2>4, <3>2 DEF AllSeen
      <4>3. QED
        BY <3>3, <4>1, <4>2, SeenAppend, ZenonT(40), SMTT(40)
    <3>6. bb'.done = d /\ bb'.todo = t /\ bb'.eos = bb.eos /\ bb'.err = bb.err
      BY <1>a, <3>1, <3>3 DEF Brigades
    <3>7. /\ ctx'.headers_delayed = ctx.headers_delayed /\ ctx'.pending = ctx.pending
          /\ ctx'.phase3_done /\ ctx'.drop_connection = ctx.drop_connection
          /\ ctx'.response_body_processable = ctx.response_body_processable
          /\ ctx'.intervention_triggered = ctx.intervention_triggered
      BY <2>2, <2>6, CountedFields
    <3>8. req' = req /\ Len(reqs') = Len(reqs) /\ ~Denied'
      BY <2>2, <2>6, <3>7 DEF req, cur, Denied
    <3>9. Brigade(m)'
      <4>1. Gone(m)'
        BY <1>e, <2>6, <3>7, <3>8 DEF Gone, Run, Blank
      <4>2. Run(bb.done, Len(reqs), m)' /\ Run(bb.todo, Len(reqs), m + Len(bb.done))'
        BY <3>1, <3>6, <3>8 DEF Run
      <4>3. QED
        BY <3>1, <3>6, <3>8, <4>1, <4>2 DEF Brigade
    <3>10. /\ ctx'.headers_delayed => AllSeen(ctx.pending)'
           /\ ctx'.headers_delayed => AllSeen(bb.done)'
      BY <2>6, <3>4, <3>5, <3>6, <3>7 DEF AllSeen
    <3>11. PhaseInv'
      <4>1. Inspected' /\ PhasesOnceInOrder'
        BY <1>f, <1>g, <2>4, <2>6 DEF Inspected, PhasesOnceInOrder
      <4>2. QED
        BY <2>1, <2>2, <2>4, <2>6, <3>7, <4>1 DEF PhaseInv, HookPCs, FilterPCs
    <3>12. RouteInv'
      BY <1>b, <2>1, <2>2, <2>4, <2>6, <3>7, <3>8 DEF RouteInv, Watched, Blank, Denied, FilterPCs
    <3>13. /\ ~bb'.err /\ (bb'.eos \/ req.passed > 0)
      BY <1>b, <1>c, <3>6 DEF FlowInv
    <3>14. hist'.route = "held" => ctx'.headers_delayed
      BY <2>2, <2>6, <3>7
    <3>15. pc' = "loop" /\ pc' \in FilterPCs /\ engine'.headersOf = engine.headersOf
      BY <2>1, <2>4, <2>6
    <3>16. QED
      BY <1>0, <1>c, <1>d, <1>g, <2>1, <2>2, <2>4, <2>6, <3>7, <3>8, <3>9, <3>10, <3>11,
         <3>12, <3>13, <3>14, <3>15, WorkKeeps
  <2>7. QED
    BY <2>1, <2>5, <2>6
<1>10. CASE BucketFails
  <2>1. /\ pc = "loop"
        /\ coraza_fail_closed_response(ctx) \/ coraza_fail_closed_response(Counted)
    BY <1>10 DEF BucketFails
  <2>2. ctx.phase3_done
    BY <1>b, <2>1 DEF PhaseInv, FilterPCs
  <2>3. /\ Counted \in Contexts /\ Counted.drop_connection = ctx.drop_connection
        /\ Counted.headers_delayed = ctx.headers_delayed
        /\ Counted.pending = ctx.pending /\ Counted.phase3_done
    BY <2>2, CountedFields
  <2>4. QED
    BY <1>0, <1>a, <2>1, <2>2, <2>3, FailClosedResponseKeeps
<1>11. CASE ProcessResponseBody
  <2> DEFINE c == [ctx EXCEPT !.phase4_done = TRUE]
             e == Ran(engine, 4)
             data == (IF ctx.headers_delayed THEN ctx.pending ELSE <<>>) \o bb.done
  <2>1. /\ pc = "loop" /\ pc \in FilterPCs /\ bb.todo = <<>> /\ bb.eos
        /\ \/ coraza_fail_closed_response(ctx)
           \/ FilterIntervenes(c, e, ctx.headers_delayed)
           \/ /\ PassOn(data, WithoutFilter)
              /\ ctx' = [c EXCEPT !.headers_delayed = FALSE,
                                  !.pending = IF ctx.headers_delayed THEN <<>> ELSE @]
              /\ engine' = e
              /\ UNCHANGED <<client, conn, hist>>
    BY <1>11 DEF ProcessResponseBody, ReleasedBody, FilterPCs
  <2>2. /\ c \in Contexts /\ c.phase3_done = ctx.phase3_done
        /\ c.headers_delayed = ctx.headers_delayed
        /\ c.pending = ctx.pending /\ c.drop_connection = ctx.drop_connection
        /\ c.intervention_triggered = ctx.intervention_triggered
    BY <1>a DEF Contexts
  <2>3. /\ e \in Engines /\ e.headersOf = engine.headersOf /\ e.ran[4] = engine.ran[4] + 1
        /\ e.ran[1] = engine.ran[1] /\ e.ran[2] = engine.ran[2] /\ e.ran[3] = engine.ran[3]
        /\ e.seen = engine.seen
    BY <1>a, RanFields
  <2>4. /\ ctx.phase3_done /\ engine.ran[3] = 1 /\ engine.ran[4] = 0 /\ ~Denied
        /\ ~conn.aborted /\ engine.headersOf = Len(reqs)
        /\ ctx.headers_delayed => Blank
        /\ ~ctx.headers_delayed => hist.route = "nodelay" /\ ctx.pending = <<>>
        /\ ctx.headers_delayed => AllSeen(ctx.pending) /\ AllSeen(bb.done)
        /\ ctx.headers_delayed => ~client.header_only
    BY <1>b, <2>1, FilterWhere DEF PhaseInv, RouteInv, SeenInv
  <2>5. /\ \A p \in 1..4 : e.ran[p] <= 1
        /\ e.ran[2] <= e.ran[1] /\ e.ran[4] <= e.ran[3] /\ e.headersOf <= Len(reqs)
    <3>1. \A p \in 1..4 : p = 1 \/ p = 2 \/ p = 3 \/ p = 4
      OBVIOUS
    <3>2. QED
      BY <1>a, <1>g, <2>3, <2>4, <3>1, ZenonT(40), SMTT(40)
  <2>6. CASE coraza_fail_closed_response(ctx)
    BY <1>0, <1>a, <2>1, <2>4, <2>6, FailClosedResponseKeeps
  <2>7. CASE FilterIntervenes(c, e, ctx.headers_delayed)
    <3> HIDE DEF c, e
    <3>1. QED
      BY <1>0, <2>1, <2>2, <2>3, <2>4, <2>5, <2>7, FilterIntervenesResponse
  <2>8. m + Len(bb.done) = req.passed
    <3>1. Len(bb.todo) = 0
      BY <2>1
    <3>2. m + Len(bb.done) + 0 = req.passed
      BY <1>e, <3>1
    <3>3. Len(bb.done) \in Nat /\ m \in Nat
      BY <1>a, <1>e
    <3>4. QED
      BY <3>2, <3>3
  <2>9. CASE /\ PassOn(data, WithoutFilter)
             /\ ctx' = [c EXCEPT !.headers_delayed = FALSE,
                                 !.pending = IF ctx.headers_delayed THEN <<>> ELSE @]
             /\ engine' = e
             /\ UNCHANGED <<client, conn, hist>>
    <3>1. PICK k \in Nat : /\ data \in Seq(Buckets) /\ Run(data, Len(reqs), k)
                           /\ k + Len(data) = req.passed /\ Shown(k)
                           /\ ctx.headers_delayed => AllSeen(data)
      <4>1. CASE ctx.headers_delayed
        <5>1. Len(ctx.pending) = m /\ Run(ctx.pending, Len(reqs), 0)
          BY <1>e, <4>1 DEF Gone
        <5>2. 0 + Len(ctx.pending) = m
          BY <1>e, <5>1
        <5> DEFINE pd == ctx.pending \o bb.done
        <5>3. pd \in Seq(Buckets) /\ Run(pd, Len(reqs), 0) /\ Len(pd) = m + Len(bb.done)
          BY <1>a, <1>e, <5>1, <5>2, RunConcat
        <5>4. AllSeen(pd)
          BY <1>a, <2>4, <4>1, SeenConcat
        <5>5. data = pd
          BY <4>1
        <5> HIDE DEF pd, data
        <5>6. 0 + Len(pd) = req.passed /\ Shown(0)
          BY <1>a, <2>4, <2>8, <4>1, <5>3 DEF Shown
        <5>7. QED
          BY <5>3, <5>4, <5>5, <5>6
      <4>2. CASE ~ctx.headers_delayed
        <5>1. data = bb.done
          <6>1. \A s \in Seq(Buckets) : <<>> \o s = s
            OBVIOUS
          <6>2. QED
            BY <1>a, <4>2, <6>1
        <5> HIDE DEF data
        <5>2. Shown(m)
          BY <1>e, <2>4, <4>2, GoneShown
        <5>3. QED
          BY <1>a, <1>e, <2>8, <4>2, <5>1, <5>2
      <4>3. QED
        BY <4>1, <4>2
    <3> HIDE DEF data
    <3>2. /\ pc' = "log" /\ Len(reqs') = Len(reqs)
          /\ \A i \in 1..Len(reqs) :
               reqs'[i].hasCtx = reqs[i].hasCtx /\ reqs'[i].passed = reqs[i].passed
          /\ wire'.hdr = Len(reqs) /\ Run(wire'.body, Len(reqs), 0)
          /\ client.header_only => wire'.body = <<>>
          /\ client.header_only \/ Len(wire'.body) = req'.passed
          /\ Blank /\ ~client.header_only => wire'.body = data
      BY <1>c, <2>1, <2>4, <2>9, <3>1, PassOnOutcome
    <3> HIDE DEF c, e
    <3>3. /\ ctx'.phase3_done = ctx.phase3_done /\ ~ctx'.headers_delayed
          /\ ctx'.pending = <<>> /\ ctx'.drop_connection = ctx.drop_connection
          /\ ctx'.intervention_triggered = ctx.intervention_triggered
      BY <2>2, <2>4, <2>9 DEF Contexts
    <3>4. Denied' <=> Denied
      BY <3>3 DEF Denied
    <3>5. PhasesKept
      BY <1>h, <2>4, <2>5, <2>9, <3>2, <3>3 DEF PhasesOnceInOrder
    <3>6. hist'.route = "held" => engine'.ran[4] = 1 /\ AllSeen(wire.body)'
      <4>1. hist'.route = "held" => wire'.body = data /\ AllSeen(data)
        BY <2>4, <2>9, <3>1, <3>2
      <4>2. hist'.route = "held" => AllSeen(wire.body)'
        BY <2>3, <2>9, <4>1 DEF AllSeen
      <4>3. QED
        BY <2>3, <2>4, <2>9, <4>2
    <3>7. QED
      BY <1>0, <1>c, <2>3, <2>4, <2>9, <3>2, <3>3, <3>4, <3>5, <3>6, PassedOn
  <2>10. QED
    BY <2>1, <2>6, <2>7, <2>9
<1>12. CASE EndOfBrigade
  <2>1. /\ pc = "loop" /\ pc \in FilterPCs /\ bb.todo = <<>> /\ ~bb.eos
        /\ \/ coraza_fail_closed_response(ctx)
           \/ /\ ctx.headers_delayed
              /\ ctx' = [ctx EXCEPT !.pending = @ \o bb.done]
              /\ pc' = "handler"
              /\ UNCHANGED <<client, reqs, conn, wire, engine, hist>>
           \/ /\ ~ctx.headers_delayed
              /\ PassOn(bb.done, reqs)
              /\ UNCHANGED <<client, ctx, conn, engine, hist>>
    BY <1>12 DEF EndOfBrigade, FilterPCs
  <2>2. /\ ctx.phase3_done /\ engine.ran[3] = 1 /\ engine.ran[4] = 0 /\ ~Denied
        /\ ~conn.aborted /\ engine.headersOf = Len(reqs) /\ Watched
        /\ ctx.headers_delayed => Blank
        /\ ~ctx.headers_delayed => hist.route = "nodelay" /\ ctx.pending = <<>>
        /\ ctx.headers_delayed => AllSeen(ctx.pending) /\ AllSeen(bb.done)
        /\ ctx.headers_delayed => ~client.header_only /\ ctx.response_body_processable
        /\ req.passed > 0
    BY <1>b, <1>c, <2>1, FilterWhere DEF PhaseInv, RouteInv, SeenInv, FlowInv
  <2>3. m + Len(bb.done) = req.passed
    <3>1. Len(bb.todo) = 0
      BY <2>1
    <3>2. m + Len(bb.done) + 0 = req.passed
      BY <1>e, <3>1
    <3>3. Len(bb.done) \in Nat /\ m \in Nat
      BY <1>a, <1>e
    <3>4. QED
      BY <3>2, <3>3
  <2>4. CASE coraza_fail_closed_response(ctx)
    BY <1>0, <1>a, <2>1, <2>2, <2>4, FailClosedResponseKeeps
  <2>5. CASE /\ ctx.headers_delayed
             /\ ctx' = [ctx EXCEPT !.pending = @ \o bb.done]
             /\ pc' = "handler"
             /\ UNCHANGED <<client, reqs, conn, wire, engine, hist>>
    <3>1. Len(ctx.pending) = m /\ Run(ctx.pending, Len(reqs), 0)
      BY <1>e, <2>5 DEF Gone
    <3>2. 0 + Len(ctx.pending) = m
      BY <1>e, <3>1
    <3> DEFINE pd == ctx.pending \o bb.done
    <3>3. pd \in Seq(Buckets) /\ Run(pd, Len(reqs), 0) /\ Len(pd) = m + Len(bb.done)
      BY <1>a, <1>e, <3>1, <3>2, RunConcat
    <3>4. AllSeen(pd)
      BY <1>a, <2>2, <2>5, SeenConcat
    <3>5. ctx' = [ctx EXCEPT !.pending = pd]
      BY <2>5
    <3> HIDE DEF pd
    <3>6. /\ ctx'.headers_delayed /\ ctx'.pending = pd /\ ctx'.phase3_done
          /\ ctx'.drop_connection = ctx.drop_connection
          /\ ctx'.response_body_processable
          /\ ctx'.intervention_triggered = ctx.intervention_triggered
      BY <1>a, <2>2, <2>5, <3>3, <3>5 DEF Contexts
    <3>7. req' = req /\ Len(reqs') = Len(reqs) /\ ~Denied'
      BY <2>2, <2>5, <3>6 DEF req, cur, Denied
    <3>8. Gone(req.passed)'
      BY <2>3, <3>3, <3>6, <3>7 DEF Gone, Run
    <3>9. AllSeen(ctx.pending)'
      BY <2>5, <3>4, <3>6 DEF AllSeen
    <3>10. PhaseInv'
      <4>1. Inspected' /\ PhasesOnceInOrder'
        BY <1>f, <1>i, <2>5 DEF Inspected
      <4>2. QED
        BY <2>5, <3>6, <4>1 DEF PhaseInv, HookPCs, FilterPCs
    <3>11. RouteInv'
      BY <1>b, <1>f, <2>1, <2>2, <2>5, <3>6, <3>7 DEF RouteInv, Watched, Blank, FilterPCs
    <3>12. QED
      BY <1>0, <1>c, <1>g, <2>2, <2>5, <3>6, <3>7, <3>8, <3>9, <3>10, <3>11, WorkKeeps
      DEF FilterPCs
  <2>6. CASE /\ ~ctx.headers_delayed
             /\ PassOn(bb.done, reqs)
             /\ UNCHANGED <<client, ctx, conn, engine, hist>>
    <3>1. Shown(m)
      BY <1>e, <2>2, <2>6, GoneShown
    <3>2. /\ pc' \in {"log", "handler"} /\ Len(reqs') = Len(reqs)
          /\ \A i \in 1..Len(reqs) :
               reqs'[i].hasCtx = reqs[i].hasCtx /\ reqs'[i].passed = reqs[i].passed
          /\ pc' = "handler" => req'.passed > 0
          /\ wire'.hdr = Len(reqs) /\ Run(wire'.body, Len(reqs), 0)
          /\ client.header_only => wire'.body = <<>>
          /\ client.header_only \/ Len(wire'.body) = req'.passed
      BY <1>a, <1>c, <1>e, <2>2, <2>3, <2>6, <3>1, PassOnOutcome
    <3>3. Denied' <=> Denied
      BY <2>6 DEF Denied
    <3>4. PhasesKept
      BY <1>h, <1>i, <2>6, <3>2
    <3>5. QED
      BY <1>0, <1>c, <2>2, <2>6, <3>2, <3>3, <3>4, PassedOn
  <2>7. QED
    BY <2>1, <2>4, <2>5, <2>6
<1>13. QED
  BY <1>1, <1>2, <1>3, <1>4, <1>5, <1>6, <1>7, <1>8, <1>9, <1>10, <1>11, <1>12
  DEF OutputFilter

---------------------------------------------------------------------------
(* A step that touches nothing the response depends on.                    *)
LEMMA SameResponse ==
    ASSUME TypeOK, TypeOK', ResponseInv, UNCHANGED <<client, bb, conn, wire, hist>>,
           pc' = pc \/ (pc = "log" /\ pc' = "done"),
           ctx'.headers_delayed = ctx.headers_delayed, ctx'.pending = ctx.pending,
           ctx'.phase3_done = ctx.phase3_done,
           ctx'.intervention_triggered = ctx.intervention_triggered,
           ctx'.response_body_processable = ctx.response_body_processable,
           ctx'.drop_connection = ctx.drop_connection,
           engine'.ran = engine.ran, engine'.seen = engine.seen,
           engine'.headersOf = engine.headersOf, Len(reqs') = Len(reqs),
           \A i \in 1..Len(reqs) : /\ reqs'[i].hasCtx = reqs[i].hasCtx
                                   /\ reqs'[i].passed = reqs[i].passed
                                   /\ reqs'[i].outFilter = reqs[i].outFilter
    PROVE  ResponseInv'
<1>0. /\ Len(reqs) \in Nat /\ Len(reqs) >= 1 /\ req = reqs[Len(reqs)]
      /\ req' = reqs'[Len(reqs')] /\ wire.hdr \in Nat
  BY Sizes DEF req, cur
<1>1. /\ WireInv /\ DropInv /\ PhaseInv /\ RouteInv /\ FlowInv /\ SeenInv /\ EndInv
  BY DEF ResponseInv
<1>2. /\ req'.hasCtx = req.hasCtx /\ req'.passed = req.passed /\ req'.outFilter = req.outFilter
  BY <1>0
<1>3. (Inspected' <=> Inspected) /\ (Denied' <=> Denied) /\ (Blank' <=> Blank)
  BY DEF Inspected, Denied, Blank
<1>4. WireInv'
  BY <1>1, <1>3 DEF WireInv, HookPCs, Run
<1>5. DropInv'
  BY <1>1, <1>3 DEF DropInv
<1>6. PhaseInv'
  <2>1. PhasesOnceInOrder'
    BY <1>1 DEF PhaseInv, PhasesOnceInOrder
  <2>2. QED
    BY <1>1, <1>3, <2>1 DEF PhaseInv, HookPCs, FilterPCs
<1>7. RouteInv'
  BY <1>1, <1>2, <1>3 DEF RouteInv, FilterPCs, Watched
<1>8. \A m : (Gone(m)' <=> Gone(m)) /\ (Brigade(m)' <=> Brigade(m))
  BY <1>2, <1>3 DEF Gone, Brigade, Run
<1>9. FlowInv'
  <2>1. \A i \in 1..(Len(reqs') - 1) : reqs'[i].passed = 0 \/ i = hist'.denied
    BY <1>0, <1>1 DEF FlowInv
  <2>2. pc' = "handler" => Gone(req.passed)'
    BY <1>1, <1>2, <1>8 DEF FlowInv
  <2>3. pc' \in {"filter"} \cup FilterPCs => \E m \in 0..req'.passed : Brigade(m)'
    BY <1>1, <1>2, <1>8 DEF FlowInv, FilterPCs
  <2>4. /\ pc' \in {"phase4", "delay"} \/ (pc' = "filter" /\ ~ctx'.phase3_done) => Brigade(0)'
    BY <1>1, <1>8 DEF FlowInv
  <2>5. QED
    BY <1>1, <1>2, <1>3, <2>1, <2>2, <2>3, <2>4 DEF FlowInv, HookPCs, FilterPCs
<1>10. SeenInv'
  <2>1. /\ AllSeen(ctx.pending)' <=> AllSeen(ctx.pending)
        /\ AllSeen(bb.done)' <=> AllSeen(bb.done)
        /\ AllSeen(wire.body)' <=> AllSeen(wire.body)
    BY DEF AllSeen
  <2>2. QED
    BY <1>1, <1>3, <2>1 DEF SeenInv
<1>11. EndInv'
  <2>1. wire.hdr # 0 => wire.hdr \in 1..Len(reqs)
    BY <1>0, <1>1 DEF WireInv
  <2>2. wire'.hdr # 0 => /\ reqs'[wire'.hdr].hasCtx = reqs[wire.hdr].hasCtx
                         /\ reqs'[wire'.hdr].passed = reqs[wire.hdr].passed
    BY <2>1
  <2>3. QED
    BY <1>1, <1>3, <2>2 DEF EndInv
<1>12. QED
  BY <1>4, <1>5, <1>6, <1>7, <1>9, <1>10, <1>11 DEF ResponseInv

(* The handler stops after the filter has cut its response short.          *)
LEMMA StopKeeps ==
    ASSUME TypeOK, TypeOK', ResponseInv, pc = "filter_error", pc' = "log",
           UNCHANGED <<client, reqs, ctx, conn, engine, hist>>,
           \/ wire' = wire
           \/ ~conn.aborted /\ wire'.body = wire.body
              /\ wire'.hdr = IF wire.hdr = 0 THEN Len(reqs) ELSE wire.hdr
    PROVE  ResponseInv'
<1>0. Len(reqs) \in Nat /\ Len(reqs) >= 1 /\ wire.hdr \in Nat
  BY Sizes
<1>1. /\ WireInv /\ DropInv /\ PhaseInv /\ RouteInv /\ FlowInv /\ SeenInv /\ EndInv
  BY DEF ResponseInv
<1>2. /\ Denied /\ Denied' /\ hist.denied = Len(reqs)
      /\ conn.aborted \/ hist.route = "nodelay"
      /\ ~ctx.headers_delayed
  BY <1>1 DEF DropInv, RouteInv, Denied
<1>3. Inspected' <=> Inspected
  BY DEF Inspected
<1>4. WireInv'
  <2>1. wire.hdr = 0 => Run(wire.body, Len(reqs), 0)
    BY <1>1, RunEmpty DEF WireInv
  <2>2. QED
    BY <1>0, <1>1, <2>1 DEF WireInv, HookPCs, Run
<1>5. DropInv'
  BY <1>1, <1>2, <1>3 DEF DropInv, Blank
<1>6. PhaseInv'
  <2>1. PhasesOnceInOrder'
    BY <1>1 DEF PhaseInv, PhasesOnceInOrder
  <2>2. QED
    BY <1>1, <1>3, <2>1 DEF PhaseInv, HookPCs, FilterPCs
<1>7. RouteInv'
  BY <1>1, <1>2 DEF RouteInv
<1>8. FlowInv'
  BY <1>1 DEF FlowInv, HookPCs, FilterPCs
<1>9. SeenInv'
  BY <1>1, <1>2 DEF SeenInv
<1>10. EndInv'
  BY <1>2 DEF EndInv
<1>11. QED
  BY <1>4, <1>5, <1>6, <1>7, <1>8, <1>9, <1>10 DEF ResponseInv

(* The handler gives the filter the next buckets.                          *)
LEMMA FilterGets ==
    ASSUME TypeOK, TypeOK', ResponseInv, pc = "handler", pc' = "filter",
           UNCHANGED <<client, ctx, conn, wire, engine, hist>>,
           req.outFilter, req'.outFilter, Len(reqs') = Len(reqs),
           \A i \in 1..Len(reqs) : /\ reqs'[i].hasCtx = reqs[i].hasCtx
                                   /\ i # Len(reqs) => reqs'[i].passed = reqs[i].passed,
           bb'.done = <<>>, ~bb'.err, bb'.eos \/ Len(bb'.todo) > 0,
           Run(bb'.todo, Len(reqs), req.passed), req'.passed = req.passed + Len(bb'.todo)
    PROVE  ResponseInv'
<1>0. /\ Len(reqs) \in Nat /\ Len(reqs) >= 1 /\ req = reqs[Len(reqs)]
      /\ req' = reqs'[Len(reqs)] /\ wire.hdr \in Nat /\ req.passed \in Nat
  BY Sizes DEF req, cur
<1>1. /\ WireInv /\ DropInv /\ PhaseInv /\ RouteInv /\ FlowInv /\ SeenInv /\ EndInv
  BY DEF ResponseInv
<1>2. Inspected' <=> Inspected
  BY DEF Inspected
<1>3. /\ Gone(req.passed)
      /\ req.passed > 0 => ctx.phase3_done /\ ~Denied
      /\ (Denied' <=> Denied) /\ (Blank' <=> Blank)
  BY <1>1 DEF FlowInv, Denied, Blank
<1>4. WireInv'
  BY <1>1 DEF WireInv, HookPCs, Run
<1>5. DropInv'
  BY <1>1, <1>2, <1>3 DEF DropInv
<1>6. PhaseInv'
  <2>1. PhasesOnceInOrder'
    BY <1>1 DEF PhaseInv, PhasesOnceInOrder
  <2>2. QED
    BY <1>1, <1>2, <2>1 DEF PhaseInv, HookPCs, FilterPCs
<1>7. RouteInv'
  BY <1>1, <1>3 DEF RouteInv, Watched
<1>8. FlowInv'
  <2>0. PICK p \in Nat : p = req.passed
    BY <1>0
  <2> DEFINE t == bb'.todo
  <2>1. p \in Nat /\ Len(t) \in Nat /\ req'.passed = p + Len(t)
    <3>1. t \in Seq(Buckets)
      BY TypeOKPartsPrime DEF Brigades
    <3>2. QED
      BY <2>0, <3>1
  <2>2. Gone(p)'
    BY <1>3, <2>0 DEF Gone, Run, Blank
  <2>3. Run(t, Len(reqs), p)
    BY <2>0
  <2> HIDE DEF t
  <2>4. p + 0 = p /\ p + 0 + Len(t) = p + Len(t) /\ p \in 0..(p + Len(t))
    BY <2>1
  <2>5. Run(bb.done, Len(reqs), p)' /\ Len(bb'.done) = 0
    BY DEF Run
  <2>6. /\ Run(bb.todo, Len(reqs), p + Len(bb.done))'
        /\ p + Len(bb'.done) + Len(bb'.todo) = req'.passed
    BY <2>1, <2>3, <2>4, <2>5 DEF t, Run
  <2>7. Gone(p)' /\ p \in 0..req'.passed
    BY <2>1, <2>2, <2>4
  <2>8. \E m \in 0..req'.passed : Brigade(m)'
    <3>1. Brigade(p)'
      BY <2>5, <2>6, <2>7 DEF Brigade
    <3>2. QED
      BY <2>7, <3>1
  <2>9. ~ctx'.phase3_done => Brigade(0)'
    <3>1. ~ctx'.phase3_done => p = 0
      BY <1>0, <1>3, <2>0
    <3>2. QED
      BY <2>5, <2>6, <2>7, <3>1 DEF Brigade
  <2>10. bb'.eos \/ req'.passed > 0
    BY <2>1 DEF t
  <2>11. \A i \in 1..(Len(reqs') - 1) : reqs'[i].passed = 0 \/ i = hist'.denied
    BY <1>0, <1>1 DEF FlowInv
  <2>12. QED
    BY <2>8, <2>9, <2>10, <2>11 DEF FlowInv, HookPCs, FilterPCs
<1>9. SeenInv'
  BY <1>1, <1>3 DEF SeenInv, AllSeen
<1>10. EndInv'
  <2>1. wire.hdr # 0 /\ ~Denied =>
          engine.headersOf = wire.hdr /\ wire.hdr = Len(reqs)
    BY <1>0, <1>1, <1>3 DEF Gone, RouteInv, Blank
  <2>2. QED
    BY <1>3, <2>1 DEF EndInv
<1>11. QED
  BY <1>4, <1>5, <1>6, <1>7, <1>8, <1>9, <1>10 DEF ResponseInv

(* What the handler and httpd around it do, when no upstream breaks late.  *)
LEMMA HandlerResponse ==
    ASSUME TypeOK, IInv, ResponseInv, ~LateErrors, Handler
    PROVE  ResponseInv'
<1>0. TypeOK'
  BY HandlerType
<1>a. /\ Len(reqs) \in Nat /\ Len(reqs) >= 1 /\ Len(reqs) \in 1..MaxReqs
      /\ req = reqs[Len(reqs)] /\ cur = Len(reqs) /\ req \in Requests
      /\ wire.hdr \in Nat /\ wire.body \in Seq(Buckets)
  BY Sizes
<1>b. /\ WireInv /\ DropInv /\ PhaseInv /\ RouteInv /\ FlowInv /\ SeenInv /\ EndInv
  BY DEF ResponseInv
<1>c. \A status \in HandlerErrors : status \in Nat
  BY HandlerErrorsAssumption
<1>d. pc = "handler" /\ req.passed = 0 =>
        Blank /\ ~ctx.headers_delayed /\ (ctx.phase3_done => Denied)
  <2> SUFFICES ASSUME pc = "handler", req.passed = 0
               PROVE  Blank /\ ~ctx.headers_delayed /\ (ctx.phase3_done => Denied)
    OBVIOUS
  <2>1. (ctx.phase3_done => Denied) /\ Gone(0)
    BY <1>b DEF FlowInv
  <2>2. ~ctx.headers_delayed
    BY <1>b, <2>1 DEF RouteInv
  <2>3. QED
    BY <2>1, <2>2 DEF Gone
<1>1. CASE EarlierHookFails
  <2>1. PICK status \in HandlerErrors : ReturnStatus(status)
    BY <1>1 DEF EarlierHookFails
  <2>2. pc = "fixups" /\ UNCHANGED <<client, ctx, conn, engine, hist>>
    BY <1>1 DEF EarlierHookFails
  <2>3. Blank /\ ~ctx.headers_delayed /\ req.passed = 0 /\ (ctx.phase3_done => Denied)
    BY <1>b, <2>2 DEF WireInv, RouteInv, FlowInv, FilterPCs
  <2>4. QED
    BY <1>0, <1>c, <2>1, <2>2, <2>3, ErrorKeeps
<1>2. CASE HandlerReads
  BY <1>0, <1>2, SameResponse DEF HandlerReads
<1>3. CASE HandlerSetsStatus
  <2>1. PICK status \in HandlerErrors : reqs' = ThisRequest([req EXCEPT !.status = status])
    BY <1>3 DEF HandlerSetsStatus
  <2> DEFINE f == [req EXCEPT !.status = status]
  <2>2. /\ f \in Requests /\ f.first = req.first /\ f.hasCtx = req.hasCtx
        /\ f.passed = req.passed /\ f.outFilter = req.outFilter
    BY <1>a, <1>c DEF Requests
  <2> HIDE DEF f
  <2>3. /\ Len(reqs') = Len(reqs) /\ reqs'[Len(reqs)] = f
        /\ \A i \in 1..Len(reqs) : i # Len(reqs) => reqs'[i] = reqs[i]
    BY <2>1, <2>2, TypeOKParts, ThisRequestType DEF f
  <2>4. \A i \in 1..Len(reqs) : /\ reqs'[i].hasCtx = reqs[i].hasCtx
                                /\ reqs'[i].passed = reqs[i].passed
                                /\ reqs'[i].outFilter = reqs[i].outFilter
    BY <1>a, <2>2, <2>3
  <2>5. UNCHANGED <<pc, client, ctx, bb, conn, wire, engine, hist>>
    BY <1>3 DEF HandlerSetsStatus
  <2>6. QED
    BY <1>0, <2>3, <2>4, <2>5, SameResponse
<1>4. CASE HandlerPasses
  <2> DEFINE Data(k) == [i \in 1..k |-> [req |-> cur, n |-> req.passed + i]]
             f(k, eos) == [req EXCEPT !.passed = @ + k, !.eos_sent = eos]
             next(eos) == IF eos THEN "log" ELSE "handler"
  <2>1. PICK k \in 0..(MaxChunks - req.passed), eos \in BOOLEAN :
          /\ k > 0 \/ eos
          /\ \/ /\ req.outFilter
                /\ bb' = [EmptyBrigade EXCEPT !.todo = Data(k), !.eos = eos, !.err = FALSE]
                /\ reqs' = ThisRequest(f(k, eos))
                /\ pc' = "filter"
                /\ wire' = wire
             \/ /\ ~req.outFilter
                /\ PassBrigade(FALSE, Data(k), ThisRequest(f(k, eos)), next(eos))
    <3>1. PICK k \in 0..(MaxChunks - req.passed), eos \in BOOLEAN, err \in BOOLEAN :
            /\ k > 0 \/ eos
            /\ err => LateErrors /\ eos
            /\ \/ /\ req.outFilter
                  /\ bb' = [EmptyBrigade EXCEPT !.todo = Data(k), !.eos = eos, !.err = err]
                  /\ reqs' = ThisRequest(f(k, eos))
                  /\ pc' = "filter"
                  /\ wire' = wire
               \/ /\ ~req.outFilter
                  /\ PassBrigade(err, Data(k), ThisRequest(f(k, eos)), next(eos))
      BY <1>4 DEF HandlerPasses
    <3> HIDE DEF Data, f, next
    <3>2. err = FALSE
      BY <3>1
    <3>3. QED
      BY <3>1, <3>2
  <2>2. pc = "handler" /\ UNCHANGED <<client, ctx, conn, engine, hist>>
    BY <1>4 DEF HandlerPasses
  <2>3. PICK p \in Nat : p = req.passed
    BY <1>a, BoundsAssumption DEF Requests
  <2>4. k \in Nat /\ p + k \in 0..MaxChunks
    BY <1>a, <2>3, BoundsAssumption DEF Requests
  <2> DEFINE data == Data(k)
             g == f(k, eos)
  <2>5. /\ data \in Seq(Buckets) /\ Len(data) = k /\ Run(data, Len(reqs), p)
    <3>1. \A i \in 1..k : [req |-> cur, n |-> p + i] \in Buckets
      <4>1. ASSUME NEW i \in 1..k
            PROVE  p + i \in 0..MaxChunks
        BY <2>4, BoundsAssumption
      <4>2. QED
        BY <1>a, <4>1 DEF Buckets
    <3> DEFINE d == [i \in 1..k |-> [req |-> cur, n |-> p + i]]
    <3>2. data = d
      BY <2>3
    <3>3. d \in Seq(Buckets) /\ Len(d) = k /\ Run(d, cur, p)
      BY <2>4, <3>1, RunMade, ZenonT(40), SMTT(40)
    <3> HIDE DEF data, d
    <3>4. QED
      BY <1>a, <3>2, <3>3
  <2>6. /\ g \in Requests /\ g.first = req.first /\ g.hasCtx = req.hasCtx
        /\ g.passed = p + k /\ g.outFilter = req.outFilter
    BY <1>a, <2>3, <2>4 DEF Requests
  <2> HIDE DEF Data, f
  <2>7. /\ ChainOK(ThisRequest(g)) /\ Len(ThisRequest(g)) = Len(reqs)
        /\ ThisRequest(g)[Len(reqs)] = g
        /\ \A i \in 1..Len(reqs) : i # Len(reqs) => ThisRequest(g)[i] = reqs[i]
    BY <2>6, TypeOKParts, ThisRequestType
  <2>8. CASE /\ req.outFilter
             /\ bb' = [EmptyBrigade EXCEPT !.todo = data, !.eos = eos, !.err = FALSE]
             /\ reqs' = ThisRequest(g)
             /\ pc' = "filter"
             /\ wire' = wire
    <3> HIDE DEF data, g
    <3>1. /\ bb'.done = <<>> /\ bb'.todo = data /\ ~bb'.err /\ bb'.eos = eos
      BY <2>8 DEF EmptyBrigade
    <3>2. /\ Len(reqs') = Len(reqs) /\ req' = g
          /\ \A i \in 1..Len(reqs) : /\ reqs'[i].hasCtx = reqs[i].hasCtx
                                     /\ i # Len(reqs) => reqs'[i].passed = reqs[i].passed
      BY <1>a, <2>6, <2>7, <2>8 DEF req, cur
    <3>3. bb'.eos \/ Len(bb'.todo) > 0
      BY <2>1, <2>5, <3>1
    <3>4. Run(bb'.todo, Len(reqs), req.passed) /\ req'.passed = req.passed + Len(bb'.todo)
      BY <2>3, <2>5, <2>6, <3>1, <3>2
    <3>5. req'.outFilter
      BY <2>6, <2>8, <3>2
    <3>6. QED
      BY <1>0, <2>2, <2>8, <3>1, <3>2, <3>3, <3>4, <3>5, FilterGets
  <2>9. CASE /\ ~req.outFilter
             /\ PassBrigade(FALSE, data, ThisRequest(g), next(eos))
    <3>1. next(eos) \in {"log", "handler"} /\ (next(eos) = "handler" => ~eos)
      OBVIOUS
    <3> HIDE DEF data, g, next
    <3>2. /\ wire' = Sent(Len(reqs), g.status, data) /\ reqs' = ThisRequest(g)
          /\ pc' = next(eos)
      BY <2>7, <2>9 DEF PassBrigade
    <3>3. ~ctx.headers_delayed /\ ctx.pending = <<>> /\ Gone(p)
      BY <1>b, <2>2, <2>3, <2>9 DEF RouteInv, FlowInv
    <3>4. /\ Len(reqs') = Len(reqs) /\ req' = g
          /\ \A i \in 1..Len(reqs) : /\ reqs'[i].hasCtx = reqs[i].hasCtx
                                     /\ i # Len(reqs) => reqs'[i].passed = reqs[i].passed
      BY <1>a, <2>6, <2>7, <3>2 DEF req, cur
    <3>5. conn.aborted => wire' = wire
      BY <3>2 DEF Sent
    <3>6. ~conn.aborted => /\ wire'.hdr = Len(reqs) /\ Run(wire'.body, Len(reqs), 0)
                           /\ client.header_only => wire'.body = <<>>
                           /\ client.header_only \/ Len(wire'.body) = req'.passed
      <4> SUFFICES ASSUME ~conn.aborted
                   PROVE  /\ wire'.hdr = Len(reqs) /\ Run(wire'.body, Len(reqs), 0)
                          /\ client.header_only => wire'.body = <<>>
                          /\ client.header_only \/ Len(wire'.body) = req'.passed
        OBVIOUS
      <4>1. Shown(p)
        BY <3>3, GoneShown
      <4>2. client.header_only => wire.body = <<>>
        BY <1>b DEF WireInv
      <4> DEFINE w == Sent(Len(reqs), g.status, data)
      <4>3. /\ w.hdr = Len(reqs) /\ Run(w.body, Len(reqs), 0)
            /\ client.header_only => w.body = <<>>
            /\ client.header_only \/ Len(w.body) = p + Len(data)
        <5>1. /\ data \in Seq(Buckets) /\ Run(data, Len(reqs), p) /\ p \in Nat
              /\ Len(reqs) \in 1..MaxReqs
          BY <1>a, <2>5
        <5>2. \/ p = 0 /\ Blank
              \/ /\ wire.hdr = Len(reqs) /\ Run(wire.body, Len(reqs), 0)
                 /\ client.header_only \/ Len(wire.body) = p
          BY <4>1 DEF Shown
        <5>3. QED
          BY <4>2, <5>1, <5>2, SentRun
      <4> HIDE DEF w
      <4>4. wire' = w
        BY <3>2 DEF w
      <4>5. QED
        BY <2>5, <2>6, <3>4, <4>3, <4>4
    <3>7. pc' \in {"log", "handler"} /\ (pc' = "handler" => req'.passed > 0)
      BY <2>1, <2>4, <2>6, <3>1, <3>2, <3>4
    <3>8. PhasesKept
      <4>1. Inspected' <=> Inspected
        BY <3>4 DEF Inspected
      <4>2. QED
        BY <1>b, <2>2, <4>1 DEF PhasesKept, PhaseInv, PhasesOnceInOrder
    <3>9. ~Denied /\ req.hasCtx => engine.headersOf = Len(reqs)
      <4>1. p = 0 => ~req.hasCtx
        BY <1>b, <2>2, <2>3, <2>9 DEF FlowInv
      <4>2. p # 0 /\ ~Denied => wire.hdr = Len(reqs)
        BY <1>b, <3>3 DEF Gone, DropInv
      <4>3. QED
        BY <1>a, <1>b, <2>3, <4>1, <4>2 DEF EndInv
    <3>10. ~(hist'.route = "held" /\ ~Denied)
      BY <1>b, <2>2, <3>3 DEF SeenInv
    <3>11. (Denied' <=> Denied) /\ ~req'.outFilter
      BY <2>2, <2>6, <2>9, <3>4 DEF Denied
    <3>12. QED
      BY <1>0, <2>2, <3>3, <3>4, <3>5, <3>6, <3>7, <3>8, <3>9, <3>10, <3>11, PassedOn
  <2>10. QED
    BY <2>1, <2>8, <2>9
<1>5. CASE HandlerFails
  <2>1. PICK status \in HandlerErrors : ReturnStatus(status)
    BY <1>5 DEF HandlerFails
  <2>2. /\ pc = "handler" /\ req.passed = 0
        /\ UNCHANGED <<client, ctx, conn, engine, hist>>
    BY <1>5 DEF HandlerFails
  <2>3. QED
    BY <1>0, <1>c, <1>d, <2>1, <2>2, ErrorKeeps
<1>6. CASE HandlerRedirects
  <2>1. /\ pc = "handler" /\ req.passed = 0 /\ InternalRedirect(reqs)
        /\ UNCHANGED <<client, ctx, conn, engine, hist>>
    BY <1>6 DEF HandlerRedirects
  <2>2. Redirects(reqs, reqs[Len(reqs)].status)
    BY <2>1, TypeOKParts, RedirectOutcome
  <2>3. Len(reqs) \in 1..Len(reqs)
    BY <1>a
  <2>4. QED
    BY <1>0, <1>d, <2>1, <2>2, <2>3, AbandonedKeeps
<1>7. CASE HandlerStops
  <2>1. pc = "filter_error" /\ UNCHANGED <<client, ctx, conn, engine, hist>>
    BY <1>7 DEF HandlerStops
  <2>2. Denied /\ hist.denied = Len(reqs) /\ ~ctx.headers_delayed
    BY <1>b, <2>1 DEF DropInv, RouteInv
  <2>3. CASE /\ pc' = "log" /\ reqs' = reqs
             /\ wire' = wire \/ wire' = Sent(cur, req.status, <<>>)
    <3>1. wire.body \o <<>> = wire.body
      BY <1>a
    <3>2. \/ wire' = wire
          \/ ~conn.aborted /\ wire'.body = wire.body
             /\ wire'.hdr = IF wire.hdr = 0 THEN Len(reqs) ELSE wire.hdr
      BY <1>a, <2>3, <3>1 DEF Sent
    <3>3. QED
      BY <1>0, <2>1, <2>3, <3>2, StopKeeps
  <2>4. CASE wire.hdr = 0 /\ ReturnStatus(HTTP_INTERNAL_SERVER_ERROR)
    <3>1. Blank
      BY <1>b, <2>4 DEF WireInv, Blank
    <3>2. HTTP_INTERNAL_SERVER_ERROR \in Nat
      BY DEF HTTP_INTERNAL_SERVER_ERROR
    <3>3. QED
      BY <1>0, <2>1, <2>2, <2>4, <3>1, <3>2, ErrorKeeps
  <2>5. QED
    BY <1>7, <2>3, <2>4 DEF HandlerStops
<1>8. QED
  BY <1>1, <1>2, <1>3, <1>4, <1>5, <1>6, <1>7 DEF Handler

(* The audit entry changes nothing of the response.                        *)
LEMMA LogResponse ==
    ASSUME TypeOK, ResponseInv, coraza_log_transaction
    PROVE  ResponseInv'
<1>1. TypeOK'
  BY LogType
<1>2. /\ engine' = engine \/ engine' = coraza_process_logging(engine)
      /\ ctx' = [ctx EXCEPT !.logged = @ \/ Logs(reqs[1], ctx), !.transaction = FALSE]
      /\ pc = "log" /\ pc' = "done"
      /\ UNCHANGED <<client, reqs, bb, conn, wire, hist>>
  BY DEF coraza_log_transaction
<1>3. ctx \in Contexts /\ engine \in Engines
  BY TypeOKParts
<1>4. /\ engine'.ran = engine.ran /\ engine'.seen = engine.seen
      /\ engine'.headersOf = engine.headersOf
  BY <1>2, <1>3 DEF coraza_process_logging, Engines
<1>5. /\ ctx'.headers_delayed = ctx.headers_delayed /\ ctx'.pending = ctx.pending
      /\ ctx'.phase3_done = ctx.phase3_done
      /\ ctx'.intervention_triggered = ctx.intervention_triggered
      /\ ctx'.response_body_processable = ctx.response_body_processable
      /\ ctx'.drop_connection = ctx.drop_connection
  BY <1>2, <1>3 DEF Contexts
<1>6. QED
  BY <1>1, <1>2, <1>4, <1>5, SameResponse

---------------------------------------------------------------------------
(* The wire, the pending brigade, the brigade in the filter and the record *)
(* of the engine fit together in every state of every behaviour without    *)
(* late upstream errors.                                                   *)
THEOREM ResponseInvariance == ~LateErrors => (Spec => []ResponseInv)
<1> SUFFICES ASSUME ~LateErrors PROVE Spec => []ResponseInv
  OBVIOUS
<1>1. Init => ResponseInv
  <2> SUFFICES ASSUME Init PROVE ResponseInv
    OBVIOUS
  <2>1. PICK on \in BOOLEAN : reqs = <<NewRequest(on, HTTP_OK, 1)>>
    BY DEF Init
  <2>2. /\ Len(reqs) = 1 /\ req.passed = 0 /\ ~Inspected /\ cur = 1
    <3> DEFINE r == NewRequest(on, HTTP_OK, 1)
    <3>1. r.passed = 0 /\ ~r.hasCtx
      BY DEF NewRequest
    <3> HIDE DEF r
    <3>2. Len(reqs) = 1 /\ reqs[1] = r
      BY <2>1 DEF r
    <3>3. QED
      BY <3>1, <3>2 DEF req, cur, Inspected
  <2>3. /\ pc = "fixups" /\ Blank /\ ~Denied /\ ~ctx.phase3_done /\ ~ctx.headers_delayed
        /\ ctx.pending = <<>> /\ ~ctx.drop_connection
        /\ ~conn.aborted /\ hist.route = "none" /\ hist.denied = 0
        /\ engine.headersOf = 0 /\ \A p \in 1..4 : engine.ran[p] = 0
    BY DEF Init, Blank, Denied, FreshCtx, FreshEngine
  <2>4. WireInv
    BY <2>2, <2>3, RunEmpty DEF WireInv, Blank
  <2>5. DropInv
    BY <2>2, <2>3 DEF DropInv
  <2>6. PhaseInv
    BY <2>2, <2>3 DEF PhaseInv, PhasesOnceInOrder, HookPCs, FilterPCs
  <2>7. RouteInv
    BY <2>3 DEF RouteInv
  <2>8. FlowInv
    BY <2>2, <2>3 DEF FlowInv, HookPCs, FilterPCs
  <2>9. SeenInv
    BY <2>2, <2>3 DEF SeenInv
  <2>10. EndInv
    BY <2>2, <2>3 DEF EndInv, Blank
  <2>11. QED
    BY <2>4, <2>5, <2>6, <2>7, <2>8, <2>9, <2>10 DEF ResponseInv
<1>2. TypeOK /\ IInv /\ ResponseInv /\ [Next]_vars => ResponseInv'
  <2> SUFFICES ASSUME TypeOK, IInv, ResponseInv, [Next]_vars PROVE ResponseInv'
    OBVIOUS
  <2>1. CASE Fixups
    BY <2>1, FixupsResponse
  <2>2. CASE OutputFilter
    BY <2>2, OutputFilterResponse
  <2>3. CASE Handler
    BY <2>3, HandlerResponse
  <2>4. CASE coraza_log_transaction
    BY <2>4, LogResponse
  <2>5. CASE UNCHANGED vars
    <3>1. UNCHANGED <<pc, client, reqs, ctx, bb, conn, wire, engine, hist>>
      BY <2>5 DEF vars
    <3>2. TypeOK'
      BY <2>5, StutterType
    <3>3. QED
      BY <3>1, <3>2, SameResponse
  <2>6. QED
    BY <2>1, <2>2, <2>3, <2>4, <2>5 DEF Next, Done
<1>3. QED
  BY <1>1, <1>2, Invariance, PTL DEF Spec

(* The rules of a phase are evaluated at most once, and phase 2 not        *)
(* without phase 1, nor phase 4 without phase 3 (phase3_done, the return   *)
(* values of the hook).                                                    *)
THEOREM PhasesOnceInOrderHolds == ~LateErrors => (Spec => []PhasesOnceInOrder)
<1>1. ResponseInv => PhasesOnceInOrder
  BY DEF ResponseInv, PhaseInv
<1>2. QED
  BY <1>1, ResponseInvariance, PTL

(* coraza_drop_connection leaves nothing on the wire, unless the response  *)
(* was already streaming.                                                  *)
THEOREM DropIsSilentHolds == ~LateErrors => (Spec => []DropIsSilent)
<1>1. TypeOK /\ ResponseInv => DropIsSilent
  <2> SUFFICES ASSUME TypeOK, ResponseInv, ctx.drop_connection
               PROVE  /\ conn = [keepalive |-> "close", aborted |-> TRUE]
                      /\ wire.hdr = 0 \/ hist.route = "nodelay"
    BY DEF DropIsSilent
  <2>1. /\ conn.aborted /\ conn.keepalive = "close"
        /\ wire.hdr = 0 \/ hist.route = "nodelay"
    BY DEF ResponseInv, DropInv, Blank
  <2>2. conn \in [keepalive : {"unknown", "close"}, aborted : BOOLEAN]
    BY TypeOKParts
  <2>3. conn.aborted = TRUE
    BY <2>1, <2>2
  <2>4. QED
    BY <2>1, <2>2, <2>3
<1>2. QED
  BY <1>1, Invariance, ResponseInvariance, PTL

(* No byte of a denied response reaches the client while the response is   *)
(* held back (coraza_output_filter and its fail-closed paths).             *)
THEOREM DeniedBodyWithheldHolds == ~LateErrors => (Spec => []DeniedBodyWithheld)
<1>1. TypeOK /\ ResponseInv => DeniedBodyWithheld
  <2> SUFFICES ASSUME TypeOK, ResponseInv, hist.denied # 0, hist.route # "nodelay",
                      NEW i \in DOMAIN wire.body
               PROVE  wire.body[i].n = 0 \/ wire.body[i].req > hist.denied
    BY DEF DeniedBodyWithheld
  <2>1. /\ wire.body = <<>> \/ wire.body = Page(wire.hdr) \/ wire.hdr > hist.denied
        /\ wire.body = Page(wire.hdr) \/ Run(wire.body, wire.hdr, 0)
    BY DEF ResponseInv, DropInv, WireInv
  <2>2. i \in 1..Len(wire.body)
    BY Sizes
  <2>3. QED
    BY <2>1, <2>2 DEF Page, Run
<1>2. QED
  BY <1>1, Invariance, ResponseInvariance, PTL

(* A held response reaches the client only after the engine was given      *)
(* every byte of it and evaluated phase 4 (coraza_output_filter).          *)
THEOREM ReleasedAfterInspectionHolds ==
    ~LateErrors => (Spec => []ReleasedAfterInspection)
<1>1. TypeOK /\ ResponseInv => ReleasedAfterInspection
  <2> SUFFICES ASSUME TypeOK, ResponseInv, hist.route = "held",
                      NEW i \in DOMAIN wire.body, wire.body[i].n > 0,
                      wire.body[i].req = engine.headersOf
               PROVE  /\ engine.ran[4] = 1
                      /\ \E j \in DOMAIN engine.seen : engine.seen[j] = wire.body[i]
    BY DEF ReleasedAfterInspection
  <2>0. /\ WireInv /\ DropInv /\ RouteInv /\ SeenInv
    BY DEF ResponseInv
  <2>1. i \in 1..Len(wire.body) /\ wire.body # <<>>
    BY Sizes
  <2>2. ~ctx.headers_delayed
    BY <2>0, <2>1 DEF RouteInv, Blank
  <2>3. wire.body # Page(wire.hdr) /\ wire.body[i].req = wire.hdr
    BY <2>0, <2>1 DEF WireInv, Page, Run
  <2>4. ~Denied
    <3>1. Denied => wire.hdr > hist.denied /\ engine.headersOf <= hist.denied
      BY <2>0, <2>1, <2>3 DEF DropInv, SeenInv
    <3>2. wire.hdr \in Nat /\ hist.denied \in Nat /\ engine.headersOf \in Nat
      BY Sizes
    <3>3. QED
      BY <2>3, <3>1, <3>2
  <2>5. engine.ran[4] = 1 /\ AllSeen(wire.body)
    BY <2>0, <2>2, <2>4 DEF SeenInv
  <2>6. DOMAIN engine.seen = 1..Len(engine.seen)
    BY Sizes
  <2>7. QED
    BY <2>1, <2>5, <2>6 DEF AllSeen
<1>2. QED
  BY <1>1, Invariance, ResponseInvariance, PTL

(* The client gets one response, in order and without gaps, or one page    *)
(* (the brigades of the filter and ap_die).                                *)
THEOREM WireIsOneResponseHolds == ~LateErrors => (Spec => []WireIsOneResponse)
<1>1. TypeOK /\ ResponseInv => WireIsOneResponse
  <2> SUFFICES ASSUME TypeOK, ResponseInv, wire.body # Page(wire.hdr),
                      NEW i \in DOMAIN wire.body
               PROVE  wire.body[i] = [req |-> wire.hdr, n |-> i]
    BY DEF WireIsOneResponse
  <2>1. Run(wire.body, wire.hdr, 0)
    BY DEF ResponseInv, WireInv
  <2>2. wire.body \in Seq(Buckets)
    BY Sizes
  <2> DEFINE s == wire.body
  <2>3. s \in Seq(Buckets) /\ i \in 1..Len(s)
    BY <2>2
  <2>4. s[i].req = wire.hdr /\ s[i].n = 0 + i
    BY <2>1, <2>3 DEF Run
  <2> HIDE DEF s
  <2>5. s[i] \in Buckets /\ i \in Nat
    BY <2>3
  <2>6. s[i].n = i
    BY <2>4, <2>5
  <2>7. s[i] = [req |-> wire.hdr, n |-> i]
    BY <2>4, <2>5, <2>6 DEF Buckets
  <2>8. QED
    BY <2>7 DEF s
<1>2. QED
  BY <1>1, Invariance, ResponseInvariance, PTL

(* A response that was not denied is delivered whole (ctx->pending_brigade *)
(* is released or flushed on every path).                                  *)
THEOREM CompleteDeliveryHolds == ~LateErrors => (Spec => []CompleteDelivery)
<1>1. ResponseInv => CompleteDelivery
  BY DEF ResponseInv, DropInv, EndInv, CompleteDelivery
<1>2. QED
  BY <1>1, ResponseInvariance, PTL

(* Every request is answered, dropped on purpose, or cut short while it    *)
(* streamed.                                                               *)
THEOREM AnsweredOrDroppedHolds == ~LateErrors => (Spec => []AnsweredOrDropped)
<1>1. ResponseInv => AnsweredOrDropped
  BY DEF ResponseInv, EndInv, AnsweredOrDropped
<1>2. QED
  BY <1>1, ResponseInvariance, PTL

(* The response of an inspected handler has been through phase 3, however  *)
(* many internal redirects led to it.                                      *)
THEOREM ServedResponseInspectedHolds ==
    ~LateErrors => (Spec => []ServedResponseInspected)
<1>1. ResponseInv => ServedResponseInspected
  BY DEF ResponseInv, DropInv, EndInv, ServedResponseInspected
<1>2. QED
  BY <1>1, ResponseInvariance, PTL

---------------------------------------------------------------------------
(* The status the client of a denied request sees.                         *)
Enforced == engine.enforced = 1 /\ ~conn.aborted /\ hist.route # "nodelay"

(* Either the status of the denial or, for an error page of a page, the    *)
(* status of an earlier error of the chain.                                *)
Answered ==
    \/ wire.status = engine.status
    \/ /\ ~ctx.phase3_done \/ Len(reqs) > hist.denied
       /\ \E i \in 1..(hist.denied - 1) : wire.status = reqs[i].status

(* After the denial the ErrorDocument is served under its status, which    *)
(* every later request_rec inherits, and the error httpd walks back to     *)
(* began no later than at the denied request_rec.                          *)
StatusInv ==
    Enforced =>
        /\ pc \in {"fixups", "handler", "filter"} =>
             /\ reqs[Len(reqs)].status = engine.status /\ engine.status # HTTP_OK
             /\ reqs[Len(reqs)].first <= hist.denied
             /\ reqs[hist.denied].status = engine.status
             /\ wire.hdr # 0 => wire.status = engine.status
        /\ pc \in {"log", "done"} => Answered

(* What is sent is sent under the status given for it, unless the status   *)
(* line is gone.                                                           *)
LEMMA SentStatus ==
    ASSUME ~conn.aborted, NEW i, NEW status, NEW data
    PROVE  Sent(i, status, data).status = IF wire.hdr = 0 THEN status ELSE wire.status
  BY DEF Sent

(* The denial itself: a page or an ErrorDocument with the enforced status. *)
LEMMA DeathStatus ==
    ASSUME TypeOK, Blank, ~conn.aborted, NEW rs, ChainOK(rs), Len(rs) = Len(reqs),
           NEW status \in Nat \ {HTTP_OK}, NEW i \in 1..Len(reqs),
           Redirects(rs, status) \/ Pages(rs, i, status),
           engine'.status = status, hist'.denied = Len(reqs),
           i # Len(reqs) => ~ctx'.phase3_done
    PROVE  StatusInv'
<1>0. Len(reqs) \in Nat /\ Len(reqs) >= 1
  BY Sizes
<1>1. CASE Redirects(rs, status)
  <2>1. /\ pc' = "fixups" /\ wire'.hdr = 0 /\ Len(reqs') = Len(reqs) + 1
        /\ reqs'[Len(reqs)].status = status
        /\ reqs'[Len(reqs')].status = status
        /\ reqs'[Len(reqs')].first = rs[Len(rs)].first
    BY <1>1 DEF Redirects, Blank
  <2>2. rs[Len(rs)].first <= Len(reqs)
    BY <1>0 DEF ChainOK
  <2>3. QED
    BY <2>1, <2>2 DEF StatusInv
<1>2. CASE Pages(rs, i, status)
  <2>1. /\ pc' = "log" /\ wire' = Sent(i, reqs'[i].status, Page(i))
        /\ Len(reqs') = Len(reqs) /\ reqs'[Len(reqs)].status = status
    BY <1>2 DEF Pages
  <2>2. wire'.status = reqs'[i].status
    BY <2>1, SentStatus DEF Blank
  <2>3. Answered'
    <3>1. CASE i = Len(reqs)
      BY <2>1, <2>2, <3>1 DEF Answered
    <3>2. CASE i # Len(reqs)
      <4>1. i \in 1..(hist'.denied - 1)
        BY <1>0, <3>2
      <4>2. QED
        BY <2>2, <3>2, <4>1 DEF Answered
    <3>3. QED
      BY <3>1, <3>2
  <2>4. QED
    BY <2>1, <2>3 DEF StatusInv
<1>3. QED
  BY <1>1, <1>2

(* Where a denied request can be while it is still being answered.         *)
LEMMA EnforcedWhere ==
    ASSUME TypeOK, IInv, ResponseInv, Enforced
    PROVE  /\ Denied /\ Inspected
           /\ pc \in {"fixups", "handler", "filter", "log", "done"}
           /\ hist.denied \in 1..Len(reqs)
           /\ pc \in {"fixups", "handler", "filter"} => hist.denied < Len(reqs)
           /\ ~ctx.headers_delayed
<1>1. Denied /\ pc \notin HookPCs \cup FilterPCs /\ Inspected
  BY DEF IInv, DenyInv, TransactionInv, Enforced, Denied
<1>2. pc # "filter_error" /\ hist.denied # 0 /\ hist.denied <= Len(reqs)
  BY <1>1 DEF ResponseInv, DropInv, Enforced
<1>3. Denied => pc \in {"filter_error", "log", "done"} \/ hist.denied < Len(reqs)
  BY DEF ResponseInv, DropInv
<1>4. ~ctx.headers_delayed
  BY <1>1 DEF ResponseInv, RouteInv
<1>5. pc \in PCs /\ hist.denied \in Nat /\ Len(reqs) \in Nat
  BY Sizes, TypeOKParts
<1>6. hist.denied \in 1..Len(reqs)
  BY <1>2, <1>5
<1>7. pc \in {"fixups", "handler", "filter", "log", "done"}
  BY <1>1, <1>2, <1>5 DEF PCs, HookPCs, FilterPCs
<1>8. QED
  BY <1>1, <1>3, <1>4, <1>6, <1>7

(* An error while the ErrorDocument of a denial is served.                 *)
LEMMA SecondError ==
    ASSUME TypeOK, IInv, ResponseInv, StatusInv, Enforced,
           pc \in {"fixups", "handler"}, NEW type \in Nat, ReturnStatus(type),
           UNCHANGED <<ctx, conn, engine, hist>>
    PROVE  StatusInv'
<1>0. /\ Len(reqs) \in Nat /\ req = reqs[Len(reqs)] /\ cur = Len(reqs) /\ ChainOK(reqs)
      /\ req \in Requests
  BY Sizes, TypeOKParts
<1>1. hist.denied \in 1..Len(reqs) /\ hist.denied < Len(reqs) /\ ~conn.aborted
  BY EnforcedWhere DEF Enforced
<1>2. /\ req.status = engine.status /\ engine.status # HTTP_OK
      /\ req.first <= hist.denied /\ reqs[hist.denied].status = engine.status
      /\ wire.hdr # 0 => wire.status = engine.status
  BY <1>0 DEF StatusInv
<1> DEFINE f == req.first
<1>3. cur # 1
  BY <1>0, <1>1
<1>4. Pages(reqs, f, type)
  <2>1. ap_die(type, req.status, reqs)
    BY <1>3 DEF ReturnStatus
  <2>2. QED
    BY <1>0, <1>2, <2>1, DieOutcome
<1>5. f \in 1..Len(reqs) /\ f # Len(reqs) /\ f <= hist.denied
  BY <1>0, <1>1, <1>2 DEF Requests
<1> HIDE DEF f
<1>6. /\ pc' = "log" /\ wire' = Sent(f, reqs'[f].status, Page(f)) /\ Len(reqs') = Len(reqs)
      /\ \A j \in 1..Len(reqs) : j # Len(reqs) => reqs'[j].status = reqs[j].status
  BY <1>4 DEF Pages, Carries
<1>7. wire'.status = IF wire.hdr = 0 THEN reqs'[f].status ELSE wire.status
  BY <1>1, <1>6, SentStatus
<1>8. Answered'
  <2>1. CASE wire.hdr # 0
    BY <1>2, <1>7, <2>1 DEF Answered
  <2>2. CASE wire.hdr = 0 /\ f = hist.denied
    BY <1>2, <1>5, <1>6, <1>7, <2>2 DEF Answered
  <2>3. CASE wire.hdr = 0 /\ f # hist.denied
    <3>1. f \in 1..(hist'.denied - 1) /\ Len(reqs') > hist'.denied
      BY <1>0, <1>1, <1>5, <1>6, <2>3
    <3>2. QED
      BY <1>7, <2>3, <3>1 DEF Answered
  <2>4. QED
    BY <2>1, <2>2, <2>3
<1>9. QED
  BY <1>6, <1>8 DEF StatusInv

(* The ErrorDocument goes on, or its bytes go out under its status.        *)
LEMMA ServedStatus ==
    ASSUME TypeOK, IInv, ResponseInv, StatusInv, Enforced,
           pc \in {"fixups", "handler", "filter"},
           Len(reqs') = Len(reqs),
           \A j \in 1..Len(reqs) : /\ reqs'[j].status = reqs[j].status
                                   /\ reqs'[j].first = reqs[j].first,
           \/ wire' = wire /\ pc' \in {"handler", "filter"}
           \/ /\ pc' \in {"handler", "log"}
              /\ \E data : wire' = Sent(Len(reqs), reqs[Len(reqs)].status, data),
           UNCHANGED <<conn, engine, hist>>
    PROVE  StatusInv'
<1>1. /\ Len(reqs) \in 1..Len(reqs) /\ hist.denied \in 1..Len(reqs) /\ ~conn.aborted
  BY Sizes, EnforcedWhere DEF Enforced
<1>2. /\ reqs[Len(reqs)].status = engine.status /\ engine.status # HTTP_OK
      /\ reqs[Len(reqs)].first <= hist.denied /\ reqs[hist.denied].status = engine.status
      /\ wire.hdr # 0 => wire.status = engine.status
  BY DEF StatusInv
<1>3. wire'.hdr # 0 \/ pc' = "log" => wire'.status = engine.status
  BY <1>1, <1>2, SentStatus
<1>4. QED
  BY <1>1, <1>2, <1>3 DEF StatusInv, Answered

(* The status the engine is told to record.                                *)
LEMMA EnforcedFields ==
    ASSUME NEW e \in Engines, NEW iv \in Interventions, NEW early
    PROVE  EngineAfterIntervention(e, iv, early).status = EnforcedStatus(iv)
<1> DEFINE u == [e EXCEPT !.status = EnforcedStatus(iv), !.enforced = @ + 1]
<1>1. u.status = EnforcedStatus(iv) /\ DOMAIN u = DOMAIN e
  BY DEF Engines
<1>2. "audit" \in DOMAIN e /\ "status" \in DOMAIN e
  BY DEF Engines
<1> HIDE DEF u
<1>3. coraza_process_logging(u).status = u.status
  BY <1>1, <1>2 DEF coraza_process_logging
<1>4. EngineAfterIntervention(e, iv, early) \in {u, coraza_process_logging(u)}
  BY DEF EngineAfterIntervention, u
<1>5. QED
  BY <1>1, <1>3, <1>4

(* A denial by the hook.                                                   *)
LEMMA HookStatus ==
    ASSUME TypeOK, IInv, ResponseInv, pc \in HookPCs, NEW c \in Contexts, NEW e \in Engines,
           c.phase3_done = ctx.phase3_done, Intervenes(c, e)
    PROVE  StatusInv'
<1>0. /\ cur = Len(reqs) /\ req = reqs[Len(reqs)] /\ ChainOK(reqs) /\ hist \in Histories
  BY Sizes, TypeOKParts
<1>1. Blank /\ ~ctx.phase3_done /\ ~conn.aborted
  <2>1. ~Denied
    BY DEF IInv, DenyInv, Denied
  <2>2. QED
    BY <2>1 DEF ResponseInv, WireInv, PhaseInv, DropInv
<1>2. PICK iv \in Interventions : coraza_enforce_intervention(iv, c, e)
  BY DEF Intervenes
<1>3. CASE IsDrop(iv)
  BY <1>2, <1>3 DEF coraza_enforce_intervention, coraza_drop_connection, StatusInv, Enforced
<1>4. CASE ~IsDrop(iv)
  <2> DEFINE status == EnforcedStatus(iv)
             rec == IF cur = 1 THEN HTTP_OK ELSE req.status
             i == IF rec = HTTP_OK THEN Len(reqs) ELSE reqs[Len(reqs)].first
  <2>1. status \in Nat \ {HTTP_OK}
    BY EnforcedStatusType
  <2>2. engine'.status = status
    BY <1>2, EnforcedFields DEF coraza_enforce_intervention
  <2>3. hist'.denied = Len(reqs) /\ ctx'.phase3_done = ctx.phase3_done
    <3>1. ctx' = CtxAfterIntervention(c, iv, TRUE) /\ hist' = [hist EXCEPT !.denied = cur]
      BY <1>2 DEF coraza_enforce_intervention
    <3>2. QED
      BY <1>0, <3>1, ContextFields DEF Histories
  <2>4. ap_die(status, rec, reqs)
    BY <1>2, <1>4 DEF coraza_enforce_intervention, ReturnStatus
  <2> HIDE DEF status, rec
  <2>5. Redirects(reqs, status) \/ Pages(reqs, i, status)
    BY <1>0, <2>1, <2>4, DieOutcome
  <2>6. i \in 1..Len(reqs)
    <3>1. /\ Len(reqs) \in 1..Len(reqs) /\ reqs[Len(reqs)] \in Requests
          /\ reqs[Len(reqs)].first <= Len(reqs)
      BY <1>0, Sizes DEF ChainOK
    <3>2. QED
      BY <3>1, Sizes, BoundsAssumption DEF Requests
  <2> HIDE DEF i
  <2>7. QED
    BY <1>0, <1>1, <2>1, <2>2, <2>3, <2>5, <2>6, DeathStatus
<1>5. QED
  BY <1>3, <1>4

(* A denial by the filter.                                                 *)
LEMMA FilterStatus ==
    ASSUME TypeOK, IInv, ResponseInv,
           pc \in FilterPCs \/ (pc = "filter" /\ ~MustStepAside),
           NEW c, NEW e \in Engines, NEW unsent, FilterIntervenes(c, e, unsent),
           unsent => Blank, ~unsent => hist.route = "nodelay"
    PROVE  StatusInv'
<1>0. /\ cur = Len(reqs) /\ req = reqs[Len(reqs)] /\ hist \in Histories
      /\ req \in Requests /\ ChainOK(reqs) /\ Len(reqs) \in 1..Len(reqs)
  BY Sizes, TypeOKParts
<1>1. ~conn.aborted
  BY FilterWhere
<1>2. PICK iv \in Interventions :
        /\ hist' = [hist EXCEPT !.denied = cur]
        /\ engine' = EngineAfterIntervention(e, iv, FALSE)
        /\ \/ IsDrop(iv) /\ coraza_drop_response
           \/ /\ ~IsDrop(iv) /\ conn' = conn
              /\ IF unsent THEN coraza_die(EnforcedStatus(iv))
                 ELSE ErrorToHandler(EnforcedStatus(iv))
  BY DEF FilterIntervenes, Deny
<1>3. hist'.denied = Len(reqs) /\ hist'.route = hist.route
  BY <1>0, <1>2 DEF Histories
<1>4. CASE IsDrop(iv) /\ coraza_drop_response
  BY <1>4 DEF coraza_drop_response, coraza_drop_connection, StatusInv, Enforced
<1>5. CASE ~unsent
  BY <1>3, <1>5 DEF StatusInv, Enforced
<1>6. CASE unsent /\ coraza_die(EnforcedStatus(iv))
  <2> DEFINE status == EnforcedStatus(iv)
             f == [req EXCEPT !.outFilter = FALSE, !.status = HTTP_OK]
             rs == ThisRequest(f)
  <2>1. status \in Nat \ {HTTP_OK} /\ engine'.status = status
    BY <1>2, EnforcedStatusType, EnforcedFields
  <2>2. f \in Requests /\ f.first = req.first
    BY <1>0, OkIsNat DEF Requests
  <2>3. ap_die(status, HTTP_OK, rs)
    BY <1>6 DEF coraza_die
  <2> HIDE DEF f, status
  <2>4. ChainOK(rs) /\ Len(rs) = Len(reqs)
    BY <1>0, <2>2, ThisRequestType
  <2> HIDE DEF rs
  <2>5. Redirects(rs, status) \/ Pages(rs, Len(reqs), status)
    BY <2>1, <2>3, <2>4, DieOutcome
  <2>6. QED
    BY <1>0, <1>1, <1>3, <1>6, <2>1, <2>4, <2>5, DeathStatus
<1>7. QED
  BY <1>2, <1>4, <1>5, <1>6

(* A denied request goes on.                                               *)
LEMMA EnforcedStep ==
    ASSUME TypeOK, IInv, ResponseInv, StatusInv, ~LateErrors, engine.enforced = 1, Next,
           Enforced'
    PROVE  StatusInv'
<1>0. /\ Len(reqs) \in Nat /\ Len(reqs) >= 1 /\ Len(reqs) \in 1..Len(reqs)
      /\ req = reqs[Len(reqs)] /\ cur = Len(reqs) /\ req \in Requests /\ ChainOK(reqs)
  BY Sizes, TypeOKParts
<1>1. pc \notin HookPCs \cup FilterPCs /\ Denied /\ Inspected
  BY DEF IInv, DenyInv, TransactionInv, Denied
<1>2. pc \notin {"connection", "uri", "headers", "setup", "read", "finish",
                 "phase4", "delay", "loop"}
  BY <1>1 DEF HookPCs, FilterPCs
<1>3. ASSUME NEW f \in Requests, f.status = req.status, f.first = req.first
      PROVE  /\ Len(ThisRequest(f)) = Len(reqs)
             /\ \A j \in 1..Len(reqs) : /\ ThisRequest(f)[j].status = reqs[j].status
                                        /\ ThisRequest(f)[j].first = reqs[j].first
  BY <1>0, <1>3, ThisRequestType
<1>4. ASSUME conn' = conn, hist' = hist PROVE Enforced
  BY <1>4 DEF Enforced
<1>5. CASE Fixups
  <2>1. pc = "fixups" /\ (Declined \/ ReuseTransaction \/ CreateCtx)
    BY <1>2, <1>5 DEF Fixups, Declined, ReuseTransaction, CreateCtx, ProcessConnection,
         ProcessUri, ProcessHeaders, SetupClientBlock, ReadChunk, ReadError, EndOfBody,
         ProcessRequestBody
  <2>2. coraza_ctx_from_prev
    <3>1. ~reqs[Len(reqs)].hasCtx
      BY <1>0, <2>1 DEF IInv, ChainInv
    <3>2. PICK i \in 1..Len(reqs) : reqs[i].hasCtx
      BY <1>1 DEF Inspected
    <3>3. i \in 1..(cur - 1)
      BY <1>0, <3>1, <3>2
    <3>4. QED
      BY <3>2, <3>3 DEF coraza_ctx_from_prev
  <2>3. CASE Declined
    BY <1>4, <2>1, <2>3, ServedStatus DEF Declined, Proceed
  <2>4. CASE ReuseTransaction
    <3> DEFINE f == [req EXCEPT !.hasCtx = TRUE, !.outFilter = TRUE]
    <3>1. f \in Requests /\ f.status = req.status /\ f.first = req.first
      BY <1>0 DEF Requests
    <3>2. /\ reqs' = ThisRequest(f) /\ pc' = "handler" /\ wire' = wire
          /\ UNCHANGED <<conn, engine, hist>>
      BY <2>4 DEF ReuseTransaction, Proceed
    <3> HIDE DEF f
    <3>3. QED
      BY <1>3, <1>4, <2>1, <3>1, <3>2, ServedStatus
  <2>5. QED
    BY <2>1, <2>2, <2>3, <2>4 DEF CreateCtx
<1>6. CASE OutputFilter
  <2>1. pc = "filter" /\ FilterStepsAside
    BY <1>1, <1>2, <1>6 DEF OutputFilter, FilterStepsAside, FilterReenters,
         ProcessResponseHeaders, ResponseHeadersFail, FinalizeUninspected, StreamSse,
         BeginDelay, FlushAtCap, InspectBucket, BucketFails, ProcessResponseBody,
         EndOfBrigade, MustStepAside, Denied
  <2> DEFINE f == [req EXCEPT !.outFilter = FALSE]
  <2>2. f \in Requests /\ f.status = req.status /\ f.first = req.first
    BY <1>0 DEF Requests
  <2>3. /\ PassBrigade(bb.err, bb.todo, ThisRequest(f), Returned) /\ ~bb.err
        /\ UNCHANGED <<conn, engine, hist>>
    BY <2>1 DEF FilterStepsAside, PassOn, WithoutFilter, ResponseInv, FlowInv
  <2> HIDE DEF f
  <2>4. Len(ThisRequest(f)) = Len(reqs) /\ ThisRequest(f)[Len(reqs)].status = req.status
    BY <1>0, <1>3, <2>2
  <2>5. /\ reqs' = ThisRequest(f) /\ pc' \in {"handler", "log"}
        /\ wire' = Sent(Len(reqs), reqs[Len(reqs)].status, bb.todo)
    BY <1>0, <2>3, <2>4 DEF PassBrigade, Returned
  <2>6. QED
    BY <1>3, <1>4, <2>1, <2>2, <2>3, <2>5, ServedStatus
<1>7. CASE Handler
  <2>0. UNCHANGED <<ctx, conn, engine, hist>>
    BY <1>7 DEF Handler, EarlierHookFails, HandlerReads, HandlerSetsStatus, HandlerPasses,
         HandlerFails, HandlerRedirects, HandlerStops
  <2>1. Enforced
    BY <1>4, <2>0
  <2>2. /\ pc \in {"fixups", "handler", "filter", "log", "done"}
        /\ pc = "handler" => req.status # HTTP_OK
    BY <1>0, <2>1, EnforcedWhere DEF StatusInv
  <2>3. HandlerErrors \subseteq Nat
    BY HandlerErrorsAssumption
  <2>4. CASE EarlierHookFails \/ HandlerFails
    <3>1. pc \in {"fixups", "handler"} /\ \E status \in Nat : ReturnStatus(status)
      BY <2>3, <2>4 DEF EarlierHookFails, HandlerFails
    <3>2. QED
      BY <2>0, <2>1, <3>1, SecondError
  <2>5. CASE HandlerPasses
    <3>1. PICK k \in 0..(MaxChunks - req.passed), eos \in BOOLEAN, err \in BOOLEAN :
            LET data == [i \in 1..k |-> [req |-> cur, n |-> req.passed + i]]
                rs == ThisRequest([req EXCEPT !.passed = @ + k, !.eos_sent = eos])
            IN
            /\ k > 0 \/ eos
            /\ err => LateErrors /\ eos
            /\ \/ /\ req.outFilter
                  /\ bb' = [EmptyBrigade EXCEPT !.todo = data, !.eos = eos, !.err = err]
                  /\ reqs' = rs
                  /\ pc' = "filter"
                  /\ wire' = wire
               \/ /\ ~req.outFilter
                  /\ PassBrigade(err, data, rs, IF eos THEN "log" ELSE "handler")
                  /\ bb' = bb
      BY <2>5 DEF HandlerPasses
    <3> DEFINE data == [i \in 1..k |-> [req |-> cur, n |-> req.passed + i]]
               f == [req EXCEPT !.passed = @ + k, !.eos_sent = eos]
               next == IF eos THEN "log" ELSE "handler"
    <3>2. f \in Requests /\ f.status = req.status /\ f.first = req.first
      <4>1. req.passed + k \in 0..MaxChunks
        BY <1>0, BoundsAssumption DEF Requests
      <4>2. QED
        BY <1>0, <4>1 DEF Requests
    <3>3. ~err /\ pc = "handler" /\ next \in {"log", "handler"}
      BY <2>5, <3>1 DEF HandlerPasses
    <3>4. \/ reqs' = ThisRequest(f) /\ pc' = "filter" /\ wire' = wire
          \/ PassBrigade(err, data, ThisRequest(f), next)
      BY <3>1
    <3> HIDE DEF f, data, next
    <3>5. Len(ThisRequest(f)) = Len(reqs) /\ ThisRequest(f)[Len(reqs)].status = req.status
      BY <1>0, <1>3, <3>2
    <3>6. CASE reqs' = ThisRequest(f) /\ pc' = "filter" /\ wire' = wire
      BY <1>3, <2>0, <2>1, <3>2, <3>3, <3>6, ServedStatus
    <3>7. CASE PassBrigade(err, data, ThisRequest(f), next)
      <4>1. /\ reqs' = ThisRequest(f) /\ pc' \in {"handler", "log"}
            /\ wire' = Sent(Len(reqs), reqs[Len(reqs)].status, data)
        BY <1>0, <3>3, <3>5, <3>7 DEF PassBrigade
      <4>2. QED
        BY <1>3, <2>0, <2>1, <3>2, <3>3, <4>1, ServedStatus
    <3>8. QED
      BY <3>4, <3>6, <3>7
  <2>6. CASE HandlerRedirects
    <3>1. Redirects(reqs, req.status)
      BY <1>0, <2>6, RedirectOutcome DEF HandlerRedirects
    <3>2. hist.denied \in 1..Len(reqs) /\ hist.denied # Len(reqs) /\ pc = "handler"
      BY <1>0, <2>1, <2>6, EnforcedWhere DEF HandlerRedirects
    <3>3. /\ req.status = engine.status /\ engine.status # HTTP_OK
          /\ req.first <= hist.denied /\ reqs[hist.denied].status = engine.status
          /\ wire.hdr # 0 => wire.status = engine.status
      BY <1>0, <2>1, <3>2 DEF StatusInv
    <3>4. /\ pc' = "fixups" /\ wire' = wire /\ Len(reqs') = Len(reqs) + 1
          /\ reqs'[Len(reqs')].status = engine.status
          /\ reqs'[Len(reqs')].first = req.first
          /\ reqs'[hist.denied].status = engine.status
      BY <1>0, <3>1, <3>2, <3>3 DEF Redirects, Carries
    <3>5. QED
      BY <2>0, <3>3, <3>4 DEF StatusInv
  <2>7. QED
    BY <1>7, <2>2, <2>4, <2>5, <2>6 DEF Handler, HandlerReads, HandlerSetsStatus, HandlerStops
<1>8. CASE coraza_log_transaction
  <2>1. /\ pc = "log" /\ pc' = "done" /\ UNCHANGED <<reqs, conn, wire, hist>>
        /\ ctx' = [ctx EXCEPT !.logged = @ \/ Logs(reqs[1], ctx), !.transaction = FALSE]
        /\ engine' = engine \/ engine' = coraza_process_logging(engine)
    BY <1>8 DEF coraza_log_transaction
  <2>2. ctx \in Contexts /\ engine \in Engines
    BY TypeOKParts
  <2>3. engine'.status = engine.status
    BY <2>1, <2>2 DEF coraza_process_logging, Engines
  <2>4. ctx'.phase3_done = ctx.phase3_done
    BY <2>1, <2>2 DEF Contexts
  <2>5. Answered
    BY <1>4, <2>1 DEF StatusInv
  <2>6. QED
    BY <2>1, <2>3, <2>4, <2>5 DEF StatusInv, Answered
<1>9. CASE Done
  BY <1>4, <1>9 DEF Done, vars, StatusInv, Answered
<1>10. QED
  BY <1>5, <1>6, <1>7, <1>8, <1>9 DEF Next

(* Without a denial an engine call enforces nothing.                       *)
LEMMA UnenforcedFields ==
    ASSUME TypeOK
    PROVE  /\ \A p \in 1..4 : Ran(engine, p).enforced = engine.enforced
           /\ [Ran(engine, 3) EXCEPT !.headersOf = cur].enforced = engine.enforced
           /\ \A b : SubmitBucket(b).enforced = engine.enforced
           /\ coraza_process_logging(engine).enforced = engine.enforced
<1>1. engine \in Engines
  BY TypeOKParts
<1>2. ASSUME NEW p \in 1..4 PROVE Ran(engine, p).enforced = engine.enforced
  BY <1>1 DEF Ran, Engines
<1>3. [Ran(engine, 3) EXCEPT !.headersOf = cur].enforced = Ran(engine, 3).enforced
  <2>1. Ran(engine, 3) \in Engines
    BY <1>1, RanType
  <2>2. QED
    BY <2>1 DEF Engines
<1>4. ASSUME NEW b PROVE SubmitBucket(b).enforced = engine.enforced
  BY <1>1 DEF SubmitBucket, Engines
<1>5. coraza_process_logging(engine).enforced = engine.enforced
  BY <1>1 DEF coraza_process_logging, Engines
<1>6. QED
  BY <1>2, <1>3, <1>4, <1>5

(* The request is denied in this step, or not at all.                      *)
LEMMA FirstDenial ==
    ASSUME TypeOK, IInv, ResponseInv, engine.enforced # 1, Next
    PROVE  StatusInv'
<1>0. ctx \in Contexts /\ engine \in Engines /\ bb.todo \in Seq(Buckets)
  BY TypeOKParts DEF Brigades
<1>1. ASSUME engine'.enforced = engine.enforced PROVE StatusInv'
  BY <1>1 DEF StatusInv, Enforced
<1>2. CASE Fixups
  <2>1. CASE engine' = engine
    BY <1>1, <2>1
  <2>2. CASE CreateCtx
    <3>1. engine' = engine \/ engine' = [engine EXCEPT !.txs = @ + 1]
      BY <2>2 DEF CreateCtx, coraza_create_ctx
    <3>2. QED
      BY <1>0, <1>1, <3>1 DEF Engines
  <2>3. CASE pc \in HookPCs /\ Intervenes(ctx, engine)
    BY <1>0, <2>3, HookStatus
  <2>4. CASE ProcessHeaders
    <3>1. Ran(engine, 1) \in Engines /\ Ran(engine, 1).enforced = engine.enforced
      BY <1>0, RanType, UnenforcedFields
    <3>2. pc \in HookPCs
      BY <2>4 DEF ProcessHeaders, HookPCs
    <3>3. CASE Intervenes(ctx, Ran(engine, 1))
      BY <1>0, <3>1, <3>2, <3>3, HookStatus
    <3>4. QED
      BY <1>1, <2>4, <3>1, <3>3 DEF ProcessHeaders
  <2>5. CASE ProcessRequestBody
    <3> DEFINE c == [ctx EXCEPT !.phase2_done = TRUE]
    <3>1. Ran(engine, 2) \in Engines /\ Ran(engine, 2).enforced = engine.enforced
      BY <1>0, RanType, UnenforcedFields
    <3>2. pc \in HookPCs
      BY <2>5 DEF ProcessRequestBody, HookPCs
    <3>3. c \in Contexts /\ c.phase3_done = ctx.phase3_done
      BY <1>0 DEF Contexts
    <3>4. \/ engine' = engine \/ Intervenes(c, Ran(engine, 2)) \/ engine' = Ran(engine, 2)
      BY <2>5 DEF ProcessRequestBody
    <3> HIDE DEF c
    <3>5. CASE Intervenes(c, Ran(engine, 2))
      BY <3>1, <3>2, <3>3, <3>5, HookStatus
    <3>6. QED
      BY <1>1, <3>1, <3>4, <3>5
  <2>6. \/ engine' = engine \/ CreateCtx \/ ProcessHeaders \/ ProcessRequestBody
        \/ pc \in HookPCs /\ Intervenes(ctx, engine)
    BY <1>2 DEF Fixups, Declined, ReuseTransaction, ProcessConnection, ProcessUri,
         SetupClientBlock, ReadChunk, ReadError, EndOfBody, Proceed, HookPCs
  <2>7. QED
    BY <2>1, <2>2, <2>3, <2>4, <2>5, <2>6
<1>3. CASE OutputFilter
  <2>1. CASE engine' = engine
    BY <1>1, <2>1
  <2>2. CASE ProcessResponseHeaders
    <3> DEFINE e == [Ran(engine, 3) EXCEPT !.headersOf = cur]
    <3>1. Ran(engine, 3) \in Engines /\ cur \in 0..MaxReqs
      BY <1>0, RanType, Sizes DEF TypeOK, cur
    <3>2. e \in Engines /\ e.enforced = engine.enforced
      BY <3>1, UnenforcedFields DEF Engines
    <3>3. pc = "filter" /\ ~MustStepAside /\ ~ctx.phase3_done
      BY <2>2 DEF ProcessResponseHeaders
    <3>4. (\E c : FilterIntervenes(c, e, TRUE)) \/ engine' = e
      BY <2>2 DEF ProcessResponseHeaders
    <3> HIDE DEF e
    <3>5. ASSUME NEW c, FilterIntervenes(c, e, TRUE) PROVE StatusInv'
      BY <3>2, <3>3, <3>5, FilterWhere, FilterStatus
    <3>6. QED
      BY <1>1, <3>2, <3>4, <3>5
  <2>3. CASE FinalizeUninspected
    <3>1. Ran(engine, 4) \in Engines /\ Ran(engine, 4).enforced = engine.enforced
      BY <1>0, RanType, UnenforcedFields
    <3>2. pc = "phase4" /\ pc \in FilterPCs
      BY <2>3 DEF FinalizeUninspected, FilterPCs
    <3>3. \/ engine' = engine \/ engine' = Ran(engine, 4)
          \/ \E c : FilterIntervenes(c, Ran(engine, 4), TRUE)
      BY <2>3 DEF FinalizeUninspected, coraza_fail_closed_headers
    <3>4. ASSUME NEW c, FilterIntervenes(c, Ran(engine, 4), TRUE) PROVE StatusInv'
      BY <3>1, <3>2, <3>4, FilterWhere, FilterStatus
    <3>5. QED
      BY <1>1, <3>1, <3>3, <3>4
  <2>4. CASE InspectBucket
    <3> DEFINE b == Head(bb.todo)
               e == SubmitBucket(b)
    <3>1. /\ pc = "loop" /\ pc \in FilterPCs /\ bb.todo # <<>>
          /\ engine' = e \/ FilterIntervenes(Counted, e, ctx.headers_delayed)
      BY <2>4 DEF InspectBucket, FilterPCs
    <3>2. b \in Buckets
      BY <1>0, <3>1
    <3> HIDE DEF b
    <3>3. e \in Engines
      <4>1. engine.seen \in Seq(Buckets)
        BY <1>0 DEF Engines
      <4>2. Append(engine.seen, b) \in Seq(Buckets)
        BY <3>2, <4>1
      <4>3. QED
        BY <1>0, <4>2 DEF SubmitBucket, Engines
    <3>4. e.enforced = engine.enforced
      BY UnenforcedFields
    <3> HIDE DEF e
    <3>5. CASE FilterIntervenes(Counted, e, ctx.headers_delayed)
      BY <3>1, <3>3, <3>5, FilterWhere, FilterStatus
    <3>6. QED
      BY <1>1, <3>1, <3>4, <3>5
  <2>5. CASE ProcessResponseBody
    <3>1. Ran(engine, 4) \in Engines /\ Ran(engine, 4).enforced = engine.enforced
      BY <1>0, RanType, UnenforcedFields
    <3>2. pc = "loop" /\ pc \in FilterPCs
      BY <2>5 DEF ProcessResponseBody, FilterPCs
    <3>3. \/ engine' = engine \/ engine' = Ran(engine, 4)
          \/ \E c : FilterIntervenes(c, Ran(engine, 4), ctx.headers_delayed)
      BY <2>5 DEF ProcessResponseBody, coraza_fail_closed_response
    <3>4. ASSUME NEW c, FilterIntervenes(c, Ran(engine, 4), ctx.headers_delayed)
          PROVE  StatusInv'
      BY <3>1, <3>2, <3>4, FilterWhere, FilterStatus
    <3>5. QED
      BY <1>1, <3>1, <3>3, <3>4
  <2>6. \/ engine' = engine \/ ProcessResponseHeaders \/ FinalizeUninspected
        \/ InspectBucket \/ ProcessResponseBody
    BY <1>3 DEF OutputFilter, FilterStepsAside, FilterReenters, ResponseHeadersFail,
         StreamSse, BeginDelay, FlushAtCap, BucketFails, EndOfBrigade,
         coraza_fail_closed_response
  <2>7. QED
    BY <2>1, <2>2, <2>3, <2>4, <2>5, <2>6
<1>4. CASE Handler
  <2>1. engine' = engine
    BY <1>4 DEF Handler, EarlierHookFails, HandlerReads, HandlerSetsStatus, HandlerPasses,
         HandlerFails, HandlerRedirects, HandlerStops
  <2>2. QED
    BY <1>1, <2>1
<1>5. CASE coraza_log_transaction
  BY <1>1, <1>5, UnenforcedFields DEF coraza_log_transaction
<1>6. CASE Done
  BY <1>1, <1>6 DEF Done, vars
<1>7. QED
  BY <1>2, <1>3, <1>4, <1>5, <1>6 DEF Next

(* The client of a denied request sees the status the rules chose, unless  *)
(* httpd was handling an earlier error already and reports that one        *)
(* (coraza_process_intervention, coraza_die and ap_die).                   *)
THEOREM DenyStatusServedHolds == ~LateErrors => (Spec => []DenyStatusServed)
<1> SUFFICES ASSUME ~LateErrors PROVE Spec => []DenyStatusServed
  OBVIOUS
<1>1. Init => StatusInv
  BY DEF Init, FreshEngine, StatusInv, Enforced
<1>2. TypeOK /\ IInv /\ ResponseInv /\ StatusInv /\ [Next]_vars => StatusInv'
  <2> SUFFICES ASSUME TypeOK, IInv, ResponseInv, StatusInv, [Next]_vars PROVE StatusInv'
    OBVIOUS
  <2>1. CASE UNCHANGED vars
    BY <2>1 DEF vars, StatusInv, Enforced, Answered
  <2>2. CASE Next /\ engine.enforced # 1
    BY <2>2, FirstDenial
  <2>3. CASE Next /\ engine.enforced = 1
    <3>1. CASE Enforced'
      BY <2>3, <3>1, EnforcedStep
    <3>2. QED
      BY <3>1 DEF StatusInv
  <2>4. QED
    BY <2>1, <2>2, <2>3
<1>3. StatusInv => DenyStatusServed
  BY DEF StatusInv, Enforced, Answered, DenyStatusServed, cur
<1>4. QED
  BY <1>1, <1>2, <1>3, Invariance, ResponseInvariance, PTL DEF Spec
=============================================================================
