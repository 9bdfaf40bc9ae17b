# A TLA+ model of coraza-apache

`mod_coraza` runs the Coraza web application firewall inside Apache httpd. The
rules live in an engine (libcoraza, a Go library); the module's own logic is
*when* it calls the engine, what it does with the answer, and what it lets
through meanwhile. That control logic is spread over a hook, two filters and a
logging hook which httpd calls in an order that depends on handlers, error pages
and internal redirects. Around it sit the configuration, the WAFs each child
builds from it and shares between its threads, and three algorithms over data:
the rules-text scanner, the packing of headers and the replay of the body. This
project models them, checks them with TLC and proves central properties with
TLAPS.

## Inventory

| Component | State it keeps | Operations | Interacts with |
|---|---|---|---|
| Request context (`mod_coraza.h`, `mod_coraza.c`) | `coraza_request_ctx_t`: transaction, held response, what has been evaluated, denied, logged, dropped | create, cleanup, `coraza_process_intervention`, `coraza_drop_connection` | shared by every hook and filter, and by every `request_rec` of a redirect chain |
| Fixups hook (`mod_coraza_phase1.c`) | the kept copy of the request body | phases 1 and 2, redirect reuse, body read | attaches both filters; its return value goes to `ap_die` |
| Output filter (`mod_coraza_filter_out.c`) | the pending brigade | phases 3 and 4, delay, flush at the cap, release, fail closed | called once per brigade by a handler, calls `ap_die`, which may start a new `request_rec` |
| Input filter (`mod_coraza_body_in.c`) | the kept body, consumed | replay in the read mode asked for | called by the handler |
| Logging (`mod_coraza_log.c`) | `ctx->logged` | phase 5, early and late | called by the intervention and by httpd |
| WAF store (`mod_coraza.c`) | `dcf->waf`, the content-hash cache, `merge_child`, a mutex | `child_init`, lazy build, `child_exit` | all worker threads of a child |
| Configuration (`mod_coraza.c`) | dir and server configs | directives, merge, checks, the rules-text scanner | read by the store and the hook |
| Header packing (`mod_coraza.c`) | none | one length-prefixed buffer for all headers | hook and output filter |
| Dynamic loading (`mod_coraza_dl.c`) | the symbol table | open, close, forwarding wrappers | every engine call |

What is hard here is order and partial failure more than data. One client request may
be several `request_rec`s (error pages, redirects), each with Coraza on or off,
all sharing one context; any engine call may fail or report an intervention; the
handler may pass brigades in any sizes, fail before or after its first byte, or
redirect; a denial must produce one error page and one audit entry and leave
nothing of the denied response on the wire; a held response must be released
exactly once. Threads meet only in the WAF store, which also depends on how httpd
creates, shares and merges configurations. `PROJECT.json` lists these
hazards at the lines where they bite, with the properties that watch them.

## Modules

| Module | Models |
|---|---|
| `CorazaCtx` | the variables; the context, interventions, logging and cleanup; the httpd services the module relies on (`ap_die`, internal redirect, the filters below) |
| `CorazaPhase1` | `coraza_post_read_request`, one action per engine call, and the body replay |
| `CorazaFilterOut` | `coraza_output_filter`, one action per decision point of a brigade |
| `CorazaRequest` | httpd and an arbitrary content handler around them; `Spec`; all properties; the inductive invariant |
| `MCRequest` | constants for TLC |
| `CorazaConfig` | the directive handlers, `coraza_merge_dir_conf`, `coraza_check_config`, and httpd's handling of configurations around them |
| `CorazaChild` | `coraza_dl_open`, `coraza_child_init` and `coraza_child_exit`: the WAFs of a child |
| `WafStore` | the worker threads: merging the sections of a request, `coraza_create_ctx` with its mutex, cache and fallbacks; the specification that composes the three and its properties |
| `MCWafStore` | configurations, URLs and libraries for TLC |
| `RulesScan`, `MCRulesScan` | the scanner behind `CorazaRules`, `CorazaRulesFile` and `Sec*`, and the engine's way to assemble records, its reference |
| `BodyStream` | what the module promises a handler about the request body |
| `BodyReplay`, `MCBodyReplay` | the copy in memory and spool file and every read mode of `coraza_replay_saved_body`; implements `BodyStream` |
| `HeaderSubmit`, `MCHeaderSubmit` | gathering, packing and submitting headers, with integer widths |
| `CorazaRequestProofs` | type correctness, the inductive invariant of the request and what follows from it |
| `CorazaReplayProofs` | the handler gets the body that was read |
| `CorazaResponseProofs` | what reaches the client: one response, complete, inspected, withheld when denied |
| `WafStoreProofs` | the threads and the WAFs they share, the configuration a request gets, the rules it runs on |
| `HeaderSubmitProofs` | the packed headers fit, and are read back as the headers |
| `BodyReplayProofs` | `BodyReplay` implements `BodyStream` |
| `RulesScanProofs` | the scanner's word stays in its buffer; its verdict is that on the engine's records |
| `FoldFacts` | induction and folds in a form the provers can use |

Definitions keep the C names where there is one (`coraza_die`,
`coraza_enforce_intervention`, `coraza_fail_closed_response`, ...).

### The request

**State.** `pc` is the code that runs next: one thread serves one request, so
there is a single one. `reqs` is the `request_rec` chain, the last being served;
`reqs[i].prev` is `reqs[i-1]`. `ctx` has the fields of the C struct, with
`pending` the pending brigade. `body` follows the request body: chunks sent,
read, kept (`saved`), submitted to the engine and seen by the handler (`app`).
`bb` is the brigade in the filter. `conn` holds the two `conn_rec` fields a drop
sets, `wire` what the client has received: the `request_rec` whose status line was
sent, the status and the buckets. `engine` is what libcoraza has been told: the
phases evaluated, the response chunks seen, the status to record, the audit log.
`hist` is history only (which way the response left the filter, which request
was denied) and guards no action.

**Actions.** Each step of the hook is one engine call with its three outcomes:
error (fail closed, 500), intervention (denied or dropped), or go on. The filter
evaluates phase 3 on the first brigade, then finalizes phase 4 at once (body not
inspected), steps out (SSE), or begins to hold the response; then it takes one
data bucket per step: flush at the cap, submit, fail. At the end of the brigade
it evaluates phase 4 (EOS), sets the brigade aside, or passes it on. The handler
may read its input or not, set an error status, pass any number of brigades, fail or
redirect. It reads only before its first output and sets no success or redirect status
of its own; a denial between two reads is `BodyReplay`'s, and that such a handler does
not take the early end for that of the body rests on its stopping once its output is
refused, as the comment on `coraza_drop_response` says handlers do. `ap_die` either
starts a request for an `ErrorDocument` in any scope or sends the canned page.

**Abstractions.** A chunk or bucket is a number; the content of headers, URIs and
pages is left out. The engine decides anything at any poll. An internal redirect
in the model is `ap_internal_redirect` (a new `request_rec` with `prev`);
subrequests, which the hook skips, and fast redirects, which keep the request,
are not modelled. The kept body is one sequence whether in memory or spooled.
Empty data buckets, which the filter passes over, are left out. The model ends a
redirect chain at `MaxReqs`, as httpd does at `LimitInternalRecursion`.

### From the configuration to the WAF of a request

`CorazaConfig`, `CorazaChild` and `WafStore` are one system in three modules. `phase`
follows the process: reading directives, checking, loading the library, building
server WAFs, building the WAFs of tracked configurations, ready (or disabled,
without a library), exited. `confs` has one `coraza_dir_conf_t` for each server, each
section and each thread's merged configuration; `scfs` the server configurations.
`made` and `own` say who has one of its own, since httpd shares the main server's
with a virtual host that has none, and `array` keeps the identity of a rules array,
which is what `coraza_child_init` compares. A WAF handle is a position in `built`,
which records the rules the WAF was compiled from; 0 is the null handle.

A thread merges the sections of its URL one by one (httpd first merges those of one
walk with each other; for the configurations of the runs the result is the same, and
the model writes a section's WAF at least as often), reading each section's `waf`
without a lock, and then goes through `coraza_create_ctx` one shared access at a
time: the unlocked look at `dcf->waf`, the lock, the merge_child, the cache, the
build, the store, the unlock, the choice of the WAF. A `.htaccess` file is read
again for every request and has a configuration of its own each time. A rule set
is a sequence of names, inline and file rules alike; the hash is any function
(in the runs one that collides for sets of equal length). Any build may fail.

Left out: the counters that directives in `.htaccess` files bump (nothing reads them
any more), `coraza_post_config` (it only logs), allocation failures. `coraza_dl_open`
is called once per process, so its answer to a second call is not modelled.

### The scanner, the headers, the body

`RulesScan` feeds a text byte by byte, which makes the chunks of a file irrelevant.
Bytes are classes: newline, blank, `#`, backslash, backtick and letters with a case;
a NUL byte in a file is left out (the scanner has 0 for "no byte yet", so a line that
starts with one could hide its record: the properties speak of texts without NUL).
Its reference assembles whole records from whole lines as the comment in the source
says the engine does.

`HeaderSubmit` scales the integers down but keeps their relations: a base for the
digits of length fields, an int, a size_t. Each byte of the buffer says whose it
is. The engine walks the buffer; it may also fail after taking some headers, and
the fallback then submits them all again.

`BodyReplay` has brigades as sequences of buckets and a bucket as a sequence of byte
positions. `apr_brigade_write` may put two chunks into one bucket; the model keeps
them apart, which only splits lines differently past `HUGE_STRING_LEN`. Between two
reads the output filter, which has the same context, may deny the response; the filter
then leaves the chain at the next read, and the reader sees the end of the drained
connection. `BodyStream` says so: nothing of the body is read once the request is
refused, and the end seen after that may be early.
`CorazaPhase1` uses the same body as one sequence of chunks: what `BodyReplay` is
shown to implement is what that module assumes of the replay.

## Runs

The runs of the request use `MCRequest`: four interventions (two spellings of a drop, a denial
that asks for status 200, a redirect) and one handler error. The bounds are
chosen so that each interesting case occurs: three `request_rec`s give on/off/on
chains and an error on an error page; three buckets with a cap of two give a
flush in the middle of a brigade with an earlier one held; two body chunks give
an order and a failure between them.

| Run | Shows |
|---|---|
| `request` (`MCRequest.cfg`) | with responses that do not break once begun: the handler sees only an inspected request, nothing of a denied response is sent, a held response is released only after its inspection, complete and in order, every request is answered or dropped, a drop is silent, the client sees the enforced status, phases run once and in order, the served response was inspected, the body is replayed |
| `late_errors` (`MCLateErrors.cfg`) | also when responses break late (error buckets, late handler errors): types, one transaction, one denial, one audit entry with the right status and nothing after it; every request ends logged with its transaction freed |
| `body_redirect`, `no_delay_failure`, `audit_redirect`, `late_inspected` | violations: four places where the code and what its documentation says disagree (below) |
| `waf_store` (`MCWafStore.cfg`) | eight configurations, six libraries, a failing build, two threads and three requests: merging gives the innermost setting and all rules in order; a request runs on a WAF that ends in its own rules, and on exactly the inherited ones unless a section is shared between scopes with different rules; one build per rule set; nothing freed twice; only a usable library inspects; no armed scope without rules; a section's WAF is never replaced; no request waits for ever |
| `waf_stale`, `waf_fail_open` | violations of inheritance and of failing closed (below) |
| `rules_scan` (`MCRulesScan.cfg`) | a refusal is real and names the line of its record, an accepted text is clean, the word fits its buffer |
| `replay` (`MCBodyReplay.cfg`) | the copy keeps to its memory limit and loses nothing; `BodyReplay` implements `BodyStream`; a handler that goes on reading reaches the end |
| `headers` (`MCHeaderSubmit.cfg`) | the size is an int, the buffer is filled exactly, the engine has every header or the message is refused |

`LateErrors` separates the two families because a response that breaks after
output has left (mod_proxy's error buckets) has properties of its own: the
response served afterwards is not the one phase 3 saw (`late_inspected`).

**Bounds of the other runs.** `WafStore`: two virtual hosts make one section shared;
three requests by two threads let one thread build while another waits, a third
request find the result, and a cache of one entry be full. The configurations in
`MCWafStore` each stand for a way of placing `Coraza On` and rules (server, virtual
host, section, `.htaccess`, none, refused). `RulesScan`: eight bytes and a word of
three hold a two-letter directive cut by a continuation with a comment or an action
list around it, a word that just fits and just does not, and a record that is missed
before another is refused (eight bytes are the least that do: `RefusalIsReal` in the
form "the refused record is the first", without its exception, holds up to seven).
One letter is enough: a word then differs from the directive by its length or by a byte
that is no letter. `BodyReplay`: five bytes
in chunks of up to two with limits 0, 1, 3 and 5 put the switch to the file before,
inside and after the body; lines of up to three bytes and reads of up to three cross
buckets. `HeaderSubmit`: three headers from the tables and Content-Type with lengths
on both sides of every guard for fields of base 3 and an int of 31.

**Fairness.** `WafStore` has weak fairness for the start of the process and for each
thread with a request: a thread that can move does, and the mutex is free again
after finitely many steps of its holder. No request has to arrive and no child to
exit. With finitely many requests weak fairness is enough for `RequestsEnd`; that a
mutex is fair to a thread while others keep coming is APR's to guarantee.
`BodyReplay` assumes a reader that goes on asking for bytes (a handler, or httpd when it
discards the rest), which are given or the filter leaves the chain; `RulesScan` and
`HeaderSubmit` state safety only. `CorazaRequest`'s `Spec` has `WF_vars(Next)` only:
the thread that serves a request keeps running. Within that the handler, the rules
and the failures are free, so termination does not rest on any of them behaving
well, except that a handler eventually passes an EOS or stops: a finite response is
`MaxChunks` long, and when all of it has been passed only the EOS, a failure or a
read is left to do.

**Exceptions stated in the properties.** `hist.route = "nodelay"` marks a response
that the filter inspects without holding it back (HEAD, or a status of 400 and
above); it can be cut short, and a denial cannot replace what was sent.
`DenyStatusServed` allows the earlier error's status where httpd prefers it.

## What the violations show

1. `BodyReachesHandler`: after an internal redirect the hook re-attaches only the
   output filter. The body was consumed by the hook and its replay filter belongs
   to the old `request_rec`, so the redirected handler reads an empty body.
2. `HeadersOnWireUnlessDelayed`: failing closed without the delay may happen on the
   first brigade, with nothing on the wire, contrary to the comment.
3. `EveryTransactionAudited`: a transaction that begins on a redirected
   `request_rec` is not logged, since the logging hook looks at the original one.
4. `ServedResponseInspected` with late errors: the `ErrorDocument` that replaces a
   held response which broke is not inspected, `phase3_done` being set.
5. `InheritedRulesEnforced`: a WAF built from merged rules is kept with the section
   alone, so a `<Location>` that applies to two virtual hosts (or directories) with
   different rules runs on the rules of whichever was asked for first.
   `InheritedUnlessShared` shows that this sharing is the only way inheritance fails.
6. `FailedRulesRefused`: a scope whose rules cannot be built is served on the server's
   WAF, while the comments say a child fails closed. `OwnRulesEnforced` shows that
   without a failed build no request loses the rules of its innermost scope.

## Proofs

Everything below is proved for every value of the constants, under their named
assumptions only. They say what kind of thing a constant is and relate the few that
the code relates: interventions are records with a natural status
(`InterventionsAssumption`), handler errors are 400..599, bounds are naturals
(`BoundsAssumption`, `SizesAssumption`); names of servers, sections and threads do
not clash and each server is listed once (`NamesAssumption`), configurations are
sequences of directives, each in a section or in the server that reads it
(`TextsAssumption`, `StoreAssumption`), libraries are records (`LibrariesAssumption`);
header lengths are naturals (`EntryAssumption`), an int has four digits and a size_t
is more than twice an int (`WidthAssumption`); directives are
words of letters shorter than the scanner's buffer (`WordAssumption`,
`LettersAssumption`).

### The request

`CorazaRequestProofs`: `TypeCorrect`, with one lemma per httpd service that says what
it leaves in the chain, the wire and `pc`; `Invariance`, that `IInv` (with `TypeOK`) is
inductive; and from it `OneTransactionHolds`, `NoSecondDenyHolds`,
`HandlerSeesInspectedRequestHolds`, `OneAuditEntryHolds`, `AuditShowsDenialHolds` and
the action property `NothingAfterLoggingHolds`.

None of these properties is inductive alone. `IInv` adds what they rest on:
`ChainInv` (the context sits only where Coraza is on, and CORAZA_OUT only where the
context is), `TransactionInv` (no context anywhere means a clean engine),
`DenyInv` (at every point where an intervention can be found, none has been),
`LogInv` (`ctx->logged` agrees with the audit log, and before the end only a denied
transaction is logged), `BodyInv` (a request still served with status 200 has been
inspected whole). Every step either denies (`DenyStep`), moves the response on
(`MoveStep`), or is a step of the hook that goes on (`HookStep`); the few that are
none of these (creating and reusing the context, reading the body, logging) are
treated one by one.

`CorazaReplayProofs`: `BodyReplayedHolds`. Its `ReplayInv` says that what the handler
has, what CORAZA_IN keeps and what the connection still holds are the body in order
as long as the request is not inspected, is in the hook, or has the replay filter,
and that at most one `request_rec` of a chain has that filter.

`CorazaResponseProofs`: `ResponseInv` is inductive (`ResponseInvariance`), and
`PhasesOnceInOrder`, `DropIsSilent`, `DeniedBodyWithheld`, `ReleasedAfterInspection`,
`WireIsOneResponse`, `CompleteDelivery`, `AnsweredOrDropped` and
`ServedResponseInspected` follow from it. Its centre is `FlowInv`: the buckets a handler
has passed are, in this order and without a gap, on the wire or in the pending
brigade, then in `bb.done`, then in `bb.todo`. `SeenInv` adds that the engine has seen
what is held, `RouteInv` how the fields of the context say which way the response
takes, `DropInv` what a denial and a drop leave on the wire, `PhaseInv` which phases
have run at which point, `EndInv` what is true of a request that is over.
`DenyStatusServedHolds` needs `StatusInv` besides: after a denial every later
`request_rec` inherits the enforced status, and the error httpd walks back to began no
later than at the denied one.

These theorems have the hypothesis `~LateErrors`, which is the setting of the run
`request` that checks the same properties: a handler or an upstream that breaks
after its first byte puts a second response behind the first, and TLC finds each of
them violated then on the same bounds, except `ReleasedAfterInspection`, for which the
hypothesis is only what this invariant needs; the run `late_inspected` keeps one such
behaviour. The theorems of the other two modules have no such hypothesis.

### The store

`WafStoreProofs`, for any number of servers, sections and threads, any configuration,
library and hash: `TypeCorrect`, `OneBuildPerRuleSetHolds`, `NoDoubleFreeHolds`,
`InspectedByUsableEngineHolds`, `ArmedHasRulesHolds` and the action property
`PolicyStableHolds`. The invariant `Inv` has the types; `LifeInv` (threads run and WAFs
exist only in the phases that allow them); `MutexInv` (mutual exclusion); `BuildInv`,
what the holder of the mutex knows: from its second look at `dcf->waf` to the store
nobody else has built or cached a WAF for its rules, nor given one to its
merge_child; `ArmInv` (enabled scopes and counted rules against the text); `ApartInv`
and `FreedOnce` (no two servers share a WAF, so what `coraza_child_exit` collects from
tracked configurations and servers is free of repetitions).

Two more invariants are inductive on top of it. `ConfInv` (`ConfInvariance`) says that
configurations hold what the text asks for: while directives are read, each scope's
configuration is what the directives so far give it (`ReadInv`); after the virtual
hosts are merged, each server's and each section's is what the whole text gives it
(`ReadyInv`); and a request that has merged the first n scopes of its URL holds the
innermost setting among those n and their rules in order (`ThreadInv`, through
`Conforms`). With n all the scopes of the URL this is `EffectiveConfigHolds`. Each
reference definition (`Given`, `RulesOf`, `Setting`...) takes the text as a parameter, so
that it is a constant of a behaviour; lemmas give it by recursion over the directives
and over the scopes (`RulesUpToFacts`, `LastUpToFacts`, `SettingToFacts`).

`EnforceInv` (`EnforceInvariance`) is about behaviours in which no build has failed:
every WAF was compiled from rules its users may run on. `Origin` names the last of the
first n scopes of a URL that has rules, and `Sound` says of a rule set that it comes from
that scope along some URL. A section's WAF, whoever built it, comes from the section
(`FromScope`), and the merge_child of a request is its `Origin`, so a WAF taken from
there, from the cache or from the build itself is sound for the request
(`Enforcing`); while `coraza_child_init` runs, `ServersInv` and `DirsInv` say which
servers and virtual hosts already have theirs. `OwnRulesEnforcedHolds` and
`InheritedUnlessSharedHolds` follow: a sound rule set ends in the rules of the
innermost scope that has any, and if each section has rules around it from one place
only, it is exactly the inherited one.

### The headers and the body

`HeaderSubmitProofs`: `PackedSizeIsInt`; the work is in `FitsIsExact`: the two unsigned
subtractions in the guards do not go below zero in the order the code makes them, so
the guards mean what they say, and the sum they admit is an int. `BufferFitsHolds`:
`BufferInv` relates the measured size to the sum of the header sizes and the written
prefix to the sum so far. `EveryHeaderInspectedHolds`: the digits of a length field
read back as the length (`TwoDigits`, `FourDigits`), so the engine's walk of the buffer
returns exactly the headers (`WalkResult`); after a batch that failed half way the
engine has a prefix of them and then all of them.

`BodyReplayProofs`: `ReplayInv` (the copy is the body read so far, split between memory
and file; what the handler has and what is left make the body) gives `TypeCorrect` and
`CopyWithinLimitHolds`, and with it every step of `BodyReplay` is a step of
`BodyStream` or a stutter (`Implementation`). The first half of the module is about the
brigade operators: what splitting, partitioning and cutting a line leave.

`RulesScanProofs`: `WordStaysInBuffer`, for any text and any buffer that is longer than
the directives: the end of a line never lengthens the word, and a byte does only while
there is room. `RefusalIsRealHolds` and `AcceptedIsCleanHolds` rest on `ScanInv`: the
scanner, which sees one byte at a time, follows the reference, which trims whole lines
and glues whole records (`Follows`, for the record of the complete lines and the line
being read). It has three parts. `LinePart`: the first and last byte are those of the
trimmed line. `RecordPart`: open record, action list and first line agree. `WordPart`:
the word is the record so far, without a blank, or it is settled: whatever follows, the
record is refused if and only if the word is (`Settled`). A blank after the word, a word
past the buffer and a backtick in it settle it (`SettledWord`, `SettledLong`,
`SettledBacktick`). Between a blank and the next byte of the line the word is done and
not yet settled, since the next line may be glued to it; there a backslash before the
blank is the continuation the scanner misses. From then on only half of `Settled` holds:
the word the scanner judges has a backslash in it, so it refuses nothing that is not
refused. One lemma per kind of byte (`BlankStep`, `ByteStep`, `EolStep`, the last by
`IgnoredStep`, `EndStep` and `OpenStep`) and one for the end of the text (`DoneStep`)
carry it. The lemmas before them say what folding a byte into the lines and a line into
the records adds, and what trimming does when a line grows (`TrimBlank`, `TrimByte`).

The proof corrected a property: that the refused record is the *first* one the engine
would refuse is false after a missed continuation, on texts one byte longer than the
run then had. `RefusalIsReal` now has that exception, and says of every refusal that
its line is one of the engine's.

### How the proofs treat data

The library's induction theorems take an operator as parameter and cannot be used with
these provers. `FoldFacts` states induction over a set of naturals instead (`NatInd`,
`StepInd`, `PrefixInd`), derived from the least element of such a set, and what a left
fold computes; the proofs about folds, brigades, digits and sums use it. Each
inductive invariant was model-checked on the constants of its component's runs before it
was proved (`ScanInv` on texts of seven bytes, with at most two bytes of what may follow).

### Only model-checked

* `Terminates`, `RequestsEnd` and `ReplayEnds`: liveness is out of the prover's reach.

Every other property of a passing run is stated by a theorem.

## Not modelled, and the plan

Not modelled: builds, packaging and tests (no run-time state); the text of headers,
URIs and log messages; the forwarding wrappers of `mod_coraza_dl.c`, which hold no
state (what they forward to are the engine calls of the other modules); subrequests,
which the hook skips; Windows' own `dynlib` calls.

One thing is known and has no property: in a child without its library, request-time
merges of all threads push to `g_tracked_dir_confs` without a lock; nothing reads the
array there. `coraza_child_exit` frees only what configuration time built, which has
no effect, since the process ends right after it.

The plan is carried out: what is left to the model checker is liveness.
