------------------------------ MODULE WafStore ------------------------------
(***************************************************************************)
(* The worker threads of a child and the WAFs they share.  A request       *)
(* merges the configurations of the sections that apply to it and, in      *)
(* coraza_create_ctx, finds the WAF of the merged rules: the WAF of the    *)
(* merge_child, one from the content-hash cache, or a new one, under       *)
(* g_waf_build_mutex.  The reads of dcf->waf before the lock and after it, *)
(* and the reads of a section's WAF in a merge, are not protected.         *)
(*                                                                         *)
(* What the request does with its transaction afterwards is the subject of *)
(* CorazaRequest.                                                          *)
(***************************************************************************)
EXTENDS CorazaChild

CONSTANTS
    Urls,         \* [server, path]: the sections a request merges, in order
    HtText,       \* HtText[x]: the directives of a .htaccess file
    Hash(_),      \* rules_hash
    CacheMax,     \* WAF_CACHE_MAX
    MaxRequests,  \* bound: requests in one behaviour
    NoThread      \* the owner of a free mutex

ASSUME StoreAssumption ==
    /\ NoThread \notin Threads
    /\ CacheMax \in Nat
    /\ Urls \subseteq [server : Servers, path : Seq(Sections)]
    /\ \A x \in Sections : Kind[x] = "htaccess" => AreDirectives(HtText[x])

VARIABLES
    threads,   \* per thread: pc, url, the sections to merge, dcf and the WAF
    mutex,     \* the holder of g_waf_build_mutex
    cache,     \* g_waf_cache
    requests   \* the requests started

storeVars == <<threads, mutex, cache, requests>>
vars == <<configVars, childVars, storeVars>>

---------------------------------------------------------------------------
NoUrl == [server |-> Main, path |-> <<>>]
Idle == [pc |-> "idle", url |-> NoUrl, todo |-> <<>>, dcf |-> Main, waf |-> NoWaf]

Goto(t, pc) == threads' = [threads EXCEPT ![t].pc = pc]

(* The request ends; its pool goes, and the merged configuration with it.  *)
EndRequest(t) ==
    /\ threads' = [threads EXCEPT ![t] = Idle]
    /\ confs' = [confs EXCEPT ![t] = coraza_create_dir_conf(t)]

Start(t) ==
    /\ phase \in {"ready", "disabled"}
    /\ requests < MaxRequests
    /\ threads[t].pc = "idle"
    /\ requests' = requests + 1
    /\ \E u \in Urls :
         threads' = [threads EXCEPT ![t] =
           [pc |-> "merging", url |-> u, todo |-> u.path,
            dcf |-> Defaults(u.server), waf |-> NoWaf]]
    /\ UNCHANGED <<configVars, childVars, mutex, cache>>

(* The directives of a .htaccess file and the configuration they make: it  *)
(* is read again for every request.  The counters the handlers bump are    *)
(* not read any more.                                                      *)
HtConf(x) == FoldLeft(ApplyDirective, coraza_create_dir_conf(x), HtText[x])
HtRefused(x) == \E n \in DOMAIN HtText[x] : DirectiveRefused(HtText[x][n])

NextSection(t) == Head(threads[t].todo)

(* Until coraza_child_init has frozen the tracked configurations, and in a *)
(* disabled child it never does, a merge adds to them.                     *)
TrackMerged(t) ==
    tracked' = IF phase = "disabled" THEN Append(tracked, t) ELSE tracked

MergeSection(t) ==
    /\ threads[t].pc = "merging"
    /\ threads[t].todo # <<>>
    /\ LET x == NextSection(t)
           private == Kind[x] = "htaccess"
           merged == coraza_merge_dir_conf(confs[threads[t].dcf],
                       IF private THEN HtConf(x) ELSE confs[x],
                       IF private THEN NoConf ELSE x, t)
       IN \/ /\ ~private /\ x \notin made
             /\ threads' = [threads EXCEPT ![t].todo = Tail(@)]
             /\ UNCHANGED <<confs, tracked>>
          \/ /\ private /\ HtRefused(x)
             /\ EndRequest(t)
             /\ tracked' = tracked
          \/ /\ IF private THEN ~HtRefused(x) ELSE x \in made
             /\ confs' = [confs EXCEPT ![t] = merged]
             /\ threads' = [threads EXCEPT ![t].todo = Tail(@), ![t].dcf = t]
             /\ TrackMerged(t)
    /\ UNCHANGED <<phase, text, pos, made, own, scfs, childVars, mutex, cache, requests>>

---------------------------------------------------------------------------
Conf(t) == confs[threads[t].dcf]

(* The fixups hook declines a scope where Coraza is not on.  Otherwise     *)
(* coraza_create_ctx first looks at dcf->waf without the lock.             *)
CheckWaf(t) ==
    /\ threads[t].pc = "merging"
    /\ threads[t].todo = <<>>
    /\ \/ /\ Conf(t).enable # 1
          /\ EndRequest(t)
       \/ /\ Conf(t).enable = 1
          /\ Goto(t, IF Conf(t).waf = NoWaf /\ HasRules(Conf(t)) THEN "lock" ELSE "use")
          /\ confs' = confs
    /\ UNCHANGED <<phase, text, pos, made, own, scfs, tracked>>
    /\ UNCHANGED <<childVars, mutex, cache, requests>>

(* Mutant: the build is not serialised.                                    *)
LockNothing(t) ==
    /\ threads[t].pc = "lock"
    /\ mutex' = t
    /\ Goto(t, "merge_child")
    /\ UNCHANGED <<configVars, childVars, cache, requests>>

(* The mutex of a disabled child was never created: the child dies.        *)
Lock(t) ==
    /\ threads[t].pc = "lock"
    /\ \/ /\ phase = "ready"
          /\ mutex = NoThread
          /\ mutex' = t
          /\ Goto(t, "merge_child")
          /\ phase' = phase
       \/ /\ phase = "disabled"
          /\ phase' = "crashed"
          /\ UNCHANGED <<threads, mutex>>
    /\ UNCHANGED <<text, pos, made, own, confs, scfs, tracked>>
    /\ UNCHANGED <<childVars, cache, requests>>

(* Strategy 1.                                                             *)
TryMergeChild(t) ==
    /\ threads[t].pc = "merge_child"
    /\ LET c == Conf(t) IN
       confs' = [confs EXCEPT ![threads[t].dcf].waf =
         IF @ = NoWaf /\ c.merge_child # NoConf THEN confs[c.merge_child].waf ELSE @]
    /\ Goto(t, "cache")
    /\ UNCHANGED <<phase, text, pos, made, own, scfs, tracked>>
    /\ UNCHANGED <<childVars, mutex, cache, requests>>

rules_equal(e, rules) == e.rules = rules

(* The WAF of the first of the cache entries at these positions.           *)
FirstHit(hits) == IF hits = {} THEN NoWaf ELSE cache[Min(hits)].waf

(* Mutant: equal hashes are taken for equal rules.                         *)
HashFind(rules) == FirstHit({n \in DOMAIN cache : cache[n].hash = Hash(rules)})

waf_cache_find(rules) ==
    FirstHit({n \in DOMAIN cache :
                cache[n].hash = Hash(rules) /\ rules_equal(cache[n], rules)})

(* dcf->waf and the WAF of the merge_child, which later merges inherit.    *)
GiveWaf(t, waf) ==
    LET kept == {threads[t].dcf, Conf(t).merge_child} IN
    confs' = [x \in DOMAIN confs |->
       IF x \in kept THEN [confs[x] EXCEPT !.waf = waf] ELSE confs[x]]

(* Mutant: dcf->waf is not looked at again under the lock.                 *)
BuildAnyway(t) ==
    /\ threads[t].pc = "cache"
    /\ Goto(t, "build")
    /\ UNCHANGED <<configVars, childVars, mutex, cache, requests>>

(* Strategy 2.                                                             *)
TryCache(t) ==
    /\ threads[t].pc = "cache"
    /\ LET waf == waf_cache_find(Conf(t).rules) IN
       \/ /\ Conf(t).waf # NoWaf
          /\ Goto(t, "unlock")
          /\ confs' = confs
       \/ /\ Conf(t).waf = NoWaf /\ waf # NoWaf
          /\ GiveWaf(t, waf)
          /\ Goto(t, "unlock")
       \/ /\ Conf(t).waf = NoWaf /\ waf = NoWaf
          /\ Goto(t, "build")
          /\ confs' = confs
    /\ UNCHANGED <<phase, text, pos, made, own, scfs, tracked>>
    /\ UNCHANGED <<childVars, mutex, cache, requests>>

(* Strategy 3: build a WAF...                                              *)
BuildWaf(t) ==
    /\ threads[t].pc = "build"
    /\ \E waf \in {NoWaf, NewWaf} :
         /\ coraza_build_waf(Conf(t).rules, "request", waf)
         /\ confs' = [confs EXCEPT ![threads[t].dcf].waf = waf]
    /\ Goto(t, "store")
    /\ UNCHANGED <<phase, text, pos, made, own, scfs, tracked>>
    /\ UNCHANGED <<library, freed, loop, mutex, cache, requests>>

(* Mutant: the cache is not bounded.                                       *)
AddAlways(rules, waf) ==
    cache' = Append(cache, [hash |-> Hash(rules), rules |-> rules, waf |-> waf])

waf_cache_add(rules, waf) ==
    cache' = IF Len(cache) < CacheMax
             THEN Append(cache, [hash |-> Hash(rules), rules |-> rules, waf |-> waf])
             ELSE cache

(* ...and keep it in the cache and with the merge_child.                   *)
StoreWaf(t) ==
    /\ threads[t].pc = "store"
    /\ \/ Conf(t).waf # NoWaf /\ waf_cache_add(Conf(t).rules, Conf(t).waf)
       \/ Conf(t).waf = NoWaf /\ cache' = cache
    /\ GiveWaf(t, Conf(t).waf)
    /\ Goto(t, "unlock")
    /\ UNCHANGED <<phase, text, pos, made, own, scfs, tracked>>
    /\ UNCHANGED <<childVars, mutex, requests>>

(* Mutant: the mutex is kept.                                              *)
KeepLock(t) ==
    /\ threads[t].pc = "unlock"
    /\ Goto(t, "use")
    /\ UNCHANGED <<configVars, childVars, mutex, cache, requests>>

Unlock(t) ==
    /\ threads[t].pc = "unlock"
    /\ mutex' = NoThread
    /\ Goto(t, "use")
    /\ UNCHANGED <<configVars, childVars, cache, requests>>

---------------------------------------------------------------------------
(* The WAF the transaction is made from: the server's when the             *)
(* configuration has none.                                                 *)
EffectiveWaf(t) ==
    IF Conf(t).waf # NoWaf THEN Conf(t).waf
    ELSE scfs[ServerConf(threads[t].url.server)].waf

UseWaf(t) ==
    /\ threads[t].pc = "use"
    /\ EffectiveWaf(t) # NoWaf
    /\ threads' = [threads EXCEPT ![t].pc = "serving", ![t].waf = EffectiveWaf(t)]
    /\ UNCHANGED <<configVars, childVars, mutex, cache, requests>>

(* No WAF, or the engine makes no transaction: the request is refused.     *)
NoTransaction(t) ==
    /\ threads[t].pc = "use"
    /\ EndRequest(t)
    /\ UNCHANGED <<phase, text, pos, made, own, scfs, tracked>>
    /\ UNCHANGED <<childVars, mutex, cache, requests>>

(* The request is over and its transaction is freed.                       *)
Finish(t) ==
    /\ threads[t].pc = "serving"
    /\ EndRequest(t)
    /\ UNCHANGED <<phase, text, pos, made, own, scfs, tracked>>
    /\ UNCHANGED <<childVars, mutex, cache, requests>>

---------------------------------------------------------------------------
Startup == (ReadConfig /\ UNCHANGED <<childVars, storeVars>>)
           \/ (coraza_child_init /\ UNCHANGED storeVars)

(* httpd runs the child's cleanups when its threads have ended.            *)
Exit ==
    /\ \A t \in Threads : threads[t].pc = "idle"
    /\ coraza_child_exit \/ DisabledExit
    /\ UNCHANGED storeVars

(* The steps a request goes through once it has started.                   *)
Step(t) ==
    /\ phase \in {"ready", "disabled"}
    /\ \/ MergeSection(t) \/ CheckWaf(t) \/ Lock(t) \/ TryMergeChild(t)
       \/ TryCache(t) \/ BuildWaf(t) \/ StoreWaf(t) \/ Unlock(t)
       \/ UseWaf(t) \/ NoTransaction(t) \/ Finish(t)

(* The process is gone.                                                    *)
Gone == phase \in {"refused", "exited", "crashed"} /\ UNCHANGED vars

Init ==
    /\ ConfigInit
    /\ ChildInit
    /\ threads = [t \in Threads |-> Idle]
    /\ mutex = NoThread
    /\ cache = <<>>
    /\ requests = 0

Next ==
    \/ Startup
    \/ \E t \in Threads : Start(t) \/ Step(t)
    \/ Exit
    \/ Gone

(* A thread that has a request keeps running.  No request has to come and  *)
(* no child has to exit.                                                   *)
Spec ==
    /\ Init /\ [][Next]_vars
    /\ WF_vars(Startup)
    /\ \A t \in Threads : WF_vars(Step(t))

---------------------------------------------------------------------------
(* What a configuration ds asks for, from its text alone: a request is     *)
(* subject to its server and to the sections that apply, outermost first.  *)

Scopes(u) ==
    (IF u.server = Main THEN <<Main>> ELSE <<Main, u.server>>) \o u.path

(* The text a scope takes its directives from, and which of them are given *)
(* for it: all of its .htaccess file, or what stands in it.                *)
Private(x) == x \in Sections /\ Kind[x] = "htaccess"
Source(ds, x) == IF Private(x) THEN HtText[x] ELSE ds
For(x, d, cmd) == d.cmd = cmd /\ (Private(x) \/ d.scope = x)
Given(ds, x, cmd) == {n \in DOMAIN Source(ds, x) : For(x, Source(ds, x)[n], cmd)}

(* The rules given for a scope by the first n directives.                  *)
RulesUpTo(ds, x) ==
    LET src == Source(ds, x)
        f[n \in 0 .. Len(src)] ==
          IF n = 0 THEN <<>>
          ELSE IF For(x, src[n], "rules") THEN Append(f[n - 1], src[n].arg)
          ELSE f[n - 1]
    IN f
RulesOf(ds, x) == RulesUpTo(ds, x)[Len(Source(ds, x))]

(* The rules of the first n scopes of a URL.                               *)
RulesAround(ds, u) ==
    LET f[n \in 0 .. Len(Scopes(u))] ==
          IF n = 0 THEN <<>> ELSE f[n - 1] \o RulesOf(ds, Scopes(u)[n])
    IN f
RulesAlong(ds, u) == RulesAround(ds, u)[Len(Scopes(u))]

(* The innermost setting of a directive.                                   *)
Setting(ds, u, cmd) ==
    LET inner == {n \in DOMAIN Scopes(u) : Given(ds, Scopes(u)[n], cmd) # {}}
        x == Scopes(u)[Max(inner)]
    IN IF inner = {} THEN Unset ELSE Source(ds, x)[Max(Given(ds, x, cmd))].arg

(* The rules of the innermost scope that has any.                          *)
OwnRules(ds, u) ==
    LET inner == {n \in DOMAIN Scopes(u) : RulesOf(ds, Scopes(u)[n]) # <<>>}
    IN IF inner = {} THEN <<>> ELSE RulesOf(ds, Scopes(u)[Max(inner)])

(* Every section with rules is reached with the same rules around it.      *)
OneContextPerSection(ds) ==
    \A u, v \in Urls : \A n \in DOMAIN Scopes(u), m \in DOMAIN Scopes(v) :
       Scopes(u)[n] = Scopes(v)[m] /\ RulesOf(ds, Scopes(u)[n]) # <<>>
         => RulesAround(ds, u)[n - 1] = RulesAround(ds, v)[m - 1]

Serving(t) == threads[t].pc = "serving"
EnforcedRules(t) == built[threads[t].waf].rules
Requested(t) == threads[t].url

---------------------------------------------------------------------------
DirConfs ==
    [enable : {-1, 0, 1}, transaction_id : Int, body_mem_limit : Int,
     rules : Seq(STRING), array : Servers \cup Sections \cup Threads,
     has_rules : BOOLEAN, waf : 0 .. Len(built),
     merge_child : Sections \cup {NoConf}]

(* Type correctness: every handle names a WAF that was built, only a       *)
(* section is a merge_child, and the cache keeps to WAF_CACHE_MAX.         *)
TypeOK ==
    /\ phase \in {"reading", "checking", "refused", "loading", "servers",
                  "dirs", "ready", "disabled", "exited", "crashed"}
    /\ pos \in 1 .. Len(text) + 1
    /\ Main \in made /\ made \subseteq Servers \cup Sections
    /\ Main \in own /\ own \subseteq Servers
    /\ \A x \in Servers \cup Sections \cup Threads : confs[x] \in DirConfs
    /\ \A s \in Servers : scfs[s].waf \in 0 .. Len(built)
    /\ mutex \in Threads \cup {NoThread}
    /\ Len(cache) <= CacheMax
    /\ \A n \in DOMAIN cache : cache[n].waf \in 1 .. Len(built)
    /\ \A t \in Threads : threads[t].dcf \in Servers \cup {t}

(* Merging (coraza_merge_dir_conf, the virtual hosts' merge and the        *)
(* configurations httpd shares) gives a request the innermost setting of   *)
(* every directive and the rules of all its scopes, outermost first.       *)
EffectiveConfig ==
    \A t \in Threads :
      threads[t].pc \in {"lock", "use", "serving"} =>
        /\ Conf(t).enable = Setting(text, Requested(t), "enable")
        /\ Conf(t).transaction_id = Setting(text, Requested(t), "transaction_id")
        /\ Conf(t).body_mem_limit = Setting(text, Requested(t), "body_mem_limit")
        /\ Conf(t).rules = RulesAlong(text, Requested(t))

(* As long as every build has succeeded, the WAF a request runs on ends in *)
(* the rules of its innermost scope: neither the cache, nor a merge_child, *)
(* nor another thread's build hands it the WAF of another scope.           *)
OwnRulesEnforced ==
    \A t \in Threads :
      Serving(t) /\ failures = 0 =>
        IsSuffix(OwnRules(text, Requested(t)), EnforcedRules(t))

(* The rules a request runs on are those of all its scopes: server-level   *)
(* rules are inherited by virtual hosts, sections and .htaccess files.     *)
InheritedRulesEnforced ==
    \A t \in Threads :
      Serving(t) /\ failures = 0 =>
        EnforcedRules(t) = RulesAlong(text, Requested(t))

(* That fails only where a section with rules is reached through two       *)
(* servers or directories with different rules.                            *)
InheritedUnlessShared == ~InheritedRulesEnforced => ~OneContextPerSection(text)

(* A rule set that could not be built refuses the requests it applies to:  *)
(* no request is served without the rules of its innermost scope.          *)
FailedRulesRefused ==
    \A t \in Threads :
      Serving(t) => IsSuffix(OwnRules(text, Requested(t)), EnforcedRules(t))

RequestBuilds(rules) ==
    {h \in DOMAIN built : built[h].by = "request" /\ built[h].rules = rules}

(* However the threads interleave in coraza_create_ctx, a rule set is      *)
(* compiled once: a cached WAF is the only one built for its rules, and    *)
(* one that is not in the cache is on its way there or found it full.      *)
OneBuildPerRuleSet ==
    /\ \A n \in DOMAIN cache : RequestBuilds(cache[n].rules) = {cache[n].waf}
    /\ \A h \in DOMAIN built :
         \/ built[h].by = "child_init"
         \/ \E n \in DOMAIN cache : cache[n].waf = h
         \/ Len(cache) = CacheMax
         \/ \E t \in Threads : threads[t].pc = "store" /\ Conf(t).waf = h

(* No WAF is given to coraza_free_waf twice, although configurations share *)
(* handles with each other and with their servers, and none is freed while *)
(* a request runs on it.                                                   *)
NoDoubleFree ==
    /\ \A n, m \in DOMAIN freed : freed[n] = freed[m] => n = m
    /\ \A t \in Threads : Serving(t) => threads[t].waf \notin ToSet(freed)

(* A request is inspected only by a library that has every symbol and the  *)
(* tri-state results of 1.8: a child whose coraza_dl_open failed serves no *)
(* request of a scope where Coraza is on.                                  *)
InspectedByUsableEngine ==
    \A t \in Threads :
      Serving(t) => /\ library.present /\ library.exports = Symbols
                    /\ library.version >= 10800

(* After coraza_check_config no request through <Directory> and <Location> *)
(* sections looks inspected without a rule anywhere in the configuration.  *)
ArmedHasRules ==
    \A t \in Threads :
      /\ Serving(t)
      /\ \A x \in ToSet(Requested(t).path) : Kind[x] \in {"directory", "location"}
      => \E n \in DOMAIN text : text[n].cmd = "rules"

(* While the child serves requests the WAF of a server's or section's      *)
(* configuration, once set, is never replaced: no request changes the      *)
(* policy of the next.                                                     *)
PolicyStable ==
    [][phase = "ready" /\ phase' = "ready" =>
         \A x \in Servers \cup Sections :
           confs[x].waf # NoWaf => confs'[x].waf = confs[x].waf]_vars

(* No request waits for ever, for the mutex or for another thread's build. *)
RequestsEnd ==
    \A t \in Threads :
      threads[t].pc # "idle" ~> (threads[t].pc = "idle" \/ phase = "crashed")
=============================================================================
