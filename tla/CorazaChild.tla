---------------------------- MODULE CorazaChild ----------------------------
(***************************************************************************)
(* The life of a child process: coraza_dl_open, coraza_child_init, which   *)
(* builds a WAF for every server and for every merged virtual host, and    *)
(* coraza_child_exit, which frees them.                                    *)
(*                                                                         *)
(* A WAF handle is a position in built, which records what each WAF was    *)
(* compiled from; NoWaf is the null handle.                                *)
(***************************************************************************)
EXTENDS CorazaConfig, FiniteSetsExt

CONSTANTS
    Libraries,    \* what dlopen may find: [present, exports, version]
    MaxFailures   \* bound: WAF builds that fail in one behaviour

VARIABLES
    library,   \* the library that was looked for
    built,     \* the WAFs made, each as [rules, by]
    failures,  \* the number of builds that failed
    freed,     \* the handles given to coraza_free_waf, in order
    loop       \* the loop counter i of coraza_child_init

childVars == <<library, built, failures, freed, loop>>

---------------------------------------------------------------------------
(* The symbols as coraza_dl_open resolves them: those every version has,   *)
(* coraza_version_num and coraza_is_response_body_accessible.              *)
Symbols == {"core", "version", "accessible"}

ASSUME LibrariesAssumption ==
    Libraries \subseteq [present : BOOLEAN, exports : SUBSET Symbols, version : Nat]

dynlib_sym(lib, name) == name \in lib.exports

VersionNum(lib) == IF dynlib_sym(lib, "version") THEN lib.version ELSE 0

(* Mutant: the version gate is gone, the symbols decide.                   *)
AnyVersion(lib) == lib.present /\ \A name \in Symbols : dynlib_sym(lib, name)

(* coraza_dl_open returns OK.                                              *)
Usable(lib) ==
    /\ lib.present
    /\ dynlib_sym(lib, "core")
    /\ VersionNum(lib) >= 10800
    /\ dynlib_sym(lib, "accessible")

(* A child without its library goes on, with the module disabled: no       *)
(* mutex, no WAF, nothing to clean up at its exit.                         *)
coraza_dl_open ==
    /\ phase = "loading"
    /\ \E lib \in Libraries :
         /\ library' = lib
         /\ phase' = IF Usable(lib) THEN "servers" ELSE "disabled"
    /\ UNCHANGED <<text, pos, made, own, confs, scfs, tracked>>
    /\ UNCHANGED <<built, failures, freed, loop>>

---------------------------------------------------------------------------
NewWaf == Len(built) + 1

coraza_new_waf(rules, by) ==
    /\ built' = Append(built, [rules |-> rules, by |-> by])
    /\ failures' = failures

BuildFails ==
    /\ failures < MaxFailures
    /\ failures' = failures + 1
    /\ built' = built

(* The handle waf made from the rules: the null handle when a rule or a    *)
(* file cannot be added or the engine refuses them together.               *)
coraza_build_waf(rules, by, waf) ==
    \/ waf = NoWaf /\ BuildFails
    \/ waf = NewWaf /\ rules # <<>> /\ coraza_new_waf(rules, by)

(* A WAF without rules, for a server that has none; when not even its      *)
(* configuration can be made the handle stays as it was.                   *)
EmptyWaf(old, waf) ==
    \/ waf \in {NoWaf, old} /\ BuildFails
    \/ waf = NewWaf /\ coraza_new_waf(<<>>, "child_init")

(* Step 2 of coraza_child_init, for one server.  The WAF is shared with    *)
(* the server's base configuration, so that requests inherit it.           *)
BuildServerWaf ==
    /\ phase = "servers"
    /\ LET s == ServerList[loop]
           c == ServerConf(s)
           base == Defaults(s)
       IN \E waf \in {NoWaf, NewWaf, scfs[c].waf} :
            /\ IF scfs[c].rules # <<>>
               THEN coraza_build_waf(scfs[c].rules, "child_init", waf)
               ELSE EmptyWaf(scfs[c].waf, waf)
            /\ scfs' = [scfs EXCEPT ![c].waf = waf]
            /\ confs' = [confs EXCEPT ![base].waf =
                           IF @ = NoWaf THEN waf ELSE @]
    /\ IF loop < Len(ServerList)
       THEN loop' = loop + 1 /\ phase' = phase
       ELSE loop' = 1 /\ phase' = "dirs"
    /\ UNCHANGED <<text, pos, made, own, tracked, library, freed>>

HasRules(conf) == conf.has_rules /\ conf.rules # <<>>

(* The tracked configurations before this one that have a WAF for the same *)
(* rules array.                                                            *)
SameArray ==
    {j \in 1 .. (loop - 1) : /\ confs[tracked[j]].array = confs[tracked[loop]].array
                          /\ confs[tracked[j]].waf # NoWaf}

(* Step 3, for one tracked configuration.                                  *)
BuildDirWaf ==
    /\ phase = "dirs"
    /\ loop <= Len(tracked)
    /\ LET x == tracked[loop] IN
       \/ /\ ~HasRules(confs[x])
          /\ UNCHANGED <<confs, built, failures>>
       \/ /\ HasRules(confs[x])
          /\ SameArray # {}
          /\ confs' = [confs EXCEPT ![x].waf = confs[tracked[Min(SameArray)]].waf]
          /\ UNCHANGED <<built, failures>>
       \/ /\ HasRules(confs[x])
          /\ SameArray = {}
          /\ \E waf \in {NoWaf, NewWaf} :
               /\ coraza_build_waf(confs[x].rules, "child_init", waf)
               /\ confs' = [confs EXCEPT ![x].waf = waf]
    /\ loop' = loop + 1
    /\ UNCHANGED <<phase, text, pos, made, own, scfs, tracked, library, freed>>

(* The tracked configurations are frozen and the child starts its threads. *)
ChildReady ==
    /\ phase = "dirs"
    /\ loop > Len(tracked)
    /\ phase' = "ready"
    /\ UNCHANGED <<text, pos, made, own, confs, scfs, tracked>>
    /\ UNCHANGED childVars

coraza_child_init ==
    coraza_dl_open \/ BuildServerWaf \/ BuildDirWaf \/ ChildReady

---------------------------------------------------------------------------
SharedWithServer(waf) == \E s \in Servers : scfs[ServerConf(s)].waf = waf

(* Mutant: a configuration that shares its server's WAF is not skipped.    *)
TakeAnyDir(wafs, x) ==
    LET waf == confs[x].waf IN
    IF waf = NoWaf \/ waf \in ToSet(wafs) THEN wafs ELSE Append(wafs, waf)

(* A tracked configuration's WAF is freed unless a server has it or an     *)
(* earlier configuration did.                                              *)
TakeDir(wafs, x) ==
    LET waf == confs[x].waf IN
    IF waf = NoWaf \/ SharedWithServer(waf) \/ waf \in ToSet(wafs)
    THEN wafs ELSE Append(wafs, waf)

UniqueDirWafs == FoldLeft(TakeDir, <<>>, tracked)

(* The handle is cleared as it is freed: a configuration that several      *)
(* servers share is freed once.                                            *)
TakeServer(wafs, s) ==
    IF s \in own /\ scfs[s].waf # NoWaf THEN Append(wafs, scfs[s].waf) ELSE wafs

ServerWafs == FoldLeft(TakeServer, <<>>, ServerList)

coraza_free_waf(wafs) == freed' = freed \o wafs

(* A Go runtime cannot be unloaded: the library stays.                     *)
coraza_dl_close == library' = library

(* Configurations first, then servers; the handles are cleared.            *)
coraza_child_exit ==
    /\ phase = "ready"
    /\ phase' = "exited"
    /\ coraza_free_waf(UniqueDirWafs \o ServerWafs)
    /\ coraza_dl_close
    /\ confs' = [x \in DOMAIN confs |->
         IF x \in ToSet(tracked) THEN [confs[x] EXCEPT !.waf = NoWaf] ELSE confs[x]]
    /\ scfs' = [s \in Servers |-> [scfs[s] EXCEPT !.waf = NoWaf]]
    /\ UNCHANGED <<text, pos, made, own, tracked, built, failures, loop>>

(* A disabled child has registered no cleanup.                             *)
DisabledExit ==
    /\ phase = "disabled"
    /\ phase' = "exited"
    /\ UNCHANGED <<text, pos, made, own, confs, scfs, tracked>>
    /\ UNCHANGED childVars

(* A child that has not looked for its library yet.                        *)
NoLibrary == [present |-> FALSE, exports |-> {}, version |-> 0]

ChildInit ==
    /\ library = NoLibrary
    /\ built = <<>>
    /\ failures = 0
    /\ freed = <<>>
    /\ loop = 1
=============================================================================
