---------------------------- MODULE CorazaConfig ----------------------------
(***************************************************************************)
(* The configuration part of mod_coraza.c: the per-directory and           *)
(* per-server configurations, the directive handlers that fill them while  *)
(* the parent process reads its configuration, the merge of two            *)
(* directories, and the whole-configuration check before the children are  *)
(* forked.                                                                 *)
(*                                                                         *)
(* What httpd does around these callbacks is external: it creates a        *)
(* configuration where the first directive of the module appears, shares   *)
(* that of the main server with a virtual host that has none, and merges   *)
(* the virtual hosts when everything has been read.                        *)
(***************************************************************************)
EXTENDS Integers, Sequences, SequencesExt

CONSTANTS
    ServerList,  \* the server_recs in list order, the main server first
    Sections,    \* sections and .htaccess files
    Kind,        \* Kind[sec]: "directory", "location", "files" or "htaccess"
    Threads,     \* the worker threads of a child
    Texts,       \* configurations: sequences of directives
    Refused,     \* rule texts with a directive the engine does not implement
    NoConf       \* the null merge_child

Servers == ToSet(ServerList)
Main == ServerList[1]

ASSUME NamesAssumption ==
    /\ ServerList \in Seq(Servers) /\ ServerList # <<>>
    /\ \A n, m \in DOMAIN ServerList : ServerList[n] = ServerList[m] => n = m
    /\ Servers \cap Sections = {}
    /\ (Servers \cup Sections) \cap Threads = {}
    /\ NoConf \notin Servers \cup Sections \cup Threads
    /\ Kind \in [Sections -> {"directory", "location", "files", "htaccess"}]

(* A directive is [server, scope, cmd, arg]; scope is the server itself    *)
(* outside any section (cmd->path == NULL).                                *)
IsDirective(d) ==
    /\ d.server \in Servers
    /\ d.scope \in Sections \cup {d.server}
    /\ \/ d.cmd = "enable" /\ d.arg \in {0, 1}
       \/ d.cmd = "transaction_id" /\ d.arg \in Nat
       \/ d.cmd = "body_mem_limit" /\ d.arg \in Int
       \/ d.cmd = "rules" /\ d.arg \in STRING

AreDirectives(ds) == ds \in Seq(ToSet(ds)) /\ \A d \in ToSet(ds) : IsDirective(d)

ASSUME TextsAssumption == \A ds \in Texts : AreDirectives(ds)

VARIABLES
    phase,    \* what the process is doing
    text,     \* the configuration: a sequence of directives
    pos,      \* the directive to be read next
    made,     \* the scopes that have a coraza_dir_conf_t of their own
    own,      \* the servers that have a coraza_server_conf_t of their own
    confs,    \* the coraza_dir_conf_t of each scope and of each thread's request
    scfs,     \* the coraza_server_conf_t of each server
    tracked   \* g_tracked_dir_confs, frozen as g_config_dir_confs

configVars == <<phase, text, pos, made, own, confs, scfs, tracked>>

---------------------------------------------------------------------------
Unset == -1
NoWaf == 0

(* array is the identity of the rules array: the configuration it was made *)
(* for.                                                                    *)
coraza_create_dir_conf(name) ==
    [enable |-> Unset, transaction_id |-> Unset, body_mem_limit |-> Unset,
     rules |-> <<>>, array |-> name, has_rules |-> FALSE,
     waf |-> NoWaf, merge_child |-> NoConf]

coraza_create_server_conf == [rules |-> <<>>, collected |-> 0, waf |-> NoWaf]

(* Mutant: the outer setting wins.                                         *)
ParentWins(parent, child) == IF parent # Unset THEN parent ELSE child

(* A setting of the child overrides the parent's when it is set.           *)
Override(parent, child) == IF child # Unset THEN child ELSE parent

(* Mutant: the child's own rules are evaluated first.                      *)
ChildFirst(p, c, childName, name) ==
    [rules |-> c.rules \o p.rules, array |-> name, has_rules |-> TRUE,
     waf |-> c.waf, merge_child |-> childName]

(* Both have rules: the parent's come first, and the WAF is kept with the  *)
(* child.                                                                  *)
MergeBoth(p, c, childName, name) ==
    [rules |-> p.rules \o c.rules, array |-> name, has_rules |-> TRUE,
     waf |-> c.waf, merge_child |-> childName]

(* One has rules: its array and its WAF are shared.                        *)
Inherit(x) ==
    [rules |-> x.rules, array |-> x.array, has_rules |-> x.has_rules,
     waf |-> x.waf, merge_child |-> NoConf]

MergeRules(p, c, childName, name) ==
    CASE p.rules # <<>> /\ c.rules # <<>> -> MergeBoth(p, c, childName, name)
      [] p.rules # <<>> /\ c.rules = <<>> -> Inherit(p)
      [] p.rules = <<>> /\ c.rules # <<>> -> Inherit(c)
      [] OTHER -> Inherit(coraza_create_dir_conf(name))

(* The configuration called name, merged from p and c.  childName is the   *)
(* child when another merge may use it too, NoConf when it is private.     *)
coraza_merge_dir_conf(p, c, childName, name) ==
    LET r == MergeRules(p, c, childName, name) IN
    [enable |-> Override(p.enable, c.enable),
     transaction_id |-> Override(p.transaction_id, c.transaction_id),
     body_mem_limit |-> Override(p.body_mem_limit, c.body_mem_limit),
     rules |-> r.rules, array |-> r.array, has_rules |-> r.has_rules,
     waf |-> r.waf, merge_child |-> r.merge_child]

---------------------------------------------------------------------------
(* Where a server finds its configurations.                                *)
Defaults(s) == IF s \in made THEN s ELSE Main
ServerConf(s) == IF s \in own THEN s ELSE Main

(* The directive handlers, each as what it does to the configuration of    *)
(* the scope the directive stands in.                                      *)
cmd_coraza_enable(conf, arg) == [conf EXCEPT !.enable = arg]
cmd_coraza_transaction_id(conf, arg) == [conf EXCEPT !.transaction_id = arg]
cmd_coraza_body_mem_limit(conf, arg) == [conf EXCEPT !.body_mem_limit = arg]
(* CorazaRules, CorazaRulesFile and every Sec* directive.                  *)
cmd_coraza_rules(conf, arg) ==
    [conf EXCEPT !.rules = Append(@, arg), !.has_rules = TRUE]

ApplyDirective(conf, d) ==
    CASE d.cmd = "enable" -> cmd_coraza_enable(conf, d.arg)
      [] d.cmd = "transaction_id" -> cmd_coraza_transaction_id(conf, d.arg)
      [] d.cmd = "body_mem_limit" -> cmd_coraza_body_mem_limit(conf, d.arg)
      [] d.cmd = "rules" -> cmd_coraza_rules(conf, d.arg)

(* Every rule is counted for its server; one outside a section also goes   *)
(* to the rules of the server's fallback WAF.                              *)
CountRule(scf, d) ==
    IF d.cmd # "rules" THEN scf
    ELSE [scf EXCEPT !.collected = @ + 1,
            !.rules = IF d.scope = d.server THEN Append(@, d.arg) ELSE @]

(* The directive handler reports an error.                                 *)
DirectiveRefused(d) ==
    \/ d.cmd = "rules" /\ d.arg \in Refused
    \/ d.cmd = "body_mem_limit" /\ d.arg < 0

(* coraza_create_server_conf starts a new tracking array.                  *)
ReadDirective ==
    /\ phase = "reading"
    /\ pos <= Len(text)
    /\ LET d == text[pos] IN
       /\ pos' = pos + 1
       /\ made' = made \cup {d.scope}
       /\ own' = own \cup {d.server}
       /\ tracked' = IF d.server \in own THEN tracked ELSE <<>>
       /\ IF DirectiveRefused(d)
          THEN phase' = "refused" /\ UNCHANGED <<confs, scfs>>
          ELSE /\ phase' = phase
               /\ confs' = [confs EXCEPT ![d.scope] = ApplyDirective(@, d)]
               /\ scfs' = [scfs EXCEPT ![d.server] = CountRule(@, d)]
    /\ text' = text

(* A merged virtual host is tracked.                                       *)
TrackMade(list, s) == IF s \in made THEN Append(list, s) ELSE list

(* ap_fixup_virtual_hosts: nothing refers to the virtual host's unmerged   *)
(* configuration afterwards.                                               *)
FixupVirtualHosts ==
    /\ phase = "reading"
    /\ pos > Len(text)
    /\ confs' = [x \in DOMAIN confs |->
         IF x \in ToSet(Tail(ServerList)) \cap made
         THEN coraza_merge_dir_conf(confs[Main], confs[x], NoConf, x)
         ELSE confs[x]]
    /\ tracked' = FoldLeft(TrackMade, tracked, Tail(ServerList))
    /\ phase' = "checking"
    /\ UNCHANGED <<text, pos, made, own, scfs>>

---------------------------------------------------------------------------
coraza_config_has_rules == \E s \in Servers : scfs[ServerConf(s)].collected > 0

(* Mutant: the <Location> vectors are not looked at.                       *)
EnabledOutsideLocations ==
    \/ \E s \in Servers : confs[Defaults(s)].enable = 1
    \/ \E x \in Sections : Kind[x] = "directory" /\ confs[x].enable = 1

(* "Coraza On" at server level or in a <Directory> or <Location> section.  *)
coraza_config_enabled_where ==
    \/ \E s \in Servers : confs[Defaults(s)].enable = 1
    \/ \E x \in Sections :
         Kind[x] \in {"directory", "location"} /\ confs[x].enable = 1

coraza_check_config ==
    /\ phase = "checking"
    /\ phase' = IF coraza_config_enabled_where /\ ~coraza_config_has_rules
                THEN "refused" ELSE "loading"
    /\ UNCHANGED <<text, pos, made, own, confs, scfs, tracked>>

ConfigInit ==
    /\ phase = "reading"
    /\ text \in Texts
    /\ pos = 1
    /\ made = {Main}
    /\ own = {Main}
    /\ confs = [x \in Servers \cup Sections \cup Threads |->
                  coraza_create_dir_conf(x)]
    /\ scfs = [s \in Servers |-> coraza_create_server_conf]
    /\ tracked = <<>>

ReadConfig == ReadDirective \/ FixupVirtualHosts \/ coraza_check_config
=============================================================================
