----------------------------- MODULE MCWafStore -----------------------------
(* Small instances of WafStore for TLC.                                    *)
EXTENDS WafStore

D(server, scope, cmd, arg) ==
    [server |-> server, scope |-> scope, cmd |-> cmd, arg |-> arg]

CONSTANTS main, vhost1, vhost2, dir, loc, files, ht, badht

MCServerList == <<main, vhost1, vhost2>>
MCSections == {dir, loc, files, ht, badht}
MCKind == (dir :> "directory") @@ (loc :> "location") @@ (files :> "files")
          @@ (ht :> "htaccess") @@ (badht :> "htaccess")

U(server, path) == [server |-> server, path |-> path]
On(x) == D(x, x, "enable", 1)

(* Server-level rules, a section with its own and one that is off.         *)
TextInherit ==
    <<On(main), D(main, main, "rules", "base"), D(main, main, "transaction_id", 1),
      D(main, loc, "rules", "own"), D(main, loc, "body_mem_limit", 0),
      D(main, loc, "transaction_id", 2), D(main, dir, "enable", 0),
      D(main, main, "body_mem_limit", 2)>>

(* Two virtual hosts that only switch Coraza on: they share main's rules.  *)
TextShare == <<D(main, main, "rules", "base"), On(vhost1), On(vhost2)>>

(* Virtual hosts with rules of their own around one <Location>.            *)
TextVhosts ==
    <<On(main), D(main, loc, "rules", "own"), D(vhost1, vhost1, "rules", "v1"),
      D(vhost2, vhost2, "rules", "v2")>>

(* Rules in sections only: the servers run on empty WAFs.                  *)
TextSections ==
    <<On(vhost1), D(main, loc, "enable", 1), D(main, loc, "rules", "own"),
      D(vhost2, files, "rules", "dir")>>

(* Coraza is on, in a section, and there is no rule.                       *)
TextUnarmed == <<D(main, loc, "enable", 1), D(main, loc, "transaction_id", 1)>>

(* Texts a directive handler refuses.                                      *)
TextRefused == <<On(main), D(main, loc, "rules", "remote")>>
TextBadLimit == <<D(main, main, "body_mem_limit", -5)>>

(* .htaccess files add to the rules of a directory.                        *)
TextOverride ==
    <<On(main), D(main, main, "rules", "base"), D(main, dir, "rules", "dir"),
      D(main, files, "rules", "files")>>

MCTexts == {TextInherit, TextShare, TextVhosts, TextSections, TextUnarmed,
            TextRefused, TextBadLimit, TextOverride}
VhostTexts == {TextVhosts}
FailureTexts == {TextInherit}

(* A section of a virtual host is on the paths of that host only.          *)
MCUrls == {U(main, <<>>), U(vhost1, <<loc>>), U(vhost2, <<dir, loc>>),
           U(main, <<dir, ht>>), U(vhost2, <<files>>),
           U(main, <<loc, badht>>)}

HtRules(x, arg) == <<D(main, x, "rules", arg)>>
MCHtText == (ht :> HtRules(ht, "ht")) @@ (badht :> HtRules(badht, "remote"))

MCRefused == {"remote"}

(* A hash that collides whenever two rule sets have the same length.       *)
MCHash(rules) == Len(rules)

Engine == [present |-> TRUE, exports |-> {"core", "version", "accessible"},
           version |-> 10800]
MCLibraries ==
    {Engine, [Engine EXCEPT !.present = FALSE], [Engine EXCEPT !.version = 10799],
     [Engine EXCEPT !.exports = {"core", "accessible"}],
     [Engine EXCEPT !.exports = {"core", "version"}],
     [Engine EXCEPT !.exports = {"version", "accessible"}]}
OneLibrary == {Engine}
=============================================================================
