----------------------------- MODULE RulesScan ------------------------------
(***************************************************************************)
(* The scanner that refuses a directive the engine does not implement when *)
(* the configuration is read: coraza_rules_scan and its helpers, behind    *)
(* coraza_check_rules_text and coraza_check_rules_file.  The text arrives  *)
(* one byte at a time; chunks make no difference to the scanner's state.   *)
(*                                                                         *)
(* Bytes are classes: the five the scanner tells apart, and letters.       *)
(***************************************************************************)
EXTENDS Integers, Sequences, SequencesExt

CONSTANTS
    Letters,      \* every other byte
    Lower,        \* Lower[l]: the letter strncasecmp compares
    Unsupported,  \* coraza_unsupported_directives, in lower case
    WordMax,      \* sizeof(word)
    MaxText       \* bound: bytes of a text

Newline == "newline"
Blank == "blank"
Comment == "#"
Backslash == "backslash"
Backtick == "backtick"
Nul == "nul"

Bytes == Letters \cup {Newline, Blank, Comment, Backslash, Backtick}

(* A directive is a word of letters; one that is cut by a continuation     *)
(* still fits the buffer.                                                  *)
ASSUME WordAssumption ==
    /\ WordMax \in Nat
    /\ \A d \in Unsupported :
         /\ Len(d) \in 1 .. (WordMax - 1)
         /\ \A n \in DOMAIN d : d[n] \notin {Blank, Comment, Backslash, Backtick}

ASSUME LettersAssumption ==
    /\ DOMAIN Lower = Letters
    /\ Letters \cap {Newline, Blank, Comment, Backslash, Backtick, Nul} = {}

VARIABLES
    scan,    \* the coraza_rules_scan_t
    result,  \* "scanning", "refused", "accepted" or "unread"
    input    \* the bytes read so far

vars == <<scan, result, input>>

---------------------------------------------------------------------------
coraza_rules_scan_init ==
    [line |-> 1, rec_line |-> 0, in_record |-> FALSE, in_backticks |-> FALSE,
     word_done |-> FALSE, first |-> Nul, last |-> Nul, word |-> <<>>]

Fold(c) == IF c \in Letters THEN Lower[c] ELSE c

Folded(word) == [n \in DOMAIN word |-> Fold(word[n])]

(* The record is complete: is its directive one we refuse?                 *)
coraza_rules_scan_word(s) == Folded(s.word) \in Unsupported

(* Mutant: a comment counts as a line of the record.                       *)
OnlyBlankIgnored(s) == s.first = Nul

(* Blank lines and comments are ignored wherever they appear.              *)
Ignored(s) == s.first \in {Nul, Comment}

(* A line ending in a backtick opens an action list, one that starts with  *)
(* a backtick closes it.                                                   *)
InBackticks(s) ==
    IF s.in_backticks THEN s.first # Backtick ELSE s.last = Backtick

(* Mutant: the backslash of a continuation stays in the word.              *)
BackslashKept(s) == s

(* The backslash is dropped, the next line is glued to the word.           *)
DropBackslash(s) ==
    IF ~s.word_done /\ s.word # <<>> /\ Last(s.word) = Backslash
    THEN [s EXCEPT !.word = Front(@)] ELSE s

Continues(s) == InBackticks(s) \/ s.last = Backslash

LineState(s) == [s EXCEPT !.first = Nul, !.last = Nul]

(* A physical line is complete: the state after it...                      *)
coraza_rules_scan_eol(s) ==
    LET open == InBackticks(s)
        kept == IF open \/ s.last # Backslash THEN s ELSE DropBackslash(s)
    IN IF Ignored(s) THEN LineState(s)
       ELSE LET t == [LineState(kept) EXCEPT !.in_backticks = open] IN
            IF Continues(s) THEN t
            ELSE [t EXCEPT !.in_record = FALSE, !.word_done = FALSE, !.word = <<>>]

(* ...and whether it completes a record that is refused.                   *)
EolRefuses(s) == ~Ignored(s) /\ ~Continues(s) /\ coraza_rules_scan_word(s)

(* Mutant: one byte more than the word has room for.                       *)
CollectPastEnd(s, c) ==
    IF Len(s.word) <= WordMax THEN [s EXCEPT !.word = Append(@, c)]
    ELSE [s EXCEPT !.word = <<>>, !.word_done = TRUE]

(* A word that does not fit is too long to be a directive we know.         *)
Collect(s, c) ==
    IF Len(s.word) < WordMax THEN [s EXCEPT !.word = Append(@, c)]
    ELSE [s EXCEPT !.word = <<>>, !.word_done = TRUE]

(* A blank after the word ends it.                                         *)
ScanBlank(s) ==
    IF ~Ignored(s) /\ s.word # <<>> THEN [s EXCEPT !.word_done = TRUE] ELSE s

(* The first byte of a line that is no comment starts a record, unless one *)
(* is being assembled.                                                     *)
ScanByte(s, c) ==
    LET starts == s.first = Nul /\ c # Comment /\ ~s.in_record
        t == [s EXCEPT
               !.first = IF @ = Nul THEN c ELSE @,
               !.last = c,
               !.in_record = @ \/ starts,
               !.rec_line = IF starts THEN s.line ELSE @]
    IN IF t.first = Comment \/ t.word_done THEN t ELSE Collect(t, c)

coraza_rules_scan(s, c) ==
    CASE c = Newline -> [coraza_rules_scan_eol(s) EXCEPT !.line = @ + 1]
      [] c = Blank -> ScanBlank(s)
      [] OTHER -> ScanByte(s, c)

(* End of input: the last line may lack its newline, and an action list    *)
(* left open is judged on what it has.                                     *)
DoneRefuses(s) ==
    \/ EolRefuses(s)
    \/ LET t == coraza_rules_scan_eol(s) IN
       t.in_backticks /\ coraza_rules_scan_word(t)

---------------------------------------------------------------------------
Init ==
    /\ scan = coraza_rules_scan_init
    /\ result = "scanning"
    /\ input = <<>>

(* The next byte; a refused record ends the scan, its state is only read   *)
(* for the message then.                                                   *)
Feed ==
    /\ result = "scanning"
    /\ Len(input) < MaxText
    /\ \E c \in Bytes :
         /\ input' = Append(input, c)
         /\ \/ /\ c = Newline /\ EolRefuses(scan)
               /\ result' = "refused"
               /\ scan' = coraza_rules_scan_eol(scan)
            \/ /\ ~(c = Newline /\ EolRefuses(scan))
               /\ result' = result
               /\ scan' = coraza_rules_scan(scan, c)

coraza_rules_scan_done ==
    /\ result = "scanning"
    /\ result' = IF DoneRefuses(scan) THEN "refused" ELSE "accepted"
    /\ scan' = coraza_rules_scan_eol(scan)
    /\ input' = input

(* A rules file cannot be opened or read to its end: it is left to the     *)
(* children.                                                               *)
Unreadable ==
    /\ result = "scanning"
    /\ result' = "unread"
    /\ UNCHANGED <<scan, input>>

Next == Feed \/ coraza_rules_scan_done \/ Unreadable

Spec == Init /\ [][Next]_vars

---------------------------------------------------------------------------
(* How the engine assembles its records, on the whole text.                *)

(* The lines of a text, without their newlines.                            *)
AddByte(ls, c) ==
    IF c = Newline THEN Append(ls, <<>>)
    ELSE Append(Front(ls), Append(Last(ls), c))

Lines(text) == FoldLeft(AddByte, <<<<>>>>, text)

Solid(l) == {n \in DOMAIN l : l[n] # Blank}
Trim(l) ==
    IF Solid(l) = {} THEN <<>> ELSE SubSeq(l, Min(Solid(l)), Max(Solid(l)))

FirstWord(record) ==
    LET blanks == {n \in DOMAIN record : record[n] = Blank}
    IN IF blanks = {} THEN record ELSE SubSeq(record, 1, Min(blanks) - 1)

IsRefused(record) == Folded(FirstWord(record)) \in Unsupported

(* One more line for the record being assembled; from is where the record  *)
(* started, bad where the refused ones did.                                *)
NoRecord ==
    [line |-> 0, record |-> <<>>, list |-> FALSE, more |-> FALSE, from |-> 0, bad |-> {}]

AddSolid(r, l) ==
    LET list == IF r.list THEN l[1] # Backtick ELSE Last(l) = Backtick
        more == list \/ Last(l) = Backslash
        from == IF r.more THEN r.from ELSE r.line + 1
        glued == r.record \o (IF ~list /\ Last(l) = Backslash THEN Front(l) ELSE l)
    IN [line |-> r.line + 1, record |-> IF more THEN glued ELSE <<>>,
        list |-> list, more |-> more, from |-> from,
        bad |-> r.bad \cup IF ~more /\ IsRefused(glued) THEN {from} ELSE {}]

AddLine(r, line) ==
    LET l == Trim(line) IN
    IF l = <<>> \/ l[1] = Comment THEN [r EXCEPT !.line = @ + 1] ELSE AddSolid(r, l)

Assembled(ls) == FoldLeft(AddLine, NoRecord, ls)

(* The lines where the refused records start.                              *)
RefusedLines(text) ==
    LET r == Assembled(Lines(text))
    IN r.bad \cup IF r.list /\ IsRefused(r.record) THEN {r.from} ELSE {}

(* Somewhere a blank stands between a line's last backslash and its end.   *)
EndsInBackslashBlank(l) == Trim(l) # <<>> /\ Last(Trim(l)) = Backslash /\ Last(l) = Blank

BlankAfterBackslash(text) == \E l \in ToSet(Lines(text)) : EndsInBackslashBlank(l)

---------------------------------------------------------------------------
(* Type correctness: whatever the text, the first word stays inside its    *)
(* fixed buffer (coraza_rules_scan).                                       *)
TypeOK ==
    /\ scan \in [line : Nat, rec_line : Nat, in_record : BOOLEAN,
                 in_backticks : BOOLEAN, word_done : BOOLEAN,
                 first : Bytes \cup {Nul}, last : Bytes \cup {Nul}, word : Seq(Bytes)]
    /\ Len(scan.word) <= WordMax
    /\ result \in {"scanning", "refused", "accepted", "unread"}

(* A text is refused only for a record the engine would refuse, however    *)
(* lines, comments, continuations and action lists fall, and the line in   *)
(* the message is the line where that record starts.  It is the first such *)
(* record, unless a blank follows the backslash of a continuation.         *)
RefusalIsReal ==
    result = "refused" =>
      /\ scan.rec_line \in RefusedLines(input)
      /\ BlankAfterBackslash(input) \/ RefusedLines(input) = {scan.rec_line}

(* A text that is accepted holds no record the engine would refuse, unless *)
(* a blank follows the backslash of a continuation.                        *)
AcceptedIsClean ==
    result = "accepted" /\ ~BlankAfterBackslash(input) => RefusedLines(input) = {}
=============================================================================
