---------------------------- MODULE HeaderSubmit ----------------------------
(***************************************************************************)
(* How the headers of a request or of a response reach the engine: they    *)
(* are packed into one buffer (coraza_pack_headers) and submitted at once, *)
(* and one by one when that fails.                                         *)
(*                                                                         *)
(* Integers keep their width: size_t counts modulo SizeMod, an int ends at *)
(* IntMax, and a length field is two or four digits of base Base.  A       *)
(* header is the lengths of its name and of its value; each of its bytes   *)
(* in the buffer says whose it is.                                         *)
(***************************************************************************)
EXTENDS Integers, Sequences, SequencesExt

CONSTANTS
    Entries,       \* table entries: [key, name, val, value]
    ContentTypes,  \* lengths of r->content_type, and NoType
    NoType,
    MaxPairs,      \* bound: headers of the tables
    Base,          \* 256
    IntMax,        \* INT_MAX
    SizeMod        \* 2^64

(* An entry has a key or not (key) and a value or not (val), and the       *)
(* lengths of both.                                                        *)
ASSUME EntryAssumption ==
    /\ Entries \subseteq [key : BOOLEAN, name : Nat, val : BOOLEAN, value : Nat]
    /\ ContentTypes \ {NoType} \subseteq Nat

ASSUME WidthAssumption ==
    /\ Base \in Nat /\ Base >= 2
    /\ IntMax \in Nat /\ IntMax >= 6
    /\ IntMax < Base * Base * Base * Base
    /\ SizeMod \in Nat /\ SizeMod > 2 * IntMax

VARIABLES
    dir,      \* "request" or "response"
    pairs,    \* the headers, in order
    pc,       \* where the code is
    i,        \* its loop counter
    total,    \* the size of the buffer
    buf,      \* what has been written to it
    engine    \* the headers the engine has been given

vars == <<dir, pairs, pc, i, total, buf, engine>>

---------------------------------------------------------------------------
(* A missing value is empty.                                               *)
Pair(e) == [name |-> e.name, value |-> IF e.val THEN e.value ELSE 0]

(* The next entry of headers_in or headers_out, or of err_headers_out; one *)
(* without a key is skipped.                                               *)
GatherEntry ==
    /\ pc \in {"gather", "gather_err"}
    /\ Len(pairs) < MaxPairs
    /\ \E e \in Entries : pairs' = IF e.key THEN Append(pairs, Pair(e)) ELSE pairs
    /\ UNCHANGED <<dir, pc, i, total, buf, engine>>

(* The length of "Content-Type", scaled.                                   *)
TypeName == 1

(* Content-Type is not in headers_out; err_headers_out comes after it.     *)
GatherContentType ==
    /\ pc = "gather" /\ dir = "response"
    /\ \E t \in ContentTypes :
         pairs' = IF t = NoType THEN pairs
                  ELSE Append(pairs, [name |-> TypeName, value |-> t])
    /\ pc' = "gather_err"
    /\ UNCHANGED <<dir, i, total, buf, engine>>

(* Every table has been read; without headers there is nothing to submit.  *)
Gathered ==
    /\ \/ pc = "gather" /\ dir = "request"
       \/ pc = "gather_err"
    /\ pc' = IF pairs = <<>> THEN "submitted" ELSE "measure"
    /\ UNCHANGED <<dir, pairs, i, total, buf, engine>>

---------------------------------------------------------------------------
(* coraza_pack_headers: the first loop adds up the size.                   *)

Count == Len(pairs)

(* Mutant: both length fields are taken for two bytes.                     *)
ShortFields(h) == 4 + h.name + h.value

Size(h) == 6 + h.name + h.value
Minus(a, b) == (a - b) % SizeMod

(* Mutant: the name is not taken into account.                             *)
RoomWithoutName(h) ==
    /\ h.name <= Base * Base - 1
    /\ h.value <= IntMax
    /\ total <= IntMax - 6
    /\ h.value <= Minus(IntMax - 6, total)

(* The lengths fit their fields, and the sum an int.                       *)
Fits(h) ==
    /\ h.name <= Base * Base - 1
    /\ h.value <= IntMax
    /\ total <= IntMax - 6
    /\ h.name <= Minus(IntMax - 6, total)
    /\ h.value <= Minus(Minus(IntMax - 6, total), h.name)

Measure ==
    /\ pc = "measure" /\ i <= Count
    /\ \/ /\ Fits(pairs[i])
          /\ total' = (total + Size(pairs[i])) % SizeMod
          /\ i' = i + 1
          /\ pc' = pc
       \/ /\ ~Fits(pairs[i])
          /\ pc' = "one_by_one" /\ i' = 1
          /\ total' = total
    /\ UNCHANGED <<dir, pairs, buf, engine>>

(* A total of 0 would be no buffer; with a header in it there is none.     *)
Allocate ==
    /\ pc = "measure" /\ i > Count
    /\ pc' = IF total = 0 THEN "one_by_one" ELSE "pack"
    /\ i' = 1
    /\ UNCHANGED <<dir, pairs, total, buf, engine>>

Digit(n, place) == (n \div place) % Base
NameField(n) == <<Digit(n, Base), Digit(n, 1)>>

ValueField(n) ==
    <<Digit(n, Base * Base * Base), Digit(n, Base * Base), Digit(n, Base), Digit(n, 1)>>

NameByte(n) == Base + 2 * n
ValueByte(n) == Base + 2 * n + 1
Repeat(byte, n) == [k \in 1 .. n |-> byte]

(* The second loop.                                                        *)
Pack ==
    /\ pc = "pack" /\ i <= Count
    /\ buf' = buf \o NameField(pairs[i].name) \o Repeat(NameByte(i), pairs[i].name)
                  \o ValueField(pairs[i].value) \o Repeat(ValueByte(i), pairs[i].value)
    /\ i' = i + 1
    /\ UNCHANGED <<dir, pairs, pc, total, engine>>

---------------------------------------------------------------------------
(* The engine walks the buffer, one length and its bytes after the other.  *)
NameLen(at) == buf[at] * Base + buf[at + 1]

ValueLen(at) ==
    ((buf[at] * Base + buf[at + 1]) * Base + buf[at + 2]) * Base + buf[at + 3]

(* One header, unless its fields or its bytes pass the end.                *)
WalkHeader(w, len) ==
    LET name == NameLen(w.at)
        value == ValueLen(w.at + 2 + name)
    IN IF ~w.ok \/ w.at + 1 > len \/ w.at + 2 + name + 3 > len
          \/ w.at + 5 + name + value > len
       THEN [w EXCEPT !.ok = FALSE]
       ELSE [at |-> w.at + 6 + name + value, ok |-> TRUE,
             found |-> Append(w.found, [name |-> name, value |-> value])]

Walk(len, count) ==
    LET after[k \in 0 .. count] ==
          IF k = 0 THEN [at |-> 1, ok |-> TRUE, found |-> <<>>]
          ELSE WalkHeader(after[k - 1], len)
    IN after[count]

WellFramed(w, len) == w.ok /\ w.at = len + 1

(* The batch goes to the engine as a length and a count.  It refuses a     *)
(* framing that does not add up, and may fail for reasons of its own after *)
(* it has taken some of the headers.                                       *)
SubmitBulk ==
    /\ pc = "pack" /\ i > Count
    /\ i' = 1
    /\ LET w == Walk(total, Count) IN
       \/ /\ WellFramed(w, total)
          /\ engine' = w.found
          /\ pc' = "submitted"
       \/ /\ \E k \in 0 .. Len(w.found) : engine' = SubSeq(w.found, 1, k)
          /\ pc' = "one_by_one"
    /\ UNCHANGED <<dir, pairs, total, buf>>

(* The (int) of a size_t.                                                  *)
ToInt(n) ==
    LET m == n % (2 * IntMax + 2) IN IF m <= IntMax THEN m ELSE m - (2 * IntMax + 2)

(* Mutant: no header is too long.                                          *)
NeverTooLong(h) == FALSE

TooLong(h) == h.name > IntMax \/ h.value > IntMax

(* One header by itself; the engine may fail on it.                        *)
AddHeader(h, failed) ==
    \/ /\ ~TooLong(h)
       /\ engine' = Append(engine, [name |-> ToInt(h.name), value |-> ToInt(h.value)])
       /\ i' = i + 1 /\ pc' = pc
    \/ /\ engine' = engine
       /\ i' = i /\ pc' = failed

AddRequestHeader ==
    /\ pc = "one_by_one" /\ dir = "request" /\ i <= Count
    /\ AddHeader(pairs[i], "error_500")
    /\ UNCHANGED <<dir, pairs, total, buf>>

AddResponseHeader ==
    /\ pc = "one_by_one" /\ dir = "response" /\ i <= Count
    /\ AddHeader(pairs[i], "fail_closed")
    /\ UNCHANGED <<dir, pairs, total, buf>>

AllAdded ==
    /\ pc = "one_by_one" /\ i > Count
    /\ pc' = "submitted"
    /\ UNCHANGED <<dir, pairs, i, total, buf, engine>>

---------------------------------------------------------------------------
Init ==
    /\ dir \in {"request", "response"}
    /\ pairs = <<>>
    /\ pc = "gather"
    /\ i = 1
    /\ total = 0
    /\ buf = <<>>
    /\ engine = <<>>

Next ==
    \/ GatherEntry \/ GatherContentType \/ Gathered
    \/ Measure \/ Allocate \/ Pack \/ SubmitBulk
    \/ AddRequestHeader \/ AddResponseHeader \/ AllAdded

Spec == Init /\ [][Next]_vars

---------------------------------------------------------------------------
(* Type correctness: for headers of any number and any length the size of  *)
(* the buffer stays an int (coraza_pack_headers).                          *)
TypeOK ==
    /\ dir \in {"request", "response"}
    /\ pc \in {"gather", "gather_err", "measure", "pack", "one_by_one", "submitted",
               "error_500", "fail_closed"}
    /\ pairs \in Seq([name : Nat, value : Nat])
    /\ i \in 1 .. Count + 1
    /\ total \in 0 .. IntMax

(* The buffer is allocated for what is written to it: the second loop      *)
(* never passes its end, and has filled it when it is submitted.           *)
BufferFits ==
    /\ Len(buf) <= total
    /\ pc = "pack" /\ i > Count => Len(buf) = total

(* No header is lost, cut or renamed on its way: what the engine has when  *)
(* the headers are processed ends in the whole header set, and is nothing  *)
(* else when the batch was taken; otherwise the message is refused.        *)
EveryHeaderInspected ==
    pc = "submitted" => /\ IsSuffix(pairs, engine)
                        /\ IsPrefix(SubSeq(engine, 1, Len(engine) - Count), pairs)
=============================================================================
