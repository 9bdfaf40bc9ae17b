----------------------------- MODULE BodyReplay -----------------------------
(***************************************************************************)
(* The request body in detail: the loop of the fixups hook that keeps a    *)
(* copy of it, in memory up to CorazaRequestBodyInMemoryLimit and in a     *)
(* spool file past it, and coraza_replay_saved_body, which answers each    *)
(* read mode of httpd from that copy.                                      *)
(*                                                                         *)
(* A byte is its position in the body; lineEnds says which are LF.  A      *)
(* bucket is the sequence of bytes it holds; EOS is a bucket without any.  *)
(***************************************************************************)
EXTENDS Integers, Sequences, SequencesExt

CONSTANTS
    MaxBody,    \* bound: bytes of a body
    LineEnds,   \* sets of positions that hold an LF
    MemLimits,  \* body_mem_limit
    ReadChunk,  \* CORAZA_BODY_READ_CHUNK
    MaxLine,    \* HUGE_STRING_LEN
    MaxRead     \* bound: the most a handler asks for

ASSUME SizesAssumption ==
    /\ MaxBody \in Nat /\ ReadChunk \in Nat /\ MaxRead \in Nat
    /\ MaxLine \in Nat \ {0}
    /\ MemLimits \subseteq Nat

VARIABLES
    stage,      \* "reading", "replay", "aside", "denied", "refused", "failed"
    body, lineEnds, mem_limit,
    nread,      \* bytes the hook has read
    saved,      \* ctx->saved_body
    spool,      \* the spool file: one sequence of bytes, or none
    got, ended, shown   \* what the handler has read and seen

vars == <<stage, body, lineEnds, mem_limit, nread, saved, spool, got, ended, shown>>

NoSpool == <<>>
EOS == <<>>

IsEOS(bucket) == bucket = EOS
Bytes(brigade) == FlattenSeq(brigade)
HasEOS(brigade) == \E n \in DOMAIN brigade : IsEOS(brigade[n])

---------------------------------------------------------------------------
(* The hook reads the body.                                                *)

(* Mutant: a chunk that still fits goes to memory after the file is open.  *)
FitsAnyway(n) == Len(Bytes(saved)) + n <= mem_limit

FitsInMemory(n) == spool = NoSpool /\ Len(Bytes(saved)) + n <= mem_limit

KeepChunk ==
    /\ stage = "reading"
    /\ nread < Len(body)
    /\ \E n \in 1 .. ReadChunk :
         /\ nread + n <= Len(body)
         /\ LET chunk == SubSeq(body, nread + 1, nread + n) IN
            \/ /\ FitsInMemory(n)
               /\ saved' = Append(saved, chunk)
               /\ spool' = spool
            \/ /\ ~FitsInMemory(n)
               /\ spool' = spool \o chunk
               /\ saved' = saved
         /\ nread' = nread + n
    /\ UNCHANGED <<stage, body, lineEnds, mem_limit, got, ended, shown>>

(* The read, the copy, the spool file or the engine fails, or a rule       *)
(* denies: the hook returns before it has inserted CORAZA_IN.              *)
GiveUp ==
    /\ stage = "reading"
    /\ stage' = "refused"
    /\ UNCHANGED <<body, lineEnds, mem_limit, nread, saved, spool, got, ended, shown>>

(* Mutant: the in-memory head follows the spooled tail.                    *)
TailFirst == (IF spool = NoSpool THEN <<>> ELSE <<spool>>) \o Append(saved, EOS)

(* Mutant: the end is put before the spooled tail.                         *)
EndBeforeSpool == Append(saved, EOS) \o (IF spool = NoSpool THEN <<>> ELSE <<spool>>)

(* The spooled tail follows the in-memory head, then the end.              *)
WholeCopy == saved \o (IF spool = NoSpool THEN <<>> ELSE <<spool>>) \o <<EOS>>

(* The body is complete and CORAZA_IN replays it, unless phase 2 denies.   *)
BodyComplete ==
    /\ stage = "reading"
    /\ nread = Len(body)
    /\ saved' = WholeCopy
    /\ stage' \in {"replay", "denied"}
    /\ UNCHANGED <<body, lineEnds, mem_limit, nread, spool, got, ended, shown>>

---------------------------------------------------------------------------
(* Brigades: what the buckets of APR do, as far as the filter relies on    *)
(* them.                                                                   *)

(* The place of the bucket that holds the n-th byte, 0 if there are fewer. *)
BucketOf(brigade, n) ==
    LET Upto(k) == Len(Bytes(SubSeq(brigade, 1, k)))
        reach == {k \in DOMAIN brigade : Upto(k) >= n}
    IN IF reach = {} THEN 0 ELSE CHOOSE k \in reach : \A j \in reach : k <= j

(* apr_brigade_partition: <<before, after>> the n-th byte; the bucket that *)
(* holds it is split.  The end is not part of what comes before.           *)
Partition(brigade, n) ==
    LET k == BucketOf(brigade, n)
        before == Len(Bytes(SubSeq(brigade, 1, k - 1)))
        cut == n - before
        bucket == brigade[k]
        tail == SubSeq(bucket, cut + 1, Len(bucket))
    IN << Append(SubSeq(brigade, 1, k - 1), SubSeq(bucket, 1, cut)),
          (IF tail = <<>> THEN <<>> ELSE <<tail>>) \o
            SubSeq(brigade, k + 1, Len(brigade)) >>

(* It returns APR_INCOMPLETE.                                              *)
Incomplete(brigade, n) == BucketOf(brigade, n) = 0

(* apr_brigade_split_line: bytes up to the first LF, or whole buckets      *)
(* until MaxLine bytes or the end.                                         *)
SplitLine(brigade) ==
    LET all == Bytes(brigade)
        lf == {n \in DOMAIN all : all[n] \in lineEnds}
        line == IF lf = {} THEN Len(all) + 1 ELSE CHOOSE n \in lf : \A m \in lf : n <= m
        full == BucketOf(brigade, MaxLine)
        fullLen == Len(Bytes(SubSeq(brigade, 1, full)))
    IN IF line <= Len(all) /\ (full = 0 \/ line <= fullLen) THEN Partition(brigade, line)
       ELSE IF full = 0 THEN <<brigade, <<>>>>
       ELSE <<SubSeq(brigade, 1, full), SubSeq(brigade, full + 1, Len(brigade))>>

---------------------------------------------------------------------------
(* The handler reads.                                                      *)

Replaying == stage = "replay" /\ saved # <<>>

Deliver(parts) ==
    /\ got' = got \o Bytes(parts[1])
    /\ ended' = (ended \/ HasEOS(parts[1]))
    /\ saved' = parts[2]
    /\ UNCHANGED <<stage, body, lineEnds, mem_limit, nread, spool, shown>>

(* AP_MODE_GETLINE.                                                        *)
GetLine == Replaying /\ Deliver(SplitLine(saved))

(* What a speculative read of n bytes copies, everything when n is 0.      *)
SpeculativeCopy(n) ==
    IF n = 0 \/ Incomplete(saved, n) THEN saved ELSE Partition(saved, n)[1]

(* AP_MODE_SPECULATIVE: the buckets may have been split, nothing is        *)
(* consumed.                                                               *)
Speculative ==
    /\ Replaying
    /\ \E n \in 0 .. MaxRead :
         /\ shown' = Bytes(SpeculativeCopy(n))
         /\ saved' = IF n = 0 \/ Incomplete(saved, n) THEN saved
                     ELSE Partition(saved, n)[1] \o Partition(saved, n)[2]
    /\ UNCHANGED <<stage, body, lineEnds, mem_limit, nread, spool, got, ended>>

(* AP_MODE_EXHAUSTIVE, and AP_MODE_READBYTES without a limit.              *)
Exhaustive == Replaying /\ Deliver(<<saved, <<>>>>)

(* Mutant: nothing is handed over when less is left than asked for.        *)
WaitForMore(n) ==
    IF Incomplete(saved, n) THEN <<<<>>, saved>> ELSE Partition(saved, n)

(* Less left than asked for: the remainder, EOS included.                  *)
TakeBytes(n) ==
    IF Incomplete(saved, n) THEN <<saved, <<>>>> ELSE Partition(saved, n)

(* AP_MODE_READBYTES.                                                      *)
ReadBytes == Replaying /\ \E n \in 1 .. MaxRead : Deliver(TakeBytes(n))

(* AP_MODE_EATCRLF is passed down and finds a drained connection.          *)
EatCRLF ==
    /\ Replaying
    /\ shown' = <<>>
    /\ UNCHANGED <<stage, body, lineEnds, mem_limit, nread, saved, spool, got, ended>>

(* The spool file cannot be read back: the handler gets the error.         *)
SpoolError ==
    /\ Replaying
    /\ spool # NoSpool
    /\ stage' = "failed"
    /\ UNCHANGED <<body, lineEnds, mem_limit, nread, saved, spool, got, ended, shown>>

(* The output filter, which has the same context, denies or breaks off the *)
(* response of a handler that is still reading.                            *)
ResponseDenied ==
    /\ stage = "replay"
    /\ stage' = "denied"
    /\ UNCHANGED <<body, lineEnds, mem_limit, nread, saved, spool, got, ended, shown>>

(* Everything has been handed over, or the request was denied: the filter  *)
(* leaves the chain, and the filter below has only the end to give.        *)
StepAside ==
    /\ \/ stage = "replay" /\ saved = <<>>
       \/ stage = "denied"
    /\ stage' = IF stage = "denied" THEN "refused" ELSE "aside"
    /\ ended' = TRUE
    /\ UNCHANGED <<body, lineEnds, mem_limit, nread, saved, spool, got, shown>>

---------------------------------------------------------------------------
Init ==
    /\ stage = "reading"
    /\ \E n \in 0 .. MaxBody : body = [k \in 1 .. n |-> k]
    /\ lineEnds \in LineEnds
    /\ mem_limit \in MemLimits
    /\ nread = 0
    /\ saved = <<>>
    /\ spool = NoSpool
    /\ got = <<>>
    /\ ended = FALSE
    /\ shown = <<>>

HandlerReads ==
    \/ GetLine \/ Speculative \/ Exhaustive \/ ReadBytes \/ EatCRLF
    \/ SpoolError \/ StepAside

Next == KeepChunk \/ GiveUp \/ BodyComplete \/ HandlerReads \/ ResponseDenied

(* The handler is one that goes on asking for bytes, as httpd does when it *)
(* discards what is left of a body: it is given some, or the filter leaves *)
(* the chain.                                                              *)
Spec == Init /\ [][Next]_vars /\ WF_vars(ReadBytes \/ StepAside)

---------------------------------------------------------------------------
(* Type correctness: the copy has one end, at its end, and no empty data   *)
(* bucket.                                                                 *)
TypeOK ==
    /\ stage \in {"reading", "replay", "aside", "denied", "refused", "failed"}
    /\ saved \in Seq(Seq(1 .. MaxBody))
    /\ \A n \in DOMAIN saved : IsEOS(saved[n]) => n = Len(saved)
    /\ nread \in 0 .. Len(body)
    /\ ended \in BOOLEAN

(* While the hook reads a body of any size, no more of it than             *)
(* CorazaRequestBodyInMemoryLimit is in memory, and nothing of what it has *)
(* read is lost.                                                           *)
CopyWithinLimit ==
    stage = "reading" => /\ Len(Bytes(saved)) <= mem_limit
                         /\ Bytes(saved) \o spool = SubSeq(body, 1, nread)

Stream == INSTANCE BodyStream WITH
    Bodies <- {[k \in 1 .. n |-> k] : n \in 0 .. MaxBody},
    sent <- body, refused <- (stage \in {"denied", "refused"})

(* However the body is split between memory and file, however a handler    *)
(* mixes the read modes, and whatever fails, the replay is the stream      *)
(* BodyStream promises.                                                    *)
ImplementsBodyStream == Stream!Spec

(* A handler that goes on reading comes to an end of the body, whatever    *)
(* sizes it asks for, whatever other reads it mixes in, and also when its  *)
(* response is denied meanwhile.                                           *)
ReplayEnds == stage = "replay" ~> (ended \/ stage = "failed")
=============================================================================
