------------------------------ MODULE S3Upload ------------------------------
(***************************************************************************)
(* The S3 side of the data exporter, the program that the upload and the   *)
(* deletion Jobs of a snapshot export run: pkg/dataexporter/s3.go.         *)
(*                                                                         *)
(* The archive is the sequence 1..len, written by writeTarball into a pipe *)
(* and read from it in chunks.  One goroutine reads a chunk into a file    *)
(* and starts another goroutine that sends it as a part of a multipart     *)
(* upload; a semaphore bounds them.  An archive that is too large becomes  *)
(* several objects, one multipart upload each.  Any request can fail with  *)
(* or without its effect, the pipe can fail, and the pod can be killed; the*)
(* controller then starts the program again, or deletes what is there.     *)
(***************************************************************************)
EXTENDS Naturals, Sequences, FiniteSets

CONSTANTS Inputs,     \* [len, est, chunk, part, limit, jobs, each]: an archive,
                      \* the estimate of its size, the options of the upload, and
                      \* whether objects are deleted one by one
          MaxParts,   \* s3MaximumParts
          BatchSize,  \* s3DeleteBatchSize
          MaxStarts,  \* bound on uploads
          MaxFaults   \* bound on failed requests and reads, and on kills

VARIABLES in,       \* the input
          proc,     \* the reading goroutine: its step, the position in the pipe
          sending,  \* parts that a goroutine is sending
          bucket,   \* objects, open multipart uploads, parts of the current one
          del,      \* the deletion: its step, keys to delete and in flight
          count     \* uploads started, faults, and how many may have left a
                    \* multipart upload open

vars == <<in, proc, sending, bucket, del, count>>

None == [n |-> 0, data |-> <<>>]

Stopped == [pc |-> "idle", at |-> 0, from |-> 0, index |-> 0, number |-> 1, id |-> 0,
            part |-> None, results |-> {}, err |-> FALSE, out |-> "none"]

NotDeleting == [pc |-> "idle", todo |-> {}, flight |-> {}, failed |-> FALSE, out |-> "none"]

Goto(step) == proc' = [proc EXCEPT !.pc = step]

\* Upload returns: what the program reports is all that is left of it.
Return(out) == proc' = [Stopped EXCEPT !.out = out]

Fault == count.faults < MaxFaults /\ count' = [count EXCEPT !.faults = @ + 1]

Excused == count.faults < MaxFaults /\ count' = [count EXCEPT !.faults = @ + 1, !.excused = @ + 1]

Bytes(from, to) == [i \in 1..(to - from) |-> from + i]

Smaller(a, b) == IF a < b THEN a ELSE b

RECURSIVE Joined(_, _)
\* The data of the parts ns, in the order of their numbers.
Joined(parts, ns) ==
    IF ns = {} THEN <<>>
    ELSE LET first == CHOOSE n \in ns : \A m \in ns : n <= m
         IN  (CHOOSE p \in parts : p.n = first).data \o Joined(parts, ns \ {first})

----------------------------------------------------------------------------
(* Upload *)

\* s3ArchiveRequiresSplit
RequiresSplit == in.est > in.limit \/ in.est > in.chunk * MaxParts

SplitRefused == RequiresSplit /\ in.part > in.chunk * MaxParts

\* Where the object being uploaded ends: LimitedReader, or the end of the pipe.
ObjectEnd == IF RequiresSplit THEN Smaller(in.len, proc.from + in.part) ELSE in.len

Upload ==
    /\ proc.pc = "idle" /\ del.pc = "idle" /\ proc.out # "ok"
    /\ count.starts < MaxStarts
    /\ count' = [count EXCEPT !.starts = @ + 1]
    /\ proc' = [Stopped EXCEPT !.pc = IF SplitRefused THEN "idle"
                                      ELSE IF RequiresSplit THEN "peek" ELSE "create",
                               !.out = IF SplitRefused THEN "error" ELSE "none"]
    /\ del' = NotDeleting
    /\ UNCHANGED <<in, sending, bucket>>

\* The loop over the objects of a split archive.
Peek ==
    /\ proc.pc = "peek"
    /\ \/ (IF proc.at = in.len THEN Return("ok") ELSE Goto("create")) /\ UNCHANGED count
       \/ Return("error") /\ Fault
    /\ UNCHANGED <<in, sending, bucket, del>>

\* CreateMultipartUpload.  A lost answer leaves an upload nobody knows of.
Create ==
    /\ proc.pc = "create"
    /\ LET id     == Cardinality(bucket.created) + 1
           opened == [bucket EXCEPT !.created = @ \cup {id}, !.open = @ \cup {id}, !.parts = {}]
       IN  \/ /\ proc' = [proc EXCEPT !.pc = "acquire", !.from = proc.at, !.number = 1, !.id = id,
                                      !.results = {}, !.err = FALSE]
              /\ bucket' = opened
              /\ UNCHANGED count
           \/ Return("error") /\ bucket' \in {bucket, opened} /\ Excused
    /\ UNCHANGED <<in, sending, del>>

\* A variant that starts a part without waiting for a free slot.
AcquireAlways ==
    /\ proc.pc = "acquire"
    /\ Goto(IF proc.err THEN "wait" ELSE "spool")
    /\ UNCHANGED <<in, sending, bucket, del, count>>

\* A slot of the semaphore, then the first look at firstErr.
Acquire ==
    /\ proc.pc = "acquire"
    /\ Cardinality(sending) < in.jobs
    /\ Goto(IF proc.err THEN "wait" ELSE "spool")
    /\ UNCHANGED <<in, sending, bucket, del, count>>

\* spoolS3Part: read a chunk of the pipe into a temporary file.
Spool ==
    /\ proc.pc = "spool"
    /\ LET to   == Smaller(ObjectEnd, proc.at + in.chunk)
           part == [n |-> proc.number, data |-> Bytes(proc.at, to)]
       IN  \/ /\ proc' = CASE to = proc.at -> [proc EXCEPT !.pc = "wait"]
                           [] to # proc.at /\ proc.number > MaxParts ->
                                 [proc EXCEPT !.pc = "wait", !.at = to, !.err = TRUE]
                           [] OTHER -> [proc EXCEPT !.pc = "launch", !.at = to, !.part = part]
              /\ UNCHANGED count
           \/ proc' = [proc EXCEPT !.pc = "wait", !.err = TRUE] /\ Fault
    /\ UNCHANGED <<in, sending, bucket, del>>

\* The second look at firstErr, then the goroutine that sends the part.
Launch ==
    /\ proc.pc = "launch"
    /\ IF proc.err
       THEN proc' = [proc EXCEPT !.pc = "wait", !.part = None] /\ UNCHANGED sending
       ELSE /\ sending' = sending \cup {proc.part}
            /\ proc' = [proc EXCEPT !.pc = "acquire", !.part = None, !.number = @ + 1]
    /\ UNCHANGED <<in, bucket, del, count>>

\* UploadPart, its answer, and the slot and the file that the goroutine gives back.
Sent(p) ==
    /\ bucket' = [bucket EXCEPT !.parts = @ \cup {p}]
    /\ proc' = [proc EXCEPT !.results = @ \cup {p.n}]
    /\ sending' = sending \ {p}
    /\ UNCHANGED <<in, del, count>>

\* setError: the first error cancels the requests of the other goroutines.
SendFailed(p) ==
    /\ bucket' \in {bucket, [bucket EXCEPT !.parts = @ \cup {p}]}
    /\ proc' = [proc EXCEPT !.err = TRUE]
    /\ sending' = sending \ {p}
    /\ IF proc.err THEN UNCHANGED count ELSE Fault
    /\ UNCHANGED <<in, del>>

\* A variant that waits for as many results as parts were started.
WaitForResults ==
    /\ proc.pc = "wait"
    /\ Cardinality(proc.results) = proc.number - 1
    /\ proc' = CASE proc.err -> [proc EXCEPT !.pc = "abort", !.out = "error"]
                 [] ~proc.err /\ proc.at = proc.from -> [proc EXCEPT !.pc = "abort", !.out = "ok"]
                 [] OTHER -> [proc EXCEPT !.pc = "complete"]
    /\ UNCHANGED <<in, sending, bucket, del, count>>

\* wg.Wait, and what is made of the result.
Wait ==
    /\ proc.pc = "wait"
    /\ sending = {}
    /\ proc' = CASE proc.err -> [proc EXCEPT !.pc = "abort", !.out = "error"]
                 [] ~proc.err /\ proc.at = proc.from -> [proc EXCEPT !.pc = "abort", !.out = "ok"]
                 [] OTHER -> [proc EXCEPT !.pc = "complete"]
    /\ UNCHANGED <<in, sending, bucket, del, count>>

\* CompleteMultipartUpload with the parts in order.  A part that fills the part
\* size may not be the last.
Complete ==
    /\ proc.pc = "complete"
    /\ LET done == [bucket EXCEPT !.objects[proc.index] = Joined(bucket.parts, proc.results),
                                  !.open = @ \ {proc.id}, !.parts = {}]
           more == RequiresSplit /\ proc.at - proc.from = in.part
       IN  \/ /\ bucket' = done
              /\ IF more THEN proc' = [proc EXCEPT !.pc = "peek", !.index = @ + 1] ELSE Return("ok")
              /\ UNCHANGED count
           \/ /\ bucket' \in {bucket, done}
              /\ proc' = [proc EXCEPT !.pc = "abort", !.out = "error"]
              /\ Fault
    /\ UNCHANGED <<in, sending, del>>

\* The deferred AbortMultipartUpload; its failure is only logged.
Abort ==
    /\ proc.pc = "abort"
    /\ Return(proc.out)
    /\ \/ bucket' = [bucket EXCEPT !.open = @ \ {proc.id}, !.parts = {}] /\ UNCHANGED count
       \/ UNCHANGED bucket /\ Excused
    /\ UNCHANGED <<in, sending, del>>

\* The pod of the upload is killed, with whatever it was sending, or that of the
\* deletion.
Killed ==
    /\ \/ proc.pc # "idle" /\ Return("error") /\ sending' = {} /\ Excused /\ UNCHANGED del
       \/ /\ del.pc # "idle"
          /\ del' = [NotDeleting EXCEPT !.out = "error"]
          /\ Fault
          /\ UNCHANGED <<proc, sending>>
    /\ UNCHANGED <<in, bucket>>

----------------------------------------------------------------------------
(* Delete *)

Keys == {i \in DOMAIN bucket.objects : bucket.objects[i] # <<>>}

RECURSIVE Batches(_)
\* The requests of deleteBatched: at most BatchSize keys each.
Batches(ks) ==
    IF ks = {} THEN {}
    ELSE LET batch == CHOOSE b \in SUBSET ks :
                         /\ Cardinality(b) = Smaller(Cardinality(ks), BatchSize)
                         /\ \A x \in b, y \in ks \ b : x < y
         IN  {batch} \cup Batches(ks \ batch)

\* The listing, with every page; one request per key for a custom endpoint.
List ==
    /\ del.pc = "idle" /\ del.out # "ok"
    /\ proc.pc = "idle" /\ proc.out # "none"
    /\ \/ /\ del' = IF Keys = {} THEN [NotDeleting EXCEPT !.out = "ok"]
                    ELSE [NotDeleting EXCEPT !.pc = "delete",
                                             !.todo = IF in.each THEN {{i} : i \in Keys} ELSE Batches(Keys)]
          /\ UNCHANGED count
       \/ del' = [NotDeleting EXCEPT !.out = "error"] /\ Fault
    /\ UNCHANGED <<in, proc, sending, bucket>>

\* deleteBatched and deletePerObject: a request in a goroutine of its own.
DeleteLaunch ==
    /\ del.pc = "delete"
    /\ Cardinality(del.flight) < in.jobs
    /\ \E b \in del.todo : del' = [del EXCEPT !.todo = @ \ {b}, !.flight = @ \cup {b}]
    /\ UNCHANGED <<in, proc, sending, bucket, count>>

Without(keys) ==
    [bucket EXCEPT !.objects = [i \in DOMAIN @ |-> IF i \in keys THEN <<>> ELSE @[i]]]

\* A request deletes all of its keys, or reports an error and may have deleted some.
Deleted(b) ==
    /\ \/ /\ bucket' = Without(b)
          /\ del' = [del EXCEPT !.flight = @ \ {b}]
          /\ UNCHANGED count
       \/ /\ \E gone \in SUBSET b : bucket' = Without(gone)
          /\ del' = [del EXCEPT !.flight = @ \ {b}, !.failed = TRUE]
          /\ Fault
    /\ UNCHANGED <<in, proc, sending>>

DeleteWait ==
    /\ del.pc = "delete"
    /\ del.todo = {} /\ del.flight = {}
    /\ del' = [NotDeleting EXCEPT !.out = IF del.failed THEN "error" ELSE "ok"]
    /\ UNCHANGED <<in, proc, sending, bucket, count>>

----------------------------------------------------------------------------
Init ==
    /\ in \in Inputs
    /\ proc = Stopped
    /\ sending = {}
    /\ bucket = [objects |-> [i \in 0..in.len |-> <<>>], created |-> {}, open |-> {}, parts |-> {}]
    /\ del = NotDeleting
    /\ count = [starts |-> 0, faults |-> 0, excused |-> 0]

Program ==
    \/ Peek \/ Create \/ Acquire \/ Spool \/ Launch \/ Wait \/ Complete \/ Abort
    \/ \E p \in sending : Sent(p) \/ SendFailed(p)
    \/ DeleteLaunch \/ DeleteWait
    \/ \E b \in del.flight : Deleted(b)

Next == Upload \/ List \/ Killed \/ Program

Spec == Init /\ [][Next]_vars

\* Goroutines and requests that can go on do.
FairSpec == Spec /\ WF_vars(Program)

----------------------------------------------------------------------------
Concatenated == Joined({[n |-> i, data |-> bucket.objects[i]] : i \in Keys}, Keys)

\* An upload that reported success left the whole archive in the bucket: its
\* objects, concatenated in the order of their names as a restore does, are what
\* the pipe delivered, in whatever order the parts were sent and answered, and
\* whatever an earlier upload that failed or was killed had left there.
UploadedIsWhole == proc.out = "ok" /\ proc.pc = "idle" /\ del = NotDeleting =>
                   Concatenated = Bytes(0, in.len)

\* No more temporary files exist than the semaphore has slots, nothing is sent
\* to a multipart upload that was completed or aborted, and when the program has
\* ended an upload is still open only because the request that would have closed
\* it failed or the pod was killed.
NothingLeftBehind ==
    /\ Cardinality(sending) + Cardinality({proc.part} \ {None}) <= in.jobs
    /\ proc.id \notin bucket.open => sending = {}
    /\ proc.pc = "idle" => Cardinality(bucket.open) <= count.excused

\* A deletion that reported success left no object of the archive.
DeletedIsGone == del.out = "ok" => Keys = {}

Ended == proc.pc = "idle" /\ del.pc = "idle"

\* An upload and a deletion end, whatever fails: no goroutine waits for ever for
\* a slot or for another one.
ProgramEnds == []<>Ended
=============================================================================
