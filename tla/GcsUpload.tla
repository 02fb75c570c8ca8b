----------------------------- MODULE GcsUpload -----------------------------
(***************************************************************************)
(* The Google Cloud Storage side of the data exporter:                     *)
(* pkg/dataexporter/gcs.go.                                                *)
(*                                                                         *)
(* The archive is a sequence of len bytes.  It is read in chunks, each     *)
(* stored as an object by a goroutine of its own.  They are then composed, *)
(* at most CompositionBatchLimit at a time and in rounds, into the object  *)
(* of the archive or into the objects of its parts, or they are renamed    *)
(* when a chunk is a part; what has been composed is deleted.  There is no *)
(* clean up of a failed upload.  Any request can fail, with or without its *)
(* effect, and the pod can be killed; the controller then starts the       *)
(* program again, or deletes what is there.                                *)
(***************************************************************************)
EXTENDS Naturals, Sequences, FiniteSets, TLC

CONSTANTS Inputs,      \* [len, est, chunk, part, limit, jobs]: an archive, the
                       \* estimate of its size and the options of the upload
          BatchLimit,  \* CompositionBatchLimit
          Base,        \* the base of the digits in the name of a part: ten
          MaxStarts,   \* bound on uploads
          MaxFaults    \* bound on failed requests and reads, and on kills

VARIABLES in,       \* the input
          proc,     \* the main goroutine
          flight,   \* requests that goroutines of it are waiting for
          store,    \* the objects of the bucket
          del,      \* the deletion
          count     \* uploads started, faults, deletions that failed

vars == <<in, proc, flight, store, del, count>>

\* Names: a chunk, the archive, a part of it in so many digits, and an object
\* composed on the way to another.  Lost is the name of a batch that failed.
Chunk(i) == [kind |-> "chunk", i |-> i]
Final == [kind |-> "final"]
Part(i, w) == [kind |-> "part", i |-> i, w |-> w]
Temp(of, r, b) == [kind |-> "temp", of |-> of, round |-> r, batch |-> b]
Lost == [kind |-> "lost"]

Stopped == [pc |-> "idle", at |-> 0, objs |-> <<>>, err |-> FALSE, goals |-> <<>>, round |-> 0,
            new |-> <<>>, dead |-> {}, out |-> "none"]

NotDeleting == [pc |-> "idle", todo |-> {}, failed |-> FALSE, out |-> "none"]

Goto(step) == proc' = [proc EXCEPT !.pc = step]

Return(out) == proc' = [Stopped EXCEPT !.out = out]

Fault == count.faults < MaxFaults /\ count' = [count EXCEPT !.faults = @ + 1]

\* The bytes of the archive, marked with the upload that read them.
Bytes(from, to) == [i \in 1..(to - from) |-> <<count.starts, from + i>>]

Smaller(a, b) == IF a < b THEN a ELSE b

Ceiling(a, b) == (a + b - 1) \div b

With(name, data) == [n \in DOMAIN store \cup {name} |-> IF n = name THEN data ELSE store[n]]

Without(names) == [n \in DOMAIN store \ names |-> store[n]]

RECURSIVE Joined(_)
Joined(names) == IF names = <<>> THEN <<>> ELSE store[Head(names)] \o Joined(Tail(names))

Members(names) == {names[i] : i \in DOMAIN names}

----------------------------------------------------------------------------
(* Upload, uploadChunks *)

Upload ==
    /\ proc.pc = "idle" /\ del.pc = "idle" /\ proc.out # "ok"
    /\ count.starts < MaxStarts
    /\ count' = [count EXCEPT !.starts = @ + 1]
    /\ IF in.est > in.limit /\ in.chunk > in.part THEN Return("error")
       ELSE proc' = [Stopped EXCEPT !.pc = "read"]
    /\ del' = NotDeleting
    /\ UNCHANGED <<in, flight, store>>

\* One turn of the loop: a slot, a chunk, and a goroutine that stores it.  A
\* failed read returns at once; the program ends with what it was sending.
Read ==
    /\ proc.pc = "read"
    /\ Cardinality(flight) < in.jobs
    /\ LET to   == Smaller(in.len, proc.at + in.chunk)
           name == Chunk(Len(proc.objs))
       IN  \/ /\ IF to = proc.at THEN Goto("wait") /\ UNCHANGED flight
                 ELSE /\ flight' = flight \cup {[name |-> name, data |-> Bytes(proc.at, to)]}
                      /\ proc' = [proc EXCEPT !.pc = IF to < proc.at + in.chunk THEN "wait" ELSE @,
                                              !.at = to, !.objs = Append(@, name)]
              /\ UNCHANGED <<store, count>>
           \/ /\ Return("error") /\ Fault
              /\ flight' = {}
              /\ \E done \in SUBSET flight :
                    store' = [n \in DOMAIN store \cup {c.name : c \in done} |->
                                IF \E c \in done : c.name = n
                                THEN (CHOOSE c \in done : c.name = n).data ELSE store[n]]
    /\ UNCHANGED <<in, del>>

\* uploadToGCS in its goroutine: the other chunks go on when one fails.  A second
\* error of another type than the first makes uploadErr.CompareAndSwap panic.
Stored(c) ==
    /\ \/ /\ store' = With(c.name, c.data)
          /\ flight' = flight \ {c}
          /\ UNCHANGED <<proc, count>>
       \/ /\ store' \in {store, With(c.name, c.data)}
          /\ \/ proc' = [proc EXCEPT !.err = TRUE] /\ flight' = flight \ {c}
             \/ proc.err /\ Return("error") /\ flight' = {}
          /\ Fault
    /\ UNCHANGED <<in, del>>

\* getDigitCount: how many digits a number has.
RECURSIVE DigitCount(_)
DigitCount(n) == IF n < Base THEN 1 ELSE 1 + DigitCount(n \div Base)

\* composeParts: the objects to compose, each of a run of chunks, when a chunk
\* is not a part already.
ChunksPerPart == Ceiling(in.part, in.chunk)

Goals(objs) ==
    IF in.est <= in.limit THEN <<[name |-> Final, objs |-> objs]>>
    ELSE [i \in 1..Ceiling(Len(objs), ChunksPerPart) |->
            [name |-> Part(i - 1, DigitCount(Len(objs) \div ChunksPerPart)),
             objs |-> SubSeq(objs, (i - 1) * ChunksPerPart + 1,
                             Smaller(i * ChunksPerPart, Len(objs)))]]

\* renameToFinalNames: a single chunk is the archive.
RenameGoals(objs) ==
    IF Len(objs) = 1 THEN <<[name |-> Final, objs |-> objs]>>
    ELSE [i \in 1..Len(objs) |-> [name |-> Part(i - 1, DigitCount(Len(objs) - 1)), objs |-> <<objs[i]>>]]

Renames == in.est > in.limit /\ in.chunk = in.part

\* wg.Wait, then composeParts.
Wait ==
    /\ proc.pc = "wait"
    /\ flight = {}
    /\ IF proc.err THEN Return("error")
       ELSE proc' = [proc EXCEPT !.pc = IF Renames THEN "copy" ELSE "compose", !.round = 0,
                                 !.goals = IF Renames THEN RenameGoals(proc.objs) ELSE Goals(proc.objs)]
    /\ UNCHANGED <<in, flight, store, del, count>>

Goal == Head(proc.goals)

NextGoal ==
    IF Tail(proc.goals) = <<>> THEN Return("ok")
    ELSE proc' = [proc EXCEPT !.pc = IF Renames THEN "copy" ELSE "compose", !.round = 0,
                              !.goals = Tail(@), !.dead = {}, !.err = FALSE]

\* renameObject: a copy, then the deletion of the chunk.
Copy ==
    /\ proc.pc = "copy"
    /\ \/ store' = With(Goal.name, Joined(Goal.objs)) /\ Goto("remove") /\ UNCHANGED count
       \/ store' \in {store, With(Goal.name, Joined(Goal.objs))} /\ Return("error") /\ Fault
    /\ UNCHANGED <<in, flight, del>>

Remove ==
    /\ proc.pc = "remove"
    /\ \/ store' = Without(Members(Goal.objs)) /\ NextGoal /\ UNCHANGED count
       \/ store' \in {store, Without(Members(Goal.objs))} /\ Return("error") /\ Fault
    /\ UNCHANGED <<in, flight, del>>

----------------------------------------------------------------------------
(* composeIntoSingleObject, batchDelete *)

Batch(b) == SubSeq(Goal.objs, (b - 1) * BatchLimit + 1, Smaller(b * BatchLimit, Len(Goal.objs)))

\* While there are too many objects, a round of batches; then the last one.
Compose ==
    /\ proc.pc = "compose"
    /\ IF Len(Goal.objs) > BatchLimit
       THEN LET n == Ceiling(Len(Goal.objs), BatchLimit)
            IN  /\ flight' = 1..n
                /\ proc' = [proc EXCEPT !.pc = "batches", !.new = [b \in 1..n |-> Lost], !.dead = {}]
       ELSE Goto("last") /\ UNCHANGED flight
    /\ UNCHANGED <<in, store, del, count>>

\* A batch, in a goroutine of its own when there is a slot for it.  A batch that
\* fails is logged, and leaves its name empty.
Composed(b) ==
    /\ Cardinality({x \in flight : x < b}) < in.jobs
    /\ flight' = flight \ {b}
    /\ LET name == Temp(Goal.name, proc.round, b)
           can  == Members(Batch(b)) \subseteq DOMAIN store
       IN  \/ /\ can
              /\ store' = With(name, Joined(Batch(b)))
              /\ proc' = [proc EXCEPT !.new[b] = name, !.dead = @ \cup Members(Batch(b))]
              /\ UNCHANGED count
           \/ /\ IF can THEN Fault /\ store' \in {store, With(name, Joined(Batch(b)))}
                 ELSE UNCHANGED <<count, store>>
              /\ UNCHANGED proc
    /\ UNCHANGED <<in, del>>

\* A variant that goes on with the batches that were composed.
KeepComposed ==
    /\ proc.pc = "batches" /\ flight = {} /\ proc.dead = {}
    /\ proc' = [proc EXCEPT !.pc = "compose", !.round = @ + 1, !.new = <<>>,
                            !.goals[1].objs = SelectSeq(proc.new, LAMBDA name : name # Lost)]
    /\ UNCHANGED <<in, flight, store, del, count>>

\* The next round, once what was composed in this one is deleted.
NextRound ==
    /\ proc.pc = "batches" /\ flight = {} /\ proc.dead = {}
    /\ proc' = [proc EXCEPT !.pc = "compose", !.round = @ + 1, !.new = <<>>, !.goals[1].objs = proc.new]
    /\ UNCHANGED <<in, flight, store, del, count>>

\* The last composition makes the object.
Last ==
    /\ proc.pc = "last"
    /\ LET can == Members(Goal.objs) \subseteq DOMAIN store
           done == With(Goal.name, Joined(Goal.objs))
       IN  \/ /\ can
              /\ store' = done
              /\ proc' = [proc EXCEPT !.pc = "tidy", !.dead = Members(Goal.objs)]
              /\ UNCHANGED count
           \/ /\ IF can THEN Fault /\ store' \in {store, done} ELSE UNCHANGED <<count, store>>
              /\ Return("error")
    /\ UNCHANGED <<in, flight, del>>

\* batchDelete of what has been composed: a failure in a round is only logged, a
\* failure at the end is an error.
Sweep ==
    /\ proc.pc \in {"batches", "tidy"} /\ flight = {}
    /\ \E n \in proc.dead :
          \/ /\ store' = Without({n})
             /\ proc' = [proc EXCEPT !.dead = @ \ {n}]
             /\ UNCHANGED count
          \/ /\ proc' = [proc EXCEPT !.dead = @ \ {n}, !.err = @ \/ proc.pc = "tidy"]
             /\ store' \in {store, Without({n})}
             /\ count.faults < MaxFaults
             /\ count' = [count EXCEPT !.faults = @ + 1, !.undeleted = @ + 1]
    /\ UNCHANGED <<in, flight, del>>

Tidied ==
    /\ proc.pc = "tidy" /\ proc.dead = {}
    /\ IF proc.err THEN Return("error") ELSE NextGoal
    /\ UNCHANGED <<in, flight, store, del, count>>

\* The pod of the upload is killed, or that of the deletion.
Killed ==
    /\ \/ proc.pc # "idle" /\ Return("error") /\ flight' = {} /\ UNCHANGED del
       \/ /\ del.pc # "idle"
          /\ del' = [NotDeleting EXCEPT !.out = "error"]
          /\ UNCHANGED <<proc, flight>>
    /\ Fault
    /\ UNCHANGED <<in, store>>

----------------------------------------------------------------------------
(* Delete *)

\* A variant that knows the names of the archive and of its parts only.
IsFinalName(n) == n.kind \in {"final", "part"}

\* isArchiveObjectName: any object that an upload may have left.
IsArchiveObjectName(n) == n.kind \in {"final", "part", "chunk", "temp"}

List ==
    /\ del.pc = "idle" /\ del.out # "ok"
    /\ proc.pc = "idle" /\ proc.out # "none"
    /\ \/ /\ del' = LET found == {n \in DOMAIN store : IsArchiveObjectName(n)}
                    IN  IF found = {} THEN [NotDeleting EXCEPT !.out = "ok"]
                        ELSE [NotDeleting EXCEPT !.pc = "delete", !.todo = found]
          /\ UNCHANGED count
       \/ del' = [NotDeleting EXCEPT !.out = "error"] /\ Fault
    /\ UNCHANGED <<in, proc, flight, store>>

\* batchDelete: the deletions end in any order.
DeleteOne ==
    /\ del.pc = "delete"
    /\ \E n \in del.todo :
          \/ store' = Without({n}) /\ del' = [del EXCEPT !.todo = @ \ {n}] /\ UNCHANGED count
          \/ /\ del' = [del EXCEPT !.todo = @ \ {n}, !.failed = TRUE]
             /\ store' \in {store, Without({n})}
             /\ Fault
    /\ UNCHANGED <<in, proc, flight>>

DeleteDone ==
    /\ del.pc = "delete" /\ del.todo = {}
    /\ del' = [NotDeleting EXCEPT !.out = IF del.failed THEN "error" ELSE "ok"]
    /\ UNCHANGED <<in, proc, flight, store, count>>

----------------------------------------------------------------------------
Init ==
    /\ in \in Inputs
    /\ proc = Stopped
    /\ flight = {}
    /\ store = <<>>
    /\ del = NotDeleting
    /\ count = [starts |-> 0, faults |-> 0, undeleted |-> 0]

Program ==
    \/ Read \/ Wait \/ Copy \/ Remove \/ Compose \/ NextRound \/ Last \/ Sweep \/ Tidied
    \/ proc.pc \in {"read", "wait"} /\ \E c \in flight : Stored(c)
    \/ proc.pc = "batches" /\ \E b \in flight : Composed(b)
    \/ DeleteOne \/ DeleteDone

Next == Upload \/ List \/ Killed \/ Program

Spec == Init /\ [][Next]_vars

\* Goroutines and requests that can go on do.
FairSpec == Spec /\ WF_vars(Program)

----------------------------------------------------------------------------
Width(i) == DigitCount(i)

\* What a restore gets: the archive, or its parts in the order of their names,
\* which is the order of their numbers only when they are padded to one width.
Parts == {n \in DOMAIN store : n.kind = "part"}

Sorted == \A n \in Parts : Width(n.i) <= n.w /\ \A m \in Parts : n.w = m.w

Restored ==
    IF Final \in DOMAIN store THEN store[Final]
    ELSE LET w == (CHOOSE n \in Parts : TRUE).w
         IN  Joined([i \in 1..Cardinality(Parts) |-> Part(i - 1, w)])

\* An upload that reported success left the whole archive: the object, or the
\* parts that a restore concatenates in the order of their names, hold what was
\* read, in whatever order chunks and batches were done, and whatever an earlier
\* upload that failed or was killed had left in the bucket.
UploadedIsWhole ==
    proc.out = "ok" /\ proc.pc = "idle" /\ del = NotDeleting =>
        /\ Final \in DOMAIN store <=> Parts = {}
        /\ Sorted
        /\ Restored = Bytes(0, in.len)

\* Chunks and intermediate objects are gone when an upload has succeeded, also
\* those of an earlier one that failed, unless the bucket refused to delete some.
NothingLeftBehind ==
    proc.out = "ok" /\ proc.pc = "idle" /\ del = NotDeleting /\ count.undeleted = 0 =>
        \A n \in DOMAIN store : IsFinalName(n)

\* A deletion that reported success left nothing of the archive, also when the
\* upload had been killed half way.
DeletedIsGone == del.out = "ok" => DOMAIN store = {}

Ended == proc.pc = "idle" /\ del.pc = "idle"

\* An upload and a deletion end.
ProgramEnds == []<>Ended
=============================================================================
