------------------------------- MODULE Buffer -------------------------------
(***************************************************************************)
(* The write buffer in front of the archive (internal/store/buffer).       *)
(*                                                                         *)
(* Every goroutine that handles a message appends its record to `pending`  *)
(* under the mutex and, when the threshold is reached, flushes: it takes   *)
(* the whole of pending under the mutex, releases it, and only then writes *)
(* the batch to LevelDB.  The goroutine of Run does the same on a ticker.  *)
(* An API goroutine deletes a session: pending under the mutex, then the   *)
(* archive, where it reads the keys with an iterator and deletes them in a *)
(* second step.  A step of the model is one critical section of the mutex  *)
(* or one call of LevelDB, so everything between them interleaves.         *)
(***************************************************************************)
EXTENDS Archive, FiniteSets

CONSTANTS
    Records,        \* the records that the messages carry, each sent once
    Procs,          \* the goroutines
    Runner,         \* the goroutine of Run
    FlushAt,        \* the threshold flushAt
    DiskFaults,     \* may a LevelDB call return an error?
    Deletable       \* the sessions that users delete

ASSUME RunnerAssumption == Runner \in Procs /\ IsFiniteSet(Procs)
ASSUME FlushAtAssumption == FlushAt \in Nat \ {0}   \* New: 0 or less is replaced
ASSUME DiskFaultsAssumption == DiskFaults \in BOOLEAN

VARIABLES
    pending,    \* the records in memory, oldest first
    archive,    \* the value of the database
    pc,         \* what each goroutine is about to do
    batch,      \* the records a flush took and has not written yet
    target,     \* the session a delete is about
    doomed,     \* the records whose keys a delete has collected
    seen        \* history: the records appended so far

vars == <<pending, archive, pc, batch, target, doomed, seen>>

Sids == {r.sid : r \in Records}

ASSUME DeletableAssumption == Deletable \subseteq Sids

Steps == {"idle", "flush", "put", "scan", "write"}

NoSid == <<>>

Elems(s) == {s[i] : i \in 1..Len(s)}

NoRepeats(s) == \A i, j \in 1..Len(s) : s[i] = s[j] => i = j

(* The loop of DeleteSession over pending: Kept(s, sid)[i] is what it has  *)
(* kept of the first i records.                                            *)
Kept(s, sid) ==
    LET kept[i \in 0..Len(s)] ==
            IF i = 0 THEN <<>>
            ELSE IF s[i].sid = sid THEN kept[i - 1]
            ELSE Append(kept[i - 1], s[i])
    IN  kept

Without(s, sid) == Kept(s, sid)[Len(s)]

Init ==
    /\ pending = <<>>
    /\ archive = EmptyArchive
    /\ pc = [p \in Procs |-> "idle"]
    /\ batch = [p \in Procs |-> <<>>]
    /\ target = [p \in Procs |-> NoSid]
    /\ doomed = [p \in Procs |-> {}]
    /\ seen = {}

-----------------------------------------------------------------------------
(* Append and Flush.                                                       *)

Append_(p, r) ==
    /\ pc[p] = "idle" /\ p # Runner
    /\ r \notin seen
    /\ seen' = seen \cup {r}
    /\ pending' = Append(pending, r)
    /\ pc' = [pc EXCEPT ![p] = IF Len(pending') >= FlushAt THEN "flush" ELSE "idle"]
    /\ UNCHANGED <<archive, batch, target, doomed>>

(* Mutation of Tick: it leaves to the threshold what is below it.          *)
TickAboveThreshold ==
    /\ pc[Runner] = "idle" /\ Len(pending) >= FlushAt
    /\ pc' = [pc EXCEPT ![Runner] = "flush"]
    /\ UNCHANGED <<pending, archive, batch, target, doomed, seen>>

(* The ticker of Run fires; ticks are dropped while a flush is running.    *)
Tick ==
    /\ pc[Runner] = "idle"
    /\ pc' = [pc EXCEPT ![Runner] = "flush"]
    /\ UNCHANGED <<pending, archive, batch, target, doomed, seen>>

(* Mutation of FlushTake: pending is not reset.                            *)
FlushTakeKeepsPending(p) ==
    /\ pc[p] = "flush"
    /\ pc' = [pc EXCEPT ![p] = IF pending = <<>> THEN "idle" ELSE "put"]
    /\ batch' = [batch EXCEPT ![p] = pending]
    /\ UNCHANGED <<pending, archive, target, doomed, seen>>

FlushTake(p) ==
    /\ pc[p] = "flush"
    /\ pc' = [pc EXCEPT ![p] = IF pending = <<>> THEN "idle" ELSE "put"]
    /\ batch' = [batch EXCEPT ![p] = pending]
    /\ pending' = <<>>
    /\ UNCHANGED <<archive, target, doomed, seen>>

EndPut(p) ==
    /\ pc[p] = "put"
    /\ pc' = [pc EXCEPT ![p] = "idle"]
    /\ batch' = [batch EXCEPT ![p] = <<>>]
    /\ UNCHANGED <<pending, target, doomed, seen>>

FlushPut(p) == EndPut(p) /\ archive' = Put(archive, batch[p])

(* Flush discards the error of Put, and with it the batch.                 *)
FlushPutFails(p) == EndPut(p) /\ UNCHANGED archive

PutReturns(p) == FlushPut(p) \/ (DiskFaults /\ FlushPutFails(p))

-----------------------------------------------------------------------------
(* DeleteSession.                                                          *)

DeletePending(p, sid) ==
    /\ pc[p] = "idle" /\ p # Runner
    /\ pc' = [pc EXCEPT ![p] = "scan"]
    /\ target' = [target EXCEPT ![p] = sid]
    /\ pending' = Without(pending, sid)
    /\ UNCHANGED <<archive, batch, doomed, seen>>

DeleteScan(p) ==
    /\ pc[p] = "scan"
    /\ pc' = [pc EXCEPT ![p] = "write"]
    /\ doomed' = [doomed EXCEPT ![p] = Scan(archive, target[p])]
    /\ UNCHANGED <<pending, archive, batch, target, seen>>

EndDelete(p) ==
    /\ pc' = [pc EXCEPT ![p] = "idle"]
    /\ target' = [target EXCEPT ![p] = NoSid]
    /\ doomed' = [doomed EXCEPT ![p] = {}]
    /\ UNCHANGED <<pending, batch, seen>>

DeleteWrite(p) ==
    /\ pc[p] = "write"
    /\ EndDelete(p)
    /\ archive' = Delete(archive, doomed[p])

(* The iterator or the write returns an error; the API handler ignores it. *)
DeleteFails(p) == pc[p] \in {"scan", "write"} /\ EndDelete(p) /\ UNCHANGED archive

-----------------------------------------------------------------------------
(* The process dies and is started again: memory is lost, LevelDB stays.   *)
Crash ==
    /\ pending' = <<>>
    /\ pc' = [p \in Procs |-> "idle"]
    /\ batch' = [p \in Procs |-> <<>>]
    /\ target' = [p \in Procs |-> NoSid]
    /\ doomed' = [p \in Procs |-> {}]
    /\ UNCHANGED <<archive, seen>>

Proc(p) ==
    \/ \E r \in Records : Append_(p, r)
    \/ FlushTake(p)
    \/ PutReturns(p)
    \/ \E sid \in Deletable : DeletePending(p, sid)
    \/ DeleteScan(p)
    \/ DeleteWrite(p)
    \/ (DiskFaults /\ DeleteFails(p))

Next == Tick \/ Crash \/ \E p \in Procs : Proc(p)

Spec == Init /\ [][Next]_vars

(* The ticker keeps firing, a goroutine that wants the mutex gets it (every*)
(* critical section is finite), and a call of LevelDB returns.             *)
Fairness ==
    /\ WF_vars(Tick)
    /\ \A p \in Procs :
        /\ WF_vars(FlushTake(p))
        /\ WF_vars(PutReturns(p))

FairSpec == Spec /\ Fairness
-----------------------------------------------------------------------------
InFlight == UNION {Elems(batch[p]) : p \in Procs}

Volatile == Elems(pending) \cup InFlight

TypeOK ==
    /\ pending \in Seq(Records)
    /\ archive \in [bySession : SUBSET Records, byTime : SUBSET Records]
    /\ pc \in [Procs -> Steps]
    /\ batch \in [Procs -> Seq(Records)]
    /\ target \in [Procs -> Deletable \cup {NoSid}]
    /\ doomed \in [Procs -> SUBSET Records]
    /\ seen \in SUBSET Records

(* Append checks the threshold under the mutex but flushes after releasing *)
(* it, so pending may pass flushAt; it does so by at most one record for   *)
(* each goroutine that is on its way to Flush (buffer.go:38-48).           *)
PendingBound ==
    Len(pending) <= FlushAt - 1 + Cardinality({p \in Procs : pc[p] = "flush"})

(* A record is in one place only: once in pending, or once in one batch,   *)
(* or in the archive.  No flush writes what another flush took, and no     *)
(* record is queued again after it was archived (buffer.go:50-61).         *)
OnePlace ==
    /\ NoRepeats(pending)
    /\ \A p \in Procs : NoRepeats(batch[p])
    /\ \A p \in Procs : Elems(pending) \cap Elems(batch[p]) = {}
    /\ \A p, q \in Procs : p # q => Elems(batch[p]) \cap Elems(batch[q]) = {}
    /\ (archive.bySession \cup archive.byTime) \cap Volatile = {}

(* The session index and the global time index hold the same records: the  *)
(* charts count what the message lists show (leveldb.go:136-152).          *)
IndexesAgree == archive.byTime = archive.bySession

(* Every accepted record leaves memory in the end, however the threshold,  *)
(* the ticker and the deletes interleave (buffer.go:63-76).                *)
EventuallySettled == \A r \in Records : r \in Volatile ~> r \notin Volatile

(* The buffer and the archive implement the life of a record.              *)
Stage(r) ==
    IF r \in archive.bySession THEN "durable"
    ELSE IF r \in Volatile THEN "volatile"
    ELSE IF r \in seen THEN "gone"
    ELSE "absent"

Lifecycle == INSTANCE RecordLifecycle
    WITH stage <- [r \in Records |-> Stage(r)], Owner <- [r \in Records |-> r.sid]

LifecycleOfRecords == Lifecycle!LifecycleSpec

(* What the theorems and the passing runs ask of the messages: ids without *)
(* ':' and no two records with the same time and number.                   *)
FlatIds == \A r \in Records : Flat(r.sid)
DistinctKeys == \A r, s \in Records : GlobalKey(r) = GlobalKey(s) => r = s
=============================================================================
