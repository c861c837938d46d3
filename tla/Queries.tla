------------------------------ MODULE Queries ------------------------------
(***************************************************************************)
(* Reading while records are appended, flushed and deleted                 *)
(* (internal/store/buffer Query, Count, Buckets, SessionBuckets).          *)
(*                                                                         *)
(* The four reads have the same shape: first the archive, through an       *)
(* iterator over a snapshot, and then pending under the buffer's mutex.    *)
(* Everything the buffer does can happen between the two steps.  The model *)
(* has one reader, which stands for any number: reads do not write.        *)
(***************************************************************************)
EXTENDS Buffer

CONSTANT Questions  \* what may be asked: [sid, start, end], sid = NoSid for all

VARIABLES
    phase,      \* "idle", "pending" (archive read, pending not yet) or "done"
    question,   \* the question of the reader
    found,      \* what it found in the archive
    answered,   \* what it found in pending
    due,        \* history: what the store held when the read began
    carried,    \* history: the records that were in a batch during the read
    covers      \* history: what each running delete was asked to remove

readVars == <<phase, question, found, answered, due, carried>>

qvars == <<vars, readVars, covers>>

NoQuestion == [sid |-> NoSid, start |-> 0, end |-> 0]

Stored == Volatile \cup archive.bySession

(* A read of one session goes through its prefix, a read of all of them    *)
(* through the global time index.                                          *)
ArchivePart(q) ==
    IF q.sid = NoSid THEN TimeScan(archive, q.start, q.end)
                     ELSE RangeScan(archive, q.sid, q.start, q.end)

Asked(q, r) ==
    /\ q.sid = NoSid \/ r.sid = q.sid
    /\ InWindow(r.ts, q.start, q.end)

(* Mutation of PendingPart: the start of the window is excluded.           *)
PendingPartAfterStart(q) == {r \in Elems(pending) : Asked(q, r) /\ r.ts # q.start}

(* filterPending.                                                          *)
PendingPart(q) == {r \in Elems(pending) : Asked(q, r)}

QInit ==
    /\ Init
    /\ phase = "idle" /\ question = NoQuestion
    /\ found = {} /\ answered = {} /\ due = {} /\ carried = {}
    /\ covers = [p \in Procs |-> {}]

ReadArchive(q) ==
    /\ phase \in {"idle", "done"}
    /\ phase' = "pending"
    /\ question' = q
    /\ found' = ArchivePart(q)
    /\ answered' = {}
    /\ due' = {r \in Stored : Asked(q, r)}
    /\ carried' = InFlight
    /\ UNCHANGED <<vars, covers>>

ReadPending ==
    /\ phase = "pending"
    /\ phase' = "done"
    /\ answered' = PendingPart(question)
    /\ UNCHANGED <<question, found, due, carried, vars, covers>>

(* A step of the buffer; a crash takes the reader with it.                 *)
Write ==
    /\ Next
    /\ IF Crash
       THEN /\ phase' = "idle" /\ question' = NoQuestion
            /\ found' = {} /\ answered' = {} /\ due' = {} /\ carried' = {}
       ELSE /\ carried' = IF phase = "pending" THEN carried \cup InFlight' ELSE carried
            /\ UNCHANGED <<phase, question, found, answered, due>>
    /\ covers' = [p \in Procs |->
            IF pc[p] = "idle" /\ pc'[p] = "scan"
            THEN {r \in Stored : r.sid = target'[p]}
            ELSE IF pc'[p] = "idle" THEN {} ELSE covers[p]]

QNext == ReadPending \/ Write \/ \E q \in Questions : ReadArchive(q)

QSpec == QInit /\ [][QNext]_qvars
-----------------------------------------------------------------------------
Answer == found \cup answered

(* A read counts no record twice: the archive is read before pending, and  *)
(* a record never moves from the archive to pending, so the record a flush *)
(* moves between the two reads is not in both (buffer.go:85-154).          *)
NoDoubleRead == phase = "done" => found \cap answered = {}

(* A record that was stored when a read began is missing from its answer   *)
(* only if a flush was carrying it during the read or if it was deleted    *)
(* during the read (buffer.go:57-60,87-98).                                *)
MissedOnlyInFlight ==
    phase = "done" =>
        \A r \in due \ Answer : r \in carried \/ Stage(r) = "gone"

(* "DeleteSession removes a session's pending and archived records"        *)
(* (buffer.go:156): when it returns, none of the records that the store    *)
(* held when it was called is stored.                                      *)
DeleteRemovesAll ==
    [][\A p \in Procs : DeleteWrite(p) => covers[p] \cap Stored' = {}]_qvars
=============================================================================
