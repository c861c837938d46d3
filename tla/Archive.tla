------------------------------ MODULE Archive ------------------------------
(***************************************************************************)
(* The LevelDB archive of message records (internal/store/leveldb), as     *)
(* operators on the value of the database.                                 *)
(*                                                                         *)
(* A record is stored twice: under a session key                           *)
(* "m:" session id ":" time seq, and under a global key "t:" time seq.     *)
(* The archive is therefore a pair of indexes, each a set of records that  *)
(* holds at most one record per key; a later Put of the same key replaces  *)
(* the record.                                                             *)
(*                                                                         *)
(* A record is [sid, ts, seq, body].  A session id is the sequence of the  *)
(* segments between its ':' characters, because that is the separator of   *)
(* the keys: the id "a" is <<"a">> and the id "a:b" is <<"a", "b">>.       *)
(***************************************************************************)
EXTENDS Integers, Sequences

CONSTANT
    Garbage     \* the time decoded from the key of an id that contains ':'

SE == INSTANCE SequencesExt

SessionKey(r) == <<r.sid, r.ts, r.seq>>
GlobalKey(r)  == <<r.ts, r.seq>>

(* The key of id `other` begins with the prefix "m:" sid ":".              *)
Under(sid, other) == SE!IsPrefix(sid, other)

(* An id without ':' is a single segment.                                  *)
Flat(sid) == sid = <<sid[1]>>

(* decodeSessionKey stops at the first ':' of the id: for an id with       *)
(* another one the 16 bytes it reads begin inside the id, and their value, *)
(* which starts with a letter, is later than any real time.                *)
DecodedTs(r)  == IF Flat(r.sid) THEN r.ts ELSE Garbage
DecodedKey(r) == IF Flat(r.sid) THEN GlobalKey(r) ELSE <<Garbage, Garbage>>

EmptyArchive == [bySession |-> {}, byTime |-> {}]

(* What a batch of writes does to one index: the last write of a key wins. *)
Overwrite(index, batch, Key(_)) ==
    LET n == Len(batch)
        Last == {i \in 1..n : \A j \in 1..n : j > i => Key(batch[j]) # Key(batch[i])}
    IN  {r \in index : \A i \in 1..n : Key(batch[i]) # Key(r)}
            \cup {batch[i] : i \in Last}

Put(archive, batch) ==
    [bySession |-> Overwrite(archive.bySession, batch, SessionKey),
     byTime    |-> Overwrite(archive.byTime, batch, GlobalKey)]

(* Mutation of Scan: the prefix without the session id.                    *)
ScanAnySession(archive, sid) == archive.bySession

(* Iterating the prefix of a session.                                      *)
Scan(archive, sid) == {r \in archive.bySession : Under(sid, r.sid)}

(* [start, end), where end = 0 means no upper bound.                       *)
InWindow(t, start, end) == t >= start /\ (end > 0 => t < end)

RangeScan(archive, sid, start, end) ==
    {r \in Scan(archive, sid) : InWindow(DecodedTs(r), start, end)}

(* The records that the global time index holds in the window.             *)
TimeScan(archive, start, end) ==
    {r \in archive.byTime : InWindow(r.ts, start, end)}

(* Mutation of Delete: the keys of the global index are forgotten.         *)
DeleteSessionKeysOnly(archive, found) ==
    LET sessionKeys == {SessionKey(r) : r \in found}
    IN  [archive EXCEPT !.bySession = {r \in @ : SessionKey(r) \notin sessionKeys}]

(* The batch of deletes that DeleteSession builds from the records `found` *)
(* by its iterator, applied to both indexes.                               *)
Delete(archive, found) ==
    LET sessionKeys == {SessionKey(r) : r \in found}
        globalKeys  == {DecodedKey(r) : r \in found}
    IN  [bySession |-> {r \in archive.bySession : SessionKey(r) \notin sessionKeys},
         byTime    |-> {r \in archive.byTime : GlobalKey(r) \notin globalKeys}]
=============================================================================
