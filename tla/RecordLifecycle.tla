-------------------------- MODULE RecordLifecycle --------------------------
(***************************************************************************)
(* What the storage of message records promises (the Buffer in front of    *)
(* the archive), without saying how.  A record is absent until it is       *)
(* accepted; it is then volatile, and leaves that stage only by becoming   *)
(* durable, by the deletion of its session, or by a crash or a disk fault. *)
(* Nothing but the deletion of its own session removes a durable record,   *)
(* and a record that is gone never comes back.                             *)
(***************************************************************************)
CONSTANTS
    Records,      \* the records that may be submitted
    Sids,         \* the session ids
    Owner,        \* Owner[r]: the session of record r
    DiskFaults    \* may the archive refuse a write?

VARIABLE stage

Stages == {"absent", "volatile", "durable", "gone"}

LifecycleTypeOK == stage \in [Records -> Stages]

Init == stage = [r \in Records |-> "absent"]

In(s) == {r \in Records : stage[r] = s}

Move(S, to) == stage' = [r \in Records |-> IF r \in S THEN to ELSE stage[r]]

Accept(r) == r \in In("absent") /\ Move({r}, "volatile")

(* One flush makes any part of the volatile records durable, at once.      *)
Persist == \E S \in SUBSET In("volatile") : Move(S, "durable")

(* A flush that the archive refuses drops its records.                     *)
Lose == DiskFaults /\ \E S \in SUBSET In("volatile") : Move(S, "gone")

Crash == Move(In("volatile"), "gone")

(* Deleting a session: its volatile and its durable records go in two      *)
(* steps.                                                                  *)
Discard(s) == \E S \in SUBSET {r \in In("volatile") : Owner[r] = s} : Move(S, "gone")
Erase(s)   == \E S \in SUBSET {r \in In("durable") : Owner[r] = s} : Move(S, "gone")

Next == \/ \E r \in Records : Accept(r)
        \/ Persist \/ Lose \/ Crash
        \/ \E s \in Sids : Discard(s) \/ Erase(s)

LifecycleSpec == Init /\ [][Next]_stage
=============================================================================
