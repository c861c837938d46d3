---------------------------- MODULE PageRequests ----------------------------
(***************************************************************************)
(* The requests of a page: the promises of client.ts that are not settled. *)
(* A slot holds one request; the server serves the requests in any order,  *)
(* and their answers reach the page in any order.                          *)
(***************************************************************************)
EXTENDS Naturals, FiniteSetsExt

CONSTANTS
    None,           \* nothing
    Slots           \* bound: the requests that can be under way at a time

ASSUME SlotsAssumption == Slots \subseteq Nat /\ IsFiniteSet(Slots)

VARIABLES
    requests,       \* slot -> the request in it, with its answer once there is one
    clicks          \* how many times the user has acted

ClickOf(limit) == clicks < limit /\ clicks' = clicks + 1

Free(used) == {k \in Slots : used[k] = None}

(* The request r is sent.                                                  *)
Put(used, r) == [used EXCEPT ![Min(Free(used))] = r]

Waiting(k) == requests[k] # None /\ requests[k].status = "sent"
Answered(k) == requests[k] # None /\ requests[k].status = "ok"
Refused(k) == requests[k] # None /\ requests[k].status = "failed"

(* The server answers; or it answers with an error, or nothing comes back. *)
Answers(k, answer) == [requests EXCEPT ![k].status = "ok", ![k].answer = answer]
Refuses(k) == [requests EXCEPT ![k].status = "failed"]

(* The callback has run.                                                   *)
Dropped(k) == [requests EXCEPT ![k] = None]
=============================================================================
