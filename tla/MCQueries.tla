----------------------------- MODULE MCQueries -----------------------------
EXTENDS Queries, TLC

CONSTANTS a, b

A == <<a>>
B == <<b>>

R(sid, ts, seq) == [sid |-> sid, ts |-> ts, seq |-> seq, body |-> 1]

(* Flat ids and distinct keys.                                             *)
MCRecords == {R(A, 1, 1), R(A, 3, 2), R(B, 2, 1)}

MCQuestions == {[sid |-> A, start |-> 0, end |-> 0],
                [sid |-> A, start |-> 1, end |-> 3],
                [sid |-> NoSid, start |-> 2, end |-> 0]}

MCDeletable == {A}
=============================================================================
