------------------------------ MODULE MCBuffer ------------------------------
EXTENDS Buffer, TLC

CONSTANTS a, b

A == <<a>>
B == <<b>>

(* Two records of each session.                                            *)
MCRecords == {[sid |-> A, ts |-> 1, seq |-> 1, body |-> 1],
              [sid |-> A, ts |-> 2, seq |-> 2, body |-> 1],
              [sid |-> B, ts |-> 3, seq |-> 1, body |-> 1],
              [sid |-> B, ts |-> 4, seq |-> 2, body |-> 1]}

MCDeletable == {A, B}
=============================================================================
