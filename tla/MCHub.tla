------------------------------- MODULE MCHub -------------------------------
EXTENDS Hub, TLC

CONSTANTS a, b, k, w1, w2

(* Two sessions of one client.                                             *)
MCMessages == {[session |-> a, client |-> k], [session |-> b, client |-> k]}

(* Everything, or one session.                                             *)
MCFilters == {[session |-> Empty, client |-> Empty], [session |-> a, client |-> Empty]}
=============================================================================
