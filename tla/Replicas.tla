------------------------------ MODULE Replicas ------------------------------
(***************************************************************************)
(* What Sessions and Logins share: replicas of the server, each serving    *)
(* some of the calls.  A call is handled in steps, between which the other *)
(* calls go on; what a step knows of its call is in the handler.           *)
(***************************************************************************)
EXTENDS Naturals, Sequences, FiniteSets

CONSTANTS
    Processes,   \* replicas of the server
    Handlers,    \* calls served at the same time
    ProcessOf,   \* the replica that serves each
    MaxCalls     \* bound: calls served altogether

VARIABLES
    serial,      \* whether calls are kept from overlapping: fixed from the start
    call,        \* what each handler is doing
    calls        \* how many calls there were
=============================================================================
