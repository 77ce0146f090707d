------------------------------ MODULE Requests ------------------------------
(***************************************************************************)
(* The handlers under way, for the modules whose handlers read, await and  *)
(* write again: a process of Proc is one execution of a handler, which     *)
(* carries what it read from one await to the next.                        *)
(***************************************************************************)
EXTENDS Naturals, FiniteSets

CONSTANTS
    Proc,       \* the executions that can be under way at once
    MaxJobs     \* bound: handlers started, of any kind

ASSUME SomeProcesses == IsFiniteSet(Proc) /\ Proc # {}

VARIABLES
    job,        \* what each process is doing
    started     \* how many handlers were started, for the bound only

requestVars == <<job, started>>

Idle == [op |-> "idle", at |-> "idle"]
AllIdle == \A p \in Proc : job[p] = Idle
At(p, op, at) == job[p].op = op /\ job[p].at = at

RequestsInit ==
    /\ job = [p \in Proc |-> Idle]
    /\ started = 0

\* A free process takes up a handler.
Dispatch(p, j) ==
    /\ job[p] = Idle
    /\ started < MaxJobs
    /\ started' = started + 1
    /\ job' = [job EXCEPT ![p] = j]

\* A process goes on.
Become(p, j) ==
    /\ job' = [job EXCEPT ![p] = j]
    /\ UNCHANGED started

\* A handler that is one statement comes and goes at once.
Once ==
    /\ started < MaxJobs
    /\ started' = started + 1
    /\ UNCHANGED job
=============================================================================
