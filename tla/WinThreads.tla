------------------------------ MODULE WinThreads ------------------------------
(***************************************************************************)
(* Windows threads, preempted between any two accesses to shared memory,   *)
(* and what the code takes from the system: events, semaphores, mutexes.   *)
(* An auto-reset event is a Boolean that a wait consumes, a semaphore a    *)
(* number that a wait decrements; code between the acquisition and the     *)
(* release of a mutex that guards all it touches is one step.              *)
(***************************************************************************)
EXTENDS Naturals, Integers, Sequences, FiniteSets, Functions

CONSTANTS Threads, NULL

ASSUME WinThreadsAssumption == IsFiniteSet(Threads) /\ NULL \notin Threads

VARIABLE pc     \* where each thread is: "program" outside the library's calls

InProgram(t) == pc[t] = "program"

Goto(t, from, to) == pc[t] = from /\ pc' = [pc EXCEPT ![t] = to]

At(l) == {t \in Threads : pc[t] = l}
=============================================================================
