----------------------------- MODULE UThreadApril -----------------------------
(***************************************************************************)
(* The scheduler as the project of 2019-04-09-src/Uthreads2 builds it, from *)
(* UThread.cpp: each thread has a list of joiners, but UtAlive is still a  *)
(* stub.  Its 32 and its 64 bit code differ in UtCreate.                   *)
(*                                                                         *)
(* library also names "Join", the text of UThreadJoin, so that programs can *)
(* be run with either.                                                     *)
(***************************************************************************)
EXTENDS UThreadJoin

CONSTANTS Libraries,
          Garbage       \* what a list head that nobody initialised links

ASSUME AprilAssumption ==
  /\ Libraries \subseteq {"April32", "April64", "Join"}
  /\ Garbage \notin Threads \cup {Main, NULL}

VARIABLE library

aprilvars == <<vars, library>>

April == library \in {"April32", "April64"}

\* In this library Joiners stands for WaitingJoiners, and AliveThreads is not used.
UtInitApril == InitJoin /\ library \in Libraries

UtAliveApril(h) == FALSE

\* UtCreate64 forgets InitializeListHead(&Thread->WaitingJoiners): the list is what
\* malloc returns, the one of the thread that had the block before at best.
NewJoiners == IF library = "April64" THEN {<<>>, <<Garbage>>} ELSE {<<>>}

UtCreateApril(t) ==
  /\ UtCreate(t)
  /\ \E list \in NewJoiners : Joiners' = [Joiners EXCEPT ![t] = list]
  /\ UNCHANGED <<AliveThreads, library>>

UtExitApril ==
  /\ ExitWaking(Joiners[RunningThread])
  /\ Joiners' = [Joiners EXCEPT ![RunningThread] = <<>>]
  /\ UNCHANGED <<AliveThreads, library>>

UtRunApril == UtRun /\ UNCHANGED <<joinvars, library>>
UtRunReturnApril == UtRunReturn /\ UNCHANGED <<joinvars, library>>
UtDeactivateApril == UtDeactivate /\ UNCHANGED <<joinvars, library>>
UtActivateApril(t) == UtActivate(t) /\ UNCHANGED <<joinvars, library>>

\* The call, which returns at once when nobody else is ready.
UtYieldApril ==
  /\ UserRuns
  /\ UtYield \/ (ReadyQueue = <<>> /\ UNCHANGED utvars)
  /\ UNCHANGED <<joinvars, library>>

\* No thread is alive as far as UtJoin can see: it returns FALSE at once.
UtJoinApril(h) ==
  /\ UserRuns
  /\ h = RunningThread \/ ~UtAliveApril(h)
  /\ UNCHANGED aprilvars

AprilNext ==
  \/ \E t \in Threads : UtCreateApril(t) \/ UtActivateApril(t) \/ UtJoinApril(t)
  \/ UtRunApril \/ UtRunReturnApril
  \/ UtExitApril \/ UtYieldApril \/ UtDeactivateApril

AprilSpec == UtInitApril /\ [][AprilNext]_aprilvars

-----------------------------------------------------------------------------
\* What UThread.cpp:31-33 says of the ready queue: it links user threads, and the
\* next thread to run comes from its head.
OnlyThreadsReady ==
  Range(ReadyQueue) \cup {RunningThread} \subseteq Threads \cup {Main, NULL}
=============================================================================
