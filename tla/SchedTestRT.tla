------------------------------ MODULE SchedTestRT ------------------------------
(***************************************************************************)
(* 2019-05-23-src/SchedTestRT: a thread of idle priority and a child process *)
(* of the REALTIME class count on the same processor until a flag in the   *)
(* memory they share is set, by the parent after two seconds or, because   *)
(* the child may keep the parent from running, by a watch dog in the child *)
(* after ten.                                                              *)
(*                                                                         *)
(* strict: Windows gives the child the class, and what it executes excludes *)
(* the parent; without the privilege it gets a lower one, and Windows      *)
(* sometimes lets a thread that starves run.  A call of the system may     *)
(* always block.  Counters stop at one, and Sleep is any delay.            *)
(***************************************************************************)
EXTENDS Naturals

VARIABLES strict,
          parent, low, child, watchdog,     \* where each thread is
          endFlag, timeout,
          LowPriorityCounter, HighPriorityCounter

rtvars == <<strict, parent, low, child, watchdog, endFlag, timeout,
            LowPriorityCounter, HighPriorityCounter>>

RTInit ==
  /\ strict \in BOOLEAN
  /\ parent = "start"
  /\ low = "none" /\ child = "none" /\ watchdog = "none"
  /\ endFlag = FALSE /\ timeout = FALSE
  /\ LowPriorityCounter = 0 /\ HighPriorityCounter = 0

\* The processor is free for the threads of the parent.
ParentMayRun == strict => child # "counting"

\* Where a caller goes when the call succeeds or fails.
CreateSharedRegion(ok) == {ok, "done"}
CreateSuspendedThreadAtPriority(ok) == {ok, "done"}

-----------------------------------------------------------------------------
ParentCreates ==
  /\ \/ parent = "start" /\ parent' \in CreateSharedRegion("region") /\ UNCHANGED low
     \/ /\ parent = "region"
        /\ parent' \in CreateSuspendedThreadAtPriority("launch")
        /\ low' = IF parent' = "done" THEN low ELSE "suspended"
  /\ UNCHANGED <<child, endFlag>>

LaunchProcess ==
  /\ parent = "launch"
  /\ \/ parent' = "done" /\ UNCHANGED child
     \/ parent' = "resume high" /\ child' = "suspended"
  /\ UNCHANGED <<low, endFlag>>

ParentResumes ==
  /\ \/ /\ parent = "resume high" /\ parent' = "resume low"
        /\ child' = "start" /\ UNCHANGED low
     \/ /\ parent = "resume low" /\ parent' = "sleep"
        /\ low' = "sleep" /\ UNCHANGED child
  /\ UNCHANGED endFlag

\* The end of the two seconds, then the wait for both counting threads.
ParentEnds ==
  /\ \/ parent = "sleep" /\ parent' = "wait low" /\ endFlag' = TRUE
     \/ parent = "wait low" /\ low = "done" /\ parent' = "wait child" /\ UNCHANGED endFlag
     \/ parent = "wait child" /\ child = "done" /\ parent' = "done" /\ UNCHANGED endFlag
  /\ UNCHANGED <<low, child>>

Parent ==
  /\ ParentMayRun
  /\ ParentCreates \/ LaunchProcess \/ ParentResumes \/ ParentEnds
  /\ UNCHANGED <<strict, watchdog, timeout, LowPriorityCounter, HighPriorityCounter>>

LowPriorityThread ==
  /\ ParentMayRun
  /\ \/ low = "sleep" /\ low' = "counting" /\ UNCHANGED LowPriorityCounter
     \/ low = "counting" /\ endFlag /\ low' = "done" /\ UNCHANGED LowPriorityCounter
     \/ low = "counting" /\ ~endFlag /\ LowPriorityCounter' = 1 /\ UNCHANGED low
  /\ UNCHANGED <<strict, parent, child, watchdog, endFlag, timeout, HighPriorityCounter>>

HighPriorityThread ==
  /\ child = "counting"
  /\ \/ endFlag /\ child' = "done" /\ UNCHANGED HighPriorityCounter
     \/ ~endFlag /\ HighPriorityCounter' = 1 /\ UNCHANGED child
  /\ UNCHANGED watchdog

Child ==
  /\ \/ /\ child = "start" /\ child' \in CreateSharedRegion("region")
        /\ UNCHANGED <<watchdog, HighPriorityCounter>>
     \/ /\ child = "region"
        /\ child' \in CreateSuspendedThreadAtPriority("counting")
        /\ watchdog' = IF child' = "done" THEN watchdog ELSE "sleep"
        /\ UNCHANGED HighPriorityCounter
     \/ HighPriorityThread
  /\ UNCHANGED <<strict, parent, low, endFlag, timeout, LowPriorityCounter>>

\* A fault: the time is noted, and the flag not set.
WatchDogThread_NoFlag ==
  /\ child # "done"
  /\ \/ watchdog = "sleep" /\ watchdog' = "end" /\ timeout' = TRUE
     \/ watchdog = "end" /\ watchdog' = "done" /\ UNCHANGED timeout
  /\ UNCHANGED <<strict, parent, low, child, endFlag, LowPriorityCounter,
                 HighPriorityCounter>>

\* It has the highest priority of all; it is gone when its process is.
WatchDogThread ==
  /\ child # "done"
  /\ \/ watchdog = "sleep" /\ watchdog' = "end" /\ timeout' = TRUE /\ UNCHANGED endFlag
     \/ watchdog = "end" /\ watchdog' = "done" /\ endFlag' = TRUE /\ UNCHANGED timeout
  /\ UNCHANGED <<strict, parent, low, child, LowPriorityCounter, HighPriorityCounter>>

RTThreads == {"parent", "low", "child", "watchdog"}

RTThread(t) ==
  \/ t = "parent" /\ Parent
  \/ t = "low" /\ LowPriorityThread
  \/ t = "child" /\ Child
  \/ t = "watchdog" /\ WatchDogThread

RTNext == \E t \in RTThreads : RTThread(t)

-----------------------------------------------------------------------------
\* The test ends even where the child leaves the parent no processor at all; and
\* there, if the child has counted, it is the watch dog that ended it.
SchedTestEnded == parent = "done" /\ (strict /\ HighPriorityCounter > 0 => timeout)
=============================================================================
