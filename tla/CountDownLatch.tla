---------------------------- MODULE CountDownLatch ----------------------------
(***************************************************************************)
(* The latch of 2019-05-21-src/WinSynch/CountDownLatch.cpp: a counter, and *)
(* a manual-reset event that the signal which brings it to 0 sets.         *)
(*                                                                         *)
(* Any thread may reset the latch at any time.  CDL_Reset writes the       *)
(* counter and then resets the event, so calls of others can be in         *)
(* progress when it starts and others can start between its two writes.    *)
(* A round begins with the write of the counter; in a round the program    *)
(* signals at most initialCount times.                                     *)
(***************************************************************************)
EXTENDS WinThreads

CONSTANTS initialCount, MaxResets     \* MaxResets: bound of the model

ASSUME LatchAssumption == initialCount \in Nat /\ MaxResets \in Nat

VARIABLES counter, signaled,
          signals, returned,    \* history of the round: the calls of CDL_Signal,
                                \* and the threads whose waits returned
          disturbed,            \* history of the round: some call was in progress
                                \* when its reset started, or started during it
          resets

cdlvars == <<counter, signaled, signals, returned, disturbed, resets>>

CDL_Init ==
  /\ counter = initialCount
  /\ signaled = FALSE
  /\ signals = 0
  /\ returned = {}
  /\ disturbed = FALSE
  /\ resets = 0

\* A call starts: it disturbs the round if a reset is in progress.
CallStarts == disturbed' = (disturbed \/ At("resetting") # {})

\* A fault: the event is set by the signal before the last one.
CDL_Signal_Early(t) ==
  /\ InProgram(t)
  /\ signals < initialCount
  /\ signals' = signals + 1
  /\ counter' = counter - 1
  /\ pc' = [pc EXCEPT ![t] = IF counter = 2 THEN "set" ELSE "program"]
  /\ CallStarts
  /\ UNCHANGED <<signaled, returned, resets>>

\* InterlockedDecrement; the call that brings the counter to 0 goes on to "set".
CDL_Signal(t) ==
  /\ InProgram(t)
  /\ signals < initialCount
  /\ signals' = signals + 1
  /\ counter' = counter - 1
  /\ pc' = [pc EXCEPT ![t] = IF counter = 1 THEN "set" ELSE "program"]
  /\ CallStarts
  /\ UNCHANGED <<signaled, returned, resets>>

CDL_SetEvent(t) ==
  /\ Goto(t, "set", "program")
  /\ signaled' = TRUE
  /\ UNCHANGED <<counter, signals, returned, disturbed, resets>>

\* The test of CDL_Wait: it returns without the event, or goes to wait for it.
CDL_Wait(t) ==
  /\ \/ /\ InProgram(t) /\ counter = 0 /\ UNCHANGED pc
        /\ returned' = returned \cup {t}
     \/ /\ Goto(t, "program", "latched") /\ counter # 0
        /\ UNCHANGED returned
  /\ CallStarts
  /\ UNCHANGED <<counter, signaled, signals, resets>>

CDL_WaitEvent(t) ==
  /\ Goto(t, "latched", "program")
  /\ signaled
  /\ returned' = returned \cup {t}
  /\ UNCHANGED <<counter, signaled, signals, disturbed, resets>>

\* The first write of CDL_Reset: a new round, whoever is in a call.
CDL_Reset(t) ==
  /\ Goto(t, "program", "resetting")
  /\ resets < MaxResets
  /\ resets' = resets + 1
  /\ counter' = initialCount
  /\ signals' = 0
  /\ returned' = {}
  /\ disturbed' = \E u \in Threads \ {t} : ~InProgram(u)
  /\ UNCHANGED signaled

\* A fault: the event is not reset.
CDL_ResetEvent_Not(t) ==
  /\ Goto(t, "resetting", "program")
  /\ UNCHANGED cdlvars

\* Its second write: ResetEvent.
CDL_ResetEvent(t) ==
  /\ Goto(t, "resetting", "program")
  /\ signaled' = FALSE
  /\ UNCHANGED <<counter, signals, returned, disturbed, resets>>

CDL_Step(t) ==
  \/ CDL_Signal(t) \/ CDL_SetEvent(t) \/ CDL_Wait(t) \/ CDL_WaitEvent(t)
  \/ CDL_Reset(t) \/ CDL_ResetEvent(t)

CDL_Next == \E t \in Threads : CDL_Step(t)

-----------------------------------------------------------------------------
\* CDL_Wait returns only when all the signals of the round have been given, by the
\* counter as well as by the event, in the first round and in every round whose
\* reset met no other call.
CDL_WaitsForAll == returned # {} /\ ~disturbed => signals = initialCount

\* A thread that waits when the last signal of such a round has been given goes on,
\* unless the next reset meets it: it may then have to wait for the next round.
CDL_WaitReturns ==
  \A t \in Threads :
    (pc[t] = "latched" /\ signals = initialCount) ~> (pc[t] = "program" \/ disturbed)

-----------------------------------------------------------------------------
(* A program that uses the latch in rounds, and knows of it only what its     *)
(* calls tell: the thread that resets has seen its own wait return, every     *)
(* signal of the round has been given and nobody waits; no call starts until  *)
(* the reset has returned.  It cannot know that the last CDL_Signal, which a  *)
(* wait need not await, has set the event.                                    *)

CDL_Reusing(t) ==
  /\ CDL_Reset(t) => t \in returned /\ signals = initialCount /\ At("latched") = {}
  /\ InProgram(t) => At("resetting") = {}

CDL_ReuseNext == \E t \in Threads : CDL_Step(t) /\ CDL_Reusing(t)

CDL_ReuseSpec ==
  /\ CDL_Init /\ pc = [t \in Threads |-> "program"]
  /\ [][CDL_ReuseNext]_<<pc, cdlvars>>

\* "Synchronizer for workers completion synchronization": whoever comes back from
\* CDL_Wait finds the work of its round complete, the latch reused or not.
CDL_Completion == returned # {} => signals = initialCount
=============================================================================
