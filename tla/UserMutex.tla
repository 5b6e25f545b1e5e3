------------------------------ MODULE UserMutex ------------------------------
(***************************************************************************)
(* The user-level recursive mutex of 2019-05-21-src/WinSynch/UserMutex.cpp:*)
(* a count of the threads that hold it or wait, and an auto-reset event    *)
(* for those that wait after having spun in vain.                          *)
(*                                                                         *)
(* The program releases only what it owns (the assertion of UMtxRelease).  *)
(***************************************************************************)
EXTENDS WinThreads

CONSTANTS SpinCount,        \* iterations of the spin loop
          MaxRecursionCount \* bound of the model on nested acquisitions

ASSUME UserMutexAssumption ==
  SpinCount \in Nat /\ MaxRecursionCount \in Nat \ {0}

VARIABLES Owner, RecursionCount, Count,
          Wakeup,       \* the auto-reset event is signaled
          spins         \* of each thread: the loop variable i

umtxvars == <<Owner, RecursionCount, Count, Wakeup, spins>>

UMtxInit ==
  /\ Owner = NULL
  /\ RecursionCount = 0
  /\ Count = 0
  /\ Wakeup = FALSE
  /\ spins = [t \in Threads |-> 0]

-----------------------------------------------------------------------------
\* UMtxAcquire.  pc: "spin" at the head of the loop, "cas" after Count has been
\* read as 0, "increment" after the loop, "sleep" at the wait, "enter" where the
\* owner is written, "inside" after the return.
UMtxAcquireAgain(t) ==
  /\ pc[t] = "inside"
  /\ Owner = t
  /\ RecursionCount < MaxRecursionCount
  /\ RecursionCount' = RecursionCount + 1
  /\ UNCHANGED <<pc, Owner, Count, Wakeup, spins>>

UMtxAcquire(t) ==
  /\ Goto(t, "program", "spin")
  /\ Owner # t
  /\ spins' = [spins EXCEPT ![t] = 0]
  /\ UNCHANGED <<Owner, RecursionCount, Count, Wakeup>>

UMtxSpin(t) ==
  /\ spins[t] < SpinCount
  /\ \/ Count = 0 /\ Goto(t, "spin", "cas") /\ UNCHANGED spins
     \/ /\ Count # 0 /\ pc[t] = "spin" /\ UNCHANGED pc
        /\ spins' = [spins EXCEPT ![t] = @ + 1]
  /\ UNCHANGED <<Owner, RecursionCount, Count, Wakeup>>

UMtxSpun(t) ==
  /\ spins[t] = SpinCount
  /\ Goto(t, "spin", "increment")
  /\ UNCHANGED umtxvars

\* A fault: the exchange is made without a comparison.
UMtxTry_Blind(t) ==
  /\ Count' = 1
  /\ Goto(t, "cas", "enter")
  /\ UNCHANGED <<Owner, RecursionCount, Wakeup, spins>>

\* InterlockedCompareExchange(&Count, 1, 0).
UMtxTry(t) ==
  /\ \/ Count = 0 /\ Count' = 1 /\ Goto(t, "cas", "enter") /\ UNCHANGED spins
     \/ /\ Count # 0 /\ UNCHANGED Count
        /\ Goto(t, "cas", "spin")
        /\ spins' = [spins EXCEPT ![t] = @ + 1]
  /\ UNCHANGED <<Owner, RecursionCount, Wakeup>>

UMtxIncrement(t) ==
  /\ Count' = Count + 1
  /\ Goto(t, "increment", IF Count > 0 THEN "sleep" ELSE "enter")
  /\ UNCHANGED <<Owner, RecursionCount, Wakeup, spins>>

UMtxWait(t) ==
  /\ Wakeup
  /\ Wakeup' = FALSE
  /\ Goto(t, "sleep", "enter")
  /\ UNCHANGED <<Owner, RecursionCount, Count, spins>>

UMtxEnter(t) ==
  /\ Goto(t, "enter", "inside")
  /\ Owner' = t
  /\ RecursionCount' = 1
  /\ UNCHANGED <<Count, Wakeup, spins>>

-----------------------------------------------------------------------------
\* UMtxRelease.  pc: "leave" after Owner has been cleared, "signal" before
\* SetEvent.
UMtxReleaseOnce(t) ==
  /\ pc[t] = "inside"
  /\ RecursionCount > 1
  /\ RecursionCount' = RecursionCount - 1
  /\ UNCHANGED <<pc, Owner, Count, Wakeup, spins>>

UMtxRelease(t) ==
  /\ Goto(t, "inside", "leave")
  /\ RecursionCount = 1
  /\ RecursionCount' = 0
  /\ Owner' = NULL
  /\ UNCHANGED <<Count, Wakeup, spins>>

\* A fault: one waiter is taken for none.
UMtxDecrement_OffByOne(t) ==
  /\ Count' = Count - 1
  /\ Goto(t, "leave", IF Count > 2 THEN "signal" ELSE "program")
  /\ UNCHANGED <<Owner, RecursionCount, Wakeup, spins>>

UMtxDecrement(t) ==
  /\ Count' = Count - 1
  /\ Goto(t, "leave", IF Count > 1 THEN "signal" ELSE "program")
  /\ UNCHANGED <<Owner, RecursionCount, Wakeup, spins>>

UMtxSignal(t) ==
  /\ Wakeup' = TRUE
  /\ Goto(t, "signal", "program")
  /\ UNCHANGED <<Owner, RecursionCount, Count, spins>>

UMtxStep(t) ==
  \/ UMtxSpin(t) \/ UMtxSpun(t) \/ UMtxTry(t) \/ UMtxIncrement(t) \/ UMtxWait(t)
  \/ UMtxEnter(t) \/ UMtxRelease(t) \/ UMtxDecrement(t) \/ UMtxSignal(t)

UMtxNext ==
  \E t \in Threads :
    UMtxAcquireAgain(t) \/ UMtxAcquire(t) \/ UMtxReleaseOnce(t) \/ UMtxStep(t)

-----------------------------------------------------------------------------
\* The threads that have got the mutex and not yet given it up in Count, and
\* those that pass it on to one that sleeps.
Holders == At("enter") \cup At("inside") \cup At("leave")
Passing == At("signal")

\* Whoever wins it, by the exchange, the increment or the event, is alone: there
\* is one holder, or one thread about to set the event, or the event is set.
\* The recorded owner is the thread inside.
UMtxExclusion ==
  /\ \A t, u \in Holders \cup Passing : t = u
  /\ Wakeup => Holders \cup Passing = {}
  /\ \A t \in Threads : Owner = t <=> pc[t] = "inside"

\* Nobody sleeps in vain: while a thread is at the wait, one is inside, passes
\* the mutex on, or the event is set; and Count is who holds it or sleeps.
UMtxNoLostWakeup ==
  /\ At("sleep") # {} => Holders \cup Passing # {} \/ Wakeup
  /\ Count = Cardinality(Holders \cup At("sleep"))

\* Every call of UMtxAcquire returns.
UMtxAcquireReturns == \A t \in Threads : pc[t] = "spin" ~> pc[t] = "inside"
=============================================================================
