---------------------------- MODULE CyclicBarrier ----------------------------
(***************************************************************************)
(* The barrier of 2019-05-21-src/WinSynch/CyclicBarrier.cpp: a count of    *)
(* the peers that are missing, and an auto-reset event for each peer, which *)
(* it finds through its thread-local storage.  The peers are the threads.  *)
(*                                                                         *)
(* arrived and left are history variables: the calls of CB_Wait of each    *)
(* peer, and those that returned.                                          *)
(***************************************************************************)
EXTENDS WinThreads

CONSTANT MaxRounds      \* bound of the model on the calls of each peer

total == Cardinality(Threads)
Events == 0 .. total - 1

VARIABLES count,            \* b->count
          usedEvents,       \* the events given to a peer so far (usedEvents + 1)
          barrierReached,   \* whether each event is signaled
          tls,              \* the event of each peer, -1 before its first use
          signaling,        \* the loop variable of each peer
          arrived, left

cbvars == <<count, usedEvents, barrierReached, tls, signaling, arrived, left>>

CB_Init ==
  /\ count = total
  /\ usedEvents = 0
  /\ barrierReached = [e \in Events |-> FALSE]
  /\ tls = [t \in Threads |-> -1]
  /\ signaling = [t \in Threads |-> 0]
  /\ arrived = [t \in Threads |-> 0]
  /\ left = [t \in Threads |-> 0]

-----------------------------------------------------------------------------
\* GetThreadEvent: the first call of a thread takes the next event.
GetThreadEvent(t) ==
  IF tls[t] = -1
  THEN usedEvents' = usedEvents + 1 /\ tls' = [tls EXCEPT ![t] = usedEvents]
  ELSE UNCHANGED <<usedEvents, tls>>

\* InterlockedDecrement.  The last peer goes on to "restart", others to "bwait".
CB_Wait(t) ==
  /\ arrived[t] < MaxRounds
  /\ arrived' = [arrived EXCEPT ![t] = @ + 1]
  /\ count' = count - 1
  /\ Goto(t, "program", IF count = 1 THEN "restart" ELSE "bevent")
  /\ UNCHANGED <<usedEvents, barrierReached, tls, signaling, left>>

\* A fault: the count is not restored.
CB_Restart_Forgotten(t) ==
  /\ Goto(t, "restart", "bsignal")
  /\ signaling' = [signaling EXCEPT ![t] = 0]
  /\ UNCHANGED <<count, usedEvents, barrierReached, tls, arrived, left>>

CB_Restart(t) ==
  /\ Goto(t, "restart", "bsignal")
  /\ count' = total
  /\ signaling' = [signaling EXCEPT ![t] = 0]
  /\ UNCHANGED <<usedEvents, barrierReached, tls, arrived, left>>

\* A fault: the peer that arrived last signals itself too.
CB_Signal_Itself(t) ==
  LET i == signaling[t]
  IN /\ pc[t] = "bsignal" /\ UNCHANGED pc
     /\ i < total
     /\ GetThreadEvent(t)
     /\ barrierReached' = [barrierReached EXCEPT ![i] = TRUE]
     /\ signaling' = [signaling EXCEPT ![t] = i + 1]
     /\ UNCHANGED <<count, arrived, left>>

\* One iteration of the loop: every event but one's own is set.
CB_Signal(t) ==
  LET i == signaling[t]
  IN /\ pc[t] = "bsignal" /\ UNCHANGED pc
     /\ i < total
     /\ GetThreadEvent(t)
     /\ barrierReached' = [barrierReached EXCEPT ![i] = @ \/ i # tls'[t]]
     /\ signaling' = [signaling EXCEPT ![t] = i + 1]
     /\ UNCHANGED <<count, arrived, left>>

CB_SignalEnd(t) ==
  /\ signaling[t] = total
  /\ Goto(t, "bsignal", "program")
  /\ left' = [left EXCEPT ![t] = @ + 1]
  /\ UNCHANGED <<count, usedEvents, barrierReached, tls, signaling, arrived>>

CB_FindEvent(t) ==
  /\ Goto(t, "bevent", "bwait")
  /\ GetThreadEvent(t)
  /\ UNCHANGED <<count, barrierReached, signaling, arrived, left>>

CB_WaitOnThreadEvent(t) ==
  /\ Goto(t, "bwait", "program")
  /\ barrierReached[tls[t]]
  /\ barrierReached' = [barrierReached EXCEPT ![tls[t]] = FALSE]
  /\ left' = [left EXCEPT ![t] = @ + 1]
  /\ UNCHANGED <<count, usedEvents, tls, signaling, arrived>>

CB_Continue(t) ==
  \/ CB_Restart(t) \/ CB_Signal(t) \/ CB_SignalEnd(t)
  \/ CB_FindEvent(t) \/ CB_WaitOnThreadEvent(t)

CB_Next == \E t \in Threads : CB_Wait(t) \/ CB_Continue(t)

-----------------------------------------------------------------------------
\* Nobody leaves a round before every peer has entered it, however early the
\* signaled ones come back while the last one is still signaling.
CB_Rendezvous == \A t, u \in Threads : left[t] <= arrived[u]

\* Every peer leaves the round that all have entered: no signal is lost and none
\* is used up by a peer that has gone on to the next round.
CB_WaitReturns ==
  \A t \in Threads : \A r \in 1 .. MaxRounds :
    (\A u \in Threads : arrived[u] >= r) ~> left[t] >= r
=============================================================================
