------------------------------ MODULE Semaphore ------------------------------
(***************************************************************************)
(* The counting semaphore of 2019-04-09-src/Uthreads2/USynch/Semaphore.c,  *)
(* for threads of the cooperative scheduler; each call is one action.      *)
(* Requests of several permits queue up, and SemaphoreRelease serves the   *)
(* head of the queue as long as it can.                                    *)
(*                                                                         *)
(* Permits is a ULONG: additions wrap at MaxULong + 1.  taken and supplied *)
(* are history variables: the permits granted to each thread, and all the  *)
(* permits the semaphore was given.                                        *)
(***************************************************************************)
EXTENDS UThread, FiniteSetsExt

CONSTANTS InitialPermits, Limit,    \* the arguments of SemaphoreInit
          MaxULong,                 \* the largest ULONG
          Requests, Releases,       \* the counts the program acquires, releases
          MaxSupply                 \* bound of the model on supplied

ASSUME SemaphoreAssumption ==
  /\ MaxULong \in Nat \ {0} /\ Limit \in 0 .. MaxULong
  /\ InitialPermits \in 0 .. Limit
  /\ Requests \subseteq 1 .. MaxULong /\ Releases \subseteq 1 .. MaxULong
  /\ MaxSupply \in Nat

\* There are finitely many addresses.
ASSUME FiniteThreads == IsFiniteSet(Threads)

VARIABLES Permits,
          SemaphoreWaitList,     \* the wait blocks, in list order
          taken, supplied

semvars == <<Permits, SemaphoreWaitList, taken, supplied>>

WaitBlock(t, n) == [Thread |-> t, RequestedPermits |-> n]
WaitBlocks == [Thread : Threads, RequestedPermits : Requests]

InitSemaphore ==
  /\ Permits = InitialPermits
  /\ SemaphoreWaitList = <<>>
  /\ taken = [t \in Threads |-> 0]
  /\ supplied = InitialPermits

-----------------------------------------------------------------------------
SemaphoreAcquireAtOnce(n) ==
  /\ UserRuns
  /\ Permits >= n
  /\ Permits' = Permits - n
  /\ taken' = [taken EXCEPT ![RunningThread] = @ + n]
  /\ UNCHANGED <<utvars, SemaphoreWaitList, supplied>>

SemaphoreAcquireBlocks(n) ==
  /\ UserRuns
  /\ Permits < n
  /\ SemaphoreWaitList' = Append(SemaphoreWaitList, WaitBlock(RunningThread, n))
  /\ UtDeactivate
  /\ UNCHANGED <<Permits, taken, supplied>>

\* A fault: the count is set instead of added.
Added_Overwrites(n) == n

\* Permits after the addition and the clamping to Limit.
Added(n) ==
  LET sum == (Permits + n) % (MaxULong + 1)
  IN IF sum > Limit THEN Limit ELSE sum

\* The permits asked for by the wait blocks at the positions I.
Asked(I) == MapThenSumSet(LAMBDA i : SemaphoreWaitList[i].RequestedPermits, I)

\* A fault: one block is served at most.
Served_One(p) ==
  IF SemaphoreWaitList # <<>> /\ p >= SemaphoreWaitList[1].RequestedPermits THEN 1 ELSE 0

\* How many blocks, from the head, the loop of SemaphoreRelease serves with p
\* permits: it goes on while the requests so far fit.
Served(p) == Max({k \in 0 .. Len(SemaphoreWaitList) : Asked(1 .. k) <= p})

\* The loop with p permits: the first blocks are taken off the list and their
\* threads activated, in order.  A fault: they are not paid for.
Serve_Unpaid(p) ==
  LET k == Served(p)
      granted(t) == Asked({i \in 1 .. k : SemaphoreWaitList[i].Thread = t})
  IN /\ Permits' = p
     /\ SemaphoreWaitList' = SubSeq(SemaphoreWaitList, k + 1, Len(SemaphoreWaitList))
     /\ ReadyQueue' = ReadyQueue \o [i \in 1 .. k |-> SemaphoreWaitList[i].Thread]
     /\ taken' = [t \in Threads |-> taken[t] + granted(t)]

Serve(p) ==
  LET k == Served(p)
      granted(t) == Asked({i \in 1 .. k : SemaphoreWaitList[i].Thread = t})
  IN /\ Permits' = p - Asked(1 .. k)
     /\ SemaphoreWaitList' = SubSeq(SemaphoreWaitList, k + 1, Len(SemaphoreWaitList))
     /\ ReadyQueue' = ReadyQueue \o [i \in 1 .. k |-> SemaphoreWaitList[i].Thread]
     /\ taken' = [t \in Threads |-> taken[t] + granted(t)]

SemaphoreRelease(n) ==
  /\ Executing
  /\ supplied + n <= MaxSupply
  /\ supplied' = supplied + n
  /\ Serve(Added(n))
  /\ UNCHANGED <<Allocated, NumberOfThreads, RunningThread, MainThread>>

-----------------------------------------------------------------------------
NextSemaphore ==
  \/ \E n \in Requests : SemaphoreAcquireAtOnce(n) \/ SemaphoreAcquireBlocks(n)
  \/ \E n \in Releases : SemaphoreRelease(n)

\* Type invariant.
SemTypeOK ==
  /\ Permits \in 0 .. MaxULong
  /\ SemaphoreWaitList \in Seq(WaitBlocks)
  /\ taken \in [Threads -> Nat]
  /\ supplied \in Nat

\* The threads of the wait blocks.
Queued == [i \in DOMAIN SemaphoreWaitList |-> SemaphoreWaitList[i].Thread]

\* No wake-up is missed: the request at the head cannot be satisfied, whatever
\* was taken past it and whatever came and went since it was queued.
HeadMustWait ==
  SemaphoreWaitList # <<>> => Permits < Head(SemaphoreWaitList).RequestedPermits

\* Every permit granted was supplied.
NoPermitInvented ==
  Permits + MapThenSumSet(LAMBDA t : taken[t], Threads) <= supplied

\* What a release supplies is there to be taken or was granted, all of it, or as
\* much as had room below the limit, and no other call changes the sum.  It needs
\* Limit to leave room below the end of the ULONG range for the largest release.
PermitsNeverLost ==
  [][LET all == Permits + MapThenSumSet(LAMBDA t : taken[t], Threads)
         room == Limit - Permits
         more == supplied' - supplied
     IN all' - all = IF more <= room THEN more ELSE room]_semvars

\* SemaphoreAcquire does not look at the wait list, but the request at its head
\* is overtaken only by smaller ones: who gets permits while it still waits has
\* not asked for as many.  With requests of one size this is FIFO order.
HeadOvertakenBySmaller ==
  [][\A u \in Threads :
        /\ SemaphoreWaitList # <<>>
        /\ Head(SemaphoreWaitList) \in Range(SemaphoreWaitList')
        /\ taken'[u] > taken[u]
        => taken'[u] - taken[u] < Head(SemaphoreWaitList).RequestedPermits]_semvars

\* What the comment in SemaphoreRelease says (Semaphore.c:98, "We stop at the
\* first request that cannot be satisfied to ensure FIFO ordering"): nobody gets
\* permits while a request made earlier still waits for its own.
FifoOrder ==
  [][\A i \in DOMAIN SemaphoreWaitList, u \in Threads :
        taken'[u] > taken[u] /\ SemaphoreWaitList[i] \in Range(SemaphoreWaitList')
          => \E j \in 1 .. i - 1 : SemaphoreWaitList[j].Thread = u]_semvars
=============================================================================
