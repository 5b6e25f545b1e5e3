----------------------------- MODULE UThreadJoin -----------------------------
(***************************************************************************)
(* The scheduler with UtAlive and UtJoin, as                               *)
(* 2019-04-09-src/Uthreads2/UThread/UThreadChangesForUtJoinAndUtAlive.c    *)
(* adds them: a list of the existing threads, and in each thread a list of *)
(* the threads that wait for its end.                                      *)
(*                                                                         *)
(* The program joins whatever it likes.  A handle may be stale: its thread  *)
(* may have exited, and its address may by now belong to another thread.    *)
(***************************************************************************)
EXTENDS UThread

VARIABLES AliveThreads,
          Joiners           \* of each block; meaningless in a freed one

joinvars == <<AliveThreads, Joiners>>
vars == <<utvars, joinvars>>

\* The lists of a thread that does not exist are written as empty.
InitJoin ==
  /\ UtInit
  /\ AliveThreads = <<>>
  /\ Joiners = [t \in Threads |-> <<>>]

-----------------------------------------------------------------------------
\* UtAlive walks the list and compares addresses: it never looks into the block.
UtAlive(h) == h \in Range(AliveThreads)

Joining(t) == \E u \in Threads : t \in Range(Joiners[u])

\* Faults: the running thread's list is initialised in place of the new one's; a
\* thread that exits stays in AliveThreads, or wakes only the first of its joiners; a thread
\* joins one that has exited.
UtCreateJoinable_InitsOwn(t) ==
  /\ UtCreate(t)
  /\ AliveThreads' = Append(AliveThreads, t)
  /\ Joiners' = [u \in Threads |-> IF u = RunningThread THEN <<>> ELSE Joiners[u]]
UtExitJoined_StaysAlive ==
  /\ ExitWaking(Joiners[RunningThread])
  /\ Joiners' = [Joiners EXCEPT ![RunningThread] = <<>>]
  /\ UNCHANGED AliveThreads
UtExitJoined_WakesFirst ==
  /\ ExitWaking(SelectSeq(Joiners[RunningThread], LAMBDA u : u = Joiners[RunningThread][1]))
  /\ AliveThreads' = SelectSeq(AliveThreads, LAMBDA u : u # RunningThread)
  /\ Joiners' = [Joiners EXCEPT ![RunningThread] = SelectSeq(@, LAMBDA u : u # @[1])]
UtJoin_NoAliveCheck(h) ==
  /\ UserRuns
  /\ h # RunningThread
  /\ Joiners' = [Joiners EXCEPT ![h] = Append(@, RunningThread)]
  /\ UtDeactivate
  /\ UNCHANGED AliveThreads

UtCreateJoinable(t) ==
  /\ UtCreate(t)
  /\ AliveThreads' = Append(AliveThreads, t)
  /\ Joiners' = [Joiners EXCEPT ![t] = <<>>]

\* RemoveEntryList takes the thread out wherever it is in the list.
Unlinked(s, t) ==
  LET i == CHOOSE k \in DOMAIN s : s[k] = t
  IN SubSeq(s, 1, i - 1) \o SubSeq(s, i + 1, Len(s))

UtExitJoined ==
  /\ ExitWaking(Joiners[RunningThread])
  /\ AliveThreads' = Unlinked(AliveThreads, RunningThread)
  /\ Joiners' = [Joiners EXCEPT ![RunningThread] = <<>>]

\* The call that blocks.  UtJoin of oneself returns FALSE at once, and of a
\* thread that is not alive TRUE; neither changes anything.
UtJoin(h) ==
  /\ UserRuns
  /\ h # RunningThread
  /\ UtAlive(h)
  /\ Joiners' = [Joiners EXCEPT ![h] = Append(@, RunningThread)]
  /\ UtDeactivate
  /\ UNCHANGED AliveThreads

-----------------------------------------------------------------------------
NextJoin ==
  \/ \E t \in Threads : UtCreateJoinable(t) \/ UtJoin(t)
  \/ UtExitJoined
  \/ (UtRun \/ UtRunReturn \/ UtYield) /\ UNCHANGED joinvars

SpecJoin == InitJoin /\ [][NextJoin]_vars

\* As in UThread a running thread ends by giving the processor up, and UtRun goes
\* on when it is switched in.  Beyond that a thread that gets the processor again
\* and again ends by exiting: its function returns.
GiveUpJoin ==
  UtExitJoined \/ (UtYield /\ UNCHANGED joinvars) \/ \E t \in Threads : UtJoin(t)

FairSpecJoin ==
  /\ SpecJoin
  /\ WF_vars(GiveUpJoin)
  /\ WF_vars(UtRunReturn /\ UNCHANGED joinvars)
  /\ \A t \in Threads : SF_vars(RunningThread = t /\ UtExitJoined)

-----------------------------------------------------------------------------
\* Type invariant.
JoinTypeOK ==
  /\ TypeOK
  /\ AliveThreads \in Seq(Threads)
  /\ Joiners \in [Threads -> Seq(Threads)]

\* AliveThreads lists each existing thread once and no freed block.
AliveExact == IsInjective(AliveThreads) /\ Range(AliveThreads) = Allocated

\* No thread is lost: one that is neither running nor ready stands in exactly
\* one joiners list, once, and that list is the one of a thread that exists.
ParkedAreJoining ==
  /\ {t \in Threads : Joining(t)} = Parked
  /\ \A u \in Threads : IsInjective(Joiners[u])
  /\ \A u, v \in Threads :
       u # v => Range(Joiners[u]) \cap Range(Joiners[v]) = {}
  /\ \A u \in Threads : Joiners[u] # <<>> => u \in Allocated

\* UtJoin returns only through the end of the thread it waits for: a thread
\* leaves a joiners list only when the owner of that list exits.
JoinWaitsForExit ==
  [][\A t, u \in Threads :
        t \in Range(Joiners[u]) /\ t \notin Range(Joiners'[u])
          => RunningThread = u /\ u \notin Allocated']_vars

\* A join can never return once its targets, one after another, lead into a
\* circle: a set of threads each of which joins another one of the set.
Circular(t) ==
  \E S \in SUBSET Threads :
    t \in S /\ \A s \in S : \E u \in S : s \in Range(Joiners[u])

\* Every call of UtJoin that blocks returns, unless the program closes a circle.
JoinReturns ==
  \A t \in Threads : Joining(t) ~> ~Joining(t) \/ Circular(t)
=============================================================================
