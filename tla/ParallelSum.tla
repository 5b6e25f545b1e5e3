------------------------------ MODULE ParallelSum ------------------------------
(***************************************************************************)
(* The sums of an array in parallel: 2019-05-09-src/ParallelSumOk/Main.cpp *)
(* and its latch, and the first versions in 2019-05-07-src.  The main      *)
(* thread divides the array among nParts parts, hands each to a thread, to *)
(* the system's pool or to our own, and adds up what they found.           *)
(*                                                                         *)
(* All values are 1 (InitValues): a sum is the number of elements summed.  *)
(* The workers stand for the threads of all three kinds.  The contexts and *)
(* the latch are locals of the adder, which Test calls NTRIES times: a late*)
(* access of a worker reaches those of the next call.                      *)
(***************************************************************************)
EXTENDS ThreadPool, Integers

CONSTANTS Adders, nParts, Sizes,
          NTRIES        \* bound of the model on the calls

ASSUME ParallelSumAssumption ==
  /\ nParts \in Nat \ {0} /\ Sizes \subseteq Nat /\ NTRIES \in Nat
  /\ NoUnit \notin 0 .. nParts - 1

VARIABLES adder, size,      \* chosen initially
          adding,           \* where the main thread is
          part,             \* its loop variable
          ctx,              \* of each part: start, end, partialResult
          partialWorkDone,  \* of each part: the event, or the end of the thread
          cdl,              \* the latch: Counter and WorkDone
          total,
          results,          \* history: what the calls returned
          system            \* parts handed to the system and not yet started

sumvars == <<adder, size, adding, part, ctx, partialWorkDone, cdl, total, results,
             system>>

Parts == 0 .. nParts - 1

SumInit ==
  /\ TpInit
  /\ adder \in Adders
  /\ size \in Sizes
  /\ adding = "test"
  /\ part = 0
  /\ ctx = [i \in Parts |-> [start |-> 0, end |-> 0, partialResult |-> 0]]
  /\ partialWorkDone = [i \in Parts |-> FALSE]
  /\ cdl = [Counter |-> 0, WorkDone |-> FALSE]
  /\ total = 0
  /\ results = <<>>
  /\ system = {}

WithLatch == adder \in {"ParallelSumTPCDL", "ParallelSumSOTPCDL"}
partSize == size \div nParts

-----------------------------------------------------------------------------
\* A call begins: CDL_Init if the adder has a latch.
CDL_Create == cdl' = [Counter |-> nParts, WorkDone |-> FALSE]

Test ==
  /\ adding = "test" /\ Len(results) < NTRIES
  /\ adding' = "start"
  /\ part' = 0 /\ total' = 0
  /\ IF WithLatch THEN CDL_Create ELSE UNCHANGED cdl
  /\ UNCHANGED <<adder, size, ctx, partialWorkDone, results, system, poolvars>>

\* The first loop of the adders: a context for the part, an event that is not
\* signaled, and the part handed over.
CtxInit(end) ==
  /\ adding = "start" /\ part < nParts
  /\ ctx' = [ctx EXCEPT ![part] = [start |-> part * partSize,
                                   end |-> end, partialResult |-> 0]]
  /\ part' = part + 1
  /\ UNCHANGED <<adder, size, adding, cdl, total, results>>

CtxInitTp(end) ==
  CtxInit(end) /\ partialWorkDone' = [partialWorkDone EXCEPT ![part] = FALSE]

CtxInitTpCdl(end) == CtxInit(end) /\ UNCHANGED partialWorkDone

\* A fault: the last part is as long as the others.
LastTakesRest_Not == (part + 1) * partSize

\* The last part takes the rest of the division as well.
LastTakesRest == IF part < nParts - 1 THEN (part + 1) * partSize ELSE size

\* In the first version it does not.
EqualParts == LET end == (part + 1) * partSize
              IN IF end > size THEN size ELSE end

BySystem == system' = system \cup {part} /\ UNCHANGED poolvars

StartTp(end) == CtxInitTp(end) /\ BySystem

QueueReleased == BQ_Released /\ UNCHANGED sumvars

-----------------------------------------------------------------------------
\* The wait that comes before the second loop: for all events at once, for the
\* latch ("latched" at its event), or none.
MainGoes(from, to) ==
  /\ adding = from /\ part = nParts /\ ~putting
  /\ adding' = to /\ part' = 0
  /\ UNCHANGED <<adder, size, ctx, partialWorkDone, cdl, total, results, system,
                 poolvars>>

NoWait == MainGoes("start", "sum")

WaitForMultiple == (\A i \in Parts : partialWorkDone[i]) /\ MainGoes("start", "sum")

CDL_Wait ==
  \/ cdl.Counter = 0 /\ MainGoes("start", "sum")
  \/ /\ cdl.Counter # 0 /\ adding = "start" /\ part = nParts /\ ~putting
     /\ adding' = "latched"
     /\ UNCHANGED <<adder, size, part, ctx, partialWorkDone, cdl, total, results,
                    system, poolvars>>
  \/ cdl.WorkDone /\ MainGoes("latched", "sum")

\* The second loop, which in some adders waits for each part.
Collect ==
  /\ adding = "sum" /\ part < nParts
  /\ total' = total + ctx[part].partialResult
  /\ part' = part + 1
  /\ UNCHANGED <<adder, size, adding, ctx, partialWorkDone, cdl, results, system,
                 poolvars>>

WaitEach == Collect /\ partialWorkDone[part]

Return ==
  /\ adding = "sum" /\ part = nParts
  /\ results' = Append(results, total)
  /\ adding' = "test"
  /\ UNCHANGED <<adder, size, part, ctx, partialWorkDone, cdl, total, system,
                 poolvars>>

-----------------------------------------------------------------------------
\* The adders: who gets the parts, and what is waited for.
ParallelSum ==
  adder = "ParallelSum" /\ (StartTp(LastTakesRest) \/ NoWait \/ WaitEach)

ParallelArraySum ==
  adder = "ParallelArraySum" /\ (StartTp(LastTakesRest) \/ NoWait \/ WaitEach)

ParallelSumTP ==
  adder = "ParallelSumTP" /\ (StartTp(LastTakesRest) \/ NoWait \/ WaitEach)

ParallelSumTPMW ==
  /\ adder = "ParallelSumTPMW"
  /\ StartTp(LastTakesRest) \/ WaitForMultiple \/ Collect

ParallelSumTPCDL ==
  /\ adder = "ParallelSumTPCDL"
  /\ (CtxInitTpCdl(LastTakesRest) /\ BySystem) \/ CDL_Wait \/ Collect

ParallelSumSOTPCDL ==
  /\ adder = "ParallelSumSOTPCDL"
  /\ \/ CtxInitTpCdl(LastTakesRest) /\ TpQueueItem(part) /\ UNCHANGED system
     \/ QueueReleased \/ CDL_Wait \/ Collect

\* Their events are auto-reset: the one wait for each comes to the same.
ParallelAdder ==
  adder = "ParallelAdder" /\ (StartTp(EqualParts) \/ NoWait \/ WaitEach)

ParallelAdderTP ==
  adder = "ParallelAdderTP" /\ (StartTp(EqualParts) \/ NoWait \/ WaitEach)

-----------------------------------------------------------------------------
\* The system starts a thread, or lets one of its pool call the function.
SystemStarts(w) ==
  /\ WorkerGoes(w, "get", "call")
  /\ \E i \in system :
       /\ unit' = [unit EXCEPT ![w] = i]
       /\ system' = system \ {i}
  /\ UNCHANGED <<adder, size, adding, part, ctx, partialWorkDone, cdl, total,
                 results, queuevars>>

\* The function sums in a local and stores the result.
WorkerFunc(w) ==
  /\ WorkerGoes(w, "call", "signal")
  /\ ctx' = [ctx EXCEPT ![unit[w]].partialResult =
               ctx[unit[w]].end - ctx[unit[w]].start]
  /\ UNCHANGED <<adder, size, adding, part, partialWorkDone, cdl, total, results,
                 system, queuevars, unit>>

WorkerFuncTP(w) ==
  /\ ~WithLatch
  /\ WorkerGoes(w, "signal", "return")
  /\ partialWorkDone' = [partialWorkDone EXCEPT ![unit[w]] = TRUE]
  /\ UNCHANGED <<adder, size, adding, part, ctx, cdl, total, results, system,
                 queuevars, unit>>

\* A fault: a signal is taken for the last one although one is missing.
CDL_Decrement_Early(w) ==
  /\ WithLatch
  /\ cdl' = [cdl EXCEPT !.Counter = @ - 1]
  /\ WorkerGoes(w, "signal", IF cdl.Counter <= 2 THEN "set" ELSE "return")
  /\ UNCHANGED <<adder, size, adding, part, ctx, partialWorkDone, total, results,
                 system, queuevars, unit>>

\* A fault: the last signal is looked for one below zero.
CDL_Decrement_Late(w) ==
  /\ WithLatch
  /\ cdl' = [cdl EXCEPT !.Counter = @ - 1]
  /\ WorkerGoes(w, "signal", IF cdl.Counter = 0 THEN "set" ELSE "return")
  /\ UNCHANGED <<adder, size, adding, part, ctx, partialWorkDone, total, results,
                 system, queuevars, unit>>

CDL_Decrement(w) ==
  /\ WithLatch
  /\ cdl' = [cdl EXCEPT !.Counter = @ - 1]
  /\ WorkerGoes(w, "signal", IF cdl.Counter = 1 THEN "set" ELSE "return")
  /\ UNCHANGED <<adder, size, adding, part, ctx, partialWorkDone, total, results,
                 system, queuevars, unit>>

\* The handle is read from the latch that is there now; between two calls it is
\* closed, and the call fails.
CDL_Set(w) ==
  /\ WorkerGoes(w, "set", "return")
  /\ cdl' = IF adding = "test" THEN cdl ELSE [cdl EXCEPT !.WorkDone = TRUE]
  /\ UNCHANGED <<adder, size, adding, part, ctx, partialWorkDone, total, results,
                 system, queuevars, unit>>

PoolStep(w) == (WorkerGets(w) \/ WorkerThreadFunc(w)) /\ UNCHANGED sumvars

SumWorkerStep(w) ==
  \/ SystemStarts(w) \/ WorkerFunc(w) \/ WorkerFuncTP(w) \/ CDL_Decrement(w)
  \/ CDL_Set(w) \/ PoolStep(w)

SumMainStep ==
  \/ Test \/ Return
  \/ ParallelSum \/ ParallelArraySum \/ ParallelSumTP \/ ParallelSumTPMW
  \/ ParallelSumTPCDL \/ ParallelSumSOTPCDL \/ ParallelAdder \/ ParallelAdderTP

SumNext == SumMainStep \/ \E w \in Workers : SumWorkerStep(w)

SumSpec == SumInit /\ [][SumNext]_<<sumvars, poolvars>>

-----------------------------------------------------------------------------
\* Every call returns the sum of the whole array: no part is missed, left out of
\* the division or added before it is complete.  ParallelAdder and
\* ParallelAdderTP do if the array divides evenly.  With a latch only the first
\* call is sure to: CDL_Wait may return before the SetEvent of the last worker,
\* which then opens the latch of the next call.
SumIsComplete ==
  \A n \in 1 .. Len(results) :
    \/ results[n] = size
    \/ adder \in {"ParallelAdder", "ParallelAdderTP"} /\ size % nParts # 0
    \/ WithLatch /\ n > 1

\* The end: all calls have returned.
SumsEnded == Len(results) = NTRIES
=============================================================================
