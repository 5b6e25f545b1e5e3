------------------------------ MODULE SearchIOCP ------------------------------
(***************************************************************************)
(* The search in files with an I/O completion port of                      *)
(* 2019-06-04-src/SearchIntFilesIOCP: the main thread starts searches, and *)
(* the threads of the port take the completions of their reads, search what*)
(* was read and ask for the next block, or answer with the callback.       *)
(*                                                                         *)
(* A file is a number of blocks with one occurrence each.  At its end the  *)
(* system answers a read with an end-of-file error, at once or through the *)
(* port; a read it starts, even one that completes at once, is answered    *)
(* through the port.  Any read may fail, if ReadsMayFail.                  *)
(***************************************************************************)
EXTENDS Naturals, Sequences, FiniteSets

CONSTANTS PortThreads,
          Searches,     \* the number of searches main starts
          FileBlocks, ReadsMayFail

ASSUME SearchIOCPAssumption ==
  /\ IsFiniteSet(PortThreads) /\ Searches \in Nat
  /\ FileBlocks \subseteq Nat /\ ReadsMayFail \in BOOLEAN

VARIABLES blocks,       \* the length of the file
          started,      \* searches that main has started, all but the last well
          startFailed,  \* the last one failed, main ends
          opCtx,        \* of each search: currPos, ocorrences; allocated
          port,         \* completions: <<search, bytes, error>>
          reading,      \* searches with a read going on
          portThread,   \* of each thread: what it has to do
          answers       \* of each search: the calls <<status, ocorrences>> of the
                        \* callback

iocpvars == <<blocks, started, startFailed, opCtx, port, reading, portThread, answers>>

STATUS_OK == "STATUS_OK"
HANDLE_EOF == "ERROR_HANDLE_EOF"
DEVICE_ERROR == "ERROR_READ_FAULT"
Waiting == [does |-> "wait"]

IOCP_Init ==
  /\ blocks \in FileBlocks
  /\ started = 0 /\ startFailed = FALSE
  /\ opCtx = [s \in 1 .. Searches |->
                [allocated |-> FALSE, currPos |-> 0, ocorrences |-> 0]]
  /\ port = {} /\ reading = {}
  /\ portThread = [t \in PortThreads |-> Waiting]
  /\ answers = [s \in 1 .. Searches |-> <<>>]

-----------------------------------------------------------------------------
\* What the system does with a read at pos: an error it can answer at once, or a
\* completion.
ReadErrors(pos) ==
  (IF pos >= blocks THEN {HANDLE_EOF} ELSE {})
  \cup (IF ReadsMayFail THEN {DEVICE_ERROR} ELSE {})

ReadAnswers(pos) ==
  {<<0, e>> : e \in ReadErrors(pos)} \cup (IF pos < blocks THEN {<<1, STATUS_OK>>} ELSE {})

ReadCompletes ==
  /\ \E s \in reading : \E a \in ReadAnswers(opCtx[s].currPos) :
       /\ reading' = reading \ {s}
       /\ port' = port \cup {<<s, a[1], a[2]>>}
  /\ UNCHANGED <<blocks, started, startFailed, opCtx, portThread, answers>>

-----------------------------------------------------------------------------
\* SearchFileAsync: a context, and ReadAsync; if that fails the context is freed.
SearchFileAsync ==
  /\ started < Searches /\ ~startFailed
  /\ started' = started + 1
  /\ LET s == started + 1 IN
       \/ /\ reading' = reading \cup {s}
          /\ opCtx' = [opCtx EXCEPT ![s].allocated = TRUE]
          /\ UNCHANGED startFailed
       \/ /\ ReadErrors(0) # {}
          /\ startFailed' = TRUE
          /\ UNCHANGED <<reading, opCtx>>
  /\ UNCHANGED <<blocks, port, portThread, answers>>

\* GetQueuedCompletionStatus.  An error other than the end of the file goes to
\* the callback.
IOCP_ThreadFunc(t) ==
  /\ portThread[t] = Waiting
  /\ \E c \in port :
       /\ port' = port \ {c}
       /\ portThread' = [portThread EXCEPT ![t] =
            IF c[3] = DEVICE_ERROR
            THEN [does |-> "dispatch", search |-> c[1], status |-> DEVICE_ERROR]
            ELSE [does |-> "process", search |-> c[1], bytes |-> c[2]]]
  /\ UNCHANGED <<blocks, started, startFailed, opCtx, reading, answers>>

Dispatches(t, s, status) ==
  portThread' = [portThread EXCEPT ![t] =
                   [does |-> "dispatch", search |-> s, status |-> status]]

\* A fault: the occurrences are not found in the last block.
ProcessRequest_LateSearch(t) ==
  /\ portThread[t].does = "process"
  /\ LET s == portThread[t].search
         ctx == [opCtx[s] EXCEPT !.currPos = @ + portThread[t].bytes,
                   !.ocorrences = IF opCtx[s].currPos + 1 < blocks THEN @ + 1 ELSE @]
     IN \/ /\ portThread[t].bytes = 0
           /\ Dispatches(t, s, STATUS_OK)
           /\ UNCHANGED <<opCtx, reading>>
        \/ /\ portThread[t].bytes > 0
           /\ opCtx' = [opCtx EXCEPT ![s] = ctx]
           /\ reading' = reading \cup {s}
           /\ portThread' = [portThread EXCEPT ![t] = Waiting]
  /\ UNCHANGED <<blocks, started, startFailed, port, answers>>

\* A fault: a read that fails at once is taken for one that will be answered.
ProcessRequest_NoAnswer(t) ==
  /\ portThread[t].does = "process"
  /\ LET s == portThread[t].search
         ctx == [opCtx[s] EXCEPT !.currPos = @ + portThread[t].bytes,
                                 !.ocorrences = @ + 1]
     IN \/ /\ portThread[t].bytes = 0
           /\ Dispatches(t, s, STATUS_OK)
           /\ UNCHANGED <<opCtx, reading>>
        \/ /\ portThread[t].bytes > 0
           /\ opCtx' = [opCtx EXCEPT ![s] = ctx]
           /\ \/ reading' = reading \cup {s}
              \/ ReadErrors(ctx.currPos) # {} /\ UNCHANGED reading
           /\ portThread' = [portThread EXCEPT ![t] = Waiting]
  /\ UNCHANGED <<blocks, started, startFailed, port, answers>>

\* No bytes: the search is over.  Otherwise the block is searched, the position
\* moved and the next read started; an error, as that of the end of the file, is
\* the status of the answer.
ProcessRequest(t) ==
  /\ portThread[t].does = "process"
  /\ LET s == portThread[t].search
         ctx == [opCtx[s] EXCEPT !.currPos = @ + portThread[t].bytes,
                                 !.ocorrences = @ + 1]
     IN \/ /\ portThread[t].bytes = 0
           /\ Dispatches(t, s, STATUS_OK)
           /\ UNCHANGED <<opCtx, reading>>
        \/ /\ portThread[t].bytes > 0
           /\ opCtx' = [opCtx EXCEPT ![s] = ctx]
           /\ \/ /\ reading' = reading \cup {s}
                 /\ portThread' = [portThread EXCEPT ![t] = Waiting]
              \/ /\ \E e \in ReadErrors(ctx.currPos) : Dispatches(t, s, e)
                 /\ UNCHANGED reading
  /\ UNCHANGED <<blocks, started, startFailed, port, answers>>

DispatchAndReleaseOper(t) ==
  /\ portThread[t].does = "dispatch"
  /\ LET s == portThread[t].search IN
       /\ answers' = [answers EXCEPT ![s] =
                        Append(@, <<portThread[t].status, opCtx[s].ocorrences>>)]
       /\ opCtx' = [opCtx EXCEPT ![s].allocated = FALSE]
  /\ portThread' = [portThread EXCEPT ![t] = Waiting]
  /\ UNCHANGED <<blocks, started, startFailed, port, reading>>

PortThreadStep(t) ==
  /\ ~startFailed      \* main returns, and the process ends
  /\ IOCP_ThreadFunc(t) \/ ProcessRequest(t) \/ DispatchAndReleaseOper(t)

SearchNext ==
  SearchFileAsync \/ ReadCompletes \/ \E t \in PortThreads : PortThreadStep(t)

SearchSpec == IOCP_Init /\ [][SearchNext]_iocpvars

-----------------------------------------------------------------------------
\* Everyone who has a hand on a search: its read, its completion, its thread.
HandsOn(s) ==
  Cardinality({r \in reading : r = s}) + Cardinality({c \in port : c[1] = s})
  + Cardinality({t \in PortThreads : portThread[t] # Waiting /\ portThread[t].search = s})

\* A search that was started is either in one pair of hands, its context
\* allocated, or was answered once and its context freed: nobody uses it after
\* the callback, and no two threads work on it.  An answer without a device error
\* counts all occurrences, one with an error no more than that.
SearchAnswersOnce ==
  \A s \in 1 .. Searches :
    /\ HandsOn(s) = IF opCtx[s].allocated THEN 1 ELSE 0
    /\ Len(answers[s]) = IF s <= started /\ ~opCtx[s].allocated
                            /\ ~(startFailed /\ s = started) THEN 1 ELSE 0
    /\ \A n \in 1 .. Len(answers[s]) :
         LET status == answers[s][n][1]
             ocorrences == answers[s][n][2]
         IN /\ ocorrences <= blocks
            /\ status # DEVICE_ERROR => ocorrences = blocks

\* Every search that was started is answered, unless main ends because it cannot
\* start the next one.
SearchesEnd ==
  \A s \in 1 .. Searches :
    opCtx[s].allocated ~> ~opCtx[s].allocated \/ startFailed
=============================================================================
