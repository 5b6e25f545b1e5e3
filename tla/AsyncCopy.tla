------------------------------- MODULE AsyncCopy -------------------------------
(***************************************************************************)
(* The file copy with overlapped I/O of                                    *)
(* 2019-05-28-src/CopyFileAsync/CopyFileAsync.cpp: one thread that keeps   *)
(* NOPERS operations going, each a read, then the write of what was read,  *)
(* then the next read, and waits for their events.                         *)
(*                                                                         *)
(* A byte is written as its position in the input file.  The system may    *)
(* complete an operation at once or later, and if IOMayFail it may refuse  *)
(* it, or fail later; a write beyond the end of the output makes it longer. *)
(***************************************************************************)
EXTENDS Naturals, Integers, Sequences

CONSTANTS NOPERS, BUFFER_SIZE, FileSizes,
          IOMayFail     \* the devices may refuse and fail operations

ASSUME AsyncCopyAssumption ==
  /\ NOPERS \in Nat \ {0} /\ BUFFER_SIZE \in Nat \ {0}
  /\ FileSizes \subseteq Nat /\ IOMayFail \in BOOLEAN

VARIABLES inFileSize, currInPos,
          readOpers, writeOpers,
          opers,        \* type, Offset, buffer; and of the last request to the
                        \* system: pending, nTransfer, the event, and
                        \* whether it failed (error)
          copying,      \* where the thread is: "start", "DoIO", "wait", "end"
          caller,       \* of DoIO: "start", "readDone", "writeDone"
          current,      \* the operation it works on
          nBytes,       \* the parameter of DoIO
          out,          \* the output file
          failed,       \* history: a request was refused, or failed
          shortSync     \* history: a read of less than asked completed at once

copyvars == <<inFileSize, currInPos, readOpers, writeOpers, opers, copying,
              caller, current, nBytes, out, failed, shortSync>>

Opers == 1 .. NOPERS

OperInit == [type |-> "READ", Offset |-> 0, buffer |-> [j \in 1 .. BUFFER_SIZE |-> 0],
             pending |-> FALSE, nTransfer |-> 0, event |-> FALSE,
             error |-> FALSE]

\* The output file is as long as the input before the first write.
CopyInit ==
  /\ inFileSize \in FileSizes
  /\ currInPos = 0 /\ readOpers = 0 /\ writeOpers = 0
  /\ opers = [i \in Opers |-> OperInit]
  /\ copying = "start" /\ caller = "start" /\ current = 0 /\ nBytes = 0
  /\ out = [p \in 1 .. inFileSize |-> 0]
  /\ failed = FALSE /\ shortSync = FALSE

oper == opers[current]

-----------------------------------------------------------------------------
\* The system's part: n bytes go from the file to the buffer, or back; a request
\* resets the event, its completion sets it.
CanRead(offset) ==
  LET rest == inFileSize - offset IN IF nBytes < rest THEN nBytes ELSE rest

AfterRead(o, n) ==
  [o EXCEPT !.pending = FALSE, !.event = TRUE, !.error = FALSE, !.nTransfer = n,
            !.buffer = [j \in 1 .. BUFFER_SIZE |-> IF j <= n THEN o.Offset + j ELSE @[j]]]

AfterWrite(o, n) ==
  [o EXCEPT !.pending = FALSE, !.event = TRUE, !.error = FALSE, !.nTransfer = n]

AfterFailure(o) == [o EXCEPT !.pending = FALSE, !.event = TRUE, !.error = TRUE]

Written(o, n) ==
  LET length == IF o.Offset + n > Len(out) THEN o.Offset + n ELSE Len(out)
  IN [p \in 1 .. length |-> IF p \in o.Offset + 1 .. o.Offset + n
                            THEN o.buffer[p - o.Offset] ELSE out[p]]

Completion(i) ==
  /\ opers[i].pending
  /\ LET o == opers[i] IN
       \/ /\ o.type = "READ"
          /\ opers' = [opers EXCEPT ![i] = AfterRead(o, o.nTransfer)]
          /\ UNCHANGED out
       \/ /\ o.type = "WRITE"
          /\ opers' = [opers EXCEPT ![i] = AfterWrite(o, o.nTransfer)]
          /\ out' = Written(o, o.nTransfer)
  /\ UNCHANGED <<inFileSize, currInPos, readOpers, writeOpers, copying, caller,
                 current, nBytes, failed, shortSync>>

\* A pending request fails: a read leaves the buffer as it was, a write has written
\* a beginning of it, or nothing.
CompletionFails(i) ==
  /\ IOMayFail /\ opers[i].pending
  /\ opers' = [opers EXCEPT ![i] = AfterFailure(@)]
  /\ failed' = TRUE
  /\ \/ opers[i].type = "READ" /\ UNCHANGED out
     \/ /\ opers[i].type = "WRITE"
        /\ \E n \in 0 .. opers[i].nTransfer : out' = Written(opers[i], n)
  /\ UNCHANGED <<inFileSize, currInPos, readOpers, writeOpers, copying, caller,
                 current, nBytes, shortSync>>

Pend(o, n) ==
  [o EXCEPT !.pending = TRUE, !.event = FALSE, !.error = FALSE, !.nTransfer = n]

Refuse(o) == [o EXCEPT !.event = FALSE]

-----------------------------------------------------------------------------
\* DoIO returns: to the loop that starts the operations, whose body ignores the
\* result; or to the one that waits, by AsyncReadDone, whose FALSE ends the copy,
\* or AsyncWriteDone, which ignores it.  That loop ends when nothing is counted
\* as going on.
DoIO_Returns(res) ==
  copying' =
    IF caller = "start" THEN (IF current < NOPERS THEN "start" ELSE "wait")
    ELSE IF caller = "readDone" /\ ~res THEN "end"
    ELSE IF writeOpers' > 0 \/ readOpers' > 0 THEN "wait" ELSE "end"

InDoIO(type) ==
  /\ copying = "DoIO" /\ oper.type = type
  /\ UNCHANGED <<inFileSize, caller, current, nBytes>>

DoIO_AtEnd ==
  /\ InDoIO("READ") /\ currInPos >= inFileSize
  /\ UNCHANGED <<currInPos, readOpers, writeOpers, opers, out, failed, shortSync>>
  /\ DoIO_Returns(TRUE)

\* ReadFile at the current position: it stays pending, completes at once, so that
\* the loop goes on to write, or fails.
DoIO_Read ==
  /\ InDoIO("READ") /\ currInPos < inFileSize
  /\ currInPos' = currInPos + nBytes
  /\ UNCHANGED <<writeOpers, out>>
  /\ LET o == [oper EXCEPT !.Offset = currInPos]
         n == CanRead(currInPos)
     IN \/ /\ opers' = [opers EXCEPT ![current] = Pend(o, n)]
           /\ readOpers' = readOpers + 1
           /\ UNCHANGED <<failed, shortSync>>
           /\ DoIO_Returns(TRUE)
        \/ /\ opers' = [opers EXCEPT ![current] = [AfterRead(o, n) EXCEPT !.type = "WRITE"]]
           /\ shortSync' = (shortSync \/ n < nBytes)
           /\ UNCHANGED <<readOpers, copying, failed>>
        \/ /\ IOMayFail /\ failed' = TRUE
           /\ opers' = [opers EXCEPT ![current] = Refuse(o)]
           /\ readOpers' = readOpers + 1
           /\ UNCHANGED shortSync
           /\ DoIO_Returns(FALSE)

\* WriteFile at the offset of the read, of nBytes: after a read that completed at
\* once that is what was asked for, not what was transferred.
DoIO_Write ==
  /\ InDoIO("WRITE")
  /\ UNCHANGED <<currInPos, readOpers, shortSync>>
  /\ \/ /\ opers' = [opers EXCEPT ![current] = Pend(oper, nBytes)]
        /\ writeOpers' = writeOpers + 1
        /\ UNCHANGED <<out, failed>>
        /\ DoIO_Returns(TRUE)
     \/ /\ opers' = [opers EXCEPT ![current] = [AfterWrite(oper, nBytes) EXCEPT !.type = "READ"]]
        /\ out' = Written(oper, nBytes)
        /\ UNCHANGED <<writeOpers, copying, failed>>
     \/ /\ IOMayFail /\ failed' = TRUE
        /\ opers' = [opers EXCEPT ![current] = Refuse(oper)]
        /\ writeOpers' = writeOpers + 1
        /\ UNCHANGED out
        /\ DoIO_Returns(FALSE)

-----------------------------------------------------------------------------
\* CopyAsync: its first loop, one operation after the other, and the wait for any
\* event; WaitForMultipleObjects answers the first that is set, which stays set.
DoIO(from, n) == copying' = "DoIO" /\ caller' = from /\ nBytes' = n

CopyAsync_Start ==
  /\ copying = "start"
  /\ current' = current + 1
  /\ DoIO("start", BUFFER_SIZE)
  /\ UNCHANGED <<inFileSize, currInPos, readOpers, writeOpers, opers, out, failed,
                 shortSync>>

Answered(i) == opers[i].event /\ \A j \in 1 .. i - 1 : ~opers[j].event

\* A fault: the write is started for a whole buffer.
AsyncReadDone_WholeBuffer ==
  /\ copying = "wait"
  /\ \E i \in Opers :
       /\ Answered(i) /\ opers[i].type = "READ"
       /\ current' = i
       /\ \/ /\ opers[i].error
             /\ copying' = "end" /\ UNCHANGED <<opers, caller, nBytes>>
          \/ /\ ~opers[i].error
             /\ opers' = [opers EXCEPT ![i].type = "WRITE"]
             /\ DoIO("readDone", BUFFER_SIZE)
  /\ readOpers' = readOpers - 1
  /\ UNCHANGED <<inFileSize, currInPos, writeOpers, out, failed, shortSync>>

\* A fault: the result of the read is not looked at.
AsyncReadDone_Unchecked ==
  /\ copying = "wait"
  /\ \E i \in Opers :
       /\ Answered(i) /\ opers[i].type = "READ"
       /\ current' = i
       /\ opers' = [opers EXCEPT ![i].type = "WRITE"]
       /\ DoIO("readDone", opers[i].nTransfer)
  /\ readOpers' = readOpers - 1
  /\ UNCHANGED <<inFileSize, currInPos, writeOpers, out, failed, shortSync>>

\* A fault: the read is not counted down.
AsyncReadDone_Uncounted ==
  /\ copying = "wait"
  /\ \E i \in Opers :
       /\ Answered(i) /\ opers[i].type = "READ" /\ ~opers[i].error
       /\ current' = i
       /\ opers' = [opers EXCEPT ![i].type = "WRITE"]
       /\ DoIO("readDone", opers[i].nTransfer)
  /\ UNCHANGED <<inFileSize, currInPos, readOpers, writeOpers, out, failed, shortSync>>

\* The answer to a read that failed ends the loop, the type still READ.
AsyncReadDone ==
  /\ copying = "wait"
  /\ \E i \in Opers :
       /\ Answered(i) /\ opers[i].type = "READ"
       /\ current' = i
       /\ \/ /\ opers[i].error
             /\ copying' = "end" /\ UNCHANGED <<opers, caller, nBytes>>
          \/ /\ ~opers[i].error
             /\ opers' = [opers EXCEPT ![i].type = "WRITE"]
             /\ DoIO("readDone", opers[i].nTransfer)
  /\ readOpers' = readOpers - 1
  /\ UNCHANGED <<inFileSize, currInPos, writeOpers, out, failed, shortSync>>

\* The answer to a write that failed ends the loop before writeOpers is counted down.
AsyncWriteDone ==
  /\ copying = "wait"
  /\ \E i \in Opers :
       /\ Answered(i) /\ opers[i].type = "WRITE"
       /\ current' = i
       /\ \/ /\ opers[i].error
             /\ copying' = "end" /\ UNCHANGED <<opers, caller, nBytes, writeOpers>>
          \/ /\ ~opers[i].error
             /\ writeOpers' = writeOpers - 1
             /\ opers' = [opers EXCEPT ![i].type = "READ"]
             /\ DoIO("writeDone", BUFFER_SIZE)
  /\ UNCHANGED <<inFileSize, currInPos, readOpers, out, failed, shortSync>>

CopyMainStep ==
  \/ CopyAsync_Start \/ DoIO_AtEnd \/ DoIO_Read \/ DoIO_Write
  \/ AsyncReadDone \/ AsyncWriteDone

SystemCompletes == \E i \in Opers : Completion(i) \/ CompletionFails(i)

CopyNext == CopyMainStep \/ SystemCompletes

CopySpec == CopyInit /\ [][CopyNext]_copyvars

\* Windows runs the thread and completes every request.
FairCopySpec == CopySpec /\ WF_copyvars(CopyNext)

-----------------------------------------------------------------------------
\* Whatever is refused or fails, and wherever the copy stops, no byte of the output
\* within the size of the input is another than the input's: an operation whose read
\* failed, or that an old completion answered, writes nothing it did not read.
CopyWritesOnlyInput == \A p \in 1 .. inFileSize : out[p] \in {0, p}

\* That always; and when the copy ends and no request was refused or failed, the
\* output begins with all of the input, whatever completed at once and whatever
\* later, and is as long as the input, unless the last read, shorter than asked,
\* completed at once.
CopyIsComplete ==
  /\ CopyWritesOnlyInput
  /\ copying = "end" /\ ~failed =>
       /\ \A p \in 1 .. inFileSize : out[p] = p
       /\ Len(out) = inFileSize \/ shortSync
       /\ \A i \in Opers : ~opers[i].pending

\* What CopyFileAsync.cpp:68 says of DoIO: it maintains the copy process while
\* operations are done synchronously.
CopySameLength == copying = "end" /\ ~failed => Len(out) = inFileSize

\* The program is a file copy (CopyFileAsync.cpp:3) that reports when it is done:
\* when no request is refused and none fails, it ends.
CopyTerminates == <>(copying = "end")

\* Where the thread waits for an event that will never be set: the file is empty, so
\* that nothing was ever started; or a request was refused to a caller that ignores
\* the result of DoIO, that is to all but AsyncReadDone.
CopyStalled ==
  /\ copying = "wait" /\ \A i \in Opers : ~opers[i].pending /\ ~opers[i].event
  /\ inFileSize = 0 \/ (failed /\ caller # "readDone")

CopyEnded == copying = "end" \/ CopyStalled
=============================================================================
