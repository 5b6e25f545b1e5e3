------------------------------- MODULE AsyncRead -------------------------------
(***************************************************************************)
(* 2019-05-28-src/AsyncIOFirst: a read is begun, other work is done while  *)
(* the system reads, and the result is asked for.  A DWORD and an INT have *)
(* Width bits here.                                                        *)
(***************************************************************************)
EXTENDS Integers

CONSTANTS ReadLengths,  \* what the system can read into the buffer
          Width         \* 32 in the code

ASSUME AsyncReadAssumption ==
  Width \in Nat \ {0} /\ ReadLengths \subseteq 0 .. (2 ^ (Width - 1) - 1)

VARIABLES readPc,
          request,      \* "none", "pending", "failed" or "read"
          transferred,  \* bytes in the buffer
          bytesRead,
          shown         \* bytes ShowBuffer has printed, or -1

readvars == <<readPc, request, transferred, bytesRead, shown>>

AsyncReadInit ==
  /\ readPc = "begin" /\ request = "none"
  /\ transferred = 0 /\ bytesRead = 0 /\ shown = -1

\* A fault: the parameter of ShowBuffer is unsigned.
INT_Unsigned(n) == n

\* The value of a signed one as a DWORD, and back.
DWORD(n) == n % 2 ^ Width
INT(n) == IF n < 2 ^ (Width - 1) THEN n ELSE n - 2 ^ Width

\* ReadFile answers, now or later.
ReadFile(answers) ==
  \/ "pending" \in answers /\ request' = "pending" /\ UNCHANGED transferred
  \/ request' = "failed" /\ UNCHANGED transferred
  \/ request' = "read" /\ transferred' \in ReadLengths

\* ERROR_IO_PENDING is no error.
BeginRead ==
  /\ readPc = "begin"
  /\ ReadFile({"pending", "failed", "read"})
  /\ readPc' = IF request' = "failed" THEN "done" ELSE "other work"
  /\ UNCHANGED <<bytesRead, shown>>

Answered_Read ==
  /\ request = "pending"
  /\ ReadFile({"failed", "read"})
  /\ UNCHANGED <<readPc, bytesRead, shown>>

\* The end of the other work, and the wait for the result.
EndRead ==
  /\ readPc = "other work"
  /\ request # "pending"
  /\ bytesRead' = DWORD(IF request = "failed" THEN -1 ELSE transferred)
  /\ readPc' = "show"
  /\ UNCHANGED <<request, transferred, shown>>

\* The test bytesRead > 0 lets the error through; the INT ShowBuffer is given is
\* negative, and its loop does nothing.
ShowsBuffer ==
  /\ readPc = "show"
  /\ shown' = IF bytesRead > 0 THEN (IF INT(bytesRead) > 0 THEN INT(bytesRead) ELSE 0)
              ELSE shown
  /\ readPc' = "done"
  /\ UNCHANGED <<request, transferred, bytesRead>>

AsyncReadNext == BeginRead \/ Answered_Read \/ EndRead \/ ShowsBuffer

-----------------------------------------------------------------------------
\* The program ends, and has shown just what was read: nothing after a failure,
\* though a failed EndRead passes the test for bytes to show.
AsyncReadEnded ==
  /\ readPc = "done"
  /\ shown \in {-1, 0, transferred}
  /\ shown > 0 <=> request = "read" /\ transferred > 0
=============================================================================
