------------------------------ MODULE SharedInt ------------------------------
(***************************************************************************)
(* 2019-03-19-src/Reader and Writer: two processes share an integer through *)
(* a named section of the paging file.  Whichever comes first creates it   *)
(* with its own protection, the reader's is read only, and it is gone when *)
(* nobody has it open.                                                     *)
(***************************************************************************)
EXTENDS Integers

CONSTANT Numbers    \* what the writer can be called with

ASSUME SharedIntAssumption == Numbers \subseteq Int

VARIABLES number,       \* chosen initially
          reader, writer,   \* where each process is
          protection,   \* of the section, "none": there is no section
          openBy,       \* the processes that have it open
          mem,          \* the integer in it
          res           \* of the reader

intvars == <<number, reader, writer, protection, openBy, mem, res>>

SharedIntInit ==
  /\ number \in Numbers
  /\ reader = "map" /\ writer = "map"
  /\ protection = "none" /\ openBy = {} /\ mem = 0 /\ res = 0

\* A section that exists is opened as it is; a new one is filled with zeros.
CreateFileMapping(p, access) ==
  /\ openBy' = openBy \cup {p}
  /\ \/ protection = "none" /\ protection' = access /\ mem' = 0
     \/ protection # "none" /\ UNCHANGED <<protection, mem>>

Close(p) ==
  /\ openBy' = openBy \ {p}
  /\ protection' = IF openBy' = {} THEN "none" ELSE protection

ReaderStep ==
  /\ \/ /\ reader = "map"       \* CreateFileMapping fails, or not
        /\ \/ reader' = "terminate" /\ res' = -1 /\ UNCHANGED <<openBy, protection, mem>>
           \/ CreateFileMapping("reader", "read") /\ reader' = "view" /\ UNCHANGED res
     \/ /\ reader = "view"
        /\ \/ reader' = "terminate" /\ res' = -2
           \/ reader' = "terminate" /\ res' = mem
        /\ UNCHANGED <<openBy, protection, mem>>
     \/ /\ reader = "terminate"
        /\ reader' = "done"
        /\ Close("reader")
        /\ UNCHANGED <<res, mem>>
  /\ UNCHANGED <<number, writer>>

\* No view for writing can be had of a section that is read only.
WriterStep ==
  /\ \/ /\ writer = "map"
        /\ \/ writer' = "failed" /\ UNCHANGED <<openBy, protection, mem>>
           \/ CreateFileMapping("writer", "read and write") /\ writer' = "view"
     \/ /\ writer = "view"
        /\ \/ writer' = "failed" /\ UNCHANGED mem
           \/ protection = "read and write" /\ writer' = "written" /\ mem' = number
        /\ UNCHANGED <<openBy, protection>>
     \/ /\ writer \in {"written", "failed"}     \* after the user has pressed enter
        /\ writer' = IF writer = "failed" THEN "done: failed" ELSE "done"
        /\ Close("writer")
        /\ UNCHANGED mem
  /\ UNCHANGED <<number, reader, res>>

SharedIntNext == ReaderStep \/ WriterStep

-----------------------------------------------------------------------------
\* Both end and the section with them; the reader has got the writer's number, the
\* zero of a new section or an error, and the number only from a writer that did
\* not fail.
SharedIntEnded ==
  /\ reader = "done" /\ writer \in {"done", "done: failed"}
  /\ protection = "none"
  /\ res \in {0, number, -1, -2}
  /\ res \notin {0, -1, -2} => writer = "done"
=============================================================================
