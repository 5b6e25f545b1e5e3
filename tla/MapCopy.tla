------------------------------- MODULE MapCopy -------------------------------
(***************************************************************************)
(* 2019-03-19-src/copyFileMap: a file is copied through views of BLOCKSIZE *)
(* bytes of the mappings of both files.  Every call of the system may fail *)
(* and then everything held so far must be given back.                     *)
(***************************************************************************)
EXTENDS Integers

CONSTANTS MapFileSizes,     \* possible lengths of the source file
          BLOCKSIZE

ASSUME MapCopyAssumption == MapFileSizes \subseteq Nat /\ BLOCKSIZE \in Nat \ {0}

VARIABLES srcSize,      \* chosen initially
          mapPc,        \* the call that comes next
          dstSize,
          copied,       \* bytes of the destination that are those of the source
          offset,
          pointers,     \* of src, dst: those that are not NULL
          mapped,       \* the views that are mapped
          open,         \* the handles that are open
          error

mapvars == <<srcSize, mapPc, dstSize, copied, offset, pointers, mapped, open, error>>

MapCopyInit ==
  /\ srcSize \in MapFileSizes
  /\ mapPc = "source"
  /\ dstSize = 0 /\ copied = 0 /\ offset = 0
  /\ pointers = {} /\ mapped = {} /\ open = {}
  /\ error = 0

Fails(code) == error' = code /\ mapPc' = "terminate"

\* The call at from opens h, which comes before the call at to; or it fails.
Opens(from, h, to, code, possible) ==
  /\ mapPc = from
  /\ \/ Fails(code) /\ UNCHANGED open
     \/ possible /\ open' = open \cup {h} /\ mapPc' = to /\ UNCHANGED error

OpenFiles ==
  /\ \/ Opens("source", "hSrc", "destination", -1, TRUE) /\ UNCHANGED dstSize
     \/ Opens("destination", "hDst", "size", -2, TRUE) /\ dstSize' = 0
  /\ UNCHANGED <<srcSize, copied, offset, pointers, mapped>>

\* The destination gets its length before it has its contents.
ForceSize ==
  /\ mapPc = "size"
  /\ \/ Fails(-3) /\ UNCHANGED dstSize
     \/ dstSize' = srcSize /\ mapPc' = "map source" /\ UNCHANGED error
  /\ UNCHANGED <<srcSize, copied, offset, pointers, mapped, open>>

\* Windows maps no file of length zero.
CreateMappings ==
  /\ \/ Opens("map source", "MapSrc", "map destination", -4, srcSize > 0)
     \/ Opens("map destination", "MapDst", "loop", -5, dstSize > 0)
  /\ UNCHANGED <<srcSize, dstSize, copied, offset, pointers, mapped>>

toTransfer == IF srcSize - offset < BLOCKSIZE THEN srcSize - offset ELSE BLOCKSIZE

\* The loop: both views, the copy, and both views unmapped; the pointers stay.
CopyBlock ==
  /\ mapPc = "loop" /\ offset < srcSize
  /\ \/ /\ Fails(-7)
        /\ pointers' = pointers \ {"src"}
        /\ UNCHANGED <<copied, offset, mapped>>
     \/ /\ Fails(-8)
        /\ pointers' = (pointers \cup {"src"}) \ {"dst"}
        /\ mapped' = {"src"}
        /\ UNCHANGED <<copied, offset>>
     \/ /\ copied' = copied + toTransfer
        /\ offset' = offset + toTransfer
        /\ pointers' = {"src", "dst"}
        /\ UNCHANGED <<mapPc, mapped, error>>
  /\ UNCHANGED <<srcSize, dstSize, open>>

LoopEnds ==
  /\ mapPc = "loop" /\ offset >= srcSize
  /\ mapPc' = "terminate"
  /\ UNCHANGED <<srcSize, dstSize, copied, offset, pointers, mapped, open, error>>

\* A pointer whose view is no longer mapped is unmapped again, in vain.
Terminate ==
  /\ mapPc = "terminate"
  /\ mapPc' = "done"
  /\ mapped' = mapped \ pointers
  /\ open' = {}
  /\ UNCHANGED <<srcSize, dstSize, copied, offset, pointers, error>>

MyCopyFile == OpenFiles \/ ForceSize \/ CreateMappings \/ CopyBlock \/ LoopEnds \/ Terminate

-----------------------------------------------------------------------------
\* The copy ends, nothing stays mapped or open whatever failed, and it is complete
\* exactly when no error is returned; an empty file can never be copied.
MapCopyEnded ==
  /\ mapPc = "done"
  /\ mapped = {} /\ open = {}
  /\ error = 0 <=> copied = srcSize /\ dstSize = srcSize /\ srcSize > 0
=============================================================================
