------------------------------ MODULE ListEntry -------------------------------
(***************************************************************************)
(* The doubly linked lists with a sentinel of Include/List.h, which all    *)
(* libraries of the repository share, as the pointers they are.  The rest  *)
(* of the project uses them as sequences; theList is that sequence.        *)
(***************************************************************************)
EXTENDS Sequences, SequencesExt

CONSTANTS Entries, ListHead

ASSUME ListEntryAssumption == ListHead \notin Entries

VARIABLES Flink, Blink,     \* of the sentinel and of each entry
          theList           \* history: the entries in order

listvars == <<Flink, Blink, theList>>

InitializeListHead ==
  /\ Flink = [e \in Entries \cup {ListHead} |-> IF e = ListHead THEN e ELSE "garbage"]
  /\ Blink = Flink
  /\ theList = <<>>

IsListEmpty == Flink[ListHead] = ListHead

Listed == ToSet(theList)

-----------------------------------------------------------------------------
\* A fault: the sentinel's link is read after it has been written.
InsertTailList_Late(e) ==
  /\ e \notin Listed
  /\ Flink' = [Flink EXCEPT ![e] = ListHead, ![Blink[ListHead]] = e]
  /\ Blink' = [Blink EXCEPT ![ListHead] = e, ![e] = e]
  /\ theList' = Append(theList, e)

InsertTailList(e) ==
  /\ e \notin Listed
  /\ Flink' = [Flink EXCEPT ![e] = ListHead, ![Blink[ListHead]] = e]
  /\ Blink' = [Blink EXCEPT ![e] = Blink[ListHead], ![ListHead] = e]
  /\ theList' = Append(theList, e)

InsertHeadList(e) ==
  /\ e \notin Listed
  /\ Flink' = [Flink EXCEPT ![e] = Flink[ListHead], ![ListHead] = e]
  /\ Blink' = [Blink EXCEPT ![e] = ListHead, ![Flink[ListHead]] = e]
  /\ theList' = <<e>> \o theList

\* The links of the entry that is removed stay as they are.
RemoveHeadList ==
  /\ theList # <<>>
  /\ LET next == Flink[Flink[ListHead]] IN
       /\ Flink' = [Flink EXCEPT ![ListHead] = next]
       /\ Blink' = [Blink EXCEPT ![next] = ListHead]
  /\ theList' = Tail(theList)

RemoveTailList ==
  /\ theList # <<>>
  /\ LET previous == Blink[Blink[ListHead]] IN
       /\ Blink' = [Blink EXCEPT ![ListHead] = previous]
       /\ Flink' = [Flink EXCEPT ![previous] = ListHead]
  /\ theList' = Front(theList)

RemoveEntryList(e) ==
  /\ e \in Listed
  /\ Flink' = [Flink EXCEPT ![Blink[e]] = Flink[e]]
  /\ Blink' = [Blink EXCEPT ![Flink[e]] = Blink[e]]
  /\ \E k \in DOMAIN theList : theList[k] = e /\ theList' = RemoveAt(theList, k)

ListNext ==
  \/ \E e \in Entries : InsertTailList(e) \/ InsertHeadList(e) \/ RemoveEntryList(e)
  \/ RemoveHeadList \/ RemoveTailList

ListSpec == InitializeListHead /\ [][ListNext]_listvars

-----------------------------------------------------------------------------
\* Whatever is inserted and removed at either end or in the middle, the links
\* forward and backward run through the same ring, and that ring is the sequence
\* the other modules take a list for; IsListEmpty tells whether it is empty.
ListIsRing ==
  LET ring == <<ListHead>> \o theList \o <<ListHead>> IN
    /\ \A k \in 1 .. Len(ring) - 1 :
         Flink[ring[k]] = ring[k + 1] /\ Blink[ring[k + 1]] = ring[k]
    /\ IsListEmpty <=> theList = <<>>
=============================================================================
