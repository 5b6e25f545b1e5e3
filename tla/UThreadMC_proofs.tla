---------------------------- MODULE UThreadMC_proofs ----------------------------
(* No thread is lost and none leaves its processor, for every number of      *)
(* processors and every set of threads, whatever they create while they run. *)
EXTENDS MutexMC, DataLemmas

\* The inductive invariant.  HomeOnly and NoThreadLost say nothing of where the
\* code of each processor is, so they are strengthened by what it means to be
\* at each step: who runs there, what an announced thread may rely on, and that
\* a thread being created is known to nobody else.
ControlKnown ==
  \A p \in Processors :
    /\ step[p] \in {"suspended", "resumed", "done"} => RunningThread[p] = NULL
    /\ step[p] = "main" => RunningThread[p] = Main
    /\ step[p] \in {"idling", "leaving"} => RunningThread[p] = p
    /\ step[p] \in {"user", "exiting"} =>
         RunningThread[p] \in OfProcessor(p) \cup {p}
    /\ step[p] \in {"announced", "scanning", "counting", "linking"} =>
         RunningThread[p] \in OfProcessor(p)

WaitersKnown ==
  \A t \in waiting :
    /\ Processor[t] \in Processors
    /\ t \notin Range(ReadyQueue[Processor[t]])
    /\ RunningThread[Processor[t]] = t => step[Processor[t]] = "announced"

AnnouncedKnown ==
  \A p \in Processors :
    step[p] = "announced" =>
      RunningThread[p] \in waiting \cup Range(ReadyQueue[p])

CreatedKnown ==
  \A o \in Processors :
    /\ step[o] = "linking" <=> local[o].thread # NULL
    /\ step[o] = "linking" =>
         /\ Processor[local[o].thread] = local[o].target
         /\ local[o].thread \notin waiting
         /\ local[o].thread \notin Range(ReadyQueue[local[o].target])
         /\ local[o].thread # RunningThread[local[o].target]
         /\ \A p \in Processors : local[p].thread = local[o].thread => p = o

Known == ControlKnown /\ WaitersKnown /\ AnnouncedKnown /\ CreatedKnown

IInv == TypeOK /\ HomeOnly /\ NoThreadLost /\ Known

\* A step that leaves alone who is being created.
SameThreads ==
  \A o \in Processors : /\ local'[o].thread = local[o].thread
                        /\ step[o] = "linking" => local'[o] = local[o]

-----------------------------------------------------------------------------
\* What the proofs need of the constants.
LEMMA Constants ==
  /\ 0 \in Processors /\ Processors \cap Threads = {}
  /\ Main \notin Threads /\ Main \notin Processors
  /\ NULL \notin Threads /\ NULL \notin Processors /\ Main # NULL
BY MCAssumption DEF Processors, Users

\* The arithmetic of the counters and of the scan stays in range.
LEMMA Ranges ==
  /\ 1 \in 0 .. MaxDWORD /\ 0 \in 0 .. MaxDWORD
  /\ \A n \in 0 .. MaxDWORD :
       Increment(n) \in 0 .. MaxDWORD /\ Decrement(n) \in 0 .. MaxDWORD
  /\ \A p \in Processors : (p + 1) % processorsNumber \in Processors
BY MCAssumption DEF Processors, Increment, Decrement

\* A switch on p from the queue q touches p only, and runs a thread of q or none.
LEMMA SwitchFacts ==
  ASSUME TypeOK, NEW p \in Processors, NEW q \in Seq(Users), IsInjective(q),
         SwitchFrom(p, q)
  PROVE  /\ ReadyQueue' \in [Processors -> Seq(Users)]
         /\ RunningThread' \in [Processors -> Users \cup {Main, NULL}]
         /\ step' \in [Processors -> Steps]
         /\ \A o \in Processors \ {p} :
              /\ ReadyQueue'[o] = ReadyQueue[o]
              /\ RunningThread'[o] = RunningThread[o]
              /\ step'[o] = step[o]
         /\ IsInjective(ReadyQueue'[p])
         /\ \/ /\ Range(q) = {} /\ Range(ReadyQueue'[p]) = {}
               /\ RunningThread'[p] = Main /\ step'[p] = "main"
            \/ /\ RunningThread'[p] \in Range(q) /\ step'[p] = "user"
               /\ Range(ReadyQueue'[p]) = Range(q) \ {RunningThread'[p]}
<1> USE Constants
<1>1. CASE q = <<>>
  <2>1. /\ RunningThread' = [RunningThread EXCEPT ![p] = Main]
        /\ ReadyQueue' = [ReadyQueue EXCEPT ![p] = <<>>]
        /\ step' = [step EXCEPT ![p] = "main"]
    BY <1>1 DEF SwitchFrom, Goto
  <2>2. Range(<<>>) = {} /\ IsInjective(<<>>) /\ <<>> \in Seq(Users)
    BY DEF Range, IsInjective
  <2> QED BY <1>1, <2>1, <2>2 DEF TypeOK, Steps
<1>2. CASE q # <<>>
  <2>1. /\ Head(q) \in Users /\ Head(q) \in Range(q) /\ Tail(q) \in Seq(Users)
        /\ IsInjective(Tail(q)) /\ Range(Tail(q)) = Range(q) \ {Head(q)}
    BY <1>2, RemoveHead
  <2>2. Head(q) # Main
    BY <2>1 DEF Users
  <2>3. /\ RunningThread' = [RunningThread EXCEPT ![p] = Head(q)]
        /\ ReadyQueue' = [ReadyQueue EXCEPT ![p] = Tail(q)]
        /\ step' = [step EXCEPT ![p] = "user"]
    BY <1>2, <2>2 DEF SwitchFrom, Goto
  <2> QED BY <2>1, <2>3 DEF TypeOK, Steps
<1> QED BY <1>1, <1>2

\* A switch on p keeps the invariant when q holds the ready threads of p and
\* perhaps the running one, and the running one, if it is not in q, has either
\* announced itself or been freed (gone).
LEMMA SwitchKeeps ==
  ASSUME IInv, NEW p \in Processors, NEW q \in Seq(Users),
         IsInjective(q), SwitchFrom(p, q),
         NEW gone,
         gone = NULL \/ (gone = RunningThread[p] /\ step[p] = "exiting"),
         \A t \in Threads \ {gone} : Processor'[t] = Processor[t],
         gone \in Threads => Processor'[gone] = NULL,
         UNCHANGED waiting, SameThreads,
         step[p] \in {"resumed", "user", "idling", "announced", "exiting"},
         \/ Range(q) = Range(ReadyQueue[p])
         \/ /\ Range(q) = Range(ReadyQueue[p]) \cup {RunningThread[p]}
            /\ step[p] \in {"user", "idling"},
         RunningThread[p] \in Threads => RunningThread[p] \in Range(q) \cup waiting \cup {gone}
  PROVE  HomeOnly' /\ NoThreadLost' /\ Known'
<1> USE Constants DEF SameThreads
<1>1. PICK next :
        /\ next = RunningThread'[p]
        /\ \A o \in Processors \ {p} :
             /\ ReadyQueue'[o] = ReadyQueue[o]
             /\ RunningThread'[o] = RunningThread[o]
             /\ step'[o] = step[o]
        /\ IsInjective(ReadyQueue'[p])
        /\ \/ /\ Range(q) = {} /\ Range(ReadyQueue'[p]) = {}
              /\ next = Main /\ step'[p] = "main"
           \/ /\ next \in Range(q) /\ step'[p] = "user"
              /\ Range(ReadyQueue'[p]) = Range(q) \ {next}
  BY SwitchFacts DEF IInv
<1>2. /\ HomeOnly /\ NoThreadLost
      /\ ControlKnown /\ WaitersKnown /\ AnnouncedKnown /\ CreatedKnown
      /\ waiting \subseteq Threads
      /\ \A o \in Processors : /\ local[o].thread \in Threads \cup {NULL}
                              /\ local[o].target \in Processors
  BY DEF IInv, Known, TypeOK
<1>3. /\ RunningThread[p] \in OfProcessor(p) \cup {p, NULL}
      /\ gone # NULL => /\ gone \in OfProcessor(p) \cup {p}
                        /\ gone \notin Range(ReadyQueue[p])
                        /\ Range(q) = Range(ReadyQueue[p])
  BY <1>2 DEF ControlKnown, HomeOnly, OfProcessor
<1>4. gone \notin waiting /\ \A o \in Processors : local[o].thread = gone => gone = NULL
  <2>1. gone # NULL => gone \notin waiting
    BY <1>2, <1>3 DEF WaitersKnown, OfProcessor
  <2>2. ASSUME NEW o \in Processors, local[o].thread = gone, gone # NULL PROVE FALSE
    <3>1. gone \in Threads
      BY <1>2, <2>2 DEF TypeOK
    <3>2. Processor[gone] = p
      BY <3>1, <2>2, <1>3 DEF OfProcessor
    <3> QED BY <3>2, <2>2, <1>2 DEF CreatedKnown
  <2> QED BY <2>1, <2>2, <1>2
<1>5. \A o \in Processors : OfProcessor(o)' = OfProcessor(o) \ {gone}
  BY DEF OfProcessor
<1>6. \A o \in Processors \ {p} :
        gone \notin OfProcessor(o) \cup {o} \cup Range(ReadyQueue[o])
  BY <1>2, <1>3 DEF OfProcessor, HomeOnly
<1>7. /\ Range(q) \subseteq OfProcessor(p)' \cup {p}
      /\ Range(ReadyQueue[p]) \subseteq Range(q)
      /\ Range(q) \cap waiting = {}
  <2>1. Range(ReadyQueue[p]) \subseteq OfProcessor(p) \cup {p}
    BY <1>2 DEF HomeOnly
  <2>2. Range(ReadyQueue[p]) \cap waiting = {}
    BY <2>1, <1>2 DEF WaitersKnown, OfProcessor
  <2>3. step[p] \in {"user", "idling"} =>
          RunningThread[p] \in OfProcessor(p) \cup {p} /\ RunningThread[p] \notin waiting
    BY <1>2 DEF ControlKnown, WaitersKnown, OfProcessor
  <2>4. Range(q) \subseteq OfProcessor(p) \cup {p} /\ Range(q) \cap waiting = {}
    BY <2>1, <2>2, <2>3
  <2>5. gone \notin Range(q)
    BY <2>4, <1>3 DEF OfProcessor
  <2> QED BY <2>4, <2>5, <1>5
<1>8. HomeOnly'
  <2>1. SUFFICES ASSUME NEW o \in Processors
                 PROVE  /\ IsInjective(ReadyQueue'[o])
                        /\ Range(ReadyQueue'[o]) \subseteq OfProcessor(o)' \cup {o}
                        /\ RunningThread'[o] \in OfProcessor(o)' \cup {o, Main, NULL}
                        /\ RunningThread'[o] \in Range(ReadyQueue'[o]) =>
                             step'[o] = "announced" /\ RunningThread'[o] \notin waiting
    BY DEF HomeOnly
  <2>2. CASE o = p
    BY <2>2, <1>1, <1>7
  <2>3. CASE o # p
    BY <2>3, <1>1, <1>2, <1>5, <1>6 DEF HomeOnly
  <2> QED BY <2>2, <2>3
<1>9. NoThreadLost'
  <2>1. SUFFICES ASSUME NEW o \in Processors, NEW t \in OfProcessor(o)'
                 PROVE  \/ RunningThread'[o] = t \/ t \in Range(ReadyQueue'[o])
                        \/ t \in waiting
                        \/ \E r \in Processors : local'[r].thread = t
    BY DEF NoThreadLost
  <2>2. t \in OfProcessor(o) /\ t # gone /\ t # NULL /\ t \in Threads
    BY <1>5 DEF OfProcessor
  <2>3. CASE o = p
    <3>1. t \in Range(q) => RunningThread'[p] = t \/ t \in Range(ReadyQueue'[p])
      BY <1>1
    <3>2. RunningThread[p] = t => t \in Range(q) \cup waiting
      BY <2>2
    <3> QED BY <2>2, <2>3, <3>1, <3>2, <1>2, <1>7 DEF NoThreadLost
  <2>4. CASE o # p
    BY <2>2, <2>4, <1>1, <1>2 DEF NoThreadLost
  <2> QED BY <2>3, <2>4
<1>10. ControlKnown'
  <2>1. ASSUME NEW o \in Processors, o # p
        PROVE  /\ RunningThread'[o] = RunningThread[o] /\ step'[o] = step[o]
               /\ OfProcessor(o)' = OfProcessor(o)
    <3>1. OfProcessor(o)' = OfProcessor(o) \ {gone} /\ gone \notin OfProcessor(o)
      BY <2>1, <1>5, <1>6
    <3> QED BY <3>1, <2>1, <1>1
  <2>2. \/ RunningThread'[p] = Main /\ step'[p] = "main"
        \/ RunningThread'[p] \in OfProcessor(p)' \cup {p} /\ step'[p] = "user"
    BY <1>1, <1>7
  <2> QED BY <2>1, <2>2, <1>2 DEF ControlKnown
<1>11. WaitersKnown'
  <2>1. SUFFICES ASSUME NEW t \in waiting
                 PROVE  /\ Processor'[t] \in Processors
                        /\ t \notin Range(ReadyQueue'[Processor'[t]])
                        /\ RunningThread'[Processor'[t]] = t =>
                             step'[Processor'[t]] = "announced"
    BY DEF WaitersKnown
  <2>2. t \in Threads /\ Processor'[t] = Processor[t] /\ Processor[t] \in Processors
    BY <1>2, <1>4 DEF WaitersKnown
  <2>3. CASE Processor[t] = p
    BY <2>2, <2>3, <1>1, <1>7
  <2>4. CASE Processor[t] # p
    BY <2>2, <2>4, <1>1, <1>2 DEF WaitersKnown
  <2> QED BY <2>2, <2>3, <2>4
<1>12. AnnouncedKnown'
  <2>1. SUFFICES ASSUME NEW o \in Processors, step'[o] = "announced"
                 PROVE  RunningThread'[o] \in waiting \cup Range(ReadyQueue'[o])
    BY DEF AnnouncedKnown
  <2>2. o # p
    BY <2>1, <1>1
  <2> QED BY <2>1, <2>2, <1>1, <1>2 DEF AnnouncedKnown
<1>13. CreatedKnown'
  <2>1. ASSUME NEW o \in Processors
        PROVE  step'[o] = "linking" <=> local'[o].thread # NULL
    BY <1>1, <1>2 DEF CreatedKnown
  <2>2. ASSUME NEW o \in Processors, step'[o] = "linking"
        PROVE  /\ Processor'[local'[o].thread] = local'[o].target
               /\ local'[o].thread \notin waiting
               /\ local'[o].thread \notin Range(ReadyQueue'[local'[o].target])
               /\ local'[o].thread # RunningThread'[local'[o].target]
               /\ \A r \in Processors : local'[r].thread = local'[o].thread => r = o
    <3> DEFINE t == local[o].thread  h == local[o].target
    <3>1. o # p /\ step[o] = "linking" /\ local'[o] = local[o]
      BY <2>2, <1>1
    <3>2. /\ t \in Threads /\ t # gone /\ h \in Processors
          /\ Processor[t] = h /\ t \notin waiting
          /\ t \notin Range(ReadyQueue[h]) /\ t # RunningThread[h]
          /\ \A r \in Processors : local[r].thread = t => r = o
      BY <3>1, <1>2, <1>4 DEF CreatedKnown
    <3>3. h = p => t \notin Range(q)
      BY <3>2
    <3>4. t \notin Range(ReadyQueue'[h]) /\ t # RunningThread'[h]
      <4>1. CASE h = p
        BY <4>1, <3>2, <3>3, <1>1
      <4>2. CASE h # p
        BY <4>2, <3>2, <1>1
      <4> QED BY <4>1, <4>2
    <3> QED BY <3>1, <3>2, <3>4
  <2> QED BY <2>1, <2>2 DEF CreatedKnown
<1> QED BY <1>8, <1>9, <1>10, <1>11, <1>12, <1>13 DEF Known

\* A step of p that changes nothing but where its code is keeps the invariant.
LEMMA MoveKeeps ==
  ASSUME IInv, NEW p \in Processors, NEW s,
         UNCHANGED <<ReadyQueue, RunningThread, Processor, waiting>>,
         Goto(p, s), step[p] \notin {"announced", "linking"},
         \/ s = "resumed" /\ RunningThread[p] = NULL
         \/ s = "leaving" /\ RunningThread[p] = p
         \/ s = "idling" /\ RunningThread[p] = p
         \/ s \in {"user", "exiting"} /\ RunningThread[p] \in OfProcessor(p) \cup {p}
         \/ s \in {"scanning", "counting"} /\ RunningThread[p] \in OfProcessor(p),
         SameThreads
  PROVE  HomeOnly' /\ NoThreadLost' /\ Known'
<1> USE Constants DEF SameThreads
<1>1. /\ HomeOnly /\ NoThreadLost
      /\ ControlKnown /\ WaitersKnown /\ AnnouncedKnown /\ CreatedKnown
      /\ waiting \subseteq Threads
      /\ \A o \in Processors : step'[o] = IF o = p THEN s ELSE step[o]
      /\ \A o \in Processors : OfProcessor(o)' = OfProcessor(o)
  BY DEF IInv, Known, TypeOK, Goto, OfProcessor
<1>2. RunningThread[p] \notin Range(ReadyQueue[p]) /\ RunningThread[p] \notin waiting
  BY <1>1 DEF HomeOnly, WaitersKnown, OfProcessor
<1>3. HomeOnly'
  BY <1>1, <1>2 DEF HomeOnly
<1>4. NoThreadLost'
  BY <1>1 DEF NoThreadLost
<1>5. ControlKnown'
  BY <1>1 DEF ControlKnown
<1>6. WaitersKnown'
  BY <1>1, <1>2 DEF WaitersKnown
<1>7. AnnouncedKnown'
  BY <1>1 DEF AnnouncedKnown
<1>8. CreatedKnown'
  BY <1>1 DEF CreatedKnown
<1> QED BY <1>3, <1>4, <1>5, <1>6, <1>7, <1>8 DEF Known

\* Every step keeps the types.
LEMMA TypeKept == ASSUME IInv, Next PROVE TypeOK'
<1> DEFINE Locals == [next : Processors, count : 0 .. MaxDWORD,
                      target : Processors, thread : Threads \cup {NULL}]
<1> USE Constants, Ranges
<1>1. /\ NumberOfThreads \in [Processors -> 0 .. MaxDWORD]
      /\ ReadyQueue \in [Processors -> Seq(Users)]
      /\ RunningThread \in [Processors -> Users \cup {Main, NULL}]
      /\ Lock \in [Processors -> BOOLEAN]
      /\ step \in [Processors -> Steps]
      /\ local \in [Processors -> Locals]
      /\ Processor \in [Threads -> Processors \cup {NULL}]
      /\ waiting \subseteq Threads
      /\ mayCreate \in BOOLEAN
      /\ \A p \in Processors : IsInjective(ReadyQueue[p])
      /\ HomeOnly /\ ControlKnown /\ CreatedKnown
  BY DEF IInv, TypeOK, HomeOnly, Known
<1>2. /\ NoLocals \in Locals
      /\ \A l \in Locals :
           /\ l.next \in Processors /\ l.count \in 0 .. MaxDWORD
           /\ l.target \in Processors /\ l.thread \in Threads \cup {NULL}
           /\ \A n \in 0 .. MaxDWORD : [l EXCEPT !.count = n] \in Locals
           /\ \A t \in Threads : [l EXCEPT !.thread = t] \in Locals
           /\ \A r, h \in Processors, n \in 0 .. MaxDWORD :
                [l EXCEPT !.next = r, !.count = n, !.target = h] \in Locals
  BY DEF NoLocals
<1> HIDE DEF Locals
<1>3. SUFFICES /\ NumberOfThreads' \in [Processors -> 0 .. MaxDWORD]
               /\ ReadyQueue' \in [Processors -> Seq(Users)]
               /\ RunningThread' \in [Processors -> Users \cup {Main, NULL}]
               /\ Lock' \in [Processors -> BOOLEAN]
               /\ step' \in [Processors -> Steps]
               /\ local' \in [Processors -> Locals]
               /\ Processor' \in [Threads -> Processors \cup {NULL}]
               /\ waiting' \subseteq Threads
  BY <1>1 DEF TypeOK, Locals, Next
<1>4. ASSUME NEW p \in Processors, NEW q \in Seq(Users), IsInjective(q), SwitchFrom(p, q)
      PROVE  /\ ReadyQueue' \in [Processors -> Seq(Users)]
             /\ RunningThread' \in [Processors -> Users \cup {Main, NULL}]
             /\ step' \in [Processors -> Steps]
  BY <1>4, SwitchFacts DEF IInv
<1>5. ASSUME NEW t \in Threads, NEW p \in Processors,
             ReadyQueue' = [ReadyQueue EXCEPT ![p] = Append(@, t)]
      PROVE  ReadyQueue' \in [Processors -> Seq(Users)]
  <2>1. t \in Users /\ ReadyQueue[p] \in Seq(Users)
    BY <1>1 DEF Users
  <2>2. Append(ReadyQueue[p], t) \in Seq(Users)
    BY <2>1
  <2> QED BY <1>1, <1>5, <2>2
<1>6. ASSUME NEW t \in Threads, UtCreateBefore(t) PROVE <1>3!1
  <2>1. PICK p \in Processors :
          /\ Processor' = [Processor EXCEPT ![t] = p]
          /\ NumberOfThreads' = [NumberOfThreads EXCEPT ![p] = Increment(@)]
          /\ ReadyQueue' = [ReadyQueue EXCEPT ![p] = Append(@, t)]
    BY <1>6 DEF UtCreateBefore
  <2> QED BY <1>1, <1>5, <1>6, <2>1 DEF UtCreateBefore
<1>7. ASSUME NEW p \in Processors, UtRun(p) \/ IdleFunc(p) \/ ProcFuncEnd(p) PROVE <1>3!1
  BY <1>1, <1>7 DEF UtRun, IdleFunc, ProcFuncEnd, Goto, Steps
<1>8. ASSUME NEW p \in Processors, ProcFunc(p) \/ UtDeactivate(p) PROVE <1>3!1
  BY <1>1, <1>4, <1>8 DEF ProcFunc, UtDeactivate
<1>9. ASSUME NEW p \in Processors, UtYieldInternal(p) PROVE <1>3!1
  <2>1. CASE ReadyQueue[p] = <<>>
    BY <1>1, <1>9, <2>1 DEF UtYieldInternal, Goto, Steps
  <2>2. CASE ReadyQueue[p] # <<>>
    <3>1. RunningThread[p] \in Users /\ step[p] \in {"user", "idling"}
      BY <1>1, <1>9 DEF UtYieldInternal, UserRuns, Users, ControlKnown
    <3>2. RunningThread[p] \notin Range(ReadyQueue[p])
      BY <1>1, <3>1 DEF HomeOnly
    <3>3. /\ Append(ReadyQueue[p], RunningThread[p]) \in Seq(Users)
          /\ IsInjective(Append(ReadyQueue[p], RunningThread[p]))
      BY <3>1, <3>2, <1>1, InsertTail
    <3>4. SwitchFrom(p, Append(ReadyQueue[p], RunningThread[p]))
      <4>1. CASE step[p] = "user"
        BY <4>1, <1>9, <2>2 DEF UtYieldInternal
      <4>2. CASE step[p] = "idling"
        BY <4>2, <1>9, <2>2 DEF UtYieldInternal
      <4> QED BY <4>1, <4>2, <3>1
    <3> QED BY <1>1, <1>4, <1>9, <3>3, <3>4 DEF UtYieldInternal
  <2> QED BY <2>1, <2>2
<1>10. ASSUME NEW p \in Processors, Announce(p) PROVE <1>3!1
  BY <1>1, <1>10 DEF Announce, UserRuns, Goto, Steps
<1>11. ASSUME NEW p \in Processors, UtExit(p) PROVE <1>3!1
  <2>1. local' = [local EXCEPT ![p] = [local[p] EXCEPT !.count = NumberOfThreads[p]]]
    BY <1>11 DEF UtExit
  <2>2. local' \in [Processors -> Locals]
    <3>1. local[p] \in Locals /\ NumberOfThreads[p] \in 0 .. MaxDWORD
      BY <1>1
    <3>2. [local[p] EXCEPT !.count = NumberOfThreads[p]] \in Locals
      BY <1>2, <3>1
    <3> QED BY <1>1, <2>1, <3>2
  <2> QED BY <1>1, <1>11, <2>2 DEF UtExit, Goto, Steps
<1>12. ASSUME NEW p \in Processors, UtExitSwitch(p) PROVE <1>3!1
  <2>1. local' \in [Processors -> Locals] /\ local[p].count \in 0 .. MaxDWORD
    BY <1>1, <1>2, <1>12 DEF UtExitSwitch
  <2> QED BY <1>1, <1>4, <1>12, <2>1 DEF UtExitSwitch
<1>13. ASSUME NEW p \in Processors, GetTargetProcessor(p) PROVE <1>3!1
  <2> DEFINE l == local[p]
             n == NumberOfThreads[l.next]
             first == l.next = 0 \/ n < l.count
             c == IF first THEN n ELSE l.count
             h == IF first THEN l.next ELSE l.target
             r == (l.next + 1) % processorsNumber
  <2>1. local' = [local EXCEPT ![p] =
                    [l EXCEPT !.next = r, !.count = c, !.target = h]]
    BY <1>13 DEF GetTargetProcessor
  <2>2. /\ l \in Locals /\ l.next \in Processors /\ l.count \in 0 .. MaxDWORD
        /\ l.target \in Processors
    BY <1>1, <1>2
  <2>3. r \in Processors /\ n \in 0 .. MaxDWORD
    BY <1>1, <2>2
  <2> HIDE DEF first, r, n
  <2>4. c \in 0 .. MaxDWORD /\ h \in Processors
    BY <2>2, <2>3
  <2> HIDE DEF c, h, l
  <2>5. local' \in [Processors -> Locals]
    <3>1. [l EXCEPT !.next = r, !.count = c, !.target = h] \in Locals
      BY <1>2, <2>2, <2>3, <2>4
    <3> QED BY <1>1, <2>1, <3>1
  <2> QED BY <1>1, <1>13, <2>5 DEF GetTargetProcessor, Goto, Steps
<1>14. ASSUME NEW p \in Processors, NEW t \in Threads, UtActivate(p, t) PROVE <1>3!1
  <2>1. ReadyQueue' \in [Processors -> Seq(Users)]
    <3>1. ReadyQueue' = [ReadyQueue EXCEPT ![Processor[t]] = Append(@, t)]
      BY <1>14 DEF UtActivate
    <3>2. CASE Processor[t] \in Processors
      BY <1>5, <3>1, <3>2
    <3>3. CASE Processor[t] \notin Processors
      BY <1>1, <3>1, <3>3
    <3> QED BY <3>2, <3>3
  <2> QED BY <1>1, <1>14, <2>1 DEF UtActivate
<1>15. ASSUME NEW p \in Processors, NEW t \in Threads, UtCreateInternal(p, t) PROVE <1>3!1
  <2>1. /\ local' = [local EXCEPT ![p] = [local[p] EXCEPT !.thread = t]]
        /\ local[p].target \in Processors /\ local[p] \in Locals
    BY <1>1, <1>2, <1>15 DEF UtCreateInternal
  <2>2. local' \in [Processors -> Locals]
    BY <1>1, <1>2, <2>1
  <2>3. NumberOfThreads' \in [Processors -> 0 .. MaxDWORD]
    BY <1>1, <1>15, <2>1 DEF UtCreateInternal
  <2> QED BY <1>1, <1>15, <2>1, <2>2, <2>3 DEF UtCreateInternal, Goto, Steps
<1>16. ASSUME NEW p \in Processors, UtActivateInternal(p) PROVE <1>3!1
  <2>1. local[p].thread \in Threads /\ local[p].target \in Processors
    BY <1>1, <1>2, <1>16 DEF UtActivateInternal, CreatedKnown
  <2>2. ReadyQueue' \in [Processors -> Seq(Users)]
    BY <1>5, <1>16, <2>1 DEF UtActivateInternal
  <2>3. local' \in [Processors -> Locals]
    BY <1>1, <1>2, <1>16 DEF UtActivateInternal
  <2> QED BY <1>1, <1>16, <2>2, <2>3 DEF UtActivateInternal, Goto, Steps
<1> QED
  BY <1>6, <1>7, <1>8, <1>9, <1>10, <1>11, <1>12, <1>13, <1>14, <1>15, <1>16 DEF Next

\* What inserting a thread in a ready queue changes.
LEMMA InsertFacts ==
  ASSUME IInv, NEW p \in Processors, NEW t \in Threads, t \notin Range(ReadyQueue[p]),
         ReadyQueue' = [ReadyQueue EXCEPT ![p] = Append(@, t)]
  PROVE  /\ \A o \in Processors : IsInjective(ReadyQueue'[o])
         /\ \A o \in Processors :
              Range(ReadyQueue'[o]) =
                Range(ReadyQueue[o]) \cup (IF o = p THEN {t} ELSE {})
<1>1. ReadyQueue \in [Processors -> Seq(Users)] /\ t \in Users
  BY DEF IInv, TypeOK, Users
<1>2. \A o \in Processors : IsInjective(ReadyQueue[o])
  BY DEF IInv, HomeOnly
<1>3. /\ ReadyQueue'[p] = Append(ReadyQueue[p], t)
      /\ \A o \in Processors \ {p} : ReadyQueue'[o] = ReadyQueue[o]
  BY <1>1
<1>4. /\ IsInjective(ReadyQueue'[p])
      /\ Range(ReadyQueue'[p]) = Range(ReadyQueue[p]) \cup {t}
  BY <1>1, <1>2, <1>3, InsertTail
<1> QED BY <1>2, <1>3, <1>4

\* Every step that switches keeps the invariant.
LEMMA SwitchesKeep ==
  ASSUME IInv, NEW p \in Processors,
         \/ ProcFunc(p) \/ UtDeactivate(p) \/ UtExitSwitch(p)
         \/ UtYieldInternal(p) /\ ReadyQueue[p] # <<>>
  PROVE  HomeOnly' /\ NoThreadLost' /\ Known'
<1> USE Constants
<1>1. /\ ReadyQueue[p] \in Seq(Users) /\ IsInjective(ReadyQueue[p])
      /\ local \in [Processors -> [next : Processors, count : 0 .. MaxDWORD,
                                  target : Processors, thread : Threads \cup {NULL}]]
      /\ Processor \in [Threads -> Processors \cup {NULL}]
      /\ ControlKnown /\ AnnouncedKnown /\ CreatedKnown /\ HomeOnly
  BY DEF IInv, TypeOK, HomeOnly, Known
<1>2. CASE ProcFunc(p)
  <2>1. /\ SwitchFrom(p, ReadyQueue[p]) /\ UNCHANGED <<Processor, waiting>>
        /\ SameThreads
        /\ step[p] = "resumed" /\ RunningThread[p] = NULL
    BY <1>1, <1>2 DEF ProcFunc, ControlKnown, SameThreads
  <2> QED BY <1>1, <2>1, SwitchKeeps
<1>3. CASE UtDeactivate(p)
  <2>1. /\ SwitchFrom(p, ReadyQueue[p]) /\ UNCHANGED <<Processor, waiting>>
        /\ SameThreads
        /\ step[p] = "announced"
        /\ RunningThread[p] \in waiting \cup Range(ReadyQueue[p])
    BY <1>1, <1>3 DEF UtDeactivate, AnnouncedKnown, SameThreads
  <2> QED BY <1>1, <2>1, SwitchKeeps
<1>4. CASE UtExitSwitch(p)
  <2>1. /\ SwitchFrom(p, ReadyQueue[p]) /\ UNCHANGED waiting
        /\ step[p] = "exiting"
        /\ \A t \in Threads : Processor'[t] =
             IF t = RunningThread[p] THEN NULL ELSE Processor[t]
        /\ local' = [local EXCEPT ![p] = NoLocals]
    BY <1>1, <1>4 DEF UtExitSwitch
  <2>2. local[p].thread = NULL
    BY <1>1, <2>1 DEF CreatedKnown
  <2>3. SameThreads
    BY <1>1, <2>1, <2>2 DEF NoLocals, SameThreads
  <2>4. PICK gone, q : gone = RunningThread[p] /\ q = ReadyQueue[p]
    OBVIOUS
  <2>5. /\ \A t \in Threads \ {gone} : Processor'[t] = Processor[t]
        /\ gone \in Threads => Processor'[gone] = NULL
    BY <2>1, <2>4
  <2>6. /\ q \in Seq(Users) /\ IsInjective(q) /\ SwitchFrom(p, q)
        /\ UNCHANGED waiting
    BY <1>1, <2>1, <2>4
  <2>7. /\ gone = NULL \/ (gone = RunningThread[p] /\ step[p] = "exiting")
        /\ step[p] \in {"resumed", "user", "idling", "announced", "exiting"}
    BY <2>1, <2>4
  <2>8. /\ Range(q) = Range(ReadyQueue[p])
        /\ RunningThread[p] \in Range(q) \cup waiting \cup {gone}
    BY <2>4
  <2> QED BY <2>3, <2>5, <2>6, <2>7, <2>8, SwitchKeeps
<1>5. CASE UtYieldInternal(p) /\ ReadyQueue[p] # <<>>
  <2> DEFINE q == Append(ReadyQueue[p], RunningThread[p])
  <2>1. /\ UNCHANGED <<local, Processor, waiting>>
        /\ UserRuns(p) \/ step[p] = "idling"
        /\ ReadyQueue[p] # <<>>
    BY <1>5 DEF UtYieldInternal
  <2>2. step[p] \in {"user", "idling"} /\ RunningThread[p] \in Users
    BY <1>1, <2>1 DEF UserRuns, ControlKnown, Users
  <2>3. RunningThread[p] \notin Range(ReadyQueue[p])
    BY <1>1, <2>2 DEF HomeOnly
  <2>4. SwitchFrom(p, q)
    BY <1>5 DEF UtYieldInternal
  <2>5. /\ q \in Seq(Users) /\ IsInjective(q)
        /\ Range(q) = Range(ReadyQueue[p]) \cup {RunningThread[p]}
    BY <1>1, <2>2, <2>3, InsertTail
  <2>6. SameThreads
    BY <2>1 DEF SameThreads
  <2> HIDE DEF q
  <2> QED BY <2>1, <2>2, <2>4, <2>5, <2>6, SwitchKeeps
<1> QED BY <1>2, <1>3, <1>4, <1>5

\* Every step that only moves keeps the invariant.
LEMMA MovesKeep ==
  ASSUME IInv, NEW p \in Processors,
         \/ UtRun(p) \/ IdleFunc(p) \/ UtExit(p) \/ GetTargetProcessor(p)
         \/ UtYieldInternal(p) /\ ReadyQueue[p] = <<>>
  PROVE  HomeOnly' /\ NoThreadLost' /\ Known'
<1> USE Constants
<1>1. /\ local \in [Processors -> [next : Processors, count : 0 .. MaxDWORD,
                                  target : Processors, thread : Threads \cup {NULL}]]
      /\ ControlKnown
  BY DEF IInv, TypeOK, Known
<1>2. CASE UtRun(p)
  <2>1. RunningThread[p] = NULL
    BY <1>1, <1>2 DEF UtRun, ControlKnown
  <2>2. /\ UNCHANGED <<ReadyQueue, RunningThread, Processor, waiting>> /\ SameThreads
        /\ Goto(p, "resumed") /\ step[p] = "suspended"
    BY <1>2 DEF UtRun, SameThreads
  <2> QED BY <2>1, <2>2, MoveKeeps
<1>3. CASE IdleFunc(p)
  BY <1>3, MoveKeeps DEF IdleFunc, SameThreads
<1>4. CASE UtExit(p)
  <2>1. RunningThread[p] \in OfProcessor(p) \cup {p} /\ step[p] \in {"user", "leaving"}
    BY <1>1, <1>4 DEF UtExit, UserRuns, ControlKnown
  <2>2. SameThreads
    BY <1>1, <1>4, <2>1 DEF UtExit, SameThreads
  <2>3. /\ UNCHANGED <<ReadyQueue, RunningThread, Processor, waiting>>
        /\ Goto(p, "exiting")
    BY <1>4 DEF UtExit
  <2> QED BY <2>1, <2>2, <2>3, MoveKeeps
<1>5. CASE GetTargetProcessor(p)
  <2>1. RunningThread[p] \in OfProcessor(p) /\ step[p] \in {"user", "scanning"}
    BY <1>1, <1>5 DEF GetTargetProcessor, UserRuns, ControlKnown
  <2>2. SameThreads
    BY <1>1, <1>5, <2>1 DEF GetTargetProcessor, SameThreads
  <2>3. \E s \in {"scanning", "counting"} : Goto(p, s)
    BY <1>5 DEF GetTargetProcessor
  <2>4. UNCHANGED <<ReadyQueue, RunningThread, Processor, waiting>>
    BY <1>5 DEF GetTargetProcessor
  <2> QED BY <2>1, <2>2, <2>3, <2>4, MoveKeeps
<1>6. CASE UtYieldInternal(p) /\ ReadyQueue[p] = <<>>
  <2>1. RunningThread[p] \in OfProcessor(p) \cup {p} /\ step[p] \in {"user", "idling"}
    BY <1>1, <1>6 DEF UtYieldInternal, UserRuns, ControlKnown
  <2>2. /\ UNCHANGED <<ReadyQueue, RunningThread, Processor, waiting>> /\ SameThreads
        /\ Goto(p, "user")
    BY <1>6 DEF UtYieldInternal, SameThreads
  <2> QED BY <2>1, <2>2, MoveKeeps
<1> QED BY <1>2, <1>3, <1>4, <1>5, <1>6

\* The end of a Windows thread keeps the invariant.
LEMMA EndKeeps ==
  ASSUME IInv, NEW p \in Processors, ProcFuncEnd(p)
  PROVE  HomeOnly' /\ NoThreadLost' /\ Known'
<1> USE Constants
<1>1. /\ HomeOnly /\ NoThreadLost
      /\ ControlKnown /\ WaitersKnown /\ AnnouncedKnown /\ CreatedKnown
  BY DEF IInv, Known
<1>2. /\ waiting \subseteq Threads
      /\ step \in [Processors -> Steps]
      /\ RunningThread \in [Processors -> Users \cup {Main, NULL}]
      /\ Processor \in [Threads -> Processors \cup {NULL}]
  BY DEF IInv, TypeOK
<1>3. \A o \in Processors : /\ local[o].thread \in Threads \cup {NULL}
                            /\ local[o].target \in Processors
  BY DEF IInv, TypeOK
<1>4. /\ UNCHANGED <<ReadyQueue, local, Processor, waiting>>
      /\ step[p] = "main" /\ RunningThread[p] = Main
      /\ \A o \in Processors : /\ step'[o] = IF o = p THEN "done" ELSE step[o]
                              /\ RunningThread'[o] = IF o = p THEN NULL
                                                     ELSE RunningThread[o]
      /\ \A o \in Processors : OfProcessor(o)' = OfProcessor(o)
  BY <1>1, <1>2 DEF ProcFuncEnd, Goto, ControlKnown, OfProcessor
<1>5. NULL \notin Range(ReadyQueue[p])
  BY <1>1 DEF HomeOnly, OfProcessor
<1>6. HomeOnly'
  BY <1>1, <1>4, <1>5 DEF HomeOnly
<1>7. NoThreadLost'
  BY <1>1, <1>4 DEF NoThreadLost, OfProcessor
<1>8. ControlKnown' /\ AnnouncedKnown'
  BY <1>1, <1>4 DEF ControlKnown, AnnouncedKnown
<1>9. WaitersKnown'
  BY <1>1, <1>2, <1>4 DEF WaitersKnown
<1>10. CreatedKnown'
  <2>1. ASSUME NEW o \in Processors, step[o] = "linking"
        PROVE  /\ o # p /\ local[o].thread # NULL
               /\ local[o].thread # RunningThread'[local[o].target]
    BY <1>1, <1>3, <1>4, <2>1 DEF CreatedKnown
  <2> QED BY <1>1, <1>4, <2>1 DEF CreatedKnown
<1> QED BY <1>6, <1>7, <1>8, <1>9, <1>10 DEF Known

\* Every step that announces, wakes or creates keeps it.
LEMMA OthersKeep ==
  ASSUME IInv, NEW p \in Processors, NEW t \in Threads,
         \/ UtCreateBefore(t) \/ Announce(p) \/ UtActivate(p, t)
         \/ UtCreateInternal(p, t) \/ UtActivateInternal(p)
  PROVE  HomeOnly' /\ NoThreadLost' /\ Known'
<1> USE Constants
<1>1. /\ HomeOnly /\ NoThreadLost
      /\ ControlKnown /\ WaitersKnown /\ AnnouncedKnown /\ CreatedKnown
  BY DEF IInv, Known
<1>2. /\ waiting \subseteq Threads
      /\ step \in [Processors -> Steps]
      /\ RunningThread \in [Processors -> Users \cup {Main, NULL}]
      /\ Processor \in [Threads -> Processors \cup {NULL}]
      /\ local \in [Processors -> [next : Processors, count : 0 .. MaxDWORD,
                                  target : Processors, thread : Threads \cup {NULL}]]
  BY DEF IInv, TypeOK
<1>3. /\ \A o \in Processors : /\ local[o].thread \in Threads \cup {NULL}
                              /\ local[o].target \in Processors
  BY <1>2
<1> SUFFICES /\ HomeOnly' /\ NoThreadLost' /\ ControlKnown'
             /\ WaitersKnown' /\ AnnouncedKnown' /\ CreatedKnown'
  BY DEF Known
<1>4. CASE UtCreateBefore(t)
  <2>1. PICK h \in Processors :
          /\ Processor' = [Processor EXCEPT ![t] = h]
          /\ ReadyQueue' = [ReadyQueue EXCEPT ![h] = Append(@, t)]
    BY <1>4 DEF UtCreateBefore
  <2>2. /\ UNCHANGED <<RunningThread, step, local, waiting>>
        /\ \A o \in Processors : step[o] = "suspended"
        /\ Processor[t] = NULL
    BY <1>4 DEF UtCreateBefore, NotCreated
  <2>3. \A o \in Processors : RunningThread[o] = NULL /\ local[o].thread = NULL
    BY <1>1, <2>2 DEF ControlKnown, CreatedKnown
  <2>4. /\ t \notin waiting
        /\ \A o \in Processors : t \notin Range(ReadyQueue[o])
        /\ \A o \in Processors :
             OfProcessor(o)' = OfProcessor(o) \cup (IF o = h THEN {t} ELSE {})
    BY <1>1, <1>2, <2>1, <2>2 DEF OfProcessor, WaitersKnown, HomeOnly
  <2>5. /\ \A o \in Processors : IsInjective(ReadyQueue'[o])
        /\ \A o \in Processors :
             Range(ReadyQueue'[o]) =
               Range(ReadyQueue[o]) \cup (IF o = h THEN {t} ELSE {})
    BY <2>1, <2>4, InsertFacts
  <2>6. HomeOnly'
    BY <1>1, <2>2, <2>3, <2>4, <2>5 DEF HomeOnly
  <2>7. NoThreadLost'
    BY <1>1, <2>2, <2>4, <2>5 DEF NoThreadLost
  <2>8. ControlKnown' /\ AnnouncedKnown' /\ CreatedKnown'
    BY <2>2, <2>3 DEF ControlKnown, AnnouncedKnown, CreatedKnown
  <2>9. WaitersKnown'
    <3>1. SUFFICES ASSUME NEW u \in waiting
                   PROVE  /\ Processor'[u] \in Processors
                          /\ u \notin Range(ReadyQueue'[Processor'[u]])
                          /\ RunningThread[Processor'[u]] # u
      BY <2>2 DEF WaitersKnown
    <3>2. /\ u \in Threads /\ u # t /\ u # NULL
          /\ Processor'[u] = Processor[u] /\ Processor[u] \in Processors
      BY <1>1, <1>2, <2>1, <2>4 DEF WaitersKnown
    <3> QED BY <1>1, <2>3, <2>5, <3>2 DEF WaitersKnown
  <2> QED BY <2>6, <2>7, <2>8, <2>9
<1>5. CASE Announce(p)
  <2>1. /\ UNCHANGED <<ReadyQueue, RunningThread, local, Processor>>
        /\ step[p] = "user" /\ RunningThread[p] \in OfProcessor(p)
        /\ waiting' = waiting \cup {RunningThread[p]}
        /\ \A o \in Processors : step'[o] = IF o = p THEN "announced" ELSE step[o]
        /\ \A o \in Processors : OfProcessor(o)' = OfProcessor(o)
    BY <1>1, <1>2, <1>5 DEF Announce, UserRuns, Goto, ControlKnown, OfProcessor
  <2>2. RunningThread[p] \notin Range(ReadyQueue[p])
    BY <1>1, <2>1 DEF HomeOnly
  <2>3. \A o \in Processors \ {p} : RunningThread[p] \notin Range(ReadyQueue[o])
    BY <1>1, <2>1 DEF HomeOnly, OfProcessor
  <2>4. HomeOnly'
    BY <1>1, <2>1, <2>2, <2>3 DEF HomeOnly
  <2>5. NoThreadLost'
    BY <1>1, <2>1 DEF NoThreadLost
  <2>6. ControlKnown' /\ AnnouncedKnown'
    BY <1>1, <2>1 DEF ControlKnown, AnnouncedKnown
  <2>7. WaitersKnown'
    BY <1>1, <2>1, <2>2 DEF WaitersKnown, OfProcessor
  <2>8. CreatedKnown'
    <3>1. \A o \in Processors : step[o] = "linking" => local[o].thread # RunningThread[p]
      BY <1>1, <1>3, <2>1 DEF CreatedKnown, OfProcessor
    <3> QED BY <1>1, <2>1, <3>1 DEF CreatedKnown
  <2> QED BY <2>4, <2>5, <2>6, <2>7, <2>8
<1>6. CASE UtActivate(p, t)
  <2> DEFINE h == Processor[t]
  <2>1. /\ UNCHANGED <<RunningThread, step, local, Processor>>
        /\ t \in waiting /\ waiting' = waiting \ {t}
        /\ ReadyQueue' = [ReadyQueue EXCEPT ![h] = Append(@, t)]
        /\ \A o \in Processors : OfProcessor(o)' = OfProcessor(o)
    BY <1>6 DEF UtActivate, OfProcessor
  <2>2. /\ h \in Processors /\ t \notin Range(ReadyQueue[h])
        /\ RunningThread[h] = t => step[h] = "announced"
    BY <1>1, <2>1 DEF WaitersKnown
  <2>3. /\ \A o \in Processors : IsInjective(ReadyQueue'[o])
        /\ \A o \in Processors :
             Range(ReadyQueue'[o]) =
               Range(ReadyQueue[o]) \cup (IF o = h THEN {t} ELSE {})
    BY <2>1, <2>2, InsertFacts
  <2>4. t \in OfProcessor(h)
    BY DEF OfProcessor
  <2> HIDE DEF h
  <2>5. HomeOnly'
    <3>1. SUFFICES ASSUME NEW o \in Processors
                   PROVE  /\ IsInjective(ReadyQueue'[o])
                          /\ Range(ReadyQueue'[o]) \subseteq OfProcessor(o)' \cup {o}
                          /\ RunningThread'[o] \in OfProcessor(o)' \cup {o, Main, NULL}
                          /\ RunningThread'[o] \in Range(ReadyQueue'[o]) =>
                               step'[o] = "announced" /\ RunningThread'[o] \notin waiting'
      BY DEF HomeOnly
    <3>2. CASE o = h
      <4>1. Range(ReadyQueue'[o]) = Range(ReadyQueue[o]) \cup {t}
        BY <2>3, <3>2
      <4>2. RunningThread[o] = t => step[o] = "announced" /\ t \notin waiting'
        BY <2>1, <2>2, <3>2
      <4> QED BY <1>1, <2>1, <2>3, <2>4, <3>2, <4>1, <4>2 DEF HomeOnly
    <3>3. CASE o # h
      <4>1. Range(ReadyQueue'[o]) = Range(ReadyQueue[o])
        BY <2>3, <3>3
      <4> QED BY <1>1, <2>1, <2>3, <4>1 DEF HomeOnly
    <3> QED BY <3>2, <3>3
  <2>6. NoThreadLost'
    <3>1. SUFFICES ASSUME NEW o \in Processors, NEW r \in OfProcessor(o)
                   PROVE  \/ RunningThread[o] = r \/ r \in Range(ReadyQueue'[o])
                          \/ r \in waiting' \/ \E i \in Processors : local[i].thread = r
      BY <2>1 DEF NoThreadLost
    <3>2. r = t => o = h
      BY <2>2, <2>4 DEF OfProcessor
    <3>3. r = t => r \in Range(ReadyQueue'[o])
      BY <2>3, <3>2
    <3>4. Range(ReadyQueue[o]) \subseteq Range(ReadyQueue'[o])
      BY <2>3
    <3> QED BY <1>1, <2>1, <3>3, <3>4 DEF NoThreadLost
  <2>7. ControlKnown'
    BY <1>1, <2>1 DEF ControlKnown
  <2>8. AnnouncedKnown'
    <3>1. SUFFICES ASSUME NEW o \in Processors, step[o] = "announced"
                   PROVE  RunningThread[o] \in waiting' \cup Range(ReadyQueue'[o])
      BY <2>1 DEF AnnouncedKnown
    <3>2. RunningThread[o] = t => o = h
      BY <1>1, <3>1, <2>4 DEF ControlKnown, OfProcessor
    <3> QED BY <1>1, <2>1, <2>3, <3>1, <3>2 DEF AnnouncedKnown
  <2>9. WaitersKnown'
    BY <1>1, <2>1, <2>3 DEF WaitersKnown
  <2>10. CreatedKnown'
    <3>1. ASSUME NEW o \in Processors, step[o] = "linking"
          PROVE  /\ local[o].thread # t /\ local[o].thread \notin waiting'
                 /\ local[o].thread \notin Range(ReadyQueue'[local[o].target])
      <4>1. /\ local[o].target \in Processors
            /\ local[o].thread \notin waiting
            /\ local[o].thread \notin Range(ReadyQueue[local[o].target])
        BY <1>1, <1>3, <3>1 DEF CreatedKnown
      <4> QED BY <2>1, <2>3, <4>1
    <3> QED BY <1>1, <2>1, <3>1 DEF CreatedKnown
  <2> QED BY <2>5, <2>6, <2>7, <2>8, <2>9, <2>10
<1>7. CASE UtCreateInternal(p, t)
  <2> DEFINE h == local[p].target
  <2>1. /\ UNCHANGED <<ReadyQueue, RunningThread, waiting>>
        /\ step[p] = "counting" /\ Processor[t] = NULL /\ h \in Processors
        /\ \A o \in Processors : step'[o] = IF o = p THEN "linking" ELSE step[o]
        /\ Processor' = [Processor EXCEPT ![t] = h]
        /\ local' = [local EXCEPT ![p].thread = t]
    BY <1>2, <1>3, <1>7 DEF UtCreateInternal, NotCreated, Goto
  <2>2. \A o \in Processors : /\ local'[o].target = local[o].target
                              /\ local'[o].thread = IF o = p THEN t ELSE local[o].thread
    BY <1>2, <2>1
  <2>3. /\ t \notin waiting
        /\ \A o \in Processors : t \notin Range(ReadyQueue[o]) /\ RunningThread[o] # t
        /\ \A o \in Processors : local[o].thread # t
    <3>1. t \notin waiting
      BY <1>1, <2>1 DEF WaitersKnown
    <3>2. \A o \in Processors : t \notin OfProcessor(o)
      BY <2>1 DEF OfProcessor
    <3>3. \A o \in Processors : t \notin Range(ReadyQueue[o]) /\ RunningThread[o] # t
      BY <1>1, <3>2 DEF HomeOnly
    <3>4. \A o \in Processors : local[o].thread # t
      BY <1>1, <1>3, <2>1 DEF CreatedKnown
    <3> QED BY <3>1, <3>3, <3>4
  <2>4. \A o \in Processors :
          OfProcessor(o)' = OfProcessor(o) \cup (IF o = h THEN {t} ELSE {})
    BY <1>2, <2>1 DEF OfProcessor
  <2>5. \A u \in Threads \ {t} : Processor'[u] = Processor[u]
    BY <1>2, <2>1
  <2>6. Processor'[t] = h
    BY <1>2, <2>1
  <2>7. HomeOnly'
    BY <1>1, <2>1, <2>4 DEF HomeOnly
  <2>8. NoThreadLost'
    <3>1. SUFFICES ASSUME NEW o \in Processors, NEW r \in OfProcessor(o)'
                   PROVE  \/ RunningThread[o] = r \/ r \in Range(ReadyQueue[o])
                          \/ r \in waiting \/ \E i \in Processors : local'[i].thread = r
      BY <2>1 DEF NoThreadLost
    <3>2. CASE r = t
      BY <2>2, <3>2
    <3>3. CASE r # t
      <4>1. r \in OfProcessor(o) /\ r # NULL
        BY <2>4, <3>3 DEF OfProcessor
      <4>2. \A i \in Processors : local[i].thread = r => local'[i].thread = r
        <5>1. local[p].thread = NULL
          BY <1>1, <2>1 DEF CreatedKnown
        <5> QED BY <2>2, <4>1, <5>1
      <4> QED BY <1>1, <4>1, <4>2 DEF NoThreadLost
    <3> QED BY <3>2, <3>3
  <2>9. ControlKnown' /\ AnnouncedKnown'
    BY <1>1, <2>1, <2>4 DEF ControlKnown, AnnouncedKnown
  <2>10. WaitersKnown'
    BY <1>1, <1>2, <2>1, <2>3, <2>5 DEF WaitersKnown
  <2>11. CreatedKnown'
    <3>1. ASSUME NEW o \in Processors, o # p, step[o] = "linking"
          PROVE  local[o].thread \in Threads \ {t}
      BY <1>1, <1>3, <2>3, <3>1 DEF CreatedKnown
    <3> QED BY <1>1, <2>1, <2>2, <2>3, <2>5, <2>6, <3>1 DEF CreatedKnown
  <2> QED BY <2>7, <2>8, <2>9, <2>10, <2>11
<1>8. CASE UtActivateInternal(p)
  <2> DEFINE h == local[p].target
             u == local[p].thread
  <2>1. /\ UNCHANGED <<RunningThread, Processor, waiting>>
        /\ step[p] = "linking"
        /\ ReadyQueue' = [ReadyQueue EXCEPT ![h] = Append(@, u)]
        /\ local' = [local EXCEPT ![p] = NoLocals]
        /\ \A o \in Processors : step'[o] = IF o = p THEN "user" ELSE step[o]
        /\ \A o \in Processors : OfProcessor(o)' = OfProcessor(o)
    BY <1>2, <1>8 DEF UtActivateInternal, Goto, OfProcessor
  <2>2. /\ u \in Threads /\ h \in Processors /\ Processor[u] = h /\ u \notin waiting
        /\ u \notin Range(ReadyQueue[h]) /\ u # RunningThread[h]
        /\ \A o \in Processors : local[o].thread = u => o = p
    BY <1>1, <1>3, <2>1 DEF CreatedKnown
  <2>3. \A o \in Processors :
          local'[o] = IF o = p THEN NoLocals ELSE local[o]
    BY <1>2, <2>1
  <2>4. /\ \A o \in Processors : IsInjective(ReadyQueue'[o])
        /\ \A o \in Processors :
             Range(ReadyQueue'[o]) =
               Range(ReadyQueue[o]) \cup (IF o = h THEN {u} ELSE {})
    BY <2>1, <2>2, InsertFacts
  <2>5. u \in OfProcessor(h) /\ RunningThread[p] \in OfProcessor(p)
    BY <1>1, <2>1, <2>2 DEF OfProcessor, ControlKnown
  <2> HIDE DEF h, u
  <2>6. HomeOnly'
    <3>1. SUFFICES ASSUME NEW o \in Processors
                   PROVE  /\ IsInjective(ReadyQueue'[o])
                          /\ Range(ReadyQueue'[o]) \subseteq OfProcessor(o)' \cup {o}
                          /\ RunningThread'[o] \in OfProcessor(o)' \cup {o, Main, NULL}
                          /\ RunningThread'[o] \in Range(ReadyQueue'[o]) =>
                               step'[o] = "announced" /\ RunningThread'[o] \notin waiting'
      BY DEF HomeOnly
    <3>2. CASE o = h
      <4>1. Range(ReadyQueue'[o]) = Range(ReadyQueue[o]) \cup {u}
        BY <2>4, <3>2
      <4> QED BY <1>1, <2>1, <2>2, <2>4, <2>5, <3>2, <4>1 DEF HomeOnly
    <3>3. CASE o # h
      <4>1. Range(ReadyQueue'[o]) = Range(ReadyQueue[o])
        BY <2>4, <3>3
      <4> QED BY <1>1, <2>1, <2>4, <4>1 DEF HomeOnly
    <3> QED BY <3>2, <3>3
  <2>7. NoThreadLost'
    <3>1. SUFFICES ASSUME NEW o \in Processors, NEW r \in OfProcessor(o), r # u
                   PROVE  \/ RunningThread[o] = r \/ r \in Range(ReadyQueue'[o])
                          \/ r \in waiting \/ \E i \in Processors : local'[i].thread = r
      BY <2>1, <2>2, <2>4, <2>5 DEF NoThreadLost, OfProcessor
    <3> QED BY <1>1, <2>3, <2>4, <3>1 DEF NoThreadLost, u
  <2>8. ControlKnown' /\ AnnouncedKnown'
    <3>1. ControlKnown'
      BY <1>1, <2>1, <2>5 DEF ControlKnown
    <3>2. \A o \in Processors : Range(ReadyQueue[o]) \subseteq Range(ReadyQueue'[o])
      BY <2>4
    <3>3. AnnouncedKnown'
      BY <1>1, <2>1, <3>2 DEF AnnouncedKnown
    <3> QED BY <3>1, <3>3
  <2>9. WaitersKnown'
    BY <1>1, <2>1, <2>2, <2>4 DEF WaitersKnown
  <2>10. CreatedKnown'
    <3>1. ASSUME NEW o \in Processors, o # p, step[o] = "linking"
          PROVE  /\ local[o].thread # u
                 /\ local[o].thread \notin Range(ReadyQueue'[local[o].target])
      <4>1. local[o].thread # u
        BY <2>2, <3>1
      <4>2. /\ local[o].target \in Processors
            /\ local[o].thread \notin Range(ReadyQueue[local[o].target])
        BY <1>1, <1>3, <3>1 DEF CreatedKnown
      <4> QED BY <2>4, <4>1, <4>2
    <3>2. local'[p].thread = NULL
      BY <2>3 DEF NoLocals
    <3>3. ASSUME NEW o \in Processors, o # p PROVE local'[o] = local[o]
      BY <2>3, <3>3
    <3>4. \A o \in Processors : step'[o] = "linking" <=> local'[o].thread # NULL
      BY <1>1, <2>1, <3>2, <3>3 DEF CreatedKnown
    <3>5. ASSUME NEW o \in Processors, step'[o] = "linking"
          PROVE  /\ o # p /\ step[o] = "linking" /\ local'[o] = local[o]
                 /\ Processor[local[o].thread] = local[o].target
                 /\ local[o].thread \notin waiting
                 /\ local[o].thread # RunningThread[local[o].target]
                 /\ local[o].thread # NULL
                 /\ \A i \in Processors : local[i].thread = local[o].thread => i = o
      BY <1>1, <2>1, <3>3, <3>5 DEF CreatedKnown
    <3>6. ASSUME NEW o \in Processors, step'[o] = "linking", NEW i \in Processors,
                 local'[i].thread = local'[o].thread
          PROVE  i = o
      BY <3>2, <3>3, <3>5, <3>6
    <3> QED BY <2>1, <3>1, <3>4, <3>5, <3>6 DEF CreatedKnown
  <2> QED BY <2>6, <2>7, <2>8, <2>9, <2>10
<1> QED BY <1>4, <1>5, <1>6, <1>7, <1>8

-----------------------------------------------------------------------------
\* The initial states.
LEMMA InitHolds == UtInit => IInv
<1> SUFFICES ASSUME UtInit PROVE IInv
  OBVIOUS
<1> USE Constants
<1>1. TypeOK
  <2>1. \A p \in Processors : <<p>> \in Seq(Users)
    BY DEF Users
  <2>2. NoLocals \in [next : Processors, count : 0 .. MaxDWORD,
                     target : Processors, thread : Threads \cup {NULL}]
    BY Ranges DEF NoLocals
  <2> QED BY <2>1, <2>2, Ranges DEF UtInit, TypeOK, Steps
<1>2. \A p \in Processors : /\ IsInjective(ReadyQueue[p])
                           /\ Range(ReadyQueue[p]) = {p}
  BY DEF UtInit, IsInjective, Range
<1>3. /\ waiting = {} /\ \A p \in Processors : OfProcessor(p) = {}
      /\ \A p \in Processors : /\ RunningThread[p] = NULL /\ step[p] = "suspended"
                              /\ local[p].thread = NULL
  BY DEF UtInit, OfProcessor, NoLocals
<1>4. HomeOnly /\ NoThreadLost
  BY <1>2, <1>3 DEF HomeOnly, NoThreadLost
<1>5. Known
  BY <1>3 DEF Known, ControlKnown, WaitersKnown, AnnouncedKnown, CreatedKnown
<1> QED BY <1>1, <1>4, <1>5 DEF IInv

\* Every step.
LEMMA NextKeeps ==
  ASSUME IInv, [Next]_vars
  PROVE  IInv'
<1> USE Constants
<1>1. CASE Next
  <2>1. TypeOK'
    BY <1>1, TypeKept
  <2>2. CASE \E t \in Threads : UtCreateBefore(t)
    BY <2>1, <2>2, OthersKeep DEF IInv
  <2>3. ASSUME NEW p \in Processors,
               \/ UtRun(p) \/ ProcFunc(p) \/ IdleFunc(p) \/ UtYieldInternal(p)
               \/ UtDeactivate(p) \/ UtExit(p) \/ UtExitSwitch(p)
               \/ GetTargetProcessor(p)
        PROVE  IInv'
    BY <2>1, <2>3, SwitchesKeep, MovesKeep DEF IInv
  <2>4. ASSUME NEW p \in Processors, NEW t \in Threads,
               UtActivate(p, t) \/ UtCreateInternal(p, t)
        PROVE  IInv'
    BY <2>1, <2>4, OthersKeep DEF IInv
  <2>5. ASSUME NEW p \in Processors, Announce(p) PROVE IInv'
    <3>1. RunningThread[p] \in Threads
      BY <2>5 DEF Announce, UserRuns
    <3> QED BY <2>1, <2>5, <3>1, OthersKeep DEF IInv
  <2>6. ASSUME NEW p \in Processors, UtActivateInternal(p) PROVE IInv'
    <3>1. local[p].thread \in Threads
      BY <2>6 DEF UtActivateInternal, IInv, Known, CreatedKnown, TypeOK
    <3> QED BY <2>1, <2>6, <3>1, OthersKeep DEF IInv
  <2>7. ASSUME NEW p \in Processors, ProcFuncEnd(p) PROVE IInv'
    BY <2>1, <2>7, EndKeeps DEF IInv
  <2> QED BY <1>1, <2>2, <2>3, <2>4, <2>5, <2>6, <2>7 DEF Next
<1>2. CASE UNCHANGED vars
  <2>1. TypeOK'
    BY <1>2 DEF vars, data, IInv, TypeOK
  <2>2. HomeOnly' /\ NoThreadLost'
    BY <1>2 DEF vars, data, IInv, HomeOnly, NoThreadLost, OfProcessor
  <2>3. ControlKnown' /\ WaitersKnown'
    BY <1>2 DEF vars, data, IInv, Known, ControlKnown, WaitersKnown, OfProcessor
  <2>4. AnnouncedKnown' /\ CreatedKnown'
    BY <1>2 DEF vars, data, IInv, Known, AnnouncedKnown, CreatedKnown
  <2> QED BY <2>1, <2>2, <2>3, <2>4 DEF IInv, Known
<1> QED BY <1>1, <1>2

\* No thread is lost and none leaves its processor: the invariant holds in every
\* reachable state.
THEOREM InvariantHolds == Spec => []IInv
BY InitHolds, NextKeeps, PTL DEF Spec

\* The state keeps its types.
THEOREM TypeCorrect == Spec => []TypeOK
BY InvariantHolds, PTL DEF IInv

\* A thread runs and is queued only on its own processor, at most once.
THEOREM ThreadsStayHome == Spec => []HomeOnly
BY InvariantHolds, PTL DEF IInv

\* However a wakeup and UtDeactivate of two processors interleave, and whatever
\* thread creates another meanwhile, no thread is lost.
THEOREM NoWakeupLost == Spec => []NoThreadLost
BY InvariantHolds, PTL DEF IInv

-----------------------------------------------------------------------------
(* The counters, in the programs that create their threads before UtRun.      *)

\* The address space has room for fewer threads than a DWORD counts.
ThreadsFit == IsFiniteSet(Threads) /\ Cardinality(Threads) < MaxDWORD

\* CountIsExact needs to know that nothing changes a counter between the read and
\* the write of UtExit, and EndsWithLastThread that the idle thread stays until
\* it is alone, so that a processor is switched back to its main thread by the
\* end of the idle thread only.
CountKnown(p) ==
  /\ NumberOfThreads[p] =
       Cardinality(OfProcessor(p)) + (IF IdleExists(p) THEN 1 ELSE 0)
  /\ step[p] \notin {"scanning", "counting", "linking"}
  /\ step[p] = "exiting" => local[p].count = NumberOfThreads[p]
  /\ step[p] \notin {"main", "done"} => IdleExists(p)
  /\ \/ step[p] \in {"leaving", "main", "done"}
     \/ step[p] = "exiting" /\ RunningThread[p] = p
     => OfProcessor(p) = {}

CountsKnown == ~mayCreate => \A p \in Processors : CountKnown(p)

\* A processor where nothing of this changes.
LEMMA CountKept ==
  ASSUME NEW p \in Processors, CountKnown(p), OfProcessor(p)' = OfProcessor(p),
         IdleExists(p)' = IdleExists(p), NumberOfThreads'[p] = NumberOfThreads[p],
         step'[p] = step[p], local'[p].count = local[p].count,
         RunningThread'[p] = RunningThread[p]
  PROVE  CountKnown(p)'
BY DEF CountKnown

\* A processor that only goes on in its code.
LEMMA CountMoves ==
  ASSUME NEW p \in Processors, CountKnown(p), OfProcessor(p)' = OfProcessor(p),
         IdleExists(p)' = IdleExists(p), NumberOfThreads'[p] = NumberOfThreads[p],
         step'[p] \in {"resumed", "user", "idling", "announced"},
         IdleExists(p)
  PROVE  CountKnown(p)'
BY DEF CountKnown

\* The number of threads of a processor.
LEMMA ThreadsOf ==
  ASSUME ThreadsFit, NEW p
  PROVE  /\ IsFiniteSet(OfProcessor(p)) /\ Cardinality(OfProcessor(p)) \in Nat
         /\ \A t \in Threads \ OfProcessor(p) :
              /\ Cardinality(OfProcessor(p) \cup {t}) = Cardinality(OfProcessor(p)) + 1
              /\ Cardinality(OfProcessor(p)) + 1 < MaxDWORD
         /\ \A t \in OfProcessor(p) :
              Cardinality(OfProcessor(p)) = Cardinality(OfProcessor(p) \ {t}) + 1
<1> DEFINE O == OfProcessor(p)
<1>1. IsFiniteSet(Threads) /\ Cardinality(Threads) \in Nat /\ MaxDWORD \in Nat
  BY FS_CardinalityType, MCAssumption DEF ThreadsFit
<1>2. O \subseteq Threads
  BY DEF OfProcessor
<1> HIDE DEF O
<1>3. IsFiniteSet(O) /\ Cardinality(O) \in Nat
  BY <1>1, <1>2, FS_Subset, FS_CardinalityType
<1>4. ASSUME NEW t \in Threads \ O
      PROVE  Cardinality(O \cup {t}) = Cardinality(O) + 1 /\ Cardinality(O) + 1 < MaxDWORD
  <2>1. Cardinality(O \cup {t}) = Cardinality(O) + 1
    BY <1>3, FS_AddElement
  <2>2. O \cup {t} \subseteq Threads
    BY <1>2
  <2>3. Cardinality(O \cup {t}) <= Cardinality(Threads)
    BY <1>1, <2>2, FS_Subset
  <2> QED BY <1>1, <1>3, <2>1, <2>3 DEF ThreadsFit
<1>5. ASSUME NEW t \in O
      PROVE  Cardinality(O) = Cardinality(O \ {t}) + 1
  <2>1. IsFiniteSet(O \ {t}) /\ t \notin O \ {t} /\ (O \ {t}) \cup {t} = O
    BY <1>3, FS_Subset
  <2> QED BY <2>1, FS_AddElement
<1> QED BY <1>3, <1>4, <1>5 DEF O

\* A switch from the queue q of p, with the idle thread in it, keeps it; one from
\* an empty queue goes to the main thread.
LEMMA IdleSwitched ==
  ASSUME IInv, NEW p \in Processors, NEW q \in Seq(Users), IsInjective(q),
         SwitchFrom(p, q)
  PROVE  /\ p \in Range(q) => step'[p] = "user" /\ IdleExists(p)'
         /\ Range(q) = {} => step'[p] = "main" /\ ~IdleExists(p)'
         /\ \A o \in Processors \ {p} :
              /\ IdleExists(o)' = IdleExists(o) /\ step'[o] = step[o]
              /\ RunningThread'[o] = RunningThread[o]
<1>1. TypeOK /\ p # Main
  BY Constants DEF IInv
<1>2. /\ \A o \in Processors \ {p} :
              /\ ReadyQueue'[o] = ReadyQueue[o]
              /\ RunningThread'[o] = RunningThread[o]
              /\ step'[o] = step[o]
      /\ \/ /\ Range(q) = {} /\ Range(ReadyQueue'[p]) = {}
            /\ RunningThread'[p] = Main /\ step'[p] = "main"
         \/ /\ RunningThread'[p] \in Range(q) /\ step'[p] = "user"
            /\ Range(ReadyQueue'[p]) = Range(q) \ {RunningThread'[p]}
  BY <1>1, SwitchFacts
<1> QED BY <1>1, <1>2 DEF IdleExists

\* The steps that switch.
LEMMA CountSwitches ==
  ASSUME IInv, ThreadsFit, \A o \in Processors : CountKnown(o), NEW p \in Processors,
         ProcFunc(p) \/ UtYieldInternal(p) \/ UtDeactivate(p)
  PROVE  \A o \in Processors : CountKnown(o)'
<1> USE Constants
<1>1. /\ UNCHANGED <<NumberOfThreads, local, Processor>>
      /\ step[p] \in {"resumed", "user", "idling", "announced"}
  BY DEF ProcFunc, UtYieldInternal, UtDeactivate, UserRuns
<1>2. \A o \in Processors : OfProcessor(o)' = OfProcessor(o)
  BY <1>1 DEF OfProcessor
<1>3. IdleExists(p) /\ CountKnown(p)
  BY <1>1 DEF CountKnown
<1>4. /\ ReadyQueue[p] \in Seq(Users) /\ IsInjective(ReadyQueue[p])
      /\ ControlKnown /\ HomeOnly
  BY DEF IInv, TypeOK, HomeOnly, Known
<1>5. ASSUME NEW q \in Seq(Users), IsInjective(q), SwitchFrom(p, q), p \in Range(q)
      PROVE  \A o \in Processors : CountKnown(o)'
  <2>1. /\ step'[p] = "user" /\ IdleExists(p)'
        /\ \A o \in Processors \ {p} :
              /\ IdleExists(o)' = IdleExists(o) /\ step'[o] = step[o]
              /\ RunningThread'[o] = RunningThread[o]
    BY <1>5, IdleSwitched
  <2>2. CountKnown(p)'
    BY <1>1, <1>2, <1>3, <2>1, CountMoves
  <2>3. ASSUME NEW o \in Processors \ {p} PROVE CountKnown(o)'
    BY <1>1, <1>2, <2>1, CountKept
  <2> QED BY <2>2, <2>3
<1>6. CASE ProcFunc(p)
  <2>1. SwitchFrom(p, ReadyQueue[p]) /\ step[p] = "resumed"
    BY <1>6 DEF ProcFunc
  <2>2. RunningThread[p] = NULL
    BY <1>4, <2>1 DEF ControlKnown
  <2> QED BY <1>3, <1>4, <1>5, <2>1, <2>2 DEF IdleExists
<1>7. CASE UtDeactivate(p)
  <2>1. SwitchFrom(p, ReadyQueue[p]) /\ step[p] = "announced"
    BY <1>7 DEF UtDeactivate
  <2>2. RunningThread[p] \in Threads
    BY <1>4, <2>1 DEF ControlKnown, OfProcessor
  <2> QED BY <1>3, <1>4, <1>5, <2>1, <2>2 DEF IdleExists
<1>8. CASE UtYieldInternal(p) /\ ReadyQueue[p] # <<>>
  <2> DEFINE q == Append(ReadyQueue[p], RunningThread[p])
  <2>1. SwitchFrom(p, q) /\ (UserRuns(p) \/ step[p] = "idling")
    BY <1>8 DEF UtYieldInternal
  <2>2. step[p] \in {"user", "idling"} /\ RunningThread[p] \in Users
    BY <1>4, <2>1 DEF UserRuns, ControlKnown, Users
  <2>3. RunningThread[p] \notin Range(ReadyQueue[p])
    BY <1>4, <2>2 DEF HomeOnly
  <2>4. /\ q \in Seq(Users) /\ IsInjective(q)
        /\ Range(q) = Range(ReadyQueue[p]) \cup {RunningThread[p]}
    BY <1>4, <2>2, <2>3, InsertTail
  <2> HIDE DEF q
  <2> QED BY <1>3, <1>5, <2>1, <2>4 DEF IdleExists
<1>9. CASE UtYieldInternal(p) /\ ReadyQueue[p] = <<>>
  <2>1. UNCHANGED <<ReadyQueue, RunningThread>> /\ step' = [step EXCEPT ![p] = "user"]
    BY <1>9 DEF UtYieldInternal, Goto
  <2>2. step'[p] = "user" /\ \A o \in Processors \ {p} : step'[o] = step[o]
    BY <2>1 DEF IInv, TypeOK
  <2>3. \A o \in Processors : IdleExists(o)' = IdleExists(o)
    BY <2>1 DEF IdleExists
  <2>4. CountKnown(p)'
    BY <1>1, <1>2, <1>3, <2>2, <2>3, CountMoves
  <2>5. ASSUME NEW o \in Processors \ {p} PROVE CountKnown(o)'
    BY <1>1, <1>2, <2>1, <2>2, <2>3, CountKept
  <2> QED BY <2>4, <2>5
<1> QED BY <1>6, <1>7, <1>8, <1>9

\* The steps that only go on, and those that insert a thread that exists.
LEMMA CountOthers ==
  ASSUME IInv, ThreadsFit, \A o \in Processors : CountKnown(o), NEW p \in Processors,
         \/ UtRun(p) \/ ProcFuncEnd(p) \/ IdleFunc(p) \/ Announce(p) \/ UtExit(p)
         \/ \E t \in Threads : UtActivate(p, t)
  PROVE  \A o \in Processors : CountKnown(o)'
<1> USE Constants
<1>1. /\ UNCHANGED <<NumberOfThreads, Processor>>
      /\ \A o \in Processors : OfProcessor(o)' = OfProcessor(o)
  BY DEF UtRun, ProcFuncEnd, IdleFunc, Announce, UtExit, UtActivate, OfProcessor
<1>2. /\ step \in [Processors -> Steps] /\ ControlKnown /\ CountKnown(p)
      /\ RunningThread \in [Processors -> Users \cup {Main, NULL}]
      /\ local \in [Processors -> [next : Processors, count : 0 .. MaxDWORD,
                                  target : Processors, thread : Threads \cup {NULL}]]
  BY DEF IInv, TypeOK, Known
<1>3. ASSUME UNCHANGED <<ReadyQueue, RunningThread, local>>, NEW s,
             step' = [step EXCEPT ![p] = s]
      PROVE  /\ step'[p] = s
             /\ \A o \in Processors : IdleExists(o)' = IdleExists(o)
             /\ \A o \in Processors \ {p} : CountKnown(o)'
  <2>1. step'[p] = s /\ \A o \in Processors \ {p} : step'[o] = step[o]
    BY <1>2, <1>3
  <2>2. \A o \in Processors : IdleExists(o)' = IdleExists(o)
    BY <1>3 DEF IdleExists
  <2>3. ASSUME NEW o \in Processors \ {p} PROVE CountKnown(o)'
    BY <1>1, <1>3, <2>1, <2>2, CountKept
  <2> QED BY <2>1, <2>2, <2>3
<1>4. CASE UtRun(p)
  <2>1. /\ UNCHANGED <<ReadyQueue, RunningThread, local>> /\ step[p] = "suspended"
        /\ step' = [step EXCEPT ![p] = "resumed"]
    BY <1>4 DEF UtRun, Goto
  <2>2. CountKnown(p)'
    BY <1>1, <1>2, <1>3, <2>1, CountMoves DEF CountKnown
  <2> QED BY <1>3, <2>1, <2>2
<1>5. CASE Announce(p)
  <2>1. /\ UNCHANGED <<ReadyQueue, RunningThread, local>> /\ step[p] = "user"
        /\ step' = [step EXCEPT ![p] = "announced"]
    BY <1>5 DEF Announce, UserRuns, Goto
  <2>2. CountKnown(p)'
    BY <1>1, <1>2, <1>3, <2>1, CountMoves DEF CountKnown
  <2> QED BY <1>3, <2>1, <2>2
<1>6. CASE IdleFunc(p)
  <2> DEFINE s == IF NumberOfThreads[p] <= 1 THEN "leaving" ELSE "idling"
  <2>1. /\ UNCHANGED <<ReadyQueue, RunningThread, local>> /\ step[p] = "user"
        /\ RunningThread[p] = p /\ step' = [step EXCEPT ![p] = s]
    BY <1>6 DEF IdleFunc, Goto
  <2>2. step'[p] = s /\ \A o \in Processors : IdleExists(o)' = IdleExists(o)
    BY <1>3, <2>1
  <2>3. IdleExists(p)
    BY <2>1 DEF IdleExists
  <2>4. CASE NumberOfThreads[p] <= 1
    <3>1. Cardinality(OfProcessor(p)) = 0
      <4>1. NumberOfThreads[p] = Cardinality(OfProcessor(p)) + 1
        BY <1>2, <2>3 DEF CountKnown
      <4>2. PICK n, c : n = NumberOfThreads[p] /\ c = Cardinality(OfProcessor(p))
        OBVIOUS
      <4>3. n <= 1 /\ n = c + 1 /\ c \in Nat
        BY <2>4, <4>1, <4>2, ThreadsOf
      <4> QED BY <4>2, <4>3
    <3>2. OfProcessor(p) = {}
      BY <3>1, ThreadsOf, FS_EmptySet
    <3>3. /\ step'[p] = "leaving" /\ NumberOfThreads'[p] = NumberOfThreads[p]
          /\ IdleExists(p)' = IdleExists(p) /\ OfProcessor(p)' = OfProcessor(p)
      BY <1>1, <2>2, <2>4
    <3>4. CountKnown(p)'
      BY <1>2, <2>3, <3>2, <3>3 DEF CountKnown
    <3> QED BY <1>3, <2>1, <3>4
  <2>5. CASE ~(NumberOfThreads[p] <= 1)
    <3>1. CountKnown(p)'
      BY <1>1, <1>2, <2>2, <2>3, <2>5, CountMoves
    <3> QED BY <1>3, <2>1, <3>1
  <2> QED BY <2>4, <2>5
<1>7. CASE ProcFuncEnd(p)
  <2>1. /\ step[p] = "main" /\ RunningThread' = [RunningThread EXCEPT ![p] = NULL]
        /\ step' = [step EXCEPT ![p] = "done"] /\ UNCHANGED <<ReadyQueue, local>>
    BY <1>7 DEF ProcFuncEnd, Goto
  <2>2. /\ RunningThread'[p] = NULL /\ step'[p] = "done" /\ RunningThread[p] = Main
        /\ \A o \in Processors \ {p} :
             RunningThread'[o] = RunningThread[o] /\ step'[o] = step[o]
    BY <1>2, <2>1 DEF ControlKnown
  <2>3. \A o \in Processors : IdleExists(o)' = IdleExists(o)
    BY <2>1, <2>2 DEF IdleExists
  <2>4. CountKnown(p)'
    BY <1>1, <1>2, <2>1, <2>2, <2>3 DEF CountKnown
  <2>5. ASSUME NEW o \in Processors \ {p} PROVE CountKnown(o)'
    BY <1>1, <2>1, <2>2, <2>3, CountKept
  <2> QED BY <2>4, <2>5
<1>8. CASE UtExit(p)
  <2>1. /\ UserRuns(p) \/ step[p] = "leaving"
        /\ local' = [local EXCEPT ![p].count = NumberOfThreads[p]]
        /\ step' = [step EXCEPT ![p] = "exiting"] /\ UNCHANGED <<ReadyQueue, RunningThread>>
    BY <1>8 DEF UtExit, Goto
  <2>2. /\ step'[p] = "exiting" /\ local'[p].count = NumberOfThreads[p]
        /\ \A o \in Processors \ {p} : local'[o] = local[o] /\ step'[o] = step[o]
    BY <1>2, <2>1
  <2>3. \A o \in Processors : IdleExists(o)' = IdleExists(o)
    BY <2>1 DEF IdleExists
  <2>4. CountKnown(p)'
    <3>1. IdleExists(p)
      BY <1>2, <2>1 DEF CountKnown, UserRuns
    <3>2. RunningThread'[p] = p => OfProcessor(p) = {}
      BY <1>2, <2>1 DEF CountKnown, UserRuns
    <3> QED BY <1>1, <1>2, <2>1, <2>2, <2>3, <3>1, <3>2 DEF CountKnown
  <2>5. ASSUME NEW o \in Processors \ {p} PROVE CountKnown(o)'
    BY <1>1, <2>1, <2>2, <2>3, CountKept
  <2> QED BY <2>4, <2>5
<1>9. ASSUME NEW t \in Threads, UtActivate(p, t)
      PROVE  \A o \in Processors : CountKnown(o)'
  <2>1. /\ UNCHANGED <<RunningThread, step, local>> /\ t \in waiting
        /\ ReadyQueue' = [ReadyQueue EXCEPT ![Processor[t]] = Append(@, t)]
    BY <1>9 DEF UtActivate
  <2>2. Processor[t] \in Processors /\ t \notin Range(ReadyQueue[Processor[t]])
    BY <2>1 DEF IInv, Known, WaitersKnown
  <2>3. \A o \in Processors :
          Range(ReadyQueue'[o]) =
            Range(ReadyQueue[o]) \cup (IF o = Processor[t] THEN {t} ELSE {})
    BY <2>1, <2>2, InsertFacts
  <2>4. \A o \in Processors : IdleExists(o)' = IdleExists(o)
    BY <2>1, <2>3 DEF IdleExists
  <2> QED BY <1>1, <2>1, <2>4, CountKept
<1> QED BY <1>4, <1>5, <1>6, <1>7, <1>8, <1>9

\* UtExit writes the counter it read, and the thread or the idle thread is gone.
LEMMA CountExits ==
  ASSUME IInv, ThreadsFit, \A o \in Processors : CountKnown(o), NEW p \in Processors,
         UtExitSwitch(p)
  PROVE  \A o \in Processors : CountKnown(o)'
<1> USE Constants
<1> DEFINE t == RunningThread[p]
           n == NumberOfThreads[p]
           c == Cardinality(OfProcessor(p))
<1>1. /\ step[p] = "exiting" /\ SwitchFrom(p, ReadyQueue[p])
      /\ NumberOfThreads' = [NumberOfThreads EXCEPT ![p] = Decrement(local[p].count)]
      /\ local' = [local EXCEPT ![p] = NoLocals]
      /\ Processor' = [u \in Threads |-> IF u = t THEN NULL ELSE Processor[u]]
  BY DEF UtExitSwitch
<1>2. /\ ReadyQueue[p] \in Seq(Users) /\ IsInjective(ReadyQueue[p]) /\ HomeOnly
      /\ NumberOfThreads \in [Processors -> 0 .. MaxDWORD] /\ CountKnown(p)
      /\ local \in [Processors -> [next : Processors, count : 0 .. MaxDWORD,
                                  target : Processors, thread : Threads \cup {NULL}]]
      /\ t \in OfProcessor(p) \cup {p}
  BY <1>1 DEF IInv, TypeOK, HomeOnly, Known, ControlKnown
<1>3. t \notin Range(ReadyQueue[p])
  BY <1>1, <1>2 DEF HomeOnly
<1>4. /\ p \in Range(ReadyQueue[p]) => step'[p] = "user" /\ IdleExists(p)'
      /\ Range(ReadyQueue[p]) = {} => step'[p] = "main" /\ ~IdleExists(p)'
      /\ \A o \in Processors \ {p} :
            /\ IdleExists(o)' = IdleExists(o) /\ step'[o] = step[o]
            /\ RunningThread'[o] = RunningThread[o]
  BY <1>1, <1>2, IdleSwitched
<1>5. /\ NumberOfThreads'[p] = Decrement(n)
      /\ \A o \in Processors \ {p} :
           NumberOfThreads'[o] = NumberOfThreads[o] /\ local'[o] = local[o]
  BY <1>1, <1>2 DEF CountKnown
<1>6. /\ OfProcessor(p)' = OfProcessor(p) \ {t}
      /\ \A o \in Processors \ {p} : OfProcessor(o)' = OfProcessor(o)
  BY <1>1, <1>2 DEF OfProcessor
<1>7. ASSUME NEW o \in Processors \ {p} PROVE CountKnown(o)'
  BY <1>4, <1>5, <1>6, CountKept
<1>8. IdleExists(p) /\ n = c + 1 /\ c \in Nat /\ n \in Nat
  BY <1>1, <1>2, ThreadsOf DEF CountKnown
<1>9. Decrement(n) = c
  BY <1>8 DEF Decrement
<1>10. CASE t \in OfProcessor(p)
  <2>1. t # p
    BY <1>10 DEF OfProcessor
  <2>2. p \in Range(ReadyQueue[p])
    BY <1>8, <2>1 DEF IdleExists
  <2>3. step'[p] = "user" /\ IdleExists(p)'
    BY <1>4, <2>2
  <2>4. c = Cardinality(OfProcessor(p)') + 1
    BY <1>6, <1>10, ThreadsOf
  <2>5. NumberOfThreads'[p] = Cardinality(OfProcessor(p)') + 1
    BY <1>5, <1>9, <2>4
  <2>6. CountKnown(p)'
    BY <2>3, <2>5 DEF CountKnown
  <2> QED BY <1>7, <2>6
<1>11. CASE t = p
  <2>1. OfProcessor(p) = {} /\ OfProcessor(p)' = {}
    BY <1>1, <1>2, <1>6, <1>11 DEF CountKnown
  <2>2. Range(ReadyQueue[p]) = {}
    <3>1. Range(ReadyQueue[p]) \subseteq OfProcessor(p) \cup {p}
      BY <1>2 DEF HomeOnly
    <3> QED BY <1>3, <1>11, <2>1, <3>1
  <2>3. step'[p] = "main" /\ ~IdleExists(p)'
    BY <1>4, <2>2
  <2>4. NumberOfThreads'[p] = Cardinality(OfProcessor(p)') + 0
    BY <1>5, <1>8, <1>9, <2>1
  <2>5. CountKnown(p)'
    BY <2>1, <2>3, <2>4 DEF CountKnown
  <2> QED BY <1>7, <2>5
<1> QED BY <1>2, <1>10, <1>11

\* UtCreate before UtRun.
LEMMA CountCreates ==
  ASSUME IInv, ThreadsFit, \A o \in Processors : CountKnown(o), NEW t \in Threads,
         UtCreateBefore(t)
  PROVE  \A o \in Processors : CountKnown(o)'
<1> USE Constants
<1>1. /\ \A o \in Processors : step[o] = "suspended" /\ IdleExists(o)
      /\ t \in NotCreated /\ UNCHANGED <<RunningThread, step, local>>
  BY DEF UtCreateBefore, CountKnown
<1>2. PICK p \in Processors :
        /\ Processor' = [Processor EXCEPT ![t] = p]
        /\ NumberOfThreads' = [NumberOfThreads EXCEPT ![p] = Increment(@)]
        /\ ReadyQueue' = [ReadyQueue EXCEPT ![p] = Append(@, t)]
  BY DEF UtCreateBefore
<1>3. /\ Processor \in [Threads -> Processors \cup {NULL}]
      /\ NumberOfThreads \in [Processors -> 0 .. MaxDWORD] /\ Processor[t] = NULL
  BY <1>1 DEF IInv, TypeOK, NotCreated
<1>4. t \notin Range(ReadyQueue[p])
  BY <1>3 DEF IInv, HomeOnly, OfProcessor
<1>5. \A o \in Processors :
        Range(ReadyQueue'[o]) = Range(ReadyQueue[o]) \cup (IF o = p THEN {t} ELSE {})
  BY <1>2, <1>4, InsertFacts
<1>6. \A o \in Processors : IdleExists(o)' = IdleExists(o)
  BY <1>1, <1>5 DEF IdleExists
<1>7. /\ OfProcessor(p)' = OfProcessor(p) \cup {t} /\ t \notin OfProcessor(p)
      /\ \A o \in Processors \ {p} : OfProcessor(o)' = OfProcessor(o)
  BY <1>2, <1>3 DEF OfProcessor
<1>8. /\ NumberOfThreads'[p] = Increment(NumberOfThreads[p])
      /\ \A o \in Processors \ {p} : NumberOfThreads'[o] = NumberOfThreads[o]
  BY <1>2, <1>3
<1>9. ASSUME NEW o \in Processors \ {p} PROVE CountKnown(o)'
  BY <1>1, <1>6, <1>7, <1>8, CountKept
<1>10. NumberOfThreads[p] = Cardinality(OfProcessor(p)) + 1
  BY <1>1 DEF CountKnown
<1>11. /\ Cardinality(OfProcessor(p)) \in Nat
       /\ Cardinality(OfProcessor(p) \cup {t}) = Cardinality(OfProcessor(p)) + 1
       /\ Cardinality(OfProcessor(p)) + 1 < MaxDWORD
  BY <1>7, ThreadsOf
<1>12. NumberOfThreads'[p] = Cardinality(OfProcessor(p)') + 1
  BY <1>7, <1>8, <1>10, <1>11 DEF Increment
<1>13. CountKnown(p)'
  BY <1>1, <1>6, <1>12 DEF CountKnown
<1> QED BY <1>9, <1>13

\* Every step, of a program that creates its threads before UtRun.
LEMMA CountsKept ==
  ASSUME IInv, ThreadsFit, CountsKnown, [Next]_vars
  PROVE  CountsKnown'
<1> SUFFICES ASSUME ~mayCreate, ~mayCreate', \A o \in Processors : CountKnown(o)
             PROVE  \A o \in Processors : CountKnown(o)'
  <2>1. mayCreate' = mayCreate
    BY DEF Next, vars
  <2> QED BY <2>1 DEF CountsKnown
<1>1. CASE UNCHANGED vars
  BY <1>1 DEF vars, data, CountKnown, IdleExists, OfProcessor
<1>2. ASSUME NEW p \in Processors, GetTargetProcessor(p) PROVE FALSE
  BY <1>2 DEF GetTargetProcessor, CountKnown
<1>3. ASSUME NEW p \in Processors,
             UtActivateInternal(p) \/ \E t \in Threads : UtCreateInternal(p, t)
      PROVE  FALSE
  BY <1>3 DEF UtActivateInternal, UtCreateInternal, CountKnown
<1> QED BY <1>1, <1>2, <1>3, CountSwitches, CountOthers, CountExits, CountCreates DEF Next

\* The counters of a program that creates its threads before UtRun are exact, and
\* when UtRun resumes every thread has exited, provided the counters do not wrap.
THEOREM EndsAfterAll == ThreadsFit => (Spec => []EndsWithLastThread)
<1> SUFFICES ASSUME ThreadsFit PROVE Spec => []EndsWithLastThread
  OBVIOUS
<1> USE Constants
<1>1. UtInit => CountsKnown
  <2> SUFFICES ASSUME UtInit, NEW p \in Processors PROVE CountKnown(p)
    BY DEF CountsKnown
  <2>1. /\ NumberOfThreads[p] = 1 /\ step[p] = "suspended" /\ ReadyQueue[p] = <<p>>
        /\ OfProcessor(p) = {}
    BY DEF UtInit, OfProcessor
  <2>2. IdleExists(p)
    BY <2>1 DEF IdleExists, Range
  <2>3. Cardinality(OfProcessor(p)) = 0
    BY <2>1, FS_EmptySet
  <2> QED BY <2>1, <2>2, <2>3 DEF CountKnown
<1>2. IInv /\ CountsKnown => EndsWithLastThread
  <2> SUFFICES ASSUME IInv, CountsKnown PROVE EndsWithLastThread
    OBVIOUS
  <2>1. CountIsExact
    BY DEF CountsKnown, CountKnown, CountIsExact
  <2>2. ASSUME ~mayCreate, \A p \in Processors : step[p] = "done" PROVE NotCreated = Threads
    <3>1. \A p \in Processors : OfProcessor(p) = {}
      BY <2>2 DEF CountsKnown, CountKnown
    <3> QED BY <3>1 DEF NotCreated, OfProcessor, IInv, TypeOK
  <2> QED BY <2>1, <2>2 DEF EndsWithLastThread
<1>3. IInv /\ CountsKnown /\ [Next]_vars => CountsKnown'
  BY CountsKept
<1> QED BY <1>1, <1>2, <1>3, InvariantHolds, PTL DEF Spec

-----------------------------------------------------------------------------
(* Theorems about the mutex over several processors, for every number of      *)
(* processors, every set of threads and every depth of recursion.            *)

MutexTypeOK ==
  /\ Owner \in Threads \cup {NULL}
  /\ RecursionCounter \in Nat
  /\ WaitListHead \in Seq(Threads)
  /\ at \in [Processors -> {"program", "acquiring", "releasing", "waking"}]
  /\ woken \in [Processors -> Threads \cup {NULL}]
  /\ acquiring \subseteq Threads
  /\ held \in [Threads -> Nat]

\* A processor in the code of the mutex runs a thread that does not come back
\* from UtDeactivate, and what was read outside the lock still holds where it is
\* used: nobody else makes this thread the owner, or takes the ownership from it.
InMutex ==
  \A p \in Processors :
    /\ at[p] # "program" => UserRuns(p) /\ self(p) \notin acquiring
    /\ at[p] = "acquiring" => Owner # self(p)
    /\ at[p] = "releasing" => Owner = self(p) /\ RecursionCounter = 0
    /\ at[p] = "waking" <=> woken[p] # NULL

\* Who waits to be activated is inside MutexAcquire, and holds nothing there.
Acquiring ==
  /\ waiting \subseteq acquiring
  /\ \A t \in acquiring : held[t] = 0

MInv == MutexTypeOK /\ InMutex /\ Acquiring /\ OwnerIsExact /\ WaitersAreKnown

\* The inductive invariant: that of the scheduler with it says that a thread runs
\* on one processor only, and that one that waits does not run.
MutexIInv == IInv /\ MInv /\ mayCreate = FALSE

-----------------------------------------------------------------------------
\* Who runs on a processor runs on no other and does not wait.
LEMMA RunsOnce ==
  ASSUME IInv, NEW p \in Processors, UserRuns(p)
  PROVE  /\ self(p) \in Threads /\ self(p) \notin waiting
         /\ \A o \in Processors : UserRuns(o) /\ self(o) = self(p) => o = p
<1> USE Constants
<1>1. \A o \in Processors : UserRuns(o) => Processor[self(o)] = o /\ self(o) \in Threads
  BY DEF IInv, HomeOnly, OfProcessor, UserRuns, self
<1>2. self(p) \notin waiting
  BY <1>1 DEF IInv, Known, WaitersKnown, UserRuns, self
<1> QED BY <1>1, <1>2

\* A switch on p changes neither who runs nor the place in the code elsewhere.
LEMMA SwitchesHere ==
  ASSUME IInv, NEW p \in Processors, NEW q, SwitchFrom(p, q)
  PROVE  \A o \in Processors \ {p} :
           RunningThread'[o] = RunningThread[o] /\ step'[o] = step[o]
BY DEF SwitchFrom, Goto, IInv, TypeOK

\* A call of the scheduler on p is made by a thread outside the mutex's code, and
\* changes nothing that the other processors rely on.
LEMMA SchedulerHere ==
  ASSUME IInv, InMutex, NEW p \in Processors, Scheduler(p)
  PROVE  /\ UNCHANGED <<waiting, mayCreate, mutexvars>>
         /\ at[p] = "program"
         /\ \A o \in Processors \ {p} :
              RunningThread'[o] = RunningThread[o] /\ step'[o] = step[o]
         /\ [Next]_vars
<1> USE Constants
<1>1. UNCHANGED <<mayCreate, mutexvars>>
  BY DEF Scheduler
<1>2. CASE \/ UtRun(p) \/ ProcFuncEnd(p) \/ IdleFunc(p)
           \/ Exit(p)
           \/ (step[p] = "leaving" /\ UtExit(p))
  BY <1>1, <1>2 DEF UtRun, ProcFuncEnd, IdleFunc, Exit, UtExit, InProgram, InMutex, UserRuns,
     Goto, IInv, TypeOK, Next
<1>3. CASE ProcFunc(p) \/ UtDeactivate(p) \/ UtExitSwitch(p)
  <2>1. \E q : SwitchFrom(p, q)
    BY <1>3 DEF ProcFunc, UtDeactivate, UtExitSwitch
  <2> QED BY <1>1, <1>3, <2>1, SwitchesHere
      DEF ProcFunc, UtDeactivate, UtExitSwitch, InMutex, UserRuns, Next
<1>4. CASE Yield(p)
  <2>1. UtYieldInternal(p) /\ at[p] = "program"
    BY <1>4 DEF Yield, InProgram, InMutex, UserRuns
  <2>2. CASE ReadyQueue[p] = <<>>
    BY <1>1, <2>1, <2>2 DEF UtYieldInternal, Goto, IInv, TypeOK, Next
  <2>3. CASE ReadyQueue[p] # <<>>
    <3>1. \E q : SwitchFrom(p, q)
      BY <2>1, <2>3 DEF UtYieldInternal
    <3> QED BY <1>1, <2>1, <3>1, SwitchesHere DEF UtYieldInternal, Next
  <2> QED BY <2>2, <2>3
<1> QED BY <1>2, <1>3, <1>4 DEF Scheduler, ByItself

\* What the invariant is about stays as it is when no processor in the mutex's
\* code is disturbed.
LEMMA SchedulerKeepsMutex ==
  ASSUME MInv, UNCHANGED <<waiting, mutexvars>>,
         \A p \in Processors : at[p] # "program" =>
           RunningThread'[p] = RunningThread[p] /\ step'[p] = step[p]
  PROVE  MInv'
<1>1. MutexTypeOK' /\ Acquiring'
  BY DEF MInv, MutexTypeOK, Acquiring, mutexvars
<1>2. InMutex'
  BY DEF MInv, InMutex, UserRuns, self, mutexvars, MutexTypeOK
<1>3. WaitersAreKnown'
  BY DEF MInv, WaitersAreKnown, mutexvars
<1>4. OwnerIsExact'
  BY DEF MInv, OwnerIsExact, self, mutexvars
<1> QED BY <1>1, <1>2, <1>3, <1>4 DEF MInv

-----------------------------------------------------------------------------
\* The owner in the program holds the mutex as often as the counter says.
LEMMA OwnerHolds ==
  ASSUME IInv, MInv, NEW p \in Processors, InProgram(p), Owner = self(p)
  PROVE  held[self(p)] > 0 /\ RecursionCounter = held[self(p)]
<1> USE Constants
<1>1. /\ UserRuns(p) /\ self(p) \in Threads /\ self(p) \notin acquiring
      /\ at[p] = "program" /\ Owner # NULL
      /\ \A o \in Processors : UserRuns(o) /\ self(o) = self(p) => o = p
  BY RunsOnce DEF InProgram
<1>2. \A o \in Processors : at[o] # "releasing"
  BY <1>1 DEF MInv, InMutex
<1>3. held[Owner] # 0
  BY <1>1, <1>2 DEF MInv, OwnerIsExact
<1>4. held[Owner] \in Nat
  BY <1>1 DEF MInv, MutexTypeOK
<1>5. held[Owner] > 0
  BY <1>3, <1>4
<1> QED BY <1>1, <1>5 DEF MInv, OwnerIsExact

\* The recursive acquisition.
LEMMA AcquireAgainKeeps ==
  ASSUME IInv, MInv, NEW p \in Processors, MutexAcquireAgain(p)
  PROVE  MInv'
<1> USE Constants
<1>1. /\ InProgram(p) /\ Owner = self(p) /\ RecursionCounter' = RecursionCounter + 1
      /\ held' = [held EXCEPT ![self(p)] = held[self(p)] + 1]
      /\ UNCHANGED <<RunningThread, step, waiting, Owner, WaitListHead, at, woken, acquiring>>
  BY DEF MutexAcquireAgain, vars, data
<1>2. /\ self(p) \in Threads /\ self(p) \notin acquiring
      /\ held[self(p)] \in Nat /\ RecursionCounter = held[self(p)]
      /\ held[self(p)] > 0 /\ at[p] = "program" /\ UserRuns(p)
      /\ \A o \in Processors : UserRuns(o) /\ self(o) = self(p) => o = p
  BY <1>1, OwnerHolds, RunsOnce DEF InProgram, MInv, MutexTypeOK
<1>3. /\ held' \in [Threads -> Nat] /\ held'[self(p)] = held[self(p)] + 1
      /\ \A t \in Threads \ {self(p)} : held'[t] = held[t]
  BY <1>1, <1>2 DEF MInv, MutexTypeOK
<1>4. MutexTypeOK' /\ Acquiring' /\ WaitersAreKnown'
  BY <1>1, <1>2, <1>3 DEF MInv, MutexTypeOK, Acquiring, WaitersAreKnown
<1>5. \A o \in Processors : at[o] # "releasing"
  BY <1>1, <1>2 DEF MInv, InMutex
<1>6. InMutex'
  BY <1>1, <1>5 DEF MInv, InMutex, UserRuns, self
<1>7. held'[self(p)] > 0 /\ RecursionCounter' = held'[self(p)]
  BY <1>1, <1>2, <1>3
<1>8. OwnerIsExact'
  BY <1>1, <1>2, <1>3, <1>5, <1>7 DEF MInv, OwnerIsExact, self
<1> QED BY <1>4, <1>6, <1>8 DEF MInv

\* The comparison before the lock.
LEMMA AcquireTestKeeps ==
  ASSUME IInv, MInv, NEW p \in Processors, MutexAcquireTest(p)
  PROVE  MInv'
<1>1. /\ InProgram(p) /\ Owner # self(p) /\ at' = [at EXCEPT ![p] = "acquiring"]
      /\ UNCHANGED <<RunningThread, step, waiting, Owner, RecursionCounter,
                     WaitListHead, woken, acquiring, held>>
  BY DEF MutexAcquireTest, MutexGoto, vars, data
<1>2. /\ at'[p] = "acquiring" /\ at[p] = "program"
      /\ \A o \in Processors \ {p} : at'[o] = at[o]
      /\ at' \in [Processors -> {"program", "acquiring", "releasing", "waking"}]
  BY <1>1 DEF MInv, MutexTypeOK, InProgram
<1>3. MutexTypeOK' /\ Acquiring' /\ WaitersAreKnown'
  BY <1>1, <1>2 DEF MInv, MutexTypeOK, Acquiring, WaitersAreKnown
<1>4. InMutex'
  BY <1>1, <1>2 DEF MInv, InMutex, UserRuns, self, InProgram
<1>5. \A o \in Processors : at'[o] = "releasing" <=> at[o] = "releasing"
  BY <1>2
<1>6. OwnerIsExact'
  BY <1>1, <1>5 DEF MInv, OwnerIsExact, self
<1> QED BY <1>3, <1>4, <1>6 DEF MInv

\* MutexAcquire under the lock: the mutex is free, and so nobody is inside.
LEMMA AcquireFreeKeeps ==
  ASSUME IInv, MInv, NEW p \in Processors, MutexAcquireFree(p)
  PROVE  MInv'
<1> USE Constants
<1>1. /\ at[p] = "acquiring" /\ Owner = NULL /\ Owner' = self(p)
      /\ RecursionCounter' = 1
      /\ held' = [held EXCEPT ![self(p)] = held[self(p)] + 1]
      /\ at' = [at EXCEPT ![p] = "program"]
      /\ UNCHANGED <<RunningThread, step, waiting, WaitListHead, woken, acquiring>>
  BY DEF MutexAcquireFree, MutexGoto, vars, data
<1>2. UserRuns(p) /\ self(p) \in Threads /\ self(p) # NULL
  BY <1>1, RunsOnce DEF MInv, InMutex
<1>3. \A o \in Processors :
        /\ at[o] # "releasing"
        /\ o # p /\ at[o] # "program" => self(o) # self(p)
  BY <1>1, <1>2, RunsOnce DEF MInv, InMutex
<1>4. \A t \in Threads : held[t] = 0
  <2>1. ASSUME NEW t \in Threads PROVE held[t] = 0
    <3>1. held[t] \in Nat /\ ~(held[t] > 0)
      BY <1>1 DEF MInv, OwnerIsExact, MutexTypeOK
    <3> QED BY <3>1
  <2> QED BY <2>1
<1>5. WaitListHead = <<>> /\ acquiring = {}
  <2>1. WaitListHead = <<>>
    BY <1>1 DEF MInv, WaitersAreKnown
  <2>2. Range(WaitListHead) = {}
    BY <2>1 DEF Range
  <2> QED BY <1>1, <2>1, <2>2 DEF MInv, OwnerIsExact, MutexTypeOK
<1>6. /\ held' \in [Threads -> Nat] /\ held'[self(p)] = 1
      /\ \A t \in Threads \ {self(p)} : held'[t] = 0
  BY <1>1, <1>2, <1>4 DEF MInv, MutexTypeOK
<1>7. /\ at'[p] = "program" /\ \A o \in Processors \ {p} : at'[o] = at[o]
      /\ at' \in [Processors -> {"program", "acquiring", "releasing", "waking"}]
  BY <1>1 DEF MInv, MutexTypeOK
<1>8. MutexTypeOK' /\ Acquiring'
  BY <1>1, <1>2, <1>5, <1>6, <1>7 DEF MInv, MutexTypeOK, Acquiring
<1>9. InMutex'
  BY <1>1, <1>2, <1>3, <1>7 DEF MInv, InMutex, UserRuns, self
<1>10. WaitersAreKnown'
  BY <1>1, <1>5 DEF MInv, WaitersAreKnown
<1>11. OwnerIsExact'
  BY <1>1, <1>2, <1>3, <1>5, <1>6, <1>7 DEF OwnerIsExact
<1> QED BY <1>8, <1>9, <1>10, <1>11 DEF MInv

\* A busy mutex: the wait block goes to the end of the list, and the thread
\* announces that it waits.
LEMMA AcquireBusyKeeps ==
  ASSUME IInv, MInv, NEW p \in Processors, MutexAcquireBusy(p)
  PROVE  MInv'
<1> USE Constants
<1>1. /\ at[p] = "acquiring" /\ Owner # NULL
      /\ WaitListHead' = Append(WaitListHead, self(p))
      /\ acquiring' = acquiring \cup {self(p)} /\ waiting' = waiting \cup {self(p)}
      /\ at' = [at EXCEPT ![p] = "program"] /\ step' = [step EXCEPT ![p] = "announced"]
      /\ UNCHANGED <<RunningThread, Owner, RecursionCounter, woken, held>>
  BY DEF MutexAcquireBusy, MutexGoto, Announce, Goto, self
<1>2. /\ UserRuns(p) /\ self(p) \in Threads /\ self(p) \notin acquiring
      /\ Owner # self(p) /\ self(p) \notin waiting
  BY <1>1, RunsOnce DEF MInv, InMutex
<1>3. \A o \in Processors : o # p /\ at[o] # "program" => self(o) # self(p)
  BY <1>1, <1>2, RunsOnce DEF MInv, InMutex
<1>4. held[self(p)] = 0
  <2>1. held[self(p)] \in Nat /\ ~(held[self(p)] > 0)
    BY <1>2 DEF MInv, OwnerIsExact, MutexTypeOK
  <2> QED BY <2>1
<1>5. /\ WaitListHead \in Seq(Threads) /\ IsInjective(WaitListHead)
      /\ self(p) \notin Range(WaitListHead) /\ self(p) \notin Range(woken)
  BY <1>2 DEF MInv, MutexTypeOK, WaitersAreKnown
<1>6. /\ WaitListHead' \in Seq(Threads) /\ IsInjective(WaitListHead')
      /\ Range(WaitListHead') = Range(WaitListHead) \cup {self(p)}
  BY <1>1, <1>2, <1>5, InsertTail
<1>7. /\ at'[p] = "program" /\ \A o \in Processors \ {p} : at'[o] = at[o]
      /\ at' \in [Processors -> {"program", "acquiring", "releasing", "waking"}]
      /\ \A o \in Processors \ {p} : step'[o] = step[o]
  BY <1>1 DEF MInv, MutexTypeOK, IInv, TypeOK
<1>8. MutexTypeOK' /\ Acquiring'
  BY <1>1, <1>2, <1>4, <1>6, <1>7 DEF MInv, MutexTypeOK, Acquiring
<1>9. InMutex'
  BY <1>1, <1>3, <1>7 DEF MInv, InMutex, UserRuns, self
<1>10. WaitersAreKnown'
  BY <1>1, <1>2, <1>5, <1>6 DEF MInv, WaitersAreKnown
<1>11. \A o \in Processors : at'[o] = "releasing" <=> at[o] = "releasing"
  BY <1>1, <1>7
<1>12. OwnerIsExact'
  BY <1>1, <1>6, <1>11 DEF MInv, OwnerIsExact, self
<1> QED BY <1>8, <1>9, <1>10, <1>12 DEF MInv

\* The thread that comes back from UtDeactivate is the owner.
LEMMA AcquiredKeeps ==
  ASSUME IInv, MInv, NEW p \in Processors, MutexAcquired(p)
  PROVE  MInv'
<1> USE Constants
<1>1. /\ UserRuns(p) /\ self(p) \in acquiring /\ acquiring' = acquiring \ {self(p)}
      /\ held' = [held EXCEPT ![self(p)] = held[self(p)] + 1]
      /\ UNCHANGED <<RunningThread, step, waiting, Owner, RecursionCounter,
                     WaitListHead, at, woken>>
  BY DEF MutexAcquired, vars, data
<1>2. self(p) \in Threads /\ self(p) \notin waiting
  BY <1>1, RunsOnce
<1>3. Owner = self(p) /\ held[self(p)] = 0
  BY <1>1, <1>2 DEF MInv, OwnerIsExact, WaitersAreKnown, Acquiring
<1>4. \A o \in Processors : at[o] # "releasing"
  BY <1>1, <1>3 DEF MInv, InMutex
<1>5. RecursionCounter = 1 /\ Owner # NULL
  BY <1>2, <1>3, <1>4 DEF MInv, OwnerIsExact
<1>6. /\ held' \in [Threads -> Nat] /\ held'[self(p)] = 1
      /\ \A t \in Threads \ {self(p)} : held'[t] = held[t]
  BY <1>1, <1>2, <1>3 DEF MInv, MutexTypeOK
<1>7. MutexTypeOK' /\ Acquiring' /\ WaitersAreKnown'
  BY <1>1, <1>2, <1>6 DEF MInv, MutexTypeOK, Acquiring, WaitersAreKnown
<1>8. InMutex'
  BY <1>1 DEF MInv, InMutex, UserRuns, self
<1>9. OwnerIsExact'
  BY <1>1, <1>3, <1>4, <1>5, <1>6 DEF MInv, OwnerIsExact
<1> QED BY <1>7, <1>8, <1>9 DEF MInv

\* The countdown of MutexRelease, outside the lock.
LEMMA ReleaseCountKeeps ==
  ASSUME IInv, MInv, NEW p \in Processors, MutexReleaseCount(p)
  PROVE  MInv'
<1> USE Constants
<1>1. /\ InProgram(p) /\ Owner = self(p) /\ RecursionCounter' = RecursionCounter - 1
      /\ held' = [held EXCEPT ![self(p)] = held[self(p)] - 1]
      /\ at' = [at EXCEPT ![p] = IF RecursionCounter > 1 THEN "program" ELSE "releasing"]
      /\ UNCHANGED <<RunningThread, step, waiting, Owner, WaitListHead, woken, acquiring>>
  BY DEF MutexReleaseCount, MutexGoto, vars, data
<1>2. /\ self(p) \in Threads /\ self(p) \notin acquiring
      /\ held[self(p)] \in Nat /\ RecursionCounter = held[self(p)]
      /\ held[self(p)] > 0 /\ at[p] = "program" /\ UserRuns(p)
      /\ \A o \in Processors : UserRuns(o) /\ self(o) = self(p) => o = p
  BY <1>1, OwnerHolds, RunsOnce DEF InProgram, MInv, MutexTypeOK
<1>3. /\ RecursionCounter' \in Nat
      /\ RecursionCounter > 1 => RecursionCounter' > 0
      /\ ~(RecursionCounter > 1) => RecursionCounter' = 0
  BY <1>1, <1>2
<1>4. /\ held' \in [Threads -> Nat] /\ held'[self(p)] = RecursionCounter'
      /\ \A t \in Threads \ {self(p)} : held'[t] = held[t]
  BY <1>1, <1>2, <1>3 DEF MInv, MutexTypeOK
<1>5. /\ at'[p] = IF RecursionCounter > 1 THEN "program" ELSE "releasing"
      /\ \A o \in Processors \ {p} : at'[o] = at[o]
      /\ at' \in [Processors -> {"program", "acquiring", "releasing", "waking"}]
  BY <1>1 DEF MInv, MutexTypeOK
<1>6. MutexTypeOK' /\ Acquiring' /\ WaitersAreKnown'
  BY <1>1, <1>2, <1>3, <1>4, <1>5 DEF MInv, MutexTypeOK, Acquiring, WaitersAreKnown
<1>7. \A o \in Processors : at[o] # "releasing"
  BY <1>1, <1>2 DEF MInv, InMutex
<1>8. InMutex'
  BY <1>1, <1>2, <1>3, <1>5, <1>7 DEF MInv, InMutex, UserRuns, self
<1>9. OwnerIsExact'
  BY <1>1, <1>2, <1>3, <1>4, <1>5, <1>7 DEF MInv, OwnerIsExact, self
<1> QED BY <1>6, <1>8, <1>9 DEF MInv

\* What is known of the processor that releases the mutex, under the lock.
LEMMA Releasing ==
  ASSUME IInv, MInv, NEW p \in Processors, at[p] = "releasing"
  PROVE  /\ UserRuns(p) /\ self(p) \in Threads /\ self(p) \notin acquiring
         /\ Owner = self(p) /\ RecursionCounter = 0 /\ Owner # NULL
         /\ woken[p] = NULL
         /\ \A t \in Threads : held[t] = 0
         /\ \A o \in Processors : at[o] = "releasing" => o = p
         /\ \A o \in Processors : o # p /\ at[o] # "program" => self(o) # self(p)
<1> USE Constants
<1>1. UserRuns(p) /\ Owner = self(p) /\ RecursionCounter = 0 /\ self(p) \notin acquiring
  BY DEF MInv, InMutex
<1>2. /\ self(p) \in Threads /\ Owner # NULL
      /\ \A o \in Processors : UserRuns(o) /\ self(o) = self(p) => o = p
  BY <1>1, RunsOnce
<1>3. held[Owner] = 0
  BY DEF MInv, OwnerIsExact
<1>4. ASSUME NEW t \in Threads PROVE held[t] = 0
  <2>1. held[t] \in Nat /\ ~(held[t] > 0)
    BY <1>3 DEF MInv, OwnerIsExact, MutexTypeOK
  <2> QED BY <2>1
<1>5. woken[p] = NULL
  BY DEF MInv, InMutex
<1> QED BY <1>1, <1>2, <1>4, <1>5 DEF MInv, InMutex

\* Nobody waits: the mutex is free.
LEMMA ReleaseFreeKeeps ==
  ASSUME IInv, MInv, NEW p \in Processors, MutexReleaseFree(p)
  PROVE  MInv'
<1> USE Constants
<1>1. /\ at[p] = "releasing" /\ WaitListHead = <<>> /\ Owner' = NULL
      /\ at' = [at EXCEPT ![p] = "program"]
      /\ UNCHANGED <<RunningThread, step, waiting, RecursionCounter, WaitListHead,
                     woken, acquiring, held>>
  BY DEF MutexReleaseFree, MutexGoto, vars, data
<1>2. /\ UserRuns(p) /\ self(p) \in Threads /\ self(p) \notin acquiring
      /\ Owner = self(p) /\ Owner # NULL /\ woken[p] = NULL
      /\ \A t \in Threads : held[t] = 0
      /\ \A o \in Processors : at[o] = "releasing" => o = p
  BY <1>1, Releasing
<1>3. acquiring = {}
  <2>1. Range(WaitListHead) = {}
    BY <1>1 DEF Range
  <2> QED BY <1>2, <2>1 DEF MInv, OwnerIsExact, MutexTypeOK
<1>4. /\ at'[p] = "program" /\ \A o \in Processors \ {p} : at'[o] = at[o]
      /\ at' \in [Processors -> {"program", "acquiring", "releasing", "waking"}]
  BY <1>1 DEF MInv, MutexTypeOK
<1>5. MutexTypeOK' /\ Acquiring' /\ WaitersAreKnown'
  BY <1>1, <1>4 DEF MInv, MutexTypeOK, Acquiring, WaitersAreKnown
<1>6. \A o \in Processors : at'[o] # "releasing"
  BY <1>2, <1>4
<1>7. InMutex'
  <2>1. ASSUME NEW o \in Processors, at'[o] # "program"
        PROVE  UserRuns(o) /\ self(o) # NULL
    <3>1. UserRuns(o)
      BY <1>4, <2>1 DEF MInv, InMutex
    <3> QED BY <3>1, RunsOnce
  <2> QED BY <1>1, <1>2, <1>4, <1>6, <2>1 DEF MInv, InMutex, UserRuns, self
<1>8. OwnerIsExact'
  BY <1>1, <1>2, <1>3, <1>6 DEF OwnerIsExact
<1> QED BY <1>5, <1>7, <1>8 DEF MInv

\* The first waiter becomes the owner, long before it runs.
LEMMA HandOverKeeps ==
  ASSUME IInv, MInv, NEW p \in Processors, MutexReleaseHandOver(p)
  PROVE  MInv'
<1> USE Constants
<1> DEFINE h == Head(WaitListHead)
<1>1. /\ at[p] = "releasing" /\ WaitListHead # <<>> /\ Owner' = h
      /\ RecursionCounter' = 1 /\ WaitListHead' = Tail(WaitListHead)
      /\ woken' = [woken EXCEPT ![p] = h]
      /\ at' = [at EXCEPT ![p] = "waking"]
      /\ UNCHANGED <<RunningThread, step, waiting, acquiring, held>>
  BY DEF MutexReleaseHandOver, MutexGoto, vars, data
<1>2. /\ UserRuns(p) /\ self(p) \in Threads /\ self(p) \notin acquiring
      /\ Owner = self(p) /\ Owner # NULL /\ woken[p] = NULL
      /\ \A t \in Threads : held[t] = 0
      /\ \A o \in Processors : at[o] = "releasing" => o = p
  BY <1>1, Releasing
<1>3. WaitListHead \in Seq(Threads) /\ IsInjective(WaitListHead)
  BY DEF MInv, MutexTypeOK, WaitersAreKnown
<1>4. /\ h \in Threads /\ h \in Range(WaitListHead) /\ WaitListHead' \in Seq(Threads)
      /\ IsInjective(WaitListHead') /\ Range(WaitListHead') = Range(WaitListHead) \ {h}
  BY <1>1, <1>3, RemoveHead
<1>5. h \in waiting /\ h \in acquiring /\ h # NULL
  BY <1>4 DEF MInv, WaitersAreKnown, Acquiring
<1> HIDE DEF h
<1>6. /\ at'[p] = "waking" /\ \A o \in Processors \ {p} : at'[o] = at[o]
      /\ at' \in [Processors -> {"program", "acquiring", "releasing", "waking"}]
      /\ woken'[p] = h /\ \A o \in Processors \ {p} : woken'[o] = woken[o]
      /\ woken' \in [Processors -> Threads \cup {NULL}]
      /\ woken \in [Processors -> Threads \cup {NULL}]
  BY <1>1, <1>4 DEF MInv, MutexTypeOK
<1>7. h \notin Range(woken) /\ Range(woken') \ {NULL} = (Range(woken) \ {NULL}) \cup {h}
  <2>1. h \notin Range(woken)
    BY <1>4 DEF MInv, WaitersAreKnown
  <2>2. DOMAIN woken = Processors /\ DOMAIN woken' = Processors
    BY <1>6
  <2>3. ASSUME NEW x \in Range(woken') PROVE x \in Range(woken) \cup {h}
    BY <1>6, <2>2 DEF Range
  <2>4. ASSUME NEW x \in Range(woken), x # NULL PROVE x \in Range(woken')
    BY <1>2, <1>6, <2>2, <2>4 DEF Range
  <2>5. h \in Range(woken')
    BY <1>6, <2>2 DEF Range
  <2> QED BY <1>5, <2>1, <2>3, <2>4, <2>5
<1>8. MutexTypeOK' /\ Acquiring'
  BY <1>1, <1>4, <1>6 DEF MInv, MutexTypeOK, Acquiring
<1>9. WaitersAreKnown'
  <2>1. \A i, o \in Processors : i # o /\ woken'[i] # NULL => woken'[i] # woken'[o]
    <3>1. \A o \in Processors : woken[o] # h
      BY <1>6, <1>7 DEF Range
    <3> QED BY <1>6, <3>1 DEF MInv, WaitersAreKnown
  <2>2. waiting' = Range(WaitListHead') \cup (Range(woken') \ {NULL})
    BY <1>1, <1>4, <1>7 DEF MInv, WaitersAreKnown
  <2>3. Range(WaitListHead') \cap Range(woken') = {}
    <3>1. NULL \notin Range(WaitListHead')
      BY <1>3, <1>4 DEF Range
    <3> QED BY <1>4, <1>7, <3>1 DEF MInv, WaitersAreKnown
  <2> QED BY <1>1, <1>4, <1>5, <2>1, <2>2, <2>3 DEF WaitersAreKnown
<1>10. \A o \in Processors : at'[o] # "releasing"
  BY <1>2, <1>6
<1>11. InMutex'
  BY <1>1, <1>2, <1>5, <1>6, <1>10 DEF MInv, InMutex, UserRuns, self
<1>12. OwnerIsExact'
  <2>1. \A t \in acquiring : t \in Range(WaitListHead') \/ t = h
    BY <1>2, <1>4 DEF MInv, OwnerIsExact
  <2> QED BY <1>1, <1>2, <1>4, <1>5, <1>10, <2>1 DEF OwnerIsExact, MInv, MutexTypeOK
<1> QED BY <1>8, <1>9, <1>11, <1>12 DEF MInv

\* The new owner is activated after the lock was left.
LEMMA WakeKeeps ==
  ASSUME IInv, MInv, NEW p \in Processors, MutexReleaseWake(p)
  PROVE  MInv' /\ woken[p] \in Threads
<1> USE Constants
<1>1. /\ at[p] = "waking" /\ waiting' = waiting \ {woken[p]}
      /\ woken' = [woken EXCEPT ![p] = NULL] /\ at' = [at EXCEPT ![p] = "program"]
      /\ UNCHANGED <<RunningThread, step, Owner, RecursionCounter, WaitListHead,
                     acquiring, held>>
  BY DEF MutexReleaseWake, MutexGoto, UtActivate
<1>2. woken[p] \in Threads /\ woken[p] # NULL
  BY <1>1 DEF MInv, InMutex, MutexTypeOK
<1>3. /\ at'[p] = "program" /\ \A o \in Processors \ {p} : at'[o] = at[o]
      /\ at' \in [Processors -> {"program", "acquiring", "releasing", "waking"}]
      /\ woken'[p] = NULL /\ \A o \in Processors \ {p} : woken'[o] = woken[o]
      /\ woken' \in [Processors -> Threads \cup {NULL}]
      /\ woken \in [Processors -> Threads \cup {NULL}]
  BY <1>1 DEF MInv, MutexTypeOK
<1>4. Range(woken') \ {NULL} = (Range(woken) \ {NULL}) \ {woken[p]}
  <2>1. DOMAIN woken = Processors /\ DOMAIN woken' = Processors
    BY <1>3
  <2>2. ASSUME NEW x \in Range(woken'), x # NULL
        PROVE  x \in Range(woken) /\ x # woken[p]
    <3>1. PICK o \in Processors : x = woken'[o]
      BY <2>1, <2>2 DEF Range
    <3>2. o # p /\ x = woken[o]
      BY <1>3, <2>2, <3>1
    <3> QED BY <1>2, <2>1, <2>2, <3>2 DEF Range, MInv, WaitersAreKnown
  <2>3. ASSUME NEW x \in Range(woken), x # NULL, x # woken[p]
        PROVE  x \in Range(woken')
    BY <1>3, <2>1, <2>3 DEF Range
  <2> QED BY <2>2, <2>3
<1>5. MutexTypeOK' /\ Acquiring'
  BY <1>1, <1>3 DEF MInv, MutexTypeOK, Acquiring
<1>6. WaitersAreKnown'
  <2>1. \A i, o \in Processors : i # o /\ woken'[i] # NULL => woken'[i] # woken'[o]
    BY <1>3 DEF MInv, WaitersAreKnown
  <2>2. woken[p] \notin Range(WaitListHead) /\ NULL \notin Range(WaitListHead)
    <3>1. woken[p] \in Range(woken)
      BY <1>3 DEF Range
    <3>2. \A x \in Range(WaitListHead) : x \in Threads
      BY DEF MInv, MutexTypeOK, Range
    <3> QED BY <3>1, <3>2 DEF MInv, WaitersAreKnown
  <2>3. waiting' = Range(WaitListHead') \cup (Range(woken') \ {NULL})
    BY <1>1, <1>4, <2>2 DEF MInv, WaitersAreKnown
  <2>4. Range(WaitListHead') \cap Range(woken') = {}
    BY <1>1, <1>4, <2>2 DEF MInv, WaitersAreKnown
  <2> QED BY <1>1, <2>1, <2>3, <2>4 DEF MInv, WaitersAreKnown
<1>7. InMutex'
  BY <1>1, <1>3 DEF MInv, InMutex, UserRuns, self
<1>8. \A o \in Processors : at'[o] = "releasing" <=> at[o] = "releasing"
  BY <1>1, <1>3
<1>9. OwnerIsExact'
  BY <1>1, <1>8 DEF MInv, OwnerIsExact, self
<1> QED BY <1>2, <1>5, <1>6, <1>7, <1>9 DEF MInv

-----------------------------------------------------------------------------
\* The steps of the mutex are steps or stutters of the scheduler.
LEMMA MutexStepKeeps ==
  ASSUME MutexIInv, NEW p \in Processors, MutexStep(p)
  PROVE  MInv' /\ [Next]_vars /\ mayCreate' = mayCreate
<1>1. IInv /\ MInv
  BY DEF MutexIInv
<1>2. CASE \/ MutexAcquireAgain(p) \/ MutexAcquireTest(p) \/ MutexAcquireFree(p)
           \/ MutexAcquired(p) \/ MutexReleaseCount(p) \/ MutexReleaseFree(p)
           \/ MutexReleaseHandOver(p)
  <2>1. MInv'
    BY <1>1, <1>2, AcquireAgainKeeps, AcquireTestKeeps, AcquireFreeKeeps, AcquiredKeeps,
       ReleaseCountKeeps, ReleaseFreeKeeps, HandOverKeeps
  <2>2. UNCHANGED vars
    BY <1>2 DEF MutexAcquireAgain, MutexAcquireTest, MutexAcquireFree, MutexAcquired,
       MutexReleaseCount, MutexReleaseFree, MutexReleaseHandOver
  <2> QED BY <2>1, <2>2 DEF vars
<1>3. CASE MutexAcquireBusy(p)
  <2>1. Announce(p) /\ UNCHANGED mayCreate
    BY <1>3 DEF MutexAcquireBusy
  <2> QED BY <1>1, <1>3, <2>1, AcquireBusyKeeps DEF Next
<1>4. CASE MutexReleaseWake(p)
  <2>1. UtActivate(p, woken[p]) /\ UNCHANGED mayCreate
    BY <1>4 DEF MutexReleaseWake
  <2> QED BY <1>1, <1>4, <2>1, WakeKeeps DEF Next
<1> QED BY <1>2, <1>3, <1>4 DEF MutexStep

\* The initial states.
LEMMA MutexInitHolds == InitMutexMC => MutexIInv
<1> SUFFICES ASSUME InitMutexMC PROVE MutexIInv
  OBVIOUS
<1> USE Constants
<1>1. IInv /\ mayCreate = FALSE
  BY InitHolds DEF InitMutexMC
<1>2. /\ Owner = NULL /\ RecursionCounter = 0 /\ WaitListHead = <<>> /\ acquiring = {}
      /\ waiting = {} /\ held = [t \in Threads |-> 0]
      /\ at = [p \in Processors |-> "program"] /\ woken = [p \in Processors |-> NULL]
  BY DEF InitMutexMC, UtInit
<1>3. Range(<<>>) = {} /\ IsInjective(<<>>) /\ Range(woken) \ {NULL} = {}
  BY <1>2 DEF Range, IsInjective
<1>4. MutexTypeOK /\ InMutex /\ Acquiring
  BY <1>2 DEF MutexTypeOK, InMutex, Acquiring
<1>5. OwnerIsExact /\ WaitersAreKnown
  BY <1>2, <1>3 DEF OwnerIsExact, WaitersAreKnown
<1> QED BY <1>1, <1>4, <1>5 DEF MutexIInv, MInv

\* Every step of the mutex and of the scheduler keeps the invariant, and is one
\* of the scheduler or leaves it alone.
LEMMA MutexNextKeeps ==
  ASSUME MutexIInv, [NextMutexMC]_allvars
  PROVE  MutexIInv' /\ [Next]_vars
<1>1. IInv /\ MInv /\ InMutex
  BY DEF MutexIInv, MInv
<1>2. MInv' /\ [Next]_vars /\ mayCreate' = mayCreate
  <2>1. CASE UNCHANGED allvars
    <3>1. UNCHANGED <<vars, mutexvars, waiting, RunningThread, step, mayCreate>>
      BY <2>1 DEF allvars, vars, data
    <3> QED BY <1>1, <3>1, SchedulerKeepsMutex
  <2>2. ASSUME NEW t \in Threads, UtCreateBefore(t), UNCHANGED <<mayCreate, mutexvars>>
        PROVE  MInv' /\ [Next]_vars /\ mayCreate' = mayCreate
    <3>1. UNCHANGED <<waiting, RunningThread, step>>
      BY <2>2 DEF UtCreateBefore
    <3>2. MInv'
      BY <1>1, <2>2, <3>1, SchedulerKeepsMutex
    <3>3. Next
      BY <2>2 DEF Next
    <3> QED BY <2>2, <3>2, <3>3
  <2>3. ASSUME NEW p \in Processors, Scheduler(p)
        PROVE  MInv' /\ [Next]_vars /\ mayCreate' = mayCreate
    <3>1. /\ UNCHANGED <<waiting, mayCreate, mutexvars>> /\ [Next]_vars
          /\ at[p] = "program"
          /\ \A o \in Processors \ {p} :
               RunningThread'[o] = RunningThread[o] /\ step'[o] = step[o]
      BY <1>1, <2>3, SchedulerHere
    <3> QED BY <1>1, <3>1, SchedulerKeepsMutex
  <2>4. ASSUME NEW p \in Processors, MutexStep(p)
        PROVE  MInv' /\ [Next]_vars /\ mayCreate' = mayCreate
    BY <2>4, MutexStepKeeps
  <2> QED BY <2>1, <2>2, <2>3, <2>4 DEF NextMutexMC
<1>3. IInv'
  BY <1>1, <1>2, NextKeeps
<1> QED BY <1>1, <1>2, <1>3 DEF MutexIInv

\* The invariant holds in every reachable state.
THEOREM MutexInvariantHolds == SpecMutexMC => []MutexIInv
BY MutexInitHolds, MutexNextKeeps, PTL DEF SpecMutexMC

\* With the mutex in the program the scheduler does what it does with any
\* program, so that its theorems hold of SpecMutexMC as well.
THEOREM MutexUsesScheduler == SpecMutexMC => Spec
<1>1. InitMutexMC => UtInit
  BY DEF InitMutexMC
<1> QED BY <1>1, MutexInvariantHolds, MutexNextKeeps, PTL DEF SpecMutexMC, Spec

\* The mutex knows its owner although the owner, the counter and the wakeup are
\* read, counted and done outside its lock.
THEOREM OwnerExactMC == SpecMutexMC => []OwnerIsExact
<1>1. MutexIInv => OwnerIsExact
  BY DEF MutexIInv, MInv
<1> QED BY <1>1, MutexInvariantHolds, PTL

\* Every thread that waits to be activated is in the list, or a processor that
\* released the mutex is about to activate it.
THEOREM WaitersKnownMC == SpecMutexMC => []WaitersAreKnown
<1>1. MutexIInv => WaitersAreKnown
  BY DEF MutexIInv, MInv
<1> QED BY <1>1, MutexInvariantHolds, PTL
=============================================================================
