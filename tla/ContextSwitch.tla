----------------------------- MODULE ContextSwitch -----------------------------
(***************************************************************************)
(* Below UThread: how a user thread is started, switched out and in, and   *)
(* ended on the processor.  Stacks are sequences of words, the last one on *)
(* top; UtCreate lays out the first context of a thread as if it had been  *)
(* switched out, ContextSwitch and InternalExit push and pop it.           *)
(*                                                                         *)
(* The builds are the texts of the library, each for 32 and for 64 bits:   *)
(* "March" is 2019-03-26-src/UThread, "April" UThread.cpp and "Join"       *)
(* UThreadChangesForUtJoinAndUtAlive.c of 2019-04-09-src/Uthreads2/UThread;*)
(* "Multicore32" is 2019-05-21-src/UthreadsMultiCore/UThread, seen from one *)
(* processor (its 64 bit code does not compile).                           *)
(* Which thread is next is the scheduler's choice, here any that is        *)
(* switched out.                                                           *)
(***************************************************************************)
EXTENDS Naturals, Sequences, SequencesExt

CONSTANTS Stacks,       \* the blocks malloc can give a thread, with its stack
          MainStack,    \* the operating system thread that calls UtRun
          Builds

ASSUME ContextSwitchAssumption ==
  /\ MainStack \notin Stacks
  /\ Builds \subseteq {"March32", "March64", "April32", "April64", "Join32", "Join64",
                       "Multicore32"}

VARIABLES build,
          stack,            \* of each thread
          ThreadContext,    \* of each thread: the height of its stack, saved
          Running,          \* RunningThread
          register,         \* the registers a called function must preserve
          returnTo,         \* the instruction pointer
          freed,            \* threads that do not exist
          left              \* history, of each thread that is switched out: what
                            \* it must find when it goes on

machinevars == <<build, stack, ThreadContext, Running, register,
                 returnTo, freed, left>>

All == Stacks \cup {MainStack}

x64 == build \in {"March64", "April64", "Join64"}

\* In the order in which ContextSwitch pushes them.
Registers ==
  IF x64 THEN <<"RBP", "RBX", "RDI", "RSI", "R12", "R13", "R14", "R15">>
  ELSE <<"EBP", "EBX", "ESI", "EDI">>

\* UTHREAD_CONTEXT, from the highest address down.
UTHREAD_CONTEXT_64 ==
  <<"RetAddr", "RBP", "RBX", "RDI", "RSI", "R12", "R13", "R14", "R15">>
\* A fault: two fields are swapped.
UTHREAD_CONTEXT_32_Swapped == <<"RetAddr", "EBP", "EBX", "EDI", "ESI">>
UTHREAD_CONTEXT_32 == <<"RetAddr", "EBP", "EBX", "ESI", "EDI">>

\* What a function compiled for thread t has in register r.
Value(t, r, n) == <<t, r, n>>

NewStack(layout, zeros) ==
  [k \in 1 .. zeros |-> <<"zero">>]
  \o [k \in 1 .. Len(layout) |->
        IF layout[k] = "RetAddr" THEN <<"InternalStart">> ELSE <<"new", layout[k]>>]

MachineInit ==
  /\ build \in Builds
  /\ stack = [t \in All |-> <<>>]
  /\ ThreadContext = [t \in All |-> 0]
  /\ Running = MainStack
  /\ register = [r \in ToSet(Registers) |-> Value(MainStack, r, 0)]
  /\ returnTo = <<"UtRun">>
  /\ freed = Stacks
  /\ left = [t \in All |-> [height |-> 0, returnTo |-> <<"UtRun">>, saved |-> register]]

-----------------------------------------------------------------------------
\* UtCreate: the zeros above the context are the end of the chain of frames and,
\* for x64, also the home space of InternalStart.
Create(t, layout, zeros) ==
  /\ t \in freed
  /\ freed' = freed \ {t}
  /\ stack' = [stack EXCEPT ![t] = NewStack(layout, zeros)]
  /\ ThreadContext' = [ThreadContext EXCEPT ![t] = Len(NewStack(layout, zeros))]
  /\ left' = [left EXCEPT ![t] =
                [height |-> zeros, returnTo |-> <<"InternalStart">>,
                 saved |-> [r \in ToSet(Registers) |-> <<"new", r>>]]]
  /\ UNCHANGED <<build, Running, register, returnTo>>

UtCreate32March(t) == build = "March32" /\ Create(t, UTHREAD_CONTEXT_32, 1)
UtCreate64March(t) == build = "March64" /\ Create(t, UTHREAD_CONTEXT_64, 5)
UtCreate32(t) == build = "April32" /\ Create(t, UTHREAD_CONTEXT_32, 1)
UtCreate64(t) == build = "April64" /\ Create(t, UTHREAD_CONTEXT_64, 5)
UtCreate32Join(t) == build = "Join32" /\ Create(t, UTHREAD_CONTEXT_32, 1)
UtCreate64Join(t) == build = "Join64" /\ Create(t, UTHREAD_CONTEXT_64, 5)
UtCreateInternal(t) == build = "Multicore32" /\ Create(t, UTHREAD_CONTEXT_32, 1)

-----------------------------------------------------------------------------
\* The end of a switch to next, whose stack is then s: the registers are popped
\* in the reverse order of the pushes, and ret takes the return address.
PopContext(next, s) ==
  LET n == Len(Registers)
      h == Len(s)
  IN /\ register' = [r \in ToSet(Registers) |->
                       s[h - n + CHOOSE k \in 1 .. n : Registers[k] = r]]
     /\ returnTo' = s[h - n]
     /\ Running' = next

\* Everything the compiled code of thread t has in the registers when it calls.
InUse(t, n) == [r \in ToSet(Registers) |-> Value(t, r, n)]

Pushed(t, n) ==
  stack[t] \o <<Value(t, "RetAddr", n)>>
  \o [k \in 1 .. Len(Registers) |-> Value(t, Registers[k], n)]

SwitchedOut == All \ (freed \cup {Running})

Saved(t) == SubSeq(stack[t], 1, ThreadContext[t])
BelowContext(t) == SubSeq(stack[t], 1, ThreadContext[t] - Len(Registers) - 1)

Switch(next) ==
  \E n \in {0, 1} :
    /\ stack' = [stack EXCEPT ![Running] = Pushed(Running, n), ![next] = BelowContext(next)]
    /\ ThreadContext' = [ThreadContext EXCEPT ![Running] = Len(Pushed(Running, n))]
    /\ left' = [left EXCEPT ![Running] =
                  [height |-> Len(stack[Running]), saved |-> InUse(Running, n),
                   returnTo |-> Value(Running, "RetAddr", n)]]
    /\ PopContext(next, Saved(next))
    /\ UNCHANGED <<build, freed>>

ContextSwitch32March(next) == build = "March32" /\ Switch(next)
ContextSwitch64March(next) == build = "March64" /\ Switch(next)
ContextSwitch32(next) == build = "April32" /\ Switch(next)
ContextSwitch64(next) == build \in {"April64", "Join64"} /\ Switch(next)
ContextSwitch32Join(next) == build = "Join32" /\ Switch(next)
ContextSwitchMC(next) == build = "Multicore32" /\ Switch(next)

-----------------------------------------------------------------------------
\* What a function leaves of the stack s that it is called on: in x64 it may use
\* the four words its caller left below the return address as its home space.
CalledOn(s) ==
  {s} \cup (IF x64
            THEN {[k \in 1 .. Len(s) |-> IF k > Len(s) - 4 THEN <<"home">> ELSE s[k]]}
            ELSE {})

Exit(next, victim, s) ==
  /\ Running # MainStack
  /\ stack' = [stack EXCEPT ![victim] = <<>>, ![next] = BelowContext(next)]
  /\ freed' = freed \cup {victim}
  /\ PopContext(next, s)
  /\ UNCHANGED <<build, ThreadContext, left>>

InternalExit32March(next) == build = "March32" /\ Exit(next, Running, Saved(next))
InternalExit32(next) == build = "April32" /\ Exit(next, Running, Saved(next))
InternalExit32Join(next) == build = "Join32" /\ Exit(next, Running, Saved(next))

\* In March there is no home space: sub rsp, 32 is a comment.
InternalExit64March(next) ==
  build = "March64" /\ \E s \in CalledOn(Saved(next)) : Exit(next, Running, s)

\* sub rsp, 32 around the call of CleanupThread.
InternalExit64(next) ==
  /\ build \in {"April64", "Join64"}
  /\ \E s \in CalledOn(Saved(next) \o [k \in 1 .. 4 |-> <<"zero">>]) :
       Exit(next, Running, SubSeq(s, 1, Len(Saved(next))))

\* CleanupThread frees the thread the processor calls running, which InternalExit
\* replaces only after the call.
InternalExitMC(next) == build = "Multicore32" /\ Exit(next, Running, Saved(next))

MachineNext ==
  \/ \E t \in Stacks :
       \/ UtCreate32March(t) \/ UtCreate64March(t) \/ UtCreate32(t) \/ UtCreate64(t)
       \/ UtCreate32Join(t) \/ UtCreate64Join(t) \/ UtCreateInternal(t)
  \/ \E t \in SwitchedOut :
       \/ ContextSwitch32March(t) \/ ContextSwitch64March(t) \/ ContextSwitch32(t)
       \/ ContextSwitch64(t) \/ ContextSwitch32Join(t) \/ ContextSwitchMC(t)
       \/ InternalExit32March(t) \/ InternalExit64March(t) \/ InternalExit32(t)
       \/ InternalExit64(t) \/ InternalExit32Join(t) \/ InternalExitMC(t)

MachineSpec == MachineInit /\ [][MachineNext]_machinevars

-----------------------------------------------------------------------------
\* Whoever is switched in, for the first time or again, after a switch or after
\* the end of another thread, goes on where it left, on its own stack as high as
\* it was; and that stack has not been freed.  Except in the first 64 bit version
\* it also finds what it had in every register that a called function must preserve.
ContextRestored ==
  /\ Running \notin freed
  /\ returnTo = left[Running].returnTo
  /\ Len(stack[Running]) = left[Running].height
  /\ build # "March64" => register = left[Running].saved
=============================================================================
