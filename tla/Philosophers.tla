----------------------------- MODULE Philosophers -----------------------------
(***************************************************************************)
(* The three versions of the philosophers in 2019-05-23-src: sticks are    *)
(* Windows mutexes.  V1 takes the stick of its number and then the next;   *)
(* V2 waits for both at once; in V3 the last philosopher begins with the   *)
(* other one.                                                              *)
(***************************************************************************)
EXTENDS Naturals

CONSTANT NSTICKS

ASSUME PhilosophersAssumption == NSTICKS \in Nat \ {0, 1}

VARIABLES version,
          sticks,       \* the philosopher that owns the mutex, or NSTICKS
          philosopher   \* of each: "hungry", "one", "eats", "left"

philvars == <<version, sticks, philosopher>>

Philosophers == 0 .. NSTICKS - 1
Nobody == NSTICKS

PhilosophersInit ==
  /\ version \in {"V1", "V2", "V3"}
  /\ sticks = [k \in Philosophers |-> Nobody]
  /\ philosopher = [i \in Philosophers |-> "hungry"]

Next1(i) == (i + 1) % NSTICKS

PhilosopherGoes(i, from, to) ==
  /\ philosopher[i] = from
  /\ philosopher' = [philosopher EXCEPT ![i] = to]
  /\ UNCHANGED version

Take(i, k) == sticks[k] = Nobody /\ sticks' = [sticks EXCEPT ![k] = i]

TakeFirst(i, k) == PhilosopherGoes(i, "hungry", "one") /\ Take(i, k)
TakeSecond(i, k) == PhilosopherGoes(i, "one", "eats") /\ Take(i, k)

TakeBoth(i) ==
  /\ PhilosopherGoes(i, "hungry", "eats")
  /\ sticks[i] = Nobody /\ sticks[Next1(i)] = Nobody
  /\ sticks' = [sticks EXCEPT ![i] = i, ![Next1(i)] = i]

Release(i) ==
  \/ /\ PhilosopherGoes(i, "eats", "left")
     /\ sticks' = [sticks EXCEPT ![i] = Nobody]
  \/ /\ PhilosopherGoes(i, "left", "hungry")
     /\ sticks' = [sticks EXCEPT ![Next1(i)] = Nobody]

-----------------------------------------------------------------------------
\* The threads of the three versions.
PhilosopherV1(i) ==
  /\ version = "V1"
  /\ TakeFirst(i, i) \/ TakeSecond(i, Next1(i)) \/ Release(i)

PhilosopherV2(i) == version = "V2" /\ (TakeBoth(i) \/ Release(i))

\* A fault: the last philosopher takes them in the order of the others.
First_Same(i) == i

First(i) == IF i = NSTICKS - 1 THEN 0 ELSE i

PhilosopherV3(i) ==
  /\ version = "V3"
  /\ \/ TakeFirst(i, First(i))
     \/ TakeSecond(i, IF First(i) = i THEN Next1(i) ELSE i)
     \/ Release(i)

Philosopher(i) == PhilosopherV1(i) \/ PhilosopherV2(i) \/ PhilosopherV3(i)

PhilosophersNext == \E i \in Philosophers : Philosopher(i)

PhilosophersSpec == PhilosophersInit /\ [][PhilosophersNext]_philvars

-----------------------------------------------------------------------------
\* The circle in which each philosopher holds the stick of its number.
Circle == \A i \in Philosophers : sticks[i] = i /\ philosopher[i] = "one"

\* Again and again one of the philosophers eats: V2 and V3 can never starve all
\* together.  V1 "pode gerar deadlock!" (PhilosophersV1.cpp:4): it can, but in no
\* other way than this circle.
SomebodyEats ==
  \/ []<>(\E i \in Philosophers : philosopher[i] = "eats")
  \/ version = "V1" /\ <>[]Circle
=============================================================================
