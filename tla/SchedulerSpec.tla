---------------------------- MODULE SchedulerSpec ----------------------------
(***************************************************************************)
(* What the user-thread scheduler promises, without queues, counters or    *)
(* handles: at most one thread runs; the processor goes back to the caller *)
(* of UtRun only when no thread is ready; and a thread moves between ready,*)
(* running and blocked only by its own calls or by being woken.            *)
(***************************************************************************)
CONSTANT Threads

VARIABLES status,   \* of each thread block
          active    \* UtRun has been called and has not returned

vars == <<status, active>>

Status == {"free", "ready", "running", "blocked"}

In(s) == {t \in Threads : status[t] = s}

Init == status = [t \in Threads |-> "free"] /\ active = FALSE

\* The processor is used by a user thread or by the program outside UtRun.
Busy == active => In("running") # {}

Create(t) ==
  /\ Busy
  /\ status[t] = "free"
  /\ status' = [status EXCEPT ![t] = "ready"]
  /\ UNCHANGED active

Wake(t) ==
  /\ Busy
  /\ status[t] = "blocked"
  /\ status' = [status EXCEPT ![t] = "ready"]
  /\ UNCHANGED active

Run ==
  /\ ~active
  /\ \E t \in In("ready") : status' = [status EXCEPT ![t] = "running"]
  /\ active' = TRUE

Return ==
  /\ active
  /\ In("running") = {}
  /\ active' = FALSE
  /\ UNCHANGED status

\* The running thread yields (s = "ready"), blocks or exits (s = "free"); one of
\* the ready threads, itself included when it yields, runs next.
Leave(t, s) ==
  LET ready == In("ready") \cup (IF s = "ready" THEN {t} ELSE {})
  IN /\ status[t] = "running"
     /\ \/ ready = {} /\ status' = [status EXCEPT ![t] = s]
        \/ \E u \in ready :
             status' = [status EXCEPT ![t] = s, ![u] = "running"]
     /\ UNCHANGED active

Next ==
  \/ \E t \in Threads : Create(t) \/ Wake(t)
  \/ \E t \in Threads, s \in {"ready", "blocked", "free"} : Leave(t, s)
  \/ Run \/ Return

Spec == Init /\ [][Next]_vars
=============================================================================
