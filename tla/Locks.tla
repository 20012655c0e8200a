------------------------------- MODULE Locks -------------------------------
(***************************************************************************)
(* Threads that take and release mutexes, each running one straight-line   *)
(* program.  Mutex::lock blocks until the mutex is free.                   *)
(***************************************************************************)
EXTENDS Integers, Sequences, FiniteSets

CONSTANTS Thread, Lock,
          Repertoire,  \* per thread, the programs it may run
          NoThread     \* holder of a free mutex

acquire(l) == <<"acquire", l>>
release(l) == <<"release", l>>

ASSUME LocksAssumption ==
  /\ NoThread \notin Thread
  /\ \A t \in Thread : \A p \in Repertoire[t] :
       \A i \in 1 .. Len(p) : p[i] \in {"acquire", "release"} \X Lock

VARIABLES program,  \* what each thread runs
          pc,       \* its next operation
          holder    \* who has each mutex

lockVars == <<program, pc, holder>>

Done(t) == pc[t] > Len(program[t])
Op(t) == program[t][pc[t]]

LocksInit ==
  /\ \E choice \in [Thread -> UNION {Repertoire[t] : t \in Thread}] :
       /\ \A t \in Thread : choice[t] \in Repertoire[t]
       /\ program = choice
  /\ pc = [t \in Thread |-> 1]
  /\ holder = [l \in Lock |-> NoThread]

Acquire(t, l) ==
  /\ ~Done(t) /\ Op(t) = acquire(l)
  /\ holder[l] = NoThread
  /\ holder' = [holder EXCEPT ![l] = t]
  /\ pc' = [pc EXCEPT ![t] = @ + 1]
  /\ UNCHANGED program

Release(t, l) ==
  /\ ~Done(t) /\ Op(t) = release(l)
  /\ holder' = [holder EXCEPT ![l] = NoThread]
  /\ pc' = [pc EXCEPT ![t] = @ + 1]
  /\ UNCHANGED program

Step(t) == \E l \in Lock : Acquire(t, l) \/ Release(t, l)

LocksNext == \E t \in Thread : Step(t)

LocksSpec == LocksInit /\ [][LocksNext]_lockVars

(* The kernel keeps scheduling every runnable thread.  Programs are finite,
   so no thread can take a mutex again and again for ever. *)
FairLocksSpec == LocksSpec /\ \A t \in Thread : WF_lockVars(Step(t))

-----------------------------------------------------------------------------
WaitsFor(t, u) ==
  ~Done(t) /\ \E l \in Lock : Op(t) = acquire(l) /\ holder[l] = u

(* No threads wait for each other in a ring: in every set of threads there is
   one that waits for none of them. *)
NoWaitCycle ==
  \A S \in SUBSET Thread \ {{}} :
    \E t \in S : \A u \in S : ~WaitsFor(t, u)

(* Every request and every event is handled to its end. *)
AllFinish == \A t \in Thread : <>Done(t)
=============================================================================
