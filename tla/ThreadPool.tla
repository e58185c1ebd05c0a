----------------------------- MODULE ThreadPool -----------------------------
(***************************************************************************)
(* src/utils/thread_pool: a pool starts max_threads threads that share one *)
(* linked list of jobs under one mutex.  The thread that owns the pool     *)
(* (here: main) adds jobs and finally destroys the pool; each worker runs  *)
(* Thread_run.  The steps are the accesses to what the threads share: the  *)
(* flag running, the mutex, the head of the list.                          *)
(*                                                                         *)
(* The list is a sequence here; that linkedlist.c behaves as one is the    *)
(* subject of module Linkedlist.                                           *)
(***************************************************************************)
EXTENDS Naturals, Sequences, FiniteSets

CONSTANTS
  NumThreads,   \* max_threads
  NumJobs,      \* bound: calls of Thread_Pool_add_job
  KillSeesExit  \* pthread_kill(t, 0) fails once t has exited (glibc < 2.34)

ASSUME PoolAssumption ==
  /\ NumThreads \in Nat \ {0}
  /\ NumJobs \in Nat
  /\ KillSeesExit \in BOOLEAN

Threads == 1..NumThreads
Jobs == 1..NumJobs     \* in the order they are added
NoJob == 0             \* node == NULL

Main == 0              \* owners of the mutex: main, a worker or nobody
Nobody == NumThreads + 1

VARIABLES
  main,       \* where main is in the functions of the pool
  cur,        \* the thread main starts or destroys
  added,      \* calls of add_job so far
  pc,         \* per worker: where it is in Thread_run
  running,    \* per worker: thread->running
  node,       \* per worker: the job in the node it popped
  mutex,      \* owner of jobs_mutex
  jobs,       \* this->jobs
  freed,      \* workers whose Thread struct was freed
  destroyed,  \* the list, the mutex and the pool were freed
  runs,       \* history: how often each job's function was called
  discarded   \* history: the jobs Thread_Pool_destroy threw away

shared  == <<running, mutex, jobs, freed, destroyed>>
history == <<runs, discarded>>
vars    == <<main, cur, added, pc, node, shared, history>>

MainPc == {"spawn", "idle", "append", "add_unlock", "stop", "wait", "join",
           "drain_lock", "drain", "drain_unlock", "free", "done"}
WorkerPc == {"unborn", "check", "lock", "pop", "advance", "unlock", "run",
             "release", "exited"}

MainInList == main \in {"append", "add_unlock", "drain", "drain_unlock"}
InList(w) == pc[w] \in {"pop", "advance", "unlock"}

(* Thread_Pool_init, up to its loop. *)
Init ==
  /\ main = "spawn"
  /\ cur = 1
  /\ added = 0
  /\ pc = [w \in Threads |-> "unborn"]
  /\ running = [w \in Threads |-> TRUE]
  /\ node = [w \in Threads |-> NoJob]
  /\ mutex = Nobody
  /\ jobs = <<>>
  /\ freed = {}
  /\ destroyed = FALSE
  /\ runs = [j \in Jobs |-> 0]
  /\ discarded = {}

-----------------------------------------------------------------------------
(* Variant: lock and unlock are forgotten. *)
NoMutex == TRUE

MutexFree == mutex = Nobody

Goes(w, to) == pc' = [pc EXCEPT ![w] = to]

LastThread == cur = NumThreads

(* Thread_start: the worker may run before the next one exists. *)
Spawn ==
  /\ main = "spawn"
  /\ Goes(cur, "check")
  /\ IF LastThread
     THEN main' = "idle" /\ UNCHANGED cur
     ELSE cur' = cur + 1 /\ UNCHANGED main
  /\ UNCHANGED <<added, node, shared, history>>

(* Thread_Pool_add_job *)
AddLock ==
  /\ main = "idle"
  /\ added < NumJobs
  /\ MutexFree
  /\ mutex' = Main
  /\ main' = "append"
  /\ UNCHANGED <<cur, added, pc, node, running, jobs, freed, destroyed, history>>

(* Variant: the new node becomes the head. *)
Prepended(j) == <<j>> \o jobs

Appended(j) == Append(jobs, j)

AddAppend ==
  /\ main = "append"
  /\ jobs' = Appended(added + 1)
  /\ added' = added + 1
  /\ main' = "add_unlock"
  /\ UNCHANGED <<cur, pc, node, running, mutex, freed, destroyed, history>>

AddUnlock ==
  /\ main = "add_unlock"
  /\ mutex' = Nobody
  /\ main' = "idle"
  /\ UNCHANGED <<cur, added, pc, node, running, jobs, freed, destroyed, history>>

-----------------------------------------------------------------------------
(* Thread_Pool_destroy, with Thread_destroy for each thread in turn. *)
BeginDestroy ==
  /\ main = "idle"
  /\ main' = "stop"
  /\ cur' = 1
  /\ UNCHANGED <<added, pc, node, shared, history>>

StopThread ==
  /\ main = "stop"
  /\ running' = [running EXCEPT ![cur] = FALSE]
  /\ main' = "wait"
  /\ UNCHANGED <<cur, added, pc, node, mutex, jobs, freed, destroyed, history>>

(* Variant: the flag is set and nobody waits. *)
GoesOn == TRUE

(* pthread_kill(thread, 0) == 0 while the thread is alive.  What it returns
   for a detached thread that has exited is up to the library.             *)
SeenToExit == pc[cur] = "exited" /\ KillSeesExit

SpinEnds ==
  /\ main = "wait"
  /\ SeenToExit
  /\ main' = "join"
  /\ UNCHANGED <<cur, added, pc, node, shared, history>>

(* pthread_join fails on a detached thread and is ignored; free(this). *)
FreeThread ==
  /\ main = "join"
  /\ freed' = freed \cup {cur}
  /\ IF LastThread
     THEN main' = "drain_lock" /\ UNCHANGED cur
     ELSE main' = "stop" /\ cur' = cur + 1
  /\ UNCHANGED <<added, pc, node, running, mutex, jobs, destroyed, history>>

DrainLock ==
  /\ main = "drain_lock"
  /\ MutexFree
  /\ mutex' = Main
  /\ main' = "drain"
  /\ UNCHANGED <<cur, added, pc, node, running, jobs, freed, destroyed, history>>

(* Every job still listed is destroyed, and the list with its nodes. *)
Drain ==
  /\ main = "drain"
  /\ discarded' = discarded \cup {jobs[i] : i \in DOMAIN jobs}
  /\ jobs' = <<>>
  /\ main' = "drain_unlock"
  /\ UNCHANGED <<cur, added, pc, node, running, mutex, freed, destroyed, runs>>

DrainUnlock ==
  /\ main = "drain_unlock"
  /\ mutex' = Nobody
  /\ main' = "free"
  /\ UNCHANGED <<cur, added, pc, node, running, jobs, freed, destroyed, history>>

FreePool ==
  /\ main = "free"
  /\ destroyed' = TRUE
  /\ main' = "done"
  /\ UNCHANGED <<cur, added, pc, node, running, mutex, jobs, freed, history>>

-----------------------------------------------------------------------------
(* Thread_run *)

(* Variant: the flag is not looked at. *)
RunsForEver(w) == TRUE

Continues(w) == running[w]

CheckRunning(w) ==
  /\ pc[w] = "check"
  /\ IF Continues(w)
     THEN Goes(w, "lock") /\ node' = [node EXCEPT ![w] = NoJob]
     ELSE Goes(w, "exited") /\ UNCHANGED node
  /\ UNCHANGED <<main, cur, added, shared, history>>

Lock(w) ==
  /\ pc[w] = "lock"
  /\ MutexFree
  /\ mutex' = w
  /\ Goes(w, "pop")
  /\ UNCHANGED <<main, cur, added, node, running, jobs, freed, destroyed, history>>

(* Linkedlist_pop reads the head ... *)
PopRead(w) ==
  /\ pc[w] = "pop"
  /\ IF jobs = <<>>
     THEN Goes(w, "unlock") /\ node' = [node EXCEPT ![w] = NoJob]
     ELSE Goes(w, "advance") /\ node' = [node EXCEPT ![w] = Head(jobs)]
  /\ UNCHANGED <<main, cur, added, shared, history>>

(* Variant: the head stays where it is. *)
KeepsHead == jobs

(* The list from the second node on. *)
Rest == SubSeq(jobs, 2, Len(jobs))

(* ... and sets it to the next node. *)
PopAdvance(w) ==
  /\ pc[w] = "advance"
  /\ jobs' = Rest
  /\ Goes(w, "unlock")
  /\ UNCHANGED <<main, cur, added, node, running, mutex, freed, destroyed, history>>

(* Variant: a worker that finds the list empty is done. *)
LeavesWhenEmpty(w) == IF node[w] = NoJob THEN "exited" ELSE "run"

AfterPop(w) == IF node[w] = NoJob THEN "check" ELSE "run"

Unlock(w) ==
  /\ pc[w] = "unlock"
  /\ mutex' = Nobody
  /\ Goes(w, AfterPop(w))
  /\ UNCHANGED <<main, cur, added, node, running, jobs, freed, destroyed, history>>

(* job->function(job->arg) *)
RunJob(w) ==
  /\ pc[w] = "run"
  /\ runs' = [runs EXCEPT ![node[w]] = @ + 1]
  /\ Goes(w, "release")
  /\ UNCHANGED <<main, cur, added, node, shared, discarded>>

(* job and node are destroyed. *)
ReleaseJob(w) ==
  /\ pc[w] = "release"
  /\ Goes(w, "check")
  /\ UNCHANGED <<main, cur, added, node, shared, history>>

-----------------------------------------------------------------------------
(* What main does once it is inside a function of the pool; whether and when
   it calls add_job or destroy is the caller's choice.                       *)
MainOp ==
  \/ Spawn
  \/ AddAppend \/ AddUnlock
  \/ StopThread \/ SpinEnds \/ FreeThread
  \/ DrainLock \/ Drain \/ DrainUnlock \/ FreePool

MainStep == MainOp \/ AddLock \/ BeginDestroy

Worker(w) ==
  \/ CheckRunning(w) \/ Lock(w) \/ PopRead(w) \/ PopAdvance(w) \/ Unlock(w)
  \/ RunJob(w) \/ ReleaseJob(w)

Next == MainStep \/ \E w \in Threads : Worker(w)

Spec == Init /\ [][Next]_vars

(* Every thread is scheduled, and every job's function returns. *)
Fairness == WF_vars(MainOp) /\ \A w \in Threads : WF_vars(Worker(w))

FairSpec == Spec /\ Fairness

-----------------------------------------------------------------------------
(* Properties *)

(* Every variable has its type. *)
TypeOK ==
  /\ main \in MainPc
  /\ cur \in Threads
  /\ added \in 0..NumJobs
  /\ pc \in [Threads -> WorkerPc]
  /\ running \in [Threads -> BOOLEAN]
  /\ node \in [Threads -> Jobs \cup {NoJob}]
  /\ mutex \in Threads \cup {Main, Nobody}
  /\ jobs \in Seq(Jobs)
  /\ freed \in SUBSET Threads
  /\ destroyed \in BOOLEAN
  /\ runs \in [Jobs -> Nat]
  /\ discarded \in SUBSET Jobs

(* Only the owner of jobs_mutex is inside the list, so the two steps of a pop
   are never mixed with another pop, an append or the final drain.           *)
ListExclusive ==
  /\ MainInList => mutex = Main
  /\ \A w \in Threads : InList(w) => mutex = w

(* Where a job that was added can be. *)
Listed == {jobs[i] : i \in DOMAIN jobs}
Holds(w) == pc[w] \in {"unlock", "run"} /\ node[w] # NoJob
Executing == {node[w] : w \in {v \in Threads : Holds(v)}}
Finished == {j \in Jobs : runs[j] > 0}

(* Every job that was added is in exactly one place: once in the list, in the
   hands of one worker, run (once and never again), or discarded by the
   destruction of the pool.                                                  *)
JobInOnePlace ==
  /\ 1..added = Listed \cup Executing \cup Finished \cup discarded
  /\ Listed \cap (Executing \cup Finished \cup discarded) = {}
  /\ Executing \cap (Finished \cup discarded) = {}
  /\ Finished \cap discarded = {}
  /\ \A i, k \in DOMAIN jobs : jobs[i] = jobs[k] => i = k
  /\ \A v, w \in Threads : Holds(v) /\ Holds(w) /\ node[v] = node[w] => v = w
  /\ \A j \in Jobs : runs[j] <= 1

(* Nothing a worker still uses is freed: neither its Thread struct, which it
   reads at the top of its loop, nor the list and the mutex all share.       *)
NoUseAfterFree ==
  /\ \A w \in freed : pc[w] = "exited"
  /\ destroyed => freed = Threads /\ mutex = Nobody

(* The pool is a job pool: the sequence of jobs seen without the threads. *)
Accepting == main \in {"spawn", "idle", "append", "add_unlock"}

JP == INSTANCE JobPool WITH
        accepting <- Accepting, queue <- jobs, executing <- Executing,
        finished <- Finished, discarded <- discarded

ImplementsJobPool == JP!JobSpec

(* A job that was added is run, unless the pool is told to shut down first:
   with every worker popping under the mutex, whichever gets it, no job is
   left behind while others are served.                                     *)
JobsAreRun ==
  \A j \in Jobs : j \in Listed ~> (runs[j] > 0 \/ ~Accepting)

(* No thread waits for ever for a mutex that is released again and again.
   POSIX does not promise it for a default mutex; it is assumed only where
   this formula is named.                                                  *)
LocksAreFair == SF_vars(DrainLock) /\ \A w \in Threads : SF_vars(Lock(w))

(* Given that, the destruction of the pool comes to its end. *)
DestroyEnds == LocksAreFair => (main = "stop" ~> main = "done")
=============================================================================
