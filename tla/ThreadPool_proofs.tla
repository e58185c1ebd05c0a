-------------------------- MODULE ThreadPool_proofs --------------------------
(***************************************************************************)
(* Proofs about ThreadPool, for any number of threads and of jobs:         *)
(*   - the list of jobs is only touched under the mutex;                   *)
(*   - nothing is freed while a worker may still use it;                   *)
(*   - every job is in exactly one place;                                  *)
(*   - the pool implements JobPool.                                        *)
(***************************************************************************)
EXTENDS ThreadPool, TLAPS

(* None of the three kinds of owner is another. *)
LEMMA OwnersDistinct ==
  /\ Main \notin Threads /\ Nobody \notin Threads /\ Main # Nobody
  /\ NoJob \notin Jobs
  BY PoolAssumption DEF Main, Nobody, Threads, Jobs, NoJob

-----------------------------------------------------------------------------
(* Sequences: what an append and a pop do to the jobs in the list. *)

LEMMA AppendFacts ==
  ASSUME NEW S, NEW s \in Seq(S), NEW x \in S
  PROVE  /\ Append(s, x) \in Seq(S)
         /\ DOMAIN Append(s, x) = 1..(Len(s) + 1)
         /\ DOMAIN s = 1..Len(s)
         /\ Len(s) \in Nat
         /\ \A i \in 1..Len(s) : Append(s, x)[i] = s[i]
         /\ Append(s, x)[Len(s) + 1] = x
  OBVIOUS

LEMMA RestFacts ==
  ASSUME NEW S, NEW s \in Seq(S), s # <<>>
  PROVE  /\ SubSeq(s, 2, Len(s)) = Tail(s)
         /\ Tail(s) \in Seq(S)
         /\ Len(s) \in Nat \ {0}
         /\ DOMAIN s = 1..Len(s)
         /\ DOMAIN Tail(s) = 1..(Len(s) - 1)
         /\ \A i \in 1..(Len(s) - 1) : Tail(s)[i] = s[i + 1]
         /\ Head(s) = s[1]
         /\ Head(s) \in S
  OBVIOUS

-----------------------------------------------------------------------------
(* Types *)

(* What keeps an append within the bound and a run within the jobs. *)
TypeInv ==
  /\ TypeOK
  /\ main = "append" => added < NumJobs
  /\ \A w \in Threads : pc[w] = "run" => node[w] \in Jobs

LEMMA TypeInvInit == Init => TypeInv
<1> SUFFICES ASSUME Init
             PROVE  TypeInv
  OBVIOUS
<1>1. jobs \in Seq(Jobs)
  BY DEF Init
<1>2. /\ cur \in Threads
      /\ added \in 0..NumJobs
      /\ mutex \in Threads \cup {Main, Nobody}
  BY PoolAssumption DEF Init, Threads
<1>3. /\ pc \in [Threads -> WorkerPc]
      /\ running \in [Threads -> BOOLEAN]
      /\ node \in [Threads -> Jobs \cup {NoJob}]
      /\ \A w \in Threads : pc[w] # "run"
  BY DEF Init, WorkerPc
<1>4. /\ freed \in SUBSET Threads
      /\ runs \in [Jobs -> Nat]
      /\ discarded \in SUBSET Jobs
      /\ destroyed \in BOOLEAN
      /\ main \in MainPc \ {"append"}
  BY DEF Init, MainPc
<1> QED
  BY <1>1, <1>2, <1>3, <1>4 DEF TypeInv, TypeOK

LEMMA TypeInvMain ==
  ASSUME TypeInv, MainStep
  PROVE  TypeInv'
<1> USE PoolAssumption DEF TypeInv, TypeOK, Threads, NoJob, Main, Nobody,
      MainPc, WorkerPc, shared, history, Goes
<1>1. CASE Spawn
  BY <1>1 DEF Spawn, LastThread
<1>2. CASE AddLock
  BY <1>2 DEF AddLock
<1>3. CASE AddAppend
  <2>1. added + 1 \in Jobs
    BY <1>3 DEF AddAppend, Jobs
  <2>2. jobs' \in Seq(Jobs)
    BY <1>3, <2>1, AppendFacts DEF AddAppend, Appended
  <2> QED
    BY <1>3, <2>2 DEF AddAppend
<1>4. CASE AddUnlock
  BY <1>4 DEF AddUnlock
<1>5. CASE BeginDestroy
  BY <1>5 DEF BeginDestroy
<1>6. CASE StopThread
  BY <1>6 DEF StopThread
<1>7. CASE SpinEnds
  BY <1>7 DEF SpinEnds
<1>8. CASE FreeThread
  BY <1>8 DEF FreeThread, LastThread
<1>9. CASE DrainLock
  BY <1>9 DEF DrainLock
<1>10. CASE Drain
  <2>1. discarded' \in SUBSET Jobs
    BY <1>10 DEF Drain
  <2>2. jobs' \in Seq(Jobs)
    BY <1>10 DEF Drain
  <2> QED
    BY <1>10, <2>1, <2>2 DEF Drain
<1>11. CASE DrainUnlock
  BY <1>11 DEF DrainUnlock
<1>12. CASE FreePool
  BY <1>12 DEF FreePool
<1> QED
  BY <1>1, <1>2, <1>3, <1>4, <1>5, <1>6, <1>7, <1>8, <1>9, <1>10, <1>11, <1>12
  DEF MainStep, MainOp

LEMMA TypeInvWorker ==
  ASSUME TypeInv, NEW w \in Threads, Worker(w)
  PROVE  TypeInv'
<1> USE DEF TypeInv, TypeOK, WorkerPc, shared, history, Goes
<1>1. CASE CheckRunning(w)
  <2>1. /\ pc' \in [Threads -> WorkerPc]
        /\ \A v \in Threads : pc'[v] = "run" => pc[v] = "run" /\ node'[v] = node[v]
    BY <1>1 DEF CheckRunning
  <2>2. node' \in [Threads -> Jobs \cup {NoJob}]
    BY <1>1 DEF CheckRunning
  <2> QED
    BY <1>1, <2>1, <2>2 DEF CheckRunning
<1>2. CASE Lock(w)
  <2>1. pc' \in [Threads -> WorkerPc] /\ mutex' \in Threads \cup {Main, Nobody}
    BY <1>2 DEF Lock
  <2>2. \A v \in Threads : pc'[v] = "run" => pc[v] = "run"
    BY <1>2 DEF Lock
  <2> QED
    BY <1>2, <2>1, <2>2 DEF Lock
<1>3. CASE PopRead(w)
  <2>1. jobs # <<>> => Head(jobs) \in Jobs
    BY RestFacts
  <2>2. node' \in [Threads -> Jobs \cup {NoJob}]
    BY <1>3, <2>1 DEF PopRead
  <2>3. pc' \in [Threads -> WorkerPc]
    BY <1>3 DEF PopRead
  <2>4. \A v \in Threads : pc'[v] = "run" => pc[v] = "run" /\ node'[v] = node[v]
    BY <1>3 DEF PopRead
  <2> QED
    BY <1>3, <2>2, <2>3, <2>4 DEF PopRead
<1>4. CASE PopAdvance(w)
  <2>1. jobs' \in Seq(Jobs)
    BY <1>4 DEF PopAdvance, Rest
  <2> QED
    BY <1>4, <2>1 DEF PopAdvance
<1>5. CASE Unlock(w)
  <2>1. mutex' \in Threads \cup {Main, Nobody}
    BY <1>5 DEF Unlock
  <2> QED
    BY <1>5, <2>1 DEF Unlock, AfterPop
<1>6. CASE RunJob(w)
  <2>1. node[w] \in Jobs
    BY <1>6 DEF RunJob
  <2>2. runs' \in [Jobs -> Nat]
    BY <1>6, <2>1 DEF RunJob
  <2> QED
    BY <1>6, <2>2 DEF RunJob
<1>7. CASE ReleaseJob(w)
  BY <1>7 DEF ReleaseJob
<1> QED
  BY <1>1, <1>2, <1>3, <1>4, <1>5, <1>6, <1>7 DEF Worker

LEMMA TypeInvNext == TypeInv /\ [Next]_vars => TypeInv'
<1> SUFFICES ASSUME TypeInv, [Next]_vars
             PROVE  TypeInv'
  OBVIOUS
<1>1. CASE UNCHANGED vars
  BY <1>1 DEF TypeInv, TypeOK, vars, shared, history
<1> QED
  BY <1>1, TypeInvMain, TypeInvWorker DEF Next

LEMMA TypeInvInvariant == Spec => []TypeInv
  BY TypeInvInit, TypeInvNext, PTL DEF Spec

(* The variables of ThreadPool stay in their types; in particular the workers
   started and stopped are those of the pool (thread_pool.c:53, 79-85).      *)
THEOREM TypeCorrect == Spec => []TypeOK
<1>1. TypeInv => TypeOK
  BY DEF TypeInv
<1> QED
  BY <1>1, TypeInvInvariant, PTL

-----------------------------------------------------------------------------
(* Mutual exclusion *)

(* The owner recorded in the mutex is the thread inside the list: stronger than
   ListExclusive, because an unlock must find its own thread there.  While the
   threads are being started those still to come have done nothing.            *)
MutexInv ==
  /\ main = "spawn" => \A w \in Threads : w >= cur => pc[w] = "unborn"
  /\ MainInList <=> mutex = Main
  /\ \A w \in Threads : InList(w) <=> mutex = w

LEMMA MutexInvInit == Init => MutexInv
  BY OwnersDistinct DEF Init, MutexInv, MainInList, InList

LEMMA MutexInvMain ==
  ASSUME TypeInv, MutexInv, MainStep
  PROVE  MutexInv'
<1> USE OwnersDistinct DEF TypeInv, TypeOK, MutexInv, MainInList, InList,
      shared, history, Goes
<1>1. CASE Spawn
  <2>1. pc[cur] = "unborn" /\ ~InList(cur)
    BY <1>1, PoolAssumption DEF Spawn, Threads
  <2>2. \A w \in Threads : InList(w)' <=> InList(w)
    BY <1>1, <2>1 DEF Spawn
  <2>3. main' = "spawn" => \A w \in Threads : w >= cur' => pc'[w] = "unborn"
    BY <1>1, PoolAssumption DEF Spawn, LastThread, Threads
  <2> QED
    BY <1>1, <2>2, <2>3 DEF Spawn
<1>2. CASE AddLock
  BY <1>2 DEF AddLock, MutexFree
<1>3. CASE AddAppend
  BY <1>3 DEF AddAppend
<1>4. CASE AddUnlock
  BY <1>4 DEF AddUnlock
<1>5. CASE BeginDestroy
  BY <1>5 DEF BeginDestroy
<1>6. CASE StopThread
  BY <1>6 DEF StopThread
<1>7. CASE SpinEnds
  BY <1>7 DEF SpinEnds
<1>8. CASE FreeThread
  BY <1>8 DEF FreeThread
<1>9. CASE DrainLock
  BY <1>9 DEF DrainLock, MutexFree
<1>10. CASE Drain
  BY <1>10 DEF Drain
<1>11. CASE DrainUnlock
  BY <1>11 DEF DrainUnlock
<1>12. CASE FreePool
  BY <1>12 DEF FreePool
<1> QED
  BY <1>1, <1>2, <1>3, <1>4, <1>5, <1>6, <1>7, <1>8, <1>9, <1>10, <1>11, <1>12
  DEF MainStep, MainOp

LEMMA MutexInvWorker ==
  ASSUME TypeInv, MutexInv, NEW w \in Threads, Worker(w)
  PROVE  MutexInv'
<1> USE OwnersDistinct DEF TypeInv, TypeOK, MutexInv, MainInList, InList,
      shared, history, Goes
<1>1. CASE CheckRunning(w)
  BY <1>1 DEF CheckRunning
<1>2. CASE Lock(w)
  BY <1>2 DEF Lock, MutexFree
<1>3. CASE PopRead(w)
  BY <1>3 DEF PopRead
<1>4. CASE PopAdvance(w)
  BY <1>4 DEF PopAdvance
<1>5. CASE Unlock(w)
  BY <1>5 DEF Unlock, AfterPop
<1>6. CASE RunJob(w)
  BY <1>6 DEF RunJob
<1>7. CASE ReleaseJob(w)
  BY <1>7 DEF ReleaseJob
<1> QED
  BY <1>1, <1>2, <1>3, <1>4, <1>5, <1>6, <1>7 DEF Worker

LEMMA MutexInvNext == TypeInv /\ MutexInv /\ [Next]_vars => MutexInv'
<1> SUFFICES ASSUME TypeInv, MutexInv, [Next]_vars
             PROVE  MutexInv'
  OBVIOUS
<1>1. CASE UNCHANGED vars
  BY <1>1 DEF MutexInv, MainInList, InList, vars, shared
<1> QED
  BY <1>1, MutexInvMain, MutexInvWorker DEF Next

LEMMA MutexInvInvariant == Spec => []MutexInv
  BY MutexInvInit, MutexInvNext, TypeInvInvariant, PTL DEF Spec

(* The list of jobs is touched by the owner of jobs_mutex only
   (thread.c:77-79, thread_pool.c:88-99, 114-116).            *)
THEOREM ListIsExclusive == Spec => []ListExclusive
<1>1. MutexInv => ListExclusive
  BY DEF MutexInv, ListExclusive
<1> QED
  BY <1>1, MutexInvInvariant, PTL

-----------------------------------------------------------------------------
(* Destruction *)

(* How far the destruction has come: the threads before cur are freed, all of
   them exited, and the one main is about to join has exited too.            *)
LifeInv ==
  /\ \A w \in freed : pc[w] = "exited"
  /\ main \in {"spawn", "idle", "append", "add_unlock"} => freed = {}
  /\ main \in {"stop", "wait", "join"} => freed = 1..(cur - 1)
  /\ main \in {"drain_lock", "drain", "drain_unlock", "free", "done"} => freed = Threads
  /\ main = "join" => pc[cur] = "exited"
  /\ destroyed => main = "done"

LEMMA LifeInvInit == Init => LifeInv
  BY DEF Init, LifeInv

LEMMA LifeInvMain ==
  ASSUME TypeInv, LifeInv, MainStep
  PROVE  LifeInv'
<1> USE PoolAssumption DEF TypeInv, TypeOK, LifeInv, Threads, shared, history,
      Goes, MainPc
<1>1. CASE Spawn
  BY <1>1 DEF Spawn
<1>2. CASE AddLock
  BY <1>2 DEF AddLock
<1>3. CASE AddAppend
  BY <1>3 DEF AddAppend
<1>4. CASE AddUnlock
  BY <1>4 DEF AddUnlock
<1>5. CASE BeginDestroy
  BY <1>5 DEF BeginDestroy
<1>6. CASE StopThread
  BY <1>6 DEF StopThread
<1>7. CASE SpinEnds
  BY <1>7 DEF SpinEnds, SeenToExit
<1>8. CASE FreeThread
  <2>1. freed' = 1..cur
    BY <1>8 DEF FreeThread
  <2>2. \A w \in freed' : pc'[w] = "exited"
    BY <1>8 DEF FreeThread
  <2> QED
    BY <1>8, <2>1, <2>2 DEF FreeThread, LastThread
<1>9. CASE DrainLock
  BY <1>9 DEF DrainLock
<1>10. CASE Drain
  BY <1>10 DEF Drain
<1>11. CASE DrainUnlock
  BY <1>11 DEF DrainUnlock
<1>12. CASE FreePool
  BY <1>12 DEF FreePool
<1> QED
  BY <1>1, <1>2, <1>3, <1>4, <1>5, <1>6, <1>7, <1>8, <1>9, <1>10, <1>11, <1>12
  DEF MainStep, MainOp

(* An exited worker takes no step, and a step of another does not touch it. *)
LEMMA LifeInvWorker ==
  ASSUME TypeInv, LifeInv, NEW w \in Threads, Worker(w)
  PROVE  LifeInv'
<1>1. /\ UNCHANGED <<main, cur, freed, destroyed>>
      /\ pc[w] # "exited"
      /\ \A v \in Threads \ {w} : pc'[v] = pc[v]
  BY DEF Worker, CheckRunning, Lock, PopRead, PopAdvance, Unlock, RunJob,
         ReleaseJob, Goes, shared, TypeInv, TypeOK
<1> QED
  BY <1>1 DEF LifeInv, TypeInv, TypeOK

LEMMA LifeInvNext == TypeInv /\ LifeInv /\ [Next]_vars => LifeInv'
<1> SUFFICES ASSUME TypeInv, LifeInv, [Next]_vars
             PROVE  LifeInv'
  OBVIOUS
<1>1. CASE UNCHANGED vars
  BY <1>1 DEF LifeInv, vars, shared
<1> QED
  BY <1>1, LifeInvMain, LifeInvWorker DEF Next

LEMMA LifeInvInvariant == Spec => []LifeInv
  BY LifeInvInit, LifeInvNext, TypeInvInvariant, PTL DEF Spec

(* Thread_destroy frees a Thread only after its worker left Thread_run, and the
   list and the mutex go last of all (thread.c:53-61, thread_pool.c:86-103).   *)
THEOREM NothingFreedInUse == Spec => []NoUseAfterFree
<1>1. TypeInv /\ MutexInv /\ LifeInv => NoUseAfterFree
  <2> SUFFICES ASSUME TypeInv, MutexInv, LifeInv
               PROVE  NoUseAfterFree
    OBVIOUS
  <2>1. ASSUME destroyed
        PROVE  freed = Threads /\ mutex = Nobody
    <3>1. main = "done" /\ freed = Threads
      BY <2>1 DEF LifeInv
    <3>2. ~MainInList /\ \A w \in Threads : ~InList(w)
      BY <3>1 DEF LifeInv, MainInList, InList
    <3> QED
      BY <3>1, <3>2 DEF MutexInv, TypeInv, TypeOK
  <2> QED
    BY <2>1 DEF NoUseAfterFree, LifeInv
<1> QED
  BY <1>1, TypeInvInvariant, MutexInvInvariant, LifeInvInvariant, PTL

-----------------------------------------------------------------------------
(* Jobs *)

(* Between the two halves of a pop the head is still the job that was read. *)
JobInv ==
  /\ JobInOnePlace
  /\ \A w \in Threads : pc[w] = "advance" => jobs # <<>> /\ node[w] = Head(jobs)

LEMMA JobInvInit == Init => JobInv
<1> SUFFICES ASSUME Init
             PROVE  JobInv
  OBVIOUS
<1>1. Listed = {} /\ Executing = {} /\ Finished = {} /\ discarded = {}
  BY DEF Init, Listed, Executing, Finished, Holds
<1>2. 1..added = {} /\ DOMAIN jobs = {}
  BY DEF Init
<1> QED
  BY <1>1, <1>2 DEF JobInv, JobInOnePlace, Init, Holds

(* What is executing depends on the hands of the workers only. *)
LEMMA SameHandsSameExecuting ==
  ASSUME \A w \in Threads : Holds(w)' <=> Holds(w),
         \A w \in Threads : Holds(w) => node'[w] = node[w]
  PROVE  Executing' = Executing
  BY DEF Executing

(* A step that touches neither the list nor a worker's job. *)
LEMMA JobInvFrame ==
  ASSUME JobInv,
         UNCHANGED <<added, jobs, history>>,
         \A w \in Threads : Holds(w)' <=> Holds(w),
         \A w \in Threads : Holds(w) => node'[w] = node[w],
         \A w \in Threads : pc'[w] = "advance" =>
                              pc[w] = "advance" /\ node'[w] = node[w]
  PROVE  JobInv'
<1>1. Executing' = Executing
  BY SameHandsSameExecuting
<1>2. Listed' = Listed /\ Finished' = Finished
  BY DEF Listed, Finished, history
<1> QED
  BY <1>1, <1>2 DEF JobInv, JobInOnePlace, history

LEMMA JobInvAppend ==
  ASSUME TypeInv, MutexInv, JobInv, AddAppend
  PROVE  JobInv'
<1> DEFINE j == added + 1
<1>1. /\ j \in Jobs /\ added \in Nat
      /\ added' = j
      /\ jobs' = Append(jobs, j)
      /\ UNCHANGED <<pc, node, runs, discarded>>
  BY PoolAssumption DEF AddAppend, Appended, TypeInv, TypeOK, Jobs, history
<1>2. /\ DOMAIN jobs' = 1..(Len(jobs) + 1)
      /\ DOMAIN jobs = 1..Len(jobs)
      /\ Len(jobs) \in Nat
      /\ \A i \in 1..Len(jobs) : jobs'[i] = jobs[i]
      /\ jobs'[Len(jobs) + 1] = j
  BY <1>1, AppendFacts DEF TypeInv, TypeOK
<1>3. Listed' = Listed \cup {j}
  BY <1>2 DEF Listed
<1>4. Executing' = Executing /\ Finished' = Finished
  BY <1>1 DEF Executing, Finished, Holds
<1>5. 1..added' = (1..added) \cup {j}
  BY <1>1
<1>6. j \notin Listed \cup Executing \cup Finished \cup discarded
  BY <1>1 DEF JobInv, JobInOnePlace
<1>7. \A i, k \in DOMAIN jobs' : jobs'[i] = jobs'[k] => i = k
  <2> SUFFICES ASSUME NEW i \in DOMAIN jobs', NEW k \in DOMAIN jobs',
                      jobs'[i] = jobs'[k]
               PROVE  i = k
    OBVIOUS
  <2>1. \A n \in 1..Len(jobs) : jobs'[n] \in Listed
    BY <1>2 DEF Listed
  <2> QED
    BY <1>2, <1>6, <2>1 DEF JobInv, JobInOnePlace
<1>8. \A w \in Threads : pc'[w] # "advance"
  BY <1>1, OwnersDistinct DEF AddAppend, MutexInv, MainInList, InList
<1> QED
  BY <1>1, <1>3, <1>4, <1>5, <1>6, <1>7, <1>8 DEF JobInv, JobInOnePlace, Holds

LEMMA JobInvDrain ==
  ASSUME JobInv, MutexInv, Drain
  PROVE  JobInv'
<1>1. Listed' = {} /\ DOMAIN jobs' = {} /\ discarded' = discarded \cup Listed
  BY DEF Drain, Listed
<1>2. Executing' = Executing /\ Finished' = Finished
  BY DEF Drain, Executing, Finished, Holds
<1>3. \A w \in Threads : pc'[w] # "advance"
  BY OwnersDistinct DEF Drain, MutexInv, MainInList, InList
<1> QED
  BY <1>1, <1>2, <1>3 DEF JobInv, JobInOnePlace, Drain, Holds

(* A worker takes the head: it moves from the list into the worker's hands. *)
LEMMA PopTakesHead ==
  ASSUME TypeInv, MutexInv, JobInv, NEW w \in Threads, PopAdvance(w)
  PROVE  /\ jobs # <<>> /\ jobs' = Tail(jobs)
         /\ node[w] = Head(jobs) /\ Head(jobs) \in Listed
         /\ Executing' = Executing \cup {Head(jobs)}
         /\ Listed' = Listed \ {Head(jobs)}
<1>1. jobs # <<>> /\ node[w] = Head(jobs) /\ jobs \in Seq(Jobs)
  BY DEF PopAdvance, JobInv, TypeInv, TypeOK
<1>2. /\ jobs' = Tail(jobs)
      /\ Len(jobs) \in Nat \ {0}
      /\ DOMAIN jobs = 1..Len(jobs)
      /\ DOMAIN Tail(jobs) = 1..(Len(jobs) - 1)
      /\ \A i \in 1..(Len(jobs) - 1) : Tail(jobs)[i] = jobs[i + 1]
      /\ Head(jobs) = jobs[1]
      /\ Head(jobs) \in Jobs
  BY <1>1, RestFacts DEF PopAdvance, Rest
<1>3. Head(jobs) \in Listed
  BY <1>2 DEF Listed
<1>4. Listed' = Listed \ {Head(jobs)}
  <2>1. Listed' \subseteq Listed \ {Head(jobs)}
    BY <1>2 DEF Listed, JobInv, JobInOnePlace
  <2>2. ASSUME NEW i \in DOMAIN jobs, jobs[i] # Head(jobs)
        PROVE  jobs[i] \in Listed'
    <3>1. i - 1 \in 1..(Len(jobs) - 1) /\ (i - 1) + 1 = i
      BY <1>2, <2>2
    <3>2. Tail(jobs)[i - 1] = jobs[i]
      BY <1>2, <3>1
    <3> QED
      BY <1>2, <3>1, <3>2 DEF Listed
  <2> QED
    BY <2>1, <2>2 DEF Listed
<1>5. Executing' = Executing \cup {Head(jobs)}
  <2>1. node' = node /\ pc' = [pc EXCEPT ![w] = "unlock"] /\ pc[w] = "advance"
    BY DEF PopAdvance, Goes
  <2>2. node[w] # NoJob
    BY <1>1, <1>2, OwnersDistinct
  <2>3. Holds(w)' /\ ~Holds(w) /\ \A v \in Threads \ {w} : Holds(v)' <=> Holds(v)
    BY <2>1, <2>2 DEF Holds, TypeInv, TypeOK
  <2> QED
    BY <1>1, <2>1, <2>3 DEF Executing
<1> QED
  BY <1>1, <1>2, <1>3, <1>4, <1>5

LEMMA JobInvPop ==
  ASSUME TypeInv, MutexInv, JobInv, NEW w \in Threads, PopAdvance(w)
  PROVE  JobInv'
<1>1. /\ jobs # <<>> /\ jobs' = Tail(jobs) /\ jobs \in Seq(Jobs)
      /\ node[w] = Head(jobs) /\ Head(jobs) \in Listed
      /\ Executing' = Executing \cup {Head(jobs)}
      /\ Listed' = Listed \ {Head(jobs)}
  BY PopTakesHead DEF TypeInv, TypeOK
<1>2. /\ node' = node /\ pc' = [pc EXCEPT ![w] = "unlock"] /\ pc[w] = "advance"
      /\ UNCHANGED <<added, runs, discarded>>
  BY DEF PopAdvance, Goes, history
<1>3. Finished' = Finished
  BY <1>2 DEF Finished
<1>4. \A i, k \in DOMAIN jobs' : jobs'[i] = jobs'[k] => i = k
  <2>1. \A i, k \in DOMAIN jobs : jobs[i] = jobs[k] => i = k
    BY DEF JobInv, JobInOnePlace
  <2>2. \A i \in DOMAIN jobs' :
          i \in Nat /\ i + 1 \in DOMAIN jobs /\ jobs'[i] = jobs[i + 1]
    BY <1>1, RestFacts
  <2>3. \A i, k \in DOMAIN jobs' : jobs'[i] = jobs'[k] => i + 1 = k + 1
    BY <2>1, <2>2
  <2> QED
    BY <2>2, <2>3
<1>5. \A v \in Threads \ {w} : Holds(v)' <=> Holds(v)
  BY <1>2 DEF Holds, TypeInv, TypeOK
<1>6. \A u, v \in Threads : Holds(u)' /\ Holds(v)' /\ node'[u] = node'[v] => u = v
  <2>1. \A v \in Threads : Holds(v) => node[v] # Head(jobs)
    BY <1>1 DEF Executing, JobInv, JobInOnePlace
  <2> QED
    BY <1>1, <1>2, <1>5, <2>1 DEF JobInv, JobInOnePlace
<1>7. \A v \in Threads : pc'[v] # "advance"
  BY <1>2 DEF MutexInv, InList, TypeInv, TypeOK
<1> QED
  BY <1>1, <1>2, <1>3, <1>4, <1>6, <1>7 DEF JobInv, JobInOnePlace

(* A worker's job has run: it leaves the hands of that worker. *)
LEMMA RunFinishes ==
  ASSUME TypeInv, JobInv, NEW w \in Threads, RunJob(w)
  PROVE  /\ node[w] \in Executing
         /\ Executing' = Executing \ {node[w]}
         /\ Finished' = Finished \cup {node[w]}
<1>1. node[w] \in Jobs /\ pc[w] = "run" /\ node' = node /\ pc' = [pc EXCEPT ![w] = "release"]
  BY DEF RunJob, TypeInv, Goes
<1>2. Holds(w) /\ ~Holds(w)' /\ \A v \in Threads \ {w} : Holds(v)' <=> Holds(v)
  BY <1>1, OwnersDistinct DEF Holds, TypeInv, TypeOK
<1>3. node[w] \in Executing /\ Executing' = Executing \ {node[w]}
  BY <1>1, <1>2 DEF Executing, JobInv, JobInOnePlace
<1>4. \A j \in Jobs : runs'[j] = IF j = node[w] THEN runs[j] + 1 ELSE runs[j]
  BY <1>1 DEF RunJob, TypeInv, TypeOK
<1>5. Finished' = Finished \cup {node[w]}
  BY <1>1, <1>4 DEF Finished, TypeInv, TypeOK
<1> QED
  BY <1>3, <1>5

LEMMA JobInvRun ==
  ASSUME TypeInv, JobInv, NEW w \in Threads, RunJob(w)
  PROVE  JobInv'
<1>1. /\ node[w] \in Executing
      /\ Executing' = Executing \ {node[w]}
      /\ Finished' = Finished \cup {node[w]}
  BY RunFinishes
<1>2. /\ node' = node /\ pc' = [pc EXCEPT ![w] = "release"]
      /\ UNCHANGED <<added, jobs, discarded>>
      /\ node[w] \in Jobs
  BY DEF RunJob, Goes, shared, TypeInv
<1>3. Listed' = Listed
  BY <1>2 DEF Listed
<1>4. \A v \in Threads : Holds(v)' => Holds(v)
  BY <1>2 DEF Holds, TypeInv, TypeOK
<1>5. \A j \in Jobs : runs'[j] <= 1
  <2>1. runs[node[w]] = 0
    BY <1>1, <1>2 DEF JobInv, JobInOnePlace, Finished, TypeInv, TypeOK
  <2> QED
    BY <2>1, <1>2 DEF RunJob, JobInv, JobInOnePlace, TypeInv, TypeOK
<1>6. \A v \in Threads : pc'[v] = "advance" => pc[v] = "advance"
  BY <1>2 DEF TypeInv, TypeOK
<1> QED
  BY <1>1, <1>2, <1>3, <1>4, <1>5, <1>6 DEF JobInv, JobInOnePlace

LEMMA JobInvWorker ==
  ASSUME TypeInv, MutexInv, JobInv, NEW w \in Threads, Worker(w)
  PROVE  JobInv'
<1>1. CASE CheckRunning(w) \/ Lock(w) \/ Unlock(w) \/ ReleaseJob(w)
  <2>1. /\ UNCHANGED <<added, jobs, history>>
        /\ \A v \in Threads : v # w => pc'[v] = pc[v] /\ node'[v] = node[v]
    BY <1>1 DEF CheckRunning, Lock, Unlock, ReleaseJob, Goes, shared, TypeInv, TypeOK
  <2>2. Holds(w)' <=> Holds(w)
    BY <1>1 DEF CheckRunning, Lock, Unlock, ReleaseJob, Goes, AfterPop, Holds, TypeInv, TypeOK
  <2>3. Holds(w) => node'[w] = node[w]
    BY <1>1 DEF CheckRunning, Lock, Unlock, ReleaseJob, Holds
  <2>4. pc'[w] # "advance"
    BY <1>1 DEF CheckRunning, Lock, Unlock, ReleaseJob, Goes, AfterPop, TypeInv, TypeOK
  <2>5. \A v \in Threads : Holds(v)' <=> Holds(v)
    BY <2>1, <2>2 DEF Holds
  <2> QED
    BY <2>1, <2>3, <2>4, <2>5, JobInvFrame
<1>2. CASE PopRead(w)
  <2>1. /\ UNCHANGED <<added, jobs, history>>
        /\ \A v \in Threads : v # w => pc'[v] = pc[v] /\ node'[v] = node[v]
    BY <1>2 DEF PopRead, Goes, shared, TypeInv, TypeOK
  <2>2. ~Holds(w) /\ ~Holds(w)'
    BY <1>2 DEF PopRead, Goes, Holds, TypeInv, TypeOK
  <2>3. \A v \in Threads : Holds(v)' <=> Holds(v)
    BY <2>1, <2>2 DEF Holds
  <2>4. Executing' = Executing
    BY <2>1, <2>2, <2>3, SameHandsSameExecuting
  <2>5. Listed' = Listed /\ Finished' = Finished
    BY <2>1 DEF Listed, Finished, history
  <2>6. JobInOnePlace'
    BY <2>1, <2>2, <2>3, <2>4, <2>5 DEF JobInv, JobInOnePlace, history
  <2>7. pc'[w] = "advance" => jobs # <<>> /\ node'[w] = Head(jobs)
    BY <1>2 DEF PopRead, Goes, TypeInv, TypeOK
  <2> QED
    BY <2>1, <2>6, <2>7 DEF JobInv
<1> QED
  BY <1>1, <1>2, JobInvPop, JobInvRun DEF Worker

LEMMA JobInvMain ==
  ASSUME TypeInv, MutexInv, JobInv, MainStep
  PROVE  JobInv'
<1>1. CASE Spawn
  <2>1. /\ UNCHANGED <<added, jobs, history, node>>
        /\ pc' = [pc EXCEPT ![cur] = "check"] /\ pc[cur] = "unborn"
    BY <1>1, PoolAssumption DEF Spawn, Goes, shared, MutexInv, TypeInv, TypeOK, Threads
  <2>2. \A v \in Threads : Holds(v)' <=> Holds(v)
    BY <2>1 DEF Holds, TypeInv, TypeOK
  <2>3. \A v \in Threads : pc'[v] = "advance" => pc[v] = "advance"
    BY <2>1 DEF TypeInv, TypeOK
  <2> QED
    BY <2>1, <2>2, <2>3, JobInvFrame
<1>2. CASE AddLock \/ AddUnlock \/ BeginDestroy \/ StopThread \/ SpinEnds
           \/ FreeThread \/ DrainLock \/ DrainUnlock \/ FreePool
  <2>1. UNCHANGED <<added, jobs, history, node, pc>>
    BY <1>2 DEF AddLock, AddUnlock, BeginDestroy, StopThread, SpinEnds,
                FreeThread, DrainLock, DrainUnlock, FreePool, shared
  <2>2. \A v \in Threads : Holds(v)' <=> Holds(v)
    BY <2>1 DEF Holds
  <2> QED
    BY <2>1, <2>2, JobInvFrame
<1> QED
  BY <1>1, <1>2, JobInvAppend, JobInvDrain DEF MainStep, MainOp

LEMMA JobInvNext == TypeInv /\ MutexInv /\ JobInv /\ [Next]_vars => JobInv'
<1> SUFFICES ASSUME TypeInv, MutexInv, JobInv, [Next]_vars
             PROVE  JobInv'
  OBVIOUS
<1>1. CASE UNCHANGED vars
  <2>1. UNCHANGED <<added, jobs, history, node, pc>>
    BY <1>1 DEF vars, shared
  <2>2. \A v \in Threads : Holds(v)' <=> Holds(v)
    BY <2>1 DEF Holds
  <2> QED
    BY <2>1, <2>2, JobInvFrame
<1> QED
  BY <1>1, JobInvMain, JobInvWorker DEF Next

LEMMA JobInvInvariant == Spec => []JobInv
  BY JobInvInit, JobInvNext, TypeInvInvariant, MutexInvInvariant, PTL DEF Spec

(* No job is lost, none is run twice, none is both run and thrown away
   (thread.c:77-89, thread_pool.c:88-98, 114-116).                     *)
THEOREM EveryJobInOnePlace == Spec => []JobInOnePlace
<1>1. JobInv => JobInOnePlace
  BY DEF JobInv
<1> QED
  BY <1>1, JobInvInvariant, PTL

-----------------------------------------------------------------------------
(* Refinement *)

LEMMA InitRefines == Init => JP!JobInit
<1> SUFFICES ASSUME Init
             PROVE  JP!JobInit
  OBVIOUS
<1>1. Executing = {} /\ Finished = {}
  BY DEF Init, Executing, Finished, Holds
<1> QED
  BY <1>1 DEF Init, JP!JobInit, Accepting

(* A step that changes nothing a caller of the pool can see. *)
LEMMA StutterRefines ==
  ASSUME UNCHANGED <<jobs, history>>, Accepting' = Accepting,
         \A w \in Threads : Holds(w)' <=> Holds(w),
         \A w \in Threads : Holds(w) => node'[w] = node[w]
  PROVE  UNCHANGED JP!jobvars
<1>1. Executing' = Executing
  BY SameHandsSameExecuting
<1>2. Finished' = Finished /\ discarded' = discarded
  BY DEF Finished, history
<1> QED
  BY <1>1, <1>2 DEF JP!jobvars

(* Once the destruction drains the list no worker holds a job. *)
LEMMA DrainFindsNoneExecuting ==
  ASSUME LifeInv, main = "drain"
  PROVE  Executing = {}
  BY DEF LifeInv, Executing, Holds

LEMMA MainRefines ==
  ASSUME TypeInv, MutexInv, LifeInv, JobInv, MainStep
  PROVE  JP!JobNext \/ UNCHANGED JP!jobvars
<1>1. CASE Spawn
  <2>1. UNCHANGED <<jobs, history, node>> /\ Accepting' = Accepting
    BY <1>1 DEF Spawn, shared, Accepting
  <2>2. pc' = [pc EXCEPT ![cur] = "check"] /\ pc[cur] = "unborn"
    BY <1>1, PoolAssumption DEF Spawn, Goes, MutexInv, TypeInv, TypeOK, Threads
  <2>3. \A v \in Threads : Holds(v)' <=> Holds(v)
    BY <2>1, <2>2 DEF Holds, TypeInv, TypeOK
  <2> QED
    BY <2>1, <2>3, StutterRefines
<1>2. CASE AddAppend
  <2> DEFINE j == added + 1
  <2>1. /\ j \in Jobs
        /\ jobs' = Append(jobs, j)
        /\ UNCHANGED <<pc, node, runs, discarded>>
        /\ Accepting /\ Accepting'
    BY <1>2, PoolAssumption DEF AddAppend, Appended, TypeInv, TypeOK, Jobs, history, Accepting
  <2>2. j \notin Listed \cup Executing \cup Finished \cup discarded
    BY <2>1 DEF JobInv, JobInOnePlace, TypeInv, TypeOK
  <2>3. Executing' = Executing /\ Finished' = Finished
    BY <2>1 DEF Executing, Finished, Holds
  <2>4. JP!Submit(j)
    BY <2>1, <2>2, <2>3 DEF JP!Submit, JP!Queued, Listed
  <2> QED
    BY <2>1, <2>4 DEF JP!JobNext
<1>3. CASE BeginDestroy
  <2>1. UNCHANGED <<jobs, history, node, pc>> /\ Accepting /\ ~Accepting'
    BY <1>3 DEF BeginDestroy, shared, Accepting
  <2>2. Executing' = Executing /\ Finished' = Finished /\ discarded' = discarded
    BY <2>1 DEF Executing, Finished, Holds, history
  <2>3. JP!Close
    BY <2>1, <2>2 DEF JP!Close
  <2> QED
    BY <2>3 DEF JP!JobNext
<1>4. CASE Drain
  <2>1. Executing = {} /\ ~Accepting /\ Accepting' = Accepting
    BY <1>4, DrainFindsNoneExecuting DEF Drain, Accepting
  <2>2. Executing' = Executing /\ Finished' = Finished
    BY <1>4 DEF Drain, Executing, Finished, Holds
  <2>3. discarded' = discarded \cup JP!Queued /\ jobs' = <<>>
    BY <1>4 DEF Drain, JP!Queued
  <2>4. JP!Discard
    BY <2>1, <2>2, <2>3 DEF JP!Discard
  <2> QED
    BY <2>4 DEF JP!JobNext
<1>5. CASE AddLock \/ AddUnlock \/ StopThread \/ SpinEnds \/ FreeThread
           \/ DrainLock \/ DrainUnlock \/ FreePool
  <2>1. UNCHANGED <<jobs, history, node, pc>> /\ Accepting' = Accepting
    BY <1>5 DEF AddLock, AddUnlock, StopThread, SpinEnds, FreeThread, DrainLock,
                DrainUnlock, FreePool, shared, Accepting
  <2>2. \A v \in Threads : Holds(v)' <=> Holds(v)
    BY <2>1 DEF Holds
  <2> QED
    BY <2>1, <2>2, StutterRefines
<1> QED
  BY <1>1, <1>2, <1>3, <1>4, <1>5 DEF MainStep, MainOp

LEMMA WorkerRefines ==
  ASSUME TypeInv, MutexInv, LifeInv, JobInv, NEW w \in Threads, Worker(w)
  PROVE  JP!JobNext \/ UNCHANGED JP!jobvars
<1>1. CASE PopAdvance(w)
  <2>1. /\ jobs # <<>> /\ jobs' = Tail(jobs)
        /\ Executing' = Executing \cup {Head(jobs)}
    BY <1>1, PopTakesHead
  <2>2. Finished' = Finished /\ discarded' = discarded /\ Accepting' = Accepting
    BY <1>1 DEF PopAdvance, Finished, history, Accepting
  <2>3. JP!StartJob
    BY <2>1, <2>2 DEF JP!StartJob
  <2> QED
    BY <2>3 DEF JP!JobNext
<1>2. CASE RunJob(w)
  <2>1. /\ node[w] \in Executing /\ node[w] \in Jobs
        /\ Executing' = Executing \ {node[w]}
        /\ Finished' = Finished \cup {node[w]}
    BY <1>2, RunFinishes DEF RunJob, TypeInv
  <2>2. jobs' = jobs /\ discarded' = discarded /\ Accepting' = Accepting
    BY <1>2 DEF RunJob, shared, Accepting
  <2>3. JP!FinishJob(node[w])
    BY <2>1, <2>2 DEF JP!FinishJob
  <2> QED
    BY <2>1, <2>3 DEF JP!JobNext
<1>3. CASE CheckRunning(w) \/ Lock(w) \/ PopRead(w) \/ Unlock(w) \/ ReleaseJob(w)
  <2>1. /\ UNCHANGED <<jobs, history>> /\ Accepting' = Accepting
        /\ \A v \in Threads : v # w => pc'[v] = pc[v] /\ node'[v] = node[v]
    BY <1>3 DEF CheckRunning, Lock, PopRead, Unlock, ReleaseJob, Goes, shared,
                Accepting, TypeInv, TypeOK
  <2>2. Holds(w)' <=> Holds(w)
    BY <1>3 DEF CheckRunning, Lock, PopRead, Unlock, ReleaseJob, Goes, AfterPop,
                Holds, TypeInv, TypeOK
  <2>3. Holds(w) => node'[w] = node[w]
    BY <1>3 DEF CheckRunning, Lock, PopRead, Unlock, ReleaseJob, Holds
  <2>4. \A v \in Threads : Holds(v)' <=> Holds(v)
    BY <2>1, <2>2 DEF Holds
  <2> QED
    BY <2>1, <2>3, <2>4, StutterRefines
<1> QED
  BY <1>1, <1>2, <1>3 DEF Worker

LEMMA NextRefines ==
  TypeInv /\ MutexInv /\ LifeInv /\ JobInv /\ [Next]_vars => [JP!JobNext]_(JP!jobvars)
<1> SUFFICES ASSUME TypeInv, MutexInv, LifeInv, JobInv, [Next]_vars
             PROVE  JP!JobNext \/ UNCHANGED JP!jobvars
  OBVIOUS
<1>1. CASE UNCHANGED vars
  <2>1. UNCHANGED <<jobs, history, node, pc>> /\ Accepting' = Accepting
    BY <1>1 DEF vars, shared, Accepting
  <2>2. \A v \in Threads : Holds(v)' <=> Holds(v)
    BY <2>1 DEF Holds
  <2> QED
    BY <2>1, <2>2, StutterRefines
<1> QED
  BY <1>1, MainRefines, WorkerRefines DEF Next

(* The pool keeps the promise of JobPool: first in, first started, each job at
   most once, none discarded before the pool is closed and quiet.             *)
THEOREM PoolRefinesJobPool == Spec => ImplementsJobPool
  BY InitRefines, NextRefines, TypeInvInvariant, MutexInvInvariant,
     LifeInvInvariant, JobInvInvariant, PTL
  DEF Spec, ImplementsJobPool, JP!JobSpec
=============================================================================
