------------------------------ MODULE JobPool ------------------------------
(***************************************************************************)
(* What a caller of the thread pool may rely on, without threads, mutexes  *)
(* or lists: jobs are started in the order they were submitted, each at    *)
(* most once; none disappears; and what is still queued is thrown away     *)
(* only when the pool has been closed and no job is running any more.      *)
(***************************************************************************)
EXTENDS Naturals, Sequences, FiniteSets

CONSTANT Jobs  \* the jobs a caller may submit

VARIABLES
  accepting,  \* the pool has not been told to shut down
  queue,      \* submitted and not yet started
  executing,  \* started and not yet finished
  finished,   \* ran to their end
  discarded   \* thrown away unstarted

jobvars == <<accepting, queue, executing, finished, discarded>>

Queued == {queue[i] : i \in DOMAIN queue}

JobInit ==
  /\ accepting = TRUE
  /\ queue = <<>>
  /\ executing = {}
  /\ finished = {}
  /\ discarded = {}

Submit(j) ==
  /\ accepting
  /\ j \notin Queued \cup executing \cup finished \cup discarded
  /\ queue' = Append(queue, j)
  /\ UNCHANGED <<accepting, executing, finished, discarded>>

StartJob ==
  /\ queue # <<>>
  /\ queue' = Tail(queue)
  /\ executing' = executing \cup {Head(queue)}
  /\ UNCHANGED <<accepting, finished, discarded>>

FinishJob(j) ==
  /\ j \in executing
  /\ executing' = executing \ {j}
  /\ finished' = finished \cup {j}
  /\ UNCHANGED <<accepting, queue, discarded>>

Close ==
  /\ accepting
  /\ accepting' = FALSE
  /\ UNCHANGED <<queue, executing, finished, discarded>>

Discard ==
  /\ ~accepting
  /\ executing = {}
  /\ queue' = <<>>
  /\ discarded' = discarded \cup Queued
  /\ UNCHANGED <<accepting, executing, finished>>

JobNext ==
  \/ \E j \in Jobs : Submit(j) \/ FinishJob(j)
  \/ StartJob \/ Close \/ Discard

JobSpec == JobInit /\ [][JobNext]_jobvars
=============================================================================
