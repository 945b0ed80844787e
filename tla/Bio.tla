-------------------------------- MODULE Bio --------------------------------
(***************************************************************************)
(* The background jobs of bio.c, with the lazy freeing of lazyfree.c that  *)
(* rides on them: for every type of job one thread, one FIFO, one mutex    *)
(* and two condition variables; the main thread is the only producer.     *)
(*                                                                         *)
(* What a job does is abstracted to the fact that it was done              *)
(* (`processed`) and, for BIO_LAZY_FREE, to the number of objects that     *)
(* lazyfree_objects must lose.  Mutexes and condition variables are        *)
(* explicit: pthread_cond_wait releases the mutex, sleeps, is woken by a   *)
(* signal, a broadcast or spuriously, and must take the mutex again.       *)
(***************************************************************************)
EXTENDS Integers, Sequences, FiniteSetsExt

CONSTANTS Types,     \* the job types, BIO_NUM_OPS of them
          LazyFree,  \* BIO_LAZY_FREE, the type whose jobs carry objects
          MaxJobs,   \* bound: jobs submitted
          MaxObjs,   \* bound: objects a flushed dictionary or slot map holds
          SizeMod    \* 2^w, size_t is w bits wide

ASSUME BioAssumption ==
    /\ LazyFree \in Types
    /\ MaxJobs \in Nat /\ MaxObjs \in Nat \ {0}
    /\ SizeMod \in Nat /\ SizeMod > MaxObjs

VARIABLES
    mutex,            \* who holds bio_mutex[t]: "none", "main" or "bio"
    bio_jobs,         \* the FIFO of jobs
    bio_pending,      \* the counter of jobs not yet completed
    wpc,              \* where the thread of a type is
    job,              \* the job its thread took from the FIFO
    mpc,              \* where the main thread is
    marg,             \* the type and job of the call the main thread is in
    lazyfree_objects, \* objects handed to the lazy free thread and not freed
    submitted,        \* history: number of jobs created
    processed         \* history: the jobs executed, in order

vars == <<mutex, bio_jobs, bio_pending, wpc, job, mpc, marg,
          lazyfree_objects, submitted, processed>>
mainVars == <<mpc, marg, submitted>>

\* struct bio_job: `kind` says which of arg1, arg2 and arg3 are set.
Kinds == {"object", "db", "slots", "fd"}
Job == [id : Nat \ {0}, kind : Kinds, objs : 0 .. MaxObjs]
NoJob == [id |-> 0, kind |-> "fd", objs |-> 0]
NoCall == [type |-> LazyFree, job |-> NoJob]

Init ==  \* bioInit
    /\ mutex = [t \in Types |-> "none"]
    /\ bio_jobs = [t \in Types |-> <<>>]
    /\ bio_pending = [t \in Types |-> 0]
    /\ wpc = [t \in Types |-> "start"]
    /\ job = [t \in Types |-> NoJob]
    /\ mpc = "idle"
    /\ marg = NoCall
    /\ lazyfree_objects = 0
    /\ submitted = [t \in Types |-> 0]
    /\ processed = [t \in Types |-> <<>>]

-----------------------------------------------------------------------------
(* The main thread: the calls that create a job.                           *)

AnnounceOne(kind, objs) == lazyfree_objects' = (lazyfree_objects + 1) % SizeMod

\* What the caller adds to lazyfree_objects before bioCreateBackgroundJob.
Announce(kind, objs) ==
    lazyfree_objects' = (lazyfree_objects + objs) % SizeMod

JobsCreated == MapThenSumSet(LAMBDA u : submitted[u], Types)

Submit(t, kind, objs) ==
    /\ mpc = "idle" /\ JobsCreated < MaxJobs
    /\ Announce(kind, objs)
    /\ submitted' = [submitted EXCEPT ![t] = @ + 1]
    /\ marg' = [type |-> t, job |-> [id |-> submitted[t] + 1,
                                     kind |-> kind, objs |-> objs]]
    /\ mpc' = "create"
    /\ UNCHANGED <<mutex, bio_jobs, bio_pending, wpc, job, processed>>

\* dbAsyncDelete and freeObjAsync, when the value is worth a background free
\* (effort above LAZYFREE_THRESHOLD, refcount 1); otherwise they free it at
\* once and create no job.
FreeObjAsync == Submit(LazyFree, "object", 1)
EmptyDbAsync == \E n \in 0 .. MaxObjs : Submit(LazyFree, "db", n)
SlotToKeyFlushAsync == \E n \in 0 .. MaxObjs : Submit(LazyFree, "slots", n)

\* aof_background_fsync, and the close of the AOF replaced by a rewrite.
FileJob == \E t \in Types \ {LazyFree} : Submit(t, "fd", 0)

\* bioCreateBackgroundJob: pthread_mutex_lock ...
CreateLock ==
    /\ mpc = "create" /\ mutex[marg.type] = "none"
    /\ mutex' = [mutex EXCEPT ![marg.type] = "main"]
    /\ mpc' = "enqueue"
    /\ UNCHANGED <<bio_jobs, bio_pending, wpc, job, marg, lazyfree_objects,
                   submitted, processed>>

SignalNothing(t) == UNCHANGED wpc

\* pthread_cond_signal: the one thread that may sleep on bio_newjob_cond.
SignalNewJob(t) ==
    wpc' = IF wpc[t] = "asleep" THEN [wpc EXCEPT ![t] = "woken"] ELSE wpc

\* The bug of queueing at the head of the list.
QueueAtHead(jobs, j) == <<j>> \o jobs

\* listAddNodeTail.
Queue(jobs, j) == Append(jobs, j)

\* ... append, count, signal, unlock.
CreateEnqueue ==
    LET t == marg.type IN
    /\ mpc = "enqueue"
    /\ bio_jobs' = [bio_jobs EXCEPT ![t] = Queue(@, marg.job)]
    /\ bio_pending' = [bio_pending EXCEPT ![t] = @ + 1]
    /\ SignalNewJob(t)
    /\ mutex' = [mutex EXCEPT ![t] = "none"]
    /\ mpc' = "idle" /\ marg' = NoCall
    /\ UNCHANGED <<job, lazyfree_objects, submitted, processed>>

-----------------------------------------------------------------------------
(* The main thread: waiting for the background threads.                    *)

\* freeMemoryIfNeeded gives up evicting and polls bioPendingJobsOfType.
WaitLazyFree ==
    /\ mpc = "idle"
    /\ mpc' = "poll"
    /\ UNCHANGED <<mutex, bio_jobs, bio_pending, wpc, job, marg,
                   lazyfree_objects, submitted, processed>>

\* One iteration of that loop: it leaves when nothing is pending or when
\* enough memory came back, and sleeps a millisecond otherwise.
Poll ==
    /\ mpc = "poll" /\ mutex[LazyFree] = "none"
    /\ \/ bio_pending[LazyFree] = 0 /\ mpc' = "idle"
       \/ bio_pending[LazyFree] # 0 /\ mpc' \in {"idle", "poll"}
    /\ UNCHANGED <<mutex, bio_jobs, bio_pending, wpc, job, marg,
                   lazyfree_objects, submitted, processed>>

\* bioWaitStepOfType: sleep on bio_step_cond when something is pending.
WaitStep(t) ==
    /\ mpc = "idle" /\ mutex[t] = "none"
    /\ bio_pending[t] # 0
    /\ mpc' = "asleep"
    /\ marg' = [marg EXCEPT !.type = t]
    /\ UNCHANGED <<mutex, bio_jobs, bio_pending, wpc, job, lazyfree_objects,
                   submitted, processed>>

\* pthread_cond_wait may return though nobody signalled.
StepSpuriousWakeup ==
    /\ mpc = "asleep"
    /\ mpc' = "woken"
    /\ UNCHANGED <<mutex, bio_jobs, bio_pending, wpc, job, marg,
                   lazyfree_objects, submitted, processed>>

\* The wait returns: lock, read bio_pending, unlock, return it.
StepReturn ==
    /\ mpc = "woken" /\ mutex[marg.type] = "none"
    /\ mpc' = "idle" /\ marg' = NoCall
    /\ UNCHANGED <<mutex, bio_jobs, bio_pending, wpc, job,
                   lazyfree_objects, submitted, processed>>

-----------------------------------------------------------------------------
(* bioProcessBackgroundJobs, the thread of type t.                         *)

\* pthread_mutex_lock at the start, and inside pthread_cond_wait on wake-up.
WorkerLock(t) ==
    /\ wpc[t] \in {"start", "woken"} /\ mutex[t] = "none"
    /\ mutex' = [mutex EXCEPT ![t] = "bio"]
    /\ wpc' = [wpc EXCEPT ![t] = "loop"]
    /\ UNCHANGED <<mainVars, bio_jobs, bio_pending, job, lazyfree_objects,
                   processed>>

\* No job: pthread_cond_wait on bio_newjob_cond.
WorkerSleep(t) ==
    /\ wpc[t] = "loop" /\ bio_jobs[t] = <<>>
    /\ mutex' = [mutex EXCEPT ![t] = "none"]
    /\ wpc' = [wpc EXCEPT ![t] = "asleep"]
    /\ UNCHANGED <<mainVars, bio_jobs, bio_pending, job, lazyfree_objects,
                   processed>>

WorkerSpuriousWakeup(t) ==
    /\ wpc[t] = "asleep"
    /\ wpc' = [wpc EXCEPT ![t] = "woken"]
    /\ UNCHANGED <<mainVars, mutex, bio_jobs, bio_pending, job,
                   lazyfree_objects, processed>>

\* The bug of counting the job as done when it is taken, not when it is done.
WorkerTakeAndCount(t) ==
    /\ wpc[t] = "loop" /\ bio_jobs[t] # <<>>
    /\ job' = [job EXCEPT ![t] = Head(bio_jobs[t])]
    /\ bio_pending' = [bio_pending EXCEPT ![t] = @ - 1]
    /\ mutex' = [mutex EXCEPT ![t] = "none"]
    /\ wpc' = [wpc EXCEPT ![t] = "process"]
    /\ UNCHANGED <<mainVars, bio_jobs, lazyfree_objects, processed>>

\* Take the first job, leave it in the list, unlock.
WorkerTake(t) ==
    /\ wpc[t] = "loop" /\ bio_jobs[t] # <<>>
    /\ job' = [job EXCEPT ![t] = Head(bio_jobs[t])]
    /\ mutex' = [mutex EXCEPT ![t] = "none"]
    /\ wpc' = [wpc EXCEPT ![t] = "process"]
    /\ UNCHANGED <<mainVars, bio_jobs, bio_pending, lazyfree_objects, processed>>

\* close, redis_fsync, or the release of the object, database or slot map.
WorkerProcess(t) ==
    /\ wpc[t] = "process"
    /\ processed' = [processed EXCEPT ![t] = Append(@, job[t].id)]
    /\ wpc' = [wpc EXCEPT ![t] = IF t = LazyFree THEN "uncount" ELSE "relock"]
    /\ UNCHANGED <<mainVars, mutex, bio_jobs, bio_pending, job,
                   lazyfree_objects>>

\* The objects a job accounts for: lazyfreeFreeObjectFromBioThread takes 1,
\* ...FreeDatabase... the size of the main dictionary, ...FreeSlotsMap... the
\* number of elements of the radix tree.
JobObjs(j) == IF j.kind = "object" THEN 1 ELSE j.objs

WorkerUncount(t) ==
    /\ wpc[t] = "uncount"
    /\ lazyfree_objects' = (lazyfree_objects - JobObjs(job[t])) % SizeMod
    /\ wpc' = [wpc EXCEPT ![t] = "relock"]
    /\ UNCHANGED <<mainVars, mutex, bio_jobs, bio_pending, job, processed>>

\* listDelNode of the node taken before.
DeleteNode(t) ==
    LET q == bio_jobs[t]
        at == CHOOSE i \in 1 .. Len(q) : q[i].id = job[t].id
    IN  SubSeq(q, 1, at - 1) \o SubSeq(q, at + 1, Len(q))

CountDown(t) == bio_pending[t] - 1

\* Lock, remove the node, count down, broadcast bio_step_cond, loop.
WorkerDone(t) ==
    /\ wpc[t] = "relock" /\ mutex[t] = "none"
    /\ mutex' = [mutex EXCEPT ![t] = "bio"]
    /\ bio_jobs' = [bio_jobs EXCEPT ![t] = DeleteNode(t)]
    /\ bio_pending' = [bio_pending EXCEPT ![t] = CountDown(t)]
    /\ mpc' = IF mpc = "asleep" /\ marg.type = t THEN "woken" ELSE mpc
    /\ wpc' = [wpc EXCEPT ![t] = "loop"]
    /\ job' = [job EXCEPT ![t] = NoJob]
    /\ UNCHANGED <<marg, lazyfree_objects, submitted, processed>>

-----------------------------------------------------------------------------
MainStep == \/ CreateLock \/ CreateEnqueue \/ Poll
            \/ StepReturn
MainCall == \/ FreeObjAsync \/ EmptyDbAsync \/ SlotToKeyFlushAsync \/ FileJob
            \/ WaitLazyFree \/ \E t \in Types : WaitStep(t)
Spurious == StepSpuriousWakeup \/ \E t \in Types : WorkerSpuriousWakeup(t)
WorkerStep(t) == \/ WorkerSleep(t) \/ WorkerTake(t)
                 \/ WorkerProcess(t) \/ WorkerUncount(t)

Next == \/ MainStep \/ MainCall \/ Spurious
        \/ \E t \in Types : WorkerStep(t) \/ WorkerLock(t) \/ WorkerDone(t)

\* The operating system schedules every thread, and a thread that keeps
\* asking for a mutex that keeps being released gets it (SF).  Nothing makes
\* the main thread call, memory come back, or a wake-up be spurious.
Fairness ==
    /\ WF_vars(CreateEnqueue) /\ SF_vars(CreateLock)
    /\ SF_vars(Poll /\ bio_pending[LazyFree] = 0)
    /\ SF_vars(StepReturn)
    /\ \A t \in Types : /\ WF_vars(WorkerStep(t))
                        /\ SF_vars(WorkerLock(t)) /\ SF_vars(WorkerDone(t))

Spec == Init /\ [][Next]_vars /\ Fairness

-----------------------------------------------------------------------------
TypeOK ==
    /\ mutex \in [Types -> {"none", "main", "bio"}]
    /\ bio_jobs \in [Types -> Seq(Job)]
    /\ bio_pending \in [Types -> Nat]
    /\ wpc \in [Types -> {"start", "loop", "asleep", "woken", "process",
                          "uncount", "relock"}]
    /\ job \in [Types -> Job \cup {NoJob}]
    /\ mpc \in {"idle", "create", "enqueue", "poll", "asleep", "woken"}
    /\ marg \in [type : Types, job : Job \cup {NoJob}]
    /\ lazyfree_objects \in 0 .. SizeMod - 1
    /\ submitted \in [Types -> Nat]
    /\ processed \in [Types -> Seq(Nat)]

\* Jobs of type t the main thread has put in the FIFO so far.
Enqueued(t) == IF mpc \in {"create", "enqueue"} /\ marg.type = t
                 THEN submitted[t] - 1 ELSE submitted[t]

\* aofFsyncInProgress and the eviction loop read bio_pending = 0 as "no job of
\* this type is queued or running": whenever the main thread can read the
\* counter, zero means that every job created has been executed.
PendingZeroMeansDone ==
    \A t \in Types : mutex[t] # "bio" /\ bio_pending[t] = 0 =>
        Len(processed[t]) = Enqueued(t)

\* Every job is executed once, in the order of creation: the thread works on
\* the head of the list without the lock, and deletes the node it took.
ExactlyOnceInOrder ==
    \A t \in Types : /\ \A i \in DOMAIN processed[t] : processed[t][i] = i
                     /\ Len(processed[t]) <= Enqueued(t)

\* The objects of the jobs in list q.
Objs(q) ==
    LET sum[i \in 0 .. Len(q)] == IF i = 0 THEN 0 ELSE sum[i - 1] + JobObjs(q[i])
    IN  sum[Len(q)]

\* The objects of the job still in the list whose release has been counted, and
\* those announced for a job that is not yet in the list.
Counted == IF wpc[LazyFree] = "relock" THEN JobObjs(job[LazyFree]) ELSE 0
Creating == IF mpc \in {"create", "enqueue"} /\ marg.type = LazyFree
              THEN JobObjs(marg.job) ELSE 0

\* The objects announced whose release has not been counted yet.
Outstanding == (Objs(bio_jobs[LazyFree]) - Counted) + Creating

\* lazyfree_objects (INFO's lazyfree_pending_objects) is exactly the number of
\* objects still to free: the thread never takes it below zero, where the
\* unsigned counter would wrap, however early the job runs.
LazyfreeCounterExact == lazyfree_objects = Outstanding % SizeMod

\* No lost wake-up: a job put in the FIFO is executed.
EveryJobProcessed ==
    \A t \in Types : \A n \in 1 .. MaxJobs :
        (Enqueued(t) >= n) ~> (Len(processed[t]) >= n)

\* The wait of freeMemoryIfNeeded for the lazy free thread ends.
PollTerminates == (mpc = "poll") ~> (mpc = "idle")

=============================================================================
