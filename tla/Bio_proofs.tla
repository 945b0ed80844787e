----------------------------- MODULE Bio_proofs -----------------------------
(***************************************************************************)
(* Proofs about Bio, for every set of job types, any number of jobs and    *)
(* any width of the counter.  The invariants the runs check speak of what  *)
(* was executed; the inductive one says where each job created is: the     *)
(* list of a type holds exactly the jobs after the last one deleted, in    *)
(* order, and the job a thread works on without the lock is still its head.*)
(* The counter of objects to free is then the sum over those jobs, with    *)
(* what the main thread has announced and not queued yet, and without what *)
(* the thread has taken off and not deleted yet, modulo its width.         *)
(***************************************************************************)
EXTENDS Bio, SequenceTheorems, TLAPS

USE SMTT(20), ZenonT(30)

\* The thread of type t is working on a job, which is still in the list.
Taken(t) == wpc[t] \in {"process", "uncount", "relock"}

\* The jobs executed and deleted from the list.
Finished(t) == IF wpc[t] \in {"uncount", "relock"} THEN Len(processed[t]) - 1
               ELSE Len(processed[t])

QueueInv(t) ==
    /\ \A i \in 1 .. Len(processed[t]) : processed[t][i] = i
    /\ Len(bio_jobs[t]) + Finished(t) = Enqueued(t)
    /\ \A i \in 1 .. Len(bio_jobs[t]) : bio_jobs[t][i].id = Finished(t) + i
    /\ bio_pending[t] = Len(bio_jobs[t])
    /\ Taken(t) => bio_jobs[t] # <<>> /\ job[t] = bio_jobs[t][1]

LockInv(t) ==
    /\ mutex[t] = "bio" <=> wpc[t] = "loop"
    /\ mutex[t] = "main" <=> mpc = "enqueue" /\ marg.type = t

CallInv == mpc \in {"create", "enqueue"} =>
               marg.job \in Job /\ marg.job.id = submitted[marg.type]

IInv == TypeOK /\ CallInv /\ \A t \in Types : QueueInv(t) /\ LockInv(t)

-----------------------------------------------------------------------------
\* The counter stays a size_t.
LEMMA SizeT == ASSUME NEW n \in Int PROVE n % SizeMod \in 0 .. SizeMod - 1
BY BioAssumption

\* The invariant holds after bioInit.
LEMMA InitIInv == Init => IInv
<1> SUFFICES ASSUME Init PROVE IInv
  OBVIOUS
<1>1. NoJob \in Job \cup {NoJob} /\ LazyFree \in Types /\ 0 \in 0 .. SizeMod - 1
  BY BioAssumption
<1>2. TypeOK
  BY <1>1 DEF Init, TypeOK, NoCall
<1>3. CallInv
  BY DEF Init, CallInv
<1>4. ASSUME NEW t \in Types PROVE QueueInv(t) /\ LockInv(t)
  BY <1>4 DEF Init, QueueInv, LockInv, Taken, Finished, Enqueued
<1> QED BY <1>2, <1>3, <1>4 DEF IInv

-----------------------------------------------------------------------------
(* A step of one thread leaves the other types alone.                      *)

\* What the invariant says of a type is kept by a step that changes nothing the
\* type depends on.
LEMMA OtherType ==
    ASSUME NEW u \in Types, QueueInv(u), LockInv(u),
           bio_jobs'[u] = bio_jobs[u], bio_pending'[u] = bio_pending[u],
           wpc'[u] = wpc[u], job'[u] = job[u], processed'[u] = processed[u],
           mutex'[u] = mutex[u], Enqueued(u)' = Enqueued(u),
           (mpc = "enqueue" /\ marg.type = u) <=> (mpc' = "enqueue" /\ marg'.type = u)
    PROVE  QueueInv(u)' /\ LockInv(u)'
BY Zenon DEF QueueInv, LockInv, Taken, Finished

\* A call that creates a job, up to the lock: the job is counted in `submitted`
\* and not yet in the list.
LEMMA SubmitStep ==
    ASSUME IInv, NEW t \in Types, NEW kind \in Kinds, NEW n \in 0 .. MaxObjs,
           Submit(t, kind, n)
    PROVE  IInv'
<1> USE DEF IInv
<1>1. submitted[t] \in Nat /\ lazyfree_objects \in Nat /\ n \in Nat
  BY BioAssumption DEF TypeOK
<1>2. marg' = [type |-> t, job |-> [id |-> submitted[t] + 1, kind |-> kind, objs |-> n]]
  BY DEF Submit
<1>3. marg'.job \in Job /\ marg'.type = t /\ marg'.job.id = submitted[t] + 1
  BY <1>1, <1>2 DEF Job
<1>4. submitted' = [submitted EXCEPT ![t] = @ + 1] /\ mpc' = "create" /\ mpc = "idle"
  BY DEF Submit
<1>5. lazyfree_objects' \in 0 .. SizeMod - 1
  BY <1>1, SizeT DEF Submit, Announce
<1>6. TypeOK'
  BY <1>1, <1>2, <1>3, <1>4, <1>5 DEF TypeOK, Submit
<1>7. CallInv'
  BY <1>3, <1>4, <1>1 DEF CallInv, TypeOK
<1>8. ASSUME NEW u \in Types PROVE Enqueued(u)' = Enqueued(u)
  BY <1>1, <1>3, <1>4 DEF Enqueued, TypeOK
<1>9. ASSUME NEW u \in Types PROVE QueueInv(u)' /\ LockInv(u)'
  <2>1. /\ UNCHANGED <<mutex, bio_jobs, bio_pending, wpc, job, processed>>
        /\ mpc # "enqueue" /\ mpc' # "enqueue"
    BY <1>4 DEF Submit
  <2> QED BY <1>8, <2>1, OtherType
<1> QED BY <1>6, <1>7, <1>9

\* The steps of the main thread that wait for a background thread: they change
\* neither a list nor a counter.
LEMMA WaitingStep ==
    ASSUME IInv,
           WaitLazyFree \/ Poll \/ StepReturn \/ StepSpuriousWakeup
             \/ \E t \in Types : WaitStep(t)
    PROVE  IInv'
<1> USE DEF IInv
<1>1. /\ UNCHANGED <<mutex, bio_jobs, bio_pending, wpc, job, lazyfree_objects,
                     submitted, processed>>
      /\ mpc \notin {"create", "enqueue"}
      /\ mpc' \in {"idle", "poll", "asleep", "woken"}
  BY DEF WaitLazyFree, Poll, StepReturn, StepSpuriousWakeup, WaitStep
<1>2. marg' \in [type : Types, job : Job \cup {NoJob}]
  <2>1. CASE UNCHANGED marg
    BY <2>1 DEF TypeOK
  <2>2. CASE marg' = NoCall
    BY <2>2, BioAssumption DEF NoCall
  <2>3. CASE \E t \in Types : marg' = [marg EXCEPT !.type = t]
    BY Zenon, <2>3 DEF TypeOK
  <2> QED BY <2>1, <2>2, <2>3 DEF WaitLazyFree, Poll, StepReturn, StepSpuriousWakeup, WaitStep
<1>3. TypeOK' /\ CallInv'
  BY Zenon, <1>1, <1>2 DEF TypeOK, CallInv
<1>4. ASSUME NEW u \in Types PROVE QueueInv(u)' /\ LockInv(u)'
  <2>1. Enqueued(u)' = Enqueued(u)
    BY <1>1 DEF Enqueued
  <2> QED BY <1>1, <2>1, OtherType
<1> QED BY <1>3, <1>4

\* bioCreateBackgroundJob takes the lock of the type.
LEMMA CreateLockStep == ASSUME IInv, CreateLock PROVE IInv'
<1> USE DEF IInv
<1>0. PICK t \in Types : t = marg.type
  BY DEF TypeOK
<1>1. /\ mpc = "create" /\ mpc' = "enqueue" /\ mutex[t] = "none"
      /\ mutex' = [mutex EXCEPT ![t] = "main"]
      /\ UNCHANGED <<bio_jobs, bio_pending, wpc, job, marg, lazyfree_objects,
                     submitted, processed>>
  BY <1>0 DEF CreateLock
<1>2. t \in Types
  OBVIOUS
<1>3. TypeOK' /\ CallInv'
  BY <1>1, <1>2 DEF TypeOK, CallInv
<1>4. ASSUME NEW u \in Types PROVE QueueInv(u)' /\ LockInv(u)'
  <2>1. Enqueued(u)' = Enqueued(u)
    BY <1>1 DEF Enqueued
  <2>2. CASE u = t
    BY ZenonT(30), <1>0, <1>1, <1>2, <2>1, <2>2 DEF QueueInv, LockInv, Taken, Finished, TypeOK
  <2>3. CASE u # t
    <3>1. mutex'[u] = mutex[u]
      BY <1>1, <2>3 DEF TypeOK
    <3> QED BY <1>0, <1>1, <2>1, <2>3, <3>1, OtherType
  <2> QED BY <2>2, <2>3
<1> QED BY <1>3, <1>4

\* The job goes to the tail of the list, and from then on it is the thread's.
LEMMA CreateEnqueueStep == ASSUME IInv, CreateEnqueue PROVE IInv'
<1> USE DEF IInv
<1>0. PICK t \in Types : t = marg.type
  BY DEF TypeOK
<1>1. /\ mpc = "enqueue" /\ mpc' = "idle" /\ marg' = NoCall
      /\ bio_jobs' = [bio_jobs EXCEPT ![t] = Append(@, marg.job)]
      /\ bio_pending' = [bio_pending EXCEPT ![t] = @ + 1]
      /\ mutex' = [mutex EXCEPT ![t] = "none"]
      /\ UNCHANGED <<job, lazyfree_objects, submitted, processed>>
  BY <1>0 DEF CreateEnqueue, Queue
<1>2. t \in Types /\ marg.job \in Job /\ marg.job.id = submitted[t]
  BY <1>0, <1>1 DEF TypeOK, CallInv
<1>3. \/ wpc' = wpc
      \/ wpc[t] = "asleep" /\ wpc' = [wpc EXCEPT ![t] = "woken"]
  BY <1>0 DEF CreateEnqueue, SignalNewJob
<1>4. TypeOK'
  <2>1. bio_jobs' \in [Types -> Seq(Job)] /\ bio_pending' \in [Types -> Nat]
    BY <1>1, <1>2 DEF TypeOK
  <2>2. marg' \in [type : Types, job : Job \cup {NoJob}]
    BY <1>1, BioAssumption DEF NoCall
  <2>3. wpc' \in [Types -> {"start", "loop", "asleep", "woken", "process",
                            "uncount", "relock"}]
    BY Zenon, <1>2, <1>3 DEF TypeOK
  <2> QED BY Zenon, <1>1, <2>1, <2>2, <2>3 DEF TypeOK
<1>5. CallInv'
  BY <1>1 DEF CallInv
<1>6. QueueInv(t)' /\ LockInv(t)'
  <2>0. PICK q : q = bio_jobs[t]
    OBVIOUS
  <2>1. q \in Seq(Job) /\ bio_jobs'[t] = Append(q, marg.job)
    BY <2>0, <1>1, <1>2 DEF TypeOK
  <2>2. Taken(t)' <=> Taken(t)
    BY <1>2, <1>3 DEF Taken, TypeOK
  <2>3. Finished(t)' = Finished(t) /\ Finished(t) \in Int
    BY <1>1, <1>2, <1>3 DEF Finished, TypeOK
  <2>4. Enqueued(t) = submitted[t] - 1 /\ Enqueued(t)' = submitted[t]
        /\ submitted[t] \in Nat
    BY <1>0, <1>1, <1>2 DEF Enqueued, TypeOK
  <2>5. Len(q) + Finished(t) = submitted[t] - 1
    BY <2>0, <2>4, <1>2 DEF QueueInv
  <2>6. /\ Len(bio_jobs'[t]) = Len(q) + 1
        /\ bio_jobs'[t][Len(q) + 1] = marg.job
        /\ \A i \in 1 .. Len(q) : bio_jobs'[t][i] = q[i]
        /\ Len(q) \in Nat
    BY <2>1, <1>2
  <2>7. Len(bio_jobs'[t]) + Finished(t)' = Enqueued(t)'
    <3>1. (Len(q) + 1) + Finished(t) = submitted[t]
      <4>1. \A a, b, c \in Int : a + b = c - 1 => (a + 1) + b = c
        OBVIOUS
      <4>2. Len(q) \in Int /\ Finished(t) \in Int /\ submitted[t] \in Int
        BY <2>3, <2>4, <2>6
      <4> QED BY <4>1, <4>2, <2>5
    <3> QED BY <3>1, <2>3, <2>4, <2>6
  <2>8. ASSUME NEW i \in 1 .. Len(bio_jobs'[t])
        PROVE  bio_jobs'[t][i].id = Finished(t)' + i
    <3>1. CASE i = Len(q) + 1
      BY <3>1, <2>3, <2>4, <2>5, <2>6, <1>2
    <3>2. CASE i \in 1 .. Len(q)
      <4>1. q[i].id = Finished(t) + i
        BY <2>0, <3>2, <1>2 DEF QueueInv
      <4> QED BY <4>1, <3>2, <2>3, <2>6
    <3> QED BY <3>1, <3>2, <2>6
  <2>9. bio_pending'[t] = Len(bio_jobs'[t])
    BY <1>1, <1>2, <2>6 DEF QueueInv, TypeOK
  <2>10. Taken(t)' => bio_jobs'[t] # <<>> /\ job'[t] = bio_jobs'[t][1]
    <3> SUFFICES ASSUME Taken(t) PROVE bio_jobs'[t] # <<>> /\ job'[t] = bio_jobs'[t][1]
      BY <2>2
    <3>1. q # <<>> /\ job[t] = q[1]
      BY <2>0, <1>2 DEF QueueInv
    <3>2. Len(q) > 0
      BY <3>1, <2>1
    <3> QED BY <3>1, <3>2, <2>6, <1>1
  <2>11. \A i \in 1 .. Len(processed'[t]) : processed'[t][i] = i
    BY <1>1, <1>2 DEF QueueInv
  <2>12. LockInv(t)'
    BY <1>0, <1>1, <1>2, <1>3 DEF LockInv, TypeOK
  <2>13. QueueInv(t)'
    BY <2>7, <2>8, <2>9, <2>10, <2>11 DEF QueueInv
  <2> QED BY <2>12, <2>13
<1>7. ASSUME NEW u \in Types, u # t PROVE QueueInv(u)' /\ LockInv(u)'
  <2>1. /\ bio_jobs'[u] = bio_jobs[u] /\ bio_pending'[u] = bio_pending[u]
        /\ mutex'[u] = mutex[u] /\ wpc'[u] = wpc[u]
    BY <1>1, <1>3, <1>7 DEF TypeOK
  <2>2. Enqueued(u)' = Enqueued(u)
    BY <1>0, <1>1, <1>7 DEF Enqueued
  <2> QED BY <1>0, <1>1, <1>7, <2>1, <2>2, OtherType
<1> QED BY <1>4, <1>5, <1>6, <1>7

-----------------------------------------------------------------------------
(* The steps of the thread of a type.                                      *)

\* The thread takes the lock, goes to sleep, or is woken for no reason.
LEMMA WorkerIdleStep ==
    ASSUME IInv, NEW t \in Types,
           WorkerLock(t) \/ WorkerSleep(t) \/ WorkerSpuriousWakeup(t)
    PROVE  IInv'
<1> USE DEF IInv
<1>1. UNCHANGED <<mpc, marg, submitted, bio_jobs, bio_pending, job,
                  lazyfree_objects, processed>>
  BY DEF WorkerLock, WorkerSleep, WorkerSpuriousWakeup, mainVars
<1>2. PICK m \in {"none", "main", "bio"}, w \in {"loop", "asleep", "woken"} :
         /\ mutex' = [mutex EXCEPT ![t] = m] /\ wpc' = [wpc EXCEPT ![t] = w]
         /\ m = "bio" <=> w = "loop"
         /\ m = "main" <=> mutex[t] = "main"
         /\ wpc[t] \in {"start", "loop", "asleep", "woken"}
  <2>1. CASE WorkerLock(t)
    BY <2>1 DEF WorkerLock
  <2>2. CASE WorkerSleep(t)
    BY <2>2 DEF WorkerSleep, LockInv
  <2>3. CASE WorkerSpuriousWakeup(t)
    <3>1. mutex[t] \in {"none", "main", "bio"} /\ mutex = [mutex EXCEPT ![t] = mutex[t]]
      BY DEF TypeOK
    <3>2. mutex[t] # "bio" /\ mutex' = mutex /\ wpc' = [wpc EXCEPT ![t] = "woken"]
          /\ wpc[t] = "asleep"
      BY <2>3 DEF WorkerSpuriousWakeup, LockInv
    <3> QED BY <3>1, <3>2
  <2> QED BY <2>1, <2>2, <2>3
<1>3. TypeOK' /\ CallInv'
  BY <1>1, <1>2 DEF TypeOK, CallInv
<1>4. ASSUME NEW u \in Types PROVE QueueInv(u)' /\ LockInv(u)'
  <2>1. Enqueued(u)' = Enqueued(u)
    BY <1>1 DEF Enqueued
  <2>2. CASE u = t
    BY ZenonT(30), <1>1, <1>2, <2>1, <2>2 DEF QueueInv, LockInv, Taken, Finished, TypeOK
  <2>3. CASE u # t
    <3>1. mutex'[u] = mutex[u] /\ wpc'[u] = wpc[u]
      BY <1>2, <2>3 DEF TypeOK
    <3> QED BY <1>1, <2>1, <3>1, OtherType
  <2> QED BY <2>2, <2>3
<1> QED BY <1>3, <1>4

\* The thread takes the head of the list and leaves it there.
LEMMA WorkerTakeStep == ASSUME IInv, NEW t \in Types, WorkerTake(t) PROVE IInv'
<1> USE DEF IInv
<1>1. /\ wpc[t] = "loop" /\ bio_jobs[t] # <<>>
      /\ job' = [job EXCEPT ![t] = Head(bio_jobs[t])]
      /\ mutex' = [mutex EXCEPT ![t] = "none"]
      /\ wpc' = [wpc EXCEPT ![t] = "process"]
      /\ UNCHANGED <<mpc, marg, submitted, bio_jobs, bio_pending, lazyfree_objects, processed>>
  BY DEF WorkerTake, mainVars
<1>2. Head(bio_jobs[t]) \in Job /\ Head(bio_jobs[t]) = bio_jobs[t][1]
  BY <1>1 DEF TypeOK
<1>3. TypeOK' /\ CallInv'
  BY <1>1, <1>2 DEF TypeOK, CallInv
<1>4. ASSUME NEW u \in Types PROVE QueueInv(u)' /\ LockInv(u)'
  <2>1. Enqueued(u)' = Enqueued(u)
    BY <1>1 DEF Enqueued
  <2>2. CASE u = t
    <3>1. job'[t] = bio_jobs[t][1] /\ wpc'[t] = "process" /\ mutex'[t] = "none"
      BY <1>1, <1>2 DEF TypeOK
    <3>2. Finished(t)' = Finished(t)
      BY <1>1, <3>1 DEF Finished
    <3>3. QueueInv(t)'
      BY <1>1, <2>1, <2>2, <3>1, <3>2 DEF QueueInv
    <3>4. LockInv(t)'
      BY <1>1, <3>1 DEF LockInv
    <3> QED BY <2>2, <3>3, <3>4
  <2>3. CASE u # t
    <3>1. mutex'[u] = mutex[u] /\ wpc'[u] = wpc[u] /\ job'[u] = job[u]
      BY <1>1, <2>3 DEF TypeOK
    <3> QED BY <1>1, <2>1, <3>1, OtherType
  <2> QED BY <2>2, <2>3
<1> QED BY <1>3, <1>4

\* The job is executed: its number is the next one of its type.
LEMMA WorkerProcessStep == ASSUME IInv, NEW t \in Types, WorkerProcess(t) PROVE IInv'
<1> USE DEF IInv
<1>1. /\ wpc[t] = "process"
      /\ processed' = [processed EXCEPT ![t] = Append(@, job[t].id)]
      /\ UNCHANGED <<mpc, marg, submitted, mutex, bio_jobs, bio_pending, job, lazyfree_objects>>
  BY DEF WorkerProcess, mainVars
<1>2. PICK w \in {"uncount", "relock"} : wpc' = [wpc EXCEPT ![t] = w]
  BY Zenon DEF WorkerProcess
<1>3. PICK p \in Seq(Nat) : p = processed[t]
  BY DEF TypeOK
<1>4. job[t].id = Len(p) + 1 /\ Len(p) \in Nat
  <2>1. bio_jobs[t] \in Seq(Job) /\ bio_jobs[t] # <<>> /\ job[t] = bio_jobs[t][1]
    BY <1>1 DEF QueueInv, Taken, TypeOK
  <2>2. 1 \in 1 .. Len(bio_jobs[t])
    BY <2>1
  <2>3. bio_jobs[t][1].id = Finished(t) + 1
    BY <2>2 DEF QueueInv
  <2>4. Finished(t) = Len(p)
    BY <1>1, <1>3 DEF Finished
  <2> QED BY <2>1, <2>3, <2>4, <1>3
<1>5. processed'[t] = Append(p, Len(p) + 1) /\ wpc'[t] = w
  BY <1>1, <1>2, <1>3, <1>4 DEF TypeOK
<1>6. /\ Len(processed'[t]) = Len(p) + 1
      /\ \A i \in 1 .. Len(p) + 1 : processed'[t][i] = i
  BY <1>3, <1>4, <1>5 DEF QueueInv
<1>7. TypeOK' /\ CallInv'
  <2>1. processed' \in [Types -> Seq(Nat)]
    BY <1>1, <1>3, <1>4 DEF TypeOK
  <2> QED BY <1>1, <1>2, <2>1 DEF TypeOK, CallInv
<1>8. ASSUME NEW u \in Types PROVE QueueInv(u)' /\ LockInv(u)'
  <2>1. Enqueued(u)' = Enqueued(u)
    BY <1>1 DEF Enqueued
  <2>2. CASE u = t
    <3>1. Finished(t)' = Finished(t)
      BY <1>1, <1>2, <1>3, <1>4, <1>5, <1>6 DEF Finished
    <3>2. QueueInv(t)'
      BY <1>1, <1>6, <2>1, <2>2, <3>1 DEF QueueInv, Taken
    <3>3. LockInv(t)'
      BY <1>1, <1>2, <1>5 DEF LockInv
    <3> QED BY <2>2, <3>2, <3>3
  <2>3. CASE u # t
    <3>1. wpc'[u] = wpc[u] /\ processed'[u] = processed[u]
      BY <1>1, <1>2, <2>3 DEF TypeOK
    <3> QED BY <1>1, <2>1, <3>1, OtherType
  <2> QED BY <2>2, <2>3
<1> QED BY <1>7, <1>8

\* The objects of the job are taken off the counter.
LEMMA WorkerUncountStep == ASSUME IInv, NEW t \in Types, WorkerUncount(t) PROVE IInv'
<1> USE DEF IInv
<1>1. /\ wpc[t] = "uncount" /\ wpc' = [wpc EXCEPT ![t] = "relock"]
      /\ UNCHANGED <<mpc, marg, submitted, mutex, bio_jobs, bio_pending, job, processed>>
  BY DEF WorkerUncount, mainVars
<1>2. lazyfree_objects' \in 0 .. SizeMod - 1
  <2>1. job[t] \in Job \cup {NoJob}
    BY DEF TypeOK
  <2>2. JobObjs(job[t]) \in Int
    BY <2>1, BioAssumption DEF JobObjs, Job, NoJob
  <2>3. lazyfree_objects - JobObjs(job[t]) \in Int
    BY <2>2, BioAssumption DEF TypeOK
  <2> QED BY <2>3, SizeT DEF WorkerUncount
<1>3. TypeOK' /\ CallInv'
  BY <1>1, <1>2 DEF TypeOK, CallInv
<1>4. ASSUME NEW u \in Types PROVE QueueInv(u)' /\ LockInv(u)'
  <2>1. Enqueued(u)' = Enqueued(u)
    BY <1>1 DEF Enqueued
  <2>2. CASE u = t
    BY <1>1, <2>1, <2>2 DEF QueueInv, LockInv, Taken, Finished, TypeOK
  <2>3. CASE u # t
    <3>1. wpc'[u] = wpc[u]
      BY <1>1, <2>3 DEF TypeOK
    <3> QED BY <1>1, <2>1, <3>1, OtherType
  <2> QED BY <2>2, <2>3
<1> QED BY <1>3, <1>4

\* The node deleted is the head of the list, whatever was appended since the
\* thread took it: no other job has its number.
LEMMA DeletedIsHead ==
    ASSUME IInv, NEW t \in Types, Taken(t)
    PROVE  DeleteNode(t) = SubSeq(bio_jobs[t], 2, Len(bio_jobs[t]))
<1>1. PICK q \in Seq(Job) : q = bio_jobs[t]
  BY DEF IInv, TypeOK
<1>2. q # <<>> /\ job[t] = q[1] /\ Finished(t) \in Int
      /\ \A i \in 1 .. Len(q) : q[i].id = Finished(t) + i
  BY <1>1 DEF IInv, TypeOK, QueueInv, Finished
<1>3. Len(q) \in Nat \ {0}
  BY <1>1, <1>2
<1>4. \A i \in 1 .. Len(q) : q[i].id = job[t].id <=> i = 1
  BY <1>2, <1>3
<1>5. (CHOOSE i \in 1 .. Len(q) : q[i].id = job[t].id) = 1
  BY <1>3, <1>4
<1>6. SubSeq(q, 1, 0) \o SubSeq(q, 2, Len(q)) = SubSeq(q, 2, Len(q))
  BY <1>1, <1>3
<1>7. DeleteNode(t) = SubSeq(q, 1, 1 - 1) \o SubSeq(q, 1 + 1, Len(q))
  BY <1>1, <1>5, Zenon DEF DeleteNode
<1> QED BY <1>1, <1>6, <1>7

\* The node is deleted under the lock, and the counter goes down with it.
LEMMA WorkerDoneStep == ASSUME IInv, NEW t \in Types, WorkerDone(t) PROVE IInv'
<1> USE DEF IInv
<1>1. /\ wpc[t] = "relock" /\ mutex[t] = "none"
      /\ mutex' = [mutex EXCEPT ![t] = "bio"]
      /\ bio_jobs' = [bio_jobs EXCEPT ![t] = DeleteNode(t)]
      /\ bio_pending' = [bio_pending EXCEPT ![t] = bio_pending[t] - 1]
      /\ wpc' = [wpc EXCEPT ![t] = "loop"]
      /\ job' = [job EXCEPT ![t] = NoJob]
      /\ UNCHANGED <<marg, lazyfree_objects, submitted, processed>>
  BY DEF WorkerDone, CountDown
<1>2. mpc' = mpc \/ (mpc = "asleep" /\ mpc' = "woken")
  BY DEF WorkerDone
<1>3. PICK q \in Seq(Job) : q = bio_jobs[t]
  BY DEF TypeOK
<1>4. Taken(t) /\ q # <<>> /\ Len(q) \in Nat \ {0}
  BY <1>1, <1>3 DEF Taken, QueueInv
<1>5. PICK r \in Seq(Job) : r = SubSeq(q, 2, Len(q))
  <2>1. \A i \in 2 .. Len(q) : q[i] \in Job
    BY <1>3, <1>4
  <2>2. SubSeq(q, 2, Len(q)) \in Seq(Job)
    BY <1>4, <2>1, SubSeqProperties
  <2> QED BY Zenon, <2>2
<1>6. /\ Len(r) = Len(q) - 1
      /\ \A i \in 1 .. Len(r) : r[i] = q[i + 1]
  BY <1>3, <1>4, <1>5, SubSeqProperties
<1>7. bio_jobs'[t] = r /\ bio_jobs' \in [Types -> Seq(Job)]
  BY Zenon, <1>1, <1>3, <1>4, <1>5, DeletedIsHead DEF TypeOK
<1>8. bio_pending[t] = Len(q) /\ bio_pending'[t] = Len(q) - 1
      /\ bio_pending' \in [Types -> Nat]
  BY <1>1, <1>3, <1>4 DEF TypeOK, QueueInv
<1>9. TypeOK' /\ CallInv'
  BY <1>1, <1>2, <1>7, <1>8 DEF TypeOK, CallInv
<1>10. ASSUME NEW u \in Types PROVE QueueInv(u)' /\ LockInv(u)'
  <2>1. Enqueued(u)' = Enqueued(u)
    BY <1>1, <1>2 DEF Enqueued
  <2>2. CASE u = t
    <3>1. wpc'[t] = "loop" /\ mutex'[t] = "bio" /\ Len(processed[t]) \in Nat
      BY <1>1 DEF TypeOK
    <3>2. Finished(t)' = Finished(t) + 1 /\ Finished(t) \in Int
      BY <1>1, <3>1 DEF Finished
    <3>3. Len(q) + Finished(t) = Enqueued(t)
          /\ \A i \in 1 .. Len(q) : q[i].id = Finished(t) + i
      BY <1>3 DEF QueueInv
    <3>4. Len(r) + (Finished(t) + 1) = Enqueued(t)
      BY <1>4, <1>6, <3>2, <3>3
    <3>5. \A i \in 1 .. Len(r) : r[i].id = (Finished(t) + 1) + i
      BY <1>4, <1>6, <3>2, <3>3
    <3>6. \A i \in 1 .. Len(processed'[t]) : processed'[t][i] = i
      BY <1>1 DEF QueueInv
    <3>7. QueueInv(t)'
      BY <1>6, <1>7, <1>8, <2>1, <2>2, <3>1, <3>2, <3>4, <3>5, <3>6 DEF QueueInv, Taken
    <3>8. LockInv(t)'
      BY <1>1, <1>2, <3>1 DEF LockInv
    <3> QED BY <2>2, <3>7, <3>8
  <2>3. CASE u # t
    <3>1. /\ mutex'[u] = mutex[u] /\ wpc'[u] = wpc[u] /\ job'[u] = job[u]
          /\ bio_jobs'[u] = bio_jobs[u] /\ bio_pending'[u] = bio_pending[u]
      BY <1>1, <2>3 DEF TypeOK
    <3> QED BY <1>1, <1>2, <2>1, <3>1, OtherType
  <2> QED BY <2>2, <2>3
<1> QED BY <1>9, <1>10

-----------------------------------------------------------------------------
\* Every step of every thread keeps the invariant.
LEMMA NextIInv == IInv /\ [Next]_vars => IInv'
<1> SUFFICES ASSUME IInv, [Next]_vars PROVE IInv'
  OBVIOUS
<1>1. CASE FreeObjAsync
  BY <1>1, SubmitStep, BioAssumption DEF FreeObjAsync, Kinds
<1>2. CASE EmptyDbAsync
  BY <1>2, SubmitStep, BioAssumption DEF EmptyDbAsync, Kinds
<1>3. CASE SlotToKeyFlushAsync
  BY <1>3, SubmitStep, BioAssumption DEF SlotToKeyFlushAsync, Kinds
<1>4. CASE FileJob
  BY <1>4, SubmitStep, BioAssumption DEF FileJob, Kinds
<1>5. CASE WaitLazyFree \/ Poll \/ StepReturn \/ StepSpuriousWakeup \/ \E t \in Types : WaitStep(t)
  BY <1>5, WaitingStep
<1>6. CASE CreateLock
  BY <1>6, CreateLockStep
<1>7. CASE CreateEnqueue
  BY <1>7, CreateEnqueueStep
<1>8. CASE \E t \in Types : WorkerLock(t) \/ WorkerSleep(t) \/ WorkerSpuriousWakeup(t)
  BY <1>8, WorkerIdleStep
<1>9. CASE \E t \in Types : WorkerTake(t)
  BY <1>9, WorkerTakeStep
<1>10. CASE \E t \in Types : WorkerProcess(t)
  BY <1>10, WorkerProcessStep
<1>11. CASE \E t \in Types : WorkerUncount(t)
  BY <1>11, WorkerUncountStep
<1>12. CASE \E t \in Types : WorkerDone(t)
  BY <1>12, WorkerDoneStep
<1>13. CASE UNCHANGED vars
  BY <1>13 DEF vars, IInv, TypeOK, CallInv, QueueInv, LockInv, Taken, Finished, Enqueued
<1> QED
  BY <1>1, <1>2, <1>3, <1>4, <1>5, <1>6, <1>7, <1>8, <1>9, <1>10, <1>11, <1>12, <1>13
  DEF Next, MainStep, MainCall, Spurious, WorkerStep

\* What the invariant means for the readers of the counter and of the list.
LEMMA IInvSafe == IInv => TypeOK /\ PendingZeroMeansDone /\ ExactlyOnceInOrder
<1> SUFFICES ASSUME IInv PROVE PendingZeroMeansDone /\ ExactlyOnceInOrder
  BY DEF IInv
<1>1. ASSUME NEW t \in Types
      PROVE  /\ mutex[t] # "bio" /\ bio_pending[t] = 0 => Len(processed[t]) = Enqueued(t)
             /\ \A i \in DOMAIN processed[t] : processed[t][i] = i
             /\ Len(processed[t]) <= Enqueued(t)
  <2>1. bio_jobs[t] \in Seq(Job) /\ processed[t] \in Seq(Nat) /\ QueueInv(t)
    BY DEF IInv, TypeOK
  <2>2. Len(bio_jobs[t]) \in Nat /\ Len(processed[t]) \in Nat
        /\ (bio_jobs[t] # <<>> => Len(bio_jobs[t]) > 0)
    BY <2>1
  <2>3. Len(bio_jobs[t]) + Finished(t) = Enqueued(t)
    BY <2>1 DEF QueueInv
  <2>4. Taken(t) => Len(bio_jobs[t]) > 0
    BY <2>1, <2>2 DEF QueueInv
  <2>5. /\ Finished(t) = Len(processed[t]) \/ Finished(t) = Len(processed[t]) - 1
        /\ ~ Taken(t) => Finished(t) = Len(processed[t])
        /\ Finished(t) \in Int
    BY <2>2 DEF Finished, Taken
  <2>6. Len(processed[t]) <= Len(bio_jobs[t]) + Finished(t)
    BY <2>2, <2>4, <2>5
  <2>7. bio_pending[t] = 0 => Len(processed[t]) = Len(bio_jobs[t]) + Finished(t)
    BY <2>1, <2>2, <2>4, <2>5 DEF QueueInv
  <2>8. \A i \in DOMAIN processed[t] : processed[t][i] = i
    BY <2>1 DEF QueueInv
  <2> QED BY <2>3, <2>6, <2>7, <2>8
<1> QED BY <1>1 DEF PendingZeroMeansDone, ExactlyOnceInOrder

\* The state of the background threads keeps its type: in particular bio_pending
\* never goes below zero, and only a job the main thread created is taken.
THEOREM TypeCorrect == Spec => []TypeOK
<1>1. Spec => []IInv
  BY InitIInv, NextIInv, PTL DEF Spec
<1> QED BY <1>1, IInvSafe, PTL

\* bioPendingJobsOfType: whenever the main thread can read the counter, zero
\* means that every job created has been executed, for any number of types and
\* jobs and every interleaving with spurious wake-ups.
THEOREM PendingZeroMeansDoneAlways == Spec => []PendingZeroMeansDone
<1>1. Spec => []IInv
  BY InitIInv, NextIInv, PTL DEF Spec
<1> QED BY <1>1, IInvSafe, PTL

\* bioProcessBackgroundJobs: every job is executed at most once and in the order
\* of creation, although the list is changed while the thread works on its head.
THEOREM ExactlyOnceInOrderAlways == Spec => []ExactlyOnceInOrder
<1>1. Spec => []IInv
  BY InitIInv, NextIInv, PTL DEF Spec
<1> QED BY <1>1, IInvSafe, PTL

-----------------------------------------------------------------------------
(* The counter of objects.  It is a size_t, so the sums are modulo SizeMod.  *)

\* The remainder the counter keeps: what is left after whole turns of size_t.
LEMMA Remainder ==
    ASSUME NEW M \in Int, M > 0, NEW a \in Int
    PROVE  \E q \in Int, x \in Int :
              x = M * q /\ a % M = a - x /\ a % M \in Int /\ a % M >= 0 /\ a % M < M
<1>1. a % M = a - M * (a \div M)
  OBVIOUS
<1>2. a \div M \in Int
  OBVIOUS
<1>3. M * (a \div M) \in Int
  BY <1>2
<1>4. a % M \in Int /\ a % M >= 0 /\ a % M < M
  OBVIOUS
<1> QED BY <1>1, <1>2, <1>3, <1>4

\* Two values of the counter a whole number of turns apart are equal.
LEMMA WholeTurns ==
    ASSUME NEW M \in Int, M > 0, NEW p \in Int, NEW d \in Int, M * p = d, d < M, d > - M
    PROVE  d = 0
<1>1. CASE p >= 1
  <2>1. M * p >= M
    BY <1>1
  <2> QED BY <2>1
<1>2. CASE p <= -1
  <2>1. M * p <= - M
    BY <1>2
  <2> QED BY <2>1
<1>3. CASE p = 0
  BY <1>3
<1> QED BY <1>1, <1>2, <1>3

\* atomicIncr and atomicDecr on a counter that may have wrapped count as on one
\* that has not.
LEMMA CountsModulo ==
    ASSUME NEW M \in Int, M > 0, NEW a \in Int, NEW n \in Int
    PROVE  ((a % M) + n) % M = (a + n) % M
<1>1. PICK q \in Int, x \in Int : x = M * q /\ a % M = a - x
  BY Remainder
<1>2. PICK p \in Int, y \in Int, r \in Int :
           /\ y = M * p /\ r = ((a - x) + n) % M
           /\ r = ((a - x) + n) - y /\ r >= 0 /\ r < M
  <2>1. (a - x) + n \in Int
    OBVIOUS
  <2> QED BY <2>1, Remainder
<1>3. PICK u \in Int, z \in Int, s \in Int :
           z = M * u /\ s = (a + n) % M /\ s = (a + n) - z /\ s >= 0 /\ s < M
  <2>1. a + n \in Int
    OBVIOUS
  <2> QED BY <2>1, Remainder
<1>4. M * ((q + p) - u) = (x + y) - z
  BY <1>1, <1>2, <1>3
<1>5. s - r = (x + y) - z /\ s - r \in Int /\ s - r < M /\ s - r > - M
  BY <1>1, <1>2, <1>3
<1>6. s - r = 0
  BY <1>4, <1>5, WholeTurns
<1> QED BY <1>1, <1>2, <1>3, <1>6

\* g adds up the objects of the jobs of q one by one, to n in the end.
SumRun(g, q) == g = [i \in 0 .. Len(q) |-> IF i = 0 THEN 0 ELSE g[i - 1] + JobObjs(q[i])]
Total(q, n) == n \in Int /\ \E g \in [0 .. Len(q) -> Int] : SumRun(g, q) /\ g[Len(q)] = n

INSTANCE WellFoundedInduction

\* There is one way to add up, so Objs is the sum.
LEMMA ObjsIsTotal == ASSUME NEW q \in Seq(Job), NEW n, Total(q, n) PROVE Objs(q) = n
<1>1. PICK g \in [0 .. Len(q) -> Int] : SumRun(g, q) /\ g[Len(q)] = n
  BY Zenon DEF Total
<1>2. PICK l \in Nat : l = Len(q)
  OBVIOUS
<1> DEFINE Run(f) == f = [i \in 0 .. Len(q) |-> IF i = 0 THEN 0 ELSE f[i - 1] + JobObjs(q[i])]
           f == CHOOSE f : Run(f)
<1>3. Run(f) /\ Run(g)
  <2>1. Run(g)
    BY Zenon, <1>1 DEF SumRun
  <2>2. Run(f)
    BY Zenon, <2>1
  <2> QED BY Zenon, <2>1, <2>2
<1>4. Objs(q) = f[l]
  BY Zenon, <1>2 DEF Objs
<1> HIDE DEF f
<1>5. /\ f[0] = 0 /\ \A i \in 1 .. l : f[i] = f[i - 1] + JobObjs(q[i])
      /\ g[0] = 0 /\ \A i \in 1 .. l : g[i] = g[i - 1] + JobObjs(q[i])
  <2>1. /\ \A i \in 0 .. l : f[i] = IF i = 0 THEN 0 ELSE f[i - 1] + JobObjs(q[i])
        /\ \A i \in 0 .. l : g[i] = IF i = 0 THEN 0 ELSE g[i - 1] + JobObjs(q[i])
    BY Zenon, <1>2, <1>3
  <2>2. 0 \in 0 .. l /\ \A i \in 1 .. l : i \in 0 .. l /\ i # 0
    BY <1>2
  <2> QED BY Zenon, <2>1, <2>2
<1> HIDE DEF Run
<1> DEFINE C == {k \in 0 .. l : f[k] # g[k]}
           R == OpToRel(<, Nat)
<1>6. C \in SUBSET Nat
  BY <1>2
<1>7. C = {}
  <2> SUFFICES ASSUME C # {} PROVE FALSE
    BY Zenon
  <2>1. IsWellFoundedOn(R, Nat)
    BY NatLessThanWellFounded
  <2>2. \E k \in C : \A j \in C : ~ (<<j, k>> \in R)
    <3> HIDE DEF C, R
    <3> QED BY Zenon, <1>6, <2>1, WFMin
  <2>3. PICK k \in C : \A j \in C : ~ (j < k)
    <3> HIDE DEF C
    <3> QED BY Zenon, <1>6, <2>2 DEF OpToRel
  <2>4. k \in 0 .. l /\ k # 0 /\ f[k] # g[k]
    BY Zenon, <1>5
  <2>5. k \in 1 .. l /\ k - 1 \in 0 .. l /\ k - 1 < k
    <3> HIDE DEF C
    <3> QED BY <1>2, <2>4
  <2>6. f[k - 1] = g[k - 1]
    BY Zenon, <2>3, <2>5
  <2> QED BY Zenon, <1>5, <2>4, <2>5, <2>6
<1>8. f[l] = g[l]
  <2>1. l \in 0 .. l
    BY <1>2
  <2> QED BY Zenon, <1>7, <2>1
<1> QED BY Zenon, <1>1, <1>2, <1>4, <1>8

\* Nothing in the list, nothing to free.
LEMMA TotalEmpty == Total(<<>>, 0)
<1> DEFINE g == [i \in 0 .. 0 |-> 0]
<1>1. Len(<<>>) = 0 /\ g \in [0 .. 0 -> Int] /\ g[0] = 0
  OBVIOUS
<1>2. g = [i \in 0 .. 0 |-> IF i = 0 THEN 0 ELSE g[i - 1] + JobObjs(<<>>[i])]
  OBVIOUS
<1> HIDE DEF g
<1>3. SumRun(g, <<>>)
  BY Zenon, <1>1, <1>2 DEF SumRun
<1> QED BY <1>1, <1>3 DEF Total

\* A job frees a number of objects.
LEMMA JobObjsType == ASSUME NEW j \in Job PROVE JobObjs(j) \in Nat
BY BioAssumption DEF JobObjs, Job

\* listAddNodeTail adds the objects of the new job.
LEMMA TotalAppend ==
    ASSUME NEW q \in Seq(Job), NEW n, Total(q, n), NEW j \in Job
    PROVE  Total(Append(q, j), n + JobObjs(j))
<1>1. PICK l \in Nat : l = Len(q)
  OBVIOUS
<1>2. PICK g \in [0 .. l -> Int] : SumRun(g, q) /\ g[l] = n
  BY Zenon, <1>1 DEF Total
<1>3. \A i \in 0 .. l : g[i] = IF i = 0 THEN 0 ELSE g[i - 1] + JobObjs(q[i])
  BY Zenon, <1>1, <1>2 DEF SumRun
<1>4. PICK m \in Int : m = n + JobObjs(j)
  BY <1>1, <1>2, JobObjsType
<1>5. PICK r : r = Append(q, j)
  BY Zenon
<1>6. Len(r) = l + 1 /\ r[l + 1] = j /\ \A i \in 1 .. l : r[i] = q[i]
  BY <1>1, <1>5
<1> DEFINE h == [i \in 0 .. l + 1 |-> IF i = l + 1 THEN m ELSE g[i]]
<1>7. h \in [0 .. l + 1 -> Int] /\ h[l + 1] = m /\ \A i \in 0 .. l : h[i] = g[i]
  OBVIOUS
<1>8. h = [i \in 0 .. l + 1 |-> h[i]]
  BY Zenon
<1> HIDE DEF h
<1>9. ASSUME NEW i \in 0 .. l + 1
      PROVE  h[i] = IF i = 0 THEN 0 ELSE h[i - 1] + JobObjs(r[i])
  <2>1. CASE i = 0
    BY <1>3, <1>7, <2>1
  <2>2. CASE i \in 1 .. l
    <3>1. i - 1 \in 0 .. l /\ i \in 0 .. l /\ i # 0
      BY <2>2
    <3> QED BY Zenon, <1>3, <1>6, <1>7, <2>2, <3>1
  <2>3. CASE i = l + 1
    <3>1. i - 1 = l /\ i # 0 /\ l \in 0 .. l
      BY <2>3
    <3> QED BY Zenon, <1>2, <1>4, <1>6, <1>7, <2>3, <3>1
  <2> QED BY <2>1, <2>2, <2>3
<1>10. SumRun(h, r)
  BY Zenon, <1>6, <1>8, <1>9 DEF SumRun
<1> QED BY Zenon, <1>4, <1>5, <1>6, <1>7, <1>10 DEF Total

\* listDelNode of the head takes the objects of its job away.
LEMMA TotalTail ==
    ASSUME NEW q \in Seq(Job), NEW n, Total(q, n), q # <<>>
    PROVE  Total(SubSeq(q, 2, Len(q)), n - JobObjs(q[1]))
<1>1. PICK l \in Nat : Len(q) = l + 1
  <2>1. Len(q) \in Nat \ {0}
    OBVIOUS
  <2>2. Len(q) - 1 \in Nat
    BY <2>1
  <2> QED BY <2>1, <2>2
<1>2. PICK g \in [0 .. l + 1 -> Int] : SumRun(g, q) /\ g[l + 1] = n
  BY Zenon, <1>1 DEF Total
<1>3. \A i \in 0 .. l + 1 : g[i] = IF i = 0 THEN 0 ELSE g[i - 1] + JobObjs(q[i])
  BY Zenon, <1>1, <1>2 DEF SumRun
<1>4. PICK a \in Int : a = JobObjs(q[1])
  <2>1. q[1] \in Job
    BY <1>1
  <2> QED BY <2>1, JobObjsType
<1>5. g[1] = a
  <2>1. 0 \in 0 .. l + 1 /\ 1 \in 0 .. l + 1 /\ 1 # 0 /\ 1 - 1 = 0 /\ 0 + a = a
    BY <1>4
  <2> QED BY Zenon, <1>3, <1>4, <2>1
<1>6. PICK r : r = SubSeq(q, 2, Len(q))
  BY Zenon
<1>7. Len(r) = l /\ \A i \in 1 .. l : r[i] = q[i + 1]
  <2>1. \A i \in 2 .. Len(q) : q[i] \in Job
    BY <1>1
  <2> QED BY <1>1, <1>6, <2>1, SubSeqProperties
<1> DEFINE h == [i \in 0 .. l |-> g[i + 1] - a]
<1>8. h \in [0 .. l -> Int] /\ \A i \in 0 .. l : h[i] = g[i + 1] - a
  BY <1>4
<1>9. h = [i \in 0 .. l |-> h[i]]
  BY Zenon
<1> HIDE DEF h
<1>10. ASSUME NEW i \in 0 .. l
       PROVE  h[i] = IF i = 0 THEN 0 ELSE h[i - 1] + JobObjs(r[i])
  <2>1. CASE i = 0
    BY <1>4, <1>5, <1>8, <2>1
  <2>2. CASE i \in 1 .. l
    <3>1. i - 1 \in 0 .. l /\ i + 1 \in 0 .. l + 1 /\ i + 1 # 0 /\ (i + 1) - 1 = i /\ (i - 1) + 1 = i
          /\ i \in 0 .. l + 1 /\ i # 0
      BY <2>2
    <3>2. PICK b : b = JobObjs(r[i])
      OBVIOUS
    <3>3. g[i + 1] = g[i] + b
      BY Zenon, <1>3, <1>7, <2>2, <3>1, <3>2
    <3>4. h[i] = g[i + 1] - a /\ h[i - 1] = g[i] - a
      BY Zenon, <1>8, <3>1
    <3>5. b \in Int
      <4>1. q[i + 1] \in Job
        BY <1>1, <2>2
      <4> QED BY <1>7, <2>2, <3>2, <4>1, JobObjsType
    <3>6. g[i] \in Int
      BY <3>1
    <3>7. h[i] = h[i - 1] + b
      BY <1>4, <3>3, <3>4, <3>5, <3>6
    <3> QED BY Zenon, <3>1, <3>2, <3>7
  <2> QED BY <2>1, <2>2
<1>11. SumRun(h, r)
  BY Zenon, <1>7, <1>9, <1>10 DEF SumRun
<1>12. h[l] = n - a /\ n - a \in Int
  <2>1. l \in 0 .. l
    BY <1>1
  <2> QED BY <1>2, <1>4, <1>8, <2>1
<1> QED BY Zenon, <1>4, <1>6, <1>7, <1>8, <1>11, <1>12 DEF Total

\* What the counter has to do with the list: it is the sum of the jobs in it, less
\* the one the thread has counted already, plus the one being created.
Counts(n) == Total(bio_jobs[LazyFree], n) /\ lazyfree_objects = ((n - Counted) + Creating) % SizeMod
CountInv ==
    /\ \A t \in Types : wpc[t] = "uncount" => t = LazyFree
    /\ \E n \in Int : Counts(n)

\* The width of size_t.
LEMMA Width == SizeMod \in Int /\ SizeMod > 0 /\ LazyFree \in Types
BY BioAssumption

\* Both corrections are numbers of objects.
LEMMA CorrectionsType == ASSUME IInv PROVE Counted \in Int /\ Creating \in Int
<1>1. job[LazyFree] \in Job \cup {NoJob} /\ marg.job \in Job \cup {NoJob}
  BY Width DEF IInv, TypeOK
<1>2. \A j \in Job \cup {NoJob} : JobObjs(j) \in Int
  BY BioAssumption, JobObjsType DEF JobObjs, NoJob
<1>3. JobObjs(job[LazyFree]) \in Int /\ JobObjs(marg.job) \in Int
  BY Zenon, <1>1, <1>2
<1> QED BY <1>3 DEF Counted, Creating

\* The counter follows when the list and the corrections do.
LEMMA CountsKept ==
    ASSUME IInv, NEW n \in Int, Counts(n), NEW d \in Int, NEW k \in Int,
           lazyfree_objects' = (lazyfree_objects + d) % SizeMod,
           Total(bio_jobs'[LazyFree], k),
           Counted' \in Int, Creating' \in Int,
           (k - Counted') + Creating' = ((n - Counted) + Creating) + d
    PROVE  \E m \in Int : Counts(m)'
<1>1. (n - Counted) + Creating \in Int
  BY CorrectionsType
<1>2. lazyfree_objects' = (((n - Counted) + Creating) + d) % SizeMod
  BY Zenon, <1>1, Width, CountsModulo DEF Counts
<1>3. Counts(k)'
  BY Zenon, <1>2 DEF Counts
<1> QED BY Zenon, <1>3

\* A step that neither counts nor touches the list of BIO_LAZY_FREE.
LEMMA CountsSame ==
    ASSUME IInv, NEW n \in Int, Counts(n), lazyfree_objects' = lazyfree_objects,
           bio_jobs'[LazyFree] = bio_jobs[LazyFree], Counted' = Counted, Creating' = Creating
    PROVE  \E m \in Int : Counts(m)'
BY Zenon DEF Counts

\* The calls that create a job announce its objects before anybody can see it.
LEMMA SubmitCounts ==
    ASSUME IInv, CountInv, NEW t \in Types, NEW kind \in Kinds, NEW objs \in 0 .. MaxObjs,
           Submit(t, kind, objs), kind = "object" => objs = 1, t # LazyFree => objs = 0
    PROVE  CountInv'
<1>1. PICK n \in Int : Counts(n)
  BY Zenon DEF CountInv
<1>2. /\ UNCHANGED <<bio_jobs, wpc, job>> /\ mpc = "idle" /\ mpc' = "create"
      /\ lazyfree_objects' = (lazyfree_objects + objs) % SizeMod
  BY Zenon DEF Submit, Announce
<1>3. marg' = [type |-> t, job |-> [id |-> submitted[t] + 1, kind |-> kind, objs |-> objs]]
  BY Zenon DEF Submit
<1>4. objs \in Int /\ (t = LazyFree => JobObjs(marg'.job) = objs) /\ marg'.type = t
  BY <1>3, BioAssumption DEF JobObjs
<1>5. Counted' = Counted /\ Creating = 0 /\ Counted \in Int
  BY <1>2, CorrectionsType DEF Counted, Creating
<1>6. Creating' = objs
  BY <1>2, <1>4 DEF Creating
<1>7. Total(bio_jobs'[LazyFree], n)
  BY Zenon, <1>1, <1>2 DEF Counts
<1>8. (n - Counted') + Creating' = ((n - Counted) + Creating) + objs
  BY <1>4, <1>5, <1>6
<1>9. \E m \in Int : Counts(m)'
  BY <1>1, <1>2, <1>4, <1>5, <1>6, <1>7, <1>8, CountsKept
<1> QED BY Zenon, <1>2, <1>9 DEF CountInv

\* The job changes from the creator's hands to the list.
LEMMA EnqueueCounts == ASSUME IInv, CountInv, CreateEnqueue PROVE CountInv'
<1>1. PICK n \in Int : Counts(n)
  BY Zenon DEF CountInv
<1>2. PICK t \in Types : t = marg.type
  BY DEF IInv, TypeOK
<1>3. /\ mpc = "enqueue" /\ mpc' = "idle" /\ UNCHANGED <<job, lazyfree_objects>>
      /\ bio_jobs' = [bio_jobs EXCEPT ![t] = Append(bio_jobs[t], marg.job)]
      /\ marg.job \in Job
  BY <1>2 DEF CreateEnqueue, Queue, IInv, CallInv
<1>4. \/ wpc' = wpc
      \/ wpc[t] = "asleep" /\ wpc' = [wpc EXCEPT ![t] = "woken"]
  BY Zenon, <1>2 DEF CreateEnqueue, SignalNewJob
<1>5. /\ \A u \in Types : wpc'[u] = "uncount" => u = LazyFree
      /\ wpc'[LazyFree] = "relock" <=> wpc[LazyFree] = "relock"
  BY <1>4, Width DEF CountInv, IInv, TypeOK
<1>6. Counted' = Counted /\ Creating' = 0 /\ Counted \in Int /\ Creating \in Int
  BY <1>3, <1>5, CorrectionsType DEF Counted, Creating
<1>7. CASE t = LazyFree
  <2>1. bio_jobs[t] \in Seq(Job) /\ bio_jobs'[t] = Append(bio_jobs[t], marg.job)
    BY Zenon, <1>3 DEF IInv, TypeOK
  <2>2. Creating = JobObjs(marg.job)
    BY Zenon, <1>2, <1>3, <1>7 DEF Creating
  <2>3. Total(bio_jobs'[LazyFree], n + Creating)
    BY Zenon, <1>1, <1>3, <1>7, <2>1, <2>2, TotalAppend DEF Counts
  <2>4. PICK k \in Int : k = n + Creating /\ (k - Counted') + Creating' = (n - Counted) + Creating
    BY <1>6
  <2>5. Counts(k)'
    BY Zenon, <1>1, <1>3, <2>3, <2>4 DEF Counts
  <2> QED BY Zenon, <1>5, <2>4, <2>5 DEF CountInv
<1>8. CASE t # LazyFree
  <2>1. bio_jobs'[LazyFree] = bio_jobs[LazyFree]
    BY Zenon, <1>3, <1>8, Width DEF IInv, TypeOK
  <2>2. Creating = 0
    BY Zenon, <1>2, <1>8 DEF Creating
  <2>3. \E m \in Int : Counts(m)'
    BY Zenon, <1>1, <1>3, <1>6, <2>1, <2>2, CountsSame
  <2> QED BY Zenon, <1>5, <2>3 DEF CountInv
<1> QED BY <1>7, <1>8

\* The thread takes the objects off when it has released them, and the job from the
\* list afterwards.
LEMMA UncountCounts == ASSUME IInv, CountInv, NEW t \in Types, WorkerUncount(t) PROVE CountInv'
<1>1. PICK n \in Int : Counts(n)
  BY Zenon DEF CountInv
<1>2. t = LazyFree /\ wpc[LazyFree] = "uncount"
  BY Zenon DEF CountInv, WorkerUncount
<1>3. /\ UNCHANGED <<mpc, marg, bio_jobs, job>>
      /\ lazyfree_objects' = (lazyfree_objects - JobObjs(job[LazyFree])) % SizeMod
      /\ wpc' = [wpc EXCEPT ![LazyFree] = "relock"]
  BY Zenon, <1>2 DEF WorkerUncount, mainVars
<1>4. wpc'[LazyFree] = "relock" /\ \A u \in Types : wpc'[u] = "uncount" => u = LazyFree
  BY <1>3, Width DEF IInv, TypeOK, CountInv
<1>5. PICK j \in Int : j = JobObjs(job[LazyFree])
  <2>1. bio_jobs[LazyFree] \in Seq(Job) /\ bio_jobs[LazyFree] # <<>>
        /\ job[LazyFree] = bio_jobs[LazyFree][1]
    BY Zenon, <1>2, Width DEF IInv, TypeOK, QueueInv, Taken
  <2>2. job[LazyFree] \in Job
    BY <2>1
  <2> QED BY <2>2, JobObjsType
<1>6. Counted = 0 /\ Counted' = j /\ Creating' = Creating /\ Creating \in Int
  BY <1>2, <1>3, <1>4, <1>5, CorrectionsType DEF Counted, Creating
<1>7. lazyfree_objects \in Int /\ lazyfree_objects - j = lazyfree_objects + (- j) /\ - j \in Int
  BY BioAssumption DEF IInv, TypeOK
<1>8. (n - Counted') + Creating' = ((n - Counted) + Creating) + (- j)
  BY <1>6
<1>9. lazyfree_objects' = (lazyfree_objects + (- j)) % SizeMod
  BY Zenon, <1>3, <1>5, <1>7
<1>10. Total(bio_jobs'[LazyFree], n) /\ Counted' \in Int /\ Creating' \in Int
  BY Zenon, <1>1, <1>3, <1>6 DEF Counts
<1>11. \E m \in Int : Counts(m)'
  BY Zenon, <1>1, <1>7, <1>8, <1>9, <1>10, CountsKept
<1> QED BY Zenon, <1>4, <1>11 DEF CountInv

\* The node deleted is the one already counted.
LEMMA DoneCounts == ASSUME IInv, CountInv, NEW t \in Types, WorkerDone(t) PROVE CountInv'
<1>1. PICK n \in Int : Counts(n)
  BY Zenon DEF CountInv
<1>2. /\ wpc[t] = "relock" /\ wpc' = [wpc EXCEPT ![t] = "loop"]
      /\ bio_jobs' = [bio_jobs EXCEPT ![t] = DeleteNode(t)]
      /\ job' = [job EXCEPT ![t] = NoJob]
      /\ UNCHANGED <<marg, lazyfree_objects>>
      /\ mpc' = mpc \/ (mpc = "asleep" /\ mpc' = "woken")
  BY DEF WorkerDone
<1>3. \A u \in Types : wpc'[u] = "uncount" => u = LazyFree
  BY <1>2 DEF IInv, TypeOK, CountInv
<1>4. Creating' = Creating /\ Creating \in Int /\ Counted \in Int
  BY <1>2, CorrectionsType DEF Creating
<1>5. CASE t = LazyFree
  <2>1. PICK q \in Seq(Job) : q = bio_jobs[t]
    BY DEF IInv, TypeOK
  <2>2. q # <<>> /\ job[t] = q[1] /\ Taken(t)
    BY Zenon, <1>2, <2>1 DEF IInv, QueueInv, Taken
  <2>3. bio_jobs'[t] = SubSeq(q, 2, Len(q))
    BY Zenon, <1>2, <2>1, <2>2, DeletedIsHead DEF IInv, TypeOK
  <2>4. Counted = JobObjs(q[1])
    BY Zenon, <1>2, <1>5, <2>2 DEF Counted
  <2>5. wpc'[LazyFree] = "loop"
    BY Zenon, <1>2, <1>5 DEF IInv, TypeOK
  <2>6. Counted' = 0
    BY Zenon, <2>5 DEF Counted
  <2>7. Total(bio_jobs'[LazyFree], n - Counted)
    BY Zenon, <1>1, <1>5, <2>1, <2>2, <2>3, <2>4, TotalTail DEF Counts
  <2>8. PICK k \in Int : k = n - Counted /\ (k - Counted') + Creating' = (n - Counted) + Creating
    BY <1>4, <2>6
  <2>9. Counts(k)'
    BY Zenon, <1>1, <1>2, <2>7, <2>8 DEF Counts
  <2> QED BY Zenon, <1>3, <2>8, <2>9 DEF CountInv
<1>6. CASE t # LazyFree
  <2>1. /\ bio_jobs'[LazyFree] = bio_jobs[LazyFree] /\ job'[LazyFree] = job[LazyFree]
        /\ wpc'[LazyFree] = wpc[LazyFree]
    BY Zenon, <1>2, <1>6, Width DEF IInv, TypeOK
  <2>2. Counted' = Counted
    BY Zenon, <2>1 DEF Counted
  <2>3. \E m \in Int : Counts(m)'
    BY Zenon, <1>1, <1>2, <1>4, <2>1, <2>2, CountsSame
  <2> QED BY Zenon, <1>3, <2>3 DEF CountInv
<1> QED BY <1>5, <1>6

\* All other steps leave the counter, the list and the corrections alone.
LEMMA OtherCounts ==
    ASSUME IInv, CountInv,
           \/ CreateLock \/ WaitLazyFree \/ Poll \/ StepReturn \/ StepSpuriousWakeup
           \/ \E t \in Types : \/ WaitStep(t) \/ WorkerLock(t) \/ WorkerSleep(t) \/ WorkerTake(t)
                               \/ WorkerSpuriousWakeup(t) \/ WorkerProcess(t)
    PROVE  CountInv'
<1>1. PICK n \in Int : Counts(n)
  BY Zenon DEF CountInv
<1>2. UNCHANGED <<bio_jobs, lazyfree_objects>>
  BY Zenon DEF CreateLock, WaitLazyFree, Poll, StepReturn, StepSpuriousWakeup, WaitStep, WorkerLock,
               WorkerSleep, WorkerTake, WorkerSpuriousWakeup, WorkerProcess
<1>3. Creating' = Creating
  <2>1. CASE CreateLock
    <3>1. marg' = marg /\ mpc = "create" /\ mpc' = "enqueue"
      BY Zenon, <2>1 DEF CreateLock
    <3> QED BY <3>1 DEF Creating
  <2>3. CASE \E t \in Types : \/ WorkerLock(t) \/ WorkerSleep(t) \/ WorkerTake(t)
                             \/ WorkerSpuriousWakeup(t) \/ WorkerProcess(t)
    <3>1. UNCHANGED mainVars
      BY Zenon, <2>3 DEF WorkerLock, WorkerSleep, WorkerTake, WorkerSpuriousWakeup, WorkerProcess
    <3> QED BY Zenon, <3>1 DEF Creating, mainVars
  <2>2. CASE \/ WaitLazyFree \/ Poll \/ StepReturn \/ StepSpuriousWakeup
             \/ \E t \in Types : WaitStep(t)
    <3>1. mpc \notin {"create", "enqueue"} /\ mpc' \notin {"create", "enqueue"}
      BY <2>2 DEF WaitLazyFree, Poll, StepReturn, StepSpuriousWakeup, WaitStep
    <3> QED BY Zenon, <3>1 DEF Creating
  <2> QED BY Zenon, <2>1, <2>2, <2>3
<1>4. /\ \A u \in Types : wpc'[u] = "uncount" => u = LazyFree
      /\ Counted' = Counted
  <2>1. CASE UNCHANGED <<wpc, job>>
    BY Zenon, <2>1 DEF CountInv, Counted
  <2>2. ASSUME NEW t \in Types, WorkerLock(t) \/ WorkerSleep(t) \/ WorkerSpuriousWakeup(t)
        PROVE  /\ \A u \in Types : wpc'[u] = "uncount" => u = LazyFree
               /\ Counted' = Counted
    <3>1. PICK w \in {"loop", "asleep", "woken"} :
               wpc' = [wpc EXCEPT ![t] = w] /\ wpc[t] # "relock" /\ job' = job
      BY <2>2 DEF WorkerLock, WorkerSleep, WorkerSpuriousWakeup
    <3>2. /\ \A u \in Types : wpc'[u] = "uncount" => u = LazyFree
          /\ wpc'[LazyFree] = "relock" <=> wpc[LazyFree] = "relock"
      BY Zenon, <3>1, Width DEF CountInv, IInv, TypeOK
    <3> QED BY Zenon, <3>1, <3>2 DEF Counted
  <2>3. ASSUME NEW t \in Types, WorkerTake(t)
        PROVE  /\ \A u \in Types : wpc'[u] = "uncount" => u = LazyFree
               /\ Counted' = Counted
    <3>1. /\ wpc' = [wpc EXCEPT ![t] = "process"] /\ wpc[t] = "loop"
          /\ job' = [job EXCEPT ![t] = Head(bio_jobs[t])]
      BY Zenon, <2>3 DEF WorkerTake
    <3>2. /\ \A u \in Types : wpc'[u] = "uncount" => u = LazyFree
          /\ wpc'[LazyFree] = "relock" <=> wpc[LazyFree] = "relock"
          /\ wpc[LazyFree] = "relock" => job'[LazyFree] = job[LazyFree]
      BY Zenon, <3>1, Width DEF CountInv, IInv, TypeOK
    <3> QED BY Zenon, <3>2 DEF Counted
  <2>4. ASSUME NEW t \in Types, WorkerProcess(t)
        PROVE  /\ \A u \in Types : wpc'[u] = "uncount" => u = LazyFree
               /\ Counted' = Counted
    <3>1. /\ wpc' = [wpc EXCEPT ![t] = IF t = LazyFree THEN "uncount" ELSE "relock"]
          /\ wpc[t] = "process" /\ job' = job
      BY Zenon, <2>4 DEF WorkerProcess
    <3>2. /\ \A u \in Types : wpc'[u] = "uncount" => u = LazyFree
          /\ wpc'[LazyFree] = "relock" <=> wpc[LazyFree] = "relock"
      BY <3>1, Width DEF CountInv, IInv, TypeOK
    <3> QED BY Zenon, <3>1, <3>2 DEF Counted
  <2>5. \/ UNCHANGED <<wpc, job>>
        \/ \E t \in Types : \/ WorkerLock(t) \/ WorkerSleep(t) \/ WorkerSpuriousWakeup(t)
                            \/ WorkerTake(t) \/ WorkerProcess(t)
    BY Zenon DEF CreateLock, WaitLazyFree, Poll, StepReturn, StepSpuriousWakeup, WaitStep
  <2> QED BY Zenon, <2>1, <2>2, <2>3, <2>4, <2>5
<1>5. \E m \in Int : Counts(m)'
  BY Zenon, <1>1, <1>2, <1>3, <1>4, CountsSame
<1> QED BY Zenon, <1>4, <1>5 DEF CountInv

\* The counter is right from the start and stays right.
LEMMA CountInit == Init => CountInv
<1> SUFFICES ASSUME Init PROVE CountInv
  BY Zenon
<1>1. bio_jobs[LazyFree] = <<>> /\ wpc = [t \in Types |-> "start"] /\ Creating = 0
  BY Width DEF Init, Creating
<1>2. Counted = 0 /\ \A t \in Types : wpc[t] # "uncount"
  BY <1>1, Width DEF Counted
<1>3. 0 % SizeMod = 0 /\ (0 - 0) + 0 = 0 /\ lazyfree_objects = 0
  BY Width DEF Init
<1>4. Counts(0)
  BY Zenon, <1>1, <1>2, <1>3, TotalEmpty DEF Counts
<1> QED BY <1>2, <1>4 DEF CountInv

\* Every step of every thread keeps the counter right.
LEMMA CountNext == IInv /\ CountInv /\ [Next]_vars => CountInv'
<1> SUFFICES ASSUME IInv, CountInv, [Next]_vars PROVE CountInv'
  BY Zenon
<1>1. CASE FreeObjAsync
  <2>1. 1 \in 0 .. MaxObjs /\ "object" \in Kinds
    BY BioAssumption DEF Kinds
  <2> QED BY <1>1, <2>1, Width, SubmitCounts DEF FreeObjAsync
<1>2. CASE EmptyDbAsync \/ SlotToKeyFlushAsync
  <2>1. "db" \in Kinds /\ "slots" \in Kinds
    BY DEF Kinds
  <2> QED BY <1>2, <2>1, Width, SubmitCounts DEF EmptyDbAsync, SlotToKeyFlushAsync
<1>3. CASE FileJob
  <2>1. 0 \in 0 .. MaxObjs /\ "fd" \in Kinds
    BY BioAssumption DEF Kinds
  <2> QED BY <1>3, <2>1, SubmitCounts DEF FileJob
<1>4. CASE CreateEnqueue
  BY <1>4, EnqueueCounts
<1>5. CASE \E t \in Types : WorkerUncount(t)
  BY <1>5, UncountCounts
<1>6. CASE \E t \in Types : WorkerDone(t)
  BY <1>6, DoneCounts
<1>7. CASE \/ CreateLock \/ WaitLazyFree \/ Poll \/ StepReturn \/ StepSpuriousWakeup
           \/ \E t \in Types : \/ WaitStep(t) \/ WorkerLock(t) \/ WorkerSleep(t) \/ WorkerTake(t)
                               \/ WorkerSpuriousWakeup(t) \/ WorkerProcess(t)
  BY Zenon, <1>7, OtherCounts
<1>8. CASE UNCHANGED vars
  BY <1>8 DEF vars, CountInv, Counts, Counted, Creating
<1> QED
  BY Zenon, <1>1, <1>2, <1>3, <1>4, <1>5, <1>6, <1>7, <1>8
  DEF Next, MainStep, MainCall, Spurious, WorkerStep

\* lazyfree.c: lazyfree_objects, which INFO reports, is exactly the number of objects
\* announced and not yet released, modulo the width of size_t, whatever the order in
\* which the main thread announces and the thread takes off without a common lock.
THEOREM LazyfreeCounterExactAlways == Spec => []LazyfreeCounterExact
<1>1. Spec => [](IInv /\ CountInv)
  BY InitIInv, NextIInv, CountInit, CountNext, PTL DEF Spec
<1>2. IInv /\ CountInv => LazyfreeCounterExact
  <2> SUFFICES ASSUME IInv, CountInv PROVE LazyfreeCounterExact
    BY Zenon
  <2>1. PICK n \in Int : Counts(n)
    BY Zenon DEF CountInv
  <2>2. bio_jobs[LazyFree] \in Seq(Job)
    BY Zenon, Width DEF IInv, TypeOK
  <2>3. Objs(bio_jobs[LazyFree]) = n
    BY Zenon, <2>1, <2>2, ObjsIsTotal DEF Counts
  <2> QED BY Zenon, <2>1, <2>3 DEF Counts, LazyfreeCounterExact, Outstanding
<1> QED BY <1>1, <1>2, PTL
=============================================================================
