------------------------------- MODULE MCCore -------------------------------
(***************************************************************************)
(* The background threads and the replication backlog, each on an instance *)
(* of its own: "part" says which a behaviour is about.  The lazy free      *)
(* thread and one thread for file jobs; buffers of 2, 3 and 4 bytes, fed   *)
(* up to twice the smallest in one call.                                   *)
(***************************************************************************)
EXTENDS Bio, Backlog

VARIABLE part

coreVars == <<part, vars, backlogVars>>

CoreInit ==
    /\ part \in {"bio", "backlog"}
    /\ Init /\ BacklogInit
    /\ part = "bio" => size = MinSize

CoreNext ==
    /\ UNCHANGED part
    /\ \/ part = "bio" /\ Next /\ UNCHANGED backlogVars
       \/ part = "backlog" /\ BacklogNext /\ UNCHANGED vars

\* Bio!Fairness, asked of the behaviours that are about the threads.
ThreadsRun ==
    LET on == part = "bio" IN
    /\ WF_vars(on /\ CreateEnqueue) /\ SF_vars(on /\ CreateLock)
    /\ SF_vars(on /\ StepReturn)
    /\ SF_vars(on /\ Poll /\ bio_pending[LazyFree] = 0)
    /\ \A t \in Types : /\ WF_vars(on /\ WorkerStep(t))
                        /\ SF_vars(on /\ WorkerLock(t)) /\ SF_vars(on /\ WorkerDone(t))

CoreSpec == CoreInit /\ [][CoreNext]_coreVars /\ ThreadsRun

\* No wake-up is lost and no wait is endless: see Bio!EveryJobProcessed and
\* Bio!PollTerminates (bioCreateBackgroundJob, freeMemoryIfNeeded).
ThreadsGetOn == EveryJobProcessed /\ PollTerminates
=============================================================================
