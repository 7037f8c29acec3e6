----------------------------- MODULE Application -----------------------------
(***************************************************************************)
(* The companion's application (app.py): the AI jobs, the reaper that      *)
(* looks at terminals, desktops and jobs in turn, and the end of all of    *)
(* it, together with the desktops it reaps and closes.  The terminals are  *)
(* an await that returns or raises: see TerminalSessions.                  *)
(***************************************************************************)
EXTENDS DesktopSessions

CONSTANTS
    MaxJobs,   \* 8, kept at the same time
    MaxStarts  \* bound: jobs ever started

ASSUME ApplicationAssumption == MaxJobs \in Nat /\ MaxStarts \in Nat

VARIABLES
    app,      \* "up", then "stopping" and "stopped"
    jobs,     \* the jobs requests can find
    old,      \* jobs created more than 180 seconds ago
    job       \* job[j]: the task that talks to the model

Jobs == 1..MaxStarts

avars == <<sessions, task, app, jobs, old, job>>

ai == <<jobs, old, job>>

AInit ==
    /\ SessionsInit
    /\ task = [t \in Tasks |-> Rest]
    /\ app = "up"
    /\ jobs = {} /\ old = {}
    /\ job = [j \in Jobs |-> "none"]

Free(t) == app = "up" /\ At(t, "rest")

Running(j) == job[j] = "running"

\* What becomes of a task that is cancelled: it is unwound at its next step.
Cancelled(state) == IF state = "running" THEN "cancelled" ELSE state

-----------------------------------------------------------------------------
\* The AI endpoints.

\* Mutant: only the jobs kept are counted.
KeptOnly == Cardinality(jobs) >= MaxJobs

\* One that runs, or as many as are kept.  A job that was taken out of the
\* table does not count, even if it is not unwound yet.
Busy == (\E j \in jobs : Running(j)) \/ Cardinality(jobs) >= MaxJobs

\* ai_start(): no await between the check and the new task, after the body.
StartJob(j) ==
    /\ app = "up" /\ ~Busy
    /\ job[j] = "none" /\ \A i \in 1..(j - 1) : job[i] # "none"
    /\ job' = [job EXCEPT ![j] = "running"]
    /\ jobs' = jobs \cup {j}
    /\ UNCHANGED <<sessions, task, app, old>>

\* The model answers, fails, or takes 95 seconds.
JobEnds(j) ==
    /\ Running(j)
    /\ job' = [job EXCEPT ![j] = "done"]
    /\ UNCHANGED <<sessions, task, app, jobs, old>>

Unwinds(j) ==
    /\ job[j] = "cancelled"
    /\ job' = [job EXCEPT ![j] = "done"]
    /\ UNCHANGED <<sessions, task, app, jobs, old>>

\* Mutant: a job that runs is not cancelled.
ForgetJob(j) == UNCHANGED job

CancelJob(j) == job' = [job EXCEPT ![j] = Cancelled(@)]

\* ai_close().
CloseJob(t, j) ==
    /\ Free(t)
    /\ j \in jobs
    /\ jobs' = jobs \ {j}
    /\ old' = old \ {j}
    /\ CancelJob(j)
    /\ task' = [task EXCEPT ![t] = [Rest EXCEPT !.op = "ai_close", !.pc = "gather", !.id = j]]
    /\ UNCHANGED <<sessions, app>>

JobGathered(t) ==
    /\ Doing(t, "ai_close", "gather") /\ job[task[t].id] = "done"
    /\ Ends(t)
    /\ UNCHANGED <<sessions, app, ai>>

\* 180 seconds since the job was created.
JobAges(j) ==
    /\ j \in jobs \ old
    /\ old' = old \cup {j}
    /\ UNCHANGED <<sessions, task, app, jobs, job>>

-----------------------------------------------------------------------------
\* The desktop endpoints, while the application is up.
Request(t) ==
    /\ Free(t)
    /\ \/ AskCreate(t)
       \/ \E i \in Ids : Use(t, i) \/ AskClose(t, i)
    /\ UNCHANGED <<app, ai>>

-----------------------------------------------------------------------------
\* reap(): every ten seconds, the terminals, the desktops, the jobs.

Wake ==
    /\ Free(Reaper)
    /\ task' = [task EXCEPT ![Reaper] = [Rest EXCEPT !.op = "reap", !.pc = "terms"]]
    /\ UNCHANGED <<sessions, app, ai>>

\* terms.reap() returns, or raises and ends the reaper.
TermsReaped ==
    /\ Doing(Reaper, "reap", "terms")
    /\ \/ task' = [task EXCEPT ![Reaper].pc = "reap", ![Reaper].todo = registry]
       \/ Goes(Reaper, "dead")
    /\ UNCHANGED <<sessions, app, ai>>

\* Mutant: the jobs are dropped from the table only.
DropOld ==
    /\ jobs' = jobs \ old
    /\ UNCHANGED job

ReapOld ==
    /\ jobs' = jobs \ old
    /\ job' = [j \in Jobs |-> IF j \in old THEN Cancelled(job[j]) ELSE job[j]]

\* After the last desktop; no await here, so nothing is between.
ReapJobs ==
    /\ Doing(Reaper, "reap", "reap") /\ task[Reaper].todo = {}
    /\ ReapOld
    /\ old' = {}
    /\ Ends(Reaper)
    /\ UNCHANGED <<sessions, app>>

-----------------------------------------------------------------------------
\* The end of lifespan(), once every request has been served.

\* The await of a reaper that died raises, and nothing more is done.
ShutdownBreaks ==
    /\ app = "up" /\ \A t \in Handlers : At(t, "rest")
    /\ At(Reaper, "dead")
    /\ app' = "stopped"
    /\ UNCHANGED <<sessions, task, ai>>

\* Otherwise the reaper is cancelled: a disconnect goes on in its thread, the
\* lock is released.  No lock is held by others, so it does not wait at one.
\* All jobs are cancelled.
Shutdown ==
    /\ app = "up" /\ \A t \in Handlers : At(t, "rest")
    /\ ~At(Reaper, "dead") /\ ~At(Reaper, "lock")
    /\ app' = "stopping"
    /\ IF At(Reaper, "disconnect")
       THEN conn' = [conn EXCEPT ![task[Reaper].id] = "closing"] /\ Released(Reaper)
       ELSE UNCHANGED <<conn, lock>>
    /\ job' = [j \in Jobs |-> IF j \in jobs THEN Cancelled(job[j]) ELSE job[j]]
    /\ task' = [task EXCEPT ![Reaper] = [Rest EXCEPT !.op = "closeall", !.pc = "gather"]]
    /\ UNCHANGED <<registry, guard, idle, count, jobs, old>>

\* Mutant: nobody waits for the jobs that were cancelled.
AllAsked == TRUE

AllGathered == \A j \in jobs : job[j] = "done"

\* Then terms.close_all(), which returns or raises, then desktops.close_all().
Gathered ==
    /\ Doing(Reaper, "closeall", "gather") /\ AllGathered
    /\ \/ task' = [task EXCEPT ![Reaper].pc = "reap", ![Reaper].todo = registry]
       \/ Goes(Reaper, "dead")
    /\ UNCHANGED <<sessions, app, ai>>

Stopped ==
    /\ app = "stopping"
    /\ At(Reaper, "dead") \/ (At(Reaper, "reap") /\ task[Reaper].todo = {})
    /\ app' = "stopped"
    /\ UNCHANGED <<sessions, task, ai>>

-----------------------------------------------------------------------------
\* What task t does on its own.
Step(t) ==
    \/ SessionStep(t) /\ UNCHANGED <<app, ai>>
    \/ JobGathered(t)

Reaping == Wake \/ TermsReaped \/ ReapJobs \/ Gathered \/ Stopped

ANext ==
    \/ \E j \in Jobs : StartJob(j) \/ JobEnds(j) \/ Unwinds(j) \/ JobAges(j)
    \/ \E t \in Handlers :
        \/ Request(t)
        \/ \E j \in Jobs : CloseJob(t, j)
    \/ \E t \in Tasks : Step(t)
    \/ \E i \in Ids : (FallIdle(i) \/ StrayReturns(i)) /\ UNCHANGED <<app, ai>>
    \/ Reaping \/ Shutdown \/ ShutdownBreaks

ASpec == AInit /\ [][ANext]_avars

\* The loop runs what is ready; a call to the VNC client ends, because the
\* client was made with a limit of 8 seconds; the model is waited for for 95
\* seconds at most; time passes and the reaper comes round.
AFairness ==
    /\ WF_avars(\E j \in Jobs : JobEnds(j) \/ Unwinds(j))
    /\ WF_avars(\E j \in Jobs : JobAges(j))
    /\ \A t \in Handlers : WF_avars(Step(t))
    /\ WF_avars(Step(Reaper) \/ Reaping)

AFairSpec == ASpec /\ AFairness

-----------------------------------------------------------------------------
\* While the application is up a job that can be found is not cancelled, so
\* that ai_poll() does not meet a CancelledError, and one that cannot be found
\* does not go on unless it is being unwound: closing, reaping and ending
\* interleave, and a second prompt runs only beside such a one.
JobsAreMinded ==
    /\ app = "up" => \A j \in Jobs :
          /\ j \in jobs => job[j] # "cancelled"
          /\ Running(j) => j \in jobs
    /\ Cardinality({j \in Jobs : Running(j)}) <= 1

\* When the application has stopped, every job it knew has ended and every
\* connection is closed, except by threads that outlive it; unless an exception
\* ended the reaper or the shutdown.
StopLeavesNothing ==
    app = "stopped" /\ ~At(Reaper, "dead") =>
        /\ \A j \in jobs : job[j] = "done"
        /\ registry = {}
        /\ \A i \in Ids : conn[i] \notin {"connecting", "open"}

\* No request waits for ever, at the guard, at a lock or for a job, and neither
\* does the end of the application.
RequestsEnd ==
    /\ \A t \in Handlers : ~At(t, "rest") ~> At(t, "rest")
    /\ app = "stopping" ~> app = "stopped"

\* A table full of jobs that nobody closes empties and a desktop nobody looks
\* at is closed, as long as the reaper lives: nothing it waits for holds it up
\* for ever.
IdleIsReaped ==
    LET over == app # "up" \/ At(Reaper, "dead") IN
    /\ Cardinality(jobs) >= MaxJobs ~> Cardinality(jobs) < MaxJobs \/ over
    /\ \A i \in Ids : i \in registry \cap idle ~> i \notin registry \cap idle \/ over

=============================================================================
