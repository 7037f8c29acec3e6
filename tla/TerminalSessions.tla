-------------------------- MODULE TerminalSessions --------------------------
(***************************************************************************)
(* The companion's terminals (terminal_http.py, terminal.py): a bounded    *)
(* registry of PTY sessions under a guard, each session under a lock, the  *)
(* HTTP handlers that use them, the reaper of idle ones, and the end of    *)
(* the application (app.py).  All run on one event loop and lose control   *)
(* at their awaits only, but a read goes to a thread with the number of    *)
(* its descriptor, which the system gives away again once it is closed.    *)
(***************************************************************************)
EXTENDS Naturals, FiniteSets, Sequences

CONSTANTS
    Handlers,     \* HTTP requests served at the same time
    Reaper,       \* the reaper task, which at the end is the shutdown
    Fds,          \* descriptor numbers
    MaxSessions,  \* 4
    MaxIds,       \* bound: sessions ever opened
    Nil

ASSUME TerminalAssumption ==
    /\ Reaper \notin Handlers
    /\ Nil \notin Handlers \cup {Reaper} \cup Fds
    /\ Nil \notin {"read", "write", "close", "create", "reap", "closeall"}
    /\ MaxSessions \in Nat /\ MaxIds \in Nat

VARIABLES
    up,        \* the application has not begun to stop
    registry,  \* the sessions requests can find
    guard,     \* _guard: the task that holds it, then those that wait, in order
    lock,      \* lock[i]: the same for the lock of session i
    idle,      \* sessions not touched for more than 900 seconds
    master,    \* master[i]: the descriptor of the terminal, Nil once closed
    count,     \* sessions opened so far
    task,      \* task[t]: what t does, how far it is, and with which session
    reaped,    \* sessions closed without a look at their lock; history
    abandoned  \* sessions whose close was cut off by the shutdown; history

tvars == <<up, registry, guard, lock, idle, master, count, task, reaped, abandoned>>

Ids == 1..MaxIds
Tasks == Handlers \cup {Reaper}

\* pc: "guard" and "lock" wait for them; "reap" is between two closes of
\* _reap_locked() or close_all(), with todo still to be closed; "start" and
\* "kill" await a process to start or to die; "io" is inside read() or write().
\* The reaper is at "desktops" while it reaps those, "dead" once that has failed.
Rest == [op |-> Nil, pc |-> "rest", id |-> Nil, todo |-> {}, fd |-> Nil]

At(t, pc) == task[t].pc = pc
Doing(t, op, pc) == task[t].op = op /\ task[t].pc = pc
Becomes(t, r) == task' = [task EXCEPT ![t] = r]
Goes(t, pc) == task' = [task EXCEPT ![t].pc = pc]

TInit ==
    /\ up = TRUE
    /\ registry = {} /\ idle = {}
    /\ guard = <<>> /\ lock = [i \in Ids |-> <<>>]
    /\ master = [i \in Ids |-> Nil] /\ count = 0
    /\ task = [t \in Tasks |-> Rest]
    /\ reaped = {} /\ abandoned = {}

-----------------------------------------------------------------------------
\* The requests, and the reaper every ten seconds.

\* A read or write of a session the registry does not have is answered 404.
Use(t, op, i) ==
    /\ up /\ At(t, "rest")
    /\ i \in registry
    /\ lock' = [lock EXCEPT ![i] = Append(@, t)]
    /\ Becomes(t, [Rest EXCEPT !.op = op, !.pc = "lock", !.id = i])
    /\ UNCHANGED <<up, registry, guard, idle, master, count, reaped, abandoned>>

Ask(t, op, i) ==
    /\ up /\ At(t, "rest")
    /\ guard' = Append(guard, t)
    /\ Becomes(t, [Rest EXCEPT !.op = op, !.pc = "guard", !.id = i])
    /\ UNCHANGED <<up, registry, lock, idle, master, count, reaped, abandoned>>

\* Mutant: close() takes the session out without the guard.
TakeOutAnyway(t) ==
    /\ Doing(t, "close", "guard")
    /\ guard' = SelectSeq(guard, LAMBDA u : u # t)
    /\ registry' = registry \ {task[t].id}
    /\ IF task[t].id \in registry
       THEN lock' = [lock EXCEPT ![task[t].id] = Append(@, t)] /\ Goes(t, "lock")
       ELSE UNCHANGED lock /\ Becomes(t, Rest)
    /\ UNCHANGED <<up, idle, master, count, reaped, abandoned>>

\* close(): the session leaves the registry, then its lock is waited for.
TakeOut(t) ==
    /\ Doing(t, "close", "guard") /\ Head(guard) = t
    /\ guard' = Tail(guard)
    /\ registry' = registry \ {task[t].id}
    /\ IF task[t].id \in registry
       THEN lock' = [lock EXCEPT ![task[t].id] = Append(@, t)] /\ Goes(t, "lock")
       ELSE UNCHANGED lock /\ Becomes(t, Rest)
    /\ UNCHANGED <<up, idle, master, count, reaped, abandoned>>

\* Mutant: sessions in use are passed over, even if the use does not end.
ListUnused(t) ==
    /\ At(t, "guard") /\ task[t].op \in {"create", "reap"} /\ Head(guard) = t
    /\ task' = [task EXCEPT ![t].pc = "reap", ![t].todo = {i \in registry \cap idle : lock[i] = <<>>}]
    /\ UNCHANGED <<up, registry, guard, lock, idle, master, count, reaped, abandoned>>

\* create() and reap() begin with _reap_locked(): what is idle now will be
\* closed, whatever happens to it meanwhile.
ListIdle(t) ==
    /\ At(t, "guard") /\ task[t].op \in {"create", "reap"} /\ Head(guard) = t
    /\ task' = [task EXCEPT ![t].pc = "reap", ![t].todo = registry \cap idle]
    /\ UNCHANGED <<up, registry, guard, lock, idle, master, count, reaped, abandoned>>

\* Mutant: the reaper waits for the session's lock.
CloseNextLocked(t) ==
    /\ At(t, "reap")
    /\ \E i \in task[t].todo :
        /\ lock[i] = <<>>
        /\ registry' = registry \ {i}
        /\ reaped' = reaped \cup {i}
        /\ task' = [task EXCEPT ![t].pc = "kill", ![t].id = i, ![t].todo = @ \ {i}]
    /\ UNCHANGED <<up, guard, lock, idle, master, count, abandoned>>

CloseNext(t) ==
    /\ At(t, "reap")
    /\ \E i \in task[t].todo :
        /\ registry' = registry \ {i}
        /\ reaped' = reaped \cup {i}
        /\ task' = [task EXCEPT ![t].pc = "kill", ![t].id = i, ![t].todo = @ \ {i}]
    /\ UNCHANGED <<up, guard, lock, idle, master, count, abandoned>>

\* The reaper goes on with the desktops.
ReapedAll(t) ==
    /\ Doing(t, "reap", "reap") /\ task[t].todo = {}
    /\ guard' = Tail(guard)
    /\ Becomes(t, [Rest EXCEPT !.op = "reap", !.pc = "desktops"])
    /\ UNCHANGED <<up, registry, lock, idle, master, count, reaped, abandoned>>

\* desktops.reap() returns and the reaper sleeps, or raises and ends its task:
\* nobody starts another one.
DesktopsReaped(t) ==
    /\ Doing(t, "reap", "desktops")
    /\ Becomes(t, Rest) \/ Becomes(t, [Rest EXCEPT !.pc = "dead"])
    /\ UNCHANGED <<up, registry, guard, lock, idle, master, count, reaped, abandoned>>

-----------------------------------------------------------------------------
\* create(), after the reaping.

Full == Cardinality(registry) >= MaxSessions

\* The limit is reached, or the bound MaxIds.
Refuse(t) ==
    /\ Doing(t, "create", "reap") /\ task[t].todo = {}
    /\ Full \/ count = MaxIds
    /\ guard' = Tail(guard)
    /\ Becomes(t, Rest)
    /\ UNCHANGED <<up, registry, lock, idle, master, count, reaped, abandoned>>

Start(t) ==
    /\ Doing(t, "create", "reap") /\ task[t].todo = {}
    /\ ~Full /\ count < MaxIds
    /\ count' = count + 1
    /\ \E f \in Fds \ {master[i] : i \in Ids} : master' = [master EXCEPT ![count'] = f]
    /\ task' = [task EXCEPT ![t].pc = "start", ![t].id = count']
    /\ UNCHANGED <<up, registry, guard, lock, idle, reaped, abandoned>>

Started(t) ==
    /\ At(t, "start")
    /\ registry' = registry \cup {task[t].id}
    /\ guard' = Tail(guard)
    /\ Becomes(t, Rest)
    /\ UNCHANGED <<up, lock, idle, master, count, reaped, abandoned>>

\* Mutant: the descriptors of a terminal without a process stay open.
StartFailsOpen(t) ==
    /\ At(t, "start")
    /\ guard' = Tail(guard)
    /\ Becomes(t, Rest)
    /\ UNCHANGED <<up, registry, lock, idle, master, count, reaped, abandoned>>

StartFails(t) ==
    /\ At(t, "start")
    /\ master' = [master EXCEPT ![task[t].id] = Nil]
    /\ guard' = Tail(guard)
    /\ Becomes(t, Rest)
    /\ UNCHANGED <<up, registry, lock, idle, count, reaped, abandoned>>

-----------------------------------------------------------------------------
\* Inside the lock of a session.

Turn(t) == At(t, "lock") /\ Head(lock[task[t].id]) = t
Released(t) == lock' = [lock EXCEPT ![task[t].id] = Tail(@)]

\* The descriptor is read before the thread runs.  One that is closed makes
\* the read raise and the write do nothing.
Enter(t) ==
    /\ Turn(t) /\ task[t].op \in {"read", "write"}
    /\ idle' = idle \ {task[t].id}
    /\ IF master[task[t].id] = Nil
       THEN Becomes(t, Rest) /\ Released(t)
       ELSE UNCHANGED lock /\ task' = [task EXCEPT ![t].pc = "io", ![t].fd = master[task[t].id]]
    /\ UNCHANGED <<up, registry, guard, master, count, reaped, abandoned>>

Leave(t) ==
    /\ Released(t)
    /\ Becomes(t, Rest)
    /\ UNCHANGED <<up, registry, guard, idle, master, count, reaped, abandoned>>

ReadDone(t) == Doing(t, "read", "io") /\ Leave(t)

\* The shell takes all that is written; it may never do so.
WriteDone(t) == Doing(t, "write", "io") /\ Leave(t)

\* The loop of write() finds that the terminal was closed.
WriteStops(t) == Doing(t, "write", "io") /\ master[task[t].id] = Nil /\ Leave(t)

\* Mutant: close() does not take the lock.
EnterCloseAnyway(t) ==
    /\ Doing(t, "close", "lock")
    /\ Goes(t, "kill")
    /\ UNCHANGED <<up, registry, guard, lock, idle, master, count, reaped, abandoned>>

EnterClose(t) ==
    /\ Turn(t) /\ task[t].op = "close"
    /\ Goes(t, "kill")
    /\ UNCHANGED <<up, registry, guard, lock, idle, master, count, reaped, abandoned>>

\* The end of PtySession.close(): the process has died, of SIGKILL if need be.
Killed(t) ==
    /\ At(t, "kill")
    /\ master' = [master EXCEPT ![task[t].id] = Nil]
    /\ IF task[t].op = "close"
       THEN Released(t) /\ Becomes(t, Rest)
       ELSE UNCHANGED lock /\ Goes(t, "reap")
    /\ UNCHANGED <<up, registry, guard, idle, count, reaped, abandoned>>

-----------------------------------------------------------------------------
\* 900 seconds without a request for the session.
FallIdle(i) ==
    /\ i \in registry \ idle
    /\ idle' = idle \cup {i}
    /\ UNCHANGED <<up, registry, guard, lock, master, count, task, reaped, abandoned>>

\* lifespan() ends when every request has been served: the reaper is cancelled
\* wherever it is, then close_all() empties the registry.
Shutdown ==
    /\ up /\ \A t \in Handlers : At(t, "rest")
    /\ ~At(Reaper, "dead")
    /\ up' = FALSE
    /\ abandoned' = IF At(Reaper, "kill") THEN {task[Reaper].id} ELSE {}
    /\ guard' = <<>>
    /\ registry' = {}
    /\ Becomes(Reaper, [Rest EXCEPT !.op = "closeall", !.pc = "reap", !.todo = registry])
    /\ UNCHANGED <<lock, idle, master, count, reaped>>

\* The await of a reaper that died raises: close_all() is not called.
ShutdownBreaks ==
    /\ up /\ \A t \in Handlers : At(t, "rest")
    /\ At(Reaper, "dead")
    /\ up' = FALSE
    /\ UNCHANGED <<registry, guard, lock, idle, master, count, task, reaped, abandoned>>

\* What a task does on its own, whatever its shell does.
Step(t) ==
    \/ TakeOut(t) \/ ListIdle(t) \/ CloseNext(t) \/ ReapedAll(t) \/ DesktopsReaped(t)
    \/ Refuse(t) \/ Start(t) \/ Started(t) \/ StartFails(t)
    \/ Enter(t) \/ ReadDone(t) \/ WriteStops(t) \/ EnterClose(t) \/ Killed(t)

TNext ==
    \/ \E t \in Handlers :
        \/ \E i \in Ids : Use(t, "read", i) \/ Use(t, "write", i) \/ Ask(t, "close", i)
        \/ Ask(t, "create", Nil)
    \/ Ask(Reaper, "reap", Nil)
    \/ \E t \in Tasks : Step(t) \/ WriteDone(t)
    \/ \E i \in Ids : FallIdle(i)
    \/ Shutdown \/ ShutdownBreaks

TSpec == TInit /\ [][TNext]_tvars

\* The reaper comes round as long as it lives, and the loop runs what is ready;
\* a process starts or fails to, and dies of SIGKILL; os.read() does not block;
\* desktops.reap() returns or raises, for each call of it is limited (see
\* Application).  Nothing is assumed of what a shell does with its input, nor
\* that the reaper lives.
TFairness ==
    /\ WF_tvars(Ask(Reaper, "reap", Nil))
    /\ \A t \in Tasks : WF_tvars(Step(t))

TFairSpec == TSpec /\ TFairness

-----------------------------------------------------------------------------
\* The types of the registry, the locks and the tasks; and what the reaper has
\* listed is still there when its turn comes, so that pop() does not raise and
\* end the reaper's task.
TTypeOK ==
    /\ registry \subseteq Ids /\ idle \subseteq Ids
    /\ guard \in Seq(Tasks)
    /\ lock \in [Ids -> Seq(Tasks)]
    /\ master \in [Ids -> Fds \cup {Nil}]
    /\ count \in 0..MaxIds
    /\ \A t \in Tasks :
          At(t, "reap") \/ At(t, "kill") => task[t].op = "closeall" \/ task[t].todo \subseteq registry

\* The tasks that will see to it that terminal i is registered or closed.
Minders(i) ==
    {t \in Tasks :
        \/ task[t].id = i /\ (task[t].pc \in {"start", "kill"} \/ Doing(t, "close", "lock"))
        \/ task[t].op = "closeall" /\ i \in task[t].todo}

\* No terminal is forgotten and none is closed twice: one that is open is
\* registered or in the hands of exactly one task, however starts fail and
\* closes, reaping and the shutdown interleave; only a close the shutdown cut
\* off is left to the end of the process.
NoOrphans ==
    \A i \in Ids : master[i] # Nil /\ i \notin abandoned =>
        IF i \in registry THEN Minders(i) = {} ELSE Cardinality(Minders(i)) = 1

\* A read in its thread reads the terminal it was asked for: nobody closes the
\* descriptor under it, unless the reaper or the shutdown does, who do not take
\* the lock.
ReadsOwnTerminal ==
    \A t \in Tasks : Doing(t, "read", "io") =>
        task[t].fd = master[task[t].id] \/ task[t].id \in reaped

\* Opening a terminal is answered, and a round of the reaper ends, even if the
\* shells of other sessions never read what is written to them.
CreateEnds ==
    \A t \in Tasks : task[t].op \in {"create", "reap"} ~> task[t].op \notin {"create", "reap"}

\* A session that stays idle is closed, unless its close has been asked for or
\* the reaper died: while it lives, nothing holds it up for ever.
IdleIsClosed ==
    \A i \in Ids :
        i \in registry \cap idle ~>
            \/ i \notin idle \/ master[i] = Nil \/ i \in abandoned \/ At(Reaper, "dead")
            \/ \E t \in Tasks : Doing(t, "close", "lock") /\ task[t].id = i
=============================================================================
