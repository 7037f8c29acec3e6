--------------------------- MODULE DesktopSessions ---------------------------
(***************************************************************************)
(* The companion's desktops (desktop_http.py, the VNC backend of           *)
(* desktop.py): a registry of two sessions, opened under a guard, each     *)
(* used under its lock.  The calls to the VNC client run in threads, which *)
(* a time limit abandons but does not stop.  What a frame contains is the  *)
(* subject of DesktopSync; here it matters who uses which connection, and  *)
(* when.  Application adds the rest of app.py, and the specification.      *)
(***************************************************************************)
EXTENDS Naturals, FiniteSets, Sequences

CONSTANTS
    Handlers,     \* HTTP requests served at the same time
    Reaper,       \* the reaper task; when the application stops, lifespan()
    MaxDesktops,  \* 2
    MaxIds,       \* bound: connections ever begun
    Nil

ASSUME DesktopAssumption ==
    /\ Reaper \notin Handlers
    /\ Nil \notin Handlers \cup {Reaper}
    /\ MaxDesktops \in Nat /\ MaxIds \in Nat

VARIABLES
    registry,  \* the sessions requests can find
    guard,     \* guard: the task that holds it, then those that wait, in order
    lock,      \* lock[i]: the same for the lock of session i
    idle,      \* sessions not touched for more than 120 seconds
    conn,      \* conn[i]: how far the VNC connection of session i is
    count,     \* connections begun so far
    task       \* task[t]: what t does, how far it is, and with what

sessions == <<registry, guard, lock, idle, conn, count>>

Ids == 1..MaxIds
Tasks == Handlers \cup {Reaper}

\* pc: "guard" and "lock" wait for them; "connect", "call" and "disconnect"
\* await a thread; "reap" is between two closes of reap() or close_all(), with
\* the sessions todo still to be looked at.
Rest == [op |-> Nil, pc |-> "rest", id |-> Nil, todo |-> {}]

At(t, pc) == task[t].pc = pc
Doing(t, op, pc) == task[t].op = op /\ task[t].pc = pc
Goes(t, pc) == task' = [task EXCEPT ![t].pc = pc]
Ends(t) == task' = [task EXCEPT ![t] = Rest]

SessionsInit ==
    /\ registry = {} /\ idle = {}
    /\ guard = <<>> /\ lock = [i \in Ids |-> <<>>]
    /\ conn = [i \in Ids |-> "none"] /\ count = 0

-----------------------------------------------------------------------------
\* create(): everything happens under the guard.

AskCreate(t) ==
    /\ guard' = Append(guard, t)
    /\ task' = [task EXCEPT ![t] = [Rest EXCEPT !.op = "create", !.pc = "guard"]]
    /\ UNCHANGED <<registry, lock, idle, conn, count>>

\* Mutant: one session too many.
FullLater == Cardinality(registry) > MaxDesktops

Full == Cardinality(registry) >= MaxDesktops

\* Mutant: the refusal keeps the guard.
RefuseGuarded(t) ==
    /\ At(t, "guard") /\ Head(guard) = t
    /\ Full \/ count = MaxIds
    /\ Ends(t)
    /\ UNCHANGED sessions

\* The limit is reached, or the bound MaxIds.
Refuse(t) ==
    /\ At(t, "guard") /\ Head(guard) = t
    /\ Full \/ count = MaxIds
    /\ guard' = Tail(guard)
    /\ Ends(t)
    /\ UNCHANGED <<registry, lock, idle, conn, count>>

Connect(t) ==
    /\ At(t, "guard") /\ Head(guard) = t
    /\ ~Full /\ count < MaxIds
    /\ count' = count + 1
    /\ conn' = [conn EXCEPT ![count'] = "connecting"]
    /\ task' = [task EXCEPT ![t].pc = "connect", ![t].id = count']
    /\ UNCHANGED <<registry, guard, lock, idle>>

Connected(t) ==
    /\ At(t, "connect")
    /\ conn' = [conn EXCEPT ![task[t].id] = "open"]
    /\ registry' = registry \cup {task[t].id}
    /\ guard' = Tail(guard)
    /\ Ends(t)
    /\ UNCHANGED <<lock, idle, count>>

\* No VNC host or client is set up, connect() raises, or it takes more than 10
\* seconds and its thread goes on.
ConnectFails(t) ==
    /\ At(t, "connect")
    /\ \E c \in {"closed", "late"} : conn' = [conn EXCEPT ![task[t].id] = c]
    /\ guard' = Tail(guard)
    /\ Ends(t)
    /\ UNCHANGED <<registry, lock, idle, count>>

-----------------------------------------------------------------------------
\* frame() and input(), which wait and hold the lock alike: the session is looked
\* up and its lock asked for in one step.  One the registry does not have is
\* answered 404.
Use(t, i) ==
    /\ i \in registry
    /\ lock' = [lock EXCEPT ![i] = Append(@, t)]
    /\ task' = [task EXCEPT ![t] = [Rest EXCEPT !.op = "use", !.pc = "lock", !.id = i]]
    /\ UNCHANGED <<registry, guard, idle, conn, count>>

\* Mutant: nobody waits at a lock.
NoTurn(t) == At(t, "lock")

Turn(t) == At(t, "lock") /\ Head(lock[task[t].id]) = t
Released(t) == lock' = [lock EXCEPT ![task[t].id] = Tail(@)]

Enter(t) ==
    /\ Turn(t) /\ task[t].op = "use"
    /\ idle' = idle \ {task[t].id}
    /\ Goes(t, "call")
    /\ UNCHANGED <<registry, guard, lock, conn, count>>

\* The thread has returned or raised, or a snapshot has taken 10 seconds: the
\* client was made with a limit of 8, which ends its thread before.
Called(t) ==
    /\ At(t, "call")
    /\ Released(t)
    /\ Ends(t)
    /\ UNCHANGED <<registry, guard, idle, conn, count>>

-----------------------------------------------------------------------------
\* close(): the session leaves the registry and its lock is asked for in one
\* step, by a request or by reap() and close_all().

\* Mutant: the session stays until its lock has been waited for.
TakenLate(i, t) ==
    /\ lock' = [lock EXCEPT ![i] = Append(@, t)]
    /\ UNCHANGED <<registry, idle>>

Taken(i, t) ==
    /\ registry' = registry \ {i}
    /\ idle' = idle \ {i}
    /\ lock' = [lock EXCEPT ![i] = Append(@, t)]

AskClose(t, i) ==
    /\ i \in registry
    /\ Taken(i, t)
    /\ task' = [task EXCEPT ![t] = [Rest EXCEPT !.op = "close", !.pc = "lock", !.id = i]]
    /\ UNCHANGED <<guard, conn, count>>

\* The sessions reap() and close_all() listed are looked at in the order in
\* which they were opened.
First(t, i) == At(t, "reap") /\ i \in task[t].todo /\ \A j \in task[t].todo : i <= j

\* Mutant: the age is compared the wrong way round.
DueIfFresh(t, i) == i \in registry /\ (task[t].op = "reap" => i \notin idle)

\* Whether it is idle is seen when its turn comes; one that has been taken
\* meanwhile is passed over.
Due(t, i) == i \in registry /\ (task[t].op = "reap" => i \in idle)

ReapNext(t, i) ==
    /\ First(t, i)
    /\ IF Due(t, i)
       THEN /\ Taken(i, t)
            /\ task' = [task EXCEPT ![t].pc = "lock", ![t].id = i, ![t].todo = @ \ {i}]
       ELSE /\ task' = [task EXCEPT ![t].todo = @ \ {i}]
            /\ UNCHANGED <<registry, idle, lock>>
    /\ UNCHANGED <<guard, conn, count>>

Closers == {"close", "reap", "closeall"}

EnterClose(t) ==
    /\ Turn(t) /\ task[t].op \in Closers
    /\ Goes(t, "disconnect")
    /\ UNCHANGED sessions

\* What the task goes on with after a close.
Onward(t) == IF task[t].op = "close" THEN Ends(t) ELSE Goes(t, "reap")

Disconnected(t) ==
    /\ At(t, "disconnect")
    /\ conn' = [conn EXCEPT ![task[t].id] = "closed"]
    /\ Released(t)
    /\ Onward(t)
    /\ UNCHANGED <<registry, guard, idle, count>>

\* disconnect() raises: the lock is released, and reap() or close_all() ends.
DisconnectRaises(t) ==
    /\ At(t, "disconnect")
    /\ conn' = [conn EXCEPT ![task[t].id] = "leaked"]
    /\ Released(t)
    /\ IF task[t].op = "close" THEN Ends(t) ELSE Goes(t, "dead")
    /\ UNCHANGED <<registry, guard, idle, count>>

-----------------------------------------------------------------------------
\* A thread nobody waits for returns.  A connection that comes about so late
\* belongs to no session.
StrayReturns(i) ==
    /\ \/ conn[i] = "late" /\ \E c \in {"leaked", "closed"} : conn' = [conn EXCEPT ![i] = c]
       \/ conn[i] = "closing" /\ conn' = [conn EXCEPT ![i] = "closed"]
    /\ UNCHANGED <<registry, guard, lock, idle, count, task>>

\* 120 seconds without a request for the session.
FallIdle(i) ==
    /\ i \in registry \ idle
    /\ idle' = idle \cup {i}
    /\ UNCHANGED <<registry, guard, lock, conn, count, task>>

\* What a task does on its own.
SessionStep(t) ==
    \/ Refuse(t) \/ Connect(t) \/ Connected(t) \/ ConnectFails(t)
    \/ Enter(t) \/ Called(t)
    \/ \E i \in Ids : ReapNext(t, i)
    \/ EnterClose(t) \/ Disconnected(t) \/ DisconnectRaises(t)

-----------------------------------------------------------------------------
\* The tasks that will see to it that connection i is registered or closed.
Minders(i) ==
    {t \in Tasks :
        /\ task[t].id = i
        /\ \/ task[t].pc \in {"connect", "disconnect"}
           \/ task[t].op \in Closers /\ At(t, "lock")}

\* The limit of two counts the connection that is being made, whatever is
\* closed, reaped or given up on meanwhile.
DesktopsWithinLimit ==
    Cardinality(registry) + Cardinality({t \in Tasks : At(t, "connect")}) <= MaxDesktops

\* Every connection is registered or in the hands of exactly one task; only one
\* whose connect() outlived its caller ("late"), or whose disconnect() raised or
\* was cut off by the shutdown ("leaked", "closing"), is not.
ConnectionsAreMinded ==
    \A i \in Ids : conn[i] \in {"connecting", "open"} =>
        IF i \in registry THEN Minders(i) = {} ELSE Cardinality(Minders(i)) = 1

\* A frame or an input that waits at the lock of a session being closed is
\* served before it is closed, never on a closed connection, and no two tasks
\* use a connection at once.
CallsAreExclusive ==
    \A t \in Tasks : At(t, "call") \/ At(t, "disconnect") =>
        /\ conn[task[t].id] = "open"
        /\ \A u \in Tasks \ {t} : At(u, "call") \/ At(u, "disconnect") =>
              task[u].id # task[t].id
=============================================================================
