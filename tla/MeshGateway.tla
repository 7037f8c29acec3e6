---------------------------- MODULE MeshGateway -----------------------------
(***************************************************************************)
(* companion/tdeck_companion/mesh_gateway.py: the gateway between the mesh *)
(* and the executor, on one event loop.  Packets come from the radio's     *)
(* thread and are ingested on the loop; a complete request becomes a task, *)
(* which sends the ACK, executes the command and sends the result.  The    *)
(* awaits of a task let packets, other tasks, close() and restarts between. *)
(***************************************************************************)
EXTENDS Reassembly, Naturals

CONSTANTS
    Sources, Sessions, Msgs, Contents, ExitCodes, Nil,  \* as in CommandExecutor
    Tasks,        \* names for the tasks of the gateway
    Allowed,      \* nodes the gateway listens to
    Keyed,        \* nodes whose requests carry an HMAC under the gateway's key
    Ack,          \* the body of CMD_ACK
    MaxRx,        \* messages under reassembly at once (16)
    MaxInflight,  \* tasks at once (4)
    MaxRestarts,   \* bound: restarts of the companion
    MaxLate       \* bound: frames in the loop's queue when close() begins

ASSUME GatewayAssumption ==
    /\ Allowed \subseteq Sources
    /\ MaxRx \in Nat
    /\ MaxInflight \in Nat
    /\ MaxRestarts \in Nat
    /\ MaxLate \in Nat

\* What the executor assumes of the constants it shares.
ASSUME SharedAssumption ==
    LET words == {"timeout", "oserror", "nospawn", "badid", "reused", "indeterminate",
                  "notallowed"} IN
    /\ Msgs \subseteq Nat
    /\ Nil \notin ExitCodes \cup Contents \cup words
    /\ ExitCodes \cap words = {}

VARIABLES
    rxs,       \* rxs[k]: the reassembler of key k, or Nil
    task,     \* task[t]: what the task does, for which key and content
    gw,       \* "up", "closing" (close() waits for its tasks) or "closed"
    late,     \* frames the radio's thread had posted to the loop before close()
    doomed,   \* tasks close() has cancelled and that have not ended yet
    down,     \* reply frames handed to the radio
    restarts,  \* restarts so far
    db, allow, call, runs    \* the executor

gvars == <<rxs, task, gw, late, doomed, down, restarts, db, allow, call, runs>>
xvars == <<db, allow, call, runs>>

Exec == INSTANCE CommandExecutor WITH Calls <- Tasks

Keys == Exec!Keys

NoTask == [phase |-> "none", key |-> Nil, content |-> Nil]

Busy == {t \in Tasks : task[t].phase # "none"}

inflight == {task[t].key : t \in Busy}

GInit ==
    /\ Exec!Init
    /\ rxs = [k \in Keys |-> Nil]
    /\ task = [t \in Tasks |-> NoTask]
    /\ gw = "up"
    /\ late = {}
    /\ doomed = {}
    /\ down = {}
    /\ restarts = 0

-----------------------------------------------------------------------------
\* ingest(): on_packet() posted the frame to the loop while the gateway was
\* not closed; ingest itself does not look at closed.

Posted(f) == gw = "up" \/ f \in late

\* Mutant: the sender is not looked up in the allowed nodes.
HeardFromAnyone(f) == f.kind = "request"

Heard(f) == f.key[1] \in Allowed /\ f.kind = "request"

\* Some reassemblies may be 120 seconds old; all of those are dropped.
Purged(old) == [k \in Keys |-> IF k \in old THEN Nil ELSE rxs[k]]

Open(r) == {k \in Keys : r[k] # Nil}

\* Mutant: a duplicate of a request under way is admitted.
AdmitsDuplicates(k) == Cardinality(inflight) < MaxInflight

\* A complete and authentic request is admitted once at a time, and only while
\* there is room; otherwise it is dropped as if it had never arrived.
Admits(k) == k \notin inflight /\ Cardinality(inflight) < MaxInflight

Authentic(k, got) == k[1] \in Keyed /\ Unsealed(got) # Mixed

Accept(k, x) ==
    IF Admits(k)
    THEN \E t \in Tasks \ Busy :
            /\ \A u \in Tasks \ Busy : t <= u
            /\ task' = [task EXCEPT ![t] = [phase |-> "ack", key |-> k, content |-> x]]
    ELSE UNCHANGED task

\* The chunk goes to the reassembler of its key; a new key needs a free slot.
Ingest(f, old) ==
    /\ Posted(f)
    /\ late' = late \ {f}
    /\ LET r == Purged(old)
           k == f.key
           asm == IF r[k] = Nil THEN Empty ELSE r[k]
           got == Merge(asm, f, FALSE)
       IN
       IF ~Heard(f)
       THEN UNCHANGED <<rxs, task>>
       ELSE IF r[k] = Nil /\ Cardinality(Open(r)) >= MaxRx
       THEN rxs' = r /\ UNCHANGED task
       ELSE IF Complete(got, f)
       THEN /\ rxs' = [r EXCEPT ![k] = Nil]
            /\ IF Authentic(k, got) THEN Accept(k, Unsealed(got)) ELSE UNCHANGED task
       ELSE rxs' = [r EXCEPT ![k] = After(asm, f, FALSE)] /\ UNCHANGED task
    /\ UNCHANGED <<gw, doomed, down, restarts, xvars>>

-----------------------------------------------------------------------------
\* _execute(): acknowledge, execute, reply.

Goes(t, phase) == task' = [task EXCEPT ![t].phase = phase]

\* The task is over: it leaves tasks and inflight.
Ends(t) ==
    /\ task' = [task EXCEPT ![t] = NoTask]
    /\ doomed' = doomed \ {t}

\* What the task hands to the radio next.
Reply(t) ==
    IF task[t].phase = "ack"
    THEN Chunks("ack", task[t].key, Ack)
    ELSE Chunks("result", task[t].key, call[t].answer)

SendAck(t) ==
    /\ task[t].phase = "ack"
    /\ t \notin doomed
    /\ gw # "closed"
    /\ down' = down \cup Reply(t)
    /\ Goes(t, "admit")
    /\ UNCHANGED <<rxs, gw, late, doomed, restarts, xvars>>

Execute(t) ==
    /\ task[t].phase = "admit"
    /\ t \notin doomed
    /\ Exec!Begin(t, task[t].key, task[t].content)
    /\ Goes(t, "execute")
    /\ UNCHANGED <<rxs, gw, late, doomed, down, restarts>>

\* A step of execute() that is not a cancellation.
Inside(t) ==
    /\ t \notin doomed
    /\ UNCHANGED <<rxs, task, gw, late, doomed, down, restarts>>

Starts(t) == Inside(t) /\ (Exec!Spawn(t) \/ Exec!SpawnFails(t))

\* Mutant: the killed process is never waited for.
NeverReaps(t) == Inside(t) /\ Exec!Kill(t)

GivesUp(t) == Inside(t) /\ (Exec!Kill(t) \/ Exec!Reaped(t))

Settles(t) == Inside(t) /\ (Exec!SettleFails(t) \/ \E o \in ExitCodes : Exec!Finish(t, o))

\* The reply is what execute() returned.  All its chunks are handed over; a
\* prefix of them is what is left of it when some are lost.
SendResult(t) ==
    /\ task[t].phase = "execute"
    /\ call[t].pc = "answered"
    /\ t \notin doomed
    /\ gw # "closed"
    /\ down' = down \cup Reply(t)
    /\ Exec!Return(t)
    /\ Ends(t)
    /\ UNCHANGED <<rxs, gw, late, restarts>>

\* sendData raises, or execute() did: the exception ends the task.
TaskFails(t) ==
    /\ t \notin doomed
    /\ \/ task[t].phase = "ack" /\ UNCHANGED call
       \/ call[t].pc \in {"answered", "failed"} /\ Exec!Return(t)
    /\ Ends(t)
    /\ UNCHANGED <<rxs, gw, late, down, restarts, db, allow, runs>>

-----------------------------------------------------------------------------
\* close(): mark, cancel the tasks there are, wait for them, close the radio.

Close(posted) ==
    /\ gw = "up"
    /\ gw' = "closing"
    /\ late' = posted
    /\ doomed' = Busy
    /\ UNCHANGED <<rxs, task, down, restarts, xvars>>

\* Mutant: a task inside execute() swallows the cancellation.
CancelledUnlessLive(t) ==
    /\ t \in doomed
    /\ call[t].pc \notin Exec!Live
    /\ call' = [call EXCEPT ![t] = Exec!Idle]
    /\ Ends(t)
    /\ UNCHANGED <<rxs, gw, late, down, restarts, db, allow, runs>>

\* CancelledError is raised in a cancelled task at its await.  A thread that
\* is sending for it is not stopped by that.
Cancelled(t) ==
    /\ t \in doomed
    /\ \/ /\ task[t].phase = "ack" \/ call[t].pc = "answered"
          /\ down' = down \cup Reply(t)
       \/ UNCHANGED down
    /\ IF call[t].pc \in Exec!Live
       THEN Exec!Cancel(t) /\ UNCHANGED <<task, doomed>>
       ELSE /\ call' = [call EXCEPT ![t] = Exec!Idle]
            /\ Ends(t)
            /\ UNCHANGED <<db, allow, runs>>
    /\ UNCHANGED <<rxs, gw, late, restarts>>

Closed ==
    /\ gw = "closing"
    /\ doomed = {}
    /\ gw' = "closed"
    /\ UNCHANGED <<rxs, task, late, doomed, down, restarts, xvars>>

\* The companion dies, at any time, and is started again.
Restart ==
    /\ restarts < MaxRestarts
    /\ restarts' = restarts + 1
    /\ Exec!CrashRestart
    /\ rxs' = [k \in Keys |-> Nil]
    /\ task' = [t \in Tasks |-> NoTask]
    /\ gw' = "up"
    /\ late' = {}
    /\ doomed' = {}
    /\ UNCHANGED down

TaskStep(t) ==
    \/ SendAck(t)
    \/ Execute(t)
    \/ Starts(t)
    \/ GivesUp(t)
    \/ Settles(t)
    \/ SendResult(t)
    \/ TaskFails(t)
    \/ Cancelled(t)

GNext(frames) ==
    \/ \E f \in frames, old \in SUBSET Open(rxs) : Ingest(f, old)
    \/ \E t \in Tasks : TaskStep(t)
    \/ \E posted \in {p \in SUBSET frames : Cardinality(p) <= MaxLate} : Close(posted)
    \/ Closed
    \/ Restart

\* The loop runs its tasks, sendData returns or raises, and the timers of
\* execute() fire; nothing is assumed of the command or of the radio.
GFairness ==
    /\ WF_gvars(Closed)
    /\ \A t \in Tasks :
          WF_gvars(\/ SendAck(t) \/ TaskFails(t) \/ SendResult(t)
                   \/ Execute(t) \/ Starts(t) \/ GivesUp(t) \/ Cancelled(t))

-----------------------------------------------------------------------------
\* On its own, the gateway hears any chunk of any request.
Requests == UNION {Chunks("request", k, x) : k \in {q \in Keys : q[3] # 0}, x \in Contents}

GSpec == GInit /\ [][GNext(Requests)]_gvars

GFairSpec == GSpec /\ GFairness

-----------------------------------------------------------------------------
\* At most once, end to end in the gateway: duplicated, reordered and late
\* packets, full tables, a close in the middle and restarts never start a
\* second process for a key, and none at all for a node that is not allowed or
\* does not have the key.
GatewayRunsOnce ==
    \A k \in Keys :
        /\ runs[k] <= 1
        /\ k[1] \notin Allowed \cap Keyed => runs[k] = 0

\* The node is told "pending or interrupted; will not execute again" only of a
\* reservation that was in fact interrupted and will stay so; a duplicate that
\* arrives while the first request is still being worked on does not cause it.
IndeterminateIsTrue ==
    \A f \in down :
        f.kind = "result" /\ f.body = "indeterminate" => Exec!Interrupted(f.key)

\* A task that took a request on ends and frees its place, even if its command
\* never does or the gateway is closed meanwhile.
TaskEnds == \A t \in Tasks : t \in Busy ~> t \notin Busy

\* close() returns.
CloseReturns == gw = "closing" ~> gw # "closing"

-----------------------------------------------------------------------------
\* common/protocol.md, CMD_ACK: "complete request received and accepted for
\* execution or deduplicated".  An acknowledged request is not refused as a
\* command that is not allowed.
AckMeansAccepted ==
    \A f \in down :
        f.kind = "ack" => Chunks("result", f.key, "notallowed") \cap down = {}
=============================================================================
