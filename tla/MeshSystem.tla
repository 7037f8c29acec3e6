----------------------------- MODULE MeshSystem -----------------------------
(***************************************************************************)
(* The mesh fallback end to end: one handheld (PocketMesh), the gateway    *)
(* and executor on the companion (MeshGateway), and the air between them.  *)
(* up and down hold every frame ever handed to a radio; either side may    *)
(* receive any of them, in any order, again, much later, or never.         *)
(***************************************************************************)
EXTENDS Reassembly, Sequences

CONSTANTS
    Node, Contents, ExitCodes, Ack, Nil, IdSpace, Seeds, NumSessions,
    MaxTries, Depth, Tasks, MaxRx, MaxInflight,
    MaxBoots, MaxRequests, MaxRestarts, MaxLate

VARIABLES
    ui, outstanding, outbound, inbound, pending, boot, id, nextId, tries, chunk,
    silent, rx, log,                                   \* the handheld
    rxs, task, gw, late, doomed, restarts,              \* the gateway
    db, allow, call, runs,                             \* the executor
    up, down                                           \* the air

G == INSTANCE MeshGateway WITH
    Sources <- {Node},
    Sessions <- 1..NumSessions,
    Msgs <- 0..(IdSpace - 1),
    Allowed <- {Node},
    Keyed <- {Node}

H == INSTANCE PocketMesh WITH Replies <- G!Exec!Outcomes \cup G!Exec!Refusals

hvars == <<ui, outstanding, outbound, inbound, pending, boot, id, nextId, tries,
           chunk, silent, rx, up, log>>
gvars == <<rxs, task, gw, late, doomed, down, restarts, db, allow, call, runs>>
svars == <<hvars, gvars>>

\* What both sides assume of the constants; a text the handheld writes itself is
\* told apart from what a command answers.
ASSUME SystemAssumption ==
    /\ H!PocketMeshAssumption
    /\ H!NumbersAssumption
    /\ G!GatewayAssumption
    /\ G!SharedAssumption
    /\ "noresult" \notin ExitCodes

SInit == H!HInit /\ G!GInit

\* The handheld moves, or hears a frame the gateway sent.
Handheld ==
    /\ \/ H!UiStep
       \/ H!MeshStep
       \/ H!Reboot
       \/ \E f \in down, old \in BOOLEAN : H!Receive(f, old)
    /\ UNCHANGED gvars

\* The companion moves, or hears a frame the handheld sent.
Companion == G!GNext(up) /\ UNCHANGED hvars

SNext == Handheld \/ Companion

SSpec == SInit /\ [][SNext]_svars

-----------------------------------------------------------------------------
\* What the handheld shows as the end of a request is the truth about that
\* request: an exit is the recorded outcome of that very content, and a notice
\* of interruption is of a reservation that stays interrupted.
ReportIsTrue ==
    \A i \in 1..Len(log) :
        LET row == db[log[i].key] IN
        /\ log[i].end \in G!Exec!Outcomes =>
              row = [state |-> "done", content |-> log[i].content, outcome |-> log[i].end]
        /\ log[i].end = "indeterminate" => G!Exec!Interrupted(log[i].key)

\* The companion runs only what the user asked for, and each request at most
\* once: a process for a key means a request was sent under it, with the
\* content the row records.
RunsWereAsked ==
    \A k \in G!Keys :
        /\ runs[k] <= 1
        /\ runs[k] = 1 =>
              \E i \in 1..Len(log) :
                  log[i].key = k /\ db[k].content = log[i].content

\* The handheld's choice of keys keeps it clear of the executor's refusals: no
\* request is turned down as a reused or invalid message number.
NeverReused ==
    \A f \in down : f.kind = "result" => f.body \notin {"reused", "badid"}

\* A request the handheld has not sent in full is not on the companion's table.
\* What stays unsent when the handheld reboots never runs.
OnlyCompleteRequestsCount ==
    \A k \in G!Keys :
        db[k].state # "absent" => H!Chunks("request", k, db[k].content) \subseteq up

\* End to end, the system still implements the abstract ledger.
SystemImplementsLedger == G!Exec!ImplementsLedger
=============================================================================
