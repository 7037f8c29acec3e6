-------------------------- MODULE MeshSystemProofs --------------------------
(***************************************************************************)
(* The handheld, the gateway and the air together, for any sizes: what     *)
(* the handheld shows is what the table says, and the table says only what *)
(* the user asked for.                                                     *)
(*                                                                         *)
(* Each side keeps its own invariant whatever it hears of the other: the   *)
(* gateway's is about the frames in up, the handheld's about those in      *)
(* down.  HP and GP are the two sides with the results proved of them.     *)
(***************************************************************************)
EXTENDS MeshSystem, TLAPS

GP == INSTANCE MeshGatewayProofs WITH
    Sources <- {Node},
    Sessions <- 1..NumSessions,
    Msgs <- 0..(IdSpace - 1),
    Allowed <- {Node},
    Keyed <- {Node}

HP == INSTANCE PocketMeshProofs WITH Replies <- G!Exec!Outcomes \cup G!Exec!Refusals

-----------------------------------------------------------------------------
\* The two sides' assumptions hold.
LEMMA HandheldAssumes == HP!SizeAssumption /\ HP!PocketMeshAssumption /\ HP!NumbersAssumption
BY SystemAssumption, SizeAssumption
DEF HP!PocketMeshAssumption, HP!NumbersAssumption, HP!SizeAssumption, H!PocketMeshAssumption,
    H!NumbersAssumption, Bodies, HP!Bodies, H!Bodies

LEMMA GatewayAssumes == GP!SizeAssumption /\ GP!GatewayAssumption /\ GP!SharedAssumption
BY SystemAssumption, SizeAssumption
DEF GP!GatewayAssumption, GP!SharedAssumption, GP!SizeAssumption, G!GatewayAssumption,
    G!SharedAssumption, Bodies, GP!Bodies, G!Bodies

\* What they share of Reassembly is the same.
LEMMA SameChunks ==
    \A kind, k, b :
        /\ H!Chunks(kind, k, b) = Chunks(kind, k, b) /\ HP!Chunks(kind, k, b) = Chunks(kind, k, b)
        /\ G!Chunks(kind, k, b) = Chunks(kind, k, b) /\ GP!Chunks(kind, k, b) = Chunks(kind, k, b)
BY DEF H!Chunks, HP!Chunks, G!Chunks, GP!Chunks, Chunks,
       H!Chunk, HP!Chunk, G!Chunk, GP!Chunk, Chunk

\* Each instance counts alike.
LEMMA SameCardinality ==
    ASSUME NEW S
    PROVE  H!Cardinality(S) = HP!Cardinality(S) /\ G!Cardinality(S) = GP!Cardinality(S)
<1>1. H!Cardinality(S) = HP!Cardinality(S)
  BY Zenon DEF H!Cardinality, HP!Cardinality, H!IsFiniteSet, HP!IsFiniteSet
<1>2. G!Cardinality(S) = GP!Cardinality(S)
  BY Zenon DEF G!Cardinality, GP!Cardinality, G!IsFiniteSet, GP!IsFiniteSet
<1> QED BY <1>1, <1>2

\* Both ends put chunks together as they do in their own modules.
LEMMA SameReassembly ==
    ASSUME NEW asm, NEW f, NEW old, NEW got
    PROVE  /\ H!Merge(asm, f, old) = HP!Merge(asm, f, old) /\ H!After(asm, f, old) = HP!After(asm, f, old)
           /\ G!Merge(asm, f, old) = GP!Merge(asm, f, old) /\ G!After(asm, f, old) = GP!After(asm, f, old)
           /\ H!Unsealed(got) = HP!Unsealed(got) /\ G!Unsealed(got) = GP!Unsealed(got)
           /\ H!Complete(got, f) <=> HP!Complete(got, f)
           /\ G!Complete(got, f) <=> GP!Complete(got, f)
<1>1. H!Merge(asm, f, old) = HP!Merge(asm, f, old)
  BY Zenon DEF H!Merge, HP!Merge, H!Tag, HP!Tag
<1>2. G!Merge(asm, f, old) = GP!Merge(asm, f, old)
  BY Zenon DEF G!Merge, GP!Merge, G!Tag, GP!Tag
<1>3. H!After(asm, f, old) = HP!After(asm, f, old)
  BY <1>1, SameCardinality, Zenon DEF H!After, HP!After, H!Complete, HP!Complete, H!Empty, HP!Empty, H!Tag, HP!Tag
<1>4. G!After(asm, f, old) = GP!After(asm, f, old)
  BY <1>2, SameCardinality, Zenon DEF G!After, GP!After, G!Complete, GP!Complete, G!Empty, GP!Empty, G!Tag, GP!Tag
<1>5. H!Unsealed(got) = HP!Unsealed(got)
  BY Zenon DEF H!Unsealed, HP!Unsealed, H!Bodies, HP!Bodies
<1>6. G!Unsealed(got) = GP!Unsealed(got)
  BY Zenon DEF G!Unsealed, GP!Unsealed, G!Bodies, GP!Bodies
<1>7. /\ H!Complete(got, f) <=> HP!Complete(got, f)
      /\ G!Complete(got, f) <=> GP!Complete(got, f)
  BY SameCardinality DEF H!Complete, HP!Complete, G!Complete, GP!Complete
<1> QED BY <1>1, <1>2, <1>3, <1>4, <1>5, <1>6, <1>7

-----------------------------------------------------------------------------
\* The handheld of the system is the one of PocketMeshProofs.

LEMMA SameHInit == H!HInit => HP!HInit
BY DEF H!HInit, HP!HInit, H!Empty, HP!Empty

LEMMA SameUiStep == H!UiStep => HP!UiStep
BY DEF H!UiStep, HP!UiStep, H!Claim, HP!Claim, H!Enqueue, HP!Enqueue, H!TakeResult, HP!TakeResult

LEMMA SameMeshStep == H!MeshStep => HP!MeshStep
<1>1. H!Take => HP!Take
  BY DEF H!Take, HP!Take, H!NextId, HP!NextId, H!Session, HP!Session, H!Chunk, HP!Chunk
<1>2. H!SendChunk => HP!SendChunk
  BY DEF H!SendChunk, HP!SendChunk, H!Key, HP!Key, H!Session, HP!Session, H!Chunk, HP!Chunk
<1>3. (H!FallSilent => HP!FallSilent) /\ (H!Retry => HP!Retry)
  BY DEF H!FallSilent, HP!FallSilent, H!Retry, HP!Retry, H!AllSent, HP!AllSent, H!Told, HP!Told
<1>4. H!GiveUp => HP!GiveUp
  BY DEF H!GiveUp, HP!GiveUp, H!AllSent, HP!AllSent, H!Finish, HP!Finish, H!Told, HP!Told,
         H!Empty, HP!Empty
<1> QED BY <1>1, <1>2, <1>3, <1>4 DEF H!MeshStep, HP!MeshStep

LEMMA SameReboot == H!Reboot => HP!Reboot
BY DEF H!Reboot, HP!Reboot, H!Empty, HP!Empty

LEMMA SameReceive == ASSUME NEW f, NEW old, H!Receive(f, old) PROVE HP!Receive(f, old)
<1>1. H!Merge(rx, f, old) = HP!Merge(rx, f, old)
  BY SameReassembly
<1>2. H!After(rx, f, old) = HP!After(rx, f, old)
  BY SameReassembly
<1>3. \A got : (H!Complete(got, f) <=> HP!Complete(got, f)) /\ H!Unsealed(got) = HP!Unsealed(got)
  BY SameReassembly
<1>4. \A kind, body : H!Accept(kind, body) => HP!Accept(kind, body)
  BY DEF H!Accept, HP!Accept, H!Finish, HP!Finish, H!Told, HP!Told, H!Empty, HP!Empty
<1>5. H!Expected(f) => HP!Expected(f)
  BY DEF H!Expected, HP!Expected, H!Key, HP!Key, H!Session, HP!Session
<1> QED BY <1>1, <1>2, <1>3, <1>4, <1>5 DEF H!Receive, HP!Receive

-----------------------------------------------------------------------------
\* The gateway of the system is the one of MeshGatewayProofs.

LEMMA SameGInit == G!GInit => GP!GInit
BY DEF G!GInit, GP!GInit, G!NoTask, GP!NoTask, G!Keys, GP!Keys, G!Exec!Keys, GP!Exec!Keys,
       G!Exec!Init, GP!Exec!Init, G!Exec!NoRow, GP!Exec!NoRow, G!Exec!Idle, GP!Exec!Idle

LEMMA SameBusy == G!Busy = GP!Busy /\ G!inflight = GP!inflight
BY DEF G!Busy, GP!Busy, G!inflight, GP!inflight

LEMMA SameIngest == ASSUME NEW f, NEW old, G!Ingest(f, old) PROVE GP!Ingest(f, old)
<1>1. /\ G!Purged(old) = GP!Purged(old) /\ (G!Posted(f) <=> GP!Posted(f)) /\ (G!Heard(f) <=> GP!Heard(f))
      /\ G!Empty = GP!Empty /\ \A r : G!Open(r) = GP!Open(r)
  BY DEF G!Purged, GP!Purged, G!Posted, GP!Posted, G!Heard, GP!Heard, G!Empty, GP!Empty, G!Open, GP!Open,
         G!Keys, GP!Keys, G!Exec!Keys, GP!Exec!Keys
<1>2. \A asm : /\ G!Merge(asm, f, FALSE) = GP!Merge(asm, f, FALSE)
               /\ G!After(asm, f, FALSE) = GP!After(asm, f, FALSE)
  BY SameReassembly, Zenon
<1>3. \A got : /\ G!Complete(got, f) <=> GP!Complete(got, f)
               /\ G!Unsealed(got) = GP!Unsealed(got)
  BY SameReassembly
<1>4. \A got : G!Authentic(f.key, got) <=> GP!Authentic(f.key, got)
  BY <1>3 DEF G!Authentic, GP!Authentic
<1>5. \A k, x : G!Accept(k, x) => GP!Accept(k, x)
  <2>1. \A k : G!Admits(k) <=> GP!Admits(k)
    BY SameBusy, SameCardinality DEF G!Admits, GP!Admits
  <2> QED BY <2>1, SameBusy DEF G!Accept, GP!Accept
<1>6. \A r : G!Cardinality(G!Open(r)) = GP!Cardinality(GP!Open(r))
  BY <1>1, SameCardinality
<1> QED BY <1>1, <1>2, <1>3, <1>4, <1>5, <1>6 DEF G!Ingest, GP!Ingest, G!xvars, GP!xvars

LEMMA SameTaskStep == ASSUME NEW t \in Tasks, G!TaskStep(t) PROVE GP!TaskStep(t)
<1>1. /\ G!Reply(t) = GP!Reply(t) /\ (G!Ends(t) <=> GP!Ends(t)) /\ (G!Inside(t) <=> GP!Inside(t))
      /\ \A phase : G!Goes(t, phase) <=> GP!Goes(t, phase)
  BY SameChunks DEF G!Reply, GP!Reply, G!Ends, GP!Ends, G!NoTask, GP!NoTask, G!Inside, GP!Inside,
                    G!Goes, GP!Goes
<1>2. G!SendAck(t) => GP!SendAck(t)
  BY <1>1 DEF G!SendAck, GP!SendAck, G!xvars, GP!xvars
<1>3. G!Execute(t) => GP!Execute(t)
  <2>1. ASSUME NEW k, NEW x, G!Exec!Begin(t, k, x) PROVE GP!Exec!Begin(t, k, x)
    <3>1. G!Exec!Immediate(k, x) = GP!Exec!Immediate(k, x)
      BY DEF G!Exec!Immediate, GP!Exec!Immediate, G!Exec!Lookup, GP!Exec!Lookup
    <3> QED BY <2>1, <3>1 DEF G!Exec!Begin, GP!Exec!Begin, G!Exec!Refuse, GP!Exec!Refuse,
          G!Exec!Reserve, GP!Exec!Reserve, G!Exec!LookupFails, GP!Exec!LookupFails,
          G!Exec!Answered, GP!Exec!Answered, G!Exec!Pending, GP!Exec!Pending
  <2> QED BY <1>1, <2>1 DEF G!Execute, GP!Execute
<1>4. G!Starts(t) => GP!Starts(t)
  BY <1>1 DEF G!Starts, GP!Starts, G!Exec!Spawn, GP!Exec!Spawn, G!Exec!SpawnFails, GP!Exec!SpawnFails,
              G!Exec!Started, GP!Exec!Started, G!Exec!Settle, GP!Exec!Settle
<1>5. G!GivesUp(t) => GP!GivesUp(t)
  BY <1>1 DEF G!GivesUp, GP!GivesUp, G!Exec!Kill, GP!Exec!Kill, G!Exec!Reaped, GP!Exec!Reaped,
              G!Exec!Cut, GP!Exec!Cut, G!Exec!Settle, GP!Exec!Settle
<1>6. G!Settles(t) => GP!Settles(t)
  BY <1>1 DEF G!Settles, GP!Settles, G!Exec!SettleFails, GP!Exec!SettleFails, G!Exec!Finish,
              GP!Exec!Finish, G!Exec!Settle, GP!Exec!Settle, G!Exec!Live, GP!Exec!Live
<1>7. G!Exec!Return(t) => GP!Exec!Return(t)
  BY DEF G!Exec!Return, GP!Exec!Return, G!Exec!Idle, GP!Exec!Idle
<1>8. G!SendResult(t) => GP!SendResult(t)
  BY <1>1, <1>7 DEF G!SendResult, GP!SendResult
<1>9. G!TaskFails(t) => GP!TaskFails(t)
  BY <1>1, <1>7 DEF G!TaskFails, GP!TaskFails
<1>10. G!Cancelled(t) => GP!Cancelled(t)
  BY <1>1 DEF G!Cancelled, GP!Cancelled, G!Exec!Cancel, GP!Exec!Cancel, G!Exec!Started,
              GP!Exec!Started, G!Exec!Live, GP!Exec!Live, G!Exec!Idle, GP!Exec!Idle
<1> QED BY <1>2, <1>3, <1>4, <1>5, <1>6, <1>8, <1>9, <1>10 DEF G!TaskStep, GP!TaskStep

LEMMA SameRestart == G!Restart => GP!Restart
BY DEF G!Restart, GP!Restart, G!Exec!CrashRestart, GP!Exec!CrashRestart, G!Exec!Reopened,
       GP!Exec!Reopened, G!Exec!Idle, GP!Exec!Idle, G!NoTask, GP!NoTask, G!Keys, GP!Keys,
       G!Exec!Keys, GP!Exec!Keys

LEMMA SameGNext == ASSUME NEW F, G!GNext(F) PROVE GP!GStep(F)
<1>1. ASSUME NEW posted, G!Close(posted) PROVE GP!Close(posted)
  BY <1>1, SameBusy DEF G!Close, GP!Close, G!xvars, GP!xvars
<1>2. G!Closed => GP!Closed
  BY DEF G!Closed, GP!Closed, G!xvars, GP!xvars
<1> QED BY <1>1, <1>2, SameIngest, SameTaskStep, SameRestart DEF G!GNext, GP!GStep

-----------------------------------------------------------------------------
\* The invariant of the system: each side's, over what the other has sent.
SInv ==
    /\ HP!NInv /\ HP!Sent
    /\ \E F : F = up /\ GP!GInv(F)
    /\ \E D : D = down /\ HP!Heard(D)
    /\ \A f \in down : f.kind \in {"ack", "result"}

\* The log's entries have keys and contents of the system.
LEMMA LogEntries ==
    ASSUME HP!NInv, NEW i \in 1..Len(log)
    PROVE  log[i].key \in GP!Keys /\ log[i].key[3] # 0 /\ log[i].content \in Contents
<1>1. PICK T : log \in Seq(HP!Entry(T))
  BY DEF HP!NInv, HP!LogType
<1>2. log[i] \in HP!Entry(T)
  BY <1>1
<1>3. log[i].key \in HP!Keys /\ log[i].content \in Contents
  BY <1>2 DEF HP!Entry
<1>4. HP!Keys = GP!Keys
  BY DEF HP!Keys, HP!Ids, GP!Keys, GP!Exec!Keys
<1>5. log[i].key[3] # 0
  BY DEF HP!NInv, HP!KeysAreFresh
<1> QED BY <1>3, <1>4, <1>5

\* All that is sent up are requests.
LEMMA UpIsRequests == ASSUME HP!NInv, HP!Sent PROVE up \subseteq GP!Requests
<1> SUFFICES ASSUME NEW f \in up PROVE f \in GP!Requests
  OBVIOUS
<1>1. PICK i \in 1..Len(log) : f \in HP!Chunks("request", log[i].key, log[i].content)
  BY DEF HP!Sent
<1>2. PICK k, x : k = log[i].key /\ x = log[i].content
  OBVIOUS
<1>3. k \in GP!Keys /\ k[3] # 0 /\ x \in Contents
  BY <1>2, LogEntries
<1>4. f \in GP!Chunks("request", k, x)
  BY <1>1, <1>2, SameChunks
<1> QED BY <1>3, <1>4 DEF GP!Requests

\* Nothing has been sent at the start.
LEMMA InitSInv == SInit => SInv
<1> SUFFICES ASSUME SInit PROVE SInv
  OBVIOUS
<1>1. HP!HInit /\ GP!GInit
  BY SameHInit, SameGInit DEF SInit
<1>2. HP!NInv
  BY <1>1, HandheldAssumes, HP!InitNInv
<1>3. HP!Sent
  BY <1>1 DEF HP!HInit, HP!Sent
<1>4. \A F : GP!GInv(F)
  BY <1>1, GatewayAssumes, GP!InitGInv
<1>5. down = {}
  BY <1>1 DEF GP!GInit
<1>6. \A D : HP!Heard(D)
  BY <1>1 DEF HP!HInit, HP!Heard, HP!Empty
<1> QED BY <1>2, <1>3, <1>4, <1>5, <1>6 DEF SInv

\* The handheld moves: the gateway may hear more.
LEMMA HandheldKeeps == ASSUME SInv, Handheld PROVE SInv'
<1> USE DEF SInv
<1>1. PICK D : D = down /\ HP!Heard(D)
  OBVIOUS
<1>2. HP!HearStep(D)
  BY <1>1, SameUiStep, SameMeshStep, SameReboot, SameReceive DEF Handheld, HP!HearStep
<1>3. HP!HStep
  BY <1>2 DEF HP!HearStep, HP!HStep
<1>4. HP!NInv' /\ HP!Sent' /\ up \subseteq up'
  BY <1>3, HandheldAssumes, HP!StepNInv, HP!StepSent
<1>5. HP!Heard(D)'
  BY <1>1, <1>2, HandheldAssumes, HP!StepHeard
<1>6. PICK F : F = up /\ GP!GInv(F)
  OBVIOUS
<1>7. PICK F2 : F2 = up'
  OBVIOUS
<1>8. GP!GInv(F2)
  BY <1>4, <1>6, <1>7, GatewayAssumes, GP!HearsMore
<1>9. late \subseteq F2
  BY <1>8 DEF GP!GInv, GP!RxOK
<1>10. GP!GInv(F2)'
  BY <1>8, <1>9, GatewayAssumes, GP!StandsStill DEF Handheld, gvars
<1>11. UNCHANGED down
  BY DEF Handheld, gvars
<1> QED BY <1>1, <1>4, <1>5, <1>7, <1>10, <1>11

\* The companion moves: the handheld may hear more.
LEMMA CompanionKeeps == ASSUME SInv, Companion \/ UNCHANGED svars PROVE SInv'
<1> USE DEF SInv
<1>1. PICK F : F = up /\ GP!GInv(F) /\ F \subseteq GP!Requests
  BY UpIsRequests
<1>2. GP!GStep(F) /\ UNCHANGED hvars
  <2>1. CASE Companion
    <3>1. G!GNext(F)
      BY <1>1, <2>1 DEF Companion
    <3> QED BY <2>1, <3>1, SameGNext DEF Companion
  <2>2. CASE UNCHANGED svars
    BY <2>2 DEF svars, gvars, GP!gvars, GP!GStep
  <2> QED BY <2>1, <2>2
<1>3. GP!GInv(F)'
  BY <1>1, <1>2, GatewayAssumes, GP!StepGInv
<1>4. down \subseteq down' /\ \A f \in down' : f \in down \/ f.kind \in {"ack", "result"}
  BY <1>2, GatewayAssumes, GP!DownOnlyGrows
<1>5. UNCHANGED HP!hvars
  BY <1>2 DEF hvars, HP!hvars
<1>6. HP!NInv' /\ HP!Sent'
  BY <1>5, HandheldAssumes, HP!StepNInv, HP!StepSent DEF HP!HStep
<1>7. PICK D : D = down /\ HP!Heard(D)
  OBVIOUS
<1>8. PICK D2 : D2 = down'
  OBVIOUS
<1>9. HP!Heard(D2)
  BY <1>4, <1>7, <1>8, HandheldAssumes, HP!HeardMore
<1>10. HP!Heard(D2)'
  BY <1>4, <1>5, <1>8, <1>9, HandheldAssumes, HP!StepHeard DEF HP!HearStep
<1>11. UNCHANGED up
  BY <1>2 DEF hvars
<1> QED BY <1>1, <1>3, <1>4, <1>6, <1>8, <1>10, <1>11

\* Every step of either side preserves the invariant.
LEMMA NextSInv == SInv /\ [SNext]_svars => SInv'
BY HandheldKeeps, CompanionKeeps DEF SNext

LEMMA SInvariance == SSpec => []SInv
BY InitSInv, NextSInv, PTL DEF SSpec

-----------------------------------------------------------------------------
\* A content asked for under a key is the one the log has for it.
LEMMA AskedIsLogged ==
    ASSUME HP!NInv, HP!Sent, NEW F, F = up, NEW k, NEW x, GP!Asked(F, k, x)
    PROVE  \E i \in 1..Len(log) : log[i].key = k /\ log[i].content = x
<1>1. x \in Contents /\ GP!Chunks("request", k, x) \subseteq up
  BY DEF GP!Asked
<1>2. PICK c : c = GP!Chunk("request", k, x, 1)
  OBVIOUS
<1>3. c \in up
  <2>1. Size[x] \in Nat \ {0}
    BY <1>1, HandheldAssumes DEF HP!SizeAssumption, HP!PocketMeshAssumption
  <2> QED BY <1>1, <1>2, <2>1 DEF GP!Chunks
<1>4. PICK i \in 1..Len(log) : c \in HP!Chunks("request", log[i].key, log[i].content)
  BY <1>3 DEF HP!Sent
<1>5. c.key = log[i].key /\ c.body = log[i].content
  BY <1>4 DEF HP!Chunks, HP!Chunk
<1>6. c.key = k /\ c.body = x
  BY <1>2 DEF GP!Chunk
<1> QED BY <1>5, <1>6

\* No key is used for two contents.
LEMMA KeysTellContents ==
    ASSUME HP!NInv, HP!Sent, NEW F, F = up
    PROVE  GP!Fresh(F)
<1> SUFFICES ASSUME NEW k \in GP!Keys, NEW x \in Contents, NEW y \in Contents,
                    GP!Asked(F, k, x), GP!Asked(F, k, y)
             PROVE  x = y
  BY DEF GP!Fresh
<1>1. PICK i \in 1..Len(log) : log[i].key = k /\ log[i].content = x
  BY AskedIsLogged
<1>2. PICK j \in 1..Len(log) : log[j].key = k /\ log[j].content = y
  BY AskedIsLogged
<1>3. i = j
  BY <1>1, <1>2 DEF HP!NInv, HP!KeysAreFresh
<1> QED BY <1>1, <1>2, <1>3

\* A request the handheld has not sent in full is not on the companion's table.
THEOREM OnlyWholeRequestsCount == SSpec => []OnlyCompleteRequestsCount
<1>1. SInv => OnlyCompleteRequestsCount
  <2> SUFFICES ASSUME SInv, NEW k \in G!Keys, db[k].state # "absent"
               PROVE  H!Chunks("request", k, db[k].content) \subseteq up
    BY DEF OnlyCompleteRequestsCount
  <2>1. PICK F : F = up /\ GP!GInv(F)
    BY DEF SInv
  <2>2. k \in GP!Keys
    BY DEF G!Keys, GP!Keys, G!Exec!Keys, GP!Exec!Keys
  <2>3. GP!Chunks("request", k, db[k].content) \subseteq F
    BY <2>1, <2>2 DEF GP!GInv, GP!RowsAsked, GP!Asked
  <2> QED BY <2>1, <2>3, SameChunks
<1> QED BY <1>1, SInvariance, PTL

\* The companion runs only what the user asked for, and each request at most once.
THEOREM RunsAreRequests == SSpec => []RunsWereAsked
<1>1. SInv => RunsWereAsked
  <2> SUFFICES ASSUME SInv, NEW k \in G!Keys
               PROVE  /\ runs[k] <= 1
                      /\ runs[k] = 1 =>
                            \E i \in 1..Len(log) :
                                log[i].key = k /\ db[k].content = log[i].content
    BY DEF RunsWereAsked
  <2>1. PICK F : F = up /\ GP!GInv(F)
    BY DEF SInv
  <2>2. k \in GP!Keys
    BY DEF G!Keys, GP!Keys, G!Exec!Keys, GP!Exec!Keys
  <2>3. runs[k] <= 1 /\ (runs[k] # 0 => GP!Asked(F, k, db[k].content))
    BY <2>1, <2>2, GatewayAssumes, GP!RunsOnce
  <2>4. PICK x : x = db[k].content
    OBVIOUS
  <2>5. GP!Asked(F, k, x) => \E i \in 1..Len(log) : log[i].key = k /\ log[i].content = x
    BY <2>1, AskedIsLogged DEF SInv
  <2>6. GP!Asked(F, k, db[k].content) => GP!Asked(F, k, x)
    BY <2>4 DEF GP!Asked
  <2> QED BY <2>3, <2>4, <2>5, <2>6
<1> QED BY <1>1, SInvariance, PTL

\* No request is turned down as a reused or an invalid message number.
THEOREM RequestsAreNotRefused == SSpec => []NeverReused
<1>1. SInv => NeverReused
  <2> SUFFICES ASSUME SInv, NEW f \in down, f.kind = "result"
               PROVE  f.body \notin {"reused", "badid"}
    BY DEF NeverReused
  <2>1. PICK F : F = up /\ GP!GInv(F)
    BY DEF SInv
  <2>2. GP!Fresh(F)
    BY <2>1, KeysTellContents DEF SInv
  <2>3. GP!Truth(F, f.key, f.body)
    BY <2>1 DEF GP!GInv, GP!DownTrue
  <2> QED BY <2>2, <2>3 DEF GP!Truth
<1> QED BY <1>1, SInvariance, PTL

\* What the handheld shows as the end of a request is the truth about that very
\* request.
THEOREM ReportsAreTrue == SSpec => []ReportIsTrue
<1>1. SInv => ReportIsTrue
  <2> SUFFICES ASSUME SInv, NEW i \in 1..Len(log)
               PROVE  /\ log[i].end \in G!Exec!Outcomes =>
                            db[log[i].key] = [state |-> "done", content |-> log[i].content,
                                              outcome |-> log[i].end]
                      /\ log[i].end = "indeterminate" => G!Exec!Interrupted(log[i].key)
    BY DEF ReportIsTrue
  <2>1. PICK F : F = up /\ GP!GInv(F)
    BY DEF SInv
  <2>2. PICK k, x, a : k = log[i].key /\ x = log[i].content /\ a = log[i].end
    OBVIOUS
  <2>3. k \in GP!Keys
    BY <2>2, LogEntries DEF SInv
  <2>4. a \in {Nil, "noresult"} \/ GP!Truth(F, k, a)
    <3>1. PICK D : D = down /\ HP!Heard(D)
      BY DEF SInv
    <3>2. \/ a \in {Nil, "noresult"}
          \/ \E f \in D : f.kind = "result" /\ f.key = k /\ f.body = a
      BY <2>2, <3>1 DEF HP!Heard, HP!EndsWith
    <3>3. ASSUME NEW f \in down, f.kind = "result", f.key = k, f.body = a PROVE GP!Truth(F, k, a)
      BY <2>1, <3>3 DEF GP!GInv, GP!DownTrue
    <3> QED BY <3>1, <3>2, <3>3
  <2>5. /\ Nil \notin G!Exec!Outcomes /\ "noresult" \notin G!Exec!Outcomes
        /\ Nil # "indeterminate" /\ G!Exec!Outcomes = GP!X!Outcomes
    BY SystemAssumption DEF G!SharedAssumption, G!Exec!Outcomes, G!Exec!Ran, G!Exec!Cut,
                            GP!X!Outcomes, GP!X!Ran, GP!X!Cut
  <2>6. a = "indeterminate" => G!Exec!Interrupted(k)
    BY <2>4, <2>5 DEF GP!Truth, GP!X!Interrupted, G!Exec!Interrupted, GP!X!Live, G!Exec!Live
  <2>7. ASSUME a \in G!Exec!Outcomes
        PROVE  db[k] = [state |-> "done", content |-> x, outcome |-> a]
    <3>1. db[k].state = "done" /\ db[k].outcome = a
      BY <2>4, <2>5, <2>7 DEF GP!Truth
    <3>2. PICK y : y = db[k].content
      OBVIOUS
    <3>3. GP!Asked(F, k, y)
      BY <2>1, <2>3, <3>1, <3>2 DEF GP!GInv, GP!RowsAsked, GP!Asked
    <3>4. PICK j \in 1..Len(log) : log[j].key = k /\ log[j].content = y
      BY <2>1, <3>3, AskedIsLogged DEF SInv
    <3>5. i = j
      BY <2>2, <3>4 DEF SInv, HP!NInv, HP!KeysAreFresh
    <3>6. db[k] \in GP!X!Row
      <4>1. db \in [GP!Keys -> GP!X!Row]
        BY <2>1, GatewayAssumes, GP!ExecTypes DEF GP!GInv
      <4> QED BY <2>3, <4>1
    <3> QED BY <2>2, <3>1, <3>2, <3>4, <3>5, <3>6 DEF GP!X!Row
  <2> QED BY <2>2, <2>6, <2>7 DEF G!Exec!Interrupted
<1> QED BY <1>1, SInvariance, PTL

-----------------------------------------------------------------------------
\* The ledger of the system is the gateway's.
LEMMA SameLedger ==
    /\ GP!X!Ledger!Init <=> G!Exec!Ledger!Init
    /\ [GP!X!Ledger!Next]_(GP!X!Ledger!vars) <=> [G!Exec!Ledger!Next]_(G!Exec!Ledger!vars)
BY DEF GP!X!Ledger!Init, G!Exec!Ledger!Init, GP!X!Ledger!vars, G!Exec!Ledger!vars,
       GP!X!Ledger!Next, G!Exec!Ledger!Next, GP!X!Ledger!Claim, G!Exec!Ledger!Claim,
       GP!X!Ledger!Run, G!Exec!Ledger!Run, GP!X!Ledger!Settle, G!Exec!Ledger!Settle,
       GP!X!Keys, G!Exec!Keys, GP!X!Ran, G!Exec!Ran, GP!X!Cut, G!Exec!Cut

\* End to end, the companion's table is an at-most-once ledger.
THEOREM SystemKeepsTheLedger == SSpec => SystemImplementsLedger
<1>1. SInit => G!Exec!Ledger!Init
  BY SameGInit, SameLedger, GatewayAssumes, GP!InitOfLedger DEF SInit
<1>2. SInv /\ [SNext]_svars => [G!Exec!Ledger!Next]_(G!Exec!Ledger!vars)
  <2> SUFFICES ASSUME SInv, [SNext]_svars PROVE [G!Exec!Ledger!Next]_(G!Exec!Ledger!vars)
    OBVIOUS
  <2>1. CASE Companion
    <3>1. PICK F : F = up /\ GP!GInv(F)
      BY DEF SInv
    <3>2. GP!GStep(F)
      <4>1. G!GNext(F)
        BY <2>1, <3>1 DEF Companion
      <4> QED BY <4>1, SameGNext
    <3> QED BY <3>1, <3>2, GatewayAssumes, GP!StepOfLedger, SameLedger
  <2>2. CASE Handheld \/ UNCHANGED svars
    BY <2>2 DEF Handheld, svars, gvars, G!Exec!Ledger!vars
  <2> QED BY <2>1, <2>2 DEF SNext
<1> QED BY <1>1, <1>2, SInvariance, PTL
        DEF SSpec, SystemImplementsLedger, G!Exec!ImplementsLedger, G!Exec!Ledger!Spec
=============================================================================
