----------------------------- MODULE PocketMesh -----------------------------
(***************************************************************************)
(* firmware/PocketMesh.cpp: the handheld's request over the mesh.  The UI  *)
(* task calls send() and takeResult(); the mesh task runs runOnce() and    *)
(* handleReceived(), one at a time.  They share the flag outstanding, held *)
(* under a spinlock, a queue of one request and a queue of four texts.     *)
(* Only the boot counter survives a reboot.  Time is left open: a chunk    *)
(* may be sent whenever one is left, and the 45 seconds without news may   *)
(* pass whenever all were sent.                                            *)
(***************************************************************************)
EXTENDS Reassembly, Sequences

CONSTANTS
    Node,         \* this handheld's node number
    Contents,     \* requests the user can type
    Replies,      \* bodies of CMD_RESULT
    Ack,          \* the body of CMD_ACK
    IdSpace,      \* message numbers are taken modulo this (2^32)
    Seeds,        \* values esp_random() may give the first number; bound
    NumSessions,  \* session numbers are taken modulo this (65535)
    MaxTries,     \* transmissions of one request (3)
    Depth,        \* texts the inbound queue holds (4)
    MaxBoots,     \* bound: boots of the handheld
    MaxRequests,  \* bound: requests taken by the mesh task
    Nil

ASSUME PocketMeshAssumption ==
    /\ IdSpace \in Nat \ {0, 1}
    /\ Seeds \subseteq 0..(IdSpace - 1)
    /\ NumSessions \in Nat \ {0}
    /\ MaxTries \in Nat \ {0}
    /\ Depth \in Nat \ {0}
    /\ MaxBoots \in Nat
    /\ MaxRequests \in Nat
    /\ Nil \notin Contents
    /\ Contents \subseteq Bodies

\* The bounds stop short of using up the numbers of a session, and the sessions.
ASSUME NumbersAssumption == MaxRequests < IdSpace /\ MaxBoots <= NumSessions

VARIABLES
    ui,           \* the UI task inside send(): Nil, or the request it claimed for
    outstanding,  \* the flag that admits one request at a time
    outbound,     \* queue of depth 1 to the mesh task
    inbound,      \* queue of texts to the UI task
    pending,      \* the request the mesh task works on
    boot,         \* boots so far, in flash
    id,           \* message number of the request
    nextId,
    tries,        \* transmissions of it so far, this one included
    chunk,        \* chunks of this transmission sent so far
    silent,       \* more than 45 seconds since lastSend
    rx,           \* the reassembler
    up,           \* frames handed to the radio; any of them may arrive,
                  \* any number of times and in any order
    log           \* requests taken: key, content, and the text each ended with; history

hvars == <<ui, outstanding, outbound, inbound, pending, boot, id, nextId,
           tries, chunk, silent, rx, up, log>>

Ids == 0..(IdSpace - 1)

\* Mutant: the boot counter is not used.
SessionFixed == 1

Session == (boot % NumSessions) + 1

Key == <<Node, Session, id>>

\* Mutant: the counter wraps to 0.
NextIdZero(n) == (n + 1) % IdSpace

\* ++nextId in 32 bits, once more if it came to 0.
NextId(n) == IF (n + 1) % IdSpace = 0 THEN 1 ELSE (n + 1) % IdSpace

HInit ==
    /\ ui = Nil
    /\ outstanding = FALSE
    /\ outbound = <<>>
    /\ inbound = <<>>
    /\ pending = Nil
    /\ id = 0
    /\ tries = 0
    /\ chunk = 0
    /\ silent = FALSE
    /\ rx = Empty
    /\ boot = 1
    /\ nextId \in Seeds
    /\ up = {}
    /\ log = <<>>

-----------------------------------------------------------------------------
\* The UI task.

\* A text for the screen; dropped when the queue is full.
Told(text) == IF Len(inbound) < Depth THEN Append(inbound, text) ELSE inbound

\* Mutant: the flag is set but not tested.
ClaimBlindly(x) ==
    /\ ui = Nil
    /\ Len(log) < MaxRequests
    /\ outstanding' = TRUE
    /\ ui' = x
    /\ UNCHANGED <<outbound, inbound, pending, boot, id, nextId, tries, chunk,
                   silent, rx, up, log>>

\* The critical section of send(): refused while a request is outstanding.
Claim(x) ==
    /\ ui = Nil
    /\ ~outstanding
    /\ Len(log) < MaxRequests
    /\ outstanding' = TRUE
    /\ ui' = x
    /\ UNCHANGED <<outbound, inbound, pending, boot, id, nextId, tries, chunk,
                   silent, rx, up, log>>

\* xQueueSend without waiting; if the queue is full the claim is undone.
Enqueue ==
    /\ ui # Nil
    /\ ui' = Nil
    /\ IF Len(outbound) < 1
       THEN outbound' = Append(outbound, ui) /\ UNCHANGED outstanding
       ELSE outstanding' = FALSE /\ UNCHANGED outbound
    /\ UNCHANGED <<inbound, pending, boot, id, nextId, tries, chunk, silent, rx,
                   up, log>>

TakeResult ==
    /\ ui = Nil
    /\ inbound # <<>>
    /\ inbound' = Tail(inbound)
    /\ UNCHANGED <<ui, outstanding, outbound, pending, boot, id, nextId, tries,
                   chunk, silent, rx, up, log>>

-----------------------------------------------------------------------------
\* The mesh task: runOnce().

\* finish(): the request is over, whatever came of it.
Finish(text) ==
    /\ inbound' = Told(text)
    /\ pending' = Nil
    /\ rx' = Empty
    /\ outstanding' = FALSE
    /\ log' = [log EXCEPT ![Len(log)].end = text]

\* A new request gets a new number and its first chunk is sent at once.
Take ==
    /\ pending = Nil
    /\ outbound # <<>>
    /\ pending' = Head(outbound)
    /\ outbound' = Tail(outbound)
    /\ nextId' = NextId(nextId)
    /\ id' = nextId'
    /\ tries' = 1
    /\ chunk' = 1
    /\ silent' = FALSE
    /\ LET key == <<Node, Session, id'>> IN
       /\ up' = up \cup {Chunk("request", key, pending', 1)}
       /\ log' = Append(log, [key |-> key, content |-> pending', end |-> Nil])
    /\ UNCHANGED <<ui, outstanding, inbound, boot, rx>>

SendChunk ==
    /\ pending # Nil
    /\ chunk < Size[pending]
    /\ chunk' = chunk + 1
    /\ up' = up \cup {Chunk("request", Key, pending, chunk')}
    /\ silent' = FALSE
    /\ UNCHANGED <<ui, outstanding, outbound, inbound, pending, boot, id, nextId,
                   tries, rx, log>>

AllSent == pending # Nil /\ chunk = Size[pending]

\* The clock: 45 seconds without a chunk sent or an ACK received.
FallSilent ==
    /\ AllSent
    /\ ~silent
    /\ silent' = TRUE
    /\ UNCHANGED <<ui, outstanding, outbound, inbound, pending, boot, id, nextId,
                   tries, chunk, rx, up, log>>

\* Mutant: attempts are not counted.
RetryForEver ==
    /\ AllSent
    /\ silent
    /\ tries < MaxTries
    /\ chunk' = 0
    /\ silent' = FALSE
    /\ inbound' = Told("retrying")
    /\ UNCHANGED <<ui, outstanding, outbound, pending, boot, id, nextId, tries, rx, up, log>>

Retry ==
    /\ AllSent
    /\ silent
    /\ tries < MaxTries
    /\ tries' = tries + 1
    /\ chunk' = 0
    /\ silent' = FALSE
    /\ inbound' = Told("retrying")
    /\ UNCHANGED <<ui, outstanding, outbound, pending, boot, id, nextId, rx, up, log>>

GiveUp ==
    /\ AllSent
    /\ silent
    /\ tries >= MaxTries
    /\ Finish("noresult")
    /\ UNCHANGED <<ui, outbound, boot, id, nextId, tries, chunk, silent, up>>

-----------------------------------------------------------------------------
\* The mesh task: handleReceived(), for a frame from the request's node.

\* Mutant: any reply is taken for the request under way.
ExpectsAny(f) == pending # Nil

Expected(f) == pending # Nil /\ f.key = Key

\* What a complete and authentic payload does.
Accept(kind, body) ==
    IF kind = "ack"
    THEN /\ inbound' = Told("acked")
         /\ silent' = FALSE
         /\ UNCHANGED <<pending, outstanding, log>>
    ELSE Finish(body) /\ UNCHANGED silent

Receive(f, late) ==
    /\ Expected(f)
    /\ rx' = After(rx, f, late)
    /\ LET got == Merge(rx, f, late) IN
       IF Complete(got, f) /\ Unsealed(got) # Mixed
       THEN Accept(f.kind, Unsealed(got))
       ELSE UNCHANGED <<inbound, silent, pending, outstanding, log>>
    /\ UNCHANGED <<ui, outbound, boot, id, nextId, tries, chunk, up>>

-----------------------------------------------------------------------------
\* Power is lost, or the firmware resets: only the boot counter stays.
Reboot ==
    /\ boot < MaxBoots
    /\ boot' = boot + 1
    /\ ui' = Nil
    /\ outstanding' = FALSE
    /\ outbound' = <<>>
    /\ inbound' = <<>>
    /\ pending' = Nil
    /\ id' = 0
    /\ tries' = 0
    /\ chunk' = 0
    /\ silent' = FALSE
    /\ rx' = Empty
    /\ nextId' \in Seeds
    /\ UNCHANGED <<up, log>>

UiStep == (\E x \in Contents : Claim(x)) \/ Enqueue \/ TakeResult

MeshStep == Take \/ SendChunk \/ FallSilent \/ Retry \/ GiveUp

HNext(frames) ==
    \/ UiStep
    \/ MeshStep
    \/ \E f \in frames, late \in BOOLEAN : Receive(f, late)
    \/ Reboot

\* Both tasks are scheduled; time passes; and the air does not repeat old
\* acknowledgements for ever, so a silence that keeps coming back is acted on.
HFairness ==
    /\ WF_hvars(Enqueue)
    /\ WF_hvars(TakeResult)
    /\ WF_hvars(Take)
    /\ WF_hvars(SendChunk)
    /\ WF_hvars(FallSilent)
    /\ SF_hvars(Retry)
    /\ SF_hvars(GiveUp)

-----------------------------------------------------------------------------
\* On its own, the handheld hears any reply to any of its keys.
Keys == {Node} \X (1..NumSessions) \X Ids

ReplyFrames ==
    UNION {Chunks("ack", k, Ack) \cup UNION {Chunks("result", k, r) : r \in Replies} : k \in Keys}

HSpec == HInit /\ [][HNext(ReplyFrames)]_hvars

HFairSpec == HSpec /\ HFairness

Texts == {"retrying", "noresult", "acked"} \cup Replies

\* One request at a time, across the two tasks: while the flag is up the
\* request is in exactly one place (claimed by the UI task, in the queue, with
\* the mesh task), and while it is down it is nowhere.  So the queue has room
\* whenever the UI task enqueues, and the mesh task's done() never lets a
\* second request in beside one that is still under way.
OneOwner ==
    /\ ui # Nil => outstanding /\ outbound = <<>> /\ pending = Nil
    /\ outbound # <<>> => outstanding /\ pending = Nil /\ Len(outbound) = 1
    /\ pending # Nil => outstanding
    /\ outstanding => ui # Nil \/ outbound # <<>> \/ pending # Nil

\* No two requests are ever sent under the same key, across reboots with their
\* random first message number and across the wrap of the number past 0, which
\* the companion refuses (as long as the bounds keep session numbers, and the
\* numbers of one session, from being used up).
KeysAreFresh ==
    \A i, j \in 1..Len(log) :
        /\ log[i].key[3] # 0
        /\ i # j => log[i].key # log[j].key

\* Every request the user gets in ends: with a result, or with the notice that
\* none came, unless the handheld reboots.
RequestEnds == outstanding ~> ~outstanding
=============================================================================
