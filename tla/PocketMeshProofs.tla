-------------------------- MODULE PocketMeshProofs --------------------------
(***************************************************************************)
(* The handheld has at most one request under way, and no two requests go  *)
(* out under the same key, for every message space and size, every queue   *)
(* depth and every reply it may hear: the steps are those of HStep, where  *)
(* the frames received are any at all.                                     *)
(***************************************************************************)
EXTENDS PocketMesh, SequenceTheorems, TLAPS

\* The handheld's types but for the texts: what OneOwner rests on.
Simple ==
    /\ ui \in Contents \cup {Nil}
    /\ outstanding \in BOOLEAN
    /\ outbound \in Seq(Contents)
    /\ pending \in Contents \cup {Nil}

HInv == Simple /\ OneOwner

\* A step of the handheld, whatever it hears.
HStep == UiStep \/ MeshStep \/ (\E f, late : Receive(f, late)) \/ Reboot \/ UNCHANGED hvars

\* The invariant holds at power-up.
LEMMA InitHInv == HInit => HInv
  <1>1. <<>> \in Seq(Contents)
    OBVIOUS
  <1> QED
    BY <1>1, Zenon DEF HInit, HInv, Simple, OneOwner

\* A claim is admitted only while no request is anywhere.
LEMMA ClaimStep == ASSUME HInv, NEW x \in Contents, Claim(x) PROVE HInv'
  BY PocketMeshAssumption DEF HInv, Simple, OneOwner, Claim

\* The queue has room: the request moves from the UI task into it.
LEMMA EnqueueStep == ASSUME HInv, Enqueue PROVE HInv'
  <1>1. outbound = <<>> /\ pending = Nil /\ outstanding /\ ui \in Contents
    BY Zenon DEF HInv, Simple, OneOwner, Enqueue
  <1>2. outbound' = <<ui>> /\ outstanding' = outstanding /\ ui' = Nil /\ pending' = Nil
    BY <1>1 DEF Enqueue
  <1>3. <<ui>> \in Seq(Contents) /\ <<ui>> # <<>> /\ Len(<<ui>>) = 1
    BY <1>1
  <1> QED
    BY <1>1, <1>2, <1>3 DEF HInv, Simple, OneOwner

\* The request moves from the queue to the mesh task.
LEMMA TakeStep == ASSUME HInv, Take PROVE HInv'
  <1>1. outbound # <<>> /\ Len(outbound) = 1 /\ outstanding /\ ui = Nil
    BY DEF HInv, OneOwner, Take
  <1>2. Head(outbound) \in Contents /\ Tail(outbound) = <<>>
    <2>1. outbound \in Seq(Contents)
      BY Zenon DEF HInv, Simple
    <2>2. Head(outbound) \in Contents /\ Tail(outbound) \in Seq(Contents)
      BY <1>1, <2>1, HeadTailProperties
    <2>3. Len(Tail(outbound)) = 0
      BY <1>1, <2>1, HeadTailProperties
    <2> QED
      BY <2>2, <2>3, EmptySeq
  <1>3. pending' \in Contents /\ outbound' = <<>> /\ UNCHANGED <<ui, outstanding>>
    BY <1>2 DEF Take
  <1>4. pending' # Nil
    BY <1>3, PocketMeshAssumption
  <1> QED
    BY <1>1, <1>3, <1>4 DEF HInv, Simple, OneOwner

\* A step that ends the mesh task's request, or leaves the four variables alone.
LEMMA EndStep ==
    ASSUME HInv, UNCHANGED <<ui, outbound>>,
           \/ pending # Nil /\ pending' = Nil /\ outstanding' = FALSE
           \/ UNCHANGED <<pending, outstanding>>
    PROVE  HInv'
  <1>1. Simple'
    BY Zenon DEF HInv, Simple
  <1>2. CASE pending # Nil /\ pending' = Nil /\ outstanding' = FALSE
    <2>1. ui = Nil /\ outbound = <<>>
      BY <1>2, Zenon DEF HInv, OneOwner
    <2>2. ui' = Nil /\ outbound' = <<>>
      BY <2>1
    <2>3. OneOwner'
      BY <1>2, <2>2, Zenon DEF OneOwner
    <2> QED
      BY <1>1, <2>3 DEF HInv
  <1>3. CASE UNCHANGED <<pending, outstanding>>
    <2>1. OneOwner'
      BY <1>3, Zenon DEF HInv, OneOwner
    <2> QED
      BY <1>1, <2>1 DEF HInv
  <1> QED
    BY <1>2, <1>3

\* Every step of the handheld preserves the invariant.
LEMMA StepHInv == ASSUME HInv, HStep PROVE HInv'
  <1>1. CASE UiStep
    BY <1>1, ClaimStep, EnqueueStep, EndStep DEF UiStep, TakeResult
  <1>2. CASE MeshStep
    <2>1. CASE Take
      BY <2>1, TakeStep
    <2>2. CASE SendChunk \/ FallSilent \/ Retry
      BY <2>2, EndStep DEF SendChunk, FallSilent, Retry
    <2>3. CASE GiveUp
      BY <2>3, EndStep DEF GiveUp, Finish, AllSent
    <2> QED
      BY <1>2, <2>1, <2>2, <2>3 DEF MeshStep
  <1>3. ASSUME NEW f, NEW late, Receive(f, late)
        PROVE  HInv'
    <2>1. pending # Nil /\ UNCHANGED <<ui, outbound>>
      BY <1>3 DEF Receive, Expected
    <2>2. \/ pending' = Nil /\ outstanding' = FALSE
          \/ UNCHANGED <<pending, outstanding>>
      BY <1>3 DEF Receive, Accept, Finish
    <2> QED
      BY <2>1, <2>2, EndStep
  <1>4. CASE Reboot
    <2>1. <<>> \in Seq(Contents)
      OBVIOUS
    <2> QED
      BY <1>4, <2>1, Zenon DEF Reboot, HInv, Simple, OneOwner
  <1>5. CASE UNCHANGED hvars
    BY <1>5, EndStep DEF hvars
  <1> QED
    BY <1>1, <1>2, <1>3, <1>4, <1>5 DEF HStep

LEMMA NextIsStep == [HNext(ReplyFrames)]_hvars => HStep
  BY DEF HNext, HStep

\* One request at a time: the request is in exactly one place while the flag
\* is up, and nowhere while it is down.
THEOREM OneRequestAtATime == HSpec => []OneOwner
  <1>1. HInv => OneOwner
    BY DEF HInv
  <1> QED
    BY <1>1, InitHInv, StepHInv, NextIsStep, PTL DEF HSpec

-----------------------------------------------------------------------------
\* No two requests go out under the same key.  The counter runs through
\* 1..IdSpace-1 and back to 1, so a run of fewer numbers than that has no number
\* twice, and each boot has a session of its own.

SessionAt(b) == (b % NumSessions) + 1

\* The number d requests after number m.
Plus(m, d) == IF m + d < IdSpace THEN m + d ELSE m + d - (IdSpace - 1)

Entry(T) == [key : Keys, content : Contents, end : T]

LogType == \E T : log \in Seq(Entry(T))

\* The boot and the number are in their ranges, and there is room in the log for
\* each request on its way to the mesh task.
Counts ==
    /\ boot \in 1..NumSessions /\ (boot = 1 \/ boot <= MaxBoots)
    /\ nextId \in Ids /\ id \in Ids
    /\ Len(log) <= MaxRequests
    /\ ui # Nil \/ outbound # <<>> => Len(log) < MaxRequests

\* The request the mesh task works on is the last one logged, and has not ended.
LastIsPending ==
    pending # Nil =>
        /\ Len(log) > 0
        /\ log[Len(log)] = [key |-> Key, content |-> pending, end |-> Nil]

\* Where each logged number stands: in a session begun by some boot, and, in the
\* current one, as far behind the counter as requests were made since.
Numbered(e, d) ==
    /\ \E b \in 1..boot : e.key[2] = SessionAt(b)
    /\ e.key[3] # 0
    /\ e.key[2] = Session => nextId = Plus(e.key[3], d)

AllNumbered == \A i \in 1..Len(log) : Numbered(log[i], Len(log) - i)

NInv == HInv /\ LogType /\ Counts /\ LastIsPending /\ AllNumbered /\ KeysAreFresh

\* The counter goes up by one, and from its last value to 1.
LEMMA NextIdIs ==
    ASSUME NEW n \in Ids
    PROVE  NextId(n) = IF n = IdSpace - 1 THEN 1 ELSE n + 1
<1>1. IdSpace \in Nat /\ IdSpace > 1 /\ n \in 0..(IdSpace - 1)
  BY PocketMeshAssumption DEF Ids
<1>2. CASE n = IdSpace - 1
  <2>1. n + 1 = IdSpace /\ IdSpace % IdSpace = 0
    BY <1>1, <1>2
  <2> QED BY <1>2, <2>1 DEF NextId
<1>3. CASE n # IdSpace - 1
  <2>1. n + 1 \in 1..(IdSpace - 1)
    BY <1>1, <1>3
  <2>2. (n + 1) % IdSpace = n + 1
    BY <1>1, <2>1
  <2> QED BY <1>3, <2>1, <2>2 DEF NextId
<1> QED BY <1>2, <1>3

\* Counting on from m, the numbers stay in range, follow one another, and come
\* back to m only after IdSpace - 1 requests.
LEMMA PlusNext ==
    ASSUME NEW m \in Ids, m # 0, NEW d \in Nat, d + 1 < IdSpace - 1
    PROVE  /\ Plus(m, d) \in Ids
           /\ NextId(Plus(m, d)) = Plus(m, d + 1)
           /\ Plus(m, d + 1) # m
<1>1. IdSpace \in Nat /\ IdSpace > 1 /\ m \in 1..(IdSpace - 1)
  BY PocketMeshAssumption DEF Ids
<1>2. Plus(m, d) \in Ids
  BY <1>1 DEF Plus, Ids
<1>3. NextId(Plus(m, d)) = IF Plus(m, d) = IdSpace - 1 THEN 1 ELSE Plus(m, d) + 1
  BY <1>2, NextIdIs
<1> QED BY <1>1, <1>2, <1>3 DEF Plus

\* Different boots begin different sessions.
LEMMA SessionsDiffer ==
    ASSUME NEW a \in 1..NumSessions, NEW b \in 1..NumSessions
    PROVE  /\ SessionAt(a) \in 1..NumSessions
           /\ SessionAt(a) = SessionAt(b) => a = b
<1>1. NumSessions \in Nat /\ NumSessions > 0
  BY PocketMeshAssumption
<1>2. \A n \in 1..NumSessions : SessionAt(n) = IF n = NumSessions THEN 1 ELSE n + 1
  <2> SUFFICES ASSUME NEW n \in 1..NumSessions
               PROVE  SessionAt(n) = IF n = NumSessions THEN 1 ELSE n + 1
    OBVIOUS
  <2>1. CASE n = NumSessions
    <3>1. NumSessions % NumSessions = 0
      BY <1>1
    <3> QED BY <2>1, <3>1 DEF SessionAt
  <2>2. CASE n # NumSessions
    <3>1. n \in 0..(NumSessions - 1)
      BY <1>1, <2>2
    <3>2. n % NumSessions = n
      BY <1>1, <3>1
    <3> QED BY <2>2, <3>2 DEF SessionAt
  <2> QED BY <2>1, <2>2
<1> QED BY <1>1, <1>2

\* No request was made at power-up.
LEMMA InitNInv == HInit => NInv
<1> SUFFICES ASSUME HInit PROVE NInv
  OBVIOUS
<1>1. log = <<>> /\ Len(log) = 0
  BY DEF HInit
<1>2. LogType
  BY <1>1 DEF LogType
<1>3. Counts
  <2>1. boot = 1 /\ 1 \in 1..NumSessions /\ nextId \in Ids /\ id = 0 /\ 0 \in Ids
    BY PocketMeshAssumption DEF HInit, Ids
  <2>2. ui = Nil /\ outbound = <<>> /\ 0 <= MaxRequests
    BY PocketMeshAssumption DEF HInit
  <2> QED BY <1>1, <2>1, <2>2 DEF Counts
<1>4. LastIsPending /\ AllNumbered /\ KeysAreFresh
  BY <1>1 DEF HInit, LastIsPending, AllNumbered, KeysAreFresh
<1> QED BY <1>2, <1>3, <1>4, InitHInv DEF NInv

\* A step that logs nothing and begins no session, and leaves what the mesh task
\* works on alone or ends it.
LEMMA QuietStep ==
    ASSUME NInv, HInv', UNCHANGED <<boot, nextId, id, log>>,
           UNCHANGED pending \/ pending' = Nil,
           ui' # Nil \/ outbound' # <<>> => Len(log) < MaxRequests
    PROVE  NInv'
<1> USE DEF NInv
<1>1. Counts'
  BY DEF Counts
<1>2. LastIsPending'
  BY DEF LastIsPending, Key, Session
<1>3. LogType' /\ AllNumbered' /\ KeysAreFresh'
  BY DEF LogType, AllNumbered, Numbered, Session, KeysAreFresh
<1> QED BY <1>1, <1>2, <1>3

\* A new request takes the next number.
LEMMA TakeNumbers ==
    ASSUME NInv, Take
    PROVE  NInv'
<1> USE DEF NInv
<1>1. HInv'
  BY TakeStep
<1>2. PICK T : log \in Seq(Entry(T))
  BY DEF LogType
<1>3. PICK n : n = nextId'
  OBVIOUS
<1>4. PICK e : e = [key |-> <<Node, Session, n>>, content |-> pending', end |-> Nil]
  OBVIOUS
<1>5. /\ n = NextId(nextId) /\ id' = n /\ log' = Append(log, e) /\ pending' # Nil
      /\ pending' \in Contents /\ UNCHANGED <<ui, boot>> /\ Session' = Session
      /\ pending = Nil /\ outbound # <<>>
  <2>1. pending' \in Contents
    BY DEF Take, HInv, Simple
  <2> QED BY <1>3, <1>4, <2>1, PocketMeshAssumption DEF Take, Session
<1>6. n \in Ids /\ n # 0
  <2>1. nextId \in 0..(IdSpace - 1) /\ IdSpace \in Nat \ {0, 1}
    BY PocketMeshAssumption DEF Counts, Ids
  <2>2. n = IF nextId = IdSpace - 1 THEN 1 ELSE nextId + 1
    BY <1>5, NextIdIs DEF Counts
  <2> QED BY <2>1, <2>2 DEF Ids
<1>7. Session = SessionAt(boot) /\ Session \in 1..NumSessions
  BY SessionsDiffer DEF Session, SessionAt, Counts
<1>8. e.key = <<Node, Session, n>> /\ e.key[2] = Session /\ e.key[3] = n /\ e.key \in Keys
  BY <1>4, <1>6, <1>7 DEF Keys
<1>9. log' \in Seq(Entry(T \cup {Nil})) /\ Len(log') = Len(log) + 1 /\ log'[Len(log) + 1] = e
      /\ \A i \in 1..Len(log) : log'[i] = log[i]
  <2>1. e \in Entry(T \cup {Nil}) /\ Entry(T) \subseteq Entry(T \cup {Nil})
    BY <1>4, <1>5, <1>8 DEF Entry
  <2>2. log \in Seq(Entry(T \cup {Nil}))
    BY <1>2, <2>1, SeqMonotonic
  <2> QED BY <1>5, <2>1, <2>2
<1>10. Len(log) \in Nat /\ Len(log) < MaxRequests /\ MaxRequests \in Nat /\ MaxRequests <= IdSpace - 1
       /\ IdSpace \in Nat
  BY <1>2, <1>5, PocketMeshAssumption, NumbersAssumption DEF Counts
<1>11. Counts'
  <2>1. ui' = Nil /\ outbound' = <<>>
    BY <1>1, <1>5, Zenon DEF HInv, OneOwner
  <2> QED BY <1>3, <1>5, <1>6, <1>9, <1>10, <2>1 DEF Counts
<1>12. LastIsPending'
  BY <1>4, <1>5, <1>9, <1>10 DEF LastIsPending, Key
<1>13. ASSUME NEW i \in 1..Len(log), log[i].key[2] = Session
       PROVE  Plus(log[i].key[3], Len(log) + 1 - i) = n /\ log[i].key[3] # n
  <2>1. PICK m, d : m = log[i].key[3] /\ d = Len(log) - i
    OBVIOUS
  <2>2. m # 0 /\ nextId = Plus(m, d)
    BY <1>13, <2>1 DEF AllNumbered, Numbered
  <2>3. m \in Ids
    <3>1. log[i] \in Entry(T)
      BY <1>2, ElementOfSeq
    <3> QED BY <2>1, <3>1 DEF Entry, Keys
  <2>4. d \in Nat /\ d + 1 < IdSpace - 1 /\ d + 1 = Len(log) + 1 - i
    BY <1>10, <2>1
  <2>5. NextId(Plus(m, d)) = Plus(m, d + 1) /\ Plus(m, d + 1) # m
    BY <2>2, <2>3, <2>4, PlusNext
  <2> QED BY <1>5, <2>1, <2>2, <2>4, <2>5
<1>14. AllNumbered'
  <2>1. PICK L : L = log'
    OBVIOUS
  <2> SUFFICES ASSUME NEW i \in 1..Len(L) PROVE Numbered(L[i], Len(L) - i)'
    BY <2>1 DEF AllNumbered
  <2>2. CASE i \in 1..Len(log)
    <3>1. PICK o, d : o = log[i] /\ d = Len(log) + 1 - i
      OBVIOUS
    <3>2. L[i] = o /\ Len(L) - i = d
      BY <1>9, <2>1, <2>2, <3>1
    <3>3. Numbered(o, Len(log) - i)
      BY <2>2, <3>1 DEF AllNumbered
    <3>4. o.key[2] = Session => n = Plus(o.key[3], d)
      BY <1>13, <2>2, <3>1
    <3>5. Numbered(o, d)'
      BY <1>3, <1>5, <3>3, <3>4 DEF Numbered
    <3> QED BY <3>2, <3>5
  <2>3. CASE i = Len(log) + 1
    <3>1. L[i] = e /\ Len(L) - i = 0
      BY <1>9, <1>10, <2>1, <2>3
    <3>2. boot \in 1..boot
      BY DEF Counts
    <3>3. Plus(n, 0) = n
      BY <1>6, <1>10 DEF Plus, Ids
    <3>4. Numbered(e, 0)'
      BY <1>3, <1>5, <1>6, <1>7, <1>8, <3>2, <3>3 DEF Numbered
    <3> QED BY <3>1, <3>4
  <2> QED BY <1>9, <1>10, <2>1, <2>2, <2>3
<1>15. KeysAreFresh'
  <2>1. \A i \in 1..Len(log) : log[i].key # e.key
    BY <1>8, <1>13
  <2>2. PICK L : L = log'
    OBVIOUS
  <2>3. \A i \in 1..Len(L) : i \in 1..Len(log) \/ i = Len(log) + 1
    BY <1>9, <1>10, <2>2
  <2>4. \A i \in 1..Len(log) : L[i].key = log[i].key
    BY <1>9, <2>2
  <2>5. L[Len(log) + 1].key = e.key /\ e.key[3] # 0
    BY <1>6, <1>8, <1>9, <2>2
  <2>6. \A i \in 1..Len(L) : L[i].key[3] # 0
    BY <2>3, <2>4, <2>5 DEF KeysAreFresh
  <2>7. \A i, j \in 1..Len(L) : i # j => L[i].key # L[j].key
    BY <2>1, <2>3, <2>4, <2>5 DEF KeysAreFresh
  <2> QED BY <2>2, <2>6, <2>7 DEF KeysAreFresh
<1> QED BY <1>1, <1>9, <1>11, <1>12, <1>14, <1>15 DEF LogType

\* The end of a request is written beside it; its key stays.
LEMMA FinishNumbers ==
    ASSUME NInv, HInv', NEW text, Finish(text), pending # Nil,
           UNCHANGED <<ui, outbound, boot, nextId, id>>
    PROVE  NInv'
<1> USE DEF NInv
<1>1. PICK T : log \in Seq(Entry(T))
  BY DEF LogType
<1>2. PICK n \in 1..Len(log) : n = Len(log)
  BY <1>1 DEF LastIsPending
<1>3. log' = [log EXCEPT ![n] = [log[n] EXCEPT !.end = text]]
  BY <1>2 DEF Finish
<1>4. log \in Seq(Entry(T \cup {text})) /\ [log[n] EXCEPT !.end = text] \in Entry(T \cup {text})
  <2>1. Entry(T) \subseteq Entry(T \cup {text})
    BY DEF Entry
  <2>2. log[n] \in Entry(T)
    BY <1>1, ElementOfSeq
  <2>3. log \in Seq(Entry(T \cup {text}))
    BY <1>1, <2>1, SeqMonotonic
  <2> QED BY <2>2, <2>3 DEF Entry
<1>5. log' \in Seq(Entry(T \cup {text})) /\ Len(log') = Len(log)
  BY <1>3, <1>4
<1>6. \A i \in 1..Len(log) : log'[i].key = log[i].key
  <2>1. \A i \in 1..Len(log) : log[i] \in Entry(T)
    BY <1>1, ElementOfSeq
  <2> QED BY <1>1, <1>3, <2>1 DEF Entry
<1>7. Counts' /\ LastIsPending'
  BY <1>5 DEF Counts, LastIsPending, Finish
<1>8. AllNumbered' /\ KeysAreFresh'
  <2>1. AllNumbered'
    BY <1>5, <1>6 DEF AllNumbered, Numbered, Session
  <2>2. KeysAreFresh'
    BY <1>5, <1>6 DEF KeysAreFresh
  <2> QED BY <2>1, <2>2
<1> QED BY <1>5, <1>7, <1>8 DEF LogType

\* A reboot begins a session no request was made in.
LEMMA RebootNumbers ==
    ASSUME NInv, HInv', Reboot
    PROVE  NInv'
<1> USE DEF NInv
<1>1. /\ boot' = boot + 1 /\ boot + 1 \in 1..NumSessions /\ boot + 1 <= MaxBoots
      /\ ui' = Nil /\ outbound' = <<>> /\ pending' = Nil /\ id' = 0 /\ nextId' \in Seeds
      /\ UNCHANGED log
  BY PocketMeshAssumption, NumbersAssumption DEF Reboot, Counts
<1>2. nextId' \in Ids /\ id' \in Ids
  BY <1>1, PocketMeshAssumption DEF Ids
<1>3. Counts' /\ LastIsPending'
  BY <1>1, <1>2 DEF Counts, LastIsPending
<1>4. AllNumbered'
  <2> SUFFICES ASSUME NEW i \in 1..Len(log) PROVE Numbered(log[i], Len(log) - i)'
    BY <1>1 DEF AllNumbered
  <2>1. Numbered(log[i], Len(log) - i)
    BY DEF AllNumbered
  <2>2. PICK b \in 1..boot : log[i].key[2] = SessionAt(b)
    BY <2>1 DEF Numbered
  <2>3. b \in 1..NumSessions /\ b # boot + 1 /\ b \in 1..(boot + 1)
    <3>1. boot \in Nat /\ b \in Nat /\ 1 <= b /\ b <= boot /\ boot <= NumSessions
          /\ NumSessions \in Nat
      BY PocketMeshAssumption DEF Counts
    <3> QED BY <3>1
  <2>4. SessionAt(b) # SessionAt(boot + 1)
    BY <1>1, <2>3, SessionsDiffer
  <2>5. Session' = SessionAt(boot + 1)
    BY <1>1 DEF Session, SessionAt
  <2> QED BY <1>1, <2>1, <2>2, <2>3, <2>4, <2>5 DEF Numbered
<1>5. LogType' /\ KeysAreFresh'
  BY <1>1 DEF LogType, KeysAreFresh
<1> QED BY <1>3, <1>4, <1>5

\* Every step of the handheld preserves the invariant.
LEMMA StepNInv == ASSUME NInv, HStep PROVE NInv'
<1> USE DEF NInv
<1>1. HInv'
  BY StepHInv
<1>2. ui # Nil \/ outbound # <<>> => Len(log) < MaxRequests
  BY DEF Counts
<1>3. CASE UiStep
  <2>1. ASSUME NEW x \in Contents, Claim(x) PROVE NInv'
    BY <1>1, <2>1, QuietStep DEF Claim
  <2>2. CASE Enqueue
    BY <1>1, <1>2, <2>2, QuietStep DEF Enqueue
  <2>3. CASE TakeResult
    BY <1>1, <1>2, <2>3, QuietStep DEF TakeResult
  <2> QED BY <1>3, <2>1, <2>2, <2>3 DEF UiStep
<1>4. CASE MeshStep
  <2>1. CASE Take
    BY <2>1, TakeNumbers
  <2>2. CASE SendChunk \/ FallSilent \/ Retry
    BY <1>1, <1>2, <2>2, QuietStep DEF SendChunk, FallSilent, Retry
  <2>3. CASE GiveUp
    BY <1>1, <2>3, FinishNumbers DEF GiveUp, AllSent
  <2> QED BY <1>4, <2>1, <2>2, <2>3 DEF MeshStep
<1>5. ASSUME NEW f, NEW late, Receive(f, late) PROVE NInv'
  <2>1. pending # Nil /\ UNCHANGED <<ui, outbound, boot, nextId, id>>
    BY <1>5 DEF Receive, Expected
  <2>2. (\E text : Finish(text)) \/ UNCHANGED <<pending, log>>
    BY <1>5 DEF Receive, Accept
  <2>3. CASE \E text : Finish(text)
    BY <1>1, <2>1, <2>3, FinishNumbers
  <2>4. CASE UNCHANGED <<pending, log>>
    BY <1>1, <1>2, <2>1, <2>4, QuietStep
  <2> QED BY <2>2, <2>3, <2>4
<1>6. CASE Reboot
  BY <1>1, <1>6, RebootNumbers
<1>7. CASE UNCHANGED hvars
  BY <1>1, <1>2, <1>7, QuietStep DEF hvars
<1> QED BY <1>3, <1>4, <1>5, <1>6, <1>7 DEF HStep

\* No two requests are sent under the same key, across reboots with their random
\* first number and the wrap of the number past 0, and none under number 0.
THEOREM RequestsHaveOwnKeys == HSpec => []KeysAreFresh
<1>1. NInv => KeysAreFresh
  BY DEF NInv
<1> QED BY <1>1, InitNInv, StepNInv, NextIsStep, PTL DEF HSpec

-----------------------------------------------------------------------------
\* What goes out is what was logged, and what a request ends with came in.

\* Each frame sent is a chunk of a request taken.
Sent ==
    /\ chunk \in Nat
    /\ \A f \in up : \E i \in 1..Len(log) : f \in Chunks("request", log[i].key, log[i].content)

\* The text e ends a request for k: it has not ended, no reply came, or a chunk
\* of a reply with that text and key was among the frames D.
EndsWith(D, k, e) ==
    \/ e \in {Nil, "noresult"}
    \/ \E f \in D : f.kind = "result" /\ f.key = k /\ f.body = e

\* The reassembler holds chunks from D, all of one message, and each request
\* ended as D tells.
Heard(D) ==
    /\ \A g \in rx.got : g \in D /\ Tag(g) = rx.tag
    /\ \A i \in 1..Len(log) : EndsWith(D, log[i].key, log[i].end)

\* A step of the handheld that hears only frames of D.
HearStep(D) ==
    UiStep \/ MeshStep \/ (\E f \in D : \E late : Receive(f, late)) \/ Reboot \/ UNCHANGED hvars

\* The last entry of the log is the one that changes when a request ends.
LEMMA FinishEffect ==
    ASSUME NInv, NEW text, Finish(text), pending # Nil
    PROVE  /\ Len(log') = Len(log) /\ Len(log) \in Nat /\ Len(log) > 0
           /\ \A i \in 1..Len(log) :
                /\ log'[i].key = log[i].key /\ log'[i].content = log[i].content
                /\ log'[i].end = IF i = Len(log) THEN text ELSE log[i].end
           /\ log[Len(log)].key = Key
<1> USE DEF NInv
<1>1. PICK T : log \in Seq(Entry(T))
  BY DEF LogType
<1>2. PICK n \in 1..Len(log) : n = Len(log)
  BY <1>1 DEF LastIsPending
<1>3. \A i \in 1..Len(log) : log[i] \in Entry(T)
  BY <1>1, ElementOfSeq
<1>4. PICK e : e = [log[n] EXCEPT !.end = text]
  OBVIOUS
<1>5. e.key = log[n].key /\ e.content = log[n].content /\ e.end = text
  BY <1>3, <1>4 DEF Entry
<1>6. log' = [log EXCEPT ![n] = e]
  BY <1>2, <1>4 DEF Finish
<1>7. DOMAIN log' = DOMAIN log /\ log' \in Seq({log[i] : i \in 1..Len(log)} \cup {e})
  <2>1. log \in Seq({log[i] : i \in 1..Len(log)} \cup {e})
    BY <1>1
  <2> QED BY <1>6, <2>1
<1>8. log[n].key = Key
  BY <1>2 DEF LastIsPending
<1> QED BY <1>1, <1>2, <1>5, <1>6, <1>7, <1>8

\* Every frame sent is a chunk of a request taken, and stays sent.
LEMMA StepSent ==
    ASSUME NInv, Sent, HStep
    PROVE  Sent' /\ up \subseteq up'
<1> USE DEF NInv
<1>1. PICK T : log \in Seq(Entry(T))
  BY DEF LogType
<1>2. ASSUME UNCHANGED <<up, log>>, chunk' \in Nat PROVE Sent' /\ up \subseteq up'
  BY <1>2 DEF Sent
<1>3. ASSUME NEW text, Finish(text), pending # Nil, UNCHANGED <<up, chunk>>
      PROVE  Sent' /\ up \subseteq up'
  BY <1>3, FinishEffect DEF Sent
<1>4. CASE Take
  <2>1. PICK n, x : n = nextId' /\ x = pending'
    OBVIOUS
  <2>2. PICK e : e = [key |-> <<Node, Session, n>>, content |-> x, end |-> Nil]
    OBVIOUS
  <2>3. PICK c : c = Chunk("request", e.key, e.content, 1)
    OBVIOUS
  <2>4. log' = Append(log, e) /\ up' = up \cup {c} /\ chunk' = 1
    BY <1>4, <2>1, <2>2, <2>3 DEF Take, Session
  <2>5. c \in Chunks("request", e.key, e.content)
    <3>1. x \in Contents
      BY <1>4, <2>1 DEF Take, HInv, Simple
    <3>2. Size[x] \in Nat \ {0}
      BY <3>1, SizeAssumption, PocketMeshAssumption
    <3>3. 1 \in 1..Size[e.content]
      BY <2>2, <3>2
    <3> QED BY <2>3, <3>3 DEF Chunks
  <2>6. Len(log') = Len(log) + 1 /\ log'[Len(log) + 1] = e /\ Len(log) \in Nat
        /\ \A i \in 1..Len(log) : log'[i] = log[i]
    BY <1>1, <2>4
  <2>7. \A f \in up' : \E i \in 1..Len(log') : f \in Chunks("request", log'[i].key, log'[i].content)
    <3>1. ASSUME NEW f \in up
          PROVE  \E i \in 1..Len(log') : f \in Chunks("request", log'[i].key, log'[i].content)
      <4>1. PICK i \in 1..Len(log) : f \in Chunks("request", log[i].key, log[i].content)
        BY DEF Sent
      <4> QED BY <2>6, <4>1
    <3>2. c \in Chunks("request", log'[Len(log) + 1].key, log'[Len(log) + 1].content)
      BY <2>5, <2>6
    <3> QED BY <2>4, <2>6, <3>1, <3>2
  <2> QED BY <2>4, <2>7 DEF Sent
<1>5. CASE SendChunk
  <2>1. PICK n : n = Len(log)
    OBVIOUS
  <2>2. n \in 1..Len(log) /\ log[n].key = Key /\ log[n].content = pending
    BY <1>1, <1>5, <2>1 DEF LastIsPending, SendChunk
  <2>3. PICK c : c = Chunk("request", Key, pending, chunk + 1)
    OBVIOUS
  <2>4. up' = up \cup {c} /\ chunk' = chunk + 1 /\ UNCHANGED log
    BY <1>5, <2>3 DEF SendChunk
  <2>5. c \in Chunks("request", log[n].key, log[n].content)
    <3>1. pending \in Contents
      BY <1>5 DEF SendChunk, HInv, Simple
    <3>2. Size[pending] \in Nat \ {0} /\ chunk < Size[pending] /\ chunk \in Nat
      BY <1>5, <3>1, SizeAssumption, PocketMeshAssumption DEF SendChunk, Sent
    <3> QED BY <2>2, <2>3, <3>2 DEF Chunks
  <2> QED BY <2>2, <2>4, <2>5 DEF Sent
<1>6. chunk \in Nat
  BY DEF Sent
<1>7. CASE UiStep
  BY <1>2, <1>6, <1>7 DEF UiStep, Claim, Enqueue, TakeResult
<1>8. CASE MeshStep
  <2>1. CASE FallSilent \/ Retry
    BY <1>2, <1>6, <2>1 DEF FallSilent, Retry
  <2>2. CASE GiveUp
    BY <1>3, <2>2 DEF GiveUp, AllSent
  <2> QED BY <1>4, <1>5, <1>8, <2>1, <2>2 DEF MeshStep
<1>9. ASSUME NEW f, NEW late, Receive(f, late) PROVE Sent' /\ up \subseteq up'
  <2>1. pending # Nil /\ UNCHANGED <<up, chunk>>
    BY <1>9 DEF Receive, Expected
  <2>2. (\E text : Finish(text)) \/ UNCHANGED log
    BY <1>9 DEF Receive, Accept
  <2> QED BY <1>2, <1>3, <1>6, <2>1, <2>2
<1>10. CASE Reboot \/ UNCHANGED hvars
  BY <1>2, <1>6, <1>10 DEF Reboot, hvars
<1> QED BY <1>7, <1>8, <1>9, <1>10 DEF HStep

\* More frames to hear take nothing back.
LEMMA HeardMore ==
    ASSUME NEW D, NEW E, D \subseteq E, Heard(D)
    PROVE  Heard(E)
BY DEF Heard, EndsWith

\* A request ends with a reply to its own key, or with the notice that none came.
LEMMA StepHeard ==
    ASSUME NInv, NEW D, \A f \in D : f.kind \in {"ack", "result"}, Heard(D), HearStep(D)
    PROVE  Heard(D)'
<1> USE DEF NInv
<1>1. PICK T : log \in Seq(Entry(T))
  BY DEF LogType
<1>2. \A i \in 1..Len(log) : EndsWith(D, log[i].key, log[i].end)
  BY DEF Heard
<1>3. ASSUME UNCHANGED log
      PROVE  \A i \in 1..Len(log') : EndsWith(D, log'[i].key, log'[i].end)
  BY <1>2, <1>3
<1>4. ASSUME NEW text, Finish(text), pending # Nil, EndsWith(D, Key, text)
      PROVE  \A i \in 1..Len(log') : EndsWith(D, log'[i].key, log'[i].end)
  BY <1>2, <1>4, FinishEffect DEF EndsWith
<1>5. ASSUME rx' = rx \/ rx' = Empty
      PROVE  \A g \in rx'.got : g \in D /\ Tag(g) = rx'.tag
  BY <1>5 DEF Heard, Empty
<1>6. CASE UiStep \/ Reboot \/ UNCHANGED hvars
  <2>1. UNCHANGED log /\ (rx' = rx \/ rx' = Empty)
    BY <1>6 DEF UiStep, Claim, Enqueue, TakeResult, Reboot, hvars
  <2> QED BY <1>3, <1>5, <2>1 DEF Heard
<1>7. CASE MeshStep
  <2>1. CASE Take
    <3>1. PICK n, x : n = nextId' /\ x = pending'
      OBVIOUS
    <3>2. PICK e : e = [key |-> <<Node, Session, n>>, content |-> x, end |-> Nil]
      OBVIOUS
    <3>3. log' = Append(log, e) /\ UNCHANGED rx /\ e.end = Nil
      BY <2>1, <3>1, <3>2 DEF Take, Session
    <3>4. Len(log') = Len(log) + 1 /\ log'[Len(log) + 1] = e /\ Len(log) \in Nat
          /\ \A i \in 1..Len(log) : log'[i] = log[i]
      BY <1>1, <3>3
    <3>5. \A i \in 1..Len(log') : EndsWith(D, log'[i].key, log'[i].end)
      BY <1>2, <3>3, <3>4 DEF EndsWith
    <3> QED BY <1>5, <3>3, <3>5 DEF Heard
  <2>2. CASE SendChunk \/ FallSilent \/ Retry
    BY <1>3, <1>5, <2>2 DEF SendChunk, FallSilent, Retry, Heard
  <2>3. CASE GiveUp
    <3>1. Finish("noresult") /\ pending # Nil /\ rx' = Empty
      BY <2>3 DEF GiveUp, AllSent, Finish
    <3>2. EndsWith(D, Key, "noresult")
      BY DEF EndsWith
    <3> QED BY <1>4, <1>5, <3>1, <3>2 DEF Heard
  <2> QED BY <1>7, <2>1, <2>2, <2>3 DEF MeshStep
<1>8. ASSUME NEW f \in D, NEW old, Receive(f, old) PROVE Heard(D)'
  <2>1. PICK got : got = Merge(rx, f, old)
    OBVIOUS
  <2>2. \A g \in got : g \in D /\ Tag(g) = Tag(f)
    BY <2>1 DEF Merge, Heard
  <2>3. got # {}
    BY <2>1 DEF Merge
  <2>4. \/ UNCHANGED log
        \/ Unsealed(got) # Mixed /\ f.kind # "ack" /\ Finish(Unsealed(got))
    BY <1>8, <2>1 DEF Receive, Accept
  <2>5. pending # Nil /\ f.key = Key /\ rx' = After(rx, f, old)
    BY <1>8 DEF Receive, Expected
  <2>6. \A g \in rx'.got : g \in D /\ Tag(g) = rx'.tag
    <3>1. PICK a : a = After(rx, f, old)
      OBVIOUS
    <3>2. a = Empty \/ a = [tag |-> Tag(f), got |-> got]
      BY <2>1, <3>1 DEF After
    <3>3. \A g \in a.got : g \in D /\ Tag(g) = a.tag
      BY <2>2, <3>2 DEF Empty
    <3> QED BY <2>5, <3>1, <3>3
  <2>7. ASSUME Unsealed(got) # Mixed, f.kind # "ack" PROVE EndsWith(D, Key, Unsealed(got))
    <3>1. PICK b \in Bodies : \A g \in got : g.body = b
      BY <2>7 DEF Unsealed
    <3>2. PICK g \in got : TRUE
      BY <2>3
    <3>3. Unsealed(got) = (CHOOSE h \in got : TRUE).body
      BY <3>1 DEF Unsealed
    <3>4. (CHOOSE h \in got : TRUE) \in got
      BY <2>3
    <3>5. Unsealed(got) = b
      BY <3>1, <3>3, <3>4
    <3>6. g \in D /\ g.kind = f.kind /\ g.key = f.key /\ g.body = b /\ f.kind = "result"
      BY <2>2, <2>7, <3>1, <3>2 DEF Tag
    <3> QED BY <2>5, <3>5, <3>6 DEF EndsWith
  <2>8. \A i \in 1..Len(log') : EndsWith(D, log'[i].key, log'[i].end)
    <3>1. CASE UNCHANGED log
      BY <1>3, <3>1
    <3>2. CASE Unsealed(got) # Mixed /\ f.kind # "ack" /\ Finish(Unsealed(got))
      <4>1. PICK text : text = Unsealed(got)
        OBVIOUS
      <4>2. EndsWith(D, Key, text)
        <5>1. \/ \E g \in D : g.kind = "result" /\ g.key = Key /\ g.body = Unsealed(got)
              \/ Unsealed(got) \in {Nil, "noresult"}
          BY <2>7, <3>2 DEF EndsWith
        <5> QED BY <4>1, <5>1 DEF EndsWith
      <4>3. Finish(text)
        BY <3>2, <4>1 DEF Finish
      <4> QED BY <1>4, <2>5, <4>2, <4>3
    <3> QED BY <2>4, <3>1, <3>2
  <2> QED BY <2>6, <2>8 DEF Heard
<1> QED BY <1>6, <1>7, <1>8 DEF HearStep
=============================================================================
