----------------------- MODULE LauncherScreenProofs -------------------------
(***************************************************************************)
(* Proofs of what the screen shows, for every size of canvas, desktop and  *)
(* text and any number of changes, presses, failures, reads and runs.      *)
(*                                                                         *)
(* CanvasIsPrevious is not inductive: it says nothing of what is under     *)
(* way.  Sync adds that a request for changes only (reset = FALSE) is      *)
(* made, waits and is served while the canvas is what the companion        *)
(* compares with, and that requests the handheld gave up on are only ever  *)
(* followed by a request for a whole frame.                                *)
(*                                                                         *)
(* The computations are folds.  FoldSteps turns one into a function of the *)
(* place reached, and IntervalInd shows what holds at each place; both are *)
(* about sets and functions, so they need no theorem that takes an         *)
(* operator.                                                               *)
(***************************************************************************)
EXTENDS LauncherScreen, SequenceTheorems, FunctionTheorems, FiniteSetTheorems,
        WellFoundedInduction, TLAPS

-----------------------------------------------------------------------------
\* The canvas.

Request == [op : {"start", "frame"}, x : Nat, reset : BOOLEAN]

Types ==
    /\ canvas \in [Tiles -> Colours \cup {Blank}]
    /\ desktop \in [1..Width -> Colours]
    /\ pan \in Nat /\ view \in Nat
    /\ queue \in Seq(Request)
    /\ asked \in Request \cup {Nil}
    /\ reset \in BOOLEAN /\ live \in BOOLEAN /\ held \in BOOLEAN
    /\ Answered("frame") =>
          /\ reply.tiles \subseteq Tiles /\ reply.x \in Nat
          /\ reply.crop \in [Tiles -> Colours \cup {Blank}]
    /\ previous \in [Tiles -> Colours \cup {Blank}] \cup {Nil}

\* One thing is under way: the request, or its place in the queue, or its reply.
OneUnderWay ==
    /\ asked # Nil => busy /\ ~live /\ reply = Nil
    /\ live => busy
    /\ reply # Nil => live /\ queue = <<>>
    /\ ~busy => reply = Nil
    /\ Asked("start") => reset
    /\ Asked("frame") \/ live => held
    /\ held => shown /\ ~Asked("start")
    /\ Asked("start") => shown
    /\ ~alive => queue = <<>>

\* A request for changes finds the companion with what the canvas shows.
Sync ==
    /\ held /\ ~reset => Len(queue) = 0 \/ (Len(queue) = 1 /\ live)
    /\ held /\ ~reset /\ ~Answered("frame") => canvas = previous /\ pan = view
    /\ Asked("frame") /\ ~asked.reset => queue = <<>> /\ canvas = previous
    /\ live /\ queue # <<>> /\ ~queue[Len(queue)].reset => Len(queue) = 1 /\ canvas = previous
    /\ Answered("frame") => Patched(reply) = previous /\ reply.x = view

IInv == Types /\ OneUnderWay /\ Sync

-----------------------------------------------------------------------------
\* The two recurring steps.

\* The tiles that changed, laid over the old view, make the new one; all tiles do
\* whatever was there.
LEMMA PatchMakesCrop ==
    ASSUME NEW old, NEW crop \in [Tiles -> Colours \cup {Blank}], old = Nil \/ canvas = old,
           NEW f, f.tiles = Changed(old, crop), f.crop = crop
    PROVE  Patched(f) = crop
<1>1. CASE old = Nil
  BY <1>1 DEF Changed, Patched
<1>2. CASE old # Nil
  <2>1. ASSUME NEW t \in Tiles, t \notin f.tiles PROVE canvas[t] = crop[t]
    <3>1. ~(\E a, b \in Tiles : a <= t /\ t <= b /\ old[a] # crop[a] /\ old[b] # crop[b])
      BY <1>2, <2>1 DEF Changed
    <3>2. t <= t BY DesktopAssumption DEF Tiles
    <3> QED BY <1>2, <3>1, <3>2
  <2> QED BY <2>1 DEF Patched
<1> QED BY <1>1, <1>2

\* What the handheld does when an exchange has failed, and when a page opens or
\* closes, keeps the invariant: a whole frame is due, or nothing is held.
LEMMA WholeFrameDue ==
    ASSUME IInv, UNCHANGED <<alive, queue, previous, view>>, Types', OneUnderWay',
           reset' \/ ~held', ~live', asked' = Nil \/ asked'.op = "start", reply' = Nil
    PROVE  Sync'
BY DEF Sync, Asked, Answered

\* A crop of the desktop is a picture.
LEMMA CropType ==
    ASSUME Types, NEW x \in Nat
    PROVE  /\ Clamp(x) \in 0..(Width - N)
           /\ Crop(Clamp(x)) \in Pictures
           /\ Crop(Clamp(x)) \in [Tiles -> Colours \cup {Blank}]
<1>1. Clamp(x) \in 0..(Width - N)
  BY DesktopAssumption DEF Clamp
<1>2. ASSUME NEW t \in Tiles PROVE desktop[Clamp(x) + t] \in Colours
  <2>1. Clamp(x) + t \in 1..Width
    BY <1>1, DesktopAssumption DEF Tiles
  <2> QED BY <2>1 DEF Types
<1> QED BY <1>1, <1>2 DEF Crop, Pictures

-----------------------------------------------------------------------------
\* One lemma per action.

\* Opening the page asks for a whole frame.
LEMMA ShowKeeps == ASSUME IInv, Show PROVE IInv'
<1>1. Types'
  BY DEF Show, Ask, IInv, Types, Request, companion, Answered
<1>2. OneUnderWay'
  BY DEF Show, Ask, IInv, Types, OneUnderWay, Sync, companion, Asked, Answered
<1> QED BY <1>1, <1>2, WholeFrameDue DEF Show, Ask, IInv, OneUnderWay, companion

\* Leaving the page leaves nothing under way but what is in the queue.
LEMMA LeaveKeeps == ASSUME IInv, Leave PROVE IInv'
<1>1. Types'
  BY DEF Leave, IInv, Types, companion, Answered
<1>2. OneUnderWay'
  BY DEF Leave, IInv, OneUnderWay, companion, Asked
<1>3. asked' = Nil /\ ~live' /\ reply' = Nil
  BY DEF Leave, IInv, OneUnderWay, companion
<1> QED BY <1>1, <1>2, <1>3, WholeFrameDue DEF Leave, IInv, companion

\* A request for changes only is made when nothing else is under way.
LEMMA PollKeeps == ASSUME IInv, Poll PROVE IInv'
<1> USE DEF IInv
<1>1. Types'
  BY DEF Poll, Ask, Types, Request, companion, Answered
<1>2. ~live /\ reply = Nil /\ UNCHANGED <<live, reply, queue, previous, view, canvas, pan, reset, held>>
  BY DEF Poll, OneUnderWay, companion
<1>3. OneUnderWay'
  BY <1>2 DEF Poll, Ask, OneUnderWay, companion, Asked
<1>4. ~reset => queue = <<>> /\ canvas = previous /\ pan = view
  BY <1>2, EmptySeq DEF Poll, Sync, Answered, Types
<1>5. Sync'
  BY <1>2, <1>4 DEF Poll, Ask, Sync, Asked, Answered
<1> QED BY <1>1, <1>3, <1>5

\* Moving the view asks for a whole frame next.
LEMMA PanKeeps == ASSUME IInv, Pan PROVE IInv'
<1> USE DEF IInv
<1>1. Types'
  BY DEF Pan, Types, companion, Answered
<1>2. OneUnderWay'
  BY DEF Pan, OneUnderWay, companion, Asked
<1>3. Sync'
  BY DEF Pan, Sync, companion, Asked, Answered, Patched
<1> QED BY <1>1, <1>2, <1>3

\* A frame is laid over the canvas it was made against, or is whole.
LEMMA FrameKeeps == ASSUME IInv, Frame PROVE IInv'
<1> USE DEF IInv
<1>1. Patched(reply) \in [Tiles -> Colours \cup {Blank}]
  BY DEF Frame, Types, Patched
<1>2. Types'
  BY <1>1 DEF Frame, Types, Answered
<1>3. queue = <<>> /\ asked = Nil
  BY DEF Frame, OneUnderWay, Answered
<1>4. OneUnderWay'
  BY <1>3 DEF Frame, OneUnderWay, Asked
<1>5. Len(queue) = 0
  BY <1>3
<1>6. Sync'
  BY <1>3, <1>5 DEF Frame, Sync, Asked, Answered
<1> QED BY <1>2, <1>4, <1>6

\* After a refused frame a whole one is due.
LEMMA RefusedKeeps == ASSUME IInv, Refused PROVE IInv'
<1> USE DEF IInv
<1>1. Types'
  BY DEF Refused, Types, Answered
<1>2. asked = Nil /\ UNCHANGED asked
  BY DEF Refused, OneUnderWay, Answered
<1>3. OneUnderWay'
  BY <1>2 DEF Refused, OneUnderWay, Asked
<1> QED BY <1>1, <1>2, <1>3, WholeFrameDue DEF Refused

\* After a failure a whole frame is due.
LEMMA FailureKeeps == ASSUME IInv, Failure PROVE IInv'
<1> USE DEF IInv
<1>1. Types'
  BY DEF Failure, Types, Answered
<1>2. OneUnderWay'
  BY DEF Failure, OneUnderWay, Asked
<1> QED BY <1>1, <1>2, WholeFrameDue DEF Failure

\* A new session has no requests at its lock and owes a whole frame.
LEMMA CreateKeeps == ASSUME IInv, Create PROVE IInv'
<1> USE DEF IInv
<1>1. Types'
  BY EmptySeq DEF Create, Types, Answered
<1>2. OneUnderWay'
  BY DEF Create, OneUnderWay, Asked
<1>3. reset' = TRUE
  <2>1. reset' = reset /\ reset
    BY DEF Create, OneUnderWay
  <2> QED BY <2>1 DEF Types
<1>4. Sync'
  BY <1>3 DEF Create, Sync, Asked, Answered
<1> QED BY <1>1, <1>2, <1>4

\* A request that arrives is the last in the queue.
LEMMA ArriveKeeps == ASSUME IInv, Arrive PROVE IInv'
<1> USE DEF IInv
<1>1. /\ asked \in Request /\ ~live /\ reply = Nil /\ held /\ busy
      /\ asked' = Nil /\ live' = TRUE
      /\ UNCHANGED <<shown, held, busy, pan, reset, canvas, alive, previous, view, desktop>>
  BY DEF Arrive, OneUnderWay, Types, Asked
<1>2. CASE alive
  <2>1. /\ queue' = Append(queue, asked) /\ reply' = Nil
    BY <1>1, <1>2 DEF Arrive
  <2>2. /\ queue' \in Seq(Request)
        /\ Len(queue') = Len(queue) + 1
        /\ queue'[Len(queue')] = asked
    BY <1>1, <2>1 DEF Types
  <2>3. Types'
    BY <1>1, <2>1, <2>2 DEF Types, Answered
  <2>4. OneUnderWay'
    BY <1>1, <1>2, <2>1 DEF OneUnderWay, Asked
  <2>5. ~reset => Len(queue) = 0 /\ canvas = previous /\ pan = view
    BY <1>1 DEF Sync, Answered, Types
  <2>6. ~asked.reset => Len(queue) = 0 /\ canvas = previous
    BY DEF Arrive, Sync
  <2>7. Sync'
    BY <1>1, <2>1, <2>2, <2>5, <2>6 DEF Sync, Asked, Answered
  <2> QED BY <2>3, <2>4, <2>7
<1>3. CASE ~alive
  <2>1. queue' = <<>> /\ queue = <<>> /\ reply' = Reply("gone", 0, Nil, {})
    BY <1>3 DEF Arrive, OneUnderWay
  <2>2. reply'.status = "gone"
    BY <2>1 DEF Reply
  <2>3. Types'
    BY <1>1, <2>1, <2>2 DEF Types, Answered
  <2>4. OneUnderWay'
    BY <1>1, <2>1 DEF OneUnderWay, Asked
  <2>5. ~reset => canvas = previous /\ pan = view
    BY <1>1 DEF Sync, Answered
  <2>6. Len(queue') = 0
    BY <2>1
  <2>7. Sync'
    BY <1>1, <2>1, <2>2, <2>5, <2>6 DEF Sync, Asked, Answered
  <2> QED BY <2>3, <2>4, <2>7
<1> QED BY <1>2, <1>3

\* What is left of the queue when its head is done, and whether it was live.
LEMMA HeadDone ==
    ASSUME IInv, queue # <<>>, queue' = Tail(queue)
    PROVE  /\ Head(queue) \in Request /\ Tail(queue) \in Seq(Request)
           /\ Len(Tail(queue)) = Len(queue) - 1 /\ Len(queue) \in Nat \ {0}
           /\ Len(queue) = 1 => Tail(queue) = <<>> /\ Head(queue) = queue[Len(queue)]
           /\ Len(queue) # 1 => Tail(queue) # <<>> /\ Tail(queue)[Len(Tail(queue))] = queue[Len(queue)]
<1>1. queue \in Seq(Request)
  BY DEF IInv, Types
<1>2. /\ Head(queue) \in Request /\ Tail(queue) \in Seq(Request)
      /\ Len(Tail(queue)) = Len(queue) - 1 /\ Len(queue) \in Nat \ {0}
  BY <1>1, HeadTailProperties, EmptySeq
<1>3. CASE Len(queue) = 1
  BY <1>1, <1>2, <1>3, EmptySeq
<1>4. CASE Len(queue) # 1
  <2>1. Len(Tail(queue)) \in 1..Len(Tail(queue))
    BY <1>2, <1>4
  <2>2. Tail(queue)[Len(Tail(queue))] = queue[Len(Tail(queue)) + 1]
    BY <1>1, <1>2, <2>1, HeadTailProperties
  <2>3. Tail(queue) # <<>>
    BY <1>2, <1>4, EmptySeq
  <2>4. Len(Tail(queue)) + 1 = Len(queue)
    BY <1>2
  <2> QED BY <1>2, <1>4, <2>2, <2>3, <2>4
<1> QED BY <1>2, <1>3, <1>4

\* What is said of the last request in the queue outlives the ones before it.
LEMMA ServeKeeps == ASSUME IInv, Serve PROVE IInv'
<1> DEFINE q == Head(queue)
           x == Clamp(q.x)
           f == Reply("frame", x, Crop(x), Changed(IF q.reset THEN Nil ELSE previous, Crop(x)))
<1>1. /\ queue # <<>> /\ queue' = Tail(queue)
      /\ previous' = Crop(x) /\ view' = x
      /\ reply' = IF live /\ Len(queue) = 1 THEN f ELSE reply
      /\ UNCHANGED <<shown, held, busy, asked, pan, reset, canvas, alive, live, desktop>>
  BY DEF Serve, Answer, handheld
<1>2. /\ q \in Request /\ Tail(queue) \in Seq(Request)
      /\ Len(Tail(queue)) = Len(queue) - 1 /\ Len(queue) \in Nat \ {0}
      /\ Len(queue) = 1 => Tail(queue) = <<>> /\ q = queue[Len(queue)]
      /\ Len(queue) # 1 => Tail(queue) # <<>> /\ Tail(queue)[Len(Tail(queue))] = queue[Len(queue)]
  BY <1>1, HeadDone
<1>3. /\ x \in 0..(Width - N) /\ Crop(x) \in Pictures
      /\ Crop(x) \in [Tiles -> Colours \cup {Blank}]
  BY <1>2, CropType DEF IInv, Request
<1>4. reply = Nil
  BY <1>1 DEF IInv, OneUnderWay
<1>5. /\ f.status = "frame" /\ f.x = x /\ f.crop = Crop(x) /\ f.tiles \subseteq Tiles
      /\ f.tiles = Changed(IF q.reset THEN Nil ELSE previous, Crop(x))
  BY DEF Reply, Changed
<1>5a. f # Nil
  <2>1. f \in Replies
    BY <1>3, <1>5, DesktopAssumption DEF Reply, Replies
  <2> QED BY <2>1, DesktopAssumption
<1> HIDE DEF q, x, f
<1>6. Types'
  <2>1. x \in Nat
    BY <1>3, DesktopAssumption
  <2> QED BY <1>1, <1>2, <1>3, <1>4, <1>5, <2>1 DEF IInv, Types, Answered
<1>7. alive
  BY <1>1 DEF IInv, OneUnderWay
<1>8. CASE live /\ Len(queue) = 1
  <2>1. queue' = <<>> /\ Len(queue') = 0 /\ reply' = f
    BY <1>1, <1>2, <1>8
  <2>2. OneUnderWay'
    BY <1>1, <1>7, <1>8, <2>1 DEF IInv, OneUnderWay, Asked
  <2>3. ~q.reset => canvas = previous
    BY <1>1, <1>2, <1>8 DEF IInv, Sync
  <2>4. Patched(f) = Crop(x)
    BY <1>3, <1>5, <2>3, PatchMakesCrop
  <2>5. Patched(reply)' = previous'
    BY <1>1, <2>1, <2>4 DEF Patched
  <2>6. Answered("frame")' /\ reply'.x = view'
    BY <1>1, <1>5, <1>5a, <2>1 DEF Answered
  <2>7. asked = Nil /\ UNCHANGED asked
    BY <1>1, <1>8 DEF IInv, OneUnderWay
  <2> QED BY <1>1, <1>6, <2>1, <2>2, <2>5, <2>6, <2>7 DEF IInv, Sync, Asked
<1>9. CASE ~(live /\ Len(queue) = 1)
  <2>1. reply' = Nil
    BY <1>1, <1>4, <1>9
  <2>2. OneUnderWay'
    BY <1>1, <1>7, <2>1 DEF IInv, OneUnderWay, Asked
  <2>3. ~(held /\ ~reset) /\ ~(Asked("frame") /\ ~asked.reset)
    BY <1>1, <1>2, <1>9 DEF IInv, Sync
  <2>4. live => Len(queue) # 1 /\ queue[Len(queue)].reset
    BY <1>1, <1>9 DEF IInv, Sync
  <2>5. Sync'
    BY <1>1, <1>2, <2>1, <2>3, <2>4 DEF Sync, Asked, Answered
  <2> QED BY <1>6, <2>2, <2>5 DEF IInv
<1> QED BY <1>8, <1>9

\* A snapshot that fails answers its request and leaves the previous view.
LEMMA SnapshotFailsKeeps == ASSUME IInv, SnapshotFails PROVE IInv'
<1> DEFINE f == Reply("error", 0, Nil, {})
<1>1. /\ queue # <<>> /\ queue' = Tail(queue)
      /\ reply' = IF live /\ Len(queue) = 1 THEN f ELSE reply
      /\ UNCHANGED <<shown, held, busy, asked, pan, reset, canvas, alive, live, previous, view, desktop>>
  BY DEF SnapshotFails, Answer, handheld
<1>2. /\ Tail(queue) \in Seq(Request)
      /\ Len(Tail(queue)) = Len(queue) - 1 /\ Len(queue) \in Nat \ {0}
      /\ Len(queue) = 1 => Tail(queue) = <<>>
      /\ Len(queue) # 1 => Tail(queue)[Len(Tail(queue))] = queue[Len(queue)]
  BY <1>1, HeadDone
<1>3. reply = Nil /\ f.status = "error"
  BY <1>1 DEF IInv, OneUnderWay, Reply
<1> HIDE DEF f
<1>4. ~Answered("frame")'
  BY <1>1, <1>3 DEF Answered
<1>5. Types'
  BY <1>1, <1>2, <1>4 DEF IInv, Types
<1>6. OneUnderWay'
  BY <1>1, <1>2, <1>3 DEF IInv, OneUnderWay, Asked
<1>7. /\ ~Answered("frame")
      /\ ~(Asked("frame") /\ ~asked.reset)
      /\ held /\ ~reset => Len(queue) = 1
  BY <1>1, <1>2, <1>3 DEF IInv, Sync, Answered
<1>8. Sync'
  BY <1>1, <1>2, <1>4, <1>7 DEF IInv, Sync, Asked
<1> QED BY <1>5, <1>6, <1>8 DEF IInv

\* Reaping a session touches nothing of the handheld.
LEMMA ReapKeeps == ASSUME IInv, Reap PROVE IInv'
<1>1. Types'
  BY DEF Reap, handheld, IInv, Types, Answered
<1>2. OneUnderWay'
  BY DEF Reap, handheld, IInv, OneUnderWay, Asked
<1>3. Sync'
  BY DEF Reap, handheld, IInv, Sync, Asked, Answered, Patched
<1> QED BY <1>1, <1>2, <1>3 DEF IInv

\* What the desktop draws concerns the next frame only.
LEMMA DrawKeeps == ASSUME IInv, Draw \/ UNCHANGED dvars PROVE IInv'
<1>1. desktop' \in [1..Width -> Colours] /\ UNCHANGED <<handheld, companion>>
  BY DEF Draw, dvars, IInv, Types
<1>2. Types'
  BY <1>1 DEF handheld, companion, IInv, Types, Answered
<1>3. OneUnderWay'
  BY <1>1 DEF handheld, companion, IInv, OneUnderWay, Asked
<1>4. Sync'
  BY <1>1 DEF handheld, companion, IInv, Sync, Asked, Answered, Patched
<1> QED BY <1>2, <1>3, <1>4 DEF IInv

\* The invariant holds at the start.
LEMMA InitIInv == DInit => IInv
<1> SUFFICES ASSUME DInit PROVE IInv
  OBVIOUS
<1>1. Types
  BY EmptySeq DEF DInit, Types, Answered
<1>2. OneUnderWay
  BY DEF DInit, OneUnderWay, Asked
<1>3. Sync
  BY DEF DInit, Sync, Asked, Answered
<1> QED BY <1>1, <1>2, <1>3 DEF IInv

\* Every step keeps the invariant.
LEMMA NextIInv == IInv /\ [DNext]_dvars => IInv'
BY ShowKeeps, LeaveKeeps, PollKeeps, PanKeeps, FrameKeeps, RefusedKeeps, FailureKeeps, CreateKeeps,
   ArriveKeeps, ServeKeeps, SnapshotFailsKeeps, ReapKeeps, DrawKeeps DEF DNext

-----------------------------------------------------------------------------
\* The canvas always follows the frames of the companion: an incremental frame is
\* never laid over a picture it was not made against, however many requests are
\* given up, replies lost and views moved (receive() and pan() of
\* PocketLauncher.cpp against frame() of desktop_http.py).
THEOREM CanvasFollows == DSpec => []CanvasIsPrevious
<1>1. IInv => CanvasIsPrevious
  BY DEF IInv, Sync, CanvasIsPrevious
<1> QED BY <1>1, InitIInv, NextIInv, PTL DEF DSpec

-----------------------------------------------------------------------------
\* Induction and folds.

\* The library states induction for operators, which no prover here can
\* instantiate.  That < is well founded on Nat is a fact about a set.
LEMMA NatInd ==
    ASSUME NEW S, 0 \in S, \A n \in Nat : n \in S => n + 1 \in S
    PROVE  Nat \subseteq S
<1> SUFFICES ASSUME Nat \ S # {} PROVE FALSE
  OBVIOUS
<1>1. PICK R : R = OpToRel(<, Nat)
  OBVIOUS
<1>2. IsWellFoundedOn(R, Nat)
  <2>1. IsWellFoundedOn(OpToRel(<, Nat), Nat)
    BY NatLessThanWellFounded
  <2> QED BY <1>1, <2>1
<1>3. \A m, n \in Nat : <<m, n>> \in R <=> m < n
  <2>1. \A m, n \in Nat : <<m, n>> \in OpToRel(<, Nat) <=> m < n
    BY DEF OpToRel
  <2> QED BY <1>1, <2>1
<1>4. PICK x \in Nat \ S : \A y \in Nat \ S : ~(<<y, x>> \in R)
  BY <1>2, WFMin
<1>5. x # 0 /\ x - 1 \in Nat /\ x - 1 < x /\ x = (x - 1) + 1
  BY <1>4
<1>6. x - 1 \in S
  BY <1>3, <1>4, <1>5
<1> QED BY <1>4, <1>5, <1>6

\* What holds at 0 and passes from each place to the next holds up to n.
LEMMA IntervalInd ==
    ASSUME NEW n \in Nat, NEW S, 0 \in S, \A k \in 1..n : k - 1 \in S => k \in S
    PROVE  0..n \subseteq S
<1>1. PICK T : T = {k \in Nat : k <= n => k \in S}
  OBVIOUS
<1>2. 0 \in T
  BY <1>1
<1>3. ASSUME NEW k \in Nat, k \in T PROVE k + 1 \in T
  <2>1. k + 1 <= n => k + 1 \in 1..n /\ (k + 1) - 1 = k /\ k <= n
    OBVIOUS
  <2> QED BY <1>1, <1>3, <2>1
<1>4. Nat \subseteq T
  BY <1>2, <1>3, NatInd
<1> QED BY <1>1, <1>4

\* The greatest of some numbers up to n.
LEMMA MaxIs ==
    ASSUME NEW n \in Nat, NEW s \in SUBSET (1..n), s # {}
    PROVE  Max(s) \in s /\ \A i \in s : i <= Max(s)
<1>1. PICK S : S = {k \in Nat : \A t \in SUBSET (1..k) : t # {} => \E m \in t : \A i \in t : i <= m}
  OBVIOUS
<1>2. 0 \in S
  <2>1. 1..0 = {}
    OBVIOUS
  <2> QED BY <1>1, <2>1
<1>3. ASSUME NEW k \in Nat, k \in S PROVE k + 1 \in S
  <2> SUFFICES ASSUME NEW t \in SUBSET (1..(k + 1)), t # {} PROVE \E m \in t : \A i \in t : i <= m
    BY <1>1
  <2>1. CASE k + 1 \in t
    BY <2>1
  <2>2. CASE k + 1 \notin t
    <3>1. t \in SUBSET (1..k)
      BY <2>2
    <3> QED BY <1>1, <1>3, <3>1
  <2> QED BY <2>1, <2>2
<1>4. n \in S
  BY <1>2, <1>3, NatInd
<1>5. \E m \in s : \A i \in s : i <= m
  BY <1>1, <1>4
<1>6. \E m \in s : \A i \in s : m >= i
  BY <1>5
<1>7. Max(s) \in s /\ \A i \in s : Max(s) >= i
  BY <1>6 DEF Max
<1> QED BY <1>7

\* The last of the first k places, and the places before it.
LEMMA MaxOfFirst ==
    ASSUME NEW n \in Nat, NEW k \in 1..n
    PROVE  1..k \in SUBSET (1..n) /\ 1..k # {} /\ Max(1..k) = k /\ 1..k \ {Max(1..k)} = 1..(k - 1)
<1>1. 1..k \in SUBSET (1..n) /\ k \in 1..k /\ 1..k # {}
  OBVIOUS
<1>2. Max(1..k) \in 1..k /\ k <= Max(1..k)
  BY <1>1, MaxIs
<1> QED BY <1>1, <1>2

\* A fold over n places that starts with b and at place k makes F[k][v] of v, and
\* what comes of the places in a set; what is known of a function that does so
\* for values in V; what comes of the first places, one after the other.
Steps(n, V) == [1..n -> [V -> V]]

FoldsSets(g, n, V, b, F) ==
    /\ g \in [SUBSET (1..n) -> V] /\ g[{}] = b
    /\ \A s \in SUBSET (1..n) : s # {} =>
          Max(s) \in 1..n /\ g[s \ {Max(s)}] \in V /\ g[s] = F[Max(s)][g[s \ {Max(s)}]]

AgreesWith(g, n, V, b, F) ==
    /\ g[{}] = b
    /\ \A s \in SUBSET (1..n) :
          s # {} /\ Max(s) \in 1..n /\ g[s \ {Max(s)}] \in V => g[s] = F[Max(s)][g[s \ {Max(s)}]]

Folds(f, n, V, b, F) ==
    f \in [0..n -> V] /\ f[0] = b /\ \A k \in 1..n : f[k] = F[k][f[k - 1]]

\* There is a function that folds F over every set of places, largest last.
LEMMA SetFold ==
    ASSUME NEW n \in Nat, NEW V, NEW b \in V, NEW F \in Steps(n, V)
    PROVE  \E g : FoldsSets(g, n, V, b, F)
<1> USE DEF Steps
<1> DEFINE Fold(k, g) == \A s \in SUBSET (1..k) :
                            g[s] = IF s = {} THEN b ELSE F[Max(s)][g[s \ {Max(s)}]]
<1>1. PICK S : S = {k \in Nat : k <= n => \E g \in [SUBSET (1..k) -> V] : Fold(k, g)}
  OBVIOUS
<1>2. 0 \in S
  <2>1. [s \in SUBSET (1..0) |-> b] \in [SUBSET (1..0) -> V]
    OBVIOUS
  <2>2. Fold(0, [s \in SUBSET (1..0) |-> b])
    OBVIOUS
  <2> QED BY <1>1, <2>1, <2>2
<1>3. ASSUME NEW k \in Nat, k \in S PROVE k + 1 \in S
  <2> SUFFICES ASSUME k + 1 <= n PROVE \E g \in [SUBSET (1..(k + 1)) -> V] : Fold(k + 1, g)
    <3> HIDE DEF Fold
    <3>1. k + 1 \in Nat
      OBVIOUS
    <3> QED BY <1>1, <3>1
  <2>1. PICK g \in [SUBSET (1..k) -> V] : Fold(k, g)
    <3> HIDE DEF Fold
    <3>1. k <= n
      OBVIOUS
    <3> QED BY <1>1, <1>3, <3>1
  <2>2. PICK h : h = [s \in SUBSET (1..(k + 1)) |->
                        IF k + 1 \in s THEN F[k + 1][g[s \ {k + 1}]] ELSE g[s]]
    OBVIOUS
  <2>3. ASSUME NEW s \in SUBSET (1..(k + 1)), k + 1 \in s
        PROVE  /\ s \ {k + 1} \in SUBSET (1..k) /\ h[s] = F[k + 1][g[s \ {k + 1}]]
               /\ Max(s) = k + 1 /\ h[s \ {k + 1}] = g[s \ {k + 1}]
    <3>1. Max(s) \in 1..(k + 1) /\ k + 1 <= Max(s)
      <4>1. k + 1 \in Nat /\ s # {}
        BY <2>3
      <4>2. Max(s) \in s /\ \A i \in s : i <= Max(s)
        BY <4>1, MaxIs
      <4> QED BY <2>3, <4>2
    <3>2. s \ {k + 1} \in SUBSET (1..k) /\ s \ {k + 1} \in SUBSET (1..(k + 1))
      OBVIOUS
    <3>3. h[s] = F[k + 1][g[s \ {k + 1}]]
      BY <2>2, <2>3
    <3>4. h[s \ {k + 1}] = g[s \ {k + 1}]
      <4>1. k + 1 \notin s \ {k + 1}
        OBVIOUS
      <4> QED BY <2>2, <3>2, <4>1
    <3>5. Max(s) = k + 1
      BY <3>1
    <3> QED BY <3>2, <3>3, <3>4, <3>5
  <2>4. ASSUME NEW s \in SUBSET (1..(k + 1)), k + 1 \notin s
        PROVE  /\ s \in SUBSET (1..k) /\ h[s] = g[s]
               /\ s # {} => h[s \ {Max(s)}] = g[s \ {Max(s)}]
    <3>1. s \in SUBSET (1..k)
      BY <2>4
    <3>2. ASSUME NEW m PROVE h[s \ {m}] = g[s \ {m}]
      <4>1. s \ {m} \in SUBSET (1..(k + 1)) /\ k + 1 \notin s \ {m}
        BY <2>4
      <4> QED BY <2>2, <4>1
    <3>3. h[s] = g[s]
      BY <2>2, <2>4
    <3> QED BY <3>1, <3>2, <3>3
  <2>5. h \in [SUBSET (1..(k + 1)) -> V]
    <3>1. ASSUME NEW s \in SUBSET (1..(k + 1)) PROVE h[s] \in V
      <4>1. CASE k + 1 \in s
        <5>1. g[s \ {k + 1}] \in V /\ k + 1 \in 1..n
          <6>1. s \ {k + 1} \in SUBSET (1..k)
            BY <2>3, <4>1
          <6> QED BY <2>1, <6>1
        <5>2. F[k + 1] \in [V -> V]
          BY <5>1
        <5>3. h[s] = F[k + 1][g[s \ {k + 1}]]
          BY <2>3, <4>1
        <5> QED BY <5>1, <5>2, <5>3
      <4>2. CASE k + 1 \notin s
        BY <2>1, <2>4, <4>2
      <4> QED BY <4>1, <4>2
    <3> QED BY <2>2, <3>1
  <2>6. Fold(k + 1, h)
    <3> SUFFICES ASSUME NEW s \in SUBSET (1..(k + 1))
                 PROVE  h[s] = IF s = {} THEN b ELSE F[Max(s)][h[s \ {Max(s)}]]
      OBVIOUS
    <3>1. CASE k + 1 \in s
      BY <2>3, <3>1
    <3>2. CASE k + 1 \notin s
      BY <2>1, <2>4, <3>2
    <3> QED BY <3>1, <3>2
  <2> QED BY <2>5, <2>6
<1>4. n \in S
  BY <1>2, <1>3, NatInd
<1>5. PICK g \in [SUBSET (1..n) -> V] : Fold(n, g)
  <2> HIDE DEF Fold
  <2>1. n <= n
    OBVIOUS
  <2> QED BY <1>1, <1>4, <2>1
<1>6. g[{}] = b
  BY <1>5
<1>7. ASSUME NEW s \in SUBSET (1..n), s # {}
      PROVE  /\ Max(s) \in 1..n /\ g[s \ {Max(s)}] \in V
             /\ g[s] = F[Max(s)][g[s \ {Max(s)}]]
  <2>1. Max(s) \in 1..n
    BY <1>7, MaxIs
  <2>2. s \ {Max(s)} \in SUBSET (1..n)
    OBVIOUS
  <2> QED BY <1>5, <1>7, <2>1, <2>2
<1> QED BY <1>5, <1>6, <1>7 DEF FoldsSets

\* So a fold over n places is the last value of a function that takes one
\* step of F at each place.
LEMMA FoldSteps ==
    ASSUME NEW n \in Nat, NEW V, NEW b \in V, NEW F \in Steps(n, V), NEW g, AgreesWith(g, n, V, b, F)
    PROVE  \E f : Folds(f, n, V, b, F) /\ f[n] = g[1..n]
<1> USE DEF Steps, AgreesWith
<1>1. PICK f : f = [k \in 0..n |-> g[1..k]]
  OBVIOUS
<1>2. f[0] = b /\ f[n] = g[1..n]
  <2>1. 1..0 = {}
    OBVIOUS
  <2> QED BY <1>1, <2>1
<1>3. ASSUME NEW k \in 1..n, f[k - 1] \in V PROVE f[k] = F[k][f[k - 1]] /\ f[k] \in V
  <2>1. f[k - 1] = g[1..(k - 1)] /\ f[k] = g[1..k]
    BY <1>1
  <2>2. 1..k \in SUBSET (1..n) /\ 1..k # {} /\ Max(1..k) = k /\ 1..k \ {Max(1..k)} = 1..(k - 1)
    BY MaxOfFirst
  <2>3. f[k] = F[k][f[k - 1]]
    BY <1>3, <2>1, <2>2
  <2> QED BY <1>3, <2>3
<1>4. 0..n \subseteq {k \in 0..n : f[k] \in V}
  <2>1. PICK S : S = {k \in 0..n : f[k] \in V}
    OBVIOUS
  <2>2. 0 \in S
    BY <1>2, <2>1
  <2>3. ASSUME NEW k \in 1..n, k - 1 \in S PROVE k \in S
    <3>1. f[k - 1] \in V /\ k \in 0..n
      BY <2>1, <2>3
    <3> QED BY <1>3, <2>1, <3>1
  <2> QED BY <2>1, <2>2, <2>3, IntervalInd
<1>5. f \in [0..n -> V] /\ \A k \in 1..n : f[k - 1] \in V
  BY <1>1, <1>4
<1> QED BY <1>2, <1>3, <1>5 DEF Folds

-----------------------------------------------------------------------------
\* Results of commands (WireSizes).

Rx == [bytes : 0..MaxReassembled, count : Nat]

Took(rx, size) ==
    IF rx.bytes + size > MaxReassembled
    THEN [bytes |-> 0, count |-> 0]
    ELSE [bytes |-> rx.bytes + size, count |-> rx.count + 1]

\* The state of the reassembler after each chunk.
LEMMA JoinedSteps ==
    ASSUME NEW n \in Nat, NEW sizes \in [1..n -> Nat]
    PROVE  \E f \in [0..n -> Rx] :
              /\ f[0] = [bytes |-> 0, count |-> 0] /\ f[n] = Joined(sizes)
              /\ \A k \in 1..n : f[k] = Took(f[k - 1], sizes[k])
<1>1. PICK b : b = [bytes |-> 0, count |-> 0]
  OBVIOUS
<1>2. PICK F : F = [k \in 1..n |-> [rx \in Rx |-> Took(rx, sizes[k])]]
  OBVIOUS
<1>3. b \in Rx /\ F \in Steps(n, Rx)
  <2>1. ASSUME NEW rx \in Rx, NEW size \in Nat PROVE Took(rx, size) \in Rx
    <3>1. rx.bytes \in Nat /\ rx.count \in Nat /\ rx.count + 1 \in Nat
      BY DEF Rx
    <3>2. CASE rx.bytes + size > MaxReassembled
      BY <3>2 DEF Rx, Took, MaxReassembled
    <3>3. CASE rx.bytes + size <= MaxReassembled
      <4>1. PICK m \in Nat : m = rx.bytes + size
        BY <3>1
      <4>2. m <= MaxReassembled
        BY <3>3, <4>1
      <4>3. m \in 0..MaxReassembled /\ ~(m > MaxReassembled)
        BY <4>2 DEF MaxReassembled
      <4> QED BY <3>1, <4>1, <4>3 DEF Rx, Took
    <3> QED BY <3>1, <3>2, <3>3 DEF MaxReassembled
  <2>2. b \in Rx
    BY <1>1 DEF Rx, MaxReassembled
  <2>3. F \in Steps(n, Rx)
    BY <1>2, <2>1 DEF Steps
  <2> QED BY <2>2, <2>3
<1>4. Joined(sizes) = (CHOOSE g : g = [s \in SUBSET (1..n) |->
                          IF s = {} THEN b ELSE Took(g[s \ {Max(s)}], sizes[Max(s)])])[1..n]
  <2>1. DOMAIN sizes = 1..n
    OBVIOUS
  <2> QED BY <1>1, <2>1 DEF Joined, FoldLeft, MapThenFoldSet, Took
<1>5. \E g : g = [s \in SUBSET (1..n) |-> IF s = {} THEN b ELSE Took(g[s \ {Max(s)}], sizes[Max(s)])]
  <2>1. PICK g : FoldsSets(g, n, Rx, b, F)
    BY <1>3, SetFold
  <2> QED BY <1>2, <2>1 DEF FoldsSets
<1>6. PICK g : /\ g = [s \in SUBSET (1..n) |->
                          IF s = {} THEN b ELSE Took(g[s \ {Max(s)}], sizes[Max(s)])]
               /\ g[1..n] = Joined(sizes)
  BY <1>4, <1>5
<1>7. AgreesWith(g, n, Rx, b, F)
  BY <1>2, <1>6 DEF AgreesWith
<1>8. PICK f : Folds(f, n, Rx, b, F) /\ f[n] = g[1..n]
  BY <1>3, <1>7, FoldSteps
<1>9. f \in [0..n -> Rx]
  BY <1>8 DEF Folds
<1>10. ASSUME NEW k \in 1..n PROVE f[k] = Took(f[k - 1], sizes[k])
  <2>1. f[k] = F[k][f[k - 1]] /\ f[k - 1] \in Rx
    BY <1>8, <1>9 DEF Folds
  <2> QED BY <1>2, <2>1
<1>11. f[0] = b /\ f[n] = Joined(sizes)
  BY <1>6, <1>8 DEF Folds
<1> QED BY <1>1, <1>9, <1>10, <1>11

\* So many chunks of 160 bytes hold n bytes, and no fewer do.
LEMMA CountIs ==
    ASSUME NEW n \in Nat, n # 0, NEW c, c = (n + ChunkSize - 1) \div ChunkSize
    PROVE  c \in Nat /\ c >= 1 /\ ChunkSize * (c - 1) < n /\ n <= ChunkSize * c
BY DEF ChunkSize

\* All chunks are full but the last, which has the rest.
LEMMA ChunksAre ==
    ASSUME NEW n \in Nat, NEW c, c = IF n = 0 THEN 1 ELSE (n + ChunkSize - 1) \div ChunkSize
    PROVE  /\ c \in Nat /\ c >= 1 /\ ChunkSize * (c - 1) <= n /\ n <= ChunkSize * c
           /\ ChunkSizes(n) = IF c > MostChunks THEN <<>>
                              ELSE [i \in 1..c |-> IF i < c THEN ChunkSize ELSE n - ChunkSize * (c - 1)]
<1>1. c \in Nat /\ c >= 1 /\ ChunkSize * (c - 1) <= n /\ n <= ChunkSize * c
  <2>1. CASE n = 0
    BY <2>1 DEF ChunkSize
  <2>2. CASE n # 0
    <3>1. c \in Nat /\ c >= 1 /\ ChunkSize * (c - 1) < n /\ n <= ChunkSize * c
      BY <2>2, CountIs
    <3> QED BY <3>1 DEF ChunkSize
  <2> QED BY <2>1, <2>2
<1>2. ChunkSizes(n) = IF c > MostChunks THEN <<>>
                      ELSE [i \in 1..c |-> IF i < c THEN ChunkSize ELSE n - ChunkSize * (c - 1)]
  BY DEF ChunkSizes
<1> QED BY <1>1, <1>2

\* A message is put together from its chunks exactly if it is no longer than the
\* reassembler allows: up to there the chunks are few enough, and a longer one is
\* never held, for what is held never exceeds the limit.
LEMMA CompletesIs ==
    ASSUME NEW n \in Nat
    PROVE  Completes(n) <=> n <= MaxReassembled
<1>1. PICK c : c = IF n = 0 THEN 1 ELSE (n + ChunkSize - 1) \div ChunkSize
  OBVIOUS
<1>2. PICK sizes : sizes = [i \in 1..c |-> IF i < c THEN ChunkSize ELSE n - ChunkSize * (c - 1)]
  OBVIOUS
<1>3. c \in Nat /\ c >= 1 /\ ChunkSize * (c - 1) <= n /\ n <= ChunkSize * c
  BY <1>1, ChunksAre
<1>4. ChunkSizes(n) = IF c > MostChunks THEN <<>> ELSE sizes
  BY <1>1, <1>2, ChunksAre
<1>5. sizes \in [1..c -> Nat] /\ sizes # <<>> /\ Len(sizes) = c
  <2>1. n - ChunkSize * (c - 1) \in Nat
    BY <1>3 DEF ChunkSize
  <2>2. sizes \in [1..c -> Nat]
    BY <1>2, <2>1 DEF ChunkSize
  <2> QED BY <1>3, <2>2
<1>6. PICK f \in [0..c -> Rx] :
         /\ f[0] = [bytes |-> 0, count |-> 0] /\ f[c] = Joined(sizes)
         /\ \A k \in 1..c : f[k] = Took(f[k - 1], sizes[k])
  BY <1>3, <1>5, JoinedSteps
<1>7. ASSUME n <= MaxReassembled PROVE Completes(n)
  <2>1. PICK S : S = {k \in 0..c : f[k].count = k /\ f[k].bytes = IF k < c THEN ChunkSize * k ELSE n}
    OBVIOUS
  <2>2. 0 \in S
    BY <1>3, <1>6, <2>1 DEF ChunkSize
  <2>3. ASSUME NEW k \in 1..c, k - 1 \in S PROVE k \in S
    <3>1. f[k - 1].count = k - 1 /\ f[k - 1].bytes = ChunkSize * (k - 1)
      <4>1. PICK j : j = k - 1
        OBVIOUS
      <4>2. j \in S /\ j < c
        BY <1>3, <2>3, <4>1
      <4> QED BY <2>1, <4>1, <4>2
    <3>2. ChunkSize * (k - 1) + sizes[k] = IF k < c THEN ChunkSize * k ELSE n
      BY <1>2, <1>3 DEF ChunkSize
    <3>3. ~(ChunkSize * (k - 1) + sizes[k] > MaxReassembled)
      BY <1>3, <1>7, <3>2 DEF ChunkSize, MaxReassembled
    <3>4. f[k] = [bytes |-> f[k - 1].bytes + sizes[k], count |-> f[k - 1].count + 1]
      BY <1>6, <3>1, <3>3 DEF Took
    <3> QED BY <2>1, <3>1, <3>2, <3>4
  <2>4. 0..c \subseteq S
    BY <1>3, <2>2, <2>3, IntervalInd
  <2>5. f[c].count = c /\ f[c].bytes = n
    BY <1>3, <2>1, <2>4
  <2>6. f[c] = [bytes |-> n, count |-> c]
    BY <1>3, <1>6, <2>5 DEF Rx
  <2>7. ~(c > MostChunks)
    BY <1>3, <1>7 DEF ChunkSize, MaxReassembled, MostChunks
  <2> QED BY <1>4, <1>5, <1>6, <2>6, <2>7 DEF Completes
<1>8. ASSUME Completes(n) PROVE n <= MaxReassembled
  <2>1. ChunkSizes(n) = sizes
    BY <1>4, <1>8 DEF Completes
  <2>2. f[c] = [bytes |-> n, count |-> Len(sizes)]
    BY <1>6, <1>8, <2>1 DEF Completes
  <2>3. f[c].bytes \in 0..MaxReassembled
    BY <1>3, <1>6 DEF Rx
  <2> QED BY <2>2, <2>3 DEF MaxReassembled
<1> QED BY <1>7, <1>8

\* What the executor keeps of a text, with what it puts after it.
LEMMA CapturedIs ==
    ASSUME NEW n \in Nat, NEW width \in 1..4, NEW lead \in 0..3, NEW note \in Notes
    PROVE  Captured(Text(lead, n, width), note) \in 0..(CaptureLimit + Replacement + ErrorLimit)
<1>1. PICK kept : kept = Drained(lead + n * width)
  OBVIOUS
<1>2. PICK cut : cut = (kept - AtMost(kept, lead)) % width
  OBVIOUS
<1>3. lead + n * width \in Nat
  <2>1. width = 1 \/ width = 2 \/ width = 3 \/ width = 4
    OBVIOUS
  <2> QED BY <2>1
<1>4. kept \in 0..CaptureLimit
  BY <1>1, <1>3 DEF Drained, AtMost, CaptureLimit
<1>5. kept - AtMost(kept, lead) \in Nat /\ kept - AtMost(kept, lead) <= kept
  BY <1>4 DEF AtMost, CaptureLimit
<1>6. cut \in Nat /\ cut <= kept
  <2>1. PICK r \in Nat : r = kept - AtMost(kept, lead)
    BY <1>5
  <2>2. r % width \in Nat /\ r % width <= r
    <3>1. width = 1 \/ width = 2 \/ width = 3 \/ width = 4
      OBVIOUS
    <3> QED BY <3>1
  <2> QED BY <1>2, <1>4, <1>5, <2>1, <2>2 DEF CaptureLimit
<1>7. Captured(Text(lead, n, width), note) =
         kept - cut + (IF cut = 0 THEN 0 ELSE Replacement) + note
  BY <1>1, <1>2 DEF Captured, Text, Bytes
<1>8. note \in 0..ErrorLimit
  BY DEF Notes, ErrorLimit
<1>9. PICK k \in Nat, c \in Nat, m \in Nat : k = kept /\ c = cut /\ m = note
  BY <1>4, <1>6, <1>8 DEF ErrorLimit, CaptureLimit
<1>10. k <= CaptureLimit /\ c <= k /\ m <= ErrorLimit
  BY <1>4, <1>6, <1>8, <1>9
<1>11. PICK r \in Nat : r = (IF cut = 0 THEN 0 ELSE Replacement) /\ r <= Replacement
  BY DEF Replacement
<1>12. PICK a \in Nat, b \in Nat, d \in Nat : a = CaptureLimit /\ b = Replacement /\ d = ErrorLimit
  BY DEF CaptureLimit, Replacement, ErrorLimit
<1>13. k - c + r + m \in 0..(a + b + d)
  BY <1>10, <1>11, <1>12
<1> QED BY <1>7, <1>9, <1>11, <1>12, <1>13

\* A text within the limit is sealed with its header and nothing lost.
LEMMA SealedIs ==
    ASSUME NEW n \in Nat
    PROVE  Sealed(n) \in Nat /\ (n <= TextLimit => Sealed(n) = n + ResultHeader + Seal)
BY DEF Sealed, AtMost, TextLimit, ResultHeader, Seal

\* The formula itself: what is captured is at most 3503 bytes, which fit.
LEMMA TextsAllArrive == TextsArrive
<1>1. ASSUME NEW n \in Lengths, NEW width \in 1..4, NEW lead \in 0..3, NEW note \in Notes
      PROVE  Completes(Sealed(Captured(Text(lead, n, width), note)))
  <2>1. n \in Nat
    BY LengthsAssumption
  <2>2. PICK m : m = Captured(Text(lead, n, width), note)
    OBVIOUS
  <2>3. m \in 0..(CaptureLimit + Replacement + ErrorLimit)
    BY <2>1, <2>2, CapturedIs
  <2>4. m \in Nat /\ m + ResultHeader + Seal <= MaxReassembled /\ m <= TextLimit
    BY <2>3 DEF CaptureLimit, Replacement, ErrorLimit, ResultHeader, Seal, MaxReassembled, TextLimit
  <2>5. Sealed(m) \in Nat /\ Sealed(m) <= MaxReassembled
    BY <2>4, SealedIs
  <2> QED BY <2>2, <2>5, CompletesIs
<1>2. ASSUME NEW n \in Lengths, NEW note \in Notes
      PROVE  Completes(Sealed(CapturedBinary(n, note))) <=> Sealed(CapturedBinary(n, note)) <= MaxReassembled
  <2>1. n \in Nat
    BY LengthsAssumption
  <2>2. CapturedBinary(n, note) \in Nat
    BY <2>1 DEF CapturedBinary, Drained, AtMost, CaptureLimit, Replacement, Notes, ErrorLimit
  <2>3. Sealed(CapturedBinary(n, note)) \in Nat
    BY <2>2, SealedIs
  <2> QED BY <2>3, CompletesIs
<1>3. ASSUME NEW n \in Lengths, NEW width \in 1..4
      PROVE  Delivers(CutAnswer(n, width)) <=> width = 1 \/ n * width <= ResponseBytes
  <2>1. n \in Nat
    BY LengthsAssumption
  <2>2. width = 1 \/ width = 2 \/ width = 3 \/ width = 4
    OBVIOUS
  <2> QED BY <2>1, <2>2 DEF Delivers, CutAnswer, AtMost, AnswerLimit, ResponseBytes
<1> QED BY <1>1, <1>2, <1>3 DEF TextsArrive

\* Whatever text a command prints, of any length, its result is put together on the
\* handheld; of other output, and of AI answers, exactly those arrive that fit
\* (execute() of commands.py against ingest() of RemoteProtocol.cpp, ai_poll() of
\* app.py against append() of PocketLink.h).
THEOREM TextsReachTheScreen == TextsArrive /\ (DSpec => []TextsArriveAtStart)
<1>1. TextsArrive
  BY TextsAllArrive
<1>2. TextsArriveAtStart
  BY <1>1 DEF TextsArriveAtStart
<1> QED BY <1>1, <1>2, PTL

-----------------------------------------------------------------------------
\* Frames of a desktop (DesktopFrames).

SentTiles == [x : Nat, y : Nat, w : 1..TileSize, h : 1..TileSize]

\* The bytes of a tile lie between its header and a whole tile.
LEMMA TileBytesAre ==
    ASSUME NEW t \in SentTiles
    PROVE  TileBytes(t) \in Nat /\ TileBytes(t) >= TileHeaderBytes /\ TileBytes(t) <= 2056
<1>1. PICK w \in 1..32, h \in 1..32 : w = t.w /\ h = t.h
  BY DEF SentTiles, TileSize
<1>2. PICK m \in Nat : m = w * h /\ m <= 1024
  BY <1>1
<1>3. 2 * w * h = 2 * m
  BY <1>2
<1>4. TileBytes(t) = 8 + 2 * m
  BY <1>1, <1>3 DEF TileBytes, TileHeaderBytes
<1> QED BY <1>2, <1>4 DEF TileHeaderBytes

\* Where each tile of a response ends.
LEMMA PackedSteps ==
    ASSUME NEW n \in Nat, NEW tiles \in [1..n -> SentTiles]
    PROVE  \E f \in [0..n -> Nat] :
              /\ f[0] = HeaderBytes /\ f[n] = Packed(tiles).bytes
              /\ \A k \in 1..n : f[k] = f[k - 1] + TileBytes(tiles[k])
<1>1. PICK V : V = Nat
  OBVIOUS
<1>2. PICK b : b = HeaderBytes
  OBVIOUS
<1>3. PICK F : F = [k \in 1..n |-> [at \in V |-> at + TileBytes(tiles[k])]]
  OBVIOUS
<1>4. b \in V /\ F \in Steps(n, V)
  <2>1. ASSUME NEW at \in Nat, NEW t \in SentTiles PROVE at + TileBytes(t) \in Nat
    BY TileBytesAre
  <2> QED BY <1>1, <1>2, <1>3, <2>1 DEF HeaderBytes, Steps
<1>5. Packed(tiles).bytes = (CHOOSE g : g = [s \in SUBSET (1..n) |->
                          IF s = {} THEN b ELSE g[s \ {Max(s)}] + TileBytes(tiles[Max(s)])])[1..n]
  <2>1. DOMAIN tiles = 1..n
    OBVIOUS
  <2> QED BY <1>2, <2>1 DEF Packed, FoldLeft, MapThenFoldSet
<1>6. \E g : g = [s \in SUBSET (1..n) |-> IF s = {} THEN b ELSE g[s \ {Max(s)}] + TileBytes(tiles[Max(s)])]
  <2>1. PICK g : FoldsSets(g, n, V, b, F)
    BY <1>4, SetFold
  <2> QED BY <1>3, <2>1 DEF FoldsSets
<1>7. PICK g : /\ g = [s \in SUBSET (1..n) |->
                          IF s = {} THEN b ELSE g[s \ {Max(s)}] + TileBytes(tiles[Max(s)])]
               /\ g[1..n] = Packed(tiles).bytes
  BY <1>5, <1>6
<1>8. AgreesWith(g, n, V, b, F)
  BY <1>3, <1>7 DEF AgreesWith
<1>9. PICK f : Folds(f, n, V, b, F) /\ f[n] = g[1..n]
  BY <1>4, <1>8, FoldSteps
<1>10. f \in [0..n -> V]
  BY <1>9 DEF Folds
<1>11. ASSUME NEW k \in 1..n PROVE f[k] = f[k - 1] + TileBytes(tiles[k])
  <2>1. f[k] = F[k][f[k - 1]] /\ f[k - 1] \in V
    BY <1>9, <1>10 DEF Folds
  <2> QED BY <1>3, <2>1
<1>12. f[0] = b /\ f[n] = Packed(tiles).bytes
  BY <1>7, <1>9 DEF Folds
<1> QED BY <1>1, <1>2, <1>10, <1>11, <1>12

\* applyDesktopFrame(): how far it is after each tile, 0 once one does not fit.
Checked(at, t, bytes) == IF at # 0 /\ TileFits(t, at, bytes) THEN at + TileBytes(t) ELSE 0

\* The checks of a frame, tile by tile.
LEMMA AppliesSteps ==
    ASSUME NEW n \in Nat, NEW tiles \in [1..n -> SentTiles], NEW frame, frame.tiles = tiles
    PROVE  \E f \in [0..n -> Nat] :
              /\ f[0] = HeaderBytes
              /\ Applies(frame) <=> /\ frame.bytes \in HeaderBytes..ResponseLimit
                                    /\ n <= MostTiles
                                    /\ f[n] = frame.bytes
              /\ \A k \in 1..n : f[k] = Checked(f[k - 1], tiles[k], frame.bytes)
<1>1. PICK V : V = Nat
  OBVIOUS
<1>2. PICK b : b = HeaderBytes
  OBVIOUS
<1>3. PICK F : F = [k \in 1..n |-> [at \in V |-> Checked(at, tiles[k], frame.bytes)]]
  OBVIOUS
<1>4. b \in V /\ F \in Steps(n, V)
  <2>1. ASSUME NEW at \in Nat, NEW t \in SentTiles PROVE Checked(at, t, frame.bytes) \in Nat
    BY TileBytesAre DEF Checked
  <2> QED BY <1>1, <1>2, <1>3, <2>1 DEF HeaderBytes, Steps
<1>5. PICK last : last = (CHOOSE g : g = [s \in SUBSET (1..n) |->
                          IF s = {} THEN b ELSE Checked(g[s \ {Max(s)}], tiles[Max(s)], frame.bytes)])[1..n]
  OBVIOUS
<1>6. Applies(frame) <=> /\ frame.bytes \in HeaderBytes..ResponseLimit
                          /\ n <= MostTiles
                          /\ last = frame.bytes
  <2>1. DOMAIN tiles = 1..n /\ Len(tiles) = n
    OBVIOUS
  <2> QED BY <1>2, <1>5, <2>1 DEF Applies, FoldLeft, MapThenFoldSet, Checked
<1>7. \E g : g = [s \in SUBSET (1..n) |-> IF s = {} THEN b ELSE Checked(g[s \ {Max(s)}], tiles[Max(s)], frame.bytes)]
  <2>1. PICK g : FoldsSets(g, n, V, b, F)
    BY <1>4, SetFold
  <2> QED BY <1>3, <2>1 DEF FoldsSets
<1>8. PICK g : /\ g = [s \in SUBSET (1..n) |->
                          IF s = {} THEN b ELSE Checked(g[s \ {Max(s)}], tiles[Max(s)], frame.bytes)]
               /\ g[1..n] = last
  BY <1>5, <1>7
<1>9. AgreesWith(g, n, V, b, F)
  BY <1>3, <1>8 DEF AgreesWith
<1>10. PICK f : Folds(f, n, V, b, F) /\ f[n] = g[1..n]
  BY <1>4, <1>9, FoldSteps
<1>11. f \in [0..n -> V]
  BY <1>10 DEF Folds
<1>12. ASSUME NEW k \in 1..n PROVE f[k] = Checked(f[k - 1], tiles[k], frame.bytes)
  <2>1. f[k] = F[k][f[k - 1]] /\ f[k - 1] \in V
    BY <1>10, <1>11 DEF Folds
  <2> QED BY <1>3, <2>1
<1>13. f[0] = b /\ f[n] = last
  BY <1>8, <1>10 DEF Folds
<1> QED BY <1>1, <1>2, <1>11, <1>12, <1>13, <1>6

\* A line of at most m tiles that covers first up to last: c tiles, from at.
Spans(first, last, m, at, c) ==
    /\ at \in Nat /\ c \in Nat /\ c >= 1 /\ at + c <= m
    /\ 32 * at <= first /\ last <= 32 * (at + c)
    /\ Grid(first, last) = [i \in 1..c |-> 32 * (at + (i - 1))]

\* The lines of the grid from the one at or before first up to last.
LEMMA GridIs ==
    ASSUME NEW first \in Nat, NEW last \in Nat, NEW m \in Nat, first < last, last <= 32 * m
    PROVE  \E at, c : Spans(first, last, m, at, c)
<1>1. PICK at \in Nat : at = first \div 32
  OBVIOUS
<1>2. 32 * at <= first /\ first < 32 * (at + 1)
  BY <1>1
<1>3. PICK d \in Nat : d = last - 32 * at /\ d >= 1
  BY <1>2
<1>4. PICK c \in Nat : c = (d + 31) \div 32
  OBVIOUS
<1>5. c >= 1 /\ d <= 32 * c /\ 32 * (c - 1) < d
  BY <1>3, <1>4
<1>6. at + c <= m /\ last <= 32 * (at + c)
  BY <1>2, <1>3, <1>5
<1>7. Grid(first, last) = [i \in 1..c |-> 32 * (at + (i - 1))]
  <2>1. Grid(first, last) = [i \in 1..((last - at * 32 + 32 - 1) \div 32) |-> at * 32 + 32 * (i - 1)]
    BY <1>1 DEF Grid, TileSize
  <2>2. (last - at * 32 + 32 - 1) \div 32 = c
    <3>1. last - at * 32 + 32 - 1 = d + 31
      BY <1>3
    <3> QED BY <1>4, <3>1
  <2>3. \A i \in 1..c : at * 32 + 32 * (i - 1) = 32 * (at + (i - 1))
    OBVIOUS
  <2> QED BY <2>1, <2>2, <2>3
<1>8. Spans(first, last, m, at, c)
  BY <1>2, <1>5, <1>6, <1>7 DEF Spans
<1> QED BY <1>8

\* A place in a list that is laid out in rows.
LEMMA PlaceIs ==
    ASSUME NEW cols \in 1..10, NEW rows \in 1..6, NEW n \in 1..(cols * rows)
    PROVE  /\ (n - 1) % cols \in 0..(cols - 1) /\ (n - 1) \div cols \in 0..(rows - 1)
           /\ n = ((n - 1) \div cols) * cols + ((n - 1) % cols) + 1
<1>1. cols * rows \in Nat
  OBVIOUS
<1>2. PICK m \in Nat : m = n - 1 /\ m < cols * rows
  BY <1>1
<1>3. PICK q \in Nat, r \in 0..(cols - 1) : q = m \div cols /\ r = m % cols /\ m = q * cols + r
  OBVIOUS
<1>4. q < rows
  <2>1. CASE q >= rows
    <3>1. q * cols >= cols * rows
      BY <2>1
    <3>2. q * cols \in Nat
      OBVIOUS
    <3> QED BY <1>1, <1>2, <1>3, <3>1, <3>2
  <2> QED BY <2>1
<1> QED BY <1>2, <1>3, <1>4

\* Column i of row j has a place in the order the tiles are sent in.
LEMMA PlaceOf ==
    ASSUME NEW cols \in 1..10, NEW rows \in 1..6, NEW i \in 0..(cols - 1), NEW j \in 0..(rows - 1)
    PROVE  \E n \in 1..(cols * rows) : (n - 1) % cols = i /\ (n - 1) \div cols = j
<1>1. PICK m \in Nat : m = j * cols + i
  OBVIOUS
<1>2. m % cols = i /\ m \div cols = j
  BY <1>1
<1>3. m < cols * rows
  <2>1. (j + 1) * cols <= cols * rows
    OBVIOUS
  <2>2. (j + 1) * cols = j * cols + cols
    OBVIOUS
  <2>3. j * cols \in Nat /\ cols * rows \in Nat
    OBVIOUS
  <2> QED BY <1>1, <2>1, <2>2, <2>3
<1>4. m + 1 \in 1..(cols * rows) /\ (m + 1) - 1 = m
  BY <1>3
<1> QED BY <1>2, <1>4

\* The tile in column i and row j of the grid; the last row is half as high.
TileAt(i, j) == [x |-> 32 * i, y |-> 32 * j, w |-> 32, h |-> IF j = 5 THEN 16 ELSE 32]

Laid(box, n, cols, rows, i, j) ==
    /\ cols \in 1..10 /\ rows \in 1..6 /\ i \in 0..9 /\ j \in 0..5 /\ n = cols * rows
    /\ i + cols <= 10 /\ j + rows <= 6
    /\ box.x0 \in Nat /\ box.x1 \in Nat /\ box.y0 \in Nat /\ box.y1 \in Nat
    /\ 32 * i <= box.x0 /\ box.x1 <= 32 * (i + cols) /\ 32 * j <= box.y0 /\ box.y1 <= 32 * (j + rows)
    /\ ChangedTiles(box) = [k \in 1..n |-> TileAt(i + ((k - 1) % cols), j + ((k - 1) \div cols))]

\* The tiles of a box are whole rows and columns of the grid.
LEMMA TilesAre ==
    ASSUME NEW box \in Boxes
    PROVE  \E n, cols, rows, i, j : Laid(box, n, cols, rows, i, j)
<1>1. /\ box.x0 \in Nat /\ box.x1 \in Nat /\ box.x0 < box.x1 /\ box.x1 <= 32 * 10
      /\ box.y0 \in Nat /\ box.y1 \in Nat /\ box.y0 < box.y1 /\ box.y1 <= 32 * 6
  <2>1. (\A c \in Columns : c \in Nat /\ c <= 32 * 10) /\ (\A c \in Rows : c \in Nat /\ c <= 32 * 6)
    BY FrameAssumption DEF ViewWidth, ViewHeight
  <2>2. box.x0 \in Columns /\ box.x1 \in Columns /\ box.y0 \in Rows /\ box.y1 \in Rows
    BY DEF Boxes
  <2>3. box.x0 < box.x1 /\ box.y0 < box.y1
    BY DEF Boxes
  <2> QED BY <2>1, <2>2, <2>3
<1>2. PICK i, cols : Spans(box.x0, box.x1, 10, i, cols)
  BY <1>1, GridIs
<1>3. PICK j, rows : Spans(box.y0, box.y1, 6, j, rows)
  BY <1>1, GridIs
<1>4. /\ Grid(box.x0, box.x1) = [k \in 1..cols |-> 32 * (i + (k - 1))]
      /\ 32 * i <= box.x0 /\ box.x1 <= 32 * (i + cols)
  BY <1>2 DEF Spans
<1>5. /\ Grid(box.y0, box.y1) = [k \in 1..rows |-> 32 * (j + (k - 1))]
      /\ 32 * j <= box.y0 /\ box.y1 <= 32 * (j + rows)
  BY <1>3 DEF Spans
<1>6. i \in 0..9 /\ cols \in 1..10 /\ i + cols <= 10
  BY <1>2 DEF Spans
<1>7. j \in 0..5 /\ rows \in 1..6 /\ j + rows <= 6
  BY <1>3 DEF Spans
<1>8. ASSUME NEW n \in 1..(cols * rows)
      PROVE  LET x == 32 * (i + ((n - 1) % cols))
                 y == 32 * (j + ((n - 1) \div cols))
             IN  [x |-> x, y |-> y, w |-> Smaller(TileSize, ViewWidth - x), h |-> Smaller(TileSize, ViewHeight - y)]
                   = TileAt(i + ((n - 1) % cols), j + ((n - 1) \div cols))
  <2>1. PICK p, q : p = i + ((n - 1) % cols) /\ q = j + ((n - 1) \div cols)
    OBVIOUS
  <2>2. p \in 0..9 /\ q \in 0..5
    <3>1. (n - 1) % cols \in 0..(cols - 1) /\ (n - 1) \div cols \in 0..(rows - 1)
      BY <1>6, <1>7, PlaceIs
    <3> QED BY <1>6, <1>7, <2>1, <3>1
  <2>3. Smaller(32, 320 - 32 * p) = 32
    BY <2>2 DEF Smaller
  <2>4. Smaller(32, 176 - 32 * q) = IF q = 5 THEN 16 ELSE 32
    BY <2>2 DEF Smaller
  <2> QED BY <2>1, <2>3, <2>4 DEF TileAt, TileSize, ViewWidth, ViewHeight
<1>9. ChangedTiles(box) = [n \in 1..(cols * rows) |-> TileAt(i + ((n - 1) % cols), j + ((n - 1) \div cols))]
  <2>1. PICK xs, ys : xs = Grid(box.x0, box.x1) /\ ys = Grid(box.y0, box.y1)
    OBVIOUS
  <2>2. Len(xs) = cols /\ Len(ys) = rows
    <3>1. cols \in Nat /\ xs = [k \in 1..cols |-> 32 * (i + (k - 1))]
      BY <1>4, <1>6, <2>1
    <3>2. rows \in Nat /\ ys = [k \in 1..rows |-> 32 * (j + (k - 1))]
      BY <1>5, <1>7, <2>1
    <3>3. Len(xs) = cols
      BY <3>1
    <3>4. Len(ys) = rows
      BY <3>2
    <3> QED BY <3>3, <3>4
  <2>3. ASSUME NEW n \in 1..(cols * rows)
        PROVE  /\ xs[((n - 1) % cols) + 1] = 32 * (i + ((n - 1) % cols))
               /\ ys[((n - 1) \div cols) + 1] = 32 * (j + ((n - 1) \div cols))
    <3>1. (n - 1) % cols \in 0..(cols - 1) /\ (n - 1) \div cols \in 0..(rows - 1)
      BY <1>6, <1>7, PlaceIs
    <3>2. PICK p \in 1..cols : p = ((n - 1) % cols) + 1 /\ p - 1 = (n - 1) % cols
      BY <1>6, <3>1
    <3>3. PICK q \in 1..rows : q = ((n - 1) \div cols) + 1 /\ q - 1 = (n - 1) \div cols
      BY <1>7, <3>1
    <3> QED BY <1>4, <1>5, <2>1, <3>2, <3>3
  <2>4. ChangedTiles(box) =
          [n \in 1..(cols * rows) |->
             LET x == xs[((n - 1) % cols) + 1]
                 y == ys[((n - 1) \div cols) + 1]
             IN  [x |-> x, y |-> y, w |-> Smaller(TileSize, ViewWidth - x), h |-> Smaller(TileSize, ViewHeight - y)]]
    BY <2>1, <2>2 DEF ChangedTiles
  <2> QED BY <1>8, <2>3, <2>4
<1>10. Laid(box, cols * rows, cols, rows, i, j)
  BY <1>1, <1>4, <1>5, <1>6, <1>7, <1>9 DEF Laid
<1> QED BY <1>10

\* What the row and the column of every tile come to.
IsTile(t, k, cols, rows, i, j) ==
    \E p \in i..(i + cols - 1), q \in j..(j + rows - 1) :
        t = TileAt(p, q) /\ p \in 0..9 /\ q \in 0..5 /\ p = i + ((k - 1) % cols) /\ q = j + ((k - 1) \div cols)

\* The k-th tile is the one of its column and its row.
LEMMA LaidTiles ==
    ASSUME NEW box, NEW n, NEW cols, NEW rows, NEW i, NEW j, Laid(box, n, cols, rows, i, j), NEW k \in 1..n
    PROVE  IsTile(ChangedTiles(box)[k], k, cols, rows, i, j)
<1>1. /\ cols \in 1..10 /\ rows \in 1..6 /\ i \in 0..9 /\ j \in 0..5
      /\ i + cols <= 10 /\ j + rows <= 6 /\ k \in 1..(cols * rows)
  BY DEF Laid
<1>2. (k - 1) % cols \in 0..(cols - 1) /\ (k - 1) \div cols \in 0..(rows - 1)
  BY <1>1, PlaceIs
<1>3. PICK u \in 0..(cols - 1), v \in 0..(rows - 1) : u = (k - 1) % cols /\ v = (k - 1) \div cols
  BY <1>2
<1>4. i + u \in i..(i + cols - 1) /\ j + v \in j..(j + rows - 1) /\ i + u \in 0..9 /\ j + v \in 0..5
  BY <1>1
<1>5. ChangedTiles(box)[k] = TileAt(i + u, j + v)
  BY <1>3 DEF Laid
<1> QED BY <1>3, <1>4, <1>5 DEF IsTile

\* A tile of the grid: its size, and that it is within the view.
LEMMA TileAtIs ==
    ASSUME NEW p \in 0..9, NEW q \in 0..5
    PROVE  /\ TileAt(p, q) \in SentTiles
           /\ TileBytes(TileAt(p, q)) = IF q = 5 THEN 1032 ELSE 2056
           /\ TileAt(p, q).w \in 1..TileSize /\ TileAt(p, q).x + TileAt(p, q).w <= ViewWidth
           /\ TileAt(p, q).h \in 1..TileSize /\ TileAt(p, q).y + TileAt(p, q).h <= ViewHeight
<1>1. PICK h : h = IF q = 5 THEN 16 ELSE 32
  OBVIOUS
<1>2. TileAt(p, q) = [x |-> 32 * p, y |-> 32 * q, w |-> 32, h |-> h] /\ (q = 5 => h = 16) /\ (q # 5 => h = 32)
  BY <1>1 DEF TileAt
<1>3. TileAt(p, q) \in SentTiles
  BY <1>2 DEF SentTiles, TileSize
<1>4. TileBytes(TileAt(p, q)) = IF q = 5 THEN 1032 ELSE 2056
  BY <1>2 DEF TileBytes, TileHeaderBytes
<1>5. /\ TileAt(p, q).w \in 1..TileSize /\ TileAt(p, q).x + TileAt(p, q).w <= ViewWidth
      /\ TileAt(p, q).h \in 1..TileSize /\ TileAt(p, q).y + TileAt(p, q).h <= ViewHeight
  BY <1>2 DEF TileSize, ViewWidth, ViewHeight
<1> QED BY <1>3, <1>4, <1>5

\* A pixel is in one tile of the grid only, that of its column and its row.
LEMMA TileAtCovers ==
    ASSUME NEW p \in 0..9, NEW q \in 0..5, NEW x \in Nat, NEW y \in Nat, x < 320, y < 176
    PROVE  Within(x, y, TileAt(p, q)) <=> p = x \div 32 /\ q = y \div 32
<1>1. PICK h : h = IF q = 5 THEN 16 ELSE 32
  OBVIOUS
<1>2. TileAt(p, q) = [x |-> 32 * p, y |-> 32 * q, w |-> 32, h |-> h] /\ (q = 5 => h = 16) /\ (q # 5 => h = 32)
  BY <1>1 DEF TileAt
<1>3. Within(x, y, TileAt(p, q)) <=> x \in (32 * p)..(32 * p + 32 - 1) /\ y \in (32 * q)..(32 * q + h - 1)
  BY <1>2 DEF Within
<1>4. x \in (32 * p)..(32 * p + 32 - 1) <=> p = x \div 32
  OBVIOUS
<1>5. y \in (32 * q)..(32 * q + h - 1) <=> q = y \div 32
  BY <1>2
<1> QED BY <1>3, <1>4, <1>5

\* The size of each tile: of a full picture the last row is half as high.
LEMMA TileSizes ==
    ASSUME NEW box, NEW n, NEW cols, NEW rows, NEW i, NEW j, Laid(box, n, cols, rows, i, j), NEW k \in 1..n
    PROVE  /\ TileBytes(ChangedTiles(box)[k]) \in {1032, 2056}
           /\ n > 56 /\ k > 50 => TileBytes(ChangedTiles(box)[k]) = 1032
<1>1. IsTile(ChangedTiles(box)[k], k, cols, rows, i, j)
  BY LaidTiles
<1>2. cols \in 1..10 /\ rows \in 1..6 /\ i \in 0..9 /\ j \in 0..5 /\ j + rows <= 6 /\ n = cols * rows
  BY DEF Laid
<1>3. PICK p \in i..(i + cols - 1), q \in j..(j + rows - 1) :
         /\ ChangedTiles(box)[k] = TileAt(p, q) /\ p \in 0..9 /\ q \in 0..5
         /\ q = j + ((k - 1) \div cols)
  BY <1>1 DEF IsTile
<1>4. TileBytes(ChangedTiles(box)[k]) = IF q = 5 THEN 1032 ELSE 2056
  BY <1>3, TileAtIs
<1>5. ASSUME n > 56, k > 50 PROVE q = 5
  <2>1. cols = 10 /\ rows = 6
    <3>1. ASSUME cols \in 1..9 PROVE FALSE
      <4>1. cols * rows <= 9 * 6
        BY <1>2, <3>1
      <4> QED BY <1>2, <1>5, <4>1
    <3>2. cols = 10
      BY <1>2, <3>1
    <3> QED BY <1>2, <1>5, <3>2
  <2>2. k \in Nat /\ k <= 60
    BY <1>2, <2>1
  <2>3. (k - 1) \div 10 = 5
    BY <1>5, <2>2
  <2>4. q = j + 5
    BY <1>3, <2>1, <2>3
  <2> QED BY <1>2, <1>3, <2>4
<1> QED BY <1>4, <1>5

\* Where each tile ends, if they have such sizes.
Sums(f, n) ==
    /\ f \in [0..n -> Nat] /\ f[0] = HeaderBytes
    /\ \A k \in 1..n : /\ f[k] = f[k - 1] + 1032 \/ f[k] = f[k - 1] + 2056
                       /\ n > 56 /\ k > 50 => f[k] = f[k - 1] + 1032

\* Never beyond what a response may have.
LEMMA SumsAre ==
    ASSUME NEW n \in Nat, n <= 60, NEW f, Sums(f, n), NEW k \in 0..n
    PROVE  f[k] <= f[n] /\ f[k] >= HeaderBytes + 1032 * k /\ f[k] <= ResponseLimit
<1>1. \A l \in 0..n : f[l] \in Nat
  BY DEF Sums
<1>2. \A l \in 1..n : /\ f[l] >= f[l - 1] + 1032 /\ f[l] <= f[l - 1] + 2056
                      /\ n > 56 /\ l > 50 => f[l] <= f[l - 1] + 1032
  <2> TAKE l \in 1..n
  <2>1. l - 1 \in 0..n
    OBVIOUS
  <2>2. PICK a \in Nat, b \in Nat : a = f[l - 1] /\ b = f[l]
    BY <1>1, <2>1
  <2>3. (b = a + 1032 \/ b = a + 2056) /\ (n > 56 /\ l > 50 => b = a + 1032)
    BY <2>2 DEF Sums
  <2>4. b >= a + 1032 /\ b <= a + 2056 /\ (n > 56 /\ l > 50 => b <= a + 1032)
    BY <2>3
  <2> QED BY <2>2, <2>4
<1> DEFINE Bounded(a, l) == /\ a >= HeaderBytes + 1032 * l /\ a <= HeaderBytes + 2056 * l
                            /\ n > 56 /\ l > 50 => a <= HeaderBytes + 2056 * 50 + 1032 * (l - 50)
<1>3. PICK S : S = {l \in 0..n : Bounded(f[l], l)}
  OBVIOUS
<1>4. 0..n \subseteq S
  <2>1. 0 \in S
    <3>1. f[0] = HeaderBytes
      BY DEF Sums
    <3> QED BY <1>3, <3>1 DEF HeaderBytes
  <2>2. ASSUME NEW l \in 1..n, l - 1 \in S PROVE l \in S
    <3>1. l - 1 \in 0..n /\ l \in 0..n
      OBVIOUS
    <3>2. PICK a \in Nat, b \in Nat : a = f[l - 1] /\ b = f[l]
      BY <1>1, <3>1
    <3>3. Bounded(a, l - 1)
      BY <1>3, <2>2, <3>2
    <3>4. b >= a + 1032 /\ b <= a + 2056 /\ (n > 56 /\ l > 50 => b <= a + 1032)
      BY <1>2, <3>2
    <3>5. Bounded(b, l)
      BY <3>3, <3>4 DEF HeaderBytes
    <3> HIDE DEF Bounded
    <3> QED BY <1>3, <3>1, <3>2, <3>5
  <2> HIDE DEF Bounded
  <2> QED BY <2>1, <2>2, IntervalInd
<1>5. PICK T : T = {d \in 0..n : f[n - d] <= f[n]}
  OBVIOUS
<1>6. 0..n \subseteq T
  <2>1. 0 \in T
    <3>1. f[n] \in Nat /\ n - 0 = n
      BY <1>1
    <3> QED BY <1>5, <3>1
  <2>2. ASSUME NEW d \in 1..n, d - 1 \in T PROVE d \in T
    <3>1. PICK l \in 1..n : l = n - (d - 1) /\ l - 1 = n - d /\ l - 1 \in 0..n /\ n \in 0..n
      OBVIOUS
    <3>2. PICK a \in Nat, b \in Nat, c \in Nat : a = f[l - 1] /\ b = f[l] /\ c = f[n]
      BY <1>1, <3>1
    <3>3. b <= c
      BY <1>5, <2>2, <3>1, <3>2
    <3>4. b >= a + 1032
      BY <1>2, <3>2
    <3>5. a <= c
      BY <3>3, <3>4
    <3> QED BY <1>5, <3>1, <3>2, <3>5
  <2> QED BY <2>1, <2>2, IntervalInd
<1>7. f[k] <= f[n]
  <2>1. PICK d \in 0..n : d = n - k /\ n - d = k
    OBVIOUS
  <2>2. d \in T
    BY <1>6
  <2> QED BY <1>5, <2>1, <2>2
<1>8. f[k] >= HeaderBytes + 1032 * k /\ f[k] <= ResponseLimit
  <2>1. PICK a \in Nat : a = f[k]
    BY <1>1
  <2>2. Bounded(a, k)
    <3>1. k \in S
      BY <1>4
    <3> HIDE DEF Bounded
    <3> QED BY <1>3, <2>1, <3>1
  <2>3. a >= HeaderBytes + 1032 * k /\ a <= ResponseLimit
    BY <2>2 DEF HeaderBytes, ResponseLimit
  <2> QED BY <2>1, <2>3
<1> QED BY <1>7, <1>8

\* A frame has at most 60 tiles.
LEMMA FrameTiles ==
    ASSUME NEW box, NEW n, NEW cols, NEW rows, NEW i, NEW j, Laid(box, n, cols, rows, i, j)
    PROVE  n \in 1..60 /\ ChangedTiles(box) \in [1..n -> SentTiles]
<1>1. n \in 1..60
  <2>1. cols \in 1..10 /\ rows \in 1..6 /\ n = cols * rows
    BY DEF Laid
  <2> QED BY <2>1
<1>2. PICK tiles : tiles = ChangedTiles(box)
  OBVIOUS
<1>3. tiles \in [1..n -> SentTiles]
  <2>1. \A k \in 1..n : tiles[k] \in SentTiles
    <3> TAKE k \in 1..n
    <3>1. IsTile(tiles[k], k, cols, rows, i, j)
      BY <1>2, LaidTiles
    <3>2. PICK p, q : tiles[k] = TileAt(p, q) /\ p \in 0..9 /\ q \in 0..5
      BY <3>1 DEF IsTile
    <3> QED BY <3>2, TileAtIs
  <2>2. tiles = [k \in 1..n |-> tiles[k]]
    BY <1>2 DEF Laid
  <2> QED BY <2>1, <2>2
<1> QED BY <1>1, <1>2, <1>3

\* No tile of a frame reaches out of the view.
LEMMA TileIsInside ==
    ASSUME NEW box, NEW n, NEW cols, NEW rows, NEW i, NEW j, Laid(box, n, cols, rows, i, j),
           NEW k \in 1..n, NEW t, t = ChangedTiles(box)[k]
    PROVE  /\ t.w \in 1..TileSize /\ t.x + t.w <= ViewWidth
           /\ t.h \in 1..TileSize /\ t.y + t.h <= ViewHeight
<1>1. IsTile(t, k, cols, rows, i, j)
  BY LaidTiles
<1>2. PICK p \in 0..9, q \in 0..5 : t = TileAt(p, q)
  BY <1>1 DEF IsTile
<1> QED BY <1>2, TileAtIs

\* The bytes of a frame, tile by tile.
LEMMA FrameSums ==
    ASSUME NEW box, NEW n, NEW cols, NEW rows, NEW i, NEW j, Laid(box, n, cols, rows, i, j)
    PROVE  \E f : /\ Sums(f, n) /\ f[n] = Packed(ChangedTiles(box)).bytes
                  /\ \A k \in 1..n : f[k] = f[k - 1] + TileBytes(ChangedTiles(box)[k])
<1>1. PICK tiles : tiles = ChangedTiles(box)
  OBVIOUS
<1>2. n \in 1..60 /\ ChangedTiles(box) \in [1..n -> SentTiles]
  BY FrameTiles
<1>3. n \in Nat /\ tiles \in [1..n -> SentTiles]
  BY <1>1, <1>2
<1>4. PICK f \in [0..n -> Nat] :
         /\ f[0] = HeaderBytes /\ f[n] = Packed(tiles).bytes
         /\ \A k \in 1..n : f[k] = f[k - 1] + TileBytes(tiles[k])
  BY <1>3, PackedSteps
<1>5. Sums(f, n)
  <2>1. ASSUME NEW k \in 1..n
        PROVE  /\ f[k] = f[k - 1] + 1032 \/ f[k] = f[k - 1] + 2056
               /\ n > 56 /\ k > 50 => f[k] = f[k - 1] + 1032
    <3>1. /\ TileBytes(tiles[k]) \in {1032, 2056}
          /\ n > 56 /\ k > 50 => TileBytes(tiles[k]) = 1032
      BY <1>1, TileSizes
    <3> QED BY <1>4, <3>1
  <2> QED BY <1>4, <2>1 DEF Sums
<1> QED BY <1>1, <1>4, <1>5

\* The handheld takes the tiles of a box in a response of their length only.
LEMMA FrameApplies ==
    ASSUME NEW box, NEW n, NEW cols, NEW rows, NEW i, NEW j, Laid(box, n, cols, rows, i, j),
           NEW frame, frame.tiles = ChangedTiles(box)
    PROVE  Applies(frame) <=> frame.bytes = Packed(ChangedTiles(box)).bytes
<1>1. PICK tiles : tiles = ChangedTiles(box)
  OBVIOUS
<1>2. n \in 1..60 /\ n \in 0..60 /\ n \in Nat /\ n \in 0..n /\ 0 \in 0..n /\ tiles \in [1..n -> SentTiles]
  <2>1. n \in 1..60 /\ ChangedTiles(box) \in [1..n -> SentTiles]
    BY FrameTiles
  <2>2. n \in 1..60
    BY <2>1
  <2>3. n \in Nat /\ n <= 60
    BY <2>2
  <2>4. n \in 0..60 /\ n \in 0..n /\ 0 \in 0..n
    BY <2>3
  <2> QED BY <1>1, <2>1, <2>3, <2>4, Zenon
<1>3. PICK f : /\ Sums(f, n) /\ f[n] = Packed(tiles).bytes
               /\ \A k \in 1..n : f[k] = f[k - 1] + TileBytes(tiles[k])
  BY <1>1, FrameSums
<1>4. PICK g \in [0..n -> Nat] :
         /\ g[0] = HeaderBytes
         /\ Applies(frame) <=> /\ frame.bytes \in HeaderBytes..ResponseLimit
                               /\ n <= MostTiles
                               /\ g[n] = frame.bytes
         /\ \A k \in 1..n : g[k] = Checked(g[k - 1], tiles[k], frame.bytes)
  BY <1>1, <1>2, AppliesSteps
<1>5. ASSUME NEW k \in 0..n
      PROVE  f[k] \in Nat /\ f[k] <= f[n] /\ f[k] >= HeaderBytes /\ f[k] <= ResponseLimit
  <2>1. n \in Nat /\ n <= 60 /\ Sums(f, n)
    BY <1>2, <1>3
  <2>2. f[k] <= f[n] /\ f[k] >= HeaderBytes + 1032 * k /\ f[k] <= ResponseLimit
    BY <2>1, SumsAre
  <2>3. PICK a \in Nat : a = f[k]
    BY <1>3 DEF Sums
  <2>4. k \in Nat
    BY <1>2
  <2>5. a >= HeaderBytes
    BY <2>2, <2>3, <2>4 DEF HeaderBytes
  <2> QED BY <2>2, <2>3, <2>5
<1>6. f[0] = HeaderBytes
  BY <1>3 DEF Sums
<1>7. PICK m \in Nat : m = f[n] /\ m >= HeaderBytes /\ m <= ResponseLimit
  BY <1>2, <1>5
<1>8. HeaderBytes \in Nat /\ HeaderBytes # 0 /\ ResponseLimit \in Nat
  BY DEF HeaderBytes, ResponseLimit
<1>9. ASSUME Applies(frame) PROVE frame.bytes = f[n]
  <2>1. PICK S : S = {k \in 0..n : g[k] \in {0, f[k]}}
    OBVIOUS
  <2>2. 0 \in S
    BY <1>2, <1>4, <1>6, <2>1
  <2>3. ASSUME NEW k \in 1..n, k - 1 \in S PROVE k \in S
    <3>1. g[k - 1] \in {0, f[k - 1]}
      BY <2>1, <2>3
    <3>2. g[k] \in {0, f[k]}
      BY <1>3, <1>4, <3>1 DEF Checked
    <3> QED BY <2>1, <3>2
  <2>4. 0..n \subseteq S
    BY <1>2, <2>2, <2>3, IntervalInd
  <2>5. g[n] \in {0, f[n]}
    BY <1>2, <2>1, <2>4
  <2>6. g[n] = frame.bytes /\ frame.bytes \in HeaderBytes..ResponseLimit
    BY <1>4, <1>9
  <2>7. frame.bytes # 0
    BY <1>8, <2>6
  <2> QED BY <2>5, <2>6, <2>7
<1>10. ASSUME frame.bytes = f[n] PROVE Applies(frame)
  <2>1. PICK S : S = {k \in 0..n : g[k] = f[k]}
    OBVIOUS
  <2>2. 0 \in S
    BY <1>2, <1>4, <1>6, <2>1
  <2>3. ASSUME NEW k \in 1..n, k - 1 \in S PROVE k \in S
    <3>1. g[k - 1] = f[k - 1] /\ f[k - 1] # 0
      <4>1. k - 1 \in 0..n
        BY <1>2
      <4>2. f[k - 1] \in Nat /\ f[k - 1] >= HeaderBytes
        BY <1>5, <4>1
      <4> QED BY <2>1, <2>3, <4>2 DEF HeaderBytes
    <3>2. TileFits(tiles[k], f[k - 1], frame.bytes)
      <4>1. f[k - 1] + TileBytes(tiles[k]) <= frame.bytes
        <5>1. k \in 0..n
          BY <1>2
        <5>2. f[k] <= f[n]
          BY <1>5, <5>1
        <5> QED BY <1>3, <1>10, <5>2
      <4>2. /\ tiles[k].w \in 1..TileSize /\ tiles[k].x + tiles[k].w <= ViewWidth
            /\ tiles[k].h \in 1..TileSize /\ tiles[k].y + tiles[k].h <= ViewHeight
        BY <1>1, TileIsInside
      <4> QED BY <4>1, <4>2 DEF TileFits
    <3>3. g[k] = f[k]
      BY <1>3, <1>4, <3>1, <3>2 DEF Checked
    <3> QED BY <2>1, <3>3
  <2>4. 0..n \subseteq S
    BY <1>2, <2>2, <2>3, IntervalInd
  <2>5. g[n] = f[n]
    BY <1>2, <2>1, <2>4
  <2>6. frame.bytes \in HeaderBytes..ResponseLimit
    <3>1. m \in HeaderBytes..ResponseLimit
      BY <1>7, <1>8
    <3> QED BY <1>10, <1>7, <3>1
  <2>7. n <= MostTiles
    BY <1>2 DEF MostTiles
  <2> QED BY <1>4, <1>10, <2>5, <2>6, <2>7
<1> QED BY <1>1, <1>3, <1>9, <1>10

\* No two tiles of a box are the same.
LEMMA TilesDiffer ==
    ASSUME NEW box, NEW n, NEW cols, NEW rows, NEW i, NEW j, Laid(box, n, cols, rows, i, j),
           NEW k \in 1..n, NEW l \in 1..n, ChangedTiles(box)[k] = ChangedTiles(box)[l]
    PROVE  k = l
<1>1. cols \in 1..10 /\ rows \in 1..6 /\ n = cols * rows /\ i \in 0..9 /\ j \in 0..5
  BY DEF Laid
<1>2. PICK p \in 0..9, q \in 0..5 :
         ChangedTiles(box)[k] = TileAt(p, q) /\ p = i + ((k - 1) % cols) /\ q = j + ((k - 1) \div cols)
  BY LaidTiles DEF IsTile
<1>3. PICK u \in 0..9, v \in 0..5 :
         ChangedTiles(box)[l] = TileAt(u, v) /\ u = i + ((l - 1) % cols) /\ v = j + ((l - 1) \div cols)
  BY LaidTiles DEF IsTile
<1>4. p = u /\ q = v
  <2>1. TileAt(p, q).x = TileAt(u, v).x /\ TileAt(p, q).y = TileAt(u, v).y
    BY <1>2, <1>3
  <2>2. 32 * p = 32 * u /\ 32 * q = 32 * v
    BY <2>1 DEF TileAt
  <2> QED BY <2>2
<1>5. k \in 1..(cols * rows) /\ l \in 1..(cols * rows)
  BY <1>1
<1>6. /\ (k - 1) % cols \in 0..(cols - 1) /\ (k - 1) \div cols \in 0..(rows - 1)
      /\ k = ((k - 1) \div cols) * cols + ((k - 1) % cols) + 1
  BY <1>1, <1>5, PlaceIs
<1>7. /\ (l - 1) % cols \in 0..(cols - 1) /\ (l - 1) \div cols \in 0..(rows - 1)
      /\ l = ((l - 1) \div cols) * cols + ((l - 1) % cols) + 1
  BY <1>1, <1>5, PlaceIs
<1>8. (k - 1) % cols = (l - 1) % cols /\ (k - 1) \div cols = (l - 1) \div cols
  BY <1>1, <1>2, <1>3, <1>4, <1>6, <1>7
<1> QED BY <1>6, <1>7, <1>8

\* No tile is sent twice.
LEMMA TilesAreMany ==
    ASSUME NEW box, NEW n, NEW cols, NEW rows, NEW i, NEW j, Laid(box, n, cols, rows, i, j)
    PROVE  Cardinality({ChangedTiles(box)[k] : k \in 1..n}) = n
<1>1. PICK T : T = {ChangedTiles(box)[k] : k \in 1..n}
  OBVIOUS
<1>2. PICK f : f = [k \in 1..n |-> ChangedTiles(box)[k]]
  OBVIOUS
<1>3. f \in Bijection(1..n, T)
  <2>1. f \in [1..n -> T] /\ \A t \in T : \E k \in 1..n : f[k] = t
    BY <1>1, <1>2
  <2>2. \A k, l \in 1..n : f[k] = f[l] => k = l
    BY <1>2, TilesDiffer
  <2> QED BY <2>1, <2>2, Fun_IsBij
<1>4. n \in Nat
  <2>1. n \in 1..60
    BY FrameTiles
  <2> QED BY <2>1
<1>5. IsFiniteSet(1..n) /\ Cardinality(1..n) = n
  <2>1. 1 \in Int /\ n \in Int
    BY <1>4
  <2>2. IsFiniteSet(1..n) /\ Cardinality(1..n) = IF 1 > n THEN 0 ELSE n - 1 + 1
    BY <2>1, FS_Interval
  <2> QED BY <1>4, <2>2
<1>6. ExistsBijection(1..n, T)
  BY <1>3, Fun_ExistsBij
<1>7. Cardinality(T) = Cardinality(1..n)
  BY <1>5, <1>6, FS_Bijection
<1> QED BY <1>1, <1>5, <1>7

\* A pixel lies in the tile of its column and row, and no other.
LEMMA TilesCover ==
    ASSUME NEW box, NEW n, NEW cols, NEW rows, NEW i, NEW j, Laid(box, n, cols, rows, i, j),
           NEW x \in Nat, NEW y \in Nat, x < 320, y < 176
    PROVE  /\ \A k \in 1..n : Within(x, y, ChangedTiles(box)[k]) =>
                                 ChangedTiles(box)[k] = TileAt(x \div 32, y \div 32)
           /\ x >= box.x0 /\ x < box.x1 /\ y >= box.y0 /\ y < box.y1 =>
                 \E k \in 1..n : Within(x, y, ChangedTiles(box)[k])
<1>1. ASSUME NEW k \in 1..n, Within(x, y, ChangedTiles(box)[k])
      PROVE  ChangedTiles(box)[k] = TileAt(x \div 32, y \div 32)
  <2>1. PICK p \in 0..9, q \in 0..5 : ChangedTiles(box)[k] = TileAt(p, q)
    BY LaidTiles DEF IsTile
  <2>2. p = x \div 32 /\ q = y \div 32
    BY <1>1, <2>1, TileAtCovers
  <2> QED BY <2>1, <2>2
<1>2. ASSUME x >= box.x0, x < box.x1, y >= box.y0, y < box.y1
      PROVE  \E k \in 1..n : Within(x, y, ChangedTiles(box)[k])
  <2>1. /\ cols \in 1..10 /\ rows \in 1..6 /\ i \in 0..9 /\ j \in 0..5 /\ n = cols * rows
        /\ i + cols <= 10 /\ j + rows <= 6
    BY DEF Laid
  <2>2. PICK p \in Nat, q \in Nat : p = x \div 32 /\ q = y \div 32
    OBVIOUS
  <2>3. p >= i /\ p < i + cols
    <3>1. 32 * i <= x /\ x < 32 * (i + cols)
      <4>1. PICK l \in Nat, r \in Nat : l = box.x0 /\ r = box.x1
        BY DEF Laid
      <4>2. 32 * i <= l /\ r <= 32 * (i + cols)
        BY <4>1 DEF Laid
      <4>3. l <= x /\ x < r
        BY <1>2, <4>1
      <4> QED BY <2>1, <4>2, <4>3
    <3> QED BY <2>1, <2>2, <3>1
  <2>4. q >= j /\ q < j + rows
    <3>1. 32 * j <= y /\ y < 32 * (j + rows)
      <4>1. PICK l \in Nat, r \in Nat : l = box.y0 /\ r = box.y1
        BY DEF Laid
      <4>2. 32 * j <= l /\ r <= 32 * (j + rows)
        BY <4>1 DEF Laid
      <4>3. l <= y /\ y < r
        BY <1>2, <4>1
      <4> QED BY <2>1, <4>2, <4>3
    <3> QED BY <2>1, <2>2, <3>1
  <2>5. PICK u \in 0..(cols - 1), v \in 0..(rows - 1) : u = p - i /\ v = q - j /\ p = i + u /\ q = j + v
    BY <2>1, <2>3, <2>4
  <2>6. PICK k \in 1..n : (k - 1) % cols = u /\ (k - 1) \div cols = v
    <3>1. cols \in 1..10 /\ rows \in 1..6
      BY <2>1
    <3>2. \E k \in 1..(cols * rows) : (k - 1) % cols = u /\ (k - 1) \div cols = v
      BY <3>1, PlaceOf, Zenon
    <3> QED BY <2>1, <3>2, Zenon
  <2>7. ChangedTiles(box)[k] = TileAt(p, q)
    BY <2>5, <2>6 DEF Laid
  <2>8. p \in 0..9 /\ q \in 0..5
    BY <2>1, <2>3, <2>4
  <2>9. Within(x, y, TileAt(p, q))
    BY <2>2, <2>8, TileAtCovers
  <2> QED BY <2>7, <2>9
<1> QED BY <1>1, <1>2

\* A set whose members are all the same has at most one.
LEMMA AtMostOne ==
    ASSUME NEW S, \A s, t \in S : s = t
    PROVE  Cardinality(S) <= 1
<1>1. CASE S = {}
  <2>1. Cardinality({}) = 0
    BY FS_EmptySet
  <2> QED BY <1>1, <2>1
<1>2. CASE S # {}
  <2>1. PICK s \in S : S = {s}
    BY <1>2
  <2>2. Cardinality({s}) = 1
    BY FS_Singleton
  <2> QED BY <2>1, <2>2
<1> QED BY <1>1, <1>2

\* The formula itself, box by box.
LEMMA FramesAllFit == FramesFit
<1> SUFFICES ASSUME NEW box \in Boxes
             PROVE  LET frame == Packed(ChangedTiles(box))
                        tiles == {frame.tiles[n] : n \in 1..Len(frame.tiles)}
                    IN
                    /\ Applies(frame)
                    /\ \A end \in Ends(frame) \ {frame.bytes} : ~Applies(Arrived(frame, end))
                    /\ Cardinality(tiles) = Len(frame.tiles)
                    /\ \A x \in Columns \ {ViewWidth}, y \in Rows \ {ViewHeight} :
                          LET over == {t \in tiles : Within(x, y, t)} IN
                          /\ Cardinality(over) <= 1
                          /\ x \in box.x0..(box.x1 - 1) /\ y \in box.y0..(box.y1 - 1) => over # {}
  BY DEF FramesFit
<1> DEFINE frame == Packed(ChangedTiles(box))
           tiles == {frame.tiles[n] : n \in 1..Len(frame.tiles)}
<1>1. PICK n, cols, rows, i, j : Laid(box, n, cols, rows, i, j)
  BY TilesAre
<1>2. frame.tiles = ChangedTiles(box)
  BY DEF Packed
<1>3. Applies(frame)
  BY <1>1, <1>2, FrameApplies
<1>4. ASSUME NEW end, end # frame.bytes PROVE ~Applies(Arrived(frame, end))
  <2>1. Arrived(frame, end).tiles = ChangedTiles(box) /\ Arrived(frame, end).bytes = end
    BY <1>2 DEF Arrived, Packed
  <2> QED BY <1>1, <1>4, <2>1, FrameApplies
<1>5. Len(frame.tiles) = n /\ tiles = {ChangedTiles(box)[k] : k \in 1..n}
  <2>1. n \in 1..60 /\ ChangedTiles(box) \in [1..n -> SentTiles]
    BY <1>1, FrameTiles
  <2>2. Len(ChangedTiles(box)) = n
    BY <2>1
  <2> QED BY <1>2, <2>2
<1>6. Cardinality(tiles) = Len(frame.tiles)
  BY <1>1, <1>5, TilesAreMany
<1>7. ASSUME NEW x \in Columns \ {ViewWidth}, NEW y \in Rows \ {ViewHeight}, NEW over,
             over = {t \in tiles : Within(x, y, t)}
      PROVE  /\ Cardinality(over) <= 1
             /\ x \in box.x0..(box.x1 - 1) /\ y \in box.y0..(box.y1 - 1) => over # {}
  <2>1. x \in Nat /\ y \in Nat /\ x < 320 /\ y < 176
    <3>1. (\A c \in Columns : c \in Nat /\ c <= 320) /\ (\A c \in Rows : c \in Nat /\ c <= 176)
      BY FrameAssumption DEF ViewWidth, ViewHeight
    <3>2. x \in Nat /\ x <= 320 /\ x # 320
      BY <3>1 DEF ViewWidth
    <3>3. y \in Nat /\ y <= 176 /\ y # 176
      BY <3>1 DEF ViewHeight
    <3> QED BY <3>2, <3>3
  <2>2. /\ \A k \in 1..n : Within(x, y, ChangedTiles(box)[k]) =>
                              ChangedTiles(box)[k] = TileAt(x \div 32, y \div 32)
        /\ x >= box.x0 /\ x < box.x1 /\ y >= box.y0 /\ y < box.y1 =>
              \E k \in 1..n : Within(x, y, ChangedTiles(box)[k])
    BY <1>1, <2>1, TilesCover
  <2>3. \A s, t \in over : s = t
    BY <1>5, <1>7, <2>2
  <2>4. Cardinality(over) <= 1
    BY <2>3, AtMostOne
  <2>5. ASSUME x \in box.x0..(box.x1 - 1), y \in box.y0..(box.y1 - 1) PROVE over # {}
    <3>1. box.x0 \in Nat /\ box.x1 \in Nat /\ box.y0 \in Nat /\ box.y1 \in Nat
      <4>1. (\A c \in Columns : c \in Nat) /\ (\A c \in Rows : c \in Nat)
        BY FrameAssumption DEF ViewWidth, ViewHeight
      <4>2. box.x0 \in Columns /\ box.x1 \in Columns /\ box.y0 \in Rows /\ box.y1 \in Rows
        BY DEF Boxes
      <4> QED BY <4>1, <4>2
    <3>2. x >= box.x0 /\ x < box.x1 /\ y >= box.y0 /\ y < box.y1
      BY <2>1, <2>5, <3>1
    <3>3. PICK k \in 1..n : Within(x, y, ChangedTiles(box)[k])
      BY <2>2, <3>2
    <3> QED BY <1>5, <1>7, <3>3
  <2> QED BY <2>4, <2>5
<1> QED BY <1>3, <1>4, <1>6, <1>7

\* Whatever part of the view has changed, its frame fits in one response, is drawn
\* whole when it arrived whole and not at all when it did not, and its tiles cover
\* the change without overlapping (changed_tiles() of desktop.py against
\* applyDesktopFrame() of DesktopTiles.h).
THEOREM FramesAreDrawnWhole == FramesFit /\ (DSpec => []FramesFitAtStart)
<1>1. FramesFit
  BY FramesAllFit
<1>2. FramesFitAtStart
  BY <1>1 DEF FramesFitAtStart
<1> QED BY <1>1, <1>2, PTL

-----------------------------------------------------------------------------
\* Output of a terminal (AnsiFilter).

\* ansiState after each character.
NextState(q, c) ==
    CASE q = 1 -> IF c = "bracket" THEN 2 ELSE 0
      [] q = 2 -> IF EndsSequence(c) THEN 0 ELSE 2
      [] OTHER -> IF c = "escape" THEN 1 ELSE 0

States(st, s, n) ==
    st \in [0..n -> {0, 1, 2}] /\ st[0] = 0 /\ \A k \in 1..n : st[k] = NextState(st[k - 1], s[k])

\* Every stream has a state of the filter after each character.
LEMMA StatesExist ==
    ASSUME NEW n \in Nat, NEW s
    PROVE  \E st : States(st, s, n)
<1>1. PICK V : V = {0, 1, 2}
  OBVIOUS
<1>2. PICK F : F = [k \in 1..n |-> [q \in V |-> NextState(q, s[k])]]
  OBVIOUS
<1>3. F \in Steps(n, V) /\ 0 \in V
  <2>1. \A q \in V : \A c : NextState(q, c) \in V
    BY <1>1 DEF NextState
  <2> QED BY <1>1, <1>2, <2>1 DEF Steps
<1>4. PICK g : FoldsSets(g, n, V, 0, F)
  BY <1>3, SetFold
<1>5. AgreesWith(g, n, V, 0, F)
  BY <1>4 DEF FoldsSets, AgreesWith
<1>6. PICK st : Folds(st, n, V, 0, F)
  BY <1>3, <1>5, FoldSteps
<1>7. st \in [0..n -> V] /\ st[0] = 0
  BY <1>6 DEF Folds
<1>8. ASSUME NEW k \in 1..n PROVE st[k] = NextState(st[k - 1], s[k])
  <2>1. st[k] = F[k][st[k - 1]] /\ st[k - 1] \in V
    BY <1>6, <1>7 DEF Folds
  <2> QED BY <1>2, <2>1
<1> QED BY <1>1, <1>7, <1>8 DEF States

\* How the state after a character follows from the one before it.
LEMMA NextStateIs ==
    ASSUME NEW n \in Nat, NEW s, NEW st, States(st, s, n), NEW m \in 1..n
    PROVE  /\ st[m] \in {0, 1, 2} /\ st[m - 1] \in {0, 1, 2}
           /\ st[m] = 1 <=> st[m - 1] = 0 /\ s[m] = "escape"
           /\ st[m] = 2 <=> \/ st[m - 1] = 1 /\ s[m] = "bracket"
                            \/ st[m - 1] = 2 /\ ~EndsSequence(s[m])
<1>1. st[m] \in {0, 1, 2} /\ st[m - 1] \in {0, 1, 2}
  BY DEF States
<1>2. st[m] = NextState(st[m - 1], s[m])
  BY DEF States
<1> QED BY <1>1, <1>2 DEF NextState

\* A sequence is open after m characters: an escape outside of any began it.
Open(st, s, m) ==
    \E j \in 1..m :
        /\ s[j] = "escape" /\ st[j - 1] = 0
        /\ \/ m = j
           \/ s[j + 1] = "bracket" /\ \A k \in (j + 2)..m : ~EndsSequence(s[k])

\* The filter is in a sequence just when one is open, as the stream tells.
LEMMA OpenIs ==
    ASSUME NEW n \in Nat, NEW s, NEW st, States(st, s, n), NEW m \in 0..n
    PROVE  st[m] # 0 <=> Open(st, s, m)
<1> DEFINE Two(l) == \E j \in 1..(l - 1) :
                         /\ s[j] = "escape" /\ st[j - 1] = 0 /\ s[j + 1] = "bracket"
                         /\ \A k \in (j + 2)..l : ~EndsSequence(s[k])
<1>1. PICK S : S = {l \in 0..n : st[l] = 2 <=> Two(l)}
  OBVIOUS
<1>2. 0..n \subseteq S
  <2>1. 0 \in S
    BY <1>1 DEF States
  <2>2. ASSUME NEW l \in 1..n, l - 1 \in S PROVE l \in S
    <3>1. st[l - 1] = 2 <=> Two(l - 1)
      BY <1>1, <2>2
    <3>2. /\ st[l] = 2 <=> \/ st[l - 1] = 1 /\ s[l] = "bracket"
                           \/ st[l - 1] = 2 /\ ~EndsSequence(s[l])
      BY NextStateIs
    <3>3. st[l - 1] = 1 <=> l - 1 \in 1..n /\ st[l - 2] = 0 /\ s[l - 1] = "escape"
      <4>1. CASE l = 1
        BY <4>1 DEF States
      <4>2. CASE l # 1
        <5>1. PICK p \in 1..n : p = l - 1 /\ p - 1 = l - 2
          BY <4>2
        <5>2. st[p] = 1 <=> st[p - 1] = 0 /\ s[p] = "escape"
          BY NextStateIs
        <5> QED BY <5>1, <5>2
      <4> QED BY <4>1, <4>2
    <3>4. ASSUME st[l] = 2 PROVE Two(l)
      <4>1. CASE st[l - 1] = 1 /\ s[l] = "bracket"
        <5>1. PICK j \in 1..(l - 1) : j = l - 1 /\ j + 1 = l /\ j - 1 = l - 2
          BY <3>3, <4>1
        <5>2. s[j] = "escape" /\ st[j - 1] = 0 /\ s[j + 1] = "bracket"
          BY <3>3, <4>1, <5>1
        <5>3. \A k \in (j + 2)..l : ~EndsSequence(s[k])
          BY <5>1
        <5> QED BY <5>2, <5>3
      <4>2. CASE st[l - 1] = 2 /\ ~EndsSequence(s[l])
        <5>1. PICK j \in 1..((l - 1) - 1) :
                 /\ s[j] = "escape" /\ st[j - 1] = 0 /\ s[j + 1] = "bracket"
                 /\ \A k \in (j + 2)..(l - 1) : ~EndsSequence(s[k])
          BY <3>1, <4>2
        <5>2. j \in 1..(l - 1)
          OBVIOUS
        <5>3. \A k \in (j + 2)..l : ~EndsSequence(s[k])
          BY <4>2, <5>1
        <5> QED BY <5>1, <5>2, <5>3
      <4> QED BY <3>2, <3>4, <4>1, <4>2
    <3>5. ASSUME Two(l) PROVE st[l] = 2
      <4>1. PICK j \in 1..(l - 1) :
               /\ s[j] = "escape" /\ st[j - 1] = 0 /\ s[j + 1] = "bracket"
               /\ \A k \in (j + 2)..l : ~EndsSequence(s[k])
        BY <3>5
      <4>2. CASE j = l - 1
        BY <3>2, <3>3, <4>1, <4>2
      <4>3. CASE j # l - 1
        <5>1. j \in 1..((l - 1) - 1) /\ l \in (j + 2)..l
          BY <4>3
        <5>2. \A k \in (j + 2)..(l - 1) : ~EndsSequence(s[k])
          BY <4>1
        <5>3. Two(l - 1)
          BY <4>1, <5>1, <5>2
        <5> QED BY <3>1, <3>2, <4>1, <5>1, <5>3
      <4> QED BY <4>2, <4>3
    <3> HIDE DEF Two
    <3> QED BY <1>1, <3>4, <3>5
  <2> HIDE DEF Two
  <2> QED BY <2>1, <2>2, IntervalInd
<1>3. st[m] = 2 <=> Two(m)
  <2>1. m \in S
    BY <1>2
  <2> HIDE DEF Two
  <2> QED BY <1>1, <2>1
<1>4. CASE m = 0
  <2>1. st[m] = 0 /\ 1..m = {}
    BY <1>4 DEF States
  <2> QED BY <2>1 DEF Open
<1>5. CASE m # 0
  <2>1. st[m] \in {0, 1, 2} /\ (st[m] = 1 <=> st[m - 1] = 0 /\ s[m] = "escape")
    BY <1>5, NextStateIs
  <2>2. ASSUME st[m] # 0 PROVE Open(st, s, m)
    <3>1. CASE st[m] = 1
      <4>1. m \in 1..m
        BY <1>5
      <4> QED BY <2>1, <3>1, <4>1 DEF Open
    <3>2. CASE st[m] = 2
      BY <1>3, <3>2 DEF Open
    <3> QED BY <2>1, <2>2, <3>1, <3>2
  <2>3. ASSUME Open(st, s, m) PROVE st[m] # 0
    <3>1. PICK j \in 1..m :
             /\ s[j] = "escape" /\ st[j - 1] = 0
             /\ \/ m = j
                \/ s[j + 1] = "bracket" /\ \A k \in (j + 2)..m : ~EndsSequence(s[k])
      BY <2>3 DEF Open
    <3>2. CASE m = j
      BY <2>1, <3>1, <3>2
    <3>3. CASE m # j
      <4>1. j \in 1..(m - 1)
        BY <3>3
      <4> QED BY <1>3, <3>1, <3>3, <4>1
    <3> QED BY <3>2, <3>3
  <2> QED BY <2>2, <2>3
<1> QED BY <1>4, <1>5

Opens(s, inside, i) ==
    \E j \in 1..(i - 1) :
        /\ s[j] = "escape" /\ ~inside[j]
        /\ \/ i = j + 1
           \/ s[j + 1] = "bracket" /\ \A k \in (j + 2)..(i - 1) : ~EndsSequence(s[k])

\* The same, told by which characters are inside a sequence so far.
LEMMA OpensIs ==
    ASSUME NEW n \in Nat, NEW s, NEW st, States(st, s, n), NEW i \in 1..n, NEW inside,
           \A j \in 1..(i - 1) : inside[j] <=> st[j - 1] # 0
    PROVE  Opens(s, inside, i) <=> st[i - 1] # 0
<1>1. PICK m \in 0..n : m = i - 1 /\ m + 1 = i
  OBVIOUS
<1>2. st[m] # 0 <=> Open(st, s, m)
  BY OpenIs
<1>3. \A j \in 1..m : (i = j + 1 <=> m = j) /\ (~inside[j] <=> st[j - 1] = 0)
  BY <1>1
<1> QED BY <1>1, <1>2, <1>3 DEF Open, Opens

\* The characters that are hidden are those the filter is in a sequence at.
LEMMA InSequenceIs ==
    ASSUME NEW n \in Nat, NEW s, Len(s) = n, NEW st, States(st, s, n)
    PROVE  InSequence(s) = {i \in 1..n : st[i - 1] # 0 \/ s[i] = "escape"}
<1>1. PICK f : f = [i \in 1..n |-> st[i - 1] # 0]
  OBVIOUS
<1>2. ASSUME NEW inside, inside = [i \in 1..n |-> Opens(s, inside, i)]
      PROVE  inside = f
  <2>1. PICK S : S = {k \in 0..n : \A j \in 1..k : inside[j] <=> st[j - 1] # 0}
    OBVIOUS
  <2>2. 0 \in S
    BY <2>1
  <2>3. ASSUME NEW k \in 1..n, k - 1 \in S PROVE k \in S
    <3>1. \A j \in 1..(k - 1) : inside[j] <=> st[j - 1] # 0
      BY <2>1, <2>3
    <3>2. Opens(s, inside, k) <=> st[k - 1] # 0
      BY <3>1, OpensIs
    <3>3. inside[k] <=> st[k - 1] # 0
      BY <1>2, <3>2
    <3>4. \A j \in 1..k : j = k \/ j \in 1..(k - 1)
      OBVIOUS
    <3> QED BY <2>1, <3>1, <3>3, <3>4
  <2>4. n \in S
    BY <2>2, <2>3, IntervalInd
  <2>5. \A j \in 1..n : Opens(s, inside, j) <=> st[j - 1] # 0
    <3>1. \A j \in 1..n : inside[j] = Opens(s, inside, j)
      BY <1>2
    <3> QED BY <2>1, <2>4, <3>1
  <2>6. \A j \in 1..n : Opens(s, inside, j) = (st[j - 1] # 0)
    BY <2>5, Zenon DEF Opens
  <2>7. [j \in 1..n |-> Opens(s, inside, j)] = [j \in 1..n |-> st[j - 1] # 0]
    BY <2>6, Zenon
  <2> QED BY <1>1, <1>2, <2>7, Zenon
<1>3. f = [i \in 1..n |-> Opens(s, f, i)]
  <2>1. ASSUME NEW i \in 1..n PROVE Opens(s, f, i) <=> st[i - 1] # 0
    <3>1. \A j \in 1..(i - 1) : f[j] <=> st[j - 1] # 0
      <4>1. \A j \in 1..(i - 1) : j \in 1..n
        OBVIOUS
      <4> QED BY <1>1, <4>1, Zenon
    <3> QED BY <3>1, OpensIs
  <2>2. \A i \in 1..n : Opens(s, f, i) = (st[i - 1] # 0)
    BY <2>1, Zenon DEF Opens
  <2>3. [i \in 1..n |-> Opens(s, f, i)] = [i \in 1..n |-> st[i - 1] # 0]
    BY <2>2, Zenon
  <2> QED BY <1>1, <2>3, Zenon
<1>4. PICK inside : inside = CHOOSE g : g = [i \in 1..n |-> Opens(s, g, i)]
  OBVIOUS
<1>5. inside = f
  BY <1>2, <1>3, <1>4
<1>6. InSequence(s) = {i \in 1..n : inside[i] \/ s[i] = "escape"}
  BY <1>4 DEF InSequence, Opens
<1> QED BY <1>1, <1>5, <1>6

Texts == Seq(Characters)

\* t is the end of h.
IsEndOf(t, h) ==
    /\ t \in Texts /\ h \in Texts /\ Len(t) <= Len(h)
    /\ \A i \in 1..Len(t) : t[i] = h[(Len(h) - Len(t)) + i]

\* What is the end of a text is its suffix.
LEMMA EndIsSuffix ==
    ASSUME NEW t, NEW h, IsEndOf(t, h)
    PROVE  IsSuffix(t, h)
<1>1. PICK p \in Nat, q \in Nat : p = Len(t) /\ q = Len(h) /\ p <= q
  BY DEF IsEndOf, Texts
<1>2. \A i \in 1..p : Reverse(t)[i] = Reverse(h)[i]
  <2>1. ASSUME NEW i \in 1..p PROVE Reverse(t)[i] = Reverse(h)[i]
    <3>1. Reverse(t)[i] = t[(p - i) + 1] /\ Reverse(h)[i] = h[(q - i) + 1]
      BY <1>1 DEF Reverse
    <3>2. (p - i) + 1 \in 1..p /\ (q - p) + ((p - i) + 1) = (q - i) + 1
      OBVIOUS
    <3>3. PICK j \in 1..p : j = (p - i) + 1 /\ (q - p) + j = (q - i) + 1
      BY <3>2, Zenon
    <3>4. t[j] = h[(q - p) + j]
      BY <1>1, <3>3 DEF IsEndOf
    <3> QED BY <3>1, <3>3, <3>4
  <2> QED BY <2>1
<1>3. Len(Reverse(t)) = p /\ Len(Reverse(h)) = q
  BY <1>1 DEF Reverse
<1>4. SubSeq(Reverse(t), 1, p) = SubSeq(Reverse(h), 1, p)
  BY <1>1, <1>2
<1> QED BY <1>1, <1>3, <1>4 DEF IsSuffix, IsPrefix

\* The end of a text remains one when a character is put behind both.
LEMMA EndsPush ==
    ASSUME NEW t, NEW h, IsEndOf(t, h), NEW c \in Characters
    PROVE  IsEndOf(Append(t, c), Append(h, c))
<1>1. PICK p \in Nat, q \in Nat : p = Len(t) /\ q = Len(h) /\ p <= q
  BY DEF IsEndOf, Texts
<1>2. t \in Seq(Characters) /\ h \in Seq(Characters)
  BY DEF IsEndOf, Texts
<1>3. \A i \in 1..(p + 1) : Append(t, c)[i] = Append(h, c)[(q - p) + i]
  <2>1. ASSUME NEW i \in 1..p PROVE Append(t, c)[i] = Append(h, c)[(q - p) + i]
    <3>1. t[i] = h[(q - p) + i]
      BY <1>1 DEF IsEndOf
    <3>2. (q - p) + i \in 1..q
      BY <1>1
    <3> QED BY <1>1, <1>2, <3>1, <3>2
  <2>2. Append(t, c)[p + 1] = c /\ Append(h, c)[q + 1] = c /\ (q - p) + (p + 1) = q + 1
    BY <1>1, <1>2
  <2>3. \A i \in 1..(p + 1) : i \in 1..p \/ i = p + 1
    OBVIOUS
  <2> QED BY <2>1, <2>2, <2>3
<1>4. /\ Append(t, c) \in Seq(Characters) /\ Append(h, c) \in Seq(Characters)
      /\ Len(Append(t, c)) = p + 1 /\ Len(Append(h, c)) = q + 1
  BY <1>1, <1>2
<1>5. p + 1 <= q + 1 /\ \A i \in 1..(p + 1) : (q - p) + i = ((q + 1) - (p + 1)) + i
  BY <1>1
<1>6. \A i \in 1..(p + 1) : Append(t, c)[i] = Append(h, c)[((q + 1) - (p + 1)) + i]
  BY <1>3, <1>5
<1> QED BY <1>4, <1>5, <1>6 DEF IsEndOf, Texts

\* A text without its last character; of an empty text nothing is taken.
LEMMA WithoutLastIs ==
    ASSUME NEW t \in Texts
    PROVE  /\ WithoutLast(t) \in Texts
           /\ t = <<>> => WithoutLast(t) = <<>>
           /\ t # <<>> => /\ Len(t) >= 1 /\ Len(WithoutLast(t)) = Len(t) - 1
                          /\ \A i \in 1..(Len(t) - 1) : WithoutLast(t)[i] = t[i]
<1>1. CASE t = <<>>
  BY <1>1 DEF WithoutLast
<1>2. CASE t # <<>>
  <2>1. Len(t) \in Nat /\ Len(t) >= 1 /\ WithoutLast(t) = SubSeq(t, 1, Len(t) - 1)
    BY <1>2 DEF WithoutLast, Front, Texts
  <2>2. PICK p \in Nat : p = Len(t)
    BY <2>1
  <2>3. \A i \in 1..(p - 1) : t[i] \in Characters
    BY <2>2 DEF Texts
  <2>4. /\ SubSeq(t, 1, p - 1) \in Seq(Characters)
        /\ Len(SubSeq(t, 1, p - 1)) = IF 1 <= p - 1 THEN ((p - 1) - 1) + 1 ELSE 0
        /\ \A i \in 1..((p - 1) - 1 + 1) : SubSeq(t, 1, p - 1)[i] = t[(1 + i) - 1]
    BY <2>3, SubSeqProperties
  <2>5. (IF 1 <= p - 1 THEN ((p - 1) - 1) + 1 ELSE 0) = p - 1
    BY <2>1, <2>2
  <2>6. \A i \in 1..(p - 1) : SubSeq(t, 1, p - 1)[i] = t[i]
    BY <2>4
  <2> QED BY <1>2, <2>1, <2>2, <2>4, <2>5, <2>6 DEF Texts
<1> QED BY <1>1, <1>2

\* The end of a text remains one when the last character is taken of both.
LEMMA EndsPop ==
    ASSUME NEW t, NEW h, IsEndOf(t, h)
    PROVE  IsEndOf(WithoutLast(t), WithoutLast(h))
<1>1. PICK p \in Nat, q \in Nat : p = Len(t) /\ q = Len(h) /\ p <= q
  BY DEF IsEndOf, Texts
<1>2. t \in Texts /\ h \in Texts
  BY DEF IsEndOf
<1>3. CASE t = <<>>
  <2>1. WithoutLast(t) = <<>> /\ WithoutLast(h) \in Texts
    BY <1>2, <1>3, WithoutLastIs
  <2> QED BY <2>1 DEF IsEndOf, Texts
<1>4. CASE t # <<>>
  <2>1. p >= 1 /\ q >= 1 /\ h # <<>>
    <3>1. p >= 1
      BY <1>1, <1>2, <1>4, WithoutLastIs
    <3>2. h # <<>>
      BY <1>1, <3>1
    <3> QED BY <1>1, <3>1, <3>2
  <2>2. /\ WithoutLast(t) \in Texts /\ Len(WithoutLast(t)) = p - 1
        /\ \A i \in 1..(p - 1) : WithoutLast(t)[i] = t[i]
    BY <1>1, <1>2, <1>4, WithoutLastIs
  <2>3. /\ WithoutLast(h) \in Texts /\ Len(WithoutLast(h)) = q - 1
        /\ \A i \in 1..(q - 1) : WithoutLast(h)[i] = h[i]
    BY <1>1, <1>2, <2>1, WithoutLastIs
  <2>4. ASSUME NEW i \in 1..(p - 1) PROVE WithoutLast(t)[i] = WithoutLast(h)[((q - 1) - (p - 1)) + i]
    <3>1. t[i] = h[(q - p) + i]
      BY <1>1 DEF IsEndOf
    <3>2. (q - p) + i \in 1..(q - 1) /\ (q - p) + i = ((q - 1) - (p - 1)) + i
      BY <1>1
    <3> QED BY <2>2, <2>3, <3>1, <3>2
  <2> QED BY <1>1, <2>1, <2>2, <2>3, <2>4 DEF IsEndOf
<1> QED BY <1>3, <1>4

\* Cutting a text from the front leaves an end of it.
LEMMA TrimmedIs ==
    ASSUME NEW t, NEW h, IsEndOf(t, h)
    PROVE  /\ IsEndOf(Trimmed(t), h)
           /\ Len(t) <= TrimAbove => Trimmed(t) = t
<1>1. PICK p \in Nat, q \in Nat : p = Len(t) /\ q = Len(h) /\ p <= q
  BY DEF IsEndOf, Texts
<1>2. t \in Seq(Characters) /\ h \in Seq(Characters)
  BY DEF IsEndOf, Texts
<1>3. TrimTo \in Nat /\ TrimAbove \in Nat /\ TrimTo >= 1 /\ TrimTo <= TrimAbove
  BY FilterAssumption
<1>4. CASE p > TrimAbove
  <2>1. p - TrimTo \in Nat /\ p - TrimTo <= p
    BY <1>1, <1>3, <1>4
  <2>2. PICK l \in Nat : l = p - TrimTo /\ l <= p
    BY <2>1, Zenon
  <2>3. PICK u : u = SubSeq(t, l + 1, p)
    OBVIOUS
  <2>4. u \in Seq(Characters) /\ Len(u) = p - l /\ \A i \in 1..(p - l) : u[i] = t[l + i]
    <3>1. \A i \in (l + 1)..p : t[i] \in Characters
      BY <1>1, <1>2
    <3>2. /\ u \in Seq(Characters) /\ Len(u) = IF l + 1 <= p THEN (p - (l + 1)) + 1 ELSE 0
          /\ \A i \in 1..((p - (l + 1)) + 1) : u[i] = t[((l + 1) + i) - 1]
      BY <2>3, <3>1, SubSeqProperties
    <3>3. (p - (l + 1)) + 1 = p - l /\ (IF l + 1 <= p THEN (p - (l + 1)) + 1 ELSE 0) = p - l
      BY <2>2
    <3>4. \A i \in 1..(p - l) : ((l + 1) + i) - 1 = l + i
      OBVIOUS
    <3> QED BY <3>2, <3>3, <3>4
  <2>5. ASSUME NEW i \in 1..(p - l) PROVE u[i] = h[(q - (p - l)) + i]
    <3>1. l + i \in 1..p
      BY <1>1, <2>2
    <3>2. PICK j \in 1..p : j = l + i
      BY <3>1, Zenon
    <3>3. t[j] = h[(q - p) + j]
      BY <1>1 DEF IsEndOf
    <3>4. i \in Int /\ p - l \in Int /\ q - (p - l) = (q - p) + l
      OBVIOUS
    <3>5. (q - p) + j = (q - (p - l)) + i
      BY <3>2, <3>4
    <3> QED BY <2>4, <3>2, <3>3, <3>5
  <2>6. Trimmed(t) = u
    BY <1>1, <1>4, <2>2, <2>3 DEF Trimmed
  <2>7. IsEndOf(u, h)
    BY <1>1, <1>2, <2>2, <2>4, <2>5 DEF IsEndOf, Texts
  <2> QED BY <1>1, <1>3, <1>4, <2>6, <2>7
<1>5. CASE ~(p > TrimAbove)
  BY <1>1, <1>5 DEF Trimmed
<1> QED BY <1>4, <1>5

\* What follows a text on the screen.
LEMMA JoinIs ==
    ASSUME NEW t \in Texts, NEW clean \in Texts, NEW c \in Characters
    PROVE  /\ t \o clean \in Texts /\ t \o <<>> = t
           /\ t \o Append(clean, c) = Append(t \o clean, c)
           /\ clean # <<>> => Front(clean) \in Texts /\ t \o Front(clean) = WithoutLast(t \o clean)
<1>1. t \o clean \in Texts /\ t \o <<>> = t
  BY ConcatProperties, ConcatEmptySeq DEF Texts
<1>2. t \o Append(clean, c) = Append(t \o clean, c)
  <2>1. Append(clean, c) = clean \o <<c>> /\ Append(t \o clean, c) = (t \o clean) \o <<c>> /\ <<c>> \in Seq(Characters)
    BY <1>1, AppendIsConcat DEF Texts
  <2> QED BY <2>1, ConcatAssociative DEF Texts
<1>3. ASSUME clean # <<>> PROVE Front(clean) \in Texts /\ t \o Front(clean) = WithoutLast(t \o clean)
  <2>1. PICK u : u = Front(clean)
    OBVIOUS
  <2>2. PICK p \in Nat, q \in Nat : p = Len(t) /\ q = Len(clean) /\ q >= 1
    BY <1>3 DEF Texts
  <2>3. u \in Seq(Characters) /\ Len(u) = q - 1 /\ \A i \in 1..(q - 1) : u[i] = clean[i]
    BY <1>3, <2>1, <2>2, WithoutLastIs DEF WithoutLast, Texts
  <2>4. /\ t \o clean \in Seq(Characters) /\ Len(t \o clean) = p + q
        /\ \A i \in 1..(p + q) : (t \o clean)[i] = IF i <= p THEN t[i] ELSE clean[i - p]
    BY <2>2, ConcatProperties DEF Texts
  <2>5. /\ t \o u \in Seq(Characters) /\ Len(t \o u) = (p + q) - 1
        /\ \A i \in 1..((p + q) - 1) : (t \o u)[i] = IF i <= p THEN t[i] ELSE u[i - p]
    <3>1. PICK r \in Nat : r = q - 1
      BY <2>2
    <3>2. Len(u) = r /\ p + r = (p + q) - 1
      BY <2>3, <3>1
    <3>3. /\ t \o u \in Seq(Characters) /\ Len(t \o u) = Len(t) + Len(u)
          /\ \A i \in 1..(Len(t) + Len(u)) : (t \o u)[i] = IF i <= Len(t) THEN t[i] ELSE u[i - Len(t)]
      <4>1. t \in Seq(Characters) /\ u \in Seq(Characters)
        BY <2>3 DEF Texts
      <4> QED BY <4>1, ConcatProperties, Zenon
    <3>4. Len(t) + Len(u) = (p + q) - 1 /\ Len(t) = p
      BY <2>2, <3>2, Zenon
    <3> QED BY <3>3, <3>4, Zenon
  <2>6. t \o clean # <<>>
    BY <2>2, <2>4
  <2>7. PICK w : w = WithoutLast(t \o clean)
    OBVIOUS
  <2>8. /\ w \in Seq(Characters) /\ Len(w) = (p + q) - 1
        /\ \A i \in 1..((p + q) - 1) : w[i] = (t \o clean)[i]
    BY <1>1, <2>4, <2>6, <2>7, WithoutLastIs DEF Texts
  <2>9. \A i \in 1..((p + q) - 1) : w[i] = (t \o u)[i]
    <3>1. ASSUME NEW i \in 1..((p + q) - 1) PROVE w[i] = (t \o u)[i]
      <4>1. i \in 1..(p + q) /\ i \in Nat /\ (~(i <= p) => i - p \in 1..(q - 1))
        BY <2>2
      <4>2. w[i] = (t \o clean)[i]
        BY <2>8
      <4>3. w[i] = IF i <= p THEN t[i] ELSE clean[i - p]
        BY <2>4, <4>1, <4>2
      <4>4. (t \o u)[i] = IF i <= p THEN t[i] ELSE u[i - p]
        BY <2>5
      <4> QED BY <2>3, <4>1, <4>3, <4>4
    <3> QED BY <3>1
  <2>10. w = t \o u
    <3>1. Len(w) = Len(t \o u) /\ \A i \in 1..Len(w) : w[i] = (t \o u)[i]
      BY <2>5, <2>8, <2>9
    <3> QED BY <2>5, <2>8, <3>1, SeqEqual
  <2> QED BY <2>1, <2>3, <2>7, <2>10 DEF Texts
<1> QED BY <1>1, <1>2, <1>3

\* The screen after one more character, which is outside of any sequence or not.
TypedOne(t, c, hidden) ==
    IF hidden THEN t ELSE IF c = "backspace" THEN WithoutLast(t) ELSE Append(t, c)

\* The screen after each character of a stream.
Shows(h, s, n) ==
    /\ h \in [0..n -> Texts] /\ h[0] = <<>>
    /\ \A k \in 1..n : h[k] = TypedOne(h[k - 1], s[k], k \in InSequence(s))

\* What a stream shows, as a function of the place reached in it.
LEMMA ScreenSteps ==
    ASSUME NEW n \in Nat, NEW s \in Seq(Characters), Len(s) = n
    PROVE  \E h : Shows(h, s, n) /\ h[n] = Screen(s)
<1>1. PICK b : b = <<>>
  OBVIOUS
<1>2. PICK hidden : hidden = InSequence(s)
  OBVIOUS
<1>3. PICK ids : ids = [i \in 1..n |-> i]
  OBVIOUS
<1>4. PICK F : F = [k \in 1..n |-> [t \in Texts |-> TypedOne(t, s[k], k \in hidden)]]
  OBVIOUS
<1>5. b \in Texts /\ F \in Steps(n, Texts)
  <2>1. ASSUME NEW k \in 1..n, NEW t \in Texts PROVE TypedOne(t, s[k], k \in hidden) \in Texts
    <3>1. s[k] \in Characters
      OBVIOUS
    <3>2. Append(t, s[k]) \in Texts
      BY <3>1 DEF Texts
    <3> QED BY <3>2, WithoutLastIs DEF TypedOne
  <2>2. b \in Texts
    BY <1>1 DEF Texts
  <2> QED BY <1>4, <2>1, <2>2 DEF Steps
<1>6. PICK last : last = (CHOOSE g : g = [u \in SUBSET (1..n) |->
              IF u = {} THEN b
              ELSE IF ids[Max(u)] \notin {i \in 1..n : i \notin hidden} THEN g[u \ {Max(u)}]
              ELSE IF s[ids[Max(u)]] = "backspace" THEN WithoutLast(g[u \ {Max(u)}])
              ELSE Append(g[u \ {Max(u)}], s[ids[Max(u)]])])[1..n]
  OBVIOUS
<1>7. Screen(s) = last
  <2>1. DOMAIN ids = 1..n
    BY <1>3
  <2> QED BY <1>1, <1>2, <1>3, <1>6, <2>1 DEF Screen, FoldLeft, MapThenFoldSet
<1>8. \A m \in 1..n : ids[m] = m /\ (m \notin {i \in 1..n : i \notin hidden} <=> m \in hidden)
  BY <1>3
<1>9. \A u \in SUBSET (1..n) : u # {} => Max(u) \in 1..n
  BY MaxIs
<1>10. PICK g : /\ g = [u \in SUBSET (1..n) |->
                        IF u = {} THEN b
                        ELSE IF ids[Max(u)] \notin {i \in 1..n : i \notin hidden} THEN g[u \ {Max(u)}]
                        ELSE IF s[ids[Max(u)]] = "backspace" THEN WithoutLast(g[u \ {Max(u)}])
                        ELSE Append(g[u \ {Max(u)}], s[ids[Max(u)]])]
                /\ g[1..n] = last
  <2>1. PICK g : FoldsSets(g, n, Texts, b, F)
    BY <1>5, SetFold
  <2>2. ASSUME NEW u \in SUBSET (1..n), u # {}
        PROVE g[u] = IF ids[Max(u)] \notin {i \in 1..n : i \notin hidden} THEN g[u \ {Max(u)}]
              ELSE IF s[ids[Max(u)]] = "backspace" THEN WithoutLast(g[u \ {Max(u)}])
              ELSE Append(g[u \ {Max(u)}], s[ids[Max(u)]])
    <3>1. Max(u) \in 1..n /\ g[u \ {Max(u)}] \in Texts /\ g[u] = F[Max(u)][g[u \ {Max(u)}]]
      BY <2>1, <2>2 DEF FoldsSets
    <3>2. g[u] = TypedOne(g[u \ {Max(u)}], s[Max(u)], Max(u) \in hidden)
      BY <1>4, <3>1
    <3> QED BY <1>8, <3>1, <3>2, Zenon DEF TypedOne
  <2>3. g[{}] = b /\ g = [u \in SUBSET (1..n) |-> g[u]]
    BY <2>1 DEF FoldsSets
  <2>4. g = [u \in SUBSET (1..n) |->
              IF u = {} THEN b
              ELSE IF ids[Max(u)] \notin {i \in 1..n : i \notin hidden} THEN g[u \ {Max(u)}]
              ELSE IF s[ids[Max(u)]] = "backspace" THEN WithoutLast(g[u \ {Max(u)}])
              ELSE Append(g[u \ {Max(u)}], s[ids[Max(u)]])]
    BY <2>2, <2>3
  <2> QED BY <1>6, <2>4
<1>11. AgreesWith(g, n, Texts, b, F)
  <2>1. ASSUME NEW u \in SUBSET (1..n), u # {}, g[u \ {Max(u)}] \in Texts
        PROVE  g[u] = F[Max(u)][g[u \ {Max(u)}]]
    <3>1. Max(u) \in 1..n
      BY <1>9, <2>1
    <3>2. g[u] = IF ids[Max(u)] \notin {i \in 1..n : i \notin hidden} THEN g[u \ {Max(u)}]
                 ELSE IF s[ids[Max(u)]] = "backspace" THEN WithoutLast(g[u \ {Max(u)}])
                 ELSE Append(g[u \ {Max(u)}], s[ids[Max(u)]])
      BY <1>10, <2>1
    <3>3. g[u] = TypedOne(g[u \ {Max(u)}], s[Max(u)], Max(u) \in hidden)
      BY <1>8, <3>1, <3>2, Zenon DEF TypedOne
    <3> QED BY <1>4, <2>1, <3>1, <3>3
  <2>2. g[{}] = b
    BY <1>10
  <2> QED BY <2>1, <2>2 DEF AgreesWith
<1>12. PICK h : Folds(h, n, Texts, b, F) /\ h[n] = g[1..n]
  BY <1>5, <1>11, FoldSteps
<1>13. h \in [0..n -> Texts] /\ h[0] = b
  BY <1>12 DEF Folds
<1>14. ASSUME NEW k \in 1..n PROVE h[k] = TypedOne(h[k - 1], s[k], k \in hidden)
  <2>1. h[k] = F[k][h[k - 1]] /\ h[k - 1] \in Texts
    BY <1>12, <1>13 DEF Folds
  <2> QED BY <1>4, <2>1
<1>15. h[n] = Screen(s)
  BY <1>7, <1>10, <1>12
<1> QED BY <1>1, <1>2, <1>13, <1>14, <1>15 DEF Shows

\* What the first k characters of a stream print.
Printed(s, k) == {i \in 1..k \ InSequence(s) : s[i] # "backspace"}

\* It is no longer than what was printed.
LEMMA ShownLength ==
    ASSUME NEW n \in Nat, NEW s \in Seq(Characters), Len(s) = n, NEW h, Shows(h, s, n), NEW k \in 0..n
    PROVE  Len(h[k]) <= Cardinality(Printed(s, n))
<1>1. \A j \in 0..n : IsFiniteSet(Printed(s, j)) /\ Cardinality(Printed(s, j)) \in Nat
  <2>1. ASSUME NEW j \in 0..n PROVE IsFiniteSet(Printed(s, j))
    <3>1. IsFiniteSet(1..j)
      BY FS_Interval
    <3>2. Printed(s, j) \in SUBSET (1..j)
      BY DEF Printed
    <3> QED BY <3>1, <3>2, FS_Subset
  <2> QED BY <2>1, FS_CardinalityType
<1>2. PICK S : S = {j \in 0..n : Len(h[j]) <= Cardinality(Printed(s, j))}
  OBVIOUS
<1>3. 0 \in S
  <2>1. Printed(s, 0) = {} /\ Len(h[0]) = 0
    BY DEF Printed, Shows
  <2>2. Len(h[0]) = Cardinality(Printed(s, 0)) /\ Len(h[0]) = 0
    BY <2>1, FS_EmptySet, Zenon
  <2>3. 0 \in 0..n
    OBVIOUS
  <2> QED BY <1>2, <2>2, <2>3
<1>4. ASSUME NEW j \in 1..n, j - 1 \in S PROVE j \in S
  <2>1. PICK m \in 0..n : m = j - 1
    OBVIOUS
  <2>2. PICK p \in Nat, q \in Nat, l \in Nat :
           p = Cardinality(Printed(s, m)) /\ q = Cardinality(Printed(s, j)) /\ l = Len(h[m])
    <3>1. h[m] \in Texts
      BY DEF Shows
    <3>2. Len(h[m]) \in Nat
      BY <3>1 DEF Texts
    <3> QED BY <1>1, <3>2
  <2>3. l <= p
    BY <1>2, <1>4, <2>1, <2>2
  <2>4. h[m] \in Texts /\ h[j] = TypedOne(h[m], s[j], j \in InSequence(s))
    BY <2>1 DEF Shows
  <2>5. CASE j \notin InSequence(s) /\ s[j] # "backspace"
    <3>1. Printed(s, j) = Printed(s, m) \cup {j} /\ j \notin Printed(s, m)
      BY <2>1, <2>5 DEF Printed
    <3>2. q = p + 1
      BY <1>1, <2>2, <3>1, FS_AddElement
    <3>3. s[j] \in Characters
      OBVIOUS
    <3>4. Len(h[j]) = l + 1
      BY <2>2, <2>4, <2>5, <3>3 DEF TypedOne, Texts
    <3>5. Len(h[j]) <= q
      BY <2>3, <3>2, <3>4
    <3> QED BY <1>2, <2>2, <3>5
  <2>6. CASE ~(j \notin InSequence(s) /\ s[j] # "backspace")
    <3>1. Printed(s, j) = Printed(s, m)
      BY <2>1, <2>6 DEF Printed
    <3>2. Len(h[j]) <= l
      <4>1. h[j] = h[m] \/ h[j] = WithoutLast(h[m])
        BY <2>4, <2>6 DEF TypedOne
      <4>2. Len(WithoutLast(h[m])) <= l
        <5>1. h[m] = <<>> => WithoutLast(h[m]) = h[m]
          BY <2>4, WithoutLastIs
        <5>2. h[m] # <<>> => Len(WithoutLast(h[m])) = l - 1
          BY <2>2, <2>4, WithoutLastIs
        <5> QED BY <2>2, <5>1, <5>2
      <4> QED BY <2>2, <4>1, <4>2
    <3>3. Len(h[j]) \in Nat
      <4>1. h[j] \in Texts
        BY DEF Shows
      <4> QED BY <4>1 DEF Texts
    <3> QED BY <1>2, <2>2, <2>3, <3>1, <3>2, <3>3
  <2> QED BY <2>5, <2>6
<1>5. Len(h[k]) <= Cardinality(Printed(s, k))
  BY <1>2, <1>3, <1>4, IntervalInd
<1>6. Cardinality(Printed(s, k)) <= Cardinality(Printed(s, n))
  <2>1. Printed(s, k) \in SUBSET Printed(s, n)
    BY DEF Printed
  <2> QED BY <1>1, <2>1, FS_Subset
<1>7. Len(h[k]) \in Nat
  <2>1. h[k] \in Texts
    BY DEF Shows
  <2> QED BY <2>1 DEF Texts
<1> QED BY <1>1, <1>5, <1>6, <1>7

Readers == [state : {0, 1, 2}, clean : Texts, text : Texts]

\* A reader that is after e characters of a stream.
IsAt(a, e, st, h, few) ==
    /\ a \in Readers /\ a.state = st[e]
    /\ IsEndOf(a.text \o a.clean, h[e])
    /\ few => a.text \o a.clean = h[e]

\* One character in append(): the text of the screen and the clean text of
\* this read together go on being the end of what the stream shows.
LEMMA TurnedIs ==
    ASSUME NEW n \in Nat, NEW s \in Seq(Characters), Len(s) = n, NEW st, States(st, s, n),
           NEW h, Shows(h, s, n), NEW few, NEW k \in 1..n, NEW a, IsAt(a, k - 1, st, h, few)
    PROVE  IsAt(Turned(a, s[k]), k, st, h, few)
<1>1. PICK c \in Characters : c = s[k]
  OBVIOUS
<1>2. PICK q \in {0, 1, 2}, clean \in Texts, text \in Texts : a = [state |-> q, clean |-> clean, text |-> text]
  BY DEF IsAt, Readers
<1>3. /\ q = st[k - 1] /\ IsEndOf(text \o clean, h[k - 1])
      /\ few => text \o clean = h[k - 1]
  BY <1>2 DEF IsAt
<1>4. st[k] = NextState(q, c)
  BY <1>1, <1>3 DEF States
<1>5. h[k - 1] \in Texts /\ h[k] = TypedOne(h[k - 1], c, q # 0 \/ c = "escape")
  <2>1. k \in InSequence(s) <=> q # 0 \/ c = "escape"
    BY <1>1, <1>3, InSequenceIs
  <2>2. h[k - 1] \in Texts /\ h[k] = TypedOne(h[k - 1], s[k], k \in InSequence(s))
    BY DEF Shows
  <2> QED BY <1>1, <2>1, <2>2 DEF TypedOne
<1>6. PICK b : b = Turned(a, c)
  OBVIOUS
<1>7. ASSUME NEW p \in {0, 1, 2}, b = [a EXCEPT !.state = p], p = st[k], h[k] = h[k - 1]
      PROVE  IsAt(b, k, st, h, few)
  <2>1. b = [state |-> p, clean |-> clean, text |-> text]
    BY <1>2, <1>7
  <2> QED BY <1>3, <1>7, <2>1 DEF IsAt, Readers
<1>8. ASSUME NEW t \in Texts, NEW u \in Texts, b = [state |-> 0, clean |-> t, text |-> u], st[k] = 0,
             IsEndOf(u \o t, h[k]), few => u \o t = h[k]
      PROVE  IsAt(b, k, st, h, few)
  BY <1>8 DEF IsAt, Readers
<1>9. CASE q = 1
  <2>1. b = [a EXCEPT !.state = IF c = "bracket" THEN 2 ELSE 0]
    BY <1>2, <1>6, <1>9 DEF Turned
  <2>2. h[k] = h[k - 1] /\ st[k] = IF c = "bracket" THEN 2 ELSE 0
    BY <1>4, <1>5, <1>9 DEF NextState, TypedOne
  <2> QED BY <1>1, <1>6, <1>7, <2>1, <2>2
<1>10. CASE q = 2
  <2>1. b = [a EXCEPT !.state = IF EndsSequence(c) THEN 0 ELSE 2]
    BY <1>2, <1>6, <1>10 DEF Turned
  <2>2. h[k] = h[k - 1] /\ st[k] = IF EndsSequence(c) THEN 0 ELSE 2
    BY <1>4, <1>5, <1>10 DEF NextState, TypedOne
  <2> QED BY <1>1, <1>6, <1>7, <2>1, <2>2
<1>11. CASE q = 0 /\ c = "escape"
  <2>1. b = [a EXCEPT !.state = 1]
    BY <1>2, <1>6, <1>11 DEF Turned
  <2>2. h[k] = h[k - 1] /\ st[k] = 1
    BY <1>4, <1>5, <1>11 DEF NextState, TypedOne
  <2> QED BY <1>1, <1>6, <1>7, <2>1, <2>2
<1>12. CASE q = 0 /\ c = "backspace"
  <2>1. st[k] = 0 /\ h[k] = WithoutLast(h[k - 1])
    BY <1>4, <1>5, <1>12 DEF NextState, TypedOne
  <2>2. IsEndOf(WithoutLast(text \o clean), h[k]) /\ (few => WithoutLast(text \o clean) = h[k])
    BY <1>3, <2>1, EndsPop
  <2>3. CASE clean # <<>>
    <3>1. b = [a EXCEPT !.clean = Front(clean)]
      BY <1>2, <1>6, <1>12, <2>3 DEF Turned
    <3>2. b = [state |-> 0, clean |-> Front(clean), text |-> text]
      BY <1>2, <1>12, <3>1
    <3>3. Front(clean) \in Texts /\ text \o Front(clean) = WithoutLast(text \o clean)
      BY <2>3, JoinIs
    <3> QED BY <1>1, <1>6, <1>8, <2>1, <2>2, <3>2, <3>3
  <2>4. CASE clean = <<>>
    <3>1. b = [a EXCEPT !.text = WithoutLast(text)]
      BY <1>2, <1>6, <1>12, <2>4 DEF Turned
    <3>2. b = [state |-> 0, clean |-> <<>>, text |-> WithoutLast(text)]
      BY <1>2, <1>12, <2>4, <3>1
    <3>3. WithoutLast(text) \in Texts /\ <<>> \in Texts
      BY WithoutLastIs DEF Texts
    <3>4. WithoutLast(text) \o <<>> = WithoutLast(text) /\ text \o clean = text
      BY <2>4, <3>3, JoinIs
    <3> QED BY <1>1, <1>6, <1>8, <2>1, <2>2, <3>2, <3>3, <3>4
  <2> QED BY <2>3, <2>4
<1>13. CASE q = 0 /\ c # "escape" /\ c # "backspace"
  <2>1. st[k] = 0 /\ h[k] = Append(h[k - 1], c)
    BY <1>4, <1>5, <1>13 DEF NextState, TypedOne
  <2>2. IsEndOf(Append(text \o clean, c), h[k]) /\ (few => Append(text \o clean, c) = h[k])
    BY <1>3, <2>1, EndsPush
  <2>3. b = [a EXCEPT !.clean = Append(clean, c)]
    BY <1>2, <1>6, <1>13 DEF Turned
  <2>4. b = [state |-> 0, clean |-> Append(clean, c), text |-> text]
    BY <1>2, <1>13, <2>3
  <2>5. Append(clean, c) \in Texts
    BY DEF Texts
  <2>6. text \o Append(clean, c) = Append(text \o clean, c)
    BY JoinIs
  <2> QED BY <1>1, <1>6, <1>8, <2>1, <2>2, <2>4, <2>5, <2>6
<1> QED BY <1>9, <1>10, <1>11, <1>12, <1>13

\* One character in append() leaves a state, a clean text and a text.
LEMMA TurnedReads ==
    ASSUME NEW a \in Readers, NEW c \in Characters
    PROVE  Turned(a, c) \in Readers
<1>1. PICK q \in {0, 1, 2}, clean \in Texts, text \in Texts : a = [state |-> q, clean |-> clean, text |-> text]
  BY DEF Readers
<1>2. /\ WithoutLast(text) \in Texts /\ Append(clean, c) \in Texts
      /\ clean # <<>> => Front(clean) \in Texts
  <2>1. Append(clean, c) \in Texts
    BY DEF Texts
  <2> QED BY <2>1, WithoutLastIs, JoinIs
<1>3. PICK b : b = Turned(a, c)
  OBVIOUS
<1>4. \E p \in {0, 1, 2}, t \in Texts, u \in Texts : b = [state |-> p, clean |-> t, text |-> u]
  <2>1. CASE q = 1
    <3>1. b = [state |-> IF c = "bracket" THEN 2 ELSE 0, clean |-> clean, text |-> text]
      BY <1>1, <1>3, <2>1 DEF Turned
    <3> QED BY <3>1
  <2>2. CASE q = 2
    <3>1. b = [state |-> IF EndsSequence(c) THEN 0 ELSE 2, clean |-> clean, text |-> text]
      BY <1>1, <1>3, <2>2 DEF Turned
    <3> QED BY <3>1
  <2>3. CASE q = 0 /\ c = "escape"
    <3>1. b = [state |-> 1, clean |-> clean, text |-> text]
      BY <1>1, <1>3, <2>3 DEF Turned
    <3> QED BY <3>1
  <2>4. CASE q = 0 /\ c = "backspace" /\ clean # <<>>
    <3>1. b = [state |-> 0, clean |-> Front(clean), text |-> text]
      BY <1>1, <1>3, <2>4 DEF Turned
    <3> QED BY <1>2, <2>4, <3>1
  <2>5. CASE q = 0 /\ c = "backspace" /\ clean = <<>>
    <3>1. b = [state |-> 0, clean |-> clean, text |-> WithoutLast(text)]
      <4>1. b = [a EXCEPT !.text = WithoutLast(text)]
        BY <1>1, <1>3, <2>5 DEF Turned
      <4> QED BY <1>1, <2>5, <4>1
    <3> QED BY <1>2, <3>1
  <2>6. CASE q = 0 /\ c # "escape" /\ c # "backspace"
    <3>1. b = [a EXCEPT !.clean = Append(clean, c)]
      BY <1>1, <1>3, <2>6 DEF Turned
    <3>2. PICK t \in Texts : t = Append(clean, c)
      BY <1>2
    <3>3. b = [state |-> 0, clean |-> t, text |-> text]
      BY <1>1, <2>6, <3>1, <3>2
    <3> QED BY <3>3
  <2> QED BY <2>1, <2>2, <2>3, <2>4, <2>5, <2>6
<1> QED BY <1>3, <1>4 DEF Readers

\* The turns of append() over a read.
Turns(f, a, read, m) ==
    /\ f \in [0..m -> Readers] /\ f[0] = a /\ f[m] = FoldLeft(Turned, a, read)
    /\ \A k \in 1..m : f[k] = Turned(f[k - 1], read[k])

\* A read, character by character.
LEMMA TurnsExist ==
    ASSUME NEW m \in Nat, NEW read \in Seq(Characters), Len(read) = m, NEW a \in Readers
    PROVE  \E f : Turns(f, a, read, m)
<1>1. PICK F : F = [k \in 1..m |-> [v \in Readers |-> Turned(v, read[k])]]
  OBVIOUS
<1>2. F \in Steps(m, Readers)
  <2>1. \A k \in 1..m : read[k] \in Characters
    OBVIOUS
  <2>2. \A k \in 1..m : \A v \in Readers : Turned(v, read[k]) \in Readers
    BY <2>1, TurnedReads
  <2> QED BY <1>1, <2>2 DEF Steps
<1>3. PICK last : last = (CHOOSE g : g = [u \in SUBSET (1..m) |->
              IF u = {} THEN a ELSE Turned(g[u \ {Max(u)}], read[Max(u)])])[1..m]
  OBVIOUS
<1>4. FoldLeft(Turned, a, read) = last
  <2>1. DOMAIN read = 1..m
    OBVIOUS
  <2> QED BY <1>3, <2>1 DEF FoldLeft, MapThenFoldSet
<1>5. PICK g : /\ g = [u \in SUBSET (1..m) |->
                        IF u = {} THEN a ELSE Turned(g[u \ {Max(u)}], read[Max(u)])]
               /\ g[1..m] = last
  <2>1. PICK g : FoldsSets(g, m, Readers, a, F)
    BY <1>2, SetFold
  <2>2. ASSUME NEW u \in SUBSET (1..m), u # {}
        PROVE  g[u] = Turned(g[u \ {Max(u)}], read[Max(u)])
    <3>1. Max(u) \in 1..m /\ g[u \ {Max(u)}] \in Readers /\ g[u] = F[Max(u)][g[u \ {Max(u)}]]
      BY <2>1, <2>2 DEF FoldsSets
    <3> QED BY <1>1, <3>1
  <2>3. g[{}] = a /\ g = [u \in SUBSET (1..m) |-> g[u]]
    BY <2>1 DEF FoldsSets
  <2>4. g = [u \in SUBSET (1..m) |->
                        IF u = {} THEN a ELSE Turned(g[u \ {Max(u)}], read[Max(u)])]
    BY <2>2, <2>3
  <2> QED BY <1>3, <2>4
<1>6. AgreesWith(g, m, Readers, a, F)
  <2>1. ASSUME NEW u \in SUBSET (1..m), u # {}, Max(u) \in 1..m, g[u \ {Max(u)}] \in Readers
        PROVE  g[u] = F[Max(u)][g[u \ {Max(u)}]]
    <3>1. g[u] = Turned(g[u \ {Max(u)}], read[Max(u)])
      BY <1>5, <2>1
    <3> QED BY <1>1, <2>1, <3>1
  <2>2. g[{}] = a
    BY <1>5
  <2> QED BY <2>1, <2>2 DEF AgreesWith
<1>7. PICK f : Folds(f, m, Readers, a, F) /\ f[m] = g[1..m]
  BY <1>2, <1>6, FoldSteps
<1>8. f \in [0..m -> Readers] /\ f[0] = a
  BY <1>7 DEF Folds
<1>9. ASSUME NEW k \in 1..m PROVE f[k] = Turned(f[k - 1], read[k])
  <2>1. f[k] = F[k][f[k - 1]] /\ f[k - 1] \in Readers
    BY <1>7, <1>8 DEF Folds
  <2> QED BY <1>1, <2>1
<1>10. f[m] = FoldLeft(Turned, a, read)
  BY <1>4, <1>5, <1>7
<1> QED BY <1>8, <1>9, <1>10 DEF Turns

\* A read leaves a state, a clean text and a text.
LEMMA AppendedReads ==
    ASSUME NEW a \in Readers, NEW read \in Seq(Characters)
    PROVE  Appended(a, read) \in Readers
<1>1. PICK m \in Nat : m = Len(read)
  OBVIOUS
<1>2. PICK a0 \in Readers : a0 = [a EXCEPT !.clean = <<>>]
  <2>1. <<>> \in Texts
    BY DEF Texts
  <2> QED BY <2>1 DEF Readers
<1>3. PICK b \in Readers : b = FoldLeft(Turned, a0, read)
  <2>1. PICK f : Turns(f, a0, read, m)
    BY <1>1, TurnsExist
  <2>2. m \in 0..m
    BY <1>1
  <2> QED BY <2>1, <2>2 DEF Turns
<1>4. Appended(a, read) = [b EXCEPT !.text = Trimmed(b.text \o b.clean)]
  BY <1>2, <1>3 DEF Appended
<1>5. Trimmed(b.text \o b.clean) \in Texts
  <2>1. PICK t \in Texts : t = b.text \o b.clean
    BY ConcatProperties DEF Readers, Texts
  <2>2. IsEndOf(t, t)
    <3>1. Len(t) \in Nat
      BY DEF Texts
    <3> QED BY <3>1 DEF IsEndOf
  <2>3. IsEndOf(Trimmed(t), t)
    BY <2>2, TrimmedIs
  <2> QED BY <2>1, <2>3 DEF IsEndOf
<1> QED BY <1>4, <1>5 DEF Readers

\* A screen that shows the first e characters of a stream.
IsShown(a, e, st, h, few) ==
    /\ a \in Readers /\ a.state = st[e]
    /\ IsEndOf(a.text, h[e])
    /\ few => a.text = h[e]

\* A read of the characters from lo to hi brings the screen from lo to hi.
LEMMA AppendedIs ==
    ASSUME NEW n \in Nat, NEW s \in Seq(Characters), Len(s) = n, NEW st, States(st, s, n),
           NEW h, Shows(h, s, n), NEW few, few => \A k \in 0..n : Len(h[k]) <= TrimAbove,
           NEW lo \in 0..n, NEW hi \in 0..n, lo <= hi,
           NEW a, IsShown(a, lo, st, h, few),
           NEW read \in Seq(Characters), Len(read) = hi - lo, \A k \in 1..(hi - lo) : read[k] = s[lo + k]
    PROVE  IsShown(Appended(a, read), hi, st, h, few)
<1>1. PICK m \in Nat : m = hi - lo /\ lo + m = hi
  OBVIOUS
<1>2. PICK a0 \in Readers : a0 = [a EXCEPT !.clean = <<>>]
  <2>1. <<>> \in Texts
    BY DEF Texts
  <2> QED BY <2>1 DEF Readers, IsShown
<1>3. PICK f : Turns(f, a0, read, m)
  BY <1>1, TurnsExist
<1>4. PICK S : S = {k \in 0..m : IsAt(f[k], lo + k, st, h, few)}
  OBVIOUS
<1>5. 0 \in S
  <2>1. a0.text = a.text /\ a0.clean = <<>> /\ a0.state = a.state /\ a.text \in Texts
    BY <1>2 DEF IsShown, Readers
  <2>2. a0.text \o a0.clean = a.text
    <3>1. a.text \o <<>> = a.text
      BY <2>1, ConcatEmptySeq DEF Texts
    <3> QED BY <2>1, <3>1
  <2>3. f[0] = a0 /\ lo + 0 = lo /\ 0 \in 0..m
    BY <1>3 DEF Turns
  <2>4. IsAt(a0, lo, st, h, few)
    BY <1>2, <2>1, <2>2 DEF IsAt, IsShown
  <2> QED BY <1>4, <2>3, <2>4
<1>6. ASSUME NEW k \in 1..m, k - 1 \in S PROVE k \in S
  <2>1. PICK i \in 1..n : i = lo + k /\ i - 1 = lo + (k - 1)
    <3>1. lo \in Nat /\ hi \in Nat /\ k \in Nat /\ 1 <= k /\ k <= m /\ hi <= n
      BY <1>1
    <3>2. lo + k \in 1..n /\ (lo + k) - 1 = lo + (k - 1)
      BY <1>1, <3>1
    <3> QED BY <3>2, Zenon
  <2>2. IsAt(f[k - 1], i - 1, st, h, few)
    BY <1>4, <1>6, <2>1
  <2>3. IsAt(Turned(f[k - 1], s[i]), i, st, h, few)
    BY <2>2, TurnedIs
  <2>4. read[k] = s[i]
    BY <1>1, <2>1
  <2>5. f[k] = Turned(f[k - 1], s[i])
    BY <1>3, <2>4 DEF Turns
  <2> QED BY <1>4, <2>1, <2>3, <2>5
<1>7. m \in S
  <2>1. 0..m \subseteq S
    BY <1>5, <1>6, IntervalInd, Zenon
  <2>2. m \in 0..m
    BY <1>1
  <2> QED BY <2>1, <2>2
<1>8. PICK b : b = f[m]
  OBVIOUS
<1>9. IsAt(b, hi, st, h, few)
  BY <1>1, <1>4, <1>7, <1>8
<1>10. Appended(a, read) = [b EXCEPT !.text = Trimmed(b.text \o b.clean)]
  BY <1>2, <1>3, <1>8 DEF Appended, Turns
<1>11. PICK t : t = b.text \o b.clean
  OBVIOUS
<1>12. IsEndOf(t, h[hi]) /\ (few => t = h[hi]) /\ b \in Readers /\ b.state = st[hi]
  BY <1>9, <1>11 DEF IsAt
<1>13. IsEndOf(Trimmed(t), h[hi])
  BY <1>12, TrimmedIs
<1>14. few => Trimmed(t) = h[hi]
  <2>1. few => Len(h[hi]) <= TrimAbove
    OBVIOUS
  <2>2. Len(t) <= TrimAbove => Trimmed(t) = t
    BY <1>12, TrimmedIs
  <2> QED BY <1>12, <2>1, <2>2
<1>15. Trimmed(t) \in Texts
  BY <1>13 DEF IsEndOf
<1>16. PICK d : d = Appended(a, read)
  OBVIOUS
<1>17. d \in Readers /\ d.text = Trimmed(t) /\ d.state = b.state
  BY <1>10, <1>11, <1>12, <1>15, <1>16 DEF Readers
<1> QED BY <1>12, <1>13, <1>14, <1>16, <1>17 DEF IsShown

\* Reads of a stream of n characters: each goes on where the one before ended.
Continues(reads, place, s, n, m) ==
    /\ place \in [0..m -> 0..n] /\ place[0] = 0 /\ place[m] = n
    /\ \A k \in 1..m :
          /\ reads[k] \in Seq(Characters) /\ place[k - 1] <= place[k]
          /\ Len(reads[k]) = place[k] - place[k - 1]
          /\ \A i \in 1..(place[k] - place[k - 1]) : reads[k][i] = s[place[k - 1] + i]

\* The characters of one read.
LEMMA ReadIs ==
    ASSUME NEW n \in Nat, NEW s \in Seq(Characters), Len(s) = n, NEW lo \in 0..n, NEW hi \in 0..n, lo < hi
    PROVE  /\ SubSeq(s, lo + 1, hi) \in Seq(Characters) /\ Len(SubSeq(s, lo + 1, hi)) = hi - lo
           /\ \A i \in 1..(hi - lo) : SubSeq(s, lo + 1, hi)[i] = s[lo + i]
<1>1. \A i \in (lo + 1)..hi : s[i] \in Characters
  OBVIOUS
<1>2. PICK u : u = SubSeq(s, lo + 1, hi)
  OBVIOUS
<1>3. /\ u \in Seq(Characters) /\ Len(u) = IF lo + 1 <= hi THEN (hi - (lo + 1)) + 1 ELSE 0
      /\ \A i \in 1..((hi - (lo + 1)) + 1) : u[i] = s[((lo + 1) + i) - 1]
  BY <1>1, <1>2, SubSeqProperties
<1>4. (hi - (lo + 1)) + 1 = hi - lo /\ (IF lo + 1 <= hi THEN (hi - (lo + 1)) + 1 ELSE 0) = hi - lo
  OBVIOUS
<1>5. \A i \in 1..(hi - lo) : ((lo + 1) + i) - 1 = lo + i
  OBVIOUS
<1> QED BY <1>2, <1>3, <1>4, <1>5

\* The reads of a cutting follow each other from the start to the end.
LEMMA CutReads ==
    ASSUME NEW s \in Seq(Characters), Len(s) = StreamLen, NEW ends \in Cuttings
    PROVE  \E m \in Nat : \E place :
              Reads(s, ends) = [k \in 1..m |-> Reads(s, ends)[k]] /\ Continues(Reads(s, ends), place, s, StreamLen, m)
<1>1. PICK n \in Nat : n = StreamLen
  BY FilterAssumption
<1>2. PICK m \in 1..n : ends \in [1..m -> 1..n]
  BY <1>1 DEF Cuttings
<1>3. m \in Nat /\ 1 <= m /\ Len(ends) = m
  BY <1>2
<1>4. ends[m] = n /\ \A k \in 2..m : ends[k - 1] < ends[k]
  BY <1>1, <1>3 DEF Cuttings
<1>5. PICK place : place = [k \in 0..m |-> IF k = 0 THEN 0 ELSE ends[k]]
  OBVIOUS
<1>6. place \in [0..m -> 0..n] /\ place[0] = 0 /\ place[m] = n
  <2>1. \A k \in 0..m : k # 0 => k \in 1..m
    OBVIOUS
  <2>2. 0 \in 0..n /\ 0 \in 0..m /\ m \in 0..m /\ m # 0 /\ 1..n \subseteq 0..n
    BY <1>3
  <2> QED BY <1>2, <1>4, <1>5, <2>1, <2>2
<1>7. ASSUME NEW k \in 1..m
      PROVE  \E lo \in 0..n, hi \in 0..n : lo < hi /\ lo = place[k - 1] /\ hi = place[k]
                                            /\ Reads(s, ends)[k] = SubSeq(s, lo + 1, hi)
  <2>1. PICK hi \in 0..n : hi = place[k] /\ hi = ends[k] /\ hi >= 1
    <3>1. k \in 0..m /\ k # 0 /\ ends[k] \in 1..n
      BY <1>2
    <3> QED BY <1>5, <3>1
  <2>2. Reads(s, ends)[k] = SubSeq(s, IF k = 1 THEN 1 ELSE ends[k - 1] + 1, ends[k])
    BY <1>3 DEF Reads
  <2>3. CASE k = 1
    <3>1. PICK lo \in 0..n : lo = 0 /\ lo = place[k - 1] /\ lo + 1 = 1
      <4>1. 0 \in 0..n /\ k - 1 = 0 /\ 0 + 1 = 1
        BY <2>3
      <4> QED BY <1>6, <4>1
    <3>2. Reads(s, ends)[k] = SubSeq(s, lo + 1, hi)
      BY <2>1, <2>2, <2>3, <3>1
    <3>3. lo < hi
      BY <2>1, <3>1
    <3> QED BY <2>1, <3>1, <3>2, <3>3
  <2>4. CASE k # 1
    <3>1. PICK j \in 1..m : j = k - 1 /\ j \in 0..m /\ j # 0 /\ k \in 2..m
      BY <2>4
    <3>2. PICK lo \in 0..n : lo = place[k - 1] /\ lo = ends[k - 1]
      BY <1>2, <1>5, <3>1
    <3>3. lo < hi
      BY <1>4, <2>1, <3>1, <3>2
    <3>4. Reads(s, ends)[k] = SubSeq(s, lo + 1, hi)
      BY <2>1, <2>2, <2>4, <3>2
    <3> QED BY <2>1, <3>2, <3>3, <3>4
  <2> QED BY <2>3, <2>4
<1>8. ASSUME NEW k \in 1..m
      PROVE  /\ Reads(s, ends)[k] \in Seq(Characters) /\ place[k - 1] <= place[k]
             /\ Len(Reads(s, ends)[k]) = place[k] - place[k - 1]
             /\ \A i \in 1..(place[k] - place[k - 1]) : Reads(s, ends)[k][i] = s[place[k - 1] + i]
  <2>1. PICK lo \in 0..n, hi \in 0..n : lo < hi /\ lo = place[k - 1] /\ hi = place[k]
                                            /\ Reads(s, ends)[k] = SubSeq(s, lo + 1, hi)
    BY <1>7
  <2>2. /\ SubSeq(s, lo + 1, hi) \in Seq(Characters) /\ Len(SubSeq(s, lo + 1, hi)) = hi - lo
        /\ \A i \in 1..(hi - lo) : SubSeq(s, lo + 1, hi)[i] = s[lo + i]
    <3>1. Len(s) = n
      BY <1>1
    <3>2. lo < hi
      BY <2>1
    <3> QED BY <3>1, <3>2, ReadIs
  <2>3. lo <= hi
    BY <2>1
  <2> QED BY <2>1, <2>2, <2>3, Zenon
<1>9. Continues(Reads(s, ends), place, s, n, m)
  BY <1>6, <1>8 DEF Continues
<1>10. Reads(s, ends) = [k \in 1..m |-> Reads(s, ends)[k]]
  BY <1>3 DEF Reads
<1> QED BY <1>1, <1>3, <1>9, <1>10

\* The screen after each of some reads.
Screens(f, reads, m) ==
    /\ f \in [0..m -> Readers] /\ f[0] = EmptyScreen /\ f[m] = FoldLeft(Appended, EmptyScreen, reads)
    /\ \A k \in 1..m : f[k] = Appended(f[k - 1], reads[k])

\* A stream, read by read.
LEMMA ScreensExist ==
    ASSUME NEW m \in Nat, NEW reads, reads = [k \in 1..m |-> reads[k]],
           \A k \in 1..m : reads[k] \in Seq(Characters)
    PROVE  \E f : Screens(f, reads, m)
<1>1. PICK F : F = [k \in 1..m |-> [v \in Readers |-> Appended(v, reads[k])]]
  OBVIOUS
<1>2. F \in Steps(m, Readers)
  <2>1. \A k \in 1..m : \A v \in Readers : Appended(v, reads[k]) \in Readers
    BY AppendedReads
  <2> QED BY <1>1, <2>1 DEF Steps
<1>3. PICK a \in Readers : a = EmptyScreen
  <2>1. <<>> \in Texts
    BY DEF Texts
  <2> QED BY <2>1 DEF Readers, EmptyScreen
<1>4. PICK last : last = (CHOOSE g : g = [u \in SUBSET (1..m) |->
              IF u = {} THEN a ELSE Appended(g[u \ {Max(u)}], reads[Max(u)])])[1..m]
  OBVIOUS
<1>5. FoldLeft(Appended, a, reads) = last
  <2>1. DOMAIN reads = 1..m
    OBVIOUS
  <2> QED BY <1>4, <2>1 DEF FoldLeft, MapThenFoldSet
<1>6. PICK g : /\ g = [u \in SUBSET (1..m) |->
                        IF u = {} THEN a ELSE Appended(g[u \ {Max(u)}], reads[Max(u)])]
               /\ g[1..m] = last
  <2>1. PICK g : FoldsSets(g, m, Readers, a, F)
    BY <1>2, SetFold
  <2>2. ASSUME NEW u \in SUBSET (1..m), u # {}
        PROVE  g[u] = Appended(g[u \ {Max(u)}], reads[Max(u)])
    <3>1. Max(u) \in 1..m /\ g[u \ {Max(u)}] \in Readers /\ g[u] = F[Max(u)][g[u \ {Max(u)}]]
      BY <2>1, <2>2 DEF FoldsSets
    <3> QED BY <1>1, <3>1
  <2>3. g[{}] = a /\ g = [u \in SUBSET (1..m) |-> g[u]]
    BY <2>1 DEF FoldsSets
  <2>4. g = [u \in SUBSET (1..m) |->
                        IF u = {} THEN a ELSE Appended(g[u \ {Max(u)}], reads[Max(u)])]
    BY <2>2, <2>3
  <2> QED BY <1>4, <2>4
<1>7. AgreesWith(g, m, Readers, a, F)
  <2>1. ASSUME NEW u \in SUBSET (1..m), u # {}, Max(u) \in 1..m, g[u \ {Max(u)}] \in Readers
        PROVE  g[u] = F[Max(u)][g[u \ {Max(u)}]]
    <3>1. g[u] = Appended(g[u \ {Max(u)}], reads[Max(u)])
      BY <1>6, <2>1
    <3> QED BY <1>1, <2>1, <3>1
  <2>2. g[{}] = a
    BY <1>6
  <2> QED BY <2>1, <2>2 DEF AgreesWith
<1>8. PICK f : Folds(f, m, Readers, a, F) /\ f[m] = g[1..m]
  BY <1>2, <1>7, FoldSteps
<1>9. f \in [0..m -> Readers] /\ f[0] = a
  BY <1>8 DEF Folds
<1>10. ASSUME NEW k \in 1..m PROVE f[k] = Appended(f[k - 1], reads[k])
  <2>1. f[k] = F[k][f[k - 1]] /\ f[k - 1] \in Readers
    BY <1>8, <1>9 DEF Folds
  <2> QED BY <1>1, <2>1
<1>11. f[m] = FoldLeft(Appended, a, reads)
  BY <1>5, <1>6, <1>8
<1> QED BY <1>3, <1>9, <1>10, <1>11 DEF Screens

\* After the last read the screen shows the whole stream, or the end of it.
LEMMA ScreensShow ==
    ASSUME NEW n \in Nat, NEW s \in Seq(Characters), Len(s) = n, NEW st, States(st, s, n),
           NEW h, Shows(h, s, n), NEW few, few => \A k \in 0..n : Len(h[k]) <= TrimAbove,
           NEW m \in Nat, NEW reads, NEW place, Continues(reads, place, s, n, m),
           NEW f, Screens(f, reads, m)
    PROVE  IsShown(f[m], n, st, h, few)
<1>1. PICK S : S = {k \in 0..m : IsShown(f[k], place[k], st, h, few)}
  OBVIOUS
<1>2. 0 \in S
  <2>1. /\ EmptyScreen \in Readers /\ EmptyScreen.state = 0 /\ EmptyScreen.text = <<>>
    <3>1. <<>> \in Texts
      BY DEF Texts
    <3> QED BY <3>1 DEF Readers, EmptyScreen
  <2>2. st[0] = 0 /\ h[0] = <<>>
    BY DEF States, Shows
  <2>3. IsEndOf(<<>>, <<>>)
    BY DEF IsEndOf, Texts
  <2>4. IsShown(EmptyScreen, 0, st, h, few)
    <3>1. IsEndOf(EmptyScreen.text, h[0]) /\ EmptyScreen.state = st[0] /\ EmptyScreen.text = h[0]
      BY <2>1, <2>2, <2>3, Zenon
    <3> QED BY <2>1, <3>1, Zenon DEF IsShown
  <2>5. f[0] = EmptyScreen /\ place[0] = 0 /\ 0 \in 0..m
    BY DEF Screens, Continues
  <2>6. IsShown(f[0], place[0], st, h, few)
    BY <2>4, <2>5, Zenon
  <2> QED BY <1>1, <2>5, <2>6
<1>3. ASSUME NEW k \in 1..m, k - 1 \in S PROVE k \in S
  <2>1. PICK lo \in 0..n, hi \in 0..n : lo = place[k - 1] /\ hi = place[k]
    <3>1. place \in [0..m -> 0..n]
      BY DEF Continues
    <3>2. k - 1 \in 0..m /\ k \in 0..m
      OBVIOUS
    <3> QED BY <3>1, <3>2
  <2>2. IsShown(f[k - 1], lo, st, h, few)
    BY <1>1, <1>3, <2>1
  <2>3. PICK read : read = reads[k]
    OBVIOUS
  <2>4. /\ read \in Seq(Characters) /\ lo <= hi /\ Len(read) = hi - lo
        /\ \A i \in 1..(hi - lo) : read[i] = s[lo + i]
    BY <2>1, <2>3, Zenon DEF Continues
  <2>5. IsShown(Appended(f[k - 1], read), hi, st, h, few)
    BY <2>2, <2>4, AppendedIs
  <2>6. f[k] = Appended(f[k - 1], read)
    BY <2>3 DEF Screens
  <2>7. k \in 0..m
    OBVIOUS
  <2> QED BY <1>1, <2>1, <2>5, <2>6, <2>7
<1>4. m \in S
  <2>1. 0..m \subseteq S
    BY <1>2, <1>3, IntervalInd, Zenon
  <2>2. m \in 0..m
    OBVIOUS
  <2> QED BY <2>1, <2>2
<1>5. place[m] = n
  BY DEF Continues
<1> QED BY <1>1, <1>4, <1>5

\* The formula itself, stream by stream and cut by cut.
LEMMA CutsAreIgnored == FilterIgnoresCuts
<1> SUFFICES ASSUME NEW s \in [1..StreamLen -> Characters], NEW ends \in Cuttings
             PROVE  LET full == Screen(s)
                        printed == {i \in 1..StreamLen \ InSequence(s) : s[i] # "backspace"}
                        text == FoldLeft(Appended, EmptyScreen, Reads(s, ends)).text
                    IN  /\ IsSuffix(text, full)
                        /\ Cardinality(printed) <= TrimAbove => text = full
  BY Zenon DEF FilterIgnoresCuts
<1>1. PICK n \in Nat : n = StreamLen
  BY FilterAssumption
<1>2. s \in Seq(Characters) /\ Len(s) = n
  BY <1>1
<1>3. PICK st : States(st, s, n)
  BY StatesExist
<1>4. PICK h : Shows(h, s, n) /\ h[n] = Screen(s)
  BY <1>2, ScreenSteps
<1>5. PICK few : few = (Cardinality(Printed(s, n)) <= TrimAbove)
  OBVIOUS
<1>6. few => \A k \in 0..n : Len(h[k]) <= TrimAbove
  <2>1. ASSUME NEW k \in 0..n, few PROVE Len(h[k]) <= TrimAbove
    <3>1. Len(h[k]) <= Cardinality(Printed(s, n))
      BY <1>2, <1>4, ShownLength
    <3>2. h[k] \in Texts
      BY <1>4 DEF Shows
    <3>3. Len(h[k]) \in Nat /\ TrimAbove \in Nat
      BY <3>2, FilterAssumption DEF Texts
    <3>4. Cardinality(Printed(s, n)) \in Nat
      <4>1. IsFiniteSet(1..n) /\ Printed(s, n) \in SUBSET (1..n)
        BY FS_Interval DEF Printed
      <4> QED BY <4>1, FS_Subset, FS_CardinalityType
    <3>5. Cardinality(Printed(s, n)) <= TrimAbove
      BY <1>5, <2>1
    <3> QED BY <3>1, <3>3, <3>4, <3>5
  <2> QED BY <2>1
<1>7. PICK reads : reads = Reads(s, ends)
  OBVIOUS
<1>8. PICK m, place : m \in Nat /\ reads = [k \in 1..m |-> reads[k]] /\ Continues(reads, place, s, n, m)
  BY <1>1, <1>2, <1>7, CutReads
<1>9. PICK f : Screens(f, reads, m)
  <2>1. \A k \in 1..m : reads[k] \in Seq(Characters)
    BY <1>8 DEF Continues
  <2> QED BY <1>8, <2>1, ScreensExist
<1>10. IsShown(f[m], n, st, h, few)
  BY <1>2, <1>3, <1>4, <1>6, <1>8, <1>9, ScreensShow
<1>11. f[m].text = FoldLeft(Appended, EmptyScreen, Reads(s, ends)).text
  BY <1>7, <1>9 DEF Screens
<1>12. /\ IsEndOf(f[m].text, Screen(s))
       /\ few => f[m].text = Screen(s)
  BY <1>4, <1>10 DEF IsShown
<1>13. IsSuffix(f[m].text, Screen(s))
  BY <1>12, EndIsSuffix
<1>14. Cardinality({i \in 1..StreamLen \ InSequence(s) : s[i] # "backspace"}) <= TrimAbove => few
  BY <1>1, <1>5, Zenon DEF Printed
<1> QED BY <1>11, <1>12, <1>13, <1>14

\* However the output of a terminal, of characters of one byte, is cut into reads,
\* at whatever length and whatever limit of the text, the screen shows the stream
\* without its sequences and what was rubbed out, or the end of it (append() of
\* PocketLauncher.cpp).
THEOREM FilterIsOfTheStream == FilterIgnoresCuts /\ (DSpec => []FilterIgnoresCutsAtStart)
<1>1. FilterIgnoresCuts
  BY CutsAreIgnored
<1>2. FilterIgnoresCutsAtStart
  BY <1>1 DEF FilterIgnoresCutsAtStart
<1> QED BY <1>1, <1>2, PTL

-----------------------------------------------------------------------------
\* The patch of the firmware (FirmwarePatch).

\* Trees between one of a release and what a whole run makes of it.
Between(t) ==
    [sources : SUBSET Range(Files), tft : {t.tft, Inserted(t.tft)},
     modules : {t.modules, Inserted(t.modules)}, build : {t.build, Rebuilt(t.build)}]

Finished(t) ==
    [sources |-> Range(Files), tft |-> Inserted(t.tft), modules |-> Inserted(t.modules),
     build |-> Rebuilt(t.build)]

\* What a run writes of such a tree.
StepsOf(t) ==
    {Copy(x) : x \in Range(Files)}
        \cup {Write("tft", Inserted(t.tft)), Write("modules", Inserted(t.modules)),
              Write("build", Rebuilt(t.build))}

\* A tree of a release is nothing but its files and what they offer.
LEMMA PristineIs ==
    ASSUME NEW t \in Pristine
    PROVE  /\ t.sources = {} /\ t = [sources |-> t.sources, tft |-> t.tft, modules |-> t.modules, build |-> t.build]
           /\ \E a, b \in BOOLEAN : t.tft = Target(a, b)
           /\ \E a, b \in BOOLEAN : t.modules = Target(a, b)
           /\ \E a, b \in BOOLEAN : t.build = Script(a, b)
BY DEF Pristine

\* Inserting twice is inserting once.
LEMMA InsertedOnce ==
    ASSUME NEW a \in BOOLEAN, NEW b \in BOOLEAN, NEW file, file = Target(a, b)
    PROVE  /\ Inserted(Inserted(file)) = Inserted(file)
           /\ Inserted(file).anchor = file.anchor
           /\ a => Inserted(file).call = 1 /\ (file.top => Inserted(file).include = 1)
BY DEF Inserted, Target

\* Each insertion into the build script is made once where there is a place for
\* it; where none was made for the repository, rebuilding again changes nothing.
LEMMA RebuiltOnce ==
    ASSUME NEW a \in BOOLEAN, NEW b \in BOOLEAN, NEW build, build = Script(a, b)
    PROVE  /\ build.repo = 0
           /\ Rebuilt(build).repo = 0 => Rebuilt(Rebuilt(build)) = Rebuilt(build)
           /\ build.owner => Rebuilt(build).repo = 1
           /\ build.imports => Rebuilt(build).os = 1
           /\ Rebuilt(build).owner = build.owner /\ Rebuilt(build).imports = build.imports
<1>1. PICK done : done = Rebuilt(build)
  OBVIOUS
<1>2. /\ done.owner = a /\ done.imports = b /\ done.epoch = 1
      /\ a => done.repo = 1
      /\ ~a => done.repo = 0
      /\ b => done.os = 1
      /\ ~b => done.os = 0
  BY <1>1 DEF Rebuilt, Script
<1>3. done = [owner |-> done.owner, imports |-> done.imports, repo |-> done.repo, os |-> done.os, epoch |-> done.epoch]
  BY <1>1 DEF Rebuilt, Script
<1>4. ASSUME done.repo = 0 PROVE Rebuilt(done) = done
  <2>1. ~done.owner
    BY <1>2, <1>4
  <2>2. Rebuilt(done) = [done EXCEPT !.repo = done.repo, !.os = done.os, !.epoch = done.epoch]
    BY <1>2, <1>3, <2>1 DEF Rebuilt
  <2> QED BY <1>3, <2>2
<1>5. build.repo = 0 /\ build.owner = a /\ build.imports = b
  BY DEF Script
<1> QED BY <1>1, <1>2, <1>4, <1>5

\* A run copies the files and makes the insertions that are missing.
LEMMA WritesAre ==
    ASSUME NEW t \in Pristine, NEW u \in Between(t)
    PROVE  /\ Inserted(u.tft) = Inserted(t.tft) /\ Inserted(u.modules) = Inserted(t.modules)
           /\ u.build.repo = 0 => Rebuilt(u.build) = Rebuilt(t.build)
           /\ u.build.repo # 0 => u.build = Rebuilt(t.build)
           /\ Refuses(u) <=> Refuses(t)
<1>1. PICK a, b \in BOOLEAN : t.tft = Target(a, b)
  BY PristineIs
<1>2. PICK c, d \in BOOLEAN : t.modules = Target(c, d)
  BY PristineIs
<1>3. PICK e, f \in BOOLEAN : t.build = Script(e, f)
  BY PristineIs
<1>4. u.tft \in {t.tft, Inserted(t.tft)} /\ u.modules \in {t.modules, Inserted(t.modules)}
      /\ u.build \in {t.build, Rebuilt(t.build)}
  BY DEF Between
<1>5. Inserted(u.tft) = Inserted(t.tft)
  BY <1>1, <1>4, InsertedOnce
<1>6. Inserted(u.modules) = Inserted(t.modules)
  BY <1>2, <1>4, InsertedOnce
<1>7. /\ u.build.repo = 0 => Rebuilt(u.build) = Rebuilt(t.build)
      /\ u.build.repo # 0 => u.build = Rebuilt(t.build)
  BY <1>3, <1>4, RebuiltOnce
<1>8. ASSUME NEW file, NEW p \in BOOLEAN, NEW q \in BOOLEAN, file = Target(p, q), NEW g, g \in {file, Inserted(file)}
      PROVE  (g.call = 0 /\ ~g.anchor) <=> ~p
  <2>1. file.call = 0 /\ file.anchor = p
    BY <1>8 DEF Target
  <2>2. p => Inserted(file).call = 1
    BY <1>8, InsertedOnce
  <2>3. ~p => Inserted(file).call = 0
    BY <1>8 DEF Inserted, Target
  <2>4. Inserted(file).anchor = p
    BY <1>8, <2>1, InsertedOnce
  <2> QED BY <1>8, <2>1, <2>2, <2>3, <2>4
<1>9. Refuses(u) <=> ~a \/ ~c
  <2>1. (u.tft.call = 0 /\ ~u.tft.anchor) <=> ~a
    BY <1>1, <1>4, <1>8
  <2>2. (u.modules.call = 0 /\ ~u.modules.anchor) <=> ~c
    BY <1>2, <1>4, <1>8
  <2> QED BY <2>1, <2>2 DEF Refuses
<1>10. Refuses(t) <=> ~a \/ ~c
  <2>1. (t.tft.call = 0 /\ ~t.tft.anchor) <=> ~a
    BY <1>1, <1>8
  <2>2. (t.modules.call = 0 /\ ~t.modules.anchor) <=> ~c
    BY <1>2, <1>8
  <2> QED BY <2>1, <2>2 DEF Refuses
<1> QED BY <1>5, <1>6, <1>7, <1>9, <1>10

\* The writes of such a tree are these, each at most once.
WritesOf(t, u) ==
    {Copy(x) : x \in Range(Files)}
        \cup (IF u.tft # Inserted(t.tft) THEN {Write("tft", Inserted(t.tft))} ELSE {})
        \cup (IF u.modules # Inserted(t.modules) THEN {Write("modules", Inserted(t.modules))} ELSE {})
        \cup (IF u.build.repo = 0 THEN {Write("build", Rebuilt(t.build))} ELSE {})

\* A write under a condition, as a sequence.
LEMMA WhenIs ==
    ASSUME NEW S, NEW step \in S, NEW condition
    PROVE  /\ When(condition, step) \in Seq(S)
           /\ Len(When(condition, step)) \in {0, 1}
           /\ Range(When(condition, step)) = IF condition THEN {step} ELSE {}
<1>1. CASE condition
  <2>1. When(condition, step) = <<step>>
    BY <1>1 DEF When
  <2>2. Range(<<step>>) = {step}
    BY DEF Range
  <2>3. <<step>> \in Seq(S)
    OBVIOUS
  <2>4. Len(<<step>>) = 1
    OBVIOUS
  <2>5. (IF condition THEN {step} ELSE {}) = {step}
    BY <1>1
  <2>6. Range(When(condition, step)) = IF condition THEN {step} ELSE {}
    BY <2>1, <2>2, <2>5, Zenon
  <2>7. Len(When(condition, step)) = 1
    BY <2>1, <2>4, Zenon
  <2>8. When(condition, step) \in Seq(S)
    BY <2>1, <2>3, Zenon
  <2> QED BY <2>6, <2>7, <2>8, Zenon
<1>2. CASE ~condition
  <2>1. When(condition, step) = <<>>
    BY <1>2 DEF When
  <2>2. Range(<<>>) = {}
    BY DEF Range
  <2> QED BY <1>2, <2>1, <2>2, EmptySeq
<1> QED BY <1>1, <1>2

\* Two sequences of writes, one after the other.
LEMMA ConcatIs ==
    ASSUME NEW S, NEW s \in Seq(S), NEW t \in Seq(S)
    PROVE  s \o t \in Seq(S) /\ Len(s \o t) = Len(s) + Len(t) /\ Range(s \o t) = Range(s) \cup Range(t)
<1>1. s \o t \in Seq(S) /\ Len(s \o t) = Len(s) + Len(t)
  BY ConcatProperties, Zenon
<1>2. Range(s \o t) = Range(s) \cup Range(t)
  BY RangeConcatenation, ZenonT(40)
<1> QED BY <1>1, <1>2

\* The copies of the files.
LEMMA CopiesAre ==
    ASSUME NEW S, {Copy(x) : x \in Range(Files)} \subseteq S,
           NEW copies, copies = [n \in 1..Len(Files) |-> Copy(Files[n])]
    PROVE  /\ copies \in Seq(S) /\ Len(copies) = Len(Files) /\ Len(Files) \in Nat
           /\ Range(copies) = {Copy(x) : x \in Range(Files)}
<1>1. Len(Files) \in Nat /\ DOMAIN Files = 1..Len(Files) /\ Files \in [1..Len(Files) -> Range(Files)]
  BY FilesAssumption, LenProperties
<1>2. \A n \in 1..Len(Files) : copies[n] \in S
  BY <1>1
<1>3. copies \in Seq(S) /\ Len(copies) = Len(Files)
  BY <1>1, <1>2
<1>4. Range(copies) = {Copy(Files[n]) : n \in 1..Len(Files)}
  BY DEF Range
<1>5. Range(Files) = {Files[n] : n \in 1..Len(Files)}
  BY <1>1 DEF Range
<1>6. {Copy(Files[n]) : n \in 1..Len(Files)} = {Copy(x) : x \in Range(Files)}
  BY <1>5
<1> QED BY <1>1, <1>3, <1>4, <1>6

\* Which writes a run does, and that they are at most MostWrites.
LEMMA RangeOfWrites ==
    ASSUME NEW t \in Pristine, NEW u \in Between(t)
    PROVE  /\ Writes(u) \in Seq(StepsOf(t)) /\ Len(Writes(u)) <= MostWrites
           /\ Range(Writes(u)) = WritesOf(t, u)
<1>1. /\ Inserted(u.tft) = Inserted(t.tft) /\ Inserted(u.modules) = Inserted(t.modules)
      /\ u.build.repo = 0 => Rebuilt(u.build) = Rebuilt(t.build)
  BY WritesAre
<1>2. PICK S : S = StepsOf(t)
  OBVIOUS
<1>3. PICK copies : copies = [n \in 1..Len(Files) |-> Copy(Files[n])]
  OBVIOUS
<1>4. PICK p, q, r : /\ p = When(u.tft # Inserted(t.tft), Write("tft", Inserted(t.tft)))
                     /\ q = When(u.modules # Inserted(t.modules), Write("modules", Inserted(t.modules)))
                     /\ r = When(u.build.repo = 0, Write("build", Rebuilt(t.build)))
  OBVIOUS
<1>5. Writes(u) = copies \o p \o q \o r
  <2>1. Inserted(u.tft) # u.tft <=> u.tft # Inserted(t.tft)
    BY <1>1
  <2>2. Inserted(u.modules) # u.modules <=> u.modules # Inserted(t.modules)
    BY <1>1
  <2>3. r = When(u.build.repo = 0, Write("build", Rebuilt(u.build)))
    BY <1>1, <1>4 DEF When
  <2>4. p = When(Inserted(u.tft) # u.tft, Write("tft", Inserted(u.tft)))
    BY <1>1, <1>4, <2>1 DEF When
  <2>5. q = When(Inserted(u.modules) # u.modules, Write("modules", Inserted(u.modules)))
    BY <1>1, <1>4, <2>2 DEF When
  <2> QED BY <1>3, <2>3, <2>4, <2>5 DEF Writes
<1>6. /\ copies \in Seq(S) /\ Len(copies) = Len(Files) /\ Len(Files) \in Nat
      /\ Range(copies) = {Copy(x) : x \in Range(Files)}
  <2>1. {Copy(x) : x \in Range(Files)} \subseteq S
    BY <1>2 DEF StepsOf
  <2> QED BY <1>3, <2>1, CopiesAre
<1>7. /\ p \in Seq(S) /\ Len(p) \in {0, 1}
      /\ Range(p) = IF u.tft # Inserted(t.tft) THEN {Write("tft", Inserted(t.tft))} ELSE {}
  <2>1. Write("tft", Inserted(t.tft)) \in S
    BY <1>2 DEF StepsOf
  <2> QED BY <1>4, <2>1, WhenIs
<1>8. /\ q \in Seq(S) /\ Len(q) \in {0, 1}
      /\ Range(q) = IF u.modules # Inserted(t.modules) THEN {Write("modules", Inserted(t.modules))} ELSE {}
  <2>1. Write("modules", Inserted(t.modules)) \in S
    BY <1>2 DEF StepsOf
  <2> QED BY <1>4, <2>1, WhenIs
<1>9. /\ r \in Seq(S) /\ Len(r) \in {0, 1}
      /\ Range(r) = IF u.build.repo = 0 THEN {Write("build", Rebuilt(t.build))} ELSE {}
  <2>1. Write("build", Rebuilt(t.build)) \in S
    BY <1>2 DEF StepsOf
  <2> QED BY <1>4, <2>1, WhenIs
<1>10. PICK cp, cpq, all : cp = copies \o p /\ cpq = cp \o q /\ all = cpq \o r
  OBVIOUS
<1>11. cp \in Seq(S) /\ Len(cp) = Len(copies) + Len(p) /\ Range(cp) = Range(copies) \cup Range(p)
  <2>1. copies \in Seq(S) /\ p \in Seq(S)
    BY <1>6, <1>7, <1>10
  <2>2. /\ copies \o p \in Seq(S) /\ Len(copies \o p) = Len(copies) + Len(p)
        /\ Range(copies \o p) = Range(copies) \cup Range(p)
    BY <2>1, ConcatIs
  <2> QED BY <1>10, <2>2
<1>12. cpq \in Seq(S) /\ Len(cpq) = Len(cp) + Len(q) /\ Range(cpq) = Range(cp) \cup Range(q)
  <2>1. cp \in Seq(S) /\ q \in Seq(S)
    BY <1>8, <1>10, <1>11
  <2>2. /\ cp \o q \in Seq(S) /\ Len(cp \o q) = Len(cp) + Len(q)
        /\ Range(cp \o q) = Range(cp) \cup Range(q)
    BY <2>1, ConcatIs
  <2> QED BY <1>10, <2>2
<1>13. all \in Seq(S) /\ Len(all) = Len(cpq) + Len(r) /\ Range(all) = Range(cpq) \cup Range(r)
  <2>1. cpq \in Seq(S) /\ r \in Seq(S)
    BY <1>9, <1>10, <1>12
  <2>2. /\ cpq \o r \in Seq(S) /\ Len(cpq \o r) = Len(cpq) + Len(r)
        /\ Range(cpq \o r) = Range(cpq) \cup Range(r)
    BY <2>1, ConcatIs
  <2> QED BY <1>10, <2>2
<1>14. Writes(u) = all
  BY <1>5, <1>10
<1>15. Len(Writes(u)) <= MostWrites
  <2>1. PICK n \in Nat : n = Len(Files)
    BY <1>6
  <2>2. PICK a, b, c \in {0, 1} : a = Len(p) /\ b = Len(q) /\ c = Len(r)
    BY <1>7, <1>8, <1>9
  <2>3. Len(Writes(u)) = ((n + a) + b) + c
    <3>1. Len(cp) = n + a
      BY <1>6, <1>11, <2>1, <2>2
    <3>2. Len(cpq) = (n + a) + b
      BY <1>12, <2>2, <3>1
    <3> QED BY <1>13, <1>14, <2>2, <3>2
  <2>4. ((n + a) + b) + c <= n + 3
    OBVIOUS
  <2> QED BY <2>1, <2>3, <2>4 DEF MostWrites
<1>16. Range(Writes(u)) = WritesOf(t, u)
  BY <1>6, <1>7, <1>8, <1>9, <1>11, <1>12, <1>14, <1>13 DEF WritesOf
<1> QED BY <1>2, <1>13, <1>14, <1>15, <1>16

\* A run that dies: its first writes, one after the other, in some set of trees
\* that none of them leaves.
Keeps(V, steps) ==
    steps \in Seq(Range(steps)) /\ \A v \in V, k \in 1..Len(steps) : Written(v, steps[k]) \in V

Runs(f, V, tree, steps) ==
    /\ f \in [0..Len(steps) -> V] /\ f[0] = tree /\ f[Len(steps)] = FoldLeft(Written, tree, steps)
    /\ \A k \in 1..Len(steps) : f[k] = Written(f[k - 1], steps[k])

\* A run, write by write.
LEMMA WrittenSteps ==
    ASSUME NEW V, NEW tree \in V, NEW steps, Keeps(V, steps)
    PROVE  \E f : Runs(f, V, tree, steps)
<1>1. PICK n \in Nat : n = Len(steps) /\ DOMAIN steps = 1..n
  <2>1. steps \in Seq(Range(steps))
    BY DEF Keeps
  <2>2. Len(steps) \in Nat /\ DOMAIN steps = 1..Len(steps)
    BY <2>1, LenProperties
  <2> QED BY <2>2
<1>2. PICK F : F = [k \in 1..n |-> [v \in V |-> Written(v, steps[k])]]
  OBVIOUS
<1>3. F \in Steps(n, V)
  BY <1>1, <1>2 DEF Steps, Keeps
<1>4. FoldLeft(Written, tree, steps) = (CHOOSE g : g = [s \in SUBSET (1..n) |->
                          IF s = {} THEN tree ELSE Written(g[s \ {Max(s)}], steps[Max(s)])])[1..n]
  BY <1>1 DEF FoldLeft, MapThenFoldSet
<1>5. \E g : g = [s \in SUBSET (1..n) |-> IF s = {} THEN tree ELSE Written(g[s \ {Max(s)}], steps[Max(s)])]
  <2>1. PICK g : FoldsSets(g, n, V, tree, F)
    BY <1>3, SetFold
  <2> QED BY <1>2, <2>1 DEF FoldsSets
<1>6. PICK g : /\ g = [s \in SUBSET (1..n) |->
                          IF s = {} THEN tree ELSE Written(g[s \ {Max(s)}], steps[Max(s)])]
               /\ g[1..n] = FoldLeft(Written, tree, steps)
  BY <1>4, <1>5
<1>7. AgreesWith(g, n, V, tree, F)
  BY <1>2, <1>6 DEF AgreesWith
<1>8. PICK f : Folds(f, n, V, tree, F) /\ f[n] = g[1..n]
  BY <1>3, <1>7, FoldSteps
<1>9. f \in [0..n -> V]
  BY <1>8 DEF Folds
<1>10. ASSUME NEW k \in 1..n PROVE f[k] = Written(f[k - 1], steps[k])
  <2>1. f[k] = F[k][f[k - 1]] /\ f[k - 1] \in V
    BY <1>8, <1>9 DEF Folds
  <2> QED BY <1>2, <2>1
<1>11. f[0] = tree /\ f[n] = FoldLeft(Written, tree, steps)
  BY <1>6, <1>8 DEF Folds
<1> QED BY <1>1, <1>9, <1>10, <1>11 DEF Runs

Did(t, v, step) ==
    /\ step.file = "sources" => step.to \in v.sources
    /\ step.file = "tft" => v.tft = Inserted(t.tft)
    /\ step.file = "modules" => v.modules = Inserted(t.modules)
    /\ step.file = "build" => v.build = Rebuilt(t.build)

\* What one write does, no other undoes.
LEMMA WrittenIs ==
    ASSUME NEW t, NEW v \in Between(t), NEW step \in StepsOf(t)
    PROVE  /\ Written(v, step) \in Between(t) /\ Did(t, Written(v, step), step)
           /\ \A other \in StepsOf(t) : Did(t, v, other) => Did(t, Written(v, step), other)
<1>1. /\ v.sources \in SUBSET Range(Files) /\ v.tft \in {t.tft, Inserted(t.tft)}
      /\ v.modules \in {t.modules, Inserted(t.modules)} /\ v.build \in {t.build, Rebuilt(t.build)}
      /\ v = [sources |-> v.sources, tft |-> v.tft, modules |-> v.modules, build |-> v.build]
  BY DEF Between
<1>2. PICK w : w = Written(v, step)
  OBVIOUS
<1>3. CASE \E x \in Range(Files) : step = Copy(x)
  <2>1. PICK x \in Range(Files) : step = Copy(x)
    BY <1>3
  <2>2. step.file = "sources" /\ step.to = x
    BY <2>1 DEF Copy
  <2>3. w = [v EXCEPT !.sources = @ \cup {x}]
    BY <1>2, <2>2 DEF Written
  <2>4. w.sources = v.sources \cup {x} /\ w.tft = v.tft /\ w.modules = v.modules /\ w.build = v.build
    BY <1>1, <2>3
  <2>5. w \in Between(t)
    BY <1>1, <2>3 DEF Between
  <2> QED BY <1>2, <2>2, <2>4, <2>5 DEF Did
<1>4. CASE step = Write("tft", Inserted(t.tft))
  <2>1. step.file = "tft" /\ step.to = Inserted(t.tft)
    BY <1>4 DEF Write
  <2>2. w = [v EXCEPT !.tft = Inserted(t.tft)]
    BY <1>2, <2>1 DEF Written
  <2>3. w.sources = v.sources /\ w.tft = Inserted(t.tft) /\ w.modules = v.modules /\ w.build = v.build
    BY <1>1, <2>2
  <2>4. w \in Between(t)
    BY <1>1, <2>2 DEF Between
  <2> QED BY <1>2, <2>1, <2>3, <2>4 DEF Did
<1>5. CASE step = Write("modules", Inserted(t.modules))
  <2>1. step.file = "modules" /\ step.to = Inserted(t.modules)
    BY <1>5 DEF Write
  <2>2. w = [v EXCEPT !.modules = Inserted(t.modules)]
    BY <1>2, <2>1 DEF Written
  <2>3. w.sources = v.sources /\ w.tft = v.tft /\ w.modules = Inserted(t.modules) /\ w.build = v.build
    BY <1>1, <2>2
  <2>4. w \in Between(t)
    BY <1>1, <2>2 DEF Between
  <2> QED BY <1>2, <2>1, <2>3, <2>4 DEF Did
<1>6. CASE step = Write("build", Rebuilt(t.build))
  <2>1. step.file = "build" /\ step.to = Rebuilt(t.build)
    BY <1>6 DEF Write
  <2>2. w = [v EXCEPT !.build = Rebuilt(t.build)]
    BY <1>2, <2>1 DEF Written
  <2>3. w.sources = v.sources /\ w.tft = v.tft /\ w.modules = v.modules /\ w.build = Rebuilt(t.build)
    BY <1>1, <2>2
  <2>4. w \in Between(t)
    BY <1>1, <2>2 DEF Between
  <2> QED BY <1>2, <2>1, <2>3, <2>4 DEF Did
<1> QED BY <1>3, <1>4, <1>5, <1>6 DEF StepsOf

\* Writes of a run keep a tree between the first tree and the patched one.
LEMMA KeptBetween ==
    ASSUME NEW t, NEW steps \in Seq(StepsOf(t))
    PROVE  Keeps(Between(t), steps)
<1>1. steps \in Seq(Range(steps)) /\ Len(steps) \in Nat
  BY SeqOfRange, LenProperties
<1>2. \A k \in 1..Len(steps) : steps[k] \in StepsOf(t)
  BY ElementOfSeq
<1> QED BY <1>1, <1>2, WrittenIs DEF Keeps

\* However far a run gets, it leaves such a tree.
LEMMA DiedIs ==
    ASSUME NEW t \in Pristine, ~Refuses(t), NEW u \in Between(t), NEW n \in Nat
    PROVE  Died(u, n) \in Between(t)
<1>1. PICK writes \in Seq(StepsOf(t)) : writes = Writes(u)
  BY RangeOfWrites
<1>2. PICK m \in 0..Len(writes) : m = IF n <= Len(writes) THEN n ELSE Len(writes)
  <2>1. Len(writes) \in Nat
    BY <1>1, LenProperties
  <2> QED BY <2>1
<1>3. SubSeq(writes, 1, m) \in Seq(StepsOf(t))
  <2>1. \A k \in 1..m : writes[k] \in StepsOf(t)
    <3>1. Len(writes) \in Nat
      BY <1>1, LenProperties
    <3>2. \A k \in 1..m : k \in 1..Len(writes)
      BY <1>2, <3>1
    <3> QED BY <1>1, <3>2, ElementOfSeq
  <2>2. 1 \in Int /\ m \in Int
    BY <1>2
  <2> QED BY <2>1, <2>2, SubSeqProperties
<1>4. PICK steps : steps = SubSeq(writes, 1, m) /\ steps \in Seq(StepsOf(t))
  BY <1>3
<1>5. PICK f : Runs(f, Between(t), u, steps)
  <2>1. Keeps(Between(t), steps)
    BY <1>4, KeptBetween
  <2> QED BY <2>1, WrittenSteps
<1>6. Died(u, n) = FoldLeft(Written, u, steps)
  <2>1. ~Refuses(u)
    BY WritesAre
  <2> QED BY <1>1, <1>2, <1>4, <2>1 DEF Died
<1>7. Len(steps) \in 0..Len(steps)
  <2>1. Len(steps) \in Nat
    BY <1>4, LenProperties
  <2> QED BY <2>1
<1>8. f[Len(steps)] \in Between(t)
  BY <1>5, <1>7 DEF Runs
<1> QED BY <1>5, <1>6, <1>8 DEF Runs

\* A run that ends makes of any of them the same.
LEMMA AppliedIs ==
    ASSUME NEW t \in Pristine, ~Refuses(t), NEW u \in Between(t)
    PROVE  Applied(u) = Finished(t)
<1>1. PICK writes : /\ writes = Writes(u) /\ writes \in Seq(StepsOf(t))
                    /\ Len(writes) <= MostWrites /\ Range(writes) = WritesOf(t, u)
  BY RangeOfWrites
<1>2. PICK n \in Nat : n = Len(writes) /\ DOMAIN writes = 1..n
  BY <1>1, LenProperties
<1>3. PICK f : Runs(f, Between(t), u, writes)
  <2>1. Keeps(Between(t), writes)
    BY <1>1, KeptBetween
  <2> QED BY <2>1, WrittenSteps
<1>4. f \in [0..n -> Between(t)] /\ f[0] = u /\ \A k \in 1..n : f[k] = Written(f[k - 1], writes[k])
  BY <1>2, <1>3 DEF Runs
<1>5. Applied(u) = f[n]
  <2>1. ~Refuses(u)
    BY WritesAre
  <2>2. MostWrites \in Nat
    <3>1. Len(Files) \in Nat
      BY FilesAssumption, LenProperties
    <3> QED BY <3>1 DEF MostWrites
  <2>3. (IF MostWrites <= Len(writes) THEN MostWrites ELSE Len(writes)) = n
    BY <1>1, <1>2, <2>2
  <2>4. SubSeq(writes, 1, n) = writes
    BY <1>1, <1>2, SubSeqFull
  <2>5. Applied(u) = FoldLeft(Written, u, writes)
    BY <1>1, <2>1, <2>3, <2>4 DEF Applied, Died
  <2> QED BY <1>2, <1>3, <2>5 DEF Runs
<1>6. PICK S : S = {k \in 0..n : \A step \in StepsOf(t) :
                                   Did(t, u, step) \/ (\E l \in 1..k : step = writes[l]) => Did(t, f[k], step)}
  OBVIOUS
<1>7. 0..n \subseteq S
  <2>1. 0 \in S
    BY <1>4, <1>6
  <2>2. ASSUME NEW k \in 1..n, k - 1 \in S PROVE k \in S
    <3>1. f[k] = Written(f[k - 1], writes[k]) /\ f[k - 1] \in Between(t)
      BY <1>4
    <3>2. writes[k] \in StepsOf(t)
      BY <1>1, <1>2, ElementOfSeq
    <3>3. /\ Did(t, f[k], writes[k])
          /\ \A other \in StepsOf(t) : Did(t, f[k - 1], other) => Did(t, f[k], other)
      BY <3>1, <3>2, WrittenIs
    <3>4. ASSUME NEW step \in StepsOf(t), Did(t, u, step) \/ \E l \in 1..k : step = writes[l]
          PROVE  Did(t, f[k], step)
      <4>1. CASE step = writes[k]
        BY <3>3, <4>1
      <4>2. CASE step # writes[k]
        <5>1. Did(t, u, step) \/ \E l \in 1..(k - 1) : step = writes[l]
          BY <3>4, <4>2
        <5>2. Did(t, f[k - 1], step)
          BY <1>6, <2>2, <5>1
        <5> QED BY <3>3, <5>2
      <4> QED BY <4>1, <4>2
    <3> QED BY <1>6, <3>4
  <2> QED BY <2>1, <2>2, IntervalInd
<1>8. ASSUME NEW step \in StepsOf(t) PROVE Did(t, f[n], step)
  <2>1. Did(t, u, step) \/ step \in WritesOf(t, u)
    BY WritesAre DEF WritesOf, StepsOf, Did, Copy, Write
  <2>2. ASSUME step \in WritesOf(t, u) PROVE \E l \in 1..n : step = writes[l]
    BY <1>1, <1>2, <2>2 DEF Range
  <2>3. n \in S
    BY <1>7
  <2> QED BY <1>6, <2>1, <2>2, <2>3
<1>9. f[n].sources = Range(Files)
  <2>1. f[n].sources \subseteq Range(Files)
    BY <1>4 DEF Between
  <2>2. ASSUME NEW x \in Range(Files) PROVE x \in f[n].sources
    <3>1. Copy(x) \in StepsOf(t) /\ Copy(x).file = "sources" /\ Copy(x).to = x
      BY DEF StepsOf, Copy
    <3> QED BY <1>8, <3>1 DEF Did
  <2> QED BY <2>1, <2>2
<1>10. f[n].tft = Inserted(t.tft)
  <2>1. Write("tft", Inserted(t.tft)) \in StepsOf(t) /\ Write("tft", Inserted(t.tft)).file = "tft"
    BY DEF StepsOf, Write
  <2> QED BY <1>8, <2>1 DEF Did
<1>11. f[n].modules = Inserted(t.modules)
  <2>1. /\ Write("modules", Inserted(t.modules)) \in StepsOf(t)
        /\ Write("modules", Inserted(t.modules)).file = "modules"
    BY DEF StepsOf, Write
  <2> QED BY <1>8, <2>1 DEF Did
<1>12. f[n].build = Rebuilt(t.build)
  <2>1. Write("build", Rebuilt(t.build)) \in StepsOf(t) /\ Write("build", Rebuilt(t.build)).file = "build"
    BY DEF StepsOf, Write
  <2> QED BY <1>8, <2>1 DEF Did
<1>13. f[n] \in Between(t)
  BY <1>4
<1> QED BY <1>5, <1>9, <1>10, <1>11, <1>12, <1>13 DEF Between, Finished

\* The formula itself, tree by tree and death by death.
LEMMA PatchRepeats == PatchIsRepeatable
<1> SUFFICES ASSUME NEW t \in Pristine, NEW n \in 0..MostWrites, NEW m \in 0..MostWrites
             PROVE  LET left == Died(Died(t, n), m) IN
                    IF Refuses(t)
                    THEN left = t
                    ELSE /\ ~Refuses(left)
                         /\ Applied(left) = Applied(t)
                         /\ WhollyPatched(Applied(t))
  BY DEF PatchIsRepeatable
<1>1. MostWrites \in Nat /\ n \in Nat /\ m \in Nat
  <2>1. Len(Files) \in Nat
    BY FilesAssumption, LenProperties
  <2> QED BY <2>1 DEF MostWrites
<1>2. PICK left : left = Died(Died(t, n), m)
  OBVIOUS
<1>3. CASE Refuses(t)
  <2>1. Died(t, n) = t /\ Died(t, m) = t
    BY <1>3 DEF Died
  <2> QED BY <1>3, <2>1
<1>4. CASE ~Refuses(t)
  <2>1. t \in Between(t)
    BY PristineIs DEF Between
  <2>2. left \in Between(t)
    BY <1>1, <1>2, <1>4, <2>1, DiedIs
  <2>3. ~Refuses(left)
    BY <1>4, <2>2, WritesAre
  <2>4. Applied(left) = Finished(t) /\ Applied(t) = Finished(t)
    BY <1>4, <2>1, <2>2, AppliedIs
  <2>5. WhollyPatched(Finished(t))
    <3>1. PICK a, b \in BOOLEAN : t.tft = Target(a, b)
      BY PristineIs
    <3>2. PICK c, d \in BOOLEAN : t.modules = Target(c, d)
      BY PristineIs
    <3>3. PICK e, f \in BOOLEAN : t.build = Script(e, f)
      BY PristineIs
    <3>4. a /\ c
      BY <1>4, <3>1, <3>2 DEF Refuses, Target
    <3>5. Inserted(t.tft).call = 1 /\ (Inserted(t.tft).top => Inserted(t.tft).include = 1)
      BY <3>1, <3>4 DEF Inserted, Target
    <3>6. Inserted(t.modules).call = 1 /\ (Inserted(t.modules).top => Inserted(t.modules).include = 1)
      BY <3>2, <3>4 DEF Inserted, Target
    <3>7. /\ Rebuilt(t.build).owner => Rebuilt(t.build).repo = 1
          /\ Rebuilt(t.build).imports => Rebuilt(t.build).os = 1
      BY <3>3, RebuiltOnce
    <3> QED BY <3>5, <3>6, <3>7 DEF WhollyPatched, Finished
  <2> QED BY <1>2, <1>4, <2>3, <2>4, <2>5
<1> QED BY <1>3, <1>4

\* Whatever files there are and wherever two runs die, the next run makes of the
\* tree what a first run makes of it; a tree the script does not know is left alone
\* (apply() of tools/apply_firmware.py).
THEOREM PatchCanBeRepeated == PatchIsRepeatable /\ (DSpec => []PatchIsRepeatableAtStart)
<1>1. PatchIsRepeatable
  BY PatchRepeats
<1>2. PatchIsRepeatableAtStart
  BY <1>1 DEF PatchIsRepeatableAtStart
<1> QED BY <1>1, <1>2, PTL
=============================================================================
