------------------------------- MODULE LanesProofs -------------------------------
(***************************************************************************)
(* A session of a lane carrier, for any number of streams, polls, sockets  *)
(* and limits: its lanes and streams hold exactly its charge, a live       *)
(* stream has its lane, no wake-up is lost, and the news that a lane is    *)
(* closed comes last.                                                      *)
(***************************************************************************)
EXTENDS Lanes, Counting, SequenceTheorems

--------------------------------------------------------------------------------
(* Constants and queues.                                                   *)

\* The limits are numbers, and None is neither a lane nor a poll.
LEMMA Limits ==
    /\ MaxStreamsPerSession \in Nat /\ MaxClosedStreamIDs \in Nat \ {0}
    /\ MaxFramePayload \in Nat /\ MaxBatchFrames \in Nat \ {0} /\ MaxUint32 \in Nat
    /\ MaxLanes \in Nat \ {0}
    /\ MaxPending \in Nat /\ UplinkLimit \in Nat /\ DownlinkLimit \in Nat
    /\ MaxUpSequence \in Nat /\ MaxDownCursor \in Nat
    /\ None \notin Nat /\ None \notin Objects /\ None \notin Pollers
    /\ Objects \subseteq Nat /\ IsFiniteSet(Objects) /\ 1 \in Objects
    /\ StreamIDs \subseteq LaneIDs /\ LaneIDs \subseteq Nat /\ 0 \notin StreamIDs
    /\ 0 \in LaneIDs /\ IsFiniteSet(StreamIDs)
<1>1. /\ MaxStreamsPerSession \in Nat /\ MaxClosedStreamIDs \in Nat \ {0}
      /\ MaxFramePayload \in Nat /\ MaxBatchFrames \in Nat \ {0} /\ MaxUint32 \in Nat
      /\ MaxLanes \in Nat \ {0}
      /\ MaxPending \in Nat /\ UplinkLimit \in Nat /\ DownlinkLimit \in Nat
      /\ MaxUpSequence \in Nat /\ MaxDownCursor \in Nat
  BY LaneLimitAssumption
<1>2. /\ None \notin Nat /\ None \notin Objects /\ None \notin Pollers
      /\ Objects \subseteq Nat /\ 1 \in Objects
  BY <1>1, LaneNoneAssumption DEF Objects, Pollers
<1>3. IsFiniteSet(Objects)
  BY <1>1, FS_Interval DEF Objects
<1>4. /\ StreamIDs \subseteq LaneIDs /\ LaneIDs \subseteq Nat /\ 0 \notin StreamIDs
      /\ 0 \in LaneIDs /\ IsFiniteSet(StreamIDs)
  BY LaneIDAssumption DEF LaneIDs
<1>5. QED
  BY <1>1, <1>2, <1>3, <1>4

\* A frame costs at least one unit.
LEMMA FrameCostType ==
    ASSUME NEW f \in Frame
    PROVE  FrameCost(f) \in Nat \ {0}
BY DEF Frame, FrameCost

\* The cost of a queue is a sum over its places.
LEMMA CostIs ==
    ASSUME NEW q \in Seq(Frame), NEW f, \A i \in 1 .. Len(q) : f[i] = FrameCost(q[i])
    PROVE  /\ CostOf(q) = Total(1 .. Len(q), f)
           /\ Charged(1 .. Len(q), f)
           /\ CostOf(q) \in Nat
<1> DEFINE g == [i \in DOMAIN q |-> FrameCost(q[i])]
<1>1. Len(q) \in Nat /\ DOMAIN q = 1 .. Len(q) /\ \A i \in 1 .. Len(q) : q[i] \in Frame
  BY LenProperties, ElementOfSeq
<1>2. \A i \in 1 .. Len(q) : g[i] = f[i]
  BY <1>1
<1>3. Total(1 .. Len(q), g) = Total(1 .. Len(q), f)
  BY <1>2, TotalSame
<1>4. CostOf(q) = Total(1 .. Len(q), g)
  BY <1>1 DEF CostOf
<1>5. Charged(1 .. Len(q), f)
  <2>1. IsFiniteSet(1 .. Len(q))
    BY <1>1, FS_Interval
  <2>2. \A i \in 1 .. Len(q) : f[i] \in Nat
    BY <1>1, FrameCostType
  <2>3. QED
    BY <2>1, <2>2 DEF Charged
<1>6. QED
  BY <1>3, <1>4, <1>5, TotalType

\* An empty queue costs nothing.
LEMMA CostEmpty == CostOf(<< >>) = 0
<1>1. DOMAIN << >> = {}
  OBVIOUS
<1>2. QED
  BY <1>1, TotalEmpty DEF CostOf

\* A frame is queued behind the others.
LEMMA CostAppended ==
    ASSUME NEW q \in Seq(Frame), NEW frame \in Frame
    PROVE  CostOf(Append(q, frame)) = CostOf(q) + FrameCost(frame)
<1> DEFINE r == Append(q, frame)
           n == Len(q)
           f == [i \in Nat |-> FrameCost(r[i])]
<1>1. /\ n \in Nat /\ r \in Seq(Frame) /\ Len(r) = n + 1
      /\ \A i \in 1 .. n : r[i] = q[i]
      /\ r[n + 1] = frame
  BY LenProperties, AppendProperties
<1>2. 1 .. Len(r) = (1 .. n) \cup {n + 1} /\ n + 1 \notin 1 .. n
  BY <1>1
<1>3. \A i \in 1 .. n : f[i] = FrameCost(q[i])
  BY <1>1
<1>4. CostOf(q) = Total(1 .. n, f) /\ Charged(1 .. n, f)
  BY <1>3, CostIs
<1>5. CostOf(r) = Total((1 .. n) \cup {n + 1}, f)
  <2>1. \A i \in 1 .. Len(r) : f[i] = FrameCost(r[i])
    BY <1>1
  <2>2. QED
    BY <1>1, <1>2, <2>1, CostIs
<1>6. f[n + 1] = FrameCost(frame) /\ f[n + 1] \in Nat
  BY <1>1, FrameCostType
<1>7. Total((1 .. n) \cup {n + 1}, f) = Total(1 .. n, f) + f[n + 1]
  <2> DEFINE S == 1 .. n
             x == n + 1
  <2>1. Charged(S, f) /\ x \notin S /\ f[x] \in Nat
    BY <1>2, <1>4, <1>6
  <2> HIDE DEF S, x, f
  <2>2. Total(S \cup {x}, f) = Total(S, f) + f[x]
    BY <2>1, TotalMore
  <2>3. QED
    BY <2>2 DEF S, x
<1>8. QED
  BY <1>4, <1>5, <1>6, <1>7

\* A frame in the queue takes another one in.
LEMMA CostJoined ==
    ASSUME NEW q \in Seq(Frame), NEW r \in Seq(Frame), NEW i \in 1 .. Len(q),
           Len(r) = Len(q), \A j \in (1 .. Len(q)) \ {i} : r[j] = q[j]
    PROVE  CostOf(r) = CostOf(q) - FrameCost(q[i]) + FrameCost(r[i])
<1> DEFINE f == [j \in 1 .. Len(q) |-> FrameCost(q[j])]
           g == [j \in 1 .. Len(q) |-> FrameCost(r[j])]
<1>1. q[i] \in Frame /\ r[i] \in Frame
  BY ElementOfSeq
<1>2. CostOf(q) = Total(1 .. Len(q), f) /\ Charged(1 .. Len(q), f)
  BY CostIs
<1>3. CostOf(r) = Total(1 .. Len(q), g)
  <2>1. \A j \in 1 .. Len(r) : g[j] = FrameCost(r[j])
    OBVIOUS
  <2>2. QED
    BY <2>1, CostIs
<1>4. /\ g[i] = FrameCost(r[i]) /\ g[i] \in Nat /\ f[i] = FrameCost(q[i])
      /\ \A j \in (1 .. Len(q)) \ {i} : g[j] = f[j]
  BY <1>1, FrameCostType
<1>5. Total(1 .. Len(q), g) = Total(1 .. Len(q), f) - f[i] + g[i]
  BY <1>2, <1>4, TotalChange
<1>6. QED
  BY <1>2, <1>3, <1>4, <1>5

\* One frame is replaced by another.
LEMMA CostReplaced ==
    ASSUME NEW q \in Seq(Frame), NEW i \in 1 .. Len(q), NEW h \in Frame
    PROVE  /\ [q EXCEPT ![i] = h] \in Seq(Frame)
           /\ CostOf([q EXCEPT ![i] = h]) = CostOf(q) - FrameCost(q[i]) + FrameCost(h)
           /\ CostOf(q) \in Nat
<1> DEFINE r == [q EXCEPT ![i] = h]
           g == [j \in 1 .. Len(q) |-> FrameCost(q[j])]
<1>1. r \in Seq(Frame)
  BY ExceptSeq
<1>2. Len(r) = Len(q) /\ r[i] = h /\ \A j \in (1 .. Len(q)) \ {i} : r[j] = q[j]
  BY ExceptSeq, LenProperties
<1> HIDE DEF r
<1>3. CostOf(r) = CostOf(q) - FrameCost(q[i]) + FrameCost(h)
  BY <1>1, <1>2, CostJoined
<1>4. \A j \in 1 .. Len(q) : g[j] = FrameCost(q[j])
  OBVIOUS
<1>5. CostOf(q) \in Nat
  BY <1>4, CostIs
<1>6. QED
  BY <1>1, <1>3, <1>5 DEF r

\* A batch is cut from the front of the queue, and nothing is lost.
LEMMA CostCut ==
    ASSUME NEW q \in Seq(Frame), NEW n \in 1 .. Len(q)
    PROVE  /\ SubSeq(q, 1, n) \in Seq(Frame) /\ SubSeq(q, n + 1, Len(q)) \in Seq(Frame)
           /\ CostOf(SubSeq(q, 1, n)) + CostOf(SubSeq(q, n + 1, Len(q))) = CostOf(q)
<1> DEFINE a == SubSeq(q, 1, n)
           b == SubSeq(q, n + 1, Len(q))
           f == [i \in 1 .. Len(q) |-> FrameCost(q[i])]
           g == [i \in 1 .. Len(b) |-> FrameCost(b[i])]
           move == [i \in 1 .. Len(b) |-> n + i]
<1>1. /\ Len(q) \in Nat /\ n \in Nat /\ n <= Len(q)
      /\ a \in Seq(Frame) /\ Len(a) = n /\ \A i \in 1 .. n : a[i] = q[i]
      /\ b \in Seq(Frame) /\ Len(b) = Len(q) - n
      /\ \A i \in 1 .. Len(q) - n : b[i] = q[n + i]
  BY LenProperties, SubSeqProperties
<1>2. CostOf(q) = Total(1 .. Len(q), f) /\ Charged(1 .. Len(q), f)
  BY CostIs
<1>3. CostOf(a) = Total(1 .. n, f) /\ Charged(1 .. n, f)
  <2>1. \A i \in 1 .. Len(a) : f[i] = FrameCost(a[i])
    BY <1>1
  <2>2. QED
    BY <1>1, <2>1, CostIs
<1>4. CostOf(b) = Total(1 .. Len(b), g) /\ Charged(1 .. Len(b), g)
  BY <1>1, CostIs
<1>5. Total(n + 1 .. Len(q), f) = Total(1 .. Len(b), g)
  <2>1. move \in [1 .. Len(b) -> n + 1 .. Len(q)]
    BY <1>1
  <2>2. \A i, j \in 1 .. Len(b) : move[i] = move[j] => i = j
    BY <1>1
  <2>3. ASSUME NEW k \in n + 1 .. Len(q)
        PROVE  \E i \in 1 .. Len(b) : move[i] = k
    <3>1. k - n \in 1 .. Len(b) /\ n + (k - n) = k
      BY <1>1
    <3>2. move[k - n] = k
      BY <3>1
    <3>3. QED
      BY <3>1, <3>2
  <2>4. move \in Bijection(1 .. Len(b), n + 1 .. Len(q))
    BY <2>1, <2>2, <2>3, Fun_IsBij, Zenon
  <2>5. \A i \in 1 .. Len(b) : f[move[i]] = g[i]
    BY <1>1
  <2> DEFINE S == 1 .. Len(b)
             T == n + 1 .. Len(q)
  <2>6. Charged(S, g) /\ move \in Bijection(S, T) /\ \A i \in S : f[move[i]] = g[i]
    BY <1>4, <2>4, <2>5
  <2> HIDE DEF S, T, f, g, move
  <2>7. Total(T, f) = Total(S, g)
    BY <2>6, TotalMoved
  <2>8. QED
    BY <2>7 DEF S, T
<1>6. /\ 1 .. Len(q) = (1 .. n) \cup (n + 1 .. Len(q))
      /\ (1 .. n) \cap (n + 1 .. Len(q)) = {}
  BY <1>1
<1>7. Charged(n + 1 .. Len(q), f)
  <2>1. IsFiniteSet(n + 1 .. Len(q))
    BY <1>1, FS_Interval
  <2>2. QED
    BY <1>1, <1>2, <2>1 DEF Charged
<1>8. Total((1 .. n) \cup (n + 1 .. Len(q)), f) = Total(1 .. n, f) + Total(n + 1 .. Len(q), f)
  BY <1>3, <1>6, <1>7, TotalUnion
<1>9. CostOf(q) = CostOf(a) + CostOf(b)
  BY <1>2, <1>3, <1>4, <1>5, <1>6, <1>8
<1>10. QED
  BY <1>1, <1>9

\* The last of some places of a queue is one of them.
LEMMA MaxIsIn ==
    ASSUME NEW S, NEW n \in Nat, S \subseteq 1 .. n, S # {}
    PROVE  Max(S) \in S
<1> DEFINE T == {n - x : x \in S}
<1>1. T \subseteq Nat /\ T # {}
  <2>1. \A x \in S : x \in 1 .. n /\ n - x \in Nat
    OBVIOUS
  <2>2. QED
    BY <2>1
<1>2. PICK y \in T : \A z \in T : y <= z
  BY <1>1, LeastElement
<1>3. PICK x \in S : y = n - x
  OBVIOUS
<1>4. \A z \in S : x >= z
  <2> SUFFICES ASSUME NEW z \in S PROVE x >= z
    OBVIOUS
  <2>1. n - z \in T
    OBVIOUS
  <2>2. n - x <= n - z
    BY <1>2, <1>3, <2>1
  <2>3. x \in Nat /\ z \in Nat
    OBVIOUS
  <2>4. QED
    BY <2>2, <2>3
<1>5. QED
  BY <1>3, <1>4 DEF Max

\* A batch is at least one frame and at most the queue.
LEMMA BatchSizesOf ==
    ASSUME NEW l \in Lane, NEW count \in BatchSizes(l)
    PROVE  count \in 1 .. Len(l.frames)
<1>1. Len(l.frames) \in Nat /\ MaxBatchFrames \in Nat
  BY Limits, LenProperties DEF Lane
<1>2. Min({Len(l.frames), MaxBatchFrames}) \in Nat
      /\ Min({Len(l.frames), MaxBatchFrames}) <= Len(l.frames)
  <2> DEFINE S == {Len(l.frames), MaxBatchFrames}
  <2>1. \E x \in S : \A y \in S : x <= y
    BY <1>1
  <2>2. Min(S) \in S /\ \A y \in S : Min(S) <= y
    BY <2>1 DEF Min
  <2>3. QED
    BY <1>1, <2>2
<1>3. QED
  BY <1>1, <1>2 DEF BatchSizes

Kinds == {"data", "window", "close"}

\* A queued frame joins another or follows the rest, and costs what QueueCost says.
LEMMA QueuedIs ==
    ASSUME NEW l \in Lane, NEW t \in Kinds
    PROVE  /\ Queued(l, t) \in Lane
           /\ Queued(l, t).unacked = l.unacked /\ Queued(l, t).superseded = l.superseded
           /\ Queued(l, t).notify = TRUE
           /\ CostOf(Queued(l, t).frames) = CostOf(l.frames) + QueueCost(l, t)
           /\ QueueCost(l, t) \in Nat
<1> DEFINE at == JoinsAt(l.frames, t)
           new == [type |-> t, n |-> 1]
           next == IF at = {} THEN Append(l.frames, new)
                   ELSE [l.frames EXCEPT ![Max(at)].n = @ + 1]
<1>0. Queued(l, t) = [l EXCEPT !.notify = TRUE, !.frames = next]
  <2>1. Joined(l.frames, t) = next
    BY DEF Joined
  <2> HIDE DEF next
  <2>2. QED
    BY <2>1 DEF Queued
<1>1. l.frames \in Seq(Frame) /\ new \in Frame /\ Len(l.frames) \in Nat
  <2>1. l.frames \in Seq(Frame)
    BY DEF Lane
  <2>2. new \in Frame
    BY DEF Frame, Kinds
  <2>3. QED
    BY <2>1, <2>2, LenProperties
<1>2. /\ next \in Seq(Frame)
      /\ CostOf(next) = CostOf(l.frames) + QueueCost(l, t)
      /\ QueueCost(l, t) \in Nat
  <2>1. CASE at = {}
    BY <1>1, <2>1, AppendProperties, CostAppended, FrameCostType DEF QueueCost
  <2>2. CASE at # {}
    <3> DEFINE i == Max(at)
               r == [l.frames EXCEPT ![i].n = @ + 1]
               f == l.frames[i]
    <3>1. at \subseteq 1 .. Len(l.frames)
      BY <1>1, LenProperties DEF JoinsAt
    <3>2. i \in at /\ i \in 1 .. Len(l.frames)
      BY <1>1, <2>2, <3>1, MaxIsIn
    <3>3. f \in Frame /\ f.type = t /\ t # "close"
      BY <1>1, <3>2, ElementOfSeq DEF JoinsAt
    <3> DEFINE h == [f EXCEPT !.n = @ + 1]
    <3>4. h \in Frame /\ h.type = t /\ h.n = f.n + 1 /\ f.n \in Nat
      BY <3>3 DEF Frame
    <3>5. next = [l.frames EXCEPT ![i] = h]
      BY <2>2
    <3>6. FrameCost(h) = FrameCost(f) + QueueCost(l, t) /\ QueueCost(l, t) \in Nat
          /\ FrameCost(f) \in Nat
      BY <2>2, <3>3, <3>4 DEF FrameCost, QueueCost, Kinds
    <3> HIDE DEF i, h, next
    <3>7. /\ next \in Seq(Frame)
          /\ CostOf(next) = CostOf(l.frames) - FrameCost(f) + FrameCost(h)
          /\ CostOf(l.frames) \in Nat
      BY <1>1, <3>2, <3>4, <3>5, CostReplaced
    <3>8. QED
      BY <3>6, <3>7
  <2>3. QED
    BY <2>1, <2>2
<1> HIDE DEF next
<1>3. QED
  BY <1>0, <1>2 DEF Lane

--------------------------------------------------------------------------------
(* Lanes: their types and what they hold.                                  *)

\* A lane holds a number of units, none when both its queues are empty.
LEMMA LaneCostOf ==
    ASSUME NEW l \in Lane
    PROVE  /\ CostOf(l.frames) \in Nat /\ CostOf(l.unacked) \in Nat /\ LaneCost(l) \in Nat
           /\ LaneCost(l) = CostOf(l.frames) + CostOf(l.unacked)
           /\ l.frames = << >> => CostOf(l.frames) = 0
           /\ l.unacked = << >> => CostOf(l.unacked) = 0
<1>1. ASSUME NEW q \in Seq(Frame)
      PROVE  CostOf(q) \in Nat
  <2> DEFINE g == [j \in 1 .. Len(q) |-> FrameCost(q[j])]
  <2>1. \A j \in 1 .. Len(q) : g[j] = FrameCost(q[j])
    OBVIOUS
  <2>2. QED
    BY <2>1, CostIs
<1>2. CostOf(l.frames) \in Nat /\ CostOf(l.unacked) \in Nat
  BY <1>1 DEF Lane
<1>3. QED
  BY <1>2, CostEmpty DEF LaneCost

\* A lane holds c units more when its queue does.
LEMMA LaneGrows ==
    ASSUME NEW l \in Lane, NEW m \in Lane, NEW c \in Nat, m.unacked = l.unacked,
           CostOf(m.frames) = CostOf(l.frames) + c
    PROVE  LaneCost(m) = LaneCost(l) + c
<1>1. /\ CostOf(m.frames) \in Nat /\ CostOf(m.unacked) \in Nat
      /\ LaneCost(m) = CostOf(m.frames) + CostOf(m.unacked)
  BY LaneCostOf
<1>2. /\ CostOf(l.frames) \in Nat
      /\ LaneCost(l) = CostOf(l.frames) + CostOf(l.unacked)
  BY LaneCostOf
<1>3. QED
  BY <1>1, <1>2

\* What becomes of a lane that is made, closed with the session or forgotten.
LEMMA EmptyLanes ==
    /\ NewLane \in Lane /\ NewLane.frames = << >> /\ NewLane.unacked = << >>
    /\ NewLane.superseded = None
    /\ \A l \in Lane :
         /\ Emptied(l) \in Lane /\ Emptied(l).frames = << >> /\ Emptied(l).unacked = << >>
         /\ Emptied(l).notify = TRUE /\ Emptied(l).superseded = l.superseded
         /\ Forgotten(l) \in Lane
         /\ Forgotten(l).frames = << >> /\ Forgotten(l).unacked = << >>
         /\ Forgotten(l).notify = TRUE /\ Forgotten(l).superseded = l.superseded
<1>1. << >> \in Seq(Frame) /\ << >> \in Seq(FrameTypes)
  BY EmptySeq
<1>2. NewLane \in Lane
  BY <1>1 DEF NewLane, Lane
<1>3. QED
  BY <1>1, <1>2 DEF NewLane, Lane, Emptied, Forgotten

\* A batch moves to the unacknowledged frames.
LEMMA TakenIs ==
    ASSUME NEW l \in Lane, NEW cursor \in Nat, NEW count \in BatchSizes(l)
    PROVE  /\ Taken(l, cursor, count) \in Lane
           /\ Taken(l, cursor, count).superseded = None
           /\ LaneCost(Taken(l, cursor, count)) = CostOf(l.frames)
           /\ l.frames # << >>
<1> DEFINE a == SubSeq(l.frames, 1, count)
           b == SubSeq(l.frames, count + 1, Len(l.frames))
           m == Taken(l, cursor, count)
<1>1. l.frames \in Seq(Frame)
  BY DEF Lane
<1>2. /\ a \in Seq(Frame) /\ b \in Seq(Frame)
      /\ CostOf(a) + CostOf(b) = CostOf(l.frames) /\ l.frames # << >>
  BY <1>1, BatchSizesOf, CostCut
<1>3. m = [l EXCEPT !.downActive = FALSE, !.superseded = None, !.unacked = a, !.frames = b,
                    !.unackedBase = cursor, !.downCursor = l.downCursor + 1]
  BY DEF Taken, Leaves
<1> DEFINE next == l.downCursor + 1
<1>4. m = [l EXCEPT !.downActive = FALSE, !.superseded = None, !.unacked = a, !.frames = b,
                    !.unackedBase = cursor, !.downCursor = next] /\ next \in Nat
  BY <1>3 DEF Lane
<1> HIDE DEF a, b, m, next
<1>5. m \in Lane
  BY <1>2, <1>4 DEF Lane
<1>6. m.superseded = None /\ m.unacked = a /\ m.frames = b
  BY <1>4 DEF Lane
<1>7. LaneCost(m) = CostOf(l.frames)
  BY <1>2, <1>5, <1>6, LaneCostOf
<1>8. QED
  BY <1>2, <1>5, <1>6, <1>7 DEF m

\* A poll that leaves, parks or acknowledges.
LEMMA LeavesIs ==
    ASSUME NEW l \in Lane
    PROVE  /\ Leaves(l) \in Lane /\ Leaves(l).superseded = None
           /\ Leaves(l).frames = l.frames /\ Leaves(l).unacked = l.unacked
           /\ Leaves(l).notify = l.notify
BY DEF Leaves, Lane

--------------------------------------------------------------------------------
(* The invariant.                                                          *)

SessionTypes ==
    /\ closed \in BOOLEAN
    /\ carrierLanes \in [LaneIDs -> Objects \cup {None}]
    /\ lanes \in [Objects -> Lane] /\ made \in 0 .. MaxLanes
    /\ writeCost \in [StreamIDs -> Nat \cup {None}]
    /\ tombstones \in Seq(StreamIDs)
    /\ pendingCost \in Nat

CallTypes ==
    /\ closing \in BOOLEAN
    /\ polls \in [Pollers -> PollState] /\ conns \in [Conns -> ConnState]

\* The lanes in the table have been made and are all different, a lane that is
\* in no place of it holds nothing, and while a poll waits at a lane nothing is
\* unacknowledged there.
TableInv ==
    /\ \A id \in LaneIDs : carrierLanes[id] # None => carrierLanes[id] \in 1 .. made
    /\ \A i, j \in LaneIDs : carrierLanes[i] # None /\ carrierLanes[i] = carrierLanes[j] => i = j
    /\ \A o \in Objects : (\A id \in LaneIDs : carrierLanes[id] # o) =>
         lanes[o].frames = << >> /\ lanes[o].unacked = << >>
    /\ \A o \in Objects : lanes[o].superseded # None => lanes[o].unacked = << >>

\* A poll is at a lane, one of the first n, exactly while it waits.
Placed(poll, n) ==
    /\ poll.lane # None => poll.lane \in 1 .. n
    /\ poll.pc \in {"parked", "woken"} <=> poll.lane # None

WaitersInv == \A p \in Pollers : Placed(polls[p], made)

\* The id has a lane, or one more may be made.
Room(id) == carrierLanes[id] # None \/ made < MaxLanes

\* The lane a call goes on with is that of the id, or a new one.
LEMMA LaneForIs ==
    ASSUME SessionTypes, TableInv, NEW id \in LaneIDs, Room(id)
    PROVE  /\ LaneFor(id) \in Objects /\ LaneState(id) \in Lane
           /\ LaneState(id).frames = lanes[LaneFor(id)].frames
           /\ LaneState(id).unacked = lanes[LaneFor(id)].unacked
           /\ \A j \in LaneIDs \ {id} : carrierLanes[j] # LaneFor(id)
           /\ carrierLanes[id] # None =>
                LaneFor(id) = carrierLanes[id] /\ LaneState(id) = lanes[LaneFor(id)]
           /\ carrierLanes[id] = None => LaneFor(id) = made + 1 /\ LaneState(id) = NewLane
           /\ LaneState(id).superseded # None => LaneState(id).unacked = << >>
<1>1. made \in Nat /\ MaxLanes \in Nat
  BY Limits DEF SessionTypes
<1>2. CASE carrierLanes[id] # None
  <2>1. LaneFor(id) = carrierLanes[id] /\ LaneState(id) = lanes[LaneFor(id)]
    BY <1>2 DEF LaneFor, LaneState
  <2>2. carrierLanes[id] \in Objects
    BY <1>2 DEF SessionTypes
  <2>3. \A j \in LaneIDs \ {id} : carrierLanes[j] # LaneFor(id)
    BY <1>2, <2>1 DEF TableInv
  <2>4. QED
    BY <1>2, <2>1, <2>2, <2>3 DEF SessionTypes, TableInv
<1>3. CASE carrierLanes[id] = None
  <2>1. LaneFor(id) = made + 1 /\ LaneState(id) = NewLane
    BY <1>3 DEF LaneFor, LaneState, Fresh
  <2>2. made + 1 \in Objects
    BY <1>1, <1>3 DEF Room, Objects
  <2>3. \A j \in LaneIDs : carrierLanes[j] # made + 1
    <3>1. ASSUME NEW j \in LaneIDs, carrierLanes[j] = made + 1
          PROVE  FALSE
      <4>1. made + 1 # None
        BY <1>1, Limits
      <4>2. made + 1 \in 1 .. made
        BY <3>1, <4>1 DEF TableInv
      <4>3. QED
        BY <1>1, <4>2
    <3>2. QED
      BY <3>1
  <2>4. lanes[made + 1].frames = << >> /\ lanes[made + 1].unacked = << >>
    BY <2>2, <2>3 DEF TableInv
  <2>5. QED
    BY <1>3, <2>1, <2>2, <2>3, <2>4, EmptyLanes
<1>4. QED
  BY <1>2, <1>3

--------------------------------------------------------------------------------
(* Tombstones.                                                             *)

\* Only the remembered id gets a tombstone, and another one may lose its own.
LEMMA TombstonesOf ==
    ASSUME SessionTypes, NEW id \in StreamIDs
    PROVE  /\ Remembered(id) \in Seq(StreamIDs)
           /\ \A i : Contains(Remembered(id), i) => Tombstoned(i) \/ i = id
           /\ Evicted(id) \subseteq StreamIDs
           /\ \A old \in Evicted(id) : Tombstoned(old) /\ old # id
           /\ \A old, other \in Evicted(id) : old = other
<1>1. tombstones \in Seq(StreamIDs) /\ Len(tombstones) \in Nat
      /\ MaxClosedStreamIDs \in Nat \ {0}
  BY Limits, LenProperties DEF SessionTypes
<1>2. CASE Tombstoned(id)
  BY <1>1, <1>2 DEF Remembered, Evicted, Tombstoned
<1>3. ASSUME NEW q \in Seq(StreamIDs), NEW i, Contains(Append(q, id), i)
      PROVE  Contains(q, i) \/ i = id
  <2>1. Len(q) \in Nat /\ Len(Append(q, id)) = Len(q) + 1 /\ Append(q, id)[Len(q) + 1] = id
        /\ \A k \in 1 .. Len(q) : Append(q, id)[k] = q[k]
    BY LenProperties, AppendProperties
  <2>2. PICK k \in 1 .. Len(Append(q, id)) : Append(q, id)[k] = i
    BY <1>3 DEF Contains
  <2>3. CASE k = Len(q) + 1
    BY <2>1, <2>2, <2>3
  <2>4. CASE k # Len(q) + 1
    <3>1. k \in 1 .. Len(q) /\ q[k] = i
      BY <2>1, <2>2, <2>4
    <3>2. QED
      BY <3>1 DEF Contains
  <2>5. QED
    BY <2>3, <2>4
<1>4. CASE ~Tombstoned(id) /\ Len(tombstones) < MaxClosedStreamIDs
  <2>1. Evicted(id) = {} /\ Remembered(id) = Append(tombstones, id)
    BY <1>4 DEF Evicted, Remembered
  <2>2. QED
    BY <1>1, <1>3, <2>1, AppendProperties DEF Tombstoned
<1>5. CASE ~Tombstoned(id) /\ ~(Len(tombstones) < MaxClosedStreamIDs)
  <2> DEFINE old == Head(tombstones)
             rest == Tail(tombstones)
  <2>1. tombstones # << >>
    BY <1>1, <1>5
  <2>2. /\ old \in StreamIDs /\ rest \in Seq(StreamIDs)
        /\ old = tombstones[1] /\ Len(rest) = Len(tombstones) - 1
        /\ \A k \in 1 .. Len(rest) : rest[k] = tombstones[k + 1]
    BY <1>1, <2>1, HeadTailProperties, ElementOfSeq
  <2>3. Evicted(id) = {old} /\ Remembered(id) = Append(rest, id)
    BY <1>5 DEF Evicted, Remembered
  <2>4. Tombstoned(old)
    <3>1. 1 \in 1 .. Len(tombstones)
      BY <1>1, <1>5
    <3>2. QED
      BY <2>2, <3>1 DEF Tombstoned, Contains
  <2>5. ASSUME NEW i, Contains(rest, i)
        PROVE  Tombstoned(i)
    <3>1. PICK k \in 1 .. Len(rest) : rest[k] = i
      BY <2>5 DEF Contains
    <3>2. k + 1 \in 1 .. Len(tombstones) /\ tombstones[k + 1] = i
      BY <1>1, <2>2, <3>1
    <3>3. QED
      BY <3>2 DEF Tombstoned, Contains
  <2> HIDE DEF old, rest
  <2>6. Append(rest, id) \in Seq(StreamIDs)
    BY <2>2, AppendProperties
  <2>7. \A i : Contains(Append(rest, id), i) => Tombstoned(i) \/ i = id
    BY <1>3, <2>2, <2>5
  <2>8. QED
    BY <1>5, <2>2, <2>3, <2>4, <2>6, <2>7
<1>6. QED
  BY <1>2, <1>4, <1>5

\* At most one lane is evicted: that of another id, which has a tombstone.
LEMMA EvictionOf ==
    ASSUME SessionTypes, TableInv, NEW id \in StreamIDs
    PROVE  \/ /\ EvictedLanes(id) = {} /\ EvictedCost(id) = 0
              /\ \A old \in Evicted(id) : carrierLanes[old] = None
           \/ \E old \in StreamIDs :
                /\ Evicted(id) = {old} /\ old # id /\ Tombstoned(old)
                /\ carrierLanes[old] \in Objects
                /\ EvictedLanes(id) = {carrierLanes[old]}
                /\ EvictedCost(id) = LaneCost(lanes[carrierLanes[old]])
<1>1. CASE EvictedLanes(id) = {}
  <2>1. EvictedCost(id) = 0
    BY <1>1, TotalEmpty DEF EvictedCost
  <2>2. QED
    BY <1>1, <2>1 DEF EvictedLanes
<1>2. CASE EvictedLanes(id) # {}
  <2>1. PICK old \in Evicted(id) : carrierLanes[old] # None
    BY <1>2 DEF EvictedLanes
  <2>2. /\ Evicted(id) = {old} /\ old \in StreamIDs /\ Tombstoned(old) /\ old # id
    BY <2>1, TombstonesOf
  <2> DEFINE e == carrierLanes[old]
             f == [o \in {e} |-> LaneCost(lanes[o])]
  <2>3. e \in Objects
    BY <2>1, <2>2, Limits DEF SessionTypes
  <2>4. EvictedLanes(id) = {e}
    BY <2>1, <2>2 DEF EvictedLanes
  <2>5. f[e] = LaneCost(lanes[e]) /\ LaneCost(lanes[e]) \in Nat
    BY <2>3, LaneCostOf DEF SessionTypes
  <2>6. Total({e}, f) = f[e]
    <3> HIDE DEF f, e
    <3>1. QED
      BY <2>5, TotalOne
  <2>7. EvictedCost(id) = Total({e}, f)
    BY <2>4 DEF EvictedCost
  <2>8. QED
    BY <2>2, <2>3, <2>4, <2>5, <2>6, <2>7
<1>3. QED
  BY <1>1, <1>2

--------------------------------------------------------------------------------
(* What a step may do to the session.                                      *)

Old(id) == IF Live(id) THEN writeCost[id] ELSE 0

\* The lane of an id is made or changed, and its stream charged.
Owns(id, own, add) ==
    /\ Room(id) /\ own.frames = LaneState(id).frames /\ own.unacked = LaneState(id).unacked
    /\ own.superseded = LaneState(id).superseded /\ own.notify = LaneState(id).notify
    /\ carrierLanes' = [carrierLanes EXCEPT ![id] = LaneFor(id)]
    /\ lanes' = [lanes EXCEPT ![LaneFor(id)] = own]
    /\ \/ add = 0 /\ UNCHANGED writeCost
       \/ /\ id \in StreamIDs /\ ~Tombstoned(id)
          /\ writeCost' = [writeCost EXCEPT ![id] = Old(id) + add]
    /\ pendingCost' = pendingCost + add
    /\ Makes(id) /\ UNCHANGED <<closed, tombstones>>

\* An id is remembered as closed, with n units more in its lane.
Remembers(id, own, n) ==
    /\ Room(id) /\ LaneCost(own) = LaneCost(LaneState(id)) + n
    /\ own.unacked = LaneState(id).unacked /\ own.superseded = LaneState(id).superseded
    /\ RememberClosed(id, LaneFor(id), own)
    /\ writeCost' = [writeCost EXCEPT ![id] = None]
    /\ pendingCost' = pendingCost - Old(id) - EvictedCost(id) + n
    /\ Makes(id) /\ UNCHANGED closed

\* A frame is queued, and perhaps a byte written.
Queues(id, t, d) ==
    /\ Live(id) /\ carrierLanes[id] # None /\ d <= writeCost[id]
    /\ lanes' = [lanes EXCEPT ![carrierLanes[id]] = Queued(@, t)]
    /\ writeCost' = [writeCost EXCEPT ![id] = @ - d]
    /\ pendingCost' = pendingCost - d + QueueCost(lanes[carrierLanes[id]], t)
    /\ UNCHANGED <<closed, carrierLanes, made, tombstones>>

\* A byte is written.
Writes(id) ==
    /\ Live(id) /\ writeCost[id] > 0
    /\ writeCost' = [writeCost EXCEPT ![id] = @ - 1]
    /\ pendingCost' = pendingCost - 1
    /\ UNCHANGED <<closed, carrierLanes, lanes, made, tombstones>>

\* A poll changes the lane it is at.
Polls(o, l) ==
    /\ lanes' = [lanes EXCEPT ![o] = l]
    /\ l.superseded # None => l.unacked = << >>
    /\ lanes[o].frames = << >> => l.frames = << >>
    /\ lanes[o].frames = << >> /\ lanes[o].unacked = << >> => l.unacked = << >>
    /\ pendingCost' = pendingCost - LaneCost(lanes[o]) + LaneCost(l)
    /\ UNCHANGED <<closed, carrierLanes, made, writeCost, tombstones>>

Still == UNCHANGED <<closed, carrierLanes, lanes, made, writeCost, tombstones, pendingCost>>

\* Every step of a call that is not a poll, and of the backends.
Serves ==
    \/ CloseLocked \/ Still
    \/ \E id \in LaneIDs, own \in Lane, add \in Nat : Owns(id, own, add)
    \/ \E id \in StreamIDs, own \in Lane, n \in Nat : Remembers(id, own, n)
    \/ \E id \in StreamIDs, t \in Kinds, d \in {0, 1} : Queues(id, t, d)
    \/ \E id \in StreamIDs : Writes(id)
    \/ \E id \in LaneIDs : ReleaseWebSocketLane(id)

Steps == Serves \/ \E o \in Objects, l \in Lane : Polls(o, l)

\* The client's batch leaves the lane as it was, but for what is committed.
LEMMA CommittedIs ==
    ASSUME NEW id, LaneState(id) \in Lane, NEW seq \in Nat, NEW body \in Seq(FrameTypes)
    PROVE  /\ Committed(id, seq, body) \in Lane
           /\ Committed(id, seq, body).frames = LaneState(id).frames
           /\ Committed(id, seq, body).unacked = LaneState(id).unacked
           /\ Committed(id, seq, body).superseded = LaneState(id).superseded
           /\ Committed(id, seq, body).notify = LaneState(id).notify
           /\ \A t : QueueCost(Committed(id, seq, body), t) = QueueCost(LaneState(id), t)
<1> DEFINE l == LaneState(id)
<1>1. Committed(id, seq, body) = [l EXCEPT !.lastUpSequence = seq, !.lastUpDigest = body]
  BY DEF Committed
<1> HIDE DEF l
<1>2. l \in Lane
  BY DEF l
<1>3. /\ Committed(id, seq, body) \in Lane
      /\ Committed(id, seq, body).frames = l.frames
      /\ Committed(id, seq, body).unacked = l.unacked
      /\ Committed(id, seq, body).superseded = l.superseded
      /\ Committed(id, seq, body).notify = l.notify
  BY <1>1, <1>2 DEF Lane
<1>4. \A t : QueueCost(Committed(id, seq, body), t) = QueueCost(l, t)
  BY <1>3 DEF QueueCost
<1>5. QED
  BY <1>3, <1>4 DEF l

\* A batch is applied.
LEMMA UpAppliesShape ==
    ASSUME SessionTypes, TableInv, LiveStreamHasLane,
           NEW id \in LaneIDs, NEW seq \in Nat, NEW body \in Seq(FrameTypes), NEW res,
           UpApplies(id, seq, body, res)
    PROVE  Serves
<1> DEFINE own == Committed(id, seq, body)
<1>1. body \in Seq(FrameTypes) /\ body # << >>
  BY LaneBatchAssumption DEF UpApplies, UpGoes, Parses
<1>2. Room(id)
  BY DEF UpApplies, UpGoes, HasLaneFor, Room
<1>3. LaneState(id) \in Lane /\ LaneFor(id) \in Objects
  BY <1>2, LaneForIs
<1>4. /\ own \in Lane /\ own.frames = LaneState(id).frames
      /\ own.unacked = LaneState(id).unacked /\ own.superseded = LaneState(id).superseded
      /\ own.notify = LaneState(id).notify
  BY <1>1, <1>3, CommittedIs
<1>5. Makes(id) /\ UNCHANGED closed /\ ValidBatch(id, body) /\ Parses(id, body)
  BY DEF UpApplies, UpGoes
<1> HIDE DEF own
<1>6. CASE id = 0 \/ (Tombstoned(id) /\ Head(body) # "open")
  <2>1. /\ lanes' = [lanes EXCEPT ![LaneFor(id)] = own]
        /\ UNCHANGED <<carrierLanes, tombstones, writeCost, pendingCost>>
    BY <1>6 DEF UpApplies, own
  <2>2. carrierLanes[id] # None
    BY <1>6 DEF UpApplies, UpGoes, HasLaneFor
  <2>3. carrierLanes' = [carrierLanes EXCEPT ![id] = LaneFor(id)]
    BY <2>1, <2>2, <1>2, LaneForIs DEF SessionTypes
  <2>4. pendingCost' = pendingCost + 0
    BY <2>1 DEF SessionTypes
  <2>5. Owns(id, own, 0)
    BY <1>2, <1>4, <1>5, <2>1, <2>3, <2>4 DEF Owns
  <2>6. QED
    BY <1>4, <2>5 DEF Serves
<1>7. CASE ~(id = 0 \/ (Tombstoned(id) /\ Head(body) # "open"))
  <2>1. id \in StreamIDs
    BY <1>7 DEF LaneIDs
  <2>2. ~Tombstoned(id)
    BY <1>5, <1>7, <2>1 DEF ValidBatch, LiveStreamHasLane, LiveIDs
  <2>3. CASE Closes(body)
    <3>1. /\ RememberClosed(id, LaneFor(id), own)
          /\ writeCost' = [writeCost EXCEPT ![id] = None]
          /\ pendingCost' = pendingCost - Old(id) - EvictedCost(id)
      BY <1>7, <2>3 DEF UpApplies, own, Old
    <3>2. LaneCost(own) = LaneCost(LaneState(id)) + 0
      BY <1>3, <1>4, LaneCostOf
    <3>3. pendingCost' = pendingCost - Old(id) - EvictedCost(id) + 0
      BY <3>1
    <3>4. Remembers(id, own, 0)
      BY <1>2, <1>4, <1>5, <3>1, <3>2, <3>3 DEF Remembers
    <3>5. QED
      BY <1>4, <2>1, <3>4 DEF Serves
  <2>4. CASE ~Closes(body)
    <3>1. PICK add \in DataFrames(id, body) .. Reservation(id, body) :
            /\ lanes' = [lanes EXCEPT ![LaneFor(id)] = own]
            /\ carrierLanes' = [carrierLanes EXCEPT ![id] = LaneFor(id)]
            /\ writeCost' = [writeCost EXCEPT ![id] = Old(id) + add]
            /\ pendingCost' = pendingCost + add
            /\ UNCHANGED tombstones
      BY <1>7, <2>4 DEF UpApplies, own, Old
    <3>2. DataFrames(id, body) \in Nat
      <4> DEFINE D == {i \in DOMAIN body :
                         body[i] = "data" /\ \A j \in 1 .. i : body[j] # "close"}
      <4>1. Len(body) \in Nat /\ DOMAIN body = 1 .. Len(body)
        BY <1>1, LenProperties
      <4>2. IsFiniteSet(DOMAIN body)
        BY <4>1, FS_Interval
      <4>3. D \subseteq DOMAIN body
        OBVIOUS
      <4>4. Cardinality(D) \in Nat
        BY <4>2, <4>3, PartIsFinite
      <4>5. QED
        BY <4>4 DEF DataFrames
    <3>3. add \in Nat
      BY <3>1, <3>2 DEF Reservation
    <3>4. Owns(id, own, add)
      BY <1>2, <1>4, <1>5, <2>1, <2>2, <3>1 DEF Owns
    <3>5. QED
      BY <1>4, <3>3, <3>4 DEF Serves
  <2>5. QED
    BY <2>3, <2>4
<1>8. QED
  BY <1>6, <1>7

\* An OPEN is rejected.
LEMMA UpRejectsShape ==
    ASSUME SessionTypes, TableInv,
           NEW id \in LaneIDs, NEW seq \in Nat, NEW body \in Seq(FrameTypes), NEW res,
           UpRejects(id, seq, body, res)
    PROVE  Serves
<1> DEFINE own == Committed(id, seq, body)
           answered == Queued(own, "close")
           cost == QueueCost(LaneState(id), "close")
<1>1. /\ body \in Seq(FrameTypes) /\ body # << >>
      /\ Parses(id, body) /\ Head(body) = "open" /\ ValidBatch(id, body)
  BY LaneBatchAssumption DEF UpRejects, UpGoes, Parses
<1>2. id \in StreamIDs
  <2>1. Head(body) \in Range(body)
    BY <1>1, HeadTailProperties DEF Range
  <2>2. id # 0
    BY <1>1, <2>1 DEF Parses
  <2>3. QED
    BY <2>2 DEF LaneIDs
<1>3. ~Live(id) /\ id # 0
  BY <1>1, <1>2, Limits DEF ValidBatch
<1>4. Room(id)
  BY DEF UpRejects, UpGoes, HasLaneFor, Room
<1>5. LaneState(id) \in Lane /\ LaneFor(id) \in Objects
  BY <1>4, LaneForIs
<1>6. /\ own \in Lane /\ own.frames = LaneState(id).frames
      /\ own.unacked = LaneState(id).unacked /\ own.superseded = LaneState(id).superseded
      /\ QueueCost(own, "close") = cost
  BY <1>1, <1>5, CommittedIs
<1>7. /\ answered \in Lane /\ answered.unacked = LaneState(id).unacked
      /\ answered.superseded = LaneState(id).superseded
      /\ CostOf(answered.frames) = CostOf(LaneState(id).frames) + cost
      /\ cost \in Nat
  <2>1. "close" \in Kinds
    BY DEF Kinds
  <2> HIDE DEF own, cost
  <2>2. QED
    BY <1>6, <2>1, QueuedIs
<1>8. LaneCost(answered) = LaneCost(LaneState(id)) + cost
  <2> HIDE DEF answered, cost
  <2>1. QED
    BY <1>5, <1>7, LaneGrows
<1>9. /\ writeCost' = [writeCost EXCEPT ![id] = None] /\ Makes(id) /\ UNCHANGED closed
  BY <1>2, <1>3 DEF UpRejects, SessionTypes, Live
<1>10. Old(id) = 0
  BY <1>3 DEF Old
<1>11. CASE /\ RememberClosed(id, LaneFor(id), answered)
            /\ pendingCost' = pendingCost - EvictedCost(id) + cost
  <2>1. pendingCost' = pendingCost - Old(id) - EvictedCost(id) + cost
    BY <1>10, <1>11 DEF SessionTypes
  <2>2. Remembers(id, answered, cost)
    BY <1>4, <1>7, <1>8, <1>9, <1>11, <2>1 DEF Remembers
  <2>3. QED
    BY <1>2, <1>7, <2>2 DEF Serves
<1>12. CASE /\ RememberClosed(id, LaneFor(id), LaneState(id))
            /\ pendingCost' = pendingCost - EvictedCost(id)
  <2>1. pendingCost' = pendingCost - Old(id) - EvictedCost(id) + 0
    BY <1>10, <1>12 DEF SessionTypes
  <2>2. LaneCost(LaneState(id)) = LaneCost(LaneState(id)) + 0
    BY <1>5, LaneCostOf
  <2>3. Remembers(id, LaneState(id), 0)
    BY <1>4, <1>9, <1>12, <2>1, <2>2 DEF Remembers
  <2>4. QED
    BY <1>2, <1>5, <2>3 DEF Serves
<1>13. QED
  BY <1>11, <1>12 DEF UpRejects

\* A batch is processed.
LEMMA ProcessShape ==
    ASSUME SessionTypes, TableInv, LiveStreamHasLane,
           NEW id \in LaneIDs, NEW seq \in Nat, NEW body \in Seq(FrameTypes), NEW res,
           ProcessUpLane(id, seq, body, res)
    PROVE  Serves
<1>1. CASE UpUnchanged(id, seq, body, res)
  BY <1>1 DEF UpUnchanged, Serves, Still
<1>2. CASE UpStops(id, seq, body, res)
  <2>1. Room(id)
    BY <1>2 DEF UpStops, HasLaneFor, Room
  <2>2. LaneState(id) \in Lane
    BY <2>1, LaneForIs
  <2>3. /\ carrierLanes' = [carrierLanes EXCEPT ![id] = LaneFor(id)]
        /\ lanes' = [lanes EXCEPT ![LaneFor(id)] = LaneState(id)]
        /\ Makes(id) /\ UNCHANGED <<closed, writeCost, tombstones, pendingCost>>
    BY <1>2 DEF UpStops
  <2>4. pendingCost' = pendingCost + 0
    BY <2>3 DEF SessionTypes
  <2>5. Owns(id, LaneState(id), 0)
    BY <2>1, <2>3, <2>4 DEF Owns
  <2>6. QED
    BY <2>2, <2>5 DEF Serves
<1>3. CASE UpApplies(id, seq, body, res)
  BY <1>3, UpAppliesShape
<1>4. CASE UpRejects(id, seq, body, res)
  BY <1>4, UpRejectsShape
<1>5. QED
  BY <1>1, <1>2, <1>3, <1>4 DEF ProcessUpLane

\* What the backend of a stream does.
LEMMA BackendShape ==
    ASSUME SessionTypes, TableInv, LiveStreamHasLane, NEW id \in StreamIDs,
           \/ BackendData(id) \/ BackendDrained(id) \/ BackendWriteFinished(id)
           \/ BackendClosed(id)
    PROVE  Serves
<1> DEFINE o == carrierLanes[id]
<1>1. Live(id) /\ o # None /\ o \in Objects /\ lanes[o] \in Lane
      /\ writeCost[id] \in Nat
  <2>1. Live(id)
    BY DEF BackendData, BackendDrained, BackendWriteFinished, BackendClosed
  <2>2. o # None
    BY <2>1 DEF LiveStreamHasLane, LiveIDs
  <2>3. QED
    BY <2>1, <2>2, Limits DEF SessionTypes, Live
<1>2. CASE BackendData(id)
  <2>1. /\ lanes' = [lanes EXCEPT ![o] = Queued(@, "data")]
        /\ pendingCost' = pendingCost + QueueCost(lanes[o], "data")
        /\ UNCHANGED <<closed, carrierLanes, made, writeCost, tombstones>>
    BY <1>2 DEF BackendData
  <2>2. writeCost' = [writeCost EXCEPT ![id] = @ - 0]
    BY <1>1, <2>1 DEF SessionTypes
  <2>3. pendingCost' = pendingCost - 0 + QueueCost(lanes[o], "data")
    BY <2>1 DEF SessionTypes
  <2>4. Queues(id, "data", 0)
    <3> DEFINE d == 0
    <3>1. /\ writeCost' = [writeCost EXCEPT ![id] = @ - d]
          /\ pendingCost' = pendingCost - d + QueueCost(lanes[o], "data")
          /\ d <= writeCost[id]
      BY <1>1, <2>2, <2>3
    <3> HIDE DEF d
    <3>2. Queues(id, "data", d)
      BY <1>1, <2>1, <3>1 DEF Queues
    <3>3. QED
      BY <3>2 DEF d
  <2>5. QED
    BY <2>4 DEF Serves, Kinds
<1>3. CASE BackendDrained(id)
  <2>1. CASE /\ lanes' = [lanes EXCEPT ![o] = Queued(@, "window")]
             /\ pendingCost' = pendingCost - 1 + QueueCost(lanes[o], "window")
    <3>1. Queues(id, "window", 1)
      BY <1>1, <1>3, <2>1 DEF Queues, BackendDrained
    <3>2. QED
      BY <3>1 DEF Serves, Kinds
  <2>2. CASE pendingCost' = pendingCost - 1 /\ UNCHANGED lanes
    BY <1>3, <2>2 DEF Serves, Writes, BackendDrained
  <2>3. QED
    BY <1>3, <2>1, <2>2 DEF BackendDrained
<1>4. CASE BackendWriteFinished(id)
  BY <1>4 DEF BackendWriteFinished, Serves, Writes
<1>5. CASE BackendClosed(id)
  <2> DEFINE own == Queued(lanes[o], "close")
             cost == QueueCost(lanes[o], "close")
  <2>1. CASE CloseLocked
    BY <2>1 DEF Serves
  <2>2. CASE /\ RememberClosed(id, o, own)
             /\ writeCost' = [writeCost EXCEPT ![id] = None]
             /\ pendingCost' = pendingCost - writeCost[id] - EvictedCost(id) + cost
             /\ UNCHANGED <<closed, made>>
    <3>1. Room(id)
      BY <1>1 DEF Room
    <3>2. LaneFor(id) = o /\ LaneState(id) = lanes[o]
      BY <1>1 DEF LaneFor, LaneState
    <3>3. /\ own \in Lane /\ own.unacked = lanes[o].unacked
          /\ own.superseded = lanes[o].superseded
          /\ CostOf(own.frames) = CostOf(lanes[o].frames) + cost
          /\ cost \in Nat
      <4>1. "close" \in Kinds
        BY DEF Kinds
      <4>2. QED
        BY <1>1, <4>1, QueuedIs
    <3>4. LaneCost(own) = LaneCost(lanes[o]) + cost
      <4> HIDE DEF own, cost
      <4>1. QED
        BY <1>1, <3>3, LaneGrows
    <3>5. Makes(id)
      BY <1>1, <2>2 DEF Makes
    <3>6. Old(id) = writeCost[id]
      BY <1>1 DEF Old
    <3>7. Remembers(id, own, cost)
      BY <2>2, <3>1, <3>2, <3>3, <3>4, <3>5, <3>6 DEF Remembers
    <3>8. QED
      BY <3>3, <3>7 DEF Serves
  <2>3. QED
    BY <1>5, <2>1, <2>2 DEF BackendClosed
<1>6. QED
  BY <1>2, <1>3, <1>4, <1>5

\* A socket takes its lane.
LEMMA ServeWebSocketShape ==
    ASSUME SessionTypes, TableInv, NEW c \in Conns, NEW id \in StreamIDs,
           ServeWebSocket(c, id)
    PROVE  Serves
<1> DEFINE l == LaneState(id)
           own == [l EXCEPT !.websocketActive = TRUE]
<1>1. Room(id) /\ id \in LaneIDs
  BY Limits DEF ServeWebSocket, Acquirable, Room
<1>2. l \in Lane
  BY <1>1, LaneForIs
<1>3. /\ carrierLanes' = [carrierLanes EXCEPT ![id] = LaneFor(id)]
      /\ lanes' = [lanes EXCEPT ![LaneFor(id)] = own]
      /\ Makes(id) /\ UNCHANGED <<closed, closing, writeCost, tombstones, pendingCost>>
  BY DEF ServeWebSocket
<1>4. pendingCost' = pendingCost + 0
  BY <1>3 DEF SessionTypes
<1>5. /\ own \in Lane /\ own.frames = l.frames /\ own.unacked = l.unacked
      /\ own.superseded = l.superseded /\ own.notify = l.notify
  <2> HIDE DEF l
  <2>1. QED
    BY <1>2 DEF Lane
<1>6. Owns(id, own, 0)
  BY <1>1, <1>3, <1>4, <1>5 DEF Owns
<1>7. QED
  BY <1>1, <1>5, <1>6 DEF Serves

\* A poll that takes a batch, leaves or waits.
LEMMA PollingIs ==
    ASSUME SessionTypes, TableInv, NEW o \in Objects, NEW l \in Lane,
           LaneCost(l) = LaneCost(lanes[o]),
           l.superseded # None => l.unacked = << >>,
           lanes[o].frames = << >> => l.frames = << >>,
           lanes[o].frames = << >> /\ lanes[o].unacked = << >> => l.unacked = << >>,
           lanes' = [lanes EXCEPT ![o] = l], PollUnchanged, UNCHANGED pendingCost
    PROVE  Polls(o, l)
<1>1. LaneCost(l) \in Nat /\ pendingCost' = pendingCost - LaneCost(lanes[o]) + LaneCost(l)
  BY LaneCostOf DEF SessionTypes
<1>2. QED
  BY <1>1 DEF Polls, PollUnchanged

\* A poll comes in.
LEMMA PollEntersShape ==
    ASSUME SessionTypes, TableInv, NEW p \in Pollers, NEW call \in PollState,
           PollEnters(p, call)
    PROVE  Steps
<1> DEFINE o == carrierLanes[call.id]
           lane == lanes[o]
           acked == [lane EXCEPT !.unacked = << >>]
<1>1. CASE PollRejected(p, call)
  BY <1>1 DEF PollRejected, Steps, Serves, Still
<1>2. CASE PollReplays(p, call)
  BY <1>2 DEF PollReplays, PollUnchanged, Steps, Serves, Still
<1>3. CASE PollAdmitted(p, call)
  <2>1. /\ o # None /\ PollUnchanged
        /\ pendingCost' = pendingCost - CostOf(lane.unacked)
    BY <1>3 DEF PollAdmitted
  <2>2. o \in Objects /\ lane \in Lane /\ call.cursor \in Nat
    BY <2>1 DEF SessionTypes, PollState
  <2>3. /\ acked \in Lane /\ acked.frames = lane.frames /\ acked.unacked = << >>
        /\ acked.superseded = lane.superseded
    <3>1. << >> \in Seq(Frame)
      BY EmptySeq
    <3> HIDE DEF lane
    <3>2. QED
      BY <2>2, <3>1 DEF Lane
  <2>4. CostOf(lane.unacked) \in Nat /\ CostOf(lane.frames) \in Nat
        /\ LaneCost(lane) = CostOf(lane.frames) + CostOf(lane.unacked)
    BY <2>2, LaneCostOf
  <2>5. ASSUME NEW l \in Lane, lanes' = [lanes EXCEPT ![o] = l],
               LaneCost(l) = CostOf(lane.frames),
               l.superseded # None => l.unacked = << >>,
               lane.frames = << >> => l.frames = << >> /\ l.unacked = << >>
        PROVE  Steps
    <3>1. pendingCost' = pendingCost - LaneCost(lane) + LaneCost(l)
      BY <2>1, <2>4, <2>5 DEF SessionTypes
    <3>2. Polls(o, l)
      BY <2>1, <2>5, <3>1 DEF Polls, PollUnchanged
    <3>3. QED
      BY <2>2, <2>5, <3>2 DEF Steps
  <2>6. ASSUME NEW l \in Lane, lanes' = [lanes EXCEPT ![o] = l],
               l.frames = lane.frames, l.unacked = << >>
        PROVE  Steps
    <3>1. LaneCost(l) = CostOf(lane.frames)
      BY <2>4, <2>6, LaneCostOf
    <3>2. QED
      BY <2>5, <2>6, <3>1
  <2>7. CASE \E count \in BatchSizes(acked) :
               lanes' = [lanes EXCEPT ![o] = Taken(acked, call.cursor, count)]
    <3>1. PICK count \in BatchSizes(acked) :
            lanes' = [lanes EXCEPT ![o] = Taken(acked, call.cursor, count)]
      BY <2>7
    <3> DEFINE l == Taken(acked, call.cursor, count)
    <3>2. /\ l \in Lane /\ l.superseded = None /\ LaneCost(l) = CostOf(lane.frames)
          /\ lane.frames # << >>
      <4> HIDE DEF acked
      <4>1. QED
        BY <2>2, <2>3, <3>1, TakenIs
    <3> HIDE DEF l, acked
    <3>3. lanes' = [lanes EXCEPT ![o] = l]
      BY <3>1 DEF l
    <3>4. QED
      BY <2>5, <3>2, <3>3
  <2>8. CASE lanes' = [lanes EXCEPT ![o] = Leaves(acked)]
    <3>1. Leaves(acked) \in Lane /\ Leaves(acked).frames = lane.frames
          /\ Leaves(acked).unacked = << >>
      <4> HIDE DEF acked
      <4>1. QED
        BY <2>3, LeavesIs
    <3> HIDE DEF acked
    <3>2. QED
      BY <2>6, <2>8, <3>1
  <2>9. CASE lanes' = [lanes EXCEPT ![o] = [acked EXCEPT !.downActive = TRUE, !.superseded = p]]
    <3> DEFINE l == [acked EXCEPT !.downActive = TRUE, !.superseded = p]
    <3>1. l \in Lane /\ l.frames = lane.frames /\ l.unacked = << >>
      <4> HIDE DEF acked
      <4>1. QED
        BY <2>3 DEF Lane
    <3> HIDE DEF l, acked
    <3>2. lanes' = [lanes EXCEPT ![o] = l]
      BY <2>9 DEF l, acked
    <3>3. QED
      BY <2>6, <3>1, <3>2
  <2>10. QED
    BY <1>3, <2>7, <2>8, <2>9 DEF PollAdmitted
<1>4. QED
  BY <1>1, <1>2, <1>3 DEF PollEnters

\* A poll that waits goes on.
LEMMA PollWaitsShape ==
    ASSUME SessionTypes, CallTypes, TableInv, WaitersInv, NEW p \in Pollers,
           Selects(p) \/ PollGivesUp(p) \/ PollExpires(p)
    PROVE  Steps
<1> DEFINE o == polls[p].lane
           l == lanes[o]
<1>1. polls[p] \in PollState /\ polls[p].pc \in {"parked", "woken"}
  BY DEF CallTypes, Selects, PollReceivesToken, PollSuperseded, PollWoken, PollGivesUp,
         PollExpires
<1>2. o \in Objects /\ l \in Lane /\ polls[p].cursor \in Nat
  BY <1>1 DEF WaitersInv, Placed, PollState, SessionTypes
<1>3. PollUnchanged /\ UNCHANGED pendingCost
  BY DEF Selects, PollReceivesToken, PollSuperseded, PollWoken, PollGivesUp, PollExpires
<1>4. l.superseded # None => l.unacked = << >>
  BY <1>2 DEF TableInv
<1>5. ASSUME NEW m \in Lane, lanes' = [lanes EXCEPT ![o] = m],
             m.frames = l.frames, m.unacked = l.unacked,
             m.superseded = None \/ m.superseded = l.superseded
      PROVE  Steps
  <2>1. LaneCost(m) = LaneCost(l)
    BY <1>5 DEF LaneCost
  <2>2. m.superseded # None => m.unacked = << >>
    BY <1>4, <1>5
  <2>3. Polls(o, m)
    BY <1>2, <1>3, <1>5, <2>1, <2>2, PollingIs
  <2>4. QED
    BY <1>2, <2>3 DEF Steps
<1>6. CASE l.superseded = p /\ \E count \in BatchSizes(l) :
             lanes' = [lanes EXCEPT ![o] = Taken(l, polls[p].cursor, count)]
  <2>1. PICK count \in BatchSizes(l) :
          lanes' = [lanes EXCEPT ![o] = Taken(l, polls[p].cursor, count)]
    BY <1>6
  <2> DEFINE m == Taken(l, polls[p].cursor, count)
  <2>2. l.unacked = << >>
    BY <1>4, <1>6, Limits
  <2>3. m \in Lane /\ m.superseded = None /\ LaneCost(m) = CostOf(l.frames) /\ l.frames # << >>
    <3> HIDE DEF l
    <3>1. QED
      BY <1>2, <2>1, TakenIs
  <2>4. LaneCost(l) = CostOf(l.frames)
    BY <1>2, <2>2, LaneCostOf
  <2>5. lanes' = [lanes EXCEPT ![o] = m]
    BY <2>1
  <2> HIDE DEF m
  <2>6. Polls(o, m)
    BY <1>2, <1>3, <2>3, <2>4, <2>5, PollingIs
  <2>7. QED
    BY <1>2, <2>3, <2>6 DEF Steps
<1>7. CASE lanes' = [lanes EXCEPT ![o] = Leaves(l)]
  BY <1>2, <1>5, <1>7, LeavesIs
<1>8. CASE UNCHANGED lanes
  BY <1>3, <1>8 DEF Steps, Serves, Still, PollUnchanged
<1>9. CASE \E b \in BOOLEAN : lanes' = [lanes EXCEPT ![o].notify = b]
  <2>1. PICK b \in BOOLEAN : lanes' = [lanes EXCEPT ![o].notify = b]
    BY <1>9
  <2> DEFINE m == [l EXCEPT !.notify = b]
  <2>2. lanes' = [lanes EXCEPT ![o] = m]
    BY <2>1
  <2>3. /\ m \in Lane /\ m.frames = l.frames /\ m.unacked = l.unacked
        /\ m.superseded = l.superseded
    <3> HIDE DEF l
    <3>1. QED
      BY <1>2 DEF Lane
  <2> HIDE DEF m
  <2>4. QED
    BY <1>5, <2>2, <2>3
<1>10. CASE PollReceivesToken(p)
  BY <1>9, <1>10 DEF PollReceivesToken
<1>11. CASE PollSuperseded(p)
  BY <1>9, <1>11 DEF PollSuperseded
<1>12. CASE PollWoken(p)
  BY <1>6, <1>7, <1>8, <1>12 DEF PollWoken
<1>13. CASE PollExpires(p)
  BY <1>6, <1>7, <1>13 DEF PollExpires
<1>14. CASE PollGivesUp(p)
  <2>1. lanes' = [lanes EXCEPT ![o] = IF l.superseded = p THEN Leaves(l) ELSE l]
    BY <1>14 DEF PollGivesUp
  <2>2. CASE l.superseded = p
    BY <1>7, <2>1, <2>2
  <2>3. CASE l.superseded # p
    BY <1>2, <1>5, <2>1, <2>3
  <2>4. QED
    BY <2>2, <2>3
<1>15. QED
  BY <1>10, <1>11, <1>12, <1>13, <1>14 DEF Selects

--------------------------------------------------------------------------------
(* The charge.                                                             *)

LaneCosts == [o \in Objects |-> LaneCost(lanes[o])]
WriteCosts == [id \in StreamIDs |-> Old(id)]

\* The session is charged for every lane and for what its streams have to write.
ChargeInv == pendingCost = Total(Objects, LaneCosts) + Total(StreamIDs, WriteCosts)

\* The sums are over finite sets of numbers.
LEMMA ChargesAre ==
    ASSUME lanes \in [Objects -> Lane], writeCost \in [StreamIDs -> Nat \cup {None}]
    PROVE  /\ Charged(Objects, LaneCosts) /\ Total(Objects, LaneCosts) \in Nat
           /\ Charged(StreamIDs, WriteCosts) /\ Total(StreamIDs, WriteCosts) \in Nat
           /\ \A o \in Objects : LaneCosts[o] = LaneCost(lanes[o]) /\ LaneCosts[o] \in Nat
           /\ \A id \in StreamIDs : WriteCosts[id] = Old(id) /\ Old(id) \in Nat
<1>1. \A o \in Objects : LaneCosts[o] = LaneCost(lanes[o]) /\ LaneCosts[o] \in Nat
  BY LaneCostOf DEF LaneCosts
<1>2. \A id \in StreamIDs : WriteCosts[id] = Old(id) /\ Old(id) \in Nat
  BY DEF WriteCosts, Old, Live
<1>3. Charged(Objects, LaneCosts) /\ Charged(StreamIDs, WriteCosts)
  BY <1>1, <1>2, Limits DEF Charged
<1>4. QED
  BY <1>1, <1>2, <1>3, TotalType

\* The lane o changes, and those of E, at most one other, lose what they hold.
LanesChange(o, E, c) ==
    /\ \/ E = {} /\ c = 0
       \/ \E e \in Objects \ {o} : E = {e} /\ c = LaneCost(lanes[e])
    /\ \A e \in E : LaneCost(lanes'[e]) = 0
    /\ \A k \in Objects \ (E \cup {o}) : lanes'[k] = lanes[k]

\* The sum over the lanes follows such a change.
LEMMA LaneCostsChange ==
    ASSUME SessionTypes, lanes' \in [Objects -> Lane], NEW o \in Objects, NEW E, NEW c,
           LanesChange(o, E, c)
    PROVE  Total(Objects, LaneCosts')
             = Total(Objects, LaneCosts) - LaneCost(lanes[o]) + LaneCost(lanes'[o]) - c
<1>1. /\ Charged(Objects, LaneCosts)
      /\ \A k \in Objects : LaneCosts[k] = LaneCost(lanes[k])
  BY ChargesAre DEF SessionTypes
<1>2. \A k \in Objects : LaneCosts'[k] = LaneCost(lanes'[k]) /\ LaneCosts'[k] \in Nat
  <2>1. \A k \in Objects : LaneCosts'[k] = LaneCost(lanes'[k])
    BY DEF LaneCosts, LaneCost
  <2>2. QED
    BY <2>1, LaneCostOf
<1>3. \/ E = {} /\ c = 0
      \/ \E e \in Objects \ {o} : E = {e} /\ c = LaneCosts[e]
  BY <1>1 DEF LanesChange
<1>4. \A e \in E : LaneCosts'[e] = 0
  BY <1>2, <1>3 DEF LanesChange
<1>5. \A k \in Objects \ (E \cup {o}) : LaneCosts'[k] = LaneCosts[k]
  BY <1>1, <1>2 DEF LanesChange
<1>6. Total(Objects, LaneCosts')
        = Total(Objects, LaneCosts) - LaneCosts[o] + LaneCosts'[o] - c
  <2>1. ValuesChange(Objects, LaneCosts, LaneCosts', o, E, c)
    BY <1>2, <1>3, <1>4, <1>5 DEF ValuesChange
  <2>2. QED
    BY <1>1, <2>1, TotalChanges
<1>7. QED
  BY <1>1, <1>2, <1>6

\* The charge of one stream changes.
LEMMA WriteCostsChange ==
    ASSUME SessionTypes, writeCost' \in [StreamIDs -> Nat \cup {None}], NEW id \in StreamIDs,
           \A i \in StreamIDs \ {id} : writeCost'[i] = writeCost[i]
    PROVE  /\ Total(StreamIDs, WriteCosts') = Total(StreamIDs, WriteCosts) - Old(id) + Old(id)'
           /\ Old(id)' \in Nat
<1>1. Charged(StreamIDs, WriteCosts) /\ \A i \in StreamIDs : WriteCosts[i] = Old(i)
  BY ChargesAre DEF SessionTypes
<1>2. \A i \in StreamIDs : WriteCosts'[i] = Old(i)' /\ Old(i)' \in Nat
  BY DEF WriteCosts, Old, Live
<1>3. \A i \in StreamIDs \ {id} : WriteCosts'[i] = WriteCosts[i]
  <2>1. \A i \in StreamIDs \ {id} : Old(i)' = Old(i)
    BY DEF Old, Live
  <2>2. QED
    BY <1>1, <1>2, <2>1
<1>4. Total(StreamIDs, WriteCosts') = Total(StreamIDs, WriteCosts) - WriteCosts[id] + WriteCosts'[id]
  BY <1>1, <1>2, <1>3, TotalChange
<1>5. QED
  BY <1>1, <1>2, <1>4

\* What a step has to preserve of the session.
SessionInv == SessionTypes /\ TableInv /\ LiveStreamHasLane /\ ChargeInv

\* The charge is a number.
LEMMA SessionStep ==
    ASSUME closed' \in BOOLEAN, carrierLanes' \in [LaneIDs -> Objects \cup {None}],
           lanes' \in [Objects -> Lane], made' \in 0 .. MaxLanes,
           writeCost' \in [StreamIDs -> Nat \cup {None}], tombstones' \in Seq(StreamIDs),
           TableInv', LiveStreamHasLane',
           pendingCost' = Total(Objects, LaneCosts') + Total(StreamIDs, WriteCosts')
    PROVE  SessionInv'
<1>1. \A o \in Objects : LaneCosts'[o] \in Nat
  <2>1. \A o \in Objects : LaneCosts'[o] = LaneCost(lanes'[o])
    BY DEF LaneCosts, LaneCost
  <2>2. QED
    BY <2>1, LaneCostOf
<1>2. \A id \in StreamIDs : WriteCosts'[id] \in Nat
  BY DEF WriteCosts, Old, Live
<1>3. Charged(Objects, LaneCosts') /\ Charged(StreamIDs, WriteCosts')
  BY <1>1, <1>2, Limits DEF Charged
<1>4. Total(Objects, LaneCosts') \in Nat /\ Total(StreamIDs, WriteCosts') \in Nat
  BY <1>3, TotalType
<1>5. pendingCost' \in Nat
  BY <1>4
<1>6. QED
  BY <1>5 DEF SessionInv, SessionTypes, ChargeInv

\* The table after a lane has been made or used, and perhaps others dropped.
LEMMA TableStep ==
    ASSUME SessionTypes, TableInv, NEW id \in LaneIDs, Room(id), NEW E, id \notin E,
           carrierLanes' = [i \in LaneIDs |->
             IF i = id THEN LaneFor(id) ELSE IF i \in E THEN None ELSE carrierLanes[i]],
           Makes(id),
           \A k \in Objects \ {LaneFor(id)} :
             \/ lanes'[k] = lanes[k]
             \/ lanes'[k].frames = << >> /\ lanes'[k].unacked = << >>,
           \A i \in E : i \in LaneIDs /\ carrierLanes[i] # None =>
             lanes'[carrierLanes[i]].frames = << >> /\ lanes'[carrierLanes[i]].unacked = << >>,
           lanes'[LaneFor(id)].superseded # None => lanes'[LaneFor(id)].unacked = << >>
    PROVE  /\ carrierLanes' \in [LaneIDs -> Objects \cup {None}]
           /\ made' \in 0 .. MaxLanes /\ TableInv'
<1> DEFINE o == LaneFor(id)
<1>1. /\ o \in Objects /\ \A j \in LaneIDs \ {id} : carrierLanes[j] # o
      /\ carrierLanes[id] # None => o = carrierLanes[id]
      /\ carrierLanes[id] = None => o = made + 1
  BY LaneForIs
<1>2. made \in Nat /\ MaxLanes \in Nat /\ made <= MaxLanes
  BY Limits DEF SessionTypes
<1>3. /\ made' \in 0 .. MaxLanes /\ made <= made'
      /\ o \in 1 .. made'
  <2>1. CASE carrierLanes[id] = None
    BY <1>1, <1>2, <2>1 DEF Makes, Room
  <2>2. CASE carrierLanes[id] # None
    <3>1. made' = made /\ o \in 1 .. made
      BY <1>1, <2>2 DEF Makes, TableInv
    <3>2. QED
      BY <1>2, <3>1
  <2>3. QED
    BY <2>1, <2>2
<1> HIDE DEF o
<1>4. carrierLanes' = [i \in LaneIDs |->
        IF i = id THEN o ELSE IF i \in E THEN None ELSE carrierLanes[i]]
  BY DEF o
<1>5. carrierLanes' \in [LaneIDs -> Objects \cup {None}]
  BY <1>1, <1>4 DEF SessionTypes
<1>6. ASSUME NEW j \in LaneIDs, carrierLanes'[j] # None
      PROVE  /\ carrierLanes'[j] \in 1 .. made'
             /\ j # id => carrierLanes'[j] = carrierLanes[j] /\ j \notin E
  <2>1. CASE j = id
    BY <1>3, <1>4, <2>1
  <2>2. CASE j # id
    <3>1. carrierLanes'[j] = carrierLanes[j] /\ j \notin E
      BY <1>4, <1>6, <2>2
    <3>2. carrierLanes[j] \in 1 .. made
      BY <1>6, <3>1 DEF TableInv
    <3>3. QED
      BY <1>2, <1>3, <3>1, <3>2
  <2>3. QED
    BY <2>1, <2>2
<1>7. ASSUME NEW i \in LaneIDs, NEW j \in LaneIDs,
             carrierLanes'[i] # None, carrierLanes'[i] = carrierLanes'[j]
      PROVE  i = j
  <2>1. CASE i = id \/ j = id
    BY <1>1, <1>4, <1>6, <1>7, <2>1
  <2>2. CASE i # id /\ j # id
    BY <1>6, <1>7, <2>2 DEF TableInv
  <2>3. QED
    BY <2>1, <2>2
<1>8. ASSUME NEW k \in Objects, \A j \in LaneIDs : carrierLanes'[j] # k
      PROVE  lanes'[k].frames = << >> /\ lanes'[k].unacked = << >>
  <2>1. k # o
    BY <1>4, <1>8
  <2>2. CASE \E j \in E : j \in LaneIDs /\ carrierLanes[j] = k
    <3>1. k # None
      BY Limits
    <3>2. QED
      BY <2>2, <3>1
  <2>3. CASE ~\E j \in E : j \in LaneIDs /\ carrierLanes[j] = k
    <3>1. ASSUME NEW j \in LaneIDs, carrierLanes[j] = k
          PROVE  FALSE
      <4>1. j # id
        BY <1>1, <2>1, <3>1, Limits
      <4>2. carrierLanes'[j] = k
        BY <1>4, <2>3, <3>1, <4>1
      <4>3. QED
        BY <1>8, <4>2
    <3>2. lanes[k].frames = << >> /\ lanes[k].unacked = << >>
      BY <3>1 DEF TableInv
    <3>3. QED
      BY <2>1, <3>2 DEF o
  <2>4. QED
    BY <2>2, <2>3
<1>9. ASSUME NEW k \in Objects, lanes'[k].superseded # None
      PROVE  lanes'[k].unacked = << >>
  BY <1>9 DEF TableInv
<1>10. TableInv'
  BY <1>6, <1>7, <1>8, <1>9 DEF TableInv
<1>11. QED
  BY <1>3, <1>5, <1>10

\* A lane is made or used.
LEMMA OwnsStep ==
    ASSUME SessionInv, NEW id \in LaneIDs, NEW own \in Lane, NEW add \in Nat,
           Owns(id, own, add)
    PROVE  SessionInv'
<1> DEFINE o == LaneFor(id)
<1>0. SessionTypes /\ TableInv /\ LiveStreamHasLane /\ ChargeInv /\ Room(id)
  BY DEF SessionInv, Owns
<1>1. /\ o \in Objects /\ LaneState(id) \in Lane
      /\ own.frames = lanes[o].frames /\ own.unacked = lanes[o].unacked
      /\ own.superseded # None => own.unacked = << >>
  BY <1>0, LaneForIs DEF Owns
<1>2. /\ carrierLanes' = [carrierLanes EXCEPT ![id] = o]
      /\ lanes' = [lanes EXCEPT ![o] = own]
      /\ pendingCost' = pendingCost + add
      /\ Makes(id) /\ closed' = closed /\ tombstones' = tombstones
      /\ \/ add = 0 /\ writeCost' = writeCost
         \/ /\ id \in StreamIDs /\ ~Tombstoned(id)
            /\ writeCost' = [writeCost EXCEPT ![id] = Old(id) + add]
  BY DEF Owns
<1> HIDE DEF o
<1>3. /\ lanes' \in [Objects -> Lane] /\ lanes'[o] = own
      /\ \A k \in Objects \ {o} : lanes'[k] = lanes[k]
  BY <1>0, <1>1, <1>2 DEF SessionTypes
<1>4. /\ carrierLanes' \in [LaneIDs -> Objects \cup {None}]
      /\ made' \in 0 .. MaxLanes /\ TableInv'
  <2> DEFINE E == {}
  <2>1. /\ carrierLanes' = [i \in LaneIDs |->
             IF i = id THEN LaneFor(id) ELSE IF i \in E THEN None ELSE carrierLanes[i]]
        /\ \A i \in E : FALSE
    BY <1>0, <1>2 DEF SessionTypes, o
  <2>2. /\ \A k \in Objects \ {LaneFor(id)} : lanes'[k] = lanes[k]
        /\ lanes'[LaneFor(id)].superseded # None => lanes'[LaneFor(id)].unacked = << >>
    BY <1>1, <1>3 DEF o
  <2> HIDE DEF E
  <2>3. QED
    BY <1>0, <1>2, <2>1, <2>2, TableStep
<1>5. /\ writeCost' \in [StreamIDs -> Nat \cup {None}]
      /\ Total(StreamIDs, WriteCosts') = Total(StreamIDs, WriteCosts) + add
      /\ \A i \in StreamIDs : writeCost'[i] # None =>
           Live(i) \/ (i = id /\ ~Tombstoned(id))
  <2>1. Total(StreamIDs, WriteCosts) \in Nat /\ \A i \in StreamIDs : Old(i) \in Nat
    BY <1>0, ChargesAre DEF SessionTypes
  <2>2. CASE add = 0 /\ writeCost' = writeCost
    <3>1. WriteCosts' = WriteCosts
      BY <2>2 DEF WriteCosts, Old, Live
    <3>2. QED
      BY <1>0, <2>1, <2>2, <3>1, Limits DEF SessionTypes, Live
  <2>3. CASE /\ id \in StreamIDs /\ ~Tombstoned(id)
             /\ writeCost' = [writeCost EXCEPT ![id] = Old(id) + add]
    <3>1. Old(id) + add \in Nat /\ Old(id) + add # None
      BY <2>1, <2>3, Limits
    <3>2. /\ writeCost' \in [StreamIDs -> Nat \cup {None}]
          /\ writeCost'[id] = Old(id) + add
          /\ \A i \in StreamIDs \ {id} : writeCost'[i] = writeCost[i]
      BY <1>0, <2>3, <3>1 DEF SessionTypes
    <3>3. Old(id)' = Old(id) + add
      BY <2>3, <3>1, <3>2, Limits DEF Old, Live
    <3>4. Total(StreamIDs, WriteCosts') = Total(StreamIDs, WriteCosts) - Old(id) + Old(id)'
      BY <1>0, <2>3, <3>2, WriteCostsChange
    <3>5. Total(StreamIDs, WriteCosts') = Total(StreamIDs, WriteCosts) + add
      BY <2>1, <2>3, <3>3, <3>4
    <3>6. QED
      BY <2>3, <3>2, <3>5, Limits DEF Live
  <2>4. QED
    BY <1>2, <2>2, <2>3
<1>6. LiveStreamHasLane'
  <2>1. ASSUME NEW i \in StreamIDs, writeCost'[i] # None
        PROVE  carrierLanes'[i] # None /\ ~Tombstoned(i)'
    <3>1. Tombstoned(i)' = Tombstoned(i)
      BY <1>2 DEF Tombstoned
    <3>2. CASE i = id
      <4>1. carrierLanes'[i] = o /\ o # None
        BY <1>0, <1>1, <1>2, <3>2, Limits DEF SessionTypes
      <4>2. QED
        BY <1>0, <1>5, <2>1, <3>1, <3>2, <4>1 DEF LiveStreamHasLane, LiveIDs
    <3>3. CASE i # id
      <4>1. Live(i) /\ carrierLanes'[i] = carrierLanes[i]
        BY <1>0, <1>2, <1>5, <2>1, <3>3, Limits DEF SessionTypes
      <4>2. QED
        BY <1>0, <3>1, <4>1 DEF LiveStreamHasLane, LiveIDs
    <3>4. QED
      BY <3>2, <3>3
  <2>2. QED
    BY <2>1 DEF LiveStreamHasLane, LiveIDs, Live
<1>7. Total(Objects, LaneCosts') = Total(Objects, LaneCosts)
  <2> DEFINE E == {}
             c == 0
  <2>0. LanesChange(o, E, c) /\ c = 0
    BY <1>3 DEF LanesChange
  <2> HIDE DEF E, c
  <2>1. Total(Objects, LaneCosts')
          = Total(Objects, LaneCosts) - LaneCost(lanes[o]) + LaneCost(lanes'[o]) - c
    BY <1>0, <1>1, <1>3, <2>0, LaneCostsChange
  <2>2. LaneCost(lanes'[o]) = LaneCost(lanes[o]) /\ LaneCost(lanes[o]) \in Nat
    BY <1>0, <1>1, <1>3, LaneCostOf DEF SessionTypes
  <2>3. Total(Objects, LaneCosts) \in Nat
    BY <1>0, ChargesAre DEF SessionTypes
  <2>4. QED
    BY <2>0, <2>1, <2>2, <2>3
<1>8. pendingCost' = Total(Objects, LaneCosts') + Total(StreamIDs, WriteCosts')
  <2>1. Total(StreamIDs, WriteCosts) \in Nat /\ Total(Objects, LaneCosts) \in Nat
    BY <1>0, ChargesAre DEF SessionTypes
  <2>2. QED
    BY <1>0, <1>2, <1>5, <1>7, <2>1 DEF ChargeInv
<1>9. closed' \in BOOLEAN /\ tombstones' \in Seq(StreamIDs)
  BY <1>0, <1>2 DEF SessionTypes
<1>10. QED
  BY <1>3, <1>4, <1>5, <1>6, <1>8, <1>9, SessionStep

\* The lanes that remembering an id evicts, of which o is not one.
LEMMA EvictedOthers ==
    ASSUME SessionTypes, TableInv, NEW id \in StreamIDs, NEW o,
           \A j \in LaneIDs \ {id} : carrierLanes[j] # o
    PROVE  /\ \/ EvictedLanes(id) = {} /\ EvictedCost(id) = 0
              \/ \E e \in Objects \ {o} :
                   EvictedLanes(id) = {e} /\ EvictedCost(id) = LaneCost(lanes[e])
           /\ EvictedLanes(id) \subseteq Objects /\ o \notin EvictedLanes(id)
           /\ EvictedCost(id) \in Nat
           /\ \A i \in Evicted(id) : i \in LaneIDs /\ i # id /\ Tombstoned(i)
           /\ \A i \in Evicted(id) : carrierLanes[i] # None => carrierLanes[i] \in EvictedLanes(id)
<1>1. \A i \in Evicted(id) : i \in LaneIDs /\ i # id /\ Tombstoned(i)
  BY TombstonesOf, Limits
<1>2. \A i \in Evicted(id) : carrierLanes[i] # None => carrierLanes[i] \in EvictedLanes(id)
  BY DEF EvictedLanes
<1>3. CASE EvictedLanes(id) = {} /\ EvictedCost(id) = 0
  BY <1>1, <1>2, <1>3
<1>4. ASSUME NEW old \in StreamIDs,
             Evicted(id) = {old} /\ old # id /\ Tombstoned(old),
             carrierLanes[old] \in Objects, EvictedLanes(id) = {carrierLanes[old]},
             EvictedCost(id) = LaneCost(lanes[carrierLanes[old]])
      PROVE  /\ EvictedCost(id) \in Nat
             /\ \E e \in Objects \ {o} :
                  EvictedLanes(id) = {e} /\ EvictedCost(id) = LaneCost(lanes[e])
  <2>1. carrierLanes[old] # o
    BY <1>4, Limits
  <2>2. EvictedCost(id) \in Nat
    BY <1>4, LaneCostOf DEF SessionTypes
  <2>3. QED
    BY <1>4, <2>1, <2>2
<1>5. CASE /\ EvictedCost(id) \in Nat
           /\ \E e \in Objects \ {o} :
                EvictedLanes(id) = {e} /\ EvictedCost(id) = LaneCost(lanes[e])
  <2>1. EvictedLanes(id) \subseteq Objects /\ o \notin EvictedLanes(id)
    BY <1>5
  <2>2. QED
    BY <1>1, <1>2, <1>5, <2>1
<1>6. QED
  BY <1>3, <1>4, <1>5, EvictionOf

\* The lanes and the tombstones when an id is remembered.
LEMMA RememberedLanes ==
    ASSUME SessionTypes, TableInv, NEW id \in StreamIDs, NEW own \in Lane, NEW n \in Nat,
           Remembers(id, own, n)
    PROVE  /\ LaneFor(id) \in Objects
           /\ lanes' \in [Objects -> Lane]
           /\ LanesChange(LaneFor(id), EvictedLanes(id), EvictedCost(id))
           /\ lanes'[LaneFor(id)].frames = own.frames
           /\ lanes'[LaneFor(id)].unacked = own.unacked
           /\ lanes'[LaneFor(id)].superseded = own.superseded
           /\ lanes'[LaneFor(id)].notify
           /\ LaneCost(lanes'[LaneFor(id)]) = LaneCost(own)
           /\ \A e \in EvictedLanes(id) :
                e \in Objects \ {LaneFor(id)} /\ lanes'[e] = Forgotten(lanes[e])
           /\ \A k \in Objects \ {LaneFor(id)} :
                k \in EvictedLanes(id) \/ lanes'[k] = lanes[k]
<1> DEFINE o == LaneFor(id)
           m == [own EXCEPT !.notify = TRUE]
<1>1. /\ o \in Objects /\ \A j \in LaneIDs \ {id} : carrierLanes[j] # o
  BY Limits, LaneForIs DEF Remembers
<1>2. m \in Lane /\ m.frames = own.frames /\ m.unacked = own.unacked
      /\ m.superseded = own.superseded /\ m.notify
  BY DEF Lane
<1>3. lanes' = [k \in Objects |->
         IF k = o THEN m
         ELSE IF k \in EvictedLanes(id) THEN Forgotten(lanes[k]) ELSE lanes[k]]
  BY DEF Remembers, RememberClosed
<1> HIDE DEF o, m
<1>4. /\ \/ EvictedLanes(id) = {} /\ EvictedCost(id) = 0
         \/ \E e \in Objects \ {o} :
              EvictedLanes(id) = {e} /\ EvictedCost(id) = LaneCost(lanes[e])
      /\ EvictedLanes(id) \subseteq Objects /\ o \notin EvictedLanes(id)
  BY <1>1, EvictedOthers
<1>5. \A k \in Objects : lanes[k] \in Lane /\ Forgotten(lanes[k]) \in Lane
                         /\ LaneCost(Forgotten(lanes[k])) = 0
  <2>1. \A k \in Objects : lanes[k] \in Lane
    BY DEF SessionTypes
  <2>2. QED
    BY <2>1, EmptyLanes, LaneCostOf
<1>6. lanes' \in [Objects -> Lane] /\ lanes'[o] = m
  BY <1>1, <1>2, <1>3, <1>5
<1>7. \A e \in EvictedLanes(id) : e \in Objects \ {o} /\ lanes'[e] = Forgotten(lanes[e])
  BY <1>3, <1>4
<1>8. \A k \in Objects \ {o} : k \in EvictedLanes(id) \/ lanes'[k] = lanes[k]
  BY <1>3
<1>9. LanesChange(o, EvictedLanes(id), EvictedCost(id))
  <2>1. \A e \in EvictedLanes(id) : LaneCost(lanes'[e]) = 0
    BY <1>5, <1>7
  <2>2. \A k \in Objects \ (EvictedLanes(id) \cup {o}) : lanes'[k] = lanes[k]
    BY <1>8
  <2>3. QED
    BY <1>4, <2>1, <2>2 DEF LanesChange
<1>10. LaneCost(m) = LaneCost(own)
  BY <1>2 DEF LaneCost
<1>11. QED
  BY <1>1, <1>2, <1>6, <1>7, <1>8, <1>9, <1>10 DEF o

\* An id is remembered.
LEMMA RemembersStep ==
    ASSUME SessionInv, NEW id \in StreamIDs, NEW own \in Lane, NEW n \in Nat,
           Remembers(id, own, n)
    PROVE  SessionInv'
<1> DEFINE o == LaneFor(id)
           E == EvictedLanes(id)
           c == EvictedCost(id)
<1>0. SessionTypes /\ TableInv /\ LiveStreamHasLane /\ ChargeInv /\ Room(id) /\ id \in LaneIDs
  BY Limits DEF SessionInv, Remembers
<1>1. /\ o \in Objects /\ LaneState(id) \in Lane
      /\ LaneState(id).frames = lanes[o].frames /\ LaneState(id).unacked = lanes[o].unacked
      /\ \A j \in LaneIDs \ {id} : carrierLanes[j] # o
      /\ LaneState(id).superseded # None => LaneState(id).unacked = << >>
  BY <1>0, LaneForIs
<1>2. /\ LaneCost(own) = LaneCost(LaneState(id)) + n
      /\ own.unacked = LaneState(id).unacked /\ own.superseded = LaneState(id).superseded
      /\ tombstones' = Remembered(id)
      /\ carrierLanes' = [i \in LaneIDs |->
           IF i = id THEN o ELSE IF i \in Evicted(id) THEN None ELSE carrierLanes[i]]
      /\ writeCost' = [writeCost EXCEPT ![id] = None]
      /\ pendingCost' = pendingCost - Old(id) - c + n
      /\ Makes(id) /\ closed' = closed
  BY DEF Remembers, RememberClosed
<1>3. /\ lanes' \in [Objects -> Lane]
      /\ LanesChange(o, E, c)
      /\ lanes'[o].unacked = own.unacked /\ lanes'[o].superseded = own.superseded
      /\ LaneCost(lanes'[o]) = LaneCost(own)
      /\ \A e \in E : e \in Objects \ {o} /\ lanes'[e] = Forgotten(lanes[e])
      /\ \A k \in Objects \ {o} : k \in E \/ lanes'[k] = lanes[k]
  BY <1>0, RememberedLanes
<1>4. /\ c \in Nat
      /\ \A i \in Evicted(id) : i \in LaneIDs /\ i # id /\ Tombstoned(i)
      /\ \A i \in Evicted(id) : carrierLanes[i] # None => carrierLanes[i] \in E
  BY <1>0, <1>1, EvictedOthers
<1>5. \A e \in E : lanes'[e].frames = << >> /\ lanes'[e].unacked = << >>
  BY <1>0, <1>3, EmptyLanes DEF SessionTypes
<1> HIDE DEF E, c
<1>6. /\ carrierLanes' \in [LaneIDs -> Objects \cup {None}]
      /\ made' \in 0 .. MaxLanes /\ TableInv'
  <2>1. /\ carrierLanes' = [i \in LaneIDs |->
             IF i = id THEN LaneFor(id)
             ELSE IF i \in Evicted(id) THEN None ELSE carrierLanes[i]]
        /\ id \notin Evicted(id)
    BY <1>2, <1>4
  <2>2. \A k \in Objects \ {LaneFor(id)} :
          \/ lanes'[k] = lanes[k]
          \/ lanes'[k].frames = << >> /\ lanes'[k].unacked = << >>
    BY <1>3, <1>5
  <2>3. \A i \in Evicted(id) : i \in LaneIDs /\ carrierLanes[i] # None =>
          lanes'[carrierLanes[i]].frames = << >> /\ lanes'[carrierLanes[i]].unacked = << >>
    BY <1>4, <1>5
  <2>4. lanes'[LaneFor(id)].superseded # None => lanes'[LaneFor(id)].unacked = << >>
    BY <1>1, <1>2, <1>3
  <2>5. QED
    BY <1>0, <1>2, <2>1, <2>2, <2>3, <2>4, TableStep
<1>7. /\ writeCost' \in [StreamIDs -> Nat \cup {None}]
      /\ writeCost'[id] = None
      /\ \A i \in StreamIDs \ {id} : writeCost'[i] = writeCost[i]
  BY <1>0, <1>2 DEF SessionTypes
<1>8. LiveStreamHasLane'
  <2>1. ASSUME NEW i \in StreamIDs, writeCost'[i] # None
        PROVE  carrierLanes'[i] # None /\ ~Tombstoned(i)'
    <3>1. i # id /\ Live(i)
      BY <1>7, <2>1, Limits DEF Live
    <3>2. carrierLanes[i] # None /\ ~Tombstoned(i)
      BY <1>0, <3>1 DEF LiveStreamHasLane, LiveIDs
    <3>3. carrierLanes'[i] = carrierLanes[i]
      BY <1>2, <1>4, <3>1, <3>2, Limits
    <3>4. ~Tombstoned(i)'
      <4>1. \A j : Contains(Remembered(id), j) => Tombstoned(j) \/ j = id
        BY <1>0, TombstonesOf
      <4>2. QED
        BY <1>2, <3>1, <3>2, <4>1 DEF Tombstoned
    <3>5. QED
      BY <3>2, <3>3, <3>4
  <2>2. QED
    BY <2>1 DEF LiveStreamHasLane, LiveIDs, Live
<1>9. /\ Total(StreamIDs, WriteCosts') = Total(StreamIDs, WriteCosts) - Old(id)
      /\ Total(StreamIDs, WriteCosts) \in Nat /\ Old(id) \in Nat
  <2>1. Total(StreamIDs, WriteCosts) \in Nat /\ Old(id) \in Nat
    BY <1>0, ChargesAre DEF SessionTypes
  <2>2. Old(id)' = 0
    BY <1>7 DEF Old, Live
  <2>3. Total(StreamIDs, WriteCosts') = Total(StreamIDs, WriteCosts) - Old(id) + Old(id)'
    BY <1>0, <1>7, WriteCostsChange
  <2>4. QED
    BY <2>1, <2>2, <2>3
<1>10. /\ Total(Objects, LaneCosts') = Total(Objects, LaneCosts) + n - c
       /\ Total(Objects, LaneCosts) \in Nat
  <2>1. Total(Objects, LaneCosts')
          = Total(Objects, LaneCosts) - LaneCost(lanes[o]) + LaneCost(lanes'[o]) - c
    BY <1>0, <1>1, <1>3, LaneCostsChange
  <2>2. LaneCost(LaneState(id)) = LaneCost(lanes[o]) /\ LaneCost(lanes[o]) \in Nat
    BY <1>0, <1>1, LaneCostOf DEF SessionTypes, LaneCost
  <2>3. Total(Objects, LaneCosts) \in Nat
    BY <1>0, ChargesAre DEF SessionTypes
  <2> HIDE DEF o
  <2>4. LaneCost(lanes'[o]) = LaneCost(lanes[o]) + n
    BY <1>2, <1>3, <2>2
  <2>5. QED
    BY <1>4, <2>1, <2>2, <2>3, <2>4
<1>11. pendingCost' = Total(Objects, LaneCosts') + Total(StreamIDs, WriteCosts')
  BY <1>0, <1>2, <1>4, <1>9, <1>10 DEF ChargeInv
<1>12. closed' \in BOOLEAN /\ tombstones' \in Seq(StreamIDs)
  BY <1>0, <1>2, TombstonesOf DEF SessionTypes
<1>13. QED
  BY <1>3, <1>6, <1>7, <1>8, <1>11, <1>12, SessionStep

\* One lane changes, and the table does not.
LEMMA LaneStep ==
    ASSUME SessionTypes, TableInv, NEW o \in Objects, NEW l \in Lane,
           lanes' = [lanes EXCEPT ![o] = l], UNCHANGED <<carrierLanes, made>>,
           l.superseded # None => l.unacked = << >>,
           (\A id \in LaneIDs : carrierLanes[id] # o) => l.frames = << >> /\ l.unacked = << >>
    PROVE  /\ lanes' \in [Objects -> Lane] /\ TableInv'
           /\ lanes'[o] = l /\ \A k \in Objects \ {o} : lanes'[k] = lanes[k]
           /\ Total(Objects, LaneCosts')
                = Total(Objects, LaneCosts) - LaneCost(lanes[o]) + LaneCost(l)
           /\ LaneCost(lanes[o]) \in Nat /\ LaneCost(l) \in Nat
           /\ Total(Objects, LaneCosts) \in Nat
<1>1. /\ lanes' \in [Objects -> Lane] /\ lanes'[o] = l
      /\ \A k \in Objects \ {o} : lanes'[k] = lanes[k]
  BY DEF SessionTypes
<1>2. TableInv'
  BY <1>1 DEF TableInv
<1>3. Total(Objects, LaneCosts) \in Nat /\ LaneCost(lanes[o]) \in Nat /\ LaneCost(l) \in Nat
  BY ChargesAre, LaneCostOf DEF SessionTypes
<1> DEFINE E == {}
           c == 0
<1>4. LanesChange(o, E, c) /\ c = 0
  BY <1>1 DEF LanesChange
<1> HIDE DEF E, c
<1>5. Total(Objects, LaneCosts')
        = Total(Objects, LaneCosts) - LaneCost(lanes[o]) + LaneCost(lanes'[o]) - c
  BY <1>1, <1>4, LaneCostsChange
<1>6. QED
  BY <1>1, <1>2, <1>3, <1>4, <1>5

\* Streams that stay live keep their lanes.
LEMMA LiveStep ==
    ASSUME LiveStreamHasLane, UNCHANGED <<carrierLanes, tombstones>>,
           \A id \in StreamIDs : writeCost'[id] # None => Live(id)
    PROVE  LiveStreamHasLane'
<1>1. ASSUME NEW i \in StreamIDs, writeCost'[i] # None
      PROVE  carrierLanes'[i] # None /\ ~Tombstoned(i)'
  <2>1. Live(i)
    BY <1>1
  <2>2. carrierLanes[i] # None /\ ~Tombstoned(i)
    BY <2>1 DEF LiveStreamHasLane, LiveIDs
  <2>3. QED
    BY <2>2 DEF Tombstoned
<1>2. QED
  BY <1>1 DEF LiveStreamHasLane, LiveIDs, Live

\* A poll changes its lane.
LEMMA PollsStep ==
    ASSUME SessionInv, NEW o \in Objects, NEW l \in Lane, Polls(o, l)
    PROVE  SessionInv'
<1>1. SessionTypes /\ TableInv /\ LiveStreamHasLane /\ ChargeInv
  BY DEF SessionInv
<1>2. /\ lanes' = [lanes EXCEPT ![o] = l]
      /\ l.superseded # None => l.unacked = << >>
      /\ pendingCost' = pendingCost - LaneCost(lanes[o]) + LaneCost(l)
      /\ closed' = closed /\ carrierLanes' = carrierLanes /\ made' = made
      /\ writeCost' = writeCost /\ tombstones' = tombstones
  BY DEF Polls
<1>3. (\A id \in LaneIDs : carrierLanes[id] # o) => l.frames = << >> /\ l.unacked = << >>
  BY <1>1 DEF TableInv, Polls
<1>4. /\ lanes' \in [Objects -> Lane] /\ TableInv'
      /\ Total(Objects, LaneCosts')
           = Total(Objects, LaneCosts) - LaneCost(lanes[o]) + LaneCost(l)
      /\ LaneCost(lanes[o]) \in Nat /\ LaneCost(l) \in Nat
      /\ Total(Objects, LaneCosts) \in Nat
  BY <1>1, <1>2, <1>3, LaneStep
<1>5. LiveStreamHasLane'
  <2>1. \A id \in StreamIDs : writeCost'[id] # None => Live(id)
    BY <1>2, Limits DEF Live
  <2>2. QED
    BY <1>1, <1>2, <2>1, LiveStep
<1>6. WriteCosts' = WriteCosts /\ Total(StreamIDs, WriteCosts) \in Nat
  BY <1>1, <1>2, ChargesAre DEF WriteCosts, Old, Live, SessionTypes
<1>7. pendingCost' = Total(Objects, LaneCosts') + Total(StreamIDs, WriteCosts')
  <2>1. Total(StreamIDs, WriteCosts') = Total(StreamIDs, WriteCosts)
    BY <1>6
  <2>2. QED
    BY <1>1, <1>2, <1>4, <1>6, <2>1 DEF ChargeInv
<1>8. QED
  BY <1>1, <1>2, <1>4, <1>5, <1>7, SessionStep DEF SessionTypes

\* The stream of an id has n units less to write.
LEMMA WriteStep ==
    ASSUME SessionTypes, NEW id \in StreamIDs, Live(id), NEW n \in Nat, n <= writeCost[id],
           writeCost' = [writeCost EXCEPT ![id] = @ - n]
    PROVE  /\ writeCost' \in [StreamIDs -> Nat \cup {None}]
           /\ Total(StreamIDs, WriteCosts') = Total(StreamIDs, WriteCosts) - n
           /\ Total(StreamIDs, WriteCosts) \in Nat
           /\ \A i \in StreamIDs : writeCost'[i] # None => Live(i)
<1>1. writeCost[id] \in Nat /\ id # 0
  BY Limits DEF SessionTypes, Live
<1>2. writeCost[id] - n \in Nat
  BY <1>1
<1>3. /\ writeCost' \in [StreamIDs -> Nat \cup {None}]
      /\ writeCost'[id] = writeCost[id] - n
      /\ \A i \in StreamIDs \ {id} : writeCost'[i] = writeCost[i]
  BY <1>2 DEF SessionTypes
<1>4. Old(id) = writeCost[id] /\ Old(id)' = writeCost[id] - n
  BY <1>1, <1>2, <1>3, Limits DEF Old, Live
<1>5. Total(StreamIDs, WriteCosts') = Total(StreamIDs, WriteCosts) - Old(id) + Old(id)'
  BY <1>3, WriteCostsChange
<1>6. Total(StreamIDs, WriteCosts) \in Nat
  BY ChargesAre DEF SessionTypes
<1>7. QED
  BY <1>1, <1>2, <1>3, <1>4, <1>5, <1>6, Limits DEF Live

\* A frame is queued, and perhaps a byte written.
LEMMA QueuesStep ==
    ASSUME SessionInv, NEW id \in StreamIDs, NEW t \in Kinds, NEW d \in {0, 1},
           Queues(id, t, d)
    PROVE  SessionInv'
<1> DEFINE o == carrierLanes[id]
           l == Queued(lanes[o], t)
           cost == QueueCost(lanes[o], t)
<1>1. SessionTypes /\ TableInv /\ LiveStreamHasLane /\ ChargeInv
  BY DEF SessionInv
<1>2. o \in Objects /\ id \in LaneIDs /\ lanes[o] \in Lane /\ d \in Nat
  BY <1>1, Limits DEF Queues, SessionTypes
<1>3. /\ lanes' = [lanes EXCEPT ![o] = l]
      /\ writeCost' = [writeCost EXCEPT ![id] = @ - d]
      /\ pendingCost' = pendingCost - d + cost
      /\ closed' = closed /\ carrierLanes' = carrierLanes /\ made' = made
      /\ tombstones' = tombstones
      /\ Live(id) /\ d <= writeCost[id]
  BY DEF Queues
<1>4. /\ l \in Lane /\ l.unacked = lanes[o].unacked /\ l.superseded = lanes[o].superseded
      /\ CostOf(l.frames) = CostOf(lanes[o].frames) + cost /\ cost \in Nat
  BY <1>2, QueuedIs
<1>5. carrierLanes[id] = o
  OBVIOUS
<1> HIDE DEF o, l, cost
<1>6. /\ lanes' \in [Objects -> Lane] /\ TableInv'
      /\ Total(Objects, LaneCosts')
           = Total(Objects, LaneCosts) - LaneCost(lanes[o]) + LaneCost(l)
      /\ LaneCost(lanes[o]) \in Nat
      /\ Total(Objects, LaneCosts) \in Nat
  <2>1. l.superseded # None => l.unacked = << >>
    BY <1>1, <1>2, <1>4 DEF TableInv
  <2>2. ~\A j \in LaneIDs : carrierLanes[j] # o
    BY <1>2, <1>5
  <2>3. QED
    BY <1>1, <1>2, <1>3, <1>4, <2>1, <2>2, LaneStep
<1>7. LaneCost(l) = LaneCost(lanes[o]) + cost
  BY <1>2, <1>4, LaneGrows
<1>8. /\ writeCost' \in [StreamIDs -> Nat \cup {None}]
      /\ Total(StreamIDs, WriteCosts') = Total(StreamIDs, WriteCosts) - d
      /\ Total(StreamIDs, WriteCosts) \in Nat
      /\ \A i \in StreamIDs : writeCost'[i] # None => Live(i)
  BY <1>1, <1>2, <1>3, WriteStep
<1>9. LiveStreamHasLane'
  BY <1>1, <1>3, <1>8, LiveStep
<1>10. pendingCost' = Total(Objects, LaneCosts') + Total(StreamIDs, WriteCosts')
  BY <1>1, <1>2, <1>3, <1>4, <1>6, <1>7, <1>8 DEF ChargeInv
<1>11. QED
  BY <1>1, <1>3, <1>6, <1>8, <1>9, <1>10, SessionStep DEF SessionTypes

\* A byte is written.
LEMMA WritesStep ==
    ASSUME SessionInv, NEW id \in StreamIDs, Writes(id)
    PROVE  SessionInv'
<1>1. SessionTypes /\ TableInv /\ LiveStreamHasLane /\ ChargeInv
  BY DEF SessionInv
<1>2. /\ writeCost' = [writeCost EXCEPT ![id] = @ - 1] /\ 1 <= writeCost[id]
      /\ pendingCost' = pendingCost - 1 /\ Live(id)
      /\ closed' = closed /\ carrierLanes' = carrierLanes /\ made' = made
      /\ tombstones' = tombstones /\ lanes' = lanes
  BY <1>1 DEF Writes, SessionTypes, Live
<1>3. /\ writeCost' \in [StreamIDs -> Nat \cup {None}]
      /\ Total(StreamIDs, WriteCosts') = Total(StreamIDs, WriteCosts) - 1
      /\ Total(StreamIDs, WriteCosts) \in Nat
      /\ \A i \in StreamIDs : writeCost'[i] # None => Live(i)
  BY <1>1, <1>2, WriteStep
<1>4. LiveStreamHasLane'
  BY <1>1, <1>2, <1>3, LiveStep
<1>5. TableInv'
  BY <1>1, <1>2 DEF TableInv
<1>6. LaneCosts' = LaneCosts /\ Total(Objects, LaneCosts) \in Nat
  BY <1>1, <1>2, ChargesAre DEF LaneCosts, LaneCost, SessionTypes
<1>7. pendingCost' = Total(Objects, LaneCosts') + Total(StreamIDs, WriteCosts')
  <2>1. Total(Objects, LaneCosts') = Total(Objects, LaneCosts)
    BY <1>6
  <2>2. QED
    BY <1>1, <1>2, <1>3, <1>6, <2>1 DEF ChargeInv
<1>8. QED
  BY <1>1, <1>2, <1>3, <1>4, <1>5, <1>7, SessionStep DEF SessionTypes

\* Nothing happens to the session.
LEMMA StillStep ==
    ASSUME SessionInv, Still
    PROVE  SessionInv'
<1>1. /\ SessionTypes' /\ TableInv' /\ LiveStreamHasLane'
  BY DEF SessionInv, Still, SessionTypes, TableInv, LiveStreamHasLane, LiveIDs, Live, Tombstoned
<1>2. LaneCosts' = LaneCosts /\ WriteCosts' = WriteCosts
  BY DEF Still, LaneCosts, LaneCost, WriteCosts, Old, Live
<1>3. ChargeInv'
  BY <1>2 DEF SessionInv, ChargeInv, Still
<1>4. QED
  BY <1>1, <1>3 DEF SessionInv

\* The session is closed: every lane is empty and every stream gone.
LEMMA CloseStep ==
    ASSUME SessionInv, CloseLocked
    PROVE  SessionInv'
<1>1. SessionTypes /\ TableInv
  BY DEF SessionInv
<1>2. /\ lanes' = [k \in Objects |->
           IF k \in Range(carrierLanes) THEN Emptied(lanes[k]) ELSE lanes[k]]
      /\ writeCost' = [id \in StreamIDs |-> None]
      /\ pendingCost' = 0 /\ closed' = TRUE
      /\ carrierLanes' = carrierLanes /\ made' = made /\ tombstones' = tombstones
  BY DEF CloseLocked
<1>3. ASSUME NEW k \in Objects
      PROVE  /\ lanes'[k] \in Lane
             /\ lanes'[k].frames = << >> /\ lanes'[k].unacked = << >>
  <2>1. CASE k \in Range(carrierLanes)
    <3>1. lanes'[k] = Emptied(lanes[k]) /\ lanes[k] \in Lane
      BY <1>1, <1>2, <2>1 DEF SessionTypes
    <3>2. QED
      BY <3>1, EmptyLanes
  <2>2. CASE k \notin Range(carrierLanes)
    <3>1. \A id \in LaneIDs : carrierLanes[id] # k
      BY <1>1, <2>2 DEF SessionTypes, Range
    <3>2. lanes'[k] = lanes[k] /\ lanes[k] \in Lane
      BY <1>1, <1>2, <2>2 DEF SessionTypes
    <3>3. QED
      BY <1>1, <3>1, <3>2 DEF TableInv
  <2>3. QED
    BY <2>1, <2>2
<1>4. lanes' \in [Objects -> Lane]
  <2>1. lanes' = [k \in Objects |-> lanes'[k]]
    BY <1>2
  <2>2. QED
    BY <1>3, <2>1
<1>5. TableInv'
  BY <1>1, <1>2, <1>3 DEF TableInv
<1>6. LiveStreamHasLane'
  BY <1>2 DEF LiveStreamHasLane, LiveIDs, Live
<1>7. Total(Objects, LaneCosts') = 0
  <2>1. \A o \in Objects : LaneCosts'[o] = LaneCost(lanes'[o])
    BY DEF LaneCosts, LaneCost
  <2>2. \A o \in Objects : LaneCosts'[o] = 0
    BY <1>3, <2>1, LaneCostOf
  <2>3. QED
    BY <2>2, TotalZero
<1>8. Total(StreamIDs, WriteCosts') = 0
  <2>1. \A id \in StreamIDs : WriteCosts'[id] = 0
    BY <1>2 DEF WriteCosts, Old, Live
  <2>2. QED
    BY <2>1, TotalZero
<1>9. pendingCost' = Total(Objects, LaneCosts') + Total(StreamIDs, WriteCosts')
  BY <1>2, <1>7, <1>8
<1>10. writeCost' \in [StreamIDs -> Nat \cup {None}]
  BY <1>2
<1>11. QED
  BY <1>1, <1>2, <1>4, <1>5, <1>6, <1>9, <1>10, SessionStep DEF SessionTypes

\* A lane is released, and the stream of the lane with it.
LEMMA ReleaseStep ==
    ASSUME SessionInv, NEW id \in LaneIDs, ReleaseWebSocketLane(id)
    PROVE  SessionInv'
<1> DEFINE o == carrierLanes[id]
           gone == Live(id) /\ o # None
           E == IF gone THEN EvictedLanes(id) ELSE {}
           dropped == IF gone THEN Evicted(id) ELSE {}
           c == IF gone THEN EvictedCost(id) ELSE 0
           w == IF gone THEN writeCost[id] ELSE 0
<1>1. SessionTypes /\ TableInv /\ LiveStreamHasLane /\ ChargeInv
  BY DEF SessionInv
<1>2. /\ tombstones' = IF gone THEN Remembered(id) ELSE tombstones
      /\ writeCost' = IF gone THEN [writeCost EXCEPT ![id] = None] ELSE writeCost
      /\ carrierLanes' = [i \in LaneIDs |->
           IF i = id \/ i \in dropped THEN None ELSE carrierLanes[i]]
      /\ lanes' = [k \in Objects |->
           IF k = o \/ k \in E THEN Forgotten(lanes[k]) ELSE lanes[k]]
      /\ closed' = closed /\ made' = made
  BY DEF ReleaseWebSocketLane
<1>3. CASE o = None
  <2>1. dropped = {} /\ E = {} /\ ~gone
    BY <1>3
  <2>2. carrierLanes' = carrierLanes
    BY <1>1, <1>2, <1>3, <2>1 DEF SessionTypes
  <2>3. lanes' = lanes
    BY <1>1, <1>2, <1>3, <2>1, Limits DEF SessionTypes
  <2>4. pendingCost' = pendingCost
    BY <1>1, <1>3 DEF ReleaseWebSocketLane, SessionTypes
  <2>5. QED
    BY <1>2, <2>1, <2>2, <2>3, <2>4, StillStep DEF Still
<1>4. CASE o # None
  <2>1. /\ o \in Objects /\ o \in 1 .. made /\ lanes[o] \in Lane
        /\ \A j \in LaneIDs \ {id} : carrierLanes[j] # o
    BY <1>1, <1>4 DEF SessionTypes, TableInv
  <2>2. Live(id) => id \in StreamIDs /\ writeCost[id] \in Nat
    BY <1>1 DEF Live, LaneIDs, SessionTypes
  <2>3. /\ \/ E = {} /\ c = 0
           \/ \E e \in Objects \ {o} : E = {e} /\ c = LaneCost(lanes[e])
        /\ E \subseteq Objects /\ o \notin E /\ c \in Nat
        /\ \A i \in dropped : i \in LaneIDs /\ i # id /\ Tombstoned(i)
        /\ \A i \in dropped : carrierLanes[i] # None => carrierLanes[i] \in E
    <3>1. CASE gone
      <4>1. E = EvictedLanes(id) /\ c = EvictedCost(id) /\ dropped = Evicted(id)
            /\ id \in StreamIDs
        BY <2>2, <3>1
      <4> HIDE DEF E, c, dropped, o
      <4>2. QED
        BY <1>1, <2>1, <4>1, EvictedOthers
    <3>2. CASE ~gone
      BY <3>2
    <3>3. QED
      BY <3>1, <3>2
  <2>4. pendingCost' = pendingCost - LaneCost(lanes[o]) - w - c /\ w \in Nat
    <3>1. CASE gone
      BY <1>4, <2>2, <2>3, <3>1, LaneCostOf, <2>1, <1>1 DEF ReleaseWebSocketLane, SessionTypes
    <3>2. CASE ~gone
      BY <1>4, <3>2, LaneCostOf, <2>1, <1>1 DEF ReleaseWebSocketLane, SessionTypes
    <3>3. QED
      BY <3>1, <3>2
  <2>5. /\ writeCost' \in [StreamIDs -> Nat \cup {None}]
        /\ Total(StreamIDs, WriteCosts') = Total(StreamIDs, WriteCosts) - w
        /\ Total(StreamIDs, WriteCosts) \in Nat
        /\ \A i \in StreamIDs : writeCost'[i] # None => Live(i) /\ i # id
    <3>1. Total(StreamIDs, WriteCosts) \in Nat
      BY <1>1, ChargesAre DEF SessionTypes
    <3>2. CASE gone
      <4>1. /\ writeCost' \in [StreamIDs -> Nat \cup {None}]
            /\ writeCost'[id] = None
            /\ \A i \in StreamIDs \ {id} : writeCost'[i] = writeCost[i]
        BY <1>1, <1>2, <2>2, <3>2 DEF SessionTypes
      <4>2. Old(id)' = 0 /\ Old(id) = w
        BY <3>2, <4>1 DEF Old, Live
      <4>3. Total(StreamIDs, WriteCosts') = Total(StreamIDs, WriteCosts) - Old(id) + Old(id)'
        BY <1>1, <2>2, <3>2, <4>1, WriteCostsChange
      <4>4. QED
        BY <2>4, <3>1, <4>1, <4>2, <4>3, Limits DEF Live
    <3>3. CASE ~gone
      <4>1. w = 0 /\ writeCost' = writeCost /\ ~Live(id)
        BY <1>2, <1>4, <3>3
      <4>2. WriteCosts' = WriteCosts
        BY <4>1 DEF WriteCosts, Old, Live
      <4>3. QED
        BY <1>1, <3>1, <4>1, <4>2, Limits DEF SessionTypes, Live
    <3>4. QED
      BY <3>2, <3>3
  <2>6. /\ tombstones' \in Seq(StreamIDs)
        /\ \A j : Contains(tombstones', j) => Tombstoned(j) \/ j = id
    <3>1. CASE gone
      BY <1>1, <1>2, <2>2, <3>1, TombstonesOf
    <3>2. CASE ~gone
      BY <1>1, <1>2, <3>2 DEF SessionTypes, Tombstoned
    <3>3. QED
      BY <3>1, <3>2
  <2>7. carrierLanes[id] = o
    OBVIOUS
  <2> HIDE DEF o, E, c, w, dropped, gone
  <2>8. /\ lanes' \in [Objects -> Lane]
        /\ lanes'[o] = Forgotten(lanes[o])
        /\ \A k \in E : lanes'[k] = Forgotten(lanes[k])
        /\ \A k \in Objects \ (E \cup {o}) : lanes'[k] = lanes[k]
    BY <1>1, <1>2, <2>1, <2>3, EmptyLanes DEF SessionTypes
  <2>9. \A k \in E \cup {o} :
          /\ lanes'[k].frames = << >> /\ lanes'[k].unacked = << >>
          /\ LaneCost(lanes'[k]) = 0
    <3>1. \A k \in E \cup {o} : lanes[k] \in Lane /\ lanes'[k] = Forgotten(lanes[k])
      BY <1>1, <2>1, <2>3, <2>8 DEF SessionTypes
    <3>2. QED
      BY <3>1, EmptyLanes, LaneCostOf
  <2>10. carrierLanes' \in [LaneIDs -> Objects \cup {None}]
    BY <1>1, <1>2 DEF SessionTypes
  <2>11. \A j \in LaneIDs : carrierLanes'[j] # None =>
           j # id /\ j \notin dropped /\ carrierLanes'[j] = carrierLanes[j]
    BY <1>2
  <2>12. ASSUME NEW k \in Objects, \A j \in LaneIDs : carrierLanes'[j] # k
         PROVE  lanes'[k].frames = << >> /\ lanes'[k].unacked = << >>
    <3>1. CASE k \in E \cup {o}
      BY <2>9, <3>1
    <3>2. CASE k \notin E \cup {o}
      <4>1. ASSUME NEW j \in LaneIDs, carrierLanes[j] = k
            PROVE  FALSE
        <5>1. j # id /\ j \notin dropped
          BY <2>3, <2>7, <3>2, <4>1, Limits
        <5>2. carrierLanes'[j] = k
          BY <1>2, <4>1, <5>1
        <5>3. QED
          BY <2>12, <5>2
      <4>2. lanes[k].frames = << >> /\ lanes[k].unacked = << >>
        BY <1>1, <4>1 DEF TableInv
      <4>3. QED
        BY <2>8, <3>2, <4>2
    <3>3. QED
      BY <3>1, <3>2
  <2>13. TableInv'
    <3>1. \A k \in Objects : lanes'[k].superseded # None => lanes'[k].unacked = << >>
      BY <1>1, <2>8, <2>9 DEF TableInv
    <3>2. \A j \in LaneIDs : carrierLanes'[j] # None => carrierLanes'[j] \in 1 .. made'
      BY <1>1, <1>2, <2>11 DEF TableInv
    <3>3. \A i, j \in LaneIDs :
            carrierLanes'[i] # None /\ carrierLanes'[i] = carrierLanes'[j] => i = j
      BY <1>1, <2>11 DEF TableInv
    <3>4. QED
      BY <2>12, <3>1, <3>2, <3>3 DEF TableInv
  <2>14. LiveStreamHasLane'
    <3>1. ASSUME NEW i \in StreamIDs, writeCost'[i] # None
          PROVE  carrierLanes'[i] # None /\ ~Tombstoned(i)'
      <4>1. Live(i) /\ i # id
        BY <2>5, <3>1
      <4>2. carrierLanes[i] # None /\ ~Tombstoned(i) /\ i \notin dropped
        BY <1>1, <2>3, <4>1 DEF LiveStreamHasLane, LiveIDs
      <4>3. carrierLanes'[i] = carrierLanes[i]
        BY <1>2, <4>1, <4>2, Limits
      <4>4. QED
        BY <2>6, <4>1, <4>2, <4>3 DEF Tombstoned
    <3>2. QED
      BY <3>1 DEF LiveStreamHasLane, LiveIDs, Live
  <2>15. /\ Total(Objects, LaneCosts')
              = Total(Objects, LaneCosts) - LaneCost(lanes[o]) - c
         /\ Total(Objects, LaneCosts) \in Nat /\ LaneCost(lanes[o]) \in Nat
    <3>1. LanesChange(o, E, c)
      BY <2>3, <2>8, <2>9 DEF LanesChange
    <3>2. Total(Objects, LaneCosts')
            = Total(Objects, LaneCosts) - LaneCost(lanes[o]) + LaneCost(lanes'[o]) - c
      BY <1>1, <2>1, <2>8, <3>1, LaneCostsChange
    <3>3. Total(Objects, LaneCosts) \in Nat /\ LaneCost(lanes[o]) \in Nat
      BY <1>1, <2>1, ChargesAre, LaneCostOf DEF SessionTypes
    <3>4. LaneCost(lanes'[o]) = 0
      BY <2>9
    <3>5. QED
      BY <2>3, <3>2, <3>3, <3>4
  <2>16. pendingCost' = Total(Objects, LaneCosts') + Total(StreamIDs, WriteCosts')
    BY <1>1, <2>3, <2>4, <2>5, <2>15 DEF ChargeInv
  <2>17. QED
    BY <1>1, <1>2, <2>5, <2>6, <2>8, <2>10, <2>13, <2>14, <2>16, SessionStep DEF SessionTypes
<1>5. QED
  BY <1>3, <1>4

--------------------------------------------------------------------------------
(* The calls.                                                              *)

\* Outside PollLane no poll starts or stops waiting.
Stays ==
    /\ closing' \in BOOLEAN
    /\ polls' \in [Pollers -> PollState] /\ conns' \in [Conns -> ConnState]
    /\ \A p \in Pollers :
         \/ polls'[p] = polls[p]
         \/ /\ polls[p].lane = None /\ polls'[p].lane = None /\ polls'[p].kind # "laneclosed"
            /\ polls'[p].pc \notin {"parked", "woken"}

\* A call of PollLane begins.
Enters(p, call) ==
    /\ call \in PollState /\ call.kind = "none" /\ call.lane = None
    /\ call.pc \in {"idle", "ready"} /\ polls[p].pc \in {"idle", "ready"}
    /\ PollEnters(p, call)

Waits(p) == Selects(p) \/ PollGivesUp(p) \/ PollExpires(p)

\* A poll that has returned is at no lane.
LEMMA ReturnedIs ==
    ASSUME NEW p, NEW call \in PollState, NEW next \in Nat,
           NEW kind \in {"batch", "empty", "laneclosed", "error"}
    PROVE  /\ Returned(p, call, kind, next) \in PollState
           /\ Returned(p, call, kind, next).lane = None
           /\ Returned(p, call, kind, next).pc \notin {"parked", "woken"}
           /\ Returned(p, call, kind, next).kind = "laneclosed" => kind = "laneclosed"
<1>1. CASE WebSockets /\ kind \in {"batch", "empty"}
  BY <1>1 DEF Returned, PollState
<1>2. CASE ~(WebSockets /\ kind \in {"batch", "empty"})
  <2> DEFINE pc == IF WebSockets THEN "done" ELSE "idle"
             id == IF kind = "laneclosed" THEN call.id ELSE 0
             k == IF kind = "laneclosed" THEN kind ELSE "none"
  <2>1. Returned(p, call, kind, next) = [NoPoll EXCEPT !.pc = pc, !.id = id, !.kind = k]
    BY <1>2 DEF Returned
  <2>2. pc \in {"done", "idle"} /\ id \in LaneIDs /\ k \in {"none", "laneclosed"}
        /\ (k = "laneclosed" => kind = "laneclosed")
    BY Limits DEF PollState
  <2> HIDE DEF pc, id, k
  <2>3. NoPoll \in PollState /\ NoPoll.lane = None
    BY Limits DEF NoPoll, PollState
  <2>4. QED
    BY <2>1, <2>2, <2>3 DEF PollState
<1>3. QED
  BY <1>1, <1>2

\* What a failed or finished call leaves of its session and of its reader.
LEMMA ReaderDoneIs ==
    ASSUME NEW conn \in ConnState
    PROVE  ReaderDone(conn) \in ConnState
<1>1. << >> \in Seq(FrameTypes)
  BY EmptySeq
<1>2. QED
  BY <1>1 DEF ReaderDone, ConnState

\* What the reader does with the result of its message.
LEMMA ReaderAfterIs ==
    ASSUME NEW conn \in ConnState, NEW res
    PROVE  ReaderAfter(conn, res) \in ConnState
<1> DEFINE n == conn.sequence + 1
<1>1. n \in Nat /\ << >> \in Seq(FrameTypes)
  BY EmptySeq DEF ConnState
<1>2. ReaderAfter(conn, res) =
        CASE res = "ack" -> [conn EXCEPT !.r = "read", !.sequence = n, !.body = << >>]
          [] res = "backpressure" -> [conn EXCEPT !.r = "wait"]
          [] res = "protocol" -> [conn EXCEPT !.r = "fail", !.body = << >>]
          [] OTHER -> ReaderDone(conn)
  BY DEF ReaderAfter
<1> HIDE DEF n
<1>3. /\ [conn EXCEPT !.r = "read", !.sequence = n, !.body = << >>] \in ConnState
      /\ [conn EXCEPT !.r = "wait"] \in ConnState
      /\ [conn EXCEPT !.r = "fail", !.body = << >>] \in ConnState
  BY <1>1 DEF ConnState
<1>4. QED
  BY <1>2, <1>3, ReaderDoneIs

\* Only a connection changes.
LEMMA ConnStays ==
    ASSUME CallTypes, NEW c \in Conns, NEW conn \in ConnState,
           conns' = [conns EXCEPT ![c] = conn], closing' \in BOOLEAN, UNCHANGED polls
    PROVE  Stays
BY DEF Stays, CallTypes

\* The reader and the handler do not poll.
LEMMA ConnShape ==
    ASSUME SessionTypes, CallTypes, TableInv, LiveStreamHasLane, NEW c \in Conns,
           HandlerEnds(c) \/ HandlerReleases(c) \/ Reader(c)
    PROVE  Serves /\ Stays
<1> DEFINE conn == conns[c]
<1>1. conn \in ConnState /\ closing \in BOOLEAN /\ << >> \in Seq(FrameTypes)
  BY EmptySeq DEF CallTypes
<1>2. conn.id \in LaneIDs /\ conn.sequence \in Nat /\ conn.body \in Seq(FrameTypes)
  BY <1>1 DEF ConnState
<1> HIDE DEF conn
<1>3. CASE HandlerEnds(c)
  <2>1. Serves
    BY <1>3 DEF HandlerEnds, sessionVars, Serves, Still
  <2>2. [conn EXCEPT !.h = "ending"] \in ConnState
    BY <1>1 DEF ConnState
  <2>3. conns' = [conns EXCEPT ![c] = [conn EXCEPT !.h = "ending"]]
    BY <1>3 DEF HandlerEnds, conn
  <2>4. QED
    BY <1>1, <1>3, <2>1, <2>2, <2>3, ConnStays DEF HandlerEnds, sessionVars
<1>4. CASE HandlerReleases(c)
  <2>1. Serves
    BY <1>2, <1>4 DEF HandlerReleases, conn, Serves
  <2>2. [conn EXCEPT !.h = "released"] \in ConnState
    BY <1>1 DEF ConnState
  <2>3. conns' = [conns EXCEPT ![c] = [conn EXCEPT !.h = "released"]]
    BY <1>4 DEF HandlerReleases, conn
  <2>4. QED
    BY <1>1, <1>4, <2>1, <2>2, <2>3, ConnStays DEF HandlerReleases, ReleaseWebSocketLane
<1>5. CASE ReaderReads(c)
  <2>1. Serves
    BY <1>5 DEF ReaderReads, sessionVars, Serves, Still
  <2>2. \E next \in ConnState : conns' = [conns EXCEPT ![c] = next]
    <3>1. CASE \E body \in Batches \ {<< >>} :
                 conns' = [conns EXCEPT ![c].r = "process", ![c].body = body]
      <4>1. PICK body \in Batches :
              conns' = [conns EXCEPT ![c].r = "process", ![c].body = body]
        BY <3>1
      <4>2. [conn EXCEPT !.r = "process", !.body = body] \in ConnState
        BY <1>1, LaneBatchAssumption DEF ConnState
      <4>3. conns' = [conns EXCEPT ![c] = [conn EXCEPT !.r = "process", !.body = body]]
        BY <4>1 DEF CallTypes, conn
      <4>4. QED
        BY <4>2, <4>3
    <3>2. CASE conns' = [conns EXCEPT ![c] = ReaderDone(@)]
      BY <1>1, <3>2, ReaderDoneIs DEF conn
    <3>3. QED
      BY <1>5, <3>1, <3>2 DEF ReaderReads
  <2>3. QED
    BY <1>1, <1>5, <2>1, <2>2, ConnStays DEF ReaderReads, sessionVars
<1>6. CASE ReaderProcesses(c)
  <2>1. PICK res \in Results :
          /\ ProcessUpLane(conns[c].id, conns[c].sequence, conns[c].body, res)
          /\ conns' = [conns EXCEPT ![c] = ReaderAfter(@, res)]
    BY <1>6 DEF ReaderProcesses
  <2>2. Serves
    BY <1>2, <2>1, ProcessShape DEF conn
  <2>3. closing' \in BOOLEAN
    BY <1>1, <2>1 DEF ProcessUpLane
  <2>4. conns' = [conns EXCEPT ![c] = ReaderAfter(conn, res)]
    BY <2>1 DEF conn
  <2>5. QED
    BY <1>1, <1>6, <2>2, <2>3, <2>4, ReaderAfterIs, ConnStays DEF ReaderProcesses
<1>7. CASE ReaderWaits(c)
  <2>1. Serves
    BY <1>7 DEF ReaderWaits, sessionVars, Serves, Still
  <2>2. [conn EXCEPT !.r = "process"] \in ConnState
    BY <1>1 DEF ConnState
  <2>3. conns' = [conns EXCEPT ![c] = [conn EXCEPT !.r = "process"]]
    BY <1>7 DEF ReaderWaits, conn
  <2>4. QED
    BY <1>1, <1>7, <2>1, <2>2, <2>3, ConnStays DEF ReaderWaits, sessionVars
<1>8. CASE ReaderGivesUp(c)
  <2>1. Serves
    BY <1>8 DEF ReaderGivesUp, sessionVars, Serves, Still
  <2>2. conns' = [conns EXCEPT ![c] = ReaderDone(conn)]
    BY <1>8 DEF ReaderGivesUp, conn
  <2>3. QED
    BY <1>1, <1>8, <2>1, <2>2, ReaderDoneIs, ConnStays DEF ReaderGivesUp, sessionVars
<1>9. CASE ReaderFails(c)
  <2>1. Serves
    BY <1>2, <1>9 DEF ReaderFails, conn, Serves
  <2>2. conns' = [conns EXCEPT ![c] = ReaderDone(conn)]
    BY <1>9 DEF ReaderFails, conn
  <2>3. QED
    BY <1>1, <1>9, <2>1, <2>2, ReaderDoneIs, ConnStays DEF ReaderFails, ReleaseWebSocketLane
<1>10. QED
  BY <1>3, <1>4, <1>5, <1>6, <1>7, <1>8, <1>9 DEF Reader

\* Only one poll changes, and does not wait before or after.
LEMMA PollStays ==
    ASSUME CallTypes, NEW p \in Pollers, NEW st \in PollState,
           polls' = [polls EXCEPT ![p] = st], closing' \in BOOLEAN,
           conns' \in [Conns -> ConnState],
           polls[p].lane = None, st.lane = None, st.kind # "laneclosed",
           st.pc \notin {"parked", "woken"}
    PROVE  Stays
BY DEF Stays, CallTypes

\* A socket comes, and a writer writes or fails.
LEMMA WriterShape ==
    ASSUME SessionTypes, CallTypes, TableInv, WaitersInv, LiveStreamHasLane, NEW c \in Conns,
           \/ \E id \in StreamIDs : ServeWebSocket(c, id)
           \/ WriterFails(c) \/ WriterWrites(c)
    PROVE  Serves /\ Stays
<1>1. c \in Pollers
  BY DEF ServeWebSocket, WriterFails, WriterWrites, Pollers
<1>2. polls[c] \in PollState /\ conns[c] \in ConnState /\ closing \in BOOLEAN
      /\ conns \in [Conns -> ConnState]
  BY <1>1 DEF CallTypes
<1>3. polls[c].pc \notin {"parked", "woken"} => polls[c].lane = None
  BY <1>1 DEF WaitersInv, Placed
<1> DEFINE poll == polls[c]
<1>4. ASSUME NEW id \in StreamIDs, ServeWebSocket(c, id)
      PROVE  Serves /\ Stays
  <2>1. Serves
    BY <1>4, ServeWebSocketShape
  <2>2. polls[c].lane = None
    BY <1>3, <1>4 DEF ServeWebSocket
  <2>3. closing' = closing /\ id \in LaneIDs /\ 0 \in LaneIDs
    BY <1>4, Limits DEF ServeWebSocket
  <2>4. NoPoll \in PollState /\ NoPoll.lane = None /\ NoPoll.kind = "none"
    BY <2>3 DEF NoPoll, PollState
  <2>5. << >> \in Seq(FrameTypes)
    BY EmptySeq
  <2>6. NoConn \in ConnState
    BY <2>3, <2>5 DEF NoConn, ConnState
  <2>7. CASE /\ conns' = [conns EXCEPT ![c] =
                 [h |-> "serving", id |-> id, r |-> "read", sequence |-> 1, body |-> <<>>]]
             /\ polls' = [polls EXCEPT ![c] = [NoPoll EXCEPT !.pc = "ready", !.id = id]]
    <3> DEFINE conn == [h |-> "serving", id |-> id, r |-> "read", sequence |-> 1, body |-> << >>]
               st == [NoPoll EXCEPT !.pc = "ready", !.id = id]
    <3>1. conn \in ConnState
      BY <2>3, <2>5 DEF ConnState
    <3>2. st \in PollState /\ st.lane = None /\ st.kind = "none" /\ st.pc = "ready"
      BY <2>3, <2>4 DEF PollState
    <3> HIDE DEF conn, st
    <3>3. conns' = [conns EXCEPT ![c] = conn] /\ polls' = [polls EXCEPT ![c] = st]
      BY <2>7 DEF conn, st
    <3>4. conns' \in [Conns -> ConnState]
      BY <1>2, <3>1, <3>3
    <3>5. QED
      BY <1>1, <1>2, <2>1, <2>2, <2>3, <3>2, <3>3, <3>4, PollStays
  <2>8. CASE /\ conns' = [conns EXCEPT ![c] = [NoConn EXCEPT !.h = "ending", !.id = id]]
             /\ polls' = [polls EXCEPT ![c] = [NoPoll EXCEPT !.pc = "done", !.id = id]]
    <3> DEFINE conn == [NoConn EXCEPT !.h = "ending", !.id = id]
               st == [NoPoll EXCEPT !.pc = "done", !.id = id]
    <3>1. conn \in ConnState
      BY <2>3, <2>6 DEF ConnState
    <3>2. st \in PollState /\ st.lane = None /\ st.kind = "none" /\ st.pc = "done"
      BY <2>3, <2>4 DEF PollState
    <3> HIDE DEF conn, st
    <3>3. conns' = [conns EXCEPT ![c] = conn] /\ polls' = [polls EXCEPT ![c] = st]
      BY <2>8 DEF conn, st
    <3>4. conns' \in [Conns -> ConnState]
      BY <1>2, <3>1, <3>3
    <3>5. QED
      BY <1>1, <1>2, <2>1, <2>2, <2>3, <3>2, <3>3, <3>4, PollStays
  <2>9. QED
    BY <1>4, <2>7, <2>8 DEF ServeWebSocket
<1>5. ASSUME NEW kind \in {"empty", "error"},
             polls' = [polls EXCEPT ![c] = Returned(c, poll, kind, 0)],
             poll.lane = None, closing' \in BOOLEAN, conns' = conns
      PROVE  Stays
  <2> DEFINE st == Returned(c, poll, kind, 0)
  <2>1. /\ st \in PollState /\ st.lane = None /\ st.kind # "laneclosed"
        /\ st.pc \notin {"parked", "woken"}
    <3>1. kind \in {"batch", "empty", "laneclosed", "error"} /\ kind # "laneclosed"
      BY <1>5
    <3> HIDE DEF poll
    <3>2. QED
      BY <1>2, <3>1, ReturnedIs DEF poll
  <2>2. polls' = [polls EXCEPT ![c] = st]
    BY <1>5
  <2> HIDE DEF st
  <2>3. QED
    BY <1>1, <1>2, <1>5, <2>1, <2>2, PollStays
<1>6. CASE WriterFails(c)
  <2>1. Serves
    BY <1>2, <1>6 DEF WriterFails, Serves, ConnState
  <2>2. polls[c].lane = None
    BY <1>3, <1>6 DEF WriterFails
  <2>3. polls' = [polls EXCEPT ![c] = Returned(c, poll, "error", 0)]
    BY <1>6 DEF WriterFails
  <2>4. closing' = closing /\ conns' = conns
    BY <1>6 DEF WriterFails, ReleaseWebSocketLane
  <2>5. QED
    BY <1>2, <1>5, <2>1, <2>2, <2>3, <2>4
<1>7. CASE WriterWrites(c)
  <2>1. Serves /\ closing' = closing /\ conns' = conns
    BY <1>7 DEF WriterWrites, Serves, Still, sessionVars
  <2>2. polls[c].lane = None
    BY <1>3, <1>7 DEF WriterWrites
  <2>3. CASE polls' = [polls EXCEPT ![c] = Returned(c, poll, "error", 0)]
    BY <1>2, <1>5, <2>1, <2>2, <2>3
  <2>4. CASE polls' = [polls EXCEPT ![c].pc = "ready", ![c].next = 0, ![c].kind = "none",
                         ![c].cursor = IF polls[c].kind = "batch" THEN polls[c].next ELSE @]
    <3> DEFINE n == IF poll.kind = "batch" THEN poll.next ELSE poll.cursor
               st == [poll EXCEPT !.pc = "ready", !.next = 0, !.kind = "none", !.cursor = n]
    <3>1. n \in Nat
      BY <1>2 DEF PollState
    <3>2. polls' = [polls EXCEPT ![c] = st]
      BY <1>1, <1>2, <2>4 DEF CallTypes, PollState
    <3> HIDE DEF n
    <3>3. st \in PollState /\ st.lane = None /\ st.kind = "none" /\ st.pc = "ready"
      BY <1>2, <2>2, <3>1 DEF PollState
    <3> HIDE DEF st
    <3>4. QED
      BY <1>1, <1>2, <2>1, <2>2, <3>2, <3>3, PollStays
  <2>5. QED
    BY <1>7, <2>3, <2>4 DEF WriterWrites, Return
<1>8. QED
  BY <1>4, <1>6, <1>7

\* The rest leaves the polls and the sockets alone.
LEMMA BackShape ==
    ASSUME SessionTypes, CallTypes, TableInv, LiveStreamHasLane,
           \/ Close
           \/ \E id \in LaneIDs, seq \in 0 .. MaxUpSequence, body \in Batches :
                ServeUp(id, seq, body)
           \/ \E id \in StreamIDs :
                \/ BackendData(id) \/ BackendDrained(id) \/ BackendWriteFinished(id)
                \/ BackendClosed(id)
           \/ UNCHANGED vars
    PROVE  Serves /\ Stays
<1>1. closing \in BOOLEAN /\ (polls' = polls /\ conns' = conns /\ closing' \in BOOLEAN => Stays)
  BY DEF Stays, CallTypes
<1>2. CASE Close
  BY <1>1, <1>2 DEF Close, CloseLocked, Serves
<1>3. ASSUME NEW id \in LaneIDs, NEW seq \in 0 .. MaxUpSequence, NEW body \in Batches,
             ServeUp(id, seq, body)
      PROVE  Serves /\ Stays
  <2>1. seq \in Nat /\ body \in Seq(FrameTypes)
    BY LaneBatchAssumption
  <2>2. PICK res \in Results : ProcessUpLane(id, seq, body, res)
    BY <1>3 DEF ServeUp
  <2>3. closing' \in BOOLEAN
    BY <1>1, <2>2 DEF ProcessUpLane
  <2>4. QED
    BY <1>1, <1>3, <2>1, <2>2, <2>3, ProcessShape DEF ServeUp
<1>4. ASSUME NEW id \in StreamIDs,
             \/ BackendData(id) \/ BackendDrained(id) \/ BackendWriteFinished(id)
             \/ BackendClosed(id)
      PROVE  Serves /\ Stays
  <2>1. polls' = polls /\ conns' = conns /\ closing' \in BOOLEAN
    BY <1>1, <1>4 DEF BackendData, BackendDrained, BackendWriteFinished, BackendClosed, CloseLocked
  <2>2. QED
    BY <1>1, <1>4, <2>1, BackendShape
<1>5. CASE UNCHANGED vars
  BY <1>1, <1>5 DEF vars, sessionVars, Serves, Still
<1>6. QED
  BY <1>2, <1>3, <1>4, <1>5

\* A step is one of a call or a backend, a call of PollLane, or one of a poll
\* that waits.
LEMMA StepShape ==
    ASSUME SessionTypes, CallTypes, TableInv, WaitersInv, LiveStreamHasLane, [Next]_vars
    PROVE  \/ Serves /\ Stays
           \/ \E p \in Pollers, call \in PollState : Enters(p, call)
           \/ \E p \in Pollers : Waits(p)
<1>1. ASSUME NEW p \in Pollers, NEW id \in LaneIDs, NEW cursor \in 0 .. MaxDownCursor + 1,
             ServeDown(p, id, cursor)
      PROVE  \E call \in PollState : Enters(p, call)
  <2> DEFINE call == [NoPoll EXCEPT !.id = id, !.cursor = cursor]
  <2>1. cursor \in Nat /\ 0 \in LaneIDs
    BY Limits
  <2>2. /\ call \in PollState /\ call.kind = "none" /\ call.lane = None
        /\ call.pc = "idle"
    BY <2>1 DEF NoPoll, PollState
  <2>3. PollEnters(p, call) /\ polls[p].pc = "idle"
    BY <1>1 DEF ServeDown
  <2> HIDE DEF call
  <2>4. QED
    BY <2>2, <2>3 DEF Enters
<1>2. ASSUME NEW c \in Conns, WriterPolls(c)
      PROVE  c \in Pollers /\ \E call \in PollState : Enters(c, call)
  <2> DEFINE call == [polls[c] EXCEPT !.kind = "none"]
  <2>1. c \in Pollers /\ polls[c].pc = "ready" /\ PollEnters(c, call)
    BY <1>2 DEF WriterPolls, Pollers
  <2>2. polls[c] \in PollState /\ polls[c].lane = None
    BY <2>1 DEF CallTypes, WaitersInv, Placed
  <2>3. /\ call \in PollState /\ call.kind = "none" /\ call.lane = None
        /\ call.pc = "ready"
    BY <2>1, <2>2 DEF PollState
  <2> HIDE DEF call
  <2>4. QED
    BY <2>1, <2>3 DEF Enters
<1>3. CASE Next
  <2>1. CASE \/ Close
             \/ \E id \in LaneIDs, seq \in 0 .. MaxUpSequence, body \in Batches :
                  ServeUp(id, seq, body)
             \/ \E id \in StreamIDs :
                  \/ BackendData(id) \/ BackendDrained(id) \/ BackendWriteFinished(id)
                  \/ BackendClosed(id)
    BY <2>1, BackShape
  <2>2. ASSUME NEW p \in Pollers,
               \/ \E id \in LaneIDs, cursor \in 0 .. MaxDownCursor + 1 : ServeDown(p, id, cursor)
               \/ Selects(p) \/ PollGivesUp(p) \/ PollExpires(p)
        PROVE  \/ \E q \in Pollers, call \in PollState : Enters(q, call)
               \/ \E q \in Pollers : Waits(q)
    BY <1>1, <2>2 DEF Waits
  <2>3. ASSUME NEW c \in Conns,
               \/ \E id \in StreamIDs : ServeWebSocket(c, id)
               \/ HandlerEnds(c) \/ HandlerReleases(c) \/ Reader(c)
               \/ WriterPolls(c) \/ WriterFails(c) \/ WriterWrites(c)
        PROVE  \/ Serves /\ Stays
               \/ \E p \in Pollers, call \in PollState : Enters(p, call)
    BY <1>2, <2>3, ConnShape, WriterShape
  <2>4. QED
    BY <1>3, <2>1, <2>2, <2>3 DEF Next
<1>4. CASE UNCHANGED vars
  BY <1>4, BackShape
<1>5. QED
  BY <1>3, <1>4

\* The session stays sound in every step.
LEMMA SessionStays ==
    ASSUME SessionInv, CallTypes, WaitersInv, [Next]_vars
    PROVE  SessionInv'
<1>1. SessionTypes /\ TableInv /\ LiveStreamHasLane
  BY DEF SessionInv
<1>2. CASE Serves
  BY <1>2, CloseStep, StillStep, OwnsStep, RemembersStep, QueuesStep, WritesStep, ReleaseStep
     DEF Serves
<1>3. Steps => SessionInv'
  BY <1>2, PollsStep DEF Steps
<1>4. ASSUME NEW p \in Pollers, NEW call \in PollState, Enters(p, call)
      PROVE  SessionInv'
  BY <1>1, <1>3, <1>4, PollEntersShape DEF Enters
<1>5. ASSUME NEW p \in Pollers, Waits(p)
      PROVE  SessionInv'
  BY <1>1, <1>3, <1>5, PollWaitsShape DEF Waits
<1>6. QED
  BY <1>1, <1>2, <1>4, <1>5, StepShape

\* The poll p becomes st, and another may be told to leave.
Moves(p, st) ==
    /\ st \in PollState /\ Placed(st, made)
    /\ polls' \in [Pollers -> PollState] /\ polls'[p] = st
    /\ \A q \in Pollers \ {p} :
         /\ polls'[q].pc = polls[q].pc /\ polls'[q].lane = polls[q].lane
         /\ polls'[q].id = polls[q].id /\ polls'[q].kind = polls[q].kind

\* A poll may say that its lane is closed when the lane has become l, and is empty.
Tells(p, st, o, l) ==
    polls[p].kind # "laneclosed" /\ st.kind = "laneclosed" =>
      /\ polls[p].lane = o \/ carrierLanes[st.id] = o
      /\ l.frames = << >> /\ l.unacked = << >>

\* Whoever has to return from the lane is woken: nobody is there, a token is,
\* the poll itself has nothing to return for, or holds the token, or changes
\* nothing and held none.
Wakes(p, st, o, l) ==
    \/ l.superseded = None
    \/ l.notify
    \/ /\ l.superseded = p /\ st.lane = o
       /\ l.frames = << >> /\ ~closed /\ ~LaneOver(st.id, o)
    \/ st.pc = "woken" /\ st.lane = o
    \/ l = lanes[o] /\ polls[p].pc # "woken" /\ st.lane = None

\* A poll goes on at the lane o, which becomes l.
Goes(p, st, o, l) ==
    /\ Moves(p, st)
    /\ closing' \in BOOLEAN /\ conns' = conns
    /\ lanes' = [lanes EXCEPT ![o] = l]
    /\ UNCHANGED <<closed, carrierLanes, made, writeCost, tombstones>>
    /\ polls[p].lane \in {None, o} /\ st.lane \in {None, o}
    /\ Tells(p, st, o, l) /\ Wakes(p, st, o, l)

\* One poll changes, and nobody is told to leave.
LEMMA MovesOne ==
    ASSUME CallTypes, NEW p \in Pollers, NEW st \in PollState, Placed(st, made),
           polls' = [polls EXCEPT ![p] = st]
    PROVE  Moves(p, st)
BY DEF Moves, CallTypes

\* A poll that returns.
LEMMA MovesAway ==
    ASSUME CallTypes, NEW p \in Pollers, NEW call \in PollState, NEW next \in Nat,
           NEW kind \in {"batch", "empty", "laneclosed", "error"},
           polls' = [polls EXCEPT ![p] = Returned(p, call, kind, next)]
    PROVE  /\ Moves(p, Returned(p, call, kind, next))
           /\ Returned(p, call, kind, next).lane = None
           /\ Returned(p, call, kind, next).kind = "laneclosed" => kind = "laneclosed"
<1> DEFINE st == Returned(p, call, kind, next)
<1>1. /\ st \in PollState /\ st.lane = None /\ st.pc \notin {"parked", "woken"}
      /\ st.kind = "laneclosed" => kind = "laneclosed"
  BY ReturnedIs
<1>2. Placed(st, made)
  BY <1>1 DEF Placed
<1> HIDE DEF st
<1>3. polls' = [polls EXCEPT ![p] = st]
  BY DEF st
<1>4. Moves(p, st)
  BY <1>1, <1>2, <1>3, MovesOne
<1>5. QED
  BY <1>1, <1>4 DEF st

\* A poll that waits goes on.
LEMMA WaitsGoes ==
    ASSUME SessionInv, CallTypes, WaitersInv, NEW p \in Pollers, Waits(p)
    PROVE  \E st \in PollState, o \in Objects, l \in Lane : Goes(p, st, o, l)
<1> DEFINE poll == polls[p]
           o == poll.lane
           l == lanes[o]
<1>1. /\ poll \in PollState /\ poll.pc \in {"parked", "woken"} /\ Placed(poll, made)
      /\ poll.cursor \in Nat /\ closing \in BOOLEAN
  BY DEF CallTypes, WaitersInv, Waits, Selects, PollReceivesToken, PollSuperseded, PollWoken,
         PollGivesUp, PollExpires, PollState
<1>2. /\ o \in Objects /\ o # None /\ l \in Lane /\ l.downCursor + 1 \in Nat
      /\ l.superseded # None => l.unacked = << >>
      /\ p # None
  <2>1. o # None /\ o \in Objects /\ p # None
    BY <1>1, Limits DEF Placed, PollState
  <2>2. l \in Lane /\ (l.superseded # None => l.unacked = << >>)
    BY <2>1 DEF SessionInv, SessionTypes, TableInv
  <2> HIDE DEF l
  <2>3. l.downCursor + 1 \in Nat
    BY <2>2 DEF Lane
  <2>4. QED
    BY <2>1, <2>2, <2>3
<1>3. /\ UNCHANGED <<closed, carrierLanes, made, writeCost, tombstones>>
      /\ closing' \in BOOLEAN /\ conns' = conns
  BY <1>1 DEF Waits, Selects, PollReceivesToken, PollSuperseded, PollWoken, PollGivesUp,
         PollExpires, PollUnchanged
<1>4. poll.lane = o
  OBVIOUS
<1> HIDE DEF poll, o, l
<1>5. ASSUME NEW m \in Lane, NEW kind \in {"batch", "empty", "laneclosed", "error"},
             NEW next \in Nat, lanes' = [lanes EXCEPT ![o] = m],
             polls' = [polls EXCEPT ![p] = Returned(p, poll, kind, next)],
             kind = "laneclosed" => m.frames = << >> /\ m.unacked = << >>,
             m.superseded = None \/ m.notify \/ (m = l /\ poll.pc # "woken")
      PROVE  \E st \in PollState, k \in Objects, n \in Lane : Goes(p, st, k, n)
  <2> DEFINE st == Returned(p, poll, kind, next)
  <2>1. /\ Moves(p, st) /\ st.lane = None /\ st \in PollState
        /\ st.kind = "laneclosed" => kind = "laneclosed"
    <3>1. /\ Moves(p, st) /\ st.lane = None
          /\ st.kind = "laneclosed" => kind = "laneclosed"
      BY <1>1, <1>5, MovesAway
    <3>2. st \in PollState
      BY <1>1, <1>5, ReturnedIs
    <3>3. QED
      BY <3>1, <3>2
  <2> HIDE DEF st
  <2>2. Tells(p, st, o, m)
    BY <1>4, <1>5, <2>1 DEF Tells, poll
  <2>3. Wakes(p, st, o, m)
    BY <1>5, <2>1 DEF Wakes, poll, l
  <2>4. Goes(p, st, o, m)
    BY <1>3, <1>4, <1>5, <2>1, <2>2, <2>3 DEF Goes, poll
  <2>5. QED
    BY <1>2, <1>5, <2>1, <2>4
<1>6. CASE PollReceivesToken(p)
  <2> DEFINE m == [l EXCEPT !.notify = FALSE]
             st == [poll EXCEPT !.pc = "woken"]
  <2>1. m \in Lane
    BY <1>2 DEF Lane
  <2>2. /\ st \in PollState /\ Placed(st, made) /\ st.lane = o /\ st.pc = "woken"
        /\ st.kind = poll.kind
    BY <1>1, <1>2, <1>4 DEF PollState, Placed
  <2>3. lanes' = [lanes EXCEPT ![o] = m] /\ polls' = [polls EXCEPT ![p] = st]
    BY <1>6 DEF PollReceivesToken, o, l, poll
  <2> HIDE DEF m, st
  <2>4. Moves(p, st)
    BY <2>2, <2>3, MovesOne
  <2>5. Tells(p, st, o, m) /\ Wakes(p, st, o, m)
    BY <2>2 DEF Tells, Wakes, poll
  <2>6. Goes(p, st, o, m)
    BY <1>3, <1>4, <2>2, <2>3, <2>4, <2>5 DEF Goes, poll
  <2>7. QED
    BY <1>2, <2>1, <2>2, <2>6
<1>7. CASE PollSuperseded(p)
  <2> DEFINE m == [l EXCEPT !.notify = TRUE]
  <2>1. m \in Lane /\ m.notify
    BY <1>2 DEF Lane
  <2>2. lanes' = [lanes EXCEPT ![o] = m]
    BY <1>7 DEF PollSuperseded, o, l, poll
  <2>3. polls' = [polls EXCEPT ![p] = Returned(p, poll, "empty", 0)]
    BY <1>7 DEF PollSuperseded, Return, poll
  <2> HIDE DEF m
  <2>4. QED
    BY <1>5, <2>1, <2>2, <2>3
<1>8. CASE l.superseded = p /\ \E count \in BatchSizes(l) :
             /\ lanes' = [lanes EXCEPT ![o] = Taken(l, poll.cursor, count)]
             /\ Return(p, "batch", l.downCursor + 1)
  <2>1. PICK count \in BatchSizes(l) :
             /\ lanes' = [lanes EXCEPT ![o] = Taken(l, poll.cursor, count)]
             /\ Return(p, "batch", l.downCursor + 1)
    BY <1>8
  <2> DEFINE m == Taken(l, poll.cursor, count)
             n == l.downCursor + 1
  <2>2. m \in Lane /\ m.superseded = None /\ n \in Nat
    BY <1>1, <1>2, <2>1, TakenIs
  <2>3. lanes' = [lanes EXCEPT ![o] = m] /\ polls' = [polls EXCEPT ![p] = Returned(p, poll, "batch", n)]
    BY <2>1 DEF Return, poll
  <2> HIDE DEF m, n
  <2>4. QED
    BY <1>5, <2>2, <2>3
<1>9. ASSUME NEW kind \in {"empty", "laneclosed", "error"}, NEW next \in Nat,
             kind = "laneclosed" => l.superseded = p /\ NothingQueued(l),
             lanes' = [lanes EXCEPT ![o] = Leaves(l)], Return(p, kind, next)
      PROVE  \E st \in PollState, k \in Objects, n \in Lane : Goes(p, st, k, n)
  <2>1. /\ Leaves(l) \in Lane /\ Leaves(l).superseded = None
        /\ Leaves(l).frames = l.frames /\ Leaves(l).unacked = l.unacked
    BY <1>2, LeavesIs
  <2>2. polls' = [polls EXCEPT ![p] = Returned(p, poll, kind, next)]
    BY <1>9 DEF Return, poll
  <2>3. kind = "laneclosed" => Leaves(l).frames = << >> /\ Leaves(l).unacked = << >>
    BY <1>2, <1>9, <2>1 DEF NothingQueued
  <2>4. kind \in {"batch", "empty", "laneclosed", "error"}
    BY <1>9
  <2>5. QED
    BY <1>5, <1>9, <2>1, <2>2, <2>3, <2>4
<1>10. CASE /\ poll.pc = "woken" /\ l.superseded = p
            /\ NothingQueued(l) /\ ~closed /\ ~LaneOver(poll.id, o)
            /\ polls' = [polls EXCEPT ![p].pc = "parked"] /\ UNCHANGED lanes
  <2> DEFINE st == [poll EXCEPT !.pc = "parked"]
  <2>1. /\ st \in PollState /\ Placed(st, made) /\ st.lane = o /\ st.pc = "parked"
        /\ st.kind = poll.kind /\ st.id = poll.id
    BY <1>1, <1>2, <1>4 DEF PollState, Placed
  <2>2. lanes' = [lanes EXCEPT ![o] = l] /\ polls' = [polls EXCEPT ![p] = st]
    BY <1>2, <1>10 DEF l, poll, SessionInv, SessionTypes
  <2> HIDE DEF st
  <2>3. Moves(p, st)
    BY <2>1, <2>2, MovesOne
  <2>4. Tells(p, st, o, l) /\ Wakes(p, st, o, l)
    BY <1>10, <2>1 DEF Tells, Wakes, poll, NothingQueued
  <2>5. Goes(p, st, o, l)
    BY <1>3, <1>4, <2>1, <2>2, <2>3, <2>4 DEF Goes, poll
  <2>6. QED
    BY <1>2, <2>1, <2>5
<1>11. CASE PollWoken(p)
  <2>1. /\ poll.pc = "woken" /\ l.superseded = p
        /\ \/ \E count \in BatchSizes(l) :
                /\ lanes' = [lanes EXCEPT ![o] = Taken(l, poll.cursor, count)]
                /\ Return(p, "batch", l.downCursor + 1)
           \/ /\ NothingQueued(l) /\ closed
              /\ lanes' = [lanes EXCEPT ![o] = Leaves(l)]
              /\ Return(p, "error", 0)
           \/ /\ NothingQueued(l) /\ ~closed /\ LaneOver(poll.id, o)
              /\ lanes' = [lanes EXCEPT ![o] = Leaves(l)]
              /\ Return(p, "laneclosed", poll.cursor)
           \/ /\ NothingQueued(l) /\ ~closed /\ ~LaneOver(poll.id, o)
              /\ polls' = [polls EXCEPT ![p].pc = "parked"]
              /\ UNCHANGED lanes
    BY <1>11 DEF PollWoken, poll, o, l
  <2>2. CASE \E count \in BatchSizes(l) :
                /\ lanes' = [lanes EXCEPT ![o] = Taken(l, poll.cursor, count)]
                /\ Return(p, "batch", l.downCursor + 1)
    BY <1>8, <2>1, <2>2
  <2>3. CASE lanes' = [lanes EXCEPT ![o] = Leaves(l)] /\ Return(p, "error", 0)
    BY <1>9, <2>3
  <2>4. CASE /\ NothingQueued(l) /\ lanes' = [lanes EXCEPT ![o] = Leaves(l)]
             /\ Return(p, "laneclosed", poll.cursor)
    BY <1>1, <1>9, <2>1, <2>4
  <2>5. CASE /\ NothingQueued(l) /\ ~closed /\ ~LaneOver(poll.id, o)
             /\ polls' = [polls EXCEPT ![p].pc = "parked"]
             /\ UNCHANGED lanes
    BY <1>10, <2>1, <2>5
  <2>6. QED
    BY <2>1, <2>2, <2>3, <2>4, <2>5
<1>12. CASE PollExpires(p)
  BY <1>8, <1>9, <1>12 DEF PollExpires, poll, o, l
<1>13. CASE PollGivesUp(p)
  <2>1. /\ lanes' = [lanes EXCEPT ![o] = IF l.superseded = p THEN Leaves(l) ELSE l]
        /\ Return(p, "error", 0) /\ poll.pc = "parked"
    BY <1>13 DEF PollGivesUp, poll, o, l
  <2>2. CASE l.superseded = p
    BY <1>9, <2>1, <2>2
  <2>3. CASE l.superseded # p
    <3>1. lanes' = [lanes EXCEPT ![o] = l]
      BY <2>1, <2>3
    <3>2. polls' = [polls EXCEPT ![p] = Returned(p, poll, "error", 0)]
      BY <2>1 DEF Return, poll
    <3>3. QED
      BY <1>2, <1>5, <2>1, <3>1, <3>2
  <2>4. QED
    BY <2>2, <2>3
<1>14. QED
  BY <1>6, <1>7, <1>11, <1>12, <1>13 DEF Waits, Selects

\* The call itself changes, and a waiter may be told that it has to leave.
LEMMA MovesTold ==
    ASSUME CallTypes, NEW p \in Pollers, NEW st \in PollState, Placed(st, made), NEW lane,
           polls' = [[q \in Pollers |->
                        IF lane.downActive /\ q = lane.superseded
                        THEN [polls[q] EXCEPT !.mine = TRUE] ELSE polls[q]] EXCEPT ![p] = st]
    PROVE  Moves(p, st)
<1>1. ASSUME NEW q \in Pollers
      PROVE  /\ [polls[q] EXCEPT !.mine = TRUE] \in PollState
             /\ [polls[q] EXCEPT !.mine = TRUE].pc = polls[q].pc
             /\ [polls[q] EXCEPT !.mine = TRUE].lane = polls[q].lane
             /\ [polls[q] EXCEPT !.mine = TRUE].id = polls[q].id
             /\ [polls[q] EXCEPT !.mine = TRUE].kind = polls[q].kind
  <2>1. polls[q] \in PollState
    BY DEF CallTypes
  <2>2. QED
    BY <2>1 DEF PollState
<1> DEFINE said(q) == IF lane.downActive /\ q = lane.superseded
                      THEN [polls[q] EXCEPT !.mine = TRUE] ELSE polls[q]
<1>2. ASSUME NEW q \in Pollers
      PROVE  /\ said(q) \in PollState /\ said(q).pc = polls[q].pc
             /\ said(q).lane = polls[q].lane /\ said(q).id = polls[q].id
             /\ said(q).kind = polls[q].kind
  BY <1>1 DEF CallTypes
<1>3. polls' = [q \in Pollers |-> IF q = p THEN st ELSE said(q)]
  OBVIOUS
<1> HIDE DEF said
<1>4. /\ polls' \in [Pollers -> PollState] /\ polls'[p] = st
      /\ \A q \in Pollers \ {p} : polls'[q] = said(q)
  BY <1>2, <1>3
<1>5. QED
  BY <1>2, <1>4 DEF Moves

\* A call of PollLane.
LEMMA EntersGoes ==
    ASSUME SessionInv, CallTypes, WaitersInv, NEW p \in Pollers, NEW call \in PollState,
           Enters(p, call)
    PROVE  \E st \in PollState, o \in Objects, l \in Lane : Goes(p, st, o, l)
<1>1. /\ polls[p].lane = None /\ polls[p].pc # "woken"
      /\ call.kind = "none" /\ call.lane = None /\ call.pc \in {"idle", "ready"}
      /\ PollEnters(p, call)
      /\ call.id \in LaneIDs /\ call.cursor \in Nat
      /\ SessionTypes /\ TableInv
  BY DEF Enters, WaitersInv, Placed, SessionInv, PollState
<1> DEFINE o == carrierLanes[call.id]
           lane == lanes[o]
           acked == [lane EXCEPT !.unacked = << >>]
<1>2. CASE PollRejected(p, call)
  <2>1. /\ UNCHANGED <<closed, carrierLanes, lanes, made, writeCost, tombstones, conns>>
        /\ closing' \in BOOLEAN
    BY <1>2 DEF PollRejected, CallTypes
  <2>2. \/ polls' = [polls EXCEPT ![p] = [call EXCEPT !.pc = "fail"]]
        \/ polls' = [polls EXCEPT ![p] = Returned(p, call, "error", 0)]
    BY <1>2 DEF PollRejected
  <2>3. \E st \in PollState : Moves(p, st) /\ st.lane = None /\ st.kind # "laneclosed"
    <3>1. CASE polls' = [polls EXCEPT ![p] = [call EXCEPT !.pc = "fail"]]
      <4> DEFINE st == [call EXCEPT !.pc = "fail"]
      <4>1. st \in PollState /\ st.lane = None /\ st.kind = "none" /\ st.pc = "fail"
        BY <1>1 DEF PollState
      <4> HIDE DEF st
      <4>2. polls' = [polls EXCEPT ![p] = st] /\ Placed(st, made)
        BY <3>1, <4>1 DEF st, Placed
      <4>3. QED
        BY <4>1, <4>2, MovesOne
    <3>2. CASE polls' = [polls EXCEPT ![p] = Returned(p, call, "error", 0)]
      <4> DEFINE st == Returned(p, call, "error", 0)
      <4>1. Moves(p, st) /\ st.lane = None /\ st.kind # "laneclosed"
        BY <3>2, MovesAway
      <4> HIDE DEF st
      <4>2. QED
        BY <4>1 DEF Moves
    <3>3. QED
      BY <2>2, <3>1, <3>2
  <2>4. PICK st \in PollState : Moves(p, st) /\ st.lane = None /\ st.kind # "laneclosed"
    BY <2>3
  <2> DEFINE one == 1
  <2>5. one \in Objects /\ lanes[one] \in Lane /\ lanes' = [lanes EXCEPT ![one] = lanes[one]]
    BY <1>1, <2>1, Limits DEF SessionTypes
  <2> HIDE DEF one
  <2>6. Goes(p, st, one, lanes[one])
    BY <1>1, <2>1, <2>4, <2>5 DEF Goes, Tells, Wakes
  <2>7. QED
    BY <2>5, <2>6
<1>3. ASSUME o # None
      PROVE  /\ o \in Objects /\ lane \in Lane /\ lane.downCursor \in Nat
             /\ acked \in Lane /\ acked.frames = lane.frames /\ acked.unacked = << >>
  <2>1. o \in Objects /\ lane \in Lane
    BY <1>1, <1>3 DEF SessionTypes
  <2>2. << >> \in Seq(Frame)
    BY EmptySeq
  <2> HIDE DEF lane
  <2>3. QED
    BY <2>1, <2>2 DEF Lane
<1>4. CASE PollReplays(p, call)
  <2>1. /\ UNCHANGED <<closed, carrierLanes, lanes, made, writeCost, tombstones, conns>>
        /\ closing' \in BOOLEAN /\ o # None
        /\ polls' = [polls EXCEPT ![p] = Returned(p, call, "batch", lane.downCursor)]
    BY <1>4 DEF PollReplays, PollUnchanged, CallTypes
  <2>2. o \in Objects /\ lane \in Lane /\ lane.downCursor \in Nat
    BY <1>3, <2>1
  <2> DEFINE st == Returned(p, call, "batch", lane.downCursor)
  <2>3. lanes' = [lanes EXCEPT ![o] = lane]
    BY <1>1, <2>1 DEF SessionTypes
  <2> HIDE DEF o, lane
  <2>4. Moves(p, st) /\ st.lane = None /\ st.kind # "laneclosed"
    BY <2>1, <2>2, MovesAway
  <2>5. st \in PollState
    BY <2>4 DEF Moves
  <2> HIDE DEF st
  <2>6. Tells(p, st, o, lane) /\ Wakes(p, st, o, lane)
    BY <1>1, <2>4 DEF Tells, Wakes, lane
  <2>7. Goes(p, st, o, lane)
    BY <1>1, <2>1, <2>3, <2>4, <2>6 DEF Goes
  <2>8. QED
    BY <2>2, <2>5, <2>7
<1>5. CASE PollAdmitted(p, call)
  <2>1. /\ UNCHANGED <<closed, carrierLanes, made, writeCost, tombstones>> /\ conns' = conns
        /\ closing' \in BOOLEAN /\ o # None /\ ~closed
    BY <1>5 DEF PollAdmitted, PollUnchanged, CallTypes
  <2>2. /\ o \in Objects /\ lane \in Lane /\ lane.downCursor + 1 \in Nat
        /\ acked \in Lane /\ acked.frames = lane.frames /\ acked.unacked = << >>
    BY <1>3, <2>1
  <2>3. carrierLanes[call.id] = o
    OBVIOUS
  <2> DEFINE told == [q \in Pollers |->
                        IF lane.downActive /\ q = lane.superseded
                        THEN [polls[q] EXCEPT !.mine = TRUE] ELSE polls[q]]
  <2>4. ASSUME NEW st \in PollState, NEW l \in Lane,
               lanes' = [lanes EXCEPT ![o] = l], polls' = [told EXCEPT ![p] = st],
               Placed(st, made), st.lane \in {None, o},
               st.kind = "laneclosed" =>
                 st.id = call.id /\ l.frames = << >> /\ l.unacked = << >>,
               \/ l.superseded = None
               \/ /\ l.superseded = p /\ st.lane = o
                  /\ l.frames = << >> /\ ~closed /\ ~LaneOver(st.id, o)
        PROVE  \E s \in PollState, k \in Objects, n \in Lane : Goes(p, s, k, n)
    <3>1. Moves(p, st)
      BY <2>4, MovesTold
    <3> HIDE DEF o, told, lane
    <3>2. Tells(p, st, o, l)
      BY <2>3, <2>4 DEF Tells
    <3>3. Wakes(p, st, o, l)
      BY <2>4 DEF Wakes
    <3>4. Goes(p, st, o, l)
      BY <1>1, <2>1, <2>4, <3>1, <3>2, <3>3 DEF Goes
    <3>5. QED
      BY <2>2, <2>4, <3>4
  <2>5. CASE \E count \in BatchSizes(acked) :
               /\ lanes' = [lanes EXCEPT ![o] = Taken(acked, call.cursor, count)]
               /\ polls' = [told EXCEPT ![p] = Returned(p, call, "batch", lane.downCursor + 1)]
    <3>1. PICK count \in BatchSizes(acked) :
               /\ lanes' = [lanes EXCEPT ![o] = Taken(acked, call.cursor, count)]
               /\ polls' = [told EXCEPT ![p] = Returned(p, call, "batch", lane.downCursor + 1)]
      BY <2>5
    <3> DEFINE l == Taken(acked, call.cursor, count)
               n == lane.downCursor + 1
               st == Returned(p, call, "batch", n)
    <3>2. l \in Lane /\ l.superseded = None
      <4> HIDE DEF acked
      <4>1. QED
        BY <1>1, <2>2, <3>1, TakenIs
    <3>3. /\ st \in PollState /\ st.lane = None /\ st.kind # "laneclosed"
          /\ Placed(st, made)
      <4>1. n \in Nat
        BY <2>2
      <4> HIDE DEF n, lane, o
      <4>2. /\ st \in PollState /\ st.lane = None /\ st.kind # "laneclosed"
            /\ st.pc \notin {"parked", "woken"}
        BY <4>1, ReturnedIs
      <4> HIDE DEF st
      <4>3. QED
        BY <4>2 DEF Placed
    <3>4. lanes' = [lanes EXCEPT ![o] = l] /\ polls' = [told EXCEPT ![p] = st]
      BY <3>1
    <3> HIDE DEF l, st, told, o
    <3>5. QED
      BY <2>4, <3>2, <3>3, <3>4
  <2>6. CASE /\ NothingQueued(lane)
             /\ lanes' = [lanes EXCEPT ![o] = Leaves(acked)]
             /\ polls' = [told EXCEPT ![p] = Returned(p, call, "laneclosed", call.cursor)]
    <3> DEFINE l == Leaves(acked)
               st == Returned(p, call, "laneclosed", call.cursor)
    <3>1. l \in Lane /\ l.superseded = None /\ l.frames = << >> /\ l.unacked = << >>
      <4>1. lane.frames = << >>
        BY <2>6 DEF NothingQueued
      <4> HIDE DEF acked
      <4>2. QED
        BY <2>2, <4>1, LeavesIs
    <3>2. /\ st \in PollState /\ st.lane = None /\ Placed(st, made)
      <4> HIDE DEF lane, o
      <4>1. st \in PollState /\ st.lane = None /\ st.pc \notin {"parked", "woken"}
        BY <1>1, ReturnedIs
      <4> HIDE DEF st
      <4>2. QED
        BY <4>1 DEF Placed
    <3>3. st.id = call.id
      BY DEF Returned, NoPoll
    <3>4. lanes' = [lanes EXCEPT ![o] = l] /\ polls' = [told EXCEPT ![p] = st]
      BY <2>6
    <3> HIDE DEF l, st, told, o
    <3>5. QED
      BY <2>4, <3>1, <3>2, <3>3, <3>4
  <2>7. CASE /\ NothingQueued(lane) /\ ~LaneOver(call.id, o)
             /\ lanes' = [lanes EXCEPT ![o] = [acked EXCEPT !.downActive = TRUE, !.superseded = p]]
             /\ polls' = [told EXCEPT ![p] = [call EXCEPT !.pc = "parked", !.lane = o]]
    <3> DEFINE l == [acked EXCEPT !.downActive = TRUE, !.superseded = p]
               st == [call EXCEPT !.pc = "parked", !.lane = o]
    <3>1. l \in Lane /\ l.superseded = p /\ l.frames = << >>
      <4>1. lane.frames = << >>
        BY <2>7 DEF NothingQueued
      <4> HIDE DEF acked
      <4>2. QED
        BY <2>2, <4>1 DEF Lane
    <3>2. /\ st \in PollState /\ st.lane = o /\ st.kind = "none" /\ st.id = call.id
          /\ st.pc = "parked"
      <4> HIDE DEF o
      <4>1. QED
        BY <1>1, <2>2 DEF PollState
    <3>3. Placed(st, made)
      <4>1. o \in 1 .. made
        BY <1>1, <2>1 DEF TableInv
      <4> HIDE DEF st, o
      <4>2. QED
        BY <2>1, <3>2, <4>1 DEF Placed
    <3>4. lanes' = [lanes EXCEPT ![o] = l] /\ polls' = [told EXCEPT ![p] = st]
      BY <2>7
    <3>5. ~LaneOver(st.id, o)
      <4>1. st.id = call.id
        BY <3>2
      <4> HIDE DEF st, o
      <4>2. QED
        BY <2>7, <4>1 DEF o
    <3> HIDE DEF l, st, told, o
    <3>6. QED
      BY <2>1, <2>4, <3>1, <3>2, <3>3, <3>4, <3>5
  <2>8. QED
    BY <1>5, <2>5, <2>6, <2>7 DEF PollAdmitted
<1>6. QED
  BY <1>1, <1>2, <1>4, <1>5 DEF PollEnters

\* Lanes are made one after the other.
LEMMA MadeGrows ==
    ASSUME SessionTypes, Serves
    PROVE  made \in Nat /\ made' \in Nat /\ made <= made'
<1>1. made \in Nat /\ made + 1 \in Nat
  BY Limits DEF SessionTypes
<1>2. ASSUME NEW id, Makes(id) PROVE made' \in Nat /\ made <= made'
  BY <1>1, <1>2 DEF Makes
<1>3. CASE made' = made
  BY <1>1, <1>3
<1>4. QED
  BY <1>1, <1>2, <1>3 DEF Serves, CloseLocked, Still, Owns, Remembers, Queues, Writes,
                          ReleaseWebSocketLane

\* The polls and the sockets stay what they are.
LEMMA CallsStay ==
    ASSUME SessionInv, CallTypes, WaitersInv, [Next]_vars
    PROVE  CallTypes' /\ WaitersInv'
<1>1. SessionTypes /\ TableInv /\ LiveStreamHasLane /\ made \in Nat
  BY Limits DEF SessionInv, SessionTypes
<1>2. CASE Serves /\ Stays
  <2>1. made \in Nat /\ made' \in Nat /\ made <= made'
    BY <1>1, <1>2, MadeGrows
  <2>2. ASSUME NEW p \in Pollers
        PROVE  Placed(polls'[p], made')
    <3>1. CASE polls'[p] = polls[p]
      <4>1. Placed(polls[p], made)
        BY DEF WaitersInv
      <4>2. QED
        BY <2>1, <3>1, <4>1 DEF Placed
    <3>2. CASE polls'[p].lane = None /\ polls'[p].pc \notin {"parked", "woken"}
      BY <3>2 DEF Placed
    <3>3. QED
      BY <1>2, <3>1, <3>2 DEF Stays
  <2>3. QED
    BY <1>2, <2>2 DEF Stays, CallTypes, WaitersInv, Placed
<1>3. ASSUME NEW p \in Pollers, NEW st \in PollState, NEW o \in Objects, NEW l \in Lane,
             Goes(p, st, o, l)
      PROVE  CallTypes' /\ WaitersInv'
  <2>1. Moves(p, st) /\ closing' \in BOOLEAN /\ conns' = conns /\ made' = made
    BY <1>3 DEF Goes
  <2>2. ASSUME NEW q \in Pollers
        PROVE  Placed(polls'[q], made')
    <3>1. CASE q = p
      BY <2>1, <3>1 DEF Moves
    <3>2. CASE q # p
      <4>1. Placed(polls[q], made)
        BY DEF WaitersInv
      <4>2. QED
        BY <2>1, <3>2, <4>1 DEF Moves, Placed
    <3>3. QED
      BY <3>1, <3>2
  <2>3. QED
    BY <2>1, <2>2 DEF Moves, CallTypes, WaitersInv, Placed
<1>4. QED
  BY <1>1, <1>2, <1>3, StepShape, EntersGoes, WaitsGoes

--------------------------------------------------------------------------------
(* Wake-ups.                                                               *)

\* No new reason to return from the lane o has come.
Quiet(o) ==
    /\ ~lanes[o].notify /\ ~closed
    /\ lanes'[o].frames = lanes[o].frames
    /\ \A id \in LaneIDs : LaneOver(id, o)' => LaneOver(id, o)

\* What remembering id changes, but for the lanes' contents.
LEMMA OverAfter ==
    ASSUME SessionTypes, TableInv, NEW o \in Objects, NEW id \in LaneIDs,
           \A j \in LaneIDs : Tombstoned(j)' => Tombstoned(j) \/ j = id,
           \A j \in StreamIDs : j # id => writeCost'[j] = writeCost[j],
           \A j \in LaneIDs : carrierLanes[j] = o => carrierLanes'[j] = o /\ j # id
    PROVE  \A j \in LaneIDs : LaneOver(j, o)' => LaneOver(j, o)
<1> SUFFICES ASSUME NEW j \in LaneIDs, LaneOver(j, o)', ~LaneOver(j, o)
             PROVE  FALSE
  OBVIOUS
<1>1. carrierLanes[j] = o
  BY DEF LaneOver
<1>2. carrierLanes'[j] = o /\ j # id
  BY <1>1
<1>3. j # 0 /\ ~Live(j)' /\ Tombstoned(j)'
  BY <1>2 DEF LaneOver
<1>4. ~Live(j) /\ Tombstoned(j)
  BY <1>2, <1>3 DEF Live, LaneIDs
<1>5. QED
  BY <1>3, <1>4 DEF LaneOver

\* Whatever gives a poll of a lane a reason to return leaves a token there.
LEMMA ServesWakes ==
    ASSUME SessionInv, Serves, NEW o \in 1 .. made
    PROVE  /\ lanes'[o].superseded = lanes[o].superseded
           /\ closed' \/ lanes'[o].notify \/ Quiet(o)
<1>1. SessionTypes /\ TableInv /\ LiveStreamHasLane /\ o \in Objects /\ o # None
      /\ lanes[o] \in Lane /\ made \in Nat
  BY Limits DEF SessionInv, SessionTypes, Objects
<1>2. CASE CloseLocked
  <2>1. closed' = TRUE
    BY <1>2 DEF CloseLocked
  <2>2. lanes'[o] = Emptied(lanes[o]) \/ lanes'[o] = lanes[o]
    BY <1>1, <1>2 DEF CloseLocked
  <2>3. QED
    BY <1>1, <2>1, <2>2, EmptyLanes
<1>3. CASE /\ UNCHANGED <<closed, carrierLanes, tombstones>>
           /\ \A j \in StreamIDs : writeCost'[j] # None <=> writeCost[j] # None
           /\ \/ lanes'[o].notify
              \/ lanes'[o].frames = lanes[o].frames /\ lanes'[o].notify = lanes[o].notify
           /\ lanes'[o].superseded = lanes[o].superseded
  <2>1. \A j \in LaneIDs : LaneOver(j, o)' => LaneOver(j, o)
    BY <1>3 DEF LaneOver, Tombstoned, Live, LaneIDs
  <2>2. QED
    BY <1>1, <1>3, <2>1 DEF Quiet, SessionTypes, Lane
<1>4. CASE Still
  BY <1>3, <1>4 DEF Still
<1>5. ASSUME NEW id \in LaneIDs, NEW own \in Lane, NEW add \in Nat, Owns(id, own, add)
      PROVE  /\ lanes'[o].superseded = lanes[o].superseded
             /\ closed' \/ lanes'[o].notify \/ Quiet(o)
  <2>1. /\ Room(id) /\ own.frames = LaneState(id).frames
        /\ own.superseded = LaneState(id).superseded /\ own.notify = LaneState(id).notify
        /\ lanes' = [lanes EXCEPT ![LaneFor(id)] = own]
        /\ carrierLanes' = [carrierLanes EXCEPT ![id] = LaneFor(id)]
        /\ tombstones' = tombstones /\ closed' = closed
        /\ \/ UNCHANGED writeCost
           \/ id \in StreamIDs /\ writeCost' = [writeCost EXCEPT ![id] = Old(id) + add]
    BY <1>5 DEF Owns
  <2>2. /\ LaneFor(id) \in Objects
        /\ \A j \in LaneIDs \ {id} : carrierLanes[j] # LaneFor(id)
        /\ carrierLanes[id] # None => LaneFor(id) = carrierLanes[id] /\ LaneState(id) = lanes[LaneFor(id)]
        /\ carrierLanes[id] = None => LaneFor(id) = made + 1
    BY <1>1, <2>1, LaneForIs
  <2>3. /\ lanes'[o].superseded = lanes[o].superseded /\ lanes'[o].frames = lanes[o].frames
        /\ lanes'[o].notify = lanes[o].notify
    <3>1. CASE o = LaneFor(id)
      <4>1. carrierLanes[id] # None
        BY <1>1, <2>2, <3>1
      <4>2. QED
        BY <1>1, <2>1, <2>2, <3>1, <4>1 DEF SessionTypes
    <3>2. CASE o # LaneFor(id)
      BY <1>1, <2>1, <3>2 DEF SessionTypes
    <3>3. QED
      BY <3>1, <3>2
  <2>4. ASSUME NEW j \in LaneIDs, LaneOver(j, o)' PROVE LaneOver(j, o)
    <3>1. carrierLanes[j] = o => carrierLanes'[j] = o
      BY <1>1, <2>1, <2>2 DEF SessionTypes
    <3>2. Tombstoned(j)' = Tombstoned(j)
      BY <2>1 DEF Tombstoned
    <3>3. Live(j) => Live(j)'
      <4>1. Old(id) + add # None
        <5>1. Old(id) \in Nat
          BY <1>1 DEF Old, Live, SessionTypes, LaneIDs
        <5>2. QED
          BY <5>1, Limits
      <4>2. j # 0 => j \in StreamIDs
        BY DEF LaneIDs
      <4>3. QED
        BY <1>1, <2>1, <4>1, <4>2 DEF Live, SessionTypes
    <3>4. QED
      BY <2>4, <3>1, <3>2, <3>3 DEF LaneOver
  <2>5. QED
    BY <1>1, <2>1, <2>3, <2>4 DEF Quiet, SessionTypes, Lane
<1>6. ASSUME NEW id \in StreamIDs, NEW own \in Lane, NEW n \in Nat, Remembers(id, own, n)
      PROVE  /\ lanes'[o].superseded = lanes[o].superseded
             /\ closed' \/ lanes'[o].notify \/ Quiet(o)
  <2>1. /\ Room(id) /\ id \in LaneIDs /\ own.superseded = LaneState(id).superseded
        /\ tombstones' = Remembered(id) /\ closed' = closed
        /\ carrierLanes' = [i \in LaneIDs |->
             IF i = id THEN LaneFor(id) ELSE IF i \in Evicted(id) THEN None ELSE carrierLanes[i]]
        /\ writeCost' = [writeCost EXCEPT ![id] = None]
    BY <1>6, Limits DEF Remembers, RememberClosed
  <2>2. /\ LaneFor(id) \in Objects
        /\ \A j \in LaneIDs \ {id} : carrierLanes[j] # LaneFor(id)
        /\ carrierLanes[id] # None => LaneFor(id) = carrierLanes[id] /\ LaneState(id) = lanes[LaneFor(id)]
        /\ carrierLanes[id] = None => LaneFor(id) = made + 1
    BY <1>1, <2>1, LaneForIs
  <2>3. /\ lanes'[LaneFor(id)].superseded = own.superseded
        /\ lanes'[LaneFor(id)].notify
        /\ \A e \in EvictedLanes(id) :
             e \in Objects \ {LaneFor(id)} /\ lanes'[e] = Forgotten(lanes[e])
        /\ \A k \in Objects \ {LaneFor(id)} : k \in EvictedLanes(id) \/ lanes'[k] = lanes[k]
    BY <1>1, <1>6, RememberedLanes
  <2>4. CASE o = LaneFor(id)
    <3>1. carrierLanes[id] # None
      BY <1>1, <2>2, <2>4
    <3>2. QED
      BY <2>1, <2>2, <2>3, <2>4, <3>1
  <2>5. CASE o \in EvictedLanes(id)
    BY <1>1, <2>3, <2>5, EmptyLanes
  <2>6. CASE o # LaneFor(id) /\ o \notin EvictedLanes(id)
    <3>1. lanes'[o] = lanes[o]
      BY <1>1, <2>3, <2>6
    <3>2. \A j \in LaneIDs : carrierLanes[j] = o => carrierLanes'[j] = o /\ j # id
      <4>1. ASSUME NEW j \in LaneIDs, carrierLanes[j] = o
            PROVE  carrierLanes'[j] = o /\ j # id
        <5>1. j # id
          BY <1>1, <2>2, <2>6, <4>1
        <5>2. j \notin Evicted(id)
          BY <1>1, <2>6, <4>1 DEF EvictedLanes
        <5>3. QED
          BY <2>1, <4>1, <5>1, <5>2
      <4>2. QED
        BY <4>1
    <3>3. \A j \in LaneIDs : Tombstoned(j)' => Tombstoned(j) \/ j = id
      BY <1>1, <2>1, TombstonesOf DEF Tombstoned
    <3>4. \A j \in StreamIDs : j # id => writeCost'[j] = writeCost[j]
      BY <1>1, <2>1 DEF SessionTypes
    <3>5. \A j \in LaneIDs : LaneOver(j, o)' => LaneOver(j, o)
      BY <1>1, <2>1, <3>2, <3>3, <3>4, OverAfter
    <3>6. QED
      BY <1>1, <2>1, <3>1, <3>5 DEF Quiet, SessionTypes
  <2>7. QED
    BY <2>4, <2>5, <2>6
<1>7. ASSUME NEW id \in StreamIDs, NEW t \in Kinds, NEW d \in {0, 1}, Queues(id, t, d)
      PROVE  /\ lanes'[o].superseded = lanes[o].superseded
             /\ closed' \/ lanes'[o].notify \/ Quiet(o)
  <2>1. /\ carrierLanes[id] \in Objects /\ lanes[carrierLanes[id]] \in Lane
        /\ writeCost[id] \in Nat /\ writeCost[id] - d \in Nat
    <3>1. Live(id) /\ carrierLanes[id] # None /\ d <= writeCost[id]
      BY <1>7 DEF Queues
    <3>2. carrierLanes[id] \in Objects /\ lanes[carrierLanes[id]] \in Lane
      BY <1>1, <3>1, Limits DEF SessionTypes
    <3>3. writeCost[id] \in Nat /\ d \in Nat
      BY <1>1, <3>1 DEF SessionTypes, Live
    <3>4. QED
      BY <3>1, <3>2, <3>3
  <2>2. /\ Queued(lanes[carrierLanes[id]], t).superseded = lanes[carrierLanes[id]].superseded
        /\ Queued(lanes[carrierLanes[id]], t).notify = TRUE
    BY <2>1, QueuedIs
  <2>3. /\ lanes' = [lanes EXCEPT ![carrierLanes[id]] = Queued(@, t)]
        /\ writeCost' = [writeCost EXCEPT ![id] = @ - d]
        /\ UNCHANGED <<closed, carrierLanes, tombstones>>
    BY <1>7 DEF Queues
  <2>4. \A j \in StreamIDs : writeCost'[j] # None <=> writeCost[j] # None
    BY <1>1, <2>1, <2>3, Limits DEF SessionTypes
  <2>5. /\ lanes'[o].superseded = lanes[o].superseded
        /\ lanes'[o].notify \/ lanes'[o] = lanes[o]
    BY <1>1, <2>1, <2>2, <2>3 DEF SessionTypes
  <2>6. QED
    BY <1>3, <2>3, <2>4, <2>5
<1>8. ASSUME NEW id \in StreamIDs, Writes(id)
      PROVE  /\ lanes'[o].superseded = lanes[o].superseded
             /\ closed' \/ lanes'[o].notify \/ Quiet(o)
  <2>1. writeCost[id] \in Nat /\ writeCost[id] - 1 \in Nat
    BY <1>1, <1>8 DEF Writes, SessionTypes, Live
  <2>2. \A j \in StreamIDs : writeCost'[j] # None <=> writeCost[j] # None
    BY <1>1, <1>8, <2>1, Limits DEF Writes, SessionTypes
  <2>3. QED
    BY <1>3, <1>8, <2>2 DEF Writes
<1>9. ASSUME NEW id \in LaneIDs, ReleaseWebSocketLane(id)
      PROVE  /\ lanes'[o].superseded = lanes[o].superseded
             /\ closed' \/ lanes'[o].notify \/ Quiet(o)
  <2> DEFINE own == carrierLanes[id]
             gone == Live(id) /\ own # None
             E == IF gone THEN EvictedLanes(id) ELSE {}
             dropped == IF gone THEN Evicted(id) ELSE {}
  <2>1. /\ tombstones' = IF gone THEN Remembered(id) ELSE tombstones
        /\ writeCost' = IF gone THEN [writeCost EXCEPT ![id] = None] ELSE writeCost
        /\ carrierLanes' = [i \in LaneIDs |->
             IF i = id \/ i \in dropped THEN None ELSE carrierLanes[i]]
        /\ lanes' = [k \in Objects |->
             IF k = own \/ k \in E THEN Forgotten(lanes[k]) ELSE lanes[k]]
        /\ closed' = closed
    BY <1>9 DEF ReleaseWebSocketLane
  <2>2. gone => id \in StreamIDs
    BY DEF Live, LaneIDs
  <2>3. \A j \in LaneIDs : carrierLanes[j] = o => carrierLanes[j] = own \/ j # id
    OBVIOUS
  <2>4. \A j \in dropped : carrierLanes[j] = o => o \in E
    BY <1>1 DEF EvictedLanes
  <2>5. \A j \in LaneIDs : Tombstoned(j)' => Tombstoned(j) \/ j = id
    BY <1>1, <2>1, <2>2, TombstonesOf DEF Tombstoned
  <2>6. carrierLanes[id] = own
    OBVIOUS
  <2> HIDE DEF own, E, dropped
  <2>7. CASE o = own \/ o \in E
    <3>1. lanes'[o] = Forgotten(lanes[o])
      BY <1>1, <2>1, <2>7
    <3>2. QED
      BY <1>1, <3>1, EmptyLanes
  <2>8. CASE ~(o = own \/ o \in E)
    <3>1. lanes'[o] = lanes[o]
      BY <1>1, <2>1, <2>8
    <3>2. \A j \in LaneIDs : carrierLanes[j] = o => carrierLanes'[j] = o /\ j # id
      <4>1. ASSUME NEW j \in LaneIDs, carrierLanes[j] = o
            PROVE  carrierLanes'[j] = o /\ j # id
        <5>1. j # id
          BY <2>6, <2>8, <4>1
        <5>2. j \notin dropped
          BY <2>4, <2>8, <4>1
        <5>3. QED
          BY <2>1, <4>1, <5>1, <5>2
      <4>2. QED
        BY <4>1
    <3>3. \A j \in StreamIDs : j # id => writeCost'[j] = writeCost[j]
      BY <1>1, <2>1 DEF SessionTypes
    <3>4. \A j \in LaneIDs : LaneOver(j, o)' => LaneOver(j, o)
      BY <1>1, <2>5, <3>2, <3>3, OverAfter
    <3>5. QED
      BY <1>1, <2>1, <3>1, <3>4 DEF Quiet, SessionTypes
  <2>9. QED
    BY <2>7, <2>8
<1>10. QED
  BY <1>2, <1>4, <1>5, <1>6, <1>7, <1>8, <1>9 DEF Serves

\* No wake-up is lost in a step that is not one of a poll.
LEMMA ServesOwes ==
    ASSUME SessionInv, CallTypes, WaitersInv, WakeUpOwed, Serves, Stays
    PROVE  WakeUpOwed'
<1> SUFFICES ASSUME NEW p \in Pollers, MustReturn(p)',
                    lanes'[polls'[p].lane].superseded = p
             PROVE  \/ closed' \/ lanes'[polls'[p].lane].notify
                    \/ \E q \in Pollers \ {p} :
                         polls'[q].pc = "woken" /\ polls'[q].lane = polls'[p].lane
  BY DEF WakeUpOwed
<1> DEFINE o == polls[p].lane
<1>1. polls'[p] = polls[p] /\ polls[p].pc = "parked"
  BY DEF MustReturn, Stays
<1>2. o \in 1 .. made /\ o # None /\ polls[p].id \in LaneIDs
  BY <1>1 DEF WaitersInv, Placed, CallTypes, PollState
<1>3. /\ lanes'[o].superseded = lanes[o].superseded
      /\ closed' \/ lanes'[o].notify \/ Quiet(o)
  BY <1>2, ServesWakes
<1>4. CASE closed' \/ lanes'[o].notify
  BY <1>1, <1>4
<1>5. CASE Quiet(o) /\ ~closed'
  <2>1. LaneOver(polls[p].id, o)' => LaneOver(polls[p].id, o)
    <3> DEFINE id == polls[p].id
    <3>1. LaneOver(polls[p].id, o)' = LaneOver(id, o)'
      OBVIOUS
    <3>2. QED
      BY <1>1, <1>2, <1>5 DEF Quiet, LaneOver, Live, Tombstoned
  <2>2. MustReturn(p)
    BY <1>1, <1>5, <2>1 DEF MustReturn, Quiet
  <2>3. lanes[o].superseded = p
    BY <1>1, <1>3
  <2>4. PICK q \in Pollers \ {p} : polls[q].pc = "woken" /\ polls[q].lane = o
    BY <1>5, <2>2, <2>3 DEF WakeUpOwed, Quiet
  <2>5. polls'[q] = polls[q]
    BY <1>2, <2>4 DEF Stays
  <2>6. QED
    BY <1>1, <2>4, <2>5
<1>6. QED
  BY <1>3, <1>4, <1>5

\* No wake-up is lost in a step of a poll.
LEMMA GoesOwes ==
    ASSUME SessionInv, CallTypes, WaitersInv, WakeUpOwed, NEW p \in Pollers,
           NEW st \in PollState, NEW o \in Objects, NEW l \in Lane, Goes(p, st, o, l)
    PROVE  WakeUpOwed'
<1> SUFFICES ASSUME NEW r \in Pollers, MustReturn(r)',
                    lanes'[polls'[r].lane].superseded = r, ~closed',
                    ~lanes'[polls'[r].lane].notify
             PROVE  \E q \in Pollers \ {r} :
                      polls'[q].pc = "woken" /\ polls'[q].lane = polls'[r].lane
  BY DEF WakeUpOwed
<1>1. /\ Moves(p, st) /\ lanes' = [lanes EXCEPT ![o] = l] /\ lanes \in [Objects -> Lane]
      /\ UNCHANGED <<closed, carrierLanes, made, writeCost, tombstones>>
      /\ polls[p].lane \in {None, o} /\ st.lane \in {None, o} /\ Wakes(p, st, o, l)
      /\ ~closed /\ polls'[p] = st /\ Placed(st, made) /\ o # None /\ r # None
  BY Limits DEF Goes, Moves, SessionInv, SessionTypes
<1>2. \A q \in Pollers : polls[q].lane # None <=> polls[q].pc \in {"parked", "woken"}
  BY DEF WaitersInv, Placed
<1>3. \A q \in Pollers \ {p} : polls'[q].pc = polls[q].pc /\ polls'[q].lane = polls[q].lane
                               /\ polls'[q].id = polls[q].id
  BY <1>1 DEF Moves
<1>4. \A id, k : LaneOver(id, k)' = LaneOver(id, k)
  BY <1>1 DEF LaneOver, Live, Tombstoned
<1>5. /\ polls'[r].pc = "parked"
      /\ LaneOver(polls'[r].id, polls'[r].lane) \/ lanes'[polls'[r].lane].frames # << >>
  <2>1. LaneOver(polls[r].id, polls[r].lane)' => LaneOver(polls'[r].id, polls'[r].lane)
    BY <1>1 DEF LaneOver, Live, Tombstoned
  <2>2. QED
    BY <2>1 DEF MustReturn
\* A reason that was there before.
<1>6. ASSUME r # p, lanes'[polls[r].lane] = lanes[polls[r].lane], polls[p].pc # "woken"
                                                                  \/ polls[r].lane # o
      PROVE  \E q \in Pollers \ {r} :
               polls'[q].pc = "woken" /\ polls'[q].lane = polls'[r].lane
  <2>1. MustReturn(r) /\ lanes[polls[r].lane].superseded = r /\ ~lanes[polls[r].lane].notify
    BY <1>3, <1>5, <1>6 DEF MustReturn
  <2>2. PICK q \in Pollers \ {r} : polls[q].pc = "woken" /\ polls[q].lane = polls[r].lane
    BY <1>1, <2>1 DEF WakeUpOwed
  <2>3. polls[r].lane # None
    BY <1>2, <2>1 DEF MustReturn
  <2>4. q # p
    BY <1>1, <1>6, <2>2, <2>3
  <2>5. QED
    BY <1>3, <1>6, <2>2, <2>4
<1>7. CASE r = p
  <2>1. st.lane = o /\ st.pc = "parked"
    BY <1>1, <1>5, <1>7 DEF Placed
  <2>2. l.superseded = p /\ ~l.notify
        /\ (LaneOver(st.id, o) \/ l.frames # << >>)
    BY <1>1, <1>5, <1>7, <2>1
  <2>3. QED
    BY <1>1, <1>7, <2>1, <2>2 DEF Wakes
<1>8. CASE r # p /\ polls[r].lane # o
  <2>1. lanes'[polls[r].lane] = lanes[polls[r].lane]
    BY <1>1, <1>8
  <2>2. QED
    BY <1>6, <1>8, <2>1
<1>9. CASE r # p /\ polls[r].lane = o
  <2>1. l.superseded = r /\ ~l.notify /\ polls'[r].lane = o
    BY <1>1, <1>3, <1>9
  <2>2. \/ st.pc = "woken" /\ st.lane = o
        \/ l = lanes[o] /\ polls[p].pc # "woken" /\ st.lane = None
    BY <1>1, <1>9, <2>1 DEF Wakes
  <2>3. CASE st.pc = "woken" /\ st.lane = o
    BY <1>1, <1>9, <2>1, <2>3
  <2>4. CASE l = lanes[o] /\ polls[p].pc # "woken"
    BY <1>1, <1>6, <1>9, <2>4
  <2>5. QED
    BY <2>2, <2>3, <2>4
<1>10. QED
  BY <1>7, <1>8, <1>9

--------------------------------------------------------------------------------
(* The inductive invariant.                                                *)

Inv == SessionInv /\ CallTypes /\ WaitersInv /\ WakeUpOwed

\* A new session has at most lane zero, empty, and nobody has called.
LEMMA InitInv == Init => Inv
<1> SUFFICES ASSUME Init
             PROVE  Inv
  OBVIOUS
<1>1. /\ closed = FALSE /\ closing = FALSE
      /\ carrierLanes = [id \in LaneIDs |-> IF id = 0 /\ ~WebSockets THEN 1 ELSE None]
      /\ lanes = [o \in Objects |-> NewLane]
      /\ made = IF WebSockets THEN 0 ELSE 1
      /\ writeCost = [id \in StreamIDs |-> None]
      /\ tombstones = << >> /\ pendingCost = 0
      /\ polls = [p \in Pollers |-> NoPoll]
      /\ conns = [c \in Conns |-> NoConn]
  BY DEF Init
<1>2. /\ NewLane \in Lane /\ NewLane.frames = << >> /\ NewLane.unacked = << >>
      /\ NewLane.superseded = None
  BY EmptyLanes
<1>3. \A o \in Objects : lanes[o] = NewLane
  BY <1>1
<1>4. \A id \in StreamIDs : writeCost[id] = None /\ ~Live(id)
  BY <1>1 DEF Live
<1>5. /\ closed \in BOOLEAN /\ carrierLanes \in [LaneIDs -> Objects \cup {None}]
      /\ lanes \in [Objects -> Lane] /\ made \in 0 .. MaxLanes
      /\ writeCost \in [StreamIDs -> Nat \cup {None}]
      /\ tombstones \in Seq(StreamIDs)
  <2>1. lanes \in [Objects -> Lane]
    BY <1>1, <1>2
  <2>2. tombstones \in Seq(StreamIDs)
    BY <1>1, EmptySeq
  <2>3. carrierLanes \in [LaneIDs -> Objects \cup {None}]
    BY <1>1, Limits
  <2>4. made \in 0 .. MaxLanes
    BY <1>1, Limits
  <2>5. writeCost \in [StreamIDs -> Nat \cup {None}]
    BY <1>1
  <2>6. QED
    BY <1>1, <2>1, <2>2, <2>3, <2>4, <2>5
<1>6. TableInv
  <2>1. \A id \in LaneIDs : carrierLanes[id] # None => carrierLanes[id] = 1 /\ id = 0 /\ made = 1
    BY <1>1
  <2>2. 1 \in 1 .. 1
    OBVIOUS
  <2>3. QED
    BY <1>2, <1>3, <2>1, <2>2 DEF TableInv
<1>7. LiveStreamHasLane
  BY <1>4 DEF LiveStreamHasLane, LiveIDs
<1>8. ChargeInv
  <2>1. \A o \in Objects : LaneCosts[o] = 0
    <3>1. LaneCost(NewLane) = 0
      BY <1>2, LaneCostOf
    <3>2. QED
      BY <1>3, <3>1 DEF LaneCosts, LaneCost
  <2>2. \A id \in StreamIDs : WriteCosts[id] = 0
    BY <1>4 DEF WriteCosts, Old
  <2>3. Total(Objects, LaneCosts) = 0 /\ Total(StreamIDs, WriteCosts) = 0
    BY <2>1, <2>2, TotalZero
  <2>4. QED
    BY <1>1, <2>3 DEF ChargeInv
<1>9. CallTypes
  <2>1. NoPoll \in PollState
    BY Limits DEF NoPoll, PollState
  <2>2. NoConn \in ConnState
    BY Limits, EmptySeq DEF NoConn, ConnState
  <2>3. QED
    BY <1>1, <2>1, <2>2 DEF CallTypes
<1>10. \A p \in Pollers : polls[p].pc = "idle" /\ polls[p].lane = None
  BY <1>1 DEF NoPoll
<1>11. WaitersInv
  BY <1>10 DEF WaitersInv, Placed
<1>12. WakeUpOwed
  BY <1>10 DEF WakeUpOwed, MustReturn
<1>13. pendingCost \in Nat
  BY <1>1
<1>14. QED
  BY <1>5, <1>6, <1>7, <1>8, <1>9, <1>11, <1>12, <1>13 DEF Inv, SessionInv, SessionTypes

\* Every step preserves it.
LEMMA NextInv == Inv /\ [Next]_vars => Inv'
<1> SUFFICES ASSUME Inv, [Next]_vars
             PROVE  Inv'
  OBVIOUS
<1>1. /\ SessionInv /\ CallTypes /\ WaitersInv /\ WakeUpOwed
      /\ SessionTypes /\ TableInv /\ LiveStreamHasLane
  BY DEF Inv, SessionInv
<1>2. SessionInv' /\ CallTypes' /\ WaitersInv'
  BY <1>1, SessionStays, CallsStay
<1>3. CASE Serves /\ Stays
  BY <1>1, <1>2, <1>3, ServesOwes DEF Inv
<1>4. ASSUME NEW p \in Pollers, NEW st \in PollState, NEW o \in Objects, NEW l \in Lane,
             Goes(p, st, o, l)
      PROVE  Inv'
  BY <1>1, <1>2, <1>4, GoesOwes DEF Inv
<1>5. QED
  BY <1>1, <1>2, <1>3, <1>4, StepShape, EntersGoes, WaitsGoes

\* What the session is charged for is what the lanes in the table and the live
\* streams hold, because nothing else holds anything.
LEMMA ExactOf ==
    ASSUME SessionInv
    PROVE  LaneChargeExact
<1> DEFINE known == Range(carrierLanes) \ {None}
           rest == Objects \ known
           over == StreamIDs \ LiveIDs
           costs == [o \in known |-> LaneCost(lanes[o])]
<1>1. SessionTypes /\ TableInv /\ ChargeInv
  BY DEF SessionInv
<1>2. known \subseteq Objects /\ LiveIDs \subseteq StreamIDs
  BY <1>1 DEF Range, SessionTypes, LiveIDs
<1>3. \A o \in rest : LaneCost(lanes[o]) = 0
  <2>1. ASSUME NEW o \in rest
        PROVE  LaneCost(lanes[o]) = 0
    <3>1. \A id \in LaneIDs : carrierLanes[id] # o
      BY <1>1, Limits DEF Range, SessionTypes
    <3>2. lanes[o].frames = << >> /\ lanes[o].unacked = << >> /\ lanes[o] \in Lane
      BY <1>1, <3>1 DEF TableInv, SessionTypes
    <3>3. QED
      BY <3>2, LaneCostOf
  <2>2. QED
    BY <2>1
<1>4. /\ \A id \in LiveIDs : Old(id) = writeCost[id]
      /\ \A id \in over : Old(id) = 0
  BY DEF Old, LiveIDs
<1>5. /\ Charged(Objects, LaneCosts) /\ Charged(StreamIDs, WriteCosts)
      /\ \A o \in Objects : LaneCosts[o] = LaneCost(lanes[o])
      /\ \A id \in StreamIDs : WriteCosts[id] = Old(id)
  BY <1>1, ChargesAre DEF SessionTypes
<1>6. \A o \in known : costs[o] = LaneCosts[o]
  BY <1>2, <1>5
<1>7. /\ \A o \in rest : LaneCosts[o] = 0
      /\ \A id \in over : WriteCosts[id] = 0
      /\ \A id \in LiveIDs : writeCost[id] = WriteCosts[id]
  BY <1>2, <1>3, <1>4, <1>5
<1>8. Objects = known \cup rest /\ known \cap rest = {}
      /\ StreamIDs = LiveIDs \cup over /\ LiveIDs \cap over = {}
  BY <1>2
<1>9. /\ IsFiniteSet(known) /\ IsFiniteSet(rest) /\ IsFiniteSet(LiveIDs) /\ IsFiniteSet(over)
  BY <1>2, <1>8, Limits, FS_Subset
<1>10. LaneChargeExact <=> /\ pendingCost = Total(known, costs) + Total(LiveIDs, writeCost)
                           /\ \A o \in rest : LaneCost(lanes[o]) = 0
  BY DEF LaneChargeExact
<1> HIDE DEF known, rest, over, costs
<1>11. Total(Objects, LaneCosts) = Total(known, costs)
  <2>1. Charged(known, LaneCosts) /\ Charged(rest, LaneCosts)
    BY <1>5, <1>8, <1>9 DEF Charged
  <2>2. Total(known \cup rest, LaneCosts) = Total(known, LaneCosts) + Total(rest, LaneCosts)
    BY <1>8, <2>1, TotalUnion
  <2>3. Total(rest, LaneCosts) = 0
    BY <1>7, TotalZero
  <2>4. Total(known, LaneCosts) = Total(known, costs)
    BY <1>6, TotalSame
  <2>5. Total(known, LaneCosts) \in Nat
    BY <2>1, TotalType
  <2>6. QED
    BY <1>8, <2>2, <2>3, <2>4, <2>5
<1>12. Total(StreamIDs, WriteCosts) = Total(LiveIDs, writeCost)
  <2>1. Charged(LiveIDs, WriteCosts) /\ Charged(over, WriteCosts)
    BY <1>5, <1>8, <1>9 DEF Charged
  <2>2. Total(LiveIDs \cup over, WriteCosts) = Total(LiveIDs, WriteCosts) + Total(over, WriteCosts)
    BY <1>8, <2>1, TotalUnion
  <2>3. Total(over, WriteCosts) = 0
    BY <1>7, TotalZero
  <2>4. Total(LiveIDs, WriteCosts) = Total(LiveIDs, writeCost)
    BY <1>7, TotalSame
  <2>5. Total(LiveIDs, WriteCosts) \in Nat
    BY <2>1, TotalType
  <2>6. QED
    BY <1>8, <2>2, <2>3, <2>4, <2>5
<1>13. QED
  BY <1>1, <1>3, <1>10, <1>11, <1>12 DEF ChargeInv

\* The news that a lane is closed is told only by a poll that finds it empty.
LEMMA LastStep ==
    ASSUME Inv, [Next]_vars, NEW p \in Pollers,
           polls[p].kind # "laneclosed", polls'[p].kind = "laneclosed",
           NEW o \in {carrierLanes[polls'[p].id]} \ {None}, polls[p].lane \in {None, o}
    PROVE  lanes'[o].frames = << >> /\ lanes'[o].unacked = << >>
<1>1. /\ SessionInv /\ CallTypes /\ WaitersInv /\ WakeUpOwed
      /\ SessionTypes /\ TableInv /\ LiveStreamHasLane /\ lanes \in [Objects -> Lane]
  BY DEF Inv, SessionInv, SessionTypes
<1>2. ASSUME NEW q \in Pollers, NEW st \in PollState, NEW k \in Objects, NEW l \in Lane,
             Goes(q, st, k, l)
      PROVE  lanes'[o].frames = << >> /\ lanes'[o].unacked = << >>
  <2>1. /\ Moves(q, st) /\ lanes' = [lanes EXCEPT ![k] = l] /\ Tells(q, st, k, l)
        /\ k # None
    BY <1>2, Limits DEF Goes
  <2>2. p = q /\ polls'[p] = st
    BY <2>1 DEF Moves
  <2>3. /\ polls[p].lane = k \/ carrierLanes[st.id] = k
        /\ l.frames = << >> /\ l.unacked = << >>
    BY <2>1, <2>2 DEF Tells
  <2>4. k = o
    BY <2>1, <2>2, <2>3
  <2>5. QED
    BY <1>1, <2>1, <2>3, <2>4
<1>3. CASE Serves /\ Stays
  BY <1>3 DEF Stays
<1>4. QED
  BY <1>1, <1>2, <1>3, StepShape, EntersGoes, WaitsGoes

--------------------------------------------------------------------------------
(* The theorems.                                                           *)

\* Inv is an invariant.
THEOREM Invariance == Spec => []Inv
<1>1. QED
  BY InitInv, NextInv, PTL DEF Spec

\* Every field keeps its type: in particular the charge of a session
\* (Session.pendingCost) never goes below zero, whatever is evicted, released,
\* rejected or closed.
THEOREM TypeCorrect == Spec => []TypeOK
<1>1. Inv => TypeOK
  BY DEF Inv, SessionInv, SessionTypes, CallTypes, TypeOK
<1>2. QED
  BY <1>1, Invariance, PTL

\* The charge is what the lanes of carrierLanes and the live streams hold, and
\* a lane that releaseLaneLocked has dropped holds nothing.
THEOREM ChargeIsExact == Spec => []LaneChargeExact
<1>1. Inv => LaneChargeExact
  BY ExactOf DEF Inv
<1>2. QED
  BY <1>1, Invariance, PTL

\* No eviction, release or rejection takes the lane of a live stream, so that
\* queueLaneFrameLocked finds one for the CLOSE of its backend.
THEOREM LiveStreamsKeepLanes == Spec => []LiveStreamHasLane
<1>1. Inv => LiveStreamHasLane
  BY DEF Inv, SessionInv
<1>2. QED
  BY <1>1, Invariance, PTL

\* While the current poll of a lane has a reason to return from PollLane, a
\* token is in lane.notify or in the hands of an older poll, which passes it on.
THEOREM NoWakeUpLost == Spec => []WakeUpOwed
<1>1. Inv => WakeUpOwed
  BY DEF Inv
<1>2. QED
  BY <1>1, Invariance, PTL

\* PollLane answers that the lane is closed only when nothing is left on it to
\* deliver or to acknowledge.
THEOREM LaneClosedIsLast == Spec => LaneClosedComesLast
<1> DEFINE Told == \A p \in Pollers :
             polls[p].kind # "laneclosed" /\ polls'[p].kind = "laneclosed" =>
               \A o \in {carrierLanes[polls'[p].id]} \ {None} :
                 polls[p].lane \in {None, o} =>
                   lanes'[o].frames = << >> /\ lanes'[o].unacked = << >>
<1>1. Inv /\ [Next]_vars => [Told]_vars
  BY LastStep
<1>2. QED
  BY <1>1, Invariance, PTL DEF Spec, LaneClosedComesLast
================================================================================
