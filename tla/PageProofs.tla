------------------------------- MODULE PageProofs -------------------------------
(***************************************************************************)
(* The bridge page, for any number of streams, messages, frames and        *)
(* limits, and for every carrier: what the page and its lanes are charged  *)
(* with is what they hold, what is sent is what the app handed over, in    *)
(* order and in bodies that fit, and every end of a stream is told once.   *)
(*                                                                         *)
(* The operators on the page come first: what they do to one lane and to   *)
(* the charge, then what they do to a page in order and to the frames its  *)
(* queues were given (Feeding).  The invariant IInv and one lemma for each *)
(* action are at the end.                                                  *)
(***************************************************************************)
EXTENDS Page, Counting

--------------------------------------------------------------------------------
(* Constants.                                                              *)

Message == Seq(Frames) \ {<<>>}

\* The limits are numbers, and there are finitely many queues.
LEMMA PageLimits ==
    /\ QueueLimit \in Nat /\ QueueItemLimit \in Nat
    /\ LaneQueueLimit \in Nat /\ LaneItemLimit \in Nat
    /\ BatchLimit \in Nat /\ MaxBodyFrames \in Nat /\ MaxMessages \in Nat
    /\ StreamIDs \subseteq Nat \ {0} /\ StreamIDs \subseteq Queues
    /\ 0 \in Queues /\ Queues \subseteq Nat /\ IsFiniteSet(Queues)
    /\ Messages \subseteq Message
    /\ \A f \in Frames : f.n \in Nat /\ f.id \in Queues
<1>1. IsFiniteSet({0}) /\ IsFiniteSet(StreamIDs)
  BY PageIDAssumption, FS_Singleton
<1>2. IsFiniteSet(Queues)
  BY <1>1, FS_Union DEF Queues
<1>3. QED
  BY <1>2, PageIDAssumption, PageLimitAssumption, PageMessageAssumption
  DEF Queues, Message, Frames

--------------------------------------------------------------------------------
(* Bytes of frames, messages and queues.                                   *)

\* The bytes of a message are a sum of numbers.
LEMMA SizeIs ==
    ASSUME NEW m \in Seq(Frames)
    PROVE  /\ Len(m) \in Nat /\ DOMAIN m = 1 .. Len(m)
           /\ [k \in DOMAIN m |-> m[k].n] \in Seq(Nat)
           /\ Len([k \in DOMAIN m |-> m[k].n]) = Len(m)
           /\ Size(m) = SumOf([k \in DOMAIN m |-> m[k].n])
           /\ Size(m) \in Nat
<1> DEFINE s == [k \in DOMAIN m |-> m[k].n]
<1>1. Len(m) \in Nat /\ DOMAIN m = 1 .. Len(m) /\ \A k \in 1 .. Len(m) : m[k] \in Frames
  BY LenProperties, ElementOfSeq
<1>2. \A k \in 1 .. Len(m) : m[k].n \in Nat
  BY <1>1, PageLimits
<1>3. s \in [1 .. Len(m) -> Nat]
  BY <1>1, <1>2
<1>4. s \in Seq(Nat) /\ Len(s) = Len(m)
  BY <1>1, <1>3, IsASeq, LenProperties
<1>5. Size(m) = SumOf(s)
  BY DEF Size
<1>6. QED
  BY <1>1, <1>4, <1>5, SumIs

\* The two parts of a sequence that is cut.
LEMMA CutIs ==
    ASSUME NEW S, NEW s \in Seq(S), NEW n \in 0 .. Len(s)
    PROVE  /\ Len(s) \in Nat /\ n \in Nat /\ n <= Len(s)
           /\ SubSeq(s, 1, n) \in Seq(S) /\ Len(SubSeq(s, 1, n)) = n
           /\ \A k \in 1 .. n : SubSeq(s, 1, n)[k] = s[k]
           /\ SubSeq(s, n + 1, Len(s)) \in Seq(S)
           /\ Len(SubSeq(s, n + 1, Len(s))) = Len(s) - n
           /\ \A k \in 1 .. Len(s) - n : SubSeq(s, n + 1, Len(s))[k] = s[n + k]
<1> DEFINE a == SubSeq(s, 1, n)
           b == SubSeq(s, n + 1, Len(s))
           m == Len(s) - n
<1>1. /\ Len(s) \in Nat /\ n \in Nat /\ n <= Len(s) /\ m \in Nat
      /\ \A i \in 1 .. Len(s) : s[i] \in S
  BY LenProperties, ElementOfSeq
<1>2. a \in Seq(S) /\ Len(a) = n /\ \A i \in 1 .. n : a[i] = s[i]
  BY <1>1, SubSeqProperties
<1>3. b \in Seq(S) /\ Len(b) = m /\ \A i \in 1 .. m : b[i] = s[n + i]
  BY <1>1, SubSeqProperties
<1>4. QED
  BY <1>1, <1>2, <1>3

\* A sum that is cut in two.
LEMMA SumOfParts ==
    ASSUME NEW s \in Seq(Nat), NEW n \in 0 .. Len(s), NEW u \in Seq(Nat), NEW w \in Seq(Nat),
           Len(u) = n, \A k \in 1 .. n : u[k] = s[k],
           Len(w) = Len(s) - n, \A k \in 1 .. Len(s) - n : w[k] = s[n + k]
    PROVE  SumOf(s) = SumOf(u) + SumOf(w)
<1>1. u = SubSeq(s, 1, n)
  <2>1. /\ SubSeq(s, 1, n) \in Seq(Nat) /\ Len(u) = Len(SubSeq(s, 1, n))
        /\ \A k \in 1 .. Len(u) : u[k] = SubSeq(s, 1, n)[k]
    BY CutIs
  <2>2. QED
    BY ONLY u \in Seq(Nat), <2>1, SeqEqual
<1>2. w = SubSeq(s, n + 1, Len(s))
  <2> DEFINE t == SubSeq(s, n + 1, Len(s))
  <2>0. /\ t \in Seq(Nat) /\ Len(t) = Len(s) - n
        /\ \A k \in 1 .. Len(s) - n : t[k] = s[n + k]
    BY CutIs
  <2> HIDE DEF t
  <2>1. /\ t \in Seq(Nat) /\ Len(w) = Len(t)
        /\ \A k \in 1 .. Len(w) : w[k] = t[k]
    BY <2>0
  <2>2. w = t
    BY ONLY w \in Seq(Nat), <2>1, SeqEqual
  <2>3. QED
    BY <2>2 DEF t
<1>3. QED
  BY <1>1, <1>2, SumCut

\* A message is cut in two.
LEMMA SizeCut ==
    ASSUME NEW m \in Seq(Frames), NEW n \in 1 .. Len(m)
    PROVE  /\ SubSeq(m, 1, n) \in Message /\ SubSeq(m, n + 1, Len(m)) \in Seq(Frames)
           /\ n < Len(m) => SubSeq(m, n + 1, Len(m)) \in Message
           /\ Size(m) = Size(SubSeq(m, 1, n)) + Size(SubSeq(m, n + 1, Len(m)))
           /\ Size(m) \in Nat /\ Size(SubSeq(m, 1, n)) \in Nat
           /\ Size(SubSeq(m, n + 1, Len(m))) \in Nat
<1> DEFINE a == SubSeq(m, 1, n)
           b == SubSeq(m, n + 1, Len(m))
           s == [k \in DOMAIN m |-> m[k].n]
           t == [k \in DOMAIN a |-> a[k].n]
           u == [k \in DOMAIN b |-> b[k].n]
<1>1. /\ Len(m) \in Nat /\ n \in 0 .. Len(m) /\ n \in 1 .. Len(m) /\ DOMAIN m = 1 .. Len(m)
      /\ s \in Seq(Nat) /\ Len(s) = Len(m) /\ Size(m) = SumOf(s) /\ Size(m) \in Nat
  BY SizeIs
<1>2. /\ a \in Seq(Frames) /\ Len(a) = n /\ \A k \in 1 .. n : a[k] = m[k]
      /\ b \in Seq(Frames) /\ Len(b) = Len(m) - n
      /\ \A k \in 1 .. Len(m) - n : b[k] = m[n + k]
  BY <1>1, CutIs
<1>3. /\ DOMAIN a = 1 .. n /\ t \in Seq(Nat) /\ Len(t) = n /\ Size(a) = SumOf(t)
      /\ Size(a) \in Nat
  BY <1>2, SizeIs
<1>4. /\ DOMAIN b = 1 .. Len(m) - n /\ u \in Seq(Nat) /\ Len(u) = Len(m) - n
      /\ Size(b) = SumOf(u) /\ Size(b) \in Nat
  BY <1>2, SizeIs
<1>5. \A k \in 1 .. n : t[k] = s[k]
  <2> SUFFICES ASSUME NEW k \in 1 .. n PROVE t[k] = s[k]
    OBVIOUS
  <2>1. k \in 1 .. Len(m)
    BY <1>1
  <2>2. QED
    BY <1>1, <1>2, <1>3, <2>1
<1>6. \A k \in 1 .. Len(m) - n : u[k] = s[n + k]
  <2> SUFFICES ASSUME NEW k \in 1 .. Len(m) - n PROVE u[k] = s[n + k]
    OBVIOUS
  <2>1. n + k \in 1 .. Len(m)
    BY <1>1
  <2>2. QED
    BY <1>1, <1>2, <1>4, <2>1
<1>7. a # <<>> /\ (n < Len(m) => b # <<>>)
  <2>1. Len(a) = n /\ Len(b) = Len(m) - n /\ n \in 1 .. Len(m) /\ Len(m) \in Nat
    BY <1>1, <1>2
  <2>2. Len(<<>>) = 0
    BY EmptySeq
  <2> HIDE DEF a, b
  <2>3. QED
    BY ONLY <2>1, <2>2
<1> HIDE DEF s, t, u
<1>8. SumOf(s) = SumOf(t) + SumOf(u)
  <2>1. /\ n \in 0 .. Len(s) /\ Len(u) = Len(s) - n
        /\ \A k \in 1 .. Len(s) - n : u[k] = s[n + k]
    BY <1>1, <1>4, <1>6
  <2>2. QED
    BY <1>1, <1>3, <1>4, <1>5, <2>1, SumOfParts
<1>9. QED
  BY <1>1, <1>2, <1>3, <1>4, <1>7, <1>8 DEF Message

\* The bytes of a queue are a sum of numbers.
LEMMA SizesIs ==
    ASSUME NEW v \in Seq(Message)
    PROVE  /\ Len(v) \in Nat /\ DOMAIN v = 1 .. Len(v)
           /\ \A k \in 1 .. Len(v) : v[k] \in Message /\ Size(v[k]) \in Nat
           /\ [k \in DOMAIN v |-> Size(v[k])] \in Seq(Nat)
           /\ Len([k \in DOMAIN v |-> Size(v[k])]) = Len(v)
           /\ Sizes(v) = SumOf([k \in DOMAIN v |-> Size(v[k])])
           /\ Sizes(v) \in Nat
<1> DEFINE s == [k \in DOMAIN v |-> Size(v[k])]
<1>1. Len(v) \in Nat /\ DOMAIN v = 1 .. Len(v) /\ \A k \in 1 .. Len(v) : v[k] \in Message
  BY LenProperties, ElementOfSeq
<1>2. \A k \in 1 .. Len(v) : Size(v[k]) \in Nat
  BY <1>1, SizeIs DEF Message
<1>3. s \in [1 .. Len(v) -> Nat]
  BY <1>1, <1>2
<1>4. s \in Seq(Nat) /\ Len(s) = Len(v)
  BY <1>1, <1>3, IsASeq, LenProperties
<1>5. Sizes(v) = SumOf(s)
  BY DEF Sizes
<1>6. QED
  BY <1>1, <1>2, <1>4, <1>5, SumIs

\* An empty queue holds nothing.
LEMMA SizesEmpty == Sizes(<<>>) = 0 /\ <<>> \in Seq(Message)
<1>1. [k \in DOMAIN <<>> |-> Size(<<>>[k])] = <<>>
  OBVIOUS
<1>2. QED
  BY <1>1, SumEmpty DEF Sizes

\* An item is queued behind the others.
LEMMA SizesAppended ==
    ASSUME NEW v \in Seq(Message), NEW m \in Message
    PROVE  /\ Append(v, m) \in Seq(Message) /\ Len(Append(v, m)) = Len(v) + 1
           /\ Sizes(Append(v, m)) = Sizes(v) + Size(m) /\ Size(m) \in Nat
<1> DEFINE w == Append(v, m)
           s == [k \in DOMAIN v |-> Size(v[k])]
           t == [k \in DOMAIN w |-> Size(w[k])]
<1>1. Len(v) \in Nat /\ DOMAIN v = 1 .. Len(v) /\ s \in Seq(Nat) /\ Len(s) = Len(v)
      /\ Sizes(v) = SumOf(s)
  BY SizesIs
<1>2. /\ w \in Seq(Message) /\ Len(w) = Len(v) + 1
      /\ \A k \in 1 .. Len(v) : w[k] = v[k]
      /\ w[Len(v) + 1] = m
  BY AppendProperties, <1>1
<1>3. Size(m) \in Nat
  BY SizeIs DEF Message
<1>4. DOMAIN w = 1 .. Len(v) + 1
  BY <1>2, LenProperties
<1>5. Append(s, Size(m)) \in Seq(Nat) /\ Len(Append(s, Size(m))) = Len(v) + 1
      /\ (\A k \in 1 .. Len(v) : Append(s, Size(m))[k] = s[k])
      /\ Append(s, Size(m))[Len(v) + 1] = Size(m)
  BY <1>1, <1>3, AppendProperties
<1>6. t \in Seq(Nat) /\ Len(t) = Len(v) + 1 /\ Sizes(w) = SumOf(t)
  BY <1>2, SizesIs
<1>7. \A k \in 1 .. Len(v) + 1 : t[k] = Append(s, Size(m))[k]
  <2> SUFFICES ASSUME NEW k \in 1 .. Len(v) + 1 PROVE t[k] = Append(s, Size(m))[k]
    OBVIOUS
  <2>1. CASE k = Len(v) + 1
    BY <1>2, <1>4, <1>5, <2>1
  <2>2. CASE k \in 1 .. Len(v)
    BY <1>1, <1>2, <1>4, <1>5, <2>2
  <2>3. QED
    BY <1>1, <2>1, <2>2
<1>8. t = Append(s, Size(m))
  BY <1>5, <1>6, <1>7, SeqEqual
<1>9. SumOf(Append(s, Size(m))) = SumOf(s) + Size(m)
  BY <1>1, <1>3, SumAppended
<1>10. QED
  BY <1>1, <1>2, <1>3, <1>6, <1>8, <1>9

\* A queue is cut in two.
LEMMA SizesCut ==
    ASSUME NEW v \in Seq(Message), NEW n \in 0 .. Len(v)
    PROVE  /\ SubSeq(v, 1, n) \in Seq(Message) /\ SubSeq(v, n + 1, Len(v)) \in Seq(Message)
           /\ Len(SubSeq(v, 1, n)) = n /\ Len(SubSeq(v, n + 1, Len(v))) = Len(v) - n
           /\ Sizes(v) = Sizes(SubSeq(v, 1, n)) + Sizes(SubSeq(v, n + 1, Len(v)))
           /\ Sizes(v) \in Nat /\ Sizes(SubSeq(v, 1, n)) \in Nat
           /\ Sizes(SubSeq(v, n + 1, Len(v))) \in Nat
<1> DEFINE a == SubSeq(v, 1, n)
           b == SubSeq(v, n + 1, Len(v))
           s == [k \in DOMAIN v |-> Size(v[k])]
           t == [k \in DOMAIN a |-> Size(a[k])]
           u == [k \in DOMAIN b |-> Size(b[k])]
<1>1. /\ Len(v) \in Nat /\ n \in 0 .. Len(v) /\ DOMAIN v = 1 .. Len(v)
      /\ s \in Seq(Nat) /\ Len(s) = Len(v) /\ Sizes(v) = SumOf(s) /\ Sizes(v) \in Nat
  BY SizesIs
<1>2. /\ a \in Seq(Message) /\ Len(a) = n /\ \A k \in 1 .. n : a[k] = v[k]
      /\ b \in Seq(Message) /\ Len(b) = Len(v) - n
      /\ \A k \in 1 .. Len(v) - n : b[k] = v[n + k]
  BY <1>1, CutIs
<1>3. /\ DOMAIN a = 1 .. n /\ t \in Seq(Nat) /\ Len(t) = n /\ Sizes(a) = SumOf(t)
      /\ Sizes(a) \in Nat
  BY <1>2, SizesIs
<1>4. /\ DOMAIN b = 1 .. Len(v) - n /\ u \in Seq(Nat) /\ Len(u) = Len(v) - n
      /\ Sizes(b) = SumOf(u) /\ Sizes(b) \in Nat
  BY <1>2, SizesIs
<1>5. \A k \in 1 .. n : t[k] = s[k]
  <2> SUFFICES ASSUME NEW k \in 1 .. n PROVE t[k] = s[k]
    OBVIOUS
  <2>1. k \in 1 .. Len(v)
    BY <1>1
  <2>2. QED
    BY <1>1, <1>2, <1>3, <2>1
<1>6. \A k \in 1 .. Len(v) - n : u[k] = s[n + k]
  <2> SUFFICES ASSUME NEW k \in 1 .. Len(v) - n PROVE u[k] = s[n + k]
    OBVIOUS
  <2>1. n + k \in 1 .. Len(v)
    BY <1>1
  <2>2. QED
    BY <1>1, <1>2, <1>4, <2>1
<1> HIDE DEF s, t, u
<1>7. SumOf(s) = SumOf(t) + SumOf(u)
  <2>1. /\ n \in 0 .. Len(s) /\ Len(u) = Len(s) - n
        /\ \A k \in 1 .. Len(s) - n : u[k] = s[n + k]
    BY <1>1, <1>4, <1>6
  <2>2. QED
    BY <1>1, <1>3, <1>4, <1>5, <2>1, SumOfParts
<1>8. QED
  BY <1>1, <1>2, <1>3, <1>4, <1>7

\* One item of a queue is replaced by another.
LEMMA SizesReplaced ==
    ASSUME NEW v \in Seq(Message), NEW i \in 1 .. Len(v), NEW m \in Message
    PROVE  /\ [v EXCEPT ![i] = m] \in Seq(Message) /\ Len([v EXCEPT ![i] = m]) = Len(v)
           /\ Sizes([v EXCEPT ![i] = m]) = Sizes(v) - Size(v[i]) + Size(m)
           /\ Size(v[i]) \in Nat /\ Size(m) \in Nat
<1> DEFINE w == [v EXCEPT ![i] = m]
           s == [k \in DOMAIN v |-> Size(v[k])]
           t == [k \in DOMAIN w |-> Size(w[k])]
<1>1. /\ Len(v) \in Nat /\ DOMAIN v = 1 .. Len(v)
      /\ s \in Seq(Nat) /\ Len(s) = Len(v) /\ Sizes(v) = SumOf(s) /\ Size(v[i]) \in Nat
  BY SizesIs
<1>2. /\ w \in Seq(Message) /\ Len(w) = Len(v)
      /\ \A k \in 1 .. Len(v) : w[k] = IF k = i THEN m ELSE v[k]
  BY ExceptSeq
<1>3. DOMAIN w = 1 .. Len(v) /\ t \in Seq(Nat) /\ Len(t) = Len(v) /\ Sizes(w) = SumOf(t)
  BY <1>2, SizesIs
<1>4. Size(m) \in Nat
  BY SizeIs DEF Message
<1>5. /\ [s EXCEPT ![i] = Size(m)] \in Seq(Nat) /\ s[i] \in Nat
      /\ SumOf([s EXCEPT ![i] = Size(m)]) = SumOf(s) - s[i] + Size(m)
  <2>1. i \in 1 .. Len(s)
    BY <1>1
  <2> HIDE DEF s
  <2>2. QED
    BY <1>1, <1>4, <2>1, SumReplaced
<1>6. t = [s EXCEPT ![i] = Size(m)]
  BY <1>1, <1>2, <1>3
<1>7. s[i] = Size(v[i])
  BY <1>1
<1>8. QED
  BY <1>1, <1>2, <1>3, <1>4, <1>5, <1>6, <1>7

--------------------------------------------------------------------------------
(* Induction over numbers and over sequences.                              *)

\* A set of numbers that holds 0, and the next of each.
LEMMA Numbers ==
    ASSUME NEW T, 0 \in T, \A n \in Nat : n \in T => n + 1 \in T
    PROVE  Nat \subseteq T
<1> DEFINE bad == Nat \ T
<1>1. ASSUME bad # {}
      PROVE  FALSE
  <2>1. PICK n \in bad : \A k \in bad : n <= k
    BY <1>1, LeastElement
  <2>2. n \in Nat /\ n # 0 /\ n - 1 \in Nat
    OBVIOUS
  <2>3. n - 1 \notin bad
    BY <2>1, <2>2
  <2>4. (n - 1) + 1 \in T
    BY <2>2, <2>3
  <2>5. QED
    BY <2>2, <2>4
<1>2. QED
  BY <1>1

\* A set of sequences that holds the empty one, and each with one more element.
LEMMA Sequences ==
    ASSUME NEW S, NEW T, <<>> \in T, \A s \in Seq(S), e \in S : s \in T => Append(s, e) \in T
    PROVE  Seq(S) \subseteq T
<1> DEFINE N == {n \in Nat : \A s \in Seq(S) : Len(s) = n => s \in T}
<1>1. 0 \in N
  BY EmptySeq
<1>2. ASSUME NEW n \in Nat, n \in N
      PROVE  n + 1 \in N
  <2> SUFFICES ASSUME NEW s \in Seq(S), Len(s) = n + 1 PROVE s \in T
    OBVIOUS
  <2>1. s # <<>>
    BY EmptySeq
  <2>2. PICK r \in Seq(S), e \in S : s = Append(r, e)
    BY <2>1, SequenceEmptyOrAppend
  <2>3. Len(r) = n
    BY <2>2, AppendProperties, LenProperties
  <2>4. r \in T
    BY <1>2, <2>3
  <2>5. QED
    BY <2>2, <2>4
<1> HIDE DEF N
<1>3. Nat \subseteq N
  BY <1>1, <1>2, Numbers
<1>4. QED
  BY <1>3, LenProperties DEF N

--------------------------------------------------------------------------------
(* Queues as one sequence of frames.                                       *)

\* Concatenation, with its name: a step about brackets needs nothing else of it.
Joined(a, b) == a \o b

\* Brackets do not matter.
LEMMA Associative ==
    ASSUME NEW S, NEW a \in Seq(S), NEW b \in Seq(S), NEW c \in Seq(S)
    PROVE  Joined(Joined(a, b), c) = Joined(a, Joined(b, c))
BY ConcatAssociative DEF Joined

\* The recursion of FlattenSeq has a solution.
LEMMA FlattenExists ==
    ASSUME NEW S, NEW v \in Seq(Seq(S)), NEW n \in 1 .. Len(v)
    PROVE  \E g : g = [i \in 1 .. n |-> IF i = 1 THEN v[i] ELSE g[i - 1] \o v[i]]
<1> DEFINE Rec(g, j) == g = [i \in 1 .. j |-> IF i = 1 THEN v[i] ELSE g[i - 1] \o v[i]]
           bad == {j \in 1 .. Len(v) : ~ \E g : Rec(g, j)}
<1>1. Len(v) \in Nat
  BY LenProperties
<1>2. bad = {}
  <2> SUFFICES ASSUME bad # {} PROVE FALSE
    OBVIOUS
  <2> HIDE DEF Rec
  <2>1. bad \subseteq Nat
    OBVIOUS
  <2>2. PICK j \in bad : \A k \in bad : j <= k
    BY <2>1, LeastElement
  <2>3. CASE j = 1
    <3>1. Rec([i \in 1 .. 1 |-> v[i]], 1)
      BY DEF Rec
    <3>2. QED
      BY <2>3, <3>1
  <2>4. CASE j # 1
    <3>1. j - 1 \in 1 .. Len(v) /\ j \in Nat /\ (j - 1) \notin bad
      <4>1. j \in 1 .. Len(v)
        OBVIOUS
      <4> HIDE DEF bad
      <4>2. j - 1 \in 1 .. Len(v) /\ j \in Nat
        BY <1>1, <2>4, <4>1
      <4>3. j - 1 \notin bad
        BY <2>2, <4>2
      <4>4. QED
        BY <4>2, <4>3
    <3>2. PICK g : Rec(g, j - 1)
      BY <3>1
    <3> DEFINE h == [i \in 1 .. j |-> IF i = j THEN g[j - 1] \o v[j] ELSE g[i]]
    <3>3. \A i \in 1 .. j - 1 : h[i] = g[i]
      BY <3>1
    <3>4. ASSUME NEW i \in 1 .. j
          PROVE  h[i] = IF i = 1 THEN v[i] ELSE h[i - 1] \o v[i]
      <4>1. CASE i = j
        <5>1. j - 1 \in 1 .. j - 1
          BY <3>1, <2>4
        <5>2. h[i - 1] = g[j - 1] /\ h[i] = g[j - 1] \o v[j]
          BY <3>3, <4>1, <5>1
        <5>3. QED
          BY <2>4, <4>1, <5>2
      <4>2. CASE i # j
        <5>1. i \in 1 .. j - 1 /\ (i # 1 => i - 1 \in 1 .. j - 1)
          BY <3>1, <4>2
        <5>2. g[i] = IF i = 1 THEN v[i] ELSE g[i - 1] \o v[i]
          BY <3>2, <5>1 DEF Rec
        <5>3. QED
          BY <3>3, <5>1, <5>2
      <4>3. QED
        BY <4>1, <4>2
    <3> HIDE DEF h
    <3>5. Rec(h, j)
      BY <3>4 DEF Rec, h
    <3>6. QED
      BY <2>2, <3>5
  <2>5. QED
    BY <2>3, <2>4
<1>3. QED
  BY <1>2 DEF Rec

\* What FlattenSeq computes.
LEMMA FlattenIs ==
    ASSUME NEW S, NEW v \in Seq(Seq(S)), v # <<>>
    PROVE  \E g : /\ g = [i \in 1 .. Len(v) |-> IF i = 1 THEN v[i] ELSE g[i - 1] \o v[i]]
                  /\ FlattenSeq(v) = g[Len(v)]
<1> DEFINE flatten[i \in 1 .. Len(v)] == IF i = 1 THEN v[i] ELSE flatten[i - 1] \o v[i]
<1>1. Len(v) \in Nat /\ Len(v) # 0
  BY EmptySeq
<1>2. \E g : g = [i \in 1 .. Len(v) |-> IF i = 1 THEN v[i] ELSE g[i - 1] \o v[i]]
  <2>1. Len(v) \in 1 .. Len(v)
    BY <1>1
  <2>2. QED
    BY <2>1, FlattenExists
<1>3. flatten = [i \in 1 .. Len(v) |-> IF i = 1 THEN v[i] ELSE flatten[i - 1] \o v[i]]
  BY <1>2
<1>4. FlattenSeq(v) = flatten[Len(v)]
  BY <1>1 DEF FlattenSeq
<1>5. QED
  BY <1>3, <1>4

\* Nothing, flattened.
LEMMA FlattenNothing == FlattenSeq(<<>>) = <<>>
BY DEF FlattenSeq

\* One sequence more at the end.
LEMMA FlattenAppended ==
    ASSUME NEW S, NEW v \in Seq(Seq(S)), NEW m \in Seq(S), FlattenSeq(v) \in Seq(S)
    PROVE  FlattenSeq(Append(v, m)) = FlattenSeq(v) \o m
<1> DEFINE w == Append(v, m)
           n == Len(v)
<1>1. /\ n \in Nat /\ w \in Seq(Seq(S)) /\ w # <<>> /\ Len(w) = n + 1
      /\ (\A i \in 1 .. n : w[i] = v[i]) /\ w[n + 1] = m
  BY AppendProperties, LenProperties
<1> HIDE DEF w
<1>2. PICK h : /\ h = [i \in 1 .. Len(w) |-> IF i = 1 THEN w[i] ELSE h[i - 1] \o w[i]]
               /\ FlattenSeq(w) = h[Len(w)]
  BY <1>1, FlattenIs
<1>3. CASE v = <<>>
  <2>1. n = 0
    BY <1>3, EmptySeq
  <2>2. FlattenSeq(w) = m
    BY <1>1, <1>2, <2>1
  <2>3. QED
    BY <1>3, <2>2, FlattenNothing, ConcatEmptySeq DEF w
<1>4. CASE v # <<>>
  <2>1. PICK g : /\ g = [i \in 1 .. n |-> IF i = 1 THEN v[i] ELSE g[i - 1] \o v[i]]
                 /\ FlattenSeq(v) = g[n]
    BY <1>4, FlattenIs
  <2>2. n \in Nat \ {0}
    BY <1>4, EmptySeq
  <2> DEFINE T == {i \in Nat : i + 1 \in 1 .. n => h[i + 1] = g[i + 1]}
  <2>3. 0 \in T
    BY <1>1, <1>2, <2>1, <2>2
  <2>4. ASSUME NEW i \in Nat, i \in T
        PROVE  i + 1 \in T
    <3> SUFFICES ASSUME (i + 1) + 1 \in 1 .. n PROVE h[(i + 1) + 1] = g[(i + 1) + 1]
      OBVIOUS
    <3> DEFINE j == i + 1
               k == j + 1
    <3>1. j \in 1 .. n /\ k \in 1 .. n /\ k # 1 /\ k - 1 = j /\ k \in 1 .. Len(w)
      BY <1>1
    <3>2. h[j] = g[j]
      BY <2>4, <3>1
    <3> HIDE DEF k, j
    <3>3. h[k] = h[j] \o w[k] /\ g[k] = g[j] \o v[k]
      BY <1>2, <2>1, <3>1
    <3>4. w[k] = v[k]
      BY <1>1, <3>1
    <3>5. h[k] = g[k]
      BY <3>2, <3>3, <3>4
    <3>6. QED
      BY <3>5 DEF j, k
  <2> HIDE DEF T
  <2>5. Nat \subseteq T
    BY <2>3, <2>4, Numbers
  <2>6. h[n] = g[n]
    <3>1. n - 1 \in T /\ (n - 1) + 1 = n
      BY <2>2, <2>5
    <3>2. QED
      BY <2>2, <3>1 DEF T
  <2>7. h[n + 1] = h[n] \o w[n + 1]
    <3>1. n + 1 \in 1 .. Len(w) /\ n + 1 # 1 /\ (n + 1) - 1 = n
      BY <1>1, <2>2
    <3>2. QED
      BY <1>2, <3>1
  <2>8. QED
    BY <1>1, <1>2, <2>1, <2>6, <2>7 DEF w
<1>5. QED
  BY <1>3, <1>4

\* What is flattened is a sequence of the same things.
LEMMA FlattenType ==
    ASSUME NEW S, NEW v \in Seq(Seq(S))
    PROVE  FlattenSeq(v) \in Seq(S)
<1> DEFINE T == {w \in Seq(Seq(S)) : FlattenSeq(w) \in Seq(S)}
<1>1. <<>> \in T
  BY FlattenNothing, EmptySeq
<1>2. ASSUME NEW w \in Seq(Seq(S)), NEW m \in Seq(S), w \in T
      PROVE  Append(w, m) \in T
  BY <1>2, FlattenAppended, ConcatProperties, AppendProperties
<1> HIDE DEF T
<1>3. Seq(Seq(S)) \subseteq T
  BY <1>1, <1>2, Sequences
<1>4. QED
  BY <1>3 DEF T

\* One after the other, flattened.
LEMMA FlattenJoined ==
    ASSUME NEW S, NEW v \in Seq(Seq(S)), NEW w \in Seq(Seq(S))
    PROVE  /\ FlattenSeq(v \o w) = FlattenSeq(v) \o FlattenSeq(w)
           /\ v \o w \in Seq(Seq(S))
<1> DEFINE T == {x \in Seq(Seq(S)) : FlattenSeq(v \o x) = FlattenSeq(v) \o FlattenSeq(x)}
<1>1. <<>> \in T
  BY FlattenNothing, FlattenType, ConcatEmptySeq, EmptySeq
<1>2. ASSUME NEW x \in Seq(Seq(S)), NEW m \in Seq(S), x \in T
      PROVE  Append(x, m) \in T
  <2>1. v \o x \in Seq(Seq(S)) /\ Append(x, m) \in Seq(Seq(S))
    BY ConcatProperties, AppendProperties
  <2>2. v \o Append(x, m) = Append(v \o x, m)
    <3>1. Append(x, m) = x \o <<m>> /\ Append(v \o x, m) = (v \o x) \o <<m>>
      BY <2>1, AppendIsConcat
    <3>2. <<m>> \in Seq(Seq(S))
      OBVIOUS
    <3>3. (v \o x) \o <<m>> = v \o (x \o <<m>>)
      <4> DEFINE y == <<m>>
                 Q == Seq(S)
      <4>1. v \in Seq(Q) /\ x \in Seq(Q) /\ y \in Seq(Q)
        BY <3>2
      <4> HIDE DEF y, Q
      <4>2. Joined(Joined(v, x), y) = Joined(v, Joined(x, y))
        BY <4>1, Associative
      <4>3. QED
        BY <4>2 DEF Joined, y
    <3>4. QED
      BY <3>1, <3>3
  <2>3. FlattenSeq(Append(v \o x, m)) = FlattenSeq(v \o x) \o m
    BY <2>1, FlattenAppended, FlattenType
  <2>4. FlattenSeq(Append(x, m)) = FlattenSeq(x) \o m
    BY FlattenAppended, FlattenType
  <2>5. (FlattenSeq(v) \o FlattenSeq(x)) \o m = FlattenSeq(v) \o (FlattenSeq(x) \o m)
    <3>1. FlattenSeq(v) \in Seq(S) /\ FlattenSeq(x) \in Seq(S)
      BY FlattenType
    <3> DEFINE a == FlattenSeq(v)
               b == FlattenSeq(x)
    <3> HIDE DEF a, b
    <3>2. Joined(Joined(a, b), m) = Joined(a, Joined(b, m))
      BY <3>1, Associative DEF a, b
    <3>3. QED
      BY <3>2 DEF Joined, a, b
  <2>6. QED
    BY <1>2, <2>1, <2>2, <2>3, <2>4, <2>5
<1> HIDE DEF T
<1>3. Seq(Seq(S)) \subseteq T
  BY <1>1, <1>2, Sequences
<1>4. QED
  BY <1>3, ConcatProperties DEF T

\* One sequence, flattened.
LEMMA FlattenOne ==
    ASSUME NEW S, NEW m \in Seq(S)
    PROVE  FlattenSeq(<<m>>) = m /\ <<m>> \in Seq(Seq(S))
<1>1. <<>> \in Seq(Seq(S)) /\ FlattenSeq(<<>>) = <<>> /\ <<>> \in Seq(S)
  BY FlattenNothing, EmptySeq
<1>2. Append(<<>>, m) = <<m>>
  OBVIOUS
<1>3. FlattenSeq(<<m>>) = <<>> \o m
  BY <1>1, <1>2, FlattenAppended
<1>4. QED
  BY <1>3, ConcatEmptySeq

\* A queue is cut in two.
LEMMA FlattenCut ==
    ASSUME NEW S, NEW v \in Seq(Seq(S)), NEW n \in 0 .. Len(v)
    PROVE  /\ FlattenSeq(SubSeq(v, 1, n)) \in Seq(S)
           /\ FlattenSeq(SubSeq(v, n + 1, Len(v))) \in Seq(S)
           /\ FlattenSeq(v) = FlattenSeq(SubSeq(v, 1, n)) \o FlattenSeq(SubSeq(v, n + 1, Len(v)))
<1> DEFINE a == SubSeq(v, 1, n)
           b == SubSeq(v, n + 1, Len(v))
<1>1. Len(v) \in Nat /\ a \in Seq(Seq(S)) /\ b \in Seq(Seq(S))
  BY CutIs
<1>2. SubSeq(v, 1, n) \o SubSeq(v, n + 1, Len(v)) = SubSeq(v, 1, Len(v))
  <2>1. 1 \in 1 .. Len(v) + 1 /\ n \in 1 - 1 .. Len(v) /\ Len(v) \in n .. Len(v)
    BY <1>1
  <2>2. QED
    BY <2>1, ConcatAdjacentSubSeq
<1>3. a \o b = v
  BY <1>2, SubSeqFull
<1> HIDE DEF a, b
<1>4. FlattenSeq(a \o b) = FlattenSeq(a) \o FlattenSeq(b)
  BY <1>1, FlattenJoined
<1>5. QED
  BY <1>1, <1>3, <1>4, FlattenType DEF a, b

\* The first item of a queue is split.
LEMMA FlattenSplit ==
    ASSUME NEW S, NEW v \in Seq(Seq(S)), v # <<>>, NEW n \in 0 .. Len(v[1])
    PROVE  FlattenSeq(v) = SubSeq(v[1], 1, n)
                             \o FlattenSeq([v EXCEPT ![1] = SubSeq(v[1], n + 1, Len(v[1]))])
<1> DEFINE head == SubSeq(v[1], 1, n)
           rest == SubSeq(v[1], n + 1, Len(v[1]))
           w == [v EXCEPT ![1] = rest]
           t == Tail(v)
<1>1. Len(v) \in Nat \ {0} /\ v[1] \in Seq(S) /\ 1 \in 1 .. Len(v) /\ t \in Seq(Seq(S))
      /\ Len(t) = Len(v) - 1 /\ \A i \in 1 .. Len(v) - 1 : t[i] = v[i + 1]
  <2>1. Len(v) \in Nat \ {0}
    BY EmptySeq
  <2>2. 1 \in 1 .. Len(v)
    BY <2>1
  <2>3. QED
    BY <2>1, <2>2, ElementOfSeq, HeadTailProperties
<1>2. head \in Seq(S) /\ rest \in Seq(S)
  BY <1>1, CutIs
<1>3. head \o rest = v[1]
  <2>1. Len(v[1]) \in Nat /\ 1 \in 1 .. Len(v[1]) + 1 /\ n \in 1 - 1 .. Len(v[1])
        /\ Len(v[1]) \in n .. Len(v[1])
    BY <1>1, LenProperties
  <2>2. head \o rest = SubSeq(v[1], 1, Len(v[1]))
    BY <1>1, <2>1, ConcatAdjacentSubSeq
  <2>3. QED
    BY <1>1, <2>2, SubSeqFull
<1> HIDE DEF head, rest, t
<1>4. /\ w \in Seq(Seq(S)) /\ Len(w) = Len(v) /\ w[1] = rest
      /\ \A i \in 2 .. Len(v) : w[i] = v[i]
  BY <1>1, <1>2, ExceptSeq
<1> HIDE DEF w
<1>5. ASSUME NEW m \in Seq(S), NEW x \in Seq(Seq(S)), Len(x) = Len(v), x[1] = m,
             \A i \in 2 .. Len(v) : x[i] = v[i]
      PROVE  FlattenSeq(x) = m \o FlattenSeq(t)
  <2>1. <<m>> \in Seq(Seq(S)) /\ Len(<<m>>) = 1 /\ <<m>>[1] = m
    OBVIOUS
  <2>2. /\ <<m>> \o t \in Seq(Seq(S)) /\ Len(<<m>> \o t) = Len(v)
        /\ \A i \in 1 .. Len(v) : (<<m>> \o t)[i] = IF i <= 1 THEN m ELSE t[i - 1]
    BY <1>1, <2>1, ConcatProperties
  <2>3. \A i \in 1 .. Len(v) : (<<m>> \o t)[i] = x[i]
    <3> SUFFICES ASSUME NEW i \in 1 .. Len(v) PROVE (<<m>> \o t)[i] = x[i]
      OBVIOUS
    <3>1. CASE i = 1
      BY <1>5, <2>2, <3>1
    <3>2. CASE i # 1
      <4>1. i \in 2 .. Len(v) /\ i - 1 \in 1 .. Len(v) - 1 /\ ~(i <= 1) /\ (i - 1) + 1 = i
        BY <1>1, <3>2
      <4>2. t[i - 1] = v[(i - 1) + 1]
        BY <1>1, <4>1
      <4>3. QED
        BY <1>5, <2>2, <4>1, <4>2
    <3>3. QED
      BY <3>1, <3>2
  <2>4. x = <<m>> \o t
    <3> DEFINE y == <<m>> \o t
    <3>1. y \in Seq(Seq(S)) /\ Len(x) = Len(y) /\ \A i \in 1 .. Len(x) : x[i] = y[i]
      BY <1>5, <2>2, <2>3
    <3> HIDE DEF y
    <3>2. x = y
      BY <3>1, SeqEqual
    <3>3. QED
      BY <3>2 DEF y
  <2>5. FlattenSeq(<<m>> \o t) = FlattenSeq(<<m>>) \o FlattenSeq(t)
    BY <1>1, <2>1, FlattenJoined
  <2>6. QED
    BY <2>4, <2>5, FlattenOne
<1>6. FlattenSeq(v) = v[1] \o FlattenSeq(t)
  BY <1>1, <1>5
<1>7. FlattenSeq(w) = rest \o FlattenSeq(t)
  BY <1>2, <1>4, <1>5
<1>8. FlattenSeq(t) \in Seq(S)
  BY <1>1, FlattenType
<1>9. (head \o rest) \o FlattenSeq(t) = head \o (rest \o FlattenSeq(t))
  <2> DEFINE a == FlattenSeq(t)
  <2>1. a \in Seq(S) /\ head \in Seq(S) /\ rest \in Seq(S)
    BY <1>2, <1>8
  <2> HIDE DEF a, head, rest
  <2>2. Joined(Joined(head, rest), a) = Joined(head, Joined(rest, a))
    BY <2>1, Associative
  <2>3. QED
    BY <2>2 DEF Joined, a
<1>10. FlattenSeq(v) = head \o FlattenSeq(w)
  BY <1>3, <1>6, <1>7, <1>9
<1>11. QED
  BY <1>10 DEF head, rest, w

\* The bytes of two sequences of frames, one after the other.
LEMMA SizeJoined ==
    ASSUME NEW a \in Seq(Frames), NEW b \in Seq(Frames)
    PROVE  a \o b \in Seq(Frames) /\ Size(a \o b) = Size(a) + Size(b)
<1> DEFINE c == a \o b
           s == [k \in DOMAIN c |-> c[k].n]
           t == [k \in DOMAIN a |-> a[k].n]
           u == [k \in DOMAIN b |-> b[k].n]
<1>1. /\ c \in Seq(Frames) /\ Len(c) = Len(a) + Len(b)
      /\ \A i \in 1 .. Len(a) + Len(b) : c[i] = IF i <= Len(a) THEN a[i] ELSE b[i - Len(a)]
  BY ConcatProperties
<1> HIDE DEF c
<1>2. /\ DOMAIN c = 1 .. Len(c) /\ s \in Seq(Nat) /\ Len(s) = Len(c) /\ Size(c) = SumOf(s)
      /\ DOMAIN a = 1 .. Len(a) /\ t \in Seq(Nat) /\ Len(t) = Len(a) /\ Size(a) = SumOf(t)
      /\ DOMAIN b = 1 .. Len(b) /\ u \in Seq(Nat) /\ Len(u) = Len(b) /\ Size(b) = SumOf(u)
      /\ Len(a) \in Nat /\ Len(b) \in Nat
  BY <1>1, SizeIs
<1>3. \A k \in 1 .. Len(a) : t[k] = s[k]
  <2> SUFFICES ASSUME NEW k \in 1 .. Len(a) PROVE t[k] = s[k]
    OBVIOUS
  <2>1. k \in 1 .. Len(c) /\ k \in 1 .. Len(a) + Len(b) /\ k <= Len(a)
    BY <1>1, <1>2
  <2>2. QED
    BY <1>1, <1>2, <2>1
<1>4. \A k \in 1 .. Len(b) : u[k] = s[Len(a) + k]
  <2> SUFFICES ASSUME NEW k \in 1 .. Len(b) PROVE u[k] = s[Len(a) + k]
    OBVIOUS
  <2> DEFINE i == Len(a) + k
  <2>1. i \in 1 .. Len(c) /\ i \in 1 .. Len(a) + Len(b) /\ ~(i <= Len(a)) /\ i - Len(a) = k
    BY <1>1, <1>2
  <2> HIDE DEF i
  <2>2. c[i] = b[k]
    BY <1>1, <2>1
  <2>3. s[i] = u[k]
    BY <1>2, <2>1, <2>2
  <2>4. QED
    BY <2>3 DEF i
<1> HIDE DEF s, t, u
<1>5. /\ Len(a) \in 0 .. Len(s) /\ Len(u) = Len(s) - Len(a)
      /\ \A k \in 1 .. Len(s) - Len(a) : u[k] = s[Len(a) + k]
  BY <1>1, <1>2, <1>4
<1>6. SumOf(s) = SumOf(t) + SumOf(u)
  BY <1>2, <1>3, <1>5, SumOfParts
<1>7. QED
  BY <1>1, <1>2, <1>6 DEF c

\* The frames of a queue are counted.
LEMMA CountIs ==
    ASSUME NEW v \in Seq(Message)
    PROVE  /\ [k \in DOMAIN v |-> Len(v[k])] \in Seq(Nat)
           /\ Len([k \in DOMAIN v |-> Len(v[k])]) = Len(v)
           /\ Count(v) = SumOf([k \in DOMAIN v |-> Len(v[k])])
<1> DEFINE s == [k \in DOMAIN v |-> Len(v[k])]
<1>1. Len(v) \in Nat /\ DOMAIN v = 1 .. Len(v) /\ \A k \in 1 .. Len(v) : v[k] \in Message
  BY SizesIs
<1>2. \A k \in 1 .. Len(v) : Len(v[k]) \in Nat
  BY <1>1, LenProperties DEF Message
<1>3. s \in [1 .. Len(v) -> Nat]
  BY <1>1, <1>2
<1>4. s \in Seq(Nat) /\ Len(s) = Len(v)
  BY <1>1, <1>3, IsASeq, LenProperties
<1>5. QED
  BY <1>4 DEF Count

\* One item more.
LEMMA CountAppended ==
    ASSUME NEW v \in Seq(Message), NEW m \in Message
    PROVE  Count(Append(v, m)) = Count(v) + Len(m)
<1> DEFINE w == Append(v, m)
           s == [k \in DOMAIN v |-> Len(v[k])]
           t == [k \in DOMAIN w |-> Len(w[k])]
<1>1. /\ Len(v) \in Nat /\ DOMAIN v = 1 .. Len(v) /\ s \in Seq(Nat) /\ Len(s) = Len(v)
      /\ Count(v) = SumOf(s)
  BY SizesIs, CountIs
<1>2. /\ w \in Seq(Message) /\ Len(w) = Len(v) + 1
      /\ \A k \in 1 .. Len(v) : w[k] = v[k]
      /\ w[Len(v) + 1] = m
  BY AppendProperties, <1>1
<1>3. Len(m) \in Nat
  BY LenProperties DEF Message
<1>4. DOMAIN w = 1 .. Len(v) + 1
  BY <1>2, LenProperties
<1>5. Append(s, Len(m)) \in Seq(Nat) /\ Len(Append(s, Len(m))) = Len(v) + 1
      /\ (\A k \in 1 .. Len(v) : Append(s, Len(m))[k] = s[k])
      /\ Append(s, Len(m))[Len(v) + 1] = Len(m)
  BY <1>1, <1>3, AppendProperties
<1>6. t \in Seq(Nat) /\ Len(t) = Len(v) + 1 /\ Count(w) = SumOf(t)
  BY <1>2, CountIs
<1>7. \A k \in 1 .. Len(v) + 1 : t[k] = Append(s, Len(m))[k]
  <2> SUFFICES ASSUME NEW k \in 1 .. Len(v) + 1 PROVE t[k] = Append(s, Len(m))[k]
    OBVIOUS
  <2>1. CASE k = Len(v) + 1
    BY <1>2, <1>4, <1>5, <2>1
  <2>2. CASE k \in 1 .. Len(v)
    BY <1>1, <1>2, <1>4, <1>5, <2>2
  <2>3. QED
    BY <1>1, <2>1, <2>2
<1>8. t = Append(s, Len(m))
  BY <1>5, <1>6, <1>7, SeqEqual
<1>9. SumOf(Append(s, Len(m))) = SumOf(s) + Len(m)
  BY <1>1, <1>3, SumAppended
<1>10. QED
  BY <1>1, <1>3, <1>6, <1>8, <1>9

\* A queue has the frames and the bytes of its items.
LEMMA FlattenSizes ==
    ASSUME NEW v \in Seq(Message)
    PROVE  /\ FlattenSeq(v) \in Seq(Frames) /\ v \in Seq(Seq(Frames))
           /\ Len(FlattenSeq(v)) = Count(v) /\ Size(FlattenSeq(v)) = Sizes(v)
<1> DEFINE T == {w \in Seq(Message) : /\ Len(FlattenSeq(w)) = Count(w)
                                      /\ Size(FlattenSeq(w)) = Sizes(w)}
<1>1. <<>> \in T
  <2>1. FlattenSeq(<<>>) = <<>> /\ Len(<<>>) = 0
    BY FlattenNothing
  <2>2. Size(<<>>) = 0
    <3>1. [k \in DOMAIN <<>> |-> <<>>[k].n] = <<>>
      OBVIOUS
    <3>2. QED
      BY <3>1, SumEmpty DEF Size
  <2>3. Count(<<>>) = 0
    <3>1. [k \in DOMAIN <<>> |-> Len(<<>>[k])] = <<>>
      OBVIOUS
    <3>2. QED
      BY <3>1, SumEmpty DEF Count
  <2>4. QED
    BY <2>1, <2>2, <2>3, SizesEmpty
<1>2. \A w \in Seq(Message) : w \in Seq(Seq(Frames))
  BY SeqMonotonic DEF Message
<1>3. ASSUME NEW w \in Seq(Message), NEW m \in Message, w \in T
      PROVE  Append(w, m) \in T
  <2>1. w \in Seq(Seq(Frames)) /\ m \in Seq(Frames) /\ FlattenSeq(w) \in Seq(Frames)
    BY <1>2, FlattenType DEF Message
  <2>2. FlattenSeq(Append(w, m)) = FlattenSeq(w) \o m
    BY <2>1, FlattenAppended
  <2>3. /\ Len(FlattenSeq(w) \o m) = Len(FlattenSeq(w)) + Len(m)
        /\ Size(FlattenSeq(w) \o m) = Size(FlattenSeq(w)) + Size(m)
    BY <2>1, ConcatProperties, SizeJoined
  <2>4. Append(w, m) \in Seq(Message) /\ Sizes(Append(w, m)) = Sizes(w) + Size(m)
        /\ Count(Append(w, m)) = Count(w) + Len(m)
    BY SizesAppended, CountAppended
  <2>5. QED
    BY <1>3, <2>2, <2>3, <2>4
<1> HIDE DEF T
<1>4. Seq(Message) \subseteq T
  BY <1>1, <1>3, Sequences
<1>5. QED
  BY <1>2, <1>4, FlattenType DEF T

--------------------------------------------------------------------------------
(* The frames of one stream.                                               *)

\* The recursion of OfStream has a solution.
LEMMA OfStreamExists ==
    ASSUME NEW m \in Seq(Frames), NEW id \in Queues, NEW len \in Nat
    PROVE  \E g : g = [k \in 0 .. len |-> IF k = 0 THEN <<>> ELSE WithFrame(g[k - 1], m[k], id)]
<1> DEFINE Rec(g, n) == g = [k \in 0 .. n |-> IF k = 0 THEN <<>> ELSE WithFrame(g[k - 1], m[k], id)]
           T == {n \in Nat : \E g : Rec(g, n)}
<1>1. 0 \in T
  <2>1. Rec([k \in 0 .. 0 |-> <<>>], 0)
    OBVIOUS
  <2>2. QED
    BY <2>1
<1>2. ASSUME NEW n \in Nat, n \in T
      PROVE  n + 1 \in T
  <2>1. PICK g : Rec(g, n)
    BY <1>2
  <2> DEFINE j == n + 1
             h == [k \in 0 .. j |->
                     IF k = j THEN WithFrame(g[n], m[j], id)
                     ELSE g[k]]
  <2>2. j \in Nat /\ j # 0 /\ j - 1 = n /\ n # j /\ n \in 0 .. j
    OBVIOUS
  <2>3. ASSUME NEW k \in 0 .. j
        PROVE  h[k] = IF k = 0 THEN <<>> ELSE WithFrame(h[k - 1], m[k], id)
    <3>1. CASE k = j
      <4>1. h[n] = g[n]
        BY <2>2
      <4> HIDE DEF j
      <4>2. h[k] = WithFrame(g[n], m[j], id)
        BY <3>1, <2>2
      <4> HIDE DEF h
      <4>3. QED
        BY <2>2, <3>1, <4>1, <4>2
    <3>2. CASE k # j
      <4>1. k \in 0 .. n /\ (k # 0 => k - 1 \in 0 .. n /\ k - 1 # j /\ k - 1 \in 0 .. j)
        BY <3>2
      <4> HIDE DEF j
      <4>2. h[k] = g[k] /\ (k # 0 => h[k - 1] = g[k - 1])
        BY <3>2, <4>1
      <4> HIDE DEF h
      <4>3. QED
        BY <2>1, <4>1, <4>2
    <3>3. QED
      BY <3>1, <3>2
  <2> HIDE DEF j
  <2>4. h = [k \in 0 .. j |-> h[k]]
    OBVIOUS
  <2> HIDE DEF h
  <2>5. Rec(h, j)
    BY <2>3, <2>4
  <2>6. QED
    BY <2>2, <2>5 DEF j
<1> HIDE DEF T
<1>3. Nat \subseteq T
  BY <1>1, <1>2, Numbers
<1>4. QED
  BY <1>3 DEF T

\* What OfStream computes.
LEMMA OfStreamIs ==
    ASSUME NEW m \in Seq(Frames), NEW id \in Queues
    PROVE  \E g : /\ g = [k \in 0 .. Len(m) |->
                            IF k = 0 THEN <<>> ELSE WithFrame(g[k - 1], m[k], id)]
                  /\ OfStream(m, id) = g[Len(m)]
<1> DEFINE Rec(g, len) == g = [k \in 0 .. len |->
                                 IF k = 0 THEN <<>> ELSE WithFrame(g[k - 1], m[k], id)]
<1>1. Len(m) \in Nat
  BY LenProperties
<1>2. \A len \in Nat : \E g : Rec(g, len)
  BY OfStreamExists
<1>3. \E g : Rec(g, Len(m))
  <2> HIDE DEF Rec
  <2>1. QED
    BY <1>1, <1>2
<1> DEFINE of[k \in 0 .. Len(m)] == IF k = 0 THEN <<>> ELSE WithFrame(of[k - 1], m[k], id)
<1>4. of = [k \in 0 .. Len(m) |-> IF k = 0 THEN <<>> ELSE WithFrame(of[k - 1], m[k], id)]
  BY <1>3
<1>5. OfStream(m, id) = of[Len(m)]
  BY DEF OfStream
<1>6. QED
  BY <1>4, <1>5

\* Nothing has no frames of a stream.
LEMMA OfStreamNothing == ASSUME NEW id \in Queues PROVE OfStream(<<>>, id) = <<>>
<1> DEFINE e == <<>>
<1>1. e \in Seq(Frames) /\ Len(e) = 0
  OBVIOUS
<1> HIDE DEF e
<1>2. PICK g : /\ g = [k \in 0 .. Len(e) |->
                         IF k = 0 THEN <<>>
                         ELSE WithFrame(g[k - 1], e[k], id)]
               /\ OfStream(e, id) = g[Len(e)]
  BY <1>1, OfStreamIs
<1>3. g[0] = <<>>
  BY <1>1, <1>2
<1>4. QED
  BY <1>1, <1>2, <1>3 DEF e

\* One frame more.
LEMMA OfStreamAppended ==
    ASSUME NEW m \in Seq(Frames), NEW f \in Frames, NEW id \in Queues
    PROVE  OfStream(Append(m, f), id)
             = IF f.id = id THEN Append(OfStream(m, id), f) ELSE OfStream(m, id)
<1> DEFINE w == Append(m, f)
           n == Len(m)
<1>1. /\ n \in Nat /\ w \in Seq(Frames) /\ Len(w) = n + 1
      /\ (\A i \in 1 .. n : w[i] = m[i]) /\ w[n + 1] = f
  BY AppendProperties, LenProperties
<1> HIDE DEF w
<1>2. PICK h : /\ h = [k \in 0 .. Len(w) |->
                         IF k = 0 THEN <<>>
                         ELSE WithFrame(h[k - 1], w[k], id)]
               /\ OfStream(w, id) = h[Len(w)]
  BY <1>1, OfStreamIs
<1>3. PICK g : /\ g = [k \in 0 .. n |->
                         IF k = 0 THEN <<>>
                         ELSE WithFrame(g[k - 1], m[k], id)]
               /\ OfStream(m, id) = g[n]
  BY OfStreamIs
<1> DEFINE T == {k \in Nat : k \in 0 .. n => h[k] = g[k]}
<1>4. 0 \in T
  BY <1>1, <1>2, <1>3
<1>5. ASSUME NEW k \in Nat, k \in T
      PROVE  k + 1 \in T
  <2> SUFFICES ASSUME k + 1 \in 0 .. n PROVE h[k + 1] = g[k + 1]
    OBVIOUS
  <2> DEFINE j == k + 1
  <2>1. /\ j \in 0 .. n /\ j # 0 /\ j - 1 = k /\ j \in 0 .. Len(w) /\ k \in 0 .. n
        /\ j \in 1 .. n
    BY <1>1
  <2>2. h[k] = g[k]
    BY <1>5, <2>1
  <2> HIDE DEF j
  <2>3. h[j] = WithFrame(h[k], w[j], id)
    BY <1>2, <2>1
  <2>4. g[j] = WithFrame(g[k], m[j], id)
    BY <1>3, <2>1
  <2>5. w[j] = m[j]
    BY <1>1, <2>1
  <2>6. QED
    BY <2>2, <2>3, <2>4, <2>5 DEF j
<1> HIDE DEF T
<1>6. Nat \subseteq T
  BY <1>4, <1>5, Numbers
<1>7. h[n] = g[n]
  BY <1>1, <1>6 DEF T
<1> DEFINE l == n + 1
<1>8. l \in 0 .. Len(w) /\ l # 0 /\ l - 1 = n /\ w[l] = f /\ l = Len(w)
  BY <1>1
<1> HIDE DEF l
<1>9. h[l] = WithFrame(h[n], w[l], id)
  BY <1>2, <1>8
<1>10. QED
  BY <1>2, <1>3, <1>7, <1>8, <1>9 DEF w, WithFrame

\* The frames of a stream are frames.
LEMMA OfStreamType ==
    ASSUME NEW m \in Seq(Frames), NEW id \in Queues
    PROVE  OfStream(m, id) \in Seq(Frames)
<1> DEFINE T == {w \in Seq(Frames) : OfStream(w, id) \in Seq(Frames)}
<1>1. <<>> \in T
  BY OfStreamNothing, EmptySeq
<1>2. ASSUME NEW w \in Seq(Frames), NEW f \in Frames, w \in T
      PROVE  Append(w, f) \in T
  <2>1. OfStream(w, id) \in Seq(Frames) /\ Append(w, f) \in Seq(Frames)
    BY <1>2, AppendProperties
  <2>2. OfStream(Append(w, f), id) \in Seq(Frames)
    <3>1. OfStream(Append(w, f), id)
            = IF f.id = id THEN Append(OfStream(w, id), f) ELSE OfStream(w, id)
      BY OfStreamAppended
    <3>2. QED
      BY <2>1, <3>1, AppendProperties
  <2>3. QED
    BY <2>1, <2>2
<1> HIDE DEF T
<1>3. Seq(Frames) \subseteq T
  BY <1>1, <1>2, Sequences
<1>4. QED
  BY <1>3 DEF T

\* Two sequences of frames, one after the other.
LEMMA OfStreamJoined ==
    ASSUME NEW m \in Seq(Frames), NEW w \in Seq(Frames), NEW id \in Queues
    PROVE  OfStream(m \o w, id) = OfStream(m, id) \o OfStream(w, id)
<1> DEFINE T == {x \in Seq(Frames) : OfStream(m \o x, id) = OfStream(m, id) \o OfStream(x, id)}
<1>1. <<>> \in T
  BY OfStreamNothing, OfStreamType, ConcatEmptySeq
<1>2. ASSUME NEW x \in Seq(Frames), NEW f \in Frames, x \in T
      PROVE  Append(x, f) \in T
  <2>1. m \o x \in Seq(Frames) /\ Append(x, f) \in Seq(Frames)
    BY ConcatProperties, AppendProperties
  <2>2. m \o Append(x, f) = Append(m \o x, f)
    <3>1. Append(x, f) = x \o <<f>> /\ Append(m \o x, f) = (m \o x) \o <<f>>
      BY <2>1, AppendIsConcat
    <3>2. <<f>> \in Seq(Frames)
      OBVIOUS
    <3>3. (m \o x) \o <<f>> = m \o (x \o <<f>>)
      <4> DEFINE y == <<f>>
      <4>1. y \in Seq(Frames)
        BY <3>2
      <4> HIDE DEF y
      <4>2. Joined(Joined(m, x), y) = Joined(m, Joined(x, y))
        BY <4>1, Associative
      <4>3. QED
        BY <4>2 DEF Joined, y
    <3>4. QED
      BY <3>1, <3>3
  <2> DEFINE a == OfStream(m, id)
             b == OfStream(x, id)
  <2>3. a \in Seq(Frames) /\ b \in Seq(Frames) /\ OfStream(m \o x, id) = a \o b
        /\ a \o b \in Seq(Frames)
    BY <1>2, OfStreamType, ConcatProperties
  <2>4. OfStream(Append(m \o x, f), id) = IF f.id = id THEN Append(a \o b, f) ELSE a \o b
    <3> DEFINE y == m \o x
    <3>1. y \in Seq(Frames) /\ OfStream(y, id) = a \o b
      BY <2>1, <2>3
    <3> HIDE DEF y, a, b
    <3>2. OfStream(Append(y, f), id)
            = IF f.id = id THEN Append(OfStream(y, id), f) ELSE OfStream(y, id)
      BY <3>1, OfStreamAppended
    <3>3. QED
      BY <3>1, <3>2 DEF y
  <2>5. OfStream(Append(x, f), id) = IF f.id = id THEN Append(b, f) ELSE b
    BY OfStreamAppended
  <2> HIDE DEF a, b
  <2>6. Append(a \o b, f) = a \o Append(b, f)
    <3> DEFINE c == <<f>>
    <3>1. /\ c \in Seq(Frames) /\ Append(b, f) = b \o c
          /\ Append(a \o b, f) = (a \o b) \o c
      BY <2>3, AppendIsConcat
    <3> HIDE DEF c
    <3>2. a \in Seq(Frames) /\ b \in Seq(Frames) /\ c \in Seq(Frames)
      BY <2>3, <3>1
    <3>3. Joined(Joined(a, b), c) = Joined(a, Joined(b, c))
      BY <3>2, Associative
    <3>4. (a \o b) \o c = a \o (b \o c)
      BY <3>3 DEF Joined
    <3>5. QED
      BY <3>1, <3>4
  <2>7. OfStream(m \o Append(x, f), id) = a \o OfStream(Append(x, f), id)
    BY <2>2, <2>4, <2>5, <2>6
  <2>8. QED
    BY <2>1, <2>7 DEF a
<1> HIDE DEF T
<1>3. Seq(Frames) \subseteq T
  BY <1>1, <1>2, Sequences
<1>4. QED
  BY <1>3 DEF T

--------------------------------------------------------------------------------
(* Beginnings of sequences.                                                *)

\* A beginning is what something can be put behind.
LEMMA PrefixIs ==
    ASSUME NEW S, NEW s \in Seq(S), NEW t \in Seq(S)
    PROVE  IsPrefix(s, t) <=> \E u \in Seq(S) : t = s \o u
<1> DEFINE n == Len(s)
<1>1. n \in Nat /\ Len(t) \in Nat /\ s = SubSeq(s, 1, n)
  <2>1. SubSeq(s, 1, Len(s)) \in Seq(S) /\ Len(SubSeq(s, 1, Len(s))) = Len(s)
        /\ \A k \in 1 .. Len(s) : SubSeq(s, 1, Len(s))[k] = s[k]
    BY CutIs, LenProperties
  <2>2. QED
    BY <2>1, SeqEqual, LenProperties
<1>2. ASSUME IsPrefix(s, t)
      PROVE  \E u \in Seq(S) : t = s \o u
  <2> DEFINE u == SubSeq(t, n + 1, Len(t))
  <2>1. n \in 0 .. Len(t) /\ s = SubSeq(t, 1, n)
    BY <1>1, <1>2 DEF IsPrefix
  <2>2. u \in Seq(S) /\ Len(u) = Len(t) - n /\ (\A k \in 1 .. Len(t) - n : u[k] = t[n + k])
        /\ \A k \in 1 .. n : s[k] = t[k]
    BY <2>1, CutIs
  <2> HIDE DEF u
  <2>3. /\ s \o u \in Seq(S) /\ Len(s \o u) = Len(t)
        /\ \A k \in 1 .. n : (s \o u)[k] = s[k]
        /\ \A k \in 1 .. Len(u) : (s \o u)[n + k] = u[k]
    BY <1>1, <2>2, ConcatProperties
  <2>4. ASSUME NEW k \in 1 .. Len(t)
        PROVE  (s \o u)[k] = t[k]
    <3>1. CASE k \in 1 .. n
      BY <2>2, <2>3, <3>1
    <3>2. CASE k \notin 1 .. n
      <4> DEFINE j == k - n
      <4>1. j \in 1 .. Len(u) /\ j \in 1 .. Len(t) - n /\ k = n + j
        BY <1>1, <2>2, <3>2
      <4>2. QED
        BY <2>2, <2>3, <4>1
    <3>3. QED
      BY <3>1, <3>2
  <2>5. s \o u = t
    BY <2>3, <2>4, SeqEqual
  <2>6. QED
    BY <2>2, <2>5
<1>3. ASSUME NEW u \in Seq(S), t = s \o u
      PROVE  IsPrefix(s, t)
  <2>1. Len(t) = n + Len(u) /\ Len(u) \in Nat /\ \A k \in 1 .. n : t[k] = s[k]
    BY <1>1, <1>3, ConcatProperties
  <2>2. n \in 0 .. Len(t)
    BY <1>1, <2>1
  <2>3. SubSeq(t, 1, n) \in Seq(S) /\ Len(SubSeq(t, 1, n)) = n
        /\ \A k \in 1 .. n : SubSeq(t, 1, n)[k] = t[k]
    BY <2>2, CutIs
  <2>4. SubSeq(t, 1, n) = s
    BY <2>1, <2>3, SeqEqual
  <2>5. QED
    BY <1>1, <2>1, <2>4 DEF IsPrefix
<1>4. QED
  BY <1>2, <1>3

\* What begins a sequence begins a longer one, and so do its own beginnings.
LEMMA PrefixLonger ==
    ASSUME NEW S, NEW s \in Seq(S), NEW t \in Seq(S), NEW u \in Seq(S), IsPrefix(s, t)
    PROVE  IsPrefix(s, t \o u)
<1>1. PICK w \in Seq(S) : t = s \o w
  BY PrefixIs
<1>2. Joined(Joined(s, w), u) = Joined(s, Joined(w, u))
  BY ONLY u \in Seq(S), s \in Seq(S), w \in Seq(S), Associative
<1>3. t \o u = s \o (w \o u)
  BY <1>1, <1>2 DEF Joined
<1>4. w \o u \in Seq(S) /\ t \o u \in Seq(S)
  BY ONLY u \in Seq(S), t \in Seq(S), w \in Seq(S), ConcatProperties
<1>5. QED
  BY <1>3, <1>4, PrefixIs

\* Every sequence begins with itself.
LEMMA PrefixSelf ==
    ASSUME NEW S, NEW s \in Seq(S)
    PROVE  IsPrefix(s, s)
<1>1. s = s \o <<>> /\ <<>> \in Seq(S)
  BY ConcatEmptySeq
<1>2. QED
  BY <1>1, PrefixIs

\* Only nothing begins the empty sequence.
LEMMA PrefixOfNothing ==
    ASSUME NEW S, NEW s \in Seq(S), IsPrefix(s, <<>>)
    PROVE  s = <<>>
<1>1. Len(s) <= 0 /\ Len(s) \in Nat
  BY LenProperties DEF IsPrefix
<1>2. Len(s) = 0
  BY <1>1
<1>3. QED
  BY <1>2, EmptySeq

\* A CLOSE among the frames; the first frame opens the stream.
HasClose(s) == \E k \in DOMAIN s : s[k].type = "close"
Begun(s) == s # <<>> => s[1].type = "open"

\* A longer sequence keeps its CLOSE, a shorter one its beginning.
LEMMA CloseStays ==
    ASSUME NEW S, NEW s \in Seq(S), NEW t \in Seq(S)
    PROVE  /\ HasClose(s) => HasClose(s \o t)
           /\ HasClose(t) => HasClose(s \o t)
           /\ HasClose(s \o t) => HasClose(s) \/ HasClose(t)
           /\ Begun(s \o t) => Begun(s)
<1> DEFINE w == s \o t
<1>1. /\ w \in Seq(S) /\ Len(s) \in Nat /\ Len(t) \in Nat /\ Len(w) = Len(s) + Len(t)
      /\ DOMAIN w = 1 .. Len(s) + Len(t) /\ DOMAIN s = 1 .. Len(s) /\ DOMAIN t = 1 .. Len(t)
      /\ \A k \in 1 .. Len(s) : w[k] = s[k]
      /\ \A k \in 1 .. Len(s) + Len(t) : w[k] = IF k <= Len(s) THEN s[k] ELSE t[k - Len(s)]
  BY ConcatProperties, LenProperties
<1> HIDE DEF w
<1>2. ASSUME NEW k \in DOMAIN s, s[k].type = "close"
      PROVE  HasClose(w)
  <2>1. k \in DOMAIN w /\ w[k].type = "close"
    BY <1>1, <1>2
  <2>2. QED
    BY <2>1 DEF HasClose
<1>3. ASSUME NEW k \in DOMAIN t, t[k].type = "close"
      PROVE  HasClose(w)
  <2> DEFINE j == Len(s) + k
  <2>1. j \in 1 .. Len(s) + Len(t) /\ ~(j <= Len(s)) /\ j - Len(s) = k
    BY <1>1
  <2>2. j \in DOMAIN w /\ w[j] = t[k]
    BY <1>1, <2>1
  <2>3. QED
    BY <1>3, <2>2 DEF HasClose
<1>4. ASSUME NEW k \in DOMAIN w, w[k].type = "close"
      PROVE  HasClose(s) \/ HasClose(t)
  <2>1. CASE k <= Len(s)
    <3>1. k \in DOMAIN s /\ s[k].type = "close"
      BY <1>1, <1>4, <2>1
    <3>2. QED
      BY <3>1 DEF HasClose
  <2>2. CASE ~(k <= Len(s))
    <3> DEFINE j == k - Len(s)
    <3>1. j \in DOMAIN t /\ t[j].type = "close"
      BY <1>1, <1>4, <2>2
    <3>2. QED
      BY <3>1 DEF HasClose
  <2>3. QED
    BY <2>1, <2>2
<1>5. ASSUME Begun(w), s # <<>>
      PROVE  s[1].type = "open"
  <2>1. Len(s) # 0
    BY <1>5, EmptySeq
  <2>2. 1 \in 1 .. Len(s) /\ Len(w) # 0
    BY <1>1, <2>1
  <2>3. w[1] = s[1] /\ w # <<>>
    BY <1>1, <2>2
  <2>4. QED
    BY <1>5, <2>3 DEF Begun
<1>6. QED
  BY <1>2, <1>3, <1>4, <1>5 DEF HasClose, Begun, w

\* What begins with a CLOSE among its frames has one among them.
LEMMA PrefixCloses ==
    ASSUME NEW S, NEW s \in Seq(S), NEW t \in Seq(S), IsPrefix(s, t), HasClose(s)
    PROVE  HasClose(t)
<1>1. PICK u \in Seq(S) : t = s \o u
  BY PrefixIs
<1>2. HasClose(s \o u)
  BY CloseStays
<1>3. QED
  BY <1>1, <1>2

\* A stream has no frames in a message that does not name it, and its first
\* frame there is the first that does.
LEMMA OfStreamFirst ==
    ASSUME NEW m \in Seq(Frames), NEW id \in Queues
    PROVE  /\ (\E k \in DOMAIN m : m[k].id = id) => OfStream(m, id) # <<>>
           /\ OfStream(m, id) # <<>> =>
                \E k \in DOMAIN m : /\ m[k].id = id /\ OfStream(m, id)[1] = m[k]
                                    /\ \A j \in 1 .. k - 1 : m[j].id # id
           /\ HasClose(OfStream(m, id)) =>
                \E k \in DOMAIN m : m[k].id = id /\ m[k].type = "close"
<1> DEFINE Named(x) == (\E k \in DOMAIN x : x[k].id = id) => OfStream(x, id) # <<>>
           First(x) == OfStream(x, id) # <<>> =>
                         \E k \in DOMAIN x : /\ x[k].id = id /\ OfStream(x, id)[1] = x[k]
                                             /\ \A j \in 1 .. k - 1 : x[j].id # id
           Closes(x) == HasClose(OfStream(x, id)) =>
                          \E k \in DOMAIN x : x[k].id = id /\ x[k].type = "close"
           T == {x \in Seq(Frames) : Named(x) /\ First(x) /\ Closes(x)}
<1>1. <<>> \in T
  <2>1. OfStream(<<>>, id) = <<>> /\ <<>> \in Seq(Frames) /\ DOMAIN <<>> = {}
    BY OfStreamNothing
  <2>2. Named(<<>>) /\ First(<<>>)
    BY <2>1
  <2>3. Closes(<<>>)
    BY <2>1 DEF HasClose
  <2>4. QED
    BY <2>1, <2>2, <2>3
<1>2. ASSUME NEW x \in Seq(Frames), NEW f \in Frames, x \in T
      PROVE  Append(x, f) \in T
  <2> DEFINE y == Append(x, f)
             a == OfStream(x, id)
             b == OfStream(y, id)
             n == Len(x)
  <2>1. /\ y \in Seq(Frames) /\ n \in Nat /\ Len(y) = n + 1 /\ DOMAIN y = 1 .. n + 1
        /\ DOMAIN x = 1 .. n /\ (\A k \in 1 .. n : y[k] = x[k]) /\ y[n + 1] = f
    BY AppendProperties, LenProperties
  <2>2. b = IF f.id = id THEN Append(a, f) ELSE a
    BY OfStreamAppended
  <2>3. a \in Seq(Frames)
    BY OfStreamType
  <2>4. Named(x) /\ First(x) /\ Closes(x)
    BY <1>2
  <2>5. Len(a) \in Nat /\ DOMAIN a = 1 .. Len(a) /\ (a = <<>> <=> Len(a) = 0)
        /\ DOMAIN Append(a, f) = 1 .. Len(a) + 1 /\ Append(a, f) # <<>>
        /\ (\A k \in 1 .. Len(a) : Append(a, f)[k] = a[k]) /\ Append(a, f)[Len(a) + 1] = f
    BY <2>3, AppendProperties, LenProperties, EmptySeq
  <2> HIDE DEF y, a, b, n
  <2>6. OfStream(x, id) = a /\ OfStream(y, id) = b
    BY DEF a, b
  <2>7. Named(y)
    <3>1. CASE f.id = id
      BY <2>2, <2>5, <2>6, <3>1
    <3>2. CASE f.id # id
      <4>1. ASSUME NEW k \in DOMAIN y, y[k].id = id
            PROVE  b # <<>>
        <5>1. k \in DOMAIN x /\ x[k].id = id
          BY <2>1, <3>2, <4>1
        <5>2. QED
          BY <2>2, <2>4, <2>6, <3>2, <5>1
      <4>2. QED
        BY <2>6, <4>1
    <3>3. QED
      BY <3>1, <3>2
  <2>8. First(y)
    <3>1. CASE a # <<>>
      <4>1. PICK k \in DOMAIN x : /\ x[k].id = id /\ a[1] = x[k]
                                  /\ \A j \in 1 .. k - 1 : x[j].id # id
        BY <2>4, <2>6, <3>1
      <4>2. b[1] = a[1]
        BY <2>2, <2>5, <3>1
      <4>3. k \in DOMAIN y /\ y[k] = x[k] /\ \A j \in 1 .. k - 1 : y[j] = x[j]
        BY <2>1, <4>1
      <4>4. QED
        BY <2>6, <4>1, <4>2, <4>3
    <3>2. CASE a = <<>> /\ f.id = id
      <4>1. b[1] = f
        BY <2>2, <2>5, <3>2
      <4> DEFINE l == n + 1
      <4>2. l \in DOMAIN y /\ y[l] = f /\ \A j \in 1 .. l - 1 : j \in DOMAIN x /\ y[j] = x[j]
        BY <2>1
      <4>3. \A j \in DOMAIN x : x[j].id # id
        BY <2>4, <2>6, <3>2
      <4> HIDE DEF l
      <4>4. QED
        BY <2>6, <3>2, <4>1, <4>2, <4>3
    <3>3. CASE a = <<>> /\ f.id # id
      BY <2>2, <2>6, <3>3
    <3>4. QED
      BY <3>1, <3>2, <3>3
  <2>9. Closes(y)
    <3> SUFFICES ASSUME NEW i \in DOMAIN b, b[i].type = "close"
                 PROVE  \E k \in DOMAIN y : y[k].id = id /\ y[k].type = "close"
      BY <2>6 DEF HasClose
    <3>1. CASE i \in DOMAIN a /\ b[i] = a[i]
      <4>1. PICK k \in DOMAIN x : x[k].id = id /\ x[k].type = "close"
        BY <2>4, <2>6, <3>1 DEF HasClose
      <4>2. k \in DOMAIN y /\ y[k] = x[k]
        BY <2>1
      <4>3. QED
        BY <4>1, <4>2
    <3>2. CASE ~(i \in DOMAIN a /\ b[i] = a[i])
      <4>1. f.id = id /\ b[i] = f
        BY <2>2, <2>5, <3>2
      <4> DEFINE l == n + 1
      <4>2. l \in DOMAIN y /\ y[l] = f
        BY <2>1
      <4> HIDE DEF l
      <4>3. QED
        BY <4>1, <4>2
    <3>3. QED
      BY <3>1, <3>2
  <2>10. QED
    BY <2>1, <2>7, <2>8, <2>9 DEF y
<1> HIDE DEF T
<1>3. Seq(Frames) \subseteq T
  BY <1>1, <1>2, Sequences
<1>4. QED
  BY <1>3 DEF T

--------------------------------------------------------------------------------
(* What the state is, and what it means for the page to be in order.       *)

Body == {b \in Seq(Frames) : Fits(b) \/ Len(b) = 1}

LaneType ==
    [entry : {"absent", "present", "gone"}, pending : Seq(Message), bytes : Int, items : Int,
     flight : [bytes : Nat, items : Nat], polling : BOOLEAN, bodies : Seq(Body),
     socket : {"none", "connecting", "open", "closing", "closed"}, buffered : Nat,
     timer : BOOLEAN, microtask : BOOLEAN, opened : BOOLEAN, localClosed : BOOLEAN,
     remoteClosed : BOOLEAN]

PageType ==
    [stage : {"new", "creating", "welcome", "opening", "up", "ended"}, closed : BOOLEAN,
     token : BOOLEAN, deleted : BOOLEAN, bytes : Int, items : Int, pending : Seq(Message),
     told : [StreamIDs -> Nat], lanes : [Queues -> LaneType]]

Typed ==
    /\ carrier \in Carriers /\ page \in PageType
    /\ streams \in [StreamIDs -> {"new", "open", "closed"}]
    /\ handed \in [Queues -> Seq(Frames)] /\ ended \subseteq StreamIDs
    /\ overtaken \in BOOLEAN /\ posted \in Nat

\* What a lane owes, and what it has given to a body or still holds.
OwedB(l) == Sizes(l.pending) + l.flight.bytes
OwedI(l) == Len(l.pending) + l.flight.items
Carried(l) == FlattenSeq(l.bodies) \o FlattenSeq(l.pending)

\* A lane of an open page: what it is charged with, and what its socket may be.
LaneOK(l) ==
    /\ l.socket \notin {"open", "closing"} => l.buffered = 0
    /\ WebSockets => l.flight = NoBody /\ ~l.polling
    /\ WebSockets /\ PerLane =>
         /\ l.entry = "absent" => l.socket = "none"
         /\ l.entry = "gone" => l.socket \notin {"connecting", "open"}
    /\ ~WebSockets => l.socket = "none"
    /\ ~PerLane => l.entry = "present"
    /\ PerLane => l.bytes = OwedB(l) /\ l.items = OwedI(l)

\* A lane that is in the map will hear from the relay.
Awake(l) ==
    PerLane /\ l.entry = "present" =>
      IF WebSockets THEN l.socket \in {"connecting", "open"}
      ELSE l.polling \/ l.flight # NoBody

\* The page is charged with what its lanes owe and b bytes and i items more.
PageCharged(p, b, i) ==
    /\ p.bytes = Total(Queues, OwedBytes(p)) + b
    /\ p.items = Total(Queues, OwedItems(p)) + i
    /\ p.bytes + BufferedBytes(p) <= QueueLimit

--------------------------------------------------------------------------------
(* The loops over the frames of a message and over the early messages.     *)

\* The loop of queueCarrier has an end.
LEMMA FrameLoopExists ==
    ASSUME NEW p \in PageType, NEW m \in Message, NEW len \in Nat
    PROVE  \E g : g = [k \in 0 .. len |->
                         IF k = 0 THEN [page |-> p, thrown |-> FALSE]
                         ELSE QueueFrame(g[k - 1], m[k])]
<1> DEFINE Rec(g, n) == g = [k \in 0 .. n |-> IF k = 0 THEN [page |-> p, thrown |-> FALSE]
                                               ELSE QueueFrame(g[k - 1], m[k])]
           T == {n \in Nat : \E g : Rec(g, n)}
<1>1. 0 \in T
  <2>1. Rec([k \in 0 .. 0 |-> [page |-> p, thrown |-> FALSE]], 0)
    OBVIOUS
  <2>2. QED
    BY <2>1
<1>2. ASSUME NEW n \in Nat, n \in T
      PROVE  n + 1 \in T
  <2>1. PICK g : Rec(g, n)
    BY <1>2
  <2> DEFINE j == n + 1
             h == [k \in 0 .. j |->
                     IF k = j THEN QueueFrame(g[n], m[j])
                     ELSE g[k]]
  <2>2. j \in Nat /\ j # 0 /\ j - 1 = n /\ n # j /\ n \in 0 .. j
    OBVIOUS
  <2>3. ASSUME NEW k \in 0 .. j
        PROVE  h[k] = IF k = 0 THEN [page |-> p, thrown |-> FALSE] ELSE QueueFrame(h[k - 1], m[k])
    <3>1. CASE k = j
      <4>1. h[n] = g[n]
        BY <2>2
      <4> HIDE DEF j
      <4>2. h[k] = QueueFrame(g[n], m[j])
        BY <3>1, <2>2
      <4> HIDE DEF h
      <4>3. QED
        BY <2>2, <3>1, <4>1, <4>2
    <3>2. CASE k # j
      <4>1. k \in 0 .. n /\ (k # 0 => k - 1 \in 0 .. n /\ k - 1 # j /\ k - 1 \in 0 .. j)
        BY <3>2
      <4> HIDE DEF j
      <4>2. h[k] = g[k] /\ (k # 0 => h[k - 1] = g[k - 1])
        BY <3>2, <4>1
      <4> HIDE DEF h
      <4>3. QED
        BY <2>1, <4>1, <4>2
    <3>3. QED
      BY <3>1, <3>2
  <2> HIDE DEF j
  <2>4. h = [k \in 0 .. j |-> h[k]]
    OBVIOUS
  <2> HIDE DEF h
  <2>5. Rec(h, j)
    BY <2>3, <2>4
  <2>6. QED
    BY <2>2, <2>5 DEF j
<1> HIDE DEF T
<1>3. Nat \subseteq T
  BY <1>1, <1>2, Numbers
<1>4. QED
  BY <1>3 DEF T

\* The loop of queueCarrier, frame by frame.
LEMMA FrameLoop ==
    ASSUME NEW p \in PageType, NEW m \in Message
    PROVE  \E g : /\ g = [k \in 0 .. Len(m) |->
                            IF k = 0 THEN [page |-> p, thrown |-> FALSE]
                            ELSE QueueFrame(g[k - 1], m[k])]
                  /\ QueueFrames(p, m) = g[Len(m)].page
<1> DEFINE Rec(g, len) == g = [k \in 0 .. len |->
                                 IF k = 0 THEN [page |-> p, thrown |-> FALSE]
                                 ELSE QueueFrame(g[k - 1], m[k])]
<1>1. Len(m) \in Nat
  BY LenProperties DEF Message
<1>2. \A len \in Nat : \E g : Rec(g, len)
  BY FrameLoopExists
<1>3. \E g : Rec(g, Len(m))
  <2> HIDE DEF Rec
  <2>1. QED
    BY <1>1, <1>2
<1> DEFINE loop[k \in 0 .. Len(m)] == IF k = 0 THEN [page |-> p, thrown |-> FALSE]
                                      ELSE QueueFrame(loop[k - 1], m[k])
<1>4. loop = [k \in 0 .. Len(m) |-> IF k = 0 THEN [page |-> p, thrown |-> FALSE]
                                    ELSE QueueFrame(loop[k - 1], m[k])]
  BY <1>3
<1>5. QueueFrames(p, m) = loop[Len(m)].page
  BY DEF QueueFrames
<1>6. QED
  BY <1>4, <1>5

\* The loop over the early messages has an end.
LEMMA FlushLoopExists ==
    ASSUME NEW p \in PageType, NEW early \in Seq(Message), NEW len \in Nat
    PROVE  \E g : g = [k \in 0 .. len |->
                         IF k = 0 THEN p ELSE Flush(g[k - 1], early[k])]
<1> DEFINE Rec(g, n) == g = [k \in 0 .. n |-> IF k = 0 THEN p ELSE Flush(g[k - 1], early[k])]
           T == {n \in Nat : \E g : Rec(g, n)}
<1>1. 0 \in T
  <2>1. Rec([k \in 0 .. 0 |-> p], 0)
    OBVIOUS
  <2>2. QED
    BY <2>1
<1>2. ASSUME NEW n \in Nat, n \in T
      PROVE  n + 1 \in T
  <2>1. PICK g : Rec(g, n)
    BY <1>2
  <2> DEFINE j == n + 1
             h == [k \in 0 .. j |->
                     IF k = j THEN Flush(g[n], early[j])
                     ELSE g[k]]
  <2>2. j \in Nat /\ j # 0 /\ j - 1 = n /\ n # j /\ n \in 0 .. j
    OBVIOUS
  <2>3. ASSUME NEW k \in 0 .. j
        PROVE  h[k] = IF k = 0 THEN p ELSE Flush(h[k - 1], early[k])
    <3>1. CASE k = j
      <4>1. h[n] = g[n]
        BY <2>2
      <4> HIDE DEF j
      <4>2. h[k] = Flush(g[n], early[j])
        BY <3>1, <2>2
      <4> HIDE DEF h
      <4>3. QED
        BY <2>2, <3>1, <4>1, <4>2
    <3>2. CASE k # j
      <4>1. k \in 0 .. n /\ (k # 0 => k - 1 \in 0 .. n /\ k - 1 # j /\ k - 1 \in 0 .. j)
        BY <3>2
      <4> HIDE DEF j
      <4>2. h[k] = g[k] /\ (k # 0 => h[k - 1] = g[k - 1])
        BY <3>2, <4>1
      <4> HIDE DEF h
      <4>3. QED
        BY <2>1, <4>1, <4>2
    <3>3. QED
      BY <3>1, <3>2
  <2> HIDE DEF j
  <2>4. h = [k \in 0 .. j |-> h[k]]
    OBVIOUS
  <2> HIDE DEF h
  <2>5. Rec(h, j)
    BY <2>3, <2>4
  <2>6. QED
    BY <2>2, <2>5 DEF j
<1> HIDE DEF T
<1>3. Nat \subseteq T
  BY <1>1, <1>2, Numbers
<1>4. QED
  BY <1>3 DEF T

\* The loop over the early messages, one by one.
LEMMA FlushLoop ==
    ASSUME NEW p \in PageType, NEW early \in Seq(Message)
    PROVE  \E g : /\ g = [k \in 0 .. Len(early) |->
                            IF k = 0 THEN p ELSE Flush(g[k - 1], early[k])]
                  /\ Flushed(p, early) = g[Len(early)]
<1> DEFINE Rec(g, len) == g = [k \in 0 .. len |->
                                 IF k = 0 THEN p ELSE Flush(g[k - 1], early[k])]
<1>1. Len(early) \in Nat
  BY LenProperties
<1>2. \A len \in Nat : \E g : Rec(g, len)
  BY FlushLoopExists
<1>3. \E g : Rec(g, Len(early))
  <2> HIDE DEF Rec
  <2>1. QED
    BY <1>1, <1>2
<1> DEFINE loop[k \in 0 .. Len(early)] == IF k = 0 THEN p ELSE Flush(loop[k - 1], early[k])
<1>4. loop = [k \in 0 .. Len(early) |-> IF k = 0 THEN p ELSE Flush(loop[k - 1], early[k])]
  BY <1>3
<1>5. Flushed(p, early) = loop[Len(early)]
  BY DEF Flushed
<1>6. QED
  BY <1>4, <1>5

--------------------------------------------------------------------------------
(* Bodies.                                                                 *)

\* The maximum of a set of numbers is one of them.
LEMMA MaxIsIn ==
    ASSUME NEW S, NEW n \in Nat, S \subseteq 1 .. n, S # {}
    PROVE  Max(S) \in S
<1> DEFINE T == {n - x : x \in S}
<1>1. T \subseteq Nat /\ T # {}
  <2>1. \A x \in S : x \in 1 .. n /\ n - x \in Nat
    OBVIOUS
  <2>2. QED
    BY <2>1
<1>2. PICK y \in T : \A z \in T : y <= z
  BY <1>1, LeastElement
<1>3. PICK x \in S : y = n - x
  OBVIOUS
<1>4. \A z \in S : x >= z
  <2> SUFFICES ASSUME NEW z \in S PROVE x >= z
    OBVIOUS
  <2>1. n - z \in T
    OBVIOUS
  <2>2. n - x <= n - z
    BY <1>2, <1>3, <2>1
  <2>3. x \in Nat /\ z \in Nat
    OBVIOUS
  <2>4. QED
    BY <2>2, <2>3
<1>5. QED
  BY <1>3, <1>4 DEF Max

\* A body carries at least one frame of an item, and one frame or what fits.
LEMMA FrameBoundIs ==
    ASSUME NEW m \in Message
    PROVE  /\ FrameBound(m) \in 1 .. Len(m) /\ SubSeq(m, 1, FrameBound(m)) \in Body
           /\ FrameBound(m) = Len(m) => m \in Body
<1> DEFINE S == {k \in DOMAIN m : k = 1 \/ Fits(SubSeq(m, 1, k))}
           b == FrameBound(m)
<1>1. m \in Seq(Frames) /\ Len(m) \in Nat /\ Len(m) # 0 /\ DOMAIN m = 1 .. Len(m)
  BY EmptySeq, LenProperties DEF Message
<1>2. S \subseteq 1 .. Len(m) /\ 1 \in S
  BY <1>1
<1>3. Max(S) \in S
  <2> HIDE DEF S
  <2>1. QED
    BY <1>1, <1>2, MaxIsIn
<1>4. b \in 1 .. Len(m) /\ (b = 1 \/ Fits(SubSeq(m, 1, b)))
  BY <1>1, <1>3 DEF FrameBound
<1> HIDE DEF b
<1>5. SubSeq(m, 1, b) \in Seq(Frames) /\ Len(SubSeq(m, 1, b)) = b
  <2>1. b \in 0 .. Len(m)
    BY <1>1, <1>4
  <2>2. QED
    BY <1>1, <2>1, CutIs
<1>6. SubSeq(m, 1, b) \in Body
  BY <1>4, <1>5 DEF Body
<1>7. ASSUME b = Len(m) PROVE m = SubSeq(m, 1, b)
  <2>1. \A k \in 1 .. b : SubSeq(m, 1, b)[k] = m[k]
    <3>1. b \in 0 .. Len(m)
      BY <1>1, <1>4
    <3>2. QED
      BY <1>1, <3>1, CutIs
  <2>2. QED
    BY <1>1, <1>5, <1>7, <2>1, SeqEqual
<1>8. QED
  BY <1>4, <1>6, <1>7 DEF b

\* What one item holds.
LEMMA OneItem ==
    ASSUME NEW m \in Message
    PROVE  /\ <<m>> \in Seq(Message) /\ Len(<<m>>) = 1 /\ Sizes(<<m>>) = Size(m)
           /\ FlattenSeq(<<m>>) = m /\ Size(m) \in Nat
<1>1. Append(<<>>, m) = <<m>> /\ Len(<<>>) = 0
  OBVIOUS
<1>2. /\ Append(<<>>, m) \in Seq(Message) /\ Len(Append(<<>>, m)) = Len(<<>>) + 1
      /\ Sizes(Append(<<>>, m)) = Sizes(<<>>) + Size(m) /\ Size(m) \in Nat
  BY SizesEmpty, SizesAppended
<1>3. FlattenSeq(<<m>>) = m
  BY FlattenOne DEF Message
<1>4. QED
  BY <1>1, <1>2, <1>3, SizesEmpty

\* How many items one body carries: at least one, and one item or items that fit.
ItemCount(v) == Max({c \in DOMAIN v : c = 1 \/ ItemsFit(SubSeq(v, 1, c))})

\* How many items one body takes: at least one, and together they fit unless it
\* is the only one.
LEMMA ItemCountIs ==
    ASSUME NEW v \in Seq(Message), v # <<>>, v[1] \in Body
    PROVE  ItemCount(v) \in 1 .. Len(v) /\ FlattenSeq(SubSeq(v, 1, ItemCount(v))) \in Body
<1> DEFINE S == {c \in DOMAIN v : c = 1 \/ ItemsFit(SubSeq(v, 1, c))}
           n == ItemCount(v)
           taken == SubSeq(v, 1, n)
<1>1. Len(v) \in Nat /\ Len(v) # 0 /\ DOMAIN v = 1 .. Len(v)
  BY EmptySeq, LenProperties
<1>2. S \subseteq 1 .. Len(v) /\ 1 \in S
  BY <1>1
<1>3. Max(S) \in S
  <2> HIDE DEF S
  <2>1. QED
    BY <1>1, <1>2, MaxIsIn
<1>4. n \in 1 .. Len(v) /\ (n = 1 \/ ItemsFit(taken))
  BY <1>1, <1>3 DEF ItemCount
<1> HIDE DEF n
<1>5. n \in 0 .. Len(v)
  BY <1>1, <1>4
<1>6. taken \in Seq(Message) /\ Len(taken) = n /\ \A k \in 1 .. n : taken[k] = v[k]
  BY <1>5, CutIs
<1>7. CASE n = 1
  <2>1. v[1] \in Message
    BY <1>1, ElementOfSeq
  <2>2. <<v[1]>> \in Seq(Message) /\ Len(<<v[1]>>) = 1 /\ FlattenSeq(<<v[1]>>) = v[1]
    BY <2>1, OneItem
  <2>3. taken = <<v[1]>>
    <3>1. \A k \in 1 .. Len(taken) : taken[k] = <<v[1]>>[k]
      BY <1>6, <1>7
    <3>2. QED
      BY <1>6, <1>7, <2>2, <3>1, SeqEqual
  <2>4. QED
    BY <1>4, <2>2, <2>3 DEF n
<1>8. CASE n # 1
  <2>1. FlattenSeq(taken) \in Seq(Frames) /\ Fits(FlattenSeq(taken))
    <3> HIDE DEF taken
    <3>1. QED
      BY <1>4, <1>6, <1>8, FlattenSizes DEF ItemsFit, Fits
  <2>2. QED
    BY <1>4, <2>1 DEF Body, n
<1>9. QED
  BY <1>7, <1>8

\* What joinPending takes and what it leaves: a split item leaves one item more.
Taken(v) == IF FrameBound(v[1]) < Len(v[1])
            THEN <<SubSeq(v[1], 1, FrameBound(v[1]))>> ELSE SubSeq(v, 1, ItemCount(v))
Left(v) == IF FrameBound(v[1]) < Len(v[1])
           THEN [v EXCEPT ![1] = SubSeq(@, FrameBound(v[1]) + 1, Len(@))]
           ELSE SubSeq(v, ItemCount(v) + 1, Len(v))
Extra(v) == IF FrameBound(v[1]) < Len(v[1]) THEN 1 ELSE 0

\* joinPending cuts a queue in two: what is taken and what is left are the queue,
\* the body fits or is one frame, and bytes and items are those of the queue.
LEMMA TakenIs ==
    ASSUME NEW v \in Seq(Message), v # <<>>
    PROVE  /\ Left(v) \in Seq(Message) /\ Len(Left(v)) \in Nat /\ FlattenSeq(Taken(v)) \in Body
           /\ Sizes(Taken(v)) \in Nat /\ Len(Taken(v)) \in Nat \ {0}
           /\ Sizes(Left(v)) \in Nat
           /\ Sizes(v) = Sizes(Taken(v)) + Sizes(Left(v))
           /\ Len(v) + Extra(v) = Len(Taken(v)) + Len(Left(v))
           /\ FlattenSeq(v) = FlattenSeq(Taken(v)) \o FlattenSeq(Left(v))
           /\ Extra(v) \in {0, 1}
<1> DEFINE m == v[1]
           b == FrameBound(m)
<1>1. Len(v) \in Nat /\ Len(v) # 0 /\ 1 \in 1 .. Len(v)
  <2>1. Len(v) \in Nat /\ Len(v) # 0
    BY EmptySeq, LenProperties
  <2>2. QED
    BY <2>1
<1>2. m \in Message /\ m \in Seq(Frames)
  BY <1>1, ElementOfSeq DEF Message
<1>3. Len(m) \in Nat /\ b \in 1 .. Len(m) /\ SubSeq(m, 1, b) \in Body /\ (b = Len(m) => m \in Body)
  <2> HIDE DEF m
  <2>1. QED
    BY <1>2, FrameBoundIs, LenProperties
<1>4. v \in Seq(Seq(Frames))
  BY FlattenSizes
<1>5. CASE b < Len(m)
  <2> DEFINE head == SubSeq(m, 1, b)
             tail == SubSeq(m, b + 1, Len(m))
             w == [v EXCEPT ![1] = tail]
  <2>1. head \in Message /\ tail \in Message /\ Size(m) = Size(head) + Size(tail)
        /\ Size(head) \in Nat /\ Size(tail) \in Nat /\ Size(m) \in Nat
    <3> HIDE DEF m, b
    <3>1. QED
      BY <1>2, <1>3, <1>5, SizeCut
  <2>2. Taken(v) = <<head>> /\ Left(v) = w /\ Extra(v) = 1
    BY <1>5 DEF Taken, Left, Extra
  <2>3. w \in Seq(Message) /\ Len(w) = Len(v) /\ Sizes(w) = Sizes(v) - Size(m) + Size(tail)
        /\ Sizes(v) \in Nat
    <3> DEFINE t == tail
    <3>1. t \in Message
      BY <2>1
    <3> HIDE DEF t, m, b
    <3>2. [v EXCEPT ![1] = t] \in Seq(Message) /\ Len([v EXCEPT ![1] = t]) = Len(v)
          /\ Sizes([v EXCEPT ![1] = t]) = Sizes(v) - Size(v[1]) + Size(t)
      BY <1>1, <3>1, SizesReplaced
    <3>3. Sizes(v) \in Nat
      BY SizesIs
    <3>4. QED
      BY <3>2, <3>3 DEF t, m
  <2>4. FlattenSeq(v) = head \o FlattenSeq(w)
    <3>1. b \in 0 .. Len(v[1])
      BY <1>3
    <3> HIDE DEF b
    <3>2. QED
      BY <1>4, <3>1, FlattenSplit
  <2>5. <<head>> \in Seq(Message) /\ Len(<<head>>) = 1 /\ Sizes(<<head>>) = Size(head)
        /\ FlattenSeq(<<head>>) = head
    <3> HIDE DEF head
    <3>1. QED
      BY <2>1, OneItem
  <2>6. Len(w) \in Nat /\ Sizes(w) \in Nat
    BY <2>3, SizesIs
  <2>7. head \in Body
    BY <1>3
  <2> HIDE DEF head, w, tail, m, b
  <2>8. Sizes(v) = Size(head) + Sizes(w)
    BY <2>1, <2>3
  <2>9. FlattenSeq(Taken(v)) = head /\ Sizes(Taken(v)) = Size(head) /\ Len(Taken(v)) = 1
    BY <2>2, <2>5
  <2>10. Len(Taken(v)) \in Nat \ {0} /\ Len(v) + Extra(v) = Len(Taken(v)) + Len(Left(v))
    BY <1>1, <2>2, <2>3, <2>9
  <2>11. /\ Left(v) \in Seq(Message) /\ Len(Left(v)) \in Nat /\ Sizes(Left(v)) \in Nat
         /\ Extra(v) \in {0, 1}
    BY <2>2, <2>3, <2>6
  <2>12. Sizes(v) = Sizes(Taken(v)) + Sizes(Left(v)) /\ Sizes(Taken(v)) \in Nat
    BY <2>1, <2>2, <2>8, <2>9
  <2>13. FlattenSeq(v) = FlattenSeq(Taken(v)) \o FlattenSeq(Left(v))
         /\ FlattenSeq(Taken(v)) \in Body
    BY <2>2, <2>4, <2>7, <2>9
  <2>14. QED
    BY <2>10, <2>11, <2>12, <2>13
<1>6. CASE ~(b < Len(m))
  <2> DEFINE n == ItemCount(v)
             taken == SubSeq(v, 1, n)
             left == SubSeq(v, n + 1, Len(v))
  <2>1. b = Len(m)
    BY <1>3, <1>6
  <2>2. v[1] \in Body
    BY <1>3, <2>1
  <2>3. n \in 1 .. Len(v) /\ FlattenSeq(taken) \in Body
    BY <2>2, ItemCountIs
  <2>4. n \in 0 .. Len(v) /\ n \in Nat \ {0}
    BY <1>1, <2>3
  <2>5. Taken(v) = taken /\ Left(v) = left /\ Extra(v) = 0
    BY <1>6 DEF Taken, Left, Extra
  <2> HIDE DEF n
  <2>6. /\ taken \in Seq(Message) /\ left \in Seq(Message)
        /\ Len(taken) = n /\ Len(left) = Len(v) - n
        /\ Sizes(v) = Sizes(taken) + Sizes(left)
        /\ Sizes(taken) \in Nat /\ Sizes(left) \in Nat
    BY <2>4, SizesCut
  <2>7. FlattenSeq(v) = FlattenSeq(taken) \o FlattenSeq(left)
    BY <1>4, <2>4, FlattenCut
  <2>8. Len(v) - n \in Nat
    BY <1>1, <2>4
  <2> HIDE DEF taken, left
  <2>9. QED
    BY <1>1, <2>3, <2>4, <2>5, <2>6, <2>7, <2>8
<1>7. QED
  BY <1>5, <1>6

--------------------------------------------------------------------------------
(* Steps that touch one lane.                                              *)

\* Nothing but the lane q, the charge and `deleted` has changed.
Moved(p, r, q) ==
    /\ r \in PageType
    /\ r.stage = p.stage /\ r.closed = p.closed /\ r.token = p.token
    /\ r.pending = p.pending /\ r.told = p.told
    /\ \A z \in Queues \ {q} : r.lanes[z] = p.lanes[z]

\* A lane put in the place of another.
LEMMA LaneSet ==
    ASSUME NEW p \in PageType, NEW q \in Queues, NEW l \in LaneType
    PROVE  LET r == [p EXCEPT !.lanes[q] = l]
           IN  Moved(p, r, q) /\ r.lanes[q] = l /\ r.bytes = p.bytes /\ r.items = p.items
BY DEF Moved, PageType

\* What reserve and release do to the page and to the lane.
LEMMA ChargeIs ==
    ASSUME NEW p \in PageType, NEW q \in Queues, NEW b \in Int, NEW i \in Int
    PROVE  LET r == Charge(p, q, b, i)
               l == p.lanes[q]
           IN  /\ Moved(p, r, q) /\ r.bytes = p.bytes + b /\ r.items = p.items + i
               /\ r.lanes[q] = IF PerLane THEN [l EXCEPT !.bytes = @ + b, !.items = @ + i] ELSE l
               /\ r.lanes[q] \in LaneType
<1> DEFINE c == ChargePage(p, b, i)
           l == p.lanes[q]
<1>1. c \in PageType /\ Moved(p, c, q) /\ c.bytes = p.bytes + b /\ c.items = p.items + i
      /\ c.lanes = p.lanes /\ l \in LaneType
  <2> DEFINE x == p.bytes + b
             y == p.items + i
  <2>1. x \in Int /\ y \in Int
    BY DEF PageType
  <2>2. c = [p EXCEPT !.bytes = x, !.items = y]
    BY DEF ChargePage
  <2> HIDE DEF x, y, c
  <2>3. c \in PageType
    BY <2>1, <2>2 DEF PageType
  <2>4. c.bytes = x /\ c.items = y /\ c.lanes = p.lanes /\ l \in LaneType
    BY <2>2 DEF PageType
  <2>5. Moved(p, c, q)
    BY <2>2, <2>3, <2>4 DEF Moved, PageType
  <2>6. QED
    BY <2>3, <2>4, <2>5 DEF x, y
<1> HIDE DEF c, l
<1>2. CASE ~PerLane
  BY <1>1, <1>2 DEF Charge, c, l
<1>3. CASE PerLane
  <2> DEFINE L == [l EXCEPT !.bytes = @ + b, !.items = @ + i]
             r == [c EXCEPT !.lanes[q] = L]
  <2>1. L \in LaneType
    <3> DEFINE x == l.bytes + b
               y == l.items + i
    <3>1. x \in Int /\ y \in Int
      BY <1>1 DEF LaneType
    <3>2. L = [l EXCEPT !.bytes = x, !.items = y]
      OBVIOUS
    <3> HIDE DEF x, y, L
    <3>3. QED
      BY <1>1, <3>1, <3>2 DEF LaneType
  <2>2. Charge(p, q, b, i) = [c EXCEPT !.lanes[q].bytes = @ + b, !.lanes[q].items = @ + i]
    BY <1>3 DEF Charge, c
  <2>3. [c EXCEPT !.lanes[q].bytes = @ + b, !.lanes[q].items = @ + i] = r
    BY <1>1 DEF PageType, l
  <2>4. Moved(c, r, q) /\ r.lanes[q] = L /\ r.bytes = c.bytes /\ r.items = c.items
    <3> HIDE DEF L
    <3>1. QED
      BY <1>1, <2>1, LaneSet
  <2> HIDE DEF r
  <2>5. QED
    BY <1>1, <1>3, <2>1, <2>2, <2>3, <2>4 DEF Moved, l
<1>4. QED
  BY <1>2, <1>3

\* The lane but for its queue, its charge, its bodies and its buffer.
Quietly(l, L) ==
    /\ L.entry = l.entry /\ L.polling = l.polling /\ L.socket = l.socket
    /\ L.opened = l.opened
    /\ L.localClosed = l.localClosed /\ L.remoteClosed = l.remoteClosed

\* A lane with a new body under way.
LEMMA JoinedIs ==
    ASSUME NEW p \in PageType, NEW q \in Queues, p.lanes[q].pending # <<>>
    PROVE  LET r == JoinPending(p, q)
               l == p.lanes[q]
               L == r.lanes[q]
               v == l.pending
           IN  /\ Moved(p, r, q) /\ L \in LaneType /\ Quietly(l, L)
               /\ r.bytes = p.bytes /\ r.items = p.items + Extra(v)
               /\ L.pending = Left(v) /\ L.bodies = Append(l.bodies, FlattenSeq(Taken(v)))
               /\ L.flight = [bytes |-> Sizes(Taken(v)), items |-> Len(Taken(v))]
               /\ L.bytes = l.bytes
               /\ L.items = IF PerLane THEN l.items + Extra(v) ELSE l.items
               /\ L.buffered = l.buffered
<1> DEFINE l == p.lanes[q]
           v == l.pending
           x == Extra(v)
           c == Charge(p, q, 0, x)
           k == c.lanes[q]
           rest == Left(v)
           body == FlattenSeq(Taken(v))
           f == [bytes |-> Sizes(Taken(v)), items |-> Len(Taken(v))]
           L == [k EXCEPT !.pending = rest, !.bodies = Append(@, body), !.flight = f]
           r == [c EXCEPT !.lanes[q] = L]
<1>1. l \in LaneType /\ v \in Seq(Message) /\ v # <<>> /\ p.bytes \in Int /\ l.bytes \in Int
      /\ l.bodies \in Seq(Body)
  BY DEF PageType, LaneType
<1>2. x \in {0, 1} /\ rest \in Seq(Message) /\ body \in Body
      /\ f \in [bytes : Nat, items : Nat]
  <2> HIDE DEF l, v
  <2>1. QED
    BY <1>1, TakenIs DEF v
<1>3. /\ Moved(p, c, q) /\ c.bytes = p.bytes + 0 /\ c.items = p.items + x
      /\ k = (IF PerLane THEN [l EXCEPT !.bytes = @ + 0, !.items = @ + x] ELSE l)
      /\ k \in LaneType /\ c \in PageType
  <2> HIDE DEF x
  <2>1. 0 \in Int /\ x \in Int
    BY <1>2
  <2>2. LET s == Charge(p, q, 0, x)
        IN  /\ Moved(p, s, q) /\ s.bytes = p.bytes + 0 /\ s.items = p.items + x
            /\ s.lanes[q] = IF PerLane THEN [p.lanes[q] EXCEPT !.bytes = @ + 0, !.items = @ + x]
                            ELSE p.lanes[q]
            /\ s.lanes[q] \in LaneType
    BY <2>1, ChargeIs
  <2>3. c \in PageType
    BY <2>2 DEF Moved
  <2>4. QED
    BY <2>2, <2>3
<1>4. JoinPending(p, q)
        = [c EXCEPT !.lanes[q].pending = rest, !.lanes[q].bodies = Append(@, body),
                    !.lanes[q].flight = f]
  BY DEF JoinPending, Taken, Left, Extra, ItemCount
<1>5. [c EXCEPT !.lanes[q].pending = rest, !.lanes[q].bodies = Append(@, body),
                !.lanes[q].flight = f] = r
  <2> HIDE DEF c, rest, body, f, x, l, v
  <2>1. QED
    BY <1>3 DEF PageType
<1>6. k.bodies = l.bodies /\ Append(l.bodies, body) \in Seq(Body)
  <2>1. k.bodies = l.bodies
    <3> HIDE DEF k, x, c, v
    <3>1. QED
      BY <1>1, <1>3 DEF LaneType
  <2>2. QED
    BY <1>1, <1>2, <2>1, AppendProperties
<1> HIDE DEF x, c, k, rest, body, f, v
<1>7. L \in LaneType
  <2> DEFINE bodies == Append(l.bodies, body)
  <2>1. bodies \in Seq(Body) /\ L = [k EXCEPT !.pending = rest, !.bodies = bodies, !.flight = f]
    BY <1>6
  <2> HIDE DEF bodies, L, l
  <2>2. /\ k \in LaneType /\ rest \in Seq(Message) /\ f \in [bytes : Nat, items : Nat]
        /\ L = [k EXCEPT !.pending = rest, !.bodies = bodies, !.flight = f]
    BY <1>2, <1>3, <2>1
  <2>3. QED
    BY ONLY <2>1, <2>2 DEF LaneType
<1>8. /\ L.pending = rest /\ L.bodies = Append(l.bodies, body) /\ L.flight = f
      /\ L.bytes = k.bytes /\ L.items = k.items /\ L.buffered = k.buffered /\ Quietly(k, L)
  BY <1>3, <1>6 DEF LaneType, Quietly
<1>9. /\ k.bytes = l.bytes /\ k.items = (IF PerLane THEN l.items + x ELSE l.items)
      /\ k.buffered = l.buffered /\ Quietly(l, k)
  <2> HIDE DEF l
  <2>1. CASE PerLane
    BY <1>1, <1>2, <1>3, <2>1 DEF LaneType, Quietly
  <2>2. CASE ~PerLane
    BY <1>3, <2>2 DEF Quietly
  <2>3. QED
    BY <2>1, <2>2
<1> HIDE DEF L
<1>10. Moved(c, r, q) /\ r.lanes[q] = L /\ r.bytes = c.bytes /\ r.items = c.items
  BY <1>3, <1>7, LaneSet
<1>11. c.bytes = p.bytes
  BY <1>1, <1>3
<1>12. Moved(p, r, q) /\ r.bytes = p.bytes /\ r.items = p.items + x
  BY <1>3, <1>10, <1>11 DEF Moved
<1>13. JoinPending(p, q) = r
  BY <1>4, <1>5
<1>14. Quietly(l, L)
  BY <1>8, <1>9 DEF Quietly
<1> HIDE DEF r
<1>15. QED
  BY <1>7, <1>8, <1>9, <1>10, <1>12, <1>13, <1>14 DEF v, x, rest, body, f, l

\* A lane with another body on its way.
LEMMA LaneWithFlight ==
    ASSUME NEW k \in LaneType, NEW f \in [bytes : Nat, items : Nat]
    PROVE  [k EXCEPT !.flight = f] \in LaneType
BY DEF LaneType

\* A lane with another queue.
LEMMA LaneWithPending ==
    ASSUME NEW k \in LaneType, NEW w \in Seq(Message)
    PROVE  [k EXCEPT !.pending = w] \in LaneType
BY DEF LaneType

\* A lane that has been taken out of the table.
Ended(k, w, end) ==
    [k EXCEPT !.entry = "gone", !.pending = w, !.timer = FALSE, !.socket = end]

\* Such a lane L of k, field by field.
EndedFrom(k, w, end, L) ==
    /\ L \in LaneType /\ L.entry = "gone" /\ L.pending = w /\ L.bodies = k.bodies
    /\ L.flight = k.flight /\ L.buffered = k.buffered /\ L.bytes = k.bytes
    /\ L.items = k.items /\ L.socket = end /\ L.polling = k.polling
    /\ L.localClosed = k.localClosed /\ L.remoteClosed = k.remoteClosed

\* It keeps its other fields.
LEMMA LaneWithEnd ==
    ASSUME NEW k \in LaneType, NEW w \in Seq(Message), NEW end \in {"none", "closing", "closed"}
    PROVE  EndedFrom(k, w, end, Ended(k, w, end))
BY DEF LaneType, Ended, EndedFrom

\* A lane whose body has been accepted.
LEMMA SentIs ==
    ASSUME NEW p \in PageType, NEW q \in Queues
    PROVE  LET r == BodySent(p, q)
               l == p.lanes[q]
               L == r.lanes[q]
           IN  /\ Moved(p, r, q) /\ L \in LaneType /\ Quietly(l, L)
               /\ r.bytes = p.bytes - l.flight.bytes /\ r.items = p.items - l.flight.items
               /\ L.pending = l.pending /\ L.bodies = l.bodies /\ L.flight = NoBody
               /\ L.bytes = IF PerLane THEN l.bytes - l.flight.bytes ELSE l.bytes
               /\ L.items = IF PerLane THEN l.items - l.flight.items ELSE l.items
               /\ L.buffered = l.buffered
<1> DEFINE l == p.lanes[q]
           b == l.flight.bytes
           i == l.flight.items
           c == Charge(p, q, -b, -i)
           k == c.lanes[q]
           L == [k EXCEPT !.flight = NoBody]
           r == [c EXCEPT !.lanes[q] = L]
<1>1. l \in LaneType /\ b \in Nat /\ i \in Nat /\ p.bytes \in Int /\ p.items \in Int
      /\ l.bytes \in Int /\ l.items \in Int
  BY DEF PageType, LaneType
<1>2. /\ Moved(p, c, q) /\ c.bytes = p.bytes + (-b) /\ c.items = p.items + (-i)
      /\ k = (IF PerLane THEN [l EXCEPT !.bytes = @ + (-b), !.items = @ + (-i)] ELSE l)
      /\ k \in LaneType /\ c \in PageType
  <2> DEFINE x == -b
             y == -i
  <2>1. x \in Int /\ y \in Int
    BY <1>1
  <2> HIDE DEF x, y
  <2>2. LET s == Charge(p, q, x, y)
        IN  /\ Moved(p, s, q) /\ s.bytes = p.bytes + x /\ s.items = p.items + y
            /\ s.lanes[q] = IF PerLane THEN [p.lanes[q] EXCEPT !.bytes = @ + x, !.items = @ + y]
                            ELSE p.lanes[q]
            /\ s.lanes[q] \in LaneType
    BY <2>1, ChargeIs
  <2>3. c \in PageType
    BY <2>2 DEF Moved, x, y
  <2>4. QED
    BY <2>2, <2>3 DEF x, y
<1>3. BodySent(p, q) = [c EXCEPT !.lanes[q].flight = NoBody]
  BY DEF BodySent, Release
<1>4. [c EXCEPT !.lanes[q].flight = NoBody] = r
  <2> HIDE DEF c
  <2>1. QED
    BY <1>2 DEF PageType
<1> HIDE DEF c, k, b, i
<1>5. L \in LaneType
  <2>1. k \in LaneType /\ NoBody \in [bytes : Nat, items : Nat]
    BY <1>2 DEF NoBody
  <2>2. QED
    BY ONLY <2>1, LaneWithFlight
<1>6. /\ L.pending = k.pending /\ L.bodies = k.bodies /\ L.flight = NoBody
      /\ L.bytes = k.bytes /\ L.items = k.items /\ L.buffered = k.buffered /\ Quietly(k, L)
  BY <1>2 DEF LaneType, Quietly
<1>7. /\ k.bytes = (IF PerLane THEN l.bytes - b ELSE l.bytes)
      /\ k.items = (IF PerLane THEN l.items - i ELSE l.items)
      /\ k.buffered = l.buffered /\ k.pending = l.pending /\ k.bodies = l.bodies /\ Quietly(l, k)
  <2> HIDE DEF l
  <2>1. CASE PerLane
    <3>1. k = [l EXCEPT !.bytes = @ + (-b), !.items = @ + (-i)]
      BY <1>2, <2>1
    <3>2. k.bytes = l.bytes + (-b) /\ k.items = l.items + (-i)
      BY <1>1, <3>1 DEF LaneType
    <3>3. k.bytes = l.bytes - b /\ k.items = l.items - i
      BY <1>1, <3>2
    <3>4. k.buffered = l.buffered /\ k.pending = l.pending /\ k.bodies = l.bodies /\ Quietly(l, k)
      BY <1>1, <3>1 DEF LaneType, Quietly
    <3>5. QED
      BY <2>1, <3>3, <3>4
  <2>2. CASE ~PerLane
    BY <1>2, <2>2 DEF Quietly
  <2>3. QED
    BY <2>1, <2>2
<1> HIDE DEF L
<1>8. Moved(c, r, q) /\ r.lanes[q] = L /\ r.bytes = c.bytes /\ r.items = c.items
  BY <1>2, <1>5, LaneSet
<1>9. c.bytes = p.bytes - b /\ c.items = p.items - i
  BY <1>1, <1>2
<1>10. Moved(p, r, q)
  BY <1>2, <1>8 DEF Moved
<1>11. BodySent(p, q) = r
  BY <1>3, <1>4
<1>12. Quietly(l, L)
  BY <1>6, <1>7 DEF Quietly
<1> HIDE DEF r
<1>13. QED
  BY <1>5, <1>6, <1>7, <1>8, <1>9, <1>10, <1>11, <1>12 DEF l, b, i

\* What a socket has still to hand to the network.
Buffer(l) == IF l.socket = "open" THEN l.buffered ELSE 0

\* The loop of queue q has gone on: bodies carry what was queued, and what is
\* no longer queued is no longer charged, but buffered.
Runs(p, r, q) ==
    LET l == p.lanes[q]
        L == r.lanes[q]
    IN  /\ Moved(p, r, q) /\ L \in LaneType /\ Quietly(l, L) /\ Carried(L) = Carried(l)
        /\ LaneOK(l) =>
             /\ LaneOK(L)
             /\ r.bytes + OwedB(l) = p.bytes + OwedB(L)
             /\ r.items + OwedI(l) = p.items + OwedI(L)
             /\ r.bytes + Buffer(L) = p.bytes + Buffer(l)
             /\ l.flight # NoBody => L.flight # NoBody

\* What a lane holds are frames and numbers.
LEMMA LaneHolds ==
    ASSUME NEW l \in LaneType
    PROVE  /\ l.pending \in Seq(Message) /\ l.bodies \in Seq(Body)
           /\ l.bodies \in Seq(Seq(Frames)) /\ l.pending \in Seq(Seq(Frames))
           /\ FlattenSeq(l.bodies) \in Seq(Frames) /\ FlattenSeq(l.pending) \in Seq(Frames)
           /\ Carried(l) \in Seq(Frames)
           /\ Sizes(l.pending) \in Nat /\ Len(l.pending) \in Nat
           /\ l.flight.bytes \in Nat /\ l.flight.items \in Nat
           /\ OwedB(l) \in Nat /\ OwedI(l) \in Nat /\ Buffer(l) \in Nat /\ l.buffered \in Nat
           /\ l.bytes \in Int /\ l.items \in Int
<1>1. /\ l.pending \in Seq(Message) /\ l.bodies \in Seq(Body) /\ l.buffered \in Nat
      /\ l.flight.bytes \in Nat /\ l.flight.items \in Nat /\ l.bytes \in Int /\ l.items \in Int
  BY DEF LaneType
<1>2. l.bodies \in Seq(Seq(Frames))
  <2>1. \A b \in Body : b \in Seq(Frames)
    BY DEF Body
  <2> DEFINE v == l.bodies
  <2>2. Len(v) \in Nat /\ DOMAIN v = 1 .. Len(v) /\ \A k \in 1 .. Len(v) : v[k] \in Seq(Frames)
    BY <1>1, <2>1, LenProperties, ElementOfSeq
  <2>3. v = [k \in 1 .. Len(v) |-> v[k]]
    BY <1>1, LenProperties
  <2> HIDE DEF v
  <2>4. v \in Seq(Seq(Frames))
    BY <2>2, <2>3
  <2>5. QED
    BY <2>4 DEF v
<1>3. l.pending \in Seq(Seq(Frames)) /\ FlattenSeq(l.pending) \in Seq(Frames)
  BY <1>1, FlattenSizes
<1>4. FlattenSeq(l.bodies) \in Seq(Frames)
  BY <1>2, FlattenType
<1>5. Carried(l) \in Seq(Frames)
  BY <1>3, <1>4, ConcatProperties DEF Carried
<1>6. Sizes(l.pending) \in Nat /\ Len(l.pending) \in Nat
  BY <1>1, SizesIs
<1>7. OwedB(l) \in Nat /\ OwedI(l) \in Nat /\ Buffer(l) \in Nat
  <2>1. Sizes(l.pending) + l.flight.bytes \in Nat /\ Len(l.pending) + l.flight.items \in Nat
    BY ONLY <1>1, <1>6
  <2>2. QED
    BY <1>1, <2>1 DEF OwedB, OwedI, Buffer
<1>8. QED
  BY <1>1, <1>2, <1>3, <1>4, <1>5, <1>6, <1>7

\* A body takes from the queue what it carries.
LEMMA JoinedCarries ==
    ASSUME NEW l \in LaneType, l.pending # <<>>, NEW L \in LaneType,
           L.pending = Left(l.pending),
           L.bodies = Append(l.bodies, FlattenSeq(Taken(l.pending)))
    PROVE  Carried(L) = Carried(l)
<1> DEFINE v == l.pending
           a == FlattenSeq(l.bodies)
           b == FlattenSeq(Taken(v))
           c == FlattenSeq(Left(v))
<1>1. v \in Seq(Message) /\ a \in Seq(Frames) /\ l.bodies \in Seq(Seq(Frames))
  BY LaneHolds
<1>2. Left(v) \in Seq(Message) /\ b \in Body /\ FlattenSeq(v) = b \o c
  <2> HIDE DEF v
  <2>1. QED
    BY <1>1, TakenIs DEF v
<1>3. b \in Seq(Frames) /\ c \in Seq(Frames)
  <2>1. b \in Seq(Frames)
    BY <1>2 DEF Body
  <2> DEFINE w == Left(v)
  <2>2. w \in Seq(Message)
    BY <1>2
  <2> HIDE DEF w
  <2>3. FlattenSeq(w) \in Seq(Frames)
    BY <2>2, FlattenSizes
  <2>4. QED
    BY <2>1, <2>3 DEF w
<1>4. FlattenSeq(L.bodies) = a \o b
  <2> HIDE DEF b
  <2>1. QED
    BY <1>1, <1>3, FlattenAppended DEF b
<1> HIDE DEF a, b, c, v
<1>5. (a \o b) \o c = a \o (b \o c)
  <2>1. Joined(Joined(a, b), c) = Joined(a, Joined(b, c))
    BY <1>1, <1>3, Associative
  <2>2. QED
    BY <2>1 DEF Joined
<1>6. QED
  BY <1>2, <1>4, <1>5 DEF Carried, a, b, c, v

\* A loop that does not go on.
LEMMA RunsNot ==
    ASSUME NEW p \in PageType, NEW q \in Queues
    PROVE  Runs(p, p, q)
<1>1. p.lanes[q] \in LaneType
  BY DEF PageType
<1>2. QED
  BY <1>1 DEF Runs, Moved, Quietly

\* runUp and runLaneUp up to the POST.
LEMMA HTTPRuns ==
    ASSUME NEW p \in PageType, NEW q \in Queues
    PROVE  LET r == RunHTTPUp(p, q)
           IN  /\ ~WebSockets => Runs(p, r, q)
               /\ p.token /\ p.lanes[q].pending # <<>> /\ ~p.closed =>
                     r.lanes[q].flight # NoBody
               /\ Moved(p, r, q)
<1> DEFINE l == p.lanes[q]
           v == l.pending
<1>1. CASE l.flight # NoBody \/ p.closed \/ ~p.token \/ v = <<>>
  <2>1. RunHTTPUp(p, q) = p
    BY <1>1 DEF RunHTTPUp
  <2>2. QED
    BY <1>1, <2>1, RunsNot DEF Moved
<1>2. CASE l.flight = NoBody /\ ~p.closed /\ p.token /\ v # <<>>
  <2> DEFINE r == JoinPending(p, q)
             L == r.lanes[q]
             n == Sizes(Taken(v))
             i == Len(Taken(v))
             x == Extra(v)
             rest == Left(v)
  <2>1. RunHTTPUp(p, q) = r
    BY <1>2 DEF RunHTTPUp
  <2>2. /\ Moved(p, r, q) /\ L \in LaneType /\ Quietly(l, L)
        /\ r.bytes = p.bytes /\ r.items = p.items + x
        /\ L.pending = rest /\ L.bodies = Append(l.bodies, FlattenSeq(Taken(v)))
        /\ L.flight = [bytes |-> n, items |-> i]
        /\ L.bytes = l.bytes
        /\ L.items = (IF PerLane THEN l.items + x ELSE l.items)
        /\ L.buffered = l.buffered
    BY <1>2, JoinedIs
  <2>3. l \in LaneType /\ p.bytes \in Int /\ p.items \in Int
    BY DEF PageType
  <2>4. v \in Seq(Message) /\ l.items \in Int /\ Sizes(v) \in Nat /\ Len(v) \in Nat
    BY <2>3, LaneHolds
  <2>5. /\ n \in Nat /\ i \in Nat \ {0} /\ Sizes(rest) \in Nat /\ Len(rest) \in Nat
        /\ Sizes(v) = n + Sizes(rest) /\ Len(v) + x = i + Len(rest) /\ x \in {0, 1}
    <3> HIDE DEF v
    <3>1. QED
      BY <1>2, <2>4, TakenIs
  <2> HIDE DEF r, n, i, x, rest, L
  <2>6. L.flight # NoBody
    BY <2>2, <2>5 DEF NoBody
  <2>7. Carried(L) = Carried(l)
    <3> HIDE DEF l
    <3>1. QED
      BY <1>2, <2>2, <2>3, JoinedCarries DEF rest, v
  <2>8. ASSUME LaneOK(l), ~WebSockets
        PROVE  /\ LaneOK(L)
               /\ r.bytes + OwedB(l) = p.bytes + OwedB(L)
               /\ r.items + OwedI(l) = p.items + OwedI(L)
               /\ r.bytes + Buffer(L) = p.bytes + Buffer(l)
    <3>1. OwedB(l) = Sizes(v) + 0 /\ OwedI(l) = Len(v) + 0
      BY <1>2 DEF OwedB, OwedI, NoBody
    <3>2. OwedB(L) = Sizes(rest) + n /\ OwedI(L) = Len(rest) + i
      BY <2>2 DEF OwedB, OwedI
    <3> HIDE DEF v
    <3>3. OwedB(L) = OwedB(l) /\ OwedI(L) = OwedI(l) + x /\ OwedB(l) \in Nat /\ OwedI(l) \in Nat
      BY ONLY <2>4, <2>5, <3>1, <3>2
    <3>4. r.bytes + OwedB(l) = p.bytes + OwedB(L) /\ r.items + OwedI(l) = p.items + OwedI(L)
      <4>1. x \in Int
        BY <2>5
      <4> HIDE DEF l
      <4>2. QED
        BY ONLY <2>2, <2>3, <3>3, <4>1
    <3>5. Buffer(L) = Buffer(l)
      BY <2>2 DEF Buffer, Quietly
    <3>6. PerLane => L.bytes = OwedB(L) /\ L.items = OwedI(L)
      BY <2>2, <2>8, <3>3 DEF LaneOK
    <3>7. LaneOK(L)
      BY <2>2, <2>8, <3>6 DEF LaneOK, Quietly
    <3>8. QED
      BY <2>2, <3>4, <3>5, <3>7
  <2>9. QED
    BY <2>1, <2>2, <2>6, <2>7, <2>8 DEF Runs, r, L
<1>3. QED
  BY <1>1, <1>2

\* runWebSocketUp and runWebSocketLaneUp.
LEMMA SocketRuns ==
    ASSUME NEW p \in PageType, NEW q \in Queues
    PROVE  Runs(p, RunSocketUp(p, q), q)
<1> DEFINE l == p.lanes[q]
           v == l.pending
           full == \/ l.buffered >= BatchLimit
                   \/ ~PerLane /\ l.buffered + p.bytes > QueueLimit
           stops == p.closed \/ l.entry # "present" \/ l.socket # "open" \/ v = <<>>
<1>1. l \in LaneType /\ p.bytes \in Int /\ p.items \in Int
  BY DEF PageType
<1>2. CASE stops
  <2>1. RunSocketUp(p, q) = p
    BY <1>2 DEF RunSocketUp
  <2>2. QED
    BY <2>1, RunsNot
<1>3. CASE ~stops /\ full
  <2> DEFINE L == [l EXCEPT !.timer = TRUE]
             r == [p EXCEPT !.lanes[q] = L]
  <2>1. RunSocketUp(p, q) = [p EXCEPT !.lanes[q].timer = TRUE]
    BY <1>3 DEF RunSocketUp
  <2>2. [p EXCEPT !.lanes[q].timer = TRUE] = r
    BY DEF PageType
  <2>3. /\ L \in LaneType /\ Quietly(l, L) /\ L.pending = l.pending /\ L.bodies = l.bodies
        /\ L.flight = l.flight /\ L.buffered = l.buffered /\ L.bytes = l.bytes
        /\ L.items = l.items
    <3> HIDE DEF l
    <3>1. QED
      BY <1>1 DEF LaneType, Quietly
  <2> HIDE DEF L
  <2>4. Moved(p, r, q) /\ r.lanes[q] = L /\ r.bytes = p.bytes /\ r.items = p.items
    BY <2>3, LaneSet
  <2>5. Carried(L) = Carried(l) /\ OwedB(L) = OwedB(l) /\ OwedI(L) = OwedI(l)
        /\ Buffer(L) = Buffer(l) /\ (LaneOK(l) => LaneOK(L))
    BY <2>3 DEF Carried, OwedB, OwedI, Buffer, LaneOK, Quietly
  <2> HIDE DEF r
  <2>6. QED
    BY <2>1, <2>2, <2>3, <2>4, <2>5 DEF Runs
<1>4. CASE ~stops /\ ~full
  <2> DEFINE j == JoinPending(p, q)
             J == j.lanes[q]
             s == BodySent(j, q)
             S == s.lanes[q]
             n == Sizes(Taken(v))
             i == Len(Taken(v))
             x == Extra(v)
             rest == Left(v)
             new == S.buffered + J.flight.bytes
             again == S.microtask \/ J.pending # <<>>
             L == [S EXCEPT !.buffered = new, !.microtask = again]
             r == [s EXCEPT !.lanes[q] = L]
  <2>1. RunSocketUp(p, q)
          = [s EXCEPT !.lanes[q].buffered = @ + J.flight.bytes,
                      !.lanes[q].microtask = @ \/ J.pending # <<>>]
    BY <1>4 DEF RunSocketUp
  <2>2. /\ Moved(p, j, q) /\ J \in LaneType /\ Quietly(l, J)
        /\ j.bytes = p.bytes /\ j.items = p.items + x
        /\ J.pending = rest /\ J.bodies = Append(l.bodies, FlattenSeq(Taken(v)))
        /\ J.flight = [bytes |-> n, items |-> i]
        /\ J.bytes = l.bytes
        /\ J.items = (IF PerLane THEN l.items + x ELSE l.items)
        /\ J.buffered = l.buffered
    BY <1>4, JoinedIs
  <2>3. v \in Seq(Message) /\ l.items \in Int /\ Sizes(v) \in Nat /\ Len(v) \in Nat
        /\ l.buffered \in Nat /\ l.bytes \in Int
    BY <1>1, LaneHolds
  <2>4. /\ n \in Nat /\ i \in Nat \ {0} /\ Sizes(rest) \in Nat /\ Len(rest) \in Nat
        /\ Sizes(v) = n + Sizes(rest) /\ Len(v) + x = i + Len(rest) /\ x \in {0, 1}
    <3> HIDE DEF v
    <3>1. QED
      BY <1>4, <2>3, TakenIs
  <2>5. Carried(J) = Carried(l)
    <3> HIDE DEF l, j
    <3>1. QED
      BY <1>1, <1>4, <2>2, JoinedCarries DEF rest, v
  <2> HIDE DEF n, i, x, rest, j
  <2>6. /\ Moved(j, s, q) /\ S \in LaneType /\ Quietly(J, S)
        /\ s.bytes = j.bytes - J.flight.bytes /\ s.items = j.items - J.flight.items
        /\ S.pending = J.pending /\ S.bodies = J.bodies /\ S.flight = NoBody
        /\ S.bytes = (IF PerLane THEN J.bytes - J.flight.bytes ELSE J.bytes)
        /\ S.items = (IF PerLane THEN J.items - J.flight.items ELSE J.items)
        /\ S.buffered = J.buffered
    BY <2>2, SentIs DEF Moved
  <2>7. /\ s.bytes = p.bytes - n /\ s.items = p.items + x - i
        /\ (PerLane => S.bytes = l.bytes - n /\ S.items = l.items + x - i)
        /\ new = l.buffered + n /\ s \in PageType
    <3> HIDE DEF s, J, l
    <3>1. J.flight.bytes = n /\ J.flight.items = i
      BY <2>2
    <3> HIDE DEF S
    <3>2. s.bytes = p.bytes - n /\ s.items = p.items + x - i
      <4>1. s.bytes = j.bytes - J.flight.bytes /\ s.items = j.items - J.flight.items
        BY <2>6
      <4>2. j.bytes = p.bytes /\ j.items = p.items + x
        BY <2>2
      <4>3. QED
        BY <1>1, <2>4, <3>1, <4>1, <4>2
    <3>3. PerLane => S.bytes = l.bytes - n /\ S.items = l.items + x - i
      <4> SUFFICES ASSUME PerLane PROVE S.bytes = l.bytes - n /\ S.items = l.items + x - i
        OBVIOUS
      <4>1. S.bytes = J.bytes - J.flight.bytes /\ S.items = J.items - J.flight.items
        BY <2>6
      <4>2. J.bytes = l.bytes /\ J.items = l.items + x
        BY <2>2
      <4>3. QED
        BY <2>3, <2>4, <3>1, <4>1, <4>2
    <3>4. new = l.buffered + n
      BY <2>2, <2>6, <3>1
    <3>5. s \in PageType
      BY <2>6 DEF Moved
    <3>6. QED
      BY <3>2, <3>3, <3>4, <3>5
  <2> HIDE DEF s, J, l
  <2>8. [s EXCEPT !.lanes[q].buffered = @ + J.flight.bytes,
                  !.lanes[q].microtask = @ \/ J.pending # <<>>] = r
    BY <2>7 DEF PageType
  <2> HIDE DEF S
  <2>9. new \in Nat /\ again \in BOOLEAN
    <3>1. new \in Nat
      BY <2>3, <2>4, <2>7
    <3>2. S.microtask \in BOOLEAN
      BY <2>6 DEF LaneType
    <3>3. QED
      BY <3>1, <3>2
  <2> HIDE DEF new, again
  <2>10. L \in LaneType
    BY <2>6, <2>9 DEF LaneType
  <2>11. /\ Quietly(S, L) /\ L.pending = S.pending /\ L.bodies = S.bodies /\ L.flight = S.flight
         /\ L.bytes = S.bytes /\ L.items = S.items /\ L.buffered = new
    BY <2>6 DEF LaneType, Quietly
  <2> HIDE DEF L
  <2>12. Moved(s, r, q) /\ r.lanes[q] = L /\ r.bytes = s.bytes /\ r.items = s.items
    BY <2>7, <2>10, LaneSet DEF S
  <2> HIDE DEF r
  <2>13. Moved(p, r, q)
    BY <2>2, <2>6, <2>12 DEF Moved
  <2>14. Quietly(l, L) /\ Carried(L) = Carried(l)
    BY <2>2, <2>5, <2>6, <2>11 DEF Quietly, Carried
  <2>15. ASSUME LaneOK(l)
         PROVE  /\ LaneOK(L)
                /\ r.bytes + OwedB(l) = p.bytes + OwedB(L)
                /\ r.items + OwedI(l) = p.items + OwedI(L)
                /\ r.bytes + Buffer(L) = p.bytes + Buffer(l)
                /\ l.flight = NoBody
    <3>1. l.socket = "open" /\ L.socket = "open"
      BY <1>4, <2>14 DEF Quietly, l
    <3>2. WebSockets /\ l.flight = NoBody /\ ~l.polling
      BY <2>15, <3>1 DEF LaneOK
    <3>3. OwedB(l) = Sizes(v) + 0 /\ OwedI(l) = Len(v) + 0
      BY <3>2 DEF OwedB, OwedI, NoBody
    <3>4. OwedB(L) = Sizes(rest) + 0 /\ OwedI(L) = Len(rest) + 0
      BY <2>2, <2>6, <2>11 DEF OwedB, OwedI, NoBody
    <3> HIDE DEF v
    <3>5. OwedB(l) = OwedB(L) + n /\ OwedI(l) + x = OwedI(L) + i
          /\ OwedB(L) \in Nat /\ OwedI(L) \in Nat /\ OwedI(l) \in Nat
      BY ONLY <2>3, <2>4, <3>3, <3>4
    <3>6. r.bytes = p.bytes - n /\ r.items = p.items + x - i
      BY <2>7, <2>12
    <3>7. n \in Int /\ x \in Int /\ i \in Int
      BY <2>4
    <3>8. p.bytes \in Int /\ p.items \in Int
      BY <1>1
    <3>9. r.bytes + OwedB(l) = p.bytes + OwedB(L)
      BY ONLY <3>5, <3>6, <3>7, <3>8
    <3>10. r.items + OwedI(l) = p.items + OwedI(L)
      BY ONLY <3>5, <3>6, <3>7, <3>8
    <3>11. Buffer(L) = l.buffered + n /\ Buffer(l) = l.buffered
      BY <2>7, <2>11, <3>1 DEF Buffer
    <3>12. r.bytes + Buffer(L) = p.bytes + Buffer(l)
      BY ONLY <2>3, <3>6, <3>7, <3>8, <3>11
    <3>13. ASSUME PerLane PROVE L.bytes = OwedB(L) /\ L.items = OwedI(L)
      <4>1. l.bytes = OwedB(l) /\ l.items = OwedI(l)
        BY <2>15, <3>13 DEF LaneOK
      <4>2. L.bytes = l.bytes - n /\ L.items = l.items + x - i
        BY <2>7, <2>11, <3>13
      <4>3. QED
        BY ONLY <3>5, <3>7, <4>1, <4>2
    <3>14. LaneOK(L)
      BY <2>6, <2>11, <2>14, <2>15, <3>1, <3>2, <3>13 DEF LaneOK, Quietly
    <3>15. QED
      BY <3>2, <3>9, <3>10, <3>12, <3>14
  <2>16. RunSocketUp(p, q) = r
    BY <2>1, <2>8
  <2>17. Runs(p, r, q)
    BY <2>10, <2>12, <2>13, <2>14, <2>15 DEF Runs, l
  <2>18. QED
    BY <2>16, <2>17
<1>5. QED
  BY <1>2, <1>3, <1>4

--------------------------------------------------------------------------------
(* The page's sums.                                                        *)

Buffers(p) == [q \in Queues |-> IF p.lanes[q].socket = "open" THEN p.lanes[q].buffered ELSE 0]

\* A sum over the lanes changes by what the lane that moved has changed.
LEMMA TotalsMoved ==
    ASSUME NEW p \in PageType, NEW r, NEW q \in Queues, Moved(p, r, q)
    PROVE  /\ Total(Queues, OwedBytes(r))
                = Total(Queues, OwedBytes(p)) - OwedB(p.lanes[q]) + OwedB(r.lanes[q])
           /\ Total(Queues, OwedItems(r))
                = Total(Queues, OwedItems(p)) - OwedI(p.lanes[q]) + OwedI(r.lanes[q])
           /\ BufferedBytes(r) = BufferedBytes(p) - Buffer(p.lanes[q]) + Buffer(r.lanes[q])
           /\ Total(Queues, OwedBytes(p)) \in Nat /\ Total(Queues, OwedItems(p)) \in Nat
           /\ BufferedBytes(p) \in Nat
           /\ p.lanes[q] \in LaneType /\ r.lanes[q] \in LaneType
<1> DEFINE f == OwedBytes(p)
           g == OwedBytes(r)
           h == OwedItems(p)
           k == OwedItems(r)
           u == Buffers(p)
           w == Buffers(r)
<1>1. IsFiniteSet(Queues)
  BY PageLimits
<1>2. r \in PageType /\ \A z \in Queues : p.lanes[z] \in LaneType /\ r.lanes[z] \in LaneType
  BY DEF Moved, PageType
<1>3. /\ \A z \in Queues : f[z] = OwedB(p.lanes[z]) /\ g[z] = OwedB(r.lanes[z])
      /\ \A z \in Queues : h[z] = OwedI(p.lanes[z]) /\ k[z] = OwedI(r.lanes[z])
      /\ \A z \in Queues : u[z] = Buffer(p.lanes[z]) /\ w[z] = Buffer(r.lanes[z])
  BY DEF OwedBytes, OwedItems, Buffers, OwedB, OwedI, Buffer
<1>4. /\ \A z \in Queues : OwedB(p.lanes[z]) \in Nat /\ OwedB(r.lanes[z]) \in Nat
      /\ \A z \in Queues : OwedI(p.lanes[z]) \in Nat /\ OwedI(r.lanes[z]) \in Nat
      /\ \A z \in Queues : Buffer(p.lanes[z]) \in Nat /\ Buffer(r.lanes[z]) \in Nat
  BY <1>2, LaneHolds
<1>5. \A z \in Queues \ {q} : r.lanes[z] = p.lanes[z]
  BY DEF Moved
<1> HIDE DEF f, g, h, k, u, w
<1>6. Total(Queues, g) = Total(Queues, f) - f[q] + g[q] /\ Total(Queues, f) \in Nat
  <2>1. Charged(Queues, f) /\ g[q] \in Nat /\ \A z \in Queues \ {q} : g[z] = f[z]
    BY <1>1, <1>3, <1>4, <1>5 DEF Charged
  <2>2. Total(Queues, g) = Total(Queues, f) - f[q] + g[q]
    BY <2>1, TotalChange
  <2>3. Total(Queues, f) \in Nat
    BY <2>1, TotalType
  <2>4. QED
    BY <2>2, <2>3
<1>7. Total(Queues, k) = Total(Queues, h) - h[q] + k[q] /\ Total(Queues, h) \in Nat
  <2>1. Charged(Queues, h) /\ k[q] \in Nat /\ \A z \in Queues \ {q} : k[z] = h[z]
    BY <1>1, <1>3, <1>4, <1>5 DEF Charged
  <2>2. Total(Queues, k) = Total(Queues, h) - h[q] + k[q]
    BY <2>1, TotalChange
  <2>3. Total(Queues, h) \in Nat
    BY <2>1, TotalType
  <2>4. QED
    BY <2>2, <2>3
<1>8. Total(Queues, w) = Total(Queues, u) - u[q] + w[q] /\ Total(Queues, u) \in Nat
  <2>1. Charged(Queues, u) /\ w[q] \in Nat /\ \A z \in Queues \ {q} : w[z] = u[z]
    BY <1>1, <1>3, <1>4, <1>5 DEF Charged
  <2>2. Total(Queues, w) = Total(Queues, u) - u[q] + w[q]
    BY <2>1, TotalChange
  <2>3. Total(Queues, u) \in Nat
    BY <2>1, TotalType
  <2>4. QED
    BY <2>2, <2>3
<1>9. BufferedBytes(p) = Total(Queues, u) /\ BufferedBytes(r) = Total(Queues, w)
  BY DEF BufferedBytes, Buffers, u, w
<1>10. QED
  BY <1>2, <1>3, <1>6, <1>7, <1>8, <1>9 DEF f, g, h, k

\* The page stays charged with what it owes when its charge follows the lane's.
LEMMA ChargedMoved ==
    ASSUME NEW p \in PageType, NEW r, NEW q \in Queues, Moved(p, r, q),
           NEW b \in Int, NEW i \in Int, NEW c \in Int, NEW j \in Int, PageCharged(p, b, i),
           r.bytes + OwedB(p.lanes[q]) + b = p.bytes + OwedB(r.lanes[q]) + c,
           r.items + OwedI(p.lanes[q]) + i = p.items + OwedI(r.lanes[q]) + j,
           \/ r.bytes + Buffer(r.lanes[q]) <= p.bytes + Buffer(p.lanes[q])
           \/ r.bytes + BufferedBytes(r) <= QueueLimit
    PROVE  PageCharged(r, c, j)
<1> DEFINE B == Total(Queues, OwedBytes(p))
           I == Total(Queues, OwedItems(p))
           U == BufferedBytes(p)
           W == BufferedBytes(r)
           l == p.lanes[q]
           L == r.lanes[q]
<1>1. l \in LaneType /\ L \in LaneType /\ B \in Nat /\ I \in Nat /\ U \in Nat
  BY TotalsMoved
<1>2. /\ Total(Queues, OwedBytes(r)) = B - OwedB(l) + OwedB(L)
      /\ Total(Queues, OwedItems(r)) = I - OwedI(l) + OwedI(L)
      /\ W = U - Buffer(l) + Buffer(L)
  BY TotalsMoved
<1>3. p.bytes \in Int /\ p.items \in Int /\ r.bytes \in Int /\ r.items \in Int
  BY DEF Moved, PageType
<1>4. /\ OwedB(l) \in Nat /\ OwedB(L) \in Nat /\ OwedI(l) \in Nat /\ OwedI(L) \in Nat
      /\ Buffer(l) \in Nat /\ Buffer(L) \in Nat
  BY <1>1, LaneHolds
<1>5. p.bytes = B + b /\ p.items = I + i /\ p.bytes + U <= QueueLimit
  BY DEF PageCharged
<1>6. /\ r.bytes + OwedB(l) + b = p.bytes + OwedB(L) + c
      /\ r.items + OwedI(l) + i = p.items + OwedI(L) + j
      /\ r.bytes + Buffer(L) <= p.bytes + Buffer(l) \/ r.bytes + W <= QueueLimit
  OBVIOUS
<1>7. QueueLimit \in Nat
  BY PageLimits
<1> HIDE DEF B, I, U, W, l, L
<1>8. r.bytes = Total(Queues, OwedBytes(r)) + c
  BY ONLY <1>1, <1>2, <1>3, <1>4, <1>5, <1>6, b \in Int, c \in Int
<1>9. r.items = Total(Queues, OwedItems(r)) + j
  <2>1. Total(Queues, OwedItems(r)) = I - OwedI(l) + OwedI(L) /\ p.items = I + i
        /\ r.items + OwedI(l) + i = p.items + OwedI(L) + j
    BY <1>2, <1>5, <1>6
  <2>2. QED
    BY ONLY <1>1, <1>3, <1>4, <2>1, i \in Int, j \in Int
<1>10. r.bytes + W <= QueueLimit
  BY ONLY <1>1, <1>2, <1>3, <1>4, <1>5, <1>6, <1>7
<1>11. QED
  BY <1>8, <1>9, <1>10 DEF PageCharged, W

\* A loop that goes on leaves the page charged with what it owes.
LEMMA RunsCharged ==
    ASSUME NEW p \in PageType, NEW r, NEW q \in Queues, Runs(p, r, q), LaneOK(p.lanes[q]),
           NEW b \in Int, NEW i \in Int, PageCharged(p, b, i)
    PROVE  PageCharged(r, b, i)
<1>1. /\ Moved(p, r, q)
      /\ r.bytes + OwedB(p.lanes[q]) = p.bytes + OwedB(r.lanes[q])
      /\ r.items + OwedI(p.lanes[q]) = p.items + OwedI(r.lanes[q])
      /\ r.bytes + Buffer(r.lanes[q]) = p.bytes + Buffer(p.lanes[q])
  BY DEF Runs
<1>2. p.lanes[q] \in LaneType /\ r.lanes[q] \in LaneType
  BY <1>1, TotalsMoved
<1>3. p.bytes \in Int /\ p.items \in Int /\ r.bytes \in Int /\ r.items \in Int
  BY <1>1 DEF Moved, PageType
<1>4. /\ OwedB(p.lanes[q]) \in Nat /\ OwedB(r.lanes[q]) \in Nat
      /\ OwedI(p.lanes[q]) \in Nat /\ OwedI(r.lanes[q]) \in Nat
      /\ Buffer(p.lanes[q]) \in Nat /\ Buffer(r.lanes[q]) \in Nat
  BY <1>2, LaneHolds
<1>5. /\ r.bytes + OwedB(p.lanes[q]) + b = p.bytes + OwedB(r.lanes[q]) + b
      /\ r.items + OwedI(p.lanes[q]) + i = p.items + OwedI(r.lanes[q]) + i
      /\ r.bytes + Buffer(r.lanes[q]) <= p.bytes + Buffer(p.lanes[q])
  BY <1>1, <1>3, <1>4
<1>6. QED
  BY <1>1, <1>5, ChargedMoved

--------------------------------------------------------------------------------
(* A message or a frame enters a queue.                                    *)

\* What no operator on queues changes.
Same(p, r) ==
    /\ r \in PageType
    /\ r.stage = p.stage /\ r.token = p.token /\ r.pending = p.pending /\ r.told = p.told
    /\ p.closed => r.closed

\* close and fail leave a closed page.
LEMMA CloseIs ==
    ASSUME NEW p \in PageType
    PROVE  Same(p, Close(p)) /\ Close(p).closed
<1>1. CASE p.closed
  BY <1>1 DEF Close, Same
<1>2. CASE ~p.closed
  <2> DEFINE lanes == [q \in Queues |-> IF p.lanes[q].entry = "present" THEN Shut(p.lanes[q])
                                        ELSE p.lanes[q]]
             gone == p.deleted \/ p.token
  <2>1. ASSUME NEW q \in Queues PROVE lanes[q] \in LaneType
    <3> DEFINE l == p.lanes[q]
    <3>1. l \in LaneType
      BY DEF PageType
    <3> HIDE DEF l
    <3>2. Shut(l) \in LaneType
      BY <3>1 DEF Shut, LaneType
    <3>3. QED
      BY <3>1, <3>2 DEF l
  <2>2. lanes \in [Queues -> LaneType]
    BY <2>1
  <2>3. gone \in BOOLEAN
    BY DEF PageType
  <2>4. Close(p) = [p EXCEPT !.closed = TRUE, !.deleted = gone, !.lanes = lanes]
    BY <1>2 DEF Close
  <2> HIDE DEF lanes, gone
  <2>5. QED
    BY <2>2, <2>3, <2>4 DEF Same, PageType
<1>3. QED
  BY <1>1, <1>2 DEF PageType

\* The frames m have entered the queue q and are charged.
Queued(p, r, q, m) ==
    LET l == p.lanes[q]
        L == r.lanes[q]
    IN  /\ Moved(p, r, q) /\ L \in LaneType /\ Quietly(l, L) /\ Carried(L) = Carried(l) \o m
        /\ LaneOK(l) => LaneOK(L) /\ (l.flight # NoBody => L.flight # NoBody)
        /\ LaneOK(l) => \A b, i \in Int : PageCharged(p, b, i) => PageCharged(r, b, i)

\* reserve and the push behind it.
Added(p, q, m) ==
    [Charge(p, q, Size(m), 1) EXCEPT !.lanes[q].pending = Append(@, m)]

\* An item is charged to the page and to its lane, and queued.
LEMMA AddedIs ==
    ASSUME NEW p \in PageType, NEW q \in Queues, NEW m \in Message, HasRoom(p, Size(m))
    PROVE  Queued(p, Added(p, q, m), q, m) /\ Added(p, q, m).lanes[q].pending # <<>>
<1> DEFINE l == p.lanes[q]
           n == Size(m)
           c == Charge(p, q, n, 1)
           k == c.lanes[q]
           v == l.pending
           w == Append(k.pending, m)
           L == [k EXCEPT !.pending = w]
           r == [c EXCEPT !.lanes[q] = L]
<1>1. l \in LaneType /\ p.bytes \in Int /\ p.items \in Int
  BY DEF PageType
<1>2. v \in Seq(Message) /\ Sizes(v) \in Nat /\ Len(v) \in Nat /\ l.bytes \in Int /\ l.items \in Int
      /\ l.flight.bytes \in Nat /\ l.flight.items \in Nat
      /\ FlattenSeq(l.bodies) \in Seq(Frames) /\ FlattenSeq(v) \in Seq(Frames)
      /\ v \in Seq(Seq(Frames))
  BY <1>1, LaneHolds
<1>3. n \in Nat /\ m \in Seq(Frames)
  BY SizeIs DEF Message
<1>4. /\ Moved(p, c, q) /\ c.bytes = p.bytes + n /\ c.items = p.items + 1
      /\ k = (IF PerLane THEN [l EXCEPT !.bytes = @ + n, !.items = @ + 1] ELSE l)
      /\ k \in LaneType
  <2> HIDE DEF n
  <2>1. n \in Int /\ 1 \in Int
    BY <1>3
  <2>2. QED
    BY <2>1, ChargeIs
<1>5. c \in PageType
  BY <1>4 DEF Moved
<1>6. Added(p, q, m) = [c EXCEPT !.lanes[q].pending = Append(@, m)]
  BY DEF Added
<1> HIDE DEF n, c
<1>7. [c EXCEPT !.lanes[q].pending = Append(@, m)] = r
  BY <1>5 DEF PageType
<1> HIDE DEF k
<1>8. /\ k.pending = v /\ Quietly(l, k) /\ k.bodies = l.bodies /\ k.flight = l.flight
      /\ k.buffered = l.buffered
      /\ PerLane => k.bytes = l.bytes + n /\ k.items = l.items + 1
  <2> HIDE DEF l
  <2>1. CASE PerLane
    BY <1>1, <1>4, <2>1 DEF LaneType, Quietly, v
  <2>2. CASE ~PerLane
    BY <1>4, <2>2 DEF Quietly, v
  <2>3. QED
    BY <2>1, <2>2
<1>9. w \in Seq(Message) /\ Len(w) = Len(v) + 1 /\ Sizes(w) = Sizes(v) + n /\ w # <<>>
  <2>1. w = Append(v, m)
    BY <1>8
  <2> HIDE DEF v, w
  <2>2. w \in Seq(Message) /\ Len(w) = Len(v) + 1 /\ Sizes(w) = Sizes(v) + n
    BY <1>2, <2>1, SizesAppended DEF n
  <2>3. Len(w) # 0
    BY <1>2, <2>2
  <2>4. QED
    BY <2>2, <2>3, EmptySeq
<1>10. FlattenSeq(w) = FlattenSeq(v) \o m
  BY <1>2, <1>3, <1>8, FlattenAppended
<1> HIDE DEF w
<1>11. L \in LaneType
  BY ONLY <1>4, <1>9, LaneWithPending
<1>12. /\ Quietly(k, L) /\ L.pending = w /\ L.bodies = k.bodies /\ L.flight = k.flight
       /\ L.buffered = k.buffered /\ L.bytes = k.bytes /\ L.items = k.items
  BY <1>4 DEF LaneType, Quietly
<1> HIDE DEF L
<1>13. Moved(c, r, q) /\ r.lanes[q] = L /\ r.bytes = c.bytes /\ r.items = c.items
  BY <1>5, <1>11, LaneSet
<1>14. Moved(p, r, q)
  BY <1>4, <1>13 DEF Moved
<1>15. Quietly(l, L) /\ L.bodies = l.bodies /\ L.flight = l.flight /\ L.buffered = l.buffered
  BY <1>8, <1>12 DEF Quietly
<1>16. Carried(L) = Carried(l) \o m
  <2> DEFINE a == FlattenSeq(l.bodies)
             b == FlattenSeq(v)
  <2>1. Carried(L) = a \o (b \o m) /\ Carried(l) = a \o b
    BY <1>10, <1>12, <1>15 DEF Carried
  <2>2. a \in Seq(Frames) /\ b \in Seq(Frames)
    BY <1>2
  <2> HIDE DEF a, b
  <2>3. (a \o b) \o m = a \o (b \o m)
    <3>1. Joined(Joined(a, b), m) = Joined(a, Joined(b, m))
      BY <1>3, <2>2, Associative
    <3>2. QED
      BY <3>1 DEF Joined
  <2>4. QED
    BY <2>1, <2>3
<1>17. OwedB(L) = OwedB(l) + n /\ OwedI(L) = OwedI(l) + 1 /\ OwedB(l) \in Nat /\ OwedI(l) \in Nat
  <2>1. OwedB(L) = Sizes(w) + l.flight.bytes /\ OwedI(L) = Len(w) + l.flight.items
    BY <1>12, <1>15 DEF OwedB, OwedI
  <2>2. OwedB(l) = Sizes(v) + l.flight.bytes /\ OwedI(l) = Len(v) + l.flight.items
    BY DEF OwedB, OwedI
  <2> HIDE DEF v, l
  <2>3. /\ Sizes(v) \in Nat /\ Len(v) \in Nat /\ l.flight.bytes \in Nat /\ l.flight.items \in Nat
        /\ n \in Nat /\ Len(w) = Len(v) + 1 /\ Sizes(w) = Sizes(v) + n
    BY <1>2, <1>3, <1>9
  <2>4. OwedB(L) = OwedB(l) + n /\ OwedB(l) \in Nat
    BY ONLY <2>1, <2>2, <2>3
  <2>5. OwedI(L) = OwedI(l) + 1 /\ OwedI(l) \in Nat
    <3> DEFINE x == Len(v)
               y == l.flight.items
               z == Len(w)
    <3>1. OwedI(L) = z + y /\ OwedI(l) = x + y /\ x \in Nat /\ y \in Nat /\ z = x + 1
      BY <2>1, <2>2, <2>3
    <3> HIDE DEF x, y, z
    <3>2. QED
      BY ONLY <3>1
  <2>6. QED
    BY <2>4, <2>5
<1>18. ASSUME LaneOK(l) PROVE LaneOK(L)
  <2>1. PerLane => L.bytes = OwedB(L) /\ L.items = OwedI(L)
    BY <1>8, <1>12, <1>17, <1>18 DEF LaneOK
  <2>2. QED
    BY <1>15, <1>18, <2>1 DEF LaneOK, Quietly
<1>19. ASSUME NEW b \in Int, NEW i \in Int, PageCharged(p, b, i)
       PROVE  PageCharged(r, b, i)
  <2>1. r.bytes = p.bytes + n /\ r.items = p.items + 1
    BY <1>4, <1>13
  <2>2. Buffer(L) = Buffer(l)
    BY <1>15 DEF Buffer, Quietly
  <2>3. BufferedBytes(r) = BufferedBytes(p) /\ BufferedBytes(p) \in Nat
    <3>1. BufferedBytes(r) = BufferedBytes(p) - Buffer(l) + Buffer(L) /\ BufferedBytes(p) \in Nat
      <4>1. BufferedBytes(r) = BufferedBytes(p) - Buffer(p.lanes[q]) + Buffer(r.lanes[q])
            /\ BufferedBytes(p) \in Nat
        <5> HIDE DEF r
        <5>1. QED
          BY <1>14, TotalsMoved
      <4> HIDE DEF r
      <4>2. QED
        BY <1>13, <4>1
    <3>2. Buffer(l) \in Nat
      BY <1>1, LaneHolds
    <3>3. QED
      BY <2>2, <3>1, <3>2
  <2>4. p.bytes + BufferedBytes(p) <= QueueLimit - n /\ QueueLimit \in Nat
    BY PageLimits DEF HasRoom, n
  <2> HIDE DEF l, r
  <2>5. r.bytes + BufferedBytes(r) <= QueueLimit
    BY <1>1, <1>3, <2>1, <2>3, <2>4
  <2>6. /\ r.bytes + OwedB(l) + b = p.bytes + OwedB(L) + b
        /\ r.items + OwedI(l) + i = p.items + OwedI(L) + i
    <3>1. r.bytes + OwedB(l) + b = p.bytes + OwedB(L) + b
      BY ONLY <1>1, <1>3, <1>17, <2>1, b \in Int
    <3>2. r.items + OwedI(l) + i = p.items + OwedI(L) + i
      <4>1. r.items = p.items + 1 /\ OwedI(L) = OwedI(l) + 1 /\ OwedI(l) \in Int /\ p.items \in Int
        BY <1>1, <1>17, <2>1
      <4>2. QED
        BY ONLY <4>1, i \in Int
    <3>3. QED
      BY <3>1, <3>2
  <2>7. QED
    BY <1>13, <1>14, <1>19, <2>5, <2>6, ChargedMoved DEF l
<1>20. Added(p, q, m) = r
  BY <1>6, <1>7
<1> HIDE DEF r
<1>21. QED
  BY <1>9, <1>11, <1>12, <1>13, <1>14, <1>15, <1>16, <1>18, <1>19, <1>20 DEF Queued, l

\* What is added to a queue stays queued or goes into a body.
LEMMA QueuedRuns ==
    ASSUME NEW p \in PageType, NEW q \in Queues, NEW m, NEW a, NEW r,
           Queued(p, a, q, m), Runs(a, r, q)
    PROVE  Queued(p, r, q, m)
<1> DEFINE l == p.lanes[q]
           A == a.lanes[q]
           L == r.lanes[q]
<1>1. /\ Moved(p, a, q) /\ A \in LaneType /\ Quietly(l, A) /\ Carried(A) = Carried(l) \o m
      /\ LaneOK(l) => LaneOK(A) /\ (l.flight # NoBody => A.flight # NoBody)
      /\ LaneOK(l) => \A b, i \in Int : PageCharged(p, b, i) => PageCharged(a, b, i)
  BY DEF Queued
<1>2. /\ Moved(a, r, q) /\ L \in LaneType /\ Quietly(A, L) /\ Carried(L) = Carried(A)
      /\ LaneOK(A) => LaneOK(L) /\ (A.flight # NoBody => L.flight # NoBody)
  BY DEF Runs
<1>3. a \in PageType
  BY <1>1 DEF Moved
<1>4. ASSUME LaneOK(A), NEW b \in Int, NEW i \in Int, PageCharged(a, b, i)
      PROVE  PageCharged(r, b, i)
  <2> HIDE DEF A
  <2>1. LaneOK(a.lanes[q])
    BY <1>4 DEF A
  <2>2. QED
    BY <1>3, <1>4, <2>1, RunsCharged
<1>5. Moved(p, r, q)
  BY <1>1, <1>2 DEF Moved
<1>6. Quietly(l, L)
  BY <1>1, <1>2 DEF Quietly
<1> HIDE DEF A
<1>7. LaneOK(l) => \A b, i \in Int : PageCharged(p, b, i) => PageCharged(r, b, i)
  BY <1>1, <1>4
<1>8. QED
  BY <1>1, <1>2, <1>5, <1>6, <1>7 DEF Queued

\* What queueUp and its like make of an open page: they queue the item, or fail.
LEMMA QueueItemIs ==
    ASSUME NEW p \in PageType, NEW q \in Queues, NEW m \in Message
    PROVE  LET r == QueueItem(p, q, m)
           IN  \/ Same(p, r) /\ r.closed
               \/ /\ Queued(p, r, q, m)
                  /\ ~WebSockets /\ p.token /\ ~p.closed => r.lanes[q].flight # NoBody
<1>1. CASE HasRoom(p, Size(m)) /\ LaneHasRoom(p, q, Size(m))
  <2> DEFINE a == Added(p, q, m)
             r == RunUp(a, q)
  <2>1. QueueItem(p, q, m) = r
    BY <1>1 DEF QueueItem, Added
  <2> HIDE DEF a
  <2>2. Queued(p, a, q, m) /\ a.lanes[q].pending # <<>>
    BY <1>1, AddedIs DEF a
  <2>3. Moved(p, a, q)
    BY <2>2 DEF Queued
  <2>4. a \in PageType /\ a.token = p.token /\ a.closed = p.closed
    BY <2>3 DEF Moved
  <2>5. Runs(a, r, q)
    <3>1. CASE WebSockets
      BY <2>4, <3>1, SocketRuns DEF RunUp
    <3>2. CASE ~WebSockets
      <4>1. Runs(a, RunHTTPUp(a, q), q)
        BY <2>4, <3>2, HTTPRuns
      <4>2. QED
        BY <3>2, <4>1 DEF RunUp
    <3>3. QED
      BY <3>1, <3>2
  <2>6. ~WebSockets /\ p.token /\ ~p.closed => r.lanes[q].flight # NoBody
    <3>1. SUFFICES ASSUME ~WebSockets, p.token, ~p.closed
                   PROVE  RunHTTPUp(a, q).lanes[q].flight # NoBody
      BY DEF RunUp
    <3>2. QED
      BY <2>2, <2>4, <3>1, HTTPRuns
  <2> HIDE DEF r
  <2>7. Queued(p, r, q, m)
    BY <2>2, <2>5, QueuedRuns
  <2>8. QED
    BY <2>1, <2>6, <2>7
<1>2. CASE ~(HasRoom(p, Size(m)) /\ LaneHasRoom(p, q, Size(m)))
  <2>1. QueueItem(p, q, m) = Close(p)
    BY <1>2 DEF QueueItem, Fail
  <2>2. QED
    BY <2>1, CloseIs
<1>3. QED
  BY <1>1, <1>2

--------------------------------------------------------------------------------
(* A page in order, and the frames that have been handed to its queues.    *)

\* A lane, and what it says of the page.
LaneGood(p, l, q) ==
    /\ LaneOK(l) /\ Awake(l)
    /\ l.socket # "none" => p.token
    /\ q = 0 /\ ~PerLane /\ p.stage \in {"new", "creating", "welcome"} => l.socket = "none"
    /\ q = 0 /\ ~WebSockets => l.entry # "gone"

\* An open page whose messages in `pending` are b bytes and i items.
InOrder(p, b, i) ==
    /\ p.stage \in {"welcome", "opening", "up"} => p.token
    /\ \A q \in Queues : LaneGood(p, p.lanes[q], q)
    /\ PageCharged(p, b, i)

\* A queue that was given the frames s.
Feeds(l, s) ==
    /\ l.entry = "absent" => s = <<>> /\ Carried(l) = <<>>
    /\ l.entry = "present" => Carried(l) = s
    /\ l.entry = "gone" => IsPrefix(Carried(l), s)
    /\ l.localClosed => HasClose(s)

\* A lane that is gone was told to the app, or ended by it.
Ends(l, s, t) == l.entry = "gone" /\ t = 0 => HasClose(s)

Follows(p, fed) ==
    /\ \A q \in Queues : Feeds(p.lanes[q], fed[q])
    /\ \A id \in StreamIDs : Ends(p.lanes[id], fed[id], p.told[id])

\* A lane that has left does not come back while the page is open, and what the
\* relay has said of a lane stays.
Grows(p, r) ==
    /\ Same(p, r)
    /\ ~r.closed => \A q \in Queues :
         /\ r.lanes[q].remoteClosed = p.lanes[q].remoteClosed
         /\ p.lanes[q].entry = "gone" => r.lanes[q].entry = "gone"

\* A stream that has a lane of its own begins with an OPEN.
Starts(fed) == PerLane => \A id \in StreamIDs : Begun(fed[id])

\* What the step from p to r does to an open page whose queues get more frames.
Feeding(p, r, b, i, c, j, fed, more) ==
    /\ Grows(p, r)
    /\ ~r.closed /\ InOrder(p, b, i) =>
         /\ InOrder(r, c, j)
         /\ Follows(p, fed) /\ Starts(more) => Follows(r, more)

\* Two steps.
LEMMA FeedingTwice ==
    ASSUME NEW p, NEW a, NEW r, NEW b, NEW i, NEW c, NEW j, NEW d, NEW k,
           NEW fed, NEW more, NEW most,
           Feeding(p, a, b, i, c, j, fed, more), Feeding(a, r, c, j, d, k, more, most),
           Starts(most) => Starts(more)
    PROVE  Feeding(p, r, b, i, d, k, fed, most)
<1>1. Same(p, r) /\ (~r.closed => ~a.closed)
  BY DEF Feeding, Grows, Same
<1>2. Grows(p, r)
  BY <1>1 DEF Feeding, Grows
<1>3. QED
  BY <1>1, <1>2 DEF Feeding

\* A page that fails has nothing to keep in order.
LEMMA FeedingFails ==
    ASSUME NEW p, NEW r, NEW b, NEW i, NEW c, NEW j, NEW fed, NEW more,
           Same(p, r), r.closed
    PROVE  Feeding(p, r, b, i, c, j, fed, more)
BY DEF Feeding, Grows

\* One lane has changed, and its queue may have got more frames.
LEMMA FeedingMoved ==
    ASSUME NEW p \in PageType, NEW r, NEW q \in Queues, Moved(p, r, q),
           NEW b, NEW i, NEW c, NEW j, NEW fed, NEW more,
           \A z \in Queues \ {q} : more[z] = fed[z],
           r.lanes[q].remoteClosed = p.lanes[q].remoteClosed,
           p.lanes[q].entry = "gone" => r.lanes[q].entry = "gone",
           ~r.closed /\ InOrder(p, b, i) =>
              /\ LaneGood(p, r.lanes[q], q) /\ PageCharged(r, c, j)
              /\ Feeds(p.lanes[q], fed[q]) => Feeds(r.lanes[q], more[q])
              /\ Feeds(p.lanes[q], fed[q]) /\ q \in StreamIDs
                   /\ Ends(p.lanes[q], fed[q], p.told[q]) => Ends(r.lanes[q], more[q], p.told[q])
    PROVE  Feeding(p, r, b, i, c, j, fed, more)
<1>1. Grows(p, r)
  BY DEF Grows, Same, Moved
<1>2. StreamIDs \subseteq Queues
  BY DEF Queues
<1>3. ASSUME ~r.closed, InOrder(p, b, i) PROVE InOrder(r, c, j)
  <2>1. \A z \in Queues : LaneGood(r, r.lanes[z], z)
    BY <1>3 DEF InOrder, LaneGood, Moved
  <2>2. QED
    BY <1>3, <2>1 DEF InOrder, Moved
<1>4. ASSUME ~r.closed, InOrder(p, b, i), Follows(p, fed) PROVE Follows(r, more)
  <2>1. r.told = p.told /\ \A z \in Queues \ {q} : r.lanes[z] = p.lanes[z]
    BY DEF Moved
  <2>2. \A z \in Queues : Feeds(r.lanes[z], more[z])
    BY <1>3, <1>4, <2>1 DEF Follows
  <2>3. \A id \in StreamIDs : Ends(r.lanes[id], more[id], r.told[id])
    BY <1>2, <1>4, <2>1 DEF Follows
  <2>4. QED
    BY <2>2, <2>3 DEF Follows
<1>5. QED
  BY <1>1, <1>3, <1>4 DEF Feeding

--------------------------------------------------------------------------------
(* A frame enters the queue of its lane.                                   *)

\* A message of one frame.
LEMMA OneFrame ==
    ASSUME NEW f \in Frames
    PROVE  /\ <<f>> \in Message /\ <<f>> \in Seq(Frames) /\ f.id \in Queues
           /\ Size(<<f>>) = f.n /\ f.n \in Nat
           /\ HasClose(<<f>>) <=> f.type = "close"
           /\ \A s \in Seq(Frames) : Append(s, f) = s \o <<f>>
<1> DEFINE m == <<f>>
           s == [k \in DOMAIN m |-> m[k].n]
<1>1. m \in Message /\ m \in Seq(Frames) /\ Len(m) = 1 /\ DOMAIN m = {1} /\ m[1] = f
  BY DEF Message
<1>2. f.id \in Queues /\ f.n \in Nat
  BY PageLimits
<1>3. Size(m) = f.n
  <2>1. Size(m) = SumOf(s)
    BY <1>1, SizeIs
  <2>2. DOMAIN s = {1} /\ s[1] = f.n
    BY <1>1
  <2> HIDE DEF s
  <2>3. SumOf(s) = Total({1}, s)
    BY <2>2 DEF SumOf
  <2>4. QED
    BY <1>2, <2>1, <2>2, <2>3, TotalOne
<1>4. HasClose(m) <=> f.type = "close"
  BY <1>1 DEF HasClose
<1>5. \A x \in Seq(Frames) : Append(x, f) = x \o m
  BY AppendIsConcat
<1>6. QED
  BY <1>1, <1>2, <1>3, <1>4, <1>5

\* A lane enters the map.
Known(p, q) == [p EXCEPT !.lanes[q].entry = "present"]

\* A lane that enters the map is charged with what it was.
LEMMA KnownIs ==
    ASSUME NEW p \in PageType, NEW q \in Queues, PerLane
    PROVE  LET r == Known(p, q)
               l == p.lanes[q]
               L == r.lanes[q]
           IN  /\ Moved(p, r, q) /\ L \in LaneType /\ l \in LaneType /\ L.entry = "present"
               /\ L.polling = l.polling /\ L.socket = l.socket /\ L.opened = l.opened
               /\ L.localClosed = l.localClosed /\ L.remoteClosed = l.remoteClosed
               /\ L.flight = l.flight /\ Carried(L) = Carried(l)
               /\ L.buffered = l.buffered
               /\ r.bytes = p.bytes /\ r.items = p.items
               /\ L.bytes = l.bytes /\ L.items = l.items
               /\ LaneOK(l) => LaneOK(L)
               /\ \A b, i \in Int : PageCharged(p, b, i) => PageCharged(r, b, i)
<1> DEFINE l == p.lanes[q]
           L == [l EXCEPT !.entry = "present"]
           r == [p EXCEPT !.lanes[q] = L]
<1>1. l \in LaneType /\ p.bytes \in Int /\ p.items \in Int
  BY DEF PageType
<1>2. Known(p, q) = r
  BY DEF Known, PageType
<1> HIDE DEF l
<1>3. /\ L \in LaneType /\ L.entry = "present" /\ L.pending = l.pending /\ L.bodies = l.bodies
      /\ L.polling = l.polling /\ L.socket = l.socket /\ L.opened = l.opened
      /\ L.localClosed = l.localClosed /\ L.remoteClosed = l.remoteClosed
      /\ L.flight = l.flight /\ L.buffered = l.buffered /\ L.bytes = l.bytes /\ L.items = l.items
  BY <1>1 DEF LaneType
<1> HIDE DEF L
<1>4. Moved(p, r, q) /\ r.lanes[q] = L /\ r.bytes = p.bytes /\ r.items = p.items
  BY <1>3, LaneSet
<1>5. Carried(L) = Carried(l) /\ OwedB(L) = OwedB(l) /\ OwedI(L) = OwedI(l)
      /\ Buffer(L) = Buffer(l)
  BY <1>3 DEF Carried, OwedB, OwedI, Buffer
<1>6. LaneOK(l) => LaneOK(L)
  BY <1>3, <1>5 DEF LaneOK
<1>7. ASSUME NEW b \in Int, NEW i \in Int, PageCharged(p, b, i) PROVE PageCharged(r, b, i)
  <2>1. OwedB(l) \in Nat /\ OwedI(l) \in Nat /\ Buffer(l) \in Nat
    BY <1>1, LaneHolds
  <2>2. /\ r.bytes + OwedB(l) + b = p.bytes + OwedB(L) + b
        /\ r.items + OwedI(l) + i = p.items + OwedI(L) + i
        /\ r.bytes + Buffer(L) <= p.bytes + Buffer(l)
    BY <1>1, <1>4, <1>5, <2>1
  <2> HIDE DEF r
  <2>3. QED
    BY <1>4, <1>7, <2>2, ChargedMoved DEF l
<1> HIDE DEF r
<1>8. QED
  BY <1>1, <1>2, <1>3, <1>4, <1>5, <1>6, <1>7 DEF l

\* finishWebSocketLane but for what it tells the app.
Finished(p, id) ==
    LET l == p.lanes[id]
    IN  [Release(p, id, l.bytes, l.items) EXCEPT
           !.lanes[id].entry = "gone",
           !.lanes[id].pending = <<>>,
           !.lanes[id].timer = FALSE,
           !.lanes[id].socket = IF @ \in {"connecting", "open"} THEN "closing" ELSE @]

\* A lane that finishes takes its charge with it and leaves what it has sent.
LEMMA FinishedIs ==
    ASSUME NEW p \in PageType, NEW q \in Queues, PerLane, WebSockets
    PROVE  LET r == Finished(p, q)
               l == p.lanes[q]
               L == r.lanes[q]
           IN  /\ Moved(p, r, q) /\ L \in LaneType /\ L.entry = "gone"
               /\ L.socket \notin {"connecting", "open"}
               /\ l.socket = "none" => L.socket = "none"
               /\ L.localClosed = l.localClosed /\ L.remoteClosed = l.remoteClosed
               /\ Carried(L) = FlattenSeq(l.bodies)
               /\ LaneOK(l) => LaneOK(L)
               /\ LaneOK(l) => \A b, i \in Int : PageCharged(p, b, i) => PageCharged(r, b, i)
<1> DEFINE l == p.lanes[q]
           x == -l.bytes
           y == -l.items
           c == Charge(p, q, x, y)
           k == c.lanes[q]
           end == IF k.socket \in {"connecting", "open"} THEN "closing" ELSE k.socket
           L == [k EXCEPT !.entry = "gone", !.pending = <<>>, !.timer = FALSE, !.socket = end]
           r == [c EXCEPT !.lanes[q] = L]
<1>1. l \in LaneType /\ p.bytes \in Int /\ p.items \in Int
  BY DEF PageType
<1>2. l.bytes \in Int /\ l.items \in Int /\ x \in Int /\ y \in Int
  BY <1>1 DEF LaneType
<1>3. Finished(p, q) = [c EXCEPT
           !.lanes[q].entry = "gone", !.lanes[q].pending = <<>>, !.lanes[q].timer = FALSE,
           !.lanes[q].socket = IF @ \in {"connecting", "open"} THEN "closing" ELSE @]
  BY DEF Finished, Release
<1> HIDE DEF x, y
<1>4. /\ Moved(p, c, q) /\ c.bytes = p.bytes + x /\ c.items = p.items + y
      /\ k = [l EXCEPT !.bytes = l.bytes + x, !.items = l.items + y] /\ k \in LaneType
  <2>1. /\ Moved(p, c, q) /\ c.bytes = p.bytes + x /\ c.items = p.items + y
        /\ k = (IF PerLane THEN [l EXCEPT !.bytes = @ + x, !.items = @ + y] ELSE l)
        /\ k \in LaneType
    BY <1>2, ChargeIs
  <2>2. [l EXCEPT !.bytes = @ + x, !.items = @ + y]
          = [l EXCEPT !.bytes = l.bytes + x, !.items = l.items + y]
    <3> HIDE DEF l
    <3>1. QED
      BY <1>1 DEF LaneType
  <2> HIDE DEF c, k, l
  <2>3. QED
    BY <2>1, <2>2
<1>5. c \in PageType
  BY <1>4 DEF Moved
<1> HIDE DEF c
<1>6. Finished(p, q) = r
  <2> DEFINE d == [c EXCEPT !.lanes[q].entry = "gone", !.lanes[q].pending = <<>>,
                            !.lanes[q].timer = FALSE]
             K == [k EXCEPT !.entry = "gone", !.pending = <<>>, !.timer = FALSE]
  <2>1. d = [c EXCEPT !.lanes[q] = K] /\ d.lanes[q] = K
    BY <1>5 DEF PageType
  <2>2. K.socket = k.socket
    <3> HIDE DEF k
    <3>1. QED
      BY <1>4 DEF LaneType
  <2>3. Finished(p, q) = [d EXCEPT !.lanes[q].socket = end]
    BY <1>3, <2>1, <2>2
  <2>4. [d EXCEPT !.lanes[q].socket = end] = [c EXCEPT !.lanes[q] = [K EXCEPT !.socket = end]]
    <3> HIDE DEF K, end, d
    <3>1. QED
      BY <1>5, <2>1 DEF PageType
  <2>5. QED
    BY <2>3, <2>4
<1> HIDE DEF l
<1>7. /\ k.bodies = l.bodies /\ k.flight = l.flight /\ k.buffered = l.buffered
      /\ k.bytes = l.bytes + x /\ k.items = l.items + y /\ k.socket = l.socket
      /\ k.polling = l.polling /\ k.localClosed = l.localClosed
      /\ k.remoteClosed = l.remoteClosed
  BY <1>1, <1>4 DEF LaneType
<1> HIDE DEF k
<1>8. end \in {"none", "closing", "closed"}
  BY <1>4 DEF LaneType
<1>9. <<>> \in Seq(Message) /\ Sizes(<<>>) = 0 /\ Len(<<>>) = 0
  BY SizesEmpty
<1> HIDE DEF end
<1>10. /\ L \in LaneType /\ L.entry = "gone" /\ L.pending = <<>> /\ L.bodies = k.bodies
       /\ L.flight = k.flight /\ L.buffered = k.buffered /\ L.bytes = k.bytes
       /\ L.items = k.items /\ L.socket = end /\ L.polling = k.polling
       /\ L.localClosed = k.localClosed /\ L.remoteClosed = k.remoteClosed
  <2> DEFINE w == <<>>
             M == Ended(k, w, end)
  <2>1. L = M
    BY DEF Ended
  <2>2. w \in Seq(Message)
    BY <1>9
  <2> HIDE DEF w
  <2>3. EndedFrom(k, w, end, M)
    BY ONLY <1>4, <1>8, <2>2, LaneWithEnd
  <2> HIDE DEF L, M
  <2>4. QED
    BY <2>1, <2>3 DEF EndedFrom, w
<1> HIDE DEF L
<1>11. Moved(c, r, q) /\ r.lanes[q] = L /\ r.bytes = c.bytes /\ r.items = c.items
  BY <1>5, <1>10, LaneSet
<1>12. Moved(p, r, q)
  BY <1>4, <1>11 DEF Moved
<1>13. Carried(L) = FlattenSeq(l.bodies)
  <2>1. FlattenSeq(l.bodies) \in Seq(Frames)
    BY <1>1, LaneHolds
  <2>2. Carried(L) = FlattenSeq(l.bodies) \o <<>>
    BY <1>7, <1>10, FlattenNothing DEF Carried
  <2>3. QED
    BY <2>1, <2>2, ConcatEmptySeq
<1>14. OwedB(l) \in Nat /\ OwedI(l) \in Nat /\ Buffer(l) \in Nat
  BY <1>1, LaneHolds
<1>15. LaneOK(l) => /\ OwedB(L) = 0 /\ OwedI(L) = 0
                    /\ l.bytes = OwedB(l) /\ l.items = OwedI(l)
  BY <1>7, <1>9, <1>10 DEF LaneOK, OwedB, OwedI, NoBody
<1>16. L.bytes = 0 /\ L.items = 0
  BY <1>2, <1>7, <1>10 DEF x, y
<1>17. LaneOK(l) => LaneOK(L)
  BY <1>7, <1>8, <1>10, <1>15, <1>16 DEF LaneOK, end
<1>18. ASSUME LaneOK(l), NEW b \in Int, NEW i \in Int, PageCharged(p, b, i)
       PROVE  PageCharged(r, b, i)
  <2>1. Buffer(L) = 0
    BY <1>8, <1>10 DEF Buffer
  <2>2. r.bytes = p.bytes - OwedB(l) /\ r.items = p.items - OwedI(l)
    BY <1>1, <1>2, <1>4, <1>11, <1>15, <1>18 DEF x, y
  <2>3. OwedB(L) = 0 /\ OwedI(L) = 0
    BY <1>15, <1>18
  <2>4. r.bytes + OwedB(l) + b = p.bytes + OwedB(L) + b
    BY ONLY <1>1, <1>14, <2>2, <2>3, b \in Int
  <2>5. r.items + OwedI(l) + i = p.items + OwedI(L) + i
    BY ONLY <1>1, <1>14, <2>2, <2>3, i \in Int
  <2>6. r.bytes + Buffer(L) <= p.bytes + Buffer(l)
    BY ONLY <1>1, <1>14, <2>1, <2>2
  <2> HIDE DEF r
  <2>7. QED
    BY <1>11, <1>12, <1>18, <2>4, <2>5, <2>6, ChargedMoved DEF l
<1> HIDE DEF r
<1>19. QED
  BY <1>6, <1>7, <1>8, <1>10, <1>11, <1>12, <1>13, <1>17, <1>18 DEF l, end

\* A lane whose queue, bodies and charge stay, and whose buffer does not grow.
LEMMA Touched ==
    ASSUME NEW p \in PageType, NEW q \in Queues, NEW L \in LaneType,
           L.pending = p.lanes[q].pending, L.bodies = p.lanes[q].bodies,
           L.flight = p.lanes[q].flight, Buffer(L) <= Buffer(p.lanes[q])
    PROVE  LET r == [p EXCEPT !.lanes[q] = L]
           IN  /\ Moved(p, r, q) /\ r.lanes[q] = L /\ r.bytes = p.bytes /\ r.items = p.items
               /\ Carried(L) = Carried(p.lanes[q])
               /\ OwedB(L) = OwedB(p.lanes[q]) /\ OwedI(L) = OwedI(p.lanes[q])
               /\ \A b, i \in Int : PageCharged(p, b, i) => PageCharged(r, b, i)
<1> DEFINE l == p.lanes[q]
           r == [p EXCEPT !.lanes[q] = L]
<1>1. l \in LaneType /\ p.bytes \in Int /\ p.items \in Int
  BY DEF PageType
<1>2. Moved(p, r, q) /\ r.lanes[q] = L /\ r.bytes = p.bytes /\ r.items = p.items
  BY LaneSet
<1>3. Carried(L) = Carried(l) /\ OwedB(L) = OwedB(l) /\ OwedI(L) = OwedI(l)
  BY DEF Carried, OwedB, OwedI
<1>4. ASSUME NEW b \in Int, NEW i \in Int, PageCharged(p, b, i) PROVE PageCharged(r, b, i)
  <2> HIDE DEF l
  <2>1. OwedB(l) \in Nat /\ OwedI(l) \in Nat /\ Buffer(l) \in Nat /\ Buffer(L) \in Nat
    BY <1>1, LaneHolds
  <2>2. Buffer(L) <= Buffer(l)
    BY DEF l
  <2>3. /\ r.bytes + OwedB(l) + b = p.bytes + OwedB(L) + b
        /\ r.items + OwedI(l) + i = p.items + OwedI(L) + i
        /\ r.bytes + Buffer(L) <= p.bytes + Buffer(l)
    BY <1>1, <1>2, <1>3, <2>1, <2>2
  <2> HIDE DEF r
  <2>4. QED
    BY <1>2, <1>4, <2>3, ChargedMoved DEF l
<1> HIDE DEF r
<1>5. QED
  BY <1>2, <1>3, <1>4 DEF l, r

\* A lane in the map that gets a frame.
LEMMA FeedsMore ==
    ASSUME NEW l \in LaneType, NEW L \in LaneType, NEW s \in Seq(Frames), NEW m \in Seq(Frames),
           l.entry # "gone", Feeds(l, s), L.entry = "present", Carried(L) = Carried(l) \o m,
           L.localClosed => l.localClosed \/ HasClose(m)
    PROVE  Feeds(L, s \o m)
<1>1. Carried(l) = s
  BY DEF Feeds, LaneType
<1>2. Carried(L) = s \o m
  BY <1>1
<1>3. HasClose(s) \/ HasClose(m) => HasClose(s \o m)
  BY CloseStays
<1>4. L.localClosed => HasClose(s \o m)
  BY <1>3 DEF Feeds
<1>5. QED
  BY <1>2, <1>4 DEF Feeds

\* A lane that leaves the map keeps what it has sent.
LEMMA FeedsLess ==
    ASSUME NEW l \in LaneType, NEW L \in LaneType, NEW s \in Seq(Frames), NEW m \in Seq(Frames),
           l.entry # "gone", Feeds(l, s), L.entry = "gone",
           Carried(L) = FlattenSeq(l.bodies), L.localClosed => l.localClosed
    PROVE  Feeds(L, s \o m)
<1> DEFINE a == FlattenSeq(l.bodies)
           b == FlattenSeq(l.pending)
<1>1. Carried(l) = s
  BY DEF Feeds, LaneType
<1>2. s = a \o b /\ Carried(L) = a
  BY <1>1 DEF Carried
<1>3. a \in Seq(Frames) /\ b \in Seq(Frames)
  BY LaneHolds
<1> HIDE DEF a, b
<1>4. IsPrefix(a, s)
  BY <1>2, <1>3, PrefixIs
<1>5. IsPrefix(a, s \o m)
  BY <1>3, <1>4, PrefixLonger
<1>6. HasClose(s) => HasClose(s \o m)
  BY CloseStays
<1>7. L.localClosed => HasClose(s \o m)
  BY <1>6 DEF Feeds
<1>8. QED
  BY <1>2, <1>5, <1>7 DEF Feeds

\* A lane that is gone may be given more frames, which it drops.
LEMMA FeedsGone ==
    ASSUME NEW l \in LaneType, NEW s \in Seq(Frames), NEW m \in Seq(Frames),
           l.entry = "gone", Feeds(l, s)
    PROVE  Feeds(l, s \o m)
<1>1. Carried(l) \in Seq(Frames)
  BY LaneHolds
<1>2. IsPrefix(Carried(l), s)
  BY DEF Feeds
<1>3. IsPrefix(Carried(l), s \o m)
  BY <1>1, <1>2, PrefixLonger
<1>4. HasClose(s) => HasClose(s \o m)
  BY CloseStays
<1>5. l.localClosed => HasClose(s \o m)
  BY <1>4 DEF Feeds
<1>6. QED
  BY <1>3, <1>5 DEF Feeds

\* One more frame for its stream.
More(fed, f) == [fed EXCEPT ![f.id] = @ \o <<f>>]

\* queueLane.
LEMMA QueueLaneIs ==
    ASSUME NEW p \in PageType, NEW f \in Frames, PerLane, ~WebSockets, p.token,
           p.lanes[f.id].entry # "gone", NEW b \in Int, NEW i \in Int,
           NEW fed \in [Queues -> Seq(Frames)]
    PROVE  Feeding(p, QueueLane(p, f), b, i, b, i, fed, More(fed, f))
<1> DEFINE q == f.id
           m == <<f>>
           k == Known(p, q)
           r == QueueItem(k, q, m)
           l == p.lanes[q]
           K == k.lanes[q]
           L == r.lanes[q]
           s == fed[q]
<1>1. QueueLane(p, f) = r
  BY DEF QueueLane, Known
<1>2. q \in Queues /\ m \in Message /\ m \in Seq(Frames) /\ s \in Seq(Frames)
  BY OneFrame
<1>3. /\ Moved(p, k, q) /\ K \in LaneType /\ l \in LaneType /\ K.entry = "present"
      /\ K.polling = l.polling /\ K.socket = l.socket
      /\ K.localClosed = l.localClosed /\ K.remoteClosed = l.remoteClosed
      /\ K.flight = l.flight /\ Carried(K) = Carried(l)
      /\ LaneOK(l) => LaneOK(K)
      /\ \A d, e \in Int : PageCharged(p, d, e) => PageCharged(k, d, e)
  <2> HIDE DEF q
  <2>1. QED
    BY <1>2, KnownIs
<1>4. k \in PageType /\ Same(p, k) /\ k.token
  BY <1>3 DEF Moved, Same
<1> HIDE DEF q, m, k
<1>5. \/ Same(k, r) /\ r.closed
      \/ Queued(k, r, q, m) /\ (~k.closed => L.flight # NoBody)
  BY <1>2, <1>4, QueueItemIs
<1> HIDE DEF r
<1>6. CASE Same(k, r) /\ r.closed
  <2>1. Same(p, r)
    BY <1>4, <1>6 DEF Same
  <2>2. QED
    BY <1>1, <1>6, <2>1, FeedingFails
<1>7. CASE Queued(k, r, q, m) /\ (~k.closed => L.flight # NoBody)
  <2>1. /\ Moved(k, r, q) /\ L \in LaneType /\ Quietly(K, L) /\ Carried(L) = Carried(K) \o m
        /\ LaneOK(K) => LaneOK(L)
        /\ LaneOK(K) => \A d, e \in Int : PageCharged(k, d, e) => PageCharged(r, d, e)
    BY <1>7 DEF Queued
  <2>2. Moved(p, r, q) /\ k.closed = r.closed
    BY <1>3, <2>1 DEF Moved
  <2>3. /\ L.entry = "present" /\ L.socket = l.socket /\ L.localClosed = l.localClosed
        /\ L.remoteClosed = l.remoteClosed /\ Carried(L) = Carried(l) \o m
    BY <1>3, <2>1 DEF Quietly
  <2> HIDE DEF l, L, K
  <2>4. ASSUME ~r.closed, InOrder(p, b, i)
        PROVE  /\ LaneGood(p, L, q) /\ PageCharged(r, b, i)
               /\ Feeds(l, s) => Feeds(L, s \o m)
    <3>1. LaneGood(p, l, q) /\ PageCharged(p, b, i)
      BY <1>2, <2>4 DEF InOrder, l
    <3>2. LaneOK(L) /\ PageCharged(r, b, i)
      BY <1>3, <2>1, <3>1 DEF LaneGood
    <3>3. Awake(L)
      BY <1>7, <2>2, <2>4 DEF Awake
    <3>4. LaneGood(p, L, q)
      BY <2>3, <3>1, <3>2, <3>3 DEF LaneGood
    <3>5. Feeds(l, s) => Feeds(L, s \o m)
      <4>1. l.entry # "gone"
        BY DEF l, q
      <4> HIDE DEF s
      <4>2. QED
        BY <1>2, <1>3, <2>1, <2>3, <4>1, FeedsMore
    <3>6. QED
      BY <3>2, <3>4, <3>5
  <2> DEFINE more == More(fed, f)
  <2>5. more[q] = s \o m /\ \A z \in Queues \ {q} : more[z] = fed[z]
    BY <1>2 DEF More, q, m
  <2> HIDE DEF more, s
  <2>6. /\ r.lanes[q].remoteClosed = p.lanes[q].remoteClosed
        /\ p.lanes[q].entry = "gone" => r.lanes[q].entry = "gone"
        /\ ~r.closed /\ InOrder(p, b, i) =>
              /\ LaneGood(p, r.lanes[q], q) /\ PageCharged(r, b, i)
              /\ Feeds(p.lanes[q], fed[q]) => Feeds(r.lanes[q], more[q])
              /\ Feeds(p.lanes[q], fed[q]) /\ q \in StreamIDs
                   /\ Ends(p.lanes[q], fed[q], p.told[q]) => Ends(r.lanes[q], more[q], p.told[q])
    BY <2>3, <2>4, <2>5 DEF L, l, s, q, Ends
  <2>7. Feeding(p, r, b, i, b, i, fed, more)
    BY <1>2, <2>2, <2>5, <2>6, FeedingMoved
  <2>8. QED
    BY <1>1, <2>7 DEF more
<1>8. QED
  BY <1>5, <1>6, <1>7

\* The frame m of the app has entered the lane of a stream with a socket: what
\* becomes of the lane.
Entered(p, r, q, m) ==
    LET l == p.lanes[q]
        L == r.lanes[q]
    IN  /\ Moved(p, r, q) /\ L \in LaneType /\ L.entry = "present"
        /\ Carried(L) = Carried(l) \o m
        /\ L.localClosed => l.localClosed \/ HasClose(m)
        /\ L.remoteClosed = l.remoteClosed
        /\ LaneOK(l) => LaneOK(L)
        /\ L.socket = (IF l.socket = "none" THEN "connecting" ELSE l.socket)
        /\ LaneOK(l) => \A b, i \in Int : PageCharged(p, b, i) => PageCharged(r, b, i)

\* queueWebSocketLane where it queues the frame.
LEMMA EnteredIs ==
    ASSUME NEW p \in PageType, NEW f \in Frames, PerLane, WebSockets, HasRoom(p, f.n)
    PROVE  LET queued == [Charge(Known(p, f.id), f.id, f.n, 1) EXCEPT
                            !.lanes[f.id].pending = Append(@, <<f>>),
                            !.lanes[f.id].localClosed = @ \/ f.type = "close"]
           IN  Entered(p, IF queued.lanes[f.id].socket = "none"
                          THEN [queued EXCEPT !.lanes[f.id].socket = "connecting"]
                          ELSE RunSocketUp(queued, f.id), f.id, <<f>>)
<1> DEFINE q == f.id
           m == <<f>>
           k == Known(p, q)
           a == Added(k, q, m)
           l == p.lanes[q]
           K == k.lanes[q]
           A == a.lanes[q]
           end == A.localClosed \/ f.type = "close"
           W == [A EXCEPT !.localClosed = end]
           w == [a EXCEPT !.lanes[q] = W]
           C == [W EXCEPT !.socket = "connecting"]
           c == [w EXCEPT !.lanes[q] = C]
           r == RunSocketUp(w, q)
           R == r.lanes[q]
           queued == [Charge(k, q, f.n, 1) EXCEPT !.lanes[q].pending = Append(@, m),
                                                  !.lanes[q].localClosed = @ \/ f.type = "close"]
<1>1. q \in Queues /\ m \in Message /\ m \in Seq(Frames) /\ Size(m) = f.n /\ f.n \in Nat
      /\ (HasClose(m) <=> f.type = "close")
  BY OneFrame
<1>2. /\ Moved(p, k, q) /\ K \in LaneType /\ l \in LaneType /\ K.entry = "present"
      /\ K.polling = l.polling /\ K.socket = l.socket
      /\ K.localClosed = l.localClosed /\ K.remoteClosed = l.remoteClosed
      /\ K.flight = l.flight /\ Carried(K) = Carried(l) /\ K.buffered = l.buffered
      /\ k.bytes = p.bytes /\ k.items = p.items
      /\ LaneOK(l) => LaneOK(K)
      /\ \A d, e \in Int : PageCharged(p, d, e) => PageCharged(k, d, e)
  <2> HIDE DEF q
  <2>1. QED
    BY <1>1, KnownIs
<1>3. k \in PageType
  BY <1>2 DEF Moved
<1> HIDE DEF q, k
<1>4. HasRoom(k, Size(m))
  <2>1. BufferedBytes(k) = BufferedBytes(p) - Buffer(l) + Buffer(K) /\ BufferedBytes(p) \in Nat
    BY <1>1, <1>2, TotalsMoved
  <2>2. Buffer(K) = Buffer(l) /\ Buffer(l) \in Nat
    BY <1>2, LaneHolds DEF Buffer
  <2>3. BufferedBytes(k) = BufferedBytes(p)
    BY <2>1, <2>2
  <2>4. QED
    BY <1>1, <1>2, <2>3 DEF HasRoom
<1>5. queued = [a EXCEPT !.lanes[q].localClosed = @ \/ f.type = "close"]
  BY <1>1 DEF Added
<1> HIDE DEF m, a
<1>6. Queued(k, a, q, m)
  BY <1>1, <1>3, <1>4, AddedIs DEF a
<1>7. /\ Moved(k, a, q) /\ A \in LaneType /\ Quietly(K, A) /\ Carried(A) = Carried(K) \o m
      /\ LaneOK(K) => LaneOK(A)
      /\ LaneOK(K) => \A d, e \in Int : PageCharged(k, d, e) => PageCharged(a, d, e)
  BY <1>6 DEF Queued
<1>8. a \in PageType
  BY <1>7 DEF Moved
<1>9. queued = w
  BY <1>5, <1>8 DEF PageType
<1> HIDE DEF l, K, A
<1>10. end \in BOOLEAN
  BY <1>7 DEF LaneType
<1> HIDE DEF end
<1>11. /\ W \in LaneType /\ W.pending = A.pending /\ W.bodies = A.bodies /\ W.flight = A.flight
       /\ W.buffered = A.buffered /\ W.socket = A.socket /\ W.localClosed = end
       /\ W.entry = A.entry /\ W.remoteClosed = A.remoteClosed /\ W.polling = A.polling
       /\ W.bytes = A.bytes /\ W.items = A.items
  BY <1>7, <1>10 DEF LaneType
<1> HIDE DEF W
<1>12. /\ Moved(a, w, q) /\ w.lanes[q] = W /\ Carried(W) = Carried(A)
       /\ OwedB(W) = OwedB(A) /\ OwedI(W) = OwedI(A)
       /\ \A d, e \in Int : PageCharged(a, d, e) => PageCharged(w, d, e)
  <2>1. Buffer(W) = Buffer(A) /\ Buffer(A) \in Nat
    BY <1>7, <1>11, LaneHolds DEF Buffer
  <2>2. Buffer(W) <= Buffer(A)
    BY <2>1
  <2>3. QED
    BY <1>1, <1>8, <1>11, <2>2, Touched DEF A
<1> HIDE DEF w
<1>13. w \in PageType /\ Moved(p, w, q)
  BY <1>2, <1>7, <1>12 DEF Moved
<1>14. LaneOK(A) => LaneOK(W)
  BY <1>11, <1>12 DEF LaneOK
<1>15. /\ W.entry = "present" /\ Carried(W) = Carried(l) \o m
       /\ W.localClosed => l.localClosed \/ HasClose(m)
       /\ W.remoteClosed = l.remoteClosed /\ W.socket = l.socket
       /\ LaneOK(l) => LaneOK(W)
       /\ LaneOK(l) => \A d, e \in Int : PageCharged(p, d, e) => PageCharged(w, d, e)
  <2>1. W.localClosed => l.localClosed \/ HasClose(m)
    BY <1>1, <1>2, <1>7, <1>11 DEF Quietly, end
  <2>2. QED
    BY <1>2, <1>7, <1>11, <1>12, <1>14, <2>1 DEF Quietly
<1>16. ASSUME W.socket = "none" PROVE Entered(p, c, q, m)
  <2>1. /\ C \in LaneType /\ C.pending = W.pending /\ C.bodies = W.bodies /\ C.flight = W.flight
        /\ C.socket = "connecting" /\ C.localClosed = W.localClosed /\ C.buffered = W.buffered
        /\ C.entry = W.entry /\ C.remoteClosed = W.remoteClosed /\ C.polling = W.polling
        /\ C.bytes = W.bytes /\ C.items = W.items
    BY <1>11 DEF LaneType
  <2> HIDE DEF C
  <2>2. Buffer(C) <= Buffer(W)
    BY <1>16, <2>1 DEF Buffer
  <2>3. /\ Moved(w, c, q) /\ c.lanes[q] = C /\ Carried(C) = Carried(W)
        /\ OwedB(C) = OwedB(W) /\ OwedI(C) = OwedI(W)
        /\ \A d, e \in Int : PageCharged(w, d, e) => PageCharged(c, d, e)
    BY <1>1, <1>12, <1>13, <2>1, <2>2, Touched
  <2> HIDE DEF c
  <2>4. Moved(p, c, q)
    BY <1>13, <2>3 DEF Moved
  <2>5. LaneOK(W) => LaneOK(C)
    BY <1>15, <1>16, <2>1, <2>3 DEF LaneOK
  <2>6. QED
    BY <1>15, <1>16, <2>1, <2>3, <2>4, <2>5 DEF Entered, l
<1>17. ASSUME W.socket # "none" PROVE Entered(p, r, q, m)
  <2>1. Runs(w, r, q)
    BY <1>1, <1>13, SocketRuns
  <2> HIDE DEF r
  <2>2. /\ Moved(w, r, q) /\ R \in LaneType /\ Quietly(W, R) /\ Carried(R) = Carried(W)
        /\ LaneOK(W) => LaneOK(R)
    BY <1>12, <2>1 DEF Runs
  <2>3. Moved(p, r, q)
    BY <1>13, <2>2 DEF Moved
  <2>4. LaneOK(W) => \A d, e \in Int : PageCharged(w, d, e) => PageCharged(r, d, e)
    BY <1>1, <1>12, <1>13, <2>1, RunsCharged
  <2>5. /\ R.entry = "present" /\ Carried(R) = Carried(l) \o m
        /\ R.localClosed => l.localClosed \/ HasClose(m)
        /\ R.remoteClosed = l.remoteClosed /\ R.socket = l.socket
    BY <1>15, <2>2 DEF Quietly
  <2>6. LaneOK(l) => LaneOK(R)
    BY <1>15, <2>2
  <2>7. LaneOK(l) => \A d, e \in Int : PageCharged(p, d, e) => PageCharged(r, d, e)
    BY <1>15, <2>4
  <2> HIDE DEF R
  <2>8. QED
    BY <1>15, <1>17, <2>2, <2>3, <2>5, <2>6, <2>7 DEF Entered, l, R
<1> HIDE DEF r, c
<1>18. Entered(p, IF w.lanes[q].socket = "none" THEN c ELSE r, q, m)
  BY <1>12, <1>16, <1>17
<1>19. c = [w EXCEPT !.lanes[q].socket = "connecting"]
  BY <1>12, <1>13 DEF c, C, PageType
<1>20. QED
  BY <1>9, <1>18, <1>19 DEF r, q, m, k

\* finishWebSocketLane of a lane whose end the app knows of.
LEMMA FinishQuietly ==
    ASSUME NEW p \in PageType, NEW q \in Queues, PerLane, WebSockets,
           p.lanes[q].entry = "present"
    PROVE  FinishWebSocketLane(p, q, FALSE) = Finished(p, q)
<1> DEFINE r == Finished(p, q)
<1>1. FinishWebSocketLane(p, q, FALSE) = [r EXCEPT !.told[q] = @]
  BY DEF FinishWebSocketLane, Finished
<1>2. r \in PageType
  BY FinishedIs DEF Moved
<1> HIDE DEF r
<1>3. [r EXCEPT !.told[q] = @] = r
  BY <1>2 DEF PageType
<1>4. QED
  BY <1>1, <1>3 DEF r

\* queueWebSocketLane.
LEMMA QueueWebSocketLaneIs ==
    ASSUME NEW p \in PageType, NEW f \in Frames, PerLane, WebSockets, p.token,
           p.lanes[f.id].entry # "gone", NEW b \in Int, NEW i \in Int,
           NEW fed \in [Queues -> Seq(Frames)]
    PROVE  Feeding(p, QueueWebSocketLane(p, f), b, i, b, i, fed, More(fed, f))
<1> DEFINE q == f.id
           m == <<f>>
           k == Known(p, q)
           l == p.lanes[q]
           K == k.lanes[q]
           s == fed[q]
           more == More(fed, f)
           queued == [Charge(k, q, f.n, 1) EXCEPT !.lanes[q].pending = Append(@, m),
                                                  !.lanes[q].localClosed = @ \/ f.type = "close"]
           e == IF queued.lanes[q].socket = "none"
                THEN [queued EXCEPT !.lanes[q].socket = "connecting"] ELSE RunSocketUp(queued, q)
           leaves == f.type = "close" /\ ~p.lanes[q].opened
           full == ~HasRoom(p, f.n) \/ ~LaneHasRoom(p, q, f.n)
<1>1. q \in Queues /\ m \in Seq(Frames) /\ s \in Seq(Frames)
      /\ (HasClose(m) <=> f.type = "close")
  BY OneFrame
<1>2. /\ Moved(p, k, q) /\ K \in LaneType /\ l \in LaneType /\ K.entry = "present"
      /\ K.socket = l.socket /\ K.localClosed = l.localClosed
      /\ K.remoteClosed = l.remoteClosed /\ Carried(K) = Carried(l)
      /\ LaneOK(l) => LaneOK(K)
      /\ \A d, c \in Int : PageCharged(p, d, c) => PageCharged(k, d, c)
  <2> HIDE DEF q
  <2>1. QED
    BY <1>1, KnownIs
<1>3. k \in PageType
  BY <1>2 DEF Moved
<1>4. QueueWebSocketLane(p, f)
        = IF leaves THEN FinishWebSocketLane(k, q, FALSE)
          ELSE IF full THEN Fail(k) ELSE e
  BY DEF QueueWebSocketLane, Known
<1>5. more[q] = s \o m /\ \A z \in Queues \ {q} : more[z] = fed[z]
  BY <1>1 DEF More
<1>6. l.entry # "gone"
  OBVIOUS
<1>7. ASSUME ~leaves, ~full PROVE Entered(p, e, q, m)
  BY <1>7, EnteredIs
<1> HIDE DEF q, m, k, l, s, more, e, K
<1>8. ASSUME leaves PROVE Feeding(p, FinishWebSocketLane(k, q, FALSE), b, i, b, i, fed, more)
  <2> DEFINE r == Finished(k, q)
             L == r.lanes[q]
  <2>1. FinishWebSocketLane(k, q, FALSE) = r
    BY <1>1, <1>2, <1>3, FinishQuietly DEF K
  <2>2. /\ Moved(k, r, q) /\ L \in LaneType /\ L.entry = "gone"
        /\ L.socket \notin {"connecting", "open"}
        /\ K.socket = "none" => L.socket = "none"
        /\ L.localClosed = K.localClosed /\ L.remoteClosed = K.remoteClosed
        /\ Carried(L) = FlattenSeq(K.bodies)
        /\ LaneOK(K) => LaneOK(L)
        /\ LaneOK(K) => \A d, c \in Int : PageCharged(k, d, c) => PageCharged(r, d, c)
    BY <1>1, <1>3, FinishedIs DEF K
  <2> HIDE DEF r, L
  <2>3. Moved(p, r, q)
    BY <1>2, <2>2 DEF Moved
  <2>4. K.bodies = l.bodies
    BY <1>1 DEF K, k, l, Known, PageType, LaneType
  <2>5. ASSUME InOrder(p, b, i)
        PROVE  LaneGood(p, L, q) /\ PageCharged(r, b, i)
    <3>1. LaneGood(p, l, q) /\ PageCharged(p, b, i)
      BY <1>1, <2>5 DEF InOrder, l
    <3>2. LaneOK(L) /\ PageCharged(r, b, i)
      BY <1>2, <2>2, <3>1 DEF LaneGood
    <3>3. QED
      BY <1>2, <2>2, <3>1, <3>2 DEF LaneGood, Awake
  <2>6. Feeds(l, s) => Feeds(L, s \o m)
    BY <1>1, <1>2, <1>6, <2>2, <2>4, FeedsLess
  <2>7. \A t : Ends(L, s \o m, t)
    <3>1. HasClose(m)
      BY <1>1, <1>8 DEF q
    <3>2. HasClose(s \o m)
      BY <1>1, <3>1, CloseStays
    <3>3. QED
      BY <3>2 DEF Ends
  <2>8. L.remoteClosed = l.remoteClosed
    BY <1>2, <2>2
  <2>9. Feeding(p, r, b, i, b, i, fed, more)
    BY <1>1, <1>5, <1>6, <2>2, <2>3, <2>5, <2>6, <2>7, <2>8, FeedingMoved DEF L, l, s
  <2>10. QED
    BY <2>1, <2>9
<1>9. ASSUME ~leaves, full PROVE Feeding(p, Fail(k), b, i, b, i, fed, more)
  <2>1. Same(k, Close(k)) /\ Close(k).closed
    BY <1>3, CloseIs
  <2>2. Same(p, Close(k))
    BY <1>2, <2>1 DEF Same, Moved
  <2>3. QED
    BY <2>1, <2>2, FeedingFails DEF Fail
<1>10. ASSUME ~leaves, ~full PROVE Feeding(p, e, b, i, b, i, fed, more)
  <2> DEFINE L == e.lanes[q]
  <2>1. /\ Moved(p, e, q) /\ L \in LaneType /\ L.entry = "present"
        /\ Carried(L) = Carried(l) \o m
        /\ L.localClosed => l.localClosed \/ HasClose(m)
        /\ L.remoteClosed = l.remoteClosed
        /\ LaneOK(l) => LaneOK(L)
        /\ L.socket = (IF l.socket = "none" THEN "connecting" ELSE l.socket)
        /\ LaneOK(l) => \A d, c \in Int : PageCharged(p, d, c) => PageCharged(e, d, c)
    BY <1>7, <1>10 DEF Entered, l
  <2> HIDE DEF L
  <2>2. ASSUME InOrder(p, b, i)
        PROVE  LaneGood(p, L, q) /\ PageCharged(e, b, i)
    <3>1. LaneGood(p, l, q) /\ PageCharged(p, b, i)
      BY <1>1, <2>2 DEF InOrder, l
    <3>2. LaneOK(L) /\ PageCharged(e, b, i)
      BY <2>1, <3>1 DEF LaneGood
    <3>3. L.socket \in {"connecting", "open"}
      <4>1. l.entry \in {"absent", "present"}
        BY <1>2, <1>6 DEF LaneType
      <4>2. l.entry = "absent" => l.socket = "none"
        BY <3>1 DEF LaneGood, LaneOK
      <4>3. l.entry = "present" => l.socket \in {"connecting", "open"}
        BY <3>1 DEF LaneGood, Awake
      <4>4. QED
        BY <2>1, <4>1, <4>2, <4>3
    <3>4. QED
      BY <2>1, <3>1, <3>2, <3>3 DEF LaneGood, Awake
  <2>3. Feeds(l, s) => Feeds(L, s \o m)
    BY <1>1, <1>2, <1>6, <2>1, FeedsMore
  <2>4. \A t : Ends(L, s \o m, t)
    BY <2>1 DEF Ends
  <2>5. QED
    BY <1>1, <1>5, <1>6, <2>1, <2>2, <2>3, <2>4, FeedingMoved DEF L, l, s
<1>11. QED
  BY <1>4, <1>8, <1>9, <1>10 DEF more

\* One frame in the loop of queueCarrier.
LEMMA QueueFrameIs ==
    ASSUME NEW p \in PageType, NEW f \in Frames, PerLane, p.token,
           NEW b \in Int, NEW i \in Int, NEW fed \in [Queues -> Seq(Frames)]
    PROVE  LET r == QueueFrame([page |-> p, thrown |-> FALSE], f)
           IN  /\ Feeding(p, r.page, b, i, b, i, fed, More(fed, f))
               /\ r.thrown => r.page.closed
               /\ r = [page |-> r.page, thrown |-> r.thrown]
<1> DEFINE loop == [page |-> p, thrown |-> FALSE]
           r == QueueFrame(loop, f)
           q == f.id
           l == p.lanes[q]
           s == fed[q]
           m == <<f>>
           more == More(fed, f)
<1>1. q \in Queues /\ m \in Seq(Frames) /\ s \in Seq(Frames) /\ l \in LaneType
      /\ (HasClose(m) <=> f.type = "close")
  BY OneFrame DEF PageType
<1>2. more[q] = s \o m /\ \A z \in Queues \ {q} : more[z] = fed[z]
  BY <1>1 DEF More
<1>3. CASE Dropped(p, f)
  <2>1. r = loop
    BY <1>3 DEF QueueFrame
  <2> HIDE DEF q, l, s, m, more
  <2>2. Moved(p, p, q)
    BY DEF Moved
  <2>3. l.entry # "present" /\ f.type \in {"data", "close", "window"}
    BY <1>3 DEF Dropped, l, q
  <2>4. q \in StreamIDs
    BY <2>3 DEF Frames, q
  <2>5. ASSUME Feeds(l, s), Starts(more) PROVE Feeds(l, s \o m)
    <3>1. l.entry = "gone"
      <4>1. SUFFICES ASSUME l.entry = "absent" PROVE FALSE
        BY <1>1, <2>3 DEF LaneType
      <4>2. s = <<>>
        BY <2>5, <4>1 DEF Feeds
      <4>3. s \o m = m /\ m # <<>> /\ m[1] = f
        BY <1>1, <4>2, ConcatEmptySeq DEF m
      <4>4. Begun(s \o m)
        BY <1>2, <2>4, <2>5 DEF Starts
      <4>5. f.type = "open"
        BY <4>3, <4>4 DEF Begun
      <4>6. QED
        BY <2>3, <4>5
    <3>2. QED
      BY <1>1, <2>5, <3>1, FeedsGone
  <2>6. HasClose(s) => HasClose(s \o m)
    BY <1>1, CloseStays
  <2>7. \A t : Ends(l, s, t) => Ends(l, s \o m, t)
    BY <2>6 DEF Ends
  <2>8. ASSUME Follows(p, fed), Starts(more) PROVE Follows(p, more)
    <3>1. \A z \in Queues : Feeds(p.lanes[z], more[z])
      BY <1>1, <1>2, <2>5, <2>8 DEF Follows, l, s
    <3>2. \A id \in StreamIDs : Ends(p.lanes[id], more[id], p.told[id])
      BY <1>2, <2>7, <2>8, PageLimits DEF Follows, l, s
    <3>3. QED
      BY <3>1, <3>2 DEF Follows
  <2>9. Feeding(p, p, b, i, b, i, fed, more)
    BY <2>8 DEF Feeding, Grows, Same
  <2>10. QED
    BY <2>1, <2>9 DEF more
<1>4. CASE ~Dropped(p, f) /\ Throws(p, f)
  <2>1. r = [page |-> Close(p), thrown |-> TRUE]
    BY <1>4 DEF QueueFrame, Fail
  <2>2. Same(p, Close(p)) /\ Close(p).closed
    BY CloseIs
  <2>3. QED
    BY <2>1, <2>2, FeedingFails
<1>5. CASE ~Dropped(p, f) /\ ~Throws(p, f)
  <2>1. l.entry # "gone"
    BY <1>5 DEF Dropped, Throws
  <2>2. CASE WebSockets
    <3>1. r = [page |-> QueueWebSocketLane(p, f), thrown |-> FALSE]
      BY <1>5, <2>2 DEF QueueFrame
    <3>2. Feeding(p, QueueWebSocketLane(p, f), b, i, b, i, fed, more)
      BY <2>1, <2>2, QueueWebSocketLaneIs
    <3>3. QED
      BY <3>1, <3>2
  <2>3. CASE ~WebSockets
    <3>1. r = [page |-> QueueLane(p, f), thrown |-> FALSE]
      BY <1>5, <2>3 DEF QueueFrame
    <3>2. Feeding(p, QueueLane(p, f), b, i, b, i, fed, more)
      BY <2>1, <2>3, QueueLaneIs
    <3>3. QED
      BY <3>1, <3>2
  <2>4. QED
    BY <2>2, <2>3
<1>6. QED
  BY <1>3, <1>4, <1>5

--------------------------------------------------------------------------------
(* A message enters the queues of its lanes.                               *)

\* The first n elements of a sequence, one more, and all of them.
LEMMA CutGrows ==
    ASSUME NEW S, NEW s \in Seq(S)
    PROVE  /\ SubSeq(s, 1, 0) = <<>> /\ SubSeq(s, 1, Len(s)) = s
           /\ \A n \in 0 .. Len(s) - 1 :
                SubSeq(s, 1, n + 1) = Append(SubSeq(s, 1, n), s[n + 1])
           /\ \A n \in 0 .. Len(s) : s = SubSeq(s, 1, n) \o SubSeq(s, n + 1, Len(s))
<1>1. Len(s) \in Nat /\ \A k \in 1 .. Len(s) : s[k] \in S
  BY LenProperties, ElementOfSeq
<1>2. SubSeq(s, 1, 0) = <<>>
  BY <1>1, CutIs, EmptySeq
<1>3. SubSeq(s, 1, Len(s)) = s
  <2>1. /\ SubSeq(s, 1, Len(s)) \in Seq(S) /\ Len(SubSeq(s, 1, Len(s))) = Len(s)
        /\ \A k \in 1 .. Len(s) : SubSeq(s, 1, Len(s))[k] = s[k]
    BY <1>1, CutIs
  <2>2. QED
    BY <2>1, SeqEqual
<1>4. ASSUME NEW n \in 0 .. Len(s) - 1
      PROVE  SubSeq(s, 1, n + 1) = Append(SubSeq(s, 1, n), s[n + 1])
  <2> DEFINE a == SubSeq(s, 1, n)
             b == SubSeq(s, 1, n + 1)
             c == Append(a, s[n + 1])
  <2>1. n \in 0 .. Len(s) /\ n + 1 \in 0 .. Len(s) /\ n \in Nat /\ s[n + 1] \in S
    BY <1>1
  <2>2. /\ b \in Seq(S) /\ Len(b) = n + 1 /\ \A k \in 1 .. n + 1 : b[k] = s[k]
        /\ a \in Seq(S) /\ Len(a) = n /\ \A k \in 1 .. n : a[k] = s[k]
    BY <2>1, CutIs
  <2> HIDE DEF a, b
  <2>3. /\ c \in Seq(S) /\ Len(c) = n + 1 /\ \A k \in 1 .. n : c[k] = a[k]
        /\ c[n + 1] = s[n + 1]
    BY <2>1, <2>2, AppendProperties
  <2> HIDE DEF c
  <2>4. \A k \in 1 .. n + 1 : c[k] = b[k]
    BY <2>1, <2>2, <2>3
  <2>5. b = c
    BY <2>2, <2>3, <2>4, SeqEqual
  <2>6. QED
    BY <2>5 DEF a, b, c
<1>5. ASSUME NEW n \in 0 .. Len(s)
      PROVE  s = SubSeq(s, 1, n) \o SubSeq(s, n + 1, Len(s))
  <2> DEFINE a == SubSeq(s, 1, n)
             b == SubSeq(s, n + 1, Len(s))
             c == a \o b
  <2>1. /\ n \in Nat /\ n <= Len(s) /\ a \in Seq(S) /\ Len(a) = n
        /\ \A k \in 1 .. n : a[k] = s[k]
        /\ b \in Seq(S) /\ Len(b) = Len(s) - n
        /\ \A k \in 1 .. Len(s) - n : b[k] = s[n + k]
    BY CutIs
  <2> HIDE DEF a, b
  <2>2. /\ c \in Seq(S) /\ Len(c) = Len(a) + Len(b)
        /\ \A k \in 1 .. Len(a) + Len(b) : c[k] = IF k <= Len(a) THEN a[k] ELSE b[k - Len(a)]
    BY <2>1, ConcatProperties
  <2> HIDE DEF c
  <2>3. ASSUME NEW k \in 1 .. Len(s) PROVE c[k] = s[k]
    <3>1. CASE k <= n
      BY <1>1, <2>1, <2>2, <3>1
    <3>2. CASE ~(k <= n)
      <4>1. k - n \in 1 .. Len(s) - n /\ n + (k - n) = k
        BY <1>1, <2>1, <3>2
      <4>2. b[k - n] = s[k] /\ c[k] = b[k - n]
        BY <1>1, <2>1, <2>2, <3>2, <4>1
      <4>3. QED
        BY <4>2
    <3>3. QED
      BY <3>1, <3>2
  <2>4. Len(c) = Len(s)
    BY <1>1, <2>1, <2>2
  <2>5. c = s
    BY <2>2, <2>3, <2>4, SeqEqual
  <2>6. QED
    BY <2>5 DEF a, b, c
<1>6. QED
  BY <1>2, <1>3, <1>4, <1>5

\* The frames of a message, each for its stream.
FedWith(fed, m) == [q \in Queues |-> fed[q] \o OfStream(m, q)]

\* One frame more.
LEMMA FedOneMore ==
    ASSUME NEW fed \in [Queues -> Seq(Frames)], NEW m \in Seq(Frames), NEW f \in Frames
    PROVE  /\ FedWith(fed, m) \in [Queues -> Seq(Frames)]
           /\ FedWith(fed, Append(m, f)) = More(FedWith(fed, m), f)
<1>1. \A q \in Queues : fed[q] \in Seq(Frames) /\ OfStream(m, q) \in Seq(Frames)
  BY OfStreamType
<1>2. \A q \in Queues : fed[q] \o OfStream(m, q) \in Seq(Frames)
  BY <1>1, ConcatProperties
<1>3. FedWith(fed, m) \in [Queues -> Seq(Frames)]
  BY <1>2 DEF FedWith
<1>4. ASSUME NEW q \in Queues
      PROVE  fed[q] \o OfStream(Append(m, f), q)
               = IF q = f.id THEN (fed[q] \o OfStream(m, q)) \o <<f>>
                 ELSE fed[q] \o OfStream(m, q)
  <2> DEFINE a == fed[q]
             b == OfStream(m, q)
             c == <<f>>
  <2>1. a \in Seq(Frames) /\ b \in Seq(Frames) /\ c \in Seq(Frames) /\ Append(b, f) = b \o c
    BY <1>1, OneFrame
  <2>2. OfStream(Append(m, f), q) = IF f.id = q THEN Append(b, f) ELSE b
    BY OfStreamAppended
  <2> HIDE DEF a, b, c
  <2>3. (a \o b) \o c = a \o (b \o c)
    <3>1. Joined(Joined(a, b), c) = Joined(a, Joined(b, c))
      BY <2>1, Associative
    <3>2. QED
      BY <3>1 DEF Joined
  <2>4. a \o OfStream(Append(m, f), q) = IF q = f.id THEN (a \o b) \o c ELSE a \o b
    BY <2>1, <2>2, <2>3
  <2>5. QED
    BY <2>4 DEF a, b, c
<1>5. QED
  BY <1>3, <1>4 DEF FedWith, More

\* The loop of queueCarrier.
LEMMA QueueFramesIs ==
    ASSUME NEW p \in PageType, NEW m \in Message, PerLane, p.token,
           NEW b \in Int, NEW i \in Int, NEW fed \in [Queues -> Seq(Frames)]
    PROVE  Feeding(p, QueueFrames(p, m), b, i, b, i, fed, FedWith(fed, m))
<1> DEFINE F(k) == FedWith(fed, SubSeq(m, 1, k))
<1>1. PICK g : /\ g = [k \in 0 .. Len(m) |->
                         IF k = 0 THEN [page |-> p, thrown |-> FALSE]
                         ELSE QueueFrame(g[k - 1], m[k])]
               /\ QueueFrames(p, m) = g[Len(m)].page
  BY FrameLoop
<1>2. m \in Seq(Frames) /\ Len(m) \in Nat /\ \A k \in 1 .. Len(m) : m[k] \in Frames
  BY LenProperties, ElementOfSeq DEF Message
<1>3. /\ g[0] = [page |-> p, thrown |-> FALSE]
      /\ \A k \in 0 .. Len(m) - 1 : g[k + 1] = QueueFrame(g[k], m[k + 1])
  <2>1. 0 \in 0 .. Len(m)
    BY <1>2
  <2>2. \A k \in 0 .. Len(m) - 1 : k + 1 \in 0 .. Len(m) /\ k + 1 # 0 /\ (k + 1) - 1 = k
    BY <1>2
  <2>3. QED
    BY <1>1, <2>1, <2>2
<1> DEFINE Holds(k) == /\ Feeding(p, g[k].page, b, i, b, i, fed, F(k))
                       /\ g[k] = [page |-> g[k].page, thrown |-> g[k].thrown]
                       /\ g[k].thrown => g[k].page.closed
                       /\ g[k].thrown \in BOOLEAN
           T == {k \in Nat : k <= Len(m) => Holds(k)}
<1>4. 0 \in T
  <2>1. F(0) = fed
    <3>1. SubSeq(m, 1, 0) = <<>>
      BY <1>2, CutGrows
    <3>2. \A q \in Queues : fed[q] \o OfStream(<<>>, q) = fed[q]
      BY OfStreamNothing, ConcatEmptySeq
    <3>3. QED
      BY <3>1, <3>2 DEF FedWith
  <2>2. Feeding(p, p, b, i, b, i, fed, fed)
    BY DEF Feeding, Grows, Same
  <2> HIDE DEF F
  <2>3. g[0].page = p /\ g[0].thrown = FALSE
    BY <1>3
  <2>4. Feeding(p, g[0].page, b, i, b, i, fed, F(0))
    BY <2>1, <2>2, <2>3
  <2>5. g[0] = [page |-> g[0].page, thrown |-> g[0].thrown]
    BY <1>3, <2>3
  <2>6. Holds(0)
    BY <2>3, <2>4, <2>5
  <2> HIDE DEF Holds
  <2>7. QED
    BY <2>6
<1>5. ASSUME NEW k \in Nat, k \in T PROVE k + 1 \in T
  <2> SUFFICES ASSUME k + 1 <= Len(m) PROVE Holds(k + 1)
    OBVIOUS
  <2> DEFINE a == g[k].page
             f == m[k + 1]
             fk == F(k)
             x == QueueFrame(g[k], f)
  <2>1. k \in 0 .. Len(m) - 1 /\ k \in 0 .. Len(m) /\ k + 1 \in 0 .. Len(m) /\ k + 1 \in 1 .. Len(m)
    BY <1>2
  <2>2. Holds(k)
    BY <1>5, <2>1
  <2>3. f \in Frames /\ g[k + 1] = x
    BY <1>2, <1>3, <2>1
  <2>4. SubSeq(m, 1, k) \in Seq(Frames) /\ SubSeq(m, 1, k + 1) = Append(SubSeq(m, 1, k), f)
    BY <1>2, <2>1, CutIs, CutGrows
  <2>5. fk \in [Queues -> Seq(Frames)] /\ F(k + 1) = More(fk, f)
    <3> DEFINE u == SubSeq(m, 1, k)
    <3>1. u \in Seq(Frames)
      BY <2>4
    <3> HIDE DEF u, f
    <3>2. FedWith(fed, u) \in [Queues -> Seq(Frames)]
          /\ FedWith(fed, Append(u, f)) = More(FedWith(fed, u), f)
      BY <2>3, <3>1, FedOneMore
    <3>3. QED
      BY <2>4, <3>2 DEF u
  <2>6. Starts(F(k + 1)) => Starts(fk)
    <3>1. <<f>> \in Seq(Frames)
      BY <2>3, OneFrame
    <3> HIDE DEF F, f, fk
    <3>2. ASSUME NEW q \in Queues, Begun(More(fk, f)[q]) PROVE Begun(fk[q])
      <4>1. fk[q] \in Seq(Frames) /\ More(fk, f)[q] = IF q = f.id THEN fk[q] \o <<f>> ELSE fk[q]
        BY <2>5 DEF More
      <4>2. Begun(fk[q] \o <<f>>) => Begun(fk[q])
        BY <3>1, <4>1, CloseStays
      <4>3. QED
        BY <3>2, <4>1, <4>2
    <3>3. QED
      BY <2>5, <3>2, PageLimits DEF Starts
  <2>7. a \in PageType /\ a.token
    BY <2>2 DEF Feeding, Grows, Same
  <2> HIDE DEF F
  <2>8. CASE g[k].thrown
    <3>1. g[k + 1] = g[k] /\ a.closed
      BY <2>2, <2>3, <2>8 DEF QueueFrame
    <3>2. Same(p, a)
      BY <2>2 DEF Feeding, Grows
    <3>3. Feeding(p, a, b, i, b, i, fed, F(k + 1))
      <4> HIDE DEF a
      <4>1. QED
        BY <3>1, <3>2, FeedingFails
    <3>4. QED
      BY <2>2, <3>1, <3>3
  <2>9. CASE ~g[k].thrown
    <3>1. g[k] = [page |-> a, thrown |-> FALSE]
      BY <2>2, <2>9
    <3> HIDE DEF a, f, fk
    <3> DEFINE y == QueueFrame([page |-> a, thrown |-> FALSE], f)
    <3>2. x = y
      BY <3>1
    <3>3. /\ Feeding(a, y.page, b, i, b, i, fk, More(fk, f))
          /\ y.thrown => y.page.closed
          /\ y = [page |-> y.page, thrown |-> y.thrown]
      BY <2>3, <2>5, <2>7, QueueFrameIs
    <3>4. y.thrown \in BOOLEAN
      BY DEF QueueFrame
    <3> HIDE DEF y
    <3>5. Feeding(p, a, b, i, b, i, fed, fk)
      BY <2>2 DEF a, fk
    <3>6. Feeding(p, y.page, b, i, b, i, fed, F(k + 1))
      BY <2>5, <2>6, <3>3, <3>5, FeedingTwice
    <3> HIDE DEF x
    <3>7. QED
      BY <2>3, <3>2, <3>3, <3>4, <3>6
  <2>10. QED
    BY <2>2, <2>8, <2>9
<1>6. Len(m) \in T
  <2>1. Nat \subseteq T
    <3> HIDE DEF T
    <3>1. QED
      BY <1>4, <1>5, Numbers
  <2>2. QED
    BY <1>2, <2>1
<1>7. Feeding(p, g[Len(m)].page, b, i, b, i, fed, F(Len(m)))
  BY <1>2, <1>6
<1>8. F(Len(m)) = FedWith(fed, m)
  BY <1>2, CutGrows
<1>9. QED
  BY <1>1, <1>7, <1>8

\* The frames of a message, each for its queue.
FedAll(fed, m) == [q \in Queues |-> fed[q] \o OfQueue(m, q)]

\* Nothing, and two messages one after the other.
LEMMA FedAllIs ==
    ASSUME NEW fed \in [Queues -> Seq(Frames)], NEW m \in Seq(Frames), NEW w \in Seq(Frames)
    PROVE  /\ FedAll(fed, m) \in [Queues -> Seq(Frames)] /\ FedAll(fed, <<>>) = fed
           /\ FedAll(FedAll(fed, m), w) = FedAll(fed, m \o w)
           /\ Starts(FedAll(fed, m)) => Starts(fed)
<1>1. ASSUME NEW q \in Queues
      PROVE  /\ OfQueue(m, q) \in Seq(Frames) /\ OfQueue(w, q) \in Seq(Frames)
             /\ OfQueue(<<>>, q) = <<>> /\ OfQueue(m \o w, q) = OfQueue(m, q) \o OfQueue(w, q)
  <2>1. OfStream(m, q) \in Seq(Frames) /\ OfStream(w, q) \in Seq(Frames)
        /\ OfStream(<<>>, q) = <<>> /\ OfStream(m \o w, q) = OfStream(m, q) \o OfStream(w, q)
    BY OfStreamType, OfStreamNothing, OfStreamJoined
  <2>2. <<>> \in Seq(Frames) /\ <<>> \o <<>> = <<>>
    BY ConcatEmptySeq
  <2>3. QED
    BY <2>1, <2>2 DEF OfQueue
<1>2. ASSUME NEW q \in Queues
      PROVE  /\ fed[q] \o OfQueue(m, q) \in Seq(Frames)
             /\ fed[q] \o OfQueue(<<>>, q) = fed[q]
             /\ (fed[q] \o OfQueue(m, q)) \o OfQueue(w, q) = fed[q] \o OfQueue(m \o w, q)
             /\ Begun(fed[q] \o OfQueue(m, q)) => Begun(fed[q])
  <2> DEFINE s == fed[q]
             a == OfQueue(m, q)
             b == OfQueue(w, q)
  <2>1. s \in Seq(Frames) /\ a \in Seq(Frames) /\ b \in Seq(Frames)
        /\ OfQueue(m \o w, q) = a \o b /\ OfQueue(<<>>, q) = <<>>
    BY <1>1
  <2> HIDE DEF s, a, b
  <2>2. s \o a \in Seq(Frames) /\ s \o <<>> = s /\ (s \o a) \o b = s \o (a \o b)
    <3>1. s \o a \in Seq(Frames)
      BY <2>1, ConcatProperties
    <3>2. s \o <<>> = s
      BY <2>1, ConcatEmptySeq
    <3>3. (s \o a) \o b = s \o (a \o b)
      <4>1. Joined(Joined(s, a), b) = Joined(s, Joined(a, b))
        BY <2>1, Associative
      <4>2. QED
        BY <4>1 DEF Joined
    <3>4. QED
      BY <3>1, <3>2, <3>3
  <2>3. Begun(s \o a) => Begun(s)
    BY <2>1, CloseStays
  <2>4. QED
    BY <2>1, <2>2, <2>3 DEF s, a, b
<1>3. FedAll(fed, m) \in [Queues -> Seq(Frames)]
  BY <1>2 DEF FedAll
<1>4. FedAll(fed, <<>>) = fed
  BY <1>2 DEF FedAll
<1>5. FedAll(FedAll(fed, m), w) = FedAll(fed, m \o w)
  BY <1>2 DEF FedAll
<1>6. Starts(FedAll(fed, m)) => Starts(fed)
  BY <1>2, PageLimits DEF FedAll, Starts
<1>7. QED
  BY <1>3, <1>4, <1>5, <1>6

\* queueCarrier.
LEMMA QueueCarrierIs ==
    ASSUME NEW p \in PageType, NEW m \in Message, p.token,
           NEW b \in Int, NEW i \in Int, NEW fed \in [Queues -> Seq(Frames)]
    PROVE  Feeding(p, QueueCarrier(p, m), b, i, b, i, fed, FedAll(fed, m))
<1> DEFINE more == FedAll(fed, m)
<1>1. CASE PerLane /\ Len(m) > MaxBodyFrames
  <2>1. QueueCarrier(p, m) = Close(p)
    BY <1>1 DEF QueueCarrier, Fail
  <2>2. QED
    BY <2>1, CloseIs, FeedingFails
<1>2. CASE PerLane /\ ~(Len(m) > MaxBodyFrames)
  <2>1. QueueCarrier(p, m) = QueueFrames(p, m)
    BY <1>2 DEF QueueCarrier
  <2>2. FedAll(fed, m) = FedWith(fed, m)
    BY <1>2 DEF FedAll, FedWith, OfQueue
  <2>3. QED
    BY <1>2, <2>1, <2>2, QueueFramesIs
<1>3. CASE ~PerLane
  <2> DEFINE r == QueueItem(p, 0, m)
             l == p.lanes[0]
             L == r.lanes[0]
             s == fed[0]
  <2>1. QueueCarrier(p, m) = r
    BY <1>3 DEF QueueCarrier
  <2>2. 0 \in Queues /\ m \in Seq(Frames) /\ s \in Seq(Frames) /\ l \in LaneType
    BY PageLimits DEF Message, PageType
  <2>3. \/ Same(p, r) /\ r.closed
        \/ Queued(p, r, 0, m)
    BY <2>2, QueueItemIs
  <2> HIDE DEF r
  <2>4. CASE Same(p, r) /\ r.closed
    BY <2>1, <2>4, FeedingFails
  <2>5. CASE Queued(p, r, 0, m)
    <3>1. /\ Moved(p, r, 0) /\ L \in LaneType /\ Quietly(l, L) /\ Carried(L) = Carried(l) \o m
          /\ LaneOK(l) => LaneOK(L)
          /\ LaneOK(l) => \A d, e \in Int : PageCharged(p, d, e) => PageCharged(r, d, e)
      BY <2>5 DEF Queued
    <3>2. more[0] = s \o m /\ \A z \in Queues \ {0} : more[z] = fed[z]
      <4>1. \A z \in Queues : fed[z] \o <<>> = fed[z]
        BY ConcatEmptySeq
      <4>2. QED
        BY <1>3, <2>2, <4>1 DEF FedAll, OfQueue
    <3> HIDE DEF l, L, s, more
    <3>3. /\ L.entry = l.entry /\ L.socket = l.socket /\ L.localClosed = l.localClosed
          /\ L.remoteClosed = l.remoteClosed
      BY <3>1 DEF Quietly
    <3>4. ASSUME InOrder(p, b, i)
          PROVE  LaneGood(p, L, 0) /\ PageCharged(r, b, i) /\ L.entry = "present"
      <4>1. LaneGood(p, l, 0) /\ PageCharged(p, b, i)
        BY <2>2, <3>4 DEF InOrder, l
      <4>2. LaneOK(L) /\ PageCharged(r, b, i)
        BY <3>1, <4>1 DEF LaneGood
      <4>3. L.entry = "present"
        BY <1>3, <4>2 DEF LaneOK
      <4>4. LaneGood(p, L, 0)
        BY <1>3, <3>3, <4>1, <4>2 DEF LaneGood, Awake
      <4>5. QED
        BY <4>2, <4>3, <4>4
    <3>5. ASSUME InOrder(p, b, i), Feeds(l, s) PROVE Feeds(L, s \o m)
      <4>1. L.entry = "present"
        BY <3>4, <3>5
      <4>2. QED
        BY <2>2, <3>1, <3>3, <3>5, <4>1, FeedsMore
    <3>6. InOrder(p, b, i) => \A t : Ends(L, s \o m, t)
      BY <3>4 DEF Ends
    <3>7. Feeding(p, r, b, i, b, i, fed, more)
      BY <2>2, <3>1, <3>2, <3>3, <3>4, <3>5, <3>6, FeedingMoved DEF L, l, s
    <3>8. QED
      BY <2>1, <3>7 DEF more
  <2>6. QED
    BY <2>3, <2>4, <2>5
<1>4. QED
  BY <1>1, <1>2, <1>3

--------------------------------------------------------------------------------
(* WELCOME, and what the app has sent before it.                           *)

\* Bytes and items of early messages are no longer charged.
LEMMA PaidIs ==
    ASSUME NEW p \in PageType, NEW n \in Nat, NEW k \in Nat, NEW b \in Int, NEW i \in Int, NEW fed
    PROVE  /\ ChargePage(p, -n, -k) \in PageType /\ ChargePage(p, -n, -k).token = p.token
           /\ Feeding(p, ChargePage(p, -n, -k), b, i, b - n, i - k, fed, fed)
<1> DEFINE x == p.bytes - n
           y == p.items - k
           r == [p EXCEPT !.bytes = x, !.items = y]
<1>1. p.bytes \in Int /\ p.items \in Int /\ x \in Int /\ y \in Int
  BY DEF PageType
<1>2. ChargePage(p, -n, -k) = r
  <2>1. p.bytes + -n = x /\ p.items + -k = y
    BY <1>1
  <2>2. QED
    BY <2>1 DEF ChargePage
<1> HIDE DEF x, y
<1>3. /\ r \in PageType /\ r.bytes = x /\ r.items = y /\ r.lanes = p.lanes /\ r.told = p.told
      /\ r.stage = p.stage /\ r.token = p.token /\ r.pending = p.pending /\ r.closed = p.closed
  BY <1>1 DEF PageType
<1> HIDE DEF r
<1>4. OwedBytes(r) = OwedBytes(p) /\ OwedItems(r) = OwedItems(p)
      /\ BufferedBytes(r) = BufferedBytes(p)
  BY <1>3 DEF OwedBytes, OwedItems, BufferedBytes
<1>5. /\ Total(Queues, OwedBytes(p)) \in Nat /\ Total(Queues, OwedItems(p)) \in Nat
      /\ BufferedBytes(p) \in Nat
  <2>1. 0 \in Queues /\ Moved(p, p, 0)
    BY PageLimits DEF Moved
  <2>2. QED
    BY <2>1, TotalsMoved
<1>6. ASSUME PageCharged(p, b, i) PROVE PageCharged(r, b - n, i - k)
  <2> DEFINE B == Total(Queues, OwedBytes(p))
             I == Total(Queues, OwedItems(p))
             U == BufferedBytes(p)
  <2>1. p.bytes = B + b /\ p.items = I + i /\ p.bytes + U <= QueueLimit
    BY <1>6 DEF PageCharged
  <2>2. B \in Nat /\ I \in Nat /\ U \in Nat /\ QueueLimit \in Nat
    BY <1>5, PageLimits
  <2>3. x = p.bytes - n /\ y = p.items - k
    BY DEF x, y
  <2> HIDE DEF B, I, U
  <2>4. x = B + (b - n) /\ y = I + (i - k) /\ x + U <= QueueLimit
    BY <1>1, <2>1, <2>2, <2>3
  <2>5. QED
    BY <1>3, <1>4, <2>4 DEF PageCharged, B, I, U
<1>7. InOrder(p, b, i) => InOrder(r, b - n, i - k)
  BY <1>3, <1>6 DEF InOrder, LaneGood
<1>8. Feeding(p, r, b, i, b - n, i - k, fed, fed)
  BY <1>3, <1>7 DEF Feeding, Grows, Same, Follows
<1>9. QED
  BY <1>2, <1>3, <1>8

\* One early message.
LEMMA FlushIs ==
    ASSUME NEW p \in PageType, NEW m \in Message, p.token,
           NEW b \in Int, NEW i \in Int, NEW fed \in [Queues -> Seq(Frames)]
    PROVE  Feeding(p, Flush(p, m), b, i, b - Size(m), i - 1, fed, FedAll(fed, m))
<1> DEFINE n == Size(m)
           c == ChargePage(p, -n, -1)
           r == QueueCarrier(c, m)
           d == b - n
           j == i - 1
<1>1. n \in Nat /\ 1 \in Nat /\ m \in Seq(Frames)
  BY SizeIs DEF Message
<1>2. d \in Int /\ j \in Int
  BY <1>1
<1> HIDE DEF n
<1>3. c \in PageType /\ c.token /\ Feeding(p, c, b, i, d, j, fed, fed)
  BY <1>1, PaidIs
<1> HIDE DEF c, d, j
<1>4. Feeding(c, r, d, j, d, j, fed, FedAll(fed, m))
  BY <1>2, <1>3, QueueCarrierIs
<1>5. Starts(FedAll(fed, m)) => Starts(fed)
  BY <1>1, FedAllIs
<1> HIDE DEF r
<1>6. Feeding(p, r, b, i, d, j, fed, FedAll(fed, m))
  BY <1>3, <1>4, <1>5, FeedingTwice
<1>7. Flush(p, m) = r
  BY DEF Flush, r, c, n
<1>8. QED
  BY <1>6, <1>7 DEF d, j, n

\* The early messages.
LEMMA FlushedIs ==
    ASSUME NEW p \in PageType, NEW v \in Seq(Message), p.token,
           NEW fed \in [Queues -> Seq(Frames)]
    PROVE  /\ Feeding(p, Flushed(p, v), Sizes(v), Len(v), 0, 0, fed, FedAll(fed, FlattenSeq(v)))
           /\ Flushed(p, v) \in PageType
<1> DEFINE S(k) == Sizes(SubSeq(v, 1, k))
           N(k) == Sizes(v) - S(k)
           I(k) == Len(v) - k
           F(k) == FedAll(fed, FlattenSeq(SubSeq(v, 1, k)))
<1>1. PICK g : /\ g = [k \in 0 .. Len(v) |->
                         IF k = 0 THEN p ELSE Flush(g[k - 1], v[k])]
               /\ Flushed(p, v) = g[Len(v)]
  BY FlushLoop
<1>2. Len(v) \in Nat /\ (\A k \in 1 .. Len(v) : v[k] \in Message) /\ Sizes(v) \in Nat
  BY LenProperties, ElementOfSeq, SizesIs
<1>3. /\ g[0] = p
      /\ \A k \in 0 .. Len(v) - 1 : g[k + 1] = Flush(g[k], v[k + 1])
  <2>1. 0 \in 0 .. Len(v)
    BY <1>2
  <2>2. \A k \in 0 .. Len(v) - 1 : k + 1 \in 0 .. Len(v) /\ k + 1 # 0 /\ (k + 1) - 1 = k
    BY <1>2
  <2>3. QED
    BY <1>1, <2>1, <2>2
<1> DEFINE Holds(k) == Feeding(p, g[k], Sizes(v), Len(v), N(k), I(k), fed, F(k))
           T == {k \in Nat : k <= Len(v) => Holds(k)}
<1>4. 0 \in T
  <2>1. SubSeq(v, 1, 0) = <<>>
    BY CutGrows
  <2>2. F(0) = fed
    <3>1. <<>> \in Seq(Frames)
      OBVIOUS
    <3>2. FedAll(fed, <<>>) = fed
      BY <3>1, FedAllIs
    <3>3. QED
      BY <2>1, <3>2, FlattenNothing
  <2>3. S(0) = 0
    BY <2>1, SizesEmpty
  <2>4. N(0) = Sizes(v) /\ I(0) = Len(v)
    <3> HIDE DEF S
    <3>1. QED
      BY <1>2, <2>3
  <2>5. Feeding(p, p, Sizes(v), Len(v), Sizes(v), Len(v), fed, fed)
    BY DEF Feeding, Grows, Same
  <2> HIDE DEF F, N, I
  <2>6. Holds(0)
    BY <1>3, <2>2, <2>4, <2>5
  <2> HIDE DEF Holds
  <2>7. QED
    BY <2>6
<1>5. ASSUME NEW k \in Nat, k \in T PROVE k + 1 \in T
  <2> SUFFICES ASSUME k + 1 <= Len(v) PROVE Holds(k + 1)
    OBVIOUS
  <2> DEFINE a == g[k]
             m == v[k + 1]
             u == SubSeq(v, 1, k)
             w == SubSeq(v, 1, k + 1)
             fu == FlattenSeq(u)
             r == Flush(a, m)
  <2>1. k \in 0 .. Len(v) - 1 /\ k \in 0 .. Len(v) /\ k + 1 \in 0 .. Len(v) /\ k + 1 \in 1 .. Len(v)
    BY <1>2
  <2>2. Holds(k)
    BY <1>5, <2>1
  <2>3. m \in Message /\ g[k + 1] = r /\ m \in Seq(Frames)
    BY <1>2, <1>3, <2>1 DEF Message
  <2>4. u \in Seq(Message) /\ w = Append(u, m)
    BY <2>1, CutIs, CutGrows
  <2>5. a \in PageType /\ a.token
    BY <2>2 DEF Feeding, Grows, Same
  <2> HIDE DEF u, m, w, a
  <2>6. Sizes(w) = Sizes(u) + Size(m) /\ Size(m) \in Nat /\ Sizes(u) \in Nat
    BY <2>3, <2>4, SizesAppended, SizesIs
  <2>7. FlattenSeq(w) = fu \o m /\ fu \in Seq(Frames)
    BY <2>3, <2>4, FlattenSizes, FlattenAppended
  <2> DEFINE fk == FedAll(fed, fu)
             d == Sizes(v) - Sizes(u)
             j == Len(v) - k
  <2>8. fk \in [Queues -> Seq(Frames)] /\ FedAll(fk, m) = FedAll(fed, FlattenSeq(w))
    <3> HIDE DEF fu
    <3>1. /\ FedAll(fed, fu) \in [Queues -> Seq(Frames)]
          /\ FedAll(FedAll(fed, fu), m) = FedAll(fed, fu \o m)
      BY <2>3, <2>7, FedAllIs
    <3>2. QED
      BY <2>7, <3>1
  <2>9. d \in Int /\ j \in Int /\ d - Size(m) = Sizes(v) - Sizes(w) /\ j - 1 = Len(v) - (k + 1)
    BY <1>2, <2>6
  <2>10. Feeding(p, a, Sizes(v), Len(v), d, j, fed, fk)
    BY <2>2 DEF a, u
  <2> HIDE DEF fk, d, j, r
  <2>11. Feeding(a, r, d, j, d - Size(m), j - 1, fk, FedAll(fk, m))
    BY <2>3, <2>5, <2>8, <2>9, FlushIs DEF r
  <2>12. Starts(FedAll(fk, m)) => Starts(fk)
    BY <2>3, <2>8, FedAllIs
  <2>13. Feeding(p, r, Sizes(v), Len(v), d - Size(m), j - 1, fed, FedAll(fk, m))
    BY <2>10, <2>11, <2>12, FeedingTwice
  <2>14. Feeding(p, g[k + 1], Sizes(v), Len(v), Sizes(v) - Sizes(w), Len(v) - (k + 1), fed,
                 FedAll(fed, FlattenSeq(w)))
    BY <2>3, <2>8, <2>9, <2>13
  <2>15. QED
    BY <2>14 DEF w
<1>6. Len(v) \in T
  <2>1. Nat \subseteq T
    <3> HIDE DEF T
    <3>1. QED
      BY <1>4, <1>5, Numbers
  <2>2. QED
    BY <1>2, <2>1
<1>7. Holds(Len(v))
  BY <1>2, <1>6
<1>8. SubSeq(v, 1, Len(v)) = v
  BY CutGrows
<1>9. N(Len(v)) = 0 /\ I(Len(v)) = 0
  <2>1. S(Len(v)) = Sizes(v)
    BY <1>8
  <2> HIDE DEF S
  <2>2. QED
    BY <1>2, <2>1
<1>10. Feeding(p, g[Len(v)], Sizes(v), Len(v), 0, 0, fed, FedAll(fed, FlattenSeq(v)))
  BY <1>7, <1>8, <1>9
<1>11. g[Len(v)] \in PageType
  BY <1>10 DEF Feeding, Grows, Same
<1>12. QED
  BY <1>1, <1>10, <1>11

--------------------------------------------------------------------------------
(* The inductive invariant.                                                *)

\* Frames that the app handed over wait for the token in `pending`.
Waiting(p) == ~p.token \/ p.pending # <<>>
FedOf(p, h) == [q \in Queues |-> IF Waiting(p) THEN <<>> ELSE h[q]]
Early(p, h) ==
    /\ Waiting(p) => \A q \in Queues : h[q] = OfQueue(FlattenSeq(p.pending), q)
    /\ p.stage = "up" => p.pending = <<>>

\* The app was told of an end by the relay, or by the page when a lane left.
ToldOf(p, e) ==
    /\ \A id \in e : p.told[id] = 1
    /\ \A id \in StreamIDs \ e :
         p.told[id] = 1 => carrier = "websocket-lanes" /\ p.lanes[id].entry = "gone"
    /\ carrier = "websocket-lanes" =>
         \A id \in StreamIDs : p.lanes[id].remoteClosed <=> id \in e

\* A stream of a lane of its own begins with OPEN and ends with CLOSE.
AppOf(h, s) ==
    PerLane => \A id \in StreamIDs : /\ h[id] = <<>> => s[id] = "new"
                                     /\ Begun(h[id])
                                     /\ HasClose(h[id]) => s[id] = "closed"

\* The page p, what the app handed over, its streams, what the relay has ended,
\* and whether a message was overtaken.
Held(p, h, s, e, o) ==
    /\ p \in PageType /\ h \in [Queues -> Seq(Frames)]
    /\ s \in [StreamIDs -> {"new", "open", "closed"}] /\ e \subseteq StreamIDs
    /\ AppOf(h, s) /\ \A id \in StreamIDs : p.told[id] <= 1
    /\ ~p.closed => InOrder(p, Sizes(p.pending), Len(p.pending)) /\ ToldOf(p, e)
    /\ ~p.closed /\ ~o => Follows(p, FedOf(p, h)) /\ Early(p, h)

IInv ==
    /\ carrier \in Carriers /\ overtaken \in BOOLEAN /\ posted \in Nat
    /\ Held(page, handed, streams, ended, overtaken)

\* What the queues were given.
LEMMA FedOfIs ==
    ASSUME NEW p \in PageType, NEW h \in [Queues -> Seq(Frames)], NEW s, AppOf(h, s)
    PROVE  /\ FedOf(p, h) \in [Queues -> Seq(Frames)] /\ Starts(FedOf(p, h)) /\ Starts(h)
           /\ ~Waiting(p) => FedOf(p, h) = h
<1>1. <<>> \in Seq(Frames) /\ Begun(<<>>)
  BY DEF Begun
<1>2. FedOf(p, h) \in [Queues -> Seq(Frames)]
  BY <1>1 DEF FedOf
<1>3. Starts(h)
  BY DEF AppOf, Starts
<1>4. Starts(FedOf(p, h))
  BY <1>1, <1>3, PageLimits DEF FedOf, Starts
<1>5. ~Waiting(p) => FedOf(p, h) = h
  BY DEF FedOf
<1>6. QED
  BY <1>2, <1>3, <1>4, <1>5

\* A page that has closed.
LEMMA HeldClosed ==
    ASSUME NEW p, NEW h, NEW s, NEW e, NEW o, Held(p, h, s, e, o),
           NEW r \in PageType, r.closed, r.told = p.told
    PROVE  Held(r, h, s, e, o)
BY DEF Held

\* A step that leaves what the app has handed over.
LEMMA HeldFeeding ==
    ASSUME NEW p, NEW h, NEW s, NEW e, NEW o, Held(p, h, s, e, o),
           NEW r, Feeding(p, r, Sizes(p.pending), Len(p.pending),
                          Sizes(p.pending), Len(p.pending), FedOf(p, h), FedOf(p, h))
    PROVE  Held(r, h, s, e, o)
<1> DEFINE b == Sizes(p.pending)
           i == Len(p.pending)
           fed == FedOf(p, h)
<1>1. /\ p \in PageType /\ h \in [Queues -> Seq(Frames)]
      /\ s \in [StreamIDs -> {"new", "open", "closed"}] /\ e \subseteq StreamIDs
      /\ AppOf(h, s) /\ \A id \in StreamIDs : p.told[id] <= 1
      /\ ~p.closed => InOrder(p, b, i) /\ ToldOf(p, e)
      /\ ~p.closed /\ ~o => Follows(p, fed) /\ Early(p, h)
  BY DEF Held
<1>2. /\ r \in PageType /\ r.stage = p.stage /\ r.token = p.token
      /\ r.pending = p.pending /\ r.told = p.told /\ (~r.closed => ~p.closed)
  BY DEF Feeding, Grows, Same
<1>3. ~r.closed => \A q \in Queues :
         /\ r.lanes[q].remoteClosed = p.lanes[q].remoteClosed
         /\ p.lanes[q].entry = "gone" => r.lanes[q].entry = "gone"
  BY DEF Feeding, Grows
<1>4. Starts(fed)
  BY <1>1, FedOfIs
<1>5. FedOf(r, h) = fed /\ (Early(p, h) => Early(r, h))
  BY <1>2 DEF FedOf, Waiting, Early
<1> HIDE DEF fed
<1>6. ~r.closed => InOrder(r, Sizes(r.pending), Len(r.pending))
  BY <1>1, <1>2 DEF Feeding
<1>7. ~r.closed => ToldOf(r, e)
  BY <1>1, <1>2, <1>3, PageLimits DEF ToldOf
<1>8. ~r.closed /\ ~o => Follows(r, FedOf(r, h)) /\ Early(r, h)
  BY <1>1, <1>2, <1>4, <1>5 DEF Feeding, fed
<1>9. QED
  BY <1>1, <1>2, <1>6, <1>7, <1>8 DEF Held

\* The page knows the token, and the early messages are queued.
LEMMA FlushedHeld ==
    ASSUME NEW p, NEW h, NEW s, NEW e, NEW o, Held(p, h, s, e, o), ~p.closed, p.token
    PROVE  Held(Flushed([p EXCEPT !.stage = "up", !.pending = <<>>], p.pending), h, s, e, o)
<1> DEFINE v == p.pending
           b == Sizes(v)
           i == Len(v)
           fed == FedOf(p, h)
           x == [p EXCEPT !.stage = "up", !.pending = <<>>]
           r == Flushed(x, v)
           m == FlattenSeq(v)
           more == FedAll(fed, m)
<1>1. /\ p \in PageType /\ h \in [Queues -> Seq(Frames)] /\ v \in Seq(Message)
      /\ s \in [StreamIDs -> {"new", "open", "closed"}] /\ e \subseteq StreamIDs
      /\ AppOf(h, s) /\ \A id \in StreamIDs : p.told[id] <= 1
      /\ InOrder(p, b, i) /\ ToldOf(p, e)
      /\ ~o => Follows(p, fed) /\ Early(p, h)
  BY DEF Held, PageType
<1>2. fed \in [Queues -> Seq(Frames)] /\ Starts(h)
  BY <1>1, FedOfIs
<1>3. <<>> \in Seq(Message) /\ Sizes(<<>>) = 0 /\ Len(<<>>) = 0
  BY SizesEmpty
<1>4. /\ x \in PageType /\ x.stage = "up" /\ x.pending = <<>> /\ x.lanes = p.lanes
      /\ x.token /\ ~x.closed /\ x.told = p.told /\ x.bytes = p.bytes /\ x.items = p.items
  BY <1>1, <1>3 DEF PageType
<1>5. m \in Seq(Frames)
  BY <1>1, FlattenSizes
<1> HIDE DEF x
<1>6. Feeding(x, r, b, i, 0, 0, fed, more)
  BY <1>1, <1>2, <1>4, FlushedIs
<1> HIDE DEF r, fed, more
<1>7. /\ r \in PageType /\ r.stage = "up" /\ r.token /\ r.pending = <<>> /\ r.told = p.told
  BY <1>4, <1>6 DEF Feeding, Grows, Same
<1>8. ~r.closed => \A q \in Queues :
         /\ r.lanes[q].remoteClosed = p.lanes[q].remoteClosed
         /\ p.lanes[q].entry = "gone" => r.lanes[q].entry = "gone"
  BY <1>4, <1>6 DEF Feeding, Grows
<1>9. InOrder(x, b, i)
  <2>1. OwedBytes(x) = OwedBytes(p) /\ OwedItems(x) = OwedItems(p)
        /\ BufferedBytes(x) = BufferedBytes(p)
    BY <1>4 DEF OwedBytes, OwedItems, BufferedBytes
  <2>2. PageCharged(x, b, i)
    BY <1>1, <1>4, <2>1 DEF InOrder, PageCharged
  <2>3. \A q \in Queues : LaneGood(x, x.lanes[q], q)
    BY <1>1, <1>4 DEF InOrder, LaneGood
  <2>4. QED
    BY <1>4, <2>2, <2>3 DEF InOrder
<1>10. ~o => more = h
  <2>1. SUFFICES ASSUME ~o PROVE more = h
    OBVIOUS
  <2>2. CASE v = <<>>
    <3>1. m = <<>>
      BY <2>2, FlattenNothing
    <3>2. fed = h
      BY <1>1, <2>2, FedOfIs DEF Waiting, fed
    <3>3. FedAll(fed, <<>>) = fed
      <4>1. <<>> \in Seq(Frames)
        OBVIOUS
      <4>2. QED
        BY <1>2, <4>1, FedAllIs
    <3> HIDE DEF m
    <3>4. QED
      BY <3>1, <3>2, <3>3 DEF more
  <2>3. CASE v # <<>>
    <3>1. \A q \in Queues : fed[q] = <<>> /\ h[q] = OfQueue(m, q)
      BY <1>1, <2>1, <2>3 DEF fed, FedOf, Early, Waiting
    <3>2. \A q \in Queues : <<>> \o h[q] = h[q]
      BY <1>1, ConcatEmptySeq
    <3> HIDE DEF m
    <3>3. \A q \in Queues : fed[q] \o OfQueue(m, q) = h[q]
      BY <3>1, <3>2
    <3>4. more = [q \in Queues |-> h[q]]
      BY <3>3 DEF more, FedAll
    <3>5. QED
      BY <1>1, <3>4
  <2>4. QED
    BY <2>2, <2>3
<1>11. ~o => Follows(x, fed)
  BY <1>1, <1>4 DEF Follows
<1>12. ~r.closed => InOrder(r, Sizes(r.pending), Len(r.pending))
  BY <1>3, <1>6, <1>7, <1>9 DEF Feeding
<1>13. ~r.closed => ToldOf(r, e)
  BY <1>1, <1>7, <1>8, PageLimits DEF ToldOf
<1>14. ~r.closed /\ ~o => Follows(r, h)
  BY <1>2, <1>6, <1>9, <1>10, <1>11 DEF Feeding
<1>15. ~Waiting(r) /\ Early(r, h)
  BY <1>7 DEF Waiting, Early
<1>16. FedOf(r, h) = h
  BY <1>1, <1>7, <1>15, FedOfIs
<1>17. Held(r, h, s, e, o)
  BY <1>1, <1>7, <1>12, <1>13, <1>14, <1>15, <1>16 DEF Held
<1>18. QED
  BY <1>17 DEF r, x

--------------------------------------------------------------------------------
(* Steps of one lane.                                                      *)

\* A lane that carries what it carried, and stays as good as it was.
LEMMA FeedingTouched ==
    ASSUME NEW p \in PageType, NEW q \in Queues, NEW L \in LaneType,
           L.pending = p.lanes[q].pending, L.bodies = p.lanes[q].bodies,
           L.flight = p.lanes[q].flight, Buffer(L) <= Buffer(p.lanes[q]),
           L.remoteClosed = p.lanes[q].remoteClosed,
           p.lanes[q].entry = "gone" => L.entry = "gone",
           ~p.closed /\ LaneGood(p, p.lanes[q], q) => LaneGood(p, L, q),
           NEW b \in Int, NEW i \in Int, NEW fed,
           Feeds(p.lanes[q], fed[q]) => Feeds(L, fed[q]),
           Feeds(p.lanes[q], fed[q]) /\ q \in StreamIDs
             /\ Ends(p.lanes[q], fed[q], p.told[q]) => Ends(L, fed[q], p.told[q])
    PROVE  Feeding(p, [p EXCEPT !.lanes[q] = L], b, i, b, i, fed, fed)
<1> DEFINE r == [p EXCEPT !.lanes[q] = L]
<1>1. /\ Moved(p, r, q) /\ r.lanes[q] = L
      /\ \A d, e \in Int : PageCharged(p, d, e) => PageCharged(r, d, e)
  BY Touched
<1> HIDE DEF r
<1>2. r.closed = p.closed
  BY <1>1 DEF Moved
<1>3. ~r.closed /\ InOrder(p, b, i) => LaneGood(p, L, q) /\ PageCharged(r, b, i)
  BY <1>1, <1>2 DEF InOrder
<1>4. /\ r.lanes[q].remoteClosed = p.lanes[q].remoteClosed
      /\ p.lanes[q].entry = "gone" => r.lanes[q].entry = "gone"
      /\ ~r.closed /\ InOrder(p, b, i) =>
              /\ LaneGood(p, r.lanes[q], q) /\ PageCharged(r, b, i)
              /\ Feeds(p.lanes[q], fed[q]) => Feeds(r.lanes[q], fed[q])
              /\ Feeds(p.lanes[q], fed[q]) /\ q \in StreamIDs
                   /\ Ends(p.lanes[q], fed[q], p.told[q]) => Ends(r.lanes[q], fed[q], p.told[q])
  BY <1>1, <1>3
<1>5. Feeding(p, r, b, i, b, i, fed, fed)
  BY <1>1, <1>4, FeedingMoved
<1>6. QED
  BY <1>5 DEF r

\* A lane that only stays in the map, or out of it, feeds what it fed.
LEMMA FeedsSame ==
    ASSUME NEW l, NEW L, L.pending = l.pending, L.bodies = l.bodies, L.entry = l.entry,
           L.localClosed = l.localClosed
    PROVE  \A s, t : (Feeds(l, s) => Feeds(L, s)) /\ (Ends(l, s, t) => Ends(L, s, t))
BY DEF Feeds, Ends, Carried

\* A loop that goes on.
LEMMA FeedingRuns ==
    ASSUME NEW p \in PageType, NEW r, NEW q \in Queues, Runs(p, r, q),
           NEW b \in Int, NEW i \in Int, NEW fed
    PROVE  Feeding(p, r, b, i, b, i, fed, fed)
<1> DEFINE l == p.lanes[q]
           L == r.lanes[q]
<1>1. /\ Moved(p, r, q) /\ L \in LaneType /\ Quietly(l, L) /\ Carried(L) = Carried(l)
      /\ LaneOK(l) => LaneOK(L) /\ (l.flight # NoBody => L.flight # NoBody)
  BY DEF Runs
<1>2. ASSUME InOrder(p, b, i) PROVE LaneGood(p, L, q) /\ PageCharged(r, b, i)
  <2>1. LaneGood(p, l, q) /\ PageCharged(p, b, i)
    BY <1>2 DEF InOrder
  <2>2. LaneOK(l)
    BY <2>1 DEF LaneGood
  <2>3. PageCharged(r, b, i)
    BY <2>1, <2>2, RunsCharged
  <2> HIDE DEF l, L
  <2>4. LaneGood(p, L, q)
    BY <1>1, <2>1, <2>2 DEF LaneGood, Awake, Quietly
  <2>5. QED
    BY <2>3, <2>4
<1> HIDE DEF l, L
<1>3. \A s, t : (Feeds(l, s) => Feeds(L, s)) /\ (Ends(l, s, t) => Ends(L, s, t))
  BY <1>1 DEF Feeds, Ends, Quietly
<1>4. L.remoteClosed = l.remoteClosed /\ L.entry = l.entry
  BY <1>1 DEF Quietly
<1>5. /\ r.lanes[q].remoteClosed = p.lanes[q].remoteClosed
      /\ p.lanes[q].entry = "gone" => r.lanes[q].entry = "gone"
      /\ ~r.closed /\ InOrder(p, b, i) =>
              /\ LaneGood(p, r.lanes[q], q) /\ PageCharged(r, b, i)
              /\ Feeds(p.lanes[q], fed[q]) => Feeds(r.lanes[q], fed[q])
              /\ Feeds(p.lanes[q], fed[q]) /\ q \in StreamIDs
                   /\ Ends(p.lanes[q], fed[q], p.told[q]) => Ends(r.lanes[q], fed[q], p.told[q])
  BY <1>2, <1>3, <1>4 DEF l, L
<1>6. QED
  BY <1>1, <1>5, FeedingMoved

\* The early messages are counted.
LEMMA EarlyCounted ==
    ASSUME NEW p \in PageType
    PROVE  Sizes(p.pending) \in Int /\ Len(p.pending) \in Int
<1> DEFINE v == p.pending
<1>1. v \in Seq(Message)
  BY DEF PageType
<1> HIDE DEF v
<1>2. Sizes(v) \in Nat /\ Len(v) \in Nat
  BY <1>1, SizesIs
<1>3. QED
  BY <1>2 DEF v

\* A step of a held page that touches one lane.
LEMMA HeldTouched ==
    ASSUME NEW p, NEW h, NEW s, NEW e, NEW o, Held(p, h, s, e, o),
           NEW q \in Queues, NEW L \in LaneType,
           L.pending = p.lanes[q].pending, L.bodies = p.lanes[q].bodies,
           L.flight = p.lanes[q].flight, L.entry = p.lanes[q].entry,
           L.localClosed = p.lanes[q].localClosed, L.remoteClosed = p.lanes[q].remoteClosed,
           Buffer(L) <= Buffer(p.lanes[q]),
           ~p.closed /\ LaneGood(p, p.lanes[q], q) => LaneGood(p, L, q)
    PROVE  Held([p EXCEPT !.lanes[q] = L], h, s, e, o)
<1> DEFINE fed == FedOf(p, h)
           b == Sizes(p.pending)
           i == Len(p.pending)
           r == [p EXCEPT !.lanes[q] = L]
           l == p.lanes[q]
<1>1. p \in PageType /\ p.pending \in Seq(Message)
  BY DEF Held, PageType
<1>2. b \in Int /\ i \in Int
  BY <1>1, EarlyCounted
<1>3. \A x, t : (Feeds(l, x) => Feeds(L, x)) /\ (Ends(l, x, t) => Ends(L, x, t))
  BY FeedsSame
<1>4. /\ Feeds(p.lanes[q], fed[q]) => Feeds(L, fed[q])
      /\ Feeds(p.lanes[q], fed[q]) /\ q \in StreamIDs
             /\ Ends(p.lanes[q], fed[q], p.told[q]) => Ends(L, fed[q], p.told[q])
  BY <1>3
<1> HIDE DEF fed, b, i
<1>5. Feeding(p, r, b, i, b, i, fed, fed)
  BY <1>1, <1>2, <1>4, FeedingTouched
<1> HIDE DEF r
<1>6. Held(r, h, s, e, o)
  BY <1>5, HeldFeeding DEF fed, b, i
<1>7. QED
  BY <1>6 DEF r

\* A loop of a held page goes on.
LEMMA HeldRuns ==
    ASSUME NEW p, NEW h, NEW s, NEW e, NEW o, Held(p, h, s, e, o),
           NEW q \in Queues, NEW r, Runs(p, r, q)
    PROVE  Held(r, h, s, e, o)
<1> DEFINE fed == FedOf(p, h)
           b == Sizes(p.pending)
           i == Len(p.pending)
<1>1. p \in PageType /\ p.pending \in Seq(Message)
  BY DEF Held, PageType
<1>2. b \in Int /\ i \in Int
  BY <1>1, EarlyCounted
<1> HIDE DEF fed, b, i
<1>3. Feeding(p, r, b, i, b, i, fed, fed)
  BY <1>1, <1>2, FeedingRuns
<1>4. QED
  BY <1>3, HeldFeeding DEF fed, b, i

\* What a lane of an open page is.
LEMMA HeldLane ==
    ASSUME NEW p, NEW h, NEW s, NEW e, NEW o, Held(p, h, s, e, o), NEW q \in Queues
    PROVE  /\ p \in PageType /\ p.lanes[q] \in LaneType
           /\ ~p.closed => LaneGood(p, p.lanes[q], q)
BY DEF Held, InOrder, PageType

\* The end of createSession.
LEMMA WelcomedHeld ==
    ASSUME NEW p, NEW h, NEW s, NEW e, NEW o, Held(p, h, s, e, o), p.closed \/ p.token
    PROVE  Held(Welcomed(p), h, s, e, o)
<1> DEFINE x == [p EXCEPT !.stage = "up", !.pending = <<>>]
           up == Flushed(x, p.pending)
           end == [p EXCEPT !.stage = "ended", !.deleted = TRUE]
           l == up.lanes[0]
           polls == ~up.closed
           L == [l EXCEPT !.entry = "present", !.polling = polls]
           r == [up EXCEPT !.lanes[0] = L]
<1>1. p \in PageType
  BY DEF Held
<1>2. CASE p.closed
  <2>1. Welcomed(p) = end
    BY <1>2 DEF Welcomed
  <2>2. end \in PageType /\ end.closed /\ end.told = p.told
    BY <1>1, <1>2 DEF PageType
  <2> HIDE DEF end
  <2>3. QED
    BY <2>1, <2>2, HeldClosed
<1>3. CASE ~p.closed
  <2>1. Held(up, h, s, e, o)
    BY <1>3, FlushedHeld
  <2>2. Welcomed(p) = IF WebSockets THEN up
                      ELSE [up EXCEPT !.lanes[0].entry = "present", !.lanes[0].polling = ~up.closed]
    BY <1>3 DEF Welcomed
  <2> HIDE DEF up
  <2>3. CASE WebSockets
    BY <2>1, <2>2, <2>3
  <2>4. CASE ~WebSockets
    <3>1. up \in PageType /\ 0 \in Queues
      BY <2>1, PageLimits DEF Held
    <3>2. l \in LaneType /\ (~up.closed => LaneGood(up, l, 0))
      BY <2>1, <3>1, HeldLane
    <3>3. Welcomed(p) = r
      <4>1. [up EXCEPT !.lanes[0].entry = "present", !.lanes[0].polling = ~up.closed] = r
        BY <3>1 DEF PageType
      <4>2. QED
        BY <2>2, <2>4, <4>1
    <3>4. polls \in BOOLEAN
      BY <3>1 DEF PageType
    <3> HIDE DEF l, polls
    <3>5. /\ L \in LaneType /\ L.pending = l.pending /\ L.bodies = l.bodies
          /\ L.flight = l.flight /\ L.entry = "present" /\ L.socket = l.socket
          /\ L.localClosed = l.localClosed /\ L.remoteClosed = l.remoteClosed
          /\ L.buffered = l.buffered /\ L.polling = polls /\ L.bytes = l.bytes
          /\ L.items = l.items
      BY <3>2, <3>4 DEF LaneType
    <3> HIDE DEF L
    <3>6. Buffer(L) <= Buffer(l)
      <4>1. Buffer(L) = Buffer(l) /\ Buffer(l) \in Nat
        BY <3>2, <3>5, LaneHolds DEF Buffer
      <4>2. QED
        BY <4>1
    <3>7. CASE up.closed
      <4>1. Moved(up, r, 0)
        BY <3>1, <3>5, LaneSet
      <4>2. r \in PageType /\ r.closed /\ r.told = up.told
        BY <3>7, <4>1 DEF Moved
      <4> HIDE DEF r
      <4>3. QED
        BY <2>1, <3>3, <4>2, HeldClosed
    <3>8. CASE ~up.closed
      <4>1. LaneGood(up, l, 0)
        BY <3>2, <3>8
      <4>2. OwedB(L) = OwedB(l) /\ OwedI(L) = OwedI(l) /\ Carried(L) = Carried(l)
        BY <3>5 DEF OwedB, OwedI, Carried
      <4>3. LaneGood(up, L, 0)
        BY <2>4, <3>5, <3>8, <4>1, <4>2 DEF LaneGood, LaneOK, Awake, polls
      <4>4. l.entry # "gone"
        BY <2>4, <4>1 DEF LaneGood
      <4>5. \A x1, t : (Feeds(l, x1) => Feeds(L, x1)) /\ Ends(L, x1, t)
        BY <3>2, <3>5, <4>2, <4>4 DEF Feeds, Ends, LaneType
      <4> DEFINE fed == FedOf(up, h)
                 b == Sizes(up.pending)
                 i == Len(up.pending)
      <4>6. b \in Int /\ i \in Int
        BY <3>1, EarlyCounted
      <4> HIDE DEF fed, b, i
      <4>7. /\ Feeds(up.lanes[0], fed[0]) => Feeds(L, fed[0])
            /\ Feeds(up.lanes[0], fed[0]) /\ 0 \in StreamIDs
                 /\ Ends(up.lanes[0], fed[0], up.told[0]) => Ends(L, fed[0], up.told[0])
        BY <4>5 DEF l
      <4>8. Feeding(up, r, b, i, b, i, fed, fed)
        BY <3>1, <3>5, <3>6, <4>3, <4>4, <4>6, <4>7, FeedingTouched DEF l
      <4> HIDE DEF r
      <4>9. QED
        BY <2>1, <3>3, <4>8, HeldFeeding DEF fed, b, i
    <3>9. QED
      BY <3>7, <3>8
  <2>5. QED
    BY <2>3, <2>4
<1>4. QED
  BY <1>2, <1>3

--------------------------------------------------------------------------------
(* The actions.                                                            *)

\* A step that only moves the session on.
LEMMA HeldStage ==
    ASSUME NEW p, NEW h, NEW s, NEW e, NEW o, Held(p, h, s, e, o), NEW r \in PageType,
           r.lanes = p.lanes, r.bytes = p.bytes, r.items = p.items, r.pending = p.pending,
           r.told = p.told, r.closed = p.closed, p.token => r.token,
           r.stage \in {"creating", "welcome", "opening"},
           r.stage \in {"welcome", "opening"} => r.token,
           r.stage \in {"creating", "welcome"} => p.stage \in {"new", "creating"}
    PROVE  Held(r, h, s, e, o)
<1>1. CASE p.closed
  BY <1>1, HeldClosed
<1>2. CASE ~p.closed
  <2> DEFINE b == Sizes(p.pending)
             i == Len(p.pending)
  <2>1. /\ p \in PageType /\ h \in [Queues -> Seq(Frames)] /\ AppOf(h, s)
        /\ InOrder(p, b, i) /\ ToldOf(p, e)
        /\ ~o => Follows(p, FedOf(p, h)) /\ Early(p, h)
    BY <1>2 DEF Held
  <2>2. OwedBytes(r) = OwedBytes(p) /\ OwedItems(r) = OwedItems(p)
        /\ BufferedBytes(r) = BufferedBytes(p)
    BY DEF OwedBytes, OwedItems, BufferedBytes
  <2>3. InOrder(r, b, i)
    <3>1. PageCharged(r, b, i)
      BY <2>1, <2>2 DEF InOrder, PageCharged
    <3>2. \A q \in Queues : LaneGood(r, r.lanes[q], q)
      BY <2>1 DEF InOrder, LaneGood
    <3>3. QED
      BY <3>1, <3>2 DEF InOrder
  <2>4. ToldOf(r, e)
    BY <2>1 DEF ToldOf
  <2>5. ASSUME ~o PROVE FedOf(r, h) = FedOf(p, h) /\ Early(r, h)
    <3>1. Early(p, h)
      BY <2>1, <2>5
    <3>2. Early(r, h)
      BY <3>1 DEF Early, Waiting
    <3>3. Waiting(r) => FedOf(r, h) = FedOf(p, h)
      BY DEF FedOf, Waiting
    <3>4. ASSUME ~Waiting(r), Waiting(p) PROVE \A q \in Queues : h[q] = <<>>
      <4>1. p.pending = <<>>
        BY <3>4 DEF Waiting
      <4>2. \A q \in Queues : OfQueue(<<>>, q) = <<>>
        BY OfStreamNothing DEF OfQueue
      <4>3. QED
        BY <3>1, <3>4, <4>1, <4>2, FlattenNothing DEF Early
    <3>5. ~Waiting(r) => FedOf(r, h) = FedOf(p, h)
      BY <3>4 DEF FedOf
    <3>6. QED
      BY <3>2, <3>3, <3>5
  <2>6. ~o => Follows(r, FedOf(r, h))
    BY <2>1, <2>5 DEF Follows
  <2>7. QED
    BY <2>3, <2>4, <2>5, <2>6 DEF Held
<1>3. QED
  BY <1>1, <1>2

\* The first message makes the page create the session.
LEMMA HelloStep ==
    ASSUME Held(page, handed, streams, ended, overtaken), Hello
    PROVE  Held(page', handed, streams, ended, overtaken)
<1> DEFINE r == [page EXCEPT !.stage = "creating"]
<1>1. page \in PageType /\ page.stage = "new" /\ page' = r
  BY DEF Held, Hello, Becomes
<1>2. /\ r \in PageType /\ r.lanes = page.lanes /\ r.bytes = page.bytes
      /\ r.items = page.items /\ r.pending = page.pending /\ r.told = page.told
      /\ r.closed = page.closed /\ r.token = page.token /\ r.stage = "creating"
  BY <1>1 DEF PageType
<1> HIDE DEF r
<1>3. Held(r, handed, streams, ended, overtaken)
  BY <1>1, <1>2, HeldStage
<1>4. QED
  BY <1>1, <1>3

\* The response to the creation brings the token, or ends a closed page.
LEMMA CreateAnsweredStep ==
    ASSUME Held(page, handed, streams, ended, overtaken), CreateAnswered
    PROVE  Held(page', handed, streams, ended, overtaken)
<1> DEFINE r == [page EXCEPT !.stage = "welcome", !.token = TRUE]
           end == [page EXCEPT !.stage = "ended", !.token = TRUE, !.deleted = TRUE]
<1>1. page \in PageType /\ page.stage = "creating" /\ page' = IF page.closed THEN end ELSE r
  BY DEF Held, CreateAnswered, Becomes
<1>2. /\ r \in PageType /\ r.lanes = page.lanes /\ r.bytes = page.bytes
      /\ r.items = page.items /\ r.pending = page.pending /\ r.told = page.told
      /\ r.closed = page.closed /\ r.token /\ r.stage = "welcome"
  BY <1>1 DEF PageType
<1>3. end \in PageType /\ end.told = page.told /\ end.closed = page.closed
  BY <1>1 DEF PageType
<1> HIDE DEF r, end
<1>4. Held(r, handed, streams, ended, overtaken)
  BY <1>1, <1>2, HeldStage
<1>5. page.closed => Held(end, handed, streams, ended, overtaken)
  BY <1>3, HeldClosed
<1>6. QED
  BY <1>1, <1>4, <1>5

\* The session could not be created.
LEMMA EndedStep ==
    ASSUME Held(page, handed, streams, ended, overtaken),
           page' = [Fail(page) EXCEPT !.stage = "ended"]
    PROVE  Held(page', handed, streams, ended, overtaken)
<1> DEFINE c == Close(page)
           r == [c EXCEPT !.stage = "ended"]
<1>1. page' = r /\ page \in PageType
  BY DEF Fail, Held
<1>2. c \in PageType /\ c.closed /\ c.told = page.told
  BY <1>1, CloseIs DEF Same
<1> HIDE DEF c
<1>3. r \in PageType /\ r.closed /\ r.told = page.told
  BY <1>2 DEF PageType
<1> HIDE DEF r
<1>4. Held(r, handed, streams, ended, overtaken)
  BY <1>3, HeldClosed
<1>5. QED
  BY <1>1, <1>4

\* WELCOME opens the socket of a multiplexed carrier, or lets the early messages go.
LEMMA WelcomeReadStep ==
    ASSUME Held(page, handed, streams, ended, overtaken), WelcomeRead
    PROVE  Held(page', handed, streams, ended, overtaken)
<1>1. page \in PageType /\ page.stage = "welcome" /\ 0 \in Queues
  BY PageLimits DEF Held, WelcomeRead
<1>2. page.closed \/ page.token
  BY <1>1 DEF Held, InOrder
<1>3. CASE carrier # "websocket"
  <2>1. page' = Welcomed(page)
    BY <1>3 DEF WelcomeRead, Becomes
  <2>2. Held(Welcomed(page), handed, streams, ended, overtaken)
    BY <1>2, WelcomedHeld
  <2>3. QED
    BY <2>1, <2>2
<1>4. CASE carrier = "websocket"
  <2> DEFINE x == [page EXCEPT !.stage = "opening"]
             l == x.lanes[0]
             L == [l EXCEPT !.socket = "connecting"]
             r == [x EXCEPT !.lanes[0] = L]
  <2>1. page' = [page EXCEPT !.stage = "opening", !.lanes[0].socket = "connecting"]
    BY <1>4 DEF WelcomeRead, Becomes
  <2>2. page' = r
    BY <1>1, <2>1 DEF PageType
  <2>3. /\ x \in PageType /\ x.lanes = page.lanes /\ x.bytes = page.bytes
        /\ x.items = page.items /\ x.pending = page.pending /\ x.told = page.told
        /\ x.closed = page.closed /\ x.token = page.token /\ x.stage = "opening"
    BY <1>1 DEF PageType
  <2> HIDE DEF x
  <2>4. l \in LaneType /\ l = page.lanes[0] /\ (~page.closed => LaneGood(page, page.lanes[0], 0))
    BY <1>1, <2>3, HeldLane
  <2> HIDE DEF l
  <2>5. /\ L \in LaneType /\ L.pending = l.pending /\ L.bodies = l.bodies
        /\ L.flight = l.flight /\ L.entry = l.entry /\ L.socket = "connecting"
        /\ L.localClosed = l.localClosed /\ L.remoteClosed = l.remoteClosed
        /\ L.buffered = l.buffered /\ L.polling = l.polling /\ L.bytes = l.bytes
        /\ L.items = l.items
    BY <2>4 DEF LaneType
  <2> HIDE DEF L
  <2>6. CASE page.closed
    <3>1. Moved(x, r, 0)
      BY <1>1, <2>3, <2>5, LaneSet
    <3>2. r \in PageType /\ r.closed /\ r.told = page.told
      BY <2>3, <2>6, <3>1 DEF Moved
    <3> HIDE DEF r
    <3>3. QED
      BY <2>2, <3>2, HeldClosed
  <2>7. CASE ~page.closed
    <3>1. Held(x, handed, streams, ended, overtaken)
      BY <1>2, <2>3, <2>7, HeldStage
    <3>2. ~PerLane /\ WebSockets
      BY <1>4 DEF PerLane, WebSockets
    <3>3. LaneGood(page, l, 0) /\ l.socket = "none"
      BY <1>1, <2>4, <2>7, <3>2 DEF LaneGood
    <3>4. Buffer(L) <= Buffer(l)
      BY <2>5, <3>3 DEF Buffer
    <3>5. LaneGood(x, L, 0)
      <4>1. LaneOK(L)
        BY <2>5, <3>2, <3>3 DEF LaneGood, LaneOK
      <4>2. QED
        BY <1>2, <2>3, <2>5, <2>7, <3>2, <4>1 DEF LaneGood, Awake
    <3>6. Held(r, handed, streams, ended, overtaken)
      BY <1>1, <2>5, <3>1, <3>4, <3>5, HeldTouched DEF l
    <3>7. QED
      BY <2>2, <3>6
  <2>8. QED
    BY <2>6, <2>7
<1>5. QED
  BY <1>3, <1>4

\* fail and close.
LEMMA CloseStep ==
    ASSUME Held(page, handed, streams, ended, overtaken)
    PROVE  Held(Close(page), handed, streams, ended, overtaken)
<1>1. page \in PageType
  BY DEF Held
<1>2. Close(page) \in PageType /\ Close(page).closed /\ Close(page).told = page.told
  BY <1>1, CloseIs DEF Same
<1>3. QED
  BY <1>2, HeldClosed

\* A POST has failed for good, and the page with it.
LEMMA UpFailsStep ==
    ASSUME Held(page, handed, streams, ended, overtaken), NEW q \in Queues, UpFails(q)
    PROVE  Held(page', handed, streams, ended, overtaken)
<1> DEFINE c == Close(page)
           l == c.lanes[q]
           L == [l EXCEPT !.flight = NoBody]
           r == [c EXCEPT !.lanes[q] = L]
<1>1. page' = [c EXCEPT !.lanes[q].flight = NoBody] /\ page \in PageType
  BY DEF UpFails, Becomes, Fail, Held
<1>2. c \in PageType /\ c.closed /\ c.told = page.told
  BY <1>1, CloseIs DEF Same
<1> HIDE DEF c
<1>3. page' = r
  BY <1>1, <1>2 DEF PageType
<1>4. l \in LaneType
  BY <1>2 DEF PageType
<1>5. NoBody \in [bytes : Nat, items : Nat]
  BY DEF NoBody
<1> HIDE DEF l
<1>6. L \in LaneType
  BY <1>4, <1>5 DEF LaneType
<1> HIDE DEF L
<1>7. Moved(c, r, q)
  BY <1>2, <1>6, LaneSet
<1>8. r \in PageType /\ r.closed /\ r.told = page.told
  BY <1>2, <1>7 DEF Moved
<1> HIDE DEF r
<1>9. QED
  BY <1>3, <1>8, HeldClosed

\* The fields of a lane that a step may leave alone.
Alike(l, L) ==
    /\ L \in LaneType /\ L.pending = l.pending /\ L.bodies = l.bodies /\ L.flight = l.flight
    /\ L.entry = l.entry /\ L.bytes = l.bytes /\ L.items = l.items
    /\ L.localClosed = l.localClosed /\ L.remoteClosed = l.remoteClosed
    /\ L.polling = l.polling

\* A closed page stays closed whatever happens to a lane.
LEMMA ClosedTouched ==
    ASSUME NEW p, NEW h, NEW s, NEW e, NEW o, Held(p, h, s, e, o), p.closed,
           NEW q \in Queues, NEW L \in LaneType
    PROVE  Held([p EXCEPT !.lanes[q] = L], h, s, e, o)
<1> DEFINE r == [p EXCEPT !.lanes[q] = L]
<1>1. p \in PageType
  BY DEF Held
<1>2. Moved(p, r, q)
  BY <1>1, LaneSet
<1> HIDE DEF r
<1>3. r \in PageType /\ r.closed /\ r.told = p.told
  BY <1>2 DEF Moved
<1>4. Held(r, h, s, e, o)
  BY <1>3, HeldClosed
<1>5. QED
  BY <1>4 DEF r

\* A microtask or a timer has been taken, and the loop goes on.
LEMMA WakeStep ==
    ASSUME Held(page, handed, streams, ended, overtaken), NEW q \in Queues,
           NEW L, Alike(page.lanes[q], L), L.socket = page.lanes[q].socket,
           L.buffered = page.lanes[q].buffered, L.opened = page.lanes[q].opened
    PROVE  Held(RunSocketUp([page EXCEPT !.lanes[q] = L], q), handed, streams, ended, overtaken)
<1> DEFINE l == page.lanes[q]
           x == [page EXCEPT !.lanes[q] = L]
<1>1. l \in LaneType /\ L \in LaneType
  BY HeldLane DEF Alike
<1>2. Buffer(L) = Buffer(l) /\ Buffer(l) \in Nat
  BY <1>1, LaneHolds DEF Buffer
<1>3. OwedB(L) = OwedB(l) /\ OwedI(L) = OwedI(l)
  BY DEF OwedB, OwedI, Alike
<1>4. LaneGood(page, l, q) => LaneGood(page, L, q)
  BY <1>3 DEF LaneGood, LaneOK, Awake, Alike
<1>5. Held(x, handed, streams, ended, overtaken)
  <2>1. Buffer(L) <= Buffer(l)
    BY <1>2
  <2>2. QED
    BY <1>1, <1>4, <2>1, HeldTouched DEF Alike
<1> HIDE DEF x
<1>6. x \in PageType
  BY <1>5 DEF Held
<1>7. Runs(x, RunSocketUp(x, q), q)
  BY <1>6, SocketRuns
<1>8. Held(RunSocketUp(x, q), handed, streams, ended, overtaken)
  BY <1>5, <1>7, HeldRuns
<1>9. QED
  BY <1>8 DEF x

\* A microtask lets the loop of a socket go on.
LEMMA MicrotaskStep ==
    ASSUME Held(page, handed, streams, ended, overtaken), NEW q \in Queues, Microtask(q)
    PROVE  Held(page', handed, streams, ended, overtaken)
<1> DEFINE l == page.lanes[q]
           L == [l EXCEPT !.microtask = FALSE]
<1>1. page \in PageType /\ l \in LaneType
  BY HeldLane
<1>2. [page EXCEPT !.lanes[q].microtask = FALSE] = [page EXCEPT !.lanes[q] = L]
  BY <1>1 DEF PageType
<1>3. page' = RunSocketUp([page EXCEPT !.lanes[q] = L], q)
  BY <1>2 DEF Microtask
<1>4. Alike(l, L) /\ L.socket = l.socket /\ L.buffered = l.buffered /\ L.opened = l.opened
  <2> HIDE DEF l
  <2>1. QED
    BY <1>1 DEF Alike, LaneType
<1> HIDE DEF L
<1>5. QED
  BY <1>3, <1>4, WakeStep

\* A timer lets the loop of a socket go on.
LEMMA TimerStep ==
    ASSUME Held(page, handed, streams, ended, overtaken), NEW q \in Queues, Timer(q)
    PROVE  Held(page', handed, streams, ended, overtaken)
<1> DEFINE l == page.lanes[q]
           L == [l EXCEPT !.timer = FALSE]
<1>1. page \in PageType /\ l \in LaneType
  BY HeldLane
<1>2. [page EXCEPT !.lanes[q].timer = FALSE] = [page EXCEPT !.lanes[q] = L]
  BY <1>1 DEF PageType
<1>3. page' = RunSocketUp([page EXCEPT !.lanes[q] = L], q)
  BY <1>2 DEF Timer, Becomes
<1>4. Alike(l, L) /\ L.socket = l.socket /\ L.buffered = l.buffered /\ L.opened = l.opened
  <2> HIDE DEF l
  <2>1. QED
    BY <1>1 DEF Alike, LaneType
<1> HIDE DEF L
<1>5. QED
  BY <1>3, <1>4, WakeStep

\* What the browser hands to the network is buffered no longer.
LEMMA SocketDrainsStep ==
    ASSUME Held(page, handed, streams, ended, overtaken), NEW q \in Queues, SocketDrains(q)
    PROVE  Held(page', handed, streams, ended, overtaken)
<1>1. page \in PageType /\ page.lanes[q] \in LaneType /\ page.lanes[q].socket = "open"
  BY HeldLane DEF SocketDrains
<1>2. PICK left \in 0 .. page.lanes[q].buffered - 1 :
           page' = [page EXCEPT !.lanes[q].buffered = left]
  BY DEF SocketDrains, Becomes
<1> DEFINE l == page.lanes[q]
           L == [l EXCEPT !.buffered = left]
<1>3. page' = [page EXCEPT !.lanes[q] = L]
  BY <1>1, <1>2 DEF PageType
<1>4. l.buffered \in Nat
  BY <1>1, LaneHolds
<1>5. left \in Nat /\ left <= l.buffered
  BY <1>2, <1>4
<1> HIDE DEF l
<1>6. Alike(l, L) /\ L.socket = l.socket /\ L.buffered = left /\ L.opened = l.opened
  BY <1>1, <1>5 DEF Alike, LaneType, l
<1> HIDE DEF L
<1>7. Buffer(L) <= Buffer(l)
  BY <1>1, <1>5, <1>6 DEF Buffer, l
<1>8. OwedB(L) = OwedB(l) /\ OwedI(L) = OwedI(l)
  BY <1>6 DEF OwedB, OwedI, Alike
<1>9. LaneGood(page, l, q) => LaneGood(page, L, q)
  BY <1>1, <1>6, <1>8 DEF LaneGood, LaneOK, Awake, Alike, l
<1>10. QED
  BY <1>3, <1>6, <1>7, <1>9, HeldTouched DEF Alike, l

\* onopen of a lane of its own, of the multiplexed socket, and of one that comes too late.
LEMMA SocketOpensStep ==
    ASSUME Held(page, handed, streams, ended, overtaken), NEW q \in Queues, SocketOpens(q)
    PROVE  Held(page', handed, streams, ended, overtaken)
<1> DEFINE l == page.lanes[q]
           O == [l EXCEPT !.socket = "open"]
           x == [page EXCEPT !.lanes[q] = O]
           L == [O EXCEPT !.opened = TRUE]
           y == [page EXCEPT !.lanes[q] = L]
           C == [l EXCEPT !.socket = "closing"]
           c == [page EXCEPT !.lanes[q] = C]
           opened == [page EXCEPT !.lanes[q].socket = "open"]
<1>1. page \in PageType /\ l \in LaneType /\ l.socket = "connecting"
      /\ (~page.closed => LaneGood(page, l, q))
  BY HeldLane DEF SocketOpens
<1>2. page' = IF ~PerLane THEN Welcomed(opened)
              ELSE IF page.closed \/ l.entry = "gone"
              THEN [page EXCEPT !.lanes[q].socket = "closing"]
              ELSE RunSocketUp([opened EXCEPT !.lanes[q].opened = TRUE], q)
  BY DEF SocketOpens, Becomes
<1>3. opened = x /\ [page EXCEPT !.lanes[q].socket = "closing"] = c
      /\ [opened EXCEPT !.lanes[q].opened = TRUE] = y
  <2>1. opened = x /\ [page EXCEPT !.lanes[q].socket = "closing"] = c
    BY <1>1 DEF PageType
  <2>2. [x EXCEPT !.lanes[q].opened = TRUE] = y
    BY <1>1 DEF PageType
  <2>3. QED
    BY <2>1, <2>2
<1> HIDE DEF l
<1>4. /\ Alike(l, O) /\ O.socket = "open" /\ O.buffered = l.buffered
      /\ Alike(l, L) /\ L.socket = "open" /\ L.buffered = l.buffered
      /\ C \in LaneType
  BY <1>1 DEF Alike, LaneType
<1> HIDE DEF O, L, C
<1>5. page' = IF ~PerLane THEN Welcomed(x)
              ELSE IF page.closed \/ l.entry = "gone" THEN c ELSE RunSocketUp(y, q)
  BY <1>2, <1>3
<1>6. CASE page.closed
  <2>1. /\ Held(x, handed, streams, ended, overtaken)
        /\ Held(c, handed, streams, ended, overtaken)
    BY <1>4, <1>6, ClosedTouched DEF Alike
  <2>2. x.closed
    BY <1>1, <1>6 DEF PageType
  <2> HIDE DEF x
  <2>3. Held(Welcomed(x), handed, streams, ended, overtaken)
    BY <2>1, <2>2, WelcomedHeld
  <2>4. QED
    BY <1>5, <1>6, <2>1, <2>3
<1>7. CASE ~page.closed
  <2>1. LaneGood(page, l, q) /\ l.buffered = 0 /\ WebSockets /\ page.token
    BY <1>1, <1>7 DEF LaneGood, LaneOK
  <2>2. ASSUME NEW M, Alike(l, M), M.socket = "open", M.buffered = l.buffered
        PROVE  Held([page EXCEPT !.lanes[q] = M], handed, streams, ended, overtaken)
    <3>1. OwedB(M) = OwedB(l) /\ OwedI(M) = OwedI(l)
      BY <2>2 DEF OwedB, OwedI, Alike
    <3>2. LaneGood(page, M, q)
      <4>1. l.entry = "gone" /\ PerLane => FALSE
        BY <1>1, <2>1 DEF LaneGood, LaneOK
      <4>2. l.entry = "absent" /\ PerLane => FALSE
        BY <1>1, <2>1 DEF LaneGood, LaneOK
      <4>3. LaneOK(M)
        BY <1>1, <2>1, <2>2, <3>1, <4>1, <4>2 DEF LaneGood, LaneOK, Alike
      <4>4. Awake(M)
        BY <2>1, <2>2 DEF Awake
      <4>5. QED
        BY <1>1, <2>1, <2>2, <4>3, <4>4 DEF LaneGood, Alike
    <3>3. Buffer(M) <= Buffer(l)
      BY <1>1, <2>1, <2>2 DEF Buffer
    <3>4. QED
      BY <2>2, <3>2, <3>3, HeldTouched DEF Alike, l
  <2>3. CASE ~PerLane
    <3>1. Held(x, handed, streams, ended, overtaken)
      BY <1>4, <2>2
    <3>2. x.token
      BY <1>1, <2>1 DEF PageType
    <3> HIDE DEF x
    <3>3. QED
      BY <1>5, <2>3, <3>1, <3>2, WelcomedHeld
  <2>4. CASE PerLane
    <3>1. l.entry # "gone"
      BY <1>1, <2>1, <2>4 DEF LaneGood, LaneOK
    <3>2. Held(y, handed, streams, ended, overtaken)
      BY <1>4, <2>2
    <3> HIDE DEF y
    <3>3. y \in PageType
      BY <3>2 DEF Held
    <3>4. Runs(y, RunSocketUp(y, q), q)
      BY <3>3, SocketRuns
    <3>5. Held(RunSocketUp(y, q), handed, streams, ended, overtaken)
      BY <3>2, <3>4, HeldRuns
    <3>6. QED
      BY <1>5, <1>7, <2>4, <3>1, <3>5
  <2>5. QED
    BY <2>3, <2>4
<1>8. QED
  BY <1>6, <1>7

\* A lane of http that has been acknowledged, polls if it is in the map, and
\* goes on with its queue.
LEMMA UpAckedStep ==
    ASSUME Held(page, handed, streams, ended, overtaken), NEW q \in Queues, UpAcked(q)
    PROVE  Held(page', handed, streams, ended, overtaken)
<1> DEFINE l == page.lanes[q]
           x == BodySent(page, q)
           X == x.lanes[q]
           P == [X EXCEPT !.polling = TRUE]
           polls == PerLane /\ ~page.closed /\ l.entry = "present"
           y == IF polls THEN [x EXCEPT !.lanes[q] = P] ELSE x
           Y == y.lanes[q]
           r == RunHTTPUp(y, q)
           b == Sizes(page.pending)
           i == Len(page.pending)
           fed == FedOf(page, handed)
<1>1. page \in PageType /\ l \in LaneType /\ l.flight # NoBody
      /\ (~page.closed => LaneGood(page, l, q)) /\ b \in Int /\ i \in Int
  BY HeldLane, EarlyCounted DEF UpAcked
<1>2. /\ Moved(page, x, q) /\ X \in LaneType /\ Quietly(l, X)
      /\ x.bytes = page.bytes - l.flight.bytes /\ x.items = page.items - l.flight.items
      /\ X.pending = l.pending /\ X.bodies = l.bodies /\ X.flight = NoBody
      /\ X.bytes = (IF PerLane THEN l.bytes - l.flight.bytes ELSE l.bytes)
      /\ X.items = (IF PerLane THEN l.items - l.flight.items ELSE l.items)
      /\ X.buffered = l.buffered
  BY <1>1, SentIs
<1>3. page' = RunHTTPUp(IF PerLane THEN StartPoll(x, q) ELSE x, q)
  BY DEF UpAcked, Becomes
<1> HIDE DEF x
<1>4. x \in PageType /\ x.closed = page.closed /\ X.entry = l.entry
  BY <1>2 DEF Moved, Quietly
<1>5. (IF PerLane THEN StartPoll(x, q) ELSE x) = y
  <2>1. [x EXCEPT !.lanes[q].polling = TRUE] = [x EXCEPT !.lanes[q] = P]
    BY <1>4 DEF PageType
  <2>2. QED
    BY <1>4, <2>1 DEF StartPoll
<1> HIDE DEF X, l
<1>6. /\ P \in LaneType /\ P.pending = X.pending /\ P.bodies = X.bodies /\ P.flight = X.flight
      /\ P.entry = X.entry /\ P.socket = X.socket /\ P.polling = TRUE
      /\ P.localClosed = X.localClosed /\ P.remoteClosed = X.remoteClosed
      /\ P.buffered = X.buffered /\ P.bytes = X.bytes /\ P.items = X.items
  BY <1>2 DEF LaneType
<1> HIDE DEF P
<1>7. /\ Moved(page, y, q) /\ Y \in LaneType
      /\ y.bytes = page.bytes - l.flight.bytes /\ y.items = page.items - l.flight.items
      /\ Y.pending = l.pending /\ Y.bodies = l.bodies /\ Y.flight = NoBody
      /\ Y.bytes = (IF PerLane THEN l.bytes - l.flight.bytes ELSE l.bytes)
      /\ Y.items = (IF PerLane THEN l.items - l.flight.items ELSE l.items)
      /\ Y.buffered = l.buffered /\ Y.socket = l.socket /\ Y.entry = l.entry
      /\ Y.localClosed = l.localClosed /\ Y.remoteClosed = l.remoteClosed
      /\ Y.polling = (IF polls THEN TRUE ELSE l.polling)
  <2>1. CASE polls
    <3> DEFINE z == [x EXCEPT !.lanes[q] = P]
    <3>1. y = z
      BY <2>1
    <3>2. Moved(x, z, q) /\ z.lanes[q] = P /\ z.bytes = x.bytes /\ z.items = x.items
      BY <1>4, <1>6, LaneSet
    <3> HIDE DEF z, y, polls
    <3>3. Moved(page, z, q)
      BY <1>2, <3>2 DEF Moved
    <3>4. QED
      BY <1>2, <1>6, <2>1, <3>1, <3>2, <3>3 DEF Quietly
  <2>2. CASE ~polls
    <3>1. y = x
      BY <2>2
    <3> HIDE DEF y, polls
    <3>2. QED
      BY <1>2, <2>2, <3>1 DEF Quietly, X
  <2>3. QED
    BY <2>1, <2>2
<1> HIDE DEF y
<1>8. y \in PageType /\ y.closed = page.closed /\ y.told = page.told
  BY <1>7 DEF Moved
<1>9. page' = r /\ Moved(y, r, q)
  BY <1>3, <1>5, <1>8, HTTPRuns
<1>10. CASE page.closed
  <2>1. r \in PageType /\ r.closed /\ r.told = page.told
    BY <1>8, <1>9, <1>10 DEF Moved
  <2>2. QED
    BY <1>9, <2>1, HeldClosed
<1>11. CASE ~page.closed
  <2>1. LaneGood(page, l, q) /\ ~WebSockets
    BY <1>1, <1>11 DEF LaneGood, LaneOK
  <2>2. /\ OwedB(l) = Sizes(l.pending) + l.flight.bytes /\ OwedB(Y) = Sizes(l.pending)
        /\ OwedI(l) = Len(l.pending) + l.flight.items /\ OwedI(Y) = Len(l.pending)
        /\ OwedB(l) \in Nat /\ OwedI(l) \in Nat /\ OwedB(Y) \in Nat /\ OwedI(Y) \in Nat
        /\ l.flight.bytes \in Nat /\ l.flight.items \in Nat
    <3>1. /\ OwedB(l) \in Nat /\ OwedI(l) \in Nat /\ Sizes(l.pending) \in Nat
          /\ Len(l.pending) \in Nat /\ l.flight.bytes \in Nat /\ l.flight.items \in Nat
      BY <1>1, LaneHolds
    <3>2. Y.flight.bytes = 0 /\ Y.flight.items = 0
      BY <1>7 DEF NoBody
    <3>3. OwedB(Y) = Sizes(l.pending) + 0 /\ OwedI(Y) = Len(l.pending) + 0
      BY <1>7, <3>2 DEF OwedB, OwedI
    <3>4. OwedB(Y) = Sizes(l.pending) /\ OwedI(Y) = Len(l.pending)
      BY <3>1, <3>3
    <3>5. QED
      BY <3>1, <3>4 DEF OwedB, OwedI
  <2>3. OwedB(Y) = OwedB(l) - l.flight.bytes /\ OwedI(Y) = OwedI(l) - l.flight.items
    <3> DEFINE n == Sizes(l.pending)
               k == Len(l.pending)
    <3>1. /\ OwedB(l) = n + l.flight.bytes /\ OwedB(Y) = n /\ OwedI(l) = k + l.flight.items
          /\ OwedI(Y) = k /\ n \in Nat /\ k \in Nat
          /\ l.flight.bytes \in Nat /\ l.flight.items \in Nat
      BY <2>2
    <3> HIDE DEF n, k
    <3>2. QED
      BY ONLY <3>1
  <2>4. LaneOK(Y)
    <3>1. PerLane => Y.bytes = OwedB(Y) /\ Y.items = OwedI(Y)
      BY <1>7, <2>1, <2>3 DEF LaneGood, LaneOK
    <3>2. QED
      BY <1>7, <2>1, <3>1 DEF LaneGood, LaneOK
  <2>5. Awake(Y)
    BY <1>7, <1>11, <2>1 DEF Awake
  <2>6. LaneGood(page, Y, q)
    BY <1>7, <2>1, <2>4, <2>5 DEF LaneGood
  <2>7. ASSUME PageCharged(page, b, i) PROVE PageCharged(y, b, i)
    <3>1. page.bytes \in Int /\ page.items \in Int
      BY <1>1 DEF PageType
    <3>2. Buffer(Y) = 0 /\ Buffer(l) = 0
      BY <1>7, <2>1 DEF Buffer, LaneGood, LaneOK
    <3>3. /\ OwedB(Y) = OwedB(l) - l.flight.bytes /\ OwedI(Y) = OwedI(l) - l.flight.items
          /\ OwedB(l) \in Nat /\ OwedI(l) \in Nat /\ l.flight.bytes \in Nat
          /\ l.flight.items \in Nat
          /\ y.bytes = page.bytes - l.flight.bytes /\ y.items = page.items - l.flight.items
      BY <1>7, <2>2, <2>3
    <3> HIDE DEF b, i
    <3>4. y.bytes + OwedB(l) + b = page.bytes + OwedB(Y) + b
      BY ONLY <1>1, <3>1, <3>3
    <3>5. y.items + OwedI(l) + i = page.items + OwedI(Y) + i
      BY ONLY <1>1, <3>1, <3>3
    <3>6. y.bytes + Buffer(Y) <= page.bytes + Buffer(l)
      BY ONLY <3>1, <3>2, <3>3
    <3>7. QED
      BY <1>1, <1>7, <2>7, <3>4, <3>5, <3>6, ChargedMoved DEF l
  <2>8. \A s, t : (Feeds(l, s) => Feeds(Y, s)) /\ (Ends(l, s, t) => Ends(Y, s, t))
    BY <1>7, FeedsSame
  <2>9. /\ y.lanes[q].remoteClosed = page.lanes[q].remoteClosed
        /\ page.lanes[q].entry = "gone" => y.lanes[q].entry = "gone"
        /\ ~y.closed /\ InOrder(page, b, i) =>
              /\ LaneGood(page, y.lanes[q], q) /\ PageCharged(y, b, i)
              /\ Feeds(page.lanes[q], fed[q]) => Feeds(y.lanes[q], fed[q])
              /\ Feeds(page.lanes[q], fed[q]) /\ q \in StreamIDs
                   /\ Ends(page.lanes[q], fed[q], page.told[q])
                   => Ends(y.lanes[q], fed[q], page.told[q])
    BY <1>7, <2>6, <2>7, <2>8 DEF l, InOrder
  <2>10. Feeding(page, y, b, i, b, i, fed, fed)
    <3> HIDE DEF b, i, fed
    <3>1. QED
      BY <1>1, <1>7, <2>9, FeedingMoved
  <2>11. Held(y, handed, streams, ended, overtaken)
    BY <2>10, HeldFeeding
  <2>12. Runs(y, r, q)
    BY <1>8, <2>1, HTTPRuns
  <2>13. Held(r, handed, streams, ended, overtaken)
    BY <2>11, <2>12, HeldRuns
  <2>14. QED
    BY <1>9, <2>13
<1>12. QED
  BY <1>10, <1>11

\* A lane of https leaves when its stream has ended on either side.
LEMMA LaneClosedStep ==
    ASSUME Held(page, handed, streams, ended, overtaken), NEW id \in StreamIDs, LaneClosed(id)
    PROVE  Held(page', handed, streams, ended, overtaken)
<1> DEFINE l == page.lanes[id]
           L == [l EXCEPT !.entry = "gone", !.polling = FALSE]
           r == [page EXCEPT !.lanes[id] = L]
           sent == FlattenSeq(l.bodies)
           b == Sizes(page.pending)
           i == Len(page.pending)
           fed == FedOf(page, handed)
<1>1. id \in Queues /\ id # 0 /\ page \in PageType /\ l \in LaneType
      /\ (~page.closed => LaneGood(page, l, id)) /\ b \in Int /\ i \in Int
  BY HeldLane, EarlyCounted, PageLimits
<1>2. /\ carrier = "https-lanes" /\ ~WebSockets /\ PerLane
      /\ id \in ended \/ HasClose(sent)
  BY DEF LaneClosed, WebSockets, PerLane, HasClose
<1>3. page' = r
  <2>1. page' = [page EXCEPT !.lanes[id].entry = "gone", !.lanes[id].polling = FALSE]
    BY DEF LaneClosed, Becomes
  <2>2. QED
    BY <1>1, <2>1 DEF PageType
<1> HIDE DEF l
<1>4. /\ L \in LaneType /\ L.pending = l.pending /\ L.bodies = l.bodies
      /\ L.flight = l.flight /\ L.entry = "gone" /\ L.socket = l.socket
      /\ L.localClosed = l.localClosed /\ L.remoteClosed = l.remoteClosed
      /\ L.buffered = l.buffered /\ L.bytes = l.bytes /\ L.items = l.items
  BY <1>1 DEF LaneType
<1> HIDE DEF L
<1>5. CASE page.closed
  BY <1>1, <1>3, <1>4, <1>5, ClosedTouched
<1>6. CASE ~page.closed
  <2>1. OwedB(L) = OwedB(l) /\ OwedI(L) = OwedI(l) /\ Carried(L) = Carried(l)
        /\ Carried(l) \in Seq(Frames) /\ sent \in Seq(Frames)
        /\ FlattenSeq(l.pending) \in Seq(Frames)
    BY <1>1, <1>4, LaneHolds DEF OwedB, OwedI, Carried
  <2>2. LaneGood(page, L, id)
    BY <1>1, <1>2, <1>4, <1>6, <2>1 DEF LaneGood, LaneOK, Awake
  <2>3. Buffer(L) <= Buffer(l)
    <3>1. Buffer(L) = Buffer(l) /\ Buffer(l) \in Nat
      BY <1>1, <1>4, LaneHolds DEF Buffer
    <3>2. QED
      BY <3>1
  <2>4. fed[id] \in Seq(Frames)
    BY <1>1, FedOfIs DEF Held
  <2> HIDE DEF fed
  <2>5. ASSUME Feeds(l, fed[id]) PROVE Feeds(L, fed[id])
    <3>1. IsPrefix(Carried(l), fed[id])
      BY <1>1, <2>1, <2>4, <2>5, PrefixSelf DEF Feeds, LaneType
    <3>2. QED
      BY <1>4, <2>1, <2>5, <3>1 DEF Feeds
  <2>6. ASSUME Feeds(l, fed[id]) PROVE Ends(L, fed[id], page.told[id])
    <3>1. CASE id \in ended
      <4>1. page.told[id] = 1
        BY <1>6, <3>1 DEF Held, ToldOf
      <4>2. QED
        BY <4>1 DEF Ends
    <3>2. CASE HasClose(sent)
      <4>1. HasClose(Carried(l))
        <5> HIDE DEF sent
        <5>1. HasClose(sent \o FlattenSeq(l.pending))
          BY <2>1, <3>2, CloseStays
        <5>2. QED
          BY <5>1 DEF Carried, sent
      <4>2. IsPrefix(Carried(L), fed[id])
        BY <1>4, <2>5, <2>6 DEF Feeds
      <4>3. HasClose(fed[id])
        BY <2>1, <2>4, <4>1, <4>2, PrefixCloses
      <4>4. QED
        BY <4>3 DEF Ends
    <3>3. QED
      BY <1>2, <3>1, <3>2
  <2>7. Feeding(page, r, b, i, b, i, fed, fed)
    <3> HIDE DEF b, i
    <3>1. QED
      BY <1>1, <1>4, <2>2, <2>3, <2>5, <2>6, FeedingTouched DEF l
  <2> HIDE DEF r
  <2>8. QED
    BY <1>3, <2>7, HeldFeeding DEF fed
<1>7. QED
  BY <1>5, <1>6

\* A CLOSE of the relay is told once: what has been told before was told by the
\* page when the lane left, and nothing is received by a lane that has left.
LEMMA RelayClosesStep ==
    ASSUME Held(page, handed, streams, ended, overtaken), NEW id \in StreamIDs, RelayCloses(id)
    PROVE  Held(page', handed, streams, ended', overtaken)
<1> DEFINE q == IF PerLane THEN id ELSE 0
           l == page.lanes[q]
           heard == l.remoteClosed \/ carrier = "websocket-lanes"
           L == [l EXCEPT !.remoteClosed = heard]
           x == [page EXCEPT !.lanes[q] = L]
           told == [page.told EXCEPT ![id] = @ + 1]
           r == [x EXCEPT !.told = told]
           more == ended \cup {id}
           b == Sizes(page.pending)
           i == Len(page.pending)
           fed == FedOf(page, handed)
<1>1. id \in Queues /\ id # 0 /\ 0 \in Queues /\ q \in Queues
  BY PageLimits
<1>2. /\ Receiving(page, q) /\ ~page.closed /\ id \notin ended /\ ended' = more
      /\ page' = [page EXCEPT !.told[id] = @ + 1,
                    !.lanes[q].remoteClosed = @ \/ carrier = "websocket-lanes"]
  BY DEF RelayCloses
<1>3. /\ page \in PageType /\ handed \in [Queues -> Seq(Frames)] /\ ended \subseteq StreamIDs
      /\ streams \in [StreamIDs -> {"new", "open", "closed"}] /\ AppOf(handed, streams)
      /\ (\A z \in StreamIDs : page.told[z] <= 1) /\ InOrder(page, b, i) /\ ToldOf(page, ended)
      /\ ~overtaken => Follows(page, fed) /\ Early(page, handed)
  BY <1>2 DEF Held
<1>4. l \in LaneType /\ LaneGood(page, l, q) /\ page.told \in [StreamIDs -> Nat]
      /\ b \in Int /\ i \in Int
  BY <1>1, <1>3, EarlyCounted DEF InOrder, PageType
<1>5. page.told[id] = 0
  <2>1. ASSUME page.told[id] = 1 PROVE FALSE
    <3>1. carrier = "websocket-lanes" /\ page.lanes[id].entry = "gone"
      BY <1>2, <1>3, <2>1 DEF ToldOf
    <3>2. WebSockets /\ PerLane
      BY <3>1 DEF WebSockets, PerLane
    <3>3. ~Receiving(page, q)
      BY <1>4, <3>1, <3>2 DEF LaneGood, LaneOK, Receiving
    <3>4. QED
      BY <1>2, <3>3
  <2>2. QED
    BY <1>3, <1>4, <2>1
<1>6. page' = r
  BY <1>1, <1>2, <1>3 DEF PageType
<1> HIDE DEF l
<1>7. /\ L \in LaneType /\ L.pending = l.pending /\ L.bodies = l.bodies /\ L.flight = l.flight
      /\ L.entry = l.entry /\ L.localClosed = l.localClosed /\ L.remoteClosed = heard
      /\ L.bytes = l.bytes /\ L.items = l.items /\ L.polling = l.polling
      /\ L.socket = l.socket /\ L.buffered = l.buffered
  <2>1. heard \in BOOLEAN
    BY <1>4 DEF LaneType
  <2> HIDE DEF heard
  <2>2. QED
    BY <1>4, <2>1 DEF LaneType
<1> HIDE DEF L, heard
<1>8. Buffer(L) <= Buffer(l)
  <2>1. Buffer(L) = Buffer(l) /\ Buffer(l) \in Nat
    BY <1>4, <1>7, LaneHolds DEF Buffer
  <2>2. QED
    BY <2>1
<1>9. /\ Moved(page, x, q) /\ x.lanes[q] = L
      /\ \A d, e \in Int : PageCharged(page, d, e) => PageCharged(x, d, e)
  <2>1. /\ page \in PageType /\ q \in Queues /\ L \in LaneType
        /\ L.pending = page.lanes[q].pending /\ L.bodies = page.lanes[q].bodies
        /\ L.flight = page.lanes[q].flight /\ Buffer(L) <= Buffer(page.lanes[q])
    BY <1>1, <1>3, <1>7, <1>8 DEF l
  <2>2. QED
    BY ONLY <2>1, Touched
<1> HIDE DEF x
<1>10. x \in PageType /\ x.told = page.told /\ x.pending = page.pending /\ x.stage = page.stage
       /\ x.token = page.token /\ \A z \in Queues \ {q} : x.lanes[z] = page.lanes[z]
  BY <1>9 DEF Moved
<1>11. /\ told \in [StreamIDs -> Nat] /\ told[id] = 1
       /\ \A z \in StreamIDs \ {id} : told[z] = page.told[z]
  BY <1>4, <1>5
<1> HIDE DEF told
<1>12. /\ r \in PageType /\ r.lanes = x.lanes /\ r.bytes = x.bytes /\ r.items = x.items
       /\ r.pending = x.pending /\ r.stage = x.stage /\ r.token = x.token /\ r.told = told
  BY <1>10, <1>11 DEF PageType
<1> HIDE DEF r
<1>13. LaneGood(page, L, q)
  <2>1. OwedB(L) = OwedB(l) /\ OwedI(L) = OwedI(l)
    BY <1>7 DEF OwedB, OwedI
  <2>2. QED
    BY <1>4, <1>7, <2>1 DEF LaneGood, LaneOK, Awake
<1>14. InOrder(r, b, i)
  <2>1. PageCharged(x, b, i)
    BY <1>3, <1>4, <1>9 DEF InOrder
  <2>2. OwedBytes(r) = OwedBytes(x) /\ OwedItems(r) = OwedItems(x)
        /\ BufferedBytes(r) = BufferedBytes(x)
    BY <1>12 DEF OwedBytes, OwedItems, BufferedBytes
  <2>3. PageCharged(r, b, i)
    BY <1>12, <2>1, <2>2 DEF PageCharged
  <2>4. \A z \in Queues : LaneGood(r, r.lanes[z], z)
    BY <1>3, <1>9, <1>10, <1>12, <1>13 DEF InOrder, LaneGood
  <2>5. QED
    BY <1>3, <1>10, <1>12, <2>3, <2>4 DEF InOrder
<1>15. \A z \in StreamIDs \ {id} : r.lanes[z] = page.lanes[z]
  BY <1>10, <1>12, PageLimits
<1>16. r.lanes[id].entry = page.lanes[id].entry
  BY <1>7, <1>9, <1>10, <1>12, <1>1 DEF l
<1>17. ToldOf(r, more)
  <2>1. \A z \in more : r.told[z] = 1
    BY <1>3, <1>11, <1>12 DEF ToldOf
  <2>2. \A z \in StreamIDs \ more :
          r.told[z] = 1 => carrier = "websocket-lanes" /\ r.lanes[z].entry = "gone"
    BY <1>3, <1>11, <1>12, <1>15 DEF ToldOf
  <2>3. ASSUME carrier = "websocket-lanes", NEW z \in StreamIDs
        PROVE  r.lanes[z].remoteClosed <=> z \in more
    <3>1. CASE z = id
      <4>1. PerLane
        BY <2>3 DEF PerLane
      <4>2. r.lanes[z].remoteClosed = heard
        BY <1>7, <1>9, <1>12, <3>1, <4>1
      <4>3. QED
        BY <2>3, <3>1, <4>2 DEF heard
    <3>2. CASE z # id
      BY <1>3, <1>15, <2>3, <3>2 DEF ToldOf
    <3>3. QED
      BY <3>1, <3>2
  <2>4. QED
    BY <2>1, <2>2, <2>3 DEF ToldOf
<1>18. ASSUME ~overtaken PROVE Follows(r, FedOf(r, handed)) /\ Early(r, handed)
  <2>1. FedOf(r, handed) = fed /\ Early(r, handed)
    BY <1>3, <1>10, <1>12, <1>18 DEF FedOf, Early, Waiting
  <2> HIDE DEF fed
  <2>2. Follows(page, fed)
    BY <1>3, <1>18
  <2>3. \A s, t : Feeds(l, s) => Feeds(L, s)
    BY <1>7, FeedsSame
  <2>4. \A z \in Queues : Feeds(r.lanes[z], fed[z])
    BY <1>9, <1>10, <1>12, <2>2, <2>3 DEF Follows, l
  <2>5. ASSUME NEW z \in StreamIDs PROVE Ends(r.lanes[z], fed[z], r.told[z])
    BY <1>11, <1>12, <1>15, <2>2 DEF Follows, Ends
  <2>6. QED
    BY <2>1, <2>4, <2>5 DEF Follows
<1>19. \A z \in StreamIDs : r.told[z] <= 1
  BY <1>3, <1>11, <1>12
<1>20. Held(r, handed, streams, more, overtaken)
  <2>1. more \subseteq StreamIDs
    BY <1>3
  <2>2. r.pending = page.pending
    BY <1>10, <1>12
  <2>3. InOrder(r, Sizes(r.pending), Len(r.pending))
    BY <1>14, <2>2
  <2> HIDE DEF more, b, i, fed
  <2>4. QED
    BY <1>3, <1>12, <1>17, <1>18, <1>19, <2>1, <2>3 DEF Held
<1>21. QED
  BY <1>2, <1>6, <1>20

\* The end of an established lane is told by the page unless the relay has told
\* it or the app has caused it; a lane in the map has not been told of.
LEMMA LaneEnds ==
    ASSUME Held(page, handed, streams, ended, overtaken), NEW q \in Queues,
           ~page.closed, PerLane, WebSockets, page.lanes[q].entry = "present",
           NEW S, Alike(page.lanes[q], S), S.socket = "closed", S.buffered = 0, page.token
    PROVE  Held(FinishWebSocketLane([page EXCEPT !.lanes[q] = S], q,
                  ~page.lanes[q].localClosed /\ ~page.lanes[q].remoteClosed),
                handed, streams, ended, overtaken)
<1> DEFINE l == page.lanes[q]
           x == [page EXCEPT !.lanes[q] = S]
           c == Finished(x, q)
           L == c.lanes[q]
           notify == ~l.localClosed /\ ~l.remoteClosed
           told == [page.told EXCEPT ![q] = IF notify THEN @ + 1 ELSE @]
           r == [c EXCEPT !.told = told]
           b == Sizes(page.pending)
           i == Len(page.pending)
           fed == FedOf(page, handed)
<1>1. /\ page \in PageType /\ handed \in [Queues -> Seq(Frames)] /\ ended \subseteq StreamIDs
      /\ streams \in [StreamIDs -> {"new", "open", "closed"}] /\ AppOf(handed, streams)
      /\ (\A z \in StreamIDs : page.told[z] <= 1) /\ InOrder(page, b, i) /\ ToldOf(page, ended)
      /\ ~overtaken => Follows(page, fed) /\ Early(page, handed)
  BY DEF Held
<1>2. l \in LaneType /\ LaneGood(page, l, q) /\ page.told \in [StreamIDs -> Nat]
      /\ b \in Int /\ i \in Int /\ PageCharged(page, b, i)
  BY <1>1, EarlyCounted DEF InOrder, PageType
<1>3. Alike(l, S)
  OBVIOUS
<1>4. l.entry = "present" /\ notify \in BOOLEAN /\ carrier = "websocket-lanes"
      /\ (l.localClosed \in BOOLEAN) /\ (l.remoteClosed \in BOOLEAN)
  BY <1>2 DEF LaneType, PerLane, WebSockets
<1>5. Buffer(S) <= Buffer(l) /\ OwedB(S) = OwedB(l) /\ OwedI(S) = OwedI(l)
  <2>1. Buffer(l) \in Nat /\ Buffer(S) = 0
    BY <1>2, LaneHolds DEF Buffer
  <2>2. QED
    BY <1>3, <2>1 DEF OwedB, OwedI, Alike
<1>6. LaneOK(S)
  BY <1>2, <1>3, <1>5 DEF LaneGood, LaneOK, Alike
<1>7. /\ Moved(page, x, q) /\ x.lanes[q] = S
      /\ \A d, e \in Int : PageCharged(page, d, e) => PageCharged(x, d, e)
  BY <1>1, <1>3, <1>5, Touched DEF Alike
<1>8. FinishWebSocketLane(x, q, notify) = [c EXCEPT !.told[q] = IF notify THEN @ + 1 ELSE @]
  <2>1. x.lanes[q].entry = "present" /\ ~x.closed
    BY <1>3, <1>4, <1>7 DEF Alike, Moved
  <2> HIDE DEF x, notify
  <2>2. QED
    BY <2>1 DEF FinishWebSocketLane, Finished
<1> HIDE DEF x
<1>9. x \in PageType
  BY <1>7 DEF Moved
<1>10. /\ Moved(x, c, q) /\ L \in LaneType /\ L.entry = "gone"
       /\ L.socket \notin {"connecting", "open"}
       /\ L.localClosed = S.localClosed /\ L.remoteClosed = S.remoteClosed
       /\ Carried(L) = FlattenSeq(S.bodies)
       /\ LaneOK(S) => LaneOK(L)
       /\ LaneOK(S) => \A d, e \in Int : PageCharged(x, d, e) => PageCharged(c, d, e)
  BY <1>7, <1>9, FinishedIs
<1> HIDE DEF c, L
<1>11. /\ c \in PageType /\ c.told = page.told /\ c.pending = page.pending
       /\ c.stage = page.stage /\ c.token = page.token /\ c.lanes[q] = L
       /\ \A z \in Queues \ {q} : c.lanes[z] = page.lanes[z]
  BY <1>7, <1>10 DEF Moved, L
<1>12. FinishWebSocketLane(x, q, notify) = r
  <2> HIDE DEF notify
  <2>1. QED
    BY <1>8, <1>11 DEF PageType
<1>13. /\ told \in [StreamIDs -> Nat] /\ (\A z \in StreamIDs \ {q} : told[z] = page.told[z])
       /\ q \in StreamIDs => told[q] = IF notify THEN page.told[q] + 1 ELSE page.told[q]
  <2> HIDE DEF notify
  <2>1. \A z \in StreamIDs : page.told[z] \in Nat /\ page.told[z] + 1 \in Nat
    BY <1>2
  <2>2. QED
    BY <1>2, <2>1
<1> HIDE DEF told
<1>14. /\ r \in PageType /\ r.lanes = c.lanes /\ r.bytes = c.bytes /\ r.items = c.items
       /\ r.pending = c.pending /\ r.stage = c.stage /\ r.token = c.token /\ r.told = told
  BY <1>11, <1>13 DEF PageType
<1> HIDE DEF r
<1>15. LaneGood(page, L, q)
  BY <1>6, <1>10 DEF LaneGood, Awake
<1>16. InOrder(r, b, i)
  <2>1. PageCharged(c, b, i)
    BY <1>2, <1>6, <1>7, <1>10
  <2>2. OwedBytes(r) = OwedBytes(c) /\ OwedItems(r) = OwedItems(c)
        /\ BufferedBytes(r) = BufferedBytes(c)
    BY <1>14 DEF OwedBytes, OwedItems, BufferedBytes
  <2>3. PageCharged(r, b, i)
    BY <1>14, <2>1, <2>2 DEF PageCharged
  <2>4. \A z \in Queues : LaneGood(r, r.lanes[z], z)
    BY <1>1, <1>11, <1>14, <1>15 DEF InOrder, LaneGood
  <2>5. QED
    BY <1>1, <1>11, <1>14, <2>3, <2>4 DEF InOrder
<1>17. L.remoteClosed = l.remoteClosed /\ L.localClosed = l.localClosed
  BY <1>3, <1>10 DEF Alike
<1>18. ASSUME q \in StreamIDs
       PROVE  /\ l.remoteClosed <=> q \in ended
              /\ page.told[q] = IF q \in ended THEN 1 ELSE 0
  <2>1. l.remoteClosed <=> q \in ended
    BY <1>1, <1>4, <1>18 DEF ToldOf
  <2>2. q \in ended => page.told[q] = 1
    BY <1>1 DEF ToldOf
  <2>3. q \notin ended => page.told[q] # 1
    BY <1>1, <1>4, <1>18 DEF ToldOf
  <2>4. page.told[q] \in Nat /\ page.told[q] <= 1
    BY <1>1, <1>2, <1>18
  <2>5. QED
    BY <2>1, <2>2, <2>3, <2>4
<1>19. q \in StreamIDs =>
         /\ told[q] <= 1
         /\ q \in ended => told[q] = 1
         /\ told[q] = 0 => l.localClosed
  <2> SUFFICES ASSUME q \in StreamIDs
               PROVE  told[q] <= 1 /\ (q \in ended => told[q] = 1)
                      /\ (told[q] = 0 => l.localClosed)
    OBVIOUS
  <2>1. /\ told[q] = (IF notify THEN page.told[q] + 1 ELSE page.told[q])
        /\ l.remoteClosed <=> q \in ended
        /\ page.told[q] = IF q \in ended THEN 1 ELSE 0
    BY <1>13, <1>18
  <2> HIDE DEF l
  <2>2. CASE q \in ended
    BY <2>1, <2>2 DEF notify
  <2>3. CASE q \notin ended
    BY <1>4, <2>1, <2>3 DEF notify
  <2>4. QED
    BY <2>2, <2>3
<1>20. \A z \in StreamIDs : r.told[z] <= 1
  BY <1>1, <1>13, <1>14, <1>19
<1>21. ToldOf(r, ended)
  <2>1. \A z \in ended : r.told[z] = 1
    BY <1>1, <1>13, <1>14, <1>19 DEF ToldOf
  <2>2. \A z \in StreamIDs \ ended :
          r.told[z] = 1 => carrier = "websocket-lanes" /\ r.lanes[z].entry = "gone"
    BY <1>1, <1>4, <1>10, <1>11, <1>13, <1>14, PageLimits DEF ToldOf
  <2>3. \A z \in StreamIDs : r.lanes[z].remoteClosed <=> z \in ended
    <3>1. \A z \in StreamIDs : r.lanes[z].remoteClosed = page.lanes[z].remoteClosed
      BY <1>11, <1>14, <1>17, PageLimits DEF l
    <3>2. QED
      BY <1>1, <1>4, <3>1 DEF ToldOf
  <2>4. QED
    BY <2>1, <2>2, <2>3 DEF ToldOf
<1>22. ASSUME ~overtaken PROVE Follows(r, FedOf(r, handed)) /\ Early(r, handed)
  <2>1. FedOf(r, handed) = fed /\ Early(r, handed)
    BY <1>1, <1>11, <1>14, <1>22 DEF FedOf, Early, Waiting
  <2>2. fed[q] \in Seq(Frames)
    BY <1>1, FedOfIs
  <2> HIDE DEF fed
  <2>3. Follows(page, fed)
    BY <1>1, <1>22
  <2>4. Feeds(l, fed[q])
    BY <2>3 DEF Follows, l
  <2> DEFINE s == fed[q]
  <2>5. Feeds(L, s)
    <3>1. /\ <<>> \in Seq(Frames) /\ s \in Seq(Frames) /\ l.entry # "gone"
          /\ Carried(L) = FlattenSeq(l.bodies) /\ (L.localClosed => l.localClosed)
      BY <1>3, <1>4, <1>10, <1>17, <2>2 DEF Alike
    <3> HIDE DEF s, l
    <3>2. Feeds(L, s \o <<>>)
      <4>1. Feeds(l, s)
        BY <2>4 DEF s
      <4>2. QED
        BY <1>2, <1>10, <3>1, <4>1, FeedsLess
    <3>3. s \o <<>> = s
      BY <3>1, ConcatEmptySeq
    <3>4. QED
      BY <3>2, <3>3
  <2>6. q \in StreamIDs => Ends(L, s, told[q])
    <3>1. l.localClosed => HasClose(s)
      BY <2>4 DEF Feeds
    <3>2. QED
      BY <1>19, <3>1 DEF Ends
  <2> HIDE DEF s
  <2>7. \A z \in Queues : Feeds(r.lanes[z], fed[z])
    BY <1>11, <1>14, <2>3, <2>5 DEF Follows, s
  <2>8. \A z \in StreamIDs : Ends(r.lanes[z], fed[z], r.told[z])
    <3>1. ASSUME NEW z \in StreamIDs, z = q PROVE Ends(r.lanes[z], fed[z], r.told[z])
      BY <1>11, <1>14, <2>6, <3>1 DEF s
    <3>2. ASSUME NEW z \in StreamIDs, z # q PROVE Ends(r.lanes[z], fed[z], r.told[z])
      BY <1>11, <1>13, <1>14, <2>3, <3>2, PageLimits DEF Follows
    <3>3. QED
      BY <3>1, <3>2
  <2>9. QED
    BY <2>1, <2>7, <2>8 DEF Follows
<1>23. Held(r, handed, streams, ended, overtaken)
  <2>1. r.pending = page.pending
    BY <1>11, <1>14
  <2>2. InOrder(r, Sizes(r.pending), Len(r.pending))
    BY <1>16, <2>1
  <2> HIDE DEF b, i, fed
  <2>3. QED
    BY <1>1, <1>14, <1>20, <1>21, <1>22, <2>2 DEF Held
<1>24. QED
  BY <1>12, <1>23 DEF x, notify, l

\* onclose: a lane that was established ends alone, anything else is the end.
LEMMA SocketClosesStep ==
    ASSUME Held(page, handed, streams, ended, overtaken), NEW q \in Queues, SocketCloses(q)
    PROVE  Held(page', handed, streams, ended, overtaken)
<1> DEFINE l == page.lanes[q]
           S == [l EXCEPT !.socket = "closed", !.buffered = 0]
           x == [page EXCEPT !.lanes[q] = S]
           shut == [page EXCEPT !.lanes[q].socket = "closed", !.lanes[q].buffered = 0]
           notify == ~l.localClosed /\ ~l.remoteClosed
<1>1. page \in PageType /\ l \in LaneType /\ l.socket \in {"connecting", "open", "closing"}
      /\ (~page.closed => LaneGood(page, l, q))
  BY HeldLane DEF SocketCloses
<1>2. page' = IF ~PerLane \/ (l.entry = "present" /\ ~l.opened) THEN Fail(shut)
              ELSE IF page.closed \/ l.entry = "gone" THEN shut
              ELSE FinishWebSocketLane(shut, q, notify)
  BY DEF SocketCloses, Becomes
<1>3. shut = x
  BY <1>1 DEF PageType
<1> HIDE DEF l
<1>4. Alike(l, S) /\ S.socket = "closed" /\ S.buffered = 0 /\ S \in LaneType
  BY <1>1 DEF Alike, LaneType
<1> HIDE DEF S
<1>5. Moved(page, x, q)
  BY <1>1, <1>4, LaneSet
<1> HIDE DEF shut, notify
<1>6. CASE ~PerLane \/ (l.entry = "present" /\ ~l.opened)
  <2> HIDE DEF x
  <2>1. x \in PageType /\ x.told = page.told
    BY <1>5 DEF Moved
  <2>2. Close(x) \in PageType /\ Close(x).closed /\ Close(x).told = page.told
    BY <2>1, CloseIs DEF Same
  <2>3. Held(Close(x), handed, streams, ended, overtaken)
    BY <2>2, HeldClosed
  <2>4. page' = Close(x)
    BY <1>2, <1>3, <1>6 DEF Fail
  <2>5. QED
    BY <2>3, <2>4
<1>7. CASE ~(~PerLane \/ (l.entry = "present" /\ ~l.opened)) /\ page.closed
  <2>1. Held(x, handed, streams, ended, overtaken)
    BY <1>4, <1>7, ClosedTouched
  <2>2. QED
    BY <1>2, <1>3, <1>7, <2>1
<1>8. CASE ~(~PerLane \/ (l.entry = "present" /\ ~l.opened)) /\ ~page.closed
  <2>1. LaneGood(page, l, q) /\ PerLane /\ WebSockets /\ page.token /\ l.entry # "absent"
    BY <1>1, <1>8 DEF LaneGood, LaneOK
  <2>2. CASE l.entry = "gone"
    <3>1. OwedB(S) = OwedB(l) /\ OwedI(S) = OwedI(l)
      BY <1>4 DEF OwedB, OwedI, Alike
    <3>2. LaneGood(page, S, q)
      BY <1>4, <2>1, <2>2, <3>1 DEF LaneGood, LaneOK, Awake, Alike
    <3>3. Buffer(S) <= Buffer(l)
      <4>1. Buffer(l) \in Nat /\ Buffer(S) = 0
        BY <1>1, <1>4, LaneHolds DEF Buffer
      <4>2. QED
        BY <4>1
    <3>4. Held(x, handed, streams, ended, overtaken)
      BY <1>4, <3>2, <3>3, HeldTouched DEF Alike, l
    <3>5. QED
      BY <1>2, <1>3, <1>8, <2>2, <3>4
  <2>3. CASE l.entry = "present"
    <3>1. Held(FinishWebSocketLane(x, q, notify), handed, streams, ended, overtaken)
      BY <1>4, <1>8, <2>1, <2>3, LaneEnds DEF l, notify
    <3>2. QED
      BY <1>2, <1>3, <1>8, <2>3, <3>1
  <2>4. QED
    BY <1>1, <2>1, <2>2, <2>3 DEF LaneType
<1>9. QED
  BY <1>6, <1>7, <1>8

--------------------------------------------------------------------------------
(* The app posts a message, and hears of an end.                           *)

\* The streams after a message.
Named(m, id, t) == \E k \in DOMAIN m : m[k].id = id /\ m[k].type = t
Spoken(s, m) ==
    [id \in StreamIDs |-> IF Named(m, id, "close") THEN "closed"
                          ELSE IF Named(m, id, "open") THEN "open" ELSE s[id]]

\* A message the app may post opens its streams before it uses them, and closes
\* them last.
LEMMA AppGoesOn ==
    ASSUME NEW m \in Message, MaySend(m),
           NEW h \in [Queues -> Seq(Frames)], streams \in [StreamIDs -> {"new", "open", "closed"}],
           AppOf(h, streams)
    PROVE  /\ AppOf(FedAll(h, m), Spoken(streams, m))
           /\ Spoken(streams, m) \in [StreamIDs -> {"new", "open", "closed"}]
           /\ FedAll(h, m) \in [Queues -> Seq(Frames)]
<1> DEFINE more == FedAll(h, m)
           s == Spoken(streams, m)
<1>1. m \in Seq(Frames) /\ <<>> \in Seq(Frames) /\ \A k \in DOMAIN m : m[k] \in Frames
  BY ElementOfSeq, LenProperties DEF Message
<1>2. more \in [Queues -> Seq(Frames)]
  BY <1>1, FedAllIs
<1>3. s \in [StreamIDs -> {"new", "open", "closed"}]
  BY DEF Spoken
<1>4. ASSUME PerLane, NEW id \in StreamIDs
      PROVE  /\ more[id] = <<>> => s[id] = "new"
             /\ Begun(more[id])
             /\ HasClose(more[id]) => s[id] = "closed"
  <2> DEFINE a == h[id]
             b == OfStream(m, id)
             c == more[id]
  <2>1. id \in Queues /\ id # 0 /\ a \in Seq(Frames) /\ b \in Seq(Frames) /\ c = a \o b
        /\ c \in Seq(Frames)
    BY <1>1, <1>2, <1>4, PageLimits, OfStreamType DEF FedAll, OfQueue
  <2>2. /\ a = <<>> => streams[id] = "new"
        /\ Begun(a) /\ (HasClose(a) => streams[id] = "closed")
    BY <1>4 DEF AppOf
  <2>3. /\ (\E k \in DOMAIN m : m[k].id = id) => b # <<>>
        /\ b # <<>> => \E k \in DOMAIN m : /\ m[k].id = id /\ b[1] = m[k]
                                           /\ \A j \in 1 .. k - 1 : m[j].id # id
        /\ HasClose(b) => \E k \in DOMAIN m : m[k].id = id /\ m[k].type = "close"
    BY <1>1, <2>1, OfStreamFirst
  <2> HIDE DEF a, b, c
  <2>4. /\ Len(a) \in Nat /\ Len(b) \in Nat /\ Len(c) = Len(a) + Len(b)
        /\ (a = <<>> <=> Len(a) = 0) /\ (b = <<>> <=> Len(b) = 0) /\ (c = <<>> <=> Len(c) = 0)
        /\ \A k \in 1 .. Len(a) : c[k] = a[k]
        /\ \A k \in 1 .. Len(b) : c[Len(a) + k] = b[k]
    BY <2>1, ConcatProperties, LenProperties, EmptySeq
  <2>5. ASSUME NEW k \in DOMAIN m, m[k].id = id
        PROVE  m[k].type # "pong"
    BY <1>1, <2>1, <2>5 DEF Frames
  <2>6. ASSUME NEW k \in DOMAIN m, m[k].id = id, m[k].type = "open"
        PROVE  streams[id] = "new"
    BY <2>6 DEF MaySend
  <2>7. s[id] = IF Named(m, id, "close") THEN "closed"
                ELSE IF Named(m, id, "open") THEN "open" ELSE streams[id]
    BY DEF Spoken
  <2>8. c = <<>> => s[id] = "new"
    <3> SUFFICES ASSUME c = <<>> PROVE s[id] = "new"
      OBVIOUS
    <3>1. a = <<>> /\ b = <<>>
      BY <2>4
    <3>2. ~Named(m, id, "close") /\ ~Named(m, id, "open")
      BY <2>3, <3>1 DEF Named
    <3>3. QED
      BY <2>2, <2>7, <3>1, <3>2
  <2>9. Begun(c)
    <3> SUFFICES ASSUME c # <<>> PROVE c[1].type = "open"
      BY DEF Begun
    <3>1. CASE a # <<>>
      <4>1. 1 \in 1 .. Len(a)
        BY <2>4, <3>1
      <4>2. c[1] = a[1]
        BY <2>4, <4>1
      <4>3. QED
        BY <2>2, <3>1, <4>2 DEF Begun
    <3>2. CASE a = <<>>
      <4>1. Len(a) = 0 /\ Len(b) # 0 /\ b # <<>>
        BY <2>4, <3>2
      <4>2. 1 \in 1 .. Len(b) /\ Len(a) + 1 = 1
        BY <2>4, <4>1
      <4>3. c[1] = b[1]
        BY <2>4, <4>2
      <4>4. PICK k \in DOMAIN m : /\ m[k].id = id /\ b[1] = m[k]
                                  /\ \A j \in 1 .. k - 1 : m[j].id # id
        BY <2>3, <4>1
      <4>5. m[k].type # "pong" /\ streams[id] = "new"
        BY <2>2, <2>5, <3>2, <4>4
      <4>6. m[k].type = "open"
        BY <4>4, <4>5 DEF MaySend
      <4>7. QED
        BY <4>3, <4>4, <4>6
    <3>3. QED
      BY <3>1, <3>2
  <2>10. HasClose(c) => s[id] = "closed"
    <3>1. HasClose(c) => HasClose(a) \/ HasClose(b)
      BY <2>1, CloseStays
    <3>2. HasClose(b) => Named(m, id, "close")
      BY <2>3 DEF Named
    <3>3. HasClose(a) => ~Named(m, id, "open")
      BY <2>2, <2>6 DEF Named
    <3>4. QED
      BY <2>2, <2>7, <3>1, <3>2, <3>3
  <2>11. QED
    BY <2>8, <2>9, <2>10 DEF c
<1> HIDE DEF more, s
<1>5. AppOf(more, s)
  BY <1>4 DEF AppOf
<1>6. QED
  BY <1>2, <1>3, <1>5 DEF more, s

\* A message that has the token goes to its queues.
LEMMA SentHeld ==
    ASSUME Held(page, handed, streams, ended, overtaken), NEW m \in Message, page.token,
           ~page.closed, NEW s \in [StreamIDs -> {"new", "open", "closed"}], NEW o \in BOOLEAN,
           AppOf(FedAll(handed, m), s), FedAll(handed, m) \in [Queues -> Seq(Frames)],
           overtaken \/ page.pending # <<>> => o
    PROVE  Held(QueueCarrier(page, m), FedAll(handed, m), s, ended, o)
<1> DEFINE r == QueueCarrier(page, m)
           b == Sizes(page.pending)
           i == Len(page.pending)
           fed == FedOf(page, handed)
           h == FedAll(handed, m)
<1>1. /\ page \in PageType /\ handed \in [Queues -> Seq(Frames)] /\ ended \subseteq StreamIDs
      /\ AppOf(handed, streams)
      /\ (\A z \in StreamIDs : page.told[z] <= 1) /\ InOrder(page, b, i) /\ ToldOf(page, ended)
      /\ ~overtaken => Follows(page, fed) /\ Early(page, handed)
  BY DEF Held
<1>2. b \in Int /\ i \in Int /\ fed \in [Queues -> Seq(Frames)]
  BY <1>1, EarlyCounted, FedOfIs
<1>3. Feeding(page, r, b, i, b, i, fed, FedAll(fed, m))
  BY <1>1, <1>2, QueueCarrierIs
<1> HIDE DEF r, fed, h
<1>4. /\ r \in PageType /\ r.stage = page.stage /\ r.token = page.token
      /\ r.pending = page.pending /\ r.told = page.told
  BY <1>3 DEF Feeding, Grows, Same
<1>5. ~r.closed => \A q \in Queues :
         /\ r.lanes[q].remoteClosed = page.lanes[q].remoteClosed
         /\ page.lanes[q].entry = "gone" => r.lanes[q].entry = "gone"
  BY <1>3 DEF Feeding, Grows
<1>6. ~r.closed => InOrder(r, b, i)
  BY <1>1, <1>3 DEF Feeding
<1>7. ~r.closed => ToldOf(r, ended)
  BY <1>1, <1>4, <1>5, PageLimits DEF ToldOf
<1>8. AppOf(h, s) /\ h \in [Queues -> Seq(Frames)]
  BY DEF h
<1>9. ASSUME ~r.closed, ~o PROVE Follows(r, FedOf(r, h)) /\ Early(r, h)
  <2>1. ~overtaken /\ ~Waiting(page) /\ ~Waiting(r) /\ page.pending = <<>>
    BY <1>4, <1>9 DEF Waiting
  <2>2. fed = handed /\ FedOf(r, h) = h
    BY <1>1, <1>4, <1>8, <2>1, FedOfIs DEF fed
  <2>3. Starts(h)
    BY <1>4, <1>8, FedOfIs
  <2>4. Follows(r, h)
    BY <1>1, <1>3, <1>9, <2>1, <2>2, <2>3 DEF Feeding, h
  <2>5. Early(r, h)
    BY <1>4, <2>1 DEF Early
  <2>6. QED
    BY <2>2, <2>4, <2>5
<1>10. Held(r, h, s, ended, o)
  <2>1. ~r.closed => InOrder(r, Sizes(r.pending), Len(r.pending))
    BY <1>4, <1>6
  <2> HIDE DEF b, i
  <2>2. QED
    BY <1>1, <1>4, <1>7, <1>8, <1>9, <2>1 DEF Held
<1>11. QED
  BY <1>10 DEF r, h

\* A message that comes before the token waits for it.
LEMMA WaitingHeld ==
    ASSUME Held(page, handed, streams, ended, overtaken), NEW m \in Message, ~page.token,
           ~page.closed, NEW s \in [StreamIDs -> {"new", "open", "closed"}], NEW o \in BOOLEAN,
           AppOf(FedAll(handed, m), s), FedAll(handed, m) \in [Queues -> Seq(Frames)],
           overtaken => o, HasRoom(page, Size(m))
    PROVE  Held([ChargePage(page, Size(m), 1) EXCEPT !.pending = Append(@, m)],
                FedAll(handed, m), s, ended, o)
<1> DEFINE v == page.pending
           w == Append(v, m)
           n == Size(m)
           r == [ChargePage(page, n, 1) EXCEPT !.pending = Append(@, m)]
           h == FedAll(handed, m)
           b == Sizes(v)
           i == Len(v)
<1>1. /\ page \in PageType /\ handed \in [Queues -> Seq(Frames)] /\ ended \subseteq StreamIDs
      /\ (\A z \in StreamIDs : page.told[z] <= 1) /\ InOrder(page, b, i) /\ ToldOf(page, ended)
      /\ ~overtaken => Follows(page, FedOf(page, handed)) /\ Early(page, handed)
  BY DEF Held
<1>2. v \in Seq(Message) /\ page.bytes \in Int /\ page.items \in Int
  BY <1>1 DEF PageType
<1> HIDE DEF b, i
<1>3. /\ w \in Seq(Message) /\ Len(w) = i + 1 /\ Sizes(w) = b + n /\ n \in Nat
      /\ b \in Nat /\ i \in Nat
  <2> HIDE DEF v
  <2>1. w \in Seq(Message) /\ Len(w) = Len(v) + 1 /\ Sizes(w) = Sizes(v) + n /\ n \in Nat
    BY <1>2, SizesAppended
  <2>2. Sizes(v) \in Nat /\ Len(v) \in Nat
    BY <1>2, SizesIs
  <2>3. QED
    BY <2>1, <2>2 DEF b, i
<1> HIDE DEF n
<1>4. /\ r \in PageType /\ r.pending = w /\ r.lanes = page.lanes /\ r.told = page.told
      /\ r.stage = page.stage /\ r.token = page.token /\ r.closed = page.closed
      /\ r.bytes = page.bytes + n /\ r.items = page.items + 1
  <2> HIDE DEF w
  <2>1. r = [page EXCEPT !.bytes = @ + n, !.items = @ + 1, !.pending = w]
    BY <1>1 DEF ChargePage, PageType, w
  <2>2. page.bytes + n \in Int /\ page.items + 1 \in Int /\ w \in Seq(Message)
    BY <1>2, <1>3
  <2> HIDE DEF r
  <2>3. QED
    BY <1>1, <2>1, <2>2 DEF PageType
<1> HIDE DEF r
<1>5. InOrder(r, b + n, i + 1)
  <2>1. OwedBytes(r) = OwedBytes(page) /\ OwedItems(r) = OwedItems(page)
        /\ BufferedBytes(r) = BufferedBytes(page)
    BY <1>4 DEF OwedBytes, OwedItems, BufferedBytes
  <2>2. /\ Total(Queues, OwedBytes(page)) \in Nat /\ Total(Queues, OwedItems(page)) \in Nat
        /\ BufferedBytes(page) \in Nat
    <3>1. Moved(page, page, 0) /\ 0 \in Queues
      BY <1>1, PageLimits DEF Moved
    <3>2. QED
      BY <1>1, <3>1, TotalsMoved
  <2>3. /\ page.bytes = Total(Queues, OwedBytes(page)) + b
        /\ page.items = Total(Queues, OwedItems(page)) + i
    BY <1>1 DEF InOrder, PageCharged
  <2>4. page.bytes + BufferedBytes(page) <= QueueLimit - n /\ QueueLimit \in Nat
    BY PageLimits DEF HasRoom, n
  <2> DEFINE B == Total(Queues, OwedBytes(page))
             I == Total(Queues, OwedItems(page))
             U == BufferedBytes(page)
  <2> HIDE DEF B, I, U
  <2>5. /\ B \in Nat /\ I \in Nat /\ U \in Nat /\ page.bytes = B + b /\ page.items = I + i
        /\ page.bytes + U <= QueueLimit - n /\ QueueLimit \in Nat
    BY <2>2, <2>3, <2>4 DEF B, I, U
  <2>6. r.bytes = B + (b + n) /\ r.items = I + (i + 1) /\ r.bytes + U <= QueueLimit
    BY ONLY <1>2, <1>3, <1>4, <2>5
  <2>7. PageCharged(r, b + n, i + 1)
    BY <2>1, <2>6 DEF PageCharged, B, I, U
  <2>8. \A z \in Queues : LaneGood(r, r.lanes[z], z)
    BY <1>1, <1>4 DEF InOrder, LaneGood
  <2>9. QED
    BY <1>1, <1>4, <2>7, <2>8 DEF InOrder
<1>6. ToldOf(r, ended)
  BY <1>1, <1>4 DEF ToldOf
<1>7. ASSUME ~o PROVE Follows(r, FedOf(r, h)) /\ Early(r, h)
  <2>1. Follows(page, FedOf(page, handed)) /\ Early(page, handed)
    BY <1>1, <1>7
  <2>2. Waiting(page) /\ Waiting(r)
    BY <1>4 DEF Waiting
  <2>3. FedOf(r, h) = FedOf(page, handed)
    BY <2>2 DEF FedOf
  <2>4. Follows(r, FedOf(r, h))
    BY <1>4, <2>1, <2>3 DEF Follows
  <2>5. ASSUME NEW q \in Queues PROVE h[q] = OfQueue(FlattenSeq(w), q)
    <3> DEFINE f == FlattenSeq(v)
    <3>1. f \in Seq(Frames) /\ v \in Seq(Seq(Frames)) /\ m \in Seq(Frames)
      BY <1>2, FlattenSizes DEF Message
    <3>2. FlattenSeq(w) = f \o m
      BY <3>1, FlattenAppended
    <3>3. h[q] = handed[q] \o OfQueue(m, q)
      BY DEF FedAll
    <3>4. handed[q] = OfQueue(f, q)
      BY <2>1, <2>2 DEF Early
    <3> HIDE DEF f, w, h
    <3>5. OfStream(f \o m, q) = OfStream(f, q) \o OfStream(m, q)
      BY <3>1, OfStreamJoined
    <3>6. <<>> \o <<>> = <<>>
      OBVIOUS
    <3>7. OfQueue(f \o m, q) = OfQueue(f, q) \o OfQueue(m, q)
      BY <3>5, <3>6 DEF OfQueue
    <3>8. QED
      BY <3>2, <3>3, <3>4, <3>7
  <2> HIDE DEF h, w
  <2>6. r.stage # "up"
    BY <1>1, <1>4 DEF InOrder
  <2>7. Early(r, h)
    BY <1>4, <2>5, <2>6 DEF Early
  <2>8. QED
    BY <2>4, <2>7
<1>8. Held(r, h, s, ended, o)
  <2>1. InOrder(r, Sizes(r.pending), Len(r.pending))
    BY <1>3, <1>4, <1>5
  <2>2. AppOf(h, s) /\ h \in [Queues -> Seq(Frames)]
    OBVIOUS
  <2> HIDE DEF h, w
  <2>3. QED
    BY <1>1, <1>4, <1>6, <1>7, <2>1, <2>2 DEF Held
<1>9. QED
  BY <1>8 DEF r, n

\* port.onmessage.
LEMMA AppSendsStep ==
    ASSUME Held(page, handed, streams, ended, overtaken), overtaken \in BOOLEAN,
           NEW m \in Messages, AppSends(m)
    PROVE  Held(page', handed', streams', ended, overtaken') /\ overtaken' \in BOOLEAN
<1> DEFINE h == FedAll(handed, m)
           s == Spoken(streams, m)
           o == overtaken \/ (page.token /\ page.pending # <<>>)
           w == [ChargePage(page, Size(m), 1) EXCEPT !.pending = Append(@, m)]
<1>1. m \in Message /\ MaySend(m) /\ ~page.closed
  BY PageLimits DEF AppSends
<1>2. /\ page' = IF page.token THEN QueueCarrier(page, m)
                 ELSE IF HasRoom(page, Size(m)) THEN w ELSE Close(page)
      /\ handed' = h /\ overtaken' = o
  BY DEF AppSends, Fail, FedAll
<1>3. streams' = s
  BY DEF AppSends, Spoken, Named
<1>4. /\ page \in PageType /\ handed \in [Queues -> Seq(Frames)] /\ ended \subseteq StreamIDs
      /\ streams \in [StreamIDs -> {"new", "open", "closed"}] /\ AppOf(handed, streams)
      /\ \A z \in StreamIDs : page.told[z] <= 1
  BY DEF Held
<1>5. AppOf(h, s) /\ s \in [StreamIDs -> {"new", "open", "closed"}]
      /\ h \in [Queues -> Seq(Frames)]
  BY <1>1, <1>4, AppGoesOn
<1>6. o \in BOOLEAN
  BY <1>4 DEF PageType
<1> HIDE DEF h, s, w, o
<1>7. CASE page.token
  <2>1. overtaken \/ page.pending # <<>> => o
    BY <1>7 DEF o
  <2>2. Held(QueueCarrier(page, m), h, s, ended, o)
    BY <1>1, <1>5, <1>6, <1>7, <2>1, SentHeld DEF h
  <2>3. QED
    BY <1>2, <1>3, <1>6, <1>7, <2>2
<1>8. CASE ~page.token /\ HasRoom(page, Size(m))
  <2>1. overtaken => o
    BY DEF o
  <2>2. Held(w, h, s, ended, o)
    BY <1>1, <1>5, <1>6, <1>8, <2>1, WaitingHeld DEF h, w
  <2>3. QED
    BY <1>2, <1>3, <1>6, <1>8, <2>2
<1>9. CASE ~page.token /\ ~HasRoom(page, Size(m))
  <2>1. Close(page) \in PageType /\ Close(page).closed /\ Close(page).told = page.told
    BY <1>4, CloseIs DEF Same
  <2>2. Held(Close(page), h, s, ended, o)
    BY <1>4, <1>5, <2>1 DEF Held
  <2>3. QED
    BY <1>2, <1>3, <1>6, <1>9, <2>2
<1>10. QED
  BY <1>7, <1>8, <1>9

\* The app takes up a CLOSE.
LEMMA AppHearsStep ==
    ASSUME Held(page, handed, streams, ended, overtaken), NEW id \in StreamIDs, AppHears(id)
    PROVE  Held(page, handed, streams', ended, overtaken)
<1>1. streams' = [streams EXCEPT ![id] = "closed"] /\ streams[id] = "open"
  BY DEF AppHears
<1>2. streams \in [StreamIDs -> {"new", "open", "closed"}] /\ AppOf(handed, streams)
  BY DEF Held
<1>3. streams' \in [StreamIDs -> {"new", "open", "closed"}]
  BY <1>1, <1>2
<1>4. AppOf(handed, streams')
  BY <1>1, <1>2 DEF AppOf
<1>5. QED
  BY <1>3, <1>4 DEF Held

--------------------------------------------------------------------------------
(* The invariant is inductive.                                             *)

\* The carrier stays, so what holds of the next page holds in the next state.
LEMMA CarrierStays ==
    ASSUME carrier' = carrier, Held(page', handed', streams', ended', overtaken')
    PROVE  Held(page, handed, streams, ended, overtaken)'
<1> DEFINE b == Sizes(page.pending)
           i == Len(page.pending)
<1>1. (PerLane' <=> PerLane) /\ (WebSockets' <=> WebSockets)
  BY DEF PerLane, WebSockets
<1>2. AppOf(handed', streams') => AppOf(handed, streams)'
  BY <1>1 DEF AppOf
<1>3. ToldOf(page', ended') => ToldOf(page, ended)'
  BY DEF ToldOf
<1>4. ASSUME Early(page', handed') PROVE Early(page, handed)'
  <2>1. \A q \in Queues : OfQueue(FlattenSeq(page.pending), q)'
                            = OfQueue(FlattenSeq(page'.pending), q)
    BY <1>1 DEF OfQueue
  <2>2. QED
    BY <1>4, <2>1 DEF Early
<1>5. ASSUME InOrder(page', b', i') PROVE InOrder(page, b, i)'
  <2>1. ASSUME NEW q \in Queues PROVE LaneGood(page, page.lanes[q], q)'
    <3>1. LaneGood(page', page'.lanes[q], q)
      BY <1>5 DEF InOrder
    <3>2. LaneOK(page'.lanes[q]) => LaneOK(page.lanes[q])'
      BY <1>1 DEF LaneOK
    <3>3. Awake(page'.lanes[q]) => Awake(page.lanes[q])'
      BY <1>1 DEF Awake
    <3>4. QED
      BY <1>1, <3>1, <3>2, <3>3 DEF LaneGood
  <2>2. QED
    BY <1>5, <2>1 DEF InOrder
<1>6. QED
  BY <1>2, <1>3, <1>4, <1>5 DEF Held

\* It holds at first.
LEMMA InvariantInit == Init => IInv
<1> SUFFICES ASSUME Init PROVE IInv
  OBVIOUS
<1> DEFINE L == IF PerLane THEN NewLane ELSE [NewLane EXCEPT !.entry = "present"]
<1>1. /\ carrier \in Carriers /\ overtaken = FALSE /\ ended = {} /\ posted = 0
      /\ streams = [id \in StreamIDs |-> "new"] /\ handed = [q \in Queues |-> <<>>]
      /\ page = [stage |-> "new", closed |-> FALSE, token |-> FALSE, deleted |-> FALSE,
                 bytes |-> 0, items |-> 0, pending |-> <<>>,
                 told |-> [id \in StreamIDs |-> 0], lanes |-> [q \in Queues |-> L]]
  BY DEF Init
<1>2. <<>> \in Seq(Message) /\ Sizes(<<>>) = 0 /\ Len(<<>>) = 0 /\ <<>> \in Seq(Body)
      /\ <<>> \in Seq(Frames) /\ FlattenSeq(<<>>) = <<>> /\ <<>> \o <<>> = <<>>
  BY SizesEmpty, FlattenNothing
<1>3. L \in LaneType
  <2>1. NewLane \in LaneType
    BY <1>2 DEF NewLane, NoBody, LaneType
  <2>2. [NewLane EXCEPT !.entry = "present"] \in LaneType
    BY <2>1 DEF LaneType
  <2>3. QED
    BY <2>1, <2>2
<1>4. /\ L.pending = <<>> /\ L.bodies = <<>> /\ L.bytes = 0 /\ L.items = 0 /\ L.flight = NoBody
      /\ ~L.polling /\ L.socket = "none" /\ L.buffered = 0 /\ ~L.localClosed
      /\ ~L.remoteClosed
      /\ L.entry = (IF PerLane THEN "absent" ELSE "present")
  BY DEF NewLane
<1> HIDE DEF L
<1>5. page \in PageType
  BY <1>1, <1>2, <1>3 DEF PageType
<1>6. OwedB(L) = 0 /\ OwedI(L) = 0 /\ Buffer(L) = 0 /\ Carried(L) = <<>>
  BY <1>2, <1>4 DEF OwedB, OwedI, Buffer, Carried, NoBody
<1>7. \A q \in Queues : page.lanes[q] = L
  BY <1>1
<1>8. LaneOK(L) /\ Awake(L)
  BY <1>4, <1>6 DEF LaneOK, Awake
<1>9. \A q \in Queues : LaneGood(page, L, q)
  BY <1>1, <1>4, <1>8 DEF LaneGood
<1>10. PageCharged(page, 0, 0)
  <2> DEFINE B == OwedBytes(page)
             I == OwedItems(page)
             U == [q \in Queues |-> IF page.lanes[q].socket = "open"
                                    THEN page.lanes[q].buffered ELSE 0]
  <2>1. \A q \in Queues : B[q] = 0 /\ I[q] = 0 /\ U[q] = 0
    BY <1>4, <1>6, <1>7 DEF OwedBytes, OwedItems, OwedB, OwedI
  <2>2. BufferedBytes(page) = Total(Queues, U)
    BY DEF BufferedBytes
  <2> HIDE DEF B, I, U
  <2>3. Total(Queues, B) = 0 /\ Total(Queues, I) = 0 /\ Total(Queues, U) = 0
    BY <2>1, TotalZero, PageLimits
  <2>4. page.bytes = 0 /\ page.items = 0
    BY <1>1
  <2>5. QED
    BY <2>2, <2>3, <2>4, PageLimits DEF PageCharged, B, I
<1>11. InOrder(page, Sizes(page.pending), Len(page.pending))
  <2>1. page.pending = <<>> /\ page.stage = "new"
    BY <1>1
  <2>2. QED
    BY <1>2, <1>7, <1>9, <1>10, <2>1 DEF InOrder
<1>12. ToldOf(page, ended)
  <2>1. ended = {} /\ \A id \in StreamIDs : page.told[id] = 0 /\ ~page.lanes[id].remoteClosed
    BY <1>1, <1>4, <1>7, PageLimits
  <2>2. QED
    BY ONLY <2>1 DEF ToldOf
<1>13. handed \in [Queues -> Seq(Frames)] /\ streams \in [StreamIDs -> {"new", "open", "closed"}]
  BY <1>1, <1>2
<1>14. AppOf(handed, streams)
  <2>1. ~HasClose(<<>>) /\ Begun(<<>>)
    BY DEF HasClose, Begun
  <2>2. QED
    BY <1>1, <2>1, PageLimits DEF AppOf
<1>15. Early(page, handed)
  <2>1. \A q \in Queues : OfQueue(<<>>, q) = <<>>
    BY OfStreamNothing DEF OfQueue
  <2>2. QED
    BY <1>1, <1>2, <2>1 DEF Early
<1>16. Follows(page, FedOf(page, handed))
  <2>1. \A q \in Queues : FedOf(page, handed)[q] = <<>>
    BY <1>1 DEF FedOf, Waiting
  <2>2. Feeds(L, <<>>) /\ \A t : Ends(L, <<>>, t)
    BY <1>4, <1>6 DEF Feeds, Ends
  <2>3. QED
    BY <1>7, <2>1, <2>2, PageLimits DEF Follows
<1>17. \A id \in StreamIDs : page.told[id] <= 1
  BY <1>1
<1>18. Held(page, handed, streams, ended, overtaken)
  BY <1>1, <1>5, <1>11, <1>12, <1>13, <1>14, <1>15, <1>16, <1>17 DEF Held
<1>19. QED
  BY <1>1, <1>18 DEF IInv

\* Every step keeps it.
LEMMA InvariantStep == IInv /\ [Next]_vars => IInv'
<1> SUFFICES ASSUME IInv, [Next]_vars PROVE IInv'
  OBVIOUS
<1> USE DEF UnchangedApp, Becomes
<1>1. /\ Held(page, handed, streams, ended, overtaken) /\ carrier \in Carriers
      /\ overtaken \in BOOLEAN /\ posted \in Nat
  BY DEF IInv
<1>2. ASSUME carrier' = carrier, overtaken' \in BOOLEAN, posted' \in Nat,
             Held(page', handed', streams', ended', overtaken')
      PROVE  IInv'
  BY <1>1, <1>2, CarrierStays DEF IInv
<1>3. ASSUME UnchangedApp, Held(page', handed, streams, ended, overtaken) PROVE IInv'
  <2>1. /\ carrier' = carrier /\ handed' = handed /\ streams' = streams /\ ended' = ended
        /\ overtaken' = overtaken /\ posted' = posted
    BY <1>3
  <2>2. QED
    BY <1>1, <1>2, <1>3, <2>1
<1>4. CASE Hello
  BY <1>1, <1>3, <1>4, HelloStep DEF Hello
<1>5. CASE CreateAnswered
  BY <1>1, <1>3, <1>5, CreateAnsweredStep DEF CreateAnswered
<1>6. CASE CreateFails
  BY <1>1, <1>3, <1>6, EndedStep DEF CreateFails
<1>7. CASE WelcomeRead
  BY <1>1, <1>3, <1>7, WelcomeReadStep DEF WelcomeRead
<1>8. CASE WelcomeFails
  BY <1>1, <1>3, <1>8, EndedStep DEF WelcomeFails
<1>9. ASSUME NEW q \in Queues, UpAcked(q) PROVE IInv'
  BY <1>1, <1>3, <1>9, UpAckedStep DEF UpAcked
<1>10. ASSUME NEW q \in Queues, UpFails(q) PROVE IInv'
  BY <1>1, <1>3, <1>10, UpFailsStep DEF UpFails
<1>11. ASSUME NEW q \in Queues, CarrierFails(q) PROVE IInv'
  BY <1>1, <1>3, <1>11, CloseStep DEF CarrierFails, Fail
<1>12. ASSUME NEW q \in Queues, SocketOpens(q) PROVE IInv'
  BY <1>1, <1>3, <1>12, SocketOpensStep DEF SocketOpens
<1>13. ASSUME NEW q \in Queues, SocketCloses(q) PROVE IInv'
  BY <1>1, <1>3, <1>13, SocketClosesStep DEF SocketCloses
<1>14. ASSUME NEW q \in Queues, SocketDrains(q) PROVE IInv'
  BY <1>1, <1>3, <1>14, SocketDrainsStep DEF SocketDrains
<1>15. ASSUME NEW q \in Queues, Microtask(q) PROVE IInv'
  BY <1>1, <1>3, <1>15, MicrotaskStep DEF Microtask
<1>16. ASSUME NEW q \in Queues, Timer(q) PROVE IInv'
  BY <1>1, <1>3, <1>16, TimerStep DEF Timer
<1>17. ASSUME NEW id \in StreamIDs, LaneClosed(id) PROVE IInv'
  BY <1>1, <1>3, <1>17, LaneClosedStep DEF LaneClosed
<1>18. ASSUME NEW id \in StreamIDs, RelayCloses(id) PROVE IInv'
  <2>1. /\ carrier' = carrier /\ handed' = handed /\ streams' = streams
        /\ overtaken' = overtaken /\ posted' = posted
    BY <1>18 DEF RelayCloses
  <2>2. Held(page', handed, streams, ended', overtaken)
    BY <1>1, <1>18, RelayClosesStep
  <2>3. QED
    BY <1>1, <1>2, <2>1, <2>2
<1>19. ASSUME NEW id \in StreamIDs, AppHears(id) PROVE IInv'
  <2>1. /\ carrier' = carrier /\ handed' = handed /\ page' = page /\ ended' = ended
        /\ overtaken' = overtaken /\ posted' = posted
    BY <1>19 DEF AppHears
  <2>2. Held(page, handed, streams', ended, overtaken)
    BY <1>1, <1>19, AppHearsStep
  <2>3. QED
    BY <1>1, <1>2, <2>1, <2>2
<1>20. ASSUME NEW m \in Messages, AppSends(m) PROVE IInv'
  <2>1. carrier' = carrier /\ ended' = ended /\ posted' \in Nat
    BY <1>1, <1>20 DEF AppSends
  <2>2. Held(page', handed', streams', ended, overtaken') /\ overtaken' \in BOOLEAN
    BY <1>1, <1>20, AppSendsStep
  <2>3. QED
    BY <1>2, <2>1, <2>2
<1>21. CASE AppLeaves
  BY <1>1, <1>3, <1>21, CloseStep DEF AppLeaves
<1>22. CASE UNCHANGED vars
  <2>1. UnchangedApp /\ page' = page
    BY <1>22 DEF vars
  <2>2. QED
    BY <1>1, <1>3, <2>1
<1>23. QED
  BY <1>4, <1>5, <1>6, <1>7, <1>8, <1>9, <1>10, <1>11, <1>12, <1>13, <1>14, <1>15, <1>16,
     <1>17, <1>18, <1>19, <1>20, <1>21, <1>22 DEF Next

--------------------------------------------------------------------------------
(* The theorems.                                                           *)

\* What holds of every reachable state.
THEOREM Invariance == Spec => []IInv
BY InvariantInit, InvariantStep, PTL DEF Spec

\* Type correctness: the page's variables and lanes have the values the script
\* gives them, and what it sends are bodies that fit, or single frames.
THEOREM TypeCorrect == Spec => []Typed
<1>1. IInv => Typed
  BY DEF IInv, Held, Typed
<1>2. QED
  BY <1>1, Invariance, PTL

\* The accounting of reserve and release is exact while the page is open, and
\* what is queued or buffered stays within the limit.
THEOREM AccountingIsExact == Spec => []QueueExact
<1>1. ASSUME IInv PROVE QueueExact
  <2> SUFFICES ASSUME ~page.closed
               PROVE  /\ page.bytes = Total(Queues, OwedBytes(page)) + Sizes(page.pending)
                      /\ page.items = Total(Queues, OwedItems(page)) + Len(page.pending)
                      /\ PerLane => \A q \in Queues :
                           /\ page.lanes[q].bytes = OwedBytes(page)[q]
                           /\ page.lanes[q].items = OwedItems(page)[q]
                      /\ page.bytes + BufferedBytes(page) <= QueueLimit
    BY DEF QueueExact
  <2>1. InOrder(page, Sizes(page.pending), Len(page.pending))
    BY <1>1 DEF IInv, Held
  <2>2. ASSUME PerLane, NEW q \in Queues
        PROVE  /\ page.lanes[q].bytes = OwedBytes(page)[q]
               /\ page.lanes[q].items = OwedItems(page)[q]
    <3>1. LaneOK(page.lanes[q])
      BY <2>1 DEF InOrder, LaneGood
    <3>2. page.lanes[q].bytes = OwedB(page.lanes[q]) /\ page.lanes[q].items = OwedI(page.lanes[q])
      BY <2>2, <3>1 DEF LaneOK
    <3>3. QED
      BY <3>2 DEF OwedB, OwedI, OwedBytes, OwedItems
  <2>3. QED
    BY <2>1, <2>2 DEF InOrder, PageCharged
<1>2. QED
  BY <1>1, Invariance, PTL

\* The bodies and the queue of a lane carry what the app handed over, in order
\* and once; the bodies fit, or are one frame.
THEOREM BodiesKeepOrder == Spec => []BodiesInOrder
<1>1. ASSUME IInv, NEW q \in Queues
      PROVE  LET l == page.lanes[q]
                 early == OfQueue(FlattenSeq(page.pending), q)
                 carried == FlattenSeq(l.bodies) \o FlattenSeq(l.pending) \o early
             IN  /\ \A k \in DOMAIN l.bodies : Fits(l.bodies[k]) \/ Len(l.bodies[k]) = 1
                 /\ ~overtaken /\ ~page.closed =>
                      /\ IsPrefix(carried, handed[q])
                      /\ l.entry = "present" => carried = handed[q]
  <2> DEFINE l == page.lanes[q]
             early == OfQueue(FlattenSeq(page.pending), q)
             carried == Carried(l) \o early
             s == FedOf(page, handed)[q]
  <2>1. l \in LaneType /\ handed[q] \in Seq(Frames) /\ page.pending \in Seq(Message)
    BY <1>1 DEF IInv, Held, PageType
  <2>2. Carried(l) \in Seq(Frames) /\ l.bodies \in Seq(Body)
    BY <2>1, LaneHolds
  <2>3. \A k \in DOMAIN l.bodies : Fits(l.bodies[k]) \/ Len(l.bodies[k]) = 1
    <3> DEFINE v == l.bodies
    <3>1. v \in Seq(Body)
      BY <2>2
    <3> HIDE DEF v
    <3>2. \A k \in DOMAIN v : v[k] \in Body
      BY <3>1, ElementOfSeq, LenProperties
    <3>3. QED
      BY <3>2 DEF Body, v
  <2>4. ASSUME ~overtaken, ~page.closed
        PROVE  IsPrefix(carried, handed[q]) /\ (l.entry = "present" => carried = handed[q])
    <3>1. Feeds(l, s) /\ Early(page, handed)
      BY <1>1, <2>4 DEF IInv, Held, Follows
    <3>2. l.entry \in {"absent", "present", "gone"}
      BY <2>1 DEF LaneType
    <3>3. IsPrefix(handed[q], handed[q])
      BY <2>1, PrefixSelf
    <3>4. CASE Waiting(page)
      <4>1. s = <<>> /\ handed[q] = early
        BY <3>1, <3>4 DEF FedOf, Early
      <4> HIDE DEF l, early, s
      <4>2. Carried(l) = <<>>
        <5>1. l.entry = "gone" => IsPrefix(Carried(l), <<>>)
          BY <3>1, <4>1 DEF Feeds
        <5>2. l.entry = "gone" => Carried(l) = <<>>
          BY <2>2, <5>1, PrefixOfNothing
        <5>3. QED
          BY <3>1, <3>2, <4>1, <5>2 DEF Feeds
      <4>3. <<>> \o early = early
        BY <2>1, <4>1, ConcatEmptySeq
      <4>4. carried = handed[q]
        BY <4>1, <4>2, <4>3
      <4> HIDE DEF carried
      <4>5. QED
        BY <3>3, <4>4
    <3>5. CASE ~Waiting(page)
      <4>1. s = handed[q] /\ page.pending = <<>>
        BY <3>5 DEF FedOf, Waiting
      <4>2. early = <<>>
        BY <4>1, FlattenNothing, OfStreamNothing DEF OfQueue
      <4> HIDE DEF l, early, s
      <4>3. carried = Carried(l)
        BY <2>2, <4>2, ConcatEmptySeq
      <4> HIDE DEF carried
      <4>4. l.entry = "absent" => Carried(l) = handed[q]
        BY <3>1, <4>1 DEF Feeds
      <4>5. l.entry = "present" => Carried(l) = handed[q]
        BY <3>1, <4>1 DEF Feeds
      <4>6. l.entry = "gone" => IsPrefix(Carried(l), handed[q])
        BY <3>1, <4>1 DEF Feeds
      <4>7. QED
        BY <3>2, <3>3, <4>3, <4>4, <4>5, <4>6
    <3>6. QED
      BY <3>4, <3>5
  <2>5. QED
    BY <2>3, <2>4 DEF Carried
<1>2. IInv => BodiesInOrder
  BY <1>1 DEF BodiesInOrder
<1>3. QED
  BY <1>2, Invariance, PTL

\* A stream the app takes for open has a lane that will hear of its end, or its
\* end has been told, and no end is told twice.
THEOREM EndsAreTold == Spec => []EveryEndIsTold
<1>1. ASSUME IInv, NEW id \in StreamIDs
      PROVE  LET l == page.lanes[id]
             IN  /\ page.told[id] <= 1
                 /\ /\ PerLane /\ page.stage = "up" /\ ~page.closed /\ ~overtaken
                    /\ streams[id] = "open" /\ page.told[id] = 0
                    => /\ l.entry = "present"
                       /\ IF WebSockets THEN l.socket \in {"connecting", "open"}
                          ELSE l.polling \/ l.flight # NoBody
  <2> DEFINE l == page.lanes[id]
             s == FedOf(page, handed)[id]
  <2>1. page.told[id] <= 1 /\ id \in Queues /\ l \in LaneType
    BY <1>1, PageLimits DEF IInv, Held, PageType
  <2>2. ASSUME PerLane, page.stage = "up", ~page.closed, ~overtaken, streams[id] = "open",
               page.told[id] = 0
        PROVE  /\ l.entry = "present"
               /\ IF WebSockets THEN l.socket \in {"connecting", "open"}
                  ELSE l.polling \/ l.flight # NoBody
    <3>1. /\ InOrder(page, Sizes(page.pending), Len(page.pending)) /\ AppOf(handed, streams)
          /\ Follows(page, FedOf(page, handed)) /\ Early(page, handed)
      BY <1>1, <2>2 DEF IInv, Held
    <3>2. ~Waiting(page)
      BY <2>2, <3>1 DEF InOrder, Early, Waiting
    <3>3. s = handed[id]
      BY <2>1, <3>2 DEF FedOf
    <3>4. Feeds(l, s) /\ Ends(l, s, page.told[id]) /\ Awake(l)
      BY <2>1, <3>1 DEF Follows, InOrder, LaneGood
    <3> HIDE DEF l, s
    <3>5. s # <<>> /\ ~HasClose(s)
      BY <2>2, <3>1, <3>3 DEF AppOf
    <3>6. l.entry # "absent" /\ l.entry # "gone"
      BY <2>2, <3>4, <3>5 DEF Feeds, Ends
    <3>7. l.entry = "present"
      BY <2>1, <3>6 DEF LaneType
    <3>8. QED
      BY <2>2, <3>4, <3>7 DEF Awake
  <2>3. QED
    BY <2>1, <2>2
<1>2. IInv => EveryEndIsTold
  BY <1>1 DEF EveryEndIsTold
<1>3. QED
  BY <1>2, Invariance, PTL
================================================================================
