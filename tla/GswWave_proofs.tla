--------------------------- MODULE GswWave_proofs ---------------------------
(***************************************************************************)
(* Machine-checked proofs about GswWave and the stream of PcmStream, for   *)
(* every set of headers, every size of the ring, the queue and the         *)
(* completion list, and every number of calls and faults: the indexes stay *)
(* right, no frame is overwritten before it is pulled, the driver keeps    *)
(* every header it owes, none goes back unplayed without a fault, and what *)
(* goes back played was heard to its last frame.                           *)
(***************************************************************************)
EXTENDS GswWave, SequenceTheorems, FiniteSetTheorems, TLAPS

-----------------------------------------------------------------------------
(* Arithmetic on the indexes of a ring.                                    *)

\* A number is its quotient's multiple and its remainder.
LEMMA Division ==
    ASSUME NEW a \in Int, NEW n \in Nat \ {0}
    PROVE  \E p \in Int : a = n * p + (a % n) /\ a % n \in 0 .. n - 1
<1>1. a = n * (a \div n) + (a % n)
  OBVIOUS
<1>2. a \div n \in Int
  OBVIOUS
<1>3. a % n \in 0 .. n - 1
  OBVIOUS
<1> QED BY <1>1, <1>2, <1>3, Zenon

\* A number that is a ring away from an index is that index.
LEMMA ModIs ==
    ASSUME NEW n \in Nat \ {0}, NEW a \in Int, NEW r \in 0 .. n - 1,
           a = r \/ a = r + n \/ a = r - n
    PROVE  a % n = r
<1> PICK m : m = a % n
  OBVIOUS
<1>1. PICK p \in Int : a = n * p + m /\ m \in 0 .. n - 1
  BY Division
<1>2. PICK q \in {-1, 0, 1} : a = n * q + r
  <2>1. n * 0 = 0 /\ n * 1 = n /\ n * (-1) = -n
    OBVIOUS
  <2> QED BY <2>1
<1>3. n * p - n * q = r - m
  <2>1. n \in Int /\ r \in Int /\ m \in Int /\ q \in Int
    BY <1>1
  <2>2. n * p \in Int /\ n * q \in Int
    BY <2>1
  <2> PICK x \in Int, y \in Int : x = n * p /\ y = n * q
    BY <2>2
  <2>3. x + m = y + r
    BY <1>1, <1>2
  <2>4. x - y = r - m
    BY <2>1, <2>3
  <2> QED BY <2>4
<1>4. CASE p <= q - 1
  <2>1. n * p <= n * (q - 1)
    BY <1>4
  <2>2. n * (q - 1) = n * q - n
    OBVIOUS
  <2> QED BY <1>1, <1>3, <2>1, <2>2
<1>5. CASE p >= q + 1
  <2>1. n * p >= n * (q + 1)
    BY <1>5
  <2>2. n * (q + 1) = n * q + n
    OBVIOUS
  <2> QED BY <1>1, <1>3, <2>1, <2>2
<1>6. CASE p = q
  BY <1>1, <1>3, <1>6
<1> QED BY <1>4, <1>5, <1>6

\* The index n cells on, and the cells from one index to another.
LEMMA ModAdd ==
    ASSUME NEW n \in Nat \ {0}, NEW x \in 0 .. n - 1, NEW y \in 0 .. n
    PROVE  (x + y) % n = (IF x + y < n THEN x + y ELSE x + y - n)
<1>1. CASE x + y < n
  BY <1>1, ModIs
<1>2. CASE x + y >= n
  <2>1. x + y - n \in 0 .. n - 1 /\ x + y \in Int
    BY <1>2
  <2> PICK r : r = x + y - n
    OBVIOUS
  <2>2. r \in 0 .. n - 1 /\ x + y = r + n
    BY <2>1
  <2>3. (x + y) % n = r
    BY <2>1, <2>2, ModIs
  <2> QED BY <1>2, <2>3
<1> QED BY <1>1, <1>2

\* The cells from index y to index x.
LEMMA ModSub ==
    ASSUME NEW n \in Nat \ {0}, NEW x \in 0 .. n - 1, NEW y \in 0 .. n - 1
    PROVE  (x - y) % n = (IF x >= y THEN x - y ELSE x - y + n)
<1>1. CASE x >= y
  BY <1>1, ModIs
<1>2. CASE x < y
  <2> PICK r : r = x - y + n
    OBVIOUS
  <2>1. r \in 0 .. n - 1 /\ x - y = r - n /\ x - y \in Int
    BY <1>2
  <2>2. (x - y) % n = r
    BY <2>1, ModIs
  <2> QED BY <1>2, <2>2
<1> QED BY <1>1, <1>2

\* The smaller of two numbers, as Min finds it.
LEMMA MinOfTwo ==
    ASSUME NEW a \in Int, NEW b \in Int
    PROVE  Min({a, b}) = (IF a <= b THEN a ELSE b)
<1> DEFINE S == {a, b}
           m == IF a <= b THEN a ELSE b
<1>1. m \in S /\ \A y \in S : m <= y
  OBVIOUS
<1>2. \A x \in S : (\A y \in S : x <= y) => x = m
  OBVIOUS
<1>3. Min(S) \in S /\ \A y \in S : Min(S) <= y
  <2>1. \E x \in S : \A y \in S : x <= y
    BY <1>1
  <2> QED BY <2>1 DEF Min
<1> HIDE DEF S, m
<1>4. Min(S) = m
  BY <1>2, <1>3
<1> QED BY <1>4 DEF S, m

-----------------------------------------------------------------------------
(* The plays that release a loop.                                          *)

\* A play the VxD has not answered.
Plays == [token : 1 .. TokenLimit - 1, index : Index, complete : BOOLEAN,
          release : BOOLEAN, from : Index, to : Index]

Releases(q) == Cardinality({i \in DOMAIN q : q[i].release})
IsRelease(p) == IF p.release THEN 1 ELSE 0

\* A list of plays holds a finite number of releases.
LEMMA ReleasesType ==
    ASSUME NEW q \in Seq(Plays)
    PROVE  Releases(q) \in Nat /\ IsFiniteSet({i \in DOMAIN q : q[i].release})
<1>1. DOMAIN q = 1..Len(q) /\ Len(q) \in Nat
  OBVIOUS
<1>2. IsFiniteSet(1..Len(q))
  BY <1>1, FS_Interval
<1>3. {i \in DOMAIN q : q[i].release} \in SUBSET (1..Len(q))
  BY <1>1
<1>4. IsFiniteSet({i \in DOMAIN q : q[i].release})
  BY <1>2, <1>3, FS_Subset
<1> QED BY <1>4, FS_CardinalityType DEF Releases

\* No play, no release.
LEMMA ReleasesEmpty == Releases(<<>>) = 0
<1>1. {i \in DOMAIN <<>> : <<>>[i].release} = {}
  OBVIOUS
<1> QED BY <1>1, FS_EmptySet DEF Releases

\* A play that is submitted adds its release.
LEMMA ReleasesAppend ==
    ASSUME NEW q \in Seq(Plays), NEW p \in Plays
    PROVE  Releases(Append(q, p)) = Releases(q) + IsRelease(p)
<1> DEFINE P(s) == {i \in DOMAIN s : s[i].release}
           n == Len(q)
<1>1. n \in Nat /\ DOMAIN q = 1..n /\ DOMAIN Append(q, p) = 1..n + 1
  OBVIOUS
<1>2. /\ \A i \in 1..n : Append(q, p)[i] = q[i]
      /\ Append(q, p)[n + 1] = p
  OBVIOUS
<1>3. IsFiniteSet(P(q)) /\ n + 1 \notin P(q) /\ Cardinality(P(q)) \in Nat
  BY <1>1, ReleasesType DEF Releases
<1>4. CASE p.release
  <2>1. P(Append(q, p)) = P(q) \cup {n + 1}
    <3> HIDE DEF n
    <3> QED BY <1>1, <1>2, <1>4
  <2> HIDE DEF P, n
  <2>2. Cardinality(P(q) \cup {n + 1}) = Cardinality(P(q)) + 1
    BY <1>3, FS_AddElement
  <2> QED BY <1>4, <2>1, <2>2 DEF Releases, IsRelease, P
<1>5. CASE ~p.release
  <2>1. P(Append(q, p)) = P(q)
    <3> HIDE DEF n
    <3> QED BY <1>1, <1>2, <1>5
  <2>2. Releases(Append(q, p)) = Cardinality(P(q)) /\ Releases(q) = Cardinality(P(q))
    BY <2>1 DEF Releases
  <2> HIDE DEF P
  <2> QED BY <1>3, <1>5, <2>2 DEF IsRelease
<1> QED BY <1>4, <1>5

\* A play that is answered takes its release away.
LEMMA ReleasesTail ==
    ASSUME NEW q \in Seq(Plays), q # <<>>
    PROVE  Releases(Tail(q)) = Releases(q) - IsRelease(Head(q))
<1> DEFINE P(s) == {i \in DOMAIN s : s[i].release}
           n == Len(q)
           R == P(q) \ {1}
           f == [i \in P(Tail(q)) |-> i + 1]
<1>1. n \in Nat \ {0} /\ DOMAIN q = 1..n /\ DOMAIN Tail(q) = 1..n - 1
  OBVIOUS
<1>2. /\ \A i \in 1..n - 1 : Tail(q)[i] = q[i + 1]
      /\ Head(q) = q[1]
  OBVIOUS
<1>3. IsFiniteSet(P(q)) /\ Cardinality(P(q)) \in Nat /\ Tail(q) \in Seq(Plays)
  BY ReleasesType DEF Releases
<1>4. IsFiniteSet(P(Tail(q)))
  BY <1>3, ReleasesType
<1>5. f \in Bijection(P(Tail(q)), R)
  <2>1. \A i \in P(Tail(q)) : i \in Nat /\ i + 1 \in R
    <3> HIDE DEF n
    <3> QED BY <1>1, <1>2
  <2>2. \A j \in R : j - 1 \in P(Tail(q)) /\ j \in Nat
    <3> HIDE DEF n
    <3> SUFFICES ASSUME NEW j \in R PROVE j - 1 \in P(Tail(q)) /\ j \in Nat
      OBVIOUS
    <3>1. j \in 1..n /\ j # 1 /\ q[j].release
      BY <1>1
    <3>2. j - 1 \in 1..n - 1 /\ (j - 1) + 1 = j
      BY <1>1, <3>1
    <3>3. Tail(q)[j - 1] = q[j]
      BY <1>2, <3>2
    <3> QED BY <1>1, <3>1, <3>2, <3>3
  <2> HIDE DEF P, R
  <2>3. f \in [P(Tail(q)) -> R]
    BY <2>1
  <2>4. \A i, j \in P(Tail(q)) : f[i] = f[j] => i = j
    BY <2>1
  <2>5. \A j \in R : \E i \in P(Tail(q)) : f[i] = j
    <3> SUFFICES ASSUME NEW j \in R PROVE f[j - 1] = j /\ j - 1 \in P(Tail(q))
      OBVIOUS
    <3> QED BY <2>2
  <2> HIDE DEF f
  <2> QED BY <2>3, <2>4, <2>5 DEF Bijection, Injection, Surjection, IsInjective
<1>6. Cardinality(R) = Cardinality(P(Tail(q)))
  <2>1. ExistsBijection(P(Tail(q)), R)
    BY <1>5 DEF ExistsBijection
  <2> HIDE DEF P, R
  <2> QED BY <1>4, <2>1, FS_Bijection
<1>7. Cardinality(R) = IF 1 \in P(q) THEN Cardinality(P(q)) - 1 ELSE Cardinality(P(q))
  BY <1>3, FS_RemoveElement
<1>8. 1 \in P(q) <=> Head(q).release
  BY <1>1, <1>2
<1> HIDE DEF R, f, n
<1>9. Releases(q) = Cardinality(P(q)) /\ Releases(Tail(q)) = Cardinality(P(Tail(q)))
  BY DEF Releases
<1> HIDE DEF P
<1> QED BY <1>3, <1>6, <1>7, <1>8, <1>9 DEF IsRelease

-----------------------------------------------------------------------------
(* The stream.                                                             *)

(* The ring holds what was sent; only an open stream has a configured and  *)
(* running device.                                                         *)
PcmInv ==
    /\ PcmTypeOK
    /\ RingHoldsSent
    /\ tr.opened => tr.bound /\ dev.configured
    /\ ~tr.opened => ~dev.running

\* The ring holds two frames at least.
LEMMA RingSize == RingFrames \in Nat \ {0} /\ RingFrames >= 2 /\ 0 \in Cells
BY RingAssumption DEF Cells

\* The cells that a submission of a frames fills.
Filled(h, t, u, a, s) ==
           /\ u \in 0 .. RingFrames - 1 /\ s \in 0 .. RingFrames - 1
           /\ (s - t) % RingFrames = a
           /\ (s - h) % RingFrames = u + a
           /\ \A i \in 1 .. u : /\ (h + i - 1) % RingFrames \in 0 .. RingFrames - 1
                                /\ (((h + i - 1) % RingFrames) - t) % RingFrames >= a
           /\ \A i \in 1 .. a : /\ (h + u + i - 1) % RingFrames \in 0 .. RingFrames - 1
                                /\ (((h + u + i - 1) % RingFrames) - t) % RingFrames < a

\* A submission that fits leaves the frames in the ring alone.
LEMMA SubmitCells ==
    ASSUME NEW h \in Cells, NEW t \in Cells, NEW u, u = (t - h) % RingFrames,
           NEW a \in 1 .. RingFrames - 1, a <= RingFrames - u - 1, NEW s, s = (t + a) % RingFrames
    PROVE  Filled(h, t, u, a, s)
<1> USE RingSize DEF Cells
<1>1. u = IF t >= h THEN t - h ELSE t - h + RingFrames
  BY ModSub
<1>2. s = IF t + a < RingFrames THEN t + a ELSE t + a - RingFrames
  <2>1. a \in 0 .. RingFrames
    OBVIOUS
  <2> QED BY <2>1, ModAdd
<1>3. u \in 0 .. RingFrames - 1 /\ s \in 0 .. RingFrames - 1
  BY <1>1, <1>2
<1>4. (s - t) % RingFrames = IF s >= t THEN s - t ELSE s - t + RingFrames
  BY <1>3, ModSub
<1>5. (s - h) % RingFrames = IF s >= h THEN s - h ELSE s - h + RingFrames
  BY <1>3, ModSub
<1>6. (s - t) % RingFrames = a /\ (s - h) % RingFrames = u + a
  BY <1>1, <1>2, <1>3, <1>4, <1>5
<1>7. ASSUME NEW i \in 1 .. u
      PROVE  /\ (h + i - 1) % RingFrames \in 0 .. RingFrames - 1
             /\ (((h + i - 1) % RingFrames) - t) % RingFrames >= a
  <2> PICK c : c = (h + i - 1) % RingFrames
    OBVIOUS
  <2>1. i - 1 \in 0 .. RingFrames /\ h + i - 1 = h + (i - 1)
    BY <1>3
  <2>2. c = IF h + (i - 1) < RingFrames THEN h + (i - 1) ELSE h + (i - 1) - RingFrames
    BY <2>1, ModAdd
  <2>3. c \in 0 .. RingFrames - 1
    BY <2>1, <2>2
  <2>4. (c - t) % RingFrames = IF c >= t THEN c - t ELSE c - t + RingFrames
    BY <2>3, ModSub
  <2>5. (c - t) % RingFrames >= a
    BY <1>1, <1>3, <2>1, <2>2, <2>3, <2>4
  <2> QED BY <2>3, <2>5
<1>8. ASSUME NEW i \in 1 .. a
      PROVE  /\ (h + u + i - 1) % RingFrames \in 0 .. RingFrames - 1
             /\ (((h + u + i - 1) % RingFrames) - t) % RingFrames < a
  <2> PICK c : c = (h + u + i - 1) % RingFrames
    OBVIOUS
  <2>1. u + i - 1 \in 0 .. RingFrames /\ h + u + i - 1 = h + (u + i - 1)
    BY <1>3
  <2>2. c = IF h + (u + i - 1) < RingFrames THEN h + (u + i - 1) ELSE h + (u + i - 1) - RingFrames
    BY <2>1, ModAdd
  <2>3. c \in 0 .. RingFrames - 1
    BY <2>1, <2>2
  <2>4. (c - t) % RingFrames = IF c >= t THEN c - t ELSE c - t + RingFrames
    BY <2>3, ModSub
  <2>5. (c - t) % RingFrames < a
    BY <1>1, <1>3, <2>1, <2>2, <2>3, <2>4
  <2> QED BY <2>3, <2>5
<1> QED BY <1>3, <1>6, <1>7, <1>8 DEF Filled

\* The cells of a ring without its oldest frame.
Pulled(h, t, u, g) ==
           /\ u \in 1 .. RingFrames - 1 /\ g \in 0 .. RingFrames - 1
           /\ (t - g) % RingFrames = u - 1
           /\ \A i \in 1 .. u - 1 : (g + i - 1) % RingFrames = (h + (i + 1) - 1) % RingFrames

\* A pull moves the head on and keeps the order of the rest.
LEMMA PullCells ==
    ASSUME NEW h \in Cells, NEW t \in Cells, NEW u, u = (t - h) % RingFrames, u > 0,
           NEW g, g = (h + 1) % RingFrames
    PROVE  Pulled(h, t, u, g)
<1> USE RingSize DEF Cells
<1>1. u = IF t >= h THEN t - h ELSE t - h + RingFrames
  BY ModSub
<1>2. g = IF h + 1 < RingFrames THEN h + 1 ELSE h + 1 - RingFrames
  <2>1. 1 \in 0 .. RingFrames
    OBVIOUS
  <2> QED BY <2>1, ModAdd
<1>3. u \in 1 .. RingFrames - 1 /\ g \in 0 .. RingFrames - 1
  BY <1>1, <1>2
<1>4. (t - g) % RingFrames = IF t >= g THEN t - g ELSE t - g + RingFrames
  BY <1>3, ModSub
<1>5. (t - g) % RingFrames = u - 1
  BY <1>1, <1>2, <1>3, <1>4
<1>6. ASSUME NEW i \in 1 .. u - 1
      PROVE  (g + i - 1) % RingFrames = (h + (i + 1) - 1) % RingFrames
  <2>1. i - 1 \in 0 .. RingFrames /\ g + i - 1 = g + (i - 1) /\ i \in 0 .. RingFrames
        /\ h + (i + 1) - 1 = h + i
    BY <1>3
  <2>2. (g + (i - 1)) % RingFrames = IF g + (i - 1) < RingFrames THEN g + (i - 1) ELSE g + (i - 1) - RingFrames
    BY <1>3, <2>1, ModAdd
  <2>3. (h + i) % RingFrames = IF h + i < RingFrames THEN h + i ELSE h + i - RingFrames
    BY <2>1, ModAdd
  <2> QED BY <1>2, <1>3, <2>1, <2>2, <2>3
<1> QED BY <1>3, <1>5, <1>6 DEF Pulled

\* What the ring holds is less than the ring.
LEMMA AvailableType ==
    ASSUME PcmTypeOK
    PROVE  Available(dev) \in 0 .. RingFrames - 1
<1>1. dev.head \in Cells /\ dev.tail \in Cells
  BY DEF PcmTypeOK
<1>2. Available(dev) = IF dev.tail >= dev.head THEN dev.tail - dev.head
                       ELSE dev.tail - dev.head + RingFrames
  BY <1>1, RingSize, ModSub DEF Available, Cells
<1> QED BY <1>1, <1>2, RingSize DEF Cells

-----------------------------------------------------------------------------
(* What a reset of the device leaves.                                      *)

\* The records of the device and of the transport.
Devices == [running : BOOLEAN, configured : BOOLEAN, bad : BOOLEAN,
            underrun : BOOLEAN, head : Cells, tail : Cells,
            position : Nat, enabled : BOOLEAN, irq : BOOLEAN,
            master : BOOLEAN, gain : Gains]

Transports == [bound : BOOLEAN, opened : BOOLEAN, paused : BOOLEAN,
               stream : Nat, tail : Cells, submitted : Nat,
               completions : Seq(Completion), invalid : BOOLEAN,
               gain : Gains]

\* The stream's types, record by record.
LEMMA PcmParts ==
    PcmTypeOK <=> /\ tr \in Transports /\ Len(tr.completions) <= CompletionCapacity
                  /\ dev \in Devices
                  /\ ring \in [Cells -> Sources \cup {Silence}]
                  /\ devnode \in BOOLEAN
                  /\ sent \in Seq(Sources)
BY DEF PcmTypeOK, Transports, Devices

\* A reset device stands still at the start of the ring.
LEMMA ResetDevice ==
    ASSUME NEW d, d.master \in BOOLEAN
    PROVE  /\ DeviceReset(d) \in Devices
           /\ DeviceReset(d).head = 0 /\ DeviceReset(d).tail = 0
           /\ ~DeviceReset(d).running
BY RingSize, GainsAssumption DEF DeviceReset, Devices

\* A silent ring is a ring.
LEMMA SilentRingType == SilentRing \in [Cells -> Sources \cup {Silence}]
BY DEF SilentRing

\* A stream with nothing in the ring.
LEMMA EmptyRing ==
    ASSUME NEW d \in Devices, d.head = 0, d.tail = 0
    PROVE  Available(d) = 0
<1>1. (0 - 0) % RingFrames = 0
  BY RingSize, ModSub
<1> QED BY <1>1 DEF Available

\* A stream that is programmed starts with an empty ring (open and reset).
LEMMA ProgramStreamPcm ==
    ASSUME PcmInv, NEW t \in Transports, t.opened, t.bound, ProgramStream(t)
    PROVE  PcmInv'
<1>1. dev \in Devices /\ devnode \in BOOLEAN
  BY PcmParts DEF PcmInv
<1>2. PICK d : d = DeviceReset(dev)
  OBVIOUS
<1>3. d \in Devices /\ d.head = 0 /\ d.tail = 0 /\ ~d.running
  BY <1>1, <1>2, ResetDevice DEF Devices
<1>4. dev' = [d EXCEPT !.configured = TRUE, !.enabled = TRUE, !.gain = t.gain]
  BY <1>2 DEF ProgramStream
<1>5. t.gain \in Gains
  BY DEF Transports
<1>6. dev' \in Devices /\ dev'.head = 0 /\ dev'.tail = 0 /\ ~dev'.running /\ dev'.configured
  BY <1>3, <1>4, <1>5 DEF Devices
<1>7. tr' = [t EXCEPT !.tail = 0, !.submitted = 0, !.completions = <<>>,
                      !.invalid = FALSE, !.paused = FALSE]
  BY DEF ProgramStream
<1>8. /\ tr' \in Transports /\ tr'.tail = 0 /\ tr'.completions = <<>>
      /\ tr'.opened /\ tr'.bound
  <2>1. <<>> \in Seq(Completion) /\ 0 \in Nat /\ 0 \in Cells
    BY RingSize
  <2> QED BY <1>7, <2>1 DEF Transports
<1>9. ring' \in [Cells -> Sources \cup {Silence}] /\ sent' = <<>> /\ devnode' = devnode
  BY SilentRingType DEF ProgramStream
<1>10. Available(dev') = 0
  BY <1>6, EmptyRing
<1>11. PcmTypeOK'
  <2>1. sent' \in Seq(Sources) /\ Len(tr'.completions) <= CompletionCapacity
    BY <1>8, <1>9, CapacityAssumption
  <2> QED BY <1>1, <1>6, <1>8, <1>9, <2>1 DEF PcmTypeOK, Transports, Devices
<1>12. RingHoldsSent'
  <2>1. Available(dev)' = 0
    BY <1>10 DEF Available
  <2> QED BY <1>6, <1>8, <1>9, <2>1 DEF RingHoldsSent
<1> QED BY <1>6, <1>8, <1>11, <1>12 DEF PcmInv

-----------------------------------------------------------------------------
(* One lemma for each step of the stream.                                  *)

\* A device that differs only in its flags.
SamePlace(d) ==
    /\ d \in Devices
    /\ d.head = dev.head /\ d.tail = dev.tail /\ d.position = dev.position
    /\ d.configured = dev.configured

\* A step that moves nothing in the ring keeps the stream's invariant.
LEMMA FlagsPcm ==
    ASSUME PcmInv, NEW d, dev' = d, SamePlace(d),
           d.running => dev.running \/ tr.opened,
           NEW t, tr' = t, t \in Transports, t.opened = tr.opened, t.bound = tr.bound,
           t.tail = tr.tail, Len(t.completions) <= CompletionCapacity,
           UNCHANGED <<ring, devnode, sent>>
    PROVE  PcmInv'
<1>1. PcmTypeOK'
  <2>1. ring' \in [Cells -> Sources \cup {Silence}] /\ devnode' \in BOOLEAN /\ sent' \in Seq(Sources)
    BY PcmParts DEF PcmInv
  <2>2. dev' \in Devices /\ tr' \in Transports /\ Len(tr'.completions) <= CompletionCapacity
    BY DEF SamePlace
  <2> QED BY <2>1, <2>2 DEF PcmTypeOK, Transports, Devices
<1>2. RingHoldsSent'
  <2>1. /\ dev'.head = dev.head /\ dev'.tail = dev.tail /\ tr'.tail = tr.tail /\ tr'.opened = tr.opened
        /\ ring' = ring /\ sent' = sent
    BY DEF SamePlace
  <2>2. Available(dev)' = Available(dev)
    BY <2>1 DEF Available
  <2> QED BY <2>1, <2>2 DEF RingHoldsSent, PcmInv
<1>3. dev'.configured = dev.configured /\ dev'.running => dev.running \/ tr.opened
  BY DEF SamePlace
<1> QED BY <1>1, <1>2, <1>3, Zenon DEF PcmInv, SamePlace

\* A stop moves nothing.
LEMMA StoppedDevice ==
    ASSUME dev \in Devices
    PROVE  SamePlace(DeviceStop(dev)) /\ ~DeviceStop(dev).running
BY DEF SamePlace, DeviceStop, Devices

\* A refused command moves nothing.
LEMMA InvalidDevice ==
    ASSUME dev \in Devices, NEW d, SamePlace(d)
    PROVE  SamePlace(NoteInvalid(d)) /\ NoteInvalid(d).running = d.running
BY DEF SamePlace, NoteInvalid, Devices

\* A start moves nothing, whether it is refused or not.
LEMMA StartedDevice ==
    ASSUME dev \in Devices, NEW d, SamePlace(d)
    PROVE  SamePlace(DeviceStart(d))
<1>1. CASE d.master /\ d.configured
  <2>1. DeviceStart(d) = [d EXCEPT !.running = TRUE, !.bad = FALSE, !.underrun = FALSE]
    BY <1>1, Zenon DEF DeviceStart
  <2> QED BY <2>1 DEF SamePlace, Devices
<1>2. CASE ~(d.master /\ d.configured)
  <2>1. DeviceStart(d) = NoteInvalid(d)
    BY <1>2, Zenon DEF DeviceStart
  <2> QED BY <2>1, InvalidDevice
<1> QED BY <1>1, <1>2

\* A device is where it is.
LEMMA SameDevice == dev \in Devices => SamePlace(dev)
BY DEF SamePlace

\* gsw_pcm_pull takes the oldest frame that was sent, or latches the underrun.
LEMMA PullPcm == ASSUME PcmInv, PcmPull PROVE PcmInv'
<1>1. /\ dev \in Devices /\ tr \in Transports /\ Len(tr.completions) <= CompletionCapacity
      /\ tr.opened /\ RingHoldsSent /\ ring \in [Cells -> Sources \cup {Silence}]
      /\ devnode \in BOOLEAN /\ sent \in Seq(Sources) /\ tr' = tr /\ ring' = ring /\ devnode' = devnode
  BY PcmParts, Zenon DEF PcmInv, PcmPull
<1>2. CASE Available(dev) > 0
  <2>a. PICK h : h = dev.head
    OBVIOUS
  <2>b. PICK t : t = dev.tail
    OBVIOUS
  <2>c. PICK u : u = Available(dev)
    OBVIOUS
  <2>d. PICK g : g = (h + 1) % RingFrames
    OBVIOUS
  <2>1. h \in 0 .. RingFrames - 1 /\ t \in 0 .. RingFrames - 1 /\ u = (t - h) % RingFrames /\ u > 0
    BY <1>1, <1>2, <2>a, <2>b, <2>c DEF Devices, Cells, Available
  <2>2. /\ u \in 1 .. RingFrames - 1 /\ g \in 0 .. RingFrames - 1
        /\ (t - g) % RingFrames = u - 1
        /\ \A i \in 1 .. u - 1 : (g + i - 1) % RingFrames = (h + (i + 1) - 1) % RingFrames
    <3>1. Pulled(h, t, u, g)
      BY <2>1, <2>d, PullCells, Zenon DEF Cells
    <3> QED BY <3>1 DEF Pulled
  <2>3. dev' = [dev EXCEPT !.head = g, !.position = dev.position + 1] /\ sent' = Tail(sent)
    BY <1>2, <2>a, <2>d DEF PcmPull
  <2>4. dev' \in Devices /\ dev'.head = g /\ dev'.tail = t /\ dev'.configured = dev.configured
    <3>1. g \in Cells /\ dev.position + 1 \in Nat
      BY <1>1, <2>2 DEF Devices, Cells
    <3> QED BY <1>1, <2>3, <2>b, <3>1 DEF Devices
  <2>5. /\ Len(sent) = u /\ tr.tail = t
        /\ \A i \in 1 .. u : ring[(h + i - 1) % RingFrames] = sent[i]
    BY <1>1, <2>a, <2>b, <2>c DEF RingHoldsSent
  <2>6. /\ Tail(sent) \in Seq(Sources) /\ Len(Tail(sent)) = u - 1
        /\ \A i \in 1 .. u - 1 : Tail(sent)[i] = sent[i + 1]
    BY <1>1, <2>2, <2>5
  <2>7. PcmTypeOK'
    BY <1>1, <2>3, <2>4, <2>6 DEF PcmTypeOK, Transports, Devices
  <2>8. RingHoldsSent'
    <3>1. Available(dev)' = u - 1
      BY <2>2, <2>4 DEF Available
    <3>2. ASSUME NEW i \in 1 .. u - 1 PROVE ring[(g + i - 1) % RingFrames] = Tail(sent)[i]
      <4>1. i + 1 \in 1 .. u
        BY <2>2
      <4>2. ring[(h + (i + 1) - 1) % RingFrames] = sent[i + 1]
        BY <2>5, <4>1
      <4> QED BY <2>2, <2>6, <4>2
    <3> QED BY <1>1, <2>3, <2>4, <2>5, <2>6, <3>1, <3>2 DEF RingHoldsSent
  <2> QED BY <1>1, <2>4, <2>7, <2>8, Zenon DEF PcmInv
<1>3. CASE ~(Available(dev) > 0)
  <2>1. dev' = [dev EXCEPT !.underrun = TRUE] /\ sent' = sent
    BY <1>3 DEF PcmPull
  <2>2. SamePlace(dev')
    BY <1>1, <2>1 DEF SamePlace, Devices
  <2> QED BY <1>1, <2>1, <2>2, FlagsPcm
<1> QED BY <1>2, <1>3

\* Losing or getting bus mastering moves nothing.
LEMMA BusMasterPcm == ASSUME PcmInv, PcmBusMaster PROVE PcmInv'
<1>1. /\ dev \in Devices /\ tr \in Transports /\ Len(tr.completions) <= CompletionCapacity
      /\ UNCHANGED <<tr, ring, devnode, sent>>
  BY PcmParts, Zenon DEF PcmInv, PcmBusMaster
<1>2. SamePlace(dev') /\ (dev'.running => dev.running)
  <2>1. CASE dev.master /\ dev.running
    <3> PICK d : d = NoteInvalid(DeviceStop(dev))
      OBVIOUS
    <3>1. SamePlace(d) /\ ~d.running
      BY <1>1, StoppedDevice, InvalidDevice
    <3>2. dev' = [d EXCEPT !.master = FALSE]
      BY <2>1 DEF PcmBusMaster
    <3> QED BY <3>1, <3>2 DEF SamePlace, Devices
  <2>2. CASE ~(dev.master /\ dev.running)
    <3>1. dev' = [dev EXCEPT !.master = ~dev.master]
      BY <2>2 DEF PcmBusMaster
    <3>2. (~dev.master) \in BOOLEAN
      BY <1>1 DEF Devices
    <3> QED BY <1>1, <3>1, <3>2 DEF SamePlace, Devices
  <2> QED BY <2>1, <2>2
<1> QED BY <1>1, <1>2, FlagsPcm

\* The interrupt handler moves nothing.
LEMMA InterruptPcm == ASSUME PcmInv, PcmInterrupt PROVE PcmInv'
<1>1. /\ dev \in Devices /\ tr \in Transports /\ Len(tr.completions) <= CompletionCapacity
      /\ UNCHANGED <<ring, devnode, sent>>
  BY PcmParts, Zenon DEF PcmInv, PcmInterrupt
<1>2. SamePlace(dev') /\ dev'.running = dev.running
  BY <1>1 DEF PcmInterrupt, SamePlace, Devices
<1>3. /\ tr' \in Transports /\ tr'.opened = tr.opened /\ tr'.bound = tr.bound
      /\ tr'.tail = tr.tail /\ tr'.completions = tr.completions
  BY <1>1 DEF PcmInterrupt, Transports
<1> QED BY <1>1, <1>2, <1>3, FlagsPcm

\* Nothing is open.
LEMMA ClosedPcm ==
    ASSUME PcmInv, tr' \in Transports, ~tr'.opened, Len(tr'.completions) <= CompletionCapacity,
           dev' \in Devices, ~dev'.running, ring' = ring \/ ring' = SilentRing,
           devnode' \in BOOLEAN, sent' = sent \/ sent' = <<>>
    PROVE  PcmInv'
<1>1. ring' \in [Cells -> Sources \cup {Silence}] /\ sent' \in Seq(Sources)
  <2>1. <<>> \in Seq(Sources)
    OBVIOUS
  <2>2. ring \in [Cells -> Sources \cup {Silence}] /\ sent \in Seq(Sources)
    BY PcmParts DEF PcmInv
  <2> QED BY <2>1, <2>2, SilentRingType
<1>2. PcmTypeOK'
  BY <1>1 DEF PcmTypeOK, Transports, Devices
<1> QED BY <1>2, Zenon DEF PcmInv, RingHoldsSent

\* An unbound transport is a transport.
LEMMA UnboundType ==
    /\ Unbound \in Transports /\ ~Unbound.opened /\ Unbound.completions = <<>>
    /\ [Unbound EXCEPT !.bound = TRUE] \in Transports
    /\ ~[Unbound EXCEPT !.bound = TRUE].opened
    /\ [Unbound EXCEPT !.bound = TRUE].completions = <<>>
<1>1. <<>> \in Seq(Completion) /\ 0 \in Nat /\ 0 \in Cells /\ Unity \in Gains
  BY RingSize, GainsAssumption
<1> QED BY <1>1 DEF Unbound, Transports

\* A node that is registered or started has no open stream.
LEMMA PlugPcm == ASSUME PcmInv, PnpRegister \/ PnpStart PROVE PcmInv'
<1>1. dev \in Devices /\ tr \in Transports /\ Len(tr.completions) <= CompletionCapacity /\ devnode \in BOOLEAN
  BY PcmParts, Zenon DEF PcmInv
<1>2. CASE PnpRegister
  <2>1. devnode' \in BOOLEAN /\ tr' = tr /\ dev' = dev /\ ring' = ring /\ sent' = sent
    BY <1>2, Zenon DEF PnpRegister
  <2>2. PcmTypeOK' /\ RingHoldsSent'
    <3>1. Available(dev)' = Available(dev)
      BY <2>1 DEF Available
    <3> QED BY <2>1, <3>1 DEF PcmInv, PcmTypeOK, RingHoldsSent
  <2> QED BY <2>1, <2>2, Zenon DEF PcmInv
<1>3. CASE PnpStart
  <2>1. dev' = DeviceReset(dev) /\ ring' = SilentRing /\ sent' = <<>> /\ devnode' = devnode
        /\ tr' = [Unbound EXCEPT !.bound = TRUE]
    BY <1>3 DEF PnpStart
  <2>2. dev' \in Devices /\ ~dev'.running
    BY <1>1, <2>1, ResetDevice DEF Devices
  <2>3. tr' \in Transports /\ ~tr'.opened /\ Len(tr'.completions) <= CompletionCapacity
    BY <2>1, UnboundType, CapacityAssumption
  <2> QED BY <1>1, <2>1, <2>2, <2>3, ClosedPcm
<1> QED BY <1>2, <1>3

\* A stop by Plug and Play leaves no open stream and no running device.
LEMMA UnplugPcm == ASSUME PcmInv, NEW forget \in BOOLEAN, PnpStop(forget) PROVE PcmInv'
<1>1. dev \in Devices /\ ~tr.bound => ~dev.running
  BY PcmParts, Zenon DEF PcmInv
<1>2. dev \in Devices
  BY PcmParts DEF PcmInv
<1>3. /\ tr' = Unbound /\ ring' = ring /\ devnode' = ~forget
      /\ dev' = (IF tr.bound THEN DeviceReset(dev) ELSE dev)
      /\ sent' = (IF tr.bound THEN <<>> ELSE sent)
  BY DEF PnpStop
<1>4. dev' \in Devices /\ ~dev'.running
  BY <1>1, <1>2, <1>3, ResetDevice DEF Devices
<1>5. tr' \in Transports /\ ~tr'.opened /\ Len(tr'.completions) <= CompletionCapacity
  BY <1>3, UnboundType, CapacityAssumption
<1> QED BY <1>3, <1>4, <1>5, ClosedPcm

-----------------------------------------------------------------------------
(* Requests.                                                               *)

\* A request that passes gsw_sound_stream_validate finds an open stream.
LEMMA ValidMeansOpen ==
    ASSUME NEW s, Validate(s) = "ok"
    PROVE  tr.bound /\ tr.opened /\ s = tr.stream
BY Zenon DEF Validate

\* PM open.
LEMMA OpenPcm == ASSUME PcmInv, PmOpen PROVE PcmInv'
<1>1. tr \in Transports /\ tr.bound
  BY PcmParts, Zenon DEF PcmInv, PmOpen, OpenResult
<1> PICK t : t = [tr EXCEPT !.opened = TRUE, !.stream = NextStream]
  OBVIOUS
<1>2. NextStream \in Nat
  BY <1>1 DEF NextStream, Transports
<1>3. t \in Transports /\ t.opened /\ t.bound
  BY <1>1, <1>2 DEF Transports
<1>4. ProgramStream(t)
  BY DEF PmOpen
<1> QED BY <1>3, <1>4, ProgramStreamPcm

\* PM reset.
LEMMA ResetPcm == ASSUME PcmInv, NEW s, PmReset(s) PROVE PcmInv'
<1>1. tr \in Transports /\ tr.bound /\ tr.opened
  BY PcmParts, ValidMeansOpen, Zenon DEF PcmInv, PmReset
<1> QED BY <1>1, ProgramStreamPcm DEF PmReset

\* PM close.
LEMMA ClosePcm == ASSUME PcmInv, NEW s, PmClose(s) PROVE PcmInv'
<1>1. tr \in Transports /\ dev \in Devices /\ devnode \in BOOLEAN
  BY PcmParts DEF PcmInv
<1>2. /\ tr' = [tr EXCEPT !.opened = FALSE, !.paused = FALSE, !.completions = <<>>]
      /\ dev' = DeviceReset(dev) /\ sent' = <<>> /\ ring' = ring /\ devnode' = devnode
  BY DEF PmClose
<1>3. tr' \in Transports /\ ~tr'.opened /\ Len(tr'.completions) <= CompletionCapacity
  <2>1. <<>> \in Seq(Completion)
    OBVIOUS
  <2>2. tr' \in Transports /\ ~tr'.opened /\ tr'.completions = <<>>
    BY <1>1, <1>2, <2>1 DEF Transports
  <2> QED BY <2>2, CapacityAssumption
<1>4. dev' \in Devices /\ ~dev'.running
  BY <1>1, <1>2, ResetDevice DEF Devices
<1> QED BY <1>1, <1>2, <1>3, <1>4, ClosedPcm

\* PM pause.
LEMMA PausePcm == ASSUME PcmInv, NEW s, PmPause(s) PROVE PcmInv'
<1>1. tr \in Transports /\ dev \in Devices /\ Len(tr.completions) <= CompletionCapacity
  BY PcmParts DEF PcmInv
<1>2. /\ tr' = [tr EXCEPT !.paused = TRUE] /\ UNCHANGED <<ring, devnode, sent>>
      /\ dev' = (IF tr.paused THEN dev ELSE DeviceStop(dev))
  BY DEF PmPause
<1>3. /\ tr' \in Transports /\ tr'.opened = tr.opened /\ tr'.bound = tr.bound
      /\ tr'.tail = tr.tail /\ tr'.completions = tr.completions
  BY <1>1, <1>2 DEF Transports
<1>4. SamePlace(dev') /\ (dev'.running => dev.running)
  BY <1>1, <1>2, SameDevice, StoppedDevice
<1> QED BY <1>1, <1>2, <1>3, <1>4, FlagsPcm

\* PM restart, whose start the device may refuse.
LEMMA RestartPcm == ASSUME PcmInv, NEW s, PmRestart(s) PROVE PcmInv'
<1>1. tr \in Transports /\ dev \in Devices /\ Len(tr.completions) <= CompletionCapacity
  BY PcmParts DEF PcmInv
<1>2. /\ tr' = [tr EXCEPT !.paused = FALSE] /\ UNCHANGED <<ring, devnode, sent>>
      /\ dev' = (IF tr.paused THEN DeviceStart(dev) ELSE dev)
  BY DEF PmRestart
<1>3. /\ tr' \in Transports /\ tr'.opened = tr.opened /\ tr'.bound = tr.bound
      /\ tr'.tail = tr.tail /\ tr'.completions = tr.completions
  BY <1>1, <1>2 DEF Transports
<1>4. SamePlace(dev')
  BY <1>1, <1>2, SameDevice, StartedDevice
<1>5. tr.opened
  BY ValidMeansOpen, Zenon DEF PmRestart
<1> QED BY <1>1, <1>2, <1>3, <1>4, <1>5, FlagsPcm

\* A poll that answers has something to answer.
LEMMA PollOk ==
    ASSUME NEW s, PollResult(s) = "ok"
    PROVE  Validate(s) = "ok" /\ tr.completions # <<>>
BY Zenon DEF PollResult

\* PM poll.
LEMMA PollPcm == ASSUME PcmInv, NEW s, PmPoll(s) PROVE PcmInv'
<1>1. tr \in Transports /\ dev \in Devices /\ Len(tr.completions) <= CompletionCapacity
  BY PcmParts DEF PcmInv
<1>2. tr' = [tr EXCEPT !.completions = Tail(tr.completions)] /\ UNCHANGED <<dev, ring, devnode, sent>>
  BY DEF PmPoll
<1>3. tr.completions # <<>> /\ tr.completions \in Seq(Completion)
  BY <1>1, PollOk DEF PmPoll, Transports
<1>4. Tail(tr.completions) \in Seq(Completion) /\ Len(Tail(tr.completions)) <= CompletionCapacity
  BY <1>1, <1>3, CapacityAssumption
<1>5. /\ tr' \in Transports /\ tr'.opened = tr.opened /\ tr'.bound = tr.bound
      /\ tr'.tail = tr.tail /\ tr'.completions = Tail(tr.completions)
  BY <1>1, <1>2, <1>4 DEF Transports
<1> QED BY <1>1, <1>2, <1>4, <1>5, SameDevice, FlagsPcm

\* A submission that is accepted had room.
LEMMA SubmitOk ==
    ASSUME NEW s, NEW n, NEW end, SubmitResult(s, n, end) = "ok"
    PROVE  /\ Validate(s) = "ok" /\ ~tr.paused /\ Accepted(n) # 0
           /\ ~(end /\ Len(tr.completions) = CompletionCapacity)
BY Zenon DEF SubmitResult

\* A submission takes at least one frame, and no more than fit.
LEMMA AcceptedRoom ==
    ASSUME PcmInv, tr.opened, NEW n \in Nat \ {0}, Accepted(n) # 0
    PROVE  /\ Accepted(n) \in 1 .. RingFrames - 1 /\ Accepted(n) <= n
           /\ Accepted(n) <= RingFrames - Available(dev) - 1
<1>1. PcmTypeOK /\ tr.tail = dev.tail
  BY DEF PcmInv, RingHoldsSent
<1>2. Available(dev) \in 0 .. RingFrames - 1
  BY <1>1, AvailableType
<1>3. RingFree = RingFrames - Available(dev) - 1
  BY <1>1 DEF RingFree, RingUsed, Available
<1>4. RingFree \in Int
  BY <1>2, <1>3, RingSize
<1>5. Accepted(n) = IF n <= RingFree THEN n ELSE RingFree
  BY <1>4, MinOfTwo DEF Accepted
<1> QED BY <1>2, <1>3, <1>5, RingSize

\* The device takes the new tail: it never runs over the head.
LEMMA CommittedDevice ==
    ASSUME PcmInv, tr.opened, NEW a \in 1 .. RingFrames - 1,
           a <= RingFrames - Available(dev) - 1,
           NEW t, t = (tr.tail + a) % RingFrames
    PROVE  /\ Committed(t) \in Devices /\ Committed(t).configured
           /\ Committed(t).head = dev.head /\ Committed(t).tail = t
<1>1. PcmTypeOK /\ tr.tail = dev.tail /\ dev.configured /\ dev \in Devices
  BY PcmParts DEF PcmInv, RingHoldsSent
<1>2. dev.head \in Cells /\ dev.tail \in Cells
  BY <1>1 DEF Devices
<1>3. Filled(dev.head, dev.tail, Available(dev), a, t)
  BY <1>1, <1>2, SubmitCells DEF Available
<1>4. t \in Cells /\ (t - dev.tail) % RingFrames = a
  BY <1>3 DEF Filled, Cells
<1>5. CommitTail(dev, t) = [dev EXCEPT !.tail = t]
  BY <1>1, <1>4 DEF CommitTail
<1>d. PICK d : d = [CommitTail(dev, t) EXCEPT !.underrun = FALSE]
  OBVIOUS
<1>e. PICK e : e = [dev EXCEPT !.tail = t]
  OBVIOUS
<1>f. e \in Devices /\ e.configured /\ e.head = dev.head /\ e.tail = t
  BY <1>1, <1>4, <1>e DEF Devices
<1>6. d \in Devices /\ d.configured /\ d.head = dev.head /\ d.tail = t
  <2>1. d = [e EXCEPT !.underrun = FALSE]
    BY <1>5, <1>d, <1>e
  <2> QED BY <1>f, <2>1 DEF Devices
<1>7. Committed(t) = IF d.running THEN d ELSE DeviceStart(d)
  BY <1>d DEF Committed
<1>8. DeviceStart(d) \in Devices /\ DeviceStart(d).configured
      /\ DeviceStart(d).head = dev.head /\ DeviceStart(d).tail = t
  <2>1. CASE d.master
    <3>1. DeviceStart(d) = [d EXCEPT !.running = TRUE, !.bad = FALSE, !.underrun = FALSE]
      BY <1>6, <2>1, Zenon DEF DeviceStart
    <3> QED BY <1>6, <3>1 DEF Devices
  <2>2. CASE ~d.master
    <3>1. DeviceStart(d) = [d EXCEPT !.bad = TRUE, !.irq = TRUE]
      BY <2>2, Zenon DEF DeviceStart, NoteInvalid
    <3> QED BY <1>6, <3>1 DEF Devices
  <2> QED BY <2>1, <2>2
<1> QED BY <1>6, <1>7, <1>8

\* PM submit: the frames join the ring behind those that were sent.
LEMMA SubmitPcm ==
    ASSUME PcmInv, NEW s, NEW source \in Sources, NEW n \in Nat \ {0},
           NEW end \in BOOLEAN, NEW token \in Nat, PmSubmit(s, source, n, end, token)
    PROVE  PcmInv'
<1>1. /\ PcmTypeOK /\ tr \in Transports /\ dev \in Devices /\ Len(tr.completions) <= CompletionCapacity
      /\ ring \in [Cells -> Sources \cup {Silence}] /\ devnode \in BOOLEAN /\ sent \in Seq(Sources)
  BY PcmParts, Zenon DEF PcmInv
<1>2. /\ tr.opened /\ tr.bound /\ Accepted(n) # 0
      /\ ~(end /\ Len(tr.completions) = CompletionCapacity)
  BY SubmitOk, ValidMeansOpen, Zenon DEF PmSubmit
<1>3. PICK a : a = Accepted(n)
  OBVIOUS
<1>4. a \in 1 .. RingFrames - 1 /\ a <= RingFrames - Available(dev) - 1
  BY <1>2, <1>3, AcceptedRoom
<1>5. PICK h : h = dev.head
  OBVIOUS
<1>6. PICK u : u = Available(dev)
  OBVIOUS
<1>7. PICK l : l = dev.tail
  OBVIOUS
<1>8. PICK t : t = (tr.tail + a) % RingFrames
  OBVIOUS
<1>9. /\ Len(sent) = u /\ tr.tail = l
      /\ \A i \in 1 .. u : ring[(h + i - 1) % RingFrames] = sent[i]
  BY <1>2, <1>5, <1>6, <1>7 DEF PcmInv, RingHoldsSent
<1>10. Filled(h, l, u, a, t)
  BY <1>1, <1>4, <1>5, <1>6, <1>7, <1>8, <1>9, SubmitCells DEF Devices, Available
<1>11. /\ ring' = [c \in Cells |-> IF (c - l) % RingFrames < a THEN source ELSE ring[c]]
       /\ tr' = [tr EXCEPT !.tail = t, !.submitted = tr.submitted + a,
                           !.completions = Recorded(n, end, token)]
       /\ dev' = Committed(t) /\ sent' = sent \o [i \in 1 .. a |-> source]
       /\ devnode' = devnode
  BY <1>3, <1>8, <1>9 DEF PmSubmit
<1>12. dev' \in Devices /\ dev'.configured /\ dev'.head = h /\ dev'.tail = t
  BY <1>2, <1>4, <1>5, <1>8, <1>11, CommittedDevice
<1>13. Recorded(n, end, token) \in Seq(Completion) /\ Len(Recorded(n, end, token)) <= CompletionCapacity
  <2>1. tr.completions \in Seq(Completion) /\ tr.submitted \in Nat
    BY <1>1 DEF Transports
  <2>2. [token |-> token, target |-> tr.submitted + n] \in Completion
    BY <2>1 DEF Completion
  <2> PICK c : c = [token |-> token, target |-> tr.submitted + n]
    OBVIOUS
  <2>3. CASE end /\ Accepted(n) = n
    <3>1. Recorded(n, end, token) = Append(tr.completions, c)
      BY <2>3, Zenon DEF Recorded
    <3>2. Append(tr.completions, c) \in Seq(Completion) /\ Len(Append(tr.completions, c)) = Len(tr.completions) + 1
      BY <2>1, <2>2
    <3>3. Len(tr.completions) # CompletionCapacity /\ Len(tr.completions) \in Nat
      BY <1>2, <2>1, <2>3
    <3>4. Len(tr.completions) + 1 <= CompletionCapacity
      BY <1>1, <3>3, CapacityAssumption
    <3> QED BY <3>1, <3>2, <3>4
  <2>4. CASE ~(end /\ Accepted(n) = n)
    <3>1. Recorded(n, end, token) = tr.completions
      BY <2>4, Zenon DEF Recorded
    <3> QED BY <1>1, <2>1, <3>1
  <2> QED BY <2>3, <2>4
<1>14. tr' \in Transports /\ tr'.opened /\ tr'.bound /\ tr'.tail = t /\ tr'.completions = Recorded(n, end, token)
  <2>1. t \in Cells /\ tr.submitted + a \in Nat
    BY <1>1, <1>4, <1>10 DEF Filled, Cells, Transports
  <2> QED BY <1>1, <1>2, <1>11, <1>13, <2>1 DEF Transports
<1>15. /\ sent' \in Seq(Sources) /\ Len(sent') = u + a
       /\ \A i \in 1 .. u : sent'[i] = sent[i]
       /\ \A i \in 1 .. a : sent'[u + i] = source
  <2>q. PICK q : q = [i \in 1 .. a |-> source]
    OBVIOUS
  <2>1. q \in Seq(Sources) /\ Len(q) = a /\ \A i \in 1 .. a : q[i] = source
    BY <1>4, <2>q
  <2>2. sent' = sent \o q
    BY <1>11, <2>q
  <2>3. Len(sent) = u /\ sent \in Seq(Sources) /\ u \in Nat /\ a \in Nat
    BY <1>1, <1>4, <1>9
  <2>4. /\ sent' \in Seq(Sources) /\ Len(sent') = u + a
        /\ \A i \in 1 .. u + a : sent'[i] = IF i <= u THEN sent[i] ELSE q[i - u]
    <3>0. PICK y \in Seq(Sources) : y = sent
      BY <2>3
    <3>1. /\ y \o q \in Seq(Sources) /\ Len(y \o q) = Len(y) + Len(q)
          /\ \A i \in 1 .. Len(y) + Len(q) : (y \o q)[i] = IF i <= Len(y) THEN y[i] ELSE q[i - Len(y)]
      BY <2>1, <3>0, ConcatProperties, Zenon
    <3>2. Len(y) = u /\ Len(q) = a /\ y \o q = sent'
      BY <2>1, <2>2, <2>3, <3>0
    <3> QED BY <3>0, <3>1, <3>2, Zenon
  <2>5. ASSUME NEW i \in 1 .. u PROVE sent'[i] = sent[i]
    BY <2>3, <2>4
  <2>6. ASSUME NEW i \in 1 .. a PROVE sent'[u + i] = source
    <3>1. u + i \in 1 .. u + a /\ ~(u + i <= u) /\ (u + i) - u = i
      BY <2>3
    <3> QED BY <2>1, <2>4, <3>1
  <2> QED BY <2>4, <2>5, <2>6
<1>16. ring' \in [Cells -> Sources \cup {Silence}]
  BY <1>1, <1>11
<1>17. PcmTypeOK'
  BY <1>1, <1>11, <1>12, <1>13, <1>14, <1>15, <1>16 DEF PcmTypeOK, Transports, Devices
<1>18. RingHoldsSent'
  <2>1. Available(dev)' = u + a
    BY <1>10, <1>12 DEF Available, Filled
  <2>2. ASSUME NEW i \in 1 .. u + a PROVE ring'[(h + i - 1) % RingFrames] = sent'[i]
    <3>1. u \in Nat /\ a \in Nat
      BY <1>4, <1>10, RingSize DEF Filled
    <3>2. CASE i \in 1 .. u
      <4>1. PICK c : c = (h + i - 1) % RingFrames
        OBVIOUS
      <4>2. c \in Cells /\ (c - l) % RingFrames >= a
        BY <1>10, <3>2, <4>1 DEF Filled, Cells
      <4>3. ~((c - l) % RingFrames < a)
        <5>1. (c - l) % RingFrames \in Int
          BY <1>1, <1>7, <4>2, RingSize DEF Devices, Cells
        <5> QED BY <4>2, <5>1, <3>1
      <4>4. ring'[c] = ring[c]
        BY <1>11, <4>2, <4>3
      <4> QED BY <1>9, <1>15, <3>2, <4>1, <4>4
    <3>3. CASE i \notin 1 .. u
      <4>1. i - u \in 1 .. a /\ u + (i - u) = i
        BY <3>1, <3>3
      <4>2. PICK j \in 1 .. a : j = i - u /\ i = u + j
        BY <4>1
      <4>3. PICK c : c = (h + u + j - 1) % RingFrames
        OBVIOUS
      <4>4. c \in Cells /\ (c - l) % RingFrames < a
        BY <1>10, <4>3 DEF Filled, Cells
      <4>5. ring'[c] = source
        BY <1>11, <4>4
      <4>6. h + u + j - 1 = h + i - 1
        BY <1>1, <1>5, <3>1, <4>2 DEF Devices, Cells
      <4> QED BY <1>15, <4>2, <4>3, <4>5, <4>6
    <3> QED BY <3>2, <3>3
  <2> QED BY <1>12, <1>14, <1>15, <2>1, <2>2 DEF RingHoldsSent
<1> QED BY <1>12, <1>14, <1>17, <1>18, Zenon DEF PcmInv

\* Nothing happens to the stream.
LEMMA SamePcm == ASSUME PcmInv, UNCHANGED pcmVars PROVE PcmInv'
<1>1. tr' = tr /\ dev' = dev /\ ring' = ring /\ devnode' = devnode /\ sent' = sent
  BY DEF pcmVars
<1>2. Available(dev)' = Available(dev)
  BY <1>1 DEF Available
<1> QED BY <1>1, <1>2 DEF PcmInv, PcmTypeOK, RingHoldsSent

\* The stream's invariant holds at first.
LEMMA PcmInitInv == ASSUME PcmInit PROVE PcmInv
<1> DEFINE m == [master |-> TRUE]
<1>1. dev = DeviceReset(m)
  BY DEF PcmInit
<1>2. dev \in Devices /\ ~dev.running
  <2>1. m.master \in BOOLEAN
    OBVIOUS
  <2> HIDE DEF m
  <2> QED BY <1>1, <2>1, ResetDevice
<1>3. tr \in Transports /\ ~tr.opened /\ Len(tr.completions) <= CompletionCapacity
  BY UnboundType, CapacityAssumption DEF PcmInit
<1>4. ring \in [Cells -> Sources \cup {Silence}] /\ sent \in Seq(Sources) /\ devnode \in BOOLEAN
  <2>1. <<>> \in Seq(Sources)
    OBVIOUS
  <2> QED BY <2>1, SilentRingType DEF PcmInit
<1>5. PcmTypeOK
  BY <1>2, <1>3, <1>4, PcmParts
<1> QED BY <1>2, <1>3, <1>5, Zenon DEF PcmInv, RingHoldsSent

-----------------------------------------------------------------------------
(* The driver.                                                             *)

\* The records of the driver, of a slot and of the application.
Waves == [open : BOOLEAN, paused : BOOLEAN, stream : Nat,
          nextToken : 0 .. TokenLimit - 1, read : Index, write : Index,
          count : 0 .. QueueCapacity, sched : Index, loopOpen : BOOLEAN,
          active : BOOLEAN, breakNow : BOOLEAN, breakNext : BOOLEAN,
          start : Index, pending : 0 .. QueueCapacity, remaining : Nat]

Buffers == [header : Headers \cup {NoHeader}, size : 0 .. MaxFrames,
            begins : BOOLEAN, ends : BOOLEAN, loops : 0 .. MaxLoops,
            submitted : 0 .. MaxFrames, token : 0 .. TokenLimit - 1]

Applications == [pc : {"idle", "linked", "advanced", "pausing", "resetting",
                       "flushing"},
                 loopOpen : BOOLEAN, held : Seq(Headers \cup {NoHeader})]

\* The types, with the shape of every record.
WaveType ==
    /\ w \in Waves
    /\ queue \in [Index -> Buffers]
    /\ plays \in Seq(Plays) /\ Len(plays) <= QueueCapacity
    /\ inqueue \subseteq Headers
    /\ app \in Applications
    /\ pump \in {"off", "poll", "submit"}

\* A header is linked that is not counted yet.
Linked == app.pc \in {"linked", "advanced"}
Extra  == IF Linked THEN 1 ELSE 0

\* What a slot still has to submit; an empty slot holds nothing.
Sized(b) == IF b.header = NoHeader THEN b.submitted = 0 ELSE b.submitted < b.size

\* The counters agree with what they count, and a closed driver is empty.
Sound ==
    /\ w.pending = Releases(plays)
    /\ \A i \in Index : Sized(queue[i])
    /\ w.count + Extra <= QueueCapacity
    /\ ~w.open => app.pc = "idle" /\ pump = "off" /\ w.count = 0

\* How far a slot is from the oldest one, and back.
Off(i) == (i - w.read) % QueueCapacity
At(k)  == (w.read + k) % QueueCapacity
Occupied(i) == queue[i].header # NoHeader

(* The queue as a ring: the occupied slots are the counted ones from the   *)
(* oldest on, and the one being written; queue_write is the next one (or   *)
(* the one after, before the count); no header is in two slots; and the    *)
(* application waits for exactly these headers.                            *)
Shape ==
    /\ \A i \in Index : Occupied(i) <=> Off(i) < w.count + Extra
    /\ w.write = (IF app.pc = "advanced" THEN At(w.count + 1) ELSE At(w.count))
    /\ \A i, j \in Index : Occupied(i) /\ queue[i].header = queue[j].header => i = j
    /\ inqueue = {queue[i].header : i \in {j \in Index : Occupied(j)}}
    /\ app.pc = "flushing" => inqueue \subseteq {app.held[i] : i \in DOMAIN app.held}

\* No abort has met a write that was not counted yet.
Whole == "torn" \notin hurt

WaveInv == WaveType /\ Sound /\ (Whole => Shape)

\* The constants of the driver.
LEMMA QueueSize ==
    /\ QueueCapacity \in Nat \ {0} /\ QueueCapacity >= 2 /\ 0 \in Index
    /\ Index = 0 .. QueueCapacity - 1
    /\ TokenLimit \in Nat \ {0} /\ 1 \in 1 .. TokenLimit - 1 /\ 0 \in 0 .. TokenLimit - 1
    /\ MaxFrames \in Nat /\ MaxLoops \in Nat /\ MaxSubmit \in Nat \ {0}
    /\ NoHeader \notin Headers
BY QueueAssumption, TokenAssumption, BufferAssumption DEF Index, Headers

\* An empty slot is a slot.
LEMMA NoBufferType ==
    /\ NoBuffer \in Buffers /\ NoBuffer.header = NoHeader /\ Sized(NoBuffer)
    /\ NoQueue \in [Index -> Buffers]
    /\ \A i \in Index : NoQueue[i] = NoBuffer
BY QueueSize DEF NoBuffer, Buffers, NoQueue, Sized

\* A closed driver has the driver's type.
LEMMA ClosedType == Closed \in Waves
BY QueueSize DEF Closed, Waves

\* An idle application has the application's type.
LEMMA IdleType == Idle \in Applications /\ Idle.pc = "idle"
<1>1. <<>> \in Seq(Headers \cup {NoHeader})
  OBVIOUS
<1> QED BY <1>1 DEF Idle, Applications

\* No play is a list of plays.
LEMMA NoPlays == <<>> \in Seq(Plays) /\ Len(<<>>) <= QueueCapacity /\ Releases(<<>>) = 0
<1>1. <<>> \in Seq(Plays) /\ Len(<<>>) = 0
  OBVIOUS
<1> QED BY <1>1, QueueSize, ReleasesEmpty

\* gsw_complete_all leaves a driver with nothing queued.
LEMMA EmptiedType ==
    ASSUME NEW v \in Waves
    PROVE  /\ Emptied(v) \in Waves /\ Emptied(v).read = 0 /\ Emptied(v).write = 0
           /\ Emptied(v).count = 0 /\ Emptied(v).pending = 0
           /\ Emptied(v).open = v.open /\ Emptied(v).paused = v.paused
<1>1. 0 \in Index /\ 0 \in 0 .. QueueCapacity /\ 0 \in Nat
  BY QueueSize
<1>2. Emptied(v) \in Waves
  <2>a. PICK a : a = [v EXCEPT !.read = 0, !.write = 0, !.count = 0, !.sched = 0]
    OBVIOUS
  <2>b. PICK b : b = [a EXCEPT !.loopOpen = FALSE, !.active = FALSE,
                               !.breakNow = FALSE, !.breakNext = FALSE]
    OBVIOUS
  <2>c. PICK c : c = [b EXCEPT !.start = 0, !.pending = 0, !.remaining = 0]
    OBVIOUS
  <2>1. a \in Waves
    BY <1>1, <2>a DEF Waves
  <2>2. b \in Waves
    BY <2>1, <2>b DEF Waves
  <2>3. c \in Waves
    BY <1>1, <2>2, <2>c DEF Waves
  <2>4. Emptied(v) = c
    BY <2>a, <2>b, <2>c DEF Emptied
  <2> QED BY <2>3, <2>4
<1>3. /\ Emptied(v).read = 0 /\ Emptied(v).write = 0
      /\ Emptied(v).count = 0 /\ Emptied(v).pending = 0
  BY DEF Emptied, Waves
<1>4. Emptied(v).open = v.open /\ Emptied(v).paused = v.paused
  BY DEF Emptied, Waves
<1> QED BY <1>2, <1>3, <1>4

\* The slots and their distances.
LEMMA Distances ==
    ASSUME w \in Waves
    PROVE  /\ \A i \in Index : Off(i) \in Index /\ At(Off(i)) = i
           /\ \A k \in Index : At(k) \in Index /\ Off(At(k)) = k
           /\ At(0) = w.read /\ At(QueueCapacity) = w.read
<1> DEFINE r == w.read
<1>1. r \in Index
  BY DEF Waves
<1>2. ASSUME NEW i \in Index PROVE Off(i) \in Index /\ At(Off(i)) = i
  <2> PICK k : k = Off(i)
    OBVIOUS
  <2>1. k = IF i >= r THEN i - r ELSE i - r + QueueCapacity
    BY <1>1, QueueSize, ModSub DEF Off
  <2> HIDE DEF r
  <2>2. k \in 0 .. QueueCapacity - 1
    BY <1>1, <2>1, QueueSize
  <2>3. At(k) = IF r + k < QueueCapacity THEN r + k ELSE r + k - QueueCapacity
    <3>1. k \in 0 .. QueueCapacity
      BY <2>2, QueueSize
    <3>2. r \in 0 .. QueueCapacity - 1
      BY <1>1, QueueSize
    <3> QED BY <3>1, <3>2, QueueSize, ModAdd DEF At, r
  <2> QED BY <1>1, <2>1, <2>2, <2>3, QueueSize
<1>3. ASSUME NEW k \in Index PROVE At(k) \in Index /\ Off(At(k)) = k
  <2> PICK i : i = At(k)
    OBVIOUS
  <2>1. i = IF r + k < QueueCapacity THEN r + k ELSE r + k - QueueCapacity
    <3>1. k \in 0 .. QueueCapacity
      BY QueueSize
    <3> QED BY <1>1, <3>1, QueueSize, ModAdd DEF At
  <2>2. i \in Index
    <3> HIDE DEF r
    <3> QED BY <1>1, <2>1, QueueSize
  <2>3. Off(i) = IF i >= r THEN i - r ELSE i - r + QueueCapacity
    BY <1>1, <2>2, QueueSize, ModSub DEF Off
  <2> HIDE DEF r
  <2> QED BY <1>1, <2>1, <2>2, <2>3, QueueSize
<1>4. At(0) = r /\ At(QueueCapacity) = r
  <2>1. 0 \in 0 .. QueueCapacity /\ QueueCapacity \in 0 .. QueueCapacity
    BY QueueSize
  <2>2. (r + 0) % QueueCapacity = (IF r + 0 < QueueCapacity THEN r + 0 ELSE r + 0 - QueueCapacity)
    BY <1>1, <2>1, QueueSize, ModAdd
  <2>3. (r + QueueCapacity) % QueueCapacity = (IF r + QueueCapacity < QueueCapacity THEN r + QueueCapacity ELSE r + QueueCapacity - QueueCapacity)
    BY <1>1, <2>1, QueueSize, ModAdd
  <2>4. At(0) = (r + 0) % QueueCapacity /\ At(QueueCapacity) = (r + QueueCapacity) % QueueCapacity
    BY DEF At
  <2> HIDE DEF r
  <2> QED BY <1>1, <2>2, <2>3, <2>4, QueueSize
<1> QED BY <1>2, <1>3, <1>4

\* There are no more releases than plays.
LEMMA ReleasesBound ==
    ASSUME NEW q \in Seq(Plays)
    PROVE  Releases(q) \in 0 .. Len(q)
<1> DEFINE P == {i \in DOMAIN q : q[i].release}
           n == Len(q)
<1>1. n \in Nat /\ DOMAIN q = 1 .. n
  OBVIOUS
<1>2. IsFiniteSet(1 .. n) /\ Cardinality(1 .. n) = n
  <2>1. 1 \in Int /\ n \in Int
    BY <1>1
  <2>2. IsFiniteSet(1 .. n) /\ Cardinality(1 .. n) = IF 1 > n THEN 0 ELSE n - 1 + 1
    BY <2>1, FS_Interval
  <2> HIDE DEF n
  <2> QED BY <1>1, <2>2
<1>3. P \in SUBSET (1 .. n)
  BY <1>1
<1> HIDE DEF P, n
<1>4. Cardinality(P) <= Cardinality(1 .. n) /\ Cardinality(P) \in Nat
  BY <1>2, <1>3, FS_Subset, FS_CardinalityType
<1> QED BY <1>1, <1>2, <1>4 DEF Releases, P, n

\* A step that leaves the slots and the indexes of the queue alone.
LEMMA QuietWave ==
    ASSUME WaveInv, w' \in Waves, w'.read = w.read, w'.write = w.write,
           w'.count = w.count, w'.pending = Releases(plays'), w'.open = w.open,
           queue' \in [Index -> Buffers], \A i \in Index : Sized(queue'[i]),
           \A i \in Index : queue'[i].header = queue[i].header,
           plays' \in Seq(Plays), Len(plays') <= QueueCapacity,
           inqueue' = inqueue,
           app' \in Applications, app'.pc = app.pc \/ {app.pc, app'.pc} \subseteq {"idle", "pausing", "resetting"},
           app'.held = app.held \/ app'.pc # "flushing",
           pump' \in {"off", "poll", "submit"},
           ~w.open => app'.pc = "idle" /\ pump' = "off",
           hurt \subseteq hurt'
    PROVE  WaveInv'
<1>1. WaveType'
  BY DEF WaveInv, WaveType
<1>2. Linked' = Linked /\ Extra' = Extra
  BY DEF Linked, Extra
<1>3. Sound'
  BY <1>2 DEF WaveInv, Sound
<1>4. Whole' => Whole
  BY DEF Whole
<1>5. ASSUME Shape PROVE Shape'
  <2>1. \A i \in Index : Off(i)' = Off(i) /\ (Occupied(i)' <=> Occupied(i))
    BY DEF Off, Occupied
  <2>2. At(w.count)' = At(w.count) /\ At(w.count + 1)' = At(w.count + 1)
    BY DEF At
  <2>3. app'.pc = "advanced" <=> app.pc = "advanced"
    OBVIOUS
  <2>4. app'.pc = "flushing" => app.pc = "flushing" /\ app'.held = app.held
    OBVIOUS
  <2>5. {queue'[i].header : i \in {j \in Index : Occupied(j)'}} = {queue[i].header : i \in {j \in Index : Occupied(j)}}
    BY <2>1
  <2> QED BY <1>2, <1>5, <2>1, <2>2, <2>3, <2>4, <2>5 DEF Shape
<1> QED BY <1>1, <1>3, <1>4, <1>5 DEF WaveInv

\* A step that leaves the queue empty.
LEMMA EmptyWave ==
    ASSUME WaveInv, w' \in Waves, w'.read = w'.write, w'.count = 0, w'.pending = 0,
           queue' = NoQueue, plays' = <<>>, inqueue' \subseteq inqueue,
           Whole' => inqueue' = {},
           app' \in Applications, Linked' => Linked /\ ~Whole',
           pump' \in {"off", "poll", "submit"},
           ~w'.open => app'.pc = "idle" /\ pump' = "off"
    PROVE  WaveInv'
<1>1. WaveType'
  BY NoBufferType, NoPlays DEF WaveInv, WaveType
<1>2. Extra' \in {0, 1}
  BY DEF Extra
<1>3. Sound'
  <2>1. w'.count + Extra' <= QueueCapacity
    BY <1>2, QueueSize
  <2>2. \A i \in Index : Sized(queue'[i])
    BY NoBufferType
  <2> QED BY <2>1, <2>2, NoPlays DEF Sound
<1>4. ASSUME Whole' PROVE Shape'
  <2>1. ~Linked' /\ Extra' = 0 /\ inqueue' = {}
    BY <1>4 DEF Extra
  <2>2. \A i \in Index : ~Occupied(i)'
    BY NoBufferType DEF Occupied
  <2>3. \A i \in Index : Off(i)' \in Nat /\ ~(Off(i)' < 0)
    <3>1. \A i \in Index : Off(i)' \in Index
      <4> SUFFICES ASSUME NEW i \in Index PROVE (i - w'.read) % QueueCapacity \in Index
        BY DEF Off
      <4>1. w'.read \in Index
        BY DEF Waves
      <4>2. i - w'.read \in Int
        BY <4>1, QueueSize
      <4> QED BY <4>2, QueueSize, Division
    <3> QED BY <3>1, QueueSize
  <2>4. w'.read \in Index
    BY DEF Waves
  <2>5. (w'.read + 0) % QueueCapacity = w'.read
    <3>1. w'.read + 0 = w'.read
      BY <2>4, QueueSize
    <3> QED BY <2>4, <3>1, QueueSize, ModIs
  <2>6. app'.pc # "advanced"
    BY <2>1 DEF Linked
  <2> QED BY <2>1, <2>2, <2>3, <2>5, <2>6 DEF Shape, At
<1> QED BY <1>1, <1>3, <1>4 DEF WaveInv

-----------------------------------------------------------------------------
(* Headers that go back.                                                   *)

\* HeadersAt(Oldest(n)) are the headers less than n slots from the oldest.
LEMMA OldestHeaders ==
    ASSUME w \in Waves, NEW n \in 0 .. QueueCapacity
    PROVE  HeadersAt(Oldest(n))
             = {queue[i].header : i \in {j \in Index : Off(j) < n}} \ {NoHeader}
<1>1. DOMAIN Oldest(n) = 1 .. n /\ \A k \in 1 .. n : Oldest(n)[k] = (w.read + k - 1) % QueueCapacity
  BY DEF Oldest
<1>2. ASSUME NEW k \in 1 .. n PROVE Oldest(n)[k] \in Index /\ Off(Oldest(n)[k]) < n
  <2>1. k - 1 \in Index /\ k - 1 < n
    BY QueueSize
  <2>2. w.read \in Index
    BY DEF Waves
  <2>3. w.read + k - 1 = w.read + (k - 1)
    BY <2>2, QueueSize
  <2>4. Oldest(n)[k] = At(k - 1)
    BY <1>1, <2>3 DEF At
  <2> QED BY <2>1, <2>4, Distances
<1>3. ASSUME NEW i \in Index, Off(i) < n PROVE \E k \in 1 .. n : Oldest(n)[k] = i
  <2>1. Off(i) \in Index /\ At(Off(i)) = i
    BY Distances
  <2>2. w.read \in Index
    BY DEF Waves
  <2>3. PICK m \in Index : m = Off(i)
    BY <2>1
  <2>4. m + 1 \in 1 .. n /\ w.read + (m + 1) - 1 = w.read + m
    BY <1>3, <2>2, <2>3, QueueSize
  <2>5. Oldest(n)[m + 1] = At(m)
    BY <1>1, <2>4 DEF At
  <2> QED BY <2>1, <2>3, <2>4, <2>5
<1>4. HeadersAt(Oldest(n)) = {queue[Oldest(n)[k]].header : k \in 1 .. n} \ {NoHeader}
  BY <1>1 DEF HeadersAt
<1>5. {queue[Oldest(n)[k]].header : k \in 1 .. n} = {queue[i].header : i \in {j \in Index : Off(j) < n}}
  BY <1>2, <1>3
<1> QED BY <1>4, <1>5

\* With no write in progress, the counted slots hold what is owed.
LEMMA CountedHeaders ==
    ASSUME WaveInv, Shape, ~Linked
    PROVE  inqueue = HeadersAt(Oldest(w.count))
<1>1. w \in Waves /\ w.count \in 0 .. QueueCapacity /\ Extra = 0
  BY DEF WaveInv, WaveType, Waves, Extra
<1>2. HeadersAt(Oldest(w.count)) = {queue[i].header : i \in {j \in Index : Off(j) < w.count}} \ {NoHeader}
  BY <1>1, OldestHeaders
<1>3. \A i \in Index : Occupied(i) <=> Off(i) < w.count
  BY <1>1, QueueSize DEF Shape, Waves
<1>4. inqueue = {queue[i].header : i \in {j \in Index : Occupied(j)}}
  BY DEF Shape
<1> QED BY <1>2, <1>3, <1>4 DEF Occupied

\* gsw_abort_queue keeps the invariant; under an uncounted write it tears it.
LEMMA AbortKeeps ==
    ASSUME PcmInv, WaveInv, w.open, NEW v \in Waves, v.open = w.open, NEW causes, Abort(v, causes),
           pump' \in {"off", "poll", "submit"}, app' = app
    PROVE  PcmInv' /\ WaveInv'
<1>1. PcmInv'
  BY ResetPcm, SamePcm DEF Abort
<1>2. /\ w' = Emptied(v) /\ queue' = NoQueue /\ plays' = <<>>
      /\ inqueue' = inqueue \ HeadersAt(Oldest(w.count))
      /\ hurt \subseteq hurt' /\ (Linked => "torn" \in hurt')
  BY DEF Abort, Return, Linked
<1>3. /\ w' \in Waves /\ w'.read = w'.write /\ w'.count = 0 /\ w'.pending = 0
      /\ w'.open = w.open
  BY <1>2, EmptiedType
<1>4. Linked' => Linked /\ ~Whole'
  BY <1>2 DEF Linked, Whole
<1>5. Whole' => inqueue' = {}
  <2>1. Whole' => Whole /\ ~Linked
    BY <1>2 DEF Whole
  <2>2. Whole' => Shape
    BY <2>1 DEF WaveInv
  <2>3. Whole' => inqueue = HeadersAt(Oldest(w.count))
    BY <2>1, <2>2, CountedHeaders
  <2> QED BY <1>2, <2>3
<1>6. WaveInv'
  <2>1. app' \in Applications /\ inqueue' \subseteq inqueue
    BY <1>2 DEF WaveInv, WaveType
  <2> QED BY <1>2, <1>3, <1>4, <1>5, <2>1, EmptyWave
<1> QED BY <1>1, <1>6

\* The pump aborts on a bad completion.
LEMMA PollAbortsKeeps == ASSUME PcmInv, WaveInv, PollAborts PROVE PcmInv' /\ WaveInv'
<1>1. w \in Waves /\ w.open
  BY DEF WaveInv, WaveType, Sound, PollAborts
<1>2. Abort(w, {}) /\ pump' = "submit" /\ app' = app
  BY DEF PollAborts
<1>3. pump' \in {"off", "poll", "submit"}
  BY <1>2
<1> QED BY <1>1, <1>2, <1>3, AbortKeeps

-----------------------------------------------------------------------------
(* A completion.                                                           *)

\* A completion takes no more buffers than are counted, and a release takes one.
LEMMA CompletesRange ==
    ASSUME WaveType, NEW p \in Plays, Completes(p) >= 0
    PROVE  /\ Completes(p) \in 0 .. w.count
           /\ Completes(p) = 0 => ~p.release
<1> DEFINE n == ((p.to - p.from) % QueueCapacity) + 1
<1>1. n \in Nat /\ n # 0
  <2>1. p.to - p.from \in Int
    BY QueueSize DEF Plays
  <2>2. PICK x : x = (p.to - p.from) % QueueCapacity
    OBVIOUS
  <2>3. x \in 0 .. QueueCapacity - 1
    BY <2>1, <2>2, QueueSize, Division
  <2> QED BY <2>2, <2>3, QueueSize
<1>2. w.count \in Nat
  BY QueueSize DEF WaveType, Waves
<1>3. CASE p.complete
  <2>1. Completes(p) \in {1, -1} /\ (Completes(p) = 1 => w.count > 0)
    BY <1>3 DEF Completes
  <2> QED BY <1>2, <2>1
<1>4. CASE ~p.complete /\ p.release
  <2>1. Completes(p) \in {n, -1} /\ (Completes(p) # -1 => n <= w.count)
    BY <1>4, Zenon DEF Completes
  <2> HIDE DEF n
  <2> QED BY <1>1, <1>2, <2>1
<1>5. CASE ~p.complete /\ ~p.release
  <2>1. Completes(p) = 0
    BY <1>5, Zenon DEF Completes
  <2> QED BY <1>2, <1>5, <2>1
<1> QED BY <1>3, <1>4, <1>5

\* The queue seen from its n-th slot.
LEMMA Shifted ==
    ASSUME w \in Waves, NEW n \in 0 .. QueueCapacity, NEW r, r = At(n)
    PROVE  /\ r \in Index
           /\ \A i \in Index : (i - r) % QueueCapacity
                 = IF Off(i) >= n THEN Off(i) - n ELSE Off(i) - n + QueueCapacity
           /\ \A m \in 0 .. QueueCapacity - n : (r + m) % QueueCapacity = At(n + m)
<1>0. PICK q \in Index : q = w.read
  BY DEF Waves
<1>n. QueueCapacity \in Nat /\ Index = 0 .. QueueCapacity - 1
  BY QueueSize
<1>1. r = IF q + n < QueueCapacity THEN q + n ELSE q + n - QueueCapacity
  BY <1>0, QueueSize, ModAdd DEF At
<1>2. r \in Index
  BY <1>1, QueueSize
<1>3. ASSUME NEW i \in Index
      PROVE  (i - r) % QueueCapacity
               = IF Off(i) >= n THEN Off(i) - n ELSE Off(i) - n + QueueCapacity
  <2>1. PICK k : k = Off(i)
    OBVIOUS
  <2>2. k = IF i >= q THEN i - q ELSE i - q + QueueCapacity
    BY <1>0, <2>1, QueueSize, ModSub DEF Off
  <2>3. (i - r) % QueueCapacity = IF i >= r THEN i - r ELSE i - r + QueueCapacity
    BY <1>2, QueueSize, ModSub
  <2>4. (i - r) % QueueCapacity = IF k >= n THEN k - n ELSE k - n + QueueCapacity
    <3>1. PICK x : x = (i - r) % QueueCapacity
      OBVIOUS
    <3>2. x = IF i >= r THEN i - r ELSE i - r + QueueCapacity
      BY <2>3, <3>1
    <3>3. CASE n = QueueCapacity
      <4>1. r = q
        BY <1>1, <1>n, <3>3
      <4>2. k \in 0 .. QueueCapacity - 1 /\ x = k
        BY <1>n, <2>2, <3>2, <4>1
      <4>3. ~(k >= n) /\ k - n + QueueCapacity = k
        BY <1>n, <3>3, <4>2
      <4> QED BY <3>1, <4>2, <4>3
    <3>4. CASE n # QueueCapacity
      <4>1. n \in 0 .. QueueCapacity - 1 /\ q \in 0 .. QueueCapacity - 1 /\ i \in 0 .. QueueCapacity - 1
        BY <1>n, <3>4
      <4>2. x = IF k >= n THEN k - n ELSE k - n + QueueCapacity
        BY <1>1, <1>n, <2>2, <3>2, <4>1
      <4> QED BY <3>1, <4>2
    <3> QED BY <3>3, <3>4
  <2> QED BY <2>1, <2>4
<1>4. ASSUME NEW m \in 0 .. QueueCapacity - n
      PROVE  (r + m) % QueueCapacity = At(n + m)
  <2>1. m \in 0 .. QueueCapacity /\ n + m \in 0 .. QueueCapacity
    BY QueueSize
  <2>2. (r + m) % QueueCapacity = IF r + m < QueueCapacity THEN r + m ELSE r + m - QueueCapacity
    BY <1>2, <2>1, QueueSize, ModAdd
  <2>3. At(n + m) = IF q + (n + m) < QueueCapacity THEN q + (n + m) ELSE q + (n + m) - QueueCapacity
    BY <1>0, <2>1, QueueSize, ModAdd DEF At
  <2>4. PICK x, y : x = (r + m) % QueueCapacity /\ y = At(n + m)
    OBVIOUS
  <2>5. x = IF r + m < QueueCapacity THEN r + m ELSE r + m - QueueCapacity
    BY <2>2, <2>4
  <2>6. y = IF q + (n + m) < QueueCapacity THEN q + (n + m) ELSE q + (n + m) - QueueCapacity
    BY <2>3, <2>4
  <2>7. x = y
    <3>1. q \in 0 .. QueueCapacity - 1 /\ m \in Nat
      BY <1>n
    <3>2. CASE q + n < QueueCapacity
      BY <1>1, <1>n, <2>1, <2>5, <2>6, <3>1, <3>2
    <3>3. CASE ~(q + n < QueueCapacity)
      BY <1>1, <1>n, <2>1, <2>5, <2>6, <3>1, <3>3
    <3> QED BY <3>2, <3>3
  <2> QED BY <2>4, <2>7
<1> QED BY <1>2, <1>3, <1>4

\* What the removal of n buffers does to the driver's record.
LEMMA PopType ==
    ASSUME NEW v \in Waves, NEW n \in 1 .. v.count
    PROVE  /\ Pop(v, n) \in Waves
           /\ Pop(v, n).read = (v.read + n) % QueueCapacity
           /\ Pop(v, n).count = v.count - n
           /\ Pop(v, n).write = v.write /\ Pop(v, n).pending = v.pending
           /\ Pop(v, n).open = v.open
<1>u. PICK u : u = [v EXCEPT !.read = (v.read + n) % QueueCapacity, !.count = v.count - n]
  OBVIOUS
<1>1. (v.read + n) % QueueCapacity \in Index /\ v.count - n \in 0 .. QueueCapacity
  <2>1. v.read \in Index /\ v.count \in 0 .. QueueCapacity
    BY DEF Waves
  <2>2. v.read + n \in Int /\ v.count - n \in 0 .. QueueCapacity
    BY <2>1, QueueSize
  <2> QED BY <2>2, QueueSize, Division
<1>2. /\ u \in Waves /\ u.read = (v.read + n) % QueueCapacity /\ u.count = v.count - n
      /\ u.write = v.write /\ u.pending = v.pending /\ u.open = v.open
  BY <1>u, <1>1 DEF Waves
<1>3. Pop(v, n) = IF u.count = 0 THEN [u EXCEPT !.sched = u.write] ELSE u
  BY <1>u DEF Pop
<1>4. u.write \in Index
  BY <1>2 DEF Waves
<1>5. PICK x : x = [u EXCEPT !.sched = u.write]
  OBVIOUS
<1>6. /\ x \in Waves /\ x.read = u.read /\ x.count = u.count
      /\ x.write = u.write /\ x.pending = u.pending /\ x.open = u.open
  BY <1>2, <1>4, <1>5 DEF Waves
<1> QED BY <1>2, <1>3, <1>5, <1>6

\* The n oldest buffers leave the queue.
LEMMA PopWave ==
    ASSUME WaveInv, w.open, NEW n \in 0 .. w.count,
           w' \in Waves, w'.read = At(n), w'.write = w.write,
           w'.count = w.count - n, w'.pending = Releases(plays'), w'.open = w.open,
           queue' = Without(n), inqueue' = inqueue \ HeadersAt(Oldest(n)),
           plays' \in Seq(Plays), Len(plays') <= QueueCapacity,
           app' = app, pump' \in {"off", "poll", "submit"}, hurt' = hurt
    PROVE  WaveInv'
<1>1. /\ w \in Waves /\ queue \in [Index -> Buffers] /\ w.count \in 0 .. QueueCapacity
      /\ w.count + Extra <= QueueCapacity /\ Extra \in {0, 1} /\ w.count \in Nat
      /\ n \in 0 .. QueueCapacity /\ n \in Nat /\ n <= w.count
  <2>1. w.count \in 0 .. QueueCapacity
    BY DEF WaveInv, WaveType, Waves
  <2>2. w.count \in Nat /\ n \in Nat /\ n <= w.count /\ n \in 0 .. QueueCapacity
    BY <2>1, QueueSize
  <2> QED BY <2>1, <2>2 DEF WaveInv, WaveType, Sound, Extra
<1>2. \A i \in Index : queue'[i] = IF Off(i) < n THEN NoBuffer ELSE queue[i]
  BY DEF Without, Off
<1>3. queue' \in [Index -> Buffers] /\ \A i \in Index : Sized(queue'[i])
  <2>1. queue' = [i \in Index |-> IF Off(i) < n THEN NoBuffer ELSE queue[i]]
    BY DEF Without, Off
  <2>2. \A i \in Index : queue'[i] \in Buffers
    BY <1>1, <1>2, NoBufferType
  <2>3. \A i \in Index : Sized(queue'[i])
    BY <1>2, NoBufferType DEF WaveInv, Sound
  <2> QED BY <2>1, <2>2, <2>3
<1>4. WaveType'
  BY <1>3 DEF WaveInv, WaveType
<1>5. Linked' = Linked /\ Extra' = Extra
  BY DEF Linked, Extra
<1>6. Sound'
  <2>1. w'.count + Extra' <= QueueCapacity
    <3>1. w'.count + Extra' = (w.count - n) + Extra
      BY <1>5
    <3>2. (w.count - n) + Extra <= QueueCapacity
      BY <1>1, QueueSize
    <3> QED BY <3>1, <3>2
  <2> QED BY <1>3, <2>1 DEF WaveInv, Sound
<1>7. ASSUME Shape PROVE Shape'
  <2>1. PICK r : r = At(n)
    OBVIOUS
  <2>2. /\ r \in Index
        /\ \A i \in Index : (i - r) % QueueCapacity
              = IF Off(i) >= n THEN Off(i) - n ELSE Off(i) - n + QueueCapacity
        /\ \A m \in 0 .. QueueCapacity - n : (r + m) % QueueCapacity = At(n + m)
    BY <1>1, <2>1, Shifted
  <2>3. ASSUME NEW i \in Index
        PROVE  Off(i)' = IF Off(i) >= n THEN Off(i) - n ELSE Off(i) - n + QueueCapacity
    BY <2>1, <2>2 DEF Off
  <2>4. \A i \in Index : Off(i) \in Index
    BY <1>1, Distances
  <2>5. ASSUME NEW i \in Index PROVE Occupied(i)' <=> Off(i) >= n /\ Off(i) < w.count + Extra
    <3>1. Occupied(i) <=> Off(i) < w.count + Extra
      BY <1>7 DEF Shape
    <3>2. CASE Off(i) < n
      <4>1. ~Occupied(i)'
        BY <1>2, <3>2, NoBufferType DEF Occupied
      <4> QED BY <1>1, <2>4, <3>2, <4>1, QueueSize
    <3>3. CASE ~(Off(i) < n)
      <4>1. Occupied(i)' <=> Occupied(i)
        BY <1>2, <3>3 DEF Occupied
      <4>2. Off(i) >= n
        BY <1>1, <2>4, <3>3, QueueSize
      <4> QED BY <3>1, <4>1, <4>2
    <3> QED BY <3>2, <3>3
  <2>6. ASSUME NEW i \in Index PROVE Occupied(i)' <=> Off(i)' < w'.count + Extra'
    <3>1. PICK k : k = Off(i)
      OBVIOUS
    <3>2. PICK o : o = Off(i)'
      OBVIOUS
    <3>3. k \in 0 .. QueueCapacity - 1 /\ o = IF k >= n THEN k - n ELSE k - n + QueueCapacity
      BY <2>3, <2>4, <3>1, <3>2, QueueSize
    <3>4. Occupied(i)' <=> k >= n /\ k < w.count + Extra
      BY <2>5, <3>1
    <3>5. (k >= n /\ k < w.count + Extra) <=> o < (w.count - n) + Extra
      BY <1>1, <3>3, QueueSize
    <3>6. w'.count + Extra' = (w.count - n) + Extra
      BY <1>5
    <3> QED BY <3>2, <3>4, <3>5, <3>6, Zenon
  <2>7. w'.write = (IF app'.pc = "advanced" THEN At(w.count + 1)' ELSE At(w.count)')
    <3>1. CASE app.pc = "advanced"
      <4>1. Extra = 1
        BY <3>1 DEF Extra, Linked
      <4>2. w.write = At(w.count + 1)
        BY <1>7, <3>1 DEF Shape
      <4>3. w.count - n + 1 \in 0 .. QueueCapacity - n /\ n + (w.count - n + 1) = w.count + 1
        BY <1>1, <4>1, QueueSize
      <4>4. (r + (w.count - n + 1)) % QueueCapacity = At(w.count + 1)
        BY <2>2, <4>3
      <4> QED BY <2>1, <3>1, <4>2, <4>4 DEF At
    <3>2. CASE app.pc # "advanced"
      <4>1. w.write = At(w.count)
        BY <1>7, <3>2 DEF Shape
      <4>2. w.count - n \in 0 .. QueueCapacity - n /\ n + (w.count - n) = w.count
        BY <1>1, QueueSize
      <4>3. (r + (w.count - n)) % QueueCapacity = At(w.count)
        BY <2>2, <4>2
      <4> QED BY <2>1, <3>2, <4>1, <4>3 DEF At
    <3> QED BY <3>1, <3>2
  <2>8. \A i \in Index : Occupied(i)' => Occupied(i) /\ queue'[i].header = queue[i].header /\ ~(Off(i) < n)
    <3> SUFFICES ASSUME NEW i \in Index, Occupied(i)'
                 PROVE  Occupied(i) /\ queue'[i].header = queue[i].header /\ ~(Off(i) < n)
      OBVIOUS
    <3>1. ~(Off(i) < n)
      BY <1>2, NoBufferType DEF Occupied
    <3>2. queue'[i] = queue[i]
      BY <1>2, <3>1
    <3> QED BY <3>1, <3>2 DEF Occupied
  <2>9. \A i, j \in Index : Occupied(i)' /\ queue'[i].header = queue'[j].header => i = j
    <3> SUFFICES ASSUME NEW i \in Index, NEW j \in Index, Occupied(i)',
                        queue'[i].header = queue'[j].header
                 PROVE  i = j
      OBVIOUS
    <3>1. Occupied(j)'
      BY DEF Occupied
    <3>2. Occupied(i) /\ queue[i].header = queue[j].header
      BY <2>8, <3>1
    <3> QED BY <1>7, <3>2 DEF Shape
  <2>10. inqueue' = {queue'[i].header : i \in {j \in Index : Occupied(j)'}}
    <3>1. HeadersAt(Oldest(n)) = {queue[i].header : i \in {j \in Index : Off(j) < n}} \ {NoHeader}
      BY <1>1, OldestHeaders
    <3>2. inqueue = {queue[i].header : i \in {j \in Index : Occupied(j)}}
      BY <1>7 DEF Shape
    <3>3. ASSUME NEW h \in inqueue' PROVE \E i \in Index : Occupied(i)' /\ h = queue'[i].header
      <4>1. PICK i \in Index : Occupied(i) /\ h = queue[i].header
        BY <3>2
      <4>2. h # NoHeader /\ h \notin HeadersAt(Oldest(n))
        BY <4>1 DEF Occupied
      <4>3. ~(Off(i) < n)
        BY <3>1, <4>1, <4>2
      <4>4. queue'[i] = queue[i]
        BY <1>2, <4>3
      <4> QED BY <4>1, <4>4 DEF Occupied
    <3>4. ASSUME NEW i \in Index, Occupied(i)' PROVE queue'[i].header \in inqueue'
      <4>1. Occupied(i) /\ queue'[i].header = queue[i].header /\ ~(Off(i) < n)
        BY <2>8, <3>4
      <4>2. queue[i].header \in inqueue
        BY <3>2, <4>1
      <4>3. ASSUME queue[i].header \in HeadersAt(Oldest(n)) PROVE FALSE
        <5>1. PICK j \in Index : Off(j) < n /\ queue[i].header = queue[j].header
          BY <3>1, <4>3
        <5>2. i = j
          BY <1>7, <4>1, <5>1 DEF Shape
        <5> QED BY <4>1, <5>1, <5>2
      <4> QED BY <4>1, <4>2, <4>3
    <3> QED BY <3>3, <3>4
  <2>11. app'.pc = "flushing" => inqueue' \subseteq {app'.held[i] : i \in DOMAIN app'.held}
    BY <1>7 DEF Shape
  <2> QED BY <2>6, <2>7, <2>9, <2>10, <2>11 DEF Shape
<1> QED BY <1>4, <1>6, <1>7 DEF WaveInv, Whole

\* The pump returns what the VxD has played.
LEMMA PollCompletesKeeps == ASSUME PcmInv, WaveInv, PollCompletes PROVE PcmInv' /\ WaveInv'
<1>1. PICK p : p = Head(plays)
  OBVIOUS
<1>2. PICK n : n = Completes(p)
  OBVIOUS
<1>3. /\ n >= 0 /\ PmPoll(w.stream) /\ plays # <<>> /\ plays' = Tail(plays)
      /\ w' = (IF n = 0 THEN w
               ELSE Pop([w EXCEPT !.pending = IF p.release THEN w.pending - 1 ELSE w.pending], n))
      /\ queue' = Without(n) /\ inqueue' = inqueue \ HeadersAt(Oldest(n))
      /\ app' = app /\ pump' = pump /\ hurt' = hurt
  BY <1>1, <1>2 DEF PollCompletes, Return
<1>4. PcmInv'
  BY <1>3, PollPcm
<1>5. /\ WaveType /\ w \in Waves /\ w.open /\ plays \in Seq(Plays) /\ Len(plays) <= QueueCapacity
      /\ w.pending = Releases(plays) /\ pump \in {"off", "poll", "submit"}
  BY DEF WaveInv, WaveType, Sound, PollCompletes
<1>6. p \in Plays /\ Tail(plays) \in Seq(Plays) /\ Len(Tail(plays)) = Len(plays) - 1
  BY <1>1, <1>3, <1>5
<1>7. n \in 0 .. w.count /\ (n = 0 => ~p.release)
  BY <1>2, <1>3, <1>5, <1>6, CompletesRange
<1>8. Releases(plays') = w.pending - (IF p.release THEN 1 ELSE 0)
  BY <1>1, <1>3, <1>5, ReleasesTail DEF IsRelease
<1>9. Len(plays') <= QueueCapacity /\ plays' \in Seq(Plays) /\ Releases(plays') \in 0 .. QueueCapacity
  <2>1. Len(plays) \in Nat /\ Len(plays') \in Nat
    BY <1>3, <1>5, <1>6
  <2>2. Releases(plays') \in 0 .. Len(plays')
    BY <1>3, <1>6, ReleasesBound
  <2>3. Len(plays') <= QueueCapacity
    BY <1>3, <1>5, <1>6, <2>1, QueueSize
  <2>4. Releases(plays') \in 0 .. QueueCapacity
    BY <2>1, <2>2, <2>3, QueueSize
  <2> QED BY <1>3, <1>6, <2>3, <2>4
<1>10. /\ w' \in Waves /\ w'.read = At(n) /\ w'.write = w.write /\ w'.count = w.count - n
       /\ w'.pending = Releases(plays') /\ w'.open = w.open
  <2>0. w.count \in Nat /\ w.pending \in Nat
    BY <1>5, QueueSize DEF Waves
  <2>1. CASE n = 0
    <3>1. w' = w
      BY <1>3, <2>1
    <3>2. At(0) = w.read
      BY <1>5, Distances
    <3>3. w.count - n = w.count /\ Releases(plays') = w.pending
      BY <1>7, <1>8, <2>0, <2>1
    <3> QED BY <1>5, <2>1, <3>1, <3>2, <3>3
  <2>2. CASE n # 0
    <3>1. PICK v : v = [w EXCEPT !.pending = Releases(plays')]
      OBVIOUS
    <3>2. /\ v \in Waves /\ v.read = w.read /\ v.write = w.write /\ v.count = w.count
          /\ v.open = w.open /\ v.pending = Releases(plays')
      BY <1>5, <1>9, <3>1 DEF Waves
    <3>3. w' = Pop(v, n)
      <4>1. (IF p.release THEN w.pending - 1 ELSE w.pending) = Releases(plays')
        BY <1>8, <2>0
      <4> QED BY <1>3, <2>2, <3>1, <4>1
    <3>4. n \in 1 .. v.count
      BY <1>7, <2>0, <2>2, <3>2
    <3> QED BY <3>2, <3>3, <3>4, PopType DEF At
  <2> QED BY <2>1, <2>2
<1>11. WaveInv'
  BY <1>3, <1>5, <1>7, <1>9, <1>10, PopWave
<1> QED BY <1>4, <1>11

-----------------------------------------------------------------------------
(* A submission.                                                           *)

\* Tokens are never 0 and wrap.
LEMMA TokenType ==
    ASSUME WaveInv, NextBuffer \in Buffers
    PROVE  /\ Token \in 1 .. TokenLimit - 1
           /\ Numbered \in Waves /\ Numbered.read = w.read /\ Numbered.write = w.write
           /\ Numbered.count = w.count /\ Numbered.pending = w.pending
           /\ Numbered.open = w.open
<1>1. w \in Waves /\ w.nextToken \in 0 .. TokenLimit - 1 /\ NextBuffer.token \in 0 .. TokenLimit - 1
  BY DEF WaveInv, WaveType, Waves, Buffers
<1>2. PICK t : t = Allocate(w.nextToken)
  OBVIOUS
<1>3. t \in 1 .. TokenLimit - 1
  BY <1>1, <1>2, QueueSize DEF Allocate
<1>4. After(t) \in 0 .. TokenLimit - 1
  BY <1>3, QueueSize DEF After
<1>5. Token \in 1 .. TokenLimit - 1
  BY <1>1, <1>2, <1>3, QueueSize DEF Token
<1>6. Numbered = [w EXCEPT !.nextToken = After(t)] \/ Numbered = w
  BY <1>2 DEF Numbered
<1>7. /\ Numbered \in Waves /\ Numbered.read = w.read /\ Numbered.write = w.write
      /\ Numbered.count = w.count /\ Numbered.pending = w.pending
      /\ Numbered.open = w.open
  BY <1>1, <1>4, <1>6 DEF Waves
<1> QED BY <1>5, <1>7

\* The pump aborts on a refused submission.
LEMMA SubmitAbortsKeeps == ASSUME PcmInv, WaveInv, SubmitAborts PROVE PcmInv' /\ WaveInv'
<1>1. w.open /\ NextBuffer \in Buffers
  BY DEF WaveInv, WaveType, Sound, SubmitAborts, MaySubmit, NextBuffer, Waves
<1>2. Numbered \in Waves /\ Numbered.open = w.open
  BY <1>1, TokenType
<1>3. Abort(Numbered, Laps) /\ pump' = "off" /\ app' = app
  BY DEF SubmitAborts
<1>4. pump' \in {"off", "poll", "submit"}
  BY <1>3
<1> QED BY <1>1, <1>2, <1>3, <1>4, AbortKeeps

\* How much of the buffer goes out.
LEMMA ChunkFits ==
    ASSUME PcmInv, WaveInv, MaySubmit, Submits = "ok"
    PROVE  /\ Chunk \in Nat \ {0} /\ Accepted(Chunk) \in Nat \ {0}
           /\ NextBuffer \in Buffers /\ NextBuffer.header \in Sources
           /\ NextBuffer.submitted < NextBuffer.size
           /\ NextBuffer.submitted + Accepted(Chunk) <= NextBuffer.size
<1>1. w.sched \in Index /\ queue \in [Index -> Buffers] /\ Sized(queue[w.sched])
  BY DEF WaveInv, WaveType, Sound, Waves
<1>2. NextBuffer \in Buffers /\ NextBuffer.header # NoHeader /\ Sized(NextBuffer)
  BY <1>1 DEF NextBuffer, MaySubmit
<1>3. PICK s, z : s = NextBuffer.submitted /\ z = NextBuffer.size
  OBVIOUS
<1>4. s \in Nat /\ z \in Nat /\ s < z /\ NextBuffer.header \in Sources
  BY <1>2, <1>3, QueueSize DEF Sized, Buffers, Headers
<1>5. Remaining = z - s
  BY <1>3 DEF Remaining
<1>6. Chunk = IF z - s <= MaxSubmit THEN z - s ELSE MaxSubmit
  <2>1. z - s \in Int /\ MaxSubmit \in Int
    BY <1>4, QueueSize
  <2> QED BY <1>5, <2>1, MinOfTwo DEF Chunk
<1>7. Chunk \in Nat \ {0} /\ Chunk <= z - s
  BY <1>4, <1>6, QueueSize
<1>8. tr.opened /\ Accepted(Chunk) # 0
  BY SubmitOk, ValidMeansOpen, Zenon DEF Submits
<1>9. PICK a, c : a = Accepted(Chunk) /\ c = Chunk
  OBVIOUS
<1>10. a \in 1 .. RingFrames - 1 /\ a <= c
  BY <1>7, <1>8, <1>9, AcceptedRoom
<1>11. a \in Nat \ {0} /\ s + a <= z
  BY <1>4, <1>7, <1>9, <1>10, RingSize
<1> QED BY <1>2, <1>3, <1>4, <1>7, <1>9, <1>11

\* Entering a loop keeps the indexes of the queue.
LEMMA EnteredType ==
    ASSUME w \in Waves, NEW b \in Buffers, NEW i \in Index
    PROVE  /\ Entered(b, i) \in Waves
           /\ Entered(b, i).read = w.read /\ Entered(b, i).write = w.write
           /\ Entered(b, i).count = w.count /\ Entered(b, i).pending = w.pending
           /\ Entered(b, i).open = w.open
<1>1. CASE b.begins /\ ~w.active
  <2>1. Entered(b, i) = [w EXCEPT !.active = TRUE, !.start = i, !.remaining = b.loops,
                                  !.breakNow = w.breakNext, !.breakNext = FALSE]
    BY <1>1, Zenon DEF Entered
  <2>2. b.loops \in Nat /\ w.breakNext \in BOOLEAN
    BY QueueSize DEF Buffers, Waves
  <2> QED BY <2>1, <2>2 DEF Waves
<1>2. CASE ~(b.begins /\ ~w.active)
  <2>1. Entered(b, i) = w
    BY <1>2, Zenon DEF Entered
  <2> QED BY <2>1
<1> QED BY <1>1, <1>2

\* gsw_finish_occurrence keeps the indexes, and counts the release it submits.
LEMMA FinishType ==
    ASSUME w \in Waves, NEW b \in Buffers, NEW i \in Index, w.pending < QueueCapacity
    PROVE  /\ Finish(b, i).w \in Waves
           /\ Finish(b, i).w.read = w.read /\ Finish(b, i).w.write = w.write
           /\ Finish(b, i).w.count = w.count /\ Finish(b, i).w.open = w.open
           /\ Finish(b, i).w.pending = w.pending + IsRelease(Finish(b, i))
           /\ Finish(b, i).release \in BOOLEAN /\ Finish(b, i).complete \in BOOLEAN
           /\ Finish(b, i).from \in Index
<1>1. PICK v : v = Entered(b, i)
  OBVIOUS
<1>2. /\ v \in Waves /\ v.read = w.read /\ v.write = w.write /\ v.count = w.count
      /\ v.pending = w.pending /\ v.open = w.open
  BY <1>1, EnteredType
<1>3. /\ v.start \in Index /\ v.active \in BOOLEAN /\ v.breakNow \in BOOLEAN
      /\ v.remaining \in Nat /\ v.pending \in Nat /\ b.ends \in BOOLEAN
  BY <1>2, QueueSize DEF Waves, Buffers
<1>4. NextIndex(i) \in Index
  <2>1. i + 1 \in Int
    BY QueueSize
  <2> QED BY <2>1, QueueSize, Division DEF NextIndex
<1>5. PICK f : f = Finish(b, i)
  OBVIOUS
<1> DEFINE last == v.active /\ b.ends /\ LastRound(v)
           released == [v EXCEPT !.active = FALSE, !.breakNow = FALSE,
                           !.remaining = 0, !.pending = v.pending + 1,
                           !.sched = NextIndex(i)]
           again == [v EXCEPT !.remaining = v.remaining - 1, !.sched = v.start]
           on == [v EXCEPT !.sched = NextIndex(i)]
<1>6. /\ f.release = last /\ f.complete = ~v.active /\ f.from = v.start
      /\ f.w = IF last THEN released ELSE IF v.active /\ b.ends THEN again ELSE on
  BY <1>1, <1>5 DEF Finish
<1>7. last \in BOOLEAN /\ (~v.active) \in BOOLEAN
  BY <1>3 DEF LastRound
<1>8. CASE last
  <2>1. f.w = released
    BY <1>6, <1>8
  <2>2. v.pending + 1 \in 0 .. QueueCapacity
    BY <1>2, <1>3, QueueSize
  <2>3. /\ released \in Waves /\ released.read = v.read /\ released.write = v.write
        /\ released.count = v.count /\ released.open = v.open
        /\ released.pending = v.pending + 1
    BY <1>2, <1>4, <2>2 DEF Waves
  <2>4. IsRelease(f) = 1
    BY <1>6, <1>8 DEF IsRelease
  <2> HIDE DEF released, last
  <2> QED BY <1>2, <1>3, <1>5, <1>6, <1>7, <2>1, <2>3, <2>4
<1>9. CASE ~last /\ v.active /\ b.ends
  <2>1. f.w = again
    BY <1>6, <1>9
  <2>2. v.remaining - 1 \in Nat
    BY <1>3, <1>9 DEF LastRound
  <2>3. /\ again \in Waves /\ again.read = v.read /\ again.write = v.write
        /\ again.count = v.count /\ again.open = v.open
        /\ again.pending = v.pending
    BY <1>2, <1>3, <2>2 DEF Waves
  <2>4. IsRelease(f) = 0
    BY <1>6, <1>9 DEF IsRelease
  <2>5. v.pending + 0 = v.pending
    BY <1>3
  <2> HIDE DEF again, last
  <2> QED BY <1>2, <1>3, <1>5, <1>6, <1>7, <2>1, <2>3, <2>4, <2>5
<1>10. CASE ~last /\ ~(v.active /\ b.ends)
  <2>1. f.w = on
    BY <1>6, <1>10
  <2>3. /\ on \in Waves /\ on.read = v.read /\ on.write = v.write
        /\ on.count = v.count /\ on.open = v.open
        /\ on.pending = v.pending
    BY <1>2, <1>4 DEF Waves
  <2>4. IsRelease(f) = 0
    BY <1>6, <1>10 DEF IsRelease
  <2>5. v.pending + 0 = v.pending
    BY <1>3
  <2> HIDE DEF on, last
  <2> QED BY <1>2, <1>3, <1>5, <1>6, <1>7, <2>1, <2>3, <2>4, <2>5
<1> QED BY <1>8, <1>9, <1>10

\* The pump submits a chunk of the scheduled buffer.
LEMMA SubmitChunkKeeps == ASSUME PcmInv, WaveInv, SubmitChunk PROVE PcmInv' /\ WaveInv'
<1>1. PICK a : a = Accepted(Chunk)
  OBVIOUS
<1>2. PICK i : i = w.sched
  OBVIOUS
<1>3. PICK b : b = NextBuffer
  OBVIOUS
<1>4. PICK f : f = Finish(b, i)
  OBVIOUS
<1> DEFINE done == b.submitted + a = b.size
           play == [token |-> Token, index |-> i, complete |-> f.complete,
                    release |-> f.release, from |-> f.from, to |-> i]
<1>5. /\ MaySubmit /\ Submits = "ok"
      /\ PmSubmit(w.stream, b.header, Chunk, AtEnd, Token)
      /\ w' = (IF done THEN [f.w EXCEPT !.nextToken = Numbered.nextToken] ELSE Numbered)
      /\ queue' = [queue EXCEPT ![i].submitted = IF done THEN 0 ELSE @ + a,
                                ![i].token = IF done THEN 0 ELSE Token]
      /\ plays' = IF done THEN Append(plays, play) ELSE plays
      /\ pump' \in {"off", "submit"}
      /\ hurt' = hurt \cup Laps
      /\ inqueue' = inqueue /\ app' = app
  BY <1>1, <1>2, <1>3, <1>4 DEF SubmitChunk
<1>6. /\ b \in Buffers /\ b.header \in Sources /\ b.submitted < b.size
      /\ a \in Nat \ {0} /\ b.submitted + a <= b.size /\ Chunk \in Nat \ {0}
  BY <1>1, <1>3, <1>5, ChunkFits
<1>7. /\ Token \in 1 .. TokenLimit - 1
      /\ Numbered \in Waves /\ Numbered.read = w.read /\ Numbered.write = w.write
      /\ Numbered.count = w.count /\ Numbered.pending = w.pending
      /\ Numbered.open = w.open
  BY <1>3, <1>6, TokenType
<1>8. PcmInv'
  <2>1. Token \in Nat /\ AtEnd \in BOOLEAN
    BY <1>7, QueueSize DEF AtEnd
  <2> QED BY <1>5, <1>6, <2>1, SubmitPcm
<1>9. /\ w \in Waves /\ i \in Index /\ queue \in [Index -> Buffers] /\ plays \in Seq(Plays)
      /\ w.open /\ w.pending = Releases(plays) /\ Len(plays) < QueueCapacity /\ app \in Applications
      /\ \A j \in Index : Sized(queue[j])
  BY <1>2, <1>5 DEF WaveInv, WaveType, Sound, MaySubmit, Waves
<1>10. w.pending < QueueCapacity
  <2>1. w.pending \in 0 .. Len(plays) /\ Len(plays) \in Nat
    BY <1>9, ReleasesBound
  <2> QED BY <1>9, <2>1, QueueSize
<1>11. /\ f.w \in Waves /\ f.w.read = w.read /\ f.w.write = w.write
       /\ f.w.count = w.count /\ f.w.open = w.open
       /\ f.w.pending = w.pending + IsRelease(f)
       /\ f.release \in BOOLEAN /\ f.complete \in BOOLEAN /\ f.from \in Index
  BY <1>4, <1>6, <1>9, <1>10, FinishType
<1>12. play \in Plays /\ IsRelease(play) = IsRelease(f)
  BY <1>7, <1>9, <1>11 DEF Plays, IsRelease
<1>13. /\ w' \in Waves /\ w'.read = w.read /\ w'.write = w.write
       /\ w'.count = w.count /\ w'.open = w.open
       /\ w'.pending = (IF done THEN w.pending + IsRelease(f) ELSE w.pending)
  <2>1. CASE done
    <3>1. Numbered.nextToken \in 0 .. TokenLimit - 1
      BY <1>7 DEF Waves
    <3>2. PICK u : u = f.w
      OBVIOUS
    <3>3. w' = [u EXCEPT !.nextToken = Numbered.nextToken]
      BY <1>5, <2>1, <3>2
    <3> HIDE DEF done
    <3> QED BY <1>11, <2>1, <3>1, <3>2, <3>3 DEF Waves
  <2>2. CASE ~done
    BY <1>5, <1>7, <2>2
  <2> QED BY <2>1, <2>2
<1>14. /\ plays' \in Seq(Plays) /\ Len(plays') <= QueueCapacity
       /\ w'.pending = Releases(plays')
  <2> HIDE DEF play
  <2>1. CASE done
    <3>1. plays' = Append(plays, play)
      BY <1>5, <2>1
    <3>2. Append(plays, play) \in Seq(Plays) /\ Len(Append(plays, play)) = Len(plays) + 1
      BY <1>9, <1>12
    <3>3. Len(plays) \in Nat
      BY <1>9
    <3>4. Len(plays) + 1 <= QueueCapacity
      BY <1>9, <3>3, QueueSize
    <3>5. Releases(plays') = Releases(plays) + IsRelease(play)
      BY <1>9, <1>12, <3>1, ReleasesAppend
    <3> QED BY <1>9, <1>12, <1>13, <2>1, <3>1, <3>2, <3>4, <3>5
  <2>2. CASE ~done
    <3>1. Len(plays) \in Nat
      BY <1>9
    <3>2. Len(plays) <= QueueCapacity
      BY <1>9, <3>1, QueueSize
    <3> QED BY <1>5, <1>9, <1>13, <2>2, <3>2
  <2> QED BY <2>1, <2>2
<1>15. /\ queue' \in [Index -> Buffers] /\ \A j \in Index : Sized(queue'[j])
       /\ \A j \in Index : queue'[j].header = queue[j].header
  <2>1. queue[i] = b
    BY <1>2, <1>3 DEF NextBuffer
  <2>2. PICK s : s = IF done THEN 0 ELSE b.submitted + a
    OBVIOUS
  <2>3. PICK t : t = IF done THEN 0 ELSE Token
    OBVIOUS
  <2>4. PICK c : c = [b EXCEPT !.submitted = s, !.token = t]
    OBVIOUS
  <2>5. s \in 0 .. MaxFrames /\ s < b.size
    <3>1. b.submitted \in Nat /\ b.size \in Nat /\ b.size <= MaxFrames
      BY <1>6, QueueSize DEF Buffers
    <3> QED BY <1>6, <2>2, <3>1, QueueSize
  <2>6. t \in 0 .. TokenLimit - 1
    BY <1>7, <2>3, QueueSize
  <2>7. c \in Buffers /\ c.header = b.header /\ c.submitted = s /\ c.size = b.size
    BY <1>6, <2>4, <2>5, <2>6 DEF Buffers
  <2>8. queue' = [queue EXCEPT ![i] = c]
    <3>1. queue' = [queue EXCEPT ![i].submitted = s, ![i].token = t]
      BY <1>5, <1>9, <2>1, <2>2, <2>3
    <3> QED BY <1>9, <2>1, <2>4, <3>1
  <2>9. Sized(c)
    BY <1>6, <2>5, <2>7, QueueSize DEF Sized, Headers
  <2> QED BY <1>9, <2>1, <2>7, <2>8, <2>9
<1>16. hurt \subseteq hurt' /\ pump' \in {"off", "poll", "submit"}
  BY <1>5
<1>17. app'.pc = app.pc /\ app'.held = app.held /\ inqueue' = inqueue /\ app' \in Applications
  BY <1>5, <1>9
<1> HIDE DEF done, play
<1>18. WaveInv'
  BY <1>9, <1>13, <1>14, <1>15, <1>16, <1>17, QuietWave
<1> QED BY <1>8, <1>18

\* The pump has nothing more to submit.
LEMMA SubmitEndsKeeps == ASSUME PcmInv, WaveInv, SubmitEnds PROVE PcmInv' /\ WaveInv'
<1>1. PcmInv'
  BY SamePcm DEF SubmitEnds, pcmVars
<1>2. /\ w \in Waves /\ w.sched \in Index /\ queue \in [Index -> Buffers] /\ plays \in Seq(Plays)
      /\ Len(plays) <= QueueCapacity /\ app \in Applications
      /\ w.open /\ w.pending = Releases(plays)
      /\ \A j \in Index : Sized(queue[j])
  BY DEF WaveInv, WaveType, Sound, SubmitEnds, Waves
<1>3. NextBuffer \in Buffers /\ NextBuffer = queue[w.sched]
  BY <1>2 DEF NextBuffer
<1>4. /\ Token \in 1 .. TokenLimit - 1
      /\ Numbered \in Waves /\ Numbered.read = w.read /\ Numbered.write = w.write
      /\ Numbered.count = w.count /\ Numbered.pending = w.pending
      /\ Numbered.open = w.open
  BY <1>3, TokenType
<1>5. /\ plays' = plays /\ inqueue' = inqueue /\ app' = app /\ pump' = "off" /\ hurt' = hurt
      /\ w' = (IF MaySubmit THEN Numbered ELSE w)
      /\ queue' = (IF MaySubmit THEN [queue EXCEPT ![w.sched].token = Token] ELSE queue)
  BY DEF SubmitEnds
<1>6. /\ w' \in Waves /\ w'.read = w.read /\ w'.write = w.write
      /\ w'.count = w.count /\ w'.open = w.open /\ w'.pending = w.pending
  BY <1>2, <1>4, <1>5
<1>7. /\ queue' \in [Index -> Buffers] /\ \A j \in Index : Sized(queue'[j])
      /\ \A j \in Index : queue'[j].header = queue[j].header
  <2>1. PICK c : c = [NextBuffer EXCEPT !.token = Token]
    OBVIOUS
  <2>2. Token \in 0 .. TokenLimit - 1
    BY <1>4, QueueSize
  <2>3. /\ c \in Buffers /\ c.header = NextBuffer.header /\ c.size = NextBuffer.size
        /\ c.submitted = NextBuffer.submitted
    BY <1>3, <2>1, <2>2 DEF Buffers
  <2>4. Sized(c)
    BY <1>2, <1>3, <2>3 DEF Sized
  <2>5. queue' = [queue EXCEPT ![w.sched] = c] \/ queue' = queue
    BY <1>2, <1>3, <1>5, <2>1
  <2> QED BY <1>2, <1>3, <2>3, <2>4, <2>5
<1>8. pump' \in {"off", "poll", "submit"} /\ hurt \subseteq hurt'
  BY <1>5
<1>9. WaveInv'
  BY <1>2, <1>5, <1>6, <1>7, <1>8, QuietWave
<1> QED BY <1>1, <1>9

-----------------------------------------------------------------------------
(* Calls.                                                                  *)

\* With nothing queued and no write in progress, nothing is owed.
LEMMA NothingOwed ==
    ASSUME WaveInv, Shape, ~Linked, w.count = 0
    PROVE  inqueue = {}
<1>1. Extra = 0 /\ w \in Waves
  BY DEF Extra, WaveInv, WaveType
<1>2. ASSUME NEW i \in Index PROVE ~Occupied(i)
  <2>1. Off(i) \in Index
    BY <1>1, Distances
  <2>2. ~(Off(i) < 0 + 0)
    BY <2>1, QueueSize
  <2> QED BY <1>1, <2>2 DEF Shape
<1> QED BY <1>2 DEF Shape

\* gsw_open.
LEMMA OpenKeeps == ASSUME PcmInv, WaveInv, Open PROVE PcmInv' /\ WaveInv'
<1>1. PcmInv'
  BY OpenPcm DEF Open
<1>2. /\ app.pc = "idle" /\ pump = "off" /\ w.count = 0 /\ ~Linked /\ app \in Applications
      /\ inqueue' = inqueue /\ app' = app /\ pump' = pump /\ hurt' = hurt
      /\ queue' = NoQueue /\ plays' = <<>>
      /\ w' = [Closed EXCEPT !.open = TRUE, !.stream = NextStream, !.nextToken = 1]
  BY DEF WaveInv, Sound, WaveType, Open, Calling, Linked
<1>3. NextStream \in Nat
  BY PcmParts DEF PcmInv, NextStream, Transports
<1>4. w' \in Waves /\ w'.read = w'.write /\ w'.count = 0 /\ w'.pending = 0 /\ w'.open
  <2>1. 1 \in 0 .. TokenLimit - 1
    BY QueueSize
  <2>2. Closed.read = 0 /\ Closed.write = 0 /\ Closed.count = 0 /\ Closed.pending = 0
    BY DEF Closed
  <2> QED BY <1>2, <1>3, <2>1, <2>2, ClosedType DEF Waves
<1>5. Whole' => inqueue' = {}
  BY <1>2, NothingOwed DEF Whole, WaveInv
<1>6. WaveInv'
  BY <1>2, <1>4, <1>5, EmptyWave DEF Linked
<1> QED BY <1>1, <1>6

\* A driver that is closed with nothing counted owes nothing.
LEMMA ClosedWave ==
    ASSUME WaveInv, app.pc = "idle", pump = "off", w.count = 0,
           w' = Closed, queue' = NoQueue, plays' = <<>>,
           inqueue' = inqueue, app' = app, pump' = pump, hurt' = hurt
    PROVE  WaveInv'
<1>1. ~Linked /\ app \in Applications
  BY DEF WaveInv, WaveType, Linked
<1>2. w' \in Waves /\ w'.read = w'.write /\ w'.count = 0 /\ w'.pending = 0
  BY ClosedType DEF Closed
<1>3. Whole' => inqueue' = {}
  BY <1>1, NothingOwed DEF Whole, WaveInv
<1> QED BY <1>1, <1>2, <1>3, EmptyWave DEF Linked

\* gsw_open that finds no timer and closes the stream.
LEMMA OpenFailsKeeps == ASSUME PcmInv, WaveInv, OpenFails PROVE PcmInv' /\ WaveInv'
<1>1. /\ dev \in Devices /\ tr \in Transports /\ devnode \in BOOLEAN
      /\ ~tr.opened
  BY PcmParts, Zenon DEF PcmInv, OpenFails, OpenResult
<1>2. /\ tr' = [tr EXCEPT !.stream = NextStream, !.tail = 0, !.submitted = 0,
                          !.completions = <<>>, !.invalid = FALSE, !.paused = FALSE]
      /\ dev' = DeviceReset(dev) /\ ring' = SilentRing /\ sent' = <<>> /\ devnode' = devnode
  BY DEF OpenFails
<1>3. tr' \in Transports /\ ~tr'.opened /\ Len(tr'.completions) <= CompletionCapacity
  <2>1. <<>> \in Seq(Completion) /\ Len(<<>>) = 0 /\ 0 \in Cells /\ 0 \in Nat
    BY RingSize
  <2>2. NextStream \in Nat
    BY <1>1 DEF NextStream, Transports
  <2>3. tr' \in Transports /\ ~tr'.opened /\ tr'.completions = <<>>
    BY <1>1, <1>2, <2>1, <2>2 DEF Transports
  <2> QED BY <2>1, <2>3, CapacityAssumption
<1>4. dev' \in Devices /\ ~dev'.running
  BY <1>1, <1>2, ResetDevice DEF Devices
<1>5. PcmInv'
  BY <1>1, <1>2, <1>3, <1>4, ClosedPcm
<1>6. WaveInv'
  <2>1. /\ app.pc = "idle" /\ pump = "off" /\ w.count = 0
        /\ w' = Closed /\ queue' = NoQueue /\ plays' = <<>>
        /\ inqueue' = inqueue /\ app' = app /\ pump' = pump /\ hurt' = hurt
    BY DEF WaveInv, Sound, OpenFails, Calling
  <2> QED BY <2>1, ClosedWave
<1> QED BY <1>5, <1>6

\* gsw_close.
LEMMA CloseKeeps == ASSUME PcmInv, WaveInv, Close PROVE PcmInv' /\ WaveInv'
<1>1. PcmInv'
  BY ClosePcm, SamePcm DEF Close
<1>2. WaveInv'
  <2>1. /\ app.pc = "idle" /\ pump = "off" /\ w.count = 0
        /\ w' = Closed /\ queue' = NoQueue /\ plays' = <<>>
        /\ inqueue' = inqueue /\ app' = app /\ pump' = pump /\ hurt' = hurt
    BY DEF Close, Calling
  <2> QED BY <2>1, ClosedWave
<1> QED BY <1>1, <1>2

-----------------------------------------------------------------------------
(* A write.                                                                *)

\* gsw_write links the header in the free slot after the counted ones.
LEMMA WriteKeeps ==
    ASSUME PcmInv, WaveInv, NEW h \in Headers, NEW n \in 1 .. MaxFrames,
           NEW begins \in BOOLEAN, NEW ends \in BOOLEAN, NEW loops \in 1 .. MaxLoops,
           Write(h, n, begins, ends, loops)
    PROVE  PcmInv' /\ WaveInv'
<1>1. PcmInv'
  BY SamePcm DEF Write, pcmVars
<1>2. PICK b : b = [NoBuffer EXCEPT !.header = h, !.size = n,
                        !.begins = begins, !.ends = ends, !.loops = loops]
  OBVIOUS
<1>3. /\ app.pc = "idle" /\ pump = "off" /\ w.open /\ h \notin inqueue /\ w.count < QueueCapacity
      /\ queue' = [queue EXCEPT ![w.write] = b]
      /\ inqueue' = inqueue \cup {h}
      /\ w' = (IF w.count = 0 THEN [w EXCEPT !.read = w.write, !.sched = w.write] ELSE w)
      /\ app' = [Idle EXCEPT !.pc = "linked", !.loopOpen = (w.loopOpen \/ begins) /\ ~ends]
      /\ plays' = plays /\ pump' = pump /\ hurt' = hurt
  BY <1>2 DEF Write, Calling
<1>4. /\ w \in Waves /\ w.write \in Index /\ w.count \in 0 .. QueueCapacity
      /\ queue \in [Index -> Buffers] /\ Extra = 0 /\ ~Linked
      /\ \A i \in Index : Sized(queue[i])
  BY <1>3 DEF WaveInv, WaveType, Sound, Waves, Extra, Linked
<1>5. b \in Buffers /\ Sized(b) /\ b.header = h
  <2>1. /\ h \in Headers \cup {NoHeader} /\ n \in 0 .. MaxFrames /\ loops \in 0 .. MaxLoops
        /\ 0 < n /\ h # NoHeader
    BY QueueSize
  <2>2. b \in Buffers /\ b.header = h /\ b.size = n /\ b.submitted = NoBuffer.submitted
    BY <1>2, <2>1, NoBufferType DEF Buffers
  <2>3. NoBuffer.submitted = 0
    BY DEF NoBuffer
  <2> QED BY <2>1, <2>2, <2>3 DEF Sized
<1>6. /\ w' \in Waves /\ w'.write = w.write /\ w'.count = w.count /\ w'.pending = w.pending
      /\ w'.open = w.open /\ w'.read = (IF w.count = 0 THEN w.write ELSE w.read)
  BY <1>3, <1>4 DEF Waves
<1>7. app' \in Applications /\ app'.pc = "linked"
  <2>1. ((w.loopOpen \/ begins) /\ ~ends) \in BOOLEAN
    OBVIOUS
  <2> QED BY <1>3, <2>1, IdleType DEF Applications
<1>8. Linked' /\ Extra' = 1
  BY <1>7 DEF Linked, Extra
<1>9. /\ queue' \in [Index -> Buffers] /\ queue'[w.write] = b
      /\ \A i \in Index : i # w.write => queue'[i] = queue[i]
  BY <1>3, <1>4, <1>5
<1>10. WaveType'
  BY <1>3, <1>6, <1>7, <1>9 DEF WaveInv, WaveType
<1>11. Sound'
  <2>1. \A i \in Index : Sized(queue'[i])
    BY <1>4, <1>5, <1>9
  <2>2. w'.count + Extra' <= QueueCapacity
    BY <1>3, <1>4, <1>6, <1>8, QueueSize
  <2>3. w'.pending = Releases(plays')
    BY <1>3, <1>6 DEF WaveInv, Sound
  <2> QED BY <1>3, <1>6, <2>1, <2>2, <2>3 DEF Sound
<1>12. ASSUME Shape PROVE Shape'
  <2>1. w.write = At(w.count)
    BY <1>3, <1>12 DEF Shape
  <2>2. w'.read = w.read
    BY <1>4, <1>6, <2>1, Distances
  <2>3. \A i \in Index : Off(i)' = Off(i)
    BY <2>2 DEF Off
  <2>4. At(w.count)' = At(w.count)
    BY <1>6, <2>2 DEF At
  <2>5. w.count \in Index /\ w.count \in Nat
    BY <1>3, <1>4, QueueSize
  <2>6. Off(w.write) = w.count
    BY <1>4, <2>1, <2>5, Distances
  <2>7. \A i \in Index : Occupied(i) <=> Off(i) < w.count
    BY <1>4, <1>12, <2>5 DEF Shape
  <2>8. ~Occupied(w.write)
    BY <1>4, <2>5, <2>6, <2>7
  <2>9. ASSUME NEW i \in Index PROVE Occupied(i)' <=> Occupied(i) \/ i = w.write
    <3>1. CASE i = w.write
      <4>1. Occupied(i)'
        BY <1>5, <1>9, <3>1, QueueSize DEF Occupied
      <4> QED BY <3>1, <4>1
    <3>2. CASE i # w.write
      BY <1>9, <3>2 DEF Occupied
    <3> QED BY <3>1, <3>2
  <2>10. ASSUME NEW i \in Index PROVE Occupied(i)' <=> Off(i)' < w'.count + Extra'
    <3>1. Off(i) \in Nat /\ At(Off(i)) = i
      BY <1>4, Distances, QueueSize
    <3>2. Off(i) < w.count + 1 <=> Off(i) < w.count \/ Off(i) = w.count
      BY <2>5, <3>1
    <3>3. Off(i) = w.count <=> i = w.write
      BY <2>1, <2>6, <3>1
    <3> QED BY <1>6, <1>8, <2>3, <2>7, <2>9, <3>2, <3>3
  <2>11. w'.write = (IF app'.pc = "advanced" THEN At(w.count + 1)' ELSE At(w.count)')
    BY <1>6, <1>7, <2>1, <2>4
  <2>12. inqueue = {queue[i].header : i \in {j \in Index : Occupied(j)}}
    BY <1>12 DEF Shape
  <2>13. \A i, j \in Index : Occupied(i)' /\ queue'[i].header = queue'[j].header => i = j
    <3> SUFFICES ASSUME NEW i \in Index, NEW j \in Index, Occupied(i)',
                        queue'[i].header = queue'[j].header, i # j
                 PROVE  FALSE
      OBVIOUS
    <3>1. Occupied(j)'
      BY DEF Occupied
    <3>2. CASE i = w.write
      <4>1. Occupied(j) /\ queue[j].header = h
        BY <1>5, <1>9, <2>9, <3>1, <3>2
      <4> QED BY <1>3, <2>12, <4>1
    <3>3. CASE j = w.write
      <4>1. Occupied(i) /\ queue[i].header = h
        BY <1>5, <1>9, <2>9, <3>1, <3>3
      <4> QED BY <1>3, <2>12, <4>1
    <3>4. CASE i # w.write /\ j # w.write
      <4>1. Occupied(i) /\ queue[i].header = queue[j].header
        BY <1>9, <2>9, <3>4
      <4> QED BY <1>12, <4>1 DEF Shape
    <3> QED BY <3>2, <3>3, <3>4
  <2>14. inqueue' = {queue'[i].header : i \in {j \in Index : Occupied(j)'}}
    <3>1. ASSUME NEW g \in inqueue' PROVE \E i \in Index : Occupied(i)' /\ g = queue'[i].header
      <4>1. CASE g = h
        BY <1>4, <1>5, <1>9, <2>9, <4>1
      <4>2. CASE g # h
        <5>1. PICK i \in Index : Occupied(i) /\ g = queue[i].header
          BY <1>3, <2>12, <4>2
        <5>2. i # w.write
          BY <2>8, <5>1
        <5> QED BY <1>9, <2>9, <5>1, <5>2
      <4> QED BY <4>1, <4>2
    <3>2. ASSUME NEW i \in Index, Occupied(i)' PROVE queue'[i].header \in inqueue'
      <4>1. CASE i = w.write
        BY <1>3, <1>5, <1>9, <4>1
      <4>2. CASE i # w.write
        BY <1>3, <1>9, <2>9, <2>12, <3>2, <4>2
      <4> QED BY <4>1, <4>2
    <3> QED BY <3>1, <3>2
  <2> QED BY <1>7, <2>10, <2>11, <2>13, <2>14 DEF Shape
<1>13. WaveInv'
  BY <1>3, <1>10, <1>11, <1>12 DEF WaveInv, Whole
<1> QED BY <1>1, <1>13

\* A step of a write: the indexes move with the application's place.
LEMMA WritingWave ==
    ASSUME WaveInv, w.open, w' \in Waves, w'.read = w.read, w'.pending = w.pending, w'.open = w.open,
           w'.count + Extra' = w.count + Extra,
           w'.write = (IF app'.pc = "advanced" THEN At(w'.count + 1) ELSE At(w'.count)) \/ ~Shape,
           queue' = queue, plays' = plays, inqueue' = inqueue,
           app' \in Applications, app'.pc # "flushing",
           pump' \in {"off", "poll", "submit"}, hurt' = hurt
    PROVE  WaveInv'
<1>1. WaveType'
  BY DEF WaveInv, WaveType
<1>2. Sound'
  BY DEF WaveInv, Sound
<1>3. ASSUME Shape PROVE Shape'
  <2>1. \A i \in Index : Off(i)' = Off(i) /\ (Occupied(i)' <=> Occupied(i))
    BY DEF Off, Occupied
  <2>2. At(w.count)' = At(w'.count) /\ At(w.count + 1)' = At(w'.count + 1)
    BY DEF At
  <2>3. {queue'[i].header : i \in {j \in Index : Occupied(j)'}} = {queue[i].header : i \in {j \in Index : Occupied(j)}}
    BY <2>1
  <2> QED BY <1>3, <2>1, <2>2, <2>3 DEF Shape
<1> QED BY <1>1, <1>2, <1>3 DEF WaveInv, Whole

\* gsw_write moves queue_write on.
LEMMA WriteAdvancesKeeps == ASSUME PcmInv, WaveInv, WriteAdvances PROVE PcmInv' /\ WaveInv'
<1>1. PcmInv'
  BY SamePcm DEF WriteAdvances, pcmVars
<1>2. /\ app.pc = "linked" /\ pump = "off"
      /\ w' = [w EXCEPT !.loopOpen = app.loopOpen, !.write = NextIndex(w.write)]
      /\ app' = [app EXCEPT !.pc = "advanced"]
      /\ queue' = queue /\ plays' = plays /\ inqueue' = inqueue /\ pump' = pump /\ hurt' = hurt
  BY DEF WriteAdvances, Resuming
<1>3. w \in Waves /\ app \in Applications /\ app.loopOpen \in BOOLEAN /\ w.write \in Index
  BY DEF WaveInv, WaveType, Applications, Waves
<1>4. w.open /\ Extra = 1 /\ w.count + 1 <= QueueCapacity
  BY <1>2 DEF WaveInv, Sound, Extra, Linked
<1>5. NextIndex(w.write) \in Index
  <2>1. w.write + 1 \in Int
    BY <1>3, QueueSize
  <2> QED BY <2>1, QueueSize, Division DEF NextIndex
<1>6. /\ w' \in Waves /\ w'.read = w.read /\ w'.pending = w.pending /\ w'.open = w.open
      /\ w'.count = w.count /\ w'.write = NextIndex(w.write)
  BY <1>2, <1>3, <1>5 DEF Waves
<1>7. app' \in Applications /\ app'.pc = "advanced"
  BY <1>2, <1>3 DEF Applications
<1>8. Extra' = 1
  BY <1>7 DEF Extra, Linked
<1>9. Shape => w'.write = At(w.count + 1)
  <2> SUFFICES ASSUME Shape PROVE w'.write = At(w.count + 1)
    OBVIOUS
  <2>1. w.write = At(w.count)
    BY <1>2 DEF Shape
  <2>2. w.count \in 0 .. QueueCapacity /\ w.count \in Nat
    BY <1>3, QueueSize DEF Waves
  <2>3. 1 \in 0 .. QueueCapacity - w.count
    BY <1>4, <2>2, QueueSize
  <2>4. PICK r : r = At(w.count)
    OBVIOUS
  <2>5. (r + 1) % QueueCapacity = At(w.count + 1)
    BY <1>3, <2>2, <2>3, <2>4, Shifted
  <2> QED BY <1>6, <2>1, <2>4, <2>5 DEF NextIndex
<1>10. pump' \in {"off", "poll", "submit"}
  BY <1>2
<1>11. w'.count + Extra' = w.count + Extra /\ app'.pc # "flushing"
  BY <1>4, <1>6, <1>7, <1>8
<1>12. w'.write = (IF app'.pc = "advanced" THEN At(w'.count + 1) ELSE At(w'.count)) \/ ~Shape
  BY <1>6, <1>7, <1>9
<1>13. WaveInv'
  BY <1>2, <1>4, <1>6, <1>7, <1>10, <1>11, <1>12, WritingWave
<1> QED BY <1>1, <1>13

\* gsw_write counts the buffer.
LEMMA WriteCountsKeeps == ASSUME PcmInv, WaveInv, WriteCounts PROVE PcmInv' /\ WaveInv'
<1>1. PcmInv'
  BY SamePcm DEF WriteCounts, pcmVars
<1>2. /\ app.pc = "advanced" /\ w' = [w EXCEPT !.count = w.count + 1] /\ app' = Idle
      /\ pump' = (IF w.paused THEN "off" ELSE "poll")
      /\ queue' = queue /\ plays' = plays /\ inqueue' = inqueue /\ hurt' = hurt
  BY DEF WriteCounts, Resuming
<1>3. w \in Waves /\ w.count \in 0 .. QueueCapacity
  BY DEF WaveInv, WaveType, Waves
<1>4. w.open /\ Extra = 1 /\ w.count + 1 <= QueueCapacity
  BY <1>2 DEF WaveInv, Sound, Extra, Linked
<1>5. w.count + 1 \in 0 .. QueueCapacity
  BY <1>3, <1>4, QueueSize
<1>6. /\ w' \in Waves /\ w'.read = w.read /\ w'.pending = w.pending /\ w'.open = w.open
      /\ w'.count = w.count + 1 /\ w'.write = w.write
  BY <1>2, <1>3, <1>5 DEF Waves
<1>7. app' \in Applications /\ app'.pc = "idle"
  BY <1>2, IdleType
<1>8. Extra' = 0
  BY <1>7 DEF Extra, Linked
<1>9. w'.write = (IF app'.pc = "advanced" THEN At(w'.count + 1) ELSE At(w'.count)) \/ ~Shape
  BY <1>2, <1>6, <1>7 DEF Shape
<1>10. w'.count + Extra' = w.count + Extra
  <2>1. (w.count + 1) + 0 = w.count + 1
    BY <1>5, QueueSize
  <2> QED BY <1>4, <1>6, <1>8, <2>1
<1>11. pump' \in {"off", "poll", "submit"} /\ app'.pc # "flushing"
  BY <1>2, <1>7
<1>12. WaveInv'
  BY <1>2, <1>4, <1>6, <1>7, <1>9, <1>10, <1>11, WritingWave
<1> QED BY <1>1, <1>12

-----------------------------------------------------------------------------
(* The other calls.                                                        *)

\* What a quiet step needs to know of the state before it.
LEMMA Before ==
    ASSUME WaveInv
    PROVE  /\ w \in Waves /\ queue \in [Index -> Buffers] /\ plays \in Seq(Plays)
           /\ Len(plays) <= QueueCapacity /\ inqueue \subseteq Headers
           /\ app \in Applications /\ pump \in {"off", "poll", "submit"}
           /\ w.pending = Releases(plays) /\ \A i \in Index : Sized(queue[i])
           /\ ~w.open => app.pc = "idle" /\ pump = "off" /\ w.count = 0
BY DEF WaveInv, WaveType, Sound

\* Only flags of the driver, the application's place and the pump change.
LEMMA FlagsWave ==
    ASSUME WaveInv, w' \in Waves, w'.read = w.read, w'.write = w.write,
           w'.count = w.count, w'.pending = w.pending, w'.open = w.open,
           UNCHANGED <<queue, plays, inqueue>>,
           app' \in Applications,
           app' = app \/ {app.pc, app'.pc} \subseteq {"idle", "pausing", "resetting"},
           pump' \in {"off", "poll", "submit"},
           w.open \/ (app' = app /\ pump' = pump),
           hurt \subseteq hurt'
    PROVE  WaveInv'
<1>1. queue' = queue /\ plays' = plays /\ inqueue' = inqueue
  OBVIOUS
<1>2. /\ queue' \in [Index -> Buffers] /\ \A i \in Index : Sized(queue'[i])
      /\ \A i \in Index : queue'[i].header = queue[i].header
      /\ plays' \in Seq(Plays) /\ Len(plays') <= QueueCapacity
      /\ w'.pending = Releases(plays') /\ inqueue' = inqueue
  BY <1>1, Before
<1>3. /\ app'.pc = app.pc \/ {app.pc, app'.pc} \subseteq {"idle", "pausing", "resetting"}
      /\ app'.held = app.held \/ app'.pc # "flushing"
      /\ ~w.open => app'.pc = "idle" /\ pump' = "off"
  BY Before
<1> QED BY <1>2, <1>3, QuietWave

\* Nothing happens to the driver.
LEMMA SameWave == ASSUME WaveInv, UNCHANGED waveVars PROVE WaveInv'
<1>1. w' = w /\ queue' = queue /\ plays' = plays /\ inqueue' = inqueue /\ app' = app /\ pump' = pump /\ hurt' = hurt
  BY DEF waveVars
<1> QED BY <1>1, Before, FlagsWave

\* A step of the device that the driver does not see.
LEMMA DeviceWave ==
    ASSUME WaveInv, UNCHANGED <<w, queue, plays, inqueue, app, pump>>, hurt \subseteq hurt'
    PROVE  WaveInv'
<1>1. w' = w /\ queue' = queue /\ plays' = plays /\ inqueue' = inqueue /\ app' = app /\ pump' = pump
  OBVIOUS
<1> QED BY <1>1, Before, FlagsWave

\* gsw_pause, both halves.
LEMMA PauseKeeps == ASSUME PcmInv, WaveInv, Pause \/ Pauses PROVE PcmInv' /\ WaveInv'
<1>1. CASE Pause
  <2>1. PcmInv'
    BY <1>1, PausePcm DEF Pause
  <2>2. /\ app.pc = "idle" /\ w.open /\ app' = [Idle EXCEPT !.pc = "pausing"]
        /\ w' = w /\ queue' = queue /\ plays' = plays /\ inqueue' = inqueue /\ pump' = pump /\ hurt' = hurt
    BY <1>1 DEF Pause, Calling
  <2>3. app' \in Applications /\ app'.pc = "pausing"
    BY <2>2, IdleType DEF Applications
  <2>4. WaveInv'
    BY <2>2, <2>3, Before, FlagsWave
  <2> QED BY <2>1, <2>4
<1>2. CASE Pauses
  <2>1. PcmInv'
    BY <1>2, SamePcm DEF Pauses, pcmVars
  <2>2. /\ app.pc = "pausing" /\ app' = Idle /\ w' = [w EXCEPT !.paused = TRUE]
        /\ queue' = queue /\ plays' = plays /\ inqueue' = inqueue /\ pump' = pump /\ hurt' = hurt
    BY <1>2 DEF Pauses, Resuming
  <2>3. /\ w' \in Waves /\ w'.read = w.read /\ w'.write = w.write
        /\ w'.count = w.count /\ w'.pending = w.pending /\ w'.open = w.open
    BY <2>2, Before DEF Waves
  <2>4. w.open
    BY <2>2, Before
  <2>5. WaveInv'
    BY <2>2, <2>3, <2>4, Before, IdleType, FlagsWave
  <2> QED BY <2>1, <2>5
<1> QED BY <1>1, <1>2

\* gsw_restart.
LEMMA RestartKeeps == ASSUME PcmInv, WaveInv, Restart PROVE PcmInv' /\ WaveInv'
<1>1. PcmInv'
  BY RestartPcm DEF Restart
<1>2. /\ w' = [w EXCEPT !.paused = FALSE] /\ app' = app
      /\ queue' = queue /\ plays' = plays /\ inqueue' = inqueue /\ pump' = pump /\ hurt' = hurt
  BY DEF Restart
<1>3. /\ w' \in Waves /\ w'.read = w.read /\ w'.write = w.write
      /\ w'.count = w.count /\ w'.pending = w.pending /\ w'.open = w.open
  BY <1>2, Before DEF Waves
<1>4. WaveInv'
  BY <1>2, <1>3, Before, FlagsWave
<1> QED BY <1>1, <1>4

\* gsw_reset resets the stream.
LEMMA ResetKeeps == ASSUME PcmInv, WaveInv, Reset PROVE PcmInv' /\ WaveInv'
<1>1. PcmInv'
  BY ResetPcm, SamePcm DEF Reset, pcmVars
<1>2. /\ app.pc = "idle" /\ w.open /\ app' = [Idle EXCEPT !.pc = "resetting"]
      /\ w' = [w EXCEPT !.paused = FALSE] \/ w' = w
      /\ queue' = queue /\ plays' = plays /\ inqueue' = inqueue /\ pump' = pump /\ hurt' = hurt
  BY DEF Reset, Calling
<1>3. /\ w' \in Waves /\ w'.read = w.read /\ w'.write = w.write
      /\ w'.count = w.count /\ w'.pending = w.pending /\ w'.open = w.open
  BY <1>2, Before DEF Waves
<1>4. app' \in Applications /\ app'.pc = "resetting"
  BY <1>2, IdleType DEF Applications
<1>5. WaveInv'
  BY <1>2, <1>3, <1>4, Before, FlagsWave
<1> QED BY <1>1, <1>5

\* gsw_complete_all collects every counted header, hence all that is owed.
LEMMA ResetCollectsKeeps == ASSUME PcmInv, WaveInv, ResetCollects PROVE PcmInv' /\ WaveInv'
<1>1. PcmInv'
  BY SamePcm DEF ResetCollects, pcmVars
<1>2. PICK q : q = [i \in 1 .. w.count |-> queue[Oldest(w.count)[i]].header]
  OBVIOUS
<1>3. /\ app.pc = "resetting" /\ app' = [app EXCEPT !.pc = "flushing", !.held = q]
      /\ w' = w /\ queue' = queue /\ plays' = plays /\ inqueue' = inqueue /\ pump' = pump /\ hurt' = hurt
  BY <1>2 DEF ResetCollects, Resuming
<1>4. /\ w \in Waves /\ w.read \in Index /\ w.count \in 0 .. QueueCapacity
      /\ queue \in [Index -> Buffers] /\ app \in Applications /\ w.count \in Nat
  BY Before, QueueSize DEF Waves
<1>5. ASSUME NEW i \in 1 .. w.count PROVE queue[Oldest(w.count)[i]].header \in Headers \cup {NoHeader}
  <2>1. Oldest(w.count)[i] = (w.read + i - 1) % QueueCapacity
    BY DEF Oldest
  <2>2. w.read + i - 1 \in Int
    BY <1>4, QueueSize
  <2>3. Oldest(w.count)[i] \in Index
    BY <2>1, <2>2, QueueSize, Division
  <2> QED BY <1>4, <2>3 DEF Buffers
<1>6. q \in Seq(Headers \cup {NoHeader}) /\ DOMAIN q = 1 .. w.count
  BY <1>2, <1>4, <1>5
<1>7. app' \in Applications /\ app'.pc = "flushing" /\ app'.held = q
  BY <1>3, <1>4, <1>6 DEF Applications
<1>8. ~Linked /\ ~Linked' /\ Extra' = Extra
  BY <1>3, <1>7 DEF Linked, Extra
<1>9. WaveType' /\ Sound'
  BY <1>3, <1>7, <1>8, Before DEF WaveInv, WaveType, Sound
<1>10. ASSUME Shape PROVE Shape'
  <2>1. \A i \in Index : Off(i)' = Off(i) /\ (Occupied(i)' <=> Occupied(i))
    BY <1>3 DEF Off, Occupied
  <2>2. At(w.count)' = At(w.count)
    BY <1>3 DEF At
  <2>3. {queue'[i].header : i \in {j \in Index : Occupied(j)'}} = {queue[i].header : i \in {j \in Index : Occupied(j)}}
    BY <1>3, <2>1
  <2>4. inqueue' \subseteq {q[i] : i \in DOMAIN q}
    <3>1. inqueue = HeadersAt(Oldest(w.count))
      BY <1>8, <1>10, CountedHeaders
    <3>2. DOMAIN Oldest(w.count) = 1 .. w.count
      BY DEF Oldest
    <3>3. ASSUME NEW h \in HeadersAt(Oldest(w.count)) PROVE \E i \in DOMAIN q : q[i] = h
      <4>1. PICK i \in 1 .. w.count : h = queue[Oldest(w.count)[i]].header
        BY <3>2 DEF HeadersAt
      <4> QED BY <1>2, <1>6, <4>1
    <3> QED BY <1>3, <3>1, <3>3
  <2>5. app'.pc # "advanced" /\ app.pc # "advanced"
    BY <1>3, <1>7
  <2> QED BY <1>3, <1>7, <1>8, <1>10, <2>1, <2>2, <2>3, <2>4, <2>5 DEF Shape
<1>11. WaveInv'
  BY <1>3, <1>9, <1>10 DEF WaveInv, Whole
<1> QED BY <1>1, <1>11

\* gsw_complete_all returns what it collected: nothing stays behind.
LEMMA ResetFlushesKeeps == ASSUME PcmInv, WaveInv, ResetFlushes PROVE PcmInv' /\ WaveInv'
<1>1. PcmInv'
  BY SamePcm DEF ResetFlushes, pcmVars
<1>2. /\ app.pc = "flushing" /\ pump = "off" /\ w' = Emptied(w) /\ queue' = NoQueue /\ plays' = <<>>
      /\ inqueue' = inqueue \ ({app.held[i] : i \in DOMAIN app.held} \ {NoHeader})
      /\ app' = Idle /\ pump' = pump /\ hurt' = hurt
  BY DEF ResetFlushes, Resuming, Return
<1>3. /\ w' \in Waves /\ w'.read = w'.write /\ w'.count = 0 /\ w'.pending = 0
  BY <1>2, Before, EmptiedType
<1>4. app' \in Applications /\ ~Linked' /\ app'.pc = "idle"
  BY <1>2, IdleType DEF Linked
<1>5. Whole' => inqueue' = {}
  <2>1. Whole' => Shape
    BY <1>2 DEF Whole, WaveInv
  <2>2. NoHeader \notin inqueue
    BY Before, QueueSize
  <2> QED BY <1>2, <2>1, <2>2 DEF Shape
<1>6. WaveInv'
  BY <1>2, <1>3, <1>4, <1>5, EmptyWave
<1> QED BY <1>1, <1>6

\* gsw_break_loop.
LEMMA BreakLoopKeeps == ASSUME PcmInv, WaveInv, BreakLoop PROVE PcmInv' /\ WaveInv'
<1>1. PcmInv'
  BY SamePcm DEF BreakLoop, pcmVars
<1>2. /\ \/ w' = [w EXCEPT !.breakNow = TRUE]
         \/ w' = [w EXCEPT !.breakNext = TRUE]
         \/ w' = w
      /\ app' = app
      /\ queue' = queue /\ plays' = plays /\ inqueue' = inqueue /\ pump' = pump /\ hurt' = hurt
  BY DEF BreakLoop
<1>3. /\ w' \in Waves /\ w'.read = w.read /\ w'.write = w.write
      /\ w'.count = w.count /\ w'.pending = w.pending /\ w'.open = w.open
  BY <1>2, Before DEF Waves
<1>4. WaveInv'
  BY <1>2, <1>3, Before, FlagsWave
<1> QED BY <1>1, <1>4

-----------------------------------------------------------------------------
(* The timer, the device and Plug and Play.                                *)

\* The timer starts the pump; the pump finds no completion.
LEMMA TimerKeeps == ASSUME PcmInv, WaveInv, Timer \/ PollNothing PROVE PcmInv' /\ WaveInv'
<1>1. PcmInv'
  BY SamePcm DEF Timer, PollNothing, pcmVars
<1>2. /\ w' = w /\ queue' = queue /\ plays' = plays /\ inqueue' = inqueue /\ app' = app
      /\ pump' \in {"off", "poll", "submit"} /\ hurt \subseteq hurt'
  BY DEF Timer, PollNothing, Fault
<1>3. w.open
  BY Before DEF Timer, MayPump, PollNothing
<1>4. WaveInv'
  BY <1>2, <1>3, Before, FlagsWave
<1> QED BY <1>1, <1>4

\* The device and Plug and Play move while the driver stands anywhere.
LEMMA DeviceKeeps ==
    ASSUME PcmInv, WaveInv,
           \/ Pull \/ Interrupt \/ LoseBusMaster \/ GetBusMaster \/ Plug
           \/ \E forget \in BOOLEAN : Unplug(forget)
    PROVE  PcmInv' /\ WaveInv'
<1>1. CASE Pull
  <2>1. PcmPull /\ UNCHANGED <<w, queue, plays, inqueue, app, pump>> /\ hurt \subseteq hurt'
    BY <1>1 DEF Pull
  <2> QED BY <2>1, PullPcm, DeviceWave
<1>2. CASE Interrupt
  BY <1>2, InterruptPcm, SameWave DEF Interrupt
<1>3. CASE LoseBusMaster
  <2>1. PcmBusMaster /\ UNCHANGED <<w, queue, plays, inqueue, app, pump>> /\ hurt \subseteq hurt'
    BY <1>3 DEF LoseBusMaster, Fault
  <2> QED BY <2>1, BusMasterPcm, DeviceWave
<1>4. CASE GetBusMaster
  BY <1>4, BusMasterPcm, SameWave DEF GetBusMaster
<1>5. CASE Plug
  BY <1>5, PlugPcm, SameWave DEF Plug
<1>6. ASSUME NEW forget \in BOOLEAN, Unplug(forget) PROVE PcmInv' /\ WaveInv'
  <2>1. PnpStop(forget) /\ UNCHANGED <<w, queue, plays, inqueue, app, pump>> /\ hurt \subseteq hurt'
    BY <1>6 DEF Unplug, Fault
  <2> QED BY <2>1, UnplugPcm, DeviceWave
<1> QED BY <1>1, <1>2, <1>3, <1>4, <1>5, <1>6

-----------------------------------------------------------------------------
(* The invariant.                                                          *)

\* The invariant holds at first.
LEMMA InitInv == ASSUME Init PROVE PcmInv /\ WaveInv
<1>1. PcmInv
  BY PcmInitInv DEF Init
<1>2. w = Closed /\ queue = NoQueue /\ plays = <<>> /\ inqueue = {} /\ app = Idle /\ pump = "off"
  BY DEF Init
<1>3. app.pc = "idle" /\ ~Linked /\ Extra = 0
  BY <1>2, IdleType DEF Linked, Extra
<1>4. Closed.read = 0 /\ Closed.write = 0 /\ Closed.count = 0 /\ Closed.pending = 0 /\ ~Closed.open
  BY DEF Closed
<1>5. WaveType
  BY <1>2, ClosedType, IdleType, NoBufferType, NoPlays DEF WaveType
<1>6. Sound
  <2>1. w.count + Extra <= QueueCapacity
    BY <1>2, <1>3, <1>4, QueueSize
  <2> QED BY <1>2, <1>3, <1>4, <2>1, NoBufferType, NoPlays DEF Sound
<1>7. Shape
  <2>1. \A i \in Index : ~Occupied(i)
    BY <1>2, NoBufferType DEF Occupied
  <2>2. \A i \in Index : ~(Off(i) < w.count + Extra)
    <3>1. \A i \in Index : Off(i) \in Index
      BY <1>2, ClosedType, Distances
    <3>2. w.count + Extra = 0
      BY <1>2, <1>3, <1>4
    <3> QED BY <3>1, <3>2, QueueSize
  <2>3. w.write = At(w.count)
    BY <1>2, <1>4, ClosedType, Distances
  <2> QED BY <1>2, <1>3, <2>1, <2>2, <2>3 DEF Shape
<1> QED BY <1>1, <1>5, <1>6, <1>7 DEF WaveInv

\* Every step keeps the invariant.
LEMMA NextInv == ASSUME PcmInv, WaveInv, [Next]_vars PROVE PcmInv' /\ WaveInv'
<1>1. CASE Timer \/ Pumping
  BY <1>1, TimerKeeps, PollCompletesKeeps, PollAbortsKeeps, SubmitChunkKeeps,
     SubmitAbortsKeeps, SubmitEndsKeeps DEF Pumping
<1>2. CASE Calls
  <2>1. ASSUME NEW h \in Headers, NEW n \in 1 .. MaxFrames, NEW begins \in BOOLEAN,
               NEW ends \in BOOLEAN, NEW loops \in 1 .. MaxLoops,
               Write(h, n, begins, ends, loops)
        PROVE  PcmInv' /\ WaveInv'
    BY <2>1, WriteKeeps
  <2> QED BY <1>2, <2>1, OpenKeeps, OpenFailsKeeps, CloseKeeps, PauseKeeps,
             RestartKeeps, ResetKeeps, BreakLoopKeeps DEF Calls
<1>3. CASE Continues
  BY <1>3, WriteAdvancesKeeps, WriteCountsKeeps, PauseKeeps, ResetCollectsKeeps,
     ResetFlushesKeeps DEF Continues
<1>4. CASE \/ Pull \/ Interrupt \/ LoseBusMaster \/ GetBusMaster \/ Plug
           \/ \E forget \in BOOLEAN : Unplug(forget)
  BY <1>4, DeviceKeeps
<1>5. CASE UNCHANGED vars
  BY <1>5, SamePcm, SameWave DEF vars, pcmVars, waveVars
<1> QED BY <1>1, <1>2, <1>3, <1>4, <1>5, Zenon DEF Next

\* The inductive invariant holds in every behaviour.
THEOREM InvariantHolds == Spec => [](PcmInv /\ WaveInv)
<1>1. Init => PcmInv /\ WaveInv
  BY InitInv
<1>2. PcmInv /\ WaveInv /\ [Next]_vars => (PcmInv /\ WaveInv)'
  BY NextInv
<1> QED BY <1>1, <1>2, PTL DEF Spec

\* TypeOK: every index stays in its array, the count within the capacity, no
\* token is 0, and pending never falls below 0 (gswsound_drv.c:176-217, 306-316).
THEOREM TypeCorrect == Spec => []TypeOK
<1>1. PcmInv /\ WaveInv => TypeOK
  <2> SUFFICES ASSUME PcmInv, WaveInv PROVE TypeOK
    OBVIOUS
  <2>1. PcmTypeOK
    BY DEF PcmInv
  <2>2. \A i \in 1 .. Len(plays) : plays[i].token \in 1 .. TokenLimit - 1
    <3>1. \A i \in 1 .. Len(plays) : plays[i] \in Plays
      BY Before
    <3> QED BY <3>1 DEF Plays
  <2>3. app.pc \in {"idle", "linked", "advanced", "pausing", "resetting", "flushing"}
    BY Before DEF Applications
  <2> QED BY <2>1, <2>2, <2>3, Before DEF TypeOK, Waves, Buffers
<1> QED BY <1>1, InvariantHolds, PTL

\* RingHoldsSent: no submission overwrites a frame that the device has still to
\* pull (gswsound_transport.c:270-278), also when the driver's pump, a reset and a
\* stop by Plug and Play interleave.
THEOREM RingIsRight == Spec => []RingHoldsSent
<1>1. PcmInv => RingHoldsSent
  BY DEF PcmInv
<1> QED BY <1>1, InvariantHolds, PTL

\* The slots in use, counted from the oldest, hold one header each.
LEMMA OneHeaderEach ==
    ASSUME WaveInv, Shape
    PROVE  Cardinality(inqueue) = w.count + Extra
<1> DEFINE c == w.count + Extra
           f == [k \in 1 .. c |-> queue[At(k - 1)].header]
<1>1. /\ w \in Waves /\ c \in Nat /\ c <= QueueCapacity
  <2>1. w \in Waves /\ w.count \in Nat /\ Extra \in {0, 1} /\ w.count + Extra <= QueueCapacity
    BY QueueSize DEF WaveInv, WaveType, Sound, Waves, Extra
  <2> QED BY <2>1
<1>2. /\ \A i \in Index : Off(i) \in Index /\ At(Off(i)) = i
      /\ \A k \in Index : At(k) \in Index /\ Off(At(k)) = k
  BY <1>1, Distances
<1>3. /\ \A i \in Index : Occupied(i) <=> Off(i) < c
      /\ \A i, j \in Index : Occupied(i) /\ queue[i].header = queue[j].header => i = j
      /\ inqueue = {queue[i].header : i \in {j \in Index : Occupied(j)}}
  BY DEF Shape
<1> HIDE DEF c
<1>4. ASSUME NEW k \in 1 .. c
      PROVE  k - 1 \in Index /\ At(k - 1) \in Index /\ Occupied(At(k - 1)) /\ Off(At(k - 1)) = k - 1
  <2>1. k - 1 \in Index /\ k - 1 < c
    BY <1>1, QueueSize
  <2> QED BY <1>2, <1>3, <2>1
<1>5. f \in [1 .. c -> inqueue]
  BY <1>3, <1>4
<1>6. ASSUME NEW k \in 1 .. c, NEW l \in 1 .. c, f[k] = f[l] PROVE k = l
  <2>1. At(k - 1) = At(l - 1)
    BY <1>3, <1>4, <1>6
  <2>2. k - 1 = l - 1
    BY <1>4, <2>1
  <2> QED BY <1>1, <2>2
<1>7. ASSUME NEW h \in inqueue PROVE \E k \in 1 .. c : f[k] = h
  <2>1. PICK i \in Index : Occupied(i) /\ h = queue[i].header
    BY <1>3
  <2>2. PICK m : m = Off(i)
    OBVIOUS
  <2>3. m \in Index /\ m < c /\ At(m) = i
    BY <1>2, <1>3, <2>1, <2>2
  <2>4. m + 1 \in 1 .. c /\ (m + 1) - 1 = m
    BY <1>1, <2>3, QueueSize
  <2> QED BY <2>1, <2>3, <2>4
<1> HIDE DEF f
<1>8. f \in Bijection(1 .. c, inqueue)
  BY <1>5, <1>6, <1>7 DEF Bijection, Injection, Surjection, IsInjective
<1>9. IsFiniteSet(1 .. c) /\ Cardinality(1 .. c) = c
  <2>1. 1 \in Int /\ c \in Int
    BY <1>1
  <2>2. IsFiniteSet(1 .. c) /\ Cardinality(1 .. c) = IF 1 > c THEN 0 ELSE c - 1 + 1
    BY <2>1, FS_Interval
  <2> QED BY <1>1, <2>2
<1>10. Cardinality(inqueue) = Cardinality(1 .. c)
  <2>1. ExistsBijection(1 .. c, inqueue)
    BY <1>8 DEF ExistsBijection
  <2> QED BY <1>9, <2>1, FS_Bijection
<1> QED BY <1>9, <1>10 DEF c

\* The header of a write in progress is the one after those that are counted.
LEMMA WrittenHeader ==
    ASSUME WaveInv, Shape
    PROVE  /\ Linked => At(w.count) \in Index /\ Written = {queue[At(w.count)].header}
           /\ ~Linked => Written = {}
<1>1. /\ w \in Waves /\ w.count \in Nat /\ w.count + Extra <= QueueCapacity
  BY QueueSize DEF WaveInv, WaveType, Sound, Waves
<1>2. ASSUME Linked PROVE At(w.count) \in Index /\ Written = {queue[At(w.count)].header}
  <2>1. w.count + 1 <= QueueCapacity
    BY <1>1, <1>2 DEF Extra
  <2>2. w.count \in Index
    BY <1>1, <2>1, QueueSize
  <2>3. At(w.count) \in Index
    BY <1>1, <2>2, Distances
  <2>4. CASE app.pc = "linked"
    <3>1. w.write = At(w.count)
      BY <2>4 DEF Shape
    <3>2. Written = {queue[i].header : i \in {At(w.count)}}
      BY <2>3, <2>4, <3>1 DEF Written
    <3> QED BY <2>3, <3>2
  <2>5. CASE app.pc = "advanced"
    <3>1. w.write = At(w.count + 1)
      BY <2>5 DEF Shape
    <3>2. (w.write - 1) % QueueCapacity = At(w.count)
      <4>1. PICK r : r = At(w.count)
        OBVIOUS
      <4>2. r \in 0 .. QueueCapacity - 1
        BY <2>3, <4>1, QueueSize
      <4>3. 1 \in 0 .. QueueCapacity - w.count /\ w.count \in 0 .. QueueCapacity
        BY <1>1, <2>1, QueueSize
      <4>4. (r + 1) % QueueCapacity = At(w.count + 1)
        BY <1>1, <4>1, <4>3, Shifted
      <4>5. PICK x : x = w.write
        OBVIOUS
      <4>6. x = IF r + 1 < QueueCapacity THEN r + 1 ELSE r + 1 - QueueCapacity
        <5>1. 1 \in 0 .. QueueCapacity
          BY QueueSize
        <5> QED BY <3>1, <4>2, <4>4, <4>5, <5>1, QueueSize, ModAdd
      <4>7. x \in 0 .. QueueCapacity - 1 /\ 1 \in 0 .. QueueCapacity - 1
        BY <4>2, <4>6, QueueSize
      <4>8. (x - 1) % QueueCapacity = IF x >= 1 THEN x - 1 ELSE x - 1 + QueueCapacity
        BY <4>7, QueueSize, ModSub
      <4>9. (x - 1) % QueueCapacity = r
        BY <4>2, <4>6, <4>7, <4>8, QueueSize
      <4> QED BY <4>1, <4>5, <4>9
    <3>3. Written = {queue[i].header : i \in {At(w.count)}}
      BY <2>3, <2>5, <3>2 DEF Written
    <3> QED BY <2>3, <3>3
  <2> QED BY <1>2, <2>4, <2>5 DEF Linked
<1>3. ASSUME ~Linked PROVE Written = {}
  BY <1>3 DEF Linked, Written
<1> QED BY <1>2, <1>3

\* QueueIsWhatIsOwed: the driver holds exactly the headers the application waits
\* for, wherever the timer preempts it, unless an abort met a write that was not
\* counted (gswsound_drv.c:176-219, 682-697).
THEOREM QueueIsKept == Spec => []QueueIsWhatIsOwed
<1>1. PcmInv /\ WaveInv => QueueIsWhatIsOwed
  <2> SUFFICES ASSUME WaveInv, Shape
               PROVE  /\ inqueue = HeadersAt(Oldest(w.count)) \cup Written
                      /\ Cardinality(inqueue) = w.count + Cardinality(Written)
    BY DEF QueueIsWhatIsOwed, WaveInv, Whole
  <2>1. w \in Waves /\ w.count \in 0 .. QueueCapacity /\ w.count \in Nat /\ w.count + Extra <= QueueCapacity
    BY QueueSize DEF WaveInv, WaveType, Sound, Waves
  <2>2. CASE ~Linked
    <3>1. Written = {} /\ Extra = 0 /\ Cardinality({}) = 0
      BY <2>2, WrittenHeader, FS_EmptySet DEF Extra
    <3>2. inqueue = HeadersAt(Oldest(w.count)) /\ Cardinality(inqueue) = w.count + 0
      BY <2>2, <3>1, CountedHeaders, OneHeaderEach
    <3> QED BY <3>1, <3>2
  <2>3. CASE Linked
    <3>1. PICK k : k = At(w.count)
      OBVIOUS
    <3>2. k \in Index /\ Written = {queue[k].header} /\ Extra = 1
      BY <2>3, <3>1, WrittenHeader DEF Extra
    <3>3. Cardinality(Written) = 1
      BY <3>2, FS_Singleton
    <3>4. w.count \in Index /\ Off(k) = w.count
      <4>1. w.count \in Index
        BY <2>1, <3>2, QueueSize
      <4> QED BY <2>1, <3>1, <4>1, Distances
    <3>5. HeadersAt(Oldest(w.count)) = {queue[i].header : i \in {j \in Index : Off(j) < w.count}} \ {NoHeader}
      BY <2>1, OldestHeaders
    <3>6. ASSUME NEW i \in Index PROVE Occupied(i) <=> Off(i) < w.count \/ i = k
      <4>1. Occupied(i) <=> Off(i) < w.count + 1
        BY <3>2 DEF Shape
      <4>2. Off(i) \in Nat /\ At(Off(i)) = i
        BY <2>1, Distances, QueueSize
      <4>3. Off(i) < w.count + 1 <=> Off(i) < w.count \/ Off(i) = w.count
        BY <2>1, <4>2
      <4>4. Off(i) = w.count <=> i = k
        BY <3>1, <3>4, <4>2
      <4> QED BY <4>1, <4>3, <4>4
    <3>7. inqueue = {queue[i].header : i \in {j \in Index : Occupied(j)}}
      BY DEF Shape
    <3>8. inqueue = HeadersAt(Oldest(w.count)) \cup Written
      BY <3>2, <3>5, <3>6, <3>7 DEF Occupied
    <3>9. Cardinality(inqueue) = w.count + 1
      BY <3>2, OneHeaderEach
    <3> QED BY <3>3, <3>8, <3>9
  <2> QED BY <2>2, <2>3
<1> QED BY <1>1, InvariantHolds, PTL


Unharmed == hurt = {}

(* Nothing is wrong with the device, the driver and the VxD agree on the   *)
(* stream and on whether it is paused, and the pump runs between the calls *)
(* of the application.                                                     *)
Healthy ==
    /\ dev.master /\ ~dev.bad /\ ~dev.irq /\ ~tr.invalid
    /\ w.open => tr.opened /\ w.stream = tr.stream /\ w.stream # 0
    /\ w.open /\ tr.paused => w.paused \/ app.pc = "pausing"
    /\ pump # "off" => app.pc = "idle" /\ ~w.paused

\* Between the two halves of a reset the VxD has forgotten what the driver knows.
Resetting == app.pc \in {"resetting", "flushing"}

(* The VxD waits with the completions that the driver waits for.           *)
Answers ==
    /\ w.open /\ ~Resetting =>
          /\ Len(tr.completions) = Len(plays)
          /\ \A i \in 1 .. Len(plays) : tr.completions[i].token = plays[i].token
    /\ Resetting => tr.completions = <<>>

(* The k-th buffer of the queue, from 0; whether a loop is open before it. *)
Extent    == w.count + Extra
Slot(k)   == queue[At(k)]
InLoop(k) == \E b \in 0 .. k - 1 :
                Slot(b).begins /\ \A x \in b .. k - 1 : ~Slot(x).ends

(* Loops do not nest, and gsw_wave knows whether the last one is open.     *)
Nested ==
    /\ \A k \in 0 .. Extent - 1 :
          /\ Slot(k).begins => ~InLoop(k)
          /\ Slot(k).ends => InLoop(k) \/ Slot(k).begins
    /\ InLoop(Extent) <=> (IF app.pc = "linked" THEN app.loopOpen ELSE w.loopOpen)

(* The play p returns the buffers from the m-th to before the n-th.        *)
Returns(p, m, n) ==
    IF p.complete THEN p.index = At(m) /\ n = m + 1
    ELSE IF p.release THEN m < n /\ p.from = At(m) /\ p.to = At(n - 1)
    ELSE n = m

(* mark[i] buffers are gone when i plays are answered; loops go back as a  *)
(* whole.  Scheduling has come to the k-th buffer; what no play returns is *)
(* the loop being played.                                                  *)
Scheduled(mark, k) ==
    /\ k \in 0 .. w.count
    /\ mark \in [0 .. Len(plays) -> 0 .. w.count]
    /\ w.sched = At(k)
    /\ mark[0] = 0
    /\ \A i, j \in 0 .. Len(plays) : i <= j => mark[i] <= mark[j]
    /\ \A i \in 0 .. Len(plays) : ~InLoop(mark[i])
    /\ \A i \in 1 .. Len(plays) : Returns(plays[i], mark[i - 1], mark[i])
    /\ LET s == mark[Len(plays)]
       IN  IF w.active
           THEN /\ s <= k /\ s < w.count
                /\ w.start = At(s) /\ Slot(s).begins
                /\ \A x \in s .. k - 1 : ~Slot(x).ends
           ELSE k = s

NoneAborted == \A h \in Headers : outcome[h] # "aborted"

\* A stream that nothing has happened to, and how far its plays have come.
Calm == PcmInv /\ WaveInv /\ Unharmed /\ Healthy /\ Answers /\ Nested

-----------------------------------------------------------------------------
(* Slots and loops.                                                        *)

\* No loop is open before the first buffer.
LEMMA OutsideAtFirst == ~InLoop(0)
BY DEF InLoop

\* Buffers that have moved n places on are in the same loops.
LEMMA LoopsMove ==
    ASSUME NEW n \in Nat, NEW e \in Nat, ~InLoop(n),
           \A x \in 0 .. e - 1 : /\ Slot(x)'.begins = Slot(n + x).begins
                                 /\ Slot(x)'.ends = Slot(n + x).ends
    PROVE  \A c \in 0 .. e : InLoop(c)' <=> InLoop(n + c)
<1> SUFFICES ASSUME NEW c \in 0 .. e PROVE InLoop(c)' <=> InLoop(n + c)
  OBVIOUS
<1>1. ASSUME InLoop(c)' PROVE InLoop(n + c)
  <2>1. PICK b \in 0 .. c - 1 : Slot(b)'.begins /\ \A x \in b .. c - 1 : ~Slot(x)'.ends
    BY <1>1 DEF InLoop
  <2>2. n + b \in 0 .. n + c - 1 /\ Slot(n + b).begins
    BY <2>1
  <2>3. \A x \in n + b .. n + c - 1 : ~Slot(x).ends
    <3> SUFFICES ASSUME NEW x \in n + b .. n + c - 1 PROVE ~Slot(x).ends
      OBVIOUS
    <3>1. x - n \in b .. c - 1 /\ n + (x - n) = x /\ x - n \in 0 .. e - 1
      OBVIOUS
    <3> QED BY <2>1, <3>1
  <2> QED BY <2>2, <2>3 DEF InLoop
<1>2. ASSUME InLoop(n + c) PROVE InLoop(c)'
  <2>1. PICK b \in 0 .. n + c - 1 : Slot(b).begins /\ \A x \in b .. n + c - 1 : ~Slot(x).ends
    BY <1>2 DEF InLoop
  <2>2. b >= n
    <3> SUFFICES ASSUME b < n PROVE FALSE
      OBVIOUS
    <3>1. b \in 0 .. n - 1 /\ \A x \in b .. n - 1 : ~Slot(x).ends
      BY <2>1
    <3> QED BY <2>1, <3>1 DEF InLoop
  <2>3. b - n \in 0 .. c - 1 /\ n + (b - n) = b /\ b - n \in 0 .. e - 1
    BY <2>2
  <2>4. Slot(b - n)'.begins
    BY <2>1, <2>3
  <2>5. \A x \in b - n .. c - 1 : ~Slot(x)'.ends
    <3> SUFFICES ASSUME NEW x \in b - n .. c - 1 PROVE ~Slot(x)'.ends
      OBVIOUS
    <3>1. n + x \in b .. n + c - 1 /\ x \in 0 .. e - 1
      BY <2>2
    <3> QED BY <2>1, <3>1
  <2> QED BY <2>3, <2>4, <2>5 DEF InLoop
<1> QED BY <1>1, <1>2

-----------------------------------------------------------------------------
(* The device in normal play.                                              *)

\* What a reset or a start leaves of the faults of a device.
LEMMA FineDevices ==
    /\ \A d : DeviceReset(d).master = d.master /\ ~DeviceReset(d).bad /\ ~DeviceReset(d).irq
    /\ Unbound.opened = FALSE /\ Unbound.invalid = FALSE /\ Unbound.paused = FALSE
BY DEF DeviceReset, Unbound

\* A stream that is programmed has no fault.
LEMMA ProgramFine ==
    ASSUME PcmInv, dev.master, NEW t \in Transports, ProgramStream(t)
    PROVE  /\ dev'.master /\ ~dev'.bad /\ ~dev'.irq /\ ~tr'.invalid /\ ~tr'.paused
           /\ tr'.opened = t.opened /\ tr'.stream = t.stream /\ tr'.completions = <<>>
           /\ sent' = <<>> /\ tr'.submitted = 0 /\ dev'.position = 0
<1>1. PICK d : d = DeviceReset(dev)
  OBVIOUS
<1>2. d \in Devices /\ d.master = dev.master /\ ~d.bad /\ ~d.irq /\ d.position = 0
  <2>1. dev \in Devices
    BY PcmParts DEF PcmInv
  <2>2. d \in Devices
    BY <1>1, <2>1, ResetDevice DEF Devices
  <2>3. d.master = dev.master /\ ~d.bad /\ ~d.irq /\ d.position = 0
    BY <1>1 DEF DeviceReset
  <2> QED BY <2>2, <2>3
<1>3. dev' = [d EXCEPT !.configured = TRUE, !.enabled = TRUE, !.gain = t.gain]
  BY <1>1 DEF ProgramStream
<1>4. tr' = [t EXCEPT !.tail = 0, !.submitted = 0, !.completions = <<>>,
                      !.invalid = FALSE, !.paused = FALSE]
  BY DEF ProgramStream
<1>5. dev'.master = d.master /\ dev'.bad = d.bad /\ dev'.irq = d.irq /\ dev'.position = d.position
  BY <1>2, <1>3 DEF Devices
<1>6. /\ ~tr'.invalid /\ ~tr'.paused /\ tr'.opened = t.opened /\ tr'.stream = t.stream
      /\ tr'.completions = <<>> /\ tr'.submitted = 0
  BY <1>4 DEF Transports
<1> QED BY <1>2, <1>5, <1>6 DEF ProgramStream

\* A submission leaves a device without fault as it is, but running.
LEMMA CommittedFine ==
    ASSUME PcmInv, tr.opened, dev.master, ~dev.bad, ~dev.irq,
           NEW a \in 1 .. RingFrames - 1, a <= RingFrames - Available(dev) - 1,
           NEW t, t = (tr.tail + a) % RingFrames
    PROVE  /\ Committed(t).master /\ ~Committed(t).bad /\ ~Committed(t).irq
           /\ Committed(t).position = dev.position
<1>1. PcmTypeOK /\ tr.tail = dev.tail /\ dev.configured /\ dev \in Devices
  BY PcmParts DEF PcmInv, RingHoldsSent
<1>2. dev.head \in Cells /\ dev.tail \in Cells
  BY <1>1 DEF Devices
<1>3. Filled(dev.head, dev.tail, Available(dev), a, t)
  BY <1>1, <1>2, SubmitCells DEF Available
<1>4. t \in Cells /\ (t - dev.tail) % RingFrames = a
  BY <1>3 DEF Filled, Cells
<1>5. CommitTail(dev, t) = [dev EXCEPT !.tail = t]
  BY <1>1, <1>4 DEF CommitTail
<1>d. PICK d : d = [CommitTail(dev, t) EXCEPT !.underrun = FALSE]
  OBVIOUS
<1>e. PICK e : e = [dev EXCEPT !.tail = t]
  OBVIOUS
<1>f. /\ e \in Devices /\ e.configured /\ e.master /\ ~e.bad /\ ~e.irq
      /\ e.position = dev.position
  BY <1>1, <1>4, <1>e DEF Devices
<1>6. /\ d \in Devices /\ d.configured /\ d.master /\ ~d.bad /\ ~d.irq
      /\ d.position = dev.position
  <2>1. d = [e EXCEPT !.underrun = FALSE]
    BY <1>5, <1>d, <1>e
  <2> QED BY <1>f, <2>1 DEF Devices
<1>7. Committed(t) = IF d.running THEN d ELSE DeviceStart(d)
  BY <1>d DEF Committed
<1>8. /\ DeviceStart(d).master /\ ~DeviceStart(d).bad /\ ~DeviceStart(d).irq
      /\ DeviceStart(d).position = dev.position
  <2>1. DeviceStart(d) = [d EXCEPT !.running = TRUE, !.bad = FALSE, !.underrun = FALSE]
    BY <1>6, Zenon DEF DeviceStart
  <2> QED BY <1>6, <2>1 DEF Devices
<1> QED BY <1>6, <1>7, <1>8

\* What the open stream of a driver without trouble answers.
LEMMA ValidStream ==
    ASSUME PcmInv, Healthy, w.open
    PROVE  Validate(w.stream) = "ok" /\ tr.opened /\ tr.bound
BY Zenon DEF PcmInv, Healthy, Validate

\* The records of the stream and the driver.
LEMMA Records ==
    ASSUME PcmInv, WaveInv
    PROVE  /\ tr \in Transports /\ dev \in Devices /\ sent \in Seq(Sources)
           /\ w \in Waves /\ queue \in [Index -> Buffers] /\ plays \in Seq(Plays)
           /\ app \in Applications
BY PcmParts, Before DEF PcmInv


\* What a buffer that enters a loop changes.
LEMMA EnteredFacts ==
    ASSUME w \in Waves, NEW b \in Buffers, NEW i \in Index, NEW v, v = Entered(b, i)
    PROVE  /\ v \in Waves
           /\ v.open = w.open /\ v.stream = w.stream /\ v.paused = w.paused
           /\ v.read = w.read /\ v.count = w.count /\ v.loopOpen = w.loopOpen
           /\ v.active <=> w.active \/ b.begins
           /\ v.start = IF b.begins /\ ~w.active THEN i ELSE w.start
           /\ v.remaining = IF b.begins /\ ~w.active THEN b.loops ELSE w.remaining
           /\ v.breakNow => w.breakNow \/ w.breakNext
           /\ v.breakNext => w.breakNext
<1>1. CASE b.begins /\ ~w.active
  <2>1. v = [w EXCEPT !.active = TRUE, !.start = i, !.remaining = b.loops,
                      !.breakNow = w.breakNext, !.breakNext = FALSE]
    BY <1>1, Zenon DEF Entered
  <2>2. v \in Waves
    BY EnteredType
  <2>3. v.breakNow = w.breakNext /\ v.breakNext = FALSE
    BY <2>1 DEF Waves
  <2> QED BY <1>1, <2>1, <2>2, <2>3 DEF Waves
<1>2. CASE ~(b.begins /\ ~w.active)
  <2>1. v = w
    BY <1>2, Zenon DEF Entered
  <2> QED BY <1>2, <2>1
<1> QED BY <1>1, <1>2

\* The three ends of a play: its loop is left, goes round, or there is none to end.
LEMMA FinishFacts ==
    ASSUME w \in Waves, NEW b \in Buffers, NEW i \in Index, w.pending < QueueCapacity,
           NEW v, v = Entered(b, i), NEW f, f = Finish(b, i)
    PROVE  /\ f.w.stream = w.stream /\ f.w.paused = w.paused /\ f.w.loopOpen = w.loopOpen
           /\ f.complete = ~v.active /\ f.from = v.start
           /\ f.w.breakNow => v.breakNow
           /\ f.w.breakNext => v.breakNext
           /\ f.release <=> v.active /\ b.ends /\ (v.breakNow \/ v.remaining <= 1)
           /\ f.release => ~f.w.active /\ f.w.sched = NextIndex(i) /\ f.w.start = v.start
           /\ v.active /\ b.ends /\ ~f.release =>
                 /\ f.w.active /\ f.w.sched = v.start /\ f.w.start = v.start
                 /\ v.remaining >= 2 /\ f.w.remaining = v.remaining - 1
           /\ ~(v.active /\ b.ends) =>
                 /\ f.w.active = v.active /\ f.w.sched = NextIndex(i) /\ f.w.start = v.start
                 /\ f.w.remaining = v.remaining
<1>2. /\ v \in Waves /\ v.stream = w.stream /\ v.paused = w.paused /\ v.loopOpen = w.loopOpen
      /\ v.pending = w.pending
  BY EnteredFacts, EnteredType
<1>3. /\ v.start \in Index /\ v.active \in BOOLEAN /\ v.breakNow \in BOOLEAN
      /\ v.remaining \in Nat /\ v.pending \in Nat /\ b.ends \in BOOLEAN
  BY <1>2, QueueSize DEF Waves, Buffers
<1> DEFINE last == v.active /\ b.ends /\ LastRound(v)
           released == [v EXCEPT !.active = FALSE, !.breakNow = FALSE,
                           !.remaining = 0, !.pending = v.pending + 1,
                           !.sched = NextIndex(i)]
           again == [v EXCEPT !.remaining = v.remaining - 1, !.sched = v.start]
           on == [v EXCEPT !.sched = NextIndex(i)]
<1>6. /\ f.release = last /\ f.complete = ~v.active /\ f.from = v.start
      /\ f.w = IF last THEN released ELSE IF v.active /\ b.ends THEN again ELSE on
  BY DEF Finish
<1>7. last <=> v.active /\ b.ends /\ (v.breakNow \/ v.remaining <= 1)
  BY DEF LastRound
<1>8. CASE last
  <2>1. f.w = released
    BY <1>6, <1>8
  <2>2. /\ released.stream = v.stream /\ released.paused = v.paused /\ released.loopOpen = v.loopOpen
        /\ ~released.active /\ released.sched = NextIndex(i) /\ released.start = v.start
        /\ ~released.breakNow /\ released.breakNext = v.breakNext
    BY <1>2 DEF Waves
  <2> HIDE DEF released, last
  <2> QED BY <1>2, <1>6, <1>7, <1>8, <2>1, <2>2
<1>9. CASE ~last /\ v.active /\ b.ends
  <2>1. f.w = again
    BY <1>6, <1>9
  <2>2. v.remaining >= 2
    BY <1>3, <1>7, <1>9
  <2>3. /\ again.stream = v.stream /\ again.paused = v.paused /\ again.loopOpen = v.loopOpen
        /\ again.active = v.active /\ again.sched = v.start /\ again.start = v.start
        /\ again.remaining = v.remaining - 1
        /\ again.breakNow = v.breakNow /\ again.breakNext = v.breakNext
    BY <1>2 DEF Waves
  <2> HIDE DEF again, last
  <2> QED BY <1>2, <1>6, <1>7, <1>9, <2>1, <2>2, <2>3
<1>10. CASE ~last /\ ~(v.active /\ b.ends)
  <2>1. f.w = on
    BY <1>6, <1>10
  <2>3. /\ on.stream = v.stream /\ on.paused = v.paused /\ on.loopOpen = v.loopOpen
        /\ on.active = v.active /\ on.sched = NextIndex(i) /\ on.start = v.start
        /\ on.remaining = v.remaining
        /\ on.breakNow = v.breakNow /\ on.breakNext = v.breakNext
    BY <1>2 DEF Waves
  <2> HIDE DEF on, last
  <2> QED BY <1>2, <1>6, <1>7, <1>10, <2>1, <2>3
<1> QED BY <1>8, <1>9, <1>10

\* Everything a step of the pump that submits a chunk of the buffer b does.
Chunked(b, a, f, done) ==
    /\ b = queue[w.sched] /\ b \in Buffers /\ b.header \in Sources
    /\ w.open /\ app' = app /\ pump = "submit"
    /\ w.sched \in Index /\ w.pending < QueueCapacity
    /\ b.submitted \in Nat /\ b.size \in Nat /\ b.submitted < b.size
    /\ a \in 1 .. RingFrames - 1 /\ a <= RingFrames - Available(dev) - 1
    /\ b.submitted + a <= b.size
    /\ done \in BOOLEAN /\ (done <=> b.submitted + a = b.size)
    /\ f = Finish(b, w.sched) /\ f.w \in Waves
    /\ f.w.read = w.read /\ f.w.write = w.write /\ f.w.count = w.count /\ f.w.open = w.open
    /\ done => f.ok
    /\ w' = IF done THEN [f.w EXCEPT !.nextToken = Numbered.nextToken] ELSE Numbered
    /\ queue' = [queue EXCEPT ![w.sched].submitted = IF done THEN 0 ELSE b.submitted + a,
                              ![w.sched].token = IF done THEN 0 ELSE Token]
    /\ plays' = IF done
                THEN Append(plays, [token |-> Token, index |-> w.sched,
                               complete |-> f.complete, release |-> f.release,
                               from |-> f.from, to |-> w.sched])
                ELSE plays
    /\ tr' = [tr EXCEPT !.tail = (tr.tail + a) % RingFrames, !.submitted = tr.submitted + a,
                        !.completions = IF done
                            THEN Append(tr.completions, [token |-> Token, target |-> tr.submitted + a])
                            ELSE tr.completions]
    /\ dev' = Committed((tr.tail + a) % RingFrames)
    /\ sent' = sent \o [i \in 1 .. a |-> b.header]
    /\ Token \in 1 .. TokenLimit - 1
    /\ hurt' = hurt \cup Laps
    /\ Len(plays) < QueueCapacity

\* The end of a buffer is recorded when, and only when, the buffer is done.
LEMMA ChunkedFacts ==
    ASSUME PcmInv, WaveInv, SubmitChunk
    PROVE  \E b, a, f, done : Chunked(b, a, f, done)
<1>1. PICK a : a = Accepted(Chunk)
  OBVIOUS
<1>2. PICK b : b = NextBuffer
  OBVIOUS
<1>3. PICK f : f = Finish(b, w.sched)
  OBVIOUS
<1>4. PICK done : done = (b.submitted + a = b.size)
  OBVIOUS
<1>5. /\ MaySubmit /\ Submits = "ok"
      /\ PmSubmit(w.stream, b.header, Chunk, AtEnd, Token)
      /\ done => f.ok
      /\ w' = (IF done THEN [f.w EXCEPT !.nextToken = Numbered.nextToken] ELSE Numbered)
      /\ plays' = IF done
                THEN Append(plays, [token |-> Token, index |-> w.sched,
                               complete |-> f.complete, release |-> f.release,
                               from |-> f.from, to |-> w.sched])
                ELSE plays
      /\ hurt' = hurt \cup Laps
      /\ app' = app
  BY <1>1, <1>2, <1>3, <1>4 DEF SubmitChunk
<1>6. queue' = [queue EXCEPT ![w.sched].submitted = IF done THEN 0 ELSE @ + a,
                             ![w.sched].token = IF done THEN 0 ELSE Token]
  BY <1>1, <1>2, <1>3, <1>4 DEF SubmitChunk
<1>7. w \in Waves /\ w.sched \in Index /\ queue \in [Index -> Buffers] /\ plays \in Seq(Plays)
  BY Before DEF Waves
<1>8. queue' = [queue EXCEPT ![w.sched].submitted = IF done THEN 0 ELSE b.submitted + a,
                             ![w.sched].token = IF done THEN 0 ELSE Token]
  BY <1>2, <1>6, <1>7 DEF NextBuffer
<1>9. /\ b \in Buffers /\ b.header \in Sources /\ b.submitted < b.size
      /\ b.submitted + a <= b.size /\ Chunk \in Nat \ {0} /\ a \in Nat \ {0}
      /\ b = queue[w.sched]
  BY <1>1, <1>2, <1>5, ChunkFits DEF NextBuffer
<1>10. b.submitted \in Nat /\ b.size \in Nat
  BY <1>9, QueueSize DEF Buffers
<1>11. /\ w.open /\ pump = "submit" /\ Len(plays) < QueueCapacity
  BY <1>5, Before DEF MaySubmit
<1>12. w.pending < QueueCapacity
  <2>1. w.pending \in 0 .. Len(plays) /\ Len(plays) \in Nat
    BY <1>7, Before, ReleasesBound
  <2> QED BY <1>11, <2>1, QueueSize
<1>13. /\ f.w \in Waves /\ f.w.read = w.read /\ f.w.write = w.write
       /\ f.w.count = w.count /\ f.w.open = w.open
  BY <1>3, <1>7, <1>9, <1>12, FinishType
<1>14. Token \in 1 .. TokenLimit - 1
  BY <1>2, <1>9, TokenType
<1>15. tr.opened /\ Accepted(Chunk) # 0
  BY <1>5, SubmitOk, ValidMeansOpen, Zenon DEF Submits
<1>16. a \in 1 .. RingFrames - 1 /\ a <= RingFrames - Available(dev) - 1 /\ a <= Chunk
  BY <1>1, <1>9, <1>15, AcceptedRoom
<1>17. (AtEnd /\ a = Chunk) <=> done
  <2>1. Remaining = b.size - b.submitted /\ Remaining \in Int
    BY <1>2, <1>10 DEF Remaining
  <2>2. Chunk = IF Remaining <= MaxSubmit THEN Remaining ELSE MaxSubmit
    BY <2>1, MinOfTwo, QueueSize DEF Chunk
  <2>3. PICK r, c, x, y : r = Remaining /\ c = Chunk /\ x = b.submitted /\ y = b.size
    OBVIOUS
  <2>4. r = y - x /\ (c = IF r <= MaxSubmit THEN r ELSE MaxSubmit) /\ x \in Nat /\ y \in Nat /\ a \in Nat
        /\ x + a <= y /\ a <= c /\ r \in Int
    BY <1>9, <1>10, <1>16, <2>1, <2>2, <2>3
  <2>5. (c = r /\ a = c) <=> x + a = y
    BY <2>4, QueueSize
  <2> QED BY <1>4, <2>3, <2>5 DEF AtEnd
<1>18. Recorded(Chunk, AtEnd, Token)
         = IF done THEN Append(tr.completions, [token |-> Token, target |-> tr.submitted + a])
           ELSE tr.completions
  <2>1. CASE done
    <3>1. AtEnd /\ Accepted(Chunk) = Chunk /\ a = Chunk
      BY <1>1, <1>17, <2>1
    <3> QED BY <2>1, <3>1, Zenon DEF Recorded
  <2>2. CASE ~done
    <3>1. ~(AtEnd /\ Accepted(Chunk) = Chunk)
      BY <1>1, <1>17, <2>2
    <3> QED BY <2>2, <3>1, Zenon DEF Recorded
  <2> QED BY <2>1, <2>2
<1>19. /\ tr' = [tr EXCEPT !.tail = (tr.tail + a) % RingFrames, !.submitted = tr.submitted + a,
                           !.completions = Recorded(Chunk, AtEnd, Token)]
       /\ dev' = Committed((tr.tail + a) % RingFrames)
       /\ sent' = sent \o [i \in 1 .. a |-> b.header]
  BY <1>1, <1>5 DEF PmSubmit
<1>20. tr' = [tr EXCEPT !.tail = (tr.tail + a) % RingFrames, !.submitted = tr.submitted + a,
                        !.completions = IF done
                            THEN Append(tr.completions, [token |-> Token, target |-> tr.submitted + a])
                            ELSE tr.completions]
  BY <1>18, <1>19, Zenon
<1>21. done \in BOOLEAN /\ (done <=> b.submitted + a = b.size)
  BY <1>4
<1>22. Chunked(b, a, f, done)
  BY <1>3, <1>5, <1>7, <1>8, <1>9, <1>10, <1>11, <1>12, <1>13, <1>14, <1>16, <1>19, <1>20, <1>21, Zenon DEF Chunked
<1> QED BY <1>22

\* Nothing goes wrong in a step that harms nothing, but for an abort.
LEMMA HealthyPump ==
    ASSUME Calm, Unharmed', Timer \/ PollNothing \/ PollCompletes \/ SubmitChunk \/ SubmitEnds
    PROVE  Healthy'
<1>0. PcmInv /\ WaveInv /\ Healthy /\ hurt = {} /\ hurt' = {}
  BY DEF Calm, Unharmed
<1>r. /\ tr \in Transports /\ dev \in Devices /\ w \in Waves /\ app \in Applications
  BY <1>0, Records
<1>1. CASE Timer
  <2>1. app.pc = "idle"
    BY <1>0, <1>1 DEF Timer, Fault
  <2>2. tr' = tr /\ dev' = dev /\ w' = w /\ app' = app /\ ~w.paused
    BY <1>1 DEF Timer, MayPump
  <2> QED BY <1>0, <2>1, <2>2 DEF Healthy
<1>2. CASE PollNothing
  <2>1. tr' = tr /\ dev' = dev /\ w' = w /\ app' = app /\ pump # "off"
    BY <1>2 DEF PollNothing
  <2> QED BY <1>0, <2>1 DEF Healthy
<1>3. CASE PollCompletes
  <2>1. PICK n, v : /\ v = [w EXCEPT !.pending = IF Head(plays).release THEN w.pending - 1 ELSE w.pending]
                    /\ n = Completes(Head(plays)) /\ w' = (IF n = 0 THEN w ELSE Pop(v, n))
    BY <1>3 DEF PollCompletes
  <2>2. /\ tr' = [tr EXCEPT !.completions = Tail(tr.completions)] /\ dev' = dev
        /\ app' = app /\ pump' = pump /\ pump # "off"
    BY <1>3 DEF PollCompletes, PmPoll
  <2>3. tr'.opened = tr.opened /\ tr'.stream = tr.stream /\ tr'.paused = tr.paused /\ tr'.invalid = tr.invalid
    BY <1>r, <2>2 DEF Transports
  <2>4. w'.open = w.open /\ w'.stream = w.stream /\ w'.paused = w.paused
    <3>1. v.open = w.open /\ v.stream = w.stream /\ v.paused = w.paused
      BY <1>r, <2>1 DEF Waves
    <3>2. PICK u : u = [v EXCEPT !.read = (v.read + n) % QueueCapacity, !.count = v.count - n]
      OBVIOUS
    <3>3. u.open = v.open /\ u.stream = v.stream /\ u.paused = v.paused
      BY <1>r, <2>1, <3>2 DEF Waves
    <3>4. PICK y : y = [u EXCEPT !.sched = u.write]
      OBVIOUS
    <3>5. y.open = u.open /\ y.stream = u.stream /\ y.paused = u.paused
      BY <1>r, <2>1, <3>2, <3>4 DEF Waves
    <3>6. Pop(v, n) = u \/ Pop(v, n) = y
      BY <3>2, <3>4, Zenon DEF Pop
    <3> QED BY <2>1, <3>1, <3>3, <3>5, <3>6
  <2> QED BY <1>0, <2>2, <2>3, <2>4 DEF Healthy
<1>4. CASE SubmitChunk
  <2>1. PICK b, a, f, done : Chunked(b, a, f, done)
    BY <1>0, <1>4, ChunkedFacts
  <2>2. tr.opened
    BY <1>0, <2>1 DEF Healthy, Chunked
  <2>3. dev'.master /\ ~dev'.bad /\ ~dev'.irq
    BY <1>0, <2>1, <2>2, CommittedFine DEF Healthy, Chunked
  <2>4. tr'.opened = tr.opened /\ tr'.stream = tr.stream /\ tr'.paused = tr.paused /\ tr'.invalid = tr.invalid
    BY <1>r, <2>1 DEF Transports, Chunked
  <2>5. w'.open = w.open /\ w'.stream = w.stream /\ w'.paused = w.paused
    <3>1. f.w.stream = w.stream /\ f.w.paused = w.paused /\ f.w.open = w.open /\ f.w \in Waves
      BY <1>r, <2>1, FinishFacts DEF Chunked
    <3>2. Numbered.open = w.open /\ Numbered.stream = w.stream /\ Numbered.paused = w.paused
      BY <1>r DEF Numbered, Waves
    <3>3. w' = [f.w EXCEPT !.nextToken = Numbered.nextToken] \/ w' = Numbered
      BY <2>1 DEF Chunked
    <3> QED BY <3>1, <3>2, <3>3 DEF Waves
  <2> QED BY <1>0, <2>1, <2>3, <2>4, <2>5 DEF Healthy, Chunked
<1>5. CASE SubmitEnds
  <2>1. tr' = tr /\ dev' = dev /\ app' = app /\ pump' = "off" /\ (w' = Numbered \/ w' = w)
    BY <1>5 DEF SubmitEnds
  <2>2. w'.open = w.open /\ w'.stream = w.stream /\ w'.paused = w.paused
    BY <1>r, <2>1 DEF Numbered, Waves
  <2> QED BY <1>0, <2>1, <2>2 DEF Healthy
<1> QED BY <1>1, <1>2, <1>3, <1>4, <1>5

\* gsw_complete_all leaves the stream alone, and a queue without loops.
LEMMA EmptiedFacts ==
    ASSUME NEW v \in Waves, NEW u, u = Emptied(v)
    PROVE  /\ u.open = v.open /\ u.stream = v.stream /\ u.paused = v.paused
           /\ u.read = 0 /\ u.write = 0 /\ u.count = 0 /\ u.sched = 0
           /\ ~u.loopOpen /\ ~u.active /\ ~u.breakNow /\ ~u.breakNext
<1>1. PICK x : x = [v EXCEPT !.read = 0, !.write = 0, !.count = 0, !.sched = 0]
  OBVIOUS
<1>2. PICK y : y = [x EXCEPT !.loopOpen = FALSE, !.active = FALSE, !.breakNow = FALSE,
                             !.breakNext = FALSE]
  OBVIOUS
<1>3. u = [y EXCEPT !.start = 0, !.pending = 0, !.remaining = 0]
  BY <1>1, <1>2 DEF Emptied, Waves
<1>4. /\ x.open = v.open /\ x.stream = v.stream /\ x.paused = v.paused
      /\ x.read = 0 /\ x.write = 0 /\ x.count = 0 /\ x.sched = 0
  BY <1>1 DEF Waves
<1>5. /\ y.open = x.open /\ y.stream = x.stream /\ y.paused = x.paused
      /\ y.read = x.read /\ y.write = x.write /\ y.count = x.count /\ y.sched = x.sched
      /\ ~y.loopOpen /\ ~y.active /\ ~y.breakNow /\ ~y.breakNext
  BY <1>1, <1>2 DEF Waves
<1>6. /\ u.open = y.open /\ u.stream = y.stream /\ u.paused = y.paused
      /\ u.read = y.read /\ u.write = y.write /\ u.count = y.count /\ u.sched = y.sched
      /\ u.loopOpen = y.loopOpen /\ u.active = y.active /\ u.breakNow = y.breakNow
      /\ u.breakNext = y.breakNext
  BY <1>1, <1>2, <1>3 DEF Waves
<1> QED BY <1>4, <1>5, <1>6

\* gsw_open, gsw_close and the two halves of a write leave a healthy stream, or none.
LEMMA HealthyCalls ==
    ASSUME Calm, Unharmed',
           \/ Open \/ OpenFails \/ Close \/ WriteAdvances \/ WriteCounts
           \/ \E h, n, begins, ends, loops : Write(h, n, begins, ends, loops)
    PROVE  Healthy'
<1>0. PcmInv /\ WaveInv /\ Healthy
  BY DEF Calm
<1>r. /\ tr \in Transports /\ dev \in Devices /\ w \in Waves /\ app \in Applications
  BY <1>0, Records
<1>1. CASE Open
  <2>1. PICK t : t = [tr EXCEPT !.opened = TRUE, !.stream = NextStream]
    OBVIOUS
  <2>2. NextStream \in Nat /\ NextStream # 0
    BY <1>r DEF NextStream, Transports
  <2>3. t \in Transports /\ t.opened /\ t.stream = NextStream
    BY <1>r, <2>1, <2>2 DEF Transports
  <2>4. ProgramStream(t)
    BY <1>1, <2>1 DEF Open, PmOpen
  <2>5. /\ dev'.master /\ ~dev'.bad /\ ~dev'.irq /\ ~tr'.invalid /\ ~tr'.paused
        /\ tr'.opened = t.opened /\ tr'.stream = t.stream
    BY <1>0, <2>3, <2>4, ProgramFine DEF Healthy
  <2>6. /\ w' = [Closed EXCEPT !.open = TRUE, !.stream = NextStream, !.nextToken = 1]
        /\ app' = app /\ pump' = pump /\ pump = "off"
    BY <1>1 DEF Open, Calling
  <2>7. w'.open /\ w'.stream = NextStream
    BY <2>6 DEF Closed
  <2> QED BY <2>2, <2>3, <2>5, <2>6, <2>7 DEF Healthy
<1>2. CASE OpenFails
  <2>1. /\ tr' = [tr EXCEPT !.stream = NextStream, !.tail = 0, !.submitted = 0,
                            !.completions = <<>>, !.invalid = FALSE, !.paused = FALSE]
        /\ dev' = DeviceReset(dev) /\ w' = Closed /\ pump' = pump /\ pump = "off"
    BY <1>2 DEF OpenFails, Calling
  <2>2. ~tr'.invalid
    BY <1>r, <2>1 DEF Transports
  <2>3. ~w'.open
    BY <2>1 DEF Closed
  <2> QED BY <1>0, <2>1, <2>2, <2>3, FineDevices DEF Healthy
<1>3. CASE Close
  <2>1. PmClose(w.stream) /\ w' = Closed /\ pump' = pump /\ pump = "off"
    BY <1>0, <1>3, ValidStream DEF Close, Calling
  <2>2. /\ tr' = [tr EXCEPT !.opened = FALSE, !.paused = FALSE, !.completions = <<>>]
        /\ dev' = DeviceReset(dev)
    BY <2>1 DEF PmClose
  <2>3. tr'.invalid = tr.invalid
    BY <1>r, <2>2 DEF Transports
  <2>4. ~w'.open
    BY <2>1 DEF Closed
  <2> QED BY <1>0, <2>1, <2>2, <2>3, <2>4, FineDevices DEF Healthy
<1>4. CASE \E h, n, begins, ends, loops : Write(h, n, begins, ends, loops)
  <2> PICK h, n, begins, ends, loops : Write(h, n, begins, ends, loops)
    BY <1>4
  <2>1. /\ tr' = tr /\ dev' = dev /\ pump' = pump /\ pump = "off" /\ app.pc = "idle"
        /\ w' = [w EXCEPT !.read = w.write, !.sched = w.write] \/ w' = w
    BY Zenon DEF Write, Calling
  <2>2. w'.open = w.open /\ w'.stream = w.stream /\ w'.paused = w.paused
    BY <1>r, <2>1 DEF Waves
  <2> QED BY <1>0, <2>1, <2>2 DEF Healthy
<1>5. CASE WriteAdvances
  <2>1. /\ tr' = tr /\ dev' = dev /\ pump' = pump /\ pump = "off" /\ app.pc = "linked"
        /\ w' = [w EXCEPT !.loopOpen = app.loopOpen, !.write = NextIndex(w.write)]
    BY <1>5 DEF WriteAdvances, Resuming
  <2>2. w'.open = w.open /\ w'.stream = w.stream /\ w'.paused = w.paused
    BY <1>r, <2>1 DEF Waves
  <2> QED BY <1>0, <2>1, <2>2 DEF Healthy
<1>6. CASE WriteCounts
  <2>1. /\ tr' = tr /\ dev' = dev /\ app.pc = "advanced" /\ app' = Idle
        /\ pump' = (IF w.paused THEN "off" ELSE "poll")
        /\ w' = [w EXCEPT !.count = w.count + 1]
    BY <1>6 DEF WriteCounts, Resuming
  <2>2. w'.open = w.open /\ w'.stream = w.stream /\ w'.paused = w.paused
    BY <1>r, <2>1 DEF Waves
  <2> QED BY <1>0, <2>1, <2>2, IdleType DEF Healthy
<1> QED BY <1>1, <1>2, <1>3, <1>4, <1>5, <1>6

\* Pauses, restarts, resets and breaks of loops.
LEMMA HealthyControls ==
    ASSUME Calm, Unharmed',
           \/ Pause \/ Pauses \/ Restart \/ Reset \/ ResetCollects \/ ResetFlushes \/ BreakLoop
    PROVE  Healthy'
<1>0. PcmInv /\ WaveInv /\ Healthy
  BY DEF Calm
<1>r. /\ tr \in Transports /\ dev \in Devices /\ w \in Waves /\ app \in Applications
  BY <1>0, Records
<1>1. CASE Pause
  <2>1. /\ tr' = [tr EXCEPT !.paused = TRUE] /\ dev' = (IF tr.paused THEN dev ELSE DeviceStop(dev))
        /\ w' = w /\ pump' = pump /\ pump = "off" /\ app'.pc = "pausing"
    BY <1>1 DEF Pause, PmPause, Calling, Idle
  <2>2. /\ tr'.opened = tr.opened /\ tr'.stream = tr.stream /\ tr'.invalid = tr.invalid
    BY <1>r, <2>1 DEF Transports
  <2>3. dev'.master = dev.master /\ dev'.bad = dev.bad /\ dev'.irq = dev.irq
    <3>1. DeviceStop(dev).master = dev.master /\ DeviceStop(dev).bad = dev.bad /\ DeviceStop(dev).irq = dev.irq
      BY <1>r DEF DeviceStop, Devices
    <3> QED BY <2>1, <3>1
  <2> QED BY <1>0, <2>1, <2>2, <2>3 DEF Healthy
<1>2. CASE Pauses
  <2>1. /\ tr' = tr /\ dev' = dev /\ w' = [w EXCEPT !.paused = TRUE] /\ pump' = pump /\ pump = "off"
    BY <1>2 DEF Pauses, Resuming
  <2>2. w'.open = w.open /\ w'.stream = w.stream /\ w'.paused
    BY <1>r, <2>1 DEF Waves
  <2> QED BY <1>0, <2>1, <2>2 DEF Healthy
<1>3. CASE Restart
  <2>1. /\ tr' = [tr EXCEPT !.paused = FALSE] /\ dev' = (IF tr.paused THEN DeviceStart(dev) ELSE dev)
        /\ w.open /\ w' = [w EXCEPT !.paused = FALSE] /\ pump' = pump /\ pump = "off" /\ app' = app
    BY <1>3 DEF Restart, PmRestart, Calling
  <2>2. /\ tr'.opened = tr.opened /\ tr'.stream = tr.stream /\ tr'.invalid = tr.invalid /\ ~tr'.paused
    BY <1>r, <2>1 DEF Transports
  <2>3. dev.configured
    BY <1>0, <2>1, ValidStream DEF PcmInv
  <2>4. DeviceStart(dev) = [dev EXCEPT !.running = TRUE, !.bad = FALSE, !.underrun = FALSE]
    BY <1>0, <2>3, Zenon DEF DeviceStart, Healthy
  <2>5. dev'.master /\ ~dev'.bad /\ ~dev'.irq
    <3>1. DeviceStart(dev).master /\ ~DeviceStart(dev).bad /\ ~DeviceStart(dev).irq
      BY <1>0, <1>r, <2>4 DEF Devices, Healthy
    <3> QED BY <1>0, <2>1, <3>1 DEF Healthy
  <2>6. w'.open = w.open /\ w'.stream = w.stream
    BY <1>r, <2>1 DEF Waves
  <2> QED BY <1>0, <2>1, <2>2, <2>5, <2>6 DEF Healthy
<1>4. CASE Reset
  <2>1. /\ PmReset(w.stream) /\ w' = [w EXCEPT !.paused = FALSE] /\ w.open /\ pump' = pump /\ pump = "off"
    BY <1>0, <1>4, ValidStream DEF Reset, Calling
  <2>2. /\ dev'.master /\ ~dev'.bad /\ ~dev'.irq /\ ~tr'.invalid /\ ~tr'.paused
        /\ tr'.opened = tr.opened /\ tr'.stream = tr.stream
    BY <1>0, <1>r, <2>1, ProgramFine DEF Healthy, PmReset
  <2>3. w'.open = w.open /\ w'.stream = w.stream
    BY <1>r, <2>1 DEF Waves
  <2> QED BY <1>0, <2>1, <2>2, <2>3 DEF Healthy
<1>5. CASE ResetCollects
  <2>1. tr' = tr /\ dev' = dev /\ w' = w /\ pump' = pump /\ pump = "off" /\ app.pc = "resetting"
    BY <1>5 DEF ResetCollects, Resuming
  <2> QED BY <1>0, <2>1 DEF Healthy
<1>6. CASE ResetFlushes
  <2>1. tr' = tr /\ dev' = dev /\ w' = Emptied(w) /\ pump' = pump /\ pump = "off" /\ app.pc = "flushing"
    BY <1>6 DEF ResetFlushes, Resuming
  <2>2. w'.open = w.open /\ w'.stream = w.stream /\ w'.paused = w.paused
    BY <1>r, <2>1, EmptiedFacts
  <2> QED BY <1>0, <2>1, <2>2 DEF Healthy
<1>7. CASE BreakLoop
  <2>1. /\ tr' = tr /\ dev' = dev /\ pump' = pump /\ pump = "off" /\ app' = app
        /\ w' = [w EXCEPT !.breakNow = TRUE] \/ w' = [w EXCEPT !.breakNext = TRUE] \/ w' = w
    BY <1>7 DEF BreakLoop, Calling
  <2>2. w'.open = w.open /\ w'.stream = w.stream /\ w'.paused = w.paused
    BY <1>r, <2>1 DEF Waves
  <2> QED BY <1>0, <2>1, <2>2 DEF Healthy
<1> QED BY <1>1, <1>2, <1>3, <1>4, <1>5, <1>6, <1>7

\* The device plays on; what could harm it is a harm.
LEMMA HealthyDevice ==
    ASSUME Calm, Unharmed',
           \/ Pull \/ Interrupt \/ LoseBusMaster \/ GetBusMaster \/ Plug
           \/ \E forget \in BOOLEAN : Unplug(forget)
    PROVE  Healthy'
<1>0. PcmInv /\ WaveInv /\ Healthy /\ hurt' = {}
  BY DEF Calm, Unharmed
<1>r. /\ tr \in Transports /\ dev \in Devices /\ w \in Waves /\ app \in Applications
  BY <1>0, Records
<1>1. CASE Pull
  <2>1. /\ tr' = tr /\ w' = w /\ app' = app /\ pump' = pump
        /\ \/ dev' = [dev EXCEPT !.head = (dev.head + 1) % RingFrames, !.position = dev.position + 1]
           \/ dev' = [dev EXCEPT !.underrun = TRUE]
    BY <1>1 DEF Pull, PcmPull
  <2>2. dev'.master = dev.master /\ dev'.bad = dev.bad /\ dev'.irq = dev.irq
    BY <1>r, <2>1 DEF Devices
  <2> QED BY <1>0, <2>1, <2>2 DEF Healthy
<1>2. CASE Interrupt
  BY <1>0, <1>2 DEF Interrupt, PcmInterrupt, Healthy
<1>3. CASE LoseBusMaster
  BY <1>0, <1>3 DEF LoseBusMaster, Fault
<1>4. CASE GetBusMaster
  BY <1>0, <1>4 DEF GetBusMaster, Healthy
<1>5. CASE Plug
  <2>1. w' = w /\ app' = app /\ pump' = pump
    BY <1>5 DEF Plug, waveVars
  <2>2. CASE tr' = tr /\ dev' = dev
    BY <1>0, <2>1, <2>2 DEF Healthy
  <2>3. CASE ~(tr' = tr /\ dev' = dev)
    <3>1. ~tr.bound /\ tr' = [Unbound EXCEPT !.bound = TRUE] /\ dev' = DeviceReset(dev)
      BY <1>5, <2>3 DEF Plug, PnpRegister, PnpStart
    <3>2. ~w.open
      BY <1>0, <3>1, ValidStream
    <3>3. ~tr'.invalid
      BY <3>1 DEF Unbound
    <3> QED BY <1>0, <2>1, <3>1, <3>2, <3>3, FineDevices DEF Healthy
  <2> QED BY <2>2, <2>3
<1>6. ASSUME NEW forget \in BOOLEAN, Unplug(forget) PROVE Healthy'
  BY <1>0, <1>6 DEF Unplug, Fault
<1> QED BY <1>1, <1>2, <1>3, <1>4, <1>5, <1>6


\* The slots of a driver without trouble.
LEMMA Basics ==
    ASSUME Calm
    PROVE  /\ PcmInv /\ WaveInv /\ Healthy /\ Answers /\ Nested /\ hurt = {} /\ Shape
           /\ w \in Waves /\ w.count \in 0 .. QueueCapacity /\ w.count \in Nat
           /\ Extra \in {0, 1} /\ Extent = w.count + Extra /\ Extent \in 0 .. QueueCapacity
           /\ QueueCapacity \in Nat /\ Index = 0 .. QueueCapacity - 1 /\ QueueCapacity >= 2
<1>1. PcmInv /\ WaveInv /\ Healthy /\ Answers /\ Nested /\ hurt = {}
  BY DEF Calm, Unharmed
<1>2. Shape
  BY <1>1 DEF WaveInv, Whole
<1>3. w \in Waves /\ w.count + Extra <= QueueCapacity
  BY <1>1 DEF WaveInv, WaveType, Sound
<1>4. w.count \in 0 .. QueueCapacity
  BY <1>3 DEF Waves
<1>5. Extra \in {0, 1} /\ Extent = w.count + Extra
  BY DEF Extra, Extent
<1> QED BY <1>1, <1>2, <1>3, <1>4, <1>5, QueueSize

\* Which slots are taken, and where the next one is.
LEMMA Slots ==
    ASSUME Calm
    PROVE  /\ \A x \in Index : At(x) \in Index /\ Off(At(x)) = x /\ Slot(x) \in Buffers
           /\ \A i \in Index : Off(i) \in Index /\ At(Off(i)) = i
           /\ At(0) = w.read /\ At(QueueCapacity) = w.read
           /\ \A x \in Index : Slot(x).header # NoHeader <=> x < Extent
           /\ \A x \in Index : NextIndex(At(x)) = At(x + 1)
<1>1. w \in Waves /\ Shape /\ queue \in [Index -> Buffers]
  BY Basics, Before
<1>2. /\ \A x \in Index : At(x) \in Index /\ Off(At(x)) = x
      /\ \A i \in Index : Off(i) \in Index /\ At(Off(i)) = i
      /\ At(0) = w.read /\ At(QueueCapacity) = w.read
  BY <1>1, Distances
<1>3. \A x \in Index : Slot(x) \in Buffers
  BY <1>1, <1>2 DEF Slot
<1>4. \A x \in Index : Slot(x).header # NoHeader <=> x < Extent
  BY <1>1, <1>2 DEF Shape, Occupied, Slot, Extent
<1>5. ASSUME NEW x \in Index PROVE NextIndex(At(x)) = At(x + 1)
  <2>1. x \in 0 .. QueueCapacity /\ 1 \in 0 .. QueueCapacity - x
    BY QueueSize
  <2>2. PICK r : r = At(x)
    OBVIOUS
  <2>3. (r + 1) % QueueCapacity = At(x + 1)
    BY <1>1, <2>1, <2>2, Shifted
  <2> QED BY <2>2, <2>3 DEF NextIndex
<1> QED BY <1>2, <1>3, <1>4, <1>5

\* A loop is open after a buffer that begins it, or is in it, and does not end it.
LEMMA LoopStep ==
    ASSUME NEW c \in Nat
    PROVE  InLoop(c + 1) <=> (InLoop(c) \/ Slot(c).begins) /\ ~Slot(c).ends
<1>1. ASSUME InLoop(c + 1) PROVE (InLoop(c) \/ Slot(c).begins) /\ ~Slot(c).ends
  <2>1. PICK b \in 0 .. c : Slot(b).begins /\ \A x \in b .. c : ~Slot(x).ends
    <3>1. (c + 1) - 1 = c
      OBVIOUS
    <3> QED BY <1>1, <3>1 DEF InLoop
  <2>2. CASE b = c
    BY <2>1, <2>2
  <2>3. CASE b # c
    <3>1. b \in 0 .. c - 1 /\ \A x \in b .. c - 1 : ~Slot(x).ends
      BY <2>1, <2>3
    <3>2. ~Slot(c).ends
      BY <2>1
    <3> QED BY <2>1, <3>1, <3>2 DEF InLoop
  <2> QED BY <2>2, <2>3
<1>2. ASSUME Slot(c).begins, ~Slot(c).ends PROVE InLoop(c + 1)
  <2>1. c \in 0 .. (c + 1) - 1 /\ \A x \in c .. (c + 1) - 1 : x = c
    OBVIOUS
  <2> QED BY <1>2, <2>1 DEF InLoop
<1>3. ASSUME InLoop(c), ~Slot(c).ends PROVE InLoop(c + 1)
  <2>1. PICK b \in 0 .. c - 1 : Slot(b).begins /\ \A x \in b .. c - 1 : ~Slot(x).ends
    BY <1>3 DEF InLoop
  <2>2. b \in 0 .. (c + 1) - 1 /\ \A x \in b .. (c + 1) - 1 : x \in b .. c - 1 \/ x = c
    BY <2>1
  <2> QED BY <1>3, <2>1, <2>2 DEF InLoop
<1> QED BY <1>1, <1>2, <1>3

\* A play returns what lies between its marks.
LEMMA CompletesMark ==
    ASSUME Calm, ~Linked, plays # <<>>, NEW k, NEW mark, Scheduled(mark, k)
    PROVE  Completes(Head(plays)) = mark[1] /\ mark[1] \in 0 .. w.count
<1>1. PICK p : p = Head(plays)
  OBVIOUS
<1>2. PICK m : m = mark[1]
  OBVIOUS
<1>3. plays \in Seq(Plays) /\ p = plays[1] /\ p \in Plays /\ 1 \in 1 .. Len(plays) /\ 1 \in 0 .. Len(plays)
  BY <1>1, Basics, Before
<1>4. m \in 0 .. w.count /\ Returns(p, 0, m) /\ m \in Nat
  <2>1. m \in 0 .. w.count
    BY <1>2, <1>3 DEF Scheduled
  <2>2. Returns(plays[1], mark[1 - 1], mark[1]) /\ mark[0] = 0
    BY <1>3 DEF Scheduled
  <2> QED BY <1>2, <1>3, <2>1, <2>2, Basics
<1>5. Extent = w.count /\ w.count \in Nat /\ w.count <= QueueCapacity /\ 0 \in Index
  BY Basics, QueueSize DEF Extra
<1>6. CASE p.complete
  <2>1. p.index = w.read /\ m = 1
    BY <1>4, <1>6, Slots DEF Returns
  <2>2. w.count > 0 /\ queue[w.read].header # NoHeader
    <3>1. Slot(0).header # NoHeader
      BY <1>4, <1>5, <2>1, Slots
    <3> QED BY <1>4, <1>5, <2>1, <3>1, Slots DEF Slot
  <2> QED BY <1>1, <1>2, <1>4, <1>6, <2>1, <2>2, Zenon DEF Completes
<1>7. CASE ~p.complete /\ p.release
  <2>1. 0 < m /\ p.from = w.read /\ p.to = At(m - 1)
    BY <1>4, <1>7, Slots DEF Returns
  <2>2. m - 1 \in Index /\ m <= w.count
    BY <1>4, <1>5, <2>1, QueueSize
  <2>3. ((p.to - p.from) % QueueCapacity) + 1 = m
    <3>1. Off(p.to) = m - 1
      BY <2>1, <2>2, Slots
    <3>2. (p.to - p.from) % QueueCapacity = m - 1
      BY <2>1, <3>1 DEF Off
    <3> QED BY <1>4, <3>2
  <2>4. \A i \in 1 .. m : queue[Oldest(m)[i]].header # NoHeader
    <3> SUFFICES ASSUME NEW i \in 1 .. m PROVE queue[Oldest(m)[i]].header # NoHeader
      OBVIOUS
    <3>1. i - 1 \in Index /\ i - 1 < Extent
      BY <1>4, <1>5, QueueSize
    <3>2. Oldest(m)[i] = At(i - 1)
      <4>1. w.read + i - 1 = w.read + (i - 1)
        BY Basics, QueueSize DEF Waves
      <4> QED BY <4>1 DEF Oldest, At
    <3> QED BY <3>1, <3>2, Slots DEF Slot
  <2>5. w.pending > 0
    <3>1. Releases(plays) = Releases(Tail(plays)) + 1 /\ Releases(Tail(plays)) \in Nat
      <4>1. Tail(plays) \in Seq(Plays)
        BY <1>3
      <4>2. Releases(Tail(plays)) = Releases(plays) - IsRelease(Head(plays))
        BY <1>3, ReleasesTail
      <4>3. IsRelease(Head(plays)) = 1
        BY <1>1, <1>7 DEF IsRelease
      <4>4. Releases(plays) \in Nat /\ Releases(Tail(plays)) \in Nat
        BY <1>3, <4>1, ReleasesType
      <4> QED BY <4>2, <4>3, <4>4
    <3>2. w.pending = Releases(plays)
      BY Basics, Before
    <3> QED BY <3>1, <3>2
  <2>6. w.count > 0 /\ w.read = p.from
    BY <1>4, <1>5, <2>1, <2>2
  <2> QED BY <1>1, <1>2, <1>4, <1>7, <2>2, <2>3, <2>4, <2>5, <2>6, Zenon DEF Completes
<1>8. CASE ~p.complete /\ ~p.release
  <2>1. m = 0
    BY <1>4, <1>8, Zenon DEF Returns
  <2> QED BY <1>1, <1>2, <1>4, <1>8, <2>1, Zenon DEF Completes
<1> QED BY <1>6, <1>7, <1>8

\* The pump stands between the calls of the application.
LEMMA PumpAlone ==
    ASSUME Calm, pump # "off"
    PROVE  w.open /\ app.pc = "idle" /\ ~w.paused /\ ~tr.paused /\ ~Linked /\ ~Resetting
<1>1. w.open /\ app.pc = "idle" /\ ~w.paused
  BY Basics, Before DEF Healthy
<1>2. ~tr.paused
  BY <1>1, Basics DEF Healthy
<1> QED BY <1>1, <1>2 DEF Linked, Resetting

\* Every completion is the one the driver waits for.
LEMMA NoPollAbort ==
    ASSUME Calm, NEW k, NEW mark, Scheduled(mark, k)
    PROVE  ~PollAborts
<1> SUFFICES ASSUME PollAborts PROVE FALSE
  OBVIOUS
<1>1. /\ pump = "poll" /\ plays # <<>> /\ PollResult(w.stream) # "no_completion"
      /\ PollResult(w.stream) = "ok" =>
            \/ Head(tr.completions).token # Head(plays).token
            \/ Completes(Head(plays)) = -1
  BY DEF PollAborts
<1>2. w.open /\ ~Linked /\ ~Resetting
  BY <1>1, PumpAlone
<1>3. Validate(w.stream) = "ok" /\ ~dev.bad /\ ~tr.invalid
  BY <1>2, Basics, ValidStream DEF Healthy
<1>4. PollResult(w.stream) = "ok" /\ tr.completions # <<>>
  BY <1>1, <1>3, Zenon DEF PollResult
<1>5. Head(tr.completions).token = Head(plays).token
  <2>1. plays \in Seq(Plays)
    BY Basics, Before
  <2>2. tr.completions \in Seq(Completion)
    BY Basics, PcmParts DEF PcmInv, Transports
  <2>3. 1 \in 1 .. Len(plays)
    BY <1>1, <2>1
  <2>4. tr.completions[1].token = plays[1].token
    BY <1>2, <2>3, Basics DEF Answers
  <2> QED BY <1>1, <1>4, <2>1, <2>2, <2>4
<1>6. Completes(Head(plays)) \in Nat
  BY <1>1, <1>2, CompletesMark, Basics
<1> QED BY <1>1, <1>4, <1>5, <1>6

\* The pump schedules a counted buffer, or it has lapped.
LEMMA Behind ==
    ASSUME Calm, MaySubmit, ~Lapped, NEW k, NEW mark, Scheduled(mark, k)
    PROVE  k \in 0 .. w.count - 1
<1>1. ~Linked /\ pump # "off" /\ Extent = w.count
  <2>1. pump # "off"
    BY DEF MaySubmit
  <2> QED BY <2>1, PumpAlone, Basics DEF Extra
<1>2. /\ k \in 0 .. w.count /\ w.sched = At(k) /\ w.count \in Nat /\ w.count <= QueueCapacity
      /\ QueueCapacity \in Nat /\ Index = 0 .. QueueCapacity - 1
  BY Basics DEF Scheduled
<1> SUFFICES ASSUME k = w.count PROVE FALSE
  BY <1>2
<1>3. w.count = QueueCapacity
  <2> SUFFICES ASSUME w.count # QueueCapacity PROVE FALSE
    OBVIOUS
  <2>1. k \in Index
    BY <1>2
  <2>2. Slot(k).header # NoHeader
    BY <1>2 DEF MaySubmit, NextBuffer, Slot
  <2> QED BY <1>1, <1>2, <2>1, <2>2, Slots
<1>4. w.sched = w.read /\ w.write = w.read
  <2>1. app.pc # "advanced"
    BY <1>1 DEF Linked
  <2> QED BY <1>2, <1>3, <2>1, Basics, Slots DEF Shape
<1>5. PICK s : s = mark[Len(plays)]
  OBVIOUS
<1>6. s \in 0 .. w.count /\ Len(plays) \in Nat
  <2>1. Len(plays) \in Nat
    BY Basics, Before
  <2> QED BY <1>5, <2>1 DEF Scheduled
<1>7. CASE w.active
  <2>1. s < w.count /\ w.start = At(s) /\ \A x \in s .. k - 1 : ~Slot(x).ends
    BY <1>5, <1>7 DEF Scheduled
  <2>2. CASE s = 0
    <3>1. \A i \in Index : ~queue[i].ends
      <4> SUFFICES ASSUME NEW i \in Index PROVE ~queue[i].ends
        OBVIOUS
      <4>1. Off(i) \in Index /\ At(Off(i)) = i
        BY Slots
      <4>2. Off(i) \in s .. k - 1
        BY <1>2, <1>3, <2>2, <4>1
      <4> QED BY <2>1, <4>1, <4>2 DEF Slot
    <3> QED BY <1>3, <1>4, <1>7, <3>1 DEF Lapped
  <2>3. CASE s # 0
    <3>1. s \in Index /\ 0 \in Index
      BY <1>2, <1>6, <2>1, QueueSize
    <3>2. w.start # w.read
      BY <2>1, <2>3, <3>1, Slots
    <3> QED BY <1>3, <1>4, <1>7, <3>2 DEF Lapped
  <2> QED BY <2>2, <2>3
<1>8. CASE ~w.active
  <2>1. s = k /\ mark[0] = 0
    BY <1>5, <1>8 DEF Scheduled
  <2>2. plays # <<>>
    <3>1. Len(plays) # 0
      BY <1>2, <1>3, <1>5, <2>1, QueueSize
    <3> QED BY <3>1
  <2> QED BY <1>3, <1>4, <1>8, <2>2 DEF Lapped
<1> QED BY <1>7, <1>8

\* No submission is refused, and every loop the pump meets nests.
LEMMA NoSubmitAbort ==
    ASSUME Calm, Unharmed', NEW k, NEW mark, Scheduled(mark, k)
    PROVE  ~SubmitAborts
<1> SUFFICES ASSUME SubmitAborts PROVE FALSE
  OBVIOUS
<1>1. /\ MaySubmit /\ Submits # "would_block" /\ pump # "off"
      /\ Submits = "ok" => ~Finish(NextBuffer, w.sched).ok
      /\ Abort(Numbered, Laps)
  BY DEF SubmitAborts, MaySubmit
<1>2. w.open /\ ~tr.paused /\ ~Linked
  BY <1>1, PumpAlone
<1>3. Submits = "ok"
  <2>1. Validate(w.stream) = "ok"
    BY <1>2, Basics, ValidStream
  <2> QED BY <1>1, <1>2, <2>1, Zenon DEF Submits, SubmitResult
<1>4. ~Lapped
  <2>1. Laps \subseteq hurt' /\ hurt' = {}
    BY <1>1 DEF Abort, Unharmed
  <2> QED BY <2>1 DEF Laps
<1>5. k \in 0 .. w.count - 1 /\ w.sched = At(k)
  BY <1>1, <1>4, Behind DEF Scheduled
<1>6. PICK b : b = NextBuffer
  OBVIOUS
<1>7. b = Slot(k) /\ k \in Index /\ b \in Buffers /\ k \in 0 .. Extent - 1 /\ w.sched \in Index
  <2>1. k \in Index /\ Extent = w.count
    BY <1>2, <1>5, Basics DEF Extra
  <2> QED BY <1>5, <1>6, <2>1, Slots DEF NextBuffer, Slot
<1>8. b.begins => ~InLoop(k)
  BY <1>7, Basics DEF Nested
<1>9. b.ends => InLoop(k) \/ b.begins
  BY <1>7, Basics DEF Nested
<1>10. PICK v : v = Entered(b, w.sched)
  OBVIOUS
<1>11. v.active <=> w.active \/ b.begins
  BY <1>7, <1>10, EnteredFacts, Basics
<1>12. (b.begins /\ w.active /\ w.sched # w.start) \/ (b.ends /\ ~v.active)
  <2>1. Finish(b, w.sched).ok = (~(b.begins /\ w.active /\ w.sched # w.start) /\ ~(b.ends /\ ~v.active))
    BY <1>10 DEF Finish
  <2> QED BY <1>1, <1>3, <1>6, <2>1
<1>13. PICK s : s = mark[Len(plays)]
  OBVIOUS
<1>14. Len(plays) \in Nat /\ Len(plays) \in 0 .. Len(plays)
  BY Basics, Before
<1>15. s \in 0 .. w.count /\ ~InLoop(s)
  BY <1>13, <1>14 DEF Scheduled
<1>16. CASE b.begins /\ w.active /\ w.sched # w.start
  <2>1. s <= k /\ w.start = At(s) /\ Slot(s).begins /\ \A x \in s .. k - 1 : ~Slot(x).ends
    BY <1>13, <1>16 DEF Scheduled
  <2>2. s # k
    BY <1>5, <1>16, <2>1
  <2>3. InLoop(k)
    <3>1. s \in 0 .. k - 1
      BY <1>5, <1>15, <2>1, <2>2, Basics
    <3> QED BY <2>1, <3>1 DEF InLoop
  <2> QED BY <1>8, <1>16, <2>3
<1>17. CASE b.ends /\ ~v.active
  <2>1. ~w.active /\ ~b.begins
    BY <1>11, <1>17
  <2>2. k = s
    BY <1>13, <2>1 DEF Scheduled
  <2> QED BY <1>9, <1>15, <1>17, <2>1, <2>2
<1> QED BY <1>12, <1>16, <1>17

-----------------------------------------------------------------------------
(* How the queue, the loops and the plays move.                            *)

\* Slots that keep their flags keep their loops.
LEMMA SameLoops ==
    ASSUME Calm, w'.read = w.read, NEW e \in 0 .. QueueCapacity,
           \A x \in 0 .. e - 1 : /\ queue'[At(x)].begins = queue[At(x)].begins
                                 /\ queue'[At(x)].ends = queue[At(x)].ends
    PROVE  /\ \A c \in 0 .. e : InLoop(c)' <=> InLoop(c)
           /\ \A x \in 0 .. e - 1 : /\ Slot(x)'.begins = Slot(x).begins
                                    /\ Slot(x)'.ends = Slot(x).ends
<1>0. e \in Nat /\ 0 \in Nat
  BY Basics
<1>1. \A x \in 0 .. e - 1 : /\ Slot(x)'.begins = Slot(x).begins
                            /\ Slot(x)'.ends = Slot(x).ends
  BY DEF Slot, At
<1>2. \A x \in 0 .. e - 1 : 0 + x = x
  BY <1>0
<1>3. \A x \in 0 .. e - 1 : /\ Slot(x)'.begins = Slot(0 + x).begins
                            /\ Slot(x)'.ends = Slot(0 + x).ends
  BY <1>1, <1>2
<1>4. \A c \in 0 .. e : InLoop(c)' <=> InLoop(0 + c)
  BY <1>0, <1>3, OutsideAtFirst, LoopsMove
<1>5. \A c \in 0 .. e : 0 + c = c
  BY <1>0
<1>6. \A c \in 0 .. e : InLoop(c)' <=> InLoop(c)
  BY <1>4, <1>5
<1> QED BY <1>1, <1>6

\* The plays stay what they are while the queue grows, or is left alone.
LEMMA StillScheduled ==
    ASSUME Calm, WaveInv', NEW k, NEW mark, Scheduled(mark, k),
           w'.read = w.read, w.count <= w'.count, plays' = plays,
           w'.sched = w.sched, w'.active <=> w.active, w'.start = w.start,
           \A x \in 0 .. w.count - 1 : /\ queue'[At(x)].begins = queue[At(x)].begins
                                       /\ queue'[At(x)].ends = queue[At(x)].ends
    PROVE  Scheduled(mark, k)'
<1>1. PICK c, d, n : c = w.count /\ d = w'.count /\ n = Len(plays)
  OBVIOUS
<1>2. c \in Nat /\ d \in Nat /\ c <= d /\ n \in Nat /\ c \in 0 .. QueueCapacity
  <2>1. w' \in Waves /\ plays \in Seq(Plays)
    BY Basics, Before DEF WaveInv, WaveType
  <2>2. d \in 0 .. QueueCapacity /\ n \in Nat
    BY <1>1, <2>1 DEF Waves
  <2> QED BY <1>1, <2>2, Basics
<1>3. /\ \A x \in 0 .. c : InLoop(x)' <=> InLoop(x)
      /\ \A x \in 0 .. c - 1 : /\ Slot(x)'.begins = Slot(x).begins
                               /\ Slot(x)'.ends = Slot(x).ends
  BY <1>1, <1>2, SameLoops
<1>4. /\ k \in 0 .. c /\ mark \in [0 .. n -> 0 .. c] /\ w.sched = At(k) /\ mark[0] = 0
      /\ \A i, j \in 0 .. n : i <= j => mark[i] <= mark[j]
      /\ \A i \in 0 .. n : ~InLoop(mark[i])
      /\ \A i \in 1 .. n : Returns(plays[i], mark[i - 1], mark[i])
  BY <1>1 DEF Scheduled
<1>5. PICK s : s = mark[n]
  OBVIOUS
<1>6. s \in 0 .. c
  BY <1>2, <1>4, <1>5
<1>7. IF w.active
      THEN /\ s <= k /\ s < c
           /\ w.start = At(s) /\ Slot(s).begins
           /\ \A x \in s .. k - 1 : ~Slot(x).ends
      ELSE k = s
  BY <1>1, <1>5 DEF Scheduled
<1>8. k \in 0 .. d /\ mark \in [0 .. n -> 0 .. d] /\ \A i \in 0 .. n : ~InLoop(mark[i])'
  <2>1. 0 .. c \subseteq 0 .. d
    BY <1>2
  <2> QED BY <1>3, <1>4, <2>1
<1>9. \A i \in 1 .. n : Returns(plays[i], mark[i - 1], mark[i])'
  BY <1>4 DEF Returns, At
<1>10. IF w'.active
       THEN /\ s <= k /\ s < d
            /\ w'.start = At(s)' /\ Slot(s)'.begins
            /\ \A x \in s .. k - 1 : ~Slot(x)'.ends
       ELSE k = s
  <2>1. CASE w'.active
    <3>1. /\ s <= k /\ s < c /\ w.start = At(s) /\ Slot(s).begins
          /\ \A x \in s .. k - 1 : ~Slot(x).ends
      BY <1>7, <2>1
    <3>2. s \in 0 .. c - 1 /\ s < d /\ \A x \in s .. k - 1 : x \in 0 .. c - 1
      BY <1>2, <1>4, <1>6, <3>1
    <3>3. w'.start = At(s)'
      BY <3>1 DEF At
    <3> QED BY <1>3, <2>1, <3>1, <3>2, <3>3
  <2>2. CASE ~w'.active
    BY <1>7, <2>2
  <2> QED BY <2>1, <2>2
<1>11. w'.sched = At(k)'
  BY <1>4 DEF At
<1> QED BY <1>1, <1>4, <1>5, <1>8, <1>9, <1>10, <1>11 DEF Scheduled

\* Loops go on nesting when the slots keep their flags.
LEMMA StillNested ==
    ASSUME Calm, WaveInv', w'.read = w.read, w'.count + Extra' = w.count + Extra,
           (IF app'.pc = "linked" THEN app'.loopOpen ELSE w'.loopOpen)
             <=> (IF app.pc = "linked" THEN app.loopOpen ELSE w.loopOpen),
           \A x \in 0 .. Extent - 1 : /\ queue'[At(x)].begins = queue[At(x)].begins
                                      /\ queue'[At(x)].ends = queue[At(x)].ends
    PROVE  Nested'
<1>1. PICK e : e = Extent
  OBVIOUS
<1>2. e \in 0 .. QueueCapacity /\ e \in Nat /\ Extent' = e
  <2>1. Extent' = e
    BY <1>1 DEF Extent
  <2> QED BY <1>1, <2>1, Basics
<1>3. /\ \A x \in 0 .. e : InLoop(x)' <=> InLoop(x)
      /\ \A x \in 0 .. e - 1 : /\ Slot(x)'.begins = Slot(x).begins
                               /\ Slot(x)'.ends = Slot(x).ends
  BY <1>1, <1>2, SameLoops
<1>4. /\ \A x \in 0 .. e - 1 : /\ Slot(x).begins => ~InLoop(x)
                               /\ Slot(x).ends => InLoop(x) \/ Slot(x).begins
      /\ InLoop(e) <=> (IF app.pc = "linked" THEN app.loopOpen ELSE w.loopOpen)
  BY <1>1, Basics DEF Nested
<1>5. \A x \in 0 .. e - 1 : /\ Slot(x)'.begins => ~InLoop(x)'
                            /\ Slot(x)'.ends => InLoop(x)' \/ Slot(x)'.begins
  <2>1. \A x \in 0 .. e - 1 : x \in 0 .. e
    BY <1>2
  <2> QED BY <1>3, <1>4, <2>1
<1>6. InLoop(e)' <=> (IF app'.pc = "linked" THEN app'.loopOpen ELSE w'.loopOpen)
  <2>1. e \in 0 .. e
    BY <1>2
  <2> QED BY <1>3, <1>4, <2>1, Zenon
<1>7. InLoop(Extent)' <=> InLoop(e)'
  BY <1>2
<1> QED BY <1>2, <1>5, <1>6, <1>7 DEF Nested

\* A step that touches neither the indexes, the flags of the slots nor the plays.
LEMMA Quiet ==
    ASSUME Calm, WaveInv', NEW k, NEW mark, Scheduled(mark, k),
           w'.read = w.read, w.count <= w'.count, w'.count + Extra' = w.count + Extra,
           plays' = plays,
           w'.sched = w.sched, w'.active <=> w.active, w'.start = w.start,
           (IF app'.pc = "linked" THEN app'.loopOpen ELSE w'.loopOpen)
             <=> (IF app.pc = "linked" THEN app.loopOpen ELSE w.loopOpen),
           \A i \in Index : /\ queue'[i].begins = queue[i].begins
                            /\ queue'[i].ends = queue[i].ends
    PROVE  Nested' /\ Scheduled(mark, k)'
<1>1. \A x \in Index : At(x) \in Index
  BY Slots
<1>2. (\A x \in 0 .. Extent - 1 : x \in Index) /\ \A x \in 0 .. w.count - 1 : x \in Index
  BY Basics
<1>3. /\ \A x \in 0 .. Extent - 1 : /\ queue'[At(x)].begins = queue[At(x)].begins
                                    /\ queue'[At(x)].ends = queue[At(x)].ends
      /\ \A x \in 0 .. w.count - 1 : /\ queue'[At(x)].begins = queue[At(x)].begins
                                     /\ queue'[At(x)].ends = queue[At(x)].ends
  BY <1>1, <1>2
<1> QED BY <1>3, StillNested, StillScheduled

\* An empty queue.
LEMMA EmptyScheduled ==
    ASSUME WaveInv', w'.count = 0, w'.sched = w'.read, ~w'.active, ~w'.loopOpen,
           plays' = <<>>, ~Linked'
    PROVE  Nested' /\ \E k, mark : Scheduled(mark, k)'
<1>1. w' \in Waves /\ w'.read \in Index
  BY DEF WaveInv, WaveType, Waves
<1>2. Extent' = 0
  BY DEF Extent, Extra
<1>3. ~InLoop(0)'
  BY OutsideAtFirst DEF InLoop
<1>4. ~InLoop(Extent)'
  BY <1>2, <1>3
<1>5. Nested'
  <2>1. app'.pc # "linked"
    BY DEF Linked
  <2> QED BY <1>2, <1>4, <2>1 DEF Nested
<1>6. At(0)' = w'.read
  <2>1. (w'.read + 0) % QueueCapacity = w'.read
    <3>1. w'.read + 0 = w'.read
      BY <1>1, QueueSize
    <3> QED BY <1>1, <3>1, QueueSize, ModIs
  <2> QED BY <2>1 DEF At
<1>7. PICK m : m = [i \in 0 .. 0 |-> 0]
  OBVIOUS
<1>8. m \in [0 .. 0 -> 0 .. 0] /\ m[0] = 0 /\ \A i \in 0 .. 0 : m[i] = 0
  BY <1>7
<1>9. Len(plays') = 0
  OBVIOUS
<1>10. Scheduled(m, 0)'
  <2>1. 0 \in 0 .. w'.count /\ m \in [0 .. Len(plays') -> 0 .. w'.count]
    BY <1>8, <1>9
  <2>2. \A i \in 0 .. Len(plays') : ~InLoop(m[i])'
    BY <1>3, <1>8, <1>9
  <2>3. \A i, j \in 0 .. Len(plays') : i <= j => m[i] <= m[j]
    BY <1>8, <1>9
  <2>4. \A i \in 1 .. Len(plays') : Returns(plays[i], m[i - 1], m[i])'
    BY <1>9
  <2> QED BY <1>6, <1>8, <1>9, <2>1, <2>2, <2>3, <2>4 DEF Scheduled
<1> QED BY <1>5, <1>10


\* What the removal of buffers leaves alone.
LEMMA PopKeeps ==
    ASSUME NEW v \in Waves, NEW n \in 1 .. v.count, NEW u, u = Pop(v, n)
    PROVE  /\ u.stream = v.stream /\ u.paused = v.paused /\ u.loopOpen = v.loopOpen
           /\ u.active = v.active /\ u.breakNow = v.breakNow /\ u.breakNext = v.breakNext
           /\ u.start = v.start /\ u.remaining = v.remaining
           /\ u.sched = IF v.count - n = 0 THEN v.write ELSE v.sched
<1>1. PICK x : x = [v EXCEPT !.read = (v.read + n) % QueueCapacity, !.count = v.count - n]
  OBVIOUS
<1>2. /\ x.stream = v.stream /\ x.paused = v.paused /\ x.loopOpen = v.loopOpen
      /\ x.active = v.active /\ x.breakNow = v.breakNow /\ x.breakNext = v.breakNext
      /\ x.start = v.start /\ x.remaining = v.remaining
      /\ x.sched = v.sched /\ x.count = v.count - n /\ x.write = v.write
  BY <1>1 DEF Waves
<1>3. PICK y : y = [x EXCEPT !.sched = x.write]
  OBVIOUS
<1>4. /\ y.stream = x.stream /\ y.paused = x.paused /\ y.loopOpen = x.loopOpen
      /\ y.active = x.active /\ y.breakNow = x.breakNow /\ y.breakNext = x.breakNext
      /\ y.start = x.start /\ y.remaining = x.remaining /\ y.sched = x.write
  BY <1>1, <1>3 DEF Waves
<1>5. u = IF x.count = 0 THEN y ELSE x
  <2>1. Pop(v, n) = IF x.count = 0 THEN [x EXCEPT !.sched = x.write] ELSE x
    BY <1>1 DEF Pop
  <2> QED BY <1>3, <2>1
<1>6. CASE x.count = 0
  BY <1>2, <1>4, <1>5, <1>6
<1>7. CASE x.count # 0
  BY <1>2, <1>5, <1>7
<1> QED BY <1>6, <1>7

\* Everything a turn of the pump that returns n buffers does.
Popped(n) ==
    /\ pump = "poll" /\ plays # <<>> /\ plays' = Tail(plays) /\ app' = app /\ pump' = pump
    /\ n \in 0 .. w.count
    /\ w'.read = At(n) /\ w'.count = w.count - n /\ w'.open = w.open
    /\ w'.loopOpen = w.loopOpen /\ w'.active = w.active /\ w'.start = w.start
    /\ w'.remaining = w.remaining
    /\ w'.breakNow = w.breakNow /\ w'.breakNext = w.breakNext
    /\ w'.sched = IF n > 0 /\ w.count - n = 0 THEN w.write ELSE w.sched
    /\ \A i \in Index : queue'[i] = IF Off(i) < n THEN NoBuffer ELSE queue[i]
    /\ inqueue' = inqueue \ HeadersAt(Oldest(n))
    /\ outcome' = [h \in Headers |-> IF h \in HeadersAt(Oldest(n)) THEN "played" ELSE outcome[h]]
    /\ tr.completions # <<>> /\ tr'.completions = Tail(tr.completions)
    /\ tr'.submitted = tr.submitted
    /\ Head(tr.completions).target <= dev.position
    /\ dev' = dev /\ sent' = sent /\ heard' = heard /\ budget' = budget

\* A completion returns what lies before its mark.
LEMMA PoppedFacts ==
    ASSUME Calm, PollCompletes, NEW k, NEW mark, Scheduled(mark, k)
    PROVE  Popped(mark[1])
<1>1. PICK p, n, v : /\ p = Head(plays) /\ n = Completes(p)
                     /\ v = [w EXCEPT !.pending = IF p.release THEN w.pending - 1 ELSE w.pending]
  OBVIOUS
<1>2. /\ pump = "poll" /\ plays # <<>> /\ plays' = Tail(plays) /\ app' = app /\ pump' = pump
      /\ w' = (IF n = 0 THEN w ELSE Pop(v, n))
      /\ queue' = Without(n) /\ Return(HeadersAt(Oldest(n)), "played")
      /\ PmPoll(w.stream) /\ heard' = heard /\ budget' = budget
  BY <1>1 DEF PollCompletes
<1>3. w.open /\ ~Linked
  BY <1>2, PumpAlone
<1>4. n = mark[1] /\ n \in 0 .. w.count
  BY <1>1, <1>2, <1>3, CompletesMark
<1>5. w \in Waves /\ tr \in Transports /\ plays \in Seq(Plays) /\ w.pending = Releases(plays)
  BY Basics, Records, Before
<1>6. (IF p.release THEN w.pending - 1 ELSE w.pending) \in 0 .. QueueCapacity
  <2>1. Tail(plays) \in Seq(Plays) /\ p \in Plays
    BY <1>1, <1>2, <1>5
  <2>2. Releases(Tail(plays)) = w.pending - IsRelease(p) /\ Releases(Tail(plays)) \in Nat
    BY <1>1, <1>2, <1>5, <2>1, ReleasesTail, ReleasesType
  <2>3. w.pending \in 0 .. QueueCapacity
    BY <1>5 DEF Waves
  <2> QED BY <2>2, <2>3, QueueSize DEF IsRelease
<1>7. /\ v \in Waves /\ v.read = w.read /\ v.write = w.write /\ v.count = w.count
      /\ v.open = w.open /\ v.sched = w.sched /\ v.loopOpen = w.loopOpen
      /\ v.active = w.active /\ v.breakNow = w.breakNow /\ v.breakNext = w.breakNext
      /\ v.start = w.start /\ v.remaining = w.remaining
  BY <1>1, <1>5, <1>6 DEF Waves
<1>8. /\ w'.read = At(n) /\ w'.count = w.count - n /\ w'.open = w.open
      /\ w'.loopOpen = w.loopOpen /\ w'.active = w.active /\ w'.start = w.start
      /\ w'.remaining = w.remaining
      /\ w'.breakNow = w.breakNow /\ w'.breakNext = w.breakNext
      /\ w'.sched = IF n > 0 /\ w.count - n = 0 THEN w.write ELSE w.sched
  <2>1. CASE n = 0
    <3>1. w' = w
      BY <1>2, <2>1
    <3>2. At(n) = w.read /\ w.count - n = w.count
      BY <2>1, Slots, Basics
    <3> QED BY <2>1, <3>1, <3>2
  <2>2. CASE n # 0
    <3>1. n \in 1 .. v.count /\ n > 0 /\ w' = Pop(v, n)
      BY <1>2, <1>4, <1>7, <2>2, Basics
    <3> HIDE DEF Popped
    <3>2. w'.read = At(n) /\ w'.count = w.count - n /\ w'.open = w.open
      BY <1>7, <3>1, PopType DEF At
    <3>3. /\ w'.loopOpen = w.loopOpen /\ w'.active = w.active /\ w'.start = w.start
          /\ w'.remaining = w.remaining
          /\ w'.breakNow = w.breakNow /\ w'.breakNext = w.breakNext
          /\ w'.sched = IF w.count - n = 0 THEN w.write ELSE w.sched
      BY <1>7, <3>1, PopKeeps
    <3> QED BY <3>1, <3>2, <3>3
  <2> QED BY <2>1, <2>2
<1>9. \A i \in Index : queue'[i] = IF Off(i) < n THEN NoBuffer ELSE queue[i]
  BY <1>2 DEF Without, Off
<1>10. /\ inqueue' = inqueue \ HeadersAt(Oldest(n))
       /\ outcome' = [h \in Headers |-> IF h \in HeadersAt(Oldest(n)) THEN "played" ELSE outcome[h]]
  BY <1>2 DEF Return
<1>11. /\ tr' = [tr EXCEPT !.completions = Tail(tr.completions)] /\ PollResult(w.stream) = "ok"
       /\ dev' = dev /\ sent' = sent
  BY <1>2 DEF PmPoll
<1>12. tr.completions # <<>> /\ Head(tr.completions).target <= dev.position
  <2>1. tr.completions # <<>> /\ ~(dev.position < Head(tr.completions).target)
    <3>1. Validate(w.stream) = "ok"
      BY <1>3, Basics, ValidStream
    <3> QED BY <1>11, <3>1, Zenon DEF PollResult
  <2>2. dev.position \in Nat /\ Head(tr.completions).target \in Nat
    <3>1. tr.completions \in Seq(Completion) /\ dev \in Devices
      BY Basics, PcmParts DEF PcmInv, Transports
    <3>2. Head(tr.completions) \in Completion
      BY <2>1, <3>1
    <3> QED BY <3>1, <3>2 DEF Completion, Devices
  <2> QED BY <2>1, <2>2
<1>13. tr'.completions = Tail(tr.completions) /\ tr'.submitted = tr.submitted
  BY <1>5, <1>11 DEF Transports
<1> QED BY <1>2, <1>4, <1>8, <1>9, <1>10, <1>11, <1>12, <1>13, Zenon DEF Popped

\* The marks seen from the first.
Sooner(mark) == [i \in 0 .. Len(plays) - 1 |-> mark[i + 1] - mark[1]]

\* The buffers that stay move forward with their loops.
LEMMA PoppedSlots ==
    ASSUME Calm, NEW n \in 0 .. w.count, w'.read = At(n),
           \A i \in Index : queue'[i] = IF Off(i) < n THEN NoBuffer ELSE queue[i]
    PROVE  /\ \A x \in 0 .. QueueCapacity - n : At(x)' = At(n + x)
           /\ \A x \in 0 .. QueueCapacity - n - 1 : Slot(x)' = Slot(n + x)
<1>1. n \in 0 .. QueueCapacity /\ n \in Nat /\ w \in Waves /\ QueueCapacity \in Nat
  BY Basics
<1>2. ASSUME NEW x \in 0 .. QueueCapacity - n PROVE At(x)' = At(n + x)
  <2>1. PICK r : r = At(n)
    OBVIOUS
  <2>2. (r + x) % QueueCapacity = At(n + x)
    BY <1>1, <2>1, Shifted
  <2> QED BY <2>1, <2>2 DEF At
<1>3. ASSUME NEW x \in 0 .. QueueCapacity - n - 1 PROVE Slot(x)' = Slot(n + x)
  <2>1. n + x \in Index /\ x \in 0 .. QueueCapacity - n /\ ~(n + x < n)
    BY <1>1, Basics
  <2>2. At(n + x) \in Index /\ Off(At(n + x)) = n + x
    BY <2>1, Slots
  <2>3. queue'[At(n + x)] = queue[At(n + x)]
    BY <2>1, <2>2
  <2> QED BY <1>2, <2>1, <2>3 DEF Slot
<1> QED BY <1>2, <1>3

\* A completion keeps the order of the plays that are left.
LEMMA PollScheduled ==
    ASSUME Calm, WaveInv', NEW k, NEW mark, Scheduled(mark, k), Popped(mark[1]),
           NEW m, m = Sooner(mark)
    PROVE  Nested' /\ Scheduled(m, k - mark[1])'
<1>1. PICK n, c, l : n = mark[1] /\ c = w.count /\ l = Len(plays)
  OBVIOUS
<1>2. /\ pump # "off" /\ app' = app /\ n \in 0 .. c /\ w'.read = At(n) /\ w'.count = c - n
      /\ \A i \in Index : queue'[i] = IF Off(i) < n THEN NoBuffer ELSE queue[i]
      /\ plays # <<>> /\ plays' = Tail(plays)
      /\ w'.loopOpen = w.loopOpen /\ w'.active = w.active /\ w'.start = w.start
      /\ w'.sched = IF n > 0 /\ c - n = 0 THEN w.write ELSE w.sched
  BY <1>1 DEF Popped
<1>3. app.pc = "idle" /\ ~Linked /\ Extra = 0 /\ Extra' = 0 /\ Extent = c /\ Extent' = c - n
  <2>1. app.pc = "idle" /\ ~Linked
    BY <1>2, PumpAlone
  <2>2. Extra = 0 /\ Extra' = 0
    BY <1>2, <2>1 DEF Extra, Linked
  <2>3. c + 0 = c /\ (c - n) + 0 = c - n
    BY <1>1, <1>2, Basics
  <2> QED BY <1>1, <1>2, <2>1, <2>2, <2>3 DEF Extent
<1>4. /\ c \in Nat /\ n \in Nat /\ c <= QueueCapacity /\ QueueCapacity \in Nat
      /\ Index = 0 .. QueueCapacity - 1
  BY <1>1, <1>2, Basics
<1>5. l \in Nat \ {0} /\ Len(plays') = l - 1 /\ \A i \in 1 .. l - 1 : plays'[i] = plays[i + 1]
  <2>1. plays \in Seq(Plays)
    BY Basics, Before
  <2> QED BY <1>1, <1>2, <2>1
<1>6. /\ \A x \in 0 .. QueueCapacity - n : At(x)' = At(n + x)
      /\ \A x \in 0 .. QueueCapacity - n - 1 : Slot(x)' = Slot(n + x)
  BY <1>1, <1>2, PoppedSlots
<1>7. /\ k \in 0 .. c /\ mark \in [0 .. l -> 0 .. c] /\ w.sched = At(k) /\ mark[0] = 0
      /\ \A i, j \in 0 .. l : i <= j => mark[i] <= mark[j]
      /\ \A i \in 0 .. l : ~InLoop(mark[i])
      /\ \A i \in 1 .. l : Returns(plays[i], mark[i - 1], mark[i])
  BY <1>1 DEF Scheduled
<1>8. ~InLoop(n) /\ \A i \in 1 .. l : mark[i] \in n .. c
  <2>1. 1 \in 0 .. l
    BY <1>5
  <2>2. ASSUME NEW i \in 1 .. l PROVE mark[i] \in n .. c
    <3>1. 1 <= i /\ i \in 0 .. l
      BY <1>5
    <3>2. mark[1] <= mark[i] /\ mark[i] \in 0 .. c
      BY <1>7, <2>1, <3>1
    <3> QED BY <1>1, <1>4, <3>2
  <2> QED BY <1>1, <1>7, <2>1, <2>2
<1>9. \A x \in 0 .. (c - n) - 1 : /\ Slot(x)'.begins = Slot(n + x).begins
                                  /\ Slot(x)'.ends = Slot(n + x).ends
  <2>1. \A x \in 0 .. (c - n) - 1 : x \in 0 .. QueueCapacity - n - 1
    BY <1>4
  <2> QED BY <1>6, <2>1
<1>10. \A x \in 0 .. c - n : InLoop(x)' <=> InLoop(n + x)
  <2>1. c - n \in Nat
    BY <1>2, <1>4
  <2> QED BY <1>4, <1>8, <1>9, <2>1, LoopsMove
<1>11. Nested'
  <2>1. /\ \A x \in 0 .. c - 1 : /\ Slot(x).begins => ~InLoop(x)
                                 /\ Slot(x).ends => InLoop(x) \/ Slot(x).begins
        /\ InLoop(c) <=> w.loopOpen
    <3>1. /\ \A x \in 0 .. Extent - 1 : /\ Slot(x).begins => ~InLoop(x)
                                        /\ Slot(x).ends => InLoop(x) \/ Slot(x).begins
          /\ InLoop(Extent) <=> w.loopOpen
      BY <1>3, Basics DEF Nested
    <3> QED BY <1>3, <3>1
  <2>2. ASSUME NEW x \in 0 .. (c - n) - 1
        PROVE  /\ Slot(x)'.begins => ~InLoop(x)'
               /\ Slot(x)'.ends => InLoop(x)' \/ Slot(x)'.begins
    <3>1. n + x \in 0 .. c - 1 /\ x \in 0 .. c - n
      BY <1>2, <1>4
    <3> QED BY <1>9, <1>10, <2>1, <3>1
  <2>3. InLoop(c - n)' <=> w'.loopOpen
    <3>1. c - n \in 0 .. c - n /\ n + (c - n) = c
      BY <1>2, <1>4
    <3>2. InLoop(c - n)' <=> InLoop(n + (c - n))
      BY <1>10, <3>1
    <3>3. InLoop(n + (c - n)) <=> InLoop(c)
      BY <3>1
    <3> QED BY <1>2, <2>1, <3>2, <3>3
  <2>4. InLoop(Extent)' <=> InLoop(c - n)'
    BY <1>3
  <2>5. app'.pc # "linked"
    BY <1>2, <1>3
  <2> QED BY <1>3, <2>2, <2>3, <2>4, <2>5 DEF Nested
<1>13. m = [i \in 0 .. l - 1 |-> mark[i + 1] - n]
  BY <1>1 DEF Sooner
<1>14. ASSUME NEW i \in 0 .. l - 1
       PROVE  /\ i + 1 \in 1 .. l /\ i + 1 \in 0 .. l /\ m[i] = mark[i + 1] - n
              /\ m[i] \in 0 .. c - n /\ n + m[i] = mark[i + 1] /\ mark[i + 1] \in Int
  <2>1. i + 1 \in 1 .. l /\ i + 1 \in 0 .. l
    BY <1>5
  <2>2. m[i] = mark[i + 1] - n /\ mark[i + 1] \in n .. c
    BY <1>8, <1>13, <2>1
  <2> QED BY <1>4, <2>1, <2>2
<1>15. m \in [0 .. l - 1 -> 0 .. c - n]
  BY <1>13, <1>14
<1>16. m[0] = 0
  <2>1. 0 \in 0 .. l - 1
    BY <1>5
  <2>2. m[0] = mark[0 + 1] - n
    BY <1>14, <2>1
  <2> QED BY <1>1, <1>4, <2>2
<1>17. \A i, j \in 0 .. l - 1 : i <= j => m[i] <= m[j]
  <2> SUFFICES ASSUME NEW i \in 0 .. l - 1, NEW j \in 0 .. l - 1, i <= j PROVE m[i] <= m[j]
    OBVIOUS
  <2>1. i + 1 <= j + 1 /\ i + 1 \in 0 .. l /\ j + 1 \in 0 .. l
    BY <1>5
  <2>2. mark[i + 1] <= mark[j + 1]
    BY <1>7, <2>1
  <2>3. m[i] = mark[i + 1] - n /\ m[j] = mark[j + 1] - n /\ mark[i + 1] \in Int /\ mark[j + 1] \in Int
    BY <1>14
  <2>4. PICK a, b : a = mark[i + 1] /\ b = mark[j + 1]
    OBVIOUS
  <2>5. a \in Int /\ b \in Int /\ a <= b /\ m[i] = a - n /\ m[j] = b - n
    BY <2>2, <2>3, <2>4
  <2>6. a - n <= b - n
    BY <1>4, <2>5
  <2> QED BY <2>5, <2>6
<1>18. \A i \in 0 .. l - 1 : ~InLoop(m[i])'
  <2> SUFFICES ASSUME NEW i \in 0 .. l - 1 PROVE ~InLoop(m[i])'
    OBVIOUS
  <2>1. InLoop(m[i])' <=> InLoop(n + m[i])
    BY <1>10, <1>14
  <2>2. ~InLoop(mark[i + 1])
    BY <1>7, <1>14
  <2>3. n + m[i] = mark[i + 1]
    BY <1>14
  <2> QED BY <2>1, <2>2, <2>3
<1>19. \A i \in 1 .. l - 1 : Returns(plays[i], m[i - 1], m[i])'
  <2> SUFFICES ASSUME NEW i \in 1 .. l - 1 PROVE Returns(plays[i], m[i - 1], m[i])'
    OBVIOUS
  <2>1. /\ i - 1 \in 0 .. l - 1 /\ i \in 0 .. l - 1 /\ (i - 1) + 1 = i /\ i + 1 \in 1 .. l
        /\ (i + 1) - 1 = i
    BY <1>5
  <2>2. PICK x, y, p : x = m[i - 1] /\ y = m[i] /\ p = plays[i + 1]
    OBVIOUS
  <2>3. /\ x \in 0 .. c - n /\ y \in 0 .. c - n /\ n + x = mark[i] /\ n + y = mark[i + 1]
    BY <1>14, <2>1, <2>2
  <2>4. Returns(p, mark[i], mark[i + 1])
    BY <1>7, <2>1, <2>2
  <2>5. At(x)' = At(n + x)
    <3>1. x \in 0 .. QueueCapacity - n
      BY <1>4, <2>3
    <3> QED BY <1>6, <3>1
  <2>6. CASE p.complete
    <3>1. p.index = At(n + x) /\ n + y = (n + x) + 1
      BY <2>3, <2>4, <2>6 DEF Returns
    <3>2. p.index = At(x)' /\ y = x + 1
      BY <1>4, <2>3, <2>5, <3>1
    <3>3. Returns(p, x, y)'
      BY <2>6, <3>2 DEF Returns
    <3> QED BY <1>5, <2>2, <3>3
  <2>7. CASE ~p.complete /\ p.release
    <3>1. n + x < n + y /\ p.from = At(n + x) /\ p.to = At((n + y) - 1)
      BY <2>3, <2>4, <2>7 DEF Returns
    <3>2. x < y /\ y - 1 \in 0 .. QueueCapacity - n /\ n + (y - 1) = (n + y) - 1
      <4>1. x \in Nat /\ y \in Nat /\ y <= c - n /\ n + x < n + y
        BY <1>4, <2>3, <3>1
      <4> QED BY <1>4, <4>1
    <3>3. At(y - 1)' = At((n + y) - 1)
      BY <1>6, <3>2
    <3>4. x < y /\ p.from = At(x)' /\ p.to = At(y - 1)'
      BY <2>5, <3>1, <3>2, <3>3
    <3>5. Returns(p, x, y)'
      BY <2>7, <3>4 DEF Returns
    <3> QED BY <1>5, <2>2, <3>5
  <2>8. CASE ~p.complete /\ ~p.release
    <3>1. n + y = n + x
      BY <2>3, <2>4, <2>8 DEF Returns
    <3>2. y = x
      BY <1>4, <2>3, <3>1
    <3>3. Returns(p, x, y)'
      BY <2>8, <3>2 DEF Returns
    <3> QED BY <1>5, <2>2, <3>3
  <2> QED BY <2>6, <2>7, <2>8
<1>20. PICK s : s = mark[l]
  OBVIOUS
<1>21. /\ s \in n .. c /\ s \in 0 .. c /\ m[l - 1] = s - n /\ s - n \in 0 .. c - n
       /\ n + (s - n) = s
  <2>1. l - 1 \in 0 .. l - 1 /\ (l - 1) + 1 = l /\ l \in 1 .. l
    BY <1>5
  <2>2. s \in n .. c /\ m[l - 1] = s - n
    BY <1>8, <1>14, <1>20, <2>1
  <2> QED BY <1>4, <2>2
<1>22. IF w.active
       THEN /\ s <= k /\ s < c
            /\ w.start = At(s) /\ Slot(s).begins
            /\ \A x \in s .. k - 1 : ~Slot(x).ends
       ELSE k = s
  BY <1>1, <1>20 DEF Scheduled
<1>23. k - n \in 0 .. c - n /\ n + (k - n) = k /\ s <= k
  <2>1. s <= k
    BY <1>4, <1>7, <1>21, <1>22
  <2> QED BY <1>4, <1>7, <1>21, <2>1
<1>24. w'.sched = At(k - n)'
  <2>1. k - n \in 0 .. QueueCapacity - n
    BY <1>4, <1>23
  <2>2. At(k - n)' = At(k)
    BY <1>6, <1>23, <2>1
  <2>3. CASE c - n = 0
    <3>1. k = c
      BY <1>4, <1>7, <1>23, <2>3
    <3>2. w.write = At(c)
      BY <1>1, <1>3, Basics DEF Shape
    <3> QED BY <1>2, <1>7, <2>2, <3>1, <3>2
  <2>4. CASE c - n # 0
    BY <1>2, <1>7, <2>2, <2>4
  <2> QED BY <2>3, <2>4
<1>25. IF w'.active
       THEN /\ s - n <= k - n /\ s - n < c - n
            /\ w'.start = At(s - n)' /\ Slot(s - n)'.begins
            /\ \A x \in s - n .. (k - n) - 1 : ~Slot(x)'.ends
       ELSE k - n = s - n
  <2>1. CASE w.active
    <3>1. /\ s <= k /\ s < c /\ w.start = At(s) /\ Slot(s).begins
          /\ \A x \in s .. k - 1 : ~Slot(x).ends
      BY <1>22, <2>1
    <3>2. s - n \in 0 .. (c - n) - 1 /\ s - n \in 0 .. QueueCapacity - n
      BY <1>4, <1>21, <3>1
    <3>3. At(s - n)' = At(s) /\ Slot(s - n)'.begins
      <4>1. Slot(s - n)'.begins = Slot(n + (s - n)).begins /\ At(s - n)' = At(n + (s - n))
        BY <1>6, <1>9, <3>2
      <4> QED BY <1>21, <3>1, <4>1
    <3>4. \A x \in s - n .. (k - n) - 1 : ~Slot(x)'.ends
      <4> SUFFICES ASSUME NEW x \in s - n .. (k - n) - 1 PROVE ~Slot(x)'.ends
        OBVIOUS
      <4>1. x \in 0 .. (c - n) - 1 /\ n + x \in s .. k - 1
        BY <1>4, <1>7, <1>21, <1>23
      <4>2. Slot(x)'.ends = Slot(n + x).ends
        BY <1>9, <4>1
      <4> QED BY <3>1, <4>1, <4>2
    <3>5. s - n <= k - n /\ s - n < c - n
      BY <1>4, <1>7, <1>21, <3>1
    <3> QED BY <1>2, <2>1, <3>1, <3>3, <3>4, <3>5
  <2>2. CASE ~w.active
    <3>1. k - n = s - n
      BY <1>22, <2>2
    <3> QED BY <1>2, <2>2, <3>1
  <2> QED BY <2>1, <2>2
<1>26. Scheduled(m, k - n)'
  BY <1>2, <1>5, <1>15, <1>16, <1>17, <1>18, <1>19, <1>21, <1>23, <1>24, <1>25 DEF Scheduled
<1> QED BY <1>1, <1>11, <1>26


\* What scheduling the buffer b, the k-th, makes of a loop: whether it is in one.
InOne(b) == w.active \/ b.begins

(* The marks and the schedule after the play of the k-th buffer b, that    *)
(* ends at s: a buffer of its own, the end of a loop, the end of one of    *)
(* its rounds, or the middle of it.                                        *)
Later(mark, s) == [j \in 0 .. Len(plays) + 1 |-> IF j <= Len(plays) THEN mark[j] ELSE s]
MarkAfter(b, f, s, k) == IF InOne(b) /\ ~f.release THEN s ELSE k + 1
NextAfter(b, f, s, k) == IF InOne(b) /\ b.ends /\ ~f.release THEN s ELSE k + 1

\* A play of the k-th buffer b after the mark s, with the mark q and the k r after it.
Ended(b, f, s, k, q, r) ==
    /\ b = Slot(k) /\ k \in 0 .. w.count - 1 /\ s \in 0 .. k
    /\ f.complete <=> ~InOne(b)
    /\ InOne(b) => f.from = At(s) /\ w'.start = At(s)
    /\ InOne(b) => Slot(s).begins /\ \A x \in s .. k - 1 : ~Slot(x).ends
    /\ ~InOne(b) => s = k /\ ~b.ends
    /\ f.release => InOne(b) /\ b.ends
    /\ InOne(b) /\ b.ends /\ ~f.release => q = s /\ r = s
    /\ InOne(b) /\ ~b.ends => q = s /\ r = k + 1
    /\ f.release \/ ~InOne(b) => q = k + 1 /\ r = k + 1
    /\ w'.sched = At(r)
    /\ w'.active <=> InOne(b) /\ ~f.release

\* The four ends of a play, by the loop it is in.
LEMMA Ends ==
    ASSUME Calm, NEW k, NEW mark, Scheduled(mark, k), k < w.count,
           NEW b, NEW a, NEW f, Chunked(b, a, f, TRUE),
           NEW s, s = mark[Len(plays)],
           NEW q, q = MarkAfter(b, f, s, k), NEW r, r = NextAfter(b, f, s, k)
    PROVE  Ended(b, f, s, k, q, r)
<1>1. PICK v : v = Entered(b, w.sched)
  OBVIOUS
<1>2. /\ b = queue[w.sched] /\ b \in Buffers /\ w.sched \in Index /\ w.pending < QueueCapacity
      /\ f = Finish(b, w.sched) /\ f.w \in Waves /\ f.ok
      /\ w' = [f.w EXCEPT !.nextToken = Numbered.nextToken]
  BY DEF Chunked
<1>3. /\ w \in Waves /\ w.sched = At(k) /\ k \in 0 .. w.count - 1 /\ w.count \in Nat
      /\ k \in Index /\ k \in Nat /\ w.count <= QueueCapacity
  <2>1. w \in Waves /\ w.sched = At(k) /\ k \in 0 .. w.count /\ w.count \in Nat /\ w.count <= QueueCapacity
    BY Basics DEF Scheduled
  <2> QED BY <2>1, Basics
<1>4. b = Slot(k)
  BY <1>2, <1>3 DEF Slot
<1>5. /\ v.active <=> w.active \/ b.begins
      /\ v.start = IF b.begins /\ ~w.active THEN w.sched ELSE w.start
  BY <1>1, <1>2, <1>3, EnteredFacts
<1>6. /\ f.complete = ~v.active /\ f.from = v.start
      /\ f.release => v.active /\ b.ends
      /\ f.release => ~f.w.active /\ f.w.sched = NextIndex(w.sched) /\ f.w.start = v.start
      /\ v.active /\ b.ends /\ ~f.release =>
            /\ f.w.active /\ f.w.sched = v.start /\ f.w.start = v.start
      /\ ~(v.active /\ b.ends) =>
            /\ f.w.active = v.active /\ f.w.sched = NextIndex(w.sched) /\ f.w.start = v.start
  BY <1>1, <1>2, <1>3, FinishFacts
<1>7. w'.sched = f.w.sched /\ w'.active = f.w.active /\ w'.start = f.w.start
  BY <1>2 DEF Waves
<1>8. NextIndex(w.sched) = At(k + 1)
  BY <1>3, Slots
<1>9. ~(b.ends /\ ~v.active)
  <2>1. Finish(b, w.sched).ok = (~(b.begins /\ w.active /\ w.sched # w.start) /\ ~(b.ends /\ ~v.active))
    BY <1>1 DEF Finish
  <2>2. Finish(b, w.sched).ok
    BY <1>2
  <2> QED BY <2>1, <2>2
<1>10. s \in 0 .. w.count
  <2>1. Len(plays) \in 0 .. Len(plays)
    BY Basics, Before
  <2> QED BY <2>1 DEF Scheduled
<1>11. v.active <=> InOne(b)
  BY <1>5 DEF InOne
<1>12. /\ s \in 0 .. k
       /\ InOne(b) => v.start = At(s) /\ Slot(s).begins /\ \A x \in s .. k - 1 : ~Slot(x).ends
       /\ ~InOne(b) => s = k /\ ~b.ends
  <2>1. CASE w.active
    <3>1. s <= k /\ w.start = At(s) /\ Slot(s).begins /\ \A x \in s .. k - 1 : ~Slot(x).ends
      BY <2>1 DEF Scheduled
    <3> QED BY <1>3, <1>5, <1>10, <2>1, <3>1 DEF InOne
  <2>2. CASE ~w.active
    <3>1. s = k
      BY <2>2 DEF Scheduled
    <3> QED BY <1>3, <1>4, <1>5, <1>9, <1>11, <2>2, <3>1 DEF InOne
  <2> QED BY <2>1, <2>2
<1>13. CASE f.release
  <2>1. InOne(b) /\ b.ends /\ q = k + 1 /\ r = k + 1
    BY <1>6, <1>11, <1>13 DEF MarkAfter, NextAfter
  <2> QED BY <1>3, <1>4, <1>6, <1>7, <1>8, <1>11, <1>12, <1>13, <2>1 DEF Ended
<1>14. CASE ~f.release /\ InOne(b) /\ b.ends
  <2>1. q = s /\ r = s
    BY <1>14 DEF MarkAfter, NextAfter
  <2> QED BY <1>3, <1>4, <1>6, <1>7, <1>11, <1>12, <1>14, <2>1 DEF Ended
<1>15. CASE ~f.release /\ InOne(b) /\ ~b.ends
  <2>1. q = s /\ r = k + 1
    BY <1>15 DEF MarkAfter, NextAfter
  <2> QED BY <1>3, <1>4, <1>6, <1>7, <1>8, <1>11, <1>12, <1>15, <2>1 DEF Ended
<1>16. CASE ~InOne(b)
  <2>1. q = k + 1 /\ r = k + 1 /\ ~f.release /\ ~b.ends
    BY <1>6, <1>11, <1>12, <1>16 DEF MarkAfter, NextAfter
  <2> QED BY <1>3, <1>4, <1>6, <1>7, <1>8, <1>11, <1>12, <1>16, <2>1 DEF Ended
<1> QED BY <1>13, <1>14, <1>15, <1>16

\* The slots but for what is scheduled of the one at i.
FlagsKept(at) ==
    \A i \in Index : /\ queue'[i].header = queue[i].header
                     /\ queue'[i].size = queue[i].size
                     /\ queue'[i].begins = queue[i].begins
                     /\ queue'[i].ends = queue[i].ends
                     /\ queue'[i].loops = queue[i].loops
                     /\ i # at => queue'[i] = queue[i]

\* The schedule stays where it is.
CursorKept ==
    /\ w'.sched = w.sched /\ w'.active = w.active /\ w'.start = w.start
    /\ w'.remaining = w.remaining /\ plays' = plays
    /\ w'.breakNow = w.breakNow /\ w'.breakNext = w.breakNext

\* A chunk that does not end its buffer, or that does, keeps the flags of the slots.
LEMMA ChunkedSlots ==
    ASSUME Calm, NEW b, NEW a, NEW f, NEW done, Chunked(b, a, f, done)
    PROVE  /\ w'.read = w.read /\ w'.count = w.count /\ w'.loopOpen = w.loopOpen
           /\ FlagsKept(w.sched)
           /\ queue'[w.sched].submitted = IF done THEN 0 ELSE b.submitted + a
           /\ ~done => CursorKept
<1>1. /\ b = queue[w.sched] /\ b \in Buffers /\ w.sched \in Index /\ w.pending < QueueCapacity
      /\ f = Finish(b, w.sched) /\ f.w \in Waves
      /\ f.w.read = w.read /\ f.w.count = w.count
      /\ w' = (IF done THEN [f.w EXCEPT !.nextToken = Numbered.nextToken] ELSE Numbered)
      /\ ~done => plays' = plays
  BY DEF Chunked
<1>2. w \in Waves /\ queue \in [Index -> Buffers]
  BY Basics, Before
<1>3. f.w.loopOpen = w.loopOpen
  BY <1>1, <1>2, FinishFacts
<1>4. Numbered \in Waves /\ Numbered = [w EXCEPT !.nextToken = Numbered.nextToken]
  <2>1. Numbered \in Waves
    BY <1>1, TokenType, Basics DEF NextBuffer
  <2>2. Numbered = w \/ \E t : Numbered = [w EXCEPT !.nextToken = t]
    BY DEF Numbered
  <2> QED BY <1>2, <2>1, <2>2 DEF Waves
<1>5. PICK t : t = Numbered.nextToken
  OBVIOUS
<1>6. w' = IF done THEN [f.w EXCEPT !.nextToken = t] ELSE [w EXCEPT !.nextToken = t]
  BY <1>1, <1>4, <1>5, Zenon
<1>7. w'.read = w.read /\ w'.count = w.count /\ w'.loopOpen = w.loopOpen
  BY <1>1, <1>2, <1>3, <1>6 DEF Waves
<1>8. ~done => CursorKept
  BY <1>1, <1>2, <1>6 DEF Waves, CursorKept
<1>9. PICK z, y : z = (IF done THEN 0 ELSE b.submitted + a) /\ y = (IF done THEN 0 ELSE Token)
  OBVIOUS
<1>10. queue' = [queue EXCEPT ![w.sched].submitted = z, ![w.sched].token = y]
  BY <1>9 DEF Chunked
<1>11. PICK c : c = [b EXCEPT !.submitted = z, !.token = y]
  OBVIOUS
<1>12. queue' = [queue EXCEPT ![w.sched] = c]
  BY <1>1, <1>2, <1>10, <1>11
<1>13. /\ c.header = b.header /\ c.size = b.size /\ c.begins = b.begins /\ c.ends = b.ends
       /\ c.loops = b.loops /\ c.submitted = z
  BY <1>1, <1>11 DEF Buffers
<1>14. \A i \in Index : queue'[i] = IF i = w.sched THEN c ELSE queue[i]
  BY <1>2, <1>12
<1>15. FlagsKept(w.sched)
  BY <1>1, <1>13, <1>14 DEF FlagsKept
<1>16. queue'[w.sched].submitted = z
  BY <1>1, <1>13, <1>14
<1>17. queue'[w.sched].submitted = IF done THEN 0 ELSE b.submitted + a
  BY <1>9, <1>16
<1> QED BY <1>7, <1>8, <1>15, <1>17, Zenon

\* The play of a buffer that is done comes after the others.
LEMMA ChunkScheduled ==
    ASSUME Calm, WaveInv', NEW k, NEW mark, Scheduled(mark, k), k < w.count,
           NEW b, NEW a, NEW f, Chunked(b, a, f, TRUE),
           NEW s, s = mark[Len(plays)],
           NEW q, q = MarkAfter(b, f, s, k), NEW r, r = NextAfter(b, f, s, k),
           NEW m, m = Later(mark, q)
    PROVE  Scheduled(m, r)'
<1>1. PICK c, l : c = w.count /\ l = Len(plays)
  OBVIOUS
<1>2. /\ c \in Nat /\ c \in 0 .. QueueCapacity /\ l \in Nat /\ plays \in Seq(Plays)
  BY <1>1, Basics, Before
<1>3. w'.read = w.read /\ w'.count = c
      /\ \A i \in Index : queue'[i].begins = queue[i].begins /\ queue'[i].ends = queue[i].ends
  BY <1>1, ChunkedSlots DEF FlagsKept
<1>4. /\ \A x \in 0 .. c : InLoop(x)' <=> InLoop(x)
      /\ \A x \in 0 .. c - 1 : Slot(x)'.begins = Slot(x).begins /\ Slot(x)'.ends = Slot(x).ends
  <2>0. \A x \in 0 .. c - 1 : x \in Index
    BY <1>2, Basics
  <2>1. \A x \in 0 .. c - 1 : At(x) \in Index
    BY <2>0, Slots
  <2> QED BY <1>2, <1>3, <2>1, SameLoops
<1>5. PICK p : p = [token |-> Token, index |-> w.sched, complete |-> f.complete,
                    release |-> f.release, from |-> f.from, to |-> w.sched]
  OBVIOUS
<1>6. plays' = Append(plays, p)
  BY <1>5 DEF Chunked
<1>7. Len(plays') = l + 1 /\ (\A i \in 1 .. l : plays'[i] = plays[i]) /\ plays'[l + 1] = p
  BY <1>1, <1>2, <1>6
<1>8. /\ k \in 0 .. c /\ mark \in [0 .. l -> 0 .. c] /\ w.sched = At(k) /\ mark[0] = 0
      /\ \A i, j \in 0 .. l : i <= j => mark[i] <= mark[j]
      /\ \A i \in 0 .. l : ~InLoop(mark[i])
      /\ \A i \in 1 .. l : Returns(plays[i], mark[i - 1], mark[i])
  BY <1>1 DEF Scheduled
<1>e. Ended(b, f, s, k, q, r)
  BY Ends
<1>9. /\ b = Slot(k) /\ k \in 0 .. c - 1 /\ s \in 0 .. k
      /\ f.complete <=> ~InOne(b)
      /\ InOne(b) => f.from = At(s) /\ w'.start = At(s)
      /\ InOne(b) => Slot(s).begins /\ \A x \in s .. k - 1 : ~Slot(x).ends
      /\ ~InOne(b) => s = k /\ ~b.ends
      /\ f.release => InOne(b) /\ b.ends
      /\ InOne(b) /\ b.ends /\ ~f.release => q = s /\ r = s
      /\ InOne(b) /\ ~b.ends => q = s /\ r = k + 1
      /\ f.release \/ ~InOne(b) => q = k + 1 /\ r = k + 1
      /\ w'.sched = At(r)
      /\ w'.active <=> InOne(b) /\ ~f.release
  BY <1>1, <1>e DEF Ended
<1>10. s = mark[l] /\ ~InLoop(s)
  BY <1>1, <1>2, <1>8
<1>11. q \in s .. c /\ q \in 0 .. c /\ ~InLoop(q)' /\ r \in 0 .. c /\ (q = s \/ q = k + 1)
  <2>1. InLoop(k + 1) <=> (InLoop(k) \/ b.begins) /\ ~b.ends
    <3>1. k \in Nat
      BY <1>2, <1>9
    <3>2. InLoop(k + 1) <=> (InLoop(k) \/ Slot(k).begins) /\ ~Slot(k).ends
      BY <3>1, LoopStep
    <3> QED BY <1>9, <3>2
  <2>2. CASE f.release \/ ~InOne(b)
    <3>1. q = k + 1 /\ r = k + 1 /\ k + 1 \in s .. c /\ k + 1 \in 0 .. c
      BY <1>2, <1>9, <2>2
    <3>2. ~InLoop(k + 1)
      BY <1>9, <1>10, <2>1, <2>2 DEF InOne
    <3> QED BY <1>4, <3>1, <3>2
  <2>3. CASE ~(f.release \/ ~InOne(b))
    <3>1. q = s /\ (r = s \/ r = k + 1) /\ s \in 0 .. c /\ k + 1 \in 0 .. c /\ s \in s .. c
      BY <1>2, <1>9, <2>3
    <3> QED BY <1>4, <1>10, <3>1
  <2> QED BY <2>2, <2>3
<1>12. m = [j \in 0 .. l + 1 |-> IF j <= l THEN mark[j] ELSE q]
  BY <1>1 DEF Later
<1>13. m[l + 1] = q /\ \A j \in 0 .. l : m[j] = mark[j]
  <2>1. l + 1 \in 0 .. l + 1 /\ ~(l + 1 <= l) /\ \A j \in 0 .. l : j \in 0 .. l + 1 /\ j <= l
    BY <1>2
  <2> QED BY <1>12, <2>1
<1>14. \A j \in 0 .. l + 1 : j \in 0 .. l \/ j = l + 1
  BY <1>2
<1>15. m \in [0 .. l + 1 -> 0 .. c]
  <2>1. \A j \in 0 .. l + 1 : m[j] \in 0 .. c
    BY <1>8, <1>11, <1>13, <1>14
  <2> QED BY <1>12, <2>1
<1>16. m[0] = 0
  BY <1>2, <1>8, <1>13
<1>17. \A i, j \in 0 .. l + 1 : i <= j => m[i] <= m[j]
  <2> SUFFICES ASSUME NEW i \in 0 .. l + 1, NEW j \in 0 .. l + 1, i <= j PROVE m[i] <= m[j]
    OBVIOUS
  <2>1. CASE j \in 0 .. l
    <3>1. i \in 0 .. l
      BY <1>2, <2>1
    <3> QED BY <1>8, <1>13, <2>1, <3>1
  <2>2. CASE j = l + 1 /\ i \in 0 .. l
    <3>1. PICK x : x = mark[i]
      OBVIOUS
    <3>2. x <= s /\ x \in 0 .. c /\ m[i] = x /\ m[j] = q
      BY <1>2, <1>8, <1>10, <1>13, <2>2, <3>1
    <3>3. x <= q
      <4>1. s \in Int /\ q \in Int /\ s <= q
        BY <1>2, <1>9, <1>11
      <4> QED BY <1>2, <3>2, <4>1
    <3> QED BY <3>2, <3>3
  <2>3. CASE j = l + 1 /\ i = l + 1
    BY <1>11, <1>13, <2>3
  <2> QED BY <1>14, <2>1, <2>2, <2>3
<1>18. \A i \in 0 .. l + 1 : ~InLoop(m[i])'
  <2>1. ASSUME NEW i \in 0 .. l PROVE ~InLoop(m[i])'
    <3>1. mark[i] \in 0 .. c /\ ~InLoop(mark[i]) /\ m[i] = mark[i]
      BY <1>8, <1>13
    <3> QED BY <1>4, <3>1
  <2>2. ~InLoop(m[l + 1])'
    BY <1>11, <1>13
  <2> QED BY <1>14, <2>1, <2>2
<1>19. \A i \in 1 .. l + 1 : Returns(plays[i], m[i - 1], m[i])'
  <2>1. ASSUME NEW i \in 1 .. l PROVE Returns(plays[i], m[i - 1], m[i])'
    <3>1. i - 1 \in 0 .. l /\ i \in 0 .. l
      BY <1>2
    <3>2. Returns(plays[i], mark[i - 1], mark[i])
      BY <1>8
    <3>3. m[i - 1] = mark[i - 1] /\ m[i] = mark[i] /\ plays'[i] = plays[i]
      BY <1>7, <1>13, <3>1
    <3>4. At(mark[i - 1])' = At(mark[i - 1]) /\ At(mark[i] - 1)' = At(mark[i] - 1)
      BY <1>3 DEF At
    <3> QED BY <3>2, <3>3, <3>4 DEF Returns
  <2>2. Returns(p, s, q)'
    <3>1. p.complete = f.complete /\ p.release = f.release /\ p.index = At(k) /\ p.to = At(k) /\ p.from = f.from
      BY <1>5, <1>8
    <3>2. \A x : At(x)' = At(x)
      BY <1>3 DEF At
    <3>3. CASE ~InOne(b)
      <4>1. p.complete /\ p.index = At(s)' /\ q = s + 1
        BY <1>9, <3>1, <3>2, <3>3
      <4> QED BY <4>1 DEF Returns
    <3>4. CASE InOne(b) /\ f.release
      <4>1. q = k + 1 /\ s < q /\ q - 1 = k
        BY <1>2, <1>9, <3>4
      <4>2. ~p.complete /\ p.release /\ p.from = At(s)' /\ p.to = At(q - 1)'
        BY <1>9, <3>1, <3>2, <3>4, <4>1
      <4> QED BY <4>1, <4>2 DEF Returns
    <3>5. CASE InOne(b) /\ ~f.release
      <4>1. q = s /\ ~p.complete /\ ~p.release
        BY <1>9, <3>1, <3>5
      <4> QED BY <4>1 DEF Returns
    <3> QED BY <3>3, <3>4, <3>5
  <2>3. Returns(plays[l + 1], m[l], m[l + 1])'
    <3>1. m[l] = s /\ m[l + 1] = q /\ plays'[l + 1] = p
      BY <1>2, <1>7, <1>10, <1>13
    <3> QED BY <2>2, <3>1 DEF Returns
  <2>4. \A i \in 1 .. l + 1 : i \in 1 .. l \/ i = l + 1
    BY <1>2
  <2>5. (l + 1) - 1 = l
    BY <1>2
  <2> QED BY <2>1, <2>3, <2>4, <2>5
<1>20. IF w'.active
       THEN /\ q <= r /\ q < c
            /\ w'.start = At(q)' /\ Slot(q)'.begins
            /\ \A x \in q .. r - 1 : ~Slot(x)'.ends
       ELSE r = q
  <2>1. CASE w'.active
    <3>1. InOne(b) /\ ~f.release /\ q = s /\ w'.start = At(s) /\ Slot(s).begins
          /\ \A x \in s .. k - 1 : ~Slot(x).ends
      BY <1>9, <2>1
    <3>2. q \in 0 .. c - 1 /\ q < c
      BY <1>2, <1>9, <3>1
    <3>3. w'.start = At(q)' /\ Slot(q)'.begins
      BY <1>3, <1>4, <3>1, <3>2 DEF At
    <3>4. CASE b.ends
      <4>1. r = q /\ q <= r /\ \A x \in q .. r - 1 : FALSE
        BY <1>2, <1>9, <3>1, <3>4
      <4> QED BY <2>1, <3>2, <3>3, <4>1
    <3>5. CASE ~b.ends
      <4>1. r = k + 1 /\ q <= r
        BY <1>2, <1>9, <3>1, <3>5
      <4>2. \A x \in q .. r - 1 : x \in 0 .. c - 1 /\ (x \in s .. k - 1 \/ x = k)
        BY <1>2, <1>9, <3>1, <4>1
      <4>3. \A x \in q .. r - 1 : ~Slot(x)'.ends
        BY <1>4, <1>9, <3>1, <3>5, <4>2
      <4> QED BY <2>1, <3>2, <3>3, <4>1, <4>3
    <3> QED BY <3>4, <3>5
  <2>2. CASE ~w'.active
    BY <1>9, <2>2
  <2> QED BY <2>1, <2>2
<1>21. w'.sched = At(r)'
  BY <1>3, <1>9 DEF At
<1> QED BY <1>3, <1>7, <1>11, <1>13, <1>15, <1>16, <1>17, <1>18, <1>19, <1>20, <1>21 DEF Scheduled


\* The plays of the stream have come somewhere.
Placed == \E k, mark : Scheduled(mark, k)

-----------------------------------------------------------------------------
(* The steps.                                                              *)

\* Steps that leave the queue and the schedule alone.
LEMMA QuietSteps ==
    ASSUME Calm, WaveInv', Unharmed', Placed,
           \/ Timer \/ PollNothing \/ SubmitEnds \/ WriteAdvances \/ WriteCounts
           \/ Pause \/ Pauses \/ Restart \/ Reset \/ ResetCollects \/ BreakLoop
           \/ Pull \/ Interrupt \/ LoseBusMaster \/ GetBusMaster \/ Plug
           \/ \E forget \in BOOLEAN : Unplug(forget),
           NEW k, NEW mark, Scheduled(mark, k)
    PROVE  Nested' /\ Scheduled(mark, k)'
<1>r. w \in Waves /\ app \in Applications /\ queue \in [Index -> Buffers] /\ w.count \in Nat
  BY Basics, Before
<1>h. hurt' = {}
  BY DEF Unharmed
<1>1. CASE /\ UNCHANGED <<queue, plays>> /\ (app' = app \/ (app.pc # "linked" /\ app'.pc \notin {"linked", "advanced"} /\ app.pc # "advanced"))
           /\ w'.read = w.read /\ w'.count = w.count /\ w'.sched = w.sched
           /\ w'.active = w.active /\ w'.start = w.start /\ w'.loopOpen = w.loopOpen
  <2>1. Extra' = Extra
    BY <1>1 DEF Extra, Linked
  <2>2. (IF app'.pc = "linked" THEN app'.loopOpen ELSE w'.loopOpen)
          <=> (IF app.pc = "linked" THEN app.loopOpen ELSE w.loopOpen)
    BY <1>1
  <2>3. w.count <= w'.count /\ w'.count + Extra' = w.count + Extra
    BY <1>r, <1>1, <2>1
  <2>4. \A i \in Index : queue'[i].begins = queue[i].begins /\ queue'[i].ends = queue[i].ends
    BY <1>1
  <2> QED BY <1>1, <2>2, <2>3, <2>4, Quiet
<1>2. CASE Timer \/ PollNothing
  <2>1. UNCHANGED <<w, queue, plays, app>>
    BY <1>2 DEF Timer, PollNothing
  <2> QED BY <1>1, <2>1
<1>3. CASE Pause \/ Pauses \/ Restart \/ Reset
  <2>1. /\ UNCHANGED <<queue, plays>> /\ (w' = w \/ \E p : w' = [w EXCEPT !.paused = p])
        /\ app.pc \notin {"linked", "advanced"} /\ app'.pc \notin {"linked", "advanced"}
    BY <1>3 DEF Pause, Pauses, Restart, Reset, Calling, Resuming, Idle
  <2>2. /\ w'.read = w.read /\ w'.count = w.count /\ w'.sched = w.sched
        /\ w'.active = w.active /\ w'.start = w.start /\ w'.loopOpen = w.loopOpen
    BY <1>r, <2>1 DEF Waves
  <2> QED BY <1>1, <2>1, <2>2
<1>4. CASE ResetCollects
  <2>1. UNCHANGED <<queue, plays, w>> /\ app.pc = "resetting"
    BY <1>4 DEF ResetCollects, Resuming
  <2>2. app'.pc = "flushing"
    BY <1>r, <1>4 DEF ResetCollects, Applications
  <2> QED BY <1>1, <2>1, <2>2
<1>5. CASE BreakLoop
  <2>1. /\ UNCHANGED <<queue, plays, app>>
        /\ w' = [w EXCEPT !.breakNow = TRUE] \/ w' = [w EXCEPT !.breakNext = TRUE] \/ w' = w
    BY <1>5 DEF BreakLoop
  <2>2. /\ w'.read = w.read /\ w'.count = w.count /\ w'.sched = w.sched
        /\ w'.active = w.active /\ w'.start = w.start /\ w'.loopOpen = w.loopOpen
    BY <1>r, <2>1 DEF Waves
  <2> QED BY <1>1, <2>1, <2>2
<1>6. CASE Pull \/ Interrupt \/ GetBusMaster \/ Plug
  <2>1. UNCHANGED <<w, queue, plays, app>>
    BY <1>6 DEF Pull, Interrupt, GetBusMaster, Plug, waveVars
  <2> QED BY <1>1, <2>1
<1>7. CASE LoseBusMaster \/ \E forget \in BOOLEAN : Unplug(forget)
  BY <1>h, <1>7 DEF LoseBusMaster, Unplug, Fault
<1>8. CASE SubmitEnds
  <2>1. UNCHANGED <<plays, app>> /\ (w' = w \/ w' = Numbered)
        /\ (queue' = queue \/ queue' = [queue EXCEPT ![w.sched].token = Token])
    BY <1>8 DEF SubmitEnds
  <2>2. /\ w'.read = w.read /\ w'.count = w.count /\ w'.sched = w.sched
        /\ w'.active = w.active /\ w'.start = w.start /\ w'.loopOpen = w.loopOpen
    BY <1>r, <2>1 DEF Numbered, Waves
  <2>3. \A i \in Index : queue'[i].begins = queue[i].begins /\ queue'[i].ends = queue[i].ends
    BY <1>r, <2>1 DEF Buffers
  <2>4. Extra' = Extra /\ w.count <= w'.count /\ w'.count + Extra' = w.count + Extra
    BY <1>r, <2>1, <2>2 DEF Extra, Linked
  <2> QED BY <2>1, <2>2, <2>3, <2>4, Quiet
<1>9. CASE WriteAdvances
  <2>1. /\ app.pc = "linked" /\ UNCHANGED <<queue, plays>>
        /\ w' = [w EXCEPT !.loopOpen = app.loopOpen, !.write = NextIndex(w.write)]
        /\ app' = [app EXCEPT !.pc = "advanced"]
    BY <1>9 DEF WriteAdvances, Resuming
  <2>2. /\ w'.read = w.read /\ w'.count = w.count /\ w'.sched = w.sched
        /\ w'.active = w.active /\ w'.start = w.start /\ w'.loopOpen = app.loopOpen
        /\ app'.pc = "advanced"
    BY <1>r, <2>1 DEF Waves, Applications
  <2>4. Extra' = Extra /\ w.count <= w'.count /\ w'.count + Extra' = w.count + Extra
    BY <1>r, <2>1, <2>2 DEF Extra, Linked
  <2>5. (IF app'.pc = "linked" THEN app'.loopOpen ELSE w'.loopOpen)
          <=> (IF app.pc = "linked" THEN app.loopOpen ELSE w.loopOpen)
    BY <2>1, <2>2
  <2>6. \A i \in Index : queue'[i].begins = queue[i].begins /\ queue'[i].ends = queue[i].ends
    BY <2>1
  <2> QED BY <2>1, <2>2, <2>4, <2>5, <2>6, Quiet
<1>10. CASE WriteCounts
  <2>1. /\ app.pc = "advanced" /\ UNCHANGED <<queue, plays>> /\ app' = Idle
        /\ w' = [w EXCEPT !.count = w.count + 1]
    BY <1>10 DEF WriteCounts, Resuming
  <2>2. /\ w'.read = w.read /\ w'.count = w.count + 1 /\ w'.sched = w.sched
        /\ w'.active = w.active /\ w'.start = w.start /\ w'.loopOpen = w.loopOpen
        /\ app'.pc = "idle"
    BY <1>r, <2>1, IdleType DEF Waves
  <2>3. Extra = 1 /\ Extra' = 0
    BY <2>1, <2>2 DEF Extra, Linked
  <2>4. w.count <= w'.count /\ w'.count + Extra' = w.count + Extra
    BY <1>r, <2>2, <2>3
  <2>5. (IF app'.pc = "linked" THEN app'.loopOpen ELSE w'.loopOpen)
          <=> (IF app.pc = "linked" THEN app.loopOpen ELSE w.loopOpen)
    BY <2>1, <2>2
  <2>6. \A i \in Index : queue'[i].begins = queue[i].begins /\ queue'[i].ends = queue[i].ends
    BY <2>1
  <2> QED BY <2>1, <2>2, <2>4, <2>5, <2>6, Quiet
<1> QED BY <1>2, <1>3, <1>4, <1>5, <1>6, <1>7, <1>8, <1>9, <1>10

\* The flags of the taken slots that a chunk keeps.
LEMMA TakenFlags ==
    ASSUME Calm, FlagsKept(w.sched)
    PROVE  /\ \A x \in 0 .. Extent - 1 : /\ queue'[At(x)].begins = queue[At(x)].begins
                                         /\ queue'[At(x)].ends = queue[At(x)].ends
           /\ \A i \in Index : queue'[i].begins = queue[i].begins /\ queue'[i].ends = queue[i].ends
<1>1. \A x \in 0 .. Extent - 1 : x \in Index
  BY Basics
<1>2. \A x \in 0 .. Extent - 1 : At(x) \in Index
  BY <1>1, Slots
<1> QED BY <1>2 DEF FlagsKept

\* A submission goes on with the schedule, or ends a play and goes on.
LEMMA SubmitPlaced ==
    ASSUME Calm, WaveInv', Unharmed', Placed, SubmitChunk
    PROVE  Nested' /\ Placed'
<1>1. PICK b, a, f, done : Chunked(b, a, f, done)
  BY Basics, ChunkedFacts
<1>2. PICK k, mark : Scheduled(mark, k)
  BY DEF Placed
<1>3. MaySubmit /\ hurt' = {} /\ hurt' = hurt \cup Laps
  BY DEF SubmitChunk, Unharmed
<1>4. ~Lapped
  BY <1>3 DEF Laps
<1>5. k \in 0 .. w.count - 1 /\ k < w.count
  <2>1. k \in 0 .. w.count - 1
    BY <1>2, <1>3, <1>4, Behind
  <2> QED BY <2>1, Basics
<1>6. /\ w'.read = w.read /\ w'.count = w.count /\ w'.loopOpen = w.loopOpen /\ app' = app
      /\ ~done => CursorKept
  <2>1. w'.read = w.read /\ w'.count = w.count /\ w'.loopOpen = w.loopOpen
        /\ (~done => CursorKept)
    BY <1>1, ChunkedSlots
  <2>2. app' = app
    BY <1>1 DEF Chunked
  <2> QED BY <2>1, <2>2
<1>7. FlagsKept(w.sched)
  BY <1>1, ChunkedSlots
<1>8. Extra' = Extra /\ w.count <= w'.count /\ w'.count + Extra' = w.count + Extra
  BY <1>6, Basics DEF Extra, Linked
<1>9. (IF app'.pc = "linked" THEN app'.loopOpen ELSE w'.loopOpen)
        <=> (IF app.pc = "linked" THEN app.loopOpen ELSE w.loopOpen)
  BY <1>6
<1>10. Nested'
  BY <1>6, <1>7, <1>8, <1>9, TakenFlags, StillNested
<1>11. CASE ~done
  <2>1. /\ w'.sched = w.sched /\ w'.active = w.active /\ w'.start = w.start /\ plays' = plays
    BY <1>6, <1>11 DEF CursorKept
  <2>2. Scheduled(mark, k)'
    BY <1>2, <1>6, <1>7, <1>8, <1>9, <2>1, TakenFlags, Quiet
  <2> QED BY <1>10, <2>2 DEF Placed
<1>12. CASE done
  <2>1. Chunked(b, a, f, TRUE)
    <3>1. done = TRUE
      BY <1>1, <1>12 DEF Chunked
    <3> QED BY <1>1, <3>1, Zenon
  <2>2. PICK s : s = mark[Len(plays)]
    OBVIOUS
  <2>3. PICK q, r : q = MarkAfter(b, f, s, k) /\ r = NextAfter(b, f, s, k)
    OBVIOUS
  <2>4. PICK m : m = Later(mark, q)
    OBVIOUS
  <2>5. Scheduled(m, r)'
    BY <1>2, <1>5, <2>1, <2>2, <2>3, <2>4, ChunkScheduled
  <2> QED BY <1>10, <2>5 DEF Placed
<1> QED BY <1>1, <1>11, <1>12 DEF Chunked

\* A completion.
LEMMA PollPlaced ==
    ASSUME Calm, WaveInv', Placed, PollCompletes
    PROVE  Nested' /\ Placed'
<1>1. PICK k, mark : Scheduled(mark, k)
  BY DEF Placed
<1>2. PICK m : m = Sooner(mark)
  OBVIOUS
<1>3. Popped(mark[1])
  BY <1>1, PoppedFacts
<1>4. PICK n : n = k - mark[1]
  OBVIOUS
<1>5. Nested' /\ Scheduled(m, k - mark[1])'
  BY <1>1, <1>2, <1>3, PollScheduled
<1>6. Scheduled(m, n)'
  BY <1>4, <1>5
<1> QED BY <1>5, <1>6 DEF Placed

\* A call that opens or closes the stream, or a reset, leaves an empty queue.
LEMMA EmptyPlaced ==
    ASSUME Calm, WaveInv', Open \/ OpenFails \/ Close \/ ResetFlushes
    PROVE  Nested' /\ Placed'
<1>1. w \in Waves /\ app.pc \notin {"linked", "advanced"}
  BY Basics DEF Open, OpenFails, Close, ResetFlushes, Calling, Resuming
<1>2. plays' = <<>> /\ (app' = app \/ app' = Idle)
  BY DEF Open, OpenFails, Close, ResetFlushes
<1>3. ~Linked'
  BY <1>1, <1>2, IdleType DEF Linked
<1>4. w'.count = 0 /\ w'.sched = w'.read /\ ~w'.active /\ ~w'.loopOpen
  <2>1. CASE ResetFlushes
    <3>1. w' = Emptied(w)
      BY <2>1 DEF ResetFlushes
    <3> QED BY <1>1, <3>1, EmptiedFacts
  <2>2. CASE Open \/ OpenFails \/ Close
    <3>s. PICK s : s = NextStream
      OBVIOUS
    <3>o. PICK o : o = [Closed EXCEPT !.open = TRUE, !.stream = s, !.nextToken = 1]
      OBVIOUS
    <3>1. w' = Closed \/ w' = o
      BY <2>2, <3>s, <3>o, Zenon DEF Open, OpenFails, Close
    <3>2. /\ o.count = 0 /\ o.sched = 0 /\ o.read = 0 /\ o.active = FALSE /\ o.loopOpen = FALSE
          /\ Closed.count = 0 /\ Closed.sched = 0 /\ Closed.read = 0
          /\ Closed.active = FALSE /\ Closed.loopOpen = FALSE
      BY <3>o DEF Closed
    <3> QED BY <3>1, <3>2
  <2> QED BY <2>1, <2>2
<1> QED BY <1>2, <1>3, <1>4, EmptyScheduled DEF Placed


\* LoopStep, before and after a step.
LEMMA LoopSteps ==
    ASSUME TRUE
    PROVE  (\A c \in Nat : InLoop(c + 1) <=> (InLoop(c) \/ Slot(c).begins) /\ ~Slot(c).ends)'
<1>1. \A c \in Nat : InLoop(c + 1) <=> (InLoop(c) \/ Slot(c).begins) /\ ~Slot(c).ends
  BY LoopStep
<1> QED BY <1>1, PTL

\* The buffer that is written opens a loop, ends it, or is in it.
LEMMA WritePlaced ==
    ASSUME Calm, WaveInv', NEW h, NEW n, NEW begins \in BOOLEAN, NEW ends \in BOOLEAN,
           NEW loops, Write(h, n, begins, ends, loops),
           NEW k, NEW mark, Scheduled(mark, k)
    PROVE  Nested' /\ Scheduled(mark, k)'
<1>1. PICK b, c : c = w.count /\ b = [NoBuffer EXCEPT !.header = h, !.size = n,
                        !.begins = begins, !.ends = ends, !.loops = loops]
  OBVIOUS
<1>2. /\ app.pc = "idle" /\ w.count < QueueCapacity /\ plays' = plays
      /\ begins => ~w.loopOpen
      /\ ends => w.loopOpen \/ begins
      /\ queue' = [queue EXCEPT ![w.write] = b]
      /\ w' = IF c = 0 THEN [w EXCEPT !.read = w.write, !.sched = w.write] ELSE w
      /\ app' = [Idle EXCEPT !.pc = "linked", !.loopOpen = (w.loopOpen \/ begins) /\ ~ends]
  BY <1>1, Zenon DEF Write, Calling
<1>3. /\ w \in Waves /\ c \in Nat /\ c \in Index /\ c \in 0 .. QueueCapacity
      /\ queue \in [Index -> Buffers] /\ ~Linked /\ Extra = 0 /\ Extent = c
  <2>1. w \in Waves /\ c \in Nat /\ c \in Index /\ c \in 0 .. QueueCapacity
    BY <1>1, <1>2, Basics
  <2>2. ~Linked /\ Extra = 0
    BY <1>2 DEF Linked, Extra
  <2> QED BY <1>1, <2>1, <2>2, Basics, Before
<1>4. w.write = At(c) /\ At(c) \in Index
  <2>1. w.write = At(c)
    BY <1>1, <1>2, Basics DEF Shape
  <2> QED BY <1>3, <2>1, Slots
<1>5. /\ w'.read = w.read /\ w'.sched = w.sched /\ w'.count = c /\ w'.loopOpen = w.loopOpen
      /\ w'.active = w.active /\ w'.start = w.start
  <2>1. CASE c = 0
    <3>1. k = 0 /\ w.sched = At(k) /\ At(0) = w.read
      BY <1>1, <2>1, Slots DEF Scheduled
    <3>2. w.write = w.read /\ w.sched = w.read
      BY <1>4, <2>1, <3>1
    <3> QED BY <1>1, <1>2, <1>3, <2>1, <3>2 DEF Waves
  <2>2. CASE c # 0
    BY <1>1, <1>2, <2>2
  <2> QED BY <2>1, <2>2
<1>6. b.begins = begins /\ b.ends = ends
  BY <1>1 DEF NoBuffer
<1>7. app'.pc = "linked" /\ (app'.loopOpen <=> (w.loopOpen \/ begins) /\ ~ends)
  BY <1>2 DEF Idle
<1>8. queue'[At(c)] = b
  BY <1>2, <1>3, <1>4
<1>9. \A x \in 0 .. c - 1 : /\ queue'[At(x)].begins = queue[At(x)].begins
                            /\ queue'[At(x)].ends = queue[At(x)].ends
  <2> SUFFICES ASSUME NEW x \in 0 .. c - 1 PROVE queue'[At(x)] = queue[At(x)]
    OBVIOUS
  <2>1. x \in Index /\ x # c
    BY <1>1, <1>3, Basics
  <2>2. At(x) # At(c) /\ At(x) \in Index
    BY <1>3, <2>1, Slots
  <2> QED BY <1>2, <1>3, <1>4, <2>2
<1>10. Scheduled(mark, k)'
  <2>1. w.count <= w'.count
    BY <1>1, <1>3, <1>5
  <2> QED BY <1>1, <1>2, <1>5, <1>9, <2>1, StillScheduled
<1>11. /\ \A x \in 0 .. c : InLoop(x)' <=> InLoop(x)
       /\ \A x \in 0 .. c - 1 : /\ Slot(x)'.begins = Slot(x).begins
                                /\ Slot(x)'.ends = Slot(x).ends
  BY <1>3, <1>5, <1>9, SameLoops
<1>12. Slot(c)' = b
  BY <1>5, <1>8 DEF Slot, At
<1>13. /\ \A x \in 0 .. c - 1 : /\ Slot(x).begins => ~InLoop(x)
                                /\ Slot(x).ends => InLoop(x) \/ Slot(x).begins
       /\ InLoop(c) <=> w.loopOpen
  <2>1. Nested
    BY Basics
  <2> QED BY <1>2, <1>3, <2>1 DEF Nested
<1>14. InLoop(c)' <=> w.loopOpen
  <2>1. c \in 0 .. c
    BY <1>3
  <2> QED BY <1>11, <1>13, <2>1
<1>15. Extent' = c + 1
  BY <1>5, <1>7 DEF Extent, Extra, Linked
<1>16. InLoop(Extent)' <=> app'.loopOpen
  <2>1. InLoop(c + 1)' <=> (InLoop(c)' \/ Slot(c)'.begins) /\ ~Slot(c)'.ends
    BY <1>3, LoopSteps
  <2>2. InLoop(Extent)' <=> InLoop(c + 1)'
    BY <1>15
  <2> QED BY <1>6, <1>7, <1>12, <1>14, <2>1, <2>2
<1>17. \A x \in 0 .. c : /\ Slot(x)'.begins => ~InLoop(x)'
                         /\ Slot(x)'.ends => InLoop(x)' \/ Slot(x)'.begins
  <2> SUFFICES ASSUME NEW x \in 0 .. c
               PROVE  /\ Slot(x)'.begins => ~InLoop(x)'
                      /\ Slot(x)'.ends => InLoop(x)' \/ Slot(x)'.begins
    OBVIOUS
  <2>1. CASE x = c
    BY <1>2, <1>6, <1>12, <1>14, <2>1
  <2>2. CASE x # c
    <3>1. x \in 0 .. c - 1
      BY <1>3, <2>2
    <3> QED BY <1>11, <1>13, <3>1
  <2> QED BY <2>1, <2>2
<1>18. (c + 1) - 1 = c
  BY <1>3
<1> QED BY <1>7, <1>10, <1>15, <1>16, <1>17, <1>18 DEF Nested

-----------------------------------------------------------------------------
(* What the VxD waits with.                                                *)

\* Steps that neither submit, complete nor reset.
LEMMA QuietAnswers ==
    ASSUME Calm, Unharmed',
           \/ Timer \/ PollNothing \/ SubmitEnds \/ WriteAdvances \/ WriteCounts
           \/ Pause \/ Pauses \/ Restart \/ ResetCollects \/ BreakLoop
           \/ Pull \/ Interrupt \/ LoseBusMaster \/ GetBusMaster \/ Plug
           \/ (\E forget \in BOOLEAN : Unplug(forget))
           \/ \E h, n, begins, ends, loops : Write(h, n, begins, ends, loops)
    PROVE  Answers'
<1>r. w \in Waves /\ app \in Applications /\ tr \in Transports
  BY Basics, Before, Records
<1>h. hurt' = {} /\ Answers
  BY Basics DEF Unharmed
<1>1. CASE /\ plays' = plays /\ tr'.completions = tr.completions /\ w'.open = w.open
           /\ (app'.pc \in {"resetting", "flushing"} <=> app.pc \in {"resetting", "flushing"})
  <2>1. Resetting' <=> Resetting
    BY <1>1 DEF Resetting
  <2> QED BY <1>h, <1>1, <2>1 DEF Answers
<1>2. CASE Timer \/ PollNothing \/ Pull \/ GetBusMaster
  <2>1. UNCHANGED <<w, plays, app, tr>>
    BY <1>2 DEF Timer, PollNothing, Pull, PcmPull, GetBusMaster, PcmBusMaster, waveVars
  <2> QED BY <1>1, <2>1
<1>3. CASE SubmitEnds \/ BreakLoop
  <2>1. /\ UNCHANGED <<plays, app, tr>>
        /\ (w' = w \/ w' = Numbered \/ w' = [w EXCEPT !.breakNow = TRUE]
            \/ w' = [w EXCEPT !.breakNext = TRUE])
    BY <1>3 DEF SubmitEnds, BreakLoop
  <2>2. w'.open = w.open
    BY <1>r, <2>1 DEF Numbered, Waves
  <2> QED BY <1>1, <2>1, <2>2
<1>4. CASE WriteAdvances \/ WriteCounts
  <2>1. /\ UNCHANGED <<plays, tr>>
        /\ (w' = [w EXCEPT !.count = w.count + 1]
            \/ w' = [w EXCEPT !.loopOpen = app.loopOpen, !.write = NextIndex(w.write)])
        /\ app.pc \in {"linked", "advanced"} /\ (app' = Idle \/ app' = [app EXCEPT !.pc = "advanced"])
    BY <1>4 DEF WriteAdvances, WriteCounts, Resuming
  <2>2. w'.open = w.open
    BY <1>r, <2>1 DEF Waves
  <2>3. app'.pc \in {"idle", "advanced"}
    BY <1>r, <2>1, IdleType DEF Applications
  <2> QED BY <1>1, <2>1, <2>2, <2>3
<1>5. CASE Pause \/ Pauses \/ Restart
  <2>1. /\ plays' = plays /\ (tr' = tr \/ \E p : tr' = [tr EXCEPT !.paused = p])
        /\ (w' = w \/ \E p : w' = [w EXCEPT !.paused = p])
        /\ app.pc \in {"idle", "pausing"} /\ app'.pc \in {"idle", "pausing"}
    BY <1>5 DEF Pause, Pauses, Restart, PmPause, PmRestart, Calling, Resuming, Idle
  <2>2. w'.open = w.open /\ tr'.completions = tr.completions
    BY <1>r, <2>1 DEF Waves, Transports
  <2> QED BY <1>1, <2>1, <2>2
<1>6. CASE ResetCollects
  <2>1. UNCHANGED <<plays, w, tr>> /\ app.pc = "resetting"
    BY <1>6 DEF ResetCollects, Resuming
  <2>2. app'.pc = "flushing"
    BY <1>r, <1>6 DEF ResetCollects, Applications
  <2> QED BY <1>1, <2>1, <2>2
<1>7. CASE Interrupt
  <2>1. UNCHANGED <<w, plays, app>> /\ tr' = [tr EXCEPT !.invalid = TRUE]
    BY <1>7 DEF Interrupt, PcmInterrupt, waveVars
  <2>2. tr'.completions = tr.completions
    BY <1>r, <2>1 DEF Transports
  <2> QED BY <1>1, <2>1, <2>2
<1>8. CASE Plug
  <2>1. UNCHANGED <<w, plays, app>>
    BY <1>8 DEF Plug, waveVars
  <2>2. CASE tr' = tr
    BY <1>1, <2>1, <2>2
  <2>3. CASE tr' # tr
    <3>1. ~tr.bound
      BY <1>8, <2>3 DEF Plug, PnpRegister, PnpStart
    <3>2. ~w.open
      BY <3>1, Basics, ValidStream
    <3>3. app.pc = "idle"
      BY <3>2, Basics, Before
    <3> QED BY <2>1, <3>2, <3>3 DEF Answers, Resetting
  <2> QED BY <2>2, <2>3
<1>9. CASE LoseBusMaster \/ \E forget \in BOOLEAN : Unplug(forget)
  BY <1>h, <1>9 DEF LoseBusMaster, Unplug, Fault
<1>10. CASE \E h, n, begins, ends, loops : Write(h, n, begins, ends, loops)
  <2>1. PICK h, n, begins, ends, loops : Write(h, n, begins, ends, loops)
    BY <1>10
  <2>2. /\ plays' = plays /\ tr' = tr /\ app.pc = "idle"
        /\ (w' = [w EXCEPT !.read = w.write, !.sched = w.write] \/ w' = w)
        /\ app' = [Idle EXCEPT !.pc = "linked", !.loopOpen = (w.loopOpen \/ begins) /\ ~ends]
    BY <2>1, Zenon DEF Write, Calling
  <2>3. w'.open = w.open /\ app'.pc = "linked"
    BY <1>r, <2>2 DEF Waves, Idle
  <2> QED BY <1>1, <2>2, <2>3
<1> QED BY <1>2, <1>3, <1>4, <1>5, <1>6, <1>7, <1>8, <1>9, <1>10


\* A submission and a completion change both ends alike.
LEMMA PumpAnswers ==
    ASSUME Calm, Placed, SubmitChunk \/ PollCompletes
    PROVE  Answers'
<1>r. /\ w \in Waves /\ app \in Applications /\ tr \in Transports /\ plays \in Seq(Plays)
      /\ tr.completions \in Seq(Completion)
  <2>1. tr \in Transports /\ tr.completions \in Seq(Completion)
    BY Basics, PcmParts DEF PcmInv, Transports
  <2> QED BY <2>1, Basics, Before
<1>1. pump # "off"
  BY DEF SubmitChunk, MaySubmit, PollCompletes
<1>2. w.open /\ ~Resetting /\ app' = app
  BY <1>1, PumpAlone DEF SubmitChunk, PollCompletes
<1>3. ~Resetting'
  BY <1>2 DEF Resetting
<1>4. PICK l : l = Len(plays)
  OBVIOUS
<1>5. /\ Len(tr.completions) = l /\ l \in Nat
      /\ \A i \in 1 .. l : tr.completions[i].token = plays[i].token
  BY <1>r, <1>2, <1>4, Basics DEF Answers
<1>6. CASE SubmitChunk
  <2>1. PICK b, a, f, done : Chunked(b, a, f, done)
    BY <1>6, Basics, ChunkedFacts
  <2>2. PICK t, g : t = Token /\ g = tr.submitted + a
    OBVIOUS
  <2>3. PICK p : p = [token |-> t, index |-> w.sched, complete |-> f.complete,
                    release |-> f.release, from |-> f.from, to |-> w.sched]
    OBVIOUS
  <2>4. PICK e : e = [token |-> t, target |-> g]
    OBVIOUS
  <2>5. plays' = IF done THEN Append(plays, p) ELSE plays
    BY <2>1, <2>2, <2>3, Zenon DEF Chunked
  <2>6. PICK z : z = IF done THEN Append(tr.completions, e) ELSE tr.completions
    OBVIOUS
  <2>7. tr' = [tr EXCEPT !.tail = (tr.tail + a) % RingFrames, !.submitted = g, !.completions = z]
    BY <2>1, <2>2, <2>4, <2>6, Zenon DEF Chunked
  <2>8. tr'.completions = z
    BY <1>r, <2>7 DEF Transports
  <2>9. p.token = e.token
    BY <2>3, <2>4
  <2>10. CASE done
    <3>1. plays' = Append(plays, p) /\ tr'.completions = Append(tr.completions, e)
      BY <2>5, <2>6, <2>8, <2>10
    <3>2. /\ Len(plays') = l + 1 /\ (\A i \in 1 .. l : plays'[i] = plays[i]) /\ plays'[l + 1] = p
      BY <1>r, <1>4, <3>1
    <3>3. /\ Len(tr'.completions) = l + 1
          /\ (\A i \in 1 .. l : tr'.completions[i] = tr.completions[i]) /\ tr'.completions[l + 1] = e
      BY <1>r, <1>5, <3>1
    <3>4. \A i \in 1 .. l + 1 : i \in 1 .. l \/ i = l + 1
      BY <1>5
    <3>5. \A i \in 1 .. l + 1 : tr'.completions[i].token = plays'[i].token
      BY <1>5, <2>9, <3>2, <3>3, <3>4
    <3> QED BY <1>3, <3>2, <3>3, <3>5 DEF Answers
  <2>11. CASE ~done
    <3>1. plays' = plays /\ tr'.completions = tr.completions
      BY <2>5, <2>6, <2>8, <2>11
    <3> QED BY <1>2, <1>3, <3>1, Basics DEF Answers
  <2> QED BY <2>10, <2>11
<1>7. CASE PollCompletes
  <2>1. PICK k, mark : Scheduled(mark, k)
    BY DEF Placed
  <2>2. Popped(mark[1])
    BY <1>7, <2>1, PoppedFacts
  <2>3. plays' = Tail(plays) /\ plays # <<>> /\ tr'.completions = Tail(tr.completions)
    BY <2>2 DEF Popped
  <2>4. l \in Nat \ {0} /\ Len(plays') = l - 1 /\ \A i \in 1 .. l - 1 : plays'[i] = plays[i + 1]
    BY <1>r, <1>4, <2>3
  <2>5. Len(tr'.completions) = l - 1 /\ \A i \in 1 .. l - 1 : tr'.completions[i] = tr.completions[i + 1]
    <3>1. tr.completions # <<>>
      BY <1>5, <2>4
    <3> QED BY <1>r, <1>5, <2>3, <2>4, <3>1
  <2>6. \A i \in 1 .. l - 1 : i + 1 \in 1 .. l
    BY <2>4
  <2>7. \A i \in 1 .. l - 1 : tr'.completions[i].token = plays'[i].token
    BY <1>5, <2>4, <2>5, <2>6
  <2> QED BY <1>3, <2>4, <2>5, <2>7 DEF Answers
<1> QED BY <1>6, <1>7

\* A stream that is opened, closed or reset waits with nothing.
LEMMA EmptyAnswers ==
    ASSUME Calm, Open \/ OpenFails \/ Close \/ Reset \/ ResetFlushes
    PROVE  Answers'
<1>r. w \in Waves /\ app \in Applications /\ tr \in Transports /\ Answers
  BY Basics, Before, Records
<1>1. CASE Open
  <2>1. /\ plays' = <<>> /\ app' = app /\ app.pc = "idle"
        /\ ProgramStream([tr EXCEPT !.opened = TRUE, !.stream = NextStream])
    BY <1>1 DEF Open, PmOpen, Calling
  <2>2. PICK t : t = [tr EXCEPT !.opened = TRUE, !.stream = NextStream]
    OBVIOUS
  <2>3. t \in Transports
    <3>1. PICK s : s = NextStream
      OBVIOUS
    <3>2. s \in Nat /\ t = [tr EXCEPT !.opened = TRUE, !.stream = s]
      BY <1>r, <2>2, <3>1 DEF Transports, NextStream
    <3> QED BY <1>r, <3>2 DEF Transports
  <2>4. tr' = [t EXCEPT !.tail = 0, !.submitted = 0, !.completions = <<>>,
                      !.invalid = FALSE, !.paused = FALSE]
    BY <2>1, <2>2 DEF ProgramStream
  <2>5. tr'.completions = <<>>
    BY <2>3, <2>4 DEF Transports
  <2> QED BY <2>1, <2>5 DEF Answers, Resetting
<1>2. CASE OpenFails \/ Close
  <2>1. w' = Closed /\ app' = app /\ app.pc = "idle"
    BY <1>2 DEF OpenFails, Close, Calling
  <2>2. ~w'.open
    BY <2>1 DEF Closed
  <2> QED BY <2>1, <2>2 DEF Answers, Resetting
<1>3. CASE Reset
  <2>1. PmReset(w.stream) /\ app'.pc = "resetting"
    BY <1>3, Basics, ValidStream DEF Reset, Idle
  <2>2. tr' = [tr EXCEPT !.tail = 0, !.submitted = 0, !.completions = <<>>,
                      !.invalid = FALSE, !.paused = FALSE]
    BY <2>1 DEF PmReset, ProgramStream
  <2>3. tr'.completions = <<>>
    BY <1>r, <2>2 DEF Transports
  <2> QED BY <2>1, <2>3 DEF Answers, Resetting
<1>4. CASE ResetFlushes
  <2>1. app.pc = "flushing" /\ tr' = tr /\ plays' = <<>> /\ app'.pc = "idle"
    BY <1>4, IdleType DEF ResetFlushes, Resuming
  <2>2. tr.completions = <<>>
    BY <1>r, <2>1 DEF Answers, Resetting
  <2> QED BY <2>1, <2>2 DEF Answers, Resetting
<1> QED BY <1>1, <1>2, <1>3, <1>4

-----------------------------------------------------------------------------
(* The invariant.                                                          *)

(* While nothing has happened that the guarantees do not cover, nothing is *)
(* wrong with the stream, and no header has gone back unplayed.            *)
Proper    == Healthy /\ Answers /\ Nested /\ Placed /\ NoneAborted
StreamInv == Unharmed => Proper

\* The first state.
LEMMA InitStream == ASSUME Init PROVE StreamInv
<1>1. /\ w = Closed /\ queue = NoQueue /\ plays = <<>> /\ app = Idle /\ pump = "off"
      /\ outcome = [h \in Headers |-> "none"]
      /\ tr = Unbound /\ dev = DeviceReset([master |-> TRUE])
  BY DEF Init, PcmInit
<1>2. WaveInv /\ w \in Waves
  BY InitInv, Before
<1>3. w.open = FALSE /\ w.count = 0 /\ w.sched = 0 /\ w.read = 0 /\ ~w.active /\ ~w.loopOpen
  BY <1>1 DEF Closed
<1>4. app.pc = "idle" /\ ~Linked /\ Extra = 0 /\ Extent = 0
  BY <1>1, <1>3, IdleType DEF Linked, Extra, Extent
<1>5. Healthy
  BY <1>1, <1>3 DEF Healthy, Unbound, DeviceReset
<1>6. Answers
  BY <1>3, <1>4 DEF Answers, Resetting
<1>7. Nested
  BY <1>3, <1>4, OutsideAtFirst DEF Nested
<1>8. Placed
  <2>1. At(0) = 0
    <3>1. (0 + 0) % QueueCapacity = 0
      BY QueueSize, ModIs
    <3> QED BY <1>3, <3>1 DEF At
  <2>2. PICK m : m = [i \in 0 .. 0 |-> 0]
    OBVIOUS
  <2>3. m \in [0 .. 0 -> 0 .. 0] /\ m[0] = 0 /\ \A i \in 0 .. 0 : m[i] = 0
    BY <2>2
  <2>4. Len(plays) = 0
    BY <1>1
  <2>5. Scheduled(m, 0)
    BY <1>3, <2>1, <2>3, <2>4, OutsideAtFirst DEF Scheduled
  <2> QED BY <2>5 DEF Placed
<1>9. NoneAborted
  BY <1>1 DEF NoneAborted
<1> QED BY <1>5, <1>6, <1>7, <1>8, <1>9 DEF StreamInv, Proper

\* Only the abort of a queue gives a header back as aborted.
LEMMA OutcomesOfSteps ==
    ASSUME NoneAborted, Next, ~PollAborts, ~SubmitAborts
    PROVE  NoneAborted'
<1>1. CASE outcome' = outcome
  BY <1>1 DEF NoneAborted
<1>2. CASE PollCompletes \/ ResetFlushes
  <2>1. PICK s, how : how # "aborted" /\ outcome' = [h \in Headers |-> IF h \in s THEN how ELSE outcome[h]]
    BY <1>2 DEF PollCompletes, ResetFlushes, Return
  <2> QED BY <2>1 DEF NoneAborted
<1>3. CASE \E h, n, begins, ends, loops : Write(h, n, begins, ends, loops)
  <2>1. PICK h : outcome' = [outcome EXCEPT ![h] = "queued"]
    BY <1>3, Zenon DEF Write
  <2> QED BY <2>1 DEF NoneAborted
<1>4. CASE \/ Timer \/ PollNothing \/ SubmitChunk \/ SubmitEnds
           \/ Open \/ OpenFails \/ Close \/ Pause \/ Restart \/ Reset \/ BreakLoop
           \/ WriteAdvances \/ WriteCounts \/ Pauses \/ ResetCollects
  <2>1. outcome' = outcome
    BY <1>4 DEF Timer, PollNothing, SubmitChunk, SubmitEnds, Open, OpenFails, Close, Pause,
                Restart, Reset, BreakLoop, WriteAdvances, WriteCounts, Pauses, ResetCollects
  <2> QED BY <1>1, <2>1
<1>5. CASE \/ Pull \/ Interrupt \/ LoseBusMaster \/ GetBusMaster \/ Plug
           \/ \E forget \in BOOLEAN : Unplug(forget)
  <2>1. outcome' = outcome
    BY <1>5 DEF Pull, Interrupt, LoseBusMaster, GetBusMaster, Plug, Unplug, waveVars
  <2> QED BY <1>1, <2>1
<1> QED BY <1>2, <1>3, <1>4, <1>5, Zenon DEF Next, Pumping, Calls, Continues

\* What has happened is not forgotten.
LEMMA HurtStays == ASSUME [Next]_vars PROVE hurt \subseteq hurt'
<1>1. CASE UNCHANGED vars
  BY <1>1 DEF vars
<1>2. CASE Timer \/ LoseBusMaster \/ \E forget \in BOOLEAN : Unplug(forget)
  BY <1>2 DEF Timer, LoseBusMaster, Unplug, Fault
<1>3. CASE PollAborts \/ SubmitAborts \/ SubmitChunk
  BY <1>3 DEF PollAborts, SubmitAborts, SubmitChunk, Abort
<1>4. CASE \E h, n, begins, ends, loops : Write(h, n, begins, ends, loops)
  BY <1>4, Zenon DEF Write
<1>5. CASE \/ PollNothing \/ PollCompletes \/ SubmitEnds
           \/ Open \/ OpenFails \/ Close \/ Pause \/ Restart \/ Reset \/ BreakLoop
           \/ Continues \/ Pull \/ Interrupt \/ GetBusMaster \/ Plug
  BY <1>5 DEF PollNothing, PollCompletes, SubmitEnds, Open, OpenFails, Close, Pause,
              Restart, Reset, BreakLoop, Continues, WriteAdvances, WriteCounts, Pauses,
              ResetCollects, ResetFlushes, Pull, Interrupt, GetBusMaster, Plug, waveVars
<1> QED BY <1>1, <1>2, <1>3, <1>4, <1>5, Zenon DEF Next, Pumping, Calls

\* A step that harms nothing keeps the stream in order.
LEMMA StreamStep ==
    ASSUME PcmInv, WaveInv, StreamInv, [Next]_vars
    PROVE  StreamInv'
<1> SUFFICES ASSUME Unharmed' PROVE Proper'
  BY DEF StreamInv
<1>1. PcmInv' /\ WaveInv'
  BY NextInv
<1>2. Unharmed
  BY HurtStays DEF Unharmed
<1>3. Calm /\ Placed /\ NoneAborted
  BY <1>2 DEF Calm, StreamInv, Proper
<1>4. PICK k, mark : Scheduled(mark, k)
  BY <1>3 DEF Placed
<1>5. CASE UNCHANGED vars
  <2>1. UNCHANGED <<tr, dev, w, queue, plays, app, pump, outcome>>
    BY <1>5 DEF vars
  <2>2. Healthy' /\ Answers' /\ NoneAborted'
    BY <1>3, <2>1, Basics DEF Healthy, Answers, Resetting, NoneAborted
  <2>3. Extra' = Extra /\ w.count <= w'.count /\ w'.count + Extra' = w.count + Extra
    BY <1>3, <2>1, Basics DEF Extra, Linked
  <2>4. Nested' /\ Scheduled(mark, k)'
    BY <1>1, <1>3, <1>4, <2>1, <2>3, Quiet
  <2> QED BY <2>2, <2>4 DEF Proper, Placed
<1>6. ~PollAborts /\ ~SubmitAborts
  BY <1>3, <1>4, NoPollAbort, NoSubmitAbort
<1>7. ASSUME Next PROVE NoneAborted'
  BY <1>3, <1>6, <1>7, OutcomesOfSteps
<1>8. CASE PollCompletes \/ SubmitChunk
  <2>1. Nested' /\ Placed'
    BY <1>1, <1>3, <1>8, PollPlaced, SubmitPlaced
  <2>2. Healthy' /\ Answers'
    BY <1>3, <1>8, HealthyPump, PumpAnswers
  <2>3. NoneAborted'
    BY <1>7, <1>8 DEF Next, Pumping
  <2> QED BY <2>1, <2>2, <2>3 DEF Proper
<1>9. CASE Open \/ OpenFails \/ Close \/ ResetFlushes
  <2>1. Nested' /\ Placed'
    BY <1>1, <1>3, <1>9, EmptyPlaced
  <2>2. Healthy' /\ Answers'
    BY <1>3, <1>9, HealthyCalls, HealthyControls, EmptyAnswers
  <2>3. NoneAborted'
    BY <1>7, <1>9 DEF Next, Calls, Continues
  <2> QED BY <2>1, <2>2, <2>3 DEF Proper
<1>10. ASSUME NEW h \in Headers, NEW n \in 1 .. MaxFrames, NEW begins \in BOOLEAN,
              NEW ends \in BOOLEAN, NEW loops \in 1 .. MaxLoops,
              begins \/ loops = 1, Write(h, n, begins, ends, loops)
       PROVE  Proper'
  <2>1. \E g, m, x, y, z : Write(g, m, x, y, z)
    BY <1>10
  <2>2. Nested' /\ Scheduled(mark, k)'
    BY <1>1, <1>3, <1>4, <1>10, WritePlaced
  <2>3. Healthy' /\ Answers'
    BY <1>3, <2>1, HealthyCalls, QuietAnswers
  <2>4. NoneAborted'
    BY <1>7, <1>10, Zenon DEF Next, Calls
  <2> QED BY <2>2, <2>3, <2>4 DEF Proper, Placed
<1>11. CASE \/ Timer \/ PollNothing \/ SubmitEnds \/ WriteAdvances \/ WriteCounts
            \/ Pause \/ Pauses \/ Restart \/ Reset \/ ResetCollects \/ BreakLoop
            \/ Pull \/ Interrupt \/ LoseBusMaster \/ GetBusMaster \/ Plug
            \/ \E forget \in BOOLEAN : Unplug(forget)
  <2>1. Nested' /\ Scheduled(mark, k)'
    BY <1>1, <1>3, <1>4, <1>11, QuietSteps
  <2>2. Healthy'
    BY <1>3, <1>11, HealthyPump, HealthyCalls, HealthyControls, HealthyDevice
  <2>3. Answers'
    BY <1>3, <1>11, QuietAnswers, EmptyAnswers
  <2>4. NoneAborted'
    BY <1>7, <1>11 DEF Next, Pumping, Calls, Continues
  <2> QED BY <2>1, <2>2, <2>3, <2>4 DEF Proper, Placed
<1> QED BY <1>5, <1>6, <1>8, <1>9, <1>10, <1>11, Zenon DEF Next, Pumping, Calls, Continues

\* What holds of the stream in every state.
THEOREM StreamHolds == Spec => [](PcmInv /\ WaveInv /\ StreamInv)
<1>1. Init => PcmInv /\ WaveInv /\ StreamInv
  BY InitInv, InitStream
<1>2. PcmInv /\ WaveInv /\ StreamInv /\ [Next]_vars => (PcmInv /\ WaveInv /\ StreamInv)'
  BY NextInv, StreamStep
<1> QED BY <1>1, <1>2, PTL DEF Spec

(* A header goes back unplayed only after a reset, a fault or a stop       *)
(* (gswsound_drv.c:275, 283-300, 428).                                     *)
THEOREM AbortsAreFaults == Spec => []AbortMeansFault
<1>1. StreamInv => AbortMeansFault
  BY DEF StreamInv, Unharmed, Proper, NoneAborted, AbortMeansFault
<1> QED BY <1>1, StreamHolds, PTL

-----------------------------------------------------------------------------
(* What was heard.                                                         *)

\* How often h occurs in s.
Count(s, h) == Cardinality({i \in DOMAIN s : s[i] = h})

(* What the histories hold.                                                *)
Outcomes == {"none", "queued", "played", "flushed", "aborted"}
Histories ==
    /\ heard \in [Headers -> [frames : Nat, size : Nat, times : Nat]]
    /\ outcome \in [Headers -> Outcomes]
    /\ budget \in [opens : Nat, writes : Nat, pauses : Nat, breaks : Nat, faults : Nat]

(* The device has pulled what was submitted, but for what is sent, and     *)
(* that belongs to headers that are queued.                                *)
Flow ==
    /\ ~w.open => ~tr.opened
    /\ w.open => /\ dev.position + Len(sent) = tr.submitted
                 /\ \A i \in 1 .. Len(sent) : sent[i] \in inqueue
    /\ w.open /\ Resetting => sent = <<>>

Queued   == \A h \in inqueue : outcome[h] = "queued"
Unbroken == budget.breaks = 0 => ~w.breakNow /\ ~w.breakNext

(* What was asked for the k-th buffer is its size, as often as the loop    *)
(* that the b-th begins and it is a member of, or once.                    *)
Asked(k)     == heard[Slot(k).header]
Member(b, k) == Slot(b).begins /\ \A x \in b .. k - 1 : ~Slot(x).ends
Sizes ==
    \A k \in 0 .. Extent - 1 :
        /\ Asked(k).size = Slot(k).size
        /\ \A b \in 0 .. k : Member(b, k) => Asked(k).times = Slot(b).loops
        /\ Slot(k).begins => Slot(k).loops > 0
        /\ ~InLoop(k) /\ ~Slot(k).begins => Asked(k).times = 1

\* The frames of the k-th buffer that were pulled or will be.
Given(k) == Asked(k).frames + Count(sent, Slot(k).header)

(* No buffer ends the loop that begins at s before the e-th; how many      *)
(* rounds of the loop at s the e-th buffer has had as a member of it.      *)
Unended(s, e) == \A x \in s .. e - 1 : ~Slot(x).ends
Rounds(s, e)  == IF w.active /\ Unended(s, e) THEN Slot(s).loops - w.remaining ELSE 0

(* The share of the o-th buffer, with the plays come to s and scheduling   *)
(* to k: all that was asked, or at a broken loop whole rounds; one round   *)
(* more than the loop has behind it; or just these, and what its slot says.*)
Share(s, k, o) ==
    IF o < s THEN \E n \in 1 .. Asked(o).times :
                      /\ Given(o) = n * Slot(o).size
                      /\ budget.breaks = 0 => n = Asked(o).times
    ELSE IF o < k THEN Given(o) = (Slot(s).loops - w.remaining + 1) * Slot(o).size
    ELSE Given(o) = Rounds(s, o) * Slot(o).size + Slot(o).submitted

\* The loop at s has rounds left, all of them while its end is not written.
Round(s) ==
    w.active => /\ w.remaining \in 1 .. Slot(s).loops
                /\ Unended(s, Extent) => w.remaining = Slot(s).loops

\* What a play returns is pulled when its completion is due.
Due(mark) ==
    \A i \in 1 .. Len(plays) : \A o \in mark[i - 1] .. mark[i] - 1 : \A f \in 1 .. Len(sent) :
        sent[f] = Slot(o).header => dev.position + f <= tr.completions[i].target

Told(mark, k) ==
    /\ Round(mark[Len(plays)])
    /\ \A o \in 0 .. Extent - 1 : Share(mark[Len(plays)], k, o)
    /\ \A o \in 0 .. Extent - 1 : o # k => Slot(o).submitted = 0
    /\ Due(mark)

\* The number of occurrences is a number.
LEMMA CountType ==
    ASSUME NEW s \in Seq(Sources), NEW h
    PROVE  Count(s, h) \in Nat /\ IsFiniteSet({i \in DOMAIN s : s[i] = h})
<1>1. DOMAIN s = 1..Len(s) /\ Len(s) \in Nat
  OBVIOUS
<1>2. IsFiniteSet(1..Len(s))
  BY <1>1, FS_Interval
<1>3. {i \in DOMAIN s : s[i] = h} \in SUBSET (1..Len(s))
  BY <1>1
<1>4. IsFiniteSet({i \in DOMAIN s : s[i] = h})
  BY <1>2, <1>3, FS_Subset
<1> QED BY <1>4, FS_CardinalityType DEF Count

\* What is not there does not occur.
LEMMA CountNone ==
    ASSUME NEW s \in Seq(Sources), NEW h, \A i \in 1 .. Len(s) : s[i] # h
    PROVE  Count(s, h) = 0
<1>1. {i \in DOMAIN s : s[i] = h} = {}
  OBVIOUS
<1> QED BY <1>1, FS_EmptySet DEF Count

\* A frame that is pulled does not occur any more.
LEMMA CountTail ==
    ASSUME NEW s \in Seq(Sources), s # <<>>, NEW h
    PROVE  Count(s, h) = Count(Tail(s), h) + IF Head(s) = h THEN 1 ELSE 0
<1> DEFINE P(t) == {i \in DOMAIN t : t[i] = h}
           n == Len(s)
           R == P(s) \ {1}
           f == [i \in P(Tail(s)) |-> i + 1]
<1>1. n \in Nat \ {0} /\ DOMAIN s = 1..n /\ DOMAIN Tail(s) = 1..n - 1
  OBVIOUS
<1>2. /\ \A i \in 1..n - 1 : Tail(s)[i] = s[i + 1]
      /\ Head(s) = s[1]
  OBVIOUS
<1>3. IsFiniteSet(P(s)) /\ Cardinality(P(s)) \in Nat /\ Tail(s) \in Seq(Sources)
  <2>1. Tail(s) \in Seq(Sources)
    OBVIOUS
  <2> QED BY <2>1, CountType DEF Count
<1>4. IsFiniteSet(P(Tail(s)))
  BY <1>3, CountType
<1>5. f \in Bijection(P(Tail(s)), R)
  <2>1. \A i \in P(Tail(s)) : i \in Nat /\ i + 1 \in R
    <3> HIDE DEF n
    <3> QED BY <1>1, <1>2
  <2>2. \A j \in R : j - 1 \in P(Tail(s)) /\ j \in Nat
    <3> HIDE DEF n
    <3> SUFFICES ASSUME NEW j \in R PROVE j - 1 \in P(Tail(s)) /\ j \in Nat
      OBVIOUS
    <3>1. j \in 1..n /\ j # 1 /\ s[j] = h
      BY <1>1
    <3>2. j - 1 \in 1..n - 1 /\ (j - 1) + 1 = j
      BY <1>1, <3>1
    <3>3. Tail(s)[j - 1] = s[j]
      BY <1>2, <3>2
    <3> QED BY <1>1, <3>1, <3>2, <3>3
  <2> HIDE DEF P, R
  <2>3. f \in [P(Tail(s)) -> R]
    BY <2>1
  <2>4. \A i, j \in P(Tail(s)) : f[i] = f[j] => i = j
    BY <2>1
  <2>5. \A j \in R : \E i \in P(Tail(s)) : f[i] = j
    <3> SUFFICES ASSUME NEW j \in R PROVE f[j - 1] = j /\ j - 1 \in P(Tail(s))
      OBVIOUS
    <3> QED BY <2>2
  <2> HIDE DEF f
  <2> QED BY <2>3, <2>4, <2>5 DEF Bijection, Injection, Surjection, IsInjective
<1>6. Cardinality(R) = Cardinality(P(Tail(s)))
  <2>1. ExistsBijection(P(Tail(s)), R)
    BY <1>5 DEF ExistsBijection
  <2> HIDE DEF P, R
  <2> QED BY <1>4, <2>1, FS_Bijection
<1>7. Cardinality(R) = IF 1 \in P(s) THEN Cardinality(P(s)) - 1 ELSE Cardinality(P(s))
  BY <1>3, FS_RemoveElement
<1>8. 1 \in P(s) <=> Head(s) = h
  BY <1>1, <1>2
<1> HIDE DEF R, f, n
<1>9. Count(s, h) = Cardinality(P(s)) /\ Count(Tail(s), h) = Cardinality(P(Tail(s)))
  BY DEF Count
<1> HIDE DEF P
<1> QED BY <1>3, <1>6, <1>7, <1>8, <1>9

\* Frames of one header x that are sent after s.
Repeated(x, a) == [i \in 1 .. a |-> x]
Followed(s, x, a, t, h) ==
    /\ t \in Seq(Sources) /\ Len(t) = Len(s) + a
    /\ \A i \in 1 .. Len(s) : t[i] = s[i]
    /\ \A i \in Len(s) + 1 .. Len(s) + a : t[i] = x
    /\ Count(t, h) = Count(s, h) + IF h = x THEN a ELSE 0

LEMMA CountRun ==
    ASSUME NEW s \in Seq(Sources), NEW x \in Sources, NEW a \in Nat, NEW h,
           NEW t, t = s \o Repeated(x, a)
    PROVE  Followed(s, x, a, t, h)
<1>1. PICK n, u : n = Len(s) /\ u = [i \in 1 .. a |-> x] /\ t = s \o u
  BY DEF Repeated
<1>2. u \in Seq(Sources) /\ Len(u) = a /\ \A i \in 1 .. a : u[i] = x
  BY <1>1
<1>3. n \in Nat /\ DOMAIN s = 1 .. n
  BY <1>1
<1>4. t \in Seq(Sources) /\ Len(t) = n + a /\ DOMAIN t = 1 .. n + a
  BY <1>1, <1>2
<1>5. \A i \in 1 .. n : t[i] = s[i]
  BY <1>1, <1>2, <1>3
<1>6. \A i \in n + 1 .. n + a : t[i] = x
  <2> SUFFICES ASSUME NEW i \in n + 1 .. n + a PROVE t[i] = x
    OBVIOUS
  <2>1. i - n \in 1 .. a /\ i \in 1 .. n + a /\ ~(i <= n)
    BY <1>3
  <2>2. t[i] = u[i - n]
    BY <1>1, <1>2, <1>3, <2>1
  <2> QED BY <1>2, <2>1, <2>2
<1>7. PICK p, q, r : /\ p = {i \in DOMAIN t : t[i] = h} /\ q = {i \in DOMAIN s : s[i] = h}
                     /\ r = n + 1 .. n + a
  OBVIOUS
<1>8. IsFiniteSet(q) /\ Cardinality(q) \in Nat
  BY <1>7, CountType DEF Count
<1>9. \A i \in 1 .. n + a : i \in 1 .. n \/ i \in r
  BY <1>3, <1>7
<1>10. ASSUME h = x PROVE Count(t, h) = Count(s, h) + a
  <2>1. p = q \cup r
    <3>1. \A i \in 1 .. n : i \in 1 .. n + a
      BY <1>3
    <3>2. \A i \in r : i \in 1 .. n + a
      BY <1>3, <1>7
    <3> QED BY <1>3, <1>4, <1>5, <1>6, <1>7, <1>9, <1>10, <3>1, <3>2
  <2>2. q \cap r = {}
    <3>1. \A i \in 1 .. n : i \notin r
      BY <1>3, <1>7
    <3> QED BY <1>3, <1>7, <3>1
  <2>3. IsFiniteSet(r) /\ Cardinality(r) = a
    <3>1. n + 1 \in Int /\ n + a \in Int
      BY <1>3
    <3>2. IsFiniteSet(r) /\ Cardinality(r) = IF n + 1 > n + a THEN 0 ELSE (n + a) - (n + 1) + 1
      BY <1>7, <3>1, FS_Interval
    <3> QED BY <1>3, <3>2
  <2>4. Cardinality(p) = Cardinality(q) + Cardinality(r) - Cardinality(q \cap r)
    BY <1>8, <2>1, <2>3, FS_Union
  <2>5. Cardinality(q \cap r) = 0
    BY <2>2, FS_EmptySet
  <2>6. Cardinality(p) = Cardinality(q) + a
    BY <1>8, <2>3, <2>4, <2>5
  <2> QED BY <1>7, <2>6 DEF Count
<1>11. ASSUME h # x PROVE Count(t, h) = Count(s, h)
  <2>1. p = q
    <3>1. \A i \in 1 .. n : i \in 1 .. n + a
      BY <1>3
    <3> QED BY <1>3, <1>4, <1>5, <1>6, <1>7, <1>9, <1>11, <3>1
  <2> QED BY <1>7, <2>1 DEF Count
<1>12. Count(t, h) = Count(s, h) + IF h = x THEN a ELSE 0
  <2>1. Count(s, h) \in Nat
    BY CountType
  <2> QED BY <1>10, <1>11, <2>1
<1> QED BY <1>1, <1>4, <1>5, <1>6, <1>12 DEF Followed

\* Each header has its place.
LEMMA SlotHeaders ==
    ASSUME Calm
    PROVE  /\ \A o \in 0 .. Extent - 1 : /\ o \in Index /\ At(o) \in Index /\ Slot(o) \in Buffers
                                         /\ Slot(o).header \in inqueue /\ Slot(o).header \in Headers
           /\ \A o, x \in 0 .. Extent - 1 : Slot(o).header = Slot(x).header => o = x
           /\ \A h \in inqueue : \E o \in 0 .. Extent - 1 : Slot(o).header = h
<1>1. /\ \A i \in Index : Occupied(i) <=> Off(i) < Extent
      /\ \A i, j \in Index : Occupied(i) /\ queue[i].header = queue[j].header => i = j
      /\ inqueue = {queue[i].header : i \in {j \in Index : Occupied(j)}}
      /\ inqueue \subseteq Headers
  BY Basics, Before DEF Shape, Extent
<1>2. \A o \in 0 .. Extent - 1 : o \in Index
  BY Basics
<1>3. \A o \in 0 .. Extent - 1 : /\ o \in Index /\ At(o) \in Index /\ Slot(o) \in Buffers
                                 /\ Off(At(o)) = o /\ o < Extent
  BY <1>2, Slots, Basics
<1>4. \A o \in 0 .. Extent - 1 : Occupied(At(o))
  BY <1>1, <1>3
<1>5. \A o \in 0 .. Extent - 1 : Slot(o).header \in inqueue
  BY <1>1, <1>3, <1>4 DEF Slot
<1>6. ASSUME NEW o \in 0 .. Extent - 1, NEW x \in 0 .. Extent - 1, Slot(o).header = Slot(x).header
      PROVE  o = x
  <2>1. At(o) = At(x)
    BY <1>1, <1>3, <1>4, <1>6 DEF Slot
  <2> QED BY <1>3, <2>1
<1>7. ASSUME NEW h \in inqueue PROVE \E o \in 0 .. Extent - 1 : Slot(o).header = h
  <2>1. PICK i \in Index : Occupied(i) /\ h = queue[i].header
    BY <1>1
  <2>2. Off(i) \in Index /\ At(Off(i)) = i /\ Off(i) < Extent
    BY <1>1, <2>1, Slots
  <2>3. Off(i) \in 0 .. Extent - 1
    BY <2>2, Basics
  <2> QED BY <2>1, <2>2, <2>3 DEF Slot
<1> QED BY <1>1, <1>3, <1>5, <1>6, <1>7


\* The numbers of the taken slots.
LEMMA Numbers ==
    ASSUME Calm, Histories
    PROVE  /\ \A o \in 0 .. Extent - 1 :
                 /\ Asked(o).frames \in Nat /\ Asked(o).size \in Nat /\ Asked(o).times \in Nat
                 /\ Slot(o).size \in Nat /\ Slot(o).loops \in Nat /\ Slot(o).submitted \in Nat
                 /\ Slot(o).begins \in BOOLEAN /\ Slot(o).ends \in BOOLEAN
                 /\ Slot(o).submitted < Slot(o).size
                 /\ Count(sent, Slot(o).header) \in Nat
                 /\ Given(o) \in Nat
           /\ w.remaining \in Nat /\ dev.position \in Nat /\ tr.submitted \in Nat
           /\ Len(sent) \in Nat /\ Len(plays) \in Nat /\ sent \in Seq(Sources)
           /\ budget.breaks \in Nat /\ dev \in Devices /\ tr \in Transports
           /\ tr.completions \in Seq(Completion)
<1>1. /\ sent \in Seq(Sources) /\ w \in Waves /\ dev \in Devices /\ tr \in Transports
      /\ plays \in Seq(Plays)
      /\ budget \in [opens : Nat, writes : Nat, pauses : Nat, breaks : Nat, faults : Nat]
      /\ heard \in [Headers -> [frames : Nat, size : Nat, times : Nat]]
  BY Basics, Records DEF Histories
<1>2. ASSUME NEW o \in 0 .. Extent - 1
      PROVE  /\ Asked(o).frames \in Nat /\ Asked(o).size \in Nat /\ Asked(o).times \in Nat
             /\ Slot(o).size \in Nat /\ Slot(o).loops \in Nat /\ Slot(o).submitted \in Nat
             /\ Slot(o).begins \in BOOLEAN /\ Slot(o).ends \in BOOLEAN
             /\ Slot(o).submitted < Slot(o).size
             /\ Count(sent, Slot(o).header) \in Nat
             /\ Given(o) \in Nat
  <2>1. Slot(o) \in Buffers /\ Slot(o).header \in Headers /\ At(o) \in Index /\ o \in Index /\ o < Extent
    BY SlotHeaders, Basics
  <2>2. Asked(o).frames \in Nat /\ Asked(o).size \in Nat /\ Asked(o).times \in Nat
    BY <1>1, <2>1 DEF Asked
  <2>3. /\ Slot(o).size \in Nat /\ Slot(o).loops \in Nat /\ Slot(o).submitted \in Nat
        /\ Slot(o).begins \in BOOLEAN /\ Slot(o).ends \in BOOLEAN
    BY <2>1, QueueSize DEF Buffers
  <2>4. Slot(o).submitted < Slot(o).size
    <3>1. Sized(Slot(o)) /\ Slot(o).header # NoHeader
      BY <2>1, Basics, Before, Slots DEF Slot
    <3> QED BY <3>1 DEF Sized
  <2>5. Count(sent, Slot(o).header) \in Nat
    BY <1>1, CountType
  <2>6. Given(o) \in Nat
    BY <2>2, <2>5 DEF Given
  <2> QED BY <2>2, <2>3, <2>4, <2>5, <2>6
<1>3. w.remaining \in Nat /\ dev.position \in Nat /\ tr.submitted \in Nat /\ budget.breaks \in Nat
      /\ tr.completions \in Seq(Completion)
  BY <1>1 DEF Waves, Devices, Transports
<1> QED BY <1>1, <1>2, <1>3

\* Buffers that have moved n places on end the same loops.
LEMMA UnendedMoves ==
    ASSUME NEW n \in Nat, NEW s \in Nat, NEW e \in Nat,
           \A x \in s .. e - 1 : Slot(x)'.ends = Slot(n + x).ends
    PROVE  Unended(s, e)' <=> Unended(n + s, n + e)
<1>1. ASSUME Unended(s, e)', NEW y \in n + s .. n + e - 1 PROVE ~Slot(y).ends
  <2>1. PICK x \in s .. e - 1 : y = n + x
    <3>1. y - n \in s .. e - 1 /\ y = n + (y - n)
      OBVIOUS
    <3> QED BY <3>1
  <2>2. ~Slot(x)'.ends
    BY <1>1 DEF Unended
  <2> QED BY <2>1, <2>2
<1>2. ASSUME Unended(n + s, n + e), NEW x \in s .. e - 1 PROVE ~Slot(x)'.ends
  <2>1. n + x \in n + s .. n + e - 1
    OBVIOUS
  <2> QED BY <1>2, <2>1 DEF Unended
<1> QED BY <1>1, <1>2 DEF Unended

\* A buffer that has moved n places on has the same share.
LEMMA ShareMoves ==
    ASSUME NEW n \in Nat, NEW s \in Nat, NEW k \in Nat, NEW o \in Nat,
           Share(n + s, n + k, n + o),
           Slot(o)'.size = Slot(n + o).size, Slot(o)'.submitted = Slot(n + o).submitted,
           Asked(o)'.times = Asked(n + o).times, Given(o)' = Given(n + o),
           budget'.breaks = 0 => budget.breaks = 0,
           w'.active = w.active, w'.remaining = w.remaining,
           s <= o => Slot(s)'.loops = Slot(n + s).loops,
           \A x \in s .. o - 1 : Slot(x)'.ends = Slot(n + x).ends
    PROVE  Share(s, k, o)'
<1>1. (o < s <=> n + o < n + s) /\ (o < k <=> n + o < n + k)
  OBVIOUS
<1>2. CASE o < s
  <2>1. PICK m \in 1 .. Asked(n + o).times :
            Given(n + o) = m * Slot(n + o).size /\ (budget.breaks = 0 => m = Asked(n + o).times)
    BY <1>1, <1>2 DEF Share
  <2>2. m \in 1 .. Asked(o)'.times /\ Given(o)' = m * Slot(o)'.size
        /\ (budget'.breaks = 0 => m = Asked(o)'.times)
    BY <2>1
  <2> QED BY <1>2, <2>2 DEF Share
<1>3. CASE ~(o < s) /\ o < k
  <2>1. Given(n + o) = (Slot(n + s).loops - w.remaining + 1) * Slot(n + o).size
    BY <1>1, <1>3 DEF Share
  <2>2. Slot(s)'.loops = Slot(n + s).loops
    BY <1>3
  <2>3. Given(o)' = (Slot(s)'.loops - w'.remaining + 1) * Slot(o)'.size
    BY <2>1, <2>2
  <2> QED BY <1>3, <2>3 DEF Share
<1>4. CASE ~(o < s) /\ ~(o < k)
  <2>1. Given(n + o) = Rounds(n + s, n + o) * Slot(n + o).size + Slot(n + o).submitted
    BY <1>1, <1>4 DEF Share
  <2>2. Slot(s)'.loops = Slot(n + s).loops
    BY <1>4
  <2>3. Unended(s, o)' <=> Unended(n + s, n + o)
    BY UnendedMoves
  <2>4. Rounds(s, o)' = Rounds(n + s, n + o)
    BY <2>2, <2>3 DEF Rounds
  <2>5. Given(o)' = Rounds(s, o)' * Slot(o)'.size + Slot(o)'.submitted
    BY <2>1, <2>4
  <2> QED BY <1>4, <2>5 DEF Share
<1> QED BY <1>2, <1>3, <1>4

\* The loop being played, n places on.
LEMMA RoundMoves ==
    ASSUME NEW n \in Nat, NEW s \in Nat, Round(n + s),
           NEW e \in Nat, Extent = n + e, Extent' = e,
           w'.active = w.active, w'.remaining = w.remaining,
           w.active => Slot(s)'.loops = Slot(n + s).loops,
           \A x \in s .. e - 1 : Slot(x)'.ends = Slot(n + x).ends
    PROVE  Round(s)'
<1>1. Unended(s, e)' <=> Unended(n + s, n + e)
  BY UnendedMoves
<1>2. Unended(s, Extent)' <=> Unended(s, e)'
  BY DEF Unended
<1> QED BY <1>1, <1>2 DEF Round

\* What was asked for, n places on.
LEMMA SizesMove ==
    ASSUME Sizes, NEW n \in Nat, NEW e \in Nat, Extent = n + e, Extent' = e,
           \A k \in 0 .. e : InLoop(k)' <=> InLoop(n + k),
           \A k \in 0 .. e - 1 :
               /\ Asked(k)'.size = Asked(n + k).size /\ Asked(k)'.times = Asked(n + k).times
               /\ Slot(k)'.size = Slot(n + k).size /\ Slot(k)'.loops = Slot(n + k).loops
               /\ Slot(k)'.begins = Slot(n + k).begins /\ Slot(k)'.ends = Slot(n + k).ends
    PROVE  Sizes'
<1> SUFFICES ASSUME NEW k \in 0 .. e - 1
             PROVE  /\ Asked(k)'.size = Slot(k)'.size
                    /\ \A b \in 0 .. k : Member(b, k)' => Asked(k)'.times = Slot(b)'.loops
                    /\ Slot(k)'.begins => Slot(k)'.loops > 0
                    /\ ~InLoop(k)' /\ ~Slot(k)'.begins => Asked(k)'.times = 1
  BY DEF Sizes
<1>1. n + k \in 0 .. Extent - 1 /\ k \in 0 .. e
  OBVIOUS
<1>2. /\ Asked(n + k).size = Slot(n + k).size
      /\ \A b \in 0 .. n + k : Member(b, n + k) => Asked(n + k).times = Slot(b).loops
      /\ Slot(n + k).begins => Slot(n + k).loops > 0
      /\ ~InLoop(n + k) /\ ~Slot(n + k).begins => Asked(n + k).times = 1
  BY <1>1, Zenon DEF Sizes
<1>3. ASSUME NEW b \in 0 .. k, Member(b, k)' PROVE Asked(k)'.times = Slot(b)'.loops
  <2>1. b \in 0 .. e - 1 /\ n + b \in 0 .. n + k /\ b \in Nat /\ k \in Nat
    OBVIOUS
  <2>2. \A x \in b .. k - 1 : Slot(x)'.ends = Slot(n + x).ends
    OBVIOUS
  <2>3. Unended(b, k)' <=> Unended(n + b, n + k)
    BY <2>1, <2>2, UnendedMoves
  <2>4. Member(n + b, n + k)
    BY <1>3, <2>1, <2>3 DEF Member, Unended
  <2> QED BY <1>2, <2>1, <2>4
<1> QED BY <1>1, <1>2, <1>3


\* The taken slots but for their tokens; what was asked and given for them.
SlotsStay ==
    /\ Extent' = Extent
    /\ \A o \in 0 .. Extent - 1 :
          /\ Slot(o)'.header = Slot(o).header /\ Slot(o)'.size = Slot(o).size
          /\ Slot(o)'.begins = Slot(o).begins /\ Slot(o)'.ends = Slot(o).ends
          /\ Slot(o)'.loops = Slot(o).loops
AskedStays ==
    \A o \in 0 .. Extent - 1 : Asked(o)'.size = Asked(o).size /\ Asked(o)'.times = Asked(o).times

\* All that the histories, the stream and the queue say beside the shares.
Kept == Histories /\ Sizes /\ Flow /\ Queued /\ Unbroken

\* What was asked for stays what it is while the slots do.
LEMMA SizesStay ==
    ASSUME Calm, Sizes, w'.read = w.read, SlotsStay, AskedStays
    PROVE  Sizes'
<1>1. PICK e : e = Extent
  OBVIOUS
<1>2. e \in Nat /\ e \in 0 .. QueueCapacity /\ Extent = 0 + e /\ Extent' = e
  BY <1>1, Basics DEF SlotsStay
<1>3. \A x \in 0 .. e - 1 : queue'[At(x)].begins = queue[At(x)].begins
                            /\ queue'[At(x)].ends = queue[At(x)].ends
  BY <1>1 DEF SlotsStay, Slot, At
<1>4. \A c \in 0 .. e : InLoop(c)' <=> InLoop(c)
  BY <1>2, <1>3, SameLoops
<1>5. \A k \in 0 .. e : 0 + k = k
  BY <1>2
<1>6. \A k \in 0 .. e : InLoop(k)' <=> InLoop(0 + k)
  BY <1>4, <1>5
<1>7. \A k \in 0 .. e - 1 :
               /\ Asked(k)'.size = Asked(0 + k).size /\ Asked(k)'.times = Asked(0 + k).times
               /\ Slot(k)'.size = Slot(0 + k).size /\ Slot(k)'.loops = Slot(0 + k).loops
               /\ Slot(k)'.begins = Slot(0 + k).begins /\ Slot(k)'.ends = Slot(0 + k).ends
  <2>1. \A k \in 0 .. e - 1 : 0 + k = k
    BY <1>2
  <2> QED BY <1>1, <2>1 DEF SlotsStay, AskedStays
<1> QED BY <1>2, <1>6, <1>7, SizesMove

\* A buffer keeps its share when nothing of it changes.
LEMMA ShareStays ==
    ASSUME Calm, Histories, SlotsStay, NEW s \in 0 .. Extent, NEW k \in 0 .. Extent,
           NEW o \in 0 .. Extent - 1, Share(s, k, o),
           Slot(o)'.submitted = Slot(o).submitted,
           Asked(o)'.times = Asked(o).times, Given(o)' = Given(o),
           budget'.breaks = 0 => budget.breaks = 0,
           w'.active = w.active, w'.remaining = w.remaining
    PROVE  Share(s, k, o)'
<1>1. s \in Nat /\ k \in Nat /\ o \in Nat /\ Extent \in Nat /\ 0 \in Nat
  BY Basics
<1>2. 0 + s = s /\ 0 + k = k /\ 0 + o = o
  BY <1>1
<1>3. s <= o => s \in 0 .. Extent - 1
  BY <1>1
<1>4. s <= o => Slot(s)'.loops = Slot(0 + s).loops
  BY <1>2, <1>3 DEF SlotsStay
<1>5. \A x \in s .. o - 1 : x \in 0 .. Extent - 1 /\ 0 + x = x
  BY <1>1
<1>6. \A x \in s .. o - 1 : Slot(x)'.ends = Slot(0 + x).ends
  BY <1>5 DEF SlotsStay
<1>7. Slot(o)'.size = Slot(o).size
  BY DEF SlotsStay
<1> QED BY <1>1, <1>2, <1>4, <1>6, <1>7, ShareMoves

\* The loop being played keeps its rounds.
LEMMA RoundStays ==
    ASSUME Calm, SlotsStay, NEW s \in 0 .. Extent, Round(s), w.active => s < Extent,
           w'.active = w.active, w'.remaining = w.remaining
    PROVE  Round(s)'
<1>1. PICK e : e = Extent
  OBVIOUS
<1>2. e \in Nat /\ Extent = 0 + e /\ Extent' = e /\ s \in Nat /\ 0 + s = s
  BY <1>1, Basics DEF SlotsStay
<1>3. w.active => Slot(s)'.loops = Slot(0 + s).loops
  BY <1>1, <1>2 DEF SlotsStay
<1>4. \A x \in s .. e - 1 : x \in 0 .. Extent - 1 /\ 0 + x = x
  BY <1>1, <1>2
<1>5. \A x \in s .. e - 1 : Slot(x)'.ends = Slot(0 + x).ends
  BY <1>4 DEF SlotsStay
<1> QED BY <1>2, <1>3, <1>5, RoundMoves

\* Where the plays have come to.
LEMMA Cursor ==
    ASSUME Calm, NEW k, NEW mark, Scheduled(mark, k), NEW s, s = mark[Len(plays)]
    PROVE  /\ s \in 0 .. Extent /\ k \in 0 .. Extent /\ s <= k /\ s \in Nat /\ k \in Nat
           /\ s \in 0 .. w.count /\ k \in 0 .. w.count
           /\ w.active => s < Extent /\ s < w.count /\ Slot(s).begins /\ Unended(s, k)
           /\ ~w.active => k = s
           /\ ~InLoop(s)
           /\ \A i \in 0 .. Len(plays) : mark[i] \in 0 .. w.count /\ mark[i] <= s
<1>1. PICK l, c : l = Len(plays) /\ c = w.count
  OBVIOUS
<1>2. l \in Nat /\ c \in Nat /\ Extent \in Nat /\ c <= Extent
  BY <1>1, Basics, Before
<1>3. /\ k \in 0 .. c /\ mark \in [0 .. l -> 0 .. c]
      /\ \A i, j \in 0 .. l : i <= j => mark[i] <= mark[j]
      /\ \A i \in 0 .. l : ~InLoop(mark[i])
      /\ IF w.active
         THEN /\ s <= k /\ s < c /\ Slot(s).begins
              /\ \A x \in s .. k - 1 : ~Slot(x).ends
         ELSE k = s
  BY <1>1 DEF Scheduled
<1>4. l \in 0 .. l /\ \A i \in 0 .. l : i <= l
  BY <1>2
<1>5. s \in 0 .. c /\ ~InLoop(s)
  BY <1>1, <1>3, <1>4
<1>6. \A i \in 0 .. l : mark[i] \in 0 .. c /\ mark[i] <= s
  BY <1>1, <1>3, <1>4
<1> QED BY <1>1, <1>2, <1>3, <1>5, <1>6 DEF Unended

\* Nothing moves for the plays.
LEMMA ToldStays ==
    ASSUME Calm, Histories, NEW k, NEW mark, Scheduled(mark, k), Told(mark, k),
           SlotsStay, AskedStays, plays' = plays,
           \A o \in 0 .. Extent - 1 : Given(o)' = Given(o) /\ Slot(o)'.submitted = Slot(o).submitted,
           w'.active = w.active, w'.remaining = w.remaining,
           budget'.breaks = 0 => budget.breaks = 0, Due(mark)'
    PROVE  Told(mark, k)'
<1>1. PICK s : s = mark[Len(plays)]
  OBVIOUS
<1>2. s \in 0 .. Extent /\ k \in 0 .. Extent /\ (w.active => s < Extent)
  BY <1>1, Cursor
<1>3. Round(s) /\ \A o \in 0 .. Extent - 1 : Share(s, k, o)
  BY <1>1 DEF Told
<1>4. Round(s)'
  BY <1>2, <1>3, RoundStays
<1>5. \A o \in 0 .. Extent - 1 : Share(s, k, o)'
  BY <1>2, <1>3, ShareStays DEF AskedStays
<1>6. \A o \in 0 .. Extent - 1 : o # k => Slot(o)'.submitted = 0
  BY DEF Told
<1>7. Extent' = Extent /\ mark[Len(plays')] = s
  BY <1>1 DEF SlotsStay
<1> QED BY <1>4, <1>5, <1>6, <1>7 DEF Told

\* The frames that are sent are due as they were.
LEMMA DueStays ==
    ASSUME Calm, NEW k, NEW mark, Scheduled(mark, k), Due(mark), plays' = plays,
           \A o \in 0 .. w.count - 1 : Slot(o)'.header = Slot(o).header,
           sent' = sent, dev'.position = dev.position, tr'.completions = tr.completions
    PROVE  Due(mark)'
<1>1. PICK l : l = Len(plays)
  OBVIOUS
<1>2. ASSUME NEW i \in 1 .. l, NEW o \in mark[i - 1] .. mark[i] - 1 PROVE Slot(o)'.header = Slot(o).header
  <2>1. i - 1 \in 0 .. l /\ i \in 0 .. l
    BY <1>1, Basics, Before
  <2>2. mark[i - 1] \in 0 .. w.count /\ mark[i] \in 0 .. w.count
    BY <1>1, <2>1, Cursor
  <2>3. o \in 0 .. w.count - 1
    BY <2>2, Basics
  <2> QED BY <2>3
<1>3. \A i \in 1 .. l : \A o \in mark[i - 1] .. mark[i] - 1 : \A f \in 1 .. Len(sent) :
        sent[f] = Slot(o)'.header => dev.position + f <= tr.completions[i].target
  BY <1>1, <1>2 DEF Due
<1> QED BY <1>1, <1>3 DEF Due


\* The calls and faults so far.
Budgets == [opens : Nat, writes : Nat, pauses : Nat, breaks : Nat, faults : Nat]

\* A call that is made is counted.
LEMMA Spending ==
    ASSUME budget \in Budgets, NEW what \in {"opens", "writes", "pauses", "breaks", "faults"},
           Spend(what)
    PROVE  /\ budget' \in Budgets
           /\ budget'.breaks = IF what = "breaks" THEN budget.breaks + 1 ELSE budget.breaks
BY DEF Spend, Budgets

\* What came back played was heard while nothing of it changes.
LEMMA StillHeard ==
    ASSUME hurt = {}, PlayedWasHeard, heard' = heard, budget'.breaks = 0 => budget.breaks = 0,
           \A h \in Headers : outcome'[h] = "played" => outcome[h] = "played"
    PROVE  PlayedWasHeard'
<1> SUFFICES ASSUME NEW h \in Headers, outcome'[h] = "played"
             PROVE  \E k \in 1 .. heard'[h].times :
                        /\ heard'[h].frames = k * heard'[h].size
                        /\ budget'.breaks = 0 => k = heard'[h].times
  BY DEF PlayedWasHeard
<1>1. outcome[h] = "played"
  OBVIOUS
<1>2. PICK k \in 1 .. heard[h].times :
          heard[h].frames = k * heard[h].size /\ (budget.breaks = 0 => k = heard[h].times)
  BY <1>1 DEF PlayedWasHeard
<1> QED BY <1>2

\* What the plays say and what a header got, through a step.
Carried(mark, k) == Kept' /\ PlayedWasHeard' /\ (Told(mark, k) => Told(mark, k)')

\* A step that touches neither the frames nor what they are frames of.
LEMMA Untouched ==
    ASSUME Calm, Kept, PlayedWasHeard, NEW k, NEW mark, Scheduled(mark, k),
           UNCHANGED <<plays, inqueue, heard, outcome, sent>>,
           dev'.position = dev.position, tr'.completions = tr.completions,
           tr'.submitted = tr.submitted, tr'.opened = tr.opened,
           w'.open = w.open, w'.read = w.read, w'.active = w.active, w'.remaining = w.remaining,
           Extent' = Extent, Resetting' <=> Resetting,
           \A i \in Index : /\ queue'[i].header = queue[i].header /\ queue'[i].size = queue[i].size
                            /\ queue'[i].begins = queue[i].begins /\ queue'[i].ends = queue[i].ends
                            /\ queue'[i].loops = queue[i].loops
                            /\ queue'[i].submitted = queue[i].submitted,
           budget' \in Budgets, budget'.breaks = 0 => budget.breaks = 0,
           budget'.breaks = 0 => w'.breakNow = w.breakNow /\ w'.breakNext = w.breakNext
    PROVE  Carried(mark, k)
<1>1. \A o \in 0 .. Extent - 1 : At(o) \in Index /\ Slot(o)' = queue'[At(o)] /\ Slot(o) = queue[At(o)]
  BY SlotHeaders DEF Slot, At
<1>2. SlotsStay /\ \A o \in 0 .. Extent - 1 : Slot(o)'.submitted = Slot(o).submitted
  BY <1>1 DEF SlotsStay
<1>3. /\ AskedStays /\ \A o \in 0 .. Extent - 1 : Given(o)' = Given(o)
  BY <1>2 DEF AskedStays, SlotsStay, Asked, Given
<1>4. Kept'
  <2>1. Histories'
    BY DEF Kept, Histories, Budgets
  <2>2. Sizes'
    BY <1>2, <1>3, SizesStay DEF Kept
  <2>3. Flow' /\ Queued' /\ Unbroken'
    BY DEF Kept, Flow, Queued, Unbroken
  <2> QED BY <2>1, <2>2, <2>3 DEF Kept
<1>5. PlayedWasHeard'
  BY Basics, StillHeard
<1>6. ASSUME Told(mark, k) PROVE Told(mark, k)'
  <2>1. Due(mark)'
    <3>1. \A o \in 0 .. w.count - 1 : o \in 0 .. Extent - 1
      BY Basics
    <3>2. \A o \in 0 .. w.count - 1 : Slot(o)'.header = Slot(o).header
      BY <1>2, <3>1 DEF SlotsStay
    <3> QED BY <1>6, <3>2, DueStays DEF Told
  <2> QED BY <1>2, <1>3, <1>6, <2>1, ToldStays DEF Kept
<1> QED BY <1>4, <1>5, <1>6 DEF Carried

\* Nothing is told of a queue that holds nothing.
LEMMA Vacant ==
    ASSUME NEW k, NEW mark, Scheduled(mark, k)', Extent' = 0, w'.count = 0, Len(plays') \in Nat
    PROVE  Told(mark, k)' /\ Sizes'
<1>1. Sizes'
  BY DEF Sizes
<1>2. PICK s, l : s = mark[Len(plays')] /\ l = Len(plays')
  OBVIOUS
<1>3. w'.active => s < 0 /\ s \in 0 .. 0
  <2>1. mark \in [0 .. l -> 0 .. 0] /\ l \in 0 .. l
    BY <1>2 DEF Scheduled
  <2>2. w'.active => s < 0
    BY <1>2 DEF Scheduled
  <2> QED BY <1>2, <2>1, <2>2
<1>4. Round(s)'
  BY <1>3 DEF Round
<1>5. Due(mark)'
  <2>1. mark \in [0 .. l -> 0 .. 0]
    BY <1>2 DEF Scheduled
  <2>2. \A i \in 1 .. l : mark[i - 1] = 0 /\ mark[i] = 0
    <3>1. \A i \in 1 .. l : i - 1 \in 0 .. l /\ i \in 0 .. l
      BY <1>2
    <3> QED BY <2>1, <3>1
  <2>3. \A i \in 1 .. l : mark[i - 1] .. mark[i] - 1 = {}
    BY <2>2
  <2> QED BY <1>2, <2>3 DEF Due
<1> QED BY <1>1, <1>2, <1>4, <1>5 DEF Told

\* The steps of the driver and the device that move no frame.
LEMMA QuietHeard ==
    ASSUME Calm, WaveInv', Unharmed', Kept, PlayedWasHeard, NEW k, NEW mark, Scheduled(mark, k),
           Scheduled(mark, k)',
           \/ Timer \/ PollNothing \/ SubmitEnds \/ WriteAdvances \/ WriteCounts
           \/ Pause \/ Pauses \/ Restart \/ ResetCollects \/ BreakLoop
           \/ Interrupt \/ LoseBusMaster \/ GetBusMaster \/ Plug
           \/ (\E forget \in BOOLEAN : Unplug(forget)) \/ UNCHANGED vars
    PROVE  Carried(mark, k)
<1>r. /\ w \in Waves /\ app \in Applications /\ queue \in [Index -> Buffers] /\ w.count \in Nat
      /\ tr \in Transports /\ dev \in Devices /\ budget \in Budgets
  BY Basics, Records DEF Kept, Histories, Budgets
<1>h. hurt' = {} /\ hurt = {}
  BY Basics DEF Unharmed
<1>1. CASE /\ UNCHANGED <<plays, inqueue, heard, outcome, sent>>
           /\ queue' = queue \/ queue' = [queue EXCEPT ![w.sched].token = Token]
           /\ dev'.position = dev.position /\ tr'.completions = tr.completions
           /\ tr'.submitted = tr.submitted /\ tr'.opened = tr.opened
           /\ w'.open = w.open /\ w'.read = w.read /\ w'.active = w.active /\ w'.remaining = w.remaining
           /\ w'.count + Extra' = w.count + Extra
           /\ app'.pc \in {"resetting", "flushing"} <=> app.pc \in {"resetting", "flushing"}
           /\ budget' \in Budgets /\ (budget'.breaks = 0 => budget.breaks = 0)
           /\ budget'.breaks = 0 => w'.breakNow = w.breakNow /\ w'.breakNext = w.breakNext
  <2>1. Extent' = Extent /\ (Resetting' <=> Resetting)
    BY <1>1 DEF Extent, Resetting
  <2>2. \A i \in Index : /\ queue'[i].header = queue[i].header /\ queue'[i].size = queue[i].size
                         /\ queue'[i].begins = queue[i].begins /\ queue'[i].ends = queue[i].ends
                         /\ queue'[i].loops = queue[i].loops
                         /\ queue'[i].submitted = queue[i].submitted
    BY <1>r, <1>1 DEF Buffers
  <2> QED BY <1>1, <2>1, <2>2, Untouched
<1>2. CASE Timer \/ PollNothing \/ UNCHANGED vars
  <2>1. UNCHANGED <<tr, dev, sent, w, queue, plays, inqueue, app, heard, outcome, budget>>
    BY <1>h, <1>2 DEF Timer, PollNothing, vars, Fault
  <2> QED BY <1>r, <1>1, <2>1 DEF Extra, Linked
<1>3. CASE Pause \/ Pauses \/ Restart
  <2>1. /\ UNCHANGED <<queue, plays, inqueue, heard, outcome, sent>>
        /\ (w' = w \/ \E p : w' = [w EXCEPT !.paused = p])
        /\ (tr' = tr \/ \E p : tr' = [tr EXCEPT !.paused = p])
        /\ dev' = dev \/ dev' = DeviceStop(dev) \/ dev' = DeviceStart(dev)
        /\ app.pc \in {"idle", "pausing"} /\ app'.pc \in {"idle", "pausing"}
        /\ budget' = budget \/ Spend("pauses")
    BY <1>3, IdleType DEF Pause, Pauses, Restart, PmPause, PmRestart, Calling, Resuming, Idle
  <2>2. /\ w'.open = w.open /\ w'.read = w.read /\ w'.count = w.count
        /\ w'.active = w.active /\ w'.remaining = w.remaining
        /\ w'.breakNow = w.breakNow /\ w'.breakNext = w.breakNext
    BY <1>r, <2>1 DEF Waves
  <2>3. tr'.completions = tr.completions /\ tr'.submitted = tr.submitted /\ tr'.opened = tr.opened
    BY <1>r, <2>1 DEF Transports
  <2>4. dev'.position = dev.position
    BY <1>r, <2>1 DEF Devices, DeviceStop, DeviceStart, NoteInvalid
  <2>5. budget' \in Budgets /\ (budget'.breaks = 0 => budget.breaks = 0)
    BY <1>r, <2>1, Spending
  <2>6. Extra' = Extra
    BY <2>1 DEF Extra, Linked
  <2>7. app'.pc \in {"resetting", "flushing"} <=> app.pc \in {"resetting", "flushing"}
    BY <2>1
  <2> QED BY <1>1, <2>1, <2>2, <2>3, <2>4, <2>5, <2>6, <2>7
<1>4. CASE ResetCollects
  <2>1. UNCHANGED <<tr, dev, sent, w, queue, plays, inqueue, budget, heard, outcome>>
        /\ app.pc = "resetting"
    BY <1>4 DEF ResetCollects, Resuming
  <2>2. app'.pc = "flushing"
    BY <1>r, <1>4 DEF ResetCollects, Applications
  <2> QED BY <1>r, <1>1, <2>1, <2>2 DEF Extra, Linked
<1>5. CASE BreakLoop
  <2>1. /\ UNCHANGED <<tr, dev, sent, queue, plays, inqueue, app, heard, outcome>>
        /\ w' = [w EXCEPT !.breakNow = TRUE] \/ w' = [w EXCEPT !.breakNext = TRUE] \/ w' = w
        /\ Spend("breaks")
    BY <1>5 DEF BreakLoop
  <2>2. /\ w'.open = w.open /\ w'.read = w.read /\ w'.count = w.count
        /\ w'.active = w.active /\ w'.remaining = w.remaining
    BY <1>r, <2>1 DEF Waves
  <2>3. budget' \in Budgets /\ budget'.breaks = budget.breaks + 1
    BY <1>r, <2>1, Spending
  <2>4. budget'.breaks # 0
    BY <1>r, <2>3 DEF Budgets
  <2>5. Extra' = Extra
    BY <2>1 DEF Extra, Linked
  <2> QED BY <1>1, <2>1, <2>2, <2>3, <2>4, <2>5
<1>6. CASE SubmitEnds
  <2>1. /\ UNCHANGED <<tr, dev, sent, plays, inqueue, app, budget, heard, outcome>>
        /\ (w' = w \/ w' = Numbered)
        /\ (queue' = queue \/ queue' = [queue EXCEPT ![w.sched].token = Token])
    BY <1>6 DEF SubmitEnds
  <2>2. /\ w'.open = w.open /\ w'.read = w.read /\ w'.count = w.count
        /\ w'.active = w.active /\ w'.remaining = w.remaining
        /\ w'.breakNow = w.breakNow /\ w'.breakNext = w.breakNext
    BY <1>r, <2>1 DEF Numbered, Waves
  <2>3. Extra' = Extra
    BY <2>1 DEF Extra, Linked
  <2> QED BY <1>r, <1>1, <2>1, <2>2, <2>3
<1>7. CASE WriteAdvances
  <2>1. /\ app.pc = "linked" /\ UNCHANGED <<tr, dev, sent, queue, plays, inqueue, budget, heard, outcome>>
        /\ w' = [w EXCEPT !.loopOpen = app.loopOpen, !.write = NextIndex(w.write)]
        /\ app' = [app EXCEPT !.pc = "advanced"]
    BY <1>7 DEF WriteAdvances, Resuming
  <2>2. /\ w'.open = w.open /\ w'.read = w.read /\ w'.count = w.count
        /\ w'.active = w.active /\ w'.remaining = w.remaining
        /\ w'.breakNow = w.breakNow /\ w'.breakNext = w.breakNext
        /\ app'.pc = "advanced"
    BY <1>r, <2>1 DEF Waves, Applications
  <2>3. Extra' = Extra
    BY <2>1, <2>2 DEF Extra, Linked
  <2> QED BY <1>r, <1>1, <2>1, <2>2, <2>3
<1>8. CASE WriteCounts
  <2>1. /\ app.pc = "advanced" /\ UNCHANGED <<tr, dev, sent, queue, plays, inqueue, budget, heard, outcome>>
        /\ app' = Idle /\ w' = [w EXCEPT !.count = w.count + 1]
    BY <1>8 DEF WriteCounts, Resuming
  <2>2. /\ w'.open = w.open /\ w'.read = w.read /\ w'.count = w.count + 1
        /\ w'.active = w.active /\ w'.remaining = w.remaining
        /\ w'.breakNow = w.breakNow /\ w'.breakNext = w.breakNext
        /\ app'.pc = "idle"
    BY <1>r, <2>1, IdleType DEF Waves
  <2>3. Extra = 1 /\ Extra' = 0
    BY <2>1, <2>2 DEF Extra, Linked
  <2>4. w'.count + Extra' = w.count + Extra
    BY <1>r, <2>2, <2>3
  <2> QED BY <1>r, <1>1, <2>1, <2>2, <2>4
<1>9. CASE Interrupt \/ LoseBusMaster \/ GetBusMaster \/ \E forget \in BOOLEAN : Unplug(forget)
  <2>1. dev.master /\ ~dev.irq
    BY Basics DEF Healthy
  <2> QED BY <1>h, <1>9, <2>1 DEF Interrupt, PcmInterrupt, GetBusMaster, LoseBusMaster, Unplug, Fault
<1>10. CASE Plug
  <2>1. UNCHANGED <<w, queue, plays, inqueue, app, budget, heard, outcome>>
    BY <1>10 DEF Plug, waveVars
  <2>2. CASE PnpRegister
    <3>1. UNCHANGED <<tr, dev, sent>>
      BY <2>2 DEF PnpRegister
    <3> QED BY <1>r, <1>1, <2>1, <3>1 DEF Extra, Linked
  <2>3. CASE PnpStart
    <3>1. ~tr.bound /\ tr' = [Unbound EXCEPT !.bound = TRUE] /\ sent' = <<>>
      BY <2>3 DEF PnpStart
    <3>2. ~w.open
      BY <3>1, Basics, ValidStream
    <3>3. app.pc = "idle" /\ w.count = 0
      BY <3>2, Basics, Before
    <3>4. Extent' = 0 /\ w'.count = 0
      BY <2>1, <3>3 DEF Extent, Extra, Linked
    <3>5. Len(plays') \in Nat
      BY <2>1, Basics, Before
    <3>6. Told(mark, k)' /\ Sizes'
      BY <3>4, <3>5, Vacant
    <3>7. ~tr'.opened /\ ~w'.open
      BY <2>1, <3>1, <3>2 DEF Unbound
    <3>8. Flow'
      BY <3>7 DEF Flow
    <3>9. Histories' /\ Queued' /\ Unbroken'
      BY <2>1 DEF Kept, Histories, Queued, Unbroken
    <3>10. PlayedWasHeard'
      BY <1>h, <2>1, StillHeard
    <3> QED BY <3>6, <3>8, <3>9, <3>10 DEF Carried, Kept
  <2> QED BY <1>10, <2>2, <2>3 DEF Plug
<1> QED BY <1>2, <1>3, <1>4, <1>5, <1>6, <1>7, <1>8, <1>9, <1>10


\* The device pulls a frame, or none.
LEMMA PullHeard ==
    ASSUME Calm, Kept, PlayedWasHeard, NEW k, NEW mark, Scheduled(mark, k), Pull
    PROVE  Carried(mark, k)
<1>r. /\ dev \in Devices /\ tr \in Transports /\ sent \in Seq(Sources) /\ w \in Waves
      /\ queue \in [Index -> Buffers]
      /\ heard \in [Headers -> [frames : Nat, size : Nat, times : Nat]] /\ budget \in Budgets
  BY Basics, Records DEF Kept, Histories, Budgets
<1>u. UNCHANGED <<tr, w, queue, plays, inqueue, app, budget, outcome>>
  BY DEF Pull, PcmPull
<1>1. CASE ~(Available(dev) > 0)
  <2>1. dev' = [dev EXCEPT !.underrun = TRUE] /\ sent' = sent /\ heard' = heard
    BY <1>1 DEF Pull, PcmPull
  <2>2. dev'.position = dev.position
    BY <1>r, <2>1 DEF Devices
  <2>3. Extent' = Extent /\ (Resetting' <=> Resetting)
    BY <1>u DEF Extent, Extra, Linked, Resetting
  <2> QED BY <1>r, <1>u, <2>1, <2>2, <2>3, Untouched
<1>2. CASE Available(dev) > 0
  <2>1. /\ dev.running /\ sent' = Tail(sent)
        /\ dev' = [dev EXCEPT !.head = (dev.head + 1) % RingFrames, !.position = dev.position + 1]
        /\ heard' = IF sent' # sent THEN [heard EXCEPT ![Head(sent)].frames = @ + 1] ELSE heard
    BY <1>2 DEF Pull, PcmPull
  <2>2. dev'.position = dev.position + 1
    BY <1>r, <2>1 DEF Devices
  <2>3. tr.opened /\ w.open
    <3>1. tr.opened
      BY <2>1, Basics DEF PcmInv
    <3> QED BY <3>1 DEF Kept, Flow
  <2>4. PICK n, h : n = Len(sent) /\ h = Head(sent)
    OBVIOUS
  <2>5. n = Available(dev) /\ n \in Nat
    BY <1>r, <2>3, <2>4, Basics DEF PcmInv, RingHoldsSent
  <2>6. n > 0 /\ sent # <<>>
    <3>1. n > 0
      BY <1>2, <2>5
    <3>2. Len(<<>>) = 0
      OBVIOUS
    <3> QED BY <2>4, <3>1, <3>2
  <2>7. /\ h = sent[1] /\ Tail(sent) \in Seq(Sources) /\ Len(Tail(sent)) = n - 1
        /\ \A f \in 1 .. n - 1 : Tail(sent)[f] = sent[f + 1]
    BY <1>r, <2>4, <2>6
  <2>8. sent' # sent
    BY <2>1, <2>4, <2>5, <2>7
  <2>9. h \in inqueue /\ h \in Headers
    <3>1. 1 \in 1 .. n
      BY <2>5, <2>6
    <3> QED BY <2>3, <2>4, <2>7, <3>1, Basics, Before DEF Kept, Flow
  <2>10. PICK c : c = heard[h]
    OBVIOUS
  <2>11. heard' = [heard EXCEPT ![h] = [c EXCEPT !.frames = c.frames + 1]]
    BY <1>r, <2>1, <2>4, <2>8, <2>9, <2>10
  <2>12. PICK d : d = [c EXCEPT !.frames = c.frames + 1]
    OBVIOUS
  <2>13. /\ d \in [frames : Nat, size : Nat, times : Nat] /\ d.frames = c.frames + 1
         /\ d.size = c.size /\ d.times = c.times /\ c.frames \in Nat
    BY <1>r, <2>9, <2>10, <2>12
  <2>14. /\ heard' \in [Headers -> [frames : Nat, size : Nat, times : Nat]]
         /\ \A g \in Headers : heard'[g] = IF g = h THEN d ELSE heard[g]
    BY <1>r, <2>9, <2>11, <2>12, <2>13
  <2>15. SlotsStay /\ \A o \in 0 .. Extent - 1 : Slot(o)' = Slot(o)
    BY <1>u DEF SlotsStay, Slot, At, Extent, Extra, Linked
  <2>16. ASSUME NEW o \in 0 .. Extent - 1
         PROVE  /\ Asked(o)'.size = Asked(o).size /\ Asked(o)'.times = Asked(o).times
                /\ Given(o)' = Given(o)
    <3>1. PICK g \in Headers : g = Slot(o).header
      BY SlotHeaders
    <3>2. Asked(o) = heard[g] /\ Asked(o)' = heard'[g]
      BY <2>15, <3>1 DEF Asked
    <3>3. Asked(o)'.size = Asked(o).size /\ Asked(o)'.times = Asked(o).times
      BY <2>10, <2>13, <2>14, <3>2
    <3>4. Asked(o)'.frames = Asked(o).frames + IF g = h THEN 1 ELSE 0
      <4>1. Asked(o).frames \in Nat
        BY <1>r, <3>2
      <4> QED BY <2>10, <2>13, <2>14, <3>2, <4>1
    <3>5. Count(sent, g) = Count(Tail(sent), g) + IF h = g THEN 1 ELSE 0
      BY <1>r, <2>4, <2>6, CountTail
    <3>6. Count(Tail(sent), g) \in Nat /\ Asked(o).frames \in Nat
      BY <1>r, <2>7, <3>2, CountType
    <3>7. Given(o) = Asked(o).frames + Count(sent, g) /\ Given(o)' = Asked(o)'.frames + Count(Tail(sent), g)
      <4>1. Slot(o)'.header = g /\ sent' = Tail(sent)
        BY <2>1, <2>15, <3>1
      <4>2. Given(o)' = Asked(o)'.frames + Count(sent', Slot(o)'.header)
        BY DEF Given, Count
      <4> QED BY <3>1, <4>1, <4>2 DEF Given
    <3> QED BY <3>3, <3>4, <3>5, <3>6, <3>7
  <2>17. AskedStays
    BY <2>16 DEF AskedStays
  <2>18. Sizes'
    BY <1>u, <2>15, <2>17, SizesStay DEF Kept
  <2>19. Flow'
    <3>1. dev.position \in Nat /\ dev.position + n = tr.submitted
      BY <1>r, <2>3, <2>4 DEF Kept, Flow, Devices
    <3>2. dev'.position + Len(sent') = tr'.submitted
      BY <1>u, <2>1, <2>2, <2>5, <2>7, <3>1
    <3>3. \A i \in 1 .. Len(sent') : sent'[i] \in inqueue'
      <4>1. \A i \in 1 .. n - 1 : i + 1 \in 1 .. n
        BY <2>5
      <4> QED BY <1>u, <2>1, <2>3, <2>4, <2>7, <4>1 DEF Kept, Flow
    <3>4. ~Resetting'
      <4>1. ~Resetting
        BY <2>3, <2>6 DEF Kept, Flow
      <4> QED BY <1>u, <4>1 DEF Resetting
    <3> QED BY <1>u, <2>3, <3>2, <3>3, <3>4 DEF Flow
  <2>20. Kept'
    <3>1. Histories' /\ Queued' /\ Unbroken'
      BY <1>u, <2>14 DEF Kept, Histories, Queued, Unbroken
    <3> QED BY <2>18, <2>19, <3>1 DEF Kept
  <2>21. PlayedWasHeard'
    <3> SUFFICES ASSUME NEW g \in Headers, outcome'[g] = "played"
                 PROVE  \E m \in 1 .. heard'[g].times :
                            /\ heard'[g].frames = m * heard'[g].size
                            /\ budget'.breaks = 0 => m = heard'[g].times
      BY DEF PlayedWasHeard
    <3>1. outcome[g] = "played" /\ outcome[h] = "queued"
      BY <1>u, <2>9 DEF Kept, Queued
    <3>2. heard'[g] = heard[g]
      BY <2>14, <3>1
    <3>3. \E m \in 1 .. heard[g].times :
              heard[g].frames = m * heard[g].size /\ (budget.breaks = 0 => m = heard[g].times)
      BY <3>1, Basics DEF PlayedWasHeard
    <3> QED BY <1>u, <3>2, <3>3
  <2>22. ASSUME Told(mark, k) PROVE Told(mark, k)'
    <3>1. Due(mark)'
      <4>1. PICK l : l = Len(plays)
        OBVIOUS
      <4>2. ASSUME NEW i \in 1 .. l, NEW o \in mark[i - 1] .. mark[i] - 1, NEW f \in 1 .. n - 1,
                   Tail(sent)[f] = Slot(o).header
            PROVE  (dev.position + 1) + f <= tr.completions[i].target
        <5>1. f + 1 \in 1 .. n /\ sent[f + 1] = Slot(o).header
          BY <2>5, <2>7, <4>2
        <5>2. dev.position + (f + 1) <= tr.completions[i].target
          BY <2>4, <2>22, <4>1, <5>1 DEF Told, Due
        <5>3. dev.position + (f + 1) = (dev.position + 1) + f
          <6>1. dev.position \in Nat
            BY <1>r DEF Devices
          <6> QED BY <2>5, <6>1
        <5> QED BY <5>2, <5>3
      <4>3. \A o : Slot(o)' = Slot(o)
        BY <1>u DEF Slot, At
      <4>4. \A i \in 1 .. l : \A o \in mark[i - 1] .. mark[i] - 1 : \A f \in 1 .. n - 1 :
               Tail(sent)[f] = Slot(o)'.header => (dev.position + 1) + f <= tr.completions[i].target
        BY <4>2, <4>3
      <4>5. Len(plays') = l /\ Len(sent') = n - 1 /\ sent' = Tail(sent) /\ dev'.position = dev.position + 1
            /\ tr' = tr
        BY <1>u, <2>1, <2>2, <2>7, <4>1
      <4> QED BY <4>4, <4>5 DEF Due
    <3> QED BY <1>u, <2>15, <2>16, <2>17, <2>22, <3>1, ToldStays DEF Kept
  <2> QED BY <2>20, <2>21, <2>22 DEF Carried
<1> QED BY <1>1, <1>2

\* A reset of the stream drops what was sent.
LEMMA ResetHeard ==
    ASSUME Calm, Kept, PlayedWasHeard, Reset
    PROVE  Kept' /\ PlayedWasHeard' /\ Resetting'
<1>r. w \in Waves /\ tr \in Transports /\ budget \in Budgets
  BY Basics, Records DEF Kept, Histories, Budgets
<1>1. /\ w.open /\ app.pc = "idle" /\ Spend("pauses") /\ app' = [Idle EXCEPT !.pc = "resetting"]
      /\ UNCHANGED <<queue, plays, inqueue, pump, heard, outcome, hurt>>
      /\ IF Validate(w.stream) = "ok"
         THEN PmReset(w.stream) /\ w' = [w EXCEPT !.paused = FALSE]
         ELSE UNCHANGED <<tr, dev, ring, devnode, sent, w>>
  BY DEF Reset, Calling
<1>2. PmReset(w.stream) /\ w' = [w EXCEPT !.paused = FALSE]
  BY <1>1, Basics, ValidStream
<1>3. /\ tr' = [tr EXCEPT !.tail = 0, !.submitted = 0, !.completions = <<>>,
                          !.invalid = FALSE, !.paused = FALSE]
      /\ dev' = [DeviceReset(dev) EXCEPT !.configured = TRUE, !.enabled = TRUE, !.gain = tr.gain]
      /\ sent' = <<>>
  BY <1>2 DEF PmReset, ProgramStream
<1>4. /\ w'.open = w.open /\ w'.read = w.read /\ w'.count = w.count
      /\ w'.breakNow = w.breakNow /\ w'.breakNext = w.breakNext
  BY <1>r, <1>2 DEF Waves
<1>5. app'.pc = "resetting" /\ Resetting'
  BY <1>1 DEF Idle, Resetting
<1>6. SlotsStay /\ AskedStays
  BY <1>1, <1>4, <1>5 DEF SlotsStay, AskedStays, Asked, Slot, At, Extent, Extra, Linked
<1>7. Sizes'
  BY <1>4, <1>6, SizesStay DEF Kept
<1>8. tr'.submitted = 0 /\ dev'.position = 0
  BY <1>r, <1>3 DEF Transports, DeviceReset
<1>9. Flow'
  BY <1>1, <1>3, <1>4, <1>5, <1>8 DEF Flow
<1>10. budget' \in Budgets /\ budget'.breaks = budget.breaks
  BY <1>1, <1>r, Spending
<1>11. Histories' /\ Queued' /\ Unbroken'
  BY <1>1, <1>4, <1>10 DEF Kept, Histories, Queued, Unbroken, Budgets
<1>12. PlayedWasHeard'
  BY <1>1, <1>10, Basics, StillHeard
<1> QED BY <1>5, <1>7, <1>9, <1>11, <1>12 DEF Kept

\* Distances, after a step.
LEMMA OffsetsLater ==
    ASSUME TRUE
    PROVE  (w \in Waves => \A i \in Index : Off(i) \in Index)'
<1>1. w \in Waves => \A i \in Index : Off(i) \in Index
  BY Distances
<1> QED BY <1>1, PTL

\* A stream that is opened, closed or emptied has given nothing.
LEMMA EmptyHeard ==
    ASSUME Calm, WaveInv', Unharmed', Kept, PlayedWasHeard, Open \/ OpenFails \/ Close \/ ResetFlushes,
           NEW k, NEW mark, Scheduled(mark, k)'
    PROVE  Kept' /\ PlayedWasHeard' /\ Told(mark, k)'
<1>r. w \in Waves /\ tr \in Transports /\ dev \in Devices /\ budget \in Budgets /\ hurt = {}
  BY Basics, Records DEF Kept, Histories, Budgets
<1>1. CASE ResetFlushes
  <2>1. /\ app.pc = "flushing" /\ w' = Emptied(w) /\ app' = Idle /\ plays' = <<>>
        /\ UNCHANGED <<tr, dev, sent, budget, heard>>
        /\ \E s : outcome' = [h \in Headers |-> IF h \in s THEN "flushed" ELSE outcome[h]]
    BY <1>1 DEF ResetFlushes, Resuming, Return
  <2>2. w'.open = w.open /\ w'.count = 0 /\ ~w'.breakNow /\ ~w'.breakNext
    BY <1>r, <2>1, EmptiedFacts
  <2>3. app'.pc = "idle" /\ Extent' = 0
    BY <2>1, <2>2, IdleType DEF Extent, Extra, Linked
  <2>4. Told(mark, k)' /\ Sizes'
    BY <2>1, <2>2, <2>3, Vacant
  <2>5. inqueue' = {}
    <3>1. Shape' /\ w' \in Waves
      BY DEF WaveInv, Whole, Unharmed, WaveType
    <3>2. \A i \in Index : Off(i)' \in Index
      <4>1. (w \in Waves => \A i \in Index : Off(i) \in Index)'
        BY OffsetsLater
      <4> QED BY <3>1, <4>1
    <3>3. \A i \in Index : Occupied(i)' <=> Off(i)' < w'.count + Extra'
      BY <3>1 DEF Shape
    <3>4. w'.count + Extra' = 0
      BY <2>3 DEF Extent
    <3>5. \A i \in Index : ~Occupied(i)'
      <4>1. \A x \in Index : ~(x < 0)
        BY QueueSize
      <4> QED BY <3>2, <3>3, <3>4, <4>1
    <3> QED BY <3>1, <3>5 DEF Shape
  <2>6. Flow'
    BY <2>1, <2>2, <2>3 DEF Kept, Flow, Resetting
  <2>6a. outcome' \in [Headers -> Outcomes]
    <3>1. outcome \in [Headers -> Outcomes] /\ "flushed" \in Outcomes
      BY DEF Kept, Histories, Outcomes
    <3> QED BY <2>1, <3>1
  <2>7. Histories' /\ Queued' /\ Unbroken'
    BY <2>1, <2>2, <2>5, <2>6a DEF Kept, Histories, Queued, Unbroken
  <2>8. PlayedWasHeard'
    <3>1. \A h \in Headers : outcome'[h] = "played" => outcome[h] = "played"
      BY <2>1
    <3> QED BY <1>r, <2>1, <3>1, StillHeard
  <2> QED BY <2>4, <2>6, <2>7, <2>8 DEF Kept
<1>2. CASE Open \/ OpenFails \/ Close
  <2>1. /\ app.pc = "idle" /\ app' = app /\ plays' = <<>> /\ UNCHANGED <<inqueue, heard, outcome>>
        /\ budget' = budget \/ Spend("opens")
    BY <1>2 DEF Open, OpenFails, Close, Calling
  <2>2. budget' \in Budgets /\ (budget'.breaks = 0 => budget.breaks = 0)
    BY <1>r, <2>1, Spending
  <2>s. PICK s : s = NextStream
    OBVIOUS
  <2>o. PICK u : u = [Closed EXCEPT !.open = TRUE, !.stream = s, !.nextToken = 1]
    OBVIOUS
  <2>3. /\ Open => w' = u
        /\ OpenFails \/ Close => w' = Closed
    BY <2>s, <2>o, Zenon DEF Open, OpenFails, Close
  <2>4. /\ u.count = 0 /\ ~u.breakNow /\ ~u.breakNext /\ u.open
        /\ Closed.count = 0 /\ ~Closed.breakNow /\ ~Closed.breakNext /\ ~Closed.open
    BY <2>o DEF Closed
  <2>5. w'.count = 0 /\ ~w'.breakNow /\ ~w'.breakNext
    BY <1>2, <2>3, <2>4
  <2>6. Extent' = 0 /\ ~Resetting'
    BY <2>1, <2>5 DEF Extent, Extra, Linked, Resetting
  <2>7. Told(mark, k)' /\ Sizes'
    BY <2>1, <2>5, <2>6, Vacant
  <2>8. Histories' /\ Queued' /\ Unbroken'
    BY <2>1, <2>2, <2>5 DEF Kept, Histories, Queued, Unbroken, Budgets
  <2>9. PlayedWasHeard'
    BY <1>r, <2>1, <2>2, StillHeard
  <2>10. Flow'
    <3>1. CASE Open
      <4>1. PICK t : t = [tr EXCEPT !.opened = TRUE, !.stream = s]
        OBVIOUS
      <4>2. s \in Nat
        BY <1>r, <2>s DEF Transports, NextStream
      <4>3. t \in Transports
        BY <1>r, <4>1, <4>2 DEF Transports
      <4>4. ProgramStream(t)
        BY <2>s, <3>1, <4>1 DEF Open, PmOpen
      <4>5. /\ tr' = [t EXCEPT !.tail = 0, !.submitted = 0, !.completions = <<>>,
                               !.invalid = FALSE, !.paused = FALSE]
            /\ dev' = [DeviceReset(dev) EXCEPT !.configured = TRUE, !.enabled = TRUE, !.gain = t.gain]
            /\ sent' = <<>>
        BY <4>4 DEF ProgramStream
      <4>6. tr'.submitted = 0 /\ dev'.position = 0
        BY <4>3, <4>5 DEF Transports, DeviceReset
      <4> QED BY <2>3, <2>4, <2>6, <3>1, <4>5, <4>6 DEF Flow
    <3>2. CASE OpenFails
      <4>1. ~tr.opened
        BY <3>2 DEF OpenFails, OpenResult
      <4>2. tr' = [tr EXCEPT !.stream = s, !.tail = 0, !.submitted = 0,
                        !.completions = <<>>, !.invalid = FALSE, !.paused = FALSE]
        BY <2>s, <3>2 DEF OpenFails
      <4>3. ~tr'.opened
        BY <1>r, <4>1, <4>2 DEF Transports
      <4> QED BY <2>3, <2>4, <3>2, <4>3 DEF Flow
    <3>3. CASE Close
      <4>1. w.open
        BY <3>3 DEF Close
      <4>2. PmClose(w.stream)
        BY <3>3, <4>1, Basics, ValidStream DEF Close
      <4>3. tr' = [tr EXCEPT !.opened = FALSE, !.paused = FALSE, !.completions = <<>>]
        BY <4>2 DEF PmClose
      <4>4. ~tr'.opened
        BY <1>r, <4>3 DEF Transports
      <4> QED BY <2>3, <2>4, <3>3, <4>4 DEF Flow
    <3> QED BY <1>2, <3>1, <3>2, <3>3
  <2> QED BY <2>7, <2>8, <2>9, <2>10 DEF Kept
<1> QED BY <1>1, <1>2


\* The least of a set of numbers, as Min finds it.
LEMMA MinIs ==
    ASSUME NEW S \in SUBSET Int, NEW m \in S, \A y \in S : m <= y
    PROVE  Min(S) = m
<1>1. \A x \in S : (\A y \in S : x <= y) => x = m
  <2> SUFFICES ASSUME NEW x \in S, \A y \in S : x <= y PROVE x = m
    OBVIOUS
  <2>1. x <= m /\ m <= x /\ x \in Int /\ m \in Int
    OBVIOUS
  <2> QED BY <2>1
<1>2. Min(S) \in S /\ \A y \in S : Min(S) <= y
  <2>1. \E x \in S : \A y \in S : x <= y
    OBVIOUS
  <2> QED BY <2>1 DEF Min
<1> QED BY <1>1, <1>2

\* Back from the slot that is written next.
LEMMA SlotsBack ==
    ASSUME Calm, w.count < QueueCapacity, w.write = At(w.count), NEW j \in 1 .. w.count
    PROVE  (w.write - j) % QueueCapacity = At(w.count - j)
<1>1. PICK q, c, n : q = w.read /\ c = w.count /\ n = QueueCapacity
  OBVIOUS
<1>2. n \in Nat \ {0} /\ c \in Nat /\ c < n /\ q \in 0 .. n - 1 /\ j \in 1 .. c
  <2>1. w.read \in Index
    BY Basics DEF Waves
  <2> QED BY <1>1, <2>1, Basics
<1>3. PICK x : x = (q + c) % n
  OBVIOUS
<1>4. x = IF q + c < n THEN q + c ELSE q + c - n
  <2>1. c \in 0 .. n
    BY <1>2
  <2> QED BY <1>2, <1>3, <2>1, ModAdd
<1>5. (x - j) % n = IF x >= j THEN x - j ELSE x - j + n
  <2>1. x \in 0 .. n - 1 /\ j \in 0 .. n - 1
    BY <1>2, <1>4
  <2> QED BY <1>2, <2>1, ModSub
<1>6. (q + (c - j)) % n = IF q + (c - j) < n THEN q + (c - j) ELSE q + (c - j) - n
  <2>1. c - j \in 0 .. n
    BY <1>2
  <2> QED BY <1>2, <2>1, ModAdd
<1>7. (x - j) % n = (q + (c - j)) % n
  <2>1. PICK y, z : y = (x - j) % n /\ z = (q + (c - j)) % n
    OBVIOUS
  <2>2. y = z
    BY <1>2, <1>4, <1>5, <1>6, <2>1
  <2> QED BY <2>1, <2>2
<1> QED BY <1>1, <1>3, <1>7 DEF At

\* The loop that a buffer is written to is the one that is open.
LEMMA LoopOf ==
    ASSUME Calm, ~Linked, w.count < QueueCapacity, w.write = At(w.count),
           NEW b \in 0 .. w.count - 1, Member(b, w.count)
    PROVE  LoopCount = Slot(b).loops
<1>1. PICK c, m : c = w.count /\ m = c - b
  OBVIOUS
<1>2. /\ c \in Nat /\ b \in 0 .. c - 1 /\ m \in 1 .. c /\ c - m = b /\ c < QueueCapacity
      /\ QueueCapacity \in Nat /\ Extent = c
  BY <1>1, Basics DEF Extent, Extra
<1>3. \A j \in 1 .. c : queue[(w.write - j) % QueueCapacity] = Slot(c - j)
  BY <1>1, SlotsBack DEF Slot
<1>4. PICK back : back = {k \in 1 .. QueueCapacity : queue[(w.write - k) % QueueCapacity].begins}
  OBVIOUS
<1>5. Slot(b).begins /\ \A x \in b .. c - 1 : ~Slot(x).ends
  BY <1>1 DEF Member
<1>6. m \in back /\ back \in SUBSET Int
  <2>1. m \in 1 .. QueueCapacity /\ queue[(w.write - m) % QueueCapacity] = Slot(b)
    BY <1>2, <1>3
  <2> QED BY <1>4, <1>5, <2>1
<1>7. \A y \in back : m <= y
  <2> SUFFICES ASSUME NEW y \in back, ~(m <= y) PROVE FALSE
    OBVIOUS
  <2>1. y \in 1 .. c /\ y < m
    BY <1>2, <1>4
  <2>2. PICK x : x = c - y
    OBVIOUS
  <2>3. x \in b + 1 .. c - 1 /\ x \in 0 .. Extent - 1
    BY <1>2, <2>1, <2>2, <1>1
  <2>4. Slot(x).begins
    BY <1>3, <1>4, <2>1, <2>2
  <2>5. ~InLoop(x)
    BY <2>3, <2>4, Basics DEF Nested
  <2>6. b \in 0 .. x - 1 /\ \A z \in b .. x - 1 : z \in b .. c - 1
    BY <1>2, <2>3
  <2>7. InLoop(x)
    BY <1>5, <2>6 DEF InLoop
  <2> QED BY <2>5, <2>7
<1>8. Min(back) = m /\ back # {}
  BY <1>6, <1>7, MinIs
<1>9. LoopCount = IF back = {} THEN 1 ELSE queue[(w.write - Min(back)) % QueueCapacity].loops
  BY <1>4 DEF LoopCount
<1>10. queue[(w.write - m) % QueueCapacity] = Slot(b)
  BY <1>2, <1>3
<1> QED BY <1>8, <1>9, <1>10

\* What the first part of a write does.
Wrote(b, c, h, n, begins, ends, loops, t) ==
    /\ c = w.count /\ c \in Nat /\ c < QueueCapacity /\ w.open /\ app.pc = "idle"
    /\ ~Linked /\ Extent = c /\ Extent' = c + 1 /\ h \notin inqueue
    /\ b \in Buffers /\ b.header = h /\ b.size = n /\ b.begins = begins /\ b.ends = ends
    /\ b.loops = loops /\ b.submitted = 0
    /\ w.write = At(c)
    /\ \A x \in 0 .. c - 1 : Slot(x)' = Slot(x)
    /\ Slot(c)' = b
    /\ begins => ~w.loopOpen /\ loops > 0
    /\ w'.open = w.open /\ w'.read = w.read /\ w'.count = w.count /\ w'.active = w.active
    /\ w'.remaining = w.remaining /\ w'.breakNow = w.breakNow /\ w'.breakNext = w.breakNext
    /\ UNCHANGED <<tr, dev, sent, plays, hurt>>
    /\ app'.pc = "linked"
    /\ inqueue' = inqueue \cup {h}
    /\ t = IF begins THEN loops ELSE IF w.loopOpen THEN LoopCount ELSE 1
    /\ heard' = [heard EXCEPT ![h] = [frames |-> 0, size |-> n, times |-> t]]
    /\ outcome' = [outcome EXCEPT ![h] = "queued"]
    /\ Spend("writes")

\* A write takes the slot after the last one.
LEMMA WriteFacts ==
    ASSUME Calm, NEW h \in Headers, NEW n \in 1 .. MaxFrames, NEW begins \in BOOLEAN,
           NEW ends \in BOOLEAN, NEW loops \in 1 .. MaxLoops, Write(h, n, begins, ends, loops),
           NEW k, NEW mark, Scheduled(mark, k)
    PROVE  \E b, c, t : Wrote(b, c, h, n, begins, ends, loops, t)
<1>1. PICK b, c, t : /\ c = w.count
                     /\ b = [NoBuffer EXCEPT !.header = h, !.size = n,
                                 !.begins = begins, !.ends = ends, !.loops = loops]
                     /\ t = IF begins THEN loops ELSE IF w.loopOpen THEN LoopCount ELSE 1
  OBVIOUS
<1>2. /\ app.pc = "idle" /\ w.open /\ w.count < QueueCapacity /\ h \notin inqueue
      /\ UNCHANGED <<tr, dev, sent, plays, hurt>>
      /\ begins => ~w.loopOpen /\ loops > 0
      /\ queue' = [queue EXCEPT ![w.write] = b]
      /\ inqueue' = inqueue \cup {h}
      /\ w' = IF c = 0 THEN [w EXCEPT !.read = w.write, !.sched = w.write] ELSE w
      /\ app' = [Idle EXCEPT !.pc = "linked", !.loopOpen = (w.loopOpen \/ begins) /\ ~ends]
      /\ heard' = [heard EXCEPT ![h] = [frames |-> 0, size |-> n, times |-> t]]
      /\ outcome' = [outcome EXCEPT ![h] = "queued"]
      /\ Spend("writes")
  BY <1>1, Zenon DEF Write, Calling
<1>3. /\ w \in Waves /\ c \in Nat /\ c \in Index /\ c < QueueCapacity
      /\ queue \in [Index -> Buffers] /\ ~Linked /\ Extra = 0 /\ Extent = c
  <2>1. w \in Waves /\ c \in Nat /\ c \in Index /\ c < QueueCapacity
    BY <1>1, <1>2, Basics
  <2>2. ~Linked /\ Extra = 0
    BY <1>2 DEF Linked, Extra
  <2> QED BY <1>1, <2>1, <2>2, Basics, Before
<1>4. w.write = At(c) /\ At(c) \in Index
  <2>1. w.write = At(c)
    BY <1>1, <1>2, Basics DEF Shape
  <2> QED BY <1>3, <2>1, Slots
<1>5. /\ w'.open = w.open /\ w'.read = w.read /\ w'.count = w.count /\ w'.active = w.active
      /\ w'.remaining = w.remaining /\ w'.breakNow = w.breakNow /\ w'.breakNext = w.breakNext
  <2>1. CASE c = 0
    <3>1. w.write = w.read
      BY <1>4, <2>1, Slots
    <3> QED BY <1>1, <1>2, <1>3, <2>1, <3>1 DEF Waves
  <2>2. CASE c # 0
    BY <1>1, <1>2, <2>2
  <2> QED BY <2>1, <2>2
<1>6. /\ b.header = h /\ b.size = n /\ b.begins = begins /\ b.ends = ends
      /\ b.loops = loops /\ b.submitted = 0
  BY <1>1 DEF NoBuffer
<1>7. b \in Buffers
  <2>1. n \in 0 .. MaxFrames /\ loops \in 0 .. MaxLoops
    BY QueueSize
  <2> QED BY <1>1, <2>1, NoBufferType DEF Buffers
<1>8. app'.pc = "linked"
  BY <1>2 DEF Idle
<1>9. Extent' = c + 1
  BY <1>1, <1>5, <1>8 DEF Extent, Extra, Linked
<1>10. Slot(c)' = b
  BY <1>2, <1>3, <1>4, <1>5 DEF Slot, At
<1>11. ASSUME NEW x \in 0 .. c - 1 PROVE Slot(x)' = Slot(x)
  <2>1. x \in Index /\ x # c
    BY <1>1, <1>3, Basics
  <2>2. At(x) # At(c) /\ At(x) \in Index
    BY <1>3, <2>1, Slots
  <2>3. queue'[At(x)] = queue[At(x)]
    BY <1>2, <1>3, <1>4, <2>2
  <2> QED BY <1>5, <2>3 DEF Slot, At
<1>12. Wrote(b, c, h, n, begins, ends, loops, t)
  BY <1>1, <1>2, <1>3, <1>4, <1>5, <1>6, <1>7, <1>8, <1>9, <1>10, <1>11, Zenon DEF Wrote
<1> QED BY <1>12


\* What a write asks for.
WriteAsked(c, n, t) ==
    /\ Histories' /\ t \in Nat
    /\ \A x \in 0 .. c - 1 : Asked(x)' = Asked(x) /\ Given(x)' = Given(x)
    /\ Asked(c)'.size = n /\ Asked(c)'.times = t /\ Given(c)' = 0
    /\ \A m \in 0 .. c - 1 : Member(m, c) => InLoop(c) /\ t = Slot(m).loops
    /\ InLoop(c) <=> w.loopOpen

\* The histories of a header that is written.
LEMMA WriteAsks ==
    ASSUME Calm, Kept, NEW b, NEW c, NEW h \in Headers, NEW n \in 1 .. MaxFrames,
           NEW begins \in BOOLEAN, NEW ends \in BOOLEAN, NEW loops \in 1 .. MaxLoops, NEW t,
           Wrote(b, c, h, n, begins, ends, loops, t)
    PROVE  WriteAsked(c, n, t)
<1>1. /\ c = w.count /\ c \in Nat /\ c < QueueCapacity /\ w.open /\ app.pc = "idle"
      /\ ~Linked /\ Extent = c /\ h \notin inqueue /\ w.write = At(c)
      /\ b.header = h /\ Slot(c)' = b /\ \A x \in 0 .. c - 1 : Slot(x)' = Slot(x)
      /\ begins => ~w.loopOpen /\ loops > 0
      /\ sent' = sent
      /\ t = IF begins THEN loops ELSE IF w.loopOpen THEN LoopCount ELSE 1
      /\ heard' = [heard EXCEPT ![h] = [frames |-> 0, size |-> n, times |-> t]]
      /\ Spend("writes")
  BY Zenon DEF Wrote
<1>2. InLoop(c) <=> w.loopOpen
  BY <1>1, Basics DEF Nested
<1>3. ASSUME NEW m \in 0 .. c - 1, Member(m, c) PROVE InLoop(c) /\ t = Slot(m).loops /\ t \in Nat
  <2>1. InLoop(c)
    BY <1>3 DEF Member, InLoop
  <2>2. LoopCount = Slot(m).loops
    BY <1>1, <1>3, LoopOf
  <2>3. Slot(m).loops \in Nat
    BY <1>1, Numbers DEF Kept
  <2> QED BY <1>1, <1>2, <2>1, <2>2, <2>3
<1>4. t \in Nat
  <2>1. CASE begins
    BY <1>1, <2>1
  <2>2. CASE ~begins /\ w.loopOpen
    <3>1. PICK m \in 0 .. c - 1 : Slot(m).begins /\ \A x \in m .. c - 1 : ~Slot(x).ends
      BY <1>2, <2>2 DEF InLoop
    <3> QED BY <1>3, <3>1 DEF Member
  <2>3. CASE ~begins /\ ~w.loopOpen
    BY <1>1, <2>3
  <2> QED BY <2>1, <2>2, <2>3
<1>5. PICK e : e = [frames |-> 0, size |-> n, times |-> t]
  OBVIOUS
<1>6. /\ e \in [frames : Nat, size : Nat, times : Nat] /\ e.frames = 0 /\ e.size = n /\ e.times = t
  <2>1. n \in Nat /\ 0 \in Nat
    BY QueueSize
  <2> QED BY <1>4, <1>5, <2>1
<1>7. heard \in [Headers -> [frames : Nat, size : Nat, times : Nat]] /\ budget \in Budgets
  BY DEF Kept, Histories, Budgets
<1>8. /\ heard' \in [Headers -> [frames : Nat, size : Nat, times : Nat]]
      /\ \A g \in Headers : heard'[g] = IF g = h THEN e ELSE heard[g]
  BY <1>1, <1>5, <1>6, <1>7
<1>9. Histories'
  <2>1. budget' \in Budgets
    BY <1>1, <1>7, Spending
  <2>2. outcome \in [Headers -> Outcomes] /\ "queued" \in Outcomes
    BY DEF Kept, Histories, Outcomes
  <2>3. outcome' \in [Headers -> Outcomes]
    BY <2>2 DEF Wrote
  <2> QED BY <1>8, <2>1, <2>3 DEF Histories, Budgets
<1>10. ASSUME NEW x \in 0 .. c - 1 PROVE Asked(x)' = Asked(x) /\ Given(x)' = Given(x)
  <2>1. Slot(x).header \in inqueue /\ Slot(x).header \in Headers /\ Slot(x).header # h
    BY <1>1, SlotHeaders
  <2>2. Slot(x)' = Slot(x)
    BY <1>1
  <2>3. Asked(x)' = Asked(x)
    BY <1>8, <2>1, <2>2 DEF Asked
  <2> QED BY <1>1, <2>2, <2>3 DEF Given, Count
<1>11. Asked(c)' = e
  BY <1>1, <1>8 DEF Asked
<1>12. Given(c)' = 0
  <2>1. sent \in Seq(Sources) /\ \A i \in 1 .. Len(sent) : sent[i] # h
    BY <1>1, Basics, Records DEF Kept, Flow
  <2>2. Count(sent, h) = 0
    BY <2>1, CountNone
  <2>3. Count(sent', Slot(c)'.header) = 0
    BY <1>1, <2>2
  <2>4. Given(c)' = Asked(c)'.frames + Count(sent', Slot(c)'.header)
    BY DEF Given, Count
  <2> QED BY <1>6, <1>11, <2>3, <2>4
<1> QED BY <1>2, <1>3, <1>4, <1>6, <1>9, <1>10, <1>11, <1>12 DEF WriteAsked

\* A write asks for what the slot says, as often as the loop it is in.
LEMMA WriteSizes ==
    ASSUME Calm, Kept, NEW b, NEW c, NEW h \in Headers, NEW n \in 1 .. MaxFrames,
           NEW begins \in BOOLEAN, NEW ends \in BOOLEAN, NEW loops \in 1 .. MaxLoops, NEW t,
           Wrote(b, c, h, n, begins, ends, loops, t)
    PROVE  Sizes'
<1>1. /\ c \in Nat /\ c < QueueCapacity /\ Extent = c /\ Extent' = c + 1
      /\ b.size = n /\ b.begins = begins /\ b.loops = loops
      /\ Slot(c)' = b /\ (\A x \in 0 .. c - 1 : Slot(x)' = Slot(x))
      /\ w'.read = w.read /\ (begins => ~w.loopOpen /\ loops > 0)
      /\ t = IF begins THEN loops ELSE IF w.loopOpen THEN LoopCount ELSE 1
  BY Zenon DEF Wrote
<1>2. /\ \A x \in 0 .. c - 1 : Asked(x)' = Asked(x)
      /\ Asked(c)'.size = n /\ Asked(c)'.times = t
      /\ \A m \in 0 .. c - 1 : Member(m, c) => InLoop(c) /\ t = Slot(m).loops
      /\ InLoop(c) <=> w.loopOpen
  <2>1. WriteAsked(c, n, t)
    BY WriteAsks
  <2> QED BY <2>1 DEF WriteAsked
<1>3. \A x \in 0 .. c : InLoop(x)' <=> InLoop(x)
  <2>1. \A x \in 0 .. c - 1 : queue'[At(x)].begins = queue[At(x)].begins
                              /\ queue'[At(x)].ends = queue[At(x)].ends
    BY <1>1 DEF Slot, At
  <2>2. c \in 0 .. QueueCapacity
    BY <1>1, Basics
  <2> QED BY <1>1, <2>1, <2>2, SameLoops
<1>4. Sizes
  BY DEF Kept
<1>5. ASSUME NEW o \in 0 .. c - 1
      PROVE  /\ Asked(o)'.size = Slot(o)'.size
             /\ \A m \in 0 .. o : Member(m, o)' => Asked(o)'.times = Slot(m)'.loops
             /\ Slot(o)'.begins => Slot(o)'.loops > 0
             /\ ~InLoop(o)' /\ ~Slot(o)'.begins => Asked(o)'.times = 1
  <2>1. /\ Asked(o).size = Slot(o).size
        /\ \A m \in 0 .. o : Member(m, o) => Asked(o).times = Slot(m).loops
        /\ Slot(o).begins => Slot(o).loops > 0
        /\ ~InLoop(o) /\ ~Slot(o).begins => Asked(o).times = 1
    BY <1>1, <1>4 DEF Sizes
  <2>2. Slot(o)' = Slot(o) /\ Asked(o)' = Asked(o) /\ (InLoop(o)' <=> InLoop(o))
    BY <1>1, <1>2, <1>3
  <2>3. ASSUME NEW m \in 0 .. o, Member(m, o)' PROVE Asked(o)'.times = Slot(m)'.loops
    <3>1. m \in 0 .. c - 1 /\ \A x \in m .. o - 1 : x \in 0 .. c - 1
      BY <1>1
    <3>2. Slot(m)' = Slot(m) /\ \A x \in m .. o - 1 : Slot(x)' = Slot(x)
      BY <1>1, <3>1
    <3>3. Member(m, o)
      BY <2>3, <3>2 DEF Member
    <3> QED BY <2>1, <2>2, <3>2, <3>3
  <2> QED BY <2>1, <2>2, <2>3
<1>6. /\ Asked(c)'.size = Slot(c)'.size
      /\ \A m \in 0 .. c : Member(m, c)' => Asked(c)'.times = Slot(m)'.loops
      /\ Slot(c)'.begins => Slot(c)'.loops > 0
      /\ ~InLoop(c)' /\ ~Slot(c)'.begins => Asked(c)'.times = 1
  <2>1. ASSUME NEW m \in 0 .. c, Member(m, c)' PROVE Asked(c)'.times = Slot(m)'.loops
    <3>1. CASE m = c
      <4>1. begins
        BY <1>1, <2>1, <3>1 DEF Member
      <4> QED BY <1>1, <1>2, <3>1, <4>1
    <3>2. CASE m # c
      <4>1. m \in 0 .. c - 1 /\ \A x \in m .. c - 1 : x \in 0 .. c - 1
        BY <1>1, <3>2
      <4>2. Slot(m)' = Slot(m) /\ \A x \in m .. c - 1 : Slot(x)' = Slot(x)
        BY <1>1, <4>1
      <4>3. Member(m, c)
        BY <2>1, <4>2 DEF Member
      <4> QED BY <1>2, <4>1, <4>2, <4>3
    <3> QED BY <3>1, <3>2
  <2>2. ~InLoop(c)' /\ ~Slot(c)'.begins => Asked(c)'.times = 1
    <3>1. InLoop(c)' <=> InLoop(c)
      <4>1. c \in 0 .. c
        BY <1>1
      <4> QED BY <1>3, <4>1
    <3> QED BY <1>1, <1>2, <3>1
  <2> QED BY <1>1, <1>2, <2>1, <2>2
<1>7. \A o \in 0 .. Extent' - 1 : o \in 0 .. c - 1 \/ o = c
  BY <1>1
<1> QED BY <1>5, <1>6, <1>7 DEF Sizes

\* A buffer that is written has its share: nothing yet.
LEMMA WriteHeard ==
    ASSUME Calm, Kept, PlayedWasHeard, NEW h \in Headers, NEW n \in 1 .. MaxFrames,
           NEW begins \in BOOLEAN, NEW ends \in BOOLEAN, NEW loops \in 1 .. MaxLoops,
           Write(h, n, begins, ends, loops), NEW k, NEW mark, Scheduled(mark, k)
    PROVE  Carried(mark, k)
<1>1. PICK b, c, t : Wrote(b, c, h, n, begins, ends, loops, t)
  BY WriteFacts
<1>2. /\ c = w.count /\ c \in Nat /\ c < QueueCapacity /\ w.open /\ app.pc = "idle"
      /\ Extent = c /\ Extent' = c + 1
      /\ b.size = n /\ b.submitted = 0
      /\ Slot(c)' = b /\ (\A x \in 0 .. c - 1 : Slot(x)' = Slot(x))
      /\ w'.open = w.open /\ w'.active = w.active /\ w'.remaining = w.remaining
      /\ w'.breakNow = w.breakNow /\ w'.breakNext = w.breakNext
      /\ UNCHANGED <<tr, dev, sent, plays>> /\ app'.pc = "linked"
      /\ inqueue' = inqueue \cup {h} /\ h \notin inqueue
      /\ heard' = [heard EXCEPT ![h] = [frames |-> 0, size |-> n, times |-> t]]
      /\ outcome' = [outcome EXCEPT ![h] = "queued"]
      /\ Spend("writes")
  BY <1>1, Zenon DEF Wrote
<1>3. /\ Histories' /\ \A x \in 0 .. c - 1 : Asked(x)' = Asked(x) /\ Given(x)' = Given(x)
      /\ Given(c)' = 0
  <2>1. WriteAsked(c, n, t)
    BY <1>1, WriteAsks
  <2> QED BY <2>1 DEF WriteAsked
<1>4. budget' \in Budgets /\ budget'.breaks = budget.breaks
  <2>1. budget \in Budgets
    BY DEF Kept, Histories, Budgets
  <2> QED BY <1>2, <2>1, Spending
<1>6. \A g \in Headers : outcome'[g] = IF g = h THEN "queued" ELSE outcome[g]
  <2>1. outcome \in [Headers -> Outcomes]
    BY DEF Kept, Histories
  <2> QED BY <1>2, <2>1
<1>7. inqueue' \subseteq Headers
  BY <1>2, Basics, Before
<1>5. Kept'
  <2>1. Sizes'
    BY <1>1, WriteSizes
  <2>2. Flow'
    <3>1. ~Resetting'
      BY <1>2 DEF Resetting
    <3> QED BY <1>2, <3>1 DEF Kept, Flow
  <2>3. Queued'
    BY <1>2, <1>6, <1>7 DEF Kept, Queued
  <2>4. Unbroken'
    BY <1>2, <1>4 DEF Kept, Unbroken
  <2> QED BY <1>3, <2>1, <2>2, <2>3, <2>4 DEF Kept
<1>8. PlayedWasHeard'
  <2> SUFFICES ASSUME NEW g \in Headers, outcome'[g] = "played"
               PROVE  \E m \in 1 .. heard'[g].times :
                          /\ heard'[g].frames = m * heard'[g].size
                          /\ budget'.breaks = 0 => m = heard'[g].times
    BY DEF PlayedWasHeard
  <2>1. g # h /\ outcome[g] = "played"
    BY <1>6
  <2>2. heard'[g] = heard[g]
    BY <1>2, <2>1 DEF Kept, Histories
  <2>3. \E m \in 1 .. heard[g].times :
            heard[g].frames = m * heard[g].size /\ (budget.breaks = 0 => m = heard[g].times)
    BY <2>1, Basics DEF PlayedWasHeard
  <2> QED BY <1>4, <2>2, <2>3
<1>9. ASSUME Told(mark, k) PROVE Told(mark, k)'
  <2>1. PICK s : s = mark[Len(plays)]
    OBVIOUS
  <2>2. /\ s \in 0 .. c /\ k \in 0 .. c /\ s \in Nat /\ k \in Nat
        /\ w.active => s < c
    BY <1>2, <2>1, Cursor
  <2>3. /\ Round(s) /\ (\A o \in 0 .. c - 1 : Share(s, k, o))
        /\ (\A o \in 0 .. c - 1 : o # k => Slot(o).submitted = 0) /\ Due(mark)
    BY <1>2, <1>9, <2>1 DEF Told
  <2>4. Unended(s, c)' <=> Unended(s, Extent)
    <3>1. \A x \in s .. c - 1 : x \in 0 .. c - 1
      BY <1>2, <2>2
    <3>2. \A x \in s .. c - 1 : Slot(x)' = Slot(x)
      BY <1>2, <3>1
    <3> QED BY <1>2, <3>2 DEF Unended
  <2>5. w.active => Slot(s)' = Slot(s) /\ Slot(s).loops \in Nat
    <3>1. w.active => s \in 0 .. c - 1
      BY <1>2, <2>2
    <3> QED BY <1>2, <3>1, Numbers DEF Kept
  <2>6. Unended(s, Extent)' => Unended(s, c)'
    <3>1. \A x \in s .. c - 1 : x \in s .. Extent' - 1
      BY <1>2, <2>2
    <3> QED BY <3>1 DEF Unended
  <2>7. Round(s)'
    BY <1>2, <2>3, <2>4, <2>5, <2>6 DEF Round
  <2>8. ASSUME NEW o \in 0 .. c - 1 PROVE Share(s, k, o)'
    <3>1. 0 + s = s /\ 0 + k = k /\ 0 + o = o /\ o \in Nat
      BY <1>2, <2>2
    <3>2. Share(0 + s, 0 + k, 0 + o)
      BY <2>3, <3>1
    <3>3. /\ Slot(o)' = Slot(0 + o) /\ Asked(o)' = Asked(0 + o) /\ Given(o)' = Given(0 + o)
      BY <1>2, <1>3, <3>1
    <3>4. s <= o => Slot(s)'.loops = Slot(0 + s).loops
      <4>1. s <= o => s \in 0 .. c - 1
        BY <1>2, <2>2
      <4> QED BY <1>2, <3>1, <4>1
    <3>5. \A x \in s .. o - 1 : Slot(x)'.ends = Slot(0 + x).ends
      <4>1. \A x \in s .. o - 1 : x \in 0 .. c - 1 /\ 0 + x = x
        BY <1>2, <2>2
      <4> QED BY <1>2, <4>1
    <3>6. /\ Slot(o)'.size = Slot(0 + o).size /\ Slot(o)'.submitted = Slot(0 + o).submitted
          /\ Asked(o)'.times = Asked(0 + o).times
      BY <3>3
    <3>7. /\ Given(o)' = Given(0 + o) /\ (budget'.breaks = 0 => budget.breaks = 0)
          /\ w'.active = w.active /\ w'.remaining = w.remaining /\ 0 \in Nat
      BY <1>2, <1>4, <3>3
    <3> QED BY <2>2, <3>1, <3>2, <3>4, <3>5, <3>6, <3>7, ShareMoves
  <2>9. Share(s, k, c)'
    <3>1. ~(c < s) /\ ~(c < k)
      BY <1>2, <2>2
    <3>2. Rounds(s, c)' = 0
      <4>1. CASE w.active /\ Unended(s, c)'
        <5>1. w.remaining = Slot(s).loops
          BY <2>3, <2>4, <4>1 DEF Round
        <5>2. Rounds(s, c)' = Slot(s)'.loops - w'.remaining
          BY <1>2, <4>1 DEF Rounds
        <5> QED BY <1>2, <2>5, <4>1, <5>1, <5>2
      <4>2. CASE ~(w.active /\ Unended(s, c)')
        BY <1>2, <4>2 DEF Rounds
      <4> QED BY <4>1, <4>2
    <3>3. Slot(c)'.size = n /\ Slot(c)'.submitted = 0 /\ n \in Nat
      BY <1>2, QueueSize
    <3>4. Given(c)' = Rounds(s, c)' * Slot(c)'.size + Slot(c)'.submitted
      BY <1>3, <3>2, <3>3
    <3> QED BY <3>1, <3>4 DEF Share
  <2>10. \A o \in 0 .. Extent' - 1 : o \in 0 .. c - 1 \/ o = c
    BY <1>2
  <2>11. Due(mark)'
    <3>1. \A o \in 0 .. w.count - 1 : Slot(o)'.header = Slot(o).header
      BY <1>2
    <3> QED BY <1>2, <2>3, <3>1, DueStays
  <2>12. mark[Len(plays')] = s
    BY <1>2, <2>1
  <2>13. \A o \in 0 .. Extent' - 1 : o # k => Slot(o)'.submitted = 0
    BY <1>2, <2>3, <2>10
  <2>14. \A o \in 0 .. Extent' - 1 : Share(s, k, o)'
    BY <2>8, <2>9, <2>10
  <2> QED BY <2>7, <2>11, <2>12, <2>13, <2>14 DEF Told
<1> QED BY <1>5, <1>8, <1>9 DEF Carried


\* What a chunk of the k-th buffer b sends, and what it leaves alone.
Sends(b, a, k, done) ==
    /\ b = Slot(k) /\ k \in 0 .. w.count - 1 /\ k \in 0 .. Extent - 1
    /\ SlotsStay /\ AskedStays /\ w'.read = w.read /\ budget' = budget
    /\ a \in Nat /\ b.submitted + a <= b.size /\ (done <=> b.submitted + a = b.size)
    /\ dev'.position = dev.position
    /\ Len(sent') = Len(sent) + a
    /\ \A f \in 1 .. Len(sent) : sent'[f] = sent[f]
    /\ \A f \in Len(sent) + 1 .. Len(sent) + a : sent'[f] = b.header
    /\ tr'.completions = IF done THEN Append(tr.completions, [token |-> Token, target |-> tr.submitted + a])
                         ELSE tr.completions
    /\ \A o \in 0 .. Extent - 1 : o # k => /\ Given(o)' = Given(o)
                                           /\ Slot(o)'.submitted = Slot(o).submitted
    /\ Given(k)' = Given(k) + a
    /\ Slot(k)'.submitted = IF done THEN 0 ELSE b.submitted + a
    /\ Histories' /\ Sizes' /\ Flow' /\ Queued' /\ PlayedWasHeard'

\* A chunk sends frames of one buffer.
LEMMA ChunkSends ==
    ASSUME Calm, Kept, PlayedWasHeard, SubmitChunk, NEW b, NEW a, NEW f, NEW done,
           Chunked(b, a, f, done), NEW k \in 0 .. w.count - 1, w.sched = At(k)
    PROVE  Sends(b, a, k, done)
<1>r. /\ w \in Waves /\ tr \in Transports /\ dev \in Devices /\ sent \in Seq(Sources)
      /\ queue \in [Index -> Buffers] /\ hurt = {}
  BY Basics, Records
<1>1. /\ b = queue[w.sched] /\ b \in Buffers /\ b.header \in Sources
      /\ w.open /\ app' = app /\ pump = "submit" /\ w.sched \in Index
      /\ b.submitted \in Nat /\ b.size \in Nat
      /\ a \in 1 .. RingFrames - 1 /\ a <= RingFrames - Available(dev) - 1
      /\ b.submitted + a <= b.size
      /\ done \in BOOLEAN /\ (done <=> b.submitted + a = b.size)
      /\ tr' = [tr EXCEPT !.tail = (tr.tail + a) % RingFrames, !.submitted = tr.submitted + a,
                        !.completions = IF done
                            THEN Append(tr.completions, [token |-> Token, target |-> tr.submitted + a])
                            ELSE tr.completions]
      /\ dev' = Committed((tr.tail + a) % RingFrames)
      /\ sent' = sent \o [i \in 1 .. a |-> b.header]
      /\ f.w \in Waves /\ f.w.open = w.open /\ f = Finish(b, w.sched) /\ w.pending < QueueCapacity
      /\ w' = IF done THEN [f.w EXCEPT !.nextToken = Numbered.nextToken] ELSE Numbered
  BY DEF Chunked
<1>2. UNCHANGED <<inqueue, budget, heard, outcome>>
  BY DEF SubmitChunk
<1>3. ~Linked /\ ~Resetting /\ ~Resetting' /\ Extra' = Extra /\ Extent = w.count
  <2>1. ~Linked /\ ~Resetting
    BY <1>1, PumpAlone
  <2> QED BY <1>1, <2>1, Basics DEF Resetting, Extra, Linked
<1>4. /\ w'.read = w.read /\ w'.count = w.count /\ FlagsKept(w.sched)
      /\ queue'[w.sched].submitted = IF done THEN 0 ELSE b.submitted + a
  BY ChunkedSlots
<1>5. Extent' = Extent /\ k \in 0 .. Extent - 1 /\ k \in Index /\ a \in Nat /\ a > 0
  <2>1. Extent' = Extent
    BY <1>3, <1>4 DEF Extent
  <2>2. k \in 0 .. Extent - 1 /\ k \in Index
    BY <1>3, Basics
  <2>3. a \in Nat /\ a > 0
    BY <1>1, RingSize
  <2> QED BY <2>1, <2>2, <2>3
<1>6. b = Slot(k)
  BY <1>1 DEF Slot
<1>7. ASSUME NEW o \in 0 .. Extent - 1
      PROVE  /\ Slot(o)'.header = Slot(o).header /\ Slot(o)'.size = Slot(o).size
             /\ Slot(o)'.begins = Slot(o).begins /\ Slot(o)'.ends = Slot(o).ends
             /\ Slot(o)'.loops = Slot(o).loops
             /\ o # k => Slot(o)' = Slot(o)
  <2>1. At(o) \in Index /\ o \in Index
    BY SlotHeaders
  <2>2. Slot(o)' = queue'[At(o)] /\ Slot(o) = queue[At(o)]
    BY <1>4 DEF Slot, At
  <2>3. o # k => At(o) # w.sched
    BY <1>5, <2>1, Slots
  <2> QED BY <1>4, <2>1, <2>2, <2>3 DEF FlagsKept
<1>8. Slot(k)'.submitted = IF done THEN 0 ELSE b.submitted + a
  BY <1>4 DEF Slot, At
<1>9. SlotsStay
  BY <1>5, <1>7 DEF SlotsStay
<1>10. \A o \in 0 .. Extent - 1 : Asked(o)' = Asked(o)
  BY <1>2, <1>7 DEF Asked
<1>11. AskedStays
  BY <1>10 DEF AskedStays
<1>12. /\ sent' \in Seq(Sources) /\ Len(sent') = Len(sent) + a
       /\ \A i \in 1 .. Len(sent) : sent'[i] = sent[i]
       /\ \A i \in Len(sent) + 1 .. Len(sent) + a : sent'[i] = b.header
       /\ \A h : Count(sent', h) = Count(sent, h) + IF h = b.header THEN a ELSE 0
  <2>1. \A h : /\ sent' \in Seq(Sources) /\ Len(sent') = Len(sent) + a
               /\ \A i \in 1 .. Len(sent) : sent'[i] = sent[i]
               /\ \A i \in Len(sent) + 1 .. Len(sent) + a : sent'[i] = b.header
               /\ Count(sent', h) = Count(sent, h) + IF h = b.header THEN a ELSE 0
    <3> SUFFICES ASSUME NEW h
                 PROVE  /\ sent' \in Seq(Sources) /\ Len(sent') = Len(sent) + a
                        /\ \A i \in 1 .. Len(sent) : sent'[i] = sent[i]
                        /\ \A i \in Len(sent) + 1 .. Len(sent) + a : sent'[i] = b.header
                        /\ Count(sent', h) = Count(sent, h) + IF h = b.header THEN a ELSE 0
      OBVIOUS
    <3>1. PICK t, x : t = sent' /\ x = b.header
      OBVIOUS
    <3>2. t = sent \o Repeated(x, a) /\ x \in Sources /\ sent \in Seq(Sources) /\ a \in Nat
      BY <1>r, <1>1, <1>5, <3>1 DEF Repeated
    <3>3. /\ t \in Seq(Sources) /\ Len(t) = Len(sent) + a
          /\ \A i \in 1 .. Len(sent) : t[i] = sent[i]
          /\ \A i \in Len(sent) + 1 .. Len(sent) + a : t[i] = x
          /\ Count(t, h) = Count(sent, h) + IF h = x THEN a ELSE 0
      <4>1. Followed(sent, x, a, t, h)
        BY <3>2, CountRun
      <4> QED BY <4>1 DEF Followed
    <3> QED BY <3>1, <3>3
  <2> QED BY <2>1
<1>13. ASSUME NEW o \in 0 .. Extent - 1 PROVE Given(o)' = Given(o) + IF o = k THEN a ELSE 0
  <2>1. PICK h : h = Slot(o).header
    OBVIOUS
  <2>2. h = b.header <=> o = k
    BY <1>5, <1>6, <2>1, SlotHeaders
  <2>3. Given(o)' = Asked(o)'.frames + Count(sent', Slot(o)'.header)
    BY DEF Given, Count
  <2>4. Given(o)' = Asked(o).frames + (Count(sent, h) + IF o = k THEN a ELSE 0)
    BY <1>7, <1>10, <1>12, <2>1, <2>2, <2>3
  <2>5. Asked(o).frames \in Nat /\ Count(sent, h) \in Nat
    BY <2>1, Numbers DEF Kept
  <2>6. Given(o) = Asked(o).frames + Count(sent, h)
    BY <2>1 DEF Given
  <2> QED BY <1>5, <2>4, <2>5, <2>6
<1>14. Given(k)' = Given(k) + a /\ \A o \in 0 .. Extent - 1 : o # k => Given(o)' = Given(o)
  <2>1. \A o \in 0 .. Extent - 1 : Given(o) \in Nat
    BY Numbers DEF Kept
  <2> QED BY <1>5, <1>13, <2>1
<1>15. Histories' /\ Queued'
  BY <1>2 DEF Kept, Histories, Queued
<1>16. Sizes'
  BY <1>4, <1>9, <1>11, SizesStay DEF Kept
<1>17. PlayedWasHeard'
  BY <1>r, <1>2, StillHeard
<1>18. dev'.position = dev.position /\ tr'.submitted = tr.submitted + a
       /\ tr'.completions = IF done THEN Append(tr.completions, [token |-> Token, target |-> tr.submitted + a])
                            ELSE tr.completions
  <2>1. dev'.position = dev.position
    <3>1. tr.opened /\ dev.master /\ ~dev.bad /\ ~dev.irq
      BY <1>1, Basics DEF Healthy
    <3> QED BY <1>1, <3>1, Basics, CommittedFine
  <2>2. PICK z : z = IF done THEN Append(tr.completions, [token |-> Token, target |-> tr.submitted + a])
                     ELSE tr.completions
    OBVIOUS
  <2>3. tr' = [tr EXCEPT !.tail = (tr.tail + a) % RingFrames, !.submitted = tr.submitted + a, !.completions = z]
    BY <1>1, <2>2
  <2>4. tr'.completions = z /\ tr'.submitted = tr.submitted + a
    BY <1>r, <2>3 DEF Transports
  <2> QED BY <2>1, <2>2, <2>4
<1>19. w'.open = w.open
  <2>1. Numbered.open = w.open /\ Numbered \in Waves
    <3>1. Numbered \in Waves
      BY <1>1, TokenType, Basics DEF NextBuffer
    <3>2. Numbered = w \/ \E t : Numbered = [w EXCEPT !.nextToken = t]
      BY DEF Numbered
    <3> QED BY <1>r, <3>1, <3>2 DEF Waves
  <2> QED BY <1>1, <2>1 DEF Waves
<1>20. Flow'
  <2>1. dev.position + Len(sent) = tr.submitted /\ \A i \in 1 .. Len(sent) : sent[i] \in inqueue
    BY <1>1 DEF Kept, Flow
  <2>2. dev.position \in Nat /\ Len(sent) \in Nat
    BY Numbers DEF Kept
  <2>3. dev'.position + Len(sent') = tr'.submitted
    BY <1>5, <1>12, <1>18, <2>1, <2>2
  <2>4. b.header \in inqueue
    BY <1>5, <1>6, SlotHeaders
  <2>5. \A i \in 1 .. Len(sent') : sent'[i] \in inqueue'
    <3>1. \A i \in 1 .. Len(sent') : i \in 1 .. Len(sent) \/ i \in Len(sent) + 1 .. Len(sent) + a
      BY <1>5, <1>12, <2>2
    <3> QED BY <1>2, <1>12, <2>1, <2>4, <3>1
  <2> QED BY <1>1, <1>3, <1>19, <2>3, <2>5 DEF Flow
<1> QED BY <1>1, <1>2, <1>4, <1>5, <1>6, <1>7, <1>8, <1>9, <1>11, <1>12, <1>14, <1>15, <1>16, <1>17, <1>18, <1>20 DEF Sends

\* What is sent comes after what the plays wait for.
LEMMA SendDue ==
    ASSUME Calm, Kept, NEW k, NEW mark, Scheduled(mark, k), Due(mark), w.open, ~Resetting,
           NEW b, NEW a, NEW done, Sends(b, a, k, done)
    PROVE  \A i \in 1 .. Len(plays) : \A o \in mark[i - 1] .. mark[i] - 1 : \A f \in 1 .. Len(sent') :
               sent'[f] = Slot(o)'.header => dev'.position + f <= tr'.completions[i].target
<1> SUFFICES ASSUME NEW i \in 1 .. Len(plays), NEW o \in mark[i - 1] .. mark[i] - 1,
                    NEW f \in 1 .. Len(sent'), sent'[f] = Slot(o)'.header
             PROVE  dev'.position + f <= tr'.completions[i].target
  OBVIOUS
<1>1. PICK l, n, s : l = Len(plays) /\ n = Len(sent) /\ s = mark[Len(plays)]
  OBVIOUS
<1>2. l \in Nat /\ n \in Nat /\ tr.completions \in Seq(Completion) /\ Len(tr.completions) = l
  BY <1>1, Numbers, Basics DEF Kept, Answers
<1>3. /\ b = Slot(k) /\ k \in 0 .. Extent - 1 /\ a \in Nat /\ SlotsStay
      /\ dev'.position = dev.position /\ Len(sent') = n + a
      /\ \A g \in 1 .. n : sent'[g] = sent[g]
      /\ \A g \in n + 1 .. n + a : sent'[g] = b.header
      /\ tr'.completions = IF done THEN Append(tr.completions, [token |-> Token, target |-> tr.submitted + a])
                           ELSE tr.completions
  BY <1>1 DEF Sends
<1>4. o \in 0 .. Extent - 1 /\ o # k
  <2>1. i - 1 \in 0 .. l /\ i \in 0 .. l
    BY <1>1, <1>2
  <2>2. mark[i - 1] \in 0 .. w.count /\ mark[i] \in 0 .. w.count /\ mark[i] <= s /\ s <= k /\ s \in Nat
    BY <1>1, <2>1, Cursor
  <2>3. PICK x, y : x = mark[i - 1] /\ y = mark[i]
    OBVIOUS
  <2>4. x \in Nat /\ y \in Nat /\ y <= s /\ s <= k /\ s \in Nat /\ k \in Nat /\ o \in x .. y - 1
    BY <1>3, <2>2, <2>3, Basics
  <2>5. o \in Nat /\ o < k
    BY <2>4
  <2>6. PICK e : e = Extent
    OBVIOUS
  <2>7. e \in Nat /\ k \in 0 .. e - 1
    BY <1>3, <2>6, Basics
  <2>8. o \in 0 .. e - 1 /\ o # k
    BY <2>5, <2>7
  <2> QED BY <2>6, <2>8
<1>5. Slot(o)'.header = Slot(o).header /\ Slot(o).header # b.header
  BY <1>3, <1>4, SlotHeaders DEF SlotsStay
<1>6. f \in 1 .. n
  <2>1. f \in 1 .. n \/ f \in n + 1 .. n + a
    BY <1>2, <1>3
  <2> QED BY <1>3, <1>5, <2>1
<1>7. dev.position + f <= tr.completions[i].target
  BY <1>1, <1>3, <1>5, <1>6 DEF Due
<1>8. tr'.completions[i] = tr.completions[i]
  BY <1>1, <1>2, <1>3
<1> QED BY <1>3, <1>7, <1>8


\* Slots that stay end the same loops.
LEMMA UnendedStays ==
    ASSUME Calm, SlotsStay, NEW s \in Nat, NEW e \in 0 .. Extent
    PROVE  Unended(s, e)' <=> Unended(s, e)
<1>1. e \in Nat /\ Extent \in Nat /\ 0 \in Nat /\ 0 + s = s /\ 0 + e = e
  BY Basics
<1>2. \A x \in s .. e - 1 : x \in 0 .. Extent - 1 /\ 0 + x = x
  BY <1>1
<1>3. \A x \in s .. e - 1 : Slot(x)'.ends = Slot(0 + x).ends
  BY <1>2 DEF SlotsStay
<1> QED BY <1>1, <1>3, UnendedMoves

\* A chunk in the middle of its buffer.
LEMMA MiddleHeard ==
    ASSUME Calm, Kept, w.open, ~Resetting, NEW k, NEW mark, Scheduled(mark, k), Told(mark, k),
           NEW b, NEW a, Sends(b, a, k, FALSE), CursorKept
    PROVE  Told(mark, k)' /\ Unbroken'
<1>1. PICK s : s = mark[Len(plays)]
  OBVIOUS
<1>2. /\ s \in 0 .. Extent /\ k \in 0 .. Extent /\ s \in Nat /\ s <= k
      /\ w.active => s < Extent /\ Unended(s, k)
  BY <1>1, Cursor
<1>3. Round(s) /\ \A o \in 0 .. Extent - 1 : Share(s, k, o)
  BY <1>1 DEF Told
<1>4. /\ w'.active = w.active /\ w'.remaining = w.remaining /\ plays' = plays
      /\ w'.breakNow = w.breakNow /\ w'.breakNext = w.breakNext
  BY DEF CursorKept
<1>5. /\ SlotsStay /\ AskedStays /\ budget' = budget /\ b = Slot(k) /\ k \in 0 .. Extent - 1
      /\ a \in Nat
      /\ \A o \in 0 .. Extent - 1 : o # k => /\ Given(o)' = Given(o)
                                             /\ Slot(o)'.submitted = Slot(o).submitted
      /\ Given(k)' = Given(k) + a /\ Slot(k)'.submitted = b.submitted + a
  BY DEF Sends
<1>6. Round(s)'
  BY <1>2, <1>3, <1>4, <1>5, RoundStays
<1>7. ASSUME NEW o \in 0 .. Extent - 1, o # k PROVE Share(s, k, o)'
  BY <1>2, <1>3, <1>4, <1>5, <1>7, ShareStays DEF AskedStays, Kept
<1>8. Share(s, k, k)'
  <2>1. PICK n, x : n = Rounds(s, k) /\ x = Slot(k).size
    OBVIOUS
  <2>2. Given(k) = n * x + b.submitted
    <3>1. Share(s, k, k) /\ ~(k < s) /\ ~(k < k)
      BY <1>2, <1>3, <1>5
    <3> QED BY <1>5, <2>1, <3>1 DEF Share
  <2>3. Rounds(s, k)' = n
    <3>1. Unended(s, k)' <=> Unended(s, k)
      BY <1>2, <1>5, UnendedStays
    <3>2. w.active => Slot(s)'.loops = Slot(s).loops
      <4>1. w.active => s \in 0 .. Extent - 1
        BY <1>2, Basics
      <4> QED BY <1>5, <4>1 DEF SlotsStay
    <3> QED BY <1>4, <2>1, <3>1, <3>2 DEF Rounds
  <2>4. n \in Int /\ x \in Nat /\ b.submitted \in Nat
    <3>1. /\ x \in Nat /\ b.submitted \in Nat /\ w.remaining \in Nat
      BY <1>5, <2>1, Numbers DEF Kept
    <3>2. w.active => Slot(s).loops \in Nat
      <4>1. w.active => s \in 0 .. Extent - 1
        BY <1>2, Basics
      <4> QED BY <4>1, Numbers DEF Kept
    <3> QED BY <2>1, <3>1, <3>2 DEF Rounds
  <2>5. Slot(k)'.size = x
    BY <1>5, <2>1 DEF SlotsStay
  <2>6. Given(k)' = n * x + (b.submitted + a)
    <3>1. n * x \in Int
      BY <2>4
    <3> QED BY <1>5, <2>2, <2>4, <3>1
  <2>7. ~(k < s) /\ ~(k < k)
    BY <1>2, <1>5
  <2> QED BY <1>5, <2>3, <2>5, <2>6, <2>7 DEF Share
<1>9. \A o \in 0 .. Extent - 1 : o # k => Slot(o)'.submitted = 0
  BY <1>5 DEF Told
<1>10. Due(mark)'
  <2>1. Due(mark)
    BY DEF Told
  <2>2. \A i \in 1 .. Len(plays) : \A o \in mark[i - 1] .. mark[i] - 1 : \A f \in 1 .. Len(sent') :
               sent'[f] = Slot(o)'.header => dev'.position + f <= tr'.completions[i].target
    BY <2>1, SendDue
  <2> QED BY <1>4, <2>2 DEF Due
<1>11. Extent' = Extent /\ mark[Len(plays')] = s
  BY <1>1, <1>4, <1>5 DEF SlotsStay
<1>12. Told(mark, k)'
  BY <1>6, <1>7, <1>8, <1>9, <1>10, <1>11 DEF Told
<1>13. Unbroken'
  BY <1>4, <1>5 DEF Kept, Unbroken
<1> QED BY <1>12, <1>13


\* What was given in the loop at s before the k-th buffer b, R of L rounds from its end.
Within(b, s, k, R, L) ==
    /\ L \in Nat /\ R \in 1 .. L
    /\ \A o \in s .. k - 1 : Given(o) = (L - R + 1) * Slot(o).size
    /\ Given(k) = (L - R) * Slot(k).size + Slot(k).submitted
    /\ \A o \in k + 1 .. Extent - 1 : Given(o) = (IF Unended(s, o) THEN L - R ELSE 0) * Slot(o).size
    /\ Unended(s, Extent) => R = L
    /\ \A o \in s .. k : Asked(o).times = L
    /\ InOne(b) => /\ L = Slot(s).loops
                   /\ R = IF b.begins /\ ~w.active THEN b.loops ELSE w.remaining
    /\ ~InOne(b) => R = 1 /\ L = 1

\* The loop of the buffer that is scheduled.
LEMMA WithinLoop ==
    ASSUME Calm, Kept, NEW k, NEW mark, Scheduled(mark, k), Told(mark, k), k \in 0 .. Extent - 1,
           NEW b, b = Slot(k), NEW s, s = mark[Len(plays)]
    PROVE  \E R, L : Within(b, s, k, R, L)
<1>1. PICK e : e = Extent
  OBVIOUS
<1>2. /\ s \in 0 .. e /\ k \in 0 .. e - 1 /\ s \in Nat /\ k \in Nat /\ e \in Nat /\ s <= k
      /\ w.active => s < e /\ Slot(s).begins /\ Unended(s, k)
      /\ ~w.active => k = s
      /\ ~InLoop(s)
  BY <1>1, Cursor, Basics
<1>3. Round(s) /\ \A o \in 0 .. e - 1 : Share(s, k, o) /\ (o # k => Slot(o).submitted = 0)
  BY <1>1 DEF Told
<1>4. /\ \A o \in 0 .. e - 1 : /\ Slot(o).size \in Nat /\ Slot(o).loops \in Nat
                               /\ Slot(o).submitted \in Nat /\ Given(o) \in Nat
      /\ w.remaining \in Nat
  BY <1>1, Numbers DEF Kept
<1>5. \A o \in k + 1 .. e - 1 : /\ o \in 0 .. e - 1 /\ o # k /\ ~(o < s) /\ ~(o < k)
  BY <1>2
<1>6. \A o \in s .. k - 1 : o \in 0 .. e - 1 /\ ~(o < s) /\ o < k
  BY <1>2
<1>7. \A o \in s .. k : o \in 0 .. e - 1 /\ s \in 0 .. o
  BY <1>2
<1>8. /\ Given(k) = Rounds(s, k) * Slot(k).size + Slot(k).submitted
      /\ \A o \in k + 1 .. e - 1 : Given(o) = Rounds(s, o) * Slot(o).size + 0
  <2>1. ~(k < s) /\ ~(k < k)
    BY <1>2
  <2> QED BY <1>2, <1>3, <1>5, <2>1 DEF Share
<1>9. /\ \A o \in 0 .. e - 1 : \A x \in 0 .. o : Member(x, o) => Asked(o).times = Slot(x).loops
      /\ \A o \in 0 .. e - 1 : /\ Slot(o).begins => Slot(o).loops > 0
                               /\ ~InLoop(o) /\ ~Slot(o).begins => Asked(o).times = 1
  BY <1>1 DEF Kept, Sizes
<1>10. CASE w.active
  <2>1. PICK L, R : L = Slot(s).loops /\ R = w.remaining
    OBVIOUS
  <2>2. L \in Nat /\ R \in 1 .. L /\ (Unended(s, e) => R = L) /\ R \in Nat
    BY <1>1, <1>2, <1>3, <1>4, <1>10, <2>1 DEF Round
  <2>3. \A o : Rounds(s, o) = IF Unended(s, o) THEN L - R ELSE 0
    BY <1>10, <2>1 DEF Rounds
  <2>4. \A o \in s .. k - 1 : Given(o) = (L - R + 1) * Slot(o).size
    BY <1>3, <1>6, <2>1 DEF Share
  <2>5. Given(k) = (L - R) * Slot(k).size + Slot(k).submitted
    BY <1>2, <1>8, <1>10, <2>3
  <2>6. \A o \in k + 1 .. e - 1 : Given(o) = (IF Unended(s, o) THEN L - R ELSE 0) * Slot(o).size
    <3> SUFFICES ASSUME NEW o \in k + 1 .. e - 1
                 PROVE Given(o) = (IF Unended(s, o) THEN L - R ELSE 0) * Slot(o).size
      OBVIOUS
    <3>1. PICK n, x : n = Rounds(s, o) /\ x = Slot(o).size
      OBVIOUS
    <3>2. n \in Int /\ x \in Nat
      BY <1>4, <1>5, <2>2, <2>3, <3>1
    <3>3. n * x \in Int
      BY <3>2
    <3>4. Given(o) = n * x + 0
      BY <1>8, <3>1
    <3>5. Given(o) = n * x
      BY <3>3, <3>4
    <3> QED BY <2>3, <3>1, <3>5
  <2>7. \A o \in s .. k : Asked(o).times = L
    <3> SUFFICES ASSUME NEW o \in s .. k PROVE Asked(o).times = L
      OBVIOUS
    <3>1. \A x \in s .. o - 1 : x \in s .. k - 1
      BY <1>2
    <3>2. Member(s, o)
      BY <1>2, <1>10, <3>1 DEF Member, Unended
    <3> QED BY <1>7, <1>9, <2>1, <3>2
  <2>8. InOne(b) /\ R = (IF b.begins /\ ~w.active THEN b.loops ELSE w.remaining)
    BY <1>10, <2>1 DEF InOne
  <2>9. Within(b, s, k, R, L)
    BY <1>1, <2>1, <2>2, <2>4, <2>5, <2>6, <2>7, <2>8 DEF Within
  <2> QED BY <2>9
<1>11. CASE ~w.active
  <2>1. PICK L : L = IF b.begins THEN b.loops ELSE 1
    OBVIOUS
  <2>2. s = k /\ (InOne(b) <=> b.begins)
    BY <1>2, <1>11 DEF InOne
  <2>3. L \in Nat /\ L \in 1 .. L
    BY <1>2, <1>4, <1>9, <2>1
  <2>4. \A o : Rounds(s, o) = 0
    BY <1>11 DEF Rounds
  <2>5. L - L = 0
    BY <2>3
  <2>6. \A o \in s .. k - 1 : Given(o) = (L - L + 1) * Slot(o).size
    <3>1. \A o \in s .. k - 1 : FALSE
      BY <1>2, <2>2
    <3> QED BY <3>1
  <2>7. Given(k) = (L - L) * Slot(k).size + Slot(k).submitted
    BY <1>8, <2>4, <2>5
  <2>8. \A o \in k + 1 .. e - 1 : Given(o) = (IF Unended(s, o) THEN L - L ELSE 0) * Slot(o).size
    <3> SUFFICES ASSUME NEW o \in k + 1 .. e - 1
                 PROVE Given(o) = (IF Unended(s, o) THEN L - L ELSE 0) * Slot(o).size
      OBVIOUS
    <3>1. PICK x : x = Slot(o).size
      OBVIOUS
    <3>2. Given(o) = 0 * x + 0 /\ x \in Nat
      BY <1>4, <1>5, <1>8, <2>4, <3>1
    <3>3. Given(o) = 0 * x
      BY <3>2
    <3> QED BY <2>5, <3>1, <3>3
  <2>9. \A o \in s .. k : Asked(o).times = L
    <3> SUFFICES ASSUME NEW o \in s .. k PROVE Asked(o).times = L
      OBVIOUS
    <3>1. o = k
      BY <1>2, <2>2
    <3>2. CASE b.begins
      <4>1. \A x \in k .. k - 1 : FALSE
        BY <1>2
      <4>2. Member(k, k)
        BY <3>2, <4>1 DEF Member
      <4>3. k \in 0 .. k
        BY <1>2
      <4> QED BY <1>2, <1>9, <2>1, <3>1, <3>2, <4>2, <4>3
    <3>3. CASE ~b.begins
      BY <1>2, <1>9, <2>1, <2>2, <3>1, <3>3
    <3> QED BY <3>2, <3>3
  <2>10. Within(b, s, k, L, L)
    BY <1>1, <1>11, <2>1, <2>2, <2>3, <2>6, <2>7, <2>8, <2>9 DEF Within
  <2> QED BY <2>10
<1> QED BY <1>10, <1>11


\* A buffer whose loop is left got what was asked for, or at a broken loop whole rounds.
Gone(o) == \E n \in 1 .. Asked(o).times : /\ Given(o) = n * Slot(o).size
                                          /\ budget.breaks = 0 => n = Asked(o).times

\* What was given once the play of the k-th buffer has ended.
Rounded(s, k, R, L) ==
    /\ \A o \in 0 .. s - 1 : Gone(o)'
    /\ \A o \in s .. k : Given(o)' = (L - R + 1) * Slot(o)'.size /\ Asked(o)'.times = L
    /\ \A o \in k + 1 .. Extent - 1 :
          Given(o)' = (IF Unended(s, o) THEN L - R ELSE 0) * Slot(o)'.size
    /\ \A o \in 0 .. Extent - 1 : Slot(o)'.submitted = 0

\* The last chunk of a buffer ends a round for it.
LEMMA EndRounds ==
    ASSUME Calm, Kept, NEW k, NEW mark, Scheduled(mark, k), Told(mark, k),
           NEW b, NEW a, Sends(b, a, k, TRUE), NEW s, s = mark[Len(plays)],
           NEW R, NEW L, Within(b, s, k, R, L)
    PROVE  Rounded(s, k, R, L)
<1>1. PICK e : e = Extent
  OBVIOUS
<1>2. /\ s \in 0 .. e /\ k \in 0 .. e - 1 /\ s \in Nat /\ k \in Nat /\ e \in Nat /\ s <= k
  BY <1>1, Cursor, Basics DEF Sends
<1>3. /\ b = Slot(k) /\ SlotsStay /\ AskedStays /\ budget' = budget /\ a \in Nat
      /\ b.submitted + a = b.size
      /\ \A o \in 0 .. e - 1 : o # k => /\ Given(o)' = Given(o)
                                        /\ Slot(o)'.submitted = Slot(o).submitted
      /\ Given(k)' = Given(k) + a /\ Slot(k)'.submitted = 0
  BY <1>1 DEF Sends
<1>4. \A o \in 0 .. e - 1 : /\ Slot(o)'.size = Slot(o).size /\ Asked(o)'.times = Asked(o).times
                            /\ Slot(o).size \in Nat /\ Slot(o).submitted \in Nat
  BY <1>1, <1>3, Numbers DEF SlotsStay, AskedStays, Kept
<1>5. \A o \in 0 .. s - 1 : o \in 0 .. e - 1 /\ o # k /\ o < s
  BY <1>2
<1>6. \A o \in s .. k - 1 : o \in 0 .. e - 1 /\ o # k
  BY <1>2
<1>7. \A o \in k + 1 .. e - 1 : o \in 0 .. e - 1 /\ o # k
  BY <1>2
<1>8. /\ L \in Nat /\ R \in 1 .. L
      /\ \A o \in s .. k - 1 : Given(o) = (L - R + 1) * Slot(o).size
      /\ Given(k) = (L - R) * Slot(k).size + Slot(k).submitted
      /\ \A o \in k + 1 .. e - 1 : Given(o) = (IF Unended(s, o) THEN L - R ELSE 0) * Slot(o).size
      /\ \A o \in s .. k : Asked(o).times = L
  BY <1>1 DEF Within
<1>9. \A o \in 0 .. s - 1 : Gone(o)'
  <2> SUFFICES ASSUME NEW o \in 0 .. s - 1 PROVE Gone(o)'
    OBVIOUS
  <2>1. Share(s, k, o)
    BY <1>1, <1>5 DEF Told
  <2>2. Gone(o)
    BY <1>5, <2>1 DEF Share, Gone
  <2> QED BY <1>3, <1>4, <1>5, <2>2 DEF Gone
<1>10. Given(k)' = (L - R + 1) * Slot(k)'.size
  <2>1. PICK n, x, y : n = L - R /\ x = Slot(k).size /\ y = Slot(k).submitted
    OBVIOUS
  <2>2. n \in Nat /\ x \in Nat /\ y \in Nat /\ n * x \in Nat
    BY <1>2, <1>4, <1>8, <2>1
  <2>3. Given(k)' = (n * x + y) + a /\ y + a = x
    BY <1>3, <1>8, <2>1
  <2>4. Given(k)' = n * x + x
    BY <1>3, <2>2, <2>3
  <2>5. (n + 1) * x = n * x + x
    BY <2>2
  <2>6. Given(k)' = (n + 1) * x
    BY <2>4, <2>5
  <2> QED BY <1>2, <1>4, <2>1, <2>6
<1>11. \A o \in s .. k : Given(o)' = (L - R + 1) * Slot(o)'.size /\ Asked(o)'.times = L
  <2> SUFFICES ASSUME NEW o \in s .. k
               PROVE  Given(o)' = (L - R + 1) * Slot(o)'.size /\ Asked(o)'.times = L
    OBVIOUS
  <2>1. o \in 0 .. e - 1
    BY <1>2
  <2>2. Asked(o)'.times = L
    BY <1>4, <1>8, <2>1
  <2>3. CASE o = k
    BY <1>10, <2>2, <2>3
  <2>4. CASE o # k
    <3>1. o \in s .. k - 1
      BY <1>2, <2>4
    <3> QED BY <1>3, <1>4, <1>6, <1>8, <2>2, <3>1
  <2> QED BY <2>3, <2>4
<1>12. \A o \in k + 1 .. e - 1 : Given(o)' = (IF Unended(s, o) THEN L - R ELSE 0) * Slot(o)'.size
  BY <1>3, <1>4, <1>7, <1>8
<1>13. \A o \in 0 .. e - 1 : Slot(o)'.submitted = 0
  BY <1>1, <1>3 DEF Told
<1> QED BY <1>1, <1>9, <1>11, <1>12, <1>13 DEF Rounded

\* What the end of a play makes of the rounds that are left.
Turned(b, f, R) ==
    /\ w'.active <=> InOne(b) /\ ~f.release
    /\ InOne(b) /\ ~b.ends => w'.remaining = R /\ ~f.release
    /\ InOne(b) /\ b.ends /\ ~f.release => R >= 2 /\ w'.remaining = R - 1
    /\ f.release => b.ends /\ InOne(b)
    /\ f.release /\ budget.breaks = 0 => R <= 1
    /\ Unbroken'

\* The rounds that are left.
LEMMA EndTurns ==
    ASSUME Calm, Kept, NEW k, NEW b, NEW a, NEW f, Chunked(b, a, f, TRUE), budget' = budget,
           NEW s, NEW q, NEW r, Ended(b, f, s, k, q, r), NEW R, NEW L, Within(b, s, k, R, L)
    PROVE  Turned(b, f, R)
<1>1. PICK v : v = Entered(b, w.sched)
  OBVIOUS
<1>2. /\ w \in Waves /\ b \in Buffers /\ w.sched \in Index /\ w.pending < QueueCapacity
      /\ f = Finish(b, w.sched) /\ f.w \in Waves
      /\ w' = [f.w EXCEPT !.nextToken = Numbered.nextToken]
  BY Basics DEF Chunked
<1>3. /\ w'.remaining = f.w.remaining /\ w'.breakNow = f.w.breakNow
      /\ w'.breakNext = f.w.breakNext
  BY <1>2 DEF Waves
<1>4. /\ v.active <=> InOne(b)
      /\ v.remaining = IF b.begins /\ ~w.active THEN b.loops ELSE w.remaining
      /\ v.breakNow => w.breakNow \/ w.breakNext
      /\ v.breakNext => w.breakNext
  BY <1>1, <1>2, EnteredFacts DEF InOne
<1>5. /\ f.w.breakNow => v.breakNow
      /\ f.w.breakNext => v.breakNext
      /\ f.release <=> v.active /\ b.ends /\ (v.breakNow \/ v.remaining <= 1)
      /\ v.active /\ b.ends /\ ~f.release =>
            v.remaining >= 2 /\ f.w.remaining = v.remaining - 1
      /\ ~(v.active /\ b.ends) => f.w.remaining = v.remaining
  BY <1>1, <1>2, FinishFacts
<1>6. InOne(b) => R = v.remaining
  BY <1>4 DEF Within
<1>7. w'.active <=> InOne(b) /\ ~f.release
  BY DEF Ended
<1>8. budget.breaks = 0 => ~v.breakNow /\ ~v.breakNext
  BY <1>4 DEF Kept, Unbroken
<1>9. Unbroken'
  BY <1>3, <1>5, <1>8 DEF Unbroken
<1> QED BY <1>3, <1>4, <1>5, <1>6, <1>7, <1>8, <1>9 DEF Turned


\* The share of a buffer that scheduling has not passed, after a play has ended.
LEMMA ShareAhead ==
    ASSUME NEW q \in Nat, NEW r \in Nat, NEW o \in Nat, q <= o, r <= o, NEW n \in Int, Rounds(q, o)' = n,
           Slot(o)'.size \in Nat, Given(o)' = n * Slot(o)'.size, Slot(o)'.submitted = 0
    PROVE  Share(q, r, o)'
<1>1. PICK x : x = Slot(o)'.size
  OBVIOUS
<1>2. n * x \in Int
  BY <1>1
<1>3. Given(o)' = n * x + 0
  BY <1>1, <1>2
<1>4. ~(o < q) /\ ~(o < r)
  OBVIOUS
<1> QED BY <1>1, <1>3, <1>4 DEF Share

\* The loop goes on.
LEMMA LoopGoesOn ==
    ASSUME Calm, Kept, NEW k, NEW b, NEW a, NEW f, Sends(b, a, k, TRUE),
           NEW s, NEW q, NEW r, Ended(b, f, s, k, q, r), NEW R, NEW L, Within(b, s, k, R, L),
           Rounded(s, k, R, L), Turned(b, f, R), InOne(b), ~f.release
    PROVE  Round(q)' /\ \A o \in 0 .. Extent - 1 : Share(q, r, o)'
<1>1. PICK e : e = Extent
  OBVIOUS
<1>2. /\ b = Slot(k) /\ s \in 0 .. k /\ q = s /\ k \in 0 .. e - 1 /\ k \in Nat /\ e \in Nat /\ s \in Nat
      /\ \A x \in s .. k - 1 : ~Slot(x).ends
      /\ b.ends => r = s
      /\ ~b.ends => r = k + 1
      /\ SlotsStay /\ s \in 0 .. e - 1
  <2>1. k \in 0 .. e - 1 /\ SlotsStay
    BY <1>1 DEF Sends
  <2>2. e \in Nat
    BY <1>1, Basics
  <2> QED BY <2>1, <2>2 DEF Ended
<1>3. /\ L \in Nat /\ R \in 1 .. L /\ L = Slot(s).loops /\ (Unended(s, e) => R = L) /\ R \in Nat
  BY <1>1 DEF Within
<1>4. /\ w'.active /\ (b.ends => R >= 2 /\ w'.remaining = R - 1)
      /\ ~b.ends => w'.remaining = R
  BY DEF Turned
<1>5. Slot(s)'.loops = L /\ Extent' = e
  BY <1>1, <1>2, <1>3 DEF SlotsStay
<1>6. \A o \in 0 .. e : Unended(s, o)' <=> Unended(s, o)
  BY <1>1, <1>2, UnendedStays
<1>7. \A o \in s .. k : Unended(s, o)
  <2>1. \A o \in s .. k : \A x \in s .. o - 1 : x \in s .. k - 1
    BY <1>2
  <2> QED BY <1>2, <2>1 DEF Unended
<1>8. b.ends => \A o \in k + 1 .. e : ~Unended(s, o)
  <2> SUFFICES ASSUME b.ends, NEW o \in k + 1 .. e PROVE ~Unended(s, o)
    OBVIOUS
  <2>1. k \in s .. o - 1
    BY <1>2
  <2> QED BY <1>2, <2>1 DEF Unended
<1>9. Round(s)'
  <2>1. w'.remaining \in 1 .. L
    BY <1>3, <1>4
  <2>2. e \in 0 .. e /\ e \in k + 1 .. e
    BY <1>2
  <2>3. Unended(s, e)' => w'.remaining = L
    BY <1>3, <1>4, <1>6, <1>8, <2>2
  <2> QED BY <1>5, <2>1, <2>3 DEF Round
<1>10. \A o : Rounds(s, o)' = IF Unended(s, o)' THEN L - w'.remaining ELSE 0
  BY <1>4, <1>5 DEF Rounds
<1>11. \A o \in 0 .. e - 1 : Slot(o)'.size \in Nat /\ Slot(o)'.submitted = 0 /\ o \in Nat /\ o \in 0 .. e
  <2>1. \A o \in 0 .. e - 1 : Slot(o)'.size \in Nat
    BY <1>1, <1>2, Numbers DEF SlotsStay, Kept
  <2>2. \A o \in 0 .. e - 1 : Slot(o)'.submitted = 0
    BY <1>1 DEF Rounded
  <2> QED BY <1>2, <2>1, <2>2
<1>12. ASSUME NEW o \in 0 .. s - 1 PROVE Share(s, r, o)'
  <2>1. o < s
    BY <1>2
  <2>2. Gone(o)'
    BY DEF Rounded
  <2> QED BY <2>1, <2>2 DEF Share, Gone
<1>13. ASSUME NEW o \in s .. k PROVE Share(s, r, o)'
  <2>1. PICK n : n = L - R + 1
    OBVIOUS
  <2>2. Given(o)' = n * Slot(o)'.size
    BY <2>1 DEF Rounded
  <2>3. o \in 0 .. e - 1 /\ n \in Int /\ s <= o
    BY <1>2, <1>3, <2>1
  <2>4. CASE b.ends
    <3>1. Rounds(s, o)' = n
      <4>1. L - (R - 1) = n
        BY <1>3, <2>1
      <4> QED BY <1>4, <1>6, <1>7, <1>10, <1>11, <2>3, <2>4, <4>1
    <3> QED BY <1>2, <1>11, <2>2, <2>3, <2>4, <3>1, ShareAhead
  <2>5. CASE ~b.ends
    <3>1. o < r /\ ~(o < s)
      BY <1>2, <2>3, <2>5
    <3>2. Given(o)' = (Slot(s)'.loops - w'.remaining + 1) * Slot(o)'.size
      BY <1>4, <1>5, <2>1, <2>2, <2>5
    <3> QED BY <3>1, <3>2 DEF Share
  <2> QED BY <2>4, <2>5
<1>14. ASSUME NEW o \in k + 1 .. e - 1 PROVE Share(s, r, o)'
  <2>1. PICK n : n = IF Unended(s, o) THEN L - R ELSE 0
    OBVIOUS
  <2>2. Given(o)' = n * Slot(o)'.size
    BY <1>1, <2>1 DEF Rounded
  <2>3. o \in 0 .. e - 1 /\ n \in Int /\ s <= o /\ r \in Nat /\ r <= o /\ o \in k + 1 .. e
    BY <1>2, <1>3, <2>1
  <2>4. Rounds(s, o)' = n
    BY <1>4, <1>6, <1>8, <1>10, <1>11, <2>1, <2>3
  <2> QED BY <1>2, <1>11, <2>2, <2>3, <2>4, ShareAhead
<1>15. \A o \in 0 .. e - 1 : o \in 0 .. s - 1 \/ o \in s .. k \/ o \in k + 1 .. e - 1
  BY <1>2
<1> QED BY <1>1, <1>2, <1>9, <1>12, <1>13, <1>14, <1>15

\* The loop is left, or the buffer is one of its own.
LEMMA LoopIsLeft ==
    ASSUME Calm, Kept, NEW k, NEW b, NEW a, NEW f, Sends(b, a, k, TRUE),
           NEW s, NEW q, NEW r, Ended(b, f, s, k, q, r), NEW R, NEW L, Within(b, s, k, R, L),
           Rounded(s, k, R, L), Turned(b, f, R), ~InOne(b) \/ f.release
    PROVE  Round(q)' /\ \A o \in 0 .. Extent - 1 : Share(q, r, o)'
<1>1. PICK e : e = Extent
  OBVIOUS
<1>2. /\ b = Slot(k) /\ s \in 0 .. k /\ q = k + 1 /\ r = k + 1 /\ k \in 0 .. e - 1
      /\ k \in Nat /\ e \in Nat /\ s \in Nat /\ SlotsStay
  <2>1. k \in 0 .. e - 1 /\ SlotsStay
    BY <1>1 DEF Sends
  <2>2. e \in Nat
    BY <1>1, Basics
  <2> QED BY <2>1, <2>2 DEF Ended
<1>3. /\ L \in Nat /\ R \in 1 .. L /\ R \in Nat
      /\ ~InOne(b) => R = 1 /\ L = 1
  BY DEF Within
<1>4. ~w'.active /\ budget' = budget /\ (f.release => b.ends)
      /\ (budget.breaks = 0 => R = 1)
  <2>1. f.release /\ budget.breaks = 0 => R <= 1
    BY DEF Turned
  <2> QED BY <1>3, <2>1 DEF Turned, Sends
<1>5. Round(q)'
  BY <1>4 DEF Round
<1>6. \A o : Rounds(q, o)' = 0
  BY <1>4 DEF Rounds
<1>7. \A o \in 0 .. e - 1 : Slot(o)'.size \in Nat /\ Slot(o)'.submitted = 0 /\ o \in Nat
  <2>1. \A o \in 0 .. e - 1 : Slot(o)'.size \in Nat
    BY <1>1, <1>2, Numbers DEF SlotsStay, Kept
  <2>2. \A o \in 0 .. e - 1 : Slot(o)'.submitted = 0
    BY <1>1 DEF Rounded
  <2> QED BY <1>2, <2>1, <2>2
<1>8. ASSUME NEW o \in 0 .. s - 1 PROVE Share(q, r, o)'
  <2>1. o < q
    BY <1>2
  <2>2. Gone(o)'
    BY DEF Rounded
  <2> QED BY <2>1, <2>2 DEF Share, Gone
<1>9. ASSUME NEW o \in s .. k PROVE Share(q, r, o)'
  <2>1. o < q
    BY <1>2
  <2>2. PICK n : n = L - R + 1
    OBVIOUS
  <2>3. n \in 1 .. L /\ (budget.breaks = 0 => n = L)
    BY <1>3, <1>4, <2>2
  <2>4. Given(o)' = n * Slot(o)'.size /\ Asked(o)'.times = L
    BY <2>2 DEF Rounded
  <2> QED BY <1>4, <2>1, <2>3, <2>4 DEF Share
<1>10. ASSUME NEW o \in k + 1 .. e - 1 PROVE Share(q, r, o)'
  <2>1. Given(o)' = (IF Unended(s, o) THEN L - R ELSE 0) * Slot(o)'.size
    BY <1>1 DEF Rounded
  <2>2. (IF Unended(s, o) THEN L - R ELSE 0) = 0
    <3>1. CASE f.release
      <4>1. k \in s .. o - 1
        BY <1>2
      <4>2. ~Unended(s, o)
        BY <1>2, <1>4, <3>1, <4>1 DEF Unended
      <4> QED BY <4>2
    <3>2. CASE ~InOne(b)
      BY <1>3, <3>2
    <3> QED BY <3>1, <3>2
  <2>3. Given(o)' = 0 * Slot(o)'.size
    BY <2>1, <2>2
  <2>4. o \in 0 .. e - 1 /\ q \in Nat /\ r \in Nat /\ q <= o /\ r <= o /\ 0 \in Int
    BY <1>2
  <2> QED BY <1>6, <1>7, <2>3, <2>4, ShareAhead
<1>11. \A o \in 0 .. e - 1 : o \in 0 .. s - 1 \/ o \in s .. k \/ o \in k + 1 .. e - 1
  BY <1>2
<1> QED BY <1>1, <1>5, <1>8, <1>9, <1>10, <1>11


\* The last play waits for all that is sent.
LEMMA EndDue ==
    ASSUME Calm, Kept, NEW k, NEW mark, Scheduled(mark, k), Due(mark), w.open, ~Resetting,
           NEW b, NEW a, Sends(b, a, k, TRUE), Len(plays') = Len(plays) + 1,
           NEW q, NEW m, m = Later(mark, q)
    PROVE  Due(m)' /\ m[Len(plays')] = q
<1>1. PICK l, n : l = Len(plays) /\ n = Len(sent)
  OBVIOUS
<1>2. /\ l \in Nat /\ n \in Nat /\ tr.completions \in Seq(Completion) /\ Len(tr.completions) = l
      /\ dev.position \in Nat /\ dev.position + n = tr.submitted
  BY <1>1, Numbers, Basics DEF Kept, Answers, Flow
<1>3. /\ a \in Nat /\ dev'.position = dev.position /\ Len(sent') = n + a
      /\ tr'.completions = Append(tr.completions, [token |-> Token, target |-> tr.submitted + a])
  BY <1>1 DEF Sends
<1>4. /\ \A j \in 0 .. l : m[j] = mark[j]
      /\ m[l + 1] = q
  BY <1>1, <1>2 DEF Later
<1>5. ASSUME NEW i \in 1 .. l + 1, NEW o \in m[i - 1] .. m[i] - 1, NEW f \in 1 .. Len(sent'),
             sent'[f] = Slot(o)'.header
      PROVE  dev'.position + f <= tr'.completions[i].target
  <2>1. CASE i <= l
    <3>1. i \in 1 .. l /\ m[i - 1] = mark[i - 1] /\ m[i] = mark[i]
      BY <1>2, <1>4, <2>1
    <3>2. \A j \in 1 .. Len(plays) : \A x \in mark[j - 1] .. mark[j] - 1 : \A g \in 1 .. Len(sent') :
               sent'[g] = Slot(x)'.header => dev'.position + g <= tr'.completions[j].target
      BY SendDue
    <3> QED BY <1>1, <1>5, <3>1, <3>2
  <2>2. CASE ~(i <= l)
    <3>1. i = l + 1
      BY <1>2, <2>2
    <3>2. PICK t, u, d : t = tr.submitted + a /\ u = tr.completions /\ d = dev.position
      OBVIOUS
    <3>3. tr'.completions = Append(u, [token |-> Token, target |-> t]) /\ Len(u) = l /\ u \in Seq(Completion)
      BY <1>2, <1>3, <3>2
    <3>4. tr'.completions[i] = [token |-> Token, target |-> t]
      BY <1>2, <3>1, <3>3
    <3>5. tr'.completions[i].target = t
      BY <3>4
    <3>6. d \in Nat /\ t = d + n + a /\ Len(sent') = n + a /\ dev'.position = d
      BY <1>2, <1>3, <3>2
    <3>7. d + f <= t
      BY <1>2, <1>3, <3>6
    <3> QED BY <3>5, <3>6, <3>7
  <2> QED BY <2>1, <2>2
<1>6. Len(plays') = l + 1
  BY <1>1
<1> QED BY <1>4, <1>5, <1>6 DEF Due

\* A chunk that ends its buffer.
LEMMA EndHeard ==
    ASSUME Calm, Kept, NEW k, NEW mark, Scheduled(mark, k), Told(mark, k), w.open, ~Resetting,
           k < w.count,
           NEW b, NEW a, NEW f, Chunked(b, a, f, TRUE), Sends(b, a, k, TRUE),
           NEW s, s = mark[Len(plays)],
           NEW q, q = MarkAfter(b, f, s, k), NEW r, r = NextAfter(b, f, s, k),
           NEW m, m = Later(mark, q)
    PROVE  Told(m, r)' /\ Unbroken'
<1>1. Ended(b, f, s, k, q, r)
  BY Ends
<1>2. b = Slot(k) /\ k \in 0 .. Extent - 1 /\ budget' = budget
  BY DEF Sends
<1>3. PICK R, L : Within(b, s, k, R, L)
  BY <1>2, WithinLoop
<1>4. Rounded(s, k, R, L)
  BY <1>3, EndRounds
<1>5. Turned(b, f, R)
  BY <1>1, <1>2, <1>3, EndTurns
<1>6. Round(q)' /\ \A o \in 0 .. Extent - 1 : Share(q, r, o)'
  <2>1. CASE InOne(b) /\ ~f.release
    BY <1>1, <1>3, <1>4, <1>5, <2>1, LoopGoesOn
  <2>2. CASE ~InOne(b) \/ f.release
    BY <1>1, <1>3, <1>4, <1>5, <2>2, LoopIsLeft
  <2> QED BY <2>1, <2>2
<1>7. Due(m)' /\ m[Len(plays')] = q
  <2>1. Len(plays') = Len(plays) + 1
    <3>1. PICK p : plays' = Append(plays, p)
      BY DEF Chunked
    <3>2. plays \in Seq(Plays)
      BY Basics, Records
    <3> QED BY <3>1, <3>2
  <2>2. Due(mark)
    BY DEF Told
  <2> QED BY <2>1, <2>2, EndDue
<1>8. Extent' = Extent /\ \A o \in 0 .. Extent - 1 : Slot(o)'.submitted = 0
  BY <1>4 DEF Rounded, Sends, SlotsStay
<1>9. Told(m, r)'
  BY <1>6, <1>7, <1>8 DEF Told
<1> QED BY <1>5, <1>9 DEF Turned

(* What holds of a stream that nothing has happened to: its histories, and *)
(* where its plays and their shares are.                                   *)
Heard == /\ Kept /\ PlayedWasHeard
         /\ \E k, mark : Scheduled(mark, k) /\ (~Resetting => Told(mark, k))

\* A submission.
LEMMA SubmitHeard ==
    ASSUME Calm, WaveInv', Unharmed', Kept, PlayedWasHeard, SubmitChunk,
           NEW k, NEW mark, Scheduled(mark, k), ~Resetting => Told(mark, k)
    PROVE  Heard'
<1>1. PICK b, a, f, done : Chunked(b, a, f, done)
  BY Basics, ChunkedFacts
<1>2. /\ w.open /\ pump = "submit" /\ done \in BOOLEAN /\ hurt' = hurt \cup Laps
  BY <1>1 DEF Chunked
<1>3. ~Resetting /\ Told(mark, k)
  BY <1>2, PumpAlone
<1>4. ~Lapped
  BY <1>2 DEF Unharmed, Laps
<1>5. MaySubmit
  BY DEF SubmitChunk
<1>6. k \in 0 .. w.count - 1 /\ k < w.count /\ w.sched = At(k)
  <2>1. k \in 0 .. w.count - 1
    BY <1>4, <1>5, Behind
  <2> QED BY <2>1, Basics DEF Scheduled
<1>7. Sends(b, a, k, done)
  BY <1>1, <1>6, ChunkSends
<1>8. Histories' /\ Sizes' /\ Flow' /\ Queued' /\ PlayedWasHeard'
  BY <1>7 DEF Sends
<1>9. CASE done = FALSE
  <2>1. Chunked(b, a, f, FALSE) /\ Sends(b, a, k, FALSE)
    BY <1>1, <1>7, <1>9, Zenon
  <2>2. CursorKept
    BY <2>1, ChunkedSlots
  <2>3. Told(mark, k)' /\ Unbroken'
    BY <1>2, <1>3, <2>1, <2>2, MiddleHeard
  <2>4. Scheduled(mark, k)'
    <3>1. w'.read = w.read /\ w'.count = w.count /\ w'.loopOpen = w.loopOpen /\ FlagsKept(w.sched)
      BY <2>1, ChunkedSlots
    <3>2. app' = app
      BY <2>1 DEF Chunked
    <3>3. \A i \in Index : queue'[i].begins = queue[i].begins /\ queue'[i].ends = queue[i].ends
      BY <3>1 DEF FlagsKept
    <3>4. Extra' = Extra /\ w.count <= w'.count /\ w'.count + Extra' = w.count + Extra
      BY <3>1, <3>2, Basics DEF Extra, Linked
    <3> QED BY <2>2, <3>1, <3>2, <3>3, <3>4, Quiet DEF CursorKept
  <2> QED BY <1>8, <2>3, <2>4 DEF Heard, Kept
<1>10. CASE done = TRUE
  <2>1. Chunked(b, a, f, TRUE) /\ Sends(b, a, k, TRUE)
    BY <1>1, <1>7, <1>10, Zenon
  <2>2. PICK s, q, r, m : /\ s = mark[Len(plays)] /\ q = MarkAfter(b, f, s, k)
                          /\ r = NextAfter(b, f, s, k) /\ m = Later(mark, q)
    OBVIOUS
  <2>3. Scheduled(m, r)'
    BY <1>6, <2>1, <2>2, ChunkScheduled
  <2>4. Told(m, r)' /\ Unbroken'
    BY <1>2, <1>3, <1>6, <2>1, <2>2, EndHeard
  <2> QED BY <1>8, <2>3, <2>4 DEF Heard, Kept
<1> QED BY <1>2, <1>9, <1>10


\* What n buffers move on by, once those before them are gone.
Moved(n) ==
    /\ n \in 0 .. Extent /\ Extent' = Extent - n /\ ~InLoop(n) /\ ~Resetting /\ ~Resetting' /\ w.open /\ w'.open
    /\ \A x \in 0 .. (Extent - n) - 1 : /\ Slot(x)' = Slot(n + x)
                                        /\ Asked(x)' = Asked(n + x) /\ Given(x)' = Given(n + x)
    /\ \A x \in 0 .. Extent - n : InLoop(x)' <=> InLoop(n + x)

\* A completion moves the queue on.
LEMMA PollMoves ==
    ASSUME Calm, Kept, NEW k, NEW mark, Scheduled(mark, k), NEW n, n = mark[1], Popped(n)
    PROVE  Moved(n)
<1>1. PICK e, l : e = Extent /\ l = Len(plays)
  OBVIOUS
<1>2. /\ pump # "off" /\ app' = app /\ n \in 0 .. w.count /\ w'.read = At(n) /\ w'.count = w.count - n
      /\ \A i \in Index : queue'[i] = IF Off(i) < n THEN NoBuffer ELSE queue[i]
      /\ plays # <<>> /\ w'.open = w.open /\ heard' = heard /\ sent' = sent
  BY DEF Popped
<1>3. app.pc = "idle" /\ ~Linked /\ w.open /\ Extra = 0 /\ Extra' = 0 /\ Extent = w.count
  <2>1. app.pc = "idle" /\ ~Linked /\ w.open
    BY <1>2, PumpAlone
  <2>2. Extra = 0 /\ Extra' = 0
    BY <1>2, <2>1 DEF Extra, Linked
  <2> QED BY <2>1, <2>2, Basics
<1>4. e \in Nat /\ n \in 0 .. e /\ Extent' = e - n /\ e <= QueueCapacity /\ QueueCapacity \in Nat
  <2>1. PICK c : c = w.count
    OBVIOUS
  <2>2. c \in Nat /\ c = e /\ c <= QueueCapacity /\ QueueCapacity \in Nat
    BY <1>1, <1>3, <2>1, Basics
  <2>3. Extent' = (c - n) + 0
    BY <1>2, <1>3, <2>1 DEF Extent
  <2> QED BY <1>2, <2>1, <2>2, <2>3
<1>5. ~Resetting /\ ~Resetting'
  BY <1>2, <1>3 DEF Resetting
<1>6. \A x \in 0 .. (e - n) - 1 : x \in 0 .. QueueCapacity - n - 1
  BY <1>4
<1>7. \A x \in 0 .. (e - n) - 1 : Slot(x)' = Slot(n + x)
  BY <1>2, <1>6, PoppedSlots
<1>8. \A x \in 0 .. (e - n) - 1 : Asked(x)' = Asked(n + x)
  BY <1>2, <1>7 DEF Asked
<1>9. \A x \in 0 .. (e - n) - 1 : Given(x)' = Given(n + x)
  BY <1>2, <1>7, <1>8 DEF Given, Count
<1>10. ~InLoop(n)
  <2>1. l \in Nat /\ l # 0
    BY <1>1, <1>2, Basics, Before
  <2>2. 1 \in 0 .. l
    BY <2>1
  <2> QED BY <1>1, <2>2 DEF Scheduled
<1>11. \A x \in 0 .. e - n : InLoop(x)' <=> InLoop(n + x)
  <2>1. e - n \in Nat /\ n \in Nat
    BY <1>4
  <2> QED BY <1>7, <1>10, <2>1, LoopsMove
<1> QED BY <1>1, <1>2, <1>3, <1>4, <1>5, <1>7, <1>8, <1>9, <1>10, <1>11 DEF Moved

\* The header h of a buffer before the n-th has been pulled, as its share says.
WasPulled(h, n) ==
    /\ \E o \in 0 .. n - 1 : /\ o \in 0 .. Extent - 1 /\ h = Slot(o).header
                             /\ Gone(o) /\ Count(sent, h) = 0
    /\ \A f \in 1 .. Len(sent) : sent[f] # h

\* What goes back has been pulled.
LEMMA ReturnedHeard ==
    ASSUME Calm, Kept, NEW k, NEW mark, Scheduled(mark, k), Told(mark, k), NEW n, n = mark[1],
           Popped(n), NEW h \in HeadersAt(Oldest(n))
    PROVE  WasPulled(h, n)
<1>1. PICK e, l, s : e = Extent /\ l = Len(plays) /\ s = mark[Len(plays)]
  OBVIOUS
<1>2. /\ n \in 0 .. w.count /\ plays # <<>> /\ tr.completions # <<>>
      /\ Head(tr.completions).target <= dev.position
  BY DEF Popped
<1>3. l \in Nat /\ 1 \in 1 .. l /\ 1 \in 0 .. l /\ e \in Nat /\ w.count <= e /\ w.count \in Nat
  BY <1>1, <1>2, Basics, Before
<1>4. n <= s /\ s \in Nat /\ mark[0] = 0
  BY <1>1, <1>3, Cursor DEF Scheduled
<1>5. PICK i \in Index : Off(i) < n /\ h = queue[i].header
  BY <1>2, OldestHeaders, Basics
<1>6. PICK o : o = Off(i)
  OBVIOUS
<1>7. o \in Index /\ o \in Nat /\ h = Slot(o).header /\ o < n
  BY <1>5, <1>6, Slots, Basics DEF Slot
<1>8. o \in 0 .. n - 1 /\ o \in 0 .. e - 1 /\ o < s
  <2>1. PICK c : c = w.count
    OBVIOUS
  <2>2. n \in 0 .. c /\ c \in Nat /\ c <= e /\ e \in Nat /\ n <= s /\ s \in Nat /\ o \in Nat /\ o < n
    BY <1>2, <1>3, <1>4, <1>7, <2>1
  <2> QED BY <2>2
<1>9. \A f \in 1 .. Len(sent) : sent[f] # h
  <2> SUFFICES ASSUME NEW f \in 1 .. Len(sent), sent[f] = h PROVE FALSE
    OBVIOUS
  <2>1. o \in mark[1 - 1] .. mark[1] - 1
    BY <1>4, <1>8
  <2>2. dev.position + f <= tr.completions[1].target
    BY <1>1, <1>3, <1>7, <2>1 DEF Told, Due
  <2>3. tr.completions[1] = Head(tr.completions) /\ tr.completions \in Seq(Completion)
    BY <1>2, Numbers DEF Kept
  <2>4. tr.completions[1].target <= dev.position
    BY <1>2, <2>3
  <2>5. tr.completions[1].target \in Nat
    <3>1. tr.completions[1] \in Completion
      BY <1>2, <2>3
    <3> QED BY <3>1 DEF Completion
  <2>6. dev.position \in Nat /\ f \in Nat /\ f >= 1
    BY Numbers DEF Kept
  <2> QED BY <2>2, <2>4, <2>5, <2>6
<1>10. Count(sent, h) = 0
  BY <1>9, Numbers, CountNone DEF Kept
<1>11. Gone(o)
  <2>1. Share(s, k, o)
    BY <1>1, <1>8 DEF Told
  <2> QED BY <1>8, <2>1 DEF Share, Gone
<1> QED BY <1>1, <1>7, <1>8, <1>9, <1>10, <1>11 DEF WasPulled


\* What was asked for, and what the stream sends, after a completion.
LEMMA PollKeeps ==
    ASSUME Calm, Kept, PlayedWasHeard, NEW k, NEW mark, Scheduled(mark, k), Told(mark, k),
           NEW n, n = mark[1], Popped(n), Moved(n)
    PROVE  Kept' /\ PlayedWasHeard'
<1>1. PICK H, e : H = HeadersAt(Oldest(n)) /\ e = Extent
  OBVIOUS
<1>2. /\ inqueue' = inqueue \ H
      /\ outcome' = [h \in Headers |-> IF h \in H THEN "played" ELSE outcome[h]]
      /\ dev' = dev /\ sent' = sent /\ heard' = heard /\ budget' = budget
      /\ tr'.submitted = tr.submitted
      /\ w'.breakNow = w.breakNow /\ w'.breakNext = w.breakNext
  BY <1>1 DEF Popped
<1>3. \A h \in H : /\ \E o \in 0 .. e - 1 : h = Slot(o).header /\ Gone(o) /\ Count(sent, h) = 0
                   /\ \A f \in 1 .. Len(sent) : sent[f] # h
  <2> SUFFICES ASSUME NEW h \in H
               PROVE  /\ \E o \in 0 .. e - 1 : h = Slot(o).header /\ Gone(o) /\ Count(sent, h) = 0
                      /\ \A f \in 1 .. Len(sent) : sent[f] # h
    OBVIOUS
  <2>1. h \in HeadersAt(Oldest(n))
    BY <1>1
  <2>2. WasPulled(h, n)
    BY <2>1, ReturnedHeard
  <2> QED BY <1>1, <2>2 DEF WasPulled
<1>4. Histories'
  <2>1. outcome \in [Headers -> Outcomes]
    BY DEF Kept, Histories
  <2>2. outcome' \in [Headers -> Outcomes]
    BY <1>2, <2>1 DEF Outcomes
  <2> QED BY <1>2, <2>2 DEF Kept, Histories, Outcomes
<1>5. Sizes'
  <2>1. e \in Nat /\ n \in Nat /\ n <= e
    BY <1>1, Basics DEF Moved
  <2>2. PICK d : d = e - n
    OBVIOUS
  <2>3. d \in Nat /\ Extent = n + d /\ Extent' = d
    BY <1>1, <2>1, <2>2 DEF Moved
  <2>4. \A x \in 0 .. d : InLoop(x)' <=> InLoop(n + x)
    BY <1>1, <2>2 DEF Moved
  <2>5. \A x \in 0 .. d - 1 : Slot(x)' = Slot(n + x) /\ Asked(x)' = Asked(n + x)
    BY <1>1, <2>2 DEF Moved
  <2>6. \A x \in 0 .. d - 1 :
               /\ Asked(x)'.size = Asked(n + x).size /\ Asked(x)'.times = Asked(n + x).times
               /\ Slot(x)'.size = Slot(n + x).size /\ Slot(x)'.loops = Slot(n + x).loops
               /\ Slot(x)'.begins = Slot(n + x).begins /\ Slot(x)'.ends = Slot(n + x).ends
    BY <2>5
  <2> QED BY <2>1, <2>3, <2>4, <2>6, SizesMove DEF Kept
<1>6. Flow'
  <2>1. w.open /\ w'.open /\ ~Resetting'
    BY DEF Moved
  <2>2. dev.position + Len(sent) = tr.submitted /\ \A i \in 1 .. Len(sent) : sent[i] \in inqueue
    BY <2>1 DEF Kept, Flow
  <2>3. \A i \in 1 .. Len(sent') : sent'[i] \in inqueue'
    BY <1>2, <1>3, <2>2
  <2> QED BY <1>2, <2>1, <2>2, <2>3 DEF Flow
<1>7. Queued'
  <2>1. inqueue \subseteq Headers
    BY Basics, Before
  <2> QED BY <1>2, <2>1 DEF Kept, Queued
<1>8. Unbroken'
  BY <1>2 DEF Kept, Unbroken
<1>9. PlayedWasHeard'
  <2>1. ASSUME NEW h \in Headers, outcome'[h] = "played"
        PROVE  \E m \in 1 .. heard[h].times : /\ heard[h].frames = m * heard[h].size
                                              /\ budget.breaks = 0 => m = heard[h].times
    <3>1. CASE h \in H
      <4>1. PICK o \in 0 .. e - 1 : h = Slot(o).header /\ Gone(o) /\ Count(sent, h) = 0
        BY <1>3, <3>1
      <4>2. PICK m \in 1 .. Asked(o).times : /\ Given(o) = m * Slot(o).size
                                             /\ budget.breaks = 0 => m = Asked(o).times
        BY <4>1 DEF Gone
      <4>3. Asked(o) = heard[h]
        BY <4>1 DEF Asked
      <4>4. Asked(o).size = Slot(o).size /\ Asked(o).frames \in Nat
        BY <1>1, <4>1, Numbers DEF Kept, Sizes
      <4>5. Given(o) = Asked(o).frames
        <5>1. Given(o) = Asked(o).frames + 0
          BY <4>1 DEF Given
        <5> QED BY <4>4, <5>1
      <4> QED BY <4>2, <4>3, <4>4, <4>5
    <3>2. CASE h \notin H
      <4>1. outcome[h] = "played"
        BY <1>2, <2>1, <3>2
      <4> QED BY <4>1, Basics DEF PlayedWasHeard
    <3> QED BY <3>1, <3>2
  <2> QED BY <1>2, <2>1 DEF PlayedWasHeard
<1> QED BY <1>4, <1>5, <1>6, <1>7, <1>8, <1>9 DEF Kept

\* The shares after a completion.
LEMMA PollShares ==
    ASSUME NEW n \in Nat, NEW s \in Nat, NEW k \in Nat, n <= s, s <= k, Extent \in Nat,
           w.active => s < Extent,
           Round(s), \A o \in 0 .. Extent - 1 : Share(s, k, o),
           \A o \in 0 .. Extent - 1 : o # k => Slot(o).submitted = 0,
           Popped(n), Moved(n)
    PROVE  /\ s - n \in Nat /\ k - n \in Nat
           /\ Round(s - n)' /\ \A o \in 0 .. (Extent - n) - 1 : Share(s - n, k - n, o)'
           /\ \A o \in 0 .. (Extent - n) - 1 : o # k - n => Slot(o)'.submitted = 0
<1>1. PICK e, t, j, d : e = Extent /\ t = s - n /\ j = k - n /\ d = e - n
  OBVIOUS
<1>2. n \in 0 .. e /\ e \in Nat /\ (w.active => s < e) /\ Extent' = d
  BY <1>1 DEF Moved
<1>3. /\ t \in Nat /\ j \in Nat /\ d \in Nat
      /\ n + t = s /\ n + j = k /\ n + d = e /\ Extent = n + d /\ Extent' = d
  BY <1>1, <1>2
<1>4. \A x \in 0 .. d - 1 : Slot(x)' = Slot(n + x) /\ Asked(x)' = Asked(n + x)
                            /\ Given(x)' = Given(n + x)
  BY <1>1 DEF Moved
<1>5. /\ w'.active = w.active /\ w'.remaining = w.remaining /\ budget' = budget
  BY DEF Popped
<1>6. Round(t)'
  <2>1. Round(n + t)
    BY <1>3
  <2>2. w.active => Slot(t)'.loops = Slot(n + t).loops
    <3>1. w.active => t \in 0 .. d - 1
      BY <1>2, <1>3
    <3> QED BY <1>4, <3>1
  <2>3. \A x \in t .. d - 1 : x \in 0 .. d - 1
    BY <1>3
  <2>4. \A x \in t .. d - 1 : Slot(x)'.ends = Slot(n + x).ends
    BY <1>4, <2>3
  <2> QED BY <1>3, <1>5, <2>1, <2>2, <2>4, RoundMoves
<1>7. ASSUME NEW o \in 0 .. d - 1 PROVE Share(t, j, o)' /\ (o # j => Slot(o)'.submitted = 0)
  <2>1. o \in Nat /\ n + o \in 0 .. e - 1
    BY <1>3
  <2>2. Share(n + t, n + j, n + o) /\ (n + o # k => Slot(n + o).submitted = 0)
    BY <1>1, <1>3, <2>1
  <2>3. /\ Slot(o)'.size = Slot(n + o).size /\ Slot(o)'.submitted = Slot(n + o).submitted
        /\ Asked(o)'.times = Asked(n + o).times /\ Given(o)' = Given(n + o)
    BY <1>4
  <2>4. t <= o => Slot(t)'.loops = Slot(n + t).loops
    <3>1. t <= o => t \in 0 .. d - 1
      BY <1>3
    <3> QED BY <1>4, <3>1
  <2>5. \A x \in t .. o - 1 : x \in 0 .. d - 1
    BY <1>3
  <2>6. \A x \in t .. o - 1 : Slot(x)'.ends = Slot(n + x).ends
    BY <1>4, <2>5
  <2>7. Share(t, j, o)'
    BY <1>3, <1>5, <2>1, <2>2, <2>3, <2>4, <2>6, ShareMoves
  <2>8. o # j => n + o # k
    BY <1>3
  <2> QED BY <2>2, <2>3, <2>7, <2>8
<1> QED BY <1>1, <1>3, <1>6, <1>7


\* What the plays that are left wait for.
LEMMA PollDue ==
    ASSUME Calm, Kept, NEW k, NEW mark, Scheduled(mark, k), Due(mark), NEW n, n = mark[1],
           Popped(n), Moved(n), NEW m, m = Sooner(mark)
    PROVE  Due(m)' /\ m[Len(plays')] = mark[Len(plays)] - n
<1>1. PICK c, l, u : c = w.count /\ l = Len(plays) /\ u = tr.completions
  OBVIOUS
<1>2. /\ n \in 0 .. c /\ c \in Nat /\ c <= Extent
  BY <1>1, Basics DEF Popped
<1>3. /\ l \in Nat \ {0} /\ Len(plays') = l - 1
      /\ u \in Seq(Completion) /\ Len(u) = l /\ u # <<>> /\ tr'.completions = Tail(u)
      /\ sent' = sent /\ dev' = dev
  <2>1. plays \in Seq(Plays) /\ plays # <<>> /\ plays' = Tail(plays)
    BY Basics, Before DEF Popped
  <2>2. Len(tr.completions) = l
    BY <1>1, Basics DEF Answers, Moved
  <2> QED BY <1>1, <2>1, <2>2, Numbers DEF Kept, Popped
<1>4. \A i \in 1 .. l - 1 : tr'.completions[i] = u[i + 1]
  BY <1>3
<1>5. /\ mark \in [0 .. l -> 0 .. c]
      /\ \A i, j \in 0 .. l : i <= j => mark[i] <= mark[j]
  BY <1>1 DEF Scheduled
<1>6. m = [i \in 0 .. l - 1 |-> mark[i + 1] - n]
  BY <1>1 DEF Sooner
<1>7. m[l - 1] = mark[l] - n
  <2>1. l - 1 \in 0 .. l - 1 /\ (l - 1) + 1 = l
    BY <1>3
  <2> QED BY <1>6, <2>1
<1>8. ASSUME NEW i \in 1 .. l - 1, NEW o \in m[i - 1] .. m[i] - 1, NEW f \in 1 .. Len(sent),
             sent[f] = Slot(o)'.header
      PROVE  dev.position + f <= u[i + 1].target
  <2>1. /\ i - 1 \in 0 .. l - 1 /\ i \in 0 .. l - 1 /\ (i - 1) + 1 = i /\ i + 1 \in 1 .. l
        /\ (i + 1) - 1 = i /\ 1 \in 0 .. l /\ i \in 0 .. l /\ i + 1 \in 0 .. l /\ 1 <= i
    BY <1>3
  <2>2. PICK x, y : x = mark[i] /\ y = mark[i + 1]
    OBVIOUS
  <2>3. x \in 0 .. c /\ y \in 0 .. c /\ n <= x
    BY <1>5, <2>1, <2>2
  <2>4. m[i - 1] = x - n /\ m[i] = y - n
    BY <1>6, <2>1, <2>2
  <2>5. PICK z, e, p : z = n /\ e = Extent /\ p = o
    OBVIOUS
  <2>6. z \in Nat /\ z <= x /\ x \in Nat /\ y \in Nat /\ y <= c /\ c <= e /\ c \in Nat /\ e \in Nat
        /\ p \in x - z .. (y - z) - 1
    <3>1. e \in Nat
      BY <2>5, Basics
    <3>2. o \in x - n .. (y - n) - 1
      BY <2>4
    <3> QED BY <1>2, <2>3, <2>5, <3>1, <3>2
  <2>7. z + p \in x .. y - 1 /\ p \in 0 .. (e - z) - 1
    BY <2>6
  <2>8. n + o \in mark[(i + 1) - 1] .. mark[i + 1] - 1 /\ o \in 0 .. (Extent - n) - 1
    BY <2>1, <2>2, <2>5, <2>7
  <2>9. Slot(o)' = Slot(n + o)
    BY <2>8 DEF Moved
  <2>10. sent[f] = Slot(n + o).header
    BY <1>8, <2>9
  <2> QED BY <1>1, <2>1, <2>8, <2>10 DEF Due
<1>9. Due(m)'
  <2>1. \A i \in 1 .. l - 1 : \A o \in m[i - 1] .. m[i] - 1 : \A f \in 1 .. Len(sent') :
           sent'[f] = Slot(o)'.header => dev'.position + f <= tr'.completions[i].target
    BY <1>3, <1>4, <1>8
  <2> QED BY <1>3, <2>1 DEF Due
<1> QED BY <1>1, <1>3, <1>7, <1>9

\* A completion.
LEMMA PollHeard ==
    ASSUME Calm, WaveInv', Kept, PlayedWasHeard, PollCompletes,
           NEW k, NEW mark, Scheduled(mark, k), ~Resetting => Told(mark, k)
    PROVE  Heard'
<1>1. PICK n, m, s, j : n = mark[1] /\ m = Sooner(mark) /\ s = mark[Len(plays)] /\ j = k - n
  OBVIOUS
<1>2. Popped(n)
  BY <1>1, PoppedFacts
<1>3. Moved(n)
  BY <1>1, <1>2, PollMoves
<1>4. Told(mark, k)
  BY <1>3 DEF Moved
<1>5. Kept' /\ PlayedWasHeard'
  BY <1>1, <1>2, <1>3, <1>4, PollKeeps
<1>6. Scheduled(m, j)'
  <2>1. Scheduled(m, k - mark[1])'
    BY <1>1, <1>2, PollScheduled
  <2> QED BY <1>1, <2>1
<1>7. Due(m)' /\ m[Len(plays')] = s - n
  <2>1. Due(mark)
    BY <1>4 DEF Told
  <2> QED BY <1>1, <1>2, <1>3, <2>1, PollDue
<1>8. /\ s \in Nat /\ k \in Nat /\ s <= k /\ (w.active => s < Extent)
      /\ n \in Nat /\ n <= s /\ Extent \in Nat /\ Extent' = Extent - n
  <2>1. n \in 0 .. w.count /\ plays # <<>> /\ Extent' = Extent - n
    BY <1>2, <1>3 DEF Popped, Moved
  <2>2. 1 \in 0 .. Len(plays)
    BY <2>1, Basics, Before
  <2> QED BY <1>1, <2>1, <2>2, Cursor, Basics
<1>9. /\ Round(s) /\ \A o \in 0 .. Extent - 1 : Share(s, k, o)
      /\ \A o \in 0 .. Extent - 1 : o # k => Slot(o).submitted = 0
  BY <1>1, <1>4 DEF Told
<1>10. /\ Round(s - n)' /\ \A o \in 0 .. (Extent - n) - 1 : Share(s - n, k - n, o)'
       /\ \A o \in 0 .. (Extent - n) - 1 : o # k - n => Slot(o)'.submitted = 0
  BY <1>2, <1>3, <1>8, <1>9, PollShares
<1>11. Told(m, j)'
  BY <1>1, <1>7, <1>8, <1>10 DEF Told
<1> QED BY <1>5, <1>6, <1>11 DEF Heard


(* While nothing has happened that the guarantees do not cover, every      *)
(* frame that a header is owed was pulled, is sent, or is to come.         *)
HearInv == Unharmed => Heard

\* The first state.
LEMMA InitHeard == ASSUME Init PROVE HearInv
<1>1. /\ w = Closed /\ inqueue = {} /\ app = Idle /\ sent = <<>> /\ tr = Unbound
      /\ outcome = [h \in Headers |-> "none"] /\ hurt = {}
      /\ budget = [opens |-> 0, writes |-> 0, pauses |-> 0, breaks |-> 0, faults |-> 0]
      /\ heard = [h \in Headers |-> [frames |-> 0, size |-> 0, times |-> 0]]
  BY DEF Init, PcmInit
<1>2. ~w.open /\ w.count = 0 /\ ~w.active /\ ~w.breakNow /\ ~w.breakNext
  BY <1>1 DEF Closed
<1>3. Extent = 0
  <2>1. ~Linked
    BY <1>1, IdleType DEF Linked
  <2> QED BY <1>2, <2>1 DEF Extent, Extra
<1>4. Histories
  BY <1>1 DEF Histories, Outcomes
<1>5. Sizes
  BY <1>3 DEF Sizes
<1>6. Flow
  <2>1. ~tr.opened
    BY <1>1, FineDevices
  <2> QED BY <1>2, <2>1 DEF Flow
<1>7. Queued /\ Unbroken /\ PlayedWasHeard
  BY <1>1, <1>2 DEF Queued, Unbroken, PlayedWasHeard
<1>8. PICK k, mark : Scheduled(mark, k)
  BY <1>1, InitStream DEF StreamInv, Unharmed, Proper, Placed
<1>9. Told(mark, k)
  <2>1. Round(mark[Len(plays)])
    BY <1>2 DEF Round
  <2>2. \A o \in 0 .. Extent - 1 : FALSE
    BY <1>3
  <2>3. \A f \in 1 .. Len(sent) : FALSE
    BY <1>1
  <2> QED BY <2>1, <2>2, <2>3 DEF Told, Due
<1> QED BY <1>4, <1>5, <1>6, <1>7, <1>8, <1>9 DEF HearInv, Heard, Kept

\* Only the end of a reset ends one.
LEMMA StillResetting ==
    ASSUME Resetting,
           \/ Timer \/ PollNothing \/ SubmitEnds \/ WriteAdvances \/ WriteCounts
           \/ Pause \/ Pauses \/ Restart \/ ResetCollects \/ BreakLoop
           \/ Pull \/ Interrupt \/ LoseBusMaster \/ GetBusMaster \/ Plug
           \/ (\E forget \in BOOLEAN : Unplug(forget)) \/ UNCHANGED vars
           \/ \E h, n, begins, ends, loops : Write(h, n, begins, ends, loops)
    PROVE  Resetting'
<1>1. CASE app' = app
  BY <1>1 DEF Resetting
<1>2. CASE WriteAdvances \/ WriteCounts \/ Pause \/ Pauses
  BY <1>2 DEF WriteAdvances, WriteCounts, Pause, Pauses, Resuming, Calling, Resetting
<1>3. CASE ResetCollects
  <2>1. app \in Applications => app'.pc = "flushing"
    BY <1>3 DEF ResetCollects, Applications
  <2> QED BY <1>1, <1>3, <2>1 DEF Resetting, ResetCollects
<1>4. CASE \E h, n, begins, ends, loops : Write(h, n, begins, ends, loops)
  <2>1. app.pc = "idle"
    BY <1>4, Zenon DEF Write, Calling
  <2> QED BY <2>1 DEF Resetting
<1>5. CASE \/ Timer \/ PollNothing \/ SubmitEnds \/ Restart \/ BreakLoop
           \/ Pull \/ Interrupt \/ LoseBusMaster \/ GetBusMaster \/ Plug
           \/ (\E forget \in BOOLEAN : Unplug(forget)) \/ UNCHANGED vars
  <2>1. app' = app
    BY <1>5 DEF Timer, PollNothing, SubmitEnds, Restart, BreakLoop, Pull, Interrupt, LoseBusMaster,
                GetBusMaster, Plug, Unplug, waveVars, vars
  <2> QED BY <1>1, <2>1
<1> QED BY <1>2, <1>3, <1>4, <1>5

\* What is carried on is heard.
LEMMA CarriedHeard ==
    ASSUME NEW k, NEW mark, Scheduled(mark, k)', Carried(mark, k), ~Resetting => Told(mark, k),
           Resetting => Resetting'
    PROVE  Heard'
BY DEF Carried, Heard

\* A step that harms nothing keeps every frame.
LEMMA HearStep ==
    ASSUME PcmInv, WaveInv, StreamInv, HearInv, [Next]_vars
    PROVE  HearInv'
<1> SUFFICES ASSUME Unharmed' PROVE Heard'
  BY DEF HearInv
<1>1. PcmInv' /\ WaveInv'
  BY NextInv
<1>2. Unharmed
  BY HurtStays DEF Unharmed
<1>3. Calm /\ Placed /\ Kept /\ PlayedWasHeard
  BY <1>2 DEF Calm, StreamInv, Proper, HearInv, Heard
<1>4. PICK k, mark : Scheduled(mark, k) /\ (~Resetting => Told(mark, k))
  BY <1>2 DEF HearInv, Heard
<1>5. ~PollAborts /\ ~SubmitAborts
  BY <1>3, <1>4, NoPollAbort, NoSubmitAbort
<1>6. CASE UNCHANGED vars
  <2>1. UNCHANGED <<w, queue, plays, app>>
    BY <1>6 DEF vars
  <2>2. Extra' = Extra /\ w.count <= w'.count /\ w'.count + Extra' = w.count + Extra
    BY <1>3, <2>1, Basics DEF Extra, Linked
  <2>3. Scheduled(mark, k)'
    BY <1>1, <1>3, <1>4, <2>1, <2>2, Quiet
  <2>4. Carried(mark, k)
    BY <1>1, <1>3, <1>4, <1>6, <2>3, QuietHeard
  <2>5. Resetting => Resetting'
    BY <1>6, StillResetting
  <2> QED BY <1>4, <2>3, <2>4, <2>5, CarriedHeard
<1>7. CASE SubmitChunk
  BY <1>1, <1>3, <1>4, <1>7, SubmitHeard
<1>8. CASE PollCompletes
  BY <1>1, <1>3, <1>4, <1>8, PollHeard
<1>9. CASE Open \/ OpenFails \/ Close \/ ResetFlushes
  <2>1. Placed'
    BY <1>1, <1>3, <1>9, EmptyPlaced
  <2>2. PICK j, m : Scheduled(m, j)'
    BY <2>1 DEF Placed
  <2>3. Kept' /\ PlayedWasHeard' /\ Told(m, j)'
    BY <1>1, <1>3, <1>9, <2>2, EmptyHeard
  <2> QED BY <2>2, <2>3 DEF Heard
<1>10. CASE Reset
  <2>1. Kept' /\ PlayedWasHeard' /\ Resetting'
    BY <1>3, <1>10, ResetHeard
  <2>2. Scheduled(mark, k)'
    BY <1>1, <1>3, <1>4, <1>10, QuietSteps
  <2> QED BY <2>1, <2>2 DEF Heard
<1>11. ASSUME NEW h \in Headers, NEW n \in 1 .. MaxFrames, NEW begins \in BOOLEAN,
              NEW ends \in BOOLEAN, NEW loops \in 1 .. MaxLoops,
              begins \/ loops = 1, Write(h, n, begins, ends, loops)
       PROVE  Heard'
  <2>1. Scheduled(mark, k)'
    BY <1>1, <1>3, <1>4, <1>11, WritePlaced
  <2>2. Carried(mark, k)
    BY <1>3, <1>4, <1>11, WriteHeard
  <2>3. \E g, x, y, z, u : Write(g, x, y, z, u)
    BY <1>11
  <2>4. Resetting => Resetting'
    BY <2>3, StillResetting
  <2> QED BY <1>4, <2>1, <2>2, <2>4, CarriedHeard
<1>12. CASE Pull
  <2>1. Scheduled(mark, k)'
    BY <1>1, <1>3, <1>4, <1>12, QuietSteps
  <2>2. Carried(mark, k)
    BY <1>3, <1>4, <1>12, PullHeard
  <2>3. Resetting => Resetting'
    BY <1>12, StillResetting
  <2> QED BY <1>4, <2>1, <2>2, <2>3, CarriedHeard
<1>13. CASE \/ Timer \/ PollNothing \/ SubmitEnds \/ WriteAdvances \/ WriteCounts
            \/ Pause \/ Pauses \/ Restart \/ ResetCollects \/ BreakLoop
            \/ Interrupt \/ LoseBusMaster \/ GetBusMaster \/ Plug
            \/ \E forget \in BOOLEAN : Unplug(forget)
  <2>1. Scheduled(mark, k)'
    BY <1>1, <1>3, <1>4, <1>13, QuietSteps
  <2>2. Carried(mark, k)
    BY <1>1, <1>3, <1>4, <1>13, <2>1, QuietHeard
  <2>3. Resetting => Resetting'
    BY <1>13, StillResetting
  <2> QED BY <1>4, <2>1, <2>2, <2>3, CarriedHeard
<1> QED BY <1>5, <1>6, <1>7, <1>8, <1>9, <1>10, <1>11, <1>12, <1>13, Zenon
        DEF Next, Pumping, Calls, Continues

\* What holds of the frames in every state.
THEOREM FramesAreKept == Spec => [](PcmInv /\ WaveInv /\ StreamInv /\ HearInv)
<1>1. Init => PcmInv /\ WaveInv /\ StreamInv /\ HearInv
  BY InitInv, InitStream, InitHeard
<1>2. PcmInv /\ WaveInv /\ StreamInv /\ HearInv /\ [Next]_vars
        => (PcmInv /\ WaveInv /\ StreamInv /\ HearInv)'
  BY NextInv, StreamStep, HearStep
<1> QED BY <1>1, <1>2, PTL DEF Spec

(* A header that comes back played was heard to its last frame, as many    *)
(* times as its loop asks for; a broken loop ends at the end of a round    *)
(* (gswsound_drv.c:176-217, 283-300).                                      *)
THEOREM PlayedIsHeard == Spec => []PlayedWasHeard
<1>1. HearInv => PlayedWasHeard
  BY DEF HearInv, Heard, Unharmed, PlayedWasHeard
<1> QED BY <1>1, FramesAreKept, PTL

=============================================================================
