---------------------- MODULE Gsw3dTransport_proofs ----------------------
(***************************************************************************)
(* Machine-checked proofs about Gsw3dTransport, for all sets of contexts   *)
(* and processes and all capacities: the type of the state, what the       *)
(* fences that the device reports say of the work, and what the table of   *)
(* the driver says of the contexts of the device.                          *)
(***************************************************************************)
EXTENDS Gsw3dTransport, SequenceTheorems, FiniteSetTheorems, TLAPS

-----------------------------------------------------------------------------
(* Maxima, and the presents in a queue.                                     *)

\* A prefix of 0..n that is not empty has a last number.
LEMMA PrefixHasLast ==
    ASSUME NEW n \in Nat, NEW K \in SUBSET (0..n), 0 \in K,
           \A k \in K : 0..k \subseteq K
    PROVE  \E c \in K : \A k \in K : k <= c
<1>1. IsFiniteSet(0..n)
  BY FS_Interval
<1>2. IsFiniteSet(K)
  BY <1>1, FS_Subset
<1>3. Cardinality(K) \in Nat
  BY <1>2, FS_CardinalityType
<1> DEFINE c == Cardinality(K) - 1
<1>4. \A k \in K : k <= c
  <2> SUFFICES ASSUME NEW k \in K PROVE k + 1 <= Cardinality(K)
    BY <1>3
  <2>1. k \in Nat /\ 0..k \in SUBSET K
    OBVIOUS
  <2>2. Cardinality(0..k) <= Cardinality(K)
    BY <1>2, <2>1, FS_Subset
  <2>3. Cardinality(0..k) = k + 1
    BY <2>1, FS_Interval
  <2> QED BY <2>2, <2>3
<1>5. c \in K
  <2> SUFFICES ASSUME c \notin K PROVE FALSE
    OBVIOUS
  <2>1. 0 <= c /\ c \in Nat
    BY <1>3, <1>4
  <2>2. \A k \in K : k \in 0..c - 1
    <3> SUFFICES ASSUME NEW k \in K PROVE k \in 0..c - 1
      OBVIOUS
    <3>1. k <= c /\ k # c /\ k \in Nat
      BY <1>4
    <3> HIDE DEF c
    <3> QED BY <2>1, <3>1
  <2>3. K \in SUBSET (0..c - 1)
    BY <2>2
  <2>4. IsFiniteSet(0..c - 1) /\ Cardinality(0..c - 1) = c
    <3> HIDE DEF c
    <3>1. 0 \in Int /\ c - 1 \in Int
      BY <2>1
    <3>2. IsFiniteSet(0..c - 1) /\ Cardinality(0..c - 1) = IF 0 > c - 1 THEN 0 ELSE (c - 1) - 0 + 1
      BY <3>1, FS_Interval
    <3> QED BY <2>1, <3>2
  <2>5. Cardinality(K) <= c
    <3> DEFINE I == 0..c - 1
    <3>1. K \in SUBSET I /\ IsFiniteSet(I) /\ Cardinality(I) = c
      BY <2>3, <2>4
    <3> HIDE DEF I, c
    <3> QED BY <3>1, FS_Subset
  <2> QED BY <1>3, <2>5
<1> QED BY <1>4, <1>5

\* The maximum of a set of bounded numbers.
LEMMA MaxIs ==
    ASSUME NEW n \in Nat, NEW S \in SUBSET (0..n), S # {}
    PROVE  Max(S) \in S /\ \A y \in S : y <= Max(S)
<1> DEFINE K == {k \in 0..n : \E s \in S : k <= s}
<1>1. PICK s0 \in S : TRUE
  OBVIOUS
<1>2. 0 \in K
  BY <1>1
<1>3. \A k \in K : 0..k \subseteq K
  OBVIOUS
<1>4. PICK c \in K : \A k \in K : k <= c
  <2> HIDE DEF K
  <2>1. K \in SUBSET (0..n)
    BY DEF K
  <2> QED BY <1>2, <1>3, <2>1, PrefixHasLast
<1>5. PICK s \in S : c <= s
  OBVIOUS
<1>6. s \in K
  OBVIOUS
<1>7. s = c
  BY <1>4, <1>5, <1>6
<1>8. \A y \in S : y \in K
  OBVIOUS
<1>9. \A y \in S : s >= y
  BY <1>4, <1>7, <1>8
<1>10. Max(S) \in S /\ \A y \in S : Max(S) >= y
  BY <1>5, <1>9 DEF Max
<1> QED BY <1>10

Presents(q) == Cardinality({i \in DOMAIN q : q[i].kind = "present"})

IsPresent(w) == IF w.kind = "present" THEN 1 ELSE 0

\* The presents of a queue are a finite set.
LEMMA PresentsType ==
    ASSUME NEW q \in Seq(Works)
    PROVE  Presents(q) \in Nat /\ IsFiniteSet({i \in DOMAIN q : q[i].kind = "present"})
<1>1. DOMAIN q = 1..Len(q) /\ Len(q) \in Nat
  OBVIOUS
<1>2. IsFiniteSet(1..Len(q))
  BY <1>1, FS_Interval
<1>3. {i \in DOMAIN q : q[i].kind = "present"} \in SUBSET (1..Len(q))
  BY <1>1
<1>4. IsFiniteSet({i \in DOMAIN q : q[i].kind = "present"})
  BY <1>2, <1>3, FS_Subset
<1> QED BY <1>4, FS_CardinalityType DEF Presents

\* An empty queue holds no present.
LEMMA PresentsEmpty == Presents(<<>>) = 0
<1>1. {i \in DOMAIN <<>> : <<>>[i].kind = "present"} = {}
  OBVIOUS
<1> QED BY <1>1, FS_EmptySet DEF Presents

\* A command that is appended adds its own present.
LEMMA PresentsAppend ==
    ASSUME NEW q \in Seq(Works), NEW w \in Works
    PROVE  Presents(Append(q, w)) = Presents(q) + IsPresent(w)
<1> DEFINE P(s) == {i \in DOMAIN s : s[i].kind = "present"}
           n == Len(q)
<1>1. n \in Nat /\ DOMAIN q = 1..n /\ DOMAIN Append(q, w) = 1..n + 1
  OBVIOUS
<1>2. /\ \A i \in 1..n : Append(q, w)[i] = q[i]
      /\ Append(q, w)[n + 1] = w
  OBVIOUS
<1>3. IsFiniteSet(P(q)) /\ n + 1 \notin P(q) /\ Cardinality(P(q)) \in Nat
  BY <1>1, PresentsType DEF Presents
<1>4. CASE w.kind = "present"
  <2>1. P(Append(q, w)) = P(q) \cup {n + 1}
    <3> HIDE DEF n
    <3> QED BY <1>1, <1>2, <1>4
  <2> HIDE DEF P, n
  <2>2. Cardinality(P(q) \cup {n + 1}) = Cardinality(P(q)) + 1
    BY <1>3, FS_AddElement
  <2> QED BY <1>4, <2>1, <2>2 DEF Presents, IsPresent, P
<1>5. CASE w.kind # "present"
  <2>1. P(Append(q, w)) = P(q)
    <3> HIDE DEF n
    <3> QED BY <1>1, <1>2, <1>5
  <2>2. Presents(Append(q, w)) = Cardinality(P(q)) /\ Presents(q) = Cardinality(P(q))
    BY <2>1 DEF Presents
  <2> HIDE DEF P
  <2> QED BY <1>3, <1>5, <2>2 DEF IsPresent
<1> QED BY <1>4, <1>5

\* The worker takes the first command, and its present, away.
LEMMA PresentsTail ==
    ASSUME NEW q \in Seq(Works), q # <<>>
    PROVE  Presents(Tail(q)) = Presents(q) - IsPresent(Head(q))
<1> DEFINE P(s) == {i \in DOMAIN s : s[i].kind = "present"}
           n == Len(q)
           R == P(q) \ {1}
           f == [i \in P(Tail(q)) |-> i + 1]
<1>1. n \in Nat \ {0} /\ DOMAIN q = 1..n /\ DOMAIN Tail(q) = 1..n - 1
  OBVIOUS
<1>2. /\ \A i \in 1..n - 1 : Tail(q)[i] = q[i + 1]
      /\ Head(q) = q[1]
  OBVIOUS
<1>3. IsFiniteSet(P(q)) /\ Cardinality(P(q)) \in Nat /\ Tail(q) \in Seq(Works)
  BY PresentsType DEF Presents
<1>4. IsFiniteSet(P(Tail(q)))
  BY <1>3, PresentsType
<1>5. f \in Bijection(P(Tail(q)), R)
  <2>1. \A i \in P(Tail(q)) : i \in Nat /\ i + 1 \in R
    <3> HIDE DEF n
    <3> QED BY <1>1, <1>2
  <2>2. \A j \in R : j - 1 \in P(Tail(q)) /\ j \in Nat
    <3> HIDE DEF n
    <3> SUFFICES ASSUME NEW j \in R PROVE j - 1 \in P(Tail(q)) /\ j \in Nat
      OBVIOUS
    <3>1. j \in 1..n /\ j # 1 /\ q[j].kind = "present"
      BY <1>1
    <3>2. j - 1 \in 1..n - 1 /\ (j - 1) + 1 = j
      BY <1>1, <3>1
    <3>3. Tail(q)[j - 1] = q[j]
      BY <1>2, <3>2
    <3> QED BY <1>1, <3>1, <3>2, <3>3
  <2> HIDE DEF P, R
  <2>3. f \in [P(Tail(q)) -> R]
    BY <2>1
  <2>4. \A i, j \in P(Tail(q)) : f[i] = f[j] => i = j
    BY <2>1
  <2>5. \A j \in R : \E i \in P(Tail(q)) : f[i] = j
    <3> SUFFICES ASSUME NEW j \in R PROVE f[j - 1] = j /\ j - 1 \in P(Tail(q))
      OBVIOUS
    <3> QED BY <2>2
  <2> HIDE DEF f
  <2> QED BY <2>3, <2>4, <2>5 DEF Bijection, Injection, Surjection, IsInjective
<1>6. Cardinality(R) = Cardinality(P(Tail(q)))
  <2>1. ExistsBijection(P(Tail(q)), R)
    BY <1>5 DEF ExistsBijection
  <2> HIDE DEF P, R
  <2> QED BY <1>4, <2>1, FS_Bijection
<1>7. Cardinality(R) = IF 1 \in P(q) THEN Cardinality(P(q)) - 1 ELSE Cardinality(P(q))
  BY <1>3, FS_RemoveElement
<1>8. 1 \in P(q) <=> Head(q).kind = "present"
  BY <1>1, <1>2
<1> HIDE DEF R, f, n
<1>9. Presents(q) = Cardinality(P(q)) /\ Presents(Tail(q)) = Cardinality(P(Tail(q)))
  BY DEF Presents
<1> HIDE DEF P
<1> QED BY <1>3, <1>6, <1>7, <1>8, <1>9 DEF IsPresent

-----------------------------------------------------------------------------
(* What the steps of the device do to its fields.                           *)

Device == [ready : BOOLEAN, error : BOOLEAN, poisoned : BOOLEAN,
           gen : 1..MaxGeneration, resetPending : BOOLEAN,
           resetCompleted : BOOLEAN, pendingFence : Fences,
           completed : Fences, region : BOOLEAN,
           contexts : SUBSET Contexts, queue : Seq(Works),
           fifo : Seq(Results), presents : Int, posted : BOOLEAN]

\* The status of a result after the device has asked the backend.
Status(r) == IF r.status = "pending" THEN r.gpu ELSE r.status

\* Asking the backend changes nothing but the state of the results.
LEMMA SettledIs ==
    ASSUME NEW f \in Seq(Results)
    PROVE  /\ Settled(f) \in Seq(Results) /\ Len(Settled(f)) = Len(f)
           /\ \A i \in 1..Len(f) : /\ Settled(f)[i] \in Results
                                   /\ Settled(f)[i].kind = f[i].kind
                                   /\ Settled(f)[i].fence = f[i].fence
                                   /\ Settled(f)[i].gpu = f[i].gpu
                                   /\ Settled(f)[i].status = Status(f[i])
<1>1. DOMAIN f = 1..Len(f) /\ Len(f) \in Nat
  OBVIOUS
<1>2. ASSUME NEW i \in 1..Len(f)
      PROVE  /\ Settled(f)[i] \in Results
             /\ Settled(f)[i].kind = f[i].kind
             /\ Settled(f)[i].fence = f[i].fence
             /\ Settled(f)[i].gpu = f[i].gpu
             /\ Settled(f)[i].status = Status(f[i])
  <2>1. f[i] \in Results
    OBVIOUS
  <2>2. Settled(f)[i] = IF f[i].status = "pending" THEN [f[i] EXCEPT !.status = f[i].gpu]
                                                   ELSE f[i]
    BY <1>1 DEF Settled
  <2> DEFINE r == f[i]
  <2>3. /\ [r EXCEPT !.status = r.gpu] \in Results
        /\ [r EXCEPT !.status = r.gpu].kind = r.kind
        /\ [r EXCEPT !.status = r.gpu].fence = r.fence
        /\ [r EXCEPT !.status = r.gpu].gpu = r.gpu
        /\ [r EXCEPT !.status = r.gpu].status = r.gpu
    <3> HIDE DEF r
    <3>1. r \in Results
      BY <2>1 DEF r
    <3> QED BY <3>1 DEF Results
  <2> QED BY <2>1, <2>2, <2>3 DEF Status
<1>3. Settled(f) = [i \in 1..Len(f) |-> Settled(f)[i]]
  BY <1>1 DEF Settled
<1>4. Settled(f) \in Seq(Results) /\ Len(Settled(f)) = Len(f)
  <2> DEFINE g(i) == Settled(f)[i]
  <2>1. \A i \in 1..Len(f) : g(i) \in Results
    BY <1>2
  <2>2. Settled(f) = [i \in 1..Len(f) |-> g(i)]
    BY <1>3
  <2> HIDE DEF g
  <2>3. [i \in 1..Len(f) |-> g(i)] \in Seq(Results)
    BY <1>1, <2>1
  <2>4. Len([i \in 1..Len(f) |-> g(i)]) = Len(f)
    BY <1>1
  <2> QED BY <2>2, <2>3, <2>4
<1> QED BY <1>2, <1>4

\* The results that are retired are complete, and the next one is not.
LEMMA RetiredIs ==
    ASSUME NEW f \in Seq(Results)
    PROVE  /\ Retired(f) \in 0..Len(f)
           /\ \A i \in 1..Retired(f) : f[i].status = "complete"
<1> DEFINE K == {k \in 0..Len(f) : \A i \in 1..k : f[i].status = "complete"}
<1>1. K \in SUBSET (0..Len(f)) /\ K # {} /\ Len(f) \in Nat
  <2>1. 0 \in K
    OBVIOUS
  <2> QED BY <2>1
<1>2. Max(K) \in K
  <2> HIDE DEF K
  <2> QED BY <1>1, MaxIs
<1> QED BY <1>2 DEF Retired

\* gsw3d_poll, field by field: n results were retired, and it found a failed
\* one behind them, or not (bad).
Polled(d, p, n, bad) ==
    LET rc == ~bad /\ (d.resetCompleted \/ \E i \in 1..n : d.fifo[i].kind = "reset")
    IN
    /\ \A i \in 1..n : Status(d.fifo[i]) = "complete"
    /\ bad => n < Len(d.fifo) /\ Status(d.fifo[n + 1]) = "failed"
    /\ p.gen = d.gen /\ p.region = d.region /\ p.contexts = d.contexts
    /\ p.posted = d.posted
    /\ bad => p.queue = <<>> /\ p.fifo = <<>> /\ p.presents = d.presents - Presents(d.queue)
    /\ ~bad => /\ p.queue = d.queue /\ p.presents = d.presents
               /\ Len(p.fifo) = Len(d.fifo) - n
               /\ \A i \in 1..Len(p.fifo) :
                     /\ p.fifo[i].kind = d.fifo[n + i].kind
                     /\ p.fifo[i].fence = d.fifo[n + i].fence
                     /\ p.fifo[i].gpu = d.fifo[n + i].gpu
                     /\ p.fifo[i].status = Status(d.fifo[n + i])
    /\ p.poisoned = ((d.poisoned \/ bad) /\ ~rc)
    /\ p.resetCompleted = FALSE /\ p.pendingFence = 0
    /\ p.resetPending = (d.resetPending /\ ~rc)
    /\ p.ready = ((d.ready \/ rc) /\ ~p.poisoned)
    /\ p.error = (d.error \/ p.poisoned)
    /\ \/ p.completed = d.completed
       \/ p.completed = d.pendingFence /\ d.pendingFence # 0
       \/ \E m \in 1..n : p.completed = d.fifo[m].fence /\ d.fifo[m].fence # 0

\* A failure cancels the queue and keeps the rest.
LEMMA PoisonIs ==
    ASSUME NEW d \in Device, NEW p, p = Poison(d)
    PROVE  /\ p \in Device
           /\ p.gen = d.gen /\ p.region = d.region /\ p.contexts = d.contexts
           /\ p.posted = d.posted /\ p.fifo = d.fifo /\ p.ready = d.ready
           /\ p.error = d.error /\ p.completed = d.completed
           /\ p.pendingFence = d.pendingFence /\ p.resetPending = d.resetPending
           /\ p.queue = <<>> /\ p.presents = d.presents - Presents(d.queue)
           /\ p.poisoned = TRUE /\ p.resetCompleted = FALSE
<1>1. Presents(d.queue) \in Nat
  <2>1. d.queue \in Seq(Works)
    BY DEF Device
  <2> QED BY <2>1, PresentsType
<1>2. d.presents - Presents(d.queue) \in Int
  BY <1>1 DEF Device
<1>3. <<>> \in Seq(Works)
  OBVIOUS
<1> DEFINE c == CancelQueued(d)
<1>4. c = [d EXCEPT !.queue = <<>>, !.presents = @ - Presents(d.queue)]
  BY DEF CancelQueued, Presents
<1>5. Poison(d) = [d EXCEPT !.queue = <<>>, !.presents = @ - Presents(d.queue),
                            !.poisoned = TRUE, !.resetCompleted = FALSE]
  <2>1. Poison(d) = [c EXCEPT !.poisoned = TRUE, !.resetCompleted = FALSE]
    BY DEF Poison
  <2> HIDE DEF c
  <2> QED BY <1>4, <2>1 DEF Device
<1>6. [d EXCEPT !.queue = <<>>, !.presents = @ - Presents(d.queue),
                !.poisoned = TRUE, !.resetCompleted = FALSE] \in Device
  BY <1>2, <1>3 DEF Device
<1> QED BY <1>5, <1>6 DEF Device

\* What gsw3d_poll publishes.
LEMMA PublishIs ==
    ASSUME NEW d \in Device, NEW p, p = Publish(d)
    PROVE  LET poisoned == d.poisoned /\ ~d.resetCompleted
           IN  /\ p \in Device
               /\ p.gen = d.gen /\ p.region = d.region /\ p.contexts = d.contexts
               /\ p.posted = d.posted /\ p.queue = d.queue /\ p.fifo = d.fifo
               /\ p.presents = d.presents
               /\ p.completed = IF d.pendingFence # 0 THEN d.pendingFence ELSE d.completed
               /\ p.pendingFence = 0 /\ p.resetCompleted = FALSE
               /\ p.resetPending = (d.resetPending /\ ~d.resetCompleted)
               /\ p.poisoned = poisoned
               /\ p.ready = ((d.ready \/ d.resetCompleted) /\ ~poisoned)
               /\ p.error = (d.error \/ poisoned)
<1>1. 0 \in Fences
  BY BoundsAssumption, ProcessAssumption, FS_CardinalityType DEF Fences
<1> DEFINE poisoned == d.poisoned /\ ~d.resetCompleted
<1>2. p = [d EXCEPT !.completed = IF d.pendingFence # 0 THEN d.pendingFence ELSE d.completed,
                    !.pendingFence = 0, !.resetCompleted = FALSE,
                    !.resetPending = d.resetPending /\ ~d.resetCompleted,
                    !.poisoned = poisoned,
                    !.ready = (d.ready \/ d.resetCompleted) /\ ~poisoned,
                    !.error = d.error \/ poisoned]
  BY DEF Publish
<1>3. p \in Device
  BY <1>1, <1>2 DEF Device
<1>4. /\ p.gen = d.gen /\ p.region = d.region /\ p.contexts = d.contexts
      /\ p.posted = d.posted /\ p.queue = d.queue /\ p.fifo = d.fifo
      /\ p.presents = d.presents
      /\ p.completed = IF d.pendingFence # 0 THEN d.pendingFence ELSE d.completed
      /\ p.pendingFence = 0 /\ p.resetCompleted = FALSE
  BY <1>2 DEF Device
<1>5. /\ p.resetPending = (d.resetPending /\ ~d.resetCompleted)
      /\ p.poisoned = poisoned
      /\ p.ready = ((d.ready \/ d.resetCompleted) /\ ~poisoned)
      /\ p.error = (d.error \/ poisoned)
  BY <1>2 DEF Device
<1> QED BY <1>3, <1>4, <1>5

\* A poll, as a whole: n results are retired, and the device fails or not.
LEMMA PollIs ==
    ASSUME NEW d \in Device
    PROVE  /\ Poll(d) \in Device
           /\ \E n \in 0..Len(d.fifo), bad \in BOOLEAN : Polled(d, Poll(d), n, bad)
<1> DEFINE f      == Settled(d.fifo)
           n      == Retired(f)
           fenced == {i \in 1..n : f[i].fence # 0}
           pf     == IF fenced = {} THEN d.pendingFence ELSE f[Max(fenced)].fence
           rest   == SubSeq(f, n + 1, Len(f))
           rset   == d.resetCompleted \/ \E i \in 1..n : f[i].kind = "reset"
           e      == [d EXCEPT !.fifo = rest, !.resetCompleted = rset, !.pendingFence = pf]
           bad    == n < Len(f) /\ f[n + 1].status = "failed"
           r      == IF bad THEN [Poison(e) EXCEPT !.fifo = <<>>] ELSE e
           rc     == ~bad /\ (d.resetCompleted \/ \E i \in 1..n : d.fifo[i].kind = "reset")
<1>1. Poll(d) = Publish(r)
  BY DEF Poll, RetireCompletions
<1>2. d.fifo \in Seq(Results) /\ d.pendingFence \in Fences
  BY DEF Device
<1>3. /\ f \in Seq(Results) /\ Len(f) = Len(d.fifo) /\ Len(f) \in Nat
      /\ \A i \in 1..Len(d.fifo) : /\ f[i] \in Results
                                   /\ f[i].kind = d.fifo[i].kind
                                   /\ f[i].fence = d.fifo[i].fence
                                   /\ f[i].gpu = d.fifo[i].gpu
                                   /\ f[i].status = Status(d.fifo[i])
  BY <1>2, SettledIs
<1> HIDE DEF f
<1>4. n \in 0..Len(f) /\ \A i \in 1..n : f[i].status = "complete"
  BY <1>3, RetiredIs
<1> HIDE DEF n
<1>5. /\ rest \in Seq(Results) /\ Len(rest) = Len(f) - n
      /\ \A i \in 1..Len(rest) : rest[i] = f[n + i] /\ n + i \in 1..Len(f)
  <2>1. n + 1 \in 1..Len(f) + 1 /\ Len(f) \in n..Len(f)
    BY <1>3, <1>4
  <2>2. Len(rest) = Len(f) - n /\ rest \in Seq(Results)
    BY <1>3, <1>4, <2>1
  <2>3. \A i \in 1..Len(f) - n : n + i \in 1..Len(f) /\ rest[i] = f[n + i]
    BY <1>3, <1>4, <2>1
  <2> QED BY <2>2, <2>3
<1> HIDE DEF rest
<1>6. /\ pf \in Fences
      /\ \/ fenced = {} /\ pf = d.pendingFence
         \/ \E m \in 1..n : pf = d.fifo[m].fence /\ d.fifo[m].fence # 0
  <2>1. CASE fenced = {}
    BY <1>2, <2>1
  <2>2. CASE fenced # {}
    <3>1. n \in Nat /\ fenced \in SUBSET (0..n)
      BY <1>3, <1>4
    <3>2. Max(fenced) \in fenced
      <4> HIDE DEF fenced
      <4> QED BY <2>2, <3>1, MaxIs
    <3>3. Max(fenced) \in 1..n /\ Max(fenced) \in 1..Len(f)
      BY <1>3, <1>4, <3>2
    <3>4. pf = f[Max(fenced)].fence /\ f[Max(fenced)].fence # 0
      BY <2>2, <3>2
    <3> DEFINE m == Max(fenced)
    <3>5. f[m] \in Results /\ f[m].fence = d.fifo[m].fence
      BY <1>3, <3>3
    <3>6. f[m].fence \in Fences
      BY <3>5 DEF Results
    <3> QED BY <3>3, <3>4, <3>5, <3>6
  <2> QED BY <2>1, <2>2
<1> HIDE DEF pf, fenced
<1>7. rset \in BOOLEAN
  OBVIOUS
<1>8. rset <=> (d.resetCompleted \/ \E i \in 1..n : d.fifo[i].kind = "reset")
  BY <1>3, <1>4
<1> HIDE DEF rset
<1>9. /\ e \in Device
      /\ e.fifo = rest /\ e.resetCompleted = rset /\ e.pendingFence = pf
      /\ e.gen = d.gen /\ e.region = d.region /\ e.contexts = d.contexts
      /\ e.posted = d.posted /\ e.queue = d.queue /\ e.presents = d.presents
      /\ e.poisoned = d.poisoned /\ e.resetPending = d.resetPending
      /\ e.ready = d.ready /\ e.error = d.error /\ e.completed = d.completed
  BY <1>5, <1>6, <1>7 DEF Device
<1> HIDE DEF e
<1>11. LET q == [Poison(e) EXCEPT !.fifo = <<>>]
       IN  /\ q \in Device
           /\ q.fifo = <<>> /\ q.resetCompleted = FALSE /\ q.pendingFence = pf
           /\ q.gen = d.gen /\ q.region = d.region /\ q.contexts = d.contexts
           /\ q.posted = d.posted /\ q.queue = <<>>
           /\ q.presents = d.presents - Presents(d.queue)
           /\ q.poisoned = TRUE /\ q.resetPending = d.resetPending
           /\ q.ready = d.ready /\ q.error = d.error /\ q.completed = d.completed
  <2> PICK q0 : q0 = Poison(e)
    OBVIOUS
  <2>0. /\ q0 \in Device
        /\ q0.gen = e.gen /\ q0.region = e.region /\ q0.contexts = e.contexts
        /\ q0.posted = e.posted /\ q0.fifo = e.fifo /\ q0.ready = e.ready
        /\ q0.error = e.error /\ q0.completed = e.completed
        /\ q0.pendingFence = e.pendingFence /\ q0.resetPending = e.resetPending
        /\ q0.queue = <<>> /\ q0.presents = e.presents - Presents(e.queue)
        /\ q0.poisoned = TRUE /\ q0.resetCompleted = FALSE
    <3>1. e \in Device
      BY <1>9
    <3> QED BY <3>1, PoisonIs, Zenon
  <2>1. /\ q0 \in Device
        /\ q0.resetCompleted = FALSE /\ q0.pendingFence = pf
        /\ q0.gen = d.gen /\ q0.region = d.region /\ q0.contexts = d.contexts
        /\ q0.posted = d.posted /\ q0.queue = <<>>
        /\ q0.presents = d.presents - Presents(d.queue)
        /\ q0.poisoned = TRUE /\ q0.resetPending = d.resetPending
        /\ q0.ready = d.ready /\ q0.error = d.error /\ q0.completed = d.completed
    BY <1>9, <2>0
  <2>2. <<>> \in Seq(Results)
    OBVIOUS
  <2>3. LET q == [q0 EXCEPT !.fifo = <<>>]
        IN  /\ q \in Device
            /\ q.fifo = <<>> /\ q.resetCompleted = q0.resetCompleted
            /\ q.pendingFence = q0.pendingFence
            /\ q.gen = q0.gen /\ q.region = q0.region /\ q.contexts = q0.contexts
            /\ q.posted = q0.posted /\ q.queue = q0.queue
            /\ q.presents = q0.presents
            /\ q.poisoned = q0.poisoned /\ q.resetPending = q0.resetPending
            /\ q.ready = q0.ready /\ q.error = q0.error /\ q.completed = q0.completed
    BY <2>1, <2>2 DEF Device
  <2> QED BY <2>1, <2>3
<1>12. CASE bad
  <2> PICK p : p = Publish(r)
    OBVIOUS
  <2>1. /\ r \in Device /\ r.fifo = <<>> /\ r.resetCompleted = FALSE /\ r.pendingFence = pf
        /\ r.gen = d.gen /\ r.region = d.region /\ r.contexts = d.contexts
        /\ r.posted = d.posted /\ r.queue = <<>>
        /\ r.presents = d.presents - Presents(d.queue)
        /\ r.poisoned = TRUE /\ r.resetPending = d.resetPending
        /\ r.ready = d.ready /\ r.error = d.error /\ r.completed = d.completed
    BY <1>11, <1>12
  <2> HIDE DEF r
  <2>0. /\ p \in Device
        /\ p.gen = r.gen /\ p.region = r.region /\ p.contexts = r.contexts
        /\ p.posted = r.posted /\ p.queue = r.queue /\ p.fifo = r.fifo
        /\ p.presents = r.presents
        /\ p.completed = (IF r.pendingFence # 0 THEN r.pendingFence ELSE r.completed)
        /\ p.pendingFence = 0 /\ p.resetCompleted = FALSE
        /\ p.resetPending = (r.resetPending /\ ~r.resetCompleted)
        /\ p.poisoned = (r.poisoned /\ ~r.resetCompleted)
        /\ p.ready = ((r.ready \/ r.resetCompleted) /\ ~(r.poisoned /\ ~r.resetCompleted))
        /\ p.error = (r.error \/ (r.poisoned /\ ~r.resetCompleted))
    <3>1. r \in Device
      BY <2>1
    <3> QED BY <3>1, PublishIs, Zenon
  <2>2. /\ p \in Device
        /\ p.gen = d.gen /\ p.region = d.region /\ p.contexts = d.contexts
        /\ p.posted = d.posted /\ p.queue = <<>> /\ p.fifo = <<>>
        /\ p.presents = d.presents - Presents(d.queue)
        /\ p.completed = IF pf # 0 THEN pf ELSE d.completed
        /\ p.pendingFence = 0 /\ p.resetCompleted = FALSE
        /\ p.resetPending = d.resetPending
        /\ p.poisoned = TRUE /\ p.ready = FALSE /\ p.error = TRUE
    <3>1. d.resetPending \in BOOLEAN
      BY DEF Device
    <3> QED BY <2>1, <2>0, <3>1
  <2>3. /\ n < Len(d.fifo) /\ Status(d.fifo[n + 1]) = "failed"
        /\ \A i \in 1..n : Status(d.fifo[i]) = "complete"
    BY <1>3, <1>4, <1>12
  <2>4. \/ p.completed = d.completed
        \/ p.completed = d.pendingFence /\ d.pendingFence # 0
        \/ \E m \in 1..n : p.completed = d.fifo[m].fence /\ d.fifo[m].fence # 0
    BY <1>6, <2>2
  <2>5. d.resetPending \in BOOLEAN
    BY DEF Device
  <2>6. Polled(d, p, n, TRUE)
    BY <2>2, <2>3, <2>4, <2>5 DEF Polled
  <2> QED BY <1>1, <1>3, <1>4, <2>2, <2>6
<1>13. CASE ~bad
  <2> PICK p : p = Publish(r)
    OBVIOUS
  <2>1. r = e
    BY <1>13
  <2> HIDE DEF r
  <2>0. /\ p \in Device
        /\ p.gen = r.gen /\ p.region = r.region /\ p.contexts = r.contexts
        /\ p.posted = r.posted /\ p.queue = r.queue /\ p.fifo = r.fifo
        /\ p.presents = r.presents
        /\ p.completed = (IF r.pendingFence # 0 THEN r.pendingFence ELSE r.completed)
        /\ p.pendingFence = 0 /\ p.resetCompleted = FALSE
        /\ p.resetPending = (r.resetPending /\ ~r.resetCompleted)
        /\ p.poisoned = (r.poisoned /\ ~r.resetCompleted)
        /\ p.ready = ((r.ready \/ r.resetCompleted) /\ ~(r.poisoned /\ ~r.resetCompleted))
        /\ p.error = (r.error \/ (r.poisoned /\ ~r.resetCompleted))
    <3>1. r \in Device
      BY <1>9, <2>1
    <3> QED BY <3>1, PublishIs, Zenon
  <2>2. /\ p \in Device
        /\ p.gen = d.gen /\ p.region = d.region /\ p.contexts = d.contexts
        /\ p.posted = d.posted /\ p.queue = d.queue /\ p.fifo = rest
        /\ p.presents = d.presents
        /\ p.completed = IF pf # 0 THEN pf ELSE d.completed
        /\ p.pendingFence = 0 /\ p.resetCompleted = FALSE
        /\ p.resetPending = (d.resetPending /\ ~rset)
        /\ p.poisoned = (d.poisoned /\ ~rset)
        /\ p.ready = ((d.ready \/ rset) /\ ~(d.poisoned /\ ~rset))
        /\ p.error = (d.error \/ (d.poisoned /\ ~rset))
    BY <1>9, <2>0, <2>1
  <2>3. \A i \in 1..n : Status(d.fifo[i]) = "complete"
    BY <1>3, <1>4
  <2>4. \/ p.completed = d.completed
        \/ p.completed = d.pendingFence /\ d.pendingFence # 0
        \/ \E m \in 1..n : p.completed = d.fifo[m].fence /\ d.fifo[m].fence # 0
    BY <1>6, <2>2
  <2>5. /\ Len(p.fifo) = Len(d.fifo) - n
        /\ \A i \in 1..Len(p.fifo) :
                     /\ p.fifo[i].kind = d.fifo[n + i].kind
                     /\ p.fifo[i].fence = d.fifo[n + i].fence
                     /\ p.fifo[i].gpu = d.fifo[n + i].gpu
                     /\ p.fifo[i].status = Status(d.fifo[n + i])
    BY <1>3, <1>5, <2>2
  <2>6. Polled(d, p, n, FALSE)
    BY <1>8, <2>2, <2>3, <2>4, <2>5 DEF Polled
  <2> QED BY <1>1, <1>3, <1>4, <2>2, <2>6
<1> QED BY <1>12, <1>13

\* A set of contexts is finite, and no larger than all of them.
LEMMA ContextsFinite ==
    ASSUME NEW S \in SUBSET Contexts
    PROVE  IsFiniteSet(S) /\ Cardinality(S) \in Nat /\ Cardinality(S) <= Cardinality(Contexts)
<1>1. IsFiniteSet(Contexts)
  BY ProcessAssumption
<1>2. IsFiniteSet(S) /\ Cardinality(S) <= Cardinality(Contexts)
  BY <1>1, FS_Subset
<1> QED BY <1>2, FS_CardinalityType

\* Fences are natural numbers.
LEMMA FencesAre ==
    /\ Cardinality(Contexts) \in Nat
    /\ Fences = 0..MaxFence + Cardinality(Contexts) + 1
    /\ 0 \in Fences /\ 1 \in Fences /\ 2 \in Fences
<1>1. Cardinality(Contexts) \in Nat
  BY ProcessAssumption, FS_CardinalityType
<1> QED BY <1>1, BoundsAssumption DEF Fences

\* The device after a reset.
LEMMA ResetIs ==
    ASSUME NEW d \in Device, d.gen < MaxGeneration, NEW p, p = DeviceReset(d)
    PROVE  /\ p \in Device
           /\ p.gen = d.gen + 1 /\ p.region = FALSE /\ p.contexts = {} /\ p.posted = FALSE
           /\ p.queue = <<ResetWork(d)>> /\ ResetWork(d) \in Works /\ p.fifo = <<>>
           /\ p.presents = d.presents - Presents(d.queue)
           /\ p.completed = 0 /\ p.pendingFence = 0
           /\ p.resetPending = TRUE /\ p.resetCompleted = FALSE
           /\ p.poisoned = FALSE /\ p.ready = FALSE /\ p.error = FALSE
<1>1. d.queue \in Seq(Works) /\ d.gen \in 1..MaxGeneration /\ d.presents \in Int
  BY DEF Device
<1>2. d.presents - Presents(d.queue) \in Int /\ d.gen + 1 \in 1..MaxGeneration
  <2>1. Presents(d.queue) \in Nat
    BY <1>1, PresentsType
  <2> QED BY <1>1, <2>1, BoundsAssumption
<1>3. ResetWork(d) \in Works
  BY <1>2, FencesAre DEF ResetWork, Works, Kinds
<1>4. <<ResetWork(d)>> \in Seq(Works) /\ <<>> \in Seq(Results) /\ {} \in SUBSET Contexts
  BY <1>3
<1> DEFINE c == CancelQueued(d)
           q == <<ResetWork(d)>>
<1>5. c = [d EXCEPT !.queue = <<>>, !.presents = @ - Presents(d.queue)]
  BY DEF CancelQueued, Presents
<1>6. c.gen = d.gen /\ c.presents = d.presents - Presents(d.queue)
  <2> HIDE DEF c
  <2> QED BY <1>5 DEF Device
<1>7. p = [c EXCEPT
              !.gen = c.gen + 1, !.queue = q, !.fifo = <<>>,
              !.poisoned = FALSE, !.pendingFence = 0, !.completed = 0,
              !.resetCompleted = FALSE, !.resetPending = TRUE,
              !.region = FALSE, !.contexts = {}, !.posted = FALSE,
              !.ready = FALSE, !.error = FALSE]
  BY DEF DeviceReset
<1> HIDE DEF c, q
<1>8. p = [d EXCEPT
              !.gen = d.gen + 1, !.queue = q, !.fifo = <<>>,
              !.poisoned = FALSE, !.pendingFence = 0, !.completed = 0,
              !.resetCompleted = FALSE, !.resetPending = TRUE,
              !.region = FALSE, !.contexts = {}, !.posted = FALSE,
              !.presents = d.presents - Presents(d.queue),
              !.ready = FALSE, !.error = FALSE]
  BY <1>5, <1>6, <1>7 DEF Device
<1>9. q \in Seq(Works) /\ q = <<ResetWork(d)>>
  BY <1>4 DEF q
<1>10. 0 \in Fences
  BY FencesAre
<1> DEFINE g == d.gen + 1
           m == d.presents - Presents(d.queue)
<1>11. g \in 1..MaxGeneration /\ m \in Int
  BY <1>2
<1> HIDE DEF g, m
<1>12. p = [d EXCEPT
              !.gen = g, !.queue = q, !.fifo = <<>>,
              !.poisoned = FALSE, !.pendingFence = 0, !.completed = 0,
              !.resetCompleted = FALSE, !.resetPending = TRUE,
              !.region = FALSE, !.contexts = {}, !.posted = FALSE,
              !.presents = m, !.ready = FALSE, !.error = FALSE]
  BY <1>8 DEF g, m
<1>13. p \in Device
  <2> DEFINE nil  == <<>>
             none == {}
  <2>1. nil \in Seq(Results) /\ none \in SUBSET Contexts /\ q \in Seq(Works)
    BY <1>9
  <2>2. p = [d EXCEPT
                !.gen = g, !.queue = q, !.fifo = nil,
                !.poisoned = FALSE, !.pendingFence = 0, !.completed = 0,
                !.resetCompleted = FALSE, !.resetPending = TRUE,
                !.region = FALSE, !.contexts = none, !.posted = FALSE,
                !.presents = m, !.ready = FALSE, !.error = FALSE]
    BY <1>12
  <2> DEFINE d1 == [d EXCEPT !.gen = g, !.queue = q, !.fifo = nil, !.contexts = none,
                             !.presents = m, !.completed = 0, !.pendingFence = 0]
  <2> HIDE DEF nil, none
  <2>3. d1 \in Device
    BY <2>1, <1>10, <1>11 DEF Device
  <2>4. p = [d1 EXCEPT !.poisoned = FALSE, !.resetCompleted = FALSE, !.resetPending = TRUE,
                       !.region = FALSE, !.posted = FALSE, !.ready = FALSE, !.error = FALSE]
    BY <2>2 DEF Device
  <2> HIDE DEF d1
  <2> QED BY <2>3, <2>4 DEF Device
<1>14. /\ p.gen = g /\ p.region = FALSE /\ p.contexts = {} /\ p.posted = FALSE
       /\ p.queue = q /\ p.fifo = <<>> /\ p.presents = m
       /\ p.completed = 0 /\ p.pendingFence = 0
       /\ p.resetPending = TRUE /\ p.resetCompleted = FALSE
       /\ p.poisoned = FALSE /\ p.ready = FALSE /\ p.error = FALSE
  BY <1>12 DEF Device
<1> QED BY <1>3, <1>9, <1>13, <1>14 DEF g, m

\* The device has taken the command of the call c as the work w.
TakenAs(d, c, w, p) ==
    /\ p \in Device /\ w \in Works
    /\ p.posted = FALSE /\ p.queue = Append(d.queue, w)
    /\ p.presents = (IF c.op = "present" THEN d.presents + 1 ELSE d.presents)
    /\ p.region = ((d.region \/ c.op = "register") /\ c.op # "unregister")
    /\ c.op = "create" => p.contexts = d.contexts \cup {c.cid}
    /\ c.op \in {"destroy", "cleanup"} => p.contexts = d.contexts \ {c.cid}
    /\ c.op \notin {"create", "destroy", "cleanup"} => p.contexts = d.contexts
    /\ p.gen = d.gen /\ p.fifo = d.fifo /\ p.ready = d.ready /\ p.error = d.error
    /\ p.poisoned = d.poisoned /\ p.completed = d.completed
    /\ p.pendingFence = d.pendingFence /\ p.resetPending = d.resetPending
    /\ p.resetCompleted = d.resetCompleted

\* The device after the doorbell of a command that it accepts.
LEMMA TakenIs ==
    ASSUME NEW d \in Device, NEW c \in Calls, NEW fence \in Fences, NEW p, p = Taken(d, c, fence),
           NEW w, w = [kind |-> KindOf(c.op), gen |-> d.gen, fence |-> fence],
           c.op \in {"create", "destroy", "cleanup"} => c.cid \in Contexts
    PROVE  TakenAs(d, c, w, p)
<1> DEFINE cs == CASE c.op = "create" -> d.contexts \cup {c.cid}
                   [] c.op \in {"destroy", "cleanup"} -> d.contexts \ {c.cid}
                   [] OTHER -> d.contexts
           q  == Append(d.queue, w)
           ps == IF c.op = "present" THEN d.presents + 1 ELSE d.presents
           rg == (d.region \/ c.op = "register") /\ c.op # "unregister"
<1>1. w \in Works
  BY DEF Works, Kinds, KindOf, Device
<1>2. cs \in SUBSET Contexts
  BY DEF Device
<1>3. q \in Seq(Works)
  BY <1>1 DEF Device
<1>4. ps \in Int /\ rg \in BOOLEAN
  BY DEF Device
<1>5. p = [d EXCEPT !.posted = FALSE, !.queue = q, !.presents = ps, !.region = rg, !.contexts = cs]
  BY DEF Taken
<1>6. /\ c.op = "create" => cs = d.contexts \cup {c.cid}
      /\ c.op \in {"destroy", "cleanup"} => cs = d.contexts \ {c.cid}
      /\ c.op \notin {"create", "destroy", "cleanup"} => cs = d.contexts
  OBVIOUS
<1> HIDE DEF cs, q, ps, rg
<1>7. p \in Device
  BY <1>2, <1>3, <1>4, <1>5 DEF Device
<1>8. /\ p.posted = FALSE /\ p.queue = q /\ p.presents = ps /\ p.region = rg /\ p.contexts = cs
      /\ p.gen = d.gen /\ p.fifo = d.fifo /\ p.ready = d.ready /\ p.error = d.error
      /\ p.poisoned = d.poisoned /\ p.completed = d.completed
      /\ p.pendingFence = d.pendingFence /\ p.resetPending = d.resetPending
      /\ p.resetCompleted = d.resetCompleted
  BY <1>5 DEF Device
<1> QED BY <1>1, <1>6, <1>7, <1>8 DEF q, ps, rg, TakenAs

\* Steps that write only the ring or the error flag.
LEMMA PostedIs ==
    ASSUME NEW d \in Device, NEW b \in BOOLEAN, NEW p, p = [d EXCEPT !.posted = b]
    PROVE  /\ p \in Device /\ p.posted = b /\ p.error = d.error
           /\ p.queue = d.queue /\ p.presents = d.presents /\ p.region = d.region
           /\ p.contexts = d.contexts /\ p.gen = d.gen /\ p.fifo = d.fifo
           /\ p.ready = d.ready /\ p.poisoned = d.poisoned /\ p.completed = d.completed
           /\ p.pendingFence = d.pendingFence /\ p.resetPending = d.resetPending
           /\ p.resetCompleted = d.resetCompleted
BY DEF Device

\* The driver clears error and ring when it binds.
LEMMA ClearedIs ==
    ASSUME NEW d \in Device, NEW p, p = [d EXCEPT !.error = FALSE, !.posted = FALSE]
    PROVE  /\ p \in Device /\ p.posted = FALSE /\ p.error = FALSE
           /\ p.queue = d.queue /\ p.presents = d.presents /\ p.region = d.region
           /\ p.contexts = d.contexts /\ p.gen = d.gen /\ p.fifo = d.fifo
           /\ p.ready = d.ready /\ p.poisoned = d.poisoned /\ p.completed = d.completed
           /\ p.pendingFence = d.pendingFence /\ p.resetPending = d.resetPending
           /\ p.resetCompleted = d.resetCompleted
BY DEF Device

\* The device after the doorbell of a command that it refuses.
LEMMA RefusedIs ==
    ASSUME NEW d \in Device, NEW c, NEW p, p = Refused(d, c)
    PROVE  /\ p \in Device /\ p.posted = d.posted
           /\ p.error = (d.error \/ d.poisoned \/ (~d.resetPending /\ ~Executable(d, c)))
           /\ p.queue = d.queue /\ p.presents = d.presents /\ p.region = d.region
           /\ p.contexts = d.contexts /\ p.gen = d.gen /\ p.fifo = d.fifo
           /\ p.ready = d.ready /\ p.poisoned = d.poisoned /\ p.completed = d.completed
           /\ p.pendingFence = d.pendingFence /\ p.resetPending = d.resetPending
           /\ p.resetCompleted = d.resetCompleted
<1> DEFINE e == d.error \/ d.poisoned \/ (~d.resetPending /\ ~Executable(d, c))
<1>1. p = [d EXCEPT !.error = e] /\ e \in BOOLEAN
  BY DEF Refused
<1> HIDE DEF e
<1>2. /\ p \in Device /\ p.posted = d.posted /\ p.error = e
      /\ p.queue = d.queue /\ p.presents = d.presents /\ p.region = d.region
      /\ p.contexts = d.contexts /\ p.gen = d.gen /\ p.fifo = d.fifo
      /\ p.ready = d.ready /\ p.poisoned = d.poisoned /\ p.completed = d.completed
      /\ p.pendingFence = d.pendingFence /\ p.resetPending = d.resetPending
      /\ p.resetCompleted = d.resetCompleted
  BY <1>1 DEF Device
<1> QED BY <1>2 DEF e

-----------------------------------------------------------------------------
(* Types, and the counters that the types bound.                            *)

\* The device's part of TypeOK.
DevTyped(d) ==
    /\ d \in Device /\ d.presents \in 0..PresentLimit
    /\ Len(d.queue) <= QueueCapacity
    /\ Len(d.fifo) <= (IF async THEN FifoCapacity ELSE 0)
    /\ Cardinality(d.contexts) <= ContextCapacity

Driver == [up : BOOLEAN, ready : BOOLEAN, fence : Fences \ {0},
           owner : [Contexts -> Processes \cup {None}]]

\* The rest of it.
RestTyped ==
    /\ async \in BOOLEAN
    /\ worker \in {"asleep", "awake", "busy"} /\ work \in Works
    /\ drv \in Driver /\ call \in Calls \cup {Idle} /\ current \in BOOLEAN
    /\ accepted \subseteq Fences /\ done \subseteq Fences
    /\ cause \subseteq {"backend", "invalid", "orphan", "moved"}
    /\ failures \in 0..MaxFailures /\ moves \in 0..MaxMoves

\* The type of the state, by the device and by the rest.
LEMMA TypeParts == TypeOK <=> DevTyped(dev) /\ RestTyped
<1>1. (dev \in Device /\ dev.presents \in 0..PresentLimit) <=>
      dev \in [ready : BOOLEAN, error : BOOLEAN, poisoned : BOOLEAN,
                gen : 1..MaxGeneration, resetPending : BOOLEAN,
                resetCompleted : BOOLEAN, pendingFence : Fences,
                completed : Fences, region : BOOLEAN,
                contexts : SUBSET Contexts, queue : Seq(Works),
                fifo : Seq(Results), presents : 0..PresentLimit,
                posted : BOOLEAN]
  <2>1. 0..PresentLimit \subseteq Int
    OBVIOUS
  <2> QED BY <2>1 DEF Device
<1>2. {current} \subseteq BOOLEAN <=> current \in BOOLEAN
  OBVIOUS
<1> QED BY <1>1, <1>2 DEF TypeOK, DevTyped, RestTyped, Driver

Executing == IF worker = "busy" /\ work.kind = "present" THEN 1 ELSE 0

Counted(d) == d.presents = Presents(d.queue) + Executing

\* The presents that are counted, in the terms of the lemmas above.
LEMMA CountedIs == PresentsAreCounted <=> Counted(dev)
BY DEF PresentsAreCounted, Counted, Presents, Executing

\* The worker took its work when the FIFO had room for the result.
RoomForResult == worker = "busy" /\ async => Len(dev.fifo) < FifoCapacity

OwnedBy(owner, pid) == {x \in Contexts : owner[x] = pid}

OnContexts == {"create", "destroy", "submit", "present", "cleanup"}

\* A call has what it needs of its context, and of the bounds.
CallBounds ==
    call # Idle =>
        /\ call.op \in OnContexts => call.cid \in Contexts
        /\ call.op = "create" => call.pid \in Processes
        /\ call.op = "cleanup" =>
              /\ call.pid \in Processes /\ drv.owner[call.cid] = call.pid
              /\ drv.fence + Cardinality(OwnedBy(drv.owner, call.pid))
                    <= MaxFence + Cardinality(Contexts)
        /\ call.op \in {"create", "destroy", "submit", "present", "upload"} =>
              drv.fence < MaxFence
        /\ call.op = "register" => drv.fence = 1
        /\ call.op \in {"register", "unregister"} => dev.gen < MaxGeneration

Typed == TypeOK /\ PresentsAreCounted /\ RoomForResult /\ CallBounds

\* What the proofs use of the type.
LEMMA TypedFacts ==
    ASSUME Typed
    PROVE  /\ DevTyped(dev) /\ RestTyped /\ Counted(dev) /\ dev \in Device
           /\ drv.fence \in Fences /\ drv.fence \in Nat \ {0}
           /\ drv.owner \in [Contexts -> Processes \cup {None}]
           /\ drv.up \in BOOLEAN /\ drv.ready \in BOOLEAN
           /\ dev.queue \in Seq(Works) /\ dev.fifo \in Seq(Results)
           /\ dev.gen \in 1..MaxGeneration /\ dev.presents \in 0..PresentLimit
           /\ Presents(dev.queue) \in Nat /\ Executing \in {0, 1}
           /\ Len(dev.queue) \in Nat /\ Len(dev.fifo) \in Nat
<1>1. DevTyped(dev) /\ RestTyped /\ Counted(dev)
  BY TypeParts, CountedIs DEF Typed
<1>2. drv \in Driver
  BY <1>1 DEF RestTyped
<1>3. drv.fence \in Fences /\ drv.fence # 0
  BY <1>2 DEF Driver
<1>4. drv.fence \in Nat \ {0}
  BY <1>3, FencesAre
<1>5. /\ drv.owner \in [Contexts -> Processes \cup {None}]
      /\ drv.up \in BOOLEAN /\ drv.ready \in BOOLEAN
  BY <1>2 DEF Driver
<1>6. dev.queue \in Seq(Works) /\ dev.fifo \in Seq(Results)
      /\ dev.gen \in 1..MaxGeneration /\ dev.presents \in 0..PresentLimit
  BY <1>1 DEF DevTyped, Device
<1>7. Presents(dev.queue) \in Nat
  BY <1>6, PresentsType
<1>8. Executing \in {0, 1} /\ Len(dev.queue) \in Nat /\ Len(dev.fifo) \in Nat
  BY <1>6 DEF Executing
<1>9. dev \in Device
  BY <1>1 DEF DevTyped
<1> QED BY <1>1, <1>3, <1>4, <1>5, <1>6, <1>7, <1>8, <1>9

\* The worker executes what it executed before.
LEMMA WakingKeeps ==
    ASSUME NEW d
    PROVE  /\ worker = "busy" <=> WokenByPoll(d) = "busy"
           /\ worker = "busy" <=> Signalled = "busy"
           /\ worker \in {"asleep", "awake", "busy"} =>
                 /\ WokenByPoll(d) \in {"asleep", "awake", "busy"}
                 /\ Signalled \in {"asleep", "awake", "busy"}
BY DEF WokenByPoll, Signalled

\* What a poll leaves for the next step.
Shrunk(p) ==
    /\ DevTyped(p) /\ Counted(p) /\ Len(p.fifo) <= Len(dev.fifo) /\ p.gen = dev.gen

\* A poll keeps the type of the device, and only takes work away.
LEMMA PollTyped ==
    ASSUME Typed, NEW p, p = Poll(dev)
    PROVE  Shrunk(p)
<1>1. /\ DevTyped(dev) /\ Counted(dev) /\ dev \in Device
      /\ Presents(dev.queue) \in Nat /\ Executing \in {0, 1}
      /\ Len(dev.fifo) \in Nat /\ dev.presents \in 0..PresentLimit
  BY TypedFacts
<1>2. p \in Device
  BY <1>1, PollIs
<1>3. PICK n \in 0..Len(dev.fifo), bad \in BOOLEAN : Polled(dev, p, n, bad)
  BY <1>1, PollIs
<1>4. p.contexts = dev.contexts /\ p.gen = dev.gen
  BY <1>3 DEF Polled
<1>5. CASE bad
  <2>1. p.queue = <<>> /\ p.fifo = <<>> /\ p.presents = dev.presents - Presents(dev.queue)
    BY <1>3, <1>5 DEF Polled
  <2>2. p.presents = Executing /\ Presents(p.queue) = 0 /\ p.presents \in 0..PresentLimit
    <3>1. Presents(p.queue) = 0
      BY <2>1, PresentsEmpty
    <3>2. dev.presents = Presents(dev.queue) + Executing
      BY <1>1 DEF Counted
    <3>3. PresentLimit \in Nat
      BY CapacityAssumption
    <3> DEFINE a == Presents(dev.queue)
               x == Executing
    <3>4. /\ a \in Nat /\ x \in {0, 1} /\ dev.presents \in 0..PresentLimit
          /\ dev.presents = a + x /\ p.presents = dev.presents - a
      BY <1>1, <2>1, <3>2
    <3> HIDE DEF a, x
    <3>5. p.presents = x /\ x \in 0..PresentLimit
      BY <3>3, <3>4
    <3> QED BY <3>1, <3>5 DEF x
  <2>3. Len(p.queue) = 0 /\ Len(p.fifo) = 0
    BY <2>1
  <2> QED BY <1>1, <1>2, <1>4, <2>1, <2>2, <2>3, CapacityAssumption
          DEF DevTyped, Counted, Shrunk
<1>6. CASE ~bad
  <2>1. p.queue = dev.queue /\ Len(p.fifo) = Len(dev.fifo) - n /\ p.presents = dev.presents
    BY <1>3, <1>6 DEF Polled
  <2>2. Len(p.fifo) <= Len(dev.fifo)
    BY <1>1, <1>3, <2>1
  <2>3. Len(p.fifo) <= (IF async THEN FifoCapacity ELSE 0)
    <3>1. Len(dev.fifo) <= (IF async THEN FifoCapacity ELSE 0) /\ Len(p.fifo) \in Nat
      BY <1>1, <1>3, <2>1 DEF DevTyped
    <3> QED BY <1>1, <2>2, <3>1, CapacityAssumption
  <2> QED BY <1>1, <1>2, <1>4, <2>1, <2>2, <2>3 DEF DevTyped, Counted, Shrunk
<1> QED BY <1>3, <1>5, <1>6

\* The error and the ring are no part of the work.
LEMMA FlagsShrunk ==
    ASSUME NEW d, Shrunk(d), NEW b \in BOOLEAN
    PROVE  Shrunk([d EXCEPT !.posted = b])
<1>1. d \in Device
  BY DEF Shrunk, DevTyped
<1> PICK p : p = [d EXCEPT !.posted = b]
  OBVIOUS
<1>3. /\ p \in Device
      /\ p.queue = d.queue /\ p.presents = d.presents
      /\ p.contexts = d.contexts /\ p.gen = d.gen /\ p.fifo = d.fifo
  BY <1>1, PostedIs
<1> QED BY <1>3 DEF Shrunk, DevTyped, Counted

\* The type of the next state.
LEMMA TypePartsNext ==
    /\ TypeOK' <=> DevTyped(dev)' /\ RestTyped'
    /\ PresentsAreCounted' <=> Counted(dev)'
BY TypeParts, CountedIs, PTL

\* What the proofs use of a call.
LEMMA CallFacts ==
    ASSUME Typed, call # Idle
    PROVE  /\ call \in Calls
           /\ call.op \in Submissions \cup {"register", "unregister"}
           /\ call.step \in {"post", "doorbell", "verify"}
           /\ call.valid \in BOOLEAN
           /\ \A s \in {"post", "doorbell", "verify"} :
                 LET c == [call EXCEPT !.step = s]
                 IN  /\ c \in Calls /\ c.op = call.op /\ c.step = s /\ c.cid = call.cid
                     /\ c.pid = call.pid /\ c.valid = call.valid
<1>1. call \in Calls
  BY TypedFacts DEF RestTyped
<1> QED BY <1>1 DEF Calls

\* A record of Calls is not Idle.
LEMMA CallsAreCalls == \A c \in Calls : c # Idle /\ c.op # "idle"
BY DEF Calls, Idle, Submissions

\* A call begins.
LEMMA StartTyped ==
    ASSUME Typed, NEW op \in Submissions, NEW cid \in Contexts \cup {None},
           NEW pid \in Processes \cup {None}, NEW valid \in BOOLEAN,
           Start(op, cid, pid, valid),
           op \in OnContexts => cid \in Contexts,
           op = "create" => pid \in Processes,
           op = "cleanup" => pid \in Processes /\ drv.owner[cid] = pid
    PROVE  Typed'
<1> DEFINE c == [op |-> op, step |-> "post", cid |-> cid, pid |-> pid, valid |-> valid]
<1>1. c \in Calls
  BY DEF Calls
<1>2. call' = c /\ UNCHANGED <<async, dev, worker, work, drv, current, accepted, done, cause,
                   failures, moves>>
  BY DEF Start
<1>3. TypeOK' /\ PresentsAreCounted' /\ RoomForResult'
  <2>1. RestTyped'
    BY <1>1, <1>2, TypedFacts DEF RestTyped
  <2>2. DevTyped(dev)' /\ Counted(dev)'
    BY <1>2, TypedFacts DEF DevTyped, Counted, Executing
  <2>3. TypeOK' /\ PresentsAreCounted'
    BY <2>1, <2>2, TypePartsNext
  <2>4. RoomForResult'
    BY <1>2 DEF Typed, RoomForResult
  <2> QED BY <2>3, <2>4
<1>4. drv.fence < MaxFence
  <2>1. drv.fence + dev.gen <= MaxFence /\ dev.gen \in 1..MaxGeneration /\ drv.fence \in Nat
    BY TypedFacts DEF Start
  <2> QED BY <2>1, BoundsAssumption
<1>5. op = "cleanup" => drv.fence + Cardinality(OwnedBy(drv.owner, pid))
                            <= MaxFence + Cardinality(Contexts)
  <2>1. OwnedBy(drv.owner, pid) \in SUBSET Contexts
    BY DEF OwnedBy
  <2>2. /\ Cardinality(OwnedBy(drv.owner, pid)) \in Nat
        /\ Cardinality(OwnedBy(drv.owner, pid)) <= Cardinality(Contexts)
    BY <2>1, ContextsFinite
  <2>3. drv.fence \in Nat /\ Cardinality(Contexts) \in Nat
    BY TypedFacts, FencesAre
  <2> QED BY <1>4, <2>2, <2>3, BoundsAssumption
<1>6. CallBounds'
  <2>1. c.op = op /\ c.cid = cid /\ c.pid = pid /\ op \notin {"register", "unregister"}
    BY DEF Submissions
  <2> HIDE DEF c
  <2> QED BY <1>2, <1>4, <1>5, <2>1 DEF CallBounds, OnContexts
<1> QED BY <1>3, <1>6 DEF Typed

\* Every call of a process keeps the type.
LEMMA CallsTyped == ASSUME Typed, ContextCall \/ WorkCall PROVE Typed'
<1>1. ASSUME NEW cid \in Contexts, NEW pid \in Processes,
             Create(cid, pid) \/ Destroy(cid, pid) \/ Cleanup(cid, pid)
      PROVE  Typed'
  <2>1. CASE Create(cid, pid)
    <3>1. Start("create", cid, pid, TRUE)
      BY <2>1 DEF Create
    <3> QED BY <3>1, StartTyped DEF Submissions
  <2>2. CASE Destroy(cid, pid)
    <3>1. Start("destroy", cid, pid, TRUE)
      BY <2>2 DEF Destroy
    <3> QED BY <3>1, StartTyped DEF Submissions
  <2>3. CASE Cleanup(cid, pid)
    <3>1. Start("cleanup", cid, pid, TRUE) /\ drv.owner[cid] = pid
      BY <2>3 DEF Cleanup
    <3> QED BY <3>1, StartTyped DEF Submissions
  <2> QED BY <1>1, <2>1, <2>2, <2>3
<1>2. ASSUME NEW valid \in BOOLEAN, Upload(valid) PROVE Typed'
  <2>1. Start("upload", None, None, valid)
    BY <1>2 DEF Upload
  <2> QED BY <2>1, StartTyped DEF Submissions, OnContexts
<1>3. ASSUME NEW valid \in BOOLEAN, NEW cid \in Contexts, Submit(cid, valid) \/ Present(cid, valid)
      PROVE  Typed'
  <2>1. CASE Submit(cid, valid)
    <3>1. Start("submit", cid, None, valid)
      BY <2>1 DEF Submit
    <3> QED BY <3>1, StartTyped DEF Submissions
  <2>2. CASE Present(cid, valid)
    <3>1. Start("present", cid, None, valid)
      BY <2>2 DEF Present
    <3> QED BY <3>1, StartTyped DEF Submissions
  <2> QED BY <1>3, <2>1, <2>2
<1> QED BY <1>1, <1>2, <1>3 DEF ContextCall, WorkCall

\* One of three cases.
LEMMA CaseIs ==
    ASSUME NEW P \in BOOLEAN, NEW Q \in BOOLEAN, NEW S, NEW T, NEW U,
           NEW x \in CASE P -> S [] Q -> T [] OTHER -> U, ~(P /\ Q)
    PROVE  (P /\ x \in S) \/ (Q /\ x \in T) \/ x \in U
BY Zenon

\* How a call goes on.
LEMMA CallAfterIs ==
    ASSUME NEW c \in Calls, NEW ok \in BOOLEAN, NEW owner, NEW n \in CallAfter(c, ok, owner)
    PROVE  \/ n = Idle
           \/ /\ c.op = "cleanup"
              /\ \E x \in Contexts : owner[x] = c.pid /\ n = [c EXCEPT !.step = "post", !.cid = x]
           \/ c.op = "register" /\ ~ok /\ n = [c EXCEPT !.op = "unregister", !.step = "post"]
<1> DEFINE S == {[c EXCEPT !.step = "post", !.cid = x] :
                    x \in {y \in Contexts : owner[y] = c.pid}}
           T == {[c EXCEPT !.op = "unregister", !.step = "post"]}
           I == {Idle}
           P == c.op = "cleanup" /\ (\E x \in Contexts : owner[x] = c.pid)
           Q == c.op = "register" /\ ~ok
<1>1. n \in CASE P -> S [] Q -> T [] OTHER -> I
  BY Zenon DEF CallAfter
<1>3. P \in BOOLEAN /\ Q \in BOOLEAN /\ ~(P /\ Q)
  OBVIOUS
<1>2. n \in S => \E x \in Contexts : owner[x] = c.pid /\ n = [c EXCEPT !.step = "post", !.cid = x]
  BY Zenon
<1>4. n \in T => n = [c EXCEPT !.op = "unregister", !.step = "post"]
  BY Zenon
<1>5. n \in I => n = Idle
  BY Zenon
<1> HIDE DEF S, T, I, P, Q
<1>6. \/ P /\ n \in S
      \/ Q /\ n \in T
      \/ n \in I
  BY <1>1, <1>3, CaseIs, Zenon
<1> QED BY <1>2, <1>4, <1>5, <1>6, Zenon DEF P, Q

\* gsw3d_submit_locked has returned.
LEMMA FinishTyped ==
    ASSUME Typed, call # Idle, NEW d, Shrunk(d), NEW ok \in BOOLEAN, Finish(ok, d),
           UNCHANGED <<async, work, current, failures, moves>>
    PROVE  Typed'
<1>1. /\ DevTyped(d) /\ Counted(d) /\ Len(d.fifo) <= Len(dev.fifo) /\ d.gen = dev.gen
      /\ d \in Device /\ d.queue \in Seq(Works) /\ d.fifo \in Seq(Results)
  BY DEF Shrunk, DevTyped, Device
<1>2. /\ RestTyped /\ drv \in Driver /\ drv.fence \in Nat \ {0} /\ Executing \in {0, 1}
      /\ drv.owner \in [Contexts -> Processes \cup {None}] /\ call \in Calls
      /\ Len(dev.fifo) \in Nat /\ drv.fence \in Fences
  BY TypedFacts, CallFacts DEF RestTyped
<1>3. CASE call.op = "unregister"
  <2>1. ShutdownEnds(d)
    BY <1>3 DEF Finish
  <2>2. d.gen < MaxGeneration
    BY <1>1, <1>3 DEF Typed, CallBounds
  <2>3. /\ dev' \in Device
        /\ dev'.contexts = {} /\ dev'.queue = <<ResetWork(d)>> /\ ResetWork(d) \in Works
        /\ dev'.fifo = <<>> /\ dev'.presents = d.presents - Presents(d.queue)
    <3>1. dev' = DeviceReset(d)
      BY <2>1 DEF ShutdownEnds
    <3> QED BY <1>1, <2>2, <3>1, ResetIs
  <2>4. /\ worker' \in {"asleep", "awake", "busy"} /\ (worker' = "busy" <=> worker = "busy")
        /\ call' = Idle /\ accepted' = {} /\ done' = {} /\ cause' = {}
        /\ drv' = [drv EXCEPT !.ready = FALSE, !.fence = 1, !.owner = NoOwner]
    BY <1>2, <2>1, WakingKeeps DEF ShutdownEnds, RestTyped
  <2>5. Executing' = Executing
    BY <2>4 DEF Executing
  <2>6. dev'.presents = Executing /\ dev'.presents \in 0..PresentLimit
    <3> DEFINE a == Presents(d.queue)
               x == Executing
    <3>1. a \in Nat /\ d.presents = a + x /\ d.presents \in 0..PresentLimit /\ x \in {0, 1}
      BY <1>1, <1>2, PresentsType DEF Counted, DevTyped
    <3>2. dev'.presents = d.presents - a /\ PresentLimit \in Nat
      BY <2>3, CapacityAssumption
    <3> HIDE DEF a, x
    <3>3. dev'.presents = x /\ x \in 0..PresentLimit
      BY <3>1, <3>2
    <3> QED BY <3>3 DEF x
  <2>7. Presents(dev'.queue) = 0
    <3>1. Presents(Append(<<>>, ResetWork(d))) = Presents(<<>>) + IsPresent(ResetWork(d))
      <4>1. <<>> \in Seq(Works)
        OBVIOUS
      <4> QED BY <2>3, <4>1, PresentsAppend
    <3>2. IsPresent(ResetWork(d)) = 0
      BY DEF IsPresent, ResetWork
    <3>3. Append(<<>>, ResetWork(d)) = <<ResetWork(d)>>
      OBVIOUS
    <3> QED BY <2>3, <3>1, <3>2, <3>3, PresentsEmpty
  <2>8. DevTyped(dev)'
    <3>1. Len(dev'.queue) = 1 /\ Len(dev'.fifo) = 0
      BY <2>3
    <3>2. Cardinality(dev'.contexts) = 0
      BY <2>3, FS_EmptySet
    <3> QED BY <2>3, <2>6, <3>1, <3>2, CapacityAssumption DEF DevTyped
  <2>9. Counted(dev)'
    BY <2>5, <2>6, <2>7, <1>2 DEF Counted
  <2>10. drv' \in Driver
    <3>1. NoOwner \in [Contexts -> Processes \cup {None}] /\ 1 \in Fences \ {0}
      BY FencesAre DEF NoOwner
    <3> HIDE DEF NoOwner
    <3> QED BY <1>2, <2>4, <3>1 DEF Driver
  <2>11. RestTyped'
    BY <1>2, <2>4, <2>10 DEF RestTyped
  <2>12. RoomForResult'
    <3>1. Len(dev'.fifo) = 0
      BY <2>3
    <3> QED BY <3>1, CapacityAssumption DEF RoomForResult
  <2>13. CallBounds'
    BY <2>4 DEF CallBounds
  <2> QED BY <2>8, <2>9, <2>11, <2>12, <2>13, TypePartsNext DEF Typed
<1>4. CASE call.op # "unregister"
  <2> DEFINE owner == OwnerAfter(call, ok)
             fence == IF ok THEN drv.fence + 1 ELSE drv.fence
  <2>1. /\ dev' = d /\ worker' = WokenByPoll(d)
        /\ drv' = [drv EXCEPT !.owner = owner, !.fence = fence]
        /\ call' \in CallAfter(call, ok, owner)
        /\ cause' = cause \cup (IF call.op = "cleanup" /\ ~ok THEN {"orphan"} ELSE {})
        /\ UNCHANGED <<accepted, done>>
    BY <1>4 DEF Finish
  <2>2. worker' \in {"asleep", "awake", "busy"} /\ (worker' = "busy" <=> worker = "busy")
    BY <1>2, <2>1, WakingKeeps DEF RestTyped
  <2>3. owner \in [Contexts -> Processes \cup {None}]
    <3>1. CASE owner = drv.owner
      BY <1>2, <3>1
    <3>2. CASE call.op = "create" /\ owner = [drv.owner EXCEPT ![call.cid] = call.pid]
      <4>1. call.pid \in Processes
        BY <3>2 DEF Typed, CallBounds
      <4> HIDE DEF owner
      <4> QED BY <1>2, <3>2, <4>1
    <3>3. CASE owner = [drv.owner EXCEPT ![call.cid] = None]
      <4> HIDE DEF owner
      <4> QED BY <1>2, <3>3
    <3> QED BY <3>1, <3>2, <3>3 DEF OwnerAfter
  <2>4. fence \in Fences \ {0} /\ fence \in Nat
    <3>0. call.op \in Submissions \cup {"register", "unregister"}
      BY CallFacts
    <3>1. CASE call.op = "cleanup"
      <4>1. OwnedBy(drv.owner, call.pid) \in SUBSET Contexts
        BY DEF OwnedBy
      <4>2. Cardinality(OwnedBy(drv.owner, call.pid)) \in Nat
        BY <4>1, ContextsFinite
      <4>3. drv.fence + Cardinality(OwnedBy(drv.owner, call.pid))
               <= MaxFence + Cardinality(Contexts)
        BY <3>1 DEF Typed, CallBounds
      <4> QED BY <1>2, <4>2, <4>3, FencesAre, BoundsAssumption
    <3>2. CASE call.op = "register"
      <4>1. drv.fence = 1
        BY <3>2 DEF Typed, CallBounds
      <4> QED BY <4>1, FencesAre
    <3>3. CASE call.op \notin {"cleanup", "register"}
      <4>1. drv.fence < MaxFence
        BY <1>4, <3>0, <3>3 DEF Typed, CallBounds, Submissions
      <4> QED BY <1>2, <4>1, FencesAre, BoundsAssumption
    <3> QED BY <3>1, <3>2, <3>3
  <2> HIDE DEF owner, fence
  <2>5. /\ drv' \in Driver /\ drv'.owner = owner /\ drv'.fence = fence
    BY <1>2, <2>1, <2>3, <2>4 DEF Driver
  <2>6. \/ call' = Idle
        \/ /\ call.op = "cleanup" /\ call' \in Calls /\ call'.op = "cleanup"
           /\ call'.pid = call.pid /\ call'.cid \in Contexts /\ owner[call'.cid] = call.pid
        \/ /\ call.op = "register" /\ ~ok /\ call' \in Calls /\ call'.op = "unregister"
    <3>1. \/ call' = Idle
          \/ /\ call.op = "cleanup"
             /\ \E x \in Contexts : /\ owner[x] = call.pid
                                     /\ call' = [call EXCEPT !.step = "post", !.cid = x]
          \/ call.op = "register" /\ ~ok /\ call' = [call EXCEPT !.op = "unregister", !.step = "post"]
      BY <1>2, <2>1, CallAfterIs, Zenon
    <3>2. ASSUME NEW x \in Contexts, call' = [call EXCEPT !.step = "post", !.cid = x]
          PROVE  call' \in Calls /\ call'.op = call.op /\ call'.pid = call.pid /\ call'.cid = x
      BY <1>2, <3>2 DEF Calls
    <3>3. ASSUME call' = [call EXCEPT !.op = "unregister", !.step = "post"]
          PROVE  call' \in Calls /\ call'.op = "unregister"
      BY <1>2, <3>3 DEF Calls
    <3> QED BY <3>1, <3>2, <3>3, Zenon
  <2>7. RestTyped'
    <3>1. cause' \subseteq {"backend", "invalid", "orphan", "moved"}
      BY <1>2, <2>1 DEF RestTyped
    <3> QED BY <1>2, <2>1, <2>2, <2>5, <2>6, <3>1 DEF RestTyped
  <2>8. DevTyped(dev)' /\ Counted(dev)' /\ RoomForResult'
    <3>1. DevTyped(dev)'
      BY <1>1, <2>1 DEF DevTyped
    <3>2. Counted(dev)'
      BY <1>1, <2>1, <2>2 DEF Counted, Executing
    <3>3. RoomForResult'
      <4>1. Len(d.fifo) \in Nat /\ FifoCapacity \in Nat
        BY <1>1, CapacityAssumption
      <4>2. (worker = "busy" /\ async) => Len(dev.fifo) < FifoCapacity
        BY DEF Typed, RoomForResult
      <4> QED BY <1>1, <1>2, <2>1, <2>2, <4>1, <4>2 DEF RoomForResult
    <3> QED BY <3>1, <3>2, <3>3
  <2>9. CallBounds'
    <3>1. CASE call' = Idle
      BY <3>1 DEF CallBounds
    <3>2. CASE call'.op = "unregister" /\ call.op = "register"
      <4>1. dev.gen < MaxGeneration
        BY <3>2 DEF Typed, CallBounds
      <4> QED BY <1>1, <2>1, <3>2, <4>1 DEF CallBounds, OnContexts
    <3>3. CASE /\ call.op = "cleanup" /\ call'.op = "cleanup" /\ call'.pid = call.pid
               /\ call'.cid \in Contexts /\ owner[call'.cid] = call.pid
      <4> DEFINE S == OwnedBy(drv.owner, call.pid)
                 T == OwnedBy(owner, call.pid)
      <4>1. /\ call.pid \in Processes /\ drv.owner[call.cid] = call.pid /\ call.cid \in Contexts
            /\ drv.fence + Cardinality(S) <= MaxFence + Cardinality(Contexts)
        BY <3>3 DEF Typed, CallBounds, OnContexts
      <4>2. owner = [drv.owner EXCEPT ![call.cid] = None]
        BY <3>3 DEF owner, OwnerAfter
      <4>3. T = S \ {call.cid} /\ call.cid \in S /\ S \in SUBSET Contexts
        BY <1>2, <4>1, <4>2, ProcessAssumption DEF OwnedBy
      <4> HIDE DEF S, T
      <4>4. IsFiniteSet(S) /\ Cardinality(S) \in Nat
        BY <4>3, ContextsFinite
      <4>5. Cardinality(T) = Cardinality(S) - 1
        BY <4>3, <4>4, FS_RemoveElement
      <4>6. drv'.fence <= drv.fence + 1
        BY <1>2, <2>5 DEF fence
      <4>7. drv'.fence + Cardinality(T) <= MaxFence + Cardinality(Contexts)
        BY <1>2, <2>4, <2>5, <4>1, <4>4, <4>5, <4>6, FencesAre, BoundsAssumption
      <4> QED BY <2>5, <3>3, <4>1, <4>7 DEF CallBounds, T
    <3> QED BY <2>6, <3>1, <3>2, <3>3
  <2> QED BY <2>7, <2>8, <2>9, TypePartsNext DEF Typed
<1> QED BY <1>3, <1>4

\* A step that leaves the queue and the worker's work alone, or cancels.
LEMMA QuietTyped ==
    ASSUME Typed, Shrunk(dev'), worker' = "busy" <=> worker = "busy",
           UNCHANGED <<work, async>>, RestTyped', CallBounds'
    PROVE  Typed'
<1>1. DevTyped(dev)' /\ Counted(dev)'
  BY DEF Shrunk, DevTyped, Counted, Executing
<1>2. RoomForResult'
  <2>1. /\ Len(dev.fifo) \in Nat /\ FifoCapacity \in Nat /\ Len(dev'.fifo) <= Len(dev.fifo)
    BY TypedFacts, CapacityAssumption DEF Shrunk
  <2>2. (worker = "busy" /\ async) => Len(dev.fifo) < FifoCapacity
    BY DEF Typed, RoomForResult
  <2>3. Len(dev'.fifo) \in Nat
    <3>1. dev'.fifo \in Seq(Results)
      BY DEF Shrunk, DevTyped, Device
    <3> QED BY <3>1
  <2> QED BY <2>1, <2>2, <2>3 DEF RoomForResult
<1> QED BY <1>1, <1>2, TypePartsNext DEF Typed

\* The device as it stands has no more work than itself.
LEMMA ShrunkNow == ASSUME Typed PROVE Shrunk(dev)
<1>1. Len(dev.fifo) \in Nat
  BY TypedFacts
<1> QED BY <1>1, TypedFacts DEF Shrunk

\* The call goes to its next step.
LEMMA StepTyped ==
    ASSUME Typed, call # Idle, NEW s \in {"post", "doorbell", "verify"},
           call' = [call EXCEPT !.step = s], dev'.gen = dev.gen, UNCHANGED drv
    PROVE  CallBounds' /\ call' \in Calls
<1>1. /\ call' \in Calls /\ call'.op = call.op /\ call'.cid = call.cid /\ call'.pid = call.pid
  BY CallFacts, Zenon
<1> QED BY <1>1 DEF Typed, CallBounds

\* The status is read, and the command is put in the ring or given up.
LEMMA PostTyped == ASSUME Typed, Post PROVE Typed'
<1> DEFINE d == IF current THEN Poll(dev) ELSE dev
<1>0. call # Idle /\ UNCHANGED <<async, work, current, failures, moves>>
  BY DEF Post
<1>1. Shrunk(d)
  BY PollTyped, ShrunkNow
<1>2. CASE current /\ d.ready /\ ~d.error
  <2>1. /\ dev' = [d EXCEPT !.posted = TRUE]
        /\ worker' = WokenByPoll(d)
        /\ call' = [call EXCEPT !.step = "doorbell"]
        /\ UNCHANGED <<drv, accepted, done, cause>>
    BY <1>2 DEF Post
  <2> HIDE DEF d
  <2>2. Shrunk(dev')
    BY <1>1, <2>1, FlagsShrunk
  <2>3. worker' \in {"asleep", "awake", "busy"} /\ (worker' = "busy" <=> worker = "busy")
    BY <2>1, WakingKeeps, TypedFacts DEF RestTyped
  <2>4. CallBounds' /\ call' \in Calls
    <3>1. dev'.gen = dev.gen
      BY <2>2 DEF Shrunk
    <3> QED BY <1>0, <2>1, <3>1, StepTyped
  <2>5. RestTyped'
    BY <1>0, <2>1, <2>3, <2>4, TypedFacts DEF RestTyped
  <2> QED BY <1>0, <2>2, <2>3, <2>4, <2>5, QuietTyped
<1>3. CASE ~(current /\ d.ready /\ ~d.error)
  <2>1. Finish(FALSE, d)
    BY <1>3 DEF Post
  <2> HIDE DEF d
  <2> QED BY <1>0, <1>1, <2>1, FinishTyped
<1> QED BY <1>2, <1>3

\* The status and the head are read after the doorbell.
LEMMA VerifyTyped == ASSUME Typed, Verify PROVE Typed'
<1> DEFINE d == Poll(dev)
           e == [d EXCEPT !.posted = FALSE]
           ok == ~d.posted /\ ~d.error
<1>0. call # Idle /\ UNCHANGED <<async, work, current, failures, moves>> /\ Finish(ok, e)
  BY DEF Verify
<1>1. Shrunk(d)
  BY PollTyped
<1>2. Shrunk(e)
  <2> HIDE DEF d
  <2> QED BY <1>1, FlagsShrunk
<1>3. ok \in BOOLEAN
  OBVIOUS
<1> HIDE DEF d, e, ok
<1> QED BY <1>0, <1>2, <1>3, FinishTyped

\* The machine polls.
LEMMA MachinePollsTyped == ASSUME Typed, MachinePolls PROVE Typed'
<1>1. /\ dev' = Poll(dev) /\ worker' = WokenByPoll(dev')
      /\ UNCHANGED <<async, work, drv, current, call, accepted, done, cause, failures, moves>>
  BY DEF MachinePolls
<1>2. Shrunk(dev')
  BY <1>1, PollTyped
<1>3. worker' \in {"asleep", "awake", "busy"} /\ (worker' = "busy" <=> worker = "busy")
  BY <1>1, WakingKeeps, TypedFacts DEF RestTyped
<1>4. CallBounds'
  BY <1>1, <1>2 DEF Typed, CallBounds, Shrunk
<1>5. RestTyped'
  BY <1>1, <1>3, TypedFacts DEF RestTyped
<1> QED BY <1>1, <1>2, <1>3, <1>4, <1>5, QuietTyped

\* The device takes the command or refuses it.
LEMMA DoorbellTyped == ASSUME Typed, Doorbell PROVE Typed'
<1>0. /\ call # Idle
      /\ call' = [call EXCEPT !.step = "verify"]
      /\ cause' = cause \cup (IF call.valid THEN {} ELSE {"invalid"})
      /\ UNCHANGED <<async, work, drv, current, done, failures, moves>>
  BY DEF Doorbell
<1>1. /\ call \in Calls /\ RestTyped /\ dev \in Device /\ drv.fence \in Fences /\ DevTyped(dev)
      /\ Counted(dev) /\ Len(dev.queue) \in Nat /\ dev.queue \in Seq(Works)
      /\ Presents(dev.queue) \in Nat /\ Executing \in {0, 1}
  BY <1>0, CallFacts, TypedFacts
<1>2. CASE Takes(dev, call)
  <2>1. /\ dev' = Taken(dev, call, drv.fence) /\ worker' = Signalled
        /\ accepted' = accepted \cup {drv.fence}
    BY <1>2 DEF Doorbell
  <2>2. call.op \in OnContexts => call.cid \in Contexts
    BY <1>0 DEF Typed, CallBounds
  <2>w. PICK w : w = [kind |-> KindOf(call.op), gen |-> dev.gen, fence |-> drv.fence]
    OBVIOUS
  <2>3. /\ dev' \in Device /\ w \in Works
        /\ dev'.queue = Append(dev.queue, w)
        /\ dev'.presents = (IF call.op = "present" THEN dev.presents + 1 ELSE dev.presents)
        /\ call.op = "create" => dev'.contexts = dev.contexts \cup {call.cid}
        /\ call.op \in {"destroy", "cleanup"} => dev'.contexts = dev.contexts \ {call.cid}
        /\ call.op \notin {"create", "destroy", "cleanup"} => dev'.contexts = dev.contexts
        /\ dev'.gen = dev.gen /\ dev'.fifo = dev.fifo
    <3>1. call.op \in {"create", "destroy", "cleanup"} => call.cid \in Contexts
      BY <2>2 DEF OnContexts
    <3>2. TakenAs(dev, call, w, dev')
      BY <1>1, <2>1, <2>w, <3>1, TakenIs, Zenon
    <3> QED BY <3>2 DEF TakenAs
  <2>4. IsPresent(w) = (IF call.op = "present" THEN 1 ELSE 0)
    BY <2>w DEF IsPresent, KindOf
  <2>5. Len(dev'.queue) <= QueueCapacity
    <3>1. Len(dev.queue) < QueueCapacity
      BY <1>2 DEF Takes, Admitted
    <3>2. Len(dev'.queue) = Len(dev.queue) + 1
      BY <1>1, <2>3
    <3> QED BY <1>1, <3>1, <3>2, CapacityAssumption
  <2>6. worker' \in {"asleep", "awake", "busy"} /\ (worker' = "busy" <=> worker = "busy")
    BY <1>1, <2>1, WakingKeeps DEF RestTyped
  <2>7. /\ Counted(dev)' /\ dev'.presents \in 0..PresentLimit
    <3>1. Executing' = Executing
      BY <1>0, <2>6 DEF Executing
    <3>2. Presents(dev'.queue) = Presents(dev.queue) + IsPresent(w)
      BY <1>1, <2>3, PresentsAppend
    <3>3. dev.presents = Presents(dev.queue) + Executing /\ dev.presents \in 0..PresentLimit
      BY <1>1 DEF Counted, DevTyped
    <3>4. call.op = "present" => dev.presents < PresentLimit
      BY <1>2 DEF Takes, Admitted
    <3> QED BY <1>1, <2>3, <2>4, <3>1, <3>2, <3>3, <3>4, CapacityAssumption DEF Counted
  <2>8. Cardinality(dev'.contexts) <= ContextCapacity
    <3>1. dev.contexts \in SUBSET Contexts /\ Cardinality(dev.contexts) <= ContextCapacity
      BY <1>1 DEF DevTyped, Device
    <3>2. IsFiniteSet(dev.contexts) /\ Cardinality(dev.contexts) \in Nat
      BY <3>1, ContextsFinite
    <3>3. CASE call.op = "create"
      <4>1. Cardinality(dev.contexts) < ContextCapacity
        BY <1>2, <3>3 DEF Takes, Executable
      <4>2. Cardinality(dev.contexts \cup {call.cid}) <= Cardinality(dev.contexts) + 1
        BY <3>2, FS_AddElement
      <4>3. Cardinality(dev.contexts \cup {call.cid}) \in Nat
        BY <3>2, FS_AddElement
      <4>4. dev'.contexts = dev.contexts \cup {call.cid}
        BY <2>3, <3>3
      <4> DEFINE m == Cardinality(dev.contexts)
                 n == Cardinality(dev.contexts \cup {call.cid})
      <4>5. m \in Nat /\ m < ContextCapacity /\ n <= m + 1 /\ n \in Nat
        BY <3>2, <4>1, <4>2, <4>3
      <4> HIDE DEF m, n
      <4>6. n <= ContextCapacity
        BY <4>5, CapacityAssumption
      <4> QED BY <4>4, <4>6 DEF n
    <3>4. CASE call.op \in {"destroy", "cleanup"}
      <4> DEFINE S == dev.contexts
                 T == dev.contexts \ {call.cid}
      <4>1. dev'.contexts = T /\ T \in SUBSET S
        BY <2>3, <3>4
      <4>2. IsFiniteSet(S) /\ Cardinality(S) \in Nat /\ Cardinality(S) <= ContextCapacity
        BY <3>1, <3>2
      <4> HIDE DEF S, T
      <4>3. Cardinality(T) <= Cardinality(S) /\ Cardinality(T) \in Nat
        BY <4>1, <4>2, FS_Subset, FS_CardinalityType
      <4> QED BY <4>1, <4>2, <4>3, CapacityAssumption
    <3> QED BY <2>3, <3>1, <3>3, <3>4
  <2>9. DevTyped(dev)'
    BY <1>0, <1>1, <2>3, <2>5, <2>7, <2>8 DEF DevTyped
  <2>10. RoomForResult'
    BY <1>0, <2>3, <2>6 DEF Typed, RoomForResult
  <2>11. CallBounds' /\ call' \in Calls
    BY <1>0, <2>3, StepTyped
  <2>12. RestTyped'
    <3>1. cause' \subseteq {"backend", "invalid", "orphan", "moved"} /\ accepted' \subseteq Fences
      BY <1>0, <1>1, <2>1 DEF RestTyped
    <3> QED BY <1>0, <1>1, <2>6, <2>11, <3>1 DEF RestTyped
  <2> QED BY <2>7, <2>9, <2>10, <2>11, <2>12, TypePartsNext DEF Typed
<1>3. CASE ~Takes(dev, call)
  <2>1. dev' = Refused(dev, call) /\ UNCHANGED <<worker, accepted>>
    BY <1>3 DEF Doorbell
  <2>2. /\ dev' \in Device /\ dev'.queue = dev.queue /\ dev'.presents = dev.presents
        /\ dev'.contexts = dev.contexts /\ dev'.gen = dev.gen /\ dev'.fifo = dev.fifo
    BY <1>1, <2>1, RefusedIs
  <2>3. Shrunk(dev')
    BY <2>2, ShrunkNow DEF Shrunk, DevTyped, Counted
  <2>4. CallBounds' /\ call' \in Calls
    BY <1>0, <2>2, StepTyped
  <2>5. RestTyped'
    <3>1. cause' \subseteq {"backend", "invalid", "orphan", "moved"}
      BY <1>0, <1>1 DEF RestTyped
    <3> QED BY <1>0, <1>1, <2>1, <2>4, <3>1 DEF RestTyped
  <2> QED BY <1>0, <2>1, <2>3, <2>4, <2>5, QuietTyped
<1> QED BY <1>2, <1>3

\* The driver binds to the device.
LEMMA BindTyped == ASSUME Typed, Bind PROVE Typed'
<1> DEFINE d == Poll(dev)
<1>0. /\ worker' = WokenByPoll(d)
      /\ dev' = IF d.ready THEN [d EXCEPT !.error = FALSE, !.posted = FALSE] ELSE d
      /\ drv' = [up |-> TRUE, ready |-> d.ready, fence |-> 1, owner |-> NoOwner]
      /\ call' = IF d.ready
                 THEN [op |-> "register", step |-> "post", cid |-> None,
                       pid |-> None, valid |-> TRUE]
                 ELSE Idle
      /\ current' = TRUE /\ dev.gen < MaxGeneration
      /\ UNCHANGED <<async, work, accepted, done, cause, failures, moves>>
  BY DEF Bind, Initialize3d
<1>1. Shrunk(d)
  BY PollTyped
<1> HIDE DEF d
<1>2. d \in Device /\ d.ready \in BOOLEAN /\ RestTyped
  BY <1>1, TypedFacts DEF Shrunk, DevTyped, Device
<1>3. /\ dev' \in Device /\ dev'.queue = d.queue /\ dev'.presents = d.presents
      /\ dev'.contexts = d.contexts /\ dev'.gen = d.gen /\ dev'.fifo = d.fifo
  BY <1>0, <1>2, ClearedIs, Zenon
<1>4. Shrunk(dev')
  BY <1>1, <1>3 DEF Shrunk, DevTyped, Counted
<1>5. worker' \in {"asleep", "awake", "busy"} /\ (worker' = "busy" <=> worker = "busy")
  BY <1>0, <1>2, WakingKeeps DEF RestTyped
<1>6. drv' \in Driver /\ drv'.fence = 1
  <2>1. NoOwner \in [Contexts -> Processes \cup {None}] /\ 1 \in Fences \ {0}
    BY FencesAre DEF NoOwner
  <2> HIDE DEF NoOwner
  <2> QED BY <1>0, <1>2, <2>1 DEF Driver
<1>7. call' \in Calls \cup {Idle} /\ (call' = Idle \/ call'.op = "register")
  BY <1>0 DEF Calls
<1>8. RestTyped'
  BY <1>0, <1>2, <1>5, <1>6, <1>7 DEF RestTyped
<1>9. CallBounds'
  <2>1. dev'.gen < MaxGeneration
    BY <1>0, <1>4 DEF Shrunk
  <2> QED BY <1>6, <1>7, <2>1 DEF CallBounds, OnContexts
<1> QED BY <1>0, <1>4, <1>5, <1>8, <1>9, QuietTyped

\* The driver gives the device up.
LEMMA ShutdownTyped == ASSUME Typed, Shutdown PROVE Typed'
<1>0. /\ dev.gen < MaxGeneration
      /\ \/ /\ drv' = [drv EXCEPT !.up = FALSE]
            /\ call' = [op |-> "unregister", step |-> "post", cid |-> None,
                        pid |-> None, valid |-> TRUE]
         \/ /\ drv' = [up |-> FALSE, ready |-> FALSE, fence |-> 1, owner |-> NoOwner]
            /\ call' = Idle
      /\ UNCHANGED <<async, dev, worker, work, current, accepted, done, cause, failures, moves>>
  BY DEF Shutdown
<1>1. RestTyped /\ drv \in Driver
  BY TypedFacts DEF RestTyped
<1>2. drv' \in Driver
  <2>1. NoOwner \in [Contexts -> Processes \cup {None}] /\ 1 \in Fences \ {0}
    BY FencesAre DEF NoOwner
  <2> HIDE DEF NoOwner
  <2>2. ASSUME drv' = [drv EXCEPT !.up = FALSE] PROVE drv' \in Driver
    BY <1>1, <2>2 DEF Driver
  <2>3. ASSUME drv' = [up |-> FALSE, ready |-> FALSE, fence |-> 1, owner |-> NoOwner]
        PROVE  drv' \in Driver
    BY <2>1, <2>3 DEF Driver
  <2> QED BY <1>0, <2>2, <2>3, Zenon
<1>3. call' \in Calls \cup {Idle} /\ (call' = Idle \/ call'.op = "unregister")
  <2> DEFINE c == [op |-> "unregister", step |-> "post", cid |-> None, pid |-> None, valid |-> TRUE]
  <2>1. c \in Calls /\ c.op = "unregister"
    BY DEF Calls
  <2>2. call' = c \/ call' = Idle
    BY <1>0, Zenon
  <2> HIDE DEF c
  <2> QED BY <2>1, <2>2
<1>4. RestTyped'
  BY <1>0, <1>1, <1>2, <1>3 DEF RestTyped
<1>5. CallBounds'
  BY <1>0, <1>3 DEF CallBounds, OnContexts
<1>6. Shrunk(dev')
  BY <1>0, ShrunkNow
<1> QED BY <1>0, <1>4, <1>5, <1>6, QuietTyped

\* The device is moved.
LEMMA MoveTyped == ASSUME Typed, Move PROVE Typed'
<1>0. /\ moves < MaxMoves /\ moves' = moves + 1 /\ current' = FALSE
      /\ cause' = cause \cup {"moved"}
      /\ UNCHANGED <<async, dev, worker, work, drv, call, accepted, done, failures>>
  BY DEF Move
<1>1. RestTyped'
  <2>1. moves \in 0..MaxMoves /\ RestTyped
    BY TypedFacts DEF RestTyped
  <2>2. moves' \in 0..MaxMoves
    BY <1>0, <2>1, BoundsAssumption
  <2>3. cause' \subseteq {"backend", "invalid", "orphan", "moved"} /\ current' \in BOOLEAN
    BY <1>0, <2>1 DEF RestTyped
  <2> QED BY <1>0, <2>1, <2>2, <2>3 DEF RestTyped
<1>2. CallBounds'
  BY <1>0 DEF Typed, CallBounds
<1>3. Shrunk(dev')
  BY <1>0, ShrunkNow
<1> QED BY <1>0, <1>1, <1>2, <1>3, QuietTyped

\* The worker finds nothing it may take.
LEMMA WorkerSleepsTyped == ASSUME Typed, WorkerSleeps PROVE Typed'
<1>0. /\ worker = "awake" /\ worker' = "asleep"
      /\ UNCHANGED <<async, dev, work, drv, current, call, accepted, done, cause,
                     failures, moves>>
  BY DEF WorkerSleeps
<1>1. RestTyped'
  BY <1>0, TypedFacts DEF RestTyped
<1>2. CallBounds'
  BY <1>0 DEF Typed, CallBounds
<1>3. Shrunk(dev')
  BY <1>0, ShrunkNow
<1> QED BY <1>0, <1>1, <1>2, <1>3, QuietTyped

\* The worker takes the head of the queue.
LEMMA TailIs ==
    ASSUME NEW d \in Device, d.queue # <<>>, NEW p, p = [d EXCEPT !.queue = Tail(@)]
    PROVE  /\ p \in Device /\ p.queue = Tail(d.queue) /\ Head(d.queue) \in Works
           /\ Len(p.queue) = Len(d.queue) - 1 /\ Len(d.queue) \in Nat \ {0}
           /\ Presents(p.queue) = Presents(d.queue) - IsPresent(Head(d.queue))
           /\ p.presents = d.presents /\ p.region = d.region /\ p.posted = d.posted
           /\ p.contexts = d.contexts /\ p.gen = d.gen /\ p.fifo = d.fifo
           /\ p.ready = d.ready /\ p.poisoned = d.poisoned /\ p.completed = d.completed
           /\ p.pendingFence = d.pendingFence /\ p.resetPending = d.resetPending
           /\ p.resetCompleted = d.resetCompleted /\ p.error = d.error
<1>1. d.queue \in Seq(Works)
  BY DEF Device
<1> DEFINE t == Tail(d.queue)
<1>2. /\ t \in Seq(Works) /\ Head(d.queue) \in Works /\ Len(t) = Len(d.queue) - 1
      /\ Len(d.queue) \in Nat \ {0}
  BY <1>1, EmptySeq, HeadTailProperties
<1>3. Presents(t) = Presents(d.queue) - IsPresent(Head(d.queue))
  BY <1>1, PresentsTail
<1>4. p = [d EXCEPT !.queue = t]
  BY DEF Device
<1> HIDE DEF t
<1>5. /\ p \in Device /\ p.queue = t
      /\ p.presents = d.presents /\ p.region = d.region /\ p.posted = d.posted
      /\ p.contexts = d.contexts /\ p.gen = d.gen /\ p.fifo = d.fifo
      /\ p.ready = d.ready /\ p.poisoned = d.poisoned /\ p.completed = d.completed
      /\ p.pendingFence = d.pendingFence /\ p.resetPending = d.resetPending
      /\ p.resetCompleted = d.resetCompleted /\ p.error = d.error
  BY <1>2, <1>4 DEF Device
<1> QED BY <1>2, <1>3, <1>5 DEF t

\* The worker takes a command, and a place in the FIFO for its result.
LEMMA WorkerTakesTyped == ASSUME Typed, WorkerTakes PROVE Typed'
<1>0. /\ worker = "awake" /\ worker' = "busy" /\ work' = Head(dev.queue)
      /\ dev' = [dev EXCEPT !.queue = Tail(@)] /\ dev.queue # <<>>
      /\ async => Len(dev.fifo) < FifoCapacity
      /\ UNCHANGED <<async, drv, current, call, accepted, done, cause, failures, moves>>
  BY DEF WorkerTakes, MayTake
<1>1. /\ DevTyped(dev) /\ RestTyped /\ Counted(dev) /\ dev \in Device
      /\ Presents(dev.queue) \in Nat /\ dev.presents \in 0..PresentLimit
  BY TypedFacts
<1>2. /\ dev' \in Device /\ Head(dev.queue) \in Works
      /\ Len(dev'.queue) = Len(dev.queue) - 1 /\ Len(dev.queue) \in Nat \ {0}
      /\ Presents(dev'.queue) = Presents(dev.queue) - IsPresent(Head(dev.queue))
      /\ dev'.presents = dev.presents /\ dev'.contexts = dev.contexts /\ dev'.gen = dev.gen
      /\ dev'.fifo = dev.fifo
  BY <1>0, <1>1, TailIs
<1>3. Executing = 0 /\ Executing' = IsPresent(Head(dev.queue)) /\ IsPresent(Head(dev.queue)) \in {0, 1}
  BY <1>0 DEF Executing, IsPresent
<1>4. Counted(dev)'
  <2>1. dev.presents = Presents(dev.queue)
    BY <1>1, <1>3 DEF Counted
  <2> QED BY <1>1, <1>2, <1>3, <2>1 DEF Counted
<1>5. DevTyped(dev)'
  <2>1. Len(dev'.queue) <= QueueCapacity
    BY <1>1, <1>2, CapacityAssumption DEF DevTyped
  <2> QED BY <1>0, <1>1, <1>2, <2>1 DEF DevTyped
<1>6. RestTyped'
  BY <1>0, <1>1, <1>2 DEF RestTyped
<1>7. RoomForResult'
  BY <1>0, <1>2 DEF RoomForResult
<1>8. CallBounds'
  BY <1>0, <1>2 DEF Typed, CallBounds
<1> QED BY <1>4, <1>5, <1>6, <1>7, <1>8, TypePartsNext DEF Typed

\* The present that was executed is counted no longer.
ReleasedAs(d, k, p) ==
    /\ p \in Device /\ p.queue = d.queue
    /\ p.presents = (IF k = "present" THEN d.presents - 1 ELSE d.presents)
    /\ p.region = d.region /\ p.posted = d.posted
    /\ p.contexts = d.contexts /\ p.gen = d.gen /\ p.fifo = d.fifo
    /\ p.ready = d.ready /\ p.poisoned = d.poisoned /\ p.completed = d.completed
    /\ p.pendingFence = d.pendingFence /\ p.resetPending = d.resetPending
    /\ p.resetCompleted = d.resetCompleted /\ p.error = d.error

\* A present that was executed is counted no more.
LEMMA ReleasedIs ==
    ASSUME NEW d \in Device, NEW k,
           NEW p, p = (IF k = "present" THEN [d EXCEPT !.presents = @ - 1] ELSE d)
    PROVE  ReleasedAs(d, k, p)
BY DEF Device, ReleasedAs

\* How the end of the work w in the state s leaves the device.
EndedAs(d, w, s, p) ==
    /\ p \in Device
    /\ p.region = d.region /\ p.posted = d.posted /\ p.contexts = d.contexts
    /\ p.gen = d.gen /\ p.ready = d.ready /\ p.completed = d.completed
    /\ p.resetPending = d.resetPending /\ p.error = d.error
    /\ \/ /\ p.queue = d.queue /\ p.presents = d.presents /\ p.fifo = d.fifo
          /\ p.poisoned = d.poisoned
          /\ \/ /\ ~Counts(w)
                /\ p.pendingFence = d.pendingFence /\ p.resetCompleted = d.resetCompleted
             \/ /\ Counts(w) /\ ~async /\ s # "failed"
                /\ p.pendingFence = (IF w.fence # 0 THEN w.fence ELSE d.pendingFence)
                /\ p.resetCompleted = (d.resetCompleted \/ w.kind = "reset")
       \/ /\ Counts(w) /\ async
          /\ p.queue = d.queue /\ p.presents = d.presents
          /\ p.fifo = Append(d.fifo, [kind |-> w.kind, fence |-> w.fence,
                                      status |-> s, gpu |-> s])
          /\ p.poisoned = d.poisoned
          /\ p.pendingFence = d.pendingFence /\ p.resetCompleted = d.resetCompleted
       \/ /\ Counts(w) /\ ~async /\ s = "failed"
          /\ p.queue = <<>> /\ p.presents = d.presents - Presents(d.queue) /\ p.fifo = d.fifo
          /\ p.poisoned = TRUE
          /\ p.pendingFence = d.pendingFence /\ p.resetCompleted = FALSE

\* The device after a round of gsw3d_worker_proc.
LEMMA EndedIs ==
    ASSUME NEW d \in Device, NEW w \in Works, NEW s \in {"complete", "pending", "failed"},
           NEW p, p = Ended(d, w, s)
    PROVE  EndedAs(d, w, s, p)
<1>1. CASE ~Counts(w)
  <2>1. p = d
    BY <1>1 DEF Ended
  <2> QED BY <1>1, <2>1 DEF EndedAs
<1>2. CASE Counts(w) /\ async
  <2> DEFINE r == [kind |-> w.kind, fence |-> w.fence, status |-> s, gpu |-> s]
             f == Append(d.fifo, r)
  <2>1. r \in Results
    BY DEF Results, Works
  <2>2. f \in Seq(Results)
    <3> HIDE DEF r
    <3> QED BY <2>1 DEF Device
  <2>3. p = [d EXCEPT !.fifo = f]
    BY <1>2 DEF Ended, Pushed, Device
  <2> HIDE DEF f
  <2>4. /\ p \in Device
        /\ p.region = d.region /\ p.posted = d.posted /\ p.contexts = d.contexts
        /\ p.gen = d.gen /\ p.ready = d.ready /\ p.completed = d.completed
        /\ p.resetPending = d.resetPending /\ p.error = d.error
        /\ p.queue = d.queue /\ p.presents = d.presents /\ p.fifo = f
        /\ p.poisoned = d.poisoned
        /\ p.pendingFence = d.pendingFence /\ p.resetCompleted = d.resetCompleted
    BY <2>2, <2>3 DEF Device
  <2> QED BY <1>2, <2>4, Zenon DEF EndedAs, f
<1>3. CASE Counts(w) /\ ~async /\ s = "failed"
  <2>1. p = Poison(d)
    BY <1>3 DEF Ended
  <2> QED BY <1>3, <2>1, PoisonIs, Zenon DEF EndedAs
<1>4. CASE Counts(w) /\ ~async /\ s # "failed"
  <2> DEFINE rc == d.resetCompleted \/ w.kind = "reset"
             pf == IF w.fence # 0 THEN w.fence ELSE d.pendingFence
  <2>1. p = [d EXCEPT !.resetCompleted = rc, !.pendingFence = pf]
    BY <1>4 DEF Ended, Device
  <2>2. rc \in BOOLEAN /\ pf \in Fences
    BY DEF Works, Device
  <2> HIDE DEF rc, pf
  <2>3. /\ p \in Device
        /\ p.region = d.region /\ p.posted = d.posted /\ p.contexts = d.contexts
        /\ p.gen = d.gen /\ p.ready = d.ready /\ p.completed = d.completed
        /\ p.resetPending = d.resetPending /\ p.error = d.error
        /\ p.queue = d.queue /\ p.presents = d.presents /\ p.fifo = d.fifo
        /\ p.poisoned = d.poisoned
        /\ p.pendingFence = pf /\ p.resetCompleted = rc
    BY <2>1, <2>2 DEF Device
  <2> QED BY <1>4, <2>3, Zenon DEF EndedAs, rc, pf
<1> QED BY <1>1, <1>2, <1>3, <1>4

\* The worker leaves its result in that place.
LEMMA WorkerEndsTyped ==
    ASSUME Typed, NEW s \in {"complete", "pending", "failed"}, WorkerEnds(s)
    PROVE  Typed'
<1>d. PICK d : d = IF work.kind = "present" THEN [dev EXCEPT !.presents = @ - 1] ELSE dev
  OBVIOUS
<1>0. /\ worker = "busy" /\ worker' = "awake" /\ work' = NoWork
      /\ s = "failed" => failures < MaxFailures
      /\ dev' = Ended(d, work, s)
      /\ failures' = IF s = "failed" THEN failures + 1 ELSE failures
      /\ done' = IF s = "complete" /\ work.gen = dev.gen THEN done \cup {work.fence} ELSE done
      /\ cause' = IF s = "failed" /\ work.gen = dev.gen THEN cause \cup {"backend"} ELSE cause
      /\ UNCHANGED <<async, drv, current, call, accepted, moves>>
  BY <1>d DEF WorkerEnds
<1>1. /\ DevTyped(dev) /\ RestTyped /\ Counted(dev) /\ dev \in Device
      /\ Presents(dev.queue) \in Nat /\ dev.presents \in 0..PresentLimit
      /\ dev.fifo \in Seq(Results) /\ Len(dev.fifo) \in Nat /\ work \in Works
      /\ dev.queue \in Seq(Works) /\ Len(dev.queue) \in Nat
  BY TypedFacts DEF RestTyped
<1>2. /\ d \in Device /\ d.queue = dev.queue
      /\ d.presents = (IF work.kind = "present" THEN dev.presents - 1 ELSE dev.presents)
      /\ d.contexts = dev.contexts /\ d.gen = dev.gen /\ d.fifo = dev.fifo
  <2>1. ReleasedAs(dev, work.kind, d)
    BY <1>d, <1>1, ReleasedIs, Zenon
  <2> QED BY <2>1 DEF ReleasedAs
<1>3. d.presents = Presents(dev.queue) /\ d.presents \in 0..PresentLimit
  <2>1. dev.presents = Presents(dev.queue) + (IF work.kind = "present" THEN 1 ELSE 0)
    BY <1>0, <1>1 DEF Counted, Executing
  <2> QED BY <1>1, <1>2, <2>1, CapacityAssumption
<1>4. EndedAs(d, work, s, dev')
  BY <1>0, <1>1, <1>2, EndedIs, Zenon
<1>5. /\ dev' \in Device /\ dev'.contexts = dev.contexts /\ dev'.gen = dev.gen
  BY <1>2, <1>4 DEF EndedAs
<1>6. Executing' = 0
  BY <1>0 DEF Executing
<1>7. /\ Counted(dev)' /\ dev'.presents \in 0..PresentLimit
      /\ Len(dev'.queue) <= Len(dev.queue) /\ Len(dev'.queue) \in Nat
  <2>1. CASE dev'.queue = d.queue /\ dev'.presents = d.presents
    BY <1>1, <1>2, <1>3, <1>6, <2>1 DEF Counted
  <2>2. CASE dev'.queue = <<>> /\ dev'.presents = d.presents - Presents(d.queue)
    <3>1. dev'.presents = 0
      BY <1>1, <1>2, <1>3, <2>2
    <3>2. Len(dev'.queue) = 0
      BY <2>2
    <3> QED BY <1>1, <1>6, <2>2, <3>1, <3>2, PresentsEmpty, CapacityAssumption DEF Counted
  <2> QED BY <1>4, <2>1, <2>2 DEF EndedAs
<1>8. Len(dev'.fifo) <= (IF async THEN FifoCapacity ELSE 0)
  <2>1. Len(dev.fifo) <= (IF async THEN FifoCapacity ELSE 0)
    BY <1>1 DEF DevTyped
  <2>2. CASE dev'.fifo = d.fifo
    BY <1>2, <2>1, <2>2
  <2>3. CASE async /\ dev'.fifo = Append(d.fifo, [kind |-> work.kind, fence |-> work.fence,
                                                  status |-> s, gpu |-> s])
    <3>1. Len(dev'.fifo) = Len(dev.fifo) + 1
      BY <1>1, <1>2, <2>3
    <3>2. Len(dev.fifo) < FifoCapacity
      BY <1>0, <2>3 DEF Typed, RoomForResult
    <3> QED BY <1>1, <2>3, <3>1, <3>2, CapacityAssumption
  <2> QED BY <1>4, <2>2, <2>3 DEF EndedAs
<1>9. DevTyped(dev)'
  <2>1. Len(dev'.queue) <= QueueCapacity
    <3>1. Len(dev.queue) <= QueueCapacity
      BY <1>1 DEF DevTyped
    <3> QED BY <1>1, <1>7, <3>1, CapacityAssumption
  <2> QED BY <1>0, <1>1, <1>5, <1>7, <1>8, <2>1 DEF DevTyped
<1>10. RestTyped'
  <2>1. failures' \in 0..MaxFailures
    <3>1. failures \in 0..MaxFailures
      BY <1>1 DEF RestTyped
    <3> QED BY <1>0, <3>1, BoundsAssumption
  <2>2. NoWork \in Works
    BY FencesAre, BoundsAssumption DEF NoWork, Works, Kinds
  <2>3. work.fence \in Fences
    BY <1>1 DEF Works
  <2>4. done' \subseteq Fences /\ cause' \subseteq {"backend", "invalid", "orphan", "moved"}
    BY <1>0, <1>1, <2>3 DEF RestTyped
  <2> QED BY <1>0, <1>1, <2>1, <2>2, <2>4 DEF RestTyped
<1>11. RoomForResult'
  BY <1>0 DEF RoomForResult
<1>12. CallBounds'
  BY <1>0, <1>5 DEF Typed, CallBounds
<1> QED BY <1>7, <1>9, <1>10, <1>11, <1>12, TypePartsNext DEF Typed

\* The answer of the backend to one result.
AnsweredAs(d, i, s, p) ==
    /\ p \in Device /\ Len(p.fifo) = Len(d.fifo)
    /\ \A j \in 1..Len(d.fifo) : j # i => p.fifo[j] = d.fifo[j]
    /\ p.fifo[i].kind = d.fifo[i].kind /\ p.fifo[i].fence = d.fifo[i].fence
    /\ p.fifo[i].status = d.fifo[i].status /\ p.fifo[i].gpu = s
    /\ p.queue = d.queue /\ p.presents = d.presents /\ p.region = d.region
    /\ p.posted = d.posted /\ p.contexts = d.contexts /\ p.gen = d.gen
    /\ p.ready = d.ready /\ p.poisoned = d.poisoned /\ p.completed = d.completed
    /\ p.pendingFence = d.pendingFence /\ p.resetPending = d.resetPending
    /\ p.resetCompleted = d.resetCompleted /\ p.error = d.error

\* The device after an answer of the renderer.
LEMMA AnsweredIs ==
    ASSUME NEW d \in Device, NEW i \in 1..Len(d.fifo), NEW s \in {"complete", "failed"},
           NEW p, p = [d EXCEPT !.fifo[i].gpu = s]
    PROVE  AnsweredAs(d, i, s, p)
<1>1. d.fifo \in Seq(Results)
  BY DEF Device
<1> DEFINE f == d.fifo
           r == [f[i] EXCEPT !.gpu = s]
           g == [f EXCEPT ![i] = r]
<1>2. /\ f[i] \in Results /\ Len(f) \in Nat /\ DOMAIN f = 1..Len(f)
      /\ f \in [1..Len(f) -> Results]
  BY <1>1
<1>3. /\ r \in Results /\ r.kind = f[i].kind /\ r.fence = f[i].fence
      /\ r.status = f[i].status /\ r.gpu = s
  BY <1>2 DEF Results
<1>4. p = [d EXCEPT !.fifo = g]
  BY DEF Device
<1> HIDE DEF r
<1>5. g \in Seq(Results) /\ Len(g) = Len(f) /\ g[i] = r /\ \A j \in 1..Len(f) : j # i => g[j] = f[j]
  <2> HIDE DEF f
  <2> QED BY <1>1, <1>2, <1>3, ExceptSeq DEF f
<1> HIDE DEF g
<1>6. /\ p \in Device /\ p.fifo = g
      /\ p.queue = d.queue /\ p.presents = d.presents /\ p.region = d.region
      /\ p.posted = d.posted /\ p.contexts = d.contexts /\ p.gen = d.gen
      /\ p.ready = d.ready /\ p.poisoned = d.poisoned /\ p.completed = d.completed
      /\ p.pendingFence = d.pendingFence /\ p.resetPending = d.resetPending
      /\ p.resetCompleted = d.resetCompleted /\ p.error = d.error
  BY <1>4, <1>5 DEF Device
<1> QED BY <1>3, <1>5, <1>6 DEF AnsweredAs

\* The renderer answers.
LEMMA BackendTyped ==
    ASSUME Typed, NEW i \in DOMAIN dev.fifo, NEW s \in {"complete", "failed"}, BackendSettles(i, s)
    PROVE  Typed'
<1>0. /\ s = "failed" => failures < MaxFailures
      /\ dev' = [dev EXCEPT !.fifo[i].gpu = s]
      /\ failures' = IF s = "failed" THEN failures + 1 ELSE failures
      /\ done' = IF s = "complete" THEN done \cup {dev.fifo[i].fence} ELSE done
      /\ cause' = IF s = "failed" THEN cause \cup {"backend"} ELSE cause
      /\ UNCHANGED <<async, worker, work, drv, current, call, accepted, moves>>
  BY DEF BackendSettles
<1>1. /\ RestTyped /\ dev \in Device /\ dev.fifo \in Seq(Results) /\ i \in 1..Len(dev.fifo)
  BY TypedFacts
<1>2. /\ dev' \in Device /\ Len(dev'.fifo) = Len(dev.fifo)
      /\ dev'.queue = dev.queue /\ dev'.presents = dev.presents
      /\ dev'.contexts = dev.contexts /\ dev'.gen = dev.gen
  <2>1. AnsweredAs(dev, i, s, dev')
    BY <1>0, <1>1, AnsweredIs, Zenon
  <2> QED BY <2>1 DEF AnsweredAs
<1>3. Shrunk(dev')
  BY <1>2, ShrunkNow DEF Shrunk, DevTyped, Counted
<1>4. RestTyped'
  <2>1. failures' \in 0..MaxFailures
    <3>1. failures \in 0..MaxFailures
      BY <1>1 DEF RestTyped
    <3> QED BY <1>0, <3>1, BoundsAssumption
  <2>2. dev.fifo[i].fence \in Fences
    <3>1. dev.fifo[i] \in Results
      BY <1>1
    <3> QED BY <3>1 DEF Results
  <2>3. done' \subseteq Fences /\ cause' \subseteq {"backend", "invalid", "orphan", "moved"}
    BY <1>0, <1>1, <2>2 DEF RestTyped
  <2> QED BY <1>0, <1>1, <2>1, <2>3 DEF RestTyped
<1>5. CallBounds'
  BY <1>0, <1>2 DEF Typed, CallBounds
<1> QED BY <1>0, <1>3, <1>4, <1>5, QuietTyped

\* Nothing happens.
LEMMA StutterTyped == ASSUME Typed, UNCHANGED vars PROVE Typed'
<1>0. UNCHANGED <<async, dev, worker, work, drv, current, call, accepted, done, cause,
                  failures, moves>>
  BY DEF vars
<1>1. RestTyped' /\ CallBounds'
  BY <1>0, TypedFacts DEF RestTyped, Typed, CallBounds
<1>2. Shrunk(dev')
  BY <1>0, ShrunkNow
<1> QED BY <1>0, <1>1, <1>2, QuietTyped

\* The machine starts with the type.
LEMMA InitTyped == Init => Typed
<1> SUFFICES ASSUME Init PROVE Typed
  OBVIOUS
<1> DEFINE d == [ready |-> TRUE, error |-> FALSE, poisoned |-> FALSE, gen |-> 1,
              resetPending |-> FALSE, resetCompleted |-> FALSE, pendingFence |-> 0,
              completed |-> 0, region |-> FALSE, contexts |-> {}, queue |-> <<>>,
              fifo |-> <<>>, presents |-> 0, posted |-> FALSE]
<1>1. 0 \in Fences /\ 1 \in Fences \ {0} /\ 1 \in 1..MaxGeneration
  BY FencesAre, BoundsAssumption
<1>2. d \in Device
  BY <1>1 DEF Device
<1>3. dev = d
  BY DEF Init
<1>4. Len(dev.queue) = 0 /\ Len(dev.fifo) = 0 /\ Cardinality(dev.contexts) = 0 /\ dev.presents = 0
      /\ dev.queue = <<>>
  BY <1>3, FS_EmptySet
<1> HIDE DEF d
<1>5. DevTyped(dev)
  BY <1>2, <1>3, <1>4, CapacityAssumption DEF DevTyped
<1>6. worker = "awake" /\ work = NoWork /\ call = Idle /\ current = TRUE
      /\ accepted = {} /\ done = {} /\ cause = {} /\ failures = 0 /\ moves = 0 /\ async \in BOOLEAN
      /\ drv = [up |-> FALSE, ready |-> FALSE, fence |-> 1, owner |-> NoOwner]
  BY DEF Init
<1>7. RestTyped
  <2>1. NoWork \in Works
    BY <1>1 DEF NoWork, Works, Kinds
  <2>2. drv \in Driver
    BY <1>1, <1>6 DEF Driver, NoOwner
  <2> QED BY <1>6, <2>1, <2>2, BoundsAssumption DEF RestTyped
<1>8. Counted(dev)
  BY <1>4, <1>6, PresentsEmpty DEF Counted, Executing
<1>9. RoomForResult /\ CallBounds
  BY <1>6 DEF RoomForResult, CallBounds
<1> QED BY <1>5, <1>7, <1>8, <1>9, TypeParts, CountedIs DEF Typed

\* Every step keeps the type.
LEMMA NextTyped == ASSUME Typed, [Next]_vars PROVE Typed'
<1>1. CASE ContextCall \/ WorkCall
  BY <1>1, CallsTyped
<1>2. CASE Post \/ Doorbell \/ Verify
  BY <1>2, PostTyped, DoorbellTyped, VerifyTyped
<1>3. CASE Bind \/ Shutdown \/ Move \/ MachinePolls
  BY <1>3, BindTyped, ShutdownTyped, MoveTyped, MachinePollsTyped
<1>4. CASE Worker
  BY <1>4, WorkerSleepsTyped, WorkerTakesTyped, WorkerEndsTyped DEF Worker
<1>5. CASE Backend
  BY <1>5, BackendTyped DEF Backend
<1>6. CASE UNCHANGED vars
  BY <1>6, StutterTyped
<1> QED BY <1>1, <1>2, <1>3, <1>4, <1>5, <1>6 DEF Next

\* The inductive type invariant: beside the type, the presents are counted, a
\* worker that is busy has a place in the FIFO for its result (MayTake looked for
\* it before the command was taken), and the fence of a call is one that its loop
\* may still use up.
THEOREM AlwaysTyped == Spec => []Typed
BY InitTyped, NextTyped, PTL DEF Spec

\* The queue, the FIFO and the table of contexts of gsw3d never grow past their
\* capacities, though the worker adds its result long after it looked for a place
\* and gsw3d_completion_push_locked checks nothing.
THEOREM TypeCorrect == Spec => []TypeOK
<1>1. Typed => TypeOK
  BY DEF Typed
<1> QED BY <1>1, AlwaysTyped, PTL

\* queued_presents, which gsw3d_queue_owned compares with its limit, is the
\* number of presents that are queued or executed: gsw3d_cancel_queued, the end of
\* a command and a reset while the worker is busy neither lose one nor count one
\* twice.
THEOREM PresentsCounted == Spec => []PresentsAreCounted
<1>1. Typed => PresentsAreCounted
  BY DEF Typed
<1> QED BY <1>1, AlwaysTyped, PTL

-----------------------------------------------------------------------------
(* What the device holds: the work of its generation, and why it failed.     *)

\* What is queued, executed or waits in the FIFO belongs to the device's
\* generation, a failure has the backend for its cause, and a device that
\* failed holds nothing.
Sound(d) ==
    /\ \A i \in 1..Len(d.queue) :
          /\ d.queue[i].gen = d.gen
          /\ d.queue[i].kind = "reset" => d.queue[i].fence = 0
    /\ work.gen <= d.gen
    /\ work.kind = "reset" => work.fence = 0
    /\ \A i \in 1..Len(d.fifo) :
          /\ d.fifo[i].kind = "reset" => d.fifo[i].fence = 0
          /\ d.fifo[i].gpu = "failed" => "backend" \in cause
          /\ d.fifo[i].gpu = "complete" => d.fifo[i].fence \in done
          /\ d.fifo[i].status # "pending" => d.fifo[i].status = d.fifo[i].gpu
    /\ d.poisoned => /\ d.queue = <<>> /\ d.fifo = <<>> /\ ~d.resetCompleted
                     /\ "backend" \in cause
    /\ d.ready => ~d.resetPending

\* The driver's side of the binding.
Bound ==
    /\ ~current => "moved" \in cause
    /\ ~drv.up /\ call = Idle => ~drv.ready
    /\ call # Idle => drv.ready
    /\ call # Idle /\ call.op # "unregister" => drv.up
    /\ call # Idle /\ call.op \in {"register", "unregister"} => current

\* The work of this generation that the worker executes.
Mine(d) == IF worker = "busy" /\ work.gen = d.gen THEN 1 ELSE 0

InFlight(d) == Len(d.fifo) + Mine(d) + Len(d.queue)

\* k commands were accepted; the fences in flight are the last of them, in
\* order, and all before them are done.
Ordered(d, k) ==
    /\ ~d.poisoned =>
         /\ \A i \in 1..Len(d.queue) : d.queue[i].fence = k - Len(d.queue) + i
         /\ Mine(d) = 1 => work.fence = k - Len(d.queue)
         /\ \A i \in 1..Len(d.fifo) : d.fifo[i].fence = k - InFlight(d) + i
         /\ InFlight(d) <= k + 1
         /\ d.ready \/ d.resetCompleted => InFlight(d) <= k
         /\ d.pendingFence # 0 => d.pendingFence <= k - InFlight(d)
         /\ d.completed # 0 => d.completed <= k - InFlight(d)
         /\ \A j \in 1..(k - InFlight(d)) : j \in done
    /\ d.poisoned => /\ d.pendingFence # 0 => d.pendingFence < k
                     /\ d.completed # 0 => d.completed < k
    /\ \A j \in 1..d.pendingFence : j \in done
    /\ \A j \in 1..d.completed : j \in done

\* The numbers of the work in flight.
LEMMA MineType ==
    ASSUME NEW d \in Device
    PROVE  /\ Mine(d) \in {0, 1} /\ Len(d.fifo) \in Nat /\ Len(d.queue) \in Nat
           /\ InFlight(d) \in Nat /\ InFlight(d) = Len(d.fifo) + Mine(d) + Len(d.queue)
           /\ d.fifo \in Seq(Results) /\ d.queue \in Seq(Works)
           /\ d.pendingFence \in Nat /\ d.completed \in Nat /\ d.gen \in Nat
<1>1. d.fifo \in Seq(Results) /\ d.queue \in Seq(Works)
  BY DEF Device
<1>2. Mine(d) \in {0, 1}
  BY DEF Mine
<1>3. Len(d.fifo) \in Nat /\ Len(d.queue) \in Nat
  BY <1>1
<1>4. d.pendingFence \in Nat /\ d.completed \in Nat /\ d.gen \in Nat
  <2>1. d.pendingFence \in Fences /\ d.completed \in Fences /\ d.gen \in 1..MaxGeneration
    BY DEF Device
  <2> QED BY <2>1, FencesAre, BoundsAssumption
<1> QED BY <1>1, <1>2, <1>3, <1>4 DEF InFlight

\* The flags of the ring do not matter to what the device holds.
SameWork(d, p) ==
    /\ p.queue = d.queue /\ p.fifo = d.fifo /\ p.gen = d.gen /\ p.poisoned = d.poisoned
    /\ p.resetCompleted = d.resetCompleted /\ p.resetPending = d.resetPending
    /\ p.ready = d.ready /\ p.pendingFence = d.pendingFence /\ p.completed = d.completed

\* Soundness and order are about the work of the device only.
LEMMA SameIsSound ==
    ASSUME NEW d, NEW p, SameWork(d, p)
    PROVE  /\ Sound(d) => Sound(p)
           /\ \A k : Ordered(d, k) => Ordered(p, k)
BY Zenon DEF SameWork, Sound, Ordered, InFlight, Mine

\* What is true of the device stays true while the histories grow.
LEMMA SoundNext ==
    ASSUME NEW d, dev' = d, Sound(d), worker' = "busy" <=> worker = "busy",
           UNCHANGED work, done \subseteq done', cause \subseteq cause'
    PROVE  /\ Sound(dev)'
           /\ \A k : Ordered(d, k) => Ordered(dev, k)'
<1>1. Sound(dev)'
  BY DEF Sound
<1>2. ASSUME NEW k, Ordered(d, k) PROVE Ordered(dev, k)'
  <2>1. Mine(dev)' = Mine(d)
    BY DEF Mine
  <2>2. InFlight(dev)' = InFlight(d)
    BY <2>1 DEF InFlight
  <2> QED BY <1>2, <2>1, <2>2 DEF Ordered
<1> QED BY <1>1, <1>2

\* A poll leaves a sound device.
LEMMA PollSound ==
    ASSUME Typed, Sound(dev), NEW p, p = Poll(dev)
    PROVE  Sound(p)
<1>1. dev \in Device /\ dev.fifo \in Seq(Results) /\ Len(dev.fifo) \in Nat
  BY TypedFacts
<1>2. p \in Device
  BY <1>1, PollIs
<1>3. PICK n \in 0..Len(dev.fifo), bad \in BOOLEAN : Polled(dev, p, n, bad)
  BY <1>1, PollIs
<1>4. p.fifo \in Seq(Results) /\ p.queue \in Seq(Works)
  BY <1>2 DEF Device
<1>5. \A i \in 1..Len(dev.fifo) : Status(dev.fifo[i]) = dev.fifo[i].gpu
  BY DEF Sound, Status
<1>6. CASE bad
  <2>1. p.queue = <<>> /\ p.fifo = <<>> /\ p.poisoned /\ ~p.resetCompleted /\ p.gen = dev.gen /\ ~p.ready
    BY <1>3, <1>6 DEF Polled
  <2>2. "backend" \in cause
    <3>1. n < Len(dev.fifo) /\ Status(dev.fifo[n + 1]) = "failed"
      BY <1>3, <1>6 DEF Polled
    <3>2. n + 1 \in 1..Len(dev.fifo)
      BY <1>1, <1>3, <3>1
    <3> QED BY <1>5, <3>1, <3>2 DEF Sound
  <2>3. Len(p.queue) = 0 /\ Len(p.fifo) = 0
    BY <2>1
  <2> QED BY <2>1, <2>2, <2>3 DEF Sound
<1>7. CASE ~bad
  <2>1. /\ p.queue = dev.queue /\ p.gen = dev.gen /\ Len(p.fifo) = Len(dev.fifo) - n
        /\ \A i \in 1..Len(p.fifo) :
              /\ p.fifo[i].kind = dev.fifo[n + i].kind
              /\ p.fifo[i].fence = dev.fifo[n + i].fence
              /\ p.fifo[i].gpu = dev.fifo[n + i].gpu
              /\ p.fifo[i].status = Status(dev.fifo[n + i])
        /\ ~p.resetCompleted /\ (p.poisoned => dev.poisoned)
    BY <1>3, <1>7 DEF Polled
  <2>2. \A i \in 1..Len(p.fifo) : n + i \in 1..Len(dev.fifo)
    BY <1>1, <1>3, <2>1
  <2>3. p.ready => ~p.resetPending
    BY <1>3, <1>7 DEF Polled, Sound
  <2>4. p.poisoned => p.queue = <<>> /\ p.fifo = <<>> /\ "backend" \in cause
    <3> SUFFICES ASSUME p.poisoned PROVE p.queue = <<>> /\ p.fifo = <<>> /\ "backend" \in cause
      OBVIOUS
    <3>1. dev.queue = <<>> /\ dev.fifo = <<>> /\ "backend" \in cause
      BY <2>1 DEF Sound
    <3>2. Len(p.fifo) = 0
      BY <1>3, <2>1, <3>1
    <3> QED BY <1>4, <2>1, <3>1, <3>2, EmptySeq
  <2>5. \A i \in 1..Len(p.fifo) :
          /\ p.fifo[i].kind = "reset" => p.fifo[i].fence = 0
          /\ p.fifo[i].gpu = "failed" => "backend" \in cause
          /\ p.fifo[i].gpu = "complete" => p.fifo[i].fence \in done
          /\ p.fifo[i].status # "pending" => p.fifo[i].status = p.fifo[i].gpu
    <3> SUFFICES ASSUME NEW i \in 1..Len(p.fifo)
                 PROVE  /\ p.fifo[i].kind = "reset" => p.fifo[i].fence = 0
                        /\ p.fifo[i].gpu = "failed" => "backend" \in cause
                        /\ p.fifo[i].gpu = "complete" => p.fifo[i].fence \in done
                        /\ p.fifo[i].status # "pending" => p.fifo[i].status = p.fifo[i].gpu
      OBVIOUS
    <3> DEFINE r == dev.fifo[n + i]
    <3>1. /\ r.kind = "reset" => r.fence = 0
          /\ r.gpu = "failed" => "backend" \in cause
          /\ r.gpu = "complete" => r.fence \in done
          /\ Status(r) = r.gpu
      BY <1>5, <2>2 DEF Sound
    <3>2. /\ p.fifo[i].kind = r.kind /\ p.fifo[i].fence = r.fence /\ p.fifo[i].gpu = r.gpu
          /\ p.fifo[i].status = Status(r)
      BY <2>1
    <3> QED BY <3>1, <3>2, Zenon
  <2> QED BY <2>1, <2>3, <2>4, <2>5 DEF Sound
<1> QED BY <1>3, <1>6, <1>7

\* A poll retires the fences from the front, in their order.
LEMMA PollOrdered ==
    ASSUME Typed, Sound(dev), NEW k \in Nat, Ordered(dev, k), NEW p, p = Poll(dev)
    PROVE  Ordered(p, k)
<1>1. dev \in Device /\ dev.fifo \in Seq(Results) /\ Len(dev.fifo) \in Nat
  BY TypedFacts
<1>2. p \in Device
  BY <1>1, PollIs
<1>3. PICK n \in 0..Len(dev.fifo), bad \in BOOLEAN : Polled(dev, p, n, bad)
  BY <1>1, PollIs
<1>4. \A i \in 1..n : dev.fifo[i].fence \in done
  <2>1. \A i \in 1..n : Status(dev.fifo[i]) = "complete" /\ i \in 1..Len(dev.fifo)
    BY <1>1, <1>3 DEF Polled
  <2> QED BY <2>1 DEF Sound, Status
<1>5. /\ p.pendingFence = 0 /\ p.gen = dev.gen
      /\ \/ p.completed = dev.completed
         \/ p.completed = dev.pendingFence /\ dev.pendingFence # 0
         \/ \E m \in 1..n : p.completed = dev.fifo[m].fence /\ dev.fifo[m].fence # 0
  BY <1>3 DEF Polled
<1> DEFINE b == k - InFlight(dev)
<1>6. Mine(p) = Mine(dev)
  BY <1>5 DEF Mine
<1>7. CASE dev.poisoned
  <2>1. dev.fifo = <<>> /\ dev.queue = <<>> /\ ~dev.resetCompleted /\ n = 0 /\ ~bad
    <3>1. dev.fifo = <<>> /\ dev.queue = <<>> /\ ~dev.resetCompleted
      BY <1>7 DEF Sound
    <3>2. n = 0
      BY <1>3, <3>1
    <3>3. bad => 0 < 0
      BY <1>3, <3>1, <3>2 DEF Polled
    <3> QED BY <3>1, <3>2, <3>3
  <2>2. p.poisoned
    <3>1. ~\E i \in 1..n : dev.fifo[i].kind = "reset"
      BY <2>1
    <3> QED BY <1>3, <1>7, <2>1, <3>1, Zenon DEF Polled
  <2>3. p.completed = dev.completed \/ p.completed = dev.pendingFence
    BY <1>5, <2>1
  <2> QED BY <1>5, <1>7, <2>2, <2>3, MineType, <1>1 DEF Ordered
<1>8. CASE ~dev.poisoned
  <2>1. /\ b \in Int /\ b >= 0 - 1 /\ InFlight(dev) \in Nat
        /\ \A i \in 1..Len(dev.fifo) : dev.fifo[i].fence = b + i
        /\ dev.pendingFence # 0 => dev.pendingFence <= b
        /\ dev.completed # 0 => dev.completed <= b
        /\ \A j \in 1..b : j \in done
        /\ dev.pendingFence \in Nat /\ dev.completed \in Nat
        /\ b + Len(dev.fifo) <= k
    <3>1. /\ Mine(dev) \in {0, 1} /\ Len(dev.queue) \in Nat /\ InFlight(dev) \in Nat
          /\ InFlight(dev) = Len(dev.fifo) + Mine(dev) + Len(dev.queue)
          /\ dev.pendingFence \in Nat /\ dev.completed \in Nat
      BY <1>1, MineType
    <3>2. InFlight(dev) <= k + 1
      BY <1>8 DEF Ordered
    <3>3. b \in Int /\ b >= 0 - 1 /\ b + Len(dev.fifo) <= k
      <4> DEFINE f == Len(dev.fifo)
                 m == Mine(dev)
                 q == Len(dev.queue)
                 g == InFlight(dev)
      <4>1. f \in Nat /\ m \in {0, 1} /\ q \in Nat /\ g = f + m + q /\ g <= k + 1
        BY <1>1, <3>1, <3>2
      <4> HIDE DEF f, m, q, g
      <4>2. k - g \in Int /\ k - g >= 0 - 1 /\ (k - g) + f <= k
        BY <4>1
      <4> QED BY <4>2 DEF f, g
    <3> QED BY <1>8, <3>1, <3>3 DEF Ordered
  <2> HIDE DEF b
  <2>2. /\ p.completed \in Nat /\ (p.completed # 0 => p.completed <= b + n)
        /\ \A j \in 1..p.completed : j \in done
        /\ \A j \in 1..b + n : j \in done
    <3>1. \A j \in 1..b + n : j \in done
      <4> SUFFICES ASSUME NEW j \in 1..b + n, j > b PROVE j \in done
        BY <1>3, <2>1
      <4>1. j - b \in 1..n /\ j - b \in 1..Len(dev.fifo) /\ b + (j - b) = j
        BY <1>1, <1>3, <2>1
      <4>2. dev.fifo[j - b].fence = b + (j - b)
        BY <2>1, <4>1
      <4> QED BY <1>4, <4>1, <4>2
    <3>2. p.completed \in Nat
      BY <1>2, MineType
    <3>3. p.completed # 0 => p.completed <= b + n
      <4>1. ASSUME NEW m \in 1..n, p.completed = dev.fifo[m].fence
            PROVE  p.completed <= b + n
        <5>1. m \in 1..Len(dev.fifo)
          BY <1>1, <1>3
        <5>2. p.completed = b + m
          BY <2>1, <4>1, <5>1
        <5> QED BY <1>3, <2>1, <5>2
      <4> QED BY <1>3, <1>5, <2>1, <4>1
    <3> QED BY <1>3, <2>1, <3>1, <3>2, <3>3
  <2>3. CASE bad
    <3>1. p.poisoned /\ n < Len(dev.fifo)
      BY <1>3, <2>3 DEF Polled
    <3>2. p.completed # 0 => p.completed < k
      <4>1. /\ n \in Nat /\ b \in Int /\ b + Len(dev.fifo) <= k /\ n < Len(dev.fifo)
            /\ p.completed \in Nat /\ (p.completed # 0 => p.completed <= b + n)
        BY <1>3, <2>1, <2>2, <3>1
      <4> QED BY <1>1, <4>1
    <3> QED BY <1>5, <2>2, <3>1, <3>2 DEF Ordered
  <2>4. CASE ~bad
    <3>1. /\ p.queue = dev.queue /\ Len(p.fifo) = Len(dev.fifo) - n /\ ~p.poisoned
          /\ \A i \in 1..Len(p.fifo) : p.fifo[i].fence = dev.fifo[n + i].fence
          /\ ~p.resetCompleted
      BY <1>3, <1>8, <2>4 DEF Polled
    <3>2. InFlight(p) = InFlight(dev) - n
      <4>1. /\ InFlight(dev) = Len(dev.fifo) + Mine(dev) + Len(dev.queue)
            /\ InFlight(p) = Len(p.fifo) + Mine(p) + Len(p.queue)
            /\ Mine(dev) \in {0, 1} /\ Len(dev.queue) \in Nat
        BY <1>1, <1>2, MineType
      <4> DEFINE f == Len(dev.fifo)
                 m == Mine(dev)
                 q == Len(dev.queue)
      <4>2. /\ f \in Nat /\ m \in {0, 1} /\ q \in Nat /\ InFlight(dev) = f + m + q
            /\ InFlight(p) = (f - n) + m + q /\ n \in Nat
        BY <1>1, <1>3, <1>6, <3>1, <4>1
      <4> HIDE DEF f, m, q
      <4> QED BY <4>2
    <3>3. k - InFlight(p) = b + n
      BY <1>3, <2>1, <3>2 DEF b
    <3>4. \A i \in 1..Len(p.fifo) : p.fifo[i].fence = b + n + i
      <4> SUFFICES ASSUME NEW i \in 1..Len(p.fifo) PROVE p.fifo[i].fence = b + n + i
        OBVIOUS
      <4>1. n + i \in 1..Len(dev.fifo)
        BY <1>1, <1>3, <3>1
      <4>2. dev.fifo[n + i].fence = b + (n + i)
        BY <2>1, <4>1
      <4> QED BY <1>3, <2>1, <3>1, <4>2
    <3>5. p.ready => InFlight(p) <= k
      <4> SUFFICES ASSUME p.ready PROVE b + n >= 0
        <5>1. b \in Int /\ n \in Nat /\ InFlight(dev) \in Nat /\ b = k - InFlight(dev)
          BY <1>3, <2>1 DEF b
        <5> QED BY <3>2, <5>1
      <4>1. CASE dev.ready \/ dev.resetCompleted
        <5>1. InFlight(dev) <= k
          BY <1>8, <4>1 DEF Ordered
        <5> QED BY <1>3, <2>1, <5>1 DEF b
      <4>2. CASE \E m \in 1..n : dev.fifo[m].kind = "reset"
        <5>1. PICK m \in 1..n : dev.fifo[m].kind = "reset"
          BY <4>2
        <5>2. m \in 1..Len(dev.fifo)
          BY <1>1, <1>3
        <5>3. dev.fifo[m].fence = 0 /\ dev.fifo[m].fence = b + m
          BY <2>1, <5>1, <5>2 DEF Sound
        <5> QED BY <1>3, <2>1, <5>3
      <4> QED BY <1>3, <2>4, <4>1, <4>2 DEF Polled
    <3>6. /\ \A i \in 1..Len(p.queue) : p.queue[i].fence = k - Len(p.queue) + i
          /\ Mine(p) = 1 => work.fence = k - Len(p.queue)
          /\ InFlight(p) <= k + 1
      <4>1. InFlight(dev) <= k + 1
        BY <1>8 DEF Ordered
      <4>2. InFlight(p) <= k + 1
        <5>1. n \in Nat /\ InFlight(dev) \in Nat
          BY <1>3, <2>1
        <5> QED BY <3>2, <4>1, <5>1
      <4> QED BY <1>6, <1>8, <3>1, <4>2 DEF Ordered
    <3>7. /\ \A i \in 1..Len(p.fifo) : p.fifo[i].fence = k - InFlight(p) + i
          /\ p.completed # 0 => p.completed <= k - InFlight(p)
          /\ \A j \in 1..k - InFlight(p) : j \in done
      BY <2>2, <3>3, <3>4
    <3>8. /\ p.pendingFence = 0 /\ p.poisoned = FALSE /\ p.resetCompleted = FALSE
          /\ \A j \in 1..p.pendingFence : j \in done
      BY <1>2, <1>5, <3>1 DEF Device
    <3> QED BY <2>2, <3>5, <3>6, <3>7, <3>8, Zenon DEF Ordered
  <2> QED BY <1>3, <2>3, <2>4
<1> QED BY <1>7, <1>8

Step(s) == call # Idle /\ call.step = s

\* The next fence of the driver is the one after the fences that were accepted,
\* or, between doorbell and verification and for ever after a failure that came
\* between them, the last of those.
Numbered(k) ==
    /\ call = Idle \/ Step("post") => \/ drv.fence = k + 1
                                      \/ dev.poisoned /\ drv.fence = k
    /\ Step("doorbell") => /\ drv.fence = k + 1 /\ dev.posted
                           /\ dev.error => dev.poisoned
    /\ Step("verify") => /\ dev.posted => drv.fence = k + 1
                         /\ ~dev.posted => drv.fence = k /\ (dev.error => dev.poisoned)
    /\ ~drv.ready => k = 0 /\ drv.fence = 1

FencesInOrder ==
    "moved" \notin cause => \E k \in Nat : accepted = 1..k /\ Ordered(dev, k) /\ Numbered(k)

Fencing == Sound(dev) /\ Bound /\ FencesInOrder

\* What the device holds is the same, or what a poll leaves of it.
Kept == Sound(dev)' /\ \A k \in Nat : Ordered(dev, k) => Ordered(dev, k)'

\* A poll, and a step that leaves the work of the device alone, keep the order.
LEMMA PollKeeps ==
    ASSUME Typed, Sound(dev), NEW p, p = Poll(dev) \/ p = dev, SameWork(p, dev'),
           worker' = "busy" <=> worker = "busy",
           UNCHANGED work, done \subseteq done', cause \subseteq cause'
    PROVE  Kept
<1>1. Sound(p)
  BY PollSound
<1>2. Sound(dev')
  BY <1>1, SameIsSound
<1>3. ASSUME NEW k \in Nat, Ordered(dev, k) PROVE Ordered(dev, k)'
  <2>1. Ordered(p, k)
    BY <1>3, PollOrdered
  <2>2. Ordered(dev', k)
    BY <2>1, SameIsSound
  <2> PICK d : d = dev'
    OBVIOUS
  <2>3. Sound(d) /\ Ordered(d, k)
    BY <1>2, <2>2
  <2> QED BY <2>3, SoundNext
<1>4. Sound(dev)'
  <2> PICK d : d = dev'
    OBVIOUS
  <2>1. Sound(d)
    BY <1>2
  <2> QED BY <2>1, SoundNext
<1> QED BY <1>3, <1>4 DEF Kept

\* What a poll does to the flags that the driver reads.
Flags(d, p) ==
    /\ p \in Device
    /\ p.posted = d.posted /\ p.region = d.region /\ p.contexts = d.contexts /\ p.gen = d.gen
    /\ d.poisoned => p.poisoned
    /\ p.error <=> d.error \/ p.poisoned
    /\ p.ready => ~p.poisoned
    /\ d.ready /\ ~p.poisoned => p.ready

\* The flags after a poll.
LEMMA PollFlags ==
    ASSUME Typed, Sound(dev), NEW p, p = Poll(dev)
    PROVE  Flags(dev, p)
<1>1. dev \in Device /\ dev.fifo \in Seq(Results) /\ Len(dev.fifo) \in Nat
  BY TypedFacts
<1>2. p \in Device
  BY <1>1, PollIs
<1>3. PICK n \in 0..Len(dev.fifo), bad \in BOOLEAN : Polled(dev, p, n, bad)
  BY <1>1, PollIs
<1>4. /\ p.posted = dev.posted /\ p.region = dev.region /\ p.contexts = dev.contexts
      /\ p.gen = dev.gen
      /\ p.error = (dev.error \/ p.poisoned)
      /\ p.ready => ~p.poisoned
      /\ dev.ready /\ ~p.poisoned => p.ready
  BY <1>3 DEF Polled
<1>5. ASSUME dev.poisoned PROVE p.poisoned
  <2>1. dev.fifo = <<>> /\ ~dev.resetCompleted
    BY <1>5 DEF Sound
  <2>2. n = 0
    BY <1>3, <2>1
  <2>3. ~\E i \in 1..n : dev.fifo[i].kind = "reset"
    BY <2>2
  <2> QED BY <1>3, <1>5, <2>1, <2>3, Zenon DEF Polled
<1>6. p.error <=> dev.error \/ p.poisoned
  BY <1>1, <1>2, <1>4 DEF Device
<1> QED BY <1>2, <1>4, <1>5, <1>6, Zenon DEF Flags

\* A call begins with the next fence.
LEMMA StartFencing ==
    ASSUME Typed, Fencing, NEW op \in Submissions, NEW cid, NEW pid, NEW valid,
           Start(op, cid, pid, valid)
    PROVE  Fencing'
<1> DEFINE c == [op |-> op, step |-> "post", cid |-> cid, pid |-> pid, valid |-> valid]
<1>1. /\ call' = c /\ call = Idle /\ drv.ready /\ drv.up
      /\ UNCHANGED <<async, dev, worker, work, drv, current, accepted, done, cause,
                     failures, moves>>
  BY DEF Start, Ready
<1>2. c.step = "post" /\ c.op = op /\ c # Idle /\ op \notin {"register", "unregister"}
  BY DEF Submissions, Idle
<1> HIDE DEF c
<1>3. Sound(dev)'
  BY <1>1 DEF Fencing, Sound
<1>4. Bound'
  BY <1>1, <1>2 DEF Fencing, Bound
<1>5. FencesInOrder'
  <2> SUFFICES ASSUME "moved" \notin cause
               PROVE  \E k \in Nat : accepted' = 1..k /\ Ordered(dev, k)' /\ Numbered(k)'
    BY <1>1 DEF FencesInOrder
  <2>1. PICK k \in Nat : accepted = 1..k /\ Ordered(dev, k) /\ Numbered(k)
    BY DEF Fencing, FencesInOrder
  <2>2. Ordered(dev, k)'
    BY <1>1, <2>1 DEF Ordered, InFlight, Mine
  <2>3. Numbered(k)'
    BY <1>1, <1>2, <2>1 DEF Numbered, Step
  <2> QED BY <1>1, <2>1, <2>2, <2>3
<1> QED BY <1>3, <1>4, <1>5 DEF Fencing

\* Every call of a process keeps the order.
LEMMA CallsFencing == ASSUME Typed, Fencing, ContextCall \/ WorkCall PROVE Fencing'
<1>1. \E op \in Submissions, cid \in Contexts \cup {None}, pid \in Processes \cup {None}, valid \in BOOLEAN :
         Start(op, cid, pid, valid)
  BY DEF ContextCall, WorkCall, Create, Destroy, Cleanup, Upload, Submit, Present, Submissions
<1> QED BY <1>1, StartFencing

\* A device that was reset holds nothing but the reset.
LEMMA ResetFencing ==
    ASSUME Typed, Fencing, NEW d \in Device, d.gen = dev.gen, d.gen < MaxGeneration,
           dev' = DeviceReset(d), UNCHANGED <<work, current>>, current,
           call' = Idle, accepted' = {}, done' = {}, cause' = {},
           drv' = [drv EXCEPT !.ready = FALSE, !.fence = 1, !.owner = NoOwner]
    PROVE  Fencing'
<1>1. /\ dev' \in Device /\ dev'.gen = d.gen + 1 /\ dev'.queue = <<ResetWork(d)>>
      /\ dev'.fifo = <<>> /\ ~dev'.poisoned /\ ~dev'.ready /\ ~dev'.resetCompleted
      /\ dev'.pendingFence = 0 /\ dev'.completed = 0
  BY ResetIs
<1>2. ResetWork(d).gen = d.gen + 1 /\ ResetWork(d).fence = 0
  BY DEF ResetWork
<1>3. Len(dev'.queue) = 1 /\ dev'.queue[1] = ResetWork(d) /\ Len(dev'.fifo) = 0
  BY <1>1
<1>4. /\ work.gen <= d.gen /\ d.gen \in Nat /\ work.gen \in Nat
      /\ work.kind = "reset" => work.fence = 0
  <2>1. work.gen \in 1..MaxGeneration
    BY TypedFacts DEF RestTyped, Works
  <2> QED BY <2>1, MineType, BoundsAssumption DEF Fencing, Sound
<1>5. Sound(dev)'
  BY <1>1, <1>2, <1>3, <1>4 DEF Sound
<1>6. drv'.ready = FALSE /\ drv'.fence = 1 /\ drv \in Driver
  BY TypedFacts DEF Driver, RestTyped
<1>7. Bound'
  BY <1>6 DEF Bound
<1>8. accepted' = 1..0
  OBVIOUS
<1>9. Ordered(dev, 0)'
  <2>1. Mine(dev)' = 0
    BY <1>1, <1>4 DEF Mine
  <2>2. InFlight(dev)' = 1
    BY <1>3, <2>1 DEF InFlight
  <2> QED BY <1>1, <1>2, <1>3, <2>1, <2>2 DEF Ordered
<1>10. Numbered(0)'
  BY <1>6 DEF Numbered, Step
<1> QED BY <1>5, <1>7, <1>8, <1>9, <1>10 DEF Fencing, FencesInOrder

\* gsw3d_submit_locked returns: a fence is used up when the device took the command.
LEMMA FinishFencing ==
    ASSUME Typed, Fencing, call # Idle,
           NEW p, p = Poll(dev) \/ (p = dev /\ ~current), Flags(dev, p) \/ p = dev,
           NEW d \in Device, SameWork(p, d), d.error = p.error,
           NEW ok \in BOOLEAN, Finish(ok, d),
           UNCHANGED <<async, work, current, failures, moves>>,
           \/ call.step = "post" /\ ~ok
           \/ call.step = "verify" /\ (ok <=> ~dev.posted /\ ~p.error) /\ p = Poll(dev)
    PROVE  Fencing'
<1>1. Sound(dev) /\ Bound /\ FencesInOrder /\ RestTyped /\ call \in Calls
  BY TypedFacts, CallFacts DEF Fencing
<1>2. d.gen = dev.gen
  BY DEF Flags, SameWork
<1>3. CASE call.op = "unregister"
  <2>1. ShutdownEnds(d)
    BY <1>3 DEF Finish
  <2>2. d.gen < MaxGeneration /\ current
    BY <1>1, <1>2, <1>3 DEF Typed, CallBounds, Bound
  <2> QED BY <1>2, <2>1, <2>2, ResetFencing DEF ShutdownEnds
<1>4. CASE call.op # "unregister"
  <2>1. /\ dev' = d /\ worker' = WokenByPoll(d)
        /\ drv' = [drv EXCEPT !.owner = OwnerAfter(call, ok),
                              !.fence = IF ok THEN drv.fence + 1 ELSE drv.fence]
        /\ call' \in CallAfter(call, ok, OwnerAfter(call, ok))
        /\ cause' = cause \cup (IF call.op = "cleanup" /\ ~ok THEN {"orphan"} ELSE {})
        /\ UNCHANGED <<accepted, done>>
    BY <1>4 DEF Finish
  <2>2. /\ drv'.ready = drv.ready /\ drv'.up = drv.up
        /\ drv'.fence = (IF ok THEN drv.fence + 1 ELSE drv.fence)
    <3>1. drv \in Driver
      BY <1>1 DEF RestTyped
    <3> PICK owner, fence : owner = OwnerAfter(call, ok) /\ fence = IF ok THEN drv.fence + 1 ELSE drv.fence
      OBVIOUS
    <3>2. drv' = [drv EXCEPT !.owner = owner, !.fence = fence]
      BY <2>1
    <3>3. drv'.ready = drv.ready /\ drv'.up = drv.up /\ drv'.fence = fence
      BY <3>1, <3>2 DEF Driver
    <3> QED BY <3>3
  <2>3. \/ call' = Idle
        \/ /\ call'.step = "post" /\ call' # Idle
           /\ \/ call.op = "register" /\ call'.op = "unregister"
              \/ call.op = "cleanup" /\ call'.op = "cleanup"
    <3> PICK owner : owner = OwnerAfter(call, ok)
      OBVIOUS
    <3>1. \/ call' = Idle
          \/ /\ call.op = "cleanup"
             /\ \E x \in Contexts : owner[x] = call.pid /\ call' = [call EXCEPT !.step = "post", !.cid = x]
          \/ call.op = "register" /\ ~ok /\ call' = [call EXCEPT !.op = "unregister", !.step = "post"]
      BY <1>1, <2>1, CallAfterIs, Zenon
    <3>2. ASSUME NEW x \in Contexts, call' = [call EXCEPT !.step = "post", !.cid = x]
          PROVE  call' \in Calls /\ call'.op = call.op /\ call'.step = "post"
      BY <1>1, <3>2 DEF Calls
    <3>3. ASSUME call' = [call EXCEPT !.op = "unregister", !.step = "post"]
          PROVE  call' \in Calls /\ call'.op = "unregister" /\ call'.step = "post"
      BY <1>1, <3>3 DEF Calls
    <3> QED BY <3>1, <3>2, <3>3, CallsAreCalls, Zenon
  <2>4. Kept
    <3>1. worker' = "busy" <=> worker = "busy"
      BY <2>1, WakingKeeps
    <3> QED BY <1>1, <2>1, <3>1, PollKeeps
  <2>5. Bound'
    BY <1>1, <1>4, <2>1, <2>2, <2>3 DEF Bound
  <2>6. FencesInOrder'
    <3> SUFFICES ASSUME "moved" \notin cause'
                 PROVE  \E k \in Nat : accepted' = 1..k /\ Ordered(dev, k)' /\ Numbered(k)'
      BY DEF FencesInOrder
    <3>1. "moved" \notin cause /\ current /\ p = Poll(dev)
      BY <1>1, <2>1 DEF Bound
    <3>2. PICK k \in Nat : accepted = 1..k /\ Ordered(dev, k) /\ Numbered(k)
      BY <1>1, <3>1 DEF FencesInOrder
    <3>3. Flags(dev, p)
      BY <1>1, <3>1, PollFlags
    <3>4. drv'.fence = k + 1 \/ (dev'.poisoned /\ drv'.fence = k)
      <4>1. d.poisoned = p.poisoned /\ d.error = p.error
        BY DEF SameWork
      <4>2. CASE call.step = "post" /\ ~ok
        BY <2>1, <2>2, <3>2, <3>3, <4>1, <4>2 DEF Numbered, Step, Flags
      <4>3. CASE call.step = "verify" /\ ok /\ ~dev.posted
        <5>1. drv.fence = k
          BY <3>2, <4>3 DEF Numbered, Step
        <5> QED BY <2>2, <4>3, <5>1
      <4>4. CASE call.step = "verify" /\ ~ok /\ dev.posted
        BY <2>2, <3>2, <4>4 DEF Numbered, Step
      <4>5. CASE call.step = "verify" /\ ~ok /\ ~dev.posted
        <5>1. drv.fence = k /\ (dev.error => dev.poisoned) /\ p.error
          BY <3>2, <4>5 DEF Numbered, Step
        <5>2. p.poisoned
          BY <3>3, <5>1 DEF Flags
        <5> QED BY <2>1, <2>2, <4>1, <4>5, <5>1, <5>2
      <4> QED BY <4>2, <4>3, <4>4, <4>5
    <3>5. Numbered(k)'
      <4>1. drv'.ready
        BY <1>1, <2>2 DEF Bound
      <4> QED BY <2>3, <3>4, <4>1 DEF Numbered, Step
    <3> QED BY <2>1, <2>4, <3>2, <3>5 DEF Kept
  <2> QED BY <2>4, <2>5, <2>6 DEF Fencing, Kept
<1> QED BY <1>3, <1>4

\* The status is read, and the command is put in the ring or given up.
LEMMA PostFencing == ASSUME Typed, Fencing, Post PROVE Fencing'
<1> PICK p : p = IF current THEN Poll(dev) ELSE dev
  OBVIOUS
<1>0. call # Idle /\ UNCHANGED <<async, work, current, failures, moves>> /\ call.step = "post"
  BY DEF Post
<1>1. Sound(dev) /\ Bound /\ FencesInOrder /\ RestTyped /\ call \in Calls /\ dev \in Device
  BY <1>0, TypedFacts, CallFacts DEF Fencing
<1>2. /\ p = Poll(dev) \/ (p = dev /\ ~current)
      /\ p \in Device
  <2>1. Poll(dev) \in Device
    BY <1>1, PollIs
  <2> QED BY <1>1, <2>1 DEF RestTyped
<1>3. CASE current /\ p.ready /\ ~p.error
  <2>1. /\ dev' = [p EXCEPT !.posted = TRUE]
        /\ worker' = WokenByPoll(p)
        /\ call' = [call EXCEPT !.step = "doorbell"]
        /\ UNCHANGED <<drv, accepted, done, cause>>
    BY <1>3 DEF Post
  <2>2. SameWork(p, dev') /\ dev'.posted /\ ~dev'.error
    <3> PICK d : d = dev'
      OBVIOUS
    <3>1. d = [p EXCEPT !.posted = TRUE]
      BY <2>1
    <3>2. SameWork(p, d) /\ d.posted /\ ~d.error
      BY <1>2, <1>3, <3>1, PostedIs DEF SameWork
    <3> QED BY <3>2
  <2>3. Kept
    <3>1. worker' = "busy" <=> worker = "busy"
      BY <2>1, WakingKeeps
    <3> QED BY <1>0, <1>1, <1>2, <2>1, <2>2, <3>1, PollKeeps
  <2>4. call' # Idle /\ call'.step = "doorbell" /\ call'.op = call.op
    <3>1. call' \in Calls /\ call'.step = "doorbell" /\ call'.op = call.op
      BY <1>0, <2>1, CallFacts, Zenon
    <3> QED BY <3>1, CallsAreCalls
  <2>5. Bound'
    BY <1>0, <1>1, <2>1, <2>4 DEF Bound
  <2>6. FencesInOrder'
    <3> SUFFICES ASSUME "moved" \notin cause'
                 PROVE  \E k \in Nat : accepted' = 1..k /\ Ordered(dev, k)' /\ Numbered(k)'
      BY DEF FencesInOrder
    <3>2. PICK k \in Nat : accepted = 1..k /\ Ordered(dev, k) /\ Numbered(k)
      BY <1>1, <2>1 DEF FencesInOrder
    <3>3. Flags(dev, p)
      BY <1>1, <1>2, <1>3, PollFlags
    <3>4. ~dev.poisoned
      BY <1>3, <3>3 DEF Flags
    <3>5. drv'.fence = k + 1 /\ drv'.ready
      BY <1>0, <1>1, <2>1, <3>2, <3>4 DEF Numbered, Step, Bound
    <3>6. Numbered(k)'
      BY <2>2, <2>4, <3>5 DEF Numbered, Step
    <3> QED BY <2>1, <2>3, <3>2, <3>6 DEF Kept
  <2> QED BY <2>3, <2>5, <2>6 DEF Fencing, Kept
<1>4. CASE ~(current /\ p.ready /\ ~p.error)
  <2>1. Finish(FALSE, p)
    BY <1>4 DEF Post
  <2>2. SameWork(p, p)
    BY DEF SameWork
  <2>3. Flags(dev, p) \/ p = dev
    BY <1>1, <1>2, PollFlags
  <2> QED BY <1>0, <1>2, <2>1, <2>2, <2>3, FinishFencing
<1> QED BY <1>3, <1>4

\* Taking back a command changes nothing but the ring.
LEMMA PostedSame ==
    ASSUME NEW p \in Device, NEW d, d = [p EXCEPT !.posted = FALSE]
    PROVE  d \in Device /\ SameWork(p, d) /\ d.error = p.error /\ d.region = p.region
           /\ d.contexts = p.contexts
BY DEF SameWork, Device

\* The command is taken back when the device has not consumed it.
LEMMA VerifyFencing == ASSUME Typed, Fencing, Verify PROVE Fencing'
<1> PICK p : p = Poll(dev)
  OBVIOUS
<1> PICK d : d = [p EXCEPT !.posted = FALSE]
  OBVIOUS
<1> DEFINE ok == ~p.posted /\ ~p.error
<1>0. /\ call # Idle /\ call.step = "verify" /\ Finish(ok, d)
      /\ UNCHANGED <<async, work, current, failures, moves>>
  BY DEF Verify
<1>1. Sound(dev) /\ Flags(dev, p) /\ p \in Device
  BY PollFlags DEF Fencing, Flags
<1>2. d \in Device /\ SameWork(p, d) /\ d.error = p.error
  BY <1>1, PostedSame, Zenon
<1>3. ok \in BOOLEAN /\ (ok <=> ~dev.posted /\ ~p.error)
  BY <1>1 DEF Flags
<1> HIDE DEF ok
<1> QED BY <1>0, <1>1, <1>2, <1>3, FinishFencing

\* Steps that change nothing the driver's numbering depends on.
LEMMA RestFencing ==
    ASSUME Typed, Fencing, Kept, UNCHANGED <<call, drv, accepted, current>>, cause \subseteq cause', dev'.posted = dev.posted,
           dev.poisoned => dev'.poisoned, dev'.error => dev.error \/ dev'.poisoned
    PROVE  Fencing'
<1>1. Sound(dev) /\ Bound /\ FencesInOrder /\ RestTyped
  BY TypedFacts DEF Fencing
<1>2. Bound'
  BY <1>1 DEF Bound
<1>3. FencesInOrder'
  <2> SUFFICES ASSUME "moved" \notin cause'
               PROVE  \E k \in Nat : accepted' = 1..k /\ Ordered(dev, k)' /\ Numbered(k)'
    BY DEF FencesInOrder
  <2>1. PICK k \in Nat : accepted = 1..k /\ Ordered(dev, k) /\ Numbered(k)
    BY <1>1 DEF FencesInOrder
  <2>2. Numbered(k)'
    BY <2>1 DEF Numbered, Step
  <2> QED BY <2>1, <2>2 DEF Kept
<1> QED BY <1>2, <1>3 DEF Fencing, Kept

\* The machine polls.
LEMMA MachinePollsFencing == ASSUME Typed, Fencing, MachinePolls PROVE Fencing'
<1> PICK p : p = Poll(dev)
  OBVIOUS
<1>1. /\ dev' = p /\ worker' = WokenByPoll(dev')
      /\ UNCHANGED <<async, work, drv, current, call, accepted, done, cause, failures, moves>>
  BY DEF MachinePolls
<1>2. Sound(dev) /\ Flags(dev, p) /\ Bound
  BY PollFlags DEF Fencing
<1>3. Kept
  <2>1. worker' = "busy" <=> worker = "busy"
    BY <1>1, WakingKeeps
  <2>2. SameWork(p, dev')
    BY <1>1 DEF SameWork
  <2> QED BY <1>1, <1>2, <2>1, <2>2, PollKeeps
<1> QED BY <1>1, <1>2, <1>3, RestFencing DEF Flags, Bound

\* Nothing is promised once the device was moved.
LEMMA MoveFencing == ASSUME Typed, Fencing, Move PROVE Fencing'
<1>1. /\ current' = FALSE /\ cause' = cause \cup {"moved"} /\ call = Idle /\ drv.up
      /\ UNCHANGED <<async, dev, worker, work, drv, call, accepted, done, failures>>
  BY DEF Move
<1>2. Sound(dev)'
  BY <1>1 DEF Fencing, Sound
<1>3. Bound'
  BY <1>1 DEF Fencing, Bound
<1> QED BY <1>1, <1>2, <1>3 DEF Fencing, FencesInOrder

\* The driver gives the device up.
LEMMA ShutdownFencing == ASSUME Typed, Fencing, Shutdown PROVE Fencing'
<1>1. /\ call = Idle /\ drv.up
      /\ UNCHANGED <<async, dev, worker, work, current, accepted, done, cause, failures, moves>>
  BY DEF Shutdown
<1>2. Sound(dev) /\ Bound /\ FencesInOrder /\ drv \in Driver
  BY TypedFacts DEF Fencing, RestTyped
<1>3. Sound(dev)' /\ \A k \in Nat : Ordered(dev, k) => Ordered(dev, k)'
  <2>1. SameWork(dev, dev')
    BY <1>1 DEF SameWork
  <2>2. Kept
    BY <1>1, <1>2, <2>1, PollKeeps
  <2> QED BY <2>2 DEF Kept
<1>4. CASE drv.ready /\ current
  <2> DEFINE c == [op |-> "unregister", step |-> "post", cid |-> None, pid |-> None, valid |-> TRUE]
  <2>1. drv' = [drv EXCEPT !.up = FALSE] /\ call' = c
    BY <1>4 DEF Shutdown
  <2>2. c # Idle /\ c.op = "unregister" /\ c.step = "post"
    BY DEF Idle
  <2>3. drv'.ready = drv.ready /\ drv'.fence = drv.fence
    BY <1>2, <2>1 DEF Driver
  <2> HIDE DEF c
  <2>4. Bound'
    BY <1>1, <1>2, <1>4, <2>1, <2>2, <2>3 DEF Bound
  <2>5. ASSUME NEW k, Numbered(k) PROVE Numbered(k)'
    BY <1>1, <1>4, <2>1, <2>2, <2>3, <2>5 DEF Numbered, Step
  <2> QED BY <1>1, <1>2, <1>3, <2>4, <2>5 DEF Fencing, FencesInOrder
<1>5. CASE ~(drv.ready /\ current)
  <2>1. drv' = [up |-> FALSE, ready |-> FALSE, fence |-> 1, owner |-> NoOwner] /\ call' = Idle
    BY <1>5 DEF Shutdown
  <2>2. drv'.ready = FALSE /\ drv'.fence = 1
    BY <2>1
  <2>3. Bound'
    BY <1>1, <1>2, <2>1, <2>2 DEF Bound
  <2>4. ASSUME "moved" \notin cause, NEW k, Numbered(k) PROVE Numbered(k)'
    <3>1. ~drv.ready
      BY <1>2, <1>5, <2>4 DEF Bound
    <3>2. k = 0
      BY <2>4, <3>1 DEF Numbered
    <3> QED BY <2>1, <2>2, <3>2 DEF Numbered, Step
  <2> QED BY <1>1, <1>2, <1>3, <2>3, <2>4 DEF Fencing, FencesInOrder
<1> QED BY <1>4, <1>5

\* A binding starts at fence 1 with a device that holds no work of its own.
LEMMA BindFencing == ASSUME Typed, Fencing, Bind PROVE Fencing'
<1> PICK p : p = Poll(dev)
  OBVIOUS
<1> DEFINE c == [op |-> "register", step |-> "post", cid |-> None, pid |-> None, valid |-> TRUE]
<1>0. /\ call = Idle /\ (~drv.up \/ ~current)
      /\ worker' = WokenByPoll(p)
      /\ dev' = IF p.ready THEN [p EXCEPT !.error = FALSE, !.posted = FALSE] ELSE p
      /\ drv' = [up |-> TRUE, ready |-> p.ready, fence |-> 1, owner |-> NoOwner]
      /\ call' = IF p.ready THEN c ELSE Idle
      /\ current' = TRUE
      /\ UNCHANGED <<async, work, accepted, done, cause, failures, moves>>
  BY DEF Bind, Initialize3d
<1>1. Sound(dev) /\ Bound /\ FencesInOrder /\ Flags(dev, p) /\ p \in Device
  BY PollFlags DEF Fencing, Flags
<1>2. SameWork(p, dev')
  <2>1. CASE p.ready
    <3> PICK d : d = dev'
      OBVIOUS
    <3>1. d = [p EXCEPT !.error = FALSE, !.posted = FALSE]
      BY <1>0, <2>1
    <3>2. SameWork(p, d)
      BY <1>1, <3>1 DEF SameWork, Device
    <3> QED BY <3>2
  <2>2. CASE ~p.ready
    BY <1>0, <2>2 DEF SameWork
  <2> QED BY <2>1, <2>2
<1>3. Kept
  <2>1. worker' = "busy" <=> worker = "busy"
    BY <1>0, WakingKeeps
  <2> QED BY <1>0, <1>1, <1>2, <2>1, PollKeeps
<1>4. c # Idle /\ c.op = "register" /\ c.step = "post"
  BY DEF Idle
<1>5. drv'.up /\ drv'.ready = p.ready /\ drv'.fence = 1
  BY <1>0
<1> HIDE DEF c
<1>6. Bound'
  BY <1>0, <1>4, <1>5 DEF Bound
<1>7. FencesInOrder'
  <2> SUFFICES ASSUME "moved" \notin cause'
               PROVE  \E k \in Nat : accepted' = 1..k /\ Ordered(dev, k)' /\ Numbered(k)'
    BY DEF FencesInOrder
  <2>1. PICK k \in Nat : accepted = 1..k /\ Ordered(dev, k) /\ Numbered(k)
    BY <1>0, <1>1 DEF FencesInOrder
  <2>2. k = 0
    <3>1. ~drv.ready
      BY <1>0, <1>1 DEF Bound
    <3> QED BY <2>1, <3>1 DEF Numbered
  <2>3. Numbered(k)'
    BY <1>0, <1>4, <1>5, <2>2 DEF Numbered, Step
  <2> QED BY <1>0, <1>3, <2>1, <2>3 DEF Kept
<1> QED BY <1>3, <1>6, <1>7 DEF Fencing, Kept

\* A command that the device accepts takes the last place in the order.
LEMMA DoorbellFencing == ASSUME Typed, Fencing, Doorbell PROVE Fencing'
<1>0. /\ call # Idle /\ call.step = "doorbell"
      /\ call' = [call EXCEPT !.step = "verify"]
      /\ cause' = cause \cup (IF call.valid THEN {} ELSE {"invalid"})
      /\ UNCHANGED <<async, work, drv, current, done, failures, moves>>
  BY DEF Doorbell
<1>1. /\ Sound(dev) /\ Bound /\ FencesInOrder /\ RestTyped /\ call \in Calls /\ dev \in Device
      /\ drv.fence \in Fences /\ dev.queue \in Seq(Works)
  BY <1>0, TypedFacts, CallFacts DEF Fencing
<1>2. call' # Idle /\ call'.step = "verify" /\ call'.op = call.op
  <2>1. call' \in Calls /\ call'.step = "verify" /\ call'.op = call.op
    BY <1>0, CallFacts, Zenon
  <2> QED BY <2>1, CallsAreCalls
<1>3. Bound'
  BY <1>0, <1>1, <1>2 DEF Bound
<1>4. CASE Takes(dev, call)
  <2>1. /\ dev' = Taken(dev, call, drv.fence) /\ worker' = Signalled
        /\ accepted' = accepted \cup {drv.fence}
    BY <1>4 DEF Doorbell
  <2>w. PICK w : w = [kind |-> KindOf(call.op), gen |-> dev.gen, fence |-> drv.fence]
    OBVIOUS
  <2>2. TakenAs(dev, call, w, dev')
    <3>1. call.op \in {"create", "destroy", "cleanup"} => call.cid \in Contexts
      BY <1>0 DEF Typed, CallBounds, OnContexts
    <3> QED BY <1>1, <2>1, <2>w, <3>1, TakenIs, Zenon
  <2>3. w.gen = dev.gen /\ w.fence = drv.fence /\ w.kind # "reset" /\ w \in Works
    BY <2>w, <2>2 DEF KindOf, TakenAs
  <2>4. ~dev.poisoned
    BY <1>4 DEF Takes, Admitted
  <2>5. /\ dev' \in Device /\ dev'.queue = Append(dev.queue, w) /\ dev'.posted = FALSE
        /\ dev'.gen = dev.gen /\ dev'.fifo = dev.fifo /\ dev'.ready = dev.ready
        /\ dev'.error = dev.error /\ dev'.poisoned = dev.poisoned
        /\ dev'.completed = dev.completed /\ dev'.pendingFence = dev.pendingFence
        /\ dev'.resetPending = dev.resetPending /\ dev'.resetCompleted = dev.resetCompleted
    BY <2>2, Zenon DEF TakenAs
  <2>6. /\ Len(dev'.queue) = Len(dev.queue) + 1 /\ Len(dev.queue) \in Nat
        /\ \A i \in 1..Len(dev.queue) : dev'.queue[i] = dev.queue[i]
        /\ dev'.queue[Len(dev.queue) + 1] = w
    BY <1>1, <2>3, <2>5
  <2>7. worker' = "busy" <=> worker = "busy"
    BY <2>1, WakingKeeps
  <2>8. Sound(dev)'
    <3>1. \A i \in 1..Len(dev'.queue) : i \in 1..Len(dev.queue) \/ i = Len(dev.queue) + 1
      BY <2>6
    <3>2. \A i \in 1..Len(dev'.queue) :
             /\ dev'.queue[i].gen = dev'.gen
             /\ dev'.queue[i].kind = "reset" => dev'.queue[i].fence = 0
      BY <1>1, <2>3, <2>5, <2>6, <3>1 DEF Sound
    <3>3. cause \subseteq cause' /\ ~dev'.poisoned
      BY <1>0, <2>4, <2>5
    <3> QED BY <1>0, <1>1, <2>5, <3>2, <3>3 DEF Sound
  <2>9. FencesInOrder'
    <3> SUFFICES ASSUME "moved" \notin cause'
                 PROVE  \E k \in Nat : accepted' = 1..k /\ Ordered(dev, k)' /\ Numbered(k)'
      BY DEF FencesInOrder
    <3>1. PICK k \in Nat : accepted = 1..k /\ Ordered(dev, k) /\ Numbered(k)
      BY <1>0, <1>1 DEF FencesInOrder
    <3>2. drv.fence = k + 1 /\ ~dev.error /\ drv.ready
      BY <1>0, <1>1, <2>4, <3>1 DEF Numbered, Step, Bound
    <3>3. accepted' = 1..k + 1
      BY <2>1, <3>1, <3>2
    <3>4. Numbered(k + 1)'
      BY <1>0, <1>2, <2>5, <3>2 DEF Numbered, Step
    <3>5. Ordered(dev, k + 1)'
      <4>1. Mine(dev)' = Mine(dev)
        BY <1>0, <2>5, <2>7 DEF Mine
      <4>2. /\ InFlight(dev)' = InFlight(dev) + 1 /\ InFlight(dev) \in Nat
            /\ (k + 1) - InFlight(dev)' = k - InFlight(dev)
            /\ (k + 1) - Len(dev'.queue) = k - Len(dev.queue)
        <5> DEFINE f == Len(dev.fifo)
                   m == Mine(dev)
                   q == Len(dev.queue)
        <5>1. /\ f \in Nat /\ m \in {0, 1} /\ q \in Nat /\ InFlight(dev) = f + m + q
          BY <1>1, MineType
        <5>2. InFlight(dev)' = f + m + (q + 1) /\ Len(dev'.queue) = q + 1
          BY <2>5, <2>6, <4>1 DEF InFlight
        <5> HIDE DEF f, m, q
        <5>3. (k + 1) - Len(dev'.queue) = k - q
          BY <5>1, <5>2
        <5>4. /\ InFlight(dev)' = InFlight(dev) + 1 /\ InFlight(dev) \in Nat
              /\ (k + 1) - InFlight(dev)' = k - InFlight(dev)
          BY <5>1, <5>2
        <5> QED BY <5>3, <5>4 DEF q
      <4>3. \A i \in 1..Len(dev'.queue) : dev'.queue[i].fence = (k + 1) - Len(dev'.queue) + i
        <5> SUFFICES ASSUME NEW i \in 1..Len(dev'.queue)
                     PROVE  dev'.queue[i].fence = k - Len(dev.queue) + i
          BY <4>2
        <5>1. CASE i \in 1..Len(dev.queue)
          BY <2>4, <2>6, <3>1, <5>1 DEF Ordered
        <5>2. CASE i = Len(dev.queue) + 1
          <6>1. dev'.queue[i].fence = k + 1
            BY <2>3, <2>6, <3>2, <5>2
          <6> QED BY <2>6, <5>2, <6>1
        <5>3. i \in 1..Len(dev.queue) \/ i = Len(dev.queue) + 1
          BY <2>6
        <5> QED BY <5>1, <5>2, <5>3
      <4>4. InFlight(dev)' <= (k + 1) + 1 /\ (dev'.ready \/ dev'.resetCompleted => InFlight(dev)' <= k + 1)
        <5>1. InFlight(dev) <= k + 1 /\ (dev.ready \/ dev.resetCompleted => InFlight(dev) <= k)
          BY <2>4, <3>1 DEF Ordered
        <5> QED BY <2>5, <4>2, <5>1
      <4>5. /\ \A i \in 1..Len(dev'.fifo) : dev'.fifo[i].fence = k - InFlight(dev) + i
            /\ Mine(dev)' = 1 => work.fence = k - Len(dev.queue)
            /\ dev'.pendingFence # 0 => dev'.pendingFence <= k - InFlight(dev)
            /\ dev'.completed # 0 => dev'.completed <= k - InFlight(dev)
            /\ \A j \in 1..(k - InFlight(dev)) : j \in done
            /\ \A j \in 1..dev'.pendingFence : j \in done
            /\ \A j \in 1..dev'.completed : j \in done
        BY <2>4, <2>5, <3>1, <4>1 DEF Ordered
      <4> QED BY <1>0, <2>4, <2>5, <4>2, <4>3, <4>4, <4>5 DEF Ordered
    <3> QED BY <3>3, <3>4, <3>5
  <2> QED BY <1>3, <2>8, <2>9 DEF Fencing
<1>5. CASE ~Takes(dev, call)
  <2>1. dev' = Refused(dev, call) /\ UNCHANGED <<worker, accepted>>
    BY <1>5 DEF Doorbell
  <2>2. SameWork(dev, dev') /\ dev'.posted = dev.posted
    BY <1>1, <2>1, RefusedIs DEF SameWork
  <2>3. Kept
    BY <1>0, <1>1, <2>1, <2>2, PollKeeps
  <2>4. FencesInOrder'
    <3> SUFFICES ASSUME "moved" \notin cause'
                 PROVE  \E k \in Nat : accepted' = 1..k /\ Ordered(dev, k)' /\ Numbered(k)'
      BY DEF FencesInOrder
    <3>1. PICK k \in Nat : accepted = 1..k /\ Ordered(dev, k) /\ Numbered(k)
      BY <1>0, <1>1 DEF FencesInOrder
    <3>2. drv.fence = k + 1 /\ dev.posted /\ drv.ready
      BY <1>0, <1>1, <3>1 DEF Numbered, Step, Bound
    <3>3. Numbered(k)'
      BY <1>0, <1>2, <2>2, <3>2 DEF Numbered, Step
    <3> QED BY <2>1, <2>3, <3>1, <3>3 DEF Kept
  <2> QED BY <1>3, <2>3, <2>4 DEF Fencing, Kept
<1> QED BY <1>4, <1>5

\* The worker finds nothing it may take.
LEMMA WorkerSleepsFencing == ASSUME Typed, Fencing, WorkerSleeps PROVE Fencing'
<1>1. /\ worker = "awake" /\ worker' = "asleep"
      /\ UNCHANGED <<async, dev, work, drv, current, call, accepted, done, cause,
                     failures, moves>>
  BY DEF WorkerSleeps
<1>2. SameWork(dev, dev') /\ Sound(dev)
  BY <1>1 DEF SameWork, Fencing
<1>3. Kept
  BY <1>1, <1>2, PollKeeps
<1> QED BY <1>1, <1>3, RestFencing

\* The worker takes the oldest command.
LEMMA WorkerTakesFencing == ASSUME Typed, Fencing, WorkerTakes PROVE Fencing'
<1>1. /\ worker = "awake" /\ worker' = "busy" /\ work' = Head(dev.queue)
      /\ dev' = [dev EXCEPT !.queue = Tail(@)] /\ dev.queue # <<>>
      /\ UNCHANGED <<async, drv, current, call, accepted, done, cause, failures, moves>>
  BY DEF WorkerTakes, MayTake
<1>2. dev \in Device /\ Sound(dev) /\ dev.queue \in Seq(Works)
  BY TypedFacts DEF Fencing
<1>3. /\ dev' \in Device /\ dev'.queue = Tail(dev.queue)
      /\ Len(dev'.queue) = Len(dev.queue) - 1 /\ Len(dev.queue) \in Nat \ {0}
      /\ dev'.posted = dev.posted /\ dev'.gen = dev.gen /\ dev'.fifo = dev.fifo
      /\ dev'.ready = dev.ready /\ dev'.poisoned = dev.poisoned
      /\ dev'.completed = dev.completed /\ dev'.pendingFence = dev.pendingFence
      /\ dev'.resetPending = dev.resetPending
      /\ dev'.resetCompleted = dev.resetCompleted /\ dev'.error = dev.error
  BY <1>1, <1>2, TailIs
<1>4. work' = dev.queue[1] /\ \A i \in 1..Len(dev'.queue) : dev'.queue[i] = dev.queue[i + 1]
  <2>1. \A i \in 1..Len(dev.queue) - 1 : Tail(dev.queue)[i] = dev.queue[i + 1]
    BY <1>1, <1>2
  <2> QED BY <1>1, <1>2, <1>3, <2>1
<1>5. \A i \in 1..Len(dev'.queue) : i + 1 \in 1..Len(dev.queue)
  BY <1>3
<1>6. 1 \in 1..Len(dev.queue) /\ ~dev.poisoned /\ dev.gen \in Nat
  BY <1>1, <1>2, <1>3, MineType DEF Sound
<1>7. work'.gen = dev.gen /\ (work'.kind = "reset" => work'.fence = 0)
  BY <1>2, <1>4, <1>6 DEF Sound
<1>8. Sound(dev)'
  <2>1. \A i \in 1..Len(dev'.queue) :
          /\ dev'.queue[i].gen = dev'.gen
          /\ dev'.queue[i].kind = "reset" => dev'.queue[i].fence = 0
    BY <1>2, <1>3, <1>4, <1>5 DEF Sound
  <2> QED BY <1>1, <1>2, <1>3, <1>6, <1>7, <2>1 DEF Sound
<1>9. ASSUME NEW k \in Nat, Ordered(dev, k) PROVE Ordered(dev, k)'
  <2>1. Mine(dev) = 0 /\ Mine(dev)' = 1
    BY <1>1, <1>3, <1>7 DEF Mine
  <2> DEFINE f == Len(dev.fifo)
             q == Len(dev.queue)
  <2>2. /\ f \in Nat /\ q \in Nat /\ InFlight(dev) = f + q /\ Len(dev'.queue) = q - 1
        /\ InFlight(dev)' = f + 1 + (q - 1)
    <3>1. /\ f \in Nat /\ q \in Nat /\ InFlight(dev) = f + 0 + q
      BY <1>2, <2>1, MineType
    <3>2. InFlight(dev)' = f + 1 + (q - 1)
      BY <1>3, <2>1 DEF InFlight
    <3> QED BY <1>3, <3>1, <3>2
  <2>3. InFlight(dev)' = InFlight(dev)
    <3> HIDE DEF f, q
    <3> QED BY <2>2
  <2>4. work'.fence = k - Len(dev'.queue)
    <3>1. dev.queue[1].fence = k - q + 1
      BY <1>6, <1>9 DEF Ordered
    <3> HIDE DEF q
    <3> QED BY <1>4, <2>2, <3>1
  <2>5. \A i \in 1..Len(dev'.queue) : dev'.queue[i].fence = k - Len(dev'.queue) + i
    <3> SUFFICES ASSUME NEW i \in 1..Len(dev'.queue)
                 PROVE  dev'.queue[i].fence = k - Len(dev'.queue) + i
      OBVIOUS
    <3>1. dev'.queue[i].fence = k - q + (i + 1)
      BY <1>4, <1>5, <1>6, <1>9 DEF Ordered
    <3> HIDE DEF q
    <3> QED BY <2>2, <3>1
  <2> QED BY <1>1, <1>3, <1>6, <1>9, <2>1, <2>3, <2>4, <2>5 DEF Ordered
<1>10. Kept
  BY <1>8, <1>9 DEF Kept
<1> QED BY <1>1, <1>3, <1>10, RestFencing

\* The renderer answers out of order; the results stay in order.
LEMMA BackendFencing ==
    ASSUME Typed, Fencing, NEW i \in DOMAIN dev.fifo, NEW s \in {"complete", "failed"},
           BackendSettles(i, s)
    PROVE  Fencing'
<1>1. /\ dev.fifo[i].gpu = "pending"
      /\ dev' = [dev EXCEPT !.fifo[i].gpu = s]
      /\ done' = IF s = "complete" THEN done \cup {dev.fifo[i].fence} ELSE done
      /\ cause' = IF s = "failed" THEN cause \cup {"backend"} ELSE cause
      /\ UNCHANGED <<async, worker, work, drv, current, call, accepted, moves>>
  BY DEF BackendSettles
<1>2. /\ dev \in Device /\ dev.fifo \in Seq(Results) /\ i \in 1..Len(dev.fifo) /\ Sound(dev)
  BY TypedFacts DEF Fencing
<1>3. AnsweredAs(dev, i, s, dev')
  BY <1>1, <1>2, AnsweredIs, Zenon
<1>4. /\ dev' \in Device /\ Len(dev'.fifo) = Len(dev.fifo)
      /\ \A j \in 1..Len(dev.fifo) : j # i => dev'.fifo[j] = dev.fifo[j]
      /\ dev'.fifo[i].kind = dev.fifo[i].kind /\ dev'.fifo[i].fence = dev.fifo[i].fence
      /\ dev'.fifo[i].status = dev.fifo[i].status /\ dev'.fifo[i].gpu = s
      /\ dev'.queue = dev.queue /\ dev'.posted = dev.posted /\ dev'.gen = dev.gen
      /\ dev'.ready = dev.ready /\ dev'.poisoned = dev.poisoned
      /\ dev'.completed = dev.completed /\ dev'.pendingFence = dev.pendingFence
      /\ dev'.resetPending = dev.resetPending
      /\ dev'.resetCompleted = dev.resetCompleted /\ dev'.error = dev.error
  BY <1>3, Zenon DEF AnsweredAs
<1>5. done \subseteq done' /\ cause \subseteq cause'
  BY <1>1
<1>6. ~dev.poisoned
  <2>1. dev.fifo # <<>>
    BY <1>2
  <2> QED BY <1>2, <2>1 DEF Sound
<1>7. Sound(dev)'
  <2>1. \A j \in 1..Len(dev'.fifo) :
          /\ dev'.fifo[j].kind = "reset" => dev'.fifo[j].fence = 0
          /\ dev'.fifo[j].gpu = "failed" => "backend" \in cause'
          /\ dev'.fifo[j].gpu = "complete" => dev'.fifo[j].fence \in done'
          /\ dev'.fifo[j].status # "pending" => dev'.fifo[j].status = dev'.fifo[j].gpu
    <3> SUFFICES ASSUME NEW j \in 1..Len(dev.fifo)
                 PROVE  /\ dev'.fifo[j].kind = "reset" => dev'.fifo[j].fence = 0
                        /\ dev'.fifo[j].gpu = "failed" => "backend" \in cause'
                        /\ dev'.fifo[j].gpu = "complete" => dev'.fifo[j].fence \in done'
                        /\ dev'.fifo[j].status # "pending" =>
                               dev'.fifo[j].status = dev'.fifo[j].gpu
      BY <1>4
    <3>1. /\ dev.fifo[j].kind = "reset" => dev.fifo[j].fence = 0
          /\ dev.fifo[j].gpu = "failed" => "backend" \in cause
          /\ dev.fifo[j].gpu = "complete" => dev.fifo[j].fence \in done
          /\ dev.fifo[j].status # "pending" => dev.fifo[j].status = dev.fifo[j].gpu
      BY <1>2 DEF Sound
    <3>2. CASE j # i
      BY <1>4, <1>5, <3>1, <3>2
    <3>3. CASE j = i
      <4>1. dev.fifo[i].status = "pending"
        BY <1>1, <3>1, <3>3
      <4> QED BY <1>1, <1>4, <3>1, <3>3, <4>1
    <3> QED BY <3>2, <3>3
  <2> QED BY <1>1, <1>2, <1>4, <1>6, <2>1 DEF Sound
<1>8. ASSUME NEW k \in Nat, Ordered(dev, k) PROVE Ordered(dev, k)'
  <2>1. Mine(dev)' = Mine(dev) /\ InFlight(dev)' = InFlight(dev)
    BY <1>1, <1>4 DEF Mine, InFlight
  <2>2. \A j \in 1..Len(dev.fifo) : dev'.fifo[j].fence = dev.fifo[j].fence
    BY <1>4
  <2> QED BY <1>1, <1>4, <1>5, <1>6, <1>8, <2>1, <2>2 DEF Ordered
<1>9. Kept
  BY <1>7, <1>8 DEF Kept
<1> QED BY <1>1, <1>4, <1>5, <1>9, RestFencing

\* Nothing happens.
LEMMA StutterFencing == ASSUME Typed, Fencing, UNCHANGED vars PROVE Fencing'
<1>1. UNCHANGED <<async, dev, worker, work, drv, current, call, accepted, done, cause,
                  failures, moves>>
  BY DEF vars
<1>2. SameWork(dev, dev') /\ Sound(dev)
  BY <1>1 DEF SameWork, Fencing
<1>3. Kept
  BY <1>1, <1>2, PollKeeps
<1> QED BY <1>1, <1>3, RestFencing

\* A result takes the last place of the FIFO, or is dropped with its generation.
LEMMA WorkerEndsFencing ==
    ASSUME Typed, Fencing, NEW s \in {"complete", "pending", "failed"}, WorkerEnds(s)
    PROVE  Fencing'
<1>d. PICK d : d = IF work.kind = "present" THEN [dev EXCEPT !.presents = @ - 1] ELSE dev
  OBVIOUS
<1>0. /\ worker = "busy" /\ worker' = "awake" /\ work' = NoWork /\ s \in States(work)
      /\ dev' = Ended(d, work, s)
      /\ done' = IF s = "complete" /\ work.gen = dev.gen THEN done \cup {work.fence} ELSE done
      /\ cause' = IF s = "failed" /\ work.gen = dev.gen THEN cause \cup {"backend"} ELSE cause
      /\ UNCHANGED <<async, drv, current, call, accepted, moves>>
  BY <1>d DEF WorkerEnds
<1>1. /\ dev \in Device /\ work \in Works /\ Sound(dev) /\ DevTyped(dev) /\ async \in BOOLEAN
      /\ dev.fifo \in Seq(Results) /\ dev.queue \in Seq(Works)
  BY TypedFacts DEF RestTyped, Fencing
<1>2. ReleasedAs(dev, work.kind, d)
  BY <1>d, <1>1, ReleasedIs, Zenon
<1>3. EndedAs(d, work, s, dev')
  <2>1. d \in Device
    BY <1>2 DEF ReleasedAs
  <2> QED BY <1>0, <1>1, <2>1, EndedIs, Zenon
<1>4. /\ dev' \in Device /\ dev'.posted = dev.posted /\ dev'.gen = dev.gen
      /\ dev'.ready = dev.ready /\ dev'.completed = dev.completed
      /\ dev'.resetPending = dev.resetPending /\ dev'.error = dev.error
  BY <1>2, <1>3, Zenon DEF ReleasedAs, EndedAs
<1> DEFINE r == [kind |-> work.kind, fence |-> work.fence, status |-> s, gpu |-> s]
<1>5. \/ /\ dev'.queue = dev.queue /\ dev'.fifo = dev.fifo
         /\ dev'.poisoned = dev.poisoned
         /\ \/ /\ ~Counts(work)
               /\ dev'.pendingFence = dev.pendingFence
               /\ dev'.resetCompleted = dev.resetCompleted
            \/ /\ Counts(work) /\ ~async /\ s # "failed"
               /\ dev'.pendingFence = (IF work.fence # 0 THEN work.fence ELSE dev.pendingFence)
               /\ dev'.resetCompleted = (dev.resetCompleted \/ work.kind = "reset")
      \/ /\ Counts(work) /\ async
         /\ dev'.queue = dev.queue /\ dev'.fifo = Append(dev.fifo, r)
         /\ dev'.poisoned = dev.poisoned
         /\ dev'.pendingFence = dev.pendingFence
         /\ dev'.resetCompleted = dev.resetCompleted
      \/ /\ Counts(work) /\ ~async /\ s = "failed"
         /\ dev'.queue = <<>> /\ dev'.fifo = dev.fifo /\ dev'.poisoned = TRUE
         /\ dev'.pendingFence = dev.pendingFence /\ dev'.resetCompleted = FALSE
  BY <1>2, <1>3, Zenon DEF ReleasedAs, EndedAs
<1>6. r \in Results /\ r.kind = work.kind /\ r.fence = work.fence /\ r.status = s /\ r.gpu = s
  BY <1>1 DEF Results, Works
<1> HIDE DEF r
<1>7. ~async => Len(dev.fifo) = 0 /\ dev.fifo = <<>>
  <2>1. ~async => Len(dev.fifo) = 0
    BY <1>1 DEF DevTyped
  <2> QED BY <1>0, <1>1, <2>1, EmptySeq
<1>8. work'.gen = 1 /\ work'.kind = "barrier" /\ dev.gen \in Nat \ {0} /\ Mine(dev)' = 0
  <2>1. work'.gen = 1 /\ work'.kind = "barrier" /\ Mine(dev)' = 0
    BY <1>0 DEF NoWork, Mine
  <2>2. dev.gen \in 1..MaxGeneration
    BY <1>1 DEF Device
  <2> QED BY <2>1, <2>2, BoundsAssumption
<1>9. Counts(work) => work.gen = dev.gen /\ ~dev.poisoned /\ Mine(dev) = 1
  BY <1>0 DEF Counts, Mine
<1>10. ~Counts(work) => dev.poisoned \/ Mine(dev) = 0
  BY DEF Counts, Mine
<1>11. done \subseteq done' /\ cause \subseteq cause'
  BY <1>0
<1>12. ASSUME Counts(work), async, dev'.fifo = Append(dev.fifo, r)
       PROVE  /\ Len(dev'.fifo) = Len(dev.fifo) + 1
              /\ \A i \in 1..Len(dev.fifo) : dev'.fifo[i] = dev.fifo[i]
              /\ dev'.fifo[Len(dev.fifo) + 1] = r
              /\ \A i \in 1..Len(dev'.fifo) : i \in 1..Len(dev.fifo) \/ i = Len(dev.fifo) + 1
  <2>1. /\ Len(dev'.fifo) = Len(dev.fifo) + 1 /\ Len(dev.fifo) \in Nat
        /\ \A i \in 1..Len(dev.fifo) : dev'.fifo[i] = dev.fifo[i]
        /\ dev'.fifo[Len(dev.fifo) + 1] = r
    BY <1>1, <1>6, <1>12
  <2> QED BY <2>1
<1>13. Sound(dev)'
  <2>1. dev'.ready => ~dev'.resetPending
    BY <1>1, <1>4 DEF Sound
  <2>2. work'.gen <= dev'.gen
    BY <1>4, <1>8
  <2>3. CASE dev'.fifo = dev.fifo /\ dev'.queue = dev.queue /\ dev'.poisoned = dev.poisoned
             /\ (dev'.resetCompleted => dev.resetCompleted \/ ~dev.poisoned)
    BY <1>1, <1>4, <1>8, <1>11, <2>1, <2>2, <2>3 DEF Sound
  <2>4. CASE /\ Counts(work) /\ async
             /\ dev'.queue = dev.queue /\ dev'.fifo = Append(dev.fifo, r)
             /\ dev'.poisoned = dev.poisoned
    <3>1. \A i \in 1..Len(dev'.fifo) :
            /\ dev'.fifo[i].kind = "reset" => dev'.fifo[i].fence = 0
            /\ dev'.fifo[i].gpu = "failed" => "backend" \in cause'
            /\ dev'.fifo[i].gpu = "complete" => dev'.fifo[i].fence \in done'
            /\ dev'.fifo[i].status # "pending" => dev'.fifo[i].status = dev'.fifo[i].gpu
      <4>1. /\ r.kind = "reset" => r.fence = 0
            /\ r.gpu = "failed" => "backend" \in cause'
            /\ r.gpu = "complete" => r.fence \in done'
            /\ r.status # "pending" => r.status = r.gpu
        BY <1>0, <1>1, <1>6, <1>9, <2>4 DEF Sound
      <4>2. \A i \in 1..Len(dev.fifo) :
              /\ dev.fifo[i].kind = "reset" => dev.fifo[i].fence = 0
              /\ dev.fifo[i].gpu = "failed" => "backend" \in cause'
              /\ dev.fifo[i].gpu = "complete" => dev.fifo[i].fence \in done'
              /\ dev.fifo[i].status # "pending" => dev.fifo[i].status = dev.fifo[i].gpu
        BY <1>1, <1>11 DEF Sound
      <4> QED BY <1>12, <2>4, <4>1, <4>2, Zenon
    <3> QED BY <1>1, <1>4, <1>8, <1>9, <2>1, <2>2, <2>4, <3>1 DEF Sound
  <2>5. CASE /\ Counts(work) /\ ~async /\ s = "failed"
             /\ dev'.queue = <<>> /\ dev'.fifo = dev.fifo /\ dev'.poisoned = TRUE
             /\ dev'.resetCompleted = FALSE
    <3>1. Len(dev'.queue) = 0 /\ Len(dev'.fifo) = 0 /\ dev'.fifo = <<>> /\ "backend" \in cause'
      BY <1>0, <1>7, <1>9, <2>5
    <3> QED BY <1>8, <2>1, <2>2, <2>5, <3>1 DEF Sound
  <2> QED BY <1>5, <1>9, <2>3, <2>4, <2>5
<1>14. ASSUME NEW k \in Nat, Ordered(dev, k) PROVE Ordered(dev, k)'
  <2> DEFINE f == Len(dev.fifo)
             q == Len(dev.queue)
             g == InFlight(dev)
             h == InFlight(dev)'
  <2>1. /\ f \in Nat /\ q \in Nat /\ Mine(dev) \in {0, 1} /\ g = f + Mine(dev) + q /\ g \in Nat
        /\ dev.pendingFence \in Nat /\ dev.completed \in Nat
    BY <1>1, MineType
  <2>2. h = Len(dev'.fifo) + 0 + Len(dev'.queue)
    BY <1>8 DEF InFlight
  <2>3. /\ \A j \in 1..dev.pendingFence : j \in done'
        /\ \A j \in 1..dev.completed : j \in done'
    BY <1>11, <1>14 DEF Ordered
  <2>4. CASE ~Counts(work) /\ dev'.queue = dev.queue /\ dev'.fifo = dev.fifo
             /\ dev'.poisoned = dev.poisoned /\ dev'.pendingFence = dev.pendingFence
             /\ dev'.resetCompleted = dev.resetCompleted
    <3>1. CASE dev.poisoned
      BY <1>4, <1>14, <2>3, <2>4, <3>1 DEF Ordered
    <3>2. CASE ~dev.poisoned
      <4>1. InFlight(dev)' = InFlight(dev)
        <5>1. h = f + 0 + q /\ g = f + 0 + q
          BY <1>10, <2>1, <2>2, <2>4, <3>2
        <5> QED BY <5>1
      <4>2. /\ \A i \in 1..Len(dev.queue) : dev.queue[i].fence = k - Len(dev.queue) + i
            /\ \A i \in 1..Len(dev.fifo) : dev.fifo[i].fence = k - InFlight(dev) + i
            /\ InFlight(dev) <= k + 1
            /\ dev.ready \/ dev.resetCompleted => InFlight(dev) <= k
            /\ dev.pendingFence # 0 => dev.pendingFence <= k - InFlight(dev)
            /\ dev.completed # 0 => dev.completed <= k - InFlight(dev)
            /\ \A j \in 1..(k - InFlight(dev)) : j \in done'
        BY <1>11, <1>14, <3>2 DEF Ordered
      <4>3. Mine(dev)' # 1
        BY <1>8
      <4> QED BY <1>4, <2>3, <2>4, <3>2, <4>1, <4>2, <4>3, Zenon DEF Ordered
    <3> QED BY <3>1, <3>2
  <2>5. CASE /\ Counts(work) /\ ~async /\ s # "failed"
             /\ dev'.queue = dev.queue /\ dev'.fifo = dev.fifo
             /\ dev'.poisoned = dev.poisoned
             /\ dev'.pendingFence = (IF work.fence # 0 THEN work.fence ELSE dev.pendingFence)
             /\ dev'.resetCompleted = (dev.resetCompleted \/ work.kind = "reset")
    <3>1. s = "complete"
      BY <1>0, <2>5 DEF States
    <3>2. h = q /\ g = q + 1 /\ f = 0
      <4>1. f = 0 /\ Mine(dev) = 1 /\ h = f + 0 + q
        BY <1>7, <1>9, <2>2, <2>5
      <4> HIDE DEF f, q, g, h
      <4> QED BY <2>1, <4>1
    <3>3. /\ work.fence = k - q /\ work.fence \in done'
          /\ dev.pendingFence # 0 => dev.pendingFence <= k - g
          /\ dev.completed # 0 => dev.completed <= k - g
          /\ \A j \in 1..(k - g) : j \in done
          /\ g <= k + 1 /\ (dev.ready \/ dev.resetCompleted => g <= k)
          /\ \A i \in 1..q : dev.queue[i].fence = k - q + i
      <4>1. work.fence = k - q
        BY <1>9, <1>14, <2>5 DEF Ordered
      <4>2. work.fence \in done'
        BY <1>0, <1>9, <2>5, <3>1
      <4> QED BY <1>9, <1>14, <2>5, <4>1, <4>2 DEF Ordered
    <3>4. work.kind = "reset" => work.fence = 0
      BY <1>1 DEF Sound
    <3> HIDE DEF f, q, g, h
    <3>5. /\ h <= k + 1 /\ (dev'.ready \/ dev'.resetCompleted => h <= k)
          /\ dev'.pendingFence # 0 => dev'.pendingFence <= k - h
          /\ dev'.completed # 0 => dev'.completed <= k - h
      BY <1>4, <2>1, <2>5, <3>2, <3>3, <3>4
    <3>6. \A j \in 1..(k - h) : j \in done'
      <4> SUFFICES ASSUME NEW j \in 1..(k - h) PROVE j \in done'
        OBVIOUS
      <4>1. j \in 1..(k - g) \/ j = work.fence
        BY <2>1, <3>2, <3>3
      <4> QED BY <1>11, <3>3, <4>1
    <3>7. \A j \in 1..dev'.pendingFence : j \in done'
      <4>1. CASE work.fence # 0
        BY <2>1, <2>5, <3>2, <3>3, <3>6, <4>1
      <4>2. CASE work.fence = 0
        BY <2>3, <2>5, <4>2
      <4> QED BY <4>1, <4>2
    <3>8. /\ \A i \in 1..Len(dev'.queue) : dev'.queue[i].fence = k - Len(dev'.queue) + i
          /\ Len(dev'.fifo) = 0 /\ ~dev'.poisoned
      BY <1>9, <2>5, <3>2, <3>3 DEF q, f
    <3>9. Mine(dev)' # 1 /\ \A i \in 1..Len(dev'.fifo) : dev'.fifo[i].fence = k - h + i
      BY <1>8, <3>8
    <3>10. \A j \in 1..dev'.completed : j \in done'
      BY <1>4, <2>3
    <3> QED BY <3>5, <3>6, <3>7, <3>8, <3>9, <3>10, Zenon DEF Ordered, h
  <2>6. CASE /\ Counts(work) /\ async
             /\ dev'.queue = dev.queue /\ dev'.fifo = Append(dev.fifo, r)
             /\ dev'.poisoned = dev.poisoned
             /\ dev'.pendingFence = dev.pendingFence
             /\ dev'.resetCompleted = dev.resetCompleted
    <3>1. Len(dev'.fifo) = f + 1 /\ g = f + 1 + q
      BY <1>9, <1>12, <2>1, <2>6
    <3>2. InFlight(dev)' = InFlight(dev)
      <4>1. h = (f + 1) + 0 + q
        BY <2>2, <2>6, <3>1
      <4>2. h = g
        <5> HIDE DEF f, q, g, h
        <5> QED BY <2>1, <3>1, <4>1
      <4> QED BY <4>2 DEF g, h
    <3>3. \A i \in 1..Len(dev'.fifo) : dev'.fifo[i].fence = k - InFlight(dev) + i
      <4> SUFFICES ASSUME NEW i \in 1..Len(dev'.fifo)
                   PROVE  dev'.fifo[i].fence = k - g + i
        OBVIOUS
      <4>1. CASE i \in 1..f
        BY <1>9, <1>12, <1>14, <2>6, <4>1 DEF Ordered
      <4>2. CASE i = f + 1
        <5>1. dev'.fifo[i].fence = k - q
          BY <1>6, <1>9, <1>12, <1>14, <2>6, <4>2 DEF Ordered
        <5>2. f \in Nat /\ q \in Nat /\ g = f + 1 + q
          BY <2>1, <3>1
        <5>3. k - q = k - g + (f + 1)
          <6> HIDE DEF f, q, g
          <6> QED BY <5>2
        <5> QED BY <4>2, <5>1, <5>3
      <4> QED BY <1>12, <2>6, <4>1, <4>2
    <3>4. /\ \A i \in 1..Len(dev.queue) : dev.queue[i].fence = k - Len(dev.queue) + i
          /\ InFlight(dev) <= k + 1
          /\ dev.ready \/ dev.resetCompleted => InFlight(dev) <= k
          /\ dev.pendingFence # 0 => dev.pendingFence <= k - InFlight(dev)
          /\ dev.completed # 0 => dev.completed <= k - InFlight(dev)
          /\ \A j \in 1..(k - InFlight(dev)) : j \in done'
      BY <1>9, <1>11, <1>14, <2>6 DEF Ordered
    <3>5. Mine(dev)' # 1 /\ ~dev'.poisoned
      BY <1>8, <1>9, <2>6
    <3> QED BY <1>4, <2>3, <2>6, <3>2, <3>3, <3>4, <3>5, Zenon DEF Ordered
  <2>7. CASE /\ Counts(work) /\ ~async /\ s = "failed"
             /\ dev'.queue = <<>> /\ dev'.fifo = dev.fifo /\ dev'.poisoned = TRUE
             /\ dev'.pendingFence = dev.pendingFence /\ dev'.resetCompleted = FALSE
    <3>1. /\ dev.pendingFence # 0 => dev.pendingFence <= k - g
          /\ dev.completed # 0 => dev.completed <= k - g
          /\ g >= 1
      <4>1. Mine(dev) = 1 /\ ~dev.poisoned
        BY <1>9, <2>7
      <4>2. g >= 1
        <5> HIDE DEF f, q, g
        <5> QED BY <2>1, <4>1
      <4> QED BY <1>14, <4>1, <4>2 DEF Ordered
    <3> HIDE DEF f, q, g, h
    <3>2. /\ dev'.pendingFence # 0 => dev'.pendingFence < k
          /\ dev'.completed # 0 => dev'.completed < k
      BY <1>4, <2>1, <2>7, <3>1
    <3> QED BY <1>4, <2>3, <2>7, <3>2 DEF Ordered
  <2> QED BY <1>5, <2>4, <2>5, <2>6, <2>7
<1>15. Kept
  BY <1>13, <1>14 DEF Kept
<1>16. dev.poisoned => dev'.poisoned
  BY <1>5
<1> QED BY <1>0, <1>4, <1>11, <1>15, <1>16, RestFencing

\* The machine starts with no fence in flight.
LEMMA InitFencing == Init => Fencing
<1> SUFFICES ASSUME Init PROVE Fencing
  OBVIOUS
<1>1. /\ dev.queue = <<>> /\ dev.fifo = <<>> /\ ~dev.poisoned /\ dev.gen = 1 /\ ~dev.resetPending
      /\ dev.pendingFence = 0 /\ dev.completed = 0
      /\ worker = "awake" /\ work = NoWork /\ call = Idle /\ current
      /\ accepted = {} /\ ~drv.up /\ ~drv.ready /\ drv.fence = 1
  BY DEF Init
<1>2. Len(dev.queue) = 0 /\ Len(dev.fifo) = 0
  BY <1>1
<1>3. Sound(dev)
  BY <1>1, <1>2 DEF Sound, NoWork
<1>4. Bound
  BY <1>1 DEF Bound
<1>5. accepted = 1..0 /\ Ordered(dev, 0) /\ Numbered(0)
  <2>1. Mine(dev) = 0 /\ InFlight(dev) = 0
    BY <1>1, <1>2 DEF Mine, InFlight
  <2> QED BY <1>1, <1>2, <2>1 DEF Ordered, Numbered, Step
<1> QED BY <1>3, <1>4, <1>5 DEF Fencing, FencesInOrder

\* Every step keeps the order of the fences.
LEMMA NextFencing == ASSUME Typed, Fencing, [Next]_vars PROVE Fencing'
<1>1. CASE ContextCall \/ WorkCall
  BY <1>1, CallsFencing
<1>2. CASE Post \/ Doorbell \/ Verify
  BY <1>2, PostFencing, DoorbellFencing, VerifyFencing
<1>3. CASE Bind \/ Shutdown \/ Move \/ MachinePolls
  BY <1>3, BindFencing, ShutdownFencing, MoveFencing, MachinePollsFencing
<1>4. CASE Worker
  BY <1>4, WorkerSleepsFencing, WorkerTakesFencing, WorkerEndsFencing DEF Worker
<1>5. CASE Backend
  BY <1>5, BackendFencing DEF Backend
<1>6. CASE UNCHANGED vars
  BY <1>6, StutterFencing
<1> QED BY <1>1, <1>2, <1>3, <1>4, <1>5, <1>6 DEF Next

\* The inductive invariant of the fences: those the device has accepted are 1..k,
\* the ones in flight (FIFO, worker, queue) are the last of them in this order,
\* and all before them are done, whatever order the renderer answers in.
THEOREM AlwaysInOrder == Spec => []Fencing
BY InitFencing, NextFencing, AlwaysTyped, PTL DEF Spec

\* A fence that the guest reads from the device is done, with all before it, and
\* one the driver has given out: no result overtakes another in
\* gsw3d_poll_backend_completions, none of an earlier generation counts after
\* gsw3d_reset, and none is published after a failure.
THEOREM FencesAreTrue == Spec => []FencesTellTheTruth
<1>1. ASSUME Typed, Fencing PROVE FencesTellTheTruth
  <2> SUFFICES ASSUME Ready, "moved" \notin cause
               PROVE  1..dev.completed \subseteq done /\ dev.completed < drv.fence
    BY DEF FencesTellTheTruth
  <2>1. PICK k \in Nat : accepted = 1..k /\ Ordered(dev, k) /\ Numbered(k)
    BY <1>1 DEF Fencing, FencesInOrder
  <2>2. call = Idle /\ (drv.fence = k + 1 \/ (dev.poisoned /\ drv.fence = k)) /\ drv.fence \in Nat \ {0}
    <3>1. drv.fence \in Nat \ {0}
      BY <1>1, TypedFacts
    <3> QED BY <2>1, <3>1, Zenon DEF Ready, Numbered
  <2>3. dev.completed \in Nat /\ InFlight(dev) \in Nat
    BY <1>1, TypedFacts, MineType
  <2>4. dev.completed # 0 => dev.completed < drv.fence
    <3>1. CASE dev.poisoned
      BY <2>1, <2>2, <2>3, <3>1 DEF Ordered
    <3>2. CASE ~dev.poisoned
      <4>1. dev.completed # 0 => dev.completed <= k - InFlight(dev)
        BY <2>1, <3>2 DEF Ordered
      <4> PICK g : g = InFlight(dev)
        OBVIOUS
      <4>2. g \in Nat /\ (dev.completed # 0 => dev.completed <= k - g) /\ drv.fence = k + 1
        BY <2>2, <2>3, <3>2, <4>1
      <4> QED BY <2>3, <4>2
    <3> QED BY <3>1, <3>2
  <2> QED BY <2>1, <2>2, <2>3, <2>4 DEF Ordered
<1> QED BY <1>1, AlwaysTyped, AlwaysInOrder, PTL

-----------------------------------------------------------------------------
(* The contexts, the staging region and the errors of the device.            *)

\* The device holds the contexts of the driver's table, but for the command
\* it has accepted and the driver has not verified.
Agree ==
    IF Step("verify") /\ ~dev.posted
    THEN /\ call.op = "create" => dev.contexts = Owned \cup {call.cid}
         /\ call.op \in {"destroy", "cleanup"} => dev.contexts = Owned \ {call.cid}
         /\ call.op \notin {"create", "destroy", "cleanup"} => dev.contexts = Owned
    ELSE dev.contexts = Owned

Held ==
    "moved" \notin cause =>
        /\ ~drv.ready => dev.contexts = {} /\ drv.owner = NoOwner /\ ~dev.region
        /\ ~dev.error /\ "orphan" \notin cause => Agree

Pending == Step("post") \/ Step("doorbell")

\* As long as nothing has gone wrong, the device can execute the command of
\* every call.
Quiet ==
    cause = {} =>
        /\ ~dev.error
        /\ drv.ready /\ (call = Idle \/ call.op \in Submissions) => dev.region
        /\ call # Idle /\ call.op = "register" =>
              /\ dev.ready
              /\ Pending => ~dev.region /\ accepted = {}
              /\ Step("verify") => dev.region /\ ~dev.posted
        /\ Pending /\ call.op = "unregister" => dev.region
        /\ Pending /\ call.op = "create" =>
              drv.owner[call.cid] = None /\ Cardinality(Owned) < ContextCapacity
        /\ Pending /\ call.op \in {"destroy", "cleanup", "submit", "present"} =>
              drv.owner[call.cid] # None
        /\ call # Idle /\ call.op \in {"register", "unregister"} => call.valid

Holding == Held /\ Quiet

\* A step of the host alone keeps the contexts and causes no error by itself.
LEMMA RestHolding ==
    ASSUME Holding, UNCHANGED <<call, drv, accepted>>, cause \subseteq cause',
           dev'.contexts = dev.contexts, dev'.region = dev.region, dev'.posted = dev.posted,
           dev.error => dev'.error, dev'.error => dev.error \/ cause' # {},
           dev.ready /\ cause' = {} => dev'.ready
    PROVE  Holding'
<1>1. Owned' = Owned
  BY DEF Owned
<1>2. Held'
  BY <1>1 DEF Holding, Held, Agree, Step
<1>3. Quiet'
  <2> SUFFICES ASSUME cause' = {} PROVE Quiet'
    BY DEF Quiet
  <2>1. cause = {}
    OBVIOUS
  <2> QED BY <1>1, <2>1 DEF Holding, Quiet, Pending, Step
<1> QED BY <1>2, <1>3 DEF Holding

\* A poll that finds a failure has a cause to report.
LEMMA PollHonest ==
    ASSUME Typed, Fencing, NEW p, p = Poll(dev)
    PROVE  Flags(dev, p) /\ (p.poisoned => "backend" \in cause)
<1>1. Sound(p) /\ Flags(dev, p)
  BY PollSound, PollFlags DEF Fencing
<1> QED BY <1>1 DEF Sound

\* The machine polls.
LEMMA MachinePollsHolding == ASSUME Typed, Fencing, Holding, MachinePolls PROVE Holding'
<1> PICK p : p = Poll(dev)
  OBVIOUS
<1>1. /\ dev' = p
      /\ UNCHANGED <<async, work, drv, current, call, accepted, done, cause, failures, moves>>
  BY DEF MachinePolls
<1>2. Flags(dev, p) /\ (p.poisoned => "backend" \in cause)
  BY PollHonest
<1> QED BY <1>1, <1>2, RestHolding DEF Flags

\* Nothing is promised once the device was moved.
LEMMA MoveHolding == ASSUME Move PROVE Holding'
BY DEF Move, Holding, Held, Quiet

\* The worker leaves the contexts alone.
LEMMA WorkerHolding == ASSUME Typed, Fencing, Holding, Worker PROVE Holding'
<1>1. CASE WorkerSleeps
  <2>1. UNCHANGED <<dev, drv, call, accepted, cause>>
    BY <1>1 DEF WorkerSleeps
  <2> QED BY <2>1, RestHolding
<1>2. CASE WorkerTakes
  <2>1. /\ dev' = [dev EXCEPT !.queue = Tail(@)] /\ dev.queue # <<>>
        /\ UNCHANGED <<drv, call, accepted, cause>>
    BY <1>2 DEF WorkerTakes, MayTake
  <2>2. /\ dev'.contexts = dev.contexts /\ dev'.region = dev.region
        /\ dev'.posted = dev.posted /\ dev'.error = dev.error /\ dev'.ready = dev.ready
    BY <2>1, TypedFacts, TailIs
  <2> QED BY <2>1, <2>2, RestHolding
<1>3. ASSUME NEW s \in {"complete", "pending", "failed"}, WorkerEnds(s) PROVE Holding'
  <2>d. PICK d : d = IF work.kind = "present" THEN [dev EXCEPT !.presents = @ - 1] ELSE dev
    OBVIOUS
  <2>1. /\ dev' = Ended(d, work, s) /\ cause \subseteq cause'
        /\ UNCHANGED <<drv, call, accepted>>
    BY <1>3, <2>d DEF WorkerEnds
  <2>2. dev \in Device /\ work \in Works
    BY TypedFacts DEF RestTyped
  <2>3. ReleasedAs(dev, work.kind, d)
    BY <2>d, <2>2, ReleasedIs, Zenon
  <2>4. EndedAs(d, work, s, dev')
    <3>1. d \in Device
      BY <2>3 DEF ReleasedAs
    <3> QED BY <2>1, <2>2, <3>1, EndedIs, Zenon
  <2>5. /\ dev'.contexts = dev.contexts /\ dev'.region = dev.region
        /\ dev'.posted = dev.posted /\ dev'.error = dev.error /\ dev'.ready = dev.ready
    BY <2>3, <2>4, Zenon DEF ReleasedAs, EndedAs
  <2> QED BY <2>1, <2>5, RestHolding
<1> QED BY <1>1, <1>2, <1>3 DEF Worker

\* The renderer leaves the contexts alone.
LEMMA BackendHolding == ASSUME Typed, Fencing, Holding, Backend PROVE Holding'
<1>1. PICK i \in DOMAIN dev.fifo, s \in {"complete", "failed"} : BackendSettles(i, s)
  BY DEF Backend
<1>2. /\ dev' = [dev EXCEPT !.fifo[i].gpu = s] /\ cause \subseteq cause'
      /\ UNCHANGED <<drv, call, accepted>>
  BY <1>1 DEF BackendSettles
<1>3. dev \in Device /\ i \in 1..Len(dev.fifo)
  BY TypedFacts
<1>4. AnsweredAs(dev, i, s, dev')
  BY <1>2, <1>3, AnsweredIs, Zenon
<1>5. /\ dev'.contexts = dev.contexts /\ dev'.region = dev.region
      /\ dev'.posted = dev.posted /\ dev'.error = dev.error /\ dev'.ready = dev.ready
  BY <1>4, Zenon DEF AnsweredAs
<1> QED BY <1>2, <1>5, RestHolding

\* A call begins, on a context that the table holds or lacks as it must.
LEMMA StartHolding ==
    ASSUME Holding, NEW op \in Submissions, NEW cid, NEW pid, NEW valid,
           Start(op, cid, pid, valid),
           op = "create" => drv.owner[cid] = None /\ Cardinality(Owned) < ContextCapacity,
           op \in {"destroy", "cleanup", "submit", "present"} => drv.owner[cid] # None
    PROVE  Holding'
<1> DEFINE c == [op |-> op, step |-> "post", cid |-> cid, pid |-> pid, valid |-> valid]
<1>1. /\ call' = c /\ call = Idle /\ drv.ready
      /\ UNCHANGED <<dev, drv, accepted, cause>>
  BY DEF Start, Ready
<1>2. c.step = "post" /\ c.op = op /\ c # Idle /\ c.cid = cid /\ op \notin {"register", "unregister"}
  BY DEF Submissions, Idle
<1> HIDE DEF c
<1>3. Owned' = Owned
  BY <1>1 DEF Owned
<1>4. Held'
  BY <1>1, <1>2, <1>3 DEF Holding, Held, Agree, Step
<1>5. Quiet'
  BY <1>1, <1>2, <1>3 DEF Holding, Quiet, Pending, Step
<1> QED BY <1>4, <1>5 DEF Holding

\* Every call of a process asks for what the device can do.
LEMMA CallsHolding == ASSUME Holding, ContextCall \/ WorkCall PROVE Holding'
<1>1. ASSUME NEW cid \in Contexts, NEW pid \in Processes,
             Create(cid, pid) \/ Destroy(cid, pid) \/ Cleanup(cid, pid)
      PROVE  Holding'
  <2>0. pid # None
    BY ProcessAssumption
  <2>1. CASE Create(cid, pid)
    <3>1. /\ Start("create", cid, pid, TRUE) /\ drv.owner[cid] = None
          /\ Cardinality(Owned) < ContextCapacity
      BY <2>1 DEF Create
    <3> QED BY <3>1, StartHolding DEF Submissions
  <2>2. CASE Destroy(cid, pid)
    <3>1. Start("destroy", cid, pid, TRUE) /\ drv.owner[cid] # None
      BY <2>0, <2>2 DEF Destroy
    <3> QED BY <3>1, StartHolding DEF Submissions
  <2>3. CASE Cleanup(cid, pid)
    <3>1. Start("cleanup", cid, pid, TRUE) /\ drv.owner[cid] # None
      BY <2>0, <2>3 DEF Cleanup
    <3> QED BY <3>1, StartHolding DEF Submissions
  <2> QED BY <1>1, <2>1, <2>2, <2>3
<1>2. ASSUME NEW valid \in BOOLEAN, Upload(valid) PROVE Holding'
  <2>1. Start("upload", None, None, valid)
    BY <1>2 DEF Upload
  <2> QED BY <2>1, StartHolding DEF Submissions
<1>3. ASSUME NEW valid \in BOOLEAN, NEW cid \in Contexts, Submit(cid, valid) \/ Present(cid, valid)
      PROVE  Holding'
  <2>1. CASE Submit(cid, valid)
    <3>1. Start("submit", cid, None, valid) /\ drv.owner[cid] # None
      BY <2>1 DEF Submit
    <3> QED BY <3>1, StartHolding DEF Submissions
  <2>2. CASE Present(cid, valid)
    <3>1. Start("present", cid, None, valid) /\ drv.owner[cid] # None
      BY <2>2 DEF Present
    <3> QED BY <3>1, StartHolding DEF Submissions
  <2> QED BY <1>3, <2>1, <2>2
<1> QED BY <1>1, <1>2, <1>3 DEF ContextCall, WorkCall

\* A table that is empty owns nothing.
LEMMA NoOwnerNext == drv'.owner = NoOwner => Owned' = {}
BY DEF Owned, NoOwner

\* The driver gives the device up.
LEMMA ShutdownHolding == ASSUME Typed, Fencing, Holding, Shutdown PROVE Holding'
<1>1. /\ call = Idle /\ drv.up
      /\ UNCHANGED <<async, dev, worker, work, current, accepted, done, cause, failures, moves>>
  BY DEF Shutdown
<1>2. Bound /\ drv \in Driver /\ Held /\ Quiet
  BY TypedFacts DEF Fencing, RestTyped, Holding
<1>3. CASE drv.ready /\ current
  <2> DEFINE c == [op |-> "unregister", step |-> "post", cid |-> None, pid |-> None, valid |-> TRUE]
  <2>1. drv' = [drv EXCEPT !.up = FALSE] /\ call' = c
    BY <1>3 DEF Shutdown
  <2>2. c # Idle /\ c.op = "unregister" /\ c.step = "post" /\ c.valid
    BY DEF Idle
  <2>3. drv'.ready = drv.ready /\ drv'.owner = drv.owner
    BY <1>2, <2>1 DEF Driver
  <2> HIDE DEF c
  <2>4. Owned' = Owned
    BY <2>3 DEF Owned
  <2>5. Held'
    BY <1>1, <1>2, <1>3, <2>1, <2>2, <2>3, <2>4 DEF Held, Agree, Step
  <2>6. Quiet'
    BY <1>1, <1>2, <1>3, <2>1, <2>2, <2>3 DEF Quiet, Pending, Step, Submissions
  <2> QED BY <2>5, <2>6 DEF Holding
<1>4. CASE ~(drv.ready /\ current)
  <2>1. drv' = [up |-> FALSE, ready |-> FALSE, fence |-> 1, owner |-> NoOwner] /\ call' = Idle
    BY <1>4 DEF Shutdown
  <2>2. drv'.ready = FALSE /\ drv'.owner = NoOwner /\ Owned' = {}
    BY <2>1, NoOwnerNext
  <2>3. Held'
    <3> SUFFICES ASSUME "moved" \notin cause PROVE Held'
      BY <1>1 DEF Held
    <3>1. ~drv.ready
      BY <1>2, <1>4 DEF Bound
    <3>2. dev.contexts = {} /\ ~dev.region
      BY <1>2, <3>1 DEF Held
    <3> QED BY <1>1, <2>1, <2>2, <3>2 DEF Held, Agree, Step
  <2>4. Quiet'
    BY <1>1, <1>2, <2>1, <2>2 DEF Quiet, Pending, Step
  <2> QED BY <2>3, <2>4 DEF Holding
<1> QED BY <1>3, <1>4

\* A binding finds a device without contexts and without a region.
LEMMA BindHolding == ASSUME Typed, Fencing, Holding, Bind PROVE Holding'
<1> PICK p : p = Poll(dev)
  OBVIOUS
<1> DEFINE c == [op |-> "register", step |-> "post", cid |-> None, pid |-> None, valid |-> TRUE]
<1>0. /\ call = Idle /\ (~drv.up \/ ~current)
      /\ dev' = IF p.ready THEN [p EXCEPT !.error = FALSE, !.posted = FALSE] ELSE p
      /\ drv' = [up |-> TRUE, ready |-> p.ready, fence |-> 1, owner |-> NoOwner]
      /\ call' = IF p.ready THEN c ELSE Idle
      /\ UNCHANGED <<async, work, accepted, done, cause, failures, moves>>
  BY DEF Bind, Initialize3d
<1>1. /\ Bound /\ FencesInOrder /\ Flags(dev, p) /\ p \in Device /\ Held /\ Quiet
      /\ p.poisoned => "backend" \in cause
  BY PollHonest DEF Fencing, Flags, Holding
<1>2. /\ dev'.contexts = dev.contexts /\ dev'.region = dev.region /\ dev'.ready = p.ready
      /\ dev'.error => p.error
  <2>1. CASE p.ready
    <3> PICK d : d = dev'
      OBVIOUS
    <3>1. d = [p EXCEPT !.error = FALSE, !.posted = FALSE]
      BY <1>0, <2>1
    <3>2. d.contexts = p.contexts /\ d.region = p.region /\ d.ready = p.ready /\ ~d.error
      BY <1>1, <3>1 DEF Device
    <3> QED BY <1>1, <3>2 DEF Flags
  <2>2. CASE ~p.ready
    BY <1>0, <1>1, <2>2 DEF Flags
  <2> QED BY <2>1, <2>2
<1>3. c # Idle /\ c.op = "register" /\ c.step = "post" /\ c.valid
  BY DEF Idle
<1>4. drv'.ready = p.ready /\ drv'.owner = NoOwner /\ Owned' = {}
  BY <1>0, NoOwnerNext
<1> HIDE DEF c
<1>5. ASSUME "moved" \notin cause
      PROVE  ~drv.ready /\ dev.contexts = {} /\ ~dev.region /\ accepted = {}
  <2>1. ~drv.ready
    BY <1>0, <1>1, <1>5 DEF Bound
  <2>2. PICK k \in Nat : accepted = 1..k /\ Numbered(k)
    BY <1>1, <1>5 DEF FencesInOrder
  <2>3. k = 0
    BY <2>1, <2>2 DEF Numbered
  <2> QED BY <1>1, <1>5, <2>1, <2>2, <2>3 DEF Held
<1>6. Held'
  BY <1>0, <1>2, <1>3, <1>4, <1>5 DEF Held, Agree, Step
<1>7. Quiet'
  <2> SUFFICES ASSUME cause' = {} PROVE Quiet'
    BY DEF Quiet
  <2>1. cause = {} /\ ~dev.error /\ ~p.poisoned
    BY <1>0, <1>1 DEF Quiet
  <2>2. ~dev'.error
    BY <1>1, <1>2, <2>1 DEF Flags
  <2>3. call' = Idle => ~drv'.ready
    BY <1>0, <1>3, <1>4
  <2>4. call' # Idle => call'.op = "register" /\ call'.valid /\ dev'.ready /\ call'.step = "post"
    BY <1>0, <1>2, <1>3
  <2>5. ~dev'.region /\ accepted' = {}
    BY <1>0, <1>2, <1>5, <2>1
  <2> QED BY <2>2, <2>3, <2>4, <2>5 DEF Quiet, Pending, Step, Submissions
<1> QED BY <1>6, <1>7 DEF Holding

\* The device takes a command and applies it, or refuses it and reports why.
LEMMA DoorbellHolding == ASSUME Typed, Fencing, Holding, Doorbell PROVE Holding'
<1>0. /\ call # Idle /\ call.step = "doorbell"
      /\ call' = [call EXCEPT !.step = "verify"]
      /\ cause' = cause \cup (IF call.valid THEN {} ELSE {"invalid"})
      /\ UNCHANGED <<async, work, drv, current, done, failures, moves>>
  BY DEF Doorbell
<1>1. /\ Sound(dev) /\ Bound /\ FencesInOrder /\ call \in Calls /\ dev \in Device
      /\ drv.fence \in Fences /\ Held /\ Quiet
  BY <1>0, TypedFacts, CallFacts DEF Fencing, Holding
<1>2. /\ call' # Idle /\ call'.step = "verify" /\ call'.op = call.op /\ call'.cid = call.cid
      /\ call'.valid = call.valid
  <2>1. /\ call' \in Calls /\ call'.step = "verify" /\ call'.op = call.op /\ call'.cid = call.cid
        /\ call'.valid = call.valid
    BY <1>0, CallFacts, Zenon
  <2> QED BY <2>1, CallsAreCalls
<1>3. Owned' = Owned /\ drv.ready
  BY <1>0, <1>1 DEF Owned, Bound
<1>4. "moved" \notin cause /\ ~dev.error /\ "orphan" \notin cause => dev.contexts = Owned
  BY <1>0, <1>1 DEF Held, Agree, Step
<1>5. CASE Takes(dev, call)
  <2>1. dev' = Taken(dev, call, drv.fence)
    BY <1>5 DEF Doorbell
  <2>w. PICK w : w = [kind |-> KindOf(call.op), gen |-> dev.gen, fence |-> drv.fence]
    OBVIOUS
  <2>2. TakenAs(dev, call, w, dev')
    <3>1. call.op \in {"create", "destroy", "cleanup"} => call.cid \in Contexts
      BY <1>0 DEF Typed, CallBounds, OnContexts
    <3> QED BY <1>1, <2>1, <2>w, <3>1, TakenIs, Zenon
  <2>3. /\ dev'.posted = FALSE
        /\ dev'.region = ((dev.region \/ call.op = "register") /\ call.op # "unregister")
        /\ call.op = "create" => dev'.contexts = dev.contexts \cup {call.cid}
        /\ call.op \in {"destroy", "cleanup"} => dev'.contexts = dev.contexts \ {call.cid}
        /\ call.op \notin {"create", "destroy", "cleanup"} => dev'.contexts = dev.contexts
        /\ dev'.ready = dev.ready /\ dev'.error = dev.error
    BY <2>2, Zenon DEF TakenAs
  <2>4. Held'
    <3>1. Step("verify")' /\ ~dev'.posted
      BY <1>2, <2>3 DEF Step
    <3>2. "moved" \notin cause' => "moved" \notin cause
      BY <1>0
    <3>3. "orphan" \notin cause' => "orphan" \notin cause
      BY <1>0
    <3> QED BY <1>0, <1>2, <1>3, <1>4, <2>3, <3>1, <3>2, <3>3 DEF Held, Agree
  <2>5. Quiet'
    <3> SUFFICES ASSUME cause' = {} PROVE Quiet'
      BY DEF Quiet
    <3>1. cause = {} /\ call.valid
      BY <1>0
    <3>2. call.op \in Submissions => dev.region
      BY <1>1, <1>3, <3>1 DEF Quiet
    <3>3. call.op = "register" => dev.ready
      BY <1>0, <1>1, <3>1 DEF Quiet
    <3>4. ~dev.error
      BY <1>1, <3>1 DEF Quiet
    <3>5. /\ ~dev'.error /\ ~dev'.posted
          /\ call.op = "register" => dev'.ready /\ dev'.region
          /\ call.op \in Submissions => dev'.region
      BY <2>3, <3>2, <3>3, <3>4 DEF Submissions
    <3> QED BY <1>2, <3>1, <3>5 DEF Quiet, Pending, Step
  <2> QED BY <2>4, <2>5 DEF Holding
<1>6. CASE ~Takes(dev, call)
  <2>1. dev' = Refused(dev, call) /\ UNCHANGED <<worker, accepted>>
    BY <1>6 DEF Doorbell
  <2>2. /\ dev'.posted = dev.posted /\ dev'.region = dev.region /\ dev'.contexts = dev.contexts
        /\ dev'.ready = dev.ready
        /\ dev'.error = (dev.error \/ dev.poisoned \/ (~dev.resetPending /\ ~Executable(dev, call)))
    BY <1>1, <2>1, RefusedIs
  <2>3. "moved" \notin cause => dev.posted
    BY <1>0, <1>1 DEF FencesInOrder, Numbered, Step
  <2>4. Held'
    <3>1. "moved" \notin cause' => "moved" \notin cause
      BY <1>0
    <3>2. "orphan" \notin cause' => "orphan" \notin cause
      BY <1>0
    <3> QED BY <1>0, <1>2, <1>3, <1>4, <2>2, <2>3, <3>1, <3>2 DEF Held, Agree
  <2>5. Quiet'
    <3> SUFFICES ASSUME cause' = {} PROVE Quiet'
      BY DEF Quiet
    <3>1. cause = {} /\ call.valid
      BY <1>0
    <3>2. /\ ~dev.error /\ ~dev.poisoned /\ dev.contexts = Owned /\ dev.posted /\ Pending
      BY <1>0, <1>1, <1>4, <2>3, <3>1 DEF Quiet, Sound, Pending, Step
    <3>3. /\ call.op \in Submissions \cup {"unregister"} => dev.region
          /\ call.op = "register" => ~dev.region /\ dev.ready /\ accepted = {}
          /\ call.op = "create" => drv.owner[call.cid] = None /\ Cardinality(Owned) < ContextCapacity
          /\ call.op \in {"destroy", "cleanup", "submit", "present"} => drv.owner[call.cid] # None
      BY <1>0, <1>1, <1>3, <3>1, <3>2 DEF Quiet
    <3>4. Executable(dev, call)
      <4>1. call.op \in OnContexts => call.cid \in Contexts
        BY <1>0 DEF Typed, CallBounds
      <4>2. call.op = "create" => call.cid \notin Owned
        BY <3>3 DEF Owned
      <4>3. call.op \in {"destroy", "cleanup", "submit", "present"} => call.cid \in Owned
        BY <3>3, <4>1 DEF Owned, OnContexts
      <4> QED BY <3>1, <3>2, <3>3, <4>2, <4>3 DEF Executable, Submissions
    <3>5. call.op # "register"
      <4> SUFFICES ASSUME call.op = "register" PROVE FALSE
        OBVIOUS
      <4>1. PICK k \in Nat : accepted = 1..k /\ Ordered(dev, k)
        BY <1>1, <3>1 DEF FencesInOrder
      <4>2. k = 0
        BY <3>3, <4>1
      <4>3. InFlight(dev) <= 0
        BY <3>2, <3>3, <4>1, <4>2 DEF Ordered
      <4>4. Len(dev.queue) = 0
        <5>1. /\ Mine(dev) \in {0, 1} /\ Len(dev.fifo) \in Nat /\ Len(dev.queue) \in Nat
              /\ InFlight(dev) = Len(dev.fifo) + Mine(dev) + Len(dev.queue)
          BY <1>1, MineType
        <5> PICK f, m, q : f = Len(dev.fifo) /\ m = Mine(dev) /\ q = Len(dev.queue)
          OBVIOUS
        <5>2. f \in Nat /\ m \in {0, 1} /\ q \in Nat /\ f + m + q <= 0
          BY <4>3, <5>1
        <5>3. q = 0
          BY <5>2
        <5> QED BY <5>3
      <4>5. ~dev.resetPending
        BY <1>1, <3>3 DEF Sound
      <4>6. Admitted(dev, call)
        BY <3>2, <4>4, CapacityAssumption DEF Admitted
      <4> QED BY <1>6, <3>4, <4>5, <4>6 DEF Takes
    <3>6. ~dev'.error
      BY <2>2, <3>2, <3>4
    <3>7. call.op \in Submissions => dev'.region
      BY <2>2, <3>3
    <3> QED BY <1>2, <3>1, <3>5, <3>6, <3>7 DEF Quiet, Pending, Step
  <2> QED BY <2>4, <2>5 DEF Holding
<1> QED BY <1>5, <1>6

\* What the end of a command does to the driver's table.
LEMMA OwnerAfterIs ==
    ASSUME NEW c \in Calls, NEW ok \in BOOLEAN, NEW owner, owner = OwnerAfter(c, ok)
    PROVE  /\ c.op = "create" /\ ok => owner = [drv.owner EXCEPT ![c.cid] = c.pid]
           /\ c.op = "cleanup" \/ (c.op = "destroy" /\ ok) =>
                 owner = [drv.owner EXCEPT ![c.cid] = None]
           /\ ~(c.op = "create" /\ ok) /\ c.op # "cleanup" /\ ~(c.op = "destroy" /\ ok) =>
                 owner = drv.owner
BY DEF OwnerAfter

\* The contexts of the table after a command that the device has accepted.
LEMMA OwnedAfter ==
    ASSUME Typed, call # Idle, NEW ok \in BOOLEAN, NEW owner, owner = OwnerAfter(call, ok),
           drv'.owner = owner
    PROVE  /\ call.op = "create" /\ ok => Owned' = Owned \cup {call.cid}
           /\ call.op = "cleanup" \/ (call.op = "destroy" /\ ok) => Owned' = Owned \ {call.cid}
           /\ ~(call.op = "create" /\ ok) /\ call.op # "cleanup" /\ ~(call.op = "destroy" /\ ok) =>
                 Owned' = Owned
<1>1. call \in Calls /\ drv.owner \in [Contexts -> Processes \cup {None}]
  BY TypedFacts, CallFacts
<1>2. Owned' = {c \in Contexts : owner[c] # None}
  BY DEF Owned
<1>3. ASSUME call.op = "create", ok PROVE Owned' = Owned \cup {call.cid}
  <2>1. owner = [drv.owner EXCEPT ![call.cid] = call.pid]
    BY <1>1, <1>3, OwnerAfterIs
  <2>2. call.cid \in Contexts /\ call.pid # None
    BY <1>3, ProcessAssumption DEF Typed, CallBounds, OnContexts
  <2> QED BY <1>1, <1>2, <2>1, <2>2 DEF Owned
<1>4. ASSUME call.op = "cleanup" \/ (call.op = "destroy" /\ ok) PROVE Owned' = Owned \ {call.cid}
  <2>1. owner = [drv.owner EXCEPT ![call.cid] = None]
    BY <1>1, <1>4, OwnerAfterIs
  <2> QED BY <1>1, <1>2, <2>1 DEF Owned
<1>5. ASSUME ~(call.op = "create" /\ ok), call.op # "cleanup", ~(call.op = "destroy" /\ ok)
      PROVE  Owned' = Owned
  <2>1. owner = drv.owner
    BY <1>1, <1>5, OwnerAfterIs
  <2> QED BY <1>2, <2>1 DEF Owned
<1> QED BY <1>3, <1>4, <1>5

\* gsw3d_submit_locked returns: the table follows what the device did.
LEMMA FinishHolding ==
    ASSUME Typed, Fencing, Holding, call # Idle,
           NEW p, p = Poll(dev) \/ (p = dev /\ ~current),
           NEW d \in Device, d.gen = p.gen, d.contexts = p.contexts, d.region = p.region,
           d.error = p.error, d.ready = p.ready,
           NEW ok \in BOOLEAN, Finish(ok, d),
           \/ call.step = "post" /\ ~ok /\ (~current \/ ~p.ready \/ p.error)
           \/ call.step = "verify" /\ (ok <=> ~dev.posted /\ ~p.error) /\ p = Poll(dev)
    PROVE  Holding'
<1>1. Sound(dev) /\ Bound /\ Held /\ Quiet /\ call \in Calls /\ drv \in Driver /\ drv.ready
  BY TypedFacts, CallFacts DEF Fencing, Holding, RestTyped, Bound
<1>2. /\ p = dev \/ Flags(dev, p)
      /\ Flags(dev, p) => (p.poisoned => "backend" \in cause)
  <2>1. CASE p = Poll(dev)
    BY <2>1, PollHonest
  <2>2. CASE p = dev
    BY <1>1, <2>2 DEF Sound
  <2> QED BY <2>1, <2>2
<1>3. /\ d.gen = dev.gen /\ d.contexts = dev.contexts /\ d.region = dev.region
      /\ dev.error => d.error
      /\ "moved" \notin cause => current /\ p = Poll(dev) /\ Flags(dev, p)
  <2>1. p = Poll(dev) => Flags(dev, p)
    BY PollHonest
  <2> QED BY <1>1, <1>2, <2>1 DEF Flags, Bound
<1>4. CASE call.op = "unregister"
  <2>1. ShutdownEnds(d)
    BY <1>4 DEF Finish
  <2>2. d.gen < MaxGeneration
    BY <1>3, <1>4 DEF Typed, CallBounds
  <2>3. dev'.contexts = {} /\ ~dev'.region /\ ~dev'.error
    BY <2>1, <2>2, ResetIs DEF ShutdownEnds
  <2>4. /\ call' = Idle /\ cause' = {}
        /\ drv' = [drv EXCEPT !.ready = FALSE, !.fence = 1, !.owner = NoOwner]
    BY <2>1 DEF ShutdownEnds
  <2>5. ~drv'.ready /\ drv'.owner = NoOwner
    <3> PICK o : o = NoOwner
      OBVIOUS
    <3>1. ~drv'.ready /\ drv'.owner = o
      BY <1>1, <2>4 DEF Driver
    <3> QED BY <3>1
  <2>6. Owned' = {}
    BY <2>5, NoOwnerNext
  <2>7. Held'
    BY <2>3, <2>4, <2>5, <2>6 DEF Held, Agree, Step
  <2>8. Quiet'
    BY <2>3, <2>4, <2>5 DEF Quiet, Pending, Step
  <2> QED BY <2>7, <2>8 DEF Holding
<1>5. CASE call.op # "unregister"
  <2> PICK owner, fence : owner = OwnerAfter(call, ok) /\ fence = IF ok THEN drv.fence + 1 ELSE drv.fence
    OBVIOUS
  <2>1. /\ dev' = d
        /\ drv' = [drv EXCEPT !.owner = owner, !.fence = fence]
        /\ call' \in CallAfter(call, ok, owner)
        /\ cause' = cause \cup (IF call.op = "cleanup" /\ ~ok THEN {"orphan"} ELSE {})
        /\ UNCHANGED <<accepted, done>>
    BY <1>5 DEF Finish
  <2>2. drv'.ready /\ drv'.owner = owner
    BY <1>1, <2>1 DEF Driver
  <2>3. /\ call.op = "create" /\ ok => Owned' = Owned \cup {call.cid}
        /\ call.op = "cleanup" \/ (call.op = "destroy" /\ ok) => Owned' = Owned \ {call.cid}
        /\ ~(call.op = "create" /\ ok) /\ call.op # "cleanup" /\ ~(call.op = "destroy" /\ ok) =>
              Owned' = Owned
    BY <2>2, OwnedAfter
  <2>4. \/ call' = Idle
        \/ /\ call' # Idle /\ call'.step = "post" /\ call'.op = "cleanup" /\ call.op = "cleanup"
           /\ owner[call'.cid] # None
        \/ /\ call' # Idle /\ call'.step = "post" /\ call'.op = "unregister"
           /\ call.op = "register" /\ ~ok
    <3>1. \/ call' = Idle
          \/ /\ call.op = "cleanup"
             /\ \E x \in Contexts : owner[x] = call.pid /\ call' = [call EXCEPT !.step = "post", !.cid = x]
          \/ call.op = "register" /\ ~ok /\ call' = [call EXCEPT !.op = "unregister", !.step = "post"]
      BY <1>1, <2>1, CallAfterIs, Zenon
    <3>2. ASSUME call' = [call EXCEPT !.op = "unregister", !.step = "post"]
          PROVE  call' \in Calls /\ call'.op = "unregister" /\ call'.step = "post"
      BY <1>1, <3>2 DEF Calls
    <3>3. call.op = "cleanup" => call.pid # None
      BY ProcessAssumption DEF Typed, CallBounds
    <3>4. ASSUME call.op = "cleanup", NEW x \in Contexts, owner[x] = call.pid,
                 call' = [call EXCEPT !.step = "post", !.cid = x]
          PROVE  /\ call' # Idle /\ call'.step = "post" /\ call'.op = "cleanup"
                 /\ owner[call'.cid] # None
      <4>1. call' \in Calls /\ call'.op = call.op /\ call'.step = "post" /\ call'.cid = x
        BY <1>1, <3>4 DEF Calls
      <4> QED BY <3>3, <3>4, <4>1, CallsAreCalls
    <3> QED BY <3>1, <3>2, <3>4, CallsAreCalls, Zenon
  <2>5. Held'
    <3>1. ASSUME "moved" \notin cause', ~dev'.error, "orphan" \notin cause'
          PROVE  dev'.contexts = Owned'
      <4>1. "moved" \notin cause /\ "orphan" \notin cause /\ ~(call.op = "cleanup" /\ ~ok)
        BY <2>1, <3>1
      <4>2. ~p.error /\ ~dev.error /\ Agree
        BY <1>1, <1>3, <2>1, <3>1, <4>1 DEF Held
      <4>3. CASE ~ok
        <5>1. dev.contexts = Owned
          BY <4>2, <4>3 DEF Agree, Step
        <5> QED BY <1>3, <2>1, <2>3, <4>1, <4>3, <5>1
      <4>4. CASE ok
        <5>1. Step("verify") /\ ~dev.posted
          BY <4>4 DEF Step
        <5>2. /\ call.op = "create" => dev.contexts = Owned \cup {call.cid}
              /\ call.op \in {"destroy", "cleanup"} => dev.contexts = Owned \ {call.cid}
              /\ call.op \notin {"create", "destroy", "cleanup"} => dev.contexts = Owned
          BY <4>2, <5>1 DEF Agree
        <5> QED BY <1>3, <2>1, <2>3, <4>4, <5>2
      <4> QED BY <4>3, <4>4
    <3>2. call' = Idle \/ call'.step = "post"
      BY <2>4
    <3> QED BY <2>2, <3>1, <3>2 DEF Held, Agree, Step
  <2>6. Quiet'
    <3> SUFFICES ASSUME cause' = {} PROVE Quiet'
      BY DEF Quiet
    <3>1. cause = {} /\ ~(call.op = "cleanup" /\ ~ok)
      BY <2>1
    <3>2. Flags(dev, p) /\ ~p.poisoned /\ ~dev.error /\ ~p.error /\ current
      BY <1>1, <1>2, <1>3, <3>1 DEF Quiet, Flags
    <3>3. ASSUME call.op = "register" PROVE ok /\ dev.region
      <4>1. dev.ready /\ (Step("verify") => dev.region /\ ~dev.posted)
        BY <1>1, <3>1, <3>3 DEF Quiet
      <4>2. p.ready
        BY <3>2, <4>1 DEF Flags
      <4> QED BY <3>2, <4>1, <4>2 DEF Step
    <3>4. call.op \in Submissions => dev.region
      BY <1>1, <3>1 DEF Quiet
    <3>5. dev'.region /\ ~dev'.error
      <4>1. call.op \in Submissions \cup {"register", "unregister"}
        BY CallFacts
      <4> QED BY <1>3, <1>5, <2>1, <3>2, <3>3, <3>4, <4>1
    <3>6. call' = Idle \/ (call'.step = "post" /\ call'.op = "cleanup" /\ drv'.owner[call'.cid] # None)
      BY <2>2, <2>4, <3>3
    <3> QED BY <3>5, <3>6 DEF Quiet, Pending, Step
  <2> QED BY <2>5, <2>6 DEF Holding
<1> QED BY <1>4, <1>5

\* The status is read before the command is put in the ring.
LEMMA PostHolding == ASSUME Typed, Fencing, Holding, Post PROVE Holding'
<1> PICK p : p = IF current THEN Poll(dev) ELSE dev
  OBVIOUS
<1>0. call # Idle /\ call.step = "post"
  BY DEF Post
<1>1. /\ Sound(dev) /\ Bound /\ Held /\ Quiet /\ call \in Calls /\ dev \in Device
      /\ current \in BOOLEAN
  BY <1>0, TypedFacts, CallFacts DEF Fencing, Holding, RestTyped
<1>2. /\ p = Poll(dev) \/ (p = dev /\ ~current)
      /\ p \in Device
  <2>1. Poll(dev) \in Device
    BY <1>1, PollIs
  <2> QED BY <1>1, <2>1
<1>3. CASE current /\ p.ready /\ ~p.error
  <2>1. /\ dev' = [p EXCEPT !.posted = TRUE]
        /\ call' = [call EXCEPT !.step = "doorbell"]
        /\ UNCHANGED <<drv, accepted, done, cause>>
    BY <1>3 DEF Post
  <2>2. Flags(dev, p)
    BY <1>2, <1>3, PollHonest
  <2>3. /\ dev'.contexts = dev.contexts /\ dev'.region = dev.region
        /\ dev'.ready /\ ~dev'.error
    <3> PICK d : d = dev'
      OBVIOUS
    <3>1. d = [p EXCEPT !.posted = TRUE]
      BY <2>1
    <3>2. d.contexts = p.contexts /\ d.region = p.region /\ d.ready = p.ready /\ d.error = p.error
      BY <1>2, <3>1 DEF Device
    <3> QED BY <1>3, <2>2, <3>2 DEF Flags
  <2>4. /\ call' # Idle /\ call'.step = "doorbell" /\ call'.op = call.op
        /\ call'.cid = call.cid /\ call'.valid = call.valid
    <3>1. /\ call' \in Calls /\ call'.step = "doorbell" /\ call'.op = call.op
          /\ call'.cid = call.cid /\ call'.valid = call.valid
      BY <1>0, <2>1, CallFacts, Zenon
    <3> QED BY <3>1, CallsAreCalls
  <2>5. Owned' = Owned /\ ~dev.error
    BY <1>3, <2>1, <2>2 DEF Owned, Flags
  <2>6. Held'
    BY <1>0, <1>1, <2>1, <2>3, <2>4, <2>5 DEF Held, Agree, Step
  <2>7. Quiet'
    BY <1>0, <1>1, <2>1, <2>3, <2>4, <2>5 DEF Quiet, Pending, Step
  <2> QED BY <2>6, <2>7 DEF Holding
<1>4. CASE ~(current /\ p.ready /\ ~p.error)
  <2>1. Finish(FALSE, p)
    BY <1>4 DEF Post
  <2> QED BY <1>0, <1>2, <1>4, <2>1, FinishHolding
<1> QED BY <1>3, <1>4

\* The status and the head are read after the doorbell.
LEMMA VerifyHolding == ASSUME Typed, Fencing, Holding, Verify PROVE Holding'
<1> PICK p : p = Poll(dev)
  OBVIOUS
<1> PICK d : d = [p EXCEPT !.posted = FALSE]
  OBVIOUS
<1> DEFINE ok == ~p.posted /\ ~p.error
<1>0. call # Idle /\ call.step = "verify" /\ Finish(ok, d)
  BY DEF Verify
<1>1. Flags(dev, p) /\ p \in Device
  BY PollHonest DEF Flags
<1>2. /\ d \in Device /\ d.gen = p.gen /\ d.contexts = p.contexts /\ d.region = p.region
      /\ d.error = p.error /\ d.ready = p.ready
  BY <1>1 DEF Device
<1>3. ok \in BOOLEAN /\ (ok <=> ~dev.posted /\ ~p.error)
  BY <1>1 DEF Flags
<1> HIDE DEF ok
<1> QED BY <1>0, <1>2, <1>3, FinishHolding

\* The machine starts with no context and no error.
LEMMA InitHolding == Init => Holding
<1> SUFFICES ASSUME Init PROVE Holding
  OBVIOUS
<1>1. /\ dev.contexts = {} /\ ~dev.region /\ ~dev.error /\ ~drv.ready /\ drv.owner = NoOwner
      /\ call = Idle
  BY DEF Init
<1>2. Owned = {}
  BY <1>1 DEF Owned, NoOwner
<1> QED BY <1>1, <1>2 DEF Holding, Held, Agree, Quiet, Pending, Step

\* Every step keeps the agreement.
LEMMA NextHolding == ASSUME Typed, Fencing, Holding, [Next]_vars PROVE Holding'
<1>1. CASE ContextCall \/ WorkCall
  BY <1>1, CallsHolding
<1>2. CASE Post \/ Doorbell \/ Verify
  BY <1>2, PostHolding, DoorbellHolding, VerifyHolding
<1>3. CASE Bind \/ Shutdown \/ Move \/ MachinePolls
  BY <1>3, BindHolding, ShutdownHolding, MoveHolding, MachinePollsHolding
<1>4. CASE Worker
  BY <1>4, WorkerHolding
<1>5. CASE Backend
  BY <1>5, BackendHolding
<1>6. CASE UNCHANGED vars
  BY <1>6, RestHolding DEF vars
<1> QED BY <1>1, <1>2, <1>3, <1>4, <1>5, <1>6 DEF Next

\* At every moment the device holds the contexts of the driver's table, but for
\* the command that it has accepted and the driver has not yet verified; and
\* while nothing has gone wrong, every call of the driver meets a device that
\* can execute its command.
THEOREM AlwaysHolding == Spec => []Holding
BY InitHolding, NextHolding, AlwaysTyped, AlwaysInOrder, PTL DEF Spec

\* The contexts that GSW3D_transport_context and GSW3D_transport_process_cleanup
\* record are those that gsw3d_execute_descriptor has created and not destroyed,
\* whatever the queue refuses and the backend fails.
THEOREM TablesAgree == Spec => []ContextsAgree
<1>1. Holding => ContextsAgree
  BY DEF Holding, Held, Agree, Step, ContextsAgree, Ready
<1> QED BY <1>1, AlwaysHolding, PTL

\* gsw3d_execute_descriptor reports an error only when the backend failed, a
\* process sent an invalid command, the device was moved or a context was left
\* behind: no sequence of calls of the driver causes it.
THEOREM ErrorsAreCaused == Spec => []ErrorHasACause
<1>1. Holding => ErrorHasACause
  BY DEF Holding, Quiet, ErrorHasACause
<1> QED BY <1>1, AlwaysHolding, PTL
=============================================================================
