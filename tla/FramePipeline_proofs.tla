------------------------ MODULE FramePipeline_proofs ------------------------
(***************************************************************************)
(* Machine-checked proofs about FramePipeline, for every set of regions,   *)
(* every length of the batch list and every value of the bounds: no slot   *)
(* has two owners, no damage is forgotten, and the window shows one whole  *)
(* picture, of the Machine that runs.                                      *)
(***************************************************************************)
EXTENDS FramePipeline, SequenceTheorems, FiniteSetTheorems, TLAPS

-----------------------------------------------------------------------------
(* The inductive invariant.                                                *)

Batch == [seq : Nat, dmg : Damage]
Data  == {NoTexture} \cup UNION {[P -> Pixel] : P \in SUBSET Regions}
Frames == [state : States, life : Nat, gen : Nat, cover : Covers, data : Data, plan : Nat]
Copies == [life : Nat, px : Picture]
Hosts == [accepting : BOOLEAN, life : Nat, last : Nat, owner : Nat, shadow : Copies,
          tex : {NoTexture} \cup Picture, visible : BOOLEAN]

\* The types, with the shape of every record.
VmTyped == /\ ppc \in {"run", "boot", "announce", "baseline", "begin", "capture"}
           /\ pslot \in Slots \cup {NoSlot}
           /\ live \in BOOLEAN /\ running \in BOOLEAN
GuestTyped == /\ boot \in Nat /\ seq \in Nat /\ vram \in Picture
              /\ pend \in Damage /\ batches \in Seq(Batch) /\ Len(batches) <= MaxBatches
MailboxTyped == /\ slot \in [Slots -> Frames]
                /\ life \in Nat \ {0} /\ published \in Nat /\ latest \in Slots \cup {NoSlot}
                /\ ack \in [life : Nat, seq : Nat] /\ want \in [life : Nat, issued : BOOLEAN]
UiTyped == /\ upc \in {"snapshot", "sync", "acquire", "check", "request", "commit", "note",
                       "complete", "retry", "release", "resync"}
           /\ cslot \in Slots \cup {NoSlot}
           /\ was \in BOOLEAN /\ snap \in BOOLEAN
ScreenTyped == /\ base \in Copies /\ host \in Hosts
               /\ staged \in [kind : {"none", "new", "in_place"}, px : {NoTexture} \cup Picture]
HistoryTyped == /\ fails \in 0 .. MaxFails
                /\ shot \in [Slots -> {NoTexture} \cup Picture] /\ shown \in Picture
Typed == VmTyped /\ GuestTyped /\ MailboxTyped /\ UiTyped /\ ScreenTyped /\ HistoryTyped

\* Slot s holds a frame of the current lifecycle.
Holds(s) == slot[s].state \in {"Ready", "Reading"}
Current(s) == Holds(s) /\ slot[s].life = life

HoldingPcs == {"check", "request", "commit", "note", "complete", "retry", "release"}

\* Who has which slot.
Ownership ==
    /\ \A s \in Slots : slot[s].state = "Writing" <=> (ppc = "capture" /\ pslot = s)
    /\ \A s \in Slots : slot[s].state = "Reading" <=> cslot = s
    /\ \A s, t \in Slots : slot[s].state = "Ready" /\ slot[t].state = "Ready" => s = t
    /\ ppc = "capture" => \A s \in Slots : slot[s].state # "Ready"
    /\ ppc = "capture" <=> pslot # NoSlot
    /\ upc \in HoldingPcs <=> cslot # NoSlot
    /\ \A s \in Slots : Holds(s) => shot[s] \in Picture

\* Lifecycles only grow, and the host's textures are of the one it adopted.
Lifecycles ==
    /\ \A s \in Slots : slot[s].life <= life
    /\ \A s \in Slots : slot[s].state = "Ready" => slot[s].life = life
    /\ base.life <= life /\ host.life <= life
    /\ host.shadow.life \in {0, host.life}
    /\ host.owner \in {0, host.life}
    /\ upc \in {"commit", "note"} => slot[cslot].life = host.life /\ host.shadow.life = host.life

\* The sequence numbers: batches in order, and nothing is numbered with the
\* current sequence while damage of that sequence is pending.
Behind(n) == n <= seq /\ (HasDamage(pend) => n < seq)
Increasing(bs) == \A i, j \in DOMAIN bs : i < j => bs[i].seq < bs[j].seq
Numbers ==
    /\ Increasing(batches)
    /\ \A i \in DOMAIN batches : Behind(batches[i].seq)
    /\ \A s \in Slots : Current(s) => Behind(slot[s].gen)
    /\ ack.life = life => /\ Behind(ack.seq)
                          /\ \A s \in Slots : Current(s) => ack.seq <= slot[s].gen
    /\ \A s, t \in Slots :
         Current(s) /\ slot[s].state = "Reading" /\ Current(t) /\ slot[t].state = "Ready"
           => slot[s].gen <= slot[t].gen

\* Region r is in the damage d, or in what is younger than sequence g.
Touches(d, r) == d.full \/ r \in d.parts
Owed(bs, d, g, r) == \/ Touches(d, r)
                     \/ \E i \in DOMAIN bs : bs[i].seq > g /\ Touches(bs[i].dmg, r)
Owes(g, r) == Owed(batches, pend, g, r)

\* What the guest has changed since a capture is damage younger than it.
CapturesCovered ==
    \A s \in Slots : Current(s) =>
        \A r \in Regions : shot[s][r] # vram[r] => Owes(slot[s].gen, r)

\* The same for what the screen side holds, since the beginning and since the
\* capture that is acknowledged.
CopiesCovered ==
    \A copy \in {base, host.shadow} : copy.life = life =>
        \A r \in Regions : copy.px[r] # vram[r] =>
            /\ Owes(-1, r)
            /\ ack.life = life => Owes(ack.seq, r)

\* A frame is a part of one picture; the rest of the picture is already where
\* the frame will be applied, or in the frame that is applied before.
Fills(s, r) == r \in DOMAIN slot[s].data
FramesComplete ==
    \A s \in Slots : Current(s) /\ slot[s].cover # "None" =>
        /\ slot[s].cover = "Full" => DOMAIN slot[s].data = Regions
        /\ \A r \in Regions :
             IF Fills(s, r) THEN slot[s].data[r] = shot[s][r]
             ELSE /\ \A copy \in {base, host.shadow} :
                       copy.life = life => copy.px[r] = shot[s][r]
                  /\ slot[s].state = "Ready" => \A t \in Slots :
                       Current(t) /\ slot[t].state = "Reading" /\ slot[t].cover # "None"
                       /\ Fills(t, r) => shot[t][r] = shot[s][r]

\* A staged frame is the whole picture of its capture.
StagedComplete ==
    /\ upc \in {"commit", "note"} => base.px = shot[cslot] /\ host.shadow.px = shot[cslot]
    /\ upc = "commit" => /\ staged.kind = "in_place" => host.tex = host.shadow.px
                         /\ staged.kind # "in_place" => /\ staged.px = host.shadow.px
                                                        /\ ~(host.tex # NoTexture /\ host.owner = host.life)

\* The texture is the host's copy of the picture, and what is visible is the
\* picture of the last commit.
TextureComplete ==
    /\ host.tex # NoTexture /\ host.owner # 0 =>
         host.tex = host.shadow.px /\ host.shadow.life = host.owner
    /\ host.visible /\ ~(upc = "commit" /\ staged.kind = "in_place") => host.tex = shown
    /\ host.visible => host.tex # NoTexture

\* Whose pictures they are.
Machines ==
    /\ \A r \in Regions : vram[r][1] = boot
    /\ \A s \in Slots : Current(s) => \A r \in Regions : shot[s][r][1] = boot
    /\ host.visible /\ host.life = life => \A r \in Regions : shown[r][1] = boot

Pipeline == /\ Ownership /\ Lifecycles /\ Numbers /\ CapturesCovered /\ CopiesCovered
            /\ FramesComplete /\ StagedComplete /\ TextureComplete /\ Machines
-----------------------------------------------------------------------------
(* Damage.                                                                 *)

USE RegionsAssumption, BatchesAssumption, BoundsAssumption

LEMMA DamageKinds ==
    /\ NoDamage \in Damage /\ ~HasDamage(NoDamage) /\ \A r : ~Touches(NoDamage, r)
    /\ FullDamage \in Damage /\ HasDamage(FullDamage) /\ \A r : Touches(FullDamage, r)
    /\ \A p \in Regions \cup {Hidden} : [full |-> FALSE, parts |-> {p}] \in Damage
BY DEF NoDamage, FullDamage, Damage, HasDamage, Touches

\* The union of two damages is in neither more nor fewer regions.
LEMMA MergeTouches ==
    ASSUME NEW d \in Damage, NEW e \in Damage
    PROVE  /\ Merge(d, e) \in Damage
           /\ \A r : Touches(Merge(d, e), r) <=> Touches(d, r) \/ Touches(e, r)
BY DEF Merge, Damage, Touches

LEMMA BatchesTyped ==
    ASSUME NEW bs \in Seq(Batch), NEW i \in DOMAIN bs
    PROVE  bs[i] \in Batch /\ bs[i].seq \in Nat /\ bs[i].dmg \in Damage
<1>1. bs[i] \in Batch
  OBVIOUS
<1> QED BY <1>1 DEF Batch

\* scanout_descriptor_capture sees exactly what some batch or the pending
\* damage names.
LEMMA VisibleOwed ==
    ASSUME NEW bs \in Seq(Batch), NEW d \in Damage, NEW r \in Regions
    PROVE  r \in Visible(Accumulated(bs, d)) <=> Owed(bs, d, -1, r)
<1> DEFINE all == {bs[i].dmg : i \in DOMAIN bs} \cup {d}
<1>1. \A i \in DOMAIN bs : bs[i].seq \in Nat /\ bs[i].seq > -1
  BY BatchesTyped
<1>2. Owed(bs, d, -1, r) <=> \E e \in all : Touches(e, r)
  BY <1>1 DEF Owed
<1>3. CASE \E e \in all : e.full
  <2>1. Accumulated(bs, d).full
    BY <1>3 DEF Accumulated
  <2> QED BY <1>2, <1>3, <2>1 DEF Visible, Touches
<1>4. CASE ~\E e \in all : e.full
  <2>1. ~Accumulated(bs, d).full /\ Accumulated(bs, d).parts = UNION {e.parts : e \in all}
    BY <1>4 DEF Accumulated
  <2> QED BY <1>2, <1>4, <2>1 DEF Visible, Touches
<1> QED BY <1>3, <1>4

\* Every batch of b is still there in c, in a batch that is not older.
Subsumed(b, c) ==
    \A i \in DOMAIN b : \E j \in DOMAIN c :
        c[j].seq >= b[i].seq /\ \A r : Touches(b[i].dmg, r) => Touches(c[j].dmg, r)

LEMMA SubsumedOwed ==
    ASSUME NEW b \in Seq(Batch), NEW c \in Seq(Batch), Subsumed(b, c), NEW d, NEW g \in Int,
           NEW r, Owed(b, d, g, r)
    PROVE  Owed(c, d, g, r)
<1>1. /\ \A i \in DOMAIN b : b[i].seq \in Nat
      /\ \A i \in DOMAIN c : c[i].seq \in Nat
  BY BatchesTyped
<1>2. CASE Touches(d, r)
  BY <1>2 DEF Owed
<1>3. CASE ~Touches(d, r)
  <2>1. PICK i \in DOMAIN b : b[i].seq > g /\ Touches(b[i].dmg, r)
    BY <1>3 DEF Owed
  <2>2. PICK j \in DOMAIN c : c[j].seq >= b[i].seq /\ Touches(c[j].dmg, r)
    BY <2>1 DEF Subsumed
  <2> QED BY <1>1, <2>1, <2>2 DEF Owed
<1> QED BY <1>2, <1>3

\* A batch list: typed, bounded and in order.
BatchList(bs, n) == /\ bs \in Seq(Batch) /\ Len(bs) <= MaxBatches /\ Increasing(bs)
                    /\ \A i \in DOMAIN bs : bs[i].seq <= n

\* vga_damage_seal_pending on a full list: the two oldest batches become one.
LEMMA OldestMerged ==
    ASSUME NEW n \in Nat, NEW bs, BatchList(bs, n)
    PROVE  /\ BatchList(Oldest(bs), n) /\ Len(Oldest(bs)) < MaxBatches
           /\ Subsumed(bs, Oldest(bs))
           /\ \A i \in DOMAIN Oldest(bs) : \E j \in DOMAIN bs : Oldest(bs)[i].seq = bs[j].seq
<1>1. bs \in Seq(Batch) /\ Len(bs) \in Nat /\ DOMAIN bs = 1 .. Len(bs)
  BY DEF BatchList
<1>2. \A i \in DOMAIN bs : bs[i] \in Batch /\ bs[i].seq \in Nat /\ bs[i].dmg \in Damage
  BY <1>1, BatchesTyped
<1>3. CASE Len(bs) < MaxBatches
  <2>1. Oldest(bs) = bs
    BY <1>3 DEF Oldest
  <2> QED BY <1>2, <1>3, <2>1 DEF BatchList, Subsumed
<1>4. CASE ~(Len(bs) < MaxBatches)
  <2> DEFINE x == [seq |-> bs[2].seq, dmg |-> Merge(bs[1].dmg, bs[2].dmg)]
             t == SubSeq(bs, 3, Len(bs))
             o == <<x>> \o t
  <2>1. Len(bs) = MaxBatches /\ Len(bs) >= 2 /\ Oldest(bs) = o
    BY <1>1, <1>4 DEF BatchList, Oldest
  <2>2. 1 \in DOMAIN bs /\ 2 \in DOMAIN bs
    BY <1>1, <2>1
  <2>3. x \in Batch
    BY <1>2, <2>2, MergeTouches DEF Batch
  <2>4. /\ t \in Seq(Batch) /\ Len(t) = Len(bs) - 2
        /\ \A i \in 1 .. Len(t) : t[i] = bs[i + 2]
    BY <1>1, <2>1
  <2>5. <<x>> \in Seq(Batch) /\ Len(<<x>>) = 1 /\ <<x>>[1] = x
    BY <2>3
  <2>6. o \in Seq(Batch) /\ Len(o) = Len(bs) - 1 /\ DOMAIN o = 1 .. Len(bs) - 1
    BY <1>1, <2>1, <2>4, <2>5
  <2>7. o[1] = x /\ \A i \in 2 .. Len(bs) - 1 : o[i] = bs[i + 1]
    <3>1. ASSUME NEW i \in 2 .. Len(bs) - 1 PROVE o[i] = bs[i + 1]
      <4>1. o[i] = t[i - 1]
        BY <1>1, <2>4, <2>5
      <4>2. t[i - 1] = bs[i + 1]
        BY <1>1, <2>4
      <4> QED BY <4>1, <4>2
    <3>2. o[1] = x
      BY <2>4, <2>5
    <3> QED BY <3>1, <3>2
  <2>8. \A i \in DOMAIN o : i + 1 \in DOMAIN bs /\ o[i].seq = bs[i + 1].seq
    <3> HIDE DEF o, t
    <3> QED BY <1>1, <2>1, <2>6, <2>7
  <2> HIDE DEF o, t, x
  <2>9. Increasing(o)
    <3>1. Increasing(bs)
      BY DEF BatchList
    <3>2. \A i \in DOMAIN o : i \in Nat
      BY <2>6
    <3> QED BY <2>8, <3>1, <3>2 DEF Increasing
  <2>10. Subsumed(bs, o)
    <3> SUFFICES ASSUME NEW i \in DOMAIN bs
                 PROVE  \E j \in DOMAIN o :
                          /\ o[j].seq >= bs[i].seq
                          /\ \A r : Touches(bs[i].dmg, r) => Touches(o[j].dmg, r)
      BY DEF Subsumed
    <3>1. CASE i \in {1, 2}
      <4>1. 1 \in DOMAIN o
        BY <1>1, <2>1, <2>6
      <4>2. bs[2].seq >= bs[i].seq
        BY <1>2, <2>2, <3>1 DEF BatchList, Increasing
      <4>3. \A r : Touches(bs[i].dmg, r) => Touches(x.dmg, r)
        BY <1>2, <2>2, <3>1, MergeTouches DEF x
      <4>4. x.seq = bs[2].seq
        BY DEF x
      <4> QED BY <2>7, <4>1, <4>2, <4>3, <4>4
    <3>2. CASE i \notin {1, 2}
      <4>1. i - 1 \in 2 .. Len(bs) - 1 /\ i - 1 \in DOMAIN o /\ (i - 1) + 1 = i
        BY <1>1, <2>6, <3>2
      <4>2. o[i - 1] = bs[i]
        BY <2>7, <4>1
      <4> QED BY <1>2, <4>1, <4>2
    <3> QED BY <3>1, <3>2
  <2>11. \A i \in DOMAIN o : o[i].seq <= n
    BY <2>8 DEF BatchList
  <2> QED BY <1>1, <2>1, <2>6, <2>8, <2>9, <2>10, <2>11 DEF BatchList
<1> QED BY <1>3, <1>4

\* vga_damage_seal_pending loses no damage: what was pending is now younger
\* than every capture that did not see it.
LEMMA SealKeeps ==
    ASSUME NEW n \in Nat, NEW bs, BatchList(bs, n), NEW d \in Damage,
           HasDamage(d) => \A i \in DOMAIN bs : bs[i].seq < n
    PROVE  /\ BatchList(Seal(bs, d, n), n)
           /\ \A g \in Int : \A r : (HasDamage(d) => g < n) /\ Owed(bs, d, g, r)
                                      => Owed(Seal(bs, d, n), NoDamage, g, r)
<1>1. CASE ~HasDamage(d)
  <2>1. Seal(bs, d, n) = bs /\ \A r : ~Touches(d, r)
    BY <1>1 DEF Seal, HasDamage, Touches
  <2> QED BY <2>1 DEF Owed
<1>2. CASE HasDamage(d)
  <2> DEFINE o == Oldest(bs)
             b == [seq |-> n, dmg |-> d]
             z == Append(o, b)
  <2>1. BatchList(o, n) /\ Len(o) < MaxBatches /\ Subsumed(bs, o)
        /\ \A i \in DOMAIN o : \E j \in DOMAIN bs : o[i].seq = bs[j].seq
    BY OldestMerged
  <2>2. bs \in Seq(Batch) /\ o \in Seq(Batch) /\ b \in Batch /\ Len(o) \in Nat
    BY <2>1 DEF BatchList, Batch
  <2>3. \A i \in DOMAIN bs : bs[i].seq # n /\ bs[i].seq < n
    BY <1>2, <2>2, BatchesTyped
  <2>4. ~(bs # <<>> /\ Last(bs).seq = n)
    <3> SUFFICES ASSUME bs # <<>>, Last(bs).seq = n PROVE FALSE
      OBVIOUS
    <3>1. Len(bs) \in DOMAIN bs
      BY <2>2
    <3> QED BY <2>3, <3>1 DEF Last
  <2>5. Seal(bs, d, n) = z
    BY <1>2, <2>4 DEF Seal
  <2>6. /\ z \in Seq(Batch) /\ Len(z) = Len(o) + 1 /\ DOMAIN z = 1 .. Len(o) + 1
        /\ DOMAIN o = 1 .. Len(o)
        /\ z[Len(o) + 1] = b /\ \A i \in 1 .. Len(o) : z[i] = o[i]
    BY <2>2
  <2>7. b.seq = n /\ b.dmg = d
    OBVIOUS
  <2>8. \A i \in DOMAIN o : o[i].seq \in Nat /\ o[i].seq < n
    BY <2>1, <2>2, <2>3, BatchesTyped
  <2> HIDE DEF o, b, z
  <2>9. \A i \in DOMAIN z : z[i].seq <= n
    BY <2>2, <2>6, <2>7, <2>8
  <2>10. Increasing(z)
    <3> SUFFICES ASSUME NEW i \in DOMAIN z, NEW j \in DOMAIN z, i < j
                 PROVE  z[i].seq < z[j].seq
      BY DEF Increasing
    <3>1. i \in DOMAIN o /\ z[i] = o[i]
      BY <2>2, <2>6
    <3>2. CASE j = Len(o) + 1
      BY <2>6, <2>7, <2>8, <3>1, <3>2
    <3>3. CASE j \in DOMAIN o
      BY <2>1, <2>6, <3>1, <3>3 DEF BatchList, Increasing
    <3> QED BY <2>2, <2>6, <3>2, <3>3
  <2>11. BatchList(z, n)
    BY <2>1, <2>2, <2>6, <2>9, <2>10 DEF BatchList
  <2>12. Subsumed(o, z)
    BY <2>6, <2>8 DEF Subsumed
  <2>13. ASSUME NEW g \in Int, NEW r, g < n, Owed(bs, d, g, r) PROVE Owed(z, NoDamage, g, r)
    <3>1. CASE Touches(d, r)
      <4>1. Len(o) + 1 \in DOMAIN z
        BY <2>2, <2>6
      <4> QED BY <2>6, <2>7, <2>13, <3>1, <4>1 DEF Owed
    <3>2. CASE ~Touches(d, r)
      <4>1. Owed(bs, NoDamage, g, r)
        BY <2>13, <3>2 DEF Owed
      <4>2. Owed(o, NoDamage, g, r)
        BY <2>1, <2>2, <4>1, SubsumedOwed
      <4> QED BY <2>2, <2>6, <2>12, <4>2, SubsumedOwed
    <3> QED BY <3>1, <3>2
  <2> QED BY <1>2, <2>5, <2>11, <2>13
<1> QED BY <1>1, <1>2

\* vga_damage_acknowledge drops nothing that is younger than the sequence it
\* acknowledges.
LEMMA UnacknowledgedKeeps ==
    ASSUME NEW n \in Nat, NEW bs, BatchList(bs, n), NEW s \in Nat, HasBatch(bs, s)
    PROVE  LET z == Unacknowledged(bs, s) IN
           /\ BatchList(z, n)
           /\ \A i \in DOMAIN z : \E j \in DOMAIN bs : z[i].seq = bs[j].seq
           /\ \A d : \A g \in Int : \A r : g >= s /\ Owed(bs, d, g, r) => Owed(z, d, g, r)
<1> DEFINE k == CHOOSE i \in DOMAIN bs : bs[i].seq = s
           z == SubSeq(bs, 1 + k, Len(bs))
<1>1. k \in DOMAIN bs /\ bs[k].seq = s
  BY DEF HasBatch
<1>2. bs \in Seq(Batch) /\ Len(bs) \in Nat /\ DOMAIN bs = 1 .. Len(bs) /\ k \in 1 .. Len(bs)
  BY <1>1 DEF BatchList
<1>3. \A i \in DOMAIN bs : bs[i].seq \in Nat
  BY <1>2, BatchesTyped
<1>4. Unacknowledged(bs, s) = z
  BY DEF Unacknowledged
<1> HIDE DEF k
<1>5. /\ z \in Seq(Batch) /\ Len(z) = Len(bs) - k /\ DOMAIN z = 1 .. Len(bs) - k
      /\ \A i \in 1 .. Len(bs) - k : z[i] = bs[k + i]
  <2>1. z \in Seq(Batch) /\ Len(z) = Len(bs) - k
    <3>1. 1 + k \in Int /\ Len(bs) \in Int /\ \A i \in 1 + k .. Len(bs) : i \in DOMAIN bs
      BY <1>2
    <3>2. \A i \in 1 + k .. Len(bs) : bs[i] \in Batch
      BY <1>2, <3>1
    <3>3. z \in Seq(Batch)
      BY <1>2, <3>1, <3>2, SubSeqProperties
    <3>4. Len(z) = Len(bs) - k
      <4> DEFINE a == 1 + k
                 l == Len(bs)
      <4>1. a \in Int /\ l \in Int /\ \A i \in a .. l : bs[i] \in Batch
        BY <3>1, <3>2
      <4>2. z = SubSeq(bs, a, l) /\ l \in Nat /\ k \in 1 .. l /\ a = 1 + k
        BY <1>2
      <4> HIDE DEF a, l, z
      <4>3. Len(SubSeq(bs, a, l)) = IF a <= l THEN l - a + 1 ELSE 0
        BY <4>1, SubSeqProperties
      <4>4. Len(z) = IF a <= l THEN l - a + 1 ELSE 0
        BY <4>2, <4>3, Zenon
      <4>5. Len(z) = l - k
        BY <4>2, <4>4
      <4> QED BY <4>5 DEF l
    <3> QED BY <3>3, <3>4
  <2>2. DOMAIN z = 1 .. Len(bs) - k
    BY <2>1
  <2>3. ASSUME NEW i \in 1 .. Len(bs) - k PROVE z[i] = bs[k + i]
    BY <1>2
  <2> QED BY <2>1, <2>2, <2>3
<1> HIDE DEF z
<1>6. \A i \in DOMAIN z : i \in Nat /\ k + i \in DOMAIN bs /\ z[i] = bs[k + i]
  BY <1>2, <1>5
<1>7. Increasing(z)
  BY <1>2, <1>6 DEF BatchList, Increasing
<1>8. BatchList(z, n)
  BY <1>2, <1>5, <1>6, <1>7 DEF BatchList
<1>9. ASSUME NEW d, NEW g \in Int, NEW r, g >= s, Owed(bs, d, g, r) PROVE Owed(z, d, g, r)
  <2>1. CASE Touches(d, r)
    BY <2>1 DEF Owed
  <2>2. CASE ~Touches(d, r)
    <3>1. PICK i \in DOMAIN bs : bs[i].seq > g /\ Touches(bs[i].dmg, r)
      BY <1>9, <2>2 DEF Owed
    <3>2. i > k
      <4> SUFFICES ASSUME ~(i > k) PROVE FALSE
        OBVIOUS
      <4>1. bs[i].seq <= s
        BY <1>1, <1>2, <1>3 DEF BatchList, Increasing
      <4> QED BY <1>3, <1>9, <3>1, <4>1
    <3>3. i - k \in DOMAIN z /\ k + (i - k) = i
      BY <1>2, <1>5, <3>2
    <3> QED BY <1>6, <3>1, <3>3 DEF Owed
  <2> QED BY <2>1, <2>2
<1> QED BY <1>4, <1>6, <1>8, <1>9

-----------------------------------------------------------------------------
(* What the steps do to the slots.                                         *)

LEMMA NoPicture == NoTexture \notin Picture /\ NoTexture \in Data
BY DEF NoTexture, Picture, Data

LEMMA FreedFrame ==
    ASSUME NEW f \in Frames
    PROVE  Freed(f) \in Frames /\ Freed(f).state = "Free"
<1>1. <<>> \in Data
  BY NoPicture DEF NoTexture
<1> QED BY <1>1 DEF Freed, EmptySlot, Frames, States, Covers

\* After a mailbox reset no slot holds a frame of the current lifecycle.
LEMMA ResetEffect ==
    ASSUME Typed, Pipeline, Reset
    PROVE  /\ MailboxTyped' /\ life' = life + 1 /\ ack'.life # life' /\ life' \in Nat /\ life' > life
           /\ \A s \in Slots : ~Current(s)'
           /\ \A s \in Slots :
                /\ slot'[s].state = IF slot[s].state = "Ready" THEN "Free" ELSE slot[s].state
                /\ slot'[s].state = "Free" \/ slot'[s] = slot[s]
                /\ slot'[s].life <= life'
<1>1. /\ slot \in [Slots -> Frames] /\ life \in Nat \ {0}
      /\ \A s \in Slots : slot[s].life \in Nat /\ slot[s].life <= life
  BY DEF Typed, MailboxTyped, Pipeline, Lifecycles, Frames
<1>2. /\ life' = life + 1 /\ published' = 0 /\ latest' = NoSlot /\ ack' = NoAck /\ want' = NoWant
      /\ slot' = [s \in Slots |-> IF slot[s].state = "Ready" THEN Freed(slot[s]) ELSE slot[s]]
  BY DEF Reset
<1>3. \A s \in Slots : slot[s] \in Frames /\ Freed(slot[s]) \in Frames
                         /\ Freed(slot[s]).state = "Free" /\ Freed(slot[s]).life = 0
  BY <1>1, FreedFrame DEF Freed, EmptySlot
<1>4. slot' \in [Slots -> Frames]
  BY <1>2, <1>3
<1>5. ack' \in [life : Nat, seq : Nat] /\ want' \in [life : Nat, issued : BOOLEAN] /\ ack'.life = 0
  BY <1>2 DEF NoAck, NoWant
<1>6. MailboxTyped' /\ life' = life + 1 /\ ack'.life # life' /\ life' \in Nat /\ life' > life
  BY <1>1, <1>2, <1>4, <1>5 DEF MailboxTyped
<1>7. \A s \in Slots : slot'[s] = IF slot[s].state = "Ready" THEN Freed(slot[s]) ELSE slot[s]
  BY <1>2
<1>8. \A s \in Slots :
         /\ slot'[s].state = IF slot[s].state = "Ready" THEN "Free" ELSE slot[s].state
         /\ slot'[s].state = "Free" \/ slot'[s] = slot[s]
         /\ slot'[s].life <= life'
  BY <1>1, <1>2, <1>3, <1>7
<1>9. \A s \in Slots : ~Current(s)'
  BY <1>1, <1>2, <1>3, <1>7 DEF Current, Holds
<1> QED BY <1>6, <1>8, <1>9

\* frame_mailbox_begin_at takes a slot that neither thread has.
LEMMA BeginEffect ==
    ASSUME Typed, Pipeline, Begin
    PROVE  /\ MailboxTyped' /\ pslot' \in Slots /\ slot[pslot'].state \in {"Free", "Ready"}
           /\ slot'[pslot'].state = "Writing" /\ slot'[pslot'].life = life
           /\ \A s \in Slots \ {pslot'} :
                IF slot[s].state = "Ready" THEN slot'[s].state = "Free" /\ slot'[s].life = 0
                ELSE slot'[s] = slot[s]
           /\ \A s \in Slots : Current(s)' =>
                /\ Current(s) /\ slot'[s] = slot[s] /\ slot[s].state = "Reading"
<1> DEFINE c == ChosenSlot
<1>1. slot \in [Slots -> Frames] /\ life \in Nat
  BY DEF Typed, MailboxTyped
<1>2. \A s \in Slots : /\ slot[s] \in Frames /\ Freed(slot[s]) \in Frames
                       /\ Freed(slot[s]).state = "Free" /\ Freed(slot[s]).life = 0
  BY <1>1, FreedFrame DEF Freed, EmptySlot
<1>3. c \in Slots /\ slot[c].state \in {"Free", "Ready"}
  <2> DEFINE free == {s \in Slots : slot[s].state = "Free"}
             ready == {s \in Slots : slot[s].state = "Ready"}
  <2>1. CASE free # {}
    <3>1. \E s \in free : \A t \in free : s <= t
      BY <2>1 DEF Slots
    <3> HIDE DEF free
    <3>2. c = CHOOSE s \in free : \A t \in free : s <= t
      BY <2>1 DEF ChosenSlot, free
    <3>3. c \in free
      BY <3>1, <3>2
    <3> QED BY <3>3 DEF free
  <2>2. CASE free = {}
    <3>1. PICK s \in Slots : slot[s].state = "Ready"
      BY <2>2 DEF Begin
    <3>2. \A t \in ready : t = s
      BY <3>1 DEF Pipeline, Ownership
    <3>3. slot[s].gen <= slot[s].gen
      BY <1>1 DEF Frames
    <3>4. \E q \in ready : \A t \in ready : slot[q].gen <= slot[t].gen
      BY <3>1, <3>2, <3>3
    <3> HIDE DEF ready
    <3>5. c = CHOOSE q \in ready : \A t \in ready : slot[q].gen <= slot[t].gen
      BY <2>2 DEF ChosenSlot, ready
    <3>6. c \in ready
      BY <3>4, <3>5
    <3> QED BY <3>6 DEF ready
  <2> QED BY <2>1, <2>2
<1> HIDE DEF c
<1>4. pslot' = c /\ UNCHANGED <<life, published, latest, ack, want>>
  BY DEF Begin, c
<1> DEFINE w == [Freed(slot[c]) EXCEPT !.state = "Writing", !.life = life]
<1>5. w \in Frames /\ w.state = "Writing" /\ w.life = life
  BY <1>1, <1>2, <1>3 DEF Frames, States
<1> HIDE DEF w
<1>6. \A s \in Slots : slot'[s] = IF s = c THEN w
                                  ELSE IF slot[s].state = "Ready" THEN Freed(slot[s]) ELSE slot[s]
  BY DEF Begin, c, w
<1>7. slot' \in [Slots -> Frames]
  <2>1. \A s \in Slots : slot'[s] \in Frames
    BY <1>2, <1>5, <1>6
  <2>2. slot' = [s \in Slots |-> slot'[s]]
    BY DEF Begin
  <2> QED BY <2>1, <2>2
<1>8. MailboxTyped'
  BY <1>4, <1>7 DEF Typed, MailboxTyped
<1>9. slot'[pslot'] = w
  BY <1>3, <1>4, <1>6
<1>10. ASSUME NEW s \in Slots, Current(s)'
       PROVE  Current(s) /\ slot'[s] = slot[s] /\ slot[s].state = "Reading"
  BY <1>2, <1>4, <1>5, <1>6, <1>10 DEF Current, Holds
<1> QED BY <1>2, <1>3, <1>4, <1>5, <1>6, <1>8, <1>9, <1>10

LEMMA AcquireEffect ==
    ASSUME Typed, Pipeline, Acquire
    PROVE  /\ MailboxTyped'
           /\ \/ /\ upc' = "resync" /\ UNCHANGED <<slot, cslot>>
                 /\ \A s \in Slots : slot[s].state # "Ready"
              \/ /\ upc' = "check" /\ cslot' \in Slots
                 /\ slot[cslot'].state = "Ready" /\ slot'[cslot'].state = "Reading"
                 /\ \A s \in Slots \ {cslot'} : slot'[s] = slot[s]
           /\ \A s \in Slots :
                /\ slot'[s].life = slot[s].life /\ slot'[s].gen = slot[s].gen
                /\ slot'[s].cover = slot[s].cover /\ slot'[s].data = slot[s].data
                /\ Current(s)' <=> Current(s)
<1>1. slot \in [Slots -> Frames] /\ UNCHANGED <<life, published, latest, ack, want>>
  BY DEF Typed, MailboxTyped, Acquire
<1> DEFINE ready == {s \in Slots : slot[s].state = "Ready"}
<1>2. CASE ready = {} /\ upc' = "resync" /\ UNCHANGED <<slot, cslot>>
  BY <1>1, <1>2 DEF Typed, MailboxTyped, Current, Holds
<1>3. CASE /\ ready # {} /\ upc' = "check"
           /\ cslot' = CHOOSE s \in ready : \A t \in ready : slot[s].gen >= slot[t].gen
           /\ slot' = [slot EXCEPT ![cslot'].state = "Reading"]
  <2>1. PICK s \in Slots : slot[s].state = "Ready"
    BY <1>3
  <2>2. \A t \in ready : t = s
    BY <2>1 DEF Pipeline, Ownership
  <2>3. slot[s].gen >= slot[s].gen
    BY <1>1 DEF Frames
  <2>4. \E q \in ready : \A t \in ready : slot[q].gen >= slot[t].gen
    BY <2>1, <2>2, <2>3
  <2> HIDE DEF ready
  <2>5. cslot' \in ready
    BY <1>3, <2>4
  <2>6. cslot' \in Slots /\ slot[cslot'].state = "Ready"
    BY <2>5 DEF ready
  <2> DEFINE f == [slot[cslot'] EXCEPT !.state = "Reading"]
  <2>7. f \in Frames /\ f.state = "Reading" /\ f.life = slot[cslot'].life
        /\ f.gen = slot[cslot'].gen /\ f.cover = slot[cslot'].cover /\ f.data = slot[cslot'].data
    BY <1>1, <2>6 DEF Frames, States
  <2>8. slot' = [slot EXCEPT ![cslot'] = f]
    BY <1>3
  <2> HIDE DEF f
  <2>9. slot' \in [Slots -> Frames] /\ slot'[cslot'] = f /\ \A t \in Slots \ {cslot'} : slot'[t] = slot[t]
    BY <1>1, <2>6, <2>7, <2>8
  <2>10. MailboxTyped'
    BY <1>1, <2>9 DEF Typed, MailboxTyped
  <2> QED BY <1>1, <1>3, <2>6, <2>7, <2>9, <2>10 DEF Current, Holds
<1> QED BY <1>2, <1>3 DEF Acquire

LEMMA ReleaseEffect ==
    ASSUME Typed, Pipeline, Release
    PROVE  /\ MailboxTyped' /\ HistoryTyped' /\ cslot \in Slots
           /\ slot'[cslot].state = "Free" /\ slot'[cslot].life <= life
           /\ \A s \in Slots \ {cslot} : slot'[s] = slot[s] /\ shot'[s] = shot[s]
           /\ \A s \in Slots : Current(s)' => s # cslot /\ Current(s)
<1>1. slot \in [Slots -> Frames] /\ UNCHANGED <<life, published, latest, ack, want, fails, shown>>
  BY DEF Typed, MailboxTyped, Release
<1>2. cslot \in Slots /\ slot[cslot].state = "Reading"
  BY DEF Release, Pipeline, Ownership, HoldingPcs, Typed, UiTyped
<1> DEFINE f == Freed(slot[cslot])
<1>3. f \in Frames /\ f.state = "Free" /\ f.life = 0
  BY <1>1, <1>2, FreedFrame DEF Freed, EmptySlot
<1>4. slot' = [slot EXCEPT ![cslot] = f] /\ shot' = [shot EXCEPT ![cslot] = NoTexture]
  BY <1>1, <1>2 DEF Release
<1> HIDE DEF f
<1>5. slot' \in [Slots -> Frames] /\ slot'[cslot] = f /\ \A t \in Slots \ {cslot} : slot'[t] = slot[t]
  BY <1>1, <1>2, <1>3, <1>4
<1>6. MailboxTyped'
  BY <1>1, <1>5 DEF Typed, MailboxTyped
<1>7. HistoryTyped' /\ \A t \in Slots \ {cslot} : shot'[t] = shot[t]
  BY <1>1, <1>2, <1>4 DEF Typed, HistoryTyped
<1>8. slot'[cslot].life <= life
  BY <1>3, <1>5 DEF Typed, MailboxTyped
<1> QED BY <1>1, <1>2, <1>3, <1>5, <1>6, <1>7, <1>8 DEF Current, Holds

\* A capture goes into the publisher's slot, or is dropped if the mailbox was
\* reset in between.
LEMMA CommitEffect ==
    ASSUME Typed, Pipeline, ppc = "capture", NEW cover \in Covers, NEW gen \in Nat,
           NEW parts \in SUBSET Regions, CommitSlot(Captured(cover, gen, parts)),
           UNCHANGED <<life, ack, want>>
    PROVE  /\ pslot \in Slots /\ slot[pslot].state = "Writing" /\ MailboxTyped'
           /\ \A s \in Slots \ {pslot} : slot'[s] = slot[s]
           /\ \/ slot'[pslot].state = "Free" /\ slot'[pslot].life <= life
              \/ /\ slot'[pslot].state = "Ready" /\ slot'[pslot].life = life
                 /\ slot'[pslot].gen = gen /\ slot'[pslot].cover = cover
                 /\ slot'[pslot].data = Copied(parts)
<1> DEFINE f == Captured(cover, gen, parts)
<1>1. slot \in [Slots -> Frames] /\ life \in Nat \ {0} /\ vram \in Picture
  BY DEF Typed, MailboxTyped, GuestTyped
<1>2. pslot \in Slots /\ slot[pslot].state = "Writing" /\ slot[pslot] \in Frames
  BY <1>1 DEF Pipeline, Ownership, Typed, VmTyped
<1>3. Copied(parts) \in Data
  <2>1. Copied(parts) \in [parts -> Pixel]
    BY <1>1 DEF Copied, Picture
  <2> QED BY <2>1 DEF Data
<1>4. /\ f \in Frames /\ f.state = "Writing" /\ f.life = slot[pslot].life
      /\ f.gen = gen /\ f.cover = cover /\ f.data = Copied(parts)
  <2> HIDE DEF Data, Copied
  <2> QED BY <1>2, <1>3 DEF Captured, Frames
<1> HIDE DEF f
<1>5. CASE f.life = life
  <2> DEFINE h == [f EXCEPT !.state = "Ready"]
  <2>1. /\ h \in Frames /\ h.state = "Ready" /\ h.life = f.life /\ h.gen = f.gen
        /\ h.cover = f.cover /\ h.data = f.data
    BY <1>4 DEF Frames, States
  <2>2. slot' = [slot EXCEPT ![pslot] = h] /\ published' = gen /\ latest' = pslot
    BY <1>4, <1>5 DEF CommitSlot, f
  <2> HIDE DEF h
  <2>3. slot' \in [Slots -> Frames] /\ slot'[pslot] = h
        /\ \A s \in Slots \ {pslot} : slot'[s] = slot[s]
    BY <1>1, <1>2, <2>1, <2>2
  <2>4. MailboxTyped'
    BY <1>2, <2>2, <2>3 DEF Typed, MailboxTyped
  <2> QED BY <1>2, <1>4, <1>5, <2>1, <2>3, <2>4
<1>6. CASE f.life # life
  <2>1. Freed(f) \in Frames /\ Freed(f).state = "Free" /\ Freed(f).life = 0
    BY <1>4, FreedFrame DEF Freed, EmptySlot
  <2>2. slot' = [slot EXCEPT ![pslot] = Freed(f)] /\ UNCHANGED <<published, latest>>
    BY <1>6 DEF CommitSlot, f
  <2>3. slot' \in [Slots -> Frames] /\ slot'[pslot] = Freed(f)
        /\ \A s \in Slots \ {pslot} : slot'[s] = slot[s]
    BY <1>1, <1>2, <2>1, <2>2
  <2>4. MailboxTyped'
    BY <2>2, <2>3 DEF Typed, MailboxTyped
  <2> QED BY <1>1, <1>2, <2>1, <2>3, <2>4
<1> QED BY <1>5, <1>6

LEMMA BatchesInOrder ==
    ASSUME Typed, Pipeline
    PROVE  /\ BatchList(batches, seq) /\ pend \in Damage /\ seq \in Nat
           /\ HasDamage(pend) => \A i \in DOMAIN batches : batches[i].seq < seq
BY DEF Typed, GuestTyped, Pipeline, Numbers, Behind, BatchList

LEMMA InOrderTyped ==
    ASSUME NEW n, NEW bs, BatchList(bs, n)
    PROVE  bs \in Seq(Batch) /\ Len(bs) <= MaxBatches
BY DEF BatchList

\* A younger sequence number may seal the same list.
LEMMA BatchListLater ==
    ASSUME NEW n \in Nat, NEW bs, BatchList(bs, n)
    PROVE  BatchList(bs, n + 1) /\ \A i \in DOMAIN bs : bs[i].seq < n + 1
<1>1. \A i \in DOMAIN bs : bs[i].seq \in Nat /\ bs[i].seq <= n
  BY BatchesTyped DEF BatchList
<1> QED BY <1>1 DEF BatchList

\* The batches after a capture, and what the capture sees: everything that
\* was owed before stays owed, and only what is not owed is left out.
SealedAll(bs, n) ==
    /\ BatchList(bs, n)
    /\ \A g \in Int : \A r : Behind(g) /\ Owes(g, r) => Owed(bs, NoDamage, g, r)

LEMMA SealPending ==
    ASSUME Typed, Pipeline
    PROVE  /\ SealedAll(Seal(batches, pend, seq), seq)
           /\ \A r \in Regions :
                r \notin Visible(Accumulated(Seal(batches, pend, seq), NoDamage)) => ~Owes(-1, r)
<1> DEFINE z == Seal(batches, pend, seq)
<1>1. /\ BatchList(z, seq)
      /\ \A g \in Int : \A r : (HasDamage(pend) => g < seq) /\ Owed(batches, pend, g, r)
                                 => Owed(z, NoDamage, g, r)
  BY BatchesInOrder, SealKeeps
<1> HIDE DEF z
<1>2. SealedAll(z, seq)
  BY <1>1 DEF SealedAll, Owes, Behind
<1>3. Behind(-1)
  BY BatchesInOrder DEF Behind
<1>4. \A r \in Regions : Owes(-1, r) => Owed(z, NoDamage, -1, r)
  BY <1>2, <1>3 DEF SealedAll
<1>5. \A r \in Regions : r \in Visible(Accumulated(z, NoDamage)) <=> Owed(z, NoDamage, -1, r)
  BY <1>1, InOrderTyped, DamageKinds, VisibleOwed
<1> QED BY <1>2, <1>4, <1>5 DEF z

\* With nothing left to see a forced capture records full damage first.
LEMMA SealFull ==
    ASSUME Typed, Pipeline
    PROVE  SealedAll(Seal(Seal(batches, pend, seq), FullDamage, seq + 1), seq + 1)
<1> DEFINE z == Seal(batches, pend, seq)
           y == Seal(z, FullDamage, seq + 1)
<1>1. SealedAll(z, seq) /\ seq \in Nat
  BY SealPending, BatchesInOrder
<1> HIDE DEF z
<1>2. BatchList(z, seq + 1) /\ \A i \in DOMAIN z : z[i].seq < seq + 1
  BY <1>1, BatchListLater DEF SealedAll
<1>3. /\ BatchList(y, seq + 1)
      /\ \A g \in Int : \A r : (HasDamage(FullDamage) => g < seq + 1)
                                 /\ Owed(z, FullDamage, g, r) => Owed(y, NoDamage, g, r)
  BY <1>1, <1>2, DamageKinds, SealKeeps
<1> HIDE DEF y
<1>4. ASSUME NEW g \in Int, NEW r, Behind(g), Owes(g, r) PROVE Owed(y, NoDamage, g, r)
  <2>1. g < seq + 1
    BY <1>1, <1>4 DEF Behind
  <2>2. Owed(z, FullDamage, g, r)
    BY DamageKinds DEF Owed
  <2> QED BY <1>3, <2>1, <2>2
<1>5. SealedAll(y, seq + 1)
  BY <1>3, <1>4 DEF SealedAll
<1> QED BY <1>5 DEF y, z

\* A capture is a part of the guest's picture; what it leaves out is owed by
\* nobody.
LEMMA CaptureEffect ==
    ASSUME Typed, Pipeline, CaptureFrame
    PROVE  /\ pslot \in Slots /\ slot[pslot].state = "Writing" /\ MailboxTyped'
           /\ \A s \in Slots \ {pslot} : slot'[s] = slot[s]
           /\ seq' \in Nat /\ seq' >= seq /\ SealedAll(batches', seq')
           /\ \/ slot'[pslot].state = "Free" /\ slot'[pslot].life <= life
              \/ /\ slot'[pslot].state = "Ready" /\ slot'[pslot].life = life
                 /\ slot'[pslot].gen = seq'
                 /\ slot'[pslot].cover # "None" =>
                      /\ slot'[pslot].cover = "Full" => DOMAIN slot'[pslot].data = Regions
                      /\ \A r \in Regions : IF r \in DOMAIN slot'[pslot].data
                                            THEN slot'[pslot].data[r] = vram[r]
                                            ELSE ~Owes(-1, r)
<1> DEFINE z == Seal(batches, pend, seq)
           y == Seal(z, FullDamage, seq + 1)
           seen == Visible(Accumulated(z, NoDamage))
<1>1. /\ SealedAll(z, seq) /\ SealedAll(y, seq + 1) /\ seq \in Nat
      /\ \A r \in Regions : r \notin seen => ~Owes(-1, r)
  BY SealPending, SealFull, BatchesInOrder
<1>2. ppc = "capture" /\ UNCHANGED <<life, ack, want>>
  BY DEF CaptureFrame
<1>3. seen \in SUBSET Regions /\ Regions \in SUBSET Regions /\ {} \in SUBSET Regions
  BY DEF Visible
<1>4. \A parts : DOMAIN Copied(parts) = parts /\ \A r \in parts : Copied(parts)[r] = vram[r]
  BY DEF Copied
<1>5. \/ batches' = z /\ seq' = seq /\ CommitSlot(Captured("None", seq, {}))
      \/ batches' = y /\ seq' = seq + 1 /\ CommitSlot(Captured("Full", seq + 1, Regions))
      \/ batches' = z /\ seq' = seq /\ CommitSlot(Captured("Full", seq, Regions))
      \/ batches' = z /\ seq' = seq /\ CommitSlot(Captured("Partial", seq, seen))
  BY DEF CaptureFrame, Capture
<1> HIDE DEF z, y, seen
<1>6. CASE batches' = z /\ seq' = seq /\ CommitSlot(Captured("None", seq, {}))
  <2>1. "None" \in Covers
    BY DEF Covers
  <2> QED BY <1>1, <1>2, <1>3, <1>6, <2>1, CommitEffect
<1>7. CASE batches' = y /\ seq' = seq + 1 /\ CommitSlot(Captured("Full", seq + 1, Regions))
  <2>1. "Full" \in Covers /\ seq + 1 \in Nat
    BY <1>1 DEF Covers
  <2> QED BY <1>1, <1>2, <1>3, <1>4, <1>7, <2>1, CommitEffect
<1>8. CASE batches' = z /\ seq' = seq /\ CommitSlot(Captured("Full", seq, Regions))
  <2>1. "Full" \in Covers
    BY DEF Covers
  <2> QED BY <1>1, <1>2, <1>3, <1>4, <1>8, <2>1, CommitEffect
<1>9. CASE batches' = z /\ seq' = seq /\ CommitSlot(Captured("Partial", seq, seen))
  <2>1. "Partial" \in Covers
    BY DEF Covers
  <2> QED BY <1>1, <1>2, <1>3, <1>4, <1>9, <2>1, CommitEffect
<1> QED BY <1>5, <1>6, <1>7, <1>8, <1>9

\* A capture that fails leaves the frames as they are; damage that it sealed
\* stays owed.
LEMMA CaptureFailsEffect ==
    ASSUME Typed, Pipeline, CaptureFails
    PROVE  /\ pslot \in Slots /\ slot[pslot].state = "Writing" /\ MailboxTyped'
           /\ slot'[pslot].state = "Free" /\ slot'[pslot].life <= life
           /\ \A s \in Slots \ {pslot} : slot'[s] = slot[s]
           /\ \/ UNCHANGED <<pend, batches>>
              \/ pend' = NoDamage /\ SealedAll(batches', seq)
<1>1. /\ ppc = "capture" /\ slot \in [Slots -> Frames] /\ life \in Nat \ {0}
      /\ UNCHANGED <<life, published, latest, ack, want>>
  BY DEF CaptureFails, Typed, MailboxTyped
<1>2. pslot \in Slots /\ slot[pslot].state = "Writing" /\ slot[pslot] \in Frames
  BY <1>1 DEF Pipeline, Ownership, Typed, VmTyped
<1> DEFINE f == Freed(slot[pslot])
           h == [f EXCEPT !.plan = slot[pslot].life]
<1>3. f \in Frames /\ f.state = "Free" /\ f.life = 0
  BY <1>2, FreedFrame DEF Freed, EmptySlot
<1>4. h \in Frames /\ h.state = "Free" /\ h.life = 0
  <2> HIDE DEF f
  <2> QED BY <1>2, <1>3 DEF Frames
<1>5. PICK e \in {f, h} : slot' = [slot EXCEPT ![pslot] = e]
  BY DEF CaptureFails
<1>6. UNCHANGED <<pend, batches>> \/ (batches' = Seal(batches, pend, seq) /\ pend' = NoDamage)
  BY DEF CaptureFails
<1> HIDE DEF f, h
<1>7. slot' \in [Slots -> Frames] /\ slot'[pslot] = e
      /\ \A s \in Slots \ {pslot} : slot'[s] = slot[s]
  BY <1>1, <1>2, <1>3, <1>4, <1>5
<1>8. MailboxTyped'
  BY <1>1, <1>7 DEF Typed, MailboxTyped
<1>9. UNCHANGED <<pend, batches>> \/ (pend' = NoDamage /\ SealedAll(batches', seq))
  BY <1>6, SealPending
<1> QED BY <1>1, <1>2, <1>3, <1>4, <1>7, <1>8, <1>9

LEMMA OwedEarlier ==
    ASSUME NEW bs \in Seq(Batch), NEW d, NEW g \in Int, NEW h \in Int, h <= g, NEW r, Owed(bs, d, g, r)
    PROVE  Owed(bs, d, h, r)
<1>1. \A i \in DOMAIN bs : bs[i].seq \in Nat
  BY BatchesTyped
<1> QED BY <1>1 DEF Owed

\* An acknowledgement forgets nothing that a frame younger than the
\* acknowledged one, or that one itself, is owed.
LEMMA TakeAckEffect ==
    ASSUME Typed, Pipeline, TakeAck
    PROVE  /\ BatchList(batches', seq) /\ pend' \in {pend, NoDamage}
           /\ HasDamage(pend') => \A i \in DOMAIN batches' : batches'[i].seq < seq
           /\ \A g \in Int : \A r :
                (/\ Behind(g) /\ (ack.life = life => ack.seq <= g) /\ Owes(g, r))
                  => Owed(batches', pend', g, r)
<1>1. /\ BatchList(batches, seq) /\ pend \in Damage /\ seq \in Nat
      /\ HasDamage(pend) => \A i \in DOMAIN batches : batches[i].seq < seq
  BY BatchesInOrder
<1>2. ack.seq \in Nat /\ (ack.life = life => Behind(ack.seq))
  BY DEF Typed, MailboxTyped, Pipeline, Numbers
<1>3. CASE UNCHANGED <<batches, pend>>
  BY <1>1, <1>3 DEF Owes
<1>4. CASE /\ ack.life = life /\ HasBatch(batches, ack.seq)
           /\ batches' = Seal(Unacknowledged(batches, ack.seq), pend, seq) /\ pend' = NoDamage
  <2> DEFINE z == Unacknowledged(batches, ack.seq)
  <2>1. /\ BatchList(z, seq)
        /\ \A i \in DOMAIN z : \E j \in DOMAIN batches : z[i].seq = batches[j].seq
        /\ \A d : \A g \in Int : \A r : g >= ack.seq /\ Owed(batches, d, g, r) => Owed(z, d, g, r)
    BY <1>1, <1>2, <1>4, UnacknowledgedKeeps
  <2> HIDE DEF z
  <2>2. HasDamage(pend) => \A i \in DOMAIN z : z[i].seq < seq
    BY <1>1, <2>1
  <2>3. /\ BatchList(Seal(z, pend, seq), seq)
        /\ \A g \in Int : \A r : (HasDamage(pend) => g < seq) /\ Owed(z, pend, g, r)
                                   => Owed(Seal(z, pend, seq), NoDamage, g, r)
    BY <1>1, <2>1, <2>2, SealKeeps
  <2>4. batches' = Seal(z, pend, seq)
    BY <1>4 DEF z
  <2>5. ASSUME NEW g \in Int, NEW r, Behind(g), ack.seq <= g, Owes(g, r)
        PROVE  Owed(batches', pend', g, r)
    <3>1. Owed(z, pend, g, r)
      BY <1>2, <2>1, <2>5 DEF Owes
    <3> QED BY <1>4, <2>3, <2>4, <2>5, <3>1 DEF Behind
  <2> QED BY <1>4, <2>3, <2>4, <2>5, DamageKinds
<1>5. CASE ack.life = life /\ ack.seq = seq /\ HasDamage(pend)
  BY <1>1, <1>2, <1>5 DEF Behind
<1> QED BY <1>3, <1>4, <1>5 DEF TakeAck, Acknowledge

\* The frame that is to be rendered fills the gaps of its own capture: laid
\* over the copies it gives the whole captured picture.
LEMMA RenderEffect ==
    ASSUME Typed, Pipeline, ToRender
    PROVE  /\ cslot \in Slots /\ Current(cslot) /\ slot[cslot].state = "Reading"
           /\ slot[cslot].life = life /\ slot[cslot].cover # "None" /\ host.life = life
           /\ shot[cslot] \in Picture
           /\ Expandable => Expanded = [life |-> life, px |-> shot[cslot]]
           /\ Expandable /\ Stageable => ShadowOf(Expanded) = [life |-> life, px |-> shot[cslot]]
<1> DEFINE f == slot[cslot]
<1>1. /\ upc = "check" /\ f.life = life /\ f.cover # "None" /\ host.life = life
  BY DEF ToRender, Admitted, Frame
<1>2. cslot \in Slots /\ f.state = "Reading"
  BY <1>1 DEF Pipeline, Ownership, HoldingPcs, Typed, UiTyped
<1>3. Current(cslot) /\ shot[cslot] \in Picture
  BY <1>1, <1>2 DEF Current, Holds, Pipeline, Ownership
<1>4. /\ f.cover = "Full" => DOMAIN f.data = Regions
      /\ \A r \in Regions : IF r \in DOMAIN f.data THEN f.data[r] = shot[cslot][r]
                            ELSE /\ base.life = life => base.px[r] = shot[cslot][r]
                                 /\ host.shadow.life = life => host.shadow.px[r] = shot[cslot][r]
  BY <1>1, <1>2, <1>3 DEF Pipeline, FramesComplete, Fills
<1>5. shot[cslot] = [r \in Regions |-> shot[cslot][r]]
  BY <1>3 DEF Picture
<1>6. ASSUME Expandable PROVE Expanded = [life |-> life, px |-> shot[cslot]]
  <2>1. \A r \in Regions : (IF r \in DOMAIN f.data THEN f.data[r] ELSE base.px[r]) = shot[cslot][r]
    BY <1>1, <1>4, <1>6 DEF Expandable, BaseMatches, Frame
  <2>2. Over(Frame, base.px) = shot[cslot]
    BY <1>5, <2>1 DEF Over, Frame
  <2> QED BY <1>1, <2>2 DEF Expanded, Frame
<1>7. ASSUME Expandable, Stageable PROVE ShadowOf(Expanded) = [life |-> life, px |-> shot[cslot]]
  <2>1. \A r \in Regions : (IF r \in DOMAIN f.data THEN shot[cslot][r] ELSE host.shadow.px[r])
                             = shot[cslot][r]
    BY <1>1, <1>4, <1>7 DEF Stageable, BaseMatches, Frame
  <2>2. Expanded.px = shot[cslot]
    BY <1>6, <1>7
  <2>3. [r \in Regions |-> IF r \in DOMAIN Frame.data THEN Expanded.px[r] ELSE host.shadow.px[r]]
          = shot[cslot]
    BY <1>5, <2>1, <2>2 DEF Frame
  <2> QED BY <1>1, <2>3 DEF ShadowOf, Frame
<1> QED BY <1>1, <1>2, <1>3, <1>6, <1>7

\* The picture of the frame that is being read, as a copy of its lifecycle.
Whole == [life |-> life, px |-> shot[cslot]]

\* Laying the frame over the copies keeps them covered by damage, and keeps
\* every waiting frame complete.
LEMMA CopiesKept ==
    ASSUME Typed, Pipeline, ToRender, base' \in {base, Whole}, host'.shadow \in {host.shadow, Whole},
           (base' = base /\ host'.shadow = host.shadow) \/ Expandable,
           UNCHANGED <<vram, pend, batches, slot, life, ack, shot>>
    PROVE  CopiesCovered' /\ FramesComplete'
<1> DEFINE W == Whole
<1>1. /\ cslot \in Slots /\ Current(cslot) /\ slot[cslot].state = "Reading"
      /\ slot[cslot].life = life /\ slot[cslot].cover # "None"
  BY RenderEffect
<1>2. W.life = life /\ W.px = shot[cslot]
  BY DEF Whole
<1> HIDE DEF W
<1>3. /\ batches \in Seq(Batch) /\ ack.seq \in Nat /\ slot[cslot].gen \in Nat
      /\ ack.life = life => ack.seq <= slot[cslot].gen
  BY <1>1 DEF Typed, GuestTyped, MailboxTyped, Frames, Pipeline, Numbers
<1>4. ASSUME NEW r \in Regions, shot[cslot][r] # vram[r]
      PROVE  Owes(-1, r) /\ (ack.life = life => Owes(ack.seq, r))
  <2>1. Owes(slot[cslot].gen, r)
    BY <1>1, <1>4 DEF Pipeline, CapturesCovered
  <2>2. \A h \in Int : h <= slot[cslot].gen => Owes(h, r)
    BY <1>3, <2>1, OwedEarlier DEF Owes
  <2> QED BY <1>3, <2>2
<1>5. CopiesCovered'
  <2> SUFFICES ASSUME NEW copy \in {base, host.shadow, W}, copy.life = life, NEW r \in Regions,
                      copy.px[r] # vram[r]
               PROVE  Owes(-1, r) /\ (ack.life = life => Owes(ack.seq, r))
    BY DEF CopiesCovered, Owes, W
  <2>1. CASE copy = W
    BY <1>2, <1>4, <2>1
  <2>2. CASE copy \in {base, host.shadow}
    BY <2>2 DEF Pipeline, CopiesCovered
  <2> QED BY <2>1, <2>2
<1>6. FramesComplete'
  <2>1. CASE base' = base /\ host'.shadow = host.shadow
    BY <2>1 DEF Pipeline, FramesComplete, Current, Holds, Fills
  <2>2. CASE Expandable
    <3>1. ASSUME NEW s \in Slots, Current(s), slot[s].cover # "None", NEW r \in Regions, ~Fills(s, r)
          PROVE  shot[cslot][r] = shot[s][r]
      <4>1. CASE s = cslot
        BY <4>1
      <4>2. CASE s # cslot /\ Fills(cslot, r)
        <5>1. slot[s].state = "Ready"
          BY <1>1, <3>1, <4>2 DEF Current, Holds, Pipeline, Ownership
        <5> QED BY <1>1, <3>1, <4>2, <5>1 DEF Pipeline, FramesComplete
      <4>3. CASE s # cslot /\ ~Fills(cslot, r)
        <5>1. base.life = life
          BY <1>1, <2>2, <4>3 DEF Expandable, BaseMatches, Frame, Pipeline, FramesComplete, Fills
        <5>2. base.px[r] = shot[cslot][r]
          BY <1>1, <4>3, <5>1 DEF Pipeline, FramesComplete
        <5>3. base.px[r] = shot[s][r]
          BY <3>1, <5>1 DEF Pipeline, FramesComplete
        <5> QED BY <5>2, <5>3
      <4> QED BY <4>1, <4>2, <4>3
    <3>2. ASSUME NEW s \in Slots, Current(s), slot[s].cover # "None", NEW r \in Regions, ~Fills(s, r),
                 NEW copy \in {base, host.shadow, W}, copy.life = life
          PROVE  copy.px[r] = shot[s][r]
      <4>1. CASE copy = W
        BY <1>2, <3>1, <3>2, <4>1
      <4>2. CASE copy \in {base, host.shadow}
        BY <3>2, <4>2 DEF Pipeline, FramesComplete
      <4> QED BY <4>1, <4>2
    <3>3. /\ \A s \in Slots : Current(s)' <=> Current(s)
          /\ \A s, r : Fills(s, r)' <=> Fills(s, r)
      BY DEF Current, Holds, Fills
    <3>4. base' \in {base, host.shadow, W} /\ host'.shadow \in {base, host.shadow, W}
      BY DEF W
    <3> QED BY <3>2, <3>3, <3>4 DEF Pipeline, FramesComplete
  <2> QED BY <2>1, <2>2
<1> QED BY <1>5, <1>6

LEMMA HostFields ==
    ASSUME Typed
    PROVE  /\ base \in Copies /\ host \in Hosts /\ host.shadow \in Copies
           /\ host.shadow.life \in Nat /\ host.shadow.px \in Picture
           /\ host.life \in Nat /\ host.last \in Nat /\ host.owner \in Nat
           /\ host.accepting \in BOOLEAN /\ host.visible \in BOOLEAN
           /\ host.tex \in {NoTexture} \cup Picture
BY DEF Typed, ScreenTyped, Copies, Hosts

\* The four ways a frame that is to be rendered can go.
LEMMA StageEffect ==
    ASSUME Typed, Pipeline, LacksBaseline \/ StageInPlace \/ StageNew \/ StageFails
    PROVE  /\ ToRender /\ ScreenTyped' /\ base' \in {base, Whole}
           /\ host'.shadow \in {host.shadow, Whole}
           /\ (base' = base /\ host'.shadow = host.shadow) \/ Expandable
           /\ host'.life = host.life /\ host'.owner = host.owner
           /\ StageNew => /\ base' = Whole /\ host'.shadow = Whole
                          /\ host'.tex = host.tex /\ host'.visible = host.visible
                          /\ staged'.kind = "new" /\ staged'.px = shot[cslot]
                          /\ ~(host.tex # NoTexture /\ host.owner = life)
           /\ StageInPlace => /\ base' = Whole /\ host'.shadow = Whole
                              /\ host'.tex = shot[cslot] /\ host'.visible = host.visible
                              /\ staged'.kind = "in_place" /\ host.owner = life
                              /\ host.tex # NoTexture
           /\ LacksBaseline \/ StageFails =>
                \/ host' = host
                \/ host'.tex = NoTexture /\ ~host'.visible
                \/ /\ host'.tex = host.tex /\ host'.visible = host.visible
                   /\ ~(host.tex # NoTexture /\ host.owner = life)
<1> DEFINE W == Whole
<1>1. ToRender
  BY DEF LacksBaseline, StageInPlace, StageNew, StageFails
<1>2. /\ slot[cslot].life = life /\ life \in Nat /\ shot[cslot] \in Picture
      /\ Expandable => Expanded = W
      /\ Expandable /\ Stageable => ShadowOf(Expanded) = W
  BY <1>1, RenderEffect DEF Whole, Typed, MailboxTyped
<1>3. W \in Copies /\ W.px = shot[cslot] /\ W.life = life
  BY <1>2 DEF Whole, Copies
<1> HIDE DEF W
<1>4. base \in Copies /\ host \in Hosts /\ staged \in [kind : {"none", "new", "in_place"}, px : {NoTexture} \cup Picture]
  BY DEF Typed, ScreenTyped
<1>5. CASE LacksBaseline
  BY <1>1, <1>2, <1>3, <1>4, <1>5 DEF LacksBaseline, ScreenTyped, W, StageNew, StageInPlace
<1>6. CASE StageNew
  <2>1. /\ Expandable /\ Stageable /\ base' = W /\ host' = [host EXCEPT !.shadow = W]
        /\ staged' = [kind |-> "new", px |-> host'.shadow.px] /\ upc' = "commit"
        /\ ~(host.tex # NoTexture /\ host.owner = life)
    BY <1>2, <1>6 DEF StageNew, InPlace, Frame
  <2>2. /\ host' \in Hosts /\ host'.shadow = W /\ host'.tex = host.tex /\ host'.visible = host.visible
        /\ host'.life = host.life /\ host'.owner = host.owner
    BY <1>3, <1>4, <2>1 DEF Hosts
  <2>3. ScreenTyped' /\ staged'.kind = "new" /\ staged'.px = shot[cslot]
    BY <1>2, <1>3, <2>1, <2>2 DEF ScreenTyped
  <2>4. ~StageInPlace /\ ~LacksBaseline /\ ~StageFails
    BY <1>6 DEF StageNew, StageInPlace, LacksBaseline, StageFails
  <2> QED BY <1>1, <2>1, <2>2, <2>3, <2>4 DEF W
<1>7. CASE StageInPlace
  <2> DEFINE t == [r \in Regions |-> IF r \in DOMAIN Frame.data THEN Expanded.px[r] ELSE host.tex[r]]
  <2>1. /\ Expandable /\ Stageable /\ base' = W /\ host' = [host EXCEPT !.tex = t, !.shadow = W]
        /\ staged' = [kind |-> "in_place", px |-> NoTexture]
        /\ host.tex # NoTexture /\ host.owner = life
    BY <1>2, <1>7 DEF StageInPlace, InPlace, Frame
  <2>2. host.tex = host.shadow.px
    BY <2>1 DEF Pipeline, TextureComplete, Typed, MailboxTyped
  <2>3. t = ShadowOf(Expanded).px
    BY <2>2 DEF ShadowOf
  <2>4. t = shot[cslot]
    BY <1>2, <1>3, <2>1, <2>3
  <2> HIDE DEF t
  <2>5. /\ host' \in Hosts /\ host'.shadow = W /\ host'.tex = t /\ host'.visible = host.visible
        /\ host'.life = host.life /\ host'.owner = host.owner
    BY <1>2, <1>3, <1>4, <2>1, <2>4 DEF Hosts
  <2>6. ScreenTyped' /\ staged'.kind = "in_place"
    BY <1>3, <2>1, <2>5 DEF ScreenTyped
  <2>7. ~StageNew /\ ~LacksBaseline /\ ~StageFails
    BY <1>7 DEF StageNew, StageInPlace, LacksBaseline, StageFails
  <2> QED BY <1>1, <2>1, <2>4, <2>5, <2>6, <2>7 DEF W
<1>8. CASE StageFails
  <2>1. Expandable /\ UNCHANGED staged /\ ~StageNew /\ ~StageInPlace
    BY <1>8 DEF StageFails, StageNew, StageInPlace
  <2>2. base' \in {base, W}
    BY <1>2, <1>8, <2>1 DEF StageFails
  <2>3. CASE host' = host
    BY <1>1, <1>3, <1>4, <2>1, <2>2, <2>3 DEF ScreenTyped, W
  <2>4. CASE host' = Retired(host)
    <3>1. /\ host' \in Hosts /\ host'.tex = NoTexture /\ ~host'.visible
          /\ host'.shadow = host.shadow /\ host'.life = host.life /\ host'.owner = host.owner
      BY <1>4, <2>4 DEF Retired, Hosts
    <3> QED BY <1>1, <1>3, <1>4, <2>1, <2>2, <3>1 DEF ScreenTyped, W
  <2>5. CASE ~InPlace /\ Stageable /\ host' = [host EXCEPT !.shadow = ShadowOf(Expanded)]
    <3>1. host' = [host EXCEPT !.shadow = W] /\ ~(host.tex # NoTexture /\ host.owner = life)
      BY <1>2, <2>1, <2>5 DEF InPlace, Frame
    <3>2. /\ host' \in Hosts /\ host'.shadow = W /\ host'.tex = host.tex
          /\ host'.visible = host.visible /\ host'.life = host.life /\ host'.owner = host.owner
      BY <1>3, <1>4, <3>1 DEF Hosts
    <3> QED BY <1>1, <1>3, <1>4, <2>1, <2>2, <3>1, <3>2 DEF ScreenTyped, W
  <2> QED BY <1>8, <2>3, <2>4, <2>5 DEF StageFails
<1> QED BY <1>5, <1>6, <1>7, <1>8

\* host_presentation_start and host_presentation_stop: a host that changes
\* its lifecycle shows nothing and trusts no copy.
Blanked(h) == /\ h \in Hosts /\ ~h.visible /\ h.owner = 0 /\ h.shadow.life = 0
              /\ h.tex = host.tex

LEMMA HostEffect ==
    ASSUME Typed
    PROVE  /\ StartedHost(host, life) \in Hosts /\ StartedHost(host, life).life = life
           /\ StartedHost(host, life) = host \/ Blanked(StartedHost(host, life))
           /\ Blanked(StoppedHost(host)) /\ StoppedHost(host).life = host.life
           /\ Retired(host) \in Hosts /\ Retired(host).tex = NoTexture /\ ~Retired(host).visible
           /\ Retired(host).shadow = host.shadow /\ Retired(host).life = host.life
           /\ Retired(host).owner = host.owner
<1>1. host \in Hosts /\ host.shadow \in Copies /\ life \in Nat
  BY HostFields DEF Typed, MailboxTyped
<1> DEFINE c == [host.shadow EXCEPT !.life = 0]
           n == [host EXCEPT !.accepting = TRUE, !.life = life, !.last = 0, !.owner = 0,
                             !.shadow = c, !.visible = FALSE]
           o == [host EXCEPT !.accepting = FALSE, !.last = 0, !.owner = 0, !.shadow = c,
                             !.visible = FALSE]
<1>2. c \in Copies /\ c.life = 0
  BY <1>1 DEF Copies
<1>3. StoppedHost(host) = o
  BY <1>1 DEF StoppedHost, Hosts
<1>4. (StartedHost(host, life) = host /\ host.life = life) \/ StartedHost(host, life) = n
  BY <1>1 DEF StartedHost, Hosts
<1> HIDE DEF c
<1>5. n \in Hosts /\ n.life = life /\ ~n.visible /\ n.owner = 0 /\ n.shadow = c /\ n.tex = host.tex
  BY <1>1, <1>2 DEF Hosts
<1>6. o \in Hosts /\ o.life = host.life /\ ~o.visible /\ o.owner = 0 /\ o.shadow = c
      /\ o.tex = host.tex
  BY <1>1, <1>2 DEF Hosts
<1>7. /\ Retired(host) \in Hosts /\ Retired(host).tex = NoTexture /\ ~Retired(host).visible
      /\ Retired(host).shadow = host.shadow /\ Retired(host).life = host.life
      /\ Retired(host).owner = host.owner
  BY <1>1 DEF Retired, Hosts
<1> HIDE DEF n, o
<1> QED BY <1>1, <1>2, <1>3, <1>4, <1>5, <1>6, <1>7 DEF Blanked

\* host_presentation_commit_legacy_staged: the staged picture is shown.
LEMMA CommitHost ==
    ASSUME Typed, Pipeline, Commit
    PROVE  /\ host' \in Hosts /\ host'.shadow = host.shadow /\ host'.life = host.life
           /\ host'.owner = host.life /\ host'.visible
           /\ host'.tex = shot[cslot] /\ shot[cslot] \in Picture /\ host.shadow.px = shot[cslot]
           /\ slot[cslot].life = life /\ host.life = life /\ host.shadow.life = life
           /\ cslot \in Slots /\ Current(cslot)
<1>1. upc = "commit" /\ slot[cslot].life = life /\ cslot \in Slots /\ slot[cslot].state = "Reading"
  BY DEF Commit, Frame, Pipeline, Ownership, HoldingPcs, Typed, UiTyped
<1>2. Current(cslot) /\ shot[cslot] \in Picture
  BY <1>1 DEF Current, Holds, Pipeline, Ownership
<1>3. host.life = life /\ host.shadow.life = life /\ host.shadow.px = shot[cslot]
  BY <1>1 DEF Pipeline, Lifecycles, StagedComplete
<1> DEFINE t == IF staged.kind = "in_place" THEN host.tex ELSE staged.px
<1>4. t = shot[cslot]
  BY <1>1, <1>3 DEF Pipeline, StagedComplete
<1>5. slot[cslot].gen \in Nat /\ life \in Nat /\ host \in Hosts
  BY <1>1 DEF Typed, MailboxTyped, Frames, ScreenTyped
<1> HIDE DEF t
<1>6. host' = [host EXCEPT !.tex = t, !.owner = life, !.last = slot[cslot].gen, !.visible = TRUE]
  BY <1>1 DEF Commit, Frame, t
<1> QED BY <1>1, <1>2, <1>3, <1>4, <1>5, <1>6 DEF Hosts

LEMMA MoreOwed ==
    ASSUME NEW bs, NEW d \in Damage, NEW e \in Damage, NEW g, NEW r,
           Owed(bs, d, g, r) \/ Touches(e, r)
    PROVE  Owed(bs, Merge(d, e), g, r)
BY MergeTouches DEF Owed

-----------------------------------------------------------------------------
(* The parts that a step can disturb.                                      *)

LEMMA ResetLifecycles ==
    ASSUME Typed, Pipeline, Reset, base' = base, host'.life = host.life,
           host'.shadow.life \in {0, host.shadow.life}, host'.owner \in {0, host.owner},
           upc' \in {"commit", "note"} => upc' = upc /\ cslot' = cslot /\ host' = host
    PROVE  Lifecycles'
<1>1. /\ life \in Nat /\ life' = life + 1
      /\ base.life \in Nat /\ host.life \in Nat
      /\ \A s \in Slots : /\ slot'[s].life <= life'
                          /\ slot'[s].state = IF slot[s].state = "Ready" THEN "Free" ELSE slot[s].state
                          /\ slot'[s].state = "Free" \/ slot'[s] = slot[s]
  BY ResetEffect, HostFields DEF Typed, MailboxTyped, Copies
<1>2. base'.life <= life' /\ host'.life <= life'
  BY <1>1 DEF Pipeline, Lifecycles
<1>3. host'.shadow.life \in {0, host'.life} /\ host'.owner \in {0, host'.life}
  BY DEF Pipeline, Lifecycles
<1>4. ASSUME upc' \in {"commit", "note"}
      PROVE  slot'[cslot'].life = host'.life /\ host'.shadow.life = host'.life
  <2>1. upc' = upc /\ cslot' = cslot /\ host' = host
    BY <1>4
  <2>2. cslot \in Slots /\ slot[cslot].state = "Reading"
    BY <1>4, <2>1 DEF Pipeline, Ownership, HoldingPcs, Typed, UiTyped
  <2>3. slot'[cslot] = slot[cslot]
    BY <1>1, <2>2
  <2> QED BY <1>4, <2>1, <2>3 DEF Pipeline, Lifecycles
<1>5. \A s \in Slots : slot'[s].state # "Ready"
  BY <1>1
<1> QED BY <1>1, <1>2, <1>3, <1>4, <1>5 DEF Lifecycles

\* What the guest draws is pending damage, under a sequence number of its own.
LEMMA DrawKeeps ==
    ASSUME Typed, Pipeline, NEW part \in Regions \cup {Hidden}, Draw(part)
    PROVE  GuestTyped' /\ Numbers' /\ CapturesCovered' /\ CopiesCovered'
<1> DEFINE d == [full |-> FALSE, parts |-> {part}]
<1>1. /\ d \in Damage /\ pend \in Damage /\ \A r : Touches(d, r) <=> r = part
      /\ boot \in Nat /\ seq \in Nat /\ vram \in Picture /\ batches \in Seq(Batch)
  BY DamageKinds DEF Typed, GuestTyped, Touches
<1> HIDE DEF d
<1>2. /\ seq' = seq + 1 /\ pend' = Merge(pend, d)
      /\ vram' = [r \in Regions |-> IF r = part THEN <<boot, seq + 1>> ELSE vram[r]]
      /\ UNCHANGED <<boot, batches, slot, life, ack, base, host, shot, upc, cslot>>
  BY DEF Draw, d, mailbox, screen, ui
<1>3. pend' \in Damage
  BY <1>1, <1>2, MergeTouches
<1>4. vram' \in Picture
  BY <1>1, <1>2 DEF Picture, Pixel
<1>5. GuestTyped'
  BY <1>1, <1>2, <1>3, <1>4 DEF Typed, GuestTyped
<1>6. \A n : Behind(n) /\ n \in Nat => Behind(n)'
  BY <1>1, <1>2 DEF Behind
<1>7. Numbers'
  <2>1. \A i \in DOMAIN batches : batches[i].seq \in Nat
    BY <1>1, BatchesTyped
  <2>2. ack.seq \in Nat /\ \A s \in Slots : slot[s].gen \in Nat
    BY DEF Typed, MailboxTyped, Frames
  <2>3. \A s \in Slots : Current(s)' <=> Current(s)
    BY <1>2 DEF Current, Holds
  <2> QED BY <1>2, <1>6, <2>1, <2>2, <2>3 DEF Pipeline, Numbers
<1>8. ASSUME NEW g, NEW r \in Regions, NEW p, p # vram'[r], p # vram[r] => Owes(g, r)
      PROVE  Owes(g, r)'
  <2>1. Owed(batches, pend, g, r) \/ Touches(d, r)
    BY <1>1, <1>2, <1>8 DEF Owes
  <2>2. Owed(batches, Merge(pend, d), g, r)
    BY <1>1, <2>1, MoreOwed
  <2> QED BY <1>2, <2>2 DEF Owes
<1>9. CapturesCovered'
  BY <1>2, <1>8 DEF Pipeline, CapturesCovered, Current, Holds
<1>10. CopiesCovered'
  <2> SUFFICES ASSUME NEW copy \in {base, host.shadow}, copy.life = life, NEW r \in Regions,
                      copy.px[r] # vram'[r]
               PROVE  Owes(-1, r)' /\ (ack.life = life => Owes(ack.seq, r)')
    BY <1>2 DEF CopiesCovered, Owes
  <2>1. copy.px[r] # vram[r] => Owes(-1, r) /\ (ack.life = life => Owes(ack.seq, r))
    BY DEF Pipeline, CopiesCovered
  <2> DEFINE p == copy.px[r]
  <2>2. Owes(-1, r)'
    BY <1>8, <2>1
  <2>3. ack.life = life => Owes(ack.seq, r)'
    BY <1>2, <1>8, <2>1
  <2> QED BY <2>2, <2>3
<1> QED BY <1>5, <1>7, <1>9, <1>10

\* Full damage under a new sequence number covers everything.
LEMMA FullKeeps ==
    ASSUME Typed, Pipeline, seq' = seq + 1, pend' = FullDamage,
           UNCHANGED <<batches, slot, life, ack>>
    PROVE  Numbers' /\ CapturesCovered' /\ CopiesCovered'
<1>1. seq \in Nat /\ batches \in Seq(Batch) /\ HasDamage(pend')
      /\ \A r : Touches(pend', r)
  BY DamageKinds DEF Typed, GuestTyped
<1>2. \A n : Behind(n) /\ n \in Nat => Behind(n)'
  BY <1>1 DEF Behind
<1>3. Numbers'
  <2>1. \A i \in DOMAIN batches : batches[i].seq \in Nat
    BY <1>1, BatchesTyped
  <2>2. ack.seq \in Nat /\ \A s \in Slots : slot[s].gen \in Nat
    BY DEF Typed, MailboxTyped, Frames
  <2>3. \A s \in Slots : Current(s)' <=> Current(s)
    BY DEF Current, Holds
  <2> QED BY <1>2, <2>1, <2>2, <2>3 DEF Pipeline, Numbers
<1>4. \A g, r : Owed(batches', pend', g, r)
  BY <1>1 DEF Owed
<1> QED BY <1>3, <1>4 DEF CapturesCovered, CopiesCovered, Owes

LEMMA BootNumbers == ASSUME Typed, Pipeline, Boot PROVE Numbers'
<1>1. batches' = <<>> /\ Reset
  BY DEF Boot, NewMachine
<1>2. ack'.life # life' /\ \A s \in Slots : ~Current(s)'
  BY <1>1, ResetEffect
<1>3. DOMAIN batches' = {}
  BY <1>1
<1> QED BY <1>2, <1>3 DEF Numbers, Increasing

\* The acknowledged damage is on the screen side already.
LEMMA TakeAckKeeps ==
    ASSUME Typed, Pipeline, TakeAck PROVE Numbers' /\ CapturesCovered' /\ CopiesCovered'
<1>1. /\ BatchList(batches', seq) /\ pend' \in {pend, NoDamage}
      /\ HasDamage(pend') => \A i \in DOMAIN batches' : batches'[i].seq < seq
      /\ \A g \in Int : \A r : (/\ Behind(g) /\ (ack.life = life => ack.seq <= g) /\ Owes(g, r))
                                 => Owed(batches', pend', g, r)
  BY TakeAckEffect
<1>2. /\ ack' = NoAck /\ UNCHANGED <<seq, vram, slot, life, base, host, shot>>
  BY DEF TakeAck, screen
<1>3. ack'.life # life' /\ life \in Nat \ {0} /\ seq \in Nat
  BY <1>2 DEF NoAck, Typed, MailboxTyped, GuestTyped
<1>4. \A s \in Slots : Current(s)' <=> Current(s)
  BY <1>2 DEF Current, Holds
<1>5. HasDamage(pend') => HasDamage(pend)
  BY <1>1, DamageKinds
<1>6. \A n : Behind(n) => Behind(n)'
  BY <1>2, <1>5 DEF Behind
<1>7. Increasing(batches') /\ \A i \in DOMAIN batches' : Behind(batches[i].seq)'
  BY <1>1, <1>2 DEF BatchList, Behind
<1>8. \A s \in Slots : Current(s) => /\ slot[s].gen \in Int /\ Behind(slot[s].gen)
                                     /\ (ack.life = life => ack.seq <= slot[s].gen)
  BY DEF Pipeline, Numbers, Typed, MailboxTyped, Frames
<1>9. Numbers'
  BY <1>2, <1>3, <1>4, <1>6, <1>7 DEF Pipeline, Numbers
<1>10. CapturesCovered'
  <2> SUFFICES ASSUME NEW s \in Slots, Current(s), NEW r \in Regions, shot[s][r] # vram[r]
               PROVE  Owed(batches', pend', slot[s].gen, r)
    BY <1>2, <1>4 DEF CapturesCovered, Owes
  <2>1. Owes(slot[s].gen, r)
    BY DEF Pipeline, CapturesCovered
  <2> QED BY <1>1, <1>8, <2>1
<1>11. CopiesCovered'
  <2> SUFFICES ASSUME NEW copy \in {base, host.shadow}, copy.life = life, NEW r \in Regions,
                      copy.px[r] # vram[r]
               PROVE  Owed(batches', pend', -1, r)
    BY <1>2, <1>3 DEF CopiesCovered, Owes
  <2>1. Owes(-1, r) /\ (ack.life = life => Owes(ack.seq, r))
    BY DEF Pipeline, CopiesCovered
  <2>2. CASE ack.life # life
    <3>1. Behind(-1)
      BY <1>3 DEF Behind
    <3> QED BY <1>1, <2>1, <2>2, <3>1
  <2>3. CASE ack.life = life
    <3>1. Behind(ack.seq) /\ ack.seq \in Nat
      BY <2>3 DEF Pipeline, Numbers, Typed, MailboxTyped
    <3>2. Owed(batches', pend', ack.seq, r)
      BY <1>1, <2>1, <2>3, <3>1
    <3>3. batches' \in Seq(Batch) /\ -1 <= ack.seq /\ -1 \in Int /\ ack.seq \in Int
      BY <1>1, <3>1, InOrderTyped
    <3> QED BY <3>2, <3>3, OwedEarlier
  <2> QED BY <2>2, <2>3
<1> QED BY <1>9, <1>10, <1>11

LEMMA ApplyBaselineKeeps ==
    ASSUME Typed, Pipeline, ApplyBaseline
    PROVE  MailboxTyped' /\ Numbers' /\ CapturesCovered' /\ CopiesCovered'
<1>1. /\ UNCHANGED <<vram, batches, slot, life, published, latest, ack, base, host, shot>>
      /\ want' = NoWant \/ want' = want \/ want' = [want EXCEPT !.issued = TRUE]
      /\ UNCHANGED <<seq, pend>> \/ (seq' = seq + 1 /\ pend' = FullDamage)
  BY DEF ApplyBaseline, screen
<1>2. want' \in [life : Nat, issued : BOOLEAN]
  <2>1. want \in [life : Nat, issued : BOOLEAN]
    BY DEF Typed, MailboxTyped
  <2>2. [want EXCEPT !.issued = TRUE] \in [life : Nat, issued : BOOLEAN]
    BY <2>1
  <2>3. NoWant \in [life : Nat, issued : BOOLEAN]
    BY DEF NoWant
  <2> QED BY <1>1, <2>1, <2>2, <2>3, Zenon
<1>3. MailboxTyped'
  BY <1>1, <1>2 DEF Typed, MailboxTyped
<1>4. CASE UNCHANGED <<seq, pend>>
  <2>1. \A n : Behind(n) <=> Behind(n)'
    BY <1>4 DEF Behind
  <2>2. \A s \in Slots : Current(s)' <=> Current(s)
    BY <1>1 DEF Current, Holds
  <2> QED BY <1>1, <1>3, <1>4, <2>1, <2>2 DEF Pipeline, Numbers, CapturesCovered, CopiesCovered, Owes
<1>5. CASE seq' = seq + 1 /\ pend' = FullDamage
  BY <1>1, <1>3, <1>5, FullKeeps
<1> QED BY <1>1, <1>4, <1>5

LEMMA BeginKeeps ==
    ASSUME Typed, Pipeline, Begin PROVE Ownership' /\ Lifecycles' /\ CapturesCovered'
<1>1. /\ MailboxTyped' /\ pslot' \in Slots /\ slot[pslot'].state \in {"Free", "Ready"}
      /\ slot'[pslot'].state = "Writing" /\ slot'[pslot'].life = life
      /\ \A s \in Slots \ {pslot'} :
           IF slot[s].state = "Ready" THEN slot'[s].state = "Free" /\ slot'[s].life = 0
           ELSE slot'[s] = slot[s]
      /\ \A s \in Slots : Current(s)' => Current(s) /\ slot'[s] = slot[s]
  BY BeginEffect
<1>2. /\ ppc = "begin" /\ ppc' = "capture"
      /\ UNCHANGED <<vram, pend, batches, life, base, host, shot, upc, cslot>>
  BY DEF Begin, guest, screen, ui
<1>3. life \in Nat /\ pslot' # NoSlot /\ cslot # pslot'
  BY <1>1 DEF Typed, MailboxTyped, Slots, NoSlot, Pipeline, Ownership
<1>4. \A s \in Slots \ {pslot'} : slot[s].state # "Writing"
  BY <1>2 DEF Pipeline, Ownership
<1>5. Ownership'
  <2>1. \A s \in Slots : slot'[s].state = "Writing" <=> s = pslot'
    BY <1>1, <1>4
  <2>2. \A s \in Slots : slot'[s].state = "Reading" <=> slot[s].state = "Reading"
    BY <1>1
  <2>3. \A s \in Slots : slot'[s].state # "Ready"
    BY <1>1
  <2> QED BY <1>2, <1>3, <2>1, <2>2, <2>3 DEF Pipeline, Ownership, Holds
<1>6. Lifecycles'
  <2>1. \A s \in Slots : slot'[s].life <= life /\ slot'[s].state # "Ready"
    BY <1>1, <1>3 DEF Pipeline, Lifecycles
  <2>2. upc \in {"commit", "note"} => slot'[cslot] = slot[cslot]
    <3> SUFFICES ASSUME upc \in {"commit", "note"} PROVE slot'[cslot] = slot[cslot]
      OBVIOUS
    <3>1. cslot \in Slots /\ slot[cslot].state = "Reading"
      BY DEF Pipeline, Ownership, HoldingPcs, Typed, UiTyped
    <3> QED BY <1>1, <1>3, <3>1
  <2> QED BY <1>2, <2>1, <2>2 DEF Pipeline, Lifecycles
<1>7. CapturesCovered'
  BY <1>1, <1>2 DEF Pipeline, CapturesCovered, Owes
<1> QED BY <1>5, <1>6, <1>7

\* A capture that is published or dropped: what was owed stays owed, and a
\* partial frame leaves out only what every copy and every frame has.
LEMMA CaptureKeeps ==
    ASSUME Typed, Pipeline, CaptureFrame
    PROVE  GuestTyped' /\ Numbers' /\ CapturesCovered' /\ CopiesCovered' /\ FramesComplete'
<1> PICK p \in Slots : p = pslot
  BY CaptureEffect
<1>1. /\ slot[p].state = "Writing" /\ MailboxTyped'
      /\ \A s \in Slots : s # p => slot'[s] = slot[s]
      /\ seq' \in Nat /\ seq' >= seq /\ SealedAll(batches', seq')
  BY CaptureEffect
<1>2. \/ slot'[p].state = "Free"
      \/ /\ slot'[p].state = "Ready" /\ slot'[p].life = life
         /\ slot'[p].gen = seq'
         /\ slot'[p].cover # "None" =>
              /\ slot'[p].cover = "Full" => DOMAIN slot'[p].data = Regions
              /\ \A r \in Regions : IF r \in DOMAIN slot'[p].data
                                    THEN slot'[p].data[r] = vram[r]
                                    ELSE ~Owes(-1, r)
  BY CaptureEffect
<1>3. /\ ppc = "capture" /\ pend' = NoDamage
      /\ UNCHANGED <<boot, vram, life, ack, base, host, upc, cslot>>
      /\ \A s \in Slots : shot'[s] = IF slot'[s].state # "Free" THEN
                                       IF s = p THEN vram ELSE shot[s]
                                     ELSE NoTexture
  BY DEF CaptureFrame, screen, ui
<1>4. BatchList(batches', seq') /\ seq \in Nat /\ ack.seq \in Nat
      /\ batches' \in Seq(Batch) /\ Len(batches') <= MaxBatches
  BY <1>1, InOrderTyped DEF SealedAll, Typed, GuestTyped, MailboxTyped
<1>5. ASSUME NEW g \in Int, NEW r, Behind(g), Owes(g, r) PROVE Owed(batches', pend', g, r)
  BY <1>1, <1>3, <1>5 DEF SealedAll
<1>6. ~HasDamage(pend') /\ pend' \in Damage
  BY <1>3, DamageKinds
<1>7. \A n : Behind(n)' <=> n <= seq'
  BY <1>6 DEF Behind
<1>8. GuestTyped'
  BY <1>1, <1>3, <1>4, <1>6 DEF Typed, GuestTyped
<1>9. ASSUME NEW s \in Slots, s # p
      PROVE  /\ Current(s)' <=> Current(s)
             /\ slot[s].state # "Ready" /\ slot[s].gen \in Nat
             /\ slot'[s] = slot[s] /\ (Current(s) => shot'[s] = shot[s])
  <2>1. slot'[s] = slot[s] /\ slot[s].state # "Ready"
    BY <1>1, <1>3, <1>9 DEF Pipeline, Ownership
  <2>2. Current(s)' <=> Current(s)
    BY <1>3, <2>1 DEF Current, Holds
  <2>3. Current(s) => shot'[s] = shot[s]
    BY <1>3, <1>9, <2>1 DEF Current, Holds
  <2>4. slot[s].gen \in Nat
    BY DEF Typed, MailboxTyped, Frames
  <2> QED BY <2>1, <2>2, <2>3, <2>4
<1>10. ~Current(p) /\ (Current(p)' => shot'[p] = vram /\ slot'[p].gen = seq')
  BY <1>1, <1>2, <1>3 DEF Current, Holds
<1>11. \A n : Behind(n) /\ n \in Nat => Behind(n)' /\ n <= seq'
  BY <1>1, <1>4, <1>7 DEF Behind
<1>12. Numbers'
  <2>1. Increasing(batches') /\ \A i \in DOMAIN batches' : Behind(batches[i].seq)'
    BY <1>4, <1>7 DEF BatchList
  <2>2. \A s \in Slots : Current(s)' => Behind(slot[s].gen)' /\ slot'[s].gen <= seq'
    BY <1>1, <1>7, <1>9, <1>10, <1>11 DEF Pipeline, Numbers
  <2>3. ack.life = life => /\ Behind(ack.seq)' /\ ack.seq <= seq'
                           /\ \A s \in Slots : Current(s)' => ack.seq <= slot'[s].gen
    BY <1>3, <1>4, <1>9, <1>10, <1>11 DEF Pipeline, Numbers
  <2>4. \A s, t \in Slots :
          Current(s)' /\ slot'[s].state = "Reading" /\ Current(t)' /\ slot'[t].state = "Ready"
            => slot'[s].gen <= slot'[t].gen
    BY <1>1, <1>9, <1>10, <2>2 DEF Pipeline, Numbers
  <2> QED BY <1>3, <2>1, <2>2, <2>3, <2>4 DEF Numbers
<1>13. CapturesCovered'
  <2> SUFFICES ASSUME NEW s \in Slots, Current(s)', NEW r \in Regions, shot'[s][r] # vram[r]
               PROVE  Owed(batches', pend', slot'[s].gen, r)
    BY <1>3 DEF CapturesCovered, Owes
  <2>1. s # p /\ Current(s) /\ shot'[s] = shot[s] /\ slot'[s] = slot[s] /\ slot[s].gen \in Int
    BY <1>9, <1>10
  <2>2. Owes(slot[s].gen, r) /\ Behind(slot[s].gen)
    BY <2>1 DEF Pipeline, CapturesCovered, Numbers
  <2> QED BY <1>5, <2>1, <2>2
<1>14. CopiesCovered'
  <2> SUFFICES ASSUME NEW copy \in {base, host.shadow}, copy.life = life, NEW r \in Regions,
                      copy.px[r] # vram[r]
               PROVE  /\ Owed(batches', pend', -1, r)
                      /\ ack.life = life => Owed(batches', pend', ack.seq, r)
    BY <1>3 DEF CopiesCovered, Owes
  <2>1. Owes(-1, r) /\ (ack.life = life => Owes(ack.seq, r))
    BY DEF Pipeline, CopiesCovered
  <2>2. Behind(-1) /\ (ack.life = life => Behind(ack.seq))
    BY <1>4 DEF Behind, Pipeline, Numbers
  <2> QED BY <1>4, <1>5, <2>1, <2>2
<1>15. FramesComplete'
  <2>1. ASSUME NEW t \in Slots, Current(t), NEW r \in Regions, ~Owes(-1, r)
        PROVE  shot[t][r] = vram[r]
    <3> SUFFICES ASSUME shot[t][r] # vram[r] PROVE FALSE
      OBVIOUS
    <3>1. Owes(slot[t].gen, r) /\ slot[t].gen \in Nat /\ batches \in Seq(Batch)
      BY <2>1 DEF Pipeline, CapturesCovered, Typed, MailboxTyped, GuestTyped, Frames
    <3>2. Owed(batches, pend, slot[t].gen, r) /\ -1 \in Int /\ slot[t].gen \in Int
          /\ -1 <= slot[t].gen
      BY <3>1 DEF Owes
    <3>3. Owed(batches, pend, -1, r)
      BY <3>1, <3>2, OwedEarlier
    <3> QED BY <2>1, <3>3 DEF Owes
  <2>2. \A copy \in {base, host.shadow} : copy.life = life =>
          \A r \in Regions : ~Owes(-1, r) => copy.px[r] = vram[r]
    BY DEF Pipeline, CopiesCovered
  <2> SUFFICES ASSUME NEW s \in Slots, Current(s)', slot'[s].cover # "None"
               PROVE  /\ slot'[s].cover = "Full" => DOMAIN slot'[s].data = Regions
                      /\ \A r \in Regions :
                           IF r \in DOMAIN slot'[s].data THEN slot'[s].data[r] = shot'[s][r]
                           ELSE /\ \A copy \in {base, host.shadow} :
                                     copy.life = life => copy.px[r] = shot'[s][r]
                                /\ slot'[s].state = "Ready" => \A t \in Slots :
                                     Current(t)' /\ slot'[t].state = "Reading"
                                     /\ slot'[t].cover # "None" /\ r \in DOMAIN slot'[t].data
                                     => shot'[t][r] = shot'[s][r]
    BY <1>3 DEF FramesComplete, Fills
  <2>3. CASE s = p
    <3>1. shot'[s] = vram /\ slot'[s].state = "Ready"
      BY <1>2, <1>10, <2>3 DEF Current, Holds
    <3>2. ASSUME NEW t \in Slots, Current(t)', slot'[t].state = "Reading"
          PROVE  Current(t) /\ shot'[t] = shot[t]
      BY <1>9, <2>3, <3>1, <3>2
    <3>3. /\ slot'[s].cover = "Full" => DOMAIN slot'[s].data = Regions
          /\ \A r \in Regions : IF r \in DOMAIN slot'[s].data
                                THEN slot'[s].data[r] = vram[r] ELSE ~Owes(-1, r)
      BY <1>2, <2>3, <3>1
    <3> QED BY <2>1, <2>2, <3>1, <3>2, <3>3
  <2>4. CASE s # p
    <3>1. Current(s) /\ slot[s].state # "Ready" /\ slot'[s] = slot[s] /\ shot'[s] = shot[s]
      BY <1>9, <2>4
    <3> QED BY <3>1 DEF Pipeline, FramesComplete, Fills
  <2> QED BY <2>3, <2>4
<1> QED BY <1>8, <1>12, <1>13, <1>14, <1>15

LEMMA CaptureFailsKeeps ==
    ASSUME Typed, Pipeline, CaptureFails
    PROVE  GuestTyped' /\ Numbers' /\ CapturesCovered' /\ CopiesCovered'
<1>1. /\ pslot \in Slots /\ slot[pslot].state = "Writing" /\ slot'[pslot].state = "Free"
      /\ \A s \in Slots \ {pslot} : slot'[s] = slot[s]
      /\ UNCHANGED <<pend, batches>> \/ (pend' = NoDamage /\ SealedAll(batches', seq))
  BY CaptureFailsEffect
<1>2. UNCHANGED <<boot, seq, vram, life, ack, base, host, shot>>
  BY DEF CaptureFails, screen
<1>3. \A s \in Slots : Current(s)' => Current(s) /\ slot'[s] = slot[s]
  BY <1>1, <1>2 DEF Current, Holds
<1>4. seq \in Nat /\ ack.seq \in Nat /\ \A s \in Slots : slot[s].gen \in Nat
  BY DEF Typed, GuestTyped, MailboxTyped, Frames
<1>5. CASE UNCHANGED <<pend, batches>>
  <2>1. \A n : Behind(n)' <=> Behind(n)
    BY <1>2, <1>5 DEF Behind
  <2>2. \A g, r : Owes(g, r)' <=> Owes(g, r)
    BY <1>5 DEF Owes
  <2>3. GuestTyped'
    BY <1>2, <1>5 DEF Typed, GuestTyped
  <2>4. Numbers'
    BY <1>2, <1>3, <1>5, <2>1 DEF Pipeline, Numbers
  <2>5. CapturesCovered' /\ CopiesCovered'
    BY <1>2, <1>3, <1>5 DEF Pipeline, CapturesCovered, CopiesCovered, Owes
  <2> QED BY <2>3, <2>4, <2>5
<1>6. CASE pend' = NoDamage /\ SealedAll(batches', seq)
  <2>1. BatchList(batches', seq) /\ batches' \in Seq(Batch) /\ Len(batches') <= MaxBatches
        /\ ~HasDamage(pend') /\ pend' \in Damage
    BY <1>6, InOrderTyped, DamageKinds DEF SealedAll
  <2>2. ASSUME NEW g \in Int, NEW r, Behind(g), Owes(g, r) PROVE Owed(batches', pend', g, r)
    BY <1>6, <2>2 DEF SealedAll
  <2>3. GuestTyped'
    BY <1>2, <2>1 DEF Typed, GuestTyped
  <2>4. \A n : Behind(n) => Behind(n)'
    BY <1>2, <2>1 DEF Behind
  <2>5. Increasing(batches') /\ \A i \in DOMAIN batches' : Behind(batches[i].seq)'
    BY <1>2, <2>1 DEF BatchList, Behind
  <2>6. Numbers'
    BY <1>2, <1>3, <2>4, <2>5 DEF Pipeline, Numbers
  <2>7. CapturesCovered'
    <3> SUFFICES ASSUME NEW s \in Slots, Current(s), NEW r \in Regions, shot[s][r] # vram[r]
                 PROVE  Owed(batches', pend', slot[s].gen, r)
      BY <1>2, <1>3 DEF CapturesCovered, Owes
    <3>1. Owes(slot[s].gen, r) /\ Behind(slot[s].gen)
      BY DEF Pipeline, CapturesCovered, Numbers
    <3> QED BY <1>4, <2>2, <3>1
  <2>8. CopiesCovered'
    <3> SUFFICES ASSUME NEW copy \in {base, host.shadow}, copy.life = life, NEW r \in Regions,
                        copy.px[r] # vram[r]
                 PROVE  /\ Owed(batches', pend', -1, r)
                        /\ ack.life = life => Owed(batches', pend', ack.seq, r)
      BY <1>2 DEF CopiesCovered, Owes
    <3>1. Owes(-1, r) /\ (ack.life = life => Owes(ack.seq, r))
      BY DEF Pipeline, CopiesCovered
    <3>2. Behind(-1) /\ (ack.life = life => Behind(ack.seq))
      BY <1>4 DEF Behind, Pipeline, Numbers
    <3> QED BY <1>4, <2>2, <3>1, <3>2
  <2> QED BY <2>3, <2>6, <2>7, <2>8
<1> QED BY <1>1, <1>5, <1>6

\* The applied frame is acknowledged: both copies are its capture.
LEMMA NoteAppliedKeeps ==
    ASSUME Typed, Pipeline, NoteApplied PROVE Numbers' /\ CopiesCovered'
<1>1. /\ upc = "note" /\ UNCHANGED <<seq, vram, pend, batches, slot, life, base, host, shot>>
      /\ ack' = IF slot[cslot].life = life THEN [life |-> slot[cslot].life, seq |-> slot[cslot].gen]
                ELSE ack
  BY DEF NoteApplied, Frame, guest, screen
<1>2. cslot \in Slots /\ slot[cslot].state = "Reading"
  BY <1>1 DEF Pipeline, Ownership, HoldingPcs, Typed, UiTyped
<1>3. \A s \in Slots : Current(s)' <=> Current(s)
  BY <1>1 DEF Current, Holds
<1>4. \A n : Behind(n)' <=> Behind(n)
  BY <1>1 DEF Behind
<1>5. CASE slot[cslot].life # life
  BY <1>1, <1>3, <1>4, <1>5 DEF Pipeline, Numbers, CopiesCovered, Owes
<1>6. CASE slot[cslot].life = life
  <2>1. ack'.life = life /\ ack'.seq = slot[cslot].gen /\ Current(cslot)
    BY <1>1, <1>2, <1>6 DEF Current, Holds
  <2>2. \A s \in Slots : Current(s) => slot[cslot].gen <= slot[s].gen
    <3> SUFFICES ASSUME NEW s \in Slots, Current(s) PROVE slot[cslot].gen <= slot[s].gen
      OBVIOUS
    <3>1. slot[cslot].gen \in Nat
      BY <1>2 DEF Typed, MailboxTyped, Frames
    <3>2. CASE s = cslot
      BY <3>1, <3>2
    <3>3. CASE s # cslot
      <4>1. slot[s].state = "Ready"
        BY <3>3 DEF Current, Holds, Pipeline, Ownership
      <4> QED BY <1>2, <2>1, <4>1 DEF Pipeline, Numbers
    <3> QED BY <3>2, <3>3
  <2>3. Numbers'
    BY <1>1, <1>2, <1>3, <1>4, <2>1, <2>2 DEF Pipeline, Numbers
  <2>4. base.px = shot[cslot] /\ host.shadow.px = shot[cslot]
    BY <1>1 DEF Pipeline, StagedComplete
  <2>5. \A r \in Regions : shot[cslot][r] # vram[r] => Owes(slot[cslot].gen, r)
    BY <1>2, <2>1 DEF Pipeline, CapturesCovered
  <2>6. CopiesCovered'
    <3> SUFFICES ASSUME NEW copy \in {base, host.shadow}, copy.life = life, NEW r \in Regions,
                        copy.px[r] # vram[r]
                 PROVE  Owes(-1, r) /\ Owes(slot[cslot].gen, r)
      BY <1>1, <2>1 DEF CopiesCovered, Owes
    <3> QED BY <2>4, <2>5 DEF Pipeline, CopiesCovered
  <2> QED BY <2>3, <2>6
<1> QED BY <1>5, <1>6

LEMMA BootFailsKeeps ==
    ASSUME Typed, Pipeline, BootFails PROVE VmTyped' /\ Lifecycles' /\ CopiesCovered'
<1>1. /\ UNCHANGED <<pslot, running, vram, pend, batches, upc, cslot, base, host>>
      /\ ppc' = "announce" /\ live' = FALSE
      /\ Reset \/ UNCHANGED mailbox
  BY DEF BootFails, guest, ui, screen
<1>2. VmTyped'
  BY <1>1, Zenon DEF Typed, VmTyped
<1>3. CASE Reset
  <2>1. Lifecycles'
    BY <1>1, <1>3, ResetLifecycles
  <2>2. ack'.life # life' /\ life' > life /\ life \in Nat /\ base.life \in Nat /\ host.shadow.life \in Nat
    BY <1>3, ResetEffect, HostFields DEF Typed, MailboxTyped, Copies
  <2>3. base.life # life' /\ host.shadow.life # life'
    BY <2>2, HostFields DEF Pipeline, Lifecycles
  <2>4. CopiesCovered'
    BY <1>1, <2>3 DEF CopiesCovered
  <2> QED BY <1>2, <2>1, <2>4
<1>4. CASE UNCHANGED mailbox
  BY <1>1, <1>2, <1>4 DEF mailbox, Pipeline, Lifecycles, CopiesCovered, Owes
<1> QED BY <1>1, <1>3, <1>4

LEMMA BootLifecycles == ASSUME Typed, Pipeline, Boot PROVE Lifecycles'
BY ResetLifecycles DEF Boot, NewMachine, screen, ui

LEMMA SyncStoppedLifecycles == ASSUME Typed, Pipeline, SyncStopped PROVE Lifecycles'
<1>1. base' = base /\ upc' = "acquire"
  BY DEF SyncStopped
<1>2. CASE Reset /\ host' = StoppedHost(host)
  <2>1. host'.life = host.life /\ host'.shadow.life = 0 /\ host'.owner = 0
    BY <1>2, HostEffect DEF Blanked
  <2> QED BY <1>1, <1>2, <2>1, ResetLifecycles
<1>3. CASE UNCHANGED <<mailbox, host>>
  BY <1>1, <1>3 DEF mailbox, Pipeline, Lifecycles
<1> QED BY <1>2, <1>3 DEF SyncStopped

LEMMA VmFlags ==
    ASSUME Typed, Reinitialize \/ Shutdown PROVE VmTyped'
<1>1. ppc' \in {"boot", "announce"} /\ pslot' = pslot /\ live' \in {live, FALSE} /\ running' \in {running, FALSE}
  BY Zenon DEF Reinitialize, Shutdown
<1> QED BY <1>1, Zenon DEF Typed, VmTyped

\* The texture that is overwritten in place is the whole picture again.
LEMMA InPlaceTexture == ASSUME Typed, Pipeline, StageInPlace PROVE TextureComplete'
<1>1. /\ host'.shadow = Whole /\ host'.tex = shot[cslot] /\ host'.visible = host.visible
      /\ staged'.kind = "in_place" /\ host.owner = life /\ host'.owner = host.owner
  BY StageEffect
<1>2. shot[cslot] \in Picture
  BY RenderEffect DEF StageInPlace
<1>3. upc' = "commit" /\ host'.tex # NoTexture
  BY <1>1, <1>2, NoPicture DEF StageInPlace
<1>4. host'.shadow.px = host'.tex /\ host'.shadow.life = host'.owner
  BY <1>1 DEF Whole
<1> QED BY <1>1, <1>3, <1>4 DEF TextureComplete

LEMMA StageFailsLifecycles == ASSUME Typed, Pipeline, StageFails PROVE Lifecycles'
<1>1. /\ base' \in {base, Whole} /\ host'.shadow \in {host.shadow, Whole}
      /\ host'.life = host.life /\ host'.owner = host.owner /\ host.life = life
      /\ upc' = "retry" /\ UNCHANGED <<slot, life>>
  BY StageEffect, RenderEffect DEF StageFails, mailbox
<1>2. Whole.life = life /\ life \in Nat
  BY DEF Whole, Typed, MailboxTyped
<1> QED BY <1>1, <1>2 DEF Pipeline, Lifecycles

-----------------------------------------------------------------------------
(* Machines and the guest.                                                 *)

LEMMA ReinitializeKept ==
    ASSUME Typed, Pipeline, Reinitialize PROVE Typed' /\ Pipeline'
<1>1. GuestTyped' /\ MailboxTyped' /\ UiTyped' /\ ScreenTyped' /\ HistoryTyped'
  BY SMTT(20) DEF Reinitialize, Typed, guest, mailbox, ui, screen, GuestTyped,
         MailboxTyped, UiTyped, ScreenTyped, HistoryTyped
<1>2. Ownership' /\ Lifecycles' /\ StagedComplete' /\ TextureComplete'
  BY SMTT(20) DEF Reinitialize, Pipeline, mailbox, ui, screen, Holds, Ownership,
         Lifecycles, StagedComplete, TextureComplete
<1>3. Numbers' /\ CapturesCovered' /\ CopiesCovered' /\ FramesComplete' /\ Machines'
  BY SMTT(20) DEF Reinitialize, Pipeline, guest, mailbox, screen, Current, Holds,
         Behind, Owes, Fills, Numbers, CapturesCovered, CopiesCovered, FramesComplete,
         Machines
<1> QED BY <1>1, <1>2, <1>3, VmFlags DEF Typed, Pipeline

LEMMA BootKept ==
    ASSUME Typed, Pipeline, Boot PROVE Typed' /\ Pipeline'
<1>1. VmTyped'
  BY SMTT(20) DEF Boot, Typed, NewMachine, VmTyped
<1>2. GuestTyped'
  BY DamageKinds, SMTT(20) DEF Boot, Typed, NewMachine, Picture, Pixel, NoDamage,
         GuestTyped
<1>3. MailboxTyped'
  BY ResetEffect, SMTT(20) DEF Boot, NewMachine, MailboxTyped
<1>4. UiTyped'
  BY SMTT(20) DEF Boot, Typed, ui, UiTyped
<1>5. ScreenTyped'
  BY SMTT(20) DEF Boot, Typed, screen, ScreenTyped
<1>6. HistoryTyped'
  BY SMTT(20) DEF Boot, Typed, HistoryTyped
<1>7. Ownership' /\ StagedComplete' /\ TextureComplete'
  BY ResetEffect, SMTT(20) DEF Boot, Pipeline, NewMachine, ui, screen, Holds, Ownership,
         StagedComplete, TextureComplete
<1>8. CapturesCovered' /\ CopiesCovered' /\ FramesComplete' /\ Machines'
  BY ResetEffect, SMTT(20) DEF Boot, Typed, Pipeline, NewMachine, screen, Lifecycles,
         HoldingPcs, UiTyped, MailboxTyped, CapturesCovered, CopiesCovered,
         FramesComplete, Machines
<1> QED BY <1>1, <1>2, <1>3, <1>4, <1>5, <1>6, <1>7, <1>8, BootLifecycles, BootNumbers DEF Typed, Pipeline

LEMMA KeepMachineKept ==
    ASSUME Typed, Pipeline, KeepMachine PROVE Typed' /\ Pipeline'
<1>1. VmTyped' /\ GuestTyped' /\ MailboxTyped' /\ UiTyped' /\ ScreenTyped' /\
       HistoryTyped'
  BY SMTT(20) DEF KeepMachine, Typed, guest, mailbox, ui, screen, VmTyped, GuestTyped,
         MailboxTyped, UiTyped, ScreenTyped, HistoryTyped
<1>2. Ownership' /\ Lifecycles' /\ StagedComplete' /\ TextureComplete'
  BY SMTT(20) DEF KeepMachine, Pipeline, mailbox, ui, screen, Holds, Ownership,
         Lifecycles, StagedComplete, TextureComplete
<1>3. Numbers' /\ CapturesCovered' /\ CopiesCovered' /\ FramesComplete' /\ Machines'
  BY SMTT(20) DEF KeepMachine, Pipeline, guest, mailbox, screen, Current, Holds, Behind,
         Owes, Fills, Numbers, CapturesCovered, CopiesCovered, FramesComplete, Machines
<1> QED BY <1>1, <1>2, <1>3 DEF Typed, Pipeline

LEMMA BootFailsKept ==
    ASSUME Typed, Pipeline, BootFails PROVE Typed' /\ Pipeline'
<1>1. GuestTyped' /\ MailboxTyped' /\ UiTyped' /\ ScreenTyped' /\ HistoryTyped'
  BY ResetEffect, SMTT(20) DEF BootFails, Typed, mailbox, guest, ui, screen, GuestTyped,
         MailboxTyped, UiTyped, ScreenTyped, HistoryTyped
<1>2. Ownership' /\ StagedComplete' /\ TextureComplete'
  BY ResetEffect, SMTT(20) DEF BootFails, Pipeline, mailbox, ui, screen, Holds,
         Ownership, StagedComplete, TextureComplete
<1>3. Numbers' /\ CapturesCovered' /\ FramesComplete' /\ Machines'
  BY ResetEffect, SMTT(20) DEF BootFails, Typed, Pipeline, mailbox, guest, screen,
         Current, Holds, Behind, Owes, Fills, Lifecycles, MailboxTyped, Numbers,
         CapturesCovered, FramesComplete, Machines
<1> QED BY <1>1, <1>2, <1>3, BootFailsKeeps DEF Typed, Pipeline

LEMMA ShutdownKept ==
    ASSUME Typed, Pipeline, Shutdown PROVE Typed' /\ Pipeline'
<1>1. GuestTyped' /\ MailboxTyped' /\ UiTyped' /\ ScreenTyped' /\ HistoryTyped'
  BY SMTT(20) DEF Shutdown, Typed, guest, mailbox, ui, screen, GuestTyped, MailboxTyped,
         UiTyped, ScreenTyped, HistoryTyped
<1>2. Ownership' /\ Lifecycles' /\ StagedComplete' /\ TextureComplete'
  BY SMTT(20) DEF Shutdown, Pipeline, mailbox, ui, screen, Holds, Ownership, Lifecycles,
         StagedComplete, TextureComplete
<1>3. Numbers' /\ CapturesCovered' /\ CopiesCovered' /\ FramesComplete' /\ Machines'
  BY SMTT(20) DEF Shutdown, Pipeline, guest, mailbox, screen, Current, Holds, Behind,
         Owes, Fills, Numbers, CapturesCovered, CopiesCovered, FramesComplete, Machines
<1> QED BY <1>1, <1>2, <1>3, VmFlags DEF Typed, Pipeline

LEMMA AnnounceKept ==
    ASSUME Typed, Pipeline, Announce PROVE Typed' /\ Pipeline'
<1>1. VmTyped' /\ GuestTyped' /\ MailboxTyped' /\ UiTyped' /\ ScreenTyped' /\
       HistoryTyped'
  BY SMTT(20) DEF Announce, Typed, guest, mailbox, ui, screen, VmTyped, GuestTyped,
         MailboxTyped, UiTyped, ScreenTyped, HistoryTyped
<1>2. Ownership' /\ Lifecycles' /\ StagedComplete' /\ TextureComplete'
  BY SMTT(20) DEF Announce, Pipeline, mailbox, ui, screen, Holds, Ownership, Lifecycles,
         StagedComplete, TextureComplete
<1>3. Numbers' /\ CapturesCovered' /\ CopiesCovered' /\ FramesComplete' /\ Machines'
  BY SMTT(20) DEF Announce, Pipeline, guest, mailbox, screen, Current, Holds, Behind,
         Owes, Fills, Numbers, CapturesCovered, CopiesCovered, FramesComplete, Machines
<1> QED BY <1>1, <1>2, <1>3 DEF Typed, Pipeline

LEMMA DrawKept ==
    ASSUME Typed, Pipeline, NEW part \in Regions \cup {Hidden}, Draw(part) PROVE Typed' /\ Pipeline'
<1>1. VmTyped' /\ MailboxTyped' /\ UiTyped' /\ ScreenTyped' /\ HistoryTyped'
  BY SMTT(20) DEF Draw, Typed, vm, mailbox, ui, screen, VmTyped, MailboxTyped, UiTyped,
         ScreenTyped, HistoryTyped
<1>2. Ownership' /\ Lifecycles' /\ StagedComplete' /\ TextureComplete'
  BY SMTT(20) DEF Draw, Pipeline, vm, mailbox, ui, screen, Holds, Ownership, Lifecycles,
         StagedComplete, TextureComplete
<1>3. FramesComplete' /\ Machines'
  BY SMTT(20) DEF Draw, Pipeline, mailbox, screen, Current, Holds, Fills,
         FramesComplete, Machines
<1> QED BY <1>1, <1>2, <1>3, DrawKeeps DEF Typed, Pipeline

LEMMA DrawAllKept ==
    ASSUME Typed, Pipeline, DrawAll PROVE Typed' /\ Pipeline'
<1>1. VmTyped'
  BY SMTT(20) DEF DrawAll, Typed, vm, VmTyped
<1>2. GuestTyped'
  BY SMTT(20) DEF DrawAll, Typed, Picture, Pixel, Damage, FullDamage, GuestTyped
<1>3. MailboxTyped'
  BY SMTT(20) DEF DrawAll, Typed, mailbox, MailboxTyped
<1>4. UiTyped'
  BY SMTT(20) DEF DrawAll, Typed, ui, UiTyped
<1>5. ScreenTyped'
  BY SMTT(20) DEF DrawAll, Typed, screen, ScreenTyped
<1>6. HistoryTyped'
  BY SMTT(20) DEF DrawAll, Typed, HistoryTyped
<1>7. Ownership' /\ Lifecycles' /\ StagedComplete' /\ TextureComplete'
  BY SMTT(20) DEF DrawAll, Pipeline, vm, mailbox, ui, screen, Holds, Ownership,
         Lifecycles, StagedComplete, TextureComplete
<1>8. Numbers' /\ CapturesCovered' /\ CopiesCovered' /\ FramesComplete' /\ Machines'
  BY FullKeeps, SMTT(20) DEF DrawAll, Pipeline, mailbox, screen, Current, Holds, Fills,
         Numbers, CapturesCovered, CopiesCovered, FramesComplete, Machines
<1> QED BY <1>1, <1>2, <1>3, <1>4, <1>5, <1>6, <1>7, <1>8 DEF Typed, Pipeline

-----------------------------------------------------------------------------
(* The publisher.                                                          *)

LEMMA TakeAckKept ==
    ASSUME Typed, Pipeline, TakeAck PROVE Typed' /\ Pipeline'
<1>1. VmTyped' /\ GuestTyped' /\ MailboxTyped' /\ UiTyped' /\ ScreenTyped' /\
       HistoryTyped'
  BY TakeAckEffect, DamageKinds, InOrderTyped, SMTT(20) DEF TakeAck, Typed, ui, screen,
         NoAck, VmTyped, GuestTyped, MailboxTyped, UiTyped, ScreenTyped, HistoryTyped
<1>2. Ownership' /\ Lifecycles' /\ StagedComplete' /\ TextureComplete'
  BY SMTT(20) DEF TakeAck, Pipeline, ui, screen, Holds, Ownership, Lifecycles,
         StagedComplete, TextureComplete
<1>3. FramesComplete' /\ Machines'
  BY SMTT(20) DEF TakeAck, Pipeline, screen, Current, Holds, Fills, FramesComplete,
         Machines
<1> QED BY <1>1, <1>2, <1>3, TakeAckKeeps DEF Typed, Pipeline

LEMMA ApplyBaselineKept ==
    ASSUME Typed, Pipeline, ApplyBaseline PROVE Typed' /\ Pipeline'
<1>1. VmTyped' /\ GuestTyped' /\ UiTyped' /\ ScreenTyped' /\ HistoryTyped'
  BY DamageKinds, SMTT(20) DEF ApplyBaseline, Typed, ui, screen, VmTyped, GuestTyped,
         UiTyped, ScreenTyped, HistoryTyped
<1>2. Ownership' /\ Lifecycles' /\ StagedComplete' /\ TextureComplete'
  BY SMTT(20) DEF ApplyBaseline, Pipeline, ui, screen, Holds, Ownership, Lifecycles,
         StagedComplete, TextureComplete
<1>3. FramesComplete' /\ Machines'
  BY SMTT(20) DEF ApplyBaseline, Pipeline, screen, Current, Holds, Fills,
         FramesComplete, Machines
<1> QED BY <1>1, <1>2, <1>3, ApplyBaselineKeeps DEF Typed, Pipeline

LEMMA UnchangedKept ==
    ASSUME Typed, Pipeline, Unchanged PROVE Typed' /\ Pipeline'
<1>1. VmTyped' /\ GuestTyped' /\ MailboxTyped' /\ UiTyped' /\ ScreenTyped' /\
       HistoryTyped'
  BY SMTT(20) DEF Unchanged, Typed, guest, mailbox, ui, screen, VmTyped, GuestTyped,
         MailboxTyped, UiTyped, ScreenTyped, HistoryTyped
<1>2. Ownership' /\ Lifecycles' /\ StagedComplete' /\ TextureComplete'
  BY SMTT(20) DEF Unchanged, Pipeline, mailbox, ui, screen, Holds, Ownership,
         Lifecycles, StagedComplete, TextureComplete
<1>3. Numbers' /\ CapturesCovered' /\ CopiesCovered' /\ FramesComplete' /\ Machines'
  BY SMTT(20) DEF Unchanged, Pipeline, guest, mailbox, screen, Current, Holds, Behind,
         Owes, Fills, Numbers, CapturesCovered, CopiesCovered, FramesComplete, Machines
<1> QED BY <1>1, <1>2, <1>3 DEF Typed, Pipeline

LEMMA BeginKept ==
    ASSUME Typed, Pipeline, Begin PROVE Typed' /\ Pipeline'
<1>1. VmTyped' /\ GuestTyped' /\ MailboxTyped' /\ UiTyped' /\ ScreenTyped' /\
       HistoryTyped'
  BY BeginEffect, SMTT(20) DEF Begin, Typed, guest, ui, screen, Slots, VmTyped,
         GuestTyped, MailboxTyped, UiTyped, ScreenTyped, HistoryTyped
<1>2. Numbers' /\ CopiesCovered' /\ FramesComplete' /\ Machines'
  BY BeginEffect, SMTT(20) DEF Begin, Pipeline, guest, screen, Behind, Owes, Fills,
         MailboxTyped, Slots, Numbers, CopiesCovered, FramesComplete, Machines
<1>3. StagedComplete' /\ TextureComplete'
  BY SMTT(20) DEF Begin, Pipeline, ui, screen, Slots, StagedComplete, TextureComplete
<1> QED BY <1>1, <1>2, <1>3, BeginKeeps DEF Typed, Pipeline

LEMMA CaptureFrameKept ==
    ASSUME Typed, Pipeline, CaptureFrame PROVE Typed' /\ Pipeline'
<1>1. VmTyped' /\ MailboxTyped' /\ UiTyped' /\ ScreenTyped' /\ HistoryTyped'
  BY CaptureEffect, SMTT(20) DEF CaptureFrame, Typed, ui, screen, GuestTyped, VmTyped,
         MailboxTyped, UiTyped, ScreenTyped, HistoryTyped
<1>2. Ownership' /\ Lifecycles'
  BY CaptureEffect, SMTT(20) DEF CaptureFrame, Typed, Pipeline, ui, screen, Holds,
         HoldingPcs, StagedComplete, TextureComplete, UiTyped, MailboxTyped, GuestTyped,
         Ownership, Lifecycles
<1>3. StagedComplete' /\ TextureComplete'
  BY CaptureEffect, SMTT(20) DEF CaptureFrame, Typed, Pipeline, ui, screen, Ownership,
         Holds, HoldingPcs, Lifecycles, UiTyped, MailboxTyped, GuestTyped,
         StagedComplete, TextureComplete
<1>4. Machines'
  BY CaptureEffect, SMTT(20) DEF CaptureFrame, Pipeline, screen, Current, Holds,
         Machines
<1> QED BY <1>1, <1>2, <1>3, <1>4, CaptureKeeps DEF Typed, Pipeline

LEMMA CaptureFailsKept ==
    ASSUME Typed, Pipeline, CaptureFails PROVE Typed' /\ Pipeline'
<1>1. VmTyped' /\ MailboxTyped' /\ UiTyped' /\ ScreenTyped' /\ HistoryTyped'
  BY CaptureFailsEffect, SMTT(20) DEF CaptureFails, Typed, ui, screen, VmTyped,
         MailboxTyped, UiTyped, ScreenTyped, HistoryTyped
<1>2. Ownership' /\ Lifecycles' /\ StagedComplete' /\ TextureComplete'
  BY CaptureFailsEffect, SMTT(20) DEF CaptureFails, Typed, Pipeline, ui, screen, Holds,
         HoldingPcs, UiTyped, Ownership, Lifecycles, StagedComplete, TextureComplete
<1>3. FramesComplete' /\ Machines'
  BY CaptureFailsEffect, SMTT(20) DEF CaptureFails, Pipeline, screen, Current, Holds,
         Fills, FramesComplete, Machines
<1> QED BY <1>1, <1>2, <1>3, CaptureFailsKeeps DEF Typed, Pipeline

-----------------------------------------------------------------------------
(* The consumer.                                                           *)

LEMMA SnapshotKept ==
    ASSUME Typed, Pipeline, Snapshot PROVE Typed' /\ Pipeline'
<1>1. VmTyped' /\ GuestTyped' /\ MailboxTyped' /\ UiTyped' /\ ScreenTyped' /\
       HistoryTyped'
  BY SMTT(20) DEF Snapshot, Typed, vm, guest, mailbox, screen, VmTyped, GuestTyped,
         MailboxTyped, UiTyped, ScreenTyped, HistoryTyped
<1>2. Ownership' /\ Lifecycles' /\ StagedComplete' /\ TextureComplete'
  BY SMTT(20) DEF Snapshot, Pipeline, vm, mailbox, screen, Holds, HoldingPcs, Ownership,
         Lifecycles, StagedComplete, TextureComplete
<1>3. Numbers' /\ CapturesCovered' /\ CopiesCovered' /\ FramesComplete' /\ Machines'
  BY SMTT(20) DEF Snapshot, Pipeline, guest, mailbox, screen, Current, Holds, Behind,
         Owes, Fills, Numbers, CapturesCovered, CopiesCovered, FramesComplete, Machines
<1> QED BY <1>1, <1>2, <1>3 DEF Typed, Pipeline

LEMMA SyncRunningKept ==
    ASSUME Typed, Pipeline, SyncRunning PROVE Typed' /\ Pipeline'
<1>1. VmTyped' /\ GuestTyped' /\ MailboxTyped' /\ UiTyped' /\ ScreenTyped' /\
       HistoryTyped'
  BY HostEffect, SMTT(20) DEF SyncRunning, Typed, vm, guest, mailbox, VmTyped,
         GuestTyped, MailboxTyped, UiTyped, ScreenTyped, HistoryTyped
<1>2. Ownership' /\ Lifecycles' /\ StagedComplete' /\ TextureComplete'
  BY HostEffect, SMTT(20) DEF SyncRunning, Typed, Pipeline, vm, mailbox, Holds,
         HoldingPcs, Blanked, MailboxTyped, Ownership, Lifecycles, StagedComplete,
         TextureComplete
<1>3. Numbers' /\ CapturesCovered' /\ CopiesCovered' /\ FramesComplete' /\ Machines'
  BY HostEffect, SMTT(20) DEF SyncRunning, Typed, Pipeline, guest, mailbox, Current,
         Holds, Behind, Blanked, Owes, Fills, MailboxTyped, Numbers, CapturesCovered,
         CopiesCovered, FramesComplete, Machines
<1> QED BY <1>1, <1>2, <1>3 DEF Typed, Pipeline

LEMMA SyncStoppedKept ==
    ASSUME Typed, Pipeline, SyncStopped PROVE Typed' /\ Pipeline'
<1>1. VmTyped' /\ GuestTyped' /\ MailboxTyped' /\ UiTyped' /\ ScreenTyped' /\
       HistoryTyped'
  BY ResetEffect, HostEffect, SMTT(20) DEF SyncStopped, Typed, vm, guest, mailbox,
         Blanked, VmTyped, GuestTyped, MailboxTyped, UiTyped, ScreenTyped, HistoryTyped
<1>2. Ownership' /\ StagedComplete' /\ TextureComplete'
  BY ResetEffect, HostEffect, SMTT(20) DEF SyncStopped, Pipeline, vm, mailbox, Holds,
         HoldingPcs, Blanked, Ownership, StagedComplete, TextureComplete
<1>3. Numbers'
  BY ResetEffect, SMTT(20) DEF SyncStopped, Pipeline, guest, mailbox, Current, Holds,
         Behind, Numbers
<1>4. CapturesCovered'
  BY ResetEffect, SMTT(20) DEF SyncStopped, Pipeline, guest, mailbox, Current, Holds,
         Owes, CapturesCovered
<1>5. CopiesCovered'
  BY ResetEffect, HostEffect, SMTT(20) DEF SyncStopped, Typed, Pipeline, guest, mailbox,
         Owes, Blanked, Lifecycles, MailboxTyped, CopiesCovered
<1>6. FramesComplete'
  BY ResetEffect, SMTT(20) DEF SyncStopped, Pipeline, mailbox, Current, Holds, Fills,
         FramesComplete
<1>7. Machines'
  BY ResetEffect, HostEffect, SMTT(20) DEF SyncStopped, Pipeline, guest, mailbox,
         Current, Holds, Blanked, Machines
<1> QED BY <1>1, <1>2, <1>3, <1>4, <1>5, <1>6, <1>7, SyncStoppedLifecycles DEF Typed, Pipeline

LEMMA AcquireKept ==
    ASSUME Typed, Pipeline, Acquire PROVE Typed' /\ Pipeline'
<1>1. VmTyped' /\ GuestTyped' /\ MailboxTyped' /\ UiTyped' /\ ScreenTyped' /\
       HistoryTyped'
  BY AcquireEffect, SMTT(20) DEF Acquire, Typed, vm, guest, screen, VmTyped, GuestTyped,
         MailboxTyped, UiTyped, ScreenTyped, HistoryTyped
<1>2. Ownership' /\ Lifecycles' /\ StagedComplete' /\ TextureComplete'
  BY AcquireEffect, SMTT(20) DEF Acquire, Pipeline, vm, screen, Holds, HoldingPcs,
         Slots, NoSlot, Ownership, Lifecycles, StagedComplete, TextureComplete
<1>3. Numbers' /\ CapturesCovered' /\ CopiesCovered' /\ FramesComplete' /\ Machines'
  BY AcquireEffect, SMTT(20) DEF Acquire, Pipeline, guest, screen, Behind, Owes, Fills,
         Ownership, Numbers, CapturesCovered, CopiesCovered, FramesComplete, Machines
<1> QED BY <1>1, <1>2, <1>3 DEF Typed, Pipeline

LEMMA DropKept ==
    ASSUME Typed, Pipeline, Drop PROVE Typed' /\ Pipeline'
<1>1. VmTyped' /\ GuestTyped' /\ MailboxTyped' /\ UiTyped' /\ ScreenTyped' /\
       HistoryTyped'
  BY SMTT(20) DEF Drop, Typed, vm, guest, mailbox, screen, VmTyped, GuestTyped,
         MailboxTyped, UiTyped, ScreenTyped, HistoryTyped
<1>2. Ownership' /\ Lifecycles' /\ StagedComplete' /\ TextureComplete'
  BY SMTT(20) DEF Drop, Pipeline, vm, mailbox, screen, Holds, HoldingPcs, Ownership,
         Lifecycles, StagedComplete, TextureComplete
<1>3. Numbers' /\ CapturesCovered' /\ CopiesCovered' /\ FramesComplete' /\ Machines'
  BY SMTT(20) DEF Drop, Pipeline, guest, mailbox, screen, Current, Holds, Behind, Owes,
         Fills, Numbers, CapturesCovered, CopiesCovered, FramesComplete, Machines
<1> QED BY <1>1, <1>2, <1>3 DEF Typed, Pipeline

LEMMA LacksBaselineKept ==
    ASSUME Typed, Pipeline, LacksBaseline PROVE Typed' /\ Pipeline'
<1>1. VmTyped' /\ GuestTyped' /\ MailboxTyped' /\ UiTyped' /\ ScreenTyped' /\
       HistoryTyped'
  BY StageEffect, SMTT(20) DEF LacksBaseline, Typed, vm, guest, mailbox, VmTyped,
         GuestTyped, MailboxTyped, UiTyped, ScreenTyped, HistoryTyped
<1>2. Ownership' /\ Lifecycles' /\ StagedComplete' /\ TextureComplete'
  BY RenderEffect, SMTT(20) DEF LacksBaseline, Pipeline, ToRender, vm, mailbox, Holds,
         HoldingPcs, Ownership, Lifecycles, StagedComplete, TextureComplete
<1>3. Numbers' /\ CapturesCovered' /\ CopiesCovered' /\ FramesComplete' /\ Machines'
  BY StageEffect, CopiesKept, SMTT(20) DEF LacksBaseline, Pipeline, guest, mailbox,
         Current, Holds, Behind, Owes, Numbers, CapturesCovered, CopiesCovered,
         FramesComplete, Machines
<1> QED BY <1>1, <1>2, <1>3 DEF Typed, Pipeline

LEMMA RequestBaselineKept ==
    ASSUME Typed, Pipeline, RequestBaseline PROVE Typed' /\ Pipeline'
<1>1. VmTyped' /\ GuestTyped' /\ MailboxTyped' /\ UiTyped' /\ ScreenTyped' /\
       HistoryTyped'
  BY SMTT(20) DEF RequestBaseline, Typed, vm, guest, screen, VmTyped, GuestTyped,
         MailboxTyped, UiTyped, ScreenTyped, HistoryTyped
<1>2. Ownership' /\ Lifecycles' /\ StagedComplete' /\ TextureComplete'
  BY SMTT(20) DEF RequestBaseline, Pipeline, vm, screen, Holds, HoldingPcs, Ownership,
         Lifecycles, StagedComplete, TextureComplete
<1>3. Numbers' /\ CapturesCovered' /\ CopiesCovered' /\ FramesComplete' /\ Machines'
  BY SMTT(20) DEF RequestBaseline, Pipeline, guest, screen, Current, Holds, Behind,
         Owes, Fills, Numbers, CapturesCovered, CopiesCovered, FramesComplete, Machines
<1> QED BY <1>1, <1>2, <1>3 DEF Typed, Pipeline

LEMMA StageInPlaceKept ==
    ASSUME Typed, Pipeline, StageInPlace PROVE Typed' /\ Pipeline'
<1>1. VmTyped' /\ GuestTyped' /\ MailboxTyped' /\ UiTyped' /\ ScreenTyped' /\
       HistoryTyped'
  BY StageEffect, SMTT(20) DEF StageInPlace, Typed, vm, guest, mailbox, VmTyped,
         GuestTyped, MailboxTyped, UiTyped, ScreenTyped, HistoryTyped
<1>2. Ownership' /\ Lifecycles' /\ StagedComplete'
  BY StageEffect, RenderEffect, SMTT(20) DEF StageInPlace, Pipeline, ToRender, vm,
         mailbox, Holds, HoldingPcs, Ownership, Lifecycles, StagedComplete
<1>3. Numbers' /\ CapturesCovered' /\ CopiesCovered' /\ FramesComplete' /\ Machines'
  BY StageEffect, CopiesKept, SMTT(20) DEF StageInPlace, Pipeline, guest, mailbox,
         Current, Holds, Behind, Owes, Numbers, CapturesCovered, CopiesCovered,
         FramesComplete, Machines
<1> QED BY <1>1, <1>2, <1>3, InPlaceTexture DEF Typed, Pipeline

LEMMA StageNewKept ==
    ASSUME Typed, Pipeline, StageNew PROVE Typed' /\ Pipeline'
<1>1. VmTyped' /\ GuestTyped' /\ MailboxTyped' /\ UiTyped' /\ ScreenTyped' /\
       HistoryTyped'
  BY StageEffect, SMTT(20) DEF StageNew, Typed, vm, guest, mailbox, VmTyped, GuestTyped,
         MailboxTyped, UiTyped, ScreenTyped, HistoryTyped
<1>2. Ownership' /\ Lifecycles' /\ StagedComplete' /\ TextureComplete'
  BY StageEffect, RenderEffect, SMTT(20) DEF StageNew, Pipeline, ToRender, vm, mailbox,
         Holds, HoldingPcs, Ownership, Lifecycles, StagedComplete, TextureComplete
<1>3. Numbers' /\ CapturesCovered' /\ CopiesCovered' /\ FramesComplete' /\ Machines'
  BY StageEffect, CopiesKept, SMTT(20) DEF StageNew, Pipeline, guest, mailbox, Current,
         Holds, Behind, Owes, Numbers, CapturesCovered, CopiesCovered, FramesComplete,
         Machines
<1> QED BY <1>1, <1>2, <1>3 DEF Typed, Pipeline

LEMMA StageFailsKept ==
    ASSUME Typed, Pipeline, StageFails PROVE Typed' /\ Pipeline'
<1>1. VmTyped' /\ GuestTyped' /\ MailboxTyped' /\ UiTyped' /\ ScreenTyped' /\
       HistoryTyped'
  BY StageEffect, SMTT(20) DEF StageFails, Typed, Pipeline, ToRender, vm, guest,
         mailbox, VmTyped, GuestTyped, MailboxTyped, UiTyped, ScreenTyped, HistoryTyped
<1>2. Ownership' /\ StagedComplete' /\ TextureComplete'
  BY StageEffect, RenderEffect, SMTT(20) DEF StageFails, Pipeline, ToRender, vm,
         mailbox, Holds, HoldingPcs, Lifecycles, Ownership, StagedComplete,
         TextureComplete
<1>3. Numbers' /\ CapturesCovered' /\ CopiesCovered' /\ FramesComplete' /\ Machines'
  BY StageEffect, CopiesKept, SMTT(20) DEF StageFails, Pipeline, guest, mailbox,
         Current, Holds, Behind, Owes, Numbers, CapturesCovered, CopiesCovered,
         FramesComplete, Machines
<1> QED BY <1>1, <1>2, <1>3, StageFailsLifecycles DEF Typed, Pipeline

LEMMA CommitKept ==
    ASSUME Typed, Pipeline, Commit PROVE Typed' /\ Pipeline'
<1>1. VmTyped' /\ GuestTyped' /\ MailboxTyped' /\ UiTyped' /\ ScreenTyped' /\
       HistoryTyped'
  BY CommitHost, SMTT(20) DEF Commit, Typed, vm, guest, mailbox, NoStage, VmTyped,
         GuestTyped, MailboxTyped, UiTyped, ScreenTyped, HistoryTyped
<1>2. Ownership' /\ Lifecycles' /\ StagedComplete' /\ TextureComplete'
  BY CommitHost, NoPicture, SMTT(20) DEF Commit, Pipeline, vm, mailbox, Holds,
         HoldingPcs, Ownership, Lifecycles, StagedComplete, TextureComplete
<1>3. Numbers' /\ CapturesCovered' /\ CopiesCovered' /\ FramesComplete' /\ Machines'
  BY CommitHost, SMTT(20) DEF Commit, Pipeline, guest, mailbox, Current, Holds, Behind,
         Owes, Fills, Numbers, CapturesCovered, CopiesCovered, FramesComplete, Machines
<1> QED BY <1>1, <1>2, <1>3 DEF Typed, Pipeline

LEMMA CommitStaleKept ==
    ASSUME Typed, Pipeline, CommitStale PROVE Typed' /\ Pipeline'
<1>1. VmTyped' /\ GuestTyped' /\ MailboxTyped' /\ UiTyped' /\ ScreenTyped' /\
       HistoryTyped'
  BY HostEffect, SMTT(20) DEF CommitStale, Typed, vm, guest, mailbox, NoStage, VmTyped,
         GuestTyped, MailboxTyped, UiTyped, ScreenTyped, HistoryTyped
<1>2. Ownership' /\ Lifecycles' /\ StagedComplete' /\ TextureComplete'
  BY HostEffect, SMTT(20) DEF CommitStale, Pipeline, vm, mailbox, Holds, HoldingPcs,
         Ownership, Lifecycles, StagedComplete, TextureComplete
<1>3. Numbers' /\ CapturesCovered' /\ CopiesCovered' /\ FramesComplete' /\ Machines'
  BY HostEffect, SMTT(20) DEF CommitStale, Pipeline, guest, mailbox, Current, Holds,
         Behind, Owes, Fills, Numbers, CapturesCovered, CopiesCovered, FramesComplete,
         Machines
<1> QED BY <1>1, <1>2, <1>3 DEF Typed, Pipeline

LEMMA NoteAppliedKept ==
    ASSUME Typed, Pipeline, NoteApplied PROVE Typed' /\ Pipeline'
<1>1. VmTyped'
  BY SMTT(20) DEF NoteApplied, Typed, vm, VmTyped
<1>2. GuestTyped'
  BY SMTT(20) DEF NoteApplied, Typed, guest, GuestTyped
<1>3. MailboxTyped'
  BY SMTT(20) DEF NoteApplied, Typed, Pipeline, Frame, Frames, UiTyped, NoSlot,
         Ownership, Lifecycles, HoldingPcs, NoDamage, FullDamage, MailboxTyped
<1>4. UiTyped'
  BY SMTT(20) DEF NoteApplied, Typed, UiTyped
<1>5. ScreenTyped'
  BY SMTT(20) DEF NoteApplied, Typed, screen, ScreenTyped
<1>6. HistoryTyped'
  BY SMTT(20) DEF NoteApplied, Typed, HistoryTyped
<1>7. Ownership' /\ Lifecycles' /\ StagedComplete' /\ TextureComplete'
  BY SMTT(20) DEF NoteApplied, Pipeline, vm, screen, Holds, HoldingPcs, Ownership,
         Lifecycles, StagedComplete, TextureComplete
<1>8. CapturesCovered' /\ FramesComplete' /\ Machines'
  BY SMTT(20) DEF NoteApplied, Pipeline, guest, screen, Current, Holds, Owes, Fills,
         CapturesCovered, FramesComplete, Machines
<1> QED BY <1>1, <1>2, <1>3, <1>4, <1>5, <1>6, <1>7, <1>8, NoteAppliedKeeps DEF Typed, Pipeline

LEMMA CompleteBaselineKept ==
    ASSUME Typed, Pipeline, CompleteBaseline PROVE Typed' /\ Pipeline'
<1>1. VmTyped' /\ GuestTyped' /\ MailboxTyped' /\ UiTyped' /\ ScreenTyped' /\
       HistoryTyped'
  BY SMTT(20) DEF CompleteBaseline, Typed, vm, guest, screen, NoWant, VmTyped,
         GuestTyped, MailboxTyped, UiTyped, ScreenTyped, HistoryTyped
<1>2. Ownership' /\ Lifecycles' /\ StagedComplete' /\ TextureComplete'
  BY SMTT(20) DEF CompleteBaseline, Pipeline, vm, screen, Holds, HoldingPcs, Ownership,
         Lifecycles, StagedComplete, TextureComplete
<1>3. Numbers' /\ CapturesCovered' /\ CopiesCovered' /\ FramesComplete' /\ Machines'
  BY SMTT(20) DEF CompleteBaseline, Pipeline, guest, screen, Current, Holds, Behind,
         Owes, Fills, Numbers, CapturesCovered, CopiesCovered, FramesComplete, Machines
<1> QED BY <1>1, <1>2, <1>3 DEF Typed, Pipeline

LEMMA RetryLatestKept ==
    ASSUME Typed, Pipeline, RetryLatest PROVE Typed' /\ Pipeline'
<1>1. VmTyped' /\ GuestTyped' /\ MailboxTyped' /\ UiTyped' /\ ScreenTyped' /\
       HistoryTyped'
  BY SMTT(20) DEF RetryLatest, Typed, vm, guest, screen, VmTyped, GuestTyped,
         MailboxTyped, UiTyped, ScreenTyped, HistoryTyped
<1>2. Ownership' /\ Lifecycles' /\ StagedComplete' /\ TextureComplete'
  BY SMTT(20) DEF RetryLatest, Pipeline, vm, screen, Holds, HoldingPcs, Ownership,
         Lifecycles, StagedComplete, TextureComplete
<1>3. Numbers' /\ CapturesCovered' /\ CopiesCovered' /\ FramesComplete' /\ Machines'
  BY SMTT(20) DEF RetryLatest, Pipeline, guest, screen, Current, Holds, Behind, Owes,
         Fills, Numbers, CapturesCovered, CopiesCovered, FramesComplete, Machines
<1> QED BY <1>1, <1>2, <1>3 DEF Typed, Pipeline

LEMMA ReleaseKept ==
    ASSUME Typed, Pipeline, Release PROVE Typed' /\ Pipeline'
<1>1. VmTyped' /\ GuestTyped' /\ MailboxTyped' /\ UiTyped' /\ ScreenTyped' /\
       HistoryTyped'
  BY ReleaseEffect, SMTT(20) DEF Release, Typed, vm, guest, screen, VmTyped, GuestTyped,
         MailboxTyped, UiTyped, ScreenTyped, HistoryTyped
<1>2. Ownership' /\ Lifecycles' /\ StagedComplete' /\ TextureComplete'
  BY ReleaseEffect, SMTT(20) DEF Release, Pipeline, vm, screen, Holds, HoldingPcs,
         Slots, NoSlot, Ownership, Lifecycles, StagedComplete, TextureComplete
<1>3. Numbers' /\ CapturesCovered' /\ CopiesCovered' /\ FramesComplete' /\ Machines'
  BY ReleaseEffect, SMTT(20) DEF Release, Pipeline, guest, screen, Behind, Owes, Fills,
         Numbers, CapturesCovered, CopiesCovered, FramesComplete, Machines
<1> QED BY <1>1, <1>2, <1>3 DEF Typed, Pipeline

LEMMA ResyncKept ==
    ASSUME Typed, Pipeline, Resync PROVE Typed' /\ Pipeline'
<1>1. VmTyped' /\ GuestTyped' /\ MailboxTyped' /\ UiTyped' /\ ScreenTyped' /\
       HistoryTyped'
  BY HostEffect, SMTT(20) DEF Resync, Typed, vm, guest, mailbox, VmTyped, GuestTyped,
         MailboxTyped, UiTyped, ScreenTyped, HistoryTyped
<1>2. Ownership' /\ Lifecycles' /\ StagedComplete' /\ TextureComplete'
  BY HostEffect, SMTT(20) DEF Resync, Typed, Pipeline, vm, mailbox, Holds, HoldingPcs,
         Blanked, MailboxTyped, Ownership, Lifecycles, StagedComplete, TextureComplete
<1>3. Numbers' /\ CapturesCovered' /\ CopiesCovered' /\ FramesComplete' /\ Machines'
  BY HostEffect, SMTT(20) DEF Resync, Typed, Pipeline, guest, mailbox, Current, Holds,
         Behind, Blanked, Owes, Fills, MailboxTyped, Numbers, CapturesCovered,
         CopiesCovered, FramesComplete, Machines
<1> QED BY <1>1, <1>2, <1>3 DEF Typed, Pipeline

LEMMA StutterKept == ASSUME Typed, Pipeline, UNCHANGED vars PROVE Typed' /\ Pipeline'
<1>1. Typed'
  BY DEF vars, Typed, VmTyped, GuestTyped, MailboxTyped, UiTyped, ScreenTyped, HistoryTyped
<1>2. Ownership' /\ Lifecycles' /\ StagedComplete' /\ TextureComplete'
  BY DEF vars, Pipeline, Ownership, Lifecycles, StagedComplete, TextureComplete, Holds
<1>3. Numbers' /\ CapturesCovered' /\ CopiesCovered' /\ FramesComplete' /\ Machines'
  BY DEF vars, Pipeline, Numbers, CapturesCovered, CopiesCovered, FramesComplete, Machines,
         Current, Holds, Behind, Owes, Fills
<1> QED BY <1>1, <1>2, <1>3 DEF Pipeline

LEMMA InitKept == Init => Typed /\ Pipeline
<1> SUFFICES ASSUME Init PROVE Typed /\ Pipeline
  OBVIOUS
<1>1. Blank \in Picture /\ NoBase \in Copies /\ NoBase.px = Blank /\ NoBase.life = 0
      /\ \A r \in Regions : Blank[r] = <<boot, 0>>
  BY DEF Init, Blank, Picture, Pixel, NoBase, Copies
<1>2. EmptySlot \in Frames /\ EmptySlot.state = "Free" /\ EmptySlot.life = 0
  <2>1. <<>> \in Data
    BY NoPicture DEF NoTexture
  <2> QED BY <2>1 DEF EmptySlot, Frames, States, Covers
<1>3. VmTyped /\ UiTyped
  BY DEF Init, VmTyped, UiTyped
<1>4. GuestTyped /\ batches = <<>>
  BY <1>1, DamageKinds DEF Init, GuestTyped
<1>5. MailboxTyped
  BY <1>2 DEF Init, MailboxTyped, NoAck, NoWant
<1>6. ScreenTyped /\ HistoryTyped
  <2> HIDE DEF Blank, NoBase
  <2>1. host \in Hosts
    BY <1>1 DEF Init, Hosts
  <2> QED BY <1>1, <2>1 DEF Init, ScreenTyped, HistoryTyped, NoStage
<1>7. \A s \in Slots : slot[s].state = "Free" /\ slot[s].life = 0 /\ ~Current(s)
  BY <1>2 DEF Init, Current, Holds
<1>8. Ownership
  BY <1>7 DEF Init, Ownership, Holds, HoldingPcs, Slots, NoSlot
<1>9. /\ base.life = 0 /\ host.shadow.life = 0 /\ host.life = 0 /\ host.owner = 0 /\ life = 1
      /\ ~host.visible /\ host.tex = NoTexture /\ upc = "snapshot" /\ ack.life = 0
  BY <1>1 DEF Init, NoAck
<1>10. Lifecycles
  BY <1>7, <1>9 DEF Lifecycles
<1>11. Numbers
  BY <1>4, <1>7, <1>9 DEF Numbers, Increasing
<1>12. CapturesCovered /\ CopiesCovered /\ FramesComplete
  BY <1>7, <1>9 DEF CapturesCovered, CopiesCovered, FramesComplete
<1>13. StagedComplete /\ TextureComplete
  BY <1>9 DEF StagedComplete, TextureComplete
<1>14. Machines
  BY <1>1, <1>7, <1>9 DEF Init, Machines
<1> QED BY <1>3, <1>4, <1>5, <1>6, <1>8, <1>10, <1>11, <1>12, <1>13, <1>14 DEF Typed, Pipeline

LEMMA StepKept == Typed /\ Pipeline /\ [Next]_vars => Typed' /\ Pipeline'
<1> SUFFICES ASSUME Typed, Pipeline, [Next]_vars PROVE Typed' /\ Pipeline'
  OBVIOUS
<1>1. CASE \/ Reinitialize \/ Boot \/ KeepMachine \/ BootFails \/ Shutdown \/ Announce
           \/ \E part \in Regions \cup {Hidden} : Draw(part)
           \/ DrawAll
  BY <1>1, ReinitializeKept, BootKept, KeepMachineKept, BootFailsKept,
     ShutdownKept, AnnounceKept, DrawKept, DrawAllKept
<1>2. CASE Publish \/ CaptureFails
  BY <1>2, TakeAckKept, ApplyBaselineKept, UnchangedKept, BeginKept,
     CaptureFrameKept, CaptureFailsKept DEF Publish
<1>3. CASE Consume \/ StageFails
  BY <1>3, SnapshotKept, SyncRunningKept, SyncStoppedKept, AcquireKept,
     DropKept, LacksBaselineKept, RequestBaselineKept, StageInPlaceKept,
     StageNewKept, StageFailsKept, CommitKept, CommitStaleKept,
     NoteAppliedKept, CompleteBaselineKept, RetryLatestKept, ReleaseKept,
     ResyncKept DEF Consume
<1>4. CASE UNCHANGED vars
  BY <1>4, StutterKept
<1> QED BY <1>1, <1>2, <1>3, <1>4 DEF Next

-----------------------------------------------------------------------------
(* The theorems.                                                           *)

\* The inductive invariant: whoever holds a slot, whatever is captured,
\* coalesced, dropped, acknowledged or reset in between.
THEOREM PipelineInvariant == Spec => [](Typed /\ Pipeline)
<1>1. Typed /\ Pipeline /\ [Next]_vars => (Typed /\ Pipeline)'
  BY StepKept
<1> QED BY <1>1, InitKept, PTL DEF Spec

\* Every variable keeps its type; in particular the damage list never outgrows
\* its array (VGA_DAMAGE_MAX_BATCHES), however many frames are sealed, merged
\* and acknowledged.
THEOREM PipelineTypeCorrect == Spec => []TypeOK
<1>1. Typed => TypeOK
  <2> SUFFICES ASSUME Typed PROVE TypeOK
    OBVIOUS
  <2>1. \A i \in DOMAIN batches : batches[i].seq \in Nat /\ batches[i].dmg \in Damage
    BY BatchesTyped DEF Typed, GuestTyped
  <2>2. ASSUME NEW s \in Slots
        PROVE  /\ slot[s].state \in States /\ slot[s].cover \in Covers
               /\ slot[s].life \in Nat /\ slot[s].gen \in Nat /\ slot[s].plan \in Nat
               /\ slot[s].data \in Data
    BY DEF Typed, MailboxTyped, Frames
  <2>3. ASSUME NEW d \in Data PROVE DOMAIN d \subseteq Regions /\ \A r \in DOMAIN d : d[r] \in Pixel
    <3>1. CASE d = NoTexture
      BY <3>1 DEF NoTexture
    <3>2. CASE d # NoTexture
      <4>1. PICK P \in SUBSET Regions : d \in [P -> Pixel]
        BY <3>2 DEF Data
      <4> QED BY <4>1
    <3> QED BY <3>1, <3>2
  <2>4. /\ base.life \in Nat /\ base.px \in Picture /\ host.tex \in {NoTexture} \cup Picture
        /\ host.shadow.life \in Nat /\ host.shadow.px \in Picture
        /\ host.life \in Nat /\ host.last \in Nat /\ host.owner \in Nat
    BY HostFields DEF Copies
  <2>5. host.accepting \in BOOLEAN /\ host.visible \in BOOLEAN /\ want.issued \in BOOLEAN
    BY HostFields DEF Typed, MailboxTyped
  <2>6. /\ life \in Nat \ {0} /\ published \in Nat /\ latest \in Slots \cup {NoSlot}
        /\ ack.life \in Nat /\ ack.seq \in Nat /\ want.life \in Nat
    BY DEF Typed, MailboxTyped
  <2>7. VmTyped /\ GuestTyped /\ UiTyped /\ HistoryTyped
    BY DEF Typed
  <2> HIDE DEF Slots
  <2> QED BY <2>1, <2>2, <2>3, <2>4, <2>5, <2>6, <2>7, Zenon
          DEF TypeOK, VmTyped, GuestTyped, UiTyped, HistoryTyped
<1> QED BY <1>1, PipelineInvariant, PTL

\* No slot is written and read at once, and the publisher always finds one:
\* frame_mailbox_begin_at is never blocked, also when the other thread resets
\* the mailbox while both hold a slot.
THEOREM SlotsOwned == Spec => []SlotsHaveOneOwner
<1>1. Typed /\ Pipeline => SlotsHaveOneOwner
  <2> SUFFICES ASSUME Typed, Pipeline PROVE SlotsHaveOneOwner
    OBVIOUS
  <2>1. /\ \A s \in Slots : slot[s].state = "Writing" <=> (ppc = "capture" /\ pslot = s)
        /\ \A s \in Slots : slot[s].state = "Reading" <=> cslot = s
        /\ \A s, t \in Slots : slot[s].state = "Ready" /\ slot[t].state = "Ready" => s = t
    BY DEF Pipeline, Ownership
  <2> DEFINE ready == {s \in Slots : slot[s].state = "Ready"}
  <2>2. Cardinality(ready) <= 1
    <3>1. CASE ready = {}
      BY <3>1, FS_EmptySet
    <3>2. CASE ready # {}
      <4>1. PICK s \in ready : TRUE
        BY <3>2
      <4>2. ready = {s}
        BY <2>1, <4>1
      <4>3. Cardinality({s}) = 1
        BY FS_Singleton
      <4> HIDE DEF ready
      <4>4. Cardinality(ready) = 1
        BY <4>2, <4>3, Zenon
      <4> QED BY <4>4
    <3> QED BY <3>1, <3>2
  <2>3. ASSUME ppc = "begin" PROVE \E s \in Slots : slot[s].state \in {"Free", "Ready"}
    <3>1. PICK s \in Slots : s # cslot
      BY DEF Slots
    <3>2. slot[s].state \notin {"Writing", "Reading"}
      BY <2>1, <2>3, <3>1
    <3>3. slot[s].state \in {"Free", "Writing", "Ready", "Reading"}
      BY DEF Typed, MailboxTyped, Frames, States
    <3> QED BY <3>2, <3>3
  <2> QED BY <2>1, <2>2, <2>3 DEF SlotsHaveOneOwner
<1> QED BY <1>1, PipelineInvariant, PTL

\* vga_damage_acknowledge and vga_damage_seal_pending forget nothing too
\* early: where a copy of the screen side differs from video memory, the VGA
\* still holds damage.
THEOREM DamageIsKept == Spec => []DamageCoversDifference
<1>1. Typed /\ Pipeline => DamageCoversDifference
  <2> SUFFICES ASSUME Typed, Pipeline, NEW copy \in {base, host.shadow}, copy.life = life,
                      NEW r \in Regions, copy.px[r] # vram[r]
               PROVE  r \in Visible(Accumulated(batches, pend))
    BY DEF DamageCoversDifference
  <2>1. Owed(batches, pend, -1, r)
    BY DEF Pipeline, CopiesCovered, Owes
  <2> QED BY <2>1, VisibleOwed DEF Typed, GuestTyped
<1> QED BY <1>1, PipelineInvariant, PTL

\* The window never shows a mixture of two pictures, although the texture is
\* overwritten in place and in part.
THEOREM OnePicture == Spec => []ScreenIsAPicture
<1>1. Typed /\ Pipeline => ScreenIsAPicture
  BY DEF Pipeline, TextureComplete, ScreenIsAPicture
<1> QED BY <1>1, PipelineInvariant, PTL

\* The window shows nothing of an earlier Machine once the host has adopted
\* the lifecycle of the current one.
THEOREM OneMachine == Spec => []ScreenShowsThisMachine
<1>1. Typed /\ Pipeline => ScreenShowsThisMachine
  <2> SUFFICES ASSUME Typed, Pipeline, host.visible, host.life = life, NEW r \in Regions
               PROVE  host.tex[r][1] = boot
    BY DEF ScreenShowsThisMachine
  <2>1. CASE ~(upc = "commit" /\ staged.kind = "in_place")
    BY <2>1 DEF Pipeline, TextureComplete, Machines
  <2>2. CASE upc = "commit" /\ staged.kind = "in_place"
    <3>1. /\ cslot \in Slots /\ slot[cslot].state = "Reading" /\ slot[cslot].life = life
          /\ host.tex = shot[cslot]
      BY <2>2 DEF Pipeline, Ownership, HoldingPcs, Lifecycles, StagedComplete, Typed, UiTyped
    <3>2. Current(cslot)
      BY <3>1 DEF Current, Holds
    <3> QED BY <3>1, <3>2 DEF Pipeline, Machines
  <2> QED BY <2>1, <2>2
<1> QED BY <1>1, PipelineInvariant, PTL

=============================================================================
