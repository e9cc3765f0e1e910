--------------------------- MODULE Ext2MountProofs ---------------------------
(***************************************************************************)
(* Proofs about ext2's block cache and the mount above it, for any number  *)
(* of blocks, any capacity and any device errors: the cache is a store     *)
(* (Store), and the clean mark and a sync mean what they should.           *)
(***************************************************************************)
EXTENDS Ext2Mount, FiniteSetTheorems, SequenceTheorems, WellFoundedInduction, TLAPS

Elements(seq) == {seq[i] : i \in DOMAIN seq}
Distinct(seq) == \A i, j \in DOMAIN seq : seq[i] = seq[j] => i = j

CacheType == [data : [Block -> Value \cup {None}], dirty : SUBSET Block, lru : SUBSET Block,
              order : Seq(Block), count : Nat, disk : [Block -> Value],
              media : [Block -> SUBSET Value], ok : BOOLEAN]

(* What every cache is, in the middle of a call too.  A write reaches the  *)
(* medium at the latest when the device says it has it: what a read of the *)
(* device gives may be what a power cut leaves.  B is the blocks that a    *)
(* call is about to mark dirty.                                            *)
Accounted(s) ==
    /\ s \in CacheType
    /\ s.dirty \subseteq Cached(s)
    /\ s.lru = Cached(s) \ s.dirty
    /\ s.count = Cardinality(s.dirty)
    /\ Elements(s.order) = Cached(s)
    /\ Distinct(s.order)
CacheBut(s, B) ==
    /\ Accounted(s)
    /\ Cardinality(Cached(s)) <= CAPACITY
    /\ \A b \in (Cached(s) \ s.dirty) \ B : s.data[b] = s.disk[b]
    /\ \A b \in Block : s.disk[b] \in s.media[b]
CacheOK(s) == CacheBut(s, {})

(* Nothing a caller could see changed from s to w. *)
SameStore(s, w) ==
    /\ Contents(w) = Contents(s)
    /\ May(w) = May(s)
    /\ s.dirty = {} => w.dirty = {} /\ w.disk = s.disk /\ w.media = s.media

-----------------------------------------------------------------------------
(* Sets of blocks are finite. *)
LEMMA BlocksFinite ==
    ASSUME NEW S \in SUBSET Block
    PROVE  IsFiniteSet(S) /\ Cardinality(S) \in Nat
  BY BlockAssumption, FS_Subset, FS_CardinalityType

(* The order of use without a block, and with it as the newest. *)
LEMMA WithoutDrops ==
    ASSUME NEW seq \in Seq(Block), Distinct(seq), NEW b \in Block
    PROVE  /\ Without(seq, b) \in Seq(Block)
           /\ Distinct(Without(seq, b))
           /\ Elements(Without(seq, b)) = Elements(seq) \ {b}
<1>0. Len(seq) \in Nat /\ DOMAIN seq = 1..Len(seq) /\ \A j \in 1..Len(seq) : seq[j] \in Block
  BY LenProperties, ElementOfSeq
<1>1. CASE ~\E i \in DOMAIN seq : seq[i] = b
  BY <1>1 DEF Without, Elements
<1>2. CASE \E i \in DOMAIN seq : seq[i] = b
  <2> DEFINE i == CHOOSE k \in DOMAIN seq : seq[k] = b
             w == [j \in 1..Len(seq) - 1 |-> IF j < i THEN seq[j] ELSE seq[j + 1]]
  <2>1. i \in 1..Len(seq) /\ seq[i] = b
    BY <1>0, <1>2
  <2>2. Without(seq, b) = w
    BY <1>2 DEF Without
  <2> HIDE DEF i
  <2>3. Len(seq) - 1 \in Nat /\ \A j \in 1..Len(seq) - 1 : w[j] \in Block
    BY <1>0, <2>1
  <2>4. w \in Seq(Block) /\ DOMAIN w = 1..Len(seq) - 1
    BY <2>3, IsASeq
  <2>5. Distinct(w)
    BY SMTT(60), <1>0, <2>1, <2>4 DEF Distinct
  <2>6. ASSUME NEW x \in Elements(w) PROVE x \in Elements(seq) \ {b}
    BY <1>0, <2>1, <2>4 DEF Distinct, Elements
  <2>7. ASSUME NEW x \in Elements(seq), x # b PROVE x \in Elements(w)
    <3>1. PICK j \in 1..Len(seq) : seq[j] = x
      BY <1>0 DEF Elements
    <3>2. CASE j < i
      <4>1. j \in 1..Len(seq) - 1 /\ w[j] = x
        BY <1>0, <2>1, <3>1, <3>2
      <4> QED BY <2>4, <4>1 DEF Elements
    <3>3. CASE j > i
      <4>1. j - 1 \in 1..Len(seq) - 1 /\ w[j - 1] = x
        BY <1>0, <2>1, <3>1, <3>3
      <4> QED BY <2>4, <4>1 DEF Elements
    <3> QED BY <2>1, <2>7, <3>1, <3>2, <3>3
  <2> QED BY <2>2, <2>4, <2>5, <2>6, <2>7
<1> QED BY <1>1, <1>2

(* touch makes a block the newest. *)
LEMMA UsedNowAdds ==
    ASSUME NEW seq \in Seq(Block), Distinct(seq), NEW b \in Block
    PROVE  /\ UsedNow(seq, b) \in Seq(Block)
           /\ Distinct(UsedNow(seq, b))
           /\ Elements(UsedNow(seq, b)) = Elements(seq) \cup {b}
<1> DEFINE w == Without(seq, b)
           n == Append(w, b)
<1>1. w \in Seq(Block) /\ Distinct(w) /\ Elements(w) = Elements(seq) \ {b}
  BY WithoutDrops
<1>2. UsedNow(seq, b) = n
  BY DEF UsedNow
<1> HIDE DEF w
<1>3. /\ n \in Seq(Block) /\ Len(w) \in Nat /\ Len(n) = Len(w) + 1
      /\ DOMAIN w = 1..Len(w) /\ DOMAIN n = 1..Len(w) + 1
      /\ \A i \in 1..Len(w) : n[i] = w[i]
      /\ n[Len(w) + 1] = b
  BY <1>1, AppendProperties, LenProperties
<1> HIDE DEF n
<1>4. \A i \in 1..Len(w) : w[i] # b
  BY ZenonT(30), <1>1, <1>3 DEF Elements
<1>5. Distinct(n)
  BY <1>1, <1>3, <1>4 DEF Distinct
<1>6. Elements(n) = Elements(w) \cup {b}
  BY <1>3 DEF Elements
<1> QED BY <1>1, <1>2, <1>3, <1>5, <1>6

-----------------------------------------------------------------------------
(* What the parts of the calls keep. *)

(* write_back: blocks become clean on the device, and none reads otherwise. *)
LEMMA WriteBackKeepsBut ==
    ASSUME NEW s, NEW B, CacheBut(s, B), NEW fail
    PROVE  LET w == WriteBack(s, fail)
           IN  /\ CacheBut(w, B) /\ SameStore(s, w)
               /\ w.data = s.data /\ w.dirty = s.dirty \cap fail
               /\ w.ok = (s.dirty \cap fail = {})
<1> DEFINE w == WriteBack(s, fail)
           written == s.dirty \ fail
           disk == [b \in Block |-> IF b \in written THEN s.data[b] ELSE s.disk[b]]
           media == [b \in Block |-> IF b \in s.dirty THEN s.media[b] \cup {s.data[b]}
                                                     ELSE s.media[b]]
<1>0. /\ s \in CacheType /\ s.dirty \subseteq Cached(s) /\ Cached(s) \subseteq Block
      /\ \A b \in Cached(s) : s.data[b] \in Value
  BY DEF CacheBut, Accounted, CacheType, Cached
<1>1. disk \in [Block -> Value] /\ media \in [Block -> SUBSET Value]
  BY <1>0 DEF CacheType
<1>2. /\ s.count - Cardinality(written) = Cardinality(s.dirty \cap fail)
      /\ Cardinality(s.dirty \cap fail) \in Nat
  <2>1. /\ IsFiniteSet(s.dirty) /\ Cardinality(s.dirty) \in Nat
        /\ Cardinality(s.dirty \cap fail) \in Nat /\ Cardinality(written) \in Nat
    <3>1. s.dirty \in SUBSET Block /\ s.dirty \cap fail \in SUBSET Block /\ written \in SUBSET Block
      BY <1>0
    <3> QED BY <3>1, BlocksFinite
  <2>2. Cardinality(written) = Cardinality(s.dirty) - Cardinality(s.dirty \cap fail)
    BY ZenonT(30), <2>1, FS_Difference
  <2>3. s.count = Cardinality(s.dirty)
    BY DEF CacheBut, Accounted
  <2> QED BY <2>1, <2>2, <2>3
<1>3. w = [s EXCEPT !.disk = disk, !.media = media, !.dirty = s.dirty \cap fail,
                    !.lru = s.lru \cup written, !.count = s.count - Cardinality(written),
                    !.ok = (s.dirty \cap fail = {})]
  BY DEF WriteBack
<1> HIDE DEF disk, media, w
<1>4. /\ w \in CacheType
      /\ w.data = s.data /\ w.dirty = s.dirty \cap fail /\ w.lru = s.lru \cup written
      /\ w.order = s.order /\ w.count = Cardinality(s.dirty \cap fail)
      /\ w.disk = disk /\ w.media = media /\ w.ok = (s.dirty \cap fail = {})
  BY ZenonT(30), <1>0, <1>1, <1>2, <1>3 DEF CacheType
<1>5. Cached(w) = Cached(s)
  BY <1>4 DEF Cached
<1>6. Accounted(w)
  BY <1>0, <1>4, <1>5 DEF CacheBut, Accounted
<1>7. \A b \in (Cached(w) \ w.dirty) \ B : w.data[b] = w.disk[b]
  BY <1>0, <1>4, <1>5 DEF CacheBut, disk
<1>8. \A b \in Block : w.disk[b] \in w.media[b]
  BY <1>4 DEF CacheBut, disk, media
<1>9. Contents(w) = Contents(s)
  <2>1. \A b \in Block : s.data[b] = None => b \notin written
    BY <1>0 DEF Cached
  <2>2. \A b \in Block : s.data[b] = None => w.disk[b] = s.disk[b]
    BY <1>4, <2>1 DEF disk
  <2> QED BY <1>4, <2>2 DEF Contents
<1>10. May(w) = May(s)
  <2>1. \A b \in Block : w.media[b] \cup {Contents(w)[b]} = s.media[b] \cup {Contents(s)[b]}
    BY <1>0, <1>4, <1>9 DEF media, Cached, Contents
  <2> QED BY <2>1 DEF May, Contents
<1>11. s.dirty = {} => w.dirty = {} /\ w.disk = s.disk /\ w.media = s.media
  BY <1>0, <1>4 DEF disk, media, CacheType
<1> QED BY <1>4, <1>5, <1>6, <1>7, <1>8, <1>9, <1>10, <1>11 DEF CacheBut, SameStore, w

(* The same of a cache between calls. *)
LEMMA WriteBackKeeps ==
    ASSUME NEW s, CacheOK(s), NEW fail
    PROVE  LET w == WriteBack(s, fail)
           IN  /\ CacheOK(w) /\ SameStore(s, w)
               /\ w.data = s.data /\ w.dirty = s.dirty \cap fail
               /\ w.ok = (s.dirty \cap fail = {})
  BY WriteBackKeepsBut DEF CacheOK

(* make_room finds the block that was not used for longest. *)
LEMMA OldestIsClean ==
    ASSUME NEW s, CacheOK(s), s.lru # {}
    PROVE  Oldest(s) \in s.lru
<1> DEFINE ranks == {i \in DOMAIN s.order : s.order[i] \in s.lru}
<1>1. DOMAIN s.order \in SUBSET Nat
  <2>1. s.order \in Seq(Block)
    BY DEF CacheOK, CacheBut, Accounted, CacheType
  <2> QED BY <2>1, LenProperties
<1>2. ranks # {} /\ ranks \in SUBSET Nat
  BY <1>1 DEF CacheOK, CacheBut, Accounted, Elements
<1>3. PICK i \in ranks : \A j \in ranks : i <= j
  <2> HIDE DEF ranks
  <2> DEFINE less == {ss \in Nat \X Nat : ss[1] < ss[2]}
  <2>1. IsWellFoundedOn(less, Nat)
    BY NatLessThanWellFounded DEF OpToRel
  <2> HIDE DEF less
  <2>2. PICK i \in ranks : \A j \in ranks : ~(<<j, i>> \in less)
    BY ZenonT(30), <1>2, <2>1, WFMin
  <2>3. ASSUME NEW j \in ranks PROVE i <= j
    <3>1. i \in Nat /\ j \in Nat
      BY <1>2
    <3>2. <<j, i>> \in Nat \X Nat /\ <<j, i>>[1] = j /\ <<j, i>>[2] = i
      BY <3>1
    <3>3. ~(j < i)
      BY <2>2, <3>2 DEF less
    <3> QED BY <3>1, <3>3
  <2> QED BY <2>3
<1>4. \A j \in 1..i - 1 : s.order[j] \notin s.lru
  <2>1. s.order \in Seq(Block)
    BY DEF CacheOK, CacheBut, Accounted, CacheType
  <2>2. Len(s.order) \in Nat /\ DOMAIN s.order = 1..Len(s.order)
    BY <2>1, LenProperties
  <2> SUFFICES ASSUME NEW j \in 1..i - 1, s.order[j] \in s.lru PROVE FALSE
    OBVIOUS
  <2>3. i \in 1..Len(s.order)
    BY <2>2
  <2>4. j \in DOMAIN s.order
    BY <2>2, <2>3
  <2>5. j \in ranks
    BY <2>4
  <2> QED BY <1>3, <2>3, <2>5
<1>5. s.order[i] \in s.lru /\ i \in DOMAIN s.order
  OBVIOUS
<1> HIDE DEF ranks
<1> QED BY <1>4, <1>5 DEF Oldest

(* It drops a clean block: the device has the same. *)
LEMMA EvictKeeps ==
    ASSUME NEW s, CacheOK(s), NEW b \in s.lru
    PROVE  LET w == Evict(s, b)
           IN  /\ CacheOK(w) /\ SameStore(s, w) /\ w.ok = TRUE /\ w.dirty = s.dirty
               /\ Cached(w) = Cached(s) \ {b} /\ w.data = [s.data EXCEPT ![b] = None]
               /\ Cardinality(Cached(w)) < CAPACITY
<1> DEFINE w == Evict(s, b)
           order == Without(s.order, b)
<1>0. /\ s \in CacheType /\ b \in Block /\ b \in Cached(s) /\ b \notin s.dirty
      /\ s.order \in Seq(Block) /\ Distinct(s.order)
      /\ None \notin Value
  BY ValueAssumption DEF CacheOK, CacheBut, Accounted, CacheType, Cached
<1>1. order \in Seq(Block) /\ Distinct(order) /\ Elements(order) = Elements(s.order) \ {b}
  BY <1>0, WithoutDrops
<1>2. w = [s EXCEPT !.data[b] = None, !.lru = @ \ {b}, !.order = order, !.ok = TRUE]
  BY DEF Evict
<1> HIDE DEF order, w
<1>3. /\ w \in CacheType
      /\ w.data = [s.data EXCEPT ![b] = None] /\ w.dirty = s.dirty /\ w.lru = s.lru \ {b}
      /\ w.order = order /\ w.count = s.count
      /\ w.disk = s.disk /\ w.media = s.media /\ w.ok = TRUE
  BY ZenonT(30), <1>0, <1>1, <1>2 DEF CacheType
<1>4. Cached(w) = Cached(s) \ {b}
  BY <1>0, <1>3 DEF Cached, CacheType
<1>5. Accounted(w)
  BY <1>0, <1>1, <1>3, <1>4 DEF CacheOK, CacheBut, Accounted
<1>6. Cardinality(Cached(w)) < CAPACITY
  <2>1. Cached(s) \in SUBSET Block
    BY DEF Cached
  <2>2. IsFiniteSet(Cached(s)) /\ Cardinality(Cached(s)) \in Nat
    BY <2>1, BlocksFinite
  <2>3. Cardinality(Cached(s) \ {b}) = Cardinality(Cached(s)) - 1
    BY ZenonT(30), <1>0, <2>2, FS_RemoveElement
  <2> QED BY <1>4, <2>2, <2>3, CapacityAssumption DEF CacheOK, CacheBut
<1>7. Cardinality(Cached(w)) <= CAPACITY
  <2>1. Cached(w) \in SUBSET Block
    BY DEF Cached
  <2> QED BY <1>6, <2>1, BlocksFinite, CapacityAssumption
<1>8. \A x \in Cached(w) \ w.dirty : w.data[x] = w.disk[x]
  BY <1>0, <1>3, <1>4 DEF CacheOK, CacheBut, CacheType
<1>9. Contents(w) = Contents(s)
  <2>1. s.data[b] = s.disk[b] /\ s.data[b] # None
    BY <1>0 DEF CacheOK, CacheBut, Cached
  <2>2. \A x \in Block : (IF w.data[x] # None THEN w.data[x] ELSE w.disk[x])
                         = (IF s.data[x] # None THEN s.data[x] ELSE s.disk[x])
    BY <1>0, <1>3, <2>1 DEF CacheType
  <2> QED BY <2>2 DEF Contents
<1>10. May(w) = May(s)
  <2>1. \A x \in Block : w.media[x] \cup {Contents(w)[x]} = s.media[x] \cup {Contents(s)[x]}
    BY <1>3, <1>9
  <2> QED BY <2>1 DEF May, Contents
<1> QED BY <1>3, <1>4, <1>5, <1>6, <1>7, <1>8, <1>9, <1>10 DEF CacheOK, CacheBut, SameStore, w

(* Only the outcome of the call is set. *)
LEMMA OutcomeKeeps ==
    ASSUME NEW s, CacheOK(s), NEW r \in BOOLEAN
    PROVE  LET w == [s EXCEPT !.ok = r]
           IN  CacheOK(w) /\ SameStore(s, w) /\ w.ok = r /\ w.data = s.data /\ w.dirty = s.dirty
<1> DEFINE w == [s EXCEPT !.ok = r]
<1>1. /\ s \in CacheType /\ w \in CacheType
      /\ w.data = s.data /\ w.dirty = s.dirty /\ w.lru = s.lru /\ w.order = s.order
      /\ w.count = s.count /\ w.disk = s.disk /\ w.media = s.media /\ w.ok = r
  BY SMTT(60) DEF CacheOK, CacheBut, Accounted, CacheType
<1> HIDE DEF w
<1>2. Cached(w) = Cached(s) /\ Contents(w) = Contents(s) /\ May(w) = May(s)
  BY <1>1 DEF Cached, Contents, May
<1>3. CacheOK(w)
  BY <1>1, <1>2 DEF CacheOK, CacheBut, Accounted
<1> QED BY <1>1, <1>2, <1>3 DEF SameStore, w

(* Two steps that change nothing for a caller change nothing together. *)
LEMMA SameStoreTransitive ==
    ASSUME NEW s, NEW v, NEW w, SameStore(s, v), SameStore(v, w)
    PROVE  SameStore(s, w)
  BY DEF SameStore

(* make_room: there is room for a block, or the call fails. *)
LEMMA MakeRoomKeeps ==
    ASSUME NEW s, CacheOK(s), NEW fail
    PROVE  LET w == MakeRoom(s, fail)
           IN  /\ CacheOK(w) /\ SameStore(s, w) /\ w.ok \in BOOLEAN
               /\ w.ok => Cardinality(Cached(w)) < CAPACITY
               /\ Cached(w) \subseteq Cached(s)
<1> DEFINE w == MakeRoom(s, fail)
<1>1. CASE Cardinality(Cached(s)) < CAPACITY
  <2>1. w = [s EXCEPT !.ok = TRUE]
    BY <1>1 DEF MakeRoom
  <2>2. CacheOK(w) /\ SameStore(s, w) /\ w.ok = TRUE /\ w.data = s.data
    BY ZenonT(30), <2>1, OutcomeKeeps
  <2> QED BY ZenonT(30), <1>1, <2>2 DEF Cached
<1>2. CASE ~(Cardinality(Cached(s)) < CAPACITY)
  <2> DEFINE v == IF s.lru = {} THEN WriteBack(s, fail) ELSE s
  <2>1. w = IF v.lru = {} THEN [v EXCEPT !.ok = FALSE] ELSE Evict(v, Oldest(v))
    BY <1>2 DEF MakeRoom
  <2>2. CacheOK(v) /\ SameStore(s, v) /\ v.data = s.data
    <3>1. CASE s.lru = {}
      BY <3>1, WriteBackKeeps
    <3>2. CASE s.lru # {}
      BY <3>2 DEF SameStore
    <3> QED BY <3>1, <3>2
  <2> HIDE DEF v
  <2>3. Cached(v) = Cached(s)
    BY <2>2 DEF Cached
  <2>4. CASE v.lru = {}
    <3>1. CacheOK(w) /\ SameStore(v, w) /\ w.ok = FALSE /\ w.data = v.data
      BY ZenonT(30), <2>1, <2>2, <2>4, OutcomeKeeps
    <3> QED BY ZenonT(30), <2>2, <2>3, <3>1, SameStoreTransitive DEF Cached
  <2>5. CASE v.lru # {}
    <3>1. Oldest(v) \in v.lru /\ w = Evict(v, Oldest(v))
      BY <2>1, <2>2, <2>5, OldestIsClean
    <3> DEFINE o == Oldest(v)
    <3> HIDE DEF o, w
    <3>2. /\ CacheOK(w) /\ SameStore(v, w) /\ w.ok = TRUE
          /\ Cardinality(Cached(w)) < CAPACITY /\ Cached(w) = Cached(v) \ {o}
      <4>1. o \in v.lru /\ w = Evict(v, o)
        BY <3>1 DEF o
      <4> QED BY ZenonT(30), <2>2, <4>1, EvictKeeps
    <3> QED BY ZenonT(30), <2>2, <2>3, <3>2, SameStoreTransitive DEF w
  <2> QED BY <2>4, <2>5
<1> QED BY <1>1, <1>2

(* touch: only the order of use changes. *)
LEMMA TouchKeeps ==
    ASSUME NEW s, NEW B, CacheBut(s, B), NEW b \in Cached(s)
    PROVE  LET w == Touch(s, b)
           IN  /\ CacheBut(w, B) /\ SameStore(s, w) /\ w.ok = TRUE
               /\ w.data = s.data /\ w.dirty = s.dirty /\ w.media = s.media
<1> DEFINE w == Touch(s, b)
           order == UsedNow(s.order, b)
<1>0. s \in CacheType /\ b \in Block /\ s.order \in Seq(Block) /\ Distinct(s.order)
  BY DEF CacheBut, Accounted, CacheType, Cached
<1>1. order \in Seq(Block) /\ Distinct(order) /\ Elements(order) = Elements(s.order) \cup {b}
  BY <1>0, UsedNowAdds
<1>2. w = [s EXCEPT !.order = order, !.ok = TRUE]
  BY DEF Touch
<1> HIDE DEF order, w
<1>3. /\ w \in CacheType
      /\ w.data = s.data /\ w.dirty = s.dirty /\ w.lru = s.lru /\ w.order = order
      /\ w.count = s.count /\ w.disk = s.disk /\ w.media = s.media /\ w.ok = TRUE
  BY ZenonT(30), <1>0, <1>1, <1>2 DEF CacheType
<1>4. Cached(w) = Cached(s) /\ Contents(w) = Contents(s) /\ May(w) = May(s)
  BY <1>3 DEF Cached, Contents, May
<1>5. CacheBut(w, B)
  BY ZenonT(30), <1>1, <1>3, <1>4 DEF CacheBut, Accounted
<1> QED BY <1>3, <1>4, <1>5 DEF SameStore, w

(* insert: a block that was not cached is, clean. *)
LEMMA InsertKeeps ==
    ASSUME NEW s, CacheOK(s), NEW b \in Block \ Cached(s), NEW v \in Value,
           Cardinality(Cached(s)) < CAPACITY
    PROVE  LET w == Insert(s, b, v)
           IN  /\ Accounted(w) /\ w.ok = TRUE /\ w.dirty = s.dirty
               /\ w.data = [s.data EXCEPT ![b] = v] /\ w.disk = s.disk /\ w.media = s.media
               /\ Cached(w) = Cached(s) \cup {b}
               /\ Cardinality(Cached(w)) <= CAPACITY
<1> DEFINE w == Insert(s, b, v)
           order == UsedNow(s.order, b)
<1>0. /\ s \in CacheType /\ s.order \in Seq(Block) /\ Distinct(s.order)
      /\ b \notin s.dirty /\ v # None
  BY ValueAssumption DEF CacheOK, CacheBut, Accounted, CacheType
<1>1. order \in Seq(Block) /\ Distinct(order) /\ Elements(order) = Elements(s.order) \cup {b}
  BY <1>0, UsedNowAdds
<1>2. w = [s EXCEPT !.data[b] = v, !.lru = @ \cup {b}, !.order = order, !.ok = TRUE]
  BY DEF Insert
<1> HIDE DEF order, w
<1>3. /\ w \in CacheType
      /\ w.data = [s.data EXCEPT ![b] = v] /\ w.dirty = s.dirty /\ w.lru = s.lru \cup {b}
      /\ w.order = order /\ w.count = s.count
      /\ w.disk = s.disk /\ w.media = s.media /\ w.ok = TRUE
  BY ZenonT(30), <1>0, <1>1, <1>2 DEF CacheType
<1>4. Cached(w) = Cached(s) \cup {b}
  BY <1>0, <1>3 DEF Cached, CacheType
<1>5. Accounted(w)
  BY <1>0, <1>1, <1>3, <1>4 DEF CacheOK, CacheBut, Accounted
<1>6. Cardinality(Cached(w)) <= CAPACITY
  <2>1. Cached(s) \in SUBSET Block
    BY DEF Cached
  <2>2. IsFiniteSet(Cached(s)) /\ Cardinality(Cached(s)) \in Nat
    BY <2>1, BlocksFinite
  <2>3. Cardinality(Cached(s) \cup {b}) = Cardinality(Cached(s)) + 1
    BY ZenonT(30), <2>2, FS_AddElement
  <2> QED BY <1>4, <2>2, <2>3, CapacityAssumption
<1> QED BY <1>3, <1>4, <1>5, <1>6 DEF w

(* load: the block is cached as the device has it, or the call fails. *)
LEMMA LoadKeeps ==
    ASSUME NEW s, CacheOK(s), NEW b \in Block, NEW fail, NEW readable \in BOOLEAN
    PROVE  LET w == Load(s, b, fail, readable)
           IN  /\ CacheOK(w) /\ SameStore(s, w) /\ w.ok \in BOOLEAN
               /\ w.ok => b \in Cached(w)
<1> DEFINE w == Load(s, b, fail, readable)
           r == MakeRoom(s, fail)
<1>1. CASE b \in Cached(s)
  <2>1. w = Touch(s, b)
    BY <1>1 DEF Load
  <2> QED BY ZenonT(30), <1>1, <2>1, TouchKeeps DEF Cached, CacheOK
<1>2. CASE b \notin Cached(s)
  <2>1. w = IF r.ok /\ readable THEN Insert(r, b, r.disk[b]) ELSE [r EXCEPT !.ok = FALSE]
    BY <1>2 DEF Load
  <2>2. /\ CacheOK(r) /\ SameStore(s, r) /\ (r.ok => Cardinality(Cached(r)) < CAPACITY)
        /\ b \notin Cached(r)
    BY <1>2, MakeRoomKeeps
  <2> HIDE DEF r
  <2>3. CASE r.ok /\ readable
    <3>1. w = Insert(r, b, r.disk[b]) /\ r.disk[b] \in Value /\ r \in CacheType
      BY <2>1, <2>2, <2>3 DEF CacheOK, CacheBut, Accounted, CacheType
    <3>2. /\ Accounted(w) /\ w.ok = TRUE /\ w.dirty = r.dirty
          /\ w.data = [r.data EXCEPT ![b] = r.disk[b]] /\ w.disk = r.disk /\ w.media = r.media
          /\ Cached(w) = Cached(r) \cup {b} /\ Cardinality(Cached(w)) <= CAPACITY
      <4> DEFINE v == r.disk[b]
      <4>1. /\ w = Insert(r, b, v) /\ v \in Value /\ b \in Block \ Cached(r)
            /\ CacheOK(r) /\ Cardinality(Cached(r)) < CAPACITY
        BY ZenonT(30), <2>2, <2>3, <3>1
      <4> HIDE DEF v, w
      <4>2. /\ Accounted(w) /\ w.ok = TRUE /\ w.dirty = r.dirty
            /\ w.data = [r.data EXCEPT ![b] = v] /\ w.disk = r.disk /\ w.media = r.media
            /\ Cached(w) = Cached(r) \cup {b} /\ Cardinality(Cached(w)) <= CAPACITY
        <5>1. /\ CacheOK(r) /\ b \in Block \ Cached(r) /\ v \in Value
              /\ Cardinality(Cached(r)) < CAPACITY
          BY <4>1
        <5>2. LET x == Insert(r, b, v)
              IN  /\ Accounted(x) /\ x.ok = TRUE /\ x.dirty = r.dirty
                  /\ x.data = [r.data EXCEPT ![b] = v] /\ x.disk = r.disk /\ x.media = r.media
                  /\ Cached(x) = Cached(r) \cup {b}
                  /\ Cardinality(Cached(x)) <= CAPACITY
          BY <5>1, InsertKeeps, Zenon
        <5> QED BY <4>1, <5>2
      <4> QED BY <4>2 DEF v
    <3> HIDE DEF w
    <3>3. CacheOK(w)
      BY <2>2, <3>1, <3>2 DEF CacheOK, CacheBut, CacheType
    <3>4. Contents(w) = Contents(r)
      <4>1. r.data[b] = None /\ r.disk[b] # None
        BY <2>2, <3>1, ValueAssumption DEF Cached
      <4>2. \A x \in Block : (IF w.data[x] # None THEN w.data[x] ELSE w.disk[x])
                             = (IF r.data[x] # None THEN r.data[x] ELSE r.disk[x])
        BY <3>1, <3>2, <4>1 DEF CacheType
      <4> QED BY <4>2 DEF Contents
    <3>5. May(w) = May(r)
      <4>1. \A x \in Block : w.media[x] \cup {Contents(w)[x]} = r.media[x] \cup {Contents(r)[x]}
        BY <3>2, <3>4
      <4> QED BY <4>1 DEF May, Contents
    <3>6. SameStore(r, w)
      BY <3>2, <3>4, <3>5 DEF SameStore
    <3> QED BY ZenonT(30), <2>2, <3>2, <3>3, <3>6, SameStoreTransitive DEF w
  <2>4. CASE ~(r.ok /\ readable)
    <3>1. CacheOK(w) /\ SameStore(r, w) /\ w.ok = FALSE
      BY ZenonT(30), <2>1, <2>2, <2>4, OutcomeKeeps
    <3> QED BY ZenonT(30), <2>2, <3>1, SameStoreTransitive
  <2> QED BY <2>3, <2>4
<1> QED BY <1>1, <1>2

(* mark_dirty, and the new data: the block reads as they are. *)
Put(s, b, v, fail) == [MarkDirty(s, b, fail) EXCEPT !.data[b] = v]

(* mark_dirty, which may write back first, loses nothing: the block is dirty,
   and all others read as before. *)
LEMMA MarkDirtyKeeps ==
    ASSUME NEW s, NEW b \in Cached(s), CacheBut(s, {b}), s.ok = TRUE, NEW fail
    PROVE  LET w == MarkDirty(s, b, fail)
           IN  /\ CacheOK(w) /\ w.ok = TRUE /\ w.data = s.data /\ b \in w.dirty
               /\ Contents(w) = Contents(s) /\ May(w) = May(s) /\ w.media[b] = s.media[b]
<1> DEFINE w == MarkDirty(s, b, fail)
           v == IF s.count + 1 > CAPACITY \div 2 THEN WriteBack(s, fail) ELSE s
<1>1. CASE b \in s.dirty
  <2>1. w = s
    BY <1>1 DEF MarkDirty
  <2>2. CacheOK(s)
    BY <1>1 DEF CacheOK, CacheBut
  <2> QED BY <1>1, <2>1, <2>2
<1>2. CASE b \notin s.dirty
  <2>1. w = [v EXCEPT !.dirty = @ \cup {b}, !.lru = @ \ {b}, !.count = @ + 1, !.ok = TRUE]
    BY <1>2 DEF MarkDirty
  <2>2. /\ CacheBut(v, {b}) /\ v.data = s.data /\ b \notin v.dirty
        /\ Contents(v) = Contents(s) /\ May(v) = May(s) /\ v.media[b] = s.media[b]
    <3>1. CASE s.count + 1 > CAPACITY \div 2
      <4>1. v = WriteBack(s, fail)
        BY <3>1
      <4>2. WriteBack(s, fail).media[b] = s.media[b]
        <5>1. b \in Block /\ s \in CacheType
          BY DEF Cached, CacheBut, Accounted
        <5> QED BY <1>2, <5>1 DEF WriteBack, CacheType
      <4> HIDE DEF v
      <4> QED BY <1>2, <4>1, <4>2, WriteBackKeepsBut DEF SameStore
    <3>2. CASE ~(s.count + 1 > CAPACITY \div 2)
      <4>1. v = s
        BY <3>2
      <4> QED BY <1>2, <4>1
    <3> QED BY <3>1, <3>2
  <2> HIDE DEF v
  <2>3. v \in CacheType /\ b \in Block /\ Cached(v) = Cached(s)
    BY <2>2 DEF CacheBut, Accounted, Cached
  <2> HIDE DEF w
  <2>4. /\ w \in CacheType
        /\ w.data = v.data /\ w.dirty = v.dirty \cup {b} /\ w.lru = v.lru \ {b}
        /\ w.order = v.order /\ w.count = v.count + 1
        /\ w.disk = v.disk /\ w.media = v.media /\ w.ok = TRUE
    <3> DEFINE dirty == v.dirty \cup {b}
               lru == v.lru \ {b}
               count == v.count + 1
    <3>1. dirty \in SUBSET Block /\ lru \in SUBSET Block /\ count \in Nat
      BY <2>3 DEF CacheType
    <3>2. w = [v EXCEPT !.dirty = dirty, !.lru = lru, !.count = count, !.ok = TRUE]
      BY <2>1
    <3> HIDE DEF dirty, lru, count
    <3>3. /\ w \in CacheType
          /\ w.data = v.data /\ w.dirty = dirty /\ w.lru = lru
          /\ w.order = v.order /\ w.count = count
          /\ w.disk = v.disk /\ w.media = v.media /\ w.ok = TRUE
      BY ZenonT(30), <2>3, <3>1, <3>2 DEF CacheType
    <3> QED BY <3>3 DEF dirty, lru, count
  <2>5. Cached(w) = Cached(v) /\ Contents(w) = Contents(v) /\ May(w) = May(v)
    BY <2>4 DEF Cached, Contents, May
  <2>6. Cardinality(w.dirty) = Cardinality(v.dirty) + 1
    <3>1. v.dirty \in SUBSET Block
      BY <2>3 DEF CacheType
    <3> QED BY <2>2, <2>4, <3>1, BlocksFinite, FS_AddElement
  <2>7. Accounted(w)
    BY <2>2, <2>3, <2>4, <2>5, <2>6 DEF CacheBut, Accounted
  <2>8. CacheOK(w)
    BY <2>2, <2>4, <2>5, <2>7 DEF CacheOK, CacheBut
  <2> QED BY <2>2, <2>4, <2>5, <2>8 DEF w
<1> QED BY ZenonT(30), <1>1, <1>2

(* The block reads as v, and may be that after a power cut, too; the call  *)
(* may have brought the medium forward for it.                             *)
Placed(s, b, v, w) ==
    /\ Contents(w) = [Contents(s) EXCEPT ![b] = v]
    /\ May(w) = [May(s) EXCEPT ![b] = s.media[b] \cup {v}]
Wrote(s, b, v, w) ==
    /\ Contents(w) = [Contents(s) EXCEPT ![b] = v]
    /\ \E kept \in SUBSET May(s)[b] : May(w) = [May(s) EXCEPT ![b] = kept \cup {v}]

(* The caller of write and zeroed fills the block. *)
LEMMA PutKeeps ==
    ASSUME NEW s, NEW b \in Cached(s), CacheBut(s, {b}), s.ok = TRUE, NEW v \in Value, NEW fail
    PROVE  LET w == Put(s, b, v, fail)
           IN  CacheOK(w) /\ w.ok = TRUE /\ Placed(s, b, v, w)
<1> DEFINE u == MarkDirty(s, b, fail)
           w == Put(s, b, v, fail)
<1>1. /\ CacheOK(u) /\ u.ok = TRUE /\ u.data = s.data /\ b \in u.dirty
      /\ Contents(u) = Contents(s) /\ May(u) = May(s) /\ u.media[b] = s.media[b]
  BY ZenonT(30), MarkDirtyKeeps
<1>2. w = [u EXCEPT !.data[b] = v]
  BY DEF Put
<1> HIDE DEF u, w
<1>3. b \in Block /\ u \in CacheType /\ v # None /\ b \in Cached(u)
  BY <1>1, ValueAssumption DEF Cached, CacheOK, CacheBut, Accounted
<1>4. /\ w \in CacheType
      /\ w.data = [u.data EXCEPT ![b] = v] /\ w.dirty = u.dirty /\ w.lru = u.lru
      /\ w.order = u.order /\ w.count = u.count
      /\ w.disk = u.disk /\ w.media = u.media /\ w.ok = u.ok
  BY ZenonT(30), <1>2, <1>3 DEF CacheType
<1>5. Cached(w) = Cached(u)
  BY <1>3, <1>4 DEF Cached, CacheType
<1>6. CacheOK(w)
  BY <1>1, <1>3, <1>4, <1>5 DEF CacheOK, CacheBut, Accounted, CacheType
<1>7. Contents(w) = [Contents(u) EXCEPT ![b] = v]
  BY ZenonT(30), <1>3, <1>4 DEF Contents, CacheType
<1>8. May(w) = [May(u) EXCEPT ![b] = u.media[b] \cup {v}]
  <2>1. \A x \in Block : May(w)[x] = w.media[x] \cup {Contents(w)[x]}
    BY DEF May, Contents
  <2>2. \A x \in Block : May(u)[x] = u.media[x] \cup {Contents(u)[x]}
    BY DEF May, Contents
  <2>3. \A x \in Block : May(w)[x] = [May(u) EXCEPT ![b] = u.media[b] \cup {v}][x]
    BY <1>3, <1>4, <1>7, <2>1, <2>2 DEF May, Contents
  <2> QED BY ZenonT(30), <2>3 DEF May
<1> QED BY <1>1, <1>4, <1>6, <1>7, <1>8 DEF Placed, w

-----------------------------------------------------------------------------
(* The calls, as the store sees them. *)

(* write fails and changes nothing, or puts the data. *)
LEMMA WriteIntoKeeps ==
    ASSUME NEW s, CacheOK(s), NEW b \in Block, NEW v \in Value, NEW fail, NEW readable \in BOOLEAN
    PROVE  LET w == WriteInto(s, b, v, fail, readable)
           IN  /\ CacheOK(w) /\ w.ok \in BOOLEAN
               /\ w.ok => Wrote(s, b, v, w)
               /\ ~w.ok => SameStore(s, w)
<1> DEFINE w == WriteInto(s, b, v, fail, readable)
           u == Load(s, b, fail, readable)
<1>1. /\ CacheOK(u) /\ SameStore(s, u) /\ u.ok \in BOOLEAN
      /\ u.ok => b \in Cached(u)
  BY LoadKeeps
<1>2. w = IF u.ok THEN Put(u, b, v, fail) ELSE u
  BY DEF WriteInto, Put
<1> HIDE DEF u, w
<1>3. CASE u.ok
  <2>1. u.ok = TRUE /\ b \in Cached(u) /\ CacheBut(u, {b}) /\ w = Put(u, b, v, fail)
    BY <1>1, <1>2, <1>3 DEF CacheOK, CacheBut
  <2>2. CacheOK(w) /\ w.ok = TRUE /\ Placed(u, b, v, w)
    BY ZenonT(30), <2>1, PutKeeps
  <2>3. u.media[b] \in SUBSET May(s)[b]
    BY <1>1 DEF SameStore, May
  <2>4. Wrote(s, b, v, w)
    BY ZenonT(30), <1>1, <2>2, <2>3 DEF Wrote, Placed, SameStore
  <2> QED BY ZenonT(30), <2>2, <2>4 DEF w
<1>4. CASE ~u.ok
  BY <1>1, <1>2, <1>4 DEF w
<1> QED BY <1>3, <1>4

(* A cached block is filled with zeros first. *)
LEMMA ZeroFillKeeps ==
    ASSUME NEW s, CacheOK(s), NEW b \in Cached(s)
    PROVE  LET u == [s EXCEPT !.data[b] = Zero]
           IN  /\ CacheBut(u, {b}) /\ Cached(u) = Cached(s)
               /\ Contents(u) = [Contents(s) EXCEPT ![b] = Zero]
               /\ u.media = s.media
<1> DEFINE u == [s EXCEPT !.data[b] = Zero]
<1>0. s \in CacheType /\ b \in Block /\ Zero \in Value /\ Zero # None
  BY ValueAssumption DEF CacheOK, CacheBut, Accounted, Cached
<1>1. /\ u \in CacheType
      /\ u.data = [s.data EXCEPT ![b] = Zero] /\ u.dirty = s.dirty /\ u.lru = s.lru
      /\ u.order = s.order /\ u.count = s.count
      /\ u.disk = s.disk /\ u.media = s.media /\ u.ok = s.ok
  BY ZenonT(30), <1>0 DEF CacheType
<1> HIDE DEF u
<1>2. Cached(u) = Cached(s)
  BY <1>0, <1>1 DEF Cached, CacheType
<1>3. CacheBut(u, {b})
  BY <1>0, <1>1, <1>2 DEF CacheOK, CacheBut, Accounted, CacheType
<1>4. Contents(u) = [Contents(s) EXCEPT ![b] = Zero]
  BY ZenonT(30), <1>0, <1>1 DEF Contents, CacheType
<1> QED BY <1>1, <1>2, <1>3, <1>4 DEF u

(* Whatever was in the block before the data does not show. *)
LEMMA OverwrittenIsWritten ==
    ASSUME NEW s, NEW u, NEW w, NEW b \in Block, NEW v \in Value, Placed(u, b, v, w),
           \A x \in Block \ {b} : Contents(u)[x] = Contents(s)[x] /\ May(u)[x] = May(s)[x],
           u.media[b] \subseteq May(s)[b]
    PROVE  Wrote(s, b, v, w)
<1>1. Contents(w) = [Contents(s) EXCEPT ![b] = v]
  <2>1. \A x \in Block : [Contents(u) EXCEPT ![b] = v][x] = [Contents(s) EXCEPT ![b] = v][x]
    BY DEF Contents
  <2> QED BY ZenonT(30), <2>1 DEF Contents, Placed
<1>2. May(w) = [May(s) EXCEPT ![b] = u.media[b] \cup {v}]
  <2> DEFINE n == u.media[b] \cup {v}
  <2> HIDE DEF n
  <2>1. \A x \in Block : [May(u) EXCEPT ![b] = n][x] = [May(s) EXCEPT ![b] = n][x]
    BY ZenonT(30) DEF May
  <2>2. [May(u) EXCEPT ![b] = n] = [May(s) EXCEPT ![b] = n]
    BY ZenonT(30), <2>1 DEF May
  <2> QED BY <2>2 DEF Placed, n
<1> QED BY ZenonT(30), <1>1, <1>2 DEF Wrote

(* zeroed fails and changes nothing, or puts the data. *)
LEMMA ZeroIntoKeeps ==
    ASSUME NEW s, CacheOK(s), NEW b \in Block, NEW v \in Value, NEW fail
    PROVE  LET w == ZeroInto(s, b, v, fail)
           IN  /\ CacheOK(w) /\ w.ok \in BOOLEAN
               /\ w.ok => Wrote(s, b, v, w)
               /\ ~w.ok => SameStore(s, w)
<1> DEFINE w == ZeroInto(s, b, v, fail)
<1>1. ASSUME NEW u, CacheBut(u, {b}), b \in Cached(u), u.ok = TRUE, w = Put(u, b, v, fail),
             \A x \in Block \ {b} : Contents(u)[x] = Contents(s)[x] /\ May(u)[x] = May(s)[x],
             u.media[b] \subseteq May(s)[b]
      PROVE  CacheOK(w) /\ w.ok = TRUE /\ Wrote(s, b, v, w)
  <2> HIDE DEF w
  <2>1. CacheOK(w) /\ w.ok = TRUE /\ Placed(u, b, v, w)
    BY ZenonT(30), <1>1, PutKeeps
  <2> QED BY <1>1, <2>1, OverwrittenIsWritten
<1>2. CASE b \in Cached(s)
  <2> DEFINE z == [s EXCEPT !.data[b] = Zero]
             u == Touch(z, b)
  <2>1. /\ CacheBut(z, {b}) /\ Cached(z) = Cached(s)
        /\ Contents(z) = [Contents(s) EXCEPT ![b] = Zero] /\ z.media = s.media
    BY <1>2, ZeroFillKeeps
  <2> HIDE DEF z
  <2>2. /\ CacheBut(u, {b}) /\ SameStore(z, u) /\ u.ok = TRUE
        /\ u.data = z.data /\ u.dirty = z.dirty /\ u.media = z.media
    BY ZenonT(30), <1>2, <2>1, TouchKeeps
  <2>3. w = Put(u, b, v, fail)
    BY <1>2, <2>2 DEF ZeroInto, Put, z
  <2> HIDE DEF u, w
  <2>4. b \in Cached(u)
    BY <1>2, <2>1, <2>2 DEF Cached
  <2>5. \A x \in Block \ {b} : Contents(u)[x] = Contents(s)[x] /\ May(u)[x] = May(s)[x]
    <3> SUFFICES ASSUME NEW x \in Block \ {b}
                 PROVE  Contents(u)[x] = Contents(s)[x] /\ May(u)[x] = May(s)[x]
      OBVIOUS
    <3>1. Contents(u)[x] = Contents(s)[x]
      <4>1. Contents(u) = [Contents(s) EXCEPT ![b] = Zero]
        BY <2>1, <2>2 DEF SameStore
      <4>2. DOMAIN Contents(s) = Block
        BY DEF Contents
      <4> QED BY <4>1, <4>2
    <3>2. /\ May(u)[x] = u.media[x] \cup {Contents(u)[x]}
          /\ May(s)[x] = s.media[x] \cup {Contents(s)[x]}
      BY DEF May, Contents
    <3> QED BY <2>1, <2>2, <3>1, <3>2
  <2>6. u.media[b] \subseteq May(s)[b]
    BY <2>1, <2>2 DEF May
  <2>7. CacheOK(w) /\ w.ok = TRUE /\ Wrote(s, b, v, w)
    BY ZenonT(30), <1>1, <2>2, <2>3, <2>4, <2>5, <2>6
  <2> QED BY ZenonT(30), <2>7 DEF w
<1>3. CASE b \notin Cached(s)
  <2> DEFINE r == MakeRoom(s, fail)
             u == Insert(r, b, Zero)
  <2>1. /\ CacheOK(r) /\ SameStore(s, r) /\ (r.ok => Cardinality(Cached(r)) < CAPACITY)
        /\ b \in Block \ Cached(r) /\ Zero \in Value /\ r.ok \in BOOLEAN
    BY ZenonT(30), <1>3, MakeRoomKeeps, ValueAssumption
  <2>2. CASE ~r.ok
    <3>1. w = r
      BY <1>3, <2>2 DEF ZeroInto
    <3> QED BY <2>1, <2>2, <3>1
  <2>3. CASE r.ok
    <3> HIDE DEF r
    <3>1. /\ Accounted(u) /\ u.ok = TRUE /\ u.dirty = r.dirty
          /\ u.data = [r.data EXCEPT ![b] = Zero] /\ u.disk = r.disk /\ u.media = r.media
          /\ Cached(u) = Cached(r) \cup {b} /\ Cardinality(Cached(u)) <= CAPACITY
      <4>1. Cardinality(Cached(r)) < CAPACITY
        BY <2>1, <2>3
      <4> QED BY <2>1, <4>1, InsertKeeps, Zenon
    <3>2. w = Put(u, b, v, fail)
      BY <1>3, <2>3, <3>1 DEF ZeroInto, Put, r
    <3> HIDE DEF u, w
    <3>3. CacheBut(u, {b})
      BY <2>1, <3>1 DEF CacheOK, CacheBut, Accounted, CacheType
    <3>4. \A x \in Block \ {b} : Contents(u)[x] = Contents(s)[x] /\ May(u)[x] = May(s)[x]
      <4> SUFFICES ASSUME NEW x \in Block \ {b}
                   PROVE  Contents(u)[x] = Contents(s)[x] /\ May(u)[x] = May(s)[x]
        OBVIOUS
      <4>1. Contents(u)[x] = Contents(r)[x]
        BY <2>1, <3>1 DEF Contents, CacheOK, CacheBut, Accounted, CacheType
      <4>2. /\ May(u)[x] = u.media[x] \cup {Contents(u)[x]}
            /\ May(r)[x] = r.media[x] \cup {Contents(r)[x]}
        BY DEF May, Contents
      <4> QED BY <2>1, <3>1, <4>1, <4>2 DEF SameStore
    <3>5. u.media[b] \subseteq May(s)[b]
      BY <2>1, <3>1 DEF SameStore, May
    <3>6. CacheOK(w) /\ w.ok = TRUE /\ Wrote(s, b, v, w)
      BY ZenonT(30), <1>1, <3>1, <3>2, <3>3, <3>4, <3>5
    <3> QED BY ZenonT(30), <3>6 DEF w
  <2> QED BY <2>2, <2>3
<1> QED BY <1>2, <1>3

(* A block that is not dirty reads as the device has it. *)
LEMMA CleanReadsAsDisk ==
    ASSUME NEW s, CacheOK(s), NEW b \in Block, b \notin s.dirty
    PROVE  Contents(s)[b] = s.disk[b]
  BY DEF CacheOK, CacheBut, Cached, Contents

(* What a sync leaves: blocks read as before; of each the medium has just  *)
(* that or, only if the sync failed, what it might have had before.        *)
Secured(s, w) ==
    /\ Contents(w) = Contents(s)
    /\ \A b \in Block : \/ May(w)[b] = {Contents(s)[b]}
                        \/ ~w.ok /\ May(w)[b] = May(s)[b]
    /\ w.ok => w.dirty = {}
    /\ s.dirty = {} => w.dirty = {}

(* sync keeps the cache sound, and secures what it wrote on the medium. *)
LEMMA SyncedKeeps ==
    ASSUME NEW s, CacheOK(s), NEW fail, NEW flushed \in BOOLEAN
    PROVE  LET w == Synced(s, fail, flushed) IN CacheOK(w) /\ w.ok \in BOOLEAN /\ Secured(s, w)
<1> DEFINE u == WriteBack(s, fail)
           w == Synced(s, fail, flushed)
           media == IF flushed THEN Flushed(u) ELSE u.media
           good == u.ok /\ flushed
<1>1. /\ CacheOK(u) /\ SameStore(s, u) /\ u.dirty = s.dirty \cap fail
      /\ u.ok = (s.dirty \cap fail = {})
  BY WriteBackKeeps
<1>2. w = [u EXCEPT !.media = media, !.ok = good]
  BY DEF Synced
<1> HIDE DEF u
<1>3. u \in CacheType
  BY <1>1 DEF CacheOK, CacheBut, Accounted
<1>4. Flushed(u) \in [Block -> SUBSET Value]
  BY <1>3 DEF Flushed, CacheType
<1>5. media \in [Block -> SUBSET Value] /\ good \in BOOLEAN
  BY <1>3, <1>4 DEF CacheType
<1>6. \A b \in Block : media[b] = IF flushed /\ b \notin u.dirty THEN {u.disk[b]} ELSE u.media[b]
  BY DEF Flushed
<1>7. good => u.dirty = {} /\ flushed
  BY ZenonT(30), <1>1
<1> HIDE DEF media, good, w
<1>8. /\ w \in CacheType
      /\ w.data = u.data /\ w.dirty = u.dirty /\ w.lru = u.lru /\ w.order = u.order
      /\ w.count = u.count /\ w.disk = u.disk /\ w.media = media /\ w.ok = good
  BY ZenonT(30), <1>2, <1>3, <1>5 DEF CacheType
<1>9. Cached(w) = Cached(u) /\ Contents(w) = Contents(u)
  BY <1>8 DEF Cached, Contents
<1>10. \A b \in Block : w.disk[b] \in w.media[b]
  BY ZenonT(30), <1>1, <1>6, <1>8 DEF CacheOK, CacheBut
<1>11. CacheOK(w)
  BY ZenonT(30), <1>1, <1>8, <1>9, <1>10 DEF CacheOK, CacheBut, Accounted
<1>12. ASSUME NEW b \in Block
       PROVE  May(w)[b] = {Contents(s)[b]} \/ (~w.ok /\ May(w)[b] = May(s)[b])
  <2>1. Contents(w)[b] = Contents(s)[b] /\ Contents(u)[b] = Contents(s)[b]
    BY <1>1, <1>9 DEF SameStore
  <2>2. /\ May(w)[b] = media[b] \cup {Contents(w)[b]}
        /\ May(u)[b] = u.media[b] \cup {Contents(u)[b]} /\ May(u)[b] = May(s)[b]
    BY <1>1, <1>8 DEF May, Contents, SameStore
  <2>3. CASE flushed /\ b \notin u.dirty
    <3>1. u.disk[b] = Contents(u)[b]
      BY <1>1, <2>3, CleanReadsAsDisk
    <3> QED BY ZenonT(30), <1>6, <2>1, <2>2, <2>3, <3>1
  <2>4. CASE ~(flushed /\ b \notin u.dirty)
    <3>1. ~w.ok
      BY <1>7, <1>8, <2>4
    <3> QED BY ZenonT(30), <1>6, <2>1, <2>2, <2>4, <3>1
  <2> QED BY <2>3, <2>4
<1>13. Secured(s, w)
  BY <1>1, <1>7, <1>8, <1>9, <1>12 DEF Secured, SameStore
<1> QED BY <1>5, <1>8, <1>11, <1>13 DEF w

(* A new cache over a device whose medium may hold what it reads. *)
LEMMA FreshKeeps ==
    ASSUME NEW d \in [Block -> Value], NEW md \in [Block -> SUBSET Value],
           \A b \in Block : d[b] \in md[b]
    PROVE  LET w == Fresh(d, md)
           IN  /\ CacheOK(w) /\ w.ok = TRUE /\ Cached(w) = {} /\ w.dirty = {}
               /\ w.disk = d /\ w.media = md
               /\ Contents(w) = d /\ May(w) = md
<1> DEFINE w == Fresh(d, md)
<1>1. /\ w.data = [b \in Block |-> None] /\ w.dirty = {} /\ w.lru = {} /\ w.order = <<>>
      /\ w.count = 0 /\ w.disk = d /\ w.media = md /\ w.ok = TRUE
      /\ w \in CacheType
  BY ZenonT(30), EmptySeq DEF Fresh, CacheType
<1> HIDE DEF w
<1>2. Cached(w) = {} /\ Contents(w) = d
  BY <1>1 DEF Cached, Contents
<1>3. Cardinality({}) = 0 /\ Elements(<<>>) = {} /\ Distinct(<<>>)
  BY FS_EmptySet DEF Elements, Distinct
<1>4. CacheOK(w)
  BY <1>1, <1>2, <1>3, CapacityAssumption DEF CacheOK, CacheBut, Accounted
<1>5. May(w) = md
  <2>1. \A b \in Block : md[b] \cup {d[b]} = md[b]
    OBVIOUS
  <2>2. May(w) = [b \in Block |-> md[b] \cup {d[b]}]
    BY <1>1 DEF May
  <2> QED BY <2>1, <2>2
<1> QED BY <1>1, <1>2, <1>4, <1>5 DEF w

-----------------------------------------------------------------------------
(* The cache between calls, and what each call does. *)
CInv == CacheOK(c) /\ got \in Value

(* A cache that is sound in these terms is sound in those of BlockCache. *)
LEMMA SoundCache == CInv => CacheSound
  BY DEF CInv, CacheOK, CacheBut, Accounted, CacheType, Elements, Distinct,
         CacheSound, TypeOK, Accounts, Bounded, CleanIsOnDisk

(* read_block: the store is as it was, and what is got is what it holds. *)
LEMMA ReadKeeps ==
    ASSUME CInv, NEW b \in Block, Read(b)
    PROVE  /\ CInv' /\ SameStore(c, c') /\ c'.ok \in BOOLEAN
           /\ got' = IF c'.ok THEN Contents(c)[b] ELSE got
<1>1. PICK fail \in SUBSET c.dirty, readable \in BOOLEAN :
          c' = Load(c, b, fail, readable) /\ got' = IF c'.ok THEN c'.data[b] ELSE got
  BY DEF Read
<1>2. CacheOK(c') /\ SameStore(c, c') /\ c'.ok \in BOOLEAN /\ (c'.ok => b \in Cached(c'))
  BY <1>1, LoadKeeps DEF CInv
<1>3. c'.ok => c'.data[b] = Contents(c)[b]
  <2>1. c'.ok => c'.data[b] = Contents(c')[b]
    BY <1>2 DEF Contents, Cached
  <2> QED BY <1>2, <2>1 DEF SameStore
<1>4. c'.ok => c'.data[b] \in Value
  BY <1>2 DEF CacheOK, CacheBut, Accounted, CacheType, Cached
<1> QED BY <1>1, <1>2, <1>3, <1>4 DEF CInv

(* write_block and zeroed: the one block has the new value, or nothing
   changed. *)
LEMMA WriteKeeps ==
    ASSUME CInv, NEW b \in Block, NEW v \in Value, Write(b, v) \/ Zeroed(b, v)
    PROVE  /\ CInv' /\ got' = got /\ c'.ok \in BOOLEAN
           /\ c'.ok => Wrote(c, b, v, c')
           /\ ~c'.ok => SameStore(c, c')
<1>1. CASE Write(b, v)
  BY <1>1, WriteIntoKeeps DEF Write, CInv
<1>2. CASE Zeroed(b, v)
  BY <1>2, ZeroIntoKeeps DEF Zeroed, CInv
<1> QED BY <1>1, <1>2

(* The action of sync. *)
LEMMA SyncKeeps ==
    ASSUME CInv, Sync
    PROVE  CInv' /\ got' = got /\ c'.ok \in BOOLEAN /\ Secured(c, c')
  BY SyncedKeeps DEF Sync, CInv

(* The device without its cache: what it read, or what the power cut left. *)
LEMMA DropKeeps ==
    ASSUME CInv, Drop
    PROVE  /\ CInv' /\ got' = got /\ c'.ok = TRUE /\ Cached(c') = {} /\ c'.dirty = {}
           /\ c'.disk = c.disk /\ c'.media = c.media
           /\ Contents(c') = c.disk /\ May(c') = c.media
<1> DEFINE d == c.disk
           md == c.media
<1>1. /\ d \in [Block -> Value] /\ md \in [Block -> SUBSET Value] /\ \A b \in Block : d[b] \in md[b]
      /\ c' = Fresh(d, md) /\ got' = got
  BY DEF Drop, CInv, CacheOK, CacheBut, Accounted, CacheType
<1> HIDE DEF d, md
<1>2. LET w == Fresh(d, md)
      IN  /\ CacheOK(w) /\ w.ok = TRUE /\ Cached(w) = {} /\ w.dirty = {}
          /\ w.disk = d /\ w.media = md
          /\ Contents(w) = d /\ May(w) = md
  BY <1>1, FreshKeeps, Zenon
<1> QED BY <1>1, <1>2 DEF CInv, d, md

(* A power cut leaves of every block one of the values its medium may have. *)
LEMMA PowerCutKeeps ==
    ASSUME CInv, PowerCut
    PROVE  /\ CInv' /\ got' = got /\ c'.ok = TRUE /\ Cached(c') = {} /\ c'.dirty = {}
           /\ Contents(c') = c'.disk /\ May(c') = c'.media
           /\ \A b \in Block : c'.disk[b] \in c.media[b] /\ c'.media[b] = {c'.disk[b]}
<1>1. PICK d \in [Block -> Value] :
          (\A b \in Block : d[b] \in c.media[b]) /\ c' = Fresh(d, [b \in Block |-> {d[b]}])
  BY ZenonT(30) DEF PowerCut
<1> DEFINE md == [b \in Block |-> {d[b]}]
<1>2. md \in [Block -> SUBSET Value] /\ \A b \in Block : d[b] \in md[b]
  OBVIOUS
<1> HIDE DEF md
<1>3. LET w == Fresh(d, md)
      IN  /\ CacheOK(w) /\ w.ok = TRUE /\ Cached(w) = {} /\ w.dirty = {}
          /\ w.disk = d /\ w.media = md
          /\ Contents(w) = d /\ May(w) = md
  BY <1>2, FreshKeeps, Zenon
<1>4. c' = Fresh(d, md) /\ got' = got
  BY <1>1 DEF md, PowerCut
<1>5. /\ CacheOK(c') /\ c'.ok = TRUE /\ Cached(c') = {} /\ c'.dirty = {}
      /\ c'.disk = d /\ c'.media = md /\ Contents(c') = d /\ May(c') = md
  BY <1>3, <1>4
<1>6. \A b \in Block : md[b] = {d[b]}
  BY DEF md
<1> QED BY ZenonT(30), <1>1, <1>4, <1>5, <1>6 DEF CInv

-----------------------------------------------------------------------------
(***************************************************************************)
(* The inductive invariant of a mounted filesystem.                        *)
(***************************************************************************)
Marks == {Zero, VALID}

MountRecord ==
          [at : {"down", "load", "drop", "groups", "super", "sync", "idle"}, mounting : BOOLEAN,
           read_only : BOOLEAN, never_write : BOOLEAN, mount_state : Marks, sb : Marks,
           sbDirty : BOOLEAN, groups : Value, groupsDirty : BOOLEAN, synced : BOOLEAN]
MountType == m \in MountRecord

(* Blocks other than B are secured: a power cut leaves what they read as. *)
SecuredBut(s, B) == \A b \in Block \ B : May(s)[b] = {Contents(s)[b]}

(* Until a mount is done only the superblock was written. *)
Quiet ==
    /\ m.at = "down" => c.dirty = {}
    /\ m.at = "down" \/ m.mounting => SecuredBut(c, {SUPER})

Loading ==
    m.at = "load" =>
        /\ m.mounting /\ c.dirty = {} /\ m.never_write = m.read_only
        /\ m.sb = Contents(c)[SUPER] /\ ~m.sbDirty /\ ~m.groupsDirty

(* Where a flush is, and that the flush of a mount marks the filesystem.  *)
Flushing ==
    /\ m.at = "super" => m.sbDirty /\ ~m.groupsDirty
    /\ m.at = "sync" => ~m.sbDirty /\ ~m.groupsDirty
    /\ m.at = "drop" => m.mounting
    /\ m.mounting => m.at \in {"load", "drop", "super", "sync"} /\ ~m.synced
    /\ m.mounting /\ m.at \in {"super", "sync"} => ~m.read_only /\ m.sb = Zero

(* What the driver has in memory is in the cache, unless it is marked. *)
InCache ==
    m.at \in {"groups", "super", "sync", "idle"} =>
        /\ ~m.sbDirty => Contents(c)[SUPER] = m.sb
        /\ ~m.groupsDirty => Contents(c)[GROUPS] = m.groups

(* Neither the medium nor the driver has the clean mark of a filesystem in *)
(* use, or of one that was not clean when it was mounted.                  *)
NotClean ==
    /\ May(c)[SUPER] \subseteq Marks
    /\ Up /\ (~m.read_only \/ (~m.never_write /\ m.mount_state # VALID)) =>
           May(c)[SUPER] = {Zero} /\ m.sb = Zero

AllSecured ==
    m.synced /\ m.at = "idle" => SecuredBut(c, {}) /\ ~m.sbDirty /\ ~m.groupsDirty

NeverDirty ==
    m.at # "down" /\ m.never_write =>
        c.dirty = {} /\ m.read_only /\ m.at \in {"load", "drop", "idle"}

MInv == /\ CInv /\ MountType /\ Quiet /\ Loading /\ Flushing /\ InCache /\ NotClean
        /\ AllSecured /\ NeverDirty

-----------------------------------------------------------------------------
(* The store block by block. *)
LEMMA StorePoints ==
    ASSUME NEW s, CacheOK(s)
    PROVE  \A b \in Block : /\ May(s)[b] = s.media[b] \cup {Contents(s)[b]}
                            /\ s.disk[b] \in s.media[b]
                            /\ Contents(s)[b] \in Value /\ s.disk[b] \in Value
<1>1. \A b \in Block : May(s)[b] = s.media[b] \cup {Contents(s)[b]}
  BY DEF May, Contents
<1>2. \A b \in Block : s.disk[b] \in s.media[b] /\ s.disk[b] \in Value
  BY DEF CacheOK, CacheBut, Accounted, CacheType
<1>3. \A b \in Block : Contents(s)[b] \in Value
  BY DEF Contents, CacheOK, CacheBut, Accounted, CacheType
<1> QED BY <1>1, <1>2, <1>3

OnlyAt(s, b, v, w) ==
    /\ Contents(w)[b] = v /\ v \in May(w)[b] /\ May(w)[b] \subseteq May(s)[b] \cup {v}
    /\ \A x \in Block \ {b} : Contents(w)[x] = Contents(s)[x] /\ May(w)[x] = May(s)[x]

(* A write, block by block. *)
LEMMA WrotePoints ==
    ASSUME NEW s, NEW w, NEW b \in Block, NEW v, Wrote(s, b, v, w)
    PROVE  OnlyAt(s, b, v, w)
<1>1. DOMAIN Contents(s) = Block /\ DOMAIN May(s) = Block
  BY DEF Contents, May
<1>2. PICK kept \in SUBSET May(s)[b] : May(w) = [May(s) EXCEPT ![b] = kept \cup {v}]
  BY ZenonT(30) DEF Wrote
<1> QED BY <1>1, <1>2 DEF Wrote, OnlyAt

(* A filesystem just mounted has the superblock the device has. *)
LEMMA MountKeeps ==
    ASSUME MInv, NEW readOnly \in BOOLEAN, Mount(readOnly)
    PROVE  MInv'
<1>1. /\ c' = c /\ got' = got /\ CInv' /\ m.at = "down"
      /\ m'.at = "load" /\ m'.mounting = TRUE /\ m'.read_only = readOnly
      /\ m'.never_write = readOnly /\ m'.sb = c.disk[SUPER] /\ m'.sbDirty = FALSE
      /\ m'.groupsDirty = FALSE /\ m'.synced = FALSE
  BY ZenonT(30) DEF MInv, CInv, Mount
<1>2. c.disk[SUPER] = Contents(c)[SUPER] /\ c.disk[SUPER] \in Marks
  <2>1. SUPER \in Block /\ CacheOK(c) /\ c.dirty = {} /\ May(c)[SUPER] \subseteq Marks
    BY <1>1, SuperAssumption DEF MInv, CInv, Quiet, NotClean
  <2>2. c.disk[SUPER] = Contents(c)[SUPER]
    BY <2>1, CleanReadsAsDisk
  <2> QED BY <2>1, <2>2, StorePoints
<1>3. MountType'
  BY ZenonT(30), <1>2, ValueAssumption DEF Mount, MountType, MountRecord
<1>4. Quiet' /\ NeverDirty'
  BY <1>1 DEF MInv, Quiet, NeverDirty, SecuredBut
<1>5. Loading'
  BY <1>1, <1>2 DEF MInv, Quiet, Loading
<1>6. Flushing' /\ InCache' /\ AllSecured'
  BY <1>1 DEF Flushing, InCache, AllSecured
<1>7. NotClean'
  BY <1>1 DEF MInv, NotClean, Up
<1> QED BY <1>1, <1>3, <1>4, <1>5, <1>6, <1>7 DEF MInv

(* The descriptors are read; a read-write mount sets out to clear the mark. *)
LEMMA ReadGroupsKeeps ==
    ASSUME MInv, ReadGroups
    PROVE  MInv' /\ (m.never_write => c'.disk = c.disk /\ c'.media = c.media)
<1>0. SUPER \in Block /\ GROUPS \in Block /\ Zero \in Marks
  BY SuperAssumption DEF Marks
<1>1. /\ CInv' /\ SameStore(c, c') /\ c'.ok \in BOOLEAN
      /\ got' = IF c'.ok THEN Contents(c)[GROUPS] ELSE got
  BY <1>0, ReadKeeps DEF MInv, ReadGroups
<1>2. /\ Contents(c') = Contents(c) /\ May(c') = May(c)
      /\ c'.dirty = {} /\ c'.disk = c.disk /\ c'.media = c.media
      /\ m.at = "load" /\ m.mounting /\ m.never_write = m.read_only /\ m.sb = Contents(c)[SUPER]
      /\ ~m.sbDirty /\ ~m.groupsDirty
  BY <1>1 DEF SameStore, MInv, Loading, ReadGroups
<1>3. got' \in Value /\ SecuredBut(c', {SUPER}) /\ May(c')[SUPER] \subseteq Marks
  BY <1>1, <1>2 DEF MInv, Quiet, SecuredBut, NotClean, CInv
<1>4. CASE ~c'.ok
  <2>1. m' = [m EXCEPT !.at = "drop"]
    BY <1>4 DEF ReadGroups
  <2>2. /\ MountType' /\ m'.at = "drop" /\ m'.mounting = m.mounting /\ m'.synced = m.synced
        /\ m'.never_write = m.never_write /\ m'.read_only = m.read_only
    BY <2>1 DEF MInv, MountType, MountRecord
  <2>3. Quiet' /\ Loading' /\ Flushing' /\ InCache' /\ AllSecured' /\ NeverDirty' /\ NotClean'
    BY ZenonT(30), <1>2, <1>3, <2>2 DEF MInv, Quiet, Loading, Flushing, InCache, AllSecured, NeverDirty, NotClean, Up
  <2> QED BY <1>1, <1>2, <2>2, <2>3 DEF MInv
<1>5. CASE c'.ok /\ m.read_only
  <2>1. m' = [m EXCEPT !.at = "idle", !.groups = got', !.mounting = FALSE]
    BY <1>5 DEF ReadGroups, InUse
  <2>2. /\ MountType' /\ m'.at = "idle" /\ m'.mounting = FALSE /\ m'.groups = got'
        /\ m'.never_write = m.never_write /\ m'.read_only = m.read_only /\ m'.sb = m.sb
        /\ m'.sbDirty = m.sbDirty /\ m'.groupsDirty = m.groupsDirty /\ m'.synced = m.synced
    BY ZenonT(30), <1>3, <2>1 DEF MInv, MountType, MountRecord
  <2>3. m.read_only /\ m.never_write /\ ~m.synced
    BY <1>2, <1>5 DEF MInv, Flushing
  <2>4. Quiet' /\ Loading' /\ Flushing' /\ NeverDirty' /\ NotClean' /\ AllSecured'
    BY ZenonT(30), <1>2, <1>3, <2>2, <2>3 DEF Quiet, Loading, Flushing, NeverDirty, NotClean, Up, AllSecured
  <2>5. InCache'
    BY <1>1, <1>2, <1>5, <2>2 DEF InCache
  <2> QED BY <1>1, <1>2, <2>2, <2>4, <2>5 DEF MInv
<1>6. CASE c'.ok /\ ~m.read_only
  <2>1. m' = [m EXCEPT !.at = "super", !.groups = got', !.sb = Zero, !.sbDirty = TRUE]
    BY <1>6 DEF ReadGroups, InUse
  <2>2. /\ MountType' /\ m'.at = "super" /\ m'.mounting = m.mounting /\ m'.groups = got'
        /\ m'.never_write = m.never_write /\ m'.read_only = m.read_only /\ m'.sb = Zero
        /\ m'.sbDirty = TRUE /\ m'.groupsDirty = m.groupsDirty /\ m'.synced = m.synced
    BY ZenonT(30), <1>0, <1>3, <2>1 DEF MInv, MountType, MountRecord
  <2>3. Quiet' /\ Loading' /\ Flushing' /\ NeverDirty' /\ NotClean' /\ AllSecured'
    BY ZenonT(30), <1>2, <1>3, <1>6, <2>2 DEF MInv, Quiet, Loading, Flushing, NeverDirty, NotClean, Up, AllSecured
  <2>4. InCache'
    BY <1>1, <1>2, <1>6, <2>2 DEF InCache
  <2> QED BY <1>1, <1>2, <2>2, <2>3, <2>4 DEF MInv
<1> QED BY ZenonT(30), <1>1, <1>4, <1>5, <1>6 DEF MInv, MountType, MountRecord

(* Nothing is mounted on a device whose cache is gone. *)
LEMMA UnmountedKeeps ==
    ASSUME MInv, CInv', m' = Unmounted, c'.dirty = {}, SecuredBut(c', {SUPER}),
           May(c')[SUPER] \subseteq Marks
    PROVE  MInv'
<1>1. /\ MountType' /\ m'.at = "down" /\ m'.mounting = FALSE
  BY ZenonT(30), ValueAssumption DEF Unmounted, MountType, MountRecord, Marks
<1>2. Quiet' /\ Loading' /\ Flushing' /\ InCache' /\ NotClean' /\ AllSecured' /\ NeverDirty'
  BY ZenonT(30), <1>1 DEF Quiet, Loading, Flushing, InCache, NotClean, AllSecured, NeverDirty, Up
<1> QED BY <1>1, <1>2 DEF MInv

(* A mount that fails leaves a medium that is not read as clean by mistake. *)
LEMMA MountFailsKeeps ==
    ASSUME MInv, MountFails
    PROVE  MInv'
<1>1. /\ CInv' /\ c'.dirty = {} /\ m' = Unmounted
      /\ Contents(c') = c.disk /\ May(c') = c.media
  BY DropKeeps DEF MInv, MountFails
<1>2. SecuredBut(c, {SUPER}) /\ May(c)[SUPER] \subseteq Marks /\ CacheOK(c) /\ SUPER \in Block
  BY SuperAssumption DEF MInv, CInv, MountFails, Flushing, Quiet, NotClean
<1>3. SecuredBut(c', {SUPER}) /\ May(c')[SUPER] \subseteq Marks
  BY <1>1, <1>2, StorePoints DEF SecuredBut
<1> QED BY <1>1, <1>3, UnmountedKeeps

(* A power cut at any time. *)
LEMMA StopKeeps ==
    ASSUME MInv, Stop
    PROVE  MInv'
<1>1. /\ CInv' /\ c'.dirty = {} /\ m' = Unmounted
      /\ Contents(c') = c'.disk /\ May(c') = c'.media
      /\ \A b \in Block : c'.disk[b] \in c.media[b] /\ c'.media[b] = {c'.disk[b]}
  BY PowerCutKeeps DEF MInv, Stop
<1>2. May(c)[SUPER] \subseteq Marks /\ CacheOK(c) /\ SUPER \in Block
  BY SuperAssumption DEF MInv, CInv, NotClean
<1>3. SecuredBut(c', {SUPER}) /\ May(c')[SUPER] \subseteq Marks
  BY <1>1, <1>2, StorePoints DEF SecuredBut
<1> QED BY <1>1, <1>3, UnmountedKeeps

(***************************************************************************)
(* The steps of a flush.                                                   *)
(***************************************************************************)
SameBut(d, w) ==
    /\ w.mounting = d.mounting /\ w.read_only = d.read_only /\ w.never_write = d.never_write
    /\ w.mount_state = d.mount_state /\ w.sb = d.sb /\ w.sbDirty = d.sbDirty
    /\ w.groups = d.groups /\ w.groupsDirty = d.groupsDirty /\ w.synced = d.synced

(* Where sync begins: at the first thing that is marked. *)
LEMMA StartType ==
    ASSUME NEW d \in MountRecord
    PROVE  LET w == Start(d)
           IN  /\ w \in MountRecord /\ SameBut(d, w)
               /\ w.at \in {"groups", "super", "sync"}
               /\ w.at = "groups" => d.groupsDirty
               /\ w.at = "super" => d.sbDirty /\ ~d.groupsDirty
               /\ w.at = "sync" => ~d.sbDirty /\ ~d.groupsDirty
  BY DEF Start, MountRecord, SameBut

(* A driver that flushes on has all it does not count as changed in the    *)
(* cache, and neither it nor the medium has a clean mark too early.        *)
LEMMA StartKeeps ==
    ASSUME CInv', NEW d \in MountRecord, m' = Start(d), ~d.never_write,
           ~d.sbDirty => Contents(c')[SUPER] = d.sb,
           ~d.groupsDirty => Contents(c')[GROUPS] = d.groups,
           May(c')[SUPER] \subseteq Marks,
           d.mounting => /\ SecuredBut(c', {SUPER}) /\ ~d.synced /\ ~d.groupsDirty
                         /\ ~d.read_only /\ d.sb = Zero,
           ~d.mounting /\ (~d.read_only \/ d.mount_state # VALID) =>
               May(c')[SUPER] = {Zero} /\ d.sb = Zero
    PROVE  MInv'
<1> DEFINE w == Start(d)
<1>1. /\ w \in MountRecord /\ SameBut(d, w)
      /\ w.at \in {"groups", "super", "sync"}
      /\ w.at = "groups" => d.groupsDirty
      /\ w.at = "super" => d.sbDirty /\ ~d.groupsDirty
      /\ w.at = "sync" => ~d.sbDirty /\ ~d.groupsDirty
  BY ZenonT(30), StartType
<1>2. m' = w
  OBVIOUS
<1> HIDE DEF w
<1>3. MountType'
  BY <1>1, <1>2 DEF MountType
<1>4. Quiet' /\ Loading' /\ InCache' /\ AllSecured' /\ NeverDirty'
  BY ZenonT(30), <1>1, <1>2 DEF SameBut, Quiet, Loading, InCache, AllSecured, NeverDirty
<1>5. Flushing'
  BY ZenonT(30), <1>1, <1>2 DEF SameBut, Flushing
<1>6. NotClean'
  BY <1>1, <1>2 DEF SameBut, NotClean, Up
<1> QED BY <1>3, <1>4, <1>5, <1>6 DEF MInv

(* A flush that ends, with or without success. *)
LEMMA DoneKeeps ==
    ASSUME MInv, CInv', m.at \in {"groups", "super", "sync"}, NEW ok \in BOOLEAN, m' = Done(m, ok),
           Contents(c') = Contents(c),
           \A b \in Block : May(c')[b] = {Contents(c)[b]} \/ (~ok /\ May(c')[b] = May(c)[b]),
           ok => m.at = "sync"
    PROVE  MInv'
<1>0. /\ SUPER \in Block /\ GROUPS \in Block /\ m \in MountRecord /\ ~m.never_write
      /\ May(c)[SUPER] = c.media[SUPER] \cup {Contents(c)[SUPER]}
  BY SuperAssumption, StorePoints DEF MInv, MountType, NeverDirty, CInv
<1>1. /\ May(c')[SUPER] \subseteq Marks
      /\ SecuredBut(c, {SUPER}) => SecuredBut(c', {SUPER})
      /\ ok => SecuredBut(c', {})
      /\ May(c)[SUPER] = {Zero} => May(c')[SUPER] = {Zero}
  BY <1>0 DEF MInv, NotClean, SecuredBut
<1>2. CASE ok \/ ~m.mounting
  <2>1. m' = [m EXCEPT !.at = "idle", !.mounting = FALSE, !.synced = ok]
    BY <1>2 DEF Done
  <2>2. /\ MountType' /\ m'.at = "idle" /\ m'.mounting = FALSE /\ m'.synced = ok
        /\ m'.read_only = m.read_only /\ m'.never_write = m.never_write
        /\ m'.mount_state = m.mount_state /\ m'.sb = m.sb /\ m'.sbDirty = m.sbDirty
        /\ m'.groups = m.groups /\ m'.groupsDirty = m.groupsDirty
    BY ZenonT(30), <1>0, <2>1 DEF MountType, MountRecord
  <2>3. Quiet' /\ Loading' /\ Flushing' /\ NeverDirty'
    BY ZenonT(30), <1>0, <2>2 DEF Quiet, Loading, Flushing, NeverDirty
  <2>4. InCache'
    BY ZenonT(30), <2>2 DEF MInv, InCache
  <2>5. AllSecured'
    BY ZenonT(30), <1>1, <2>2 DEF MInv, AllSecured, Flushing
  <2>6. m.mounting => May(c')[SUPER] = {Zero} /\ m.sb = Zero
    BY ZenonT(30), <1>0, <1>2 DEF MInv, Flushing, InCache
  <2>7. ~m.mounting /\ (~m.read_only \/ m.mount_state # VALID) =>
            May(c')[SUPER] = {Zero} /\ m.sb = Zero
    BY <1>0, <1>1 DEF MInv, NotClean, Up
  <2>8. NotClean'
    BY ZenonT(30), <1>1, <2>2, <2>6, <2>7 DEF NotClean, Up
  <2> QED BY <2>2, <2>3, <2>4, <2>5, <2>8 DEF MInv
<1>3. CASE ~ok /\ m.mounting
  <2>1. m' = [m EXCEPT !.at = "drop"]
    BY <1>3 DEF Done
  <2>2. /\ MountType' /\ m'.at = "drop" /\ m'.mounting = m.mounting /\ m'.synced = m.synced
        /\ m'.never_write = m.never_write
    BY <1>0, <2>1 DEF MountType, MountRecord
  <2>3. Quiet' /\ Loading' /\ Flushing' /\ InCache' /\ AllSecured' /\ NeverDirty' /\ NotClean'
    BY ZenonT(30), <1>0, <1>1, <1>3, <2>2 DEF MInv, Quiet, Loading, Flushing, InCache, AllSecured, NeverDirty, NotClean, Up
  <2> QED BY ZenonT(30), <2>2, <2>3 DEF MInv
<1> QED BY <1>0, <1>2, <1>3 DEF MountRecord

(* What every step of a flush may use of the state it starts in. *)
LEMMA FlushingFacts ==
    ASSUME MInv, m.at \in {"groups", "super", "sync", "idle"}, ~m.never_write
    PROVE  /\ SUPER \in Block /\ GROUPS \in Block /\ SUPER # GROUPS /\ CInv /\ m \in MountRecord
           /\ m.sb \in Value /\ m.groups \in Value
           /\ ~m.sbDirty => Contents(c)[SUPER] = m.sb
           /\ ~m.groupsDirty => Contents(c)[GROUPS] = m.groups
           /\ May(c)[SUPER] \subseteq Marks
           /\ m.mounting => /\ SecuredBut(c, {SUPER}) /\ ~m.synced /\ ~m.groupsDirty
                            /\ ~m.read_only /\ m.sb = Zero /\ m.at \in {"super", "sync"}
           /\ ~m.mounting /\ (~m.read_only \/ m.mount_state # VALID) =>
                  May(c)[SUPER] = {Zero} /\ m.sb = Zero
<1>1. /\ SUPER \in Block /\ GROUPS \in Block /\ SUPER # GROUPS /\ CInv /\ m \in MountRecord
  BY SuperAssumption DEF MInv, MountType
<1>2. m.sb \in Value /\ m.groups \in Value
  BY <1>1, SuperAssumption, ValueAssumption DEF MountRecord, Marks
<1>3. /\ ~m.sbDirty => Contents(c)[SUPER] = m.sb
      /\ ~m.groupsDirty => Contents(c)[GROUPS] = m.groups
  BY DEF MInv, InCache
<1>4. m.mounting => /\ SecuredBut(c, {SUPER}) /\ ~m.synced /\ ~m.groupsDirty
                    /\ ~m.read_only /\ m.sb = Zero /\ m.at \in {"super", "sync"}
  BY DEF MInv, Quiet, Flushing
<1>5. /\ May(c)[SUPER] \subseteq Marks
      /\ ~m.mounting /\ (~m.read_only \/ m.mount_state # VALID) =>
             May(c)[SUPER] = {Zero} /\ m.sb = Zero
  BY DEF MInv, NotClean, Up
<1> QED BY <1>1, <1>2, <1>3, <1>4, <1>5

(* The first part of sync: the group descriptors. *)
LEMMA WriteGroupsKeeps ==
    ASSUME MInv, WriteGroups
    PROVE  MInv'
<1>0. m.at = "groups" /\ ~m.never_write /\ Zeroed(GROUPS, m.groups)
  BY DEF MInv, NeverDirty, WriteGroups
<1>1. /\ SUPER \in Block /\ GROUPS \in Block /\ SUPER # GROUPS /\ CInv /\ m \in MountRecord
      /\ m.groups \in Value
      /\ ~m.sbDirty => Contents(c)[SUPER] = m.sb
      /\ May(c)[SUPER] \subseteq Marks
      /\ ~m.mounting
      /\ (~m.read_only \/ m.mount_state # VALID) => May(c)[SUPER] = {Zero} /\ m.sb = Zero
  BY <1>0, FlushingFacts
<1>2. /\ CInv' /\ c'.ok \in BOOLEAN
      /\ c'.ok => Wrote(c, GROUPS, m.groups, c')
      /\ ~c'.ok => SameStore(c, c')
  BY ZenonT(30), <1>0, <1>1, WriteKeeps
<1>3. CASE c'.ok
  <2> DEFINE d == [m EXCEPT !.groupsDirty = FALSE]
  <2>1. m' = Start(d)
    BY <1>3 DEF WriteGroups
  <2>2. /\ d \in MountRecord /\ d.groupsDirty = FALSE
        /\ d.mounting = m.mounting /\ d.read_only = m.read_only /\ d.never_write = m.never_write
        /\ d.mount_state = m.mount_state /\ d.sb = m.sb /\ d.sbDirty = m.sbDirty
        /\ d.groups = m.groups
    BY ZenonT(30), <1>1 DEF MountRecord
  <2> HIDE DEF d
  <2>3. /\ Contents(c')[GROUPS] = m.groups /\ Contents(c')[SUPER] = Contents(c)[SUPER]
        /\ May(c')[SUPER] = May(c)[SUPER]
    <3>1. OnlyAt(c, GROUPS, m.groups, c')
      BY <1>1, <1>2, <1>3, WrotePoints
    <3> QED BY <1>1, <3>1 DEF OnlyAt
  <2> QED BY ZenonT(30), <1>0, <1>1, <1>2, <2>1, <2>2, <2>3, StartKeeps
<1>4. CASE ~c'.ok
  <2>1. /\ m' = Done(m, FALSE) /\ Contents(c') = Contents(c)
        /\ \A b \in Block : May(c')[b] = May(c)[b]
    BY <1>2, <1>4 DEF WriteGroups, SameStore
  <2> QED BY ZenonT(30), <1>0, <1>2, <2>1, DoneKeeps
<1> QED BY <1>2, <1>3, <1>4

(* The second part of sync: the superblock, with its mark. *)
LEMMA WriteSuperKeeps ==
    ASSUME MInv, WriteSuper
    PROVE  MInv'
<1>0. m.at = "super" /\ ~m.never_write /\ Write(SUPER, m.sb) /\ ~m.groupsDirty
  BY DEF MInv, NeverDirty, WriteSuper, Flushing
<1>1. /\ SUPER \in Block /\ GROUPS \in Block /\ SUPER # GROUPS /\ CInv /\ m \in MountRecord
      /\ m.sb \in Value /\ m.sb \in Marks
      /\ Contents(c)[GROUPS] = m.groups
      /\ May(c)[SUPER] \subseteq Marks
      /\ m.mounting => SecuredBut(c, {SUPER}) /\ ~m.synced /\ ~m.read_only /\ m.sb = Zero
      /\ ~m.mounting /\ (~m.read_only \/ m.mount_state # VALID) =>
             May(c)[SUPER] = {Zero} /\ m.sb = Zero
  BY ZenonT(30), <1>0, FlushingFacts DEF MountRecord
<1>2. /\ CInv' /\ c'.ok \in BOOLEAN
      /\ c'.ok => Wrote(c, SUPER, m.sb, c')
      /\ ~c'.ok => SameStore(c, c')
  BY ZenonT(30), <1>0, <1>1, WriteKeeps
<1>3. CASE c'.ok
  <2> DEFINE d == [m EXCEPT !.sbDirty = FALSE]
  <2>1. m' = Start(d)
    BY <1>3 DEF WriteSuper
  <2>2. /\ d \in MountRecord /\ d.groupsDirty = m.groupsDirty /\ d.synced = m.synced
        /\ d.mounting = m.mounting /\ d.read_only = m.read_only /\ d.never_write = m.never_write
        /\ d.mount_state = m.mount_state /\ d.sb = m.sb /\ d.sbDirty = FALSE
        /\ d.groups = m.groups
    BY ZenonT(30), <1>1 DEF MountRecord
  <2> HIDE DEF d
  <2>3. /\ Contents(c')[SUPER] = m.sb /\ m.sb \in May(c')[SUPER]
        /\ May(c')[SUPER] \subseteq May(c)[SUPER] \cup {m.sb}
        /\ \A x \in Block \ {SUPER} : Contents(c')[x] = Contents(c)[x] /\ May(c')[x] = May(c)[x]
    <3>1. OnlyAt(c, SUPER, m.sb, c')
      BY ZenonT(30), <1>1, <1>2, <1>3, WrotePoints
    <3> QED BY <3>1 DEF OnlyAt
  <2>4. /\ May(c')[SUPER] \subseteq Marks /\ Contents(c')[GROUPS] = m.groups
        /\ SecuredBut(c, {SUPER}) => SecuredBut(c', {SUPER})
        /\ May(c)[SUPER] = {Zero} /\ m.sb = Zero => May(c')[SUPER] = {Zero}
    BY <1>1, <2>3 DEF SecuredBut
  <2> QED BY ZenonT(30), <1>0, <1>1, <1>2, <2>1, <2>2, <2>3, <2>4, StartKeeps
<1>4. CASE ~c'.ok
  <2>1. /\ m' = Done(m, FALSE) /\ Contents(c') = Contents(c)
        /\ \A b \in Block : May(c')[b] = May(c)[b]
    BY <1>2, <1>4 DEF WriteSuper, SameStore
  <2> QED BY ZenonT(30), <1>0, <1>2, <2>1, DoneKeeps
<1> QED BY <1>2, <1>3, <1>4

(* The last part of sync: the cache, and the device is flushed. *)
LEMMA SyncCacheKeeps ==
    ASSUME MInv, SyncCache
    PROVE  MInv'
<1>1. CInv' /\ c'.ok \in BOOLEAN /\ Secured(c, c') /\ m.at = "sync" /\ m' = Done(m, c'.ok)
  BY SyncKeeps DEF MInv, SyncCache
<1> DEFINE ok == c'.ok
<1>2. /\ Contents(c') = Contents(c) /\ ok \in BOOLEAN /\ m' = Done(m, ok)
      /\ \A b \in Block : May(c')[b] = {Contents(c)[b]} \/ (~ok /\ May(c')[b] = May(c)[b])
  BY <1>1 DEF Secured
<1> HIDE DEF ok
<1> QED BY <1>1, <1>2, DoneKeeps

(* Calls of the mounted filesystem that start a flush. *)
LEMMA SyncFsKeeps ==
    ASSUME MInv, SyncFs
    PROVE  MInv'
<1>1. m.at = "idle" /\ ~m.never_write /\ m' = Start(m) /\ c' = c /\ CInv'
  BY DEF SyncFs, MInv, CInv
<1> QED BY <1>1, FlushingFacts, StartKeeps

(* shutdown marks the filesystem clean, and begins to sync. *)
LEMMA ShutdownKeeps ==
    ASSUME MInv, Shutdown
    PROVE  MInv'
<1>1. m.at = "idle" /\ ~m.never_write /\ m' = Start(Shut(m)) /\ c' = c /\ CInv'
  BY DEF Shutdown, MInv, CInv
<1>2. CASE m.read_only
  <2>1. Shut(m) = m
    BY <1>2 DEF Shut
  <2> QED BY <1>1, <2>1, FlushingFacts, StartKeeps
<1>3. CASE ~m.read_only
  <2> DEFINE d == [m EXCEPT !.sb = m.mount_state, !.sbDirty = TRUE, !.read_only = TRUE]
  <2>0. m \in MountRecord
    BY DEF MInv, MountType
  <2>1. m' = Start(d)
    BY <1>1, <1>3 DEF Shut
  <2>2. /\ d \in MountRecord /\ d.groupsDirty = m.groupsDirty /\ d.synced = m.synced
        /\ d.mounting = m.mounting /\ d.read_only = TRUE /\ d.never_write = m.never_write
        /\ d.mount_state = m.mount_state /\ d.sb = m.mount_state /\ d.sbDirty = TRUE
        /\ d.groups = m.groups /\ d.mount_state \in Marks
    BY ZenonT(30), <2>0 DEF MountRecord
  <2> HIDE DEF d
  <2>3. /\ ~m.groupsDirty => Contents(c)[GROUPS] = m.groups
        /\ May(c)[SUPER] = {Zero} /\ ~m.mounting
        /\ May(c)[SUPER] \subseteq Marks
    BY <1>1, <1>3, FlushingFacts
  <2> QED BY ZenonT(30), <1>1, <2>1, <2>2, <2>3, StartKeeps DEF Marks
<1> QED BY <1>2, <1>3, FlushingFacts, <1>1 DEF MountRecord

(* Reads and changes while nothing is being flushed. *)
LEMMA LookKeeps ==
    ASSUME MInv, NEW b \in Block, Look(b)
    PROVE  MInv' /\ (m.never_write => c'.disk = c.disk /\ c'.media = c.media)
<1>1. CInv' /\ SameStore(c, c') /\ m' = m /\ m.at = "idle"
  BY ReadKeeps DEF MInv, Look
<1>2. /\ Contents(c') = Contents(c) /\ May(c') = May(c)
      /\ m.never_write => c'.dirty = {} /\ c'.disk = c.disk /\ c'.media = c.media
  BY <1>1 DEF MInv, NeverDirty, SameStore
<1>3. MountType' /\ Quiet' /\ Loading' /\ Flushing' /\ NeverDirty'
  BY ZenonT(30), <1>1, <1>2 DEF MInv, MountType, Quiet, Loading, Flushing, NeverDirty
<1>4. InCache' /\ NotClean' /\ AllSecured'
  BY ZenonT(30), <1>1, <1>2 DEF MInv, InCache, NotClean, AllSecured, SecuredBut, Up
<1> QED BY <1>1, <1>2, <1>3, <1>4 DEF MInv

(* A call that changes a block, and so marks the descriptors and the
   superblock. *)
LEMMA ChangeKeeps ==
    ASSUME MInv, NEW b \in Block \ {SUPER, GROUPS}, NEW v \in Value, Change(b, v)
    PROVE  MInv' /\ ~m.never_write /\ m'.never_write = m.never_write
<1>0. m.at = "idle" /\ ~m.read_only /\ ~m.never_write /\ ~m.mounting /\ m \in MountRecord
  BY ZenonT(30) DEF Change, MInv, NeverDirty, Flushing, MountType
<1>1. /\ SUPER \in Block /\ GROUPS \in Block
      /\ ~m.sbDirty => Contents(c)[SUPER] = m.sb
      /\ ~m.groupsDirty => Contents(c)[GROUPS] = m.groups
      /\ May(c)[SUPER] \subseteq Marks /\ May(c)[SUPER] = {Zero} /\ m.sb = Zero
  BY <1>0, FlushingFacts
<1>2. /\ CInv' /\ Contents(c')[SUPER] = Contents(c)[SUPER] /\ Contents(c')[GROUPS] = Contents(c)[GROUPS]
      /\ May(c')[SUPER] = May(c)[SUPER]
  <2>1. CInv' /\ c'.ok \in BOOLEAN /\ (c'.ok => Wrote(c, b, v, c')) /\ (~c'.ok => SameStore(c, c'))
    BY ZenonT(30), WriteKeeps DEF MInv, Change
  <2>2. c'.ok => OnlyAt(c, b, v, c')
    BY <2>1, WrotePoints
  <2> QED BY <1>1, <2>1, <2>2 DEF SameStore, OnlyAt
<1>3. /\ MountType' /\ m'.at = "idle" /\ m'.mounting = FALSE /\ m'.synced = FALSE
      /\ m'.read_only = m.read_only /\ m'.never_write = m.never_write
      /\ m'.mount_state = m.mount_state /\ m'.sb = m.sb
      /\ \/ m'.sbDirty = m.sbDirty /\ m'.groups = m.groups /\ m'.groupsDirty = m.groupsDirty
         \/ m'.sbDirty = TRUE /\ m'.groupsDirty = TRUE
  <2>1. CASE m' = [m EXCEPT !.synced = FALSE]
    BY ZenonT(30), <1>0, <2>1 DEF MountType, MountRecord
  <2>2. ASSUME NEW counts \in Value,
               m' = [m EXCEPT !.groups = counts, !.groupsDirty = TRUE, !.sbDirty = TRUE, !.synced = FALSE]
        PROVE  /\ MountType' /\ m'.at = "idle" /\ m'.mounting = FALSE /\ m'.synced = FALSE
               /\ m'.read_only = m.read_only /\ m'.never_write = m.never_write
               /\ m'.mount_state = m.mount_state /\ m'.sb = m.sb
               /\ m'.sbDirty = TRUE /\ m'.groupsDirty = TRUE
    BY ZenonT(30), <1>0, <2>2 DEF MountType, MountRecord
  <2>3. \/ m' = [m EXCEPT !.synced = FALSE]
        \/ \E counts \in Value :
             m' = [m EXCEPT !.groups = counts, !.groupsDirty = TRUE, !.sbDirty = TRUE, !.synced = FALSE]
    BY ZenonT(30) DEF Change
  <2> QED BY ZenonT(30), <2>1, <2>2, <2>3
<1>4. Quiet' /\ Loading' /\ Flushing' /\ NeverDirty' /\ AllSecured'
  BY <1>0, <1>3 DEF Quiet, Loading, Flushing, NeverDirty, AllSecured
<1>5. InCache' /\ NotClean'
  BY <1>0, <1>1, <1>2, <1>3 DEF InCache, NotClean, Up
<1> QED BY <1>0, <1>2, <1>3, <1>4, <1>5 DEF MInv

(* e2fsck leaves a device that holds what it reads. *)
LEMMA E2fsckKeeps ==
    ASSUME MInv, E2fsck
    PROVE  /\ MInv' /\ got' = got /\ c'.ok = TRUE /\ m' = m
           /\ Contents(c') = [Contents(c) EXCEPT ![SUPER] = VALID]
           /\ May(c') = [May(c) EXCEPT ![SUPER] = {VALID}]
<1> DEFINE d == [c.disk EXCEPT ![SUPER] = VALID]
           md == [b \in Block |-> {d[b]}]
<1>0. /\ SUPER \in Block /\ VALID \in Value /\ CacheOK(c) /\ c.disk \in [Block -> Value]
      /\ c.dirty = {} /\ SecuredBut(c, {SUPER}) /\ m.at = "down"
  BY ZenonT(30), SuperAssumption DEF MInv, CInv, CacheOK, CacheBut, Accounted, CacheType, Quiet, E2fsck
<1>1. /\ d \in [Block -> Value] /\ md \in [Block -> SUBSET Value]
      /\ \A b \in Block : d[b] \in md[b]
  BY <1>0
<1>2. c' = Fresh(d, md) /\ got' = got /\ m' = m
  BY DEF E2fsck
<1>3. /\ \A b \in Block \ {SUPER} : d[b] = Contents(c)[b] /\ md[b] = May(c)[b]
      /\ d[SUPER] = VALID /\ md[SUPER] = {VALID}
  <2>1. \A b \in Block : Contents(c)[b] = c.disk[b]
    BY <1>0, CleanReadsAsDisk
  <2> QED BY <1>0, <2>1 DEF SecuredBut
<1>4. DOMAIN Contents(c) = Block /\ DOMAIN May(c) = Block
  BY DEF Contents, May
<1> HIDE DEF d, md
<1>5. LET w == Fresh(d, md)
      IN  /\ CacheOK(w) /\ w.ok = TRUE /\ Cached(w) = {} /\ w.dirty = {}
          /\ w.disk = d /\ w.media = md
          /\ Contents(w) = d /\ May(w) = md
  BY <1>1, FreshKeeps, Zenon
<1>6. CacheOK(c') /\ c'.ok = TRUE /\ c'.dirty = {} /\ Contents(c') = d /\ May(c') = md
  BY <1>2, <1>5
<1>7. d = [Contents(c) EXCEPT ![SUPER] = VALID]
  BY <1>0, <1>1, <1>3, <1>4 DEF Contents
<1>8. md = [May(c) EXCEPT ![SUPER] = {VALID}]
  BY ZenonT(30), <1>0, <1>1, <1>3, <1>4 DEF May
<1>9. SecuredBut(c', {SUPER}) /\ May(c')[SUPER] \subseteq Marks
  BY <1>0, <1>3, <1>6 DEF SecuredBut, Marks
<1>10. CInv' /\ MountType'
  BY <1>2, <1>6 DEF MInv, CInv, MountType
<1>11. Quiet' /\ Loading' /\ Flushing' /\ InCache' /\ NotClean' /\ AllSecured' /\ NeverDirty'
  BY ZenonT(30), <1>0, <1>2, <1>6, <1>9 DEF MInv, Quiet, Loading, Flushing, InCache, NotClean, AllSecured, NeverDirty, Up
<1> QED BY <1>2, <1>6, <1>7, <1>8, <1>10, <1>11 DEF MInv

(* A medium as it comes, with an empty cache. *)
LEMMA InitHolds == MInit => MInv /\ Store!Init
<1> SUFFICES ASSUME MInit PROVE MInv /\ Store!Init
  OBVIOUS
<1>1. PICK d \in [Block -> Value] : c = Fresh(d, [b \in Block |-> {d[b]}])
  BY ZenonT(30) DEF MInit, Init
<1> DEFINE md == [b \in Block |-> {d[b]}]
<1>2. md \in [Block -> SUBSET Value] /\ \A b \in Block : d[b] \in md[b]
  OBVIOUS
<1>3. c = Fresh(d, md) /\ got = Zero /\ m = Unmounted /\ \A b \in Block : md[b] = {d[b]}
  BY <1>1 DEF MInit, Init
<1> HIDE DEF md
<1>4. LET w == Fresh(d, md)
      IN  /\ CacheOK(w) /\ w.ok = TRUE /\ Cached(w) = {} /\ w.dirty = {}
          /\ w.disk = d /\ w.media = md
          /\ Contents(w) = d /\ May(w) = md
  BY <1>2, FreshKeeps, Zenon
<1>5. CacheOK(c) /\ c.ok = TRUE /\ c.dirty = {} /\ c.disk = d /\ Contents(c) = d /\ May(c) = md
  BY <1>3, <1>4
<1>6. CInv /\ MountType /\ m.at = "down" /\ m.mounting = FALSE /\ m.synced = FALSE
  BY ZenonT(30), <1>3, <1>5, ValueAssumption DEF CInv, MountType, MountRecord, Unmounted, Marks
<1>7. SecuredBut(c, {SUPER}) /\ May(c)[SUPER] \subseteq Marks
  BY <1>3, <1>5, SuperAssumption DEF SecuredBut, MInit, Marks
<1>8. Quiet /\ Loading /\ Flushing /\ InCache /\ NotClean /\ AllSecured /\ NeverDirty
  BY ZenonT(30), <1>5, <1>6, <1>7 DEF Quiet, Loading, Flushing, InCache, NotClean, AllSecured, NeverDirty, Up
<1>9. Store!Init
  BY ZenonT(30), <1>2, <1>3, <1>5, ValueAssumption DEF Store!Init, md
<1> QED BY <1>6, <1>8, <1>9 DEF MInv

(* A step that changes nothing keeps everything. *)
LEMMA StutterKeeps ==
    ASSUME MInv, UNCHANGED vars
    PROVE  MInv'
<1>1. c' = c /\ got' = got /\ m' = m
  BY DEF vars
<1> QED BY ZenonT(30), <1>1 DEF MInv, CInv, MountType, Quiet, Loading, Flushing, InCache, NotClean, AllSecured,
                    NeverDirty, SecuredBut, Up

(* Every step keeps the inductive invariant. *)
LEMMA NextKeeps ==
    ASSUME MInv, [MNext]_vars
    PROVE  MInv'
<1>1. CASE MNext
  BY ZenonT(30), <1>1, MountKeeps, ReadGroupsKeeps, MountFailsKeeps, WriteGroupsKeeps, WriteSuperKeeps,
     SyncCacheKeeps, LookKeeps, ChangeKeeps, SyncFsKeeps, ShutdownKeeps, StopKeeps, E2fsckKeeps
     DEF MNext
<1>2. CASE UNCHANGED vars
  BY <1>2, StutterKeeps
<1> QED BY <1>1, <1>2
-----------------------------------------------------------------------------
(***************************************************************************)
(* The cache under the mount is sound whatever the device refuses: it      *)
(* knows its dirty blocks, stays within its capacity, and every clean      *)
(* block it has is as the device's (cache.rs, write_back and make_room).   *)
(***************************************************************************)
THEOREM CacheIsSound == MSpec => [](MInv /\ CacheSound)
<1>1. MInit => MInv
  BY InitHolds
<1>2. MInv /\ [MNext]_vars => MInv'
  BY NextKeeps
<1>3. MInv => CacheSound
  BY SoundCache DEF MInv
<1> QED BY <1>1, <1>2, <1>3, PTL DEF MSpec

(***************************************************************************)
(* The clean mark is on the medium only of a filesystem that was clean     *)
(* when it was mounted and has been shut down: whichever writes fail and   *)
(* whenever the power goes (lib.rs, mount, flush and shutdown).            *)
(***************************************************************************)
THEOREM MarkedCleanOnlyWhenShutDown == MSpec => []CleanMark
<1>1. MInv => CleanMark
  <2> SUFFICES ASSUME MInv PROVE CleanMark
    OBVIOUS
  <2>1. SUPER \in Block /\ CacheOK(c)
    BY SuperAssumption DEF MInv, CInv
  <2>2. May(c)[SUPER] = c.media[SUPER] \cup {Contents(c)[SUPER]} /\ c.disk[SUPER] \in c.media[SUPER]
    BY <2>1, StorePoints
  <2>3. May(c)[SUPER] = {Zero} => c.media[SUPER] = {Zero}
    BY <2>2
  <2> QED BY <2>3 DEF MInv, NotClean, CleanMark, InUseIsNotClean, UncleanStaysUnclean, Up
<1> QED BY <1>1, CacheIsSound, PTL

(***************************************************************************)
(* After a sync or a shutdown that succeeded the medium holds the          *)
(* superblock, the descriptors and every block as they read: a retry after *)
(* any failure included (lib.rs, sync).                                    *)
(***************************************************************************)
THEOREM SyncedBlocksAreOnMedium == MSpec => []SyncedIsOnMedium
<1>1. MInv => SyncedIsOnMedium
  <2> SUFFICES ASSUME MInv, m.synced, m.at = "idle"
               PROVE  /\ \A b \in Block : c.media[b] = {Contents(c)[b]}
                      /\ Contents(c)[SUPER] = m.sb /\ Contents(c)[GROUPS] = m.groups
    BY DEF SyncedIsOnMedium
  <2>1. CacheOK(c) /\ SecuredBut(c, {}) /\ ~m.sbDirty /\ ~m.groupsDirty
    BY DEF MInv, CInv, AllSecured
  <2>2. \A b \in Block : c.media[b] = {Contents(c)[b]}
    <3> SUFFICES ASSUME NEW b \in Block PROVE c.media[b] = {Contents(c)[b]}
      OBVIOUS
    <3>1. /\ May(c)[b] = c.media[b] \cup {Contents(c)[b]} /\ c.disk[b] \in c.media[b]
          /\ May(c)[b] = {Contents(c)[b]}
      BY <2>1, StorePoints DEF SecuredBut
    <3> QED BY <3>1
  <2> QED BY <2>1, <2>2 DEF MInv, InCache
<1> QED BY <1>1, CacheIsSound, PTL

(* A flush writes, and only a driver that may write flushes. *)
LEMMA FlushersMayWrite ==
    ASSUME MInv, WriteGroups \/ WriteSuper \/ SyncCache \/ SyncFs \/ Shutdown
    PROVE  ~m'.never_write
<1>1. ~m.never_write /\ m \in MountRecord
  BY ZenonT(30) DEF MInv, MountType, NeverDirty, WriteGroups, WriteSuper, SyncCache, SyncFs, Shutdown
<1>2. ASSUME NEW d \in MountRecord PROVE Start(d).never_write = d.never_write
  BY DEF Start, MountRecord
<1>3. ASSUME NEW ok PROVE Done(m, ok).never_write = m.never_write
  BY <1>1 DEF Done, MountRecord
<1>4. CASE WriteGroups \/ WriteSuper \/ SyncCache
  <2>1. \A g, x \in BOOLEAN : /\ [m EXCEPT !.groupsDirty = g] \in MountRecord
                               /\ [m EXCEPT !.groupsDirty = g].never_write = m.never_write
                               /\ [m EXCEPT !.sbDirty = x] \in MountRecord
                               /\ [m EXCEPT !.sbDirty = x].never_write = m.never_write
    BY <1>1 DEF MountRecord
  <2> QED BY ZenonT(30), <1>1, <1>2, <1>3, <1>4, <2>1 DEF WriteGroups, WriteSuper, SyncCache
<1>5. CASE SyncFs
  BY <1>1, <1>2, <1>5 DEF SyncFs
<1>6. CASE Shutdown
  <2>1. Shut(m) \in MountRecord /\ Shut(m).never_write = m.never_write
    BY ZenonT(30), <1>1 DEF Shut, MountRecord
  <2> QED BY <1>1, <1>2, <1>6, <2>1 DEF Shutdown
<1> QED BY <1>4, <1>5, <1>6

(***************************************************************************)
(* A filesystem mounted read-only never writes to its device: not when it  *)
(* is mounted, not to make room for a block it reads (lib.rs, never_write).*)
(***************************************************************************)
THEOREM ReadOnlyNeverWrites == MSpec => ReadOnlyWritesNothing
<1> DEFINE Kept == c'.media = c.media /\ c'.disk = c.disk
<1>1. MInv /\ [MNext]_vars => [(m'.at # "down" /\ m'.never_write) => Kept]_vars
  <2> SUFFICES ASSUME MInv, MNext, m'.at # "down", m'.never_write PROVE Kept
    OBVIOUS
  <2>1. CASE \E readOnly \in BOOLEAN : Mount(readOnly)
    BY <2>1 DEF Mount
  <2>2. CASE ReadGroups
    <3>1. m.never_write
      <4>1. m \in MountRecord
        BY DEF MInv, MountType
      <4> QED BY <2>2, <4>1 DEF ReadGroups, InUse, MountRecord
    <3> QED BY <2>2, <3>1, ReadGroupsKeeps
  <2>3. CASE MountFails \/ Stop
    BY <2>3 DEF MountFails, Stop, Unmounted
  <2>4. CASE WriteGroups \/ WriteSuper \/ SyncCache \/ SyncFs \/ Shutdown
    BY <2>4, FlushersMayWrite
  <2>5. CASE \E b \in Block : Look(b)
    BY <2>5, LookKeeps DEF Look
  <2>6. CASE \E b \in Block \ {SUPER, GROUPS}, v \in Value : Change(b, v)
    BY ZenonT(30), <2>6, ChangeKeeps
  <2>7. CASE E2fsck
    BY <2>7 DEF E2fsck
  <2> QED BY <2>1, <2>2, <2>3, <2>4, <2>5, <2>6, <2>7 DEF MNext
<1>2. MSpec => []MInv
  BY CacheIsSound, PTL
<1> QED BY <1>1, <1>2, PTL DEF MSpec, ReadOnlyWritesNothing

-----------------------------------------------------------------------------
(* The calls of the cache are calls of the store. *)
StoreStep == [Store!Next]_<<Contents(c), May(c), got, c.ok>>

(* A call that changes no contents is a read of the store, or one that
   failed. *)
LEMMA SameIsFailOrGet ==
    ASSUME SameStore(c, c'), c'.ok \in BOOLEAN, NEW b \in Block,
           got' = IF c'.ok THEN Contents(c)[b] ELSE got
    PROVE  StoreStep
<1>1. CASE c'.ok
  <2>1. Store!Get(b)
    BY <1>1 DEF Store!Get, SameStore
  <2> QED BY <2>1 DEF StoreStep, Store!Next
<1>2. CASE ~c'.ok
  <2>1. Store!Fail
    BY <1>2 DEF Store!Fail, SameStore
  <2> QED BY <2>1 DEF StoreStep, Store!Next
<1> QED BY <1>1, <1>2

(* A write is a put, or failed. *)
LEMMA WriteIsFailOrPut ==
    ASSUME CInv, NEW b \in Block, NEW v \in Value, Write(b, v) \/ Zeroed(b, v)
    PROVE  StoreStep
<1>0. /\ got' = got /\ c'.ok \in BOOLEAN
      /\ c'.ok => Wrote(c, b, v, c')
      /\ ~c'.ok => SameStore(c, c')
  BY WriteKeeps
<1>1. CASE c'.ok
  <2>1. Store!Put(b, v)
    BY <1>0, <1>1 DEF Store!Put, Wrote
  <2> QED BY <2>1 DEF StoreStep, Store!Next
<1>2. CASE ~c'.ok
  <2>1. Store!Fail
    BY <1>0, <1>2 DEF Store!Fail, SameStore
  <2> QED BY <2>1 DEF StoreStep, Store!Next
<1> QED BY <1>0, <1>1, <1>2

(* The store's values have their types. *)
LEMMA StoreType ==
    ASSUME NEW s, CacheOK(s)
    PROVE  Contents(s) \in [Block -> Value] /\ May(s) \in [Block -> SUBSET Value]
  BY DEF CacheOK, CacheBut, Accounted, CacheType, Contents, May

(* A sync is one of the store, whether or not it went through. *)
LEMMA SyncIsSync ==
    ASSUME CInv, Sync
    PROVE  StoreStep
<1>1. CInv' /\ got' = got /\ c'.ok \in BOOLEAN /\ Secured(c, c')
  BY SyncKeeps
<1>2. May(c') \in [Block -> SUBSET Value]
  BY <1>1, StoreType DEF CInv
<1>3. Store!Sync
  BY <1>1, <1>2 DEF Store!Sync, Secured
<1> QED BY <1>3 DEF StoreStep, Store!Next

(* A new cache after a failed mount or a power cut forgets what was not
   secured. *)
LEMMA LossIsForget ==
    ASSUME CInv, Drop \/ PowerCut
    PROVE  StoreStep
<1>1. /\ CInv' /\ got' = got /\ c'.ok = TRUE
      /\ \A b \in Block : Contents(c')[b] \in May(c')[b] /\ May(c')[b] \subseteq c.media[b]
  <2>1. \A b \in Block : c.disk[b] \in c.media[b]
    BY DEF CInv, CacheOK, CacheBut
  <2>2. CASE Drop
    <3>1. /\ CInv' /\ got' = got /\ c'.ok = TRUE
          /\ Contents(c') = c.disk /\ May(c') = c.media
      BY ZenonT(30), <2>2, DropKeeps
    <3> QED BY <2>1, <3>1
  <2>3. CASE PowerCut
    <3>1. /\ CInv' /\ got' = got /\ c'.ok = TRUE
          /\ Contents(c') = c'.disk /\ May(c') = c'.media
          /\ \A b \in Block : c'.disk[b] \in c.media[b] /\ c'.media[b] = {c'.disk[b]}
      BY ZenonT(30), <2>3, PowerCutKeeps
    <3> QED BY <3>1
  <2> QED BY ZenonT(30), <2>2, <2>3
<1>2. Contents(c') \in [Block -> Value] /\ May(c') \in [Block -> SUBSET Value]
  BY <1>1, StoreType DEF CInv
<1>3. \A b \in Block : c.media[b] \subseteq May(c)[b]
  BY StorePoints DEF CInv
<1>4. Store!Forget
  BY <1>1, <1>2, <1>3 DEF Store!Forget
<1> QED BY <1>4 DEF StoreStep, Store!Next

(* Every step of the filesystem is a step of the store, or none. *)
LEMMA NextIsStoreStep ==
    ASSUME MInv, [MNext]_vars
    PROVE  StoreStep
<1>0. CInv /\ SUPER \in Block /\ GROUPS \in Block /\ m \in MountRecord /\ VALID \in Value
  BY SuperAssumption DEF MInv, MountType
<1>1. CASE \E b \in Block : Read(b)
  BY <1>0, <1>1, ReadKeeps, SameIsFailOrGet
<1>2. CASE \E b \in Block, v \in Value : Write(b, v) \/ Zeroed(b, v)
  BY <1>0, <1>2, WriteIsFailOrPut
<1>3. CASE Sync
  BY <1>0, <1>3, SyncIsSync
<1>4. CASE Drop \/ PowerCut
  BY <1>0, <1>4, LossIsForget
<1>5. CASE UNCHANGED <<c, got>>
  BY <1>5 DEF StoreStep
<1>6. CASE E2fsck
  <2>1. /\ got' = got /\ c'.ok = TRUE
        /\ Contents(c') = [Contents(c) EXCEPT ![SUPER] = VALID]
        /\ May(c') = [May(c) EXCEPT ![SUPER] = {} \cup {VALID}]
    BY ZenonT(30), <1>6, E2fsckKeeps
  <2>2. Store!Put(SUPER, VALID)
    BY ZenonT(30), <2>1 DEF Store!Put
  <2> QED BY <1>0, <2>2 DEF StoreStep, Store!Next
<1>7. m.sb \in Value /\ m.groups \in Value
  BY <1>0, SuperAssumption, ValueAssumption DEF MountRecord, Marks
<1> QED BY ZenonT(30), <1>0, <1>1, <1>2, <1>3, <1>4, <1>5, <1>6, <1>7
        DEF MNext, vars, Mount, ReadGroups, MountFails, WriteGroups, WriteSuper, SyncCache,
            Look, Change, SyncFs, Shutdown, Stop

(***************************************************************************)
(* The cache is a store: through every eviction, early write-back and      *)
(* device error a read gives what was last written, a call that fails      *)
(* changes no block, and a sync that succeeds leaves nothing a power cut   *)
(* can take (cache.rs, all of its calls).                                  *)
(***************************************************************************)
THEOREM CacheIsStore == MSpec => ImplementsStore
<1>1. MInit => Store!Init
  BY InitHolds
<1>2. MInv /\ [MNext]_vars => [Store!Next]_<<Contents(c), May(c), got, c.ok>>
  BY NextIsStoreStep DEF StoreStep
<1>3. MSpec => []MInv
  BY CacheIsSound, PTL
<1> QED BY <1>1, <1>2, <1>3, PTL DEF MSpec, ImplementsStore, Store!Spec
=============================================================================
