---------------------------- MODULE RingsProofs ----------------------------
(***************************************************************************)
(* Proofs about Rings, for every size of the two kinds of ring and every   *)
(* number of TRBs queued at a time.                                        *)
(***************************************************************************)
EXTENDS Rings, Integers, SequenceTheorems, TLAPS

(* The constants: what is queued at a time leaves a place of the ring free *)
(* (a transfer is a few of 255 TRBs), and no event says nothing.           *)
Sizes ==
    /\ LINK_INDEX \in Nat /\ QUEUED \in Nat /\ QUEUED < LINK_INDEX
    /\ TRBS \in Nat \ {0}
    /\ Nothing \notin Body

(* x modulo n, of an x within two laps. *)
Fold(x, n) == IF x < n THEN x ELSE x - n

(* It is the remainder. *)
LEMMA Wraps ==
    ASSUME NEW n \in Nat \ {0}, NEW x \in Nat, x < n + n
    PROVE  x % n = Fold(x, n) /\ Fold(x, n) \in 0..n - 1
BY DEF Fold

-----------------------------------------------------------------------------
(***************************************************************************)
(* The event ring.  Between ERDP and where the controller is lie the       *)
(* events seen since ERDP was written, those not seen, and the one that is *)
(* being written; the cycle bits tell the controller's side of the ring    *)
(* from the rest.                                                          *)
(***************************************************************************)
EventTypes(body, cycles, index, cycle, erdp, seen, enqueue, pcycle, event, q) ==
    /\ body \in [0..TRBS - 1 -> Body \cup {Nothing}] /\ cycles \in [0..TRBS - 1 -> BOOLEAN]
    /\ index \in 0..TRBS - 1 /\ erdp \in 0..TRBS - 1 /\ enqueue \in 0..TRBS - 1
    /\ cycle \in BOOLEAN /\ pcycle \in BOOLEAN
    /\ seen \in Nat /\ event \in Body \cup {Nothing} /\ q \in Seq(Body)

Room(seen, event, q) == Len(q) + seen + (IF event = Nothing THEN 0 ELSE 1) < TRBS
Places(index, erdp, seen, enqueue, q) ==
    index = Fold(erdp + seen, TRBS) /\ enqueue = Fold(index + Len(q), TRBS)
Laps(cycles, index, cycle, enqueue, pcycle, q) ==
    /\ pcycle = (cycle # (index + Len(q) >= TRBS))
    /\ \A i \in 0..TRBS - 1 : cycles[i] = (pcycle = (i < enqueue))
Bodies(body, index, enqueue, event, q) ==
    /\ \A n \in 1..Len(q) : body[Fold(index + n - 1, TRBS)] = q[n]
    /\ event # Nothing => body[enqueue] = event

EventsGood(body, cycles, index, cycle, erdp, seen, enqueue, pcycle, event, q) ==
    /\ EventTypes(body, cycles, index, cycle, erdp, seen, enqueue, pcycle, event, q)
    /\ Room(seen, event, q)
    /\ Places(index, erdp, seen, enqueue, q)
    /\ Laps(cycles, index, cycle, enqueue, pcycle, q)
    /\ Bodies(body, index, enqueue, event, q)

(* The controller begins to write an event: there is a place for it. *)
LEMMA PostGood ==
    ASSUME Sizes, NEW body, NEW cycles, NEW index, NEW cycle, NEW erdp, NEW seen, NEW enqueue,
           NEW pcycle, NEW q, NEW b \in Body,
           EventsGood(body, cycles, index, cycle, erdp, seen, enqueue, pcycle, Nothing, q),
           Fold(enqueue + 1, TRBS) # erdp
    PROVE  EventsGood([body EXCEPT ![enqueue] = b], cycles, index, cycle, erdp, seen, enqueue,
                      pcycle, b, q)
<1> DEFINE new == [body EXCEPT ![enqueue] = b]
<1>1. /\ EventTypes(body, cycles, index, cycle, erdp, seen, enqueue, pcycle, Nothing, q)
      /\ Room(seen, Nothing, q) /\ Places(index, erdp, seen, enqueue, q)
      /\ Laps(cycles, index, cycle, enqueue, pcycle, q) /\ Bodies(body, index, enqueue, Nothing, q)
  BY DEF EventsGood
<1>2. Len(q) \in Nat /\ TRBS \in Nat \ {0} /\ b # Nothing
  BY <1>1, LenProperties DEF EventTypes, Sizes
<1>3. EventTypes(new, cycles, index, cycle, erdp, seen, enqueue, pcycle, b, q)
  BY <1>1 DEF EventTypes
<1>4. Room(seen, b, q)
  <2> DEFINE l == Len(q)
  <2>1. /\ l \in Nat /\ TRBS \in Nat \ {0} /\ seen \in Nat /\ l + seen < TRBS
        /\ index \in 0..TRBS - 1 /\ erdp \in 0..TRBS - 1 /\ enqueue \in 0..TRBS - 1
    BY <1>1, <1>2 DEF Room, EventTypes
  <2>2. index = Fold(erdp + seen, TRBS) /\ enqueue = Fold(index + l, TRBS)
    BY <1>1 DEF Places
  <2> HIDE DEF l
  <2>3. l + seen + 1 < TRBS
    BY <2>1, <2>2 DEF Fold
  <2> QED BY <1>2, <2>3 DEF Room, l
<1>5. Bodies(new, index, enqueue, b, q)
  <2>1. new[enqueue] = b
    BY <1>1 DEF EventTypes
  <2>2. ASSUME NEW n \in 1..Len(q) PROVE new[Fold(index + n - 1, TRBS)] = q[n]
    <3>1. /\ Fold(index + n - 1, TRBS) # enqueue
          /\ Fold(index + n - 1, TRBS) \in 0..TRBS - 1
      BY SMTT(60), <1>1, <1>2 DEF Room, Places, EventTypes, Fold
    <3>2. body[Fold(index + n - 1, TRBS)] = q[n]
      BY <1>1 DEF Bodies
    <3> QED BY <1>1, <3>1, <3>2 DEF EventTypes
  <2> QED BY <2>1, <2>2 DEF Bodies
<1> QED BY <1>1, <1>3, <1>4, <1>5 DEF EventsGood

(* It hands the event over, with its lap's cycle bit. *)
LEMMA PostedGood ==
    ASSUME Sizes, NEW body, NEW cycles, NEW index, NEW cycle, NEW erdp, NEW seen, NEW enqueue,
           NEW pcycle, NEW q, NEW event, event # Nothing, NEW next, NEW np,
           EventsGood(body, cycles, index, cycle, erdp, seen, enqueue, pcycle, event, q),
           next = Fold(enqueue + 1, TRBS), np = IF next = 0 THEN ~pcycle ELSE pcycle
    PROVE  EventsGood(body, [cycles EXCEPT ![enqueue] = pcycle], index, cycle, erdp, seen, next,
                      np, Nothing, Append(q, event))
<1> DEFINE new == [cycles EXCEPT ![enqueue] = pcycle]
           nq == Append(q, event)
<1>1. /\ EventTypes(body, cycles, index, cycle, erdp, seen, enqueue, pcycle, event, q)
      /\ Room(seen, event, q) /\ Places(index, erdp, seen, enqueue, q)
      /\ Laps(cycles, index, cycle, enqueue, pcycle, q) /\ Bodies(body, index, enqueue, event, q)
  BY DEF EventsGood
<1>2. /\ Len(q) \in Nat /\ TRBS \in Nat \ {0} /\ event \in Body
      /\ index \in 0..TRBS - 1 /\ erdp \in 0..TRBS - 1 /\ enqueue \in 0..TRBS - 1 /\ seen \in Nat
      /\ pcycle \in BOOLEAN /\ cycle \in BOOLEAN /\ cycles \in [0..TRBS - 1 -> BOOLEAN]
      /\ q \in Seq(Body)
  BY <1>1, LenProperties DEF EventTypes, Sizes
<1>3. /\ nq \in Seq(Body) /\ Len(nq) = Len(q) + 1 /\ nq[Len(q) + 1] = event
      /\ \A n \in 1..Len(q) : nq[n] = q[n]
  BY <1>2, AppendProperties
<1>4. next \in 0..TRBS - 1 /\ Len(q) + 1 + seen < TRBS
  BY <1>1, <1>2 DEF Fold, Room
<1>5. new \in [0..TRBS - 1 -> BOOLEAN] /\ np \in BOOLEAN
  BY <1>2
<1> HIDE DEF nq
<1>6. Places(index, erdp, seen, next, nq)
  <2> DEFINE l == Len(q)
  <2>1. index = Fold(erdp + seen, TRBS) /\ enqueue = Fold(index + l, TRBS)
    BY <1>1 DEF Places
  <2>2. l \in Nat /\ Len(nq) = l + 1 /\ l + 1 < TRBS
    BY <1>2, <1>3, <1>4
  <2> HIDE DEF l
  <2>3. next = Fold(index + (l + 1), TRBS)
    BY <1>2, <2>1, <2>2 DEF Fold
  <2> QED BY <2>1, <2>2, <2>3 DEF Places
<1>7. Room(seen, Nothing, nq)
  BY <1>3, <1>4, <1>2 DEF Room
<1>8. Bodies(body, index, next, Nothing, nq)
  <2>1. ASSUME NEW n \in 1..Len(q) + 1 PROVE body[Fold(index + n - 1, TRBS)] = nq[n]
    <3>1. CASE n = Len(q) + 1
      BY SMTT(60), <1>1, <1>2, <1>3, <3>1 DEF Bodies, Places
    <3>2. CASE n \in 1..Len(q)
      BY <1>1, <1>3, <3>2 DEF Bodies
    <3> QED BY SMTT(60), <1>2, <3>1, <3>2
  <2> QED BY <1>3, <2>1 DEF Bodies
<1>9. Laps(new, index, cycle, next, np, nq)
  <2>1. np = (cycle # (index + Len(nq) >= TRBS))
    <3> DEFINE l == Len(q)
    <3>1. enqueue = Fold(index + l, TRBS) /\ pcycle = (cycle # (index + l >= TRBS))
      BY <1>1 DEF Laps, Places
    <3>2. l \in Nat /\ Len(nq) = l + 1 /\ l + 1 < TRBS
      BY <1>2, <1>3, <1>4
    <3> HIDE DEF l
    <3>3. next = 0 <=> index + l + 1 = TRBS
      BY <1>2, <3>1, <3>2 DEF Fold
    <3>4. index + Len(nq) >= TRBS <=> index + l >= TRBS \/ next = 0
      BY <1>2, <3>2, <3>3
    <3>5. next = 0 => ~(index + l >= TRBS)
      BY <1>2, <3>2, <3>3
    <3> QED BY <1>2, <3>1, <3>4, <3>5
  <2>2. ASSUME NEW i \in 0..TRBS - 1 PROVE new[i] = (np = (i < next))
    <3>1. new[i] = IF i = enqueue THEN pcycle ELSE cycles[i]
      BY <1>2
    <3>2. cycles[i] = (pcycle = (i < enqueue)) /\ cycles[i] \in BOOLEAN
      BY <1>1, <1>2 DEF Laps
    <3>3. IF next = 0 THEN enqueue = TRBS - 1 ELSE next = enqueue + 1
      BY <1>2 DEF Fold
    <3> QED BY <1>2, <3>1, <3>2, <3>3
  <2> QED BY <2>1, <2>2 DEF Laps
<1>10. EventTypes(body, new, index, cycle, erdp, seen, next, np, Nothing, nq)
  BY <1>1, <1>3, <1>4, <1>5 DEF EventTypes
<1> QED BY <1>6, <1>7, <1>8, <1>9, <1>10 DEF EventsGood, nq

(* The driver takes an event. *)
LEMMA SeenGood ==
    ASSUME Sizes, NEW body, NEW cycles, NEW index, NEW cycle, NEW erdp, NEW seen, NEW enqueue,
           NEW pcycle, NEW q, q # <<>>, NEW event, NEW next,
           EventsGood(body, cycles, index, cycle, erdp, seen, enqueue, pcycle, event, q),
           next = Fold(index + 1, TRBS)
    PROVE  EventsGood(body, cycles, next, IF next = 0 THEN ~cycle ELSE cycle, erdp, seen + 1,
                      enqueue, pcycle, event, Tail(q))
<1> DEFINE nc == IF next = 0 THEN ~cycle ELSE cycle
           nq == Tail(q)
           l == Len(q)
<1>1. /\ EventTypes(body, cycles, index, cycle, erdp, seen, enqueue, pcycle, event, q)
      /\ Room(seen, event, q) /\ Places(index, erdp, seen, enqueue, q)
      /\ Laps(cycles, index, cycle, enqueue, pcycle, q) /\ Bodies(body, index, enqueue, event, q)
  BY DEF EventsGood
<1>2. /\ l \in Nat /\ TRBS \in Nat \ {0}
      /\ index \in 0..TRBS - 1 /\ erdp \in 0..TRBS - 1 /\ enqueue \in 0..TRBS - 1 /\ seen \in Nat
      /\ pcycle \in BOOLEAN /\ cycle \in BOOLEAN /\ q \in Seq(Body)
  BY <1>1, LenProperties DEF EventTypes, Sizes
<1>3. /\ nq \in Seq(Body) /\ l > 0 /\ Len(nq) = l - 1
      /\ \A n \in 1..l - 1 : nq[n] = q[n + 1]
  <2>1. l # 0
    BY <1>2, EmptySeq
  <2>2. nq \in Seq(Body) /\ Len(nq) = l - 1 /\ \A n \in 1..Len(nq) : nq[n] = q[n + 1]
    BY <1>2, HeadTailProperties
  <2> QED BY <1>2, <2>1, <2>2
<1> HIDE DEF nq, l
<1>4. next \in 0..TRBS - 1 /\ nc \in BOOLEAN
  <2>1. next \in 0..TRBS - 1
    BY <1>2 DEF Fold
  <2>2. nc \in BOOLEAN
    BY ZenonT(30), <1>2
  <2> QED BY <2>1, <2>2
<1>5. Room(seen + 1, event, nq)
  <2>1. CASE event = Nothing
    BY <1>1, <1>2, <1>3, <2>1 DEF Room, l
  <2>2. CASE event # Nothing
    BY <1>1, <1>2, <1>3, <2>2 DEF Room, l
  <2> QED BY <2>1, <2>2
<1>6. l + seen < TRBS
  <2>1. CASE event = Nothing
    BY <1>1, <1>2, <2>1 DEF Room, l
  <2>2. CASE event # Nothing
    BY <1>1, <1>2, <2>2 DEF Room, l
  <2> QED BY <2>1, <2>2
<1>7. /\ index = Fold(erdp + seen, TRBS) /\ enqueue = Fold(index + l, TRBS)
      /\ pcycle = (cycle # (index + l >= TRBS))
  BY <1>1 DEF Places, Laps, l
<1>8. Places(next, erdp, seen + 1, enqueue, nq)
  <2>1. next = Fold(erdp + (seen + 1), TRBS)
    BY <1>2, <1>3, <1>6, <1>7 DEF Fold
  <2>2. enqueue = Fold(next + (l - 1), TRBS)
    BY <1>2, <1>3, <1>6, <1>7 DEF Fold
  <2> QED BY <1>3, <2>1, <2>2 DEF Places
<1>9. Laps(cycles, next, nc, enqueue, pcycle, nq)
  <2>1. pcycle = (nc # (next + (l - 1) >= TRBS))
    <3>1. CASE next = 0
      <4>1. index + l >= TRBS /\ ~(next + (l - 1) >= TRBS)
        BY <1>2, <1>3, <1>6, <3>1 DEF Fold
      <4> QED BY SMTT(60), <1>2, <1>7, <3>1, <4>1
    <3>2. CASE next # 0
      <4>1. index + l >= TRBS <=> next + (l - 1) >= TRBS
        BY <1>2, <1>3, <1>6, <3>2 DEF Fold
      <4> QED BY <1>2, <1>7, <3>2, <4>1
    <3> QED BY <3>1, <3>2
  <2> QED BY <1>1, <1>3, <2>1 DEF Laps
<1>10. Bodies(body, next, enqueue, event, nq)
  <2>1. ASSUME NEW n \in 1..l - 1 PROVE body[Fold(next + n - 1, TRBS)] = nq[n]
    <3>1. Fold(next + n - 1, TRBS) = Fold(index + (n + 1) - 1, TRBS)
      BY <1>2, <1>6 DEF Fold
    <3>2. n + 1 \in 1..Len(q)
      BY <1>2 DEF l
    <3>3. body[Fold(index + (n + 1) - 1, TRBS)] = q[n + 1]
      BY <1>1, <3>2 DEF Bodies
    <3> QED BY <1>3, <3>1, <3>3
  <2> QED BY <1>1, <1>3, <2>1 DEF Bodies
<1>11. EventTypes(body, cycles, next, nc, erdp, seen + 1, enqueue, pcycle, event, nq)
  BY SMTT(60), <1>1, <1>2, <1>3, <1>4 DEF EventTypes
<1> QED BY <1>5, <1>8, <1>9, <1>10, <1>11 DEF EventsGood, nq

(* The driver tells the controller how far it is. *)
LEMMA PolledGood ==
    ASSUME Sizes, NEW body, NEW cycles, NEW index, NEW cycle, NEW erdp, NEW seen, NEW enqueue,
           NEW pcycle, NEW q, NEW event,
           EventsGood(body, cycles, index, cycle, erdp, seen, enqueue, pcycle, event, q)
    PROVE  EventsGood(body, cycles, index, cycle, index, 0, enqueue, pcycle, event, q)
<1>1. /\ EventTypes(body, cycles, index, cycle, erdp, seen, enqueue, pcycle, event, q)
      /\ Room(seen, event, q) /\ Places(index, erdp, seen, enqueue, q)
      /\ Laps(cycles, index, cycle, enqueue, pcycle, q) /\ Bodies(body, index, enqueue, event, q)
  BY DEF EventsGood
<1>2. /\ Len(q) \in Nat /\ TRBS \in Nat \ {0} /\ index \in 0..TRBS - 1 /\ seen \in Nat
  BY <1>1, LenProperties DEF EventTypes, Sizes
<1>3. Room(0, event, q)
  <2>1. CASE event = Nothing
    BY <1>1, <1>2, <2>1 DEF Room
  <2>2. CASE event # Nothing
    BY <1>1, <1>2, <2>2 DEF Room
  <2> QED BY <2>1, <2>2
<1>4. Places(index, index, 0, enqueue, q)
  BY <1>1, <1>2 DEF Places, Fold
<1>5. EventTypes(body, cycles, index, cycle, index, 0, enqueue, pcycle, event, q)
  BY <1>1, <1>2 DEF EventTypes
<1> QED BY <1>1, <1>3, <1>4, <1>5 DEF EventsGood

(* Whether the driver finds an event n places on. *)
ShowsAt(cycles, index, cycle, n) ==
    cycles[Fold(index + n, TRBS)] = (cycle # (index + n >= TRBS))

(* The cycle bits show the driver the events that are there. *)
LEMMA CyclesShow ==
    ASSUME Sizes, NEW body, NEW cycles, NEW index, NEW cycle, NEW erdp, NEW seen, NEW enqueue,
           NEW pcycle, NEW q, NEW event, NEW n \in 0..TRBS - 1,
           EventsGood(body, cycles, index, cycle, erdp, seen, enqueue, pcycle, event, q)
    PROVE  /\ (index + n) % TRBS = Fold(index + n, TRBS)
           /\ ShowsAt(cycles, index, cycle, n) <=> n < Len(q)
<1> DEFINE l == Len(q)
           i == Fold(index + n, TRBS)
<1>1. /\ EventTypes(body, cycles, index, cycle, erdp, seen, enqueue, pcycle, event, q)
      /\ Room(seen, event, q) /\ Places(index, erdp, seen, enqueue, q)
      /\ Laps(cycles, index, cycle, enqueue, pcycle, q)
  BY DEF EventsGood
<1>2. /\ l \in Nat /\ TRBS \in Nat \ {0} /\ index \in 0..TRBS - 1 /\ seen \in Nat
      /\ pcycle \in BOOLEAN /\ cycle \in BOOLEAN
  BY <1>1, LenProperties DEF EventTypes, Sizes
<1>3. /\ enqueue = Fold(index + l, TRBS) /\ pcycle = (cycle # (index + l >= TRBS))
      /\ \A j \in 0..TRBS - 1 : cycles[j] = (pcycle = (j < enqueue))
  BY <1>1 DEF Places, Laps
<1>4. l < TRBS
  <2>1. CASE event = Nothing
    BY <1>1, <1>2, <2>1 DEF Room
  <2>2. CASE event # Nothing
    BY <1>1, <1>2, <2>2 DEF Room
  <2> QED BY <2>1, <2>2
<1> HIDE DEF l
<1>5. i \in 0..TRBS - 1 /\ index + n \in Nat /\ index + n < TRBS + TRBS
  BY <1>2 DEF Fold
<1>6. (index + n) % TRBS = i
  BY <1>2, <1>5, Wraps
<1>7. cycles[i] = (pcycle = (i < enqueue))
  BY <1>3, <1>5
<1>8. CASE index + l >= TRBS
  <2>1. pcycle = ~cycle /\ enqueue = index + l - TRBS
    BY <1>2, <1>3, <1>8 DEF Fold
  <2>2. CASE index + n >= TRBS
    <3>1. i < enqueue <=> n < l
      BY <1>2, <1>4, <1>8, <2>1, <2>2 DEF Fold
    <3> QED BY <1>2, <1>6, <1>7, <2>1, <2>2, <3>1 DEF l, ShowsAt
  <2>3. CASE ~(index + n >= TRBS)
    <3>1. ~(i < enqueue) /\ n < l
      BY <1>2, <1>4, <1>8, <2>1, <2>3 DEF Fold
    <3> QED BY <1>2, <1>6, <1>7, <2>1, <2>3, <3>1 DEF l, ShowsAt
  <2> QED BY <2>2, <2>3
<1>9. CASE ~(index + l >= TRBS)
  <2>1. pcycle = cycle /\ enqueue = index + l
    BY <1>2, <1>3, <1>9 DEF Fold
  <2>2. CASE index + n >= TRBS
    <3>1. i < enqueue /\ ~(n < l)
      BY <1>2, <1>4, <1>9, <2>1, <2>2 DEF Fold
    <3> QED BY <1>2, <1>6, <1>7, <2>1, <2>2, <3>1 DEF l, ShowsAt
  <2>3. CASE ~(index + n >= TRBS)
    <3>1. i < enqueue <=> n < l
      BY <1>2, <1>4, <1>9, <2>1, <2>3 DEF Fold
    <3> QED BY <1>2, <1>6, <1>7, <2>1, <2>3, <3>1 DEF l, ShowsAt
  <2> QED BY <2>2, <2>3
<1> QED BY <1>8, <1>9

(* The state of the event ring. *)
EventTypeOK ==
    /\ ering \in [body : [0..TRBS - 1 -> Body \cup {Nothing}], cycles : [0..TRBS - 1 -> BOOLEAN],
                   index : 0..TRBS - 1, cycle : BOOLEAN, erdp : 0..TRBS - 1,
                   reading : BOOLEAN, seen : Nat]
    /\ post \in [enqueue : 0..TRBS - 1, cycle : BOOLEAN, event : Body \cup {Nothing}]
    /\ posted \in Seq(Body)

(* The driver reads an event only when there is one. *)
EInv ==
    /\ EventTypeOK
    /\ EventsGood(ering.body, ering.cycles, ering.index, ering.cycle, ering.erdp, ering.seen,
                  post.enqueue, post.cycle, post.event, posted)
    /\ ering.reading => posted # <<>>

(* The controller writes the body of an event. *)
LEMMA PostKeeps ==
    ASSUME Sizes, EInv, NEW b \in Body, Post(b) PROVE EInv'
<1> DEFINE body == [ering.body EXCEPT ![post.enqueue] = b]
<1>1. EventTypeOK /\ post.event = Nothing
  BY DEF EInv, Post
<1>2. ering' = [ering EXCEPT !.body = body] /\ post' = [post EXCEPT !.event = b] /\ posted' = posted
  BY <1>1 DEF Post, EventTypeOK
<1>3. body \in [0..TRBS - 1 -> Body \cup {Nothing}]
  BY <1>1 DEF EventTypeOK
<1> HIDE DEF body
<1>4. /\ ering'.body = body /\ ering'.cycles = ering.cycles /\ ering'.index = ering.index
      /\ ering'.cycle = ering.cycle /\ ering'.erdp = ering.erdp /\ ering'.seen = ering.seen
      /\ ering'.reading = ering.reading
      /\ post'.enqueue = post.enqueue /\ post'.cycle = post.cycle /\ post'.event = b
  BY <1>1, <1>2 DEF EventTypeOK
<1>5. EventTypeOK'
  BY <1>1, <1>2, <1>3 DEF EventTypeOK
<1>6. Fold(post.enqueue + 1, TRBS) # ering.erdp
  <2>1. post.enqueue + 1 \in Nat /\ post.enqueue + 1 < TRBS + TRBS /\ TRBS \in Nat \ {0}
    BY <1>1 DEF EventTypeOK, Sizes
  <2>2. (post.enqueue + 1) % TRBS = Fold(post.enqueue + 1, TRBS)
    BY <2>1, Wraps
  <2> QED BY <2>2 DEF Post
<1>7. EventsGood(body, ering.cycles, ering.index, ering.cycle, ering.erdp, ering.seen,
                 post.enqueue, post.cycle, b, posted)
  BY <1>1, <1>6, PostGood DEF EInv, body
<1> QED BY <1>2, <1>4, <1>5, <1>7 DEF EInv

(* The controller writes its control dword. *)
LEMMA PostedKeeps ==
    ASSUME Sizes, EInv, Posted PROVE EInv'
<1> DEFINE cycles == [ering.cycles EXCEPT ![post.enqueue] = post.cycle]
           next == (post.enqueue + 1) % TRBS
           cycle == IF next = 0 THEN ~post.cycle ELSE post.cycle
<1>1. EventTypeOK /\ post.event # Nothing
  BY DEF EInv, Posted
<1>2. /\ ering' = [ering EXCEPT !.cycles = cycles]
      /\ post' = [enqueue |-> next, cycle |-> cycle, event |-> Nothing]
      /\ posted' = Append(posted, post.event)
  BY <1>1 DEF Posted, EventTypeOK
<1>3. next = Fold(post.enqueue + 1, TRBS) /\ next \in 0..TRBS - 1
  <2>1. post.enqueue + 1 \in Nat /\ post.enqueue + 1 < TRBS + TRBS /\ TRBS \in Nat \ {0}
    BY <1>1 DEF EventTypeOK, Sizes
  <2> QED BY <2>1, Wraps
<1>4. cycles \in [0..TRBS - 1 -> BOOLEAN] /\ cycle \in BOOLEAN
  BY ZenonT(30), <1>1 DEF EventTypeOK
<1>5. EventsGood(ering.body, cycles, ering.index, ering.cycle, ering.erdp, ering.seen,
                 next, cycle, Nothing, Append(posted, post.event))
  <2>1. EventsGood(ering.body, ering.cycles, ering.index, ering.cycle, ering.erdp,
                   ering.seen, post.enqueue, post.cycle, post.event, posted)
    BY DEF EInv
  <2>2. cycle = IF next = 0 THEN ~post.cycle ELSE post.cycle
    OBVIOUS
  <2> HIDE DEF next, cycle
  <2> QED BY ZenonT(30), <1>1, <1>3, <2>1, <2>2, PostedGood
<1>6. Append(posted, post.event) \in Seq(Body) /\ Append(posted, post.event) # <<>>
  BY <1>1, AppendProperties DEF EventTypeOK
<1> HIDE DEF cycles, next, cycle
<1>7. /\ ering'.body = ering.body /\ ering'.cycles = cycles /\ ering'.index = ering.index
      /\ ering'.cycle = ering.cycle /\ ering'.erdp = ering.erdp /\ ering'.seen = ering.seen
      /\ ering'.reading = ering.reading
      /\ post'.enqueue = next /\ post'.cycle = cycle /\ post'.event = Nothing
  BY <1>1, <1>2 DEF EventTypeOK
<1>8. EventTypeOK'
  BY ZenonT(30), <1>1, <1>2, <1>3, <1>4, <1>6 DEF EventTypeOK
<1> QED BY <1>2, <1>5, <1>6, <1>7, <1>8 DEF EInv

(* The driver finds an event. *)
LEMMA LookKeeps ==
    ASSUME Sizes, EInv, Look PROVE EInv'
<1>1. EventTypeOK /\ 0 \in 0..TRBS - 1
  BY DEF EInv, Sizes
<1>2. /\ ering'.body = ering.body /\ ering'.cycles = ering.cycles
      /\ ering'.index = ering.index /\ ering'.cycle = ering.cycle
      /\ ering'.erdp = ering.erdp /\ ering'.seen = ering.seen
      /\ post' = post /\ posted' = posted
  BY <1>1 DEF Look, EventTypeOK
<1>3. EventTypeOK'
  BY ZenonT(30), <1>1 DEF Look, EventTypeOK
<1>4. ShowsAt(ering.cycles, ering.index, ering.cycle, 0) <=> 0 < Len(posted)
  BY <1>1, CyclesShow DEF EInv
<1>5. /\ Fold(ering.index + 0, TRBS) = ering.index /\ ~(ering.index + 0 >= TRBS)
      /\ ering.cycle \in BOOLEAN
  BY <1>1 DEF EventTypeOK, Fold, Sizes
<1>6. ering.cycles[ering.index] = ering.cycle
  BY DEF Look
<1>7. 0 < Len(posted)
  BY <1>4, <1>5, <1>6 DEF ShowsAt
<1>8. posted # <<>>
  BY <1>7
<1> QED BY <1>2, <1>3, <1>8 DEF EInv

(* The driver has read it. *)
LEMMA SeenKeeps ==
    ASSUME Sizes, EInv, Seen PROVE EInv'
<1> DEFINE next == (ering.index + 1) % TRBS
           cycle == IF next = 0 THEN ~ering.cycle ELSE ering.cycle
<1>1. EventTypeOK /\ posted # <<>>
  BY DEF EInv, Seen
<1>2. /\ ering' = [ering EXCEPT !.index = next, !.cycle = cycle, !.reading = FALSE,
                                  !.seen = ering.seen + 1]
      /\ post' = post /\ posted' = Tail(posted)
  BY <1>1 DEF Seen, EventTypeOK
<1>3. next = Fold(ering.index + 1, TRBS) /\ next \in 0..TRBS - 1
  <2>1. ering.index + 1 \in Nat /\ ering.index + 1 < TRBS + TRBS /\ TRBS \in Nat \ {0}
    BY <1>1 DEF EventTypeOK, Sizes
  <2> QED BY <2>1, Wraps
<1>4. cycle \in BOOLEAN /\ ering.seen + 1 \in Nat
  <2>1. ering.cycle \in BOOLEAN /\ ering.seen \in Nat
    BY <1>1 DEF EventTypeOK
  <2>2. cycle \in BOOLEAN
    BY ZenonT(30), <2>1
  <2> QED BY <2>1, <2>2
<1>5. EventsGood(ering.body, ering.cycles, next, cycle, ering.erdp, ering.seen + 1,
                 post.enqueue, post.cycle, post.event, Tail(posted))
  <2> HIDE DEF next
  <2> QED BY <1>1, <1>3, SeenGood DEF EInv
<1>6. Tail(posted) \in Seq(Body)
  BY <1>1, HeadTailProperties DEF EventTypeOK
<1> HIDE DEF next, cycle
<1>7. /\ ering'.body = ering.body /\ ering'.cycles = ering.cycles /\ ering'.index = next
      /\ ering'.cycle = cycle /\ ering'.erdp = ering.erdp /\ ering'.seen = ering.seen + 1
      /\ ering'.reading = FALSE
  BY <1>1, <1>2 DEF EventTypeOK
<1>8. EventTypeOK'
  BY ZenonT(30), <1>1, <1>2, <1>3, <1>4, <1>6 DEF EventTypeOK
<1> QED BY <1>2, <1>5, <1>7, <1>8 DEF EInv

(* The driver writes ERDP. *)
LEMMA PolledKeeps ==
    ASSUME Sizes, EInv, EventPolled PROVE EInv'
<1>1. EventTypeOK
  BY DEF EInv
<1>2. /\ ering' = [ering EXCEPT !.erdp = ering.index, !.seen = 0]
      /\ post' = post /\ posted' = posted
  BY DEF EventPolled
<1>3. /\ ering'.body = ering.body /\ ering'.cycles = ering.cycles
      /\ ering'.index = ering.index /\ ering'.cycle = ering.cycle
      /\ ering'.erdp = ering.index /\ ering'.seen = 0 /\ ering'.reading = ering.reading
  BY <1>1, <1>2 DEF EventTypeOK
<1>4. EventTypeOK'
  BY ZenonT(30), <1>1, <1>2 DEF EventTypeOK
<1>5. EventsGood(ering.body, ering.cycles, ering.index, ering.cycle, ering.index, 0,
                 post.enqueue, post.cycle, post.event, posted)
  BY PolledGood DEF EInv
<1> QED BY <1>2, <1>3, <1>4, <1>5 DEF EInv

(* An empty ring. *)
LEMMA EventInitGood ==
    ASSUME Sizes, EventInit PROVE EInv
<1>1. EventTypeOK /\ posted = <<>> /\ Len(posted) = 0
  BY EmptySeq DEF EventInit, NewEvents, EventTypeOK, Sizes
<1>2. /\ ering.index = 0 /\ ering.cycle = TRUE /\ ering.erdp = 0 /\ ering.seen = 0
      /\ ering.reading = FALSE /\ post.enqueue = 0 /\ post.cycle = TRUE /\ post.event = Nothing
      /\ \A i \in 0..TRBS - 1 : ering.cycles[i] = FALSE
  BY DEF EventInit, NewEvents
<1>3. Room(0, Nothing, posted) /\ Places(0, 0, 0, 0, posted)
  BY <1>1 DEF Room, Places, Fold, Sizes
<1>4. Laps(ering.cycles, 0, TRUE, 0, TRUE, posted)
  <2>1. ~(0 + Len(posted) >= TRBS)
    BY <1>1 DEF Sizes
  <2>2. \A i \in 0..TRBS - 1 : ~(i < 0)
    BY DEF Sizes
  <2> QED BY ZenonT(30), <1>2, <2>1, <2>2 DEF Laps
<1>5. Bodies(ering.body, 0, 0, Nothing, posted)
  BY <1>1 DEF Bodies
<1>6. EventTypes(ering.body, ering.cycles, 0, TRUE, 0, 0, 0, TRUE, Nothing, posted)
  BY <1>1 DEF EventTypes, EventTypeOK, Sizes
<1> QED BY ZenonT(30), <1>1, <1>2, <1>3, <1>4, <1>5, <1>6 DEF EInv, EventsGood

(* What the driver finds are the events that were posted. *)
LEMMA EventsFound ==
    ASSUME Sizes, EInv PROVE EventsAgree
<1>1. EventTypeOK /\ Len(posted) \in Nat /\ Len(posted) < TRBS
  <2>1. EventTypeOK /\ Len(posted) \in Nat
    BY LenProperties DEF EInv, EventTypeOK
  <2>2. Room(ering.seen, post.event, posted) /\ ering.seen \in Nat
    BY <2>1 DEF EInv, EventsGood, EventTypeOK
  <2>3. CASE post.event = Nothing
    BY <2>1, <2>2, <2>3 DEF Room, Sizes
  <2>4. CASE post.event # Nothing
    BY <2>1, <2>2, <2>4 DEF Room, Sizes
  <2> QED BY <2>1, <2>3, <2>4
<1>2. ASSUME NEW n \in 0..TRBS - 1 PROVE EventAt(n) = Fold(ering.index + n, TRBS)
                                        /\ (Shows(n) <=> n < Len(posted))
  <2>1. /\ (ering.index + n) % TRBS = Fold(ering.index + n, TRBS)
        /\ ShowsAt(ering.cycles, ering.index, ering.cycle, n) <=> n < Len(posted)
    BY CyclesShow DEF EInv
  <2> QED BY <2>1 DEF EventAt, Shows, ShowsAt
<1>3. ASSUME NEW n \in 0..Len(posted) - 1 PROVE ering.body[EventAt(n)] = posted[n + 1]
  <2>1. n + 1 \in 1..Len(posted) /\ n \in 0..TRBS - 1 /\ ering.index + (n + 1) - 1 = ering.index + n
    BY <1>1 DEF Sizes, EventTypeOK
  <2>2. ering.body[Fold(ering.index + (n + 1) - 1, TRBS)] = posted[n + 1]
    BY <2>1 DEF EInv, EventsGood, Bodies
  <2> QED BY <1>2, <2>1, <2>2
<1> QED BY <1>2, <1>3 DEF EventsAgree

-----------------------------------------------------------------------------
(***************************************************************************)
(* The producer ring.  The controller is behind the driver by what is      *)
(* queued; the cycle bits tell the driver's lap from the one before; and   *)
(* what a push has still to write is the end of its dwords: the TRB's      *)
(* body, its control dword and, behind the last TRB, the same of the link. *)
(***************************************************************************)
RingBody == Body \cup {Nothing, NoOpTrb, Link}
Controls == [cycle : BOOLEAN, chain : BOOLEAN]
Dwords == [at : 0..LINK_INDEX, body : RingBody, control : Controls]
Entries == [body : RingBody, chain : BOOLEAN]

RingTypes(body, control, index, cycle, ws, at, hcycle, q) ==
    /\ body \in [0..LINK_INDEX -> RingBody] /\ control \in [0..LINK_INDEX -> Controls]
    /\ index \in 0..LINK_INDEX - 1 /\ cycle \in BOOLEAN /\ ws \in Seq(Dwords)
    /\ at \in 0..LINK_INDEX /\ hcycle \in BOOLEAN /\ q \in Seq(Entries)

(* The place of the TRB pushed last, and what of it is not written. *)
LastPlace(index) == IF index = 0 THEN LINK_INDEX - 1 ELSE index - 1
TrbLeft(index, m) == IF index = 0 THEN m > 2 ELSE m > 0
LinkLeft(index, m) == index = 0 /\ m > 0

(* Where the controller is, the link passed. *)
Beyond(at) == IF at = LINK_INDEX THEN 0 ELSE at
LapOf(at, hcycle) == IF at = LINK_INDEX THEN ~hcycle ELSE hcycle

Follows(index, cycle, a, c, q) ==
    /\ Len(q) <= QUEUED
    /\ index = Fold(a + Len(q), LINK_INDEX) /\ cycle = (c # (a + Len(q) >= LINK_INDEX))

CycleBits(control, index, cycle, m) ==
    /\ \A i \in 0..LINK_INDEX - 1 :
          control[i].cycle = ((cycle = (i < index)) # (i = LastPlace(index) /\ TrbLeft(index, m)))
    /\ control[LINK_INDEX].cycle = (cycle = LinkLeft(index, m))

(* The k-th dword of a push. *)
WriteOK(k, w, control, index, cycle, q) ==
    /\ k \in {1, 2} => w.at = LastPlace(index) /\ q # <<>> /\ w.body = q[Len(q)].body
    /\ k = 1 => w.control = control[LastPlace(index)]
    /\ k = 2 => w.control.cycle = (cycle # (index = 0)) /\ w.control.chain = q[Len(q)].chain
    /\ k \in {3, 4} => w.at = LINK_INDEX
    /\ k = 3 => w.control = control[LINK_INDEX]
    /\ k = 4 => /\ w.control.cycle = ~cycle
                /\ q # <<>> => w.control.chain = q[Len(q)].chain
DwordsOf(index) == IF index = 0 THEN 4 ELSE 2
Pending(control, index, cycle, ws, q) ==
    /\ Len(ws) <= DwordsOf(index)
    /\ \A j \in 1..Len(ws) : WriteOK(DwordsOf(index) - Len(ws) + j, ws[j], control, index, cycle, q)

(* The TRBs that are queued are there, but for one that is being written. *)
Holds(body, control, index, m, a, q) ==
    \A n \in 1..Len(q) :
        \/ n = Len(q) /\ TrbLeft(index, m)
        \/ LET i == Fold(a + n - 1, LINK_INDEX)
           IN  body[i] = q[n].body /\ control[i].chain = q[n].chain

(* A link among them is chained like the TRB before it. *)
Chained(control, index, m, a, q) ==
    a + Len(q) >= LINK_INDEX /\ ~LinkLeft(index, m) =>
        control[LINK_INDEX].chain = q[LINK_INDEX - a].chain

RingGood(body, control, index, cycle, ws, at, hcycle, q) ==
    /\ RingTypes(body, control, index, cycle, ws, at, hcycle, q)
    /\ Follows(index, cycle, Beyond(at), LapOf(at, hcycle), q)
    /\ CycleBits(control, index, cycle, Len(ws))
    /\ Pending(control, index, cycle, ws, q)
    /\ Holds(body, control, index, Len(ws), Beyond(at), q)
    /\ Chained(control, index, Len(ws), Beyond(at), q)

(* What the types say of the lengths and places. *)
LEMMA RingFacts ==
    ASSUME Sizes, NEW body, NEW control, NEW index, NEW cycle, NEW ws, NEW at, NEW hcycle, NEW q,
           RingTypes(body, control, index, cycle, ws, at, hcycle, q)
    PROVE  /\ Len(q) \in Nat /\ Len(ws) \in Nat /\ LINK_INDEX \in Nat \ {0} /\ QUEUED \in Nat
           /\ Beyond(at) \in 0..LINK_INDEX - 1 /\ LapOf(at, hcycle) \in BOOLEAN
           /\ LastPlace(index) \in 0..LINK_INDEX - 1
           /\ index \in 0..LINK_INDEX - 1 /\ cycle \in BOOLEAN
           /\ QUEUED < LINK_INDEX
<1>1. Len(q) \in Nat /\ Len(ws) \in Nat
  BY LenProperties DEF RingTypes
<1>2. LINK_INDEX \in Nat \ {0} /\ QUEUED \in Nat /\ QUEUED < LINK_INDEX
  BY DEF Sizes
<1>3. index \in 0..LINK_INDEX - 1 /\ at \in 0..LINK_INDEX /\ cycle \in BOOLEAN /\ hcycle \in BOOLEAN
  BY DEF RingTypes
<1>4. Beyond(at) \in 0..LINK_INDEX - 1 /\ LastPlace(index) \in 0..LINK_INDEX - 1
  BY <1>2, <1>3 DEF Beyond, LastPlace
<1>5. LapOf(at, hcycle) \in BOOLEAN
  BY ZenonT(30), <1>3 DEF LapOf
<1> QED BY <1>1, <1>2, <1>3, <1>4, <1>5

(* The Set TR Dequeue Pointer command puts the controller where the driver *)
(* is.                                                                     *)
LEMMA DequeueGood ==
    ASSUME Sizes, NEW body, NEW control, NEW index, NEW cycle, NEW at, NEW hcycle, NEW q,
           RingGood(body, control, index, cycle, <<>>, at, hcycle, q)
    PROVE  RingGood(body, control, index, cycle, <<>>, index, cycle, <<>>)
<1>1. RingTypes(body, control, index, cycle, <<>>, at, hcycle, q)
  BY DEF RingGood
<1>2. /\ LINK_INDEX \in Nat \ {0} /\ QUEUED \in Nat /\ index \in 0..LINK_INDEX - 1
      /\ cycle \in BOOLEAN
  BY <1>1, RingFacts
<1>3. Len(<<>>) = 0 /\ <<>> \in Seq(Entries)
  BY EmptySeq
<1>4. Beyond(index) = index /\ LapOf(index, cycle) = cycle
  BY <1>2 DEF Beyond, LapOf
<1>5. RingTypes(body, control, index, cycle, <<>>, index, cycle, <<>>)
  BY <1>1, <1>2, <1>3 DEF RingTypes
<1>6. Follows(index, cycle, index, cycle, <<>>)
  <2>1. ~(index + 0 >= LINK_INDEX) /\ Fold(index + 0, LINK_INDEX) = index
    BY <1>2 DEF Fold
  <2> QED BY <1>2, <1>3, <2>1 DEF Follows
<1>7. Pending(control, index, cycle, <<>>, <<>>)
  BY <1>3 DEF Pending, DwordsOf
<1>8. Holds(body, control, index, 0, index, <<>>) /\ Chained(control, index, 0, index, <<>>)
  BY <1>2, <1>3 DEF Holds, Chained
<1> QED BY <1>3, <1>4, <1>5, <1>6, <1>7, <1>8 DEF RingGood

(* The cycle bits n places on from place a of lap c. *)
BitsFit(control, a, c, n) ==
    control[Fold(a + n, LINK_INDEX)].cycle = (c # (a + n >= LINK_INDEX))

(* The controller may have the TRB n places on. *)
HandedOver(index, m, n, q) == n < Len(q) /\ ~(n = Len(q) - 1 /\ TrbLeft(index, m))

(* They fit where a TRB is queued, but for one that is being written. *)
LEMMA BitsTell ==
    ASSUME Sizes, NEW body, NEW control, NEW index, NEW cycle, NEW ws, NEW at, NEW hcycle, NEW q,
           RingGood(body, control, index, cycle, ws, at, hcycle, q), NEW n \in 0..LINK_INDEX - 1
    PROVE  BitsFit(control, Beyond(at), LapOf(at, hcycle), n)
           <=> HandedOver(index, Len(ws), n, q)
<1> DEFINE a == Beyond(at)
           c == LapOf(at, hcycle)
           l == Len(q)
           i == Fold(a + n, LINK_INDEX)
           left == TrbLeft(index, Len(ws))
<1>1. /\ RingTypes(body, control, index, cycle, ws, at, hcycle, q) /\ Follows(index, cycle, a, c, q)
      /\ CycleBits(control, index, cycle, Len(ws)) /\ Pending(control, index, cycle, ws, q)
  BY DEF RingGood
<1>2. /\ l \in Nat /\ LINK_INDEX \in Nat \ {0} /\ QUEUED \in Nat /\ a \in 0..LINK_INDEX - 1
      /\ c \in BOOLEAN /\ index \in 0..LINK_INDEX - 1 /\ cycle \in BOOLEAN /\ QUEUED < LINK_INDEX
      /\ Len(ws) \in Nat
  BY <1>1, RingFacts
<1>3. /\ l <= QUEUED /\ index = Fold(a + l, LINK_INDEX) /\ cycle = (c # (a + l >= LINK_INDEX))
  BY <1>1 DEF Follows
<1>4. left => l > 0
  <2> SUFFICES ASSUME left PROVE q # <<>>
    BY <1>1, EmptySeq DEF RingTypes
  <2>1. /\ Len(ws) > 0 /\ DwordsOf(index) - Len(ws) + 1 \in {1, 2}
        /\ 1 \in 1..Len(ws)
    BY <1>1, <1>2 DEF TrbLeft, Pending, DwordsOf
  <2> QED BY <1>1, <2>1 DEF Pending, WriteOK
<1>5. i \in 0..LINK_INDEX - 1
  BY <1>2 DEF Fold
<1>6. control[i].cycle = ((cycle = (i < index)) # (i = LastPlace(index) /\ left))
  BY <1>1, <1>5 DEF CycleBits
<1> HIDE DEF a, c, l, left
<1>7. left => (i = LastPlace(index) <=> n = l - 1)
  BY <1>2, <1>3, <1>4 DEF LastPlace, Fold
<1>8. (cycle = (i < index)) = ((c # (a + n >= LINK_INDEX)) = (n < l))
  <2>1. CASE a + l >= LINK_INDEX
    <3>1. cycle = ~c /\ index = a + l - LINK_INDEX
      BY <1>2, <1>3, <2>1 DEF Fold
    <3>2. CASE a + n >= LINK_INDEX
      <4>1. i < index <=> n < l
        BY <1>2, <1>3, <2>1, <3>1, <3>2 DEF Fold
      <4> QED BY <1>2, <3>1, <3>2, <4>1
    <3>3. CASE ~(a + n >= LINK_INDEX)
      <4>1. ~(i < index) /\ n < l
        BY <1>2, <1>3, <2>1, <3>1, <3>3 DEF Fold
      <4> QED BY <1>2, <3>1, <3>3, <4>1
    <3> QED BY <3>2, <3>3
  <2>2. CASE ~(a + l >= LINK_INDEX)
    <3>1. cycle = c /\ index = a + l
      BY <1>2, <1>3, <2>2 DEF Fold
    <3>2. CASE a + n >= LINK_INDEX
      <4>1. i < index /\ ~(n < l)
        BY <1>2, <1>3, <2>2, <3>1, <3>2 DEF Fold
      <4> QED BY <1>2, <3>1, <3>2, <4>1
    <3>3. CASE ~(a + n >= LINK_INDEX)
      <4>1. i < index <=> n < l
        BY <1>2, <1>3, <2>2, <3>1, <3>3 DEF Fold
      <4> QED BY <1>2, <3>1, <3>3, <4>1
    <3> QED BY <3>2, <3>3
  <2> QED BY <2>1, <2>2
<1>9. left /\ n = l - 1 => n < l
  BY <1>2
<1>10. control[i].cycle = (c # (a + n >= LINK_INDEX)) <=> n < l /\ ~(n = l - 1 /\ left)
  <2> HIDE DEF i
  <2>1. CASE left /\ n = l - 1
    BY <1>2, <1>6, <1>7, <1>8, <1>9, <2>1
  <2>2. CASE ~(left /\ n = l - 1)
    BY <1>2, <1>6, <1>7, <1>8, <2>2
  <2> QED BY <2>1, <2>2
<1> QED BY <1>10 DEF BitsFit, HandedOver, a, c, l, left

(* A No Op takes the place of the only TRB that is queued. *)
LEMMA ReplaceGood ==
    ASSUME Sizes, NEW body, NEW control, NEW index, NEW cycle, NEW at, NEW hcycle, NEW q,
           RingGood(body, control, index, cycle, <<>>, at, hcycle, q), Len(q) = 1, ~q[1].chain,
           NEW i, i = LastPlace(index)
    PROVE  RingGood([body EXCEPT ![i] = NoOpTrb],
                    [control EXCEPT ![i] = ControlWord(control[i].cycle, FALSE)], index, cycle, <<>>,
                    at, hcycle, <<[body |-> NoOpTrb, chain |-> FALSE]>>)
<1> DEFINE a == Beyond(at)
           c == LapOf(at, hcycle)
           new == <<[body |-> NoOpTrb, chain |-> FALSE]>>
           nb == [body EXCEPT ![i] = NoOpTrb]
           nc == [control EXCEPT ![i] = ControlWord(control[i].cycle, FALSE)]
<1>1. /\ RingTypes(body, control, index, cycle, <<>>, at, hcycle, q) /\ Follows(index, cycle, a, c, q)
      /\ CycleBits(control, index, cycle, 0) /\ Chained(control, index, 0, a, q)
  BY EmptySeq DEF RingGood
<1>2. /\ LINK_INDEX \in Nat \ {0} /\ QUEUED \in Nat /\ a \in 0..LINK_INDEX - 1
      /\ index \in 0..LINK_INDEX - 1 /\ i \in 0..LINK_INDEX - 1
  BY <1>1, RingFacts
<1>3. new \in Seq(Entries) /\ Len(new) = 1 /\ new[1].body = NoOpTrb /\ new[1].chain = FALSE
  BY DEF Entries, RingBody
<1>4. body \in [0..LINK_INDEX -> RingBody] /\ control \in [0..LINK_INDEX -> Controls]
  BY <1>1 DEF RingTypes
<1>5. control[i] \in Controls /\ LINK_INDEX # i /\ i \in 0..LINK_INDEX /\ LINK_INDEX \in 0..LINK_INDEX
  BY <1>2, <1>4
<1>6. /\ ControlWord(control[i].cycle, FALSE) \in Controls
      /\ ControlWord(control[i].cycle, FALSE).cycle = control[i].cycle
      /\ ControlWord(control[i].cycle, FALSE).chain = FALSE
  BY <1>5 DEF ControlWord, Controls
<1> HIDE DEF new, ControlWord
<1>7. /\ nb \in [0..LINK_INDEX -> RingBody] /\ nb[i] = NoOpTrb
      /\ nc \in [0..LINK_INDEX -> Controls]
      /\ nc[i].cycle = control[i].cycle /\ nc[i].chain = FALSE
      /\ \A j \in 0..LINK_INDEX : j # i => nc[j] = control[j]
  BY SMTT(60), <1>4, <1>5, <1>6 DEF RingBody
<1> HIDE DEF nb, nc
<1>8. \A j \in 0..LINK_INDEX : nc[j].cycle = control[j].cycle
  BY <1>7
<1>9. CycleBits(nc, index, cycle, 0)
  BY <1>1, <1>2, <1>8 DEF CycleBits
<1>10. RingTypes(nb, nc, index, cycle, <<>>, at, hcycle, new)
  BY <1>1, <1>3, <1>7 DEF RingTypes
<1>11. Follows(index, cycle, a, c, new)
  BY <1>1, <1>3 DEF Follows
<1>12. Pending(nc, index, cycle, <<>>, new)
  BY EmptySeq DEF Pending, DwordsOf
<1>13. index = Fold(a + 1, LINK_INDEX)
  BY <1>1 DEF Follows
<1>14. Fold(a + 1 - 1, LINK_INDEX) = i
  BY <1>2, <1>13 DEF Fold, LastPlace
<1>15. Holds(nb, nc, index, 0, a, new)
  <2> SUFFICES ASSUME NEW n \in 1..Len(new)
               PROVE  /\ nb[Fold(a + n - 1, LINK_INDEX)] = new[n].body
                      /\ nc[Fold(a + n - 1, LINK_INDEX)].chain = new[n].chain
    BY DEF Holds
  <2>1. n = 1
    BY <1>3
  <2> QED BY ZenonT(30), <1>3, <1>7, <1>14, <2>1
<1>16. Chained(nc, index, 0, a, new)
  <2> SUFFICES ASSUME a + 1 >= LINK_INDEX, ~LinkLeft(index, 0)
               PROVE  nc[LINK_INDEX].chain = new[LINK_INDEX - a].chain
    BY <1>3 DEF Chained
  <2>1. LINK_INDEX - a = 1
    BY <1>2
  <2>2. control[LINK_INDEX].chain = q[1].chain
    BY <1>1, <2>1 DEF Chained
  <2>3. nc[LINK_INDEX] \in Controls /\ nc[LINK_INDEX] = control[LINK_INDEX]
    BY <1>5, <1>7
  <2>4. nc[LINK_INDEX].chain \in BOOLEAN
    BY <2>3 DEF Controls
  <2> QED BY ZenonT(30), <1>3, <2>1, <2>2, <2>3, <2>4
<1> QED BY <1>9, <1>10, <1>11, <1>12, <1>15, <1>16, EmptySeq DEF RingGood, nb, nc, new

(* The controller takes the TRB it finds. *)
LEMMA TakeGood ==
    ASSUME Sizes, NEW body, NEW control, NEW index, NEW cycle, NEW ws, NEW at, NEW hcycle, NEW q,
           RingGood(body, control, index, cycle, ws, at, hcycle, q),
           BitsFit(control, Beyond(at), LapOf(at, hcycle), 0)
    PROVE  RingGood(body, control, index, cycle, ws, Beyond(at) + 1, LapOf(at, hcycle), Tail(q))
<1> DEFINE a == Beyond(at)
           c == LapOf(at, hcycle)
           l == Len(q)
           nq == Tail(q)
           na == Beyond(a + 1)
           nl == LapOf(a + 1, c)
           left == TrbLeft(index, Len(ws))
<1>1. /\ RingTypes(body, control, index, cycle, ws, at, hcycle, q) /\ Follows(index, cycle, a, c, q)
      /\ CycleBits(control, index, cycle, Len(ws)) /\ Pending(control, index, cycle, ws, q)
      /\ Holds(body, control, index, Len(ws), a, q) /\ Chained(control, index, Len(ws), a, q)
  BY DEF RingGood
<1>2. /\ l \in Nat /\ LINK_INDEX \in Nat \ {0} /\ QUEUED \in Nat /\ a \in 0..LINK_INDEX - 1
      /\ c \in BOOLEAN /\ index \in 0..LINK_INDEX - 1 /\ cycle \in BOOLEAN /\ QUEUED < LINK_INDEX
      /\ Len(ws) \in Nat
  BY <1>1, RingFacts
<1>3. l <= QUEUED /\ index = Fold(a + l, LINK_INDEX) /\ cycle = (c # (a + l >= LINK_INDEX))
  BY <1>1 DEF Follows
<1>4. 0 < l /\ (left => l > 1)
  <2>1. 0 \in 0..LINK_INDEX - 1
    BY <1>2
  <2>2. HandedOver(index, Len(ws), 0, q)
    BY <2>1, BitsTell
  <2> HIDE DEF left, l
  <2>3. 0 < l /\ ~(0 = l - 1 /\ left)
    BY <2>2 DEF HandedOver, left, l
  <2> QED BY <1>2, <2>3
<1>5. /\ nq \in Seq(Entries) /\ Len(nq) = l - 1
      /\ \A n \in 1..l - 1 : nq[n] = q[n + 1]
  <2>1. q \in Seq(Entries) /\ q # <<>>
    BY <1>1, <1>4, EmptySeq DEF RingTypes
  <2>2. nq \in Seq(Entries) /\ Len(nq) = l - 1 /\ \A n \in 1..Len(nq) : nq[n] = q[n + 1]
    BY <2>1, HeadTailProperties
  <2> QED BY <2>2
<1> HIDE DEF nq
<1>6. /\ a + 1 \in 0..LINK_INDEX /\ na = Fold(a + 1, LINK_INDEX) /\ na \in 0..LINK_INDEX - 1
      /\ nl = IF a + 1 = LINK_INDEX THEN ~c ELSE c
      /\ nl \in BOOLEAN
  <2>1. a + 1 \in 0..LINK_INDEX /\ na = Fold(a + 1, LINK_INDEX) /\ na \in 0..LINK_INDEX - 1
    <3> HIDE DEF a
    <3> QED BY <1>2 DEF Beyond, Fold
  <2>2. nl = IF a + 1 = LINK_INDEX THEN ~c ELSE c
    BY DEF LapOf
  <2>3. nl \in BOOLEAN
    BY ZenonT(30), <1>2, <2>2
  <2> QED BY <2>1, <2>2, <2>3
<1>7. RingTypes(body, control, index, cycle, ws, a + 1, c, nq)
  BY SMTT(60), <1>1, <1>2, <1>5, <1>6 DEF RingTypes
<1> HIDE DEF a, c, na, nl, left
<1>8. Follows(index, cycle, na, nl, nq)
  <2>1. index = Fold(na + (l - 1), LINK_INDEX)
    <3> HIDE DEF l
    <3> QED BY <1>2, <1>3, <1>4, <1>6 DEF Fold
  <2>2. cycle = (nl # (na + (l - 1) >= LINK_INDEX))
    <3> HIDE DEF l
    <3>1. CASE a + 1 = LINK_INDEX
      <4>1. a + l >= LINK_INDEX /\ ~(na + (l - 1) >= LINK_INDEX)
        BY <1>2, <1>3, <1>4, <1>6, <3>1 DEF Fold
      <4> QED BY <1>2, <1>3, <1>6, <3>1, <4>1
    <3>2. CASE a + 1 # LINK_INDEX
      <4>1. a + l >= LINK_INDEX <=> na + (l - 1) >= LINK_INDEX
        BY <1>2, <1>3, <1>4, <1>6, <3>2 DEF Fold
      <4> QED BY <1>2, <1>3, <1>6, <3>2, <4>1
    <3> QED BY <3>1, <3>2
  <2>3. l - 1 <= QUEUED
    BY <1>2, <1>3
  <2> QED BY <1>5, <2>1, <2>2, <2>3 DEF Follows
<1>9. ASSUME l > 1 PROVE nq # <<>> /\ nq[Len(nq)] = q[Len(q)]
  <2>1. l - 1 \in 1..l - 1 /\ (l - 1) + 1 = l /\ l - 1 # 0
    <3> HIDE DEF l
    <3> QED BY <1>2, <1>9
  <2> QED BY <1>5, <2>1, EmptySeq
<1>10. nq # <<>> => l > 1
  BY <1>2, <1>4, <1>5, EmptySeq
<1>11. Pending(control, index, cycle, ws, nq)
  <2>1. ASSUME NEW j \in 1..Len(ws)
        PROVE  WriteOK(DwordsOf(index) - Len(ws) + j, ws[j], control, index, cycle, nq)
    <3> DEFINE k == DwordsOf(index) - Len(ws) + j
    <3>1. WriteOK(k, ws[j], control, index, cycle, q)
      BY <1>1 DEF Pending
    <3>2. k \in {1, 2} => left
      BY <1>1, <1>2 DEF left, TrbLeft, DwordsOf, Pending
    <3> HIDE DEF k
    <3>3. k \in {1, 2} => l > 1
      BY <1>4, <3>2
    <3>4. q # <<>>
      BY <1>1, <1>4, EmptySeq DEF RingTypes
    <3>5. ASSUME k \in {1, 2} PROVE nq # <<>> /\ nq[Len(nq)] = q[Len(q)]
      <4>1. l > 1
        BY <3>3, <3>5
      <4> QED BY <1>9, <4>1
    <3> QED BY <1>9, <1>10, <3>1, <3>4, <3>5 DEF WriteOK, k
  <2> QED BY <1>1, <2>1 DEF Pending
<1>12. Holds(body, control, index, Len(ws), na, nq)
  <2> SUFFICES ASSUME NEW n \in 1..l - 1, ~(n = Len(nq) /\ TrbLeft(index, Len(ws)))
               PROVE  /\ body[Fold(na + n - 1, LINK_INDEX)] = nq[n].body
                      /\ control[Fold(na + n - 1, LINK_INDEX)].chain = nq[n].chain
    BY <1>5 DEF Holds
  <2>1. Fold(na + n - 1, LINK_INDEX) = Fold(a + (n + 1) - 1, LINK_INDEX)
    <3> HIDE DEF l
    <3> QED BY <1>2, <1>3, <1>6 DEF Fold
  <2>2. n + 1 \in 1..Len(q) /\ ~(n + 1 = Len(q) /\ TrbLeft(index, Len(ws)))
    BY <1>2, <1>5
  <2>3. /\ body[Fold(a + (n + 1) - 1, LINK_INDEX)] = q[n + 1].body
        /\ control[Fold(a + (n + 1) - 1, LINK_INDEX)].chain = q[n + 1].chain
    BY <1>1, <2>2 DEF Holds
  <2> QED BY <1>5, <2>1, <2>3
<1>13. Chained(control, index, Len(ws), na, nq)
  <2> SUFFICES ASSUME na + (l - 1) >= LINK_INDEX, ~LinkLeft(index, Len(ws))
               PROVE  control[LINK_INDEX].chain = nq[LINK_INDEX - na].chain
    BY <1>5 DEF Chained
  <2>1. /\ na = a + 1 /\ a + l >= LINK_INDEX /\ LINK_INDEX - na \in 1..l - 1
        /\ (LINK_INDEX - na) + 1 = LINK_INDEX - a
    <3> HIDE DEF l
    <3> QED BY <1>2, <1>3, <1>4, <1>6 DEF Fold
  <2>2. control[LINK_INDEX].chain = q[LINK_INDEX - a].chain
    BY <1>1, <2>1 DEF Chained
  <2>3. nq[LINK_INDEX - na] = q[LINK_INDEX - a]
    BY <1>5, <2>1
  <2> QED BY <2>2, <2>3
<1> QED BY <1>1, <1>7, <1>8, <1>11, <1>12, <1>13 DEF RingGood, a, c, na, nl, nq

(* What is left of a push when its k-th dword is written. *)
KthIsNext(index, m, k) ==
    /\ k \in 1..4 /\ m - 1 \in Nat /\ m - 1 <= DwordsOf(index)
    /\ k \in {3, 4} => index = 0
    /\ TrbLeft(index, m) <=> k \in {1, 2}
    /\ TrbLeft(index, m - 1) <=> k = 1
    /\ LinkLeft(index, m) <=> index = 0
    /\ LinkLeft(index, m - 1) <=> index = 0 /\ k # 4

(* It follows from how many there are. *)
LEMMA LeftAfter ==
    ASSUME NEW index \in Nat, NEW m \in Nat, m > 0, m <= DwordsOf(index),
           NEW k, k = DwordsOf(index) - m + 1
    PROVE  KthIsNext(index, m, k)
<1>1. CASE index = 0
  BY <1>1 DEF DwordsOf, TrbLeft, LinkLeft, KthIsNext
<1>2. CASE index # 0
  BY <1>2 DEF DwordsOf, TrbLeft, LinkLeft, KthIsNext
<1> QED BY <1>1, <1>2

(* push writes a dword. *)
LEMMA DwordGood ==
    ASSUME Sizes, NEW body, NEW control, NEW index, NEW cycle, NEW ws, NEW at, NEW hcycle, NEW q,
           RingGood(body, control, index, cycle, ws, at, hcycle, q), ws # <<>>, NEW w, w = Head(ws)
    PROVE  RingGood([body EXCEPT ![w.at] = w.body], [control EXCEPT ![w.at] = w.control], index,
                    cycle, Tail(ws), at, hcycle, q)
<1> DEFINE a == Beyond(at)
           c == LapOf(at, hcycle)
           l == Len(q)
           m == Len(ws)
           dw == DwordsOf(index)
           k == dw - m + 1
           last == LastPlace(index)
           rest == Tail(ws)
           nb == [body EXCEPT ![w.at] = w.body]
           nc == [control EXCEPT ![w.at] = w.control]
<1>1. /\ RingTypes(body, control, index, cycle, ws, at, hcycle, q) /\ Follows(index, cycle, a, c, q)
      /\ CycleBits(control, index, cycle, m) /\ Pending(control, index, cycle, ws, q)
      /\ Holds(body, control, index, m, a, q) /\ Chained(control, index, m, a, q)
  BY DEF RingGood
<1>2. /\ l \in Nat /\ LINK_INDEX \in Nat \ {0} /\ QUEUED \in Nat /\ a \in 0..LINK_INDEX - 1
      /\ c \in BOOLEAN /\ index \in 0..LINK_INDEX - 1 /\ cycle \in BOOLEAN /\ QUEUED < LINK_INDEX
      /\ m \in Nat /\ last \in 0..LINK_INDEX - 1
  BY <1>1, RingFacts
<1>3. l <= QUEUED /\ index = Fold(a + l, LINK_INDEX) /\ m <= dw /\ dw \in Nat
  BY <1>1 DEF Follows, Pending, DwordsOf
<1>4. /\ m > 0 /\ rest \in Seq(Dwords) /\ Len(rest) = m - 1 /\ w = ws[1] /\ w \in Dwords
      /\ \A j \in 1..m - 1 : rest[j] = ws[j + 1]
  <2>1. ws \in Seq(Dwords)
    BY <1>1 DEF RingTypes
  <2>2. m # 0
    BY <2>1, EmptySeq
  <2>3. /\ rest \in Seq(Dwords) /\ Len(rest) = m - 1 /\ Head(ws) \in Dwords /\ w = ws[1]
        /\ \A j \in 1..Len(rest) : rest[j] = ws[j + 1]
    BY <2>1, HeadTailProperties
  <2> QED BY <1>2, <2>2, <2>3
<1>5. WriteOK(k, w, control, index, cycle, q)
  <2>1. 1 \in 1..Len(ws)
    BY <1>2, <1>4
  <2> QED BY <1>1, <1>4, <2>1 DEF Pending
<1> HIDE DEF a, c, l, m, dw, last, rest
<1>6. index \in Nat /\ dw = DwordsOf(index) /\ k = DwordsOf(index) - m + 1
  BY <1>2 DEF dw
<1> HIDE DEF k
<1>7. /\ k \in 1..4 /\ m - 1 \in Nat /\ m - 1 <= dw
      /\ k \in {3, 4} => index = 0
      /\ TrbLeft(index, m) <=> k \in {1, 2}
      /\ TrbLeft(index, m - 1) <=> k = 1
      /\ LinkLeft(index, m) <=> index = 0
      /\ LinkLeft(index, m - 1) <=> index = 0 /\ k # 4
  <2>1. m \in Nat /\ m > 0 /\ m <= DwordsOf(index)
    BY <1>2, <1>3, <1>4, <1>6
  <2>2. KthIsNext(index, m, k)
    BY <1>6, <2>1, LeftAfter
  <2> QED BY <1>6, <2>2 DEF KthIsNext
<1>8. /\ w.at \in 0..LINK_INDEX /\ w.body \in RingBody /\ w.control \in Controls
      /\ w.control.cycle \in BOOLEAN /\ w.control.chain \in BOOLEAN
      /\ body \in [0..LINK_INDEX -> RingBody] /\ control \in [0..LINK_INDEX -> Controls]
  BY <1>1, <1>4 DEF Dwords, Controls, RingTypes
<1>9. /\ nb \in [0..LINK_INDEX -> RingBody] /\ nc \in [0..LINK_INDEX -> Controls]
      /\ nb[w.at] = w.body /\ nc[w.at] = w.control
      /\ \A i \in 0..LINK_INDEX : i # w.at => nb[i] = body[i] /\ nc[i] = control[i]
  BY <1>8
<1> HIDE DEF nb, nc
<1>10. /\ k \in {1, 2} => w.at = last /\ q # <<>> /\ l > 0
       /\ k \in {3, 4} => w.at = LINK_INDEX
  <2>1. /\ k \in {1, 2} => w.at = last /\ q # <<>>
        /\ k \in {3, 4} => w.at = LINK_INDEX
    BY <1>5 DEF WriteOK, last
  <2>2. q # <<>> => l > 0
    BY <1>1, <1>2, EmptySeq DEF l, RingTypes
  <2> QED BY <2>1, <2>2
<1>11. RingTypes(nb, nc, index, cycle, rest, at, hcycle, q)
  BY <1>1, <1>4, <1>9 DEF RingTypes
<1>12. \A i \in 0..LINK_INDEX : i # last /\ i # LINK_INDEX => nb[i] = body[i] /\ nc[i] = control[i]
  BY <1>7, <1>9, <1>10
<1>13. last # LINK_INDEX /\ last \in 0..LINK_INDEX /\ LINK_INDEX \in 0..LINK_INDEX
  BY <1>2
<1>14. k \in {1, 2} => nc[LINK_INDEX] = control[LINK_INDEX]
  BY <1>9, <1>10, <1>13
<1>15. k \in {3, 4} => nb[last] = body[last] /\ nc[last] = control[last]
  BY <1>9, <1>10, <1>13
<1>16. k = 1 => nc[last] = control[last]
  BY <1>5, <1>9, <1>10 DEF WriteOK, last
<1>17. k = 3 => nc[LINK_INDEX] = control[LINK_INDEX]
  BY <1>5, <1>9, <1>10 DEF WriteOK
<1>18. k = 2 => /\ nb[last] = q[l].body /\ nc[last].chain = q[l].chain
                /\ nc[last].cycle = (cycle # (index = 0))
  BY <1>5, <1>9, <1>10 DEF WriteOK, l
<1>19. k = 4 => /\ nc[LINK_INDEX].cycle = ~cycle
                /\ q # <<>> => nc[LINK_INDEX].chain = q[l].chain
  BY <1>5, <1>9, <1>10 DEF WriteOK, l
<1>20. CycleBits(nc, index, cycle, m - 1)
  <2>1. ASSUME NEW i \in 0..LINK_INDEX - 1
        PROVE  nc[i].cycle = ((cycle = (i < index)) # (i = last /\ TrbLeft(index, m - 1)))
    <3>1. control[i].cycle = ((cycle = (i < index)) # (i = last /\ TrbLeft(index, m)))
      BY <1>1 DEF CycleBits, last
    <3>2. CASE i # last
      <4>1. nc[i] = control[i]
        BY <1>2, <1>12, <3>2
      <4> QED BY <3>1, <3>2, <4>1
    <3>3. CASE i = last /\ k = 2
      <4>1. (i < index) = (index # 0)
        BY <1>2, <3>3 DEF last, LastPlace
      <4>2. nc[i].cycle = (cycle # (index = 0)) /\ ~TrbLeft(index, m - 1)
        BY <1>7, <1>18, <3>3
      <4> QED BY <1>2, <4>1, <4>2
    <3>4. CASE i = last /\ k # 2
      <4>1. nc[i] = control[i]
        BY <1>7, <1>15, <1>16, <3>4
      <4>2. TrbLeft(index, m) <=> TrbLeft(index, m - 1)
        BY <1>7, <3>4
      <4> QED BY <3>1, <4>1, <4>2
    <3> QED BY <3>2, <3>3, <3>4
  <2>2. nc[LINK_INDEX].cycle = (cycle = LinkLeft(index, m - 1))
    <3>1. control[LINK_INDEX].cycle = (cycle = LinkLeft(index, m))
      BY <1>1 DEF CycleBits
    <3>2. CASE k = 4
      <4>1. LinkLeft(index, m - 1) = FALSE
        BY <1>7, <3>2 DEF LinkLeft
      <4>2. nc[LINK_INDEX].cycle = ~cycle
        BY <1>19, <3>2
      <4> QED BY ZenonT(30), <1>2, <4>1, <4>2
    <3>3. CASE k # 4
      <4>1. nc[LINK_INDEX] = control[LINK_INDEX]
        BY <1>7, <1>14, <1>17, <3>3
      <4>2. LinkLeft(index, m) = LinkLeft(index, m - 1)
        BY <1>7, <3>3 DEF LinkLeft
      <4> QED BY <3>1, <4>1, <4>2
    <3> QED BY <3>2, <3>3
  <2> QED BY <2>1, <2>2 DEF CycleBits, last
<1>21. Pending(nc, index, cycle, rest, q)
  <2>1. ASSUME NEW j \in 1..m - 1
        PROVE  WriteOK(dw - (m - 1) + j, rest[j], nc, index, cycle, q)
    <3> DEFINE g == dw - (m - 1) + j
    <3>1. j + 1 \in 1..m /\ g = dw - m + (j + 1) /\ g > k /\ g \in Nat
      <4>1. dw \in Nat /\ m \in Nat /\ m <= dw /\ k = dw - m + 1
        BY <1>2, <1>3, <1>6
      <4> QED BY <4>1
    <3>2. WriteOK(g, ws[j + 1], control, index, cycle, q)
      BY <1>1, <3>1 DEF Pending, m, dw
    <3>3. g # 1 /\ (g = 3 => k \in {1, 2})
      BY <1>7, <3>1
    <3>4. rest[j] = ws[j + 1]
      BY <1>4
    <3> HIDE DEF g
    <3>5. WriteOK(g, ws[j + 1], nc, index, cycle, q)
      BY <1>14, <3>2, <3>3 DEF WriteOK
    <3> QED BY <3>4, <3>5 DEF g
  <2> QED BY <1>4, <1>7, <2>1 DEF Pending, dw
<1>22. Holds(nb, nc, index, m - 1, a, q)
  <2> SUFFICES ASSUME NEW n \in 1..l, ~(n = l /\ TrbLeft(index, m - 1))
               PROVE  /\ nb[Fold(a + n - 1, LINK_INDEX)] = q[n].body
                      /\ nc[Fold(a + n - 1, LINK_INDEX)].chain = q[n].chain
    BY DEF Holds, l
  <2> DEFINE i == Fold(a + n - 1, LINK_INDEX)
  <2>1. i \in 0..LINK_INDEX /\ i # LINK_INDEX /\ (i = last <=> n = l)
    BY <1>2, <1>3 DEF Fold, last, LastPlace
  <2>2. ~(n = l /\ TrbLeft(index, m)) => body[i] = q[n].body /\ control[i].chain = q[n].chain
    BY <1>1 DEF Holds, l
  <2> HIDE DEF i
  <2>3. CASE n # l
    BY <1>12, <2>1, <2>2, <2>3 DEF i
  <2>4. CASE n = l /\ k = 2
    BY <1>18, <2>1, <2>4 DEF i
  <2>5. CASE n = l /\ k # 2
    <3>1. k \in {3, 4}
      BY <1>7, <2>5
    <3>2. ~TrbLeft(index, m)
      BY <1>7, <3>1
    <3> QED BY <1>15, <2>1, <2>2, <2>5, <3>1, <3>2 DEF i
  <2> QED BY <2>3, <2>4, <2>5
<1>23. Chained(nc, index, m - 1, a, q)
  <2> SUFFICES ASSUME a + l >= LINK_INDEX, ~LinkLeft(index, m - 1)
               PROVE  nc[LINK_INDEX].chain = q[LINK_INDEX - a].chain
    BY DEF Chained, l
  <2>1. CASE k = 4
    <3>1. index = 0 /\ LINK_INDEX - a = l /\ l > 0
      BY <1>2, <1>3, <1>7, <2>1 DEF Fold
    <3>2. q # <<>>
      BY <3>1, EmptySeq DEF l
    <3> QED BY <1>19, <2>1, <3>1, <3>2
  <2>2. CASE k # 4
    <3>1. nc[LINK_INDEX] = control[LINK_INDEX] /\ ~LinkLeft(index, m)
      BY <1>7, <1>14, <1>17, <2>2
    <3> QED BY <1>1, <3>1 DEF Chained, l
  <2> QED BY <2>1, <2>2
<1> QED BY <1>1, <1>4, <1>11, <1>20, <1>21, <1>22, <1>23 DEF RingGood, a, c, m, nb, nc, rest

(* The dwords of a push of entry e at a place of a lap. *)
Dword(at, body, control) == [at |-> at, body |-> body, control |-> control]
PushOf(ws, e, control, index, cycle) ==
    /\ ws \in Seq(Dwords) /\ Len(ws) = IF index + 1 = LINK_INDEX THEN 4 ELSE 2
    /\ ws[1] = Dword(index, e.body, control[index])
    /\ ws[2] = Dword(index, e.body, ControlWord(cycle, e.chain))
    /\ index + 1 = LINK_INDEX =>
          /\ ws[3] = Dword(LINK_INDEX, Link, control[LINK_INDEX])
          /\ ws[4] = Dword(LINK_INDEX, Link, ControlWord(cycle, e.chain))

(* push begins: the TRB is queued before its first dword is written. *)
LEMMA PushGood ==
    ASSUME Sizes, NEW body, NEW control, NEW index, NEW cycle, NEW at, NEW hcycle, NEW q,
           RingGood(body, control, index, cycle, <<>>, at, hcycle, q), Len(q) < QUEUED,
           NEW e \in Entries, NEW ws, PushOf(ws, e, control, index, cycle),
           NEW ni, ni = IF index + 1 = LINK_INDEX THEN 0 ELSE index + 1,
           NEW ncy, ncy = IF index + 1 = LINK_INDEX THEN ~cycle ELSE cycle
    PROVE  RingGood(body, control, ni, ncy, ws, at, hcycle, Append(q, e))
<1> DEFINE a == Beyond(at)
           c == LapOf(at, hcycle)
           l == Len(q)
           m == Len(ws)
           nq == Append(q, e)
           wraps == index + 1 = LINK_INDEX
<1>1. /\ RingTypes(body, control, index, cycle, <<>>, at, hcycle, q) /\ Follows(index, cycle, a, c, q)
      /\ CycleBits(control, index, cycle, 0) /\ Holds(body, control, index, 0, a, q)
      /\ Chained(control, index, 0, a, q)
  BY EmptySeq DEF RingGood
<1>2. /\ l \in Nat /\ LINK_INDEX \in Nat \ {0} /\ QUEUED \in Nat /\ a \in 0..LINK_INDEX - 1
      /\ c \in BOOLEAN /\ index \in 0..LINK_INDEX - 1 /\ cycle \in BOOLEAN /\ QUEUED < LINK_INDEX
  BY <1>1, RingFacts
<1>3. index = Fold(a + l, LINK_INDEX) /\ cycle = (c # (a + l >= LINK_INDEX)) /\ l < QUEUED
  BY <1>1 DEF Follows
<1>4. /\ nq \in Seq(Entries) /\ Len(nq) = l + 1 /\ nq[l + 1] = e /\ \A n \in 1..l : nq[n] = q[n]
      /\ nq # <<>>
  <2>1. q \in Seq(Entries)
    BY <1>1 DEF RingTypes
  <2>2. /\ nq \in Seq(Entries) /\ Len(nq) = l + 1 /\ nq[l + 1] = e /\ \A n \in 1..l : nq[n] = q[n]
    BY <2>1, AppendProperties
  <2> QED BY <1>2, <2>2, EmptySeq
<1>5. /\ ni \in 0..LINK_INDEX - 1 /\ (ni = 0 <=> wraps) /\ LastPlace(ni) = index
      /\ m = DwordsOf(ni)
  <2>1. ni \in 0..LINK_INDEX - 1 /\ (ni = 0 <=> wraps)
    BY <1>2
  <2>2. LastPlace(ni) = index
    BY <1>2, <2>1 DEF LastPlace
  <2>3. m = DwordsOf(ni)
    BY <2>1 DEF DwordsOf, PushOf
  <2> QED BY <2>1, <2>2, <2>3
<1>6. /\ m = (IF wraps THEN 4 ELSE 2) /\ ws \in Seq(Dwords)
      /\ TrbLeft(ni, m) = TRUE /\ LinkLeft(ni, m) = wraps
      /\ TrbLeft(index, 0) = FALSE /\ LinkLeft(index, 0) = FALSE
  <2>1. m = (IF wraps THEN 4 ELSE 2) /\ ws \in Seq(Dwords)
    BY DEF PushOf
  <2>2. TrbLeft(ni, m) /\ (LinkLeft(ni, m) <=> wraps)
    <3> HIDE DEF m, wraps
    <3>1. CASE wraps
      BY <1>5, <2>1, <3>1 DEF TrbLeft, LinkLeft
    <3>2. CASE ~wraps
      BY <1>5, <2>1, <3>2 DEF TrbLeft, LinkLeft
    <3> QED BY <3>1, <3>2
  <2>3. ~TrbLeft(index, 0) /\ ~LinkLeft(index, 0)
    BY DEF TrbLeft, LinkLeft
  <2> QED BY <2>1, <2>2, <2>3 DEF TrbLeft, LinkLeft
<1>7. ncy \in BOOLEAN /\ (ncy = (cycle # wraps))
  BY ZenonT(30), <1>2
<1> HIDE DEF a, c, l, m, nq, wraps
<1>8. RingTypes(body, control, ni, ncy, ws, at, hcycle, nq)
  BY <1>1, <1>4, <1>5, <1>6, <1>7 DEF RingTypes
<1>9. Follows(ni, ncy, a, c, nq)
  <2>1. ni = Fold(a + (l + 1), LINK_INDEX)
    BY <1>2, <1>3 DEF Fold
  <2>2. /\ a + (l + 1) >= LINK_INDEX <=> a + l >= LINK_INDEX \/ wraps
        /\ wraps => ~(a + l >= LINK_INDEX)
    BY <1>2, <1>3 DEF Fold, wraps
  <2>3. ncy = (c # (a + (l + 1) >= LINK_INDEX))
    <3>1. CASE wraps
      <4>1. ncy = ~cycle /\ a + (l + 1) >= LINK_INDEX /\ ~(a + l >= LINK_INDEX)
        BY <2>2, <3>1 DEF wraps
      <4> QED BY <1>2, <1>3, <4>1
    <3>2. CASE ~wraps
      <4>1. ncy = cycle /\ (a + (l + 1) >= LINK_INDEX <=> a + l >= LINK_INDEX)
        BY <2>2, <3>2 DEF wraps
      <4> QED BY <1>2, <1>3, <4>1
    <3> QED BY <3>1, <3>2
  <2>4. l + 1 <= QUEUED
    BY <1>2, <1>3
  <2> QED BY <1>4, <2>1, <2>3, <2>4 DEF Follows
<1>10. CycleBits(control, ni, ncy, m)
  <2>1. ASSUME NEW i \in 0..LINK_INDEX - 1
        PROVE  control[i].cycle = ((ncy = (i < ni)) # (i = LastPlace(ni) /\ TrbLeft(ni, m)))
    <3>1. control[i].cycle = (cycle = (i < index))
      BY <1>1, <1>2, <1>6 DEF CycleBits
    <3>2. (i = LastPlace(ni) /\ TrbLeft(ni, m)) = (i = index)
      BY <1>5, <1>6
    <3>3. CASE wraps
      <4>1. ncy = ~cycle /\ ~(i < ni) /\ (i < index <=> i # index)
        BY <1>2, <1>5, <1>7, <3>3 DEF wraps
      <4> QED BY <1>2, <3>1, <3>2, <4>1
    <3>4. CASE ~wraps
      <4>1. ncy = cycle /\ (i < ni <=> i < index \/ i = index) /\ ~(index < index)
        BY <1>2, <1>5, <1>7, <3>4 DEF wraps
      <4> QED BY <1>2, <3>1, <3>2, <4>1
    <3> QED BY <3>3, <3>4
  <2>2. control[LINK_INDEX].cycle = (ncy = LinkLeft(ni, m))
    <3>1. control[LINK_INDEX].cycle = (cycle = FALSE)
      BY ZenonT(30), <1>1, <1>6 DEF CycleBits
    <3>2. (ncy = LinkLeft(ni, m)) = (ncy = wraps)
      BY <1>6
    <3> QED BY <1>2, <1>7, <3>1, <3>2 DEF wraps
  <2> QED BY <2>1, <2>2 DEF CycleBits
<1>11. Pending(control, ni, ncy, ws, nq)
  <2>1. nq[Len(nq)] = e /\ nq # <<>> /\ LastPlace(ni) = index
    BY <1>4, <1>5
  <2>2. WriteOK(1, ws[1], control, ni, ncy, nq)
    BY <2>1 DEF WriteOK, PushOf, Dword
  <2>3. WriteOK(2, ws[2], control, ni, ncy, nq)
    <3>1. ws[2] = Dword(index, e.body, ControlWord(cycle, e.chain))
      BY DEF PushOf
    <3>2. /\ ws[2].at = index /\ ws[2].body = e.body /\ ws[2].control.cycle = cycle
          /\ ws[2].control.chain = e.chain
      BY <3>1 DEF Dword, ControlWord
    <3>3. cycle = (ncy # (ni = 0))
      BY <1>2, <1>5, <1>7 DEF wraps
    <3> QED BY <2>1, <3>2, <3>3 DEF WriteOK
  <2>4. ASSUME wraps PROVE WriteOK(3, ws[3], control, ni, ncy, nq)
    BY <2>4 DEF WriteOK, PushOf, Dword, wraps
  <2>5. ASSUME wraps PROVE WriteOK(4, ws[4], control, ni, ncy, nq)
    <3>1. ws[4] = Dword(LINK_INDEX, Link, ControlWord(cycle, e.chain))
      BY <2>5 DEF PushOf, wraps
    <3>2. ws[4].at = LINK_INDEX /\ ws[4].control.cycle = cycle /\ ws[4].control.chain = e.chain
      BY <3>1 DEF Dword, ControlWord
    <3>3. cycle = ~ncy
      BY ZenonT(30), <1>2, <2>5 DEF wraps
    <3> QED BY <2>1, <3>2, <3>3 DEF WriteOK
  <2>6. ASSUME NEW j \in 1..m PROVE WriteOK(DwordsOf(ni) - m + j, ws[j], control, ni, ncy, nq)
    <3>1. DwordsOf(ni) - m + j = j /\ j \in 1..4 /\ (j > 2 => wraps)
      BY <1>5, <1>6
    <3>2. j = 1 \/ j = 2 \/ j = 3 \/ j = 4
      BY <3>1
    <3>3. WriteOK(j, ws[j], control, ni, ncy, nq)
      BY <2>2, <2>3, <2>4, <2>5, <3>1, <3>2
    <3> QED BY <3>1, <3>3
  <2> QED BY <1>5, <1>6, <2>6 DEF Pending, m
<1>12. Holds(body, control, ni, m, a, nq)
  <2> SUFFICES ASSUME NEW n \in 1..l + 1, n # l + 1
               PROVE  /\ body[Fold(a + n - 1, LINK_INDEX)] = nq[n].body
                      /\ control[Fold(a + n - 1, LINK_INDEX)].chain = nq[n].chain
    BY <1>4, <1>6 DEF Holds
  <2>1. n \in 1..l
    BY <1>2
  <2>2. /\ body[Fold(a + n - 1, LINK_INDEX)] = q[n].body
        /\ control[Fold(a + n - 1, LINK_INDEX)].chain = q[n].chain
    BY <1>1, <1>6, <2>1 DEF Holds, l
  <2> QED BY <1>4, <2>1, <2>2
<1>13. Chained(control, ni, m, a, nq)
  <2> SUFFICES ASSUME a + (l + 1) >= LINK_INDEX, ~wraps
               PROVE  control[LINK_INDEX].chain = nq[LINK_INDEX - a].chain
    BY <1>4, <1>6 DEF Chained
  <2>1. a + l >= LINK_INDEX /\ LINK_INDEX - a \in 1..l
    BY <1>2, <1>3 DEF Fold, wraps
  <2>2. control[LINK_INDEX].chain = q[LINK_INDEX - a].chain
    BY <1>1, <1>6, <2>1 DEF Chained, l
  <2> QED BY <1>4, <2>1, <2>2
<1> QED BY <1>8, <1>9, <1>10, <1>11, <1>12, <1>13 DEF RingGood, a, c, m, nq

(* The state of a producer ring. *)
RingTypeOK ==
    /\ ring \in [body : [0..LINK_INDEX -> RingBody], control : [0..LINK_INDEX -> Controls],
                 index : 0..LINK_INDEX - 1, cycle : BOOLEAN]
    /\ hc \in [at : 0..LINK_INDEX, cycle : BOOLEAN]
    /\ writes \in Seq(Dwords) /\ queue \in Seq(Entries)

RInv ==
    /\ RingTypeOK
    /\ RingGood(ring.body, ring.control, ring.index, ring.cycle, writes, hc.at, hc.cycle, queue)

(* The types of the parts of the state. *)
LEMMA RingParts ==
    ASSUME Sizes, RInv
    PROVE  /\ RingTypes(ring.body, ring.control, ring.index, ring.cycle, writes, hc.at, hc.cycle,
                        queue)
           /\ ring.body \in [0..LINK_INDEX -> RingBody] /\ ring.control \in [0..LINK_INDEX -> Controls]
           /\ ring.index \in 0..LINK_INDEX - 1 /\ ring.cycle \in BOOLEAN
           /\ hc.at \in 0..LINK_INDEX /\ hc.cycle \in BOOLEAN
           /\ LINK_INDEX \in Nat \ {0} /\ ring.index \in 0..LINK_INDEX
           /\ LINK_INDEX \in 0..LINK_INDEX
BY DEF RInv, RingGood, RingTypes, RingTypeOK, Sizes

(* A new ring has its link, which the controller does not pass. *)
LEMMA RingInitGood ==
    ASSUME Sizes, RingInit PROVE RInv
<1>1. /\ ring.index = 0 /\ ring.cycle = TRUE /\ hc.at = 0 /\ hc.cycle = TRUE
      /\ writes = <<>> /\ queue = <<>>
      /\ ring.control = [i \in 0..LINK_INDEX |-> ControlWord(FALSE, FALSE)]
  BY DEF RingInit, NewRing
<1>2. ControlWord(FALSE, FALSE) \in Controls /\ ControlWord(FALSE, FALSE).cycle = FALSE
  BY DEF ControlWord, Controls
<1>3. LINK_INDEX \in Nat \ {0} /\ QUEUED \in Nat /\ QUEUED < LINK_INDEX
  BY DEF Sizes
<1> HIDE DEF ControlWord
<1>4. RingTypeOK
  <2>1. [i \in 0..LINK_INDEX |-> IF i = LINK_INDEX THEN Link ELSE Nothing] \in [0..LINK_INDEX -> RingBody]
    BY DEF RingBody
  <2>2. [i \in 0..LINK_INDEX |-> ControlWord(FALSE, FALSE)] \in [0..LINK_INDEX -> Controls]
    BY ZenonT(30), <1>2
  <2>3. ring \in [body : [0..LINK_INDEX -> RingBody], control : [0..LINK_INDEX -> Controls],
                  index : 0..LINK_INDEX - 1, cycle : BOOLEAN]
    BY SMTT(60), <1>3, <2>1, <2>2 DEF RingInit, NewRing
  <2>4. hc \in [at : 0..LINK_INDEX, cycle : BOOLEAN]
    BY <1>3 DEF RingInit
  <2> QED BY <1>1, <2>3, <2>4, EmptySeq DEF RingTypeOK
<1>5. \A i \in 0..LINK_INDEX : ring.control[i].cycle = FALSE
  BY ZenonT(30), <1>1, <1>2
<1>6. Len(<<>>) = 0 /\ Beyond(0) = 0 /\ LapOf(0, TRUE) = TRUE /\ TrbLeft(0, 0) = FALSE /\ LinkLeft(0, 0) = FALSE
  BY <1>3, EmptySeq DEF Beyond, LapOf, TrbLeft, LinkLeft
<1>7. CycleBits(ring.control, 0, TRUE, 0)
  <2>1. \A i \in 0..LINK_INDEX - 1 : ~(i < 0) /\ i \in 0..LINK_INDEX
    BY <1>3
  <2>2. LINK_INDEX \in 0..LINK_INDEX
    BY <1>3
  <2> QED BY ZenonT(30), <1>5, <1>6, <2>1, <2>2 DEF CycleBits
<1>8. Follows(0, TRUE, 0, TRUE, <<>>)
  <2>1. Fold(0 + Len(<<>>), LINK_INDEX) = 0 /\ ~(0 + Len(<<>>) >= LINK_INDEX) /\ Len(<<>>) <= QUEUED
    BY <1>3, <1>6 DEF Fold
  <2> QED BY ZenonT(30), <2>1 DEF Follows
<1>9. Pending(ring.control, 0, TRUE, <<>>, <<>>)
  BY <1>6 DEF Pending, DwordsOf
<1>10. Holds(ring.body, ring.control, 0, 0, 0, <<>>) /\ Chained(ring.control, 0, 0, 0, <<>>)
  BY <1>3, <1>6 DEF Holds, Chained
<1>11. RingTypes(ring.body, ring.control, 0, TRUE, <<>>, 0, TRUE, <<>>)
  BY ZenonT(30), <1>1, <1>4 DEF RingTypeOK, RingTypes
<1> QED BY ZenonT(30), <1>1, <1>4, <1>6, <1>7, <1>8, <1>9, <1>10, <1>11 DEF RInv, RingGood

(* Two sequences of two. *)
LEMMA TwoAndTwo ==
    ASSUME NEW S, NEW a \in S, NEW b \in S, NEW c \in S, NEW d \in S
    PROVE  /\ <<a, b>> \o <<>> \in Seq(S) /\ Len(<<a, b>> \o <<>>) = 2
           /\ (<<a, b>> \o <<>>)[1] = a /\ (<<a, b>> \o <<>>)[2] = b
           /\ <<a, b>> \o <<c, d>> \in Seq(S) /\ Len(<<a, b>> \o <<c, d>>) = 4
           /\ (<<a, b>> \o <<c, d>>)[1] = a /\ (<<a, b>> \o <<c, d>>)[2] = b
           /\ (<<a, b>> \o <<c, d>>)[3] = c /\ (<<a, b>> \o <<c, d>>)[4] = d
OBVIOUS

(* The driver pushes a TRB. *)
LEMMA PushKeeps ==
    ASSUME Sizes, RInv, NEW b \in Body, NEW chain \in BOOLEAN, Push(b, chain) PROVE RInv'
<1> DEFINE wraps == ring.index + 1 = LINK_INDEX
           ni == IF wraps THEN 0 ELSE ring.index + 1
           ncy == IF wraps THEN ~ring.cycle ELSE ring.cycle
           e == [body |-> b, chain |-> chain]
           w1 == Dword(ring.index, b, ring.control[ring.index])
           w2 == Dword(ring.index, b, ControlWord(ring.cycle, chain))
           w3 == Dword(LINK_INDEX, Link, ring.control[LINK_INDEX])
           w4 == Dword(LINK_INDEX, Link, ControlWord(ring.cycle, chain))
           ws == <<w1, w2>> \o (IF wraps THEN <<w3, w4>> ELSE <<>>)
<1>1. /\ ring.control \in [0..LINK_INDEX -> Controls] /\ ring.index \in 0..LINK_INDEX - 1
      /\ ring.cycle \in BOOLEAN /\ LINK_INDEX \in Nat \ {0}
      /\ ring.index \in 0..LINK_INDEX /\ LINK_INDEX \in 0..LINK_INDEX /\ RingTypeOK
  BY RingParts DEF RInv
<1>2. e \in Entries /\ e.body = b /\ e.chain = chain /\ b \in RingBody /\ Link \in RingBody
  BY DEF Entries, RingBody
<1>3. ControlWord(ring.cycle, chain) \in Controls
  BY <1>1 DEF ControlWord, Controls
<1>4. w1 \in Dwords /\ w2 \in Dwords /\ w3 \in Dwords /\ w4 \in Dwords
  <2>1. ring.control[ring.index] \in Controls /\ ring.control[LINK_INDEX] \in Controls
    BY <1>1
  <2> HIDE DEF ControlWord
  <2> QED BY <1>1, <1>2, <1>3, <2>1 DEF Dword, Dwords
<1>5. /\ writes = <<>> /\ writes' = ws /\ queue' = Append(queue, e) /\ hc' = hc
      /\ Len(queue) < QUEUED
      /\ ring' = [ring EXCEPT !.index = ni, !.cycle = ncy]
  BY DEF Push, Write, Dword
<1>6. PushOf(ws, e, ring.control, ring.index, ring.cycle)
  <2> HIDE DEF w1, w2, w3, w4, e
  <2>1. CASE wraps
    <3>1. ws = <<w1, w2>> \o <<w3, w4>>
      BY <2>1
    <3> HIDE DEF ws
    <3>2. ws \in Seq(Dwords) /\ Len(ws) = 4 /\ ws[1] = w1 /\ ws[2] = w2 /\ ws[3] = w3 /\ ws[4] = w4
      BY <1>4, <3>1, TwoAndTwo
    <3> QED BY <1>2, <2>1, <3>2 DEF PushOf, w1, w2, w3, w4
  <2>2. CASE ~wraps
    <3>1. ws = <<w1, w2>> \o <<>>
      BY <2>2
    <3> HIDE DEF ws
    <3>2. ws \in Seq(Dwords) /\ Len(ws) = 2 /\ ws[1] = w1 /\ ws[2] = w2
      BY <1>4, <3>1, TwoAndTwo
    <3> QED BY <1>2, <2>2, <3>2 DEF PushOf, w1, w2
  <2> QED BY <2>1, <2>2
<1>7. ws \in Seq(Dwords) /\ Append(queue, e) \in Seq(Entries)
  <2>1. ws \in Seq(Dwords)
    BY <1>6 DEF PushOf
  <2>2. Append(queue, e) \in Seq(Entries)
    BY <1>1, <1>2, AppendProperties DEF RingTypeOK
  <2> QED BY <2>1, <2>2
<1>8. ni \in 0..LINK_INDEX - 1 /\ ncy \in BOOLEAN
  <2>1. ni \in 0..LINK_INDEX - 1
    BY <1>1
  <2>2. ncy \in BOOLEAN
    BY ZenonT(30), <1>1
  <2> QED BY <2>1, <2>2
<1>9. RingGood(ring.body, ring.control, ni, ncy, ws, hc.at, hc.cycle, Append(queue, e))
  <2>1. RingGood(ring.body, ring.control, ring.index, ring.cycle, <<>>, hc.at, hc.cycle, queue)
    BY <1>5 DEF RInv
  <2>2. /\ ni = IF ring.index + 1 = LINK_INDEX THEN 0 ELSE ring.index + 1
        /\ ncy = IF ring.index + 1 = LINK_INDEX THEN ~ring.cycle ELSE ring.cycle
    OBVIOUS
  <2> HIDE DEF ni, ncy, ws, e
  <2> QED BY <1>2, <1>5, <1>6, <2>1, <2>2, PushGood
<1> HIDE DEF ni, ncy, ws, e
<1>10. /\ ring'.body = ring.body /\ ring'.control = ring.control /\ ring'.index = ni
       /\ ring'.cycle = ncy
  BY <1>1, <1>5 DEF RingTypeOK
<1>11. RingTypeOK'
  BY ZenonT(30), <1>1, <1>5, <1>7, <1>8 DEF RingTypeOK
<1> QED BY <1>5, <1>9, <1>10, <1>11 DEF RInv

(* A dword reaches the memory. *)
LEMMA WriteDwordKeeps ==
    ASSUME Sizes, RInv, WriteDword PROVE RInv'
<1> DEFINE w == Head(writes)
<1>1. writes # <<>> /\ writes \in Seq(Dwords) /\ RingTypeOK
  BY DEF WriteDword, RInv, RingTypeOK
<1>2. w \in Dwords /\ Tail(writes) \in Seq(Dwords)
  BY <1>1, HeadTailProperties
<1>3. w.at \in 0..LINK_INDEX /\ w.body \in RingBody /\ w.control \in Controls
  BY <1>2 DEF Dwords
<1>4. RingGood([ring.body EXCEPT ![w.at] = w.body], [ring.control EXCEPT ![w.at] = w.control],
               ring.index, ring.cycle, Tail(writes), hc.at, hc.cycle, queue)
  <2>1. RingGood(ring.body, ring.control, ring.index, ring.cycle, writes, hc.at, hc.cycle, queue)
    BY DEF RInv
  <2>2. w = Head(writes)
    OBVIOUS
  <2> HIDE DEF w
  <2> QED BY <1>1, <2>1, <2>2, DwordGood
<1>5. /\ ring' = [ring EXCEPT !.body[w.at] = w.body, !.control[w.at] = w.control]
      /\ writes' = Tail(writes) /\ hc' = hc /\ queue' = queue
  BY DEF WriteDword
<1> HIDE DEF w
<1>6. /\ ring'.body = [ring.body EXCEPT ![w.at] = w.body]
      /\ ring'.control = [ring.control EXCEPT ![w.at] = w.control]
      /\ ring'.index = ring.index /\ ring'.cycle = ring.cycle
  BY <1>1, <1>5 DEF RingTypeOK
<1>7. RingTypeOK'
  <2>1. /\ [ring.body EXCEPT ![w.at] = w.body] \in [0..LINK_INDEX -> RingBody]
        /\ [ring.control EXCEPT ![w.at] = w.control] \in [0..LINK_INDEX -> Controls]
    BY <1>1, <1>3 DEF RingTypeOK
  <2> QED BY ZenonT(30), <1>1, <1>2, <1>5, <2>1 DEF RingTypeOK
<1> QED BY <1>4, <1>5, <1>6, <1>7 DEF RInv

(* Where the controller looks, when it is not held up by the link. *)
LEMMA PeekBeyond ==
    ASSUME Sizes, RInv, Peek.at # LINK_INDEX
    PROVE  Peek = [at |-> Beyond(hc.at), cycle |-> LapOf(hc.at, hc.cycle)]
<1>1. hc \in [at : 0..LINK_INDEX, cycle : BOOLEAN]
  BY DEF RInv, RingTypeOK
<1>2. CASE hc.at = LINK_INDEX
  <2>1. ring.control[LINK_INDEX].cycle = hc.cycle
    BY <1>2 DEF Peek
  <2> QED BY <1>2, <2>1 DEF Peek, Beyond, LapOf
<1>3. CASE hc.at # LINK_INDEX
  <2>1. Peek = hc /\ Beyond(hc.at) = hc.at /\ LapOf(hc.at, hc.cycle) = hc.cycle
    BY <1>3 DEF Peek, Beyond, LapOf
  <2>2. hc = [at |-> hc.at, cycle |-> hc.cycle]
    BY <1>1
  <2> QED BY <2>1, <2>2
<1> QED BY <1>2, <1>3

(* The controller takes a TRB. *)
LEMMA TakeKeeps ==
    ASSUME Sizes, RInv, Take PROVE RInv'
<1> DEFINE a == Beyond(hc.at)
           c == LapOf(hc.at, hc.cycle)
<1>1. Peek = [at |-> a, cycle |-> c]
  BY PeekBeyond DEF Take
<1>2. a \in 0..LINK_INDEX - 1 /\ c \in BOOLEAN /\ LINK_INDEX \in Nat \ {0}
  BY RingParts, RingFacts
<1>3. RingGood(ring.body, ring.control, ring.index, ring.cycle, writes, hc.at, hc.cycle, queue)
  BY DEF RInv
<1>4. ring' = ring /\ writes' = writes /\ queue' = Tail(queue)
  BY DEF Take
<1>5. ring.control[a].cycle = c /\ hc' = [[at |-> a, cycle |-> c] EXCEPT !.at = a + 1]
  <2> HIDE DEF a, c
  <2> QED BY <1>1 DEF Take
<1>6. BitsFit(ring.control, a, c, 0)
  <2> HIDE DEF a, c
  <2>1. Fold(a + 0, LINK_INDEX) = a /\ ~(a + 0 >= LINK_INDEX)
    BY <1>2 DEF Fold
  <2>2. c = (c # (a + 0 >= LINK_INDEX))
    BY <1>2, <2>1
  <2> QED BY <1>5, <2>1, <2>2 DEF BitsFit
<1>7. RingGood(ring.body, ring.control, ring.index, ring.cycle, writes, a + 1, c, Tail(queue))
  BY <1>3, <1>6, TakeGood
<1> HIDE DEF a, c
<1>8. hc' = [at |-> a + 1, cycle |-> c] /\ hc'.at = a + 1 /\ hc'.cycle = c
  BY <1>5
<1>9. RingTypeOK'
  <2>1. Tail(queue) \in Seq(Entries)
    BY ZenonT(30), <1>7 DEF RingGood, RingTypes
  <2>2. a + 1 \in 0..LINK_INDEX
    BY <1>2
  <2> QED BY <1>2, <1>4, <1>8, <2>1, <2>2 DEF RInv, RingTypeOK
<1> QED BY <1>4, <1>7, <1>8, <1>9 DEF RInv

(* An aborted command becomes a No Op. *)
LEMMA ReplaceKeeps ==
    ASSUME Sizes, RInv, Replace PROVE RInv'
<1> DEFINE i == LastPlace(ring.index)
           e == [body |-> NoOpTrb, chain |-> FALSE]
           ct == ControlWord(ring.control[i].cycle, FALSE)
<1>1. RingGood(ring.body, ring.control, ring.index, ring.cycle, <<>>, hc.at, hc.cycle, queue)
  BY DEF RInv, Replace
<1>2. /\ writes = <<>> /\ Len(queue) = 1 /\ ~queue[1].chain /\ writes' = writes /\ hc' = hc
      /\ queue' = <<e>>
      /\ ring' = [ring EXCEPT !.body[i] = NoOpTrb, !.control[i] = ControlWord(@.cycle, FALSE)]
  BY DEF Replace, LastPlace
<1>3. i \in 0..LINK_INDEX - 1 /\ LINK_INDEX \in Nat \ {0}
  BY RingParts, RingFacts
<1>4. i \in 0..LINK_INDEX
  <2> HIDE DEF i
  <2> QED BY <1>3
<1>5. RingTypeOK
  BY DEF RInv
<1>6. RingGood([ring.body EXCEPT ![i] = NoOpTrb], [ring.control EXCEPT ![i] = ct], ring.index,
               ring.cycle, <<>>, hc.at, hc.cycle, <<e>>)
  BY ZenonT(30), <1>1, <1>2, ReplaceGood
<1> HIDE DEF i
<1>7. /\ ring'.body = [ring.body EXCEPT ![i] = NoOpTrb] /\ ring'.control = [ring.control EXCEPT ![i] = ct]
      /\ ring'.index = ring.index /\ ring'.cycle = ring.cycle
  BY <1>2, <1>4, <1>5 DEF RingTypeOK
<1>8. RingTypeOK'
  <2>1. ct \in Controls
    <3>1. ring.control[i] \in Controls
      BY ZenonT(30), <1>4, <1>5 DEF RingTypeOK
    <3> QED BY <3>1 DEF Controls, ControlWord
  <2>2. [ring.body EXCEPT ![i] = NoOpTrb] \in [0..LINK_INDEX -> RingBody]
    BY <1>4, <1>5 DEF RingTypeOK, RingBody
  <2> HIDE DEF ct
  <2>3. [ring.control EXCEPT ![i] = ct] \in [0..LINK_INDEX -> Controls]
    BY <1>4, <1>5, <2>1 DEF RingTypeOK
  <2>4. <<e>> \in Seq(Entries)
    BY ZenonT(30), <1>6 DEF RingGood, RingTypes
  <2>5. ring' = [ring EXCEPT !.body[i] = NoOpTrb, !.control[i] = ct]
    BY <1>2, <1>4, <1>5 DEF RingTypeOK, ct
  <2> QED BY ZenonT(30), <1>2, <1>5, <2>2, <2>3, <2>4, <2>5 DEF RingTypeOK
<1> QED BY <1>2, <1>6, <1>7, <1>8 DEF RInv

(* The controller is sent to where the driver is. *)
LEMMA SetDequeueKeeps ==
    ASSUME Sizes, RInv, SetRingDequeue PROVE RInv'
<1>1. RingGood(ring.body, ring.control, ring.index, ring.cycle, <<>>, hc.at, hc.cycle, queue)
  BY DEF RInv, SetRingDequeue
<1>2. /\ writes = <<>> /\ writes' = writes /\ ring' = ring /\ queue' = <<>>
      /\ hc' = [at |-> ring.index, cycle |-> ring.cycle]
      /\ hc'.at = ring.index /\ hc'.cycle = ring.cycle
  BY DEF SetRingDequeue
<1>3. RingGood(ring.body, ring.control, ring.index, ring.cycle, <<>>, ring.index, ring.cycle, <<>>)
  BY <1>1, DequeueGood
<1>4. RingTypeOK'
  <2>1. ring.index \in 0..LINK_INDEX /\ ring.cycle \in BOOLEAN
    BY RingParts
  <2> QED BY <1>2, <2>1, EmptySeq DEF RInv, RingTypeOK
<1> QED BY <1>2, <1>3, <1>4 DEF RInv

(* What the controller finds is what it was handed. *)
LEMMA FindsFit ==
    ASSUME Sizes, RInv, NEW n \in 0..LINK_INDEX - 1, Peek.at # LINK_INDEX
    PROVE  /\ Peek.at = Beyond(hc.at) /\ Place(n) = Fold(Beyond(hc.at) + n, LINK_INDEX)
           /\ Lap(n) = (Beyond(hc.at) + n >= LINK_INDEX)
           /\ Finds(n) => HandedOver(ring.index, Len(writes), n, queue)
<1> DEFINE a == Beyond(hc.at)
           c == LapOf(hc.at, hc.cycle)
<1>1. Peek = [at |-> a, cycle |-> c]
  BY PeekBeyond
<1>2. a \in 0..LINK_INDEX - 1 /\ c \in BOOLEAN /\ LINK_INDEX \in Nat \ {0}
  BY RingParts, RingFacts
<1>3. BitsFit(ring.control, a, c, n) => HandedOver(ring.index, Len(writes), n, queue)
  BY BitsTell DEF RInv
<1> HIDE DEF a, c
<1>4. Peek.at = a /\ Peek.cycle = c
  BY <1>1
<1>5. Place(n) = Fold(a + n, LINK_INDEX)
  <2>1. a + n \in Nat /\ a + n < LINK_INDEX + LINK_INDEX
    BY <1>2
  <2>2. (a + n) % LINK_INDEX = Fold(a + n, LINK_INDEX)
    BY <1>2, <2>1, Wraps
  <2> QED BY <1>4, <2>2 DEF Place
<1>6. Lap(n) = (a + n >= LINK_INDEX)
  BY <1>4 DEF Lap
<1>7. Finds(n) => BitsFit(ring.control, a, c, n)
  BY <1>4, <1>5, <1>6 DEF Finds, BitsFit
<1> QED BY <1>3, <1>4, <1>5, <1>6, <1>7 DEF a

(* The link is passed as soon as there is something behind it. *)
LEMMA LinkPassed ==
    ASSUME Sizes, RInv, writes = <<>>, queue # <<>> PROVE Peek.at # LINK_INDEX
<1> DEFINE a == Beyond(hc.at)
           c == LapOf(hc.at, hc.cycle)
           l == Len(queue)
<1>1. /\ a \in 0..LINK_INDEX - 1 /\ c \in BOOLEAN /\ LINK_INDEX \in Nat \ {0} /\ l \in Nat
      /\ ring.index \in 0..LINK_INDEX - 1 /\ QUEUED < LINK_INDEX /\ QUEUED \in Nat
      /\ hc.at \in 0..LINK_INDEX /\ hc.cycle \in BOOLEAN
  BY RingParts, RingFacts
<1>2. SUFFICES ASSUME hc.at = LINK_INDEX, ring.control[LINK_INDEX].cycle # hc.cycle PROVE FALSE
  <2>1. CASE hc.at = LINK_INDEX
    BY <1>1, <1>2, <2>1 DEF Peek
  <2>2. CASE hc.at # LINK_INDEX
    BY <2>2 DEF Peek
  <2> QED BY <2>1, <2>2
<1>3. a = 0 /\ c = ~hc.cycle
  BY <1>2 DEF Beyond, LapOf
<1>4. l # 0
  BY EmptySeq DEF RInv, RingTypeOK
<1>5. Follows(ring.index, ring.cycle, a, c, queue) /\ CycleBits(ring.control, ring.index, ring.cycle, 0)
  BY DEF RInv, RingGood
<1>6. l <= QUEUED /\ ring.cycle = (c # (a + l >= LINK_INDEX))
  BY <1>5 DEF Follows
<1>7. ring.control[LINK_INDEX].cycle = (ring.cycle = FALSE)
  <2>1. LinkLeft(ring.index, 0) = FALSE
    BY DEF LinkLeft
  <2> QED BY ZenonT(30), <1>5, <2>1 DEF CycleBits
<1> HIDE DEF a, c, l
<1>8. (a + l >= LINK_INDEX) = FALSE
  BY <1>1, <1>3, <1>6
<1>9. ring.cycle = ~hc.cycle
  BY <1>1, <1>3, <1>6, <1>8
<1> QED BY ZenonT(30), <1>1, <1>2, <1>7, <1>9

(* Once push has returned the controller finds what was handed over. *)
LEMMA AllFound ==
    ASSUME Sizes, RInv, writes = <<>>, NEW n \in 0..Len(queue) - 1 PROVE Finds(n)
<1> DEFINE a == Beyond(hc.at)
           c == LapOf(hc.at, hc.cycle)
           l == Len(queue)
<1>1. /\ a \in 0..LINK_INDEX - 1 /\ c \in BOOLEAN /\ LINK_INDEX \in Nat \ {0} /\ l \in Nat
      /\ ring.index \in 0..LINK_INDEX - 1 /\ QUEUED < LINK_INDEX /\ QUEUED \in Nat
      /\ ring.cycle \in BOOLEAN
  BY RingParts, RingFacts
<1>2. Follows(ring.index, ring.cycle, a, c, queue) /\ CycleBits(ring.control, ring.index, ring.cycle, 0)
  BY DEF RInv, RingGood
<1>3. l <= QUEUED /\ ring.cycle = (c # (a + l >= LINK_INDEX))
  BY <1>2 DEF Follows
<1>4. queue # <<>>
  <2>1. l # 0
    BY <1>1
  <2> QED BY <2>1, EmptySeq
<1>5. Peek.at # LINK_INDEX
  BY <1>4, LinkPassed
<1>6. Peek = [at |-> a, cycle |-> c]
  BY <1>5, PeekBeyond
<1>7. n \in 0..LINK_INDEX - 1
  <2> HIDE DEF a, c
  <2> QED BY <1>1, <1>3
<1>8. Place(n) = Fold(a + n, LINK_INDEX) /\ Lap(n) = (a + n >= LINK_INDEX)
  BY <1>5, <1>7, FindsFit
<1>9. BitsFit(ring.control, a, c, n)
  <2>1. HandedOver(ring.index, 0, n, queue)
    <3>1. TrbLeft(ring.index, 0) = FALSE
      BY DEF TrbLeft
    <3>2. n < l
      BY <1>1
    <3> QED BY <3>1, <3>2 DEF HandedOver
  <2>2. Len(writes) = 0
    BY EmptySeq
  <2> QED BY <1>7, <2>1, <2>2, BitsTell DEF RInv
<1>10. ring.control[LINK_INDEX].cycle = (ring.cycle = FALSE)
  <2>1. LinkLeft(ring.index, 0) = FALSE
    BY DEF LinkLeft
  <2> QED BY ZenonT(30), <1>2, <2>1 DEF CycleBits
<1> HIDE DEF a, c
<1>11. Peek.at = a /\ Peek.cycle = c
  BY <1>6
<1>12. ASSUME Lap(n) PROVE ring.control[LINK_INDEX].cycle = c
  <2>1. (a + l >= LINK_INDEX) = TRUE
    <3>1. a + n >= LINK_INDEX
      BY ZenonT(30), <1>8, <1>12
    <3> QED BY <1>1, <3>1
  <2>2. ring.cycle = ~c
    BY <1>1, <1>3, <2>1
  <2> QED BY ZenonT(30), <1>1, <1>10, <2>2
<1>13. ring.control[Place(n)].cycle = (c # Lap(n))
  BY <1>8, <1>9 DEF BitsFit
<1> QED BY <1>5, <1>11, <1>12, <1>13 DEF Finds

(* The producer ring's invariant says what its two sides rely on. *)
LEMMA RingFound ==
    ASSUME Sizes, RInv PROVE RingAgrees
<1> DEFINE a == Beyond(hc.at)
           l == Len(queue)
           m == Len(writes)
<1>1. /\ a \in 0..LINK_INDEX - 1 /\ LINK_INDEX \in Nat \ {0} /\ l \in Nat /\ m \in Nat
      /\ QUEUED < LINK_INDEX /\ QUEUED \in Nat
  BY RingParts, RingFacts
<1>2. /\ Follows(ring.index, ring.cycle, a, LapOf(hc.at, hc.cycle), queue)
      /\ Holds(ring.body, ring.control, ring.index, m, a, queue)
      /\ Chained(ring.control, ring.index, m, a, queue)
  BY DEF RInv, RingGood
<1>3. l <= QUEUED /\ ring.index = Fold(a + l, LINK_INDEX)
  BY <1>2 DEF Follows
<1>4. ASSUME NEW n \in 0..LINK_INDEX - 1, Finds(n)
      PROVE  /\ HandedOver(ring.index, m, n, queue) /\ Place(n) = Fold(a + n, LINK_INDEX)
             /\ Peek.at = a
  BY <1>4, FindsFit DEF Finds
<1>5. ASSUME NEW n \in 0..LINK_INDEX - 1, Finds(n) PROVE n < l
  BY <1>4, <1>5 DEF HandedOver
<1>6. ASSUME NEW n \in 0..l - 1 PROVE n \in 0..LINK_INDEX - 1
  <2> HIDE DEF a, l
  <2> QED BY <1>1, <1>3
<1>7. ASSUME NEW n \in 0..l - 1, Finds(n)
      PROVE  /\ ring.body[Place(n)] = queue[n + 1].body
             /\ ring.control[Place(n)].chain = queue[n + 1].chain
  <2>1. n \in 0..LINK_INDEX - 1
    BY <1>6
  <2>2. HandedOver(ring.index, m, n, queue) /\ Place(n) = Fold(a + n, LINK_INDEX)
    BY <1>4, <1>7, <2>1
  <2>3. ~(n = l - 1 /\ TrbLeft(ring.index, m))
    BY <2>2 DEF HandedOver
  <2> DEFINE k == n + 1
  <2>4. k \in 1..l /\ a + k - 1 = a + n /\ (k = l => n = l - 1)
    <3> HIDE DEF a, l
    <3> QED BY <1>1
  <2> HIDE DEF k, a, m
  <2>5. \/ k = l /\ TrbLeft(ring.index, m)
        \/ /\ ring.body[Fold(a + k - 1, LINK_INDEX)] = queue[k].body
           /\ ring.control[Fold(a + k - 1, LINK_INDEX)].chain = queue[k].chain
    BY <1>2, <2>4 DEF Holds
  <2> QED BY <2>2, <2>3, <2>4, <2>5 DEF k
<1>8. ASSUME NEW n \in 0..l - 1, Finds(n), Lap(n), n > 0, ~Lap(n - 1)
      PROVE  ring.control[LINK_INDEX].chain = queue[n].chain
  <2>1. n \in 0..LINK_INDEX - 1
    BY <1>6
  <2>2. Peek.at = a
    BY <1>4, <1>8, <2>1
  <2> HIDE DEF a, l, m
  <2>3. a + n >= LINK_INDEX /\ ~(a + (n - 1) >= LINK_INDEX)
    BY <1>8, <2>2 DEF Lap
  <2>4. n = LINK_INDEX - a /\ a + l >= LINK_INDEX
    BY <1>1, <1>8, <2>3
  <2>5. ring.index # 0
    BY <1>1, <1>3, <2>3, <2>4 DEF Fold
  <2>6. ~LinkLeft(ring.index, m)
    BY <2>5 DEF LinkLeft
  <2> QED BY <1>2, <2>4, <2>6 DEF Chained, l
<1>9. ASSUME NEW n \in 0..l - 1, writes = <<>> PROVE Finds(n)
  BY <1>9, AllFound
<1> QED BY <1>5, <1>7, <1>8, <1>9 DEF RingAgrees

-----------------------------------------------------------------------------
(* Both kinds of ring. *)
RingsInv == RInv /\ EInv

(* No step of either side breaks the invariant of a ring. *)
LEMMA RingsStep ==
    ASSUME Sizes, RingsInv, [RingsNext]_ringsVars PROVE RingsInv'
<1> USE DEF RingsInv
<1>1. ASSUME UNCHANGED ringVars PROVE RInv'
  <2>1. ring' = ring /\ writes' = writes /\ hc' = hc /\ queue' = queue
    BY <1>1 DEF ringVars
  <2> QED BY <2>1 DEF RInv, RingTypeOK
<1>2. ASSUME UNCHANGED eventVars PROVE EInv'
  <2>1. ering' = ering /\ post' = post /\ posted' = posted
    BY <1>2 DEF eventVars
  <2> QED BY <2>1 DEF EInv, EventTypeOK
<1>3. ASSUME RingNext PROVE RInv'
  <2>1. ASSUME NEW b \in Body, NEW c \in BOOLEAN, Push(b, c) PROVE RInv'
    BY <2>1, PushKeeps
  <2> QED BY <1>3, <2>1, WriteDwordKeeps, TakeKeeps, ReplaceKeeps, SetDequeueKeeps DEF RingNext
<1>4. ASSUME EventNext PROVE EInv'
  <2>1. ASSUME NEW b \in Body, Post(b) PROVE EInv'
    BY <2>1, PostKeeps
  <2> QED BY <1>4, <2>1, PostedKeeps, LookKeeps, SeenKeeps, PolledKeeps DEF EventNext
<1>5. CASE UNCHANGED ringsVars
  <2>1. UNCHANGED ringVars /\ UNCHANGED eventVars
    BY <1>5 DEF ringsVars
  <2> QED BY <1>1, <1>2, <2>1
<1> QED BY <1>1, <1>2, <1>3, <1>4, <1>5 DEF RingsNext

(***************************************************************************)
(* Whatever the sizes of the rings, between any two writes either side     *)
(* finds exactly what the other has handed over, whole and in order, and a *)
(* link inside a transfer is chained like it (ProducerRing::push, replace, *)
(* EventRing::next, dequeue_pointer).                                      *)
(***************************************************************************)
THEOREM RingsStayAgreed ==
    ASSUME Sizes PROVE RingsSpec => []RingsAgree
<1>1. RingsInit => RingsInv
  BY RingInitGood, EventInitGood DEF RingsInit, RingsInv
<1>2. RingsInv /\ [RingsNext]_ringsVars => RingsInv'
  BY RingsStep
<1>3. RingsInv => RingsAgree
  BY RingFound, EventsFound DEF RingsInv, RingsAgree
<1> QED BY <1>1, <1>2, <1>3, PTL DEF RingsSpec
=============================================================================
