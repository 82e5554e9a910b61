----------------------- MODULE LocationObservationProofs -----------------------
(***************************************************************************)
(* The path from the game to the ledger for any saves, locations, ring     *)
(* that holds one export, and any number of reloads, lost forms, failed    *)
(* commits and switches of save.                                           *)
(*                                                                         *)
(* An acknowledgement is a number.  What makes it safe to obey is what the *)
(* client had before it when it was sent: the invariant follows each       *)
(* publication of a location from the ring to the snapshot, to the ledger  *)
(* of the session that reads it, and the acknowledgement back to the game. *)
(***************************************************************************)
EXTENDS LocationObservation, FiniteSetTheorems, SequenceTheorems, TLAPS

Increasing(events) ==
    \A i, j \in DOMAIN events : i < j => events[i].sequence < events[j].sequence

Below(events, next) == \A i \in DOMAIN events : events[i].sequence < next

RingOrdered == Increasing(ring.events) /\ Below(ring.events, ring.next)

IsPing(i) == i \in DOMAIN forms /\ forms[i].kind = "ping"

\* One heartbeat at a time, and no snapshot while it is under way; the session
\* it reports stays, or is closed.
OnePing ==
    \A i \in DOMAIN forms :
        IsPing(i) => /\ snapshot = NoSnapshot
                     /\ session \in {forms[i].status, NoSave}
                     /\ \A j \in DOMAIN forms : IsPing(j) => i = j

\* A bound descriptor is the one the observer observes.
BoundObserved == bound => loaded # NoSave /\ observer.save = loaded

\* A publication is in the ring's past, and of a location that was observed.
PublicationsKnown ==
    /\ observer.pending \subseteq observer.observed
    /\ \A l \in Locations :
          LET p == observer.published[l]
          IN  /\ p.generation <= ring.generation
              /\ p.generation = ring.generation => p.sequence < ring.next
              /\ p.sequence >= 0 => l \in observer.observed

\* An acknowledgement on its way to the game.
OnTheWay(ack) ==
    \/ ack = ackPending
    \/ \E i \in DOMAIN forms : forms[i].kind = "ack" /\ forms[i].ack = ack

AcksKnown ==
    \A ack \in Ack : OnTheWay(ack) =>
        /\ ack.generation <= ring.generation
        /\ ack.generation = ring.generation => ack.sequence < ring.next

\* A snapshot is in the ring's past as well, and is read by a session of the
\* observed save or by none.
SnapshotKnown ==
    snapshot # NoSnapshot =>
        /\ snapshot.generation <= ring.generation
        /\ snapshot.generation = ring.generation
              => Below(snapshot.events, ring.next)
        /\ Increasing(snapshot.events)
        /\ observer.save # NoSave => session \in {observer.save, NoSave}

\* What an acknowledgement of the i-th record of a snapshot would cover is in
\* the ledger, or is read before it.
SnapshotCovers ==
    snapshot # NoSnapshot /\ observer.save # NoSave =>
        \A l \in Locations, i \in DOMAIN snapshot.events :
            /\ observer.published[l].generation = snapshot.generation
            /\ observer.published[l].sequence >= 0
            /\ observer.published[l].sequence <= snapshot.events[i].sequence
            => \/ l \in ledger[observer.save]
               \/ \E j \in DOMAIN snapshot.events :
                     /\ j <= i
                     /\ snapshot.events[j].location = l

\* What an acknowledgement covers is in the ledger of the observed save.
AcksCovered ==
    observer.save # NoSave =>
        \A ack \in Ack, l \in Locations :
            OnTheWay(ack) /\ AckOne(observer.published[l], ack)
               => l \in ledger[observer.save]

\* The same of the records of the ring, whatever save they were observed in.
SnapshotHolds ==
    snapshot # NoSnapshot /\ snapshot.generation = ring.generation =>
        \A k \in DOMAIN ring.events, i \in DOMAIN snapshot.events :
            ring.events[k].sequence <= snapshot.events[i].sequence
               => \E j \in DOMAIN snapshot.events :
                     /\ j <= i
                     /\ snapshot.events[j].location = ring.events[k].location

AcksCommitted ==
    \A ack \in Ack : OnTheWay(ack) /\ ack.generation = ring.generation =>
        \A k \in DOMAIN ring.events :
            ring.events[k].sequence <= ack.sequence
               => \/ ring.events[k].location = NoLocation
                  \/ Committed(ring.events[k].location)

OInv ==
    /\ TypeOK
    /\ RingOrdered
    /\ OnePing
    /\ BoundObserved
    /\ PublicationsKnown
    /\ AcksKnown
    /\ SnapshotKnown
    /\ SnapshotCovers
    /\ AcksCovered
    /\ SnapshotHolds
    /\ AcksCommitted
    /\ OfferedUntilCommitted

-----------------------------------------------------------------------------
(* Publication.                                                             *)

Observer ==
    [save: Saves \cup {NoSave}, observed: SUBSET Locations,
     pending: SUBSET Locations, published: [Locations -> Publication]]

Ring == [generation: Nat, next: Nat, events: Seq(Record)]

\* The places of a set of indices, in order, are 1, 2, ... without a gap.
LEMMA Places ==
    ASSUME NEW n \in Nat, NEW due \in SUBSET (1 .. n)
    PROVE  /\ Cardinality(due) \in 0 .. n
           /\ \A i \in due : Cardinality(Before(i, due)) \in 0 .. Cardinality(due) - 1
           /\ \A i, j \in due :
                 Cardinality(Before(i, due)) = Cardinality(Before(j, due)) => i = j
           /\ \A k \in 0 .. Cardinality(due) - 1 :
                 \E i \in due : Cardinality(Before(i, due)) = k
  <1> DEFINE place == [i \in due |-> Cardinality(Before(i, due))]
             c == Cardinality(due)
  <1>1. IsFiniteSet(1 .. n) /\ Cardinality(1 .. n) = n
    BY FS_Interval
  <1>2. IsFiniteSet(due) /\ c \in 0 .. n
    <2>1. IsFiniteSet(due) /\ c <= n
      BY <1>1, FS_Subset
    <2>2. c \in Nat
      BY <2>1, FS_CardinalityType
    <2>3. QED
      BY <2>1, <2>2
  <1> HIDE DEF c
  <1>3. ASSUME NEW i \in due
        PROVE  /\ IsFiniteSet(Before(i, due))
               /\ Cardinality(Before(i, due)) \in 0 .. c - 1
    <2>1. /\ Before(i, due) \in SUBSET due
          /\ i \notin Before(i, due)
          /\ Before(i, due) # due
      BY DEF Before
    <2>2. /\ IsFiniteSet(Before(i, due))
          /\ Cardinality(Before(i, due)) <= c
          /\ Cardinality(Before(i, due)) # c
      BY <1>2, <2>1, FS_Subset DEF c
    <2>3. Cardinality(Before(i, due)) \in Nat
      BY <2>2, FS_CardinalityType
    <2>4. QED
      BY <1>2, <2>2, <2>3
  <1>4. ASSUME NEW i \in due, NEW j \in due, i < j
        PROVE  Cardinality(Before(i, due)) # Cardinality(Before(j, due))
    <2>1. \A m \in due : m < i => m < j
      BY <1>4
    <2>3. Before(i, due) \in SUBSET Before(j, due)
      BY <2>1 DEF Before
    <2>2. i \in Before(j, due) /\ i \notin Before(i, due)
      BY <1>4 DEF Before
    <2>4. QED
      BY <1>3, <2>2, <2>3, FS_Subset
  <1>5. \A i, j \in due :
           Cardinality(Before(i, due)) = Cardinality(Before(j, due)) => i = j
    BY <1>4
  <1>6. place \in Injection(due, 0 .. c - 1)
    <2>1. place \in [due -> 0 .. c - 1]
      BY <1>3 DEF c
    <2>2. QED
      BY <1>5, <2>1 DEF Injection, IsInjective
  <1>7. IsFiniteSet(0 .. c - 1) /\ Cardinality(0 .. c - 1) = c
    BY <1>2, FS_Interval
  <1>8. place \in Surjection(due, 0 .. c - 1)
    BY <1>6, <1>7, FS_Injection DEF c
  <1>9. QED
    BY <1>2, <1>3, <1>5, <1>8 DEF Surjection, c

\* A batch has each due location once, under consecutive sequences.
LEMMA BatchFacts ==
    ASSUME NEW o \in Observer, NEW r \in Ring, NEW chosen
    PROVE  /\ Batch(o, r, chosen) \in Seq(Record)
           /\ Len(Batch(o, r, chosen)) <= Capacity
           /\ \A k \in DOMAIN Batch(o, r, chosen) :
                 /\ Batch(o, r, chosen)[k].sequence = r.next + k - 1
                 /\ Batch(o, r, chosen)[k].location \in o.pending \cap chosen
           /\ \A l \in o.pending \cap chosen :
                 \E k \in DOMAIN Batch(o, r, chosen) :
                    Batch(o, r, chosen)[k].location = l
  <1> DEFINE due == Due(o, chosen)
             c == Cardinality(due)
             at(k) == CHOOSE i \in due : Cardinality(Before(i, due)) = k - 1
             batch == [k \in 1 .. c |-> [sequence |-> r.next + k - 1,
                                         location |-> LocationOrder[at(k)]]]
  <1>1. Batch(o, r, chosen) = batch
    BY DEF Batch
  <1>2. /\ LocationOrder \in Seq(Locations)
        /\ Len(LocationOrder) \in Nat
        /\ DOMAIN LocationOrder = 1 .. Len(LocationOrder)
        /\ Len(LocationOrder) <= Capacity
        /\ Capacity \in Nat
    BY OrderAssumption, CapacityAssumption, LenProperties
  <1>3. due \in SUBSET (1 .. Len(LocationOrder))
    BY <1>2 DEF Due
  <1>4. /\ c \in 0 .. Len(LocationOrder)
        /\ \A i \in due : Cardinality(Before(i, due)) \in 0 .. c - 1
        /\ \A i, j \in due :
              Cardinality(Before(i, due)) = Cardinality(Before(j, due)) => i = j
        /\ \A k \in 0 .. c - 1 : \E i \in due : Cardinality(Before(i, due)) = k
    BY <1>2, <1>3, Places
  <1>5. ASSUME NEW k \in 1 .. c
        PROVE  at(k) \in due /\ Cardinality(Before(at(k), due)) = k - 1
    <2>1. k - 1 \in 0 .. c - 1
      BY <1>4
    <2>2. \E i \in due : Cardinality(Before(i, due)) = k - 1
      BY <1>4, <2>1
    <2>3. QED
      BY <2>2
  <1>6. \A i \in due : LocationOrder[i] \in o.pending \cap chosen
    BY DEF Due
  <1>7. o.pending \subseteq Locations /\ r.next \in Nat
    BY DEF Observer, Ring
  <1> HIDE DEF due, at
  <1>8. ASSUME NEW k \in 1 .. c
        PROVE  [sequence |-> r.next + k - 1, location |-> LocationOrder[at(k)]]
                  \in Record
    BY <1>4, <1>5, <1>6, <1>7 DEF Record
  <1> HIDE DEF c
  <1>9. batch \in Seq(Record) /\ Len(batch) = c /\ DOMAIN batch = 1 .. c
    BY <1>4, <1>8
  <1>10. \A k \in DOMAIN batch :
            /\ batch[k].sequence = r.next + k - 1
            /\ batch[k].location \in o.pending \cap chosen
    BY <1>5, <1>6, <1>9
  <1>11. ASSUME NEW l \in o.pending \cap chosen
         PROVE  \E k \in DOMAIN batch : batch[k].location = l
    <2>1. PICK i \in DOMAIN LocationOrder : LocationOrder[i] = l
      BY <1>7 DEF Locations
    <2>2. i \in due
      BY <2>1 DEF due, Due
    <2>3. PICK k \in 1 .. c : k - 1 = Cardinality(Before(i, due))
      <3>1. Cardinality(Before(i, due)) + 1 \in 1 .. c
        BY <1>4, <2>2
      <3>2. (Cardinality(Before(i, due)) + 1) - 1 = Cardinality(Before(i, due))
        BY <1>4, <2>2
      <3>3. QED
        BY <3>1, <3>2
    <2>4. at(k) = i
      BY <1>4, <1>5, <2>2, <2>3
    <2>5. QED
      BY <1>9, <2>1, <2>3, <2>4
  <1>12. Len(batch) <= Capacity
    BY <1>2, <1>4, <1>9
  <1>13. QED
    BY <1>1, <1>9, <1>10, <1>11, <1>12

\* A location of the batch has its new publication, the others their old one.
LEMMA PublishedFacts ==
    ASSUME NEW o \in Observer, NEW r \in Ring, NEW batch \in Seq(Record)
    PROVE  /\ Published(o, r, batch).save = o.save
           /\ Published(o, r, batch).observed = o.observed
           /\ Published(o, r, batch).pending = o.pending
           /\ Published(o, r, batch) \in Observer
           /\ \A l \in Locations :
                 LET p == Published(o, r, batch).published[l]
                 IN  \/ /\ p.generation = r.generation
                        /\ \E k \in DOMAIN batch : /\ batch[k].location = l
                                                   /\ p.sequence = batch[k].sequence
                     \/ /\ p = o.published[l]
                        /\ \A k \in DOMAIN batch : batch[k].location # l
  <1> DEFINE entry(l) ==
               IF \E i \in DOMAIN batch : batch[i].location = l
               THEN [generation |-> r.generation,
                     sequence |-> (CHOOSE e \in {batch[i] : i \in DOMAIN batch} :
                                      e.location = l).sequence]
               ELSE o.published[l]
             p == [l \in Locations |-> entry(l)]
  <1>1. Published(o, r, batch) = [o EXCEPT !.published = p]
    BY DEF Published
  <1>2. ASSUME NEW l \in Locations, NEW i \in DOMAIN batch, batch[i].location = l
        PROVE  \E k \in DOMAIN batch :
                  /\ batch[k].location = l
                  /\ entry(l) = [generation |-> r.generation,
                                 sequence |-> batch[k].sequence]
    <2> DEFINE e == CHOOSE e \in {batch[j] : j \in DOMAIN batch} : e.location = l
    <2>1. e \in {batch[j] : j \in DOMAIN batch} /\ e.location = l
      BY <1>2
    <2>2. PICK k \in DOMAIN batch : batch[k] = e
      BY <2>1
    <2>3. QED
      BY <1>2, <2>1, <2>2
  <1>3. ASSUME NEW k \in DOMAIN batch
        PROVE  batch[k] \in Record /\ batch[k].sequence \in Nat
    <2>1. batch[k] \in Record
      BY <1>3, ElementOfSeq, LenProperties
    <2>2. QED
      BY <2>1 DEF Record
  <1>4. ASSUME NEW l \in Locations
        PROVE  entry(l) \in Publication
    <2>1. r.generation \in Nat /\ o.published[l] \in Publication
      BY DEF Ring, Observer
    <2>2. CASE \E i \in DOMAIN batch : batch[i].location = l
      <3>1. PICK k \in DOMAIN batch :
               entry(l) = [generation |-> r.generation,
                           sequence |-> batch[k].sequence]
        BY <1>2, <2>2
      <3>2. QED
        BY <1>3, <2>1, <3>1 DEF Publication
    <2>3. CASE ~ \E i \in DOMAIN batch : batch[i].location = l
      BY <2>1, <2>3
    <2>4. QED
      BY <2>2, <2>3
  <1> HIDE DEF entry
  <1>5. p \in [Locations -> Publication]
    BY <1>4
  <1>6. \A l \in Locations : p[l] = entry(l)
    OBVIOUS
  <1> HIDE DEF p
  <1>7. /\ Published(o, r, batch) \in Observer
        /\ Published(o, r, batch).published = p
        /\ Published(o, r, batch).save = o.save
        /\ Published(o, r, batch).observed = o.observed
        /\ Published(o, r, batch).pending = o.pending
    BY <1>1, <1>5 DEF Observer
  <1>8. ASSUME NEW l \in Locations
        PROVE  \/ /\ p[l].generation = r.generation
                  /\ \E k \in DOMAIN batch : /\ batch[k].location = l
                                             /\ p[l].sequence = batch[k].sequence
               \/ /\ p[l] = o.published[l]
                  /\ \A k \in DOMAIN batch : batch[k].location # l
    <2>1. CASE \E i \in DOMAIN batch : batch[i].location = l
      BY <1>2, <1>6, <2>1
    <2>2. CASE ~ \E i \in DOMAIN batch : batch[i].location = l
      BY <1>6, <2>2 DEF entry
    <2>3. QED
      BY <2>1, <2>2
  <1>9. QED
    BY <1>7, <1>8

\* The last records of a sequence.
LEMMA LastOfFacts ==
    ASSUME NEW events \in Seq(Record), NEW n \in Nat
    PROVE  /\ LastOf(events, n) \in Seq(Record)
           /\ Len(LastOf(events, n)) =
                 IF Len(events) > n THEN n ELSE Len(events)
           /\ \A i \in 1 .. Len(LastOf(events, n)) :
                 LastOf(events, n)[i] =
                    events[i + Len(events) - Len(LastOf(events, n))]
  <1> DEFINE m == IF Len(events) > n THEN Len(events) - n + 1 ELSE 1
  <1>1. Len(events) \in Nat /\ DOMAIN events = 1 .. Len(events)
    BY LenProperties
  <1>2. m \in 1 .. Len(events) + 1
    BY <1>1
  <1>3. \A i \in m .. Len(events) : events[i] \in Record
    BY <1>2, <1>1, ElementOfSeq
  <1>4. LastOf(events, n) = SubSeq(events, m, Len(events))
    BY DEF LastOf
  <1>5. /\ SubSeq(events, m, Len(events)) \in Seq(Record)
        /\ Len(SubSeq(events, m, Len(events))) =
              IF m <= Len(events) THEN Len(events) - m + 1 ELSE 0
        /\ \A i \in 1 .. Len(events) - m + 1 :
              SubSeq(events, m, Len(events))[i] = events[m + i - 1]
    BY <1>1, <1>2, <1>3, SubSeqProperties
  <1>6. Len(LastOf(events, n)) = IF Len(events) > n THEN n ELSE Len(events)
    <2>1. CASE Len(events) > n
      <3>1. m = Len(events) - n + 1
        BY <2>1
      <3>2. QED
        BY <1>1, <1>4, <1>5, <2>1, <3>1
    <2>2. CASE ~(Len(events) > n)
      <3>1. m = 1
        BY <2>2
      <3>2. QED
        BY <1>1, <1>4, <1>5, <2>2, <3>1
    <2>3. QED
      BY <2>1, <2>2
  <1>7. Len(LastOf(events, n)) = Len(events) - m + 1
    BY <1>1, <1>6
  <1>8. ASSUME NEW i \in 1 .. Len(LastOf(events, n))
        PROVE  LastOf(events, n)[i] =
                  events[i + Len(events) - Len(LastOf(events, n))]
    <2>1. i + Len(events) - Len(LastOf(events, n)) = m + i - 1
      BY <1>1, <1>2, <1>7
    <2>2. QED
      BY <1>4, <1>5, <1>7, <2>1
  <1>9. QED
    BY <1>4, <1>5, <1>6, <1>8

Consecutive(batch, next) ==
    \A k \in DOMAIN batch : batch[k].sequence = next + k - 1

\* A batch goes behind the records of the ring, and only older ones are dropped
\* for it.
LEMMA EmitFacts ==
    ASSUME NEW r \in Ring, Len(r.events) <= Capacity,
           Increasing(r.events), Below(r.events, r.next),
           NEW batch \in Seq(Record), Len(batch) <= Capacity,
           Consecutive(batch, r.next)
    PROVE  /\ Emit(r, batch) \in Ring
           /\ Emit(r, batch).generation = r.generation
           /\ Emit(r, batch).next = r.next + Len(batch)
           /\ Len(Emit(r, batch).events) <= Capacity
           /\ Increasing(Emit(r, batch).events)
           /\ Below(Emit(r, batch).events, Emit(r, batch).next)
           /\ \A k \in DOMAIN Emit(r, batch).events :
                 \/ \E i \in DOMAIN r.events : Emit(r, batch).events[k] = r.events[i]
                 \/ \E i \in DOMAIN batch : Emit(r, batch).events[k] = batch[i]
           /\ \A i \in DOMAIN batch :
                 \E k \in DOMAIN Emit(r, batch).events :
                    Emit(r, batch).events[k] = batch[i]
           /\ \/ \A i \in DOMAIN r.events :
                    \E k \in DOMAIN Emit(r, batch).events :
                       Emit(r, batch).events[k] = r.events[i]
              \/ /\ Emit(r, batch).next > r.next
                 /\ Len(Emit(r, batch).events) = Capacity
  <1> DEFINE all == r.events \o batch
             kept == LastOf(all, Capacity)
             d == Len(all) - Len(kept)
  <1>1. /\ r.events \in Seq(Record) /\ r.next \in Nat /\ r.generation \in Nat
        /\ Capacity \in Nat
    BY CapacityAssumption DEF Ring
  <1>2. /\ Len(r.events) \in Nat /\ DOMAIN r.events = 1 .. Len(r.events)
        /\ Len(batch) \in Nat /\ DOMAIN batch = 1 .. Len(batch)
    BY <1>1, LenProperties
  <1>3. /\ all \in Seq(Record)
        /\ Len(all) = Len(r.events) + Len(batch)
        /\ \A i \in 1 .. Len(all) :
              all[i] = IF i <= Len(r.events) THEN r.events[i]
                       ELSE batch[i - Len(r.events)]
    BY <1>1, ConcatProperties
  <1> HIDE DEF all
  <1>4. /\ kept \in Seq(Record)
        /\ Len(kept) = IF Len(all) > Capacity THEN Capacity ELSE Len(all)
        /\ \A i \in 1 .. Len(kept) : kept[i] = all[i + Len(all) - Len(kept)]
        /\ DOMAIN kept = 1 .. Len(kept)
    BY <1>1, <1>3, LastOfFacts, LenProperties
  <1> HIDE DEF kept
  <1>5. /\ d \in Nat /\ Len(kept) \in Nat /\ Len(all) \in Nat
        /\ Len(all) = Len(kept) + d
        /\ d <= Len(r.events)
        /\ d > 0 => Len(batch) > 0 /\ Len(kept) = Capacity
    <2> DEFINE a == Len(all)
               e == Len(r.events)
               b == Len(batch)
               c == Len(kept)
    <2>1. /\ a = e + b /\ e \in Nat /\ b \in Nat
          /\ e <= Capacity /\ b <= Capacity /\ Capacity \in Nat
          /\ c = IF a > Capacity THEN Capacity ELSE a
      BY <1>1, <1>2, <1>3, <1>4
    <2> HIDE DEF a, e, b, c
    <2>2. /\ a - c \in Nat /\ c \in Nat /\ a \in Nat
          /\ a = c + (a - c)
          /\ a - c <= e
          /\ a - c > 0 => b > 0 /\ c = Capacity
      BY <2>1
    <2>3. QED
      BY <2>2 DEF a, e, b, c
  <1> HIDE DEF d
  <1>6. ASSUME NEW i \in 1 .. Len(kept)
        PROVE  i + d \in 1 .. Len(all) /\ kept[i] = all[i + d]
    <2>1. i + Len(all) - Len(kept) = i + d
      BY <1>5
    <2>2. QED
      BY <1>4, <1>5, <2>1
  <1>7. ASSUME NEW i \in 1 .. Len(all)
        PROVE  all[i].sequence < r.next + Len(batch)
    <2>1. CASE i <= Len(r.events)
      <3>1. all[i] = r.events[i] /\ i \in DOMAIN r.events
        BY <1>2, <1>3, <2>1
      <3>2. r.events[i].sequence < r.next /\ r.events[i] \in Record
        BY <1>1, <1>2, <3>1, ElementOfSeq DEF Below
      <3>3. r.events[i].sequence \in Nat
        BY <3>2 DEF Record
      <3>4. QED
        BY <1>1, <1>2, <3>1, <3>2, <3>3
    <2>2. CASE i > Len(r.events)
      <3>1. /\ i - Len(r.events) \in 1 .. Len(batch)
            /\ all[i] = batch[i - Len(r.events)]
        BY SMTT(30), <1>2, <1>3, <2>2
      <3>4. i - Len(r.events) \in DOMAIN batch
        BY <1>2, <3>1
      <3>2. batch[i - Len(r.events)].sequence = r.next + (i - Len(r.events)) - 1
        BY <3>4 DEF Consecutive
      <3>3. QED
        BY <1>1, <1>2, <3>1, <3>2
    <2>3. QED
      BY <1>2, <2>1, <2>2
  <1>8. ASSUME NEW i \in 1 .. Len(all), NEW j \in 1 .. Len(all), i < j
        PROVE  all[i].sequence < all[j].sequence
    <2>1. CASE j <= Len(r.events)
      <3>1. i \in DOMAIN r.events /\ j \in DOMAIN r.events
        BY <1>2, <1>8, <2>1
      <3>2. r.events[i].sequence < r.events[j].sequence
        BY <1>8, <3>1 DEF Increasing
      <3>3. all[i] = r.events[i] /\ all[j] = r.events[j]
        BY <1>2, <1>3, <3>1
      <3>4. QED
        BY <3>2, <3>3
    <2>2. CASE j > Len(r.events)
      <3>1. /\ j - Len(r.events) \in DOMAIN batch
            /\ all[j] = batch[j - Len(r.events)]
        BY <1>2, <1>3, <2>2
      <3>2. all[j].sequence = r.next + (j - Len(r.events)) - 1
        BY <3>1 DEF Consecutive
      <3>3. CASE i <= Len(r.events)
        <4>1. i \in DOMAIN r.events /\ all[i] = r.events[i]
          BY <1>2, <1>3, <3>3
        <4>2. r.events[i].sequence < r.next /\ r.events[i] \in Record
          BY <1>1, <1>2, <4>1, ElementOfSeq DEF Below
        <4>3. r.events[i].sequence \in Nat
          BY <4>2 DEF Record
        <4>4. QED
          BY <1>1, <1>2, <2>2, <3>2, <4>1, <4>2, <4>3
      <3>4. CASE i > Len(r.events)
        <4>1. /\ i - Len(r.events) \in DOMAIN batch
              /\ all[i] = batch[i - Len(r.events)]
          BY <1>2, <1>3, <3>4
        <4>2. all[i].sequence = r.next + (i - Len(r.events)) - 1
          BY <4>1 DEF Consecutive
        <4>3. QED
          BY <1>1, <1>2, <1>8, <3>2, <4>2
      <3>5. QED
        BY <1>2, <3>3, <3>4
    <2>3. QED
      BY <1>2, <2>1, <2>2
  <1>9. Emit(r, batch) = [r EXCEPT !.events = kept, !.next = r.next + Len(batch)]
    BY DEF Emit, kept, all
  <1>10. /\ Emit(r, batch) \in Ring
         /\ Emit(r, batch).generation = r.generation
         /\ Emit(r, batch).next = r.next + Len(batch)
         /\ Emit(r, batch).events = kept
    <2>1. r = [generation |-> r.generation, next |-> r.next, events |-> r.events]
      BY DEF Ring
    <2>2. Emit(r, batch) = [generation |-> r.generation,
                            next |-> r.next + Len(batch), events |-> kept]
      BY <1>9, <2>1
    <2>3. r.next + Len(batch) \in Nat
      BY <1>1, <1>2
    <2>4. QED
      BY <1>1, <1>4, <2>2, <2>3 DEF Ring
  <1>11. Len(kept) <= Capacity
    BY <1>1, <1>2, <1>3, <1>4
  <1>12. Increasing(kept)
    <2>1. ASSUME NEW i \in 1 .. Len(kept), NEW j \in 1 .. Len(kept), i < j
          PROVE  kept[i].sequence < kept[j].sequence
      <3>1. i + d < j + d
        BY <1>5, <2>1
      <3>2. QED
        BY <1>6, <1>8, <3>1
    <2>2. QED
      BY <1>4, <2>1 DEF Increasing
  <1>13. Below(kept, r.next + Len(batch))
    BY <1>4, <1>6, <1>7 DEF Below
  <1>14. ASSUME NEW k \in 1 .. Len(kept)
         PROVE  \/ \E i \in DOMAIN r.events : kept[k] = r.events[i]
                \/ \E i \in DOMAIN batch : kept[k] = batch[i]
    <2>1. PICK m \in 1 .. Len(all) : m = k + d /\ kept[k] = all[m]
      BY <1>6
    <2>2. CASE m <= Len(r.events)
      BY <1>2, <1>3, <2>1, <2>2
    <2>3. CASE ~(m <= Len(r.events))
      <3>1. m - Len(r.events) \in DOMAIN batch
        BY <1>2, <1>3, <1>5, <2>3
      <3>2. all[m] = batch[m - Len(r.events)]
        BY <1>3, <2>3
      <3>3. QED
        BY <2>1, <3>1, <3>2
    <2>4. QED
      BY <2>2, <2>3
  <1>15. ASSUME NEW i \in DOMAIN batch
         PROVE  \E k \in 1 .. Len(kept) : kept[k] = batch[i]
    <2> DEFINE n == i + Len(r.events)
    <2>1. /\ n \in 1 .. Len(all) /\ ~(n <= Len(r.events))
          /\ n - Len(r.events) = i
      BY <1>2, <1>3
    <2> HIDE DEF n
    <2>2. all[n] = batch[i]
      BY <1>3, <2>1
    <2>3. n - d \in 1 .. Len(kept) /\ (n - d) + d = n
      <3>1. i \in Nat /\ d <= Len(r.events) /\ n > Len(r.events) /\ n \in Nat
        BY <1>2, <1>5, <2>1
      <3>2. QED
        BY <1>2, <1>5, <2>1, <3>1
    <2>4. kept[n - d] = all[n]
      BY <1>6, <2>3
    <2>5. QED
      BY <2>2, <2>3, <2>4
  <1>16. \/ \A i \in DOMAIN r.events : \E k \in 1 .. Len(kept) : kept[k] = r.events[i]
         \/ r.next + Len(batch) > r.next /\ Len(kept) = Capacity
    <2>1. CASE d = 0
      <3>1. \A i \in DOMAIN r.events :
               i \in 1 .. Len(kept) /\ i + d = i /\ all[i] = r.events[i]
        BY <1>2, <1>3, <1>5, <2>1
      <3>2. QED
        BY <1>6, <3>1
    <2>2. CASE d > 0
      BY <1>1, <1>2, <1>5, <2>2
    <2>3. QED
      BY <1>5, <2>1, <2>2
  <1>17. QED
    BY <1>4, <1>10, <1>11, <1>12, <1>13, <1>14, <1>15, <1>16

\* The acknowledged records are a beginning of the ring: no other one goes.
LEMMA DrainedFacts ==
    ASSUME NEW r \in Ring, Increasing(r.events), Len(r.events) <= Capacity,
           NEW ack \in Ack
    PROVE  /\ Drained(r, ack) \in Ring
           /\ Drained(r, ack).generation = r.generation
           /\ Drained(r, ack).next = r.next
           /\ Len(Drained(r, ack).events) <= Capacity
           /\ Increasing(Drained(r, ack).events)
           /\ \A k \in DOMAIN Drained(r, ack).events :
                 \E i \in DOMAIN r.events : Drained(r, ack).events[k] = r.events[i]
           /\ \A i \in DOMAIN r.events :
                 \/ r.events[i].sequence <= ack.sequence
                 \/ \E k \in DOMAIN Drained(r, ack).events :
                       Drained(r, ack).events[k] = r.events[i]
  <1> DEFINE events == r.events
             acked == Acknowledged(events, ack)
             d == Cardinality(acked)
             n == Len(events)
             rest == SubSeq(events, d + 1, n)
  <1>1. /\ events \in Seq(Record) /\ n \in Nat /\ DOMAIN events = 1 .. n
        /\ r.generation \in Nat /\ r.next \in Nat /\ ack.sequence \in Nat
    BY LenProperties DEF Ring, Ack
  <1>2. \A i \in 1 .. n : events[i] \in Record /\ events[i].sequence \in Nat
    <2>1. \A i \in 1 .. n : events[i] \in Record
      BY <1>1, ElementOfSeq
    <2>2. QED
      BY <2>1 DEF Record
  <1>3. acked \in SUBSET (1 .. n) /\ IsFiniteSet(acked) /\ d \in 0 .. n
    <2>1. acked \in SUBSET (1 .. n)
      BY <1>1 DEF Acknowledged
    <2>2. IsFiniteSet(1 .. n) /\ Cardinality(1 .. n) = n
      <3>1. 1 \in Int /\ n \in Int /\ n - 1 + 1 = n
        BY <1>1
      <3> HIDE DEF n
      <3>2. QED
        BY <1>1, <3>1, FS_Interval
    <2>3. IsFiniteSet(acked) /\ d <= n
      BY <2>1, <2>2, FS_Subset
    <2>4. d \in Nat
      BY <2>3, FS_CardinalityType
    <2>5. QED
      BY <1>1, <2>1, <2>3, <2>4
  <1>4. ASSUME NEW i \in acked
        PROVE  i <= d
    <2>1. ASSUME NEW j \in 1 .. i
          PROVE  j \in acked
      <3>1. i \in 1 .. n /\ j \in 1 .. n /\ (j < i \/ j = i)
        BY <1>3
      <3>2. events[j].sequence <= events[i].sequence
        BY <1>1, <1>2, <3>1 DEF Increasing
      <3>3. events[i].sequence <= ack.sequence
        BY DEF Acknowledged
      <3>4. QED
        BY <1>1, <1>2, <3>1, <3>2, <3>3 DEF Acknowledged
    <2>2. i \in Nat /\ i >= 1
      BY <1>3
    <2>3. (1 .. i) \in SUBSET acked /\ Cardinality(1 .. i) = i
      BY <2>1, <2>2, FS_Interval
    <2>4. QED
      BY <1>3, <2>3, FS_Subset
  <1>5. ASSUME NEW i \in 1 .. n, i \notin acked
        PROVE  d < i
    <2>1. ASSUME NEW j \in acked
          PROVE  j \in 1 .. (i - 1)
      <3>1. j \in 1 .. n /\ events[j].sequence <= ack.sequence
        BY <1>3 DEF Acknowledged
      <3>2. ~(events[i].sequence <= ack.sequence)
        BY <1>1, <1>5 DEF Acknowledged
      <3>3. ~(i < j) /\ i # j
        <4>1. /\ events[i].sequence \in Nat /\ events[j].sequence \in Nat
              /\ ack.sequence \in Nat
          BY <1>1, <1>2, <3>1
        <4>2. i < j => events[i].sequence < events[j].sequence
          BY <1>1, <3>1 DEF Increasing
        <4>3. i # j
          BY <3>1, <3>2
        <4>4. QED
          BY <3>1, <3>2, <4>1, <4>2, <4>3
      <3>4. QED
        BY <3>1, <3>3
    <2>2. /\ IsFiniteSet(1 .. (i - 1))
          /\ Cardinality(1 .. (i - 1)) = i - 1
      BY FS_Interval
    <2>3. d <= i - 1
      BY <2>1, <2>2, FS_Subset
    <2>4. QED
      BY <1>3, <2>3
  <1>6. /\ rest \in Seq(Record)
        /\ Len(rest) = n - d
        /\ DOMAIN rest = 1 .. n - d
        /\ \A i \in 1 .. n - d : rest[i] = events[d + i]
    <2>1. /\ rest \in Seq(Record)
          /\ Len(rest) = IF d + 1 <= n THEN n - (d + 1) + 1 ELSE 0
          /\ \A i \in 1 .. n - (d + 1) + 1 : rest[i] = events[(d + 1) + i - 1]
      BY <1>1, <1>2, <1>3, SubSeqProperties
    <2>2. n - (d + 1) + 1 = n - d /\ Len(rest) = n - d
      BY <1>1, <1>3, <2>1
    <2>3. \A i \in 1 .. n - d : (d + 1) + i - 1 = d + i
      BY <1>3
    <2>4. DOMAIN rest = 1 .. Len(rest)
      BY <2>1, LenProperties
    <2>5. QED
      BY <2>1, <2>2, <2>3, <2>4
  <1>7. Drained(r, ack) = [r EXCEPT !.events = rest]
    BY DEF Drained
  <1> HIDE DEF rest, d, n
  <1>8. /\ Drained(r, ack) \in Ring
        /\ Drained(r, ack).generation = r.generation
        /\ Drained(r, ack).next = r.next
        /\ Drained(r, ack).events = rest
    <2>1. r = [generation |-> r.generation, next |-> r.next, events |-> r.events]
      BY DEF Ring
    <2>2. Drained(r, ack) = [generation |-> r.generation, next |-> r.next,
                             events |-> rest]
      BY <1>7, <2>1
    <2>3. QED
      BY <1>1, <1>6, <2>2 DEF Ring
  <1>9. Len(rest) <= Capacity
    BY <1>1, <1>3, <1>6, CapacityAssumption DEF n
  <1>10. ASSUME NEW k \in DOMAIN rest
         PROVE  d + k \in 1 .. n /\ rest[k] = events[d + k]
    BY <1>1, <1>3, <1>6
  <1>11. Increasing(rest)
    <2>1. ASSUME NEW i \in DOMAIN rest, NEW j \in DOMAIN rest, i < j
          PROVE  rest[i].sequence < rest[j].sequence
      <3>1. d + i < d + j
        BY <1>3, <1>6, <2>1
      <3>2. QED
        BY <1>1, <1>10, <3>1 DEF Increasing
    <2>2. QED
      BY <2>1 DEF Increasing
  <1>12. ASSUME NEW i \in 1 .. n, ~(events[i].sequence <= ack.sequence)
         PROVE  \E k \in DOMAIN rest : rest[k] = events[i]
    <2>1. d < i
      BY <1>5, <1>12 DEF Acknowledged
    <2>2. i - d \in DOMAIN rest /\ d + (i - d) = i
      BY <1>1, <1>3, <1>6, <2>1
    <2>3. rest[i - d] = events[d + (i - d)]
      BY <1>10, <2>2
    <2>4. QED
      BY <2>2, <2>3
  <1>13. QED
    BY <1>1, <1>8, <1>9, <1>10, <1>11, <1>12

-----------------------------------------------------------------------------
(* Steps of the game that publish.                                          *)

\* The observer before it publishes: refreshed, and told what is completed.
Queued(o, ready, completed) ==
    IF ready THEN QueueOnce(Refreshed(o, ready), completed)
    ELSE Refreshed(o, ready)

Fresh == [generation |-> ring.generation + 1, next |-> 0, events |-> <<>>]

\* The common part of TakeReward, EvaluatePing and the two reloads.
Publishes(o, r, completed, chosen) ==
    LET q == Queued(o, loaded # NoSave /\ bound', completed)
    IN  /\ observer' = Published(q, r, Batch(q, r, chosen))
        /\ ring' = Emit(r, Batch(q, r, chosen))

\* The queued observer is empty, or the old one with more to offer.
LEMMA QueuedFacts ==
    ASSUME TypeOK, PublicationsKnown, OfferedUntilCommitted,
           NEW o \in {observer, ClearedObserver},
           NEW ready \in BOOLEAN, ready => loaded # NoSave,
           NEW completed \in SUBSET Locations
    PROVE  LET q == Queued(o, ready, completed)
           IN  /\ q \in Observer
               /\ q.pending \subseteq q.observed
               /\ q.save # NoSave =>
                     q.observed \ q.pending \subseteq ledger[q.save]
               /\ q.save = IF ready THEN loaded ELSE NoSave
               /\ \A l \in Locations :
                     \/ q.published[l] = [generation |-> 0, sequence |-> -1]
                     \/ /\ q.published[l] = observer.published[l]
                        /\ q.save = observer.save
                        /\ q.published[l].sequence >= 0 => l \in q.observed
  <1> DEFINE q == Queued(o, ready, completed)
             f == Refreshed(o, ready)
  <1>1. /\ observer \in Observer /\ loaded \in Saves \cup {NoSave}
        /\ observer.pending \subseteq observer.observed
        /\ observer.save # NoSave =>
              observer.observed \ observer.pending \subseteq ledger[observer.save]
        /\ \A l \in Locations :
              observer.published[l].sequence >= 0 => l \in observer.observed
    BY DEF TypeOK, Observer, PublicationsKnown, OfferedUntilCommitted
  <1>2. Unpublished \in [Locations -> Publication]
    BY DEF Unpublished, Publication
  <1>3. \/ f = observer /\ ready /\ observer.save = loaded
        \/ /\ f.observed = {} /\ f.pending = {} /\ f.published = Unpublished
           /\ f.save = IF ready THEN loaded ELSE NoSave
           /\ f \in Observer
    BY <1>1, <1>2 DEF Refreshed, ClearedObserver, Observer
  <1>4. /\ f \in Observer
        /\ f.pending \subseteq f.observed
        /\ f.save # NoSave => f.observed \ f.pending \subseteq ledger[f.save]
        /\ f.save = IF ready THEN loaded ELSE NoSave
        /\ \A l \in Locations :
              \/ f.published[l] = [generation |-> 0, sequence |-> -1]
              \/ /\ f.published[l] = observer.published[l]
                 /\ f.save = observer.save
                 /\ f.published[l].sequence >= 0 => l \in f.observed
    BY <1>1, <1>3 DEF Unpublished
  <1>5. CASE ~ready
    BY <1>4, <1>5 DEF Queued
  <1>6. CASE ready
    <2> HIDE DEF f
    <2>1. q = [f EXCEPT !.observed = @ \cup completed,
                        !.pending = @ \cup (completed \ f.observed)]
      BY <1>6 DEF Queued, QueueOnce, f
    <2>2. /\ q \in Observer
          /\ q.save = f.save
          /\ q.observed = f.observed \cup completed
          /\ q.pending = f.pending \cup (completed \ f.observed)
          /\ q.published = f.published
      BY <1>4, <2>1 DEF Observer
    <2> HIDE DEF q
    <2>3. QED
      BY <1>4, <1>6, <2>2 DEF q
  <1>7. QED
    BY <1>5, <1>6

\* The ring only goes forward: its records and the publications are the old
\* ones, or new ones above every sequence that was given out.
Forward ==
    /\ ring' \in Ring
    /\ Len(ring'.events) <= Capacity
    /\ RingOrdered'
    /\ observer' \in Observer
    /\ ring.generation <= ring'.generation
    /\ ring'.generation = ring.generation =>
          /\ ring.next <= ring'.next
          /\ \A k \in DOMAIN ring'.events :
                \/ ring.next <= ring'.events[k].sequence
                \/ \E i \in DOMAIN ring.events : ring'.events[k] = ring.events[i]
    /\ \A l \in Locations :
          LET p == observer'.published[l]
          IN  \/ /\ p.generation = ring'.generation
                 /\ ring'.generation = ring.generation => ring.next <= p.sequence
                 /\ p.sequence < ring'.next
                 /\ l \in observer'.observed
              \/ p = [generation |-> 0, sequence |-> -1]
              \/ /\ p = observer.published[l]
                 /\ observer'.save = observer.save
                 /\ p.sequence >= 0 => l \in observer'.observed

LEMMA FreshRing ==
    ASSUME TypeOK, RingOrdered, NEW r \in {ring, Fresh}
    PROVE  /\ r \in Ring /\ Len(r.events) <= Capacity
           /\ Increasing(r.events) /\ Below(r.events, r.next)
           /\ ring.generation <= r.generation
           /\ r.generation = ring.generation => r = ring
  <1>1. ring \in Ring /\ Len(ring.events) <= Capacity
    BY DEF TypeOK, Ring
  <1>2. CASE r = ring
    BY <1>1, <1>2 DEF RingOrdered, Ring
  <1>3. CASE r = Fresh
    <2>1. r.events = <<>> /\ r.next = 0 /\ r.generation = ring.generation + 1
      BY <1>3 DEF Fresh
    <2>2. ring.generation \in Nat
      BY <1>1 DEF Ring
    <2>3. r \in Ring
      BY <1>3, <2>2 DEF Fresh, Ring
    <2>4. QED
      BY <2>1, <2>2, <2>3, CapacityAssumption DEF Increasing, Below
  <1>4. QED
    BY <1>2, <1>3

\* The observed save is the bound one, each chosen location that is pending has
\* its record in the ring, and a record goes only from a full ring.
Outcome(chosen) ==
    /\ observer'.pending \subseteq observer'.observed
    /\ observer'.save = IF bound' THEN loaded ELSE NoSave
    /\ observer'.save # NoSave =>
          observer'.observed \ observer'.pending \subseteq ledger[observer'.save]
    /\ \A l \in observer'.pending \cap chosen :
          \E k \in DOMAIN ring'.events :
             /\ ring'.events[k].location = l
             /\ ring'.events[k].sequence = observer'.published[l].sequence
    /\ ring'.generation = ring.generation =>
          \/ \A i \in DOMAIN ring.events :
                \E k \in DOMAIN ring'.events : ring'.events[k] = ring.events[i]
          \/ ring'.next > ring.next /\ Len(ring'.events) = Capacity

\* A publishing step goes forward.
LEMMA PublishesFacts ==
    ASSUME TypeOK, RingOrdered, PublicationsKnown, OfferedUntilCommitted,
           NEW o \in {observer, ClearedObserver}, NEW r \in {ring, Fresh},
           NEW completed \in SUBSET Locations, NEW chosen,
           bound' \in BOOLEAN, bound' => loaded # NoSave,
           Publishes(o, r, completed, chosen)
    PROVE  Forward /\ ring'.generation = r.generation /\ Outcome(chosen)
  <1> DEFINE ready == loaded # NoSave /\ bound'
             q == Queued(o, ready, completed)
             b == Batch(q, r, chosen)
  <1>1. ready \in BOOLEAN /\ ready => loaded # NoSave
    OBVIOUS
  <1>2. /\ q \in Observer
        /\ q.pending \subseteq q.observed
        /\ q.save # NoSave => q.observed \ q.pending \subseteq ledger[q.save]
        /\ q.save = IF bound' THEN loaded ELSE NoSave
        /\ \A l \in Locations :
              \/ q.published[l] = [generation |-> 0, sequence |-> -1]
              \/ /\ q.published[l] = observer.published[l]
                 /\ q.save = observer.save
                 /\ q.published[l].sequence >= 0 => l \in q.observed
    BY <1>1, QueuedFacts
  <1>3. /\ r \in Ring /\ Len(r.events) <= Capacity
        /\ Increasing(r.events) /\ Below(r.events, r.next)
        /\ ring.generation <= r.generation
        /\ r.generation = ring.generation => r = ring
    BY FreshRing
  <1> HIDE DEF q
  <1>4. /\ b \in Seq(Record)
        /\ Len(b) <= Capacity
        /\ \A k \in DOMAIN b : /\ b[k].sequence = r.next + k - 1
                               /\ b[k].location \in q.pending \cap chosen
        /\ \A l \in q.pending \cap chosen : \E k \in DOMAIN b : b[k].location = l
    BY <1>2, <1>3, BatchFacts
  <1>5. observer' = Published(q, r, b) /\ ring' = Emit(r, b)
    BY DEF Publishes, q
  <1> HIDE DEF b
  <1>6. /\ observer'.save = q.save
        /\ observer'.observed = q.observed
        /\ observer'.pending = q.pending
        /\ observer' \in Observer
        /\ \A l \in Locations :
              \/ /\ observer'.published[l].generation = r.generation
                 /\ \E k \in DOMAIN b :
                       /\ b[k].location = l
                       /\ observer'.published[l].sequence = b[k].sequence
              \/ /\ observer'.published[l] = q.published[l]
                 /\ \A k \in DOMAIN b : b[k].location # l
    <2>1. q \in Observer /\ r \in Ring /\ b \in Seq(Record)
      BY <1>2, <1>3, <1>4
    <2>2. /\ Published(q, r, b).save = q.save
          /\ Published(q, r, b).observed = q.observed
          /\ Published(q, r, b).pending = q.pending
          /\ Published(q, r, b) \in Observer
      BY <2>1, PublishedFacts
    <2>3. \A l \in Locations :
             LET p == Published(q, r, b).published[l]
             IN  \/ /\ p.generation = r.generation
                    /\ \E k \in DOMAIN b : /\ b[k].location = l
                                           /\ p.sequence = b[k].sequence
                 \/ /\ p = q.published[l]
                    /\ \A k \in DOMAIN b : b[k].location # l
      BY <2>1, PublishedFacts, Zenon
    <2>4. QED
      BY <1>5, <2>2, <2>3
  <1>7. /\ ring' \in Ring
        /\ ring'.generation = r.generation
        /\ ring'.next = r.next + Len(b)
        /\ Len(ring'.events) <= Capacity
        /\ Increasing(ring'.events)
        /\ Below(ring'.events, ring'.next)
        /\ \A k \in DOMAIN ring'.events :
              \/ \E i \in DOMAIN r.events : ring'.events[k] = r.events[i]
              \/ \E i \in DOMAIN b : ring'.events[k] = b[i]
        /\ \A i \in DOMAIN b :
              \E k \in DOMAIN ring'.events : ring'.events[k] = b[i]
        /\ \/ \A i \in DOMAIN r.events :
                 \E k \in DOMAIN ring'.events : ring'.events[k] = r.events[i]
           \/ ring'.next > r.next /\ Len(ring'.events) = Capacity
    <2>1. Consecutive(b, r.next)
      BY <1>4 DEF Consecutive
    <2>2. QED
      BY <1>3, <1>4, <1>5, <2>1, EmitFacts
  <1>8. r.next \in Nat /\ Len(b) \in Nat /\ DOMAIN b = 1 .. Len(b)
    BY <1>3, <1>4, LenProperties DEF Ring
  <1>9. \A k \in DOMAIN b : r.next <= b[k].sequence /\ b[k].sequence < ring'.next
    BY <1>4, <1>7, <1>8
  <1>10. RingOrdered'
    BY <1>7 DEF RingOrdered, Increasing, Below
  <1>11. ASSUME NEW l \in Locations
         PROVE  LET p == observer'.published[l]
                IN  \/ /\ p.generation = ring'.generation
                       /\ ring'.generation = ring.generation
                             => ring.next <= p.sequence
                       /\ p.sequence < ring'.next
                       /\ l \in observer'.observed
                    \/ p = [generation |-> 0, sequence |-> -1]
                    \/ /\ p = observer.published[l]
                       /\ observer'.save = observer.save
                       /\ p.sequence >= 0 => l \in observer'.observed
    <2>1. CASE \A k \in DOMAIN b : b[k].location # l
      BY <1>2, <1>6, <2>1
    <2>2. CASE \E k \in DOMAIN b : b[k].location = l
      <3>1. PICK k \in DOMAIN b :
               /\ b[k].location = l
               /\ observer'.published[l].sequence = b[k].sequence
               /\ observer'.published[l].generation = r.generation
        BY <1>6, <2>2
      <3>2. l \in observer'.observed
        BY <1>2, <1>4, <1>6, <3>1
      <3>3. QED
        BY <1>3, <1>7, <1>9, <3>1, <3>2
    <2>3. QED
      BY <2>1, <2>2
  <1>12. ring'.generation = ring.generation =>
            /\ ring.next <= ring'.next
            /\ \A k \in DOMAIN ring'.events :
                  \/ ring.next <= ring'.events[k].sequence
                  \/ \E i \in DOMAIN ring.events : ring'.events[k] = ring.events[i]
    BY <1>3, <1>7, <1>8, <1>9
  <1>13. Forward
    BY <1>3, <1>6, <1>7, <1>10, <1>11, <1>12 DEF Forward
  <1>14. ASSUME NEW l \in observer'.pending \cap chosen
         PROVE  \E k \in DOMAIN ring'.events :
                   /\ ring'.events[k].location = l
                   /\ ring'.events[k].sequence = observer'.published[l].sequence
    <2>1. l \in Locations /\ l \in q.pending \cap chosen
      BY <1>2, <1>6 DEF Observer
    <2>2. PICK k \in DOMAIN b :
             /\ b[k].location = l
             /\ observer'.published[l].sequence = b[k].sequence
      BY <1>4, <1>6, <2>1
    <2>3. PICK j \in DOMAIN ring'.events : ring'.events[j] = b[k]
      BY <1>7
    <2>4. QED
      BY <2>2, <2>3
  <1>15. QED
    BY <1>2, <1>3, <1>6, <1>7, <1>13, <1>14 DEF Outcome

\* Going forward disturbs neither what an acknowledgement covers ...
LEMMA ForwardKeepsAcks ==
    ASSUME TypeOK, PublicationsKnown, AcksKnown, AcksCovered, AcksCommitted,
           Forward, observer'.pending \subseteq observer'.observed,
           ledger' = ledger,
           \A ack \in Ack : OnTheWay(ack)' => OnTheWay(ack)
    PROVE  /\ PublicationsKnown'
           /\ AcksKnown'
           /\ AcksCovered'
           /\ AcksCommitted'
  <1>1. /\ ring.generation \in Nat /\ ring.next \in Nat
        /\ ring'.generation \in Nat /\ ring'.next \in Nat
        /\ ring.generation <= ring'.generation
        /\ ring'.generation = ring.generation => ring.next <= ring'.next
    BY DEF TypeOK, Forward, Ring
  <1>2. \A ack \in Ack : ack.generation \in Nat /\ ack.sequence \in Nat
    BY DEF Ack
  <1>3. \A l \in Locations :
           /\ observer'.published[l].generation \in Nat
           /\ observer'.published[l].sequence \in Nat \cup {-1}
    BY DEF Forward, Observer, Publication
  <1>4. PublicationsKnown'
    <2>1. ASSUME NEW l \in Locations
          PROVE  LET p == observer'.published[l]
                 IN  /\ p.generation <= ring'.generation
                     /\ p.generation = ring'.generation => p.sequence < ring'.next
                     /\ p.sequence >= 0 => l \in observer'.observed
      <3> DEFINE p == observer'.published[l]
      <3>1. CASE /\ p.generation = ring'.generation
                 /\ p.sequence < ring'.next
                 /\ l \in observer'.observed
        BY <1>1, <3>1
      <3>2. CASE p = [generation |-> 0, sequence |-> -1]
        BY <1>1, <3>2
      <3>3. CASE /\ p = observer.published[l]
                 /\ p.sequence >= 0 => l \in observer'.observed
        <4>1. /\ p.generation <= ring.generation
              /\ p.generation = ring.generation => p.sequence < ring.next
          BY <3>3 DEF PublicationsKnown
        <4>2. QED
          BY <1>1, <1>3, <3>3, <4>1
      <3>4. QED
        BY <3>1, <3>2, <3>3 DEF Forward
    <2>2. QED
      BY <2>1 DEF PublicationsKnown
  <1>5. AcksKnown'
    <2>1. ASSUME NEW ack \in Ack, OnTheWay(ack)'
          PROVE  /\ ack.generation <= ring'.generation
                 /\ ack.generation = ring'.generation => ack.sequence < ring'.next
      <3>1. /\ ack.generation <= ring.generation
            /\ ack.generation = ring.generation => ack.sequence < ring.next
        BY <2>1 DEF AcksKnown
      <3>2. QED
        BY <1>1, <1>2, <3>1
    <2>2. QED
      BY <2>1 DEF AcksKnown
  <1>6. AcksCovered'
    <2>1. ASSUME NEW ack \in Ack, NEW l \in Locations, observer'.save # NoSave,
                 OnTheWay(ack)', AckOne(observer'.published[l], ack)
          PROVE  l \in ledger[observer'.save]
      <3> DEFINE p == observer'.published[l]
      <3>1. /\ OnTheWay(ack)
            /\ ack.generation = p.generation
            /\ p.sequence >= 0
            /\ p.sequence <= ack.sequence
        BY <2>1 DEF AckOne
      <3>2. /\ ack.generation <= ring.generation
            /\ ack.generation = ring.generation => ack.sequence < ring.next
        BY <3>1 DEF AcksKnown
      <3>3. CASE /\ p.generation = ring'.generation
                 /\ ring'.generation = ring.generation => ring.next <= p.sequence
        BY <1>1, <1>2, <1>3, <3>1, <3>2, <3>3
      <3>4. CASE p = [generation |-> 0, sequence |-> -1]
        BY <3>1, <3>4
      <3>5. CASE p = observer.published[l] /\ observer'.save = observer.save
        BY <2>1, <3>1, <3>5 DEF AcksCovered
      <3>6. QED
        BY <3>3, <3>4, <3>5 DEF Forward
    <2>2. QED
      BY <2>1 DEF AcksCovered
  <1>7. AcksCommitted'
    <2>1. ASSUME NEW ack \in Ack, OnTheWay(ack)',
                 ack.generation = ring'.generation,
                 NEW k \in DOMAIN ring'.events,
                 ring'.events[k].sequence <= ack.sequence
          PROVE  \/ ring'.events[k].location = NoLocation
                 \/ Committed(ring'.events[k].location)
      <3>1. /\ OnTheWay(ack)
            /\ ring'.generation = ring.generation
            /\ ack.sequence < ring.next
        BY <1>1, <1>2, <2>1 DEF AcksKnown
      <3>2. ring'.events[k].sequence \in Nat
        <4>1. ring'.events[k] \in Record
          BY ElementOfSeq, LenProperties DEF Forward, Ring
        <4>2. QED
          BY <4>1 DEF Record
      <3>3. PICK i \in DOMAIN ring.events : ring'.events[k] = ring.events[i]
        <4>1. ~(ring.next <= ring'.events[k].sequence)
          BY <1>1, <1>2, <2>1, <3>1, <3>2
        <4>2. QED
          BY <3>1, <4>1 DEF Forward
      <3>4. QED
        BY <2>1, <3>1, <3>3 DEF AcksCommitted
    <2>2. QED
      BY <2>1 DEF AcksCommitted, Committed
  <1>8. QED
    BY <1>4, <1>5, <1>6, <1>7

\* ... nor what a waiting snapshot shows.
LEMMA ForwardKeepsSnapshot ==
    ASSUME TypeOK, SnapshotKnown, SnapshotCovers, SnapshotHolds, Forward,
           observer'.save \in {observer.save, NoSave},
           UNCHANGED <<snapshot, session, ledger>>
    PROVE  SnapshotKnown' /\ SnapshotCovers' /\ SnapshotHolds'
  <1>1. CASE snapshot = NoSnapshot
    BY <1>1 DEF SnapshotKnown, SnapshotCovers, SnapshotHolds
  <1>2. CASE snapshot # NoSnapshot
    <2>1. /\ ring.generation \in Nat /\ ring.next \in Nat
          /\ ring'.generation \in Nat /\ ring'.next \in Nat
          /\ ring.generation <= ring'.generation
          /\ ring'.generation = ring.generation => ring.next <= ring'.next
      BY DEF TypeOK, Forward, Ring
    <2>2. /\ snapshot.generation \in Nat
          /\ snapshot.generation <= ring.generation
          /\ snapshot.generation = ring.generation
                => Below(snapshot.events, ring.next)
          /\ Increasing(snapshot.events)
          /\ observer.save # NoSave => session \in {observer.save, NoSave}
      BY <1>2 DEF SnapshotKnown, TypeOK, Snapshot
    <2>3. \A i \in DOMAIN snapshot.events : snapshot.events[i].sequence \in Nat
      <3>1. snapshot.events \in Seq(Record)
        BY <1>2 DEF TypeOK, Snapshot
      <3>2. \A i \in DOMAIN snapshot.events : snapshot.events[i] \in Record
        BY <3>1, ElementOfSeq, LenProperties
      <3>3. QED
        BY <3>2 DEF Record
    <2>4. \A l \in Locations :
             /\ observer'.published[l].generation \in Nat
             /\ observer'.published[l].sequence \in Nat \cup {-1}
      BY DEF Forward, Observer, Publication
    <2>5. SnapshotKnown'
      <3>1. snapshot.generation <= ring'.generation
        BY <2>1, <2>2
      <3>2. ASSUME snapshot.generation = ring'.generation,
                   NEW i \in DOMAIN snapshot.events
            PROVE  snapshot.events[i].sequence < ring'.next
        BY <2>1, <2>2, <2>3, <3>2 DEF Below
      <3>3. observer'.save # NoSave => session \in {observer'.save, NoSave}
        BY <2>2
      <3>4. QED
        BY <2>2, <3>1, <3>2, <3>3 DEF SnapshotKnown, Below, Increasing
    <2>6. SnapshotCovers'
      <3>1. ASSUME observer'.save # NoSave,
                   NEW l \in Locations, NEW i \in DOMAIN snapshot.events,
                   observer'.published[l].generation = snapshot.generation,
                   observer'.published[l].sequence >= 0,
                   observer'.published[l].sequence <= snapshot.events[i].sequence
            PROVE  \/ l \in ledger[observer'.save]
                   \/ \E j \in DOMAIN snapshot.events :
                         /\ j <= i
                         /\ snapshot.events[j].location = l
        <4> DEFINE p == observer'.published[l]
        <4>1. CASE /\ p.generation = ring'.generation
                   /\ ring'.generation = ring.generation
                         => ring.next <= p.sequence
          <5>1. snapshot.generation = ring.generation
            BY <2>1, <2>2, <3>1, <4>1
          <5>2. snapshot.events[i].sequence < ring.next
            BY <2>2, <5>1 DEF Below
          <5>3. ring.next <= p.sequence
            BY <3>1, <4>1, <5>1
          <5>4. QED
            BY <2>1, <2>3, <2>4, <3>1, <5>2, <5>3
        <4>2. CASE p = [generation |-> 0, sequence |-> -1]
          BY <3>1, <4>2
        <4>3. CASE p = observer.published[l] /\ observer'.save = observer.save
          BY <1>2, <3>1, <4>3 DEF SnapshotCovers
        <4>4. QED
          BY <4>1, <4>2, <4>3 DEF Forward
      <3>2. QED
        BY <3>1 DEF SnapshotCovers
    <2>7. SnapshotHolds'
      <3>1. ASSUME snapshot.generation = ring'.generation,
                   NEW k \in DOMAIN ring'.events, NEW i \in DOMAIN snapshot.events,
                   ring'.events[k].sequence <= snapshot.events[i].sequence
            PROVE  \E j \in DOMAIN snapshot.events :
                      /\ j <= i
                      /\ snapshot.events[j].location = ring'.events[k].location
        <4>1. snapshot.generation = ring.generation
          BY <2>1, <2>2, <3>1
        <4>2. snapshot.events[i].sequence < ring.next
          BY <2>2, <4>1 DEF Below
        <4>3. ring'.events[k].sequence \in Nat
          <5>1. ring'.events[k] \in Record
            BY ElementOfSeq, LenProperties DEF Forward, Ring
          <5>2. QED
            BY <5>1 DEF Record
        <4>4. PICK m \in DOMAIN ring.events : ring'.events[k] = ring.events[m]
          <5>1. ~(ring.next <= ring'.events[k].sequence)
            BY <2>1, <2>3, <3>1, <4>2, <4>3
          <5>2. QED
            BY <3>1, <4>1, <5>1 DEF Forward
        <4>5. QED
          BY <1>2, <3>1, <4>1, <4>4 DEF SnapshotHolds
      <3>2. QED
        BY <3>1 DEF SnapshotHolds
    <2>8. QED
      BY <2>5, <2>6, <2>7
  <1>3. QED
    BY <1>1, <1>2

-----------------------------------------------------------------------------
(* The steps of the game.                                                   *)

\* What RecordsLeaveCommitted says of a step.
RecordsKept ==
    ring'.generation = ring.generation =>
       \A i \in DOMAIN ring.events :
          \/ ring.events[i].location = NoLocation
          \/ \E j \in DOMAIN ring'.events : ring'.events[j] = ring.events[i]
          \/ ring'.next > ring.next /\ Len(ring'.events) = Capacity
          \/ Committed(ring.events[i].location)

\* A step that touches none of the parties of the agreement.
LEMMA QuietStep ==
    ASSUME OInv, TypeOK', BoundObserved',
           UNCHANGED <<observer, ring, forms, snapshot, session, ackPending,
                       ledger>>
    PROVE  OInv' /\ RecordsKept
  <1>1. \A ack \in Ack : OnTheWay(ack)' = OnTheWay(ack)
    BY DEF OnTheWay
  <1>2. RingOrdered' /\ PublicationsKnown' /\ SnapshotKnown' /\ SnapshotCovers'
    BY DEF OInv, RingOrdered, PublicationsKnown, SnapshotKnown, SnapshotCovers,
           Increasing, Below
  <1>3. OnePing'
    BY DEF OInv, OnePing, IsPing
  <1>4. AcksKnown' /\ AcksCovered' /\ AcksCommitted'
    BY <1>1 DEF OInv, AcksKnown, AcksCovered, AcksCommitted, Committed
  <1>5. SnapshotHolds' /\ OfferedUntilCommitted'
    BY DEF OInv, SnapshotHolds, OfferedUntilCommitted
  <1>6. QED
    BY <1>2, <1>3, <1>4, <1>5 DEF OInv, RecordsKept

\* What every publishing step keeps.
LEMMA PublishKeeps ==
    ASSUME OInv,
           NEW o \in {observer, ClearedObserver}, NEW r \in {ring, Fresh},
           NEW completed \in SUBSET Locations, NEW chosen,
           bound' \in BOOLEAN, bound' => loaded # NoSave,
           Publishes(o, r, completed, chosen),
           UNCHANGED <<loaded, ledger>>,
           \A ack \in Ack : OnTheWay(ack)' => OnTheWay(ack)
    PROVE  /\ observer' \in Observer
           /\ ring' \in Ring /\ Len(ring'.events) <= Capacity
           /\ RingOrdered'
           /\ BoundObserved'
           /\ PublicationsKnown'
           /\ AcksKnown'
           /\ AcksCovered'
           /\ AcksCommitted'
           /\ OfferedUntilCommitted'
           /\ RecordsKept
  <1>1. /\ Forward
        /\ observer'.pending \subseteq observer'.observed
        /\ observer'.save = IF bound' THEN loaded ELSE NoSave
        /\ observer'.save # NoSave =>
              observer'.observed \ observer'.pending \subseteq ledger[observer'.save]
        /\ ring'.generation = ring.generation =>
              \/ \A i \in DOMAIN ring.events :
                    \E k \in DOMAIN ring'.events : ring'.events[k] = ring.events[i]
              \/ ring'.next > ring.next /\ Len(ring'.events) = Capacity
    <2>1. TypeOK /\ RingOrdered /\ PublicationsKnown /\ OfferedUntilCommitted
      BY DEF OInv
    <2>2. Forward /\ Outcome(chosen)
      BY <2>1, PublishesFacts
    <2>3. QED
      BY <2>2 DEF Outcome
  <1>2. PublicationsKnown' /\ AcksKnown' /\ AcksCovered' /\ AcksCommitted'
    BY <1>1, ForwardKeepsAcks DEF OInv
  <1>3. BoundObserved' /\ OfferedUntilCommitted'
    BY <1>1 DEF BoundObserved, OfferedUntilCommitted
  <1>4. RecordsKept
    BY <1>1 DEF RecordsKept
  <1>5. QED
    BY <1>1, <1>2, <1>3, <1>4 DEF Forward

\* A publishing step that the client has no part in.
LEMMA PublishStep ==
    ASSUME OInv,
           NEW o \in {observer, ClearedObserver}, NEW r \in {ring, Fresh},
           NEW completed \in SUBSET Locations, NEW chosen,
           Publishes(o, r, completed, chosen),
           native' \in [Saves -> SUBSET Locations], faults' \in Nat,
           UNCHANGED <<loaded, restoring, bound, forms, snapshot, clientVars>>
    PROVE  OInv' /\ RecordsKept
  <1>1. bound' \in BOOLEAN /\ (bound' => loaded # NoSave)
    BY DEF OInv, TypeOK, BoundObserved
  <1>2. \A ack \in Ack : OnTheWay(ack)' => OnTheWay(ack)
    BY DEF OnTheWay, clientVars
  <1>3. ledger' = ledger /\ session' = session /\ ackPending' = ackPending
        /\ authenticated' = authenticated /\ readOnly' = readOnly
    BY DEF clientVars
  <1>4. /\ observer' \in Observer
        /\ ring' \in Ring /\ Len(ring'.events) <= Capacity
        /\ RingOrdered'
        /\ BoundObserved'
        /\ PublicationsKnown'
        /\ AcksKnown'
        /\ AcksCovered'
        /\ AcksCommitted'
        /\ OfferedUntilCommitted'
        /\ RecordsKept
    BY <1>1, <1>2, <1>3, PublishKeeps
  <1>5. TypeOK'
    BY <1>3, <1>4 DEF OInv, TypeOK, Observer, Ring
  <1>6. Forward /\ observer'.save = IF bound' THEN loaded ELSE NoSave
    <2>1. TypeOK /\ RingOrdered /\ PublicationsKnown /\ OfferedUntilCommitted
      BY DEF OInv
    <2>2. Forward /\ Outcome(chosen)
      BY <1>1, <2>1, PublishesFacts
    <2>3. QED
      BY <2>2 DEF Outcome
  <1>7. observer'.save \in {observer.save, NoSave}
    BY <1>6 DEF OInv, BoundObserved
  <1>8. SnapshotKnown' /\ SnapshotCovers' /\ SnapshotHolds'
    BY <1>3, <1>6, <1>7, ForwardKeepsSnapshot DEF OInv
  <1>9. OnePing'
    BY <1>3 DEF OInv, OnePing, IsPing
  <1>10. QED
    BY <1>4, <1>5, <1>8, <1>9 DEF OInv

\* ap-export-state! publishes whatever is pending.
LEMMA ExportPublishes ==
    ASSUME OInv, NEW o, NEW r, Export(o, r, bound')
    PROVE  \E completed \in SUBSET Locations :
              Publishes(o, r, completed, Locations)
  <1> DEFINE done == IF loaded # NoSave THEN native[loaded] ELSE {}
  <1>1. done \in SUBSET Locations
    BY DEF OInv, TypeOK
  <1>2. Publishes(o, r, done, Locations)
    BY DEF Export, Publishes, Queued
  <1>3. QED
    BY <1>1, <1>2

LEMMA QuietGameSteps ==
    ASSUME OInv,
           \/ \E l \in Locations : CompleteTask(l)
           \/ \E s \in Saves : BeginRestore(s)
           \/ FinishRestore
    PROVE  OInv' /\ RecordsKept
  <1>1. CASE \E l \in Locations : CompleteTask(l)
    <2>1. TypeOK' /\ BoundObserved'
      BY <1>1 DEF OInv, TypeOK, BoundObserved, CompleteTask, clientVars
    <2>2. QED
      BY <1>1, <2>1, QuietStep DEF CompleteTask, clientVars
  <1>2. CASE \E s \in Saves : BeginRestore(s)
    <2>1. TypeOK' /\ BoundObserved'
      BY <1>2 DEF OInv, TypeOK, BoundObserved, BeginRestore, clientVars
    <2>2. QED
      BY <1>2, <2>1, QuietStep DEF BeginRestore, clientVars
  <1>3. CASE FinishRestore
    <2>1. TypeOK' /\ BoundObserved'
      <3>1. faults' \in Nat /\ loaded' \in Saves \cup {NoSave}
        BY <1>3 DEF OInv, TypeOK, FinishRestore, Fault
      <3>2. QED
        BY <1>3, <3>1 DEF OInv, TypeOK, BoundObserved, FinishRestore, clientVars
    <2>2. QED
      BY <1>3, <2>1, QuietStep DEF FinishRestore, clientVars
  <1>4. QED
    BY <1>1, <1>2, <1>3

LEMMA TakeRewardStep ==
    ASSUME OInv, NEW l \in Rewards, TakeReward(l)
    PROVE  OInv' /\ RecordsKept
  <1>1. l \in Locations /\ {l} \in SUBSET Locations
    BY RewardAssumption
  <1>2. native' \in [Saves -> SUBSET Locations] /\ faults' \in Nat
    BY <1>1 DEF OInv, TypeOK, TakeReward
  <1>3. bound' = bound
    BY DEF TakeReward
  <1>4. Publishes(observer, ring, {l}, {l})
    BY <1>3 DEF TakeReward, Publishes, Queued, DescriptorReady
  <1>5. QED
    BY <1>1, <1>2, <1>4, PublishStep DEF TakeReward

LEMMA ReloadSteps ==
    ASSUME OInv, ReloadDiagnostics \/ ReloadLocations
    PROVE  OInv' /\ RecordsKept
  <1>1. native' \in [Saves -> SUBSET Locations] /\ faults' \in Nat
    BY DEF OInv, TypeOK, ReloadDiagnostics, ReloadLocations, Fault
  <1>2. /\ bound' = bound
        /\ UNCHANGED <<loaded, restoring, bound, forms, snapshot, clientVars>>
    BY DEF ReloadDiagnostics, ReloadLocations
  <1>3. CASE ReloadDiagnostics
    <2>1. Export(observer, Fresh, bound')
      BY <1>2, <1>3 DEF ReloadDiagnostics, Fresh
    <2>2. QED
      BY <1>1, <1>2, <2>1, ExportPublishes, PublishStep
  <1>4. CASE ReloadLocations
    <2>1. Export(ClearedObserver, ring, bound')
      BY <1>2, <1>4 DEF ReloadLocations
    <2>2. QED
      BY <1>1, <1>2, <2>1, ExportPublishes, PublishStep
  <1>5. QED
    BY <1>3, <1>4

\* Another record leaves every publication as it is.
LEMMA EmitOtherStep ==
    ASSUME OInv, EmitOther
    PROVE  OInv' /\ RecordsKept
  <1> DEFINE rec == [sequence |-> ring.next, location |-> NoLocation]
             b == <<rec>>
  <1>1. /\ ring \in Ring /\ Len(ring.events) <= Capacity
        /\ Increasing(ring.events) /\ Below(ring.events, ring.next)
        /\ observer \in Observer
    BY DEF OInv, TypeOK, Ring, Observer, RingOrdered
  <1>2. rec \in Record /\ rec.sequence = ring.next /\ ring.next \in Nat
    BY <1>1 DEF Ring, Record
  <1>3. /\ UNCHANGED <<native, loaded, restoring, bound, observer, forms,
                       snapshot, session, authenticated, readOnly, ackPending,
                       ledger>>
        /\ faults' \in Nat
        /\ ring' = Emit(ring, b)
    BY DEF OInv, TypeOK, EmitOther, Fault, clientVars
  <1> HIDE DEF rec
  <1>4. /\ b \in Seq(Record) /\ Len(b) <= Capacity
        /\ Len(b) = 1 /\ \A i \in DOMAIN b : b[i] = rec
        /\ Consecutive(b, ring.next)
    BY <1>2, CapacityAssumption DEF Consecutive
  <1> HIDE DEF b
  <1>5. /\ ring' \in Ring
        /\ ring'.generation = ring.generation
        /\ ring'.next = ring.next + 1
        /\ Len(ring'.events) <= Capacity
        /\ Increasing(ring'.events)
        /\ Below(ring'.events, ring'.next)
        /\ \A k \in DOMAIN ring'.events :
              \/ \E i \in DOMAIN ring.events : ring'.events[k] = ring.events[i]
              \/ ring'.events[k] = rec
        /\ \/ \A i \in DOMAIN ring.events :
                 \E k \in DOMAIN ring'.events : ring'.events[k] = ring.events[i]
           \/ ring'.next > ring.next /\ Len(ring'.events) = Capacity
    <2>1. /\ Emit(ring, b) \in Ring
          /\ Emit(ring, b).generation = ring.generation
          /\ Emit(ring, b).next = ring.next + 1
          /\ Len(Emit(ring, b).events) <= Capacity
          /\ Increasing(Emit(ring, b).events)
          /\ Below(Emit(ring, b).events, Emit(ring, b).next)
      <3>1. /\ Emit(ring, b) \in Ring
            /\ Emit(ring, b).generation = ring.generation
            /\ Emit(ring, b).next = ring.next + Len(b)
            /\ Len(Emit(ring, b).events) <= Capacity
            /\ Increasing(Emit(ring, b).events)
            /\ Below(Emit(ring, b).events, Emit(ring, b).next)
        BY ONLY <1>1, <1>4, EmitFacts
      <3>2. Len(b) = 1
        BY <1>4
      <3>3. QED
        BY <3>1, <3>2
    <2>2. \A k \in DOMAIN Emit(ring, b).events :
             \/ \E i \in DOMAIN ring.events :
                   Emit(ring, b).events[k] = ring.events[i]
             \/ \E i \in DOMAIN b : Emit(ring, b).events[k] = b[i]
      BY <1>1, <1>4, EmitFacts
    <2>3. \/ \A i \in DOMAIN ring.events :
                \E k \in DOMAIN Emit(ring, b).events :
                   Emit(ring, b).events[k] = ring.events[i]
          \/ /\ Emit(ring, b).next > ring.next
             /\ Len(Emit(ring, b).events) = Capacity
      BY <1>1, <1>4, EmitFacts
    <2>4. QED
      BY <1>3, <1>4, <2>1, <2>2, <2>3
  <1>6. RingOrdered'
    BY <1>5 DEF RingOrdered, Increasing, Below
  <1>7. Forward
    <2>1. \A l \in Locations :
             observer'.published[l] = observer.published[l]
             /\ observer'.save = observer.save
             /\ (observer'.published[l].sequence >= 0 => l \in observer'.observed)
      BY <1>3 DEF OInv, PublicationsKnown
    <2>2. \A k \in DOMAIN ring'.events :
             \/ ring.next <= ring'.events[k].sequence
             \/ \E i \in DOMAIN ring.events : ring'.events[k] = ring.events[i]
      BY <1>2, <1>5
    <2>3. ring.next <= ring'.next /\ ring.generation <= ring'.generation
      BY <1>1, <1>5 DEF Ring
    <2>4. QED
      BY <1>1, <1>3, <1>5, <1>6, <2>1, <2>2, <2>3 DEF Forward
  <1>8. PublicationsKnown' /\ AcksKnown' /\ AcksCovered' /\ AcksCommitted'
    <2>1. observer'.pending \subseteq observer'.observed
      BY <1>3 DEF OInv, PublicationsKnown
    <2>2. \A ack \in Ack : OnTheWay(ack)' => OnTheWay(ack)
      BY <1>3 DEF OnTheWay
    <2>3. QED
      BY <1>3, <1>7, <2>1, <2>2, ForwardKeepsAcks DEF OInv
  <1>9. SnapshotKnown' /\ SnapshotCovers' /\ SnapshotHolds'
    BY <1>3, <1>7, ForwardKeepsSnapshot DEF OInv
  <1>10. TypeOK' /\ OnePing' /\ BoundObserved' /\ OfferedUntilCommitted'
    <2>1. TypeOK'
      BY <1>3, <1>5 DEF OInv, TypeOK, Ring
    <2>2. OnePing' /\ BoundObserved' /\ OfferedUntilCommitted'
      BY <1>3 DEF OInv, OnePing, IsPing, BoundObserved, OfferedUntilCommitted
    <2>3. QED
      BY <2>1, <2>2
  <1>11. RecordsKept
    BY <1>5 DEF RecordsKept
  <1>12. QED
    BY <1>6, <1>8, <1>9, <1>10, <1>11 DEF OInv

\* The forms behind the head.
LEMMA TailOfForms ==
    ASSUME forms \in Seq(Form), forms # <<>>, forms' = Tail(forms)
    PROVE  /\ Head(forms) \in Form
           /\ 1 \in DOMAIN forms /\ Head(forms) = forms[1]
           /\ forms' \in Seq(Form)
           /\ \A i \in DOMAIN forms' :
                 i + 1 \in DOMAIN forms /\ forms'[i] = forms[i + 1] /\ i + 1 # 1
  <1>1. /\ Len(forms) \in Nat /\ Len(forms) # 0
        /\ DOMAIN forms = 1 .. Len(forms)
    BY LenProperties, EmptySeq
  <1>2. /\ forms' \in Seq(Form) /\ Len(forms') = Len(forms) - 1
        /\ \A i \in 1 .. Len(forms') : forms'[i] = forms[i + 1]
        /\ Head(forms) = forms[1] /\ Head(forms) \in Form
    BY HeadTailProperties
  <1>3. DOMAIN forms' = 1 .. Len(forms')
    BY <1>2, LenProperties
  <1>4. QED
    BY <1>1, <1>2, <1>3

\* ap-diagnostic-ack! drops from the ring, and from the pending locations, only
\* what is in a ledger.
LEMMA EvaluateAckStep ==
    ASSUME OInv, EvaluateAck
    PROVE  OInv' /\ RecordsKept
  <1> DEFINE ack == Head(forms).ack
  <1>1. /\ forms \in Seq(Form) /\ forms # <<>> /\ forms' = Tail(forms)
        /\ Head(forms).kind = "ack"
        /\ ring' = RingAck(ring, ack)
        /\ observer' = LocationsAck(observer, ack)
        /\ UNCHANGED <<native, loaded, restoring, bound, snapshot, session,
                       authenticated, readOnly, ackPending, ledger, faults>>
    BY DEF OInv, TypeOK, EvaluateAck, clientVars
  <1>2. /\ Head(forms) \in Form
        /\ 1 \in DOMAIN forms /\ Head(forms) = forms[1]
        /\ forms' \in Seq(Form)
        /\ \A i \in DOMAIN forms' :
              i + 1 \in DOMAIN forms /\ forms'[i] = forms[i + 1] /\ i + 1 # 1
    BY <1>1, TailOfForms
  <1>3. ack \in Ack
    BY <1>1, <1>2 DEF Form
  <1>4. OnTheWay(ack)
    BY <1>1, <1>2 DEF OnTheWay
  <1>5. \A a \in Ack : OnTheWay(a)' => OnTheWay(a)
    BY <1>1, <1>2 DEF OnTheWay
  <1> HIDE DEF ack
  <1>6. /\ ring \in Ring /\ Len(ring.events) <= Capacity
        /\ Increasing(ring.events) /\ Below(ring.events, ring.next)
        /\ ring.generation \in Nat /\ ring.next \in Nat
        /\ observer \in Observer
        /\ ring.events \in Seq(Record)
    BY DEF OInv, TypeOK, Ring, Observer, RingOrdered
  <1>7. /\ ring' \in Ring
        /\ ring'.generation = ring.generation
        /\ ring'.next = ring.next
        /\ Len(ring'.events) <= Capacity
        /\ Increasing(ring'.events)
        /\ \A k \in DOMAIN ring'.events :
              \E i \in DOMAIN ring.events : ring'.events[k] = ring.events[i]
        /\ \A i \in DOMAIN ring.events :
              \/ ack.generation = ring.generation
                    /\ ring.events[i].sequence <= ack.sequence
              \/ \E k \in DOMAIN ring'.events : ring'.events[k] = ring.events[i]
    <2>1. CASE ack.generation = ring.generation
      <3>1. ring' = Drained(ring, ack)
        BY <1>1, <2>1 DEF RingAck
      <3>2. QED
        BY <1>3, <1>6, <2>1, <3>1, DrainedFacts
    <2>2. CASE ack.generation # ring.generation
      <3>1. ring' = ring
        BY <1>1, <2>2 DEF RingAck
      <3>2. QED
        BY <1>6, <3>1
    <2>3. QED
      BY <2>1, <2>2
  <1>8. RingOrdered'
    BY <1>6, <1>7 DEF RingOrdered, Increasing, Below
  <1>9. /\ observer' \in Observer
        /\ observer'.save = observer.save
        /\ observer'.observed = observer.observed
        /\ observer'.published = observer.published
        /\ observer'.pending =
              {l \in observer.pending : ~AckOne(observer.published[l], ack)}
    BY <1>1, <1>6 DEF LocationsAck, Observer
  <1>10. Forward
    <2>1. \A l \in Locations :
             observer'.published[l].sequence >= 0 => l \in observer'.observed
      BY <1>9 DEF OInv, PublicationsKnown
    <2>2. QED
      BY <1>6, <1>7, <1>8, <1>9, <2>1 DEF Forward
  <1>11. PublicationsKnown' /\ AcksKnown' /\ AcksCovered' /\ AcksCommitted'
    <2>1. observer'.pending \subseteq observer'.observed
      BY <1>9 DEF OInv, PublicationsKnown
    <2>2. QED
      BY <1>1, <1>5, <1>10, <2>1, ForwardKeepsAcks DEF OInv
  <1>12. SnapshotKnown' /\ SnapshotCovers' /\ SnapshotHolds'
    BY <1>1, <1>9, <1>10, ForwardKeepsSnapshot DEF OInv
  <1>13. TypeOK'
    BY <1>1, <1>2, <1>7, <1>9 DEF OInv, TypeOK, Ring, Observer
  <1>14. OnePing'
    <2>1. ASSUME NEW i \in DOMAIN forms', forms'[i].kind = "ping"
          PROVE  /\ snapshot' = NoSnapshot
                 /\ session' \in {forms'[i].status, NoSave}
                 /\ \A j \in DOMAIN forms' : forms'[j].kind = "ping" => i = j
      <3>1. IsPing(i + 1)
        BY <1>2, <2>1 DEF IsPing
      <3>2. /\ snapshot = NoSnapshot
            /\ session \in {forms[i + 1].status, NoSave}
            /\ \A j \in DOMAIN forms : IsPing(j) => i + 1 = j
        BY <1>2, <3>1 DEF OInv, OnePing
      <3>3. i \in Nat
        BY <1>2, LenProperties
      <3>4. \A j \in DOMAIN forms' : j \in Nat
        BY <1>2, LenProperties
      <3>5. QED
        BY <1>1, <1>2, <3>2, <3>3, <3>4 DEF IsPing
    <2>2. QED
      BY <2>1 DEF OnePing, IsPing
  <1>15. BoundObserved'
    BY <1>1, <1>9 DEF OInv, BoundObserved
  <1>16. OfferedUntilCommitted'
    <2>1. ASSUME observer.save # NoSave,
                 NEW l \in observer'.observed \ observer'.pending
          PROVE  l \in ledger[observer.save]
      <3>1. l \in Locations
        BY <1>9 DEF Observer
      <3>2. CASE l \in observer.pending
        BY <1>3, <1>4, <1>9, <2>1, <3>1, <3>2 DEF OInv, AcksCovered
      <3>3. CASE l \notin observer.pending
        BY <1>9, <2>1, <3>3 DEF OInv, OfferedUntilCommitted
      <3>4. QED
        BY <3>2, <3>3
    <2>2. QED
      BY <1>1, <1>9, <2>1 DEF OfferedUntilCommitted
  <1>17. RecordsKept
    BY <1>3, <1>4, <1>7 DEF OInv, AcksCommitted, RecordsKept
  <1>18. QED
    BY <1>8, <1>11, <1>12, <1>13, <1>14, <1>15, <1>16, <1>17 DEF OInv

\* A heartbeat exports everything pending, and its snapshot is the whole ring:
\* what an acknowledgement could cover is in it, or was committed before.
LEMMA EvaluatePingStep ==
    ASSUME OInv, EvaluatePing
    PROVE  OInv' /\ RecordsKept
  <1>1. /\ forms \in Seq(Form) /\ forms # <<>> /\ forms' = Tail(forms)
        /\ Head(forms).kind = "ping"
        /\ bound' = SidecarMatches(Head(forms).status)
        /\ Export(observer, ring, bound')
        /\ snapshot' = [save |-> loaded, generation |-> ring.generation,
                        events |-> ring'.events]
        /\ UNCHANGED <<native, loaded, restoring, session, authenticated,
                       readOnly, ackPending, ledger, faults>>
    BY DEF OInv, TypeOK, EvaluatePing, clientVars
  <1>2. /\ Head(forms) \in Form
        /\ 1 \in DOMAIN forms /\ Head(forms) = forms[1]
        /\ forms' \in Seq(Form)
        /\ \A i \in DOMAIN forms' :
              i + 1 \in DOMAIN forms /\ forms'[i] = forms[i + 1] /\ i + 1 # 1
    BY <1>1, TailOfForms
  <1>3. \A ack \in Ack : OnTheWay(ack)' => OnTheWay(ack)
    BY <1>1, <1>2 DEF OnTheWay
  <1>4. /\ session \in {forms[1].status, NoSave}
        /\ \A j \in DOMAIN forms : IsPing(j) => j = 1
    BY <1>1, <1>2 DEF OInv, OnePing, IsPing
  <1>5. /\ bound' \in BOOLEAN
        /\ bound' => loaded # NoSave /\ forms[1].status = loaded
    BY <1>1, <1>2 DEF SidecarMatches
  <1>6. PICK completed \in SUBSET Locations :
           Publishes(observer, ring, completed, Locations)
    BY <1>1, ExportPublishes
  <1>7. /\ observer' \in Observer
        /\ ring' \in Ring /\ Len(ring'.events) <= Capacity
        /\ RingOrdered'
        /\ BoundObserved'
        /\ PublicationsKnown'
        /\ AcksKnown'
        /\ AcksCovered'
        /\ AcksCommitted'
        /\ OfferedUntilCommitted'
        /\ RecordsKept
    BY <1>1, <1>3, <1>5, <1>6, PublishKeeps
  <1>8. Outcome(Locations) /\ ring'.generation = ring.generation
    <2>1. TypeOK /\ RingOrdered /\ PublicationsKnown /\ OfferedUntilCommitted
      BY DEF OInv
    <2>2. QED
      BY <1>5, <1>6, <2>1, PublishesFacts
  <1>9. /\ ring'.events \in Seq(Record) /\ ring'.generation \in Nat
        /\ ring.generation \in Nat
        /\ loaded \in Saves \cup {NoSave}
        /\ Increasing(ring'.events) /\ Below(ring'.events, ring'.next)
        /\ DOMAIN ring'.events = 1 .. Len(ring'.events)
    BY <1>7, LenProperties DEF OInv, TypeOK, Ring, RingOrdered, Increasing, Below
  <1>10. \A k \in DOMAIN ring'.events :
            ring'.events[k].sequence \in Nat /\ k \in Nat
    <2>1. \A k \in DOMAIN ring'.events : ring'.events[k] \in Record
      BY <1>9, ElementOfSeq
    <2>2. QED
      BY <1>9, <2>1 DEF Record
  <1>11. ASSUME NEW k \in DOMAIN ring'.events, NEW i \in DOMAIN ring'.events,
                ring'.events[k].sequence <= ring'.events[i].sequence
         PROVE  k <= i
    BY <1>9, <1>10, <1>11 DEF Increasing
  <1>12. snapshot' \in Snapshot /\ snapshot' # NoSnapshot
    BY <1>1, <1>9, SentinelAssumption DEF Snapshot
  <1>13. TypeOK'
    BY <1>1, <1>2, <1>5, <1>7, <1>12 DEF OInv, TypeOK, Ring, Observer
  <1>14. OnePing'
    <2>1. \A i \in DOMAIN forms' : forms'[i].kind # "ping"
      BY <1>2, <1>4 DEF IsPing
    <2>2. QED
      BY <2>1 DEF OnePing, IsPing
  <1>15. SnapshotKnown'
    <2>1. ASSUME observer'.save # NoSave
          PROVE  session' \in {observer'.save, NoSave}
      BY <1>1, <1>4, <1>5, <1>8, <2>1 DEF Outcome
    <2>2. Below(snapshot'.events, ring'.next) /\ Increasing(snapshot'.events)
      BY <1>1, <1>9
    <2>3. snapshot'.generation <= ring'.generation
      BY <1>1, <1>8, <1>9
    <2>4. QED
      BY <2>1, <2>2, <2>3 DEF SnapshotKnown, Below, Increasing
  <1>16. SnapshotCovers'
    <2>1. ASSUME observer'.save # NoSave,
                 NEW l \in Locations, NEW i \in DOMAIN ring'.events,
                 observer'.published[l].sequence >= 0,
                 observer'.published[l].sequence <= ring'.events[i].sequence
          PROVE  \/ l \in ledger[observer'.save]
                 \/ \E j \in DOMAIN ring'.events :
                       j <= i /\ ring'.events[j].location = l
      <3>1. l \in observer'.observed
        BY <1>7, <2>1 DEF PublicationsKnown
      <3>2. CASE l \in observer'.pending
        <4>1. PICK k \in DOMAIN ring'.events :
                 /\ ring'.events[k].location = l
                 /\ ring'.events[k].sequence = observer'.published[l].sequence
          BY <1>8, <3>2 DEF Outcome
        <4>2. QED
          BY <1>11, <2>1, <4>1
      <3>3. CASE l \notin observer'.pending
        BY <1>8, <2>1, <3>1, <3>3 DEF Outcome
      <3>4. QED
        BY <3>2, <3>3
    <2>2. snapshot'.events = ring'.events /\ ledger' = ledger
      BY <1>1
    <2>3. QED
      BY <2>1, <2>2 DEF SnapshotCovers
  <1>17. SnapshotHolds'
    <2>1. snapshot'.events = ring'.events
      BY <1>1
    <2>2. QED
      BY <1>11, <2>1 DEF SnapshotHolds
  <1>18. QED
    BY <1>7, <1>13, <1>14, <1>15, <1>16, <1>17 DEF OInv

-----------------------------------------------------------------------------
(* The steps of the client.                                                 *)

\* The game is at rest, and no acknowledgement is added.
LEMMA ClientKeeps ==
    ASSUME OInv, UNCHANGED <<goalVars, ledger>>,
           \A ack \in Ack : OnTheWay(ack)' => OnTheWay(ack)
    PROVE  /\ RingOrdered' /\ BoundObserved' /\ PublicationsKnown'
           /\ AcksKnown' /\ AcksCovered' /\ AcksCommitted'
           /\ OfferedUntilCommitted'
           /\ RecordsKept
  <1>1. UNCHANGED <<native, loaded, restoring, bound, observer, ring, ledger>>
    BY DEF goalVars
  <1>2. RingOrdered' /\ BoundObserved' /\ PublicationsKnown'
    BY <1>1 DEF OInv, RingOrdered, Increasing, Below, BoundObserved,
                PublicationsKnown
  <1>3. AcksKnown' /\ AcksCovered' /\ AcksCommitted'
    BY <1>1 DEF OInv, AcksKnown, AcksCovered, AcksCommitted, Committed
  <1>4. OfferedUntilCommitted' /\ RecordsKept
    BY <1>1 DEF OInv, OfferedUntilCommitted, RecordsKept
  <1>5. QED
    BY <1>2, <1>3, <1>4

\* The form a step appends.
LEMMA AppendedForm ==
    ASSUME forms \in Seq(Form), NEW f \in Form, forms' = Append(forms, f)
    PROVE  /\ forms' \in Seq(Form)
           /\ Len(forms) \in Nat
           /\ \A i \in DOMAIN forms' :
                 \/ i \in DOMAIN forms /\ forms'[i] = forms[i]
                 \/ i = Len(forms) + 1 /\ forms'[i] = f
  <1>1. /\ forms' \in Seq(Form) /\ Len(forms') = Len(forms) + 1
        /\ \A i \in 1 .. Len(forms) : forms'[i] = forms[i]
        /\ forms'[Len(forms) + 1] = f
    BY AppendProperties
  <1>2. /\ Len(forms) \in Nat /\ DOMAIN forms = 1 .. Len(forms)
        /\ DOMAIN forms' = 1 .. Len(forms')
    BY <1>1, LenProperties
  <1>3. QED
    BY <1>1, <1>2

LEMMA SendPingStep ==
    ASSUME OInv, SendPing
    PROVE  OInv' /\ RecordsKept
  <1> DEFINE f == [kind |-> "ping", status |-> session]
  <1>1. /\ ~PingOutstanding /\ snapshot = NoSnapshot
        /\ forms' = Append(forms, f)
        /\ UNCHANGED <<goalVars, snapshot, session, authenticated, readOnly,
                       ackPending, ledger, faults>>
    BY DEF SendPing, clientVars
  <1>2. f \in Form /\ forms \in Seq(Form)
    BY DEF OInv, TypeOK, Form
  <1>3. /\ forms' \in Seq(Form)
        /\ \A i \in DOMAIN forms' :
              \/ i \in DOMAIN forms /\ forms'[i] = forms[i]
              \/ i = Len(forms) + 1 /\ forms'[i] = f
    BY <1>1, <1>2, AppendedForm
  <1>4. \A ack \in Ack : OnTheWay(ack)' => OnTheWay(ack)
    BY <1>1, <1>3 DEF OnTheWay
  <1>5. /\ RingOrdered' /\ BoundObserved' /\ PublicationsKnown'
        /\ AcksKnown' /\ AcksCovered' /\ AcksCommitted'
        /\ OfferedUntilCommitted' /\ RecordsKept
    BY <1>1, <1>4, ClientKeeps
  <1>6. TypeOK'
    BY <1>1, <1>3 DEF OInv, TypeOK, goalVars
  <1>7. OnePing'
    <2>1. \A i \in DOMAIN forms' :
             forms'[i].kind = "ping" => i = Len(forms) + 1 /\ forms'[i] = f
      BY <1>1, <1>3 DEF PingOutstanding
    <2>2. QED
      BY <1>1, <2>1 DEF OnePing, IsPing
  <1>8. SnapshotKnown' /\ SnapshotCovers' /\ SnapshotHolds'
    BY <1>1 DEF SnapshotKnown, SnapshotCovers, SnapshotHolds
  <1>9. QED
    BY <1>5, <1>6, <1>7, <1>8 DEF OInv

LEMMA SendAckStep ==
    ASSUME OInv, SendAck
    PROVE  OInv' /\ RecordsKept
  <1> DEFINE f == [kind |-> "ack", ack |-> ackPending]
  <1>1. /\ ackPending # NoAck /\ ackPending' = NoAck
        /\ forms' = Append(forms, f) \/ forms' = forms
        /\ faults' \in Nat
        /\ UNCHANGED <<goalVars, snapshot, session, authenticated, readOnly,
                       ledger>>
    BY DEF SendAck, Fault, OInv, TypeOK
  <1>2. ackPending \in Ack /\ f \in Form /\ forms \in Seq(Form)
    BY <1>1 DEF OInv, TypeOK, Form
  <1>3. /\ forms' \in Seq(Form)
        /\ \A i \in DOMAIN forms' :
              \/ i \in DOMAIN forms /\ forms'[i] = forms[i]
              \/ forms'[i] = f
    BY <1>1, <1>2, AppendedForm
  <1>4. ASSUME NEW ack \in Ack, OnTheWay(ack)'
        PROVE  OnTheWay(ack)
    <2>1. ack # ackPending'
      BY <1>1, SentinelAssumption
    <2>2. PICK i \in DOMAIN forms' : forms'[i].kind = "ack" /\ forms'[i].ack = ack
      BY <1>4, <2>1 DEF OnTheWay
    <2>3. QED
      BY <1>3, <2>2 DEF OnTheWay
  <1>5. /\ RingOrdered' /\ BoundObserved' /\ PublicationsKnown'
        /\ AcksKnown' /\ AcksCovered' /\ AcksCommitted'
        /\ OfferedUntilCommitted' /\ RecordsKept
    BY <1>1, <1>4, ClientKeeps
  <1>6. TypeOK'
    BY <1>1, <1>3 DEF OInv, TypeOK, goalVars
  <1>7. OnePing'
    <2>1. \A i \in DOMAIN forms' :
             forms'[i].kind = "ping" => i \in DOMAIN forms /\ forms'[i] = forms[i]
      BY <1>3
    <2>2. QED
      BY <1>1, <2>1 DEF OInv, OnePing, IsPing
  <1>8. SnapshotKnown' /\ SnapshotCovers' /\ SnapshotHolds'
    BY <1>1 DEF OInv, SnapshotKnown, SnapshotCovers, SnapshotHolds, goalVars
  <1>9. QED
    BY <1>5, <1>6, <1>7, <1>8 DEF OInv

\* The session is closed, by the room or by a timeout of the bridge.
LEMMA ClosingSteps ==
    ASSUME OInv, OnRoomInfo \/ BridgeLost
    PROVE  OInv' /\ RecordsKept
  <1>1. /\ session' = NoSave
        /\ forms' = forms \/ forms' = <<>>
        /\ snapshot' = snapshot \/ snapshot' = NoSnapshot
        /\ UNCHANGED <<goalVars, ackPending, ledger>>
        /\ faults' \in Nat /\ authenticated' \in BOOLEAN /\ readOnly' \in BOOLEAN
    <2>1. /\ faults \in Nat /\ authenticated \in BOOLEAN
          /\ readOnly \in BOOLEAN
      BY DEF OInv, TypeOK
    <2>2. CASE OnRoomInfo
      <3>1. /\ session' = NoSave /\ faults' = faults + 1
            /\ UNCHANGED <<goalVars, forms, snapshot, ackPending, ledger>>
        BY <2>2 DEF OnRoomInfo, Fault
      <3>2. authenticated' \in BOOLEAN /\ readOnly' \in BOOLEAN
        BY <2>2, Zenon DEF OnRoomInfo
      <3>3. QED
        BY <2>1, <3>1, <3>2
    <2>3. CASE BridgeLost
      BY <2>1, <2>3 DEF BridgeLost, Fault
    <2>4. QED
      BY <2>2, <2>3
  <1>2. /\ forms' \in Seq(Form)
        /\ \A i \in DOMAIN forms' : i \in DOMAIN forms /\ forms'[i] = forms[i]
    <2>1. forms \in Seq(Form)
      BY DEF OInv, TypeOK
    <2>2. CASE forms' = forms
      BY <2>1, <2>2
    <2>3. CASE forms' = <<>>
      <3>1. DOMAIN forms' = {}
        BY <2>3
      <3>2. QED
        BY <2>3, <3>1
    <2>4. QED
      BY <1>1, <2>2, <2>3
  <1>3. \A ack \in Ack : OnTheWay(ack)' => OnTheWay(ack)
    BY <1>1, <1>2 DEF OnTheWay
  <1>4. /\ RingOrdered' /\ BoundObserved' /\ PublicationsKnown'
        /\ AcksKnown' /\ AcksCovered' /\ AcksCommitted'
        /\ OfferedUntilCommitted' /\ RecordsKept
    BY <1>1, <1>3, ClientKeeps
  <1>5. TypeOK'
    BY <1>1, <1>2 DEF OInv, TypeOK, goalVars
  <1>6. OnePing'
    BY <1>1, <1>2 DEF OInv, OnePing, IsPing
  <1>7. SnapshotKnown' /\ SnapshotCovers' /\ SnapshotHolds'
    <2>1. CASE snapshot' = NoSnapshot
      BY <2>1 DEF SnapshotKnown, SnapshotCovers, SnapshotHolds
    <2>2. CASE snapshot' = snapshot
      BY <1>1, <2>2 DEF OInv, SnapshotKnown, SnapshotCovers, SnapshotHolds,
                        goalVars
    <2>3. QED
      BY <1>1, <2>1, <2>2
  <1>8. QED
    BY <1>4, <1>5, <1>6, <1>7 DEF OInv

\* Without a session, nothing is acknowledged past the first location.
LEMMA SafeFacts ==
    ASSUME NEW events \in Seq(Record), NEW isReady \in BOOLEAN
    PROVE  /\ Safe(events, isReady) \in 0 .. Len(events)
           /\ ~isReady => \A j \in 1 .. Safe(events, isReady) :
                             events[j].location = NoLocation
  <1> DEFINE n == Len(events)
             refused == {i \in DOMAIN events : events[i].location # NoLocation}
             least == CHOOSE i \in refused : \A j \in refused : i <= j
  <1>1. n \in Nat /\ DOMAIN events = 1 .. n
    BY LenProperties
  <1>2. Safe(events, isReady) = IF isReady \/ refused = {} THEN n ELSE least - 1
    BY DEF Safe
  <1>3. refused \in SUBSET (1 .. n)
    BY <1>1
  <1>4. \A j \in 1 .. n : j \notin refused => events[j].location = NoLocation
    BY <1>1
  <1> HIDE DEF n, refused
  <1>5. ASSUME refused # {}
        PROVE  least \in refused /\ \A j \in refused : least <= j
    <2>1. /\ Cardinality(refused) \in 0 .. n
          /\ \A k \in 0 .. Cardinality(refused) - 1 :
                \E i \in refused : Cardinality(Before(i, refused)) = k
      BY <1>1, <1>3, Places
    <2>2. IsFiniteSet(refused)
      <3>1. 1 \in Int /\ n \in Int
        BY <1>1
      <3>2. IsFiniteSet(1 .. n)
        BY <3>1, FS_Interval
      <3>3. QED
        BY <1>3, <3>2, FS_Subset
    <2>3. Cardinality(refused) # 0
      BY <1>5, <2>2, FS_EmptySet
    <2>4. PICK i \in refused : Cardinality(Before(i, refused)) = 0
      <3>1. 0 \in 0 .. Cardinality(refused) - 1
        BY <1>1, <2>1, <2>3
      <3>2. QED
        BY <2>1, <3>1
    <2>5. Before(i, refused) = {}
      <3>1. Before(i, refused) \in SUBSET refused
        BY DEF Before
      <3>2. QED
        BY <2>2, <2>4, <3>1, FS_Subset, FS_EmptySet
    <2>6. \A j \in refused : i <= j
      BY <1>1, <1>3, <2>5 DEF Before
    <2>7. QED
      BY <2>4, <2>6
  <1> HIDE DEF least
  <1>6. CASE isReady \/ refused = {}
    BY <1>1, <1>2, <1>4, <1>6 DEF n
  <1>7. CASE ~(isReady \/ refused = {})
    <2>1. Safe(events, isReady) = least - 1
      BY <1>2, <1>7
    <2>2. least \in 1 .. n /\ \A j \in refused : least <= j
      BY <1>3, <1>5, <1>7
    <2>3. least - 1 \in 0 .. n
      BY <1>1, <2>2
    <2>4. \A j \in 1 .. least - 1 : j \in 1 .. n /\ j \notin refused
      BY <1>1, <2>2
    <2>5. QED
      BY <1>4, <2>1, <2>3, <2>4 DEF n
  <1>8. QED
    BY <1>6, <1>7

\* What the observation of a snapshot does: the locations among its committed
\* records go to the ledger of the session, its written records are
\* acknowledged.
LEMMA Observed ==
    ASSUME OInv, Observe
    PROVE  \E committed, written \in 0 .. Len(snapshot.events) :
              /\ written <= committed
              /\ session = NoSave =>
                    \A j \in 1 .. committed : snapshot.events[j].location = NoLocation
              /\ ledger' =
                    IF session = NoSave THEN ledger
                    ELSE [ledger EXCEPT ![session] =
                            @ \cup ({snapshot.events[i].location : i \in 1 .. committed}
                                      \ {NoLocation})]
              /\ \/ ackPending' = ackPending
                 \/ /\ written > 0
                    /\ ackPending' = [generation |-> snapshot.generation,
                                      sequence |-> snapshot.events[written].sequence]
  <1> DEFINE events == snapshot.events
             safe == Safe(events, session # NoSave /\ ~readOnly)
  <1>1. events \in Seq(Record) /\ Len(events) \in Nat
    <2>1. snapshot \in Snapshot
      BY DEF Observe, OInv, TypeOK
    <2>2. QED
      BY <2>1, LenProperties DEF Snapshot
  <1>2. /\ safe \in 0 .. Len(events)
        /\ session = NoSave =>
              \A j \in 1 .. safe : events[j].location = NoLocation
    <2>1. (session # NoSave /\ ~readOnly) \in BOOLEAN
      OBVIOUS
    <2>2. QED
      BY <1>1, <2>1, SafeFacts
  <1> HIDE DEF safe
  <1>3. PICK committed \in 0 .. safe, written \in 0 .. safe :
           /\ written <= committed
           /\ ledger' =
                IF session = NoSave THEN ledger
                ELSE [ledger EXCEPT ![session] =
                        @ \cup ({events[i].location : i \in 1 .. committed}
                                  \ {NoLocation})]
           /\ ackPending' =
                IF written = 0 THEN ackPending
                ELSE Scheduled(ackPending,
                               [generation |-> snapshot.generation,
                                sequence |-> events[written].sequence])
    BY DEF Observe, safe
  <1>4. \/ ackPending' = ackPending
        \/ /\ written > 0
           /\ ackPending' = [generation |-> snapshot.generation,
                             sequence |-> events[written].sequence]
    <2>1. written = 0 \/ written > 0
      BY <1>2, <1>3
    <2>2. QED
      BY <1>3, <2>1 DEF Scheduled
  <1>5. /\ committed \in 0 .. Len(events) /\ written \in 0 .. Len(events)
        /\ session = NoSave =>
              \A j \in 1 .. committed : events[j].location = NoLocation
    BY <1>1, <1>2, <1>3
  <1>6. QED
    BY <1>3, <1>4, <1>5

\* The acknowledgement is of records that were all committed to the ledger of
\* the observed save, or name no location.
LEMMA ObserveStep ==
    ASSUME OInv, Observe
    PROVE  OInv' /\ RecordsKept
  <1> DEFINE events == snapshot.events
  <1>1. /\ snapshot # NoSnapshot /\ snapshot' = NoSnapshot
        /\ session' = Synchronised(snapshot.save)
        /\ UNCHANGED <<native, loaded, restoring, bound, observer, ring, forms,
                       authenticated>>
    BY DEF Observe, goalVars
  <1>2. /\ readOnly' \in BOOLEAN /\ faults' \in Nat
    <2>1. \/ UNCHANGED <<readOnly, faults>>
          \/ readOnly' = TRUE /\ Fault
          \/ UNCHANGED readOnly /\ Fault
      BY Zenon DEF Observe
    <2>2. readOnly \in BOOLEAN /\ faults \in Nat
      BY DEF OInv, TypeOK
    <2>3. readOnly' \in BOOLEAN
      BY <2>1, <2>2, Zenon
    <2>4. faults' = faults \/ faults' = faults + 1
      BY <2>1, Zenon DEF Fault
    <2>5. QED
      BY <2>2, <2>3, <2>4
  <1>3. /\ snapshot.save \in Saves \cup {NoSave}
        /\ snapshot.generation \in Nat
        /\ events \in Seq(Record)
        /\ DOMAIN events = 1 .. Len(events) /\ Len(events) \in Nat
        /\ session \in Saves \cup {NoSave}
        /\ ledger \in [Saves -> SUBSET Locations]
        /\ ring.generation \in Nat /\ ring.next \in Nat
    <2>1. snapshot \in Snapshot
      BY <1>1 DEF OInv, TypeOK
    <2>2. /\ snapshot.save \in Saves \cup {NoSave}
          /\ snapshot.generation \in Nat
          /\ events \in Seq(Record)
      BY <2>1 DEF Snapshot
    <2>3. QED
      BY <2>2, LenProperties DEF OInv, TypeOK
  <1>4. \A i \in DOMAIN events :
           events[i].sequence \in Nat
           /\ events[i].location \in Locations \cup {NoLocation}
    <2>1. \A i \in DOMAIN events : events[i] \in Record
      BY <1>3, ElementOfSeq
    <2>2. QED
      BY <2>1 DEF Record
  <1>5. PICK committed \in 0 .. Len(events), written \in 0 .. Len(events) :
           /\ written <= committed
           /\ session = NoSave =>
                 \A j \in 1 .. committed : events[j].location = NoLocation
           /\ ledger' =
                 IF session = NoSave THEN ledger
                 ELSE [ledger EXCEPT ![session] =
                         @ \cup ({events[i].location : i \in 1 .. committed}
                                   \ {NoLocation})]
           /\ \/ ackPending' = ackPending
              \/ /\ written > 0
                 /\ ackPending' = [generation |-> snapshot.generation,
                                   sequence |-> events[written].sequence]
    BY Observed
  <1> DEFINE found == {events[i].location : i \in 1 .. committed} \ {NoLocation}
  <1>6. found \in SUBSET Locations
    BY <1>3, <1>4
  <1>7. /\ ledger' \in [Saves -> SUBSET Locations]
        /\ \A s \in Saves : ledger[s] \subseteq ledger'[s]
        /\ session # NoSave => found \subseteq ledger'[session]
    <2>1. CASE session = NoSave
      BY <1>3, <1>5, <2>1
    <2>2. CASE session # NoSave
      <3> HIDE DEF found
      <3>1. ledger' = [ledger EXCEPT ![session] = @ \cup found] /\ session \in Saves
        BY <1>3, <1>5, <2>2 DEF found
      <3>2. QED
        BY <1>3, <1>6, <3>1
    <2>3. QED
      BY <2>1, <2>2
  <1>8. \A i \in 1 .. committed :
           \/ events[i].location = NoLocation
           \/ session # NoSave /\ events[i].location \in ledger'[session]
    BY <1>5, <1>7
  <1> HIDE DEF found
  <1>9. ASSUME NEW ack \in Ack, OnTheWay(ack)'
        PROVE  \/ OnTheWay(ack)
               \/ /\ written \in DOMAIN events
                  /\ ack = [generation |-> snapshot.generation,
                            sequence |-> events[written].sequence]
    <2>1. CASE ack = ackPending'
      <3>1. CASE ackPending' = ackPending
        BY <2>1, <3>1 DEF OnTheWay
      <3>2. CASE ackPending' # ackPending
        BY <1>3, <1>5, <2>1, <3>2
      <3>3. QED
        BY <3>1, <3>2
    <2>2. CASE ack # ackPending'
      BY <1>1, <1>9, <2>2 DEF OnTheWay
    <2>3. QED
      BY <2>1, <2>2
  <1>10. /\ snapshot.generation <= ring.generation
         /\ snapshot.generation = ring.generation
               => \A i \in DOMAIN events : events[i].sequence < ring.next
         /\ observer.save # NoSave => session \in {observer.save, NoSave}
    BY <1>1 DEF OInv, SnapshotKnown, Below
  <1>11. observer.save \in Saves \cup {NoSave}
    BY DEF OInv, TypeOK
  <1>12. TypeOK'
    <2>1. session' \in Saves \cup {NoSave}
      BY <1>1, <1>3 DEF Synchronised
    <2>2. ackPending' \in Ack \cup {NoAck}
      <3>1. CASE ackPending' = ackPending
        BY <3>1 DEF OInv, TypeOK
      <3>2. CASE ackPending' # ackPending
        <4>1. written \in DOMAIN events
          BY <1>3, <1>5, <3>2
        <4>2. QED
          BY <1>3, <1>4, <1>5, <3>2, <4>1 DEF Ack
      <3>3. QED
        BY <3>1, <3>2
    <2>3. QED
      BY <1>1, <1>2, <1>7, <2>1, <2>2 DEF OInv, TypeOK
  <1>13. OnePing'
    <2>1. \A i \in DOMAIN forms : ~IsPing(i)
      BY <1>1 DEF OInv, OnePing
    <2>2. QED
      BY <1>1, <2>1 DEF OnePing, IsPing
  <1>14. RingOrdered' /\ BoundObserved' /\ PublicationsKnown' /\ RecordsKept
    BY <1>1 DEF OInv, RingOrdered, Increasing, Below, BoundObserved,
                PublicationsKnown, RecordsKept
  <1>15. SnapshotKnown' /\ SnapshotCovers' /\ SnapshotHolds'
    BY <1>1 DEF SnapshotKnown, SnapshotCovers, SnapshotHolds
  <1>16. AcksKnown'
    <2>1. ASSUME NEW ack \in Ack, OnTheWay(ack)'
          PROVE  /\ ack.generation <= ring.generation
                 /\ ack.generation = ring.generation => ack.sequence < ring.next
      <3>1. CASE OnTheWay(ack)
        BY <3>1 DEF OInv, AcksKnown
      <3>2. CASE ~OnTheWay(ack)
        BY <1>9, <1>10, <2>1, <3>2
      <3>3. QED
        BY <3>1, <3>2
    <2>2. QED
      BY <1>1, <2>1 DEF AcksKnown
  <1>17. AcksCovered'
    <2>1. ASSUME NEW ack \in Ack, NEW l \in Locations, observer.save # NoSave,
                 OnTheWay(ack)', AckOne(observer.published[l], ack)
          PROVE  l \in ledger'[observer.save]
      <3>1. CASE OnTheWay(ack)
        <4>1. l \in ledger[observer.save]
          BY <2>1, <3>1 DEF OInv, AcksCovered
        <4>2. QED
          BY <1>7, <1>11, <2>1, <4>1
      <3>2. CASE ~OnTheWay(ack)
        <4>1. /\ written \in DOMAIN events
              /\ ack.generation = snapshot.generation
              /\ ack.sequence = events[written].sequence
          BY <1>9, <2>1, <3>2
        <4>2. /\ observer.published[l].generation = snapshot.generation
              /\ observer.published[l].sequence >= 0
              /\ observer.published[l].sequence <= events[written].sequence
          BY <2>1, <4>1 DEF AckOne
        <4>3. \/ l \in ledger[observer.save]
              \/ \E j \in DOMAIN events : j <= written /\ events[j].location = l
          BY <1>1, <2>1, <4>1, <4>2 DEF OInv, SnapshotCovers
        <4>4. CASE l \in ledger[observer.save]
          BY <1>7, <1>11, <2>1, <4>4
        <4>5. CASE \E j \in DOMAIN events : j <= written /\ events[j].location = l
          <5>1. PICK j \in 1 .. committed : events[j].location = l
            BY <1>3, <1>5, <4>5
          <5>2. l # NoLocation
            BY SentinelAssumption
          <5>3. session # NoSave /\ l \in ledger'[session]
            BY <1>8, <5>1, <5>2
          <5>4. QED
            BY <1>10, <2>1, <5>3
        <4>6. QED
          BY <4>3, <4>4, <4>5
      <3>3. QED
        BY <3>1, <3>2
    <2>2. QED
      BY <1>1, <2>1 DEF AcksCovered
  <1>18. AcksCommitted'
    <2>1. ASSUME NEW ack \in Ack, OnTheWay(ack)',
                 ack.generation = ring.generation,
                 NEW k \in DOMAIN ring.events,
                 ring.events[k].sequence <= ack.sequence
          PROVE  \/ ring.events[k].location = NoLocation
                 \/ Committed(ring.events[k].location)'
      <3> DEFINE l == ring.events[k].location
      <3>1. CASE OnTheWay(ack)
        <4>1. l = NoLocation \/ Committed(l)
          BY <2>1, <3>1 DEF OInv, AcksCommitted
        <4>2. QED
          BY <1>1, <1>7, <4>1 DEF Committed
      <3>2. CASE ~OnTheWay(ack)
        <4>1. /\ written \in DOMAIN events
              /\ ack.generation = snapshot.generation
              /\ ack.sequence = events[written].sequence
          BY <1>9, <2>1, <3>2
        <4>2. PICK j \in DOMAIN events : j <= written /\ events[j].location = l
          BY <1>1, <2>1, <4>1 DEF OInv, SnapshotHolds
        <4>3. j \in 1 .. committed
          BY <1>3, <1>5, <4>2
        <4>4. l = NoLocation \/ (session \in Saves /\ l \in ledger'[session])
          BY <1>3, <1>8, <4>2, <4>3
        <4>5. QED
          BY <1>1, <4>4 DEF Committed
      <3>3. QED
        BY <3>1, <3>2
    <2>2. QED
      BY <1>1, <2>1 DEF AcksCommitted, Committed
  <1>19. OfferedUntilCommitted'
    <2>1. ASSUME observer.save # NoSave
          PROVE  observer.observed \ observer.pending \subseteq ledger'[observer.save]
      BY <1>7, <1>11, <2>1 DEF OInv, OfferedUntilCommitted
    <2>2. QED
      BY <1>1, <2>1 DEF OfferedUntilCommitted
  <1>20. QED
    BY <1>12, <1>13, <1>14, <1>15, <1>16, <1>17, <1>18, <1>19 DEF OInv

LEMMA OnConnectedStep ==
    ASSUME OInv, OnConnected
    PROVE  OInv' /\ RecordsKept
  <1>1. TypeOK' /\ BoundObserved'
    BY DEF OInv, TypeOK, BoundObserved, OnConnected, goalVars
  <1>2. QED
    BY <1>1, QuietStep DEF OnConnected, goalVars

-----------------------------------------------------------------------------
(* The theorems.                                                            *)

LEMMA InitInvariant == Init => OInv
  <1> SUFFICES ASSUME Init
               PROVE  OInv
    OBVIOUS
  <1>1. TypeOK
    <2>1. ClearedObserver \in Observer
      <3>1. Unpublished \in [Locations -> Publication]
        BY DEF Unpublished, Publication
      <3>2. QED
        BY <3>1 DEF ClearedObserver, Observer
    <2>2. /\ ring \in [generation: Nat, next: Nat, events: Seq(Record)]
          /\ Len(ring.events) <= Capacity
      <3>1. <<>> \in Seq(Record) /\ Len(<<>>) = 0
        BY EmptySeq
      <3>2. QED
        BY <3>1, CapacityAssumption DEF Init
    <2>3. forms \in Seq(Form)
      BY EmptySeq DEF Init
    <2>4. /\ native \in [Saves -> SUBSET Locations]
          /\ ledger \in [Saves -> SUBSET Locations]
      BY DEF Init
    <2>5. /\ authenticated \in BOOLEAN /\ readOnly \in BOOLEAN
          /\ bound \in BOOLEAN
      BY DEF Init
    <2>6. QED
      BY <2>1, <2>2, <2>3, <2>4, <2>5 DEF Init, TypeOK, Observer
  <1>2. RingOrdered /\ OnePing /\ BoundObserved
    BY DEF Init, RingOrdered, Increasing, Below, OnePing, IsPing, BoundObserved
  <1>3. PublicationsKnown
    BY DEF Init, PublicationsKnown, ClearedObserver, Unpublished
  <1>4. AcksKnown /\ AcksCovered /\ AcksCommitted
    <2>1. \A ack \in Ack : ~OnTheWay(ack)
      BY SentinelAssumption DEF Init, OnTheWay
    <2>2. QED
      BY <2>1 DEF AcksKnown, AcksCovered, AcksCommitted
  <1>5. SnapshotKnown /\ SnapshotCovers /\ SnapshotHolds
    BY DEF Init, SnapshotKnown, SnapshotCovers, SnapshotHolds
  <1>6. OfferedUntilCommitted
    BY DEF Init, OfferedUntilCommitted, ClearedObserver
  <1>7. QED
    BY <1>1, <1>2, <1>3, <1>4, <1>5, <1>6 DEF OInv

LEMMA NextInvariant == OInv /\ [Next]_vars => OInv' /\ RecordsKept
  <1> SUFFICES ASSUME OInv, [Next]_vars
               PROVE  OInv' /\ RecordsKept
    OBVIOUS
  <1>1. CASE GameStep
    <2>1. CASE \E l \in Locations \ Rewards : CompleteTask(l)
      BY <2>1, QuietGameSteps
    <2>2. CASE \E l \in Rewards : TakeReward(l)
      BY <2>2, TakeRewardStep
    <2>3. CASE (\E s \in Saves : BeginRestore(s)) \/ FinishRestore
      BY <2>3, QuietGameSteps
    <2>4. CASE EmitOther
      BY <2>4, EmitOtherStep
    <2>5. CASE ReloadDiagnostics \/ ReloadLocations
      BY <2>5, ReloadSteps
    <2>6. CASE EvaluatePing
      BY <2>6, EvaluatePingStep
    <2>7. CASE EvaluateAck
      BY <2>7, EvaluateAckStep
    <2>8. QED
      BY <1>1, <2>1, <2>2, <2>3, <2>4, <2>5, <2>6, <2>7 DEF GameStep
  <1>2. CASE ClientStep
    <2>1. CASE SendPing
      BY <2>1, SendPingStep
    <2>2. CASE Observe
      BY <2>2, ObserveStep
    <2>3. CASE SendAck
      BY <2>3, SendAckStep
    <2>4. CASE OnRoomInfo \/ BridgeLost
      BY <2>4, ClosingSteps
    <2>5. CASE OnConnected
      BY <2>5, OnConnectedStep
    <2>6. QED
      BY <1>2, <2>1, <2>2, <2>3, <2>4, <2>5 DEF ClientStep
  <1>3. CASE UNCHANGED vars
    <2>1. TypeOK' /\ BoundObserved'
      BY <1>3 DEF OInv, TypeOK, BoundObserved, vars, goalVars, clientVars
    <2>2. QED
      BY <1>3, <2>1, QuietStep DEF vars, goalVars, clientVars
  <1>4. QED
    BY <1>1, <1>2, <1>3 DEF Next

\* The invariant of the agreement between the game, the snapshot, the ledgers
\* and the acknowledgements holds for any saves, locations and faults.
THEOREM Invariant == Spec => []OInv
  <1>1. QED
    BY InitInvariant, NextInvariant, PTL DEF Spec

\* Every variable keeps its type; the ring never exceeds its capacity
\* (ap-diagnostic-ring-emit!).
THEOREM TypeCorrect == Spec => []TypeOK
  <1>1. OInv => TypeOK
    BY DEF OInv
  <1>2. QED
    BY <1>1, Invariant, PTL

\* GOAL stops offering a location only when Python has committed it for the
\* very save that was observed (ap-locations-ack!, _ingest_goal_events).
THEOREM OfferedSafe == Spec => []OfferedUntilCommitted
  <1>1. OInv => OfferedUntilCommitted
    BY DEF OInv
  <1>2. QED
    BY <1>1, Invariant, PTL

\* A location record leaves the ring of an activation committed, or pushed out
\* of a full ring (ap-diagnostic-ring-ack!).
THEOREM RecordsSafe == Spec => RecordsLeaveCommitted
  <1>1. OInv /\ [Next]_vars => [RecordsKept]_ring
    BY NextInvariant
  <1>2. QED
    BY <1>1, Invariant, PTL DEF Spec, RecordsLeaveCommitted, RecordsKept
=============================================================================
