-------------------------- MODULE EventStore_proofs -------------------------
(***************************************************************************)
(* Proofs about the in-memory event store, for every number of streams,    *)
(* branches, payloads and events.                                          *)
(***************************************************************************)
EXTENDS EventStore, EventLog_proofs

MainUpTo(s, p) == {e \in OwnEvents(log, s, Main) : e.position <= p}

PositionIsIndex == \A i \in 1..Len(log) : log[i].position = i

BaseBehindHead == \A b \in Branches : base[b] \in 0..Len(log) \/ base[b] = NotForked

CacheIsTop ==
  \A s \in Streams, b \in Scopes : IsTop(OwnEvents(log, s, b), versions[<<s, b>>])

(***************************************************************************)
(* Every prefix of main has a top version.  It stands in for the fact that *)
(* a finite set of naturals has a maximum, which would need induction.     *)
(***************************************************************************)
SeedsExist ==
  \A s \in Streams, p \in 0..Len(log) : \E v \in Nat : IsTop(MainUpTo(s, p), v)

IInv ==
  /\ TypeOK
  /\ PositionIsIndex
  /\ BaseBehindHead
  /\ CacheIsTop
  /\ SeedsExist

-----------------------------------------------------------------------------
(* What one Append stores.                                                 *)

\* new is what an append of batch to (s, b) after version cur stores.
IsBatch(new, s, b, cur, batch) ==
  /\ Len(batch) \in Nat
  /\ new \in Seq(Event)
  /\ Len(new) = Len(batch)
  /\ \A i \in 1..Len(batch) : /\ new[i].stream = s
                              /\ new[i].branch = b
                              /\ new[i].version = cur + i
                              /\ new[i].position = Len(log) + i

(***************************************************************************)
(* The stored batch is a sequence of events of (s, b) with consecutive     *)
(* versions after cur and consecutive positions after the head.            *)
(***************************************************************************)
LEMMA StoredBatch ==
  ASSUME NEW s \in Streams, NEW b \in Scopes, NEW cur \in Nat,
         NEW batch \in Batches, log \in Seq(Event)
  PROVE  IsBatch(Stored(log, s, b, cur, batch), s, b, cur, batch)
<1>1. PICK n \in 0..MaxBatch : batch \in [1..n -> Bodies]
  BY DEF Batches
<1>2. n \in Nat /\ Len(batch) = n
  BY <1>1, BoundsAreNat
<1>3. Len(log) \in Nat
  BY LenProperties
<1>4. ASSUME NEW i \in 1..n
      PROVE  [stream |-> s, branch |-> b, version |-> cur + i,
              position |-> Len(log) + i, body |-> batch[i]] \in Event
  BY <1>1, <1>2, <1>3 DEF Event
<1>5. Stored(log, s, b, cur, batch) \in [1..n -> Event]
  BY <1>2, <1>4 DEF Stored
<1>6. Stored(log, s, b, cur, batch) \in Seq(Event) /\ Len(Stored(log, s, b, cur, batch)) = n
  BY <1>2, <1>5
<1>7. \A i \in 1..n : LET new == Stored(log, s, b, cur, batch) IN
                      /\ new[i].stream = s
                      /\ new[i].branch = b
                      /\ new[i].version = cur + i
                      /\ new[i].position = Len(log) + i
  BY <1>2 DEF Stored
<1> QED
  BY <1>2, <1>6, <1>7 DEF IsBatch

\* next is the log after batch is appended to (s, b) from version cur.
Extends(next, s, b, cur, batch) == next = log \o Stored(log, s, b, cur, batch)

(***************************************************************************)
(* Appending keeps the old events in place and puts the new ones after.    *)
(***************************************************************************)
LEMMA AppendedLog ==
  ASSUME NEW s \in Streams, NEW b \in Scopes, NEW cur \in Nat,
         NEW batch \in Batches, NEW next, log \in Seq(Event),
         Extends(next, s, b, cur, batch)
  PROVE  /\ Len(log) \in Nat /\ Len(batch) \in Nat
         /\ next \in Seq(Event)
         /\ Len(next) = Len(log) + Len(batch)
         /\ \A i \in 1..Len(log) : next[i] = log[i]
         /\ \A k \in 1..Len(batch) : /\ next[Len(log) + k].stream = s
                                     /\ next[Len(log) + k].branch = b
                                     /\ next[Len(log) + k].version = cur + k
                                     /\ next[Len(log) + k].position = Len(log) + k
<1> DEFINE new == Stored(log, s, b, cur, batch)
<1>0. IsBatch(new, s, b, cur, batch)
  BY StoredBatch
<1> HIDE DEF new
<1>1. /\ Len(batch) \in Nat
      /\ new \in Seq(Event)
      /\ Len(new) = Len(batch)
      /\ \A i \in 1..Len(batch) : /\ new[i].stream = s
                                  /\ new[i].branch = b
                                  /\ new[i].version = cur + i
                                  /\ new[i].position = Len(log) + i
  BY <1>0 DEF IsBatch
<1>2. Len(log) \in Nat
  BY LenProperties
<1>3. /\ log \o new \in Seq(Event)
      /\ Len(log \o new) = Len(log) + Len(new)
      /\ \A i \in 1..(Len(log) + Len(new)) :
            (log \o new)[i] = IF i <= Len(log) THEN log[i] ELSE new[i - Len(log)]
  <2>1. new \in Seq(Event)
    BY <1>1
  <2> QED
    BY <2>1, ConcatProperties
<1>4. next = log \o new
  BY DEF new, Extends
<1>5. \A i \in 1..Len(log) : next[i] = log[i]
  BY <1>1, <1>2, <1>3, <1>4
<1>6. ASSUME NEW k \in 1..Len(batch)
      PROVE  next[Len(log) + k] = new[k]
  BY <1>1, <1>2, <1>3, <1>4
<1> QED
  BY <1>1, <1>2, <1>3, <1>4, <1>5, <1>6

(***************************************************************************)
(* The version Append starts from: a natural, at least the cached one, and *)
(* equal to it unless this is a branch's first write to the stream.        *)
(***************************************************************************)
LEMMA CurrentVersionFacts ==
  ASSUME IInv, NEW s \in Streams, NEW b \in Scopes, Writable(b)
  PROVE  /\ Current(s, b) \in Nat
         /\ versions[<<s, b>>] \in Nat
         /\ versions[<<s, b>>] # 0 => Current(s, b) = versions[<<s, b>>]
         /\ b = Main => Current(s, b) = versions[<<s, b>>]
         /\ (versions[<<s, b>>] = 0 /\ b # Main)
              => Current(s, b) = SeedVersion(log, s, base[b])
<1>1. versions[<<s, b>>] \in Nat
  BY DEF IInv, TypeOK
<1>2. CASE versions[<<s, b>>] # 0 \/ b = Main
  BY <1>1, <1>2 DEF Current, CurrentVersion
<1>3. CASE versions[<<s, b>>] = 0 /\ b # Main
  <2>1. b \in Branches /\ base[b] \in 0..Len(log)
    BY <1>3 DEF Scopes, Writable, IInv, BaseBehindHead
  <2>2. PICK v \in Nat : IsTop(MainUpTo(s, base[b]), v)
    BY <2>1 DEF IInv, SeedsExist
  <2>3. \A e \in MainUpTo(s, base[b]) : e.version \in Nat \ {0}
    <3>1. \A i \in 1..Len(log) : log[i].version \in Nat \ {0}
      <4> SUFFICES ASSUME NEW i \in 1..Len(log) PROVE log[i].version \in Nat \ {0}
        OBVIOUS
      <4>1. log[i] \in Event
        BY ElementOfSeq DEF IInv, TypeOK
      <4> QED
        BY <4>1 DEF Event
    <3> QED
      BY <3>1 DEF MainUpTo, OwnEvents, EventsOf
  <2>4. TopVersion(MainUpTo(s, base[b])) = v
    BY <2>2, <2>3, TopVersionIs
  <2>5. SeedVersion(log, s, base[b]) = v
    BY <2>4 DEF SeedVersion, MainUpTo
  <2>6. Current(s, b) = SeedVersion(log, s, base[b])
    BY <1>3 DEF Current, CurrentVersion, BaseOf
  <2> QED
    BY <1>1, <1>3, <2>2, <2>5, <2>6
<1> QED
  BY <1>2, <1>3

-----------------------------------------------------------------------------
(* What an Append changes, seen as sets of events.                         *)

(***************************************************************************)
(* The stored events gained by an Append all belong to the written stream  *)
(* and scope and lie past the old head.                                    *)
(***************************************************************************)
LEMMA EventsGained ==
  ASSUME IInv, NEW s \in Streams, NEW b \in Scopes, NEW batch \in Batches,
         NEW cur \in Nat, Extends(log', s, b, cur, batch)
  PROVE  LET new == {log'[Len(log) + k] : k \in 1..Len(batch)} IN
         /\ EventsOf(log') = EventsOf(log) \union new
         /\ \A e \in new : e.stream = s /\ e.branch = b /\ e.position > Len(log)
         /\ \A e \in EventsOf(log) : e.position \in 1..Len(log)
<1> DEFINE new == {log'[Len(log) + k] : k \in 1..Len(batch)}
<1>1. log \in Seq(Event)
  BY DEF IInv, TypeOK
<1>2. /\ Len(log) \in Nat /\ Len(batch) \in Nat
      /\ log' \in Seq(Event)
      /\ Len(log') = Len(log) + Len(batch)
      /\ \A i \in 1..Len(log) : log'[i] = log[i]
      /\ \A k \in 1..Len(batch) : /\ log'[Len(log) + k].stream = s
                                  /\ log'[Len(log) + k].branch = b
                                  /\ log'[Len(log) + k].version = cur + k
                                  /\ log'[Len(log) + k].position = Len(log) + k
  <2>1. Len(log) \in Nat /\ Len(batch) \in Nat
    BY <1>1, AppendedLog
  <2>2. log' \in Seq(Event) /\ Len(log') = Len(log) + Len(batch)
    BY <1>1, AppendedLog
  <2>3. \A i \in 1..Len(log) : log'[i] = log[i]
    BY <1>1, AppendedLog
  <2>4. \A k \in 1..Len(batch) : /\ log'[Len(log) + k].stream = s
                                 /\ log'[Len(log) + k].branch = b
                                 /\ log'[Len(log) + k].version = cur + k
                                 /\ log'[Len(log) + k].position = Len(log) + k
    BY <1>1, AppendedLog
  <2> QED
    BY <2>1, <2>2, <2>3, <2>4
<1>3. EventsOf(log') \subseteq EventsOf(log) \union new
  <2> SUFFICES ASSUME NEW i \in 1..Len(log') PROVE log'[i] \in EventsOf(log) \union new
    BY DEF EventsOf
  <2>1. CASE i <= Len(log)
    BY <1>2, <2>1 DEF EventsOf
  <2>2. CASE i > Len(log)
    <3> DEFINE k == i - Len(log)
    <3>1. k \in 1..Len(batch) /\ i = Len(log) + k
      BY <1>2, <2>2
    <3> HIDE DEF k
    <3> QED
      BY <3>1
  <2> QED
    BY <1>2, <2>1, <2>2
<1>4. EventsOf(log) \subseteq EventsOf(log')
  <2> SUFFICES ASSUME NEW i \in 1..Len(log) PROVE log[i] \in EventsOf(log')
    BY DEF EventsOf
  <2>1. i \in 1..Len(log') /\ log'[i] = log[i]
    BY <1>2
  <2> QED
    BY <2>1 DEF EventsOf
<1>5. new \subseteq EventsOf(log')
  <2> SUFFICES ASSUME NEW k \in 1..Len(batch) PROVE log'[Len(log) + k] \in EventsOf(log')
    OBVIOUS
  <2>1. Len(log) + k \in 1..Len(log')
    BY <1>2
  <2> QED
    BY <2>1 DEF EventsOf
<1>6. \A e \in new : e.stream = s /\ e.branch = b /\ e.position > Len(log)
  BY <1>2
<1>7. \A e \in EventsOf(log) : e.position \in 1..Len(log)
  BY DEF EventsOf, IInv, PositionIsIndex
<1> QED
  BY <1>3, <1>4, <1>5, <1>6, <1>7

(***************************************************************************)
(* An Append touches the events of one (stream, branch) only.              *)
(***************************************************************************)
LEMMA OwnEventsGained ==
  ASSUME IInv, NEW s \in Streams, NEW b \in Scopes, NEW batch \in Batches,
         NEW cur \in Nat, Extends(log', s, b, cur, batch)
  PROVE  /\ OwnEvents(log', s, b) =
              OwnEvents(log, s, b) \union {log'[Len(log) + k] : k \in 1..Len(batch)}
         /\ \A t, c : (t # s \/ c # b) => OwnEvents(log', t, c) = OwnEvents(log, t, c)
<1> DEFINE new == {log'[Len(log) + k] : k \in 1..Len(batch)}
<1>1. /\ EventsOf(log') = EventsOf(log) \union new
      /\ \A e \in new : e.stream = s /\ e.branch = b
  BY EventsGained
<1> HIDE DEF new
<1>2. OwnEvents(log', s, b) = OwnEvents(log, s, b) \union new
  BY <1>1 DEF OwnEvents
<1>3. \A t, c : (t # s \/ c # b) => OwnEvents(log', t, c) = OwnEvents(log, t, c)
  BY <1>1 DEF OwnEvents
<1> QED
  BY <1>2, <1>3 DEF new

(***************************************************************************)
(* Main as of a position the log had reached never changes.                *)
(***************************************************************************)
LEMMA PastIsFixed ==
  ASSUME IInv, NEW s \in Streams, NEW b \in Scopes, NEW batch \in Batches,
         NEW cur \in Nat, Extends(log', s, b, cur, batch),
         NEW t, NEW p \in 0..Len(log)
  PROVE  {e \in OwnEvents(log', t, Main) : e.position <= p} = MainUpTo(t, p)
<1> DEFINE new == {log'[Len(log) + k] : k \in 1..Len(batch)}
<1>1. Len(log) \in Nat
  BY LenProperties DEF IInv, TypeOK
<1>2. EventsOf(log') = EventsOf(log) \union new /\ \A e \in new : e.position > Len(log)
  BY EventsGained
<1> HIDE DEF new
<1>3. \A e \in new : ~(e.position <= p)
  <2> SUFFICES ASSUME NEW e \in new PROVE ~(e.position <= p)
    OBVIOUS
  <2>1. e.position > Len(log)
    BY <1>2
  <2>2. e.position \in Nat
    <3>1. PICK k \in 1..Len(batch) : e = log'[Len(log) + k]
      BY DEF new
    <3>2. log \in Seq(Event)
      BY DEF IInv, TypeOK
    <3>3. e.position = Len(log) + k /\ Len(batch) \in Nat
      BY <3>1, <3>2, AppendedLog
    <3> QED
      BY <1>1, <3>3
  <2> QED
    BY <1>1, <2>1, <2>2
<1> QED
  BY <1>2, <1>3 DEF OwnEvents, MainUpTo

(***************************************************************************)
(* Every stored event has a positive version.                              *)
(***************************************************************************)
LEMMA VersionsPositive ==
  ASSUME log \in Seq(Event)
  PROVE  \A e \in EventsOf(log) : e \in Event /\ e.version \in Nat \ {0}
<1> SUFFICES ASSUME NEW i \in 1..Len(log)
             PROVE  log[i] \in Event /\ log[i].version \in Nat \ {0}
  BY DEF EventsOf
<1>1. log[i] \in Event
  BY ElementOfSeq
<1> QED
  BY <1>1 DEF Event

(***************************************************************************)
(* Events whose greatest version w is not below the top of S raise the top *)
(* of S to w.                                                              *)
(***************************************************************************)
LEMMA TopGrows ==
  ASSUME NEW S, NEW v \in Nat, IsTop(S, v), \A e \in S : e.version \in Nat,
         NEW N, NEW w \in Nat, v <= w,
         \A e \in N : e.version <= w, \E e \in N : e.version = w
  PROVE  IsTop(S \union N, w)
<1>1. \A e \in S : e.version <= w
  BY DEF IsTop
<1> QED
  BY <1>1 DEF IsTop

-----------------------------------------------------------------------------
(* The invariant is inductive.                                             *)

LEMMA InitIInv == Init => IInv
<1> SUFFICES ASSUME Init PROVE IInv
  OBVIOUS
<1>1. log \in Seq(Event) /\ Len(log) = 0 /\ EventsOf(log) = {}
  BY DEF Init, EventsOf
<1>2. TypeOK
  BY <1>1 DEF Init, TypeOK
<1>3. PositionIsIndex /\ BaseBehindHead
  BY <1>1 DEF Init, PositionIsIndex, BaseBehindHead
<1>4. CacheIsTop
  BY <1>1 DEF Init, CacheIsTop, IsTop, OwnEvents
<1>5. SeedsExist
  BY <1>1 DEF SeedsExist, IsTop, MainUpTo, OwnEvents
<1> QED
  BY <1>2, <1>3, <1>4, <1>5 DEF IInv

LEMMA ForkIInv ==
  ASSUME IInv, NEW b \in Branches, Fork(b)
  PROVE  IInv'
<1> USE DEF IInv
<1>1. PICK p \in 0..Len(log) : base' = [base EXCEPT ![b] = p]
  BY DEF Fork
<1>2. log' = log /\ versions' = versions
  BY DEF Fork
<1>3. p \in Nat
  BY <1>1, LenProperties DEF TypeOK
<1>4. TypeOK'
  BY <1>1, <1>2, <1>3 DEF TypeOK
<1>5. PositionIsIndex'
  BY <1>2 DEF PositionIsIndex
<1>6. BaseBehindHead'
  BY <1>1, <1>2 DEF BaseBehindHead, TypeOK
<1>7. CacheIsTop'
  BY <1>2 DEF CacheIsTop
<1>8. SeedsExist'
  BY <1>2 DEF SeedsExist, MainUpTo
<1> QED
  BY <1>4, <1>5, <1>6, <1>7, <1>8

(***************************************************************************)
(* The part of an Append the lemmas above speak of: the batch is stored    *)
(* from the current version, which is not below the cached one.            *)
(***************************************************************************)
LEMMA AppendFacts ==
  ASSUME IInv, NEW s \in Streams, NEW b \in Scopes, NEW batch \in Batches,
         NEW expected, AppendEvents(s, b, batch, expected)
  PROVE  /\ Current(s, b) \in Nat
         /\ versions[<<s, b>>] \in Nat /\ versions[<<s, b>>] <= Current(s, b)
         /\ Extends(log', s, b, Current(s, b), batch)
         /\ log \in Seq(Event) /\ Len(log) \in Nat /\ Len(batch) \in Nat
         /\ log' \in Seq(Event) /\ Len(log') = Len(log) + Len(batch)
         /\ \A i \in 1..Len(log) : log'[i] = log[i]
         /\ \A k \in 1..Len(batch) : /\ log'[Len(log) + k].stream = s
                                     /\ log'[Len(log) + k].branch = b
                                     /\ log'[Len(log) + k].version = Current(s, b) + k
                                     /\ log'[Len(log) + k].position = Len(log) + k
         /\ base' = base
<1>1. Writable(b)
  BY DEF AppendEvents
<1>2. /\ Current(s, b) \in Nat /\ versions[<<s, b>>] \in Nat
      /\ versions[<<s, b>>] # 0 => Current(s, b) = versions[<<s, b>>]
  BY <1>1, CurrentVersionFacts
<1>3. versions[<<s, b>>] <= Current(s, b)
  BY <1>2
<1>4. Extends(log', s, b, Current(s, b), batch)
  BY DEF AppendEvents, Extends
<1>5. log \in Seq(Event)
  BY DEF IInv, TypeOK
<1>6. Len(log) \in Nat /\ Len(batch) \in Nat
  BY <1>2, <1>4, <1>5, AppendedLog
<1>7. log' \in Seq(Event) /\ Len(log') = Len(log) + Len(batch)
  BY <1>2, <1>4, <1>5, AppendedLog
<1>8. \A i \in 1..Len(log) : log'[i] = log[i]
  BY <1>2, <1>4, <1>5, AppendedLog
<1>9. \A k \in 1..Len(batch) : /\ log'[Len(log) + k].stream = s
                               /\ log'[Len(log) + k].branch = b
                               /\ log'[Len(log) + k].version = Current(s, b) + k
                               /\ log'[Len(log) + k].position = Len(log) + k
  BY <1>2, <1>4, <1>5, AppendedLog
<1>10. base' = base
  BY DEF AppendEvents
<1> QED
  BY <1>2, <1>3, <1>4, <1>5, <1>6, <1>7, <1>8, <1>9, <1>10

LEMMA AppendIInv ==
  ASSUME IInv, NEW s \in Streams, NEW b \in Scopes, NEW batch \in Batches,
         NEW expected, AppendEvents(s, b, batch, expected)
  PROVE  IInv'
<1> DEFINE cur == Current(s, b)
           new == {log'[Len(log) + k] : k \in 1..Len(batch)}
<1>1. /\ cur \in Nat
      /\ versions[<<s, b>>] \in Nat /\ versions[<<s, b>>] <= cur
      /\ Extends(log', s, b, cur, batch)
      /\ log \in Seq(Event) /\ Len(log) \in Nat /\ Len(batch) \in Nat
      /\ log' \in Seq(Event) /\ Len(log') = Len(log) + Len(batch)
      /\ \A i \in 1..Len(log) : log'[i] = log[i]
      /\ \A k \in 1..Len(batch) : /\ log'[Len(log) + k].stream = s
                                  /\ log'[Len(log) + k].branch = b
                                  /\ log'[Len(log) + k].version = cur + k
                                  /\ log'[Len(log) + k].position = Len(log) + k
      /\ base' = base
  BY AppendFacts
<1>2. versions' = IF batch = <<>> THEN versions
                  ELSE [versions EXCEPT ![<<s, b>>] = cur + Len(batch)]
  BY DEF AppendEvents, Recorded
<1> HIDE DEF cur
<1>3. Len(batch) = 0 <=> batch = <<>>
  <2>1. PICK n \in 0..MaxBatch : batch \in [1..n -> Bodies]
    BY DEF Batches
  <2>2. batch \in Seq(Bodies)
    BY <2>1, BoundsAreNat
  <2> QED
    BY <2>2, EmptySeq
<1>4. /\ OwnEvents(log', s, b) = OwnEvents(log, s, b) \union new
      /\ \A t, c : (t # s \/ c # b) => OwnEvents(log', t, c) = OwnEvents(log, t, c)
  BY <1>1, OwnEventsGained
<1>5. \A t, c : \A e \in OwnEvents(log, t, c) :
         e.version \in Nat /\ e.position \in 1..Len(log)
  BY <1>1, VersionsPositive DEF OwnEvents, EventsOf, IInv, PositionIsIndex
<1>6. TypeOK'
  <2>1. versions' \in [Streams \X Scopes -> Nat]
    BY <1>1, <1>2 DEF IInv, TypeOK
  <2> QED
    BY <1>1, <2>1 DEF IInv, TypeOK
<1>7. PositionIsIndex'
  <2> SUFFICES ASSUME NEW i \in 1..Len(log') PROVE log'[i].position = i
    BY DEF PositionIsIndex
  <2>1. CASE i <= Len(log)
    BY <1>1, <2>1 DEF IInv, PositionIsIndex
  <2>2. CASE i > Len(log)
    <3> DEFINE k == i - Len(log)
    <3>1. k \in 1..Len(batch) /\ i = Len(log) + k
      BY <1>1, <2>2
    <3> HIDE DEF k
    <3> QED
      BY <1>1, <3>1
  <2> QED
    BY <1>1, <2>1, <2>2
<1>8. BaseBehindHead'
  BY <1>1 DEF IInv, BaseBehindHead
<1>9. CacheIsTop'
  <2> SUFFICES ASSUME NEW t \in Streams, NEW c \in Scopes
               PROVE  IsTop(OwnEvents(log', t, c), versions'[<<t, c>>])
    BY DEF CacheIsTop
  <2>1. IsTop(OwnEvents(log, t, c), versions[<<t, c>>])
    BY DEF IInv, CacheIsTop
  <2>2. CASE t # s \/ c # b
    <3>1. versions'[<<t, c>>] = versions[<<t, c>>]
      BY <1>2, <2>2 DEF IInv, TypeOK
    <3> QED
      BY <1>4, <2>1, <2>2, <3>1
  <2>3. CASE t = s /\ c = b /\ batch = <<>>
    <3>1. new = {}
      BY <1>3, <2>3
    <3>2. versions'[<<t, c>>] = versions[<<t, c>>]
      BY <1>2, <2>3
    <3> QED
      BY <1>4, <2>1, <2>3, <3>1, <3>2
  <2>4. CASE t = s /\ c = b /\ batch # <<>>
    <3>1. Len(batch) \in Nat \ {0}
      BY <1>1, <1>3, <2>4
    <3>2. IsTop(OwnEvents(log, s, b) \union new, cur + Len(batch))
      <4>1. \A e \in OwnEvents(log, s, b) : e.version \in Nat
        BY <1>5
      <4>2. cur + Len(batch) \in Nat /\ versions[<<s, b>>] <= cur + Len(batch)
        BY <1>1
      <4>3. /\ \A e \in new : e.version <= cur + Len(batch)
            /\ \E e \in new : e.version = cur + Len(batch)
        BY <1>1, <3>1
      <4>4. IsTop(OwnEvents(log, s, b), versions[<<s, b>>])
        BY <2>1, <2>4
      <4> DEFINE own == OwnEvents(log, s, b)
                 top == cur + Len(batch)
      <4>5. top \in Nat /\ versions[<<s, b>>] \in Nat /\ versions[<<s, b>>] <= top
        BY <1>1, <4>2
      <4>6. IsTop(own, versions[<<s, b>>]) /\ \A e \in own : e.version \in Nat
        BY <4>1, <4>4
      <4>7. (\A e \in new : e.version <= top) /\ (\E e \in new : e.version = top)
        BY <4>3
      <4> HIDE DEF new, own, top
      <4>8. IsTop(own \union new, top)
        BY <4>5, <4>6, <4>7, TopGrows
      <4> QED
        BY <4>8 DEF own, top
    <3>3. versions'[<<s, b>>] = cur + Len(batch)
      BY <1>2, <2>4 DEF IInv, TypeOK
    <3> QED
      BY <1>4, <2>4, <3>2, <3>3
  <2> QED
    BY <2>2, <2>3, <2>4
<1>10. SeedsExist'
  <2> SUFFICES ASSUME NEW t \in Streams, NEW p \in 0..Len(log')
               PROVE  \E v \in Nat :
                        IsTop({e \in OwnEvents(log', t, Main) : e.position <= p}, v)
    BY DEF SeedsExist, MainUpTo
  <2>1. CASE p <= Len(log)
    <3>1. p \in 0..Len(log)
      BY <1>1, <2>1
    <3>2. {e \in OwnEvents(log', t, Main) : e.position <= p} = MainUpTo(t, p)
      BY <1>1, <3>1, PastIsFixed
    <3> QED
      BY <3>1, <3>2 DEF IInv, SeedsExist
  <2>2. CASE p > Len(log) /\ (t # s \/ b # Main)
    <3>1. OwnEvents(log', t, Main) = OwnEvents(log, t, Main)
      BY <1>4, <2>2
    <3>2. \A e \in OwnEvents(log, t, Main) : e.position <= p /\ e.position <= Len(log)
      BY <1>1, <1>5, <2>2
    <3>3. {e \in OwnEvents(log', t, Main) : e.position <= p} = MainUpTo(t, Len(log))
      BY <3>1, <3>2 DEF MainUpTo
    <3>4. Len(log) \in 0..Len(log)
      BY <1>1
    <3> QED
      BY <3>3, <3>4 DEF IInv, SeedsExist
  <2>3. CASE p > Len(log) /\ t = s /\ b = Main
    <3> DEFINE k == p - Len(log)
    <3>1. k \in 1..Len(batch) /\ k \in Nat \ {0} /\ p = Len(log) + k
      BY <1>1, <2>3
    <3> HIDE DEF k
    <3>2. IsTop(OwnEvents(log, s, b), versions[<<s, b>>])
      BY DEF IInv, CacheIsTop
    <3>3. \A j \in 1..k : log'[Len(log) + j].version = cur + j
      BY <1>1, <3>1
    <3> DEFINE gained == {log'[Len(log) + j] : j \in 1..k}
    <3>4. IsTop(OwnEvents(log, s, b) \union gained, cur + k)
      <4>1. \A e \in OwnEvents(log, s, b) : e.version \in Nat
        BY <1>5
      <4>2. cur + k \in Nat /\ versions[<<s, b>>] <= cur + k
        BY <1>1, <3>1
      <4>3. /\ \A e \in gained : e.version <= cur + k
            /\ \E e \in gained : e.version = cur + k
        <5>1. log'[Len(log) + k] \in gained /\ log'[Len(log) + k].version = cur + k
          BY <3>1, <3>3
        <5>2. \A j \in 1..k : log'[Len(log) + j].version <= cur + k
          BY <1>1, <3>1, <3>3
        <5> QED
          BY <5>1, <5>2
      <4> HIDE DEF gained
      <4> QED
        BY <1>1, <3>2, <4>1, <4>2, <4>3, TopGrows
    <3>5. \A e \in OwnEvents(log, s, b) : e.position <= p
      BY <1>1, <1>5, <2>3
    <3>6. \A j \in 1..Len(batch) : log'[Len(log) + j].position <= p <=> j <= k
      BY <1>1, <3>1
    <3>7. {e \in OwnEvents(log, s, b) \union new : e.position <= p} =
             OwnEvents(log, s, b) \union gained
      BY <1>1, <3>1, <3>5, <3>6
    <3>8. cur + k \in Nat
      BY <1>1, <3>1
    <3> DEFINE upTo == {e \in OwnEvents(log', t, Main) : e.position <= p}
    <3>9. upTo = OwnEvents(log, s, b) \union gained
      BY <1>4, <2>3, <3>7
    <3> HIDE DEF gained, upTo
    <3>10. IsTop(upTo, cur + k)
      BY <3>4, <3>9
    <3>11. \E v \in Nat : IsTop(upTo, v)
      BY <3>8, <3>10
    <3> QED
      BY <3>11 DEF upTo
  <2>4. p <= Len(log) \/ p > Len(log)
    BY <1>1
  <2> QED
    BY <2>1, <2>2, <2>3, <2>4, Zenon
<1> QED
  BY <1>6, <1>7, <1>8, <1>9, <1>10 DEF IInv

LEMMA StepIInv == IInv /\ [Next]_vars => IInv'
<1> SUFFICES ASSUME IInv, [Next]_vars PROVE IInv'
  OBVIOUS
<1>1. ASSUME NEW b \in Branches, Fork(b) PROVE IInv'
  BY <1>1, ForkIInv
<1>2. ASSUME NEW s \in Streams, NEW b \in Scopes, NEW batch \in Batches,
             NEW expected \in -1..MaxEvents, AppendEvents(s, b, batch, expected)
      PROVE  IInv'
  BY <1>2, AppendIInv
<1>3. CASE UNCHANGED vars
  BY <1>3 DEF vars, IInv, TypeOK, PositionIsIndex, BaseBehindHead, CacheIsTop,
              SeedsExist, MainUpTo
<1> QED
  BY <1>1, <1>2, <1>3 DEF Next

(***************************************************************************)
(* The inductive invariant holds in every reachable state.                 *)
(***************************************************************************)
LEMMA Invariance == Spec => []IInv
  BY InitIInv, StepIInv, PTL DEF Spec

(***************************************************************************)
(* Whatever the calls and their order, the log, the version map and the    *)
(* branches' base positions keep their types.                              *)
(***************************************************************************)
THEOREM TypeCorrect == Spec => []TypeOK
<1>1. IInv => TypeOK
  BY DEF IInv
<1> QED
  BY Invariance, <1>1, PTL

(***************************************************************************)
(* The map GetStreamVersion answers from always equals the greatest        *)
(* version the log holds for the (stream, branch): the in-memory shortcut  *)
(* never drifts from the log (memory/eventstore.go:86-92).                 *)
(***************************************************************************)
THEOREM CacheCorrect == Spec => []CacheMatchesLog
<1>1. IInv => CacheMatchesLog
  <2> SUFFICES ASSUME IInv, NEW s \in Streams, NEW b \in Scopes
               PROVE  versions[<<s, b>>] = StreamVersion(log, s, b)
    BY DEF CacheMatchesLog
  <2>1. versions[<<s, b>>] \in Nat
    BY DEF IInv, TypeOK
  <2>2. IsTop(OwnEvents(log, s, b), versions[<<s, b>>])
    BY DEF IInv, CacheIsTop
  <2>3. \A e \in OwnEvents(log, s, b) : e.version \in Nat \ {0}
    BY VersionsPositive DEF IInv, TypeOK, OwnEvents
  <2>4. TopVersion(OwnEvents(log, s, b)) = versions[<<s, b>>]
    BY <2>1, <2>2, <2>3, TopVersionIs
  <2> QED
    BY <2>4 DEF StreamVersion
<1> QED
  BY Invariance, <1>1, PTL

-----------------------------------------------------------------------------
(* Version lines.                                                          *)

\* Only a forked branch has events, so forking never changes a seed in use.
WritersForked == \A i \in 1..Len(log) : Writable(log[i].branch)

(***************************************************************************)
(* The seed of a forked branch is the same before and after any step.      *)
(***************************************************************************)
LEMMA SeedFixed ==
  ASSUME IInv, [Next]_vars, NEW s, NEW b \in Branches, base[b] # NotForked
  PROVE  /\ SeedVersion(log', s, base'[b]) = SeedVersion(log, s, base[b])
         /\ base'[b] = base[b]
<1>1. base[b] \in 0..Len(log)
  BY DEF IInv, BaseBehindHead
<1>2. ASSUME NEW c \in Branches, Fork(c)
      PROVE  log' = log /\ base'[b] = base[b]
  BY <1>2 DEF Fork, IInv, TypeOK
<1>3. CASE UNCHANGED vars
  BY <1>3 DEF vars
<1>4. ASSUME NEW t \in Streams, NEW c \in Scopes, NEW batch \in Batches,
             NEW expected, AppendEvents(t, c, batch, expected)
      PROVE  /\ base' = base
             /\ SeedVersion(log', s, base[b]) = SeedVersion(log, s, base[b])
  <2>1. Current(t, c) \in Nat /\ Extends(log', t, c, Current(t, c), batch) /\ base' = base
    BY <1>4, AppendFacts
  <2>2. {e \in OwnEvents(log', s, Main) : e.position <= base[b]} = MainUpTo(s, base[b])
    BY <1>1, <2>1, PastIsFixed
  <2> QED
    BY <2>1, <2>2 DEF SeedVersion, MainUpTo
<1> QED
  BY <1>2, <1>3, <1>4 DEF Next

(***************************************************************************)
(* The version a branch's first write continues from is fixed at the fork: *)
(* no later write, on main or on any branch, moves it (BR-005).            *)
(***************************************************************************)
THEOREM SeedStable == Spec => SeedIsStable
<1>1. IInv /\ [Next]_vars =>
        [\A s \in Streams, b \in Branches :
           base[b] # NotForked =>
             SeedVersion(log', s, base'[b]) = SeedVersion(log, s, base[b])]_vars
  BY SeedFixed
<1> QED
  BY Invariance, <1>1, PTL DEF Spec, SeedIsStable

(***************************************************************************)
(* A step keeps the order of versions and the forked writers.              *)
(***************************************************************************)
LEMMA StepIncrease ==
  ASSUME IInv, VersionsIncrease, WritersForked, [Next]_vars
  PROVE  VersionsIncrease' /\ WritersForked'
<1>1. ASSUME NEW b \in Branches, Fork(b) PROVE VersionsIncrease' /\ WritersForked'
  <2>1. log' = log /\ \A c \in Branches : base[c] # NotForked => base'[c] = base[c]
    BY <1>1 DEF Fork, IInv, TypeOK
  <2>2. VersionsIncrease'
    BY <2>1 DEF VersionsIncrease
  <2>3. WritersForked'
    BY <2>1 DEF WritersForked, Writable
  <2> QED
    BY <2>2, <2>3
<1>2. ASSUME NEW s \in Streams, NEW b \in Scopes, NEW batch \in Batches,
             NEW expected, AppendEvents(s, b, batch, expected)
      PROVE  VersionsIncrease' /\ WritersForked'
  <2> DEFINE cur == Current(s, b)
  <2>1. /\ cur \in Nat
        /\ versions[<<s, b>>] \in Nat /\ versions[<<s, b>>] <= cur
        /\ log \in Seq(Event) /\ Len(log) \in Nat /\ Len(batch) \in Nat
        /\ Len(log') = Len(log) + Len(batch)
        /\ \A i \in 1..Len(log) : log'[i] = log[i]
        /\ \A k \in 1..Len(batch) : /\ log'[Len(log) + k].stream = s
                                    /\ log'[Len(log) + k].branch = b
                                    /\ log'[Len(log) + k].version = cur + k
        /\ base' = base
    BY <1>2, AppendFacts
  <2>2. Writable(b)
    BY <1>2 DEF AppendEvents
  <2> HIDE DEF cur
  <2>3. \A i \in 1..Len(log) :
           (log[i].stream = s /\ log[i].branch = b) =>
             log[i].version <= versions[<<s, b>>] /\ log[i].version \in Nat
    <3> SUFFICES ASSUME NEW i \in 1..Len(log), log[i].stream = s, log[i].branch = b
                 PROVE  log[i].version <= versions[<<s, b>>] /\ log[i].version \in Nat
      OBVIOUS
    <3>1. log[i] \in OwnEvents(log, s, b)
      BY DEF OwnEvents, EventsOf
    <3>2. log[i].version \in Nat
      BY <2>1, <3>1, VersionsPositive DEF OwnEvents
    <3>3. IsTop(OwnEvents(log, s, b), versions[<<s, b>>])
      BY DEF IInv, CacheIsTop
    <3> QED
      BY <3>1, <3>2, <3>3 DEF IsTop
  <2>4. \A i \in 1..Len(log') :
           i \in 1..Len(log) \/ \E k \in 1..Len(batch) : i = Len(log) + k
    <3> SUFFICES ASSUME NEW i \in 1..Len(log'), i \notin 1..Len(log)
                 PROVE  \E k \in 1..Len(batch) : i = Len(log) + k
      OBVIOUS
    <3>1. i - Len(log) \in 1..Len(batch) /\ i = Len(log) + (i - Len(log))
      BY <2>1
    <3> QED
      BY <3>1
  <2>5. VersionsIncrease'
    <3> SUFFICES ASSUME NEW i \in 1..Len(log'), NEW j \in 1..Len(log'), i < j,
                        log'[i].stream = log'[j].stream, log'[i].branch = log'[j].branch
                 PROVE  log'[i].version < log'[j].version
      BY DEF VersionsIncrease
    <3>1. CASE j \in 1..Len(log)
      <4>1. i \in 1..Len(log)
        BY <2>1, <3>1
      <4> QED
        BY <2>1, <3>1, <4>1 DEF VersionsIncrease
    <3>2. CASE i \in 1..Len(log) /\ j \notin 1..Len(log)
      <4>1. PICK k \in 1..Len(batch) : j = Len(log) + k
        BY <2>4, <3>2
      <4>2. log'[j].stream = s /\ log'[j].branch = b /\ log'[j].version = cur + k
        BY <2>1, <4>1
      <4>3. log'[i] = log[i]
        BY <2>1, <3>2
      <4>4. log[i].version <= versions[<<s, b>>] /\ log[i].version \in Nat
        BY <2>3, <3>2, <4>2, <4>3
      <4> QED
        BY <2>1, <4>1, <4>2, <4>3, <4>4
    <3>3. CASE i \notin 1..Len(log) /\ j \notin 1..Len(log)
      <4>1. PICK k \in 1..Len(batch) : j = Len(log) + k
        BY <2>4, <3>3
      <4>2. PICK m \in 1..Len(batch) : i = Len(log) + m
        BY <2>4, <3>3
      <4>3. log'[j].version = cur + k /\ log'[i].version = cur + m
        BY <2>1, <4>1, <4>2
      <4>4. m < k
        BY <2>1, <4>1, <4>2
      <4> QED
        BY <2>1, <4>3, <4>4
    <3> QED
      BY <3>1, <3>2, <3>3
  <2>6. WritersForked'
    <3> SUFFICES ASSUME NEW i \in 1..Len(log')
                 PROVE  log'[i].branch \in Branches => base[log'[i].branch] # NotForked
      BY <2>1 DEF WritersForked, Writable
    <3>1. CASE i \in 1..Len(log)
      BY <2>1, <3>1 DEF WritersForked, Writable
    <3>2. CASE i \notin 1..Len(log)
      BY <2>1, <2>2, <2>4, <3>2 DEF Writable
    <3> QED
      BY <3>1, <3>2
  <2> QED
    BY <2>5, <2>6
<1>3. CASE UNCHANGED vars
  BY <1>3 DEF vars, VersionsIncrease, WritersForked, Writable
<1> QED
  BY <1>1, <1>2, <1>3 DEF Next

(***************************************************************************)
(* UNIQUE(stream, branch, version) and log order hold for every history:   *)
(* no interleaving of appends, not even those that skip the expected       *)
(* version, gives a (stream, branch) two events with one version.          *)
(***************************************************************************)
THEOREM IncreaseCorrect == Spec => []VersionsIncrease
<1>1. Init => VersionsIncrease /\ WritersForked
  BY DEF Init, VersionsIncrease, WritersForked
<1>2. IInv /\ (VersionsIncrease /\ WritersForked) /\ [Next]_vars
        => (VersionsIncrease /\ WritersForked)'
  BY StepIncrease
<1> QED
  BY Invariance, <1>1, <1>2, PTL DEF Spec

(***************************************************************************)
(* An event opens no gap: it continues the event before it, or opens its   *)
(* line.  The property with `l' and `f' for the log and the base, so that  *)
(* a step can be argued about on both sides.                               *)
(***************************************************************************)
Continues(l, f, i) ==
  LET e == l[i] IN
  \/ \E j \in 1..(i-1) : /\ l[j].stream = e.stream
                         /\ l[j].branch = e.branch
                         /\ l[j].version = e.version - 1
  \/ e.branch = Main /\ e.version = 1
  \/ e.branch # Main /\ e.version = SeedVersion(l, e.stream, f[e.branch]) + 1

LEMMA StepGapless ==
  ASSUME IInv, WritersForked, \A i \in 1..Len(log) : Continues(log, base, i), [Next]_vars
  PROVE  \A i \in 1..Len(log') : Continues(log', base', i)
<1>1. \A i \in 1..Len(log) : log[i].branch \in Scopes
  BY VersionsPositive DEF IInv, TypeOK, EventsOf, Event
<1>2. \A s : \A b \in Branches : base[b] # NotForked =>
         SeedVersion(log', s, base'[b]) = SeedVersion(log, s, base[b])
  BY SeedFixed
<1>3. ASSUME NEW i \in 1..Len(log), log'[i] = log[i],
             \A j \in 1..(i-1) : log'[j] = log[j]
      PROVE  Continues(log', base', i)
  <2>1. Continues(log, base, i)
    OBVIOUS
  <2>2. log[i].branch # Main => base[log[i].branch] # NotForked /\ log[i].branch \in Branches
    BY <1>1 DEF WritersForked, Writable, Scopes
  <2> QED
    BY <1>2, <1>3, <2>1, <2>2 DEF Continues
<1>4. CASE log' = log
  BY <1>3, <1>4
<1>5. ASSUME NEW s \in Streams, NEW b \in Scopes, NEW batch \in Batches,
             NEW expected, AppendEvents(s, b, batch, expected)
      PROVE  \A i \in 1..Len(log') : Continues(log', base', i)
  <2> DEFINE cur == Current(s, b)
  <2>1. /\ cur \in Nat
        /\ versions[<<s, b>>] \in Nat
        /\ log \in Seq(Event) /\ Len(log) \in Nat /\ Len(batch) \in Nat
        /\ Len(log') = Len(log) + Len(batch)
        /\ \A i \in 1..Len(log) : log'[i] = log[i]
        /\ \A k \in 1..Len(batch) : /\ log'[Len(log) + k].stream = s
                                    /\ log'[Len(log) + k].branch = b
                                    /\ log'[Len(log) + k].version = cur + k
        /\ base' = base
    BY <1>5, AppendFacts
  <2>2. Writable(b)
    BY <1>5 DEF AppendEvents
  <2>3. /\ versions[<<s, b>>] # 0 => cur = versions[<<s, b>>]
        /\ b = Main => cur = versions[<<s, b>>]
        /\ (versions[<<s, b>>] = 0 /\ b # Main) => cur = SeedVersion(log, s, base[b])
    BY <2>2, CurrentVersionFacts
  <2> HIDE DEF cur
  <2>4. ASSUME NEW i \in 1..Len(log)
        PROVE  Continues(log', base', i)
    <3>1. log'[i] = log[i] /\ \A j \in 1..(i-1) : log'[j] = log[j]
      BY <2>1
    <3> QED
      BY <1>3, <3>1
  <2>5. ASSUME NEW k \in 1..Len(batch)
        PROVE  Continues(log', base', Len(log) + k)
    <3> DEFINE i == Len(log) + k
    <3>1. /\ log'[i].stream = s /\ log'[i].branch = b /\ log'[i].version = cur + k
          /\ i \in Nat
      BY <2>1
    <3>2. CASE k > 1
      <4>1. k - 1 \in 1..Len(batch) /\ Len(log) + (k - 1) = i - 1
        BY <2>1, <3>2
      <4>2. /\ log'[i - 1].stream = s /\ log'[i - 1].branch = b
            /\ log'[i - 1].version = cur + (k - 1)
        BY <2>1, <4>1
      <4>3. i - 1 \in 1..(i - 1) /\ cur + (k - 1) = (cur + k) - 1
        BY <2>1, <3>1, <4>1
      <4> HIDE DEF i
      <4>4. Continues(log', base', i)
        BY <3>1, <4>2, <4>3 DEF Continues
      <4> QED
        BY <4>4 DEF i
    <3>3. CASE k = 1 /\ versions[<<s, b>>] # 0
      <4>1. IsTop(OwnEvents(log, s, b), versions[<<s, b>>])
        BY DEF IInv, CacheIsTop
      <4>2. PICK e \in OwnEvents(log, s, b) : e.version = versions[<<s, b>>]
        BY <3>3, <4>1 DEF IsTop
      <4>3. PICK j \in 1..Len(log) : log[j] = e
        BY <4>2 DEF OwnEvents, EventsOf
      <4>4. /\ log'[j].stream = s /\ log'[j].branch = b
            /\ log'[j].version = cur
        BY <2>1, <2>3, <3>3, <4>2, <4>3 DEF OwnEvents
      <4>5. j \in 1..(i - 1) /\ cur = (cur + k) - 1
        BY <2>1, <3>3
      <4> HIDE DEF i
      <4>6. Continues(log', base', i)
        BY <3>1, <4>4, <4>5 DEF Continues
      <4> QED
        BY <4>6 DEF i
    <3>4. CASE k = 1 /\ versions[<<s, b>>] = 0
      <4>1. b = Main => cur + k = 1
        BY <2>1, <2>3, <3>4
      <4>2. b # Main => SeedVersion(log', s, base'[b]) = cur
        BY <1>2, <2>2, <2>3, <3>4 DEF Writable, Scopes
      <4> HIDE DEF i
      <4>3. Continues(log', base', i)
        BY <3>1, <3>4, <4>1, <4>2 DEF Continues
      <4> QED
        BY <4>3 DEF i
    <3> QED
      BY <2>1, <3>2, <3>3, <3>4
  <2>6. \A i \in 1..Len(log') :
           i \in 1..Len(log) \/ \E k \in 1..Len(batch) : i = Len(log) + k
    <3> SUFFICES ASSUME NEW i \in 1..Len(log'), i \notin 1..Len(log)
                 PROVE  \E k \in 1..Len(batch) : i = Len(log) + k
      OBVIOUS
    <3>1. i - Len(log) \in 1..Len(batch) /\ i = Len(log) + (i - Len(log))
      BY <2>1
    <3> QED
      BY <3>1
  <2> QED
    BY <2>4, <2>5, <2>6
<1>6. CASE UNCHANGED vars
  BY <1>4, <1>6 DEF vars
<1>7. ASSUME NEW b \in Branches, Fork(b) PROVE log' = log
  BY <1>7 DEF Fork
<1> QED
  BY <1>4, <1>5, <1>6, <1>7 DEF Next

(***************************************************************************)
(* Every version line is contiguous: on main from 1, on a branch from the  *)
(* version main had when it forked (BR-005), so that a branch edit of a    *)
(* mainline entity is one more version of that entity.                     *)
(***************************************************************************)
THEOREM GaplessCorrect == Spec => []VersionsGapless
<1> DEFINE Inv == /\ VersionsIncrease /\ WritersForked
                  /\ \A i \in 1..Len(log) : Continues(log, base, i)
<1>1. Init => Inv
  BY DEF Init, VersionsIncrease, WritersForked
<1>2. IInv /\ Inv /\ [Next]_vars => Inv'
  BY StepIncrease, StepGapless
<1>3. Inv => VersionsGapless
  BY DEF VersionsGapless, Continues
<1> HIDE DEF Inv
<1> QED
  BY Invariance, <1>1, <1>2, <1>3, PTL DEF Spec

-----------------------------------------------------------------------------
(* Refinement.                                                             *)

(***************************************************************************)
(* Every behaviour of the in-memory store, its version map forgotten, is   *)
(* one of the SQL stores: same refusals, same stored versions (DB-001).    *)
(***************************************************************************)
THEOREM Refinement == Spec => ImplementsSql
<1>1. Init => Sql!Init
  BY DEF Init, Sql!Init
<1>2. IInv /\ CacheMatchesLog /\ [Next]_vars => [Sql!Next]_(Sql!vars)
  <2> SUFFICES ASSUME IInv, CacheMatchesLog, [Next]_vars PROVE [Sql!Next]_(Sql!vars)
    OBVIOUS
  <2>1. ASSUME NEW b \in Branches, Fork(b) PROVE Sql!Fork(b)
    BY <2>1 DEF Fork, Sql!Fork
  <2>2. ASSUME NEW s \in Streams, NEW b \in Scopes, NEW batch \in Batches,
               NEW expected \in -1..MaxEvents, AppendEvents(s, b, batch, expected)
        PROVE  Sql!AppendEvents(s, b, batch, expected)
    <3>1. versions[<<s, b>>] = StreamVersion(log, s, b)
      BY DEF CacheMatchesLog
    <3>2. Sql!StreamVersion(log, s, b) = StreamVersion(log, s, b)
      BY DEF Sql!StreamVersion, StreamVersion, Sql!OwnEvents, OwnEvents,
             Sql!EventsOf, EventsOf, Sql!TopVersion, TopVersion
    <3>3. Sql!SeedVersion(log, s, BaseOf(b)) = SeedVersion(log, s, BaseOf(b))
      BY DEF Sql!SeedVersion, SeedVersion, Sql!OwnEvents, OwnEvents,
             Sql!EventsOf, EventsOf, Sql!TopVersion, TopVersion
    <3>4. Sql!BaseOf(b) = BaseOf(b)
      BY DEF Sql!BaseOf, BaseOf
    <3>5. Current(s, b) = Sql!CurrentVersion(log, Sql!StreamVersion(log, s, b), s, b,
                                             Sql!BaseOf(b))
      BY <3>1, <3>2, <3>3, <3>4 DEF Current, Sql!CurrentVersion, CurrentVersion
    <3>6. Sql!Stored(log, s, b, Current(s, b), batch) = Stored(log, s, b, Current(s, b), batch)
      BY DEF Sql!Stored, Stored
    <3>7. Sql!Unused(s, b, Current(s, b), Len(batch))
      <4>1. \A e \in OwnEvents(log, s, b), k \in 1..Len(batch) : e.version # Current(s, b) + k
        <5> SUFFICES ASSUME NEW e \in OwnEvents(log, s, b), NEW k \in 1..Len(batch)
                     PROVE  e.version # Current(s, b) + k
          OBVIOUS
        <5>1. /\ Current(s, b) \in Nat /\ versions[<<s, b>>] \in Nat
              /\ versions[<<s, b>>] <= Current(s, b)
              /\ log \in Seq(Event) /\ Len(batch) \in Nat
          BY <2>2, AppendFacts
        <5>2. e.version <= versions[<<s, b>>]
          BY DEF IInv, CacheIsTop, IsTop
        <5>3. e.version \in Nat
          BY <5>1, VersionsPositive DEF OwnEvents
        <5> QED
          BY <5>1, <5>2, <5>3
      <4> QED
        BY <4>1 DEF Sql!Unused, Sql!OwnEvents, OwnEvents, Sql!EventsOf, EventsOf
    <3> QED
      BY <2>2, <3>5, <3>6, <3>7
      DEF AppendEvents, Sql!AppendEvents, Sql!Accepts, Accepts, Writable
  <2>3. CASE UNCHANGED vars
    BY <2>3 DEF vars, Sql!vars
  <2> QED
    BY <2>1, <2>2, <2>3 DEF Next, Sql!Next, Sql!Scopes, Scopes, Sql!Batches, Batches
<1> QED
  BY Invariance, CacheCorrect, <1>1, <1>2, PTL DEF Spec, ImplementsSql, Sql!Spec

=============================================================================
