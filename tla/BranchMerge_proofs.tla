------------------------- MODULE BranchMerge_proofs -------------------------
(***************************************************************************)
(* Proofs about the merge of a research branch, for every number of        *)
(* requests, branches, streams and events.                                 *)
(*                                                                         *)
(* The first invariant, IInv, is about who may write: one merge wins,      *)
(* nothing of the branch comes to main twice, and nothing before the claim.*)
(* The second, KInv, is about what a merge knows: what its plan read, what *)
(* main's versions say of it later, and what the caller has decided.  From *)
(* both: a merge promotes the branch in full, overrides nothing silently,  *)
(* and leaves no dangling child.                                           *)
(* The last section is about the verdict and xrefs, which the requests     *)
(* followed here do not write.                                             *)
(***************************************************************************)
EXTENDS BranchMerge, EventLog_proofs, FiniteSetTheorems

-----------------------------------------------------------------------------
(* The invariant.                                                          *)

\* The steps of a merge that carry the planned events, and those after its claim.
Planning == {"pin", "judge", "recheck", "lookup", "claim", "mark", "purge", "replay", "reappend"}
Winning  == {"mark", "purge", "replay", "reappend"}

\* A request carries the local variables of its step.
Carries(r) ==
  /\ "pc" \in DOMAIN r
  /\ r.pc # "idle" => "branch" \in DOMAIN r /\ r.branch \in Branches
  /\ r.pc \in Planning => "replay" \in DOMAIN r /\ "pins" \in DOMAIN r
  /\ r.pc \in {"pin", "recheck", "replay", "reappend"} => "todo" \in DOMAIN r
  /\ r.pc \in {"lookup", "claim"} => "version" \in DOMAIN r
  /\ r.pc = "append" => r.stream \in Streams

Slots(q) ==
  /\ q = [r \in Requests |-> q[r]]
  /\ \A r \in Requests : Carries(q[r])

\* What the store makes of any log: positions count, versions are positive.
WellStored(l) ==
  /\ IsLog(l)
  /\ \A i \in 1..Len(l) : /\ l[i].position = i
                          /\ l[i].version \in Nat \ {0}
                          /\ "from" \in DOMAIN l[i].body

\* Claims, and the replays of one branch, in the log l.
ClaimsIn(l, b)  == {e \in OwnEvents(l, b, b) : e.body.type = "BranchMerged"}
ReplaysIn(l, b) == {e \in EventsOf(l) : e.body.from # 0 /\ l[e.body.from].branch = b}

\* A replay is on main, on the stream of the branch event, after the claim.
ReplaysFollow(l) ==
  \A e \in EventsOf(l) : e.body.from # 0 =>
    /\ e.branch = Main /\ e.body.from \in 1..Len(l)
    /\ l[e.body.from].branch \in Branches /\ l[e.body.from].stream = e.stream
    /\ \E c \in ClaimsIn(l, l[e.body.from].branch) : c.position < e.position

OnlyOnce(l) ==
  /\ \A b \in Branches : \A c, d \in ClaimsIn(l, b) : c = d
  /\ \A d, e \in EventsOf(l) : d.body.from # 0 /\ d.body.from = e.body.from => d = e

\* The planned events are the branch's, in the order of the log.
Plans(l, r) ==
  r.pc \in Planning =>
    /\ IsLog(r.replay) /\ Len(r.replay) \in Nat /\ Ordered(r.replay)
    /\ \A e \in EventsOf(r.replay) : e \in EventsOf(l) /\ e.branch = r.branch

(***************************************************************************)
(* The version a claim will be compared with is not ahead of the branch's; *)
(* once the log was seen unclaimed, it is the branch's version only while  *)
(* the log is still unclaimed.                                             *)
(***************************************************************************)
Claiming(l, r) ==
  r.pc \in {"lookup", "claim"} =>
    /\ r.version \in Nat /\ r.version <= StreamVersion(l, r.branch, r.branch)
    /\ r.pc = "claim" /\ r.version = StreamVersion(l, r.branch, r.branch) =>
         ClaimsIn(l, r.branch) = {}

(***************************************************************************)
(* A merge that has claimed: what it has replayed is past the pins, so a   *)
(* stream whose pin holds has nothing of the branch yet.                   *)
(***************************************************************************)
Won(l, r) ==
  r.pc \in Winning =>
    /\ ClaimsIn(l, r.branch) # {}
    /\ r.pc \in {"mark", "purge"} => ReplaysIn(l, r.branch) = {}
    /\ \A e \in ReplaysIn(l, r.branch) :
         r.pins[e.stream] \in Nat /\ e.version > r.pins[e.stream]
    /\ r.pc = "reappend" => /\ r.pins[Head(r.todo)] \in Nat
                            /\ \A e \in ReplaysIn(l, r.branch) : e.stream # Head(r.todo)

OneWins(q) ==
  \A m, n \in Requests :
    q[m].pc \in Winning /\ q[n].pc \in Winning /\ q[m].branch = q[n].branch => m = n

LogInv(l) == WellStored(l) /\ ReplaysFollow(l) /\ OnlyOnce(l)

Agrees(l, r) == Plans(l, r) /\ Claiming(l, r) /\ Won(l, r)

Inv(l, q) ==
  /\ Slots(q) /\ LogInv(l) /\ OneWins(q)
  /\ \A r \in Requests : Agrees(l, q[r])

IInv == Inv(log, req)

-----------------------------------------------------------------------------
(* Versions and payloads.                                                  *)

(***************************************************************************)
(* The stored form of a payload says which branch event it replays.        *)
(***************************************************************************)
LEMMA PayloadSays ==
  ASSUME NEW body, NEW from
  PROVE  /\ "from" \in DOMAIN Payload(body, from)
         /\ Payload(body, from).from = from
         /\ "type" \in DOMAIN body => Payload(body, from).type = body.type
  BY DEF Payload

(***************************************************************************)
(* A log's versions are numbers, and the greatest of a stream's is what    *)
(* the store computes.                                                     *)
(***************************************************************************)
LEMMA Versions ==
  ASSUME NEW l, WellStored(l), NEW s, NEW b
  PROVE  /\ StreamVersion(l, s, b) \in Nat
         /\ IsTop(OwnEvents(l, s, b), StreamVersion(l, s, b))
         /\ \A e \in OwnEvents(l, s, b) : e.version \in Nat \ {0}
         /\ \A from : SeedVersion(l, s, from) \in Nat
<1>1. Len(l) \in Nat
  BY LenProperties DEF WellStored, IsLog
<1>2. \A e \in EventsOf(l) : e.version \in Nat \ {0}
  BY DEF WellStored, EventsOf
<1>3. OwnEvents(l, s, b) \subseteq EventsOf(l)
  BY DEF OwnEvents
<1>4. /\ TopVersion(OwnEvents(l, s, b)) \in Nat
      /\ IsTop(OwnEvents(l, s, b), TopVersion(OwnEvents(l, s, b)))
  BY <1>1, <1>2, <1>3, TopExists
<1>5. ASSUME NEW from PROVE SeedVersion(l, s, from) \in Nat
  <2> DEFINE S == {e \in OwnEvents(l, s, Main) : e.position <= from}
  <2>1. S \subseteq EventsOf(l)
    BY DEF OwnEvents
  <2>2. TopVersion(S) \in Nat
    <3> HIDE DEF S
    <3> QED
      BY <1>1, <1>2, <2>1, TopExists
  <2> QED
    BY <2>2 DEF SeedVersion
<1> QED
  BY <1>2, <1>3, <1>4, <1>5 DEF StreamVersion

(***************************************************************************)
(* The version an append continues is a number, the stream's own unless    *)
(* that is 0.                                                              *)
(***************************************************************************)
LEMMA Continues ==
  ASSUME NEW l, WellStored(l), NEW s, NEW b, NEW from
  PROVE  LET cur == CurrentVersion(l, StreamVersion(l, s, b), s, b, from) IN
         /\ cur \in Nat /\ StreamVersion(l, s, b) <= cur
         /\ cur = StreamVersion(l, s, b) \/ StreamVersion(l, s, b) = 0
         /\ b = Main => cur = StreamVersion(l, s, b)
  BY Versions DEF CurrentVersion

\* m is l and more, as the store stores it.
Longer(l, m) ==
  /\ WellStored(l) /\ WellStored(m)
  /\ Len(l) \in Nat /\ Len(m) \in Nat /\ Len(l) <= Len(m)
  /\ \A i \in 1..Len(l) : m[i] = l[i]
  /\ EventsOf(l) \subseteq EventsOf(m)
  /\ \A t, c : StreamVersion(l, t, c) <= StreamVersion(m, t, c)

\* Stored payloads.
IsBatch(batch) == Len(batch) \in Nat /\ \A k \in 1..Len(batch) : "from" \in DOMAIN batch[k]

(***************************************************************************)
(* A well-stored log stays so by an append, and the version of no stream   *)
(* falls: that of the stream appended to rises above the version the       *)
(* append continued, the others stay.                                      *)
(***************************************************************************)
LEMMA Appended ==
  ASSUME NEW l, WellStored(l), NEW s, NEW b, NEW cur \in Nat, NEW batch, IsBatch(batch),
         NEW m, GrowsBy(l, m, s, b, cur, batch)
  PROVE  /\ Longer(l, m)
         /\ EventsOf(m) = EventsOf(l) \union StoredEvents(l, s, b, cur, batch)
         /\ Len(batch) > 0 => StreamVersion(m, s, b) > cur
<1> DEFINE n == Len(batch)
           E(k) == StoredAt(l, s, b, cur, batch, k)
<1>0. IsLog(l) /\ n \in Nat /\ \A k \in 1..n : "from" \in DOMAIN batch[k]
  BY DEF WellStored, IsBatch
<1>1. /\ IsLog(m)
      /\ Len(l) \in Nat /\ Len(m) = Len(l) + n
      /\ \A i \in 1..Len(l) : m[i] = l[i]
      /\ \A k \in 1..n : m[Len(l) + k] = E(k)
      /\ EventsOf(m) = EventsOf(l) \union StoredEvents(l, s, b, cur, batch)
  BY <1>0, ManyMore
<1>2. \A k \in 1..n : /\ E(k).stream = s /\ E(k).branch = b
                      /\ E(k).version = cur + k /\ E(k).position = Len(l) + k
                      /\ "from" \in DOMAIN E(k).body
  BY <1>0 DEF StoredAt
<1> HIDE DEF E
<1>3. WellStored(m)
  <2> SUFFICES ASSUME NEW i \in 1..Len(m)
               PROVE  /\ m[i].position = i
                      /\ m[i].version \in Nat \ {0}
                      /\ "from" \in DOMAIN m[i].body
    BY <1>1 DEF WellStored
  <2>1. CASE i \in 1..Len(l)
    BY <1>1, <2>1 DEF WellStored
  <2>2. CASE i \notin 1..Len(l)
    <3>1. PICK k \in 1..n : i = Len(l) + k
      <4>1. i - Len(l) \in 1..n /\ i = Len(l) + (i - Len(l))
        BY <1>1, <2>2
      <4> QED
        BY <4>1
    <3>2. cur + k \in Nat \ {0}
      OBVIOUS
    <3> QED
      BY <1>1, <1>2, <3>1, <3>2
  <2> QED
    BY <2>1, <2>2
<1>4. ASSUME NEW t, NEW c PROVE StreamVersion(l, t, c) <= StreamVersion(m, t, c)
  <2>1. OwnEvents(l, t, c) \subseteq OwnEvents(m, t, c)
    BY <1>1 DEF OwnEvents
  <2>2. StreamVersion(l, t, c) \in Nat /\ StreamVersion(m, t, c) \in Nat
    BY <1>3, Versions
  <2>3. IsTop(OwnEvents(l, t, c), StreamVersion(l, t, c))
    BY Versions
  <2>4. IsTop(OwnEvents(m, t, c), StreamVersion(m, t, c))
    BY <1>3, Versions
  <2>5. CASE OwnEvents(l, t, c) = {}
    <3>1. StreamVersion(l, t, c) = 0
      BY <2>3, <2>5 DEF IsTop
    <3> QED
      BY <2>2, <3>1
  <2>6. CASE OwnEvents(l, t, c) # {}
    <3>1. PICK e \in OwnEvents(l, t, c) : e.version = StreamVersion(l, t, c)
      BY <2>3, <2>6 DEF IsTop
    <3> QED
      BY <2>1, <2>4, <3>1 DEF IsTop
  <2> QED
    BY <2>5, <2>6
<1>5. ASSUME n > 0 PROVE StreamVersion(m, s, b) > cur
  <2>1. 1 \in 1..n
    BY <1>5
  <2>2. E(1) \in OwnEvents(m, s, b)
    <3>1. Len(l) + 1 \in 1..Len(m) /\ m[Len(l) + 1] = E(1)
      BY <1>1, <2>1
    <3>2. E(1) \in EventsOf(m)
      BY <3>1 DEF EventsOf
    <3> QED
      BY <1>2, <2>1, <3>2 DEF OwnEvents
  <2>3. E(1).version <= StreamVersion(m, s, b) /\ StreamVersion(m, s, b) \in Nat
    BY <1>3, <2>2, Versions DEF IsTop
  <2> QED
    BY <1>2, <2>1, <2>3
<1>6. Longer(l, m)
  BY <1>0, <1>1, <1>3, <1>4 DEF Longer
<1> QED
  BY <1>1, <1>5, <1>6

-----------------------------------------------------------------------------
(* One step changes one slot.                                              *)

(***************************************************************************)
(* Moving a request on changes its step and no other local variable.       *)
(***************************************************************************)
LEMMA GotoSays ==
  ASSUME NEW r, "pc" \in DOMAIN r, NEW pc, NEW v, v = [r EXCEPT !.pc = pc]
  PROVE  /\ DOMAIN v = DOMAIN r /\ v.pc = pc
         /\ \A f \in DOMAIN r \ {"pc"} : v[f] = r[f]
  OBVIOUS

(***************************************************************************)
(* A step that leaves what the other requests rely on, and whose own slot  *)
(* agrees with the log, keeps the invariant.  It may start to win only if  *)
(* nobody won that branch.                                                 *)
(***************************************************************************)
LEMMA OneSlot ==
  ASSUME NEW l, NEW q, Inv(l, q), NEW m, LogInv(m), NEW x \in Requests,
         \A r \in Requests \ {x} : Agrees(m, q[r]),
         NEW v, Carries(v), Agrees(m, v),
         v.pc \in Winning =>
           \/ q[x].pc \in Winning /\ q[x].branch = v.branch
           \/ \A r \in Requests : ~ (q[r].pc \in Winning /\ q[r].branch = v.branch),
         NEW p, p = [q EXCEPT ![x] = v]
  PROVE  Inv(m, p)
<1>1. q = [r \in Requests |-> q[r]] /\ \A r \in Requests : Carries(q[r])
  BY DEF Inv, Slots
<1>2. p[x] = v /\ \A r \in Requests \ {x} : p[r] = q[r]
  BY <1>1
<1>3. Slots(p)
  <2>1. p = [r \in Requests |-> p[r]]
    BY <1>1
  <2> QED
    BY <1>1, <1>2, <2>1 DEF Slots
<1>4. \A r \in Requests : Agrees(m, p[r])
  BY <1>2
<1>5. OneWins(p)
  <2>1. OneWins(q)
    BY DEF Inv
  <2> SUFFICES ASSUME NEW a \in Requests, NEW b \in Requests, a # b,
                      p[a].pc \in Winning, p[b].pc \in Winning, p[a].branch = p[b].branch
               PROVE  FALSE
    BY DEF OneWins
  <2>2. CASE a # x /\ b # x
    BY <1>2, <2>1, <2>2 DEF OneWins
  <2>3. CASE a = x
    BY <1>2, <2>1, <2>3 DEF OneWins
  <2>4. CASE b = x
    BY <1>2, <2>1, <2>4 DEF OneWins
  <2> QED
    BY <2>2, <2>3, <2>4
<1> QED
  BY <1>3, <1>4, <1>5 DEF Inv

-----------------------------------------------------------------------------
(* A longer log.                                                           *)

\* What is new is neither a claim nor a replay.
Quiet(l, m) ==
  /\ Longer(l, m)
  /\ \A b \in Branches : ClaimsIn(m, b) = ClaimsIn(l, b)
  /\ \A e \in EventsOf(m) : e.body.from # 0 => e \in EventsOf(l)

(***************************************************************************)
(* Claims and planned events stay.                                         *)
(***************************************************************************)
LEMMA LongerKeeps ==
  ASSUME NEW l, NEW m, Longer(l, m)
  PROVE  /\ \A b : ClaimsIn(l, b) \subseteq ClaimsIn(m, b)
         /\ \A r : Plans(l, r) => Plans(m, r)
         /\ \A t, c : StreamVersion(l, t, c) \in Nat /\ StreamVersion(m, t, c) \in Nat
<1>1. EventsOf(l) \subseteq EventsOf(m)
  BY DEF Longer
<1>2. \A t, c : OwnEvents(l, t, c) \subseteq OwnEvents(m, t, c)
  BY <1>1 DEF OwnEvents
<1>3. \A b : ClaimsIn(l, b) \subseteq ClaimsIn(m, b)
  BY <1>2 DEF ClaimsIn
<1>4. \A r : Plans(l, r) => Plans(m, r)
  BY <1>1 DEF Plans
<1> QED
  BY <1>3, <1>4, Versions DEF Longer

(***************************************************************************)
(* Where a log has replays, they are of events it has.                     *)
(***************************************************************************)
LEMMA OldReplays ==
  ASSUME NEW l, NEW m, Longer(l, m), ReplaysFollow(l),
         NEW e \in EventsOf(l), e.body.from # 0
  PROVE  /\ e.body.from \in 1..Len(l) /\ e.body.from \in 1..Len(m)
         /\ m[e.body.from] = l[e.body.from]
         /\ e.branch = Main /\ l[e.body.from].branch \in Branches
         /\ l[e.body.from].stream = e.stream
         /\ \E c \in ClaimsIn(l, l[e.body.from].branch) : c.position < e.position
  BY DEF Longer, ReplaysFollow

(***************************************************************************)
(* Neither a claim nor a replay disturbs no one.                           *)
(***************************************************************************)
LEMMA QuietKeeps ==
  ASSUME NEW l, NEW m, Quiet(l, m), LogInv(l)
  PROVE  /\ LogInv(m)
         /\ \A r : Carries(r) /\ Agrees(l, r) => Agrees(m, r)
<1>1. /\ Longer(l, m)
      /\ \A b \in Branches : ClaimsIn(m, b) = ClaimsIn(l, b)
      /\ \A e \in EventsOf(m) : e.body.from # 0 => e \in EventsOf(l)
  BY DEF Quiet
<1>2. WellStored(l) /\ WellStored(m) /\ ReplaysFollow(l) /\ OnlyOnce(l)
  BY <1>1 DEF LogInv, Longer
<1>3. ReplaysFollow(m)
  BY <1>1, <1>2, OldReplays, LongerKeeps DEF ReplaysFollow
<1>4. OnlyOnce(m)
  BY <1>1, <1>2 DEF OnlyOnce
<1>5. \A b \in Branches : ReplaysIn(m, b) = ReplaysIn(l, b)
  <2>1. EventsOf(l) \subseteq EventsOf(m)
    BY <1>1 DEF Longer
  <2> QED
    BY <1>1, <1>2, <2>1, OldReplays DEF ReplaysIn
<1>6. ASSUME NEW r, Carries(r), Agrees(l, r) PROVE Agrees(m, r)
  <2>1. Plans(l, r) /\ Claiming(l, r) /\ Won(l, r)
    BY <1>6 DEF Agrees
  <2>2. Plans(m, r)
    BY <1>1, <2>1, LongerKeeps
  <2>3. r.pc # "idle" => r.branch \in Branches
    BY <1>6 DEF Carries
  <2>4. Claiming(m, r)
    <3> SUFFICES ASSUME r.pc \in {"lookup", "claim"}
                 PROVE  /\ r.version \in Nat
                        /\ r.version <= StreamVersion(m, r.branch, r.branch)
                        /\ r.pc = "claim" /\ r.version = StreamVersion(m, r.branch, r.branch) =>
                             ClaimsIn(m, r.branch) = {}
      BY DEF Claiming
    <3>1. /\ StreamVersion(l, r.branch, r.branch) \in Nat
          /\ StreamVersion(m, r.branch, r.branch) \in Nat
          /\ StreamVersion(l, r.branch, r.branch) <= StreamVersion(m, r.branch, r.branch)
      BY <1>1, LongerKeeps DEF Longer
    <3>2. /\ r.version \in Nat /\ r.version <= StreamVersion(l, r.branch, r.branch)
          /\ r.pc = "claim" /\ r.version = StreamVersion(l, r.branch, r.branch) =>
               ClaimsIn(l, r.branch) = {}
      BY <2>1 DEF Claiming
    <3>3. ClaimsIn(m, r.branch) = ClaimsIn(l, r.branch)
      BY <1>1, <2>3
    <3> QED
      BY <3>1, <3>2, <3>3
  <2>5. Won(m, r)
    BY <1>1, <1>5, <2>1, <2>3 DEF Won, Winning
  <2> QED
    BY <2>2, <2>4, <2>5 DEF Agrees
<1> QED
  BY <1>2, <1>3, <1>4, <1>6 DEF LogInv

(***************************************************************************)
(* An append of one payload that replays nothing and claims nothing.       *)
(***************************************************************************)
LEMMA QuietAppend ==
  ASSUME NEW l, WellStored(l), NEW s, NEW b, NEW cur \in Nat, NEW body,
         body.from = 0, "from" \in DOMAIN body,
         s \in Branches /\ b = s => body.type # "BranchMerged",
         NEW m, GrowsBy(l, m, s, b, cur, <<body>>)
  PROVE  Quiet(l, m)
<1>1. PICK batch : batch = <<body>>
  OBVIOUS
<1>2. Len(batch) = 1 /\ batch[1] = body
  BY <1>1
<1>3. IsBatch(batch)
  BY <1>2 DEF IsBatch
<1>4. GrowsBy(l, m, s, b, cur, batch)
  BY <1>1
<1>5. Longer(l, m) /\ EventsOf(m) = EventsOf(l) \union StoredEvents(l, s, b, cur, batch)
  BY <1>3, <1>4, Appended
<1>6. \A e \in EventsOf(m) :
        e \in EventsOf(l) \/ (e.stream = s /\ e.branch = b /\ e.body = body)
  BY <1>2, <1>5 DEF StoredEvents, StoredAt
<1>7. \A c \in Branches : ClaimsIn(m, c) = ClaimsIn(l, c)
  <2> SUFFICES ASSUME NEW c \in Branches, NEW e \in ClaimsIn(m, c) PROVE e \in ClaimsIn(l, c)
    BY <1>5, LongerKeeps
  <2> QED
    BY <1>6 DEF ClaimsIn, OwnEvents
<1>8. \A e \in EventsOf(m) : e.body.from # 0 => e \in EventsOf(l)
  BY <1>6
<1> QED
  BY <1>5, <1>7, <1>8 DEF Quiet


-----------------------------------------------------------------------------
(* Steps that plan nothing and claim nothing.                              *)

\* A slot that carries no plan.
Modest(r) == Carries(r) /\ r.pc \notin Planning

(***************************************************************************)
(* A slot that carries no plan agrees with every log.                      *)
(***************************************************************************)
LEMMA ModestAgrees ==
  ASSUME NEW l, NEW r, Modest(r)
  PROVE  Agrees(l, r) /\ r.pc \notin Winning
  BY DEF Modest, Agrees, Plans, Claiming, Won, Planning, Winning

(***************************************************************************)
(* A step into such a slot, with nothing or nothing of note appended,      *)
(* keeps the invariant.                                                    *)
(***************************************************************************)
LEMMA ModestStep ==
  ASSUME NEW l, NEW q, Inv(l, q), NEW m, Quiet(l, m) \/ m = l,
         NEW x \in Requests, NEW v, Modest(v), NEW p, p = [q EXCEPT ![x] = v]
  PROVE  Inv(m, p)
<1>1. LogInv(l) /\ \A r \in Requests : Carries(q[r]) /\ Agrees(l, q[r])
  BY DEF Inv, Slots
<1>2. LogInv(m) /\ \A r \in Requests : Agrees(m, q[r])
  BY <1>1, QuietKeeps
<1>3. Carries(v) /\ Agrees(m, v) /\ v.pc \notin Winning
  BY ModestAgrees DEF Modest
<1> QED
  BY <1>2, <1>3, OneSlot

(***************************************************************************)
(* A step that leaves the log, into a slot that carries a plan.            *)
(***************************************************************************)
LEMMA SlotStep ==
  ASSUME NEW l, NEW q, Inv(l, q), NEW x \in Requests,
         NEW v, Carries(v), Agrees(l, v),
         v.pc \in Winning => q[x].pc \in Winning /\ q[x].branch = v.branch,
         NEW p, p = [q EXCEPT ![x] = v]
  PROVE  Inv(l, p)
<1>1. LogInv(l) /\ \A r \in Requests : Agrees(l, q[r])
  BY DEF Inv
<1> QED
  BY <1>1, OneSlot

\* v is r moved on to the step pc.
Moved(r, v, pc) ==
  /\ DOMAIN v = DOMAIN r /\ v.pc = pc
  /\ \A f \in DOMAIN r \ {"pc"} : v[f] = r[f]

(***************************************************************************)
(* A request that moves on keeps what it carried.                          *)
(***************************************************************************)
LEMMA MovedSays ==
  ASSUME NEW r, Carries(r), r.pc # "idle", NEW v, NEW pc, Moved(r, v, pc)
  PROVE  /\ "pc" \in DOMAIN v /\ "branch" \in DOMAIN v
         /\ v.pc = pc /\ v.branch = r.branch /\ r.branch \in Branches
         /\ r.pc \in Planning =>
              /\ "replay" \in DOMAIN v /\ "pins" \in DOMAIN v
              /\ v.replay = r.replay /\ v.pins = r.pins
         /\ r.pc \in {"pin", "recheck", "replay", "reappend"} =>
              "todo" \in DOMAIN v /\ v.todo = r.todo
         /\ r.pc \in {"lookup", "claim"} => "version" \in DOMAIN v /\ v.version = r.version
<1>1. "branch" \in DOMAIN r \ {"pc"} /\ r.branch \in Branches
  BY DEF Carries
<1>2. v["branch"] = r["branch"]
  BY <1>1 DEF Moved
<1>3. r.pc \in Planning => v["replay"] = r["replay"] /\ v["pins"] = r["pins"]
  <2>1. r.pc \in Planning => "replay" \in DOMAIN r \ {"pc"} /\ "pins" \in DOMAIN r \ {"pc"}
    BY DEF Carries
  <2> QED
    BY <2>1 DEF Moved
<1>4. r.pc \in {"pin", "recheck", "replay", "reappend"} => v["todo"] = r["todo"]
  <2>1. r.pc \in {"pin", "recheck", "replay", "reappend"} => "todo" \in DOMAIN r \ {"pc"}
    BY DEF Carries
  <2> QED
    BY <2>1 DEF Moved
<1>5. r.pc \in {"lookup", "claim"} => v["version"] = r["version"]
  <2>1. r.pc \in {"lookup", "claim"} => "version" \in DOMAIN r \ {"pc"}
    BY DEF Carries
  <2> QED
    BY <2>1 DEF Moved
<1> QED
  BY <1>1, <1>2, <1>3, <1>4, <1>5 DEF Moved, Carries

(***************************************************************************)
(* Goto moves the slot on.                                                 *)
(***************************************************************************)
LEMMA GotoMoves ==
  ASSUME Slots(req), NEW x \in Requests, NEW pc, Goto(x, pc)
  PROVE  \E v : Moved(req[x], v, pc) /\ req' = [req EXCEPT ![x] = v]
<1>1. PICK v : v = [req[x] EXCEPT !.pc = pc]
  OBVIOUS
<1>2. "pc" \in DOMAIN req[x]
  BY DEF Slots, Carries
<1>3. Moved(req[x], v, pc)
  BY <1>1, <1>2, GotoSays DEF Moved
<1>4. req' = [req EXCEPT ![x] = v]
  BY <1>1 DEF Goto
<1> QED
  BY <1>3, <1>4

(***************************************************************************)
(* A request that ends keeps the invariant, whatever it leaves behind.     *)
(***************************************************************************)
LEMMA ReturnStep ==
  ASSUME Inv(log, req), NEW x \in Requests, Return(x), Quiet(log, log') \/ log' = log
  PROVE  Inv(log', req')
<1>1. PICK v : v = Idle
  OBVIOUS
<1>2. Modest(v)
  BY <1>1 DEF Modest, Carries, Idle, Planning
<1>3. req' = [req EXCEPT ![x] = v]
  BY <1>1 DEF Return
<1> QED
  BY <1>2, <1>3, ModestStep

(***************************************************************************)
(* So does one that goes on without a plan.                                *)
(***************************************************************************)
LEMMA GotoStep ==
  ASSUME Inv(log, req), NEW x \in Requests, NEW pc, Goto(x, pc),
         req[x].pc # "idle", pc \notin Planning \union {"append"},
         Quiet(log, log') \/ log' = log
  PROVE  Inv(log', req')
<1>1. Slots(req)
  BY DEF Inv
<1>2. PICK v : Moved(req[x], v, pc) /\ req' = [req EXCEPT ![x] = v]
  BY <1>1, GotoMoves
<1>3. Carries(req[x])
  BY <1>1 DEF Slots
<1>4. Modest(v)
  BY <1>2, <1>3, MovedSays DEF Modest, Carries, Planning
<1> QED
  BY <1>2, <1>4, ModestStep


-----------------------------------------------------------------------------
(* Creations, writes and deletes.                                          *)

(***************************************************************************)
(* An accepted append continues the log with the batch.                    *)
(***************************************************************************)
LEMMA AppendGrows ==
  ASSUME WellStored(log), NEW s, NEW b, NEW batch, NEW expected,
         AppendTo(s, b, batch, expected)
  PROVE  /\ Current(s, b) \in Nat /\ Accepts(expected, Current(s, b))
         /\ GrowsBy(log, log', s, b, Current(s, b), batch)
  BY Continues DEF AppendTo, Current, GrowsBy

(***************************************************************************)
(* An append of one event that is no claim is quiet.                       *)
(***************************************************************************)
LEMMA WriteIsQuiet ==
  ASSUME WellStored(log), NEW s, NEW b, NEW cur \in Nat, NEW body,
         s \in Branches => "type" \in DOMAIN body /\ body.type # "BranchMerged",
         GrowsBy(log, log', s, b, cur, <<Payload(body, 0)>>)
  PROVE  Quiet(log, log')
<1>1. PICK stored : stored = Payload(body, 0)
  OBVIOUS
<1>2. stored.from = 0 /\ "from" \in DOMAIN stored
  BY <1>1, PayloadSays
<1>3. s \in Branches => stored.type # "BranchMerged"
  BY <1>1, PayloadSays
<1>4. GrowsBy(log, log', s, b, cur, <<stored>>)
  BY <1>1
<1> QED
  BY <1>2, <1>3, <1>4, QuietAppend

(***************************************************************************)
(* The steps of CreateBranch.                                              *)
(***************************************************************************)
LEMMA CreateSteps ==
  ASSUME Inv(log, req), NEW c \in Creators,
         AppendCreated(c) \/ RegisterBranch(c) \/ \E b \in Branches : BeginCreate(c, b)
  PROVE  Inv(log', req')
<1>0. c \in Requests /\ WellStored(log)
  BY DEF Requests, Inv, LogInv
<1>1. CASE AppendCreated(c)
  <2>1. /\ GrowsBy(log, log', req[c].branch, req[c].branch, 0,
                   <<Payload(Lifecycle("BranchCreated"), 0)>>)
        /\ Goto(c, "register") /\ req[c].pc = "created"
    BY <1>1 DEF AppendCreated, GrowsBy
  <2>2. /\ "type" \in DOMAIN Lifecycle("BranchCreated")
        /\ Lifecycle("BranchCreated").type # "BranchMerged"
    BY DEF Lifecycle
  <2>3. Quiet(log, log')
    BY <1>0, <2>1, <2>2, WriteIsQuiet
  <2> QED
    BY <1>0, <2>1, <2>3, GotoStep DEF Planning
<1>2. CASE RegisterBranch(c)
  BY <1>0, <1>2, ReturnStep DEF RegisterBranch
<1>3. CASE \E b \in Branches : BeginCreate(c, b)
  <2>1. PICK b \in Branches : BeginCreate(c, b)
    BY <1>3
  <2>2. PICK v : v = [pc |-> "created", branch |-> b, head |-> Len(log)]
    OBVIOUS
  <2>3. Modest(v)
    BY <2>2 DEF Modest, Carries, Planning
  <2>4. req' = [req EXCEPT ![c] = v] /\ log' = log
    BY <2>1, <2>2 DEF BeginCreate
  <2> QED
    BY <1>0, <2>3, <2>4, ModestStep
<1> QED
  BY <1>1, <1>2, <1>3

(***************************************************************************)
(* A mainline write.                                                       *)
(***************************************************************************)
LEMMA MainStep ==
  ASSUME Inv(log, req), NEW s \in Streams, MainWrite(s)
  PROVE  Inv(log', req')
<1>0. WellStored(log) /\ s \notin Branches
  BY BranchesApart DEF Inv, LogInv
<1>1. PICK body, expected : AppendTo(s, Main, <<Payload(body, 0)>>, expected)
  BY DEF MainWrite
<1>2. Quiet(log, log')
  BY <1>0, <1>1, AppendGrows, WriteIsQuiet
<1>3. req' = req /\ LogInv(log)
      /\ \A r \in Requests : Carries(req[r]) /\ Agrees(log, req[r])
  BY DEF MainWrite, Inv, Slots
<1>4. LogInv(log') /\ \A r \in Requests : Agrees(log', req[r])
  BY <1>2, <1>3, QuietKeeps
<1> QED
  BY <1>3, <1>4 DEF Inv

(***************************************************************************)
(* The steps of a write on a branch.                                       *)
(***************************************************************************)
LEMMA EditSteps ==
  ASSUME Inv(log, req), NEW e \in Editors,
         \/ \E b \in Branches : BeginEdit(e, b)
         \/ \E s \in Streams : LoadRow(e, s) \/ NewAggregate(e, s)
         \/ AppendEdit(e) \/ RefuseEdit(e) \/ ProjectEdit(e)
  PROVE  Inv(log', req')
<1>0. e \in Requests /\ WellStored(log) /\ Carries(req[e])
  BY DEF Requests, Inv, LogInv, Slots
<1>1. CASE \E b \in Branches : BeginEdit(e, b)
  <2>1. PICK b \in Branches : BeginEdit(e, b)
    BY <1>1
  <2>2. PICK v : v = [pc |-> "load", branch |-> b]
    OBVIOUS
  <2>3. Modest(v)
    BY <2>2 DEF Modest, Carries, Planning
  <2>4. req' = [req EXCEPT ![e] = v] /\ log' = log
    BY <2>1, <2>2 DEF BeginEdit
  <2> QED
    BY <1>0, <2>3, <2>4, ModestStep
<1>2. CASE \E s \in Streams : LoadRow(e, s) \/ NewAggregate(e, s)
  <2>1. PICK s \in Streams : LoadRow(e, s) \/ NewAggregate(e, s)
    BY <1>2
  <2>2. PICK body, expected :
          /\ req' = [req EXCEPT ![e] = [pc |-> "append", branch |-> req[e].branch, stream |-> s,
                                        body |-> body, expected |-> expected]]
          /\ log' = log /\ req[e].pc = "load"
    BY <2>1 DEF LoadRow, NewAggregate
  <2>3. req[e].branch \in Branches
    BY <1>0, <2>2 DEF Carries
  <2>4. PICK v : v = [pc |-> "append", branch |-> req[e].branch, stream |-> s,
                      body |-> body, expected |-> expected]
    OBVIOUS
  <2>5. Modest(v)
    BY <2>3, <2>4 DEF Modest, Carries, Planning
  <2>6. req' = [req EXCEPT ![e] = v]
    BY <2>2, <2>4
  <2> QED
    BY <1>0, <2>2, <2>5, <2>6, ModestStep
<1>3. CASE AppendEdit(e)
  <2>1. /\ AppendTo(req[e].stream, req[e].branch, <<Payload(req[e].body, 0)>>, req[e].expected)
        /\ req[e].pc = "append"
    BY <1>3 DEF AppendEdit
  <2>2. req[e].stream \in Streams /\ req[e].branch \in Branches
    BY <1>0, <2>1 DEF Carries
  <2>3. req[e].stream \notin Branches
    BY <2>2, BranchesApart
  <2>4. Quiet(log, log')
    BY <1>0, <2>1, <2>3, AppendGrows, WriteIsQuiet
  <2>5. PICK row : req' = [req EXCEPT ![e] = [pc |-> "project", branch |-> req[e].branch,
                                              stream |-> req[e].stream, row |-> row]]
    BY <1>3 DEF AppendEdit
  <2>6. PICK v : v = [pc |-> "project", branch |-> req[e].branch,
                      stream |-> req[e].stream, row |-> row]
    OBVIOUS
  <2>7. Modest(v)
    BY <2>2, <2>6 DEF Modest, Carries, Planning
  <2>8. req' = [req EXCEPT ![e] = v]
    BY <2>5, <2>6
  <2> QED
    BY <1>0, <2>4, <2>7, <2>8, ModestStep
<1>4. CASE RefuseEdit(e)
  BY <1>0, <1>4, ReturnStep DEF RefuseEdit
<1>5. CASE ProjectEdit(e)
  BY <1>0, <1>5, ReturnStep DEF ProjectEdit
<1> QED
  BY <1>1, <1>2, <1>3, <1>4, <1>5

(***************************************************************************)
(* The steps of DeleteBranch.                                              *)
(***************************************************************************)
LEMMA DeleteSteps ==
  ASSUME Inv(log, req), NEW d \in Deleters,
         \/ \E b \in Branches : BeginDelete(d, b)
         \/ ReadDeleteVersion(d) \/ AppendDelete(d) \/ Archive(d) \/ DropOverlay(d)
  PROVE  Inv(log', req')
<1>0. d \in Requests /\ WellStored(log) /\ Carries(req[d])
  BY DEF Requests, Inv, LogInv, Slots
<1>1. CASE \E b \in Branches : BeginDelete(d, b)
  <2>1. PICK b \in Branches : BeginDelete(d, b)
    BY <1>1
  <2>2. PICK v : v = [pc |-> "version", branch |-> b]
    OBVIOUS
  <2>3. Modest(v)
    BY <2>2 DEF Modest, Carries, Planning
  <2>4. req' = [req EXCEPT ![d] = v] /\ log' = log
    BY <2>1, <2>2 DEF BeginDelete
  <2> QED
    BY <1>0, <2>3, <2>4, ModestStep
<1>2. CASE ReadDeleteVersion(d)
  <2>1. req[d].pc = "version" /\ log' = log
    BY <1>2 DEF ReadDeleteVersion
  <2>2. PICK v : v = [pc |-> "delete", branch |-> req[d].branch,
                      version |-> StreamVersion(log, req[d].branch, req[d].branch)]
    OBVIOUS
  <2>3. req[d].branch \in Branches
    BY <1>0, <2>1 DEF Carries
  <2>4. Modest(v)
    BY <2>2, <2>3 DEF Modest, Carries, Planning
  <2>5. req' = [req EXCEPT ![d] = v]
    BY <1>2, <2>2 DEF ReadDeleteVersion
  <2> QED
    BY <1>0, <2>1, <2>4, <2>5, ModestStep
<1>3. CASE AppendDelete(d)
  <2>1. CASE /\ AppendTo(req[d].branch, req[d].branch,
                         <<Payload(Lifecycle("BranchDeleted"), 0)>>, req[d].version)
             /\ Goto(d, "archive")
    <3>1. /\ "type" \in DOMAIN Lifecycle("BranchDeleted")
          /\ Lifecycle("BranchDeleted").type # "BranchMerged"
      BY DEF Lifecycle
    <3>2. Quiet(log, log')
      BY <1>0, <2>1, <3>1, AppendGrows, WriteIsQuiet
    <3>3. req[d].pc = "delete"
      BY <1>3 DEF AppendDelete
    <3> QED
      BY <1>0, <2>1, <3>2, <3>3, GotoStep DEF Planning
  <2>2. CASE Return(d) /\ log' = log
    BY <1>0, <2>2, ReturnStep
  <2> QED
    BY <1>3, <2>1, <2>2 DEF AppendDelete
<1>4. CASE Archive(d)
  <2>1. req[d].pc = "archive" /\ Goto(d, "drop") /\ log' = log
    BY <1>4 DEF Archive
  <2> QED
    BY <1>0, <2>1, GotoStep DEF Planning
<1>5. CASE DropOverlay(d)
  BY <1>0, <1>5, ReturnStep DEF DropOverlay
<1> QED
  BY <1>1, <1>2, <1>3, <1>4, <1>5


-----------------------------------------------------------------------------
(* MergeBranch: the plan.                                                  *)

(***************************************************************************)
(* The positions of a stored log count, so it is in order, and an event's  *)
(* place in it is its position.                                            *)
(***************************************************************************)
LEMMA LogOrdered ==
  ASSUME NEW l, WellStored(l)
  PROVE  /\ Ordered(l) /\ IsLog(l) /\ Len(l) \in Nat
         /\ \A e \in EventsOf(l) : /\ e.position \in 1..Len(l) /\ l[e.position] = e
                                   /\ "from" \in DOMAIN e.body
<1>1. IsLog(l) /\ Len(l) \in Nat /\ \A i \in 1..Len(l) : l[i].position = i
  BY LenProperties DEF WellStored, IsLog
<1>2. Ordered(l)
  BY <1>1 DEF Ordered
<1>3. \A e \in EventsOf(l) : /\ e.position \in 1..Len(l) /\ l[e.position] = e
                             /\ "from" \in DOMAIN e.body
  BY DEF EventsOf, WellStored
<1> QED
  BY <1>1, <1>2, <1>3

(***************************************************************************)
(* What a merge reads is the branch's, in order.                           *)
(***************************************************************************)
LEMMA ReadIsPlan ==
  ASSUME NEW l, WellStored(l), NEW b, NEW from,
         NEW replay, replay = Genealogy(ReadBranch(l, b, from, EventCap))
  PROVE  /\ IsLog(replay) /\ Len(replay) \in Nat /\ Ordered(replay)
         /\ \A e \in EventsOf(replay) : e \in EventsOf(l) /\ e.branch = b
<1>1. Ordered(l) /\ IsLog(l) /\ Len(l) \in Nat
  BY LogOrdered
<1>2. PICK S : S = {e \in EventsOf(l) : e.branch = b /\ e.position > from}
  OBVIOUS
<1>3. PICK own : own = OnlyIn(l, S)
  OBVIOUS
<1>4. IsLog(own) /\ Ordered(own) /\ EventsOf(own) = EventsOf(l) \intersect S
  BY <1>1, <1>3, OnlyInEvents
<1>5. PICK raw : raw = Capped(own, EventCap)
  OBVIOUS
<1>6. /\ IsLog(raw) /\ Len(raw) \in Nat /\ Ordered(raw)
      /\ EventsOf(raw) \subseteq EventsOf(own)
  BY <1>4, <1>5, CappedEvents, CapIsPositive
<1>7. PICK T : T = {e \in EventsOf(raw) : e.stream \notin Branches}
  OBVIOUS
<1>8. replay = OnlyIn(raw, T)
  BY <1>2, <1>3, <1>5, <1>7 DEF Genealogy, ReadBranch
<1>9. /\ IsLog(replay) /\ Len(replay) \in Nat /\ Ordered(replay)
      /\ EventsOf(replay) = EventsOf(raw) \intersect T
  BY <1>6, <1>8, OnlyInEvents
<1> QED
  BY <1>2, <1>4, <1>6, <1>9

(***************************************************************************)
(* A slot before the claim that keeps the planned events agrees with the   *)
(* log.                                                                    *)
(***************************************************************************)
LEMMA PlanStep ==
  ASSUME Inv(log, req), log' = log, NEW m \in Requests,
         NEW v, Carries(v), v.pc \in {"pin", "judge", "recheck", "lookup"},
         req[m].pc \in {"pin", "judge", "recheck"},
         v.replay = req[m].replay, v.branch = req[m].branch,
         v.pc = "lookup" => v.version = StreamVersion(log, v.branch, v.branch),
         req' = [req EXCEPT ![m] = v]
  PROVE  Inv(log', req')
<1>1. Plans(log, req[m]) /\ WellStored(log)
  BY DEF Inv, LogInv, Agrees
<1>2. Plans(log, v)
  BY <1>1 DEF Plans, Planning
<1>3. Claiming(log, v)
  <2>1. StreamVersion(log, v.branch, v.branch) \in Nat
    BY <1>1, Versions
  <2>2. \A n \in Nat : n <= n
    OBVIOUS
  <2> QED
    BY <2>1, <2>2 DEF Claiming
<1>4. Won(log, v) /\ v.pc \notin Winning
  BY DEF Won, Winning
<1> QED
  BY <1>2, <1>3, <1>4, SlotStep DEF Agrees

(***************************************************************************)
(* The steps that plan a merge.                                            *)
(***************************************************************************)
LEMMA PlanSteps ==
  ASSUME Inv(log, req), NEW m \in Mergers,
         \/ \E b \in Branches : BeginMerge(m, b)
         \/ LoadBranchSide(m) \/ PinStream(m) \/ LoadMainSide(m) \/ Judge(m)
         \/ CheckLink(m) \/ RecheckStream(m) \/ ReadClaimVersion(m)
  PROVE  Inv(log', req')
<1>0. m \in Requests /\ WellStored(log) /\ Carries(req[m]) /\ Slots(req)
  BY DEF Requests, Inv, LogInv, Slots
<1>1. CASE \E b \in Branches : BeginMerge(m, b)
  <2>1. PICK b \in Branches : BeginMerge(m, b)
    BY <1>1
  <2>2. PICK v : v = [pc |-> "plan", branch |-> b]
    OBVIOUS
  <2>3. Modest(v)
    BY <2>2 DEF Modest, Carries, Planning
  <2>4. req' = [req EXCEPT ![m] = v] /\ log' = log
    BY <2>1, <2>2 DEF BeginMerge
  <2> QED
    BY <1>0, <2>3, <2>4, ModestStep
<1>2. CASE LoadBranchSide(m)
  <2> DEFINE b == req[m].branch
             raw == ReadBranch(log, b, base[b], EventCap)
  <2>1. req[m].pc = "plan" /\ log' = log
    BY <1>2 DEF LoadBranchSide
  <2>2. b \in Branches
    BY <1>0, <2>1 DEF Carries
  <2>3. PICK replay : replay = Genealogy(raw)
    OBVIOUS
  <2>4. PICK v : v = [pc |-> "pin", branch |-> b, replay |-> replay,
                      truncated |-> Truncated(raw), pins |-> <<>>,
                      planned |-> Len(log), todo |-> FirstTouch(replay)]
    OBVIOUS
  <2>5. req' = [req EXCEPT ![m] = v]
    BY <1>2, <2>3, <2>4 DEF LoadBranchSide
  <2>6. /\ IsLog(replay) /\ Len(replay) \in Nat /\ Ordered(replay)
        /\ \A e \in EventsOf(replay) : e \in EventsOf(log) /\ e.branch = b
    BY <1>0, <2>3, ReadIsPlan
  <2> HIDE DEF b, raw
  <2>7. Carries(v)
    BY <2>2, <2>4 DEF Carries, Planning
  <2>8. Agrees(log, v) /\ v.pc \notin Winning
    BY <2>4, <2>6 DEF Agrees, Plans, Claiming, Won, Winning
  <2> QED
    BY <1>0, <2>1, <2>5, <2>7, <2>8, SlotStep
<1>3. CASE PinStream(m)
  <2>1. PICK pins, todo : req' = [req EXCEPT ![m].pins = pins, ![m].todo = todo]
    BY <1>3 DEF PinStream
  <2>2. PICK v : v = [[req[m] EXCEPT !.pins = pins] EXCEPT !.todo = todo]
    OBVIOUS
  <2>3. req' = [req EXCEPT ![m] = v]
    BY <1>0, <2>1, <2>2 DEF Slots
  <2>4. req[m].pc = "pin" /\ log' = log
    BY <1>3 DEF PinStream
  <2>5. /\ DOMAIN v = DOMAIN req[m]
        /\ \A f \in DOMAIN v \ {"pins", "todo"} : v[f] = req[m][f]
    BY <2>2
  <2>6. /\ "pc" \in DOMAIN v /\ "branch" \in DOMAIN v /\ "replay" \in DOMAIN v
        /\ "pins" \in DOMAIN v /\ "todo" \in DOMAIN v /\ req[m].branch \in Branches
    BY <1>0, <2>4, <2>5 DEF Carries, Planning
  <2>7. v.pc = "pin" /\ v.branch = req[m].branch /\ v.replay = req[m].replay
    BY <2>4, <2>5, <2>6
  <2>8. Carries(v)
    BY <2>6, <2>7 DEF Carries
  <2> QED
    BY <1>0, <2>3, <2>4, <2>7, <2>8, PlanStep
<1>4. CASE LoadMainSide(m)
  <2>1. req[m].pc = "pin" /\ log' = log
    BY <1>4 DEF LoadMainSide
  <2>2. req[m].branch \in Branches
    BY <1>0, <2>1 DEF Carries
  <2>3. PICK truncated, tail :
          req' = [req EXCEPT ![m] =
                    [pc |-> "judge", branch |-> req[m].branch, replay |-> req[m].replay,
                     pins |-> req[m].pins, truncated |-> truncated, tail |-> tail,
                     planned |-> req[m].planned]]
    BY <1>4 DEF LoadMainSide
  <2>4. PICK v : v = [pc |-> "judge", branch |-> req[m].branch, replay |-> req[m].replay,
                      pins |-> req[m].pins, truncated |-> truncated, tail |-> tail,
                      planned |-> req[m].planned]
    OBVIOUS
  <2>5. Carries(v)
    BY <2>2, <2>4 DEF Carries
  <2>6. /\ v.pc = "judge" /\ v.branch = req[m].branch /\ v.replay = req[m].replay
        /\ req' = [req EXCEPT ![m] = v]
    BY <2>3, <2>4
  <2> QED
    BY <1>0, <2>1, <2>5, <2>6, PlanStep
<1>5. CASE Judge(m)
  <2>1. CASE Return(m)
    BY <1>0, <1>5, <2>1, ReturnStep DEF Judge
  <2>2. CASE ~ Return(m)
    <3>1. req[m].pc = "judge" /\ log' = log
      BY <1>5 DEF Judge
    <3>2. PICK res :
            req' = [req EXCEPT ![m] =
                      [pc |-> "recheck", branch |-> req[m].branch, replay |-> req[m].replay,
                       pins |-> req[m].pins, res |-> res, links |-> LinksToCheck(req[m], res),
                       todo |-> ToReplay(req[m], res), planned |-> req[m].planned,
                       judged |-> Len(log)]]
      BY <1>5, <2>2 DEF Judge
    <3>3. PICK v : v = [pc |-> "recheck", branch |-> req[m].branch, replay |-> req[m].replay,
                        pins |-> req[m].pins, res |-> res, links |-> LinksToCheck(req[m], res),
                        todo |-> ToReplay(req[m], res), planned |-> req[m].planned,
                        judged |-> Len(log)]
      OBVIOUS
    <3>4. req[m].branch \in Branches
      BY <1>0, <3>1 DEF Carries
    <3>5. Carries(v)
      BY <3>3, <3>4 DEF Carries
    <3>6. /\ v.pc = "recheck" /\ v.branch = req[m].branch /\ v.replay = req[m].replay
          /\ req' = [req EXCEPT ![m] = v]
      BY <3>2, <3>3
    <3> QED
      BY <1>0, <3>1, <3>5, <3>6, PlanStep
  <2> QED
    BY <2>1, <2>2
<1>6. CASE RecheckStream(m)
  <2>1. req[m].pc = "recheck" /\ log' = log
    BY <1>6 DEF RecheckStream
  <2>2. CASE Return(m)
    BY <1>0, <2>1, <2>2, ReturnStep
  <2>3. CASE req' = [req EXCEPT ![m].todo = Tail(@)]
    <3>1. PICK v : v = [req[m] EXCEPT !.todo = Tail(@)]
      OBVIOUS
    <3>2. req' = [req EXCEPT ![m] = v]
      BY <2>3, <3>1
    <3>3. /\ DOMAIN v = DOMAIN req[m]
          /\ \A f \in DOMAIN v \ {"todo"} : v[f] = req[m][f]
      BY <3>1
    <3>4. /\ "pc" \in DOMAIN v /\ "branch" \in DOMAIN v /\ "replay" \in DOMAIN v
          /\ "pins" \in DOMAIN v /\ "todo" \in DOMAIN v /\ req[m].branch \in Branches
      BY <1>0, <2>1, <3>3 DEF Carries, Planning
    <3>5. v.pc = "recheck" /\ v.branch = req[m].branch /\ v.replay = req[m].replay
      BY <2>1, <3>3, <3>4
    <3>6. Carries(v)
      BY <3>4, <3>5 DEF Carries
    <3> QED
      BY <1>0, <2>1, <3>2, <3>5, <3>6, PlanStep
  <2> QED
    BY <1>6, <2>2, <2>3 DEF RecheckStream
<1>7. CASE ReadClaimVersion(m)
  <2>1. req[m].pc = "recheck" /\ log' = log
    BY <1>7 DEF ReadClaimVersion
  <2>2. req[m].branch \in Branches
    BY <1>0, <2>1 DEF Carries
  <2>3. PICK v : v = [pc |-> "lookup", branch |-> req[m].branch, replay |-> req[m].replay,
                      pins |-> req[m].pins, res |-> req[m].res, planned |-> req[m].planned,
                      judged |-> req[m].judged,
                      version |-> StreamVersion(log, req[m].branch, req[m].branch)]
    OBVIOUS
  <2>4. req' = [req EXCEPT ![m] = v]
    BY <1>7, <2>3 DEF ReadClaimVersion
  <2>5. Carries(v)
    BY <2>2, <2>3 DEF Carries
  <2>6. /\ v.pc = "lookup" /\ v.branch = req[m].branch /\ v.replay = req[m].replay
        /\ v.version = StreamVersion(log, v.branch, v.branch)
    BY <2>3
  <2> QED
    BY <1>0, <2>1, <2>4, <2>5, <2>6, PlanStep
<1>8. CASE CheckLink(m)
  <2>1. req[m].pc = "recheck" /\ log' = log
    BY <1>8 DEF CheckLink
  <2>2. CASE Return(m)
    BY <1>0, <2>1, <2>2, ReturnStep
  <2>3. ASSUME NEW p, req' = [req EXCEPT ![m].links = @ \ {p}] PROVE Inv(log', req')
    <3>1. PICK v : v = [req[m] EXCEPT !.links = @ \ {p}]
      OBVIOUS
    <3>2. req' = [req EXCEPT ![m] = v]
      BY <2>3, <3>1
    <3>3. /\ DOMAIN v = DOMAIN req[m]
          /\ \A f \in DOMAIN v \ {"links"} : v[f] = req[m][f]
      BY <3>1
    <3>4. /\ "pc" \in DOMAIN v /\ "branch" \in DOMAIN v /\ "replay" \in DOMAIN v
          /\ "pins" \in DOMAIN v /\ "todo" \in DOMAIN v /\ req[m].branch \in Branches
      BY <1>0, <2>1, <3>3 DEF Carries, Planning
    <3>5. v.pc = "recheck" /\ v.branch = req[m].branch /\ v.replay = req[m].replay
      BY <2>1, <3>3, <3>4
    <3>6. Carries(v)
      BY <3>4, <3>5 DEF Carries
    <3> QED
      BY <1>0, <2>1, <3>2, <3>5, <3>6, PlanStep
  <2> QED
    BY <1>8, <2>2, <2>3 DEF CheckLink
<1> QED
  BY <1>1, <1>2, <1>3, <1>4, <1>5, <1>6, <1>7, <1>8


-----------------------------------------------------------------------------
(* MergeBranch: the claim.                                                 *)

(***************************************************************************)
(* A branch without a claim has nothing on main, and nobody won it.        *)
(***************************************************************************)
LEMMA Unclaimed ==
  ASSUME NEW l, NEW q, Inv(l, q), NEW b \in Branches, ClaimsIn(l, b) = {}
  PROVE  /\ ReplaysIn(l, b) = {}
         /\ \A r \in Requests : ~ (q[r].pc \in Winning /\ q[r].branch = b)
<1>1. ReplaysIn(l, b) = {}
  BY DEF Inv, LogInv, ReplaysFollow, ReplaysIn
<1>2. \A r \in Requests : ~ (q[r].pc \in Winning /\ q[r].branch = b)
  BY DEF Inv, Agrees, Won
<1> QED
  BY <1>1, <1>2

\* m is l with a claim of b, which raised the branch's version above `cur'.
Claimed(l, m, b, cur) ==
  /\ Longer(l, m)
  /\ \E e : /\ EventsOf(m) = EventsOf(l) \union {e}
            /\ e.branch = b /\ e.body.from = 0
            /\ ClaimsIn(m, b) = ClaimsIn(l, b) \union {e}
  /\ \A c \in Branches \ {b} : ClaimsIn(m, c) = ClaimsIn(l, c)
  /\ StreamVersion(m, b, b) > cur

(***************************************************************************)
(* The append of a claim makes such a log.                                 *)
(***************************************************************************)
LEMMA ClaimAppend ==
  ASSUME NEW l, WellStored(l), NEW b \in Branches, NEW cur \in Nat, NEW m,
         GrowsBy(l, m, b, b, cur, <<Payload(Lifecycle("BranchMerged"), 0)>>)
  PROVE  Claimed(l, m, b, cur)
<1>1. PICK body : body = Payload(Lifecycle("BranchMerged"), 0)
  OBVIOUS
<1>2. body.from = 0 /\ "from" \in DOMAIN body /\ body.type = "BranchMerged"
  <2>1. "type" \in DOMAIN Lifecycle("BranchMerged") /\ Lifecycle("BranchMerged").type = "BranchMerged"
    BY DEF Lifecycle
  <2> QED
    BY <1>1, <2>1, PayloadSays
<1>3. PICK batch : batch = <<body>>
  OBVIOUS
<1>4. Len(batch) = 1 /\ batch[1] = body
  BY <1>3
<1>5. IsBatch(batch)
  BY <1>2, <1>4 DEF IsBatch
<1>6. GrowsBy(l, m, b, b, cur, batch)
  BY <1>1, <1>3
<1>7. /\ Longer(l, m) /\ EventsOf(m) = EventsOf(l) \union StoredEvents(l, b, b, cur, batch)
      /\ StreamVersion(m, b, b) > cur
  <2>1. Len(batch) > 0
    BY <1>4
  <2>2. /\ Longer(l, m)
        /\ EventsOf(m) = EventsOf(l) \union StoredEvents(l, b, b, cur, batch)
        /\ Len(batch) > 0 => StreamVersion(m, b, b) > cur
    BY <1>5, <1>6, Appended
  <2> QED
    BY <2>1, <2>2
<1>8. PICK e : e = StoredAt(l, b, b, cur, batch, 1)
  OBVIOUS
<1>9. e.stream = b /\ e.branch = b /\ e.body = body
  BY <1>4, <1>8 DEF StoredAt
<1>10. EventsOf(m) = EventsOf(l) \union {e}
  <2>1. StoredEvents(l, b, b, cur, batch) = {e}
    BY <1>4, <1>8 DEF StoredEvents
  <2> QED
    BY <1>7, <2>1
<1>11. ClaimsIn(m, b) = ClaimsIn(l, b) \union {e}
  BY <1>2, <1>9, <1>10 DEF ClaimsIn, OwnEvents
<1>12. \A c \in Branches \ {b} : ClaimsIn(m, c) = ClaimsIn(l, c)
  BY <1>9, <1>10 DEF ClaimsIn, OwnEvents
<1>13. e.body.from = 0
  BY <1>2, <1>9
<1> QED
  BY <1>7, <1>9, <1>10, <1>11, <1>12, <1>13 DEF Claimed

(***************************************************************************)
(* The first claim of a branch keeps the log right and every request in    *)
(* agreement with it: one that has not claimed the branch yet is now       *)
(* behind the branch's version.                                            *)
(***************************************************************************)
LEMMA ClaimKeeps ==
  ASSUME NEW l, NEW q, Inv(l, q), NEW b \in Branches, ClaimsIn(l, b) = {},
         NEW cur \in Nat, StreamVersion(l, b, b) <= cur, NEW m, Claimed(l, m, b, cur)
  PROVE  LogInv(m) /\ \A r \in Requests : Agrees(m, q[r])
<1>1. /\ WellStored(l) /\ ReplaysFollow(l) /\ OnlyOnce(l)
      /\ \A r \in Requests : Carries(q[r]) /\ Agrees(l, q[r])
  BY DEF Inv, LogInv, Slots
<1>2. PICK e : /\ EventsOf(m) = EventsOf(l) \union {e}
               /\ e.branch = b /\ e.body.from = 0
               /\ ClaimsIn(m, b) = {e}
  BY DEF Claimed
<1>3. /\ Longer(l, m) /\ WellStored(m)
      /\ \A c \in Branches \ {b} : ClaimsIn(m, c) = ClaimsIn(l, c)
      /\ StreamVersion(m, b, b) > cur
  BY DEF Claimed, Longer
<1>4. \A d \in EventsOf(m) : d.body.from # 0 => d \in EventsOf(l)
  BY <1>2
<1>5. ReplaysFollow(m)
  BY <1>1, <1>3, <1>4, OldReplays, LongerKeeps DEF ReplaysFollow
<1>6. OnlyOnce(m)
  <2>1. \A c \in Branches : \A d, f \in ClaimsIn(m, c) : d = f
    BY <1>1, <1>2, <1>3 DEF OnlyOnce
  <2>2. \A d, f \in EventsOf(m) : d.body.from # 0 /\ d.body.from = f.body.from => d = f
    BY <1>1, <1>4 DEF OnlyOnce
  <2> QED
    BY <2>1, <2>2 DEF OnlyOnce
<1>7. \A c \in Branches : ReplaysIn(m, c) = ReplaysIn(l, c)
  <2>1. EventsOf(l) \subseteq EventsOf(m)
    BY <1>2
  <2> QED
    BY <1>1, <1>3, <1>4, <2>1, OldReplays DEF ReplaysIn
<1>8. ASSUME NEW r \in Requests PROVE Agrees(m, q[r])
  <2>1. Carries(q[r]) /\ Plans(l, q[r]) /\ Claiming(l, q[r]) /\ Won(l, q[r])
    BY <1>1 DEF Agrees
  <2>2. Plans(m, q[r])
    BY <1>3, <2>1, LongerKeeps
  <2>3. PICK c : c = q[r].branch
    OBVIOUS
  <2>4. q[r].pc # "idle" => c \in Branches
    BY <2>1, <2>3 DEF Carries
  <2>5. /\ StreamVersion(l, c, c) \in Nat /\ StreamVersion(m, c, c) \in Nat
        /\ StreamVersion(l, c, c) <= StreamVersion(m, c, c)
    BY <1>3, LongerKeeps DEF Longer
  <2>6. Claiming(m, q[r])
    <3> SUFFICES ASSUME q[r].pc \in {"lookup", "claim"}
                 PROVE  /\ q[r].version \in Nat /\ q[r].version <= StreamVersion(m, c, c)
                        /\ q[r].pc = "claim" /\ q[r].version = StreamVersion(m, c, c) =>
                             ClaimsIn(m, c) = {}
      BY <2>3 DEF Claiming
    <3>1. /\ q[r].version \in Nat /\ q[r].version <= StreamVersion(l, c, c)
          /\ q[r].pc = "claim" /\ q[r].version = StreamVersion(l, c, c) => ClaimsIn(l, c) = {}
      BY <2>1, <2>3 DEF Claiming
    <3>2. CASE c = b
      BY <1>3, <2>5, <3>1, <3>2
    <3>3. CASE c # b
      <4>1. ClaimsIn(m, c) = ClaimsIn(l, c)
        BY <1>3, <2>4, <3>3
      <4> QED
        BY <2>5, <3>1, <4>1
    <3> QED
      BY <3>2, <3>3
  <2>7. Won(m, q[r])
    <3> SUFFICES ASSUME q[r].pc \in Winning PROVE Won(m, q[r])
      BY DEF Won
    <3>1. c \in Branches \ {b}
      <4>1. ~ (q[r].branch = b)
        BY Unclaimed
      <4> QED
        BY <2>3, <2>4, <4>1 DEF Winning
    <3>2. ClaimsIn(m, c) = ClaimsIn(l, c) /\ ReplaysIn(m, c) = ReplaysIn(l, c)
      BY <1>3, <1>7, <3>1
    <3> QED
      BY <2>1, <2>3, <3>2 DEF Won
  <2> QED
    BY <2>2, <2>6, <2>7 DEF Agrees
<1> QED
  BY <1>1, <1>3, <1>5, <1>6, <1>8 DEF LogInv

(***************************************************************************)
(* The steps of the claim.                                                 *)
(***************************************************************************)
LEMMA ClaimSteps ==
  ASSUME Inv(log, req), NEW m \in Mergers, LookupClaim(m) \/ AppendClaim(m)
  PROVE  Inv(log', req')
<1> DEFINE b == req[m].branch
<1>0. /\ m \in Requests /\ WellStored(log) /\ Carries(req[m]) /\ Slots(req)
      /\ Plans(log, req[m]) /\ Claiming(log, req[m])
  BY DEF Requests, Inv, LogInv, Slots, Agrees
<1>1. /\ \A t, c : StreamVersion(log, t, c) \in Nat
      /\ req[m].pc # "idle" => b \in Branches
  BY <1>0, Versions DEF Carries
<1>2. CASE LookupClaim(m)
  <2>1. req[m].pc = "lookup" /\ log' = log
    BY <1>2 DEF LookupClaim
  <2>2. b \in Branches
    BY <1>1, <2>1
  <2>3. CASE AlreadyClaimed(b)
    <3>1. PICK v : v = [pc |-> "healMark", branch |-> b]
      OBVIOUS
    <3>2. req' = [req EXCEPT ![m] = v]
      BY <1>2, <2>3, <3>1 DEF LookupClaim
    <3>3. Modest(v)
      BY <2>2, <3>1 DEF Modest, Carries, Planning
    <3> QED
      BY <1>0, <2>1, <3>2, <3>3, ModestStep
  <2>4. CASE ~ AlreadyClaimed(b)
    <3>1. Goto(m, "claim")
      BY <1>2, <2>4 DEF LookupClaim
    <3>2. PICK v : Moved(req[m], v, "claim") /\ req' = [req EXCEPT ![m] = v]
      BY <1>0, <3>1, GotoMoves
    <3>3. /\ "pc" \in DOMAIN v /\ "branch" \in DOMAIN v /\ "replay" \in DOMAIN v
          /\ "pins" \in DOMAIN v /\ "version" \in DOMAIN v
          /\ v.pc = "claim" /\ v.branch = b /\ v.replay = req[m].replay
          /\ v.version = req[m].version
      BY <1>0, <2>1, <3>2, MovedSays DEF Planning
    <3>4. Carries(v)
      BY <2>2, <3>3 DEF Carries
    <3>5. ClaimsIn(log, b) = {}
      BY <2>4 DEF ClaimsIn, AlreadyClaimed
    <3>6. Plans(log, v) /\ Claiming(log, v) /\ Won(log, v) /\ v.pc \notin Winning
      BY <1>0, <2>1, <3>3, <3>5 DEF Plans, Claiming, Won, Planning, Winning
    <3>7. Agrees(log, v)
      BY <3>6 DEF Agrees
    <3> QED
      BY <1>0, <2>1, <3>2, <3>4, <3>6, <3>7, SlotStep
  <2> QED
    BY <2>3, <2>4
<1>3. CASE AppendClaim(m)
  <2>1. req[m].pc = "claim" /\ b \in Branches
    BY <1>1, <1>3 DEF AppendClaim
  <2>2. CASE Return(m) /\ log' = log
    BY <1>0, <2>2, ReturnStep
  <2>3. CASE /\ AppendTo(b, b, <<Payload(Lifecycle("BranchMerged"), 0)>>, ClaimExpects(req[m]))
             /\ Goto(m, "mark")
    <3>1. PICK cur : cur = Current(b, b)
      OBVIOUS
    <3>2. /\ cur \in Nat /\ Accepts(req[m].version, cur)
          /\ GrowsBy(log, log', b, b, cur, <<Payload(Lifecycle("BranchMerged"), 0)>>)
      BY <1>0, <2>3, <3>1, AppendGrows DEF ClaimExpects
    <3>3. /\ StreamVersion(log, b, b) <= cur
          /\ cur = StreamVersion(log, b, b) \/ StreamVersion(log, b, b) = 0
      BY <1>0, <3>1, Continues DEF Current
    <3>4. /\ req[m].version \in Nat /\ req[m].version <= StreamVersion(log, b, b)
          /\ req[m].version = StreamVersion(log, b, b) => ClaimsIn(log, b) = {}
      BY <1>0, <2>1 DEF Claiming
    <3>5. req[m].version = StreamVersion(log, b, b)
      BY <1>1, <3>2, <3>3, <3>4 DEF Accepts
    <3>6. ClaimsIn(log, b) = {}
      BY <3>4, <3>5
    <3>7. Claimed(log, log', b, cur)
      BY <1>0, <2>1, <3>2, ClaimAppend
    <3> HIDE DEF b
    <3>8. LogInv(log') /\ \A r \in Requests : Agrees(log', req[r])
      BY <2>1, <3>2, <3>3, <3>6, <3>7, ClaimKeeps
    <3>9. PICK v : Moved(req[m], v, "mark") /\ req' = [req EXCEPT ![m] = v]
      BY <1>0, <2>3, GotoMoves
    <3>10. /\ "pc" \in DOMAIN v /\ "branch" \in DOMAIN v /\ "replay" \in DOMAIN v
           /\ "pins" \in DOMAIN v
           /\ v.pc = "mark" /\ v.branch = b /\ v.replay = req[m].replay
      BY <1>0, <2>1, <3>9, MovedSays DEF Planning, b
    <3>11. Carries(v)
      BY <2>1, <3>10 DEF Carries
    <3>12. /\ ReplaysIn(log, b) = {}
           /\ \A r \in Requests : ~ (req[r].pc \in Winning /\ req[r].branch = b)
      BY <2>1, <3>6, Unclaimed
    <3>13. ClaimsIn(log', b) # {} /\ ReplaysIn(log', b) = {}
      <4>1. PICK e : /\ EventsOf(log') = EventsOf(log) \union {e}
                     /\ e.branch = b /\ e.body.from = 0
                     /\ ClaimsIn(log', b) = ClaimsIn(log, b) \union {e}
        BY <3>7 DEF Claimed
      <4>2. Longer(log, log') /\ ReplaysFollow(log)
        BY <3>7 DEF Claimed, Inv, LogInv
      <4>3. ASSUME NEW d \in ReplaysIn(log', b) PROVE d \in ReplaysIn(log, b)
        <5>1. d \in EventsOf(log) /\ d.body.from # 0
          BY <4>1 DEF ReplaysIn
        <5>2. log'[d.body.from] = log[d.body.from]
          BY <4>2, <5>1, OldReplays
        <5> QED
          BY <5>1, <5>2 DEF ReplaysIn
      <4> QED
        BY <3>12, <4>1, <4>3
    <3>14. Agrees(log', v)
      <4>1. Plans(log', v)
        <5>1. Plans(log', req[m])
          BY <1>0, <3>8 DEF Agrees
        <5> QED
          BY <2>1, <3>10, <5>1 DEF Plans, Planning, b
      <4>2. Claiming(log', v) /\ Won(log', v)
        BY <3>10, <3>13 DEF Claiming, Won
      <4> QED
        BY <4>1, <4>2 DEF Agrees
    <3> QED
      BY <1>0, <3>8, <3>9, <3>10, <3>11, <3>12, <3>14, OneSlot
  <2> QED
    BY <1>3, <2>2, <2>3 DEF AppendClaim
<1> QED
  BY <1>2, <1>3


-----------------------------------------------------------------------------
(* MergeBranch: after the claim.                                           *)

(***************************************************************************)
(* A winner that goes on without appending agrees with the log if what it  *)
(* knows of the replays still holds.                                       *)
(***************************************************************************)
LEMMA WinnerStep ==
  ASSUME Inv(log, req), log' = log, NEW m \in Requests, req[m].pc \in Winning,
         NEW v, Carries(v), v.pc \in Winning, v.branch = req[m].branch,
         v.replay = req[m].replay, v.pins = req[m].pins,
         v.pc \in {"mark", "purge"} => req[m].pc \in {"mark", "purge"},
         v.pc = "reappend" =>
           /\ v.pins[Head(v.todo)] \in Nat
           /\ \A e \in ReplaysIn(log, v.branch) : e.stream # Head(v.todo),
         req' = [req EXCEPT ![m] = v]
  PROVE  Inv(log', req')
<1>1. Plans(log, req[m]) /\ Won(log, req[m])
  BY DEF Inv, Agrees
<1>2. Plans(log, v)
  BY <1>1 DEF Plans, Planning, Winning
<1>3. Claiming(log, v)
  BY DEF Claiming, Winning
<1>4. Won(log, v)
  BY <1>1 DEF Won
<1> QED
  BY <1>2, <1>3, <1>4, SlotStep DEF Agrees

(***************************************************************************)
(* The projection of the claim, the version read before a stream is        *)
(* replayed, and the end.                                                  *)
(***************************************************************************)
LEMMA WinnerSteps ==
  ASSUME Inv(log, req), NEW m \in Mergers,
         MarkMerged(m) \/ PurgeOverlay(m) \/ ReadReplayVersion(m) \/ FinishMerge(m)
  PROVE  Inv(log', req')
<1>0. /\ m \in Requests /\ WellStored(log) /\ Carries(req[m]) /\ Slots(req)
      /\ Won(log, req[m]) /\ ReplaysFollow(log)
  BY DEF Requests, Inv, LogInv, Slots, Agrees
<1>1. CASE MarkMerged(m)
  <2>1. log' = log
    BY <1>1 DEF MarkMerged
  <2>2. CASE req[m].pc = "mark"
    <3>1. Goto(m, "purge")
      BY <1>1, <2>2 DEF MarkMerged
    <3>2. PICK v : Moved(req[m], v, "purge") /\ req' = [req EXCEPT ![m] = v]
      BY <1>0, <3>1, GotoMoves
    <3>3. /\ "pc" \in DOMAIN v /\ "branch" \in DOMAIN v /\ "replay" \in DOMAIN v
          /\ "pins" \in DOMAIN v /\ v.pc = "purge" /\ v.branch = req[m].branch
          /\ v.replay = req[m].replay /\ v.pins = req[m].pins /\ v.branch \in Branches
      BY <1>0, <2>2, <3>2, MovedSays DEF Planning
    <3>4. Carries(v)
      BY <3>3 DEF Carries
    <3>5. req[m].pc \in Winning /\ v.pc \in Winning
      BY <2>2, <3>3 DEF Winning
    <3> QED
      BY <1>0, <2>1, <2>2, <3>2, <3>3, <3>4, <3>5, WinnerStep
  <2>3. CASE req[m].pc # "mark"
    <3>1. Goto(m, "healPurge") /\ req[m].pc # "idle"
      BY <1>1, <2>3 DEF MarkMerged
    <3> QED
      BY <1>0, <2>1, <3>1, GotoStep DEF Planning
  <2> QED
    BY <2>2, <2>3
<1>2. CASE PurgeOverlay(m)
  <2>1. log' = log /\ req[m].pc \in {"purge", "healPurge"}
    BY <1>2 DEF PurgeOverlay
  <2>2. CASE req[m].pc = "healPurge"
    <3>1. Return(m)
      BY <1>2, <2>2 DEF PurgeOverlay
    <3> QED
      BY <1>0, <2>1, <3>1, ReturnStep
  <2>3. CASE req[m].pc = "purge"
    <3>1. PICK v : v = [pc |-> "replay", branch |-> req[m].branch, replay |-> req[m].replay,
                        pins |-> req[m].pins, res |-> req[m].res,
                        planned |-> req[m].planned, judged |-> req[m].judged,
                        todo |-> ToReplay(req[m], req[m].res)]
      OBVIOUS
    <3>2. req' = [req EXCEPT ![m] = v]
      BY <1>2, <2>3, <3>1 DEF PurgeOverlay
    <3>3. req[m].branch \in Branches
      BY <1>0, <2>3 DEF Carries
    <3>4. Carries(v)
      BY <3>1, <3>3 DEF Carries
    <3>5. /\ v.pc = "replay" /\ v.branch = req[m].branch /\ v.replay = req[m].replay
          /\ v.pins = req[m].pins /\ v.pc \in Winning /\ req[m].pc \in Winning
      BY <2>3, <3>1 DEF Winning
    <3> QED
      BY <1>0, <2>1, <3>2, <3>4, <3>5, WinnerStep
  <2> QED
    BY <2>1, <2>2, <2>3
<1>3. CASE ReadReplayVersion(m)
  <2>1. log' = log /\ req[m].pc = "replay"
    BY <1>3 DEF ReadReplayVersion
  <2>2. CASE ~ PinHolds(req[m])
    <3>1. Return(m)
      BY <1>3, <2>2 DEF ReadReplayVersion
    <3> QED
      BY <1>0, <2>1, <3>1, ReturnStep
  <2>3. CASE PinHolds(req[m])
    <3>1. Goto(m, "reappend")
      BY <1>3, <2>3 DEF ReadReplayVersion
    <3>2. PICK v : Moved(req[m], v, "reappend") /\ req' = [req EXCEPT ![m] = v]
      BY <1>0, <3>1, GotoMoves
    <3>3. /\ "pc" \in DOMAIN v /\ "branch" \in DOMAIN v /\ "replay" \in DOMAIN v
          /\ "pins" \in DOMAIN v /\ "todo" \in DOMAIN v
          /\ v.pc = "reappend" /\ v.branch = req[m].branch
          /\ v.replay = req[m].replay /\ v.pins = req[m].pins /\ v.todo = req[m].todo
          /\ v.branch \in Branches
      BY <1>0, <2>1, <3>2, MovedSays DEF Planning
    <3>4. Carries(v)
      BY <3>3 DEF Carries
    <3>5. PICK s : s = Head(req[m].todo)
      OBVIOUS
    <3>6. /\ StreamVersion(log, s, Main) = req[m].pins[s]
          /\ StreamVersion(log, s, Main) \in Nat
          /\ IsTop(OwnEvents(log, s, Main), StreamVersion(log, s, Main))
      BY <1>0, <2>3, <3>5, Versions DEF PinHolds
    <3>7. ASSUME NEW e \in ReplaysIn(log, req[m].branch), e.stream = s PROVE FALSE
      <4>1. e \in EventsOf(log) /\ e.body.from # 0
        BY <3>7 DEF ReplaysIn
      <4>2. e.branch = Main
        BY <1>0, <4>1 DEF ReplaysFollow
      <4>3. e \in OwnEvents(log, s, Main)
        BY <3>7, <4>1, <4>2 DEF OwnEvents
      <4>4. e.version \in Nat /\ e.version <= StreamVersion(log, s, Main)
        BY <1>0, <3>6, <4>3, Versions DEF IsTop
      <4>5. e.version > req[m].pins[s]
        BY <1>0, <2>1, <3>7 DEF Won, Winning
      <4> QED
        BY <3>6, <4>4, <4>5
    <3>8. /\ v.pins[Head(v.todo)] \in Nat
          /\ \A e \in ReplaysIn(log, v.branch) : e.stream # Head(v.todo)
      BY <3>3, <3>5, <3>6, <3>7
    <3>9. v.pc \in Winning /\ req[m].pc \in Winning
      BY <2>1, <3>3 DEF Winning
    <3> QED
      BY <1>0, <2>1, <3>2, <3>3, <3>4, <3>8, <3>9, WinnerStep
  <2> QED
    BY <2>2, <2>3
<1>4. CASE FinishMerge(m)
  BY <1>0, <1>4, ReturnStep DEF FinishMerge
<1> QED
  BY <1>1, <1>2, <1>3, <1>4


-----------------------------------------------------------------------------
(* MergeBranch: the replay.                                                *)

\* The payloads replay different events of b on the stream s.
Copies(l, batch, b, s) ==
  /\ IsBatch(batch)
  /\ \A k \in 1..Len(batch) : /\ batch[k].from \in 1..Len(l)
                              /\ l[batch[k].from].branch = b
                              /\ l[batch[k].from].stream = s
  /\ \A j, k \in 1..Len(batch) : batch[j].from = batch[k].from => j = k

(***************************************************************************)
(* A merge replays a stream's events as one such batch.                    *)
(***************************************************************************)
LEMMA BatchCopies ==
  ASSUME NEW l, WellStored(l), NEW r, Plans(l, r), r.pc \in Planning, NEW s
  PROVE  Copies(l, ReplayBatch(r, s), r.branch, s)
<1>1. /\ IsLog(r.replay) /\ Len(r.replay) \in Nat /\ Ordered(r.replay)
      /\ \A e \in EventsOf(r.replay) : e \in EventsOf(l) /\ e.branch = r.branch
  BY DEF Plans
<1>2. PICK S : S = {e \in EventsOf(r.replay) : e.stream = s}
  OBVIOUS
<1>3. PICK own : own = OnlyIn(r.replay, S) /\ own = OnStream(r.replay, s)
  BY <1>2 DEF OnStream
<1>4. /\ Len(own) \in Nat /\ Ordered(own)
      /\ EventsOf(own) = EventsOf(r.replay) \intersect S
  BY <1>1, <1>3, OnlyInEvents
<1>5. PICK batch : batch = ReplayBatch(r, s)
  OBVIOUS
<1>6. batch = [i \in 1..Len(own) |-> [own[i].body EXCEPT !.from = own[i].position]]
  BY <1>3, <1>5 DEF ReplayBatch
<1>7. Len(batch) = Len(own)
  BY <1>4, <1>6
<1>8. ASSUME NEW k \in 1..Len(own)
      PROVE  /\ own[k].stream = s /\ own[k].branch = r.branch
             /\ own[k].position \in 1..Len(l) /\ l[own[k].position] = own[k]
             /\ "from" \in DOMAIN own[k].body
  <2>1. own[k] \in EventsOf(own)
    BY DEF EventsOf
  <2>2. own[k] \in EventsOf(l) /\ own[k].stream = s /\ own[k].branch = r.branch
    BY <1>1, <1>2, <1>4, <2>1
  <2> QED
    BY <2>2, LogOrdered
<1>9. ASSUME NEW k \in 1..Len(own)
      PROVE  "from" \in DOMAIN batch[k] /\ batch[k].from = own[k].position
  <2>1. batch[k] = [own[k].body EXCEPT !.from = own[k].position]
    BY <1>6
  <2>2. "from" \in DOMAIN own[k].body
    BY <1>8
  <2> QED
    BY <2>1, <2>2
<1>10. \A j, k \in 1..Len(own) : own[j].position = own[k].position => j = k
  <2> SUFFICES ASSUME NEW j \in 1..Len(own), NEW k \in 1..Len(own), j # k
               PROVE  own[j].position # own[k].position
    OBVIOUS
  <2>1. own[j].position \in Nat /\ own[k].position \in Nat
    <3>1. Len(l) \in Nat
      BY LogOrdered
    <3> QED
      BY <1>8, <3>1
  <2>2. j < k \/ k < j
    BY <1>4
  <2>3. own[j].position < own[k].position \/ own[k].position < own[j].position
    BY <1>4, <2>2 DEF Ordered
  <2> QED
    BY <2>1, <2>3
<1>11. IsBatch(batch)
  BY <1>4, <1>7, <1>9 DEF IsBatch
<1> QED
  BY <1>5, <1>7, <1>8, <1>9, <1>10, <1>11 DEF Copies

\* m is l with events of b replayed on the stream s, past the version `low'.
Replayed(l, m, b, s, low) ==
  /\ Longer(l, m)
  /\ \A c \in Branches : ClaimsIn(m, c) = ClaimsIn(l, c)
  /\ \A e \in EventsOf(m) \ EventsOf(l) :
       /\ e.branch = Main /\ e.stream = s /\ e.version > low /\ e.position > Len(l)
       /\ e.body.from \in 1..Len(l)
       /\ l[e.body.from].branch = b /\ l[e.body.from].stream = s
  /\ \A d, e \in EventsOf(m) \ EventsOf(l) : d.body.from = e.body.from => d = e

(***************************************************************************)
(* The append of such a batch makes such a log.                            *)
(***************************************************************************)
LEMMA ReplayAppend ==
  ASSUME NEW l, WellStored(l), NEW b, NEW s, NEW cur \in Nat,
         NEW batch, Copies(l, batch, b, s), NEW m, GrowsBy(l, m, s, Main, cur, batch)
  PROVE  Replayed(l, m, b, s, cur)
<1>1. IsBatch(batch)
  BY DEF Copies
<1>2. /\ Longer(l, m)
      /\ EventsOf(m) = EventsOf(l) \union StoredEvents(l, s, Main, cur, batch)
  BY <1>1, Appended
<1>3. Len(l) \in Nat /\ Len(batch) \in Nat
  BY <1>1, <1>2 DEF Longer, IsBatch
<1>4. ASSUME NEW e \in EventsOf(m) \ EventsOf(l)
      PROVE  \E k \in 1..Len(batch) : e = StoredAt(l, s, Main, cur, batch, k)
  BY <1>2 DEF StoredEvents
<1>5. ASSUME NEW e, NEW k \in 1..Len(batch), e = StoredAt(l, s, Main, cur, batch, k)
      PROVE  /\ e.branch = Main /\ e.stream = s /\ e.version > cur /\ e.position > Len(l)
             /\ e.body = batch[k]
             /\ e.body.from \in 1..Len(l)
             /\ l[e.body.from].branch = b /\ l[e.body.from].stream = s
  <2>1. /\ e.branch = Main /\ e.stream = s /\ e.version = cur + k
        /\ e.position = Len(l) + k /\ e.body = batch[k]
    BY <1>5 DEF StoredAt
  <2>2. cur + k > cur /\ Len(l) + k > Len(l)
    BY <1>3
  <2> QED
    BY <2>1, <2>2 DEF Copies
<1>6. \A c \in Branches : ClaimsIn(m, c) = ClaimsIn(l, c)
  <2> SUFFICES ASSUME NEW c \in Branches, NEW e \in ClaimsIn(m, c) PROVE e \in ClaimsIn(l, c)
    BY <1>2, LongerKeeps
  <2>1. e \in EventsOf(m) /\ e.branch = c
    BY DEF ClaimsIn, OwnEvents
  <2>2. e.branch # Main
    BY <2>1, BranchesApart
  <2>3. e \in EventsOf(l)
    BY <1>4, <1>5, <2>1, <2>2
  <2> QED
    BY <2>3 DEF ClaimsIn, OwnEvents
<1>7. ASSUME NEW d \in EventsOf(m) \ EventsOf(l), NEW e \in EventsOf(m) \ EventsOf(l),
             d.body.from = e.body.from
      PROVE  d = e
  <2>1. PICK j \in 1..Len(batch) : d = StoredAt(l, s, Main, cur, batch, j)
    BY <1>4
  <2>2. PICK k \in 1..Len(batch) : e = StoredAt(l, s, Main, cur, batch, k)
    BY <1>4
  <2>3. d.body = batch[j] /\ e.body = batch[k]
    BY <1>5, <2>1, <2>2
  <2>4. j = k
    BY <1>7, <2>3 DEF Copies
  <2> QED
    BY <2>1, <2>2, <2>4
<1> QED
  BY <1>2, <1>4, <1>5, <1>6, <1>7 DEF Replayed

(***************************************************************************)
(* A replay of the branch's winner, on a stream that has nothing of the    *)
(* branch yet, keeps the log right, disturbs no other request, and leaves  *)
(* the winner with its replays past its pins.                              *)
(***************************************************************************)
LEMMA ReplayKeeps ==
  ASSUME NEW l, NEW q, Inv(l, q), NEW x \in Requests, q[x].pc = "reappend",
         NEW low \in Nat, q[x].pins[Head(q[x].todo)] <= low,
         NEW m, Replayed(l, m, q[x].branch, Head(q[x].todo), low)
  PROVE  /\ LogInv(m) /\ \A r \in Requests \ {x} : Agrees(m, q[r])
         /\ Plans(m, q[x]) /\ ClaimsIn(m, q[x].branch) # {}
         /\ \A e \in ReplaysIn(m, q[x].branch) :
              q[x].pins[e.stream] \in Nat /\ e.version > q[x].pins[e.stream]
<1>1. PICK b, s, pins : b = q[x].branch /\ s = Head(q[x].todo) /\ pins = q[x].pins
  OBVIOUS
<1>2. /\ WellStored(l) /\ ReplaysFollow(l) /\ OnlyOnce(l)
      /\ \A r \in Requests : Carries(q[r]) /\ Plans(l, q[r]) /\ Claiming(l, q[r]) /\ Won(l, q[r])
  BY DEF Inv, LogInv, Slots, Agrees
<1>3. /\ b \in Branches /\ ClaimsIn(l, b) # {} /\ pins[s] \in Nat
      /\ \A e \in ReplaysIn(l, b) : /\ e.stream # s
                                    /\ pins[e.stream] \in Nat /\ e.version > pins[e.stream]
  BY <1>1, <1>2 DEF Carries, Won, Winning
<1>4. /\ Longer(l, m) /\ WellStored(m) /\ Len(l) \in Nat /\ Len(l) <= Len(m) /\ Len(m) \in Nat
      /\ EventsOf(l) \subseteq EventsOf(m)
      /\ \A i \in 1..Len(l) : i \in 1..Len(m) /\ m[i] = l[i]
      /\ \A c \in Branches : ClaimsIn(m, c) = ClaimsIn(l, c)
  BY DEF Replayed, Longer
<1>5. \A e \in EventsOf(m) \ EventsOf(l) :
        /\ e.branch = Main /\ e.stream = s /\ e.version > low /\ e.position > Len(l)
        /\ e.body.from \in 1..Len(l) /\ e.body.from # 0
        /\ l[e.body.from].branch = b /\ l[e.body.from].stream = s
        /\ m[e.body.from] = l[e.body.from]
  BY <1>1, <1>4 DEF Replayed
<1>6. \A e \in EventsOf(l) : e.body.from # 0 =>
        /\ e.body.from \in 1..Len(l) /\ m[e.body.from] = l[e.body.from]
        /\ e.branch = Main /\ l[e.body.from].branch \in Branches
        /\ l[e.body.from].stream = e.stream
        /\ \E c \in ClaimsIn(l, l[e.body.from].branch) : c.position < e.position
  BY <1>2, <1>4, OldReplays
<1>7. ReplaysFollow(m)
  <2> SUFFICES ASSUME NEW e \in EventsOf(m), e.body.from # 0
               PROVE  /\ e.branch = Main /\ e.body.from \in 1..Len(m)
                      /\ m[e.body.from].branch \in Branches
                      /\ m[e.body.from].stream = e.stream
                      /\ \E c \in ClaimsIn(m, m[e.body.from].branch) : c.position < e.position
    BY DEF ReplaysFollow
  <2>1. CASE e \in EventsOf(l)
    BY <1>4, <1>6, <2>1
  <2>2. CASE e \notin EventsOf(l)
    <3>1. /\ e.branch = Main /\ e.stream = s /\ e.position > Len(l)
          /\ e.body.from \in 1..Len(m)
          /\ m[e.body.from].branch = b /\ m[e.body.from].stream = s
      BY <1>4, <1>5, <2>2
    <3>2. PICK c \in ClaimsIn(l, b) : TRUE
      BY <1>3
    <3>3. c \in EventsOf(l)
      BY DEF ClaimsIn, OwnEvents
    <3>4. c.position \in 1..Len(l)
      BY <1>2, <3>3, LogOrdered
    <3>5. e.position \in 1..Len(m)
      BY <1>4, LogOrdered
    <3>6. c.position < e.position
      BY <1>4, <3>1, <3>4, <3>5
    <3> QED
      BY <1>3, <1>4, <3>1, <3>6
  <2> QED
    BY <2>1, <2>2
<1>8. OnlyOnce(m)
  <2>1. \A c \in Branches : \A d, e \in ClaimsIn(m, c) : d = e
    BY <1>2, <1>4 DEF OnlyOnce
  <2>2. ASSUME NEW d \in EventsOf(l), NEW e \in EventsOf(m) \ EventsOf(l),
               d.body.from = e.body.from
        PROVE  FALSE
    <3>1. d.body.from # 0 /\ l[d.body.from].branch = b /\ l[d.body.from].stream = s
      BY <1>5, <2>2
    <3>2. d \in ReplaysIn(l, b) /\ d.stream = s
      BY <1>6, <3>1 DEF ReplaysIn
    <3> QED
      BY <1>3, <3>2
  <2>3. ASSUME NEW d \in EventsOf(m), NEW e \in EventsOf(m),
               d.body.from # 0, d.body.from = e.body.from
        PROVE  d = e
    <3>1. CASE d \in EventsOf(l) /\ e \in EventsOf(l)
      BY <1>2, <2>3, <3>1 DEF OnlyOnce
    <3>2. CASE d \notin EventsOf(l) /\ e \notin EventsOf(l)
      BY <2>3, <3>2 DEF Replayed
    <3> QED
      BY <2>2, <2>3, <3>1, <3>2
  <2> QED
    BY <2>1, <2>3 DEF OnlyOnce
<1>9. \A c \in Branches \ {b} : ReplaysIn(m, c) = ReplaysIn(l, c)
  BY <1>4, <1>5, <1>6 DEF ReplaysIn
<1>10. \A e \in ReplaysIn(m, b) : pins[e.stream] \in Nat /\ e.version > pins[e.stream]
  <2> SUFFICES ASSUME NEW e \in ReplaysIn(m, b)
               PROVE  pins[e.stream] \in Nat /\ e.version > pins[e.stream]
    OBVIOUS
  <2>1. e \in EventsOf(m) /\ e.body.from # 0 /\ m[e.body.from].branch = b
    BY DEF ReplaysIn
  <2>2. CASE e \in EventsOf(l)
    <3>1. e \in ReplaysIn(l, b)
      BY <1>6, <2>1, <2>2 DEF ReplaysIn
    <3> QED
      BY <1>3, <3>1
  <2>3. CASE e \notin EventsOf(l)
    <3>1. e.stream = s /\ e.version > low
      BY <1>5, <2>1, <2>3
    <3>2. e.version \in Nat
      BY <1>4, <2>1 DEF WellStored, EventsOf
    <3>3. pins[s] <= low
      BY <1>1
    <3> QED
      BY <1>3, <3>1, <3>2, <3>3
  <2> QED
    BY <2>2, <2>3
<1>11. ASSUME NEW r \in Requests \ {x} PROVE Agrees(m, q[r])
  <2>1. Plans(m, q[r])
    BY <1>2, <1>4, LongerKeeps
  <2>2. PICK c : c = q[r].branch
    OBVIOUS
  <2>3. q[r].pc # "idle" => c \in Branches
    BY <1>2, <2>2 DEF Carries
  <2>4. /\ StreamVersion(l, c, c) \in Nat /\ StreamVersion(m, c, c) \in Nat
        /\ StreamVersion(l, c, c) <= StreamVersion(m, c, c)
    BY <1>4, LongerKeeps DEF Longer
  <2>5. Claiming(m, q[r])
    <3> SUFFICES ASSUME q[r].pc \in {"lookup", "claim"}
                 PROVE  /\ q[r].version \in Nat /\ q[r].version <= StreamVersion(m, c, c)
                        /\ q[r].pc = "claim" /\ q[r].version = StreamVersion(m, c, c) =>
                             ClaimsIn(m, c) = {}
      BY <2>2 DEF Claiming
    <3>1. /\ q[r].version \in Nat /\ q[r].version <= StreamVersion(l, c, c)
          /\ q[r].pc = "claim" /\ q[r].version = StreamVersion(l, c, c) => ClaimsIn(l, c) = {}
      BY <1>2, <2>2 DEF Claiming
    <3>2. ClaimsIn(m, c) = ClaimsIn(l, c)
      BY <1>4, <2>3
    <3> QED
      BY <2>4, <3>1, <3>2
  <2>6. Won(m, q[r])
    <3> SUFFICES ASSUME q[r].pc \in Winning PROVE Won(m, q[r])
      BY DEF Won
    <3>1. c \in Branches \ {b}
      <4>1. q[x].pc \in Winning /\ OneWins(q)
        BY DEF Winning, Inv
      <4>2. c # b
        BY <1>1, <2>2, <4>1 DEF OneWins
      <4> QED
        BY <2>3, <4>2 DEF Winning
    <3>2. ClaimsIn(m, c) = ClaimsIn(l, c) /\ ReplaysIn(m, c) = ReplaysIn(l, c)
      BY <1>4, <1>9, <3>1
    <3> QED
      BY <1>2, <2>2, <3>2 DEF Won
  <2> QED
    BY <2>1, <2>5, <2>6 DEF Agrees
<1>12. Plans(m, q[x])
  BY <1>2, <1>4, LongerKeeps
<1>13. ClaimsIn(m, b) # {}
  BY <1>3, <1>4
<1> QED
  BY <1>1, <1>4, <1>7, <1>8, <1>10, <1>11, <1>12, <1>13 DEF LogInv


(***************************************************************************)
(* The step that replays a stream.                                         *)
(***************************************************************************)
LEMMA ReplayStep ==
  ASSUME Inv(log, req), NEW m \in Mergers, ReplayStream(m)
  PROVE  Inv(log', req')
<1>0. /\ m \in Requests /\ WellStored(log) /\ Carries(req[m]) /\ Slots(req)
      /\ Plans(log, req[m]) /\ Won(log, req[m]) /\ req[m].pc = "reappend"
  BY DEF Requests, Inv, LogInv, Slots, Agrees, ReplayStream
<1>1. PICK s, pins : s = Head(req[m].todo) /\ pins = req[m].pins
  OBVIOUS
<1>2. CASE Return(m) /\ log' = log
  BY <1>0, <1>2, ReturnStep
<1>3. CASE /\ AppendTo(s, Main, ReplayBatch(req[m], s), ReplayExpects(req[m]))
           /\ req' = [req EXCEPT ![m].pc = "replay", ![m].todo = Tail(@)]
  <2>1. PICK cur : cur = Current(s, Main)
    OBVIOUS
  <2>2. /\ cur \in Nat /\ Accepts(ReplayExpects(req[m]), cur)
        /\ GrowsBy(log, log', s, Main, cur, ReplayBatch(req[m], s))
    BY <1>0, <1>3, <2>1, AppendGrows
  <2>3. Copies(log, ReplayBatch(req[m], s), req[m].branch, s)
    BY <1>0, BatchCopies DEF Planning
  <2>4. Replayed(log, log', req[m].branch, s, cur)
    BY <1>0, <2>2, <2>3, ReplayAppend
  <2>5. pins[s] \in Nat
    BY <1>0, <1>1 DEF Won, Winning
  <2>6. pins[s] <= cur
    <3>1. ReplayExpects(req[m]) = IF pins[s] = 0 THEN -1 ELSE pins[s]
      BY <1>1 DEF ReplayExpects
    <3> QED
      BY <2>2, <2>5, <3>1 DEF Accepts
  <2>7. /\ LogInv(log') /\ \A r \in Requests \ {m} : Agrees(log', req[r])
        /\ Plans(log', req[m]) /\ ClaimsIn(log', req[m].branch) # {}
        /\ \A e \in ReplaysIn(log', req[m].branch) :
             req[m].pins[e.stream] \in Nat /\ e.version > req[m].pins[e.stream]
    <3>1. req[m].pins[Head(req[m].todo)] <= cur
      BY <1>1, <2>6
    <3>2. Replayed(log, log', req[m].branch, Head(req[m].todo), cur)
      BY <1>1, <2>4
    <3> QED
      BY <1>0, <2>2, <3>1, <3>2, ReplayKeeps
  <2>8. PICK v : v = [[req[m] EXCEPT !.pc = "replay"] EXCEPT !.todo = Tail(@)]
    OBVIOUS
  <2>9. req' = [req EXCEPT ![m] = v]
    BY <1>0, <1>3, <2>8 DEF Slots
  <2>10. /\ DOMAIN v = DOMAIN req[m]
         /\ \A f \in DOMAIN v \ {"pc", "todo"} : v[f] = req[m][f]
         /\ "pc" \in DOMAIN req[m] => v.pc = "replay"
    BY <2>8
  <2>11. /\ "pc" \in DOMAIN v /\ "branch" \in DOMAIN v /\ "replay" \in DOMAIN v
         /\ "pins" \in DOMAIN v /\ "todo" \in DOMAIN v /\ req[m].branch \in Branches
    BY <1>0, <2>10 DEF Carries, Planning
  <2>12. /\ v.pc = "replay" /\ v.branch = req[m].branch
         /\ v.replay = req[m].replay /\ v.pins = req[m].pins
    BY <2>10, <2>11
  <2>13. Carries(v)
    BY <2>11, <2>12 DEF Carries
  <2>14. Agrees(log', v)
    <3>1. Plans(log', v)
      BY <1>0, <2>7, <2>12 DEF Plans, Planning
    <3>2. Claiming(log', v) /\ Won(log', v)
      BY <2>7, <2>12 DEF Claiming, Won
    <3> QED
      BY <3>1, <3>2 DEF Agrees
  <2>15. req[m].pc \in Winning
    BY <1>0 DEF Winning
  <2> QED
    BY <1>0, <2>7, <2>9, <2>12, <2>13, <2>14, <2>15, OneSlot
<1> QED
  BY <1>1, <1>2, <1>3 DEF ReplayStream

-----------------------------------------------------------------------------
(* The first states.                                                       *)

\* The log l with the i-th write of a history.
WriteOne(history, l, i) ==
  LET w == history[i]
      from == IF w.branch \in {Main, w.stream} THEN 0 ELSE BaseIn(history, w.branch)
  IN  l \o Stored(l, w.stream, w.branch,
                  CurrentVersion(l, StreamVersion(l, w.stream, w.branch),
                                 w.stream, w.branch, from),
                  <<Payload(w.body, 0)>>)

\* f is the function Written chooses, on the first n writes.
IsWritten(f, history, n) ==
  f = [i \in 0..n |-> IF i = 0 THEN <<>> ELSE WriteOne(history, f[i - 1], i)]

(***************************************************************************)
(* Written is the value of such a function.                                *)
(***************************************************************************)
LEMMA WrittenIs ==
  ASSUME NEW history
  PROVE  Written(history) =
           (CHOOSE f : IsWritten(f, history, Len(history)))[Len(history)]
  BY DEF Written, IsWritten, WriteOne

(***************************************************************************)
(* The function exists for every length, by induction.                     *)
(***************************************************************************)
LEMMA WrittenExists ==
  ASSUME NEW history
  PROVE  \A n \in Nat : \E f : IsWritten(f, history, n)
<1> DEFINE T == {n \in Nat : ~ \E f : IsWritten(f, history, n)}
<1> SUFFICES ASSUME T # {} PROVE FALSE
  OBVIOUS
<1>1. PICK n \in T : \A m \in T : n <= m
  BY LeastNatural
<1>2. n # 0
  <2> DEFINE f == [i \in 0..0 |-> <<>>]
  <2>1. IsWritten(f, history, 0)
    BY DEF IsWritten
  <2> HIDE DEF f
  <2> QED
    BY <2>1
<1>3. n \in Nat /\ n - 1 \in Nat /\ n - 1 \notin T
  BY <1>1, <1>2
<1>4. PICK f : IsWritten(f, history, n - 1)
  BY <1>3
<1> DEFINE g == [i \in 0..n |-> IF i = n THEN WriteOne(history, f[n - 1], n) ELSE f[i]]
           h == [i \in 0..n |-> IF i = 0 THEN <<>> ELSE WriteOne(history, g[i - 1], i)]
<1>5. ASSUME NEW i \in 0..n PROVE g[i] = h[i]
  <2>1. CASE i = n
    <3>1. g[n - 1] = f[n - 1] /\ g[n] = WriteOne(history, f[n - 1], n)
      BY <1>3
    <3>2. h[n] = WriteOne(history, g[n - 1], n)
      BY <1>2, <1>3
    <3> QED
      BY <2>1, <3>1, <3>2
  <2>2. CASE i # n
    <3>1. i \in 0..n - 1
      BY <1>3, <2>2
    <3>2. f[i] = IF i = 0 THEN <<>> ELSE WriteOne(history, f[i - 1], i)
      BY <1>4, <3>1 DEF IsWritten
    <3>3. g[i] = f[i] /\ (i # 0 => g[i - 1] = f[i - 1])
      BY <1>3, <2>2
    <3> QED
      BY <3>2, <3>3
  <2> QED
    BY <2>1, <2>2
<1>6. g = h
  BY <1>5
<1>7. IsWritten(g, history, n)
  BY <1>6 DEF IsWritten
<1> QED
  BY <1>1, <1>7

\* A log with neither claims nor replays.
Fresh(l) ==
  WellStored(l) /\ \A e \in EventsOf(l) : e.body.from = 0 /\ e.body.type # "BranchMerged"

(***************************************************************************)
(* A write of a history leaves such a log.                                 *)
(***************************************************************************)
LEMMA FreshWrite ==
  ASSUME NEW history \in Histories, NEW i \in 1..Len(history), NEW l, Fresh(l)
  PROVE  Fresh(WriteOne(history, l, i))
<1>0. PICK m : m = WriteOne(history, l, i)
  OBVIOUS
<1>1. PICK w : w = history[i]
  OBVIOUS
<1>2. PICK from : from = IF w.branch \in {Main, w.stream} THEN 0 ELSE BaseIn(history, w.branch)
  OBVIOUS
<1>3. PICK cur : cur = CurrentVersion(l, StreamVersion(l, w.stream, w.branch),
                                      w.stream, w.branch, from)
  OBVIOUS
<1>4. PICK body : body = Payload(w.body, 0)
  OBVIOUS
<1>5. PICK batch : batch = <<body>>
  OBVIOUS
<1>6. m = l \o Stored(l, w.stream, w.branch, cur, batch)
  BY <1>0, <1>1, <1>2, <1>3, <1>4, <1>5 DEF WriteOne
<1>7. PICK s, b : s = w.stream /\ b = w.branch /\ GrowsBy(l, m, s, b, cur, batch)
  BY <1>6 DEF GrowsBy
<1>8. WellStored(l) /\ cur \in Nat
  BY <1>3, Continues DEF Fresh
<1>9. "from" \in DOMAIN body /\ body.from = 0 /\ body.type # "BranchMerged"
  <2>1. "type" \in DOMAIN w.body /\ w.body.type # "BranchMerged"
    BY <1>1, HistoriesWritten
  <2> QED
    BY <1>4, <2>1, PayloadSays
<1>10. Len(batch) = 1 /\ batch[1] = body
  BY <1>5
<1>11. IsBatch(batch)
  BY <1>9, <1>10 DEF IsBatch
<1>12. Longer(l, m) /\ EventsOf(m) = EventsOf(l) \union StoredEvents(l, s, b, cur, batch)
  BY <1>7, <1>8, <1>11, Appended
<1>13. \A e \in EventsOf(m) : e \in EventsOf(l) \/ e.body = body
  BY <1>10, <1>12 DEF StoredEvents, StoredAt
<1> QED
  BY <1>0, <1>9, <1>12, <1>13 DEF Fresh, Longer

(***************************************************************************)
(* So the log a history leaves is one, by induction on its writes.         *)
(***************************************************************************)
LEMMA WrittenFresh ==
  ASSUME NEW history \in Histories
  PROVE  Fresh(Written(history))
<1> DEFINE n == Len(history)
<1>0. n \in Nat
  BY HistoriesWritten
<1>1. PICK f : f = CHOOSE x : IsWritten(x, history, n)
  OBVIOUS
<1>2. IsWritten(f, history, n) /\ Written(history) = f[n]
  BY <1>0, <1>1, WrittenExists, WrittenIs
<1>3. \A i \in 0..n : f[i] = IF i = 0 THEN <<>> ELSE WriteOne(history, f[i - 1], i)
  BY <1>2 DEF IsWritten
<1> DEFINE T == {i \in 0..n : ~ Fresh(f[i])}
<1>4. T = {}
  <2> SUFFICES ASSUME T # {} PROVE FALSE
    OBVIOUS
  <2>1. PICK i \in T : \A j \in T : i <= j
    <3>1. T \subseteq Nat
      BY <1>0
    <3> HIDE DEF T
    <3> QED
      BY <3>1, LeastNatural
  <2>2. Fresh(f[0])
    <3>1. f[0] = <<>>
      BY <1>0, <1>3
    <3>2. PICK l : l = <<>>
      OBVIOUS
    <3>3. l \in Seq({}) /\ Len(l) = 0
      BY <3>2
    <3>4. IsLog(l) /\ EventsOf(l) = {}
      BY <3>3 DEF IsLog, EventsOf
    <3>5. WellStored(l)
      BY <3>3, <3>4 DEF WellStored
    <3> QED
      BY <3>1, <3>2, <3>4, <3>5 DEF Fresh
  <2>3. i \in 0..n /\ i # 0
    BY <2>1, <2>2
  <2>4. i \in 1..n /\ i - 1 \in 0..n
    BY <1>0, <2>3
  <2>5. Fresh(f[i - 1])
    <3>1. ~ (i <= i - 1)
      BY <1>0, <2>3
    <3>2. i - 1 \notin T
      BY <2>1, <3>1
    <3> QED
      BY <2>4, <3>2
  <2>6. f[i] = WriteOne(history, f[i - 1], i)
    BY <1>3, <2>3
  <2>7. Fresh(f[i])
    BY <2>4, <2>5, <2>6, FreshWrite
  <2> QED
    BY <2>1, <2>7
<1>5. n \in 0..n
  BY <1>0
<1> QED
  BY <1>2, <1>4, <1>5

(***************************************************************************)
(* The first states satisfy the invariant.                                 *)
(***************************************************************************)
LEMMA InitInvariant == Init => IInv
<1> SUFFICES ASSUME Init PROVE Inv(log, req)
  BY DEF IInv
<1>1. Fresh(log) /\ req = [r \in Requests |-> Idle]
  BY WrittenFresh DEF Init
<1>2. Modest(Idle)
  BY DEF Modest, Carries, Idle, Planning
<1>3. Slots(req)
  BY <1>1, <1>2 DEF Slots, Modest
<1>4. \A r \in Requests : Agrees(log, req[r]) /\ req[r].pc \notin Winning
  BY <1>1, <1>2, ModestAgrees
<1>5. \A b : ClaimsIn(log, b) = {}
  BY <1>1 DEF Fresh, ClaimsIn, OwnEvents
<1>6. LogInv(log)
  BY <1>1, <1>5 DEF LogInv, Fresh, ReplaysFollow, OnlyOnce
<1> QED
  BY <1>3, <1>4, <1>6 DEF Inv, OneWins

-----------------------------------------------------------------------------
(* The theorems.                                                           *)

(***************************************************************************)
(* Every step keeps the invariant.                                         *)
(***************************************************************************)
LEMMA NextInvariant == IInv /\ [Next]_vars => IInv'
<1> SUFFICES ASSUME Inv(log, req), [Next]_vars PROVE Inv(log', req')
  BY DEF IInv
<1>1. CASE UNCHANGED vars
  <2>1. log' = log /\ req' = req
    BY <1>1 DEF vars
  <2> QED
    BY <2>1
<1>2. ASSUME NEW c \in Creators,
             AppendCreated(c) \/ RegisterBranch(c) \/ \E b \in Branches : BeginCreate(c, b)
      PROVE  Inv(log', req')
  BY <1>2, CreateSteps
<1>3. ASSUME NEW s \in Streams, MainWrite(s) PROVE Inv(log', req')
  BY <1>3, MainStep
<1>4. ASSUME NEW e \in Editors,
             \/ \E b \in Branches : BeginEdit(e, b)
             \/ \E s \in Streams : LoadRow(e, s) \/ NewAggregate(e, s)
             \/ AppendEdit(e) \/ RefuseEdit(e) \/ ProjectEdit(e)
      PROVE  Inv(log', req')
  BY <1>4, EditSteps
<1>5. ASSUME NEW d \in Deleters,
             \/ \E b \in Branches : BeginDelete(d, b)
             \/ ReadDeleteVersion(d) \/ AppendDelete(d) \/ Archive(d) \/ DropOverlay(d)
      PROVE  Inv(log', req')
  BY <1>5, DeleteSteps
<1>6. ASSUME NEW m \in Mergers, MergeStep(m) \/ \E b \in Branches : BeginMerge(m, b)
      PROVE  Inv(log', req')
  <2>1. CASE \/ \E b \in Branches : BeginMerge(m, b)
             \/ LoadBranchSide(m) \/ PinStream(m) \/ LoadMainSide(m) \/ Judge(m)
             \/ CheckLink(m) \/ RecheckStream(m) \/ ReadClaimVersion(m)
    BY <2>1, PlanSteps
  <2>2. CASE LookupClaim(m) \/ AppendClaim(m)
    BY <2>2, ClaimSteps
  <2>3. CASE MarkMerged(m) \/ PurgeOverlay(m) \/ ReadReplayVersion(m) \/ FinishMerge(m)
    BY <2>3, WinnerSteps
  <2>4. CASE ReplayStream(m)
    BY <2>4, ReplayStep
  <2> QED
    BY <1>6, <2>1, <2>2, <2>3, <2>4 DEF MergeStep
<1>7. ASSUME NEW r \in Requests, Fail(r) PROVE Inv(log', req')
  <2>1. Return(r) /\ log' = log
    BY <1>7 DEF Fail
  <2> QED
    BY <2>1, ReturnStep
<1> QED
  BY <1>1, <1>2, <1>3, <1>4, <1>5, <1>6, <1>7 DEF Next

(***************************************************************************)
(* The invariant says both of the merge's properties.                      *)
(***************************************************************************)
LEMMA InvariantSays == IInv => MergedOnce /\ ReplayAfterClaim
<1> SUFFICES ASSUME LogInv(log) PROVE MergedOnce /\ ReplayAfterClaim
  BY DEF IInv, Inv
<1>1. \A b : Claims(b) = ClaimsIn(log, b)
  BY DEF Claims, ClaimsIn
<1>2. ASSUME NEW b \in Branches PROVE Cardinality(Claims(b)) <= 1
  <2>1. \A c, d \in Claims(b) : c = d
    BY <1>1 DEF LogInv, OnlyOnce
  <2>2. CASE Claims(b) = {}
    BY <2>2, FS_EmptySet
  <2>3. CASE Claims(b) # {}
    <3>1. PICK c \in Claims(b) : TRUE
      BY <2>3
    <3>2. Claims(b) = {c}
      BY <2>1
    <3>3. Cardinality({c}) = 1
      BY FS_Singleton
    <3> QED
      BY <3>2, <3>3
  <2> QED
    BY <2>2, <2>3
<1>3. \A d, e \in Replays : d.body.from = e.body.from => d = e
  BY DEF LogInv, OnlyOnce, Replays
<1>4. ReplayAfterClaim
  BY <1>1 DEF ReplayAfterClaim, LogInv, ReplaysFollow, Replays
<1> QED
  BY <1>2, <1>3, <1>4 DEF MergedOnce

-----------------------------------------------------------------------------
(* What a merge may rely on: a second invariant, beside the first.         *)

\* The items of a sequence.
Items(seq) == {seq[i] : i \in 1..Len(seq)}

\* Main's events on s after the position n.
MainSince(l, s, n) == OnlyIn(l, {e \in OwnEvents(l, s, Main) : e.position > n})

\* Main had not deleted s by the position n.
KeptTo(l, s, n) == \A e \in OwnEvents(l, s, Main) : e.body.type = "Deleted" => e.position > n

\* Every event has a type, and is of an aggregate or of a branch.
Typed(l) ==
  \A e \in EventsOf(l) : "type" \in DOMAIN e.body /\ e.stream \in Streams \union Branches

\* A branch writes after its base f[b], and to nothing main had deleted by then.
AfterFork(l, f) ==
  \A e \in EventsOf(l) : e.stream \in Streams /\ e.branch \in Branches =>
    /\ f[e.branch] \in Nat /\ e.position > f[e.branch]
    /\ KeptTo(l, e.stream, f[e.branch])

\* What two lines have, main has.
Shared(l) ==
  \A d, e \in EventsOf(l) :
    d.stream \in Streams /\ d.stream = e.stream /\ d.branch # e.branch
      => OwnEvents(l, d.stream, Main) # {}

Forks(l, f) ==
  /\ f = [b \in Branches |-> f[b]]
  /\ \A b \in Branches : f[b] = NoBase \/ f[b] \in 0..Len(l)

LogFacts(l, f) == Typed(l) /\ AfterFork(l, f) /\ Shared(l) /\ Forks(l, f)

\* A branch that reads active was created; an overlay row stands for an event.
Registered(f, g) ==
  /\ g = [b \in Branches |-> g[b]]
  /\ \A b \in Branches : g[b] = "active" => f[b] \in Nat

Overlaid(l, w) ==
  /\ w = [b \in Branches |-> [s \in Streams |-> w[b][s]]]
  /\ \A b \in Branches, s \in Streams : w[b][s] # 0 => OwnEvents(l, s, b) # {}

\* No two requests create one branch.
CreatorsApart(q) ==
  /\ \A x \in Requests : q[x].pc = "created" => x \in Creators
  /\ \A x, y \in Requests :
       q[x].pc = "created" /\ q[y].pc = "created" /\ q[x].branch = q[y].branch => x = y

\* n is the base of the request's branch, which is there unless it is being created.
Based(l, n, r) ==
  /\ r.pc = "created" => n = NoBase /\ "head" \in DOMAIN r /\ r.head \in 0..Len(l)
  /\ r.pc \notin {"idle", "created"} => n \in 0..Len(l)

\* A write is to something the branch sees, or creates it; a projection follows it.
Writes(l, n, r) ==
  /\ r.pc = "append" =>
       /\ "type" \in DOMAIN r.body
       /\ \/ r.body.type = "Created"
          \/ /\ OwnEvents(l, r.stream, Main) # {} \/ OwnEvents(l, r.stream, r.branch) # {}
             /\ KeptTo(l, r.stream, n)
  /\ r.pc = "project" => r.stream \in Streams /\ OwnEvents(l, r.stream, r.branch) # {}

\* All that the branch had written when the plan was read is planned.
Whole(l, r) ==
  \A e \in EventsOf(l) :
    e.stream \in Streams /\ e.branch = r.branch /\ e.position <= r.planned
      => e \in EventsOf(r.replay)

Reads(l, n, r) ==
  r.pc \in Planning =>
    /\ "planned" \in DOMAIN r /\ r.planned \in 0..Len(l)
    /\ \A e \in EventsOf(r.replay) :
         e.stream \in Streams /\ n < e.position /\ e.position <= r.planned
    /\ r.pc \in {"pin", "judge"} => "truncated" \in DOMAIN r /\ r.truncated \in BOOLEAN
    /\ (r.pc \in {"pin", "judge"} /\ r.truncated = TRUE) \/ Whole(l, r)

\* Each stream has main's version as of some earlier moment, or is yet to be asked.
Pinned(l, r) ==
  r.pc \in Planning =>
    /\ \A s \in DOMAIN r.pins : r.pins[s] \in Nat /\ r.pins[s] <= StreamVersion(l, s, Main)
    /\ r.pc = "pin"  => StreamsOf(r.replay) \subseteq DOMAIN r.pins \union Items(r.todo)
    /\ r.pc # "pin"  => StreamsOf(r.replay) \subseteq DOMAIN r.pins
    /\ r.pc \in {"pin", "recheck", "replay", "reappend"} => r.todo \in Seq(StreamsOf(r.replay))

\* Where main still has the pinned version, the plan has all that main wrote.
Compared(l, n, r) ==
  r.pc = "judge" /\ r.truncated = FALSE =>
    \A s \in StreamsOf(r.replay) :
      /\ Placed(r.tail)
      /\ r.pins[s] = StreamVersion(l, s, Main) => OnStream(r.tail, s) = MainSince(l, s, n)

\* The caller decided every conflict of s, as main is now.
Settled(l, n, r, s) ==
  \A c \in ClassifyConflicts(OnStream(r.replay, s), MainSince(l, s, n), <<>>) :
    s \in DOMAIN r.res /\ r.res[s] \in c.supported

\* The steps after the caller's decisions.
Verdict == {"recheck", "lookup", "claim", "mark", "purge", "replay", "reappend"}

(***************************************************************************)
(* Where main still has the pinned version, all conflicts are decided; a   *)
(* child that is to be linked is replayed as well, is yet to be looked up, *)
(* or main had it.                                                         *)
(***************************************************************************)
Judged(l, n, r) ==
  r.pc \in Verdict =>
    /\ "res" \in DOMAIN r /\ "judged" \in DOMAIN r /\ r.judged \in 0..Len(l)
    /\ r.pc = "recheck" => "links" \in DOMAIN r
    /\ \A s \in StreamsOf(r.replay) : r.pins[s] = StreamVersion(l, s, Main) => Settled(l, n, r, s)
    /\ \A e \in EventsOf(r.replay) :
         e.body.type = "ChildLinked" /\ ~ResolvedToMain(r.res, e.stream) =>
           \/ e.body.child \in StreamsOf(r.replay) /\ ~ResolvedToMain(r.res, e.body.child)
           \/ r.pc = "recheck" /\ e.body.child \in r.links
           \/ OwnEvents(l, e.body.child, Main) # {} /\ KeptTo(l, e.body.child, r.judged)

\* The log copies the events to main, on s and from after the position k.
CopiedAt(l, s, own, k) ==
  /\ k + Len(own) <= Len(l)
  /\ \A i \in 1..Len(own) :
       /\ l[k + i].stream = s /\ l[k + i].branch = Main
       /\ l[k + i].body.from = own[i].position /\ l[k + i].body.type = own[i].body.type

\* If main deleted s between two positions, so do the events.
DeleteToo(l, s, n, h, own) ==
  (\E d \in OwnEvents(l, s, Main) : d.body.type = "Deleted" /\ n < d.position /\ d.position <= h)
    => \E i \in 1..Len(own) : own[i].body.type = "Deleted"

(***************************************************************************)
(* All planned events of s are on main in one piece, written after the     *)
(* decisions; what main had deleted by then, the branch deletes as well.   *)
(***************************************************************************)
Promoted(l, n, r, s) ==
  LET own == OnStream(r.replay, s) IN
  /\ \E k \in 0..Len(l) : r.judged <= k /\ CopiedAt(l, s, own, k)
  /\ DeleteToo(l, s, n, r.judged, own)

\* Only what is planned is replayed, and each stream is, or stays, or is still to do.
Promotes(l, n, r) ==
  /\ r.pc \in Winning => \A e \in ReplaysIn(l, r.branch) : l[e.body.from] \in EventsOf(r.replay)
  /\ r.pc \in {"replay", "reappend"} =>
       \A s \in StreamsOf(r.replay) :
         ResolvedToMain(r.res, s) \/ s \in Items(r.todo) \/ Promoted(l, n, r, s)
  /\ r.pc = "reappend" =>
       /\ r.todo # <<>>
       /\ r.pins[Head(r.todo)] = 0 => OwnEvents(l, Head(r.todo), Main) = {}

Known(l, n, r) ==
  /\ Based(l, n, r) /\ Writes(l, n, r) /\ Reads(l, n, r) /\ Pinned(l, r)
  /\ Compared(l, n, r) /\ Judged(l, n, r) /\ Promotes(l, n, r)

Knows(l, f, q) ==
  /\ CreatorsApart(q)
  /\ \A x \in Requests : q[x].pc # "idle" => Known(l, f[q[x].branch], q[x])

Facts(l, f, g, w, q) ==
  LogFacts(l, f) /\ Registered(f, g) /\ Overlaid(l, w) /\ Knows(l, f, q)

KInv == Facts(log, base, registry, rows, req)
-----------------------------------------------------------------------------
(* Streams, their order of first touch, and conflicts.                     *)

(***************************************************************************)
(* The streams of a log are those of its events.                           *)
(***************************************************************************)
LEMMA StreamsOfLog ==
  ASSUME NEW l, IsLog(l)
  PROVE  StreamsOf(l) = {e.stream : e \in EventsOf(l)}
<1>1. DOMAIN l = 1..Len(l)
  BY DEF IsLog
<1> QED
  BY <1>1 DEF StreamsOf, EventsOf

(***************************************************************************)
(* Each stream of a log has its first event, so the streams in the order   *)
(* of their first events are all its streams.                              *)
(***************************************************************************)
LEMMA FirstTouchItems ==
  ASSUME NEW l, IsLog(l), NEW ids, ids = FirstTouch(l)
  PROVE  ids \in Seq(StreamsOf(l)) /\ Items(ids) = StreamsOf(l)
<1>0. DOMAIN l = 1..Len(l) /\ Len(l) \in Nat
  BY LenProperties DEF IsLog
<1>1. PICK S : S = {l[i] : i \in {j \in DOMAIN l :
                      \A k \in DOMAIN l : k < j => l[k].stream # l[j].stream}}
  OBVIOUS
<1>2. PICK firsts : firsts = OnlyIn(l, S)
  OBVIOUS
<1>3. /\ firsts \in Seq(EventsOf(l) \intersect S) /\ Len(firsts) \in Nat
      /\ EventsOf(firsts) = EventsOf(l) \intersect S
  BY <1>0, <1>2, OnlyInItems
<1>4. DOMAIN firsts = 1..Len(firsts)
  BY <1>3
<1>5. ids = [i \in 1..Len(firsts) |-> firsts[i].stream]
  BY <1>1, <1>2, <1>4 DEF FirstTouch
<1>6. \A i \in 1..Len(firsts) : firsts[i] \in EventsOf(firsts)
  BY DEF EventsOf
<1>7. \A i \in 1..Len(firsts) : firsts[i].stream \in StreamsOf(l)
  BY <1>3, <1>6, StreamsOfLog
<1>8. ids \in Seq(StreamsOf(l)) /\ Len(ids) = Len(firsts)
  BY <1>3, <1>5, <1>7
<1>9. ASSUME NEW s \in StreamsOf(l) PROVE s \in Items(ids)
  <2> DEFINE T == {i \in 1..Len(l) : l[i].stream = s}
  <2>1. T # {} /\ T \subseteq Nat
    BY <1>0 DEF StreamsOf
  <2>2. PICK i \in T : \A j \in T : i <= j
    <3> HIDE DEF T
    <3> QED
      BY <2>1, LeastNatural
  <2>3. \A k \in DOMAIN l : k < i => l[k].stream # l[i].stream
    BY <1>0, <2>2
  <2>4. l[i] \in S /\ l[i] \in EventsOf(l) /\ l[i].stream = s
    BY <1>0, <1>1, <2>3 DEF EventsOf
  <2>5. PICK a \in 1..Len(firsts) : firsts[a] = l[i]
    BY <1>3, <2>4 DEF EventsOf
  <2> QED
    BY <1>5, <1>8, <2>4, <2>5 DEF Items
<1>10. ASSUME NEW s \in Items(ids) PROVE s \in StreamsOf(l)
  BY <1>5, <1>7, <1>8 DEF Items
<1> QED
  BY <1>8, <1>9, <1>10

(***************************************************************************)
(* A merge replays the streams it does not leave as main has them.         *)
(***************************************************************************)
LEMMA ToReplayItems ==
  ASSUME NEW r, IsLog(r.replay), NEW res, NEW todo, todo = ToReplay(r, res)
  PROVE  /\ todo \in Seq(StreamsOf(r.replay))
         /\ Items(todo) = {s \in StreamsOf(r.replay) : ~ResolvedToMain(res, s)}
<1>1. PICK ids : ids = FirstTouch(r.replay)
  OBVIOUS
<1>2. ids \in Seq(StreamsOf(r.replay)) /\ Items(ids) = StreamsOf(r.replay)
  BY <1>1, FirstTouchItems
<1>3. PICK S : S = {s \in StreamsOf(r.replay) : ~ResolvedToMain(res, s)}
  OBVIOUS
<1>4. todo = OnlyIn(ids, S) /\ Len(ids) \in Nat
  BY <1>1, <1>2, <1>3 DEF ToReplay
<1>5. /\ todo \in Seq(EventsOf(ids) \intersect S)
      /\ EventsOf(todo) = EventsOf(ids) \intersect S
  BY <1>4, OnlyInItems
<1>6. EventsOf(ids) = StreamsOf(r.replay) /\ EventsOf(todo) = Items(todo)
  BY <1>2 DEF EventsOf, Items
<1>7. EventsOf(ids) \intersect S = S /\ S \subseteq StreamsOf(r.replay)
  BY <1>3, <1>6
<1> QED
  BY <1>3, <1>5, <1>6, <1>7

(***************************************************************************)
(* Without a tail of main there is no collision of xrefs.                  *)
(***************************************************************************)
LEMMA NoCollision ==
  ASSUME NEW s, NEW events
  PROVE  ClassifyCreateCollision(s, events, <<>>) = {}
<1>1. PICK none : none = <<>>
  OBVIOUS
<1>2. none \in Seq({}) /\ Len(none) = 0 /\ EventsOf(none) = {}
  BY <1>1 DEF EventsOf
<1>3. \A S : OnlyIn(none, S) = <<>>
  <2> SUFFICES ASSUME NEW S PROVE OnlyIn(none, S) = <<>>
    OBVIOUS
  <2>1. PICK part : part = OnlyIn(none, S)
    OBVIOUS
  <2>2. part \in Seq(EventsOf(none) \intersect S) /\ Len(part) \in Nat
    BY <1>2, <2>1, OnlyInItems
  <2>3. part \in Seq({})
    BY <1>2, <2>2
  <2> QED
    BY <2>1, <2>3
<1>4. XrefCreations(<<>>) = <<>>
  BY <1>1, <1>3 DEF XrefCreations
<1>5. \A x : OwnerOf(<<>>, x) = {}
  BY <1>1, <1>3, <1>4 DEF OwnerOf
<1> QED
  BY <1>5 DEF ClassifyCreateCollision

(***************************************************************************)
(* So the conflicts of what a branch wrote are those of its streams.       *)
(***************************************************************************)
LEMMA ConflictsByStream ==
  ASSUME NEW own, NEW other
  PROVE  ClassifyConflicts(own, other, <<>>) =
           UNION {ClassifyStream(s, own, other) : s \in StreamsOf(own)}
<1>1. \A s : ClassifyCreateCollision(s, own, <<>>) = {}
  BY NoCollision
<1> DEFINE A == {LET mine == ClassifyStream(s, own, other)
                 IN  IF mine # {} THEN mine ELSE ClassifyCreateCollision(s, own, <<>>) :
                 s \in StreamsOf(own)}
           B == {ClassifyStream(s, own, other) : s \in StreamsOf(own)}
<1>2. A = B
  BY <1>1
<1>3. ClassifyConflicts(own, other, <<>>) = UNION A
  BY DEF ClassifyConflicts
<1> QED
  BY <1>2, <1>3

(***************************************************************************)
(* What a stream's conflict is depends on what the sides have of it.       *)
(***************************************************************************)
LEMMA SideOfStream ==
  ASSUME NEW x, Placed(x), NEW y, Placed(y), NEW s, OnStream(x, s) = OnStream(y, s)
  PROVE  /\ Side(x, s) = Side(y, s)
         /\ Touches(x, s) <=> Touches(y, s)
<1>1. Side(x, s) = Side(y, s)
  BY DEF Side
<1>2. ASSUME NEW z, Placed(z) PROVE Touches(z, s) <=> EventsOf(OnStream(z, s)) # {}
  <2>1. EventsOf(OnStream(z, s)) = {e \in EventsOf(z) : e.stream = s}
    BY <1>2, OnStreamPlaced
  <2>2. DOMAIN z = 1..Len(z)
    BY <1>2 DEF Placed, IsLog
  <2> QED
    BY <2>1, <2>2 DEF Touches, EventsOf
<1> QED
  BY <1>1, <1>2

(***************************************************************************)
(* What is on one stream is all that it has on that stream.                *)
(***************************************************************************)
LEMMA OnStreamAgain ==
  ASSUME NEW x, Placed(x), NEW s, \A e \in EventsOf(x) : e.stream = s
  PROVE  OnStream(x, s) = x
<1>1. PICK y : y = OnStream(x, s)
  OBVIOUS
<1>2. Placed(y) /\ EventsOf(y) = {e \in EventsOf(x) : e.stream = s}
  BY <1>1, OnStreamPlaced
<1>3. EventsOf(y) = EventsOf(x)
  BY <1>2
<1> QED
  BY <1>1, <1>2, <1>3, SameSequence

(***************************************************************************)
(* The conflicts of one stream's events are among those of the whole.      *)
(***************************************************************************)
LEMMA ConflictsOfStream ==
  ASSUME NEW replay, Placed(replay), NEW tail, Placed(tail), NEW s \in StreamsOf(replay),
         NEW since, Placed(since), \A e \in EventsOf(since) : e.stream = s,
         OnStream(tail, s) = since,
         NEW c \in ClassifyConflicts(OnStream(replay, s), since, <<>>)
  PROVE  c.stream = s /\ c \in ClassifyConflicts(replay, tail, <<>>)
<1>1. PICK own : own = OnStream(replay, s)
  OBVIOUS
<1>2. Placed(own) /\ EventsOf(own) = {e \in EventsOf(replay) : e.stream = s}
  BY <1>1, OnStreamPlaced
<1>3. OnStream(own, s) = own /\ OnStream(since, s) = since
  BY <1>2, OnStreamAgain
<1>4. /\ Side(own, s) = Side(replay, s) /\ Side(since, s) = Side(tail, s)
      /\ Touches(since, s) <=> Touches(tail, s)
  BY <1>1, <1>2, <1>3, SideOfStream
<1>5. ClassifyStream(s, own, since) = ClassifyStream(s, replay, tail)
  BY <1>4 DEF ClassifyStream
<1>6. StreamsOf(own) \subseteq {s}
  <2>1. IsLog(own)
    BY <1>2 DEF Placed
  <2> QED
    BY <1>2, <2>1, StreamsOfLog
<1>7. c \in ClassifyStream(s, own, since)
  BY <1>1, <1>6, ConflictsByStream
<1>8. c.stream = s
  BY <1>7 DEF ClassifyStream, Conflict
<1> QED
  BY <1>5, <1>7, <1>8, ConflictsByStream

(***************************************************************************)
(* Where main wrote nothing there is no conflict.                          *)
(***************************************************************************)
LEMMA NoConflict ==
  ASSUME NEW own, NEW since, Placed(since), EventsOf(since) = {}
  PROVE  ClassifyConflicts(own, since, <<>>) = {}
<1>1. \A s : ~ Touches(since, s)
  <2>1. DOMAIN since = 1..Len(since)
    BY DEF Placed, IsLog
  <2> QED
    BY <2>1 DEF Touches, EventsOf
<1>2. \A s : ClassifyStream(s, own, since) = {}
  BY <1>1 DEF ClassifyStream
<1> QED
  BY <1>2, ConflictsByStream

(***************************************************************************)
(* What main deleted and the branch did not can only stay as main has it.  *)
(***************************************************************************)
LEMMA DeleteConflict ==
  ASSUME NEW own, Placed(own), NEW since, Placed(since), NEW s,
         EventsOf(own) # {}, \A e \in EventsOf(own) : e.stream = s /\ e.body.type # "Deleted",
         \A e \in EventsOf(since) : e.stream = s,
         NEW d \in EventsOf(since), d.body.type = "Deleted"
  PROVE  \E c \in ClassifyConflicts(own, since, <<>>) : c.supported = {"main"}
<1>1. OnStream(own, s) = own /\ OnStream(since, s) = since
  BY OnStreamAgain
<1>2. DOMAIN own = 1..Len(own) /\ DOMAIN since = 1..Len(since)
  BY DEF Placed, IsLog
<1>3. Side(own, s).deleted = FALSE
  <2>1. \A i \in DOMAIN own : own[i] \in EventsOf(own)
    BY <1>2 DEF EventsOf
  <2>2. ~ \E i \in DOMAIN own : own[i].body.type = "Deleted"
    BY <2>1
  <2> QED
    BY <1>1, <2>2 DEF Side
<1>4. Side(since, s).deleted = TRUE
  <2>1. \E i \in DOMAIN since : since[i].body.type = "Deleted"
    BY <1>2 DEF EventsOf
  <2> QED
    BY <1>1, <2>1 DEF Side
<1>5. Touches(since, s)
  BY <1>2 DEF Touches, EventsOf
<1>6. PICK c : c = Conflict(s, "delete_edit", {}, {"main"})
  OBVIOUS
<1>7. c \in ClassifyStream(s, own, since)
  BY <1>3, <1>4, <1>5, <1>6 DEF ClassifyStream
<1>8. s \in StreamsOf(own)
  <2>1. IsLog(own)
    BY DEF Placed
  <2> QED
    BY <2>1, StreamsOfLog
<1>9. c.supported = {"main"}
  BY <1>6 DEF Conflict
<1> QED
  BY <1>7, <1>8, <1>9, ConflictsByStream

(***************************************************************************)
(* A child that events leave a family with, one of them linked.            *)
(***************************************************************************)
LEMMA ChildWasLinked ==
  ASSUME NEW l, Placed(l), NEW p \in Children(l)
  PROVE  \E e \in EventsOf(l) : e.body.type = "ChildLinked" /\ e.body.child = p
<1>1. DOMAIN l = 1..Len(l)
  BY DEF Placed, IsLog
<1>2. PICK i \in DOMAIN l : l[i].body.type = "ChildLinked" /\ l[i].body.child = p
  BY DEF Children
<1>3. l[i] \in EventsOf(l)
  BY <1>1 DEF EventsOf
<1> QED
  BY <1>2, <1>3

-----------------------------------------------------------------------------
(* A longer log.                                                           *)

\* m is l with events of one stream and line more.
Grown(l, m, s, c) ==
  /\ Longer(l, m) /\ s \in Streams \union Branches /\ c \in Branches \union {Main}
  /\ \A e \in EventsOf(m) \ EventsOf(l) :
       /\ e.stream = s /\ e.branch = c /\ e.position > Len(l)
       /\ "type" \in DOMAIN e.body
  /\ StreamVersion(m, s, c) # 0
  /\ c = Main => StreamVersion(m, s, c) > StreamVersion(l, s, c)

(***************************************************************************)
(* The append of a batch that is not empty makes such a log.               *)
(***************************************************************************)
LEMMA BatchGrows ==
  ASSUME NEW l, WellStored(l), NEW s \in Streams \union Branches, NEW c \in Branches \union {Main},
         NEW cur \in Nat, c = Main => StreamVersion(l, s, c) <= cur,
         NEW batch, IsBatch(batch), Len(batch) > 0,
         \A k \in 1..Len(batch) : "type" \in DOMAIN batch[k],
         NEW m, GrowsBy(l, m, s, c, cur, batch)
  PROVE  Grown(l, m, s, c)
<1>1. /\ Longer(l, m)
      /\ EventsOf(m) = EventsOf(l) \union StoredEvents(l, s, c, cur, batch)
      /\ StreamVersion(m, s, c) > cur
  <2>1. /\ Longer(l, m)
        /\ EventsOf(m) = EventsOf(l) \union StoredEvents(l, s, c, cur, batch)
        /\ Len(batch) > 0 => StreamVersion(m, s, c) > cur
    BY Appended
  <2> QED
    BY <2>1
<1>2. /\ Len(l) \in Nat /\ Len(batch) \in Nat
      /\ StreamVersion(l, s, c) \in Nat /\ StreamVersion(m, s, c) \in Nat
  BY <1>1, LongerKeeps DEF Longer, IsBatch
<1>3. /\ StreamVersion(m, s, c) # 0
      /\ c = Main => StreamVersion(m, s, c) > StreamVersion(l, s, c)
  BY <1>1, <1>2
<1>4. ASSUME NEW e \in EventsOf(m) \ EventsOf(l)
      PROVE  /\ e.stream = s /\ e.branch = c /\ e.position > Len(l)
             /\ "type" \in DOMAIN e.body
  <2>1. PICK k \in 1..Len(batch) : e = StoredAt(l, s, c, cur, batch, k)
    BY <1>1 DEF StoredEvents
  <2>2. e.stream = s /\ e.branch = c /\ e.position = Len(l) + k /\ e.body = batch[k]
    BY <2>1 DEF StoredAt
  <2>3. Len(l) + k > Len(l)
    BY <1>2
  <2> QED
    BY <2>2, <2>3
<1> QED
  BY <1>1, <1>3, <1>4 DEF Grown

(***************************************************************************)
(* So does the append of one payload.                                      *)
(***************************************************************************)
LEMMA WriteGrows ==
  ASSUME NEW l, WellStored(l), NEW s \in Streams \union Branches, NEW c \in Branches \union {Main},
         NEW cur \in Nat, c = Main => StreamVersion(l, s, c) <= cur,
         NEW body, "type" \in DOMAIN body,
         NEW m, GrowsBy(l, m, s, c, cur, <<Payload(body, 0)>>)
  PROVE  Grown(l, m, s, c)
<1>1. PICK batch : batch = <<Payload(body, 0)>>
  OBVIOUS
<1>2. Len(batch) = 1 /\ batch[1] = Payload(body, 0)
  BY <1>1
<1>3. "from" \in DOMAIN Payload(body, 0) /\ "type" \in DOMAIN Payload(body, 0)
  BY DEF Payload
<1>4. IsBatch(batch) /\ Len(batch) > 0 /\ \A k \in 1..Len(batch) : "type" \in DOMAIN batch[k]
  BY <1>2, <1>3 DEF IsBatch
<1>5. GrowsBy(l, m, s, c, cur, batch)
  BY <1>1
<1> QED
  BY <1>4, <1>5, BatchGrows

(***************************************************************************)
(* The other streams and lines keep what they have.                        *)
(***************************************************************************)
LEMMA GrownElsewhere ==
  ASSUME NEW l, NEW m, NEW s, NEW c, Grown(l, m, s, c)
  PROVE  /\ \A t, d : OwnEvents(l, t, d) \subseteq OwnEvents(m, t, d)
         /\ \A t, d : t # s \/ d # c => /\ OwnEvents(m, t, d) = OwnEvents(l, t, d)
                                        /\ StreamVersion(m, t, d) = StreamVersion(l, t, d)
         /\ OwnEvents(m, s, c) # {}
<1>1. EventsOf(l) \subseteq EventsOf(m) /\ WellStored(m) /\ WellStored(l)
  BY DEF Grown, Longer
<1>2. \A t, d : OwnEvents(l, t, d) \subseteq OwnEvents(m, t, d)
  BY <1>1 DEF OwnEvents
<1>3. ASSUME NEW t, NEW d, t # s \/ d # c PROVE OwnEvents(m, t, d) \subseteq OwnEvents(l, t, d)
  BY <1>3 DEF OwnEvents, Grown
<1>4. ASSUME NEW t, NEW d, t # s \/ d # c
      PROVE  /\ OwnEvents(m, t, d) = OwnEvents(l, t, d)
             /\ StreamVersion(m, t, d) = StreamVersion(l, t, d)
  <2>1. OwnEvents(m, t, d) = OwnEvents(l, t, d)
    <3>1. OwnEvents(l, t, d) \subseteq OwnEvents(m, t, d)
      BY <1>2
    <3>2. OwnEvents(m, t, d) \subseteq OwnEvents(l, t, d)
      BY <1>3, <1>4
    <3> QED
      BY <3>1, <3>2
  <2> QED
    BY <2>1 DEF StreamVersion
<1>5. OwnEvents(m, s, c) # {}
  <2>1. /\ StreamVersion(l, s, c) \in Nat /\ StreamVersion(m, s, c) \in Nat
        /\ IsTop(OwnEvents(m, s, c), StreamVersion(m, s, c))
    BY <1>1, Versions
  <2>2. StreamVersion(m, s, c) # 0
    BY <2>1 DEF Grown
  <2> QED
    BY <2>1, <2>2 DEF IsTop
<1> QED
  BY <1>2, <1>4, <1>5

(***************************************************************************)
(* The log is in the order of its positions.                               *)
(***************************************************************************)
LEMMA LogPlaced ==
  ASSUME NEW l, WellStored(l)
  PROVE  Placed(l)
<1>1. /\ Ordered(l) /\ IsLog(l) /\ Len(l) \in Nat
      /\ \A e \in EventsOf(l) : e.position \in 1..Len(l)
  BY LogOrdered
<1> QED
  BY <1>1 DEF Placed

(***************************************************************************)
(* What main wrote to a stream since a position.                           *)
(***************************************************************************)
LEMMA MainSinceIs ==
  ASSUME NEW l, WellStored(l), NEW s, NEW n
  PROVE  /\ Placed(MainSince(l, s, n))
         /\ EventsOf(MainSince(l, s, n)) = {e \in OwnEvents(l, s, Main) : e.position > n}
         /\ \A e \in EventsOf(MainSince(l, s, n)) : e.stream = s
<1>1. PICK S : S = {e \in OwnEvents(l, s, Main) : e.position > n}
  OBVIOUS
<1>2. PICK since : since = OnlyIn(l, S)
  OBVIOUS
<1>3. since = MainSince(l, s, n)
  BY <1>1, <1>2 DEF MainSince
<1>4. Placed(since) /\ EventsOf(since) = EventsOf(l) \intersect S
  BY <1>2, LogPlaced, OnlyInPlaced
<1>5. EventsOf(l) \intersect S = S /\ \A e \in S : e.stream = s
  BY <1>1 DEF OwnEvents
<1> QED
  BY <1>1, <1>3, <1>4, <1>5

(***************************************************************************)
(* It is the same in a log that has the same of the stream.                *)
(***************************************************************************)
LEMMA MainSinceSame ==
  ASSUME NEW l, WellStored(l), NEW m, WellStored(m), NEW s, NEW n,
         OwnEvents(m, s, Main) = OwnEvents(l, s, Main)
  PROVE  MainSince(m, s, n) = MainSince(l, s, n)
<1>1. PICK x, y : x = MainSince(l, s, n) /\ y = MainSince(m, s, n)
  OBVIOUS
<1>2. Placed(x) /\ Placed(y) /\ EventsOf(x) = EventsOf(y)
  BY <1>1, MainSinceIs
<1>3. x = y
  BY <1>2, SameSequence
<1> QED
  BY <1>1, <1>3

(***************************************************************************)
(* What main had not deleted by an earlier position of the log, it still   *)
(* has not.                                                                *)
(***************************************************************************)
LEMMA KeptStays ==
  ASSUME NEW l, NEW m, NEW s, NEW c, Grown(l, m, s, c), NEW t, NEW n \in 0..Len(l), KeptTo(l, t, n)
  PROVE  KeptTo(m, t, n)
<1> SUFFICES ASSUME NEW e \in OwnEvents(m, t, Main), e.body.type = "Deleted"
             PROVE  e.position > n
  BY DEF KeptTo
<1>1. CASE e \in EventsOf(l)
  BY <1>1 DEF KeptTo, OwnEvents
<1>2. CASE e \notin EventsOf(l)
  <2>1. e \in EventsOf(m) /\ e.position > Len(l) /\ Len(l) \in Nat /\ WellStored(m) /\ Len(m) \in Nat
    BY <1>2 DEF Grown, Longer, OwnEvents
  <2>2. e.position \in Nat
    BY <2>1, LogOrdered
  <2> QED
    BY <2>1, <2>2
<1> QED
  BY <1>1, <1>2

\* What a write on a branch needs of the log before it.
MayWrite(l, f, s, c) ==
  s \in Streams /\ c \in Branches =>
    /\ f[c] \in Nat /\ KeptTo(l, s, f[c])
    /\ \/ OwnEvents(l, s, Main) # {} \/ OwnEvents(l, s, c) # {}
       \/ \A e \in EventsOf(l) : e.stream # s

(***************************************************************************)
(* Such writes, and all others, keep what is so of the log.                *)
(***************************************************************************)
LEMMA FactsKeep ==
  ASSUME NEW l, NEW f, LogFacts(l, f), NEW m, NEW s, NEW c, Grown(l, m, s, c),
         MayWrite(l, f, s, c)
  PROVE  LogFacts(m, f)
<1>1. Typed(l) /\ AfterFork(l, f) /\ Shared(l) /\ Forks(l, f)
  BY DEF LogFacts
<1>2. /\ WellStored(l) /\ WellStored(m) /\ Len(l) \in Nat /\ Len(m) \in Nat /\ Len(l) <= Len(m)
      /\ EventsOf(l) \subseteq EventsOf(m)
      /\ s \in Streams \union Branches /\ c \in Branches \union {Main}
      /\ \A e \in EventsOf(m) \ EventsOf(l) :
           /\ e.stream = s /\ e.branch = c /\ e.position > Len(l) /\ "type" \in DOMAIN e.body
  BY DEF Grown, Longer
<1>3. \A e \in EventsOf(m) : e.position \in 1..Len(m)
  BY <1>2, LogOrdered
<1>4. \A b \in Branches : f[b] \in Nat => f[b] \in 0..Len(l)
  BY <1>1, NoBaseApart DEF Forks
<1>5. Typed(m)
  BY <1>1, <1>2 DEF Typed
<1>6. AfterFork(m, f)
  <2> SUFFICES ASSUME NEW e \in EventsOf(m), e.stream \in Streams, e.branch \in Branches
               PROVE  /\ f[e.branch] \in Nat /\ e.position > f[e.branch]
                      /\ KeptTo(m, e.stream, f[e.branch])
    BY DEF AfterFork
  <2>1. /\ f[e.branch] \in Nat /\ KeptTo(l, e.stream, f[e.branch])
        /\ e \in EventsOf(l) => e.position > f[e.branch]
    BY <1>1, <1>2 DEF AfterFork, MayWrite
  <2>2. f[e.branch] \in 0..Len(l)
    BY <1>4, <2>1
  <2>3. KeptTo(m, e.stream, f[e.branch])
    BY <2>1, <2>2, KeptStays
  <2>4. e.position > f[e.branch]
    <3>1. e \notin EventsOf(l) => e.position > Len(l)
      BY <1>2
    <3>2. e.position \in Nat
      BY <1>3
    <3> QED
      BY <1>2, <2>1, <2>2, <3>1, <3>2
  <2> QED
    BY <2>1, <2>3, <2>4
<1>7. Shared(m)
  <2> SUFFICES ASSUME NEW d \in EventsOf(m), NEW e \in EventsOf(m),
                      d.stream \in Streams, d.stream = e.stream, d.branch # e.branch
               PROVE  OwnEvents(m, d.stream, Main) # {}
    BY DEF Shared
  <2>1. OwnEvents(l, d.stream, Main) \subseteq OwnEvents(m, d.stream, Main)
    BY GrownElsewhere
  <2>2. CASE d \in EventsOf(l) /\ e \in EventsOf(l)
    BY <1>1, <2>1, <2>2 DEF Shared
  <2>3. CASE c = Main /\ ~ (d \in EventsOf(l) /\ e \in EventsOf(l))
    <3>1. d.stream = s
      BY <1>2, <2>3
    <3> QED
      BY <2>3, <3>1, GrownElsewhere
  <2>4. CASE c # Main /\ ~ (d \in EventsOf(l) /\ e \in EventsOf(l))
    <3>1. s = d.stream /\ s \in Streams /\ c \in Branches
      BY <1>2, <2>4
    <3>2. PICK o \in {d, e} : o \in EventsOf(l) /\ o.stream = s /\ o.branch # c
      BY <1>2, <2>4
    <3>3. OwnEvents(l, s, Main) # {} \/ OwnEvents(l, s, c) # {}
      BY <3>1, <3>2 DEF MayWrite
    <3>4. CASE OwnEvents(l, s, c) # {}
      <4>1. PICK x \in OwnEvents(l, s, c) : TRUE
        BY <3>4
      <4>2. x \in EventsOf(l) /\ x.stream = s /\ x.branch = c
        BY DEF OwnEvents
      <4> QED
        BY <1>1, <2>1, <3>1, <3>2, <4>2 DEF Shared
    <3> QED
      BY <2>1, <3>1, <3>3, <3>4
  <2> QED
    BY <2>2, <2>3, <2>4
<1>8. Forks(m, f)
  BY <1>1, <1>2 DEF Forks
<1> QED
  BY <1>5, <1>6, <1>7, <1>8 DEF LogFacts

(***************************************************************************)
(* So does the creation of a branch, which had nothing before it.          *)
(***************************************************************************)
LEMMA ForkMade ==
  ASSUME NEW l, WellStored(l), NEW f, LogFacts(l, f), NEW b \in Branches, f[b] = NoBase,
         NEW h \in 0..Len(l), NEW g, g = [f EXCEPT ![b] = h]
  PROVE  LogFacts(l, g)
<1>1. Typed(l) /\ AfterFork(l, f) /\ Shared(l) /\ Forks(l, f)
  BY DEF LogFacts
<1>2. g[b] = h /\ \A c \in Branches \ {b} : g[c] = f[c]
  BY <1>1 DEF Forks
<1>3. g = [c \in Branches |-> g[c]]
  BY <1>1 DEF Forks
<1>4. \A e \in EventsOf(l) : e.stream \in Streams => e.branch # b
  BY <1>1, NoBaseApart DEF AfterFork
<1>5. AfterFork(l, g)
  BY <1>1, <1>2, <1>4 DEF AfterFork
<1>6. Forks(l, g)
  BY <1>1, <1>2, <1>3 DEF Forks
<1> QED
  BY <1>1, <1>5, <1>6 DEF LogFacts

-----------------------------------------------------------------------------
(* What a request knows, while the log grows.                              *)

\* The new events are neither what the request is about to replay nor its replays.
Apart(l, m, s, c, r) ==
  /\ r.pc = "reappend" /\ c = Main /\ s = Head(r.todo) => OwnEvents(l, s, Main) # {}
  /\ r.pc \in Winning =>
       \A e \in EventsOf(m) \ EventsOf(l) : e.body.from # 0 => m[e.body.from].branch # r.branch

(***************************************************************************)
(* A position in a log is one in a longer log; what is new comes after it. *)
(***************************************************************************)
LEMMA GrownPositions ==
  ASSUME NEW l, NEW m, NEW s, NEW c, Grown(l, m, s, c)
  PROVE  /\ WellStored(l) /\ WellStored(m) /\ Len(l) \in Nat /\ Len(m) \in Nat
         /\ EventsOf(l) \subseteq EventsOf(m)
         /\ \A n \in 0..Len(l) : n \in 0..Len(m)
         /\ \A e \in EventsOf(m) \ EventsOf(l) : e.position \in Nat /\ e.position > Len(l)
         /\ \A e \in EventsOf(m) : e.position \in Nat
<1>1. /\ WellStored(l) /\ WellStored(m) /\ Len(l) \in Nat /\ Len(m) \in Nat /\ Len(l) <= Len(m)
      /\ EventsOf(l) \subseteq EventsOf(m)
      /\ \A e \in EventsOf(m) \ EventsOf(l) : e.position > Len(l)
  BY DEF Grown, Longer
<1>2. \A e \in EventsOf(m) : e.position \in Nat
  BY <1>1, LogOrdered
<1> QED
  BY <1>1, <1>2

(***************************************************************************)
(* The parts about the base, the writes and the plan stay.                 *)
(***************************************************************************)
LEMMA ReadsStay ==
  ASSUME NEW l, NEW m, NEW s, NEW c, Grown(l, m, s, c), NEW n, NEW r,
         Based(l, n, r), Writes(l, n, r), Reads(l, n, r)
  PROVE  Based(m, n, r) /\ Writes(m, n, r) /\ Reads(m, n, r)
<1>1. /\ Len(l) \in Nat
      /\ \A k \in 0..Len(l) : k \in 0..Len(m)
      /\ \A e \in EventsOf(m) \ EventsOf(l) : e.position \in Nat /\ e.position > Len(l)
  BY GrownPositions
<1>2. Based(m, n, r)
  BY <1>1 DEF Based
<1>3. Writes(m, n, r)
  <2>1. \A t, d : OwnEvents(l, t, d) # {} => OwnEvents(m, t, d) # {}
    BY GrownElsewhere
  <2>2. CASE r.pc = "append"
    <3>1. n \in 0..Len(l)
      BY <2>2 DEF Based
    <3>2. KeptTo(l, r.stream, n) => KeptTo(m, r.stream, n)
      BY <3>1, KeptStays
    <3> QED
      BY <2>1, <2>2, <3>2 DEF Writes
  <2> QED
    BY <2>1, <2>2 DEF Writes
<1>4. Reads(m, n, r)
  <2> SUFFICES ASSUME r.pc \in Planning PROVE Reads(m, n, r)
    BY DEF Reads
  <2>1. r.planned \in 0..Len(l) /\ r.planned \in 0..Len(m)
    BY <1>1 DEF Reads
  <2>2. Whole(l, r) => Whole(m, r)
    BY <1>1, <2>1 DEF Whole
  <2> QED
    BY <2>1, <2>2 DEF Reads
<1> QED
  BY <1>2, <1>3, <1>4

(***************************************************************************)
(* So do the parts about main's versions: where main went on, the pinned   *)
(* version is not main's any more.                                         *)
(***************************************************************************)
LEMMA JudgedStays ==
  ASSUME NEW l, NEW m, NEW s, NEW c, Grown(l, m, s, c), NEW n, NEW r,
         Pinned(l, r), Compared(l, n, r), Judged(l, n, r)
  PROVE  Pinned(m, r) /\ Compared(m, n, r) /\ Judged(m, n, r)
<1>1. /\ WellStored(l) /\ WellStored(m) /\ \A k \in 0..Len(l) : k \in 0..Len(m)
  BY GrownPositions
<1>2. \A t, d : /\ StreamVersion(l, t, d) \in Nat /\ StreamVersion(m, t, d) \in Nat
                /\ StreamVersion(l, t, d) <= StreamVersion(m, t, d)
  BY LongerKeeps DEF Grown, Longer
<1>3. Pinned(m, r)
  <2> SUFFICES ASSUME r.pc \in Planning, NEW t \in DOMAIN r.pins
               PROVE  r.pins[t] \in Nat /\ r.pins[t] <= StreamVersion(m, t, Main)
    BY DEF Pinned
  <2>1. r.pins[t] \in Nat /\ r.pins[t] <= StreamVersion(l, t, Main)
    BY DEF Pinned
  <2> QED
    BY <1>2, <2>1
<1>4. ASSUME r.pc \in Planning, r.pc # "pin", NEW t \in StreamsOf(r.replay),
             r.pins[t] = StreamVersion(m, t, Main)
      PROVE  /\ r.pins[t] = StreamVersion(l, t, Main)
             /\ MainSince(m, t, n) = MainSince(l, t, n)
  <2>1. r.pins[t] \in Nat /\ r.pins[t] <= StreamVersion(l, t, Main)
    BY <1>4 DEF Pinned
  <2>2. t # s \/ Main # c
    <3> SUFFICES ASSUME t = s, c = Main PROVE FALSE
      OBVIOUS
    <3>1. StreamVersion(m, t, Main) > StreamVersion(l, t, Main)
      BY DEF Grown
    <3>2. r.pins[t] > StreamVersion(l, t, Main)
      BY <1>4, <3>1
    <3> QED
      BY <1>2, <2>1, <3>2
  <2>3. /\ OwnEvents(m, t, Main) = OwnEvents(l, t, Main)
        /\ StreamVersion(m, t, Main) = StreamVersion(l, t, Main)
    BY <2>2, GrownElsewhere
  <2> QED
    BY <1>1, <1>4, <2>3, MainSinceSame
<1>5. Compared(m, n, r)
  BY <1>4 DEF Compared, Planning
<1>6. Judged(m, n, r)
  <2> SUFFICES ASSUME r.pc \in Verdict PROVE Judged(m, n, r)
    BY DEF Judged
  <2>1. r.judged \in 0..Len(l) /\ r.judged \in 0..Len(m)
    BY <1>1 DEF Judged
  <2>2. \A t \in StreamsOf(r.replay) : r.pins[t] = StreamVersion(m, t, Main) => Settled(m, n, r, t)
    BY <1>4 DEF Judged, Settled, Verdict, Planning
  <2>3. \A p : OwnEvents(l, p, Main) # {} => OwnEvents(m, p, Main) # {}
    BY GrownElsewhere
  <2>4. \A p : KeptTo(l, p, r.judged) => KeptTo(m, p, r.judged)
    BY <2>1, KeptStays
  <2> QED
    BY <2>1, <2>2, <2>3, <2>4 DEF Judged
<1> QED
  BY <1>3, <1>5, <1>6

(***************************************************************************)
(* What was promoted stays so.                                             *)
(***************************************************************************)
LEMMA PromotedStays ==
  ASSUME NEW l, NEW m, NEW s, NEW c, Grown(l, m, s, c), NEW n, NEW r, NEW t,
         r.judged \in 0..Len(l), Len(OnStream(r.replay, t)) \in Nat, Promoted(l, n, r, t)
  PROVE  Promoted(m, n, r, t)
<1>1. PICK own : own = OnStream(r.replay, t)
  OBVIOUS
<1>2. /\ Len(l) \in Nat /\ Len(m) \in Nat /\ Len(l) <= Len(m)
      /\ \A i \in 1..Len(l) : m[i] = l[i]
      /\ \A e \in EventsOf(m) \ EventsOf(l) : e.position \in Nat /\ e.position > Len(l)
  BY GrownPositions DEF Grown, Longer
<1>3. PICK k \in 0..Len(l) : r.judged <= k /\ CopiedAt(l, t, own, k)
  BY <1>1 DEF Promoted
<1>4. CopiedAt(m, t, own, k)
  <2>1. Len(own) \in Nat /\ k + Len(own) <= Len(l)
    BY <1>1, <1>3 DEF CopiedAt
  <2>2. ASSUME NEW i \in 1..Len(own) PROVE m[k + i] = l[k + i]
    <3>1. k + i \in 1..Len(l)
      BY <1>2, <2>1
    <3> QED
      BY <1>2, <3>1
  <2>3. k + Len(own) <= Len(m)
    BY <1>2, <2>1
  <2> QED
    BY <1>3, <2>2, <2>3 DEF CopiedAt
<1>5. k \in 0..Len(m)
  BY <1>2
<1>6. DeleteToo(m, t, n, r.judged, own)
  <2> SUFFICES ASSUME NEW d \in OwnEvents(m, t, Main), d.body.type = "Deleted",
                      n < d.position, d.position <= r.judged
               PROVE  \E i \in 1..Len(own) : own[i].body.type = "Deleted"
    BY DEF DeleteToo
  <2>1. d \in EventsOf(l)
    BY <1>2 DEF OwnEvents
  <2>2. d \in OwnEvents(l, t, Main)
    BY <2>1 DEF OwnEvents
  <2>3. DeleteToo(l, t, n, r.judged, own)
    BY <1>1 DEF Promoted
  <2> QED
    BY <2>2, <2>3 DEF DeleteToo
<1> QED
  BY <1>1, <1>3, <1>4, <1>5, <1>6 DEF Promoted

(***************************************************************************)
(* The parts about the replay stay, for a request that is apart from what  *)
(* is new.                                                                 *)
(***************************************************************************)
LEMMA PromotesStays ==
  ASSUME NEW l, NEW m, NEW s, NEW c, Grown(l, m, s, c), ReplaysFollow(l), NEW n, NEW r,
         Apart(l, m, s, c, r), Plans(l, r), Judged(l, n, r), Promotes(l, n, r)
  PROVE  Promotes(m, n, r)
<1>1. r.pc \in Winning => \A e \in ReplaysIn(m, r.branch) : m[e.body.from] \in EventsOf(r.replay)
  <2> SUFFICES ASSUME r.pc \in Winning, NEW e \in ReplaysIn(m, r.branch)
               PROVE  m[e.body.from] \in EventsOf(r.replay)
    OBVIOUS
  <2>1. e \in EventsOf(m) /\ e.body.from # 0 /\ m[e.body.from].branch = r.branch
    BY DEF ReplaysIn
  <2>2. e \in EventsOf(l)
    BY <2>1 DEF Apart
  <2>3. Longer(l, m)
    BY DEF Grown
  <2>4. m[e.body.from] = l[e.body.from]
    BY <2>1, <2>2, <2>3, OldReplays
  <2>5. e \in ReplaysIn(l, r.branch)
    BY <2>1, <2>2, <2>4 DEF ReplaysIn
  <2> QED
    BY <2>4, <2>5 DEF Promotes
<1>2. r.pc \in {"replay", "reappend"} =>
        \A t \in StreamsOf(r.replay) :
          ResolvedToMain(r.res, t) \/ t \in Items(r.todo) \/ Promoted(m, n, r, t)
  <2> SUFFICES ASSUME r.pc \in {"replay", "reappend"}, NEW t \in StreamsOf(r.replay),
                      Promoted(l, n, r, t)
               PROVE  Promoted(m, n, r, t)
    BY DEF Promotes
  <2>1. r.judged \in 0..Len(l)
    BY DEF Judged, Verdict
  <2>2. Len(OnStream(r.replay, t)) \in Nat
    <3>1. Len(r.replay) \in Nat
      BY DEF Plans, Planning
    <3> QED
      BY <3>1, OnlyInItems DEF OnStream
  <2> QED
    BY <2>1, <2>2, PromotedStays
<1>3. r.pc = "reappend" =>
        /\ r.todo # <<>>
        /\ r.pins[Head(r.todo)] = 0 => OwnEvents(m, Head(r.todo), Main) = {}
  <2> SUFFICES ASSUME r.pc = "reappend", r.pins[Head(r.todo)] = 0
               PROVE  OwnEvents(m, Head(r.todo), Main) = {}
    BY DEF Promotes
  <2>1. OwnEvents(l, Head(r.todo), Main) = {}
    BY DEF Promotes
  <2>2. Head(r.todo) # s \/ Main # c
    BY <2>1 DEF Apart
  <2> QED
    BY <2>1, <2>2, GrownElsewhere
<1> QED
  BY <1>1, <1>2, <1>3 DEF Promotes

(***************************************************************************)
(* Together: all that a request knows.                                     *)
(***************************************************************************)
LEMMA KnownStays ==
  ASSUME NEW l, NEW m, NEW s, NEW c, Grown(l, m, s, c), ReplaysFollow(l), NEW n, NEW r,
         Apart(l, m, s, c, r), Plans(l, r), Known(l, n, r)
  PROVE  Known(m, n, r)
<1>1. /\ Based(l, n, r) /\ Writes(l, n, r) /\ Reads(l, n, r) /\ Pinned(l, r)
      /\ Compared(l, n, r) /\ Judged(l, n, r) /\ Promotes(l, n, r)
  BY DEF Known
<1>2. Based(m, n, r) /\ Writes(m, n, r) /\ Reads(m, n, r)
  BY <1>1, ReadsStay
<1>3. Pinned(m, r) /\ Compared(m, n, r) /\ Judged(m, n, r)
  BY <1>1, JudgedStays
<1>4. Promotes(m, n, r)
  BY <1>1, PromotesStays
<1> QED
  BY <1>2, <1>3, <1>4 DEF Known


-----------------------------------------------------------------------------
(* One step at a time.                                                     *)

\* The slot x may become v.
MayBecome(q, x, v) ==
  v.pc = "created" =>
    x \in Creators /\ \A y \in Requests \ {x} : q[y].pc = "created" => q[y].branch # v.branch

(***************************************************************************)
(* The request of one slot goes on, the others know what they knew.        *)
(***************************************************************************)
LEMMA SlotKnows ==
  ASSUME NEW q, Slots(q), CreatorsApart(q), NEW l, NEW f, NEW x \in Requests,
         \A y \in Requests \ {x} : q[y].pc # "idle" => Known(l, f[q[y].branch], q[y]),
         NEW v, v.pc # "idle" => Known(l, f[v.branch], v), MayBecome(q, x, v),
         NEW p, p = [q EXCEPT ![x] = v]
  PROVE  Knows(l, f, p)
<1>1. p[x] = v /\ \A y \in Requests \ {x} : p[y] = q[y]
  BY DEF Slots
<1>2. CreatorsApart(p)
  <2>1. \A y \in Requests : p[y].pc = "created" => y \in Creators
    BY <1>1 DEF CreatorsApart, MayBecome
  <2>2. ASSUME NEW y \in Requests, NEW z \in Requests, p[y].pc = "created", p[z].pc = "created",
               p[y].branch = p[z].branch
        PROVE  y = z
    <3>1. CASE y = x
      BY <1>1, <2>2, <3>1 DEF MayBecome
    <3>2. CASE z = x
      BY <1>1, <2>2, <3>2 DEF MayBecome
    <3>3. CASE y # x /\ z # x
      BY <1>1, <2>2, <3>3 DEF CreatorsApart
    <3> QED
      BY <3>1, <3>2, <3>3
  <2> QED
    BY <2>1, <2>2 DEF CreatorsApart
<1>3. \A y \in Requests : p[y].pc # "idle" => Known(l, f[p[y].branch], p[y])
  <2> SUFFICES ASSUME NEW y \in Requests, p[y].pc # "idle"
               PROVE  Known(l, f[p[y].branch], p[y])
    OBVIOUS
  <2>1. CASE y = x
    <3>1. p[y] = v
      BY <1>1, <2>1
    <3> QED
      BY <3>1
  <2>2. CASE y # x
    <3>1. p[y] = q[y]
      BY <1>1, <2>2
    <3> QED
      BY <2>2, <3>1
  <2> QED
    BY <2>1, <2>2
<1> QED
  BY <1>2, <1>3 DEF Knows

(***************************************************************************)
(* Overlay rows still stand for an event when the log grows.               *)
(***************************************************************************)
LEMMA OverlaidStays ==
  ASSUME NEW l, NEW m, NEW s, NEW c, Grown(l, m, s, c), NEW w, Overlaid(l, w)
  PROVE  Overlaid(m, w)
<1>1. \A t, d : OwnEvents(l, t, d) \subseteq OwnEvents(m, t, d)
  BY GrownElsewhere
<1>2. \A b \in Branches, t \in Streams : w[b][t] # 0 => OwnEvents(m, t, b) # {}
  BY <1>1 DEF Overlaid
<1> QED
  BY <1>2 DEF Overlaid

(***************************************************************************)
(* A step that leaves the log and the bases.                               *)
(***************************************************************************)
LEMMA FactsSlot ==
  ASSUME NEW l, NEW q, Inv(l, q), NEW f, NEW g, NEW w, Facts(l, f, g, w, q),
         NEW x \in Requests, NEW v, v.pc # "idle" => Known(l, f[v.branch], v), MayBecome(q, x, v),
         NEW p, p = [q EXCEPT ![x] = v],
         NEW h, Registered(f, h), NEW u, Overlaid(l, u)
  PROVE  Facts(l, f, h, u, p)
<1>1. Slots(q) /\ LogFacts(l, f) /\ Knows(l, f, q)
  BY DEF Inv, Facts
<1>2. /\ CreatorsApart(q)
      /\ \A y \in Requests \ {x} : q[y].pc # "idle" => Known(l, f[q[y].branch], q[y])
  BY <1>1 DEF Knows
<1>3. Knows(l, f, p)
  BY <1>1, <1>2, SlotKnows
<1> QED
  BY <1>1, <1>3 DEF Facts

(***************************************************************************)
(* The other requests when the log grows.                                  *)
(***************************************************************************)
LEMMA OthersKnow ==
  ASSUME NEW l, NEW q, Inv(l, q), NEW f, Knows(l, f, q),
         NEW m, NEW s, NEW c, Grown(l, m, s, c),
         NEW y \in Requests, q[y].pc # "idle", Apart(l, m, s, c, q[y])
  PROVE  Known(m, f[q[y].branch], q[y])
<1>1. ReplaysFollow(l) /\ Plans(l, q[y])
  BY DEF Inv, LogInv, Agrees
<1>2. Known(l, f[q[y].branch], q[y])
  BY DEF Knows
<1> QED
  BY <1>1, <1>2, KnownStays

(***************************************************************************)
(* A step that appends and leaves the bases.                               *)
(***************************************************************************)
LEMMA FactsGrow ==
  ASSUME NEW l, NEW q, Inv(l, q), NEW f, NEW g, NEW w, Facts(l, f, g, w, q),
         NEW m, NEW s, NEW c, Grown(l, m, s, c), MayWrite(l, f, s, c),
         NEW x \in Requests, NEW v, v.pc # "idle" => Known(m, f[v.branch], v), v.pc # "created",
         \A y \in Requests \ {x} : q[y].pc # "idle" => Apart(l, m, s, c, q[y]),
         NEW p, p = [q EXCEPT ![x] = v]
  PROVE  Facts(m, f, g, w, p)
<1>1. Slots(q) /\ LogFacts(l, f) /\ Knows(l, f, q) /\ Registered(f, g) /\ Overlaid(l, w)
  BY DEF Inv, Facts
<1>2. \A y \in Requests \ {x} : q[y].pc # "idle" => Known(m, f[q[y].branch], q[y])
  BY <1>1, OthersKnow
<1>3. CreatorsApart(q) /\ MayBecome(q, x, v)
  BY <1>1 DEF Knows, MayBecome
<1>4. Knows(m, f, p)
  BY <1>1, <1>2, <1>3, SlotKnows
<1>5. LogFacts(m, f)
  BY <1>1, FactsKeep
<1>6. Overlaid(m, w)
  BY <1>1, OverlaidStays
<1> QED
  BY <1>1, <1>4, <1>5, <1>6 DEF Facts

(***************************************************************************)
(* A request without a plan, a write or a creation knows its branch's base.*)
(***************************************************************************)
LEMMA PlainKnown ==
  ASSUME NEW l, NEW n, n \in 0..Len(l), NEW r,
         r.pc \notin Planning \union {"append", "project", "created"}
  PROVE  Known(l, n, r)
<1>1. Based(l, n, r) /\ Writes(l, n, r)
  BY DEF Based, Writes
<1>2. Reads(l, n, r) /\ Pinned(l, r)
  BY DEF Reads, Pinned
<1>3. r.pc # "judge" /\ r.pc \notin Verdict /\ r.pc \notin Winning
  BY DEF Planning, Verdict, Winning
<1>4. Compared(l, n, r) /\ Judged(l, n, r) /\ Promotes(l, n, r)
  BY <1>3 DEF Compared, Judged, Promotes, Verdict
<1> QED
  BY <1>1, <1>2, <1>4 DEF Known

(***************************************************************************)
(* An active request's branch has a base.                                  *)
(***************************************************************************)
LEMMA BaseKnown ==
  ASSUME NEW l, NEW q, NEW f, Knows(l, f, q), NEW x \in Requests, q[x].pc \notin {"idle", "created"}
  PROVE  f[q[x].branch] \in 0..Len(l)
<1>1. Known(l, f[q[x].branch], q[x])
  BY DEF Knows
<1> QED
  BY <1>1 DEF Known, Based

(***************************************************************************)
(* A branch that reads active has one.                                     *)
(***************************************************************************)
LEMMA ActiveBase ==
  ASSUME NEW l, NEW f, LogFacts(l, f), NEW g, Registered(f, g), NEW b \in Branches, g[b] = "active"
  PROVE  f[b] \in 0..Len(l)
  BY NoBaseApart DEF LogFacts, Forks, Registered

(***************************************************************************)
(* A request that ends.                                                    *)
(***************************************************************************)
LEMMA ReturnFacts ==
  ASSUME NEW l, NEW q, Inv(l, q), NEW f, NEW g, NEW w, Facts(l, f, g, w, q),
         NEW x \in Requests, NEW p, p = [q EXCEPT ![x] = Idle],
         NEW h, Registered(f, h), NEW u, Overlaid(l, u)
  PROVE  Facts(l, f, h, u, p)
<1>1. PICK v : v = Idle
  OBVIOUS
<1>2. v.pc = "idle"
  BY <1>1 DEF Idle
<1>3. MayBecome(q, x, v)
  BY <1>2 DEF MayBecome
<1> QED
  BY <1>1, <1>2, <1>3, FactsSlot

(***************************************************************************)
(* A request that goes on to a plain step.                                 *)
(***************************************************************************)
LEMMA PlainFacts ==
  ASSUME NEW l, NEW q, Inv(l, q), NEW f, NEW g, NEW w, Facts(l, f, g, w, q),
         NEW x \in Requests, NEW v, v.pc \notin Planning \union {"append", "project", "created"},
         f[v.branch] \in 0..Len(l),
         NEW p, p = [q EXCEPT ![x] = v],
         NEW h, Registered(f, h), NEW u, Overlaid(l, u)
  PROVE  Facts(l, f, h, u, p)
<1>1. Known(l, f[v.branch], v)
  BY PlainKnown
<1>2. MayBecome(q, x, v)
  BY DEF MayBecome
<1> QED
  BY <1>1, <1>2, FactsSlot

\* A write of the program's own, not a replay.
Fresher(l, m) == \A e \in EventsOf(m) \ EventsOf(l) : e.body.from = 0

(***************************************************************************)
(* Such a write on a branch, or on main where main has the stream, leaves  *)
(* every request apart.                                                    *)
(***************************************************************************)
LEMMA FresherApart ==
  ASSUME NEW l, NEW m, Fresher(l, m), NEW s, NEW c,
         c = Main => OwnEvents(l, s, Main) # {}, NEW r
  PROVE  Apart(l, m, s, c, r)
  BY DEF Apart, Fresher

(***************************************************************************)
(* One such write.                                                         *)
(***************************************************************************)
LEMMA WriteFresher ==
  ASSUME NEW l, WellStored(l), NEW s, NEW c, NEW cur \in Nat, NEW body,
         NEW m, GrowsBy(l, m, s, c, cur, <<Payload(body, 0)>>)
  PROVE  Fresher(l, m)
<1>1. PICK batch : batch = <<Payload(body, 0)>>
  OBVIOUS
<1>2. Payload(body, 0).from = 0 /\ "from" \in DOMAIN Payload(body, 0)
  BY PayloadSays
<1>3. Len(batch) = 1 /\ batch[1] = Payload(body, 0)
  BY <1>1
<1>4. IsBatch(batch)
  BY <1>2, <1>3 DEF IsBatch
<1>5. GrowsBy(l, m, s, c, cur, batch)
  BY <1>1
<1>6. EventsOf(m) = EventsOf(l) \union StoredEvents(l, s, c, cur, batch)
  BY <1>4, <1>5, Appended
<1>7. \A e \in StoredEvents(l, s, c, cur, batch) : e.body = Payload(body, 0)
  <2> SUFFICES ASSUME NEW k \in 1..Len(batch)
               PROVE  StoredAt(l, s, c, cur, batch, k).body = Payload(body, 0)
    BY DEF StoredEvents
  <2>1. k = 1
    BY <1>3
  <2> QED
    BY <1>3, <2>1 DEF StoredAt
<1> QED
  BY <1>2, <1>6, <1>7 DEF Fresher

-----------------------------------------------------------------------------
(* Steps without a plan.                                                   *)

(***************************************************************************)
(* A request that moves on without a plan.                                 *)
(***************************************************************************)
LEMMA GotoFacts ==
  ASSUME Inv(log, req), Facts(log, base, registry, rows, req), NEW x \in Requests, NEW pc,
         pc \notin Planning \union {"idle", "append", "project", "created"},
         req[x].pc \notin {"idle", "created"}, Goto(x, pc),
         NEW h, Registered(base, h), NEW u, Overlaid(log, u)
  PROVE  Facts(log, base, h, u, req')
<1>1. Slots(req) /\ Carries(req[x]) /\ Knows(log, base, req)
  BY DEF Inv, Slots, Facts
<1>2. PICK v : Moved(req[x], v, pc) /\ req' = [req EXCEPT ![x] = v]
  BY <1>1, GotoMoves
<1>3. v.pc = pc /\ v.branch = req[x].branch
  BY <1>1, <1>2, MovedSays
<1>4. base[v.branch] \in 0..Len(log)
  BY <1>1, <1>3, BaseKnown
<1> QED
  BY <1>2, <1>3, <1>4, PlainFacts

(***************************************************************************)
(* A request that ends, whatever it leaves in the registry and the rows.   *)
(***************************************************************************)
LEMMA EndFacts ==
  ASSUME Inv(log, req), Facts(log, base, registry, rows, req), NEW x \in Requests, Return(x),
         NEW h, Registered(base, h), NEW u, Overlaid(log, u)
  PROVE  Facts(log, base, h, u, req')
  BY ReturnFacts DEF Return

(***************************************************************************)
(* CreateBranch: the base that its BranchCreated brings.                   *)
(***************************************************************************)
LEMMA AppendCreatedKeeps ==
  ASSUME IInv, KInv, NEW c \in Creators, AppendCreated(c)
  PROVE  KInv'
<1>1. /\ Inv(log, req) /\ Slots(req) /\ WellStored(log) /\ Len(log) \in Nat
      /\ LogFacts(log, base) /\ Registered(base, registry) /\ Overlaid(log, rows)
      /\ Knows(log, base, req) /\ CreatorsApart(req) /\ c \in Requests
  BY LogOrdered DEF IInv, KInv, Facts, Inv, LogInv, Knows, Requests
<1>2. PICK b : b = req[c].branch
  OBVIOUS
<1>3. req[c].pc = "created" /\ Carries(req[c]) /\ b \in Branches
  BY <1>1, <1>2 DEF AppendCreated, Slots, Carries
<1>4. Based(log, base[b], req[c])
  BY <1>1, <1>2, <1>3 DEF Knows, Known
<1>5. base[b] = NoBase /\ req[c].head \in 0..Len(log)
  BY <1>3, <1>4 DEF Based
<1>6. base' = [base EXCEPT ![b] = req[c].head]
  BY <1>2 DEF AppendCreated
<1>7. LogFacts(log, base')
  BY <1>1, <1>3, <1>5, <1>6, ForkMade
<1>8. Grown(log, log', b, b) /\ Fresher(log, log')
  <2>1. PICK body : body = Lifecycle("BranchCreated")
    OBVIOUS
  <2>2. "type" \in DOMAIN body
    BY <2>1 DEF Lifecycle
  <2>3. GrowsBy(log, log', b, b, 0, <<Payload(body, 0)>>)
    BY <1>2, <2>1 DEF AppendCreated, GrowsBy
  <2>4. b # Main
    BY <1>3, BranchesApart
  <2>5. Grown(log, log', b, b)
    BY <1>1, <1>3, <2>2, <2>3, <2>4, WriteGrows
  <2> QED
    BY <1>1, <2>3, <2>5, WriteFresher
<1>9. MayWrite(log, base', b, b) /\ b # Main
  BY <1>3, BranchesApart DEF MayWrite
<1>10. ASSUME NEW y \in Requests \ {c}, req[y].pc # "idle"
       PROVE  base'[req[y].branch] = base[req[y].branch]
  <2>1. req[y].branch \in Branches /\ Known(log, base[req[y].branch], req[y])
    BY <1>1, <1>10 DEF Slots, Carries, Knows
  <2>2. req[y].branch # b
    <3>1. CASE req[y].pc = "created"
      BY <1>1, <1>2, <1>3, <1>10, <3>1 DEF CreatorsApart
    <3>2. CASE req[y].pc # "created"
      <4>1. base[req[y].branch] \in Nat
        BY <1>1, <1>10, <2>1, <3>2 DEF Known, Based
      <4> QED
        BY <1>5, <4>1, NoBaseApart
    <3> QED
      BY <3>1, <3>2
  <2> QED
    BY <1>1, <1>6, <2>1, <2>2 DEF LogFacts, Forks
<1>11. base'[b] = req[c].head /\ \A t \in Branches \ {b} : base'[t] = base[t]
  BY <1>1, <1>3, <1>6 DEF LogFacts, Forks
<1>12. Registered(base', registry)
  BY <1>1, <1>5, <1>11 DEF Registered
<1>13. ASSUME NEW y \in Requests \ {c}, req[y].pc # "idle"
       PROVE  Known(log', base'[req[y].branch], req[y])
  <2>1. Apart(log, log', b, b, req[y])
    BY <1>8, <1>9, FresherApart
  <2>2. Known(log', base[req[y].branch], req[y])
    BY <1>1, <1>8, <1>13, <2>1, OthersKnow
  <2> QED
    BY <1>10, <1>13, <2>2
<1>14. PICK v : Moved(req[c], v, "register") /\ req' = [req EXCEPT ![c] = v]
  BY <1>1, GotoMoves DEF AppendCreated
<1>15. v.pc = "register" /\ v.branch = b
  BY <1>1, <1>2, <1>3, <1>14, MovedSays
<1>16. Known(log', base'[v.branch], v)
  <2>1. base'[v.branch] \in 0..Len(log')
    BY <1>5, <1>8, <1>11, <1>15, GrownPositions
  <2> QED
    BY <1>15, <2>1, PlainKnown DEF Planning
<1>17. MayBecome(req, c, v)
  BY <1>15 DEF MayBecome
<1>18. Knows(log', base', req')
  BY <1>1, <1>13, <1>14, <1>16, <1>17, SlotKnows
<1>19. LogFacts(log', base')
  BY <1>7, <1>8, <1>9, FactsKeep
<1>20. Overlaid(log', rows) /\ registry' = registry /\ rows' = rows
  BY <1>1, <1>8, OverlaidStays DEF AppendCreated
<1> QED
  BY <1>12, <1>18, <1>19, <1>20 DEF KInv, Facts

(***************************************************************************)
(* The steps of CreateBranch.                                              *)
(***************************************************************************)
LEMMA CreateKeeps ==
  ASSUME IInv, KInv, NEW c \in Creators,
         AppendCreated(c) \/ RegisterBranch(c) \/ \E b \in Branches : BeginCreate(c, b)
  PROVE  KInv'
<1>1. /\ Inv(log, req) /\ Facts(log, base, registry, rows, req) /\ c \in Requests
      /\ Slots(req) /\ WellStored(log) /\ Len(log) \in Nat
      /\ Registered(base, registry) /\ Overlaid(log, rows) /\ Knows(log, base, req)
  BY LogOrdered DEF IInv, KInv, Facts, Inv, LogInv, Requests
<1>2. CASE AppendCreated(c)
  BY <1>2, AppendCreatedKeeps
<1>3. CASE RegisterBranch(c)
  <2>1. /\ req[c].pc = "register" /\ Return(c) /\ UNCHANGED <<log, base, rows>>
        /\ registry' = [registry EXCEPT ![req[c].branch] = "active"]
    BY <1>3 DEF RegisterBranch
  <2>2. req[c].branch \in Branches /\ base[req[c].branch] \in Nat
    BY <1>1, <2>1, BaseKnown DEF Slots, Carries
  <2>3. Registered(base, registry')
    BY <1>1, <2>1, <2>2 DEF Registered
  <2>4. Facts(log, base, registry', rows, req')
    BY <1>1, <2>1, <2>3, EndFacts
  <2> QED
    BY <2>1, <2>4 DEF KInv
<1>4. CASE \E b \in Branches : BeginCreate(c, b)
  <2>1. PICK b \in Branches : BeginCreate(c, b)
    BY <1>4
  <2>2. PICK v : v = [pc |-> "created", branch |-> b, head |-> Len(log)]
    OBVIOUS
  <2>3. /\ req' = [req EXCEPT ![c] = v] /\ UNCHANGED <<log, base, registry, rows>>
        /\ base[b] = NoBase
        /\ \A d \in Creators : req[d] # Idle => req[d].branch # b
    BY <2>1, <2>2 DEF BeginCreate
  <2>4. v.pc = "created" /\ v.branch = b /\ v.head = Len(log) /\ "head" \in DOMAIN v
    BY <2>2
  <2>5. Known(log, base[v.branch], v)
    <3>1. Based(log, base[v.branch], v) /\ Writes(log, base[v.branch], v)
      BY <1>1, <2>3, <2>4 DEF Based, Writes
    <3> QED
      BY <2>4, <3>1
      DEF Known, Reads, Pinned, Compared, Judged, Promotes, Planning, Verdict, Winning
  <2>6. MayBecome(req, c, v)
    <3> SUFFICES ASSUME NEW y \in Requests \ {c}, req[y].pc = "created"
                 PROVE  req[y].branch # b
      BY <2>4 DEF MayBecome
    <3>1. y \in Creators
      BY <1>1 DEF Knows, CreatorsApart
    <3>2. req[y] # Idle
      BY DEF Idle
    <3> QED
      BY <2>3, <3>1, <3>2
  <2>7. Facts(log, base, registry, rows, req')
    BY <1>1, <2>3, <2>5, <2>6, FactsSlot
  <2> QED
    BY <2>3, <2>7 DEF KInv
<1> QED
  BY <1>2, <1>3, <1>4

(***************************************************************************)
(* A mainline write: a merge that is about to put a new stream on main has *)
(* events on it, so it is not new, and main does not have it.              *)
(***************************************************************************)
LEMMA MainKeeps ==
  ASSUME IInv, KInv, NEW s \in Streams, MainWrite(s)
  PROVE  KInv'
<1>1. /\ Inv(log, req) /\ Facts(log, base, registry, rows, req)
      /\ Slots(req) /\ WellStored(log) /\ Len(log) \in Nat
      /\ LogFacts(log, base) /\ Registered(base, registry) /\ Overlaid(log, rows)
      /\ Knows(log, base, req)
  BY LogOrdered DEF IInv, KInv, Facts, Inv, LogInv
<1>2. UNCHANGED <<base, registry, rows, req>>
  BY DEF MainWrite
<1>3. PICK body, expected :
        /\ AppendTo(s, Main, <<Payload(body, 0)>>, expected)
        /\ body \in Births[s] \/ body \in MainEdits[s]
        /\ (\A e \in EventsOf(log) : e.stream # s) \/ MainHas(s)
  BY DEF MainWrite
<1>4. "type" \in DOMAIN body
  BY <1>3, BodiesTyped
<1>5. Current(s, Main) \in Nat /\ GrowsBy(log, log', s, Main, Current(s, Main), <<Payload(body, 0)>>)
  BY <1>1, <1>3, AppendGrows
<1>6. StreamVersion(log, s, Main) <= Current(s, Main)
  BY <1>1, Continues DEF Current
<1>7. Grown(log, log', s, Main) /\ Fresher(log, log')
  BY <1>1, <1>4, <1>5, <1>6, WriteGrows, WriteFresher
<1>8. MayWrite(log, base, s, Main)
  BY BranchesApart DEF MayWrite
<1>9. ASSUME NEW y \in Requests, req[y].pc # "idle"
      PROVE  Apart(log, log', s, Main, req[y])
  <2>1. ASSUME req[y].pc = "reappend", s = Head(req[y].todo)
        PROVE  OwnEvents(log, s, Main) # {}
    <3>1. Known(log, base[req[y].branch], req[y]) /\ Plans(log, req[y])
      BY <1>1, <1>9 DEF Knows, Inv, Agrees
    <3>2. req[y].todo \in Seq(StreamsOf(req[y].replay)) /\ req[y].todo # <<>>
      BY <2>1, <3>1 DEF Known, Pinned, Promotes, Planning
    <3>3. s \in StreamsOf(req[y].replay)
      BY <2>1, <3>2
    <3>4. IsLog(req[y].replay) /\ \A e \in EventsOf(req[y].replay) : e \in EventsOf(log)
      BY <2>1, <3>1 DEF Plans, Planning
    <3>5. \E e \in EventsOf(log) : e.stream = s
      BY <3>3, <3>4, StreamsOfLog
    <3> QED
      BY <1>3, <3>5 DEF MainHas
  <2> QED
    BY <1>7, <2>1 DEF Apart, Fresher
<1>10. \A y \in Requests : req[y].pc # "idle" => Known(log', base[req[y].branch], req[y])
  BY <1>1, <1>7, <1>9, OthersKnow
<1>11. Knows(log', base, req)
  BY <1>1, <1>10 DEF Knows
<1>12. LogFacts(log', base) /\ Overlaid(log', rows)
  BY <1>1, <1>7, <1>8, FactsKeep, OverlaidStays
<1> QED
  BY <1>1, <1>2, <1>11, <1>12 DEF KInv, Facts

(***************************************************************************)
(* What a branch sees was written, by main or by the branch, and main had  *)
(* not deleted it when the branch was opened.                              *)
(***************************************************************************)
LEMMA SeenWasWritten ==
  ASSUME LogFacts(log, base), Overlaid(log, rows), WellStored(log),
         NEW b \in Branches, base[b] \in 0..Len(log), NEW s \in Streams, BranchSees(b, s)
  PROVE  /\ OwnEvents(log, s, Main) # {} \/ OwnEvents(log, s, b) # {}
         /\ KeptTo(log, s, base[b])
<1>1. CASE rows[b][s] = 0
  <2>1. MainHas(s)
    BY <1>1 DEF BranchSees
  <2> QED
    BY <2>1 DEF MainHas, KeptTo
<1>2. CASE rows[b][s] # 0
  <2>1. PICK e \in OwnEvents(log, s, b) : TRUE
    BY <1>2 DEF Overlaid
  <2>2. e \in EventsOf(log) /\ e.stream = s /\ e.branch = b
    BY <2>1 DEF OwnEvents
  <2>3. KeptTo(log, s, base[b])
    BY <2>2 DEF LogFacts, AfterFork
  <2> QED
    BY <2>1, <2>3
<1> QED
  BY <1>1, <1>2

(***************************************************************************)
(* The append of a branch write.                                           *)
(***************************************************************************)
LEMMA AppendEditKeeps ==
  ASSUME IInv, KInv, NEW e \in Editors, AppendEdit(e)
  PROVE  KInv'
<1>1. /\ Inv(log, req) /\ Facts(log, base, registry, rows, req)
      /\ Slots(req) /\ WellStored(log) /\ Len(log) \in Nat /\ Knows(log, base, req)
      /\ e \in Requests /\ Carries(req[e])
  BY LogOrdered DEF IInv, KInv, Facts, Inv, LogInv, Requests, Slots
<1>2. PICK s, b, body : s = req[e].stream /\ b = req[e].branch /\ body = req[e].body
  OBVIOUS
<1>3. /\ req[e].pc = "append" /\ s \in Streams /\ b \in Branches
      /\ body.type = "Created" => \A ev \in EventsOf(log) : ev.stream # s
      /\ AppendTo(s, b, <<Payload(body, 0)>>, req[e].expected)
      /\ UNCHANGED <<base, registry, rows>>
  BY <1>1, <1>2 DEF AppendEdit, Carries
<1>4. Known(log, base[b], req[e]) /\ base[b] \in 0..Len(log)
  BY <1>1, <1>2, <1>3, BaseKnown DEF Knows
<1>5. /\ "type" \in DOMAIN body
      /\ \/ body.type = "Created"
         \/ /\ OwnEvents(log, s, Main) # {} \/ OwnEvents(log, s, b) # {}
            /\ KeptTo(log, s, base[b])
  BY <1>2, <1>3, <1>4 DEF Known, Writes
<1>6. MayWrite(log, base, s, b)
  <2>1. CASE body.type = "Created"
    <3>1. OwnEvents(log, s, Main) = {}
      BY <1>3, <2>1 DEF OwnEvents
    <3> QED
      BY <1>1, <1>3, <1>4, <2>1, <3>1 DEF MayWrite, KeptTo
  <2>2. CASE body.type # "Created"
    BY <1>1, <1>4, <1>5, <2>2 DEF MayWrite
  <2> QED
    BY <2>1, <2>2
<1>7. Current(s, b) \in Nat /\ GrowsBy(log, log', s, b, Current(s, b), <<Payload(body, 0)>>)
  BY <1>1, <1>3, AppendGrows
<1>8. b # Main
  BY <1>3, BranchesApart
<1>9. Grown(log, log', s, b) /\ Fresher(log, log')
  BY <1>1, <1>3, <1>5, <1>7, <1>8, WriteGrows, WriteFresher
<1>10. PICK row : req' = [req EXCEPT ![e] = [pc |-> "project", branch |-> b, stream |-> s, row |-> row]]
  BY <1>2 DEF AppendEdit
<1>11. PICK v : v = [pc |-> "project", branch |-> b, stream |-> s, row |-> row]
  OBVIOUS
<1>12. v.pc = "project" /\ v.branch = b /\ v.stream = s /\ req' = [req EXCEPT ![e] = v]
  BY <1>10, <1>11
<1>13. Known(log', base[v.branch], v)
  <2>1. Based(log', base[v.branch], v)
    BY <1>4, <1>9, <1>12, GrownPositions DEF Based
  <2>2. Writes(log', base[v.branch], v)
    BY <1>3, <1>9, <1>12, GrownElsewhere DEF Writes
  <2> QED
    BY <1>12, <2>1, <2>2
    DEF Known, Reads, Pinned, Compared, Judged, Promotes, Planning, Verdict, Winning
<1>14. \A y \in Requests \ {e} : req[y].pc # "idle" => Apart(log, log', s, b, req[y])
  BY <1>8, <1>9, FresherApart
<1>15. Facts(log', base, registry, rows, req')
  BY <1>1, <1>6, <1>9, <1>12, <1>13, <1>14, FactsGrow
<1> QED
  BY <1>3, <1>15 DEF KInv

(***************************************************************************)
(* The steps of a write on a branch.                                       *)
(***************************************************************************)
LEMMA EditKeeps ==
  ASSUME IInv, KInv, NEW e \in Editors,
         \/ \E b \in Branches : BeginEdit(e, b)
         \/ \E s \in Streams : LoadRow(e, s) \/ NewAggregate(e, s)
         \/ AppendEdit(e) \/ RefuseEdit(e) \/ ProjectEdit(e)
  PROVE  KInv'
<1>1. /\ Inv(log, req) /\ Facts(log, base, registry, rows, req)
      /\ Slots(req) /\ WellStored(log) /\ Len(log) \in Nat /\ Knows(log, base, req)
      /\ LogFacts(log, base) /\ Registered(base, registry) /\ Overlaid(log, rows)
      /\ e \in Requests /\ Carries(req[e])
  BY LogOrdered DEF IInv, KInv, Facts, Inv, LogInv, Requests, Slots
<1>2. CASE \E b \in Branches : BeginEdit(e, b)
  <2>1. PICK b \in Branches : BeginEdit(e, b)
    BY <1>2
  <2>2. PICK v : v = [pc |-> "load", branch |-> b]
    OBVIOUS
  <2>3. /\ req' = [req EXCEPT ![e] = v] /\ registry[b] = "active"
        /\ UNCHANGED <<log, base, registry, rows>>
    BY <2>1, <2>2 DEF BeginEdit
  <2>4. v.pc = "load" /\ base[v.branch] \in 0..Len(log)
    BY <1>1, <2>2, <2>3, ActiveBase
  <2>5. Facts(log, base, registry, rows, req')
    BY <1>1, <2>3, <2>4, PlainFacts DEF Planning
  <2> QED
    BY <2>3, <2>5 DEF KInv
<1>3. CASE \E s \in Streams : LoadRow(e, s) \/ NewAggregate(e, s)
  <2>1. PICK s \in Streams : LoadRow(e, s) \/ NewAggregate(e, s)
    BY <1>3
  <2>2. PICK b : b = req[e].branch
    OBVIOUS
  <2>3. req[e].pc = "load" /\ UNCHANGED <<log, base, registry, rows>>
    BY <2>1 DEF LoadRow, NewAggregate
  <2>4. b \in Branches /\ base[b] \in 0..Len(log)
    BY <1>1, <2>2, <2>3, BaseKnown DEF Carries
  <2>5. PICK body, expected :
          /\ req' = [req EXCEPT ![e] = [pc |-> "append", branch |-> b, stream |-> s,
                                        body |-> body, expected |-> expected]]
          /\ body \in Births[s] \/ (body \in BranchEdits[s] /\ BranchSees(b, s))
    BY <2>1, <2>2 DEF LoadRow, NewAggregate
  <2>6. PICK v : v = [pc |-> "append", branch |-> b, stream |-> s,
                      body |-> body, expected |-> expected]
    OBVIOUS
  <2>7. /\ v.pc = "append" /\ v.branch = b /\ v.stream = s /\ v.body = body
        /\ req' = [req EXCEPT ![e] = v]
    BY <2>5, <2>6
  <2>8. Based(log, base[b], v)
    BY <2>4, <2>7 DEF Based
  <2>9. "type" \in DOMAIN body
    BY <2>5, BodiesTyped
  <2>10. \/ body.type = "Created"
         \/ /\ OwnEvents(log, s, Main) # {} \/ OwnEvents(log, s, b) # {}
            /\ KeptTo(log, s, base[b])
    BY <1>1, <2>4, <2>5, SeenWasWritten, BodiesTyped
  <2>11. Writes(log, base[b], v)
    BY <2>7, <2>9, <2>10 DEF Writes
  <2>12. Known(log, base[v.branch], v)
    BY <2>7, <2>8, <2>11
    DEF Known, Reads, Pinned, Compared, Judged, Promotes, Planning, Verdict, Winning
  <2>13. MayBecome(req, e, v)
    BY <2>7 DEF MayBecome
  <2>14. Facts(log, base, registry, rows, req')
    BY <1>1, <2>7, <2>12, <2>13, FactsSlot
  <2> QED
    BY <2>3, <2>14 DEF KInv
<1>4. CASE AppendEdit(e)
  BY <1>4, AppendEditKeeps
<1>5. CASE RefuseEdit(e)
  <2>1. Return(e) /\ UNCHANGED <<log, base, registry, rows>>
    BY <1>5 DEF RefuseEdit
  <2>2. Facts(log, base, registry, rows, req')
    BY <1>1, <2>1, EndFacts
  <2> QED
    BY <2>1, <2>2 DEF KInv
<1>6. CASE ProjectEdit(e)
  <2>1. PICK s, b : s = req[e].stream /\ b = req[e].branch
    OBVIOUS
  <2>2. /\ req[e].pc = "project" /\ Return(e) /\ UNCHANGED <<log, base, registry>>
        /\ rows' = [rows EXCEPT ![b][s] = req[e].row]
    BY <1>6, <2>1 DEF ProjectEdit
  <2>3. Known(log, base[b], req[e])
    BY <1>1, <2>1, <2>2 DEF Knows
  <2>4. s \in Streams /\ b \in Branches /\ OwnEvents(log, s, b) # {}
    BY <1>1, <2>1, <2>2, <2>3 DEF Known, Writes, Carries
  <2>5. Overlaid(log, rows')
    BY <1>1, <2>2, <2>4 DEF Overlaid
  <2>6. Facts(log, base, registry, rows', req')
    BY <1>1, <2>2, <2>5, EndFacts
  <2> QED
    BY <2>2, <2>6 DEF KInv
<1> QED
  BY <1>2, <1>3, <1>4, <1>5, <1>6

(***************************************************************************)
(* A branch without overlay rows has none to stand for anything.           *)
(***************************************************************************)
LEMMA PurgedRows ==
  ASSUME Overlaid(log, rows), NEW b \in Branches, Purged(b)
  PROVE  Overlaid(log, rows')
<1>1. rows' = [rows EXCEPT ![b] = [s \in Streams |-> 0]]
  BY DEF Purged
<1> QED
  BY <1>1 DEF Overlaid

(***************************************************************************)
(* The append of a lifecycle event to a branch's own stream.               *)
(***************************************************************************)
LEMMA LifecycleGrows ==
  ASSUME WellStored(log), NEW b \in Branches, NEW type, NEW expected,
         AppendTo(b, b, <<Payload(Lifecycle(type), 0)>>, expected)
  PROVE  /\ Grown(log, log', b, b) /\ Fresher(log, log') /\ MayWrite(log, base, b, b)
         /\ \A r : Apart(log, log', b, b, r)
<1>1. PICK body : body = Lifecycle(type)
  OBVIOUS
<1>2. "type" \in DOMAIN body
  BY <1>1 DEF Lifecycle
<1>3. Current(b, b) \in Nat /\ GrowsBy(log, log', b, b, Current(b, b), <<Payload(body, 0)>>)
  BY <1>1, AppendGrows
<1>4. b # Main /\ b \notin Streams
  BY BranchesApart
<1>5. Grown(log, log', b, b) /\ Fresher(log, log')
  BY <1>2, <1>3, <1>4, WriteGrows, WriteFresher
<1>6. MayWrite(log, base, b, b)
  BY <1>4 DEF MayWrite
<1> QED
  BY <1>4, <1>5, <1>6, FresherApart

(***************************************************************************)
(* The steps of DeleteBranch.                                              *)
(***************************************************************************)
LEMMA DeleteKeeps ==
  ASSUME IInv, KInv, NEW d \in Deleters,
         \/ \E b \in Branches : BeginDelete(d, b)
         \/ ReadDeleteVersion(d) \/ AppendDelete(d) \/ Archive(d) \/ DropOverlay(d)
  PROVE  KInv'
<1>1. /\ Inv(log, req) /\ Facts(log, base, registry, rows, req)
      /\ Slots(req) /\ WellStored(log) /\ Len(log) \in Nat /\ Knows(log, base, req)
      /\ LogFacts(log, base) /\ Registered(base, registry) /\ Overlaid(log, rows)
      /\ d \in Requests /\ Carries(req[d])
  BY LogOrdered DEF IInv, KInv, Facts, Inv, LogInv, Requests, Slots
<1>2. PICK t : t = req[d].branch
  OBVIOUS
<1>3. req[d].pc \notin {"idle", "created"} => t \in Branches /\ base[t] \in 0..Len(log)
  BY <1>1, <1>2, BaseKnown DEF Carries
<1>4. CASE \E b \in Branches : BeginDelete(d, b)
  <2>1. PICK b \in Branches : BeginDelete(d, b)
    BY <1>4
  <2>2. PICK v : v = [pc |-> "version", branch |-> b]
    OBVIOUS
  <2>3. /\ req' = [req EXCEPT ![d] = v] /\ registry[b] = "active"
        /\ UNCHANGED <<log, base, registry, rows>>
    BY <2>1, <2>2 DEF BeginDelete
  <2>4. v.pc = "version" /\ base[v.branch] \in 0..Len(log)
    BY <1>1, <2>2, <2>3, ActiveBase
  <2>5. Facts(log, base, registry, rows, req')
    BY <1>1, <2>3, <2>4, PlainFacts DEF Planning
  <2> QED
    BY <2>3, <2>5 DEF KInv
<1>5. CASE ReadDeleteVersion(d)
  <2>1. PICK v : v = [pc |-> "delete", branch |-> t, version |-> StreamVersion(log, t, t)]
    OBVIOUS
  <2>2. /\ req[d].pc = "version" /\ req' = [req EXCEPT ![d] = v]
        /\ UNCHANGED <<log, base, registry, rows>>
    BY <1>2, <1>5, <2>1 DEF ReadDeleteVersion
  <2>3. v.pc = "delete" /\ base[v.branch] \in 0..Len(log)
    BY <1>3, <2>1, <2>2
  <2>4. Facts(log, base, registry, rows, req')
    BY <1>1, <2>2, <2>3, PlainFacts DEF Planning
  <2> QED
    BY <2>2, <2>4 DEF KInv
<1>6. CASE AppendDelete(d)
  <2>1. req[d].pc = "delete" /\ UNCHANGED <<base, registry, rows>>
    BY <1>6 DEF AppendDelete
  <2>2. CASE Return(d) /\ UNCHANGED log
    <3>1. Facts(log, base, registry, rows, req')
      BY <1>1, <2>2, EndFacts
    <3> QED
      BY <2>1, <2>2, <3>1 DEF KInv
  <2>3. CASE /\ AppendTo(t, t, <<Payload(Lifecycle("BranchDeleted"), 0)>>, req[d].version)
             /\ Goto(d, "archive")
    <3>1. t \in Branches /\ base[t] \in 0..Len(log)
      BY <1>3, <2>1
    <3>2. /\ Grown(log, log', t, t) /\ MayWrite(log, base, t, t)
          /\ \A r : Apart(log, log', t, t, r)
      BY <1>1, <2>3, <3>1, LifecycleGrows
    <3>3. PICK v : Moved(req[d], v, "archive") /\ req' = [req EXCEPT ![d] = v]
      BY <1>1, <2>3, GotoMoves
    <3>4. v.pc = "archive" /\ v.branch = t
      BY <1>1, <1>2, <2>1, <3>3, MovedSays
    <3>5. base[v.branch] \in 0..Len(log')
      BY <3>1, <3>2, <3>4, GrownPositions
    <3>6. Known(log', base[v.branch], v)
      BY <3>4, <3>5, PlainKnown DEF Planning
    <3>7. Facts(log', base, registry, rows, req')
      BY <1>1, <3>2, <3>3, <3>4, <3>6, FactsGrow
    <3> QED
      BY <2>1, <3>7 DEF KInv
  <2> QED
    BY <1>2, <1>6, <2>2, <2>3 DEF AppendDelete
<1>7. CASE Archive(d)
  <2>1. /\ req[d].pc = "archive" /\ Goto(d, "drop") /\ UNCHANGED <<log, base, rows>>
        /\ registry' = [registry EXCEPT ![t] = "archived"]
    BY <1>2, <1>7 DEF Archive
  <2>2. Registered(base, registry')
    BY <1>1, <1>3, <2>1 DEF Registered
  <2>3. Facts(log, base, registry', rows, req')
    BY <1>1, <2>1, <2>2, GotoFacts DEF Planning
  <2> QED
    BY <2>1, <2>3 DEF KInv
<1>8. CASE DropOverlay(d)
  <2>1. req[d].pc = "drop" /\ Purged(t) /\ Return(d) /\ UNCHANGED <<log, base, registry>>
    BY <1>2, <1>8 DEF DropOverlay
  <2>2. Overlaid(log, rows')
    BY <1>1, <1>3, <2>1, PurgedRows
  <2>3. Facts(log, base, registry, rows', req')
    BY <1>1, <2>1, <2>2, EndFacts
  <2> QED
    BY <2>1, <2>3 DEF KInv
<1> QED
  BY <1>4, <1>5, <1>6, <1>7, <1>8

-----------------------------------------------------------------------------
(* A merge: the plan.                                                      *)

(***************************************************************************)
(* A page that is not full is the whole.                                   *)
(***************************************************************************)
LEMMA CappedWhole ==
  ASSUME NEW seq, Placed(seq), ~ Truncated(Capped(seq, EventCap))
  PROVE  Capped(seq, EventCap) = seq
<1>1. EventCap \in Nat /\ EventCap >= 1 /\ Len(seq) \in Nat /\ IsLog(seq)
  BY CapIsPositive DEF Placed
<1>2. CASE Len(seq) <= EventCap
  BY <1>1, <1>2 DEF Capped
<1>3. CASE Len(seq) > EventCap
  <2>1. Capped(seq, EventCap) = SubSeq(seq, 1, EventCap)
    BY <1>1, <1>3 DEF Capped
  <2>2. Len(SubSeq(seq, 1, EventCap)) = EventCap
    BY <1>1, <1>3 DEF IsLog
  <2> QED
    BY <1>1, <2>1, <2>2 DEF Truncated
<1> QED
  BY <1>1, <1>2, <1>3

(***************************************************************************)
(* A branch's planned events are on aggregates, after its base; and unless *)
(* the page was full they are all there are.                               *)
(***************************************************************************)
LEMMA ReadSide ==
  ASSUME NEW l, WellStored(l), Typed(l), NEW f, AfterFork(l, f), NEW b \in Branches,
         NEW raw, raw = ReadBranch(l, b, f[b], EventCap)
  PROVE  /\ \A e \in EventsOf(Genealogy(raw)) :
              e \in EventsOf(l) /\ e.stream \in Streams /\ e.branch = b /\ e.position > f[b]
         /\ ~ Truncated(raw) =>
              \A e \in EventsOf(l) : e.stream \in Streams /\ e.branch = b => e \in EventsOf(Genealogy(raw))
<1>1. PICK S : S = {e \in EventsOf(l) : e.branch = b /\ e.position > f[b]}
  OBVIOUS
<1>2. PICK all : all = OnlyIn(l, S)
  OBVIOUS
<1>3. Placed(all) /\ EventsOf(all) = S
  BY <1>1, <1>2, LogPlaced, OnlyInPlaced
<1>4. raw = Capped(all, EventCap)
  BY <1>1, <1>2 DEF ReadBranch
<1>5. Placed(raw) /\ EventsOf(raw) \subseteq S
  <2>1. /\ IsLog(raw) /\ Len(raw) \in Nat /\ Ordered(raw) /\ EventsOf(raw) \subseteq EventsOf(all)
    BY <1>3, <1>4, CapIsPositive, CappedEvents DEF Placed
  <2> QED
    BY <1>3, <2>1 DEF Placed
<1>6. EventsOf(Genealogy(raw)) = {e \in EventsOf(raw) : e.stream \notin Branches}
  <2>1. PICK T : T = {e \in EventsOf(raw) : e.stream \notin Branches}
    OBVIOUS
  <2>2. EventsOf(OnlyIn(raw, T)) = EventsOf(raw) \intersect T
    BY <1>5, OnlyInPlaced
  <2> QED
    BY <2>1, <2>2 DEF Genealogy
<1>7. ASSUME NEW e \in EventsOf(Genealogy(raw))
      PROVE  e \in EventsOf(l) /\ e.stream \in Streams /\ e.branch = b /\ e.position > f[b]
  BY <1>1, <1>5, <1>6 DEF Typed
<1>8. ASSUME ~ Truncated(raw), NEW e \in EventsOf(l), e.stream \in Streams, e.branch = b
      PROVE  e \in EventsOf(Genealogy(raw))
  <2>1. raw = all
    BY <1>3, <1>4, <1>8, CappedWhole
  <2>2. e \in S
    BY <1>1, <1>8 DEF AfterFork
  <2>3. e.stream \notin Branches
    BY <1>8, BranchesApart
  <2> QED
    BY <1>3, <1>6, <2>1, <2>2, <2>3
<1> QED
  BY <1>7, <1>8

(***************************************************************************)
(* loadBranchSide.                                                         *)
(***************************************************************************)
LEMMA LoadBranchKeeps ==
  ASSUME IInv, KInv, NEW m \in Mergers, LoadBranchSide(m)
  PROVE  KInv'
<1>1. /\ Inv(log, req) /\ Facts(log, base, registry, rows, req)
      /\ Slots(req) /\ WellStored(log) /\ Len(log) \in Nat /\ Knows(log, base, req)
      /\ LogFacts(log, base) /\ Registered(base, registry) /\ Overlaid(log, rows)
      /\ m \in Requests /\ Carries(req[m])
  BY LogOrdered DEF IInv, KInv, Facts, Inv, LogInv, Requests, Slots
<1>2. PICK b : b = req[m].branch
  OBVIOUS
<1>3. PICK raw : raw = ReadBranch(log, b, base[b], EventCap)
  OBVIOUS
<1>4. PICK replay, todo : replay = Genealogy(raw) /\ todo = FirstTouch(replay)
  OBVIOUS
<1>5. PICK v : v = [pc |-> "pin", branch |-> b, replay |-> replay,
                    truncated |-> Truncated(raw), pins |-> <<>>, planned |-> Len(log), todo |-> todo]
  OBVIOUS
<1>6. /\ req[m].pc = "plan" /\ req' = [req EXCEPT ![m] = v]
      /\ UNCHANGED <<log, base, registry, rows>>
  BY <1>2, <1>3, <1>4, <1>5 DEF LoadBranchSide
<1>7. /\ v.pc = "pin" /\ v.branch = b /\ v.replay = replay /\ v.truncated = Truncated(raw)
      /\ v.pins = <<>> /\ v.planned = Len(log) /\ v.todo = todo
      /\ "planned" \in DOMAIN v /\ "truncated" \in DOMAIN v
  BY <1>5
<1>8. b \in Branches /\ base[b] \in 0..Len(log)
  BY <1>1, <1>2, <1>6, BaseKnown DEF Carries
<1>9. /\ \A e \in EventsOf(replay) :
           e \in EventsOf(log) /\ e.stream \in Streams /\ e.branch = b /\ e.position > base[b]
      /\ ~ Truncated(raw) =>
           \A e \in EventsOf(log) : e.stream \in Streams /\ e.branch = b => e \in EventsOf(replay)
  BY <1>1, <1>3, <1>4, <1>8, ReadSide DEF LogFacts
<1>10. IsLog(replay)
  BY <1>1, <1>3, <1>4, ReadIsPlan
<1>11. \A e \in EventsOf(log) : e.position \in Nat /\ e.position <= Len(log)
  BY <1>1, LogOrdered
<1>12. Reads(log, base[b], v)
  <2>1. \A e \in EventsOf(replay) :
          e.stream \in Streams /\ base[b] < e.position /\ e.position <= v.planned
    BY <1>7, <1>8, <1>9, <1>11
  <2>2. v.truncated \in BOOLEAN
    BY <1>7 DEF Truncated
  <2>3. v.truncated = TRUE \/ Whole(log, v)
    BY <1>7, <1>9, <2>2 DEF Whole
  <2> QED
    BY <1>1, <1>7, <2>1, <2>2, <2>3 DEF Reads
<1>13. Pinned(log, v)
  <2>1. todo \in Seq(StreamsOf(replay)) /\ Items(todo) = StreamsOf(replay)
    BY <1>4, <1>10, FirstTouchItems
  <2>2. DOMAIN v.pins = {}
    BY <1>7
  <2> QED
    BY <1>7, <2>1, <2>2 DEF Pinned
<1>14. Known(log, base[v.branch], v)
  BY <1>7, <1>8, <1>12, <1>13
  DEF Known, Based, Writes, Compared, Judged, Promotes, Verdict, Winning
<1>15. MayBecome(req, m, v)
  BY <1>7 DEF MayBecome
<1>16. Facts(log, base, registry, rows, req')
  BY <1>1, <1>6, <1>14, <1>15, FactsSlot
<1> QED
  BY <1>6, <1>16 DEF KInv

(***************************************************************************)
(* captureMainStreamVersions.                                              *)
(***************************************************************************)
LEMMA PinKeeps ==
  ASSUME IInv, KInv, NEW m \in Mergers, PinStream(m)
  PROVE  KInv'
<1>1. /\ Inv(log, req) /\ Facts(log, base, registry, rows, req)
      /\ Slots(req) /\ WellStored(log) /\ Len(log) \in Nat /\ Knows(log, base, req)
      /\ LogFacts(log, base) /\ Registered(base, registry) /\ Overlaid(log, rows)
      /\ m \in Requests /\ Carries(req[m])
  BY LogOrdered DEF IInv, KInv, Facts, Inv, LogInv, Requests, Slots
<1>2. PICK r, b : r = req[m] /\ b = r.branch
  OBVIOUS
<1>3. PICK s : s = Head(r.todo)
  OBVIOUS
<1>4. PICK pins : pins = [t \in DOMAIN r.pins \union {s} |->
                            IF t = s THEN StreamVersion(log, s, Main) ELSE r.pins[t]]
  OBVIOUS
<1>5. PICK v : v = [r EXCEPT !.pins = pins, !.todo = Tail(@)]
  OBVIOUS
<1>6. /\ r.pc = "pin" /\ r.todo # <<>> /\ req' = [req EXCEPT ![m] = v]
      /\ UNCHANGED <<log, base, registry, rows>>
  BY <1>2, <1>3, <1>4, <1>5 DEF PinStream
<1>7. Known(log, base[b], r) /\ Carries(r)
  BY <1>1, <1>2, <1>6 DEF Knows
<1>8. Reads(log, base[b], r) /\ Pinned(log, r) /\ base[b] \in 0..Len(log)
  BY <1>6, <1>7 DEF Known, Based
<1>9. /\ {"pc", "branch", "replay", "pins", "todo", "planned", "truncated"} \subseteq DOMAIN r
      /\ r.todo \in Seq(StreamsOf(r.replay))
  BY <1>6, <1>7, <1>8 DEF Carries, Reads, Pinned, Planning
<1>10. /\ v.pc = "pin" /\ v.branch = b /\ v.replay = r.replay /\ v.planned = r.planned
       /\ v.truncated = r.truncated /\ v.pins = pins /\ v.todo = Tail(r.todo)
       /\ "planned" \in DOMAIN v /\ "truncated" \in DOMAIN v
  BY <1>2, <1>5, <1>6, <1>9
<1>11. Reads(log, base[b], v)
  BY <1>2, <1>6, <1>8, <1>10 DEF Reads, Planning, Whole
<1>12. Pinned(log, v)
  <2>1. \A t \in DOMAIN pins : pins[t] \in Nat /\ pins[t] <= StreamVersion(log, t, Main)
    <3> SUFFICES ASSUME NEW t \in DOMAIN pins
                 PROVE  pins[t] \in Nat /\ pins[t] <= StreamVersion(log, t, Main)
      OBVIOUS
    <3>1. StreamVersion(log, s, Main) \in Nat
      BY <1>1, Versions
    <3>2. t # s => t \in DOMAIN r.pins /\ pins[t] = r.pins[t]
      BY <1>4
    <3>3. t = s => pins[t] = StreamVersion(log, t, Main)
      BY <1>4
    <3> QED
      BY <1>6, <1>8, <3>1, <3>2, <3>3 DEF Pinned, Planning
  <2>2. Tail(r.todo) \in Seq(StreamsOf(r.replay))
    BY <1>6, <1>9
  <2>3. Items(r.todo) \subseteq {s} \union Items(Tail(r.todo))
    <3> SUFFICES ASSUME NEW i \in 1..Len(r.todo), r.todo[i] # s
                 PROVE  r.todo[i] \in Items(Tail(r.todo))
      BY DEF Items
    <3>1. i # 1
      BY <1>3, <1>6, <1>9
    <3>2. i - 1 \in 1..Len(Tail(r.todo)) /\ Tail(r.todo)[i - 1] = r.todo[i]
      BY <1>6, <1>9, <3>1
    <3> QED
      BY <3>2 DEF Items
  <2>4. StreamsOf(r.replay) \subseteq DOMAIN pins \union Items(Tail(r.todo))
    <3>1. StreamsOf(r.replay) \subseteq DOMAIN r.pins \union Items(r.todo)
      BY <1>6, <1>8 DEF Pinned, Planning
    <3>2. DOMAIN pins = DOMAIN r.pins \union {s}
      BY <1>4
    <3> QED
      BY <2>3, <3>1, <3>2
  <2> QED
    BY <1>10, <2>1, <2>2, <2>4 DEF Pinned
<1>13. Known(log, base[v.branch], v)
  BY <1>8, <1>10, <1>11, <1>12
  DEF Known, Based, Writes, Compared, Judged, Promotes, Verdict, Winning
<1>14. MayBecome(req, m, v)
  BY <1>10 DEF MayBecome
<1>15. Facts(log, base, registry, rows, req')
  BY <1>1, <1>6, <1>13, <1>14, FactsSlot
<1> QED
  BY <1>6, <1>15 DEF KInv

(***************************************************************************)
(* A page of main's events on the branch's streams that is not full has    *)
(* each stream's events since the base, in their order.                    *)
(***************************************************************************)
LEMMA ReadTail ==
  ASSUME NEW l, WellStored(l), NEW streams, NEW n, NEW tail,
         tail = ReadStreamsForBranch(l, streams, Main, n, EventCap),
         ~ Truncated(tail), NEW s \in streams
  PROVE  Placed(tail) /\ OnStream(tail, s) = MainSince(l, s, n)
<1>1. PICK S : S = {e \in EventsOf(l) : e.branch = Main /\ e.position > n /\ e.stream \in streams}
  OBVIOUS
<1>2. PICK all : all = OnlyIn(l, S)
  OBVIOUS
<1>3. Placed(all) /\ EventsOf(all) = S
  <2>1. Placed(l) /\ S \subseteq EventsOf(l)
    BY <1>1, LogPlaced
  <2> QED
    BY <1>2, <2>1, OnlyInPlaced
<1>4. tail = Capped(all, EventCap)
  BY <1>1, <1>2, CapIsPositive DEF ReadStreamsForBranch
<1>5. tail = all
  BY <1>3, <1>4, CappedWhole
<1>6. Placed(OnStream(tail, s)) /\ EventsOf(OnStream(tail, s)) = {e \in S : e.stream = s}
  BY <1>3, <1>5, OnStreamPlaced
<1>7. /\ Placed(MainSince(l, s, n))
      /\ EventsOf(MainSince(l, s, n)) = {e \in OwnEvents(l, s, Main) : e.position > n}
  BY MainSinceIs
<1>8. {e \in S : e.stream = s} = {e \in OwnEvents(l, s, Main) : e.position > n}
  BY <1>1 DEF OwnEvents
<1> QED
  BY <1>3, <1>5, <1>6, <1>7, <1>8, SameSequence

(***************************************************************************)
(* loadMainSide: what it reads is at least as new as the pins.             *)
(***************************************************************************)
LEMMA LoadMainKeeps ==
  ASSUME IInv, KInv, NEW m \in Mergers, LoadMainSide(m)
  PROVE  KInv'
<1>1. /\ Inv(log, req) /\ Facts(log, base, registry, rows, req)
      /\ Slots(req) /\ WellStored(log) /\ Len(log) \in Nat /\ Knows(log, base, req)
      /\ LogFacts(log, base) /\ Registered(base, registry) /\ Overlaid(log, rows)
      /\ m \in Requests /\ Carries(req[m])
  BY LogOrdered DEF IInv, KInv, Facts, Inv, LogInv, Requests, Slots
<1>2. PICK r, b : r = req[m] /\ b = r.branch
  OBVIOUS
<1>3. PICK tail : tail = ReadStreamsForBranch(log, StreamsOf(r.replay), Main, base[b], EventCap)
  OBVIOUS
<1>4. PICK cut : cut = (r.truncated \/ Truncated(tail))
  OBVIOUS
<1>5. PICK v : v = [pc |-> "judge", branch |-> b, replay |-> r.replay, pins |-> r.pins,
                    truncated |-> cut, tail |-> tail, planned |-> r.planned]
  OBVIOUS
<1>6. /\ r.pc = "pin" /\ r.todo = <<>> /\ req' = [req EXCEPT ![m] = v]
      /\ UNCHANGED <<log, base, registry, rows>>
  BY <1>2, <1>3, <1>4, <1>5 DEF LoadMainSide
<1>7. Known(log, base[b], r)
  BY <1>1, <1>2, <1>6 DEF Knows
<1>8. Reads(log, base[b], r) /\ Pinned(log, r) /\ base[b] \in 0..Len(log)
  BY <1>6, <1>7 DEF Known, Based
<1>9. /\ v.pc = "judge" /\ v.branch = b /\ v.replay = r.replay /\ v.planned = r.planned
      /\ v.truncated = cut /\ v.pins = r.pins /\ v.tail = tail
      /\ "planned" \in DOMAIN v /\ "truncated" \in DOMAIN v
  BY <1>5
<1>10. r.truncated \in BOOLEAN /\ (r.truncated = TRUE \/ Whole(log, r))
  BY <1>6, <1>8 DEF Reads, Planning
<1>11. cut \in BOOLEAN /\ (cut = FALSE => r.truncated = FALSE /\ ~ Truncated(tail))
  BY <1>4, <1>10 DEF Truncated
<1>12. Reads(log, base[b], v)
  <2>1. cut = TRUE \/ Whole(log, v)
    BY <1>2, <1>9, <1>10, <1>11 DEF Whole
  <2> QED
    BY <1>6, <1>8, <1>9, <1>11, <2>1 DEF Reads, Planning
<1>13. Pinned(log, v)
  <2>1. Items(r.todo) = {}
    BY <1>6 DEF Items
  <2> QED
    BY <1>6, <1>8, <1>9, <2>1 DEF Pinned, Planning
<1>14. Compared(log, base[b], v)
  <2> SUFFICES ASSUME cut = FALSE, NEW s \in StreamsOf(r.replay)
               PROVE  Placed(tail) /\ OnStream(tail, s) = MainSince(log, s, base[b])
    BY <1>9 DEF Compared
  <2> QED
    BY <1>1, <1>3, <1>11, ReadTail
<1>15. Known(log, base[v.branch], v)
  BY <1>8, <1>9, <1>12, <1>13, <1>14
  DEF Known, Based, Writes, Judged, Promotes, Verdict, Winning
<1>16. MayBecome(req, m, v)
  BY <1>9 DEF MayBecome
<1>17. Facts(log, base, registry, rows, req')
  BY <1>1, <1>6, <1>15, <1>16, FactsSlot
<1> QED
  BY <1>6, <1>17 DEF KInv

-----------------------------------------------------------------------------
(* A merge: the caller's decisions.                                        *)

(***************************************************************************)
(* Where main still has the pinned version, what was decided on the plan   *)
(* is decided for main as it is now.                                       *)
(***************************************************************************)
LEMMA DecidedSettles ==
  ASSUME NEW l, WellStored(l), NEW n, NEW r, r.pc = "judge", Plans(l, r),
         r.truncated = FALSE, Compared(l, n, r),
         NEW res, Decided(r, res), NEW s \in StreamsOf(r.replay),
         r.pins[s] = StreamVersion(l, s, Main), NEW v, v.replay = r.replay, v.res = res
  PROVE  Settled(l, n, v, s)
<1> SUFFICES ASSUME NEW c \in ClassifyConflicts(OnStream(r.replay, s), MainSince(l, s, n), <<>>)
             PROVE  s \in DOMAIN res /\ res[s] \in c.supported
  BY DEF Settled
<1>1. PICK since : since = MainSince(l, s, n)
  OBVIOUS
<1>2. Placed(since) /\ \A e \in EventsOf(since) : e.stream = s
  BY <1>1, MainSinceIs
<1>3. Placed(r.tail) /\ OnStream(r.tail, s) = since
  BY <1>1 DEF Compared
<1>4. Placed(r.replay)
  <2>1. IsLog(r.replay) /\ Len(r.replay) \in Nat /\ Ordered(r.replay)
        /\ \A e \in EventsOf(r.replay) : e \in EventsOf(l)
    BY DEF Plans, Planning
  <2>2. \A e \in EventsOf(l) : e.position \in Nat
    BY LogOrdered
  <2> QED
    BY <2>1, <2>2 DEF Placed
<1>5. c.stream = s /\ c \in ClassifyConflicts(r.replay, r.tail, <<>>)
  BY <1>1, <1>2, <1>3, <1>4, ConflictsOfStream
<1>6. c \in Conflicts(r)
  BY <1>5 DEF Conflicts
<1> QED
  BY <1>5, <1>6 DEF Decided

(***************************************************************************)
(* The caller's decisions are taken.                                       *)
(***************************************************************************)
LEMMA JudgeKeeps ==
  ASSUME IInv, KInv, NEW m \in Mergers, Judge(m)
  PROVE  KInv'
<1>1. /\ Inv(log, req) /\ Facts(log, base, registry, rows, req)
      /\ Slots(req) /\ WellStored(log) /\ Len(log) \in Nat /\ Knows(log, base, req)
      /\ LogFacts(log, base) /\ Registered(base, registry) /\ Overlaid(log, rows)
      /\ m \in Requests /\ Carries(req[m])
  BY LogOrdered DEF IInv, KInv, Facts, Inv, LogInv, Requests, Slots
<1>2. PICK r, b : r = req[m] /\ b = r.branch
  OBVIOUS
<1>3. r.pc = "judge" /\ UNCHANGED <<log, base, registry, rows>>
  BY <1>2 DEF Judge
<1>4. Known(log, base[b], r) /\ Plans(log, r)
  BY <1>1, <1>2, <1>3 DEF Knows, Inv, Agrees
<1>5. CASE Return(m)
  <2>1. Facts(log, base, registry, rows, req')
    BY <1>1, <1>5, EndFacts
  <2> QED
    BY <1>3, <2>1 DEF KInv
<1>6. CASE ~ Return(m)
  <2>1. PICK res :
          /\ ~ r.truncated /\ Decided(r, res)
          /\ req' = [req EXCEPT ![m] =
                       [pc |-> "recheck", branch |-> r.branch, replay |-> r.replay,
                        pins |-> r.pins, res |-> res, links |-> LinksToCheck(r, res),
                        todo |-> ToReplay(r, res), planned |-> r.planned,
                        judged |-> Len(log)]]
    BY <1>2, <1>6 DEF Judge
  <2>2. PICK todo : todo = ToReplay(r, res)
    OBVIOUS
  <2>3. PICK v : v = [pc |-> "recheck", branch |-> r.branch, replay |-> r.replay,
                      pins |-> r.pins, res |-> res, links |-> LinksToCheck(r, res),
                      todo |-> todo, planned |-> r.planned, judged |-> Len(log)]
    OBVIOUS
  <2>4. req' = [req EXCEPT ![m] = v]
    BY <2>1, <2>2, <2>3
  <2>5. /\ v.pc = "recheck" /\ v.branch = b /\ v.replay = r.replay /\ v.planned = r.planned
        /\ v.pins = r.pins /\ v.res = res /\ v.todo = todo /\ v.judged = Len(log)
        /\ "planned" \in DOMAIN v /\ "res" \in DOMAIN v /\ "judged" \in DOMAIN v
        /\ "links" \in DOMAIN v /\ v.links = LinksToCheck(r, res)
    BY <1>2, <2>3
  <2>6. /\ Reads(log, base[b], r) /\ Pinned(log, r) /\ base[b] \in 0..Len(log)
        /\ Compared(log, base[b], r)
    BY <1>3, <1>4 DEF Known, Based
  <2>7. r.truncated = FALSE /\ Whole(log, r)
    BY <1>3, <2>1, <2>6 DEF Reads, Planning
  <2>8. Reads(log, base[b], v)
    BY <1>2, <1>3, <2>5, <2>6, <2>7 DEF Reads, Planning, Whole
  <2>9. IsLog(r.replay) /\ \A e \in EventsOf(r.replay) : \E i \in DOMAIN r.replay : e = r.replay[i]
    BY <1>3, <1>4 DEF Plans, Planning, IsLog, EventsOf
  <2>10. todo \in Seq(StreamsOf(r.replay))
    BY <2>2, <2>9, ToReplayItems
  <2>11. Pinned(log, v)
    BY <1>3, <2>5, <2>6, <2>10 DEF Pinned, Planning
  <2>12. Judged(log, base[b], v)
    <3>1. ASSUME NEW s \in StreamsOf(v.replay), v.pins[s] = StreamVersion(log, s, Main)
          PROVE  Settled(log, base[b], v, s)
      <4>1. s \in StreamsOf(r.replay) /\ r.pins[s] = StreamVersion(log, s, Main)
        BY <2>5, <3>1
      <4> QED
        BY <1>1, <1>3, <1>4, <2>1, <2>5, <2>6, <2>7, <4>1, DecidedSettles
    <3>2. ASSUME NEW e \in EventsOf(v.replay), e.body.type = "ChildLinked",
                 ~ ResolvedToMain(res, e.stream),
                 ~ (e.body.child \in StreamsOf(r.replay) /\ ~ ResolvedToMain(res, e.body.child))
          PROVE  e.body.child \in v.links
      <4>1. PICK i \in DOMAIN r.replay : e = r.replay[i]
        BY <2>5, <2>9
      <4>2. e.stream \in StreamsOf(r.replay)
        BY <4>1 DEF StreamsOf
      <4> QED
        BY <2>5, <3>2, <4>1, <4>2 DEF LinksToCheck
    <3> QED
      BY <1>1, <2>5, <3>1, <3>2 DEF Judged
  <2>13. Known(log, base[v.branch], v)
    BY <2>5, <2>6, <2>8, <2>11, <2>12
    DEF Known, Based, Writes, Compared, Promotes, Winning
  <2>14. MayBecome(req, m, v)
    BY <2>5 DEF MayBecome
  <2>15. Facts(log, base, registry, rows, req')
    BY <1>1, <2>4, <2>13, <2>14, FactsSlot
  <2> QED
    BY <1>3, <2>15 DEF KInv
<1> QED
  BY <1>5, <1>6

\* v carries the plan and the decisions of r.
SameVerdict(r, v) ==
  /\ v.branch = r.branch /\ v.replay = r.replay /\ v.pins = r.pins /\ v.planned = r.planned
  /\ v.res = r.res /\ v.judged = r.judged
  /\ "planned" \in DOMAIN v /\ "res" \in DOMAIN v /\ "judged" \in DOMAIN v

\* A link that r had to look up is still to be looked up in v, or main has its child.
LooksUp(l, r, v) ==
  /\ v.pc = "recheck" => "links" \in DOMAIN v
  /\ r.pc = "recheck" =>
       \A p \in r.links :
         \/ v.pc = "recheck" /\ p \in v.links
         \/ OwnEvents(l, p, Main) # {} /\ KeptTo(l, p, r.judged)

(***************************************************************************)
(* After the decisions a request goes on with what it knows.               *)
(***************************************************************************)
LEMMA VerdictKnown ==
  ASSUME NEW l, NEW n, NEW r, r.pc \in Verdict, n \in 0..Len(l),
         Reads(l, n, r), Pinned(l, r), Judged(l, n, r),
         NEW v, v.pc \in Verdict, SameVerdict(r, v), LooksUp(l, r, v), Promotes(l, n, v),
         v.pc \in {"recheck", "replay", "reappend"} => v.todo \in Seq(StreamsOf(r.replay))
  PROVE  Known(l, n, v)
<1>1. /\ r.pc \in Planning \ {"pin", "judge"} /\ v.pc \in Planning \ {"pin", "judge"}
      /\ v.pc \notin {"idle", "created", "append", "project"}
  BY DEF Verdict, Planning
<1>2. Based(l, n, v) /\ Writes(l, n, v) /\ Compared(l, n, v)
  BY <1>1 DEF Based, Writes, Compared
<1>3. Reads(l, n, v)
  <2>1. Whole(l, v)
    BY <1>1 DEF Reads, Whole, SameVerdict
  <2> QED
    BY <1>1, <2>1 DEF Reads, SameVerdict
<1>4. Pinned(l, v)
  BY <1>1 DEF Pinned, SameVerdict
<1>5. Judged(l, n, v)
  <2>1. r.judged \in 0..Len(l)
    BY DEF Judged
  <2>2. \A s \in StreamsOf(v.replay) : v.pins[s] = StreamVersion(l, s, Main) => Settled(l, n, v, s)
    BY DEF Judged, SameVerdict, Settled
  <2>3. ASSUME NEW e \in EventsOf(v.replay),
               e.body.type = "ChildLinked", ~ResolvedToMain(v.res, e.stream)
        PROVE  \/ e.body.child \in StreamsOf(v.replay) /\ ~ResolvedToMain(v.res, e.body.child)
               \/ v.pc = "recheck" /\ e.body.child \in v.links
               \/ OwnEvents(l, e.body.child, Main) # {} /\ KeptTo(l, e.body.child, v.judged)
    <3>1. \/ e.body.child \in StreamsOf(r.replay) /\ ~ResolvedToMain(r.res, e.body.child)
          \/ r.pc = "recheck" /\ e.body.child \in r.links
          \/ OwnEvents(l, e.body.child, Main) # {} /\ KeptTo(l, e.body.child, r.judged)
      BY <2>3 DEF Judged, SameVerdict
    <3> QED
      BY <3>1 DEF SameVerdict, LooksUp
  <2> QED
    BY <2>1, <2>2, <2>3 DEF Judged, SameVerdict, LooksUp
<1> QED
  BY <1>2, <1>3, <1>4, <1>5 DEF Known

(***************************************************************************)
(* The steps of a merge after the decisions that leave the log.            *)
(***************************************************************************)
LEMMA VerdictFacts ==
  ASSUME Inv(log, req), Facts(log, base, registry, rows, req), NEW m \in Requests,
         req[m].pc \in Verdict,
         NEW v, v.pc \in Verdict, SameVerdict(req[m], v), LooksUp(log, req[m], v),
         Promotes(log, base[req[m].branch], v),
         v.pc \in {"recheck", "replay", "reappend"} => v.todo \in Seq(StreamsOf(req[m].replay)),
         req' = [req EXCEPT ![m] = v],
         NEW h, Registered(base, h), NEW u, Overlaid(log, u)
  PROVE  Facts(log, base, h, u, req')
<1>1. PICK n : n = base[req[m].branch]
  OBVIOUS
<1>2. /\ req[m].pc \notin {"idle", "created"} /\ v.pc \notin {"idle", "created"}
  BY DEF Verdict
<1>3. Known(log, n, req[m])
  BY <1>1, <1>2 DEF Facts, Knows
<1>4. n \in 0..Len(log) /\ Reads(log, n, req[m]) /\ Pinned(log, req[m]) /\ Judged(log, n, req[m])
  BY <1>2, <1>3 DEF Known, Based
<1>5. Known(log, n, v)
  BY <1>1, <1>4, VerdictKnown
<1>6. Known(log, base[v.branch], v)
  BY <1>1, <1>5 DEF SameVerdict
<1>7. MayBecome(req, m, v)
  BY <1>2 DEF MayBecome
<1> QED
  BY <1>6, <1>7, FactsSlot

(***************************************************************************)
(* Moving on keeps the plan and the decisions.                             *)
(***************************************************************************)
LEMMA MovedVerdict ==
  ASSUME NEW l, NEW n, NEW r, Carries(r), Known(l, n, r), r.pc \in Verdict,
         NEW v, NEW pc, Moved(r, v, pc)
  PROVE  SameVerdict(r, v) /\ v.pc = pc
<1>1. r.pc \in Planning \ {"pin", "judge"} /\ r.pc # "idle"
  BY DEF Verdict, Planning
<1>2. {"branch", "replay", "pins"} \subseteq DOMAIN r
  BY <1>1 DEF Carries
<1>3. {"planned", "res", "judged"} \subseteq DOMAIN r
  BY <1>1 DEF Known, Reads, Judged
<1>4. \A x \in {"branch", "replay", "pins", "planned", "res", "judged"} :
        x \in DOMAIN v /\ v[x] = r[x]
  BY <1>2, <1>3 DEF Moved
<1>5. v.pc = pc
  BY DEF Moved
<1> QED
  BY <1>4, <1>5 DEF SameVerdict

(***************************************************************************)
(* What is left to do when the first is done.                              *)
(***************************************************************************)
LEMMA RestOfWork ==
  ASSUME NEW S, NEW todo \in Seq(S), todo # <<>>
  PROVE  /\ Tail(todo) \in Seq(S) /\ Head(todo) \in S
         /\ Items(todo) \subseteq {Head(todo)} \union Items(Tail(todo))
<1>1. Tail(todo) \in Seq(S) /\ Head(todo) \in S
  OBVIOUS
<1>2. ASSUME NEW i \in 1..Len(todo), todo[i] # Head(todo)
      PROVE  todo[i] \in Items(Tail(todo))
  <2>1. i # 1
    BY <1>2
  <2>2. i - 1 \in 1..Len(Tail(todo)) /\ Tail(todo)[i - 1] = todo[i]
    BY <2>1
  <2> QED
    BY <2>2 DEF Items
<1> QED
  BY <1>1, <1>2 DEF Items

(***************************************************************************)
(* validatePlanNotStale, and the read of the claim's version.              *)
(***************************************************************************)
LEMMA RecheckKeeps ==
  ASSUME IInv, KInv, NEW m \in Mergers, RecheckStream(m) \/ ReadClaimVersion(m)
  PROVE  KInv'
<1>1. /\ Inv(log, req) /\ Facts(log, base, registry, rows, req)
      /\ Slots(req) /\ WellStored(log) /\ Len(log) \in Nat /\ Knows(log, base, req)
      /\ LogFacts(log, base) /\ Registered(base, registry) /\ Overlaid(log, rows)
      /\ m \in Requests /\ Carries(req[m])
  BY LogOrdered DEF IInv, KInv, Facts, Inv, LogInv, Requests, Slots
<1>2. PICK r : r = req[m]
  OBVIOUS
<1>3. r.pc = "recheck" /\ UNCHANGED <<log, base, registry, rows>>
  BY <1>2 DEF RecheckStream, ReadClaimVersion
<1>4. Known(log, base[r.branch], r) /\ r.pc \in Verdict
  BY <1>1, <1>2, <1>3 DEF Knows, Verdict
<1>5. {"pc", "branch", "replay", "pins", "todo", "planned", "res", "judged", "links"}
        \subseteq DOMAIN r
  BY <1>1, <1>2, <1>3, <1>4 DEF Carries, Known, Reads, Judged, Planning
<1>6. r.todo \in Seq(StreamsOf(r.replay))
  BY <1>3, <1>4 DEF Known, Pinned, Planning
<1>7. CASE RecheckStream(m)
  <2>1. CASE Return(m)
    <3>1. Facts(log, base, registry, rows, req')
      BY <1>1, <2>1, EndFacts
    <3> QED
      BY <1>3, <3>1 DEF KInv
  <2>2. CASE ~ Return(m)
    <3>1. PICK v : v = [r EXCEPT !.todo = Tail(@)]
      OBVIOUS
    <3>2. req' = [req EXCEPT ![m] = v] /\ r.todo # <<>>
      BY <1>2, <1>7, <2>2, <3>1 DEF RecheckStream
    <3>3. SameVerdict(r, v) /\ v.pc = "recheck" /\ v.todo = Tail(r.todo)
      BY <1>3, <1>5, <3>1 DEF SameVerdict
    <3>4. v.pc \in Verdict /\ v.todo \in Seq(StreamsOf(r.replay))
      <4>1. v.pc \in Verdict
        BY <3>3 DEF Verdict
      <4>2. Tail(r.todo) \in Seq(StreamsOf(r.replay))
        BY <1>6, <3>2, RestOfWork
      <4> QED
        BY <3>3, <4>1, <4>2
    <3>5. Promotes(log, base[r.branch], v)
      BY <3>3 DEF Promotes, Winning
    <3>6. LooksUp(log, r, v)
      <4>1. "links" \in DOMAIN v /\ v.links = r.links
        BY <1>5, <3>1
      <4> QED
        BY <3>3, <4>1 DEF LooksUp
    <3>7. Facts(log, base, registry, rows, req')
      BY <1>1, <1>2, <1>4, <3>2, <3>3, <3>4, <3>5, <3>6, VerdictFacts
    <3> QED
      BY <1>3, <3>7 DEF KInv
  <2> QED
    BY <2>1, <2>2
<1>8. CASE ReadClaimVersion(m)
  <2>1. PICK v : v = [pc |-> "lookup", branch |-> r.branch, replay |-> r.replay, pins |-> r.pins,
                      res |-> r.res, planned |-> r.planned, judged |-> r.judged,
                      version |-> StreamVersion(log, r.branch, r.branch)]
    OBVIOUS
  <2>2. req' = [req EXCEPT ![m] = v]
    BY <1>2, <1>8, <2>1 DEF ReadClaimVersion
  <2>3. SameVerdict(r, v) /\ v.pc = "lookup"
    BY <2>1 DEF SameVerdict
  <2>4. Promotes(log, base[r.branch], v) /\ v.pc \in Verdict
    BY <2>3 DEF Promotes, Winning, Verdict
  <2>5. LooksUp(log, r, v)
    BY <1>2, <1>8, <2>3 DEF LooksUp, ReadClaimVersion
  <2>6. Facts(log, base, registry, rows, req')
    BY <1>1, <1>2, <1>4, <2>2, <2>3, <2>4, <2>5, VerdictFacts
  <2> QED
    BY <1>3, <2>6 DEF KInv
<1> QED
  BY <1>7, <1>8

(***************************************************************************)
(* The lookup of a linked child.                                           *)
(***************************************************************************)
LEMMA CheckLinkKeeps ==
  ASSUME IInv, KInv, NEW m \in Mergers, CheckLink(m)
  PROVE  KInv'
<1>1. /\ Inv(log, req) /\ Facts(log, base, registry, rows, req)
      /\ Slots(req) /\ WellStored(log) /\ Len(log) \in Nat /\ Knows(log, base, req)
      /\ LogFacts(log, base) /\ Registered(base, registry) /\ Overlaid(log, rows)
      /\ m \in Requests /\ Carries(req[m])
  BY LogOrdered DEF IInv, KInv, Facts, Inv, LogInv, Requests, Slots
<1>2. PICK r : r = req[m]
  OBVIOUS
<1>3. r.pc = "recheck" /\ UNCHANGED <<log, base, registry, rows>>
  BY <1>2 DEF CheckLink
<1>4. Known(log, base[r.branch], r) /\ r.pc \in Verdict
  BY <1>1, <1>2, <1>3 DEF Knows, Verdict
<1>5. {"pc", "branch", "replay", "pins", "todo", "planned", "res", "judged", "links"}
        \subseteq DOMAIN r
  BY <1>1, <1>2, <1>3, <1>4 DEF Carries, Known, Reads, Judged, Planning
<1>6. CASE Return(m)
  <2>1. Facts(log, base, registry, rows, req')
    BY <1>1, <1>6, EndFacts
  <2> QED
    BY <1>3, <2>1 DEF KInv
<1>7. ASSUME NEW p, MainHas(p), req' = [req EXCEPT ![m].links = @ \ {p}]
      PROVE  KInv'
  <2>1. PICK v : v = [r EXCEPT !.links = @ \ {p}]
    OBVIOUS
  <2>2. req' = [req EXCEPT ![m] = v]
    BY <1>2, <1>7, <2>1
  <2>3. /\ SameVerdict(r, v) /\ v.pc = "recheck" /\ v.todo = r.todo
        /\ "links" \in DOMAIN v /\ v.links = r.links \ {p}
    BY <1>3, <1>5, <2>1 DEF SameVerdict
  <2>4. v.pc \in Verdict /\ v.todo \in Seq(StreamsOf(r.replay))
    BY <1>3, <1>4, <2>3 DEF Verdict, Known, Pinned, Planning
  <2>5. Promotes(log, base[r.branch], v)
    BY <2>3 DEF Promotes, Winning
  <2>6. LooksUp(log, r, v)
    <3>1. OwnEvents(log, p, Main) # {} /\ KeptTo(log, p, r.judged)
      BY <1>7 DEF MainHas, KeptTo
    <3> QED
      BY <2>3, <3>1 DEF LooksUp
  <2>7. Facts(log, base, registry, rows, req')
    BY <1>1, <1>2, <1>4, <2>2, <2>3, <2>4, <2>5, <2>6, VerdictFacts
  <2> QED
    BY <1>3, <2>7 DEF KInv
<1> QED
  BY <1>6, <1>7 DEF CheckLink

-----------------------------------------------------------------------------
(* A merge: the claim and the replay.                                      *)

(***************************************************************************)
(* claimMerge: the lookup, the claim, its projection.                      *)
(***************************************************************************)
LEMMA LookupKeeps ==
  ASSUME IInv, KInv, NEW m \in Mergers, LookupClaim(m)
  PROVE  KInv'
<1>1. /\ Inv(log, req) /\ Facts(log, base, registry, rows, req)
      /\ Slots(req) /\ WellStored(log) /\ Len(log) \in Nat /\ Knows(log, base, req)
      /\ LogFacts(log, base) /\ Registered(base, registry) /\ Overlaid(log, rows)
      /\ m \in Requests /\ Carries(req[m])
  BY LogOrdered DEF IInv, KInv, Facts, Inv, LogInv, Requests, Slots
<1>2. PICK r, b : r = req[m] /\ b = r.branch
  OBVIOUS
<1>3. r.pc = "lookup" /\ UNCHANGED <<log, base, registry, rows>>
  BY <1>2 DEF LookupClaim
<1>4. Known(log, base[b], r) /\ r.pc \in Verdict /\ base[b] \in 0..Len(log)
  BY <1>1, <1>2, <1>3, BaseKnown DEF Knows, Verdict
<1>5. CASE AlreadyClaimed(b)
  <2>1. PICK v : v = [pc |-> "healMark", branch |-> b]
    OBVIOUS
  <2>2. v.pc = "healMark" /\ v.branch = b /\ req' = [req EXCEPT ![m] = v]
    BY <1>2, <1>5, <2>1 DEF LookupClaim
  <2>3. Facts(log, base, registry, rows, req')
    BY <1>1, <1>4, <2>2, PlainFacts DEF Planning
  <2> QED
    BY <1>3, <2>3 DEF KInv
<1>6. CASE ~ AlreadyClaimed(b)
  <2>1. Goto(m, "claim")
    BY <1>2, <1>6 DEF LookupClaim
  <2>2. PICK v : Moved(r, v, "claim") /\ req' = [req EXCEPT ![m] = v]
    BY <1>1, <1>2, <2>1, GotoMoves
  <2>3. SameVerdict(r, v) /\ v.pc = "claim"
    BY <1>1, <1>2, <1>4, <2>2, MovedVerdict
  <2>4. Promotes(log, base[b], v) /\ v.pc \in Verdict
    BY <2>3 DEF Promotes, Winning, Verdict
  <2>5. Facts(log, base, registry, rows, req')
    BY <1>1, <1>2, <1>3, <1>4, <2>2, <2>3, <2>4, VerdictFacts DEF LooksUp
  <2> QED
    BY <1>3, <2>5 DEF KInv
<1> QED
  BY <1>5, <1>6

(***************************************************************************)
(* The claim itself.                                                       *)
(***************************************************************************)
LEMMA ClaimKeepsFacts ==
  ASSUME IInv, IInv', KInv, NEW m \in Mergers, AppendClaim(m)
  PROVE  KInv'
<1>1. /\ Inv(log, req) /\ Facts(log, base, registry, rows, req)
      /\ Slots(req) /\ WellStored(log) /\ Len(log) \in Nat /\ Knows(log, base, req)
      /\ LogFacts(log, base) /\ Registered(base, registry) /\ Overlaid(log, rows)
      /\ m \in Requests /\ Carries(req[m]) /\ LogInv(log)
  BY LogOrdered DEF IInv, KInv, Facts, Inv, LogInv, Requests, Slots
<1>2. PICK r, b : r = req[m] /\ b = r.branch
  OBVIOUS
<1>3. r.pc = "claim" /\ UNCHANGED <<base, registry, rows>>
  BY <1>2 DEF AppendClaim
<1>4. /\ Known(log, base[b], r) /\ r.pc \in Verdict /\ base[b] \in 0..Len(log)
      /\ b \in Branches /\ Plans(log, r)
  BY <1>1, <1>2, <1>3, BaseKnown DEF Knows, Verdict, Carries, Inv, Agrees
<1>5. CASE Return(m) /\ UNCHANGED log
  <2>1. Facts(log, base, registry, rows, req')
    BY <1>1, <1>5, EndFacts
  <2> QED
    BY <1>3, <1>5, <2>1 DEF KInv
<1>6. CASE /\ AppendTo(b, b, <<Payload(Lifecycle("BranchMerged"), 0)>>, ClaimExpects(r))
           /\ Goto(m, "mark")
  <2>1. /\ Grown(log, log', b, b) /\ MayWrite(log, base, b, b)
        /\ \A x : Apart(log, log', b, b, x)
    BY <1>1, <1>4, <1>6, LifecycleGrows
  <2>2. PICK v : Moved(r, v, "mark") /\ req' = [req EXCEPT ![m] = v]
    BY <1>1, <1>2, <1>6, GotoMoves
  <2>3. SameVerdict(r, v) /\ v.pc = "mark" /\ v.pc \in Verdict /\ v.branch = b
    BY <1>1, <1>2, <1>4, <2>2, MovedVerdict DEF Verdict, SameVerdict
  <2>4. Known(log', base[b], r)
    BY <1>1, <1>4, <2>1, KnownStays DEF LogInv
  <2>5. Promotes(log', base[b], v)
    <3>1. req'[m] = v
      BY <1>1, <2>2 DEF Slots
    <3>2. Won(log', v)
      BY <1>1, <3>1 DEF IInv, Inv, Agrees
    <3>3. ReplaysIn(log', v.branch) = {}
      BY <2>3, <3>2 DEF Won, Winning
    <3> QED
      BY <2>3, <3>3 DEF Promotes
  <2>6. base[b] \in 0..Len(log')
    BY <1>4, <2>1, GrownPositions
  <2>7. Known(log', base[b], v)
    BY <1>3, <1>4, <2>3, <2>4, <2>5, <2>6, VerdictKnown DEF Known, LooksUp
  <2>8. Facts(log', base, registry, rows, req')
    BY <1>1, <2>1, <2>2, <2>3, <2>7, FactsGrow
  <2> QED
    BY <1>3, <2>8 DEF KInv
<1> QED
  BY <1>2, <1>5, <1>6 DEF AppendClaim

(***************************************************************************)
(* projectBranchMerged, and what follows it.                               *)
(***************************************************************************)
LEMMA WinnerKeeps ==
  ASSUME IInv, KInv, NEW m \in Mergers,
         MarkMerged(m) \/ PurgeOverlay(m) \/ ReadReplayVersion(m) \/ FinishMerge(m)
  PROVE  KInv'
<1>1. /\ Inv(log, req) /\ Facts(log, base, registry, rows, req)
      /\ Slots(req) /\ WellStored(log) /\ Len(log) \in Nat /\ Knows(log, base, req)
      /\ LogFacts(log, base) /\ Registered(base, registry) /\ Overlaid(log, rows)
      /\ m \in Requests /\ Carries(req[m])
  BY LogOrdered DEF IInv, KInv, Facts, Inv, LogInv, Requests, Slots
<1>2. PICK r, b : r = req[m] /\ b = r.branch
  OBVIOUS
<1>3. r.pc \in {"mark", "healMark", "purge", "healPurge", "replay"} /\ UNCHANGED <<log, base>>
  BY <1>2 DEF MarkMerged, PurgeOverlay, ReadReplayVersion, FinishMerge
<1>4. Known(log, base[b], r) /\ base[b] \in 0..Len(log) /\ b \in Branches /\ Plans(log, r)
  BY <1>1, <1>2, <1>3, BaseKnown DEF Knows, Carries, Inv, Agrees
<1>5. CASE MarkMerged(m)
  <2>1. /\ registry' = [registry EXCEPT ![b] = "merged"] /\ rows' = rows
        /\ Goto(m, IF r.pc = "mark" THEN "purge" ELSE "healPurge")
        /\ r.pc \in {"mark", "healMark"}
    BY <1>2, <1>5 DEF MarkMerged
  <2>2. Registered(base, registry')
    BY <1>1, <1>4, <2>1 DEF Registered
  <2>3. CASE r.pc = "mark"
    <3>1. PICK v : Moved(r, v, "purge") /\ req' = [req EXCEPT ![m] = v]
      BY <1>1, <1>2, <2>1, <2>3, GotoMoves
    <3>2. SameVerdict(r, v) /\ v.pc = "purge" /\ v.pc \in Verdict /\ r.pc \in Verdict
      BY <1>1, <1>2, <1>4, <2>3, <3>1, MovedVerdict DEF Verdict
    <3>3. Promotes(log, base[b], v)
      BY <1>4, <2>3, <3>2 DEF Known, Promotes, SameVerdict, Winning
    <3>4. Facts(log, base, registry', rows, req')
      BY <1>1, <1>2, <2>2, <2>3, <3>1, <3>2, <3>3, VerdictFacts DEF LooksUp
    <3> QED
      BY <1>3, <2>1, <3>4 DEF KInv
  <2>4. CASE r.pc = "healMark"
    <3>1. Facts(log, base, registry', rows, req')
      BY <1>1, <1>2, <2>1, <2>2, <2>4, GotoFacts DEF Planning
    <3> QED
      BY <1>3, <2>1, <3>1 DEF KInv
  <2> QED
    BY <2>1, <2>3, <2>4
<1>6. CASE PurgeOverlay(m)
  <2>1. Purged(b) /\ registry' = registry /\ r.pc \in {"purge", "healPurge"}
    BY <1>2, <1>6 DEF PurgeOverlay
  <2>2. Overlaid(log, rows')
    BY <1>1, <1>4, <2>1, PurgedRows
  <2>3. CASE r.pc = "healPurge"
    <3>1. Return(m)
      BY <1>2, <1>6, <2>3 DEF PurgeOverlay
    <3>2. Facts(log, base, registry, rows', req')
      BY <1>1, <2>2, <3>1, EndFacts
    <3> QED
      BY <1>3, <2>1, <3>2 DEF KInv
  <2>4. CASE r.pc = "purge"
    <3>1. PICK todo : todo = ToReplay(r, r.res)
      OBVIOUS
    <3>2. PICK v : v = [pc |-> "replay", branch |-> r.branch, replay |-> r.replay, pins |-> r.pins,
                        res |-> r.res, planned |-> r.planned, judged |-> r.judged, todo |-> todo]
      OBVIOUS
    <3>3. req' = [req EXCEPT ![m] = v]
      BY <1>2, <1>6, <2>4, <3>1, <3>2 DEF PurgeOverlay
    <3>4. SameVerdict(r, v) /\ v.pc = "replay" /\ v.todo = todo
      BY <3>2 DEF SameVerdict
    <3>5. IsLog(r.replay)
      BY <1>4, <2>4 DEF Plans, Planning
    <3>6. /\ todo \in Seq(StreamsOf(r.replay))
          /\ Items(todo) = {s \in StreamsOf(r.replay) : ~ ResolvedToMain(r.res, s)}
      BY <3>1, <3>5, ToReplayItems
    <3>7. Promotes(log, base[b], v)
      BY <1>4, <2>4, <3>4, <3>6 DEF Known, Promotes, SameVerdict, Winning
    <3>8. r.pc \in Verdict /\ v.pc \in Verdict
      BY <2>4, <3>4 DEF Verdict
    <3>9. Facts(log, base, registry, rows', req')
      BY <1>1, <1>2, <2>2, <2>4, <3>3, <3>4, <3>6, <3>7, <3>8, VerdictFacts DEF LooksUp
    <3> QED
      BY <1>3, <2>1, <3>9 DEF KInv
  <2> QED
    BY <2>1, <2>3, <2>4
<1>7. CASE ReadReplayVersion(m)
  <2>1. r.pc = "replay" /\ r.todo # <<>> /\ UNCHANGED <<registry, rows>>
    BY <1>2, <1>7 DEF ReadReplayVersion
  <2>2. CASE Return(m)
    <3>1. Facts(log, base, registry, rows, req')
      BY <1>1, <2>2, EndFacts
    <3> QED
      BY <1>3, <2>1, <3>1 DEF KInv
  <2>3. CASE ~ Return(m)
    <3>1. PinHolds(r) /\ Goto(m, "reappend")
      BY <1>2, <1>7, <2>3 DEF ReadReplayVersion
    <3>2. PICK v : Moved(r, v, "reappend") /\ req' = [req EXCEPT ![m] = v]
      BY <1>1, <1>2, <3>1, GotoMoves
    <3>3. SameVerdict(r, v) /\ v.pc = "reappend" /\ v.pc \in Verdict /\ r.pc \in Verdict
      BY <1>1, <1>2, <1>4, <2>1, <3>2, MovedVerdict DEF Verdict
    <3>4. v.todo = r.todo
      BY <1>1, <1>2, <2>1, <3>2, MovedSays
    <3>5. r.todo \in Seq(StreamsOf(r.replay))
      BY <1>4, <2>1 DEF Known, Pinned, Planning
    <3>6. PICK s : s = Head(r.todo)
      OBVIOUS
    <3>7. r.pins[s] = 0 => OwnEvents(log, s, Main) = {}
      <4>1. r.pins[s] = StreamVersion(log, s, Main)
        BY <3>1, <3>6 DEF PinHolds
      <4>2. /\ IsTop(OwnEvents(log, s, Main), StreamVersion(log, s, Main))
            /\ \A e \in OwnEvents(log, s, Main) : e.version \in Nat \ {0}
        BY <1>1, Versions
      <4> QED
        BY <4>1, <4>2 DEF IsTop
    <3>8. Promotes(log, base[b], v)
      <4>1. \A x \in ReplaysIn(log, v.branch) : log[x.body.from] \in EventsOf(v.replay)
        BY <1>4, <2>1, <3>3 DEF Known, Promotes, SameVerdict, Winning
      <4>2. \A t \in StreamsOf(v.replay) :
              ResolvedToMain(v.res, t) \/ t \in Items(v.todo) \/ Promoted(log, base[b], v, t)
        BY <1>4, <2>1, <3>3, <3>4 DEF Known, Promotes, SameVerdict, Promoted
      <4>3. v.todo # <<>> /\ (v.pins[Head(v.todo)] = 0 => OwnEvents(log, Head(v.todo), Main) = {})
        BY <2>1, <3>3, <3>4, <3>6, <3>7 DEF SameVerdict
      <4> QED
        BY <3>3, <4>1, <4>2, <4>3 DEF Promotes
    <3>9. Facts(log, base, registry, rows, req')
      BY <1>1, <1>2, <2>1, <3>2, <3>3, <3>4, <3>5, <3>8, VerdictFacts DEF LooksUp
    <3> QED
      BY <1>3, <2>1, <3>9 DEF KInv
  <2> QED
    BY <2>2, <2>3
<1>8. CASE FinishMerge(m)
  <2>1. Return(m) /\ UNCHANGED <<registry, rows>>
    BY <1>8 DEF FinishMerge
  <2>2. Facts(log, base, registry, rows, req')
    BY <1>1, <2>1, EndFacts
  <2> QED
    BY <1>3, <2>1, <2>2 DEF KInv
<1> QED
  BY <1>5, <1>6, <1>7, <1>8

(***************************************************************************)
(* The batch a replay appends: the branch's events on the stream, each     *)
(* with where it comes from.                                               *)
(***************************************************************************)
LEMMA BatchIs ==
  ASSUME NEW l, WellStored(l), Typed(l), NEW r, Plans(l, r), r.pc \in Planning,
         NEW s \in StreamsOf(r.replay), NEW own, own = OnStream(r.replay, s),
         NEW batch, batch = ReplayBatch(r, s)
  PROVE  /\ Placed(own) /\ EventsOf(own) = {e \in EventsOf(r.replay) : e.stream = s}
         /\ Len(own) \in Nat /\ Len(own) > 0 /\ Len(batch) = Len(own) /\ IsBatch(batch)
         /\ \A k \in 1..Len(own) :
              /\ own[k] \in EventsOf(r.replay) /\ own[k] \in EventsOf(l)
              /\ own[k].stream = s /\ own[k].branch = r.branch
              /\ own[k].position \in 1..Len(l) /\ l[own[k].position] = own[k]
              /\ "type" \in DOMAIN batch[k]
              /\ batch[k].from = own[k].position /\ batch[k].type = own[k].body.type
<1>1. /\ IsLog(r.replay) /\ Len(r.replay) \in Nat /\ Ordered(r.replay)
      /\ \A e \in EventsOf(r.replay) : e \in EventsOf(l) /\ e.branch = r.branch
  BY DEF Plans
<1>2. \A e \in EventsOf(l) : /\ e.position \in 1..Len(l) /\ l[e.position] = e
                             /\ "from" \in DOMAIN e.body
  BY LogOrdered
<1>3. Placed(r.replay)
  <2>1. \A e \in EventsOf(r.replay) : e.position \in Nat
    BY <1>1, <1>2
  <2> QED
    BY <1>1, <2>1 DEF Placed
<1>4. Placed(own) /\ EventsOf(own) = {e \in EventsOf(r.replay) : e.stream = s}
  BY <1>3, OnStreamPlaced
<1>5. Len(own) \in Nat
  BY <1>4 DEF Placed
<1>6. Len(own) > 0
  <2>1. \E e \in EventsOf(r.replay) : e.stream = s
    BY <1>1, StreamsOfLog
  <2>2. EventsOf(own) # {}
    BY <1>4, <2>1
  <2> QED
    BY <1>5, <2>2 DEF EventsOf
<1>7. batch = [i \in 1..Len(own) |-> [own[i].body EXCEPT !.from = own[i].position]]
  BY DEF ReplayBatch
<1>8. Len(batch) = Len(own)
  BY <1>5, <1>7
<1>9. ASSUME NEW k \in 1..Len(own)
      PROVE  /\ own[k] \in EventsOf(r.replay) /\ own[k] \in EventsOf(l)
             /\ own[k].stream = s /\ own[k].branch = r.branch
             /\ own[k].position \in 1..Len(l) /\ l[own[k].position] = own[k]
             /\ "type" \in DOMAIN batch[k] /\ "from" \in DOMAIN batch[k]
             /\ batch[k].from = own[k].position /\ batch[k].type = own[k].body.type
  <2>1. own[k] \in EventsOf(own)
    BY DEF EventsOf
  <2>2. own[k] \in EventsOf(r.replay) /\ own[k].stream = s
    BY <1>4, <2>1
  <2>3. own[k] \in EventsOf(l) /\ own[k].branch = r.branch
    BY <1>1, <2>2
  <2>4. "from" \in DOMAIN own[k].body /\ "type" \in DOMAIN own[k].body
    BY <1>2, <2>3 DEF Typed
  <2>5. batch[k] = [own[k].body EXCEPT !.from = own[k].position]
    BY <1>7
  <2>6. /\ "type" \in DOMAIN batch[k] /\ "from" \in DOMAIN batch[k]
        /\ batch[k].from = own[k].position /\ batch[k].type = own[k].body.type
    BY <2>4, <2>5
  <2> QED
    BY <1>2, <2>2, <2>3, <2>6
<1>10. IsBatch(batch)
  BY <1>5, <1>8, <1>9 DEF IsBatch
<1> QED
  BY <1>4, <1>5, <1>6, <1>8, <1>9, <1>10

(***************************************************************************)
(* Once replayed, a stream is promoted: had main deleted it before the     *)
(* decisions, a branch that did not would have been refused.               *)
(***************************************************************************)
LEMMA ReplayPromotes ==
  ASSUME NEW l, WellStored(l), Typed(l), NEW n, NEW r, Plans(l, r), r.pc = "reappend",
         r.judged \in 0..Len(l), NEW s \in StreamsOf(r.replay), Settled(l, n, r, s),
         NEW cur \in Nat, NEW m, Grown(l, m, s, Main),
         GrowsBy(l, m, s, Main, cur, ReplayBatch(r, s))
  PROVE  ResolvedToMain(r.res, s) \/ Promoted(m, n, r, s)
<1>1. PICK own, batch : own = OnStream(r.replay, s) /\ batch = ReplayBatch(r, s)
  OBVIOUS
<1>2. /\ Placed(own) /\ EventsOf(own) = {e \in EventsOf(r.replay) : e.stream = s}
      /\ Len(own) \in Nat /\ Len(own) > 0 /\ Len(batch) = Len(own) /\ IsBatch(batch)
      /\ \A k \in 1..Len(own) :
           batch[k].from = own[k].position /\ batch[k].type = own[k].body.type
  BY <1>1, BatchIs DEF Planning
<1>3. /\ Len(l) \in Nat /\ Len(m) = Len(l) + Len(own) /\ IsLog(l)
      /\ \A k \in 1..Len(own) : m[Len(l) + k] = StoredAt(l, s, Main, cur, batch, k)
  <2>1. IsLog(l) /\ Len(batch) \in Nat
    BY <1>2 DEF WellStored
  <2>2. /\ Len(l) \in Nat /\ Len(m) = Len(l) + Len(batch)
        /\ \A k \in 1..Len(batch) : m[Len(l) + k] = StoredAt(l, s, Main, cur, batch, k)
    <3>1. GrowsBy(l, m, s, Main, cur, batch)
      BY <1>1
    <3>2. /\ IsLog(m)
          /\ Len(l) \in Nat /\ Len(m) = Len(l) + Len(batch)
          /\ \A i \in 1..Len(l) : m[i] = l[i]
          /\ \A k \in 1..Len(batch) : m[Len(l) + k] = StoredAt(l, s, Main, cur, batch, k)
          /\ EventsOf(m) = EventsOf(l) \union StoredEvents(l, s, Main, cur, batch)
      BY <2>1, <3>1, ManyMore
    <3> QED
      BY <3>2
  <2> QED
    BY <1>2, <2>1, <2>2
<1>4. CopiedAt(m, s, own, Len(l))
  <2>1. ASSUME NEW i \in 1..Len(own)
        PROVE  /\ m[Len(l) + i].stream = s /\ m[Len(l) + i].branch = Main
               /\ m[Len(l) + i].body.from = own[i].position
               /\ m[Len(l) + i].body.type = own[i].body.type
    <3>1. m[Len(l) + i] = StoredAt(l, s, Main, cur, batch, i)
      BY <1>3
    <3>2. /\ m[Len(l) + i].stream = s /\ m[Len(l) + i].branch = Main
          /\ m[Len(l) + i].body = batch[i]
      BY <3>1 DEF StoredAt
    <3> QED
      BY <1>2, <3>2
  <2>2. Len(l) + Len(own) <= Len(m)
    BY <1>2, <1>3
  <2> QED
    BY <2>1, <2>2 DEF CopiedAt
<1>5. ASSUME ~ ResolvedToMain(r.res, s) PROVE DeleteToo(m, s, n, r.judged, own)
  <2> SUFFICES ASSUME NEW d \in OwnEvents(m, s, Main), d.body.type = "Deleted",
                      n < d.position, d.position <= r.judged,
                      \A i \in 1..Len(own) : own[i].body.type # "Deleted"
               PROVE  FALSE
    BY DEF DeleteToo
  <2>1. d \in EventsOf(l)
    <3>1. \A e \in EventsOf(m) \ EventsOf(l) : e.position \in Nat /\ e.position > Len(l)
      BY GrownPositions
    <3> QED
      BY <1>3, <3>1 DEF OwnEvents
  <2>2. d \in OwnEvents(l, s, Main) /\ d.position > n
    <3>1. d.position \in Nat
      BY <2>1, LogOrdered
    <3> QED
      BY <2>1 DEF OwnEvents
  <2>3. PICK since : since = MainSince(l, s, n)
    OBVIOUS
  <2>4. Placed(since) /\ d \in EventsOf(since) /\ \A e \in EventsOf(since) : e.stream = s
    BY <2>2, <2>3, MainSinceIs
  <2>5. \A e \in EventsOf(own) : e.stream = s /\ e.body.type # "Deleted"
    BY <1>2 DEF EventsOf
  <2>6. EventsOf(own) # {}
    <3>1. own[1] \in EventsOf(own)
      BY <1>2 DEF EventsOf
    <3> QED
      BY <3>1
  <2>7. PICK c \in ClassifyConflicts(own, since, <<>>) : c.supported = {"main"}
    BY <1>2, <2>4, <2>5, <2>6, DeleteConflict
  <2>8. s \in DOMAIN r.res /\ r.res[s] \in c.supported
    BY <1>1, <2>3, <2>7 DEF Settled
  <2> QED
    BY <1>5, <2>7, <2>8 DEF ResolvedToMain
<1>6. ASSUME ~ ResolvedToMain(r.res, s) PROVE Promoted(m, n, r, s)
  <2>1. Len(l) \in 0..Len(m) /\ r.judged <= Len(l)
    BY <1>2, <1>3
  <2> QED
    BY <1>1, <1>4, <1>5, <1>6, <2>1 DEF Promoted
<1> QED
  BY <1>6

(***************************************************************************)
(* What a replay appends comes from its own branch.                        *)
(***************************************************************************)
LEMMA ReplayFrom ==
  ASSUME NEW l, WellStored(l), Typed(l), NEW r, Plans(l, r), r.pc = "reappend",
         NEW s \in StreamsOf(r.replay), NEW cur \in Nat, NEW m, Longer(l, m),
         GrowsBy(l, m, s, Main, cur, ReplayBatch(r, s)),
         NEW e \in EventsOf(m) \ EventsOf(l)
  PROVE  m[e.body.from] \in EventsOf(r.replay) /\ m[e.body.from].branch = r.branch
<1>1. PICK own, batch : own = OnStream(r.replay, s) /\ batch = ReplayBatch(r, s)
  OBVIOUS
<1>2. /\ Len(own) \in Nat /\ Len(batch) = Len(own) /\ IsBatch(batch)
      /\ \A k \in 1..Len(own) :
           /\ own[k] \in EventsOf(r.replay) /\ own[k].branch = r.branch
           /\ own[k].position \in 1..Len(l) /\ l[own[k].position] = own[k]
           /\ batch[k].from = own[k].position
  BY <1>1, BatchIs DEF Planning
<1>3. EventsOf(m) = EventsOf(l) \union StoredEvents(l, s, Main, cur, batch)
  BY <1>1, <1>2, Appended
<1>4. PICK k \in 1..Len(own) : e = StoredAt(l, s, Main, cur, batch, k)
  BY <1>2, <1>3 DEF StoredEvents
<1>5. e.body.from = own[k].position
  BY <1>2, <1>4 DEF StoredAt
<1>6. m[own[k].position] = l[own[k].position]
  BY <1>2 DEF Longer
<1> QED
  BY <1>2, <1>5, <1>6

(***************************************************************************)
(* When the append of a stream's replay is accepted, main has the pinned   *)
(* version, or neither has any: every conflict is decided.                 *)
(***************************************************************************)
LEMMA ReplaySettled ==
  ASSUME IInv, KInv, NEW x \in Mergers, NEW r, r = req[x], r.pc = "reappend",
         NEW s, s = Head(r.todo), AppendTo(s, Main, ReplayBatch(r, s), ReplayExpects(r))
  PROVE  s \in StreamsOf(r.replay) /\ Settled(log, base[r.branch], r, s)
<1>1. PICK n : n = base[r.branch]
  OBVIOUS
<1>2. WellStored(log) /\ Known(log, n, r)
  <2>1. x \in Requests
    BY DEF Requests
  <2> QED
    BY <1>1, <2>1 DEF IInv, Inv, LogInv, KInv, Facts, Knows
<1>3. r.todo \in Seq(StreamsOf(r.replay)) /\ r.todo # <<>>
  BY <1>2 DEF Known, Pinned, Promotes, Planning
<1>4. s \in StreamsOf(r.replay)
  BY <1>3, RestOfWork
<1>5. Accepts(ReplayExpects(r), Current(s, Main)) /\ Current(s, Main) \in Nat
  BY <1>2, AppendGrows
<1>6. Current(s, Main) = StreamVersion(log, s, Main)
  BY <1>2, Continues DEF Current
<1>7. r.pins[s] = StreamVersion(log, s, Main)
  <2>1. r.pins[s] \in Nat
    BY <1>2, <1>4 DEF Known, Pinned, Planning
  <2>2. CASE r.pins[s] = 0
    <3>1. OwnEvents(log, s, Main) = {}
      BY <1>2, <2>2 DEF Known, Promotes
    <3> QED
      BY <2>2, <3>1 DEF StreamVersion, TopVersion
  <2>3. CASE r.pins[s] # 0
    BY <1>5, <1>6, <2>1, <2>3 DEF ReplayExpects, Accepts
  <2> QED
    BY <2>2, <2>3
<1>8. Settled(log, n, r, s)
  BY <1>2, <1>4, <1>7 DEF Known, Judged, Verdict
<1> QED
  BY <1>1, <1>4, <1>8

(***************************************************************************)
(* The replay of one stream.                                               *)
(***************************************************************************)
LEMMA ReplayKeepsFacts ==
  ASSUME IInv, KInv, NEW x \in Mergers, ReplayStream(x)
  PROVE  KInv'
<1>1. /\ Inv(log, req) /\ Facts(log, base, registry, rows, req)
      /\ Slots(req) /\ WellStored(log) /\ Len(log) \in Nat /\ Knows(log, base, req)
      /\ LogFacts(log, base) /\ Registered(base, registry) /\ Overlaid(log, rows)
      /\ x \in Requests /\ Carries(req[x]) /\ LogInv(log) /\ OneWins(req)
  BY LogOrdered DEF IInv, KInv, Facts, Inv, LogInv, Requests, Slots
<1>2. PICK r, b, s : r = req[x] /\ b = r.branch /\ s = Head(r.todo)
  OBVIOUS
<1>3. PICK n : n = base[b]
  OBVIOUS
<1>4. r.pc = "reappend" /\ UNCHANGED <<base, registry, rows>>
  BY <1>2 DEF ReplayStream
<1>5. /\ Known(log, n, r) /\ r.pc \in Verdict /\ n \in 0..Len(log)
      /\ b \in Branches /\ Plans(log, r)
  BY <1>1, <1>2, <1>3, <1>4, BaseKnown DEF Knows, Verdict, Carries, Inv, Agrees
<1>6. CASE Return(x) /\ UNCHANGED log
  <2>1. Facts(log, base, registry, rows, req')
    BY <1>1, <1>6, EndFacts
  <2> QED
    BY <1>4, <1>6, <2>1 DEF KInv
<1>7. CASE /\ AppendTo(s, Main, ReplayBatch(r, s), ReplayExpects(r))
           /\ req' = [req EXCEPT ![x].pc = "replay", ![x].todo = Tail(@)]
  <2>1. r.todo \in Seq(StreamsOf(r.replay)) /\ r.todo # <<>>
    BY <1>4, <1>5 DEF Known, Pinned, Promotes, Planning
  <2>2. /\ s \in StreamsOf(r.replay) /\ Tail(r.todo) \in Seq(StreamsOf(r.replay))
        /\ Items(r.todo) \subseteq {s} \union Items(Tail(r.todo))
    BY <1>2, <2>1, RestOfWork
  <2>3. IsLog(r.replay) /\ \A e \in EventsOf(r.replay) : e \in EventsOf(log) /\ e.branch = b
    BY <1>2, <1>4, <1>5 DEF Plans, Planning
  <2>4. PICK o \in EventsOf(r.replay) : o.stream = s
    BY <2>2, <2>3, StreamsOfLog
  <2>5. s \in Streams
    BY <1>4, <1>5, <2>4 DEF Known, Reads, Planning
  <2>6. PICK cur, batch : cur = Current(s, Main) /\ batch = ReplayBatch(r, s)
    OBVIOUS
  <2>7. /\ cur \in Nat /\ Accepts(ReplayExpects(r), cur)
        /\ GrowsBy(log, log', s, Main, cur, batch)
    BY <1>1, <1>7, <2>6, AppendGrows
  <2>8. cur = StreamVersion(log, s, Main)
    BY <1>1, <2>6, Continues DEF Current
  <2>9. /\ Len(batch) > 0 /\ IsBatch(batch)
        /\ \A k \in 1..Len(batch) : "type" \in DOMAIN batch[k]
    <3>1. PICK own : own = OnStream(r.replay, s)
      OBVIOUS
    <3>2. /\ Len(own) > 0 /\ Len(batch) = Len(own) /\ IsBatch(batch)
          /\ \A k \in 1..Len(own) : "type" \in DOMAIN batch[k]
      BY <1>1, <1>4, <1>5, <2>2, <2>6, <3>1, BatchIs DEF Planning, LogFacts
    <3> QED
      BY <3>2
  <2>10. Grown(log, log', s, Main)
    BY <1>1, <2>5, <2>7, <2>8, <2>9, BatchGrows
  <2>11. MayWrite(log, base, s, Main)
    BY BranchesApart DEF MayWrite
  <2>12. \A e \in EventsOf(log') \ EventsOf(log) :
           log'[e.body.from] \in EventsOf(r.replay) /\ log'[e.body.from].branch = b
    BY <1>1, <1>2, <1>4, <1>5, <2>2, <2>6, <2>7, <2>10, ReplayFrom DEF Grown, LogFacts
  <2>13. ASSUME NEW y \in Requests \ {x}, req[y].pc # "idle"
         PROVE  Apart(log, log', s, Main, req[y])
    <3>1. req[y].pc \in Winning => req[y].branch # b
      BY <1>1, <1>2, <1>4 DEF OneWins, Winning
    <3>2. ASSUME req[y].pc = "reappend", s = Head(req[y].todo)
          PROVE  OwnEvents(log, s, Main) # {}
      <4>1. Known(log, base[req[y].branch], req[y]) /\ Plans(log, req[y])
        BY <1>1, <2>13 DEF Knows, Inv, Agrees
      <4>2. req[y].todo \in Seq(StreamsOf(req[y].replay)) /\ req[y].todo # <<>>
        BY <3>2, <4>1 DEF Known, Pinned, Promotes, Planning
      <4>3. s \in StreamsOf(req[y].replay)
        BY <3>2, <4>2, RestOfWork
      <4>4. /\ IsLog(req[y].replay)
            /\ \A e \in EventsOf(req[y].replay) : e \in EventsOf(log) /\ e.branch = req[y].branch
        BY <3>2, <4>1 DEF Plans, Planning
      <4>5. PICK d \in EventsOf(log) : d.stream = s /\ d.branch = req[y].branch
        BY <4>3, <4>4, StreamsOfLog
      <4>6. o \in EventsOf(log) /\ o.branch = b
        BY <2>3, <2>4
      <4>7. req[y].branch # b
        BY <3>1, <3>2 DEF Winning
      <4> QED
        BY <1>1, <2>4, <2>5, <4>5, <4>6, <4>7 DEF LogFacts, Shared
    <3> QED
      BY <2>12, <3>1, <3>2 DEF Apart
  <2>14. PICK v : v = [r EXCEPT !.pc = "replay", !.todo = Tail(@)]
    OBVIOUS
  <2>15. req' = [req EXCEPT ![x] = v]
    BY <1>2, <1>7, <2>14
  <2>16. {"pc", "branch", "replay", "pins", "todo", "planned", "res", "judged"} \subseteq DOMAIN r
    BY <1>1, <1>2, <1>4, <1>5 DEF Carries, Known, Reads, Judged, Planning
  <2>17. SameVerdict(r, v) /\ v.pc = "replay" /\ v.todo = Tail(r.todo)
    BY <2>14, <2>16 DEF SameVerdict
  <2>18. v.pc \in Verdict /\ v.todo \in Seq(StreamsOf(r.replay)) /\ v.branch = b
    <3>1. v.pc \in Verdict
      BY <2>17 DEF Verdict
    <3> QED
      BY <1>2, <2>2, <2>17, <3>1 DEF SameVerdict
  <2>19. /\ Reads(log', n, r) /\ Pinned(log', r) /\ Judged(log', n, r)
         /\ n \in 0..Len(log')
    BY <1>5, <2>10, ReadsStay, JudgedStays, GrownPositions DEF Known
  <2>20. r.judged \in 0..Len(log)
    BY <1>5 DEF Known, Judged
  <2>21. Settled(log, n, r, s)
    BY <1>2, <1>3, <1>4, <1>7, ReplaySettled
  <2>22. ResolvedToMain(r.res, s) \/ Promoted(log', n, r, s)
    BY <1>1, <1>4, <1>5, <2>2, <2>6, <2>7, <2>10, <2>20, <2>21, ReplayPromotes DEF LogFacts
  <2>23. Promotes(log', n, v)
    <3>1. \A e \in ReplaysIn(log', v.branch) : log'[e.body.from] \in EventsOf(v.replay)
      <4> SUFFICES ASSUME NEW e \in ReplaysIn(log', b)
                   PROVE  log'[e.body.from] \in EventsOf(r.replay)
        BY <2>17, <2>18 DEF SameVerdict
      <4>1. e \in EventsOf(log') /\ e.body.from # 0 /\ log'[e.body.from].branch = b
        BY DEF ReplaysIn
      <4>2. CASE e \in EventsOf(log)
        <5>1. log'[e.body.from] = log[e.body.from]
          BY <1>1, <2>10, <4>1, <4>2, OldReplays DEF Grown, LogInv
        <5>2. e \in ReplaysIn(log, b)
          BY <4>1, <4>2, <5>1 DEF ReplaysIn
        <5> QED
          BY <1>2, <1>4, <1>5, <5>1, <5>2 DEF Known, Promotes, Winning
      <4>3. CASE e \notin EventsOf(log)
        BY <2>12, <4>1, <4>3
      <4> QED
        BY <4>2, <4>3
    <3>2. ASSUME NEW t \in StreamsOf(r.replay)
          PROVE  ResolvedToMain(r.res, t) \/ t \in Items(Tail(r.todo)) \/ Promoted(log', n, r, t)
      <4>1. ResolvedToMain(r.res, t) \/ t \in Items(r.todo) \/ Promoted(log, n, r, t)
        BY <1>4, <1>5 DEF Known, Promotes
      <4>2. Len(OnStream(r.replay, t)) \in Nat
        <5>1. Len(r.replay) \in Nat
          BY <1>4, <1>5 DEF Plans, Planning
        <5> QED
          BY <5>1, OnlyInItems DEF OnStream
      <4>3. Promoted(log, n, r, t) => Promoted(log', n, r, t)
        BY <2>10, <2>20, <4>2, PromotedStays
      <4> QED
        BY <2>2, <2>22, <4>1, <4>3
    <3> QED
      BY <2>17, <3>1, <3>2 DEF Promotes, Promoted, SameVerdict
  <2>24. Known(log', n, v)
    BY <1>2, <1>4, <1>5, <2>17, <2>18, <2>19, <2>23, VerdictKnown DEF LooksUp
  <2>25. Facts(log', base, registry, rows, req')
    BY <1>1, <1>3, <2>10, <2>11, <2>13, <2>15, <2>17, <2>18, <2>24, FactsGrow
  <2> QED
    BY <1>4, <2>25 DEF KInv
<1> QED
  BY <1>2, <1>6, <1>7 DEF ReplayStream

-----------------------------------------------------------------------------
(* The first states.                                                       *)

\* l is what the first n writes of the history left, event by event.
Mirrors(l, history, n) ==
  /\ WellStored(l) /\ Len(l) = n
  /\ \A i \in 1..n : /\ l[i].stream = history[i].stream /\ l[i].branch = history[i].branch
                     /\ l[i].body = Payload(history[i].body, 0)

(***************************************************************************)
(* One more write.                                                         *)
(***************************************************************************)
LEMMA MirrorWrite ==
  ASSUME NEW history \in Histories, NEW i \in 1..Len(history),
         NEW l, Mirrors(l, history, i - 1)
  PROVE  Mirrors(WriteOne(history, l, i), history, i)
<1>0. PICK m : m = WriteOne(history, l, i)
  OBVIOUS
<1>1. PICK w : w = history[i]
  OBVIOUS
<1>2. PICK from : from = IF w.branch \in {Main, w.stream} THEN 0 ELSE BaseIn(history, w.branch)
  OBVIOUS
<1>3. PICK cur : cur = CurrentVersion(l, StreamVersion(l, w.stream, w.branch),
                                      w.stream, w.branch, from)
  OBVIOUS
<1>4. PICK s, b, batch : s = w.stream /\ b = w.branch /\ batch = <<Payload(w.body, 0)>>
  OBVIOUS
<1>5. GrowsBy(l, m, s, b, cur, batch)
  BY <1>0, <1>1, <1>2, <1>3, <1>4 DEF WriteOne, GrowsBy
<1>6. WellStored(l) /\ cur \in Nat /\ Len(l) = i - 1 /\ i \in Nat
  <2>1. WellStored(l) /\ Len(l) = i - 1
    BY DEF Mirrors
  <2>2. cur \in Nat
    BY <1>3, <2>1, Continues
  <2>3. i \in Nat
    BY HistoriesWritten
  <2> QED
    BY <2>1, <2>2, <2>3
<1>7. Len(batch) = 1 /\ batch[1] = Payload(w.body, 0)
  BY <1>4
<1>8. IsBatch(batch)
  BY <1>7, PayloadSays DEF IsBatch
<1>9. WellStored(m)
  <2>1. Longer(l, m)
    BY <1>5, <1>6, <1>8, Appended
  <2> QED
    BY <2>1 DEF Longer
<1>10. /\ IsLog(m)
       /\ Len(l) \in Nat /\ Len(m) = Len(l) + Len(batch)
       /\ \A j \in 1..Len(l) : m[j] = l[j]
       /\ \A k \in 1..Len(batch) : m[Len(l) + k] = StoredAt(l, s, b, cur, batch, k)
       /\ EventsOf(m) = EventsOf(l) \union StoredEvents(l, s, b, cur, batch)
  <2>1. IsLog(l) /\ Len(batch) \in Nat
    BY <1>6, <1>7 DEF WellStored
  <2> QED
    BY <1>5, <2>1, ManyMore
<1>11. m[i] = StoredAt(l, s, b, cur, batch, 1)
  <2>1. 1 \in 1..Len(batch) /\ Len(l) + 1 = i
    BY <1>6, <1>7
  <2> QED
    BY <1>10, <2>1
<1>12. m[i].stream = s /\ m[i].branch = b /\ m[i].body = Payload(w.body, 0)
  BY <1>7, <1>11 DEF StoredAt
<1>13. ASSUME NEW j \in 1..i
       PROVE  /\ m[j].stream = history[j].stream /\ m[j].branch = history[j].branch
              /\ m[j].body = Payload(history[j].body, 0)
  <2>1. CASE j = i
    BY <1>1, <1>4, <1>12, <2>1
  <2>2. CASE j # i
    <3>1. j \in 1..(i - 1) /\ j \in 1..Len(l)
      BY <1>6, <2>2
    <3> QED
      BY <1>10, <3>1 DEF Mirrors
  <2> QED
    BY <2>1, <2>2
<1>14. Len(m) = i
  BY <1>6, <1>7, <1>10
<1> QED
  BY <1>0, <1>9, <1>13, <1>14 DEF Mirrors

(***************************************************************************)
(* The log of the first state has the history, write by write.             *)
(***************************************************************************)
LEMMA WrittenMirrors ==
  ASSUME NEW history \in Histories
  PROVE  Mirrors(Written(history), history, Len(history))
<1> DEFINE n == Len(history)
<1>0. n \in Nat
  BY HistoriesWritten
<1>1. PICK f : f = CHOOSE x : IsWritten(x, history, n)
  OBVIOUS
<1>2. IsWritten(f, history, n) /\ Written(history) = f[n]
  BY <1>0, <1>1, WrittenExists, WrittenIs
<1>3. \A i \in 0..n : f[i] = IF i = 0 THEN <<>> ELSE WriteOne(history, f[i - 1], i)
  BY <1>2 DEF IsWritten
<1> DEFINE T == {i \in 0..n : ~ Mirrors(f[i], history, i)}
<1>4. T = {}
  <2> SUFFICES ASSUME T # {} PROVE FALSE
    OBVIOUS
  <2>1. PICK i \in T : \A j \in T : i <= j
    <3>1. T \subseteq Nat
      BY <1>0
    <3> HIDE DEF T
    <3> QED
      BY <3>1, LeastNatural
  <2>2. Mirrors(f[0], history, 0)
    <3>1. f[0] = <<>>
      BY <1>0, <1>3
    <3>2. PICK l : l = <<>>
      OBVIOUS
    <3>3. l \in Seq({}) /\ Len(l) = 0
      BY <3>2
    <3>4. IsLog(l)
      BY <3>3 DEF IsLog
    <3>5. WellStored(l)
      BY <3>3, <3>4 DEF WellStored
    <3> QED
      BY <3>1, <3>2, <3>3, <3>5 DEF Mirrors
  <2>3. i \in 0..n /\ i # 0
    BY <2>1, <2>2
  <2>4. i \in 1..n /\ i - 1 \in 0..n
    BY <1>0, <2>3
  <2>5. Mirrors(f[i - 1], history, i - 1)
    <3>1. ~ (i <= i - 1)
      BY <1>0, <2>3
    <3>2. i - 1 \notin T
      BY <2>1, <3>1
    <3> QED
      BY <2>4, <3>2
  <2>6. f[i] = WriteOne(history, f[i - 1], i)
    BY <1>3, <2>3
  <2>7. Mirrors(f[i], history, i)
    BY <2>4, <2>5, <2>6, MirrorWrite
  <2> QED
    BY <2>1, <2>7
<1>5. n \in 0..n
  BY <1>0
<1> QED
  BY <1>2, <1>4, <1>5

(***************************************************************************)
(* The base of a branch is where its history opened it.                    *)
(***************************************************************************)
LEMMA BaseIs ==
  ASSUME NEW history \in Histories, NEW b \in Branches
  PROVE  /\ \A o \in 1..Len(history) : history[o].stream = b => BaseIn(history, b) = o - 1
         /\ BaseIn(history, b) = NoBase \/ BaseIn(history, b) \in 0..Len(history)
<1>1. /\ Len(history) \in Nat /\ DOMAIN history = 1..Len(history)
      /\ \A i \in 1..Len(history) :
           \/ Opening(history, i)
           \/ history[i].stream \in Streams /\ history[i].branch = Main
           \/ OnBranch(history, i)
  BY HistoriesWritten
<1>2. ASSUME NEW o \in 1..Len(history), history[o].stream = b
      PROVE  BaseIn(history, b) = o - 1 /\ o - 1 \in 0..Len(history)
  <2>1. b \notin Streams
    BY BranchesApart
  <2>2. Opening(history, o)
    BY <1>1, <1>2, <2>1 DEF OnBranch
  <2>3. \A j \in DOMAIN history : history[j].stream = b => j = o
    BY <1>2, <2>2 DEF Opening
  <2>4. (CHOOSE i \in DOMAIN history : history[i].stream = b) = o
    BY <1>1, <1>2, <2>3
  <2>5. \E i \in DOMAIN history : history[i].stream = b
    BY <1>1, <1>2
  <2>6. BaseIn(history, b) = o - 1
    BY <2>4, <2>5 DEF BaseIn
  <2> QED
    BY <1>1, <2>6
<1>3. (\A i \in 1..Len(history) : history[i].stream # b) => BaseIn(history, b) = NoBase
  BY <1>1 DEF BaseIn
<1> QED
  BY <1>2, <1>3

(***************************************************************************)
(* What a history has on a branch it has after the branch's base, and on   *)
(* nothing main had deleted by then; two branches share what main has.     *)
(***************************************************************************)
LEMMA HistoryFacts ==
  ASSUME NEW h \in Histories, NEW l, Mirrors(l, h, Len(h)),
         NEW f, f = [b \in Branches |-> BaseIn(h, b)]
  PROVE  LogFacts(l, f)
<1>1. /\ Len(h) \in Nat /\ DOMAIN h = 1..Len(h) /\ Len(l) = Len(h) /\ WellStored(l)
      /\ \A i \in 1..Len(h) :
           /\ "type" \in DOMAIN h[i].body
           /\ \/ Opening(h, i)
              \/ h[i].stream \in Streams /\ h[i].branch = Main
              \/ OnBranch(h, i)
  BY HistoriesWritten DEF Mirrors
<1>2. ASSUME NEW i \in 1..Len(h)
      PROVE  /\ l[i].stream = h[i].stream /\ l[i].branch = h[i].branch /\ l[i].position = i
             /\ "type" \in DOMAIN l[i].body /\ l[i].body.type = h[i].body.type
             /\ l[i] \in EventsOf(l)
  <2>1. /\ l[i].stream = h[i].stream /\ l[i].branch = h[i].branch
        /\ l[i].body = Payload(h[i].body, 0)
    BY DEF Mirrors
  <2>2. Payload(h[i].body, 0).type = h[i].body.type
    BY <1>1, PayloadSays
  <2>3. "type" \in DOMAIN Payload(h[i].body, 0)
    BY <1>1 DEF Payload
  <2> QED
    BY <1>1, <2>1, <2>2, <2>3 DEF WellStored, EventsOf
<1>3. \A e \in EventsOf(l) : \E i \in 1..Len(h) : e = l[i]
  BY <1>1 DEF EventsOf
<1>4. Main \notin Branches /\ Branches \intersect Streams = {}
  BY BranchesApart
<1>5. Typed(l)
  <2> SUFFICES ASSUME NEW i \in 1..Len(h)
               PROVE  "type" \in DOMAIN l[i].body /\ l[i].stream \in Streams \union Branches
    BY <1>3 DEF Typed
  <2> QED
    BY <1>1, <1>2 DEF Opening, OnBranch
<1>6. \A i \in 1..Len(h) : h[i].stream \in Streams /\ h[i].branch # Main => OnBranch(h, i)
  BY <1>1, <1>4 DEF Opening
<1>7. AfterFork(l, f)
  <2> SUFFICES ASSUME NEW i \in 1..Len(h), l[i].stream \in Streams, l[i].branch \in Branches
               PROVE  /\ f[l[i].branch] \in Nat /\ l[i].position > f[l[i].branch]
                      /\ KeptTo(l, l[i].stream, f[l[i].branch])
    BY <1>3 DEF AfterFork
  <2>1. OnBranch(h, i)
    BY <1>2, <1>4, <1>6
  <2>2. PICK o \in 1..i : /\ h[o].stream = h[i].branch
                          /\ \A j \in 1..o : h[j].stream = h[i].stream /\ h[j].branch = Main
                                              => h[j].body.type # "Deleted"
    BY <2>1 DEF OnBranch
  <2>3. o \in 1..Len(h) /\ o \in Nat /\ i \in Nat /\ o <= i
    BY <1>1
  <2>4. f[l[i].branch] = o - 1
    <3>1. BaseIn(h, l[i].branch) = o - 1
      BY <1>2, <2>2, <2>3, BaseIs
    <3> QED
      BY <3>1
  <2>5. l[i].position > o - 1
    BY <1>2, <2>3
  <2>6. KeptTo(l, l[i].stream, o - 1)
    <3> SUFFICES ASSUME NEW d \in OwnEvents(l, l[i].stream, Main), d.body.type = "Deleted"
                 PROVE  d.position > o - 1
      BY DEF KeptTo
    <3>1. PICK j \in 1..Len(h) : d = l[j]
      BY <1>3 DEF OwnEvents
    <3>2. h[j].stream = h[i].stream /\ h[j].branch = Main /\ h[j].body.type = "Deleted"
      BY <1>2, <3>1 DEF OwnEvents
    <3>3. j \notin 1..o
      BY <2>2, <3>2
    <3>4. d.position = j
      BY <1>2, <3>1
    <3> QED
      BY <1>1, <2>3, <3>3, <3>4
  <2> QED
    BY <2>3, <2>4, <2>5, <2>6
<1>8. Shared(l)
  <2> SUFFICES ASSUME NEW i \in 1..Len(h), NEW j \in 1..Len(h),
                      l[i].stream \in Streams, l[i].stream = l[j].stream, l[i].branch # l[j].branch
               PROVE  OwnEvents(l, l[i].stream, Main) # {}
    BY <1>3 DEF Shared
  <2>1. ASSUME NEW k \in 1..Len(h), h[k].stream = h[i].stream, h[k].branch = Main
        PROVE  OwnEvents(l, l[i].stream, Main) # {}
    <3>1. l[k] \in OwnEvents(l, l[i].stream, Main)
      BY <1>2, <2>1 DEF OwnEvents
    <3> QED
      BY <3>1
  <2>2. CASE h[i].branch = Main
    BY <2>1, <2>2
  <2>3. CASE h[i].branch # Main
    <3>1. OnBranch(h, i)
      BY <1>2, <1>6, <2>3
    <3>2. \E k \in DOMAIN h : h[k].stream = h[i].stream /\ h[k].branch = Main
      BY <1>1, <1>2, <3>1 DEF OnBranch
    <3> QED
      BY <1>1, <2>1, <3>2
  <2> QED
    BY <2>2, <2>3
<1>9. Forks(l, f)
  BY <1>1, BaseIs DEF Forks
<1> QED
  BY <1>5, <1>7, <1>8, <1>9 DEF LogFacts

(***************************************************************************)
(* The second invariant holds at first.                                    *)
(***************************************************************************)
LEMMA InitFacts == Init => KInv
<1> SUFFICES ASSUME Init PROVE Facts(log, base, registry, rows, req)
  BY DEF KInv
<1>1. PICK history \in Histories :
        /\ log = Written(history)
        /\ base = [b \in Branches |-> BaseIn(history, b)]
        /\ registry = [b \in Branches |-> IF base[b] = NoBase THEN "none" ELSE "active"]
        /\ rows = [b \in Branches |-> [s \in Streams |->
                    IF \E e \in OwnEvents(log, s, b) : e.body.type = "Deleted" THEN Tombstone
                    ELSE StreamVersion(log, s, b)]]
        /\ req = [r \in Requests |-> Idle]
  BY DEF Init
<1>2. LogFacts(log, base)
  BY <1>1, WrittenMirrors, HistoryFacts
<1>3. Registered(base, registry)
  <2>1. \A b \in Branches : base[b] # NoBase => base[b] \in Nat
    BY <1>2 DEF LogFacts, Forks
  <2> QED
    BY <1>1, <2>1 DEF Registered
<1>4. Overlaid(log, rows)
  <2>1. ASSUME NEW b \in Branches, NEW s \in Streams, OwnEvents(log, s, b) = {}
        PROVE  rows[b][s] = 0
    BY <1>1, <2>1 DEF StreamVersion, TopVersion
  <2>2. rows = [b \in Branches |-> [s \in Streams |-> rows[b][s]]]
    BY <1>1
  <2> QED
    BY <2>1, <2>2 DEF Overlaid
<1>5. Knows(log, base, req)
  <2>1. \A r \in Requests : req[r].pc = "idle"
    BY <1>1 DEF Idle
  <2> QED
    BY <2>1 DEF Knows, CreatorsApart
<1> QED
  BY <1>2, <1>3, <1>4, <1>5 DEF Facts

-----------------------------------------------------------------------------
(* All steps.                                                              *)

(***************************************************************************)
(* Every step keeps the second invariant.                                  *)
(***************************************************************************)
LEMMA NextFacts == IInv /\ IInv' /\ KInv /\ [Next]_vars => KInv'
<1> SUFFICES ASSUME IInv, IInv', KInv, [Next]_vars PROVE KInv'
  OBVIOUS
<1>1. CASE UNCHANGED vars
  BY <1>1 DEF vars, KInv
<1>2. ASSUME NEW c \in Creators,
             AppendCreated(c) \/ RegisterBranch(c) \/ \E b \in Branches : BeginCreate(c, b)
      PROVE  KInv'
  BY <1>2, CreateKeeps
<1>3. ASSUME NEW s \in Streams, MainWrite(s) PROVE KInv'
  BY <1>3, MainKeeps
<1>4. ASSUME NEW e \in Editors,
             \/ \E b \in Branches : BeginEdit(e, b)
             \/ \E s \in Streams : LoadRow(e, s) \/ NewAggregate(e, s)
             \/ AppendEdit(e) \/ RefuseEdit(e) \/ ProjectEdit(e)
      PROVE  KInv'
  BY <1>4, EditKeeps
<1>5. ASSUME NEW d \in Deleters,
             \/ \E b \in Branches : BeginDelete(d, b)
             \/ ReadDeleteVersion(d) \/ AppendDelete(d) \/ Archive(d) \/ DropOverlay(d)
      PROVE  KInv'
  BY <1>5, DeleteKeeps
<1>6. ASSUME NEW m \in Mergers, MergeStep(m) PROVE KInv'
  BY <1>6, LoadBranchKeeps, PinKeeps, LoadMainKeeps, JudgeKeeps, CheckLinkKeeps, RecheckKeeps,
     LookupKeeps, ClaimKeepsFacts, WinnerKeeps, ReplayKeepsFacts DEF MergeStep
<1>7. ASSUME NEW m \in Mergers, NEW b \in Branches, BeginMerge(m, b) PROVE KInv'
  <2>1. /\ Inv(log, req) /\ Facts(log, base, registry, rows, req) /\ m \in Requests
        /\ LogFacts(log, base) /\ Registered(base, registry) /\ Overlaid(log, rows)
    BY DEF IInv, KInv, Facts, Requests
  <2>2. PICK v : v = [pc |-> "plan", branch |-> b]
    OBVIOUS
  <2>3. /\ req' = [req EXCEPT ![m] = v] /\ registry[b] = "active"
        /\ UNCHANGED <<log, base, registry, rows>>
    BY <1>7, <2>2 DEF BeginMerge
  <2>4. v.pc = "plan" /\ base[v.branch] \in 0..Len(log)
    BY <2>1, <2>2, <2>3, ActiveBase
  <2>5. Facts(log, base, registry, rows, req')
    BY <2>1, <2>3, <2>4, PlainFacts DEF Planning
  <2> QED
    BY <2>3, <2>5 DEF KInv
<1>8. ASSUME NEW r \in Requests, Fail(r) PROVE KInv'
  <2>1. Inv(log, req) /\ Facts(log, base, registry, rows, req)
        /\ Registered(base, registry) /\ Overlaid(log, rows)
    BY DEF IInv, KInv, Facts
  <2>2. Return(r) /\ UNCHANGED <<log, base, registry, rows>>
    BY <1>8 DEF Fail
  <2>3. Facts(log, base, registry, rows, req')
    BY <2>1, <2>2, EndFacts
  <2> QED
    BY <2>2, <2>3 DEF KInv
<1> QED
  BY <1>1, <1>2, <1>3, <1>4, <1>5, <1>6, <1>7, <1>8 DEF Next

-----------------------------------------------------------------------------
(* What follows.                                                           *)

(***************************************************************************)
(* What a merge knows when it has replayed its last stream.                *)
(***************************************************************************)
LEMMA FinishingKnows ==
  ASSUME IInv, KInv, NEW m \in Mergers, Finishing(m), NEW r, r = req[m],
         NEW n, n = base[r.branch]
  PROVE  /\ WellStored(log) /\ Typed(log) /\ AfterFork(log, base) /\ LogInv(log)
         /\ r.pc = "replay" /\ Plans(log, r) /\ r.branch \in Branches
         /\ n \in 0..Len(log) /\ Placed(r.replay)
         /\ Reads(log, n, r) /\ Whole(log, r) /\ Judged(log, n, r) /\ Promotes(log, n, r)
         /\ \A s \in StreamsOf(r.replay) : ResolvedToMain(r.res, s) \/ Promoted(log, n, r, s)
<1>1. /\ Inv(log, req) /\ Facts(log, base, registry, rows, req) /\ m \in Requests
      /\ LogInv(log) /\ LogFacts(log, base) /\ Carries(req[m])
  BY DEF IInv, KInv, Facts, Inv, Slots, Requests
<1>2. r.pc = "replay" /\ r.todo = <<>>
  BY DEF Finishing
<1>3. Known(log, n, r) /\ Plans(log, r) /\ r.branch \in Branches
  BY <1>1, <1>2 DEF Facts, Knows, Inv, Agrees, Carries
<1>4. Reads(log, n, r) /\ Judged(log, n, r) /\ Promotes(log, n, r) /\ n \in 0..Len(log)
  BY <1>2, <1>3 DEF Known, Based
<1>5. Whole(log, r)
  BY <1>2, <1>4 DEF Reads, Planning
<1>6. Items(r.todo) = {}
  BY <1>2 DEF Items
<1>7. \A s \in StreamsOf(r.replay) : ResolvedToMain(r.res, s) \/ Promoted(log, n, r, s)
  BY <1>2, <1>4, <1>6 DEF Promotes
<1>8. Placed(r.replay)
  <2>1. /\ IsLog(r.replay) /\ Len(r.replay) \in Nat /\ Ordered(r.replay)
        /\ \A e \in EventsOf(r.replay) : e \in EventsOf(log)
    BY <1>2, <1>3 DEF Plans, Planning
  <2>2. \A e \in EventsOf(log) : e.position \in Nat
    BY <1>1, LogOrdered DEF LogInv
  <2> QED
    BY <2>1, <2>2 DEF Placed
<1> QED
  BY <1>1, <1>2, <1>3, <1>4, <1>5, <1>7, <1>8 DEF LogInv, LogFacts

(***************************************************************************)
(* A linked child is on main: the replay brought it, or main had it at the *)
(* check.  If main does not have it, the delete came after the check.      *)
(***************************************************************************)
LEMMA LinkedChildFollows == IInv /\ KInv => LinkedChildExists
<1> SUFFICES ASSUME IInv, KInv, NEW m \in Mergers, Finishing(m), NEW f \in Streams,
                    ~ ResolvedToMain(req[m].res, f),
                    NEW p \in Children(OnStream(req[m].replay, f))
             PROVE  \/ MainHas(p)
                    \/ \E e \in OwnEvents(log, p, Main) :
                         e.body.type = "Deleted" /\ e.position > req[m].judged
  BY DEF LinkedChildExists
<1>1. PICK r, n : r = req[m] /\ n = base[r.branch]
  OBVIOUS
<1>2. /\ WellStored(log) /\ Typed(log) /\ AfterFork(log, base)
      /\ r.pc = "replay" /\ Plans(log, r) /\ r.branch \in Branches
      /\ n \in 0..Len(log) /\ Placed(r.replay)
      /\ Reads(log, n, r) /\ Judged(log, n, r)
      /\ \A s \in StreamsOf(r.replay) : ResolvedToMain(r.res, s) \/ Promoted(log, n, r, s)
  BY <1>1, FinishingKnows
<1>3. PICK own : own = OnStream(r.replay, f)
  OBVIOUS
<1>4. Placed(own) /\ EventsOf(own) = {e \in EventsOf(r.replay) : e.stream = f}
  BY <1>2, <1>3, OnStreamPlaced
<1>5. PICK e \in EventsOf(own) : e.body.type = "ChildLinked" /\ e.body.child = p
  BY <1>1, <1>3, <1>4, ChildWasLinked
<1>6. \/ p \in StreamsOf(r.replay) /\ ~ ResolvedToMain(r.res, p)
      \/ OwnEvents(log, p, Main) # {} /\ KeptTo(log, p, r.judged)
  BY <1>1, <1>2, <1>4, <1>5 DEF Judged, Verdict
<1>7. CASE OwnEvents(log, p, Main) # {} /\ KeptTo(log, p, r.judged)
  BY <1>1, <1>7 DEF MainHas, KeptTo
<1>8. CASE p \in StreamsOf(r.replay) /\ ~ ResolvedToMain(r.res, p)
  <2>1. PICK mine : mine = OnStream(r.replay, p)
    OBVIOUS
  <2>2. Placed(mine) /\ EventsOf(mine) = {x \in EventsOf(r.replay) : x.stream = p}
    BY <1>2, <2>1, OnStreamPlaced
  <2>3. /\ IsLog(r.replay)
        /\ \A x \in EventsOf(r.replay) : x \in EventsOf(log) /\ x.branch = r.branch
    BY <1>2 DEF Plans, Planning
  <2>4. PICK d \in EventsOf(r.replay) : d.stream = p
    BY <1>8, <2>3, StreamsOfLog
  <2>5. d \in EventsOf(log) /\ d.branch = r.branch /\ p \in Streams
    BY <1>2, <2>3, <2>4 DEF Reads, Planning
  <2>6. KeptTo(log, p, n)
    BY <1>1, <1>2, <2>4, <2>5 DEF AfterFork
  <2>7. Promoted(log, n, r, p)
    BY <1>2, <1>8
  <2>8. PICK k \in 0..Len(log) : r.judged <= k /\ CopiedAt(log, p, mine, k)
    BY <2>1, <2>7 DEF Promoted
  <2>9. DeleteToo(log, p, n, r.judged, mine)
    BY <2>1, <2>7 DEF Promoted
  <2>10. Len(log) \in Nat /\ r.judged \in Nat /\ n \in Nat /\ Len(mine) \in Nat
    BY <1>2, <2>2, LogOrdered DEF Judged, Verdict, Placed
  <2>11. ASSUME NEW i \in 1..Len(mine)
         PROVE  /\ log[k + i] \in OwnEvents(log, p, Main) /\ log[k + i].position > r.judged
                /\ log[k + i].body.type = mine[i].body.type
    <3>1. k + i \in 1..Len(log) /\ k + i > r.judged
      BY <2>8, <2>10 DEF CopiedAt
    <3>2. /\ log[k + i].stream = p /\ log[k + i].branch = Main
          /\ log[k + i].body.type = mine[i].body.type
      BY <2>8 DEF CopiedAt
    <3>3. log[k + i].position = k + i
      BY <1>2, <3>1 DEF WellStored
    <3> QED
      BY <3>1, <3>2, <3>3 DEF OwnEvents, EventsOf
  <2>12. OwnEvents(log, p, Main) # {}
    <3>1. d \in EventsOf(mine)
      BY <2>2, <2>4
    <3>2. \E i \in 1..Len(mine) : TRUE
      BY <3>1 DEF EventsOf
    <3> QED
      BY <2>11, <3>2
  <2> SUFFICES ASSUME NEW x \in OwnEvents(log, p, Main), x.body.type = "Deleted"
               PROVE  \E y \in OwnEvents(log, p, Main) :
                        y.body.type = "Deleted" /\ y.position > r.judged
    BY <1>1, <2>12 DEF MainHas
  <2>13. CASE x.position > r.judged
    BY <2>13
  <2>14. CASE ~ (x.position > r.judged)
    <3>1. x.position \in Nat
      BY <1>2, LogOrdered DEF OwnEvents
    <3>2. n < x.position /\ x.position <= r.judged
      BY <2>6, <2>10, <2>14, <3>1 DEF KeptTo
    <3>3. PICK i \in 1..Len(mine) : mine[i].body.type = "Deleted"
      BY <2>9, <3>2 DEF DeleteToo
    <3> QED
      BY <2>11, <3>3
  <2> QED
    BY <2>13, <2>14
<1> QED
  BY <1>6, <1>7, <1>8

(***************************************************************************)
(* A piece of a log is in order.                                           *)
(***************************************************************************)
LEMMA PiecePlaced ==
  ASSUME NEW l, WellStored(l), NEW k \in 0..Len(l), NEW j \in Nat, k + j <= Len(l)
  PROVE  \E x : /\ Placed(x) /\ Len(x) = j /\ \A i \in 1..j : x[i] = l[k + i]
               /\ EventsOf(x) \subseteq EventsOf(l)
<1>0. PICK x : x = [i \in 1..j |-> l[k + i]]
  OBVIOUS
<1>1. Len(l) \in Nat /\ k \in Nat
  BY LogOrdered
<1>2. \A i \in 1..j : k + i \in 1..Len(l) /\ x[i] = l[k + i] /\ x[i].position = k + i
  <2> SUFFICES ASSUME NEW i \in 1..j
               PROVE  k + i \in 1..Len(l) /\ x[i] = l[k + i] /\ x[i].position = k + i
    OBVIOUS
  <2>1. k + i \in 1..Len(l) /\ x[i] = l[k + i]
    BY <1>0, <1>1
  <2> QED
    BY <2>1 DEF WellStored
<1>3. \A i \in 1..j : x[i] \in EventsOf(l)
  BY <1>2 DEF EventsOf
<1>4. x \in Seq(EventsOf(l)) /\ Len(x) = j
  BY <1>0, <1>3
<1>5. Ordered(x)
  <2> SUFFICES ASSUME NEW a \in 1..Len(x), NEW c \in 1..Len(x), a < c
               PROVE  x[a].position < x[c].position
    BY DEF Ordered
  <2>1. a \in 1..j /\ c \in 1..j
    BY <1>4
  <2>2. x[a].position = k + a /\ x[c].position = k + c
    BY <1>2, <2>1
  <2> QED
    BY <1>1, <2>2
<1>6. \A e \in EventsOf(x) : e.position \in Nat
  <2> SUFFICES ASSUME NEW e \in EventsOf(x) PROVE e.position \in Nat
    OBVIOUS
  <2>1. PICK i \in 1..j : e = x[i]
    BY <1>4 DEF EventsOf
  <2>2. e.position = k + i
    BY <1>2, <2>1
  <2> QED
    BY <1>1, <2>2
<1>7. Placed(x)
  BY <1>3, <1>4, <1>5, <1>6 DEF Placed, IsLog
<1>8. EventsOf(x) \subseteq EventsOf(l)
  BY <1>3, <1>4 DEF EventsOf
<1> QED
  BY <1>2, <1>4, <1>7, <1>8

(***************************************************************************)
(* There is no index into nothing.                                         *)
(***************************************************************************)
LEMMA NoneToCount == ASSUME NEW z, z = 0 PROVE 1..z = {}
OBVIOUS

(***************************************************************************)
(* What the branch drafted was planned, and what was planned is on main,   *)
(* in one piece.                                                           *)
(***************************************************************************)
LEMMA PromotionFollows == IInv /\ KInv => PromotedInFull
<1> SUFFICES ASSUME IInv, KInv, NEW m \in Mergers, Finishing(m), NEW s \in Streams,
                    ~ ResolvedToMain(req[m].res, s), NEW r, r = req[m],
                    NEW drafted,
                    drafted = OnlyIn(log, {e \in OwnEvents(log, s, r.branch) :
                                             e.position <= r.planned}),
                    NEW promoted,
                    promoted = OnlyIn(log, {e \in Replays : /\ e.stream = s
                                                            /\ log[e.body.from].branch = r.branch})
             PROVE  /\ Len(promoted) = Len(drafted)
                    /\ \A i \in 1..Len(drafted) : /\ promoted[i].branch = Main
                                                  /\ promoted[i].body.from = drafted[i].position
  BY DEF PromotedInFull
<1>1. PICK n : n = base[r.branch]
  OBVIOUS
<1>2. /\ WellStored(log) /\ LogInv(log)
      /\ r.pc = "replay" /\ Plans(log, r) /\ r.branch \in Branches
      /\ n \in 0..Len(log) /\ Placed(r.replay)
      /\ Reads(log, n, r) /\ Whole(log, r) /\ Promotes(log, n, r)
      /\ \A t \in StreamsOf(r.replay) : ResolvedToMain(r.res, t) \/ Promoted(log, n, r, t)
  BY <1>1, FinishingKnows
<1>3. PICK own : own = OnStream(r.replay, s)
  OBVIOUS
<1>4. Placed(own) /\ EventsOf(own) = {e \in EventsOf(r.replay) : e.stream = s}
  BY <1>2, <1>3, OnStreamPlaced
<1>5. \A e \in EventsOf(r.replay) :
        e \in EventsOf(log) /\ e.branch = r.branch /\ e.position <= r.planned
  BY <1>2 DEF Plans, Reads, Planning
<1>6. \A e \in EventsOf(log) : e.position \in 1..Len(log) /\ log[e.position] = e
  BY <1>2, LogOrdered
<1>7. drafted = own
  <2>1. PICK D : D = {e \in OwnEvents(log, s, r.branch) : e.position <= r.planned}
    OBVIOUS
  <2>2. D \subseteq EventsOf(log) /\ Placed(log)
    BY <1>2, <2>1, LogPlaced DEF OwnEvents
  <2>3. Placed(drafted) /\ EventsOf(drafted) = EventsOf(log) \intersect D
    BY <2>1, <2>2, OnlyInPlaced
  <2>4. D \subseteq EventsOf(own)
    BY <1>2, <1>4, <2>1 DEF Whole, OwnEvents
  <2>5. EventsOf(own) \subseteq D
    BY <1>4, <1>5, <2>1 DEF OwnEvents
  <2>6. EventsOf(drafted) = EventsOf(own)
    BY <2>2, <2>3, <2>4, <2>5
  <2> QED
    BY <1>4, <2>3, <2>6, SameSequence
<1>8. PICK P : P = {e \in Replays : e.stream = s /\ log[e.body.from].branch = r.branch}
  OBVIOUS
<1>9. Placed(promoted) /\ EventsOf(promoted) = P
  <2>1. P \subseteq EventsOf(log) /\ Placed(log)
    BY <1>2, <1>8, LogPlaced DEF Replays
  <2>2. Placed(promoted) /\ EventsOf(promoted) = EventsOf(log) \intersect P
    BY <1>8, <2>1, OnlyInPlaced
  <2> QED
    BY <2>1, <2>2
<1>10. ASSUME NEW e \in P
       PROVE  /\ e \in EventsOf(log) /\ e.body.from # 0
              /\ \E i \in 1..Len(own) : own[i].position = e.body.from
  <2>1. e \in EventsOf(log) /\ e.body.from # 0 /\ e.stream = s /\ log[e.body.from].branch = r.branch
    BY <1>8 DEF Replays
  <2>2. e \in ReplaysIn(log, r.branch)
    BY <2>1 DEF ReplaysIn
  <2>3. log[e.body.from] \in EventsOf(r.replay)
    BY <1>2, <2>2 DEF Promotes, Winning
  <2>4. e.body.from \in 1..Len(log) /\ log[e.body.from].stream = s
    BY <1>2, <2>1 DEF LogInv, ReplaysFollow
  <2>5. log[e.body.from].position = e.body.from
    BY <1>2, <2>4 DEF WellStored
  <2>6. log[e.body.from] \in EventsOf(own)
    BY <1>4, <2>3, <2>4
  <2> QED
    BY <2>1, <2>5, <2>6 DEF EventsOf
<1>11. CASE s \in StreamsOf(r.replay)
  <2>1. Promoted(log, n, r, s)
    BY <1>2, <1>11
  <2>2. PICK k \in 0..Len(log) : CopiedAt(log, s, own, k)
    BY <1>3, <2>1 DEF Promoted
  <2>3. Len(own) \in Nat /\ k + Len(own) <= Len(log)
    BY <1>4, <2>2 DEF CopiedAt, Placed
  <2>4. PICK j \in Nat : j = Len(own) /\ k + j <= Len(log)
    BY <2>3
  <2>5. PICK x : /\ Placed(x) /\ Len(x) = j /\ \A i \in 1..j : x[i] = log[k + i]
                 /\ EventsOf(x) \subseteq EventsOf(log)
    <3>1. WellStored(log) /\ k \in 0..Len(log) /\ k + j <= Len(log)
      BY <1>2, <2>2, <2>4
    <3> QED
      BY <3>1, PiecePlaced
  <2>6. ASSUME NEW i \in 1..Len(own)
        PROVE  /\ x[i].stream = s /\ x[i].branch = Main /\ x[i].body.from = own[i].position
               /\ x[i] \in EventsOf(log)
               /\ own[i].position \in 1..Len(log) /\ log[own[i].position].branch = r.branch
    <3>1. x[i] = log[k + i] /\ i \in 1..Len(x)
      BY <2>4, <2>5
    <3>2. own[i] \in EventsOf(own)
      BY DEF EventsOf
    <3>3. own[i] \in EventsOf(log) /\ own[i].branch = r.branch
      BY <1>4, <1>5, <3>2
    <3>4. x[i] \in EventsOf(log)
      BY <2>5, <3>1 DEF EventsOf
    <3> QED
      BY <1>6, <2>2, <3>1, <3>3, <3>4 DEF CopiedAt
  <2>7. EventsOf(x) \subseteq P
    <3> SUFFICES ASSUME NEW i \in 1..Len(own) PROVE x[i] \in P
      BY <2>4, <2>5 DEF EventsOf
    <3>1. x[i].body.from # 0
      BY <1>2, <2>6, LogOrdered
    <3> QED
      BY <1>8, <2>6, <3>1 DEF Replays
  <2>8. P \subseteq EventsOf(x)
    <3> SUFFICES ASSUME NEW e \in P PROVE e \in EventsOf(x)
      OBVIOUS
    <3>1. PICK i \in 1..Len(own) : own[i].position = e.body.from
      BY <1>10
    <3>2. x[i].body.from = e.body.from /\ x[i] \in EventsOf(log)
      BY <2>6, <3>1
    <3>3. x[i] = e
      BY <1>2, <1>10, <3>2 DEF LogInv, OnlyOnce
    <3> QED
      BY <2>4, <2>5, <3>3 DEF EventsOf
  <2>9. promoted = x
    <3>1. Placed(promoted) /\ Placed(x) /\ EventsOf(promoted) = EventsOf(x)
      BY <1>9, <2>5, <2>7, <2>8
    <3> QED
      BY <3>1, SameSequence
  <2> QED
    BY <1>7, <2>4, <2>5, <2>6, <2>9
<1>12. CASE s \notin StreamsOf(r.replay)
  <2>1. EventsOf(own) = {}
    <3>1. IsLog(r.replay)
      BY <1>2 DEF Placed
    <3> QED
      BY <1>4, <1>12, <3>1, StreamsOfLog
  <2>2. Len(own) \in Nat /\ Len(promoted) \in Nat
    BY <1>4, <1>9 DEF Placed
  <2>3. Len(own) = 0
    <3>1. Len(own) > 0 => own[1] \in EventsOf(own)
      BY <2>2 DEF EventsOf
    <3> QED
      BY <2>1, <2>2, <3>1
  <2>4. P = {}
    BY <1>10, <2>3
  <2>5. Len(promoted) = 0
    <3>1. PICK q : q = promoted /\ Len(q) \in Nat
      BY <2>2
    <3>2. ASSUME Len(q) > 0 PROVE q[1] \in EventsOf(q)
      <4>1. 1 \in 1..Len(q)
        BY <3>1, <3>2
      <4> QED
        BY <4>1 DEF EventsOf
    <3> QED
      BY <1>9, <2>2, <2>4, <3>1, <3>2
  <2>6. Len(drafted) = 0
    BY <1>7, <2>3
  <2>7. 1..Len(drafted) = {}
    BY <2>6, NoneToCount
  <2> QED
    BY <2>5, <2>6, <2>7
<1> QED
  BY <1>11, <1>12

(***************************************************************************)
(* A step changes one slot, and only a replay takes one from "reappend".   *)
(***************************************************************************)
LEMMA OneAtATime ==
  ASSUME IInv, Next, NEW m \in Mergers, req[m].pc = "reappend", req'[m].pc = "replay"
  PROVE  ReplayStream(m)
<1>1. /\ m \in Requests /\ req = [r \in Requests |-> req[r]]
      /\ \A r \in Requests : "pc" \in DOMAIN req[r]
  BY DEF IInv, Inv, Slots, Carries, Requests
<1>2. ASSUME NEW x \in Requests, NEW v, req' = [req EXCEPT ![x] = v], req[x].pc # "reappend"
      PROVE  FALSE
  BY <1>1, <1>2
<1>3. ASSUME NEW x \in Requests, NEW pc, Goto(x, pc), req[x].pc # "reappend"
      PROVE  FALSE
  BY <1>1, <1>3 DEF Goto
<1>4. ASSUME NEW x \in Requests, Return(x) PROVE FALSE
  BY <1>1, <1>4 DEF Return, Idle
<1>5. ASSUME req' = req PROVE FALSE
  BY <1>5
<1>6. ASSUME NEW c \in Creators,
             AppendCreated(c) \/ RegisterBranch(c) \/ \E b \in Branches : BeginCreate(c, b)
      PROVE  FALSE
  <2>1. c \in Requests
    BY DEF Requests
  <2>2. CASE AppendCreated(c)
    BY <1>3, <2>1, <2>2 DEF AppendCreated
  <2>3. CASE RegisterBranch(c)
    BY <1>4, <2>1, <2>3 DEF RegisterBranch
  <2>4. CASE \E b \in Branches : BeginCreate(c, b)
    BY <1>2, <2>1, <2>4 DEF BeginCreate, Idle
  <2> QED
    BY <1>6, <2>2, <2>3, <2>4
<1>7. ASSUME NEW s \in Streams, MainWrite(s) PROVE FALSE
  BY <1>5, <1>7 DEF MainWrite
<1>8. ASSUME NEW e \in Editors,
             \/ \E b \in Branches : BeginEdit(e, b)
             \/ \E s \in Streams : LoadRow(e, s) \/ NewAggregate(e, s)
             \/ AppendEdit(e) \/ RefuseEdit(e) \/ ProjectEdit(e)
      PROVE  FALSE
  <2>1. e \in Requests
    BY DEF Requests
  <2>2. CASE \E b \in Branches : BeginEdit(e, b)
    BY <1>2, <2>1, <2>2 DEF BeginEdit, Idle
  <2>3. CASE \E s \in Streams : LoadRow(e, s)
    BY <1>2, <2>1, <2>3 DEF LoadRow
  <2>4. CASE \E s \in Streams : NewAggregate(e, s)
    BY <1>2, <2>1, <2>4 DEF NewAggregate
  <2>5. CASE AppendEdit(e)
    BY <1>2, <2>1, <2>5 DEF AppendEdit
  <2>6. CASE RefuseEdit(e) \/ ProjectEdit(e)
    BY <1>4, <2>1, <2>6 DEF RefuseEdit, ProjectEdit
  <2> QED
    BY <1>8, <2>2, <2>3, <2>4, <2>5, <2>6
<1>9. ASSUME NEW d \in Deleters,
             \/ \E b \in Branches : BeginDelete(d, b)
             \/ ReadDeleteVersion(d) \/ AppendDelete(d) \/ Archive(d) \/ DropOverlay(d)
      PROVE  FALSE
  <2>1. d \in Requests
    BY DEF Requests
  <2>2. CASE \E b \in Branches : BeginDelete(d, b)
    BY <1>2, <2>1, <2>2 DEF BeginDelete, Idle
  <2>3. CASE ReadDeleteVersion(d)
    BY <1>2, <2>1, <2>3 DEF ReadDeleteVersion
  <2>4. CASE AppendDelete(d)
    BY <1>3, <1>4, <2>1, <2>4 DEF AppendDelete
  <2>5. CASE Archive(d)
    BY <1>3, <2>1, <2>5 DEF Archive
  <2>6. CASE DropOverlay(d)
    BY <1>4, <2>1, <2>6 DEF DropOverlay
  <2> QED
    BY <1>9, <2>2, <2>3, <2>4, <2>5, <2>6
<1>10. ASSUME NEW x \in Mergers, MergeStep(x) PROVE x = m /\ ReplayStream(m)
  <2>1. x \in Requests
    BY DEF Requests
  <2>2. CASE LoadBranchSide(x) \/ LoadMainSide(x)
    BY <1>2, <2>1, <2>2 DEF LoadBranchSide, LoadMainSide
  <2>3. CASE PinStream(x)
    BY <1>2, <2>1, <2>3 DEF PinStream
  <2>4. CASE Judge(x)
    BY <1>2, <1>4, <2>1, <2>4 DEF Judge
  <2>5. CASE RecheckStream(x)
    <3>1. x # m
      BY <2>5 DEF RecheckStream
    <3> QED
      BY <1>1, <1>4, <2>1, <2>5, <3>1 DEF RecheckStream
  <2>6. CASE ReadClaimVersion(x) \/ CheckLink(x)
    <3>1. x # m
      BY <2>6 DEF ReadClaimVersion, CheckLink
    <3>2. CASE ReadClaimVersion(x)
      BY <1>2, <2>1, <3>2 DEF ReadClaimVersion
    <3>3. CASE CheckLink(x)
      <4>1. \/ \E p \in req[x].links : req' = [req EXCEPT ![x].links = @ \ {p}]
            \/ Return(x)
        BY <3>3 DEF CheckLink
      <4>2. req'[m] = req[m]
        BY <1>1, <1>4, <2>1, <3>1, <4>1
      <4> QED
        BY <4>2
    <3> QED
      BY <2>6, <3>2, <3>3
  <2>7. CASE LookupClaim(x)
    BY <1>2, <1>3, <2>1, <2>7 DEF LookupClaim
  <2>8. CASE AppendClaim(x)
    BY <1>3, <1>4, <2>1, <2>8 DEF AppendClaim
  <2>9. CASE MarkMerged(x)
    BY <1>3, <2>1, <2>9 DEF MarkMerged
  <2>10. CASE PurgeOverlay(x)
    BY <1>2, <1>4, <2>1, <2>10 DEF PurgeOverlay
  <2>11. CASE ReadReplayVersion(x)
    BY <1>3, <1>4, <2>1, <2>11 DEF ReadReplayVersion
  <2>12. CASE ReplayStream(x)
    <3>1. CASE x = m
      BY <2>12, <3>1
    <3>2. CASE x # m
      <4>1. \/ req' = [req EXCEPT ![x].pc = "replay", ![x].todo = Tail(@)]
            \/ Return(x)
        BY <2>12 DEF ReplayStream
      <4>2. req'[m] = req[m]
        BY <1>1, <1>4, <2>1, <3>2, <4>1
      <4> QED
        BY <4>2
    <3> QED
      BY <3>1, <3>2
  <2>13. CASE FinishMerge(x)
    BY <1>4, <2>1, <2>13 DEF FinishMerge
  <2> QED
    BY <1>10, <2>2, <2>3, <2>4, <2>5, <2>6, <2>7, <2>8, <2>9, <2>10, <2>11, <2>12, <2>13
       DEF MergeStep
<1>11. ASSUME NEW x \in Mergers, NEW b \in Branches, BeginMerge(x, b) PROVE FALSE
  <2>1. x \in Requests
    BY DEF Requests
  <2> QED
    BY <1>2, <1>11, <2>1 DEF BeginMerge, Idle
<1>12. ASSUME NEW r \in Requests, Fail(r) PROVE FALSE
  BY <1>4, <1>12 DEF Fail
<1> QED
  BY <1>6, <1>7, <1>8, <1>9, <1>10, <1>11, <1>12 DEF Next

(***************************************************************************)
(* A stream that is replayed has no conflict that was not decided.         *)
(***************************************************************************)
LEMMA OverrideFollows ==
  ASSUME IInv, KInv, [Next]_vars,
         NEW m \in Mergers, req[m].pc = "reappend", req'[m].pc = "replay"
  PROVE  LET r == req[m]
             s == Head(r.todo)
             now == OnlyIn(log, {e \in OwnEvents(log, s, Main) : e.position > base[r.branch]})
         IN  \A c \in ClassifyConflicts(OnStream(r.replay, s), now, <<>>) :
               s \in DOMAIN r.res /\ r.res[s] \in c.supported
<1>1. Next
  BY DEF vars
<1>2. ReplayStream(m)
  BY <1>1, OneAtATime
<1>3. PICK r, s : r = req[m] /\ s = Head(r.todo)
  OBVIOUS
<1>4. AppendTo(s, Main, ReplayBatch(r, s), ReplayExpects(r))
  <2>1. CASE Return(m)
    <3>1. m \in Requests /\ req = [x \in Requests |-> req[x]]
      BY DEF IInv, Inv, Slots, Requests
    <3>2. req'[m].pc = "idle"
      BY <2>1, <3>1 DEF Return, Idle
    <3> QED
      BY <3>2
  <2> QED
    BY <1>2, <1>3, <2>1 DEF ReplayStream
<1>5. Settled(log, base[r.branch], r, s)
  BY <1>3, <1>4, ReplaySettled
<1> QED
  BY <1>3, <1>5 DEF Settled, MainSince

-----------------------------------------------------------------------------
(* The theorems.                                                           *)

(***************************************************************************)
(* One merge of a branch wins, and puts no event of it on main twice.      *)
(***************************************************************************)
THEOREM MergedOnceHolds == Spec => []MergedOnce
<1>1. Spec => []IInv
  BY InitInvariant, NextInvariant, PTL DEF Spec
<1>2. IInv => MergedOnce
  BY InvariantSays
<1> QED
  BY <1>1, <1>2, PTL

(***************************************************************************)
(* Nothing reaches main from a branch that was not claimed first.          *)
(***************************************************************************)
THEOREM ReplayAfterClaimHolds == Spec => []ReplayAfterClaim
<1>1. Spec => []IInv
  BY InitInvariant, NextInvariant, PTL DEF Spec
<1>2. IInv => ReplayAfterClaim
  BY InvariantSays
<1> QED
  BY <1>1, <1>2, PTL

(***************************************************************************)
(* Both invariants hold.                                                   *)
(***************************************************************************)
LEMMA BothHold == Spec => [](IInv /\ KInv)
<1>1. Init => IInv /\ KInv
  BY InitInvariant, InitFacts
<1>2. IInv /\ KInv /\ [Next]_vars => IInv' /\ KInv'
  BY NextInvariant, NextFacts
<1> QED
  BY <1>1, <1>2, PTL DEF Spec

(***************************************************************************)
(* A merge that finishes has promoted the branch in full, in its order.    *)
(***************************************************************************)
THEOREM PromotedInFullHolds == Spec => []PromotedInFull
BY BothHold, PromotionFollows, PTL

(***************************************************************************)
(* A finished merge leaves no child on main that main does not have, but   *)
(* for one that was deleted on main after the check.                       *)
(***************************************************************************)
THEOREM LinkedChildExistsHolds == Spec => []LinkedChildExists
BY BothHold, LinkedChildFollows, PTL

(***************************************************************************)
(* When a stream is replayed, every conflict with main as it is then was   *)
(* decided by the caller.                                                  *)
(***************************************************************************)
THEOREM NoSilentOverrideHolds == Spec => NoSilentOverride
<1>1. IInv /\ KInv /\ [Next]_vars =>
        [\A m \in Mergers : (req[m].pc = "reappend" /\ req'[m].pc = "replay") =>
           LET r == req[m]
               s == Head(r.todo)
               now == OnlyIn(log, {e \in OwnEvents(log, s, Main) : e.position > base[r.branch]})
           IN  \A c \in ClassifyConflicts(OnStream(r.replay, s), now, <<>>) :
                 s \in DOMAIN r.res /\ r.res[s] \in c.supported]_vars
  BY OverrideFollows
<1> QED
  BY <1>1, BothHold, PTL DEF Spec, NoSilentOverride

-----------------------------------------------------------------------------
(* What the verdict says of xrefs.                                         *)

(***************************************************************************)
(* The stream an xref is asked of has created an entity with it.           *)
(***************************************************************************)
LEMMA XrefCreated ==
  ASSUME NEW events, Len(events) \in Nat, NEW s, NEW x, x # NoXref, XrefOf(events, s) = x
  PROVE  \E e \in EventsOf(XrefCreations(events)) : e.stream = s /\ e.body.xref = x
<1>1. PICK made : made = XrefCreations(events)
  OBVIOUS
<1>2. PICK S : S = {e \in EventsOf(made) : e.stream = s}
  OBVIOUS
<1>3. PICK own : own = OnStream(made, s)
  OBVIOUS
<1>4. Len(made) \in Nat
  BY <1>1, OnlyInItems DEF XrefCreations
<1>5. EventsOf(own) = EventsOf(made) \intersect S /\ Len(own) \in Nat
      /\ own \in Seq(EventsOf(made) \intersect S)
  BY <1>2, <1>3, <1>4, OnlyInItems DEF OnStream
<1>6. own # <<>> /\ own[1].body.xref = x
  BY <1>1, <1>3 DEF XrefOf
<1>7. own[1] \in EventsOf(own)
  <2>1. 1 \in 1..Len(own)
    BY <1>5, <1>6
  <2> QED
    BY <2>1 DEF EventsOf
<1> QED
  BY <1>1, <1>2, <1>5, <1>6, <1>7

(***************************************************************************)
(* The creations with an xref are events.                                  *)
(***************************************************************************)
LEMMA CreationsAreEvents ==
  ASSUME NEW events, Len(events) \in Nat
  PROVE  Len(XrefCreations(events)) \in Nat /\ EventsOf(XrefCreations(events)) \subseteq EventsOf(events)
<1>1. PICK S : S = {e \in EventsOf(events) : e.body.type = "Created" /\ e.body.xref # NoXref}
  OBVIOUS
<1>2. PICK made : made = OnlyIn(events, S)
  OBVIOUS
<1>3. Len(made) \in Nat /\ EventsOf(made) = EventsOf(events) \intersect S
  BY <1>2, OnlyInItems
<1>4. XrefCreations(events) = made
  BY <1>1, <1>2 DEF XrefCreations
<1> QED
  BY <1>3, <1>4

(***************************************************************************)
(* Where the branch has created an entity with an xref and main another    *)
(* with the same, the merge reads main's tail, and the branch's entity is  *)
(* reported with no resolution but main's, whatever else the two sides     *)
(* wrote (detectCreateCollision).                                          *)
(***************************************************************************)
THEOREM SharedXrefIsReported ==
  ASSUME NEW branchEvents, Len(branchEvents) \in Nat,
         NEW mainTail, Len(mainTail) \in Nat, NEW mainEvents,
         NEW s, NEW t, NEW x, x # NoXref,
         ~Touches(mainEvents, s), ~Touches(mainTail, s),
         DOMAIN branchEvents = 1..Len(branchEvents), DOMAIN mainTail = 1..Len(mainTail),
         XrefOf(branchEvents, s) = x, XrefOf(mainTail, t) = x
  PROVE  /\ NeedsCreateTail(branchEvents)
         /\ \E c \in ClassifyConflicts(branchEvents, mainEvents, mainTail) :
              c.stream = s /\ c.supported = {"main"}
<1>1. PICK made : made = XrefCreations(branchEvents)
  OBVIOUS
<1>2. PICK e \in EventsOf(made) : e.stream = s
  BY <1>1, XrefCreated
<1>3. Len(made) \in Nat /\ EventsOf(made) \subseteq EventsOf(branchEvents)
  BY <1>1, CreationsAreEvents
<1>4. made # <<>>
  BY <1>2, <1>3 DEF EventsOf
<1>5. s \in StreamsOf(branchEvents)
  BY <1>2, <1>3 DEF EventsOf, StreamsOf
<1>6. ClassifyStream(s, branchEvents, mainEvents) = {}
  BY DEF ClassifyStream
<1>7. OwnerOf(mainTail, x) \ {s} # {}
  <2>1. PICK theirs : theirs = XrefCreations(mainTail)
    OBVIOUS
  <2>2. Len(theirs) \in Nat /\ EventsOf(theirs) \subseteq EventsOf(mainTail)
    BY <2>1, CreationsAreEvents
  <2>3. PICK d \in EventsOf(theirs) : d.body.xref = x
    BY <2>1, XrefCreated
  <2>4. PICK S : S = {f \in EventsOf(theirs) : f.body.xref = x}
    OBVIOUS
  <2>5. PICK claims : claims = OnlyIn(theirs, S)
    OBVIOUS
  <2>6. /\ EventsOf(claims) = EventsOf(theirs) \intersect S /\ Len(claims) \in Nat
        /\ claims \in Seq(EventsOf(theirs) \intersect S)
    BY <2>2, <2>5, OnlyInItems
  <2>7. d \in EventsOf(claims)
    BY <2>3, <2>4, <2>6
  <2>8. 1 \in 1..Len(claims)
    BY <2>6, <2>7 DEF EventsOf
  <2>9. claims[1] \in EventsOf(mainTail)
    <3>1. claims[1] \in EventsOf(claims)
      BY <2>8 DEF EventsOf
    <3> QED
      BY <2>2, <2>6, <3>1
  <2>10. claims[1].stream # s
    BY <2>9 DEF EventsOf, Touches
  <2>11. claims # <<>>
    BY <2>8
  <2>12. OwnerOf(mainTail, x) = {claims[1].stream}
    BY <2>1, <2>4, <2>5, <2>11 DEF OwnerOf
  <2> QED
    BY <2>10, <2>12
<1>8. ClassifyCreateCollision(s, branchEvents, mainTail) = {Conflict(s, "create_create", {}, {"main"})}
  BY <1>7 DEF ClassifyCreateCollision
<1>9. Conflict(s, "create_create", {}, {"main"}) \in ClassifyConflicts(branchEvents, mainEvents, mainTail)
  BY <1>5, <1>6, <1>8 DEF ClassifyConflicts
<1>10. PICK c : c = Conflict(s, "create_create", {}, {"main"})
  OBVIOUS
<1>11. c.stream = s /\ c.supported = {"main"}
  BY <1>10 DEF Conflict
<1> QED
  BY <1>1, <1>4, <1>9, <1>10, <1>11 DEF NeedsCreateTail

=============================================================================
