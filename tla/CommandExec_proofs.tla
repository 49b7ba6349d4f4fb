------------------------- MODULE CommandExec_proofs -------------------------
(***************************************************************************)
(* Proofs about the commands on one person, for every number of requests,  *)
(* branches and events: the read-model row is a state main's log has been  *)
(* in, its version never goes back, and a rollback restores its target.    *)
(***************************************************************************)
EXTENDS CommandExec, EventLog_proofs

-----------------------------------------------------------------------------
(* What a history makes of the person.                                     *)

StepTo(l, v, state, i) ==
  IF InHistory(l[i], v) THEN ApplyToState(state, l[i].body) ELSE state

\* f is the function FoldLeft chooses, on the first n events of l.
IsFold(f, l, v, n) ==
  f = [s \in SUBSET (1..n) |-> IF s = {} THEN <<>> ELSE StepTo(l, v, f[s \ {Max(s)}], Max(s))]

(***************************************************************************)
(* StateTo is the value of such a function.                                *)
(***************************************************************************)
LEMMA StateIsFold ==
  ASSUME NEW l, NEW v, Len(l) \in Nat, DOMAIN l = 1..Len(l)
  PROVE  StateTo(l, v) = (CHOOSE f : IsFold(f, l, v, Len(l)))[1..Len(l)]
  BY DEF StateTo, FoldLeft, MapThenFoldSet, IsFold, StepTo

(***************************************************************************)
(* The greatest of a set of positions is the one no other exceeds.         *)
(***************************************************************************)
LEMMA MaxIs ==
  ASSUME NEW s, s \subseteq Int, NEW n \in s, \A m \in s : m <= n
  PROVE  Max(s) = n
<1> DEFINE P(x) == x \in s /\ \A y \in s : x >= y
<1>1. P(n)
  OBVIOUS
<1>2. \A x : P(x) => x = n
  OBVIOUS
<1> HIDE DEF P
<1>3. (CHOOSE x : P(x)) = n
  BY <1>1, <1>2
<1>4. Max(s) = CHOOSE x : P(x)
  BY DEF Max, P
<1> QED
  BY <1>3, <1>4

(***************************************************************************)
(* The function exists for every log, by induction on its length.          *)
(***************************************************************************)
LEMMA FoldExists ==
  ASSUME NEW l, NEW v
  PROVE  \A n \in Nat : \E f : IsFold(f, l, v, n)
<1> DEFINE T == {n \in Nat : ~ \E f : IsFold(f, l, v, n)}
<1> SUFFICES ASSUME T # {} PROVE FALSE
  OBVIOUS
<1>1. PICK n \in T : \A m \in T : n <= m
  BY LeastNatural
<1>2. n # 0
  <2>1. SUBSET (1..0) = {{}}
    OBVIOUS
  <2>2. IsFold([s \in SUBSET (1..0) |-> <<>>], l, v, 0)
    BY <2>1 DEF IsFold
  <2> QED
    BY <2>2
<1>3. n \in Nat /\ n - 1 \in Nat /\ n - 1 \notin T
  BY <1>1, <1>2
<1>4. PICK f : IsFold(f, l, v, n - 1)
  BY <1>3
<1> DEFINE g == [s \in SUBSET (1..n) |->
                   IF n \in s THEN StepTo(l, v, f[s \ {n}], n) ELSE f[s]]
           h == [s \in SUBSET (1..n) |->
                   IF s = {} THEN <<>> ELSE StepTo(l, v, g[s \ {Max(s)}], Max(s))]
<1>5. ASSUME NEW s \in SUBSET (1..n) PROVE g[s] = h[s]
  <2>1. CASE n \in s
    <3>1. Max(s) = n
      <4>1. s \subseteq Int /\ \A m \in s : m <= n
        BY <1>3
      <4> QED
        BY <2>1, <4>1, MaxIs
    <3>2. s \ {n} \in SUBSET (1..n) /\ n \notin s \ {n}
      OBVIOUS
    <3>3. g[s \ {n}] = f[s \ {n}]
      BY <3>2
    <3> QED
      BY <2>1, <3>1, <3>3
  <2>2. CASE n \notin s
    <3>1. s \in SUBSET (1..n - 1)
      BY <1>3, <2>2
    <3>2. f[s] = IF s = {} THEN <<>> ELSE StepTo(l, v, f[s \ {Max(s)}], Max(s))
      BY <1>4, <3>1 DEF IsFold
    <3>3. s \ {Max(s)} \in SUBSET (1..n) /\ n \notin s \ {Max(s)}
      BY <2>2
    <3>4. g[s \ {Max(s)}] = f[s \ {Max(s)}] /\ g[s] = f[s]
      BY <2>2, <3>3
    <3> QED
      BY <3>2, <3>4
  <2> QED
    BY <2>1, <2>2
<1>6. g = h
  <2> HIDE DEF StepTo
  <2> QED
    BY <1>5
<1>7. IsFold(g, l, v, n)
  BY <1>6 DEF IsFold
<1> QED
  BY <1>1, <1>7

(***************************************************************************)
(* On a prefix of the positions the function is one step from the shorter  *)
(* prefix.                                                                 *)
(***************************************************************************)
LEMMA FoldValue ==
  ASSUME NEW l, NEW v, NEW n \in Nat, NEW f, IsFold(f, l, v, n)
  PROVE  /\ f[1..0] = <<>>
         /\ \A k \in 1..n : f[1..k] = StepTo(l, v, f[1..k - 1], k)
<1>1. f[1..0] = <<>>
  <2>1. 1..0 \in SUBSET (1..n) /\ 1..0 = {}
    OBVIOUS
  <2> QED
    BY <2>1 DEF IsFold
<1>2. ASSUME NEW k \in 1..n PROVE f[1..k] = StepTo(l, v, f[1..k - 1], k)
  <2>1. 1..k \in SUBSET (1..n) /\ k \in 1..k /\ (1..k) \ {k} = 1..k - 1
    OBVIOUS
  <2>2. 1..k \subseteq Int /\ \A m \in 1..k : m <= k
    OBVIOUS
  <2>3. Max(1..k) = k
    BY <2>1, <2>2, MaxIs
  <2> QED
    BY <2>1, <2>3 DEF IsFold
<1> QED
  BY <1>1, <1>2

(***************************************************************************)
(* Two such functions agree where the steps do, by induction on the        *)
(* length.                                                                 *)
(***************************************************************************)
LEMMA FoldsAgree ==
  ASSUME NEW l, NEW v, NEW n \in Nat, NEW f, IsFold(f, l, v, n),
         NEW m, NEW w, NEW o \in Nat, NEW g, IsFold(g, m, w, o), n <= o,
         \A i \in 1..n : m[i] = l[i] /\ (InHistory(l[i], v) <=> InHistory(l[i], w))
  PROVE  g[1..n] = f[1..n]
<1> DEFINE T == {k \in 0..n : g[1..k] # f[1..k]}
<1> SUFFICES ASSUME T # {} PROVE FALSE
  OBVIOUS
<1>1. PICK k \in T : \A j \in T : k <= j
  <2>1. T \subseteq Nat
    OBVIOUS
  <2> HIDE DEF T
  <2> QED
    BY <2>1, LeastNatural
<1>2. f[1..0] = <<>> /\ g[1..0] = <<>>
  <2>1. f[1..0] = <<>>
    BY FoldValue
  <2>2. g[1..0] = <<>>
    BY FoldValue
  <2> QED
    BY <2>1, <2>2
<1>3. k \in 1..n /\ k \in 1..o /\ k - 1 \in 0..n
  BY <1>1, <1>2
<1>4. g[1..k - 1] = f[1..k - 1]
  BY <1>1, <1>3
<1>5. f[1..k] = StepTo(l, v, f[1..k - 1], k) /\ g[1..k] = StepTo(m, w, g[1..k - 1], k)
  BY <1>3, FoldValue
<1>6. m[k] = l[k] /\ (InHistory(l[k], v) <=> InHistory(l[k], w))
  BY <1>3
<1>7. StepTo(m, w, f[1..k - 1], k) = StepTo(l, v, f[1..k - 1], k)
  BY <1>6 DEF StepTo
<1> QED
  BY <1>1, <1>4, <1>5, <1>7

(***************************************************************************)
(* The state of an empty log.                                              *)
(***************************************************************************)
LEMMA StateOfNothing ==
  ASSUME NEW v
  PROVE  StateTo(<<>>, v) = <<>>
<1>0. PICK l : l = <<>>
  OBVIOUS
<1>1. PICK n \in Nat : n = 0 /\ Len(l) = n /\ DOMAIN l = 1..n
  BY <1>0
<1>2. PICK f : f = CHOOSE x : IsFold(x, l, v, n)
  OBVIOUS
<1>3. IsFold(f, l, v, n)
  BY <1>2, FoldExists
<1>4. f[1..0] = <<>>
  BY <1>3, FoldValue
<1>5. StateTo(l, v) = f[1..n]
  BY <1>1, <1>2, StateIsFold
<1> QED
  BY <1>0, <1>1, <1>4, <1>5

\* l has no event between the versions v and w of main.
SameHistory(l, v, w) == \A i \in 1..Len(l) : InHistory(l[i], v) <=> InHistory(l[i], w)

(***************************************************************************)
(* One more event changes the state only when it is in the history asked   *)
(* for, and then by its own step.                                          *)
(***************************************************************************)
LEMMA StateOfOneMore ==
  ASSUME NEW l, NEW m, OneLonger(l, m), NEW v, NEW w, SameHistory(l, v, w)
  PROVE  StateTo(m, w) = IF InHistory(m[Len(m)], w)
                         THEN ApplyToState(StateTo(l, v), m[Len(m)].body)
                         ELSE StateTo(l, v)
<1> DEFINE n == Len(l)
           o == Len(m)
<1>1. /\ n \in Nat /\ DOMAIN l = 1..n
      /\ o \in Nat /\ DOMAIN m = 1..o
  BY LenProperties DEF OneLonger, IsLog
<1>2. PICK f : f = CHOOSE x : IsFold(x, l, v, n)
  OBVIOUS
<1>3. PICK g : g = CHOOSE x : IsFold(x, m, w, o)
  OBVIOUS
<1>4. IsFold(f, l, v, n) /\ StateTo(l, v) = f[1..n]
  BY <1>1, <1>2, FoldExists, StateIsFold
<1>5. IsFold(g, m, w, o) /\ StateTo(m, w) = g[1..o]
  BY <1>1, <1>3, FoldExists, StateIsFold
<1>6. o = n + 1 /\ o \in 1..o /\ o - 1 = n /\ n <= o
  BY <1>1 DEF OneLonger
<1>7. g[1..n] = f[1..n]
  <2> HIDE DEF n, o
  <2>1. \A i \in 1..n : m[i] = l[i] /\ (InHistory(l[i], v) <=> InHistory(l[i], w))
    BY DEF n, OneLonger, SameHistory
  <2> QED
    BY <1>1, <1>4, <1>5, <1>6, <2>1, FoldsAgree
<1>8. g[1..o] = StepTo(m, w, g[1..n], o)
  <2> HIDE DEF n, o
  <2>1. \A k \in 1..o : g[1..k] = StepTo(m, w, g[1..k - 1], k)
    BY <1>1, <1>5, FoldValue
  <2> QED
    BY <1>6, <2>1
<1> QED
  BY <1>4, <1>5, <1>7, <1>8 DEF StepTo

-----------------------------------------------------------------------------
(* The invariant.                                                          *)

\* A function whose values are a client's: no nulls among them.
Values(f) == f = [x \in DOMAIN f |-> f[x]] /\ \A x \in DOMAIN f : f[x] # Null

\* What a command carries, other than a rollback's.
Bodies == [type : {"Created"}, changes : Beginnings]
            \union [type : {"Updated"}, changes : Changes]
            \union [type : {"Deleted"}]

Rollbacks == [pc : {"deleted", "compute"}, target : Int, expected : Int]
Appends   == [pc : {"append"}, body : Bodies, expected : Int]
Projects  == [pc : {"project"}, body : Bodies, expected : Int]

Restoring(r) == r.pc = "append" /\ "target" \in DOMAIN r.body
Saving(r)    == r = [pc |-> "save", row |-> r.row]

\* Every slot of requests is idle or runs a command with its own variables.
Slots ==
  /\ cmd = [c \in Commands |-> cmd[c]]
  /\ \A c \in Commands : \/ cmd[c] = Idle
                         \/ cmd[c] \in Rollbacks \union Appends \union Projects
                         \/ Restoring(cmd[c])
                         \/ Saving(cmd[c])

\* Main's version of the person in the log l.
TopOf(l) == StreamVersion(l, Person, Main)

\* Main's versions of the person: positive, the head the greatest.
MainTop(l) ==
  /\ TopOf(l) \in Nat
  /\ IsTop(OwnEvents(l, Person, Main), TopOf(l))
  /\ \A e \in OwnEvents(l, Person, Main) : e.version \in Nat \ {0}

\* r is a row that shows the person as of version v of main.
Shows(l, r, v) ==
  /\ v \in 1..TopOf(l)
  /\ r = [exists |-> TRUE, version |-> v, fields |-> StateTo(l, v)]
  /\ Values(StateTo(l, v))

RowShowsPast == row = NoRow \/ Shows(log, row, row.version)

\* r waits with an event for which w is still the current row, or is a create.
Timely(l, w, r) ==
  \/ r.body.type = "Created" /\ r.expected = -1 /\ l = <<>> /\ w = NoRow
  \/ /\ r.body.type # "Created"
     /\ r.expected \in 1..TopOf(l)
     /\ r.expected = TopOf(l) => Shows(l, w, TopOf(l))

(***************************************************************************)
(* A waiting command was prepared from the row: if its version is still    *)
(* main's, the row still shows it.  A create is alone in flight.           *)
(***************************************************************************)
Prepares ==
  \A c \in Commands :
    cmd[c] \in Appends =>
      /\ Timely(log, row, cmd[c])
      /\ cmd[c].body.type = "Created" => \A d \in Commands \ {c} : cmd[d] = Idle

\* r has main's last event, and the row w is one version behind.
Behind(l, w, r) ==
  /\ ProjectedVersion(r) = TopOf(l)
  /\ IF r.body.type = "Created"
     THEN w = NoRow /\ Shows(l, [exists |-> TRUE, version |-> TopOf(l),
                                 fields |-> r.body.changes], TopOf(l))
     ELSE Shows(l, w, TopOf(l) - 1)
  /\ r.body.type = "Updated" =>
       /\ StateTo(l, TopOf(l)) = Over(r.body.changes, StateTo(l, TopOf(l) - 1))
       /\ Values(r.body.changes)

\* A command that has appended brings the row from one behind to the head.
Projecting ==
  \A c \in Commands :
    /\ cmd[c] \in Projects => Behind(log, row, cmd[c])
    /\ cmd[c].pc = "save" => /\ Shows(log, row, TopOf(log) - 1)
                             /\ Shows(log, cmd[c].row, TopOf(log))

\* The expected versions let one command at a time through to the row.
OneProjects ==
  \A c, d \in Commands :
    cmd[c].pc \in {"project", "save"} /\ cmd[d].pc \in {"project", "save"} => c = d

RowInv ==
  /\ Slots /\ MainTop(log) /\ RowShowsPast
  /\ Prepares /\ Projecting /\ OneProjects

IInv == IsLog(log) /\ (~RolledBack => RowInv)

-----------------------------------------------------------------------------
(* One event more on main, or on a branch.                                 *)

(***************************************************************************)
(* No command but a rollback says which version it restores.               *)
(***************************************************************************)
LEMMA NoTarget ==
  ASSUME NEW body \in Bodies
  PROVE  /\ "target" \notin DOMAIN body
         /\ body.type \in {"Created", "Updated", "Deleted"}
         /\ body.type = "Created" => body.changes \in Beginnings
         /\ body.type = "Updated" => body.changes \in Changes
  BY DEF Bodies

(***************************************************************************)
(* A client's values carry no null.                                        *)
(***************************************************************************)
LEMMA ClientValues ==
  ASSUME NEW f \in Beginnings \union Changes
  PROVE  Values(f)
  BY ValuesAreStrings DEF Values

(***************************************************************************)
(* Values over values are values; values over nothing are themselves.      *)
(***************************************************************************)
LEMMA Overlaid ==
  ASSUME NEW f, Values(f), NEW g, Values(g)
  PROVE  Values(Over(f, g)) /\ (g = <<>> => Over(f, g) = f)
<1> DEFINE D == DOMAIN f \union DOMAIN g
           h == [x \in D |-> IF x \in DOMAIN f THEN f[x] ELSE g[x]]
<1>1. Over(f, g) = h
  BY DEF Over
<1>2. \A x \in D : h[x] = IF x \in DOMAIN f THEN f[x] ELSE g[x]
  OBVIOUS
<1>3. DOMAIN h = D /\ h = [x \in D |-> h[x]]
  OBVIOUS
<1> HIDE DEF h
<1>4. \A x \in D : h[x] # Null
  BY <1>2 DEF Values
<1>5. Values(h)
  BY <1>3, <1>4 DEF Values
<1>6. ASSUME g = <<>> PROVE h = f
  <2>1. D = DOMAIN f
    BY <1>6
  <2>2. \A x \in DOMAIN f : h[x] = f[x]
    BY <1>2
  <2> HIDE DEF D
  <2> QED
    BY <1>3, <2>1, <2>2 DEF Values
<1> QED
  BY <1>1, <1>5, <1>6

(***************************************************************************)
(* What a command's event makes of a state: as the projection computes it. *)
(***************************************************************************)
LEMMA Applied ==
  ASSUME NEW body \in Bodies, NEW state, Values(state)
  PROVE  LET next == ApplyToState(state, body) IN
         /\ Values(next)
         /\ body.type = "Created" /\ state = <<>> => next = body.changes
         /\ body.type = "Updated" => next = Over(body.changes, state)
<1>1. CASE body.type = "Created"
  <2>1. Values(body.changes)
    BY <1>1, NoTarget, ClientValues
  <2>2. ApplyToState(state, body) = Over(body.changes, state)
    BY <1>1 DEF ApplyToState
  <2> QED
    BY <1>1, <2>1, <2>2, Overlaid
<1>2. CASE body.type = "Updated"
  <2>1. Values(body.changes)
    BY <1>2, NoTarget, ClientValues
  <2> DEFINE merged == Over(body.changes, state)
  <2>2. ApplyToState(state, body) = [f \in {g \in DOMAIN merged : merged[g] # Null} |-> merged[f]]
    BY <1>2 DEF ApplyToState
  <2>3. Values(merged)
    BY <2>1, Overlaid
  <2> HIDE DEF merged
  <2>4. {g \in DOMAIN merged : merged[g] # Null} = DOMAIN merged
    BY <2>3 DEF Values
  <2>5. ApplyToState(state, body) = merged
    BY <2>2, <2>3, <2>4 DEF Values
  <2> QED
    BY <1>2, <2>3, <2>5 DEF merged
<1>3. CASE body.type = "Deleted"
  BY <1>3 DEF ApplyToState
<1> QED
  BY <1>1, <1>2, <1>3, NoTarget

(***************************************************************************)
(* An event in a log is at one of its positions.                           *)
(***************************************************************************)
LEMMA LoggedEvent ==
  ASSUME NEW l, IsLog(l), NEW i \in 1..Len(l)
  PROVE  l[i] \in EventsOf(l)
  BY DEF EventsOf

(***************************************************************************)
(* An append to main moves its version by one, leaves every earlier state  *)
(* as it was and applies the new event to the last one.                    *)
(***************************************************************************)
LEMMA MainStored ==
  ASSUME NEW l, IsLog(l), MainTop(l), NEW body, NEW m,
         Grows(l, m, Person, Main, TopOf(l), body)
  PROVE  /\ IsLog(m) /\ MainTop(m)
         /\ TopOf(m) = TopOf(l) + 1
         /\ \A v \in 1..TopOf(l) : StateTo(m, v) = StateTo(l, v)
         /\ StateTo(m, TopOf(m)) = ApplyToState(StateTo(l, TopOf(l)), body)
<1> DEFINE e == StoredEvent(l, Person, Main, TopOf(l), body)
<1>1. PICK n \in Nat : n = TopOf(l)
  BY DEF MainTop
<1>2. /\ OneLonger(l, m)
      /\ m[Len(m)] = e
      /\ EventsOf(m) = EventsOf(l) \union {e}
  BY OneMore
<1>3. /\ e.stream = Person /\ e.branch = Main /\ e.version = n + 1 /\ e.body = body
  BY <1>1 DEF StoredEvent
<1> HIDE DEF e
<1>4. OwnEvents(m, Person, Main) = OwnEvents(l, Person, Main) \union {e}
  BY <1>2, <1>3 DEF OwnEvents
<1>5. \A d \in OwnEvents(l, Person, Main) : d.version \in Nat \ {0} /\ d.version <= n
  BY <1>1 DEF MainTop, IsTop
<1>6. /\ IsTop(OwnEvents(m, Person, Main), n + 1)
      /\ \A d \in OwnEvents(m, Person, Main) : d.version \in Nat \ {0}
  <2>1. ASSUME NEW d \in OwnEvents(m, Person, Main)
        PROVE  d.version \in Nat \ {0} /\ d.version <= n + 1
    BY <1>3, <1>4, <1>5
  <2>2. e \in OwnEvents(m, Person, Main)
    BY <1>4
  <2> QED
    BY <1>3, <2>1, <2>2 DEF IsTop
<1>7. TopOf(m) = n + 1
  BY <1>6, TopVersionIs DEF TopOf, StreamVersion
<1>8. \A i \in 1..Len(l) : l[i].stream = Person /\ l[i].branch = Main => l[i].version \in 1..n
  BY <1>5, LoggedEvent DEF OwnEvents, OneLonger
<1>9. ASSUME NEW v \in 1..n PROVE StateTo(m, v) = StateTo(l, v)
  <2>1. ~ InHistory(m[Len(m)], v)
    BY <1>2, <1>3 DEF InHistory
  <2>2. StateTo(m, v) = IF InHistory(m[Len(m)], v)
                           THEN ApplyToState(StateTo(l, v), m[Len(m)].body)
                           ELSE StateTo(l, v)
    BY <1>2, StateOfOneMore DEF SameHistory
  <2> QED
    BY <2>1, <2>2
<1>10. StateTo(m, n + 1) = ApplyToState(StateTo(l, n), body)
  <2>1. InHistory(m[Len(m)], n + 1)
    BY <1>2, <1>3 DEF InHistory
  <2>2. SameHistory(l, n, n + 1)
    BY <1>8 DEF InHistory, SameHistory
  <2>3. StateTo(m, n + 1) = IF InHistory(m[Len(m)], n + 1)
                           THEN ApplyToState(StateTo(l, n), m[Len(m)].body)
                           ELSE StateTo(l, n)
    BY <1>2, <2>2, StateOfOneMore DEF SameHistory
  <2> QED
    BY <1>2, <1>3, <2>1, <2>3
<1> QED
  BY <1>1, <1>2, <1>6, <1>7, <1>9, <1>10 DEF MainTop, OneLonger

(***************************************************************************)
(* An append to a branch changes nothing that main's history makes.        *)
(***************************************************************************)
LEMMA BranchStored ==
  ASSUME NEW l, IsLog(l), MainTop(l), NEW b \in Branches, NEW cur, NEW body, NEW m,
         Grows(l, m, Person, b, cur, body)
  PROVE  /\ IsLog(m) /\ MainTop(m)
         /\ TopOf(m) = TopOf(l)
         /\ \A v : StateTo(m, v) = StateTo(l, v)
<1> DEFINE e == StoredEvent(l, Person, b, cur, body)
<1>1. /\ OneLonger(l, m)
      /\ m[Len(m)] = e
      /\ EventsOf(m) = EventsOf(l) \union {e}
  BY OneMore
<1>2. e.branch = b /\ b # Main
  BY BranchesApart DEF StoredEvent
<1> HIDE DEF e
<1>3. OwnEvents(m, Person, Main) = OwnEvents(l, Person, Main)
  BY <1>1, <1>2 DEF OwnEvents
<1>4. ASSUME NEW v PROVE StateTo(m, v) = StateTo(l, v)
  <2>1. ~ InHistory(m[Len(m)], v)
    BY <1>1, <1>2 DEF InHistory
  <2>2. StateTo(m, v) = IF InHistory(m[Len(m)], v)
                           THEN ApplyToState(StateTo(l, v), m[Len(m)].body)
                           ELSE StateTo(l, v)
    BY <1>1, StateOfOneMore DEF SameHistory
  <2> QED
    BY <2>1, <2>2
<1> QED
  BY <1>1, <1>3, <1>4 DEF MainTop, TopOf, StreamVersion, OneLonger

-----------------------------------------------------------------------------
(* Steps that change a slot, and neither the log nor the row.              *)

\* What a step may put into slot c.
Fits(c, r) ==
  \/ r = Idle
  \/ r \in Rollbacks
  \/ r.pc = "append" /\ Restoring(r)
  \/ /\ r \in Appends /\ Timely(log, row, r)
     /\ r.body.type = "Created" => \A d \in Commands : cmd[d] = Idle
  \/ /\ r.pc = "save" /\ Saving(r)
     /\ cmd[c].pc \in {"project", "save"}
     /\ Shows(log, row, TopOf(log) - 1) /\ Shows(log, r.row, TopOf(log))

(***************************************************************************)
(* Such a step keeps the invariant, unless it starts a second request      *)
(* beside a create: nothing but a create starts with no log and no row.    *)
(***************************************************************************)
LEMMA SlotStep ==
  ASSUME RowInv, NEW c \in Commands, NEW r, Fits(c, r),
         cmd' = [cmd EXCEPT ![c] = r], log' = log, row' = row,
         \/ cmd[c] # Idle
         \/ log # <<>> \/ row # NoRow
         \/ \A d \in Commands : cmd[d] = Idle
  PROVE  RowInv'
<1>1. /\ cmd' = [d \in Commands |-> cmd'[d]]
      /\ cmd'[c] = r
      /\ \A d \in Commands \ {c} : cmd'[d] = cmd[d]
  BY DEF RowInv, Slots
<1>2. /\ r \in Appends => /\ Timely(log, row, r) /\ r.pc = "append"
                          /\ r.body.type = "Created" => \A d \in Commands : cmd[d] = Idle
      /\ r.pc = "save" => /\ cmd[c].pc \in {"project", "save"}
                          /\ Shows(log, row, TopOf(log) - 1)
                          /\ Shows(log, r.row, TopOf(log))
      /\ r \notin Projects /\ r.pc # "project"
  BY NoTarget DEF Fits, Idle, Rollbacks, Appends, Projects, Restoring, Saving
<1>3. Slots'
  BY <1>1 DEF RowInv, Slots, Fits, Saving, Restoring
<1>4. Prepares'
  <2> SUFFICES ASSUME NEW d \in Commands, cmd'[d] \in Appends
               PROVE  /\ Timely(log, row, cmd'[d])
                      /\ cmd'[d].body.type = "Created" =>
                           \A x \in Commands \ {d} : cmd'[x] = Idle
    BY DEF Prepares
  <2>1. CASE d = c
    BY <1>1, <1>2, <2>1
  <2>2. CASE d # c
    <3>1. /\ Timely(log, row, cmd[d])
          /\ cmd[d].body.type = "Created" => \A x \in Commands \ {d} : cmd[x] = Idle
      BY <1>1, <2>2 DEF RowInv, Prepares
    <3>2. ASSUME cmd[d].body.type = "Created" PROVE \A x \in Commands \ {d} : cmd'[x] = Idle
      <4>1. log = <<>> /\ row = NoRow
        BY <3>1, <3>2 DEF Timely
      <4>2. cmd[c] = Idle /\ cmd[d] # Idle
        BY <1>1, <2>2, <3>1, <3>2 DEF Appends, Idle
      <4> QED
        BY <4>1, <4>2
    <3> QED
      BY <1>1, <2>2, <3>1, <3>2
  <2> QED
    BY <2>1, <2>2
<1>5. Projecting'
  <2> SUFFICES ASSUME NEW d \in Commands
               PROVE  /\ cmd'[d] \in Projects => Behind(log, row, cmd'[d])
                      /\ cmd'[d].pc = "save" => /\ Shows(log, row, TopOf(log) - 1)
                                                /\ Shows(log, cmd'[d].row, TopOf(log))
    BY DEF Projecting
  <2> QED
    BY <1>1, <1>2 DEF RowInv, Projecting
<1>6. OneProjects'
  BY <1>1, <1>2 DEF RowInv, OneProjects
<1> QED
  BY <1>3, <1>4, <1>5, <1>6 DEF RowInv, RowShowsPast

(***************************************************************************)
(* An empty log has no version of the person.                              *)
(***************************************************************************)
LEMMA NothingLogged == TopOf(<<>>) = 0
<1>1. Len(<<>>) = 0 /\ 1..0 = {}
  OBVIOUS
<1>2. EventsOf(<<>>) = {}
  BY <1>1 DEF EventsOf
<1> QED
  BY <1>2 DEF TopOf, StreamVersion, OwnEvents, TopVersion

(***************************************************************************)
(* A row that exists is one main's log has been at.                        *)
(***************************************************************************)
LEMMA RowShown ==
  ASSUME RowInv
  PROVE  /\ row.exists \in BOOLEAN
         /\ row.exists => row # NoRow /\ Shows(log, row, row.version) /\ row.version \in 1..TopOf(log)
         /\ ~row.exists => row = NoRow
<1>1. CASE row = NoRow
  BY <1>1 DEF NoRow
<1>2. CASE Shows(log, row, row.version)
  <2>1. row.version \in 1..TopOf(log) /\ row.exists = TRUE
    BY <1>2 DEF Shows
  <2>2. NoRow.exists = FALSE
    BY DEF NoRow
  <2> QED
    BY <1>2, <2>1, <2>2
<1> QED
  BY <1>1, <1>2 DEF RowInv, RowShowsPast

(***************************************************************************)
(* A command begins: with the row's version, or alone.                     *)
(***************************************************************************)
LEMMA BeginSteps ==
  ASSUME RowInv, NEW c \in Commands,
         BeginCreate(c) \/ BeginUpdate(c) \/ BeginDelete(c) \/ BeginRollback(c)
  PROVE  RowInv'
<1>1. CASE BeginCreate(c)
  <2>1. PICK fields \in Beginnings :
          cmd' = [cmd EXCEPT ![c] = Prepared([type |-> "Created", changes |-> fields], -1)]
    BY <1>1 DEF BeginCreate
  <2> DEFINE r == Prepared([type |-> "Created", changes |-> fields], -1)
  <2>2. log = <<>> /\ log' = log /\ row' = row /\ \A d \in Commands : cmd[d] = Idle
    BY <1>1 DEF BeginCreate
  <2>3. TopOf(log) = 0
    BY <2>2, NothingLogged
  <2>4. row = NoRow
    BY <2>3, RowShown
  <2>5. r \in Appends /\ Timely(log, row, r)
    BY <2>2, <2>4 DEF Prepared, Appends, Bodies, Timely
  <2>6. Fits(c, r)
    BY <2>2, <2>5 DEF Fits
  <2> HIDE DEF r
  <2> QED
    BY <2>1, <2>2, <2>6, SlotStep DEF r
<1>2. ASSUME NEW body \in Bodies, body.type # "Created", row.exists,
             cmd' = [cmd EXCEPT ![c] = Prepared(body, ExpectsRow)], log' = log, row' = row
      PROVE  RowInv'
  <2> DEFINE r == Prepared(body, ExpectsRow)
  <2>1. row # NoRow /\ Shows(log, row, row.version) /\ row.version \in 1..TopOf(log)
    BY <1>2, RowShown
  <2>2. r \in Appends /\ r.body = body /\ r.expected = row.version
    BY <2>1 DEF Prepared, Appends, ExpectsRow
  <2>3. Timely(log, row, r)
    BY <1>2, <2>1, <2>2 DEF Timely
  <2>4. Fits(c, r)
    BY <1>2, <2>2, <2>3 DEF Fits
  <2> HIDE DEF r
  <2> QED
    BY <1>2, <2>1, <2>4, SlotStep DEF r
<1>3. CASE BeginUpdate(c)
  <2>1. PICK changes \in Changes :
          cmd' = [cmd EXCEPT ![c] = Prepared([type |-> "Updated", changes |-> changes], ExpectsRow)]
    BY <1>3 DEF BeginUpdate
  <2>2. /\ [type |-> "Updated", changes |-> changes] \in Bodies
        /\ [type |-> "Updated", changes |-> changes].type # "Created"
    BY DEF Bodies
  <2> QED
    BY <1>2, <1>3, <2>1, <2>2 DEF BeginUpdate
<1>4. CASE BeginDelete(c)
  <2>1. [type |-> "Deleted"] \in Bodies /\ [type |-> "Deleted"].type # "Created"
    BY DEF Bodies
  <2> QED
    BY <1>2, <1>4, <2>1 DEF BeginDelete
<1>5. CASE BeginRollback(c)
  <2>1. PICK target \in 1..MainVersion - 1 :
          cmd' = [cmd EXCEPT ![c] = [pc |-> "deleted", target |-> target, expected |-> MainVersion]]
    BY <1>5 DEF BeginRollback
  <2> DEFINE r == [pc |-> "deleted", target |-> target, expected |-> MainVersion]
  <2>2. MainVersion \in Nat /\ MainVersion = TopOf(log)
    BY DEF RowInv, MainTop, MainVersion, TopOf
  <2>3. r \in Rollbacks
    BY <2>2 DEF Rollbacks
  <2>4. Fits(c, r)
    BY <2>3 DEF Fits
  <2>5. log # <<>>
    <3>1. OwnEvents(log, Person, Main) # {}
      BY <2>2 DEF RowInv, MainTop, IsTop
    <3>2. EventsOf(<<>>) = {}
      BY DEF EventsOf
    <3> QED
      BY <3>1, <3>2 DEF OwnEvents
  <2>6. log' = log /\ row' = row
    BY <1>5 DEF BeginRollback
  <2> HIDE DEF r
  <2> QED
    BY <2>1, <2>4, <2>5, <2>6, SlotStep DEF r
<1> QED
  BY <1>1, <1>3, <1>4, <1>5

(***************************************************************************)
(* A rollback reads, or a command gives up or loses its projection.        *)
(***************************************************************************)
LEMMA ReadSteps ==
  ASSUME IsLog(log), RowInv, NEW c \in Commands,
         \/ CheckDeleted(c) \/ Compute(c) \/ LoseProjection(c)
         \/ AppendEvent(c) /\ log' = log
  PROVE  RowInv'
<1>1. ASSUME NEW r, r = Idle \/ r \in Rollbacks \/ (r.pc = "append" /\ Restoring(r)),
             cmd' = [cmd EXCEPT ![c] = r], log' = log, row' = row, cmd[c].pc # "idle"
      PROVE  RowInv'
  <2>1. Fits(c, r)
    BY <1>1 DEF Fits
  <2>2. cmd[c] # Idle
    BY <1>1 DEF Idle
  <2> QED
    BY <1>1, <2>1, <2>2, SlotStep
<1>2. CASE CheckDeleted(c)
  <2>1. cmd[c].pc = "deleted"
    BY <1>2 DEF CheckDeleted
  <2>2. cmd[c] \in Rollbacks
    BY <2>1 DEF RowInv, Slots, Idle, Rollbacks, Appends, Projects, Restoring, Saving
  <2>3. CASE row.exists
    <3> DEFINE r == [cmd[c] EXCEPT !.pc = "compute"]
    <3>1. r \in Rollbacks
      BY <2>2 DEF Rollbacks
    <3>2. cmd' = [cmd EXCEPT ![c] = r]
      BY <1>2, <2>3 DEF CheckDeleted, Goto
    <3> HIDE DEF r
    <3> QED
      BY <1>1, <1>2, <2>1, <3>1, <3>2 DEF CheckDeleted
  <2>4. CASE ~row.exists
    BY <1>1, <1>2, <2>1, <2>4 DEF CheckDeleted, Return
  <2> QED
    BY <2>3, <2>4
<1>3. CASE Compute(c)
  <2>1. cmd[c].pc = "compute" /\ log' = log /\ row' = row
    BY <1>3 DEF Compute
  <2>2. CASE Return(c)
    BY <1>1, <2>1, <2>2 DEF Return
  <2>3. CASE \E diff : cmd' = [cmd EXCEPT ![c] =
                          Prepared([type |-> "Updated", changes |-> diff,
                                    target |-> cmd[c].target], cmd[c].expected)]
    <3>1. PICK diff : cmd' = [cmd EXCEPT ![c] =
                          Prepared([type |-> "Updated", changes |-> diff,
                                    target |-> cmd[c].target], cmd[c].expected)]
      BY <2>3
    <3> DEFINE r == Prepared([type |-> "Updated", changes |-> diff,
                              target |-> cmd[c].target], cmd[c].expected)
    <3>2. r.pc = "append" /\ Restoring(r)
      BY DEF Prepared, Restoring
    <3> HIDE DEF r
    <3> QED
      BY <1>1, <2>1, <3>1, <3>2 DEF r
  <2> QED
    BY <1>3, <2>2, <2>3 DEF Compute
<1>4. CASE LoseProjection(c)
  BY <1>1, <1>4 DEF LoseProjection, Return
<1>5. CASE AppendEvent(c) /\ log' = log
  <2>1. cmd[c].pc = "append" /\ row' = row
    BY <1>5 DEF AppendEvent
  <2>2. CASE Return(c)
    BY <1>1, <1>5, <2>1, <2>2 DEF Return
  <2>3. CASE log' = log \o Stored(log, Person, Main, MainVersion, <<cmd[c].body>>)
    <3>1. Grows(log, log', Person, Main, TopOf(log), cmd[c].body)
      BY <2>3 DEF Grows, MainVersion, TopOf
    <3>2. TopOf(log') = TopOf(log) + 1 /\ TopOf(log) \in Nat
      BY <3>1, MainStored DEF RowInv, MainTop
    <3> QED
      BY <1>5, <3>2
  <2> QED
    BY <1>5, <2>2, <2>3 DEF AppendEvent
<1> QED
  BY <1>2, <1>3, <1>4, <1>5

-----------------------------------------------------------------------------
(* Steps that append.                                                      *)

(***************************************************************************)
(* A row that shows a past version still shows it in a longer log.         *)
(***************************************************************************)
LEMMA ShowsStill ==
  ASSUME NEW l, TopOf(l) \in Nat, NEW m, TopOf(m) = TopOf(l) \/ TopOf(m) = TopOf(l) + 1,
         \A v \in 1..TopOf(l) : StateTo(m, v) = StateTo(l, v),
         NEW r, NEW v, Shows(l, r, v)
  PROVE  Shows(m, r, v)
<1>1. v \in 1..TopOf(l) /\ StateTo(m, v) = StateTo(l, v)
  BY DEF Shows
<1>2. v \in 1..TopOf(m)
  BY <1>1
<1> QED
  BY <1>1, <1>2 DEF Shows

(***************************************************************************)
(* A command whose version is accepted has nobody projecting beside it:    *)
(* the row is at main's version, or there is none yet.                     *)
(***************************************************************************)
LEMMA NobodyProjects ==
  ASSUME RowInv, NEW c \in Commands, cmd[c] \in Appends,
         \/ cmd[c].body.type = "Created"
         \/ Shows(log, row, TopOf(log))
  PROVE  \A d \in Commands : cmd[d].pc \notin {"project", "save"}
<1> SUFFICES ASSUME NEW d \in Commands, cmd[d].pc \in {"project", "save"} PROVE FALSE
  OBVIOUS
<1>1. d # c /\ cmd[d] # Idle
  BY DEF Appends, Idle
<1>2. cmd[c].body.type # "Created"
  BY <1>1 DEF RowInv, Prepares
<1>3. row.version = TopOf(log) /\ row # NoRow /\ TopOf(log) \in Nat
  BY <1>2, RowShown DEF Shows, NoRow, RowInv, MainTop
<1>4. CASE cmd[d].pc = "save"
  <2>1. row.version = TopOf(log) - 1
    BY <1>4 DEF RowInv, Projecting, Shows
  <2> QED
    BY <1>3, <2>1
<1>5. CASE cmd[d].pc = "project"
  <2>1. cmd[d] \in Projects
    BY <1>5 DEF RowInv, Slots, Idle, Rollbacks, Appends, Projects, Restoring, Saving
  <2>2. Behind(log, row, cmd[d])
    BY <2>1 DEF RowInv, Projecting
  <2>3. row.version = TopOf(log) - 1
    BY <1>3, <2>2 DEF Behind, Shows
  <2> QED
    BY <1>3, <2>3
<1> QED
  BY <1>4, <1>5

(***************************************************************************)
(* A command that appends has main's last event, and the row it read is    *)
(* one behind.                                                             *)
(***************************************************************************)
LEMMA AppendLeavesBehind ==
  ASSUME IsLog(log), RowInv, NEW r \in Appends, Timely(log, row, r),
         Accepts(r.expected, TopOf(log)),
         NEW m, Grows(log, m, Person, Main, TopOf(log), r.body)
  PROVE  Behind(m, row, [r EXCEPT !.pc = "project"])
<1> DEFINE p == [r EXCEPT !.pc = "project"]
<1> SUFFICES Behind(m, row, p)
  OBVIOUS
<1>1. p.body = r.body /\ p.expected = r.expected
  BY DEF Appends
<1> HIDE DEF p
<1>2. /\ MainTop(m)
      /\ TopOf(m) = TopOf(log) + 1 /\ TopOf(log) \in Nat
      /\ \A v \in 1..TopOf(log) : StateTo(m, v) = StateTo(log, v)
      /\ StateTo(m, TopOf(m)) = ApplyToState(StateTo(log, TopOf(log)), r.body)
  BY MainStored DEF RowInv, MainTop
<1>3. r.body \in Bodies /\ r.expected \in Int
  BY DEF Appends
<1>4. CASE r.body.type = "Created"
  <2>1. r.expected = -1 /\ log = <<>> /\ row = NoRow /\ TopOf(log) = 0
    BY <1>4, NothingLogged DEF Timely
  <2>2. StateTo(log, 0) = <<>> /\ Values(<<>>)
    BY <2>1, StateOfNothing DEF Values
  <2>3. Values(StateTo(m, 1)) /\ StateTo(m, 1) = r.body.changes
    BY <1>2, <1>3, <1>4, <2>1, <2>2, Applied
  <2>4. ProjectedVersion(p) = 1
    BY <1>1, <2>1 DEF ProjectedVersion
  <2>5. Shows(m, [exists |-> TRUE, version |-> 1, fields |-> r.body.changes], 1)
    <3>1. 1 \in 1..TopOf(m)
      BY <1>2, <2>1
    <3> QED
      BY <2>3, <3>1 DEF Shows
  <2>6. TopOf(m) = 1
    BY <1>2, <2>1
  <2>7. p.body.type = "Created" /\ p.body.changes = r.body.changes
    BY <1>1, <1>4
  <2> QED
    BY <2>1, <2>4, <2>5, <2>6, <2>7 DEF Behind
<1>5. CASE r.body.type # "Created"
  <2>1. r.expected = TopOf(log) /\ TopOf(log) \in 1..TopOf(log) /\ Shows(log, row, TopOf(log))
    BY <1>2, <1>3, <1>5 DEF Timely, Accepts
  <2>2. Shows(m, row, TopOf(log))
    BY <1>2, <2>1, ShowsStill
  <2>3. ProjectedVersion(p) = TopOf(m) /\ TopOf(m) - 1 = TopOf(log)
    BY <1>1, <1>2, <2>1 DEF ProjectedVersion
  <2>4. ASSUME r.body.type = "Updated"
        PROVE  /\ StateTo(m, TopOf(m)) = Over(r.body.changes, StateTo(m, TopOf(log)))
               /\ Values(r.body.changes)
    <3>1. Values(StateTo(log, TopOf(log))) /\ StateTo(m, TopOf(log)) = StateTo(log, TopOf(log))
      BY <1>2, <2>1 DEF Shows
    <3>2. Values(r.body.changes)
      BY <1>3, <2>4, NoTarget, ClientValues
    <3> QED
      BY <1>2, <1>3, <2>4, <3>1, <3>2, Applied
  <2> QED
    BY <1>1, <1>5, <2>2, <2>3, <2>4 DEF Behind
<1> QED
  BY <1>4, <1>5

(***************************************************************************)
(* An accepted append keeps the invariant: the command that made it is the *)
(* only one to project, and every command that waits is now stale.         *)
(***************************************************************************)
LEMMA AppendStep ==
  ASSUME IsLog(log), RowInv, NEW c \in Commands, AppendEvent(c), log' # log, ~RolledBack'
  PROVE  RowInv'
<1> DEFINE r == cmd[c]
           p == [r EXCEPT !.pc = "project"]
<1>1. /\ r.pc = "append" /\ row' = row
      /\ Accepts(r.expected, TopOf(log))
      /\ Grows(log, log', Person, Main, TopOf(log), r.body)
      /\ cmd' = [cmd EXCEPT ![c] = p]
  BY DEF AppendEvent, Goto, Grows, MainVersion, TopOf
<1>2. "target" \notin DOMAIN r.body
  <2>1. /\ EventsOf(log') = EventsOf(log) \union
              {StoredEvent(log, Person, Main, TopOf(log), r.body)}
    BY <1>1, OneMore
  <2>2. StoredEvent(log, Person, Main, TopOf(log), r.body).body = r.body
    BY DEF StoredEvent
  <2> QED
    BY <2>1, <2>2 DEF RolledBack
<1>3. r \in Appends
  BY <1>1, <1>2 DEF RowInv, Slots, Idle, Rollbacks, Projects, Restoring, Saving
<1>4. /\ IsLog(log') /\ MainTop(log')
      /\ TopOf(log') = TopOf(log) + 1 /\ TopOf(log) \in Nat
      /\ \A v \in 1..TopOf(log) : StateTo(log', v) = StateTo(log, v)
  BY <1>1, MainStored DEF RowInv, MainTop
<1>5. Timely(log, row, r)
  BY <1>3 DEF RowInv, Prepares
<1>6. Behind(log', row, p)
  BY <1>1, <1>3, <1>5, AppendLeavesBehind
<1>7. r.body.type = "Created" \/ Shows(log, row, TopOf(log))
  BY <1>1, <1>4, <1>5 DEF Timely, Accepts
<1>8. \A d \in Commands : cmd[d].pc \notin {"project", "save"}
  BY <1>3, <1>7, NobodyProjects
<1>9. /\ cmd' = [d \in Commands |-> cmd'[d]]
      /\ cmd'[c] = p /\ p \in Projects /\ p.pc = "project"
      /\ \A d \in Commands \ {c} : cmd'[d] = cmd[d]
  BY <1>1, <1>3 DEF RowInv, Slots, Appends, Projects
<1> HIDE DEF r, p
<1>10. Slots'
  BY <1>9 DEF RowInv, Slots, Saving, Restoring
<1>11. RowShowsPast'
  <2>1. CASE row = NoRow
    BY <1>1, <2>1 DEF RowShowsPast
  <2>2. CASE Shows(log, row, row.version)
    <3>1. Shows(log', row, row.version)
      BY <1>4, <2>2, ShowsStill
    <3> QED
      BY <1>1, <3>1 DEF RowShowsPast
  <2> QED
    BY <2>1, <2>2 DEF RowInv, RowShowsPast
<1>12. Prepares'
  <2> SUFFICES ASSUME NEW d \in Commands, cmd'[d] \in Appends
               PROVE  Timely(log', row', cmd'[d]) /\ cmd'[d].body.type # "Created"
    BY DEF Prepares
  <2>1. d # c /\ cmd'[d] = cmd[d]
    BY <1>9 DEF Appends
  <2>2. Timely(log, row, cmd[d])
    BY <2>1 DEF RowInv, Prepares
  <2>3. cmd[d].body.type # "Created"
    <3>1. r # Idle
      BY <1>3 DEF Appends, Idle
    <3> QED
      BY <2>1, <3>1 DEF RowInv, Prepares, r
  <2>4. cmd[d].expected \in 1..TopOf(log)
    BY <2>2, <2>3 DEF Timely
  <2>5. cmd[d].expected \in 1..TopOf(log') /\ cmd[d].expected # TopOf(log')
    BY <1>4, <2>4
  <2> QED
    BY <1>1, <2>1, <2>3, <2>5 DEF Timely
<1>13. Projecting'
  <2> SUFFICES ASSUME NEW d \in Commands
               PROVE  /\ cmd'[d] \in Projects => Behind(log', row', cmd'[d])
                      /\ cmd'[d].pc # "save"
    BY DEF Projecting
  <2>1. CASE d = c
    BY <1>1, <1>6, <1>9, <2>1
  <2>2. CASE d # c
    BY <1>8, <1>9, <2>2 DEF Projects
  <2> QED
    BY <2>1, <2>2
<1>14. OneProjects'
  BY <1>8, <1>9 DEF OneProjects
<1> QED
  BY <1>4, <1>10, <1>11, <1>12, <1>13, <1>14 DEF RowInv

-----------------------------------------------------------------------------
(* Steps that project.                                                     *)

(***************************************************************************)
(* What a projecting request finds: main's last event is its own, and the  *)
(* row has not seen it.                                                    *)
(***************************************************************************)
LEMMA RowIsBehind ==
  ASSUME RowInv, NEW c \in Commands, cmd[c].pc \in {"project", "save"}
  PROVE  /\ TopOf(log) \in Nat
         /\ row = NoRow \/ Shows(log, row, TopOf(log) - 1)
         /\ ~ Shows(log, row, TopOf(log))
         /\ cmd[c].pc = "project" => cmd[c] \in Projects /\ Behind(log, row, cmd[c])
         /\ cmd[c].pc = "save" => Shows(log, cmd[c].row, TopOf(log))
<1>1. TopOf(log) \in Nat
  BY DEF RowInv, MainTop
<1>2. cmd[c].pc = "project" => cmd[c] \in Projects /\ Behind(log, row, cmd[c])
  BY DEF RowInv, Slots, Projecting, Idle, Rollbacks, Appends, Projects, Restoring, Saving
<1>3. cmd[c].pc = "save" => /\ Shows(log, row, TopOf(log) - 1)
                            /\ Shows(log, cmd[c].row, TopOf(log))
  BY DEF RowInv, Projecting
<1>4. row = NoRow \/ Shows(log, row, TopOf(log) - 1)
  BY <1>2, <1>3 DEF Behind
<1>5. ~ Shows(log, row, TopOf(log))
  <2>1. CASE row = NoRow
    BY <2>1 DEF Shows, NoRow
  <2>2. CASE Shows(log, row, TopOf(log) - 1)
    <3>1. row.version = TopOf(log) - 1
      BY <2>2 DEF Shows
    <3>2. row.version # TopOf(log)
      BY <1>1, <3>1
    <3> QED
      BY <3>2 DEF Shows
  <2> QED
    BY <1>4, <2>1, <2>2
<1> QED
  BY <1>1, <1>2, <1>3, <1>4, <1>5

(***************************************************************************)
(* Projecting removes the row or brings it to main's version; no other     *)
(* request waits with a version that could still be accepted.              *)
(***************************************************************************)
LEMMA RowStep ==
  ASSUME RowInv, NEW c \in Commands, cmd[c].pc \in {"project", "save"},
         cmd' = [cmd EXCEPT ![c] = Idle], log' = log,
         row' = NoRow \/ Shows(log, row', TopOf(log))
  PROVE  RowInv'
<1>1. TopOf(log) \in Nat /\ ~ Shows(log, row, TopOf(log)) /\ cmd[c] # Idle
  BY RowIsBehind DEF Idle
<1>2. /\ cmd' = [d \in Commands |-> cmd'[d]]
      /\ cmd'[c] = Idle
      /\ \A d \in Commands \ {c} : cmd'[d] = cmd[d]
  BY DEF RowInv, Slots
<1>3. \A d \in Commands : cmd'[d].pc \notin {"project", "save"}
  BY <1>2 DEF RowInv, OneProjects, Idle
<1>4. Slots'
  BY <1>2 DEF RowInv, Slots, Saving, Restoring
<1>5. RowShowsPast'
  <2>1. CASE row' = NoRow
    BY <2>1 DEF RowShowsPast
  <2>2. CASE Shows(log, row', TopOf(log))
    <3>1. row'.version = TopOf(log)
      BY <2>2 DEF Shows
    <3> QED
      BY <2>2, <3>1 DEF RowShowsPast
  <2> QED
    BY <2>1, <2>2
<1>6. Prepares'
  <2> SUFFICES ASSUME NEW d \in Commands, cmd'[d] \in Appends
               PROVE  Timely(log', row', cmd'[d]) /\ cmd'[d].body.type # "Created"
    BY DEF Prepares
  <2>1. d # c /\ cmd'[d] = cmd[d]
    BY <1>2 DEF Appends, Idle
  <2>2. Timely(log, row, cmd[d]) /\ cmd[d].body.type # "Created"
    BY <1>1, <2>1 DEF RowInv, Prepares
  <2>3. cmd[d].expected \in 1..TopOf(log) /\ cmd[d].expected # TopOf(log)
    BY <1>1, <2>2 DEF Timely
  <2> QED
    BY <2>1, <2>2, <2>3 DEF Timely
<1>7. Projecting' /\ OneProjects'
  <2>1. \A d \in Commands : cmd'[d] \notin Projects
    BY <1>3 DEF Projects
  <2> QED
    BY <1>3, <2>1 DEF Projecting, OneProjects
<1> QED
  BY <1>4, <1>5, <1>6, <1>7 DEF RowInv

(***************************************************************************)
(* A create or a delete is projected, or an update saves what it loaded.   *)
(***************************************************************************)
LEMMA SaveSteps ==
  ASSUME RowInv, NEW c \in Commands, ProjectWhole(c) \/ SaveProjected(c)
  PROVE  RowInv' /\ (row' = NoRow \/ Shows(log, row', TopOf(log)))
<1>1. cmd' = [cmd EXCEPT ![c] = Idle] /\ log' = log /\ cmd[c].pc \in {"project", "save"}
  BY DEF ProjectWhole, SaveProjected, Return
<1>2. row' = NoRow \/ Shows(log, row', TopOf(log))
  <2>1. CASE SaveProjected(c)
    BY <1>1, <2>1, RowIsBehind DEF SaveProjected
  <2>2. CASE ProjectWhole(c)
    <3>1. /\ cmd[c].pc = "project" /\ cmd[c].body.type # "Updated"
          /\ row' = IF cmd[c].body.type = "Deleted" THEN NoRow
                    ELSE [exists |-> TRUE, version |-> ProjectedVersion(cmd[c]),
                          fields |-> cmd[c].body.changes]
      BY <2>2 DEF ProjectWhole
    <3>2. cmd[c] \in Projects /\ Behind(log, row, cmd[c])
      BY <1>1, <3>1, RowIsBehind
    <3>3. CASE cmd[c].body.type = "Deleted"
      BY <3>1, <3>3
    <3>4. CASE cmd[c].body.type = "Created"
      <4>1. ProjectedVersion(cmd[c]) = TopOf(log)
        BY <3>2 DEF Behind
      <4>2. Shows(log, [exists |-> TRUE, version |-> TopOf(log),
                        fields |-> cmd[c].body.changes], TopOf(log))
        BY <3>2, <3>4 DEF Behind
      <4> QED
        BY <3>1, <3>4, <4>1, <4>2
    <3> QED
      BY <3>1, <3>2, <3>3, <3>4, NoTarget DEF Projects
  <2> QED
    BY <2>1, <2>2
<1> QED
  BY <1>1, <1>2, RowStep

IsRow(r, v, f) == r = [exists |-> TRUE, version |-> v, fields |-> f]

(***************************************************************************)
(* A row with another version and other fields.                            *)
(***************************************************************************)
LEMMA ChangedRow ==
  ASSUME NEW v, NEW g, NEW w, NEW h, NEW r, IsRow(r, v, g)
  PROVE  IsRow([r EXCEPT !.version = w, !.fields = h], w, h)
<1> USE DEF IsRow
<1> DEFINE Rows == [exists : {TRUE}, version : {v, w}, fields : {g, h}]
<1>1. PICK q : q = [r EXCEPT !.version = w, !.fields = h]
  OBVIOUS
<1>2. r \in Rows
  OBVIOUS
<1>3. q \in Rows /\ q.version = w /\ q.fields = h
  BY <1>1, <1>2
<1>4. q.exists = TRUE
  BY <1>3
<1>5. q = [exists |-> q.exists, version |-> q.version, fields |-> q.fields]
  BY <1>3
<1> QED
  BY <1>1, <1>3, <1>4, <1>5

(***************************************************************************)
(* An update loads the row: what it will save is the person as of main's   *)
(* version, because its changes carry no null.                             *)
(***************************************************************************)
LEMMA LoadStep ==
  ASSUME RowInv, NEW c \in Commands, LoadProjected(c)
  PROVE  RowInv'
<1> DEFINE r == cmd[c]
<1>1. r.pc = "project" /\ r.body.type = "Updated" /\ log' = log /\ row' = row
  BY DEF LoadProjected
<1>2. r \in Projects /\ Behind(log, row, r) /\ r # Idle /\ TopOf(log) \in Nat
  BY <1>1, RowIsBehind DEF Idle
<1>3. Shows(log, row, TopOf(log) - 1)
  BY <1>1, <1>2 DEF Behind
<1>4. row.exists
  BY <1>3 DEF Shows
<1> DEFINE f == Projected(StateTo(log, TopOf(log) - 1), r.body.changes)
           loaded == [exists |-> TRUE, version |-> TopOf(log), fields |-> f]
           s == [pc |-> "save", row |-> loaded]
<1>5. cmd' = [cmd EXCEPT ![c] = s]
  <2>1. row = [exists |-> TRUE, version |-> TopOf(log) - 1,
               fields |-> StateTo(log, TopOf(log) - 1)]
    BY <1>3 DEF Shows
  <2>2. ProjectedVersion(r) = TopOf(log)
    BY <1>2 DEF Behind
  <2>3. cmd' = [cmd EXCEPT ![c] =
                  [pc |-> "save",
                   row |-> [row EXCEPT !.version = ProjectedVersion(r),
                                       !.fields = Projected(@, r.body.changes)]]]
    BY <1>1, <1>4 DEF LoadProjected
  <2>4. [row EXCEPT !.version = ProjectedVersion(r),
                    !.fields = Projected(@, r.body.changes)] = loaded
    <3>2. row.fields = StateTo(log, TopOf(log) - 1)
      BY <2>1
    <3>3. [row EXCEPT !.version = TopOf(log), !.fields = f] = loaded
      <4> HIDE DEF f
      <4>1. IsRow(row, TopOf(log) - 1, StateTo(log, TopOf(log) - 1))
        BY <2>1 DEF IsRow
      <4>2. IsRow([row EXCEPT !.version = TopOf(log), !.fields = f], TopOf(log), f)
        BY <4>1, ChangedRow
      <4> QED
        BY <4>2 DEF IsRow
    <3> QED
      BY <2>2, <3>2, <3>3
  <2> QED
    BY <2>3, <2>4
<1>6. f = StateTo(log, TopOf(log)) /\ Values(f)
  <2> DEFINE ch == r.body.changes
             old == StateTo(log, TopOf(log) - 1)
  <2>1. Values(ch) /\ Values(old) /\ StateTo(log, TopOf(log)) = Over(ch, old)
    BY <1>1, <1>2, <1>3 DEF Behind, Shows
  <2> HIDE DEF ch, old
  <2>2. [x \in {g \in DOMAIN ch : ch[g] # Null} |-> ch[x]] = ch
    <3>1. {g \in DOMAIN ch : ch[g] # Null} = DOMAIN ch
      BY <2>1 DEF Values
    <3> QED
      BY <2>1, <3>1 DEF Values
  <2>3. Projected(old, ch) = Over(ch, old)
    BY <2>2 DEF Projected
  <2>4. Values(Over(ch, old))
    BY <2>1, Overlaid
  <2> QED
    BY <2>1, <2>3, <2>4 DEF ch, old
<1>7. Shows(log, loaded, TopOf(log))
  <2>1. TopOf(log) \in 1..TopOf(log)
    BY <1>2, <1>3 DEF Shows
  <2> QED
    BY <1>6, <2>1 DEF Shows
<1>8. Fits(c, s)
  BY <1>1, <1>3, <1>7 DEF Fits, Saving
<1> HIDE DEF s
<1> QED
  BY <1>1, <1>2, <1>5, <1>8, SlotStep

-----------------------------------------------------------------------------
(* Branches.                                                               *)

(***************************************************************************)
(* A branch's edit of the person concerns no command on main.              *)
(***************************************************************************)
LEMMA BranchStep ==
  ASSUME IsLog(log), RowInv, NEW b \in Branches, BranchEdit(b)
  PROVE  RowInv'
<1>1. PICK changes \in Changes :
        log' = log \o Stored(log, Person, b,
                             CurrentVersion(log, StreamVersion(log, Person, b), Person, b, base[b]),
                             <<[type |-> "Updated", changes |-> changes]>>)
  BY DEF BranchEdit
<1>2. row' = row /\ cmd' = cmd /\ row.exists
  BY DEF BranchEdit
<1>3. \E cur, body : Grows(log, log', Person, b, cur, body)
  BY <1>1 DEF Grows
<1>4. /\ IsLog(log') /\ MainTop(log')
      /\ TopOf(log') = TopOf(log) /\ TopOf(log) \in Nat
      /\ \A v : StateTo(log', v) = StateTo(log, v)
  BY <1>3, BranchStored DEF RowInv, MainTop
<1>5. \A r, v : Shows(log, r, v) <=> Shows(log', r, v)
  BY <1>4 DEF Shows
<1>6. row # NoRow
  BY <1>2, RowShown
<1>7. \A r : Timely(log, row, r) => Timely(log', row, r)
  BY <1>4, <1>5, <1>6 DEF Timely
<1>8. \A r : Behind(log, row, r) => Behind(log', row, r)
  BY <1>4, <1>5 DEF Behind
<1>9. Slots' /\ OneProjects'
  BY <1>2 DEF RowInv, Slots, OneProjects
<1>10. RowShowsPast'
  BY <1>2, <1>5 DEF RowInv, RowShowsPast
<1>11. Prepares'
  BY <1>2, <1>7 DEF RowInv, Prepares
<1>12. Projecting'
  BY <1>2, <1>4, <1>5, <1>8 DEF RowInv, Projecting
<1> QED
  BY <1>4, <1>9, <1>10, <1>11, <1>12 DEF RowInv

-----------------------------------------------------------------------------
(* The theorems.                                                           *)

(***************************************************************************)
(* The invariant holds initially.                                          *)
(***************************************************************************)
LEMMA InitInvariant == Init => IInv
<1> SUFFICES ASSUME Init PROVE IInv
  OBVIOUS
<1>1. log = <<>> /\ row = NoRow /\ cmd = [c \in Commands |-> Idle]
  BY DEF Init
<1>2. IsLog(log)
  <2>1. <<>> \in Seq({})
    OBVIOUS
  <2> QED
    BY <1>1, <2>1 DEF IsLog
<1>3. MainTop(log)
  <2>1. Len(<<>>) = 0 /\ 1..0 = {}
    OBVIOUS
  <2>2. OwnEvents(log, Person, Main) = {}
    BY <1>1, <2>1 DEF EventsOf, OwnEvents
  <2> QED
    BY <1>1, <2>2, NothingLogged DEF MainTop, IsTop
<1>4. Slots
  BY <1>1 DEF Slots
<1>5. Prepares /\ Projecting /\ OneProjects
  BY <1>1 DEF Prepares, Projecting, OneProjects, Idle, Appends, Projects
<1> QED
  BY <1>1, <1>2, <1>3, <1>4, <1>5 DEF IInv, RowInv, RowShowsPast

(***************************************************************************)
(* The log only grows.                                                     *)
(***************************************************************************)
LEMMA LogGrows ==
  ASSUME IsLog(log), [Next]_vars
  PROVE  IsLog(log') /\ EventsOf(log) \subseteq EventsOf(log')
<1>1. CASE log' = log
  BY <1>1
<1>2. ASSUME NEW b, NEW cur, NEW body, Grows(log, log', Person, b, cur, body)
      PROVE  IsLog(log') /\ EventsOf(log) \subseteq EventsOf(log')
  <2>1. OneLonger(log, log') /\
        EventsOf(log') = EventsOf(log) \union {StoredEvent(log, Person, b, cur, body)}
    BY <1>2, OneMore
  <2> QED
    BY <2>1 DEF OneLonger
<1>3. ASSUME NEW c \in Commands, AppendEvent(c)
      PROVE  log' = log \/ Grows(log, log', Person, Main, MainVersion, cmd[c].body)
  BY <1>3 DEF AppendEvent, Grows
<1>4. ASSUME NEW b \in Branches, BranchEdit(b)
      PROVE  \E cur, body : Grows(log, log', Person, b, cur, body)
  BY <1>4 DEF BranchEdit, Grows
<1> QED
  BY <1>1, <1>2, <1>3, <1>4
  DEF Next, vars, BeginCreate, BeginUpdate, BeginDelete, BeginRollback, CheckDeleted, Compute,
      ProjectWhole, LoadProjected, SaveProjected, LoseProjection, Fork

(***************************************************************************)
(* As long as no rollback has written, every step keeps the invariant.     *)
(***************************************************************************)
LEMMA RowInvStep ==
  ASSUME IsLog(log), RowInv, [Next]_vars, ~RolledBack'
  PROVE  RowInv'
<1>1. ASSUME NEW c \in Commands,
             BeginCreate(c) \/ BeginUpdate(c) \/ BeginDelete(c) \/ BeginRollback(c)
      PROVE  RowInv'
  BY <1>1, BeginSteps
<1>2. ASSUME NEW c \in Commands, CheckDeleted(c) \/ Compute(c) \/ LoseProjection(c)
      PROVE  RowInv'
  BY <1>2, ReadSteps
<1>3. ASSUME NEW c \in Commands, AppendEvent(c)
      PROVE  RowInv'
  BY <1>3, ReadSteps, AppendStep
<1>4. ASSUME NEW c \in Commands, ProjectWhole(c) \/ SaveProjected(c)
      PROVE  RowInv'
  BY <1>4, SaveSteps
<1>5. ASSUME NEW c \in Commands, LoadProjected(c)
      PROVE  RowInv'
  BY <1>5, LoadStep
<1>6. ASSUME NEW b \in Branches, BranchEdit(b)
      PROVE  RowInv'
  BY <1>6, BranchStep
<1>7. ASSUME log' = log, row' = row, cmd' = cmd
      PROVE  RowInv'
  BY <1>7 DEF RowInv, Slots, RowShowsPast, Prepares, Projecting, OneProjects
<1> QED
  BY <1>1, <1>2, <1>3, <1>4, <1>5, <1>6, <1>7 DEF Next, vars, Fork

(***************************************************************************)
(* The invariant is inductive.                                             *)
(***************************************************************************)
LEMMA InductiveStep == IInv /\ [Next]_vars => IInv'
<1> SUFFICES ASSUME IInv, [Next]_vars PROVE IInv'
  OBVIOUS
<1>1. IsLog(log') /\ EventsOf(log) \subseteq EventsOf(log')
  BY LogGrows DEF IInv
<1>2. ~RolledBack' => ~RolledBack
  BY <1>1 DEF RolledBack
<1>3. ~RolledBack' => RowInv'
  BY <1>2, RowInvStep DEF IInv
<1> QED
  BY <1>1, <1>3 DEF IInv

(***************************************************************************)
(* As long as no rollback has written, the row is a state main's log has   *)
(* been in: what execute projects is what the log says at that version,    *)
(* whatever was lost or overtaken on the way.                              *)
(***************************************************************************)
THEOREM RowIsPastHolds == Spec => []RowIsPast
<1>1. IInv => RowIsPast
  <2> SUFFICES ASSUME IInv, row.exists, ~RolledBack
               PROVE  row.version \in 1..MainVersion /\ row.fields = StateTo(log, row.version)
    BY DEF RowIsPast
  <2>1. Shows(log, row, row.version) /\ row.version \in 1..TopOf(log)
    BY RowShown DEF IInv
  <2>2. row.fields = StateTo(log, row.version)
    BY <2>1 DEF Shows
  <2> QED
    BY <2>1, <2>2 DEF TopOf, MainVersion
<1> QED
  BY <1>1, InitInvariant, InductiveStep, PTL DEF Spec

(***************************************************************************)
(* As long as no rollback has written, no projection takes the row of an   *)
(* existing person back to an earlier version.                             *)
(***************************************************************************)
THEOREM RowNeverGoesBackHolds == Spec => RowNeverGoesBack
<1> DEFINE Forward == row.exists /\ row'.exists /\ ~RolledBack => row'.version >= row.version
<1>1. IInv /\ [Next]_vars => [Forward]_row
  <2> SUFFICES ASSUME IInv, [Next]_vars, row' # row, row.exists, row'.exists, ~RolledBack
               PROVE  row'.version >= row.version
    OBVIOUS
  <2>1. PICK c \in Commands : ProjectWhole(c) \/ SaveProjected(c)
    BY DEF Next, vars, BeginCreate, BeginUpdate, BeginDelete, BeginRollback, CheckDeleted,
           Compute, AppendEvent, LoadProjected, LoseProjection, Fork, BranchEdit
  <2>2. RowInv
    BY DEF IInv
  <2>3. row' = NoRow \/ Shows(log, row', TopOf(log))
    BY <2>1, <2>2, SaveSteps
  <2>4. row'.version = TopOf(log)
    <3>1. row' # NoRow
      BY DEF NoRow
    <3> QED
      BY <2>3, <3>1 DEF Shows
  <2>5. row.version \in 1..TopOf(log) /\ TopOf(log) \in Nat
    BY <2>2, RowShown DEF RowInv, MainTop
  <2> QED
    BY <2>4, <2>5
<1> QED
  BY <1>1, InitInvariant, InductiveStep, PTL DEF Spec, RowNeverGoesBack

-----------------------------------------------------------------------------
(* A rollback restores.  The invariant, for any log and requests q.        *)

\* No branch has written.
Mainline(l) == \A e \in EventsOf(l) : e.branch = Main

\* The log is the person's, and its versions count through.
Numbered(l) ==
  \A i \in 1..Len(l) : l[i].stream = Person /\ l[i].version = i /\ l[i].position = i

\* A creation carries values; a body with a target is an update.
WellMade(body) ==
  /\ body.type = "Created" => Values(body.changes)
  /\ "target" \in DOMAIN body => body.type = "Updated"

\* The body takes the person from version n back to the state of its target.
Returns(l, body, n) ==
  /\ body.target \in 1..n - 1
  /\ ApplyToState(StateTo(l, n), body) = StateTo(l, body.target)

(***************************************************************************)
(* A rollback that waits was computed no earlier than it read main's       *)
(* version: if that is still the head's, it was computed from the head.    *)
(***************************************************************************)
Rolling(l, r) ==
  /\ r.pc \in {"deleted", "compute"} => r.target \in 1..r.expected - 1 /\ r.expected \in 0..Len(l)
  /\ r.pc = "append" /\ "target" \in DOMAIN r.body =>
       /\ r.expected \in 0..Len(l)
       /\ r.expected = Len(l) => Returns(l, r.body, Len(l))

\* Every rollback in the log has restored its target.
Restored(l) ==
  \A i \in 1..Len(l) : "target" \in DOMAIN l[i].body =>
    l[i].body.target \in 1..i - 1 /\ StateTo(l, i) = StateTo(l, l[i].body.target)

\* Every body, logged or waiting, is well made.
Made(l, q) ==
  /\ \A i \in 1..Len(l) : WellMade(l[i].body)
  /\ \A c \in Commands : q[c].pc = "append" => WellMade(q[c].body)

\* The steps that follow find the fields they go by.
Shaped(r) ==
  /\ r.pc \in {"deleted", "compute"} =>
       r = [pc |-> r.pc, target |-> r.target, expected |-> r.expected]
  /\ r.pc = "append" => r = [pc |-> r.pc, body |-> r.body, expected |-> r.expected]

RollInv(l, q) ==
  /\ IsLog(l)
  /\ q = [c \in Commands |-> q[c]] /\ \A c \in Commands : Shaped(q[c])
  /\ Made(l, q)
  /\ Mainline(l) => Numbered(l) /\ Restored(l) /\ \A c \in Commands : Rolling(l, q[c])

-----------------------------------------------------------------------------
(* What a rollback reads.                                                  *)

(***************************************************************************)
(* No state has a null: an update drops the fields it is told to.          *)
(***************************************************************************)
LEMMA NoNulls ==
  ASSUME NEW state, Values(state), NEW body, WellMade(body)
  PROVE  Values(ApplyToState(state, body))
<1>1. CASE body.type = "Created"
  <2>1. ApplyToState(state, body) = Over(body.changes, state) /\ Values(body.changes)
    BY <1>1 DEF ApplyToState, WellMade
  <2> QED
    BY <2>1, Overlaid
<1>2. CASE body.type = "Updated"
  <2> DEFINE merged == Over(body.changes, state)
             D == {g \in DOMAIN merged : merged[g] # Null}
             next == [f \in D |-> merged[f]]
  <2>1. ApplyToState(state, body) = next
    BY <1>2 DEF ApplyToState
  <2> HIDE DEF merged
  <2>2. DOMAIN next = D /\ next = [f \in D |-> next[f]] /\ \A f \in D : next[f] # Null
    OBVIOUS
  <2> HIDE DEF next, D
  <2> QED
    BY <2>1, <2>2 DEF Values
<1>3. CASE body.type \notin {"Created", "Updated"}
  BY <1>3 DEF ApplyToState
<1> QED
  BY <1>1, <1>2, <1>3

(***************************************************************************)
(* The state of a log without a branch's events, up to the k-th, is the    *)
(* fold of its first k events, and has no null: by induction, to k and     *)
(* from k on.                                                              *)
(***************************************************************************)
LEMMA StateUpTo ==
  ASSUME NEW l, IsLog(l), Mainline(l), Numbered(l), \A i \in 1..Len(l) : WellMade(l[i].body),
         NEW k \in 0..Len(l)
  PROVE  \E f : IsFold(f, l, k, Len(l)) /\ StateTo(l, k) = f[1..k] /\ Values(f[1..k])
<1>1. PICK n \in Nat : n = Len(l) /\ DOMAIN l = 1..n
  BY LenProperties DEF IsLog
<1>2. PICK f : f = CHOOSE x : IsFold(x, l, k, n)
  OBVIOUS
<1>3. IsFold(f, l, k, n) /\ StateTo(l, k) = f[1..n]
  BY <1>1, <1>2, FoldExists, StateIsFold
<1>4. /\ f[1..0] = <<>>
      /\ \A j \in 1..n : f[1..j] = StepTo(l, k, f[1..j - 1], j)
  <2>1. IsFold(f, l, k, n)
    BY <1>3
  <2>2. f[1..0] = <<>>
    BY <2>1, FoldValue
  <2>3. \A j \in 1..n : f[1..j] = StepTo(l, k, f[1..j - 1], j)
    BY <2>1, FoldValue
  <2> QED
    BY <2>2, <2>3
<1>5. \A j \in 1..n : l[j].version = j /\ l[j].stream = Person /\ l[j].branch = Main /\ WellMade(l[j].body)
  BY <1>1 DEF Numbered, Mainline, EventsOf
<1> DEFINE After == {j \in k..n : f[1..j] # f[1..k]}
           Upto == {j \in 0..n : ~ Values(f[1..j])}
<1>6. After = {}
  <2> SUFFICES ASSUME After # {} PROVE FALSE
    OBVIOUS
  <2>1. PICK j \in After : \A i \in After : j <= i
    <3>1. After \subseteq Nat
      BY <1>1
    <3> HIDE DEF After
    <3> QED
      BY <3>1, LeastNatural
  <2>2. j \in 1..n /\ j > k /\ j - 1 \in k..n /\ j - 1 \notin After
    BY <1>1, <2>1
  <2>3. ~ InHistory(l[j], k)
    BY <1>1, <1>5, <2>2 DEF InHistory
  <2>4. f[1..j] = f[1..j - 1]
    BY <1>4, <2>2, <2>3 DEF StepTo
  <2> QED
    BY <2>1, <2>2, <2>4
<1>7. Upto = {}
  <2> SUFFICES ASSUME Upto # {} PROVE FALSE
    OBVIOUS
  <2>1. PICK j \in Upto : \A i \in Upto : j <= i
    <3>1. Upto \subseteq Nat
      BY <1>1
    <3> HIDE DEF Upto
    <3> QED
      BY <3>1, LeastNatural
  <2>2. Values(f[1..0])
    <3>1. Values(<<>>)
      BY DEF Values
    <3> QED
      BY <1>4, <3>1
  <2>3. j # 0
    <3> HIDE DEF Values
    <3> QED
      BY <2>1, <2>2
  <2>4. j \in 1..n /\ j - 1 \in 0..n /\ j - 1 \notin Upto
    BY <2>1, <2>3
  <2>5. Values(f[1..j - 1])
    BY <2>4
  <2>6. f[1..j] = IF InHistory(l[j], k) THEN ApplyToState(f[1..j - 1], l[j].body) ELSE f[1..j - 1]
    BY <1>4, <2>4 DEF StepTo
  <2>7. Values(f[1..j])
    BY <1>5, <2>4, <2>5, <2>6, NoNulls
  <2> QED
    BY <2>1, <2>7
<1>8. k \in 0..n /\ n \in k..n
  BY <1>1
<1> QED
  BY <1>1, <1>3, <1>6, <1>7, <1>8

(***************************************************************************)
(* Of a sequence in the order of its positions, the part that is its k-th  *)
(* element is that element alone.                                          *)
(***************************************************************************)
LEMMA OnlyOne ==
  ASSUME NEW l, IsLog(l), Ordered(l), Len(l) \in Nat, NEW k \in 1..Len(l), l[k].position \in Int
  PROVE  OnlyIn(l, {l[k]}) = <<l[k]>>
<1>1. PICK part : part = OnlyIn(l, {l[k]})
  OBVIOUS
<1>2. Draws(part, l, {l[k]}, Len(l))
  BY <1>1, OnlyInDraws
<1>3. /\ part \in Seq({l[k]} \intersect EventsOf(l)) /\ Len(part) \in Nat
      /\ Ordered(part)
      /\ \E a \in 1..Len(part) : part[a] = l[k]
  BY <1>2, LenProperties DEF Draws
<1>4. \A a \in 1..Len(part) : part[a] = l[k]
  <2> DEFINE S == {l[k]} \intersect EventsOf(l)
  <2>1. part \in Seq(S)
    BY <1>3
  <2>2. \A x \in S : x = l[k]
    OBVIOUS
  <2> HIDE DEF S
  <2>3. \A a \in 1..Len(part) : part[a] \in S
    BY <2>1, ElementOfSeq
  <2> QED
    BY <2>2, <2>3
<1>5. ~ (2 \in 1..Len(part))
  <2> SUFFICES ASSUME 2 \in 1..Len(part) PROVE FALSE
    OBVIOUS
  <2>1. 1 \in 1..Len(part) /\ 1 < 2
    BY <1>3
  <2>2. part[1].position < part[2].position
    BY <1>3, <2>1 DEF Ordered
  <2> QED
    BY <1>4, <2>1, <2>2
<1>6. Len(part) = 1 /\ part[1] = l[k]
  <2>1. PICK m \in Nat : m = Len(part)
    BY <1>3
  <2>2. PICK a \in 1..m : TRUE
    BY <1>3, <2>1
  <2>3. ~ (2 \in 1..m)
    BY <1>5, <2>1
  <2>4. m = 1
    BY <2>2, <2>3
  <2> QED
    BY <1>4, <2>1, <2>4
<1>7. PICK S : part \in Seq(S)
  BY <1>3
<1>8. PICK e : e = l[k]
  OBVIOUS
<1>9. part = <<e>>
  BY <1>6, <1>7, <1>8
<1> QED
  BY <1>1, <1>8, <1>9

(***************************************************************************)
(* A set of positions has a greatest one.                                  *)
(***************************************************************************)
LEMMA MaxInside ==
  ASSUME NEW k \in Nat, NEW s \in SUBSET (1..k), s # {}
  PROVE  Max(s) \in s
<1> DEFINE T == {k - m : m \in s}
<1>1. \A m \in s : k - m \in T /\ m \in Int
  OBVIOUS
<1>2. \A n \in T : n \in Nat /\ k - n \in s
  OBVIOUS
<1>3. PICK n \in T : n \in Nat /\ \A m \in T : n <= m
  <2> HIDE DEF T
  <2>1. T \subseteq Nat /\ T # {}
    BY <1>1, <1>2
  <2> QED
    BY <2>1, LeastNatural
<1> HIDE DEF T
<1>4. s \subseteq Int
  OBVIOUS
<1>5. PICK g \in s : g = k - n
  BY <1>2, <1>3
<1>6. Max(s) = g
  <2>1. ASSUME NEW m \in s PROVE m <= g
    <3>1. k - m \in T /\ m \in Int
      BY <1>1
    <3>2. n <= k - m
      BY <1>3, <3>1
    <3> QED
      BY <1>3, <1>5, <3>1, <3>2
  <2> QED
    BY <1>4, <1>5, <2>1, MaxIs
<1> QED
  BY <1>6

\* f is the function FoldLeft chooses for StateOf.
IsStateFold(f, u, n) ==
  f = [s \in SUBSET (1..n) |->
         IF s = {} THEN <<>> ELSE ApplyToState(f[s \ {Max(s)}], u[Max(s)].body)]

(***************************************************************************)
(* StateOf is the value of such a function.                                *)
(***************************************************************************)
LEMMA StateOfIsFold ==
  ASSUME NEW u, DOMAIN u = 1..Len(u)
  PROVE  StateOf(u) = (CHOOSE f : IsStateFold(f, u, Len(u)))[DOMAIN u]
  BY DEF StateOf, FoldLeft, MapThenFoldSet, IsStateFold

(***************************************************************************)
(* The fold of a sequence that has the first k events of a log without a   *)
(* branch's is the state up to the k-th.                                   *)
(***************************************************************************)
LEMMA StateOfPrefix ==
  ASSUME NEW l, IsLog(l), Mainline(l), Numbered(l), \A i \in 1..Len(l) : WellMade(l[i].body),
         NEW k \in 0..Len(l),
         NEW u, IsLog(u), Len(u) = k, \A i \in 1..k : u[i] = l[i]
  PROVE  StateOf(u) = StateTo(l, k)
<1>1. PICK n \in Nat : n = Len(l) /\ DOMAIN l = 1..n
  BY LenProperties DEF IsLog
<1>2. k \in Nat /\ k <= n /\ DOMAIN u = 1..k
  BY <1>1, LenProperties DEF IsLog
<1>3. PICK f : IsFold(f, l, k, n) /\ StateTo(l, k) = f[1..k]
  <2>1. \E x : IsFold(x, l, k, Len(l)) /\ StateTo(l, k) = x[1..k] /\ Values(x[1..k])
    BY StateUpTo
  <2> QED
    BY <1>1, <2>1
<1>4. \A i \in 1..k : InHistory(u[i], k)
  <2>1. \A i \in 1..k : i \in 1..n
    BY <1>1, <1>2
  <2>2. \A i \in 1..n : l[i].version = i /\ l[i].stream = Person /\ l[i].branch = Main
    BY <1>1 DEF Numbered, Mainline, EventsOf
  <2> QED
    BY <2>1, <2>2 DEF InHistory
<1>5. \A x : IsStateFold(x, u, k) <=> IsFold(x, u, k, k)
  <2> SUFFICES ASSUME NEW x PROVE IsStateFold(x, u, k) <=> IsFold(x, u, k, k)
    OBVIOUS
  <2>1. ASSUME NEW s \in SUBSET (1..k), s # {}
        PROVE  StepTo(u, k, x[s \ {Max(s)}], Max(s)) = ApplyToState(x[s \ {Max(s)}], u[Max(s)].body)
    <3>1. Max(s) \in 1..k
      BY <1>2, <2>1, MaxInside
    <3> QED
      BY <1>4, <3>1 DEF StepTo
  <2> DEFINE A(s) == IF s = {} THEN <<>> ELSE StepTo(u, k, x[s \ {Max(s)}], Max(s))
             B(s) == IF s = {} THEN <<>> ELSE ApplyToState(x[s \ {Max(s)}], u[Max(s)].body)
  <2>2. \A s \in SUBSET (1..k) : A(s) = B(s)
    BY <2>1
  <2>3. (IsFold(x, u, k, k) <=> x = [s \in SUBSET (1..k) |-> A(s)])
    BY DEF IsFold
  <2>4. (IsStateFold(x, u, k) <=> x = [s \in SUBSET (1..k) |-> B(s)])
    BY DEF IsStateFold
  <2> HIDE DEF A, B
  <2> QED
    BY <2>2, <2>3, <2>4
<1>6. PICK g : g = CHOOSE x : IsStateFold(x, u, k)
  OBVIOUS
<1>7. IsFold(g, u, k, k)
  <2>1. \E x : IsFold(x, u, k, k)
    BY <1>2, FoldExists
  <2>2. IsStateFold(g, u, k)
    BY <1>5, <1>6, <2>1
  <2> QED
    BY <1>5, <2>2
<1>8. StateOf(u) = g[1..k]
  <2>1. StateOf(u) = (CHOOSE x : IsStateFold(x, u, Len(u)))[DOMAIN u]
    BY <1>2, StateOfIsFold
  <2> QED
    BY <1>2, <1>6, <2>1
<1>9. f[1..k] = g[1..k]
  <2>1. \A i \in 1..k : l[i] = u[i] /\ (InHistory(u[i], k) <=> InHistory(u[i], k))
    OBVIOUS
  <2> HIDE DEF IsFold
  <2> QED
    BY <1>1, <1>2, <1>3, <1>7, <2>1, FoldsAgree
<1> QED
  BY <1>3, <1>8, <1>9


\* f is the function InVersionOrder chooses, up to a version.
IsInOrder(f, l, version) ==
  f = [v \in 0..version |->
         IF v = 0 THEN <<>>
         ELSE f[v - 1] \o OnlyIn(l, {e \in EventsOf(l) : e.stream = Person /\ e.version = v})]

(***************************************************************************)
(* Without a branch's events, version order is the log's: by induction on  *)
(* the version.                                                            *)
(***************************************************************************)
LEMMA OrderIsLog ==
  ASSUME IsLog(log), Mainline(log), Numbered(log), NEW k \in 0..Len(log)
  PROVE  InVersionOrder(k) = SubSeq(log, 1, k)
<1>1. PICK l : l = log
  OBVIOUS
<1>2. PICK S : l \in Seq(S)
  BY <1>1 DEF IsLog
<1>3. PICK n \in Nat : n = Len(l)
  BY <1>2, LenProperties
<1>4. k \in 0..n
  BY <1>1, <1>3
<1>5. Ordered(l) /\ \A i \in 1..n : l[i].position \in Int
  BY <1>1, <1>3 DEF Numbered, Ordered
<1> DEFINE At(v) == {e \in EventsOf(l) : e.stream = Person /\ e.version = v}
<1>6. ASSUME NEW v \in 1..n PROVE OnlyIn(l, At(v)) = <<l[v]>>
  <2>1. \A i \in 1..n : l[i].stream = Person /\ l[i].version = i
    BY <1>1, <1>3 DEF Numbered
  <2>2. At(v) = {l[v]}
    BY <1>3, <2>1 DEF EventsOf
  <2> HIDE DEF At
  <2>3. OnlyIn(l, {l[v]}) = <<l[v]>>
    BY <1>1, <1>3, <1>5, OnlyOne
  <2> QED
    BY <2>2, <2>3
<1>7. ASSUME NEW v \in 1..n PROVE SubSeq(l, 1, v) = SubSeq(l, 1, v - 1) \o <<l[v]>>
  <2>1. 1 \in 1..Len(l) /\ v \in 1..Len(l)
    BY <1>3
  <2> QED
    BY <1>2, <2>1, SubSeqRecursiveSecond
<1>8. SubSeq(l, 1, 0) = <<>>
  BY SubSeqEmpty
<1> HIDE DEF At
<1> DEFINE prefix == [v \in 0..k |-> SubSeq(l, 1, v)]
           Ordering(f) == [v \in 0..k |-> IF v = 0 THEN <<>> ELSE f[v - 1] \o OnlyIn(l, At(v))]
<1>9. prefix = Ordering(prefix)
  <2>1. ASSUME NEW v \in 0..k
        PROVE  SubSeq(l, 1, v) = IF v = 0 THEN <<>> ELSE prefix[v - 1] \o OnlyIn(l, At(v))
    <3>1. CASE v = 0
      BY <1>8, <3>1
    <3>2. CASE v # 0
      <4>1. v \in 1..n /\ v - 1 \in 0..k
        BY <1>4, <3>2
      <4>2. prefix[v - 1] = SubSeq(l, 1, v - 1)
        BY <4>1
      <4> HIDE DEF prefix
      <4> QED
        BY <1>6, <1>7, <3>2, <4>1, <4>2
    <3> QED
      BY <3>1, <3>2
  <2> QED
    BY <2>1
<1>10. PICK f : f = CHOOSE x : IsInOrder(x, l, k)
  OBVIOUS
<1>11. f = Ordering(f)
  <2>1. IsInOrder(prefix, l, k)
    BY <1>9 DEF IsInOrder, At
  <2> HIDE DEF prefix
  <2>2. IsInOrder(f, l, k)
    BY <1>10, <2>1
  <2> QED
    BY <2>2 DEF IsInOrder, At
<1>12. InVersionOrder(k) = f[k]
  BY <1>1, <1>10 DEF InVersionOrder, IsInOrder
<1> DEFINE T == {v \in 0..k : f[v] # SubSeq(l, 1, v)}
<1>13. T = {}
  <2> SUFFICES ASSUME T # {} PROVE FALSE
    OBVIOUS
  <2>1. PICK v \in T : \A w \in T : v <= w
    <3>1. T \subseteq Nat
      BY <1>4
    <3> HIDE DEF T
    <3> QED
      BY <3>1, LeastNatural
  <2>2. v \in 0..k /\ f[v] = IF v = 0 THEN <<>> ELSE f[v - 1] \o OnlyIn(l, At(v))
    BY <1>11, <2>1
  <2>3. v # 0
    BY <1>8, <2>1, <2>2
  <2>4. v \in 1..n /\ v - 1 \in 0..k /\ v - 1 \notin T
    BY <1>4, <2>1, <2>3
  <2>5. f[v - 1] = SubSeq(l, 1, v - 1)
    BY <2>4
  <2>6. f[v] = SubSeq(l, 1, v)
    BY <1>6, <1>7, <2>2, <2>3, <2>4, <2>5
  <2> QED
    BY <2>1, <2>6
<1>14. k \in 0..k
  BY <1>4
<1> QED
  BY <1>1, <1>12, <1>13, <1>14

(***************************************************************************)
(* So a rollback, and the history of main, read the same states, none of   *)
(* them with a null.                                                       *)
(***************************************************************************)
LEMMA StateRead ==
  ASSUME IsLog(log), Mainline(log), Numbered(log),
         \A i \in 1..Len(log) : WellMade(log[i].body), NEW k \in 0..Len(log)
  PROVE  StateAtVersion(k) = StateTo(log, k) /\ Values(StateTo(log, k))
<1>1. PICK S : log \in Seq(S)
  BY DEF IsLog
<1>2. PICK u : u = SubSeq(log, 1, k)
  OBVIOUS
<1>3. PICK n \in Nat : n = Len(log)
  BY <1>1, LenProperties
<1>4. IsLog(u) /\ Len(u) = k /\ \A i \in 1..k : u[i] = log[i]
  <2>1. \A i \in 1..k : log[i] \in S
    <3>1. \A i \in 1..k : i \in 1..Len(log)
      BY <1>3
    <3> QED
      BY <1>1, <3>1, ElementOfSeq
  <2>2. k \in Int /\ 1 \in Int
    BY <1>3
  <2>3. /\ u \in Seq(S)
        /\ Len(u) = IF 1 <= k THEN k - 1 + 1 ELSE 0
        /\ \A i \in 1..k - 1 + 1 : u[i] = log[1 + i - 1]
    BY <1>2, <2>1, <2>2, SubSeqProperties
  <2>4. Len(u) = k /\ \A i \in 1..k : u[i] = log[i]
    BY <1>3, <2>2, <2>3
  <2> QED
    BY <2>3, <2>4 DEF IsLog
<1>5. StateOf(u) = StateTo(log, k)
  BY <1>4, StateOfPrefix
<1>6. Values(StateTo(log, k))
  BY StateUpTo
<1> QED
  BY <1>2, <1>5, <1>6, OrderIsLog DEF StateAtVersion

(***************************************************************************)
(* The difference takes the current state to the target's.                 *)
(***************************************************************************)
LEMMA DiffReturns ==
  ASSUME NEW current, Values(current), NEW state, Values(state), NEW body,
         body.type = "Updated", body.changes = StateDiff(current, state)
  PROVE  ApplyToState(current, body) = state
<1> DEFINE changed == {f \in DOMAIN state : f \in DOMAIN current => current[f] # state[f]}
           removed == DOMAIN current \ DOMAIN state
           D == changed \union removed
           diff == [f \in D |-> IF f \in changed THEN state[f] ELSE Null]
           E == D \union DOMAIN current
           merged == [f \in E |-> IF f \in D THEN diff[f] ELSE current[f]]
           kept == {f \in E : merged[f] # Null}
           next == [f \in kept |-> merged[f]]
<1>1. body.changes = diff
  BY DEF StateDiff
<1>2. Over(diff, current) = merged
  BY DEF Over
<1>3. ApplyToState(current, body) = next
  <2>1. DOMAIN merged = E
    OBVIOUS
  <2> HIDE DEF diff, merged, E
  <2> QED
    BY <1>1, <1>2, <2>1 DEF ApplyToState
<1>4. \A f \in E : merged[f] = IF f \in changed THEN state[f]
                               ELSE IF f \in removed THEN Null ELSE current[f]
  BY DEF merged
<1>5. \A f \in DOMAIN state : f \in E /\ merged[f] = state[f]
  <2> SUFFICES ASSUME NEW f \in DOMAIN state PROVE f \in E /\ merged[f] = state[f]
    OBVIOUS
  <2> HIDE DEF merged
  <2>1. CASE f \in changed
    BY <1>4, <2>1
  <2>2. CASE f \notin changed
    <3>1. f \in DOMAIN current /\ current[f] = state[f] /\ f \notin removed /\ f \in E
      BY <2>2
    <3> QED
      BY <1>4, <2>2, <3>1
  <2> QED
    BY <2>1, <2>2
<1>6. \A f \in E : f \notin DOMAIN state => merged[f] = Null
  <2> SUFFICES ASSUME NEW f \in E, f \notin DOMAIN state PROVE merged[f] = Null
    OBVIOUS
  <2>1. f \notin changed /\ f \in removed
    OBVIOUS
  <2> HIDE DEF merged
  <2> QED
    BY <1>4, <2>1
<1>7. kept = DOMAIN state
  <2> HIDE DEF merged, E
  <2> QED
    BY <1>5, <1>6 DEF Values
<1>8. \A f \in DOMAIN state : merged[f] = state[f]
  BY <1>5
<1>9. state = [f \in DOMAIN state |-> state[f]]
  BY DEF Values
<1> HIDE DEF merged, kept
<1>10. next = [f \in DOMAIN state |-> merged[f]]
  BY <1>7
<1>11. [f \in DOMAIN state |-> merged[f]] = [f \in DOMAIN state |-> state[f]]
  BY <1>8
<1> QED
  BY <1>3, <1>9, <1>10, <1>11


-----------------------------------------------------------------------------
(* The steps.                                                              *)

(***************************************************************************)
(* Main's version of a numbered log is its length.                         *)
(***************************************************************************)
LEMMA NumberedTop ==
  ASSUME NEW l, IsLog(l), Mainline(l), Numbered(l)
  PROVE  TopOf(l) = Len(l) /\ MainTop(l)
<1>1. PICK n \in Nat : n = Len(l)
  BY LenProperties DEF IsLog
<1>2. OwnEvents(l, Person, Main) = EventsOf(l)
  BY DEF OwnEvents, EventsOf, Mainline, Numbered
<1>3. \A e \in EventsOf(l) : e.version \in 1..n
  BY <1>1 DEF EventsOf, Numbered
<1>4. CASE n = 0
  <2>1. EventsOf(l) = {}
    BY <1>1, <1>4 DEF EventsOf
  <2>2. TopOf(l) = 0
    BY <1>2, <2>1 DEF TopOf, StreamVersion, TopVersion
  <2> QED
    BY <1>1, <1>2, <1>4, <2>1, <2>2 DEF MainTop, IsTop
<1>5. CASE n # 0
  <2>1. n \in 1..n /\ l[n] \in EventsOf(l) /\ l[n].version = n
    BY <1>1, <1>5 DEF EventsOf, Numbered
  <2>2. IsTop(EventsOf(l), n)
    BY <1>3, <2>1 DEF IsTop
  <2>3. TopOf(l) = n
    <3>1. \A e \in EventsOf(l) : e.version \in Nat \ {0}
      BY <1>1, <1>3
    <3>2. TopVersion(EventsOf(l)) = n
      BY <2>2, <3>1, TopVersionIs
    <3> QED
      BY <1>2, <3>2 DEF TopOf, StreamVersion
  <2> QED
    BY <1>1, <1>2, <1>3, <2>2, <2>3 DEF MainTop
<1> QED
  BY <1>4, <1>5

(***************************************************************************)
(* A step that changes one slot keeps the invariant if the slot's new      *)
(* value does.                                                             *)
(***************************************************************************)
LEMMA SlotRolls ==
  ASSUME RollInv(log, cmd), NEW c \in Commands, NEW r,
         cmd' = [cmd EXCEPT ![c] = r], log' = log,
         Shaped(r), r.pc = "append" => WellMade(r.body), Mainline(log) => Rolling(log, r)
  PROVE  RollInv(log, cmd)'
<1>1. /\ cmd' = [d \in Commands |-> cmd'[d]]
      /\ cmd'[c] = r
      /\ \A d \in Commands \ {c} : cmd'[d] = cmd[d]
  BY DEF RollInv
<1>2. \A d \in Commands : Shaped(cmd'[d])
  BY <1>1 DEF RollInv
<1>3. Made(log, cmd')
  BY <1>1 DEF RollInv, Made
<1>4. Mainline(log) => \A d \in Commands : Rolling(log, cmd'[d])
  BY <1>1 DEF RollInv
<1> QED
  BY <1>1, <1>2, <1>3, <1>4 DEF RollInv

(***************************************************************************)
(* A request that returns leaves nothing behind in its slot.               *)
(***************************************************************************)
LEMMA ReturnRolls ==
  ASSUME RollInv(log, cmd), NEW c \in Commands, Return(c), log' = log
  PROVE  RollInv(log, cmd)'
  BY SlotRolls DEF Return, Idle, Shaped, Rolling

(***************************************************************************)
(* The commands of a client carry values and no target.                    *)
(***************************************************************************)
LEMMA BeginRolls ==
  ASSUME RollInv(log, cmd), NEW c \in Commands,
         BeginCreate(c) \/ BeginUpdate(c) \/ BeginDelete(c)
  PROVE  RollInv(log, cmd)'
<1>1. PICK body \in Bodies : \E expected :
        cmd' = [cmd EXCEPT ![c] = Prepared(body, expected)] /\ log' = log
  BY DEF BeginCreate, BeginUpdate, BeginDelete, Bodies
<1>2. WellMade(body)
  <2>1. body.type = "Created" => Values(body.changes)
    BY NoTarget, ClientValues
  <2> QED
    BY <2>1, NoTarget DEF WellMade
<1>3. PICK expected : cmd' = [cmd EXCEPT ![c] = Prepared(body, expected)]
  BY <1>1
<1>4. PICK r : r = Prepared(body, expected)
  OBVIOUS
<1>5. r.pc = "append" /\ r.body = body /\ r.expected = expected /\ Shaped(r)
  BY <1>4 DEF Prepared, Shaped
<1>6. Rolling(log, r)
  BY <1>5, NoTarget DEF Rolling
<1> QED
  BY <1>1, <1>3, <1>2, <1>4, <1>5, <1>6, SlotRolls

(***************************************************************************)
(* A rollback reads main's version and looks for the row.                  *)
(***************************************************************************)
LEMMA ReadRolls ==
  ASSUME RollInv(log, cmd), NEW c \in Commands, BeginRollback(c) \/ CheckDeleted(c)
  PROVE  RollInv(log, cmd)'
<1>1. CASE BeginRollback(c)
  <2>1. PICK target \in 1..MainVersion - 1 :
          cmd' = [cmd EXCEPT ![c] = [pc |-> "deleted", target |-> target, expected |-> MainVersion]]
    BY <1>1 DEF BeginRollback
  <2>2. PICK r : r = [pc |-> "deleted", target |-> target, expected |-> MainVersion]
    OBVIOUS
  <2>3. Shaped(r) /\ r.pc = "deleted" /\ r.target = target /\ r.expected = MainVersion
    BY <2>2 DEF Shaped
  <2>4. ASSUME Mainline(log) PROVE Rolling(log, r)
    <3>1. MainVersion = Len(log) /\ Len(log) \in Nat
      BY <2>4, NumberedTop, LenProperties DEF RollInv, IsLog, MainVersion, TopOf
    <3> QED
      BY <2>3, <3>1 DEF Rolling
  <2> QED
    BY <1>1, <2>1, <2>2, <2>3, <2>4, SlotRolls DEF BeginRollback
<1>2. CASE CheckDeleted(c)
  <2>1. CASE Return(c)
    BY <1>2, <2>1, ReturnRolls DEF CheckDeleted
  <2>2. CASE Goto(c, "compute")
    <3>1. cmd[c] = [pc |-> "deleted", target |-> cmd[c].target, expected |-> cmd[c].expected]
      BY <1>2 DEF CheckDeleted, RollInv, Shaped
    <3>2. PICK r : r = [pc |-> "compute", target |-> cmd[c].target, expected |-> cmd[c].expected]
      OBVIOUS
    <3>3. [cmd[c] EXCEPT !.pc = "compute"] = r
      BY <3>1, <3>2
    <3>4. cmd' = [cmd EXCEPT ![c] = r]
      BY <2>2, <3>3 DEF Goto
    <3>5. Shaped(r) /\ r.pc = "compute" /\ r.target = cmd[c].target /\ r.expected = cmd[c].expected
      BY <3>2 DEF Shaped
    <3>6. Mainline(log) => Rolling(log, r)
      BY <1>2, <3>5 DEF CheckDeleted, RollInv, Rolling
    <3> QED
      BY <1>2, <3>4, <3>5, <3>6, SlotRolls DEF CheckDeleted
  <2> QED
    BY <1>2, <2>1, <2>2 DEF CheckDeleted
<1> QED
  BY <1>1, <1>2

(***************************************************************************)
(* What is computed while main is where the rollback found it takes main's *)
(* state back to the target's.                                             *)
(***************************************************************************)
LEMMA ComputeRolls ==
  ASSUME RollInv(log, cmd), NEW c \in Commands, Compute(c)
  PROVE  RollInv(log, cmd)'
<1> DEFINE head == TopVersion({e \in EventsOf(log) : e.stream = Person})
<1>1. PICK current : current = head
  OBVIOUS
<1>2. PICK diff : diff = StateDiff(StateAtVersion(current), StateAtVersion(cmd[c].target))
  OBVIOUS
<1>3. PICK body : body = [type |-> "Updated", changes |-> diff, target |-> cmd[c].target]
  OBVIOUS
<1>4. PICK r : r = Prepared(body, cmd[c].expected)
  OBVIOUS
<1>5. /\ cmd[c].pc = "compute"
      /\ Return(c) \/ cmd' = [cmd EXCEPT ![c] = r]
      /\ log' = log
  BY <1>1, <1>2, <1>3, <1>4 DEF Compute
<1>6. r.pc = "append" /\ r.body = body /\ r.expected = cmd[c].expected /\ Shaped(r)
  BY <1>4 DEF Prepared, Shaped
<1>7. /\ body.type = "Updated" /\ body.changes = diff /\ body.target = cmd[c].target
      /\ WellMade(body)
  BY <1>3 DEF WellMade
<1>8. ASSUME Mainline(log) PROVE Rolling(log, r)
  <2>1. PICK n \in Nat : n = Len(log)
    BY LenProperties DEF RollInv, IsLog
  <2>2. cmd[c].target \in 1..cmd[c].expected - 1 /\ cmd[c].expected \in 0..n
    BY <1>5, <1>8, <2>1 DEF RollInv, Rolling
  <2>3. n \in 0..n /\ cmd[c].target \in 0..n /\ n # 0
    BY <2>2
  <2>4. current = n
    <3>1. {e \in EventsOf(log) : e.stream = Person} = OwnEvents(log, Person, Main)
      BY <1>8 DEF RollInv, Numbered, Mainline, EventsOf, OwnEvents
    <3>2. TopOf(log) = n
      BY <1>8, <2>1, NumberedTop DEF RollInv
    <3> QED
      BY <1>1, <3>1, <3>2 DEF TopOf, StreamVersion
  <2>5. \A k \in 0..n : StateAtVersion(k) = StateTo(log, k) /\ Values(StateTo(log, k))
    BY <1>8, <2>1, StateRead DEF RollInv, Made
  <2>6. ApplyToState(StateTo(log, n), body) = StateTo(log, cmd[c].target)
    <3>1. PICK now, then : now = StateTo(log, n) /\ then = StateTo(log, cmd[c].target)
      OBVIOUS
    <3>2. Values(now) /\ Values(then) /\ diff = StateDiff(now, then)
      BY <1>2, <2>3, <2>4, <2>5, <3>1
    <3>3. ApplyToState(now, body) = then
      BY <1>7, <3>2, DiffReturns
    <3> QED
      BY <3>1, <3>3
  <2>7. cmd[c].expected = n => Returns(log, body, n)
    BY <1>7, <2>2, <2>6 DEF Returns
  <2> QED
    BY <1>6, <2>1, <2>2, <2>7 DEF Rolling
<1> QED
  BY <1>5, <1>6, <1>7, <1>8, SlotRolls, ReturnRolls


(***************************************************************************)
(* What an append to main adds to a log without a branch's events.         *)
(***************************************************************************)
LEMMA MainGrows ==
  ASSUME NEW l, IsLog(l), NEW body, NEW m, Grows(l, m, Person, Main, TopOf(l), body),
         Mainline(m), Mainline(l) => Numbered(l)
  PROVE  /\ Mainline(l)
         /\ Len(l) \in Nat /\ Len(m) = Len(l) + 1
         /\ Numbered(m)
         /\ \A i \in 1..Len(l) : m[i] = l[i]
         /\ m[Len(m)].body = body
         /\ \A v \in 1..Len(l) : StateTo(m, v) = StateTo(l, v)
         /\ StateTo(m, Len(m)) = ApplyToState(StateTo(l, Len(l)), body)
<1> DEFINE e == StoredEvent(l, Person, Main, TopOf(l), body)
<1>1. /\ OneLonger(l, m)
      /\ m[Len(m)] = e
      /\ EventsOf(m) = EventsOf(l) \union {e}
  BY OneMore
<1>2. Mainline(l) /\ Numbered(l)
  BY <1>1 DEF Mainline
<1>3. TopOf(l) = Len(l) /\ MainTop(l)
  BY <1>2, NumberedTop
<1>4. e.stream = Person /\ e.version = Len(l) + 1 /\ e.position = Len(l) + 1 /\ e.body = body
  BY <1>3 DEF StoredEvent
<1> HIDE DEF e
<1>5. PICK n \in Nat : n = Len(l) /\ Len(m) = n + 1 /\ \A i \in 1..n : m[i] = l[i]
  BY <1>1 DEF OneLonger
<1>6. Numbered(m)
  <2>1. \A i \in 1..n : l[i].stream = Person /\ l[i].version = i /\ l[i].position = i
    BY <1>2, <1>5 DEF Numbered
  <2>2. \A i \in 1..n + 1 : i \in 1..n \/ i = n + 1
    OBVIOUS
  <2>3. \A i \in 1..n + 1 : m[i].stream = Person /\ m[i].version = i /\ m[i].position = i
    BY <1>1, <1>4, <1>5, <2>1, <2>2
  <2> QED
    BY <1>5, <2>3 DEF Numbered
<1>7. /\ TopOf(m) = n + 1
      /\ \A v \in 1..n : StateTo(m, v) = StateTo(l, v)
      /\ StateTo(m, n + 1) = ApplyToState(StateTo(l, n), body)
  <2>1. /\ TopOf(m) = TopOf(l) + 1
        /\ \A v \in 1..TopOf(l) : StateTo(m, v) = StateTo(l, v)
        /\ StateTo(m, TopOf(m)) = ApplyToState(StateTo(l, TopOf(l)), body)
    BY <1>3, MainStored
  <2>2. TopOf(l) = n
    BY <1>3, <1>5
  <2> QED
    BY <2>1, <2>2
<1> QED
  BY <1>1, <1>2, <1>4, <1>5, <1>6, <1>7

(***************************************************************************)
(* A rollback that is accepted was computed from the head it follows, so   *)
(* it restores; whatever else is appended outdates the rollbacks that      *)
(* wait.                                                                   *)
(***************************************************************************)
LEMMA AppendRolls ==
  ASSUME RollInv(log, cmd), NEW c \in Commands, AppendEvent(c)
  PROVE  RollInv(log, cmd)'
<1> DEFINE r == cmd[c]
<1>1. r.pc = "append" /\ r = [pc |-> "append", body |-> r.body, expected |-> r.expected]
  BY DEF AppendEvent, RollInv, Shaped
<1>2. CASE Return(c) /\ log' = log
  BY <1>2, ReturnRolls
<1>3. CASE /\ Accepts(r.expected, MainVersion)
           /\ log' = log \o Stored(log, Person, Main, MainVersion, <<r.body>>)
           /\ Goto(c, "project")
  <2>1. PICK body : body = r.body
    OBVIOUS
  <2>2. PICK m : m = log'
    OBVIOUS
  <2>3. PICK next : next = [pc |-> "project", body |-> body, expected |-> r.expected]
    OBVIOUS
  <2>4. cmd' = [cmd EXCEPT ![c] = next]
    <3>1. [r EXCEPT !.pc = "project"] = next
      BY <1>1, <2>1, <2>3
    <3> QED
      BY <1>3, <3>1 DEF Goto
  <2>5. /\ cmd' = [d \in Commands |-> cmd'[d]]
        /\ cmd'[c] = next
        /\ \A d \in Commands \ {c} : cmd'[d] = cmd[d]
    BY <2>4 DEF RollInv
  <2>6. next.pc = "project"
    BY <2>3
  <2>7. Grows(log, m, Person, Main, TopOf(log), body)
    BY <1>3, <2>1, <2>2 DEF Grows, MainVersion, TopOf
  <2>8. IsLog(log) /\ WellMade(body) /\ Made(log, cmd)
    BY <1>1, <2>1 DEF RollInv, Made
  <2>9. OneLonger(log, m) /\ m[Len(m)].body = body
    <3>1. PICK e : e = StoredEvent(log, Person, Main, TopOf(log), body)
      OBVIOUS
    <3>2. OneLonger(log, m) /\ m[Len(m)] = e
      BY <2>7, <2>8, <3>1, OneMore
    <3>3. e.body = body
      BY <3>1 DEF StoredEvent
    <3> QED
      BY <3>2, <3>3
  <2>10. Made(m, cmd')
    <3>1. PICK n \in Nat : n = Len(log) /\ Len(m) = n + 1 /\ \A i \in 1..n : m[i] = log[i]
      BY <2>9 DEF OneLonger
    <3>2. \A i \in 1..n + 1 : i \in 1..n \/ i = n + 1
      OBVIOUS
    <3>3. \A i \in 1..n : WellMade(log[i].body)
      BY <2>8, <3>1 DEF Made
    <3>4. \A i \in 1..n + 1 : WellMade(m[i].body)
      BY <2>8, <2>9, <3>1, <3>2, <3>3
    <3> QED
      BY <2>5, <2>6, <2>8, <3>1, <3>4 DEF Made
  <2>11. \A d \in Commands : Shaped(cmd'[d])
    BY <2>5, <2>6 DEF RollInv, Shaped
  <2>12. ASSUME Mainline(m)
         PROVE  Numbered(m) /\ Restored(m) /\ \A d \in Commands : Rolling(m, cmd'[d])
    <3>1. Mainline(log) => Numbered(log)
      BY DEF RollInv
    <3>2. /\ Mainline(log) /\ Numbered(m)
          /\ Len(log) \in Nat /\ Len(m) = Len(log) + 1
          /\ \A i \in 1..Len(log) : m[i] = log[i]
          /\ \A v \in 1..Len(log) : StateTo(m, v) = StateTo(log, v)
          /\ StateTo(m, Len(m)) = ApplyToState(StateTo(log, Len(log)), body)
      BY <2>7, <2>8, <2>12, <3>1, MainGrows
    <3>3. PICK n \in Nat : n = Len(log)
      BY <3>2
    <3>4. "target" \in DOMAIN body => Returns(log, body, n)
      <4>1. MainVersion = n
        BY <3>1, <3>2, <3>3, <2>8, NumberedTop DEF MainVersion, TopOf
      <4>2. "target" \in DOMAIN body => r.expected \in 0..n /\ (r.expected = n => Returns(log, body, n))
        BY <1>1, <2>1, <3>2, <3>3 DEF RollInv, Rolling
      <4> QED
        BY <1>3, <4>1, <4>2 DEF Accepts
    <3>5. Restored(m)
      <4> SUFFICES ASSUME NEW i \in 1..n + 1, "target" \in DOMAIN m[i].body
                   PROVE  /\ m[i].body.target \in 1..i - 1
                          /\ StateTo(m, i) = StateTo(m, m[i].body.target)
        BY <3>2, <3>3 DEF Restored
      <4>1. \A v \in 1..n : StateTo(m, v) = StateTo(log, v) /\ m[v] = log[v]
        BY <3>2, <3>3
      <4>2. CASE i \in 1..n
        <5>1. log[i].body.target \in 1..i - 1 /\ StateTo(log, i) = StateTo(log, log[i].body.target)
          BY <3>2, <3>3, <4>1, <4>2 DEF RollInv, Restored
        <5>2. m[i] = log[i] /\ log[i].body.target \in 1..n
          BY <4>1, <4>2, <5>1
        <5> QED
          BY <4>1, <4>2, <5>1, <5>2
      <4>3. CASE i = n + 1
        <5>1. m[i].body = body
          BY <2>9, <3>2, <3>3, <4>3
        <5>2. body.target \in 1..n - 1 /\ ApplyToState(StateTo(log, n), body) = StateTo(log, body.target)
          BY <3>4, <5>1 DEF Returns
        <5>3. body.target \in 1..n /\ body.target \in 1..i - 1
          BY <4>3, <5>2
        <5>4. StateTo(m, i) = ApplyToState(StateTo(log, n), body)
          BY <3>2, <3>3, <4>3
        <5>5. StateTo(m, body.target) = StateTo(log, body.target)
          BY <4>1, <5>3
        <5> QED
          BY <5>1, <5>2, <5>3, <5>4, <5>5
      <4> QED
        BY <4>2, <4>3
    <3>6. ASSUME NEW d \in Commands PROVE Rolling(m, cmd'[d])
      <4>1. CASE d = c
        BY <2>5, <2>6, <4>1 DEF Rolling
      <4>2. CASE d # c
        <5>1. PICK q : q = cmd[d]
          OBVIOUS
        <5>2. cmd'[d] = q
          BY <2>5, <4>2, <5>1
        <5>3. Rolling(log, q)
          BY <3>2, <5>1 DEF RollInv
        <5>4. 0..n \subseteq 0..n + 1 /\ n + 1 \notin 0..n
          OBVIOUS
        <5>5. Rolling(m, q)
          BY <3>2, <3>3, <5>3, <5>4 DEF Rolling
        <5> QED
          BY <5>2, <5>5
      <4> QED
        BY <4>1, <4>2
    <3> QED
      BY <3>2, <3>5, <3>6
  <2> QED
    BY <2>2, <2>5, <2>9, <2>10, <2>11, <2>12 DEF RollInv, OneLonger
<1> QED
  BY <1>2, <1>3 DEF AppendEvent

(***************************************************************************)
(* A projection changes nothing a rollback goes by.                        *)
(***************************************************************************)
LEMMA ProjectRolls ==
  ASSUME RollInv(log, cmd), NEW c \in Commands,
         ProjectWhole(c) \/ LoadProjected(c) \/ SaveProjected(c) \/ LoseProjection(c)
  PROVE  RollInv(log, cmd)'
<1>1. log' = log
  BY DEF ProjectWhole, LoadProjected, SaveProjected, LoseProjection
<1>2. \/ Return(c)
      \/ \E r : cmd' = [cmd EXCEPT ![c] = [pc |-> "save", row |-> r]]
  BY DEF ProjectWhole, LoadProjected, SaveProjected, LoseProjection
<1>3. CASE Return(c)
  BY <1>1, <1>3, ReturnRolls
<1>4. CASE \E r : cmd' = [cmd EXCEPT ![c] = [pc |-> "save", row |-> r]]
  <2>1. PICK r, next : next = [pc |-> "save", row |-> r] /\ cmd' = [cmd EXCEPT ![c] = next]
    BY <1>4
  <2>2. next.pc = "save"
    BY <2>1
  <2>3. Shaped(next) /\ Rolling(log, next)
    BY <2>2 DEF Shaped, Rolling
  <2> QED
    BY <1>1, <2>1, <2>2, <2>3, SlotRolls
<1> QED
  BY <1>2, <1>3, <1>4

(***************************************************************************)
(* Once a branch has written, nothing is asked of the rollbacks.           *)
(***************************************************************************)
LEMMA BranchRolls ==
  ASSUME RollInv(log, cmd), NEW b \in Branches, Fork(b) \/ BranchEdit(b)
  PROVE  RollInv(log, cmd)'
<1>1. CASE Fork(b)
  <2>1. log' = log /\ cmd' = cmd
    BY <1>1 DEF Fork
  <2> QED
    BY <2>1
<1>2. CASE BranchEdit(b)
  <2> DEFINE cur == CurrentVersion(log, StreamVersion(log, Person, b), Person, b, base[b])
  <2>1. PICK changes \in Changes :
          log' = log \o Stored(log, Person, b, cur, <<[type |-> "Updated", changes |-> changes]>>)
    BY <1>2 DEF BranchEdit
  <2>2. PICK body : body = [type |-> "Updated", changes |-> changes]
    OBVIOUS
  <2>3. PICK m : m = log'
    OBVIOUS
  <2>4. Grows(log, m, Person, b, cur, body)
    BY <2>1, <2>2, <2>3 DEF Grows
  <2>5. cmd' = cmd /\ WellMade(body)
    BY <1>2, <2>2 DEF BranchEdit, WellMade
  <2>6. IsLog(log)
    BY DEF RollInv
  <2> HIDE DEF cur
  <2>7. PICK e : e = StoredEvent(log, Person, b, cur, body)
    OBVIOUS
  <2>8. OneLonger(log, m) /\ m[Len(m)] = e /\ EventsOf(m) = EventsOf(log) \union {e}
    BY <2>4, <2>6, <2>7, OneMore
  <2>9. e.body = body /\ e.branch # Main
    BY <2>7, BranchesApart DEF StoredEvent
  <2>10. ~ Mainline(m)
    BY <2>8, <2>9 DEF Mainline
  <2>11. Made(m, cmd)
    <3>1. PICK n \in Nat : n = Len(log) /\ Len(m) = n + 1 /\ \A i \in 1..n : m[i] = log[i]
      BY <2>8 DEF OneLonger
    <3>2. \A i \in 1..n + 1 : i \in 1..n \/ i = n + 1
      OBVIOUS
    <3>3. \A i \in 1..n : WellMade(log[i].body)
      BY <3>1 DEF RollInv, Made
    <3>4. \A i \in 1..n + 1 : WellMade(m[i].body)
      BY <2>5, <2>8, <2>9, <3>1, <3>2, <3>3
    <3> QED
      BY <3>1, <3>4 DEF RollInv, Made
  <2> QED
    BY <2>3, <2>5, <2>8, <2>10, <2>11 DEF RollInv, OneLonger
<1> QED
  BY <1>1, <1>2

(***************************************************************************)
(* The invariant holds at the start and every step keeps it.               *)
(***************************************************************************)
LEMMA RollInvHolds == Init => RollInv(log, cmd)
<1> SUFFICES ASSUME Init PROVE RollInv(log, cmd)
  OBVIOUS
<1>1. PICK l : l = log /\ l = <<>>
  BY DEF Init
<1>2. IsLog(l) /\ Len(l) = 0 /\ 1..0 = {}
  BY <1>1 DEF IsLog
<1>3. cmd = [c \in Commands |-> cmd[c]] /\ \A c \in Commands : cmd[c].pc = "idle"
  BY DEF Init, Idle
<1>4. Made(l, cmd) /\ Numbered(l) /\ Restored(l)
  BY <1>2, <1>3 DEF Made, Numbered, Restored
<1>5. \A c \in Commands : Shaped(cmd[c]) /\ Rolling(l, cmd[c])
  BY <1>3 DEF Shaped, Rolling
<1> QED
  BY <1>1, <1>2, <1>3, <1>4, <1>5 DEF RollInv

(***************************************************************************)
(* One case per action.                                                    *)
(***************************************************************************)
LEMMA RollInvStep == RollInv(log, cmd) /\ [Next]_vars => RollInv(log, cmd)'
<1> SUFFICES ASSUME RollInv(log, cmd), [Next]_vars PROVE RollInv(log, cmd)'
  OBVIOUS
<1>1. CASE UNCHANGED vars
  BY <1>1 DEF vars
<1>2. ASSUME NEW c \in Commands, BeginCreate(c) \/ BeginUpdate(c) \/ BeginDelete(c)
      PROVE  RollInv(log, cmd)'
  BY <1>2, BeginRolls
<1>3. ASSUME NEW c \in Commands, BeginRollback(c) \/ CheckDeleted(c) PROVE RollInv(log, cmd)'
  BY <1>3, ReadRolls
<1>4. ASSUME NEW c \in Commands, Compute(c) PROVE RollInv(log, cmd)'
  BY <1>4, ComputeRolls
<1>5. ASSUME NEW c \in Commands, AppendEvent(c) PROVE RollInv(log, cmd)'
  BY <1>5, AppendRolls
<1>6. ASSUME NEW c \in Commands,
             ProjectWhole(c) \/ LoadProjected(c) \/ SaveProjected(c) \/ LoseProjection(c)
      PROVE  RollInv(log, cmd)'
  BY <1>6, ProjectRolls
<1>7. ASSUME NEW b \in Branches, Fork(b) \/ BranchEdit(b) PROVE RollInv(log, cmd)'
  BY <1>7, BranchRolls
<1> QED
  BY <1>1, <1>2, <1>3, <1>4, <1>5, <1>6, <1>7 DEF Next

(***************************************************************************)
(* A rollback's event takes main's history back to its target, whatever    *)
(* was written while it was computed.                                      *)
(***************************************************************************)
THEOREM RollbackRestoresHolds == Spec => []RollbackRestores
<1>1. RollInv(log, cmd) => RollbackRestores
  <2> SUFFICES ASSUME RollInv(log, cmd), \A e \in EventsOf(log) : e.branch = Main,
                      NEW e \in EventsOf(log), "target" \in DOMAIN e.body
               PROVE  StateTo(log, e.version) = StateTo(log, e.body.target)
    BY DEF RollbackRestores
  <2>1. Numbered(log) /\ Restored(log)
    BY DEF RollInv, Mainline
  <2>2. PICK i \in 1..Len(log) : e = log[i]
    BY DEF EventsOf
  <2> QED
    BY <2>1, <2>2 DEF Numbered, Restored
<1> QED
  BY RollInvHolds, RollInvStep, <1>1, PTL DEF Spec


=============================================================================
