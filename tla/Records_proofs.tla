--------------------------- MODULE Records_proofs ---------------------------
(***************************************************************************)
(* Proofs about the records beside the families, about the lists and about *)
(* what is read of the log in pages, for every number of sources,          *)
(* citations, persons, analyses, rows, requests, streams, pagers and       *)
(* snapshots.  The parts each have their invariant here, and the last      *)
(* section carries all of them over to the behaviours of Records.          *)
(***************************************************************************)
EXTENDS Records, FiniteSetTheorems, EventLog_proofs

(***************************************************************************)
(* Finite sets and their sizes are the same in every module.               *)
(***************************************************************************)
LEMMA SameSizes ==
  /\ \A S : EC!IsFiniteSet(S) <=> IsFiniteSet(S)
  /\ \A S : SC!IsFiniteSet(S) <=> IsFiniteSet(S)
  /\ \A S : PR!IsFiniteSet(S) <=> IsFiniteSet(S)
  /\ \A S : EC!Cardinality(S) = Cardinality(S)
  /\ \A S : SC!Cardinality(S) = Cardinality(S)
  /\ \A S : PR!Cardinality(S) = Cardinality(S)
  /\ \A S : LS!Cardinality(S) = Cardinality(S)
  /\ \A S : HI!Cardinality(S) = Cardinality(S)
BY DEF EC!IsFiniteSet, SC!IsFiniteSet, PR!IsFiniteSet, IsFiniteSet,
       EC!Cardinality, SC!Cardinality, PR!Cardinality, LS!Cardinality, HI!Cardinality, Cardinality

-----------------------------------------------------------------------------

-----------------------------------------------------------------------------
(* The inductive invariant.                                                *)

AnalysisRows == [version : Int, fact : Facts, says : Conclusions]
ConflictRows == [version : Int, fact : Facts, open : BOOLEAN]

Writes ==
  [pc : {"append", "project", "compare", "lookup", "open"}, do : {"write"},
   stream : Analyses, expected : Int, row : AnalysisRows]

Deletes ==
  [pc : {"append", "project"}, do : {"delete"}, stream : Analyses, expected : Int, row : {EC!NoRow}]

Resolves ==
  [pc : {"append", "project"}, do : {"resolve"}, stream : Conflicts, expected : Int,
   row : ConflictRows]

EvidenceRequests == {EC!Idle} \union Writes \union Deletes \union Resolves

EvidenceTypes ==
  /\ slots \subseteq Slots /\ IsFiniteSet(slots)
  /\ analyses \in [Analyses -> {EC!NoRow} \union AnalysisRows]
  /\ conflicts \in [Conflicts -> {EC!NoRow} \union ConflictRows]
  /\ head \in [Analyses \union Conflicts -> Nat]
  /\ req \in [Slots -> EvidenceRequests]

\* Who closes a conflict names it by its fact, which no step changes.
Closes(cs, q) ==
  q \in Resolves =>
    /\ EC!Exists(cs[q.stream]) /\ cs[q.stream].fact = q.row.fact
    /\ EC!Exists(q.row) /\ ~q.row.open

Resolving ==
  /\ \A k \in Conflicts : EC!Exists(conflicts[k]) => head[k] # 0
  /\ \A r \in Slots : Closes(conflicts, req[r])

\* The rows as hold an analysis x of the fact f.
On(as, x, f) == EC!Exists(as[x]) /\ as[x].fact = f

\* Two analyses of one fact that disagree.
Apart(as, x, y, f) == On(as, x, f) /\ On(as, y, f) /\ as[x].says # as[y].says

(***************************************************************************)
(* The request has yet to look for f's conflict, and will: whatever it     *)
(* compares with, it wrote neither of x and y or wrote what still stands,  *)
(* so one of the two disagrees with its row.                               *)
(***************************************************************************)
Attends(as, q, x, y, f) ==
  /\ q \in Writes /\ q.row.fact = f
  /\ \/ q.pc \in {"lookup", "open"}
     \/ q.pc = "compare" /\ \A z \in {x, y} : q.stream = z => as[z] = q.row

HasOpen(cs, f) == \E k \in Conflicts : EC!Exists(cs[k]) /\ cs[k].fact = f /\ cs[k].open

\* A disagreement has an open conflict, or a request that attends to it.
Covered(as, cs, q, x, y, f) ==
  Apart(as, x, y, f) => HasOpen(cs, f) \/ \E r \in Slots : Attends(as, q[r], x, y, f)

Attended ==
  \A f \in unsettled : \A x, y \in Analyses : Covered(analyses, conflicts, req, x, y, f)

OpenIn(cs, f) == {k \in Conflicts : EC!Exists(cs[k]) /\ cs[k].fact = f /\ cs[k].open}

\* With one request at a time a fact has one open conflict, or is to get it.
Alone ==
  /\ \A r \in Slots \ slots : req[r] = EC!Idle
  /\ (\E r \in Slots : slots = {r}) =>
       /\ \A f \in Facts : \A j, k \in OpenIn(conflicts, f) : j = k
       /\ \A r \in Slots : req[r].pc = "open" => ~ HasOpen(conflicts, req[r].row.fact)

EvidenceInv == EvidenceTypes /\ Resolving /\ Attended /\ Alone

-----------------------------------------------------------------------------
(* Steps that change no row.                                               *)

(***************************************************************************)
(* What a request is, by the place it has come to and what it does.        *)
(***************************************************************************)
LEMMA EvidenceKinds ==
  ASSUME NEW q \in EvidenceRequests
  PROVE  /\ q.pc \in {"compare", "lookup", "open"} => q \in Writes
         /\ q.pc = "project" /\ q.do = "write" => q \in Writes
         /\ q.pc = "project" /\ q.do = "delete" => q \in Deletes
         /\ q.pc = "project" /\ q.do = "resolve" => q \in Resolves
         /\ q.pc = "append" => q \in Writes \union Deletes \union Resolves
         /\ q.pc = "project" => q \in Writes \union Deletes \union Resolves
         /\ q \in Resolves => q \notin Writes /\ q.pc # "open"
         /\ q = EC!Idle => q \notin Writes /\ q \notin Resolves /\ q.pc = "idle"
BY DEF EvidenceRequests, EC!Idle, Writes, Deletes, Resolves

(***************************************************************************)
(* A step of one request that changes no row keeps the invariant, if what  *)
(* the request attended to is still attended to.                           *)
(***************************************************************************)
LEMMA EvidenceQuietStep ==
  ASSUME EvidenceInv, NEW r \in slots, NEW v \in EvidenceRequests,
         req' = [req EXCEPT ![r] = v],
         slots' = slots, analyses' = analyses, conflicts' = conflicts, unsettled' = unsettled,
         head' \in [Analyses \union Conflicts -> Nat],
         \A i \in Conflicts : head[i] # 0 => head'[i] # 0,
         Closes(conflicts, v),
         v.pc = "open" => ~ HasOpen(conflicts, v.row.fact),
         \A f \in unsettled : \A x, y \in Analyses :
           Apart(analyses, x, y, f) /\ Attends(analyses, req[r], x, y, f)
             => HasOpen(conflicts, f) \/ Attends(analyses, v, x, y, f)
  PROVE  EvidenceInv'
<1>1. /\ r \in Slots
      /\ req' \in [Slots -> EvidenceRequests]
      /\ req'[r] = v
      /\ \A q \in Slots \ {r} : req'[q] = req[q]
  BY DEF EvidenceInv, EvidenceTypes
<1>2. EvidenceTypes'
  BY <1>1 DEF EvidenceInv, EvidenceTypes
<1>3. Resolving'
  <2>1. \A q \in Slots : Closes(conflicts, req'[q])
    BY <1>1 DEF EvidenceInv, Resolving
  <2>2. \A k \in Conflicts : EC!Exists(conflicts[k]) => head'[k] # 0
    BY DEF EvidenceInv, Resolving
  <2> QED
    BY <2>1, <2>2 DEF Resolving
<1>4. Attended'
  <2>1. ASSUME NEW f \in unsettled, NEW x \in Analyses, NEW y \in Analyses
        PROVE  Covered(analyses, conflicts, req', x, y, f)
    <3>1. SUFFICES ASSUME Apart(analyses, x, y, f), ~ HasOpen(conflicts, f)
                   PROVE  \E q \in Slots : Attends(analyses, req'[q], x, y, f)
      BY DEF Covered
    <3>2. PICK q \in Slots : Attends(analyses, req[q], x, y, f)
      BY <3>1 DEF EvidenceInv, Attended, Covered
    <3>3. CASE q = r
      BY <1>1, <3>1, <3>2, <3>3
    <3>4. CASE q # r
      BY <1>1, <3>2, <3>4
    <3> QED
      BY <3>3, <3>4
  <2> QED
    BY <2>1 DEF Attended
<1>5. Alone'
  <2>1. \A q \in Slots \ slots : req'[q] = EC!Idle
    BY <1>1 DEF EvidenceInv, Alone
  <2>2. \A q \in Slots : req'[q].pc = "open" =>
          ~ HasOpen(conflicts, req'[q].row.fact) \/ (q # r /\ req[q].pc = "open")
    BY <1>1
  <2> QED
    BY <1>1, <2>1, <2>2 DEF EvidenceInv, Alone
<1> QED
  BY <1>2, <1>3, <1>4, <1>5 DEF EvidenceInv

(***************************************************************************)
(* A request begins.                                                       *)
(***************************************************************************)
LEMMA EvidenceDecideKeeps ==
  ASSUME EvidenceInv, NEW r \in slots, slots' = slots,
         NEW do, NEW stream, NEW expected, NEW w,
         EC!Decide(r, do, stream, expected, w),
         LET v == [pc |-> "append", do |-> do, stream |-> stream, expected |-> expected, row |-> w]
         IN  v \in EvidenceRequests /\ Closes(conflicts, v)
  PROVE  EvidenceInv'
<1>1. PICK v : v = [pc |-> "append", do |-> do, stream |-> stream, expected |-> expected, row |-> w]
  OBVIOUS
<1>2. /\ v \in EvidenceRequests /\ Closes(conflicts, v) /\ v.pc = "append"
      /\ req[r] = EC!Idle /\ req' = [req EXCEPT ![r] = v]
      /\ UNCHANGED <<analyses, conflicts, head, unsettled>>
  BY <1>1 DEF EC!Decide
<1>3. \A x, y, f : ~ Attends(analyses, req[r], x, y, f)
  <2>1. EC!Idle \notin Writes
    BY DEF EC!Idle, Writes
  <2> QED
    BY <1>2, <2>1 DEF Attends
<1>4. head' \in [Analyses \union Conflicts -> Nat]
  BY <1>2 DEF EvidenceInv, EvidenceTypes
<1> QED
  BY <1>2, <1>3, <1>4, EvidenceQuietStep

(***************************************************************************)
(* The four commands: analyses are written and deleted, conflicts resolved.*)
(***************************************************************************)
LEMMA EvidenceBeginKeeps ==
  ASSUME EvidenceInv, NEW r \in slots, slots' = slots,
         \/ EC!CreateEvidenceAnalysis(r) \/ EC!UpdateEvidenceAnalysis(r)
         \/ EC!DeleteEvidenceAnalysis(r) \/ EC!ResolveEvidenceConflict(r)
  PROVE  EvidenceInv'
<1>1. ASSUME NEW a \in Analyses, NEW f \in Facts, NEW c \in Conclusions,
             NEW n \in Int, NEW m \in Int,
             EC!Decide(r, "write", a, n, EC!Row(m, f, c))
      PROVE  EvidenceInv'
  <2>1. PICK v : v = [pc |-> "append", do |-> "write", stream |-> a,
                      expected |-> n, row |-> EC!Row(m, f, c)]
    OBVIOUS
  <2>2. EC!Row(m, f, c) \in AnalysisRows
    BY DEF EC!Row, AnalysisRows
  <2>3. v \in Writes
    BY <2>1, <2>2 DEF Writes
  <2>4. v \in EvidenceRequests /\ Closes(conflicts, v)
    BY <2>3, EvidenceKinds DEF EvidenceRequests, Closes
  <2> QED
    BY <1>1, <2>1, <2>4, EvidenceDecideKeeps
<1>2. CASE EC!CreateEvidenceAnalysis(r)
  BY <1>1, <1>2 DEF EC!CreateEvidenceAnalysis
<1>3. CASE EC!UpdateEvidenceAnalysis(r)
  <2>1. PICK a \in Analyses, f \in Facts, c \in Conclusions :
          /\ EC!Exists(analyses[a])
          /\ EC!Decide(r, "write", a, analyses[a].version, EC!Row(analyses[a].version + 1, f, c))
    BY <1>3 DEF EC!UpdateEvidenceAnalysis
  <2>2. analyses[a] \in AnalysisRows
    BY <2>1 DEF EvidenceInv, EvidenceTypes, EC!Exists, EC!NoRow
  <2>3. analyses[a].version \in Int /\ analyses[a].version + 1 \in Int
    BY <2>2 DEF AnalysisRows
  <2> QED
    BY <1>1, <2>1, <2>3
<1>4. CASE EC!DeleteEvidenceAnalysis(r)
  <2>1. PICK a \in Analyses : /\ EC!Exists(analyses[a])
                              /\ EC!Decide(r, "delete", a, analyses[a].version, EC!NoRow)
    BY <1>4 DEF EC!DeleteEvidenceAnalysis
  <2>2. analyses[a] \in AnalysisRows
    BY <2>1 DEF EvidenceInv, EvidenceTypes, EC!Exists, EC!NoRow
  <2>3. PICK v : v = [pc |-> "append", do |-> "delete", stream |-> a,
                      expected |-> analyses[a].version, row |-> EC!NoRow]
    OBVIOUS
  <2>4. v \in Deletes
    BY <2>2, <2>3 DEF AnalysisRows, Deletes
  <2>5. v \in EvidenceRequests /\ Closes(conflicts, v)
    BY <2>4 DEF EvidenceRequests, Closes, Deletes, Resolves
  <2> QED
    BY <2>1, <2>3, <2>5, EvidenceDecideKeeps
<1>5. CASE EC!ResolveEvidenceConflict(r)
  <2>1. PICK k \in Conflicts :
          /\ EC!Exists(conflicts[k])
          /\ EC!Decide(r, "resolve", k, conflicts[k].version,
                    [conflicts[k] EXCEPT !.version = @ + 1, !.open = FALSE])
    BY <1>5 DEF EC!ResolveEvidenceConflict
  <2>2. PICK m : m = conflicts[k]
    OBVIOUS
  <2>3. m \in ConflictRows
    BY <2>1, <2>2 DEF EvidenceInv, EvidenceTypes, EC!Exists, EC!NoRow
  <2>4. PICK w : w = [m EXCEPT !.version = @ + 1, !.open = FALSE]
    OBVIOUS
  <2>5. PICK n \in Int : n = m.version + 1
    BY <2>3 DEF ConflictRows
  <2>6. w = [version |-> n, fact |-> m.fact, open |-> FALSE]
    BY <2>3, <2>4, <2>5 DEF ConflictRows
  <2>7. w \in ConflictRows /\ w.fact = m.fact /\ w.open = FALSE /\ EC!Exists(w)
    <3>1. m.version > 0
      BY <2>1, <2>2 DEF EC!Exists
    <3>2. w.version > 0
      BY <2>3, <2>5, <2>6, <3>1 DEF ConflictRows
    <3> QED
      BY <2>3, <2>6, <3>2 DEF ConflictRows, EC!Exists
  <2>8. PICK v : v = [pc |-> "append", do |-> "resolve", stream |-> k,
                      expected |-> m.version, row |-> w]
    OBVIOUS
  <2>9. m.version \in Int
    BY <2>3 DEF ConflictRows
  <2>10. v \in Resolves /\ v.stream = k /\ v.row = w
    BY <2>7, <2>8, <2>9 DEF Resolves
  <2>11. v \in EvidenceRequests /\ Closes(conflicts, v)
    BY <2>1, <2>2, <2>7, <2>10 DEF EvidenceRequests, Closes
  <2>12. EC!Decide(r, "resolve", k, m.version, w)
    BY <2>1, <2>2, <2>4
  <2> QED
    BY <2>8, <2>11, <2>12, EvidenceDecideKeeps
<1> QED
  BY <1>2, <1>3, <1>4, <1>5

(***************************************************************************)
(* An append moves a stream's head and no row; a refused one ends the      *)
(* request.                                                                *)
(***************************************************************************)
LEMMA EvidenceAppendKeeps ==
  ASSUME EvidenceInv, NEW r \in slots, slots' = slots, EC!AppendEvent(r)
  PROVE  EvidenceInv'
<1>1. PICK q : q = req[r]
  OBVIOUS
<1>2. q \in EvidenceRequests /\ q.pc = "append" /\ Closes(conflicts, q)
  BY <1>1 DEF EvidenceInv, EvidenceTypes, Resolving, EC!AppendEvent
<1>3. q \in Writes \union Deletes \union Resolves
  BY <1>2, EvidenceKinds
<1>4. PICK v : v = [q EXCEPT !.pc = "project"]
  OBVIOUS
<1>5. /\ v \in Writes \union Deletes \union Resolves
      /\ v.pc = "project" /\ v.stream = q.stream /\ v.row = q.row
      /\ v \in Resolves <=> q \in Resolves
  BY <1>2, <1>3, <1>4 DEF Writes, Deletes, Resolves
<1>6. v \in EvidenceRequests /\ Closes(conflicts, v)
  BY <1>2, <1>5 DEF EvidenceRequests, Closes
<1>7. q.stream \in Analyses \union Conflicts
  BY <1>3 DEF Writes, Deletes, Resolves
<1>8. \A x, y, f : ~ Attends(analyses, req[r], x, y, f)
  BY <1>1, <1>2 DEF Attends
<1>9. UNCHANGED <<analyses, conflicts, unsettled>>
  BY DEF EC!AppendEvent
<1>10. CASE head' = [head EXCEPT ![q.stream] = @ + 1] /\ req' = [req EXCEPT ![r] = v]
  <2>1. head \in [Analyses \union Conflicts -> Nat]
    BY DEF EvidenceInv, EvidenceTypes
  <2>2. /\ head' \in [Analyses \union Conflicts -> Nat]
        /\ \A i \in Conflicts : head[i] # 0 => head'[i] # 0
    BY <1>7, <1>10, <2>1
  <2>3. \A f \in unsettled : \A x, y \in Analyses :
          Apart(analyses, x, y, f) /\ Attends(analyses, req[r], x, y, f)
            => HasOpen(conflicts, f) \/ Attends(analyses, v, x, y, f)
    BY <1>8
  <2>4. v.pc = "open" => ~ HasOpen(conflicts, v.row.fact)
    BY <1>5
  <2> QED
    BY <1>6, <1>9, <1>10, <2>2, <2>3, <2>4, EvidenceQuietStep
<1>11. CASE head' = head /\ req' = [req EXCEPT ![r] = EC!Idle]
  <2>1. EC!Idle \in EvidenceRequests /\ EC!Idle.pc # "open" /\ Closes(conflicts, EC!Idle)
    BY DEF EvidenceRequests, EC!Idle, Closes, Resolves
  <2>2. head' \in [Analyses \union Conflicts -> Nat]
    BY <1>11 DEF EvidenceInv, EvidenceTypes
  <2> QED
    BY <1>8, <1>9, <1>11, <2>1, <2>2, EvidenceQuietStep
<1>12. [req EXCEPT ![r].pc = "project"] = [req EXCEPT ![r] = v]
  BY <1>1, <1>4
<1>13. \/ head' = [head EXCEPT ![q.stream] = @ + 1] /\ req' = [req EXCEPT ![r] = v]
       \/ head' = head /\ req' = [req EXCEPT ![r] = EC!Idle]
  BY <1>1, <1>12 DEF EC!AppendEvent
<1> QED
  BY <1>10, <1>11, <1>13

(***************************************************************************)
(* A request that attends to a disagreement finds one when it compares.    *)
(***************************************************************************)
LEMMA CompareFinds ==
  ASSUME EvidenceTypes, NEW q \in EvidenceRequests, NEW f, NEW x \in Analyses, NEW y \in Analyses,
         q.pc = "compare", Attends(analyses, q, x, y, f), Apart(analyses, x, y, f)
  PROVE  EC!Disagreeing(q.stream, q.row) # {}
<1>1. x # y /\ q.row.fact = f
  BY DEF Apart, Attends
<1>2. \A z \in {x, y} : EC!Exists(analyses[z]) /\ analyses[z].fact = q.row.fact
  BY <1>1 DEF Apart, On
<1>3. PICK z \in {x, y} : z # q.stream /\ analyses[z].says # q.row.says
  <2>1. CASE q.stream = x
    BY <1>1, <2>1 DEF Attends, Apart
  <2>2. CASE q.stream = y
    BY <1>1, <2>2 DEF Attends, Apart
  <2>3. CASE q.stream \notin {x, y}
    BY <2>3 DEF Apart
  <2> QED
    BY <2>1, <2>2, <2>3
<1> QED
  BY <1>2, <1>3 DEF EC!Disagreeing

(***************************************************************************)
(* The comparison, and the look for an open conflict.                      *)
(***************************************************************************)
LEMMA LookUpKeeps ==
  ASSUME EvidenceInv, NEW r \in slots, slots' = slots, EC!Compare(r) \/ EC!LookUpConflict(r)
  PROVE  EvidenceInv'
<1>1. PICK q : q = req[r]
  OBVIOUS
<1>2. /\ q \in EvidenceRequests /\ q.pc \in {"compare", "lookup"} /\ q \in Writes
      /\ UNCHANGED <<analyses, conflicts, head, unsettled>>
  <2>1. q \in EvidenceRequests /\ q.pc \in {"compare", "lookup"}
    BY <1>1 DEF EvidenceInv, EvidenceTypes, EC!Compare, EC!LookUpConflict
  <2> QED
    BY <2>1, EvidenceKinds DEF EC!Compare, EC!LookUpConflict
<1>3. head' \in [Analyses \union Conflicts -> Nat]
  BY <1>2 DEF EvidenceInv, EvidenceTypes
<1>4. EC!Idle \in EvidenceRequests /\ EC!Idle.pc # "open" /\ Closes(conflicts, EC!Idle)
  BY DEF EvidenceRequests, EC!Idle, Closes, Resolves
<1>5. CASE EC!Compare(r)
  <2>1. CASE EC!Disagreeing(q.stream, q.row) = {}
    <3>1. req' = [req EXCEPT ![r] = EC!Idle] /\ q.pc = "compare"
      BY <1>1, <1>5, <2>1 DEF EC!Compare
    <3>2. \A f \in unsettled : \A x, y \in Analyses :
            Apart(analyses, x, y, f) => ~ Attends(analyses, q, x, y, f)
      BY <1>2, <2>1, <3>1, CompareFinds DEF EvidenceInv
    <3> QED
      BY <1>1, <1>2, <1>3, <1>4, <3>1, <3>2, EvidenceQuietStep
  <2>2. CASE EC!Disagreeing(q.stream, q.row) # {}
    <3>1. PICK v : v = [q EXCEPT !.pc = "lookup"]
      OBVIOUS
    <3>2. req' = [req EXCEPT ![r] = v]
      BY <1>1, <1>5, <2>2, <3>1 DEF EC!Compare
    <3>3. v \in Writes /\ v.pc = "lookup" /\ v.row = q.row
      BY <1>2, <3>1 DEF Writes
    <3>4. v \in EvidenceRequests /\ Closes(conflicts, v)
      BY <3>3, EvidenceKinds DEF EvidenceRequests, Closes
    <3>5. \A x, y, f : Attends(analyses, q, x, y, f) => Attends(analyses, v, x, y, f)
      BY <3>3 DEF Attends
    <3> QED
      BY <1>1, <1>2, <1>3, <3>2, <3>3, <3>4, <3>5, EvidenceQuietStep
  <2> QED
    BY <2>1, <2>2
<1>6. CASE EC!LookUpConflict(r)
  <2>1. EC!AlreadyOpen(q.row.fact) <=> HasOpen(conflicts, q.row.fact)
    BY DEF EC!AlreadyOpen, EC!OpenOf, HasOpen
  <2>2. CASE EC!AlreadyOpen(q.row.fact)
    <3>1. req' = [req EXCEPT ![r] = EC!Idle]
      BY <1>1, <1>6, <2>2 DEF EC!LookUpConflict
    <3>2. \A x, y, f : Attends(analyses, q, x, y, f) => HasOpen(conflicts, f)
      BY <2>1, <2>2 DEF Attends
    <3> QED
      BY <1>1, <1>2, <1>3, <1>4, <3>1, <3>2, EvidenceQuietStep
  <2>3. CASE ~ EC!AlreadyOpen(q.row.fact)
    <3>1. PICK v : v = [q EXCEPT !.pc = "open"]
      OBVIOUS
    <3>2. req' = [req EXCEPT ![r] = v]
      BY <1>1, <1>6, <2>3, <3>1 DEF EC!LookUpConflict
    <3>3. v \in Writes /\ v.pc = "open" /\ v.row = q.row
      BY <1>2, <3>1 DEF Writes
    <3>4. v \in EvidenceRequests /\ Closes(conflicts, v)
      BY <3>3, EvidenceKinds DEF EvidenceRequests, Closes
    <3>5. \A x, y, f : Attends(analyses, q, x, y, f) => Attends(analyses, v, x, y, f)
      BY <3>3 DEF Attends
    <3>6. ~ HasOpen(conflicts, v.row.fact)
      BY <2>1, <2>3, <3>3
    <3> QED
      BY <1>1, <1>2, <1>3, <3>2, <3>3, <3>4, <3>5, <3>6, EvidenceQuietStep
  <2> QED
    BY <2>2, <2>3
<1> QED
  BY <1>5, <1>6

-----------------------------------------------------------------------------
(* Steps that change a row.                                                *)

(***************************************************************************)
(* A step that writes or removes an analysis keeps the invariant, if each  *)
(* disagreement there is now was there before, or is attended to by the    *)
(* request that takes the step.                                            *)
(***************************************************************************)
LEMMA AnalysisStep ==
  ASSUME EvidenceInv, NEW r \in slots, NEW v \in EvidenceRequests,
         req[r].pc = "project", req' = [req EXCEPT ![r] = v],
         slots' = slots, conflicts' = conflicts, head' = head,
         analyses' \in [Analyses -> {EC!NoRow} \union AnalysisRows],
         v \notin Resolves, v.pc # "open",
         \A f \in unsettled' : \A x, y \in Analyses :
           Apart(analyses', x, y, f) =>
             \/ Attends(analyses', v, x, y, f)
             \/ f \in unsettled /\ analyses'[x] = analyses[x] /\ analyses'[y] = analyses[y]
  PROVE  EvidenceInv'
<1>1. /\ r \in Slots
      /\ req' \in [Slots -> EvidenceRequests]
      /\ req'[r] = v
      /\ \A q \in Slots \ {r} : req'[q] = req[q]
  BY DEF EvidenceInv, EvidenceTypes
<1>2. EvidenceTypes'
  BY <1>1 DEF EvidenceInv, EvidenceTypes
<1>3. Resolving'
  <2>1. \A q \in Slots : Closes(conflicts, req'[q])
    BY <1>1 DEF EvidenceInv, Resolving, Closes
  <2> QED
    BY <2>1 DEF EvidenceInv, Resolving
<1>4. Attended'
  <2>1. ASSUME NEW f \in unsettled', NEW x \in Analyses, NEW y \in Analyses
        PROVE  Covered(analyses', conflicts, req', x, y, f)
    <3>1. SUFFICES ASSUME Apart(analyses', x, y, f), ~ HasOpen(conflicts, f)
                   PROVE  \E q \in Slots : Attends(analyses', req'[q], x, y, f)
      BY DEF Covered
    <3>2. CASE Attends(analyses', v, x, y, f)
      BY <1>1, <3>2
    <3>3. CASE f \in unsettled /\ analyses'[x] = analyses[x] /\ analyses'[y] = analyses[y]
      <4>1. Apart(analyses, x, y, f)
        BY <3>1, <3>3 DEF Apart, On
      <4>2. PICK q \in Slots : Attends(analyses, req[q], x, y, f)
        BY <3>1, <3>3, <4>1 DEF EvidenceInv, Attended, Covered
      <4>3. q # r
        BY <4>2 DEF Attends
      <4>4. Attends(analyses', req[q], x, y, f)
        BY <3>3, <4>2 DEF Attends
      <4> QED
        BY <1>1, <4>3, <4>4
    <3> QED
      BY <3>1, <3>2, <3>3
  <2> QED
    BY <2>1 DEF Attended
<1>5. Alone'
  <2>1. \A q \in Slots \ slots : req'[q] = EC!Idle
    BY <1>1 DEF EvidenceInv, Alone
  <2>2. \A q \in Slots : req'[q].pc = "open" => q # r /\ req[q].pc = "open"
    BY <1>1
  <2> QED
    BY <1>1, <2>1, <2>2 DEF EvidenceInv, Alone
<1> QED
  BY <1>2, <1>3, <1>4, <1>5 DEF EvidenceInv

(***************************************************************************)
(* The projection of an analysis attends to all that it disagrees with.    *)
(***************************************************************************)
LEMMA AnalysisKeeps ==
  ASSUME EvidenceInv, NEW r \in slots, slots' = slots, EC!ProjectAnalysis(r)
  PROVE  EvidenceInv'
<1>1. PICK q : q = req[r]
  OBVIOUS
<1>2. /\ q \in EvidenceRequests /\ q.pc = "project" /\ q.do = "write"
      /\ unsettled' = unsettled \union {q.row.fact}
      /\ UNCHANGED <<conflicts, head>>
  BY <1>1 DEF EvidenceInv, EvidenceTypes, EC!ProjectAnalysis
<1>3. q \in Writes
  BY <1>2, EvidenceKinds
<1>4. q.stream \in Analyses /\ q.row \in AnalysisRows
  BY <1>3 DEF Writes
<1>5. PICK v : v = [q EXCEPT !.pc = "compare"]
  OBVIOUS
<1>6. req' = [req EXCEPT ![r] = v]
  BY <1>1, <1>5 DEF EC!ProjectAnalysis
<1>7. v \in Writes /\ v.pc = "compare" /\ v.row = q.row /\ v.stream = q.stream
  BY <1>3, <1>5 DEF Writes
<1>8. v \in EvidenceRequests /\ v \notin Resolves /\ v.pc # "open"
  BY <1>7 DEF EvidenceRequests, Writes, Resolves
<1>9. \/ analyses' = [analyses EXCEPT ![q.stream] = q.row]
      \/ ~ EC!Exists(analyses[q.stream]) /\ analyses' = analyses
  BY <1>1 DEF EC!ProjectAnalysis
<1>10. analyses \in [Analyses -> {EC!NoRow} \union AnalysisRows]
  BY DEF EvidenceInv, EvidenceTypes
<1>11. /\ analyses' \in [Analyses -> {EC!NoRow} \union AnalysisRows]
       /\ \A z \in Analyses : z # q.stream => analyses'[z] = analyses[z]
       /\ EC!Exists(analyses'[q.stream]) => analyses'[q.stream] = q.row
  BY <1>4, <1>9, <1>10
<1>12. ASSUME NEW f \in unsettled', NEW x \in Analyses, NEW y \in Analyses,
              Apart(analyses', x, y, f)
       PROVE  \/ Attends(analyses', v, x, y, f)
              \/ f \in unsettled /\ analyses'[x] = analyses[x] /\ analyses'[y] = analyses[y]
  <2>1. \A z \in {x, y} : EC!Exists(analyses'[z]) /\ analyses'[z].fact = f
    BY <1>12 DEF Apart, On
  <2>2. CASE f = q.row.fact
    BY <1>7, <1>11, <2>1, <2>2 DEF Attends
  <2>3. CASE f # q.row.fact
    <3>1. \A z \in {x, y} : z # q.stream
      BY <1>11, <2>1, <2>3
    <3>2. f \in unsettled
      BY <1>2, <1>12, <2>3
    <3> QED
      BY <1>11, <3>1, <3>2
  <2> QED
    BY <2>2, <2>3
<1> QED
  BY <1>1, <1>2, <1>6, <1>8, <1>11, <1>12, AnalysisStep

(***************************************************************************)
(* A deletion leaves the analyses that remain as they were.                *)
(***************************************************************************)
LEMMA EvidenceDeleteKeeps ==
  ASSUME EvidenceInv, NEW r \in slots, slots' = slots, EC!ProjectDelete(r)
  PROVE  EvidenceInv'
<1>1. PICK q : q = req[r]
  OBVIOUS
<1>2. /\ q \in EvidenceRequests /\ q.pc = "project" /\ q.do = "delete"
      /\ analyses' = [analyses EXCEPT ![q.stream] = EC!NoRow]
      /\ req' = [req EXCEPT ![r] = EC!Idle]
      /\ UNCHANGED <<conflicts, head, unsettled>>
  BY <1>1 DEF EvidenceInv, EvidenceTypes, EC!ProjectDelete
<1>3. q.stream \in Analyses
  <2>1. q \in Deletes
    BY <1>2, EvidenceKinds
  <2> QED
    BY <2>1 DEF Deletes
<1>4. EC!Idle \in EvidenceRequests /\ EC!Idle \notin Resolves /\ EC!Idle.pc # "open"
  BY DEF EvidenceRequests, EC!Idle, Resolves
<1>5. analyses \in [Analyses -> {EC!NoRow} \union AnalysisRows]
  BY DEF EvidenceInv, EvidenceTypes
<1>6. /\ analyses' \in [Analyses -> {EC!NoRow} \union AnalysisRows]
      /\ \A z \in Analyses : z # q.stream => analyses'[z] = analyses[z]
      /\ analyses'[q.stream] = EC!NoRow
  BY <1>2, <1>3, <1>5
<1>7. ASSUME NEW f \in unsettled', NEW x \in Analyses, NEW y \in Analyses,
             Apart(analyses', x, y, f)
      PROVE  f \in unsettled /\ analyses'[x] = analyses[x] /\ analyses'[y] = analyses[y]
  <2>1. ~ EC!Exists(analyses'[q.stream])
    BY <1>6 DEF EC!Exists, EC!NoRow
  <2>2. \A z \in {x, y} : EC!Exists(analyses'[z])
    BY <1>7 DEF Apart, On
  <2> QED
    BY <1>2, <1>6, <1>7, <2>1, <2>2
<1> QED
  BY <1>1, <1>2, <1>4, <1>6, <1>7, AnalysisStep

(***************************************************************************)
(* A resolution settles its own fact and touches no other's conflicts.     *)
(***************************************************************************)
LEMMA ResolveKeeps ==
  ASSUME EvidenceInv, NEW r \in slots, slots' = slots, EC!ProjectResolved(r)
  PROVE  EvidenceInv'
<1>1. PICK q : q = req[r]
  OBVIOUS
<1>2. /\ q \in EvidenceRequests /\ q.pc = "project" /\ q.do = "resolve"
      /\ conflicts' = [conflicts EXCEPT ![q.stream] = q.row]
      /\ unsettled' = unsettled \ {q.row.fact}
      /\ req' = [req EXCEPT ![r] = EC!Idle]
      /\ UNCHANGED <<analyses, head>>
  BY <1>1 DEF EvidenceInv, EvidenceTypes, EC!ProjectResolved
<1>3. q \in Resolves
  BY <1>2, EvidenceKinds
<1>4. q.stream \in Conflicts /\ q.row \in ConflictRows
  BY <1>3 DEF Resolves
<1>5. /\ EC!Exists(conflicts[q.stream])
      /\ conflicts[q.stream].fact = q.row.fact
      /\ EC!Exists(q.row) /\ ~ q.row.open
  <2>1. Closes(conflicts, q)
    BY <1>1 DEF EvidenceInv, EvidenceTypes, Resolving
  <2> QED
    BY <1>3, <2>1 DEF Closes
<1>6. /\ r \in Slots
      /\ conflicts \in [Conflicts -> {EC!NoRow} \union ConflictRows]
      /\ req \in [Slots -> EvidenceRequests]
      /\ EC!Idle \in EvidenceRequests
      /\ EC!Idle \notin Resolves /\ EC!Idle \notin Writes /\ EC!Idle.pc # "open"
  BY DEF EvidenceInv, EvidenceTypes, EvidenceRequests, EC!Idle, Resolves, Writes
<1>7. /\ conflicts' \in [Conflicts -> {EC!NoRow} \union ConflictRows]
      /\ conflicts'[q.stream] = q.row
      /\ \A k \in Conflicts : k # q.stream => conflicts'[k] = conflicts[k]
  BY <1>2, <1>4, <1>6
<1>8. /\ req' \in [Slots -> EvidenceRequests]
      /\ req'[r] = EC!Idle
      /\ \A p \in Slots \ {r} : req'[p] = req[p]
  BY <1>2, <1>6
<1>9. EvidenceTypes'
  BY <1>2, <1>7, <1>8 DEF EvidenceInv, EvidenceTypes
<1>10. Resolving'
  <2>1. \A k \in Conflicts : EC!Exists(conflicts'[k]) => head[k] # 0
    BY <1>4, <1>5, <1>7 DEF EvidenceInv, Resolving
  <2>2. ASSUME NEW p \in Slots
        PROVE  Closes(conflicts', req'[p])
    <3>1. SUFFICES ASSUME req'[p] \in Resolves
                   PROVE  /\ EC!Exists(conflicts'[req'[p].stream])
                          /\ conflicts'[req'[p].stream].fact = req'[p].row.fact
                          /\ EC!Exists(req'[p].row) /\ ~ req'[p].row.open
      BY DEF Closes
    <3>2. p # r /\ req'[p] = req[p]
      BY <1>6, <1>8, <3>1
    <3>3. PICK t : t = req[p]
      OBVIOUS
    <3>4. t \in Resolves /\ Closes(conflicts, t)
      BY <3>1, <3>2, <3>3 DEF EvidenceInv, Resolving
    <3>5. /\ EC!Exists(conflicts[t.stream])
          /\ conflicts[t.stream].fact = t.row.fact /\ EC!Exists(t.row) /\ ~ t.row.open
          /\ t.stream \in Conflicts
      BY <3>4 DEF Closes, Resolves
    <3>6. CASE t.stream = q.stream
      BY <1>5, <1>7, <3>2, <3>3, <3>5, <3>6
    <3>7. CASE t.stream # q.stream
      BY <1>7, <3>2, <3>3, <3>5, <3>7
    <3> QED
      BY <3>6, <3>7
  <2> QED
    BY <1>2, <2>1, <2>2 DEF Resolving
<1>11. Attended'
  <2>1. ASSUME NEW f \in unsettled', NEW x \in Analyses, NEW y \in Analyses
        PROVE  Covered(analyses, conflicts', req', x, y, f)
    <3>1. f \in unsettled /\ f # q.row.fact
      BY <1>2, <2>1
    <3>2. HasOpen(conflicts, f) => HasOpen(conflicts', f)
      BY <1>5, <1>7, <3>1 DEF HasOpen
    <3>3. \A p \in Slots : Attends(analyses, req[p], x, y, f) => req'[p] = req[p]
      BY <1>1, <1>2, <1>8 DEF Attends
    <3>4. Covered(analyses, conflicts, req, x, y, f)
      BY <3>1 DEF EvidenceInv, Attended
    <3> QED
      BY <3>2, <3>3, <3>4 DEF Covered
  <2> QED
    BY <1>2, <2>1 DEF Attended
<1>12. Alone'
  <2>1. \A p \in Slots \ slots : req'[p] = EC!Idle
    BY <1>6, <1>8 DEF EvidenceInv, Alone
  <2>2. \A f : OpenIn(conflicts', f) \subseteq OpenIn(conflicts, f)
    BY <1>4, <1>5, <1>7 DEF OpenIn
  <2>3. \A f : HasOpen(conflicts', f) => HasOpen(conflicts, f)
    BY <1>4, <1>5, <1>7 DEF HasOpen
  <2>4. \A p \in Slots : req'[p].pc = "open" => req'[p] = req[p]
    BY <1>6, <1>8
  <2> QED
    BY <2>1, <2>2, <2>3, <2>4 DEF EvidenceInv, Alone
<1> QED
  BY <1>9, <1>10, <1>11, <1>12 DEF EvidenceInv

(***************************************************************************)
(* A conflict is opened under an id that no conflict has, for a fact that, *)
(* if requests come one by one, has none open.                             *)
(***************************************************************************)
LEMMA OpenKeeps ==
  ASSUME EvidenceInv, NEW r \in slots, slots' = slots, EC!OpenConflict(r)
  PROVE  EvidenceInv'
<1>1. PICK q : q = req[r]
  OBVIOUS
<1>2. PICK k \in Conflicts :
        /\ head[k] = 0
        /\ head' = [head EXCEPT ![k] = 1]
        /\ conflicts' =
             [conflicts EXCEPT ![k] = [version |-> 1, fact |-> q.row.fact, open |-> TRUE]]
  BY <1>1 DEF EC!OpenConflict
<1>3. /\ q \in EvidenceRequests /\ q.pc = "open"
      /\ req' = [req EXCEPT ![r] = EC!Idle]
      /\ UNCHANGED <<analyses, unsettled>>
  BY <1>1 DEF EvidenceInv, EvidenceTypes, EC!OpenConflict
<1>4. q \in Writes
  BY <1>3, EvidenceKinds
<1>5. PICK new : new = [version |-> 1, fact |-> q.row.fact, open |-> TRUE]
  OBVIOUS
<1>6. new \in ConflictRows /\ EC!Exists(new) /\ new.fact = q.row.fact /\ new.open
  <2>1. q.row.fact \in Facts
    BY <1>4 DEF Writes, AnalysisRows
  <2> QED
    BY <1>5, <2>1 DEF ConflictRows, EC!Exists
<1>7. /\ r \in Slots
      /\ conflicts \in [Conflicts -> {EC!NoRow} \union ConflictRows]
      /\ head \in [Analyses \union Conflicts -> Nat]
      /\ req \in [Slots -> EvidenceRequests]
      /\ EC!Idle \in EvidenceRequests
      /\ EC!Idle \notin Resolves /\ EC!Idle \notin Writes /\ EC!Idle.pc # "open"
  BY DEF EvidenceInv, EvidenceTypes, EvidenceRequests, EC!Idle, Resolves, Writes
<1>8. /\ conflicts' \in [Conflicts -> {EC!NoRow} \union ConflictRows]
      /\ conflicts'[k] = new
      /\ \A j \in Conflicts : j # k => conflicts'[j] = conflicts[j]
  BY <1>2, <1>5, <1>6, <1>7
<1>9. /\ head' \in [Analyses \union Conflicts -> Nat]
      /\ head'[k] = 1
      /\ \A j \in Conflicts : j # k => head'[j] = head[j]
  BY <1>2, <1>7
<1>10. /\ req' \in [Slots -> EvidenceRequests]
       /\ req'[r] = EC!Idle
       /\ \A p \in Slots \ {r} : req'[p] = req[p]
  BY <1>3, <1>7
<1>11. ~ EC!Exists(conflicts[k])
  BY <1>2 DEF EvidenceInv, Resolving
<1>12. EvidenceTypes'
  BY <1>3, <1>8, <1>9, <1>10 DEF EvidenceInv, EvidenceTypes
<1>13. Resolving'
  <2>1. \A j \in Conflicts : EC!Exists(conflicts'[j]) => head'[j] # 0
    BY <1>8, <1>9 DEF EvidenceInv, Resolving
  <2>2. ASSUME NEW p \in Slots
        PROVE  Closes(conflicts', req'[p])
    <3>1. CASE req'[p] \in Resolves
      <4>1. p # r /\ req'[p] = req[p]
        BY <1>7, <1>10, <3>1
      <4>2. PICK t : t = req[p]
        OBVIOUS
      <4>3. t \in Resolves /\ Closes(conflicts, t)
        BY <3>1, <4>1, <4>2 DEF EvidenceInv, Resolving
      <4>4. EC!Exists(conflicts[t.stream]) /\ t.stream \in Conflicts
        BY <4>3 DEF Closes, Resolves
      <4>5. conflicts'[t.stream] = conflicts[t.stream]
        BY <1>8, <1>11, <4>4
      <4> QED
        BY <4>1, <4>2, <4>3, <4>5 DEF Closes
    <3>2. CASE req'[p] \notin Resolves
      BY <3>2 DEF Closes
    <3> QED
      BY <3>1, <3>2
  <2> QED
    BY <2>1, <2>2 DEF Resolving
<1>14. Attended'
  <2>1. ASSUME NEW f \in unsettled, NEW x \in Analyses, NEW y \in Analyses
        PROVE  Covered(analyses, conflicts', req', x, y, f)
    <3>1. HasOpen(conflicts, f) => HasOpen(conflicts', f)
      BY <1>8, <1>11 DEF HasOpen
    <3>2. Attends(analyses, q, x, y, f) => HasOpen(conflicts', f)
      BY <1>6, <1>8 DEF Attends, HasOpen
    <3>3. \A p \in Slots : Attends(analyses, req[p], x, y, f) =>
            HasOpen(conflicts', f) \/ Attends(analyses, req'[p], x, y, f)
      BY <1>1, <1>10, <3>2
    <3>4. Covered(analyses, conflicts, req, x, y, f)
      BY DEF EvidenceInv, Attended
    <3> QED
      BY <3>1, <3>3, <3>4 DEF Covered
  <2> QED
    BY <1>3, <2>1 DEF Attended
<1>15. Alone'
  <2>1. \A p \in Slots \ slots : req'[p] = EC!Idle
    BY <1>10 DEF EvidenceInv, Alone
  <2>2. SUFFICES ASSUME \E p \in Slots : slots = {p}
                 PROVE  /\ \A f \in Facts : \A i, j \in OpenIn(conflicts', f) : i = j
                        /\ \A p \in Slots : req'[p].pc = "open"
                          => ~ HasOpen(conflicts', req'[p].row.fact)
    BY <2>1 DEF Alone
  <2>3. slots = {r}
    BY <2>2
  <2>4. ~ HasOpen(conflicts, q.row.fact)
    BY <1>1, <1>3, <1>7, <2>2 DEF EvidenceInv, Alone
  <2>5. ASSUME NEW f \in Facts, NEW i \in OpenIn(conflicts', f), NEW j \in OpenIn(conflicts', f)
        PROVE  i = j
    <3>1. CASE f = q.row.fact
      BY <1>8, <2>4, <2>5, <3>1 DEF OpenIn, HasOpen
    <3>2. CASE f # q.row.fact
      <4>1. i \in OpenIn(conflicts, f) /\ j \in OpenIn(conflicts, f)
        BY <1>6, <1>8, <2>5, <3>2 DEF OpenIn
      <4> QED
        BY <2>2, <4>1 DEF EvidenceInv, Alone
    <3> QED
      BY <3>1, <3>2
  <2>6. \A p \in Slots : req'[p].pc # "open"
    BY <1>7, <1>10, <2>1, <2>3
  <2> QED
    BY <2>5, <2>6
<1> QED
  BY <1>12, <1>13, <1>14, <1>15 DEF EvidenceInv

-----------------------------------------------------------------------------
(* The theorem.                                                            *)

(***************************************************************************)
(* The invariant holds throughout.                                         *)
(***************************************************************************)
LEMMA EvidenceInvariant ==
  ASSUME EC!SlotsInUse
  PROVE  EC!Spec => []EvidenceInv
<1>1. ASSUME EC!Init
      PROVE  EvidenceInv
  <2>1. /\ slots \subseteq Slots /\ IsFiniteSet(slots)
        /\ \A i \in Analyses : analyses[i] = EC!NoRow
        /\ \A k \in Conflicts : conflicts[k] = EC!NoRow
        /\ \A r \in Slots : req[r] = EC!Idle
        /\ unsettled = {}
    BY <1>1, SameSizes DEF EC!Init, EC!SlotsInUse
  <2>2. EvidenceTypes
    BY <1>1, <2>1 DEF EC!Init, EvidenceTypes, EvidenceRequests
  <2>3. ~ EC!Exists(EC!NoRow) /\ EC!Idle \notin Resolves /\ EC!Idle.pc # "open"
    BY DEF EC!Exists, EC!NoRow, EC!Idle, Resolves
  <2>4. Resolving
    BY <2>1, <2>3 DEF Resolving, Closes
  <2>5. Attended
    BY <2>1 DEF Attended
  <2>6. Alone
    BY <2>1, <2>3 DEF Alone, OpenIn
  <2> QED
    BY <2>2, <2>4, <2>5, <2>6 DEF EvidenceInv
<1>2. ASSUME EvidenceInv, [EC!Next]_(EC!vars)
      PROVE  EvidenceInv'
  <2>1. CASE EC!Next
    <3>1. slots' = slots
      BY <2>1 DEF EC!Next
    <3>2. PICK r \in slots : EC!Step(r)
      BY <2>1 DEF EC!Next
    <3> QED
      BY <1>2, <3>1, <3>2, EvidenceBeginKeeps, EvidenceAppendKeeps, AnalysisKeeps,
         EvidenceDeleteKeeps, ResolveKeeps,
         LookUpKeeps, OpenKeeps DEF EC!Step
  <2>2. CASE UNCHANGED EC!vars
    BY <1>2, <2>2 DEF EC!vars, EvidenceInv, EvidenceTypes, Resolving, Attended, Alone
  <2> QED
    BY <1>2, <2>1, <2>2
<1> QED
  BY <1>1, <1>2, PTL DEF EC!Spec

(***************************************************************************)
(* However requests race, once none is in flight a disagreement on a fact  *)
(* written to since its last resolution has an open conflict               *)
(* (detectEvidenceConflicts); and where requests come one by one a fact    *)
(* never has two open ones.                                                *)
(***************************************************************************)
THEOREM EvidenceDisagreement ==
  ASSUME EC!SlotsInUse
  PROVE  EC!Spec => []EC!DisagreementIsOpen
<1>1. ASSUME EvidenceInv
      PROVE  EC!DisagreementIsOpen
  <2>1. ASSUME EC!AtRest, NEW a \in Analyses, EC!Exists(analyses[a]),
               analyses[a].fact \in unsettled,
               EC!Disagreeing(a, analyses[a]) # {}
        PROVE  EC!OpenOf(analyses[a].fact) # {}
    <3>1. PICK b \in Analyses : Apart(analyses, a, b, analyses[a].fact)
      BY <2>1 DEF EC!Disagreeing, Apart, On
    <3>2. \A r \in Slots : ~ Attends(analyses, req[r], a, b, analyses[a].fact)
      BY <2>1 DEF EC!AtRest, Attends, EC!Idle, Writes
    <3>3. HasOpen(conflicts, analyses[a].fact)
      BY <1>1, <2>1, <3>1, <3>2 DEF EvidenceInv, Attended, Covered
    <3> QED
      BY <3>3 DEF HasOpen, EC!OpenOf
  <2>2. ASSUME Cardinality(slots) = 1, NEW f \in Facts
        PROVE  Cardinality(EC!OpenOf(f)) <= 1
    <3>1. PICK r : slots = {r}
      BY <1>1, <2>2, FS_Singleton DEF EvidenceInv, EvidenceTypes
    <3>2. r \in Slots
      BY <1>1, <3>1 DEF EvidenceInv, EvidenceTypes
    <3>3. \A i, j \in EC!OpenOf(f) : i = j
      BY <1>1, <3>1, <3>2 DEF EvidenceInv, Alone, OpenIn, EC!OpenOf
    <3>4. CASE EC!OpenOf(f) = {}
      BY <3>4, FS_EmptySet
    <3>5. CASE EC!OpenOf(f) # {}
      <4>1. PICK k \in EC!OpenOf(f) : TRUE
        BY <3>5
      <4>2. EC!OpenOf(f) = {k}
        BY <3>3, <4>1
      <4>3. Cardinality(EC!OpenOf(f)) = 1
        BY <4>2, FS_Singleton, Zenon
      <4> QED
        BY <4>3
    <3> QED
      BY <3>4, <3>5
  <2> QED
    BY <2>1, <2>2, SameSizes DEF EC!DisagreementIsOpen
<1> QED
  BY <1>1, EvidenceInvariant, PTL

-----------------------------------------------------------------------------
SourceRows   == [version : Nat, title : Titles, count : Int]
CitationRows == [version : Nat, source : Sources]
Heads        == [version : Nat, alive : BOOLEAN]
CountChanges == [source : Sources, delta : {-1, 1}]

\* Requests on sources, and the update that has read the row it will save.
SourceWrites ==
  [pc : {"append", "project"}, do : {"createSource", "updateSource"}, stream : Sources,
   expected : Int, arg : Titles, todo : {<<>>}]
SourceDeletes ==
  [pc : {"append", "project"}, do : {"deleteSource"}, stream : Sources,
   expected : Int, arg : Sources, todo : {<<>>}]
SourceSaves ==
  [pc : {"save"}, do : {"updateSource"}, stream : Sources, todo : {<<>>}, row : SourceRows]

\* Requests on citations, and those that have read a source's row.
CitationWrites ==
  [pc : {"append", "project", "count"}, do : {"createCitation", "moveCitation"},
   stream : Citations, expected : Int, arg : Sources, todo : Seq(CountChanges)]
CitationDeletes ==
  [pc : {"append", "project", "count"}, do : {"deleteCitation"},
   stream : Citations, expected : Int, arg : Citations, todo : Seq(CountChanges)]
WriteCounts ==
  [pc : {"count", "saveCount"}, do : {"createCitation", "moveCitation"},
   stream : Citations, expected : Int, arg : Sources, todo : Seq(CountChanges), row : SourceRows]
DeleteCounts ==
  [pc : {"count", "saveCount"}, do : {"deleteCitation"},
   stream : Citations, expected : Int, arg : Citations, todo : Seq(CountChanges), row : SourceRows]

OnSources   == SourceWrites \union SourceDeletes \union SourceSaves
Placing     == CitationWrites \union WriteCounts
OnCitations == Placing \union CitationDeletes \union DeleteCounts

SourceRequests == {SC!Idle} \union OnSources \union OnCitations

\* Of the citations that have a row there are finitely many.
SourceTypes ==
  /\ setting.slots \subseteq Slots /\ IsFiniteSet(setting.slots)
  /\ sources \in [Sources -> {SC!NoRow} \union SourceRows]
  /\ citations \in [Citations -> {SC!NoRow} \union CitationRows]
  /\ IsFiniteSet({c \in Citations : SC!Exists(citations[c])})
  /\ head \in [Sources \union Citations -> Heads]
  /\ req \in [Slots -> SourceRequests]
  /\ \A r \in Slots \ setting.slots : req[r] = SC!Idle

-----------------------------------------------------------------------------
(* However requests race.                                                  *)

\* The version is of an event of the stream h, and not of one that ended it.
Behind(v, h) == v > 0 /\ v <= h.version /\ (v = h.version => h.alive)

Ended(h) == h.version > 0 /\ ~h.alive

Creates == {"createSource", "createCitation"}

\* What a request holds of streams and sources.
Stands(q, hs, rs) ==
  /\ q.pc = "append" /\ q.do \in Creates => q.expected = -1 /\ hs[q.stream].version = 0
  /\ q.pc = "append" /\ q.do \notin Creates =>
       q.expected > 0 /\ q.expected <= hs[q.stream].version
  /\ q.pc = "append" /\ q.do \in {"updateSource", "deleteSource"} =>
       Behind(q.expected, hs[q.stream])
  /\ q.pc = "project" => q.expected > 0
  /\ q.pc = "project" /\ q.do \in {"createSource", "updateSource"} =>
       Behind(q.expected, hs[q.stream])
  /\ q.pc = "project" /\ q.do = "deleteSource" => Ended(hs[q.stream])
  /\ q.pc = "save" => Behind(q.row.version, hs[q.stream])
  /\ q.pc = "saveCount" => q.todo # <<>> /\ Behind(q.row.version, hs[q.todo[1].source])
  /\ q \in Placing => SC!Exists(rs[q.arg]) \/ Ended(hs[q.arg])

\* Nobody else has the id of a stream that is to begin.
AloneOnStream(rq, r) ==
  rq[r].pc = "append" /\ rq[r].do \in Creates =>
    \A p \in Slots \ {r} : rq[p] = SC!Idle \/ rq[p].stream # rq[r].stream

RowsStand == \A s \in Sources : SC!Exists(sources[s]) => Behind(sources[s].version, head[s])

RequestsStand ==
  \A r \in Slots : req[r] # SC!Idle => Stands(req[r], head, sources) /\ AloneOnStream(req, r)

\* The request has yet to write the row of the citation c.
Pending(q, c) ==
  /\ q.pc \in {"project", "count", "saveCount"} /\ q.stream = c
  /\ q.do = "createCitation" => q.pc = "project"

\* In the SQL stores a source that is gone may have cost a citation its row.
Excused(store, hs) == store = "sql" /\ \E s \in Sources : Ended(hs[s])

Follows(c, rs, hs, rq, store) ==
  /\ rs[c].version <= hs[c].version
  /\ \A r \in Slots : Pending(rq[r], c) =>
       /\ rq[r].expected = hs[c].version /\ rs[c].version < hs[c].version
       /\ hs[c].alive <=> rq[r].do # "deleteCitation"
       /\ rq[r].do # "createCitation" => SC!Exists(rs[c])
       /\ \A p \in Slots : Pending(rq[p], c) => p = r
  /\ (\A r \in Slots : ~Pending(rq[r], c)) =>
       Excused(store, hs) \/ rs[c].version = IF hs[c].alive THEN hs[c].version ELSE 0
  /\ \A r \in Slots :
       rq[r].pc = "append" /\ rq[r].stream = c /\ rq[r].expected = hs[c].version =>
         rs[c].version = hs[c].version

CitationsFollow == \A c \in Citations : Follows(c, citations, head, req, setting.store)

-----------------------------------------------------------------------------
(* One request at a time.                                                  *)

Citing(cs, s) == {c \in Citations : SC!Exists(cs[c]) /\ cs[c].source = s}

Is(s, t) == IF s = t THEN 1 ELSE 0
Cites(w, s) == IF SC!Exists(w) /\ w.source = s THEN 1 ELSE 0

\* What the request is to change about the count of s, and has yet to.
Due(q, from, s) ==
  CASE q.do = "moveCitation"   -> Is(s, q.arg) - Is(s, from)
    [] q.do = "deleteCitation" -> -Is(s, from)
    [] OTHER                   -> 0
Left(todo, s) ==
  (IF Len(todo) > 0 /\ todo[1].source = s THEN todo[1].delta ELSE 0)
    + (IF Len(todo) > 1 /\ todo[2].source = s THEN todo[2].delta ELSE 0)

Counting(q) == q.pc \in {"count", "saveCount"}

Ahead(q, from, s) == Due(q, from, s) - Left(q.todo, s)

\* What a request may have left to do.
Todos(q, from) ==
  CASE q.do = "createCitation" -> {<<>>, <<SC!CountChange(q.arg, 1)>>}
    [] q.do = "deleteCitation" -> {<<>>, <<SC!CountChange(from, -1)>>}
    [] q.do = "moveCitation" ->
         {<<>>} \union
         (IF from = q.arg THEN {}
          ELSE {<<SC!CountChange(q.arg, 1)>>,
                <<SC!CountChange(from, -1), SC!CountChange(q.arg, 1)>>})

KeysHold(rs, cs) == \A c \in Citations : SC!Exists(cs[c]) => SC!Exists(rs[cs[c].source])

Prepared(q, rs, cs) ==
  /\ q \in SourceDeletes => Citing(cs, q.stream) = {}
  /\ q \in SourceWrites /\ q.do = "createSource" => ~SC!Exists(rs[q.stream])
  /\ q \in SourceSaves => SC!Exists(rs[q.stream]) /\ q.row.count = rs[q.stream].count
  /\ q \in Placing => SC!Exists(rs[q.arg])
  /\ q \in CitationWrites /\ q.do = "createCitation" /\ ~Counting(q) => ~SC!Exists(cs[q.stream])
  /\ Counting(q) =>
       /\ SC!Exists(cs[q.stream])
       /\ q.do = "createCitation" => cs[q.stream].source = q.arg
       /\ q.todo \in Todos(q, cs[q.stream].source)
  /\ q.pc = "saveCount" => q.row.count = rs[q.todo[1].source].count + q.todo[1].delta

Counted(q, rs, cs) ==
  \A s \in Sources : SC!Exists(rs[s]) =>
    rs[s].count = IF Counting(q)
                  THEN Cardinality(Citing(cs, s)) + Ahead(q, cs[q.stream].source, s)
                  ELSE Cardinality(Citing(cs, s))

Tallied(q) ==
  KeysHold(sources, citations) /\ Prepared(q, sources, citations) /\ Counted(q, sources, citations)

CountsTally == \A r \in Slots : setting.slots = {r} => Tallied(req[r])

RaceInv == SourceTypes /\ RowsStand /\ RequestsStand /\ CitationsFollow

-----------------------------------------------------------------------------
(* What requests are.                                                      *)

(***************************************************************************)
(* What a request is, by the place it has come to and what it does.        *)
(***************************************************************************)
LEMMA SourceKinds ==
  ASSUME NEW q \in SourceRequests
  PROVE  /\ q = SC!Idle <=> q.pc = "idle"
         /\ q.pc = "append"
           => q \in SourceWrites \union SourceDeletes \union CitationWrites \union CitationDeletes
         /\ q.pc = "project"
           => q \in SourceWrites \union SourceDeletes \union CitationWrites \union CitationDeletes
         /\ q.pc = "save" => q \in SourceSaves
         /\ q.pc = "count" => q \in OnCitations
         /\ q.pc = "saveCount" => q \in WriteCounts \union DeleteCounts
         /\ q \in SourceWrites => q.do \in {"createSource", "updateSource"}
           /\ q.stream \in Sources /\ q \notin OnCitations
         /\ q \in SourceDeletes
           => q.do = "deleteSource" /\ q.stream \in Sources /\ q \notin OnCitations
         /\ q \in SourceSaves => q.pc = "save" /\ q.do = "updateSource" /\ q.stream \in Sources
         /\ q \in OnCitations => q.stream \in Citations
           /\ q.do \in {"createCitation", "moveCitation", "deleteCitation"}
                                   /\ q.expected \in Int /\ q.todo \in Seq(CountChanges)
         /\ q \in Placing <=> q \in OnCitations /\ q.do \in {"createCitation", "moveCitation"}
         /\ q \in Placing => q.arg \in Sources
<1> USE DEF SourceRequests, OnSources, OnCitations, Placing, SourceWrites, SourceDeletes,
        SourceSaves,
            CitationWrites, CitationDeletes, WriteCounts, DeleteCounts, SC!Idle
<1>1. /\ q = SC!Idle <=> q.pc = "idle"
      /\ q.pc = "append"
        => q \in SourceWrites \union SourceDeletes \union CitationWrites \union CitationDeletes
      /\ q.pc = "project"
        => q \in SourceWrites \union SourceDeletes \union CitationWrites \union CitationDeletes
  OBVIOUS
<1>2. /\ q.pc = "save" => q \in SourceSaves
      /\ q.pc = "count" => q \in OnCitations
      /\ q.pc = "saveCount" => q \in WriteCounts \union DeleteCounts
  OBVIOUS
<1>3. /\ q \in SourceWrites => q.do \in {"createSource", "updateSource"}
        /\ q.stream \in Sources /\ q \notin OnCitations
      /\ q \in SourceDeletes
        => q.do = "deleteSource" /\ q.stream \in Sources /\ q \notin OnCitations
      /\ q \in SourceSaves => q.pc = "save" /\ q.do = "updateSource" /\ q.stream \in Sources
  OBVIOUS
<1>4. /\ q \in OnCitations
        => q.stream \in Citations /\ q.do \in {"createCitation", "moveCitation", "deleteCitation"}
                                   /\ q.expected \in Int /\ q.todo \in Seq(CountChanges)
      /\ q \in Placing <=> q \in OnCitations /\ q.do \in {"createCitation", "moveCitation"}
      /\ q \in Placing => q.arg \in Sources
  OBVIOUS
<1> QED
  BY <1>1, <1>2, <1>3, <1>4

-----------------------------------------------------------------------------
(* What a step leaves as it was.                                           *)

\* A stream is as it was, or has one event more; a source's does not go on
\* after its end.
Grown(hs, hs2, i) ==
  \/ hs2[i] = hs[i]
  \/ hs2[i].version = hs[i].version + 1 /\ (i \in Sources => ~Ended(hs[i]))

(***************************************************************************)
(* Streams that grow keep what is behind them behind, and an end an end.   *)
(***************************************************************************)
LEMMA GrownKeeps ==
  ASSUME NEW hs \in [Sources \union Citations -> Heads],
         NEW hs2 \in [Sources \union Citations -> Heads],
         NEW i \in Sources \union Citations, Grown(hs, hs2, i), NEW v \in Int
  PROVE  /\ Behind(v, hs[i]) => Behind(v, hs2[i])
         /\ i \in Sources /\ Ended(hs[i]) => Ended(hs2[i])
         /\ v <= hs[i].version => v <= hs2[i].version
<1>1. hs[i] \in Heads /\ hs2[i] \in Heads
  OBVIOUS
<1> QED
  BY <1>1 DEF Grown, Behind, Ended, Heads

(***************************************************************************)
(* A request stands as streams grow and sources keep their rows until they *)
(* end.                                                                    *)
(***************************************************************************)
LEMMA StandsStill ==
  ASSUME NEW hs \in [Sources \union Citations -> Heads],
         NEW hs2 \in [Sources \union Citations -> Heads],
         \A i \in Sources \union Citations : Grown(hs, hs2, i),
         NEW rs, NEW rs2,
         \A s \in Sources : SC!Exists(rs[s]) => SC!Exists(rs2[s]) \/ Ended(hs2[s]),
         NEW q \in SourceRequests, q # SC!Idle, Stands(q, hs, rs),
         q.pc = "append" /\ q.do \in Creates => hs2[q.stream] = hs[q.stream]
  PROVE  Stands(q, hs2, rs2)
<1>1. q.stream \in Sources \union Citations
  BY DEF SourceRequests, OnSources, OnCitations, Placing, SourceWrites, SourceDeletes, SourceSaves,
         CitationWrites, CitationDeletes, WriteCounts, DeleteCounts
<1>2. q.pc \in {"append", "project"} => q.expected \in Int
  BY DEF SourceRequests, OnSources, OnCitations, Placing, SourceWrites, SourceDeletes, SourceSaves,
         CitationWrites, CitationDeletes, WriteCounts, DeleteCounts, SC!Idle
<1>3. q.pc = "append" =>
        /\ q.do \notin Creates => q.expected > 0 /\ q.expected <= hs2[q.stream].version
        /\ q.do \in {"updateSource", "deleteSource"} => Behind(q.expected, hs2[q.stream])
        /\ q.do \in Creates => q.expected = -1 /\ hs2[q.stream].version = 0
  BY <1>1, <1>2, GrownKeeps DEF Stands
<1>4. q.pc = "project" =>
        /\ q.expected > 0
        /\ q.do \in {"createSource", "updateSource"} => Behind(q.expected, hs2[q.stream])
        /\ q.do = "deleteSource" => Ended(hs2[q.stream])
  <2>1. q.pc = "project" /\ q.do = "deleteSource" => q.stream \in Sources
    BY SourceKinds DEF OnCitations, Placing
  <2> QED
    BY <1>1, <1>2, <2>1, GrownKeeps DEF Stands
<1>5. q.pc = "save" => Behind(q.row.version, hs2[q.stream])
  <2>1. q.pc = "save" => q.row.version \in Int
    BY SourceKinds DEF SourceSaves, SourceRows
  <2> QED
    BY <1>1, <2>1, GrownKeeps DEF Stands
<1>6. q.pc = "saveCount" => q.todo # <<>> /\ Behind(q.row.version, hs2[q.todo[1].source])
  <2> SUFFICES ASSUME q.pc = "saveCount" PROVE q.todo # <<>> /\ Behind(q.row.version,
                      hs2[q.todo[1].source])
    OBVIOUS
  <2>1. q.todo \in Seq(CountChanges) /\ q.row.version \in Int /\ q.todo # <<>>
    BY SourceKinds DEF WriteCounts, DeleteCounts, SourceRows, Stands
  <2>2. q.todo[1] \in CountChanges
    BY <2>1
  <2>3. q.todo[1].source \in Sources
    BY <2>2 DEF CountChanges
  <2> QED
    BY <2>1, <2>3, GrownKeeps DEF Stands
<1>7. q \in Placing => SC!Exists(rs2[q.arg]) \/ Ended(hs2[q.arg])
  <2>1. q \in Placing => q.arg \in Sources
    BY SourceKinds
  <2> QED
    BY <2>1, GrownKeeps, 0 \in Int DEF Stands
<1> QED
  BY <1>3, <1>4, <1>5, <1>6, <1>7 DEF Stands

(***************************************************************************)
(* A citation follows its stream as before when neither is changed, the    *)
(* request that steps is to write the row as it was before, and does not   *)
(* expect what the row is not at.                                          *)
(***************************************************************************)
LEMMA FollowsStill ==
  ASSUME NEW c \in Citations, NEW cs, NEW cs2, NEW hs, NEW hs2, NEW rq, NEW rq2, NEW store,
         NEW r \in Slots, Follows(c, cs, hs, rq, store), cs2[c] = cs[c], hs2[c] = hs[c],
         Excused(store, hs) => Excused(store, hs2),
         \A p \in Slots \ {r} : rq2[p] = rq[p],
         Pending(rq2[r], c) <=> Pending(rq[r], c),
         Pending(rq[r], c) => rq2[r].expected = rq[r].expected /\ rq2[r].do = rq[r].do,
         rq2[r].pc = "append" /\ rq2[r].stream = c /\ rq2[r].expected = hs[c].version =>
           cs[c].version = hs[c].version
  PROVE  Follows(c, cs2, hs2, rq2, store)
<1>1. \A p \in Slots : Pending(rq2[p], c) <=> Pending(rq[p], c)
  OBVIOUS
<1>2. \A p \in Slots : Pending(rq[p], c) => rq2[p].expected = rq[p].expected /\ rq2[p].do = rq[p].do
  OBVIOUS
<1>3. ASSUME NEW p \in Slots, Pending(rq2[p], c)
      PROVE  /\ rq2[p].expected = hs2[c].version /\ cs2[c].version < hs2[c].version
             /\ hs2[c].alive <=> rq2[p].do # "deleteCitation"
             /\ rq2[p].do # "createCitation" => SC!Exists(cs2[c])
             /\ \A o \in Slots : Pending(rq2[o], c) => o = p
  BY <1>1, <1>2, <1>3 DEF Follows
<1>4. (\A p \in Slots : ~Pending(rq2[p], c)) =>
        Excused(store, hs2) \/ cs2[c].version = IF hs2[c].alive THEN hs2[c].version ELSE 0
  BY <1>1 DEF Follows
<1>5. ASSUME NEW p \in Slots, rq2[p].pc = "append", rq2[p].stream = c,
             rq2[p].expected = hs2[c].version
      PROVE  cs2[c].version = hs2[c].version
  BY <1>5 DEF Follows
<1>6. cs2[c].version <= hs2[c].version
  BY DEF Follows
<1> QED
  BY <1>3, <1>4, <1>5, <1>6 DEF Follows

(***************************************************************************)
(* So does a citation whose row the request that steps was not to write    *)
(* and is not to write, when it appends nothing next.                      *)
(***************************************************************************)
LEMMA FollowsAside ==
  ASSUME NEW c \in Citations, NEW cs, NEW cs2, NEW hs, NEW rq, NEW rq2, NEW store,
         NEW r \in Slots, Follows(c, cs, hs, rq, store), cs2[c] = cs[c],
         \A p \in Slots \ {r} : rq2[p] = rq[p],
         ~Pending(rq[r], c), ~Pending(rq2[r], c), rq2[r].pc # "append"
  PROVE  Follows(c, cs2, hs, rq2, store)
BY FollowsStill

(***************************************************************************)
(* A step of one request that changes no stream and no citation's row, and *)
(* takes a source's row only once its stream has ended, keeps what holds   *)
(* however requests race.                                                  *)
(***************************************************************************)
LEMMA QuietRace ==
  ASSUME RaceInv, NEW r \in setting.slots, NEW v \in SourceRequests, v.pc # "append",
         setting' = setting, req' = [req EXCEPT ![r] = v], UNCHANGED <<citations, head>>,
         sources' \in [Sources -> {SC!NoRow} \union SourceRows],
         \A s \in Sources : SC!Exists(sources'[s]) => Behind(sources'[s].version, head[s]),
         \A s \in Sources : SC!Exists(sources[s]) => SC!Exists(sources'[s]) \/ Ended(head[s]),
         v # SC!Idle => req[r] # SC!Idle /\ v.stream = req[r].stream /\ Stands(v, head, sources'),
         \A c \in Citations :
           /\ Pending(v, c) <=> Pending(req[r], c)
           /\ Pending(v, c) => v.expected = req[r].expected /\ v.do = req[r].do
  PROVE  RaceInv'
<1>1. /\ r \in Slots /\ req'[r] = v
      /\ \A p \in Slots \ {r} : req'[p] = req[p]
      /\ req' \in [Slots -> SourceRequests]
      /\ head \in [Sources \union Citations -> Heads]
  BY DEF RaceInv, SourceTypes
<1>2. SourceTypes'
  BY <1>1 DEF RaceInv, SourceTypes
<1>3. RowsStand'
  BY DEF RowsStand
<1>4. RequestsStand'
  <2> SUFFICES ASSUME NEW p \in Slots, req'[p] # SC!Idle
               PROVE  Stands(req'[p], head, sources') /\ AloneOnStream(req', p)
    BY DEF RequestsStand
  <2>1. CASE p = r
    BY <1>1, <2>1 DEF AloneOnStream
  <2>2. CASE p # r
    <3>1. req'[p] = req[p] /\ req[p] \in SourceRequests /\ req[p] # SC!Idle
      BY <1>1, <2>2 DEF RaceInv, SourceTypes
    <3>2. Stands(req[p], head, sources) /\ AloneOnStream(req, p)
      BY <3>1 DEF RaceInv, RequestsStand
    <3>3. Stands(req[p], head, sources')
      BY <1>1, <3>1, <3>2, StandsStill DEF Grown
    <3>4. v = SC!Idle \/ (req[r] # SC!Idle /\ v.stream = req[r].stream) => AloneOnStream(req', p)
      BY <1>1, <2>2, <3>1, <3>2 DEF AloneOnStream
    <3> QED
      BY <3>1, <3>3, <3>4
  <2> QED
    BY <2>1, <2>2
<1>5. CitationsFollow'
  <2> SUFFICES ASSUME NEW c \in Citations
               PROVE  Follows(c, citations', head', req', setting.store)
    BY DEF CitationsFollow
  <2>1. Follows(c, citations, head, req, setting.store)
    BY DEF RaceInv, CitationsFollow
  <2> QED
    BY <1>1, <2>1, FollowsStill
<1> QED
  BY <1>2, <1>3, <1>4, <1>5 DEF RaceInv

-----------------------------------------------------------------------------
(* Requests that race: one lemma to a step.                                *)

(***************************************************************************)
(* A request begins.                                                       *)
(***************************************************************************)
LEMMA DecideRace ==
  ASSUME RaceInv, NEW r \in setting.slots, setting' = setting,
         NEW do, NEW stream, NEW expected, NEW arg, NEW v \in SourceRequests,
         v = [pc |-> "append", do |-> do, stream |-> stream,
              expected |-> expected, arg |-> arg, todo |-> <<>>],
         SC!Decide(r, do, stream, expected, arg),
         Stands(v, head, sources),
         do \in Creates => \A p \in Slots : req[p] # SC!Idle => req[p].stream # stream,
         do \notin Creates => head[stream].version # 0,
         \A c \in Citations :
           stream = c /\ expected = head[c].version => citations[c].version = head[c].version
  PROVE  RaceInv'
<1>1. /\ v.pc = "append" /\ v.do = do /\ v.stream = stream /\ v.expected = expected
      /\ v # SC!Idle /\ req[r] = SC!Idle /\ req[r].pc = "idle"
      /\ req' = [req EXCEPT ![r] = v]
      /\ UNCHANGED <<sources, citations, head>>
  BY DEF SC!Decide, SC!Idle
<1>2. /\ r \in Slots /\ req'[r] = v
      /\ \A p \in Slots \ {r} : req'[p] = req[p]
      /\ req' \in [Slots -> SourceRequests]
  BY <1>1 DEF RaceInv, SourceTypes
<1>3. SourceTypes'
  BY <1>1, <1>2 DEF RaceInv, SourceTypes
<1>4. RowsStand'
  BY <1>1 DEF RaceInv, RowsStand
<1>5. RequestsStand'
  <2> SUFFICES ASSUME NEW p \in Slots, req'[p] # SC!Idle
               PROVE  Stands(req'[p], head, sources) /\ AloneOnStream(req', p)
    BY <1>1 DEF RequestsStand
  <2>1. CASE p = r
    BY <1>1, <1>2, <2>1 DEF AloneOnStream
  <2>2. CASE p # r
    <3>1. req'[p] = req[p] /\ Stands(req[p], head, sources) /\ AloneOnStream(req, p)
      BY <1>2, <2>2 DEF RaceInv, RequestsStand
    <3>2. req[p].pc = "append" /\ req[p].do \in Creates => req[p].stream # stream
      BY <1>2, <2>2, <3>1 DEF Stands
    <3> QED
      BY <1>1, <1>2, <2>2, <3>1, <3>2 DEF AloneOnStream
  <2> QED
    BY <2>1, <2>2
<1>6. CitationsFollow'
  <2> SUFFICES ASSUME NEW c \in Citations
               PROVE  Follows(c, citations, head, req', setting.store)
    BY <1>1 DEF CitationsFollow
  <2>1. Follows(c, citations, head, req, setting.store)
    BY DEF RaceInv, CitationsFollow
  <2>2. ~Pending(v, c) /\ ~Pending(req[r], c)
    BY <1>1 DEF Pending
  <2> QED
    BY <1>1, <1>2, <2>1, <2>2, FollowsStill
<1> QED
  BY <1>3, <1>4, <1>5, <1>6 DEF RaceInv

\* The six requests.
Begins(r) ==
  \/ SC!CreateSource(r) \/ SC!UpdateSource(r) \/ SC!DeleteSource(r)
  \/ SC!CreateCitation(r) \/ SC!MoveCitation(r) \/ SC!DeleteCitation(r)

(***************************************************************************)
(* Whatever a request is for, it begins with what stands: a new id's       *)
(* stream is empty, and a row's version is one of its stream.              *)
(***************************************************************************)
LEMMA BeginRace ==
  ASSUME RaceInv, SC!IdsApart, NEW r \in setting.slots, setting' = setting, Begins(r)
  PROVE  RaceInv'
<1>1. /\ \A s \in Sources : SC!Exists(sources[s]) => Behind(sources[s].version, head[s])
      /\ \A s \in Sources : sources[s] \in {SC!NoRow} \union SourceRows
      /\ \A c \in Citations : citations[c].version <= head[c].version
      /\ \A c \in Citations : citations[c] \in {SC!NoRow} \union CitationRows
      /\ \A i \in Sources \union Citations : head[i] \in Heads
      /\ r \in Slots
  BY DEF RaceInv, RowsStand, SourceTypes, CitationsFollow, Follows
<1>2. \A s \in Sources : sources[s].version \in Int /\ head[s].version \in Int
  BY <1>1 DEF SC!NoRow, SourceRows, Heads
<1>3. \A c \in Citations : citations[c].version \in Int /\ head[c].version \in Int
  BY <1>1 DEF SC!NoRow, CitationRows, Heads
<1>4. CASE SC!CreateSource(r)
  <2>1. PICK s \in Sources, t \in Titles : SC!Fresh(s) /\ SC!Decide(r, "createSource", s, -1, t)
    BY <1>4 DEF SC!CreateSource
  <2>2. PICK v : v = [pc |-> "append", do |-> "createSource", stream |-> s,
                      expected |-> -1, arg |-> t, todo |-> <<>>]
    OBVIOUS
  <2>3. v \in SourceWrites
    BY <2>2 DEF SourceWrites
  <2>4. v \in SourceRequests /\ v \notin Placing
    BY <2>3, SourceKinds DEF SourceRequests, OnSources
  <2>5. Stands(v, head, sources)
    BY <2>1, <2>2, <2>4 DEF Stands, Creates, SC!Fresh
  <2> QED
    BY <2>1, <2>2, <2>4, <2>5, DecideRace DEF SC!Fresh, Creates, SC!IdsApart
<1>5. CASE SC!UpdateSource(r)
  <2>1. PICK s \in Sources, t \in Titles :
          SC!Exists(sources[s]) /\ SC!Decide(r, "updateSource", s, sources[s].version, t)
    BY <1>5 DEF SC!UpdateSource, SC!RowVersion
  <2>2. PICK v : v = [pc |-> "append", do |-> "updateSource", stream |-> s,
                      expected |-> sources[s].version, arg |-> t, todo |-> <<>>]
    OBVIOUS
  <2>3. v \in SourceWrites
    BY <1>2, <2>2 DEF SourceWrites
  <2>4. v \in SourceRequests /\ v \notin Placing
    BY <2>3, SourceKinds DEF SourceRequests, OnSources
  <2>5. Behind(sources[s].version, head[s])
    BY <1>1, <2>1
  <2>6. Stands(v, head, sources)
    BY <2>2, <2>4, <2>5 DEF Stands, Creates, Behind
  <2>7. head[s].version # 0
    BY <1>2, <2>5 DEF Behind
  <2> QED
    BY <2>1, <2>2, <2>4, <2>6, <2>7, DecideRace DEF Creates, SC!IdsApart
<1>6. CASE SC!DeleteSource(r)
  <2>1. PICK s \in Sources :
          SC!Exists(sources[s]) /\ SC!Decide(r, "deleteSource", s, sources[s].version, s)
    BY <1>6 DEF SC!DeleteSource, SC!RowVersion
  <2>2. PICK v : v = [pc |-> "append", do |-> "deleteSource", stream |-> s,
                      expected |-> sources[s].version, arg |-> s, todo |-> <<>>]
    OBVIOUS
  <2>3. v \in SourceDeletes
    BY <1>2, <2>2 DEF SourceDeletes
  <2>4. v \in SourceRequests /\ v \notin Placing
    BY <2>3, SourceKinds DEF SourceRequests, OnSources
  <2>5. Behind(sources[s].version, head[s])
    BY <1>1, <2>1
  <2>6. Stands(v, head, sources)
    BY <2>2, <2>4, <2>5 DEF Stands, Creates, Behind
  <2>7. head[s].version # 0
    BY <1>2, <2>5 DEF Behind
  <2> QED
    BY <2>1, <2>2, <2>4, <2>6, <2>7, DecideRace DEF Creates, SC!IdsApart
<1>7. CASE SC!CreateCitation(r)
  <2>1. PICK c \in Citations, s \in Sources :
          /\ SC!Fresh(c) /\ SC!Exists(sources[s])
          /\ SC!Decide(r, "createCitation", c, -1, s)
    BY <1>7 DEF SC!CreateCitation
  <2>2. PICK v : v = [pc |-> "append", do |-> "createCitation", stream |-> c,
                      expected |-> -1, arg |-> s, todo |-> <<>>]
    OBVIOUS
  <2>3. v \in CitationWrites
    BY <2>2 DEF CitationWrites
  <2>4. v \in SourceRequests
    BY <2>3 DEF SourceRequests, OnCitations, Placing
  <2>5. Stands(v, head, sources)
    BY <2>1, <2>2 DEF Stands, Creates, SC!Fresh
  <2>6. head[c].version = 0
    BY <2>1 DEF SC!Fresh
  <2> QED
    BY <2>1, <2>2, <2>4, <2>5, <2>6, DecideRace DEF SC!Fresh, Creates
<1>8. CASE SC!MoveCitation(r)
  <2>1. PICK c \in Citations, s \in Sources :
          /\ SC!Exists(citations[c]) /\ SC!Exists(sources[s])
          /\ SC!Decide(r, "moveCitation", c, citations[c].version, s)
    BY <1>8 DEF SC!MoveCitation, SC!RowVersion
  <2>2. PICK v : v = [pc |-> "append", do |-> "moveCitation", stream |-> c,
                      expected |-> citations[c].version, arg |-> s, todo |-> <<>>]
    OBVIOUS
  <2>3. v \in CitationWrites
    BY <1>3, <2>2 DEF CitationWrites
  <2>4. v \in SourceRequests
    BY <2>3 DEF SourceRequests, OnCitations, Placing
  <2>5. citations[c].version > 0 /\ citations[c].version <= head[c].version
    BY <1>1, <2>1 DEF SC!Exists
  <2>6. Stands(v, head, sources)
    BY <2>1, <2>2, <2>5 DEF Stands, Creates
  <2>7. head[c].version # 0
    BY <1>3, <2>5
  <2> QED
    BY <2>1, <2>2, <2>4, <2>6, <2>7, DecideRace DEF Creates
<1>9. CASE SC!DeleteCitation(r)
  <2>1. PICK c \in Citations :
          /\ SC!Exists(citations[c])
          /\ SC!Decide(r, "deleteCitation", c, citations[c].version, c)
    BY <1>9 DEF SC!DeleteCitation, SC!RowVersion
  <2>2. PICK v : v = [pc |-> "append", do |-> "deleteCitation", stream |-> c,
                      expected |-> citations[c].version, arg |-> c, todo |-> <<>>]
    OBVIOUS
  <2>3. v \in CitationDeletes
    BY <1>3, <2>2 DEF CitationDeletes
  <2>4. v \in SourceRequests /\ v \notin Placing
    <3>1. v.do = "deleteCitation"
      BY <2>2
    <3> QED
      BY <2>3, <3>1, SourceKinds DEF SourceRequests, OnCitations
  <2>5. citations[c].version > 0 /\ citations[c].version <= head[c].version
    BY <1>1, <2>1 DEF SC!Exists
  <2>6. Stands(v, head, sources)
    BY <2>1, <2>2, <2>4, <2>5 DEF Stands, Creates
  <2>7. head[c].version # 0
    BY <1>3, <2>5
  <2> QED
    BY <2>1, <2>2, <2>4, <2>6, <2>7, DecideRace DEF Creates
<1> QED
  BY <1>4, <1>5, <1>6, <1>7, <1>8, <1>9 DEF Begins

(***************************************************************************)
(* An append is accepted from where the stream is, so the request is the   *)
(* only one that is to write a row for it; a refused one ends the request. *)
(***************************************************************************)
LEMMA AppendRace ==
  ASSUME RaceInv, SC!IdsApart, NEW r \in setting.slots, setting' = setting, SC!AppendEvent(r)
  PROVE  RaceInv'
<1>1. PICK q : q = req[r]
  OBVIOUS
<1>2. PICK h : h = head[q.stream]
  OBVIOUS
<1>3. /\ r \in Slots /\ q \in SourceRequests /\ q.pc = "append" /\ q # SC!Idle
      /\ UNCHANGED <<sources, citations>>
  BY <1>1, SourceKinds DEF RaceInv, SourceTypes, SC!AppendEvent, SC!Idle
<1>4. q \in SourceWrites \union SourceDeletes \union CitationWrites \union CitationDeletes
  BY <1>3, SourceKinds
<1>5. q.stream \in Sources \union Citations /\ q.expected \in Int
  BY <1>4 DEF SourceWrites, SourceDeletes, CitationWrites, CitationDeletes
<1>6. h \in Heads /\ head \in [Sources \union Citations -> Heads]
  BY <1>2, <1>5 DEF RaceInv, SourceTypes
<1>7. Stands(q, head, sources) /\ AloneOnStream(req, r)
  BY <1>1, <1>3 DEF RaceInv, RequestsStand
<1>8. CASE ~SC!Accepted(r)
  <2>1. req' = [req EXCEPT ![r] = SC!Idle] /\ UNCHANGED <<citations, head>>
    BY <1>8 DEF SC!AppendEvent
  <2>2. \A c \in Citations : ~Pending(SC!Idle, c) /\ ~Pending(req[r], c)
    BY <1>1, <1>3 DEF Pending, SC!Idle
  <2>3. SC!Idle \in SourceRequests /\ SC!Idle.pc # "append"
    BY DEF SourceRequests, SC!Idle
  <2>4. /\ sources' \in [Sources -> {SC!NoRow} \union SourceRows]
        /\ \A s \in Sources : SC!Exists(sources'[s]) => Behind(sources'[s].version, head[s])
        /\ \A s \in Sources : SC!Exists(sources[s]) => SC!Exists(sources'[s]) \/ Ended(head[s])
    BY <1>3 DEF RaceInv, SourceTypes, RowsStand
  <2> QED
    BY <2>1, <2>2, <2>3, <2>4, QuietRace
<1>9. CASE SC!Accepted(r)
  <2>1. PICK v : v = [q EXCEPT !.pc = "project", !.expected = h.version + 1]
    OBVIOUS
  <2>2. /\ head' = [head EXCEPT ![q.stream] = [version |-> h.version + 1, alive |-> ~SC!Ends(q.do)]]
        /\ req' = [req EXCEPT ![r] = v]
    BY <1>1, <1>2, <1>9, <2>1 DEF SC!AppendEvent
  <2>3. q.expected < 0 \/ q.expected = h.version
    BY <1>1, <1>2, <1>9 DEF SC!Accepted
  <2>4. /\ v \in SourceRequests /\ v.pc = "project" /\ v.stream = q.stream /\ v.do = q.do
        /\ v.expected = h.version + 1 /\ v # SC!Idle
        /\ v \in Placing => q \in Placing /\ v.arg = q.arg
    <3>1. h.version + 1 \in Int
      BY <1>6 DEF Heads
    <3>2. CASE q \in SourceWrites
      <4>1. v \in SourceWrites /\ v.pc = "project" /\ v.stream = q.stream /\ v.do = q.do
              /\ v.expected = h.version + 1
        BY <2>1, <3>1, <3>2 DEF SourceWrites
      <4> QED
        BY <4>1, SourceKinds DEF SourceRequests, OnSources, SC!Idle
    <3>3. CASE q \in SourceDeletes
      <4>1. v \in SourceDeletes /\ v.pc = "project" /\ v.stream = q.stream /\ v.do = q.do
              /\ v.expected = h.version + 1
        BY <2>1, <3>1, <3>3 DEF SourceDeletes
      <4> QED
        BY <4>1, SourceKinds DEF SourceRequests, OnSources, SC!Idle
    <3>4. CASE q \in CitationWrites
      <4>1. /\ v \in CitationWrites /\ v.pc = "project" /\ v.stream = q.stream /\ v.do = q.do
            /\ v.expected = h.version + 1 /\ v.arg = q.arg
        BY <2>1, <3>1, <3>4 DEF CitationWrites
      <4> QED
        BY <3>4, <4>1, SourceKinds DEF SourceRequests, OnCitations, Placing, SC!Idle
    <3>5. CASE q \in CitationDeletes
      <4>1. /\ v \in CitationDeletes /\ v.pc = "project" /\ v.stream = q.stream /\ v.do = q.do
            /\ v.expected = h.version + 1 /\ v.do = "deleteCitation"
        BY <2>1, <3>1, <3>5 DEF CitationDeletes
      <4> QED
        BY <4>1, SourceKinds DEF SourceRequests, OnCitations, SC!Idle
    <3> QED
      BY <1>4, <3>2, <3>3, <3>4, <3>5
  <2>5. /\ req'[r] = v /\ \A p \in Slots \ {r} : req'[p] = req[p]
        /\ req' \in [Slots -> SourceRequests]
    BY <1>3, <2>2, <2>4 DEF RaceInv, SourceTypes
  <2>6. /\ head' \in [Sources \union Citations -> Heads]
        /\ head'[q.stream] = [version |-> h.version + 1, alive |-> ~SC!Ends(q.do)]
        /\ \A i \in Sources \union Citations : i # q.stream => head'[i] = head[i]
    <3>1. [version |-> h.version + 1, alive |-> ~SC!Ends(q.do)] \in Heads
      BY <1>6 DEF Heads, SC!Ends
    <3> QED
      BY <1>5, <1>6, <2>2, <3>1
  <2>0. /\ head'[q.stream].version = h.version + 1
        /\ head'[q.stream].alive <=> ~SC!Ends(q.do)
    <3>1. \A e, b : e = [version |-> h.version + 1, alive |-> b]
            => e.version = h.version + 1 /\ e.alive = b
      OBVIOUS
    <3>2. head'[q.stream].version = h.version + 1 /\ head'[q.stream].alive = ~SC!Ends(q.do)
      BY <2>6, <3>1, Zenon
    <3> QED
      BY <3>2
  <2>7. q.do \notin Creates => q.expected = h.version /\ h.version > 0
    BY <1>2, <1>3, <1>5, <1>6, <1>7, <2>3 DEF Stands, Heads
  <2>8. q.do \in Creates => h.version = 0
    BY <1>2, <1>3, <1>7 DEF Stands
  <2>9. q.stream \in Sources => ~Ended(h)
    <3>1. q.stream \in Sources => q.do \in {"createSource", "updateSource", "deleteSource"}
      BY <1>4 DEF SC!IdsApart, SourceWrites, SourceDeletes, CitationWrites, CitationDeletes
    <3> QED
      BY <1>2, <1>3, <1>7, <2>7, <2>8, <3>1 DEF Stands, Behind, Ended, Creates
  <2>10. \A i \in Sources \union Citations : Grown(head, head', i)
    BY <1>2, <2>6, <2>9 DEF Grown
  <2>11. SourceTypes'
    BY <1>3, <2>5, <2>6 DEF RaceInv, SourceTypes
  <2>12. RowsStand'
    <3> SUFFICES ASSUME NEW s \in Sources, SC!Exists(sources[s])
                 PROVE  Behind(sources[s].version, head'[s])
      BY <1>3 DEF RowsStand
    <3>1. Behind(sources[s].version, head[s])
      BY DEF RaceInv, RowsStand
    <3>2. sources[s].version \in Int
      BY DEF RaceInv, SourceTypes, SC!NoRow, SourceRows
    <3> QED
      BY <1>6, <2>6, <2>10, <3>1, <3>2, GrownKeeps
  <2>13. Stands(v, head', sources)
    <3>1. v.expected > 0
      BY <1>6, <2>4 DEF Heads
    <3>2. v.do \in {"createSource", "updateSource"} => Behind(v.expected, head'[v.stream])
      BY <1>6, <2>4, <2>0, <3>1 DEF Behind, SC!Ends, Heads
    <3>3. v.do = "deleteSource" => Ended(head'[v.stream])
      BY <1>6, <2>4, <2>0 DEF Ended, SC!Ends, Heads
    <3>4. v \in Placing => SC!Exists(sources[v.arg]) \/ Ended(head'[v.arg])
      <4>1. v \in Placing => SC!Exists(sources[v.arg]) \/ Ended(head[v.arg])
        BY <1>7, <2>4 DEF Stands
      <4>2. v \in Placing => v.arg \in Sources
        BY <2>4, SourceKinds
      <4> QED
        BY <1>6, <2>6, <2>10, <4>1, <4>2, GrownKeeps, 0 \in Int
    <3> QED
      BY <2>4, <3>1, <3>2, <3>3, <3>4 DEF Stands
  <2>14. RequestsStand'
    <3> SUFFICES ASSUME NEW p \in Slots, req'[p] # SC!Idle
                 PROVE  Stands(req'[p], head', sources) /\ AloneOnStream(req', p)
      BY <1>3 DEF RequestsStand
    <3>1. CASE p = r
      BY <2>4, <2>5, <2>13, <3>1 DEF AloneOnStream
    <3>2. CASE p # r
      <4>1. /\ req'[p] = req[p] /\ req[p] \in SourceRequests /\ req[p] # SC!Idle
            /\ Stands(req[p], head, sources) /\ AloneOnStream(req, p)
        BY <2>5, <3>2 DEF RaceInv, SourceTypes, RequestsStand
      <4>2. req[p].pc = "append" /\ req[p].do \in Creates => req[p].stream # q.stream
        BY <1>1, <1>3, <3>2, <4>1 DEF AloneOnStream
      <4>3. req[p].stream \in Sources \union Citations
        BY <4>1 DEF SourceRequests, OnSources, OnCitations, Placing, SourceWrites, SourceDeletes,
                    SourceSaves, CitationWrites, CitationDeletes, WriteCounts, DeleteCounts
      <4>4. Stands(req[p], head', sources)
        BY <1>6, <2>6, <2>10, <4>1, <4>2, <4>3, StandsStill
      <4>5. AloneOnStream(req', p)
        BY <1>1, <1>3, <2>4, <2>5, <3>2, <4>1 DEF AloneOnStream
      <4> QED
        BY <4>1, <4>4, <4>5
    <3> QED
      BY <3>1, <3>2
  <2>15. Excused(setting.store, head) => Excused(setting.store, head')
    <3>1. \A s \in Sources : Ended(head[s]) => Ended(head'[s])
      BY <1>6, <2>6, <2>10, GrownKeeps, 0 \in Int
    <3> QED
      BY <3>1 DEF Excused
  <2>16. ASSUME NEW c \in Citations
         PROVE  Follows(c, citations, head', req', setting.store)
    <3>1. Follows(c, citations, head, req, setting.store)
      BY DEF RaceInv, CitationsFollow
    <3>2. CASE c # q.stream
      <4>1. ~Pending(v, c) /\ ~Pending(req[r], c)
        BY <1>1, <2>4, <3>2 DEF Pending
      <4> QED
        BY <1>3, <2>4, <2>5, <2>6, <2>15, <3>1, <3>2, <4>1, FollowsStill
    <3>3. CASE c = q.stream
      <4>1. citations[c].version \in Nat /\ citations[c].version <= h.version /\ h.version \in Nat
        BY <1>2, <1>6, <3>1, <3>3 DEF Follows, RaceInv, SourceTypes, SC!NoRow, CitationRows, Heads
      <4>2. q.do \notin Creates => citations[c].version = h.version
        BY <1>1, <1>2, <1>3, <2>7, <3>1, <3>3 DEF Follows
      <4>3. \A p \in Slots : ~Pending(req[p], c)
        BY <1>2, <2>8, <3>1, <3>3, <4>1, <4>2 DEF Follows
      <4>4. head'[c].version = h.version + 1 /\ head'[c].alive = ~SC!Ends(q.do)
        BY <2>6, <3>3
      <4>5. q.do \in {"createCitation", "moveCitation", "deleteCitation"}
        BY <1>4, <3>3 DEF SC!IdsApart, SourceWrites, SourceDeletes, CitationWrites, CitationDeletes
      <4>6. head'[c].alive <=> v.do # "deleteCitation"
        BY <2>4, <4>4, <4>5 DEF SC!Ends
      <4>7. Pending(v, c)
        BY <2>4, <3>3 DEF Pending
      <4>8. v.do # "createCitation" => SC!Exists(citations[c])
        BY <2>4, <2>7, <4>2, <4>5 DEF Creates, SC!Exists
      <4>9. \A p \in Slots : Pending(req'[p], c) => p = r
        BY <2>5, <4>3
      <4>10. citations[c].version < head'[c].version
        BY <4>1, <4>4
      <4>11. ASSUME NEW p \in Slots, req'[p].pc = "append", req'[p].stream = c
             PROVE  req'[p].expected # head'[c].version
        <5>1. p # r /\ req'[p] = req[p] /\ req[p] # SC!Idle
          BY <2>4, <2>5, <4>11 DEF SC!Idle
        <5>2. Stands(req[p], head, sources) /\ req[p] \in SourceRequests
          BY <5>1 DEF RaceInv, RequestsStand, SourceTypes
        <5>3. req[p].expected \in Int
          BY <4>11, <5>1, <5>2, SourceKinds DEF SourceWrites, SourceDeletes, CitationWrites,
             CitationDeletes
        <5> QED
          BY <1>2, <3>3, <4>1, <4>4, <4>11, <5>1, <5>2, <5>3 DEF Stands
      <4> QED
        BY <2>4, <2>5, <1>3, <4>4, <4>6, <4>7, <4>8, <4>9, <4>10, <4>11, <4>1 DEF Follows
    <3> QED
      BY <3>2, <3>3
  <2>17. CitationsFollow'
    BY <1>3, <2>16 DEF CitationsFollow
  <2> QED
    BY <2>11, <2>12, <2>14, <2>17 DEF RaceInv
<1> QED
  BY <1>8, <1>9

(***************************************************************************)
(* A source's projections save rows at versions of its stream, and take a  *)
(* row away only after the source's end.                                   *)
(***************************************************************************)
LEMMA ProjectSourceRace ==
  ASSUME RaceInv, SC!IdsApart, NEW r \in setting.slots, setting' = setting,
         SC!ProjectSource(r) \/ SC!ReadForUpdate(r) \/ SC!SaveUpdate(r)
  PROVE  RaceInv'
<1>1. PICK q : q = req[r]
  OBVIOUS
<1>2. /\ r \in Slots /\ q \in SourceRequests
      /\ \/ q.pc = "project" /\ q.do \in {"createSource", "updateSource", "deleteSource"}
         \/ q.pc = "save"
      /\ UNCHANGED <<citations, head>>
  BY <1>1 DEF RaceInv, SourceTypes, SC!ProjectSource, SC!ReadForUpdate, SC!SaveUpdate
<1>3. q \in SourceWrites \union SourceDeletes \union SourceSaves
  BY <1>2 DEF SourceRequests, OnSources, OnCitations, Placing, SC!Idle,
              CitationWrites, CitationDeletes, WriteCounts, DeleteCounts
<1>4. q.stream \in Sources /\ q # SC!Idle
  BY <1>3, SourceKinds DEF SC!Idle, SourceWrites, SourceDeletes, SourceSaves
<1>5. Stands(q, head, sources)
  BY <1>1, <1>2, <1>4 DEF RaceInv, RequestsStand
<1>6. \A c \in Citations : ~Pending(q, c) /\ ~Pending(SC!Idle, c)
  BY <1>4 DEF Pending, SC!IdsApart, SC!Idle
<1>7. SC!Idle \in SourceRequests /\ SC!Idle.pc # "append"
  BY DEF SourceRequests, SC!Idle
<1>8. /\ sources \in [Sources -> {SC!NoRow} \union SourceRows]
      /\ \A s \in Sources : SC!Exists(sources[s]) => Behind(sources[s].version, head[s])
  BY DEF RaceInv, SourceTypes, RowsStand
<1>9. ASSUME NEW row2, sources' = [sources EXCEPT ![q.stream] = row2],
             row2 \in {SC!NoRow} \union SourceRows,
             SC!Exists(row2) => Behind(row2.version, head[q.stream]),
             SC!Exists(sources[q.stream]) => SC!Exists(row2) \/ Ended(head[q.stream]),
             req' = [req EXCEPT ![r] = SC!Idle]
      PROVE  RaceInv'
  <2>1. /\ sources' \in [Sources -> {SC!NoRow} \union SourceRows]
        /\ sources'[q.stream] = row2
        /\ \A s \in Sources : s # q.stream => sources'[s] = sources[s]
    BY <1>4, <1>8, <1>9
  <2>2. \A s \in Sources : SC!Exists(sources'[s]) => Behind(sources'[s].version, head[s])
    BY <1>8, <1>9, <2>1
  <2>3. \A s \in Sources : SC!Exists(sources[s]) => SC!Exists(sources'[s]) \/ Ended(head[s])
    BY <1>9, <2>1
  <2> QED
    BY <1>1, <1>2, <1>6, <1>7, <1>9, <2>1, <2>2, <2>3, QuietRace
<1>10. CASE SC!ProjectSource(r)
  <2>1. q.pc = "project" /\ q.do \in {"createSource", "deleteSource"}
          /\ req' = [req EXCEPT ![r] = SC!Idle]
    BY <1>1, <1>10 DEF SC!ProjectSource, SC!Finished
  <2>2. CASE q.do = "createSource"
    <3>1. PICK row2 : row2 = [version |-> q.expected, title |-> q.arg, count |-> 0]
      OBVIOUS
    <3>2. sources' = [sources EXCEPT ![q.stream] = row2]
      BY <1>1, <1>10, <2>2, <3>1 DEF SC!ProjectSource
    <3>3. q.expected \in Int /\ q.expected > 0 /\ q.arg \in Titles
      BY <1>2, <1>3, <1>5, <2>1, <2>2 DEF Stands, SourceWrites, SourceDeletes, SourceSaves
    <3>4. row2 \in SourceRows /\ row2.version = q.expected
      BY <3>1, <3>3 DEF SourceRows
    <3>5. Behind(row2.version, head[q.stream])
      BY <1>5, <2>1, <2>2, <3>4 DEF Stands
    <3>6. SC!Exists(row2)
      BY <3>3, <3>4 DEF SC!Exists
    <3> QED
      BY <1>9, <2>1, <3>2, <3>4, <3>5, <3>6
  <2>3. CASE q.do = "deleteSource"
    <3>1. PICK row2 : row2 = IF SC!Sql
            /\ SC!CitationsOf(q.stream) # {} THEN sources[q.stream] ELSE SC!NoRow
      OBVIOUS
    <3>2. sources' = [sources EXCEPT ![q.stream] = row2]
      BY <1>1, <1>10, <2>3, <3>1 DEF SC!ProjectSource
    <3>3. Ended(head[q.stream])
      BY <1>5, <2>1, <2>3 DEF Stands
    <3>4. row2 = sources[q.stream] \/ row2 = SC!NoRow
      BY <3>1
    <3>5. row2 \in {SC!NoRow} \union SourceRows
      BY <1>4, <1>8, <3>4
    <3>6. SC!Exists(row2) => Behind(row2.version, head[q.stream])
      BY <1>4, <1>8, <3>4 DEF SC!Exists, SC!NoRow
    <3> QED
      BY <1>9, <2>1, <3>2, <3>3, <3>5, <3>6
  <2> QED
    BY <2>1, <2>2, <2>3
<1>11. CASE SC!ReadForUpdate(r)
  <2>1. q.pc = "project" /\ q.do = "updateSource" /\ sources' = sources
    BY <1>1, <1>11 DEF SC!ReadForUpdate
  <2>2. q \in SourceWrites
    BY <1>3, <2>1 DEF SourceDeletes, SourceSaves
  <2>3. q.expected \in Int /\ q.expected > 0 /\ q.arg \in Titles
        /\ Behind(q.expected, head[q.stream])
    BY <1>5, <2>1, <2>2 DEF Stands, SourceWrites
  <2>4. CASE ~SC!Exists(sources[q.stream])
    <3>1. req' = [req EXCEPT ![r] = SC!Idle]
      BY <1>1, <1>11, <2>4 DEF SC!ReadForUpdate
    <3> QED
      BY <1>1, <1>2, <1>6, <1>7, <1>8, <2>1, <3>1, QuietRace
  <2>5. CASE SC!Exists(sources[q.stream])
    <3>1. PICK row2 : row2 = [sources[q.stream] EXCEPT !.title = q.arg, !.version = q.expected]
      OBVIOUS
    <3>2. PICK v : v = [pc |-> "save", do |-> q.do, stream |-> q.stream, todo |-> <<>>,
                        row |-> row2]
      OBVIOUS
    <3>3. req' = [req EXCEPT ![r] = v]
      BY <1>1, <1>11, <2>5, <3>1, <3>2 DEF SC!ReadForUpdate
    <3>4. sources[q.stream] \in SourceRows
      BY <1>4, <1>8, <2>5 DEF SC!Exists, SC!NoRow
    <3>5. row2 \in SourceRows /\ row2.version = q.expected
      <4>1. q.expected \in Nat /\ q.arg \in Titles
        BY <2>3
      <4> QED
        BY <3>1, <3>4, <4>1 DEF SourceRows
    <3>6. v \in SourceSaves /\ v.pc = "save" /\ v.stream = q.stream /\ v.row = row2
      BY <1>4, <2>1, <3>2, <3>5 DEF SourceSaves
    <3>7. v \in SourceRequests /\ v \notin Placing
      BY <3>6 DEF SourceRequests, OnSources, SourceSaves, Placing, CitationWrites, WriteCounts
    <3>8. Stands(v, head, sources)
      BY <2>3, <3>5, <3>6, <3>7 DEF Stands
    <3>9. \A c \in Citations : ~Pending(v, c)
      BY <3>6 DEF Pending
    <3> QED
      BY <1>1, <1>2, <1>4, <1>6, <1>8, <2>1, <3>3, <3>6, <3>7, <3>8, <3>9, QuietRace
  <2> QED
    BY <2>4, <2>5
<1>12. CASE SC!SaveUpdate(r)
  <2>1. /\ q.pc = "save" /\ sources' = [sources EXCEPT ![q.stream] = q.row]
        /\ req' = [req EXCEPT ![r] = SC!Idle]
    BY <1>1, <1>12 DEF SC!SaveUpdate, SC!Finished
  <2>2. q.row \in SourceRows
    BY <1>2, <2>1, SourceKinds DEF SourceSaves
  <2>3. Behind(q.row.version, head[q.stream])
    BY <1>5, <2>1 DEF Stands
  <2>4. SC!Exists(q.row)
    BY <2>3 DEF Behind, SC!Exists
  <2> QED
    BY <1>9, <2>1, <2>2, <2>3, <2>4
<1> QED
  BY <1>10, <1>11, <1>12

(***************************************************************************)
(* A request that leaves a citation's source, and each change of a count,  *)
(* goes on with the row still to write.                                    *)
(***************************************************************************)
LEMMA CountRace ==
  ASSUME RaceInv, SC!IdsApart, NEW r \in setting.slots, setting' = setting,
         SC!ProjectLeaving(r) \/ SC!ReadForCount(r) \/ SC!SaveCount(r)
  PROVE  RaceInv'
<1>1. PICK q : q = req[r]
  OBVIOUS
<1>2. /\ r \in Slots /\ q \in SourceRequests
      /\ \/ q.pc = "project" /\ q.do \in {"moveCitation", "deleteCitation"}
         \/ q.pc \in {"count", "saveCount"}
      /\ UNCHANGED <<citations, head>>
  BY <1>1 DEF RaceInv, SourceTypes, SC!ProjectLeaving, SC!ReadForCount, SC!SaveCount
<1>3. q \in OnCitations /\ q # SC!Idle
  BY <1>2 DEF SourceRequests, OnSources, SourceWrites, SourceDeletes, SourceSaves, SC!Idle
<1>4. /\ q.stream \in Citations /\ q.expected \in Int /\ q.todo \in Seq(CountChanges)
      /\ q.do \in {"createCitation", "moveCitation", "deleteCitation"}
      /\ q \in Placing <=> q.do # "deleteCitation"
      /\ q.do # "deleteCitation" => q.arg \in Sources
      /\ q.do = "deleteCitation" => q.arg \in Citations
  <2>1. q.do = "deleteCitation" => q.arg \in Citations
    BY <1>3 DEF OnCitations, Placing, CitationWrites, CitationDeletes, WriteCounts, DeleteCounts
  <2> QED
    BY <1>2, <1>3, <2>1, SourceKinds
<1>5. Stands(q, head, sources)
  BY <1>1, <1>2, <1>3 DEF RaceInv, RequestsStand
<1>6. /\ sources \in [Sources -> {SC!NoRow} \union SourceRows]
      /\ \A s \in Sources : SC!Exists(sources[s]) => Behind(sources[s].version, head[s])
      /\ citations \in [Citations -> {SC!NoRow} \union CitationRows]
  BY DEF RaceInv, SourceTypes, RowsStand
<1>7. q \in Placing => SC!Exists(sources[q.arg]) \/ Ended(head[q.arg])
  BY <1>5 DEF Stands
<1>8. ASSUME NEW v \in SourceRequests, v.pc \in {"count", "saveCount"}, v.stream = q.stream,
             v.do = q.do,
             v.expected = q.expected, req' = [req EXCEPT ![r] = v],
             v \in Placing => q \in Placing /\ v.arg = q.arg,
             v.pc = "saveCount" => v.todo # <<>> /\ Behind(v.row.version, head[v.todo[1].source]),
             sources' \in [Sources -> {SC!NoRow} \union SourceRows],
             \A s \in Sources : SC!Exists(sources'[s]) => Behind(sources'[s].version, head[s]),
             \A s \in Sources : SC!Exists(sources[s]) => SC!Exists(sources'[s])
      PROVE  RaceInv'
  <2>1. v # SC!Idle /\ v.pc # "append"
    BY <1>8 DEF SC!Idle
  <2>2. v \in Placing => SC!Exists(sources'[v.arg]) \/ Ended(head[v.arg])
    BY <1>4, <1>7, <1>8
  <2>3. Stands(v, head, sources')
    BY <1>8, <2>2 DEF Stands
  <2>4. \A c \in Citations : Pending(v, c) <=> Pending(q, c)
    BY <1>2, <1>8 DEF Pending
  <2> QED
    BY <1>1, <1>2, <1>3, <1>8, <2>1, <2>3, <2>4, QuietRace
<1>9. ASSUME NEW todo \in Seq(CountChanges), NEW v, v = [q EXCEPT !.pc = "count", !.todo = todo]
      PROVE  /\ v \in SourceRequests /\ v.pc = "count" /\ v.stream = q.stream /\ v.do = q.do
             /\ v.expected = q.expected
             /\ v \in Placing => q \in Placing /\ v.arg = q.arg
  <2>0. q \in CitationWrites \union CitationDeletes \union WriteCounts \union DeleteCounts
    BY <1>3 DEF OnCitations, Placing
  <2>1. CASE q \in CitationWrites
    <3>1. /\ v \in CitationWrites /\ v.pc = "count" /\ v.stream = q.stream /\ v.do = q.do
          /\ v.expected = q.expected /\ v.arg = q.arg
      BY <1>9, <2>1 DEF CitationWrites
    <3> QED
      BY <2>1, <3>1 DEF SourceRequests, OnCitations, Placing
  <2>2. CASE q \in CitationDeletes
    <3>1. /\ v \in CitationDeletes /\ v.pc = "count" /\ v.stream = q.stream /\ v.do = q.do
          /\ v.expected = q.expected /\ v.arg = q.arg
      BY <1>9, <2>2 DEF CitationDeletes
    <3> QED
      BY <2>2, <3>1, <1>4, SourceKinds DEF SourceRequests, OnCitations
  <2>3. CASE q \in WriteCounts
    <3>1. /\ v \in WriteCounts /\ v.pc = "count" /\ v.stream = q.stream /\ v.do = q.do
          /\ v.expected = q.expected /\ v.arg = q.arg
      BY <1>9, <2>3 DEF WriteCounts
    <3> QED
      BY <2>3, <3>1 DEF SourceRequests, OnCitations, Placing
  <2>4. CASE q \in DeleteCounts
    <3>1. /\ v \in DeleteCounts /\ v.pc = "count" /\ v.stream = q.stream /\ v.do = q.do
          /\ v.expected = q.expected /\ v.arg = q.arg
      BY <1>9, <2>4 DEF DeleteCounts
    <3> QED
      BY <2>4, <3>1, <1>4, SourceKinds DEF SourceRequests, OnCitations
  <2> QED
    BY <2>0, <2>1, <2>2, <2>3, <2>4
<1>10. CASE SC!ProjectLeaving(r)
  <2>1. q.pc = "project" /\ q.do \in {"moveCitation", "deleteCitation"} /\ sources' = sources
    BY <1>1, <1>10 DEF SC!ProjectLeaving
  <2>2. SC!Exists(citations[q.stream])
    <3>1. Follows(q.stream, citations, head, req, setting.store)
      BY <1>4 DEF RaceInv, CitationsFollow
    <3>2. Pending(q, q.stream) /\ q.do # "createCitation"
      BY <2>1 DEF Pending
    <3> QED
      BY <1>1, <1>2, <3>1, <3>2 DEF Follows
  <2>3. PICK from : from = citations[q.stream].source
    OBVIOUS
  <2>4. from \in Sources
    <3>1. citations[q.stream] \in CitationRows
      BY <1>4, <1>6, <2>2 DEF SC!Exists, SC!NoRow
    <3> QED
      BY <2>3, <3>1 DEF CitationRows
  <2>5. PICK todo : todo = IF q.do = "moveCitation" THEN SC!Leaves(from, q.arg)
          ELSE <<SC!CountChange(from, -1)>>
    OBVIOUS
  <2>6. todo \in Seq(CountChanges)
    <3>1. SC!CountChange(from, -1) \in CountChanges
      BY <2>4 DEF SC!CountChange, CountChanges
    <3>2. q.do = "moveCitation" => SC!CountChange(q.arg, 1) \in CountChanges
      BY <1>4 DEF SC!CountChange, CountChanges
    <3> QED
      BY <2>5, <3>1, <3>2 DEF SC!Leaves
  <2>7. PICK v : v = [q EXCEPT !.pc = "count", !.todo = todo]
    OBVIOUS
  <2>8. req' = [req EXCEPT ![r] = v]
    BY <1>1, <1>10, <2>2, <2>3, <2>5, <2>7 DEF SC!ProjectLeaving, SC!Then
  <2> QED
    BY <1>6, <1>8, <1>9, <2>1, <2>6, <2>7, <2>8
<1>11. CASE SC!ReadForCount(r)
  <2>1. q.pc = "count" /\ q.todo # <<>> /\ sources' = sources
    BY <1>1, <1>11 DEF SC!ReadForCount
  <2>2. PICK s : s = q.todo[1].source
    OBVIOUS
  <2>3. s \in Sources /\ q.todo[1].delta \in Int
    <3>1. q.todo[1] \in CountChanges
      BY <1>4, <2>1
    <3> QED
      BY <2>2, <3>1 DEF CountChanges
  <2>4. CASE ~SC!Exists(sources[s])
    <3>1. PICK v : v = [q EXCEPT !.pc = "count", !.todo = Tail(q.todo)]
      OBVIOUS
    <3>2. req' = [req EXCEPT ![r] = v]
      BY <1>1, <1>11, <2>2, <2>4, <3>1 DEF SC!ReadForCount, SC!Then
    <3>3. Tail(q.todo) \in Seq(CountChanges)
      BY <1>4, <2>1
    <3> QED
      BY <1>6, <1>8, <1>9, <2>1, <3>1, <3>2, <3>3
  <2>5. CASE SC!Exists(sources[s])
    <3>1. PICK n : n = IF sources[s].count + q.todo[1].delta < 0 THEN 0
            ELSE sources[s].count + q.todo[1].delta
      OBVIOUS
    <3>2. PICK row2 : row2 = [sources[s] EXCEPT !.count = n]
      OBVIOUS
    <3>3. PICK v : v = [pc |-> "saveCount", do |-> q.do, stream |-> q.stream, arg |-> q.arg,
                        expected |-> q.expected, todo |-> q.todo, row |-> row2]
      OBVIOUS
    <3>4. req' = [req EXCEPT ![r] = v]
      BY <1>1, <1>11, <2>2, <2>5, <3>1, <3>2, <3>3 DEF SC!ReadForCount
    <3>5. sources[s] \in SourceRows
      BY <1>6, <2>3, <2>5 DEF SC!Exists, SC!NoRow
    <3>6. n \in Int
      BY <2>3, <3>1, <3>5 DEF SourceRows
    <3>7. row2 \in SourceRows /\ row2.version = sources[s].version
      BY <3>2, <3>5, <3>6 DEF SourceRows
    <3>8. /\ v \in SourceRequests /\ v.pc = "saveCount" /\ v.stream = q.stream /\ v.do = q.do
          /\ v.expected = q.expected /\ v.arg = q.arg /\ v.todo = q.todo /\ v.row = row2
      <4>1. q.do # "deleteCitation" => v \in WriteCounts
        BY <1>4, <3>3, <3>7 DEF WriteCounts
      <4>2. q.do = "deleteCitation" => v \in DeleteCounts
        BY <1>4, <3>3, <3>7 DEF DeleteCounts
      <4> QED
        BY <3>3, <4>1, <4>2 DEF SourceRequests, OnCitations, Placing
    <3>9. v \in Placing => q \in Placing
      BY <1>4, <3>8, SourceKinds
    <3>10. Behind(v.row.version, head[v.todo[1].source])
      BY <1>6, <2>2, <2>3, <2>5, <3>7, <3>8
    <3> QED
      BY <1>6, <1>8, <2>1, <3>4, <3>8, <3>9, <3>10
  <2> QED
    BY <2>4, <2>5
<1>12. CASE SC!SaveCount(r)
  <2>1. q.pc = "saveCount" /\ sources' = [sources EXCEPT ![q.todo[1].source] = q.row]
    BY <1>1, <1>12 DEF SC!SaveCount
  <2>2. PICK v : v = [q EXCEPT !.pc = "count", !.todo = Tail(q.todo)]
    OBVIOUS
  <2>3. req' = [req EXCEPT ![r] = v]
    BY <1>1, <1>12, <2>2 DEF SC!SaveCount, SC!Then
  <2>4. q.row \in SourceRows /\ q.todo # <<>> /\ Behind(q.row.version, head[q.todo[1].source])
    BY <1>2, <1>5, <2>1, SourceKinds DEF Stands, WriteCounts, DeleteCounts
  <2>5. q.todo[1].source \in Sources
    <3>1. q.todo[1] \in CountChanges
      BY <1>4, <2>4
    <3> QED
      BY <3>1 DEF CountChanges
  <2>6. SC!Exists(q.row)
    BY <2>4 DEF Behind, SC!Exists
  <2>7. /\ sources' \in [Sources -> {SC!NoRow} \union SourceRows]
        /\ \A s \in Sources : SC!Exists(sources'[s]) => Behind(sources'[s].version, head[s])
        /\ \A s \in Sources : SC!Exists(sources[s]) => SC!Exists(sources'[s])
    BY <1>6, <2>1, <2>4, <2>5, <2>6
  <2>8. Tail(q.todo) \in Seq(CountChanges)
    BY <1>4, <2>4
  <2> QED
    BY <1>8, <1>9, <2>2, <2>3, <2>7, <2>8
<1> QED
  BY <1>10, <1>11, <1>12

(***************************************************************************)
(* The request that was to write a citation's row has: the row is at its   *)
(* stream's version, or the foreign key has refused it.                    *)
(***************************************************************************)
LEMMA RowRace ==
  ASSUME RaceInv, NEW r \in setting.slots, setting' = setting, UNCHANGED <<sources, head>>,
         NEW c \in Citations, Pending(req[r], c),
         NEW w \in {SC!NoRow} \union CitationRows,
         citations' = [citations EXCEPT ![c] = w],
         NEW v \in SourceRequests, req' = [req EXCEPT ![r] = v],
         v.pc # "append", ~Pending(v, c), v.stream = req[r].stream \/ v = SC!Idle,
         v # SC!Idle => Stands(v, head, sources),
         \/ w.version = IF head[c].alive THEN head[c].version ELSE 0
         \/ Excused(setting.store, head) /\ w = citations[c]
  PROVE  RaceInv'
<1>1. /\ r \in Slots /\ req'[r] = v
      /\ \A p \in Slots \ {r} : req'[p] = req[p]
      /\ req' \in [Slots -> SourceRequests]
      /\ req[r] # SC!Idle /\ req[r].stream = c
  BY DEF RaceInv, SourceTypes, Pending, SC!Idle
<1>2. /\ citations' \in [Citations -> {SC!NoRow} \union CitationRows]
      /\ citations'[c] = w
      /\ \A k \in Citations : k # c => citations'[k] = citations[k]
  BY DEF RaceInv, SourceTypes
<1>3. SourceTypes'
  <2>1. IsFiniteSet({k \in Citations : SC!Exists(citations'[k])})
    <3>1. IsFiniteSet({k \in Citations : SC!Exists(citations[k])} \union {c})
      BY FS_AddElement DEF RaceInv, SourceTypes
    <3>2. {k \in Citations : SC!Exists(citations'[k])}
            \subseteq {k \in Citations : SC!Exists(citations[k])} \union {c}
      BY <1>2
    <3> QED
      BY <3>1, <3>2, FS_Subset
  <2> QED
    BY <1>1, <1>2, <2>1 DEF RaceInv, SourceTypes
<1>4. RowsStand'
  BY DEF RaceInv, RowsStand
<1>5. RequestsStand'
  <2> SUFFICES ASSUME NEW p \in Slots, req'[p] # SC!Idle
               PROVE  Stands(req'[p], head, sources) /\ AloneOnStream(req', p)
    BY DEF RequestsStand
  <2>1. CASE p = r
    BY <1>1, <2>1 DEF AloneOnStream
  <2>2. CASE p # r
    <3>1. req'[p] = req[p] /\ Stands(req[p], head, sources) /\ AloneOnStream(req, p)
      BY <1>1, <2>2 DEF RaceInv, RequestsStand
    <3>2. AloneOnStream(req', p)
      BY <1>1, <2>2, <3>1 DEF AloneOnStream
    <3> QED
      BY <3>1, <3>2
  <2> QED
    BY <2>1, <2>2
<1>6. ASSUME NEW k \in Citations
      PROVE  Follows(k, citations', head, req', setting.store)
  <2>1. Follows(k, citations, head, req, setting.store)
    BY DEF RaceInv, CitationsFollow
  <2>2. CASE k # c
    <3>1. ~Pending(req[r], k) /\ ~Pending(req'[r], k)
      BY <1>1, <2>2 DEF Pending, SC!Idle
    <3>2. /\ citations'[k] = citations[k] /\ req'[r].pc # "append"
          /\ \A p \in Slots \ {r} : req'[p] = req[p]
      BY <1>1, <1>2, <2>2
    <3> QED
      BY <1>1, <2>1, <3>1, <3>2, FollowsAside
  <2>3. CASE k = c
    <3>1. /\ req[r].expected = head[c].version /\ citations[c].version < head[c].version
          /\ \A p \in Slots : Pending(req[p], c) => p = r
      BY <1>1, <2>1, <2>3 DEF Follows
    <3>2. \A p \in Slots : ~Pending(req'[p], c)
      BY <1>1, <3>1
    <3>3. head[c] \in Heads /\ citations[c].version \in Nat
      BY DEF RaceInv, SourceTypes, SC!NoRow, CitationRows
    <3>4. w.version <= head[c].version
      BY <3>1, <3>3 DEF Heads
    <3>5. ASSUME NEW p \in Slots, req'[p].pc = "append", req'[p].stream = c
          PROVE  req'[p].expected # head[c].version
      <4>1. req'[p] = req[p] /\ req[p].pc = "append" /\ req[p].stream = c
        BY <1>1, <3>5
      <4> QED
        BY <2>1, <2>3, <3>1, <3>3, <4>1 DEF Follows, Heads
    <3>6. Excused(setting.store, head) \/ w.version = IF head[c].alive THEN head[c].version ELSE 0
      OBVIOUS
    <3> QED
      BY <1>2, <2>3, <3>2, <3>4, <3>5, <3>6 DEF Follows
  <2> QED
    BY <2>2, <2>3
<1>7. CitationsFollow'
  BY <1>6 DEF CitationsFollow
<1> QED
  BY <1>3, <1>4, <1>5, <1>7 DEF RaceInv

(***************************************************************************)
(* A refused key means that a source has ended.                            *)
(***************************************************************************)
LEMMA KeyRefused ==
  ASSUME RaceInv, NEW r \in Slots, req[r] \in Placing, ~SC!KeyHolds(req[r].arg)
  PROVE  Excused(setting.store, head)
<1>1. req[r] \in SourceRequests /\ req[r] # SC!Idle
  BY DEF RaceInv, SourceTypes, Placing, CitationWrites, WriteCounts, SC!Idle
<1>2. req[r].arg \in Sources /\ Stands(req[r], head, sources)
  BY <1>1, SourceKinds DEF RaceInv, RequestsStand
<1>3. setting.store = "sql" /\ ~SC!Exists(sources[req[r].arg])
  BY DEF SC!KeyHolds, SC!Sql
<1> QED
  BY <1>2, <1>3 DEF Stands, Excused

(***************************************************************************)
(* A new citation's row is written before its source's count.              *)
(***************************************************************************)
LEMMA CreatedRace ==
  ASSUME RaceInv, NEW r \in setting.slots, setting' = setting, SC!ProjectCreated(r)
  PROVE  RaceInv'
<1>1. PICK q : q = req[r]
  OBVIOUS
<1>2. /\ r \in Slots /\ q \in SourceRequests /\ q.pc = "project" /\ q.do = "createCitation"
      /\ UNCHANGED <<sources, head>>
  BY <1>1 DEF RaceInv, SourceTypes, SC!ProjectCreated
<1>3. q \in CitationWrites
  BY <1>2, SourceKinds DEF SourceWrites, SourceDeletes, CitationDeletes
<1>4. /\ q \in Placing /\ q.stream \in Citations /\ q.arg \in Sources /\ q.expected \in Int
      /\ q # SC!Idle
  BY <1>3 DEF Placing, CitationWrites, SC!Idle
<1>5. PICK c \in Citations : c = q.stream
  BY <1>4
<1>6. Pending(q, c)
  BY <1>2, <1>5 DEF Pending
<1>7. Stands(q, head, sources)
  BY <1>1, <1>2, <1>4 DEF RaceInv, RequestsStand
<1>8. /\ q.expected = head[c].version /\ head[c].alive
      /\ head[c].version > 0
  BY <1>1, <1>2, <1>5, <1>6, <1>7 DEF RaceInv, CitationsFollow, Follows, Stands
<1>9. CASE ~SC!KeyHolds(q.arg)
  <2>1. req' = [req EXCEPT ![r] = SC!Idle] /\ citations' = citations
    BY <1>1, <1>9 DEF SC!ProjectCreated, SC!Finished
  <2>2. citations' = [citations EXCEPT ![c] = citations[c]]
    BY <2>1 DEF RaceInv, SourceTypes
  <2>3. Excused(setting.store, head)
    BY <1>1, <1>2, <1>4, <1>9, KeyRefused
  <2>4. SC!Idle \in SourceRequests /\ SC!Idle.pc # "append" /\ ~Pending(SC!Idle, c)
    BY DEF SourceRequests, SC!Idle, Pending
  <2>5. citations[c] \in {SC!NoRow} \union CitationRows
    BY DEF RaceInv, SourceTypes
  <2> QED
    BY <1>1, <1>2, <1>6, <2>1, <2>2, <2>3, <2>4, <2>5, RowRace
<1>10. CASE SC!KeyHolds(q.arg)
  <2>1. PICK w : w = [version |-> q.expected, source |-> q.arg]
    OBVIOUS
  <2>2. PICK v : v = [q EXCEPT !.pc = "count", !.todo = <<SC!CountChange(q.arg, 1)>>]
    OBVIOUS
  <2>3. citations' = [citations EXCEPT ![c] = w] /\ req' = [req EXCEPT ![r] = v]
    BY <1>1, <1>5, <1>10, <2>1, <2>2 DEF SC!ProjectCreated, SC!Then
  <2>4. w \in CitationRows /\ w.version = q.expected
    BY <1>4, <1>7, <1>2, <2>1 DEF Stands, CitationRows
  <2>5. v \in CitationWrites /\ v.pc = "count" /\ v.do = "createCitation"
          /\ v.stream = q.stream /\ v.arg = q.arg
    <3>1. <<SC!CountChange(q.arg, 1)>> \in Seq(CountChanges)
      <4>1. SC!CountChange(q.arg, 1) \in CountChanges
        BY <1>4 DEF SC!CountChange, CountChanges
      <4> QED
        BY <4>1
    <3> QED
      BY <1>2, <1>3, <2>2, <3>1 DEF CitationWrites
  <2>6. v \in SourceRequests /\ v.pc # "append" /\ ~Pending(v, c)
    BY <2>5 DEF SourceRequests, OnCitations, Placing, Pending
  <2>7. Stands(v, head, sources)
    BY <1>4, <1>7, <2>5 DEF Stands
  <2>8. w.version = IF head[c].alive THEN head[c].version ELSE 0
    BY <1>8, <2>4
  <2> QED
    BY <1>1, <1>2, <1>6, <2>3, <2>4, <2>5, <2>6, <2>7, <2>8, RowRace
<1> QED
  BY <1>9, <1>10

(***************************************************************************)
(* The last step of a citation's projection.                               *)
(***************************************************************************)
LEMMA FinishRace ==
  ASSUME RaceInv, NEW r \in setting.slots, setting' = setting, SC!FinishCitation(r)
  PROVE  RaceInv'
<1>1. PICK q : q = req[r]
  OBVIOUS
<1>2. /\ r \in Slots /\ q \in SourceRequests /\ q.pc = "count"
      /\ req' = [req EXCEPT ![r] = SC!Idle]
      /\ UNCHANGED <<sources, head>>
  BY <1>1 DEF RaceInv, SourceTypes, SC!FinishCitation, SC!Finished
<1>3. /\ q \in OnCitations /\ q.stream \in Citations /\ q.expected \in Int /\ q # SC!Idle
      /\ q.do \in {"createCitation", "moveCitation", "deleteCitation"}
      /\ q \in Placing <=> q.do # "deleteCitation"
      /\ q \in Placing => q.arg \in Sources
  BY <1>2, SourceKinds DEF SC!Idle
<1>4. PICK c \in Citations : c = q.stream
  BY <1>3
<1>5. PICK w : w = CASE q.do = "deleteCitation" -> SC!NoRow
                     [] q.do = "moveCitation"
                       /\ SC!KeyHolds(q.arg) -> [version |-> q.expected, source |-> q.arg]
                     [] OTHER -> citations[c]
  OBVIOUS
<1>6. citations' = [citations EXCEPT ![c] = w]
  BY <1>1, <1>4, <1>5 DEF SC!FinishCitation
<1>7. SC!Idle \in SourceRequests /\ SC!Idle.pc # "append"
        /\ \A k \in Citations : ~Pending(SC!Idle, k)
  BY DEF SourceRequests, SC!Idle, Pending
<1>8. /\ Follows(c, citations, head, req, setting.store) /\ head[c] \in Heads
      /\ citations \in [Citations -> {SC!NoRow} \union CitationRows]
  BY DEF RaceInv, CitationsFollow, SourceTypes
<1>9. CASE q.do = "createCitation"
  <2>1. w = citations[c]
    BY <1>5, <1>9
  <2>2. citations' = citations
    BY <1>6, <1>8, <2>1
  <2>3. \A k \in Citations : ~Pending(q, k)
    BY <1>2, <1>9 DEF Pending
  <2>4. /\ sources' \in [Sources -> {SC!NoRow} \union SourceRows]
        /\ \A s \in Sources : SC!Exists(sources'[s]) => Behind(sources'[s].version, head[s])
        /\ \A s \in Sources : SC!Exists(sources[s]) => SC!Exists(sources'[s]) \/ Ended(head[s])
    BY <1>2 DEF RaceInv, SourceTypes, RowsStand
  <2> QED
    BY <1>1, <1>2, <1>7, <2>2, <2>3, <2>4, QuietRace
<1>10. CASE q.do # "createCitation"
  <2>1. Pending(q, c)
    BY <1>2, <1>4, <1>10 DEF Pending
  <2>2. /\ q.expected = head[c].version /\ citations[c].version < head[c].version
        /\ head[c].alive <=> q.do # "deleteCitation"
    BY <1>1, <1>2, <1>8, <2>1 DEF Follows
  <2>3. CASE q.do = "deleteCitation"
    <3>1. w = SC!NoRow /\ w.version = 0
      BY <1>5, <2>3 DEF SC!NoRow
    <3>2. w.version = IF head[c].alive THEN head[c].version ELSE 0
      BY <2>2, <2>3, <3>1
    <3> QED
      BY <1>1, <1>2, <1>6, <1>7, <2>1, <3>1, <3>2, RowRace
  <2>4. CASE q.do = "moveCitation" /\ SC!KeyHolds(q.arg)
    <3>1. w = [version |-> q.expected, source |-> q.arg]
      BY <1>5, <2>4
    <3>2. w \in CitationRows /\ w.version = q.expected
      BY <1>3, <1>8, <2>2, <2>4, <3>1 DEF CitationRows, Heads
    <3>3. w.version = IF head[c].alive THEN head[c].version ELSE 0
      BY <2>2, <2>4, <3>2
    <3> QED
      BY <1>1, <1>2, <1>6, <1>7, <2>1, <3>2, <3>3, RowRace
  <2>5. CASE q.do = "moveCitation" /\ ~SC!KeyHolds(q.arg)
    <3>1. w = citations[c]
      BY <1>5, <2>5
    <3>2. Excused(setting.store, head)
      BY <1>1, <1>2, <1>3, <2>5, KeyRefused
    <3>3. w \in {SC!NoRow} \union CitationRows
      BY <1>8, <3>1
    <3> QED
      BY <1>1, <1>2, <1>6, <1>7, <2>1, <3>1, <3>2, <3>3, RowRace
  <2> QED
    BY <1>3, <1>10, <2>3, <2>4, <2>5
<1> QED
  BY <1>9, <1>10

(***************************************************************************)
(* However requests race, their streams, rows and requests stand.          *)
(***************************************************************************)
THEOREM RaceInvariant ==
  ASSUME SC!SlotsInUse, SC!IdsApart
  PROVE  SC!Spec => []RaceInv
<1>1. ASSUME SC!Init PROVE RaceInv
  <2>1. setting.slots \subseteq Slots /\ IsFiniteSet(setting.slots)
    BY <1>1, SameSizes DEF SC!Init, SC!SlotsInUse
  <2>2. /\ \A s \in Sources : ~SC!Exists(sources[s])
        /\ \A c \in Citations : ~SC!Exists(citations[c]) /\ citations[c].version = 0
        /\ \A i \in Sources \union Citations : head[i].version = 0 /\ ~head[i].alive
        /\ \A r \in Slots : req[r] = SC!Idle
    BY <1>1 DEF SC!Init, SC!Exists, SC!NoRow
  <2>3. SourceTypes
    <3>1. {c \in Citations : SC!Exists(citations[c])} = {}
      BY <2>2
    <3>2. [version |-> 0, alive |-> FALSE] \in Heads
      BY DEF Heads
    <3>3. SC!Idle \in SourceRequests
      BY DEF SourceRequests
    <3> QED
      BY <1>1, <2>1, <2>2, <3>1, <3>2, <3>3, FS_EmptySet DEF SC!Init, SourceTypes
  <2>4. RowsStand /\ RequestsStand
    BY <2>2 DEF RowsStand, RequestsStand
  <2>5. CitationsFollow
    <3>1. \A c : ~Pending(SC!Idle, c)
      BY DEF Pending, SC!Idle
    <3> QED
      BY <2>2, <3>1 DEF CitationsFollow, Follows, SC!Idle
  <2> QED
    BY <2>3, <2>4, <2>5 DEF RaceInv
<1>2. ASSUME RaceInv, [SC!Next]_(SC!vars) PROVE RaceInv'
  <2>1. CASE SC!Next
    <3>1. setting' = setting
      BY <2>1 DEF SC!Next
    <3>2. PICK r \in setting.slots : SC!Step(r)
      BY <2>1 DEF SC!Next
    <3>3. CASE Begins(r)
      BY <1>2, <3>1, <3>3, BeginRace
    <3>4. CASE SC!AppendEvent(r)
      BY <1>2, <3>1, <3>4, AppendRace
    <3>5. CASE SC!ProjectSource(r) \/ SC!ReadForUpdate(r) \/ SC!SaveUpdate(r)
      BY <1>2, <3>1, <3>5, ProjectSourceRace
    <3>6. CASE SC!ProjectLeaving(r) \/ SC!ReadForCount(r) \/ SC!SaveCount(r)
      BY <1>2, <3>1, <3>6, CountRace
    <3>7. CASE SC!ProjectCreated(r)
      BY <1>2, <3>1, <3>7, CreatedRace
    <3>8. CASE SC!FinishCitation(r)
      BY <1>2, <3>1, <3>8, FinishRace
    <3> QED
      BY <3>2, <3>3, <3>4, <3>5, <3>6, <3>7, <3>8 DEF SC!Step, Begins
  <2>2. CASE UNCHANGED SC!vars
    BY <1>2, <2>2 DEF SC!vars, RaceInv, SourceTypes, RowsStand, RequestsStand, CitationsFollow
  <2> QED
    BY <1>2, <2>1, <2>2
<1> QED
  BY <1>1, <1>2, PTL DEF SC!Spec

-----------------------------------------------------------------------------
(* However requests race, citations follow their streams.                  *)

(***************************************************************************)
(* Once no request is in flight, a citation's row is at its stream's       *)
(* version, and gone if that ended.                                        *)
(***************************************************************************)
LEMMA RestFollows == RaceInv => SC!CitationFollowsStream
<1> SUFFICES ASSUME RaceInv, SC!AtRest,
                    SC!Sql => \A s \in Sources : head[s].version > 0 => head[s].alive,
                    NEW c \in Citations
             PROVE  citations[c].version = IF head[c].alive THEN head[c].version ELSE 0
  BY DEF SC!CitationFollowsStream
<1>1. \A r \in Slots : ~Pending(req[r], c)
  BY DEF SC!AtRest, Pending, SC!Idle
<1>2. ~Excused(setting.store, head)
  BY DEF SC!Sql, Excused, Ended
<1> QED
  BY <1>1, <1>2 DEF RaceInv, CitationsFollow, Follows

-----------------------------------------------------------------------------
(* One request at a time: sources count their citations.                   *)

(***************************************************************************)
(* What a citation's new row changes about the number of citations of a    *)
(* source.                                                                 *)
(***************************************************************************)
LEMMA CitingChanges ==
  ASSUME NEW cs \in [Citations -> {SC!NoRow} \union CitationRows],
         IsFiniteSet({k \in Citations : SC!Exists(cs[k])}),
         NEW c \in Citations, NEW w \in {SC!NoRow} \union CitationRows,
         NEW s \in Sources
  PROVE  /\ Cardinality(Citing(cs, s)) \in Nat
         /\ c \in Citing(cs, s) => Cardinality(Citing(cs, s)) > 0
         /\ Cardinality(Citing([cs EXCEPT ![c] = w], s)) =
              Cardinality(Citing(cs, s)) + Cites(w, s)
                - Cites(cs[c], s)
<1> DEFINE Old == Citing(cs, s)
           Rest == Old \ {c}
           New == Citing([cs EXCEPT ![c] = w], s)
<1>1. IsFiniteSet(Old) /\ IsFiniteSet(Rest)
  <2>1. Old \subseteq {k \in Citations : SC!Exists(cs[k])} /\ Rest \subseteq Old
    BY DEF Citing
  <2> QED
    BY <2>1, FS_Subset
<1>2. Cardinality(Old) \in Nat /\ Cardinality(Rest) \in Nat
  BY <1>1, FS_CardinalityType
<1>3. Cardinality(Rest \union {c}) = Cardinality(Rest) + 1
  BY <1>1, FS_AddElement
<1>4. /\ c \in Old => Old = Rest \union {c}
      /\ c \notin Old => Old = Rest
      /\ c \in New => New = Rest \union {c}
      /\ c \notin New => New = Rest
  BY DEF Citing
<1>5. /\ c \in Old <=> SC!Exists(cs[c]) /\ cs[c].source = s
      /\ c \in New <=> SC!Exists(w) /\ w.source = s
  BY DEF Citing
<1>6. /\ Cardinality(Old) = Cardinality(Rest) + (IF c \in Old THEN 1 ELSE 0)
      /\ Cardinality(New) = Cardinality(Rest) + (IF c \in New THEN 1 ELSE 0)
  <2>1. /\ c \in Old => Cardinality(Old) = Cardinality(Rest) + 1
        /\ c \in New => Cardinality(New) = Cardinality(Rest) + 1
    BY <1>3, <1>4
  <2>2. /\ c \notin Old => Cardinality(Old) = Cardinality(Rest)
        /\ c \notin New => Cardinality(New) = Cardinality(Rest)
    BY <1>4
  <2> HIDE DEF Old, New, Rest
  <2> QED
    BY <1>2, <2>1, <2>2
<1>7. /\ Cites(w, s) = IF c \in New THEN 1 ELSE 0
      /\ Cites(cs[c], s) = IF c \in Old THEN 1 ELSE 0
  BY <1>5 DEF Cites
<1>8. c \in Old => Cardinality(Old) > 0
  BY <1>2, <1>6
<1>9. Cardinality(New) =
        Cardinality(Old) + (IF c \in New THEN 1 ELSE 0) - (IF c \in Old THEN 1 ELSE 0)
  BY <1>2, <1>6
<1> QED
  BY <1>2, <1>7, <1>8, <1>9

\* What the lemmas below say of the next state.
TalliedNext(r) ==
  /\ KeysHold(sources', citations')
  /\ Prepared(req'[r], sources', citations')
  /\ Counted(req'[r], sources', citations')

(***************************************************************************)
(* A request's first step changes no row, and prepares what is to come.    *)
(***************************************************************************)
LEMMA BeginTally ==
  ASSUME RaceInv, RaceInv', NEW r \in Slots, Tallied(req[r]), Begins(r)
  PROVE  TalliedNext(r)
<1>1. PICK do, stream, expected, arg :
        /\ SC!Decide(r, do, stream, expected, arg)
        /\ do \in {"createSource", "updateSource", "deleteSource",
                   "createCitation", "moveCitation", "deleteCitation"}
        /\ do = "createSource" => stream \in Sources /\ SC!Fresh(stream)
        /\ do = "deleteSource" => stream \in Sources /\ SC!Uncited(stream)
        /\ do = "createCitation" => stream \in Citations /\ SC!Fresh(stream)
        /\ do \in {"createCitation", "moveCitation"} => SC!Exists(sources[arg])
  BY DEF Begins, SC!CreateSource, SC!UpdateSource, SC!DeleteSource,
         SC!CreateCitation, SC!MoveCitation, SC!DeleteCitation
<1>2. PICK v : v = [pc |-> "append", do |-> do, stream |-> stream,
                    expected |-> expected, arg |-> arg, todo |-> <<>>]
  OBVIOUS
<1>3. /\ req' = [req EXCEPT ![r] = v] /\ req[r] = SC!Idle
      /\ UNCHANGED <<sources, citations, head>>
  BY <1>1, <1>2 DEF SC!Decide
<1>4. req'[r] = v /\ v \in SourceRequests
  BY <1>3 DEF RaceInv, SourceTypes
<1>5. v.pc = "append" /\ v.do = do /\ v.stream = stream /\ v.arg = arg
  BY <1>2
<1>6. KeysHold(sources', citations') /\ Counted(v, sources', citations')
  BY <1>3, <1>5 DEF Tallied, Counted, Counting, SC!Idle
<1>7. v \in SourceDeletes => Citing(citations', v.stream) = {}
  <2>1. v \in SourceDeletes => do = "deleteSource"
    BY <1>4, <1>5, SourceKinds
  <2> QED
    BY <1>1, <1>3, <1>5, <2>1 DEF SC!Uncited, SC!CitationsOf, Citing
<1>8. v.do = "createSource" => ~SC!Exists(sources'[v.stream])
  <2> SUFFICES ASSUME do = "createSource", SC!Exists(sources[stream]) PROVE FALSE
    BY <1>3, <1>5
  <2>1. stream \in Sources /\ head[stream].version = 0
    BY <1>1 DEF SC!Fresh
  <2>2. Behind(sources[stream].version, head[stream])
    BY <2>1 DEF RaceInv, RowsStand
  <2>3. sources[stream].version \in Nat
    BY <2>1 DEF RaceInv, SourceTypes, SC!NoRow, SourceRows
  <2> QED
    BY <2>1, <2>2, <2>3 DEF Behind
<1>9. v.do = "createCitation" => ~SC!Exists(citations'[v.stream])
  <2> SUFFICES ASSUME do = "createCitation", SC!Exists(citations[stream]) PROVE FALSE
    BY <1>3, <1>5
  <2>1. stream \in Citations /\ head[stream].version = 0
    BY <1>1 DEF SC!Fresh
  <2>2. citations[stream].version <= head[stream].version
    BY <2>1 DEF RaceInv, CitationsFollow, Follows
  <2>3. citations[stream].version \in Nat
    BY <2>1 DEF RaceInv, SourceTypes, SC!NoRow, CitationRows
  <2> QED
    BY <2>1, <2>2, <2>3 DEF SC!Exists
<1>10. v \in Placing => SC!Exists(sources'[v.arg])
  <2>1. v \in Placing => do \in {"createCitation", "moveCitation"}
    BY <1>4, <1>5, SourceKinds
  <2> QED
    BY <1>1, <1>3, <1>5, <2>1
<1>11. v \notin SourceSaves
  BY <1>5 DEF SourceSaves
<1> QED
  BY <1>4, <1>5, <1>6, <1>7, <1>8, <1>9, <1>10, <1>11 DEF TalliedNext, Prepared, Counting

(***************************************************************************)
(* An idle request has nothing to change.                                  *)
(***************************************************************************)
LEMMA IdlePrepared ==
  ASSUME NEW rs, NEW cs PROVE Prepared(SC!Idle, rs, cs)
BY DEF Prepared, SC!Idle, Counting, SourceDeletes, SourceWrites, SourceSaves, Placing,
       CitationWrites, WriteCounts

(***************************************************************************)
(* The append changes no row.                                              *)
(***************************************************************************)
LEMMA AppendTally ==
  ASSUME RaceInv, RaceInv', NEW r \in Slots, Tallied(req[r]), SC!AppendEvent(r)
  PROVE  TalliedNext(r)
<1>1. PICK q : q = req[r]
  OBVIOUS
<1>2. /\ q.pc = "append" /\ UNCHANGED <<sources, citations>>
      /\ q \in SourceRequests /\ req'[r] \in SourceRequests
  BY <1>1 DEF SC!AppendEvent, RaceInv, SourceTypes
<1>3. KeysHold(sources', citations')
  BY <1>2 DEF Tallied
<1>4. CASE SC!Accepted(r)
  <2>1. PICK e : e = head[q.stream].version + 1
    OBVIOUS
  <2>2. PICK v : v = [q EXCEPT !.pc = "project", !.expected = e]
    OBVIOUS
  <2>3. req' = [req EXCEPT ![r] = v]
    BY <1>1, <1>4, <2>1, <2>2 DEF SC!AppendEvent
  <2>4. req'[r] = v
    BY <2>3 DEF RaceInv, SourceTypes
  <2>5. q \in SourceWrites \union SourceDeletes \union CitationWrites \union CitationDeletes
    BY <1>2, SourceKinds
  <2>6. /\ v.pc = "project" /\ v.do = q.do /\ v.stream = q.stream /\ v.arg = q.arg
    BY <2>2, <2>5 DEF SourceWrites, SourceDeletes, CitationWrites, CitationDeletes
  <2>7. v \in SourceRequests
    BY <1>2, <2>4
  <2>8. /\ v \in SourceDeletes => q \in SourceDeletes
        /\ v \in SourceWrites => q \in SourceWrites
        /\ v \in Placing => q \in Placing
        /\ v \in CitationWrites => q \in CitationWrites
        /\ v \notin SourceSaves
    BY <2>5, <2>6 DEF SourceWrites, SourceDeletes, CitationWrites, CitationDeletes,
                      Placing, WriteCounts, SourceSaves
  <2>9. Prepared(q, sources, citations)
    BY <1>1 DEF Tallied
  <2>10. Prepared(v, sources', citations')
    BY <1>2, <2>6, <2>8, <2>9 DEF Prepared, Counting
  <2>11. Counted(v, sources', citations')
    BY <1>1, <1>2, <2>6 DEF Tallied, Counted, Counting
  <2> QED
    BY <1>3, <2>4, <2>10, <2>11 DEF TalliedNext
<1>5. CASE ~SC!Accepted(r)
  <2>1. req'[r] = SC!Idle
    BY <1>1, <1>5 DEF SC!AppendEvent, RaceInv, SourceTypes
  <2>2. Counted(SC!Idle, sources', citations')
    BY <1>1, <1>2 DEF Tallied, Counted, Counting, SC!Idle
  <2> QED
    BY <1>3, <2>1, <2>2, IdlePrepared DEF TalliedNext
<1> QED
  BY <1>4, <1>5

(***************************************************************************)
(* A source is created and deleted without citations, and an update saves  *)
(* the count that it read.                                                 *)
(***************************************************************************)
LEMMA SourceTally ==
  ASSUME RaceInv, RaceInv', NEW r \in Slots, Tallied(req[r]),
         SC!ProjectSource(r) \/ SC!ReadForUpdate(r) \/ SC!SaveUpdate(r)
  PROVE  TalliedNext(r)
<1>1. PICK q : q = req[r]
  OBVIOUS
<1>2. /\ q \in SourceRequests /\ citations' = citations /\ ~Counting(q)
      /\ req'[r] \in SourceRequests
      /\ sources \in [Sources -> {SC!NoRow} \union SourceRows]
      /\ req \in [Slots -> SourceRequests]
  BY <1>1 DEF SC!ProjectSource, SC!ReadForUpdate, SC!SaveUpdate, RaceInv, SourceTypes, Counting
<1>3. /\ KeysHold(sources, citations) /\ Prepared(q, sources, citations)
      /\ \A s \in Sources :
           SC!Exists(sources[s]) => sources[s].count = Cardinality(Citing(citations, s))
  BY <1>1, <1>2 DEF Tallied, Counted
<1>4. ASSUME NEW s \in Sources, NEW w, sources' = [sources EXCEPT ![s] = w], req'[r] = SC!Idle,
             SC!Exists(w) => w.count = Cardinality(Citing(citations, s)),
             ~SC!Exists(w) => Citing(citations, s) = {}
      PROVE  TalliedNext(r)
  <2>1. /\ sources'[s] = w
        /\ \A t \in Sources : t # s => sources'[t] = sources[t]
    BY <1>2, <1>4
  <2>2. KeysHold(sources', citations)
    <3> SUFFICES ASSUME NEW c \in Citations, SC!Exists(citations[c])
                 PROVE  SC!Exists(sources'[citations[c].source])
      BY DEF KeysHold
    <3>1. citations[c].source \in Sources
      <4>1. citations[c] \in {SC!NoRow} \union CitationRows
        BY DEF RaceInv, SourceTypes
      <4> QED
        BY <4>1 DEF SC!NoRow, SC!Exists, CitationRows
    <3>2. citations[c].source = s => c \in Citing(citations, s)
      BY DEF Citing
    <3> QED
      BY <1>3, <1>4, <2>1, <3>1, <3>2 DEF KeysHold
  <2>3. Counted(SC!Idle, sources', citations)
    <3>1. ~Counting(SC!Idle)
      BY DEF Counting, SC!Idle
    <3> QED
      BY <1>3, <1>4, <2>1, <3>1 DEF Counted
  <2> QED
    BY <1>2, <1>4, <2>2, <2>3, IdlePrepared DEF TalliedNext
<1>5. CASE SC!ProjectSource(r)
  <2>1. /\ q.pc = "project" /\ q.do \in {"createSource", "deleteSource"} /\ req'[r] = SC!Idle
    BY <1>1, <1>2, <1>5 DEF SC!ProjectSource, SC!Finished
  <2>2. q \in SourceWrites \union SourceDeletes
    BY <1>2, <2>1, SourceKinds DEF CitationWrites, CitationDeletes
  <2>3. q.stream \in Sources
    BY <2>2 DEF SourceWrites, SourceDeletes
  <2>4. CASE q.do = "createSource"
    <3>1. q \in SourceWrites
      BY <2>2, <2>4 DEF SourceDeletes
    <3>2. ~SC!Exists(sources[q.stream])
      BY <1>3, <2>4, <3>1 DEF Prepared
    <3>3. Citing(citations, q.stream) = {}
      BY <1>3, <3>2 DEF KeysHold, Citing
    <3>4. PICK w : w = [version |-> q.expected, title |-> q.arg, count |-> 0]
      OBVIOUS
    <3>5. sources' = [sources EXCEPT ![q.stream] = w] /\ w.count = 0
      BY <1>1, <1>5, <2>4, <3>4 DEF SC!ProjectSource
    <3> QED
      BY <1>4, <2>1, <2>3, <3>3, <3>5, FS_EmptySet
  <2>5. CASE q.do = "deleteSource"
    <3>1. q \in SourceDeletes
      BY <2>2, <2>5 DEF SourceWrites
    <3>2. Citing(citations, q.stream) = {}
      BY <1>3, <3>1 DEF Prepared
    <3>3. SC!CitationsOf(q.stream) = {}
      BY <3>2 DEF SC!CitationsOf, Citing
    <3>4. sources' = [sources EXCEPT ![q.stream] = SC!NoRow]
      BY <1>1, <1>5, <2>5, <3>3 DEF SC!ProjectSource
    <3>5. ~SC!Exists(SC!NoRow)
      BY DEF SC!Exists, SC!NoRow
    <3> QED
      BY <1>4, <2>1, <2>3, <3>2, <3>4, <3>5
  <2> QED
    BY <2>1, <2>4, <2>5
<1>6. CASE SC!ReadForUpdate(r)
  <2>1. q.pc = "project" /\ q.do = "updateSource" /\ sources' = sources
    BY <1>1, <1>6 DEF SC!ReadForUpdate
  <2>2. q \in SourceWrites
    BY <1>2, <2>1, SourceKinds DEF SourceDeletes, CitationWrites, CitationDeletes
  <2>3. q.stream \in Sources
    BY <2>2 DEF SourceWrites
  <2>4. KeysHold(sources', citations')
    BY <1>2, <1>3, <2>1
  <2>5. \A v : ~Counting(v) => Counted(v, sources', citations')
    BY <1>2, <1>3, <2>1 DEF Counted
  <2>6. CASE SC!Exists(sources[q.stream])
    <3>1. PICK w : w = [sources[q.stream] EXCEPT !.title = q.arg, !.version = q.expected]
      OBVIOUS
    <3>2. PICK v : v = [pc |-> "save", do |-> q.do, stream |-> q.stream, todo |-> <<>>, row |-> w]
      OBVIOUS
    <3>3. req' = [req EXCEPT ![r] = v]
      BY <1>1, <1>6, <2>6, <3>1, <3>2 DEF SC!ReadForUpdate
    <3>4. req'[r] = v /\ v.pc = "save" /\ v.stream = q.stream /\ v.row = w
      BY <1>2, <3>2, <3>3
    <3>5. sources[q.stream] \in SourceRows
      BY <1>2, <2>3, <2>6 DEF SC!Exists, SC!NoRow
    <3>6. w.count = sources[q.stream].count
      BY <3>1, <3>5 DEF SourceRows
    <3>7. v \notin SourceDeletes /\ v \notin SourceWrites /\ v \notin Placing
      BY <3>4 DEF SourceDeletes, SourceWrites, Placing, CitationWrites, WriteCounts
    <3>8. v \notin CitationWrites
      BY <3>7 DEF Placing
    <3>9. Prepared(v, sources', citations')
      BY <2>1, <2>6, <3>4, <3>6, <3>7, <3>8 DEF Prepared, Counting
    <3>10. ~Counting(v)
      BY <3>4 DEF Counting
    <3> QED
      BY <2>4, <2>5, <3>4, <3>9, <3>10 DEF TalliedNext
  <2>7. CASE ~SC!Exists(sources[q.stream])
    <3>1. req'[r] = SC!Idle
      BY <1>1, <1>2, <1>6, <2>7 DEF SC!ReadForUpdate
    <3>2. ~Counting(SC!Idle)
      BY DEF Counting, SC!Idle
    <3> QED
      BY <2>4, <2>5, <3>1, <3>2, IdlePrepared DEF TalliedNext
  <2> QED
    BY <2>6, <2>7
<1>7. CASE SC!SaveUpdate(r)
  <2>1. /\ q.pc = "save" /\ q.do = "updateSource" /\ req'[r] = SC!Idle
        /\ sources' = [sources EXCEPT ![q.stream] = q.row]
    BY <1>1, <1>2, <1>7 DEF SC!SaveUpdate, SC!Finished
  <2>2. q \in SourceSaves /\ q.stream \in Sources
    BY <1>2, <2>1, SourceKinds
  <2>3. SC!Exists(sources[q.stream]) /\ q.row.count = sources[q.stream].count
    BY <1>3, <2>2 DEF Prepared
  <2>4. Stands(q, head, sources)
    BY <1>1, <1>2, <2>1 DEF RaceInv, RequestsStand, SC!Idle
  <2>5. SC!Exists(q.row)
    BY <2>1, <2>4 DEF Stands, Behind, SC!Exists
  <2> QED
    BY <1>3, <1>4, <2>1, <2>2, <2>3, <2>5
<1> QED
  BY <1>5, <1>6, <1>7

-----------------------------------------------------------------------------
(* What is left to count.                                                  *)

(***************************************************************************)
(* What the lists of changes come to.                                      *)
(***************************************************************************)
LEMMA WhatIsLeft ==
  ASSUME NEW from, NEW to, NEW s
  PROVE  /\ Left(<<>>, s) = 0
         /\ Left(<<SC!CountChange(to, 1)>>, s) = Is(s, to)
         /\ Left(<<SC!CountChange(from, -1)>>, s) = -Is(s, from)
         /\ Left(<<SC!CountChange(from, -1), SC!CountChange(to, 1)>>, s)
              = Is(s, to) - Is(s, from)
<1>1. Left(<<>>, s) = 0
  BY DEF Left
<1>2. \A i, d : LET t == <<SC!CountChange(i, d)>> IN
        Len(t) = 1 /\ t[1].source = i /\ t[1].delta = d
  BY DEF SC!CountChange
<1>3. \A i, d, j, e : LET t == <<SC!CountChange(i, d), SC!CountChange(j, e)>> IN
        /\ Len(t) = 2 /\ t[1].source = i /\ t[1].delta = d
        /\ t[2].source = j /\ t[2].delta = e
  BY DEF SC!CountChange
<1>4. Left(<<SC!CountChange(to, 1)>>, s) = Is(s, to)
  <2>1. PICK t : t = <<SC!CountChange(to, 1)>>
    OBVIOUS
  <2>2. Len(t) = 1 /\ t[1].source = to /\ t[1].delta = 1
    BY <1>2, <2>1
  <2> QED
    BY <2>1, <2>2 DEF Left, Is
<1>5. Left(<<SC!CountChange(from, -1)>>, s) = -Is(s, from)
  <2>1. PICK t : t = <<SC!CountChange(from, -1)>>
    OBVIOUS
  <2>2. Len(t) = 1 /\ t[1].source = from /\ t[1].delta = -1
    BY <1>2, <2>1
  <2> QED
    BY <2>1, <2>2 DEF Left, Is
<1>6. Left(<<SC!CountChange(from, -1), SC!CountChange(to, 1)>>, s)
        = Is(s, to) - Is(s, from)
  <2>1. PICK t : t = <<SC!CountChange(from, -1), SC!CountChange(to, 1)>>
    OBVIOUS
  <2>2. /\ Len(t) = 2 /\ t[1].source = from /\ t[1].delta = -1
        /\ t[2].source = to /\ t[2].delta = 1
    BY <1>3, <2>1
  <2> QED
    BY <2>1, <2>2 DEF Left, Is
<1> QED
  BY <1>1, <1>4, <1>5, <1>6

(***************************************************************************)
(* The first change of a request that counts: the source it leaves loses   *)
(* one, the one it is for gains one.                                       *)
(***************************************************************************)
LEMMA NextChange ==
  ASSUME NEW q, q.do \in {"createCitation", "moveCitation", "deleteCitation"},
         NEW from, q.todo \in Todos(q, from), q.todo # <<>>,
         q.do = "createCitation" => from = q.arg
  PROVE  /\ Tail(q.todo) \in Todos(q, from)
         /\ \/ /\ q.todo[1].source = from /\ q.todo[1].delta = -1
               /\ q.do # "createCitation" /\ Ahead(q, from, from) = 0
            \/ /\ q.todo[1].source = q.arg /\ q.todo[1].delta = 1 /\ q.do # "deleteCitation"
               /\ Ahead(q, from, q.arg) = IF q.do = "createCitation" THEN -1 ELSE 0
         /\ \A s : /\ Left(q.todo, s) \in Int
                   /\ Left(Tail(q.todo), s) =
                        Left(q.todo, s)
                          - (IF s = q.todo[1].source THEN q.todo[1].delta ELSE 0)
<1> DEFINE Gain == <<SC!CountChange(q.arg, 1)>>
           Loss == <<SC!CountChange(from, -1)>>
           Both == <<SC!CountChange(from, -1), SC!CountChange(q.arg, 1)>>
<1>1. \/ q.todo = Gain /\ q.do = "createCitation"
      \/ q.todo = Loss /\ q.do = "deleteCitation"
      \/ q.todo = Gain /\ q.do = "moveCitation" /\ from # q.arg
      \/ q.todo = Both /\ q.do = "moveCitation" /\ from # q.arg
  BY DEF Todos
<1>2. /\ Tail(Gain) = <<>> /\ Gain[1].source = q.arg /\ Gain[1].delta = 1
      /\ Tail(Loss) = <<>> /\ Loss[1].source = from /\ Loss[1].delta = -1
      /\ Tail(Both) = Gain /\ Both[1].source = from /\ Both[1].delta = -1
  BY DEF SC!CountChange
<1>3. \A s : /\ Left(<<>>, s) = 0 /\ Left(Gain, s) = Is(s, q.arg)
             /\ Left(Loss, s) = -Is(s, from)
             /\ Left(Both, s) = Is(s, q.arg) - Is(s, from)
  BY WhatIsLeft
<1>4. \A s : /\ Is(s, q.arg) = IF s = q.arg THEN 1 ELSE 0
             /\ Is(s, from) = IF s = from THEN 1 ELSE 0
  BY DEF Is
<1>5. /\ <<>> \in Todos(q, from)
      /\ q.do = "moveCitation" /\ from # q.arg => Gain \in Todos(q, from)
  BY DEF Todos
<1> HIDE DEF Gain, Loss, Both
<1>6. Tail(q.todo) \in Todos(q, from)
  BY <1>1, <1>2, <1>5
<1>7. \A s : /\ Left(q.todo, s) \in Int
             /\ Left(Tail(q.todo), s) =
                  Left(q.todo, s) - (IF s = q.todo[1].source THEN q.todo[1].delta ELSE 0)
  <2> SUFFICES ASSUME NEW s
               PROVE  /\ Left(q.todo, s) \in Int
                      /\ Left(Tail(q.todo), s) =
                           Left(q.todo, s) - (IF s = q.todo[1].source THEN q.todo[1].delta ELSE 0)
    OBVIOUS
  <2>1. PICK a \in {0, 1}, b \in {0, 1} :
          a = (IF s = q.arg THEN 1 ELSE 0) /\ b = IF s = from THEN 1 ELSE 0
    OBVIOUS
  <2>2. Left(<<>>, s) = 0 /\ Left(Gain, s) = a /\ Left(Loss, s) = -b /\ Left(Both, s) = a - b
    BY <1>3, <1>4, <2>1
  <2>3. CASE q.todo = Gain
    <3>1. Left(q.todo, s) = a /\ Left(Tail(q.todo), s) = 0
      BY <1>2, <2>2, <2>3
    <3>2. q.todo[1].source = q.arg /\ q.todo[1].delta = 1
      BY <1>2, <2>3
    <3> QED
      BY <1>1, <2>1, <2>3, <3>1, <3>2
  <2>4. CASE q.todo = Loss
    <3>1. Left(q.todo, s) = -b /\ Left(Tail(q.todo), s) = 0
      BY <1>2, <2>2, <2>4
    <3>2. q.todo[1].source = from /\ q.todo[1].delta = -1
      BY <1>2, <2>4
    <3> QED
      BY <1>1, <2>1, <2>4, <3>1, <3>2
  <2>5. CASE q.todo = Both
    <3>1. Left(q.todo, s) = a - b /\ Left(Tail(q.todo), s) = a
      BY <1>2, <2>2, <2>5
    <3>2. q.todo[1].source = from /\ q.todo[1].delta = -1
      BY <1>2, <2>5
    <3> QED
      BY <1>1, <2>1, <2>5, <3>1, <3>2
  <2> QED
    BY <1>1, <2>3, <2>4, <2>5
<1>8. \/ /\ q.todo[1].source = from /\ q.todo[1].delta = -1
         /\ q.do # "createCitation" /\ Ahead(q, from, from) = 0
      \/ /\ q.todo[1].source = q.arg /\ q.todo[1].delta = 1 /\ q.do # "deleteCitation"
         /\ Ahead(q, from, q.arg) = IF q.do = "createCitation" THEN -1 ELSE 0
  <2>1. CASE q.todo = Gain /\ q.do = "createCitation"
    <3>1. Left(q.todo, q.arg) = 1 /\ Due(q, from, q.arg) = 0
      BY <1>3, <1>4, <2>1 DEF Due
    <3> QED
      BY <1>2, <2>1, <3>1 DEF Ahead
  <2>2. CASE q.todo = Loss /\ q.do = "deleteCitation"
    <3>1. Left(q.todo, from) = -1 /\ Due(q, from, from) = -1
      BY <1>3, <1>4, <2>2 DEF Due
    <3> QED
      BY <1>2, <2>2, <3>1 DEF Ahead
  <2>3. CASE q.todo = Gain /\ q.do = "moveCitation" /\ from # q.arg
    <3>1. Left(q.todo, q.arg) = 1 /\ Due(q, from, q.arg) = 1
      BY <1>3, <1>4, <2>3 DEF Due
    <3> QED
      BY <1>2, <2>3, <3>1 DEF Ahead
  <2>4. CASE q.todo = Both /\ q.do = "moveCitation" /\ from # q.arg
    <3>1. Left(q.todo, from) = -1 /\ Due(q, from, from) = -1
      BY <1>3, <1>4, <2>4 DEF Due
    <3> QED
      BY <1>2, <2>4, <3>1 DEF Ahead
  <2> QED
    BY <1>1, <2>1, <2>2, <2>3, <2>4
<1> QED
  BY <1>6, <1>7, <1>8

-----------------------------------------------------------------------------
(* One request at a time: the projections of citations.                    *)

(***************************************************************************)
(* A new citation's row, whose source has yet to count it.                 *)
(***************************************************************************)
LEMMA CreatedTally ==
  ASSUME RaceInv, RaceInv', NEW r \in Slots, Tallied(req[r]), SC!ProjectCreated(r)
  PROVE  TalliedNext(r)
<1>1. PICK q : q = req[r]
  OBVIOUS
<1>2. /\ q \in SourceRequests /\ req'[r] \in SourceRequests /\ sources' = sources
      /\ q.pc = "project" /\ q.do = "createCitation"
      /\ citations \in [Citations -> {SC!NoRow} \union CitationRows]
      /\ IsFiniteSet({k \in Citations : SC!Exists(citations[k])})
      /\ req \in [Slots -> SourceRequests]
  BY <1>1 DEF SC!ProjectCreated, RaceInv, SourceTypes
<1>3. /\ KeysHold(sources, citations) /\ Prepared(q, sources, citations)
      /\ \A s \in Sources :
           SC!Exists(sources[s]) => sources[s].count = Cardinality(Citing(citations, s))
  BY <1>1, <1>2 DEF Tallied, Counted, Counting
<1>4. q \in CitationWrites
  BY <1>2, SourceKinds DEF SourceWrites, SourceDeletes, CitationDeletes
<1>5. q \in Placing /\ q.stream \in Citations /\ q.arg \in Sources /\ q.expected \in Int
  BY <1>4 DEF Placing, CitationWrites
<1>6. SC!Exists(sources[q.arg]) /\ ~SC!Exists(citations[q.stream])
  BY <1>2, <1>3, <1>4, <1>5 DEF Prepared, Counting
<1>7. Stands(q, head, sources)
  BY <1>1, <1>2 DEF RaceInv, RequestsStand, SC!Idle
<1>8. PICK w : w = [version |-> q.expected, source |-> q.arg]
  OBVIOUS
<1>9. /\ w \in CitationRows /\ SC!Exists(w) /\ w.source = q.arg
  BY <1>2, <1>5, <1>7, <1>8 DEF Stands, CitationRows, SC!Exists
<1>10. PICK v : v = [q EXCEPT !.pc = "count", !.todo = <<SC!CountChange(q.arg, 1)>>]
  OBVIOUS
<1>11. SC!KeyHolds(q.arg)
  BY <1>6 DEF SC!KeyHolds
<1>12. citations' = [citations EXCEPT ![q.stream] = w] /\ req' = [req EXCEPT ![r] = v]
  BY <1>1, <1>8, <1>10, <1>11 DEF SC!ProjectCreated, SC!Then
<1>13. req'[r] = v /\ v \in SourceRequests
  BY <1>2, <1>12
<1>14. /\ v.pc = "count" /\ v.do = "createCitation" /\ v.stream = q.stream /\ v.arg = q.arg
       /\ v.todo = <<SC!CountChange(q.arg, 1)>>
  BY <1>2, <1>4, <1>10 DEF CitationWrites
<1>15. /\ citations'[q.stream] = w
       /\ \A c \in Citations : c # q.stream => citations'[c] = citations[c]
  BY <1>2, <1>5, <1>12
<1>16. KeysHold(sources', citations')
  BY <1>2, <1>3, <1>6, <1>9, <1>15 DEF KeysHold
<1>17. Prepared(v, sources', citations')
  <2>1. v \notin SourceDeletes /\ v \notin SourceWrites /\ v \notin SourceSaves
    BY <1>14 DEF SourceDeletes, SourceWrites, SourceSaves
  <2>2. v.todo \in Todos(v, q.arg)
    BY <1>14 DEF Todos
  <2> QED
    BY <1>2, <1>6, <1>9, <1>14, <1>15, <2>1, <2>2 DEF Prepared, Counting
<1>18. ASSUME NEW s \in Sources, SC!Exists(sources[s])
       PROVE  sources[s].count = Cardinality(Citing(citations', s)) + Ahead(v, q.arg, s)
  <2>1. /\ Cardinality(Citing(citations, s)) \in Nat
        /\ Cardinality(Citing(citations', s)) =
             Cardinality(Citing(citations, s)) + Cites(w, s) - Cites(citations[q.stream], s)
    BY <1>2, <1>5, <1>9, <1>12, CitingChanges
  <2>2. Cites(w, s) = Is(s, q.arg) /\ Cites(citations[q.stream], s) = 0
    BY <1>6, <1>9 DEF Cites, Is
  <2>3. Due(v, q.arg, s) = 0 /\ Left(v.todo, s) = Is(s, q.arg)
    BY <1>14, WhatIsLeft DEF Due
  <2>4. Is(s, q.arg) \in {0, 1}
    BY DEF Is
  <2> QED
    BY <1>3, <1>18, <2>1, <2>2, <2>3, <2>4 DEF Ahead
<1>19. Counted(v, sources', citations')
  BY <1>2, <1>9, <1>14, <1>15, <1>18 DEF Counted, Counting
<1> QED
  BY <1>13, <1>16, <1>17, <1>19 DEF TalliedNext

(***************************************************************************)
(* What a move or a delete is to change, before it has changed anything.   *)
(***************************************************************************)
LEMMA LeavingTally ==
  ASSUME RaceInv, RaceInv', NEW r \in Slots, Tallied(req[r]), SC!ProjectLeaving(r)
  PROVE  TalliedNext(r)
<1>1. PICK q : q = req[r]
  OBVIOUS
<1>2. /\ q \in SourceRequests /\ req'[r] \in SourceRequests
      /\ UNCHANGED <<sources, citations>>
      /\ q.pc = "project" /\ q.do \in {"moveCitation", "deleteCitation"}
      /\ citations \in [Citations -> {SC!NoRow} \union CitationRows]
      /\ IsFiniteSet({k \in Citations : SC!Exists(citations[k])})
      /\ req \in [Slots -> SourceRequests]
  BY <1>1 DEF SC!ProjectLeaving, RaceInv, SourceTypes
<1>3. /\ KeysHold(sources, citations) /\ Prepared(q, sources, citations)
      /\ \A s \in Sources :
           SC!Exists(sources[s]) => sources[s].count = Cardinality(Citing(citations, s))
  BY <1>1, <1>2 DEF Tallied, Counted, Counting
<1>4. q \in CitationWrites \union CitationDeletes /\ q.stream \in Citations
  <2>1. q \in CitationWrites \union CitationDeletes
    BY <1>2, SourceKinds DEF SourceWrites, SourceDeletes
  <2> QED
    BY <2>1 DEF CitationWrites, CitationDeletes
<1>5. Pending(q, q.stream)
  BY <1>2 DEF Pending
<1>6. SC!Exists(citations[q.stream])
  BY <1>1, <1>2, <1>4, <1>5 DEF RaceInv, CitationsFollow, Follows
<1>7. PICK from : from = citations[q.stream].source
  OBVIOUS
<1>8. PICK todo : todo = IF q.do = "moveCitation" THEN SC!Leaves(from, q.arg)
                         ELSE <<SC!CountChange(from, -1)>>
  OBVIOUS
<1>9. PICK v : v = [q EXCEPT !.pc = "count", !.todo = todo]
  OBVIOUS
<1>10. req'[r] = v
  <2>1. req' = [req EXCEPT ![r] = v]
    BY <1>1, <1>6, <1>7, <1>8, <1>9 DEF SC!ProjectLeaving, SC!Then
  <2> QED
    BY <1>2, <2>1
<1>11. /\ v.pc = "count" /\ v.do = q.do /\ v.stream = q.stream /\ v.arg = q.arg
       /\ v.todo = todo
  BY <1>4, <1>9 DEF CitationWrites, CitationDeletes
<1>12. v \in Placing => q \in Placing
  BY <1>2, <1>4, <1>10, <1>11, SourceKinds DEF OnCitations, Placing
<1>13. todo \in Todos(v, from)
  BY <1>2, <1>8, <1>11 DEF SC!Leaves, Todos
<1>14. \A s : Ahead(v, from, s) = 0
  <2> SUFFICES ASSUME NEW s PROVE Ahead(v, from, s) = 0
    OBVIOUS
  <2>1. Is(s, q.arg) \in {0, 1} /\ Is(s, from) \in {0, 1}
    BY DEF Is
  <2>2. CASE q.do = "moveCitation" /\ from = q.arg
    <3>1. todo = <<>>
      BY <1>8, <2>2 DEF SC!Leaves
    <3>2. Left(todo, s) = 0
      BY <3>1, WhatIsLeft
    <3> QED
      BY <1>11, <2>1, <2>2, <3>2 DEF Ahead, Due
  <2>3. CASE q.do = "moveCitation" /\ from # q.arg
    <3>1. todo = <<SC!CountChange(from, -1), SC!CountChange(q.arg, 1)>>
      BY <1>8, <2>3 DEF SC!Leaves
    <3>2. Left(todo, s) = Is(s, q.arg) - Is(s, from)
      BY <3>1, WhatIsLeft
    <3> QED
      BY <1>11, <2>1, <2>3, <3>2 DEF Ahead, Due
  <2>4. CASE q.do = "deleteCitation"
    <3>1. todo = <<SC!CountChange(from, -1)>>
      BY <1>8, <2>4
    <3>2. Left(todo, s) = -Is(s, from)
      BY <3>1, WhatIsLeft
    <3> QED
      BY <1>11, <2>1, <2>4, <3>2 DEF Ahead, Due
  <2> QED
    BY <1>2, <2>2, <2>3, <2>4
<1>15. KeysHold(sources', citations')
  BY <1>2, <1>3
<1>16. Prepared(v, sources', citations')
  <2>1. v \notin SourceDeletes /\ v \notin SourceWrites /\ v \notin SourceSaves
    BY <1>11 DEF SourceDeletes, SourceWrites, SourceSaves
  <2> QED
    BY <1>2, <1>3, <1>6, <1>7, <1>11, <1>12, <1>13, <2>1 DEF Prepared, Counting
<1>17. Counted(v, sources', citations')
  <2>1. \A s \in Sources : Cardinality(Citing(citations, s)) \in Nat
    BY <1>2, <1>4, CitingChanges
  <2> QED
    BY <1>2, <1>3, <1>7, <1>11, <1>14, <2>1 DEF Counted, Counting
<1> QED
  BY <1>10, <1>15, <1>16, <1>17 DEF TalliedNext

\* A request that counts, and the row of its citation.
CountsFrom(q, rs, cs, from) ==
  /\ q \in OnCitations /\ q.stream \in Citations /\ SC!Exists(cs[q.stream])
  /\ from = cs[q.stream].source /\ from \in Sources /\ SC!Exists(rs[from])
  /\ q.do \in {"createCitation", "moveCitation", "deleteCitation"}
  /\ q.do # "deleteCitation" => q.arg \in Sources /\ SC!Exists(rs[q.arg])
  /\ q.do = "createCitation" => from = q.arg
  /\ q.todo \in Todos(q, from)
  /\ \A s \in Sources : SC!Exists(rs[s])
    => rs[s].count = Cardinality(Citing(cs, s)) + Ahead(q, from, s)

(***************************************************************************)
(* A request that counts has its citation's row, the row's source and the  *)
(* one it is for.                                                          *)
(***************************************************************************)
LEMMA CountsFromRow ==
  ASSUME RaceInv, NEW r \in Slots, Tallied(req[r]), Counting(req[r])
  PROVE  CountsFrom(req[r], sources, citations, citations[req[r].stream].source)
<1>1. PICK q : q = req[r]
  OBVIOUS
<1>2. q \in SourceRequests /\ q.pc \in {"count", "saveCount"}
  BY <1>1 DEF RaceInv, SourceTypes, Counting
<1>3. /\ q \in OnCitations /\ q.stream \in Citations
      /\ q.do \in {"createCitation", "moveCitation", "deleteCitation"}
      /\ q.do # "deleteCitation" => q \in Placing /\ q.arg \in Sources
  <2>1. q \in OnCitations
    BY <1>2, SourceKinds DEF OnCitations, Placing
  <2> QED
    BY <1>2, <2>1, SourceKinds
<1>4. /\ KeysHold(sources, citations) /\ Prepared(q, sources, citations)
      /\ Counted(q, sources, citations)
  BY <1>1 DEF Tallied
<1>5. SC!Exists(citations[q.stream]) /\ q.todo \in Todos(q, citations[q.stream].source)
  BY <1>2, <1>4 DEF Prepared, Counting
<1>6. citations[q.stream].source \in Sources
  <2>1. citations[q.stream] \in {SC!NoRow} \union CitationRows
    BY <1>3 DEF RaceInv, SourceTypes
  <2> QED
    BY <1>5, <2>1 DEF SC!NoRow, SC!Exists, CitationRows
<1>7. /\ SC!Exists(sources[citations[q.stream].source])
      /\ q.do = "createCitation" => citations[q.stream].source = q.arg
      /\ q.do # "deleteCitation" => SC!Exists(sources[q.arg])
  BY <1>2, <1>3, <1>4, <1>5 DEF KeysHold, Prepared, Counting
<1>8. \A s \in Sources : SC!Exists(sources[s]) =>
        sources[s].count =
          Cardinality(Citing(citations, s)) + Ahead(q, citations[q.stream].source, s)
  BY <1>2, <1>4 DEF Counted, Counting
<1> QED
  BY <1>1, <1>3, <1>5, <1>6, <1>7, <1>8 DEF CountsFrom

(***************************************************************************)
(* The count that is read is changed by one, and never below zero.         *)
(***************************************************************************)
LEMMA ReadCountTally ==
  ASSUME RaceInv, RaceInv', NEW r \in Slots, Tallied(req[r]), SC!ReadForCount(r)
  PROVE  TalliedNext(r)
<1>1. PICK q : q = req[r]
  OBVIOUS
<1>2. /\ q \in SourceRequests /\ req'[r] \in SourceRequests
      /\ UNCHANGED <<sources, citations>>
      /\ q.pc = "count" /\ q.todo # <<>>
      /\ sources \in [Sources -> {SC!NoRow} \union SourceRows]
      /\ citations \in [Citations -> {SC!NoRow} \union CitationRows]
      /\ IsFiniteSet({k \in Citations : SC!Exists(citations[k])})
      /\ req \in [Slots -> SourceRequests]
  BY <1>1 DEF SC!ReadForCount, RaceInv, SourceTypes
<1>3. PICK from : from = citations[q.stream].source
  OBVIOUS
<1>4. CountsFrom(q, sources, citations, from)
  BY <1>1, <1>2, <1>3, CountsFromRow DEF Counting
<1>5. \/ /\ q.todo[1].source = from /\ q.todo[1].delta = -1
         /\ q.do # "createCitation" /\ Ahead(q, from, from) = 0
      \/ /\ q.todo[1].source = q.arg /\ q.todo[1].delta = 1 /\ q.do # "deleteCitation"
         /\ Ahead(q, from, q.arg) = IF q.do = "createCitation" THEN -1 ELSE 0
  BY <1>2, <1>4, NextChange DEF CountsFrom
<1>6. PICK s : s = q.todo[1].source
  OBVIOUS
<1>7. PICK delta : delta = q.todo[1].delta
  OBVIOUS
<1>8. s \in Sources /\ SC!Exists(sources[s]) /\ delta \in {-1, 1}
  BY <1>4, <1>5, <1>6, <1>7 DEF CountsFrom
<1>9. sources[s].count + delta >= 0 /\ sources[s].count \in Int
  <2>1. Cardinality(Citing(citations, from)) \in Nat /\ Cardinality(Citing(citations, s)) \in Nat
    BY <1>2, <1>4, <1>8, CitingChanges DEF CountsFrom
  <2>2. Cardinality(Citing(citations, from)) > 0
    <3>1. q.stream \in Citing(citations, from)
      BY <1>3, <1>4 DEF CountsFrom, Citing
    <3> QED
      BY <1>2, <1>4, <3>1, CitingChanges DEF CountsFrom
  <2>3. sources[s].count = Cardinality(Citing(citations, s)) + Ahead(q, from, s)
    BY <1>4, <1>8 DEF CountsFrom
  <2>4. CASE s = from /\ delta = -1 /\ Ahead(q, from, from) = 0
    BY <2>1, <2>2, <2>3, <2>4
  <2>5. CASE s = q.arg /\ delta = 1 /\ q.do = "createCitation" /\ Ahead(q, from, q.arg) = -1
    BY <1>4, <2>1, <2>2, <2>3, <2>5 DEF CountsFrom
  <2>6. CASE s = q.arg /\ delta = 1 /\ Ahead(q, from, q.arg) = 0
    BY <2>1, <2>3, <2>6
  <2> QED
    BY <1>5, <1>6, <1>7, <2>4, <2>5, <2>6
<1>10. PICK w : w = [sources[s] EXCEPT !.count = sources[s].count + delta]
  OBVIOUS
<1>11. PICK v : v = [pc |-> "saveCount", do |-> q.do, stream |-> q.stream, arg |-> q.arg,
                     expected |-> q.expected, todo |-> q.todo, row |-> w]
  OBVIOUS
<1>12. req'[r] = v
  <2>1. w = [sources[s] EXCEPT !.count = IF sources[s].count + delta < 0 THEN 0
                                         ELSE sources[s].count + delta]
    BY <1>8, <1>9, <1>10
  <2>2. req' = [req EXCEPT ![r] = v]
    BY <1>1, <1>6, <1>7, <1>8, <1>11, <2>1 DEF SC!ReadForCount
  <2> QED
    BY <1>2, <2>2
<1>13. /\ v.pc = "saveCount" /\ v.do = q.do /\ v.stream = q.stream /\ v.arg = q.arg
       /\ v.todo = q.todo /\ v.row = w
  BY <1>11
<1>14. w.count = sources[s].count + delta
  <2>1. sources[s] \in SourceRows
    BY <1>2, <1>8 DEF SC!NoRow, SC!Exists
  <2> QED
    BY <1>10, <2>1 DEF SourceRows
<1>15. v \in Placing => SC!Exists(sources[v.arg])
  <2>1. v \in Placing => v.do # "deleteCitation"
    BY <1>2, <1>12, SourceKinds
  <2> QED
    BY <1>4, <1>13, <2>1 DEF CountsFrom
<1>16. Prepared(v, sources', citations')
  <2>1. v \notin SourceDeletes /\ v \notin SourceWrites /\ v \notin SourceSaves
    BY <1>13 DEF SourceDeletes, SourceWrites, SourceSaves
  <2>2. v.todo \in Todos(v, from)
    BY <1>4, <1>13 DEF CountsFrom, Todos
  <2>3. /\ SC!Exists(citations[v.stream]) /\ from = citations[v.stream].source
        /\ v.do = "createCitation" => from = v.arg
    BY <1>3, <1>4, <1>13 DEF CountsFrom
  <2>4. v.row.count = sources[v.todo[1].source].count + v.todo[1].delta
    BY <1>6, <1>7, <1>13, <1>14
  <2> QED
    BY <1>2, <1>13, <1>15, <2>1, <2>2, <2>3, <2>4 DEF Prepared, Counting
<1>17. Counted(v, sources', citations')
  <2>1. \A t : Ahead(v, from, t) = Ahead(q, from, t)
    BY <1>13 DEF Ahead, Due
  <2> QED
    BY <1>2, <1>3, <1>4, <1>13, <2>1 DEF Counted, Counting, CountsFrom
<1>18. KeysHold(sources', citations')
  BY <1>1, <1>2 DEF Tallied
<1> QED
  BY <1>12, <1>16, <1>17, <1>18 DEF TalliedNext

(***************************************************************************)
(* The count that is saved is the one that was read, changed by one: that  *)
(* much less is left to change.                                            *)
(***************************************************************************)
LEMMA SaveCountTally ==
  ASSUME RaceInv, RaceInv', NEW r \in Slots, Tallied(req[r]), SC!SaveCount(r)
  PROVE  TalliedNext(r)
<1>1. PICK q : q = req[r]
  OBVIOUS
<1>2. /\ q \in SourceRequests /\ req'[r] \in SourceRequests /\ citations' = citations
      /\ q.pc = "saveCount"
      /\ sources \in [Sources -> {SC!NoRow} \union SourceRows]
      /\ citations \in [Citations -> {SC!NoRow} \union CitationRows]
      /\ IsFiniteSet({k \in Citations : SC!Exists(citations[k])})
      /\ req \in [Slots -> SourceRequests]
  BY <1>1 DEF SC!SaveCount, RaceInv, SourceTypes
<1>3. PICK from : from = citations[q.stream].source
  OBVIOUS
<1>4. CountsFrom(q, sources, citations, from)
  BY <1>1, <1>2, <1>3, CountsFromRow DEF Counting
<1>5. Stands(q, head, sources)
  BY <1>1, <1>2 DEF RaceInv, RequestsStand, SC!Idle
<1>6. q.todo # <<>> /\ SC!Exists(q.row)
  BY <1>2, <1>5 DEF Stands, Behind, SC!Exists
<1>7. PICK s : s = q.todo[1].source
  OBVIOUS
<1>8. PICK delta : delta = q.todo[1].delta
  OBVIOUS
<1>9. /\ Tail(q.todo) \in Todos(q, from)
      /\ \/ s = from /\ delta = -1
         \/ s = q.arg /\ delta = 1 /\ q.do # "deleteCitation"
      /\ \A t : /\ Left(q.todo, t) \in Int
                /\ Left(Tail(q.todo), t) = Left(q.todo, t) - (IF t = s THEN delta ELSE 0)
  <2>1. /\ q.do \in {"createCitation", "moveCitation", "deleteCitation"}
        /\ q.todo \in Todos(q, from)
        /\ q.do = "createCitation" => from = q.arg
    BY <1>4 DEF CountsFrom
  <2>2. /\ Tail(q.todo) \in Todos(q, from)
        /\ \/ q.todo[1].source = from /\ q.todo[1].delta = -1
           \/ q.todo[1].source = q.arg /\ q.todo[1].delta = 1 /\ q.do # "deleteCitation"
    BY <1>6, <2>1, NextChange
  <2>3. \A t : /\ Left(q.todo, t) \in Int
               /\ Left(Tail(q.todo), t) =
                    Left(q.todo, t) - (IF t = q.todo[1].source THEN q.todo[1].delta ELSE 0)
    BY <1>6, <2>1, NextChange
  <2> QED
    BY <1>7, <1>8, <2>2, <2>3
<1>10. s \in Sources /\ SC!Exists(sources[s]) /\ delta \in Int
  BY <1>4, <1>9 DEF CountsFrom
<1>11. PICK todo : todo = Tail(q.todo)
  OBVIOUS
<1>12. PICK v : v = [q EXCEPT !.pc = "count", !.todo = todo]
  OBVIOUS
<1>13. req'[r] = v /\ sources' = [sources EXCEPT ![s] = q.row]
  <2>1. req' = [req EXCEPT ![r] = v]
    BY <1>1, <1>11, <1>12 DEF SC!SaveCount, SC!Then
  <2> QED
    BY <1>1, <1>2, <1>7, <2>1 DEF SC!SaveCount
<1>14. /\ v.pc = "count" /\ v.do = q.do /\ v.stream = q.stream /\ v.arg = q.arg
       /\ v.todo = todo
  <2>1. q \in WriteCounts \union DeleteCounts
    BY <1>2, SourceKinds
  <2> QED
    BY <1>12, <2>1 DEF WriteCounts, DeleteCounts
<1>15. q.row.count = sources[s].count + delta
  BY <1>1, <1>2, <1>7, <1>8 DEF Tallied, Prepared
<1>16. /\ sources'[s] = q.row
       /\ \A t \in Sources : t # s => sources'[t] = sources[t]
       /\ \A t \in Sources : SC!Exists(sources[t]) <=> SC!Exists(sources'[t])
  BY <1>2, <1>6, <1>10, <1>13
<1>17. KeysHold(sources', citations')
  <2> SUFFICES ASSUME NEW c \in Citations, SC!Exists(citations[c])
               PROVE  SC!Exists(sources'[citations[c].source])
    BY <1>2 DEF KeysHold
  <2>1. SC!Exists(sources[citations[c].source])
    BY <1>1 DEF Tallied, KeysHold
  <2>2. citations[c].source \in Sources
    <3>1. citations[c] \in {SC!NoRow} \union CitationRows
      BY <1>2
    <3> QED
      BY <3>1 DEF SC!NoRow, SC!Exists, CitationRows
  <2> QED
    BY <1>16, <2>1, <2>2
<1>18. Prepared(v, sources', citations')
  <2>1. v \notin SourceDeletes /\ v \notin SourceWrites /\ v \notin SourceSaves
    BY <1>14 DEF SourceDeletes, SourceWrites, SourceSaves
  <2>2. v.todo \in Todos(v, from)
    BY <1>9, <1>11, <1>14 DEF Todos
  <2>3. /\ SC!Exists(citations[v.stream]) /\ from = citations[v.stream].source
        /\ v.do = "createCitation" => from = v.arg
    BY <1>3, <1>4, <1>14 DEF CountsFrom
  <2>4. v \in Placing => SC!Exists(sources'[v.arg])
    <3>1. v \in Placing => v.do # "deleteCitation"
      BY <1>2, <1>13, SourceKinds
    <3> QED
      BY <1>4, <1>14, <1>16, <3>1 DEF CountsFrom
  <2> QED
    BY <1>2, <1>14, <2>1, <2>2, <2>3, <2>4 DEF Prepared, Counting
<1>19. ASSUME NEW t \in Sources, SC!Exists(sources'[t])
       PROVE  sources'[t].count = Cardinality(Citing(citations, t)) + Ahead(v, from, t)
  <2>1. sources[t].count = Cardinality(Citing(citations, t)) + Ahead(q, from, t)
    BY <1>4, <1>16, <1>19 DEF CountsFrom
  <2>2. Cardinality(Citing(citations, t)) \in Nat
    BY <1>2, <1>4, CitingChanges DEF CountsFrom
  <2>3. Due(v, from, t) = Due(q, from, t) /\ Due(q, from, t) \in Int
    BY <1>14 DEF Due, Is
  <2>4. /\ Left(q.todo, t) \in Int
        /\ Left(todo, t) = Left(q.todo, t) - (IF t = s THEN delta ELSE 0)
    BY <1>9, <1>11
  <2>5. Ahead(v, from, t) = Ahead(q, from, t) + (IF t = s THEN delta ELSE 0)
    BY <1>10, <1>14, <2>3, <2>4 DEF Ahead
  <2>6. Ahead(q, from, t) \in Int
    BY <2>3, <2>4 DEF Ahead
  <2> QED
    BY <1>10, <1>15, <1>16, <2>1, <2>2, <2>5, <2>6
<1>20. Counted(v, sources', citations')
  BY <1>2, <1>3, <1>14, <1>19 DEF Counted, Counting
<1> QED
  BY <1>13, <1>17, <1>18, <1>20 DEF TalliedNext

(***************************************************************************)
(* When a citation's row is written, all that is due has been counted.     *)
(***************************************************************************)
LEMMA FinishTally ==
  ASSUME RaceInv, RaceInv', NEW r \in Slots, Tallied(req[r]), SC!FinishCitation(r)
  PROVE  TalliedNext(r)
<1>1. PICK q : q = req[r]
  OBVIOUS
<1>2. /\ q \in SourceRequests /\ sources' = sources
      /\ q.pc = "count" /\ q.todo = <<>>
      /\ sources \in [Sources -> {SC!NoRow} \union SourceRows]
      /\ citations \in [Citations -> {SC!NoRow} \union CitationRows]
      /\ IsFiniteSet({k \in Citations : SC!Exists(citations[k])})
      /\ citations' \in [Citations -> {SC!NoRow} \union CitationRows]
      /\ req \in [Slots -> SourceRequests]
  BY <1>1 DEF SC!FinishCitation, RaceInv, SourceTypes
<1>3. PICK from : from = citations[q.stream].source
  OBVIOUS
<1>4. CountsFrom(q, sources, citations, from)
  BY <1>1, <1>2, <1>3, CountsFromRow DEF Counting
<1>5. req'[r] = SC!Idle
  BY <1>1, <1>2 DEF SC!FinishCitation, SC!Finished
<1>6. PICK c \in Citations : c = q.stream
  BY <1>4 DEF CountsFrom
<1>7. PICK w : w = CASE q.do = "deleteCitation" -> SC!NoRow
                     [] q.do = "moveCitation" /\ SC!KeyHolds(q.arg) ->
                          [version |-> q.expected, source |-> q.arg]
                     [] OTHER -> citations[c]
  OBVIOUS
<1>8. citations' = [citations EXCEPT ![c] = w]
  BY <1>1, <1>6, <1>7 DEF SC!FinishCitation
<1>9. /\ citations'[c] = w /\ w \in {SC!NoRow} \union CitationRows
      /\ \A k \in Citations : k # c => citations'[k] = citations[k]
  BY <1>2, <1>8
<1>10. q.do = "moveCitation" => SC!KeyHolds(q.arg)
  BY <1>4 DEF CountsFrom, SC!KeyHolds
<1>11. /\ q.do = "moveCitation" => w = [version |-> q.expected, source |-> q.arg]
       /\ q.do = "deleteCitation" => w = SC!NoRow
       /\ q.do = "createCitation" => w = citations[c]
  BY <1>7, <1>10
<1>12. q.do = "moveCitation" => SC!Exists(w) /\ w.source = q.arg
  <2> SUFFICES ASSUME q.do = "moveCitation" PROVE SC!Exists(w) /\ w.source = q.arg
    OBVIOUS
  <2>1. Pending(q, c)
    BY <1>2, <1>6 DEF Pending
  <2>2. citations[c].version < head[c].version /\ q.expected = head[c].version
    BY <1>1, <2>1 DEF RaceInv, CitationsFollow, Follows
  <2>3. citations[c].version \in Nat /\ head[c].version \in Nat
    BY <1>2 DEF RaceInv, SourceTypes, SC!NoRow, CitationRows, Heads
  <2> QED
    BY <1>11, <2>2, <2>3 DEF SC!Exists
<1>13. SC!Exists(w) => w.source \in Sources /\ SC!Exists(sources[w.source])
  <2>1. ~SC!Exists(SC!NoRow)
    BY DEF SC!Exists, SC!NoRow
  <2> QED
    BY <1>3, <1>4, <1>6, <1>11, <1>12, <2>1 DEF CountsFrom
<1>14. KeysHold(sources', citations')
  BY <1>1, <1>2, <1>9, <1>13 DEF Tallied, KeysHold
<1>15. ASSUME NEW s \in Sources, SC!Exists(sources[s])
       PROVE  sources[s].count = Cardinality(Citing(citations', s))
  <2>1. /\ Cardinality(Citing(citations, s)) \in Nat
        /\ Cardinality(Citing(citations', s)) =
             Cardinality(Citing(citations, s)) + Cites(w, s) - Cites(citations[c], s)
    <3>1. /\ Cardinality(Citing(citations, s)) \in Nat
          /\ Cardinality(Citing([citations EXCEPT ![c] = w], s)) =
               Cardinality(Citing(citations, s)) + Cites(w, s) - Cites(citations[c], s)
      BY <1>2, <1>9, CitingChanges
    <3> QED
      BY <1>8, <3>1
  <2>2. sources[s].count = Cardinality(Citing(citations, s)) + Ahead(q, from, s)
    BY <1>4, <1>15 DEF CountsFrom
  <2>3. Ahead(q, from, s) = Due(q, from, s)
    <3>1. Left(q.todo, s) = 0
      BY <1>2, WhatIsLeft
    <3> QED
      BY <3>1 DEF Ahead, Due, Is
  <2>4. Cites(citations[c], s) = Is(s, from) /\ Is(s, from) \in {0, 1} /\ Is(s, q.arg) \in {0, 1}
    BY <1>3, <1>4, <1>6 DEF CountsFrom, Cites, Is
  <2>5. Due(q, from, s) = Cites(w, s) - Cites(citations[c], s) /\ Cites(w, s) \in {0, 1}
    <3>1. CASE q.do = "createCitation"
      BY <1>11, <2>4, <3>1 DEF Due
    <3>2. CASE q.do = "moveCitation"
      <4>1. Cites(w, s) = Is(s, q.arg)
        BY <1>12, <3>2 DEF Cites, Is
      <4> QED
        BY <2>4, <3>2, <4>1 DEF Due
    <3>3. CASE q.do = "deleteCitation"
      <4>1. Cites(w, s) = 0
        BY <1>11, <3>3 DEF Cites, SC!Exists, SC!NoRow
      <4> QED
        BY <2>4, <3>3, <4>1 DEF Due
    <3> QED
      BY <1>4, <3>1, <3>2, <3>3 DEF CountsFrom
  <2> QED
    BY <2>1, <2>2, <2>3, <2>4, <2>5
<1>16. Counted(SC!Idle, sources', citations')
  <2>1. ~Counting(SC!Idle)
    BY DEF Counting, SC!Idle
  <2> QED
    BY <1>2, <1>15, <2>1 DEF Counted
<1> QED
  BY <1>5, <1>14, <1>16, IdlePrepared DEF TalliedNext

(***************************************************************************)
(* One request at a time, sources and requests count citations.            *)
(***************************************************************************)
THEOREM TallyInvariant ==
  ASSUME SC!SlotsInUse, SC!IdsApart
  PROVE  SC!Spec => []CountsTally
<1>1. ASSUME SC!Init PROVE CountsTally
  <2> SUFFICES ASSUME NEW r \in Slots PROVE Tallied(req[r])
    BY DEF CountsTally
  <2>1. /\ \A s \in Sources : ~SC!Exists(sources[s])
        /\ \A c \in Citations : ~SC!Exists(citations[c])
        /\ req[r] = SC!Idle
    BY <1>1 DEF SC!Init, SC!Exists, SC!NoRow
  <2> QED
    BY <2>1, IdlePrepared DEF Tallied, KeysHold, Counted
<1>2. ASSUME RaceInv, RaceInv', CountsTally, [SC!Next]_(SC!vars) PROVE CountsTally'
  <2> SUFFICES ASSUME NEW r \in Slots, setting'.slots = {r}
               PROVE  Tallied(req[r])'
    BY DEF CountsTally
  <2>1. CASE SC!Next
    <3>1. setting' = setting
      BY <2>1 DEF SC!Next
    <3>2. Tallied(req[r])
      BY <1>2, <3>1 DEF CountsTally
    <3>3. SC!Step(r)
      BY <2>1, <3>1 DEF SC!Next
    <3>4. TalliedNext(r)
      <4>1. CASE Begins(r)
        BY <1>2, <3>2, <4>1, BeginTally
      <4>2. CASE SC!AppendEvent(r)
        BY <1>2, <3>2, <4>2, AppendTally
      <4>3. CASE SC!ProjectSource(r) \/ SC!ReadForUpdate(r) \/ SC!SaveUpdate(r)
        BY <1>2, <3>2, <4>3, SourceTally
      <4>4. CASE SC!ProjectCreated(r)
        BY <1>2, <3>2, <4>4, CreatedTally
      <4>5. CASE SC!ProjectLeaving(r)
        BY <1>2, <3>2, <4>5, LeavingTally
      <4>6. CASE SC!ReadForCount(r)
        BY <1>2, <3>2, <4>6, ReadCountTally
      <4>7. CASE SC!SaveCount(r)
        BY <1>2, <3>2, <4>7, SaveCountTally
      <4>8. CASE SC!FinishCitation(r)
        BY <1>2, <3>2, <4>8, FinishTally
      <4> QED
        BY <3>3, <4>1, <4>2, <4>3, <4>4, <4>5, <4>6, <4>7, <4>8 DEF SC!Step, Begins
    <3> QED
      BY <3>4 DEF TalliedNext, Tallied
  <2>2. CASE UNCHANGED SC!vars
    BY <1>2, <2>2 DEF SC!vars, CountsTally, Tallied
  <2> QED
    BY <1>2, <2>1, <2>2
<1>3. SC!Spec => []RaceInv
  BY RaceInvariant
<1> QED
  BY <1>1, <1>2, <1>3, PTL DEF SC!Spec

(***************************************************************************)
(* Between requests that come one by one, sources count their citations.   *)
(***************************************************************************)
LEMMA RestCounts == RaceInv /\ CountsTally => SC!CountsMatch
<1> SUFFICES ASSUME RaceInv, CountsTally, SC!OneByOne, SC!AtRest
             PROVE  /\ \A s \in Sources :
                         SC!Exists(sources[s]) =>
                           sources[s].count = SC!Cardinality(SC!CitationsOf(s))
                    /\ \A c \in Citations :
                         SC!Exists(citations[c]) => SC!Exists(sources[citations[c].source])
  BY DEF SC!CountsMatch
<1>1. PICK r : setting.slots = {r}
  <2>1. Cardinality(setting.slots) = 1
    BY SameSizes DEF SC!OneByOne
  <2> QED
    BY <2>1, FS_Singleton DEF RaceInv, SourceTypes
<1>2. r \in Slots /\ req[r] = SC!Idle
  BY <1>1 DEF RaceInv, SourceTypes, SC!AtRest
<1>3. Tallied(SC!Idle) /\ ~Counting(SC!Idle)
  BY <1>1, <1>2 DEF CountsTally, Counting, SC!Idle
<1>4. \A s \in Sources : SC!Cardinality(SC!CitationsOf(s)) = Cardinality(Citing(citations, s))
  BY SameSizes DEF SC!CitationsOf, Citing
<1> QED
  BY <1>3, <1>4 DEF Tallied, Counted, KeysHold

-----------------------------------------------------------------------------
(* Fields: what commands send and projections take.                        *)

\* The type JSON gives back for a type.
Read(type) == FC!Decoded([type |-> type, value |-> Empty]).type

\* The projection takes what the command sends, before JSON and after, and
\* the text that a rollback may send instead; only a date is emptied by nil.
Agreed(kind, sent, taken) ==
  /\ sent \in taken /\ Read(sent) \in taken
  /\ sent \notin {"*GenDate", "created", "nil"} /\ Read(sent) \notin {"created", "nil"}
  /\ kind \in FC!RolledBack => "string" \in taken /\ Read(sent) = sent

(***************************************************************************)
(* They agree on the fields of the kind Person that are not excepted.      *)
(***************************************************************************)
LEMMA PersonAgrees ==
  ASSUME NEW f \in DOMAIN FC!PersonSends, [kind |-> "Person", field |-> f] \notin FC!Exceptions
  PROVE  Agreed("Person", FC!PersonSends[f], FC!PersonTakes[f])
BY DEF FC!Exceptions, FC!PersonSends, FC!PersonTakes, FC!All, FC!@@, FC!AnyType, Agreed, Read,
       FC!Decoded, FC!RolledBack, FC!FamilySends

(***************************************************************************)
(* They agree on the fields of the kind Family that are not excepted.      *)
(***************************************************************************)
LEMMA FamilyAgrees ==
  ASSUME NEW f \in DOMAIN FC!FamilySends, [kind |-> "Family", field |-> f] \notin FC!Exceptions
  PROVE  Agreed("Family", FC!FamilySends[f], FC!FamilyTakes[f])
BY DEF FC!Exceptions, FC!FamilySends, FC!FamilyTakes, FC!All, FC!@@, FC!AnyType, Agreed, Read,
       FC!Decoded, FC!RolledBack

(***************************************************************************)
(* They agree on the fields of the kind Source that are not excepted.      *)
(***************************************************************************)
LEMMA SourceAgrees ==
  ASSUME NEW f \in DOMAIN FC!SourceSends, [kind |-> "Source", field |-> f] \notin FC!Exceptions
  PROVE  Agreed("Source", FC!SourceSends[f], FC!SourceTakes[f])
BY DEF FC!Exceptions, FC!SourceSends, FC!SourceTakes, FC!All, FC!@@, FC!AnyType, Agreed, Read,
       FC!Decoded, FC!RolledBack, FC!FamilySends

(***************************************************************************)
(* They agree on the fields of the kind Citation that are not excepted.    *)
(***************************************************************************)
LEMMA CitationAgrees ==
  ASSUME NEW f \in DOMAIN FC!CitationSends, [kind |-> "Citation", field |-> f] \notin FC!Exceptions
  PROVE  Agreed("Citation", FC!CitationSends[f], FC!CitationTakes[f])
BY DEF FC!Exceptions, FC!CitationSends, FC!CitationTakes, FC!All, FC!@@, FC!AnyType, Agreed, Read,
       FC!Decoded, FC!RolledBack, FC!FamilySends

(***************************************************************************)
(* They agree on the fields of the kind Note that are not excepted.        *)
(***************************************************************************)
LEMMA NoteAgrees ==
  ASSUME NEW f \in DOMAIN FC!NoteSends, [kind |-> "Note", field |-> f] \notin FC!Exceptions
  PROVE  Agreed("Note", FC!NoteSends[f], FC!NoteTakes[f])
BY DEF FC!Exceptions, FC!NoteSends, FC!NoteTakes, FC!All, FC!@@, FC!AnyType, Agreed, Read,
       FC!Decoded, FC!RolledBack, FC!FamilySends

(***************************************************************************)
(* They agree on the fields of the kind Repository that are not excepted.  *)
(***************************************************************************)
LEMMA RepositoryAgrees ==
  ASSUME NEW f \in DOMAIN FC!RepositorySends, [kind |-> "Repository",
         field |-> f] \notin FC!Exceptions
  PROVE  Agreed("Repository", FC!RepositorySends[f], FC!RepositoryTakes[f])
BY DEF FC!Exceptions, FC!RepositorySends, FC!RepositoryTakes, FC!All, FC!@@, FC!AnyType, Agreed,
   Read,
       FC!Decoded, FC!RolledBack, FC!FamilySends

(***************************************************************************)
(* They agree on the fields of the kind LDSOrdinance that are not excepted. *)
(***************************************************************************)
LEMMA LDSOrdinanceAgrees ==
  ASSUME NEW f \in DOMAIN FC!OrdinanceSends, [kind |-> "LDSOrdinance",
         field |-> f] \notin FC!Exceptions
  PROVE  Agreed("LDSOrdinance", FC!OrdinanceSends[f], FC!OrdinanceTakes[f])
BY DEF FC!Exceptions, FC!OrdinanceSends, FC!OrdinanceTakes, FC!All, FC!@@, FC!AnyType, Agreed, Read,
       FC!Decoded, FC!RolledBack, FC!FamilySends

(***************************************************************************)
(* They agree on the fields of the kind EvidenceAnalysis that are not excepted. *)
(***************************************************************************)
LEMMA EvidenceAnalysisAgrees ==
  ASSUME NEW f \in DOMAIN FC!AnalysisSends, [kind |-> "EvidenceAnalysis",
         field |-> f] \notin FC!Exceptions
  PROVE  Agreed("EvidenceAnalysis", FC!AnalysisSends[f], FC!AnalysisTakes[f])
BY DEF FC!Exceptions, FC!AnalysisSends, FC!AnalysisTakes, FC!All, FC!@@, FC!AnyType, Agreed, Read,
       FC!Decoded, FC!RolledBack, FC!FamilySends

(***************************************************************************)
(* They agree on the fields of the kind ResearchLog that are not excepted. *)
(***************************************************************************)
LEMMA ResearchLogAgrees ==
  ASSUME NEW f \in DOMAIN FC!LogSends, [kind |-> "ResearchLog", field |-> f] \notin FC!Exceptions
  PROVE  Agreed("ResearchLog", FC!LogSends[f], FC!LogTakes[f])
BY DEF FC!Exceptions, FC!LogSends, FC!LogTakes, FC!All, FC!@@, FC!AnyType, Agreed, Read,
       FC!Decoded, FC!RolledBack, FC!FamilySends

(***************************************************************************)
(* They agree on the fields of the kind ProofSummary that are not excepted. *)
(***************************************************************************)
LEMMA ProofSummaryAgrees ==
  ASSUME NEW f \in DOMAIN FC!SummarySends, [kind |-> "ProofSummary",
         field |-> f] \notin FC!Exceptions
  PROVE  Agreed("ProofSummary", FC!SummarySends[f], FC!SummaryTakes[f])
BY DEF FC!Exceptions, FC!SummarySends, FC!SummaryTakes, FC!All, FC!@@, FC!AnyType, Agreed, Read,
       FC!Decoded, FC!RolledBack, FC!FamilySends

(***************************************************************************)
(* They agree on the fields of the kind Association that are not excepted. *)
(***************************************************************************)
LEMMA AssociationAgrees ==
  ASSUME NEW f \in DOMAIN FC!AssociationSends, [kind |-> "Association",
         field |-> f] \notin FC!Exceptions
  PROVE  Agreed("Association", FC!AssociationSends[f], FC!AssociationTakes[f])
BY DEF FC!Exceptions, FC!AssociationSends, FC!AssociationTakes, FC!All, FC!@@, FC!AnyType, Agreed,
   Read,
       FC!Decoded, FC!RolledBack, FC!FamilySends

(***************************************************************************)
(* They agree on the fields of the kind Media that are not excepted.       *)
(***************************************************************************)
LEMMA MediaAgrees ==
  ASSUME NEW f \in DOMAIN FC!MediaSends, [kind |-> "Media", field |-> f] \notin FC!Exceptions
  PROVE  Agreed("Media", FC!MediaSends[f], FC!MediaTakes[f])
BY DEF FC!Exceptions, FC!MediaSends, FC!MediaTakes, FC!All, FC!@@, FC!AnyType, Agreed, Read,
       FC!Decoded, FC!RolledBack, FC!FamilySends

(***************************************************************************)
(* They agree on the fields of the kind Submitter that are not excepted.   *)
(***************************************************************************)
LEMMA SubmitterAgrees ==
  ASSUME NEW f \in DOMAIN FC!SubmitterSends, [kind |-> "Submitter",
         field |-> f] \notin FC!Exceptions
  PROVE  Agreed("Submitter", FC!SubmitterSends[f], FC!SubmitterTakes[f])
BY DEF FC!Exceptions, FC!SubmitterSends, FC!SubmitterTakes, FC!All, FC!@@, FC!AnyType, Agreed, Read,
       FC!Decoded, FC!RolledBack, FC!FamilySends

\* What the field of the behaviour is sent and taken as.
Sent(s) == FC!Sends[s.kind][s.field]
Taken(s) == FC!Takes[s.kind][s.field]

(***************************************************************************)
(* They agree on every field that is not excepted.                         *)
(***************************************************************************)
LEMMA FieldsAgree ==
  ASSUME NEW kind \in DOMAIN FC!Sends, NEW f \in DOMAIN FC!Sends[kind],
         [kind |-> kind, field |-> f] \notin FC!Exceptions
  PROVE  Agreed(kind, FC!Sends[kind][f], FC!Takes[kind][f])
<1>1. kind \in {"Person", "Family", "Source", "Citation", "Note", "Repository", "LDSOrdinance",
                "EvidenceAnalysis", "ResearchLog", "ProofSummary", "Association", "Media",
                "Submitter"}
  BY DEF FC!Sends
<1>2. CASE kind = "Person"
  BY <1>2, PersonAgrees DEF FC!Sends, FC!Takes
<1>3. CASE kind = "Family"
  BY <1>3, FamilyAgrees DEF FC!Sends, FC!Takes
<1>4. CASE kind = "Source"
  BY <1>4, SourceAgrees DEF FC!Sends, FC!Takes
<1>5. CASE kind = "Citation"
  BY <1>5, CitationAgrees DEF FC!Sends, FC!Takes
<1>6. CASE kind = "Note"
  BY <1>6, NoteAgrees DEF FC!Sends, FC!Takes
<1>7. CASE kind = "Repository"
  BY <1>7, RepositoryAgrees DEF FC!Sends, FC!Takes
<1>8. CASE kind = "LDSOrdinance"
  BY <1>8, LDSOrdinanceAgrees DEF FC!Sends, FC!Takes
<1>9. CASE kind = "EvidenceAnalysis"
  BY <1>9, EvidenceAnalysisAgrees DEF FC!Sends, FC!Takes
<1>10. CASE kind = "ResearchLog"
  BY <1>10, ResearchLogAgrees DEF FC!Sends, FC!Takes
<1>11. CASE kind = "ProofSummary"
  BY <1>11, ProofSummaryAgrees DEF FC!Sends, FC!Takes
<1>12. CASE kind = "Association"
  BY <1>12, AssociationAgrees DEF FC!Sends, FC!Takes
<1>13. CASE kind = "Media"
  BY <1>13, MediaAgrees DEF FC!Sends, FC!Takes
<1>14. CASE kind = "Submitter"
  BY <1>14, SubmitterAgrees DEF FC!Sends, FC!Takes
<1> QED
  BY <1>1, <1>2, <1>3, <1>4, <1>5, <1>6, <1>7, <1>8, <1>9, <1>10, <1>11, <1>12, <1>13, <1>14

(***************************************************************************)
(* What is sent is a type that a value can have.                           *)
(***************************************************************************)
LEMMA SentTypes ==
  ASSUME NEW kind \in DOMAIN FC!Sends, NEW f \in DOMAIN FC!Sends[kind]
  PROVE  FC!Sends[kind][f] \in FC!AnyType \ {"nil"}
<1>1. kind \in {"Person", "Family", "Source", "Citation", "Note", "Repository", "LDSOrdinance",
                "EvidenceAnalysis", "ResearchLog", "ProofSummary", "Association", "Media",
                "Submitter"}
  BY DEF FC!Sends
<1>2. CASE kind = "Person"
  BY <1>2 DEF FC!Sends, FC!PersonSends, FC!All, FC!@@, FC!AnyType
<1>3. CASE kind = "Family"
  BY <1>3 DEF FC!Sends, FC!FamilySends, FC!All, FC!@@, FC!AnyType
<1>4. CASE kind = "Source"
  BY <1>4 DEF FC!Sends, FC!SourceSends, FC!All, FC!@@, FC!AnyType
<1>5. CASE kind = "Citation"
  BY <1>5 DEF FC!Sends, FC!CitationSends, FC!All, FC!@@, FC!AnyType
<1>6. CASE kind = "Note"
  BY <1>6 DEF FC!Sends, FC!NoteSends, FC!All, FC!@@, FC!AnyType
<1>7. CASE kind = "Repository"
  BY <1>7 DEF FC!Sends, FC!RepositorySends, FC!All, FC!@@, FC!AnyType
<1>8. CASE kind = "LDSOrdinance"
  BY <1>8 DEF FC!Sends, FC!OrdinanceSends, FC!All, FC!@@, FC!AnyType
<1>9. CASE kind = "EvidenceAnalysis"
  BY <1>9 DEF FC!Sends, FC!AnalysisSends, FC!All, FC!@@, FC!AnyType
<1>10. CASE kind = "ResearchLog"
  BY <1>10 DEF FC!Sends, FC!LogSends, FC!All, FC!@@, FC!AnyType
<1>11. CASE kind = "ProofSummary"
  BY <1>11 DEF FC!Sends, FC!SummarySends, FC!All, FC!@@, FC!AnyType
<1>12. CASE kind = "Association"
  BY <1>12 DEF FC!Sends, FC!AssociationSends, FC!All, FC!@@, FC!AnyType
<1>13. CASE kind = "Media"
  BY <1>13 DEF FC!Sends, FC!MediaSends, FC!All, FC!@@, FC!AnyType
<1>14. CASE kind = "Submitter"
  BY <1>14 DEF FC!Sends, FC!SubmitterSends, FC!All, FC!@@, FC!AnyType
<1> QED
  BY <1>1, <1>2, <1>3, <1>4, <1>5, <1>6, <1>7, <1>8, <1>9, <1>10, <1>11, <1>12, <1>13, <1>14

-----------------------------------------------------------------------------
(* Fields: rows and logs.                                                  *)

FieldValues == Values \union {Empty}
LoggedChanges == [type : FC!AnyType \union {"created"}, value : FieldValues]

\* A change of a field that is not excepted, as the log has it: text, what JSON
\* makes of what is sent, or a rollback's null.
Readable(s, change) == change.type \in {Read(Sent(s)), "string"} \/ change = FC!Null

FieldTypes ==
  /\ subject.kind \in DOMAIN FC!Sends /\ subject.field \in DOMAIN FC!Sends[subject.kind]
  /\ subject = [kind |-> subject.kind, field |-> subject.field]
  /\ row \in FieldValues
  /\ log \in Seq(LoggedChanges) /\ Len(log) > 0
  /\ \A n \in 1 .. Len(log) : log[n].type = "created" <=> n = 1

FieldInv ==
  /\ FieldTypes
  /\ subject \notin FC!Exceptions =>
       /\ \A n \in 2 .. Len(log) : Readable(subject, log[n])
       /\ FC!RebuiltAs(row)
       /\ FC!StateTo(Len(log)) # FC!Null => row = FC!StateTo(Len(log)).value

(***************************************************************************)
(* What JSON makes of a change: it keeps the value.                        *)
(***************************************************************************)
LEMMA DecodedChange ==
  ASSUME NEW change \in LoggedChanges
  PROVE  /\ FC!Decoded(change) \in LoggedChanges
         /\ FC!Decoded(change) = [type |-> Read(change.type), value |-> change.value]
         /\ Read(change.type) = "created" <=> change.type = "created"
         /\ change.type \in {"string", "map", "nil"} => FC!Decoded(change) = change
<1>1. \A t, v : FC!Decoded([type |-> t, value |-> v]) = [type |-> Read(t), value |-> v]
  BY DEF FC!Decoded, Read
<1>2. /\ \A t \in FC!AnyType : Read(t) \in FC!AnyType
      /\ Read("created") = "created"
      /\ \A t \in {"string", "map", "nil"} : Read(t) = t
  BY DEF FC!AnyType, Read, FC!Decoded
<1>3. change = [type |-> change.type, value |-> change.value]
  BY DEF LoggedChanges
<1>4. FC!Decoded(change) = [type |-> Read(change.type), value |-> change.value]
  BY <1>1, <1>3
<1>5. "created" \notin FC!AnyType
  BY DEF FC!AnyType
<1> QED
  BY <1>2, <1>3, <1>4, <1>5 DEF LoggedChanges

(***************************************************************************)
(* An event that the live projection and a rebuild take alike keeps rows   *)
(* and logs together.                                                      *)
(***************************************************************************)
LEMMA HappensKeeps ==
  ASSUME FieldInv, NEW change \in LoggedChanges, change.type # "created", FC!Happens(change),
         subject \notin FC!Exceptions =>
           /\ Readable(subject, FC!Decoded(change))
           /\ FC!Projected(row, FC!Decoded(change)) = FC!Projected(row, change)
           /\ FC!Decoded(change) # FC!Null => FC!Projected(row, change) = change.value
  PROVE  FieldInv'
<1>1. /\ subject' = subject /\ row' = FC!Projected(row, change)
      /\ log' = Append(log, FC!Decoded(change))
  BY DEF FC!Happens
<1>2. PICK d : d = FC!Decoded(change)
  OBVIOUS
<1>3. /\ d \in LoggedChanges /\ d.type # "created" /\ d.value = change.value
  BY <1>2, DecodedChange DEF LoggedChanges
<1>4. /\ log' \in Seq(LoggedChanges) /\ Len(log') = Len(log) + 1
      /\ \A n \in 1 .. Len(log) : log'[n] = log[n]
      /\ log'[Len(log) + 1] = d
      /\ Len(log) \in Nat /\ Len(log) > 0
  BY <1>1, <1>2, <1>3 DEF FieldInv, FieldTypes
<1>5. row' \in FieldValues
  BY <1>1 DEF FC!Projected, FieldInv, FieldTypes, LoggedChanges, FieldValues
<1>6. FieldTypes'
  BY <1>1, <1>3, <1>4, <1>5 DEF FieldInv, FieldTypes
<1>7. ASSUME subject \notin FC!Exceptions
      PROVE  /\ \A n \in 2 .. Len(log') : Readable(subject, log'[n])
             /\ FC!RebuiltAs(row)'
             /\ FC!StateTo(Len(log))' # FC!Null => row' = (FC!StateTo(Len(log))').value
  <2>1. \A n \in 2 .. Len(log') : Readable(subject, log'[n])
    <3>1. \A n \in 2 .. Len(log) : Readable(subject, log[n])
      BY <1>7 DEF FieldInv
    <3>2. Readable(subject, d)
      BY <1>2, <1>7
    <3> QED
      BY <1>4, <3>1, <3>2
  <2>2. FC!RebuiltAs(row)'
    <3>1. PICK after \in [1 .. Len(log) -> FieldValues] :
            FC!Rebuilt(after) /\ after[Len(log)] = row
      BY <1>7 DEF FieldInv, FC!RebuiltAs, FieldValues
    <3>2. PICK next : next = [n \in 1 .. Len(log') |-> IF n <= Len(log) THEN after[n] ELSE row']
      OBVIOUS
    <3>3. next \in [1 .. Len(log') -> FieldValues]
      BY <1>4, <1>5, <3>1, <3>2
    <3>4. /\ \A n \in 1 .. Len(log) : next[n] = after[n]
          /\ next[Len(log')] = row'
      BY <1>4, <3>2
    <3>5. next[1] = log'[1].value
      BY <1>4, <3>1, <3>4 DEF FC!Rebuilt
    <3>6. ASSUME NEW n \in 2 .. Len(log')
          PROVE  next[n] = FC!Projected(next[n - 1], log'[n])
      <4>1. CASE n <= Len(log)
        <5>1. n \in 2 .. Len(log) /\ n - 1 \in 1 .. Len(log) /\ n \in 1 .. Len(log)
          BY <1>4, <4>1
        <5> QED
          BY <1>4, <3>1, <3>4, <5>1 DEF FC!Rebuilt
      <4>2. CASE n = Len(log) + 1
        <5>1. next[n] = row' /\ next[n - 1] = row /\ log'[n] = d
          BY <1>4, <3>1, <3>4, <4>2
        <5> QED
          BY <1>1, <1>2, <1>7, <5>1
      <4> QED
        BY <1>4, <4>1, <4>2
    <3>7. FC!Rebuilt(next)'
      <4>1. \A old, c : FC!Projected(old, c)' = FC!Projected(old, c)
        BY <1>1 DEF FC!Projected
      <4> QED
        BY <1>1, <3>5, <3>6 DEF FC!Rebuilt, FC!Projected
    <3> QED
      BY <3>3, <3>4, <3>7 DEF FC!RebuiltAs, FieldValues
  <2>3. FC!StateTo(Len(log))' = d
    BY <1>3, <1>4 DEF FC!StateTo
  <2>4. d # FC!Null => row' = d.value
    BY <1>1, <1>2, <1>3, <1>7
  <2> QED
    BY <2>1, <2>2, <2>3, <2>4
<1> QED
  BY <1>1, <1>6, <1>7 DEF FieldInv

(***************************************************************************)
(* An update: the projection takes what the command sends, and what JSON   *)
(* makes of it.                                                            *)
(***************************************************************************)
LEMMA UpdateKeeps ==
  ASSUME FieldInv, FC!Update
  PROVE  FieldInv'
<1>1. PICK kind : kind = subject.kind
  OBVIOUS
<1>2. PICK f : f = subject.field
  OBVIOUS
<1>3. /\ kind \in DOMAIN FC!Sends /\ f \in DOMAIN FC!Sends[kind]
      /\ subject = [kind |-> kind, field |-> f]
  BY <1>1, <1>2 DEF FieldInv, FieldTypes
<1>4. PICK sent : sent = FC!Sends[kind][f]
  OBVIOUS
<1>5. sent \in FC!AnyType \ {"nil"} /\ sent = Sent(subject)
  BY <1>1, <1>2, <1>3, <1>4, SentTypes DEF Sent
<1>6. PICK change \in [type : {sent}, value : Values] \union FC!Emptied(sent) : FC!Happens(change)
  BY <1>1, <1>2, <1>4 DEF FC!Update
<1>7. \/ change.type = sent /\ change.value \in FieldValues
         /\ change = [type |-> change.type, value |-> change.value]
      \/ sent = "*GenDate" /\ change = [type |-> "nil", value |-> Empty]
  BY <1>6 DEF FC!Emptied, FieldValues
<1>8. "created" \notin FC!AnyType /\ "nil" \in FC!AnyType
  BY DEF FC!AnyType
<1>9. change \in LoggedChanges /\ change.type # "created"
  BY <1>5, <1>7, <1>8 DEF LoggedChanges, FieldValues
<1>10. ASSUME subject \notin FC!Exceptions
       PROVE  /\ Readable(subject, FC!Decoded(change))
              /\ FC!Projected(row, FC!Decoded(change)) = FC!Projected(row, change)
              /\ FC!Projected(row, change) = change.value
  <2>1. Agreed(kind, sent, FC!Takes[kind][f])
    BY <1>3, <1>4, <1>10, FieldsAgree
  <2>2. change.type = sent
    BY <1>7, <2>1 DEF Agreed
  <2>3. FC!Decoded(change) = [type |-> Read(sent), value |-> change.value]
    BY <1>9, <2>2, DecodedChange
  <2>4. sent \in FC!Takes[kind][f] /\ Read(sent) \in FC!Takes[kind][f]
    BY <2>1 DEF Agreed
  <2> QED
    BY <1>1, <1>2, <1>5, <2>2, <2>3, <2>4 DEF FC!Projected, Readable
<1> QED
  BY <1>6, <1>9, <1>10, HappensKeeps

(***************************************************************************)
(* A rollback sends what JSON has made of a value, which it keeps.         *)
(***************************************************************************)
LEMMA RollbackKeeps ==
  ASSUME FieldInv, FC!Rollback
  PROVE  FieldInv'
<1>1. PICK kind : kind = subject.kind
  OBVIOUS
<1>2. PICK f : f = subject.field
  OBVIOUS
<1>3. /\ kind \in DOMAIN FC!Sends /\ f \in DOMAIN FC!Sends[kind]
      /\ subject = [kind |-> kind, field |-> f]
      /\ log \in Seq(LoggedChanges) /\ Len(log) > 0
      /\ \A n \in 1 .. Len(log) : log[n].type = "created" <=> n = 1
  BY <1>1, <1>2 DEF FieldInv, FieldTypes
<1>4. PICK version \in 1 .. Len(log) - 1 : FC!Happens(FC!StateTo(version))
  BY DEF FC!Rollback
<1>5. PICK change : change = FC!StateTo(version)
  OBVIOUS
<1>6. /\ version \in 1 .. Len(log) /\ log[version] \in LoggedChanges
      /\ log[version].type = "created" <=> version = 1
  BY <1>3, <1>4
<1>7. /\ "created" \notin FC!AnyType /\ "nil" \in FC!AnyType /\ "string" \in FC!AnyType
      /\ FC!Null \in LoggedChanges /\ FC!Null.type = "nil"
  BY DEF FC!AnyType, FC!Null, LoggedChanges, FieldValues
<1>8. \/ change = log[version] /\ change.type # "created" /\ version \in 2 .. Len(log)
      \/ change = FC!Null
      \/ change = [type |-> "string", value |-> log[version].value]
  <2>1. log[version].type # "created" => version \in 2 .. Len(log)
    BY <1>6
  <2> QED
    BY <1>5, <2>1 DEF FC!StateTo
<1>9. change \in LoggedChanges /\ change.type # "created"
  BY <1>6, <1>7, <1>8 DEF LoggedChanges
<1>10. ASSUME subject \notin FC!Exceptions
       PROVE  /\ Readable(subject, FC!Decoded(change))
              /\ FC!Projected(row, FC!Decoded(change)) = FC!Projected(row, change)
              /\ FC!Decoded(change) # FC!Null => FC!Projected(row, change) = change.value
  <2>1. Agreed(kind, Sent(subject), FC!Takes[kind][f])
    BY <1>1, <1>2, <1>3, <1>10, FieldsAgree DEF Sent
  <2>2. Readable(subject, change)
    BY <1>8, <1>10 DEF FieldInv, Readable
  <2>3. /\ Read(Sent(subject)) = Sent(subject) /\ Sent(subject) \in FC!Takes[kind][f]
        /\ "string" \in FC!Takes[kind][f]
    BY <1>1, <2>1 DEF FC!Rollback, Agreed
  <2>4. FC!Decoded(change) = change
    <3>1. Read("string") = "string" /\ Read("nil") = "nil"
      BY DEF Read, FC!Decoded
    <3>2. Read(change.type) = change.type
      BY <1>7, <2>2, <2>3, <3>1 DEF Readable
    <3>3. FC!Decoded(change) = [type |-> Read(change.type), value |-> change.value]
      BY <1>9, DecodedChange
    <3>4. change = [type |-> change.type, value |-> change.value]
      BY <1>9 DEF LoggedChanges
    <3> QED
      BY <3>2, <3>3, <3>4
  <2>5. change # FC!Null => FC!Projected(row, change) = change.value
    BY <1>1, <1>2, <2>2, <2>3 DEF Readable, FC!Projected
  <2> QED
    BY <2>2, <2>4, <2>5
<1> QED
  BY <1>4, <1>5, <1>9, <1>10, HappensKeeps

(***************************************************************************)
(* Rows and logs stay together.                                            *)
(***************************************************************************)
THEOREM FieldInvariant ==
  ASSUME FC!KindsKnown
  PROVE  FC!Spec => []FieldInv
<1>1. ASSUME FC!Init PROVE FieldInv
  <2>1. /\ subject.kind \in DOMAIN FC!Sends /\ subject.field \in DOMAIN FC!Sends[subject.kind]
        /\ subject = [kind |-> subject.kind, field |-> subject.field]
    <3>1. PICK kind \in Kinds : subject \in [kind : {kind}, field : DOMAIN FC!Sends[kind]]
      BY <1>1 DEF FC!Init
    <3> QED
      BY <3>1 DEF FC!KindsKnown
  <2>2. /\ row \in FieldValues /\ log = <<[type |-> "created", value |-> row]>>
    BY <1>1 DEF FC!Init, FieldValues
  <2>3. [type |-> "created", value |-> row] \in LoggedChanges
    BY <2>2 DEF LoggedChanges
  <2>4. log \in Seq(LoggedChanges) /\ Len(log) = 1 /\ log[1] = [type |-> "created", value |-> row]
    BY <2>2, <2>3
  <2>5. FieldTypes
    BY <2>1, <2>2, <2>4 DEF FieldTypes
  <2>6. FC!RebuiltAs(row)
    <3>1. PICK after : after = [n \in 1 .. Len(log) |-> row]
      OBVIOUS
    <3>2. /\ after \in [1 .. Len(log) -> FieldValues] /\ after[1] = row /\ 2 .. Len(log) = {}
      BY <2>2, <2>4, <3>1
    <3>3. FC!Rebuilt(after)
      BY <2>4, <3>2 DEF FC!Rebuilt
    <3> QED
      BY <2>4, <3>2, <3>3 DEF FC!RebuiltAs, FieldValues
  <2>7. FC!StateTo(Len(log)) # FC!Null => row = FC!StateTo(Len(log)).value
    BY <2>4 DEF FC!StateTo
  <2> QED
    BY <2>4, <2>5, <2>6, <2>7 DEF FieldInv
<1>2. ASSUME FieldInv, [FC!Next]_(FC!vars) PROVE FieldInv'
  <2>1. CASE FC!Update
    BY <1>2, <2>1, UpdateKeeps
  <2>2. CASE FC!Rollback
    BY <1>2, <2>2, RollbackKeeps
  <2>3. CASE UNCHANGED FC!vars
    BY <1>2, <2>3 DEF FC!vars, FieldInv, FieldTypes, FC!RebuiltAs, FC!Rebuilt, FC!StateTo,
                      FC!Projected
  <2> QED
    BY <1>2, <2>1, <2>2, <2>3 DEF FC!Next
<1> QED
  BY <1>1, <1>2, PTL DEF FC!Spec

-----------------------------------------------------------------------------
(* Lists: what is where.                                                   *)

ListRows == [key : Nat, updated : Nat]
Walks == [pc : {"idle", "paging", "done"}, offset : Nat, total : Int, got : Seq(Ids)]
Sinces == [there : SUBSET Ids, saved : SUBSET Ids, gap : BOOLEAN]

\* The rows that a table has.
There(rs) == {i \in Ids : rs[i] # LS!Absent}

\* Of the rows that a table has there are finitely many, saved in the past.
ListTypes ==
  /\ list \in LS!Lists
  /\ rows \in [Ids -> {LS!Absent} \union ListRows]
  /\ IsFiniteSet(There(rows))
  /\ clock \in Nat
  /\ \A i \in Ids : rows[i].updated <= clock
  /\ walk \in Walks
  /\ since \in Sinces

\* The order of a list whose ties are told: one column, then the ids.
Place(rs, c, i) == IF c = "key" THEN rs[i].key ELSE -rs[i].updated
Precedes(rs, c, i, j) ==
  \/ Place(rs, c, i) < Place(rs, c, j)
  \/ Place(rs, c, i) = Place(rs, c, j) /\ i < j

\* How many rows come before a row.
Leading(rs, c, i) == {j \in There(rs) : Precedes(rs, c, j, i)}
Rank(rs, c, i) == Cardinality(Leading(rs, c, i))

Gotten(got) == {got[n] : n \in DOMAIN got}

\* Of the rows not saved since, those that the pages went past are got.
NoneSkipped(w, sn, rs, c) ==
  \A i \in sn.there \ sn.saved :
    i \in There(rs) /\ (i \in Gotten(w.got) \/ Rank(rs, c, i) >= w.offset)

\* Nothing was written: the pages are the beginning of the list.
InOrder(w, sn, rs, c) ==
  /\ sn.there = There(rs)
  /\ w.total \in {-1, Cardinality(There(rs))}
  /\ \A n \in 1 .. Len(w.got) : w.got[n] \in There(rs) /\ Rank(rs, c, w.got[n]) = n - 1

Paged(w) == w.pc = "paging" => Len(w.got) = w.offset

OnTheWay ==
  walk.pc = "paging" /\ list.told /\ ~since.gap =>
    /\ list.whole => NoneSkipped(walk, since, rows, list.by[1])
    /\ since.saved = {} => InOrder(walk, since, rows, list.by[1])

WalkInv == ListTypes /\ Paged(walk) /\ OnTheWay /\ LS!WalkIsComplete

(***************************************************************************)
(* Where the code breaks ties, it is by the id, after one other column.    *)
(***************************************************************************)
LEMMA ToldLists ==
  ASSUME NEW l \in LS!Lists, l.told
  PROVE  l.by = <<"key", "id">> \/ l.by = <<"updated", "id">>
BY DEF LS!Lists, LS!InMemory, LS!InSql,
         LS!MemoryPersons, LS!MemoryFamilies, LS!MemorySources, LS!MemoryCitations,
         LS!MemoryMedia, LS!MemoryEvents, LS!MemoryAttributes, LS!MemoryPersonsBySurname,
         LS!MemoryPersonsByPlace, LS!MemoryPersonsByCemetery, LS!MemoryNotes, LS!MemorySubmitters,
         LS!MemoryRepositories, LS!MemoryAssociations, LS!MemoryLDSOrdinances,
         LS!MemoryEvidenceAnalyses, LS!MemoryEvidenceConflicts, LS!MemoryResearchLogs,
         LS!MemoryProofSummaries, LS!SqlitePersons, LS!SqliteFamilies, LS!SqliteSources,
         LS!SqliteCitations, LS!SqliteMedia, LS!SqliteEvents, LS!SqliteAttributes,
         LS!SqlitePersonsBySurname, LS!SqlitePersonsByPlace, LS!SqlitePersonsByCemetery,
         LS!SqliteNotes, LS!SqliteSubmitters, LS!SqliteRepositories, LS!SqliteAssociations,
         LS!SqliteLDSOrdinances, LS!SqliteEvidenceAnalyses, LS!SqliteEvidenceConflicts,
         LS!SqliteResearchLogs, LS!SqliteProofSummaries, LS!PostgresPersons, LS!PostgresFamilies,
         LS!PostgresSources, LS!PostgresCitations, LS!PostgresMedia, LS!PostgresEvents,
         LS!PostgresAttributes, LS!PostgresPersonsBySurname, LS!PostgresPersonsByPlace,
         LS!PostgresPersonsByCemetery, LS!PostgresNotes, LS!PostgresSubmitters,
         LS!PostgresRepositories, LS!PostgresAssociations, LS!PostgresLDSOrdinances,
         LS!PostgresEvidenceAnalyses, LS!PostgresEvidenceConflicts, LS!PostgresResearchLogs,
         LS!PostgresProofSummaries

\* What the lemmas below take of a list whose ties are told.
Told(c) == ListTypes /\ list.told /\ c = list.by[1]

(***************************************************************************)
(* Its order is the one by that column and the ids.                        *)
(***************************************************************************)
LEMMA ToldOrder ==
  ASSUME NEW c, Told(c)
  PROVE  /\ c \in {"key", "updated"}
         /\ list.by # <<>>
         /\ \A i, j : LS!Before(i, j) <=> Precedes(rows, c, i, j)
<1>1. list \in LS!Lists /\ list.told
  BY DEF Told, ListTypes
<1>2. list.by = <<"key", "id">> \/ list.by = <<"updated", "id">>
  BY <1>1, ToldLists
<1>3. /\ DOMAIN list.by = {1, 2} /\ list.by[1] = c /\ list.by[2] = "id"
      /\ c \in {"key", "updated"} /\ list.by # <<>>
  BY <1>2 DEF Told
<1>4. ASSUME NEW i, NEW j
      PROVE  LS!Before(i, j) <=> Precedes(rows, c, i, j)
  <2>1. \A k : LS!Column(c, k) = Place(rows, c, k) /\ LS!Column("id", k) = k
    BY <1>3 DEF LS!Column, Place
  <2>2. 1 .. 1 - 1 = {} /\ 1 .. 2 - 1 = {1}
    OBVIOUS
  <2>3. LS!Before(i, j) <=>
          \/ LS!Column(c, i) < LS!Column(c, j)
          \/ LS!Column("id", i) < LS!Column("id", j) /\ LS!Column(c, i) = LS!Column(c, j)
    BY <1>3, <2>2 DEF LS!Before
  <2> QED
    BY <2>1, <2>3 DEF Precedes
<1> QED
  BY <1>3, <1>4

(***************************************************************************)
(* That order is a strict and total one on the rows of the table.          *)
(***************************************************************************)
LEMMA PrecedesIsTotal ==
  ASSUME LS!NumbersAsIds, NEW c, Told(c), NEW i \in There(rows), NEW j \in There(rows)
  PROVE  /\ Place(rows, c, i) \in Int
         /\ ~Precedes(rows, c, i, i)
         /\ i = j \/ Precedes(rows, c, i, j) \/ Precedes(rows, c, j, i)
         /\ ~(Precedes(rows, c, i, j) /\ Precedes(rows, c, j, i))
<1>1. /\ i \in Nat /\ j \in Nat /\ rows[i] \in ListRows /\ rows[j] \in ListRows
  BY DEF Told, ListTypes, There, LS!NumbersAsIds
<1>2. Place(rows, c, i) \in Int /\ Place(rows, c, j) \in Int
  BY <1>1 DEF Place, ListRows
<1> QED
  BY <1>1, <1>2 DEF Precedes

(***************************************************************************)
(* A row's rank is below the number of rows.                               *)
(***************************************************************************)
LEMMA RankIsBelow ==
  ASSUME LS!NumbersAsIds, NEW c, Told(c), NEW i \in There(rows)
  PROVE  /\ Rank(rows, c, i) \in Nat
         /\ Cardinality(There(rows)) \in Nat
         /\ Rank(rows, c, i) < Cardinality(There(rows))
<1>1. IsFiniteSet(There(rows))
  BY DEF Told, ListTypes
<1>2. Leading(rows, c, i) \subseteq There(rows) /\ i \notin Leading(rows, c, i)
  BY PrecedesIsTotal DEF Leading
<1>3. /\ IsFiniteSet(Leading(rows, c, i))
      /\ Cardinality(Leading(rows, c, i)) <= Cardinality(There(rows))
      /\ Cardinality(Leading(rows, c, i)) # Cardinality(There(rows))
  BY <1>1, <1>2, FS_Subset
<1> QED
  BY <1>1, <1>3, FS_CardinalityType DEF Rank

(***************************************************************************)
(* A list has every row of the table once, at the place of its rank.       *)
(***************************************************************************)
LEMMA OrderByRank ==
  ASSUME LS!NumbersAsIds, NEW c, Told(c), NEW s \in LS!Orders
  PROVE  /\ s \in Seq(There(rows)) /\ Len(s) = Cardinality(There(rows))
         /\ \A n \in 1 .. Len(s) : s[n] \in There(rows) /\ Rank(rows, c, s[n]) = n - 1
         /\ \A i \in There(rows) :
              Rank(rows, c, i) + 1 \in 1 .. Len(s) /\ s[Rank(rows, c, i) + 1] = i
<1>1. PICK N : N = Cardinality(There(rows))
  OBVIOUS
<1>2. N \in Nat /\ IsFiniteSet(There(rows))
  BY <1>1, FS_CardinalityType DEF Told, ListTypes
<1>3. LS!Present = There(rows) /\ LS!Cardinality(LS!Present) = N
  BY <1>1, SameSizes DEF LS!Present, There
<1>4. /\ s \in [1 .. N -> There(rows)]
      /\ \A m, n \in 1 .. N : m < n => s[m] # s[n] /\ ~LS!Before(s[n], s[m])
  BY <1>3 DEF LS!Orders
<1>5. s \in Seq(There(rows)) /\ Len(s) = N
  BY <1>2, <1>4
<1>6. \A m, n \in 1 .. N : m < n => s[m] # s[n] /\ Precedes(rows, c, s[m], s[n])
  BY <1>4, ToldOrder, PrecedesIsTotal
<1>7. \A m, n \in 1 .. N : m # n => s[m] # s[n]
  BY <1>2, <1>6
<1>8. There(rows) \subseteq {s[n] : n \in 1 .. N}
  <2>1. s \in Injection(1 .. N, There(rows))
    BY <1>4, <1>7 DEF Injection, IsInjective
  <2>2. Cardinality(1 .. N) = N
    BY <1>2, FS_Interval
  <2>3. s \in Surjection(1 .. N, There(rows))
    BY <1>1, <1>2, <2>1, <2>2, FS_Injection
  <2> QED
    BY <2>3 DEF Surjection
<1>9. ASSUME NEW n \in 1 .. N
      PROVE  Rank(rows, c, s[n]) = n - 1
  <2>1. Leading(rows, c, s[n]) = {s[m] : m \in 1 .. n - 1}
    <3>1. ASSUME NEW m \in 1 .. n - 1 PROVE s[m] \in Leading(rows, c, s[n])
      BY <1>2, <1>4, <1>6 DEF Leading
    <3>2. ASSUME NEW j \in Leading(rows, c, s[n]) PROVE \E m \in 1 .. n - 1 : j = s[m]
      <4>1. j \in There(rows) /\ Precedes(rows, c, j, s[n])
        BY DEF Leading
      <4>2. PICK m \in 1 .. N : j = s[m]
        BY <1>8, <4>1
      <4>3. ~(n < m) /\ n # m
        BY <1>4, <1>6, <4>1, <4>2, PrecedesIsTotal
      <4> QED
        BY <1>2, <4>2, <4>3
    <3> QED
      BY <3>1, <3>2
  <2>2. PICK first : first = [m \in 1 .. n - 1 |-> s[m]]
    OBVIOUS
  <2>3. first \in Surjection(1 .. n - 1, Leading(rows, c, s[n]))
    BY <2>1, <2>2 DEF Surjection
  <2>4. first \in Injection(1 .. n - 1, Leading(rows, c, s[n]))
    <3>1. first \in [1 .. n - 1 -> Leading(rows, c, s[n])]
      BY <2>1, <2>2
    <3>2. \A l, m \in 1 .. n - 1 : first[l] = first[m] => l = m
      BY <1>2, <1>7, <2>2
    <3> QED
      BY <3>1, <3>2 DEF Injection, IsInjective
  <2>5. IsFiniteSet(1 .. n - 1) /\ Cardinality(1 .. n - 1) = n - 1
    BY <1>2, FS_Interval
  <2> QED
    BY <2>3, <2>4, <2>5, FS_Surjection DEF Rank
<1>10. ASSUME NEW i \in There(rows)
       PROVE  Rank(rows, c, i) + 1 \in 1 .. N /\ s[Rank(rows, c, i) + 1] = i
  <2>1. PICK n \in 1 .. N : i = s[n]
    BY <1>8
  <2>2. Rank(rows, c, i) + 1 = n
    BY <1>2, <1>9, <2>1
  <2> QED
    BY <2>1, <2>2
<1> QED
  BY <1>1, <1>4, <1>5, <1>9, <1>10

-----------------------------------------------------------------------------
(* Lists: a reader's steps.                                                *)

(***************************************************************************)
(* What a page adds to what is got.                                        *)
(***************************************************************************)
LEMMA PageTaken ==
  ASSUME LS!NumbersAsIds, ListTypes, Paged(walk), walk.pc = "paging",
         NEW s \in Seq(Ids), NEW total \in Int, NEW w, w = LS!Took(s, total)
  PROVE  /\ w \in Walks /\ w.total = -1 /\ w.offset = walk.offset + PageSize
         /\ w.pc \in {"paging", "done"} /\ Paged(w)
         /\ walk.offset \in Nat /\ PageSize \in Nat \ {0}
         /\ w.pc = "paging" => walk.offset + PageSize <= Len(s) /\ Len(w.got) < total
         /\ w.pc = "done" => Len(w.got) >= total \/ Len(s) < walk.offset + PageSize
         /\ \A n \in 1 .. walk.offset : n \in DOMAIN w.got /\ w.got[n] = walk.got[n]
         /\ walk.offset <= Len(s) =>
              /\ Len(w.got) = IF walk.offset + PageSize < Len(s) THEN walk.offset + PageSize
                              ELSE Len(s)
              /\ \A n \in walk.offset + 1 .. Len(w.got) : w.got[n] = s[n]
<1>1. PICK o : o = walk.offset
  OBVIOUS
<1>2. PICK g : g = walk.got
  OBVIOUS
<1>3. PICK e : e = IF o + PageSize < Len(s) THEN o + PageSize ELSE Len(s)
  OBVIOUS
<1>4. PICK p : p = SubSeq(s, o + 1, e)
  OBVIOUS
<1>5. /\ o \in Nat /\ g \in Seq(Ids) /\ Len(g) = o /\ PageSize \in Nat \ {0}
      /\ Len(s) \in Nat /\ e \in Nat
  BY <1>1, <1>2, <1>3 DEF ListTypes, Walks, Paged, LS!NumbersAsIds
<1>6. /\ p \in Seq(Ids)
      /\ Len(p) = IF o + 1 <= e THEN e - o ELSE 0
      /\ \A n \in 1 .. Len(p) : p[n] = s[o + n]
  <2>1. e <= Len(s) /\ \A n \in o + 1 .. e : s[n] \in Ids
    BY <1>3, <1>5
  <2>2. /\ Len(p) = IF o + 1 <= e THEN e - o ELSE 0
        /\ \A n \in 1 .. Len(p) : p[n] = s[o + n]
    BY <1>4, <1>5, <2>1
  <2>3. p \in Seq(Ids)
    BY <1>4, <1>5, <2>1
  <2> QED
    BY <2>2, <2>3
<1>7. /\ g \o p \in Seq(Ids) /\ Len(g \o p) = o + Len(p)
      /\ \A n \in 1 .. o : (g \o p)[n] = g[n]
      /\ \A n \in o + 1 .. o + Len(p) : (g \o p)[n] = p[n - o]
  <2>1. g \o p \in Seq(Ids) /\ Len(g \o p) = o + Len(p) /\ Len(p) \in Nat
    <3>1. g \in Seq(Ids) /\ p \in Seq(Ids) /\ Len(g) = o
      BY <1>5, <1>6
    <3>2. Len(p) \in Nat /\ Len(g \o p) = Len(g) + Len(p)
      BY <3>1
    <3>3. g \o p \in Seq(Ids)
      BY <3>1
    <3> QED
      BY <3>1, <3>2, <3>3
  <2>2. \A n \in 1 .. o : (g \o p)[n] = g[n]
    BY <1>5, <1>6
  <2>3. \A n \in o + 1 .. o + Len(p) : (g \o p)[n] = p[n - o]
    BY <1>5, <1>6, <2>1
  <2> QED
    BY <2>1, <2>2, <2>3
<1>8. PICK got : got = g \o p
  OBVIOUS
<1>9. w = [pc |-> IF Len(got) >= total \/ Len(p) < PageSize THEN "done" ELSE "paging",
           offset |-> o + PageSize, total |-> -1, got |-> got]
  BY <1>1, <1>2, <1>3, <1>4, <1>8 DEF LS!Took, LS!Page
<1>10. /\ w.pc = IF Len(got) >= total \/ Len(p) < PageSize THEN "done" ELSE "paging"
       /\ w.offset = o + PageSize /\ w.total = -1 /\ w.got = got
  BY <1>9
<1>11. w \in Walks
  BY <1>5, <1>7, <1>8, <1>9 DEF Walks
<1>12. Len(got) = o + Len(p) /\ Len(p) \in Nat /\ Len(p) <= PageSize
  BY <1>3, <1>5, <1>6, <1>7, <1>8
<1>13. /\ w.pc = "paging" => Len(p) = PageSize /\ o + PageSize <= Len(s) /\ Len(got) < total
       /\ w.pc = "done" => Len(got) >= total \/ Len(s) < o + PageSize
  <2>1. Len(p) = PageSize <=> o + PageSize <= Len(s)
    BY <1>3, <1>5, <1>6
  <2> QED
    BY <1>5, <1>10, <1>12, <2>1
<1>14. o <= Len(s) => Len(got) = e /\ \A n \in o + 1 .. e : got[n] = s[n]
  <2> SUFFICES ASSUME o <= Len(s) PROVE Len(got) = e /\ \A n \in o + 1 .. e : got[n] = s[n]
    OBVIOUS
  <2>1. Len(p) = e - o /\ o <= e
    BY <1>3, <1>5, <1>6
  <2>2. ASSUME NEW n \in o + 1 .. e PROVE got[n] = s[n]
    <3>1. n - o \in 1 .. Len(p) /\ n \in o + 1 .. o + Len(p) /\ o + (n - o) = n
      BY <1>5, <2>1
    <3> QED
      BY <1>6, <1>7, <1>8, <3>1
  <2> QED
    BY <1>5, <1>12, <2>1, <2>2
<1>15. \A n \in 1 .. o : n \in DOMAIN got /\ got[n] = g[n]
  BY <1>5, <1>6, <1>7, <1>8
<1>16. Paged(w)
  BY <1>10, <1>12, <1>13 DEF Paged
<1>17. /\ w.pc \in {"paging", "done"} /\ w.total = -1 /\ w.offset = walk.offset + PageSize
       /\ walk.offset \in Nat /\ PageSize \in Nat \ {0}
  BY <1>1, <1>5, <1>10
<1>18. /\ w.pc = "paging" => walk.offset + PageSize <= Len(s) /\ Len(w.got) < total
       /\ w.pc = "done" => Len(w.got) >= total \/ Len(s) < walk.offset + PageSize
  BY <1>1, <1>10, <1>13
<1>19. \A n \in 1 .. walk.offset : n \in DOMAIN w.got /\ w.got[n] = walk.got[n]
  BY <1>1, <1>2, <1>10, <1>15
<1>20. walk.offset <= Len(s) =>
         /\ Len(w.got) = IF walk.offset + PageSize < Len(s) THEN walk.offset + PageSize
                         ELSE Len(s)
         /\ \A n \in walk.offset + 1 .. Len(w.got) : w.got[n] = s[n]
  BY <1>1, <1>3, <1>10, <1>14
<1> QED
  BY <1>11, <1>16, <1>17, <1>18, <1>19, <1>20

(***************************************************************************)
(* A page skips no row that was not saved since, and ends the walk only    *)
(* when none is left.                                                      *)
(***************************************************************************)
LEMMA PageSkipsNone ==
  ASSUME LS!NumbersAsIds, NEW c, Told(c), Paged(walk), walk.pc = "paging",
         NEW s \in LS!Orders, NEW w, w = LS!Took(s, Cardinality(There(rows))),
         NoneSkipped(walk, since, rows, c)
  PROVE  /\ w.pc = "paging" => NoneSkipped(w, since, rows, c)
         /\ w.pc = "done" => since.there \ since.saved \subseteq Gotten(w.got)
<1>1. PICK N : N = Cardinality(There(rows))
  OBVIOUS
<1>2. /\ s \in Seq(There(rows)) /\ Len(s) = N
      /\ \A i \in There(rows) : Rank(rows, c, i) + 1 \in 1 .. N /\ s[Rank(rows, c, i) + 1] = i
  BY <1>1, OrderByRank
<1>3. s \in Seq(Ids) /\ N \in Int
  BY <1>1, <1>2, FS_CardinalityType DEF There, Told, ListTypes
<1>4. /\ w \in Walks /\ w.offset = walk.offset + PageSize
      /\ walk.offset \in Nat /\ PageSize \in Nat \ {0} /\ w.pc \in {"paging", "done"}
      /\ w.pc = "done" => Len(w.got) >= N \/ N < walk.offset + PageSize
      /\ \A n \in 1 .. walk.offset : n \in DOMAIN w.got /\ w.got[n] = walk.got[n]
      /\ walk.offset <= N =>
           /\ Len(w.got) = IF walk.offset + PageSize < N THEN walk.offset + PageSize ELSE N
           /\ \A n \in walk.offset + 1 .. Len(w.got) : w.got[n] = s[n]
  <2>1. w = LS!Took(s, N) /\ ListTypes /\ Len(s) = N
    BY <1>1, <1>2 DEF Told
  <2>2. /\ w \in Walks /\ w.offset = walk.offset + PageSize
        /\ walk.offset \in Nat /\ PageSize \in Nat \ {0} /\ w.pc \in {"paging", "done"}
        /\ w.pc = "done" => Len(w.got) >= N \/ Len(s) < walk.offset + PageSize
        /\ \A n \in 1 .. walk.offset : n \in DOMAIN w.got /\ w.got[n] = walk.got[n]
    BY <1>3, <2>1, PageTaken
  <2>3. walk.offset <= Len(s) =>
          /\ Len(w.got) = IF walk.offset + PageSize < Len(s) THEN walk.offset + PageSize
                          ELSE Len(s)
          /\ \A n \in walk.offset + 1 .. Len(w.got) : w.got[n] = s[n]
    BY <1>3, <2>1, PageTaken
  <2> QED
    BY <2>1, <2>2, <2>3
<1>5. DOMAIN w.got = 1 .. Len(w.got) /\ Len(w.got) \in Nat
  BY <1>4 DEF Walks
<1>6. ASSUME NEW i \in since.there \ since.saved
      PROVE  /\ i \in There(rows)
             /\ i \in Gotten(w.got) \/ (Rank(rows, c, i) >= w.offset /\ w.pc = "paging")
  <2>1. i \in There(rows) /\ (i \in Gotten(walk.got) \/ Rank(rows, c, i) >= walk.offset)
    BY DEF NoneSkipped
  <2>2. CASE i \in Gotten(walk.got)
    <3>1. PICK n \in DOMAIN walk.got : i = walk.got[n]
      BY <2>2 DEF Gotten
    <3>2. n \in 1 .. walk.offset
      BY <3>1 DEF Told, ListTypes, Walks, Paged
    <3>3. i \in Gotten(w.got)
      BY <1>4, <3>1, <3>2 DEF Gotten
    <3> QED
      BY <2>1, <3>3
  <2>3. CASE Rank(rows, c, i) >= walk.offset
    <3>1. PICK k : k = Rank(rows, c, i)
      OBVIOUS
    <3>2. k \in Nat /\ k + 1 \in 1 .. N /\ s[k + 1] = i /\ walk.offset <= N
      BY <1>2, <1>3, <1>4, <2>1, <2>3, <3>1, RankIsBelow
    <3>3. CASE k < walk.offset + PageSize
      <4>1. k + 1 \in walk.offset + 1 .. Len(w.got)
        BY <1>3, <1>4, <2>3, <3>1, <3>2, <3>3
      <4>2. w.got[k + 1] = i /\ k + 1 \in DOMAIN w.got
        BY <1>4, <1>5, <3>2, <4>1
      <4> QED
        BY <2>1, <4>2 DEF Gotten
    <3>4. CASE k >= walk.offset + PageSize
      <4>1. w.pc # "done"
        BY <1>3, <1>4, <3>2, <3>4
      <4> QED
        BY <1>4, <2>1, <3>1, <3>4, <4>1
    <3> QED
      BY <1>4, <3>2, <3>3, <3>4
  <2> QED
    BY <2>1, <2>2, <2>3
<1> QED
  BY <1>6 DEF NoneSkipped

(***************************************************************************)
(* While nothing is written the pages make up the beginning of the list,   *)
(* and in the end all of it.                                               *)
(***************************************************************************)
LEMMA PageInOrder ==
  ASSUME LS!NumbersAsIds, NEW c, Told(c), Paged(walk), walk.pc = "paging",
         NEW s \in LS!Orders, NEW w, w = LS!Took(s, Cardinality(There(rows))),
         InOrder(walk, since, rows, c)
  PROVE  /\ w.pc = "paging" => InOrder(w, since, rows, c)
         /\ w.pc = "done" => /\ Gotten(w.got) = since.there
                             /\ Len(w.got) = Cardinality(Gotten(w.got))
<1>1. PICK N : N = Cardinality(There(rows))
  OBVIOUS
<1>2. /\ s \in Seq(There(rows)) /\ Len(s) = N
      /\ \A n \in 1 .. N : s[n] \in There(rows) /\ Rank(rows, c, s[n]) = n - 1
      /\ \A i \in There(rows) : Rank(rows, c, i) + 1 \in 1 .. N /\ s[Rank(rows, c, i) + 1] = i
  BY <1>1, OrderByRank
<1>3. s \in Seq(Ids) /\ N \in Nat
  BY <1>1, <1>2, FS_CardinalityType DEF There, Told, ListTypes
<1>4. /\ w \in Walks /\ w.total = -1
      /\ walk.offset \in Nat /\ PageSize \in Nat \ {0} /\ w.pc \in {"paging", "done"}
      /\ w.pc = "done" => Len(w.got) >= N \/ N < walk.offset + PageSize
      /\ \A n \in 1 .. walk.offset : n \in DOMAIN w.got /\ w.got[n] = walk.got[n]
      /\ walk.offset <= N =>
           /\ Len(w.got) = IF walk.offset + PageSize < N THEN walk.offset + PageSize ELSE N
           /\ \A n \in walk.offset + 1 .. Len(w.got) : w.got[n] = s[n]
  <2>1. ListTypes /\ N \in Int
    BY <1>3 DEF Told
  <2>2. w = LS!Took(s, N) /\ Len(s) = N /\ s \in Seq(Ids)
    BY <1>1, <1>2, <1>3
  <2>3. /\ w \in Walks /\ w.total = -1
        /\ walk.offset \in Nat /\ PageSize \in Nat \ {0} /\ w.pc \in {"paging", "done"}
        /\ w.pc = "done" => Len(w.got) >= N \/ Len(s) < walk.offset + PageSize
        /\ \A n \in 1 .. walk.offset : n \in DOMAIN w.got /\ w.got[n] = walk.got[n]
        /\ walk.offset <= Len(s) =>
             /\ Len(w.got) = IF walk.offset + PageSize < Len(s) THEN walk.offset + PageSize
                             ELSE Len(s)
             /\ \A n \in walk.offset + 1 .. Len(w.got) : w.got[n] = s[n]
    BY <2>1, <2>2, PageTaken
  <2> QED
    BY <2>2, <2>3
<1>5. DOMAIN w.got = 1 .. Len(w.got) /\ Len(w.got) \in Nat
  BY <1>4 DEF Walks
<1>6. Len(walk.got) = walk.offset
  BY DEF Paged
<1>7. \A n \in 1 .. walk.offset : walk.got[n] = s[n] /\ n <= N
  <2> SUFFICES ASSUME NEW n \in 1 .. walk.offset PROVE walk.got[n] = s[n] /\ n <= N
    OBVIOUS
  <2>1. walk.got[n] \in There(rows) /\ Rank(rows, c, walk.got[n]) = n - 1
    BY <1>6 DEF InOrder
  <2>2. Rank(rows, c, walk.got[n]) + 1 = n
    BY <1>4, <2>1
  <2> QED
    BY <1>2, <1>3, <2>1, <2>2
<1>8. walk.offset <= N
  <2>1. walk.offset > 0 => walk.offset \in 1 .. walk.offset
    BY <1>4
  <2> QED
    BY <1>3, <1>4, <1>7, <2>1
<1>9. \A n \in 1 .. Len(w.got) : w.got[n] = s[n] /\ n \in 1 .. N
  <2> SUFFICES ASSUME NEW n \in 1 .. Len(w.got) PROVE w.got[n] = s[n] /\ n \in 1 .. N
    OBVIOUS
  <2>1. n \in 1 .. walk.offset \/ n \in walk.offset + 1 .. Len(w.got)
    BY <1>4, <1>5
  <2>2. Len(w.got) <= N
    BY <1>3, <1>4, <1>8
  <2>3. CASE n \in 1 .. walk.offset
    BY <1>4, <1>7, <2>3
  <2>4. CASE n \in walk.offset + 1 .. Len(w.got)
    <3>1. w.got[n] = s[n]
      BY <1>4, <1>8, <2>4
    <3>2. n \in Nat /\ 1 <= n /\ n <= Len(w.got)
      BY <1>5
    <3> QED
      BY <1>3, <1>5, <2>2, <3>1, <3>2
  <2> QED
    BY <2>1, <2>3, <2>4
<1>10. InOrder(w, since, rows, c)
  BY <1>2, <1>4, <1>9 DEF InOrder
<1>11. ASSUME w.pc = "done"
       PROVE  Gotten(w.got) = since.there /\ Len(w.got) = Cardinality(Gotten(w.got))
  <2>1. Len(w.got) = N
    BY <1>3, <1>4, <1>8, <1>11
  <2>2. Gotten(w.got) = There(rows)
    <3>1. ASSUME NEW i \in There(rows) PROVE i \in Gotten(w.got)
      BY <1>2, <1>5, <1>9, <2>1 DEF Gotten
    <3>2. Gotten(w.got) \subseteq There(rows)
      BY <1>2, <1>5, <1>9 DEF Gotten
    <3> QED
      BY <3>1, <3>2
  <2> QED
    BY <1>1, <2>1, <2>2 DEF InOrder
<1> QED
  BY <1>10, <1>11

(***************************************************************************)
(* The table changes by one row at a time.                                 *)
(***************************************************************************)
LEMMA ThereAfter ==
  ASSUME ListTypes, NEW k \in Ids, NEW w \in {LS!Absent} \union ListRows
  PROVE  /\ [rows EXCEPT ![k] = w] \in [Ids -> {LS!Absent} \union ListRows]
         /\ IsFiniteSet(There([rows EXCEPT ![k] = w]))
<1>1. IsFiniteSet(There(rows) \union {k})
  BY FS_AddElement DEF ListTypes
<1>2. There([rows EXCEPT ![k] = w]) \subseteq There(rows) \union {k}
  BY DEF There, ListTypes
<1>3. IsFiniteSet(There([rows EXCEPT ![k] = w]))
  BY <1>1, <1>2, FS_Subset
<1> QED
  BY <1>3 DEF ListTypes

(***************************************************************************)
(* A row that is added, or saved and not moved back, pushes none forward.  *)
(***************************************************************************)
LEMMA RankGrows ==
  ASSUME LS!NumbersAsIds, NEW c, Told(c), NEW k \in Ids, NEW w \in ListRows,
         NEW rs, rs = [rows EXCEPT ![k] = w],
         k \in There(rows) => Place(rs, c, k) <= Place(rows, c, k),
         NEW i \in There(rows), i # k
  PROVE  /\ i \in There(rs)
         /\ \A n \in Nat : Rank(rows, c, i) >= n => Rank(rs, c, i) >= n
<1>1. /\ rows \in [Ids -> {LS!Absent} \union ListRows] /\ i \in Ids /\ IsFiniteSet(There(rs))
      /\ \A j \in Ids : j \in Nat
  <2>1. ListTypes
    BY DEF Told
  <2>2. IsFiniteSet(There(rs))
    BY <2>1, ThereAfter
  <2> QED
    BY <2>1, <2>2 DEF ListTypes, There, LS!NumbersAsIds
<1>2. rs[k] = w /\ \A j \in Ids : j # k => rs[j] = rows[j]
  BY <1>1
<1>3. i \in There(rs)
  BY <1>1, <1>2 DEF There
<1>4. k \in There(rs)
  BY <1>2 DEF There, ListRows, LS!Absent
<1>5. \A j \in There(rows) : j # k => j \in There(rs) /\ Place(rs, c, j) = Place(rows, c, j)
  BY <1>1, <1>2 DEF There, Place
<1>6. /\ \A j \in There(rows) : Place(rows, c, j) \in Int
      /\ Place(rs, c, k) \in Int
  <2>1. Place(rs, c, k) \in Int
    BY <1>2 DEF Place, ListRows
  <2> QED
    BY <2>1, PrecedesIsTotal
<1>7. Leading(rows, c, i) \subseteq Leading(rs, c, i)
  <2> SUFFICES ASSUME NEW j \in There(rows), Precedes(rows, c, j, i)
               PROVE  j \in There(rs) /\ Precedes(rs, c, j, i)
    BY DEF Leading
  <2>1. CASE j # k
    BY <1>5, <2>1 DEF Precedes
  <2>2. CASE j = k
    <3>1. Place(rs, c, k) <= Place(rows, c, k) /\ Place(rows, c, k) \in Int
      BY <1>6, <2>2
    <3>2. Place(rs, c, i) = Place(rows, c, i) /\ Place(rows, c, i) \in Int
      BY <1>5, <1>6
    <3> QED
      BY <1>4, <1>6, <2>2, <3>1, <3>2 DEF Precedes
  <2> QED
    BY <2>1, <2>2
<1>8. IsFiniteSet(Leading(rs, c, i))
  <2>1. Leading(rs, c, i) \subseteq There(rs)
    BY DEF Leading
  <2> QED
    BY <1>1, <2>1, FS_Subset
<1>9. Rank(rows, c, i) <= Rank(rs, c, i) /\ Rank(rows, c, i) \in Nat /\ Rank(rs, c, i) \in Nat
  BY <1>7, <1>8, FS_Subset, FS_CardinalityType DEF Rank
<1>10. PICK a \in Nat, b \in Nat : a = Rank(rows, c, i) /\ b = Rank(rs, c, i)
  BY <1>9
<1>11. a <= b
  BY <1>9, <1>10
<1>12. \A n \in Nat : a >= n => b >= n
  BY <1>11
<1> QED
  BY <1>3, <1>10, <1>12

(***************************************************************************)
(* A save that moves no row back lets the reader go on as it was.          *)
(***************************************************************************)
LEMMA SaveKeeps ==
  ASSUME LS!NumbersAsIds, WalkInv, NEW k \in Ids, NEW key \in Keys, LS!Save(k, key)
  PROVE  WalkInv'
<1>1. PICK w : w = [key |-> key, updated |-> clock']
  OBVIOUS
<1>2. /\ rows' = [rows EXCEPT ![k] = w] /\ clock' \in {clock, clock + 1}
      /\ walk.pc # "done" /\ UNCHANGED <<list, walk>>
  BY <1>1 DEF LS!Save, LS!InBound
<1>3. /\ clock' \in Nat /\ clock <= clock' /\ key \in Nat
      /\ clock \in Nat
  BY <1>2 DEF WalkInv, ListTypes, LS!NumbersAsIds
<1>4. w \in ListRows /\ w.key = key /\ w.updated = clock'
  BY <1>1, <1>3 DEF ListRows
<1>5. /\ ListTypes /\ rows \in [Ids -> {LS!Absent} \union ListRows] /\ since \in Sinces
      /\ \A i \in Ids : rows[i].updated <= clock
  BY DEF WalkInv, ListTypes
<1>6. /\ rows' \in [Ids -> {LS!Absent} \union ListRows] /\ IsFiniteSet(There(rows'))
      /\ rows'[k] = w /\ \A i \in Ids : i # k => rows'[i] = rows[i]
  BY <1>2, <1>4, <1>5, ThereAfter
<1>7. since' \in Sinces
  <2>1. since' = since \/ since' = [since EXCEPT !.saved = @ \cup {k},
                                                 !.gap = @ \/ LS!MovesBack(k, key)]
    BY DEF LS!Save
  <2>2. (since.gap \/ LS!MovesBack(k, key)) \in BOOLEAN
    BY <1>5 DEF Sinces, LS!MovesBack
  <2>3. since.saved \cup {k} \in SUBSET Ids
    BY <1>5 DEF Sinces
  <2> QED
    BY <1>5, <2>1, <2>2, <2>3 DEF Sinces
<1>8. ListTypes'
  <2>1. \A i \in Ids : rows'[i].updated <= clock'
    <3> SUFFICES ASSUME NEW i \in Ids PROVE rows'[i].updated <= clock'
      OBVIOUS
    <3>1. rows[i].updated \in Int
      BY <1>5 DEF ListRows, LS!Absent
    <3> QED
      BY <1>3, <1>4, <1>5, <1>6, <3>1
  <2> QED
    BY <1>2, <1>3, <1>5, <1>6, <1>7, <2>1 DEF ListTypes
<1>9. Paged(walk')
  BY <1>2 DEF WalkInv
<1>10. OnTheWay'
  <2> SUFFICES ASSUME walk.pc = "paging", list.told, ~since'.gap
               PROVE  /\ list.whole => NoneSkipped(walk, since', rows', list.by[1])
                      /\ since'.saved # {}
    BY <1>2 DEF OnTheWay
  <2>1. PICK c : c = list.by[1]
    OBVIOUS
  <2>2. Told(c)
    BY <1>5, <2>1 DEF Told
  <2>3. since' = [since EXCEPT !.saved = @ \cup {k}, !.gap = @ \/ LS!MovesBack(k, key)]
    BY DEF LS!Save
  <2>4. /\ since'.there = since.there /\ since'.saved = since.saved \cup {k}
        /\ ~since.gap /\ ~LS!MovesBack(k, key)
    BY <1>5, <2>3 DEF Sinces
  <2>5. k \in There(rows) => Place(rows', c, k) <= Place(rows, c, k)
    <3> SUFFICES ASSUME k \in There(rows) PROVE Place(rows', c, k) <= Place(rows, c, k)
      OBVIOUS
    <3>1. rows[k] \in ListRows /\ rows[k] # LS!Absent
      BY <1>5 DEF There
    <3>2. c \in {"key", "updated"} /\ list.by # <<>>
      BY <2>2, ToldOrder
    <3>3. CASE c = "key"
      <4>1. ~(key > rows[k].key)
        BY <2>1, <2>4, <3>1, <3>2, <3>3 DEF LS!MovesBack
      <4> QED
        BY <1>3, <1>4, <1>6, <3>1, <3>3, <4>1 DEF Place, ListRows
    <3>4. CASE c = "updated"
      <4>1. rows[k].updated <= clock /\ rows[k].updated \in Nat
        BY <1>5, <3>1 DEF ListRows
      <4> QED
        BY <1>3, <1>4, <1>6, <3>4, <4>1 DEF Place
    <3> QED
      BY <3>2, <3>3, <3>4
  <2>6. list.whole => NoneSkipped(walk, since', rows', c)
    <3> SUFFICES ASSUME list.whole, NEW i \in since.there \ since.saved, i # k
                 PROVE  i \in There(rows')
                   /\ (i \in Gotten(walk.got) \/ Rank(rows', c, i) >= walk.offset)
      BY <2>4 DEF NoneSkipped
    <3>1. NoneSkipped(walk, since, rows, c)
      BY <2>1, <2>4 DEF WalkInv, OnTheWay
    <3>2. i \in There(rows) /\ (i \in Gotten(walk.got) \/ Rank(rows, c, i) >= walk.offset)
      BY <3>1 DEF NoneSkipped
    <3>3. walk.offset \in Nat
      BY <1>5 DEF ListTypes, Walks
    <3> QED
      BY <1>2, <1>4, <2>2, <2>5, <3>2, <3>3, RankGrows
  <2> QED
    BY <2>1, <2>4, <2>6
<1>11. LS!WalkIsComplete'
  BY <1>2 DEF LS!WalkIsComplete
<1> QED
  BY <1>8, <1>9, <1>10, <1>11 DEF WalkInv

(***************************************************************************)
(* A delete leaves a gap behind.                                           *)
(***************************************************************************)
LEMMA DeleteKeeps ==
  ASSUME LS!NumbersAsIds, WalkInv, NEW k \in Ids, LS!Delete(k)
  PROVE  WalkInv'
<1>1. /\ rows' = [rows EXCEPT ![k] = LS!Absent]
      /\ walk.pc # "done" /\ UNCHANGED <<list, walk, clock>>
  BY DEF LS!Delete, LS!InBound
<1>2. /\ ListTypes /\ rows \in [Ids -> {LS!Absent} \union ListRows] /\ since \in Sinces
      /\ \A i \in Ids : rows[i].updated <= clock
      /\ clock \in Nat
  BY DEF WalkInv, ListTypes
<1>3. /\ rows' \in [Ids -> {LS!Absent} \union ListRows] /\ IsFiniteSet(There(rows'))
  BY <1>1, <1>2, ThereAfter
<1>4. since' = since \/ since' = [since EXCEPT !.there = @ \ {k}, !.gap = TRUE]
  BY DEF LS!Delete
<1>5. since' \in Sinces
  BY <1>2, <1>4 DEF Sinces
<1>6. ListTypes'
  <2>1. \A i \in Ids : rows'[i].updated <= clock'
    BY <1>1, <1>2 DEF LS!Absent
  <2> QED
    BY <1>1, <1>2, <1>3, <1>5, <2>1 DEF ListTypes
<1>7. walk.pc = "paging" => since'.gap
  BY <1>2 DEF LS!Delete, Sinces
<1>8. OnTheWay' /\ Paged(walk') /\ LS!WalkIsComplete'
  BY <1>1, <1>7 DEF OnTheWay, WalkInv, LS!WalkIsComplete
<1> QED
  BY <1>6, <1>8 DEF WalkInv

(***************************************************************************)
(* A reader that sets out, counts or takes a page.                         *)
(***************************************************************************)
LEMMA ReadsKeep ==
  ASSUME LS!NumbersAsIds, WalkInv,
         LS!StartWalk \/ LS!ReadPage \/ LS!CountRows \/ LS!ReadRows
  PROVE  WalkInv'
<1>1. UNCHANGED <<list, rows, clock>>
  BY DEF LS!StartWalk, LS!ReadPage, LS!CountRows, LS!ReadRows
<1>2. /\ ListTypes /\ walk \in Walks /\ since \in Sinces
      /\ IsFiniteSet(There(rows)) /\ Paged(walk) /\ Cardinality(There(rows)) \in Nat
  BY FS_CardinalityType DEF WalkInv, ListTypes
<1>3. LS!Present = There(rows) /\ LS!Cardinality(LS!Present) = Cardinality(There(rows))
  BY SameSizes DEF LS!Present, There
<1>4. CASE LS!StartWalk
  <2>1. walk' = [pc |-> "paging", offset |-> 0, total |-> -1, got |-> <<>>]
    BY <1>4 DEF LS!StartWalk, LS!Idle
  <2>2. since' = [there |-> There(rows), saved |-> {}, gap |-> FALSE]
    BY <1>3, <1>4 DEF LS!StartWalk, LS!Quiet
  <2>3. walk' \in Walks /\ Paged(walk')
    BY <2>1 DEF Walks, Paged
  <2>4. since' \in Sinces
    BY <2>2 DEF Sinces, There
  <2>5. ListTypes'
    BY <1>1, <1>2, <2>3, <2>4 DEF ListTypes
  <2>6. OnTheWay'
    <3> SUFFICES ASSUME list.told
                 PROVE  /\ NoneSkipped(walk', since', rows, list.by[1])
                        /\ InOrder(walk', since', rows, list.by[1])
      BY <1>1 DEF OnTheWay
    <3>1. PICK c : c = list.by[1] /\ Told(c)
      BY <1>2 DEF Told
    <3>2. \A i \in There(rows) : Rank(rows, c, i) >= 0
      BY <3>1, RankIsBelow
    <3>3. NoneSkipped(walk', since', rows, c)
      BY <2>1, <2>2, <3>2 DEF NoneSkipped
    <3>4. InOrder(walk', since', rows, c)
      BY <2>1, <2>2 DEF InOrder
    <3> QED
      BY <3>1, <3>3, <3>4
  <2>7. LS!WalkIsComplete'
    BY <2>1 DEF LS!WalkIsComplete
  <2> QED
    BY <2>3, <2>5, <2>6, <2>7 DEF WalkInv
<1>5. CASE LS!CountRows
  <2>1. /\ walk.pc = "paging" /\ since' = since /\ ~list.whole
        /\ walk' = [walk EXCEPT !.total = Cardinality(There(rows))]
    BY <1>3, <1>5 DEF LS!CountRows
  <2>2. /\ walk' \in Walks /\ walk'.pc = "paging" /\ walk'.offset = walk.offset
        /\ walk'.got = walk.got /\ walk'.total = Cardinality(There(rows))
    BY <1>2, <2>1 DEF Walks
  <2>3. ListTypes' /\ Paged(walk')
    BY <1>1, <1>2, <2>1, <2>2 DEF ListTypes, Paged
  <2>4. OnTheWay'
    <3> SUFFICES ASSUME list.told, ~since.gap, since.saved = {}
                 PROVE  InOrder(walk', since, rows, list.by[1])
      BY <1>1, <2>1 DEF OnTheWay
    <3>1. InOrder(walk, since, rows, list.by[1])
      BY <2>1 DEF WalkInv, OnTheWay
    <3> QED
      BY <2>2, <3>1 DEF InOrder
  <2>5. LS!WalkIsComplete'
    BY <2>2 DEF LS!WalkIsComplete
  <2> QED
    BY <2>3, <2>4, <2>5 DEF WalkInv
<1>6. CASE LS!ReadPage \/ LS!ReadRows
  <2>1. PICK total : total = IF list.whole THEN Cardinality(There(rows)) ELSE walk.total
    OBVIOUS
  <2>2. PICK s \in LS!Orders : walk' = LS!Took(s, total)
    BY <1>3, <1>6, <2>1 DEF LS!ReadPage, LS!ReadRows
  <2>3. walk.pc = "paging" /\ since' = since /\ (list.whole \/ walk.total # -1)
    BY <1>2, <1>6 DEF LS!ReadPage, LS!ReadRows
  <2>4. s \in Seq(Ids) /\ total \in Int
    <3>1. s \in [1 .. Cardinality(There(rows)) -> There(rows)]
      BY <1>3 DEF LS!Orders
    <3>2. There(rows) \subseteq Ids
      BY DEF There
    <3>3. total \in Int
      BY <1>2, <2>1 DEF Walks
    <3> QED
      BY <1>2, <3>1, <3>2, <3>3
  <2>5. PICK w : w = LS!Took(s, total)
    OBVIOUS
  <2>6. w \in Walks /\ Paged(w) /\ w.pc \in {"paging", "done"}
    BY <1>2, <2>3, <2>4, <2>5, PageTaken
  <2>7. walk' = w
    BY <2>2, <2>5
  <2>8. ListTypes'
    BY <1>1, <1>2, <2>3, <2>6, <2>7 DEF ListTypes
  <2>9. ASSUME list.told, ~since.gap, list.whole
        PROVE  /\ w.pc = "paging" => NoneSkipped(w, since, rows, list.by[1])
               /\ w.pc = "done" => since.there \ since.saved \subseteq Gotten(w.got)
    <3>1. PICK c : c = list.by[1] /\ Told(c)
      BY <1>2, <2>9 DEF Told
    <3>2. NoneSkipped(walk, since, rows, c)
      BY <2>3, <2>9, <3>1 DEF WalkInv, OnTheWay
    <3>3. w = LS!Took(s, Cardinality(There(rows)))
      BY <2>1, <2>5, <2>9
    <3> QED
      BY <1>2, <2>3, <3>1, <3>2, <3>3, PageSkipsNone
  <2>10. ASSUME list.told, ~since.gap, since.saved = {}
         PROVE  /\ w.pc = "paging" => InOrder(w, since, rows, list.by[1])
                /\ w.pc = "done" => /\ Gotten(w.got) = since.there
                                    /\ Len(w.got) = Cardinality(Gotten(w.got))
    <3>1. PICK c : c = list.by[1] /\ Told(c)
      BY <1>2, <2>10 DEF Told
    <3>2. InOrder(walk, since, rows, c)
      BY <2>3, <2>10, <3>1 DEF WalkInv, OnTheWay
    <3>3. total = Cardinality(There(rows))
      BY <2>1, <2>3, <3>2 DEF InOrder
    <3>4. w = LS!Took(s, Cardinality(There(rows)))
      BY <2>5, <3>3
    <3> QED
      BY <1>2, <2>3, <3>1, <3>2, <3>4, PageInOrder
  <2>11. OnTheWay'
    BY <1>1, <2>3, <2>7, <2>9, <2>10 DEF OnTheWay
  <2>12. LS!WalkIsComplete'
    <3> SUFFICES ASSUME w.pc = "done", list.told, ~since.gap
                 PROVE  /\ since.saved = {} => /\ Gotten(w.got) = since.there
                                               /\ Len(w.got) = LS!Cardinality(Gotten(w.got))
                        /\ list.whole => since.there \ since.saved \subseteq Gotten(w.got)
      BY <1>1, <2>3, <2>7 DEF LS!WalkIsComplete, LS!Got, Gotten
    <3> QED
      BY <2>9, <2>10, SameSizes
  <2> QED
    BY <2>6, <2>7, <2>8, <2>11, <2>12 DEF WalkInv
<1> QED
  BY <1>4, <1>5, <1>6

(***************************************************************************)
(* A reader that pages through a list whose ties are told misses no row    *)
(* that nobody moved.                                                      *)
(***************************************************************************)
THEOREM WalkInvariant ==
  ASSUME LS!NumbersAsIds
  PROVE  LS!Spec => []WalkInv
<1>1. ASSUME LS!Init PROVE WalkInv
  <2>1. /\ list \in LS!Lists /\ rows = [i \in Ids |-> LS!Absent] /\ clock = 0
        /\ walk = [pc |-> "idle", offset |-> 0, total |-> -1, got |-> <<>>]
        /\ since = [there |-> {}, saved |-> {}, gap |-> FALSE]
    BY <1>1 DEF LS!Init, LS!Idle
  <2>2. There(rows) = {} /\ \A i \in Ids : rows[i].updated <= clock
    BY <2>1 DEF There, LS!Absent
  <2>3. walk \in Walks /\ since \in Sinces /\ walk.pc = "idle"
    BY <2>1 DEF Walks, Sinces
  <2>4. ListTypes
    BY <2>1, <2>2, <2>3, FS_EmptySet DEF ListTypes
  <2> QED
    BY <2>3, <2>4 DEF WalkInv, Paged, OnTheWay, LS!WalkIsComplete
<1>2. ASSUME WalkInv, [LS!Next]_(LS!vars) PROVE WalkInv'
  <2>1. CASE LS!StartWalk \/ LS!ReadPage \/ LS!CountRows \/ LS!ReadRows
    BY <1>2, <2>1, ReadsKeep
  <2>2. CASE \E i \in Ids, key \in Keys : LS!Save(i, key)
    BY <1>2, <2>2, SaveKeeps
  <2>3. CASE \E i \in Ids : LS!Delete(i)
    BY <1>2, <2>3, DeleteKeeps
  <2>4. CASE UNCHANGED LS!vars
    BY <1>2, <2>4 DEF LS!vars, WalkInv, ListTypes, Paged, OnTheWay, LS!WalkIsComplete, LS!Got
  <2> QED
    BY <1>2, <2>1, <2>2, <2>3, <2>4 DEF LS!Next
<1> QED
  BY <1>1, <1>2, PTL DEF LS!Spec

-----------------------------------------------------------------------------
(* History: the log and what is read of it.                                *)

(***************************************************************************)
(* The log is read the same in every module.                               *)
(***************************************************************************)
LEMMA SameReads ==
  /\ \A l : HI!EventsOf(l) = EventsOf(l)
  /\ \A l, s, b : HI!OwnEvents(l, s, b) = OwnEvents(l, s, b)
  /\ \A l, S : HI!OnlyIn(l, S) = OnlyIn(l, S)
  /\ \A l, n : HI!Capped(l, n) = Capped(l, n)
  /\ \A l, n, k : HI!Page(l, n, k) = Page(l, n, k)
  /\ \A l, s, b, v, batch : HI!Stored(l, s, b, v, batch) = Stored(l, s, b, v, batch)
<1>1. \A l : HI!EventsOf(l) = EventsOf(l)
  BY DEF HI!EventsOf, EventsOf
<1>2. \A l, s, b : HI!OwnEvents(l, s, b) = OwnEvents(l, s, b)
  BY <1>1 DEF HI!OwnEvents, OwnEvents
<1>3. \A l, S : HI!OnlyIn(l, S) = OnlyIn(l, S)
  BY DEF HI!OnlyIn, OnlyIn
<1>4. \A l, n : HI!Capped(l, n) = Capped(l, n)
  BY DEF HI!Capped, Capped
<1>5. \A l, n, k : HI!Page(l, n, k) = Page(l, n, k)
  BY DEF HI!Page, Page
<1>6. \A l, s, b, v, batch : HI!Stored(l, s, b, v, batch) = Stored(l, s, b, v, batch)
  BY DEF HI!Stored, Stored
<1> QED
  BY <1>1, <1>2, <1>3, <1>4, <1>5, <1>6

(***************************************************************************)
(* A log is a sequence of its events.                                      *)
(***************************************************************************)
LEMMA LogOfEvents ==
  ASSUME NEW l, IsLog(l)
  PROVE  l \in Seq(EventsOf(l)) /\ Len(l) \in Nat /\ DOMAIN l = 1..Len(l)
<1>1. PICK S : l \in Seq(S)
  BY DEF IsLog
<1> QED
  BY <1>1 DEF EventsOf

\* The events are at their positions, and dated.
Dated(l) ==
  /\ IsLog(l) /\ Len(l) \in Nat
  /\ \A i \in 1..Len(l) : l[i].position = i /\ l[i].body.time \in Times

(***************************************************************************)
(* Such a log is in the order of its positions, and an event's position    *)
(* says where it is.                                                       *)
(***************************************************************************)
LEMMA DatedIsPlaced ==
  ASSUME NEW l, Dated(l)
  PROVE  /\ Placed(l)
         /\ \A e \in EventsOf(l) : e.position \in 1..Len(l) /\ l[e.position] = e
<1>1. /\ IsLog(l) /\ Len(l) \in Nat
      /\ \A i \in 1..Len(l) : l[i].position = i
  BY DEF Dated
<1>2. \A e \in EventsOf(l) : e.position \in 1..Len(l) /\ l[e.position] = e
  BY <1>1 DEF EventsOf
<1> QED
  BY <1>1, <1>2 DEF Placed, Ordered

(***************************************************************************)
(* A write adds one event at the end.                                      *)
(***************************************************************************)
LEMMA WriteGrows ==
  ASSUME Dated(log), NEW s, NEW b, HI!Write(s, b)
  PROVE  /\ Dated(log')
         /\ Len(log') = Len(log) + 1
         /\ \A i \in 1..Len(log) : log'[i] = log[i]
         /\ log'[Len(log) + 1].stream = s /\ log'[Len(log) + 1].branch = b
         /\ EventsOf(log') = EventsOf(log) \union {log'[Len(log) + 1]}
<1>1. PICK t \in Times :
        log' = log \o HI!Stored(log, s, b,
                 HI!CurrentVersion(log, HI!StreamVersion(log, s, b), s, b, 0), <<[time |-> t]>>)
  BY DEF HI!Write
<1>2. PICK cur : cur = HI!CurrentVersion(log, HI!StreamVersion(log, s, b), s, b, 0)
  OBVIOUS
<1>3. PICK body : body = [time |-> t]
  OBVIOUS
<1>4. PICK m : m = log'
  OBVIOUS
<1>5. Grows(log, m, s, b, cur, body)
  BY <1>1, <1>2, <1>3, <1>4, SameReads DEF Grows
<1>6. /\ OneLonger(log, m)
      /\ m[Len(m)] = StoredEvent(log, s, b, cur, body)
      /\ EventsOf(m) = EventsOf(log) \union {StoredEvent(log, s, b, cur, body)}
  BY <1>5, OneMore DEF Dated
<1>7. /\ IsLog(m) /\ Len(log) \in Nat /\ Len(m) = Len(log) + 1
      /\ \A i \in 1..Len(log) : m[i] = log[i]
  BY <1>6 DEF OneLonger
<1>8. PICK e : e = m[Len(log) + 1]
  OBVIOUS
<1>9. /\ EventsOf(m) = EventsOf(log) \union {e}
      /\ e.stream = s /\ e.branch = b /\ e.position = Len(log) + 1 /\ e.body.time = t
  BY <1>3, <1>6, <1>7, <1>8 DEF StoredEvent
<1>10. \A i \in 1..Len(m) : m[i].position = i /\ m[i].body.time \in Times
  <2> SUFFICES ASSUME NEW i \in 1..Len(m)
               PROVE  m[i].position = i /\ m[i].body.time \in Times
    OBVIOUS
  <2>1. i \in 1..Len(log) \/ i = Len(log) + 1
    BY <1>7
  <2>2. CASE i \in 1..Len(log)
    BY <1>7, <2>2 DEF Dated
  <2>3. CASE i = Len(log) + 1
    BY <1>8, <1>9, <2>3
  <2> QED
    BY <2>1, <2>2, <2>3
<1>11. Dated(m) /\ Len(m) \in Nat
  BY <1>7, <1>10 DEF Dated
<1> QED
  BY <1>4, <1>7, <1>8, <1>9, <1>11

-----------------------------------------------------------------------------
(* History: comparisons.                                                   *)

(***************************************************************************)
(* A page that is not full is everything.                                  *)
(***************************************************************************)
LEMMA ShortIsWhole ==
  ASSUME NEW seq, IsLog(seq), NEW limit \in Int, Len(Capped(seq, limit)) < limit
  PROVE  Capped(seq, limit) = seq
<1>1. PICK S : seq \in Seq(S)
  BY DEF IsLog
<1>2. Len(seq) \in Nat
  BY <1>1, LenProperties
<1>3. PICK n \in Nat \ {0} : n = IF limit < 1 THEN 1 ELSE limit
  OBVIOUS
<1>4. Capped(seq, limit) = IF Len(seq) <= n THEN seq ELSE SubSeq(seq, 1, n)
  BY <1>3 DEF Capped
<1>5. CASE ~ (Len(seq) <= n)
  <2>1. Len(SubSeq(seq, 1, n)) = n
    BY <1>1, <1>2, <1>5
  <2>2. n < limit
    BY <1>4, <1>5, <2>1
  <2> QED
    BY <1>3, <2>2
<1> QED
  BY <1>4, <1>5

\* The places of what lies between two positions.
Between(l, m, n) == {i \in 1..Len(l) : l[i].stream # Import /\ ((m < i) # (n < i))}

(***************************************************************************)
(* A comparison shows what lies between the two positions only, and all of *)
(* it unless the read was full.                                            *)
(***************************************************************************)
LEMMA ComparisonIsWhole ==
  ASSUME HI!NumbersAsSizes, NEW l, Dated(l), NEW m \in Nat, NEW n \in Nat,
         NEW c, c = HI!Comparison(l, m, n), NEW T, T = Between(l, m, n)
  PROVE  /\ DOMAIN c.changes = 1..Len(c.changes)
         /\ EventsOf(c.changes) \subseteq {l[i] : i \in T}
         /\ ~c.hasMore => {l[i] : i \in T} \subseteq EventsOf(c.changes)
<1>1. PICK from, to \in Nat :
        from = (IF m > n THEN n ELSE m) /\ to = (IF m > n THEN m ELSE n)
  OBVIOUS
<1>2. PICK late : late = OnlyIn(l, {e \in EventsOf(l) : e.position > from})
  OBVIOUS
<1>3. PICK read : read = Capped(late, MaxComparison)
  OBVIOUS
<1>4. PICK cut : cut = OnlyIn(read, {e \in EventsOf(read) : e.position <= to})
  OBVIOUS
<1>5. PICK shown : shown = OnlyIn(cut, {e \in EventsOf(cut) : e.stream # Import})
  OBVIOUS
<1>6. c.changes = shown /\ (c.hasMore <=> Len(read) >= MaxComparison)
  <2>1. HI!ReadAll(l, from, MaxComparison) = read
    BY <1>2, <1>3, SameReads DEF HI!ReadAll
  <2>2. HI!UpTo(read, to) = cut
    BY <1>4, SameReads DEF HI!UpTo
  <2>3. HI!Entries(cut) = shown
    BY <1>5, SameReads DEF HI!Entries
  <2>4. PICK full : full = (Len(read) >= MaxComparison)
    OBVIOUS
  <2>5. c = [changes |-> shown, hasMore |-> full]
    BY <1>1, <2>1, <2>2, <2>3, <2>4 DEF HI!Comparison, HI!ReadCap
  <2>6. c.changes = shown /\ c.hasMore = full
    BY <2>5
  <2> QED
    BY <2>4, <2>6
<1>7. MaxComparison \in Int
  BY DEF HI!NumbersAsSizes
<1>8. Placed(l) /\ \A e \in EventsOf(l) : e.position \in 1..Len(l) /\ l[e.position] = e
  BY DatedIsPlaced
<1>9. Placed(late) /\ EventsOf(late) = {e \in EventsOf(l) : e.position > from}
  BY <1>2, <1>8, OnlyInPlaced
<1>10. /\ Placed(read) /\ Len(read) \in Nat /\ EventsOf(read) \subseteq EventsOf(late)
       /\ Len(read) < MaxComparison => read = late
  <2>1. /\ IsLog(read) /\ Len(read) \in Nat /\ Ordered(read)
        /\ EventsOf(read) \subseteq EventsOf(late)
    BY <1>3, <1>7, <1>9, CappedEvents DEF Placed
  <2>2. Len(read) < MaxComparison => read = late
    BY <1>3, <1>7, <1>9, ShortIsWhole DEF Placed
  <2> QED
    BY <1>9, <2>1, <2>2 DEF Placed
<1>11. Placed(cut) /\ EventsOf(cut) = {e \in EventsOf(read) : e.position <= to}
  BY <1>4, <1>10, OnlyInPlaced
<1>12. Placed(shown) /\ EventsOf(shown) = {e \in EventsOf(cut) : e.stream # Import}
  BY <1>5, <1>11, OnlyInPlaced
<1>13. \A i \in 1..Len(l) : l[i] \in EventsOf(l) /\ l[i].position = i
  BY DEF EventsOf, Dated
<1>14. T = {i \in 1..Len(l) : l[i].stream # Import /\ from < i /\ i <= to}
  <2>1. \A i \in 1..Len(l) : ((m < i) # (n < i)) <=> from < i /\ i <= to
    BY <1>1
  <2> QED
    BY <2>1 DEF Between
<1>15. EventsOf(shown) \subseteq {l[i] : i \in T}
  <2> SUFFICES ASSUME NEW e \in EventsOf(shown) PROVE \E i \in T : e = l[i]
    OBVIOUS
  <2>1. e \in EventsOf(l) /\ e.position > from /\ e.position <= to /\ e.stream # Import
    BY <1>9, <1>10, <1>11, <1>12
  <2>2. e.position \in 1..Len(l) /\ l[e.position] = e
    BY <1>8, <2>1
  <2> QED
    BY <1>1, <1>14, <2>1, <2>2
<1>16. ASSUME ~c.hasMore PROVE {l[i] : i \in T} \subseteq EventsOf(shown)
  <2>1. read = late
    BY <1>6, <1>7, <1>10, <1>16
  <2> SUFFICES ASSUME NEW i \in T PROVE l[i] \in EventsOf(shown)
    OBVIOUS
  <2>2. i \in 1..Len(l) /\ l[i].stream # Import /\ from < i /\ i <= to
    BY <1>14
  <2> QED
    BY <1>1, <1>9, <1>11, <1>12, <1>13, <2>1, <2>2
<1>17. DOMAIN shown = 1..Len(shown)
  BY <1>12, LogOfEvents DEF Placed
<1> QED
  BY <1>6, <1>15, <1>16, <1>17

\* A snapshot marks a position the log has.
MarksStand ==
  /\ mark \in [Snapshots -> Nat \union {NoMark}]
  /\ \A s \in Snapshots : mark[s] # NoMark => mark[s] \in Nat

(***************************************************************************)
(* So every comparison is what it claims to be.                            *)
(***************************************************************************)
LEMMA MarkedIsWhole ==
  ASSUME HI!NumbersAsSizes, Dated(log), MarksStand
  PROVE  HI!WholeComparison
<1> SUFFICES ASSUME NEW s \in HI!Marked, NEW t \in HI!Marked,
                    NEW c, c = HI!Comparison(log, mark[s], mark[t])
             PROVE  /\ \A j \in DOMAIN c.changes : \E i \in DOMAIN log :
                         /\ log[i].stream # Import /\ ((mark[s] < i) # (mark[t] < i))
                         /\ c.changes[j] = log[i]
                    /\ ~c.hasMore => \A i \in DOMAIN log :
                         log[i].stream # Import /\ ((mark[s] < i) # (mark[t] < i)) =>
                           \E j \in DOMAIN c.changes : c.changes[j] = log[i]
  BY DEF HI!WholeComparison
<1>1. PICK m, n \in Nat : m = mark[s] /\ n = mark[t]
  BY DEF HI!Marked, MarksStand
<1>2. PICK T : T = Between(log, m, n)
  OBVIOUS
<1>3. /\ DOMAIN c.changes = 1..Len(c.changes)
      /\ EventsOf(c.changes) \subseteq {log[i] : i \in T}
      /\ ~c.hasMore => {log[i] : i \in T} \subseteq EventsOf(c.changes)
  <2>1. c = HI!Comparison(log, m, n)
    BY <1>1
  <2> QED
    BY <1>2, <2>1, ComparisonIsWhole
<1>4. DOMAIN log = 1..Len(log)
  BY LogOfEvents DEF Dated
<1>5. ASSUME NEW j \in DOMAIN c.changes PROVE \E i \in T : c.changes[j] = log[i]
  BY <1>3 DEF EventsOf
<1>6. ASSUME ~c.hasMore, NEW i \in T PROVE \E j \in DOMAIN c.changes : c.changes[j] = log[i]
  <2>1. PICK shows : shows = c.changes
    OBVIOUS
  <2>2. log[i] \in EventsOf(shows)
    BY <1>3, <1>6, <2>1
  <2>3. PICK j \in 1..Len(shows) : shows[j] = log[i]
    BY <2>2 DEF EventsOf
  <2> QED
    BY <1>3, <2>1, <2>3
<1>7. T = {i \in DOMAIN log : log[i].stream # Import /\ ((mark[s] < i) # (mark[t] < i))}
  BY <1>1, <1>2, <1>4 DEF Between
<1> QED
  BY <1>5, <1>6, <1>7

-----------------------------------------------------------------------------
(* History: pages.                                                         *)

(***************************************************************************)
(* What a page is.                                                         *)
(***************************************************************************)
LEMMA PageIs ==
  ASSUME NEW S, NEW seq \in Seq(S), NEW limit \in Nat, NEW offset \in Nat,
         NEW p, p = Page(seq, limit, offset)
  PROVE  /\ p.events \in Seq(S)
         /\ p.hasMore \in BOOLEAN /\ (p.hasMore <=> offset + limit < Len(seq))
         /\ Len(p.events) = IF offset > Len(seq) THEN 0
                            ELSE IF offset + limit > Len(seq) THEN Len(seq) - offset ELSE limit
         /\ \A i \in 1..Len(p.events) : offset + i \in 1..Len(seq) /\ p.events[i] = seq[offset + i]
<1>1. PICK total : total = Len(seq)
  OBVIOUS
<1>2. total \in Nat
  BY <1>1
<1>3. PICK first : first = IF offset > total THEN total ELSE offset
  OBVIOUS
<1>4. PICK last : last = IF first + limit > total THEN total ELSE first + limit
  OBVIOUS
<1>5. first \in Nat /\ last \in Nat /\ first <= last /\ last <= total
  BY <1>2, <1>3, <1>4
<1>6. PICK events : events = SubSeq(seq, first + 1, last)
  OBVIOUS
<1>7. PICK more : more = (last < total)
  OBVIOUS
<1>8. p = [events |-> events, totalCount |-> total, hasMore |-> more]
  BY <1>1, <1>3, <1>4, <1>6, <1>7 DEF Page
<1>9. p.events = events /\ p.hasMore = more
  BY <1>8
<1>10. /\ events \in Seq(S) /\ Len(events) = last - first
       /\ \A i \in 1..Len(events) : events[i] = seq[first + i]
  <2>1. \A i \in first + 1 .. last : seq[i] \in S
    BY <1>1, <1>5
  <2>2. /\ Len(events) = last - first
        /\ \A i \in 1..Len(events) : events[i] = seq[first + i]
    BY <1>1, <1>5, <1>6
  <2>3. events \in Seq(S)
    BY <1>5, <1>6, <2>1
  <2> QED
    BY <2>2, <2>3
<1>11. more \in BOOLEAN /\ (more <=> offset + limit < total)
  <2>1. last < total <=> offset + limit < total
    BY <1>2, <1>3, <1>4
  <2>2. more \in BOOLEAN
    BY <1>5, <1>7
  <2>3. more <=> last < total
    BY <1>7
  <2> QED
    BY <2>1, <2>2, <2>3
<1>12. last - first = IF offset > total THEN 0
                      ELSE IF offset + limit > total THEN total - offset ELSE limit
  BY <1>2, <1>3, <1>4
<1>13. ASSUME NEW i \in 1..Len(events)
       PROVE  offset + i \in 1..Len(seq) /\ events[i] = seq[offset + i]
  <2>1. first = offset /\ i \in 1..last - first
    BY <1>2, <1>3, <1>5, <1>10, <1>12
  <2>2. offset + i \in 1..total
    BY <1>2, <1>5, <2>1
  <2> QED
    BY <1>1, <1>10, <2>1, <2>2
<1> QED
  BY <1>1, <1>9, <1>10, <1>11, <1>12, <1>13

\* An entity's history on main.
Mine(l, s) == OnlyIn(l, OwnEvents(l, s, Main))

(***************************************************************************)
(* It is a part of the log, and grows at its end.                          *)
(***************************************************************************)
LEMMA MineIs ==
  ASSUME NEW l, Dated(l), NEW s
  PROVE  Placed(Mine(l, s)) /\ EventsOf(Mine(l, s)) = OwnEvents(l, s, Main)
<1>1. PICK mine : mine = Mine(l, s)
  OBVIOUS
<1>2. Placed(l)
  BY DatedIsPlaced
<1>3. Placed(mine) /\ EventsOf(mine) = EventsOf(l) \intersect OwnEvents(l, s, Main)
  BY <1>1, <1>2, OnlyInPlaced DEF Mine
<1>4. OwnEvents(l, s, Main) \subseteq EventsOf(l)
  BY DEF OwnEvents
<1> QED
  BY <1>1, <1>3, <1>4

(***************************************************************************)
(* It grows at its end, by what is written.                                *)
(***************************************************************************)
LEMMA MineGrows ==
  ASSUME NEW l, Dated(l), NEW m, Dated(m), Len(m) = Len(l) + 1,
         NEW e, e = m[Len(l) + 1], EventsOf(m) = EventsOf(l) \union {e},
         NEW s, NEW x, x = Mine(l, s), NEW y, y = Mine(m, s)
  PROVE  /\ Len(x) \in Nat /\ Len(y) \in Nat /\ Len(x) <= Len(y)
         /\ \A i \in 1..Len(x) : y[i] = x[i]
         /\ \A i \in 1..Len(y) : i \in 1..Len(x) \/ y[i].position > Len(l)
<1>1. /\ Placed(x) /\ EventsOf(x) = OwnEvents(l, s, Main)
      /\ Placed(y) /\ EventsOf(y) = OwnEvents(m, s, Main)
  BY MineIs
<1>2. Len(x) \in Nat /\ Len(y) \in Nat /\ Len(l) \in Nat
  BY <1>1 DEF Placed, Dated
<1>3. e.position = Len(l) + 1
  BY <1>2 DEF Dated
<1>4. CASE ~(e.stream = s /\ e.branch = Main)
  <2>1. OwnEvents(m, s, Main) = OwnEvents(l, s, Main)
    BY <1>4 DEF OwnEvents
  <2>2. x = y
    BY <1>1, <2>1, SameSequence
  <2> QED
    BY <1>2, <2>2
<1>5. CASE e.stream = s /\ e.branch = Main
  <2>1. OwnEvents(m, s, Main) = OwnEvents(l, s, Main) \union {e}
    BY <1>5 DEF OwnEvents
  <2>2. PICK S : x \in Seq(S)
    BY <1>1 DEF Placed, IsLog
  <2>3. PICK z : z = Append(x, e)
    OBVIOUS
  <2>4. /\ z \in Seq(S \union {e}) /\ Len(z) = Len(x) + 1
        /\ \A i \in 1..Len(x) : z[i] = x[i]
        /\ z[Len(x) + 1] = e
    BY <1>2, <2>2, <2>3
  <2>5. EventsOf(z) = EventsOf(x) \union {e}
    <3>1. 1..Len(z) = 1..Len(x) \union {Len(x) + 1}
      BY <1>2, <2>4
    <3> QED
      BY <2>4, <3>1 DEF EventsOf
  <2>6. \A d \in EventsOf(x) : d.position \in Nat /\ d.position < e.position
    <3> SUFFICES ASSUME NEW d \in EventsOf(l) PROVE d.position \in Nat /\ d.position < e.position
      BY <1>1 DEF OwnEvents
    <3>1. d.position \in 1..Len(l)
      BY DatedIsPlaced
    <3> QED
      BY <1>2, <1>3, <3>1
  <2>7. Ordered(z)
    <3> SUFFICES ASSUME NEW i \in 1..Len(z), NEW j \in 1..Len(z), i < j
                 PROVE  z[i].position < z[j].position
      BY DEF Ordered
    <3>1. i \in 1..Len(x) /\ z[i] = x[i] /\ x[i] \in EventsOf(x)
      BY <1>2, <2>4 DEF EventsOf
    <3>2. CASE j \in 1..Len(x)
      BY <1>1, <2>4, <3>1, <3>2 DEF Placed, Ordered
    <3>3. CASE j = Len(x) + 1
      BY <2>4, <2>6, <3>1, <3>3
    <3> QED
      BY <1>2, <2>4, <3>2, <3>3
  <2>8. Placed(z)
    <3>1. \A d \in EventsOf(z) : d.position \in Nat
      BY <1>2, <1>3, <2>5, <2>6
    <3> QED
      BY <1>2, <2>4, <2>7, <3>1 DEF Placed, IsLog
  <2>9. z = y
    BY <1>1, <2>1, <2>5, <2>8, SameSequence
  <2> QED
    BY <1>2, <1>3, <2>4, <2>9
<1> QED
  BY <1>4, <1>5

-----------------------------------------------------------------------------
(* History: the order of times.                                            *)

(***************************************************************************)
(* The events have as many places as there are events.                     *)
(***************************************************************************)
LEMMA EventsCount ==
  ASSUME NEW l, Dated(l)
  PROVE  IsFiniteSet(EventsOf(l)) /\ Cardinality(EventsOf(l)) = Len(l)
<1>1. /\ Len(l) \in Nat
      /\ \A i \in 1..Len(l) : l[i] \in EventsOf(l) /\ l[i].position = i
  BY DEF Dated, EventsOf
<1>2. PICK f : f = [i \in 1..Len(l) |-> l[i]]
  OBVIOUS
<1>3. f \in Injection(1..Len(l), EventsOf(l))
  <2>1. f \in [1..Len(l) -> EventsOf(l)]
    BY <1>1, <1>2
  <2>2. \A i, j \in 1..Len(l) : f[i] = f[j] => i = j
    BY <1>1, <1>2
  <2> QED
    BY <2>1, <2>2 DEF Injection, IsInjective
<1>4. f \in Surjection(1..Len(l), EventsOf(l))
  BY <1>1, <1>2 DEF EventsOf, Surjection
<1>5. IsFiniteSet(1..Len(l)) /\ Cardinality(1..Len(l)) = Len(l)
  BY <1>1, FS_Interval
<1> QED
  BY <1>3, <1>4, <1>5, FS_Surjection

(***************************************************************************)
(* Times, as the store compares them, and positions order the events.      *)
(***************************************************************************)
LEMMA EarlierIsTotal ==
  ASSUME HI!NumbersAsTimes, Dated(log)
  PROVE  /\ \A d \in EventsOf(log) : ~HI!Earlier(d, d)
         /\ \A d, e \in EventsOf(log) : d # e => HI!Earlier(d, e) \/ HI!Earlier(e, d)
         /\ \A d, e \in EventsOf(log) : ~(HI!Earlier(d, e) /\ HI!Earlier(e, d))
         /\ \A c, d, e \in EventsOf(log) : HI!Earlier(d, e) /\ ~HI!Earlier(d, c) => ~HI!Earlier(e, c)
<1>1. \A e \in EventsOf(log) : e.position \in 1..Len(log) /\ log[e.position] = e
  BY DatedIsPlaced
<1>2. \A e \in EventsOf(log) : e.position \in Int /\ e.body.time \in Int
  <2>1. Times \subseteq Int
    BY DEF HI!NumbersAsTimes
  <2>2. \A i \in 1..Len(log) : log[i].body.time \in Times
    BY DEF Dated
  <2>3. \A e \in EventsOf(log) : e.body.time \in Int
    BY <1>1, <2>1, <2>2
  <2>4. \A e \in EventsOf(log) : e.position \in Int
    BY <1>1
  <2> QED
    BY <2>3, <2>4
<1>3. \A d, e \in EventsOf(log) : d # e => d.position # e.position
  BY <1>1
<1>4. \A e \in EventsOf(log) : HI!SortKey(e.body.time) \in Int
  BY <1>2 DEF HI!SortKey
<1>5. \A d, e \in EventsOf(log) : d # e => HI!Earlier(d, e) \/ HI!Earlier(e, d)
  BY <1>2, <1>3, <1>4 DEF HI!Earlier
<1>6. \A d \in EventsOf(log) : ~HI!Earlier(d, d)
  BY <1>2, <1>4 DEF HI!Earlier
<1>7. \A d, e \in EventsOf(log) : ~(HI!Earlier(d, e) /\ HI!Earlier(e, d))
  BY <1>2, <1>4 DEF HI!Earlier
<1>8. \A c, d, e \in EventsOf(log) : HI!Earlier(d, e) /\ ~HI!Earlier(d, c) => ~HI!Earlier(e, c)
  BY <1>2, <1>4 DEF HI!Earlier
<1> QED
  BY <1>5, <1>6, <1>7, <1>8

(***************************************************************************)
(* Every event is at its place in the order of times.                      *)
(***************************************************************************)
LEMMA PlacesFill ==
  ASSUME HI!NumbersAsTimes, Dated(log)
  PROVE  /\ HI!ByTime \in Seq(EventsOf(log)) /\ Len(HI!ByTime) = Len(log)
         /\ \A e \in EventsOf(log) : HI!Place(e) \in 1..Len(log) /\ HI!ByTime[HI!Place(e)] = e
<1>1. PICK E : E = EventsOf(log)
  OBVIOUS
<1>2. PICK N \in Nat : N = Len(log)
  BY DEF Dated
<1>3. IsFiniteSet(E) /\ Cardinality(E) = N
  BY <1>1, <1>2, EventsCount
<1> DEFINE Up(e) == {d \in E : ~HI!Earlier(e, d)}
<1>4. \A e : HI!Place(e) = Cardinality(Up(e))
  BY <1>1, SameReads, SameSizes DEF HI!Place
<1>5. ASSUME NEW e \in E
      PROVE  /\ IsFiniteSet(Up(e)) /\ Cardinality(Up(e)) \in 1..N
  <2>1. IsFiniteSet(Up(e)) /\ Cardinality(Up(e)) <= N
    BY <1>3, FS_Subset
  <2>2. e \in Up(e)
    BY <1>1, EarlierIsTotal
  <2>3. Cardinality(Up(e)) \in Nat /\ Cardinality(Up(e)) # 0
    BY <2>1, <2>2, FS_CardinalityType, FS_EmptySet
  <2> QED
    BY <1>2, <2>1, <2>3
<1>6. ASSUME NEW d \in E, NEW e \in E, HI!Earlier(d, e)
      PROVE  Cardinality(Up(d)) # Cardinality(Up(e))
  <2>1. Up(d) \subseteq Up(e)
    BY <1>1, <1>6, EarlierIsTotal
  <2>2. e \in Up(e) /\ e \notin Up(d)
    BY <1>1, <1>6, EarlierIsTotal
  <2>3. IsFiniteSet(Up(e))
    BY <1>5
  <2> HIDE DEF Up
  <2> QED
    BY <2>1, <2>2, <2>3, FS_Subset
<1> HIDE DEF Up
<1>7. \A d, e \in E : d # e => HI!Place(d) # HI!Place(e)
  BY <1>1, <1>4, <1>6, EarlierIsTotal
<1>8. \A e \in E : HI!Place(e) \in 1..N
  BY <1>4, <1>5
<1>9. PICK place : place = [e \in E |-> HI!Place(e)]
  OBVIOUS
<1>10. place \in Injection(E, 1..N)
  <2>1. place \in [E -> 1..N]
    BY <1>8, <1>9
  <2>2. \A d, e \in E : place[d] = place[e] => d = e
    BY <1>7, <1>9
  <2> QED
    BY <2>1, <2>2 DEF Injection, IsInjective
<1>11. \A n \in 1..N : \E e \in E : HI!Place(e) = n
  <2>1. IsFiniteSet(1..N) /\ Cardinality(1..N) = N
    BY FS_Interval
  <2>2. place \in Surjection(E, 1..N)
    BY <1>3, <1>10, <2>1, FS_Injection
  <2> QED
    BY <1>9, <2>2 DEF Surjection
<1>12. HI!ByTime = [n \in 1..N |-> CHOOSE e \in E : HI!Place(e) = n]
  BY <1>1, <1>2, SameReads DEF HI!ByTime
<1>13. ASSUME NEW n \in 1..N
       PROVE  HI!ByTime[n] \in E /\ HI!Place(HI!ByTime[n]) = n
  <2>1. \E e \in E : HI!Place(e) = n
    BY <1>11
  <2>2. HI!ByTime[n] = CHOOSE e \in E : HI!Place(e) = n
    BY <1>12
  <2> QED
    BY <2>1, <2>2
<1>14. PICK all : all = HI!ByTime
  OBVIOUS
<1>15. all \in Seq(E) /\ Len(all) = N
  <2>1. all \in [1..N -> E]
    BY <1>12, <1>13, <1>14
  <2> QED
    BY <1>2, <2>1
<1>16. \A e \in E : all[HI!Place(e)] = e
  BY <1>7, <1>8, <1>13, <1>14
<1> QED
  BY <1>1, <1>2, <1>8, <1>14, <1>15, <1>16

\* The place of an event in a global page: a scan keeps the log's order.
Spot(e) == IF order = "scan" THEN e.position ELSE HI!Place(e)

(***************************************************************************)
(* A global page is cut from a sequence that has every event at its place. *)
(***************************************************************************)
LEMMA GlobalPageIs ==
  ASSUME HI!NumbersAsTimes, Dated(log)
  PROVE  \E all \in Seq(EventsOf(log)) :
           /\ Len(all) = Len(log)
           /\ \A e \in EventsOf(log) : Spot(e) \in 1..Len(log) /\ all[Spot(e)] = e
           /\ \A limit, offset : HI!GlobalPage(limit, offset) = Page(all, limit, offset)
<1>1. CASE order # "scan"
  <2>1. \A limit, offset : HI!GlobalPage(limit, offset) = Page(HI!ByTime, limit, offset)
    BY <1>1, SameReads DEF HI!GlobalPage
  <2>2. \A e : Spot(e) = HI!Place(e)
    BY <1>1 DEF Spot
  <2> QED
    BY <2>1, <2>2, PlacesFill
<1>2. CASE order = "scan"
  <2> DEFINE now == CHOOSE t \in Times : \A u \in Times : u <= t
             old == CHOOSE t \in Times : \A u \in Times : t <= u
  <2>1. \A t \in Times : old <= t /\ t <= now
    <3>1. \E t \in Times : \A u \in Times : u <= t
      BY DEF HI!NumbersAsTimes
    <3>2. \E t \in Times : \A u \in Times : t <= u
      BY DEF HI!NumbersAsTimes
    <3> QED
      BY <3>1, <3>2
  <2>2. \A limit, offset : HI!GlobalPage(limit, offset) = HI!ReadGlobalByTime(log, old, now, limit, offset)
    BY <1>2 DEF HI!GlobalPage
  <2> HIDE DEF old, now
  <2>3. {e \in EventsOf(log) : old <= e.body.time /\ e.body.time <= now} = EventsOf(log)
    BY <2>1 DEF EventsOf, Dated
  <2>4. Placed(log) /\ \A e \in EventsOf(log) : e.position \in 1..Len(log) /\ log[e.position] = e
    BY DatedIsPlaced
  <2>5. OnlyIn(log, EventsOf(log)) = log
    <3>1. PICK kept : kept = OnlyIn(log, EventsOf(log))
      OBVIOUS
    <3>2. Placed(kept) /\ EventsOf(kept) = EventsOf(log) \intersect EventsOf(log)
      BY <2>4, <3>1, OnlyInPlaced
    <3>3. EventsOf(kept) = EventsOf(log)
      BY <3>2
    <3> QED
      BY <2>4, <3>1, <3>2, <3>3, SameSequence
  <2>6. \A limit, offset : HI!GlobalPage(limit, offset) = Page(log, limit, offset)
    BY <2>2, <2>3, <2>5, SameReads DEF HI!ReadGlobalByTime
  <2>7. log \in Seq(EventsOf(log))
    BY LogOfEvents DEF Dated
  <2>8. \A e : Spot(e) = e.position
    BY <1>2 DEF Spot
  <2> QED
    BY <2>4, <2>6, <2>7, <2>8
<1> QED
  BY <1>1, <1>2

(***************************************************************************)
(* What is written moves no event to an earlier place.                     *)
(***************************************************************************)
LEMMA SpotGrows ==
  ASSUME Dated(log), Dated(log'), order' = order, EventsOf(log) \subseteq EventsOf(log'),
         HI!NumbersAsTimes, NEW e \in EventsOf(log)
  PROVE  Spot(e) \in Nat /\ Spot(e)' \in Nat /\ Spot(e) <= Spot(e)'
<1>1. \A c, d : HI!Earlier(c, d)' <=> HI!Earlier(c, d)
  BY DEF HI!Earlier, HI!SortKey
<1>2. PICK E, F : E = EventsOf(log) /\ F = EventsOf(log')
  OBVIOUS
<1>3. PICK G, H : G = {d \in E : ~HI!Earlier(e, d)} /\ H = {d \in F : ~HI!Earlier(e, d)}
  OBVIOUS
<1>4. HI!Place(e) = Cardinality(G)
  BY <1>2, <1>3, SameReads, SameSizes DEF HI!Place
<1>5. HI!Place(e)' = Cardinality(H)
  <2>1. HI!EventsOf(log') = F
    BY <1>2, SameReads
  <2> QED
    BY <1>1, <1>3, <2>1, SameSizes DEF HI!Place
<1>6. IsFiniteSet(F)
  BY <1>2, EventsCount
<1>7. G \subseteq H /\ IsFiniteSet(H)
  BY <1>2, <1>3, <1>6, FS_Subset
<1>8. /\ Cardinality(G) \in Nat /\ Cardinality(H) \in Nat /\ Cardinality(G) <= Cardinality(H)
  BY <1>7, FS_Subset, FS_CardinalityType
<1>9. e.position \in Nat
  BY DatedIsPlaced DEF Dated
<1> QED
  BY <1>4, <1>5, <1>8, <1>9 DEF Spot

-----------------------------------------------------------------------------
(* History: pagers.                                                        *)

\* What a pager may show of a log.
Views(l) ==
  [of : Histories, limit : Nat, offset : Nat, began : 0..Len(l), items : Seq(EventsOf(l)),
   hasMore : BOOLEAN]

\* A pager of an entity shows the beginning of its history on main, up to
\* the end of its page, or else all that was there when it began.
EntityShown(v, l) ==
  v.of \in Streams =>
    /\ Len(v.items) <= Len(Mine(l, v.of))
    /\ \A i \in 1..Len(v.items) : v.items[i] = Mine(l, v.of)[i]
    /\ v.hasMore => Len(v.items) = v.offset + v.limit
    /\ ~v.hasMore => \A i \in 1..Len(Mine(l, v.of)) :
                       Mine(l, v.of)[i].position <= v.began => i <= Len(v.items)

\* What was there when a global pager began it shows, or has yet to come to.
GlobalShown(v) ==
  v.of = Everything =>
    \A i \in 1..v.began :
      log[i].stream # Import =>
        log[i] \in EventsOf(v.items) \/ (v.hasMore /\ Spot(log[i]) > v.offset + v.limit)

\* Which events the entries of a page are.
Shown(events) == OnlyIn(events, {e \in EventsOf(events) : e.stream # Import})

\* A sequence is the beginning of another.
StartOf(items, whole) ==
  Len(items) <= Len(whole) /\ \A i \in 1..Len(items) : items[i] = whole[i]

\* What a pager shows with a page's entries after those it showed.
Showing(items, events) == items \o Shown(events)

(***************************************************************************)
(* They are some of the page's.                                            *)
(***************************************************************************)
LEMMA ShownTypes ==
  ASSUME NEW T, NEW q \in Seq(T), NEW shown, shown = Shown(q)
  PROVE  shown \in Seq(T) /\ Len(shown) \in Nat
<1>1. PICK S : S = {e \in EventsOf(q) : e.stream # Import}
  OBVIOUS
<1>2. shown = OnlyIn(q, S)
  BY <1>1 DEF Shown
<1>3. Len(q) \in Nat
  OBVIOUS
<1>4. shown \in Seq(EventsOf(q) \intersect S) /\ Len(shown) \in Nat
  BY <1>2, <1>3, OnlyInItems
<1>5. EventsOf(q) \intersect S \subseteq T
  BY DEF EventsOf
<1> QED
  BY <1>4, <1>5

(***************************************************************************)
(* What a page of an entity's history adds.                                *)
(***************************************************************************)
LEMMA EntityAdds ==
  ASSUME HI!ImportApart, Dated(log), NEW s \in Streams,
         NEW limit \in Nat, NEW offset \in Nat, NEW items, items \in Seq(EventsOf(log)),
         NEW mine, mine = Mine(log, s), Len(items) = offset, StartOf(items, mine),
         NEW p, p = Page(mine, limit, offset),
         NEW more, more = Showing(items, p.events)
  PROVE  /\ p.events \in Seq(EventsOf(log)) /\ p.hasMore \in BOOLEAN
         /\ StartOf(more, mine)
         /\ p.hasMore => Len(more) = offset + limit
         /\ ~p.hasMore => Len(more) = Len(mine)
<1>1. /\ Placed(mine) /\ EventsOf(mine) = OwnEvents(log, s, Main)
      /\ OwnEvents(log, s, Main) \subseteq EventsOf(log)
  BY MineIs DEF OwnEvents
<1>2. PICK page : page = p.events
  OBVIOUS
<1>3. mine \in Seq(EventsOf(log)) /\ Len(mine) \in Nat
  <2>1. mine \in Seq(EventsOf(mine)) /\ Len(mine) \in Nat
    BY <1>1, LogOfEvents DEF Placed
  <2>2. EventsOf(mine) \subseteq EventsOf(log)
    BY <1>1
  <2> QED
    BY <2>1, <2>2
<1>4. /\ page \in Seq(EventsOf(log))
      /\ p.hasMore \in BOOLEAN /\ (p.hasMore <=> offset + limit < Len(mine))
      /\ Len(page) = IF offset > Len(mine) THEN 0
                     ELSE IF offset + limit > Len(mine) THEN Len(mine) - offset ELSE limit
      /\ \A i \in 1..Len(page) : offset + i \in 1..Len(mine) /\ page[i] = mine[offset + i]
  BY <1>2, <1>3, PageIs
<1>5. Len(page) \in Nat
  BY <1>4
<1>6. Placed(page)
  <2>1. Ordered(page)
    <3> SUFFICES ASSUME NEW i \in 1..Len(page), NEW j \in 1..Len(page), i < j
                 PROVE  page[i].position < page[j].position
      BY DEF Ordered
    <3>1. /\ offset + i \in 1..Len(mine) /\ offset + j \in 1..Len(mine) /\ offset + i < offset + j
          /\ page[i] = mine[offset + i] /\ page[j] = mine[offset + j]
      BY <1>4, <1>5
    <3> QED
      BY <1>1, <3>1 DEF Placed, Ordered
  <2>2. \A e \in EventsOf(page) : e \in EventsOf(mine)
    BY <1>4 DEF EventsOf
  <2> QED
    BY <1>1, <1>4, <1>5, <2>1, <2>2 DEF Placed, IsLog
<1>7. Shown(page) = page
  <2>1. \A e \in EventsOf(page) : e.stream # Import
    <3>1. \A e \in EventsOf(page) : e \in OwnEvents(log, s, Main)
      BY <1>1, <1>4 DEF EventsOf
    <3> QED
      BY <3>1 DEF OwnEvents, HI!ImportApart
  <2>2. PICK S : S = {e \in EventsOf(page) : e.stream # Import}
    OBVIOUS
  <2>3. S = EventsOf(page)
    BY <2>1, <2>2
  <2>4. PICK shown : shown = OnlyIn(page, S)
    OBVIOUS
  <2>5. Placed(shown) /\ EventsOf(shown) = EventsOf(page) \intersect S
    BY <1>6, <2>4, OnlyInPlaced
  <2>6. EventsOf(shown) = EventsOf(page)
    BY <2>3, <2>5
  <2>7. shown = page
    BY <1>6, <2>5, <2>6, SameSequence
  <2> QED
    BY <2>2, <2>4, <2>7 DEF Shown
<1>8. more = items \o page
  BY <1>2, <1>7 DEF Showing
<1>9. /\ Len(more) = offset + Len(page)
      /\ \A i \in 1..offset : more[i] = items[i]
      /\ \A i \in offset + 1 .. offset + Len(page) : more[i] = page[i - offset]
  <2>1. PICK E : E = EventsOf(log)
    OBVIOUS
  <2>2. items \in Seq(E) /\ page \in Seq(E) /\ Len(items) = offset
    BY <1>4, <2>1
  <2>3. /\ Len(items \o page) = Len(items) + Len(page)
        /\ \A i \in 1..Len(items) + Len(page) :
             (items \o page)[i] = IF i <= Len(items) THEN items[i] ELSE page[i - Len(items)]
    BY <2>2, ConcatProperties
  <2> QED
    BY <1>5, <1>8, <2>2, <2>3
<1>10. ASSUME NEW i \in 1..Len(more) PROVE more[i] = mine[i]
  <2>1. CASE i <= offset
    BY <1>9, <2>1 DEF StartOf
  <2>2. CASE i > offset
    <3>1. i - offset \in 1..Len(page) /\ i \in offset + 1 .. offset + Len(page)
          /\ offset + (i - offset) = i
      BY <1>5, <1>9, <2>2
    <3> QED
      BY <1>4, <1>9, <3>1
  <2> QED
    BY <2>1, <2>2
<1>11. /\ Len(more) <= Len(mine)
       /\ p.hasMore => Len(more) = offset + limit
       /\ ~p.hasMore => Len(more) = Len(mine)
  BY <1>3, <1>4, <1>5, <1>9 DEF StartOf
<1>12. StartOf(more, mine)
  BY <1>10, <1>11 DEF StartOf
<1> QED
  BY <1>2, <1>4, <1>11, <1>12

(***************************************************************************)
(* What a page of everything adds.                                         *)
(***************************************************************************)
LEMMA GlobalAdds ==
  ASSUME HI!NumbersAsTimes, Dated(log),
         NEW limit \in Nat, NEW offset \in Nat, NEW items, items \in Seq(EventsOf(log)),
         NEW p, p = HI!GlobalPage(limit, offset),
         NEW more, more = Showing(items, p.events)
  PROVE  /\ p.events \in Seq(EventsOf(log)) /\ p.hasMore \in BOOLEAN
         /\ EventsOf(items) \subseteq EventsOf(more)
         /\ \A e \in EventsOf(log) :
              e.stream # Import /\ Spot(e) > offset =>
                e \in EventsOf(more) \/ (p.hasMore /\ Spot(e) > offset + limit)
<1>1. PICK all \in Seq(EventsOf(log)) :
        /\ Len(all) = Len(log)
        /\ \A e \in EventsOf(log) : Spot(e) \in 1..Len(log) /\ all[Spot(e)] = e
        /\ \A n, k : HI!GlobalPage(n, k) = Page(all, n, k)
  BY GlobalPageIs
<1>2. PICK page : page = p.events
  OBVIOUS
<1>3. p = Page(all, limit, offset) /\ Len(all) \in Nat
  BY <1>1
<1>4. /\ page \in Seq(EventsOf(log))
      /\ p.hasMore \in BOOLEAN /\ (p.hasMore <=> offset + limit < Len(all))
      /\ Len(page) = IF offset > Len(all) THEN 0
                     ELSE IF offset + limit > Len(all) THEN Len(all) - offset ELSE limit
      /\ \A i \in 1..Len(page) : offset + i \in 1..Len(all) /\ page[i] = all[offset + i]
  BY <1>2, <1>3, PageIs
<1>5. PICK shown : shown = Shown(page)
  OBVIOUS
<1>6. PICK S : S = {e \in EventsOf(page) : e.stream # Import}
  OBVIOUS
<1>7. Len(page) \in Nat
  BY <1>4
<1>8. /\ shown \in Seq(EventsOf(page) \intersect S) /\ Len(shown) \in Nat
      /\ EventsOf(shown) = EventsOf(page) \intersect S
  BY <1>5, <1>6, <1>7, OnlyInItems DEF Shown
<1>9. EventsOf(more) = EventsOf(items) \union EventsOf(shown)
  <2>1. PICK T : items \in Seq(T) /\ shown \in Seq(T)
    <3>1. items \in Seq(EventsOf(log) \union (EventsOf(page) \intersect S))
          /\ shown \in Seq(EventsOf(log) \union (EventsOf(page) \intersect S))
      BY <1>8
    <3> QED
      BY <3>1
  <2>2. /\ more = items \o shown /\ Len(items) \in Nat /\ Len(shown) \in Nat
        /\ Len(more) = Len(items) + Len(shown)
        /\ \A i \in 1..Len(items) : more[i] = items[i]
        /\ \A i \in 1..Len(shown) : more[Len(items) + i] = shown[i]
    BY <1>2, <1>5, <2>1 DEF Showing
  <2>3. ASSUME NEW i \in 1..Len(more)
        PROVE  more[i] \in EventsOf(items) \union EventsOf(shown)
    <3>1. i \in 1..Len(items) \/ (i - Len(items) \in 1..Len(shown) /\ Len(items) + (i - Len(items)) = i)
      BY <2>2
    <3> QED
      BY <2>2, <3>1 DEF EventsOf
  <2>4. ASSUME NEW i \in 1..Len(items) PROVE items[i] \in EventsOf(more)
    BY <2>2 DEF EventsOf
  <2>5. ASSUME NEW i \in 1..Len(shown) PROVE shown[i] \in EventsOf(more)
    <3>1. Len(items) + i \in 1..Len(more)
      BY <2>2
    <3> QED
      BY <2>2, <3>1 DEF EventsOf
  <2>6. EventsOf(more) \subseteq EventsOf(items) \union EventsOf(shown)
    BY <2>3 DEF EventsOf
  <2>7. EventsOf(items) \union EventsOf(shown) \subseteq EventsOf(more)
    <3> SUFFICES ASSUME NEW e \in EventsOf(items) \union EventsOf(shown)
                 PROVE  e \in EventsOf(more)
      OBVIOUS
    <3>1. (\E i \in 1..Len(items) : e = items[i]) \/ (\E i \in 1..Len(shown) : e = shown[i])
      BY DEF EventsOf
    <3> QED
      BY <2>4, <2>5, <3>1
  <2> QED
    BY <2>6, <2>7
<1>10. ASSUME NEW e \in EventsOf(log), e.stream # Import, Spot(e) > offset
       PROVE  e \in EventsOf(more) \/ (p.hasMore /\ Spot(e) > offset + limit)
  <2>1. PICK n \in 1..Len(all) : n = Spot(e) /\ all[n] = e
    BY <1>1
  <2>2. n > offset
    BY <1>10, <2>1
  <2>3. CASE n > offset + limit
    BY <1>3, <1>4, <2>1, <2>3
  <2>4. CASE ~(n > offset + limit)
    <3>1. n - offset \in 1..Len(page) /\ offset + (n - offset) = n
      BY <1>3, <1>4, <2>2, <2>4
    <3>2. e \in EventsOf(page)
      BY <1>4, <2>1, <3>1 DEF EventsOf
    <3>3. e \in EventsOf(shown)
      BY <1>6, <1>8, <1>10, <3>2
    <3> QED
      BY <1>9, <3>3
  <2> QED
    BY <2>3, <2>4
<1> QED
  BY <1>2, <1>4, <1>9, <1>10

-----------------------------------------------------------------------------
(* History: the invariant.                                                 *)

\* What the writes, the pagers and the snapshots keep.
HistoryInv ==
  /\ Dated(log)
  /\ MarksStand
  /\ view \in [Readers -> {HI!Closed} \union Views(log)]
  /\ \A r \in Readers :
       view[r] # HI!Closed => EntityShown(view[r], log) /\ GlobalShown(view[r])

\* What is assumed of the constants.
HistoryConstants ==
  HI!NumbersAsTimes /\ HI!NumbersAsSizes /\ HI!ImportApart /\ HI!EverythingApart

(***************************************************************************)
(* It says what the runs check.                                            *)
(***************************************************************************)
LEMMA HistoryShows ==
  ASSUME HistoryConstants, HistoryInv
  PROVE  HI!EntityWalkIsPrefix /\ HI!GlobalWalkMissesNothing /\ HI!WholeComparison
<1>1. HI!WholeComparison
  BY MarkedIsWhole DEF HistoryConstants, HistoryInv
<1>2. HI!EntityWalkIsPrefix
  <2> SUFFICES ASSUME NEW r \in Readers, view[r] # HI!Closed, view[r].of \in Streams,
                      NEW v, v = view[r],
                      NEW mine, mine = OnlyIn(log, OwnEvents(log, v.of, Main))
               PROVE  /\ Len(v.items) <= Len(mine)
                      /\ \A i \in DOMAIN v.items : v.items[i] = mine[i]
                      /\ ~v.hasMore =>
                           \A i \in DOMAIN mine : mine[i].position <= v.began => i <= Len(v.items)
    BY SameReads DEF HI!EntityWalkIsPrefix
  <2>1. v \in Views(log) /\ EntityShown(v, log)
    BY DEF HistoryInv
  <2>2. mine = Mine(log, v.of)
    BY DEF Mine
  <2>3. DOMAIN v.items = 1..Len(v.items)
    BY <2>1 DEF Views
  <2>4. DOMAIN mine = 1..Len(mine)
    BY <2>2, MineIs, LogOfEvents DEF Placed, HistoryInv
  <2> QED
    BY <2>1, <2>2, <2>3, <2>4 DEF EntityShown
<1>3. HI!GlobalWalkMissesNothing
  <2> SUFFICES ASSUME NEW r \in Readers, view[r] # HI!Closed, view[r].of = Everything,
                      NEW v, v = view[r], ~v.hasMore,
                      NEW i \in 1..v.began, log[i].stream # Import
               PROVE  \E j \in DOMAIN v.items : v.items[j] = log[i]
    BY DEF HI!GlobalWalkMissesNothing
  <2>1. v \in Views(log) /\ GlobalShown(v)
    BY DEF HistoryInv
  <2>2. DOMAIN v.items = 1..Len(v.items)
    BY <2>1 DEF Views
  <2>3. log[i] \in EventsOf(v.items)
    BY <2>1 DEF GlobalShown
  <2> QED
    BY <2>2, <2>3 DEF EventsOf
<1> QED
  BY <1>1, <1>2, <1>3

(***************************************************************************)
(* Where nothing is written, an event keeps its place.                     *)
(***************************************************************************)
LEMMA SpotStays ==
  ASSUME log' = log, order' = order
  PROVE  \A e : Spot(e)' = Spot(e)
<1>1. \A d, e : HI!Earlier(d, e)' <=> HI!Earlier(d, e)
  BY DEF HI!Earlier, HI!SortKey
<1>2. \A e : HI!Place(e)' = HI!Place(e)
  BY <1>1 DEF HI!Place
<1> QED
  BY <1>2 DEF Spot

(***************************************************************************)
(* A write leaves what pagers show: it is at the end of an entity's        *)
(* history, and moves what is to come in a global one only further back.   *)
(***************************************************************************)
LEMMA WriteKeeps ==
  ASSUME HistoryConstants, HistoryInv, NEW s, NEW b, HI!Write(s, b)
  PROVE  HistoryInv'
<1>1. UNCHANGED <<order, mark, view>>
  BY DEF HI!Write
<1>2. PICK m : m = log'
  OBVIOUS
<1>3. PICK e : e = m[Len(log) + 1]
  OBVIOUS
<1>4. /\ Dated(log) /\ Dated(m) /\ Len(m) = Len(log) + 1
      /\ \A i \in 1..Len(log) : m[i] = log[i]
      /\ EventsOf(m) = EventsOf(log) \union {e}
      /\ Len(log) \in Nat
  <2>1. Dated(log)
    BY DEF HistoryInv
  <2> QED
    BY <1>2, <1>3, <2>1, WriteGrows DEF Dated
<1>5. Views(log) \subseteq Views(m)
  <2>1. Seq(EventsOf(log)) \subseteq Seq(EventsOf(m))
    BY <1>4
  <2>2. 0..Len(log) \subseteq 0..Len(m)
    BY <1>4
  <2> QED
    BY <2>1, <2>2 DEF Views
<1>6. ASSUME NEW r \in Readers, view[r] # HI!Closed
      PROVE  EntityShown(view[r], m)
  <2> SUFFICES ASSUME view[r].of \in Streams,
                      NEW v, v = view[r], NEW x, x = Mine(log, v.of), NEW y, y = Mine(m, v.of)
               PROVE  /\ Len(v.items) <= Len(y)
                      /\ \A i \in 1..Len(v.items) : v.items[i] = y[i]
                      /\ v.hasMore => Len(v.items) = v.offset + v.limit
                      /\ ~v.hasMore =>
                           \A i \in 1..Len(y) : y[i].position <= v.began => i <= Len(v.items)
    BY DEF EntityShown
  <2>1. v \in Views(log)
    BY <1>6 DEF HistoryInv
  <2>2. /\ Len(v.items) <= Len(x)
        /\ \A i \in 1..Len(v.items) : v.items[i] = x[i]
        /\ v.hasMore => Len(v.items) = v.offset + v.limit
        /\ ~v.hasMore => \A i \in 1..Len(x) : x[i].position <= v.began => i <= Len(v.items)
    BY <1>6 DEF HistoryInv, EntityShown
  <2>3. /\ Len(x) \in Nat /\ Len(y) \in Nat /\ Len(x) <= Len(y)
        /\ \A i \in 1..Len(x) : y[i] = x[i]
        /\ \A i \in 1..Len(y) : i \in 1..Len(x) \/ y[i].position > Len(log)
    BY <1>3, <1>4, MineGrows
  <2>4. v.began \in 0..Len(log) /\ Len(v.items) \in Nat
    BY <2>1 DEF Views
  <2>5. /\ Len(v.items) <= Len(y)
        /\ \A i \in 1..Len(v.items) : v.items[i] = y[i]
    BY <2>2, <2>3, <2>4
  <2>6. ASSUME ~v.hasMore, NEW i \in 1..Len(y), y[i].position <= v.began
        PROVE  i <= Len(v.items)
    <3>1. y[i].position \in Nat
      <4>1. Placed(y) /\ y[i] \in EventsOf(y)
        BY <1>4, MineIs DEF EventsOf
      <4> QED
        BY <4>1 DEF Placed
    <3>2. i \in 1..Len(x)
      BY <1>4, <2>3, <2>4, <2>6, <3>1
    <3> QED
      BY <2>2, <2>3, <2>6, <3>2
  <2> QED
    BY <2>2, <2>5, <2>6
<1>7. ASSUME NEW r \in Readers, view[r] # HI!Closed
      PROVE  GlobalShown(view[r])'
  <2> SUFFICES ASSUME NEW v, v = view[r], v.of = Everything,
                      NEW i \in 1..v.began, m[i].stream # Import
               PROVE  m[i] \in EventsOf(v.items)
                        \/ (v.hasMore /\ Spot(m[i])' > v.offset + v.limit)
    BY <1>1, <1>2 DEF GlobalShown
  <2>1. v \in Views(log) /\ GlobalShown(v)
    BY <1>7 DEF HistoryInv
  <2>2. i \in 1..Len(log) /\ v.offset \in Nat /\ v.limit \in Nat
    BY <1>4, <2>1 DEF Views
  <2>3. PICK d \in EventsOf(log) : d = log[i] /\ d = m[i]
    BY <1>4, <2>2 DEF EventsOf
  <2>4. d \in EventsOf(v.items) \/ (v.hasMore /\ Spot(d) > v.offset + v.limit)
    BY <2>1, <2>3 DEF GlobalShown
  <2>5. Spot(d) \in Nat /\ Spot(d)' \in Nat /\ Spot(d) <= Spot(d)'
    BY <1>1, <1>2, <1>4, SpotGrows DEF HistoryConstants
  <2>6. Spot(m[i])' = Spot(d)'
    BY <1>2, <2>3
  <2> QED
    BY <2>2, <2>3, <2>4, <2>5, <2>6
<1>8. MarksStand'
  BY <1>1 DEF HistoryInv, MarksStand
<1>9. view' \in [Readers -> {HI!Closed} \union Views(m)]
  BY <1>1, <1>5 DEF HistoryInv
<1> QED
  BY <1>1, <1>2, <1>4, <1>6, <1>7, <1>8, <1>9 DEF HistoryInv

(***************************************************************************)
(* A page size is a number.                                                *)
(***************************************************************************)
LEMMA LimitIsNumber ==
  ASSUME HI!NumbersAsSizes, NEW size \in Sizes
  PROVE  HI!Limit(size) \in Nat
BY DEF HI!NumbersAsSizes, HI!Limit

(***************************************************************************)
(* A page is of events of the log.                                         *)
(***************************************************************************)
LEMMA PageTypes ==
  ASSUME HistoryConstants, Dated(log), NEW of, NEW limit \in Nat, NEW offset \in Nat,
         NEW p, p = HI!HistoryPage(of, limit, offset)
  PROVE  p.events \in Seq(EventsOf(log)) /\ p.hasMore \in BOOLEAN
<1>1. CASE of = Everything
  <2>1. p = HI!GlobalPage(limit, offset)
    BY <1>1 DEF HI!HistoryPage
  <2>2. PICK all \in Seq(EventsOf(log)) : p = Page(all, limit, offset)
    BY <2>1, GlobalPageIs DEF HistoryConstants
  <2> QED
    BY <2>2, PageIs
<1>2. CASE of # Everything
  <2>1. PICK mine : mine = Mine(log, of)
    OBVIOUS
  <2>2. p = Page(mine, limit, offset)
    BY <1>2, <2>1, SameReads DEF HI!HistoryPage, HI!EntityPage, HI!ReadByStream, Mine
  <2>3. Placed(mine) /\ EventsOf(mine) = OwnEvents(log, of, Main)
    BY <2>1, MineIs
  <2>4. mine \in Seq(EventsOf(mine)) /\ EventsOf(mine) \subseteq EventsOf(log)
    BY <2>3, LogOfEvents DEF Placed, OwnEvents
  <2>5. mine \in Seq(EventsOf(log))
    BY <2>4
  <2> QED
    BY <2>2, <2>5, PageIs
<1> QED
  BY <1>1, <1>2

\* Before a page is added, a pager shows the pages up to its offset.
ShownSoFar(of, offset, began, items) ==
  /\ of \in Streams => Len(items) = offset /\ StartOf(items, Mine(log, of))
  /\ of = Everything =>
       \A i \in 1..began : log[i].stream # Import =>
         log[i] \in EventsOf(items) \/ Spot(log[i]) > offset

\* A pager that has added a page.
Viewing(of, limit, offset, began, items) ==
  [of |-> of, limit |-> limit, offset |-> offset, began |-> began,
   items |-> items \o HI!Entries(HI!HistoryPage(of, limit, offset).events),
   hasMore |-> HI!HistoryPage(of, limit, offset).hasMore]

(***************************************************************************)
(* A page adds to what a pager shows what the pager may show.              *)
(***************************************************************************)
LEMMA PageShows ==
  ASSUME HistoryConstants, Dated(log),
         NEW of \in Histories, NEW limit \in Nat, NEW offset \in Nat, NEW began \in 0..Len(log),
         NEW items, items \in Seq(EventsOf(log)), ShownSoFar(of, offset, began, items),
         NEW w, w = Viewing(of, limit, offset, began, items)
  PROVE  w \in Views(log) /\ EntityShown(w, log) /\ GlobalShown(w)
<1>20. PICK p : p = HI!HistoryPage(of, limit, offset)
  OBVIOUS
<1>21. PICK more : more = items \o HI!Entries(p.events)
  OBVIOUS
<1>22. w = [of |-> of, limit |-> limit, offset |-> offset, began |-> began,
            items |-> more, hasMore |-> p.hasMore]
  BY <1>20, <1>21 DEF Viewing
<1>1. more = Showing(items, p.events)
  BY <1>21, SameReads DEF HI!Entries, Shown, Showing
<1>2. PICK mine : mine = Mine(log, of)
  OBVIOUS
<1>3. /\ Placed(mine) /\ EventsOf(mine) \subseteq EventsOf(log)
      /\ mine \in Seq(EventsOf(mine)) /\ Len(mine) \in Nat
  <2>1. Placed(mine) /\ EventsOf(mine) = OwnEvents(log, of, Main)
    BY <1>2, MineIs
  <2>2. OwnEvents(log, of, Main) \subseteq EventsOf(log)
    BY DEF OwnEvents
  <2> QED
    BY <2>1, <2>2, LogOfEvents DEF Placed
<1>4. of # Everything => p = Page(mine, limit, offset)
  BY <1>2, <1>20, SameReads DEF HI!HistoryPage, HI!EntityPage, HI!ReadByStream, Mine
<1>5. of = Everything => p = HI!GlobalPage(limit, offset)
  BY <1>20 DEF HI!HistoryPage
<1>6. p.events \in Seq(EventsOf(log)) /\ p.hasMore \in BOOLEAN
  BY <1>20, PageTypes
<1>7. more \in Seq(EventsOf(log))
  <2>1. PICK shown : shown = Shown(p.events)
    OBVIOUS
  <2>2. PICK events \in Seq(EventsOf(log)) : events = p.events
    BY <1>6
  <2>3. shown \in Seq(EventsOf(log))
    BY <2>1, <2>2, ShownTypes
  <2> QED
    BY <1>1, <2>1, <2>3 DEF Showing
<1>8. w \in Views(log)
  BY <1>6, <1>7, <1>22 DEF Views
<1>9. /\ w.of = of /\ w.limit = limit /\ w.offset = offset /\ w.began = began
      /\ w.items = more /\ w.hasMore = p.hasMore
  BY <1>22
<1>10. EntityShown(w, log)
  <2> SUFFICES ASSUME of \in Streams
               PROVE  /\ Len(more) <= Len(mine)
                      /\ \A i \in 1..Len(more) : more[i] = mine[i]
                      /\ p.hasMore => Len(more) = offset + limit
                      /\ ~p.hasMore =>
                           \A i \in 1..Len(mine) : mine[i].position <= began => i <= Len(more)
    BY <1>2, <1>9 DEF EntityShown
  <2>1. of # Everything
    BY DEF HistoryConstants, HI!EverythingApart
  <2>2. p = Page(mine, limit, offset)
    BY <1>4, <2>1
  <2>3. Len(items) = offset /\ StartOf(items, mine)
    BY <1>2 DEF ShownSoFar
  <2>4. /\ StartOf(more, mine)
        /\ p.hasMore => Len(more) = offset + limit
        /\ ~p.hasMore => Len(more) = Len(mine)
    <3>1. PICK s \in Streams : s = of
      OBVIOUS
    <3>2. HI!ImportApart /\ mine = Mine(log, s)
      BY <1>2, <3>1 DEF HistoryConstants
    <3> QED
      BY ONLY Dated(log), items \in Seq(EventsOf(log)), limit \in Nat, offset \in Nat, s \in Streams,
              <1>1, <2>2, <2>3, <3>2, EntityAdds
  <2>5. ~p.hasMore => \A i \in 1..Len(mine) : i <= Len(more)
    BY <1>3, <2>4
  <2> QED
    BY <2>4, <2>5 DEF StartOf
<1>11. GlobalShown(w)
  <2> SUFFICES ASSUME of = Everything, NEW i \in 1..began, log[i].stream # Import
               PROVE  log[i] \in EventsOf(more) \/ (p.hasMore /\ Spot(log[i]) > offset + limit)
    BY <1>9 DEF GlobalShown
  <2>1. p = HI!GlobalPage(limit, offset)
    BY <1>5
  <2>2. PICK e \in EventsOf(log) : e = log[i]
    BY DEF EventsOf, Dated
  <2>3. e \in EventsOf(items) \/ Spot(e) > offset
    BY <2>2 DEF ShownSoFar
  <2>4. /\ EventsOf(items) \subseteq EventsOf(more)
        /\ e.stream # Import /\ Spot(e) > offset =>
             e \in EventsOf(more) \/ (p.hasMore /\ Spot(e) > offset + limit)
    <3>1. HI!NumbersAsTimes
      BY DEF HistoryConstants
    <3>2. /\ EventsOf(items) \subseteq EventsOf(more)
          /\ \A d \in EventsOf(log) :
               d.stream # Import /\ Spot(d) > offset =>
                 d \in EventsOf(more) \/ (p.hasMore /\ Spot(d) > offset + limit)
      BY ONLY Dated(log), items \in Seq(EventsOf(log)), limit \in Nat, offset \in Nat,
              <1>1, <2>1, <3>1, GlobalAdds
    <3> QED
      BY <3>2
  <2> QED
    BY <2>2, <2>3, <2>4
<1> QED
  BY <1>8, <1>10, <1>11

(***************************************************************************)
(* So a pager's step keeps the invariant.                                  *)
(***************************************************************************)
LEMMA PagerKeeps ==
  ASSUME HistoryInv, NEW r \in Readers, UNCHANGED <<log, order, mark>>,
         NEW w \in Views(log), EntityShown(w, log), GlobalShown(w),
         view' = [view EXCEPT ![r] = w]
  PROVE  HistoryInv'
<1>1. /\ view' \in [Readers -> {HI!Closed} \union Views(log)]
      /\ view'[r] = w /\ \A q \in Readers : q # r => view'[q] = view[q]
  BY DEF HistoryInv
<1>2. \A v : GlobalShown(v)' <=> GlobalShown(v)
  BY SpotStays DEF GlobalShown
<1>3. ASSUME NEW q \in Readers, view'[q] # HI!Closed
      PROVE  EntityShown(view'[q], log) /\ GlobalShown(view'[q])
  BY <1>1, <1>3 DEF HistoryInv
<1>4. ASSUME NEW q \in Readers, view'[q] # HI!Closed
      PROVE  EntityShown(view'[q], log') /\ GlobalShown(view[q])'
  <2>1. PICK v : v = view'[q]
    OBVIOUS
  <2>2. GlobalShown(v)'
    BY <1>2, <1>3, <1>4, <2>1
  <2> QED
    BY <1>3, <1>4, <2>1, <2>2 DEF GlobalShown
<1>5. Dated(log)' /\ MarksStand'
  BY DEF HistoryInv, MarksStand
<1>6. (view \in [Readers -> {HI!Closed} \union Views(log)])'
  BY <1>1
<1> QED
  BY <1>4, <1>5, <1>6 DEF HistoryInv

(***************************************************************************)
(* A pager's first page.                                                   *)
(***************************************************************************)
LEMMA LoadKeeps ==
  ASSUME HistoryConstants, HistoryInv, NEW r \in Readers, HI!LoadHistory(r)
  PROVE  HistoryInv'
<1>1. PICK of \in Histories, size \in Sizes :
        view' = [view EXCEPT ![r] =
                   [of |-> of, limit |-> HI!Limit(size), offset |-> 0, began |-> Len(log),
                    items |-> HI!Entries(HI!HistoryPage(of, HI!Limit(size), 0).events),
                    hasMore |-> HI!HistoryPage(of, HI!Limit(size), 0).hasMore]]
  BY DEF HI!LoadHistory
<1>2. PICK limit \in Nat : limit = HI!Limit(size)
  BY LimitIsNumber DEF HistoryConstants
<1>3. PICK none : none = <<>>
  OBVIOUS
<1>4. PICK offset \in Nat : offset = 0
  OBVIOUS
<1>5. Dated(log) /\ Len(log) \in Nat
  BY DEF HistoryInv, Dated
<1>6. PICK began \in 0..Len(log) : began = Len(log)
  BY <1>5
<1>7. none \in Seq(EventsOf(log)) /\ Len(none) = 0
  BY <1>3
<1>8. ShownSoFar(of, offset, began, none)
  <2>1. Len(Mine(log, of)) \in Nat
    BY <1>5, MineIs DEF Placed
  <2>2. StartOf(none, Mine(log, of))
    BY <1>7, <2>1 DEF StartOf
  <2>3. \A e \in EventsOf(log) : Spot(e) \in 1..Len(log)
    BY <1>5, GlobalPageIs DEF HistoryConstants
  <2>4. \A i \in 1..began : Spot(log[i]) > 0
    BY <1>5, <1>6, <2>3 DEF EventsOf
  <2> QED
    BY <1>4, <1>7, <2>2, <2>4 DEF ShownSoFar
<1>9. PICK w : w = Viewing(of, limit, offset, began, none)
  OBVIOUS
<1>10. w \in Views(log) /\ EntityShown(w, log) /\ GlobalShown(w)
  BY <1>5, <1>7, <1>8, <1>9, PageShows
<1>11. PICK p : p = HI!HistoryPage(of, limit, 0)
  OBVIOUS
<1>12. none \o HI!Entries(p.events) = HI!Entries(p.events)
  <2>1. PICK shown : shown = HI!Entries(p.events)
    OBVIOUS
  <2>2. PICK S : shown \in Seq(S)
    <3>1. PICK events \in Seq(EventsOf(log)) : events = p.events
      BY <1>4, <1>5, <1>11, PageTypes
    <3>2. shown = Shown(events)
      BY <2>1, <3>1, SameReads DEF HI!Entries, Shown
    <3> QED
      BY <3>2, ShownTypes
  <2> QED
    BY <1>3, <2>1, <2>2
<1>13. view' = [view EXCEPT ![r] = w]
  BY <1>1, <1>2, <1>4, <1>6, <1>9, <1>11, <1>12 DEF Viewing
<1> QED
  BY <1>10, <1>13, PagerKeeps DEF HI!LoadHistory

(***************************************************************************)
(* A pager's next page.                                                    *)
(***************************************************************************)
LEMMA MoreKeeps ==
  ASSUME HistoryConstants, HistoryInv, NEW r \in Readers, HI!LoadMore(r)
  PROVE  HistoryInv'
<1>1. PICK v : v = view[r]
  OBVIOUS
<1>2. v \in Views(log) /\ EntityShown(v, log) /\ GlobalShown(v) /\ v.hasMore /\ Dated(log)
  BY <1>1 DEF HI!LoadMore, HistoryInv
<1>3. PICK offset \in Nat : offset = v.offset + v.limit
  BY <1>2 DEF Views
<1>4. HI!NextOffset(v) = offset
  BY <1>3 DEF HI!NextOffset
<1>5. PICK p : p = HI!HistoryPage(v.of, v.limit, offset)
  OBVIOUS
<1>6. PICK more : more = v.items \o HI!Entries(p.events)
  OBVIOUS
<1>7. PICK w : w = [of |-> v.of, limit |-> v.limit, offset |-> offset, began |-> v.began,
                    items |-> more, hasMore |-> p.hasMore]
  OBVIOUS
<1>8. view' = [view EXCEPT ![r] = w]
  <2>1. view' = [view EXCEPT ![r].offset = offset, ![r].hasMore = p.hasMore, ![r].items = more]
    BY <1>1, <1>4, <1>5, <1>6 DEF HI!LoadMore
  <2>2. w = [[[v EXCEPT !.offset = offset] EXCEPT !.hasMore = p.hasMore] EXCEPT !.items = more]
    <3>1. v = [of |-> v.of, limit |-> v.limit, offset |-> v.offset, began |-> v.began,
               items |-> v.items, hasMore |-> v.hasMore]
      BY <1>2 DEF Views
    <3>2. PICK of, limit, old, began, items, hasMore :
            v = [of |-> of, limit |-> limit, offset |-> old, began |-> began,
                 items |-> items, hasMore |-> hasMore]
      BY <3>1
    <3>3. w = [of |-> of, limit |-> limit, offset |-> offset, began |-> began,
               items |-> more, hasMore |-> p.hasMore]
      BY <1>7, <3>2
    <3>4. PICK flag : flag = p.hasMore
      OBVIOUS
    <3>5. PICK v1 : v1 = [v EXCEPT !.offset = offset]
      OBVIOUS
    <3>6. PICK v2 : v2 = [v1 EXCEPT !.hasMore = flag]
      OBVIOUS
    <3>7. PICK v3 : v3 = [v2 EXCEPT !.items = more]
      OBVIOUS
    <3>8. v1 = [of |-> of, limit |-> limit, offset |-> offset, began |-> began,
                items |-> items, hasMore |-> hasMore]
      BY <3>2, <3>5
    <3>9. v2 = [of |-> of, limit |-> limit, offset |-> offset, began |-> began,
                items |-> items, hasMore |-> flag]
      BY <3>6, <3>8
    <3>10. v3 = [of |-> of, limit |-> limit, offset |-> offset, began |-> began,
                 items |-> more, hasMore |-> flag]
      BY <3>7, <3>9
    <3>11. v3 = w
      BY <3>3, <3>4, <3>10
    <3> QED
      BY <3>4, <3>5, <3>6, <3>7, <3>11
  <2>3. view \in [Readers -> {HI!Closed} \union Views(log)]
    BY DEF HistoryInv
  <2>4. [view EXCEPT ![r].offset = offset, ![r].hasMore = p.hasMore, ![r].items = more] =
          [view EXCEPT ![r] = [[[v EXCEPT !.offset = offset] EXCEPT !.hasMore = p.hasMore]
                                 EXCEPT !.items = more]]
    BY <1>1, <2>3
  <2> QED
    BY <2>1, <2>2, <2>4
<1>9. /\ v.of \in Histories /\ v.limit \in Nat /\ v.began \in 0..Len(log)
      /\ v.items \in Seq(EventsOf(log))
  BY <1>2 DEF Views
<1>10. ShownSoFar(v.of, offset, v.began, v.items)
  <2>1. v.of \in Streams => Len(v.items) = offset /\ StartOf(v.items, Mine(log, v.of))
    BY <1>2, <1>3 DEF EntityShown, StartOf
  <2>2. v.of = Everything =>
          \A i \in 1..v.began : log[i].stream # Import =>
            log[i] \in EventsOf(v.items) \/ Spot(log[i]) > offset
    BY <1>2, <1>3 DEF GlobalShown
  <2> QED
    BY <2>1, <2>2 DEF ShownSoFar
<1>11. w = Viewing(v.of, v.limit, offset, v.began, v.items)
  BY <1>5, <1>6, <1>7 DEF Viewing
<1>12. w \in Views(log) /\ EntityShown(w, log) /\ GlobalShown(w)
  BY <1>2, <1>9, <1>10, <1>11, PageShows
<1> QED
  BY <1>8, <1>12, PagerKeeps DEF HI!LoadMore

(***************************************************************************)
(* Pagers show what they should, and comparisons are what they claim to    *)
(* be, whatever is written meanwhile.                                      *)
(***************************************************************************)
THEOREM HistoryInvariant ==
  ASSUME HistoryConstants
  PROVE  HI!Spec => []HistoryInv
<1>1. ASSUME HI!Init PROVE HistoryInv
  <2>1. /\ log = <<>> /\ mark = [s \in Snapshots |-> NoMark]
        /\ view = [r \in Readers |-> HI!Closed]
    BY <1>1 DEF HI!Init
  <2>2. Dated(log)
    <3>1. log \in Seq({}) /\ Len(log) = 0
      BY <2>1
    <3> QED
      BY <3>1 DEF Dated, IsLog
  <2> QED
    BY <2>1, <2>2 DEF HistoryInv, MarksStand
<1>2. ASSUME HistoryInv, [HI!Next]_(HI!vars) PROVE HistoryInv'
  <2>1. CASE HI!Writing
    <3>1. \E s, b : HI!Write(s, b)
      BY <2>1 DEF HI!Writing, HI!ImportMarker
    <3> QED
      BY <1>2, <3>1, WriteKeeps
  <2>2. CASE HI!Paging
    BY <1>2, <2>2, LoadKeeps, MoreKeeps DEF HI!Paging
  <2>3. CASE HI!Marking
    <3>1. /\ UNCHANGED <<log, order, view>>
          /\ \E s \in Snapshots : mark' = [mark EXCEPT ![s] = Len(log)] \/ mark' = [mark EXCEPT ![s] = NoMark]
      BY <2>3 DEF HI!Marking, HI!CreateSnapshot, HI!DeleteSnapshot
    <3>2. Len(log) \in Nat
      BY <1>2 DEF HistoryInv, Dated
    <3>3. MarksStand'
      BY <1>2, <3>1, <3>2 DEF HistoryInv, MarksStand
    <3>4. \A v : GlobalShown(v)' <=> GlobalShown(v)
      BY <3>1, SpotStays DEF GlobalShown
    <3> QED
      BY <1>2, <3>1, <3>3, <3>4 DEF HistoryInv
  <2>4. CASE UNCHANGED HI!vars
    <3>1. UNCHANGED <<log, order, mark, view>>
      BY <2>4 DEF HI!vars
    <3>2. \A v : GlobalShown(v)' <=> GlobalShown(v)
      BY <3>1, SpotStays DEF GlobalShown
    <3> QED
      BY <1>2, <3>1, <3>2 DEF HistoryInv, MarksStand
  <2> QED
    BY <1>2, <2>1, <2>2, <2>3, <2>4 DEF HI!Next
<1> QED
  BY <1>1, <1>2, PTL DEF HI!Spec

-----------------------------------------------------------------------------
(* Names of persons: the inductive invariant.                              *)

NameEvents ==
  [type : {"NameAdded", "NameUpdated", "NameRemoved"}, name : Names, owner : Persons, primary : BOOLEAN]

Deciding ==
  [pc : {"names"}, do : {"add", "update", "remove"}, person : Persons, name : Names,
   primary : BOOLEAN, expected : Nat]

Naming ==
  [pc : {"append", "name", "readVersion", "saveVersion"}, do : {"add", "update", "remove"},
   person : Persons, name : Names, expected : Nat, events : Seq(NameEvents)]

Merging ==
  [pc : {"append", "survivor"}, do : {"merge"}, person : Persons, merged : Persons,
   expected : Nat, events : {<<[type |-> "PersonMerged"]>>}]

RecordKinds ==
  {"citation", "name", "event", "media", "attribute", "analysis", "conflict", "log", "summary"}

Handing ==
  [pc : {"handOver"}, person : Persons, merged : Persons, kinds : Seq(RecordKinds)]

Requests == {PR!Idle} \union Deciding \union Naming \union Merging \union Handing

NamesTypeInv ==
  /\ setting.slots \subseteq Slots
  /\ people \in [Persons -> Nat]
  /\ head \in [Persons -> Nat]
  /\ names \in [Names -> [owner : Persons \union {Nobody}, primary : BOOLEAN]]
  /\ req \in [Slots -> Requests]

\* A request that has read its person's row and not appended yet.
Waiting(q) == q.pc \in {"names", "append"}

\* A request of which an event is on the person's stream and not yet in its row.
Holding(q) == q.pc \in {"name", "readVersion", "saveVersion", "survivor"}

RowsBehind == \A p \in Persons : people[p] <= head[p]

ExpectPast == \A r \in Slots : Waiting(req[r]) => req[r].expected <= head[req[r].person]

(***************************************************************************)
(* Whoever holds a person holds it alone, and nobody has read a version of *)
(* its row from which an append would still be accepted.                   *)
(***************************************************************************)
OneHolds ==
  \A r \in Slots : Holding(req[r]) =>
    /\ head[req[r].person] = req[r].expected + Len(req[r].events)
    /\ people[req[r].person] <= req[r].expected
    /\ \A q \in Slots \ {r} :
         /\ Waiting(req[q]) /\ req[q].person = req[r].person => req[q].expected <= req[r].expected
         /\ Holding(req[q]) => req[q].person # req[r].person

\* One or two events on one person, and only the last makes a name primary.
BatchesFormed ==
  \A r \in Slots : req[r] \in Naming =>
    /\ Len(req[r].events) \in {1, 2}
    /\ \A i \in 1..Len(req[r].events) : req[r].events[i].owner = req[r].person
    /\ Len(req[r].events) = 2 => ~req[r].events[1].primary

\* The primary names of p, by the name rows.
PrimariesIn(table, p) == {n \in Names : table[n].owner = p /\ table[n].primary}

\* When the last event makes a name primary, the events from the i-th on set
\* all of the names that are.
CoveredFrom(primaries, events, i) ==
  events[Len(events)].primary =>
    \A n \in primaries : \E j \in i..Len(events) : events[j].name = n

(***************************************************************************)
(* A batch that may still be accepted, or is being projected, leaves no    *)
(* primary name beside the one it makes.                                   *)
(***************************************************************************)
BatchesCover ==
  \A r \in Slots : req[r] \in Naming =>
    LET q == req[r] IN
    /\ q.pc = "append" /\ q.expected = head[q.person] =>
         CoveredFrom(PrimariesIn(names, q.person), q.events, 1)
    /\ q.pc = "name" => CoveredFrom(PrimariesIn(names, q.person), q.events, 1)
    /\ q.pc \in {"readVersion", "saveVersion"} /\ Len(q.events) = 2 =>
         CoveredFrom(PrimariesIn(names, q.person), q.events, 2)

OneEach == \A p \in Persons : \A m, n \in PrimariesIn(names, p) : m = n

NamesInv ==
  NamesTypeInv /\ RowsBehind /\ ExpectPast /\ OneHolds /\ BatchesFormed /\ BatchesCover /\ OneEach

-----------------------------------------------------------------------------
(* Names of persons: the requests.                                         *)

(***************************************************************************)
(* What a request is, by the place it has come to.                         *)
(***************************************************************************)
LEMMA RequestKinds ==
  ASSUME NEW q \in Requests
  PROVE  /\ q.pc = "names" => q \in Deciding
         /\ q.pc = "append" => q \in Naming \union Merging
         /\ q.pc \in {"name", "readVersion", "saveVersion"} => q \in Naming
         /\ q.pc = "survivor" => q \in Merging
         /\ q.pc = "handOver" => q \in Handing
         /\ Waiting(q) \/ Holding(q) => q.person \in Persons /\ q.expected \in Nat
BY DEF Requests, PR!Idle, Deciding, Naming, Merging, Handing, Waiting, Holding

(***************************************************************************)
(* Whoever holds a person still has an event to project.                   *)
(***************************************************************************)
LEMMA HolderHasEvents ==
  ASSUME NamesTypeInv, BatchesFormed, NEW r \in Slots, Holding(req[r])
  PROVE  Len(req[r].events) \in {1, 2}
<1>1. req[r] \in Requests
  BY DEF NamesTypeInv
<1>2. req[r] \in Naming \/ req[r] \in Merging
  BY <1>1, RequestKinds DEF Holding
<1>3. CASE req[r] \in Naming
  BY <1>3 DEF BatchesFormed
<1>4. CASE req[r] \in Merging
  <2>1. req[r].events = <<[type |-> "PersonMerged"]>>
    BY <1>4 DEF Merging
  <2> QED
    BY <2>1
<1> QED
  BY <1>2, <1>3, <1>4

(***************************************************************************)
(* Events that cover the primary names cover fewer of them.                *)
(***************************************************************************)
LEMMA CoveredSubset ==
  ASSUME NEW fewer, NEW primaries, fewer \subseteq primaries, NEW events, NEW i,
         CoveredFrom(primaries, events, i)
  PROVE  CoveredFrom(fewer, events, i)
BY DEF CoveredFrom

(***************************************************************************)
(* A step of one request that appends nothing keeps the invariant, if it   *)
(* moves a row or adds a primary name only of a person it holds, and if    *)
(* what the request has become keeps it.                                   *)
(***************************************************************************)
LEMMA StepOf ==
  ASSUME NamesInv, NEW r \in Slots, NEW v \in Requests,
         req' = [req EXCEPT ![r] = v], setting' = setting, head' = head,
         people' \in [Persons -> Nat],
         names' \in [Names -> [owner : Persons \union {Nobody}, primary : BOOLEAN]],
         \A p \in Persons :
           \/ people'[p] <= people[p]
           \/ Holding(req[r]) /\ p = req[r].person /\ people'[p] = req[r].expected + 1,
         \A p \in Persons :
           \/ PrimariesIn(names', p) \subseteq PrimariesIn(names, p)
           \/ Holding(req[r]) /\ p = req[r].person /\ \A m, n \in PrimariesIn(names', p) : m = n,
         Waiting(v) => \/ v.expected <= people[v.person]
                       \/ Waiting(req[r]) /\ v.person = req[r].person /\ v.expected = req[r].expected,
         Holding(v) => /\ Holding(req[r]) /\ v.person = req[r].person /\ v.expected >= req[r].expected
                       /\ head[v.person] = v.expected + Len(v.events)
                       /\ people'[v.person] <= v.expected,
         v \in Naming =>
           /\ Len(v.events) \in {1, 2}
           /\ \A i \in 1..Len(v.events) : v.events[i].owner = v.person
           /\ Len(v.events) = 2 => ~v.events[1].primary
           /\ v.pc = "append" /\ v.expected = head[v.person] =>
                CoveredFrom(PrimariesIn(names', v.person), v.events, 1)
           /\ v.pc = "name" => CoveredFrom(PrimariesIn(names', v.person), v.events, 1)
           /\ v.pc \in {"readVersion", "saveVersion"} /\ Len(v.events) = 2 =>
                CoveredFrom(PrimariesIn(names', v.person), v.events, 2)
  PROVE  NamesInv'
<1> USE DEF NamesInv
<1>1. NamesTypeInv'
  BY DEF NamesTypeInv
<1>2. \A q \in Slots : req[q] \in Requests /\ req'[q] = IF q = r THEN v ELSE req[q]
  BY DEF NamesTypeInv
<1>3. people \in [Persons -> Nat] /\ head \in [Persons -> Nat]
  BY DEF NamesTypeInv
<1>4. Holding(req[r]) => /\ req[r].person \in Persons /\ req[r].expected \in Nat
                         /\ req[r].expected + 1 <= head[req[r].person]
  <2> SUFFICES ASSUME Holding(req[r])
               PROVE  /\ req[r].person \in Persons /\ req[r].expected \in Nat
                      /\ req[r].expected + 1 <= head[req[r].person]
    OBVIOUS
  <2>1. req[r] \in Requests
    BY <1>2
  <2>2. req[r].person \in Persons /\ req[r].expected \in Nat
    BY <2>1, RequestKinds
  <2>3. Len(req[r].events) \in {1, 2}
    BY HolderHasEvents
  <2>4. head[req[r].person] = req[r].expected + Len(req[r].events)
    BY DEF OneHolds
  <2>5. CASE Len(req[r].events) = 1
    BY <2>2, <2>4, <2>5
  <2>6. CASE Len(req[r].events) = 2
    BY <2>2, <2>4, <2>6
  <2> QED
    BY <2>3, <2>5, <2>6
<1>5. RowsBehind'
  BY <1>3, <1>4 DEF RowsBehind
<1>6. ExpectPast'
  <2> SUFFICES ASSUME NEW q \in Slots, Waiting(req'[q])
               PROVE  req'[q].expected <= head[req'[q].person]
    BY DEF ExpectPast
  <2>1. CASE q # r
    BY <2>1, <1>2 DEF ExpectPast
  <2>2. CASE q = r
    <3>1. req'[q] = v /\ Waiting(v) /\ req[r] \in Requests
      BY <2>2, <1>2
    <3>2. v.person \in Persons /\ v.expected \in Nat
      BY <3>1, RequestKinds
    <3>3. people[v.person] \in Nat /\ head[v.person] \in Nat /\ people[v.person] <= head[v.person]
      BY <3>2, <1>3 DEF RowsBehind
    <3>4. CASE v.expected <= people[v.person]
      BY <3>1, <3>2, <3>3, <3>4
    <3>5. CASE Waiting(req[r]) /\ v.person = req[r].person /\ v.expected = req[r].expected
      BY <3>1, <3>5 DEF ExpectPast
    <3> QED
      BY <3>1, <3>4, <3>5
  <2> QED
    BY <2>1, <2>2
<1>7. OneHolds'
  <2> SUFFICES ASSUME NEW h \in Slots, Holding(req'[h])
               PROVE  /\ head[req'[h].person] = req'[h].expected + Len(req'[h].events)
                      /\ people'[req'[h].person] <= req'[h].expected
                      /\ \A q \in Slots \ {h} :
                           /\ Waiting(req'[q]) /\ req'[q].person = req'[h].person
                                => req'[q].expected <= req'[h].expected
                           /\ Holding(req'[q]) => req'[q].person # req'[h].person
    BY DEF OneHolds
  <2>1. CASE h # r
    <3>1. req'[h] = req[h] /\ Holding(req[h]) /\ req[h].person \in Persons /\ req[h].expected \in Nat
      BY <2>1, <1>2, RequestKinds
    <3>2. people'[req[h].person] <= people[req[h].person]
      BY <2>1, <3>1, <1>3 DEF OneHolds
    <3>3. ASSUME NEW q \in Slots \ {h}, Waiting(req'[q]), req'[q].person = req[h].person
          PROVE  req'[q].expected <= req[h].expected
      <4>1. CASE q # r
        BY <4>1, <3>1, <3>3, <1>2 DEF OneHolds
      <4>2. CASE q = r
        <5>1. req'[q] = v /\ Waiting(v) /\ v.person = req[h].person /\ h # r
          BY <4>2, <3>3, <2>1, <1>2
        <5>2. v.expected \in Nat /\ people[v.person] \in Nat
          BY <5>1, <3>1, <1>3, RequestKinds
        <5>3. CASE v.expected <= people[v.person]
          <6>1. people[req[h].person] <= req[h].expected
            BY <3>1 DEF OneHolds
          <6> QED
            BY <3>1, <5>1, <5>2, <5>3, <6>1
        <5>4. CASE Waiting(req[r]) /\ v.person = req[r].person /\ v.expected = req[r].expected
          BY <5>1, <5>4, <3>1 DEF OneHolds
        <5> QED
          BY <5>1, <5>3, <5>4
      <4> QED
        BY <4>1, <4>2
    <3>4. ASSUME NEW q \in Slots \ {h}, Holding(req'[q])
          PROVE  req'[q].person # req[h].person
      BY <3>1, <3>4, <1>2 DEF OneHolds
    <3> QED
      BY <3>1, <3>2, <3>3, <3>4, <1>3 DEF OneHolds
  <2>2. CASE h = r
    <3>1. req'[h] = v /\ Holding(v) /\ Holding(req[r]) /\ v.person = req[r].person
      BY <2>2, <1>2
    <3>2. v.expected \in Nat /\ req[r].expected \in Nat
      BY <3>1, <1>2, RequestKinds
    <3>3. ASSUME NEW q \in Slots \ {h}
          PROVE  /\ Waiting(req'[q]) /\ req'[q].person = v.person => req'[q].expected <= v.expected
                 /\ Holding(req'[q]) => req'[q].person # v.person
      <4>1. req'[q] = req[q] /\ (Waiting(req[q]) => req[q].expected \in Nat)
        BY <2>2, <1>2, RequestKinds
      <4> QED
        BY <2>2, <3>1, <3>2, <4>1 DEF OneHolds
    <3> QED
      BY <3>1, <3>3
  <2> QED
    BY <2>1, <2>2
<1>8. BatchesFormed'
  BY <1>2 DEF BatchesFormed
<1>9. BatchesCover'
  <2> SUFFICES ASSUME NEW q \in Slots, req'[q] \in Naming
               PROVE  LET w == req'[q] IN
                      /\ w.pc = "append" /\ w.expected = head[w.person]
                            => CoveredFrom(PrimariesIn(names', w.person), w.events, 1)
                      /\ w.pc = "name" => CoveredFrom(PrimariesIn(names', w.person), w.events, 1)
                      /\ w.pc \in {"readVersion", "saveVersion"} /\ Len(w.events) = 2
                            => CoveredFrom(PrimariesIn(names', w.person), w.events, 2)
    BY DEF BatchesCover
  <2>1. CASE q = r
    <3>1. req'[q] = v /\ v \in Naming
      BY <2>1, <1>2
    <3> QED
      BY <3>1
  <2>2. CASE q # r
    <3>1. req'[q] = req[q] /\ req[q] \in Naming /\ req[q].person \in Persons
      BY <2>2, <1>2 DEF Naming
    <3>2. \/ PrimariesIn(names', req[q].person) \subseteq PrimariesIn(names, req[q].person)
          \/ Holding(req[r]) /\ req[q].person = req[r].person
      BY <3>1
    <3>3. CASE PrimariesIn(names', req[q].person) \subseteq PrimariesIn(names, req[q].person)
      <4>1. /\ req[q].pc = "append" /\ req[q].expected = head[req[q].person]
                 => CoveredFrom(PrimariesIn(names, req[q].person), req[q].events, 1)
            /\ req[q].pc = "name" => CoveredFrom(PrimariesIn(names, req[q].person), req[q].events, 1)
            /\ req[q].pc \in {"readVersion", "saveVersion"} /\ Len(req[q].events) = 2
                 => CoveredFrom(PrimariesIn(names, req[q].person), req[q].events, 2)
        BY <3>1 DEF BatchesCover
      <4> QED
        BY <3>1, <3>3, <4>1, CoveredSubset
    <3>4. CASE Holding(req[r]) /\ req[q].person = req[r].person
      <4>1. ~Holding(req[q])
        BY <2>2, <3>4 DEF OneHolds
      <4>2. Waiting(req[q]) => req[q].expected <= req[r].expected
        BY <2>2, <3>4 DEF OneHolds
      <4>3. req[q].pc # "name" /\ req[q].pc \notin {"readVersion", "saveVersion"}
        BY <4>1 DEF Holding
      <4>4. req[q].expected \in Nat /\ head[req[q].person] \in Nat
        BY <3>1, <1>3 DEF Naming
      <4>5. req[q].pc = "append" => req[q].expected # head[req[q].person]
        BY <4>2, <4>4, <3>4, <1>4 DEF Waiting
      <4> QED
        BY <3>1, <4>3, <4>5
    <3> QED
      BY <3>2, <3>3, <3>4
  <2> QED
    BY <2>1, <2>2
<1>10. OneEach'
  BY DEF OneEach
<1> QED
  BY <1>1, <1>5, <1>6, <1>7, <1>8, <1>9, <1>10

(***************************************************************************)
(* A request that ends keeps the invariant, whatever rows go with it.      *)
(***************************************************************************)
LEMMA EndOf ==
  ASSUME NamesInv, NEW r \in Slots, req' = [req EXCEPT ![r] = PR!Idle],
         setting' = setting, head' = head,
         people' \in [Persons -> Nat],
         names' \in [Names -> [owner : Persons \union {Nobody}, primary : BOOLEAN]],
         \A p \in Persons :
           \/ people'[p] <= people[p]
           \/ Holding(req[r]) /\ p = req[r].person /\ people'[p] = req[r].expected + 1,
         \A p \in Persons : PrimariesIn(names', p) \subseteq PrimariesIn(names, p)
  PROVE  NamesInv'
<1>1. PR!Idle \in Requests /\ PR!Idle \notin Naming /\ ~Waiting(PR!Idle) /\ ~Holding(PR!Idle)
  BY DEF Requests, PR!Idle, Naming, Waiting, Holding
<1> QED
  BY <1>1, StepOf

(***************************************************************************)
(* A command that has read the person's row keeps the invariant.           *)
(***************************************************************************)
LEMMA ReadPersonKeeps ==
  ASSUME NamesInv, NEW r \in Slots, NEW do \in {"add", "update", "remove"}, NEW p \in Persons,
         NEW n \in Names, NEW primary \in BOOLEAN, PR!ReadPerson(r, do, p, n, primary),
         setting' = setting
  PROVE  NamesInv'
<1> DEFINE v == [pc |-> "names", do |-> do, person |-> p, name |-> n,
                 primary |-> primary, expected |-> people[p]]
<1>1. NamesTypeInv
  BY DEF NamesInv
<1>2. v \in Requests /\ v \notin Naming /\ ~Holding(v) /\ v.person = p /\ v.expected = people[p]
  BY <1>1 DEF Requests, Deciding, Naming, Holding, NamesTypeInv
<1>3. req' = [req EXCEPT ![r] = v] /\ head' = head /\ people' = people /\ names' = names
  BY DEF PR!ReadPerson, PR!log
<1>4. people[v.person] \in Nat
  BY <1>1, <1>2 DEF NamesTypeInv
<1> HIDE DEF v
<1>5. \A x \in Persons : people'[x] <= people[x]
  BY <1>1, <1>3 DEF NamesTypeInv
<1>6. v.expected <= people[v.person]
  BY <1>2, <1>4
<1> QED
  BY <1>1, <1>2, <1>3, <1>5, <1>6, StepOf DEF NamesTypeInv

(***************************************************************************)
(* The events that make a name primary cover the names that are.           *)
(***************************************************************************)
LEMMA DemoteFirstCovers ==
  ASSUME NamesInv, NEW r \in Slots, req[r].person \in Persons, NEW event \in NameEvents,
         event.name = req[r].name, event.owner = req[r].person
  PROVE  LET batch == PR!DemoteFirst(r, event) IN
         /\ batch \in Seq(NameEvents) /\ Len(batch) \in {1, 2}
         /\ \A i \in 1..Len(batch) : batch[i].owner = req[r].person
         /\ Len(batch) = 2 => ~batch[1].primary
         /\ CoveredFrom(PrimariesIn(names, req[r].person), batch, 1)
<1> DEFINE others == PR!Primaries(req[r].person) \ {req[r].name}
           old == CHOOSE n \in others : TRUE
           down == PR!Named("NameUpdated", old, req[r].person, FALSE)
<1>1. PR!Primaries(req[r].person) = PrimariesIn(names, req[r].person)
  BY DEF PR!Primaries, PR!NamesOf, PrimariesIn
<1>2. CASE others = {}
  <2>1. PR!DemoteFirst(r, event) = <<event>>
    BY <1>2 DEF PR!DemoteFirst
  <2>2. \A n \in PrimariesIn(names, req[r].person) : n = event.name
    BY <1>1, <1>2
  <2> QED
    BY <2>1, <2>2 DEF CoveredFrom
<1>3. CASE others # {}
  <2>1. PR!DemoteFirst(r, event) = <<down, event>>
    BY <1>3 DEF PR!DemoteFirst
  <2>2. old \in others
    BY <1>3
  <2>3. old \in Names /\ \A n \in PrimariesIn(names, req[r].person) : n = old
    BY <1>1, <2>2 DEF NamesInv, OneEach, PrimariesIn
  <2>4. down \in NameEvents /\ down.name = old /\ down.owner = req[r].person /\ ~down.primary
    BY <2>3 DEF PR!Named, NameEvents
  <2> HIDE DEF down
  <2>5. \A n \in PrimariesIn(names, req[r].person) : <<down, event>>[1].name = n
    BY <2>3, <2>4
  <2>6. <<down, event>> \in Seq(NameEvents) /\ Len(<<down, event>>) = 2
    BY <2>4
  <2>7. \A i \in 1..2 : <<down, event>>[i].owner = req[r].person
    BY <2>4
  <2>8. CoveredFrom(PrimariesIn(names, req[r].person), <<down, event>>, 1)
    BY <2>5, <2>6 DEF CoveredFrom
  <2> QED
    BY <2>1, <2>4, <2>6, <2>7, <2>8
<1> QED
  BY <1>2, <1>3

(***************************************************************************)
(* A command that has decided on its events keeps the invariant.           *)
(***************************************************************************)
LEMMA ToAppendKeeps ==
  ASSUME NamesInv, NEW r \in Slots, req[r] \in Deciding, NEW events \in Seq(NameEvents),
         Len(events) \in {1, 2}, \A i \in 1..Len(events) : events[i].owner = req[r].person,
         Len(events) = 2 => ~events[1].primary,
         CoveredFrom(PrimariesIn(names, req[r].person), events, 1),
         PR!ToAppend(r, events), setting' = setting, UNCHANGED <<people, PR!log, names, things>>
  PROVE  NamesInv'
<1> DEFINE v == [pc |-> "append", do |-> req[r].do, person |-> req[r].person,
                 name |-> req[r].name, expected |-> req[r].expected, events |-> events]
<1>1. NamesTypeInv
  BY DEF NamesInv
<1>2. v \in Naming /\ ~Holding(v) /\ v.pc = "append" /\ v.person = req[r].person
      /\ v.expected = req[r].expected /\ v.events = events /\ v \in Requests
  BY DEF Deciding, Naming, Holding, Requests
<1>3. req' = [req EXCEPT ![r] = v] /\ head' = head /\ people' = people /\ names' = names
  BY DEF PR!ToAppend, PR!ExpectsPerson, PR!log
<1>4. Waiting(req[r])
  BY DEF Deciding, Waiting
<1> HIDE DEF v
<1>5. \A x \in Persons : people'[x] <= people[x]
  BY <1>1, <1>3 DEF NamesTypeInv
<1> QED
  BY <1>1, <1>2, <1>3, <1>4, <1>5, StepOf DEF NamesTypeInv

(***************************************************************************)
(* An accepted append makes the request the holder of its person: nobody   *)
(* held it, for whoever holds it is behind the stream's version.           *)
(***************************************************************************)
LEMMA AppendEventsKeeps ==
  ASSUME NamesInv, NEW r \in Slots, PR!AppendEvents(r), setting' = setting
  PROVE  NamesInv'
<1> DEFINE q == req[r]
           pc == IF q.do = "merge" THEN "survivor" ELSE "name"
           v == [q EXCEPT !.pc = pc]
<1>1. NamesTypeInv /\ q \in Requests /\ q.pc = "append"
  BY DEF NamesInv, NamesTypeInv, PR!AppendEvents
<1>2. q.person \in Persons /\ q.expected \in Nat /\ q \in Naming \union Merging
  BY <1>1, RequestKinds DEF Waiting
<1>3. people \in [Persons -> Nat] /\ head \in [Persons -> Nat]
  BY <1>1 DEF NamesTypeInv
<1>4. people' = people /\ names' = names
  BY DEF PR!AppendEvents
<1>5. CASE req' = [req EXCEPT ![r] = PR!Idle] /\ head' = head
  <2>1. \A x \in Persons : people'[x] <= people[x]
    BY <1>3, <1>4
  <2> QED
    BY <1>1, <1>3, <1>4, <1>5, <2>1, EndOf DEF NamesTypeInv
<1>6. CASE /\ q.expected = head[q.person]
           /\ head' = [head EXCEPT ![q.person] = @ + Len(q.events)]
           /\ req' = [req EXCEPT ![r] = v]
  <2>1. /\ v.person = q.person /\ v.expected = q.expected /\ v.events = q.events
        /\ v \in Requests /\ Holding(v) /\ ~Waiting(v) /\ v.pc \in {"name", "survivor"}
        /\ (v \in Naming => q \in Naming)
    BY <1>1, <1>2 DEF Naming, Merging, Requests, Holding, Waiting
  <2>2. Len(q.events) \in {1, 2}
    <3>1. CASE q \in Naming
      BY <3>1 DEF NamesInv, BatchesFormed
    <3>2. CASE q \in Merging
      <4>1. q.events = <<[type |-> "PersonMerged"]>>
        BY <3>2 DEF Merging
      <4> QED
        BY <4>1
    <3> QED
      BY <1>2, <3>1, <3>2
  <2> HIDE DEF v
  <2>3. \A t \in Slots : req'[t] = IF t = r THEN v ELSE req[t]
    BY <1>1, <1>6 DEF NamesTypeInv
  <2>4. Len(q.events) \in Nat
    BY <2>2
  <2>5. /\ head' \in [Persons -> Nat]
        /\ \A p \in Persons : head[p] <= head'[p] /\ (p # q.person => head'[p] = head[p])
        /\ head'[q.person] = q.expected + Len(q.events)
    BY <1>2, <1>3, <1>6, <2>4
  <2>6. NamesTypeInv'
    BY <1>1, <1>4, <1>6, <2>1, <2>5 DEF NamesTypeInv
  <2>7. RowsBehind'
    BY <1>3, <1>4, <2>5 DEF NamesInv, RowsBehind
  <2>8. ExpectPast'
    <3> SUFFICES ASSUME NEW t \in Slots, Waiting(req'[t])
                 PROVE  req'[t].expected <= head'[req'[t].person]
      BY DEF ExpectPast
    <3>1. t # r /\ req'[t] = req[t] /\ req[t] \in Requests
      BY <1>1, <2>1, <2>3 DEF NamesTypeInv
    <3>2. req[t].person \in Persons /\ req[t].expected \in Nat
      BY <3>1, RequestKinds
    <3>3. req[t].expected <= head[req[t].person]
      BY <3>1 DEF NamesInv, ExpectPast
    <3> QED
      BY <1>3, <2>5, <3>1, <3>2, <3>3
  <2>9. OneHolds'
    <3>1. ASSUME NEW h \in Slots \ {r}, Holding(req[h])
          PROVE  req[h].person # q.person
      <4>1. Waiting(q)
        BY <1>1 DEF Waiting
      <4>2. req[h].person = q.person => q.expected <= req[h].expected
        BY <3>1, <4>1 DEF NamesInv, OneHolds
      <4>3. head[req[h].person] = req[h].expected + Len(req[h].events)
        BY <3>1 DEF NamesInv, OneHolds
      <4>4. Len(req[h].events) \in {1, 2}
        BY <1>1, <3>1, HolderHasEvents DEF NamesInv
      <4>5. req[h].expected \in Nat
        BY <1>1, <3>1, RequestKinds DEF NamesTypeInv
      <4>6. CASE Len(req[h].events) = 1
        BY <1>2, <1>6, <4>2, <4>3, <4>5, <4>6
      <4>7. CASE Len(req[h].events) = 2
        BY <1>2, <1>6, <4>2, <4>3, <4>5, <4>7
      <4> QED
        BY <4>4, <4>6, <4>7
    <3> SUFFICES ASSUME NEW h \in Slots, Holding(req'[h])
                 PROVE  /\ head'[req'[h].person] = req'[h].expected + Len(req'[h].events)
                        /\ people[req'[h].person] <= req'[h].expected
                        /\ \A t \in Slots \ {h} :
                             /\ Waiting(req'[t]) /\ req'[t].person = req'[h].person
                                  => req'[t].expected <= req'[h].expected
                             /\ Holding(req'[t]) => req'[t].person # req'[h].person
      BY <1>4 DEF OneHolds
    <3>2. CASE h = r
      <4>1. people[q.person] <= q.expected
        BY <1>2, <1>6 DEF NamesInv, RowsBehind
      <4>2. ASSUME NEW t \in Slots \ {h}
            PROVE  /\ Waiting(req[t]) /\ req[t].person = q.person => req[t].expected <= q.expected
                   /\ Holding(req[t]) => req[t].person # q.person
        BY <1>6, <3>1, <3>2 DEF NamesInv, ExpectPast
      <4> QED
        BY <2>1, <2>3, <2>5, <3>2, <4>1, <4>2
    <3>3. CASE h # r
      <4>1. req'[h] = req[h] /\ Holding(req[h]) /\ req[h].person # q.person
        BY <2>3, <3>1, <3>3
      <4>2. req[h].person \in Persons
        BY <1>1, <4>1, RequestKinds DEF NamesTypeInv
      <4>3. head'[req[h].person] = head[req[h].person]
        BY <2>5, <4>1, <4>2
      <4>4. /\ head[req[h].person] = req[h].expected + Len(req[h].events)
            /\ people[req[h].person] <= req[h].expected
        BY <4>1 DEF NamesInv, OneHolds
      <4>5. ASSUME NEW t \in Slots \ {h}
            PROVE  /\ Waiting(req'[t]) /\ req'[t].person = req[h].person
                        => req'[t].expected <= req[h].expected
                   /\ Holding(req'[t]) => req'[t].person # req[h].person
        <5>1. CASE t = r
          BY <2>1, <2>3, <4>1, <5>1
        <5>2. CASE t # r
          BY <2>3, <4>1, <5>2 DEF NamesInv, OneHolds
        <5> QED
          BY <5>1, <5>2
      <4> QED
        BY <4>1, <4>3, <4>4, <4>5
    <3> QED
      BY <3>2, <3>3
  <2>10. BatchesFormed'
    BY <2>1, <2>3 DEF NamesInv, BatchesFormed
  <2>11. BatchesCover'
    <3> SUFFICES ASSUME NEW t \in Slots, req'[t] \in Naming
                 PROVE  LET w == req'[t]
                            primaries == PrimariesIn(names, w.person)
                        IN  /\ w.pc = "append" /\ w.expected = head'[w.person]
                                 => CoveredFrom(primaries, w.events, 1)
                            /\ w.pc = "name" => CoveredFrom(primaries, w.events, 1)
                            /\ w.pc \in {"readVersion", "saveVersion"} /\ Len(w.events) = 2
                                 => CoveredFrom(primaries, w.events, 2)
      BY <1>4 DEF BatchesCover
    <3>1. CASE t = r
      <4>1. req'[t] = v /\ q \in Naming
        BY <2>1, <2>3, <3>1
      <4>2. CoveredFrom(PrimariesIn(names, q.person), q.events, 1)
        BY <1>1, <1>6, <4>1 DEF NamesInv, BatchesCover
      <4> QED
        BY <2>1, <4>1, <4>2
    <3>2. CASE t # r
      <4>1. req'[t] = req[t] /\ req[t] \in Naming /\ req[t].person \in Persons
            /\ req[t].expected \in Nat
        BY <2>3, <3>2 DEF Naming
      <4>2. Waiting(req[t]) => req[t].expected <= head[req[t].person]
        BY DEF NamesInv, ExpectPast
      <4>3. req[t].pc = "append" /\ req[t].expected = head'[req[t].person]
              => req[t].expected = head[req[t].person]
        BY <1>3, <2>5, <4>1, <4>2 DEF Waiting
      <4>4. LET w == req[t]
                primaries == PrimariesIn(names, w.person)
            IN  /\ w.pc = "append" /\ w.expected = head[w.person]
                     => CoveredFrom(primaries, w.events, 1)
                /\ w.pc = "name" => CoveredFrom(primaries, w.events, 1)
                /\ w.pc \in {"readVersion", "saveVersion"} /\ Len(w.events) = 2
                     => CoveredFrom(primaries, w.events, 2)
        BY <4>1 DEF NamesInv, BatchesCover
      <4> QED
        BY <4>1, <4>3, <4>4
    <3> QED
      BY <3>1, <3>2
  <2>12. OneEach'
    BY <1>4 DEF NamesInv, OneEach
  <2> QED
    BY <2>6, <2>7, <2>8, <2>9, <2>10, <2>11, <2>12 DEF NamesInv
<1>7. ~(q.expected < 0)
  BY <1>2
<1>8. CASE q.expected = head[q.person]
  <2>1. req' = [req EXCEPT ![r] = [q EXCEPT !.pc = pc, !.expected = q.expected]]
    BY <1>7, <1>8 DEF PR!AppendEvents
  <2>2. [q EXCEPT !.pc = pc, !.expected = q.expected] = v
    BY <1>2 DEF Naming, Merging
  <2> QED
    BY <1>6, <1>8, <2>1, <2>2 DEF PR!AppendEvents
<1>9. CASE q.expected # head[q.person]
  BY <1>5, <1>7, <1>9 DEF PR!AppendEvents, PR!log
<1> QED
  BY <1>8, <1>9

(***************************************************************************)
(* The primary names of the event's person, once its row is saved.         *)
(***************************************************************************)
LEMMA ProjectNameKeeps ==
  ASSUME NamesInv, NEW r \in Slots, PR!ProjectName(r), setting' = setting
  PROVE  NamesInv'
<1> DEFINE q == req[r]
           e == q.events[1]
           saved == IF e.type = "NameRemoved" THEN PR!NoName
                    ELSE [owner |-> e.owner, primary |-> e.primary]
           v == [q EXCEPT !.pc = "readVersion"]
<1>1. NamesTypeInv /\ q \in Requests /\ q.pc = "name"
  BY DEF NamesInv, NamesTypeInv, PR!ProjectName
<1>2. q \in Naming
  BY <1>1, RequestKinds
<1>3. /\ Len(q.events) \in {1, 2} /\ (Len(q.events) = 2 => ~e.primary)
      /\ \A i \in 1..Len(q.events) : q.events[i].owner = q.person
      /\ CoveredFrom(PrimariesIn(names, q.person), q.events, 1)
  BY <1>1, <1>2 DEF NamesInv, BatchesFormed, BatchesCover
<1>4. q.events \in Seq(NameEvents) /\ q.person \in Persons /\ q.expected \in Nat
  BY <1>2 DEF Naming
<1>5. e \in NameEvents /\ e.owner = q.person
  BY <1>3, <1>4
<1>6. e.name \in Names /\ e.owner \in Persons /\ e.primary \in BOOLEAN
  BY <1>5 DEF NameEvents
<1>7. saved \in [owner : Persons \union {Nobody}, primary : BOOLEAN]
      /\ (saved.primary => saved.owner = q.person /\ e.primary)
  BY <1>5, <1>6 DEF PR!NoName
<1>8. req' = [req EXCEPT ![r] = v] /\ head' = head /\ people' = people
      /\ names' = [names EXCEPT ![e.name] = saved]
  BY DEF PR!ProjectName, PR!log
<1>9. /\ v \in Naming /\ v \in Requests /\ Holding(v) /\ ~Waiting(v) /\ v.pc = "readVersion"
      /\ v.person = q.person /\ v.expected = q.expected /\ v.events = q.events
  BY <1>2 DEF Naming, Requests, Holding, Waiting
<1> HIDE DEF v, saved
<1>10. names' \in [Names -> [owner : Persons \union {Nobody}, primary : BOOLEAN]]
       /\ \A n \in Names : names'[n] = IF n = e.name THEN saved ELSE names[n]
  BY <1>1, <1>6, <1>7, <1>8 DEF NamesTypeInv
<1>11. \A p \in Persons : p # q.person => PrimariesIn(names', p) \subseteq PrimariesIn(names, p)
  BY <1>7, <1>10 DEF PrimariesIn
<1>12. CASE saved.primary
  <2>1. Len(q.events) = 1
    BY <1>3, <1>7, <1>12
  <2>2. \A n \in PrimariesIn(names, q.person) : n = e.name
    BY <1>3, <1>7, <1>12, <2>1 DEF CoveredFrom
  <2>3. \A n \in PrimariesIn(names', q.person) : n = e.name
    BY <1>10, <2>2 DEF PrimariesIn
  <2>4. Holding(q)
    BY <1>1 DEF Holding
  <2>5. \A p \in Persons :
          \/ PrimariesIn(names', p) \subseteq PrimariesIn(names, p)
          \/ Holding(req[r]) /\ p = req[r].person /\ \A m, n \in PrimariesIn(names', p) : m = n
    BY <1>11, <2>3, <2>4
  <2>6. head[q.person] = q.expected + Len(q.events) /\ people[q.person] <= q.expected
    BY <2>4 DEF NamesInv, OneHolds
  <2>7. \A p \in Persons : people'[p] <= people[p]
    BY <1>1, <1>8 DEF NamesTypeInv
  <2>8. v.expected >= q.expected
    BY <1>4, <1>9
  <2>9. people' \in [Persons -> Nat]
    BY <1>1, <1>8 DEF NamesTypeInv
  <2>10. /\ Len(v.events) \in {1, 2} /\ Len(v.events) # 2
         /\ \A i \in 1..Len(v.events) : v.events[i].owner = v.person
    BY <1>3, <1>9, <2>1
  <2>11. head[v.person] = v.expected + Len(v.events) /\ people'[v.person] <= v.expected
    BY <1>8, <1>9, <2>6
  <2> QED
    BY <1>8, <1>9, <1>10, <2>4, <2>5, <2>7, <2>8, <2>9, <2>10, <2>11, StepOf
<1>13. CASE ~saved.primary
  <2>1. e.name \notin PrimariesIn(names', q.person)
        /\ PrimariesIn(names', q.person) \subseteq PrimariesIn(names, q.person)
    BY <1>6, <1>10, <1>13 DEF PrimariesIn
  <2>2. Len(q.events) = 2 => CoveredFrom(PrimariesIn(names', q.person), q.events, 2)
    BY <1>3, <2>1 DEF CoveredFrom
  <2>4. Holding(q)
    BY <1>1 DEF Holding
  <2>5. \A p \in Persons : PrimariesIn(names', p) \subseteq PrimariesIn(names, p)
    BY <1>11, <2>1
  <2>6. head[q.person] = q.expected + Len(q.events) /\ people[q.person] <= q.expected
    BY <2>4 DEF NamesInv, OneHolds
  <2>7. \A p \in Persons : people'[p] <= people[p]
    BY <1>1, <1>8 DEF NamesTypeInv
  <2>8. q.expected >= q.expected
    BY <1>4
  <2>9. people' \in [Persons -> Nat]
    BY <1>1, <1>8 DEF NamesTypeInv
  <2> QED
    BY <1>3, <1>8, <1>9, <1>10, <2>2, <2>4, <2>5, <2>6, <2>7, <2>8, <2>9, StepOf
<1> QED
  BY <1>12, <1>13

(***************************************************************************)
(* Going on to the next event, its own row saved or the person gone.       *)
(***************************************************************************)
LEMMA NextEventKeeps ==
  ASSUME NamesInv, NEW r \in Slots, req[r].pc \in {"readVersion", "saveVersion"}, PR!NextEvent(r),
         UNCHANGED <<setting, head, names>>,
         people' = people \/ people' = [people EXCEPT ![req[r].person] = req[r].expected + 1]
  PROVE  NamesInv'
<1> DEFINE q == req[r]
           rest == Tail(q.events)
           next == q.expected + 1
           named == [q EXCEPT !.pc = "name"]
           fewer == [named EXCEPT !.events = rest]
           v == [fewer EXCEPT !.expected = next]
<1>1. NamesTypeInv /\ q \in Requests /\ Holding(q)
  BY DEF NamesInv, NamesTypeInv, Holding
<1>2. q \in Naming
  BY <1>1, RequestKinds
<1>3. /\ Len(q.events) \in {1, 2}
      /\ \A i \in 1..Len(q.events) : q.events[i].owner = q.person
      /\ (Len(q.events) = 2 => CoveredFrom(PrimariesIn(names, q.person), q.events, 2))
  BY <1>2 DEF NamesInv, BatchesFormed, BatchesCover
<1>4. q.events \in Seq(NameEvents) /\ q.person \in Persons /\ q.expected \in Nat
  BY <1>2 DEF Naming
<1>5. people \in [Persons -> Nat]
  BY <1>1 DEF NamesTypeInv
<1>6. people' \in [Persons -> Nat]
      /\ \A p \in Persons :
           \/ people'[p] <= people[p]
           \/ Holding(req[r]) /\ p = req[r].person /\ people'[p] = req[r].expected + 1
  BY <1>1, <1>4, <1>5
<1>7. head[q.person] = q.expected + Len(q.events) /\ people[q.person] <= q.expected
  BY <1>1 DEF NamesInv, OneHolds
<1>8. CASE Len(q.events) = 1
  <2>1. req' = [req EXCEPT ![r] = PR!Idle]
    BY <1>8 DEF PR!NextEvent
  <2> QED
    BY <1>1, <1>6, <2>1, EndOf DEF NamesTypeInv
<1>9. CASE Len(q.events) = 2
  <2>1. req' = [req EXCEPT ![r] = v]
    BY <1>9 DEF PR!NextEvent
  <2>2. rest \in Seq(NameEvents) /\ Len(rest) = 1 /\ rest[1] = q.events[2]
    BY <1>4, <1>9
  <2>9. next \in Nat /\ next >= q.expected /\ q.expected + 2 = next + 1
    BY <1>4
  <2> HIDE DEF rest, next
  <2>3. /\ v \in Naming /\ v \in Requests /\ Holding(v) /\ ~Waiting(v) /\ v.pc = "name"
        /\ v.person = q.person /\ v.expected = next /\ v.events = rest
    <3>1. named \in Naming /\ named.pc = "name" /\ named.person = q.person
      BY <1>2 DEF Naming
    <3> HIDE DEF named
    <3>2. fewer \in Naming /\ fewer.pc = "name" /\ fewer.person = q.person /\ fewer.events = rest
      BY <2>2, <3>1 DEF Naming
    <3> HIDE DEF fewer
    <3>3. /\ v \in Naming /\ v.pc = "name" /\ v.person = q.person
          /\ v.expected = next /\ v.events = rest
      BY <2>9, <3>2 DEF Naming
    <3> HIDE DEF v
    <3> QED
      BY <3>3 DEF Requests, Holding, Waiting
  <2> HIDE DEF v
  <2>4. CoveredFrom(PrimariesIn(names, v.person), v.events, 1)
    <3>1. CoveredFrom(PrimariesIn(names, q.person), q.events, 2)
      BY <1>3, <1>9
    <3>2. rest[1].primary => \A n \in PrimariesIn(names, q.person) : rest[1].name = n
      BY <1>9, <2>2, <3>1 DEF CoveredFrom
    <3>3. CoveredFrom(PrimariesIn(names, q.person), rest, 1)
      BY <2>2, <3>2 DEF CoveredFrom
    <3> QED
      BY <2>3, <3>3
  <2>5. /\ Len(v.events) \in {1, 2} /\ Len(v.events) # 2
        /\ \A i \in 1..Len(v.events) : v.events[i].owner = v.person
    <3>1. rest[1].owner = q.person
      BY <1>3, <1>9, <2>2
    <3>2. \A i \in 1..Len(rest) : rest[i].owner = q.person
      BY <2>2, <3>1
    <3>3. v.events = rest /\ v.person = q.person /\ Len(rest) = 1
      BY <2>2, <2>3
    <3> HIDE DEF v
    <3> QED
      BY <3>2, <3>3
  <2>6. head[v.person] = v.expected + Len(v.events) /\ v.expected >= q.expected
    <3>1. head[q.person] = next + 1
      BY <1>7, <1>9, <2>9
    <3> QED
      BY <2>2, <2>3, <2>9, <3>1
  <2>7. people'[v.person] <= v.expected
    <3>1. people'[q.person] <= q.expected \/ people'[q.person] = next
      BY <1>4, <1>5, <1>7 DEF next
    <3> QED
      BY <1>4, <1>6, <2>3, <2>9, <3>1
  <2>8. names' \in [Names -> [owner : Persons \union {Nobody}, primary : BOOLEAN]]
    BY <1>1 DEF NamesTypeInv
  <2> QED
    BY <1>1, <1>6, <2>1, <2>3, <2>4, <2>5, <2>6, <2>7, <2>8, StepOf
<1> QED
  BY <1>3, <1>8, <1>9

(***************************************************************************)
(* A listing handed over, and the merged person deleted: the names that    *)
(* move stop being primary, and no row gains a version.                    *)
(***************************************************************************)
LEMMA HandOverKeeps ==
  ASSUME NamesInv, NEW r \in Slots, PR!HandOver(r), setting' = setting
  PROVE  NamesInv'
<1> DEFINE q == req[r]
           v == [q EXCEPT !.kinds = Tail(q.kinds)]
<1>1. NamesTypeInv /\ q \in Requests /\ q.pc = "handOver" /\ q.kinds # <<>>
  BY DEF NamesInv, NamesTypeInv, PR!HandOver
<1>2. q \in Handing /\ q.person \in Persons
  BY <1>1, RequestKinds DEF Handing
<1>3. head' = head /\ people' = people
  BY DEF PR!HandOver, PR!log
<1>4. \A x \in Persons : people'[x] <= people[x]
  BY <1>1, <1>3 DEF NamesTypeInv
<1>5. names' = [n \in Names |-> IF q.kinds[1] = "name" /\ n \in PR!NamesOf(q.merged)
                                THEN [owner |-> q.person, primary |-> FALSE] ELSE names[n]]
  BY DEF PR!HandOver
<1>6. names' \in [Names -> [owner : Persons \union {Nobody}, primary : BOOLEAN]]
  BY <1>1, <1>2, <1>5 DEF NamesTypeInv
<1>7. \A p \in Persons : PrimariesIn(names', p) \subseteq PrimariesIn(names, p)
  BY <1>5 DEF PrimariesIn
<1>8. people' \in [Persons -> Nat]
  BY <1>1, <1>3 DEF NamesTypeInv
<1>9. CASE req' = [req EXCEPT ![r] = PR!Idle]
  BY <1>3, <1>4, <1>6, <1>7, <1>8, <1>9, EndOf
<1>10. CASE req' = [req EXCEPT ![r] = v]
  <2>1. Tail(q.kinds) \in Seq(RecordKinds)
    <3>1. q.kinds \in Seq(RecordKinds)
      BY <1>2 DEF Handing
    <3> QED
      BY <1>1, <3>1, HeadTailProperties
  <2>2. v \in Handing
    BY <1>2, <2>1 DEF Handing
  <2> HIDE DEF v
  <2>3. v \in Requests /\ v \notin Naming /\ ~Waiting(v) /\ ~Holding(v)
    BY <2>2 DEF Handing, Requests, Naming, Waiting, Holding
  <2> QED
    BY <1>3, <1>4, <1>6, <1>7, <1>8, <1>10, <2>3, StepOf
<1> QED
  BY <1>9, <1>10 DEF PR!HandOver

LEMMA DeleteMergedKeeps ==
  ASSUME NamesInv, NEW r \in Slots, PR!DeleteMerged(r), setting' = setting
  PROVE  NamesInv'
<1>1. NamesTypeInv
  BY DEF NamesInv
<1>2. head' = head /\ req' = [req EXCEPT ![r] = PR!Idle]
      /\ people' = [people EXCEPT ![req[r].merged] = 0]
      /\ names' = [n \in Names |-> IF n \in PR!NamesOf(req[r].merged) THEN PR!NoName ELSE names[n]]
  BY DEF PR!DeleteMerged, PR!log
<1>3. people' \in [Persons -> Nat] /\ \A x \in Persons : people'[x] <= people[x]
  <2>1. people \in [Persons -> Nat]
    BY <1>1 DEF NamesTypeInv
  <2>2. people' \in [Persons -> Nat]
    BY <1>2, <2>1
  <2>3. \A x \in Persons : people'[x] = 0 \/ people'[x] = people[x]
    BY <1>2, <2>1
  <2> QED
    BY <2>1, <2>2, <2>3
<1>4. PR!NoName \in [owner : Persons \union {Nobody}, primary : BOOLEAN] /\ ~PR!NoName.primary
  BY DEF PR!NoName
<1>5. names' \in [Names -> [owner : Persons \union {Nobody}, primary : BOOLEAN]]
  BY <1>1, <1>2, <1>4 DEF NamesTypeInv
<1>6. \A p \in Persons : PrimariesIn(names', p) \subseteq PrimariesIn(names, p)
  BY <1>2, <1>4 DEF PrimariesIn
<1> QED
  BY <1>2, <1>3, <1>5, <1>6, EndOf

(***************************************************************************)
(* The survivor's row takes the version of the merge's event.              *)
(***************************************************************************)
LEMMA SaveSurvivorKeeps ==
  ASSUME NamesInv, NEW r \in Slots, PR!SaveSurvivor(r), setting' = setting
  PROVE  NamesInv'
<1> DEFINE q == req[r]
           v == [pc |-> "handOver", person |-> q.person, merged |-> q.merged, kinds |-> PR!HandedOver]
<1>1. NamesTypeInv /\ q \in Requests /\ q.pc = "survivor" /\ Holding(q)
  BY DEF NamesInv, NamesTypeInv, PR!SaveSurvivor, Holding
<1>2. q.person \in Persons /\ q.merged \in Persons /\ q.expected \in Nat
  BY <1>1, RequestKinds DEF Merging
<1>3. head' = head /\ names' = names
  BY DEF PR!SaveSurvivor, PR!log
<1>4. people \in [Persons -> Nat]
      /\ names' \in [Names -> [owner : Persons \union {Nobody}, primary : BOOLEAN]]
  BY <1>1, <1>3 DEF NamesTypeInv
<1>5. \A p \in Persons : PrimariesIn(names', p) \subseteq PrimariesIn(names, p)
  BY <1>3
<1>6. CASE req' = [req EXCEPT ![r] = PR!Idle] /\ people' = people
  <2>1. people' \in [Persons -> Nat] /\ \A x \in Persons : people'[x] <= people[x]
    BY <1>4, <1>6
  <2> QED
    BY <1>3, <1>4, <1>5, <1>6, <2>1, EndOf
<1>7. CASE req' = [req EXCEPT ![r] = v] /\ people' = [people EXCEPT ![q.person] = q.expected + 1]
  <2>1. PR!HandedOver \in Seq(RecordKinds)
    BY DEF PR!HandedOver, RecordKinds
  <2>2. v \in Handing
    BY <1>2, <2>1 DEF Handing
  <2> HIDE DEF v
  <2>3. v \in Requests /\ v \notin Naming /\ ~Waiting(v) /\ ~Holding(v)
    BY <2>2 DEF Handing, Requests, Naming, Waiting, Holding
  <2>4. people' \in [Persons -> Nat]
        /\ \A p \in Persons : \/ people'[p] <= people[p]
                              \/ p = q.person /\ people'[p] = q.expected + 1
    BY <1>2, <1>4, <1>7
  <2> QED
    BY <1>1, <1>3, <1>4, <1>5, <1>7, <2>3, <2>4, StepOf
<1> QED
  BY <1>6, <1>7 DEF PR!SaveSurvivor

(***************************************************************************)
(* A merge that has read the survivor's row.                               *)
(***************************************************************************)
LEMMA MergePersonsKeeps ==
  ASSUME NamesInv, NEW r \in Slots, PR!MergePersons(r), setting' = setting
  PROVE  NamesInv'
<1>1. PICK survivor, merged \in Persons :
        req' = [req EXCEPT ![r] = [pc |-> "append", do |-> "merge", person |-> survivor,
                                   merged |-> merged, expected |-> people[survivor],
                                   events |-> <<[type |-> "PersonMerged"]>>]]
  BY DEF PR!MergePersons
<1> DEFINE v == [pc |-> "append", do |-> "merge", person |-> survivor,
                 merged |-> merged, expected |-> people[survivor],
                 events |-> <<[type |-> "PersonMerged"]>>]
<1>2. NamesTypeInv
  BY DEF NamesInv
<1>3. head' = head /\ people' = people /\ names' = names
  BY DEF PR!MergePersons, PR!log
<1>4. people[survivor] \in Nat
  BY <1>2 DEF NamesTypeInv
<1>5. v \in Merging /\ v.person = survivor /\ v.expected = people[survivor] /\ v.pc = "append"
      /\ v.do = "merge"
  BY <1>4 DEF Merging
<1> HIDE DEF v
<1>6. v \in Requests /\ v \notin Naming /\ ~Holding(v)
  BY <1>5 DEF Merging, Requests, Naming, Holding
<1>7. v.expected <= people[v.person]
  BY <1>4, <1>5
<1>8. \A x \in Persons : people'[x] <= people[x]
  BY <1>2, <1>3 DEF NamesTypeInv
<1>9. req' = [req EXCEPT ![r] = v]
  BY <1>1 DEF v
<1> QED
  BY <1>2, <1>3, <1>6, <1>7, <1>8, <1>9, StepOf DEF NamesTypeInv

(***************************************************************************)
(* One event that makes no name primary covers whatever is.                *)
(***************************************************************************)
LEMMA OneQuietEvent ==
  ASSUME NamesInv, NEW r \in Slots, req[r] \in Deciding, NEW event \in NameEvents,
         event.owner = req[r].person, ~event.primary, PR!ToAppend(r, <<event>>),
         setting' = setting, UNCHANGED <<people, PR!log, names, things>>
  PROVE  NamesInv'
<1>1. /\ <<event>> \in Seq(NameEvents) /\ Len(<<event>>) = 1
      /\ \A i \in 1..1 : <<event>>[i].owner = req[r].person
  OBVIOUS
<1>2. CoveredFrom(PrimariesIn(names, req[r].person), <<event>>, 1)
  BY <1>1 DEF CoveredFrom
<1> QED
  BY <1>1, <1>2, ToAppendKeeps

(***************************************************************************)
(* A request that is refused changes no row.                               *)
(***************************************************************************)
LEMMA RefusalKeeps ==
  ASSUME NamesInv, NEW r \in Slots, req' = [req EXCEPT ![r] = PR!Idle],
         UNCHANGED <<setting, people, PR!log, names>>
  PROVE  NamesInv'
<1>1. /\ people' \in [Persons -> Nat] /\ \A x \in Persons : people'[x] <= people[x]
      /\ names' \in [Names -> [owner : Persons \union {Nobody}, primary : BOOLEAN]]
      /\ \A p \in Persons : PrimariesIn(names', p) \subseteq PrimariesIn(names, p)
      /\ head' = head
  BY DEF NamesInv, NamesTypeInv, PR!log
<1> QED
  BY <1>1, EndOf

LEMMA RecordThingKeeps ==
  ASSUME NamesInv, NEW r \in Slots, PR!RecordThing(r), setting' = setting
  PROVE  NamesInv'
<1>1. UNCHANGED <<people, PR!log, names, req>> /\ req[r] = PR!Idle
  BY DEF PR!RecordThing
<1>2. req' = [req EXCEPT ![r] = PR!Idle]
  BY <1>1 DEF NamesInv, NamesTypeInv
<1> QED
  BY <1>1, <1>2, RefusalKeeps

(***************************************************************************)
(* A name's projection finds the person's row, or goes on without it.      *)
(***************************************************************************)
LEMMA ReadForVersionKeeps ==
  ASSUME NamesInv, NEW r \in Slots, PR!ReadForVersion(r), setting' = setting
  PROVE  NamesInv'
<1> DEFINE q == req[r]
           v == [q EXCEPT !.pc = "saveVersion"]
<1>1. q.pc = "readVersion" /\ people' = people /\ names' = names /\ head' = head
  BY DEF PR!ReadForVersion, PR!log
<1>2. CASE PR!NextEvent(r)
  BY <1>1, <1>2, NextEventKeeps
<1>3. CASE req' = [req EXCEPT ![r] = v]
  <2>1. q \in Requests /\ Holding(q) /\ q \in Naming
    BY <1>1, RequestKinds DEF NamesInv, NamesTypeInv, Holding
  <2>2. /\ v \in Naming /\ v \in Requests /\ Holding(v) /\ ~Waiting(v) /\ v.pc = "saveVersion"
        /\ v.person = q.person /\ v.expected = q.expected /\ v.events = q.events
    BY <2>1 DEF Naming, Requests, Holding, Waiting
  <2> HIDE DEF v
  <2>3. /\ Len(q.events) \in {1, 2} /\ (Len(q.events) = 2 => ~q.events[1].primary)
        /\ \A i \in 1..Len(q.events) : q.events[i].owner = q.person
        /\ (Len(q.events) = 2 => CoveredFrom(PrimariesIn(names, q.person), q.events, 2))
    BY <1>1, <2>1 DEF NamesInv, BatchesFormed, BatchesCover
  <2>4. head[q.person] = q.expected + Len(q.events) /\ people[q.person] <= q.expected
    BY <2>1 DEF NamesInv, OneHolds
  <2>5. /\ people' \in [Persons -> Nat] /\ \A x \in Persons : people'[x] <= people[x]
        /\ names' \in [Names -> [owner : Persons \union {Nobody}, primary : BOOLEAN]]
        /\ \A p \in Persons : PrimariesIn(names', p) \subseteq PrimariesIn(names, p)
    BY <1>1 DEF NamesInv, NamesTypeInv
  <2>6. v.expected >= q.expected
    BY <2>1, <2>2 DEF Naming
  <2> QED
    BY <1>1, <1>3, <2>1, <2>2, <2>3, <2>4, <2>5, <2>6, StepOf
<1> QED
  BY <1>2, <1>3 DEF PR!ReadForVersion

(***************************************************************************)
(* The commands on names decide on events that cover the primary names.    *)
(***************************************************************************)
LEMMA DecideAddKeeps ==
  ASSUME NamesInv, NEW r \in Slots, PR!DecideAdd(r), setting' = setting
  PROVE  NamesInv'
<1> DEFINE q == req[r]
           primary == q.primary \/ PR!NamesOf(q.person) = {}
           event == PR!Named("NameAdded", q.name, q.person, primary)
<1>1. q \in Deciding
  BY RequestKinds DEF NamesInv, NamesTypeInv, PR!DecideAdd
<1>2. q.person \in Persons /\ q.name \in Names /\ q.primary \in BOOLEAN
  BY <1>1 DEF Deciding
<1>3. primary \in BOOLEAN
  BY <1>2
<1>4. event \in NameEvents /\ event.name = q.name /\ event.owner = q.person /\ event.primary = primary
  BY <1>2, <1>3 DEF PR!Named, NameEvents
<1>5. UNCHANGED <<people, PR!log, names, things>>
  BY DEF PR!DecideAdd
<1>6. PR!ToAppend(r, IF primary THEN PR!DemoteFirst(r, event) ELSE <<event>>)
  BY DEF PR!DecideAdd
<1> HIDE DEF event
<1>7. CASE primary
  <2> DEFINE batch == PR!DemoteFirst(r, event)
  <2>1. /\ batch \in Seq(NameEvents) /\ Len(batch) \in {1, 2}
        /\ \A i \in 1..Len(batch) : batch[i].owner = q.person
        /\ Len(batch) = 2 => ~batch[1].primary
        /\ CoveredFrom(PrimariesIn(names, q.person), batch, 1)
    BY <1>2, <1>4, DemoteFirstCovers
  <2>2. PR!ToAppend(r, batch)
    BY <1>6, <1>7
  <2> HIDE DEF batch
  <2> QED
    BY <1>1, <1>5, <2>1, <2>2, ToAppendKeeps
<1>8. CASE ~primary
  BY <1>1, <1>4, <1>5, <1>6, <1>8, OneQuietEvent
<1> QED
  BY <1>7, <1>8

LEMMA DecideUpdateKeeps ==
  ASSUME NamesInv, NEW r \in Slots, PR!DecideUpdate(r), setting' = setting
  PROVE  NamesInv'
<1> DEFINE q == req[r]
           event == PR!Named("NameUpdated", q.name, q.person, q.primary)
           batch == PR!DemoteFirst(r, event)
<1>1. q \in Deciding
  BY RequestKinds DEF NamesInv, NamesTypeInv, PR!DecideUpdate
<1>2. q.person \in Persons /\ q.name \in Names /\ q.primary \in BOOLEAN
  BY <1>1 DEF Deciding
<1>3. event \in NameEvents /\ event.name = q.name /\ event.owner = q.person
      /\ event.primary = q.primary
  BY <1>2 DEF PR!Named, NameEvents
<1>4. UNCHANGED <<people, PR!log, names, things>>
  BY DEF PR!DecideUpdate
<1>5. \/ names[q.name].owner = q.person
         /\ PR!ToAppend(r, IF q.primary /\ ~names[q.name].primary THEN batch ELSE <<event>>)
      \/ req' = [req EXCEPT ![r] = PR!Idle]
  BY DEF PR!DecideUpdate
<1> HIDE DEF event
<1>6. /\ batch \in Seq(NameEvents) /\ Len(batch) \in {1, 2}
      /\ \A i \in 1..Len(batch) : batch[i].owner = q.person
      /\ Len(batch) = 2 => ~batch[1].primary
      /\ CoveredFrom(PrimariesIn(names, q.person), batch, 1)
  BY <1>2, <1>3, DemoteFirstCovers
<1> HIDE DEF batch
<1>7. CASE PR!ToAppend(r, batch)
  BY <1>1, <1>4, <1>6, <1>7, ToAppendKeeps
<1>8. CASE PR!ToAppend(r, <<event>>) /\ ~q.primary
  BY <1>1, <1>3, <1>4, <1>8, OneQuietEvent
<1>9. CASE /\ PR!ToAppend(r, <<event>>) /\ names[q.name].primary
           /\ names[q.name].owner = q.person
  <2>1. q.name \in PrimariesIn(names, q.person)
    BY <1>2, <1>9 DEF PrimariesIn
  <2>2. \A n \in PrimariesIn(names, q.person) : n = event.name
    BY <1>2, <1>3, <2>1 DEF NamesInv, OneEach
  <2>3. /\ <<event>> \in Seq(NameEvents) /\ Len(<<event>>) = 1
        /\ \A i \in 1..1 : <<event>>[i].owner = q.person
    BY <1>3
  <2>4. CoveredFrom(PrimariesIn(names, q.person), <<event>>, 1)
    BY <2>2, <2>3 DEF CoveredFrom
  <2> DEFINE one == <<event>>
  <2>5. /\ one \in Seq(NameEvents) /\ Len(one) \in {1, 2} /\ Len(one) # 2
        /\ \A i \in 1..Len(one) : one[i].owner = q.person
        /\ CoveredFrom(PrimariesIn(names, q.person), one, 1) /\ PR!ToAppend(r, one)
    BY <1>9, <2>3, <2>4
  <2> HIDE DEF one
  <2> QED
    BY <1>1, <1>4, <2>5, ToAppendKeeps
<1>10. CASE req' = [req EXCEPT ![r] = PR!Idle]
  BY <1>4, <1>10, RefusalKeeps
<1> QED
  BY <1>2, <1>5, <1>7, <1>8, <1>9, <1>10

LEMMA DecideRemoveKeeps ==
  ASSUME NamesInv, NEW r \in Slots, PR!DecideRemove(r), setting' = setting
  PROVE  NamesInv'
<1> DEFINE q == req[r]
           event == PR!Named("NameRemoved", q.name, q.person, FALSE)
<1>1. q \in Deciding
  BY RequestKinds DEF NamesInv, NamesTypeInv, PR!DecideRemove
<1>2. q.person \in Persons /\ q.name \in Names
  BY <1>1 DEF Deciding
<1>3. event \in NameEvents /\ event.owner = q.person /\ ~event.primary
  BY <1>2 DEF PR!Named, NameEvents
<1>4. UNCHANGED <<people, PR!log, names, things>>
  BY DEF PR!DecideRemove
<1>5. PR!ToAppend(r, <<event>>) \/ req' = [req EXCEPT ![r] = PR!Idle]
  BY DEF PR!DecideRemove
<1> HIDE DEF event
<1>6. CASE PR!ToAppend(r, <<event>>)
  BY <1>1, <1>3, <1>4, <1>6, OneQuietEvent
<1>7. CASE req' = [req EXCEPT ![r] = PR!Idle]
  BY <1>4, <1>7, RefusalKeeps
<1> QED
  BY <1>5, <1>6, <1>7

-----------------------------------------------------------------------------
(* Theorems.                                                               *)

(***************************************************************************)
(* The invariant of names and merges, for every number of persons, names   *)
(* and requests: what makes OnePrimaryName inductive is that an accepted   *)
(* append makes a request the only holder of its person.                   *)
(***************************************************************************)
THEOREM NamesInvariant ==
  ASSUME PR!SlotsInUse
  PROVE  PR!Spec => []NamesInv
<1>1. PR!Init => NamesInv
  <2> SUFFICES ASSUME PR!Init
               PROVE  NamesInv
    OBVIOUS
  <2>1. NamesTypeInv
    BY PR!SlotsInUse DEF PR!Init, NamesTypeInv, PR!SlotsInUse, PR!NoName, Requests
  <2>2. \A r \in Slots : req[r] = PR!Idle
    BY DEF PR!Init
  <2>3. PR!Idle \notin Naming /\ ~Waiting(PR!Idle) /\ ~Holding(PR!Idle)
    BY DEF PR!Idle, Naming, Waiting, Holding
  <2>4. \A p \in Persons : people[p] <= head[p] /\ PrimariesIn(names, p) = {}
    BY DEF PR!Init, PrimariesIn, PR!NoName
  <2> QED
    BY <2>1, <2>2, <2>3, <2>4
    DEF NamesInv, RowsBehind, ExpectPast, OneHolds, BatchesFormed, BatchesCover, OneEach
<1>2. NamesInv /\ [PR!Next]_(PR!vars) => NamesInv'
  <2> SUFFICES ASSUME NamesInv, [PR!Next]_(PR!vars)
               PROVE  NamesInv'
    OBVIOUS
  <2>1. CASE UNCHANGED PR!vars
    BY <2>1 DEF PR!vars, NamesInv, NamesTypeInv, RowsBehind, ExpectPast, OneHolds, BatchesFormed,
                BatchesCover, OneEach
  <2>2. ASSUME NEW r \in setting.slots, PR!Step(r), setting' = setting
        PROVE  NamesInv'
    <3>1. r \in Slots
      BY DEF NamesInv, NamesTypeInv
    <3>2. CASE PR!AddName(r) \/ PR!UpdateName(r) \/ PR!DeleteName(r)
      BY <2>2, <3>1, <3>2, ReadPersonKeeps DEF PR!AddName, PR!UpdateName, PR!DeleteName
    <3>3. CASE PR!MergePersons(r)
      BY <2>2, <3>1, <3>3, MergePersonsKeeps
    <3>4. CASE PR!DecideAdd(r)
      BY <2>2, <3>1, <3>4, DecideAddKeeps
    <3>5. CASE PR!DecideUpdate(r)
      BY <2>2, <3>1, <3>5, DecideUpdateKeeps
    <3>6. CASE PR!DecideRemove(r)
      BY <2>2, <3>1, <3>6, DecideRemoveKeeps
    <3>7. CASE PR!AppendEvents(r)
      BY <2>2, <3>1, <3>7, AppendEventsKeeps
    <3>8. CASE PR!ProjectName(r)
      BY <2>2, <3>1, <3>8, ProjectNameKeeps
    <3>9. CASE PR!ReadForVersion(r)
      BY <2>2, <3>1, <3>9, ReadForVersionKeeps
    <3>10. CASE PR!SaveVersion(r)
      BY <2>2, <3>1, <3>10, NextEventKeeps DEF PR!SaveVersion, PR!log
    <3>11. CASE PR!SaveSurvivor(r)
      BY <2>2, <3>1, <3>11, SaveSurvivorKeeps
    <3>12. CASE PR!HandOver(r)
      BY <2>2, <3>1, <3>12, HandOverKeeps
    <3>13. CASE PR!DeleteMerged(r)
      BY <2>2, <3>1, <3>13, DeleteMergedKeeps
    <3>14. CASE PR!RecordThing(r)
      BY <2>2, <3>1, <3>14, RecordThingKeeps
    <3> QED
      BY <2>2, <3>2, <3>3, <3>4, <3>5, <3>6, <3>7, <3>8, <3>9, <3>10, <3>11, <3>12, <3>13, <3>14
      DEF PR!Step
  <2> QED
    BY <2>1, <2>2 DEF PR!Next
<1> QED
  BY <1>1, <1>2, PTL DEF PR!Spec

(***************************************************************************)
(* A person never has two primary names, however commands and merges race  *)
(* (PersonName.IsPrimary).                                                 *)
(***************************************************************************)
THEOREM OnePrimaryKept ==
  ASSUME PR!SlotsInUse
  PROVE  PR!Spec => []PR!OnePrimaryName
<1>1. NamesInv => PR!OnePrimaryName
  <2> SUFFICES ASSUME NamesInv, NEW p \in Persons
               PROVE  PR!Cardinality(PR!Primaries(p)) <= 1
    BY DEF PR!OnePrimaryName
  <2>1. \A m, n \in PR!Primaries(p) : m = n
    BY DEF NamesInv, OneEach, PR!Primaries, PR!NamesOf, PrimariesIn
  <2>2. CASE PR!Primaries(p) = {}
    BY <2>2, FS_EmptySet, SameSizes
  <2>3. CASE PR!Primaries(p) # {}
    <3>1. PICK n \in PR!Primaries(p) : TRUE
      BY <2>3
    <3>2. PR!Primaries(p) = {n}
      BY <2>1, <3>1
    <3>3. PR!Cardinality(PR!Primaries(p)) = 1
      BY <3>2, FS_Singleton, SameSizes, Zenon
    <3> QED
      BY <3>3
  <2> QED
    BY <2>2, <2>3
<1> QED
  BY <1>1, NamesInvariant, PTL

-----------------------------------------------------------------------------
(* A merge moves all: a second invariant, for one request at a time.       *)

(***************************************************************************)
(* The kinds of record that pass a merge.  Media does not: its file is     *)
(* lost, or the projection ends there.                                     *)
(***************************************************************************)
Passing == (RecordKinds \ {"media"}) \union {"association"}

\* With one slot, clients create records that pass only.
OnlyPassing == \A s \in PersonSettings : PR!Cardinality(s.slots) = 1 => s.kinds \subseteq Passing

Still(kinds) == {kinds[i] : i \in 1..Len(kinds)}

\* A row is a living person's.
NamesOwned(table, alive) ==
  \A n \in Names : table[n] = PR!NoName \/ (table[n].owner \in Persons /\ alive[table[n].owner] > 0)

ThingsOwned(table, alive) ==
  \A x \in Things :
    \/ table[x] = PR!NoThing
    \/ table[x].kind \in Passing /\ table[x].owner \in Persons /\ alive[table[x].owner] > 0

\* Who was merged into another is gone, or the projection of the merge is under way.
Gone(merged, alive, q) ==
  \A p \in merged : alive[p] = 0 \/ (q.pc \in {"survivor", "handOver"} /\ p = q.merged)

(***************************************************************************)
(* A request's person lives, and is not merged into itself; what the       *)
(* merged person still owns is yet to be handed over, or ends with it.     *)
(***************************************************************************)
Underway(q, table, alive) ==
  /\ q # PR!Idle => alive[q.person] > 0
  /\ q \in Merging \union Handing => q.merged # q.person
  /\ q.pc = "handOver" =>
       \A x \in Things : table[x] # PR!NoThing /\ table[x].owner = q.merged =>
         table[x].kind \in Still(q.kinds) \union {"association"}

Quiet == \A r \in Slots \ setting.slots : req[r] = PR!Idle

Moving ==
  /\ NamesOwned(names, people) /\ ThingsOwned(things, people)
  /\ \A r \in setting.slots : Gone(absorbed, people, req[r]) /\ Underway(req[r], things, people)

MoveInv ==
  /\ setting \in PersonSettings /\ PR!IsFiniteSet(setting.slots)
  /\ things = [x \in Things |-> things[x]] /\ Quiet
  /\ PR!OneByOne => Moving

(***************************************************************************)
(* A step of the only request.                                             *)
(***************************************************************************)
LEMMA MoveStep ==
  ASSUME NamesInv, MoveInv, NEW r \in setting.slots, NEW v, req' = [req EXCEPT ![r] = v],
         setting' = setting, things' = [x \in Things |-> things'[x]],
         PR!OneByOne /\ Moving =>
           /\ NamesOwned(names', people') /\ ThingsOwned(things', people')
           /\ Gone(absorbed', people', v) /\ Underway(v, things', people')
  PROVE  MoveInv'
<1>1. /\ r \in Slots /\ setting.slots \subseteq Slots /\ PR!IsFiniteSet(setting.slots)
      /\ req = [x \in Slots |-> req[x]] /\ setting \in PersonSettings
  BY DEF NamesInv, NamesTypeInv, MoveInv
<1>2. req'[r] = v /\ \A x \in Slots : x # r => req'[x] = req[x]
  BY <1>1
<1>3. Quiet'
  BY <1>1, <1>2 DEF MoveInv, Quiet
<1>4. ASSUME PR!OneByOne' PROVE Moving'
  <2>1. PR!OneByOne /\ Moving
    BY <1>4 DEF PR!OneByOne, MoveInv
  <2>2. \E x : setting.slots = {x}
    BY <1>1, <2>1, FS_Singleton, SameSizes DEF PR!OneByOne
  <2>3. \A x \in setting'.slots : x = r
    BY <2>2
  <2> QED
    BY <1>2, <2>1, <2>3 DEF Moving
<1> QED
  BY <1>1, <1>3, <1>4 DEF MoveInv

(***************************************************************************)
(* The request ends; the rows stay as they are.                            *)
(***************************************************************************)
LEMMA MoveEnds ==
  ASSUME NamesInv, MoveInv, NEW r \in setting.slots, req' = [req EXCEPT ![r] = PR!Idle],
         req[r].pc \notin {"survivor", "handOver"},
         setting' = setting, things' = things, absorbed' = absorbed,
         PR!OneByOne /\ Moving => NamesOwned(names', people'),
         \A p \in Persons : people[p] > 0 => people'[p] > 0,
         PR!OneByOne /\ Moving => \A p \in absorbed : people[p] = 0 => people'[p] = 0
  PROVE  MoveInv'
<1>1. PICK v : v = PR!Idle
  OBVIOUS
<1>2. v.pc = "idle" /\ v \notin Merging \union Handing
  BY <1>1 DEF PR!Idle, Merging, Handing
<1>3. PR!OneByOne /\ Moving =>
        /\ NamesOwned(names', people') /\ ThingsOwned(things', people')
        /\ Gone(absorbed', people', v) /\ Underway(v, things', people')
  BY <1>1, <1>2 DEF Moving, ThingsOwned, Gone, Underway
<1>4. things' = [x \in Things |-> things'[x]]
  BY DEF MoveInv
<1> QED
  BY <1>1, <1>3, <1>4, MoveStep

(***************************************************************************)
(* A request that is neither at its start nor at its end, nor in a merge's *)
(* projection, goes on; the rows stay as they are.                         *)
(***************************************************************************)
LEMMA MoveOn ==
  ASSUME NamesInv, MoveInv, NEW r \in setting.slots, NEW v, req' = [req EXCEPT ![r] = v],
         req[r].pc \notin {"survivor", "handOver"}, v.pc \notin {"survivor", "handOver"},
         v.person \in Persons, PR!OneByOne /\ Moving => people[v.person] > 0,
         v \in Merging => v.merged # v.person,
         setting' = setting, things' = things, absorbed' = absorbed,
         PR!OneByOne /\ Moving => NamesOwned(names', people'),
         \A p \in Persons : people[p] > 0 => people'[p] > 0,
         PR!OneByOne /\ Moving => \A p \in absorbed : people[p] = 0 => people'[p] = 0
  PROVE  MoveInv'
<1>1. v \notin Handing
  BY DEF Handing
<1>2. PR!OneByOne /\ Moving =>
        /\ NamesOwned(names', people') /\ ThingsOwned(things', people')
        /\ Gone(absorbed', people', v) /\ Underway(v, things', people')
  BY <1>1 DEF Moving, ThingsOwned, Gone, Underway
<1>3. things' = [x \in Things |-> things'[x]]
  BY DEF MoveInv
<1> QED
  BY <1>2, <1>3, MoveStep

(***************************************************************************)
(* What a request that is not idle is, in a state where all is owned.      *)
(***************************************************************************)
LEMMA UnderwaySays ==
  ASSUME NamesInv, NEW r \in setting.slots, req[r].pc # "idle"
  PROVE  /\ r \in Slots /\ req[r] \in Requests /\ req[r] # PR!Idle
         /\ req[r].person \in Persons
         /\ Moving => people[req[r].person] > 0
<1>1. r \in Slots /\ req[r] \in Requests
  BY DEF NamesInv, NamesTypeInv
<1>2. req[r] # PR!Idle
  BY DEF PR!Idle
<1>3. req[r].person \in Persons
  BY <1>1, <1>2 DEF Requests, Deciding, Naming, Merging, Handing
<1> QED
  BY <1>1, <1>2, <1>3 DEF Moving, Underway

(***************************************************************************)
(* The steps of a name's command before its append.                        *)
(***************************************************************************)
LEMMA DecideMoves ==
  ASSUME NamesInv, MoveInv, NEW r \in setting.slots, setting' = setting,
         \/ PR!AddName(r) \/ PR!UpdateName(r) \/ PR!DeleteName(r)
         \/ PR!DecideAdd(r) \/ PR!DecideUpdate(r) \/ PR!DecideRemove(r) \/ PR!MergePersons(r)
  PROVE  MoveInv'
<1>1. r \in Slots /\ req[r] \in Requests /\ people \in [Persons -> Nat]
  BY DEF NamesInv, NamesTypeInv
<1>2. ASSUME NEW do, NEW p \in Persons, NEW n, NEW primary, PR!ReadPerson(r, do, p, n, primary)
      PROVE  MoveInv'
  <2>1. PICK v : v = [pc |-> "names", do |-> do, person |-> p, name |-> n,
                      primary |-> primary, expected |-> people[p]]
    OBVIOUS
  <2>2. /\ req' = [req EXCEPT ![r] = v] /\ req[r].pc = "idle" /\ people[p] > 0
        /\ UNCHANGED <<people, absorbed, names, things>>
    BY <1>2, <2>1 DEF PR!ReadPerson, PR!log, PR!Idle
  <2>3. v.pc = "names" /\ v.person = p /\ v \notin Merging
    BY <2>1 DEF Merging
  <2>4. PR!OneByOne /\ Moving => NamesOwned(names', people')
    BY <2>2 DEF Moving
  <2> QED
    BY <2>2, <2>3, <2>4, MoveOn
<1>3. ASSUME NEW events, req[r].pc = "names", PR!ToAppend(r, events),
             UNCHANGED <<people, PR!log, names, things>>, req[r].do # "merge"
      PROVE  MoveInv'
  <2>1. PICK v : v = [pc |-> "append", do |-> req[r].do, person |-> req[r].person,
                      name |-> req[r].name, expected |-> PR!ExpectsPerson(r), events |-> events]
    OBVIOUS
  <2>2. req' = [req EXCEPT ![r] = v] /\ UNCHANGED <<people, absorbed, names, things>>
    BY <1>3, <2>1 DEF PR!ToAppend, PR!log
  <2>3. v.pc = "append" /\ v.person = req[r].person /\ v \notin Merging
    BY <1>3, <2>1 DEF Merging
  <2>4. v.person \in Persons /\ (Moving => people[v.person] > 0)
    BY <1>3, <2>3, UnderwaySays
  <2>5. PR!OneByOne /\ Moving => NamesOwned(names', people')
    BY <2>2 DEF Moving
  <2> QED
    BY <1>3, <2>2, <2>3, <2>4, <2>5, MoveOn
<1>4. ASSUME req[r].pc = "names", req' = [req EXCEPT ![r] = PR!Idle],
             UNCHANGED <<people, PR!log, names, things>>
      PROVE  MoveInv'
  <2>1. UNCHANGED <<people, absorbed, names, things>>
    BY <1>4 DEF PR!log
  <2>2. PR!OneByOne /\ Moving => NamesOwned(names', people')
    BY <2>1 DEF Moving
  <2> QED
    BY <1>4, <2>1, <2>2, MoveEnds
<1>5. CASE PR!DecideAdd(r)
  BY <1>3, <1>5 DEF PR!DecideAdd
<1>6. CASE PR!DecideUpdate(r)
  BY <1>3, <1>4, <1>6 DEF PR!DecideUpdate
<1>7. CASE PR!DecideRemove(r)
  BY <1>3, <1>4, <1>7 DEF PR!DecideRemove
<1>8. CASE PR!MergePersons(r)
  <2>1. PICK survivor, merged \in Persons :
          /\ req[r] = PR!Idle /\ survivor # merged /\ people[survivor] > 0
          /\ req' = [req EXCEPT ![r] = [pc |-> "append", do |-> "merge", person |-> survivor,
                                        merged |-> merged, expected |-> people[survivor],
                                        events |-> <<[type |-> "PersonMerged"]>>]]
          /\ UNCHANGED <<people, PR!log, names, things>>
    BY <1>8 DEF PR!MergePersons
  <2>2. PICK v : v = [pc |-> "append", do |-> "merge", person |-> survivor,
                      merged |-> merged, expected |-> people[survivor],
                      events |-> <<[type |-> "PersonMerged"]>>]
    OBVIOUS
  <2>3. /\ req' = [req EXCEPT ![r] = v] /\ req[r].pc = "idle"
        /\ UNCHANGED <<people, absorbed, names, things>>
    BY <2>1, <2>2 DEF PR!Idle, PR!log
  <2>4. v.pc = "append" /\ v.person = survivor /\ v.merged = merged
    BY <2>2
  <2>5. PR!OneByOne /\ Moving => NamesOwned(names', people')
    BY <2>3 DEF Moving
  <2> QED
    BY <2>1, <2>3, <2>4, <2>5, MoveOn
<1> QED
  BY <1>2, <1>5, <1>6, <1>7, <1>8 DEF PR!AddName, PR!UpdateName, PR!DeleteName

(***************************************************************************)
(* An append: a merge's event makes the merged person one to be gone.      *)
(***************************************************************************)
LEMMA AppendMoves ==
  ASSUME NamesInv, MoveInv, NEW r \in setting.slots, PR!AppendEvents(r), setting' = setting
  PROVE  MoveInv'
<1>1. PICK q : q = req[r]
  OBVIOUS
<1>2. /\ q.pc = "append" /\ r \in Slots /\ q \in Naming \union Merging
      /\ UNCHANGED <<people, names, things>>
  <2>1. r \in Slots /\ req[r] \in Requests
    BY DEF NamesInv, NamesTypeInv
  <2> QED
    BY <1>1, <2>1, RequestKinds DEF PR!AppendEvents
<1>3. q.person \in Persons /\ (Moving => people[q.person] > 0)
  BY <1>1, <1>2, UnderwaySays
<1>4. CASE req' = [req EXCEPT ![r] = PR!Idle] /\ UNCHANGED PR!log
  <2>1. UNCHANGED <<people, absorbed, names, things>>
    BY <1>2, <1>4 DEF PR!log
  <2>2. PR!OneByOne /\ Moving => NamesOwned(names', people')
    BY <2>1 DEF Moving
  <2> QED
    BY <1>1, <1>2, <1>4, <2>1, <2>2, MoveEnds
<1>5. CASE /\ absorbed' = IF q.do = "merge" THEN absorbed \union {q.merged} ELSE absorbed
           /\ req' = [req EXCEPT ![r].pc = IF q.do = "merge" THEN "survivor" ELSE "name",
                                 ![r].expected = IF q.expected < 0 THEN 0 ELSE @]
  <2>1. PICK v : v = [q EXCEPT !.pc = IF q.do = "merge" THEN "survivor" ELSE "name",
                               !.expected = IF q.expected < 0 THEN 0 ELSE q.expected]
    OBVIOUS
  <2>2. req = [x \in Slots |-> req[x]]
    BY DEF NamesInv, NamesTypeInv
  <2>3. req' = [req EXCEPT ![r] = v]
    BY <1>1, <1>2, <1>5, <2>1, <2>2
  <2>4. CASE q \in Naming
    <3>1. q.do # "merge"
      BY <2>4 DEF Naming
    <3>2. /\ v.pc = "name" /\ v.person = q.person /\ v.do # "merge"
      BY <2>1, <2>4, <3>1 DEF Naming
    <3>3. v \notin Merging
      BY <3>2 DEF Merging
    <3>4. absorbed' = absorbed
      BY <1>5, <3>1
    <3>5. PR!OneByOne /\ Moving => NamesOwned(names', people')
      BY <1>2 DEF Moving
    <3> QED
      BY <1>1, <1>2, <1>3, <2>3, <3>2, <3>3, <3>4, <3>5, MoveOn
  <2>5. CASE q \in Merging
    <3>1. q.do = "merge"
      BY <2>5 DEF Merging
    <3>2. v.pc = "survivor" /\ v.person = q.person /\ v.merged = q.merged
      BY <2>1, <2>5, <3>1 DEF Merging
    <3>3. absorbed' = absorbed \union {q.merged}
      BY <1>5, <3>1
    <3>4. Moving => q.merged # q.person /\ \A p \in absorbed : people[p] = 0
      BY <1>1, <1>2, <2>5 DEF Moving, Underway, Gone
    <3>5. PR!OneByOne /\ Moving =>
            /\ NamesOwned(names', people') /\ ThingsOwned(things', people')
            /\ Gone(absorbed', people', v) /\ Underway(v, things', people')
      BY <1>2, <1>3, <3>2, <3>3, <3>4 DEF Moving, Gone, Underway
    <3>6. things' = [x \in Things |-> things'[x]]
      BY <1>2 DEF MoveInv
    <3> QED
      BY <2>3, <3>5, <3>6, MoveStep
  <2> QED
    BY <1>2, <2>4, <2>5
<1> QED
  BY <1>1, <1>4, <1>5 DEF PR!AppendEvents

(***************************************************************************)
(* The projection of a name's events, for a person that lives.             *)
(***************************************************************************)
LEMMA NameMoves ==
  ASSUME NamesInv, MoveInv, NEW r \in setting.slots, setting' = setting,
         PR!ProjectName(r) \/ PR!ReadForVersion(r) \/ PR!SaveVersion(r)
  PROVE  MoveInv'
<1>1. PICK q : q = req[r]
  OBVIOUS
<1>2. /\ q.pc \in {"name", "readVersion", "saveVersion"} /\ r \in Slots /\ q \in Naming
      /\ q.person \in Persons /\ q.expected \in Nat /\ Len(q.events) \in {1, 2}
      /\ \A i \in 1..Len(q.events) : q.events[i].owner = q.person
      /\ req = [x \in Slots |-> req[x]] /\ people \in [Persons -> Nat]
      /\ names = [n \in Names |-> names[n]]
  <2>1. r \in Slots /\ req[r] \in Requests /\ req[r].pc \in {"name", "readVersion", "saveVersion"}
    BY DEF NamesInv, NamesTypeInv, PR!ProjectName, PR!ReadForVersion, PR!SaveVersion
  <2>2. q \in Naming
    BY <1>1, <2>1, RequestKinds
  <2>3. q.person \in Persons /\ q.expected \in Nat
    BY <2>2 DEF Naming
  <2> QED
    BY <1>1, <2>1, <2>2, <2>3 DEF NamesInv, NamesTypeInv, BatchesFormed
<1>3. Moving => people[q.person] > 0
  BY <1>1, <1>2, UnderwaySays
<1>4. ASSUME NEW pc \in {"name", "readVersion", "saveVersion"}, NEW v, v.pc = pc, v.person = q.person,
             v.do = q.do
      PROVE  /\ v.pc \notin {"survivor", "handOver"} /\ v.person \in Persons /\ v \notin Merging
  BY <1>2, <1>4 DEF Merging, Naming
<1>5. CASE PR!ProjectName(r)
  <2>1. PICK v : v = [q EXCEPT !.pc = "readVersion"]
    OBVIOUS
  <2>2. req' = [req EXCEPT ![r] = v]
    BY <1>1, <1>2, <1>5, <2>1 DEF PR!ProjectName
  <2>3. v.pc = "readVersion" /\ v.person = q.person /\ v.do = q.do
    BY <1>2, <2>1 DEF Naming
  <2>4. PICK e : e = q.events[1] /\ e.owner = q.person
    BY <1>2
  <2>5. /\ UNCHANGED <<people, absorbed, things>>
        /\ names' = [names EXCEPT ![e.name] =
             IF e.type = "NameRemoved" THEN PR!NoName ELSE [owner |-> e.owner, primary |-> e.primary]]
    BY <1>1, <1>5, <2>4 DEF PR!ProjectName, PR!log
  <2>6. \A n \in Names : names'[n] = names[n] \/ names'[n] = PR!NoName \/ names'[n].owner = q.person
    BY <1>2, <2>4, <2>5
  <2>7. PR!OneByOne /\ Moving => NamesOwned(names', people')
    BY <1>2, <1>3, <2>5, <2>6 DEF Moving, NamesOwned
  <2>8. v.pc \notin {"survivor", "handOver"} /\ v.person \in Persons /\ v \notin Merging
    BY <1>4, <2>3
  <2> QED
    BY <1>1, <1>2, <1>3, <2>2, <2>3, <2>5, <2>7, <2>8, MoveOn
<1>6. ASSUME PR!NextEvent(r), UNCHANGED <<names, things, absorbed>>,
             \A p \in Persons : people[p] > 0 => people'[p] > 0,
             Moving => \A p \in absorbed : people[p] = 0 => people'[p] = 0
      PROVE  MoveInv'
  <2>1. PR!OneByOne /\ Moving => NamesOwned(names', people')
    BY <1>6 DEF Moving, NamesOwned
  <2>2. CASE req' = [req EXCEPT ![r] = PR!Idle]
    BY <1>1, <1>2, <1>6, <2>1, <2>2, MoveEnds
  <2>3. CASE req' = [req EXCEPT ![r] = [req[r] EXCEPT !.pc = "name", !.events = Tail(@), !.expected = @ + 1]]
    <3>1. PICK v : v = [q EXCEPT !.pc = "name", !.events = Tail(@), !.expected = @ + 1]
      OBVIOUS
    <3>2. req' = [req EXCEPT ![r] = v]
      BY <1>1, <2>3, <3>1
    <3>3. v.pc = "name" /\ v.person = q.person /\ v.do = q.do
      BY <1>2, <3>1 DEF Naming
    <3>4. v.pc \notin {"survivor", "handOver"} /\ v.person \in Persons /\ v \notin Merging
      BY <1>4, <3>3
    <3> QED
      BY <1>1, <1>2, <1>3, <1>6, <2>1, <3>2, <3>3, <3>4, MoveOn
  <2> QED
    BY <1>6, <2>2, <2>3 DEF PR!NextEvent
<1>7. CASE PR!ReadForVersion(r)
  <2>1. UNCHANGED <<people, absorbed, names, things>>
    BY <1>7 DEF PR!ReadForVersion, PR!log
  <2>2. CASE PR!NextEvent(r)
    BY <1>6, <2>1, <2>2
  <2>3. CASE req' = [req EXCEPT ![r].pc = "saveVersion"]
    <3>1. PICK v : v = [q EXCEPT !.pc = "saveVersion"]
      OBVIOUS
    <3>2. req' = [req EXCEPT ![r] = v]
      BY <1>1, <1>2, <2>3, <3>1
    <3>3. v.pc = "saveVersion" /\ v.person = q.person /\ v.do = q.do
      BY <1>2, <3>1 DEF Naming
    <3>4. v.pc \notin {"survivor", "handOver"} /\ v.person \in Persons /\ v \notin Merging
      BY <1>4, <3>3
    <3>5. PR!OneByOne /\ Moving => NamesOwned(names', people')
      BY <2>1 DEF Moving
    <3> QED
      BY <1>1, <1>2, <1>3, <2>1, <3>2, <3>3, <3>4, <3>5, MoveOn
  <2> QED
    BY <1>7, <2>2, <2>3 DEF PR!ReadForVersion
<1>8. CASE PR!SaveVersion(r)
  <2>1. /\ PR!NextEvent(r) /\ UNCHANGED <<names, things, absorbed>>
        /\ people' = [people EXCEPT ![q.person] = q.expected + 1]
    BY <1>1, <1>8 DEF PR!SaveVersion, PR!log
  <2>2. \A p \in Persons : people[p] > 0 => people'[p] > 0
    BY <1>2, <2>1
  <2>3. ASSUME Moving, NEW p \in absorbed, people[p] = 0 PROVE people'[p] = 0
    <3>1. p # q.person
      BY <1>3, <2>3
    <3> QED
      BY <1>2, <2>1, <2>3, <3>1
  <2> QED
    BY <1>6, <2>1, <2>2, <2>3
<1> QED
  BY <1>5, <1>7, <1>8

(***************************************************************************)
(* The steps of a merge's projection, and another record of a person.      *)
(***************************************************************************)
LEMMA SurvivorMoves ==
  ASSUME NamesInv, MoveInv, NEW r \in setting.slots, PR!SaveSurvivor(r), setting' = setting
  PROVE  MoveInv'
<1>1. PICK q : q = req[r]
  OBVIOUS
<1>2. /\ q.pc = "survivor" /\ r \in Slots /\ q \in Merging /\ q.expected \in Nat
      /\ q.person \in Persons /\ people \in [Persons -> Nat] /\ names' = names /\ things' = things
      /\ absorbed' = absorbed
  <2>1. r \in Slots /\ req[r] \in Requests /\ req[r].pc = "survivor"
    BY DEF NamesInv, NamesTypeInv, PR!SaveSurvivor
  <2>2. q \in Merging
    BY <1>1, <2>1, RequestKinds
  <2> QED
    BY <1>1, <2>1, <2>2 DEF Merging, NamesInv, NamesTypeInv, PR!SaveSurvivor, PR!log
<1>3. Moving => people[q.person] > 0 /\ q.merged # q.person
  BY <1>1, <1>2, UnderwaySays DEF Moving, Underway
<1>4. Moving => \A p \in absorbed : people[p] = 0 \/ p = q.merged
  BY <1>1 DEF Moving, Gone
<1>5. CASE people[q.person] > 0
  <2>1. PICK v : v = [pc |-> "handOver", person |-> q.person, merged |-> q.merged,
                      kinds |-> PR!HandedOver]
    OBVIOUS
  <2>2. req' = [req EXCEPT ![r] = v] /\ people' = [people EXCEPT ![q.person] = q.expected + 1]
    BY <1>1, <1>5, <2>1 DEF PR!SaveSurvivor
  <2>3. v.pc = "handOver" /\ v.person = q.person /\ v.merged = q.merged /\ v.kinds = PR!HandedOver
    BY <2>1
  <2>4. Passing \subseteq Still(v.kinds) \union {"association"}
    <3>1. Len(PR!HandedOver) = 9 /\ \A k \in RecordKinds : \E i \in 1..9 : PR!HandedOver[i] = k
      BY DEF PR!HandedOver, RecordKinds
    <3> QED
      BY <2>3, <3>1 DEF Passing, Still
  <2>5. people'[q.person] > 0 /\ \A p \in Persons : p # q.person => people'[p] = people[p]
    BY <1>2, <2>2
  <2>6. \A p : p # q.person => people'[p] = people[p]
    BY <1>2, <2>2
  <2>7. ASSUME PR!OneByOne, Moving
        PROVE  /\ NamesOwned(names', people') /\ ThingsOwned(things', people')
               /\ Gone(absorbed', people', v) /\ Underway(v, things', people')
    <3>1. NamesOwned(names', people')
      BY <1>2, <2>5, <2>7 DEF Moving, NamesOwned
    <3>2. ThingsOwned(things', people')
      BY <1>2, <2>5, <2>7 DEF Moving, ThingsOwned
    <3>3. Gone(absorbed', people', v)
      BY <1>2, <1>3, <1>4, <2>3, <2>6, <2>7 DEF Gone
    <3>4. Underway(v, things', people')
      BY <1>2, <1>3, <2>3, <2>4, <2>5, <2>7 DEF Moving, ThingsOwned, Underway
    <3> QED
      BY <3>1, <3>2, <3>3, <3>4
  <2>8. things' = [x \in Things |-> things'[x]]
    BY <1>2 DEF MoveInv
  <2> QED
    BY <2>2, <2>7, <2>8, MoveStep
<1>6. CASE ~ (people[q.person] > 0)
  <2>1. PICK v : v = PR!Idle
    OBVIOUS
  <2>2. req' = [req EXCEPT ![r] = v]
    BY <1>1, <1>6, <2>1 DEF PR!SaveSurvivor
  <2>3. things' = [x \in Things |-> things'[x]]
    BY <1>2 DEF MoveInv
  <2> QED
    BY <1>3, <1>6, <2>2, <2>3, MoveStep
<1> QED
  BY <1>5, <1>6

\* A batch of records handed over belongs to the survivor, one kind fewer is left.
LEMMA HandOverMoves ==
  ASSUME NamesInv, MoveInv, NEW r \in setting.slots, PR!HandOver(r), setting' = setting
  PROVE  MoveInv'
<1>1. PICK q, kind : q = req[r] /\ kind = q.kinds[1]
  OBVIOUS
<1>2. PICK moved : moved = PR!ThingsOf(q.merged, kind)
  OBVIOUS
<1>3. /\ q.pc = "handOver" /\ q.kinds # <<>> /\ r \in Slots /\ q \in Handing
      /\ q.kinds \in Seq(RecordKinds) /\ q.person \in Persons
      /\ people' = people /\ absorbed' = absorbed
  <2>1. r \in Slots /\ req[r] \in Requests /\ req[r].pc = "handOver"
    BY DEF NamesInv, NamesTypeInv, PR!HandOver
  <2>2. q \in Handing
    BY <1>1, <2>1, RequestKinds
  <2> QED
    BY <1>1, <2>1, <2>2 DEF Handing, PR!HandOver, PR!log
<1>4. kind \in RecordKinds /\ Len(q.kinds) \in Nat /\ Tail(q.kinds) \in Seq(RecordKinds)
      /\ Len(Tail(q.kinds)) = Len(q.kinds) - 1
      /\ \A i \in 1..Len(Tail(q.kinds)) : Tail(q.kinds)[i] = q.kinds[i + 1]
  BY <1>1, <1>3
<1>5. Moving => people[q.person] > 0 /\ q.merged # q.person
  BY <1>1, <1>3, UnderwaySays DEF Moving, Underway
<1>6. /\ names' = [n \in Names |-> IF kind = "name" /\ n \in PR!NamesOf(q.merged)
                                   THEN [owner |-> q.person, primary |-> FALSE] ELSE names[n]]
      /\ IF PR!SaveFails(kind) /\ moved # {}
         THEN req' = [req EXCEPT ![r] = PR!Idle] /\ things' = things
         ELSE /\ req' = [req EXCEPT ![r].kinds = Tail(@)]
              /\ things' = [x \in Things |->
                   IF x \in moved
                   THEN [kind |-> kind, owner |-> q.person, file |-> PR!FileAfter(x, kind)]
                   ELSE things[x]]
  BY <1>1, <1>2 DEF PR!HandOver
<1>7. \A x \in moved : x \in Things /\ things[x] # PR!NoThing /\ things[x].kind = kind
                       /\ things[x].owner = q.merged
  BY <1>2, <1>4 DEF PR!ThingsOf, PR!NoThing, RecordKinds
<1>8. Moving => NamesOwned(names', people')
  <2> SUFFICES ASSUME Moving, NEW n \in Names
               PROVE  names'[n] = PR!NoName \/ (names'[n].owner \in Persons /\ people'[names'[n].owner] > 0)
    BY DEF NamesOwned
  <2>1. names'[n] = names[n] \/ names'[n].owner = q.person
    BY <1>6
  <2> QED
    BY <1>3, <1>5, <2>1 DEF Moving, NamesOwned
<1>9. CASE PR!SaveFails(kind) /\ moved # {}
  <2>1. PICK v : v = PR!Idle
    OBVIOUS
  <2>2. req' = [req EXCEPT ![r] = v] /\ things' = things
    BY <1>6, <1>9, <2>1
  <2>3. kind = "media"
    BY <1>9 DEF PR!SaveFails
  <2>4. ~ Moving
    BY <1>7, <1>9, <2>3 DEF Moving, ThingsOwned, Passing
  <2>5. things' = [x \in Things |-> things'[x]]
    BY <2>2 DEF MoveInv
  <2> QED
    BY <2>2, <2>4, <2>5, MoveStep
<1>10. CASE ~ (PR!SaveFails(kind) /\ moved # {})
  <2>1. PICK v : v = [q EXCEPT !.kinds = Tail(q.kinds)]
    OBVIOUS
  <2>2. req' = [req EXCEPT ![r] = v]
    BY <1>1, <1>3, <1>6, <1>10, <2>1 DEF NamesInv, NamesTypeInv
  <2>3. v.pc = "handOver" /\ v.person = q.person /\ v.merged = q.merged /\ v.kinds = Tail(q.kinds)
    BY <1>3, <2>1 DEF Handing
  <2>4. things' = [x \in Things |->
                   IF x \in moved
                   THEN [kind |-> kind, owner |-> q.person, file |-> PR!FileAfter(x, kind)]
                   ELSE things[x]]
    BY <1>6, <1>10
  <2>5. ASSUME NEW x \in Things
        PROVE  \/ things'[x] = things[x] /\ x \notin moved
               \/ x \in moved /\ things'[x].kind = kind /\ things'[x].owner = q.person
    BY <2>4
  <2>6. Moving => ThingsOwned(things', people')
    BY <1>3, <1>5, <1>7, <2>5 DEF Moving, ThingsOwned
  <2>7. ASSUME Moving, NEW x \in Things, things'[x] # PR!NoThing, things'[x].owner = q.merged
        PROVE  things'[x].kind \in Still(Tail(q.kinds)) \union {"association"}
    <3>1. things'[x] = things[x] /\ x \notin moved
      BY <1>5, <2>5, <2>7
    <3>2. things[x].kind # kind
      BY <1>2, <2>7, <3>1 DEF PR!ThingsOf
    <3>3. things[x].kind \in Still(q.kinds) \union {"association"}
      BY <1>1, <1>3, <2>7, <3>1 DEF Moving, Underway
    <3>4. CASE things[x].kind = "association"
      BY <3>1, <3>4
    <3>5. CASE things[x].kind \in Still(q.kinds)
      <4>1. PICK i \in 1..Len(q.kinds) : q.kinds[i] = things[x].kind
        BY <3>5 DEF Still
      <4>2. i # 1
        BY <1>1, <3>2, <4>1
      <4>3. i - 1 \in 1..Len(Tail(q.kinds)) /\ (i - 1) + 1 = i
        BY <1>4, <4>1, <4>2
      <4>4. Tail(q.kinds)[i - 1] = things[x].kind
        BY <1>4, <4>1, <4>3
      <4> QED
        BY <3>1, <4>3, <4>4 DEF Still
    <3> QED
      BY <3>3, <3>4, <3>5
  <2>8. Moving => Underway(v, things', people')
    BY <1>3, <1>5, <2>3, <2>7 DEF Underway
  <2>9. Moving => Gone(absorbed', people', v)
    BY <1>1, <1>3, <2>3 DEF Moving, Gone
  <2>10. things' = [x \in Things |-> things'[x]]
    BY <2>4
  <2> QED
    BY <1>8, <2>2, <2>6, <2>8, <2>9, <2>10, MoveStep
<1> QED
  BY <1>9, <1>10

\* The merged person owns nothing by then that does not end with it.
LEMMA DeleteMoves ==
  ASSUME NamesInv, MoveInv, NEW r \in setting.slots, PR!DeleteMerged(r), setting' = setting
  PROVE  MoveInv'
<1>1. PICK q : q = req[r]
  OBVIOUS
<1>2. /\ q.pc = "handOver" /\ q.kinds = <<>> /\ q.person \in Persons /\ q.merged \in Persons
      /\ people \in [Persons -> Nat]
  <2>1. r \in Slots /\ req[r] \in Requests /\ req[r].pc = "handOver" /\ req[r].kinds = <<>>
    BY DEF NamesInv, NamesTypeInv, PR!DeleteMerged
  <2>2. q \in Handing
    BY <1>1, <2>1, RequestKinds
  <2> QED
    BY <1>1, <2>1, <2>2 DEF Handing, NamesInv, NamesTypeInv
<1>3. /\ people' = [people EXCEPT ![q.merged] = 0]
      /\ names' = [n \in Names |-> IF n \in PR!NamesOf(q.merged) THEN PR!NoName ELSE names[n]]
      /\ things' = [x \in Things |->
           IF x \in PR!ThingsOf(q.merged, "attribute") \union PR!ThingsOf(q.merged, "association")
           THEN PR!NoThing ELSE things[x]]
      /\ absorbed' = absorbed
  BY <1>1 DEF PR!DeleteMerged, PR!log
<1>4. people'[q.merged] = 0 /\ \A p : p # q.merged => people'[p] = people[p]
  BY <1>2, <1>3
<1>5. PICK v : v = PR!Idle
  OBVIOUS
<1>6. req' = [req EXCEPT ![r] = v]
  BY <1>5 DEF PR!DeleteMerged
<1>7. Moving => NamesOwned(names', people')
  <2> SUFFICES ASSUME Moving, NEW n \in Names, names'[n] # PR!NoName
               PROVE  names'[n].owner \in Persons /\ people'[names'[n].owner] > 0
    BY DEF NamesOwned
  <2>1. names'[n] = names[n] /\ names[n].owner # q.merged
    BY <1>3 DEF PR!NamesOf
  <2> QED
    BY <1>4, <2>1 DEF Moving, NamesOwned
<1>8. Moving => ThingsOwned(things', people')
  <2> SUFFICES ASSUME Moving, NEW x \in Things, things'[x] # PR!NoThing
               PROVE  /\ things'[x].kind \in Passing /\ things'[x].owner \in Persons
                      /\ people'[things'[x].owner] > 0
    BY DEF ThingsOwned
  <2>1. things'[x] = things[x] /\ x \notin PR!ThingsOf(q.merged, "association")
    BY <1>3
  <2>2. Still(<<>>) = {}
    BY DEF Still
  <2>3. things[x].owner # q.merged
    BY <1>1, <1>2, <2>1, <2>2 DEF Moving, Underway, PR!ThingsOf
  <2> QED
    BY <1>4, <2>1, <2>3 DEF Moving, ThingsOwned
<1>9. Moving => Gone(absorbed', people', v)
  BY <1>1, <1>3, <1>4 DEF Moving, Gone
<1>10. v.pc = "idle" /\ v \notin Merging \union Handing
  BY <1>5 DEF PR!Idle, Merging, Handing
<1>11. Underway(v, things', people')
  BY <1>5, <1>10 DEF Underway
<1>12. things' = [x \in Things |-> things'[x]]
  BY <1>3
<1> QED
  BY <1>6, <1>7, <1>8, <1>9, <1>11, <1>12, MoveStep

\* A record created belongs to a person that lives and passes a merge.
LEMMA RecordMoves ==
  ASSUME OnlyPassing, NamesInv, MoveInv, NEW r \in setting.slots, PR!RecordThing(r), setting' = setting
  PROVE  MoveInv'
<1>1. PICK x \in Things, kind \in setting.kinds, p \in Persons :
        /\ req[r] = PR!Idle /\ people[p] > 0
        /\ things' = [things EXCEPT ![x] = [kind |-> kind, owner |-> p, file |-> kind = "media"]]
        /\ UNCHANGED <<people, PR!log, names, req>>
  BY DEF PR!RecordThing
<1>2. PICK v : v = PR!Idle
  OBVIOUS
<1>3. req' = [req EXCEPT ![r] = v] /\ UNCHANGED <<people, absorbed, names>>
  BY <1>1, <1>2 DEF NamesInv, NamesTypeInv, PR!log
<1>4. things = [y \in Things |-> things[y]]
  BY DEF MoveInv
<1>5. things' = [y \in Things |-> things'[y]]
  BY <1>1, <1>4
<1>6. \A y \in Things : \/ things'[y] = things[y]
                        \/ things'[y].kind = kind /\ things'[y].owner = p
  BY <1>1, <1>4
<1>7. PR!OneByOne => kind \in Passing
  BY DEF PR!OneByOne, OnlyPassing, MoveInv
<1>8. PR!OneByOne /\ Moving => ThingsOwned(things', people')
  BY <1>1, <1>3, <1>6, <1>7 DEF Moving, ThingsOwned
<1>9. v.pc = "idle" /\ v \notin Merging \union Handing
  BY <1>2 DEF PR!Idle, Merging, Handing
<1>10. Moving => NamesOwned(names', people') /\ Gone(absorbed', people', v)
  BY <1>1, <1>2, <1>3 DEF Moving, Gone
<1>11. Underway(v, things', people')
  BY <1>2, <1>9 DEF Underway
<1> QED
  BY <1>3, <1>5, <1>8, <1>10, <1>11, MoveStep

(***************************************************************************)
(* The second invariant, for every number of persons, names and records:   *)
(* with one request at a time a merge's projection is not disturbed, so    *)
(* what the merged person still owns is what is yet to be handed over.     *)
(***************************************************************************)
THEOREM MoveInvariant ==
  ASSUME PR!SlotsInUse, OnlyPassing
  PROVE  PR!Spec => []MoveInv
<1>1. PR!Init => MoveInv
  <2> SUFFICES ASSUME PR!Init PROVE MoveInv
    OBVIOUS
  <2>1. setting \in PersonSettings /\ PR!IsFiniteSet(setting.slots) /\ setting.slots \subseteq Slots
    BY PR!SlotsInUse DEF PR!Init, PR!SlotsInUse
  <2>2. \A r \in Slots : req[r] = PR!Idle
    BY DEF PR!Init
  <2>3. NamesOwned(names, people) /\ ThingsOwned(things, people)
        /\ things = [x \in Things |-> things[x]]
    BY DEF PR!Init, NamesOwned, ThingsOwned
  <2>4. PR!Idle.pc = "idle" /\ PR!Idle \notin Merging \union Handing
    BY DEF PR!Idle, Merging, Handing
  <2>5. Underway(PR!Idle, things, people)
    BY <2>4 DEF Underway
  <2>6. Gone(absorbed, people, PR!Idle)
    BY DEF PR!Init, Gone
  <2> QED
    BY <2>1, <2>2, <2>3, <2>5, <2>6 DEF MoveInv, Quiet, Moving
<1>2. NamesInv /\ MoveInv /\ [PR!Next]_(PR!vars) => MoveInv'
  <2> SUFFICES ASSUME NamesInv, MoveInv, [PR!Next]_(PR!vars)
               PROVE  MoveInv'
    OBVIOUS
  <2>1. CASE UNCHANGED PR!vars
    BY <2>1 DEF PR!vars, PR!log, MoveInv, Quiet, PR!OneByOne, Moving
  <2>2. ASSUME NEW r \in setting.slots, PR!Step(r), setting' = setting
        PROVE  MoveInv'
    <3>1. CASE \/ PR!AddName(r) \/ PR!UpdateName(r) \/ PR!DeleteName(r) \/ PR!MergePersons(r)
               \/ PR!DecideAdd(r) \/ PR!DecideUpdate(r) \/ PR!DecideRemove(r)
      BY <2>2, <3>1, DecideMoves
    <3>2. CASE PR!AppendEvents(r)
      BY <2>2, <3>2, AppendMoves
    <3>3. CASE PR!ProjectName(r) \/ PR!ReadForVersion(r) \/ PR!SaveVersion(r)
      BY <2>2, <3>3, NameMoves
    <3>4. CASE PR!SaveSurvivor(r)
      BY <2>2, <3>4, SurvivorMoves
    <3>5. CASE PR!HandOver(r)
      BY <2>2, <3>5, HandOverMoves
    <3>6. CASE PR!DeleteMerged(r)
      BY <2>2, <3>6, DeleteMoves
    <3>7. CASE PR!RecordThing(r)
      BY OnlyPassing, <2>2, <3>7, RecordMoves
    <3> QED
      BY <2>2, <3>1, <3>2, <3>3, <3>4, <3>5, <3>6, <3>7 DEF PR!Step
  <2> QED
    BY <2>1, <2>2 DEF PR!Next
<1> QED
  BY <1>1, <1>2, NamesInvariant, PTL DEF PR!Spec

(***************************************************************************)
(* Between merges that come one by one, a merged person is gone, and what  *)
(* was recorded of anyone belongs to a person that lives.                  *)
(***************************************************************************)
THEOREM MergeMovesKept ==
  ASSUME PR!SlotsInUse, OnlyPassing
  PROVE  PR!Spec => []PR!MergeMovesAll
<1>1. NamesInv /\ MoveInv => PR!MergeMovesAll
  <2> SUFFICES ASSUME NamesInv, MoveInv, PR!OneByOne, PR!AtRest
               PROVE  /\ \A p \in absorbed : people[p] = 0
                      /\ \A n \in Names : names[n] # PR!NoName => people[names[n].owner] > 0
                      /\ \A x \in Things : things[x] # PR!NoThing =>
                           people[things[x].owner] > 0 /\ (things[x].kind = "media" => things[x].file)
    BY DEF PR!MergeMovesAll
  <2>1. Moving /\ PR!IsFiniteSet(setting.slots) /\ setting.slots \subseteq Slots
    BY DEF MoveInv, NamesInv, NamesTypeInv
  <2>2. \E r : setting.slots = {r}
    BY <2>1, FS_Singleton, SameSizes DEF PR!OneByOne
  <2>3. PICK r \in setting.slots : req[r] = PR!Idle
    BY <2>1, <2>2 DEF PR!AtRest
  <2>4. Gone(absorbed, people, PR!Idle) /\ PR!Idle.pc = "idle"
    BY <2>1, <2>3 DEF Moving, PR!Idle
  <2>5. "media" \notin Passing
    BY DEF Passing
  <2> QED
    BY <2>1, <2>4, <2>5 DEF Gone, Moving, NamesOwned, ThingsOwned
<1> QED
  BY <1>1, NamesInvariant, MoveInvariant, PTL

-----------------------------------------------------------------------------
(* The parts together: a behaviour of Records is one of its part.          *)

\* The part a behaviour is of.
Of(p) == part = p

(***************************************************************************)
(* A behaviour stays with its part.                                        *)
(***************************************************************************)
LEMMA PartStays ==
  ASSUME NEW p
  PROVE  /\ Of(p) /\ [Next]_vars => Of(p)'
         /\ ~Of(p) /\ [Next]_vars => (~Of(p))'
BY DEF Of, Next, vars

(***************************************************************************)
(* A behaviour of the part "citations" is one of SourceCitations.          *)
(***************************************************************************)
LEMMA CitationsPart == Spec /\ Of("citations") => SC!Spec
<1>1. Init /\ Of("citations") => SC!Init
  BY DEF Init, Of
<1>2. Of("citations") /\ [Next]_vars => [SC!Next]_(SC!vars)
  BY DEF Of, Next, vars, shared, sourceVars, SC!vars
<1>3. Of("citations") /\ [Next]_vars => Of("citations")'
  BY PartStays
<1> QED
  BY <1>1, <1>2, <1>3, PTL DEF Spec, SC!Spec

(***************************************************************************)
(* A behaviour of the part "evidence" is one of EvidenceConflicts.         *)
(***************************************************************************)
LEMMA EvidencePart == Spec /\ Of("evidence") => EC!Spec
<1>1. Init /\ Of("evidence") => EC!Init
  BY DEF Init, Of
<1>2. Of("evidence") /\ [Next]_vars => [EC!Next]_(EC!vars)
  BY DEF Of, Next, vars, shared, evidenceVars, EC!vars
<1>3. Of("evidence") /\ [Next]_vars => Of("evidence")'
  BY PartStays
<1> QED
  BY <1>1, <1>2, <1>3, PTL DEF Spec, EC!Spec

(***************************************************************************)
(* A behaviour of the part "fields" is one of FieldChanges.                *)
(***************************************************************************)
LEMMA FieldsPart == Spec /\ Of("fields") => FC!Spec
<1>1. Init /\ Of("fields") => FC!Init
  BY DEF Init, Of
<1>2. Of("fields") /\ [Next]_vars => [FC!Next]_(FC!vars)
  BY DEF Of, Next, vars, fieldVars, FC!vars
<1>3. Of("fields") /\ [Next]_vars => Of("fields")'
  BY PartStays
<1> QED
  BY <1>1, <1>2, <1>3, PTL DEF Spec, FC!Spec

(***************************************************************************)
(* A behaviour of the part "lists" is one of Listings.                     *)
(***************************************************************************)
LEMMA ListsPart == Spec /\ Of("lists") => LS!Spec
<1>1. Init /\ Of("lists") => LS!Init
  BY DEF Init, Of
<1>2. Of("lists") /\ [Next]_vars => [LS!Next]_(LS!vars)
  BY DEF Of, Next, vars, listVars, LS!vars
<1>3. Of("lists") /\ [Next]_vars => Of("lists")'
  BY PartStays
<1> QED
  BY <1>1, <1>2, <1>3, PTL DEF Spec, LS!Spec

(***************************************************************************)
(* A behaviour of the part "pages", or of the part "snapshots", is one of  *)
(* History.                                                                *)
(***************************************************************************)
LEMMA HistoryPart ==
  ASSUME NEW p \in {"pages", "snapshots"}
  PROVE  Spec /\ Of(p) => HI!Spec
<1>1. Init /\ Of(p) => HI!Init
  BY DEF Init, Of
<1>2. Of(p) /\ [Next]_vars => [HI!Next]_(HI!vars)
  <2> SUFFICES ASSUME part = p, [Next]_vars
               PROVE  [HI!Next]_(HI!vars)
    BY DEF Of
  <2>1. CASE UNCHANGED vars
    BY <2>1 DEF vars, historyVars, HI!vars
  <2>2. CASE Next
    <3>1. HI!Writing \/ HI!Paging \/ HI!Marking
      BY <2>2 DEF Next
    <3> QED
      BY <3>1 DEF HI!Next
  <2> QED
    BY <2>1, <2>2
<1>3. Of(p) /\ [Next]_vars => Of(p)'
  BY PartStays
<1> QED
  BY <1>1, <1>2, <1>3, PTL DEF Spec, HI!Spec

(***************************************************************************)
(* A behaviour of the part "people" is one of PersonRecords.               *)
(***************************************************************************)
LEMMA PeoplePart == Spec /\ Of("people") => PR!Spec
<1>1. Init /\ Of("people") => PR!Init
  BY DEF Init, Of
<1>2. Of("people") /\ [Next]_vars => [PR!Next]_(PR!vars)
  BY DEF Of, Next, vars, shared, personVars, PR!vars, PR!log
<1>3. Of("people") /\ [Next]_vars => Of("people")'
  BY PartStays
<1> QED
  BY <1>1, <1>2, <1>3, PTL DEF Spec, PR!Spec

-----------------------------------------------------------------------------
(* What the behaviours of Records keep.                                    *)

(***************************************************************************)
(* Between requests that come one by one, every citation's source exists   *)
(* and counts its citations; however they race, a citation's row ends at   *)
(* its stream's version.                                                   *)
(***************************************************************************)
THEOREM CitationsAddUpHolds == Spec => []CitationsAddUp
<1>1. SC!Spec => []RaceInv
  BY SlotsBound, SourceIds, RaceInvariant
<1>2. SC!Spec => []CountsTally
  BY SlotsBound, SourceIds, TallyInvariant
<1>3. RaceInv /\ CountsTally => CitationsAddUp
  BY RestFollows, RestCounts DEF CitationsAddUp
<1>4. ~Of("citations") => CitationsAddUp
  BY DEF CitationsAddUp, Of
<1>5. ~Of("citations") /\ [Next]_vars => (~Of("citations"))'
  BY PartStays
<1> QED
  BY <1>1, <1>2, <1>3, <1>4, <1>5, CitationsPart, PTL DEF Spec

(***************************************************************************)
(* A person never has two primary names.                                   *)
(***************************************************************************)
THEOREM OnePrimaryNameHolds == Spec => []OnePrimaryName
<1>1. PR!Spec => []PR!OnePrimaryName
  BY SlotsBound, OnePrimaryKept
<1>2. PR!OnePrimaryName => OnePrimaryName
  BY DEF OnePrimaryName
<1>3. ~Of("people") => OnePrimaryName
  BY DEF OnePrimaryName, Of
<1>4. ~Of("people") /\ [Next]_vars => (~Of("people"))'
  BY PartStays
<1> QED
  BY <1>1, <1>2, <1>3, <1>4, PeoplePart, PTL DEF Spec

(***************************************************************************)
(* Where merges come one by one and no media is recorded, which does not   *)
(* pass a merge, everything recorded of the merged person belongs to the   *)
(* survivor afterwards.                                                    *)
(***************************************************************************)
THEOREM MergeMovesAllHolds ==
  ASSUME OnlyPassing
  PROVE  Spec => []MergeMovesAll
<1>1. PR!Spec => []PR!MergeMovesAll
  BY SlotsBound, OnlyPassing, MergeMovesKept
<1>2. PR!MergeMovesAll => MergeMovesAll
  BY DEF MergeMovesAll
<1>3. ~Of("people") => MergeMovesAll
  BY DEF MergeMovesAll, Of
<1>4. ~Of("people") /\ [Next]_vars => (~Of("people"))'
  BY PartStays
<1> QED
  BY <1>1, <1>2, <1>3, <1>4, PeoplePart, PTL DEF Spec

(***************************************************************************)
(* Once requests are done, analyses that disagree have an open conflict,   *)
(* one if requests come one by one.                                        *)
(***************************************************************************)
THEOREM DisagreementIsOpenHolds == Spec => []DisagreementIsOpen
<1>1. EC!Spec => []EC!DisagreementIsOpen
  BY SlotsBound, EvidenceDisagreement
<1>2. EC!DisagreementIsOpen => DisagreementIsOpen
  BY DEF DisagreementIsOpen
<1>3. ~Of("evidence") => DisagreementIsOpen
  BY DEF DisagreementIsOpen, Of
<1>4. ~Of("evidence") /\ [Next]_vars => (~Of("evidence"))'
  BY PartStays
<1> QED
  BY <1>1, <1>2, <1>3, <1>4, EvidencePart, PTL DEF Spec

(***************************************************************************)
(* A field's row is rebuilt from the log as the live projections left it,  *)
(* where its values' types allow it.                                       *)
(***************************************************************************)
THEOREM RowIsRebuiltHolds == Spec => []RowIsRebuilt
<1>1. FC!Spec => []FieldInv
  BY FieldsKnown, FieldInvariant
<1>2. FieldInv => RowIsRebuilt
  BY DEF FieldInv, RowIsRebuilt, FC!RowIsRebuilt
<1>3. ~Of("fields") => RowIsRebuilt
  BY DEF RowIsRebuilt, Of
<1>4. ~Of("fields") /\ [Next]_vars => (~Of("fields"))'
  BY PartStays
<1> QED
  BY <1>1, <1>2, <1>3, <1>4, FieldsPart, PTL DEF Spec

(***************************************************************************)
(* A field's row shows what the fold for a rollback ends in.               *)
(***************************************************************************)
THEOREM RowShowsHistoryHolds == Spec => []RowShowsHistory
<1>1. FC!Spec => []FieldInv
  BY FieldsKnown, FieldInvariant
<1>2. FieldInv => RowShowsHistory
  BY DEF FieldInv, RowShowsHistory, FC!RowShowsHistory
<1>3. ~Of("fields") => RowShowsHistory
  BY DEF RowShowsHistory, Of
<1>4. ~Of("fields") /\ [Next]_vars => (~Of("fields"))'
  BY PartStays
<1> QED
  BY <1>1, <1>2, <1>3, <1>4, FieldsPart, PTL DEF Spec

(***************************************************************************)
(* A reader that pages through a list whose ties are broken misses no row  *)
(* that nobody moved.                                                      *)
(***************************************************************************)
THEOREM WalkIsCompleteHolds == Spec => []WalkIsComplete
<1>1. LS!Spec => []WalkInv
  BY Numbers, WalkInvariant
<1>2. WalkInv => WalkIsComplete
  BY DEF WalkInv, WalkIsComplete
<1>3. ~Of("lists") => WalkIsComplete
  BY DEF WalkIsComplete, Of
<1>4. ~Of("lists") /\ [Next]_vars => (~Of("lists"))'
  BY PartStays
<1> QED
  BY <1>1, <1>2, <1>3, <1>4, ListsPart, PTL DEF Spec

(***************************************************************************)
(* What History's invariant says holds in each of its two parts.           *)
(***************************************************************************)
LEMMA HistoryHolds ==
  ASSUME NEW p \in {"pages", "snapshots"}
  PROVE  Spec /\ Of(p) => []HistoryInv
<1>1. HI!Spec => []HistoryInv
  BY Numbers, NoStream, HistoryInvariant DEF HistoryConstants
<1>2. Spec /\ Of(p) => HI!Spec
  BY HistoryPart
<1> QED
  BY <1>1, <1>2, PTL

(***************************************************************************)
(* A pager of an entity shows the beginning of its mainline history, all   *)
(* that was there when it began once it offers no more, whatever is written *)
(* between its pages.                                                      *)
(***************************************************************************)
THEOREM EntityWalkIsPrefixHolds == Spec => []EntityWalkIsPrefix
<1>1. Spec /\ Of("pages") => []HistoryInv
  BY HistoryHolds
<1>2. HistoryInv => EntityWalkIsPrefix
  BY Numbers, NoStream, HistoryShows DEF HistoryConstants, EntityWalkIsPrefix
<1>3. ~Of("pages") => EntityWalkIsPrefix
  BY DEF EntityWalkIsPrefix, Of
<1>4. ~Of("pages") /\ [Next]_vars => (~Of("pages"))'
  BY PartStays
<1> QED
  BY <1>1, <1>2, <1>3, <1>4, PTL DEF Spec

(***************************************************************************)
(* A pager of everything that offers no more has shown all that was there  *)
(* when it began, in each store's order, though events dated in the past   *)
(* shift its pages.                                                        *)
(***************************************************************************)
THEOREM GlobalWalkMissesNothingHolds == Spec => []GlobalWalkMissesNothing
<1>1. Spec /\ Of("pages") => []HistoryInv
  BY HistoryHolds
<1>2. HistoryInv => GlobalWalkMissesNothing
  BY Numbers, NoStream, HistoryShows DEF HistoryConstants, GlobalWalkMissesNothing
<1>3. ~Of("pages") => GlobalWalkMissesNothing
  BY DEF GlobalWalkMissesNothing, Of
<1>4. ~Of("pages") /\ [Next]_vars => (~Of("pages"))'
  BY PartStays
<1> QED
  BY <1>1, <1>2, <1>3, <1>4, PTL DEF Spec

(***************************************************************************)
(* A comparison shows only what lies between its two snapshots, and all of *)
(* it when it claims to be whole.                                          *)
(***************************************************************************)
THEOREM WholeComparisonHolds == Spec => []WholeComparison
<1>1. Spec /\ Of("snapshots") => []HistoryInv
  BY HistoryHolds
<1>2. HistoryInv => WholeComparison
  BY Numbers, NoStream, HistoryShows DEF HistoryConstants, WholeComparison
<1>3. ~Of("snapshots") => WholeComparison
  BY DEF WholeComparison, Of
<1>4. ~Of("snapshots") /\ [Next]_vars => (~Of("snapshots"))'
  BY PartStays
<1> QED
  BY <1>1, <1>2, <1>3, <1>4, PTL DEF Spec

=============================================================================
