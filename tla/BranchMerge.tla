---------------------------- MODULE BranchMerge -----------------------------
(***************************************************************************)
(* The life of a research branch: CreateBranch, edits on the branch and on *)
(* main, MergeBranch and DeleteBranch, as concurrent requests              *)
(* (internal/command/branch_commands.go, branch_merge_commands.go,         *)
(* internal/query/merge_conflicts.go, internal/api/branch_handlers.go).    *)
(*                                                                         *)
(* Each store call is atomic (the stores lock per call), a request is not: *)
(* it takes one step per call, and anything may happen between two of its  *)
(* steps.  A request may also stop after any step (Fail): a store error, a *)
(* cancelled context, a crash.  What it wrote stays.                       *)
(*                                                                         *)
(* Main's read-model rows are taken to be what main's log says; that they  *)
(* are is CommandExec's subject.  Hence a mainline write is one step.      *)
(*                                                                         *)
(* Not here: notes and descriptions, MergedAtPosition (recorded, never     *)
(* tested), and xrefs on branch creations: without branch-scoped import    *)
(* the create-vs-create gate never opens (merge_conflicts.go:258-262).     *)
(***************************************************************************)
EXTENDS MergeConflicts

CONSTANTS
  Branches,    \* branch ids; a branch's id is also its lifecycle stream
  Streams,     \* aggregates
  Histories,   \* what may have been written before: sequences of writes, each
               \* a [stream, branch, body] record
  Births,      \* for each aggregate, the Created bodies it may start with
  MainEdits, BranchEdits,   \* for each aggregate, what a later write may say
  Creators, Editors, Mergers, Deleters,   \* request slots, by kind
  NoBase,      \* the base position of a branch that does not exist
  EventCap,    \* query.maxComparisonEvents
  MaxLog       \* bound: length of the log

ASSUME BranchesApart == Main \notin Branches /\ Branches \intersect Streams = {}

ASSUME CapIsPositive == EventCap \in Nat \ {0}

\* A position is a number, which the missing base is not.
ASSUME NoBaseApart == NoBase \notin Nat

\* An aggregate begins with its Created event.
ASSUME BodiesTyped ==
  \A s \in Streams :
    /\ \A w \in Births[s] : "type" \in DOMAIN w /\ w.type = "Created"
    /\ \A w \in MainEdits[s] \union BranchEdits[s] : "type" \in DOMAIN w

(***************************************************************************)
(* A history is one that the program writes, up to no merge: a branch is   *)
(* opened once, and written to after that; it writes to nothing that main  *)
(* had deleted by then, and what main does not have is one branch's.       *)
(***************************************************************************)
Opening(h, i) ==
  /\ h[i].stream \in Branches /\ h[i].branch = h[i].stream
  /\ \A j \in DOMAIN h : h[j].stream = h[i].stream => j = i

OnBranch(h, i) ==
  /\ h[i].stream \in Streams /\ h[i].branch \in Branches
  /\ \E o \in 1..i : /\ h[o].stream = h[i].branch
                     /\ \A j \in 1..o : h[j].stream = h[i].stream /\ h[j].branch = Main
                                         => h[j].body.type # "Deleted"
  /\ \A j \in DOMAIN h : h[j].stream = h[i].stream =>
       \/ h[j].branch = h[i].branch
       \/ \E k \in DOMAIN h : h[k].stream = h[i].stream /\ h[k].branch = Main

ASSUME HistoriesWritten ==
  \A h \in Histories :
    /\ Len(h) \in Nat /\ DOMAIN h = 1..Len(h)
    /\ \A i \in 1..Len(h) :
         /\ "type" \in DOMAIN h[i].body /\ h[i].body.type # "BranchMerged"
         /\ \/ Opening(h, i)
            \/ h[i].stream \in Streams /\ h[i].branch = Main
            \/ OnBranch(h, i)

Requests == Creators \union Editors \union Mergers \union Deleters

VARIABLES
  log,         \* the event log
  base,        \* BasePosition of each branch's BranchCreated
  registry,    \* the branch registry: each branch's status, "none" before its row
  rows,        \* overlay rows of each branch: 0 none, Tombstone, or a version
  req          \* what each request slot is doing, with its local variables

vars == <<log, base, registry, rows, req>>

Tombstone == -1
Idle == [pc |-> "idle"]
Resolutions == UNION {[S -> {"branch", "main"}] : S \in SUBSET Streams}

\* A payload as stored: `from' remembers which branch event it replays, if any.
Payload(body, from) ==
  [x \in DOMAIN body \union {"from"} |-> IF x = "from" THEN from ELSE body[x]]
Lifecycle(type) == [type |-> type]

-----------------------------------------------------------------------------
(* The start: an earlier history, all of it projected.                     *)

\* The base of a branch a history opened: the head it was created at.
BaseIn(history, b) ==
  IF \E i \in DOMAIN history : history[i].stream = b
  THEN (CHOOSE i \in DOMAIN history : history[i].stream = b) - 1
  ELSE NoBase

\* The log a history leaves: every write appended as the store appends it.
Written(history) ==
  LET written[i \in 0..Len(history)] ==
        IF i = 0 THEN <<>>
        ELSE LET l == written[i - 1]
                 w == history[i]
                 from == IF w.branch \in {Main, w.stream} THEN 0 ELSE BaseIn(history, w.branch)
             IN  l \o Stored(l, w.stream, w.branch,
                             CurrentVersion(l, StreamVersion(l, w.stream, w.branch),
                                            w.stream, w.branch, from),
                             <<Payload(w.body, 0)>>)
  IN  written[Len(history)]

\* The first states.
Init ==
  \E history \in Histories :
    /\ log = Written(history)
    /\ base = [b \in Branches |-> BaseIn(history, b)]
    /\ registry = [b \in Branches |-> IF base[b] = NoBase THEN "none" ELSE "active"]
    /\ rows = [b \in Branches |-> [s \in Streams |->
                IF \E e \in OwnEvents(log, s, b) : e.body.type = "Deleted" THEN Tombstone
                ELSE StreamVersion(log, s, b)]]
    /\ req = [r \in Requests |-> Idle]

-----------------------------------------------------------------------------
(* The stores.                                                             *)

\* The version line an Append to (s, b) continues.
Current(s, b) ==
  CurrentVersion(log, StreamVersion(log, s, b), s, b, IF b = Main THEN 0 ELSE base[b])

\* An accepted Append.
AppendTo(s, b, batch, expected) ==
  /\ Accepts(expected, Current(s, b))
  /\ Len(log) + Len(batch) <= MaxLog
  /\ log' = log \o Stored(log, s, b, Current(s, b), batch)

Refused(s, b, expected) == ~Accepts(expected, Current(s, b))

Goto(r, pc) == req' = [req EXCEPT ![r].pc = pc]
Return(r)   == req' = [req EXCEPT ![r] = Idle]

\* Main's row of an aggregate: there from its first event to its delete.
MainHas(s) ==
  LET own == OwnEvents(log, s, Main)
  IN  own # {} /\ \A e \in own : e.body.type # "Deleted"

\* A branch sees its own row, or main's where it has none.
BranchSees(b, s) == IF rows[b][s] = 0 THEN MainHas(s) ELSE rows[b][s] # Tombstone
RowVersion(b, s) == IF rows[b][s] = 0 THEN StreamVersion(log, s, Main) ELSE rows[b][s]

\* What a branch shows of an aggregate: main as of the fork and its own events
\* once it has a row of its own, main as it is now before that.
View(b, s) ==
  SelectSeq(log, LAMBDA e : /\ e.stream = s
                            /\ \/ e.branch = Main /\ (b # Main => (rows[b][s] = 0 \/ e.position <= base[b]))
                               \/ e.branch = b)

\* The persons a family's events leave it pointing at.
Partners(events) ==
  UNION {events[i].body.partners : i \in {j \in DOMAIN events : events[j].body.type = "Created"}}

Children(events) ==
  {events[i].body.child : i \in {j \in DOMAIN events :
     /\ events[j].body.type = "ChildLinked"
     /\ \A k \in DOMAIN events :
          k > j /\ events[k].body.type = "ChildUnlinked" => events[k].body.child # events[j].body.child}}

Shows(b, s) == IF b = Main THEN MainHas(s) ELSE BranchSees(b, s)

(***************************************************************************)
(* What the commands check before they write `body' to s in scope b:       *)
(* CreateFamily its partners, LinkChild that the child exists and is in no *)
(* family, DeletePerson and DeleteFamily that nothing is linked.           *)
(***************************************************************************)
Admissible(b, s, body) ==
  CASE body.type = "Created"       -> \A p \in body.partners : Shows(b, p)
    [] body.type = "ChildLinked"   -> /\ Shows(b, body.child)
                                      /\ \A f \in Streams :
                                           Shows(b, f) => body.child \notin Children(View(b, f))
    [] body.type = "ChildUnlinked" -> body.child \in Children(View(b, s))
    [] body.type = "Deleted"       -> /\ Children(View(b, s)) = {}
                                      /\ \A f \in Streams :
                                           Shows(b, f) => s \notin Partners(View(b, f)) \union Children(View(b, f))
    [] OTHER -> TRUE

Purged(b) == rows' = [rows EXCEPT ![b] = [s \in Streams |-> 0]]

-----------------------------------------------------------------------------
(* CreateBranch: read the head, append BranchCreated, project it.          *)

BeginCreate(c, b) ==
  /\ req[c] = Idle /\ base[b] = NoBase
  /\ \A d \in Creators : req[d] # Idle => req[d].branch # b
  /\ req' = [req EXCEPT ![c] = [pc |-> "created", branch |-> b, head |-> Len(log)]]
  /\ UNCHANGED <<log, base, registry, rows>>

AppendCreated(c) ==
  LET b == req[c].branch IN
  /\ req[c].pc = "created"
  /\ Len(log) < MaxLog
  /\ log' = log \o Stored(log, b, b, 0, <<Payload(Lifecycle("BranchCreated"), 0)>>)
  /\ base' = [base EXCEPT ![b] = req[c].head]
  /\ Goto(c, "register")
  /\ UNCHANGED <<registry, rows>>

RegisterBranch(c) ==
  /\ req[c].pc = "register"
  /\ registry' = [registry EXCEPT ![req[c].branch] = "active"]
  /\ Return(c)
  /\ UNCHANGED <<log, base, rows>>

-----------------------------------------------------------------------------
(* Writes.                                                                 *)

\* A whole mainline command: an aggregate's first event, or its next.
MainWrite(s) ==
  /\ \/ /\ \A e \in EventsOf(log) : e.stream # s
        /\ \E body \in {w \in Births[s] : Admissible(Main, s, w)} :
             AppendTo(s, Main, <<Payload(body, 0)>>, -1)
     \/ /\ MainHas(s)
        /\ \E body \in {w \in MainEdits[s] : Admissible(Main, s, w)} :
             AppendTo(s, Main, <<Payload(body, 0)>>, StreamVersion(log, s, Main))
  /\ UNCHANGED <<base, registry, rows, req>>

\* resolveBranchScope: writes are admitted while the registry says active.
BeginEdit(e, b) ==
  /\ req[e] = Idle /\ registry[b] = "active"
  /\ req' = [req EXCEPT ![e] = [pc |-> "load", branch |-> b]]
  /\ UNCHANGED <<log, base, registry, rows>>

\* The command reads the row it will change, and its version.
LoadRow(e, s) ==
  LET b == req[e].branch IN
  /\ req[e].pc = "load"
  /\ BranchSees(b, s)
  /\ \E body \in {w \in BranchEdits[s] : Admissible(b, s, w)} :
       req' = [req EXCEPT ![e] = [pc |-> "append", branch |-> b, stream |-> s,
                                  body |-> body, expected |-> RowVersion(b, s)]]
  /\ UNCHANGED <<log, base, registry, rows>>

\* A create needs no row: its aggregate id is new.
NewAggregate(e, s) ==
  /\ req[e].pc = "load"
  /\ \A ev \in EventsOf(log) : ev.stream # s
  /\ \E body \in {w \in Births[s] : Admissible(req[e].branch, s, w)} :
       req' = [req EXCEPT ![e] = [pc |-> "append", branch |-> req[e].branch, stream |-> s,
                                  body |-> body, expected |-> -1]]
  /\ UNCHANGED <<log, base, registry, rows>>

AppendEdit(e) ==
  LET r == req[e] IN
  /\ r.pc = "append"
  /\ r.body.type = "Created" => \A ev \in EventsOf(log) : ev.stream # r.stream
  /\ AppendTo(r.stream, r.branch, <<Payload(r.body, 0)>>, r.expected)
  /\ req' = [req EXCEPT ![e] = [pc |-> "project", branch |-> r.branch, stream |-> r.stream,
                                row |-> IF r.body.type = "Deleted" THEN Tombstone
                                        ELSE Current(r.stream, r.branch) + 1]]
  /\ UNCHANGED <<base, registry, rows>>

RefuseEdit(e) ==
  /\ req[e].pc = "append"
  /\ Refused(req[e].stream, req[e].branch, req[e].expected)
  /\ Return(e)
  /\ UNCHANGED <<log, base, registry, rows>>

ProjectEdit(e) ==
  /\ req[e].pc = "project"
  /\ rows' = [rows EXCEPT ![req[e].branch][req[e].stream] = req[e].row]
  /\ Return(e)
  /\ UNCHANGED <<log, base, registry>>

-----------------------------------------------------------------------------
(* DeleteBranch.                                                           *)

BeginDelete(d, b) ==
  /\ req[d] = Idle /\ registry[b] = "active"
  /\ req' = [req EXCEPT ![d] = [pc |-> "version", branch |-> b]]
  /\ UNCHANGED <<log, base, registry, rows>>

ReadDeleteVersion(d) ==
  LET b == req[d].branch IN
  /\ req[d].pc = "version"
  /\ req' = [req EXCEPT ![d] = [pc |-> "delete", branch |-> b,
                                version |-> StreamVersion(log, b, b)]]
  /\ UNCHANGED <<log, base, registry, rows>>

AppendDelete(d) ==
  LET r == req[d] IN
  /\ r.pc = "delete"
  /\ \/ /\ AppendTo(r.branch, r.branch, <<Payload(Lifecycle("BranchDeleted"), 0)>>, r.version)
        /\ Goto(d, "archive")
     \/ /\ Refused(r.branch, r.branch, r.version)
        /\ Return(d)
        /\ UNCHANGED log
  /\ UNCHANGED <<base, registry, rows>>

\* projectBranchDeleted: the status, then the overlay.
Archive(d) ==
  /\ req[d].pc = "archive"
  /\ registry' = [registry EXCEPT ![req[d].branch] = "archived"]
  /\ Goto(d, "drop")
  /\ UNCHANGED <<log, base, rows>>

DropOverlay(d) ==
  /\ req[d].pc = "drop"
  /\ Purged(req[d].branch)
  /\ Return(d)
  /\ UNCHANGED <<log, base, registry>>

-----------------------------------------------------------------------------
(* MergeBranch: the plan.                                                  *)

\* The branch's genealogy events: its lifecycle events are not replayed.
Genealogy(events) == OnlyIn(events, {e \in EventsOf(events) : e.stream \notin Branches})

\* branchStreamIDs: distinct streams in first-touch order.
FirstTouch(events) ==
  LET firsts == OnlyIn(events, {events[i] : i \in {j \in DOMAIN events :
                  \A k \in DOMAIN events : k < j => events[k].stream # events[j].stream}})
  IN  [i \in DOMAIN firsts |-> firsts[i].stream]

\* Mutant: a full page is taken for the last one.
TruncatedBeyond(events) == Len(events) > EventCap

\* A full page is taken for a partial read.
Truncated(events) == Len(events) >= EventCap

BeginMerge(m, b) ==
  /\ req[m] = Idle /\ registry[b] = "active"
  /\ req' = [req EXCEPT ![m] = [pc |-> "plan", branch |-> b]]
  /\ UNCHANGED <<log, base, registry, rows>>

\* loadBranchSide.
LoadBranchSide(m) ==
  LET b == req[m].branch
      raw == ReadBranch(log, b, base[b], EventCap)
  IN  /\ req[m].pc = "plan"
      /\ req' = [req EXCEPT ![m] = [pc |-> "pin", branch |-> b, replay |-> Genealogy(raw),
                                    truncated |-> Truncated(raw), pins |-> <<>>,
                                    planned |-> Len(log),
                                    todo |-> FirstTouch(Genealogy(raw))]]
      /\ UNCHANGED <<log, base, registry, rows>>

\* captureMainStreamVersions, one stream at a time.
PinStream(m) ==
  LET r == req[m]
      s == Head(r.todo)
  IN  /\ r.pc = "pin" /\ r.todo # <<>>
      /\ req' = [req EXCEPT ![m].pins = [t \in DOMAIN r.pins \union {s} |->
                                            IF t = s THEN StreamVersion(log, s, Main) ELSE r.pins[t]],
                            ![m].todo = Tail(@)]
      /\ UNCHANGED <<log, base, registry, rows>>

\* loadMainSide, after the pins: main's events on the branch's streams.
LoadMainSide(m) ==
  LET r == req[m]
      tail == ReadStreamsForBranch(log, StreamsOf(r.replay), Main, base[r.branch], EventCap)
  IN  /\ r.pc = "pin" /\ r.todo = <<>>
      /\ req' = [req EXCEPT ![m] =
                   [pc |-> "judge", branch |-> r.branch, replay |-> r.replay, pins |-> r.pins,
                    truncated |-> r.truncated \/ Truncated(tail), tail |-> tail,
                    planned |-> r.planned]]
      /\ UNCHANGED <<log, base, registry, rows>>

-----------------------------------------------------------------------------
(* MergeBranch: the caller's resolutions against the plan.                 *)

Conflicts(r) == ClassifyConflicts(r.replay, r.tail, <<>>)

ResolvedToMain(res, s) == s \in DOMAIN res /\ res[s] = "main"

\* The streams the merge will replay, in the branch's first-touch order.
ToReplay(r, res) ==
  OnlyIn(FirstTouch(r.replay), {s \in StreamsOf(r.replay) : ~ResolvedToMain(res, s)})

\* validateResolutions, validateConflictResolutions and unresolvedConflicts.
Decided(r, res) ==
  /\ DOMAIN res \subseteq StreamsOf(r.replay)
  /\ \A c \in Conflicts(r) : c.stream \in DOMAIN res /\ res[c.stream] \in c.supported

\* Mutant: only explicit conflicts are looked at, never the links.
NoLinks(r, res) == {}

(***************************************************************************)
(* The children that replayed events link and the replay does not bring    *)
(* along: main must have them (validateNoDanglingReferences).              *)
(***************************************************************************)
LinksToCheck(r, res) ==
  LET replayed == {s \in StreamsOf(r.replay) : ~ResolvedToMain(res, s)}
      linking  == {i \in DOMAIN r.replay :
                     r.replay[i].body.type = "ChildLinked" /\ r.replay[i].stream \in replayed}
  IN  {r.replay[i].body.child : i \in linking} \ replayed

(***************************************************************************)
(* The request's resolutions are first used here, so they are chosen here. *)
(* `judged' is the head of the log at that moment, `planned' the head when *)
(* the branch's events were read; no step tests either.                    *)
(***************************************************************************)
Judge(m) ==
  LET r == req[m] IN
  /\ r.pc = "judge"
  /\ \E res \in Resolutions :
       \/ /\ ~r.truncated /\ Decided(r, res)
          /\ req' = [req EXCEPT ![m] =
                       [pc |-> "recheck", branch |-> r.branch, replay |-> r.replay,
                        pins |-> r.pins, res |-> res, links |-> LinksToCheck(r, res),
                        todo |-> ToReplay(r, res), planned |-> r.planned,
                        judged |-> Len(log)]]
       \/ /\ r.truncated \/ ~Decided(r, res)
          /\ Return(m)
  /\ UNCHANGED <<log, base, registry, rows>>

(***************************************************************************)
(* GetPerson of a linked child.  The code asks in the replay's order; all  *)
(* must be there, and the first that is not ends the request.              *)
(***************************************************************************)
CheckLink(m) ==
  LET r == req[m] IN
  /\ r.pc = "recheck"
  /\ \E p \in r.links :
       IF MainHas(p) THEN req' = [req EXCEPT ![m].links = @ \ {p}] ELSE Return(m)
  /\ UNCHANGED <<log, base, registry, rows>>

\* Main still has the version the plan pinned for the next stream.
PinHolds(r) == StreamVersion(log, Head(r.todo), Main) = r.pins[Head(r.todo)]

\* validatePlanNotStale, one stream at a time.
RecheckStream(m) ==
  LET r == req[m] IN
  /\ r.pc = "recheck" /\ r.links = {} /\ r.todo # <<>>
  /\ IF PinHolds(r) THEN req' = [req EXCEPT ![m].todo = Tail(@)] ELSE Return(m)
  /\ UNCHANGED <<log, base, registry, rows>>

-----------------------------------------------------------------------------
(* MergeBranch: the claim.                                                 *)

ReadClaimVersion(m) ==
  LET r == req[m] IN
  /\ r.pc = "recheck" /\ r.links = {} /\ r.todo = <<>>
  /\ req' = [req EXCEPT ![m] =
               [pc |-> "lookup", branch |-> r.branch, replay |-> r.replay, pins |-> r.pins,
                res |-> r.res, planned |-> r.planned, judged |-> r.judged,
                version |-> StreamVersion(log, r.branch, r.branch)]]
  /\ UNCHANGED <<log, base, registry, rows>>

\* Mutant: the registry, not the log, says whether the branch was claimed.
ClaimedInRegistry(b) == registry[b] = "merged"

\* branchAlreadyClaimed: the log is the authority.
AlreadyClaimed(b) == \E e \in OwnEvents(log, b, b) : e.body.type = "BranchMerged"

\* Mutant: the retry of an interrupted claim refuses and repairs nothing.
LookupClaimUnhealed(m) ==
  /\ req[m].pc = "lookup"
  /\ IF AlreadyClaimed(req[m].branch) THEN Return(m) ELSE Goto(m, "claim")
  /\ UNCHANGED <<log, base, registry, rows>>

\* An existing claim is projected again, and the merge refused.
LookupClaim(m) ==
  LET b == req[m].branch IN
  /\ req[m].pc = "lookup"
  /\ IF AlreadyClaimed(b)
     THEN req' = [req EXCEPT ![m] = [pc |-> "healMark", branch |-> b]]
     ELSE Goto(m, "claim")
  /\ UNCHANGED <<log, base, registry, rows>>

\* Mutant: an empty expectation switches the compare-and-set off.
AnyVersion(r) == -1

ClaimExpects(r) == r.version

\* Mutant: a lost claim is not told from a won one.
AppendClaimOrNot(m) ==
  LET r == req[m] IN
  /\ r.pc = "claim"
  /\ \/ AppendTo(r.branch, r.branch, <<Payload(Lifecycle("BranchMerged"), 0)>>, ClaimExpects(r))
     \/ /\ Refused(r.branch, r.branch, ClaimExpects(r))
        /\ UNCHANGED log
  /\ Goto(m, "mark")
  /\ UNCHANGED <<base, registry, rows>>

\* The claim is a compare-and-set on the branch's own stream.
AppendClaim(m) ==
  LET r == req[m] IN
  /\ r.pc = "claim"
  /\ \/ /\ AppendTo(r.branch, r.branch, <<Payload(Lifecycle("BranchMerged"), 0)>>, ClaimExpects(r))
        /\ Goto(m, "mark")
     \/ /\ Refused(r.branch, r.branch, ClaimExpects(r))
        /\ Return(m)
        /\ UNCHANGED log
  /\ UNCHANGED <<base, registry, rows>>

\* projectBranchMerged: the registry, then the overlay.
MarkMerged(m) ==
  /\ req[m].pc \in {"mark", "healMark"}
  /\ registry' = [registry EXCEPT ![req[m].branch] = "merged"]
  /\ Goto(m, IF req[m].pc = "mark" THEN "purge" ELSE "healPurge")
  /\ UNCHANGED <<log, base, rows>>

PurgeOverlay(m) ==
  LET r == req[m] IN
  /\ r.pc \in {"purge", "healPurge"}
  /\ Purged(r.branch)
  /\ IF r.pc = "healPurge" THEN Return(m)
     ELSE req' = [req EXCEPT ![m] =
                    [pc |-> "replay", branch |-> r.branch, replay |-> r.replay, pins |-> r.pins,
                     res |-> r.res, planned |-> r.planned, judged |-> r.judged, todo |-> ToReplay(r, r.res)]]
  /\ UNCHANGED <<log, base, registry>>

-----------------------------------------------------------------------------
(* MergeBranch: the replay.                                                *)

\* replayStream reads main's version again and refuses a moved main.
ReadReplayVersion(m) ==
  LET r == req[m] IN
  /\ r.pc = "replay" /\ r.todo # <<>>
  /\ IF PinHolds(r) THEN Goto(m, "reappend") ELSE Return(m)
  /\ UNCHANGED <<log, base, registry, rows>>

\* Mutant: the replay is appended without a version.
AnyReplayVersion(r) == -1

\* A stream main never had is appended as a new one.
ReplayExpects(r) ==
  IF r.pins[Head(r.todo)] = 0 THEN -1 ELSE r.pins[Head(r.todo)]

\* The stream's branch events as one batch for main.
ReplayBatch(r, s) ==
  LET own == OnStream(r.replay, s)
  IN  [i \in 1..Len(own) |-> [own[i].body EXCEPT !.from = own[i].position]]

ReplayStream(m) ==
  LET r == req[m]
      s == Head(r.todo)
  IN  /\ r.pc = "reappend"
      /\ \/ /\ AppendTo(s, Main, ReplayBatch(r, s), ReplayExpects(r))
            /\ req' = [req EXCEPT ![m].pc = "replay", ![m].todo = Tail(@)]
         \/ /\ Refused(s, Main, ReplayExpects(r))
            /\ Return(m)
            /\ UNCHANGED log
      /\ UNCHANGED <<base, registry, rows>>

FinishMerge(m) ==
  /\ req[m].pc = "replay" /\ req[m].todo = <<>>
  /\ Return(m)
  /\ UNCHANGED <<log, base, registry, rows>>

-----------------------------------------------------------------------------
(***************************************************************************)
(* A request ends between two of its steps; what it wrote stays.  One that *)
(* has written nothing may simply take no further step.                    *)
(***************************************************************************)
HasWritten == {"register", "project", "archive", "drop", "mark", "purge", "healMark", "healPurge",
               "replay", "reappend"}

Fail(r) ==
  /\ req[r].pc \in HasWritten
  /\ Return(r)
  /\ UNCHANGED <<log, base, registry, rows>>

MergeStep(m) ==
  \/ LoadBranchSide(m) \/ PinStream(m) \/ LoadMainSide(m) \/ Judge(m)
  \/ CheckLink(m) \/ RecheckStream(m)
  \/ ReadClaimVersion(m) \/ LookupClaim(m) \/ AppendClaim(m) \/ MarkMerged(m) \/ PurgeOverlay(m)
  \/ ReadReplayVersion(m) \/ ReplayStream(m) \/ FinishMerge(m)

Next ==
  \/ \E c \in Creators : AppendCreated(c) \/ RegisterBranch(c) \/ \E b \in Branches : BeginCreate(c, b)
  \/ \E s \in Streams : MainWrite(s)
  \/ \E e \in Editors :
       \/ \E b \in Branches : BeginEdit(e, b)
       \/ \E s \in Streams : LoadRow(e, s) \/ NewAggregate(e, s)
       \/ AppendEdit(e) \/ RefuseEdit(e) \/ ProjectEdit(e)
  \/ \E d \in Deleters :
       \/ \E b \in Branches : BeginDelete(d, b)
       \/ ReadDeleteVersion(d) \/ AppendDelete(d) \/ Archive(d) \/ DropOverlay(d)
  \/ \E m \in Mergers : MergeStep(m) \/ \E b \in Branches : BeginMerge(m, b)
  \/ \E r \in Requests : Fail(r)

Spec == Init /\ [][Next]_vars

(***************************************************************************)
(* A merge request that is not stopped takes its next step, the caller     *)
(* asks again while the branch reads active, and does not for ever give    *)
(* resolutions the plan refuses; nor does the registry fail for ever.      *)
(***************************************************************************)
FairSpec ==
  /\ Spec
  /\ \A m \in Mergers :
       /\ WF_vars(MergeStep(m))
       /\ WF_vars(\E b \in Branches : BeginMerge(m, b))
       /\ SF_vars(Judge(m) /\ req'[m].pc = "recheck" /\ \A p \in req'[m].links : MainHas(p))
       /\ SF_vars(MarkMerged(m))

-----------------------------------------------------------------------------
(* Properties.                                                             *)

Claims(b) == {e \in OwnEvents(log, b, b) : e.body.type = "BranchMerged"}

\* A delete that found the branch active is recorded as well.
DeletedToo(b) == \E e \in OwnEvents(log, b, b) : e.body.type = "BranchDeleted"

\* The mainline events that replay a branch event.
Replays == {e \in EventsOf(log) : e.body.from # 0}

(***************************************************************************)
(* Exactly one merge wins: however many requests plan the same branch, and *)
(* wherever one of them stops, its BranchMerged is appended at most once,  *)
(* and no event of its is put on main twice, not even on a stream main     *)
(* never had, which is appended with the version check off (claimMerge,    *)
(* replayStream, ADR-005 "exactly one request wins").                      *)
(***************************************************************************)
MergedOnce ==
  /\ \A b \in Branches : Cardinality(Claims(b)) <= 1
  /\ \A d, e \in Replays : d.body.from = e.body.from => d = e

(***************************************************************************)
(* Nothing reaches main from a branch that was not claimed first: a branch *)
(* deleted under a running merge stays off main (claimMerge before         *)
(* replayOntoMain).                                                        *)
(***************************************************************************)
ReplayAfterClaim ==
  \A e \in Replays : \E c \in Claims(log[e.body.from].branch) : c.position < e.position

\* A merge that has replayed its last stream.
Finishing(m) == req[m].pc = "replay" /\ req[m].todo = <<>>

(***************************************************************************)
(* A merge that finishes has promoted the branch in full: every event the  *)
(* branch held when its plan was read, on a stream not resolved to main,   *)
(* is on main, each stream's in the order the branch wrote it (PlanMerge's *)
(* truncation refusal, replayOntoMain).                                    *)
(***************************************************************************)
PromotedInFull ==
  \A m \in Mergers : Finishing(m) =>
    \A s \in Streams : ~ResolvedToMain(req[m].res, s) =>
      LET r == req[m]
          drafted  == OnlyIn(log, {e \in OwnEvents(log, s, r.branch) : e.position <= r.planned})
          promoted == OnlyIn(log, {e \in Replays : e.stream = s /\ log[e.body.from].branch = r.branch})
      IN  /\ Len(promoted) = Len(drafted)
          /\ \A i \in 1..Len(drafted) : /\ promoted[i].branch = Main
                                        /\ promoted[i].body.from = drafted[i].position

(***************************************************************************)
(* No silent override: when a stream is replayed, every conflict between   *)
(* the branch and main as main is then was decided by the caller with an   *)
(* offered resolution (the pinned versions, PlanMerge's ordering contract, *)
(* validatePlanNotStale).                                                  *)
(***************************************************************************)
NoSilentOverride ==
  [][\A m \in Mergers : (req[m].pc = "reappend" /\ req'[m].pc = "replay") =>
       LET r == req[m]
           s == Head(r.todo)
           now == OnlyIn(log, {e \in OwnEvents(log, s, Main) : e.position > base[r.branch]})
       IN  \A c \in ClassifyConflicts(OnStream(r.replay, s), now, <<>>) :
             s \in DOMAIN r.res /\ r.res[s] \in c.supported]_vars

(***************************************************************************)
(* A finished merge leaves no family on main with a child the branch       *)
(* linked and main does not have, unless that person was deleted on main   *)
(* after the check: by a mainline command, or by the replay of a delete    *)
(* that a branch had accepted (validateNoDanglingReferences).              *)
(***************************************************************************)
LinkedChildExists ==
  \A m \in Mergers : Finishing(m) =>
    \A f \in {x \in Streams : ~ResolvedToMain(req[m].res, x)} :
      \A p \in Children(OnStream(req[m].replay, f)) :
        \/ MainHas(p)
        \/ \E e \in OwnEvents(log, p, Main) : e.body.type = "Deleted" /\ e.position > req[m].judged

(***************************************************************************)
(* An interrupted claim is repaired: a branch whose BranchMerged is in the *)
(* log comes to read merged in the registry, whatever stopped the request  *)
(* that claimed it (claimMerge's heal of the registry), unless a racing    *)
(* delete is recorded too.                                                 *)
(***************************************************************************)
ClaimShows ==
  \A b \in Branches : (Claims(b) # {}) ~> (registry[b] = "merged" \/ DeletedToo(b))

-----------------------------------------------------------------------------
(* What the documents say and the code does not keep.                      *)

(***************************************************************************)
(* "merged and archived are terminal" (domain/branch.go): a branch's       *)
(* status stays once it is either.                                         *)
(***************************************************************************)
TerminalIsFinal ==
  [][\A b \in Branches : registry[b] \in {"merged", "archived"} => registry'[b] = registry[b]]_registry

(***************************************************************************)
(* "each such event is re-applied as a new main event" (ADR-005, Merge): a *)
(* finished merge leaves no branch event behind on a stream it did not     *)
(* resolve to main.                                                        *)
(***************************************************************************)
NoEditLost ==
  \A m \in Mergers : Finishing(m) =>
    \A e \in EventsOf(log) :
      (e.stream \in Streams /\ e.branch = req[m].branch /\ ~ResolvedToMain(req[m].res, e.stream))
        => \E x \in Replays : x.body.from = e.position

=============================================================================
