--------------------------- MODULE MCBranchMerge ----------------------------
(* Small instances of BranchMerge: persons p1 and p2, a family f1.         *)
EXTENDS BranchMerge
CONSTANTS p1, p2, f1, b1, m1, m2

Upd(v) == [type |-> "Updated", changes |-> [date |-> v]]
Deleted == [type |-> "Deleted"]
Linked(p) == [type |-> "ChildLinked", child |-> p]
Born == [type |-> "Created", xref |-> NoXref, partners |-> {}]
Wed(p) == [type |-> "Created", xref |-> NoXref, partners |-> {p}]

W(s, b, body) == [stream |-> s, branch |-> b, body |-> body]
Open(b) == W(b, b, Lifecycle("BranchCreated"))
Founded(s) == W(s, Main, Born)

\* What may be written, by stream; nothing to a stream not named.
PerStream(writes) == [s \in Streams |-> IF s \in DOMAIN writes THEN writes[s] ELSE {}]

MCBirths == PerStream(p1 :> {Born} @@ p2 :> {Born})
NoWrites == PerStream(<<>>)

\* Two merges race over a person the branch created and one both sides edited, or
\* over a branch that is still being created.
RaceHistories == {
  <<Founded(p1)>>,
  <<Founded(p1), Open(b1), W(p2, b1, Born), W(p1, b1, Upd("1")), W(p1, Main, Upd("2"))>>}

\* A branch with one edit, and the edits that may follow.
EditHistories == {<<Founded(p1), Open(b1), W(p1, b1, Upd("1"))>>}

EditP1 == PerStream(p1 :> {Upd("1")})

\* A branch has linked a person, main's or its own, into a family, and may go on;
\* or has yet to create the person.
LinkHistories == {
  <<Founded(f1), Founded(p1), Open(b1), W(f1, b1, Linked(p1)), W(p1, b1, Upd("1"))>>,
  <<Founded(f1), Open(b1), W(p1, b1, Born), W(f1, b1, Linked(p1))>>,
  <<Founded(f1), W(f1, Main, Upd("1")), W(f1, Main, Upd("2")), Open(b1)>>}
LinkMainEdits == PerStream(p1 :> {Upd("2"), Deleted})
LinkBranchEdits == PerStream(p1 :> {Upd("1")} @@ f1 :> {Linked(p1)})
=============================================================================
