---------------------------- MODULE GedcomImport -----------------------------
(***************************************************************************)
(* The import of a GEDCOM file (internal/command/gedcom_commands.go, and   *)
(* the passes of internal/gedcom/importer.go that resolve references).     *)
(*                                                                         *)
(* One request takes the file's records in a fixed order and makes, for    *)
(* each, one store call after the other: an append, the saves of the       *)
(* projection, whatever is kept outside the events.  Unlike any other      *)
(* command it looks at the error of every one of them: the record becomes  *)
(* an error or a warning of the answer and the import goes on.  Any call   *)
(* may fail, all do once the client has gone away, and other clients edit  *)
(* and delete what is already there.                                       *)
(*                                                                         *)
(* A record is <<kind, place in the file>>, which stands for its fresh id. *)
(*                                                                         *)
(* Not here: the decoder (gedcom-go) and the values of fields, media       *)
(* objects, which are parsed and dropped, and the final GedcomImported     *)
(* event, whose append may fail unnoticed.  Clients that link, rename,     *)
(* merge and cite at the same time are FamilyTree's, PersonRecords' and    *)
(* SourceCitations'.                                                       *)
(***************************************************************************)
EXTENDS Integers, FiniteSets, SequencesExt

CONSTANTS
  Files,        \* documents, see `file'
  MaxFailures,  \* bound: the store calls that fail by themselves
  MaxOthers     \* bound: the records that other clients change

VARIABLES
  file,     \* the document: sources, persons and families with their xrefs;
            \* numbers of repositories, notes and submitters; the kinds of
            \* record that carry coordinates or external identifiers
  work,     \* the items to import, once the document is parsed
  at,       \* the item in hand
  call,     \* the next store call of that item
  seen,     \* version and count in the row that was read last
  heads,    \* each record's stream version; 0 before its first event
  versions, \* the version in each record's row; 0 when there is no row
  names,    \* name rows: pairs of a person and the name's place
  kids,     \* child rows: pairs of a family and a person
  edge,     \* each person's pedigree edge
  count,    \* a family's number of children, a source's of citations
  saved,    \* the items whose row is there, of which no more is said
  report,   \* the items that became an error or a warning
  others,   \* the records that other clients changed
  upset,    \* [failures, gone]: calls that failed, whether the client is gone
  answer    \* what the request answered, or "none" while it runs

vars == <<file, work, at, call, seen, heads, versions, names, kids, edge, count,
          saved, report, others, upset, answer>>

NoEdge == [father |-> 0, mother |-> 0, exists |-> FALSE]
NoRow  == [version |-> 0, count |-> 0]

-----------------------------------------------------------------------------
(* References.  A map from xrefs to ids keeps the last record of an xref;  *)
(* 0 is a reference to nothing.                                            *)

LastWith(records, xref) ==
  Max({0} \union {n \in DOMAIN records : records[n].xref = xref})

PersonOf(xref) == LastWith(file.persons, xref)
SourceOf(xref) == LastWith(file.sources, xref)

\* resolvePartner: a reference that leads nowhere is no partner.
Partners(n) == <<PersonOf(file.families[n].husband), PersonOf(file.families[n].wife)>>

\* A family without partners is counted and nothing of it is stored.
IsStored(n) == Partners(n) # <<0, 0>>

\* ChildIDs: the children that are found.
ChildIDs(n) ==
  LET found == SelectSeq(file.families[n].children, LAMBDA x : PersonOf(x) # 0)
  IN  [k \in DOMAIN found |-> PersonOf(found[k])]

-----------------------------------------------------------------------------
(* The order of the import.                                                *)

Item(kind, of, k) == [kind |-> kind, of |-> of, k |-> k]

Records(kind, number) == [n \in 1..number |-> Item(kind, <<kind, n>>, 0)]

\* Each family is followed by the links of its children.
FamiliesAndLinks ==
  FlattenSeq([n \in DOMAIN file.families |->
    <<Item("family", <<"family", n>>, 0)>>
      \o [k \in DOMAIN ChildIDs(n) |-> Item("link", <<"family", n>>, k)]])

Citations(kind, records) ==
  FlattenSeq([n \in DOMAIN records |->
    [k \in DOMAIN records[n].cites |-> Item("citation", <<kind, n>>, k)]])

\* Events and attributes belong to the record they are found in.
Facts(fact, kind, records) ==
  FlattenSeq([n \in DOMAIN records |->
    IF fact \in records[n].has THEN <<Item(fact, <<kind, n>>, 0)>> ELSE <<>>])

\* Ordinances and associations go by xref: to the last record that has it.
\* An association also names its other person.
Ordinances(kind, records) ==
  FlattenSeq([n \in DOMAIN records |->
    IF "ordinance" \in records[n].has
      THEN <<Item("ordinance", <<kind, LastWith(records, records[n].xref)>>, 0)>> ELSE <<>>])

Associations ==
  FlattenSeq([n \in DOMAIN file.persons |->
    LET known == SelectSeq(file.persons[n].associates, LAMBDA x : PersonOf(x) # 0)
    IN  [k \in DOMAIN known |-> Item("association", <<"person", PersonOf(file.persons[n].xref)>>,
                                        PersonOf(known[k]))]])

Before == Records("repository", file.repositories) \o Records("source", Len(file.sources))
After ==
  Citations("person", file.persons) \o Citations("family", file.families)
    \o Facts("event", "person", file.persons) \o Facts("event", "family", file.families)
    \o Facts("attribute", "person", file.persons)
    \o Records("note", file.notes) \o Records("submitter", file.submitters)
    \o Associations
    \o Ordinances("person", file.persons) \o Ordinances("family", file.families)

\* Mutant: families come before the persons they are made of.
FamiliesFirst == Before \o FamiliesAndLinks \o Records("person", Len(file.persons)) \o After

Work == Before \o Records("person", Len(file.persons)) \o FamiliesAndLinks \o After

-----------------------------------------------------------------------------
(* The store calls of an item.  What is kept outside the events is written *)
(* after the projection: coordinates into the row that was just saved, and *)
(* external identifiers.  A citation's projection ends with its source's   *)
(* row, read and saved for the count.                                      *)

Extras(kind) ==
  CASE kind \notin file.extras -> <<>>
    [] kind = "person" -> <<"read row", "save row", "save extra">>
    [] kind = "event"  -> <<"read row", "save row">>
    [] OTHER           -> <<"save extra">>

NameCalls(n) == FlattenSeq([k \in 1..n |-> <<"append name", "save name", "touch">>])

Calls(item) ==
  CASE item.kind = "family" /\ ~IsStored(item.of[2]) -> <<>>
    [] item.kind = "person" ->
         <<"append", "save">> \o Extras("person") \o NameCalls(file.persons[item.of[2]].names)
    [] item.kind = "link" -> <<"look", "append link", "save child", "save edge", "save family">>
    [] item.kind = "citation" -> <<"append", "save", "read row", "save row">>
    [] OTHER -> <<"append", "save">> \o Extras(item.kind)

-----------------------------------------------------------------------------
Followed == {"repository", "source", "person", "family"}

\* The records that have a stream and a row the model follows.
Aggregates ==
  {<<"repository", n>> : n \in 1..file.repositories}
    \union {<<"source", n>> : n \in DOMAIN file.sources}
    \union {<<"person", n>> : n \in DOMAIN file.persons}
    \union {<<"family", n>> : n \in DOMAIN file.families}

Init ==
  /\ file \in Files
  /\ work = <<>> /\ at = 0 /\ call = 1 /\ seen = NoRow
  /\ heads = [r \in Aggregates |-> 0] /\ versions = heads /\ count = heads
  /\ names = {} /\ kids = {} /\ saved = {} /\ report = {} /\ others = {}
  /\ edge = [p \in DOMAIN file.persons |-> NoEdge]
  /\ upset = [failures |-> 0, gone |-> FALSE]
  /\ answer = "none"

stores == <<heads, versions, names, kids, edge, count, saved>>

\* ValidateImportData: a file of neither persons nor families is refused.
Parse ==
  /\ at = 0 /\ answer = "none"
  /\ IF file.persons = <<>> /\ file.families = <<>>
       THEN answer' = "refused" /\ UNCHANGED <<work, at>>
       ELSE work' = Work /\ at' = 1 /\ UNCHANGED answer
  /\ UNCHANGED <<file, call, seen, stores, report, others, upset>>

-----------------------------------------------------------------------------
(* One store call after the other.                                         *)

InHand == at \in DOMAIN work
Now    == work[at]
Rec    == Now.of
frame  == <<file, work, report, others, upset, answer>>

Calling(c) ==
  InHand /\ call <= Len(Calls(Now)) /\ Calls(Now)[call] = c /\ ~upset.gone

Advance(n) ==
  IF call + n <= Len(Calls(Now)) THEN call' = call + n /\ at' = at
  ELSE call' = 1 /\ at' = at + 1

Proceed == Advance(1)

Links(r) == {i \in DOMAIN work : work[i].kind = "link" /\ work[i].of = r}

\* The item is reported and left; the links of a reported family are not tried.
Leave ==
  /\ report' = report \union {at}
  /\ at' = at + 1 + (IF Now.kind = "family" THEN Cardinality(Links(Rec)) ELSE 0)
  /\ call' = 1
  /\ UNCHANGED <<file, work, others, upset, answer>>

\* The source a citation names.
SourceNamed(item) ==
  SourceOf(IF item.of[1] = "person" THEN file.persons[item.of[2]].cites[item.k]
           ELSE file.families[item.of[2]].cites[item.k])

Unresolved == Now.kind = "citation" /\ SourceNamed(Now) = 0

UnknownSource == InHand /\ Unresolved /\ Leave /\ UNCHANGED <<seen, stores>>

\* A family without partners makes no call.
PassOver ==
  /\ InHand /\ Calls(Now) = <<>>
  /\ at' = at + 1
  /\ UNCHANGED <<call, seen, stores, frame>>

\* A fresh id: the append expects nothing.
AppendCreated ==
  /\ Calling("append") /\ ~Unresolved
  /\ heads' = IF Now.kind \in Followed THEN [heads EXCEPT ![Rec] = 1] ELSE heads
  /\ Proceed
  /\ UNCHANGED <<seen, versions, names, kids, edge, count, saved, frame>>

SaveCreated ==
  /\ Calling("save")
  /\ IF Now.kind \in Followed
       THEN versions' = [versions EXCEPT ![Rec] = 1] /\ UNCHANGED saved
       ELSE saved' = saved \union {at} /\ UNCHANGED versions
  /\ Proceed
  /\ UNCHANGED <<seen, heads, names, kids, edge, count, frame>>

\* The row that is read and then saved whole: the item's own for coordinates,
\* the source's for the count of its citations.
Kept == IF Now.kind = "citation" THEN <<"source", SourceNamed(Now)>> ELSE Rec

\* Of an event's row, which no other client can change, nothing is followed.
Row == IF Now.kind = "event" THEN NoRow
       ELSE [version |-> versions[Kept], count |-> count[Kept]]

\* A row that is not there is not saved.
ReadRow ==
  /\ Calling("read row")
  /\ seen' = Row
  /\ Advance(IF Now.kind # "event" /\ Row.version = 0 THEN 2 ELSE 1)
  /\ UNCHANGED <<stores, frame>>

\* Mutant: the source's row is saved as it was read.
SameCount(n) == n

Counted(n) == n + 1

\* What was changed since the row was read is undone.
SaveRow ==
  /\ Calling("save row")
  /\ versions' = IF Now.kind = "event" THEN versions ELSE [versions EXCEPT ![Kept] = seen.version]
  /\ count' = IF Now.kind = "citation" THEN [count EXCEPT ![Kept] = Counted(seen.count)] ELSE count
  /\ Proceed
  /\ UNCHANGED <<seen, heads, names, kids, edge, saved, frame>>

SaveExtra == Calling("save extra") /\ Proceed /\ UNCHANGED <<seen, stores, frame>>

-----------------------------------------------------------------------------
(* Names: events of the person's stream, each at the version after the one *)
(* before.                                                                 *)

\* Which name is in hand.
Place == Cardinality({i \in 1..call : Calls(Now)[i] = "append name"})

\* The version the names are appended at: PersonCreated was version 1.
CurrentVersion(place) == place

AppendName ==
  /\ Calling("append name")
  /\ IF heads[Rec] = CurrentVersion(Place)
       THEN heads' = [heads EXCEPT ![Rec] = @ + 1] /\ Proceed /\ UNCHANGED frame
       ELSE Leave /\ UNCHANGED heads
  /\ UNCHANGED <<seen, versions, names, kids, edge, count, saved>>

SaveName ==
  /\ Calling("save name")
  /\ names' = names \union {<<Rec[2], Place>>}
  /\ Proceed
  /\ UNCHANGED <<seen, heads, versions, kids, edge, count, saved, frame>>


VersionOfName(place) == CurrentVersion(place) + 1

\* updatePersonVersion
Touch ==
  /\ Calling("touch")
  /\ versions' = IF versions[Rec] = 0 THEN versions
                 ELSE [versions EXCEPT ![Rec] = VersionOfName(Place)]
  /\ Proceed
  /\ UNCHANGED <<seen, heads, names, kids, edge, count, saved, frame>>

-----------------------------------------------------------------------------
(* Links.                                                                  *)

Child(item) == ChildIDs(item.of[2])[item.k]

\* Mutant: a child is linked to every family that lists it.
NeverTaken(c) == FALSE

\* GetChildFamily finds one.
HomeTaken(c) == \E kid \in kids : kid[2] = c

\* The child of another family, or of a family that is not there, is skipped.
Look ==
  /\ Calling("look")
  /\ IF HomeTaken(Child(Now)) \/ versions[Rec] = 0
       THEN at' = at + 1 /\ call' = 1 /\ UNCHANGED seen
       ELSE seen' = Row /\ Proceed
  /\ UNCHANGED <<stores, frame>>

AppendLink ==
  /\ Calling("append link")
  /\ IF heads[Rec] = seen.version
       THEN heads' = [heads EXCEPT ![Rec] = @ + 1] /\ Proceed /\ UNCHANGED frame
       ELSE Leave /\ UNCHANGED heads
  /\ UNCHANGED <<seen, versions, names, kids, edge, count, saved>>

SaveChild ==
  /\ Calling("save child")
  /\ kids' = kids \union {<<Rec[2], Child(Now)>>}
  /\ Proceed
  /\ UNCHANGED <<seen, heads, versions, names, edge, count, saved, frame>>

\* Of the partners whose row is there, the last of that sex.
Parent(f, male) ==
  LET i == Max({0} \union
             {j \in {1, 2} : /\ Partners(f)[j] # 0
                             /\ versions[<<"person", Partners(f)[j]>>] # 0
                             /\ file.persons[Partners(f)[j]].male = male})
  IN  IF i = 0 THEN 0 ELSE Partners(f)[i]

SaveEdge ==
  /\ Calling("save edge")
  /\ edge' = [edge EXCEPT ![Child(Now)] =
                [father |-> Parent(Rec[2], TRUE), mother |-> Parent(Rec[2], FALSE), exists |-> TRUE]]
  /\ Proceed
  /\ UNCHANGED <<seen, heads, versions, names, kids, count, saved, frame>>

SaveFamily ==
  /\ Calling("save family")
  /\ versions' = [versions EXCEPT ![Rec] = @ + 1]
  /\ count' = [count EXCEPT ![Rec] = @ + 1]
  /\ Proceed
  /\ UNCHANGED <<seen, heads, names, kids, edge, saved, frame>>

-----------------------------------------------------------------------------
(* What goes wrong, and what others do.                                    *)

\* Mutant: as in `execute', an error of the projection is dropped.
AppendsOnly(c) == c \in {"append", "append name", "append link"}

IsReported(c) == TRUE

\* A store call fails: any may (a citation's save also where the database
\* misses its source), and all do once the request's context has ended.
Fail ==
  /\ InHand /\ Calls(Now) # <<>> /\ ~Unresolved
  /\ upset.gone \/ upset.failures < MaxFailures
  /\ LET failed == [upset EXCEPT !.failures = IF upset.gone THEN @ ELSE @ + 1]
     IN  IF IsReported(Calls(Now)[call])
           THEN /\ report' = report \union {at}
                /\ at' = at + 1 + (IF Now.kind = "family" THEN Cardinality(Links(Rec)) ELSE 0)
                /\ call' = 1 /\ upset' = failed
           ELSE Proceed /\ upset' = failed /\ UNCHANGED report
  /\ UNCHANGED <<file, work, seen, stores, others, answer>>

ClientGoesAway ==
  /\ InHand /\ ~upset.gone
  /\ upset' = [upset EXCEPT !.gone = TRUE]
  /\ UNCHANGED <<file, work, at, call, seen, stores, report, others, answer>>

Answer ==
  /\ at > Len(work) /\ answer = "none" /\ work # <<>>
  /\ answer' = "done"
  /\ UNCHANGED <<file, work, at, call, seen, stores, report, others, upset>>

\* Another client can edit what has a row at its stream's version, in one step
\* here: CommandExec takes it apart.
MayChange(r) ==
  /\ InHand /\ r \notin others /\ Cardinality(others) < MaxOthers
  /\ versions[r] # 0 /\ versions[r] = heads[r]
  /\ others' = others \union {r}

OtherEdit ==
  /\ \E r \in Aggregates :
       /\ MayChange(r)
       /\ heads' = [heads EXCEPT ![r] = @ + 1]
       /\ versions' = [versions EXCEPT ![r] = @ + 1]
  /\ UNCHANGED <<file, work, at, call, seen, names, kids, edge, count, saved, report, upset, answer>>

\* DeletePerson wants a person of no family, DeleteFamily a family without
\* children, DeleteSource a source without citations.
MayDelete(r) ==
  /\ r[1] = "person" => /\ ~HomeTaken(r[2])
                        /\ \A n \in DOMAIN file.families :
                             versions[<<"family", n>>] # 0 => r[2] \notin Range(Partners(n))
  /\ r[1] = "family" => \A kid \in kids : kid[1] = r[2] => versions[<<"person", kid[2]>>] = 0
  /\ r[1] = "source" => \A i \in saved : work[i].kind = "citation" => SourceNamed(work[i]) # r[2]

\* The facts whose rows are deleted with a person's.
GoesWith(i, r) ==
  \/ work[i].kind = "attribute" /\ work[i].of = r
  \/ work[i].kind = "association" /\ r \in {work[i].of, <<"person", work[i].k>>}

OtherDelete ==
  /\ \E r \in Aggregates :
       /\ MayChange(r) /\ MayDelete(r)
       /\ heads' = [heads EXCEPT ![r] = @ + 1]
       /\ versions' = [versions EXCEPT ![r] = 0]
       /\ names' = {name \in names : <<"person", name[1]>> # r}
       /\ kids' = {kid \in kids : <<"family", kid[1]>> # r}
       /\ edge' = [p \in DOMAIN edge |->
                     IF r = <<"person", p>> \/ (r[1] = "family" /\ <<r[2], p>> \in kids)
                       THEN NoEdge ELSE edge[p]]
       /\ saved' = {i \in saved : ~GoesWith(i, r)}
  /\ UNCHANGED <<file, work, at, call, seen, count, report, upset, answer>>

Next ==
  \/ Parse \/ UnknownSource \/ PassOver
  \/ AppendCreated \/ SaveCreated \/ ReadRow \/ SaveRow \/ SaveExtra
  \/ AppendName \/ SaveName \/ Touch
  \/ Look \/ AppendLink \/ SaveChild \/ SaveEdge \/ SaveFamily
  \/ Fail \/ ClientGoesAway \/ Answer
  \/ OtherEdit \/ OtherDelete

Spec == Init /\ [][Next]_vars

-----------------------------------------------------------------------------
\* What the code leaves at an older version, unreported: a row it reads and
\* saves whole, a person's for coordinates or a cited source's, and that
\* another client changed in between.
Undone(r) ==
  /\ r \in others
  /\ \/ r[1] = "person" /\ "person" \in file.extras
     \/ r[1] = "source" /\ \E i \in DOMAIN work : work[i].kind = "citation" /\ SourceNamed(work[i]) = r[2]

UpToDate(r) == versions[r] # 0 /\ (versions[r] = heads[r] \/ Undone(r))

InStores(i) ==
  LET item == work[i]
      r    == item.of
  IN  CASE item.kind = "link" -> <<r[2], Child(item)>> \in kids
        [] item.kind = "person" ->
             UpToDate(r) /\ \A n \in 1..file.persons[r[2]].names : <<r[2], n>> \in names
        [] item.kind = "family" ->
             \/ Links(r) \intersect report # {}
             \/ UpToDate(r) /\ count[r] = Cardinality({kid \in kids : kid[1] = r[2]})
        [] item.kind = "source" ->
             /\ UpToDate(r)
             /\ count[r] = Cardinality({c \in DOMAIN work \ report :
                                          work[c].kind = "citation" /\ SourceNamed(work[c]) = r[2]})
        [] item.kind = "repository" -> UpToDate(r)
        [] OTHER -> i \in saved

\* What the code leaves out without a word: a family without partners and its
\* links, the links of a reported family, a child that has a family already.
LeftOut(i) ==
  LET item == work[i]
      n    == item.of[2]
  IN  \/ item.kind = "family" /\ ~IsStored(n)
      \/ /\ item.kind = "link"
         /\ \/ ~IsStored(n)
            \/ \E f \in report : work[f].kind = "family" /\ work[f].of = item.of
            \/ \E kid \in kids : kid[2] = Child(item)

\* What another client deleted and what goes with it.  The children of a
\* deleted family are linked to it no more, and those that were skipped for
\* its sake have no family: neither is said.
Deleted(i) ==
  \E r \in others :
    /\ versions[r] = 0
    /\ \/ work[i].of = r /\ work[i].kind \in Followed
       \/ work[i].kind = "link" /\ r[1] = "family" /\ Child(work[i]) \in Range(ChildIDs(r[2]))
       \/ GoesWith(i, r)


(***************************************************************************)
(* An import of which nothing is reported leaves the file's tree: the      *)
(* families that have a partner, each child in the first that lists it,    *)
(* with that family's partners as parents, by sex, every name, and every   *)
(* citation counted at the source it names (projectChildLinked,            *)
(* linkChildToFamily, projectCitationCreated).                             *)
(***************************************************************************)
TreeIsTheFile ==
  answer = "done" /\ report = {} /\ others = {} =>
    LET persons == DOMAIN file.persons
        homes   == {n \in DOMAIN file.families : IsStored(n)}
        listed(c) == {n \in homes : c \in Range(ChildIDs(n))}
        citing(records, n) ==
          {<<m, k>> \in (DOMAIN records) \X (1..3) :
             k \in DOMAIN records[m].cites /\ SourceOf(records[m].cites[k]) = n}
        parents(n, male) == {p \in Range(Partners(n)) \ {0} : file.persons[p].male = male}
    IN  /\ kids = {<<Min(listed(c)), c>> : c \in {p \in persons : listed(p) # {}}}
        /\ \A c \in persons :
             IF listed(c) = {} THEN edge[c] = NoEdge
             ELSE LET n == Min(listed(c))
                  IN  /\ edge[c].exists
                      /\ IF parents(n, TRUE) = {} THEN edge[c].father = 0
                         ELSE edge[c].father \in parents(n, TRUE)
                      /\ IF parents(n, FALSE) = {} THEN edge[c].mother = 0
                         ELSE edge[c].mother \in parents(n, FALSE)
        /\ \A n \in DOMAIN file.families :
             versions[<<"family", n>>] =
               IF n \in homes THEN 1 + Cardinality({kid \in kids : kid[1] = n}) ELSE 0
        /\ \A n \in DOMAIN file.sources :
             count[<<"source", n>>] =
               Cardinality(citing(file.persons, n)) + Cardinality(citing(file.families, n))
        /\ names = {<<p, k>> \in persons \X (1..3) : k <= file.persons[p].names}
=============================================================================
