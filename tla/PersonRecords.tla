---------------------------- MODULE PersonRecords ----------------------------
(***************************************************************************)
(* What hangs on a person, on the mainline: the name variants, of which    *)
(* one may be primary (internal/command/name_commands.go), and the records *)
(* that a person merge hands over (merge_commands.go, projectPersonMerged  *)
(* in internal/repository/projection.go), under concurrent requests.       *)
(*                                                                         *)
(* Name events go to the person's stream and expect the version of the     *)
(* person's row, which a name's projection keeps up; a merge's event goes  *)
(* to the survivor's stream alone, and the other records have streams of   *)
(* their own.  A request goes in steps: its reads, the append, and per     *)
(* event the saves of its projection, of which an error drops the rest.    *)
(*                                                                         *)
(* Not here: families and pedigree edges (FamilyTree), the fields a merge  *)
(* resolves, external identifiers, deletes of persons, branches.           *)
(***************************************************************************)
EXTENDS Integers, FiniteSets, Sequences

CONSTANTS
  Persons,      \* ids of persons, all of them there to begin with
  Names,        \* ids of names
  Things,       \* ids of other records
  Nobody,       \* the owner of what has no row
  Slots,        \* request slots
  Settings,     \* what a behaviour may be bounded to, see `setting'
  MaxVersion    \* bound: the version no person's stream passes

\* What is assumed of the constants; the modules that instantiate this one assert it.
NobodyApart == Nobody \notin Persons
SlotsInUse == \A s \in Settings : s.slots \subseteq Slots /\ IsFiniteSet(s.slots)

VARIABLES
  setting,  \* [slots, store, kinds]: request slots and store in use, and the
            \* kinds of records that clients create
  people,   \* the version of each person's row; 0 when there is none
  head,     \* the version of each person's stream
  absorbed, \* the persons that an event of the log has merged into another
  names,    \* name rows: [owner, primary]
  things,   \* rows of the other records: [kind, owner, file]
  req       \* request slots

vars == <<setting, people, head, absorbed, names, things, req>>
log  == <<head, absorbed>>

Idle     == [pc |-> "idle"]
NoName   == [owner |-> Nobody, primary |-> FALSE]
NoThing  == [kind |-> "none", owner |-> Nobody, file |-> FALSE]
NamesOf(p) == {n \in Names : names[n].owner = p}
Primaries(p) == {n \in NamesOf(p) : names[n].primary}

Init ==
  /\ setting \in Settings
  /\ people = [p \in Persons |-> 1] /\ head = people /\ absorbed = {}
  /\ names = [n \in Names |-> NoName]
  /\ things = [x \in Things |-> NoThing]
  /\ req = [r \in Slots |-> Idle]

-----------------------------------------------------------------------------
(* A name's command reads the person's row, whose version it will expect,  *)
(* then the person's names.                                                *)

ReadPerson(r, do, p, n, primary) ==
  /\ req[r] = Idle /\ people[p] > 0
  /\ req' = [req EXCEPT ![r] = [pc |-> "names", do |-> do, person |-> p, name |-> n,
                                primary |-> primary, expected |-> people[p]]]
  /\ UNCHANGED <<people, log, names, things>>

\* The id is new, so no other request has it.
FreshName(n) ==
  names[n] = NoName /\ \A q \in Slots : "name" \in DOMAIN req[q] => req[q].name # n

AddName(r) ==
  \E p \in Persons, n \in Names, primary \in BOOLEAN :
    FreshName(n) /\ ReadPerson(r, "add", p, n, primary)

UpdateName(r) ==
  \E p \in Persons, n \in Names, primary \in BOOLEAN : ReadPerson(r, "update", p, n, primary)

DeleteName(r) ==
  \E p \in Persons, n \in Names : ReadPerson(r, "remove", p, n, FALSE)

Named(type, n, p, primary) == [type |-> type, name |-> n, owner |-> p, primary |-> primary]

\* Mutant: the new primary name is announced before the old one steps down.
PromoteFirst(r, event) ==
  LET others == Primaries(req[r].person) \ {req[r].name} IN
  IF others = {} THEN <<event>>
  ELSE <<event, Named("NameUpdated", CHOOSE n \in others : TRUE, req[r].person, FALSE)>>

\* The old primary name steps down first; the scan stops at the first it finds.
DemoteFirst(r, event) ==
  LET others == Primaries(req[r].person) \ {req[r].name} IN
  IF others = {} THEN <<event>>
  ELSE <<Named("NameUpdated", CHOOSE n \in others : TRUE, req[r].person, FALSE), event>>

\* Mutant: name events are appended to whatever the stream has by now.
ExpectsAnything(r) == -1

ExpectsPerson(r) == req[r].expected

ToAppend(r, events) ==
  req' = [req EXCEPT ![r] = [pc |-> "append", do |-> req[r].do, person |-> req[r].person,
                             name |-> req[r].name, expected |-> ExpectsPerson(r), events |-> events]]

\* AddName: a person's first name is primary whatever was asked.
DecideAdd(r) ==
  LET q == req[r]
      primary == q.primary \/ NamesOf(q.person) = {}
      event == Named("NameAdded", q.name, q.person, primary)
  IN  /\ q.pc = "names" /\ q.do = "add"
      /\ ToAppend(r, IF primary THEN DemoteFirst(r, event) ELSE <<event>>)
      /\ UNCHANGED <<people, log, names, things>>

\* UpdateName: the others are looked at only when the name becomes primary.
DecideUpdate(r) ==
  LET q == req[r]
      event == Named("NameUpdated", q.name, q.person, q.primary)
  IN  /\ q.pc = "names" /\ q.do = "update"
      /\ IF names[q.name].owner = q.person
         THEN ToAppend(r, IF q.primary /\ ~names[q.name].primary THEN DemoteFirst(r, event) ELSE <<event>>)
         ELSE req' = [req EXCEPT ![r] = Idle]
      /\ UNCHANGED <<people, log, names, things>>

\* DeleteName refuses the last name and the primary one.
DecideRemove(r) ==
  LET q == req[r] IN
  /\ q.pc = "names" /\ q.do = "remove"
  /\ IF q.name \in NamesOf(q.person) /\ Cardinality(NamesOf(q.person)) > 1 /\ ~names[q.name].primary
     THEN ToAppend(r, <<Named("NameRemoved", q.name, q.person, FALSE)>>)
     ELSE req' = [req EXCEPT ![r] = Idle]
  /\ UNCHANGED <<people, log, names, things>>

-----------------------------------------------------------------------------
(* A merge: both rows exist, with the versions the client sends.           *)

MergePersons(r) ==
  \E survivor, merged \in Persons :
    /\ req[r] = Idle /\ survivor # merged /\ people[survivor] > 0 /\ people[merged] > 0
    /\ req' = [req EXCEPT ![r] = [pc |-> "append", do |-> "merge", person |-> survivor,
                                  merged |-> merged, expected |-> people[survivor],
                                  events |-> <<[type |-> "PersonMerged"]>>]]
    /\ UNCHANGED <<people, log, names, things>>

AppendEvents(r) ==
  LET q == req[r]
      accepted == q.expected < 0 \/ q.expected = head[q.person]
  IN  /\ q.pc = "append"
      /\ accepted => head[q.person] + Len(q.events) <= MaxVersion
      /\ IF accepted
         THEN /\ head' = [head EXCEPT ![q.person] = @ + Len(q.events)]
              /\ absorbed' = IF q.do = "merge" THEN absorbed \union {q.merged} ELSE absorbed
              /\ req' = [req EXCEPT ![r].pc = IF q.do = "merge" THEN "survivor" ELSE "name",
                                    ![r].expected = IF q.expected < 0 THEN 0 ELSE @]
         ELSE /\ req' = [req EXCEPT ![r] = Idle]
              /\ UNCHANGED log
      /\ UNCHANGED <<people, names, things>>

-----------------------------------------------------------------------------
(* projectNameAdded, projectNameUpdated, projectNameRemoved: the name's    *)
(* row, then the person's row is read and saved with the event's version.  *)

ProjectName(r) ==
  LET e == req[r].events[1] IN
  /\ req[r].pc = "name"
  /\ names' = [names EXCEPT ![e.name] =
       IF e.type = "NameRemoved" THEN NoName ELSE [owner |-> e.owner, primary |-> e.primary]]
  /\ req' = [req EXCEPT ![r].pc = "readVersion"]
  /\ UNCHANGED <<people, log, things>>

NextEvent(r) ==
  req' = [req EXCEPT ![r] = IF Len(req[r].events) = 1 THEN Idle
                            ELSE [req[r] EXCEPT !.pc = "name", !.events = Tail(@), !.expected = @ + 1]]

ReadForVersion(r) ==
  /\ req[r].pc = "readVersion"
  /\ IF people[req[r].person] > 0 THEN req' = [req EXCEPT ![r].pc = "saveVersion"] ELSE NextEvent(r)
  /\ UNCHANGED <<people, log, names, things>>

SaveVersion(r) ==
  /\ req[r].pc = "saveVersion"
  /\ people' = [people EXCEPT ![req[r].person] = req[r].expected + 1]
  /\ NextEvent(r)
  /\ UNCHANGED <<log, names, things>>

-----------------------------------------------------------------------------
(* projectPersonMerged.  Each kind of record is listed and saved in turn;  *)
(* a listing of media carries no file, so the save drops it in memory and  *)
(* fails in the SQL stores, whose column is NOT NULL.                      *)

\* Mutant: evidence analyses are left out.
HandedOverButAnalyses ==
  <<"citation", "name", "event", "media", "attribute", "conflict", "log", "summary">>

HandedOver ==
  <<"citation", "name", "event", "media", "attribute", "analysis", "conflict", "log", "summary">>

SaveSurvivor(r) ==
  LET q == req[r] IN
  /\ q.pc = "survivor"
  /\ IF people[q.person] > 0
     THEN /\ people' = [people EXCEPT ![q.person] = q.expected + 1]
          /\ req' = [req EXCEPT ![r] = [pc |-> "handOver", person |-> q.person, merged |-> q.merged,
                                        kinds |-> HandedOver]]
     ELSE /\ req' = [req EXCEPT ![r] = Idle]
          /\ UNCHANGED people
  /\ UNCHANGED <<log, names, things>>

ThingsOf(p, kind) == {x \in Things : things[x].owner = p /\ things[x].kind = kind}

\* SaveMedia with what a listing returned.
SaveFails(kind) == kind = "media" /\ setting.store = "sql"
FileAfter(x, kind) == things[x].file /\ kind # "media"

HandOver(r) ==
  LET q == req[r]
      kind == q.kinds[1]
      moved == ThingsOf(q.merged, kind)
  IN  /\ q.pc = "handOver" /\ q.kinds # <<>>
      /\ names' = [n \in Names |-> IF kind = "name" /\ n \in NamesOf(q.merged)
                                   THEN [owner |-> q.person, primary |-> FALSE] ELSE names[n]]
      /\ IF SaveFails(kind) /\ moved # {}
         THEN /\ req' = [req EXCEPT ![r] = Idle]
              /\ UNCHANGED things
         ELSE /\ req' = [req EXCEPT ![r].kinds = Tail(@)]
              /\ things' = [x \in Things |->
                              IF x \in moved
                              THEN [kind |-> kind, owner |-> q.person, file |-> FileAfter(x, kind)]
                              ELSE things[x]]
      /\ UNCHANGED <<people, log>>

\* DeletePerson: names, attributes and associations go with the person.
DeleteMerged(r) ==
  LET q == req[r] IN
  /\ q.pc = "handOver" /\ q.kinds = <<>>
  /\ people' = [people EXCEPT ![q.merged] = 0]
  /\ names' = [n \in Names |-> IF n \in NamesOf(q.merged) THEN NoName ELSE names[n]]
  /\ things' = [x \in Things |->
       IF x \in ThingsOf(q.merged, "attribute") \union ThingsOf(q.merged, "association")
       THEN NoThing ELSE things[x]]
  /\ req' = [req EXCEPT ![r] = Idle]
  /\ UNCHANGED log

-----------------------------------------------------------------------------
(* Another record of a person.  The commands that create one look at the   *)
(* person at most and append to a stream of the record's own, which nobody *)
(* else knows yet: one step.                                               *)

RecordThing(r) ==
  \E x \in Things, kind \in setting.kinds, p \in Persons :
    /\ req[r] = Idle /\ things[x] = NoThing /\ people[p] > 0
    /\ things' = [things EXCEPT ![x] = [kind |-> kind, owner |-> p, file |-> kind = "media"]]
    /\ UNCHANGED <<people, log, names, req>>

-----------------------------------------------------------------------------
Step(r) ==
  \/ AddName(r) \/ UpdateName(r) \/ DeleteName(r) \/ MergePersons(r)
  \/ DecideAdd(r) \/ DecideUpdate(r) \/ DecideRemove(r) \/ AppendEvents(r)
  \/ ProjectName(r) \/ ReadForVersion(r) \/ SaveVersion(r)
  \/ SaveSurvivor(r) \/ HandOver(r) \/ DeleteMerged(r) \/ RecordThing(r)

Next == UNCHANGED setting /\ \E r \in setting.slots : Step(r)

Spec == Init /\ [][Next]_vars

-----------------------------------------------------------------------------
(* Properties.                                                             *)

(***************************************************************************)
(* A person never has two primary names, not even between the events of    *)
(* one command, however commands and merges race (PersonName.IsPrimary).   *)
(***************************************************************************)
OnePrimaryName == \A p \in Persons : Cardinality(Primaries(p)) <= 1

AtRest == \A r \in Slots : req[r] = Idle
OneByOne == Cardinality(setting.slots) = 1

(***************************************************************************)
(* Between merges that come one by one, a merged person is gone and what   *)
(* was recorded of anyone belongs to a person that exists, with its file   *)
(* (projectPersonMerged: "updating the survivor, transferring              *)
(* relationships/data, and deleting the merged person").  Media does not   *)
(* pass a merge so.                                                        *)
(***************************************************************************)
MergeMovesAll ==
  OneByOne /\ AtRest =>
    /\ \A p \in absorbed : people[p] = 0
    /\ \A n \in Names : names[n] # NoName => people[names[n].owner] > 0
    /\ \A x \in Things : things[x] # NoThing =>
         people[things[x].owner] > 0 /\ (things[x].kind = "media" => things[x].file)
=============================================================================
