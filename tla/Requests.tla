------------------------------ MODULE Requests ------------------------------
(***************************************************************************)
(* One HTTP request from its arrival to its answer, while other requests   *)
(* change and delete the record it is about and end the branch it names    *)
(* (generated.go's wrappers, the handlers of ApiHandlers, middleware.go).  *)
(*                                                                         *)
(* Each refusal of `before' is a step of its own, a command's refusals are *)
(* one step, the append another, the read back another: other requests     *)
(* come between.  Any store call may fail.                                 *)
(*                                                                         *)
(* `record' is the row of what the path names; a create's is its own new   *)
(* one.  Not here: the content of an answer, and the branch's own line of  *)
(* versions.                                                               *)
(***************************************************************************)
EXTENDS ApiHandlers

CONSTANTS
  Operations,      \* the operations requested
  MaxVersion       \* bound: the version others may bring the record to

VARIABLES
  record,          \* the record: whether it is there, and its version
  branch,          \* the branch a request may name: "active", "ended", "unknown"
  request          \* what the server is doing, with its local variables

vars == <<record, branch, request>>

Idle == [pc |-> "idle"]

Init ==
  /\ record \in [there : BOOLEAN, version : {1, 2}]
  /\ branch \in {"active", "ended", "unknown"}
  /\ request = Idle

Handling == Handlers[request.op]
IsScoped(handler) == \E k \in DOMAIN handler.before : handler.before[k].cause = "scope"

(***************************************************************************)
(* A client asks, with a version it may have seen, of main or a branch.    *)
(* What a create makes is not there yet.                                   *)
(***************************************************************************)
Ask(op) ==
  LET h == Handlers[op] IN
  /\ request = Idle
  /\ \E version \in IF h.expects = "client" THEN 1..2 ELSE {0},
        onBranch \in IF IsScoped(h) THEN BOOLEAN ELSE {FALSE} :
       request' = [pc |-> "bind", op |-> op, at |-> 1, version |-> version, onBranch |-> onBranch,
                   gone |-> ~record.there, wrote |-> FALSE, status |-> 0, cause |-> "none"]
  /\ record' = IF h.effect = "create" THEN [there |-> FALSE, version |-> 0] ELSE record
  /\ UNCHANGED branch

Goto(pc) == request' = [request EXCEPT !.pc = pc, !.at = 1]
Answer(status, cause) ==
  request' = [request EXCEPT !.pc = "answered", !.status = status, !.cause = cause]

Succeed == Answer(Min(Answers[request.op]), "none")

\* A refusal's answer: its own, the handler's, the server's.
StatusOf(refusal, table) ==
  LET found == Answered(table, refusal.error)
  IN  CASE refusal.says # 0 -> refusal.says
        [] found # 0        -> found
        [] OTHER            -> customErrorHandler(refusal.error)

\* Whether a refusal is due; the rows it depends on may be beyond this module.
Due(refusal) ==
  CASE refusal.cause \in {"gone", "deleted", "lost"} -> {~record.there}
    [] refusal.cause = "stale"                      -> {request.version # record.version}
    [] refusal.cause = "lost name"                  ->
         IF record.there THEN {FALSE, request.version # record.version} ELSE {TRUE}
    [] OTHER                                        -> BOOLEAN

-----------------------------------------------------------------------------
(* The generated wrappers: parameters, then the body.                      *)

Bind ==
  /\ request.pc = "bind"
  /\ \/ Goto("before")
     \/ request.op \in Parsed /\ Answer(400, "parameter")
     \/ request.op \in Bodies /\ Answer(400, "invalid")
     \/ request.op \in Uploads /\ Answer(500, "invalid")
  /\ UNCHANGED <<record, branch>>

-----------------------------------------------------------------------------
(* The handler.                                                            *)

Checked == Handling.before[request.at]

ResolveScope ==
  LET line   == IF request.onBranch THEN branch ELSE "main"
      status == resolveBranchScope(CHOOSE mode \in Checked.error : TRUE, line)
  IN  /\ request.pc = "before" /\ request.at <= Len(Handling.before) /\ Checked.cause = "scope"
      /\ IF status = 0 THEN request' = [request EXCEPT !.at = @ + 1]
         ELSE Answer(status, IF branch = "ended" /\ "write" \in Checked.error
                             THEN "blocked" ELSE "gone")
      /\ UNCHANGED <<record, branch>>

\* A handler that deletes at the version it sees takes it from this read.
Check ==
  /\ request.pc = "before" /\ request.at <= Len(Handling.before) /\ Checked.cause # "scope"
  /\ \E refused \in Due(Checked) :
       IF refused THEN Answer(StatusOf(Checked, <<>>), Checked.cause)
       ELSE request' = [request EXCEPT !.at = @ + 1,
                          !.version = IF Handling.expects = "seen" THEN record.version ELSE @]
  /\ UNCHANGED <<record, branch>>

\* Past its checks a read answers.
Finish ==
  /\ request.pc = "before" /\ request.at > Len(Handling.before)
  /\ IF Handling.effect = "none" THEN Succeed ELSE Goto("command")
  /\ UNCHANGED <<record, branch>>

\* The command: the first refusal that is due, nothing to write, or a write.
Refuse(k) ==
  /\ TRUE \in Due(Handling.command[k])
  /\ \A j \in 1..k - 1 : FALSE \in Due(Handling.command[j])
  /\ Answer(StatusOf(Handling.command[k], Handling.own), Handling.command[k].cause)

Decide ==
  LET h == Handling IN
  /\ request.pc = "command"
  /\ \/ \E k \in DOMAIN h.command : Refuse(k)
     \/ /\ \A k \in DOMAIN h.command : FALSE \in Due(h.command[k])
        /\ \/ request' = [request EXCEPT !.pc = "append",
                            !.version = IF h.expects = "row" THEN record.version ELSE @]
           \/ h.skips /\ Goto("after")
  /\ UNCHANGED <<record, branch>>

Written(effect) ==
  CASE effect = "create" -> [there |-> TRUE, version |-> 1]
    [] effect = "update" -> [there |-> record.there, version |-> record.version + 1]
    [] effect = "delete" -> [there |-> FALSE, version |-> record.version + 1]
    [] OTHER             -> record

\* The commands that end in `execute', which drops a projection's error.
Executes(h) ==
  /\ h.effect \in {"create", "update", "delete"}
  /\ request.op \notin DOMAIN BranchHandlers \union DOMAIN MergeHandlers
                        \union DOMAIN SnapshotHandlers

\* A batch may have written nothing; a direct write of a missing row does nothing.
AppendEvents ==
  LET h == Handling
      accepted == \/ h.expects = "none"
                  \/ h.expects = "there" /\ record.there
                  \/ h.expects \notin {"none", "there"} /\ request.version = record.version
  IN  /\ request.pc = "append"
      /\ IF accepted
         THEN /\ \/ record' = Written(h.effect)
                 \/ Executes(h) /\ UNCHANGED record
              /\ \E wrote \in CASE h.effect = "batch"  -> BOOLEAN
                                [] h.effect = "direct" -> {record.there}
                                [] OTHER               -> {TRUE} :
                   request' = [request EXCEPT !.pc = "after", !.wrote = wrote,
                                              !.version = record'.version]
         ELSE /\ Answer(StatusOf(Refusal("stale", {h.conflict}), h.own),
                        IF h.expects = "there" THEN "gone" ELSE "stale")
              /\ UNCHANGED record
      /\ UNCHANGED branch

\* What it reads back, or what stopped the rest of the write.
Reread ==
  LET due == {refusal \in Handling.after : TRUE \in Due(refusal)} IN
  /\ request.pc = "after"
  /\ \/ \E refusal \in due : Answer(StatusOf(refusal, Handling.late), refusal.cause)
     \/ (\A refusal \in Handling.after : FALSE \in Due(refusal)) /\ Succeed
  /\ UNCHANGED <<record, branch>>

\* A store call fails: before the write, or after it.  A batch goes on.
StoreFails ==
  /\ request.pc \in {"before", "command", "append", "after"} /\ Handling.effect # "batch"
  /\ Answer(IF request.pc = "before" /\ request.at <= Len(Handling.before)
            THEN Handling.unread ELSE 500, "fault")
  /\ UNCHANGED <<record, branch>>

-----------------------------------------------------------------------------
(* Other requests.  Nobody else knows what a create has not made yet.      *)

Underway == request.pc \notin {"idle", "answered"}

OtherEdit ==
  /\ Underway /\ record.there /\ record.version < MaxVersion
  /\ record' = [record EXCEPT !.version = @ + 1]
  /\ UNCHANGED <<branch, request>>

\* A branch's record stays.
OtherDelete ==
  /\ Underway /\ record.there /\ record.version < MaxVersion
  /\ request.op \notin DOMAIN BranchHandlers \union DOMAIN MergeHandlers
  /\ record' = [there |-> FALSE, version |-> record.version + 1]
  /\ UNCHANGED <<branch, request>>

EndBranch ==
  /\ Underway /\ branch = "active"
  /\ branch' = "ended"
  /\ UNCHANGED <<record, request>>

Next ==
  \/ \E op \in Operations : Ask(op)
  \/ Bind \/ ResolveScope \/ Check \/ Finish \/ Decide \/ AppendEvents \/ Reread
  \/ StoreFails
  \/ OtherEdit \/ OtherDelete \/ EndBranch

Spec == Init /\ [][Next]_vars

-----------------------------------------------------------------------------
(* Properties.                                                             *)

AnsweredNow == request.pc = "answered"

\* Answers 500 to what is not the server's fault: a sentinel nobody maps, an
\* error without one, a nil row.
Unmapped ==
  {"CreateFamily", "UpdateMedia", "DeleteMedia", "AddPersonName", "UpdatePersonName",
   "DeletePersonName", "CreateAssociation", "UpdateAssociation", "GetPersonsByPlace",
   "GetPersonsBySurname", "GetPersonsByCemetery"} \union Uploads

OfBranches == {"BrowsePlaces", "BrowseSurnames", "GetMapLocations", "GetPersonsByPlace",
               "GetPersonsBySurname", "GetPersonsByCemetery"}

(***************************************************************************)
(* An operation answers what the OpenAPI document says it may, whichever   *)
(* of its checks refuses and whatever other requests do meanwhile.  Except *)
(* for a failing store, a parameter that does not parse and a record lost  *)
(* before it is read back, these operations do not: Unmapped; a branch     *)
(* that is not there, when browsing; a child that is not in the family;    *)
(* the body of a brick wall.                                               *)
(***************************************************************************)
AnswerIsDocumented ==
  AnsweredNow =>
    \/ request.status \in Answers[request.op]
    \/ request.cause \in {"fault", "parameter", "lost"}
    \/ request.status = 500 /\ request.op \in Unmapped
    \/ request.status = 404 /\ request.op \in OfBranches
    \/ request.status = 400 /\ request.op \in {"RemoveChildFromFamily", "SetPersonBrickWall"}

\* What a client may conclude from a status.
Means ==
  [none |-> 200..204, gone |-> {404}, lost |-> {404}, stale |-> {409}, blocked |-> {409},
   deleted |-> {409}, invalid |-> {400}, parameter |-> {400}, unknown |-> {400, 404},
   fault |-> {500}, partial |-> {500}, off |-> {503}]

OfARecord ==
  {op \in DOMAIN Answers : 404 \in Answers[op] /\ Handlers[op].effect # "create"}
    \ {"ListPersons", "GetCitationTemplate", "PreviewCitationTemplate"}

(***************************************************************************)
(* The status tells a client what to do next: a 404 that the record is     *)
(* gone, a 409 to reload or that something is in the way, a 400 to send    *)
(* something else, a 500 that the server failed; and success is never the  *)
(* answer about a record that was gone from the start.  It holds however   *)
(* the record changes between the handler's reads, but for Unmapped; a     *)
(* stale edit of a family (a 400); two reads of associations, where a      *)
(* failing store is a 404; and the names and citations of a person, which  *)
(* are listed without a look at the person.                                *)
(***************************************************************************)
StatusTellsWhy ==
  AnsweredNow =>
    /\ \/ request.cause \in DOMAIN Means /\ request.status \in Means[request.cause]
       \/ request.status = 500 /\ request.op \in Unmapped
       \/ request.op = "UpdateFamily" /\ request.cause = "stale" /\ request.status = 400
       \/ /\ request.op \in {"GetAssociation", "ListAssociationsForPerson"}
          /\ request.cause = "fault" /\ request.status = 404
    /\ request.gone /\ request.cause = "none" /\ request.op \in OfARecord
         => request.op \in {"GetPersonNames", "GetCitationsForPerson"}

(***************************************************************************)
(* A refusal wrote nothing, so that the client may try again ("the other   *)
(* refusals mean nothing was written", branch_handlers.go:356), unless     *)
(* there is no row to show of what was written: another request has        *)
(* deleted it, or its projection was lost.                                 *)
(***************************************************************************)
RefusalWroteNothing ==
  AnsweredNow /\ request.status \in 400..499 /\ request.wrote => ~record.there

=============================================================================
