--------------------------- MODULE MCCommandExec ----------------------------
(***************************************************************************)
(* Small instances of CommandExec, a person with a name and a birth place, *)
(* of Requests, every operation of the API, and of GedcomImport, the one   *)
(* command of many appends.  They share nothing, so a behaviour is one of  *)
(* one part.                                                               *)
(***************************************************************************)
EXTENDS CommandExec
CONSTANTS c1, c2, Parts, MaxVersion, MaxFailures, MaxOthers
VARIABLES part, record, branch, request,
          file, work, at, call, seen, heads, versions, names, kids, edge, count,
          saved, report, others, upset, answer

Contract == INSTANCE ApiContract
Operations == DOMAIN Contract!Answers
Api == INSTANCE Requests

Symmetry == Permutations({c1, c2} \intersect Commands)

Named == {[name |-> "ann"]}
Updates == {[name |-> "eve"], [place |-> "bern"]}

-----------------------------------------------------------------------------
(* Documents.                                                              *)

Individual(xref, male, number, cites, has, associates) ==
  [xref |-> xref, male |-> male, names |-> number, cites |-> cites, has |-> has,
   associates |-> associates]

Household(husband, wife, children, cites, has) ==
  [xref |-> "f", husband |-> husband, wife |-> wife, children |-> children,
   cites |-> cites, has |-> has]

Document(rest, sources, persons, families, extras) ==
  [repositories |-> rest, notes |-> rest, submitters |-> rest,
   sources |-> [n \in 1..sources |-> [xref |-> "s"]],
   persons |-> persons, families |-> families, extras |-> extras]

\* A child of two families, listed twice in the first; one of two sources.
TwoHomes ==
  Document(0, 2,
    <<Individual("dad", TRUE, 2, <<"s">>, {}, <<>>),
      Individual("mum", FALSE, 1, <<>>, {}, <<>>),
      Individual("kid", TRUE, 0, <<>>, {}, <<>>)>>,
    <<Household("dad", "mum", <<"kid", "ghost", "kid">>, <<"s">>, {}),
      Household("mum", "", <<"kid">>, <<>>, {})>>, {})

\* A family whose only partner is not in the file; one of two men.
NoPartner ==
  Document(0, 0,
    <<Individual("a", TRUE, 0, <<>>, {}, <<>>), Individual("b", TRUE, 1, <<>>, {}, <<>>),
      Individual("c", FALSE, 0, <<>>, {}, <<>>), Individual("d", FALSE, 0, <<>>, {}, <<>>)>>,
    <<Household("ghost", "", <<"c">>, <<>>, {"event"}),
      Household("a", "b", <<"c", "d">>, <<>>, {})>>, {})

\* Every kind of record; xrefs used twice, or not at all; coordinates and ids.
OfEverything ==
  Document(1, 2,
    <<Individual("a", TRUE, 1, <<"s", "none">>, {"event", "attribute", "ordinance"}, <<"a", "ghost">>),
      Individual("a", FALSE, 0, <<>>, {}, <<>>)>>,
    <<Household("a", "ghost", <<>>, <<>>, {"event", "ordinance"})>>,
    {"person", "source", "family", "event"})

NobodyInIt == Document(0, 1, <<>>, <<>>, {})

Gedcom == INSTANCE GedcomImport WITH
            Files <- {TwoHomes, NoPartner, OfEverything, NobodyInIt}

-----------------------------------------------------------------------------
apiVars == <<record, branch, request>>
importVars == <<file, work, at, call, seen, heads, versions, names, kids, edge, count,
                saved, report, others, upset, answer>>

InitPart ==
  /\ part \in Parts
  /\ Init
  /\ IF part = "api" THEN Api!Init
     ELSE record = [there |-> FALSE, version |-> 0] /\ branch = "active" /\ request = Api!Idle
  /\ IF part = "import" THEN Gedcom!Init
     ELSE file = 0 /\ work = 0 /\ at = 0 /\ call = 0 /\ seen = 0
          /\ heads = 0 /\ versions = 0 /\ names = 0 /\ kids = 0 /\ edge = 0
          /\ count = 0 /\ saved = 0 /\ report = 0 /\ others = 0 /\ upset = 0
          /\ answer = 0

NextPart ==
  \/ part = "command" /\ Next /\ UNCHANGED <<part, apiVars, importVars>>
  \/ part = "api" /\ Api!Next /\ UNCHANGED <<part, vars, importVars>>
  \/ part = "import" /\ Gedcom!Next /\ UNCHANGED <<part, vars, apiVars>>

SpecPart == InitPart /\ [][NextPart]_<<part, vars, apiVars, importVars>>

-----------------------------------------------------------------------------
(***************************************************************************)
(* Requests: an operation answers what the OpenAPI document says it may,   *)
(* but for the exceptions Requests names (middleware.go, the handlers).    *)
(***************************************************************************)
AnswerIsDocumented == Api!AnswerIsDocumented

(***************************************************************************)
(* Requests: a status tells why, however the record and the branch change  *)
(* between the handler's reads (server_strict.go, branch_handlers.go).     *)
(***************************************************************************)
StatusTellsWhy == Api!StatusTellsWhy

(***************************************************************************)
(* Requests: a refusal wrote nothing that is still there                   *)
(* (mergeBranchErrorResponse, and the read back after a write).            *)
(***************************************************************************)
RefusalWroteNothing == Api!RefusalWroteNothing


(***************************************************************************)
(* GedcomImport: an import with nothing to report leaves the file's tree   *)
(* (linkChildToFamily, projectChildLinked).                                *)
(***************************************************************************)
TreeIsTheFile == part = "import" => Gedcom!TreeIsTheFile
=============================================================================
