----------------------------- MODULE ReleaseAudit -----------------------------
(***************************************************************************)
(* cleanroom_eval/release/build_release_candidate.py and export_release of *)
(* banking_v3/release.py: the allowlisted files are read one by one into   *)
(* an archive, its gates are judged, and export_release unpacks it when no *)
(* gate failed.                                                            *)
(*                                                                         *)
(* The repository is one file of each kind the gates tell apart; what is   *)
(* wrong with a file is its content.  Paths, owners and the manifest of    *)
(* the archive, which build_archive makes itself, are left out with their  *)
(* two gates.  Installing and running the tutorial may fail for a reason   *)
(* outside the archive.                                                    *)
(***************************************************************************)
EXTENDS OperatorDesk

CONSTANT Machines   \* which private inputs a machine has, see machine

ASSUME MachinesAssumption ==
    Machines \subseteq [denylist : BOOLEAN, registry : BOOLEAN,
                        corpus : BOOLEAN, dataset : BOOLEAN,
                        oracle : BOOLEAN]

VARIABLES
    machine,    \* never changes
    tree,       \* the repository: file -> content, "absent" included
    candidate,  \* --out: [archive, report], each {} or {content}
    exported    \* root: [archive, report, tree, ok], each {} or {content}

releaseVars == <<machine, tree, candidate, exported>>

\* The note may hold text of the private inputs: "oracle" is a text that starts
\* as one of the first 200 rows of the citation oracle does, the only ones that
\* the gate searches for.  The file "oracle" is any file of a denied name.
Contents ==
    [cases |-> {"fine", "private", "invalid"},
     code |-> {"fine", "broken", "secret"},
     licence |-> {"fine", "absent"},
     note |-> {"fine", "identifier", "name", "verbatim", "oracle"},
     oracle |-> {"fine"}]

Files == DOMAIN Contents

EmptyOut == [archive |-> {}, report |-> {}]
EmptyRoot == [archive |-> {}, report |-> {}, tree |-> {}, ok |-> {}]

ReleaseInit ==
    /\ machine \in Machines /\ tree = [f \in Files |-> "fine"]
    /\ candidate = EmptyOut /\ exported = EmptyRoot

Edit ==
    /\ Change
    /\ \E f \in Files : \E c \in Contents[f] \ {tree[f]} :
           tree' = [tree EXCEPT ![f] = c]
    /\ UNCHANGED <<machine, candidate, exported>>

AnotherRoot ==  \* the next export is given a new directory
    /\ command = "none" /\ exported # EmptyRoot /\ exported' = EmptyRoot
    /\ UNCHANGED <<deskVars, machine, tree, candidate>>

-----------------------------------------------------------------------------
(* _iter_allowlist and build_archive, first and again for the rebuild *)
Denied == {"oracle"}

Allowed == {f \in Files \ Denied : tree[f] # "absent"}

\* The files in the order of their names.
Order == <<"cases", "code", "licence", "note", "oracle">>

ReleasePlaces == {"listed", "read", "listed_again", "read_again"}

StartAudit == Give("audit", ReleasePlaces) /\ UNCHANGED releaseVars

StartExport ==
    /\ exported = EmptyRoot  \* "release output must be empty"
    /\ Give("export", ReleasePlaces) /\ UNCHANGED releaseVars

Releasing == command \in {"audit", "export"}

\* Steps of the two passes: the listing, one step per file, the archive.
Pass(n) == (n - 1) \div (Len(Order) + 2)
Step(n) == (n - 1) % (Len(Order) + 2)

Listed == IF Pass(at) = 0 THEN "listed" ELSE "listed_again"
Blobs == IF Pass(at) = 0 THEN "read" ELSE "read_again"

ListFiles ==
    /\ Releasing /\ Pass(at) < 2 /\ Step(at) = 0
    /\ Take(Listed, Allowed)
    /\ UNCHANGED releaseVars

\* read_bytes raises when the file has gone since it was listed.
ReadFile ==
    /\ Releasing /\ Pass(at) < 2 /\ Step(at) \in DOMAIN Order
    /\ LET f == Order[Step(at)]
       IN  IF f \notin got[Listed] THEN GoOn
           ELSE IF tree[f] = "absent" THEN Leave
           ELSE Take(Blobs, got[Blobs] \union {[name |-> f, blob |-> tree[f]]})
    /\ UNCHANGED releaseVars

\* The rebuild goes to a scratch directory.
WriteArchive ==
    /\ Releasing /\ Pass(at) < 2 /\ Step(at) = Len(Order) + 1 /\ GoOn
    /\ candidate' = IF command = "audit" /\ Pass(at) = 0
                    THEN [candidate EXCEPT !.archive = {got["read"]}]
                    ELSE candidate
    /\ exported' = IF command = "export" /\ Pass(at) = 0
                   THEN [exported EXCEPT !.archive = {got["read"]}]
                   ELSE exported
    /\ UNCHANGED <<machine, tree>>

-----------------------------------------------------------------------------
(* The gates, over the members of the archive *)
Holds(members, blob) == \E m \in members : m.blob = blob
Named(members, name) == \E m \in members : m.name = name
FailIf(found) == IF found THEN "FAIL" ELSE "PASS"
IfHad(had, status) == IF had THEN status ELSE "NOT_RUN"

\* The denylist is part of the patterns: without it nothing is sought.  The
\* oracle's rows are sought only where the oracle is: elsewhere the gate judges
\* by the names alone, and says PASS, not NOT_RUN.
Gates(members, rebuilt, tutorial) ==
    [secret_scan |-> FailIf(Holds(members, "secret")),
     internal_identifier_scan |->
         FailIf(machine.denylist /\ Holds(members, "identifier")),
     registry_identity_scan |->
         IfHad(machine.registry, FailIf(Holds(members, "name"))),
     source_shingle_overlap |->
         IfHad(machine.corpus, FailIf(Holds(members, "verbatim"))),
     private_gold_leak |->
         FailIf(\/ Named(members, "oracle")
                \/ machine.oracle /\ Holds(members, "oracle")),
     license_inventory |-> FailIf(~Named(members, "licence")),
     deterministic_rebuild |-> FailIf(members # rebuilt),
     import_smoke |-> FailIf(Holds(members, "broken")),
     clean_machine_tutorial |-> tutorial]

\* export_release has two more.
ExportGates(members) ==
    [v3_development_replay |-> "PASS",
     v3_private_instances |->
         IfHad(machine.dataset, FailIf(Holds(members, "private")))]

\* The tutorial needs code that runs, and passes with a limitation.
Tutorials(members) ==
    IF Holds(members, "broken") THEN {"FAIL"} ELSE {"PASS", "FAIL"}

Failed(gates, names) == \E g \in names : gates[g] = "FAIL"

\* terminal_state(): the first of these that a failed gate gives.
Refusals ==
    <<[state |-> "PRIVATE_GOLD_LEAK", gates |-> {"private_gold_leak"}],
      [state |-> "SECRET_OR_IDENTIFIER_LEAK",
       gates |-> {"secret_scan", "internal_identifier_scan",
                  "registry_identity_scan"}],
      [state |-> "SOURCE_OVERLAP_DETECTED", gates |-> {"source_shingle_overlap"}],
      [state |-> "RIGHTS_OR_LICENSE_UNRESOLVED", gates |-> {"license_inventory"}],
      [state |-> "RUNTIME_NOT_REPRODUCIBLE",
       gates |-> {"deterministic_rebuild", "import_smoke",
                  "clean_machine_tutorial"}]>>

\* RELEASE_AUDIT_PASS is out of reach: a tutorial that passes carries a
\* limitation.
TerminalState(gates) ==
    LET refused == {i \in DOMAIN Refusals : Failed(gates, Refusals[i].gates)}
    IN  IF refused = {} THEN "RELEASE_AUDIT_PASS_WITH_LIMITATIONS"
        ELSE Refusals[CHOOSE i \in refused : \A j \in refused : i <= j].state

ReportOf(members, gates) ==
    [archive |-> members, gates |-> gates, state |-> TerminalState(gates)]

Judging == Releasing /\ at = 2 * (Len(Order) + 2) + 1

\* main() reports, whatever the verdict.
AuditReports ==
    /\ Judging /\ command = "audit" /\ Leave
    /\ \E tutorial \in Tutorials(got["read"]) :
           candidate' = [candidate EXCEPT !.report =
               {ReportOf(got["read"],
                         Gates(got["read"], got["read_again"], tutorial))}]
    /\ UNCHANGED <<machine, tree, exported>>

AllGates(tutorial) ==
    LET first == Gates(got["read"], got["read_again"], tutorial)
        more == ExportGates(got["read"])
    IN  [g \in DOMAIN first \union DOMAIN more |->
            IF g \in DOMAIN first THEN first[g] ELSE more[g]]

MayExportIfStated(report) ==  \* a slip: the verdict decides, not the gates
    report.state = "RELEASE_AUDIT_PASS_WITH_LIMITATIONS"

MayExport(report) == ~Failed(report.gates, DOMAIN report.gates)

\* Cases that do not load raise before there is a report; a failed gate
\* raises after.
ExportReports ==
    /\ Judging /\ command = "export"
    /\ IF Holds(got["read"], "invalid") THEN Leave /\ UNCHANGED exported
       ELSE \E tutorial \in Tutorials(got["read"]) :
                LET report == ReportOf(got["read"], AllGates(tutorial))
                IN  /\ exported' = [exported EXCEPT !.report = {report}]
                    /\ IF MayExport(report) THEN GoOn ELSE Leave
    /\ UNCHANGED <<machine, tree, candidate>>

ExtractTree ==
    /\ command = "export" /\ at = 2 * (Len(Order) + 2) + 2 /\ GoOn
    /\ exported' = [exported EXCEPT !.tree = @ \union exported.archive]
    /\ UNCHANGED <<machine, tree, candidate>>

WriteExportOk ==
    /\ command = "export" /\ at = 2 * (Len(Order) + 2) + 3 /\ Leave
    /\ exported' = [exported EXCEPT !.ok =
                       {r.archive : r \in exported.report}]
    /\ UNCHANGED <<machine, tree, candidate>>

ReleaseNext ==
    \/ Edit \/ AnotherRoot \/ StartAudit \/ StartExport
    \/ ListFiles \/ ReadFile \/ WriteArchive
    \/ AuditReports \/ ExportReports \/ ExtractTree \/ WriteExportOk

-----------------------------------------------------------------------------
\* What no release may hold, as far as the machine can tell.
Leaks ==
    {"secret", "broken"}
    \union (IF machine.denylist THEN {"identifier"} ELSE {})
    \union (IF machine.registry THEN {"name"} ELSE {})
    \union (IF machine.corpus THEN {"verbatim"} ELSE {})
    \union (IF machine.oracle THEN {"oracle"} ELSE {})

Releasable(members) ==
    /\ \A blob \in Leaks : ~Holds(members, blob)
    /\ Named(members, "licence") /\ ~Named(members, "oracle")

\* Files may be edited between any two reads and a command may be killed
\* between any two writes: a report that does not refuse the archive beside it
\* (an older one may lie there) is about an archive with nothing in it that
\* must not leave, and an EXPORT-OK stands only beside the whole tree of the
\* archive it names, which the report passed and which holds no private
\* instance of the dataset the machine has.
ReleasesAreAudited ==
    /\ \A d \in {<<candidate.archive, candidate.report>>,
                 <<exported.archive, exported.report>>} :
           \A r \in d[2] :
               d[1] = {r.archive}
               /\ r.state = "RELEASE_AUDIT_PASS_WITH_LIMITATIONS"
                   => Releasable(r.archive)
    /\ \A members \in exported.ok :
           /\ exported.tree = {members} /\ exported.archive = {members}
           /\ Releasable(members)
           /\ machine.dataset => ~Holds(members, "private")
           /\ ~Holds(members, "invalid")
=============================================================================
