------------------------------ MODULE MCParts ------------------------------
(* Instances for TLC of nine parts of the program that share no state in     *)
(* these models: "which" picks the part a behaviour is about, and the         *)
(* variables of the others stay as they are.                                  *)
EXTENDS SiteEvaluation, ProjectIntelligence, SiteActions, Ledger, CandidateDecision,
        ClaimGraph, Worlds, SpecialistTask, ProductRequests

VARIABLE which
partVars ==
  <<which, evaluationVars, intelVars, siteVars, ledgerVars, decisionVars, graphVars, worldVars, taskVars, productVars>>

Answers == [g \in {"zoning"} |-> {"codes"}]
Parcels == [s \in Snapshots |-> 1]

-----------------------------------------------------------------------------
\* Site evaluation: geometry evidence of every age on a parcel in one or two
\* pieces, with and without what blocks it; or one record that is not fine.
Record(statuses, values, expiries, scopes) == [status : statuses, value : values, expires : expiries, scope : scopes]
Fine(v, scope) == [status |-> "ok", value |-> v, expires |-> 3, scope |-> scope]
ScopeOf == [floodplain |-> "POINT", slope |-> "POINT", wetland |-> "PARCEL", acreage |-> "PARCEL", zoning |-> "PARCEL",
            status |-> "NEAREST_FEATURE", distance |-> "NEAREST_FEATURE"]
ObservedFields == DOMAIN ScopeOf
AllFine == [f \in ObservedFields \cup GeometryFields |->
              IF f \in GeometryFields THEN Fine(0, "PARCEL")
              ELSE Fine(IF f = "floodplain" THEN 0 ELSE 1, ScopeOf[f])]
Layouts == {[o \in {"old"} |-> <<3, 6>>], [o \in {"old"} |-> <<0, 2>>],
            [o \in {"old", "new"} |-> IF o = "old" THEN <<3, 6>> ELSE <<8, 10>>]}
Questions ==
  {<<{"wetland_fraction", "acreage_range"}, {"wetland", "acreage"}>>,
   <<{"point_slope", "footprint_inside_parcel"}, {"slope"}>>,
   <<{"outside_floodplain", "zoning_code_in"}, {"floodplain", "zoning"}>>,
   <<{"line_distance", "road_distance"}, {"status", "distance"}>>,
   <<{"heavy_haul"}, {"status"}>>}
Ages == {[Fine(0, "PARCEL") EXCEPT !.expires = t] : t \in {None, 1, 2}}
        \cup {[Fine(None, "PARCEL") EXCEPT !.status = "failed", !.expires = None]}
EvalInit ==
  /\ clock = 0 /\ verdict = NoVerdict /\ proposal = [status |-> "none"]
  /\ \/ /\ requested = Geometric /\ layout \in Layouts
        /\ \E age \in Ages, exact \in BOOLEAN, e \in {1, 3},
              p \in {{<<0, 12>>}, {<<0, 7>>, <<8, 12>>}}, b \in {{}, {<<4, 5>>}} :
             snapshot = [exact |-> exact, expires |-> e, parcel |-> p, blocked |-> b,
                         evidence |-> [f \in DOMAIN AllFine |-> IF f \in GeometryFields THEN age ELSE AllFine[f]]]
     \/ /\ layout = [o \in {"old"} |-> <<3, 6>>]
        /\ \E question \in Questions, exact \in BOOLEAN :
             /\ requested = question[1]
             /\ \E f \in question[2] :
                  \E r \in Record({"ok", "failed"}, {0, 2, Unusable, None}, {None, 1, 3}, {"PARCEL", ScopeOf[f]}) :
                    snapshot = [exact |-> exact, expires |-> 3, parcel |-> {<<0, 12>>}, blocked |-> {},
                                evidence |-> [AllFine EXCEPT ![f] = r]]
EvalIdle ==
  /\ clock = 0 /\ snapshot = 0 /\ layout = 0 /\ requested = {} /\ verdict = 0 /\ proposal = 0

\* Project intelligence: a site all of whose evidence is there, or one whose
\* area was never found.
Meets(t) == [value |-> "meets", expires |-> t]
Records == {[area |-> Meets(1), slope |-> Meets(3)], [area |-> Absent, slope |-> Meets(2)]}
IntelIdle ==
  /\ moment = 0 /\ requirements = {} /\ document = 0 /\ awaiting = 0 /\ onRecord = 0 /\ made = 0 /\ recorded = {}

SiteIdle ==
  /\ siteDocument = 0 /\ waiting = 0 /\ siteChanges = {} /\ graphMemory = {} /\ snapshots = 0 /\ deaths = 0
BookIdle == instant = 0 /\ live = 0 /\ rows = <<>> /\ drift = {} /\ server = 0

\* The decision of a project, between evidence that passes and evidence that
\* fails the requirement which is still to be made precise.
Good == [v \in Supported |-> "PASS"]
Dossiers == {{Good, [Good EXCEPT !["codes"] = "FAIL"]}}
ChoiceIdle == project = 0 /\ held = 0 /\ dossiers = {}

GraphStart == {d \in Coverages(1) : d.outcome = "PASS"}
GraphIdle ==
  graphDocument = 0 /\ graphChanges = {} /\ claims = 0 /\ busy = 0 /\ saves = 0

\* Worlds: sources of which one thing does not work, and a world that an older
\* version of the program has stored.
Up == [catalog |-> TRUE, products |-> {1, 10}, large |-> FALSE, holes |-> {}, downloads |-> TRUE, exports |-> TRUE,
       dated |-> {1, 10}, up |-> {"roads", "buildings"}]
Sources ==
  {Up, [Up EXCEPT !.catalog = FALSE, !.up = {"roads"}], [Up EXCEPT !.large = TRUE, !.dated = {1}],
   [Up EXCEPT !.holes = {1}], [Up EXCEPT !.exports = FALSE],
   [Up EXCEPT !.downloads = FALSE, !.up = {}], [Up EXCEPT !.products = {}]}
Wanted == {{"terrain", "roads"}, {"terrain", "roads", "buildings", "transmission"}}
OldTerrain == [available |-> TRUE, builtFor |-> <<1, 1>>, version |-> 1, datum |-> TRUE]
OldWorld == [snapshot |-> 1, aoi |-> <<1, 1>>, layers |-> [l \in {"terrain"} |-> OldTerrain]]
WorldIdle == worlds = <<>> /\ request = 0 /\ last = 0 /\ scene = 0

\* Tasks: documents that differ in outcome and evidence; models that cite what
\* is there and what is not, and assert the outcome and its opposite; a plan of
\* two tasks, one of one task, and two that ask for more than their role has.
Item(expires, scope, strength, review) ==
  [ok |-> TRUE, expires |-> expires, scope |-> scope, strength |-> strength, review |-> review]
Documents ==
  {[since |-> 0, outcome |-> "PASS", needs |-> {"area"},
    evidence |-> [e \in {"area", "owner"} |-> IF e = "area" THEN Item(1, "PARCEL", "DIRECTLY_VERIFIED", FALSE)
                                              ELSE Item(2, "POINT", "SOURCE_BACKED_SIGNAL", TRUE)]],
   [since |-> 0, outcome |-> "FAIL", needs |-> {"area"},
    evidence |-> [e \in {"area"} |-> Item(2, "PARCEL", "SOURCE_BACKED_SIGNAL", FALSE)]]}
Says(id, outcome, cited, scope) == [id |-> id, outcome |-> outcome, cited |-> cited, scope |-> scope]
Observations ==
  {[claims |-> {Says("c1", "PASS", {"area"}, "PARCEL")}, asks |-> FALSE, found |-> TRUE],
   [claims |-> {Says("c2", "FAIL", {"area"}, "any")}, asks |-> FALSE, found |-> TRUE],
   [claims |-> {Says("c2", "FAIL", {"area"}, "any"), Says("c3", "FAIL", {"owner"}, "any")}, asks |-> FALSE, found |-> FALSE],
   [claims |-> {Says("c1", "none", {"owner"}, "any")}, asks |-> TRUE, found |-> TRUE],
   [claims |-> {Says("c1", "PASS", {"area", "owner"}, "PARCEL"), Says("c2", "PASS", {"area"}, "any")},
    asks |-> FALSE, found |-> TRUE]}
TaskOf(role, permissions, success) == [role |-> role, permissions |-> permissions, success |-> success]
Plans ==
  {<<TaskOf("POWER", {"read:project", "read:evidence", "read:power"}, "DETERMINISTIC_OUTCOME"),
     TaskOf("VERIFICATION", {"read:evidence"}, "VERIFICATION_PASSED")>>,
   <<TaskOf("SCENARIO", {"read:scenarios", "read:project"}, "OUTPUT_PRESENT")>>,
   <<TaskOf("POWER", {"read:scenarios", "read:evidence"}, "OUTPUT_PRESENT")>>,
   <<TaskOf("SITE_INTELLIGENCE", {"read:project", "read:power"}, "OUTPUT_PRESENT")>>}
ToolRequests == [tool : {"power_readiness", "compare", "memory"}, own : BOOLEAN]
TaskIdle == hour = 0 /\ versions = <<>> /\ run = 0 /\ batch = 0 /\ taskClaims = {} /\ losses = 0

ProductIdle == product = 0 /\ handlers = 0 /\ quotes = 0 /\ confirmed = {}

-----------------------------------------------------------------------------
Init ==
  /\ which \in {"evaluation", "intelligence", "site", "ledger", "decision", "graph", "worlds", "task", "product"}
  /\ IF which = "evaluation" THEN EvalInit ELSE EvalIdle
  /\ IF which = "intelligence" THEN IntelligenceInit(Records) ELSE IntelIdle
  /\ IF which = "site" THEN SiteInit ELSE SiteIdle
  /\ IF which = "ledger" THEN LedgerInit ELSE BookIdle
  /\ IF which = "decision" THEN DecisionInit(Dossiers) ELSE ChoiceIdle
  /\ IF which = "graph" THEN GraphInit(GraphStart) ELSE GraphIdle
  /\ IF which = "worlds" THEN WorldInit({<<>>, <<OldWorld>>}) ELSE WorldIdle
  /\ IF which = "task" THEN TaskInit(Documents, Plans) ELSE TaskIdle
  /\ IF which = "product" THEN ProductInit ELSE ProductIdle

\* First what stays as it is, then the step of the part.
Next ==
  /\ UNCHANGED which
  /\ which /= "evaluation" => UNCHANGED evaluationVars
  /\ which /= "intelligence" => UNCHANGED intelVars
  /\ which /= "site" => UNCHANGED siteVars
  /\ which /= "ledger" => UNCHANGED ledgerVars
  /\ which /= "decision" => UNCHANGED decisionVars
  /\ which /= "graph" => UNCHANGED graphVars
  /\ which /= "worlds" => UNCHANGED worldVars
  /\ which /= "task" => UNCHANGED taskVars
  /\ which /= "product" => UNCHANGED productVars
  /\ \/ which = "evaluation" /\ EvaluationNext
     \/ which = "intelligence" /\ IntelligenceNext
     \/ which = "site" /\ SiteNext
     \/ which = "ledger" /\ LedgerNext
     \/ which = "decision" /\ DecisionNext
     \/ which = "graph" /\ GraphNext
     \/ which = "worlds" /\ WorldNext(Wanted, Sources)
     \/ which = "task" /\ TaskNext(Documents, Observations, ToolRequests)
     \/ which = "product" /\ ProductNext

Spec == Init /\ [][Next]_partVars

-----------------------------------------------------------------------------
\* Evaluation and placement: a constraint passes only on evidence that was there,
\* of the scope it asks for, and current; what was placed keeps the setback and
\* what the user gave, and is as large as any that is tried allows.
EvaluationIsSound == which = "evaluation" => PassIsProved /\ ProposalFits

\* A later evaluation of the same layout may lose a verdict to the age of the
\* evidence and never reverses one or finds a new one.
OnlyExpires == [][which = "evaluation" => VerdictsOnlyExpire]_evaluationVars

\* A project is called ready only if at that moment current evidence of the
\* active site, and nothing a source or a user says, meets every requirement.
ReadyIsProved == which = "intelligence" => ReadyStateIsProved

\* A requirement whose status a refresh of the active site changes, against the
\* project it read, is named by a change the refresh records, unless evidence it
\* rests on has just run out; and no gap is dropped, whatever site is looked at:
\* it is open or closed, or an operation that awaited has saved the gaps it read.
NothingIsDropped ==
  [][which = "intelligence" => StatusChangeIsRecorded /\ GapsAreKept]_intelVars

\* Whatever is lost or saved over, a request is sent only after a person has
\* approved it for a known recipient, and answered only by stored evidence; what
\* the document remembers is evidence it has; the snapshot of the candidate is
\* reached from the first by refreshes whose changes are stored.
SiteRecordsAgree ==
  which = "site" => RequestsAreInOrder /\ MemoryIsGrounded /\ SnapshotIsExplained

\* A request goes back, or evidence is lost, only when a handler saves a copy
\* that is older than the document.
LostOnlyToOldCopies == [][which = "site" => LossIsToOldCopy]_siteVars

\* Where no two observations of a key overlapped, its versions count them in
\* the order of their times, and it has one current row; every logged
\* difference is one: of two values, the old one observed before.
LedgerIsTrue == which = "ledger" => VersionsCount /\ DriftIsReal

\* What a replay of a past time shows never changes, but for a row that was
\* stamped by then and not committed yet.
ReplayIsFinal == [][which = "ledger" => PastIsFinal]_ledgerVars

\* The winner passes every requirement as it now stands, whenever and on whatever
\* requirements it was evaluated, and no other enriched candidate does; the stored
\* decision is the one that ranking the candidates would give, those counted as
\* enriched that have been looked up since and not been ranked again.
DecisionIsEarned == which = "decision" => WinnerIsEarned /\ DecisionIsCurrent

\* However syncs of old and new copies follow each other, the graph never holds
\* two readiness claims as active; and a query that nobody wrote beside answers
\* with the outcome of the document it read and with no other active claim.
ClaimsAreCurrent == which = "graph" => OutcomeIsCurrent

\* Whatever was reused, the layers of a world cover the area that was asked for
\* and are of one release; a layer some source can give is there, of terrain the
\* 1 m one or the 10 m one where 10 m was preferred, a failure of an earlier
\* world is not kept; derived elevations are those of the world the
\* scene is in.
WorldsAreWhole ==
  which = "worlds" =>
    LayersFitTogether /\ FailuresAreNotKept /\ ElevationsAreOfTheirWorld

\* Whatever became of the project, the task and the run meanwhile, a claim in the
\* graph was proved at one moment by one document; unless the worker ended, the
\* run has observed it; and a completed run has refused none that it rests on.
ClaimsAreVerified ==
  which = "task" => ClaimsWereProved /\ ClaimsWereObserved /\ CompletedIsVerified

\* What is retrieved after a confirmation was shown with its quote, unless the
\* quote that was asked for last had no answer.
ConfirmedWasShown == which = "product" => ConfirmedPlaceWasShown
=============================================================================
