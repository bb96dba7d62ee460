------------------------------ MODULE SiteRefresh ------------------------------
(***************************************************************************)
(* Immutable snapshots of a site's evidence and their metered refresh      *)
(* (SiteSnapshotService, app/sandbox.py), the scenarios designed on them   *)
(* (app/sandbox_scenarios.py), and the tables both are kept in             *)
(* (app/workspace/store.py).                                               *)
(*                                                                         *)
(* One process serves all requests on one event loop: a handler is atomic  *)
(* between two awaits.  What a handler does after its last await is        *)
(* several transactions, and the process may end between two of them.      *)
(*                                                                         *)
(* An evidence record is its field, its value and the snapshot whose       *)
(* provider response it came from; records of one response expire field    *)
(* by field.  The identity fields, which every refresh fetches, are one    *)
(* element of a batch; what they say is the snapshot's parcel.  A          *)
(* constraint of a scenario depends on one field and bears its name.       *)
(* Prices, geometry, catalogue metadata and lifecycle are left out.        *)
(***************************************************************************)
EXTENDS Naturals, Sequences, FiniteSets, SequencesExt

CONSTANTS Fields,          \* evidence fields other than the identity fields
          Parcels,         \* parcel_ids the provider may return
          Scenarios,       \* scenario_ids
          Requests,        \* the sets of constraints a user may ask a scenario for
          BatchLimit,      \* MIREYE_EXPLICIT_FIELD_LIMIT
          Values,          \* what the provider may return for a field
          MaxSnapshots,    \* bound: snapshots
          MaxLookups,      \* bound: snapshots that are no refresh of another
          MaxPlans,        \* bound: spend plans
          MaxRevisions,    \* bound: revisions of a scenario
          MaxExpiries,     \* bound: records whose TTL ends
          MaxFaults        \* bound: failed fetches and ends of the process

AllValues == {"good", "bad", "absent", "failed"}

ASSUME SiteRefreshAssumption ==
    /\ IsFiniteSet(Fields)
    /\ Requests \subseteq SUBSET Fields
    /\ BatchLimit \in Nat \ {0}
    /\ Values \subseteq AllValues
    /\ MaxSnapshots \in Nat /\ MaxLookups \in Nat /\ MaxPlans \in Nat
    /\ MaxRevisions \in Nat /\ MaxExpiries \in Nat /\ MaxFaults \in Nat

SnapshotIds == 1..MaxSnapshots
PlanIds == 1..MaxPlans
Identity == "identity"

VARIABLES snapshots,       \* site_snapshots with their site, in the order they were stored
          sites,           \* sandbox_sites, numbered
          expired,         \* <<field, snapshot>>: records of that response past their TTL
          plans,           \* mireye_spend_plans
          jobs,            \* the confirmed refresh that awaits the provider, per plan
          revisions,       \* scenario_versions of each scenario
          runs,            \* scenario_evaluation_runs
          fetches,         \* history: batches fetched for each plan
          faults

vars == <<snapshots, sites, expired, plans, jobs, revisions, runs, fetches, faults>>
sandboxVars == <<snapshots, sites, plans, jobs, fetches>>
scenarioVars == <<revisions, runs>>

-------------------------------------------------------------------------------
(* Types *)

(* carried: carried_from_snapshot_id, 0 when the record has none. *)
Record == [value : AllValues, from : SnapshotIds, carried : 0..MaxSnapshots]

Evidence == UNION {[S -> Record] : S \in SUBSET Fields}

Snapshot == [site : Nat, parcel : Parcels, evidence : Evidence, previous : 0..MaxSnapshots]

Outcomes == {"PASS", "FAIL", "UNRESOLVED"}
Evaluation == UNION {[S -> Outcomes] : S \in SUBSET Fields}

Revision == [snapshot : SnapshotIds, evaluation : Evaluation]

PlanStatus == {"QUOTED", "CONFIRMED", "COMPLETED", "EXPIRED", "IDENTITY_MISMATCH"}

(* late: the time is past quote_expires_at; affected: affected_scenarios. *)
Plan == [snapshot : SnapshotIds, fields : SUBSET Fields, status : PlanStatus, late : BOOLEAN,
         affected : SUBSET (Scenarios \X (1..MaxRevisions))]

(* todo: the batches not fetched yet; response: the field values returned.  *)
Job == [on : BOOLEAN, todo : Seq(SUBSET (Fields \cup {Identity})),
        response : UNION {[S -> AllValues] : S \in SUBSET Fields}]

RunStatus == {"INVALIDATED_BY_REFRESH", "UNRESOLVED", "CURRENT"}
Run == [scenario : Scenarios, revision : 1..MaxRevisions, source : SnapshotIds,
        evaluated : SnapshotIds, affected : SUBSET Fields, status : RunStatus,
        evaluation : Evaluation]

NoJob == [on |-> FALSE, todo |-> <<>>, response |-> <<>>]

TypeOK ==
    /\ snapshots \in Seq(Snapshot) /\ Len(snapshots) <= MaxSnapshots
    /\ sites \in Nat
    /\ expired \subseteq Fields \X SnapshotIds
    /\ plans \in Seq(Plan) /\ Len(plans) <= MaxPlans
    /\ jobs \in [PlanIds -> Job]
    /\ revisions \in [Scenarios -> Seq(Revision)]
    /\ runs \subseteq Run
    /\ fetches \in [PlanIds -> Nat]
    /\ faults \in 0..MaxFaults

Init ==
    /\ snapshots = <<>> /\ sites = 0 /\ expired = {}
    /\ plans = <<>> /\ jobs = [p \in PlanIds |-> NoJob]
    /\ revisions = [sc \in Scenarios |-> <<>>] /\ runs = {}
    /\ fetches = [p \in PlanIds |-> 0] /\ faults = 0

-------------------------------------------------------------------------------
(* Evidence *)

EvidenceOf(s) == snapshots[s].evidence
Stale(record, f) == <<f, record.from>> \in expired

(* _freshness_classification: an absence is fresh until its TTL ends.      *)
Fresh(s, f) ==
    /\ f \in DOMAIN EvidenceOf(s)
    /\ EvidenceOf(s)[f].value # "failed"
    /\ ~Stale(EvidenceOf(s)[f], f)

(* freshness_status: the refresh_fields among the ones checked.            *)
RefreshFields(s, checked) == {f \in checked : ~Fresh(s, f)}

(* _normalize_evidence: a record for each selected field; "absent" is the  *)
(* value of one the response lacks, too.                                   *)
Normalized(id, response) ==
    [f \in DOMAIN response |-> [value |-> response[f], from |-> id, carried |-> 0]]

(* Faulty: a carried record is said to come from the snapshot before, even *)
(* if that one had carried it too.                                         *)
Carried_FromPrevious(record, previous) == [record EXCEPT !.carried = previous]

Carried(record, previous) ==
    [record EXCEPT !.carried = IF @ # 0 THEN @ ELSE previous]

(* _build_refreshed_snapshot: the records of the response over the ones    *)
(* carried from the plan's snapshot.                                       *)
Refreshed(id, previous, response) ==
    LET new == Normalized(id, response)
        old == EvidenceOf(previous)
    IN [f \in DOMAIN old \cup DOMAIN new |->
            IF f \in DOMAIN new THEN new[f] ELSE Carried(old[f], previous)]

(* snapshot_diff: the hash of a record covers the time it was observed.    *)
Changed(before, after) ==
    {f \in DOMAIN before \cup DOMAIN after :
        \/ f \notin DOMAIN before \/ f \notin DOMAIN after
        \/ before[f].value # after[f].value \/ before[f].from # after[f].from}

(* The predicates of evaluate_site, reduced to their gate: fresh evidence  *)
(* with a value decides, anything else leaves the constraint unresolved.   *)
Outcome(evidence, f) ==
    IF f \in DOMAIN evidence /\ evidence[f].value \in {"good", "bad"} /\ ~Stale(evidence[f], f)
    THEN IF evidence[f].value = "good" THEN "PASS" ELSE "FAIL"
    ELSE "UNRESOLVED"

Evaluate(evidence, constraints) == [f \in constraints |-> Outcome(evidence, f)]

-------------------------------------------------------------------------------
(* Sites and snapshots *)

OfParcel(parcel) == {s \in DOMAIN snapshots : snapshots[s].parcel = parcel}

(* get_or_create_sandbox_site: the site of the latest snapshot reconciled  *)
(* with this parcel, or a new one.                                         *)
SiteFor(parcel) ==
    IF OfParcel(parcel) # {}
    THEN snapshots[CHOOSE s \in OfParcel(parcel) : \A t \in OfParcel(parcel) : t <= s].site
    ELSE sites + 1

(* create_site_snapshot: the snapshot, its site and its reconciliation.    *)
Store(snapshot) ==
    /\ Len(snapshots) < MaxSnapshots
    /\ snapshots' = Append(snapshots, snapshot)

(* create_snapshot, persist_dossier: a location is fetched, its identity   *)
(* validated, and a first snapshot stored.  When the process ends between  *)
(* the two transactions, the new site stays without a snapshot.            *)
CreateSnapshot(parcel, response) ==
    LET site == SiteFor(parcel)
    IN /\ DOMAIN response # {}
       /\ Cardinality({s \in DOMAIN snapshots : snapshots[s].previous = 0}) < MaxLookups
       /\ sites' = IF site > sites THEN site ELSE sites
       /\ \/ /\ Store([site |-> site, parcel |-> parcel, previous |-> 0,
                       evidence |-> Normalized(Len(snapshots) + 1, response)])
             /\ UNCHANGED <<jobs, faults>>
          \/ /\ site > sites /\ faults < MaxFaults /\ Len(snapshots) < MaxSnapshots
             /\ faults' = faults + 1
             /\ jobs' = [p \in PlanIds |-> NoJob]
             /\ UNCHANGED snapshots
       /\ UNCHANGED <<expired, plans, fetches, scenarioVars>>

(* Time passes the expires_at of a record, or the expiry of a quote.  The  *)
(* TTL is the field's: of two records the one observed first expires first. *)
EvidenceExpires(f, s) ==
    /\ f \in DOMAIN EvidenceOf(s) /\ EvidenceOf(s)[f].from = s
    /\ \A t \in 1..s - 1 :
           f \in DOMAIN EvidenceOf(t) => Stale(EvidenceOf(t)[f], f)
    /\ <<f, s>> \notin expired /\ Cardinality(expired) < MaxExpiries
    /\ expired' = expired \cup {<<f, s>>}
    /\ UNCHANGED <<sandboxVars, scenarioVars, faults>>

QuoteExpires(p) ==
    /\ plans[p].status = "QUOTED" /\ ~plans[p].late
    /\ plans' = [plans EXCEPT ![p].late = TRUE]
    /\ UNCHANGED <<snapshots, sites, expired, jobs, fetches, scenarioVars, faults>>

-------------------------------------------------------------------------------
(* Scenarios *)

Exists(sc, r) == r \in DOMAIN revisions[sc]
LatestRevision(sc) == revisions[sc][Len(revisions[sc])]

(* affected_scenario_constraints: dependencies on one of the given fields  *)
(* of revisions whose snapshot belongs to the site.                        *)
Affected(site, changed) ==
    {x \in Scenarios \X (1..MaxRevisions) :
        /\ Exists(x[1], x[2])
        /\ LET revision == revisions[x[1]][x[2]]
           IN /\ snapshots[revision.snapshot].site = site
              /\ DOMAIN revision.evaluation \cap changed # {}}

Write(sc, s, constraints) ==
    /\ Len(revisions[sc]) < MaxRevisions
    /\ revisions' = [revisions EXCEPT ![sc] = Append(@,
           [snapshot |-> s, evaluation |-> Evaluate(EvidenceOf(s), constraints)])]
    /\ UNCHANGED <<sandboxVars, expired, runs, faults>>

(* create; a branch creates, too, with the snapshot and the constraints of *)
(* a head, which were requested once.                                      *)
CreateScenario(sc, s, constraints) ==
    /\ revisions[sc] = <<>>
    /\ Write(sc, s, constraints)

(* append: with the constraints requested, or else the head's.             *)
AppendRevision(sc, s, constraints) ==
    /\ revisions[sc] # <<>>
    /\ LatestRevision(sc).snapshot = s
    /\ Write(sc, s, constraints)

(* _merge_refresh_evaluation: the results of the revision, with the        *)
(* affected ones replaced.                                                 *)
Merged(original, affected) ==
    [f \in DOMAIN original |-> IF f \in DOMAIN affected THEN affected[f] ELSE original[f]]

(* Faulty: the status the quote gives an affected scenario. *)
RefreshStatus_AsQuoted(before, after, constraints) == "STALE_EVIDENCE"

(* _refresh_status, for an unchanged geometry. *)
RefreshStatus(before, after, constraints) ==
    CASE \E f \in constraints : before[f] = "PASS" /\ after[f] = "FAIL" -> "INVALIDATED_BY_REFRESH"
      [] (~\E f \in constraints : before[f] = "PASS" /\ after[f] = "FAIL")
         /\ \E f \in constraints : after[f] = "UNRESOLVED" -> "UNRESOLVED"
      [] OTHER -> "CURRENT"

(* One evaluation run of revalidate_after_refresh: only the constraints    *)
(* that depend on changed evidence are evaluated again.                    *)
RunFor(x, source, id, new, changed) ==
    LET original == revisions[x[1]][x[2]].evaluation
        constraints == DOMAIN original \cap changed
        merged == Merged(original, Evaluate(new, constraints))
    IN [scenario |-> x[1], revision |-> x[2], source |-> source, evaluated |-> id,
        affected |-> constraints, status |-> RefreshStatus(original, merged, constraints),
        evaluation |-> merged]

(* Faulty: the revisions the quote had named. *)
Revalidated_AsQuoted(p, id, new, changed) ==
    {RunFor(x, plans[p].snapshot, id, new, changed) :
        x \in {y \in plans[p].affected : DOMAIN revisions[y[1]][y[2]].evaluation \cap changed # {}}}

Revalidated(p, id, new, changed) ==
    {RunFor(x, plans[p].snapshot, id, new, changed) :
        x \in Affected(snapshots[plans[p].snapshot].site, changed)}

-------------------------------------------------------------------------------
(* Refreshes *)

(* quote_refresh: the fields that are not fresh, and the scenarios they    *)
(* affect.  The evidence of a snapshot never changes, so nothing read      *)
(* before the provider's quote is stale after it but the time.             *)
QuoteRefresh(s, checked) ==
    LET fields == RefreshFields(s, checked)
    IN /\ fields # {}                        \* else NO_REFRESH_REQUIRED
       /\ Len(plans) < MaxPlans
       /\ plans' = Append(plans, [snapshot |-> s, fields |-> fields, status |-> "QUOTED",
                                  late |-> FALSE,
                                  affected |-> Affected(snapshots[s].site, fields)])
       /\ UNCHANGED <<snapshots, sites, expired, jobs, fetches, scenarioVars, faults>>

(* Identity fields first, then chunks of at most BatchLimit. *)
Ordered(fields) == <<Identity>> \o SetToSeq(fields)
Batches(fields) ==
    LET all == Ordered(fields)
        last(i) == IF i * BatchLimit <= Len(all) THEN i * BatchLimit ELSE Len(all)
    IN [i \in 1..((Len(all) + BatchLimit - 1) \div BatchLimit) |->
            {all[j] : j \in (i - 1) * BatchLimit + 1 .. last(i)}]

SetStatus(p, status) == plans' = [plans EXCEPT ![p].status = status]

(* Faulty: the plan keeps its status until the fetch is over. *)
Confirmed_Later(p) == UNCHANGED plans

Confirmed(p) == SetStatus(p, "CONFIRMED")

(* confirm_and_refresh up to its first await. *)
Confirm(p) ==
    /\ plans[p].status = "QUOTED"
    /\ \/ /\ plans[p].late
          /\ SetStatus(p, "EXPIRED")
          /\ UNCHANGED jobs
       \/ /\ ~plans[p].late
          /\ Confirmed(p)
          /\ jobs' = [jobs EXCEPT ![p] = [on |-> TRUE, todo |-> Batches(plans[p].fields),
                                          response |-> <<>>]]
    /\ UNCHANGED <<snapshots, sites, expired, fetches, scenarioVars, faults>>

(* One batch of the loop is answered. *)
FetchBatch(p, values) ==
    /\ jobs[p].on /\ jobs[p].todo # <<>>
    /\ DOMAIN values = jobs[p].todo[1] \ {Identity}
    /\ jobs' = [jobs EXCEPT ![p].todo = Tail(@),
                            ![p].response = [f \in DOMAIN @ \cup DOMAIN values |->
                                IF f \in DOMAIN values THEN values[f] ELSE @[f]]]
    /\ fetches' = [fetches EXCEPT ![p] = @ + 1]
    /\ UNCHANGED <<snapshots, sites, expired, plans, scenarioVars, faults>>

(* The catalogue or a batch fails, the location cannot be resolved, or the *)
(* identity is invalid: the plan stays CONFIRMED.                          *)
RefreshFails(p) ==
    /\ jobs[p].on
    /\ faults < MaxFaults /\ faults' = faults + 1
    /\ jobs' = [jobs EXCEPT ![p] = NoJob]
    /\ UNCHANGED <<snapshots, sites, expired, plans, fetches, scenarioVars>>

(* Faulty: the parcel of the answer is not compared. *)
SameParcel_Unchecked(p, parcel) == TRUE

SameParcel(p, parcel) == parcel = snapshots[plans[p].snapshot].parcel

RefreshMismatches(p, parcel) ==
    /\ jobs[p].on /\ jobs[p].todo = <<>>
    /\ ~SameParcel(p, parcel)
    /\ SetStatus(p, "IDENTITY_MISMATCH")
    /\ jobs' = [jobs EXCEPT ![p] = NoJob]
    /\ UNCHANGED <<snapshots, sites, expired, fetches, scenarioVars, faults>>

(* confirm_and_refresh after its last await: the snapshot, one transaction *)
(* per evaluation run, the plan's status; or the process ends after the    *)
(* snapshot and some of the runs.                                          *)
RefreshEnds(p, parcel) ==
    LET id == Len(snapshots) + 1
        previous == plans[p].snapshot
        new == Refreshed(id, previous, jobs[p].response)
        revalidated == Revalidated(p, id, new, Changed(EvidenceOf(previous), new))
    IN /\ jobs[p].on /\ jobs[p].todo = <<>>
       /\ SameParcel(p, parcel)
       /\ Store([site |-> snapshots[previous].site, parcel |-> parcel, previous |-> previous,
                 evidence |-> new])
       /\ \/ /\ runs' = runs \cup revalidated
             /\ SetStatus(p, "COMPLETED")
             /\ jobs' = [jobs EXCEPT ![p] = NoJob]
             /\ UNCHANGED faults
          \/ /\ \E done \in SUBSET revalidated : runs' = runs \cup done
             /\ faults < MaxFaults /\ faults' = faults + 1
             /\ jobs' = [q \in PlanIds |-> NoJob]
             /\ UNCHANGED plans
       /\ UNCHANGED <<sites, expired, fetches, revisions>>

(* The process ends, and with it every request it was serving. *)
ProcessEnds ==
    /\ \E p \in PlanIds : jobs[p].on
    /\ faults < MaxFaults /\ faults' = faults + 1
    /\ jobs' = [p \in PlanIds |-> NoJob]
    /\ UNCHANGED <<snapshots, sites, expired, plans, fetches, scenarioVars>>

-------------------------------------------------------------------------------
(* What the provider may answer when some of the fields are selected. *)
Responses(fields) == UNION {[S -> Values] : S \in SUBSET fields}

Next ==
    \/ \E parcel \in Parcels, response \in Responses(Fields) : CreateSnapshot(parcel, response)
    \/ \E s \in DOMAIN snapshots :
          \/ \E f \in Fields : EvidenceExpires(f, s)
          \/ \E checked \in {DOMAIN EvidenceOf(s), Fields} : QuoteRefresh(s, checked)
          \/ \E sc \in Scenarios, constraints \in Requests :
                CreateScenario(sc, s, constraints) \/ AppendRevision(sc, s, constraints)
    \/ \E p \in DOMAIN plans :
          \/ QuoteExpires(p) \/ Confirm(p) \/ RefreshFails(p)
          \/ \E values \in Responses(plans[p].fields) : FetchBatch(p, values)
          \/ \E parcel \in Parcels : RefreshMismatches(p, parcel) \/ RefreshEnds(p, parcel)
    \/ ProcessEnds

Spec == Init /\ [][Next]_vars

-------------------------------------------------------------------------------
(* Safety *)

(* A plan is paid for once: however often it is confirmed, whatever fails  *)
(* and wherever the process ends, each of its batches is fetched at most   *)
(* once, and none before its confirmation or after its quote expired       *)
(* (docs/live-mireye.md:54, "The expired refresh plan never executed a     *)
(* fetch").                                                                *)
FetchedOnce ==
    \A p \in DOMAIN plans :
        /\ fetches[p] + Len(jobs[p].todo) <= Len(Batches(plans[p].fields))
        /\ fetches[p] > 0 => plans[p].status \notin {"QUOTED", "EXPIRED"}

(* The provenance of evidence, over any number of refreshes: a record that *)
(* is not carried came with this snapshot's response; a carried one is, in *)
(* the snapshot it names, a record of that snapshot's own response, with   *)
(* the same value.                                                         *)
ProvenanceTrue ==
    \A s \in DOMAIN snapshots : \A f \in DOMAIN EvidenceOf(s) :
        LET record == EvidenceOf(s)[f]
        IN IF record.carried = 0
           THEN record.from = s
           ELSE /\ record.carried \in 1..s - 1
                /\ f \in DOMAIN EvidenceOf(record.carried)
                /\ EvidenceOf(record.carried)[f] = [record EXCEPT !.carried = 0]

(* Two snapshots belong to one site exactly when the provider gave them    *)
(* the same parcel, through first lookups, refreshes and ends of the       *)
(* process between the two transactions that store a site and a snapshot.  *)
OneSitePerParcel ==
    \A s, t \in DOMAIN snapshots :
        snapshots[s].site = snapshots[t].site <=> snapshots[s].parcel = snapshots[t].parcel

(* Each record is what it says it is: of the site, of the snapshot and of  *)
(* the type, after whatever refreshes and ends of the process.             *)
EvidenceIsTraceable == TypeOK /\ ProvenanceTrue /\ OneSitePerParcel

(* When a plan becomes COMPLETED, every revision of the site, those made   *)
(* since the quote included, that depends on evidence the refresh changed  *)
(* has a run that evaluates the new snapshot, and a constraint that passed *)
(* and fails now has invalidated it.                                       *)
RefreshRevalidates ==
    [][\A p \in DOMAIN plans :
        plans'[p].status = "COMPLETED" /\ plans[p].status # "COMPLETED" =>
            LET id == Len(snapshots')
                new == snapshots'[id].evidence
                changed == Changed(EvidenceOf(plans[p].snapshot), new)
            IN \A x \in Affected(snapshots'[id].site, changed) :
                LET before == revisions[x[1]][x[2]].evaluation
                IN \E run \in runs' :
                    /\ run.scenario = x[1] /\ run.revision = x[2] /\ run.evaluated = id
                    /\ \A f \in DOMAIN before \cap changed :
                        /\ run.evaluation[f] = Outcome(new, f)
                        /\ before[f] = "PASS" /\ Outcome(new, f) = "FAIL"
                              => run.status = "INVALIDATED_BY_REFRESH"]_vars

(* What the evaluation stored for a snapshot says of a constraint is what  *)
(* that snapshot's evidence gives, at least where the evidence has a value *)
(* (docs/future-tech-stack.md:77, a refresh "re-evaluates affected         *)
(* scenarios"), for a revision designed on the refreshed snapshot or on    *)
(* the one before it.  The results not affected by this refresh are the    *)
(* ones the revision was designed with, not those of the refresh between.  *)
RunTellsSnapshot ==
    \A run \in runs : \A f \in DOMAIN run.evaluation :
        LET evidence == EvidenceOf(run.evaluated)
            designedOn == revisions[run.scenario][run.revision].snapshot
        IN designedOn \in {run.source, snapshots[run.source].previous} =>
           /\ run.evaluation[f] = "PASS" => ~(f \in DOMAIN evidence /\ evidence[f].value = "bad")
           /\ run.evaluation[f] = "FAIL" => ~(f \in DOMAIN evidence /\ evidence[f].value = "good")
===============================================================================
