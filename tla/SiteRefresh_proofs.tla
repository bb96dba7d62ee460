-------------------------- MODULE SiteRefresh_proofs --------------------------
(***************************************************************************)
(* Proofs about snapshots, their refreshes and scenarios, for any number   *)
(* of fields, parcels, scenarios, snapshots, plans, revisions and faults.  *)
(***************************************************************************)
EXTENDS SiteRefresh, SequenceTheorems, SetTheorems, TLAPS

(* The inductive invariant, by the state it speaks of.                     *)
SnapshotsOK ==
    /\ snapshots \in Seq(Snapshot) /\ Len(snapshots) <= MaxSnapshots /\ sites \in Nat
    /\ \A s \in DOMAIN snapshots : snapshots[s].site <= sites
    /\ ProvenanceTrue /\ OneSitePerParcel

(* A refresh is under way for a confirmed plan only, and what was fetched  *)
(* belongs to a plan that was confirmed.                                   *)
JobsOK ==
    \A p \in PlanIds :
        /\ jobs[p].on => p \in DOMAIN plans /\ plans[p].status = "CONFIRMED"
        /\ ~jobs[p].on => jobs[p].todo = <<>>
        /\ p \notin DOMAIN plans => fetches[p] = 0

PlansOK ==
    /\ plans \in Seq(Plan) /\ Len(plans) <= MaxPlans
    /\ jobs \in [PlanIds -> Job] /\ fetches \in [PlanIds -> Nat]
    /\ \A p \in DOMAIN plans : plans[p].snapshot \in DOMAIN snapshots
    /\ JobsOK /\ \A p \in DOMAIN plans : plans[p].status \in {"QUOTED", "EXPIRED"} => fetches[p] = 0
    /\ \A p \in DOMAIN plans : fetches[p] + Len(jobs[p].todo) <= Len(Batches(plans[p].fields))

ScenariosOK == revisions \in [Scenarios -> Seq(Revision)] /\ runs \subseteq Run
TimesOK == expired \subseteq Fields \X SnapshotIds /\ faults \in 0..MaxFaults

IInv == SnapshotsOK /\ PlansOK /\ ScenariosOK /\ TimesOK

-------------------------------------------------------------------------------
(* Facts about the data *)

LEMMA Sizes ==
    /\ IsFiniteSet(Fields) /\ Requests \subseteq SUBSET Fields /\ Values \subseteq AllValues
    /\ BatchLimit \in Nat /\ BatchLimit > 0
    /\ MaxSnapshots \in Nat /\ MaxPlans \in Nat /\ MaxRevisions \in Nat /\ MaxFaults \in Nat
BY SiteRefreshAssumption

(* Evidence is a function on some of the fields.                           *)
LEMMA EvidenceFacts ==
    /\ \A S \in SUBSET Fields : \A g \in [S -> Record] : g \in Evidence
    /\ \A g \in Evidence : DOMAIN g \subseteq Fields /\ g \in [DOMAIN g -> Record]
BY DEF Evidence

LEMMA EvaluationFacts ==
    /\ \A S \in SUBSET Fields : \A g \in [S -> Outcomes] : g \in Evaluation
    /\ \A g \in Evaluation : DOMAIN g \subseteq Fields /\ g \in [DOMAIN g -> Outcomes]
BY DEF Evaluation

LEMMA ResponseFacts ==
    ASSUME NEW fields \in SUBSET Fields, NEW response \in Responses(fields)
    PROVE  /\ DOMAIN response \subseteq fields
           /\ response \in [DOMAIN response -> AllValues]
BY Sizes DEF Responses

(* The records of a response are the ones of its snapshot.                 *)
LEMMA NormalizedOK ==
    ASSUME NEW id \in SnapshotIds, NEW S \in SUBSET Fields, NEW response \in [S -> AllValues]
    PROVE  /\ Normalized(id, response) \in Evidence
           /\ DOMAIN Normalized(id, response) = S
           /\ \A f \in S : /\ Normalized(id, response)[f].carried = 0
                           /\ Normalized(id, response)[f].from = id
<1>1. \A f \in S : [value |-> response[f], from |-> id, carried |-> 0] \in Record
  BY Sizes DEF Record
<1>2. Normalized(id, response) \in [S -> Record]
  BY <1>1 DEF Normalized
<1> QED
  BY <1>2, EvidenceFacts DEF Normalized

(* A carried record differs in the snapshot it names at most, and names    *)
(* the one it named before, if any.                                        *)
LEMMA CarriedOK ==
    ASSUME NEW record \in Record, NEW s \in SnapshotIds
    PROVE  /\ Carried(record, s) \in Record
           /\ Carried(record, s).carried = IF record.carried # 0 THEN record.carried ELSE s
           /\ Carried(record, s).carried # 0
           /\ [Carried(record, s) EXCEPT !.carried = 0] = [record EXCEPT !.carried = 0]
           /\ record.carried = 0 => [record EXCEPT !.carried = 0] = record
<1>1. s \in Nat /\ s # 0 /\ s \in 0..MaxSnapshots
  BY Sizes DEF SnapshotIds
<1>2. CASE record.carried # 0
  BY <1>1, <1>2 DEF Carried, Record
<1>3. CASE record.carried = 0
  BY <1>1, <1>3 DEF Carried, Record
<1> QED
  BY <1>2, <1>3

LEMMA EvaluateOK ==
    ASSUME NEW evidence \in Evidence, NEW constraints \in SUBSET Fields
    PROVE  /\ Evaluate(evidence, constraints) \in Evaluation
           /\ DOMAIN Evaluate(evidence, constraints) = constraints
           /\ \A f \in constraints : /\ Evaluate(evidence, constraints)[f] = Outcome(evidence, f)
                                     /\ Outcome(evidence, f) \in Outcomes
<1>1. \A f \in constraints : Outcome(evidence, f) \in Outcomes
  BY DEF Outcome, Outcomes
<1>2. Evaluate(evidence, constraints) \in [constraints -> Outcomes]
  BY <1>1 DEF Evaluate
<1> QED
  BY <1>1, <1>2, EvaluationFacts DEF Evaluate

(* Some batches cover the identity and the fields of a plan.               *)
LEMMA BatchesOK ==
    ASSUME NEW fields \in SUBSET Fields
    PROVE  /\ Batches(fields) \in Seq(SUBSET (Fields \cup {Identity}))
           /\ Len(Batches(fields)) \in Nat
<1> DEFINE All == Fields \cup {Identity}
           size == (Len(Ordered(fields)) + BatchLimit - 1) \div BatchLimit
<1>1. SetToSeq(fields) \in Seq(Fields)
  <2>1. IsFiniteSet(fields)
    BY Sizes, FS_Subset
  <2>2. Cardinality(fields) \in Nat /\ ExistsBijection(1..Cardinality(fields), fields)
    BY <2>1, FS_CardinalityType
  <2>3. \E f \in [1..Cardinality(fields) -> fields] : IsInjective(f)
    BY <2>2 DEF ExistsBijection, Bijection, Injection
  <2>4. SetToSeq(fields) \in [1..Cardinality(fields) -> fields]
    BY <2>3 DEF SetToSeq
  <2>5. SetToSeq(fields) \in [1..Cardinality(fields) -> Fields]
    BY <2>4
  <2> QED
    BY <2>2, <2>5, SeqDef, Zenon
<1>2. Ordered(fields) \in Seq(All)
  <2>1. <<Identity>> \in Seq(All)
    OBVIOUS
  <2>2. SetToSeq(fields) \in Seq(All)
    BY <1>1, SeqMonotonic
  <2> QED
    BY <2>1, <2>2, ConcatProperties DEF Ordered
<1>3. size \in Nat
  <2>1. Len(Ordered(fields)) \in Nat
    BY <1>2, LenProperties
  <2> QED
    BY <2>1, Sizes
<1>4. \A i \in 1..size : \A last \in Int :
          last <= Len(Ordered(fields)) =>
              {Ordered(fields)[j] : j \in (i - 1) * BatchLimit + 1 .. last} \in SUBSET All
  <2> SUFFICES ASSUME NEW i \in 1..size, NEW last \in Int, last <= Len(Ordered(fields)),
                      NEW j \in (i - 1) * BatchLimit + 1 .. last
               PROVE  Ordered(fields)[j] \in All
    OBVIOUS
  <2>1. i - 1 \in Nat
    BY <1>3
  <2>2. (i - 1) * BatchLimit \in Nat
    BY <2>1, Sizes
  <2>3. j \in 1..Len(Ordered(fields))
    BY <2>2, <1>2, LenProperties
  <2> QED
    BY <2>3, <1>2, ElementOfSeq
<1>5. \A i \in 1..size : Batches(fields)[i] \in SUBSET All
  <2> TAKE i \in 1..size
  <2> DEFINE last == IF i * BatchLimit <= Len(Ordered(fields)) THEN i * BatchLimit
                     ELSE Len(Ordered(fields))
  <2>1. i * BatchLimit \in Int /\ Len(Ordered(fields)) \in Int
    BY <1>2, <1>3, LenProperties, Sizes
  <2>2. last \in Int /\ last <= Len(Ordered(fields))
    BY <2>1
  <2>3. Batches(fields)[i] = {Ordered(fields)[j] : j \in (i - 1) * BatchLimit + 1 .. last}
    BY DEF Batches
  <2> HIDE DEF last
  <2> QED
    BY <2>2, <2>3, <1>4
<1>6. Batches(fields) \in [1..size -> SUBSET All]
  <2>1. DOMAIN Batches(fields) = 1..size /\ Batches(fields) = [i \in 1..size |-> Batches(fields)[i]]
    BY DEF Batches
  <2> HIDE DEF size, All
  <2> QED
    BY <1>5, <2>1
<1>7. Batches(fields) \in Seq(SUBSET All)
  <2> HIDE DEF size, All
  <2> QED
    BY <1>3, <1>6, SeqDef, Zenon
<1> QED
  BY <1>7, LenProperties

(* What a type says of a snapshot that is stored.                          *)
LEMMA SnapshotFacts ==
    ASSUME SnapshotsOK, NEW s \in DOMAIN snapshots
    PROVE  /\ s \in SnapshotIds /\ s <= Len(snapshots) /\ snapshots[s] \in Snapshot
           /\ EvidenceOf(s) \in Evidence /\ DOMAIN EvidenceOf(s) \subseteq Fields
           /\ \A f \in DOMAIN EvidenceOf(s) : EvidenceOf(s)[f] \in Record
<1>1. s \in 1..Len(snapshots) /\ snapshots[s] \in Snapshot
  BY LenProperties, ElementOfSeq DEF SnapshotsOK
<1>2. Len(snapshots) \in Nat /\ Len(snapshots) <= MaxSnapshots
  BY LenProperties DEF SnapshotsOK
<1>3. EvidenceOf(s) \in Evidence
  BY <1>1 DEF EvidenceOf, Snapshot
<1>4. EvidenceOf(s) \in [DOMAIN EvidenceOf(s) -> Record]
  BY <1>3, EvidenceFacts
<1> QED
  BY <1>1, <1>2, <1>3, <1>4, EvidenceFacts, Sizes DEF SnapshotIds

(* A refreshed snapshot holds records of its own and carried ones, each of *)
(* which is as true as it was in the snapshot it comes from.               *)
LEMMA RefreshedOK ==
    ASSUME SnapshotsOK, NEW previous \in DOMAIN snapshots, NEW id \in SnapshotIds,
           NEW S \in SUBSET Fields, NEW response \in [S -> AllValues]
    PROVE  /\ Refreshed(id, previous, response) \in Evidence
           /\ DOMAIN Refreshed(id, previous, response) = DOMAIN EvidenceOf(previous) \cup S
           /\ \A f \in S : /\ Refreshed(id, previous, response)[f].carried = 0
                           /\ Refreshed(id, previous, response)[f].from = id
           /\ \A f \in DOMAIN EvidenceOf(previous) \ S :
                  Refreshed(id, previous, response)[f] = Carried(EvidenceOf(previous)[f], previous)
<1> DEFINE new == Normalized(id, response)
           old == EvidenceOf(previous)
           evidence == Refreshed(id, previous, response)
<1>1. /\ new \in Evidence /\ DOMAIN new = S /\ new \in [S -> Record]
      /\ \A f \in S : new[f].carried = 0 /\ new[f].from = id
  BY NormalizedOK, EvidenceFacts
<1>2. /\ DOMAIN old \subseteq Fields /\ previous \in SnapshotIds
      /\ \A f \in DOMAIN old : old[f] \in Record
  BY SnapshotFacts
<1>3. \A f \in DOMAIN old : Carried(old[f], previous) \in Record
  BY <1>2, CarriedOK
<1>4. evidence = [f \in DOMAIN old \cup S |-> IF f \in S THEN new[f] ELSE Carried(old[f], previous)]
  BY <1>1 DEF Refreshed
<1> HIDE DEF new, old
<1>5. evidence \in [DOMAIN old \cup S -> Record]
  BY <1>1, <1>3, <1>4
<1>6. evidence \in Evidence
  BY <1>2, <1>5, EvidenceFacts
<1> QED
  BY <1>1, <1>4, <1>6 DEF old

(* One evaluation run of a refresh.                                        *)
LEMMA RunOK ==
    ASSUME ScenariosOK, NEW x \in Scenarios \X (1..MaxRevisions), Exists(x[1], x[2]),
           NEW source \in SnapshotIds, NEW id \in SnapshotIds,
           NEW new \in Evidence, NEW changed
    PROVE  /\ RunFor(x, source, id, new, changed) \in Run
           /\ RunFor(x, source, id, new, changed).scenario = x[1]
           /\ RunFor(x, source, id, new, changed).revision = x[2]
           /\ RunFor(x, source, id, new, changed).evaluated = id
           /\ \A f \in DOMAIN revisions[x[1]][x[2]].evaluation \cap changed :
                /\ RunFor(x, source, id, new, changed).evaluation[f] = Outcome(new, f)
                /\ revisions[x[1]][x[2]].evaluation[f] = "PASS" /\ Outcome(new, f) = "FAIL"
                     => RunFor(x, source, id, new, changed).status = "INVALIDATED_BY_REFRESH"
<1> DEFINE original == revisions[x[1]][x[2]].evaluation
           constraints == DOMAIN original \cap changed
           merged == Merged(original, Evaluate(new, constraints))
           run == RunFor(x, source, id, new, changed)
<1>1. original \in Evaluation /\ x[1] \in Scenarios /\ x[2] \in 1..MaxRevisions
  <2>1. x[1] \in Scenarios /\ x[2] \in 1..MaxRevisions /\ x[2] \in DOMAIN revisions[x[1]]
    BY DEF Exists
  <2>2. revisions[x[1]] \in Seq(Revision)
    BY <2>1 DEF ScenariosOK
  <2>3. revisions[x[1]][x[2]] \in Revision
    BY <2>1, <2>2, LenProperties, ElementOfSeq
  <2> QED
    BY <2>1, <2>3 DEF Revision
<1>2. constraints \in SUBSET Fields /\ original \in [DOMAIN original -> Outcomes]
      /\ DOMAIN original \in SUBSET Fields
  BY <1>1, EvaluationFacts
<1>3. /\ DOMAIN Evaluate(new, constraints) = constraints
      /\ \A f \in constraints : /\ Evaluate(new, constraints)[f] = Outcome(new, f)
                                /\ Outcome(new, f) \in Outcomes
  <2> HIDE DEF constraints
  <2> QED
    BY <1>2, EvaluateOK
<1>4. run = [scenario |-> x[1], revision |-> x[2], source |-> source, evaluated |-> id,
             affected |-> constraints, status |-> RefreshStatus(original, merged, constraints),
             evaluation |-> merged]
  BY DEF RunFor
<1> HIDE DEF original, constraints, run
<1>5. merged = [f \in DOMAIN original |-> IF f \in constraints THEN Evaluate(new, constraints)[f]
                                          ELSE original[f]]
  BY <1>3 DEF Merged
<1>6. merged \in [DOMAIN original -> Outcomes]
  BY <1>2, <1>3, <1>5 DEF constraints
<1>7. \A f \in constraints : merged[f] = Outcome(new, f)
  BY <1>3, <1>5 DEF constraints
<1> HIDE DEF merged
<1>8. merged \in Evaluation
  BY <1>2, <1>6, EvaluationFacts
<1>9. RefreshStatus(original, merged, constraints) \in RunStatus
  BY DEF RefreshStatus, RunStatus
<1>10. \A f \in constraints : original[f] = "PASS" /\ Outcome(new, f) = "FAIL"
          => RefreshStatus(original, merged, constraints) = "INVALIDATED_BY_REFRESH"
  BY <1>7 DEF RefreshStatus
<1>11. run \in Run
  BY <1>1, <1>2, <1>4, <1>8, <1>9 DEF Run
<1>12. /\ run.scenario = x[1] /\ run.revision = x[2] /\ run.evaluated = id
       /\ run.evaluation = merged /\ run.status = RefreshStatus(original, merged, constraints)
  BY <1>4
<1>13. \A f \in DOMAIN original \cap changed :
          /\ run.evaluation[f] = Outcome(new, f)
          /\ original[f] = "PASS" /\ Outcome(new, f) = "FAIL"
                => run.status = "INVALIDATED_BY_REFRESH"
  BY <1>7, <1>10, <1>12 DEF constraints
<1> QED
  BY <1>11, <1>12, <1>13 DEF run, original

(* The site of a parcel is the one its snapshots have, or a new one.       *)
LEMMA SiteOK ==
    ASSUME SnapshotsOK, NEW parcel
    PROVE  /\ SiteFor(parcel) \in Nat
           /\ \A s \in OfParcel(parcel) : SiteFor(parcel) = snapshots[s].site
           /\ OfParcel(parcel) = {} => SiteFor(parcel) = sites + 1
<1>1. CASE OfParcel(parcel) = {}
  BY <1>1 DEF SiteFor, SnapshotsOK
<1>2. CASE OfParcel(parcel) # {}
  <2> DEFINE length == Len(snapshots)
             back == {length - s : s \in OfParcel(parcel)}
             last == CHOOSE s \in OfParcel(parcel) : \A t \in OfParcel(parcel) : t <= s
  <2>1. length \in Nat /\ \A s \in OfParcel(parcel) : s \in 1..length
    BY LenProperties DEF SnapshotsOK, OfParcel
  <2> HIDE DEF length
  <2>2. back \subseteq Nat /\ back # {}
    BY <1>2, <2>1
  <2>3. PICK n \in back : \A m \in back : n <= m
    BY <2>2, MinOfNaturals
  <2>4. PICK s \in OfParcel(parcel) : n = length - s
    BY <2>3
  <2>5. \A t \in OfParcel(parcel) : t <= s
    <3> SUFFICES ASSUME NEW t \in OfParcel(parcel) PROVE t <= s
      OBVIOUS
    <3>1. n <= length - t
      BY <2>3
    <3> QED
      BY <2>1, <2>4, <3>1
  <2>6. last \in OfParcel(parcel)
    BY <2>5
  <2>7. SiteFor(parcel) = snapshots[last].site
    BY <1>2 DEF SiteFor
  <2> HIDE DEF last
  <2>8. \A u \in OfParcel(parcel) : u \in DOMAIN snapshots /\ snapshots[u].parcel = parcel
    BY DEF OfParcel
  <2>9. \A u \in OfParcel(parcel) : snapshots[u].site = snapshots[last].site
    BY <2>6, <2>8 DEF SnapshotsOK, OneSitePerParcel
  <2>10. snapshots[last].site \in Nat
    BY <2>6, <2>8, SnapshotFacts DEF Snapshot
  <2> QED
    BY <1>2, <2>7, <2>9, <2>10
<1> QED
  BY <1>1, <1>2

-------------------------------------------------------------------------------
(* What a step leaves alone stays as it was                                *)

LEMMA SnapshotsKept ==
    ASSUME SnapshotsOK, snapshots' = snapshots, sites' = sites PROVE SnapshotsOK'
BY DEF SnapshotsOK, ProvenanceTrue, OneSitePerParcel, EvidenceOf

LEMMA ScenariosKept ==
    ASSUME ScenariosOK, revisions' = revisions, runs' = runs PROVE ScenariosOK'
BY DEF ScenariosOK

LEMMA TimesKept ==
    ASSUME TimesOK, expired' = expired,
           faults' = faults \/ (faults < MaxFaults /\ faults' = faults + 1)
    PROVE  TimesOK'
BY Sizes DEF TimesOK

LEMMA PlansKept ==
    ASSUME PlansOK, UNCHANGED <<plans, jobs, fetches>>, DOMAIN snapshots \subseteq DOMAIN snapshots'
    PROVE  PlansOK'
BY DEF PlansOK, JobsOK

-------------------------------------------------------------------------------
(* What a step changes                                                     *)

LEMMA PlanFacts ==
    ASSUME PlansOK
    PROVE  /\ DOMAIN plans = 1..Len(plans) /\ Len(plans) \in Nat
           /\ \A p \in DOMAIN plans : p \in PlanIds /\ plans[p] \in Plan
           /\ \A p \in PlanIds : jobs[p] \in Job /\ fetches[p] \in Nat
<1>1. plans \in Seq(Plan) /\ Len(plans) <= MaxPlans
  BY DEF PlansOK
<1>2. DOMAIN plans = 1..Len(plans) /\ Len(plans) \in Nat
  BY <1>1, LenProperties
<1>3. \A p \in DOMAIN plans : plans[p] \in Plan
  BY <1>1, <1>2, ElementOfSeq
<1> QED
  BY <1>1, <1>2, <1>3, Sizes DEF PlanIds, PlansOK

(* A plan changes its status and nothing else.                             *)
LEMMA StatusOK ==
    ASSUME PlansOK, NEW p \in DOMAIN plans, NEW status \in PlanStatus, SetStatus(p, status)
    PROVE  /\ plans' \in Seq(Plan) /\ Len(plans') = Len(plans) /\ DOMAIN plans' = DOMAIN plans
           /\ plans'[p].status = status
           /\ \A q \in DOMAIN plans : /\ plans'[q].snapshot = plans[q].snapshot
                                      /\ plans'[q].fields = plans[q].fields
                                      /\ q # p => plans'[q] = plans[q]
<1>1. plans[p] \in Plan /\ p \in 1..Len(plans) /\ plans \in Seq(Plan)
  BY PlanFacts DEF PlansOK
<1>2. [plans[p] EXCEPT !.status = status] \in Plan
  BY <1>1 DEF Plan
<1>3. plans' = [plans EXCEPT ![p] = [plans[p] EXCEPT !.status = status]]
  BY DEF SetStatus
<1>4. /\ plans' \in Seq(Plan) /\ Len(plans') = Len(plans)
      /\ \A q \in 1..Len(plans) : plans'[q] = IF q = p THEN [plans[p] EXCEPT !.status = status]
                                              ELSE plans[q]
  BY <1>1, <1>2, <1>3, ExceptSeq
<1>5. DOMAIN plans' = DOMAIN plans /\ DOMAIN plans = 1..Len(plans)
  BY <1>3, PlanFacts
<1> QED
  BY <1>1, <1>4, <1>5 DEF Plan

(* A snapshot that is stored keeps what holds of snapshots, if its records *)
(* are its own or carried as they are, and its site has its parcel.        *)
LEMMA StoreOK ==
    ASSUME SnapshotsOK, NEW snapshot \in Snapshot, Store(snapshot),
           sites' \in Nat, sites <= sites', snapshot.site <= sites',
           \A f \in DOMAIN snapshot.evidence :
               LET record == snapshot.evidence[f]
               IN IF record.carried = 0 THEN record.from = Len(snapshots) + 1
                  ELSE /\ record.carried \in 1..Len(snapshots)
                       /\ f \in DOMAIN EvidenceOf(record.carried)
                       /\ EvidenceOf(record.carried)[f] = [record EXCEPT !.carried = 0],
           \A s \in DOMAIN snapshots :
               snapshots[s].site = snapshot.site <=> snapshots[s].parcel = snapshot.parcel
    PROVE  /\ SnapshotsOK'
           /\ DOMAIN snapshots \subseteq DOMAIN snapshots'
           /\ Len(snapshots') = Len(snapshots) + 1 /\ Len(snapshots) + 1 \in SnapshotIds
           /\ snapshots'[Len(snapshots) + 1] = snapshot
<1> DEFINE n == Len(snapshots)
<1>1. /\ snapshots \in Seq(Snapshot) /\ n \in Nat /\ n < MaxSnapshots
      /\ DOMAIN snapshots = 1..n /\ snapshots' = Append(snapshots, snapshot)
  BY LenProperties DEF SnapshotsOK, Store
<1>2. /\ snapshots' \in Seq(Snapshot) /\ Len(snapshots') = n + 1
      /\ \A s \in 1..n : snapshots'[s] = snapshots[s]
      /\ snapshots'[n + 1] = snapshot
  BY <1>1, AppendProperties
<1>3. DOMAIN snapshots' = 1..n + 1
  BY <1>2, LenProperties
<1> HIDE DEF n
<1>4. \A s \in DOMAIN snapshots' : s \in DOMAIN snapshots \/ s = n + 1
  BY <1>1, <1>3
<1>5. \A s \in DOMAIN snapshots : snapshots'[s] = snapshots[s] /\ EvidenceOf(s)' = EvidenceOf(s)
  BY <1>1, <1>2 DEF EvidenceOf
<1>7. \A s \in DOMAIN snapshots' : snapshots'[s].site <= sites'
  <2> TAKE s \in DOMAIN snapshots'
  <2>1. CASE s = n + 1
    BY <2>1, <1>2
  <2>2. CASE s \in DOMAIN snapshots
    <3>1. snapshots[s].site <= sites /\ snapshots[s].site \in Nat /\ sites \in Nat
      BY <2>2, SnapshotFacts DEF SnapshotsOK, Snapshot
    <3> QED
      BY <2>2, <1>5, <3>1
  <2> QED
    BY <2>1, <2>2, <1>4
<1>8. ProvenanceTrue'
  <2> SUFFICES ASSUME NEW s \in DOMAIN snapshots', NEW f \in DOMAIN snapshots'[s].evidence,
                      NEW record, record = snapshots'[s].evidence[f]
               PROVE  IF record.carried = 0 THEN record.from = s
                      ELSE /\ record.carried \in 1..s - 1
                           /\ f \in DOMAIN snapshots'[record.carried].evidence
                           /\ snapshots'[record.carried].evidence[f] = [record EXCEPT !.carried = 0]
    BY DEF ProvenanceTrue, EvidenceOf
  <2>1. IF record.carried = 0 THEN record.from = s
        ELSE /\ record.carried \in 1..s - 1 /\ record.carried \in DOMAIN snapshots
             /\ f \in DOMAIN EvidenceOf(record.carried)
             /\ EvidenceOf(record.carried)[f] = [record EXCEPT !.carried = 0]
    <3>1. CASE s = n + 1
      <4>1. record = snapshot.evidence[f] /\ f \in DOMAIN snapshot.evidence
        BY <3>1, <1>2
      <4>2. IF record.carried = 0 THEN record.from = Len(snapshots) + 1
            ELSE /\ record.carried \in 1..Len(snapshots)
                 /\ f \in DOMAIN EvidenceOf(record.carried)
                 /\ EvidenceOf(record.carried)[f] = [record EXCEPT !.carried = 0]
        BY <4>1
      <4>3. s = Len(snapshots) + 1 /\ s - 1 = Len(snapshots) /\ DOMAIN snapshots = 1..s - 1
        BY <3>1, <1>1 DEF n
      <4> QED
        BY <4>2, <4>3
    <3>2. CASE s \in DOMAIN snapshots
      <4>1. record = EvidenceOf(s)[f] /\ f \in DOMAIN EvidenceOf(s) /\ s \in 1..n
        BY <3>2, <1>1, <1>2 DEF EvidenceOf
      <4>2. 1..s - 1 \subseteq DOMAIN snapshots
        BY <4>1, <1>1
      <4> QED
        BY <3>2, <4>1, <4>2 DEF SnapshotsOK, ProvenanceTrue
    <3> QED
      BY <3>1, <3>2, <1>4
  <2>2. record.carried # 0 => snapshots'[record.carried].evidence = EvidenceOf(record.carried)
    BY <2>1, <1>1, <1>2 DEF EvidenceOf
  <2> QED
    BY <2>1, <2>2
<1>9. OneSitePerParcel'
  <2> SUFFICES ASSUME NEW s \in DOMAIN snapshots', NEW t \in DOMAIN snapshots'
               PROVE  snapshots'[s].site = snapshots'[t].site <=> snapshots'[s].parcel = snapshots'[t].parcel
    BY DEF OneSitePerParcel
  <2>1. CASE s = n + 1
    BY <2>1, <1>2, <1>4, <1>5
  <2>2. CASE t = n + 1
    BY <2>2, <1>2, <1>4, <1>5
  <2>3. CASE s \in DOMAIN snapshots /\ t \in DOMAIN snapshots
    BY <2>3, <1>5 DEF SnapshotsOK, OneSitePerParcel
  <2> QED
    BY <2>1, <2>2, <2>3, <1>4
<1>10. SnapshotsOK'
  BY <1>1, <1>2, <1>7, <1>8, <1>9, Sizes DEF SnapshotsOK
<1> QED
  BY <1>1, <1>2, <1>3, <1>10, Sizes DEF n, SnapshotIds

-------------------------------------------------------------------------------
(* Plans and the jobs of confirmed ones *)

LEMMA JobFacts ==
    /\ NoJob \in Job /\ NoJob.on = FALSE /\ NoJob.todo = <<>> /\ Len(NoJob.todo) = 0
    /\ \A job \in Job : /\ job.todo \in Seq(SUBSET (Fields \cup {Identity}))
                        /\ Len(job.todo) \in Nat
                        /\ DOMAIN job.response \in SUBSET Fields
                        /\ job.response \in [DOMAIN job.response -> AllValues]
<1>1. <<>> \in [{} -> AllValues] /\ {} \in SUBSET Fields
  OBVIOUS
<1>2. <<>> \in UNION {[S -> AllValues] : S \in SUBSET Fields}
  BY <1>1
<1>3. <<>> \in Seq(SUBSET (Fields \cup {Identity})) /\ Len(<<>>) = 0
  OBVIOUS
<1>4. NoJob \in Job
  BY <1>2, <1>3 DEF NoJob, Job
<1>5. ASSUME NEW job \in Job
      PROVE  /\ job.todo \in Seq(SUBSET (Fields \cup {Identity})) /\ Len(job.todo) \in Nat
             /\ DOMAIN job.response \in SUBSET Fields
             /\ job.response \in [DOMAIN job.response -> AllValues]
  <2>1. /\ job.todo \in Seq(SUBSET (Fields \cup {Identity}))
        /\ job.response \in UNION {[S -> AllValues] : S \in SUBSET Fields}
    BY DEF Job
  <2> QED
    BY <2>1, LenProperties
<1> QED
  BY <1>3, <1>4, <1>5 DEF NoJob

(* Some jobs end: with the process, or with their plan.                    *)
LEMMA JobsEnd ==
    ASSUME PlansOK, NEW S \in SUBSET PlanIds, UNCHANGED fetches,
           jobs' = [q \in PlanIds |-> IF q \in S THEN NoJob ELSE jobs[q]],
           DOMAIN snapshots \subseteq DOMAIN snapshots',
           \/ UNCHANGED plans
           \/ \E p \in S : jobs[p].on /\ (SetStatus(p, "COMPLETED") \/ SetStatus(p, "IDENTITY_MISMATCH"))
    PROVE  PlansOK'
<1>1. jobs' \in [PlanIds -> Job] /\ fetches' \in [PlanIds -> Nat]
  BY JobFacts DEF PlansOK
<1>2. /\ plans' \in Seq(Plan) /\ Len(plans') = Len(plans) /\ DOMAIN plans' = DOMAIN plans
      /\ \A q \in DOMAIN plans : /\ plans'[q].snapshot = plans[q].snapshot
                                 /\ plans'[q].fields = plans[q].fields
                                 /\ q \notin S => plans'[q] = plans[q]
                                 /\ plans'[q].status \in {"QUOTED", "EXPIRED"} =>
                                        plans[q].status \in {"QUOTED", "EXPIRED"}
  <2>1. CASE UNCHANGED plans
    BY <2>1 DEF PlansOK
  <2>2. CASE \E p \in S : jobs[p].on /\ (SetStatus(p, "COMPLETED") \/ SetStatus(p, "IDENTITY_MISMATCH"))
    <3>1. PICK p \in S : jobs[p].on /\ (SetStatus(p, "COMPLETED") \/ SetStatus(p, "IDENTITY_MISMATCH"))
      BY <2>2
    <3>2. p \in DOMAIN plans
      BY <3>1 DEF PlansOK, JobsOK
    <3>3. PICK status \in {"COMPLETED", "IDENTITY_MISMATCH"} : SetStatus(p, status)
      BY <3>1
    <3>4. status \in PlanStatus
      BY DEF PlanStatus
    <3> QED
      BY <3>2, <3>3, <3>4, StatusOK
  <2> QED
    BY <2>1, <2>2
<1>3. /\ \A q \in S : jobs'[q].on = FALSE /\ jobs'[q].todo = <<>> /\ Len(jobs'[q].todo) = 0
      /\ \A q \in PlanIds \ S : jobs'[q] = jobs[q]
      /\ \A q \in PlanIds : Len(jobs[q].todo) \in Nat /\ fetches[q] \in Nat
  BY JobFacts DEF PlansOK
<1>4. JobsOK'
  <2> SUFFICES ASSUME NEW q \in PlanIds
               PROVE  /\ jobs'[q].on => q \in DOMAIN plans' /\ plans'[q].status = "CONFIRMED"
                      /\ ~jobs'[q].on => jobs'[q].todo = <<>>
                      /\ q \notin DOMAIN plans' => fetches'[q] = 0
    BY DEF JobsOK
  <2>1. /\ jobs[q].on => q \in DOMAIN plans /\ plans[q].status = "CONFIRMED"
        /\ ~jobs[q].on => jobs[q].todo = <<>>
        /\ q \notin DOMAIN plans => fetches[q] = 0
    BY DEF PlansOK, JobsOK
  <2>2. CASE q \in S
    BY <2>1, <2>2, <1>2, <1>3
  <2>3. CASE q \notin S
    BY <2>1, <2>3, <1>2, <1>3
  <2> QED
    BY <2>2, <2>3
<1>5. \A q \in DOMAIN plans : fetches[q] + Len(jobs'[q].todo) <= Len(Batches(plans'[q].fields))
  <2> TAKE q \in DOMAIN plans
  <2>1. /\ fetches[q] + Len(jobs[q].todo) <= Len(Batches(plans[q].fields))
        /\ plans[q].fields \in SUBSET Fields /\ q \in PlanIds
    BY PlanFacts DEF PlansOK, Plan
  <2>2. Len(Batches(plans[q].fields)) \in Nat
    BY <2>1, BatchesOK
  <2>3. plans'[q].fields = plans[q].fields
    BY <1>2
  <2>4. Len(jobs'[q].todo) <= Len(jobs[q].todo) /\ Len(jobs'[q].todo) \in Nat
    <3>1. CASE q \in S
      BY <3>1, <1>3, <2>1
    <3>2. CASE q \notin S
      BY <3>2, <1>3, <2>1
    <3> QED
      BY <3>1, <3>2
  <2> QED
    BY <1>3, <2>1, <2>2, <2>3, <2>4
<1> QED
  BY <1>1, <1>2, <1>4, <1>5 DEF PlansOK

LEMMA QuoteExpiresOK ==
    ASSUME IInv, NEW p \in DOMAIN plans, QuoteExpires(p) PROVE IInv'
<1>1. plans[p] \in Plan /\ p \in 1..Len(plans) /\ plans \in Seq(Plan)
  BY PlanFacts DEF PlansOK, IInv
<1>2. [plans[p] EXCEPT !.late = TRUE] \in Plan
  BY <1>1 DEF Plan
<1>3. plans' = [plans EXCEPT ![p] = [plans[p] EXCEPT !.late = TRUE]]
  BY DEF QuoteExpires
<1>4. /\ plans' \in Seq(Plan) /\ Len(plans') = Len(plans)
      /\ \A q \in 1..Len(plans) : plans'[q] = IF q = p THEN [plans[p] EXCEPT !.late = TRUE]
                                              ELSE plans[q]
  BY <1>1, <1>2, <1>3, ExceptSeq
<1>5. DOMAIN plans' = DOMAIN plans /\ DOMAIN plans = 1..Len(plans)
  BY <1>3, PlanFacts DEF IInv
<1>6. \A q \in DOMAIN plans : /\ plans'[q].snapshot = plans[q].snapshot
                              /\ plans'[q].fields = plans[q].fields
                              /\ plans'[q].status = plans[q].status
  BY <1>1, <1>4, <1>5 DEF Plan
<1>7. UNCHANGED <<snapshots, sites, expired, jobs, fetches, revisions, runs, faults>>
  BY DEF QuoteExpires, scenarioVars
<1>8. PlansOK'
  BY <1>4, <1>5, <1>6, <1>7 DEF IInv, PlansOK, JobsOK
<1> QED
  BY <1>7, <1>8, SnapshotsKept, ScenariosKept, TimesKept DEF IInv

LEMMA ConfirmOK ==
    ASSUME IInv, NEW p \in DOMAIN plans, Confirm(p) PROVE IInv'
<1>1. UNCHANGED <<snapshots, sites, expired, fetches, revisions, runs, faults>>
  BY DEF Confirm, scenarioVars
<1>2. p \in PlanIds /\ plans[p] \in Plan /\ plans[p].status = "QUOTED" /\ fetches[p] = 0
  BY PlanFacts DEF IInv, PlansOK, Confirm
<1>3. PICK status \in {"EXPIRED", "CONFIRMED"} :
          /\ SetStatus(p, status)
          /\ \/ status = "EXPIRED" /\ UNCHANGED jobs
             \/ /\ status = "CONFIRMED"
                /\ jobs' = [jobs EXCEPT ![p] = [on |-> TRUE, todo |-> Batches(plans[p].fields),
                                                response |-> <<>>]]
  BY DEF Confirm, Confirmed
<1>4. /\ plans' \in Seq(Plan) /\ Len(plans') = Len(plans) /\ DOMAIN plans' = DOMAIN plans
      /\ plans'[p].status = status
      /\ \A q \in DOMAIN plans : /\ plans'[q].snapshot = plans[q].snapshot
                                 /\ plans'[q].fields = plans[q].fields
                                 /\ q # p => plans'[q] = plans[q]
  <2>1. status \in PlanStatus
    BY DEF PlanStatus
  <2> QED
    BY <1>3, <2>1, StatusOK DEF IInv
<1>5. CASE status = "EXPIRED"
  <2>1. UNCHANGED jobs
    BY <1>3, <1>5
  <2>2. ~jobs[p].on
    BY <1>2 DEF IInv, PlansOK, JobsOK
  <2>3. PlansOK'
    BY <1>1, <1>2, <1>4, <1>5, <2>1, <2>2 DEF IInv, PlansOK, JobsOK
  <2> QED
    BY <1>1, <2>3, SnapshotsKept, ScenariosKept, TimesKept DEF IInv
<1>6. CASE status = "CONFIRMED"
  <2> DEFINE batches == Batches(plans[p].fields)
             job == [on |-> TRUE, todo |-> batches, response |-> <<>>]
  <2>1. jobs' = [jobs EXCEPT ![p] = job] /\ jobs \in [PlanIds -> Job]
    BY <1>3, <1>6 DEF IInv, PlansOK
  <2>2. batches \in Seq(SUBSET (Fields \cup {Identity})) /\ Len(batches) \in Nat
    BY <1>2, BatchesOK DEF Plan
  <2> HIDE DEF batches
  <2>3. job \in Job
    BY <2>2, JobFacts DEF NoJob, Job
  <2>4. job.on = TRUE /\ job.todo = batches
    OBVIOUS
  <2> HIDE DEF job
  <2>5. jobs' \in [PlanIds -> Job] /\ jobs'[p] = job
        /\ \A q \in PlanIds : q # p => jobs'[q] = jobs[q]
    BY <1>2, <2>1, <2>3
  <2>6. JobsOK'
    BY <1>1, <1>4, <1>6, <2>4, <2>5 DEF IInv, PlansOK, JobsOK
  <2>7. \A q \in DOMAIN plans : fetches[q] + Len(jobs'[q].todo) <= Len(Batches(plans'[q].fields))
    <3> TAKE q \in DOMAIN plans
    <3>1. CASE q = p
      BY <3>1, <1>2, <1>4, <2>2, <2>4, <2>5 DEF batches
    <3>2. CASE q # p
      BY <3>2, <1>4, <2>5, PlanFacts DEF IInv, PlansOK
    <3> QED
      BY <3>1, <3>2
  <2>8. PlansOK'
    BY <1>1, <1>4, <1>6, <2>5, <2>6, <2>7 DEF IInv, PlansOK
  <2> QED
    BY <1>1, <2>8, SnapshotsKept, ScenariosKept, TimesKept DEF IInv
<1> QED
  BY <1>5, <1>6

LEMMA FetchBatchOK ==
    ASSUME IInv, NEW p \in DOMAIN plans, NEW values \in Responses(plans[p].fields),
           FetchBatch(p, values)
    PROVE  IInv'
<1> DEFINE old == jobs[p].response
           todo == jobs[p].todo
           response == [f \in DOMAIN old \cup DOMAIN values |->
                           IF f \in DOMAIN values THEN values[f] ELSE old[f]]
<1>1. UNCHANGED <<snapshots, sites, expired, plans, revisions, runs, faults>>
  BY DEF FetchBatch, scenarioVars
<1>2. /\ p \in PlanIds /\ plans[p].fields \in SUBSET Fields /\ jobs[p] \in Job
      /\ jobs[p].on /\ todo # <<>> /\ fetches[p] \in Nat
  BY PlanFacts DEF IInv, Plan, FetchBatch
<1>3. plans[p].status = "CONFIRMED"
  BY <1>2 DEF IInv, PlansOK, JobsOK
<1>4. /\ todo \in Seq(SUBSET (Fields \cup {Identity}))
      /\ DOMAIN old \in SUBSET Fields /\ old \in [DOMAIN old -> AllValues]
  BY <1>2, JobFacts
<1>5. DOMAIN values \in SUBSET Fields /\ values \in [DOMAIN values -> AllValues]
  BY <1>2, ResponseFacts
<1>6. /\ Tail(todo) \in Seq(SUBSET (Fields \cup {Identity}))
      /\ Len(Tail(todo)) = Len(todo) - 1 /\ Len(todo) \in Nat
  BY <1>2, <1>4, HeadTailProperties, LenProperties
<1> HIDE DEF todo, old
<1>7. response \in [DOMAIN old \cup DOMAIN values -> AllValues]
  BY <1>4, <1>5
<1>8. response \in UNION {[S -> AllValues] : S \in SUBSET Fields}
  <2>1. DOMAIN old \cup DOMAIN values \in SUBSET Fields
    BY <1>4, <1>5
  <2> HIDE DEF response
  <2> QED
    BY <1>7, <2>1
<1>9. /\ jobs' = [jobs EXCEPT ![p] = [jobs[p] EXCEPT !.todo = Tail(todo), !.response = response]]
      /\ fetches' = [fetches EXCEPT ![p] = fetches[p] + 1]
  BY DEF FetchBatch, todo, old
<1> HIDE DEF response
<1>10. /\ [jobs[p] EXCEPT !.todo = Tail(todo), !.response = response] \in Job
       /\ [jobs[p] EXCEPT !.todo = Tail(todo), !.response = response].on = TRUE
       /\ [jobs[p] EXCEPT !.todo = Tail(todo), !.response = response].todo = Tail(todo)
  BY <1>2, <1>6, <1>8 DEF Job
<1>11. /\ jobs' \in [PlanIds -> Job] /\ jobs'[p].on = TRUE /\ jobs'[p].todo = Tail(todo)
       /\ \A q \in PlanIds : q # p => jobs'[q] = jobs[q]
  BY <1>2, <1>9, <1>10 DEF IInv, PlansOK
<1>12. /\ fetches' \in [PlanIds -> Nat] /\ fetches'[p] = fetches[p] + 1
       /\ \A q \in PlanIds : q # p => fetches'[q] = fetches[q]
  BY <1>2, <1>9 DEF IInv, PlansOK
<1>13. JobsOK'
  BY <1>1, <1>2, <1>3, <1>11, <1>12 DEF IInv, PlansOK, JobsOK
<1>14. \A q \in DOMAIN plans : fetches'[q] + Len(jobs'[q].todo) <= Len(Batches(plans[q].fields))
  <2> TAKE q \in DOMAIN plans
  <2>1. q \in PlanIds /\ fetches[q] + Len(jobs[q].todo) <= Len(Batches(plans[q].fields))
    BY PlanFacts DEF IInv, PlansOK
  <2>2. CASE q = p
    <3>1. fetches'[q] = fetches[p] + 1
      BY <2>2, <1>12
    <3>2. Len(jobs'[q].todo) = Len(todo) - 1
      BY <2>2, <1>6, <1>11
    <3>3. fetches[p] + Len(todo) <= Len(Batches(plans[q].fields))
      BY <2>1, <2>2 DEF todo
    <3>4. fetches[p] \in Nat /\ Len(todo) \in Nat
      BY <1>2, <1>6
    <3>5. (fetches[p] + 1) + (Len(todo) - 1) = fetches[p] + Len(todo)
      BY <3>4
    <3> QED
      BY <3>1, <3>2, <3>3, <3>5
  <2>3. CASE q # p
    BY <2>1, <2>3, <1>11, <1>12
  <2> QED
    BY <2>2, <2>3
<1>15. PlansOK'
  BY <1>1, <1>3, <1>11, <1>12, <1>13, <1>14, PlanFacts DEF IInv, PlansOK
<1> QED
  BY <1>1, <1>15, SnapshotsKept, ScenariosKept, TimesKept DEF IInv

-------------------------------------------------------------------------------
(* The other steps *)

LEMMA AffectedOK ==
    ASSUME NEW site, NEW changed PROVE Affected(site, changed) \subseteq Scenarios \X (1..MaxRevisions)
BY DEF Affected

LEMMA QuoteRefreshOK ==
    ASSUME IInv, NEW s \in DOMAIN snapshots, NEW checked \in {DOMAIN EvidenceOf(s), Fields},
           QuoteRefresh(s, checked)
    PROVE  IInv'
<1> DEFINE fields == RefreshFields(s, checked)
           plan == [snapshot |-> s, fields |-> fields, status |-> "QUOTED", late |-> FALSE,
                    affected |-> Affected(snapshots[s].site, fields)]
           n == Len(plans)
<1>1. /\ snapshots' = snapshots /\ sites' = sites /\ expired' = expired /\ jobs' = jobs
      /\ fetches' = fetches /\ revisions' = revisions /\ runs' = runs /\ faults' = faults
  BY DEF QuoteRefresh, scenarioVars
<1>2. s \in SnapshotIds /\ DOMAIN EvidenceOf(s) \subseteq Fields
  BY SnapshotFacts DEF IInv
<1>3. fields \in SUBSET Fields
  BY <1>2 DEF RefreshFields
<1>4. plans' = Append(plans, plan) /\ n < MaxPlans
  BY DEF QuoteRefresh
<1> HIDE DEF fields
<1>5. plan \in Plan
  BY <1>2, <1>3, AffectedOK DEF Plan, PlanStatus
<1>6. plan.snapshot = s /\ plan.fields = fields /\ plan.status = "QUOTED"
  OBVIOUS
<1>7. plans \in Seq(Plan) /\ n \in Nat /\ DOMAIN plans = 1..n
  BY PlanFacts DEF IInv, PlansOK
<1> HIDE DEF plan, n
<1>8. /\ plans' \in Seq(Plan) /\ Len(plans') = n + 1 /\ plans'[n + 1] = plan
      /\ \A q \in 1..n : plans'[q] = plans[q]
  BY <1>4, <1>5, <1>7, AppendProperties DEF n
<1>9. DOMAIN plans' = 1..n + 1 /\ n + 1 \in PlanIds /\ n + 1 \notin DOMAIN plans
  BY <1>4, <1>7, <1>8, LenProperties, Sizes DEF PlanIds
<1>10. \A q \in DOMAIN plans' : q = n + 1 \/ q \in DOMAIN plans
  BY <1>7, <1>9
<1>11. jobs[n + 1].todo = <<>> /\ fetches[n + 1] = 0
  BY <1>9 DEF IInv, PlansOK, JobsOK
<1>12. JobsOK'
  BY <1>1, <1>7, <1>8, <1>9, <1>10 DEF IInv, PlansOK, JobsOK
<1>13. \A q \in DOMAIN plans' : fetches[q] + Len(jobs[q].todo) <= Len(Batches(plans'[q].fields))
  <2> TAKE q \in DOMAIN plans'
  <2>1. CASE q = n + 1
    <3>1. Len(Batches(fields)) \in Nat
      BY <1>3, BatchesOK
    <3>2. Len(jobs[q].todo) = 0 /\ fetches[q] = 0 /\ plans'[q].fields = fields
      BY <2>1, <1>6, <1>8, <1>11
    <3> QED
      BY <3>1, <3>2
  <2>2. CASE q \in DOMAIN plans
    BY <2>2, <1>7, <1>8 DEF IInv, PlansOK
  <2> QED
    BY <2>1, <2>2, <1>10
<1>14. \A q \in DOMAIN plans' : plans'[q].snapshot \in DOMAIN snapshots
  BY <1>6, <1>7, <1>8, <1>10 DEF IInv, PlansOK
<1>15. \A q \in DOMAIN plans' : plans'[q].status \in {"QUOTED", "EXPIRED"} => fetches[q] = 0
  BY <1>7, <1>8, <1>10, <1>11 DEF IInv, PlansOK
<1>16. Len(plans') <= MaxPlans
  BY <1>4, <1>7, <1>8, Sizes
<1>17. PlansOK'
  BY <1>1, <1>8, <1>12, <1>13, <1>14, <1>15, <1>16 DEF IInv, PlansOK
<1> QED
  BY <1>1, <1>17, SnapshotsKept, ScenariosKept, TimesKept DEF IInv

LEMMA EvidenceExpiresOK ==
    ASSUME IInv, NEW s \in DOMAIN snapshots, NEW f \in Fields, EvidenceExpires(f, s) PROVE IInv'
<1>1. /\ snapshots' = snapshots /\ sites' = sites /\ plans' = plans /\ jobs' = jobs
      /\ fetches' = fetches /\ revisions' = revisions /\ runs' = runs /\ faults' = faults
  BY DEF EvidenceExpires, sandboxVars, scenarioVars
<1>2. s \in SnapshotIds
  BY SnapshotFacts DEF IInv
<1>3. TimesOK'
  BY <1>1, <1>2 DEF EvidenceExpires, IInv, TimesOK
<1> QED
  BY <1>1, <1>3, SnapshotsKept, ScenariosKept, PlansKept DEF IInv

LEMMA WriteOK ==
    ASSUME IInv, NEW s \in DOMAIN snapshots, NEW sc \in Scenarios, NEW constraints \in Requests,
           Write(sc, s, constraints)
    PROVE  IInv'
<1> DEFINE revision == [snapshot |-> s, evaluation |-> Evaluate(EvidenceOf(s), constraints)]
<1>1. /\ snapshots' = snapshots /\ sites' = sites /\ plans' = plans /\ jobs' = jobs
      /\ fetches' = fetches /\ expired' = expired /\ runs' = runs /\ faults' = faults
  BY DEF Write, sandboxVars
<1>2. s \in SnapshotIds /\ EvidenceOf(s) \in Evidence /\ constraints \in SUBSET Fields
  BY SnapshotFacts, Sizes DEF IInv
<1>3. revision \in Revision
  BY <1>2, EvaluateOK DEF Revision
<1>4. revisions' = [revisions EXCEPT ![sc] = Append(revisions[sc], revision)]
  BY DEF Write
<1> HIDE DEF revision
<1>5. Append(revisions[sc], revision) \in Seq(Revision)
  BY <1>3, AppendProperties DEF IInv, ScenariosOK
<1>6. ScenariosOK'
  BY <1>1, <1>4, <1>5 DEF IInv, ScenariosOK
<1> QED
  BY <1>1, <1>6, SnapshotsKept, PlansKept, TimesKept DEF IInv

LEMMA ProcessEndsOK ==
    ASSUME IInv, UNCHANGED <<snapshots, sites, expired, plans, fetches, revisions, runs>>,
           faults < MaxFaults, faults' = faults + 1, NEW S \in SUBSET PlanIds,
           jobs' = [q \in PlanIds |-> IF q \in S THEN NoJob ELSE jobs[q]]
    PROVE  IInv'
<1>1. PlansOK'
  BY JobsEnd DEF IInv
<1> QED
  BY <1>1, SnapshotsKept, ScenariosKept, TimesKept DEF IInv

(* One job ends, or all of them.                                           *)
LEMMA JobsEnded ==
    /\ [q \in PlanIds |-> NoJob] = [q \in PlanIds |-> IF q \in PlanIds THEN NoJob ELSE jobs[q]]
    /\ \A p \in PlanIds : PlansOK =>
           [jobs EXCEPT ![p] = NoJob] = [q \in PlanIds |-> IF q \in {p} THEN NoJob ELSE jobs[q]]
BY DEF PlansOK

LEMMA CreateSnapshotOK ==
    ASSUME IInv, NEW parcel \in Parcels, NEW response \in Responses(Fields),
           CreateSnapshot(parcel, response)
    PROVE  IInv'
<1> DEFINE site == SiteFor(parcel)
           n == Len(snapshots)
           evidence == Normalized(n + 1, response)
           snapshot == [site |-> site, parcel |-> parcel, previous |-> 0, evidence |-> evidence]
<1>1. /\ expired' = expired /\ plans' = plans /\ fetches' = fetches
      /\ revisions' = revisions /\ runs' = runs
      /\ sites' = IF site > sites THEN site ELSE sites
  BY DEF CreateSnapshot, scenarioVars
<1>2. /\ site \in Nat /\ \A s \in OfParcel(parcel) : site = snapshots[s].site
      /\ OfParcel(parcel) = {} => site = sites + 1
  BY SiteOK DEF IInv
<1>3. sites \in Nat /\ \A s \in DOMAIN snapshots : snapshots[s].site \in Nat /\ snapshots[s].site <= sites
  BY SnapshotFacts DEF IInv, SnapshotsOK, Snapshot
<1>4. \A s \in DOMAIN snapshots : snapshots[s].site = site <=> snapshots[s].parcel = parcel
  <2> TAKE s \in DOMAIN snapshots
  <2>1. CASE s \in OfParcel(parcel)
    BY <2>1, <1>2 DEF OfParcel
  <2>2. CASE s \notin OfParcel(parcel) /\ OfParcel(parcel) = {}
    BY <2>2, <1>2, <1>3 DEF OfParcel
  <2>3. CASE s \notin OfParcel(parcel) /\ OfParcel(parcel) # {}
    <3>1. PICK t \in OfParcel(parcel) : TRUE
      BY <2>3
    <3>2. t \in DOMAIN snapshots /\ snapshots[t].parcel = parcel /\ site = snapshots[t].site
      BY <1>2 DEF OfParcel
    <3>3. snapshots[s].parcel # parcel
      BY <2>3 DEF OfParcel
    <3> QED
      BY <3>2, <3>3 DEF IInv, SnapshotsOK, OneSitePerParcel
  <2> QED
    BY <2>1, <2>2, <2>3
<1> HIDE DEF site
<1>5. sites' \in Nat /\ sites <= sites' /\ site <= sites'
  BY <1>1, <1>2, <1>3
<1>6. CASE Store(snapshot) /\ UNCHANGED <<jobs, faults>>
  <2>1. n \in Nat /\ n < MaxSnapshots
    BY <1>6, LenProperties DEF Store, IInv, SnapshotsOK
  <2>2. n + 1 \in SnapshotIds
    BY <2>1, Sizes DEF SnapshotIds
  <2>3. DOMAIN response \in SUBSET Fields /\ response \in [DOMAIN response -> AllValues]
    BY ResponseFacts
  <2>4. /\ evidence \in Evidence /\ DOMAIN evidence = DOMAIN response
        /\ \A f \in DOMAIN evidence : evidence[f].carried = 0 /\ evidence[f].from = n + 1
    <3> HIDE DEF n
    <3> QED
      BY <2>2, <2>3, NormalizedOK
  <2> HIDE DEF evidence
  <2>5. snapshot \in Snapshot
    BY <1>2, <2>4, Sizes DEF Snapshot
  <2>6. snapshot.site = site /\ snapshot.parcel = parcel /\ snapshot.evidence = evidence
    OBVIOUS
  <2> HIDE DEF snapshot
  <2>7. SnapshotsOK' /\ DOMAIN snapshots \subseteq DOMAIN snapshots'
    <3>1. \A f \in DOMAIN snapshot.evidence :
              snapshot.evidence[f].carried = 0 /\ snapshot.evidence[f].from = Len(snapshots) + 1
      BY <2>4, <2>6
    <3>2. SnapshotsOK /\ Store(snapshot) /\ snapshot.site <= sites'
      BY <1>5, <1>6, <2>6 DEF IInv
    <3>3. \A s \in DOMAIN snapshots :
              snapshots[s].site = snapshot.site <=> snapshots[s].parcel = snapshot.parcel
      BY <1>4, <2>6
    <3> QED
      BY <1>5, <2>5, <3>1, <3>2, <3>3, StoreOK
  <2> QED
    BY <1>1, <1>6, <2>7, PlansKept, ScenariosKept, TimesKept DEF IInv
<1>7. CASE /\ faults < MaxFaults /\ faults' = faults + 1
           /\ jobs' = [p \in PlanIds |-> NoJob] /\ UNCHANGED snapshots
  <2>1. SnapshotsOK'
    <3>1. \A s \in DOMAIN snapshots : snapshots[s].site <= sites'
      BY <1>3, <1>5
    <3> QED
      BY <1>5, <1>7, <3>1 DEF IInv, SnapshotsOK, ProvenanceTrue, OneSitePerParcel, EvidenceOf
  <2>2. PlansOK'
    BY <1>1, <1>7, JobsEnd, JobsEnded DEF IInv
  <2> QED
    BY <1>1, <1>7, <2>1, <2>2, ScenariosKept, TimesKept DEF IInv
<1> QED
  BY <1>6, <1>7 DEF CreateSnapshot, site

(* The runs of a refresh are runs, one for each affected revision.         *)
LEMMA RevalidatedOK ==
    ASSUME ScenariosOK, NEW p \in DOMAIN plans, plans[p].snapshot \in SnapshotIds,
           NEW id \in SnapshotIds, NEW new \in Evidence, NEW changed
    PROVE  /\ Revalidated(p, id, new, changed) \subseteq Run
           /\ \A x \in Affected(snapshots[plans[p].snapshot].site, changed) :
                  RunFor(x, plans[p].snapshot, id, new, changed) \in Revalidated(p, id, new, changed)
<1>1. ASSUME NEW x \in Affected(snapshots[plans[p].snapshot].site, changed)
      PROVE  RunFor(x, plans[p].snapshot, id, new, changed) \in Run
  <2>1. x \in Scenarios \X (1..MaxRevisions) /\ Exists(x[1], x[2])
    BY DEF Affected
  <2> QED
    BY <2>1, RunOK
<1> QED
  BY <1>1 DEF Revalidated

LEMMA RefreshStored ==
    ASSUME IInv, NEW p \in DOMAIN plans, NEW parcel \in Parcels, RefreshEnds(p, parcel)
    PROVE  LET previous == plans[p].snapshot
               id == Len(snapshots) + 1
               new == Refreshed(id, previous, jobs[p].response)
           IN /\ SnapshotsOK' /\ DOMAIN snapshots \subseteq DOMAIN snapshots'
              /\ previous \in SnapshotIds /\ id \in SnapshotIds /\ new \in Evidence
              /\ Len(snapshots') = id
              /\ snapshots'[id].evidence = new
              /\ snapshots'[id].site = snapshots[previous].site
<1> DEFINE previous == plans[p].snapshot
           n == Len(snapshots)
           old == EvidenceOf(previous)
           response == jobs[p].response
           evidence == Refreshed(n + 1, previous, response)
           snapshot == [site |-> snapshots[previous].site, parcel |-> parcel,
                        previous |-> previous, evidence |-> evidence]
<1>1. /\ previous \in DOMAIN snapshots /\ p \in PlanIds
      /\ DOMAIN response \in SUBSET Fields /\ response \in [DOMAIN response -> AllValues]
  BY PlanFacts, JobFacts DEF IInv, PlansOK
<1>2. /\ previous \in SnapshotIds /\ snapshots[previous] \in Snapshot
      /\ DOMAIN old \subseteq Fields /\ \A f \in DOMAIN old : old[f] \in Record
  BY <1>1, SnapshotFacts DEF IInv
<1>3. n \in Nat /\ n < MaxSnapshots /\ DOMAIN snapshots = 1..n
  BY LenProperties DEF RefreshEnds, Store, IInv, SnapshotsOK
<1>4. n + 1 \in SnapshotIds
  BY <1>3, Sizes DEF SnapshotIds
<1>5. /\ evidence \in Evidence /\ DOMAIN evidence = DOMAIN old \cup DOMAIN response
      /\ \A f \in DOMAIN response : evidence[f].carried = 0 /\ evidence[f].from = n + 1
      /\ \A f \in DOMAIN old \ DOMAIN response : evidence[f] = Carried(old[f], previous)
  <2> HIDE DEF n, previous, response
  <2> QED
    BY <1>1, <1>4, RefreshedOK DEF IInv, old
<1>6. snapshots[previous].parcel = parcel /\ Store(snapshot) /\ sites' = sites
  BY DEF RefreshEnds, SameParcel
<1> HIDE DEF evidence, response
<1>7. snapshots[previous].site \in Nat /\ snapshots[previous].site <= sites /\ sites \in Nat
  BY <1>1, <1>2 DEF Snapshot, IInv, SnapshotsOK
<1>8. snapshot \in Snapshot
  <2>1. previous \in 0..MaxSnapshots
    BY <1>2, Sizes DEF SnapshotIds
  <2> HIDE DEF previous
  <2> QED
    BY <1>5, <1>7, <2>1 DEF Snapshot
<1>9. /\ snapshot.site = snapshots[previous].site /\ snapshot.parcel = parcel
      /\ snapshot.evidence = evidence
  OBVIOUS
<1> HIDE DEF snapshot
<1>10. \A s \in DOMAIN snapshots :
           snapshots[s].site = snapshot.site <=> snapshots[s].parcel = snapshot.parcel
  BY <1>1, <1>6, <1>9 DEF IInv, SnapshotsOK, OneSitePerParcel
<1>11. ASSUME NEW f \in DOMAIN evidence, NEW record, record = evidence[f]
       PROVE  IF record.carried = 0 THEN record.from = n + 1
              ELSE /\ record.carried \in 1..n
                   /\ f \in DOMAIN EvidenceOf(record.carried)
                   /\ EvidenceOf(record.carried)[f] = [record EXCEPT !.carried = 0]
  <2>1. CASE f \in DOMAIN response
    BY <2>1, <1>5, <1>11
  <2>2. CASE f \notin DOMAIN response
    <3>1. f \in DOMAIN old /\ record = Carried(old[f], previous) /\ old[f] \in Record
      BY <2>2, <1>2, <1>5, <1>11
    <3>2. /\ record.carried = IF old[f].carried # 0 THEN old[f].carried ELSE previous
          /\ record.carried # 0
          /\ [record EXCEPT !.carried = 0] = [old[f] EXCEPT !.carried = 0]
          /\ old[f].carried = 0 => [old[f] EXCEPT !.carried = 0] = old[f]
      BY <3>1, <1>2, CarriedOK
    <3>3. CASE old[f].carried = 0
      <4>1. record.carried = previous /\ [record EXCEPT !.carried = 0] = old[f]
        BY <3>2, <3>3
      <4> QED
        BY <4>1, <3>1, <3>2, <1>1, <1>3 DEF old
    <3>4. CASE old[f].carried # 0
      <4>1. /\ old[f].carried \in 1..previous - 1
            /\ f \in DOMAIN EvidenceOf(old[f].carried)
            /\ EvidenceOf(old[f].carried)[f] = [old[f] EXCEPT !.carried = 0]
        BY <3>1, <3>4, <1>1 DEF IInv, SnapshotsOK, ProvenanceTrue, old
      <4>2. 1..previous - 1 \subseteq 1..n
        BY <1>1, <1>3
      <4>3. record.carried = old[f].carried
        BY <3>2, <3>4
      <4> QED
        BY <4>1, <4>2, <4>3, <3>2
    <3> QED
      BY <3>3, <3>4
  <2> QED
    BY <2>1, <2>2
<1>12. \A f \in DOMAIN snapshot.evidence :
           LET record == snapshot.evidence[f]
           IN IF record.carried = 0 THEN record.from = n + 1
              ELSE /\ record.carried \in 1..n
                   /\ f \in DOMAIN EvidenceOf(record.carried)
                   /\ EvidenceOf(record.carried)[f] = [record EXCEPT !.carried = 0]
  BY <1>9, <1>11
<1>13. /\ SnapshotsOK' /\ DOMAIN snapshots \subseteq DOMAIN snapshots'
       /\ Len(snapshots') = n + 1 /\ snapshots'[n + 1] = snapshot
  <2>1. sites' \in Nat /\ sites <= sites' /\ snapshot.site <= sites'
    BY <1>6, <1>7, <1>9
  <2> QED
    BY <1>6, <1>8, <1>10, <1>12, <2>1, StoreOK DEF IInv
<1> QED
  BY <1>2, <1>4, <1>5, <1>9, <1>13 DEF evidence, response

LEMMA RefreshEndsOK ==
    ASSUME IInv, NEW p \in DOMAIN plans, NEW parcel \in Parcels, RefreshEnds(p, parcel)
    PROVE  IInv'
<1> DEFINE previous == plans[p].snapshot
           id == Len(snapshots) + 1
           new == Refreshed(id, previous, jobs[p].response)
           revalidated == Revalidated(p, id, new, Changed(EvidenceOf(previous), new))
<1>1. /\ sites' = sites /\ expired' = expired /\ fetches' = fetches /\ revisions' = revisions
      /\ jobs[p].on /\ p \in PlanIds
  BY PlanFacts DEF RefreshEnds, IInv
<1>2. /\ SnapshotsOK' /\ DOMAIN snapshots \subseteq DOMAIN snapshots'
      /\ previous \in SnapshotIds /\ id \in SnapshotIds /\ new \in Evidence
  BY RefreshStored
<1>3. revalidated \subseteq Run
  <2> HIDE DEF id, new
  <2> QED
    BY <1>2, RevalidatedOK DEF IInv
<1>4. \/ /\ runs' = runs \cup revalidated /\ SetStatus(p, "COMPLETED")
         /\ jobs' = [jobs EXCEPT ![p] = NoJob] /\ faults' = faults
      \/ /\ \E done \in SUBSET revalidated : runs' = runs \cup done
         /\ faults < MaxFaults /\ faults' = faults + 1
         /\ jobs' = [q \in PlanIds |-> NoJob] /\ UNCHANGED plans
  BY DEF RefreshEnds
<1> HIDE DEF revalidated, id, new
<1>5. runs' \subseteq runs \cup revalidated
  BY <1>4
<1>6. ScenariosOK'
  BY <1>1, <1>3, <1>5 DEF IInv, ScenariosOK
<1>7. PlansOK'
  <2>1. CASE SetStatus(p, "COMPLETED") /\ jobs' = [jobs EXCEPT ![p] = NoJob]
    <3>1. jobs' = [q \in PlanIds |-> IF q \in {p} THEN NoJob ELSE jobs[q]]
      BY <2>1, <1>1, JobsEnded DEF IInv
    <3>2. {p} \in SUBSET PlanIds /\ p \in {p}
      BY <1>1
    <3> QED
      BY <1>1, <1>2, <2>1, <3>1, <3>2, JobsEnd DEF IInv
  <2>2. CASE jobs' = [q \in PlanIds |-> NoJob] /\ UNCHANGED plans
    BY <1>1, <1>2, <2>2, JobsEnd, JobsEnded DEF IInv
  <2> QED
    BY <1>4, <2>1, <2>2
<1>8. TimesOK'
  BY <1>1, <1>4, TimesKept DEF IInv
<1> QED
  BY <1>2, <1>6, <1>7, <1>8 DEF IInv

LEMMA RefreshStopsOK ==
    ASSUME IInv, NEW p \in DOMAIN plans,
           RefreshFails(p) \/ \E parcel \in Parcels : RefreshMismatches(p, parcel)
    PROVE  IInv'
<1>1. /\ snapshots' = snapshots /\ sites' = sites /\ expired' = expired /\ fetches' = fetches
      /\ revisions' = revisions /\ runs' = runs
      /\ jobs[p].on /\ p \in PlanIds
      /\ jobs' = [jobs EXCEPT ![p] = NoJob]
      /\ faults' = faults \/ (faults < MaxFaults /\ faults' = faults + 1)
      /\ UNCHANGED plans \/ SetStatus(p, "IDENTITY_MISMATCH")
  BY PlanFacts DEF RefreshFails, RefreshMismatches, IInv, scenarioVars
<1>2. jobs' = [q \in PlanIds |-> IF q \in {p} THEN NoJob ELSE jobs[q]]
  BY <1>1, JobsEnded DEF IInv
<1>3. {p} \in SUBSET PlanIds /\ p \in {p}
  BY <1>1
<1>4. PlansOK'
  BY <1>1, <1>2, <1>3, JobsEnd DEF IInv
<1> QED
  BY <1>1, <1>4, SnapshotsKept, ScenariosKept, TimesKept DEF IInv

-------------------------------------------------------------------------------
(* The inductive invariant *)

LEMMA InitOK == ASSUME Init PROVE IInv
<1>1. SnapshotsOK
  BY Sizes DEF Init, SnapshotsOK, ProvenanceTrue, OneSitePerParcel
<1>2. jobs \in [PlanIds -> Job] /\ \A p \in PlanIds : jobs[p] = NoJob
  BY JobFacts DEF Init
<1>3. plans \in Seq(Plan) /\ Len(plans) <= MaxPlans /\ DOMAIN plans = {}
  BY Sizes DEF Init
<1>4. fetches \in [PlanIds -> Nat] /\ \A p \in PlanIds : fetches[p] = 0
  BY DEF Init
<1>5. PlansOK
  BY <1>2, <1>3, <1>4, JobFacts DEF PlansOK, JobsOK
<1>6. ScenariosOK /\ TimesOK
  BY Sizes DEF Init, ScenariosOK, TimesOK
<1> QED
  BY <1>1, <1>5, <1>6 DEF IInv

LEMMA StepOK == ASSUME IInv, [Next]_vars PROVE IInv'
<1>1. CASE UNCHANGED vars
  BY <1>1, SnapshotsKept, PlansKept, ScenariosKept, TimesKept DEF vars, IInv
<1>2. ASSUME NEW parcel \in Parcels, NEW response \in Responses(Fields),
             CreateSnapshot(parcel, response)
      PROVE  IInv'
  BY <1>2, CreateSnapshotOK
<1>3. ASSUME NEW s \in DOMAIN snapshots, NEW f \in Fields, EvidenceExpires(f, s) PROVE IInv'
  BY <1>3, EvidenceExpiresOK
<1>4. ASSUME NEW s \in DOMAIN snapshots, NEW checked \in {DOMAIN EvidenceOf(s), Fields},
             QuoteRefresh(s, checked)
      PROVE  IInv'
  BY <1>4, QuoteRefreshOK
<1>5. ASSUME NEW s \in DOMAIN snapshots, NEW sc \in Scenarios, NEW constraints \in Requests,
             CreateScenario(sc, s, constraints) \/ AppendRevision(sc, s, constraints)
      PROVE  IInv'
  BY <1>5, WriteOK DEF CreateScenario, AppendRevision
<1>6. ASSUME NEW p \in DOMAIN plans, QuoteExpires(p) PROVE IInv'
  BY <1>6, QuoteExpiresOK
<1>7. ASSUME NEW p \in DOMAIN plans, Confirm(p) PROVE IInv'
  BY <1>7, ConfirmOK
<1>8. ASSUME NEW p \in DOMAIN plans,
             RefreshFails(p) \/ \E parcel \in Parcels : RefreshMismatches(p, parcel)
      PROVE  IInv'
  BY <1>8, RefreshStopsOK
<1>9. ASSUME NEW p \in DOMAIN plans, NEW values \in Responses(plans[p].fields),
             FetchBatch(p, values)
      PROVE  IInv'
  BY <1>9, FetchBatchOK
<1>10. ASSUME NEW p \in DOMAIN plans, NEW parcel \in Parcels, RefreshEnds(p, parcel) PROVE IInv'
  BY <1>10, RefreshEndsOK
<1>11. CASE ProcessEnds
  BY <1>11, ProcessEndsOK, JobsEnded DEF ProcessEnds, scenarioVars
<1> QED
  BY <1>1, <1>2, <1>3, <1>4, <1>5, <1>6, <1>7, <1>8, <1>9, <1>10, <1>11 DEF Next

LEMMA Inductive == Spec => []IInv
<1>1. Init => IInv
  BY InitOK
<1>2. IInv /\ [Next]_vars => IInv'
  BY StepOK
<1> QED
  BY <1>1, <1>2, PTL DEF Spec

(* Every record of evidence is what it says it is, of the snapshot and the *)
(* site it says, over any number of refreshes (sandbox.py, _normalize_     *)
(* evidence, _build_refreshed_snapshot; store.py, create_site_snapshot).   *)
THEOREM Traceable == Spec => []EvidenceIsTraceable
<1>1. IInv => EvidenceIsTraceable
  BY DEF IInv, SnapshotsOK, PlansOK, ScenariosOK, TimesOK, EvidenceIsTraceable, TypeOK
<1> QED
  BY <1>1, Inductive, PTL

(* No batch of a plan is fetched twice, and none before the plan was       *)
(* confirmed or after its quote expired (sandbox.py, confirm_and_refresh). *)
THEOREM Once == Spec => []FetchedOnce
<1>1. IInv => FetchedOnce
  <2> SUFFICES ASSUME IInv, NEW p \in DOMAIN plans
               PROVE  /\ fetches[p] + Len(jobs[p].todo) <= Len(Batches(plans[p].fields))
                      /\ fetches[p] > 0 => plans[p].status \notin {"QUOTED", "EXPIRED"}
    BY DEF FetchedOnce
  <2> QED
    BY DEF IInv, PlansOK
<1> QED
  BY <1>1, Inductive, PTL

-------------------------------------------------------------------------------
(* What a completed refresh has evaluated *)

(* A plan is completed by the end of its refresh and by nothing else.      *)
LEMMA CompletedBy ==
    ASSUME IInv, [Next]_vars, NEW p \in DOMAIN plans,
           plans'[p].status = "COMPLETED", plans[p].status # "COMPLETED"
    PROVE  \E parcel \in Parcels :
               /\ RefreshEnds(p, parcel)
               /\ runs' = runs \cup LET id == Len(snapshots) + 1
                                        previous == plans[p].snapshot
                                        new == Refreshed(id, previous, jobs[p].response)
                                    IN Revalidated(p, id, new, Changed(EvidenceOf(previous), new))
<1>1. \A q \in DOMAIN plans : plans[q] \in Plan
  BY PlanFacts DEF IInv
<1>2. ~UNCHANGED plans
  OBVIOUS
<1>3. \A q \in DOMAIN plans, status \in PlanStatus : SetStatus(q, status) => q = p /\ status = "COMPLETED"
  <2> TAKE q \in DOMAIN plans, status \in PlanStatus
  <2> HAVE SetStatus(q, status)
  <2>1. plans'[q].status = status /\ \A o \in DOMAIN plans : o # q => plans'[o] = plans[o]
    BY StatusOK DEF IInv
  <2> QED
    BY <2>1
<1>4. {"EXPIRED", "CONFIRMED", "IDENTITY_MISMATCH", "COMPLETED"} \subseteq PlanStatus
  BY DEF PlanStatus
<1>5. \A q \in DOMAIN plans : ~QuoteExpires(q)
  <2> SUFFICES ASSUME NEW q \in DOMAIN plans, QuoteExpires(q) PROVE FALSE
    OBVIOUS
  <2>1. plans' = [plans EXCEPT ![q] = [plans[q] EXCEPT !.late = TRUE]]
    BY DEF QuoteExpires
  <2>2. plans'[p].status = plans[p].status
    BY <1>1, <2>1 DEF Plan
  <2> QED
    BY <2>2
<1>6. \A q \in DOMAIN plans : ~Confirm(q)
  BY <1>3, <1>4 DEF Confirm, Confirmed
<1>7. \A s \in DOMAIN snapshots : \A checked : ~QuoteRefresh(s, checked)
  <2> SUFFICES ASSUME NEW s \in DOMAIN snapshots, NEW checked, QuoteRefresh(s, checked) PROVE FALSE
    OBVIOUS
  <2>1. PICK plan : plans' = Append(plans, plan)
    BY DEF QuoteRefresh
  <2>2. p \in 1..Len(plans) /\ plans \in Seq(Plan)
    BY PlanFacts DEF IInv, PlansOK
  <2>3. plans'[p] = plans[p]
    BY <2>1, <2>2
  <2> QED
    BY <2>3
<1>8. \A q \in DOMAIN plans : \A parcel : ~RefreshMismatches(q, parcel)
  BY <1>3, <1>4 DEF RefreshMismatches
<1>9. PICK q \in DOMAIN plans, parcel \in Parcels : RefreshEnds(q, parcel)
  BY <1>2, <1>5, <1>6, <1>7, <1>8
     DEF Next, vars, CreateSnapshot, EvidenceExpires, CreateScenario, AppendRevision, Write,
         RefreshFails, FetchBatch, ProcessEnds, sandboxVars
<1>10. SetStatus(q, "COMPLETED") \/ UNCHANGED plans
  BY <1>9 DEF RefreshEnds
<1>11. q = p
  BY <1>2, <1>3, <1>4, <1>10
<1> QED
  BY <1>2, <1>9, <1>11 DEF RefreshEnds

(* When a refresh completes, the revisions that depend on what it changed  *)
(* have been evaluated on the new snapshot (sandbox_scenarios.py,          *)
(* revalidate_after_refresh).                                              *)
THEOREM Revalidates == Spec => RefreshRevalidates
<1> DEFINE A == \A p \in DOMAIN plans :
        plans'[p].status = "COMPLETED" /\ plans[p].status # "COMPLETED" =>
            LET id == Len(snapshots')
                new == snapshots'[id].evidence
                changed == Changed(EvidenceOf(plans[p].snapshot), new)
            IN \A x \in Affected(snapshots'[id].site, changed) :
                LET before == revisions[x[1]][x[2]].evaluation
                IN \E run \in runs' :
                    /\ run.scenario = x[1] /\ run.revision = x[2] /\ run.evaluated = id
                    /\ \A f \in DOMAIN before \cap changed :
                        /\ run.evaluation[f] = Outcome(new, f)
                        /\ before[f] = "PASS" /\ Outcome(new, f) = "FAIL"
                              => run.status = "INVALIDATED_BY_REFRESH"
<1>1. ASSUME IInv, [Next]_vars PROVE A
  <2> SUFFICES ASSUME NEW p \in DOMAIN plans,
                      plans'[p].status = "COMPLETED", plans[p].status # "COMPLETED"
               PROVE  LET id == Len(snapshots')
                          new == snapshots'[id].evidence
                          changed == Changed(EvidenceOf(plans[p].snapshot), new)
                      IN \A x \in Affected(snapshots'[id].site, changed) :
                          LET before == revisions[x[1]][x[2]].evaluation
                          IN \E run \in runs' :
                              /\ run.scenario = x[1] /\ run.revision = x[2] /\ run.evaluated = id
                              /\ \A f \in DOMAIN before \cap changed :
                                  /\ run.evaluation[f] = Outcome(new, f)
                                  /\ before[f] = "PASS" /\ Outcome(new, f) = "FAIL"
                                        => run.status = "INVALIDATED_BY_REFRESH"
    OBVIOUS
  <2> DEFINE source == plans[p].snapshot
             id == Len(snapshots) + 1
             new == Refreshed(id, source, jobs[p].response)
             changed == Changed(EvidenceOf(source), new)
             site == snapshots[source].site
  <2>1. PICK parcel \in Parcels : /\ RefreshEnds(p, parcel)
                                  /\ runs' = runs \cup Revalidated(p, id, new, changed)
    BY <1>1, CompletedBy
  <2>2. /\ Len(snapshots') = id /\ snapshots'[id].evidence = new /\ snapshots'[id].site = site
        /\ source \in SnapshotIds /\ id \in SnapshotIds /\ new \in Evidence
    BY <1>1, <2>1, RefreshStored
  <2> HIDE DEF new, id, changed
  <2>3. ASSUME NEW x \in Affected(site, changed)
        PROVE  \E run \in runs' :
                   /\ run.scenario = x[1] /\ run.revision = x[2] /\ run.evaluated = id
                   /\ \A f \in DOMAIN revisions[x[1]][x[2]].evaluation \cap changed :
                        /\ run.evaluation[f] = Outcome(new, f)
                        /\ revisions[x[1]][x[2]].evaluation[f] = "PASS" /\ Outcome(new, f) = "FAIL"
                              => run.status = "INVALIDATED_BY_REFRESH"
    <3>1. x \in Scenarios \X (1..MaxRevisions) /\ Exists(x[1], x[2])
      BY DEF Affected
    <3>2. RunFor(x, source, id, new, changed) \in runs'
      BY <1>1, <2>1, <2>2, RevalidatedOK DEF IInv
    <3> QED
      BY <1>1, <2>2, <3>1, <3>2, RunOK DEF IInv
  <2> QED
    BY <2>2, <2>3 DEF changed
<1>2. RefreshRevalidates <=> [][A]_vars
  BY DEF RefreshRevalidates, A
<1> HIDE DEF A
<1>3. Spec => [][A]_vars
  BY <1>1, Inductive, PTL DEF Spec
<1> QED
  BY <1>2, <1>3
===============================================================================
