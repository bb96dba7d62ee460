------------------------ MODULE ProjectIntelligence ------------------------
(* The derived state of a project (project_intelligence.py): which requirement *)
(* of the active site is proved now, which gaps and actions follow, how ready  *)
(* the project is; and what a refresh records as changes (project_changes.py). *)
(* Everything is recomputed from the document and the snapshots by each        *)
(* operation, but keeps the statuses of the gaps of the previous computation.  *)
EXTENDS Integers, FiniteSets

CONSTANTS Sites,        \* the enriched candidates, each with its site
          Callers,      \* operations that may be under way at once
          Life,         \* how long a fetched record stays current
          LastMoment,   \* bound on the clock
          MaxRefreshes  \* bound on the snapshots made by refreshes
ASSUME IntelligenceAssumption == Life \in Nat

VARIABLES moment,       \* time.time()
          requirements, \* request.constraints of the project
          document,     \* the project: of each site the evidence of its snapshot,
                        \* the outcomes stored and what public sources have; the
                        \* active site, whether the user selected it, and the view
          awaiting,     \* caller -> its operation and the copy it holds, or none
          onRecord,     \* site -> the evidence of every snapshot there is
          made,         \* how many snapshots refreshes have made
          recorded      \* rows of project_changes
intelVars == <<moment, requirements, document, awaiting, onRecord, made, recorded>>

\* What the capabilities and policies say of a requirement: the fields it is
\* evaluated on, its impact, whether it blocks, and whether more than fields
\* would have to be proved (_SEMANTIC_PROOF_GAPS).
Policies ==
  [acreage |-> [fields |-> {"area"},  impact |-> "HIGH",     blocking |-> TRUE,  semantic |-> FALSE],
   slope   |-> [fields |-> {"slope"}, impact |-> "MEDIUM",   blocking |-> FALSE, semantic |-> FALSE],
   export  |-> [fields |-> {},        impact |-> "CRITICAL", blocking |-> TRUE,  semantic |-> TRUE]]
AllRequirements == DOMAIN Policies
Fields == {"area", "slope"}

AllKinds == {"EVIDENCE_ADDED", "EVIDENCE_REMOVED", "VALUE_CHANGED", "FRESHNESS_CHANGED"}
Unknown == "UNRESOLVED"
Absent == [value |-> "missing", expires |-> 0]

-----------------------------------------------------------------------------
Present(ev, f) == ev[f].value /= "missing"
Current(ev, f, t) == Present(ev, f) /\ ev[f].expires > t

\* The outcome the evaluator gave with the evidence of that moment.
Evaluation(ev, r, t) ==
  LET fs == Policies[r].fields IN
    IF fs = {} \/ \E f \in fs : ~Current(ev, f, t) THEN Unknown
    ELSE IF \E f \in fs : ev[f].value = "breaks" THEN "FAIL" ELSE "PASS"

Provable_Recorded(r, ev, outcome, ext, t) == outcome /= Unknown

\* Whether a recorded outcome counts: only while all it rests on is current, and
\* never by what a public source says.
Provable(r, ev, outcome, ext, t) ==
  /\ outcome /= Unknown
  /\ Policies[r].fields /= {}
  /\ \A f \in Policies[r].fields : Current(ev, f, t)

\* _coverage_item, with the records of public sources merged in.
CoverageItem(r, ev, outcome, ext, t) ==
  LET fields == Policies[r].fields
      available == {f \in fields : Present(ev, f)}
      provable == Provable(r, ev, outcome, ext, t)
  IN [status   |-> IF provable THEN outcome ELSE Unknown,
      provable |-> provable,
      stale    |-> {f \in available : ~Current(ev, f, t)},
      partial  |-> ~provable /\ (available /= {} \/ r \in ext),
      missing  |-> {f \in fields : ~Current(ev, f, t)} \cup IF Policies[r].semantic THEN {"proof"} ELSE {}]

\* _gap_from_coverage: a gap keeps the status it had, RESOLVED included.
GapStatus(previous, site, r, item) ==
  LET had == {g \in previous : g.site = site /\ g.requirement = r} IN
    IF item.stale /= {} THEN "STALE"
    ELSE IF had /= {} THEN (CHOOSE g \in had : TRUE).status ELSE "OPEN"

OpenGaps(previous, site, coverage) ==
  {[site |-> site, requirement |-> r, status |-> GapStatus(previous, site, r, coverage[r])] :
     r \in {r \in DOMAIN coverage : ~coverage[r].provable}}

ClosedGaps_Forgotten(previous, open) ==
  {[g EXCEPT !.status = "RESOLVED"] :
     g \in {g \in previous : /\ \E o \in open : o.site = g.site
                             /\ ~\E o \in open : o.site = g.site /\ o.requirement = g.requirement}}

\* Gaps of before that are none now are closed, those of another site too.
ClosedGaps(previous, open) ==
  {[g EXCEPT !.status = "RESOLVED"] :
     g \in {g \in previous : ~\E o \in open : o.site = g.site /\ o.requirement = g.requirement}}

\* _readiness: the state of the project as a whole.
ProjectState(coverage, open) ==
  IF \E r \in DOMAIN coverage : coverage[r].status = "FAIL" THEN "NOT_READY"
  ELSE IF \E g \in open : Policies[g.requirement].impact = "CRITICAL" /\ Policies[g.requirement].blocking
    THEN "BLOCKED"
  ELSE IF open /= {} THEN "UNRESOLVED"
  ELSE IF DOMAIN coverage /= {} THEN "READY_FOR_CURRENT_DECISION" ELSE "NO_ACTIVE_SITE"

\* build_project_intelligence over what the document has.
Built(reqs, site, evs, outcomes, ext, previous, t) ==
  LET coverage == [r \in reqs |-> CoverageItem(r, evs[site], outcomes[site][r], ext[site], t)]
      before == IF previous.built THEN previous.gaps ELSE {}
      open == OpenGaps(before, site, coverage)
  IN [built |-> TRUE, site |-> site, at |-> t, coverage |-> coverage,
      open |-> open, gaps |-> open \cup ClosedGaps(before, open),
      actions |-> [r \in {g.requirement : g \in open} |-> coverage[r].missing],
      state |-> ProjectState(coverage, open)]
NotBuilt == [built |-> FALSE]

-----------------------------------------------------------------------------
Kinds_ValuesOnly(old, new) ==
  IF old.value = "missing" \/ new.value = "missing" THEN {}
  ELSE (IF old.value /= new.value THEN {"VALUE_CHANGED"} ELSE {})
       \cup (IF old.expires /= new.expires THEN {"FRESHNESS_CHANGED"} ELSE {})

\* changes_from_refresh: one record per dimension of a field that differs.
Kinds(old, new) ==
  IF old.value = "missing" /\ new.value = "missing" THEN {}
  ELSE IF old.value = "missing" THEN {"EVIDENCE_ADDED"}
  ELSE IF new.value = "missing" THEN {"EVIDENCE_REMOVED"}
  ELSE (IF old.value /= new.value THEN {"VALUE_CHANGED"} ELSE {})
       \cup (IF old.expires /= new.expires THEN {"FRESHNESS_CHANGED"} ELSE {})

\* _dependencies: the requirements that rest on a field, before or after.
Dependents(field, before, after) ==
  {r \in (IF before.built THEN DOMAIN before.coverage ELSE {}) \cup DOMAIN after.coverage :
     field \in Policies[r].fields}

Changes(site, to, old, new, before, after) ==
  {[site |-> site, to |-> to, field |-> d[1], kind |-> d[2],
    requirements |-> Dependents(d[1], before, after)] :
     d \in {d \in Fields \X AllKinds : d[2] \in Kinds(old[d[1]], new[d[1]])}}

-----------------------------------------------------------------------------
\* _update_project_intelligence: the document with its view computed anew.
Rebuilt(evs, outcomes, ext, site, selected, previous) ==
  [evidence |-> evs, evaluated |-> outcomes, external |-> ext, active |-> site, pinned |-> selected,
   intelligence |-> Built(requirements, site, evs, outcomes, ext, previous, moment)]

Write(p) ==
  /\ document' = p
  /\ UNCHANGED <<moment, requirements, awaiting, onRecord, made, recorded>>

\* Any operation that recomputes without changing what the view is made of.
Recompute ==
  Write(Rebuilt(document.evidence, document.evaluated, document.external, document.active, document.pinned,
                document.intelligence))

\* open_candidate
SelectSite(s) ==
  Write(Rebuilt(document.evidence, document.evaluated, document.external, s, TRUE, document.intelligence))

-----------------------------------------------------------------------------
\* An operation that awaits reads the document first and saves that copy, with
\* what it has found, at its end.
NotAwaiting == [op |-> "none"]
Begin(c, operation) ==
  /\ awaiting[c] = NotAwaiting
  /\ awaiting' = [awaiting EXCEPT ![c] = operation]
  /\ UNCHANGED <<moment, requirements, document, onRecord, made, recorded>>
Finish(c, p) ==
  /\ document' = p
  /\ awaiting' = [awaiting EXCEPT ![c] = NotAwaiting]
  /\ UNCHANGED <<moment, requirements>>

\* refresh_authoritative_sources: what a public source knows of the site.
BeginSources(c, s) == Begin(c, [op |-> "sources", site |-> s, copy |-> document])
EndSources(c) ==
  /\ awaiting[c].op = "sources"
  /\ LET p == awaiting[c].copy IN
       \E found \in {{}, {"acreage", "export"}} :
         Finish(c, Rebuilt(p.evidence, p.evaluated, [p.external EXCEPT ![awaiting[c].site] = found],
                           p.active, p.pinned, p.intelligence))
  /\ UNCHANGED <<onRecord, made, recorded>>

\* build_world_snapshot, ask_mireye_site, plan_project_evidence: what is saved is
\* the copy that was read, the view in it too.
BeginOther(c) == Begin(c, [op |-> "other", copy |-> document])
EndOther(c) ==
  /\ awaiting[c].op = "other"
  /\ Finish(c, awaiting[c].copy)
  /\ UNCHANGED <<onRecord, made, recorded>>

\* confirm_candidate_refresh of a plan that was quoted for some snapshot of the
\* site, mostly the one the candidate has: fields that are not current in it are
\* fetched again, the others carried over.
BeginCandidateRefresh(c, s) ==
  /\ made < MaxRefreshes
  /\ \E base \in onRecord[s] :
       \E fields \in (SUBSET {f \in Fields : ~Current(base, f, moment)}) \ {{}} :
         Begin(c, [op |-> "refresh", site |-> s, base |-> base, fields |-> fields, copy |-> document])

Fetched(base, fields, values) ==
  [f \in Fields |-> IF f \notin fields THEN base[f]
                    ELSE IF values[f] = "missing" THEN Absent
                    ELSE [value |-> values[f], expires |-> moment + Life]]

\* The candidate is evaluated on the new snapshot and ranked; the new winner is
\* active unless the user has selected a site.  The differences are those from
\* the snapshot of the plan, the dependencies those of the view in the copy.
EndCandidateRefresh(c) ==
  /\ awaiting[c].op = "refresh"
  /\ LET p == awaiting[c].copy
         s == awaiting[c].site
         base == awaiting[c].base IN
       \E values \in [awaiting[c].fields -> {"meets", "breaks", "missing"}],
          site \in IF p.pinned THEN {p.active} ELSE Sites :
         LET new == Fetched(base, awaiting[c].fields, values)
             outcomes == [r \in requirements |-> Evaluation(new, r, moment)] IN
           /\ Finish(c, Rebuilt([p.evidence EXCEPT ![s] = new], [p.evaluated EXCEPT ![s] = outcomes], p.external,
                                site, p.pinned, p.intelligence))
           /\ onRecord' = [onRecord EXCEPT ![s] = @ \cup {new}]
           /\ made' = made + 1
           /\ recorded' = recorded \cup
                Changes(s, made', base, new, p.intelligence, document'.intelligence)

\* The provider fails, or the process ends.
CallerGivesUp(c) ==
  /\ awaiting[c] /= NotAwaiting
  /\ Finish(c, document)
  /\ UNCHANGED <<onRecord, made, recorded>>

MomentPasses ==
  /\ moment < LastMoment
  /\ moment' = moment + 1
  /\ UNCHANGED <<requirements, document, awaiting, onRecord, made, recorded>>

IntelligenceInit(dossiers) ==
  /\ moment = 0
  /\ requirements \in {{"acreage", "slope"}, AllRequirements}
  /\ \E evs \in [Sites -> dossiers], site \in Sites :
       LET outcomes == [s \in Sites |-> [r \in requirements |-> Evaluation(evs[s], r, 0)]] IN
         /\ document = Rebuilt(evs, outcomes, [s \in Sites |-> {}], site, FALSE, NotBuilt)
         /\ onRecord = [s \in Sites |-> {evs[s]}]
  /\ awaiting = [c \in Callers |-> NotAwaiting]
  /\ made = 0
  /\ recorded = {}

IntelligenceNext ==
  \/ Recompute \/ MomentPasses
  \/ \E s \in Sites : SelectSite(s)
  \/ \E c \in Callers : \/ BeginOther(c) \/ EndOther(c) \/ EndSources(c) \/ EndCandidateRefresh(c) \/ CallerGivesUp(c)
                        \/ \E s \in Sites : BeginSources(c, s) \/ BeginCandidateRefresh(c, s)

-----------------------------------------------------------------------------
\* A project is called ready only if at that moment current evidence of the
\* active site, and nothing a source or a user says, meets every requirement.
ReadyStateIsProved ==
  LET view == document.intelligence IN
    view.state = "READY_FOR_CURRENT_DECISION" =>
      \A r \in requirements : Evaluation(document.evidence[view.site], r, view.at) = "PASS"

\* Where a refresh of the active site saves another status of a requirement than
\* the copy has that it read, a change it records names the requirement, unless
\* evidence this rests on has just run out.  A plan for another snapshot than
\* the candidate's compares with that one, and promises nothing here.
StatusChangeIsRecorded ==
  \A c \in Callers :
    EndCandidateRefresh(c) =>
      LET p == awaiting[c].copy
          s == awaiting[c].site IN
        p.active = s /\ document'.active = s /\ awaiting[c].base = p.evidence[s] =>
          \A r \in requirements :
            p.intelligence.coverage[r].status /= document'.intelligence.coverage[r].status =>
              \/ \E change \in recorded' \ recorded : change.site = s /\ r \in change.requirements
              \/ \E f \in Policies[r].fields : ~Current(document'.evidence[s], f, moment)

\* No gap is dropped, whatever site is looked at: it is open or closed.  Only an
\* operation that awaited may drop gaps, those that were saved since it read the
\* document; it keeps the gaps of what it read.
AreKept(gaps, view) ==
  \A g \in gaps :
    \E h \in view.gaps :
      /\ h.site = g.site /\ h.requirement = g.requirement
      /\ h \in view.open \/ h.status = "RESOLVED"
GapsAreKept ==
  \/ AreKept(document.intelligence.gaps, document'.intelligence)
  \/ \E c \in Callers :
       /\ awaiting[c] /= NotAwaiting /\ awaiting'[c] = NotAwaiting
       /\ AreKept(awaiting[c].copy.intelligence.gaps, document'.intelligence)
=============================================================================
