------------------------- MODULE CandidateDecision -------------------------
(* How a project comes to its decision (diligence.py): requirements that are   *)
(* still open, candidates looked up, evaluated by fetching or by linking a     *)
(* snapshot that exists, addresses to be confirmed, ranking and winner.  What  *)
(* awaits holds a copy of the project and saves that copy.  What is paid, and  *)
(* how often it may be tried, is Enrichment's.                                 *)
EXTENDS Integers, FiniteSetsExt

CONSTANTS Candidates,  \* numbers, in the order of their ids
          Explicit,    \* constraints of the request that leave nothing open
          Vague,       \* REQUIREMENT_GAP_TARGETS: what may answer a vague one, itself perhaps
          Supported,   \* SUPPORTED_CONSTRAINTS: those evaluate_site can decide
          ToLookUp,    \* candidates that have not been looked up; bound on the look-ups
          Crowded      \* whether several saves may come while an operation awaits; bound
ASSUME DecisionAssumption ==
  /\ Candidates \in SUBSET Nat /\ IsFiniteSet(Candidates)
  /\ IsFiniteSet(Explicit \cup DOMAIN Vague \cup UNION {Vague[g] : g \in DOMAIN Vague})
  /\ Supported \cap DOMAIN Vague = {}

VARIABLES project,  \* constraints, gaps, candidates, ranking, decision
          held,     \* the operation that awaits and its copy, or none
          dossiers  \* evaluations by the snapshots there are: constraint -> outcome
decisionVars == <<project, held, dossiers>>

NotHeld == [op |-> "none"]
NotEvaluated == [c \in {} |-> "UNRESOLVED"]
Found == {"RESOLVED", "AMBIGUOUS", "NOT_FOUND"}   \* what a look-up may answer
Asked == DOMAIN Vague
Compiled == Explicit \cup Asked

\* evaluate_site: what it cannot decide is unresolved on any evidence.
EvaluatedOn(d, constraints) ==
  [c \in constraints |-> IF c \in Supported THEN d[c] ELSE "UNRESOLVED"]
Count(e, outcome) == Cardinality({c \in DOMAIN e : e[c] = outcome})
Passes(e) == DOMAIN e /= {} /\ \A c \in DOMAIN e : e[c] = "PASS"

-----------------------------------------------------------------------------
\* _rank: enriched ones first, then fewest failures, fewest open constraints,
\* most passes, and the order of the ids.
Score(k) == <<Count(k.evaluation, "FAIL"), Count(k.evaluation, "UNRESOLVED"), -Count(k.evaluation, "PASS")>>
Key(ks, c) ==
  LET score == Score(ks[c])
  IN <<IF ks[c].status = "ENRICHED" THEN 0 ELSE 1, score[1], score[2], score[3], c>>
Before(s, t) == \E i \in DOMAIN s : s[i] < t[i] /\ \A j \in 1..i - 1 : s[j] = t[j]
Order(ks) ==
  LET key == [c \in Candidates |-> Key(ks, c)]
  IN CHOOSE order \in [1..Cardinality(Candidates) -> Candidates] :
       \A i, j \in DOMAIN order : i < j => Before(key[order[i]], key[order[j]])

\* _decision, on the candidates as the ranking has them.
NoDecision == [status |-> "NO_DECISION_YET"]
Ready(item) == [status |-> "DECISION_READY", winner |-> item.candidate]
Enriched(ranking) == {i \in DOMAIN ranking : ranking[i].status = "ENRICHED"}
Top(ranking) == ranking[Min(Enriched(ranking))]
Second(ranking) == ranking[Min(Enriched(ranking) \ {Min(Enriched(ranking))})]
Leads(p) == p.gaps = {} /\ Enriched(p.ranking) /= {} /\ Passes(Top(p.ranking).evaluation)
Tied(ranking) == Cardinality(Enriched(ranking)) > 1 /\ Score(Top(ranking)) = Score(Second(ranking))
Decided_Ties(p) == IF Leads(p) THEN Ready(Top(p.ranking)) ELSE NoDecision
Decided(p) == IF Leads(p) /\ ~Tied(p.ranking) THEN Ready(Top(p.ranking)) ELSE NoDecision

\* Of the status a ranking stores only whether it is ENRICHED is read again.
Standing(k) == IF k.status = "ENRICHED" THEN "ENRICHED" ELSE "OTHER"
Ranking(ks) ==
  LET order == Order(ks)
  IN [i \in DOMAIN order |-> [candidate |-> order[i], status |-> Standing(ks[order[i]]),
                              evaluation |-> ks[order[i]].evaluation]]
Ranked(p) ==
  LET ranked == [p EXCEPT !.ranking = Ranking(p.candidates)]
  IN [ranked EXCEPT !.decision = Decided(ranked)]

\* _finalize_candidate and its alternatives.
Finalized(k, d, constraints) ==
  [k EXCEPT !.status = "ENRICHED", !.dossier = d, !.evaluation = EvaluatedOn(d, constraints)]
ToConfirm(k, d) == [k EXCEPT !.status = "ADDRESS_CONFIRMATION_REQUIRED", !.dossier = d, !.evaluation = NotEvaluated]
Failed(k) == [k EXCEPT !.status = "ENRICHMENT_FAILED", !.evaluation = NotEvaluated]

\* What a snapshot makes of a candidate: its address may be another one.
Reconciled(k, d, constraints) == {Finalized(k, d, constraints), ToConfirm(k, d)}

-----------------------------------------------------------------------------
Save(p) ==
  /\ held /= NotHeld => Crowded \/ project = held.copy
  /\ project' = p /\ UNCHANGED <<held, dossiers>>
Hold(operation) == held = NotHeld /\ held' = operation /\ UNCHANGED <<project, dossiers>>
SaveHeld(p) == project' = p /\ held' = NotHeld /\ UNCHANGED dossiers

\* _apply_requirement_constraints, for an answer of the user or an assumption:
\* the ranking stays, the decision is made anew.
AnswerGaps(values) ==
  LET resolved == {g \in project.gaps : Vague[g] \cap values /= {}}
      p == [project EXCEPT !.constraints = (@ \ resolved) \cup values, !.gaps = @ \ resolved] IN
    /\ values /= {}
    /\ Save([p EXCEPT !.decision = Decided(p)])

RankCandidates ==
  Save(IF project.gaps = {} THEN Ranked(project)
       ELSE [project EXCEPT !.ranking = <<>>, !.decision = NoDecision])

\* link_existing_snapshot does not ask whether requirements are open.
LinkExistingSnapshot(c, d) ==
  \E linked \in Reconciled(project.candidates[c], d, project.constraints) :
    Save(Ranked([project EXCEPT !.candidates[c] = linked]))

ConfirmCanonicalAddress(c) ==
  /\ project.candidates[c].status = "ADDRESS_CONFIRMATION_REQUIRED"
  /\ \E k \in {Finalized(project.candidates[c], project.candidates[c].dossier, project.constraints),
               [project.candidates[c] EXCEPT !.status = "ADDRESS_MISMATCH_REJECTED"]} :
       Save(Ranked([project EXCEPT !.candidates[c] = k]))

-----------------------------------------------------------------------------
\* Looking a candidate up (MIREYE_RESOLVE): it is saved that the look-up runs,
\* and what came of it; nothing is ranked then.
Becoming(p, c, status) == [p EXCEPT !.candidates[c].status = status]
WithLookup(p, c, lookup) == [p EXCEPT !.candidates[c].lookup = lookup]
LookedUp(p, c, found) == WithLookup(Becoming(p, c, found), c, found)

\* resolve_candidate, whatever the candidate is by then; a look-up that runs, has
\* failed or is answered saves nothing more.
BeginResolve(c) ==
  /\ held = NotHeld /\ project.candidates[c].lookup = "none"
  /\ project' = WithLookup(project, c, "EXECUTING")
  /\ held' = [op |-> "resolve", candidate |-> c, copy |-> project']
  /\ UNCHANGED dossiers
EndResolve ==
  /\ held.op = "resolve"
  /\ \/ SaveHeld(WithLookup(held.copy, held.candidate, "FAILED"))
     \/ \E found \in Found : SaveHeld(LookedUp(held.copy, held.candidate, found))

\* select_resolution, which calls resolve_and_quote then.
SelectResolution(c) ==
  /\ project.candidates[c].status = "AMBIGUOUS"
  /\ Save(Becoming(project, c, "RESOLVED"))

\* resolve_and_quote, with a reason for trying again or without: one candidate
\* after the other, looked up where it has to be.
BeginQuoting(reason) ==
  IF project.gaps /= {} THEN Save([project EXCEPT !.decision = NoDecision])
  ELSE Hold([op |-> "quote", reason |-> reason, left |-> Candidates, copy |-> project])

\* What a candidate becomes without a look-up, if it does: a fetch that failed is
\* not tried again without a reason, and an answer that was had is taken again.
Turn == Min(held.left)
Settled == {"AMBIGUOUS", "RESOLVED", "ENRICHED"}
WithoutLookup(k, reason) ==
  IF k.status \in Settled THEN {k.status}
  ELSE IF k.status = "ENRICHMENT_FAILED" THEN IF reason THEN {"RESOLVED"} ELSE {}
  ELSE {k.lookup} \cap Found
PassOver ==
  /\ held.op = "quote" /\ held.left /= {}
  /\ \E status \in WithoutLookup(held.copy.candidates[Turn], held.reason) :
       held' = [held EXCEPT !.left = @ \ {Turn}, !.copy = Becoming(@, Turn, status)]
  /\ UNCHANGED <<project, dossiers>>

BeginLookup ==
  /\ held.op = "quote" /\ held.left /= {}
  /\ LET k == held.copy.candidates[Turn] IN
       /\ k.status \notin Settled \cup {"ENRICHMENT_FAILED"}
       /\ k.lookup = "none" \/ (k.lookup = "FAILED" /\ held.reason)
  /\ project' = WithLookup(held.copy, Turn, "EXECUTING")
  /\ held' = [held EXCEPT !.op = "lookup", !.copy = project']
  /\ UNCHANGED dossiers
EndLookup ==
  /\ held.op = "lookup"
  /\ \/ project' = Becoming(WithLookup(held.copy, Turn, "FAILED"), Turn, "ERROR")
     \/ \E found \in Found : project' = LookedUp(held.copy, Turn, found)
  /\ held' = [held EXCEPT !.op = "quote", !.left = @ \ {Turn}, !.copy = project']
  /\ UNCHANGED dossiers
EndQuoting ==
  /\ held.op = "quote" /\ held.left = {}
  /\ SaveHeld(held.copy)

-----------------------------------------------------------------------------
\* The other operations that await read the project first; which one it was
\* shows when it ends.
BeginAwaiting == Hold([op |-> "other", copy |-> project])

\* confirm_and_fetch: every resolved candidate comes back, or fails; none may be
\* resolved any more when it runs.
Resolved(p) == {c \in Candidates : p.candidates[c].status = "RESOLVED"}
FetchOutcomes(p, c) ==
  LET k == p.candidates[c] IN
    IF c \in Resolved(p) THEN {Failed(k)} \cup UNION {Reconciled(k, d, p.constraints) : d \in dossiers} ELSE {k}
EndFetch ==
  /\ held.op = "other" /\ held.copy.gaps = {}
  /\ LET p == held.copy IN
       \E ks \in [Candidates -> UNION {FetchOutcomes(p, c) : c \in Candidates}] :
         /\ \A c \in Candidates : ks[c] \in FetchOutcomes(p, c)
         /\ SaveHeld(Ranked([p EXCEPT !.candidates = ks]))

\* confirm_candidate_refresh of a candidate that has a snapshot.
HasSnapshot(p) == {c \in Candidates : p.candidates[c].dossier /= NotEvaluated}
WithRefresh(p, c, d) == [p EXCEPT !.candidates[c].dossier = d,
                                  !.candidates[c].evaluation = EvaluatedOn(d, p.constraints)]
Refreshed_Unranked(p, c, d) == WithRefresh(p, c, d)
Refreshed(p, c, d) == Ranked(WithRefresh(p, c, d))
EndRefresh(d) ==
  /\ held.op = "other"
  /\ \E c \in HasSnapshot(held.copy) : SaveHeld(Refreshed(held.copy, c, d))

\* build_world_snapshot, ask_mireye_site, plan_project_evidence,
\* refresh_authoritative_sources: what they save is here what they read.
EndVisit == held.op = "other" /\ SaveHeld(held.copy)

\* The operation raises, as where a look-up still runs, or the process ends.
GiveUpHeld == held /= NotHeld /\ SaveHeld(project)

DecisionInit(choices) ==
  /\ dossiers \in choices
  /\ held = NotHeld
  /\ project = [constraints |-> Compiled, gaps |-> Asked, ranking |-> <<>>, decision |-> NoDecision,
                candidates |-> [c \in Candidates |->
                  [status |-> IF c \in ToLookUp THEN "PENDING" ELSE "RESOLVED",
                   lookup |-> IF c \in ToLookUp THEN "none" ELSE "RESOLVED",
                   dossier |-> NotEvaluated, evaluation |-> NotEvaluated]]]
DecisionNext ==
  \/ \E values \in SUBSET UNION {Vague[g] : g \in project.gaps} : AnswerGaps(values)
  \/ RankCandidates \/ EndResolve \/ PassOver \/ BeginLookup \/ EndLookup \/ EndQuoting
  \/ BeginAwaiting \/ EndFetch \/ EndVisit \/ GiveUpHeld
  \/ \E reason \in BOOLEAN : BeginQuoting(reason)
  \/ \E c \in Candidates : ConfirmCanonicalAddress(c) \/ BeginResolve(c) \/ SelectResolution(c)
  \/ \E d \in dossiers : EndRefresh(d) \/ \E c \in Candidates : LinkExistingSnapshot(c, d)

-----------------------------------------------------------------------------
\* The winner passes every requirement as it now stands, whenever and on
\* whatever requirements it was evaluated, and nobody else does who is enriched;
\* it may itself have been looked up since, and be enriched no longer.
WinnerIsEarned ==
  project.decision.status = "DECISION_READY" =>
    LET Meets(c) == \A r \in project.constraints :
                      r \in Supported /\ project.candidates[c].dossier[r] = "PASS" IN
      /\ Meets(project.decision.winner)
      /\ \A c \in Candidates :
           project.candidates[c].status = "ENRICHED" /\ Passes(project.candidates[c].evaluation)
             => c = project.decision.winner

\* The stored decision is the one that ranking the candidates would give, were
\* those still enriched that have been looked up since: nothing is ranked then.
LookedUpSince ==
  {c \in Candidates : /\ project.candidates[c].status /= "ENRICHED" /\ project.candidates[c].lookup \in Found
                      /\ \E i \in Enriched(project.ranking) : project.ranking[i].candidate = c}
AsRanked ==
  [c \in Candidates |-> [project.candidates[c] EXCEPT !.status = IF c \in LookedUpSince THEN "ENRICHED" ELSE @]]
DecisionIsCurrent == project.decision = Ranked([project EXCEPT !.candidates = AsRanked]).decision
=============================================================================
