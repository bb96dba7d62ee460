----------------------------- MODULE ClaimGraph -----------------------------
(* The claims about one requirement of a project, in the evidence graph kept   *)
(* beside the project document (ai/memory/graph.py).  A save writes the        *)
(* document and then, in a transaction of its own, the graph; a query reads    *)
(* the document, writes the graph from that copy, and reads the claims.        *)
EXTENDS Integers, FiniteSets

CONSTANTS Processes, Evidence,
          Agents,  \* the processes that run agents
          LastSnapshot, MaxSaves

VARIABLES graphDocument,  \* snapshot, outcome, evidence and support of the requirement
          graphChanges,   \* evidence of the stored project changes
          claims,    \* claim -> status
          busy,      \* process -> what it goes on with, and its copy
          saves
graphVars == <<graphDocument, graphChanges, claims, busy, saves>>

AtRest == [op |-> "rest"]
\* _coverage_item: an outcome is only given on evidence, and only where the
\* requirement has none of the meanings that are not supported.
Coverages(s) ==
  {d \in [snapshot : {s}, outcome : {"PASS", "UNRESOLVED"}, evidence : SUBSET Evidence, unsupported : BOOLEAN] :
     d.outcome = "PASS" => d.evidence /= {} /\ ~d.unsupported}

\* The readiness claim of a document, and an agent's claim, by their contents.
ReadinessClaim(d) ==
  [predicate |-> "has_readiness", object |-> d.outcome, snapshot |-> d.snapshot, evidence |-> d.evidence]
Assertion(object) == [predicate |-> "asserts_outcome", object |-> object, snapshot |-> 0, evidence |-> {}]

ActiveIn(cs) == {c \in DOMAIN cs : cs[c] = "ACTIVE"}
WithStatus(cs, which, status) == [c \in DOMAIN cs \cup which |-> IF c \in which THEN status ELSE cs[c]]

\* sync_project: the claim of the copy is written whatever it was, every other
\* active claim of the requirement is superseded, whatever its predicate, and
\* every change ever stored contests the claims its evidence supports.
Superseded_SameObject(cs, c) == WithStatus(cs, {a \in ActiveIn(cs) \ {c} : a.object = c.object}, "SUPERSEDED")
Superseded(cs, c) == WithStatus(cs, ActiveIn(cs) \ {c}, "SUPERSEDED")
Contested_Never(cs, evidence) == cs
Contested(cs, evidence) == WithStatus(cs, {c \in ActiveIn(cs) : c.evidence \cap evidence /= {}}, "CONTESTED")
SyncProject(d) ==
  LET c == ReadinessClaim(d)
      upserted == WithStatus(claims, {c}, IF d.unsupported THEN "UNSUPPORTED" ELSE "ACTIVE") IN
    claims' = Contested(Superseded(upserted, c), graphChanges)

-----------------------------------------------------------------------------
\* Processes that read are no longer alone once another process writes.
Then(p, step) ==
  busy' = [q \in Processes |-> IF q = p THEN step
                              ELSE IF busy[q].op \in {"read", "query"} THEN [busy[q] EXCEPT !.alone = FALSE]
                              ELSE busy[q]]

\* save_diligence_project of a re-evaluated document; a refresh has stored its
\* changes before it saves what it found in the next snapshot.
SaveProject(p) ==
  /\ busy[p] = AtRest /\ saves < MaxSaves
  /\ \E d \in Coverages(graphDocument.snapshot) :
       graphDocument' = d /\ Then(p, [op |-> "save", copy |-> d])
  /\ saves' = saves + 1
  /\ UNCHANGED <<graphChanges, claims>>
SaveChanges(p, evidence) ==
  /\ busy[p] = AtRest /\ graphDocument.snapshot < LastSnapshot /\ saves < MaxSaves
  /\ graphChanges' = graphChanges \cup evidence
  /\ Then(p, [op |-> "refresh", snapshot |-> graphDocument.snapshot + 1])
  /\ saves' = saves + 1
  /\ UNCHANGED <<graphDocument, claims>>
SaveRefreshed(p) ==
  /\ busy[p].op = "refresh"
  /\ \E s \in {busy[p].snapshot} \cap 2..LastSnapshot : \E d \in Coverages(s) :
       graphDocument' = d /\ Then(p, [op |-> "save", copy |-> d])
  /\ UNCHANGED <<graphChanges, claims, saves>>
SyncSaved(p) ==
  /\ busy[p].op = "save"
  /\ SyncProject(busy[p].copy)
  /\ Then(p, AtRest)
  /\ UNCHANGED <<graphDocument, graphChanges, saves>>

\* find_claims_for_requirement, find_conflicts: read, sync, query; the answer is
\* the claims as they are at the query.
ReadProject(p) ==
  /\ busy[p] = AtRest
  /\ busy' = [busy EXCEPT ![p] = [op |-> "read", copy |-> graphDocument, alone |-> TRUE, known |-> graphChanges]]
  /\ UNCHANGED <<graphDocument, graphChanges, claims, saves>>
SyncRead(p) ==
  /\ busy[p].op = "read"
  /\ SyncProject(busy[p].copy)
  /\ Then(p, [busy[p] EXCEPT !.op = "query"])
  /\ UNCHANGED <<graphDocument, graphChanges, saves>>
FindClaims(p) ==
  /\ busy[p].op = "query"
  /\ busy' = [busy EXCEPT ![p] = AtRest]
  /\ UNCHANGED <<graphDocument, graphChanges, claims, saves>>

\* record_validated_claim of an agent's verified outcome: the conflicts are
\* found by one statement and contested by the next, whatever has happened to
\* them in between; a claim that exists stays as it is.
FindConflicts(p, object) ==
  /\ busy[p] = AtRest
  /\ busy' = [busy EXCEPT ![p] = [op |-> "record", object |-> object, conflicts |->
                {c \in ActiveIn(claims) : c.predicate = "asserts_outcome" /\ c.object /= object}]]
  /\ UNCHANGED <<graphDocument, graphChanges, claims, saves>>
RecordValidatedClaim(p) ==
  /\ busy[p].op = "record"
  /\ LET c == Assertion(busy[p].object)
         contested == WithStatus(claims, busy[p].conflicts, "CONTESTED") IN
       claims' = IF c \in DOMAIN claims THEN contested
                 ELSE WithStatus(contested, {c}, IF busy[p].conflicts = {} THEN "ACTIVE" ELSE "CONTESTED")
  /\ Then(p, AtRest)
  /\ UNCHANGED <<graphDocument, graphChanges, saves>>

\* The process ends before its next transaction, with more to write.
ProcessEnds(p) ==
  /\ busy[p].op \in {"save", "refresh", "record"}
  /\ busy' = [busy EXCEPT ![p] = AtRest]
  /\ UNCHANGED <<graphDocument, graphChanges, claims, saves>>

-----------------------------------------------------------------------------
GraphInit(documents) ==
  /\ graphDocument \in documents
  /\ graphChanges = {} /\ claims = [c \in {} |-> "ACTIVE"] /\ saves = 0
  /\ busy = [p \in Processes |-> AtRest]
GraphNext ==
  \E p \in Processes :
    \/ SaveProject(p) \/ SaveRefreshed(p)
    \/ \E evidence \in SUBSET Evidence : SaveChanges(p, evidence)
    \/ SyncSaved(p) \/ ReadProject(p) \/ SyncRead(p) \/ FindClaims(p) \/ ProcessEnds(p)
    \/ RecordValidatedClaim(p)
    \/ p \in Agents /\ \E object \in {"PASS", "UNRESOLVED"} : FindConflicts(p, object)

GraphSpec(documents) == GraphInit(documents) /\ [][GraphNext]_graphVars

-----------------------------------------------------------------------------
\* However syncs of old and new copies follow each other, the graph never
\* holds two readiness claims as active: the requirement has one outcome.
OneActiveOutcome ==
  Cardinality({c \in ActiveIn(claims) : c.predicate = "has_readiness"}) <= 1

\* A query that nobody wrote beside answers with the outcome of the document
\* it read, and with no other active claim; no query, disturbed or not, has an
\* active readiness claim on evidence that had changed when it began.
AnswersAreCurrent ==
  \A p \in Processes : busy[p].op = "query" =>
    LET now == ReadinessClaim(busy[p].copy) IN
      /\ busy[p].alone => now \in DOMAIN claims /\ ActiveIn(claims) \subseteq {now}
      /\ \A c \in ActiveIn(claims) :
           c.predicate = "has_readiness" => c.evidence \cap busy[p].known = {}

\* What the graph says of the requirement is one outcome, and a current one.
OutcomeIsCurrent == OneActiveOutcome /\ AnswersAreCurrent
=============================================================================
