--------------------------- MODULE SpecialistTask ---------------------------
(* A batch of tasks of an orchestration run: the context is read from the      *)
(* project once, specialists await their model with it, may run tools of the   *)
(* registry, and what they claim is verified against that context and recorded *)
(* in the evidence graph (ai/runtime.py, agents/specialists.py, verifier.py,   *)
(* tools/policy.py, planners/project.py).  Meanwhile the project goes on.      *)
(* Orchestration models what drives a run; here is what a batch finds.         *)
EXTENDS Integers, FiniteSets, Sequences, FiniteSetsExt

CONSTANTS LastHour,    \* bound on the clock
          MaxVersions, \* bound on the documents of a behaviour
          MaxLosses    \* bound on ends of the worker

VARIABLES hour,     \* time.time()
          versions, \* the documents there were: evidence, outcome, since when
          run,      \* status, task graph, observations, replans
          batch,    \* the batch under way and its context, or none
          taskClaims, \* claims of agents in the evidence graph
          losses
taskVars == <<hour, versions, run, batch, taskClaims, losses>>

NoBatch == [under |-> "none"]
Never == LastHour + 1  \* expires_at of a record without one
LatestDocument == versions[Len(versions)]
Unresolved == "UNRESOLVED"

-----------------------------------------------------------------------------
\* ROLE_SCOPES, and the registry with the roles and scopes of each tool.
RoleScopes ==
  [SITE_INTELLIGENCE |-> {"read:project", "read:evidence", "plan:mireye", "request:decision"},
   POWER        |-> {"read:project", "read:evidence", "read:power", "propose:action"},
   ENTITLEMENT  |-> {"read:project", "read:evidence", "read:entitlement", "read:documents", "propose:action"},
   SCENARIO     |-> {"read:project", "read:evidence", "read:scenarios", "propose:scenario"},
   GEOSPATIAL   |-> {"read:project", "read:evidence", "read:world", "read:evaluation"},
   DOCUMENT     |-> {"read:project", "read:evidence", "read:documents"},
   VERIFICATION |-> {"read:project", "read:evidence", "read:evaluation"}]
Readers == {"SITE_INTELLIGENCE", "POWER", "ENTITLEMENT", "VERIFICATION", "SCENARIO"}
Tools ==
  [intelligence    |-> [roles |-> Readers \ {"SCENARIO"}, scopes |-> {"read:project", "read:evidence"}],
   power_readiness |-> [roles |-> {"POWER"}, scopes |-> {"read:project", "read:evidence", "read:power"}],
   entitlement     |-> [roles |-> {"ENTITLEMENT"}, scopes |-> {"read:project", "read:evidence", "read:entitlement"}],
   compare         |-> [roles |-> {"SCENARIO"}, scopes |-> {"read:scenarios"}],
   memory          |-> [roles |-> Readers, scopes |-> {"read:project"}],
   claims          |-> [roles |-> Readers, scopes |-> {"read:evidence"}]]

\* A plan of the model is refused if a task asks for more than its role has.
Valid(tasks) == \A i \in DOMAIN tasks : tasks[i].permissions \subseteq RoleScopes[tasks[i].role]
\* Scopes are application-granted, roles allowed, the project is the run's own.
MayRun(task, request) ==
  /\ request.own
  /\ task.role \in Tools[request.tool].roles
  /\ Tools[request.tool].scopes \subseteq task.permissions

-----------------------------------------------------------------------------
Fresh(record, t) == record.ok /\ record.expires > t
\* The outcome of the evaluator counts while what it rests on is current.
OutcomeAt(doc, t) ==
  IF \A e \in doc.needs : e \in DOMAIN doc.evidence /\ Fresh(doc.evidence[e], t) THEN doc.outcome ELSE Unresolved

\* What the verifier is given: everything as the context had it.
Basis_LiveOutcome(context) == [context EXCEPT !.outcome = OutcomeAt(LatestDocument, hour)]
Basis(context) == context

\* _verify_claim.  Evidence items of a project carry no conflict state.
Unsupported(claim, basis) ==
  \/ claim.cited = {} \/ ~(claim.cited \subseteq DOMAIN basis.evidence)
  \/ \E e \in claim.cited :
       LET record == basis.evidence[e] IN
         \/ ~Fresh(record, basis.now)
         \/ claim.scope \notin {"any", record.scope}
         \/ record.strength \in {"INSUFFICIENT_EVIDENCE", "UNSUPPORTED_SEMANTICS"}
  \/ claim.outcome \in {"PASS", "FAIL"} /\ claim.outcome /= basis.outcome
Verdict(claim, basis) ==
  LET cited == {basis.evidence[e] : e \in claim.cited} IN
    CASE Unsupported(claim, basis) -> "UNSUPPORTED"
      [] ~Unsupported(claim, basis) /\ (\E record \in cited : record.review) -> "NEEDS_HUMAN_REVIEW"
      [] ~Unsupported(claim, basis) /\ (\A record \in cited : ~record.review) ->
           IF \E record \in cited : record.strength = "SOURCE_BACKED_SIGNAL" THEN "PARTIALLY_VERIFIED" ELSE "VERIFIED"
ReplanRequired(o, basis) == \E claim \in o.claims : Unsupported(claim, basis)

\* _check_success
Succeeds(kind, o, basis) ==
  CASE kind = "DETERMINISTIC_OUTCOME" -> \E claim \in o.claims : claim.outcome /= "none"
    [] kind = "VERIFICATION_PASSED" -> ~ReplanRequired(o, basis)
    [] kind = "EVIDENCE_AVAILABLE" -> o.found
    [] kind = "OUTPUT_PRESENT" -> TRUE

-----------------------------------------------------------------------------
Unobserved == DOMAIN run.tasks \ DOMAIN run.observed

\* _context: the coverage is evaluated, then the time is read.
BeginBatch ==
  /\ batch = NoBatch /\ run.status = "RUNNING" /\ Unobserved /= {}
  /\ \E now \in {hour, hour + 1} \cap 0..LastHour :
       /\ hour' = now
       /\ batch' = [under |-> "way", agents |-> [t \in Unobserved |-> [at |-> "first turn"]],
                    context |-> [evidence |-> LatestDocument.evidence, outcome |-> OutcomeAt(LatestDocument, hour), now |-> now]]
  /\ UNCHANGED <<versions, run, taskClaims, losses>>

Agent(t, step) == batch' = [batch EXCEPT !.agents[t] = step]
Waiting(t) == batch /= NoBatch /\ t \in DOMAIN batch.agents /\ batch.agents[t].at \in {"first turn", "last turn"}

\* The model answers: an observation, or requests for tools in the first turn.
Observe(t, o) ==
  /\ Waiting(t)
  /\ Agent(t, [at |-> "done", observation |-> o])
  /\ UNCHANGED <<hour, versions, run, taskClaims, losses>>
UseTool(t, request) ==
  /\ Waiting(t) /\ batch.agents[t].at = "first turn"
  /\ MayRun(run.tasks[t], request)
  /\ Agent(t, [at |-> "last turn"])
  /\ UNCHANGED <<hour, versions, run, taskClaims, losses>>
\* A refused tool, tools in the last turn, a context without the identity of
\* its site, an answer out of form: the run fails.
Raise(t) ==
  /\ Waiting(t)
  /\ run' = [run EXCEPT !.status = "FAILED"]
  /\ batch' = NoBatch
  /\ UNCHANGED <<hour, versions, taskClaims, losses>>

-----------------------------------------------------------------------------
\* The loop after the specialists, task by task in the order of the graph: a
\* task that fails its condition or asks ends it.
Observation(t) == batch.agents[t].observation
Fate_AsksFirst(t) ==
  IF Observation(t).asks THEN "asks"
  ELSE IF ~Succeeds(run.tasks[t].success, Observation(t), Basis(batch.context)) THEN "raises" ELSE "goes on"
Fate(t) ==
  IF ~Succeeds(run.tasks[t].success, Observation(t), Basis(batch.context)) THEN "raises"
  ELSE IF Observation(t).asks THEN "asks" ELSE "goes on"
LastTask ==
  LET ends == {t \in DOMAIN batch.agents : Fate(t) /= "goes on"} IN
    IF ends = {} THEN Max(DOMAIN batch.agents) ELSE Min(ends)
Processed == {t \in DOMAIN batch.agents : t <= LastTask}

\* record_validated_claim: the first claim of an identifier stays.
Durable(t) ==
  {[task |-> t, claim |-> claim] :
     claim \in {c \in Observation(t).claims : Verdict(c, Basis(batch.context)) /= "UNSUPPORTED"}}
RecordedWith(tasks) ==
  taskClaims \cup {r \in UNION {Durable(t) : t \in tasks} :
                   /\ ~\E old \in taskClaims : old.claim.id = r.claim.id
                   /\ ~\E s \in UNION {Durable(t) : t \in tasks} : s.claim.id = r.claim.id /\ s.task < r.task}

GapTask(role) ==
  [role |-> IF role = "VERIFICATION" THEN "SITE_INTELLIGENCE" ELSE role,
   permissions |-> {"read:evidence"}, success |-> "EVIDENCE_AVAILABLE"]
Replanned(gap) ==
  {t \in Processed : /\ gap /\ run.replans = 0 /\ Fate(t) /= "raises"
                     /\ ReplanRequired(Observation(t), Basis(batch.context))}
ObservedWith(tasks) ==
  [t \in DOMAIN run.observed \cup tasks |-> IF t \in tasks THEN Observation(t) ELSE run.observed[t]]

FailedRun_Reread == [run EXCEPT !.status = "FAILED"]
FailedRun == [run EXCEPT !.status = "FAILED", !.observed = ObservedWith(Processed)]
RunAfter(gap) ==
  LET next == [run EXCEPT !.observed = ObservedWith(Processed),
                          !.tasks = IF Replanned(gap) = {} THEN @ ELSE Append(@, GapTask(@[Min(Replanned(gap))].role)),
                          !.replans = IF Replanned(gap) = {} THEN @ ELSE 1] IN
    CASE Fate(LastTask) = "raises" -> FailedRun
      [] Fate(LastTask) = "asks" -> [next EXCEPT !.status = "WAITING_FOR_DECISION"]
      [] Fate(LastTask) = "goes on" -> next

AllDone == batch /= NoBatch /\ \A t \in DOMAIN batch.agents : batch.agents[t].at = "done"
\* A requirement that is not provable has a gap; another may have a closed one.
EndBatch ==
  /\ AllDone
  /\ \E gap \in {TRUE, batch.context.outcome = Unresolved} : run' = RunAfter(gap)
  /\ taskClaims' = RecordedWith(Processed)
  /\ batch' = NoBatch
  /\ UNCHANGED <<hour, versions, losses>>

\* The worker ends, in an await or between a record and the save of the run.
WorkerEnds ==
  /\ batch /= NoBatch /\ losses < MaxLosses
  /\ losses' = losses + 1
  /\ \E tasks \in IF AllDone THEN {{u \in Processed : u <= t} : t \in Processed} \cup {{}} ELSE {{}} :
       taskClaims' = RecordedWith(tasks)
  /\ batch' = NoBatch
  /\ UNCHANGED <<hour, versions, run>>

\* The model is unavailable: the run stays as it is, the activity is repeated.
ModelUnavailable(t) ==
  /\ Waiting(t)
  /\ batch' = NoBatch
  /\ UNCHANGED <<hour, versions, run, taskClaims, losses>>

\* The question is answered and the run resumed; nothing is left to do.
Resume ==
  /\ run.status = "WAITING_FOR_DECISION"
  /\ run' = [run EXCEPT !.status = "RUNNING"]
  /\ UNCHANGED <<hour, versions, batch, taskClaims, losses>>
Complete ==
  /\ batch = NoBatch /\ run.status = "RUNNING" /\ Unobserved = {}
  /\ run' = [run EXCEPT !.status = "COMPLETED"]
  /\ UNCHANGED <<hour, versions, batch, taskClaims, losses>>

\* A refresh, another active site, another requirement: what anyone else does.
ProjectChanges(doc) ==
  /\ Len(versions) < MaxVersions
  /\ versions' = Append(versions, [doc EXCEPT !.since = hour])
  /\ UNCHANGED <<hour, run, batch, taskClaims, losses>>
HourPasses ==
  /\ hour < LastHour
  /\ hour' = hour + 1
  /\ UNCHANGED <<versions, run, batch, taskClaims, losses>>

TaskInit(docs, plans) ==
  /\ hour = 0
  /\ versions \in {<<doc>> : doc \in docs}
  /\ run \in [status : {"RUNNING"}, tasks : {p \in plans : Valid(p)}, observed : {[t \in {} |-> 0]}, replans : {0}]
  /\ batch = NoBatch /\ taskClaims = {} /\ losses = 0
TaskNext(docs, observations, requests) ==
  \/ BeginBatch \/ EndBatch \/ WorkerEnds \/ Resume \/ Complete \/ HourPasses
  \/ \E doc \in docs : ProjectChanges(doc)
  \/ batch /= NoBatch /\ \E t \in DOMAIN batch.agents :
       \/ \E o \in observations : Observe(t, o)
       \/ \E request \in requests : UseTool(t, request)
       \/ Raise(t) \/ ModelUnavailable(t)

-----------------------------------------------------------------------------
\* Whatever happened to the project while the model was thinking, a claim in
\* the graph was proved at one moment by one document: all it cites was there,
\* current and of the scope it needs, and the outcome it asserts was that of the
\* evaluator.
ClaimsWereProved ==
  \A r \in taskClaims : \E v \in DOMAIN versions, t \in 0..hour :
    /\ versions[v].since <= t /\ (v < Len(versions) => t <= versions[v + 1].since)
    /\ r.claim.cited /= {}
    /\ \A e \in r.claim.cited :
         /\ e \in DOMAIN versions[v].evidence
         /\ Fresh(versions[v].evidence[e], t)
         /\ r.claim.scope \in {"any", versions[v].evidence[e].scope}
    /\ r.claim.outcome \in {"PASS", "FAIL"} => OutcomeAt(versions[v], t) = r.claim.outcome

\* Unless the worker ended, a claim in the graph is one that the stored run has
\* observed, whatever became of the task and of the run.
ClaimsWereObserved ==
  losses = 0 => \A r \in taskClaims : r.task \in DOMAIN run.observed /\ r.claim \in run.observed[r.task].claims

\* A run that is completed has observed every task, the one it has added too,
\* and all that a task claims whose condition is a passed verification is in
\* the graph, however often the run has waited for a person or was begun again.
CompletedIsVerified ==
  run.status = "COMPLETED" => \A t \in DOMAIN run.tasks :
    /\ t \in DOMAIN run.observed
    /\ run.tasks[t].success = "VERIFICATION_PASSED" =>
         \A claim \in run.observed[t].claims : \E r \in taskClaims : r.claim.id = claim.id
=============================================================================
