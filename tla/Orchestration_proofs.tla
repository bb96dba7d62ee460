------------------------- MODULE Orchestration_proofs -------------------------
(***************************************************************************)
(* Proofs about the agents' runs, for any number of runs, tasks,           *)
(* decisions, resume requests, lost attempts and stale copies.             *)
(***************************************************************************)
EXTENDS Orchestration, SequenceTheorems, TLAPS

(* One copy of a run: its tasks are observed in order, and there is room    *)
(* for the task a replan appends.                                           *)
InOrder(run) ==
    /\ \A t \in run.observed : t \in TasksOf(run) /\ run.needs[t] \subseteq run.observed
    /\ run.status = "COMPLETED" => run.observed = TasksOf(run)

RunOK(run) == run \in Run /\ Len(run.needs) <= NumTasks + run.replans /\ InOrder(run)

(* One copy of the document: a run that waits does so for a decision that   *)
(* is pending in the same copy or that a user has answered.                 *)
Waits(d, answers) ==
    \A r \in Runs : d.run[r].status = "WAITING_FOR_DECISION" =>
        \/ d.run[r].asked \in answers
        \/ d.run[r].asked = d.active /\ d.active # 0

DocumentOK(d, answers) ==
    d \in Document /\ (\A r \in Runs : RunOK(d.run[r])) /\ Waits(d, answers)

(* The inductive invariant: any copy may become the stored one. *)
DocumentsOK == DocumentOK(db, answered) /\ \A d \in held : DocumentOK(d, answered)
BatchesOK ==
    /\ batch \in [Runs -> Batch]
    /\ \A r \in Runs : /\ RunOK(batch[r].run)
                       /\ batch[r].on => /\ batch[r].run.status = "RUNNING"
                                         /\ wf[r].at \in {"advance", "resume"}
WorkflowsOK == wf \in [Runs -> Workflow]
RequestsOK ==
    /\ posted \in [Runs -> 0..MaxPosts] /\ posts \in [Runs -> 0..MaxPosts]
    /\ \A r \in Runs : posted[r] <= posts[r]
AnswersOK ==
    /\ nextDecision \in 1..MaxDecisions + 1
    /\ answered \subseteq DecisionIds /\ passed \in [Runs -> SUBSET DecisionIds]
CountersOK == faults \in 0..MaxFaults /\ overwrites \in 0..MaxOverwrites
CopiesOK == held # {} => overwrites < MaxOverwrites

IInv ==
    /\ DocumentsOK /\ BatchesOK /\ WorkflowsOK /\ RequestsOK /\ AnswersOK
    /\ CountersOK /\ CopiesOK

-------------------------------------------------------------------------------
(* Facts about runs *)

LEMMA Sizes ==
    /\ NumTasks \in Nat /\ MaxDecisions \in Nat /\ MaxPosts \in Nat
    /\ MaxFaults \in Nat /\ MaxOverwrites \in Nat
    /\ MaxAttempts = 2 /\ MaxReplans = 1
BY OrchestrationAssumption DEF MaxAttempts, MaxReplans

LEMMA NoRunOK == RunOK(NoRun) /\ NoRun.status = "ABSENT" /\ NoBatch \in Batch
<1>1. NoRun \in Run
  BY Sizes DEF NoRun, Run, Status, Terminal
<1>2. Len(NoRun.needs) = 0 /\ NoRun.observed = {} /\ NoRun.replans = 0
  BY DEF NoRun
<1> QED
  BY <1>1, <1>2, Sizes DEF RunOK, InOrder, NoRun, NoBatch, Batch

(* A run may change its status, to COMPLETED when everything is observed.   *)
LEMMA StatusOK ==
    ASSUME NEW run, RunOK(run), NEW s \in Status, s = "COMPLETED" => run.observed = TasksOf(run)
    PROVE  /\ RunOK([run EXCEPT !.status = s])
           /\ [run EXCEPT !.status = s].status = s
           /\ [run EXCEPT !.status = s].asked = run.asked
           /\ [run EXCEPT !.status = s].observed = run.observed
BY DEF RunOK, InOrder, Run, TasksOf

LEMMA TuplesAreSeqs == \A S : \A n \in Nat : \A f \in [1..n -> S] : f \in Seq(S)
BY SeqDef, Zenon

(* A plan is a run without observations. *)
LEMMA PlanOK ==
    ASSUME NEW needs \in Plans
    PROVE  RunOK(Planned(needs)) /\ Planned(needs).status = "RUNNING"
<1>1. PICK n \in 0..NumTasks : needs \in [1..n -> SUBSET (1..n)]
  BY DEF Plans
<1>2. n \in Nat /\ n <= NumTasks /\ 1..n \subseteq TaskIds
  BY Sizes DEF TaskIds
<1>3. needs \in [1..n -> SUBSET TaskIds]
  BY <1>1, <1>2
<1>4. needs \in Seq(SUBSET TaskIds)
  BY <1>2, <1>3, TuplesAreSeqs
<1>5. Len(needs) = n
  <2>1. DOMAIN needs = 1..n
    BY <1>3
  <2> QED
    <3>1. Len(needs) \in Nat /\ DOMAIN needs = 1..Len(needs)
      BY <1>4, LenProperties
    <3> QED
      BY <1>2, <2>1, <3>1
<1>6. Planned(needs) \in Run
  BY <1>4, Sizes DEF Planned, Run, Status
<1>7. /\ Planned(needs).needs = needs /\ Planned(needs).observed = {}
      /\ Planned(needs).replans = 0 /\ Planned(needs).status = "RUNNING"
  BY DEF Planned
<1> QED
  BY <1>2, <1>5, <1>6, <1>7, Sizes DEF RunOK, InOrder

(* Observing ready tasks keeps a run in order. *)
LEMMA ObservingOK ==
    ASSUME NEW run, RunOK(run), run.status # "COMPLETED", NEW k
    PROVE  /\ RunOK(Observing(run, k))
           /\ Observing(run, k).status = run.status
           /\ Observing(run, k).needs = run.needs
           /\ Observing(run, k).replans = run.replans
           /\ run.observed \subseteq Observing(run, k).observed
<1> DEFINE new == Observing(run, k)
<1>1. run \in Run
  BY DEF RunOK
<1>2. /\ new.status = run.status /\ new.needs = run.needs /\ new.replans = run.replans
      /\ new.asked = run.asked
      /\ new.observed = run.observed \cup {t \in Ready(run) : t <= k}
  BY <1>1 DEF Observing, Run
<1>3. Ready(run) \subseteq TasksOf(run) /\ \A t \in Ready(run) : run.needs[t] \subseteq run.observed
  BY DEF Ready
<1>4. TasksOf(run) \subseteq TaskIds
  BY <1>1, Sizes DEF TasksOf, TaskIds, RunOK, Run
<1>5. new \in Run
  BY <1>1, <1>2, <1>3, <1>4 DEF Observing, Run
<1>6. \A t \in new.observed : t \in TasksOf(new) /\ new.needs[t] \subseteq new.observed
  BY <1>2, <1>3 DEF RunOK, InOrder, TasksOf
<1> QED
  BY <1>2, <1>5, <1>6 DEF RunOK, InOrder

(* So does the task a replan appends. *)
LEMMA ReplannedOK ==
    ASSUME NEW run, RunOK(run), run.status # "COMPLETED", run.replans < MaxReplans,
           NEW t \in TasksOf(run)
    PROVE  /\ RunOK(Replanned(run, t))
           /\ Replanned(run, t).status = run.status
           /\ Replanned(run, t).observed = run.observed
<1> DEFINE new == Replanned(run, t)
<1>1. run \in Run /\ run.needs \in Seq(SUBSET TaskIds) /\ Len(run.needs) \in Nat
  BY DEF RunOK, Run
<1>2. t \in TaskIds
  BY <1>1, Sizes DEF TasksOf, TaskIds, RunOK, Run
<1>3. /\ new.status = run.status /\ new.observed = run.observed /\ new.asked = run.asked
      /\ new.needs = Append(run.needs, {t}) /\ new.replans = run.replans + 1
  BY <1>1 DEF Replanned, Run
<1>4. /\ Append(run.needs, {t}) \in Seq(SUBSET TaskIds)
      /\ Len(new.needs) = Len(run.needs) + 1
      /\ \A u \in TasksOf(run) : new.needs[u] = run.needs[u]
  BY <1>1, <1>2, <1>3 DEF TasksOf
<1>5. run.replans + 1 \in 0..MaxReplans
  BY <1>1, Sizes DEF Run
<1>6. new \in Run
  BY <1>1, <1>3, <1>4, <1>5 DEF Replanned, Run
<1>7. Len(new.needs) <= NumTasks + new.replans
  BY <1>1, <1>3, <1>4, Sizes DEF RunOK, Run
<1>8. TasksOf(run) \subseteq TasksOf(new)
  BY <1>1, <1>4 DEF TasksOf
<1> QED
  BY <1>3, <1>4, <1>6, <1>7, <1>8 DEF RunOK, InOrder

LEMMA AfterOK ==
    ASSUME NEW run, RunOK(run), run.status # "COMPLETED", NEW k, NEW after \in After(run, k)
    PROVE  RunOK(after) /\ after.status = run.status /\ run.observed \subseteq after.observed
<1>1. CASE after = Observing(run, k)
  BY <1>1, ObservingOK
<1>2. CASE run.replans < MaxReplans /\ \E t \in Ready(run) : after = Replanned(Observing(run, k), t)
  <2>1. PICK t \in Ready(run) : after = Replanned(Observing(run, k), t)
    BY <1>2
  <2>2. t \in TasksOf(Observing(run, k))
    BY ObservingOK DEF Ready, TasksOf
  <2> QED
    BY <1>2, <2>1, <2>2, ObservingOK, ReplannedOK
<1> QED
  BY <1>1, <1>2 DEF After

-------------------------------------------------------------------------------
(* Facts about documents *)

(* One more answer keeps every copy well formed. *)
LEMMA MoreAnswers ==
    ASSUME NEW d, NEW answers, DocumentOK(d, answers), NEW more, answers \subseteq more
    PROVE  DocumentOK(d, more)
BY DEF DocumentOK, Waits

LEMMA SavedRun ==
    ASSUME NEW d \in Document, NEW r \in Runs, NEW run \in Run
    PROVE  LET e == [d EXCEPT !.run[r] = run]
           IN /\ e \in Document /\ e.run[r] = run
              /\ \A s \in Runs : s # r => e.run[s] = d.run[s]
              /\ e.active = d.active /\ e.cancelled = d.cancelled
BY DEF Document

(* _save_run of a run that does not wait. *)
LEMMA SaveRunOK ==
    ASSUME DocumentOK(db, answered), NEW r \in Runs, NEW run, RunOK(run),
           run.status # "WAITING_FOR_DECISION", SaveRun(r, run)
    PROVE  /\ DocumentOK(db', answered)
           /\ db'.run[r] = run /\ \A s \in Runs : s # r => db'.run[s] = db.run[s]
<1>1. db \in Document /\ run \in Run
  BY DEF DocumentOK, RunOK
<1>2. db' = [db EXCEPT !.run[r] = run]
  BY DEF SaveRun
<1>3. /\ db' \in Document /\ db'.run[r] = run
      /\ \A s \in Runs : s # r => db'.run[s] = db.run[s]
      /\ db'.active = db.active
  BY <1>1, <1>2, SavedRun
<1> QED
  BY <1>3 DEF DocumentOK, Waits

(* Asking keeps a pending decision or makes a new one; either way the run   *)
(* waits for what is pending.                                               *)
LEMMA AsksOK ==
    ASSUME DocumentOK(db, answered), AnswersOK, NEW r \in Runs, NEW run, RunOK(run),
           db' = Asks(db, r, run), TakesDecisionId(db')
    PROVE  /\ DocumentOK(db', answered) /\ nextDecision' \in 1..MaxDecisions + 1
           /\ db'.run[r].status = "WAITING_FOR_DECISION" /\ db'.run[r].observed = run.observed
           /\ \A s \in Runs : s # r => db'.run[s] = db.run[s]
<1> DEFINE decision == IF db.active # 0 THEN db.active ELSE nextDecision
           asking == [run EXCEPT !.status = "WAITING_FOR_DECISION", !.asked = decision]
           flag == db.active # 0 /\ db.cancelled
<1>1. /\ db \in Document /\ db.active \in 0..MaxDecisions /\ db.cancelled \in BOOLEAN
      /\ db.run \in [Runs -> Run]
  BY DEF DocumentOK, Document
<1>2. db' = [run |-> [db.run EXCEPT ![r] = asking], active |-> decision, cancelled |-> flag]
  BY <1>1 DEF Asks, Document
<1>3. db'.active = decision /\ decision \in 1..MaxDecisions
  BY <1>1, <1>2, Sizes DEF TakesDecisionId, AnswersOK
<1>4. run \in Run /\ run.status \in Status
  BY DEF RunOK, Run
<1>5. /\ decision \in 0..MaxDecisions /\ flag \in BOOLEAN
      /\ db.active # 0 => decision = db.active
  BY <1>3, Sizes
<1> HIDE DEF decision, flag
<1>6. /\ asking \in Run /\ asking.status = "WAITING_FOR_DECISION" /\ asking.asked = decision
       /\ asking.observed = run.observed /\ asking.needs = run.needs
       /\ asking.replans = run.replans
  BY <1>4, <1>5 DEF Run, Status
<1> HIDE DEF asking
<1>7. RunOK(asking)
  <2>1. TasksOf(asking) = TasksOf(run)
    BY <1>6 DEF TasksOf
  <2>2. InOrder(asking)
    BY <1>6, <2>1 DEF RunOK, InOrder
  <2> QED
    BY <1>6, <2>2 DEF RunOK
<1>8. /\ db'.run = [db.run EXCEPT ![r] = asking] /\ db'.run[r] = asking
      /\ \A s \in Runs : s # r => db'.run[s] = db.run[s]
  BY <1>1, <1>2
<1>9. db' \in Document
  BY <1>1, <1>2, <1>5, <1>6 DEF Document
<1>10. \A s \in Runs : RunOK(db'.run[s])
  BY <1>7, <1>8 DEF DocumentOK
<1>11. Waits(db', answered)
  <2> SUFFICES ASSUME NEW s \in Runs, db'.run[s].status = "WAITING_FOR_DECISION"
               PROVE  \/ db'.run[s].asked \in answered
                      \/ db'.run[s].asked = db'.active /\ db'.active # 0
    BY DEF Waits
  <2>1. CASE s = r
    BY <1>3, <1>6, <1>8, <2>1
  <2>2. CASE s # r
    BY <1>3, <1>5, <1>8, <2>2 DEF DocumentOK, Waits
  <2> QED
    BY <2>1, <2>2
<1>12. nextDecision' \in 1..MaxDecisions + 1
  <2>1. nextDecision' = IF db'.active = nextDecision THEN nextDecision + 1 ELSE nextDecision
    BY DEF TakesDecisionId
  <2>2. nextDecision \in 1..MaxDecisions + 1
    BY DEF AnswersOK
  <2> QED
    BY <1>3, <2>1, <2>2, Sizes
<1> QED
  BY <1>6, <1>8, <1>9, <1>10, <1>11, <1>12 DEF DocumentOK

-------------------------------------------------------------------------------
(* Facts about workflows *)

LEMMA RetriedTyped ==
    ASSUME NEW w \in Workflow, w.at \in Activities
    PROVE  /\ Retried(w) \in Workflow /\ GivenUp(w) \in Workflow
           /\ Retried(w).at = w.at \/ Retried(w).at = GivenUp(w).at
           /\ GivenUp(w).at \in {"fail", "failed"}
<1>0. Workflow = [at : Activities \cup {"none", "wait", "returned", "failed"},
                  tries : 0..1, signal : BOOLEAN]
  <2>1. MaxAttempts - 1 = 1
    BY Sizes
  <2> QED
    BY <2>1 DEF Workflow
<1>1. /\ w.tries \in 0..1 /\ w.signal \in BOOLEAN
      /\ w = [at |-> w.at, tries |-> w.tries, signal |-> w.signal]
  BY <1>0
<1>2. GivenUp(w) = [at |-> IF w.at = "fail" THEN "failed" ELSE "fail",
                    tries |-> 0, signal |-> w.signal]
  <2> DEFINE at == IF w.at = "fail" THEN "failed" ELSE "fail"
  <2>1. GivenUp(w) = [w EXCEPT !.at = at, !.tries = 0]
    BY DEF GivenUp
  <2> HIDE DEF at
  <2>2. GivenUp(w) = [at |-> at, tries |-> 0, signal |-> w.signal]
    BY <1>0, <2>1
  <2> QED
    BY <2>2 DEF at
<1>3. GivenUp(w) \in Workflow /\ GivenUp(w).at \in {"fail", "failed"}
  BY <1>0, <1>1, <1>2 DEF Activities
<1>4. CASE w.tries + 1 < MaxAttempts
  <2>1. Retried(w) = [at |-> w.at, tries |-> w.tries + 1, signal |-> w.signal]
    BY <1>1, <1>4 DEF Retried
  <2>2. w.tries + 1 \in 0..1
    BY <1>1, <1>4, Sizes
  <2> QED
    BY <1>0, <1>1, <1>3, <2>1, <2>2
<1>5. CASE ~(w.tries + 1 < MaxAttempts)
  BY <1>3, <1>5 DEF Retried
<1> QED
  BY <1>4, <1>5

LEMMA ReturnedTyped ==
    ASSUME NEW w \in Workflow, NEW s \in Status \ {"ABSENT"}
    PROVE  /\ Returned(w, s) \in Workflow
           /\ s = "RUNNING" => Returned(w, s).at = "advance"
           /\ s = "WAITING_FOR_DECISION" => Returned(w, s).at = "wait"
           /\ s \in Terminal => Returned(w, s).at = "returned"
<1>1. PICK at : at = CASE s = "RUNNING" -> "advance"
                       [] s = "WAITING_FOR_DECISION" -> "wait"
                       [] s \in Terminal -> "returned"
  OBVIOUS
<1>2. /\ s = "RUNNING" => at = "advance"
      /\ s = "WAITING_FOR_DECISION" => at = "wait"
      /\ s \in Terminal => at = "returned"
      /\ at \in {"advance", "wait", "returned"}
  BY <1>1 DEF Status, Terminal
<1>3. Returned(w, s) = [w EXCEPT !.tries = 0, !.at = at]
  BY <1>1 DEF Returned
<1>4. Returned(w, s) = [at |-> at, tries |-> 0, signal |-> w.signal]
  BY <1>3 DEF Workflow
<1>5. Returned(w, s) \in Workflow
  BY <1>2, <1>4, Sizes DEF Workflow, Activities
<1> QED
  BY <1>2, <1>4, <1>5

(* Where the workflow of a run may go when one of its attempts is over.     *)
LEMMA Attempted ==
    ASSUME WorkflowsOK, CountersOK, NEW r \in Runs, wf[r].at \in Activities,
           NEW s \in Status \ {"ABSENT"},
           \/ Reports(r, s)
           \/ Refused(r) /\ NoFault
           \/ wf' = [wf EXCEPT ![r] = Retried(@)] /\ (Fault \/ NoFault)
    PROVE  /\ WorkflowsOK' /\ faults' \in 0..MaxFaults
           /\ \A q \in Runs : q # r => wf'[q] = wf[q]
           /\ wf'[r].at \in {"advance", "wait", "returned", "fail", "failed", wf[r].at}
           /\ wf'[r].at = "wait" => s = "WAITING_FOR_DECISION"
           /\ wf'[r].at = "returned" => s \in Terminal
<1>1. wf[r] \in Workflow
  BY DEF WorkflowsOK
<1>2. PICK w : /\ w \in {Returned(wf[r], s), Retried(wf[r]), GivenUp(wf[r])}
               /\ wf' = [wf EXCEPT ![r] = w]
  BY DEF Reports, Refused
<1>3. w \in Workflow
  BY <1>1, <1>2, RetriedTyped, ReturnedTyped
<1>4. wf'[r] = w /\ \A q \in Runs : q # r => wf'[q] = wf[q]
  BY <1>2 DEF WorkflowsOK
<1>5. faults' \in 0..MaxFaults
  BY Sizes DEF Reports, NoFault, Fault, CountersOK
<1>6. WorkflowsOK'
  BY <1>2, <1>3 DEF WorkflowsOK
<1>7. CASE w = Returned(wf[r], s)
  BY <1>1, <1>4, <1>5, <1>6, <1>7, ReturnedTyped DEF Status, Terminal
<1>8. CASE w \in {Retried(wf[r]), GivenUp(wf[r])}
  BY <1>1, <1>4, <1>5, <1>6, <1>8, RetriedTyped DEF Activities
<1> QED
  BY <1>2, <1>7, <1>8

-------------------------------------------------------------------------------
(* Facts about batches: what a worker's step does to them *)

LEMMA BatchesStay ==
    ASSUME BatchesOK, NEW r \in Runs, ~batch[r].on, UNCHANGED batch,
           \A q \in Runs : q # r => wf'[q] = wf[q]
    PROVE  BatchesOK'
BY DEF BatchesOK

LEMMA BatchGone ==
    ASSUME BatchesOK, NEW r \in Runs, batch' = [batch EXCEPT ![r] = NoBatch],
           \A q \in Runs : q # r => wf'[q] = wf[q]
    PROVE  BatchesOK'
<1>1. NoBatch \in Batch /\ RunOK(NoBatch.run) /\ NoBatch.on = FALSE
  BY NoRunOK DEF NoBatch
<1>2. batch' \in [Runs -> Batch] /\ batch'[r] = NoBatch
  BY <1>1 DEF BatchesOK
<1>3. \A q \in Runs : q # r => batch'[q] = batch[q]
  BY DEF BatchesOK
<1> QED
  BY <1>1, <1>2, <1>3 DEF BatchesOK

LEMMA BatchStarts ==
    ASSUME BatchesOK, NEW r \in Runs, NEW run, RunOK(run), run.status = "RUNNING",
           batch' = [batch EXCEPT ![r] = [on |-> TRUE, run |-> run]],
           wf[r].at \in {"advance", "resume"}, UNCHANGED wf
    PROVE  BatchesOK'
<1>1. [on |-> TRUE, run |-> run] \in Batch
  BY DEF RunOK, Batch
<1>2. batch' \in [Runs -> Batch] /\ batch'[r] = [on |-> TRUE, run |-> run]
  BY <1>1 DEF BatchesOK
<1>3. \A q \in Runs : q # r => batch'[q] = batch[q]
  BY DEF BatchesOK
<1> QED
  BY <1>2, <1>3 DEF BatchesOK

-------------------------------------------------------------------------------
(* Each action preserves the invariant *)

(* What a step of a run's worker, or of its workflow, has to establish. *)
LEMMA WorkerFrame ==
    ASSUME IInv, UNCHANGED <<held, posted, posts, overwrites, answered>>,
           DocumentOK(db', answered), BatchesOK', WorkflowsOK',
           faults' \in 0..MaxFaults, nextDecision' \in 1..MaxDecisions + 1,
           passed' \in [Runs -> SUBSET DecisionIds]
    PROVE  IInv'
<1>1. DocumentsOK'
  BY DEF IInv, DocumentsOK
<1>2. RequestsOK' /\ AnswersOK' /\ CountersOK' /\ CopiesOK'
  BY DEF IInv, RequestsOK, AnswersOK, CountersOK, CopiesOK
<1> QED
  BY <1>1, <1>2 DEF IInv

LEMMA AttemptLostStep == ASSUME IInv, NEW r \in Runs, AttemptLost(r) PROVE IInv'
<1>1. /\ WorkflowsOK' /\ faults' \in 0..MaxFaults
      /\ \A q \in Runs : q # r => wf'[q] = wf[q]
  <2>1. "RUNNING" \in Status \ {"ABSENT"}
    BY DEF Status
  <2> QED
    BY <2>1, Attempted DEF IInv, AttemptLost
<1>2. BatchesOK'
  BY <1>1, BatchGone DEF IInv, AttemptLost
<1> QED
  BY <1>1, <1>2, WorkerFrame DEF IInv, AttemptLost, history, DocumentsOK, AnswersOK

LEMMA BeginStep == ASSUME IInv, NEW r \in Runs, Begin(r) PROVE IInv'
<1>1. /\ WorkflowsOK' /\ faults' \in 0..MaxFaults
      /\ \A q \in Runs : q # r => wf'[q] = wf[q]
  <2>1. "RUNNING" \in Status \ {"ABSENT"} /\ wf[r].at \in Activities
    BY DEF Status, Begin, Executes, Activities
  <2> QED
    BY <2>1, Attempted DEF IInv, Begin
<1>2. BatchesOK'
  BY <1>1, BatchesStay DEF IInv, Begin, Executes
<1>3. DocumentOK(db', answered)
  <2>1. CASE \E needs \in Plans : SaveRun(r, Planned(needs))
    BY <2>1, PlanOK, SaveRunOK DEF IInv, DocumentsOK
  <2>2. CASE UNCHANGED db
    BY <2>2 DEF IInv, DocumentsOK
  <2> QED
    BY <2>1, <2>2 DEF Begin
<1> QED
  BY <1>1, <1>2, <1>3, WorkerFrame DEF IInv, Begin, history, AnswersOK

(* The part of advance that resume_batch shares. *)
LEMMA ProceedStep ==
    ASSUME IInv, NEW r \in Runs, wf[r].at \in {"advance", "resume"}, ~batch[r].on,
           NEW run, RunOK(run), run.status = "RUNNING", Proceed(r, run)
    PROVE  /\ DocumentOK(db', answered) /\ BatchesOK' /\ WorkflowsOK'
           /\ faults' \in 0..MaxFaults
<1>1. CASE /\ run.observed = TasksOf(run)
           /\ SaveRun(r, [run EXCEPT !.status = "COMPLETED"])
           /\ Reports(r, "COMPLETED")
           /\ UNCHANGED batch
  <2>1. "COMPLETED" \in Status \ {"ABSENT"} /\ wf[r].at \in Activities
    BY DEF Status, Terminal, Activities
  <2>2. /\ RunOK([run EXCEPT !.status = "COMPLETED"])
        /\ [run EXCEPT !.status = "COMPLETED"].status # "WAITING_FOR_DECISION"
    BY <1>1, <2>1, StatusOK
  <2>3. DocumentOK(db', answered)
    BY <1>1, <2>2, SaveRunOK DEF IInv, DocumentsOK
  <2>4. /\ WorkflowsOK' /\ faults' \in 0..MaxFaults
        /\ \A q \in Runs : q # r => wf'[q] = wf[q]
    BY <1>1, <2>1, Attempted DEF IInv
  <2> QED
    BY <1>1, <2>3, <2>4, BatchesStay DEF IInv
<1>2. CASE /\ SaveRun(r, run)
           /\ batch' = [batch EXCEPT ![r] = [on |-> TRUE, run |-> run]]
           /\ UNCHANGED <<wf, faults>>
  BY <1>2, SaveRunOK, BatchStarts DEF IInv, DocumentsOK, WorkflowsOK, CountersOK
<1> QED
  BY <1>1, <1>2 DEF Proceed

LEMMA AdvanceStep == ASSUME IInv, NEW r \in Runs, Advance(r) PROVE IInv'
<1> DEFINE run == db.run[r]
<1>1. RunOK(run) /\ run.status \in Status /\ wf[r].at = "advance" /\ ~batch[r].on
  BY DEF IInv, DocumentsOK, DocumentOK, RunOK, Run, Advance, Executes
<1>2. CASE run.status = "RUNNING" /\ Proceed(r, run)
  <2>1. DocumentOK(db', answered) /\ BatchesOK' /\ WorkflowsOK' /\ faults' \in 0..MaxFaults
    BY <1>1, <1>2, ProceedStep
  <2> QED
    BY <2>1, WorkerFrame DEF IInv, Advance, history, AnswersOK
<1>3. CASE /\ run.status \notin {"RUNNING", "ABSENT"}
           /\ Reports(r, run.status)
           /\ UNCHANGED <<db, batch>>
  <2>1. /\ WorkflowsOK' /\ faults' \in 0..MaxFaults
        /\ \A q \in Runs : q # r => wf'[q] = wf[q]
    BY <1>1, <1>3, Attempted DEF IInv, Activities
  <2>2. BatchesOK'
    BY <1>1, <1>3, <2>1, BatchesStay DEF IInv
  <2> QED
    BY <1>3, <2>1, <2>2, WorkerFrame DEF IInv, DocumentsOK, Advance, history, AnswersOK
<1>4. CASE Refused(r) /\ NoFault /\ UNCHANGED <<db, batch>>
  <2>1. /\ WorkflowsOK' /\ faults' \in 0..MaxFaults
        /\ \A q \in Runs : q # r => wf'[q] = wf[q]
    <3>1. "RUNNING" \in Status \ {"ABSENT"}
      BY DEF Status
    <3> QED
      BY <1>1, <1>4, <3>1, Attempted DEF IInv, Activities
  <2>2. BatchesOK'
    BY <1>1, <1>4, <2>1, BatchesStay DEF IInv
  <2> QED
    BY <1>4, <2>1, <2>2, WorkerFrame DEF IInv, DocumentsOK, Advance, history, AnswersOK
<1> QED
  BY <1>2, <1>3, <1>4 DEF Advance

LEMMA ResumeStep == ASSUME IInv, NEW r \in Runs, Resume(r) PROVE IInv'
<1> DEFINE run == db.run[r]
<1>1. RunOK(run) /\ run \in Run /\ wf[r].at = "resume" /\ ~batch[r].on
  BY DEF IInv, DocumentsOK, DocumentOK, RunOK, Resume, Executes
<1>2. /\ "RUNNING" \in Status \ {"ABSENT"} /\ "CANCELLED" \in Status \ {"ABSENT"}
      /\ wf[r].at \in Activities
  BY <1>1 DEF Status, Terminal, Activities
<1>3. CASE /\ MayResume(db, r)
           /\ Proceed(r, [run EXCEPT !.status = "RUNNING"])
           /\ passed' = [passed EXCEPT ![r] = @ \cup {run.asked}]
  <2>1. /\ RunOK([run EXCEPT !.status = "RUNNING"])
        /\ [run EXCEPT !.status = "RUNNING"].status = "RUNNING"
    BY <1>1, <1>2, StatusOK
  <2>2. DocumentOK(db', answered) /\ BatchesOK' /\ WorkflowsOK' /\ faults' \in 0..MaxFaults
    BY <1>1, <1>3, <2>1, ProceedStep
  <2>3. run.asked \in answered
    BY <1>3 DEF MayResume, IInv, DocumentsOK, DocumentOK, Waits
  <2>4. passed' \in [Runs -> SUBSET DecisionIds]
    BY <1>3, <2>3 DEF IInv, AnswersOK
  <2> QED
    BY <2>2, <2>4, WorkerFrame DEF IInv, Resume, AnswersOK
<1>4. CASE /\ SaveRun(r, [run EXCEPT !.status = "CANCELLED"])
           /\ Reports(r, "CANCELLED")
           /\ UNCHANGED <<batch, passed>>
  <2>1. /\ RunOK([run EXCEPT !.status = "CANCELLED"])
        /\ [run EXCEPT !.status = "CANCELLED"].status # "WAITING_FOR_DECISION"
    BY <1>1, <1>2, StatusOK
  <2>2. DocumentOK(db', answered)
    BY <1>4, <2>1, SaveRunOK DEF IInv, DocumentsOK
  <2>3. /\ WorkflowsOK' /\ faults' \in 0..MaxFaults
        /\ \A q \in Runs : q # r => wf'[q] = wf[q]
    BY <1>2, <1>4, Attempted DEF IInv
  <2>4. BatchesOK'
    BY <1>1, <1>4, <2>3, BatchesStay DEF IInv
  <2> QED
    BY <1>4, <2>2, <2>3, <2>4, WorkerFrame DEF IInv, Resume, AnswersOK
<1>5. CASE Refused(r) /\ NoFault /\ UNCHANGED <<db, batch, passed>>
  <2>1. /\ WorkflowsOK' /\ faults' \in 0..MaxFaults
        /\ \A q \in Runs : q # r => wf'[q] = wf[q]
    BY <1>2, <1>5, Attempted DEF IInv
  <2>2. BatchesOK'
    BY <1>1, <1>5, <2>1, BatchesStay DEF IInv
  <2> QED
    BY <1>5, <2>1, <2>2, WorkerFrame DEF IInv, DocumentsOK, Resume, AnswersOK
<1> QED
  BY <1>3, <1>4, <1>5 DEF Resume

LEMMA BatchEndsStep == ASSUME IInv, NEW r \in Runs, BatchEnds(r) PROVE IInv'
<1> DEFINE run == batch[r].run
           last == Len(run.needs)
<1>1. /\ RunOK(run) /\ run.status = "RUNNING" /\ wf[r].at \in Activities
      /\ batch' = [batch EXCEPT ![r] = NoBatch]
  BY DEF IInv, BatchesOK, BatchEnds, Activities
<1>2. /\ "RUNNING" \in Status \ {"ABSENT"} /\ "FAILED" \in Status \ {"ABSENT"}
      /\ "WAITING_FOR_DECISION" \in Status \ {"ABSENT"}
  BY DEF Status, Terminal
<1>3. ASSUME WorkflowsOK', faults' \in 0..MaxFaults, \A q \in Runs : q # r => wf'[q] = wf[q],
             DocumentOK(db', answered), nextDecision' \in 1..MaxDecisions + 1
      PROVE  IInv'
  <2>1. BatchesOK'
    BY <1>1, <1>3, BatchGone DEF IInv
  <2> QED
    BY <1>3, <2>1, WorkerFrame DEF IInv, BatchEnds, history, AnswersOK
<1>4. CASE /\ \E after \in After(run, last) : SaveRun(r, after)
           /\ Reports(r, "RUNNING")
           /\ UNCHANGED nextDecision
  <2>1. PICK after \in After(run, last) : SaveRun(r, after)
    BY <1>4
  <2>2. RunOK(after) /\ after.status = "RUNNING"
    BY <1>1, AfterOK
  <2>3. DocumentOK(db', answered)
    BY <2>1, <2>2, SaveRunOK DEF IInv, DocumentsOK
  <2>4. /\ WorkflowsOK' /\ faults' \in 0..MaxFaults
        /\ \A q \in Runs : q # r => wf'[q] = wf[q]
    BY <1>1, <1>2, <1>4, Attempted DEF IInv
  <2> QED
    BY <1>3, <1>4, <2>3, <2>4 DEF IInv, AnswersOK
<1>5. CASE /\ \E k \in Ready(run) : \E after \in After(run, k) :
                 db' = Asks(db, r, after) /\ TakesDecisionId(Asks(db, r, after))
           /\ Reports(r, "WAITING_FOR_DECISION")
  <2>1. PICK k \in Ready(run) : \E after \in After(run, k) :
                 db' = Asks(db, r, after) /\ TakesDecisionId(Asks(db, r, after))
    BY <1>5
  <2>2. PICK after \in After(run, k) : db' = Asks(db, r, after) /\ TakesDecisionId(db')
    BY <2>1
  <2>3. RunOK(after)
    BY <1>1, AfterOK
  <2>4. DocumentOK(db', answered) /\ nextDecision' \in 1..MaxDecisions + 1
    BY <2>2, <2>3, AsksOK DEF IInv, DocumentsOK
  <2>5. /\ WorkflowsOK' /\ faults' \in 0..MaxFaults
        /\ \A q \in Runs : q # r => wf'[q] = wf[q]
    BY <1>1, <1>2, <1>5, Attempted DEF IInv
  <2> QED
    BY <1>3, <2>4, <2>5
<1>6. CASE /\ \E k \in Ready(run) \cup {0} : \E after \in After(run, k) :
                 SaveRun(r, [after EXCEPT !.status = "FAILED"])
           /\ Refused(r) \/ wf' = [wf EXCEPT ![r] = Retried(@)]
           /\ NoFault /\ UNCHANGED nextDecision
  <2>1. PICK k \in Ready(run) \cup {0} : \E after \in After(run, k) :
                 SaveRun(r, [after EXCEPT !.status = "FAILED"])
    BY <1>6
  <2>2. PICK after \in After(run, k) : SaveRun(r, [after EXCEPT !.status = "FAILED"])
    BY <2>1
  <2>3. RunOK(after)
    BY <1>1, AfterOK
  <2>4. /\ RunOK([after EXCEPT !.status = "FAILED"])
        /\ [after EXCEPT !.status = "FAILED"].status # "WAITING_FOR_DECISION"
    BY <1>2, <2>3, StatusOK
  <2>5. DocumentOK(db', answered)
    BY <2>2, <2>4, SaveRunOK DEF IInv, DocumentsOK
  <2>6. /\ WorkflowsOK' /\ faults' \in 0..MaxFaults
        /\ \A q \in Runs : q # r => wf'[q] = wf[q]
    BY <1>1, <1>2, <1>6, Attempted DEF IInv
  <2> QED
    BY <1>3, <1>6, <2>5, <2>6 DEF IInv, AnswersOK
<1> QED
  BY <1>4, <1>5, <1>6 DEF BatchEnds

LEMMA FailStep == ASSUME IInv, NEW r \in Runs, Fail(r) PROVE IInv'
<1> DEFINE run == db.run[r]
<1>1. RunOK(run) /\ run \in Run /\ wf[r].at \in Activities /\ ~batch[r].on
  BY DEF IInv, DocumentsOK, DocumentOK, RunOK, Fail, Executes, Activities
<1>2. "FAILED" \in Status \ {"ABSENT"}
  BY DEF Status, Terminal
<1>3. DocumentOK(db', answered)
  <2>1. CASE SaveRun(r, FailedRun(run))
    <3>1. RunOK(FailedRun(run)) /\ FailedRun(run).status # "WAITING_FOR_DECISION"
      BY <1>1, <1>2, StatusOK DEF FailedRun, Terminal
    <3> QED
      BY <2>1, <3>1, SaveRunOK DEF IInv, DocumentsOK
  <2>2. CASE UNCHANGED db
    BY <2>2 DEF IInv, DocumentsOK
  <2> QED
    BY <2>1, <2>2 DEF Fail
<1>4. /\ WorkflowsOK' /\ faults' \in 0..MaxFaults
      /\ \A q \in Runs : q # r => wf'[q] = wf[q]
  BY <1>1, <1>2, Attempted DEF IInv, Fail
<1>5. BatchesOK'
  BY <1>1, <1>4, BatchesStay DEF IInv, Fail
<1> QED
  BY <1>3, <1>4, <1>5, WorkerFrame DEF IInv, Fail, history, AnswersOK

(* Where no activity runs there is no batch. *)
LEMMA NoActivityNoBatch ==
    ASSUME IInv, NEW r \in Runs, wf[r].at \notin {"advance", "resume"}
    PROVE  ~batch[r].on
BY DEF IInv, BatchesOK

LEMMA WakeStep == ASSUME IInv, NEW r \in Runs, Wake(r) PROVE IInv'
<1>1. wf[r] \in Workflow /\ ~batch[r].on
  BY NoActivityNoBatch DEF IInv, WorkflowsOK, Wake
<1>2. Woken(wf[r]) \in Workflow
  <2>1. wf[r].tries \in 0..MaxAttempts - 1 /\ 0 \in 0..MaxAttempts - 1
    BY <1>1, Sizes DEF Workflow
  <2> QED
    BY <1>1, <2>1 DEF Woken, Workflow, Activities
<1>3. WorkflowsOK' /\ \A q \in Runs : q # r => wf'[q] = wf[q]
  BY <1>2 DEF IInv, WorkflowsOK, Wake
<1>4. BatchesOK'
  BY <1>1, <1>3, BatchesStay DEF IInv, Wake
<1> QED
  BY <1>3, <1>4, WorkerFrame DEF IInv, DocumentsOK, Wake, history, bounds, AnswersOK, CountersOK

LEMMA StartStep == ASSUME IInv, NEW r \in Runs, Start(r) PROVE IInv'
<1>1. wf[r] \in Workflow /\ ~batch[r].on
  BY NoActivityNoBatch DEF IInv, WorkflowsOK, Start
<1>2. WorkflowsOK' /\ \A q \in Runs : q # r => wf'[q] = wf[q]
  BY <1>1 DEF IInv, WorkflowsOK, Start, Workflow, Activities
<1>3. BatchesOK'
  BY <1>1, <1>2, BatchesStay DEF IInv, Start
<1> QED
  BY <1>2, <1>3, WorkerFrame DEF IInv, DocumentsOK, Start, history, bounds, AnswersOK, CountersOK

LEMMA SignalStep == ASSUME IInv, NEW r \in Runs, Signal(r) PROVE IInv'
<1>1. /\ WorkflowsOK' /\ \A q \in Runs : wf'[q].at = wf[q].at
  BY DEF IInv, WorkflowsOK, Signal, Workflow
<1>2. RequestsOK'
  <2>1. posted[r] - 1 \in 0..MaxPosts /\ posted[r] - 1 <= posts[r]
    BY Sizes DEF IInv, RequestsOK, Signal
  <2> QED
    BY <2>1 DEF IInv, RequestsOK, Signal, bounds
<1>3. BatchesOK'
  BY <1>1 DEF IInv, BatchesOK, Signal
<1> QED
  BY <1>1, <1>2, <1>3
  DEF IInv, DocumentsOK, Signal, history, bounds, AnswersOK, CountersOK, CopiesOK

LEMMA PostResumeStep == ASSUME IInv, NEW r \in Runs, PostResume(r) PROVE IInv'
<1>1. posted[r] + 1 \in 0..MaxPosts /\ posts[r] + 1 \in 0..MaxPosts
  BY Sizes DEF IInv, RequestsOK, PostResume
<1>2. RequestsOK'
  BY <1>1, Sizes DEF IInv, RequestsOK, PostResume
<1> QED
  BY <1>2
  DEF IInv, DocumentsOK, BatchesOK, WorkflowsOK, PostResume, history, AnswersOK, CountersOK,
      CopiesOK

(* An action of a user's leaves workflows and batches alone. *)
LEMMA UserFrame ==
    ASSUME IInv, UNCHANGED <<wf, batch, posted, posts, faults>>, DocumentsOK', AnswersOK',
           overwrites' \in 0..MaxOverwrites, CopiesOK'
    PROVE  IInv'
BY DEF IInv, BatchesOK, WorkflowsOK, RequestsOK, CountersOK

LEMMA AnswerStep == ASSUME IInv, Answer PROVE IInv'
<1>1. PICK c \in BOOLEAN : db' = [db EXCEPT !.active = 0, !.cancelled = c]
  BY DEF Answer
<1>2. db \in Document /\ 0 \in 0..MaxDecisions /\ db.active \in DecisionIds
  BY Sizes DEF IInv, DocumentsOK, DocumentOK, Document, Answer, DecisionIds
<1>3. db' \in Document /\ db'.run = db.run
  BY <1>1, <1>2 DEF Document
<1>4. answered' = answered \cup {db.active} /\ UNCHANGED held
  BY DEF Answer
<1>5. DocumentOK(db', answered')
  BY <1>3, <1>4 DEF IInv, DocumentsOK, DocumentOK, Waits
<1>6. \A d \in held : DocumentOK(d, answered')
  BY <1>4, MoreAnswers DEF IInv, DocumentsOK
<1>7. DocumentsOK'
  BY <1>4, <1>5, <1>6 DEF DocumentsOK
<1>8. AnswersOK'
  BY <1>2, <1>4 DEF IInv, AnswersOK, Answer
<1> QED
  BY <1>7, <1>8, UserFrame DEF IInv, CountersOK, CopiesOK, Answer, bounds

LEMMA OtherDecisionStep == ASSUME IInv, OtherDecision PROVE IInv'
<1>1. /\ db \in Document /\ nextDecision \in 0..MaxDecisions
      /\ nextDecision + 1 \in 1..MaxDecisions + 1
  BY Sizes DEF IInv, DocumentsOK, DocumentOK, AnswersOK, OtherDecision
<1>2. db' \in Document /\ db'.run = db.run
  BY <1>1 DEF Document, OtherDecision
<1>3. DocumentOK(db', answered)
  BY <1>2 DEF IInv, DocumentsOK, DocumentOK, Waits, OtherDecision
<1>4. DocumentsOK' /\ AnswersOK'
  BY <1>1, <1>3 DEF IInv, DocumentsOK, AnswersOK, OtherDecision, history
<1> QED
  BY <1>4, UserFrame DEF IInv, CountersOK, CopiesOK, OtherDecision, bounds

LEMMA OtherStatusStep == ASSUME IInv, OtherStatus PROVE IInv'
<1>1. db \in Document
  BY DEF IInv, DocumentsOK, DocumentOK
<1>2. db' \in Document /\ db'.run = db.run /\ db'.active = db.active
  BY <1>1 DEF Document, OtherStatus
<1>3. DocumentOK(db', answered)
  BY <1>2 DEF IInv, DocumentsOK, DocumentOK, Waits
<1>4. DocumentsOK' /\ AnswersOK'
  BY <1>3 DEF IInv, DocumentsOK, AnswersOK, OtherStatus, history
<1> QED
  BY <1>4, UserFrame DEF IInv, CountersOK, CopiesOK, OtherStatus, bounds

LEMMA HoldCopyStep == ASSUME IInv, HoldCopy PROVE IInv'
<1>1. DocumentsOK' /\ AnswersOK'
  BY DEF IInv, DocumentsOK, AnswersOK, HoldCopy, history
<1> QED
  BY <1>1, UserFrame DEF IInv, CountersOK, CopiesOK, HoldCopy, bounds

(* What was held was well formed, and what it waits for is pending in the   *)
(* copy itself or has been answered.                                        *)
LEMMA WriteCopyBackStep == ASSUME IInv, WriteCopyBack PROVE IInv'
<1>1. DocumentsOK' /\ AnswersOK'
  BY DEF IInv, DocumentsOK, AnswersOK, WriteCopyBack, history
<1>2. overwrites' \in 0..MaxOverwrites /\ CopiesOK'
  BY Sizes DEF IInv, CountersOK, CopiesOK, WriteCopyBack
<1> QED
  BY <1>1, <1>2, UserFrame DEF WriteCopyBack

-------------------------------------------------------------------------------
(* The invariant *)

LEMMA InitOK == Init => IInv
<1> SUFFICES ASSUME Init PROVE IInv
  OBVIOUS
<1>1. DocumentsOK
  <2>1. /\ db.active = 0 /\ db.cancelled = FALSE /\ db.run = [r \in Runs |-> NoRun]
        /\ db = [run |-> db.run, active |-> db.active, cancelled |-> db.cancelled]
    BY DEF Init
  <2>2. db \in Document
    <3>1. NoRun \in Run /\ 0 \in 0..MaxDecisions
      BY NoRunOK, Sizes DEF RunOK
    <3>2. db.run \in [Runs -> Run]
      BY <2>1, <3>1
    <3> QED
      BY <2>1, <3>1, <3>2 DEF Document
  <2>3. \A r \in Runs : RunOK(db.run[r]) /\ db.run[r].status # "WAITING_FOR_DECISION"
    BY <2>1, NoRunOK
  <2> QED
    BY <2>2, <2>3 DEF DocumentsOK, DocumentOK, Waits, Init
<1>2. BatchesOK
  <2>1. NoBatch.on = FALSE /\ NoBatch.run = NoRun
    BY DEF NoBatch
  <2> QED
    BY <2>1, NoRunOK DEF BatchesOK, Init
<1>3. WorkflowsOK
  BY Sizes DEF WorkflowsOK, Workflow, Init
<1> QED
  BY <1>1, <1>2, <1>3, Sizes DEF IInv, RequestsOK, AnswersOK, CountersOK, CopiesOK, Init

LEMMA StepOK == IInv /\ [Next]_vars => IInv'
<1> SUFFICES ASSUME IInv, [Next]_vars PROVE IInv'
  OBVIOUS
<1>1. ASSUME NEW r \in Runs, WorkerStep(r) PROVE IInv'
  BY <1>1, BeginStep, AdvanceStep, ResumeStep, BatchEndsStep, FailStep, AttemptLostStep,
     WakeStep DEF WorkerStep
<1>2. ASSUME NEW r \in Runs, Start(r) \/ PostResume(r) \/ Signal(r) PROVE IInv'
  BY <1>2, StartStep, PostResumeStep, SignalStep
<1>3. CASE Answer
  BY <1>3, AnswerStep
<1>4. CASE OtherDecision \/ OtherStatus
  BY <1>4, OtherDecisionStep, OtherStatusStep
<1>5. CASE HoldCopy \/ WriteCopyBack
  BY <1>5, HoldCopyStep, WriteCopyBackStep
<1>6. CASE UNCHANGED vars
  BY <1>6
  DEF vars, bounds, history, IInv, DocumentsOK, BatchesOK, WorkflowsOK, RequestsOK, AnswersOK,
      CountersOK, CopiesOK
<1> QED
  BY <1>1, <1>2, <1>3, <1>4, <1>5, <1>6 DEF Next

(* The invariant the other theorems rest on holds throughout. *)
THEOREM Invariant == Spec => []IInv
<1> QED
  BY InitOK, StepOK, PTL DEF Spec

-------------------------------------------------------------------------------
(* The theorems *)

(* The variables keep their types, with any number of tasks, decisions,     *)
(* requests, lost attempts and stale copies.                                *)
THEOREM TypeCorrect == Spec => []TypeOK
<1>1. IInv => TypeOK
  BY DEF IInv, DocumentsOK, DocumentOK, BatchesOK, WorkflowsOK, RequestsOK, AnswersOK,
         CountersOK, TypeOK
<1> QED
  BY <1>1, Invariant, PTL

(* Every copy of a run, stored, held or worked on, has observed its tasks   *)
(* in the order of their dependencies, and is COMPLETED only with all of    *)
(* them (advance and TaskGraph.ready).                                      *)
THEOREM Order == Spec => []WorkInOrder
<1>1. IInv => WorkInOrder
  BY DEF IInv, DocumentsOK, DocumentOK, BatchesOK, RunOK, InOrder, WorkInOrder, RunCopies
<1> QED
  BY <1>1, Invariant, PTL

(* Every step is, for the questions and their answers, one the gate allows: *)
(* resume_batch goes on only after an answer (runtime.py:161).              *)
LEMMA GateStep == IInv /\ [Next]_vars => [Gate!Next]_Gate!gateVars
<1> SUFFICES ASSUME IInv, [Next]_vars PROVE [Gate!Next]_Gate!gateVars
  OBVIOUS
<1>1. CASE Answer
  <2>1. db.active \in DecisionIds
    BY <1>1, Sizes DEF Answer, IInv, DocumentsOK, DocumentOK, Document, DecisionIds
  <2>2. Gate!Answer(db.active)
    BY <1>1 DEF Answer, Gate!Answer
  <2> QED
    BY <2>1, <2>2 DEF Gate!Next
<1>2. ASSUME NEW r \in Runs, Resume(r) PROVE [Gate!Next]_Gate!gateVars
  <2>1. CASE UNCHANGED passed
    BY <1>2, <2>1 DEF Resume, Gate!gateVars
  <2>2. CASE MayResume(db, r) /\ passed' = [passed EXCEPT ![r] = @ \cup {db.run[r].asked}]
    <3>1. db.run[r].asked \in answered /\ answered \subseteq DecisionIds
      BY <2>2 DEF MayResume, IInv, DocumentsOK, DocumentOK, Waits, AnswersOK
    <3>2. Gate!GoOn(r, db.run[r].asked)
      BY <1>2, <2>2, <3>1 DEF Resume, Gate!GoOn
    <3> QED
      BY <3>1, <3>2 DEF Gate!Next
  <2> QED
    BY <1>2, <2>1, <2>2 DEF Resume
<1>3. CASE ~Answer /\ ~\E r \in Runs : Resume(r)
  <2>1. UNCHANGED <<answered, passed>>
    <3>1. ASSUME NEW r \in Runs, WorkerStep(r) PROVE UNCHANGED <<answered, passed>>
      BY <1>3, <3>1 DEF WorkerStep, Begin, Advance, BatchEnds, Fail, AttemptLost, Wake, history
    <3>2. ASSUME NEW r \in Runs, Start(r) \/ PostResume(r) \/ Signal(r)
          PROVE  UNCHANGED <<answered, passed>>
      BY <3>2 DEF Start, PostResume, Signal, history
    <3>3. CASE OtherDecision \/ OtherStatus \/ HoldCopy \/ WriteCopyBack
      BY <3>3 DEF OtherDecision, OtherStatus, HoldCopy, WriteCopyBack, history
    <3> QED
      BY <1>3, <3>1, <3>2, <3>3 DEF Next, vars, history
  <2> QED
    BY <2>1 DEF Gate!gateVars
<1> QED
  BY <1>1, <1>2, <1>3

(* A run is resumed only after what its user has answered, through early,   *)
(* repeated and late signals, lost attempts, shared decisions and stale     *)
(* copies (resume_batch and agent_decision).                                *)
THEOREM Refinement == Spec => AskFirst
<1>1. Init => Gate!Init
  BY DEF Init, Gate!Init
<1> QED
  BY <1>1, Invariant, GateStep, PTL DEF Spec, AskFirst, Gate!Spec

-------------------------------------------------------------------------------
(* A run and its workflow, as long as no stale copy has been written back *)

(* What a workflow knows of its run; only the workflow's own worker changes *)
(* either, so that a batch works on the run as it is stored.                *)
Own(r) ==
    /\ wf[r].at = "returned" => db.run[r].status \in Terminal
    /\ wf[r].at = "wait" => db.run[r].status = "WAITING_FOR_DECISION"
    /\ batch[r].on => batch[r].run = db.run[r]
    /\ wf[r].at \in {"none", "begin"} =>
           db.run[r].status \in {"ABSENT", "RUNNING"} /\ db.run[r].observed = {}

OwnInv == overwrites = 0 => \A r \in Runs : Own(r)

Forward(r) ==
    /\ db.run[r].observed \subseteq db'.run[r].observed
    /\ db.run[r].status \in Terminal => db'.run[r] = db.run[r]

(* The end of an attempt keeps the two together, if what it reports is what *)
(* has been saved.                                                          *)
LEMMA AttemptedOwn ==
    ASSUME IInv, NEW r \in Runs, wf[r].at \in Activities, NEW s \in Status \ {"ABSENT"},
           \/ Reports(r, s)
           \/ Refused(r) /\ NoFault
           \/ wf' = [wf EXCEPT ![r] = Retried(@)] /\ (Fault \/ NoFault),
           ~batch'[r].on,
           s \in Terminal => db'.run[r].status \in Terminal,
           s = "WAITING_FOR_DECISION" => db'.run[r].status = "WAITING_FOR_DECISION",
           wf[r].at = "begin" =>
               db'.run[r].status \in {"ABSENT", "RUNNING"} /\ db'.run[r].observed = {}
    PROVE  Own(r)'
<1>1. /\ wf'[r].at \in {"advance", "wait", "returned", "fail", "failed", wf[r].at}
      /\ wf'[r].at = "wait" => s = "WAITING_FOR_DECISION"
      /\ wf'[r].at = "returned" => s \in Terminal
  BY Attempted DEF IInv
<1> QED
  BY <1>1 DEF Own, Activities

LEMMA AttemptLostOwn ==
    ASSUME IInv, NEW r \in Runs, Own(r), AttemptLost(r)
    PROVE  Own(r)' /\ Forward(r)
<1>1. "RUNNING" \in Status \ {"ABSENT"} /\ "RUNNING" \notin Terminal
  BY DEF Status, Terminal
<1>2. ~batch'[r].on
  BY DEF AttemptLost, NoBatch, IInv, BatchesOK
<1>3. wf[r].at = "begin" =>
          db'.run[r].status \in {"ABSENT", "RUNNING"} /\ db'.run[r].observed = {}
  BY DEF AttemptLost, Own
<1>4. Own(r)'
  BY <1>1, <1>2, <1>3, AttemptedOwn DEF AttemptLost
<1> QED
  BY <1>4 DEF Forward, AttemptLost

LEMMA BeginOwn ==
    ASSUME IInv, NEW r \in Runs, Own(r), Begin(r)
    PROVE  Own(r)' /\ Forward(r)
<1>1. /\ "RUNNING" \in Status \ {"ABSENT"} /\ "RUNNING" \notin Terminal
      /\ {"ABSENT", "RUNNING"} \cap Terminal = {}
  BY DEF Status, Terminal
<1>2. wf[r].at \in Activities /\ ~batch'[r].on /\ wf[r].at = "begin"
  BY DEF Begin, Executes, Activities
<1>3. db.run[r].status \in {"ABSENT", "RUNNING"} /\ db.run[r].observed = {}
  BY <1>2 DEF Own
<1>4. db'.run[r].status \in {"ABSENT", "RUNNING"} /\ db'.run[r].observed = {}
  <2>1. CASE \E needs \in Plans : SaveRun(r, Planned(needs))
    <3>1. PICK needs \in Plans : SaveRun(r, Planned(needs))
      BY <2>1
    <3>2. db'.run[r] = Planned(needs)
      BY <3>1, PlanOK, SaveRunOK DEF IInv, DocumentsOK
    <3> QED
      BY <3>2 DEF Planned
  <2>2. CASE UNCHANGED db
    BY <1>3, <2>2
  <2> QED
    BY <2>1, <2>2 DEF Begin
<1>5. Own(r)'
  BY <1>1, <1>2, <1>4, AttemptedOwn DEF Begin
<1> QED
  BY <1>1, <1>3, <1>5 DEF Forward

LEMMA ProceedOwn ==
    ASSUME IInv, NEW r \in Runs, Own(r), wf[r].at \in {"advance", "resume"}, ~batch[r].on,
           NEW run, RunOK(run), run.status = "RUNNING", run.observed = db.run[r].observed,
           db.run[r].status \notin Terminal, Proceed(r, run)
    PROVE  Own(r)' /\ Forward(r)
<1>1. CASE /\ run.observed = TasksOf(run)
           /\ SaveRun(r, [run EXCEPT !.status = "COMPLETED"])
           /\ Reports(r, "COMPLETED")
           /\ UNCHANGED batch
  <2>1. /\ "COMPLETED" \in Status \ {"ABSENT"} /\ "COMPLETED" \in Terminal
        /\ wf[r].at \in Activities /\ wf[r].at # "begin"
    BY DEF Status, Terminal, Activities
  <2>2. /\ RunOK([run EXCEPT !.status = "COMPLETED"])
        /\ [run EXCEPT !.status = "COMPLETED"].status = "COMPLETED"
        /\ [run EXCEPT !.status = "COMPLETED"].observed = run.observed
    BY <1>1, <2>1, StatusOK
  <2>3. db'.run[r].status = "COMPLETED" /\ db'.run[r].observed = run.observed
    BY <1>1, <2>2, SaveRunOK DEF IInv, DocumentsOK
  <2>4. Own(r)'
    BY <1>1, <2>1, <2>3, AttemptedOwn
  <2> QED
    BY <2>3, <2>4 DEF Forward
<1>2. CASE /\ SaveRun(r, run)
           /\ batch' = [batch EXCEPT ![r] = [on |-> TRUE, run |-> run]]
           /\ UNCHANGED <<wf, faults>>
  <2>1. db'.run[r] = run
    BY <1>2, SaveRunOK DEF IInv, DocumentsOK
  <2>2. batch'[r].run = run
    BY <1>2 DEF IInv, BatchesOK
  <2> QED
    BY <1>2, <2>1, <2>2 DEF Own, Forward
<1> QED
  BY <1>1, <1>2 DEF Proceed

LEMMA AdvanceOwn ==
    ASSUME IInv, NEW r \in Runs, Own(r), Advance(r)
    PROVE  Own(r)' /\ Forward(r)
<1> DEFINE run == db.run[r]
<1>1. /\ RunOK(run) /\ run.status \in Status /\ ~batch[r].on
      /\ wf[r].at = "advance" /\ wf[r].at \in Activities
  BY DEF IInv, DocumentsOK, DocumentOK, RunOK, Run, Advance, Executes, Activities
<1>2. CASE run.status = "RUNNING" /\ Proceed(r, run)
  BY <1>1, <1>2, ProceedOwn DEF Terminal
<1>3. CASE /\ run.status \notin {"RUNNING", "ABSENT"}
           /\ Reports(r, run.status)
           /\ UNCHANGED <<db, batch>>
  <2>1. Own(r)'
    BY <1>1, <1>3, AttemptedOwn
  <2> QED
    BY <1>3, <2>1 DEF Forward
<1>4. CASE Refused(r) /\ NoFault /\ UNCHANGED <<db, batch>>
  <2>1. "RUNNING" \in Status \ {"ABSENT"} /\ "RUNNING" \notin Terminal
    BY DEF Status, Terminal
  <2>2. Own(r)'
    BY <1>1, <1>4, <2>1, AttemptedOwn
  <2> QED
    BY <1>4, <2>2 DEF Forward
<1> QED
  BY <1>2, <1>3, <1>4 DEF Advance

LEMMA ResumeOwn ==
    ASSUME IInv, NEW r \in Runs, Own(r), Resume(r)
    PROVE  Own(r)' /\ Forward(r)
<1> DEFINE run == db.run[r]
<1>1. RunOK(run) /\ wf[r].at = "resume" /\ wf[r].at \in Activities /\ ~batch[r].on
  BY DEF IInv, DocumentsOK, DocumentOK, Resume, Executes, Activities
<1>2. /\ "RUNNING" \in Status \ {"ABSENT"} /\ "CANCELLED" \in Status \ {"ABSENT"}
      /\ "RUNNING" \notin Terminal /\ "WAITING_FOR_DECISION" \notin Terminal
      /\ "CANCELLED" \in Terminal
  BY DEF Status, Terminal
<1>3. CASE MayResume(db, r) /\ Proceed(r, [run EXCEPT !.status = "RUNNING"])
  <2>1. /\ RunOK([run EXCEPT !.status = "RUNNING"])
        /\ [run EXCEPT !.status = "RUNNING"].status = "RUNNING"
        /\ [run EXCEPT !.status = "RUNNING"].observed = run.observed
    BY <1>1, <1>2, StatusOK
  <2>2. db.run[r].status \notin Terminal
    BY <1>2, <1>3 DEF MayResume
  <2> QED
    BY <1>1, <1>3, <2>1, <2>2, ProceedOwn
<1>4. CASE /\ run.status = "WAITING_FOR_DECISION"
           /\ SaveRun(r, [run EXCEPT !.status = "CANCELLED"])
           /\ Reports(r, "CANCELLED")
           /\ UNCHANGED <<batch, passed>>
  <2>1. /\ RunOK([run EXCEPT !.status = "CANCELLED"])
        /\ [run EXCEPT !.status = "CANCELLED"].status = "CANCELLED"
        /\ [run EXCEPT !.status = "CANCELLED"].observed = run.observed
    BY <1>1, <1>2, StatusOK
  <2>2. db'.run[r].status = "CANCELLED" /\ db'.run[r].observed = run.observed
    BY <1>4, <2>1, SaveRunOK DEF IInv, DocumentsOK
  <2>3. Own(r)'
    BY <1>1, <1>2, <1>4, <2>2, AttemptedOwn
  <2> QED
    BY <1>2, <1>4, <2>2, <2>3 DEF Forward
<1>5. CASE Refused(r) /\ NoFault /\ UNCHANGED <<db, batch, passed>>
  <2>1. Own(r)'
    BY <1>1, <1>2, <1>5, AttemptedOwn
  <2> QED
    BY <1>5, <2>1 DEF Forward
<1> QED
  BY <1>3, <1>4, <1>5 DEF Resume

LEMMA BatchEndsOwn ==
    ASSUME IInv, NEW r \in Runs, Own(r), BatchEnds(r)
    PROVE  Own(r)' /\ Forward(r)
<1> DEFINE run == batch[r].run
           last == Len(run.needs)
<1>1. /\ RunOK(run) /\ run.status = "RUNNING" /\ wf[r].at \in Activities
      /\ wf[r].at # "begin" /\ db.run[r] = run
  BY DEF IInv, BatchesOK, BatchEnds, Activities, Own
<1>2. ~batch'[r].on
  BY DEF BatchEnds, NoBatch, IInv, BatchesOK
<1>3. /\ "RUNNING" \in Status \ {"ABSENT"} /\ "FAILED" \in Status \ {"ABSENT"}
      /\ "WAITING_FOR_DECISION" \in Status \ {"ABSENT"}
      /\ "RUNNING" \notin Terminal /\ "WAITING_FOR_DECISION" \notin Terminal
      /\ "FAILED" \in Terminal
  BY DEF Status, Terminal
<1>4. CASE /\ \E after \in After(run, last) : SaveRun(r, after)
           /\ Reports(r, "RUNNING")
  <2>1. PICK after \in After(run, last) : SaveRun(r, after)
    BY <1>4
  <2>2. RunOK(after) /\ after.status = "RUNNING" /\ run.observed \subseteq after.observed
    BY <1>1, AfterOK
  <2>3. db'.run[r] = after
    BY <2>1, <2>2, SaveRunOK DEF IInv, DocumentsOK
  <2>4. Own(r)'
    BY <1>1, <1>2, <1>3, <1>4, AttemptedOwn
  <2> QED
    BY <1>1, <1>3, <2>2, <2>3, <2>4 DEF Forward
<1>5. CASE /\ \E k \in Ready(run) : \E after \in After(run, k) :
                 db' = Asks(db, r, after) /\ TakesDecisionId(Asks(db, r, after))
           /\ Reports(r, "WAITING_FOR_DECISION")
  <2>1. PICK k \in Ready(run) : \E after \in After(run, k) :
                 db' = Asks(db, r, after) /\ TakesDecisionId(Asks(db, r, after))
    BY <1>5
  <2>2. PICK after \in After(run, k) : db' = Asks(db, r, after) /\ TakesDecisionId(db')
    BY <2>1
  <2>3. RunOK(after) /\ run.observed \subseteq after.observed
    BY <1>1, AfterOK
  <2>4. db'.run[r].status = "WAITING_FOR_DECISION" /\ db'.run[r].observed = after.observed
    BY <2>2, <2>3, AsksOK DEF IInv, DocumentsOK
  <2>5. Own(r)'
    BY <1>1, <1>2, <1>3, <1>5, <2>4, AttemptedOwn
  <2> QED
    BY <1>1, <1>3, <2>3, <2>4, <2>5 DEF Forward
<1>6. CASE /\ \E k \in Ready(run) \cup {0} : \E after \in After(run, k) :
                 SaveRun(r, [after EXCEPT !.status = "FAILED"])
           /\ Refused(r) \/ wf' = [wf EXCEPT ![r] = Retried(@)]
           /\ NoFault
  <2>1. PICK k \in Ready(run) \cup {0} : \E after \in After(run, k) :
                 SaveRun(r, [after EXCEPT !.status = "FAILED"])
    BY <1>6
  <2>2. PICK after \in After(run, k) : SaveRun(r, [after EXCEPT !.status = "FAILED"])
    BY <2>1
  <2>3. RunOK(after) /\ run.observed \subseteq after.observed
    BY <1>1, AfterOK
  <2>4. /\ RunOK([after EXCEPT !.status = "FAILED"])
        /\ [after EXCEPT !.status = "FAILED"].status # "WAITING_FOR_DECISION"
        /\ [after EXCEPT !.status = "FAILED"].observed = after.observed
    BY <1>3, <2>3, StatusOK
  <2>5. db'.run[r].observed = after.observed
    BY <2>2, <2>4, SaveRunOK DEF IInv, DocumentsOK
  <2>6. Own(r)'
    BY <1>1, <1>2, <1>3, <1>6, AttemptedOwn
  <2> QED
    BY <1>1, <1>3, <2>3, <2>5, <2>6 DEF Forward
<1> QED
  BY <1>4, <1>5, <1>6 DEF BatchEnds

LEMMA FailOwn ==
    ASSUME IInv, NEW r \in Runs, Own(r), Fail(r)
    PROVE  Own(r)' /\ Forward(r)
<1> DEFINE run == db.run[r]
<1>1. /\ RunOK(run) /\ wf[r].at \in Activities /\ wf[r].at # "begin"
      /\ ~batch'[r].on
  BY DEF IInv, DocumentsOK, DocumentOK, Fail, Executes, Activities
<1>2. /\ "FAILED" \in Status \ {"ABSENT"} /\ "RUNNING" \in Status \ {"ABSENT"}
      /\ "FAILED" \in Terminal /\ "RUNNING" \notin Terminal
      /\ "WAITING_FOR_DECISION" \notin Terminal
  BY DEF Status, Terminal
<1>3. CASE SaveRun(r, FailedRun(run)) /\ Reports(r, "FAILED")
  <2>1. /\ RunOK(FailedRun(run)) /\ FailedRun(run).status \in Terminal
        /\ FailedRun(run).observed = run.observed
        /\ run.status \in Terminal => FailedRun(run) = run
    BY <1>1, <1>2, StatusOK DEF FailedRun
  <2>2. db'.run[r] = FailedRun(run)
    BY <1>2, <1>3, <2>1, SaveRunOK DEF IInv, DocumentsOK
  <2>3. Own(r)'
    BY <1>1, <1>2, <1>3, <2>1, <2>2, AttemptedOwn
  <2> QED
    BY <2>1, <2>2, <2>3 DEF Forward
<1>4. CASE Refused(r) /\ NoFault /\ UNCHANGED db
  <2>1. Own(r)'
    BY <1>1, <1>2, <1>4, AttemptedOwn
  <2> QED
    BY <1>4, <2>1 DEF Forward
<1> QED
  BY <1>3, <1>4 DEF Fail

(* A worker's step on one run leaves the others alone. *)
Apart(r) ==
    /\ UNCHANGED overwrites
    /\ \A q \in Runs \ {r} :
           db'.run[q] = db.run[q] /\ wf'[q] = wf[q] /\ batch'[q] = batch[q]

LEMMA SaveApart ==
    ASSUME db \in Document, NEW r \in Runs, NEW run,
           \/ SaveRun(r, run)
           \/ db' = Asks(db, r, run)
           \/ UNCHANGED db
    PROVE  \A q \in Runs \ {r} : db'.run[q] = db.run[q]
<1>1. CASE SaveRun(r, run) \/ UNCHANGED db
  BY <1>1 DEF SaveRun, Document
<1>2. CASE db' = Asks(db, r, run)
  <2> DEFINE decision == IF db.active # 0 THEN db.active ELSE nextDecision
             asking == [run EXCEPT !.status = "WAITING_FOR_DECISION", !.asked = decision]
             flag == db.active # 0 /\ db.cancelled
  <2>1. db' = [db EXCEPT !.active = decision, !.cancelled = flag, !.run[r] = asking]
    BY <1>2 DEF Asks
  <2> HIDE DEF decision, asking, flag
  <2> QED
    BY <2>1 DEF Document
<1> QED
  BY <1>1, <1>2

LEMMA WorkersApart == ASSUME IInv, NEW r \in Runs, WorkerStep(r) PROVE Apart(r)
<1>1. UNCHANGED overwrites
  BY DEF WorkerStep, Begin, Advance, Resume, BatchEnds, Fail, AttemptLost, Wake, bounds
<1>2. \A q \in Runs \ {r} : wf'[q] = wf[q]
  BY DEF IInv, WorkflowsOK, WorkerStep, Begin, Advance, Proceed, Resume, BatchEnds, Fail,
         AttemptLost, Wake, Reports, Refused
<1>3. \A q \in Runs \ {r} : batch'[q] = batch[q]
  BY DEF IInv, BatchesOK, WorkerStep, Begin, Advance, Proceed, Resume, BatchEnds, Fail,
         AttemptLost, Wake
<1>4. \E run : \/ SaveRun(r, run)
               \/ db' = Asks(db, r, run)
               \/ UNCHANGED db
  BY DEF WorkerStep, Begin, Advance, Proceed, Resume, BatchEnds, Fail, AttemptLost, Wake
<1>5. db \in Document
  BY DEF IInv, DocumentsOK, DocumentOK
<1>6. \A q \in Runs \ {r} : db'.run[q] = db.run[q]
  BY <1>4, <1>5, SaveApart
<1> QED
  BY <1>1, <1>2, <1>3, <1>6 DEF Apart

LEMMA WakeOwn ==
    ASSUME IInv, NEW r \in Runs, Own(r), Wake(r)
    PROVE  Own(r)' /\ Forward(r)
<1>1. wf'[r].at = "resume" /\ UNCHANGED <<db, batch>>
  BY DEF Wake, Woken, IInv, WorkflowsOK, Workflow
<1> QED
  BY <1>1 DEF Own, Forward

LEMMA WorkerOwn ==
    ASSUME IInv, OwnInv, NEW r \in Runs, WorkerStep(r)
    PROVE  OwnInv' /\ (overwrites' = 0 => \A q \in Runs : Forward(q))
<1> SUFFICES ASSUME overwrites' = 0
             PROVE  \A q \in Runs : Own(q)' /\ Forward(q)
  BY DEF OwnInv
<1>1. Apart(r)
  BY WorkersApart
<1>2. \A q \in Runs : Own(q)
  BY <1>1 DEF Apart, OwnInv
<1>3. Own(r)' /\ Forward(r)
  BY <1>2, BeginOwn, AdvanceOwn, ResumeOwn, BatchEndsOwn, FailOwn, AttemptLostOwn, WakeOwn
  DEF WorkerStep
<1>4. \A q \in Runs \ {r} : Own(q)' /\ Forward(q)
  BY <1>1, <1>2 DEF Apart, Own, Forward
<1> QED
  BY <1>3, <1>4

(* What users do neither moves a workflow nor touches a run, but for a      *)
(* start and for a copy written back.                                       *)
LEMMA UserOwn ==
    ASSUME IInv, OwnInv,
           \/ \E r \in Runs : Start(r) \/ PostResume(r) \/ Signal(r)
           \/ Answer \/ OtherDecision \/ OtherStatus \/ HoldCopy \/ WriteCopyBack
           \/ UNCHANGED vars
    PROVE  OwnInv' /\ (overwrites' = 0 => \A q \in Runs : Forward(q))
<1> SUFFICES ASSUME overwrites' = 0
             PROVE  \A q \in Runs : Own(q)' /\ Forward(q)
  BY DEF OwnInv
<1>1. overwrites \in Nat /\ ~WriteCopyBack
  BY Sizes DEF IInv, CountersOK, WriteCopyBack
<1>2. overwrites = 0 /\ UNCHANGED batch /\ db'.run = db.run
  BY <1>1 DEF Start, PostResume, Signal, Answer, OtherDecision, OtherStatus, HoldCopy, bounds,
              vars, IInv, DocumentsOK, DocumentOK, Document
<1>3. \A q \in Runs : \/ wf'[q].at = wf[q].at
                      \/ wf[q].at = "none" /\ wf'[q].at = "begin"
  <2>1. wf \in [Runs -> Workflow]
    BY DEF IInv, WorkflowsOK
  <2>2. ASSUME NEW r \in Runs, Start(r)
        PROVE  wf[r].at = "none" /\ wf'[r].at = "begin" /\ \A q \in Runs \ {r} : wf'[q] = wf[q]
    BY <2>1, <2>2 DEF Start, Workflow
  <2>3. ASSUME NEW r \in Runs, Signal(r)
        PROVE  \A q \in Runs : wf'[q].at = wf[q].at
    BY <2>1, <2>3 DEF Signal, Workflow
  <2>4. CASE UNCHANGED wf
    BY <2>4
  <2> QED
    BY <1>1, <2>2, <2>3, <2>4
    DEF PostResume, Answer, OtherDecision, OtherStatus, HoldCopy, vars
<1>4. \A q \in Runs : Own(q)
  BY <1>2 DEF OwnInv
<1> QED
  BY <1>2, <1>3, <1>4 DEF Own, Forward

LEMMA OwnStep ==
    IInv /\ OwnInv /\ [Next]_vars =>
        OwnInv' /\ (overwrites' = 0 => \A q \in Runs : Forward(q))
BY WorkerOwn, UserOwn DEF Next

LEMMA OwnInit == Init => OwnInv
<1> SUFFICES ASSUME Init, NEW r \in Runs PROVE Own(r)
  BY DEF OwnInv
<1>1. wf[r].at = "none" /\ batch[r] = NoBatch /\ db.run[r] = NoRun
  BY DEF Init
<1>2. NoRun.status = "ABSENT" /\ NoRun.observed = {} /\ NoBatch.on = FALSE
  BY DEF NoRun, NoBatch
<1> QED
  BY <1>1, <1>2 DEF Own

(* Whatever attempts are lost and repeated, a workflow that has returned    *)
(* leaves no run open, and one that waits has a run that waits (the loop of *)
(* ProjectWorkflow.run and the activities' saves).                          *)
THEOREM Agreement == Spec => []RunAndWorkflowAgree
<1>1. OwnInv => RunAndWorkflowAgree
  BY DEF OwnInv, Own, RunAndWorkflowAgree
<1> QED
  BY <1>1, OwnInit, OwnStep, Invariant, PTL DEF Spec

(* No step forgets an observation or changes a run that is over, a second   *)
(* attempt of any activity included (begin, advance, fail and _save_run).   *)
THEOREM Progress == Spec => RunsMoveForward
<1>1. (overwrites' = 0 => \A q \in Runs : Forward(q)) =>
          [\A r \in Runs : overwrites' = 0 =>
              /\ db.run[r].observed \subseteq db'.run[r].observed
              /\ db.run[r].status \in Terminal => db'.run[r] = db.run[r]]_vars
  BY DEF Forward
<1> QED
  BY <1>1, OwnInit, OwnStep, Invariant, PTL DEF Spec, RunsMoveForward
===============================================================================
