----------------------------- MODULE Orchestration -----------------------------
(***************************************************************************)
(* The agents' runs over a project (app/ai/runtime.py) and the Temporal    *)
(* workflow that drives each of them                                       *)
(* (app/application/orchestration/temporal.py): a run is planned as a      *)
(* graph of tasks, executed batch by batch, may stop to ask the user, and  *)
(* is resumed by a signal the HTTP application sends (app/main.py).        *)
(*                                                                         *)
(* The runs and the one active decision live in the project document.      *)
(* The worker reads it, works on one run, and writes that run back into a  *)
(* fresh copy; handlers of the HTTP application hold a copy of the whole   *)
(* document across an await and write all of it back.                      *)
(*                                                                         *)
(* Temporal itself is external: it executes an activity, again if the      *)
(* attempt failed, and hands the result or the last failure to the         *)
(* workflow.  Attempts of one activity do not overlap: a specialist makes  *)
(* two model calls of at most two minutes, an attempt is lost after ten.   *)
(*                                                                         *)
(* Claims, evidence, verification and accounting of a run are left out;    *)
(* of an observation there remains that the task has one, whether it asks  *)
(* a question, and whether it makes the planner append a task.             *)
(***************************************************************************)
EXTENDS Naturals, Sequences

CONSTANTS Runs,            \* run_ids, one workflow each
          NumTasks,        \* bound: tasks of a plan
          MaxDecisions,    \* bound: decision requests ever made
          MaxPosts,        \* bound: resume requests the API accepts, per run
          MaxFaults,       \* bound: lost attempts
          MaxOverwrites    \* bound: stale copies written back

MaxAttempts == 2           \* maximum_attempts of _ACTIVITY_RETRY_POLICY
MaxReplans == 1            \* a run is replanned when run.replans < 1
TaskIds == 1..NumTasks + MaxReplans
DecisionIds == 1..MaxDecisions

ASSUME OrchestrationAssumption ==
    /\ NumTasks \in Nat /\ MaxDecisions \in Nat /\ MaxPosts \in Nat
    /\ MaxFaults \in Nat /\ MaxOverwrites \in Nat

VARIABLES db,              \* the stored project document
          held,            \* the copy a handler of the API holds across an await, if any
          wf,              \* the workflow of each run
          batch,           \* the batch of specialists a run's activity awaits
          posted,          \* resume requests that passed their checks, not signalled yet
          posts,           \* resume requests accepted so far
          nextDecision,    \* fresh decision ids (uuid4)
          faults,          \* attempts lost so far
          overwrites,      \* stale copies written back so far
          answered,        \* history: decisions the user has answered
          passed           \* history: decisions each run has been resumed after

bounds == <<posts, faults, overwrites>>
history == <<answered, passed>>
vars == <<db, held, wf, batch, posted, nextDecision, bounds, history>>

-------------------------------------------------------------------------------
(* Types *)

Terminal == {"COMPLETED", "FAILED", "CANCELLED"}
Status == Terminal \cup {"ABSENT", "RUNNING", "WAITING_FOR_DECISION"}

(* needs[t]: the dependencies of the t-th task of the graph; observed: the  *)
(* tasks with an observation; asked: the decision waited for last.          *)
Run == [status : Status, needs : Seq(SUBSET TaskIds), observed : SUBSET TaskIds,
        replans : 0..MaxReplans, asked : 0..MaxDecisions]

(* cancelled: the project's status is CANCELLED.                            *)
Document == [run : [Runs -> Run], active : 0..MaxDecisions, cancelled : BOOLEAN]

Activities == {"begin", "advance", "resume", "fail"}

(* What a workflow executes or waits for; tries: attempts lost so far.      *)
Workflow == [at : Activities \cup {"none", "wait", "returned", "failed"},
             tries : 0..MaxAttempts - 1, signal : BOOLEAN]

Batch == [on : BOOLEAN, run : Run]

NoRun == [status |-> "ABSENT", needs |-> <<>>, observed |-> {}, replans |-> 0, asked |-> 0]
NoBatch == [on |-> FALSE, run |-> NoRun]

TypeOK ==
    /\ db \in Document
    /\ held \subseteq Document
    /\ wf \in [Runs -> Workflow]
    /\ batch \in [Runs -> Batch]
    /\ posted \in [Runs -> 0..MaxPosts]
    /\ posts \in [Runs -> 0..MaxPosts]
    /\ nextDecision \in 1..MaxDecisions + 1
    /\ faults \in 0..MaxFaults
    /\ overwrites \in 0..MaxOverwrites
    /\ answered \subseteq DecisionIds
    /\ passed \in [Runs -> SUBSET DecisionIds]

Init ==
    /\ db = [run |-> [r \in Runs |-> NoRun], active |-> 0, cancelled |-> FALSE]
    /\ held = {}
    /\ wf = [r \in Runs |-> [at |-> "none", tries |-> 0, signal |-> FALSE]]
    /\ batch = [r \in Runs |-> NoBatch]
    /\ posted = [r \in Runs |-> 0] /\ posts = [r \in Runs |-> 0]
    /\ nextDecision = 1
    /\ faults = 0 /\ overwrites = 0
    /\ answered = {} /\ passed = [r \in Runs |-> {}]

-------------------------------------------------------------------------------
(* The task graph *)

TasksOf(run) == 1..Len(run.needs)

(* TaskGraph.validate_graph: dependencies are tasks of the graph, without a *)
(* cycle.                                                                   *)
ValidGraph(needs) ==
    LET tasks == 1..Len(needs)
    IN /\ \A t \in tasks : needs[t] \subseteq tasks
       /\ \A S \in SUBSET tasks : S # {} => \E t \in S : needs[t] \cap S = {}

Plans == {needs \in UNION {[1..n -> SUBSET (1..n)] : n \in 0..NumTasks} : ValidGraph(needs)}

Planned(needs) ==
    [status |-> "RUNNING", needs |-> needs, observed |-> {}, replans |-> 0, asked |-> 0]

(* Faulty: dependencies are not looked at. *)
Ready_Unordered(run) == TasksOf(run) \ run.observed

(* TaskGraph.ready: every task not observed whose dependencies are. *)
Ready(run) == {t \in TasksOf(run) \ run.observed : run.needs[t] \subseteq run.observed}

(* Faulty: off by one. *)
Observing_Short(run, k) == [run EXCEPT !.observed = @ \cup {t \in Ready(run) : t < k}]

(* The observations of a batch are taken in list order, up to the k-th task. *)
Observing(run, k) == [run EXCEPT !.observed = @ \cup {t \in Ready(run) : t <= k}]

(* TaskGraphPlanner.replan: one more task, which needs the given one.       *)
Replanned(run, t) == [run EXCEPT !.needs = Append(@, {t}), !.replans = @ + 1]

(* Faulty: a run may be replanned any number of times. *)
After_Unlimited(run, k) ==
    {Observing(run, k)} \cup {Replanned(Observing(run, k), t) : t \in {u \in Ready(run) : u <= k}}

(* The forms a run may have after the tasks up to k of its batch: one of    *)
(* them may have made the planner append a task.                            *)
After(run, k) ==
    {Observing(run, k)} \cup
        IF run.replans < MaxReplans
        THEN {Replanned(Observing(run, k), t) : t \in {u \in Ready(run) : u <= k}}
        ELSE {}

-------------------------------------------------------------------------------
(* Activities and their attempts *)

Executes(r, activity) == wf[r].at = activity /\ ~batch[r].on

NoFault == UNCHANGED faults
Fault == faults < MaxFaults /\ faults' = faults + 1

(* The workflow's except clause: fail; and nothing catches a failed fail.   *)
GivenUp(w) == [w EXCEPT !.at = IF @ = "fail" THEN "failed" ELSE "fail", !.tries = 0]

(* An attempt failed in a way the retry policy retries. *)
Retried(w) == IF w.tries + 1 < MaxAttempts THEN [w EXCEPT !.tries = @ + 1] ELSE GivenUp(w)

(* OrchestrationError, DiligenceError and ValueError are not retried. *)
Refused(r) == wf' = [wf EXCEPT ![r] = GivenUp(@)]

(* Faulty: a signal that came while an activity ran is dropped. *)
Returned_DropsSignal(w, status) ==
    [w EXCEPT !.tries = 0, !.signal = FALSE,
              !.at = CASE status = "RUNNING" -> "advance"
                       [] status = "WAITING_FOR_DECISION" -> "wait"
                       [] status \in Terminal -> "returned"]

(* What the workflow does with the status an activity returned. *)
Returned(w, status) ==
    [w EXCEPT !.tries = 0,
              !.at = CASE status = "RUNNING" -> "advance"
                       [] status = "WAITING_FOR_DECISION" -> "wait"
                       [] status \in Terminal -> "returned"]

(* An activity has saved what it had to and returns, or the worker is lost  *)
(* before the result is reported.                                           *)
Reports(r, status) ==
    \/ wf' = [wf EXCEPT ![r] = Returned(@, status)] /\ NoFault
    \/ wf' = [wf EXCEPT ![r] = Retried(@)] /\ Fault

(* _save_run: a fresh copy of the document, with this run replaced. *)
SaveRun(r, run) == db' = [db EXCEPT !.run[r] = run]

(* An attempt fails before it has saved anything more: the model provider   *)
(* is unavailable, a call times out, or the worker process dies.            *)
AttemptLost(r) ==
    /\ wf[r].at \in Activities
    /\ Fault
    /\ wf' = [wf EXCEPT ![r] = Retried(@)]
    /\ batch' = [batch EXCEPT ![r] = NoBatch]
    /\ UNCHANGED <<db, held, posted, nextDecision, posts, overwrites, history>>

(* begin: interpret, plan, and save a new run whatever is stored under its  *)
(* id; an invalid plan raises ValueError.                                   *)
Begin(r) ==
    /\ Executes(r, "begin")
    /\ \/ /\ \E needs \in Plans : SaveRun(r, Planned(needs))
          /\ Reports(r, "RUNNING")
       \/ Refused(r) /\ NoFault /\ UNCHANGED db
    /\ UNCHANGED <<held, batch, posted, nextDecision, posts, overwrites, history>>

(* advance on a RUNNING run, up to the await of its specialists: all tasks  *)
(* have been observed, or the ready ones are started.                       *)
Proceed(r, run) ==
    \/ /\ run.observed = TasksOf(run)
       /\ SaveRun(r, [run EXCEPT !.status = "COMPLETED"])
       /\ Reports(r, "COMPLETED")
       /\ UNCHANGED batch
    \/ /\ run.observed # TasksOf(run)
       /\ SaveRun(r, run)
       /\ batch' = [batch EXCEPT ![r] = [on |-> TRUE, run |-> run]]
       /\ UNCHANGED <<wf, faults>>

Advance(r) ==
    LET run == db.run[r]
    IN /\ Executes(r, "advance")
       /\ \/ run.status = "RUNNING" /\ Proceed(r, run)
          \/ /\ run.status \notin {"RUNNING", "ABSENT"}
             /\ Reports(r, run.status)
             /\ UNCHANGED <<db, batch>>
          \/ run.status = "ABSENT" /\ Refused(r) /\ NoFault /\ UNCHANGED <<db, batch>>
       /\ UNCHANGED <<held, posted, nextDecision, posts, overwrites, history>>

(* Faulty: the check of the pending decision is missing. *)
MayResume_Unchecked(d, r) == d.run[r].status = "WAITING_FOR_DECISION" /\ ~d.cancelled

(* resume_batch goes on only when nothing is pending any more. *)
MayResume(d, r) ==
    d.run[r].status = "WAITING_FOR_DECISION" /\ ~d.cancelled /\ d.active = 0

(* resume_batch: refused, or the run ends with its cancelled project, or it *)
(* is RUNNING again, is saved, and advances at once.                        *)
Resume(r) ==
    LET run == db.run[r]
        cancels == run.status = "WAITING_FOR_DECISION" /\ db.cancelled
    IN /\ Executes(r, "resume")
       /\ \/ /\ MayResume(db, r)
             /\ Proceed(r, [run EXCEPT !.status = "RUNNING"])
             /\ passed' = [passed EXCEPT ![r] = @ \cup {run.asked}]
          \/ /\ cancels
             /\ SaveRun(r, [run EXCEPT !.status = "CANCELLED"])
             /\ Reports(r, "CANCELLED")
             /\ UNCHANGED <<batch, passed>>
          \/ /\ ~MayResume(db, r) /\ ~cancels
             /\ Refused(r) /\ NoFault
             /\ UNCHANGED <<db, batch, passed>>
       /\ UNCHANGED <<held, posted, nextDecision, posts, overwrites, answered>>

(* agent_decision keeps a decision that is active already; a new one makes  *)
(* the project's status NEEDS_USER_DECISION.                                *)
Asks(d, r, run) ==
    LET decision == IF d.active # 0 THEN d.active ELSE nextDecision
    IN [d EXCEPT !.active = decision, !.cancelled = d.active # 0 /\ @,
                 !.run[r] = [run EXCEPT !.status = "WAITING_FOR_DECISION", !.asked = decision]]

TakesDecisionId(d) ==
    /\ d.active <= MaxDecisions
    /\ nextDecision' = IF d.active = nextDecision THEN nextDecision + 1 ELSE nextDecision

(* The specialists have answered.  Their observations are taken one by one: *)
(* all of them, or up to one that asks the user, or up to one that raises.  *)
(* What a later task of the batch has found is then dropped.                *)
BatchEnds(r) ==
    LET run == batch[r].run
        last == Len(run.needs)
    IN /\ batch[r].on
       /\ batch' = [batch EXCEPT ![r] = NoBatch]
       /\ \/ /\ \E after \in After(run, last) : SaveRun(r, after)
             /\ Reports(r, "RUNNING")
             /\ UNCHANGED nextDecision
          \/ /\ \E k \in Ready(run) : \E after \in After(run, k) :
                   db' = Asks(db, r, after) /\ TakesDecisionId(Asks(db, r, after))
             /\ Reports(r, "WAITING_FOR_DECISION")
          \/ /\ \E k \in Ready(run) \cup {0} : \E after \in After(run, k) :
                   SaveRun(r, [after EXCEPT !.status = "FAILED"])
             /\ Refused(r) \/ wf' = [wf EXCEPT ![r] = Retried(@)]
             /\ NoFault /\ UNCHANGED nextDecision
       /\ UNCHANGED <<held, posted, posts, overwrites, history>>

(* Faulty forms of the next operator: an open run is left as it is, or a    *)
(* run that is over fails after all.                                        *)
FailedRun_Open(run) == run
FailedRun_Always(run) == [run EXCEPT !.status = "FAILED"]

FailedRun(run) == IF run.status \in Terminal THEN run ELSE [run EXCEPT !.status = "FAILED"]

(* fail: what the workflow does when an activity has failed for good. *)
Fail(r) ==
    /\ Executes(r, "fail")
    /\ \/ /\ db.run[r].status # "ABSENT"
          /\ SaveRun(r, FailedRun(db.run[r]))
          /\ Reports(r, "FAILED")
       \/ db.run[r].status = "ABSENT" /\ Refused(r) /\ NoFault /\ UNCHANGED db
    /\ UNCHANGED <<held, batch, posted, nextDecision, posts, overwrites, history>>

Woken(w) == [w EXCEPT !.at = "resume", !.tries = 0, !.signal = FALSE]

(* wait_condition: the workflow goes on when a signal has come. *)
Wake(r) ==
    /\ wf[r].at = "wait" /\ wf[r].signal
    /\ wf' = [wf EXCEPT ![r] = Woken(@)]
    /\ UNCHANGED <<db, held, batch, posted, nextDecision, bounds, history>>

-------------------------------------------------------------------------------
(* The HTTP application *)

Start(r) ==
    /\ wf[r].at = "none"
    /\ wf' = [wf EXCEPT ![r].at = "begin"]
    /\ UNCHANGED <<db, held, batch, posted, nextDecision, bounds, history>>

(* POST .../resume checks the run and the project, then awaits the client   *)
(* connection before it signals.                                            *)
PostResume(r) ==
    /\ db.run[r].status = "WAITING_FOR_DECISION" /\ db.active = 0
    /\ posts[r] < MaxPosts
    /\ posts' = [posts EXCEPT ![r] = @ + 1]
    /\ posted' = [posted EXCEPT ![r] = @ + 1]
    /\ UNCHANGED <<db, held, wf, batch, nextDecision, faults, overwrites, history>>

(* A workflow that is over takes no signal. *)
Signal(r) ==
    /\ posted[r] > 0
    /\ posted' = [posted EXCEPT ![r] = @ - 1]
    /\ wf' = [wf EXCEPT ![r].signal = @ \/ wf[r].at \notin {"returned", "failed"}]
    /\ UNCHANGED <<db, held, batch, nextDecision, bounds, history>>

(* answer_decision: the decision is no longer pending; "cancel" makes the   *)
(* project CANCELLED.                                                       *)
Answer ==
    /\ db.active # 0
    /\ \E cancelled \in BOOLEAN : db' = [db EXCEPT !.active = 0, !.cancelled = cancelled]
    /\ answered' = answered \cup {db.active}
    /\ UNCHANGED <<held, wf, batch, posted, nextDecision, bounds, passed>>

(* A question of the project itself: a cost, an address. *)
OtherDecision ==
    /\ db.active = 0
    /\ nextDecision <= MaxDecisions
    /\ db' = [db EXCEPT !.active = nextDecision, !.cancelled = FALSE]
    /\ nextDecision' = nextDecision + 1
    /\ UNCHANGED <<held, wf, batch, posted, bounds, history>>

(* A handler that gives the project another status, CANCELLED or not. *)
OtherStatus ==
    /\ db.cancelled
    /\ db' = [db EXCEPT !.cancelled = FALSE]
    /\ UNCHANGED <<held, wf, batch, posted, nextDecision, bounds, history>>

(* A handler that reads the document, awaits a provider and saves its copy. *)
HoldCopy ==
    /\ held = {} /\ overwrites < MaxOverwrites
    /\ held' = {db}
    /\ UNCHANGED <<db, wf, batch, posted, nextDecision, bounds, history>>

WriteCopyBack ==
    /\ \E d \in held : db' = d
    /\ held' = {}
    /\ overwrites' = overwrites + 1
    /\ UNCHANGED <<wf, batch, posted, posts, nextDecision, faults, history>>

-------------------------------------------------------------------------------

WorkerStep(r) ==
    \/ Begin(r) \/ Advance(r) \/ Resume(r) \/ BatchEnds(r) \/ Fail(r)
    \/ AttemptLost(r) \/ Wake(r)

Next ==
    \/ \E r \in Runs : WorkerStep(r) \/ Start(r) \/ PostResume(r) \/ Signal(r)
    \/ Answer \/ OtherDecision \/ OtherStatus
    \/ HoldCopy \/ WriteCopyBack

Spec == Init /\ [][Next]_vars

(* Temporal dispatches what is scheduled and the worker is restarted; a     *)
(* request that was accepted goes on to signal.  No user has to answer or   *)
(* to ask for a resume.                                                     *)
Fairness == \A r \in Runs : WF_vars(WorkerStep(r)) /\ WF_vars(Signal(r))

FairSpec == Spec /\ Fairness

-------------------------------------------------------------------------------
(* Safety *)

(* Every copy of a run there is: stored, held, or worked on.                 *)
RunCopies(r) == {db.run[r], batch[r].run} \cup {d.run[r] : d \in held}

(* Tasks are executed in the order of their dependencies, and a run is       *)
(* COMPLETED only with an observation of every task, the one a replan        *)
(* appended to a graph half done included (runtime.py:179).                  *)
WorkInOrder ==
    \A r \in Runs : \A run \in RunCopies(r) :
        /\ \A t \in run.observed : t \in TasksOf(run) /\ run.needs[t] \subseteq run.observed
        /\ run.status = "COMPLETED" => run.observed = TasksOf(run)

(* Temporal "owns durable workflow execution", PostgreSQL is "authoritative" *)
(* (docs/runtime-topology.md:3), and the two agree: whatever attempts are    *)
(* lost and repeated, a workflow that has returned leaves no run open, and   *)
(* one that waits has a run that waits.  Only a handler that writes its old  *)
(* copy back can part them.                                                  *)
RunAndWorkflowAgree ==
    \A r \in Runs : overwrites = 0 =>
        /\ wf[r].at = "returned" => db.run[r].status \in Terminal
        /\ wf[r].at = "wait" => db.run[r].status = "WAITING_FOR_DECISION"

(* A run moves forward only: what has been observed is not forgotten, a      *)
(* graph is only extended, and a run that is over stays as it is.            *)
RunsMoveForward ==
    [][\A r \in Runs : overwrites' = 0 =>
          /\ db.run[r].observed \subseteq db'.run[r].observed
          /\ db.run[r].status \in Terminal => db'.run[r] = db.run[r]]_vars

(* Liveness *)

(* A workflow that was started returns, fails, or waits for its user: no     *)
(* sequence of batches, replans and lost attempts goes on for ever.          *)
RunsComeToRest ==
    \A r \in Runs : wf[r].at \in Activities ~> wf[r].at \in {"wait", "returned", "failed"}

(* A resume request the API accepted ("RESUMED", main.py:881) takes effect:  *)
(* its signal is not lost, even if it comes while the workflow has not yet   *)
(* learned that the run waits.                                               *)
ResumeTakesEffect ==
    \A r \in Runs : posted[r] > 0 /\ db.run[r].status = "WAITING_FOR_DECISION"
                    ~> \/ db.run[r].status # "WAITING_FOR_DECISION"
                       \/ overwrites > 0 \/ wf[r].at = "failed"

-------------------------------------------------------------------------------
(* Refinement: a run is resumed only after what its user has answered,      *)
(* through early, repeated and late signals, lost attempts, decisions it    *)
(* shares with other runs, and stale copies.                                *)
Gate == INSTANCE QuestionGate WITH Decisions <- DecisionIds
AskFirst == Gate!Spec
===============================================================================
