# Verification of MIREYE

MIREYE is a land-diligence service: a user describes a project, names candidate
sites, and the program looks the sites up, quotes the evidence it would buy, asks
the user, pays a provider for that evidence, and ranks the sites; agents run over
the project, and every change of it is published as a domain event. These modules
model the parts of it in which state is shared between requests, processes or
messages, and say what must hold of them. TLC checks each model on small
instances; TLAPS proves the safety properties that matter most for every
instance. All paths below are relative to the repository; `app/` stands for the
Python package that holds the program.

## 1. The system

### 1.1 Components

| Component | State it keeps | Operations | Talks to |
|---|---|---|---|
| Diligence service (`app/diligence.py`) | one document per project: candidates, spend plan, metered operations, decisions, RFIs, snapshots, refresh runs, orchestration runs | create, plan evidence, quote, resolve, answer a decision, fetch, link snapshots, RFIs, user evidence, refresh | MIREYE client, store, world builder, every HTTP handler |
| Document store (`app/infrastructure/db/postgres.py`) | a row per project, the outbox rows | get, save (state and events in one transaction), notifications | diligence service, publisher |
| Outbox publisher (`scripts/event_worker.py`, `app/infrastructure/outbox.py`) | `published_at` per event | claim a batch, publish, mark | store, JetStream |
| Event consumer (`app/infrastructure/jetstream.py`, `scripts/event_consumer.py`) | `processed_events`: the claim on each event | claim, handle, complete, release, acknowledge | JetStream, store, graph projector |
| Orchestration (`app/ai/runtime.py`, `app/application/orchestration/temporal.py`) | runs inside the project document; the workflow's history | begin, advance, resume, fail, wait for a signal | diligence service, model providers |
| Readiness and changes (`app/project_intelligence.py`, `app/project_changes.py`) | gaps and their status inside the document, rows of changes | recompute coverage, gaps, actions and readiness; record what a refresh changed | diligence service |
| Workspace (`app/workspace/store.py`, `engine.py`) | sites, snapshots, spend plans, worlds, scenarios and revisions, the ledger of observations, the log of differences | get or create a site, insert, revise, observe, replay, check stored against live | diligence service, sandbox, MCP server |
| Site snapshots (`app/sandbox.py`) | immutable snapshots of a site's evidence, refresh plans | look up, judge freshness, quote, confirm, fetch in batches, carry evidence | MIREYE client, workspace, scenarios |
| Scenarios, evaluation, proposals (`app/sandbox_scenarios.py`, `sandbox_evaluator.py`, `sandbox_proposal.py`) | revisions of scenarios, evaluation runs | create, append, branch, evaluate, place | workspace, world builder |
| Sandbox agent (`app/sandbox_agent.py`) | sessions in memory, one per conversation | chat: rounds of a model and its tools | all of the above |
| Worlds (`app/world.py`) | world snapshots: the layers around a site | build, reuse, store by content, anchor a scene | public providers, workspace |
| Project graph (`app/ai/memory/graph.py`) | claims and their links | project a document, record a validated claim, query | event consumer, agents |
| Specialists (`app/ai/agents`, `tools/policy.py`, `evaluation/verifier.py`) | none | a task of a run: context, tool calls, claims and their verification | orchestration, graph |
| Product requests (`app/product.py`) | open requests, in memory | resolve, select a place, quote, confirm, retrieve | MIREYE client |

The rest of the repository (grid capacity estimates, discovery of parcels, front
end, authentication glue) is listed in `PROJECT.json` with the reason it is not
modelled.

### 1.2 What makes it hard

* **One document, many writers.** A project is stored as one document. Every
  handler reads all of it, changes its copy and writes all of it back; nothing
  checks the version it read. A handler that awaits a provider holds its copy
  across the await, other handlers of the same event loop run meanwhile, and what
  they saved is overwritten. Money is spent in such handlers.
* **Money is spent between two saves.** Approval, the mark EXECUTING, payment and
  settlement are separate saves with awaits between them; a process can die after
  any of them.
* **A restart finds marks, not processes.** Nothing resumes a paid operation that
  was under way. What a later request may do follows from the marks alone.
* **Messages come twice.** Rows are sent by publishers that skip what another has
  locked, and whose own locks end with the claim; the stream forgets duplicates after its window; the consumer hands a
  message out again when a handler is slow; claims are taken over by age.
* **What was true when it was read.** Evidence ages while requests are open; a
  parcel, a requirement or an answer changes while a provider or a model thinks. What
  was judged on the old state is stored beside the new one.
* **Two processes, one database.** The API, the MCP server and the worker write the
  ledger and the graph with transactions that read first and write later.
* **Deliveries are counted.** A delivery that finds the claim busy counts like one
  that failed.

### 1.3 What makes each component correct

* Diligence service: no site is paid for without the user's approval of that plan;
  an approval is spent once; a cancelled plan is never run; an answered decision
  stays answered; lookups are bounded; the plan and its operation agree; every
  accepted call ends.
* Event pipeline: an event is in the stream only if its transaction committed, and
  a row is marked only if it is; events of a project keep their order while
  one publisher claims at a time; one handler at a time; acknowledged means completed; a failed handler is retried; no
  committed event waits forever.
* Orchestration: a run's life moves forward only, its tasks in the order of their
  dependencies; it goes on past a question only when that question is answered;
  a workflow that has ended leaves no run open.
* Snapshots and scenarios: what is confirmed is fetched once; every record names the
  response it came from; one site per parcel; a refresh evaluates every scenario it
  affects; what a session shows has been stored.
* Readiness, ranking, evaluation: nothing passes, is ready or wins except on evidence
  that is there, of the right scope, and current; nothing is dropped.
* Ledger, graph, worlds: versions count, a replay of the past stays as it was, one
  active outcome per requirement, layers of a world fit together.
* Specialists and product requests: what is recorded was verified; what is retrieved
  was shown with its price.

## 2. Plan

| Step | Module(s) | Content |
|---|---|---|
| 1, done | `MeteredSpend`, `Enrichment`, `MCEnrichment`, `Enrichment_proofs`, `SetTheorems` | the paid part of a project |
| 2, done | `EventLog`, `EventDelivery`, `MCEventDelivery`, `EventDelivery_proofs` | domain events from the save to the handler |
| 3, done | `QuestionGate`, `Orchestration`, `MCOrchestration`, `Orchestration_proofs` | the agents' runs, the Temporal workflow around them, decisions and resume signals |
| 4, done | `SiteRefresh`, `MCSiteRefresh`, `SiteRefresh_proofs` | snapshots of a site, their metered refresh, the scenarios that depend on them |
| 5, done | `SandboxAgent`, `MCSandboxAgent`, `SandboxAgent_proofs` | chats that share a session, the scenarios they store |
| 6, done | `SiteActions`, `CandidateDecision`, `ProjectIntelligence`, `SiteEvaluation`, `Worlds`, `Ledger`, `ClaimGraph`, `SpecialistTask`, `ProductRequests`, `MCParts`, `Records_proofs`, `Parts_proofs` | nine parts that share no state in their models |

Left: the local mode of the runs, in which `run` and `resume` loop in the process that
serves the request; the comparison of scenarios; the collection of public sources and
the views built from it.

Abstract specifications: `MeteredSpend` for 1, `EventLog` for 2, `QuestionGate` for
3. `Enrichment`, `Orchestration`, `SiteActions` and `CandidateDecision` change different
parts of the one document. Each models the stale copies that can undo its own part;
their product is beyond TLC.

## 3. The paid part of a project: `Enrichment`

### 3.1 State and code

| Model | Code |
|---|---|
| `db` | the stored `DiligenceProject` document, reduced to what decides control |
| `db.cand[c]` | `reconciliation_status` of the candidate at position `c` |
| `db.plan` | `spend_plan`: its id, status, `approved_decision_id`, and the candidates its request names |
| `db.lookup[c]`, `db.fetch[s]` | `metered_operations` by their request: a lookup of one candidate, a fetch of a set of candidates |
| `db.active`, `db.history` | `active_decision`, `decision_history` |
| `call[h]` | a request being served: the await it stands at and the copy of the document it holds |
| `expired` | plans whose `expires_at` has passed |
| `approvals`, `answered`, `cancelled`, `paid`, `lookups` | not in the code: what the user has said and what the provider was paid for |

A step is what a handler does between two awaits, saves included. Requests:
`ResolveAndQuote`, `SelectResolution`, `ResolveCandidate`, `AnswerContinue`,
`AnswerCancel`, `AnswerAddress`, `AgentDecision`, `AnswerAction`,
`ConfirmRequest`, `LinkExistingSnapshot`, and `HoldCopy` for the handlers that
read, await something else and write everything back. What follows an await:
`EvidencePlanned`, `LookupReturned`, `Quoted`, `CandidateResolved`,
`FieldsSelected`, `BatchReturned`, `WriteCopyBack`, `AwaitFails`. The environment:
`QuoteExpires`, `Crash`, `ApprovedThenCrash` (a crash after the approval is saved
and before the fetch of the same request).

### 3.2 Abstractions

* A request of a fetch is the set of candidates it names; two requests are
  equivalent exactly when their keys are.
* Requirements are READY throughout: `resolve_and_quote` raises at once otherwise
  and changes nothing.
* The awaits of the field catalog and of the quotes are one await: nothing is
  saved between them.
* `confirm_and_fetch` has a branch for an operation that has already SUCCEEDED
  under a plan still QUOTED (`diligence.py:1348`). `PlanAgreesWithOperation`
  shows that no document has that shape, so the branch is folded into the
  refusal.
* The project's status, ranking and intelligence are not read by these handlers
  and are left out. So is the wording of errors: a call returns or raises.

### 3.3 Properties

`MeteredSpend` is what the machinery promises: approve, and pay only what is
approved; with `Once`, pay each site once per approval. `GatedSpending` and
`SpendingOnce` say that `Enrichment` implements the two.

| Run | Instance | Shows |
|---|---|---|
| `EnrichSequential` | one call at a time, 2 candidates, one of them a point, batches of one, 2 plans, 1 decision, a crash, fairness; 340 thousand states | `DecisionsStand`: an approval pays once, a cancelled plan is never paid, answers are kept, at most two lookups; `SpendingOnce`; every accepted call ends |
| `EnrichOverlap` | two calls, one overlap, 2 plans, a crash; 509 thousand states | whatever stale copy is written back, payment needs the user's approval of that very plan; the approval flag is never forged; plan and operation agree; `GatedSpending` |
| `EnrichOverlapPays` | two overlapping calls | **violated**: `OnePaymentPerApproval` |
| `EnrichQuote` | 2 candidates | **violated**: `FetchStaysWithinQuote` |

The bounds: with two plans a plan is quoted, cancelled or expires and is quoted
again; two candidates in batches of one exercise the loop of the fetch and its last
turn, and a failure between two paid batches; one overlap is the smallest number that
lets a stale copy be written, and a call of any kind may be the overlapped one.
Attempts are counted by the code itself (`RetryLimit`); `PaidCap` and `LookupCap` only
stop the history counters above the values the properties tell apart. MaxPlans and
MaxDecisions appear as guards in `Quoted` and `TakesDecisionId`.

What the violations show. **Overlap**: a handler that held its copy across an
await writes the still pending decision back, the same approval is answered and
paid for a second time (`diligence.py:2121` saves unconditionally). **Quote**:
the candidates to fetch are read from the document when the plan runs
(`diligence.py:1356`); a candidate resolved since the quote is fetched under it.

Met while modelling and visible in the model, without a run of their own: a quote
that is found again is returned although it has expired (`diligence.py:1226`);
an operation marked EXECUTING stays so when the field catalog call fails
(`diligence.py:1352`–`1354`); a cancelled plan stays QUOTED and is found again by
the next quote, which then asks nothing; a pending decision may be about a plan
that `SelectResolution` has dropped; a rejected parcel match keeps its SUCCEEDED
lookup, whose result the next quote copies over the rejection (`diligence.py:1181`); a
question is dropped while an older one is pending (`diligence.py:1802`); a candidate
whose lookup is EXECUTING after a crash makes the loop raise, and the others get no
quote (`diligence.py:1128`).

### 3.4 Fairness

`FairSpec` assumes weak fairness of the continuation of each call. The MIREYE and
model clients have timeouts, so every await ends in a result or an exception, and
an event loop runs what is ready. Nobody is assumed to ask for anything.

### 3.5 Proofs (`Enrichment_proofs`)

For all numbers of candidates, calls, overlaps, plans, decisions and crashes:
`TypeCorrect` (`TypeOK`), `Gated` (`FetchOnlyApproved`), `GenuineApprovals`
(`ApprovalIsGenuine`), `PlanAgrees` (`PlanAgreesWithOperation`) and `Refinement`
(`GatedSpending`).

`FetchOnlyApproved` is not inductive: a batch that is sent is paid under the plan
of the copy the call holds, so something must be known of copies. The invariant
is about every document there is, the stored one and the copy of every call:
each is well formed (a pending cost decision names a plan, a lookup that succeeded
has a result, a plan has the status of its operation), an approval flag in any of them is genuine, and a call at "select"
or "batch" holds a document whose plan is approved. Reading, holding and writing
back a whole copy preserves a statement about all copies; this is why the gate
survives the lost updates that break `OnePaymentPerApproval`. `SetTheorems` holds
the facts on least and greatest members of finite sets that the proofs cite.

What stale copies do break is proved where they cannot arise, that is under the
hypothesis `MaxOverlaps = 0`: `SequentialDecisions` (`DecisionsStand`, that is
`OnePaymentPerApproval`, `CancelledNeverPaid`, `AnswersKept`, `LookupsBounded`) and
`SequentialSpending` (`SpendingOnce`). The run `EnrichOverlapPays` refutes the first
without that hypothesis, so it cannot be dropped. Two calls are never under way together
then, but one may still die between two saves, and what it had paid for is found by the
next. The invariant (`SequentialInvariance`) sets each document, stored or held, against
the history: a pending decision was never answered, and one about money is about a plan
neither approved nor cancelled; every paid lookup was counted as an attempt; a plan that
could still be fetched has paid for nothing. A fetch under way (`Underway`) is marked
EXECUTING in the store too, so that whoever finds it after a crash does not start it
again, and it has paid for none of the candidates it has yet to send. `CallsReturn`, a
liveness property, is out of the prover's reach.

## 4. Domain events: `EventDelivery`

### 4.1 State and code

| Model | Code |
|---|---|
| `outbox[e]` | the event's row in `outbox_events`: in an open transaction, rolled back, committed, published |
| `publisher[p]` | one `event_worker` process: the rows its query has found and still has to lock, the batch it works on, and whether its first row is sent |
| `msg[<<e, k>>]` | the `k`-th message of the event in the stream, with the consumer's delivery count (JetStream, external) |
| `processed[e]` | the row of `processed_events`; "stale" is a `processing` row older than five minutes |
| `worker[w]` | one `event_consumer` process: its place in `handle`, and the message it handles |

Events are numbered in the order of `occurred_at`. `Append`, `Commit` and `Abort`
are the transaction of a save: the upsert of the project row precedes the outbox
inserts, so two transactions of a project do not overlap. A claim (`FOR UPDATE SKIP
LOCKED LIMIT`) is `ClaimRows`, what the query finds; `LockRow`, one row after the other
up to the limit, those that another claim has locked or that were published meanwhile
left out; and `EndClaim`, with which the connection and its locks end. `Publish` and
`MarkPublished`, which waits for a row's lock, are the rest of the publisher's loop; `ClaimEvent`, `HandlerReturns`,
`HandlerRaises`, `Complete`, `Ack`, `Release`, `Nak` the consumer's, each with the
failure of its database or NATS call, where the effect may have happened or not.
`Deliver` and `AckWait` are JetStream; crashes, restarts and the ageing of a claim
are the environment.

### 4.2 Abstractions and assumptions

* The claim's insert and the select that follows a conflict are one step; they are
  in one transaction on one row.
* `Limit` stands for the 100 rows of a claim. With 1 every claim is cut off, with 2
  none is.
* Messages waiting in the client's buffer are not delivered yet. Compose starts one
  consumer; two stand for a restart in which the new process runs before the old
  one has stopped.
* `Pace` says how long a handler takes: "quick", within the acknowledgement wait;
  "slow", longer, but less than the five minutes after which a claim may be taken
  over; "stuck", longer than that. The only handler there is projects a document
  into the graph, which is quick or slow.
* `ClaimGrowsStale` requires that no message of the event is still to be delivered,
  unless no consumer runs: five deliveries with their backoff end in less than five
  minutes. Without a running consumer any time may pass.

### 4.3 Properties

`EventLog` is what the pipeline promises of handling: only committed events, one
handler at a time, never again after a recorded completion. `OrderlyHandling` says
that `EventDelivery` implements it.

| Run | Instance | Shows |
|---|---|---|
| `EventsOnce` | 2 events of a project, 1 publisher, 2 consumers, slow handlers, 2 copies of a message, a failing handler, a failing call, a crash, 2 deliveries; 595 thousand states | acknowledged means completed; `OrderlyHandling`, from which one holder follows; order in the stream |
| `EventsLive` | 2 publishers, claims of one row, 1 consumer, the same failures, fairness; 341 thousand states | nothing lost or invented; a failed handler is retried; every committed event settles |
| `EventsCrash` | 1 event, 1 crash, 5 deliveries | **violated**: `EveryEventHandled` |

Two deliveries are the smallest number in which a message is handed out again and
can be exhausted; the run that refutes uses the code's five. Two copies are what
one lapse of the duplicate window makes. `FailuresAreRetried` is checked with one
copy per event and speaks of executions in which only the handler fails.

The order of the stream is that of one publisher, which is what Compose runs. With two,
a claim skips the row the other has locked and may take, and send, a later event of the
same project first: `StreamInProjectOrder` is no invariant then, and the run with two
publishers does not have it. A second publisher costs nothing else: an event is in the
stream when its row is marked, and settles.

What the violation shows: a consumer that dies after its claim leaves a
`processing` row. The message is handed out again at once, finds the claim busy,
and is negatively acknowledged; each of these deliveries counts towards
`max_deliver` (`jetstream.py:98`), and the five are spent long before the claim
may be taken over. The event stays unhandled, with the row `processing` for good.

A handler that is "stuck" breaks `AckedMeansCompleted` and `OneHolderAtATime`,
because `release` and `complete` ask who holds nothing: this is the hazard listed
at `outbox.py:67`, and the reason the theorems assume `Pace # "stuck"`. TLC finds
the violation with one crash, two copies and one failing handler.

### 4.4 Fairness

Weak fairness of each publisher's loop, of each consumer's steps and its restart
(Compose: `restart: unless-stopped`), and of the NATS server's deliveries. No save,
no takeover and no failure has to happen.

### 4.5 Proofs (`EventDelivery_proofs`)

For every number of events, projects, processes, copies, deliveries and faults:
`TypeCorrect` (`TypeOK`), `NothingLost` (`PublishedIsInStream`); `ProjectOrder`
(`StreamInProjectOrder`) of the behaviours in which no two claims overlap
(`[]ClaimsApart`), and `OnePublisherOrder`, the same of every behaviour of one publisher;
and, if no handler is stuck, `Acknowledged`
(`AckedMeansCompleted`), `OneHolder` (`OneHolderAtATime`) and `Refinement`
(`OrderlyHandling`).

Three inductive invariants. `ClaimsOK` is `OneWorkerEach` (two consumers do not work
on one event), `ClaimsHeld` (who works on an event finds its row `processing`, who
is about to acknowledge finds it `completed`) and `AckedMeansCompleted`; the ageing
of a claim is the step that would break it, and its guard is what `Pace` excludes.

`StreamOK` is `OutboxOK` (events are stamped in order, and the transactions of a project
follow each other), `PublishersOK` (the rows found or in a batch are committed, a row is
sent before it is marked, and only a claim under way has found rows), `MessagesOK` (only
committed events have messages) and `PublishedIsInStream`. It holds however the claims of
several publishers overlap.

`OrderOK` is `ClaimsInOrder` (rows are claimed from the first on, and every earlier row of
the same project is found or in the batch as well, or already in the stream) and
`StreamInProjectOrder`. A claim made while another holds locks skips the locked rows and
breaks `ClaimsInOrder`, so it is kept by the steps from states in which `ClaimsApart` holds
(`NextOrder`), and the theorem is about behaviours that stay there; with one publisher
there is no other claim and `OnePublisherOrder` has no such condition. The liveness
properties are checked by TLC only.

## 5. The agents' runs: `Orchestration`

### 5.1 State and code

| Model | Code |
|---|---|
| `db.run[r]` | the run in `orchestration_runs` of the document: status, tasks with their dependencies, the tasks observed, `replans`; `asked` is the decision it waited for last |
| `db.active`, `db.cancelled` | `active_decision`; whether the project's status is CANCELLED |
| `wf[r]` | the Temporal workflow: the activity under way or what it waits for, lost attempts of the activity, `_decision_received` |
| `batch[r]` | the copy of the run that `_execute` works on while it awaits its specialists |
| `held` | the copy of the document that a handler of the API holds across an await |
| `posted`, `posts` | resume requests between their checks and the signal; requests accepted so far |
| `answered`, `passed` | not in the code: what the user has answered; after which decisions a run was resumed |

`Begin`, `Advance`, `Resume` and `Fail` are the activities; `Advance` and `Resume` end
at the await of the specialists, and `BatchEnds` is everything after it, with its
three outcomes: the batch is done, one of its tasks asks, one of them raises.
`Proceed` is what `advance` and `resume_batch` share. `AttemptLost` and the second
disjunct of `Reports` are the two ways an attempt is lost: before it has saved, and
after. `Wake` and `Signal` are the workflow's wait and its signal handler. `Start`,
`PostResume`, `Answer`, `OtherDecision`, `OtherStatus`, `HoldCopy` and
`WriteCopyBack` are the HTTP application.

### 5.2 Abstractions and assumptions

* Only the mode with Temporal is modelled. Temporal is external: an attempt that
  fails in a way the policy retries is followed by another, `maximum_attempts` times
  in all; other failures, and the last, reach the workflow's `except` clause.
* Attempts of an activity do not overlap. A specialist makes two model calls of at
  most two minutes each, and an attempt is given up after ten.
* A plan is any valid graph of at most `NumTasks` tasks. In a valid graph some task is
  ready until all are observed, so the error "No executable task remains" cannot
  arise and has no action.
* A task may be found wanting by the verifier, ask, or raise, whatever it is about;
  claims, evidence, accounting and the run's list of events are left out.
* The two awaits of `begin` are one step: nothing is saved between them.
* `passed` records that a run was resumed. A copy written back may make a run forget
  that it ever asked; nothing can be said of that question afterwards.

### 5.3 Properties

`QuestionGate` is what the runtime promises of questions: a run goes on past a
decision only after the user has answered it. `AskFirst` says that `Orchestration`
implements it.

| Run | Instance | Shows |
|---|---|---|
| `OrchRuns` | 1 run, plans of up to 2 tasks and a replan, 2 decisions, 2 resume requests, 1 lost attempt, 1 stale copy, fairness; 500 thousand states | tasks in order; the run and its workflow agree; nothing is forgotten or reopened; every workflow comes to rest; an accepted resume takes effect; `AskFirst` |

Two tasks make both a chain and a parallel batch, and the replan adds a third; two
decisions and two requests let a late signal of the first question arrive at the
second; a lost attempt is lost before or after it has saved; one stale copy is enough
to bring a pending decision or a waiting run back. More runs that share the decision
are left to the proofs, which hold for any number of everything.

`RunAndWorkflowAgree` and `RunsMoveForward` are stated for executions in which no
stale copy has been written back: `_save` of the diligence service writes the whole
document (`diligence.py:2124`), so a handler that awaited a provider undoes whatever
the worker has saved meanwhile, a finished run included. `AskFirst` needs no such
condition.

Met while modelling and visible in the model, without a run of their own: a signal
that comes late resumes the next question too early, which fails the run
(`runtime.py:162`) while its question stays pending; a run that asks while another
decision is pending is given that decision, and its own question is dropped
(`diligence.py:654`); a decision in a parallel batch drops what later tasks have found
(`runtime.py:266`); a project that was cancelled may be given another status before
the run is resumed, which then goes on (`runtime.py:155`); `resume_batch` saves the run
as RUNNING and then advances, so when that attempt is lost the next one finds a run that
is not waiting and raises an error that is not retried: the workflow fails the run,
although nothing was wrong with it, and of the five attempts that
`docs/runtime-topology.md` gives a resume only the first could succeed
(`runtime.py:152`); the event stream of a run whose `begin` has failed for good polls for
ever (`main.py:897`).

### 5.4 Fairness

Weak fairness of each run's worker (Temporal dispatches what is scheduled, the worker
process is restarted, every await of a model or store call is bounded) and of the
signal of a request that was accepted. No user has to answer, to start a run or to
ask for a resume, and no attempt has to be lost.

### 5.5 Proofs (`Orchestration_proofs`)

For any number of runs, tasks, decisions, requests, lost attempts and stale copies:
`TypeCorrect` (`TypeOK`), `Order` (`WorkInOrder`), `Agreement`
(`RunAndWorkflowAgree`), `Progress` (`RunsMoveForward`) and `Refinement` (`AskFirst`).
The only assumption is that the bounds are natural numbers.

Two inductive invariants. `IInv` speaks of every copy of the document, the stored one
and a held one, and of every copy of a run a batch works on. `WorkInOrder` needs the
number of tasks bounded by the plan and the replans, or a replan would leave the
type; `AskFirst` needs `Waits`: in every copy, a run that waits does so for a decision
that is pending in the same copy, or that was answered. A decision is shared by the
run and the document, and both are written back together, which is why a stale copy
does no harm here; with `active_decision` empty, as `resume_batch` requires, what is
left is the answered decision. `OwnInv` adds, until a stale copy is written back, what
a workflow knows of its run: one that has not begun has nothing observed, one that
waits or has returned has a run that agrees, and a batch works on the run as it is
stored. Only a run's own worker changes the run or the workflow (`WorkersApart`), so
each activity has to be looked at for its own run only.

`RunsComeToRest` and `ResumeTakesEffect` are liveness properties and checked by TLC
only.

## 6. Snapshots of a site and their scenarios: `SiteRefresh`

### 6.1 State and code

| Model | Code |
|---|---|
| `snapshots` | `site_snapshots`, each with its site and evidence; a record has a value, the snapshot whose response it came from, and `carried_from_snapshot_id` |
| `sites` | `sandbox_sites`, numbered in the order of their creation |
| `expired` | the records whose `expires_at` has passed |
| `plans` | `mireye_spend_plans` of refreshes |
| `jobs` | the confirmed refresh that awaits the provider: its batches and what it has so far |
| `revisions`, `runs` | `scenario_versions`, `scenario_evaluation_runs` |
| `fetches` | not in the code: batches paid for under each plan |

`CreateSnapshot`, `QuoteRefresh`, `Confirm`, `FetchBatch`, `RefreshFails`,
`RefreshMismatches` and `RefreshEnds` are `SiteSnapshotService`; the await between two
batches is where other requests come in. `CreateScenario` and `AppendRevision`
are `ScenarioService`, and `Revalidated` is its `revalidate_after_refresh`. What follows
the last await is several transactions: the second disjuncts of `CreateSnapshot` and
`RefreshEnds` are ends of the process between two of them. The predicates of the
evaluation are reduced to their gate, fresh evidence; section 8 models them.

### 6.2 Properties

| Run | Instance | Shows |
|---|---|---|
| `SiteRefreshes` | 2 fields, batches of two, one scenario of 2 revisions that depends on one of them, 2 interchangeable parcels, one lookup and two refreshes, two records past their TTL, one fault; 960 thousand states | `EvidenceIsTraceable`: types, provenance of every record, one site per parcel; `FetchedOnce`; `RefreshRevalidates` |
| `SiteVerdicts` | a revision that depends on both fields, one parcel, one batch, no fault | **violated**: `RunTellsSnapshot` |

The identity fields and two fields make two batches of at most two, so that a failure
can come between them; the second refresh may build on the first one's snapshot or on
the one before, which is what carrying evidence twice needs.

What the violation shows: `_merge_refresh_evaluation` (`sandbox_scenarios.py:204`)
replaces the affected results in the evaluation the revision was designed with. After
two refreshes, of which the first changed one field and the second another, the run of
the second says of the first field what was true before both, although
`docs/future-tech-stack.md:77` has a refresh re-evaluate the affected scenarios.

Met while modelling: of two plans quoted from one snapshot the one confirmed second
builds on the old snapshot, and the newest snapshot lacks what the first refreshed
(`sandbox.py:840`); two sessions that append to one scenario drop each other's change
from the head (`sandbox_scenarios.py:111`).

### 6.3 Proofs (`SiteRefresh_proofs`)

For all numbers of fields, batches, parcels, lookups, plans and faults: `Traceable`
(`EvidenceIsTraceable`), `Once` (`FetchedOnce`) and `Revalidates` (`RefreshRevalidates`).

The invariant has a part for each store. Snapshots: `ProvenanceTrue` and `OneSitePerParcel`
themselves, and no site number above the count of sites, so that a first lookup of an
unknown parcel makes a new site. Plans: a refresh is under way only for a plan that is
CONFIRMED, nothing was fetched under one that is QUOTED or EXPIRED, and what was fetched
and what is left are together at most the plan's batches; `FetchedOnce` needs all three,
because a confirmation that comes again is refused by the status and not by the count.
`Revalidates` is read off the last step of a refresh, in a state of which this holds.

## 7. Chats with the sandbox agent: `SandboxAgent`

`sessions` is `InMemorySandboxSessions`: the layout, the world it is anchored in, the
evaluation shown, the active scenario and its constraints. `chats` holds, of each
request, whether it awaits the model or a tool, what it needs to guard an alternative,
the rounds left, and the session as it was before an awaited tool. `scenarios` is the
store. `Start` is `chat` up to its first await, `Turn` one reply of the model or of an
awaited tool. The tools are grouped by what they do to session and store:
`ChangeLayout` (placing, optimizing, transforming, removing, resetting),
`EvaluateScenario`, `BranchScenario`, `ReadTool`, and the awaited `CallLifecycleTool`,
which answers or fails; a failure puts back the old session over whatever other chats
have made of it.

| Run | Instance | Shows |
|---|---|---|
| `AgentChats` | 2 chats, 1 session, 1 layout and the empty one, 1 world, 3 rounds, 2 scenarios of 2 revisions, an end of the process; 663 thousand states | `ScenariosAreSound`: every stored revision has the evaluation of its own layout on its own constraints, what a session shows was stored, a scenario keeps its world; `EveryChatReturns` |

Two chats and two scenarios are what a rollback over another chat's work needs; three
rounds let a chat anchor, change and evaluate, while ten would only repeat them.

Fairness: each chat's `Turn` is weakly fair, because every await of it is an HTTP call
with a timeout of 120 seconds. The model may answer anything, forever calling tools
included: the rounds and the two guards bound it.

Proofs (`SandboxAgent_proofs`): `Sound` (`ScenariosAreSound`), for all numbers of chats,
sessions, rounds, scenarios and ends of the process. A rollback writes a session back as
it was, so the invariant is about every copy of a session, stored or held by a chat: what
it shows as stored is recorded in the scenarios. Scenarios only grow, so what was
recorded when the copy was made still is. `EveryChatReturns` is liveness and stays with
TLC.

Met while modelling: a model that changes the layout and never evaluates it, through
both guards, makes the chat answer that the layout is unchanged, while the change is
stored and shown (`sandbox_agent.py:608`).

## 8. Nine parts: `MCParts`

The parts below share no state in their models. `MCParts` extends them all, and one run,
`Parts`, explores them, each in behaviours of its own: `which` says whose, and the
variables of the others keep a value without meaning. 1.65 million states. A property of
the run is a conjunction of the properties of its part, each of which has a mutant of its
own.

| Module | State and code | Instance, states |
|---|---|---|
| `SiteEvaluation` | a snapshot's evidence and geometry, a layout, the clock; `evaluate_site` of every kind of constraint (`sandbox_evaluator.py`), `generate_bess_proposal` (`sandbox_proposal.py`) | a parcel in one or two pieces, blocked or not; one record of any status, value, age and scope; 39 thousand |
| `ProjectIntelligence` | evidence, outcomes, gaps and changes of a project; `build_project_intelligence`, `changes_from_refresh`, and the operations of `diligence.py` that recompute, at once or after an await, with the copy they hold meanwhile | 2 sites, one operation under way, one refresh, one step of the clock, by which what was met may expire and a closed gap open again, three requirements, one of them beyond any field; 85 thousand |
| `SiteActions` | RFIs, user evidence, memory and the candidate's snapshot inside the document; the copies of handlers that await | 1 request, 2 waiting handlers, 2 snapshots, an end of the process; 152 thousand |
| `Ledger` | rows of observations, the log of differences, the two processes on them (`workspace/engine.py`, `store.py`) | 2 processes, 2 keys, 2 rows, 2 steps of the clock; 125 thousand |
| `CandidateDecision` | open requirements, candidates, their look-ups, ranking and decision; the copy an operation that awaits holds | 2 candidates, one of them still to be looked up, 2 requirements, one of them vague, one save while a copy is held; 309 thousand |
| `ClaimGraph` | the claims of one requirement in the graph, the document beside it, the transactions of each process (`ai/memory/graph.py`) | 2 processes, 2 saves; 577 thousand |
| `Worlds` | world snapshots, a build under way, a scene and its elevations (`world.py`) | 2 snapshots of one parcel, 2 areas, 2 releases, the 1 m or the 10 m terrain preferred, sources of which one thing fails, a world of an older program; 274 thousand |
| `SpecialistTask` | a batch of tasks with its context, the documents there were meanwhile, the claims recorded (`ai/runtime.py`, `agents/specialists.py`, `tools/policy.py`, `evaluation/verifier.py`) | 2 documents, 5 observations, valid and invalid plans, a lost worker; 56 thousand |
| `ProductRequests` | open requests and the handlers that await for them (`product.py`) | 1 request, 2 handlers, 2 places, 3 quotes, 2 confirmations; 39 thousand |

What they promise:

* `EvaluationIsSound`: a constraint passes only on evidence that was there, of the
  scope it asks for, and current; what a proposal places keeps the setback and what the
  user gave, and is as large as any that is tried allows. `OnlyExpires`: an evaluation
  repeated later loses verdicts to age and never reverses one.
* `ReadyIsProved`: a project is ready only if current evidence meets every requirement
  at that moment. `NothingIsDropped`: where a refresh changes a status, against the
  project it read, a recorded change names the requirement, and a gap is open or closed,
  whatever site is looked at. Gaps saved while an operation awaited are dropped when it
  saves what it has read (`diligence.py:875`, `:1716`): the property allows this of the
  last step of such an operation, which keeps the gaps it read, and of no other step.
* `SiteRecordsAgree`: a request is sent only after its approval and answered only by
  stored evidence; memory is evidence; the candidate's snapshot is reached by refreshes
  whose changes are stored. `LostOnlyToOldCopies` says what breaks under stale copies,
  and that nothing else does: a request goes back, or evidence is lost, only then.
* `LedgerIsTrue`, `ReplayIsFinal`: where no two observations of a key overlapped its
  versions count them; a logged difference is one; a replay of the past stays, but for
  a row stamped and not committed yet (`store.py:770`).
* `DecisionIsEarned`: the winner meets every requirement as it now stands, no other
  enriched candidate does, and the decision is the one that ranking would give. A look-up
  asked for by itself (`resolve_candidate`) takes the status ENRICHED from a candidate,
  the winner too, and is saved without ranking (`diligence.py:1316`): the property counts
  a candidate as enriched that was when it was ranked and has been looked up since.
* `ClaimsAreCurrent`: two readiness claims are never active; a query nobody wrote beside
  has the outcome of the document it read.
* `WorldsAreWhole`: layers cover the area asked for, are of one release and are not
  missing because they once were. Terrain of 1 m gives way to that of 10 m, not the other
  way round: with `prefer_1m` false it takes the 10 m product. And elevations are those of the scene's world.
* `ClaimsAreVerified`: a claim in the graph was proved at one moment by one document,
  observed by the run, and in a completed run none was refused that it rests on.
* `ConfirmedWasShown`: what is retrieved was shown with its quote, unless the last
  quote has no answer yet.

Abstractions: the plane of a parcel is a line, so orientation falls away; a requirement
rests on the fields its policy names; `ClaimGraph` follows one requirement, `Worlds` one
request at a time, `CandidateDecision` one held copy, `SpecialistTask` tasks without
dependencies, which `Orchestration` has. `ProjectIntelligence` has any number of
operations under way (`Callers`), each with the copy it read; the run has one, beside
which the others save, and a plan may have been quoted for an earlier snapshot than the
candidate has when it is confirmed. `CandidateDecision` has the look-ups of
`resolve_candidate` and of `resolve_and_quote`, whose attempts and payments are
`Enrichment`'s; `ToLookUp` says which candidates begin without one, and where `Crowded` is
false at most one save changes the project while a copy is held, which is enough for the
copy to be old. Of the statuses a ranking stores only ENRICHED is told from the others.
A handler or refresh that awaits holds its copy;
which operation or candidate it is for shows in the model when it goes on, for until then
it makes no difference.

### 8.1 Proofs (`Records_proofs`, `Parts_proofs`)

`Records_proofs` proves what is kept in records as theorems of the parts' own
specifications: of `SiteSpec` `InOrder` (`RequestsAreInOrder`), `Grounded`
(`MemoryIsGrounded`), `Explained` (`SnapshotIsExplained`) and `LostToCopies`
(`LossIsToOldCopy`), of the graph's `StaysCurrent` (`OutcomeIsCurrent`), and the invariance
of the ledger. `Parts_proofs` does the same for the other parts and proves what the run
checks, as theorems of `Spec`: a step of `MCParts` is a step of one part (`StepOfPart`)
and leaves the invariants of all the others as they are (`PartsKeep`).

| Theorem | Property | What the inductive invariant adds |
|---|---|---|
| `SiteRecordsStayTrue`, `LossesAreToOldCopies` | `SiteRecordsAgree`, `LostOnlyToOldCopies` | What has to hold of the stored document holds of every copy a handler holds, for any of them may be saved next; while no process has ended the memory of each copy is in the graph, which never forgets. That a snapshot is reached by refreshes is carried by a set of snapshots before it, the first among them, each made from an earlier one of the set by a stored refresh (`LinksTo`) |
| `GraphStaysCurrent` | `ClaimsAreCurrent` | The changes a query knows of are stored ones, the readiness claims it will find active rest on none of them, and while nobody else has written, only the claim of its own document can be active |
| `LedgerStaysTrue`, `ReplaysAreFinal` | `LedgerIsTrue`, `ReplayIsFinal` | Rows never change, so what a server counted among them it can still count; the last version of a key whose observations never overlapped is the number of its rows |
| `ReadinessIsProved`, `ChangesAreNamed` | `ReadyIsProved`, `NothingIsDropped` | Of the document and of every copy an operation holds, for any of them may be saved next: the stored outcome was found on the evidence there is, at some moment past, and the view is what `build_project_intelligence` made of the document at some moment past. A requirement met then on evidence that has not expired is met now |
| `EvaluationStaysSound`, `VerdictsOnlyAge` | `EvaluationIsSound`, `OnlyExpires` | The verdict was reached on this layout at some time past; the cells of a parcel do not meet. The setback is proved of the arithmetic of gaps and insets, not of cases |
| `WorldsStayWhole` | `WorldsAreWhole` | Every stored world fits its area, since any of them may be reused; so does what a build under way has taken over |
| `TaskClaimsStayVerified` | `ClaimsAreVerified` | The context of a batch was read of a document that was the project's at that time; the claims of the tasks observed are in the graph, each proved by such a document |
| `DecisionsAreEarned` | `DecisionIsEarned` | Every copy of a project says so of itself: a candidate was evaluated on its snapshot, and on the requirements as they stand or on some that nobody can meet; the ranking is that of its candidates as they were before the look-ups since, or there is none and nobody to win. A look-up under way is of a candidate that had no answer yet, so that its failure hides no one who was ranked as enriched. A tie is excluded by arithmetic: who passes has the score of the winner, and whoever ranks between two equal scores has it too |
| `ConfirmationsWereShown` | `ConfirmedWasShown` | Of the quotes under way for a request the one asked for last is of the selected place, and any other overlaps one |

Assumed of the constants: `MaxSnapshots` and `Life` (the time an outcome stays usable) are
natural numbers; `Nowhere` is neither a handler nor a place; the candidates are a finite
set of numbers, the requirements are finite, and no vague one is among those
`evaluate_site` decides (the two tables are `REQUIREMENT_GAP_TARGETS` and
`SUPPORTED_CONSTRAINTS`; a vague one may be answered by itself, as `industrial_zoning` is,
and then nobody wins).

The inputs `MCParts` begins with are not assumed. Five theorems of the parts' own actions
say the same for others: `DecisionOfAnySnapshots`, `ReadinessOfAnyEvidence`,
`WorldsOfAnySources` (any layers, providers and fitting stored worlds),
`ClaimsOfAnyDocuments` (any documents, plans, observations and tool requests) and
`EvaluationOfAnySite` (any parcel whose cells do not meet, any layout and constraints).
The dates of records are any; `VerdictsOnlyAge` and `ReadinessIsProved` rest on comparing
them with the clock.

What is defined by a choice is proved to exist. The order of the candidates is a sequence
sorted by their keys; `KeysCanBeSorted` gives one, for a place counted by the smaller keys
is a bijection. Where an induction is needed a least counterexample is taken from
`MinOfNaturals` (`LinkedIsReached`, of the chain of refreshes behind a snapshot).

Met while modelling, without a property: a gap that opens again keeps the status
RESOLVED (`project_intelligence.py:265`); an action of one site is completed by another
(`diligence.py:1759`); two changes of one layer under one snapshot have one identifier,
and the second is dropped (`project_changes.py:226`); the same world built again after
another is not the latest one (`world.py:612`); terrain of unknown datum is reused for
ever (`world.py:533`); the roads provider has no time limit (`world.py:549`); the claim a
refresh brings is contested by the change that brought it (`graph.py:157`); contradicting
agents both stay active, with a save between them or at once (`graph.py:182`, `:183`); a
claim under a used identifier is dropped (`graph.py:193`); the site's identity is read
after the context (`runtime.py:340`); a record without expiry is fresh for the verifier
and unusable for the evaluator (`verifier.py:111`); evidence listed twice counts as
current for the planner (`runtime.py:317`); a confirmation while a quote is out, or sent
twice (`product.py:174`, `:178`); a public layer that answers 200 with an error counts as
having nothing there (`project_readiness.py:210`).

## 9. Proved, checked, left out

Proved for all values of the constants: the theorems of sections 3.5, 4.5, 5.5, 6.3, 7
and 8. They assume only what the `ASSUME`s of the modules say, and for three theorems of
`EventDelivery` that no handler is stuck, for `ProjectOrder` that no two claims of
publishers overlap, for `OnePublisherOrder` that there is one publisher, and for two of `Enrichment` that calls do not
overlap. Every invariant and action property of the passing runs that is safety is stated
by one of them. Model-checked only, within the bounds given there: all liveness, which is
out of the prover's reach (`CallsReturn`, `FailuresAreRetried`, `EveryEventSettles`,
`RunsComeToRest`, `ResumeTakesEffect`, `EveryChatReturns`).

Not modelled:

* MIREYE client, authentication, cache, settings, storage, telemetry: adapters of
  services outside the repository; their outcomes are inputs of the models.
* HTTP application: routes; those with a sequence of their own (responses, resume
  requests) are actions of `SiteActions` and `Orchestration`.
* MCP server: dispatches to the engine; it is one of the processes of `Ledger`.
* Product catalogue and discovery, grid capacity estimates: one step over fixed tables;
  nothing is stored and nothing interleaves.
* Scenario comparison, pages of results, enumeration of candidates, conversion of
  rasters and vectors, tiles and routes, prompts and forms of answers: formatting, or
  geometry over real coordinates.
* The text of claims, documents, word scores and the budget of a context: no stored state
  depends on them.
* Web frontend, migrations, deployment.
