---------------------------- MODULE SiteActions ----------------------------
(* What is done about a site of a project: requests for information, evidence  *)
(* of users, the memory of both, and the refresh of a candidate (diligence.py, *)
(* memory/project.py).  All of it lives in the one stored document.  Handlers  *)
(* without an await run whole unless the process dies between their saves;     *)
(* those that wait for a provider keep a copy of the document meanwhile and    *)
(* save that copy.                                                             *)
EXTENDS Integers, FiniteSets, Sequences

CONSTANTS Rfis,         \* requests that may be drafted
          Details,      \* what a user, or a response, may say
          Waiters,      \* handlers that wait for a provider
          MaxSnapshots, \* bound on refreshes
          MaxDeaths     \* bound on ends of the process
ASSUME SiteAssumption == MaxSnapshots \in Nat

VARIABLES siteDocument, \* the stored project: rfis, evidence, memory, snapshot
          waiting,      \* waiter -> the operation it awaits and its copy
          siteChanges,  \* rows of project_changes: snapshot before and after
          graphMemory,  \* rows of project_memory_records
          snapshots,    \* SiteSnapshots made so far
          deaths
siteVars == <<siteDocument, waiting, siteChanges, graphMemory, snapshots, deaths>>

Nothing == <<>>
NoRfi == [status |-> "NONE", contact |-> FALSE, approved |-> FALSE, answer |-> Nothing]
Idle == [op |-> "idle"]
Ranks == [NONE |-> 1, DRAFT |-> 2, APPROVED |-> 3, SENT |-> 4, RESPONSE_RECEIVED |-> 5]
Rank(rfi) == Ranks[rfi.status]

-----------------------------------------------------------------------------
Changed(r, rfi) == [siteDocument EXCEPT !.rfis[r] = rfi]
SaveRfi(r, rfi) ==
  /\ siteDocument' = Changed(r, rfi)
  /\ UNCHANGED <<waiting, siteChanges, graphMemory, snapshots, deaths>>

CreateRfiDraft(r) ==
  /\ siteDocument.rfis[r].status = "NONE"
  /\ SaveRfi(r, [NoRfi EXCEPT !.status = "DRAFT"])

UpdateRfiDraft(r) ==
  /\ siteDocument.rfis[r].status = "DRAFT"
  /\ \E contact \in BOOLEAN : SaveRfi(r, [siteDocument.rfis[r] EXCEPT !.contact = contact])

MayApprove_AnyStatus(rfi) == rfi.contact
MayApprove(rfi) == rfi.status = "DRAFT" /\ rfi.contact
ApproveRfi(r) ==
  /\ MayApprove(siteDocument.rfis[r])
  /\ SaveRfi(r, [siteDocument.rfis[r] EXCEPT !.status = "APPROVED", !.approved = TRUE])

MaySend_Draft(rfi) == rfi.status \in {"DRAFT", "APPROVED"}
MaySend(rfi) == rfi.status = "APPROVED"
MarkRfiSent(r) ==
  /\ MaySend(siteDocument.rfis[r])
  /\ SaveRfi(r, [siteDocument.rfis[r] EXCEPT !.status = "SENT"])

-----------------------------------------------------------------------------
\* add_user_evidence and put_record: both are found again by their content.
WithEvidence(doc, item) == [doc EXCEPT !.evidence = @ \cup {item}]
WithMemory(doc, item) == [doc EXCEPT !.memory = @ \cup {item}]
Answered(doc, r, item) ==
  [doc EXCEPT !.rfis[r].status = "RESPONSE_RECEIVED", !.rfis[r].answer = item]

\* The saves of a handler in their order; a death lets only some of them happen
\* and takes what is waiting with it.
EvidenceSaves_MemoryFirst(item) ==
  LET remembered == WithMemory(siteDocument, item) IN <<remembered, WithEvidence(remembered, item)>>
EvidenceSaves(item) ==
  LET saved == WithEvidence(siteDocument, item) IN <<saved, WithMemory(saved, item)>>
ResponseSaves(r, item) ==
  LET saved == WithEvidence(siteDocument, item)
      answered == Answered(saved, r, item) IN <<saved, answered, WithMemory(answered, item)>>

\* The memory is written to the graph after its save, and only if it is new.
Perform(saves, item) ==
  \/ /\ siteDocument' = saves[Len(saves)]
     /\ graphMemory' = IF item \in siteDocument.memory THEN graphMemory ELSE graphMemory \cup {item}
     /\ UNCHANGED <<waiting, siteChanges, snapshots, deaths>>
  \/ /\ deaths < MaxDeaths
     /\ deaths' = deaths + 1
     /\ \E done \in DOMAIN saves : siteDocument' = saves[done]
     /\ waiting' = [w \in Waiters |-> Idle]
     /\ UNCHANGED <<siteChanges, graphMemory, snapshots>>

AddUserEvidence(d) == Perform(EvidenceSaves(<<"user", d>>), <<"user", d>>)
RecordRfiResponse(r, d) ==
  /\ siteDocument.rfis[r].status = "SENT"
  /\ Perform(ResponseSaves(r, <<r, d>>), <<r, d>>)

-----------------------------------------------------------------------------
\* refresh_authoritative_sources, ask_mireye_site, build_world_snapshot and
\* confirm_candidate_refresh read the document and await; which of them it was
\* shows when it goes on.
Await(w) ==
  /\ waiting[w] = Idle
  /\ waiting' = [waiting EXCEPT ![w] = [op |-> "await", copy |-> siteDocument]]
  /\ UNCHANGED <<siteDocument, siteChanges, graphMemory, snapshots, deaths>>

\* What comes of the first three does not matter here: the copy is saved.
SaveAnswer(w) ==
  /\ waiting[w].op = "await"
  /\ siteDocument' = waiting[w].copy
  /\ waiting' = [waiting EXCEPT ![w] = Idle]
  /\ UNCHANGED <<siteChanges, graphMemory, snapshots, deaths>>

\* The refresh made a snapshot: its changes are stored, then the document.
RecordedRefresh_Sparse(from, to) == IF to > 1 THEN {} ELSE {<<from, to>>}
RecordedRefresh(from, to) == {<<from, to>>}
SaveRefresh(w) ==
  /\ waiting[w].op = "await"
  /\ snapshots < MaxSnapshots
  /\ snapshots' = snapshots + 1
  /\ siteChanges' = siteChanges \cup RecordedRefresh(waiting[w].copy.snapshot, snapshots')
  /\ \/ /\ siteDocument' = [waiting[w].copy EXCEPT !.snapshot = snapshots']
        /\ waiting' = [waiting EXCEPT ![w] = Idle]
        /\ UNCHANGED deaths
     \/ /\ deaths < MaxDeaths
        /\ deaths' = deaths + 1
        /\ waiting' = [v \in Waiters |-> Idle]
        /\ UNCHANGED siteDocument
  /\ UNCHANGED graphMemory

\* The provider, or the confirmation, refuses.
GiveUp(w) ==
  /\ waiting[w] /= Idle
  /\ waiting' = [waiting EXCEPT ![w] = Idle]
  /\ UNCHANGED <<siteDocument, siteChanges, graphMemory, snapshots, deaths>>

SiteInit ==
  /\ siteDocument = [rfis |-> [r \in Rfis |-> NoRfi], evidence |-> {}, memory |-> {}, snapshot |-> 0]
  /\ waiting = [w \in Waiters |-> Idle]
  /\ siteChanges = {} /\ graphMemory = {} /\ snapshots = 0 /\ deaths = 0

SiteNext ==
  \/ \E r \in Rfis : \/ CreateRfiDraft(r) \/ UpdateRfiDraft(r) \/ ApproveRfi(r) \/ MarkRfiSent(r)
                     \/ \E d \in Details : RecordRfiResponse(r, d)
  \/ \E d \in Details : AddUserEvidence(d)
  \/ \E w \in Waiters : Await(w) \/ SaveAnswer(w) \/ SaveRefresh(w) \/ GiveUp(w)

SiteSpec == SiteInit /\ [][SiteNext]_siteVars

-----------------------------------------------------------------------------
\* Whatever is lost or saved over, a request is sent only after a person has
\* approved it for a known recipient, and answered only by stored evidence.
RequestsAreInOrder ==
  \A r \in Rfis :
    LET rfi == siteDocument.rfis[r] IN
      /\ Rank(rfi) >= 3 => rfi.approved /\ rfi.contact
      /\ rfi.approved => Rank(rfi) >= 3
      /\ rfi.answer /= Nothing <=> rfi.status = "RESPONSE_RECEIVED"
      /\ rfi.answer /= Nothing => rfi.answer \in siteDocument.evidence

\* What the document remembers is evidence it has, and unless the process died
\* the graph has it too.
MemoryIsGrounded ==
  /\ siteDocument.memory \subseteq siteDocument.evidence
  /\ deaths = 0 => siteDocument.memory \subseteq graphMemory

\* The snapshot of the candidate is reached from the first by refreshes whose
\* changes are stored.
SnapshotIsExplained ==
  LET Reached[n \in 0..MaxSnapshots] ==
        n = 0 \/ \E m \in 0..n - 1 : <<m, n>> \in siteChanges /\ Reached[m]
  IN Reached[siteDocument.snapshot]

\* A request goes back, or evidence is lost, only when a handler saves a copy
\* that is older than the document.
LossIsToOldCopy ==
  (\E r \in Rfis : Rank(siteDocument'.rfis[r]) < Rank(siteDocument.rfis[r])) \/ ~(siteDocument.evidence \subseteq siteDocument'.evidence)
    => \E w \in Waiters : /\ waiting[w] /= Idle /\ waiting'[w] = Idle
                          /\ waiting[w].copy /= siteDocument
                          /\ siteDocument' = [waiting[w].copy EXCEPT !.snapshot = siteDocument'.snapshot]
=============================================================================
